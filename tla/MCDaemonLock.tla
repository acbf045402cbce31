---------------------------- MODULE MCDaemonLock ----------------------------
EXTENDS DaemonLock
CONSTANTS p1, p2, p3
============================================================================
