----------------------------- MODULE DaemonLock -----------------------------
(***************************************************************************)
(* The processes of one data directory.  A daemon takes the pid file       *)
(* (daemon.py) before it polls and appends to the audit ledger; the        *)
(* operator's commands append to the same ledger without it.               *)
(*                                                                         *)
(* A process starts the daemon at most once: a restart is another process. *)
(***************************************************************************)
EXTENDS AuditLedger

CONSTANT Daemons    \* the processes that run `signald run`

ASSUME DaemonsAssumption == Daemons \subseteq Procs

VARIABLES
  pidfile,    \* who created the pid file (None: there is none), and its text
  dpc, dseen, \* the step of each daemon, and the pid it has read
  contested   \* history: the pid file was removed from under its creator

daemonVars == <<pidfile, dpc, dseen, contested>>
allVars    == <<ledgerVars, daemonVars>>

Running(d) == dpc[d] = "running"

\* Removing the pid file of another daemon that is starting or running.
RobsDaemon(d) == pidfile.by \notin {None, d} /\ dpc[pidfile.by] \in {"sign", "running"}

DaemonInit ==
  /\ LedgerInit
  /\ pidfile = Free /\ contested = FALSE
  /\ dpc = [d \in Daemons |-> "create"]
  /\ dseen = [d \in Daemons |-> None]

DGoto(d, step) == dpc' = [dpc EXCEPT ![d] = step]

----------------------------------------------------------------------------
(* DaemonLock.acquire *)

CreateShared(d) ==
  /\ dpc[d] = "create" /\ alive[d]
  /\ pidfile' = [by |-> d, pid |-> None] /\ DGoto(d, "sign")
  /\ UNCHANGED <<ledgerVars, dseen, contested>>

Create(d) ==
  /\ dpc[d] = "create" /\ alive[d]
  /\ IF pidfile = Free THEN pidfile' = [by |-> d, pid |-> None] /\ DGoto(d, "sign")
                       ELSE DGoto(d, "read") /\ UNCHANGED pidfile
  /\ UNCHANGED <<ledgerVars, dseen, contested>>

\* _read_pid: None for a file that is gone, or still empty.
ReadPid(d) ==
  /\ dpc[d] = "read"
  /\ DGoto(d, "check")
  /\ dseen' = [dseen EXCEPT ![d] = pidfile.pid]
  /\ UNCHANGED <<ledgerVars, pidfile, contested>>

HolderAlive(d) == dseen[d] # None /\ alive[dseen[d]]

\* AlreadyRunning: the process prints the pid and ends.
Refuse(d) ==
  /\ dpc[d] = "check" /\ HolderAlive(d)
  /\ Exit(d) /\ DGoto(d, "gone")
  /\ dseen' = [dseen EXCEPT ![d] = None]
  /\ UNCHANGED <<pidfile, contested>>

TakeOver(d) ==
  /\ dpc[d] = "check" /\ ~HolderAlive(d)
  /\ DGoto(d, "remove")
  /\ dseen' = [dseen EXCEPT ![d] = None]
  /\ UNCHANGED <<ledgerVars, pidfile, contested>>

\* unlink(missing_ok=True), of whatever file is there now.
RemoveStale(d) ==
  /\ dpc[d] = "remove"
  /\ DGoto(d, "recreate")
  /\ pidfile' = Free
  /\ contested' = (contested \/ RobsDaemon(d))
  /\ UNCHANGED <<ledgerVars, dseen>>

\* The second O_EXCL: another starter's file is an uncaught FileExistsError.
Recreate(d) ==
  /\ dpc[d] = "recreate"
  /\ IF pidfile = Free
       THEN /\ pidfile' = [by |-> d, pid |-> None] /\ DGoto(d, "sign")
            /\ UNCHANGED ledgerVars
       ELSE Exit(d) /\ DGoto(d, "gone") /\ UNCHANGED pidfile
  /\ UNCHANGED <<dseen, contested>>

\* The pid goes to the file this process created.
SignPid(d) ==
  /\ dpc[d] = "sign"
  /\ DGoto(d, "running")
  /\ pidfile' = IF pidfile.by = d THEN [pidfile EXCEPT !.pid = d] ELSE pidfile
  /\ UNCHANGED <<ledgerVars, dseen, contested>>

\* DaemonLock.release: unlinks the path, whoever created what is there now.
Release(d) ==
  /\ Running(d)
  /\ Exit(d) /\ DGoto(d, "gone")
  /\ pidfile' = Free
  /\ contested' = (contested \/ RobsDaemon(d))
  /\ UNCHANGED dseen

----------------------------------------------------------------------------
Acquire(d) ==
  \/ Create(d) \/ ReadPid(d) \/ Refuse(d) \/ TakeOver(d) \/ RemoveStale(d)
  \/ Recreate(d) \/ SignPid(d)

\* What a process does to the ledger: a daemon starts an append only while it
\* runs.
Appends(p) ==
  /\ p \in Daemons => Running(p)
  /\ Append_(p) \/ (p \notin Daemons /\ Exit(p))
  /\ UNCHANGED daemonVars

LedgerStep(p) == Step(p) /\ UNCHANGED daemonVars
LedgerWait(p) == Deadline(p) /\ UNCHANGED daemonVars

\* A kill leaves the pid file where it is.
Killed(p) ==
  /\ Kill(p)
  /\ IF p \in Daemons
       THEN DGoto(p, "gone") /\ dseen' = [dseen EXCEPT ![p] = None]
       ELSE UNCHANGED <<dpc, dseen>>
  /\ UNCHANGED <<pidfile, contested>>

DaemonNext ==
  \/ \E d \in Daemons : Acquire(d) \/ Release(d)
  \/ \E p \in Procs : Appends(p) \/ LedgerStep(p) \/ LedgerWait(p) \/ Killed(p)

DaemonSpec == DaemonInit /\ [][DaemonNext]_allVars

DaemonFairSpec ==
  /\ DaemonSpec
  /\ \A p \in Prompt : WF_allVars(LedgerStep(p)) /\ WF_allVars(LedgerWait(p))

----------------------------------------------------------------------------
DaemonTypeOK ==
  /\ LedgerTypeOK
  /\ pidfile \in [by: Daemons \cup {None}, pid: Daemons \cup {None}]
  /\ dpc \in [Daemons -> {"create", "read", "check", "remove", "recreate",
                          "sign", "running", "gone"}]
  /\ dseen \in [Daemons -> Daemons \cup {None}]
  /\ contested \in BOOLEAN

\* Unless a pid file is removed from under a daemon that is starting or
\* running, at most one daemon holds it, and while one runs the file names it.
OneDaemonUnlessContested ==
  ~contested =>
    /\ \A c, d \in Daemons : {dpc[c], dpc[d]} \subseteq {"sign", "running"} => c = d
    /\ \A d \in Daemons : Running(d) => pidfile = [by |-> d, pid |-> d]

============================================================================
