----------------------------- MODULE MCHaltMachine -----------------------------
(* Instance of HaltMachine for TLC: a cooldown of three readings, a clock  *)
(* of seven, the close far off, at the ten minutes' bound and past it.     *)
EXTENDS HaltMachine

Readings == 0..6
ToClose  == {11, NO_REOPEN_MINUTES, -1}

=============================================================================
