------------------------------ MODULE HaltMachine ------------------------------
(***************************************************************************)
(* The halt machine of one instrument (order/halts.py).  Its caller feeds  *)
(* it what the venue says (update) and the exchange's reopen (note_reopen) *)
(* at times of its own clock, which may jump forth and back.               *)
(***************************************************************************)
EXTENDS Integers

CONSTANTS
  Cooldown,       \* seconds without entries after a reopen
  Times,          \* readings of the clock
  Minutes,        \* readings of the time to the close
  None

ASSUME HaltAssumption ==
  /\ Cooldown \in Nat /\ Cooldown > 0
  /\ Times \subseteq Int /\ None \notin Times
  /\ Minutes \subseteq Int /\ None \notin Minutes

NO_REOPEN_MINUTES == 10
PHASES == {"normal", "limit_state", "halted", "reopening", "cooldown"}

VARIABLES
  phase, reason, reopenAt, noReopen,     \* the machine's own
  clock,                                 \* the caller's reading at its last call
  told                                   \* what it was told: the venue's last word, the
                                         \* reopen noted since the last stop, a late halt
machine == <<phase, reason, reopenAt, noReopen>>
vars    == <<machine, clock, told>>

TypeOK ==
  /\ phase \in PHASES
  /\ reason \in {"normal", "halt", "no_reopen_last_10m", "limit_state", "reopening", "cooldown"}
  /\ reopenAt \in Times \cup {None} /\ noReopen \in BOOLEAN
  /\ clock \in Times
  /\ told \in [venue : {"clear", "stopped"}, reopened : Times \cup {None}, late : BOOLEAN]

Init ==
  /\ phase = "normal" /\ reason = "normal" /\ reopenAt = None /\ noReopen = FALSE
  /\ clock \in Times
  /\ told = [venue |-> "clear", reopened |-> None, late |-> FALSE]

Become(p, why) == phase' = p /\ reason' = why /\ reopenAt' = None

(* _elapsed: a clock set back does not count *)
Elapsed(at) == IF reopenAt = None \/ at < reopenAt THEN 0 ELSE at - reopenAt

-----------------------------------------------------------------------------
(* update, branch by branch *)

LateHalt(minutes) == minutes # None /\ minutes <= NO_REOPEN_MINUTES

HaltedAfresh(minutes) ==           \* a later report of the same halt forgets it was late
  /\ Become("halted", IF LateHalt(minutes) THEN "no_reopen_last_10m" ELSE "halt")
  /\ noReopen' = LateHalt(minutes)
  /\ told' = [venue |-> "stopped", reopened |-> None, late |-> told.late \/ LateHalt(minutes)]

UpdateHalted(minutes) ==
  /\ Become("halted", IF LateHalt(minutes) THEN "no_reopen_last_10m" ELSE "halt")
  /\ noReopen' = (noReopen \/ LateHalt(minutes))
  /\ told' = [venue |-> "stopped", reopened |-> None, late |-> told.late \/ LateHalt(minutes)]

UpdateNoReopen(limit) ==
  /\ Become("halted", "no_reopen_last_10m")
  /\ told' = [told EXCEPT !.venue = IF limit THEN "stopped" ELSE "clear",
                          !.reopened = IF limit THEN None ELSE @]
  /\ UNCHANGED noReopen

UpdateLimit ==
  /\ Become("limit_state", "limit_state")
  /\ told' = [told EXCEPT !.venue = "stopped", !.reopened = None]
  /\ UNCHANGED noReopen

ClearIsReopen(at) ==               \* a halt that has cleared is taken for reopened
  /\ \/ /\ phase \in {"halted", "limit_state"}
        /\ phase' = "cooldown" /\ reason' = "cooldown" /\ reopenAt' = at
     \/ phase = "cooldown" /\ Elapsed(at) >= Cooldown /\ Become("normal", "normal")
     \/ phase = "cooldown" /\ Elapsed(at) < Cooldown /\ UNCHANGED <<phase, reason, reopenAt>>
     \/ phase \in {"normal", "reopening"} /\ UNCHANGED <<phase, reason, reopenAt>>
  /\ told' = [told EXCEPT !.venue = "clear"]
  /\ UNCHANGED noReopen

UpdateClear(at) ==
  /\ \/ phase \in {"halted", "limit_state"} /\ Become("reopening", "reopening")
     \/ phase = "cooldown" /\ Elapsed(at) >= Cooldown /\ Become("normal", "normal")
     \/ phase = "cooldown" /\ Elapsed(at) < Cooldown /\ UNCHANGED <<phase, reason, reopenAt>>
     \/ phase = "normal" /\ reason' = "normal" /\ UNCHANGED <<phase, reopenAt>>
     \/ phase = "reopening" /\ UNCHANGED <<phase, reason, reopenAt>>
  /\ told' = [told EXCEPT !.venue = "clear"]
  /\ UNCHANGED noReopen

Update(at, minutes) ==
  \/ UpdateHalted(minutes)
  \/ \E limit \in BOOLEAN : noReopen /\ UpdateNoReopen(limit)
  \/ ~noReopen /\ UpdateLimit
  \/ ~noReopen /\ UpdateClear(at)

(* note_reopen: heard only while the halt is seen cleared and unconfirmed. *)
NoteReopen(at) ==
  /\ IF noReopen \/ phase # "reopening" THEN UNCHANGED machine
     ELSE /\ phase' = "cooldown" /\ reason' = "cooldown" /\ reopenAt' = at
          /\ UNCHANGED noReopen
  /\ told' = [told EXCEPT !.reopened = IF told.venue = "clear" /\ @ = None THEN at ELSE @]

Next == \E at \in Times :
  /\ clock' = at
  /\ (\E minutes \in Minutes \cup {None} : Update(at, minutes)) \/ NoteReopen(at)

Spec == Init /\ [][Next]_vars

-----------------------------------------------------------------------------
AllowEntries == phase = "normal"
AllowExits   == phase \in {"normal", "cooldown"}

(* Entries come back only after the exchange's reopen, noted after the     *)
(* last halt or limit state was seen to end, and a full cooldown of the    *)
(* clock later, however the clock jumped in between; marketable exits only *)
(* after the reopen.                                                       *)
ReopensConfirmed ==
  /\ ~AllowEntries /\ AllowEntries' =>
       told.reopened # None /\ clock' - told.reopened >= Cooldown
  /\ ~AllowExits /\ AllowExits' => told'.reopened # None /\ told.venue = "clear"
ReopenIsConfirmed == [][ReopensConfirmed]_vars

(* An instrument that was halted in the last ten minutes stays halted.     *)
LateHaltStays == told.late => phase = "halted" /\ ~AllowEntries /\ ~AllowExits

=============================================================================
