--------------------------- MODULE HaltMachineProofs ---------------------------
(* Theorems about HaltMachine, for every cooldown, clock and session end.  *)
EXTENDS HaltMachine, TLAPS

(* What the machine remembers of what it was told: its stops are the       *)
(* venue's, no reopen counts before the cooldown, whose start is that of   *)
(* the reopen, and a late halt is the flag.                                *)
Stopped == \/ phase = "limit_state"
           \/ phase = "halted" /\ ~noReopen

Remembers ==
  /\ told.late => noReopen
  /\ noReopen => phase = "halted"
  /\ Stopped => told.venue = "stopped" /\ told.reopened = None
  /\ phase \in {"reopening", "cooldown"} => told.venue = "clear"
  /\ phase = "reopening" => told.reopened = None
  /\ phase = "cooldown" => reopenAt \in Times /\ told.reopened = reopenAt

IInv == TypeOK /\ Remembers

LEMMA InitHolds == Init => IInv
<1> SUFFICES ASSUME Init PROVE IInv
  OBVIOUS
<1>1. TypeOK
  BY DEF Init, TypeOK, PHASES
<1>2. Remembers
  BY DEF Init, Remembers, Stopped
<1> QED BY <1>1, <1>2 DEF IInv

(* An update of the venue keeps what the machine remembers.                *)
LEMMA UpdateKeeps ==
  ASSUME IInv, NEW at \in Times, clock' = at,
         NEW minutes \in Minutes \cup {None}, Update(at, minutes)
  PROVE  IInv'
<1>1. CASE UpdateHalted(minutes)
  BY <1>1, HaltAssumption DEF UpdateHalted, Become, LateHalt, IInv, TypeOK, Remembers, Stopped, PHASES
<1>2. ASSUME NEW limit \in BOOLEAN, noReopen, UpdateNoReopen(limit)
      PROVE  IInv'
  BY <1>2, HaltAssumption DEF UpdateNoReopen, Become, IInv, TypeOK, Remembers, Stopped, PHASES
<1>3. CASE ~noReopen /\ UpdateLimit
  BY <1>3, HaltAssumption DEF UpdateLimit, Become, IInv, TypeOK, Remembers, Stopped, PHASES
<1>4. CASE ~noReopen /\ UpdateClear(at)
  BY <1>4, HaltAssumption DEF UpdateClear, Become, IInv, TypeOK, Remembers, Stopped, PHASES
<1> QED BY <1>1, <1>2, <1>3, <1>4 DEF Update

LEMMA NoteKeeps ==
  ASSUME IInv, NEW at \in Times, clock' = at, NoteReopen(at)
  PROVE  IInv'
  BY HaltAssumption DEF NoteReopen, machine, IInv, TypeOK, Remembers, Stopped, PHASES

LEMMA StepKeeps == IInv /\ [Next]_vars => IInv'
<1> SUFFICES ASSUME IInv, [Next]_vars PROVE IInv'
  OBVIOUS
<1>1. CASE Next
  <2>1. PICK at \in Times : /\ clock' = at
                            /\ \/ \E minutes \in Minutes \cup {None} : Update(at, minutes)
                               \/ NoteReopen(at)
    BY <1>1 DEF Next
  <2>2. CASE NoteReopen(at)
    BY <2>1, <2>2, NoteKeeps
  <2>3. CASE \E minutes \in Minutes \cup {None} : Update(at, minutes)
    BY <2>1, <2>3, UpdateKeeps
  <2> QED BY <2>1, <2>2, <2>3
<1>2. CASE UNCHANGED vars
  BY <1>2 DEF vars, machine, IInv, TypeOK, Remembers, Stopped
<1> QED BY <1>1, <1>2

LEMMA Invariance == Spec => []IInv
<1>1. Init => IInv
  BY InitHolds
<1>2. IInv /\ [Next]_vars => IInv'
  BY StepKeeps
<1> QED BY <1>1, <1>2, PTL DEF Spec

(* HaltMachine keeps its types whatever it is told (halts.py).             *)
THEOREM TypeCorrect == Spec => []TypeOK
<1>1. IInv => TypeOK
  BY DEF IInv
<1> QED BY <1>1, Invariance, PTL

(* A halt in the last ten minutes is never left (halts.py:116-123).        *)
THEOREM LateHaltIsFinal == Spec => []LateHaltStays
<1>1. IInv => LateHaltStays
  BY DEF IInv, Remembers, LateHaltStays, AllowEntries, AllowExits
<1> QED BY <1>1, Invariance, PTL

(* A step to the phase that takes entries is the clearing update after a   *)
(* full cooldown; one to the cooldown is the reopen (halts.py:132-165).    *)
LEMMA StepReopens == IInv /\ [Next]_vars => [ReopensConfirmed]_vars
<1> SUFFICES ASSUME IInv, Next PROVE ReopensConfirmed
  OBVIOUS
<1>1. PICK at \in Times : /\ clock' = at
                          /\ \/ \E minutes \in Minutes \cup {None} : Update(at, minutes)
                             \/ NoteReopen(at)
  BY DEF Next
<1>2. CASE NoteReopen(at)
  BY <1>1, <1>2, HaltAssumption
  DEF NoteReopen, machine, IInv, TypeOK, Remembers, Stopped, ReopensConfirmed, AllowEntries, AllowExits
<1>3. ASSUME NEW minutes \in Minutes \cup {None}, Update(at, minutes)
      PROVE  ReopensConfirmed
  <2>1. CASE UpdateHalted(minutes)
    BY <2>1 DEF UpdateHalted, Become, ReopensConfirmed, AllowEntries, AllowExits
  <2>2. CASE \E limit \in BOOLEAN : noReopen /\ UpdateNoReopen(limit)
    BY <2>2 DEF UpdateNoReopen, Become, ReopensConfirmed, AllowEntries, AllowExits
  <2>3. CASE UpdateLimit
    BY <2>3 DEF UpdateLimit, Become, ReopensConfirmed, AllowEntries, AllowExits
  <2>4. CASE UpdateClear(at)
    <3>1. CASE phase = "cooldown"
      BY <1>1, <2>4, <3>1, HaltAssumption
      DEF UpdateClear, Elapsed, Become, IInv, TypeOK, Remembers, ReopensConfirmed, AllowEntries, AllowExits
    <3>2. CASE phase # "cooldown"
      BY <2>4, <3>2 DEF UpdateClear, Become, ReopensConfirmed, AllowEntries, AllowExits
    <3> QED BY <3>1, <3>2
  <2> QED BY <1>3, <2>1, <2>2, <2>3, <2>4 DEF Update
<1> QED BY <1>1, <1>2, <1>3

(* Entries and marketable exits come back only as the exchange and the     *)
(* cooldown allow (halts.py:3-8).                                          *)
THEOREM ReopensOnlyConfirmed == Spec => ReopenIsConfirmed
<1>1. IInv /\ [Next]_vars => [ReopensConfirmed]_vars
  BY StepReopens
<1> QED BY <1>1, Invariance, PTL DEF Spec, ReopenIsConfirmed

=============================================================================
