------------------------------ MODULE OrderView ------------------------------
(***************************************************************************)
(* What order/state.py promises of the orders it keeps: "a monotone,       *)
(* broker-derived function of the trade_updates stream".                   *)
(*                                                                         *)
(* An order has a history at the broker.  What a process takes the order   *)
(* to be is a state out of that history, never a guess, and it only goes   *)
(* forward there, whatever is lost, repeated or reordered.  One step per   *)
(* process may take it back: the list a cold start asked for, which shows  *)
(* what the broker had when it was asked, and may leave out an order.      *)
(* A process that takes an update without a total out of turn guesses.     *)
(***************************************************************************)
EXTENDS Integers, Sequences

CONSTANTS
  Orders, Quantity,     \* and the shares ordered
  Status, Final,        \* the final statuses have no successor
  None

VARIABLES
  history,    \* the states each order has been in
  view,       \* what the process takes it to be
  since,      \* how long its history was when the list was asked for
  guessed,    \* orders it has guessed the state of
  phase       \* of the cold start

vars == <<history, view, since, guessed, phase>>

StatesOf(c) == [st: Status, filled: 0 .. Quantity[c]]

\* s, and then t or s still.
Leads(h, s, t) == \E j, k \in DOMAIN h : j <= k /\ h[j] = s /\ h[k] = t

Init ==
  /\ history = [c \in Orders |-> <<>>]
  /\ view = [c \in Orders |-> None]
  /\ since = [c \in Orders |-> 0] /\ guessed = {} /\ phase = "cold"

\* Shares are not given back, and a final state is the last.
Happens(c, s) ==
  /\ UNCHANGED <<view, since, guessed, phase>>
  /\ history' = [history EXCEPT ![c] = Append(@, s)]
  /\ LET h == history[c]
     IN  h # <<>> => h[Len(h)].st \notin Final /\ h[Len(h)].filled <= s.filled

Learn(c, s) ==
  /\ c \notin guessed
  /\ view' = [view EXCEPT ![c] = s]
  /\ LET h == history[c]
     IN  Leads(h, IF view[c] = None THEN s ELSE view[c], s)
  /\ UNCHANGED <<history, since, guessed, phase>>

\* Even then no share is taken back, and a final state is the last.
Guess(c, s) ==
  /\ guessed' = guessed \cup {c}
  /\ view' = [view EXCEPT ![c] = s]
  /\ view[c] # None => /\ view[c].filled <= s.filled
                       /\ view[c].st \in Final => s.st = view[c].st
  /\ UNCHANGED <<history, since, phase>>

Restart ==
  /\ view' = [c \in Orders |-> None]
  /\ since' = [c \in Orders |-> 0] /\ guessed' = {} /\ phase' = "cold"
  /\ UNCHANGED history

AskForList ==
  /\ phase = "cold" /\ phase' = "fetched"
  /\ since' = [c \in Orders |-> Len(history[c])]
  /\ UNCHANGED <<history, view, guessed>>

TakeList(skipped) ==
  /\ phase = "fetched" /\ phase' = "live"
  /\ view' = [c \in Orders |-> IF since[c] = 0 \/ c \in skipped THEN view[c]
                                ELSE history[c][since[c]]]
  /\ UNCHANGED <<history, since, guessed>>

Next ==
  \/ \E c \in Orders : \E s \in StatesOf(c) : Happens(c, s)
  \/ \E c \in Orders : \E s \in StatesOf(c) : Learn(c, s) \/ Guess(c, s)
  \/ Restart \/ AskForList
  \/ \E skipped \in SUBSET Orders : TakeList(skipped)

Spec == Init /\ [][Next]_vars

==============================================================================
