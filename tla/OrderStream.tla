----------------------------- MODULE OrderStream -----------------------------
(***************************************************************************)
(* OrderStateManager (order/state.py): what one process makes of the       *)
(* broker's trade updates when they are lost, repeated and reordered, and  *)
(* when it restarts and restores its orders from the broker.               *)
(*                                                                         *)
(* The broker is outside the repository.  Its orders go through the states *)
(* of STATES, and every change is an update that carries the state and,    *)
(* most of the time, the quantity filled so far (order.filled_qty); a fill *)
(* may carry its own quantity as well.  Prices, averages and identifiers   *)
(* other than the client's are left out.                                   *)
(***************************************************************************)
EXTENDS Integers, Sequences, FiniteSets

CONSTANTS
  Orders,       \* client order ids
  Shares,       \* the quantity of each
  Endings,      \* how orders end that are not filled
  None,
  MaxBare,      \* bound of the model: updates without filled_qty
  MaxRestarts   \* bound of the model

Terminal == {"filled", "canceled", "rejected", "expired", "replaced", "done_for_day"}
States   == {"new", "accepted", "partially_filled"} \cup Terminal
State    == [st: States, filled: Nat]

\* odd is a status outside STATES, pending_cancel for one.
Listing  == [st: States \cup {"odd"}, filled: Nat]

\* An update: what the order has filled, and whether the update tells of it.
Update   == [fills: BOOLEAN, st: States \cup {"odd"}, filled: Nat, total: BOOLEAN,
             qty: Nat \cup {None}]

ASSUME StreamAssumption ==
  /\ Shares \in [Orders -> Nat \ {0}]
  /\ Endings \subseteq Terminal \ {"filled"}
  /\ None \notin Nat /\ None \notin Listing
  /\ MaxBare \in Nat /\ MaxRestarts \in Nat

VARIABLES
  book,       \* the broker: each order's state, None before it is there
  log,        \* the updates the broker has sent of each order
  local,      \* _states
  counted,    \* the shares _fills adds up to
  flagged,    \* orders with an entry in _anomalies
  phase,      \* of the cold start
  fetched,    \* what restore is about to be given
  restarts,
  seen,       \* history: so many updates have come in the broker's order
  orderly,    \* history: no other before its turn, and none that tells nothing
  upto,       \* history: the updates sent when the broker's list was fetched
  base,       \* history: the shares of a restored order that are in no fill
  told,       \* history: orders whose final update has come
  stale,      \* history: orders restore has set back
  blind       \* history: orders changed out of turn by an update without a total

brokerVars  == <<book, log>>
localVars   == <<local, counted, flagged>>
startVars   == <<phase, fetched, restarts>>
historyVars == <<seen, orderly, upto, base, told, stale, blind>>
vars == <<brokerVars, localVars, startVars, historyVars>>

----------------------------------------------------------------------------
Nothing == [c \in Orders |-> None]
Zero    == [c \in Orders |-> 0]

Init ==
  /\ book = Nothing /\ log = [c \in Orders |-> <<>>]
  /\ local = Nothing /\ counted = Zero /\ flagged = {}
  /\ phase = "cold" /\ fetched = Nothing /\ restarts = 0
  /\ seen = Zero /\ orderly = [c \in Orders |-> TRUE]
  /\ upto = Zero /\ base = Zero /\ told = {} /\ stale = {} /\ blind = {}

----------------------------------------------------------------------------
(* The broker. *)

Working(c) == book[c] # None /\ book[c].st \notin Terminal

Bare == UNION {{<<c, k>> : k \in {k \in DOMAIN log[c] : ~log[c][k].total}} : c \in Orders}

Sends(c, fills, st, filled, qty) ==
  /\ \E total \in BOOLEAN :
       /\ total \/ Cardinality(Bare) < MaxBare
       /\ log' = [log EXCEPT ![c] = Append(@,
            [fills |-> fills, st |-> st, filled |-> filled, total |-> total, qty |-> qty])]
  /\ UNCHANGED <<localVars, startVars, historyVars>>

Becomes(c, fills, st, filled, qty) ==
  /\ book' = [book EXCEPT ![c] = [st |-> st, filled |-> filled]]
  /\ Sends(c, fills, st, filled, qty)

Place(c)  == book[c] = None /\ Becomes(c, FALSE, "new", 0, None)

Accept(c) ==
  /\ book[c] # None /\ book[c].st = "new"
  /\ Becomes(c, FALSE, "accepted", book[c].filled, None)

Trade(c, q, said) ==
  /\ Working(c) /\ book[c].filled + q <= Shares[c]
  /\ LET filled == book[c].filled + q
     IN  Becomes(c, TRUE, IF filled = Shares[c] THEN "filled" ELSE "partially_filled",
                 filled, said)

End(c, st) ==
  /\ Working(c) /\ (st = "rejected" => book[c].filled = 0)
  /\ Becomes(c, FALSE, st, book[c].filled, None)

\* A status on the way, which STATES does not list.
Hold(c) ==
  /\ Working(c) /\ \A k \in DOMAIN log[c] : log[c][k].st # "odd"
  /\ Sends(c, FALSE, "odd", book[c].filled, None)
  /\ UNCHANGED book

Broker ==
  \E c \in Orders :
    \/ Place(c) \/ Accept(c) \/ Hold(c)
    \/ \E q \in 1 .. Shares[c] : \E said \in {q, None} : Trade(c, q, said)
    \/ \E st \in Endings : End(c, st)

----------------------------------------------------------------------------
(* The order state manager. *)

LegalUntilFilled(from, to) == from # "filled"

\* LEGAL_TRANSITIONS, and the redelivery of the same status.
Legal(from, to) ==
  \/ from = to
  \/ from = "new"
  \/ from = "accepted" /\ to # "new"
  \/ from = "partially_filled" /\ to \notin {"new", "accepted", "rejected"}

FilledOf(c) == IF local[c] = None THEN 0 ELSE local[c].filled

FillQtyTotal(c, e) == e.filled

FillQty(c, e) == IF e.qty = None THEN e.filled - FilledOf(c) ELSE e.qty

AnyFill(c, e) == FillQty(c, e) > 0

\* The broker's total; where the update carries none, ours and its fill.
NewFilled(c, e) ==
  IF e.total THEN e.filled ELSE FilledOf(c) + (IF e.fills THEN FillQty(c, e) ELSE 0)

\* An update of a fill that tells how much was filled.
Tells(e) == e.fills => e.total \/ e.qty # None

\* _apply_fill: the broker's total, if there is one, must be ours and this fill.
GoodFill(c, e) ==
  /\ Tells(e)
  /\ FillQty(c, e) > 0
  /\ NewFilled(c, e) = FilledOf(c) + FillQty(c, e)

\* Without a fill the total may not move, unless the order is new to us.
GoodTotal(c, e) == local[c] # None => NewFilled(c, e) = FilledOf(c)

Applicable(c, e) ==
  /\ e.st \in States
  /\ local[c] # None => Legal(local[c].st, e.st)
  /\ IF e.fills THEN GoodFill(c, e) ELSE GoodTotal(c, e)
  /\ NewFilled(c, e) <= Shares[c]

Applied(c, e) == [local EXCEPT ![c] = [st |-> e.st, filled |-> NewFilled(c, e)]]

\* Where an update stands in the broker's order, for the properties.
Arrived(c, k) ==
  /\ seen' = IF k = seen[c] + 1 THEN [seen EXCEPT ![c] = k] ELSE seen
  /\ orderly' = [orderly EXCEPT ![c] =
       @ /\ k <= seen[c] + 1 /\ (k = seen[c] + 1 => Tells(log[c][k]))]
  /\ told' = IF log[c][k].st \in Terminal THEN told \cup {c} ELSE told
  /\ UNCHANGED <<brokerVars, startVars, upto, base, stale>>

InTurn(c, k) == orderly[c] /\ c \notin stale /\ k = seen[c] + 1

ApplyUpdate(c, k) ==
  LET e == log[c][k]
  IN  /\ Applicable(c, e)
      /\ local' = Applied(c, e)
      /\ counted' = IF e.fills THEN [counted EXCEPT ![c] = @ + FillQty(c, e)] ELSE counted
      /\ UNCHANGED flagged
      /\ blind' = IF e.total \/ InTurn(c, k) \/ local' = local THEN blind ELSE blind \cup {c}
      /\ Arrived(c, k)

IgnoreUpdate(c, k) ==
  /\ ~Applicable(c, log[c][k])
  /\ UNCHANGED <<localVars, blind>>
  /\ Arrived(c, k)

\* An update that cannot be applied leaves the state where it was.
RefuseUpdate(c, k) ==
  /\ ~Applicable(c, log[c][k])
  /\ flagged' = flagged \cup {c}
  /\ UNCHANGED <<local, counted, blind>>
  /\ Arrived(c, k)

Deliver == \E c \in Orders : \E k \in DOMAIN log[c] : ApplyUpdate(c, k) \/ RefuseUpdate(c, k)

----------------------------------------------------------------------------
(* Restart, and the cold start from the broker's own states. *)

Restart ==
  /\ restarts < MaxRestarts /\ restarts' = restarts + 1
  /\ local' = Nothing /\ counted' = Zero /\ flagged' = {}
  /\ phase' = "cold" /\ fetched' = Nothing
  /\ seen' = Zero /\ orderly' = [c \in Orders |-> log[c] = <<>>]
  /\ upto' = Zero /\ base' = Zero /\ told' = {} /\ stale' = {} /\ blind' = {}
  /\ UNCHANGED brokerVars

\* The broker lists an order with the status it told of last.
Listed(c) ==
  IF book[c] # None /\ log[c][Len(log[c])].st = "odd"
    THEN [book[c] EXCEPT !.st = "odd"] ELSE book[c]

\* Updates go on coming in while the broker's list is fetched.
Fetch ==
  /\ phase = "cold"
  /\ phase' = "fetched" /\ fetched' = [c \in Orders |-> Listed(c)]
  /\ upto' = [c \in Orders |-> Len(log[c])]
  /\ UNCHANGED <<brokerVars, localVars, restarts, seen, orderly, base, told, stale, blind>>

\* restore overwrites, whatever has come in since; a status outside STATES is
\* an anomaly, and skipped.
Restored(c) == fetched[c] # None /\ fetched[c].st \in States /\ fetched[c].filled <= Shares[c]

\* What was fetched is behind what the updates have told since.
Older(c) ==
  /\ local[c] # None
  /\ ~(Legal(local[c].st, fetched[c].st) /\ local[c].filled <= fetched[c].filled)

Restore ==
  /\ phase = "fetched"
  /\ phase' = "live" /\ fetched' = Nothing
  /\ local' = [c \in Orders |-> IF Restored(c) THEN fetched[c] ELSE local[c]]
  /\ base' = [c \in Orders |-> IF Restored(c) THEN fetched[c].filled - counted[c] ELSE base[c]]
  /\ stale' = stale \cup {c \in Orders : Restored(c) /\ Older(c)}
  /\ seen' = [c \in Orders |-> IF Restored(c) /\ ~Older(c) THEN upto[c] ELSE seen[c]]
  /\ orderly' = [c \in Orders |-> orderly[c] \/ (Restored(c) /\ ~Older(c))]
  /\ flagged' = flagged \cup {c \in Orders : fetched[c] # None /\ ~Restored(c)}
  /\ UNCHANGED <<brokerVars, counted, restarts, upto, told, blind>>

Next == Broker \/ Deliver \/ Restart \/ Fetch \/ Restore

Spec == Init /\ [][Next]_vars

----------------------------------------------------------------------------
TypeOK ==
  /\ book \in [Orders -> State \cup {None}]
  /\ log \in [Orders -> Seq(Update)]
  /\ local \in [Orders -> State \cup {None}]
  /\ counted \in [Orders -> Int]
  /\ flagged \in SUBSET Orders
  /\ phase \in {"cold", "fetched", "live"}
  /\ fetched \in [Orders -> Listing \cup {None}]
  /\ restarts \in Nat
  /\ seen \in [Orders -> Nat] /\ orderly \in [Orders -> BOOLEAN]
  /\ upto \in [Orders -> Nat] /\ base \in [Orders -> Int]
  /\ told \in SUBSET Orders /\ stale \in SUBSET Orders /\ blind \in SUBSET Orders

\* "A fill is counted here once": however the updates are lost, repeated and
\* reordered, the fills never add up to more than the order is taken to have
\* filled; nor does that exceed what the broker filled, unless an update without
\* a total was taken out of turn: a fill is then added each time it comes.
NeverOvercounts ==
  \A c \in Orders :
    /\ c \notin stale => counted[c] <= FilledOf(c)
    /\ c \notin blind /\ local[c] # None =>
         book[c] # None /\ local[c].filled <= book[c].filled

\* "A monotone, broker-derived function of the stream": when the updates come
\* in the broker's order, with repetitions, the local state is the broker's,
\* although some carry no total, unless one of those was repeated to effect.
InStep ==
  \A c \in Orders :
    (/\ orderly[c] /\ c \notin stale \cup blind
     /\ log[c] # <<>> /\ seen[c] = Len(log[c]))
      => local[c] = book[c] /\ counted[c] = book[c].filled - base[c]

\* Fail closed: an order whose final update has come, in whatever order, is in
\* the broker's final state, or an anomaly tells that it is not; only an update
\* without a total, taken out of turn, hides a gap.
GapIsFlagged ==
  \A c \in told \ (stale \cup blind) : local[c] = book[c] \/ c \in flagged

\* A step of this process takes an order on, or leaves it.
Advances(c) ==
  (local[c] # None /\ restarts' = restarts /\ c \notin stale') =>
    /\ local'[c] # None /\ local'[c].filled >= local[c].filled
    /\ local[c].st \in Terminal => local'[c].st = local[c].st

\* "It never regresses": within one process no update, and no restore that
\* finds nothing newer, takes an order back.
NeverRegresses == [][\A c \in Orders : Advances(c)]_vars

\* The states an order has been in: an odd update tells of no other state than
\* the one before it.
StateAt(l, k) ==
  [st |-> IF l[k].st = "odd" THEN l[k - 1].st ELSE l[k].st, filled |-> l[k].filled]

History == [c \in Orders |-> [k \in DOMAIN log[c] |-> StateAt(log[c], k)]]

\* "It never regresses, it is never guessed": the local orders are the view of
\* the broker's that OrderView specifies, restores that set one back included;
\* the guesses it has to allow for are the blind orders.
View == INSTANCE OrderView WITH
  Quantity <- Shares, Status <- States, Final <- Terminal,
  history <- History, view <- local, since <- upto, guessed <- blind

ViewSpec == View!Spec

============================================================================
