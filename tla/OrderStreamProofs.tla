-------------------------- MODULE OrderStreamProofs --------------------------
(***************************************************************************)
(* What the order state manager keeps, for any orders, quantities and      *)
(* restarts, whatever happens to the stream.                               *)
(***************************************************************************)
EXTENDS OrderStream, SequenceTheorems, TLAPS

----------------------------------------------------------------------------
(* Types. *)

LEMMA NothingType == Nothing \in [Orders -> State \cup {None}]
BY DEF Nothing

LEMMA ZeroType == Zero \in [Orders -> Nat] /\ Zero \in [Orders -> Int]
BY DEF Zero

LEMMA NoneState == None \notin State /\ None \notin Listing /\ State \subseteq Listing
BY StreamAssumption DEF State, Listing

LEMMA SharesNat == \A c \in Orders : Shares[c] \in Nat \ {0}
BY StreamAssumption

LEMMA TerminalStates == Terminal \subseteq States /\ Endings \subseteq Terminal
BY StreamAssumption DEF States

LEMMA UpdateType ==
  ASSUME TypeOK, NEW c \in Orders, NEW k \in DOMAIN log[c]
  PROVE  log[c][k] \in Update
BY DEF TypeOK

\* What an order becomes at the broker, and the update it sends.
LEMMA SendsType ==
  ASSUME TypeOK, NEW c \in Orders, NEW fills \in BOOLEAN, NEW st \in States \cup {"odd"},
         NEW filled \in Nat, NEW qty \in Nat \cup {None}, Sends(c, fills, st, filled, qty),
         book' \in [Orders -> State \cup {None}]
  PROVE  TypeOK'
<1>1. PICK total \in BOOLEAN :
        log' = [log EXCEPT ![c] = Append(@, [fills |-> fills, st |-> st, filled |-> filled,
                                             total |-> total, qty |-> qty])]
  BY DEF Sends
<1>2. [fills |-> fills, st |-> st, filled |-> filled, total |-> total, qty |-> qty] \in Update
  BY DEF Update
<1>3. log' \in [Orders -> Seq(Update)]
  BY <1>1, <1>2, AppendProperties DEF TypeOK
<1>4. QED BY <1>3 DEF Sends, TypeOK, localVars, startVars, historyVars

LEMMA BecomesType ==
  ASSUME TypeOK, NEW c \in Orders, NEW fills \in BOOLEAN, NEW st \in States,
         NEW filled \in Nat, NEW qty \in Nat \cup {None}, Becomes(c, fills, st, filled, qty)
  PROVE  TypeOK'
<1>1. [st |-> st, filled |-> filled] \in State
  BY DEF State
<1>2. book' \in [Orders -> State \cup {None}]
  BY <1>1 DEF Becomes, TypeOK
<1>3. QED BY <1>2, SendsType DEF Becomes

\* What the broker's order is, in a state of the right type.
LEMMA BookType ==
  ASSUME TypeOK, NEW c \in Orders, book[c] # None
  PROVE  book[c] \in State /\ book[c].st \in States /\ book[c].filled \in Nat
BY DEF TypeOK, State

LEMMA LocalType ==
  ASSUME TypeOK, NEW c \in Orders
  PROVE  /\ local[c] # None => /\ local[c] \in State
                               /\ local[c].st \in States /\ local[c].filled \in Nat
         /\ FilledOf(c) \in Nat
BY DEF TypeOK, State, FilledOf

LEMMA FillQtyInt ==
  ASSUME TypeOK, NEW c \in Orders, NEW e \in Update
  PROVE  FillQty(c, e) \in Int
<1>1. e.filled \in Nat /\ e.qty \in Nat \cup {None}
  BY DEF Update
<1>2. FilledOf(c) \in Nat
  BY LocalType
<1>3. QED BY <1>1, <1>2 DEF FillQty

\* What an update that can be applied makes of the shares.
LEMMA NewFilledType ==
  ASSUME TypeOK, NEW c \in Orders, NEW e \in Update, Applicable(c, e)
  PROVE  /\ NewFilled(c, e) \in Nat /\ FilledOf(c) <= NewFilled(c, e)
         /\ NewFilled(c, e) <= Shares[c]
         /\ e.fills => FillQty(c, e) > 0 /\ NewFilled(c, e) = FilledOf(c) + FillQty(c, e)
         /\ local[c] # None /\ ~e.fills => NewFilled(c, e) = FilledOf(c)
         /\ [st |-> e.st, filled |-> NewFilled(c, e)] \in State
         /\ [st |-> e.st, filled |-> NewFilled(c, e)] # None
<1>1. /\ e.filled \in Nat /\ FilledOf(c) \in Nat /\ FillQty(c, e) \in Int /\ e.st \in States
      /\ NewFilled(c, e) <= Shares[c]
  BY LocalType, FillQtyInt DEF Update, Applicable
<1>2. e.fills => FillQty(c, e) > 0 /\ NewFilled(c, e) = FilledOf(c) + FillQty(c, e)
  BY DEF Applicable, GoodFill
<1>3. local[c] # None /\ ~e.fills => NewFilled(c, e) = FilledOf(c)
  BY DEF Applicable, GoodTotal
<1>4. NewFilled(c, e) \in Nat /\ FilledOf(c) <= NewFilled(c, e)
  <2>1. CASE e.fills
    BY <1>1, <1>2, <2>1
  <2>2. CASE ~e.fills /\ local[c] # None
    BY <1>1, <1>3, <2>2
  <2>3. CASE ~e.fills /\ local[c] = None
    <3>1. FilledOf(c) = 0
      BY <2>3 DEF FilledOf
    <3>2. NewFilled(c, e) \in {e.filled, FilledOf(c) + 0}
      BY <2>3 DEF NewFilled
    <3> QED BY <1>1, <3>1, <3>2
  <2> QED BY <2>1, <2>2, <2>3
<1>5. [st |-> e.st, filled |-> NewFilled(c, e)] \in State
  BY <1>1, <1>4 DEF State
<1> QED BY <1>1, <1>2, <1>3, <1>4, <1>5, NoneState

\* The two ways an update leaves the history variable blind.
LEMMA BlindOf ==
  ASSUME NEW c, NEW k, ApplyUpdate(c, k) \/ RefuseUpdate(c, k)
  PROVE  blind' = blind \/ blind' = blind \cup {c}
BY DEF ApplyUpdate, RefuseUpdate

LEMMA ArrivedType ==
  ASSUME TypeOK, NEW c \in Orders, NEW k \in DOMAIN log[c], Arrived(c, k),
         local' \in [Orders -> State \cup {None}], counted' \in [Orders -> Int],
         flagged' \in SUBSET Orders, blind' \in SUBSET Orders
  PROVE  TypeOK'
<1>1. k \in Nat
  BY DEF TypeOK
<1>2. seen' \in [Orders -> Nat] /\ told' \in SUBSET Orders
  BY <1>1 DEF Arrived, TypeOK
<1>3. orderly' \in [Orders -> BOOLEAN]
  BY DEF Arrived, TypeOK
<1>4. QED BY <1>2, <1>3 DEF Arrived, TypeOK, brokerVars, startVars

LEMMA TypeStep == TypeOK /\ [Next]_vars => TypeOK'
<1>1. SUFFICES ASSUME TypeOK, [Next]_vars PROVE TypeOK'
  OBVIOUS
<1>2. CASE \E c \in Orders : Place(c)
  BY <1>1, <1>2, BecomesType DEF Place, States
<1>3. CASE \E c \in Orders : Accept(c)
  BY <1>1, <1>3, BecomesType, BookType DEF Accept, States
<1>4. CASE \E c \in Orders : Hold(c)
  <2>1. PICK c \in Orders : Hold(c)
    BY <1>4
  <2>2. book[c].filled \in Nat /\ book' \in [Orders -> State \cup {None}]
    BY <1>1, <2>1, BookType DEF Hold, Working, TypeOK
  <2>3. QED BY <1>1, <2>1, <2>2, SendsType DEF Hold
<1>5. CASE \E c \in Orders : \E q \in 1 .. Shares[c] : \E said \in {q, None} : Trade(c, q, said)
  <2>0. PICK c \in Orders : \E q \in 1 .. Shares[c] : \E said \in {q, None} : Trade(c, q, said)
    BY <1>5
  <2>1. PICK q \in 1 .. Shares[c] : \E said \in {q, None} : Trade(c, q, said)
    BY <2>0
  <2>2. q \in Nat /\ book[c].filled \in Nat
    BY <1>1, <2>1, BookType, SharesNat DEF Trade, Working
  <2>3. book[c].filled + q \in Nat
    BY <2>2
  <2>4. QED BY <1>1, <2>1, <2>2, <2>3, BecomesType DEF Trade, States, Terminal
<1>6. CASE \E c \in Orders : \E st \in Endings : End(c, st)
  BY <1>1, <1>6, BecomesType, BookType, TerminalStates DEF End, Working
<1>7. CASE \E c \in Orders : \E k \in DOMAIN log[c] : ApplyUpdate(c, k)
  <2>0. PICK c \in Orders : \E k \in DOMAIN log[c] : ApplyUpdate(c, k)
    BY <1>7
  <2>1. PICK k \in DOMAIN log[c] : ApplyUpdate(c, k)
    BY <2>0
  <2>2. log[c][k] \in Update
    BY <1>1, UpdateType
  <2>3. [st |-> log[c][k].st, filled |-> NewFilled(c, log[c][k])] \in State
    BY <1>1, <2>1, <2>2, NewFilledType DEF ApplyUpdate
  <2>4. local' \in [Orders -> State \cup {None}]
    BY <1>1, <2>1, <2>3 DEF ApplyUpdate, Applied, TypeOK
  <2>5. counted' \in [Orders -> Int]
    <3>1. FillQty(c, log[c][k]) \in Int /\ counted[c] \in Int
      BY <1>1, <2>2, FillQtyInt DEF TypeOK
    <3>2. QED BY <1>1, <2>1, <3>1 DEF ApplyUpdate, TypeOK
  <2>6. blind' \in SUBSET Orders /\ flagged' \in SUBSET Orders /\ Arrived(c, k)
    BY <1>1, <2>1, BlindOf DEF ApplyUpdate, TypeOK
  <2>7. QED BY <1>1, <2>4, <2>5, <2>6, ArrivedType
<1>8. CASE \E c \in Orders : \E k \in DOMAIN log[c] : RefuseUpdate(c, k)
  BY <1>1, <1>8, ArrivedType DEF RefuseUpdate, TypeOK
<1>9. CASE Restart
  <2>1. orderly' \in [Orders -> BOOLEAN]
    BY <1>9 DEF Restart
  <2>2. restarts' \in Nat
    BY <1>1, <1>9 DEF Restart, TypeOK
  <2>3. fetched' \in [Orders -> Listing \cup {None}]
    BY <1>9 DEF Restart, Nothing
  <2>4. QED BY <1>1, <1>9, <2>1, <2>2, <2>3, NothingType, ZeroType
    DEF Restart, TypeOK, brokerVars
<1>10. CASE Fetch
  <2>1. upto' \in [Orders -> Nat]
    BY <1>1, <1>10, LenProperties DEF Fetch, TypeOK
  <2>2. fetched' \in [Orders -> Listing \cup {None}]
    <3>1. ASSUME NEW c \in Orders PROVE Listed(c) \in Listing \cup {None}
      <4>1. CASE book[c] = None
        BY <4>1 DEF Listed
      <4>2. CASE book[c] # None
        BY <1>1, <4>2, BookType DEF Listed, Listing, State
      <4> QED BY <4>1, <4>2
    <3> QED BY <1>10, <3>1 DEF Fetch
  <2>3. QED BY <1>1, <1>10, <2>1, <2>2 DEF Fetch, TypeOK, brokerVars, localVars
<1>11. CASE Restore
  <2>1. ASSUME NEW c \in Orders
        PROVE  Restored(c) => fetched[c] \in State /\ fetched[c].filled - counted[c] \in Int
    BY <1>1 DEF Restored, TypeOK, State, Listing
  <2>2. local' \in [Orders -> State \cup {None}]
    BY <1>1, <1>11, <2>1 DEF Restore, TypeOK
  <2>3. base' \in [Orders -> Int]
    BY <1>1, <1>11, <2>1 DEF Restore, TypeOK
  <2>4. seen' \in [Orders -> Nat]
    BY <1>1, <1>11 DEF Restore, TypeOK
  <2>5. orderly' \in [Orders -> BOOLEAN]
    BY <1>1, <1>11 DEF Restore, TypeOK
  <2>6. fetched' \in [Orders -> Listing \cup {None}] /\ flagged' \in SUBSET Orders
    BY <1>1, <1>11 DEF Restore, Nothing, TypeOK
  <2>7. QED BY <1>1, <1>11, <2>2, <2>3, <2>4, <2>5, <2>6 DEF Restore, TypeOK, brokerVars
<1>12. CASE UNCHANGED vars
  BY <1>1, <1>12 DEF TypeOK, vars, brokerVars, localVars, startVars, historyVars
<1>13. QED BY <1>1, <1>2, <1>3, <1>4, <1>5, <1>6, <1>7, <1>8, <1>9, <1>10, <1>11, <1>12
         DEF Next, Broker, Deliver

LEMMA InitType == Init => TypeOK
<1>1. ASSUME Init PROVE log \in [Orders -> Seq(Update)] /\ orderly \in [Orders -> BOOLEAN]
  BY <1>1 DEF Init
<1>2. fetched = Nothing => fetched \in [Orders -> Listing \cup {None}]
  BY DEF Nothing
<1>3. QED BY <1>1, <1>2, NothingType, ZeroType DEF Init, TypeOK

\* Every variable of the broker, of the manager and of its start keeps its type.
THEOREM TypeCorrect == Spec => []TypeOK
BY InitType, TypeStep, PTL DEF Spec

----------------------------------------------------------------------------
(* The broker's updates in their order.                                    *)
(*                                                                         *)
(* What the process knows of an order it has followed is the state its     *)
(* first updates lead to; the next one can be applied to it, and none of   *)
(* those before it changes it.                                             *)

\* State s is where the first k updates of l lead: an odd one leads nowhere.
Reaches(l, s, k) ==
  /\ k \in DOMAIN l /\ s.filled = l[k].filled
  /\ IF l[k].st = "odd" THEN k > 1 /\ l[k - 1].st # "odd" /\ s.st = l[k - 1].st
                        ELSE s.st = l[k].st

\* Update e can be the one after state s of an order of n shares.
Follows(s, e, n) ==
  IF e.st = "odd" THEN ~e.fills /\ e.filled = s.filled
  ELSE /\ Legal(s.st, e.st) /\ e.filled <= n
       /\ IF e.fills
            THEN /\ e.filled > s.filled
                 /\ e.qty # None => e.filled = s.filled + e.qty
            ELSE e.filled = s.filled

Unfilling == {"new", "accepted", "odd"} \cup Terminal

Steady(l) ==
  /\ \A k \in DOMAIN l : l[k].st = "new" <=> k = 1
  /\ l # <<>> => ~l[1].fills /\ l[1].filled = 0
  /\ \A k \in DOMAIN l : ~l[k].fills => l[k].st \in Unfilling
  /\ \A k \in DOMAIN l : l[k].st \in Terminal => k = Len(l)
  /\ \A j, k \in DOMAIN l : j <= k => l[j].filled <= l[k].filled
  /\ \A j, k \in DOMAIN l : l[j].st = "odd" /\ l[k].st = "odd" => j = k

Linked(l, n) ==
  \A k \in DOMAIN l : \A s \in State :
    k < Len(l) /\ Reaches(l, s, k) => Follows(s, l[k + 1], n)

Shape(l, b, n) ==
  /\ b = None <=> l = <<>>
  /\ b # None => /\ Reaches(l, b, Len(l)) /\ b.filled <= n
                 /\ b.st = "partially_filled" => b.filled > 0
  /\ Steady(l) /\ Linked(l, n)

LEMMA AppendIndex ==
  ASSUME NEW l \in Seq(Update), NEW e \in Update
  PROVE  /\ Append(l, e) \in Seq(Update) /\ Len(Append(l, e)) = Len(l) + 1 /\ Len(l) \in Nat
         /\ DOMAIN l = 1..Len(l) /\ DOMAIN Append(l, e) = 1..(Len(l) + 1)
         /\ \A k \in 1..Len(l) : Append(l, e)[k] = l[k]
         /\ Append(l, e)[Len(l) + 1] = e
OBVIOUS

\* The state an order has reached is one.
LEMMA ReachedOnce ==
  ASSUME NEW l, NEW k, NEW s \in State, NEW t \in State, Reaches(l, s, k), Reaches(l, t, k)
  PROVE  s = t
<1>1. s.st = t.st /\ s.filled = t.filled
  BY DEF Reaches
<1> QED BY <1>1 DEF State

\* What was reached stays where it was when updates are added.
LEMMA ReachesStays ==
  ASSUME NEW l \in Seq(Update), NEW e \in Update, NEW s, NEW k \in DOMAIN l
  PROVE  Reaches(Append(l, e), s, k) <=> Reaches(l, s, k)
<1>1. k \in 1..Len(l) /\ k \in DOMAIN Append(l, e) /\ (k > 1 => k - 1 \in 1..Len(l))
  BY AppendIndex
<1>2. Append(l, e)[k] = l[k] /\ (k > 1 => Append(l, e)[k - 1] = l[k - 1])
  BY <1>1, AppendIndex
<1> QED BY <1>1, <1>2 DEF Reaches

\* The broker sends an update of a working order.
LEMMA ShapeGrows ==
  ASSUME NEW l \in Seq(Update), NEW b \in State, NEW n \in Nat, NEW e \in Update,
         NEW c \in State, Shape(l, b, n), Follows(b, e, n), b.st \notin Terminal,
         e.st # "new", ~e.fills => e.st \in Unfilling,
         e.st = "odd" => \A k \in DOMAIN l : l[k].st # "odd",
         c = IF e.st = "odd" THEN b ELSE [st |-> e.st, filled |-> e.filled],
         c.st = "partially_filled" => c.filled > 0, c.filled <= n
  PROVE  Shape(Append(l, e), c, n)
<1> DEFINE m == Append(l, e)
           last == Len(l)
<1>1. /\ m \in Seq(Update) /\ Len(m) = last + 1 /\ last \in Nat
      /\ DOMAIN l = 1..last /\ DOMAIN m = 1..(last + 1)
      /\ \A k \in 1..last : m[k] = l[k]
      /\ m[last + 1] = e
  BY AppendIndex
<1>2. b # None /\ c # None /\ Reaches(l, b, last) /\ Steady(l) /\ Linked(l, n)
  BY NoneState DEF Shape
<1>3. last \in 1..last
  BY <1>1, <1>2 DEF Reaches
<1>4. \A k \in 1..last : l[k] \in Update /\ l[k].filled \in Nat
  <2>1. \A k \in 1..last : l[k] \in Update
    BY <1>1
  <2> QED BY <2>1 DEF Update
<1>5. e.filled \in Nat /\ b.filled \in Nat /\ b.filled <= e.filled
  BY DEF Follows, Update, State
<1>6. b.filled = l[last].filled
  BY <1>2 DEF Reaches
<1> HIDE DEF m, last
<1>7. Reaches(m, c, last + 1)
  <2>1. CASE e.st = "odd"
    <3>1. l[last].st # "odd" /\ b.st = l[last].st /\ e.filled = b.filled /\ c = b
      BY <1>1, <1>2, <1>3, <2>1 DEF Reaches, Follows
    <3>2. last + 1 > 1 /\ (last + 1) - 1 = last /\ m[last] = l[last]
      BY <1>1, <1>3
    <3> QED BY <1>1, <2>1, <3>1, <3>2 DEF Reaches
  <2>2. CASE e.st # "odd"
    BY <1>1, <2>2 DEF Reaches
  <2> QED BY <2>1, <2>2
<1>8. Steady(m)
  <2>1. \A k \in 1..(last + 1) : m[k].st = "new" <=> k = 1
    BY <1>1, <1>2, <1>3 DEF Steady
  <2>2. m # <<>> /\ ~m[1].fills /\ m[1].filled = 0
    <3>1. 1 \in 1..last /\ l # <<>>
      BY <1>1, <1>3
    <3> QED BY <1>1, <1>2, <3>1 DEF Steady
  <2>3. \A k \in 1..(last + 1) : ~m[k].fills => m[k].st \in Unfilling
    BY <1>1, <1>2 DEF Steady
  <2>4. \A k \in 1..(last + 1) : m[k].st \in Terminal => k = last + 1
    <3>1. \A k \in 1..last : l[k].st \notin Terminal
      <4>1. SUFFICES ASSUME NEW k \in 1..last, l[k].st \in Terminal PROVE FALSE
        OBVIOUS
      <4>2. k = last
        BY <1>1, <1>2, <4>1 DEF Steady, last
      <4>3. l[last].st # "odd"
        BY <4>1, <4>2 DEF Terminal
      <4> QED BY <1>2, <4>1, <4>2, <4>3 DEF Reaches
    <3> QED BY <1>1, <3>1
  <2>5. \A j, k \in 1..(last + 1) : j <= k => m[j].filled <= m[k].filled
    <3>1. \A j \in 1..last : l[j].filled <= e.filled
      <4>1. \A j \in 1..last : l[j].filled <= l[last].filled
        BY <1>1, <1>2, <1>3 DEF Steady
      <4> QED BY <1>3, <1>4, <1>5, <1>6, <4>1
    <3>2. \A j, k \in 1..last : j <= k => l[j].filled <= l[k].filled
      BY <1>1, <1>2 DEF Steady
    <3> QED BY <1>1, <1>5, <3>1, <3>2
  <2>6. \A j, k \in 1..(last + 1) : m[j].st = "odd" /\ m[k].st = "odd" => j = k
    <3>1. \A j, k \in 1..last : l[j].st = "odd" /\ l[k].st = "odd" => j = k
      BY <1>1, <1>2 DEF Steady
    <3>2. e.st = "odd" => \A k \in 1..last : l[k].st # "odd"
      BY <1>1
    <3>3. \A k \in 1..(last + 1) : k \in 1..last \/ k = last + 1
      BY <1>1
    <3> QED BY <1>1, <3>1, <3>2, <3>3
  <2> QED BY <1>1, <2>1, <2>2, <2>3, <2>4, <2>5, <2>6 DEF Steady
<1>9. Linked(m, n)
  <2>1. SUFFICES ASSUME NEW k \in 1..last, NEW s \in State, Reaches(m, s, k)
                 PROVE  Follows(s, m[k + 1], n)
    BY <1>1 DEF Linked
  <2>2. Reaches(l, s, k)
    BY <1>1, <2>1, ReachesStays DEF m
  <2>3. CASE k = last
    <3>1. s = b
      BY <1>2, <2>2, <2>3, ReachedOnce
    <3> QED BY <1>1, <2>3, <3>1
  <2>4. CASE k # last
    <3>1. k < last /\ k + 1 \in 1..last
      BY <1>1, <2>4
    <3> QED BY <1>1, <1>2, <2>2, <3>1 DEF Linked, last
  <2> QED BY <2>3, <2>4
<1>10. m # <<>>
  BY <1>1
<1> QED BY <1>1, <1>2, <1>7, <1>8, <1>9, <1>10 DEF Shape, m

\* The first update places the order.
LEMMA ShapeStarts ==
  ASSUME NEW n \in Nat, NEW e \in Update, e.st = "new", ~e.fills, e.filled = 0
  PROVE  Shape(Append(<<>>, e), [st |-> "new", filled |-> 0], n)
<1> DEFINE m == Append(<<>>, e)
           b == [st |-> "new", filled |-> 0]
<1>1. Len(m) = 1 /\ DOMAIN m = {1} /\ m[1] = e /\ m # <<>>
  OBVIOUS
<1>2. b # None
  <2>1. b \in State
    BY DEF State, States
  <2> QED BY <2>1, NoneState
<1> HIDE DEF m
<1>3. Reaches(m, b, 1)
  BY <1>1 DEF Reaches
<1>4. Steady(m)
  BY <1>1 DEF Steady, Unfilling, Terminal
<1>5. Linked(m, n)
  BY <1>1 DEF Linked
<1> QED BY <1>1, <1>2, <1>3, <1>4, <1>5 DEF Shape, m

\* An update that has been followed changes nothing when it comes again.
LEMMA RepeatIsIdle ==
  ASSUME NEW l \in Seq(Update), Steady(l), NEW s \in State, NEW k, Reaches(l, s, k),
         NEW j \in DOMAIN l, j <= k, l[j].st # "odd", Legal(s.st, l[j].st),
         ~l[j].fills, l[j].filled = s.filled
  PROVE  s = [st |-> l[j].st, filled |-> l[j].filled]
<1>1. DOMAIN l = 1..Len(l) /\ Len(l) \in Nat /\ k \in 1..Len(l) /\ j \in 1..Len(l)
  BY DEF Reaches
<1>2. l[j].st \in Unfilling
  BY <1>1 DEF Steady
<1>3. l[j].st = s.st
  <2>1. CASE l[j].st = "new"
    BY <2>1, <1>1 DEF Legal, Steady, Reaches
  <2>2. CASE l[j].st = "accepted"
    <3>1. s.st \in {"new", "accepted"}
      BY <2>2 DEF Legal
    <3>2. s.st # "new"
      <4>1. SUFFICES ASSUME s.st = "new" PROVE FALSE
        OBVIOUS
      <4>2. j # 1
        BY <1>1, <2>2 DEF Steady
      <4>3. CASE l[k].st = "odd"
        <5>1. k - 1 \in 1..Len(l) /\ l[k - 1].st = "new"
          BY <1>1, <4>1, <4>3 DEF Reaches
        <5>2. k = 2
          BY <1>1, <5>1 DEF Steady
        <5> QED BY <1>1, <2>2, <4>2, <4>3, <5>2
      <4>4. CASE l[k].st # "odd"
        <5>1. k = 1
          BY <1>1, <4>1, <4>4 DEF Reaches, Steady
        <5> QED BY <1>1, <4>2, <5>1
      <4> QED BY <4>3, <4>4
    <3> QED BY <2>2, <3>1, <3>2
  <2>3. CASE l[j].st \in Terminal
    <3>1. j = Len(l) /\ k = j
      BY <1>1, <2>3 DEF Steady
    <3> QED BY <2>3, <3>1 DEF Reaches, Terminal
  <2> QED BY <1>2, <2>1, <2>2, <2>3 DEF Unfilling
<1> QED BY <1>3 DEF State

----------------------------------------------------------------------------
(* The process that follows them.                                          *)

BookShape == \A c \in Orders : Shape(log[c], book[c], Shares[c])

FetchShape ==
  \A c \in Orders : fetched[c] # None =>
    /\ upto[c] > 0
    /\ fetched[c].st \in States => Reaches(log[c], fetched[c], upto[c])

Followed(c) ==
  orderly[c] /\ c \notin stale /\ c \notin blind =>
    /\ seen[c] <= Len(log[c])
    /\ seen[c] = 0 => local[c] = None /\ counted[c] = 0 /\ base[c] = 0
    /\ seen[c] > 0 => /\ local[c] # None /\ Reaches(log[c], local[c], seen[c])
                      /\ counted[c] = local[c].filled - base[c]

\* InStep is not inductive: an update can be applied because the state it meets
\* is the one the updates before it lead to.
StepInv == TypeOK /\ BookShape /\ FetchShape /\ \A c \in Orders : Followed(c)

LEMMA StepSends ==
  ASSUME StepInv, TypeOK', NEW c \in Orders, NEW fills \in BOOLEAN,
         NEW st \in States \cup {"odd"}, NEW filled \in Nat, NEW qty \in Nat \cup {None},
         Sends(c, fills, st, filled, qty),
         \A d \in Orders \ {c} : book'[d] = book[d],
         \A total \in BOOLEAN :
           Shape(Append(log[c], [fills |-> fills, st |-> st, filled |-> filled,
                                 total |-> total, qty |-> qty]),
                 book'[c], Shares[c])
  PROVE  StepInv'
<1>0. PICK total \in BOOLEAN :
        log' = [log EXCEPT ![c] = Append(@, [fills |-> fills, st |-> st, filled |-> filled,
                                             total |-> total, qty |-> qty])]
  BY DEF Sends
<1> DEFINE e == [fills |-> fills, st |-> st, filled |-> filled, total |-> total, qty |-> qty]
<1>1. UNCHANGED <<local, counted, fetched, seen, orderly, upto, base, stale, blind>>
  BY DEF Sends, localVars, startVars, historyVars
<1>2. log \in [Orders -> Seq(Update)] /\ e \in Update
  BY DEF StepInv, TypeOK, Update
<1>3. \A d \in Orders : log'[d] = IF d = c THEN Append(log[c], e) ELSE log[d]
  BY <1>0, <1>2
<1> HIDE DEF e
<1>4. ASSUME NEW d \in Orders
      PROVE  Len(log[d]) <= Len(log'[d]) /\ Len(log[d]) \in Nat /\ Len(log'[d]) \in Nat
  <2>1. log[d] \in Seq(Update) /\ log[c] \in Seq(Update)
    BY <1>2
  <2>2. CASE d = c
    <3>1. log'[d] = Append(log[c], e) /\ log[d] = log[c]
      BY <1>3, <2>2
    <3>2. Len(Append(log[c], e)) = Len(log[c]) + 1 /\ Len(log[c]) \in Nat
      BY <1>2, <2>1, AppendIndex
    <3> QED BY <3>1, <3>2
  <2>3. CASE d # c
    BY <1>3, <2>1, <2>3
  <2> QED BY <2>2, <2>3
<1>5. ASSUME NEW d \in Orders, NEW s, NEW k, Reaches(log[d], s, k)
      PROVE  Reaches(log'[d], s, k)
  <2>1. CASE d = c
    <3>1. k \in DOMAIN log[c] /\ log[c] \in Seq(Update)
      BY <1>2, <1>5, <2>1 DEF Reaches
    <3> QED BY <1>2, <1>3, <1>5, <2>1, <3>1, ReachesStays
  <2> QED BY <1>3, <1>5, <2>1
<1>6. BookShape'
  BY <1>3 DEF StepInv, BookShape, e
<1>7. FetchShape'
  BY <1>1, <1>5 DEF StepInv, FetchShape
<1>8. ASSUME NEW d \in Orders PROVE Followed(d)'
  <2>1. Followed(d) /\ seen[d] \in Nat
    BY DEF StepInv, TypeOK
  <2> QED BY <1>1, <1>4, <1>5, <2>1 DEF Followed
<1> QED BY <1>6, <1>7, <1>8 DEF StepInv

\* Of the broker's own steps each sends an update that follows.
LEMMA StepBroker ==
  ASSUME StepInv, TypeOK', Broker
  PROVE  StepInv'
<1>1. TypeOK /\ \A c \in Orders : Shape(log[c], book[c], Shares[c])
  BY DEF StepInv, BookShape
<1>2. ASSUME NEW c \in Orders, Place(c) PROVE StepInv'
  <2> DEFINE E(total) == [fills |-> FALSE, st |-> "new", filled |-> 0, total |-> total,
                          qty |-> None]
  <2>1. log[c] = <<>> /\ Shares[c] \in Nat
    BY <1>1, <1>2, SharesNat DEF Place, Shape
  <2>2. \A total \in BOOLEAN :
          /\ E(total) \in Update /\ E(total).st = "new" /\ ~E(total).fills
          /\ E(total).filled = 0
    BY DEF Update, States
  <2>3. /\ Sends(c, FALSE, "new", 0, None)
        /\ \A d \in Orders \ {c} : book'[d] = book[d]
        /\ book'[c] = [st |-> "new", filled |-> 0]
    BY <1>1, <1>2 DEF Place, Becomes, TypeOK
  <2>4. ASSUME NEW total \in BOOLEAN PROVE Shape(Append(log[c], E(total)), book'[c], Shares[c])
    <3> HIDE DEF E
    <3> QED BY <2>1, <2>2, <2>3, ShapeStarts
  <2> QED BY <2>3, <2>4, StepSends DEF States
\* What follows the state of a working order.
<1>3. ASSUME NEW c \in Orders, NEW fills \in BOOLEAN, NEW st \in States \cup {"odd"},
             NEW filled \in Nat, NEW qty \in Nat \cup {None},
             Sends(c, fills, st, filled, qty), st # "new",
             \A d \in Orders \ {c} : book'[d] = book[d],
             book[c] # None, book[c].st \notin Terminal,
             book'[c] = IF st = "odd" THEN book[c] ELSE [st |-> st, filled |-> filled],
             \A total \in BOOLEAN :
               Follows(book[c], [fills |-> fills, st |-> st, filled |-> filled,
                                 total |-> total, qty |-> qty], Shares[c]),
             ~fills => st \in Unfilling,
             st = "odd" => \A k \in DOMAIN log[c] : log[c][k].st # "odd",
             st = "partially_filled" => filled > 0
      PROVE  StepInv'
  <2> DEFINE E(total) == [fills |-> fills, st |-> st, filled |-> filled, total |-> total,
                          qty |-> qty]
  <2>1. log[c] \in Seq(Update) /\ book[c] \in State /\ Shares[c] \in Nat
    BY <1>1, <1>3, SharesNat DEF TypeOK
  <2>2. book'[c] \in State
    BY <1>3, <2>1 DEF State
  <2>3. /\ book'[c].st = "partially_filled" => book'[c].filled > 0
        /\ book'[c].filled <= Shares[c]
    <3>1. CASE st = "odd"
      BY <1>1, <1>3, <3>1 DEF Shape
    <3>2. CASE st # "odd"
      BY <1>3, <3>2 DEF Follows
    <3> QED BY <3>1, <3>2
  <2>6. ASSUME NEW total \in BOOLEAN PROVE Shape(Append(log[c], E(total)), book'[c], Shares[c])
    <3> DEFINE e == E(total)
    <3>1. /\ e \in Update /\ e.st = st /\ e.fills = fills /\ e.filled = filled
          /\ Follows(book[c], e, Shares[c])
      BY <1>3 DEF Update
    <3> HIDE DEF e
    <3>2. Shape(Append(log[c], e), book'[c], Shares[c])
      BY <1>1, <1>3, <2>1, <2>2, <2>3, <3>1, ShapeGrows
    <3> QED BY <3>2 DEF e
  <2> QED BY <1>3, <2>6, StepSends
<1>4. ASSUME NEW c \in Orders, book[c] # None
      PROVE  /\ book[c] \in State /\ book[c].st \in States /\ book[c].filled \in Nat
             /\ book[c].filled <= Shares[c] /\ Shares[c] \in Nat
             /\ book[c].st = "partially_filled" => book[c].filled > 0
  BY <1>1, <1>4, BookType, SharesNat DEF Shape
<1>5. ASSUME NEW c \in Orders, NEW fills \in BOOLEAN, NEW st \in States, NEW filled \in Nat,
             NEW qty, Becomes(c, fills, st, filled, qty)
      PROVE  /\ book'[c] = [st |-> st, filled |-> filled]
             /\ \A d \in Orders \ {c} : book'[d] = book[d]
             /\ Sends(c, fills, st, filled, qty)
             /\ st # "odd"
  BY <1>1, <1>5 DEF Becomes, TypeOK, States, Terminal
<1>6. ASSUME NEW c \in Orders, Accept(c) PROVE StepInv'
  <2>1. /\ book[c] # None /\ book[c].st = "new" /\ "accepted" \in States
        /\ Becomes(c, FALSE, "accepted", book[c].filled, None)
    BY <1>6 DEF Accept, States
  <2>2. \A total \in BOOLEAN :
          Follows(book[c], [fills |-> FALSE, st |-> "accepted", filled |-> book[c].filled,
                            total |-> total, qty |-> None], Shares[c])
    BY <1>4, <2>1 DEF Follows, Legal
  <2>3. book[c].filled \in Nat /\ book[c].st \notin Terminal /\ "accepted" \in Unfilling
    BY <1>4, <2>1 DEF Unfilling, Terminal
  <2> QED BY <1>3, <1>5, <2>1, <2>2, <2>3
<1>7. ASSUME NEW c \in Orders, Hold(c) PROVE StepInv'
  <2>1. /\ book[c] # None /\ book[c].st \notin Terminal /\ UNCHANGED book
        /\ Sends(c, FALSE, "odd", book[c].filled, None)
        /\ \A k \in DOMAIN log[c] : log[c][k].st # "odd"
    BY <1>7 DEF Hold, Working
  <2>2. \A total \in BOOLEAN :
          Follows(book[c], [fills |-> FALSE, st |-> "odd", filled |-> book[c].filled,
                            total |-> total, qty |-> None], Shares[c])
    BY DEF Follows
  <2> QED BY <1>3, <1>4, <2>1, <2>2 DEF Unfilling
<1>8. ASSUME NEW c \in Orders, NEW q \in 1 .. Shares[c], NEW said \in {q, None},
             Trade(c, q, said)
      PROVE  StepInv'
  <2> DEFINE filled == book[c].filled + q
             st == IF filled = Shares[c] THEN "filled" ELSE "partially_filled"
  <2>1. /\ book[c] # None /\ book[c].st \notin Terminal /\ filled <= Shares[c]
        /\ Becomes(c, TRUE, st, filled, said)
    BY <1>8 DEF Trade, Working
  <2>2. q \in Nat /\ q > 0 /\ filled \in Nat /\ filled > book[c].filled /\ filled > 0
    BY <1>4, <2>1
  <2>3. st \in {"filled", "partially_filled"} /\ st \in States
    BY DEF States, Terminal
  <2>4. said # None => filled = book[c].filled + said
    BY <1>8
  <2>5. Legal(book[c].st, st)
    BY <1>4, <2>1, <2>3 DEF Legal, States
  <2> HIDE DEF filled, st
  <2>6. \A total \in BOOLEAN :
          Follows(book[c], [fills |-> TRUE, st |-> st, filled |-> filled, total |-> total,
                            qty |-> said], Shares[c])
    BY <2>1, <2>2, <2>3, <2>4, <2>5 DEF Follows
  <2>7. said \in Nat \cup {None}
    BY <1>8, <2>2
  <2> QED BY <1>3, <1>5, <2>1, <2>2, <2>3, <2>6, <2>7
<1>9. ASSUME NEW c \in Orders, NEW st \in Endings, End(c, st) PROVE StepInv'
  <2>1. /\ book[c] # None /\ book[c].st \notin Terminal
        /\ Becomes(c, FALSE, st, book[c].filled, None)
        /\ st = "rejected" => book[c].filled = 0
    BY <1>9 DEF End, Working
  <2>2. st \in Terminal /\ st \in States /\ st \notin {"new", "accepted", "partially_filled"}
    BY TerminalStates DEF Terminal
  <2>3. Legal(book[c].st, st)
    BY <1>4, <2>1, <2>2 DEF Legal, States
  <2>4. \A total \in BOOLEAN :
          Follows(book[c], [fills |-> FALSE, st |-> st, filled |-> book[c].filled,
                            total |-> total, qty |-> None], Shares[c])
    BY <1>4, <1>5, <2>1, <2>2, <2>3 DEF Follows
  <2>5. /\ book'[c] = [st |-> st, filled |-> book[c].filled]
        /\ \A d \in Orders \ {c} : book'[d] = book[d]
        /\ Sends(c, FALSE, st, book[c].filled, None)
        /\ st # "odd" /\ book[c].filled \in Nat
    BY <1>4, <1>5, <2>1, <2>2
  <2>6. st # "new" /\ st # "partially_filled" /\ st \in Unfilling
    BY <2>2 DEF Unfilling
  <2> QED BY <1>3, <2>1, <2>2, <2>4, <2>5, <2>6
<1> QED BY <1>2, <1>6, <1>7, <1>8, <1>9 DEF Broker

\* An update comes: the next one takes the order where the broker took it, one
\* that came before leaves it there, and any other ends the order of the updates.
LEMMA StepArrived ==
  ASSUME StepInv, TypeOK', NEW c \in Orders, NEW k \in DOMAIN log[c],
         ApplyUpdate(c, k) \/ RefuseUpdate(c, k)
  PROVE  StepInv'
<1> DEFINE e == log[c][k]
           l == log[c]
<1>1. Arrived(c, k)
  BY DEF ApplyUpdate, RefuseUpdate
<1>2. UNCHANGED <<book, log, fetched, upto, base, stale>>
  BY <1>1 DEF Arrived, brokerVars, startVars
<1>3. TypeOK /\ Shape(l, book[c], Shares[c]) /\ \A d \in Orders : Followed(d)
  BY DEF StepInv, BookShape
<1>4. /\ l \in Seq(Update) /\ DOMAIN l = 1..Len(l) /\ Len(l) \in Nat /\ k \in 1..Len(l)
      /\ e \in Update /\ seen[c] \in Nat /\ orderly[c] \in BOOLEAN
  BY <1>3, UpdateType DEF TypeOK
<1>5. BookShape' /\ FetchShape'
  BY <1>2 DEF StepInv, BookShape, FetchShape
<1>6. \A d \in Orders \ {c} :
        /\ local'[d] = local[d] /\ counted'[d] = counted[d]
        /\ seen'[d] = seen[d] /\ orderly'[d] = orderly[d]
        /\ d \in blind' <=> d \in blind
  BY <1>1, <1>3, BlindOf DEF Arrived, ApplyUpdate, Applied, RefuseUpdate, TypeOK
<1>7. ASSUME NEW d \in Orders \ {c} PROVE Followed(d)'
  BY <1>2, <1>3, <1>6 DEF Followed
<1>8. /\ seen'[c] = IF k = seen[c] + 1 THEN k ELSE seen[c]
      /\ orderly'[c] <=> orderly[c] /\ k <= seen[c] + 1 /\ (k = seen[c] + 1 => Tells(e))
  BY <1>1, <1>3 DEF Arrived, TypeOK
<1>9. /\ ApplyUpdate(c, k) =>
           /\ Applicable(c, e) /\ local'[c] = [st |-> e.st, filled |-> NewFilled(c, e)]
           /\ counted'[c] = IF e.fills THEN counted[c] + FillQty(c, e) ELSE counted[c]
      /\ RefuseUpdate(c, k) =>
           ~Applicable(c, e) /\ local'[c] = local[c] /\ counted'[c] = counted[c]
  BY <1>3 DEF ApplyUpdate, Applied, RefuseUpdate, TypeOK
<1>12. /\ c \in blind => c \in blind'
       /\ ApplyUpdate(c, k) => c \in blind' \/ e.total \/ InTurn(c, k) \/ local' = local
  BY BlindOf DEF ApplyUpdate
<1>10. e.filled \in Nat /\ counted[c] \in Int /\ base[c] \in Int
  BY <1>3, <1>4 DEF Update, TypeOK
<1> HIDE DEF e, l
<1>11. Followed(c)'
  <2>1. SUFFICES ASSUME orderly[c], c \notin stale, c \notin blind', k <= seen[c] + 1,
                        k = seen[c] + 1 => Tells(e)
                 PROVE  /\ seen'[c] <= Len(l)
                        /\ seen'[c] = 0 => local'[c] = None /\ counted'[c] = 0 /\ base[c] = 0
                        /\ seen'[c] > 0 => /\ local'[c] # None
                                           /\ Reaches(l, local'[c], seen'[c])
                                           /\ counted'[c] = local'[c].filled - base[c]
    BY <1>2, <1>8 DEF Followed, l
  <2>2. Followed(c) /\ Steady(l) /\ Linked(l, Shares[c]) /\ c \notin blind
    BY <1>3, <1>12, <2>1 DEF Shape
  <2>3. CASE k = seen[c] + 1 /\ seen[c] = 0
    <3>1. k = 1 /\ local[c] = None /\ counted[c] = 0 /\ base[c] = 0
      BY <2>1, <2>2, <2>3 DEF Followed
    <3>2. e.st = "new" /\ ~e.fills /\ e.filled = 0 /\ l # <<>>
      <4>1. l # <<>>
        BY <1>4
      <4> QED BY <1>4, <2>2, <3>1, <4>1 DEF Steady, e, l
    <3>7. NewFilled(c, e) = 0
      BY <3>1, <3>2 DEF NewFilled, FilledOf
    <3>3. Applicable(c, e)
      BY <3>1, <3>2, <3>7, SharesNat DEF Applicable, GoodTotal, States
    <3>4. local'[c] = [st |-> "new", filled |-> 0] /\ counted'[c] = 0
      BY <1>9, <3>1, <3>2, <3>3, <3>7
    <3>5. local'[c] # None
      <4>1. [st |-> "new", filled |-> 0] \in State
        BY DEF State, States
      <4> QED BY <3>4, <4>1, NoneState
    <3>6. Reaches(l, local'[c], 1)
      BY <1>4, <3>1, <3>2, <3>4 DEF Reaches, e, l
    <3> QED BY <1>4, <1>8, <2>3, <3>1, <3>4, <3>5, <3>6
  <2>4. CASE k = seen[c] + 1 /\ seen[c] > 0
    <3>1. /\ local[c] # None /\ Reaches(l, local[c], seen[c]) /\ local[c] \in State
          /\ counted[c] = local[c].filled - base[c] /\ FilledOf(c) = local[c].filled
      BY <1>3, <2>1, <2>2, <2>4, LocalType DEF Followed, FilledOf, l
    <3>2. seen[c] \in DOMAIN l /\ seen[c] < Len(l)
      BY <1>4, <2>4
    <3>3. Follows(local[c], e, Shares[c])
      BY <2>2, <2>4, <3>1, <3>2 DEF Linked, e, l
    <3>4. CASE e.st = "odd"
      <4>1. ~Applicable(c, e)
        BY <3>4 DEF Applicable, States, Terminal
      <4>2. local'[c] = local[c] /\ counted'[c] = counted[c]
        BY <1>9, <4>1
      <4>3. e.filled = local[c].filled
        BY <3>3, <3>4 DEF Follows
      <4>4. l[seen[c]].st # "odd"
        BY <1>4, <2>2, <2>4, <3>2, <3>4 DEF Steady, e, l
      <4>5. k > 1 /\ k - 1 = seen[c] /\ l[k] = e
        BY <1>4, <2>4 DEF e, l
      <4>6. Reaches(l, local[c], k)
        BY <1>4, <3>1, <3>4, <4>3, <4>4, <4>5 DEF Reaches
      <4> QED BY <1>4, <1>8, <2>4, <3>1, <4>2, <4>5, <4>6
    <3>5. CASE e.st # "odd"
      <4>1. e.st \in States
        BY <1>4, <3>5 DEF Update
      <4>2. /\ e.qty \in Nat \cup {None} /\ local[c].filled \in Nat /\ Shares[c] \in Nat
        BY <1>4, <3>1, SharesNat DEF Update, State
      <4>3. e.fills => /\ FillQty(c, e) = e.filled - local[c].filled
                       /\ FillQty(c, e) > 0
        BY <1>10, <3>1, <3>3, <3>5, <4>2 DEF Follows, FillQty
      <4>4. ~e.fills => e.filled = local[c].filled
        BY <3>3, <3>5 DEF Follows
      <4>5. Legal(local[c].st, e.st) /\ e.filled <= Shares[c]
        BY <3>3, <3>5 DEF Follows
      <4>14. NewFilled(c, e) = e.filled
        <5>1. CASE e.total
          BY <5>1 DEF NewFilled
        <5>2. CASE ~e.total /\ e.fills
          BY <1>10, <3>1, <4>2, <4>3, <5>2 DEF NewFilled
        <5>3. CASE ~e.total /\ ~e.fills
          BY <3>1, <4>2, <4>4, <5>3 DEF NewFilled
        <5> QED BY <5>1, <5>2, <5>3
      <4>6. e.fills => GoodFill(c, e)
        BY <1>10, <2>1, <2>4, <3>1, <4>2, <4>3, <4>14 DEF GoodFill
      <4>7. ~e.fills => GoodTotal(c, e)
        BY <3>1, <4>4, <4>14 DEF GoodTotal
      <4>8. Applicable(c, e)
        BY <4>1, <4>5, <4>6, <4>7, <4>14 DEF Applicable
      <4>9. /\ local'[c] = [st |-> e.st, filled |-> e.filled]
            /\ counted'[c] = IF e.fills THEN counted[c] + FillQty(c, e) ELSE counted[c]
        BY <1>9, <4>8, <4>14
      <4>10. local'[c] # None
        <5>1. local'[c] \in State
          BY <1>10, <4>1, <4>9 DEF State
        <5> QED BY <5>1, NoneState
      <4>11. local'[c].filled = e.filled
        BY <4>9
      <4>12. counted'[c] = e.filled - base[c]
        BY <1>10, <3>1, <4>2, <4>3, <4>4, <4>9
      <4>13. Reaches(l, local'[c], k)
        BY <1>4, <3>5, <4>9 DEF Reaches, e, l
      <4> QED BY <1>4, <1>8, <2>4, <4>10, <4>11, <4>12, <4>13
    <3> QED BY <3>4, <3>5
  <2>5. CASE k <= seen[c]
    <3>1. /\ local[c] # None /\ Reaches(l, local[c], seen[c]) /\ local[c] \in State
          /\ counted[c] = local[c].filled - base[c] /\ FilledOf(c) = local[c].filled
          /\ seen[c] <= Len(l) /\ seen[c] > 0
      BY <1>3, <1>4, <2>1, <2>2, <2>5, LocalType DEF Followed, FilledOf, l
    <3>2. seen'[c] = seen[c]
      BY <1>4, <1>8, <2>5
    <3>3. local'[c] = local[c] /\ counted'[c] = counted[c]
      <4>1. SUFFICES ASSUME ApplyUpdate(c, k), Applicable(c, e)
                     PROVE  local'[c] = local[c] /\ counted'[c] = counted[c]
        BY <1>9
      <4>2. e.filled <= local[c].filled /\ local[c].filled \in Nat
        BY <1>4, <2>2, <2>5, <3>1 DEF Steady, Reaches, State, e, l
      <4>3. FillQty(c, e) \in Int /\ local'[c] = [st |-> e.st, filled |-> NewFilled(c, e)]
        BY <1>3, <1>4, <1>9, <4>1, FillQtyInt
      <4>4. CASE e.total
        <5>1. NewFilled(c, e) = e.filled
          BY <4>4 DEF NewFilled
        <5>2. ~e.fills
          BY <1>10, <3>1, <4>1, <4>2, <4>3, <5>1 DEF Applicable, GoodFill
        <5>3. e.filled = local[c].filled /\ e.st # "odd" /\ Legal(local[c].st, e.st)
          BY <3>1, <4>1, <5>1, <5>2 DEF Applicable, GoodTotal, States, Terminal
        <5>4. local[c] = [st |-> e.st, filled |-> e.filled]
          BY <1>4, <2>2, <2>5, <3>1, <5>2, <5>3, RepeatIsIdle DEF e, l
        <5> QED BY <1>9, <4>1, <5>1, <5>2, <5>4
      <4>5. CASE local' = local
        <5>1. NewFilled(c, e) = FilledOf(c)
          BY <3>1, <4>3, <4>5
        <5>2. ~e.fills
          BY <3>1, <4>1, <4>2, <4>3, <5>1 DEF Applicable, GoodFill
        <5> QED BY <1>9, <4>1, <4>5, <5>2
      <4>6. ~InTurn(c, k)
        BY <1>4, <2>5 DEF InTurn
      <4> QED BY <1>12, <2>1, <4>1, <4>4, <4>5, <4>6
    <3> QED BY <3>1, <3>2, <3>3
  <2> QED BY <1>4, <2>1, <2>3, <2>4, <2>5
<1> QED BY <1>5, <1>7, <1>11 DEF StepInv

LEMMA StepRestarts ==
  ASSUME StepInv, TypeOK', Restart
  PROVE  StepInv'
<1>1. /\ UNCHANGED <<book, log>>
      /\ \A c \in Orders : /\ local'[c] = None /\ counted'[c] = 0 /\ fetched'[c] = None
                           /\ seen'[c] = 0 /\ base'[c] = 0
  BY DEF Restart, Nothing, Zero, brokerVars
<1>2. \A c \in Orders : Len(log[c]) \in Nat
  BY DEF StepInv, TypeOK
<1> QED BY <1>1, <1>2 DEF StepInv, BookShape, FetchShape, Followed

\* An order is listed as it is, but for a status the process does not know.
LEMMA ListedType ==
  ASSUME TypeOK, NEW c \in Orders
  PROVE  /\ book[c] = None => Listed(c) = None
         /\ book[c] # None => /\ Listed(c) \in Listing /\ Listed(c) # None
                              /\ Listed(c).filled = book[c].filled
                              /\ Listed(c).st \in States => Listed(c) = book[c]
<1>1. CASE book[c] = None
  BY <1>1 DEF Listed
<1>2. CASE book[c] # None
  <2>1. book[c] \in State /\ "odd" \notin States
    BY <1>2, BookType DEF States, Terminal
  <2>2. \/ Listed(c) = book[c]
        \/ Listed(c) = [book[c] EXCEPT !.st = "odd"]
    BY DEF Listed
  <2>3. /\ Listed(c) \in Listing /\ Listed(c).filled = book[c].filled
        /\ Listed(c).st \in States => Listed(c) = book[c]
    BY <2>1, <2>2 DEF State, Listing
  <2> QED BY <1>2, <2>3, NoneState
<1> QED BY <1>1, <1>2

LEMMA StepFetches ==
  ASSUME StepInv, TypeOK', Fetch
  PROVE  StepInv'
<1>1. /\ UNCHANGED <<book, log, local, counted, seen, orderly, base, stale, blind>>
      /\ \A c \in Orders : fetched'[c] = Listed(c) /\ upto'[c] = Len(log[c])
  BY DEF Fetch, brokerVars, localVars
<1>2. FetchShape'
  <2>1. SUFFICES ASSUME NEW c \in Orders, Listed(c) # None
                 PROVE  /\ Len(log[c]) > 0
                        /\ Listed(c).st \in States => Reaches(log[c], Listed(c), Len(log[c]))
    BY <1>1 DEF FetchShape
  <2>2. book[c] # None /\ (Listed(c).st \in States => Listed(c) = book[c])
    BY <2>1, ListedType DEF StepInv
  <2>3. Reaches(log[c], book[c], Len(log[c])) /\ log[c] \in Seq(Update)
    BY <2>2 DEF StepInv, BookShape, Shape, TypeOK
  <2>4. Len(log[c]) > 0
    BY <2>3 DEF Reaches
  <2> QED BY <2>2, <2>3, <2>4
<1> QED BY <1>1, <1>2 DEF StepInv, BookShape, Followed

LEMMA StepRestores ==
  ASSUME StepInv, TypeOK', Restore
  PROVE  StepInv'
<1>1. UNCHANGED <<book, log, counted, upto, blind>> /\ \A c \in Orders : fetched'[c] = None
  BY DEF Restore, brokerVars, Nothing
<1>2. BookShape' /\ FetchShape'
  BY <1>1 DEF StepInv, BookShape, FetchShape
<1>3. ASSUME NEW c \in Orders PROVE Followed(c)'
  <2>1. /\ local'[c] = IF Restored(c) THEN fetched[c] ELSE local[c]
        /\ base'[c] = IF Restored(c) THEN fetched[c].filled - counted[c] ELSE base[c]
        /\ seen'[c] = IF Restored(c) /\ ~Older(c) THEN upto[c] ELSE seen[c]
        /\ orderly'[c] <=> orderly[c] \/ (Restored(c) /\ ~Older(c))
        /\ c \in stale' <=> c \in stale \/ (Restored(c) /\ Older(c))
    BY DEF Restore, StepInv, TypeOK
  <2>2. CASE ~Restored(c)
    BY <1>1, <2>1, <2>2 DEF StepInv, Followed
  <2>3. CASE Restored(c) /\ Older(c)
    BY <2>1, <2>3 DEF Followed
  <2>4. CASE Restored(c) /\ ~Older(c)
    <3>1. fetched[c] # None /\ upto[c] > 0 /\ Reaches(log[c], fetched[c], upto[c])
      BY <2>4 DEF StepInv, FetchShape, Restored
    <3>2. upto[c] \in Nat /\ upto[c] <= Len(log[c])
      BY <3>1 DEF StepInv, TypeOK, Reaches
    <3>3. counted[c] \in Int /\ fetched[c].filled \in Nat
      BY <3>1 DEF StepInv, TypeOK, Listing
    <3>4. counted[c] = fetched[c].filled - (fetched[c].filled - counted[c])
      BY <3>3
    <3> QED BY <1>1, <2>1, <2>4, <3>1, <3>2, <3>4 DEF Followed
  <2> QED BY <2>2, <2>3, <2>4
<1> QED BY <1>2, <1>3 DEF StepInv

LEMMA StepStep == StepInv /\ [Next]_vars => StepInv'
<1>0. SUFFICES ASSUME StepInv, [Next]_vars PROVE StepInv'
  OBVIOUS
<1>1. TypeOK'
  BY <1>0, TypeStep DEF StepInv
<1>2. CASE UNCHANGED vars
  <2>1. UNCHANGED <<book, log, local, counted, fetched, seen, orderly, upto, base, stale, blind>>
    BY <1>2 DEF vars, brokerVars, localVars, startVars, historyVars
  <2> QED BY <1>0, <1>1, <2>1 DEF StepInv, BookShape, FetchShape, Followed
<1> QED BY <1>0, <1>1, <1>2, StepBroker, StepArrived, StepRestarts, StepFetches, StepRestores
       DEF Next, Deliver

LEMMA StepInit == Init => StepInv
<1> SUFFICES ASSUME Init PROVE StepInv
  OBVIOUS
<1>1. \A c \in Orders : /\ local[c] = None /\ fetched[c] = None /\ log[c] = <<>>
                        /\ counted[c] = 0 /\ book[c] = None /\ seen[c] = 0 /\ base[c] = 0
  BY DEF Init, Nothing, Zero
<1>2. \A n : Shape(<<>>, None, n)
  BY DEF Shape, Steady, Linked
<1>3. BookShape /\ FetchShape
  BY <1>1, <1>2 DEF BookShape, FetchShape
<1>4. \A c \in Orders : Followed(c)
  BY <1>1 DEF Followed
<1> QED BY <1>3, <1>4, InitType DEF StepInv

LEMMA StepInvariant == Spec => []StepInv
BY StepInit, StepStep, PTL DEF Spec

LEMMA FollowedIsInStep == StepInv => InStep
<1>1. SUFFICES ASSUME StepInv, NEW c \in Orders, orderly[c], c \notin stale \cup blind,
                      log[c] # <<>>, seen[c] = Len(log[c])
               PROVE  local[c] = book[c] /\ counted[c] = book[c].filled - base[c]
  BY DEF InStep
<1>2. TypeOK /\ Shape(log[c], book[c], Shares[c]) /\ Followed(c) /\ log[c] \in Seq(Update)
  BY <1>1 DEF StepInv, BookShape, TypeOK
<1>3. seen[c] > 0
  BY <1>1, <1>2
<1>4. book[c] # None /\ book[c] \in State /\ Reaches(log[c], book[c], Len(log[c]))
  BY <1>1, <1>2, BookType DEF Shape
<1>5. /\ local[c] \in State /\ Reaches(log[c], local[c], Len(log[c]))
      /\ counted[c] = local[c].filled - base[c]
  BY <1>1, <1>2, <1>3, LocalType DEF Followed
<1>6. local[c] = book[c]
  BY <1>4, <1>5, ReachedOnce
<1> QED BY <1>5, <1>6

\* "A monotone, broker-derived function of the stream": an order that has been
\* told everything in the broker's order is in the broker's state, and its fills
\* are those since it was restored, although some updates carry no total, unless
\* one of those was repeated to effect.
THEOREM FollowerInStep == Spec => []InStep
BY FollowedIsInStep, StepInvariant, PTL

----------------------------------------------------------------------------
(* Where the numbers come from.                                            *)
(*                                                                         *)
(* Neither property is inductive: the local total is bounded by the        *)
(* broker's because every update ever sent, and the list fetched, is       *)
(* behind the broker; and an update that ends an order ends it there too.  *)
(* An update without a total tells what the broker's does only in its turn.*)

Behind(s, b) == /\ b # None /\ s.filled <= b.filled
                /\ s.st \in Terminal => b.st = s.st /\ b.filled = s.filled

LogBehind     == \A c \in Orders : \A k \in DOMAIN log[c] : Behind(log[c][k], book[c])
FetchedBehind == \A c \in Orders : fetched[c] # None => Behind(fetched[c], book[c])
LocalBehind   == \A c \in Orders \ blind : local[c] # None => Behind(local[c], book[c])
Counted       == \A c \in Orders \ stale : counted[c] <= FilledOf(c)
ToldEnds      == \A c \in told : book[c] # None /\ book[c].st \in Terminal

StreamInv == /\ TypeOK /\ LogBehind /\ FetchedBehind /\ LocalBehind
             /\ Counted /\ ToldEnds /\ GapIsFlagged

\* The broker advances one order, and tells of it.
LEMMA StreamSends ==
  ASSUME StreamInv, TypeOK', NEW c \in Orders, NEW fills, NEW st, NEW filled, NEW qty,
         Sends(c, fills, st, filled, qty),
         \A d \in Orders \ {c} : book'[d] = book[d],
         book'[c] # None, filled = book'[c].filled,
         st \in Terminal => book'[c].st = st,
         \/ book'[c] = book[c]
         \/ book[c] = None
         \/ book[c].st \notin Terminal /\ book[c].filled <= filled
  PROVE  StreamInv'
<1>1. UNCHANGED <<local, counted, flagged, fetched, told, stale, blind>>
  BY DEF Sends, localVars, startVars, historyVars
<1>2. ASSUME NEW d \in Orders, NEW s, Behind(s, book[d])
      PROVE  \/ Behind(s, book'[d])
             \/ ~(s.filled \in Nat)
  <2>1. book[d] # None /\ book[d].filled \in Nat
    BY <1>2, BookType DEF Behind, StreamInv
  <2>2. CASE book'[d] = book[d]
    BY <1>2, <2>2
  <2>3. CASE d = c /\ book[c].st \notin Terminal /\ book[c].filled <= filled
    <3>1. book'[d] # None /\ book'[d].filled \in Nat /\ filled \in Nat
      BY <2>3 DEF TypeOK, State
    <3>2. s.st \notin Terminal /\ s.filled <= book[c].filled
      BY <1>2, <2>3 DEF Behind
    <3>3. ASSUME s.filled \in Nat PROVE s.filled <= book'[c].filled
      BY <2>1, <2>3, <3>1, <3>2, <3>3
    <3>4. QED BY <2>3, <3>1, <3>2, <3>3 DEF Behind
  <2>4. CASE d # c
    BY <2>2, <2>4
  <2>5. QED BY <2>1, <2>2, <2>3, <2>4
<1>3. filled \in Nat
  BY DEF TypeOK, State
<1>4. LogBehind'
  <2>1. SUFFICES ASSUME NEW d \in Orders, NEW k \in DOMAIN log'[d]
                 PROVE  Behind(log'[d][k], book'[d])
    BY DEF LogBehind, Behind
  <2>0. PICK total \in BOOLEAN :
          log' = [log EXCEPT ![c] = Append(@, [fills |-> fills, st |-> st, filled |-> filled,
                                               total |-> total, qty |-> qty])]
    BY DEF Sends
  <2>2. DEFINE e == [fills |-> fills, st |-> st, filled |-> filled, total |-> total, qty |-> qty]
  <2>3. CASE k \in DOMAIN log[d] /\ log'[d][k] = log[d][k]
    <3>1. Behind(log[d][k], book[d]) /\ log[d][k].filled \in Nat
      BY <2>3, UpdateType DEF StreamInv, LogBehind, Update
    <3>2. QED BY <1>2, <2>3, <3>1 DEF Behind
  <2>4. CASE d = c /\ log'[d][k] = e
    BY <1>3, <2>4 DEF Behind
  <2>5. log[d] \in Seq(Update)
    BY DEF StreamInv, TypeOK
  <2>6. log'[d] = IF d = c THEN Append(log[d], e) ELSE log[d]
    BY <2>0 DEF StreamInv, TypeOK
  <2>7. CASE d = c
    <3>1. log'[d] = Append(log[d], e)
      BY <2>6, <2>7
    <3>2. k \in 1 .. Len(log[d]) + 1
      BY <2>1, <2>5, <3>1, LenProperties
    <3>3. CASE k = Len(log[d]) + 1
      BY <2>4, <2>5, <2>7, <3>1, <3>3
    <3>4. CASE k \in 1 .. Len(log[d])
      BY <2>3, <2>5, <3>1, <3>4
    <3>5. QED BY <2>5, <3>2, <3>3, <3>4, LenProperties
  <2>8. QED BY <2>1, <2>3, <2>6, <2>7
<1>5. FetchedBehind'
  <2>1. ASSUME NEW d \in Orders, fetched[d] # None PROVE Behind(fetched[d], book'[d])
    BY <1>2, <2>1 DEF StreamInv, FetchedBehind, TypeOK, Listing
  <2>2. QED BY <1>1, <2>1 DEF FetchedBehind, Behind
<1>6. LocalBehind'
  <2>1. ASSUME NEW d \in Orders \ blind, local[d] # None PROVE Behind(local[d], book'[d])
    BY <1>2, <2>1 DEF StreamInv, LocalBehind, TypeOK, State
  <2>2. QED BY <1>1, <2>1 DEF LocalBehind, Behind
<1>7. Counted'
  BY <1>1 DEF StreamInv, Counted, FilledOf
<1>8. ASSUME NEW d \in told PROVE book'[d] = book[d]
  BY DEF StreamInv, ToldEnds, TypeOK
<1>9. ToldEnds' /\ GapIsFlagged'
  BY <1>1, <1>8 DEF StreamInv, ToldEnds, GapIsFlagged, TypeOK
<1>10. QED BY <1>4, <1>5, <1>6, <1>7, <1>9 DEF StreamInv

\* An update that is applied, and does not leave the order blind, puts it where
\* the broker had it then, or leaves it where it is.
LEMMA AppliedAsSent ==
  ASSUME StepInv, NEW c \in Orders, NEW k \in DOMAIN log[c], ApplyUpdate(c, k), c \notin blind'
  PROVE  NewFilled(c, log[c][k]) = log[c][k].filled \/ local' = local
<1> DEFINE e == log[c][k]
           l == log[c]
<1>1. TypeOK /\ Shape(l, book[c], Shares[c]) /\ Followed(c) /\ e \in Update /\ Applicable(c, e)
  BY UpdateType DEF StepInv, BookShape, ApplyUpdate
<1>2. /\ l \in Seq(Update) /\ DOMAIN l = 1..Len(l) /\ Len(l) \in Nat /\ k \in 1..Len(l)
      /\ seen[c] \in Nat /\ e.filled \in Nat /\ e.qty \in Nat \cup {None}
  <2>1. l \in Seq(Update) /\ seen[c] \in Nat
    BY <1>1 DEF TypeOK
  <2>2. DOMAIN l = 1..Len(l) /\ Len(l) \in Nat
    BY <2>1, LenProperties
  <2>3. e.filled \in Nat /\ e.qty \in Nat \cup {None}
    <3> HIDE DEF e
    <3> QED BY <1>1 DEF Update
  <2>4. k \in DOMAIN l
    OBVIOUS
  <2> QED BY <2>1, <2>2, <2>3, <2>4
<1>3. c \notin blind /\ (e.total \/ InTurn(c, k) \/ local' = local)
  BY DEF ApplyUpdate
<1> HIDE DEF e, l
<1>4. CASE e.total
  BY <1>4 DEF NewFilled, e
<1>5. CASE InTurn(c, k) /\ ~e.total
  <2>1. orderly[c] /\ c \notin stale /\ k = seen[c] + 1 /\ Steady(l) /\ Linked(l, Shares[c])
    BY <1>1, <1>5 DEF InTurn, Shape
  <2>2. CASE seen[c] = 0
    <3>1. k = 1 /\ local[c] = None /\ l # <<>>
      BY <1>1, <1>2, <1>3, <2>1, <2>2 DEF Followed
    <3>2. ~e.fills /\ e.filled = 0
      BY <1>2, <2>1, <3>1 DEF Steady, e, l
    <3>3. NewFilled(c, e) = 0
      BY <1>5, <3>1, <3>2 DEF NewFilled, FilledOf
    <3> QED BY <3>2, <3>3 DEF e
  <2>3. CASE seen[c] > 0
    <3>1. /\ local[c] # None /\ Reaches(l, local[c], seen[c]) /\ local[c] \in State
          /\ FilledOf(c) = local[c].filled /\ local[c].filled \in Nat
      BY <1>1, <1>3, <2>1, <2>3, LocalType DEF Followed, FilledOf, l
    <3>2. seen[c] < Len(l) /\ seen[c] \in DOMAIN l
      BY <1>2, <2>1, <2>3
    <3>3. Follows(local[c], e, Shares[c]) /\ e.st # "odd"
      BY <1>1, <2>1, <3>1, <3>2 DEF Linked, Applicable, States, Terminal, e, l
    <3>4. CASE e.fills
      <4>1. e.qty # None /\ FillQty(c, e) = e.qty
        BY <1>1, <1>5, <3>4 DEF Applicable, GoodFill, Tells, FillQty
      <4>2. NewFilled(c, e) = FilledOf(c) + e.qty
        BY <1>5, <3>4, <4>1 DEF NewFilled
      <4> QED BY <3>1, <3>3, <3>4, <4>1, <4>2 DEF Follows, e
    <3>5. CASE ~e.fills
      <4>1. NewFilled(c, e) = FilledOf(c) + 0
        BY <1>5, <3>5 DEF NewFilled
      <4> QED BY <3>1, <3>3, <3>5, <4>1 DEF Follows, e
    <3> QED BY <3>4, <3>5
  <2> QED BY <1>2, <2>2, <2>3
<1> QED BY <1>3, <1>4, <1>5

\* An update is applied, or is not.
LEMMA StreamArrived ==
  ASSUME StreamInv, StepInv, TypeOK', NEW c \in Orders, NEW k \in DOMAIN log[c],
         ApplyUpdate(c, k) \/ RefuseUpdate(c, k)
  PROVE  StreamInv'
<1> DEFINE e == log[c][k]
<1>1. e \in Update /\ Behind(e, book[c])
  BY UpdateType DEF StreamInv, LogBehind
<1>2. /\ UNCHANGED <<book, log, fetched, stale>> /\ Arrived(c, k)
      /\ blind \subseteq blind' /\ \A d \in Orders \ {c} : d \in blind' <=> d \in blind
  BY BlindOf DEF ApplyUpdate, RefuseUpdate, Arrived, brokerVars, startVars
<1>3. LogBehind' /\ FetchedBehind'
  BY <1>2 DEF StreamInv, LogBehind, FetchedBehind, Behind
<1>4. ToldEnds'
  BY <1>1, <1>2 DEF Arrived, StreamInv, ToldEnds, Behind
<1>5. CASE ApplyUpdate(c, k)
  <2>0. Applicable(c, e) /\ e.filled \in Nat /\ TypeOK
    BY <1>1, <1>5 DEF ApplyUpdate, Update, StreamInv
  <2>1. ASSUME NEW d \in Orders
        PROVE  local'[d] = IF d = c THEN [st |-> e.st, filled |-> NewFilled(c, e)] ELSE local[d]
    BY <1>5, <2>0 DEF ApplyUpdate, Applied, TypeOK
  <2>2. c \notin blind' => NewFilled(c, e) = e.filled \/ local' = local
    BY <1>5, AppliedAsSent
  <2>3. /\ [st |-> e.st, filled |-> NewFilled(c, e)] # None
        /\ NewFilled(c, e) \in Nat /\ FilledOf(c) <= NewFilled(c, e)
        /\ e.fills => NewFilled(c, e) = FilledOf(c) + FillQty(c, e)
    BY <1>1, <2>0, NewFilledType
  <2>4. ASSUME NEW d \in Orders
        PROVE  FilledOf(d)' = IF d = c THEN NewFilled(c, e) ELSE FilledOf(d)
    BY <2>1, <2>3 DEF FilledOf
  <2>5. FilledOf(c) \in Nat /\ FillQty(c, e) \in Int /\ counted[c] \in Int
    BY <1>1, <2>0, LocalType, FillQtyInt DEF TypeOK
  <2>6. ASSUME NEW d \in Orders
        PROVE  counted'[d] = IF d = c /\ e.fills THEN counted[d] + FillQty(c, e) ELSE counted[d]
    BY <1>5, <2>0 DEF ApplyUpdate, TypeOK
  <2> HIDE DEF e
  <2>7. LocalBehind'
    <3>1. SUFFICES ASSUME NEW d \in Orders \ blind', local'[d] # None
                   PROVE  Behind(local'[d], book[d])
      BY <1>2 DEF LocalBehind, Behind
    <3>2. CASE local'[d] = local[d]
      BY <1>2, <3>1, <3>2 DEF StreamInv, LocalBehind
    <3>3. CASE d = c /\ NewFilled(c, e) = e.filled
      BY <1>1, <2>1, <3>3 DEF Behind
    <3> QED BY <2>1, <2>2, <3>1, <3>2, <3>3
  <2>8. Counted'
    <3>1. SUFFICES ASSUME NEW d \in Orders \ stale PROVE counted'[d] <= FilledOf(d)'
      BY <1>2 DEF Counted
    <3>2. counted[d] <= FilledOf(d)
      BY DEF StreamInv, Counted
    <3>3. CASE d = c
      BY <2>3, <2>4, <2>5, <2>6, <3>2, <3>3
    <3>4. CASE d # c
      BY <2>4, <2>6, <3>2, <3>4
    <3>5. QED BY <3>3, <3>4
  <2>9. GapIsFlagged'
    <3>1. UNCHANGED flagged
      BY <1>5 DEF ApplyUpdate
    <3>2. SUFFICES ASSUME NEW d \in told' \ (stale \cup blind'), d \notin flagged, d \in Orders
                   PROVE  local'[d] = book[d]
      BY <1>2, <3>1 DEF GapIsFlagged, TypeOK
    <3>3. CASE d # c
      <4>1. d \in told /\ d \notin stale \cup blind
        BY <1>2, <3>2, <3>3 DEF Arrived
      <4> QED BY <2>1, <3>2, <3>3, <4>1 DEF StreamInv, GapIsFlagged
    <3>4. CASE d = c
      <4>0. c \in told => local[c] = book[c] /\ book[c] # None /\ book[c].st \in Terminal
        BY <1>2, <3>2, <3>4 DEF StreamInv, GapIsFlagged, ToldEnds
      <4>1. e.st \in Terminal
        <5>1. CASE d \in told
          <6>1. Legal(book[d].st, e.st)
            BY <2>0, <3>4, <4>0, <5>1 DEF Applicable
          <6>2. QED BY <3>4, <4>0, <5>1, <6>1 DEF Legal, Terminal
        <5>2. CASE d \notin told
          BY <1>2, <3>2, <3>4, <5>2 DEF Arrived, e
        <5>3. QED BY <5>1, <5>2
      <4>2. book[c] # None /\ book[c].st = e.st /\ book[c].filled = e.filled
        BY <1>1, <4>1 DEF Behind
      <4>3. book[c] = [st |-> book[c].st, filled |-> book[c].filled]
        BY <2>0, <4>2, BookType DEF State
      <4>4. CASE NewFilled(c, e) = e.filled
        BY <2>1, <3>4, <4>2, <4>3, <4>4
      <4>5. CASE local' = local
        <5>1. /\ local[c] = [st |-> e.st, filled |-> NewFilled(c, e)]
              /\ local[c] # None
          BY <2>1, <2>3, <4>5
        <5>2. Behind(local[c], book[c]) /\ local[c].st = e.st
          BY <1>2, <3>2, <3>4, <5>1 DEF StreamInv, LocalBehind
        <5>3. local[c].filled = book[c].filled
          BY <4>1, <5>2 DEF Behind
        <5> QED BY <3>4, <4>2, <4>3, <4>5, <5>1, <5>3
      <4> QED BY <2>2, <3>2, <3>4, <4>4, <4>5
    <3>5. QED BY <3>3, <3>4
  <2>10. QED BY <1>3, <1>4, <2>7, <2>8, <2>9 DEF StreamInv
<1>6. CASE RefuseUpdate(c, k)
  <2>1. /\ UNCHANGED <<local, counted, blind>> /\ flagged' = flagged \cup {c}
        /\ told' \subseteq told \cup {c}
    BY <1>6 DEF RefuseUpdate, Arrived
  <2>2. LocalBehind' /\ Counted'
    BY <1>2, <2>1 DEF StreamInv, LocalBehind, Behind, Counted, FilledOf
  <2>3. GapIsFlagged'
    BY <1>2, <2>1 DEF StreamInv, GapIsFlagged
  <2>4. QED BY <1>3, <1>4, <2>2, <2>3 DEF StreamInv
<1>7. QED BY <1>5, <1>6

\* A restart begins again: nothing is known, and nothing has been told.
LEMMA StreamRestarts ==
  ASSUME StreamInv, TypeOK', Restart
  PROVE  StreamInv'
<1>1. UNCHANGED <<book, log>> /\ told' = {}
  BY DEF Restart, brokerVars
<1>2. \A d \in Orders : local'[d] = None /\ fetched'[d] = None /\ counted'[d] = 0
  BY DEF Restart, Nothing, Zero
<1>3. LogBehind' /\ FetchedBehind' /\ LocalBehind'
  BY <1>1, <1>2 DEF StreamInv, LogBehind, FetchedBehind, LocalBehind
<1>4. Counted' /\ ToldEnds' /\ GapIsFlagged'
  BY <1>1, <1>2 DEF Counted, FilledOf, ToldEnds, GapIsFlagged
<1>5. QED BY <1>3, <1>4 DEF StreamInv

LEMMA StreamFetches ==
  ASSUME StreamInv, TypeOK', Fetch
  PROVE  StreamInv'
<1>1. /\ UNCHANGED <<book, log, local, counted, flagged, told, stale, blind>>
      /\ \A d \in Orders : fetched'[d] = Listed(d)
  BY DEF Fetch, brokerVars, localVars
<1>2. FetchedBehind'
  <2>1. ASSUME NEW d \in Orders, Listed(d) # None PROVE Behind(Listed(d), book[d])
    <3>1. /\ book[d] # None /\ book[d].filled \in Nat /\ Listed(d).filled = book[d].filled
          /\ Listed(d).st \in States => Listed(d) = book[d]
      BY <2>1, ListedType, BookType DEF StreamInv
    <3>2. Terminal \subseteq States
      BY TerminalStates
    <3> QED BY <3>1, <3>2 DEF Behind
  <2>2. QED BY <1>1, <2>1 DEF FetchedBehind, Behind
<1>3. LogBehind' /\ LocalBehind' /\ Counted' /\ ToldEnds' /\ GapIsFlagged'
  BY <1>1 DEF StreamInv, LogBehind, LocalBehind, Counted, FilledOf, ToldEnds, GapIsFlagged
<1>4. QED BY <1>2, <1>3 DEF StreamInv

\* A restored order that is not set back has at least what its updates told.
LEMMA RestoredIsNewer ==
  ASSUME StreamInv, Restore, NEW d \in Orders, d \notin stale'
  PROVE  /\ local'[d] = IF Restored(d) THEN fetched[d] ELSE local[d]
         /\ Restored(d) /\ local[d] # None =>
              Legal(local[d].st, fetched[d].st) /\ local[d].filled <= fetched[d].filled
         /\ d \notin stale
<1>1. local'[d] = IF Restored(d) THEN fetched[d] ELSE local[d]
  BY DEF Restore
<1>2. stale' = stale \cup {c \in Orders : Restored(c) /\ Older(c)}
  BY DEF Restore
<1>3. d \notin stale /\ ~(Restored(d) /\ Older(d))
  BY <1>2
<1>4. QED BY <1>1, <1>3 DEF Older

LEMMA StreamRestores ==
  ASSUME StreamInv, TypeOK', Restore
  PROVE  StreamInv'
<1>1. UNCHANGED <<book, log, counted, told, blind>> /\ flagged \subseteq flagged'
  BY DEF Restore, brokerVars
<1>2. \A d \in Orders : fetched'[d] = None
  BY DEF Restore, Nothing
<1>3. \A d \in Orders : local'[d] = IF Restored(d) THEN fetched[d] ELSE local[d]
  BY DEF Restore
<1>4. LogBehind' /\ FetchedBehind' /\ ToldEnds'
  BY <1>1, <1>2 DEF StreamInv, LogBehind, FetchedBehind, ToldEnds
<1>5. LocalBehind'
  BY <1>1, <1>3 DEF StreamInv, FetchedBehind, LocalBehind, Restored
<1>6. Counted'
  <2>1. SUFFICES ASSUME NEW d \in Orders \ stale' PROVE counted[d] <= FilledOf(d)'
    BY <1>1 DEF Counted
  <2>2. counted[d] <= FilledOf(d) /\ counted[d] \in Int /\ FilledOf(d) \in Nat
    BY RestoredIsNewer, LocalType DEF StreamInv, Counted, TypeOK
  <2>3. CASE ~Restored(d)
    BY <1>3, <2>2, <2>3 DEF FilledOf
  <2>4. CASE Restored(d)
    <3>1. FilledOf(d)' = fetched[d].filled /\ fetched[d].filled \in Nat
      BY <1>3, <2>4 DEF FilledOf, Restored, StreamInv, TypeOK, Listing
    <3>2. FilledOf(d) <= fetched[d].filled
      BY <2>4, <3>1, RestoredIsNewer DEF FilledOf
    <3>3. QED BY <2>2, <3>1, <3>2
  <2>5. QED BY <2>3, <2>4
<1>7. GapIsFlagged'
  <2>1. SUFFICES ASSUME NEW d \in told \ (stale' \cup blind), d \notin flagged, d \in Orders
                 PROVE  local'[d] = book[d]
    BY <1>1 DEF GapIsFlagged, StreamInv, TypeOK
  <2>2. local[d] = book[d] /\ book[d] # None /\ book[d].st \in Terminal
    BY <2>1, RestoredIsNewer DEF StreamInv, GapIsFlagged, ToldEnds
  <2>3. CASE ~Restored(d)
    BY <1>3, <2>1, <2>2, <2>3
  <2>4. CASE Restored(d)
    <3>1. Legal(book[d].st, fetched[d].st) /\ fetched[d] # None
      BY <2>1, <2>2, <2>4, RestoredIsNewer DEF Restored
    <3>2. fetched[d].st = book[d].st
      BY <2>2, <3>1 DEF Legal, Terminal
    <3>3. fetched[d].filled = book[d].filled
      BY <2>1, <2>2, <3>1, <3>2 DEF StreamInv, FetchedBehind, Behind
    <3>4. fetched[d] \in Listing /\ book[d] \in State
      BY <2>2, <3>1 DEF StreamInv, TypeOK
    <3>5. fetched[d] = book[d]
      BY <3>2, <3>3, <3>4 DEF State, Listing
    <3>6. QED BY <1>3, <2>1, <2>4, <3>5
  <2>5. QED BY <2>3, <2>4
<1>8. QED BY <1>4, <1>5, <1>6, <1>7 DEF StreamInv

LEMMA StreamStep == StreamInv /\ StepInv /\ [Next]_vars => StreamInv'
<1>0. SUFFICES ASSUME StreamInv, StepInv, [Next]_vars PROVE StreamInv'
  OBVIOUS
<1>1. TypeOK /\ TypeOK'
  BY <1>0, TypeStep DEF StreamInv
\* The broker puts the state it tells of in its book, and touches no other order.
<1>2. ASSUME NEW c \in Orders, NEW fills, NEW st, NEW filled, NEW qty,
             Becomes(c, fills, st, filled, qty),
             book[c] = None \/ (book[c].st \notin Terminal /\ book[c].filled <= filled),
             st \in States, filled \in Nat
      PROVE  StreamInv'
  <2>1. book'[c] = [st |-> st, filled |-> filled] /\ \A d \in Orders \ {c} : book'[d] = book[d]
    BY <1>1, <1>2 DEF Becomes, TypeOK
  <2>2. book'[c] # None
    BY <1>2, <2>1, NoneState DEF State
  <2>3. filled = book'[c].filled /\ st = book'[c].st
    BY <2>1
  <2>4. Sends(c, fills, st, filled, qty)
    BY <1>2 DEF Becomes
  <2>5. QED BY <1>0, <1>1, <1>2, <2>1, <2>2, <2>3, <2>4, StreamSends
<1>3. ASSUME NEW c \in Orders, Place(c) PROVE StreamInv'
  BY <1>2, <1>3 DEF Place, States
<1>4. ASSUME NEW c \in Orders, Accept(c) PROVE StreamInv'
  <2>1. book[c].filled \in Nat /\ book[c].filled <= book[c].filled
    BY <1>1, <1>4, BookType DEF Accept
  <2>2. QED BY <1>2, <1>4, <2>1 DEF Accept, States, Terminal
<1>5. ASSUME NEW c \in Orders, Hold(c) PROVE StreamInv'
  <2>1. book[c] # None /\ UNCHANGED book /\ Sends(c, FALSE, "odd", book[c].filled, None)
    BY <1>5 DEF Hold, Working
  <2>2. QED BY <1>0, <1>1, <2>1, StreamSends DEF Terminal
<1>6. ASSUME NEW c \in Orders, NEW q \in 1 .. Shares[c], NEW said \in {q, None},
             Trade(c, q, said)
      PROVE  StreamInv'
  <2>1. book[c].filled \in Nat /\ book[c].st \notin Terminal /\ q \in Nat
    BY <1>1, <1>6, BookType, SharesNat DEF Trade, Working
  <2>2. book[c].filled + q \in Nat /\ book[c].filled <= book[c].filled + q
    BY <2>1
  <2>3. QED BY <1>2, <1>6, <2>1, <2>2 DEF Trade, States, Terminal
<1>7. ASSUME NEW c \in Orders, NEW st \in Endings, End(c, st) PROVE StreamInv'
  <2>1. book[c].filled \in Nat /\ book[c].filled <= book[c].filled /\ book[c].st \notin Terminal
    BY <1>1, <1>7, BookType DEF End, Working
  <2>2. QED BY <1>2, <1>7, <2>1, TerminalStates DEF End
<1>8. ASSUME NEW c \in Orders, NEW k \in DOMAIN log[c], ApplyUpdate(c, k) \/ RefuseUpdate(c, k)
      PROVE  StreamInv'
  BY <1>0, <1>1, <1>8, StreamArrived
<1>9. CASE UNCHANGED vars
  <2>1. UNCHANGED <<book, log, local, counted, flagged, fetched, told, stale, blind>>
    BY <1>9 DEF vars, brokerVars, localVars, startVars, historyVars
  <2>2. LogBehind' /\ FetchedBehind' /\ LocalBehind' /\ Counted' /\ ToldEnds' /\ GapIsFlagged'
    BY <1>0, <2>1 DEF StreamInv, LogBehind, FetchedBehind, LocalBehind, Counted, FilledOf,
       ToldEnds, GapIsFlagged
  <2>3. QED BY <1>1, <2>2 DEF StreamInv
<1>10. QED
  BY <1>0, <1>1, <1>3, <1>4, <1>5, <1>6, <1>7, <1>8, <1>9,
     StreamRestarts, StreamFetches, StreamRestores DEF Next, Broker, Deliver

LEMMA StreamInit == Init => StreamInv
<1>1. SUFFICES ASSUME Init PROVE StreamInv
  OBVIOUS
<1>2. \A c \in Orders : local[c] = None /\ fetched[c] = None /\ log[c] = <<>> /\ counted[c] = 0
  BY <1>1 DEF Init, Nothing, Zero
<1>3. LogBehind /\ FetchedBehind /\ LocalBehind
  BY <1>2 DEF LogBehind, FetchedBehind, LocalBehind
<1>4. Counted /\ ToldEnds /\ GapIsFlagged
  BY <1>1, <1>2 DEF Init, Counted, FilledOf, ToldEnds, GapIsFlagged
<1>5. QED BY <1>1, <1>3, <1>4, InitType DEF StreamInv

LEMMA StreamInvariant == Spec => []StreamInv
BY StreamInit, StreamStep, StepInvariant, PTL DEF Spec

\* "A fill is counted here once": whatever the stream loses, repeats or reorders,
\* the fills never add up to more than is taken to be filled, nor that to more
\* than the broker filled, unless an update without a total was taken out of turn.
THEOREM FillsCountedOnce == Spec => []NeverOvercounts
<1>1. StreamInv => NeverOvercounts
  BY DEF StreamInv, Counted, LocalBehind, Behind, NeverOvercounts
<1>2. QED BY <1>1, StreamInvariant, PTL

\* Fail closed: of an order whose final update has come, the local state is the
\* broker's or an anomaly is on record, unless an update without a total was
\* taken out of turn.
THEOREM FinalUpdateFlagged == Spec => []GapIsFlagged
<1>1. StreamInv => GapIsFlagged
  BY DEF StreamInv
<1>2. QED BY <1>1, StreamInvariant, PTL

\* "It never regresses": no update takes an order back, nor does a restore that
\* finds nothing newer.
THEOREM OrdersOnlyAdvance == Spec => NeverRegresses
<1>1. ASSUME StreamInv, Next, NEW d \in Orders PROVE Advances(d)
  <2>1. CASE local'[d] = local[d]
    BY <1>1, <2>1, LocalType DEF StreamInv, Advances
  <2>2. CASE Broker
    <3>1. UNCHANGED local
      BY <2>2 DEF Broker, Place, Accept, Hold, Trade, End, Becomes, Sends, localVars
    <3>2. QED BY <2>1, <3>1
  <2>3. ASSUME NEW c \in Orders, NEW k \in DOMAIN log[c], ApplyUpdate(c, k), c = d,
               local[d] # None
        PROVE  Advances(d)
    <3> DEFINE e == log[c][k]
    <3>1. e \in Update /\ Applicable(c, e)
      BY <1>1, <2>3, UpdateType DEF ApplyUpdate, StreamInv
    <3>2. local'[d] = [st |-> e.st, filled |-> NewFilled(c, e)]
      BY <1>1, <2>3 DEF ApplyUpdate, Applied, StreamInv, TypeOK
    <3>3. Legal(local[d].st, e.st) /\ local[d].filled \in Nat /\ FilledOf(d) = local[d].filled
      BY <1>1, <2>3, <3>1, LocalType DEF Applicable, FilledOf, StreamInv
    <3>4. local'[d] # None /\ NewFilled(c, e) \in Nat /\ FilledOf(c) <= NewFilled(c, e)
      BY <1>1, <3>1, <3>2, NewFilledType DEF StreamInv
    <3>7. NewFilled(c, e) >= local[d].filled
      BY <2>3, <3>3, <3>4
    <3>8. local[d].st \in Terminal => e.st = local[d].st
      BY <3>3 DEF Legal, Terminal
    <3>9. QED BY <3>2, <3>4, <3>7, <3>8 DEF Advances
  <2>4. CASE Deliver
    <3>1. PICK c \in Orders : \E k \in DOMAIN log[c] : ApplyUpdate(c, k) \/ RefuseUpdate(c, k)
      BY <2>4 DEF Deliver
    <3>2. PICK k \in DOMAIN log[c] : ApplyUpdate(c, k) \/ RefuseUpdate(c, k)
      BY <3>1
    <3>3. CASE RefuseUpdate(c, k)
      BY <2>1, <3>3 DEF RefuseUpdate
    <3>4. CASE ApplyUpdate(c, k)
      <4>1. c # d => local'[d] = local[d]
        BY <1>1, <3>4 DEF ApplyUpdate, Applied, StreamInv, TypeOK
      <4>2. QED BY <2>1, <2>3, <3>4, <4>1 DEF Advances
    <3>5. QED BY <3>2, <3>3, <3>4
  <2>5. CASE Restart
    <3>1. restarts' = restarts + 1 /\ restarts \in Nat
      BY <1>1, <2>5 DEF Restart, StreamInv, TypeOK
    <3>2. restarts' # restarts
      BY <3>1
    <3>3. QED BY <3>2 DEF Advances
  <2>6. CASE Fetch
    BY <2>1, <2>6 DEF Fetch, localVars
  <2>7. ASSUME Restore, d \notin stale', Restored(d), local[d] # None PROVE Advances(d)
    <3>1. /\ local'[d] = fetched[d] /\ Legal(local[d].st, fetched[d].st)
          /\ local[d].filled <= fetched[d].filled
      BY <1>1, <2>7, RestoredIsNewer
    <3>2. fetched[d] # None /\ local[d].filled \in Nat /\ fetched[d].filled \in Nat
      BY <1>1, <2>7, LocalType DEF Restored, StreamInv, TypeOK, Listing
    <3>3. local[d].st \in Terminal => fetched[d].st = local[d].st
      BY <3>1 DEF Legal, Terminal
    <3>4. fetched[d].filled >= local[d].filled
      BY <3>1, <3>2
    <3>5. QED BY <3>1, <3>2, <3>3, <3>4 DEF Advances
  <2>8. CASE Restore
    <3>1. ~Restored(d) => local'[d] = local[d]
      BY <2>8 DEF Restore
    <3>2. QED BY <2>1, <2>7, <2>8, <3>1 DEF Advances
  <2>9. QED BY <1>1, <2>2, <2>4, <2>5, <2>6, <2>8 DEF Next
<1>2. StreamInv /\ [Next]_vars => [\A c \in Orders : Advances(c)]_vars
  BY <1>1
<1>3. QED BY <1>2, StreamInvariant, PTL DEF Spec, NeverRegresses

----------------------------------------------------------------------------
(* The view OrderView specifies.                                           *)
(*                                                                         *)
(* What is known of an order is always a state out of its history, however *)
(* the updates came; an update that can be applied is of a later state, or *)
(* of this one again.  A fill of an earlier one tells of fewer shares, and *)
(* no other update of an earlier state is legal.  An update without a      *)
(* total that is taken out of turn is a guess.                             *)

Known(c) == local[c] # None /\ c \notin blind => \E k \in DOMAIN log[c] : Reaches(log[c], local[c], k)

Asked(c) == phase = "fetched" /\ fetched[c] = None => upto[c] = 0

ViewInv == StepInv /\ \A c \in Orders : Known(c) /\ Asked(c)

\* The state an order reached is the one its history has there.
LEMMA ReachedIsStateAt ==
  ASSUME NEW l, NEW k, NEW s \in State, Reaches(l, s, k)
  PROVE  s = StateAt(l, k)
<1>1. s = [st |-> s.st, filled |-> s.filled]
  BY DEF State
<1> QED BY <1>1 DEF Reaches, StateAt

\* History follows the log.
LEMMA HistoryOf ==
  ASSUME TypeOK, NEW c \in Orders
  PROVE  /\ History[c] = [k \in DOMAIN log[c] |-> StateAt(log[c], k)]
         /\ DOMAIN History[c] = 1..Len(log[c]) /\ DOMAIN log[c] = 1..Len(log[c])
         /\ Len(log[c]) \in Nat /\ Len(History[c]) = Len(log[c])
         /\ History[c] = <<>> <=> log[c] = <<>>
         /\ History[c] # <<>> => Len(log[c]) \in 1..Len(log[c])
<1>1. log[c] \in Seq(Update)
  BY DEF TypeOK
<1>2. History[c] = [k \in DOMAIN log[c] |-> StateAt(log[c], k)]
  BY DEF History
<1>3. DOMAIN log[c] = 1..Len(log[c]) /\ Len(log[c]) \in Nat
  BY <1>1
<1>4. Len(History[c]) = Len(log[c])
  BY <1>2, <1>3
<1>5. History[c] = <<>> <=> log[c] = <<>>
  BY <1>1, <1>2, <1>3
<1>6. log[c] # <<>> => Len(log[c]) \in 1..Len(log[c])
  BY <1>1
<1> QED BY <1>2, <1>3, <1>4, <1>5, <1>6

\* An order that stands where it stood leads to where it is.
LEMMA LeadsOn ==
  ASSUME TypeOK, NEW c \in Orders, NEW j, NEW k, NEW s \in State, NEW t \in State,
         Reaches(log[c], s, j), Reaches(log[c], t, k), j <= k
  PROVE  View!Leads(History[c], s, t)
<1>1. j \in DOMAIN log[c] /\ k \in DOMAIN log[c]
  BY DEF Reaches
<1>2. History[c][j] = s /\ History[c][k] = t
  BY <1>1, HistoryOf, ReachedIsStateAt
<1> QED BY <1>1, <1>2, HistoryOf DEF View!Leads

\* Nothing an order has been in is beyond what was ordered.
LEMMA ReachedIsPossible ==
  ASSUME StepInv, NEW c \in Orders, NEW k, NEW s \in State, Reaches(log[c], s, k)
  PROVE  s \in View!StatesOf(c) /\ s.filled <= Shares[c]
<1>1. /\ Shape(log[c], book[c], Shares[c]) /\ log[c] \in Seq(Update)
      /\ k \in 1..Len(log[c]) /\ Len(log[c]) \in Nat /\ Shares[c] \in Nat
  BY SharesNat DEF StepInv, BookShape, TypeOK, Reaches
<1>2. log[c] # <<>> /\ book[c] # None
  BY <1>1 DEF Shape
<1>3. /\ Reaches(log[c], book[c], Len(log[c])) /\ book[c].filled <= Shares[c]
      /\ book[c] \in State
  BY <1>1, <1>2, BookType DEF Shape, StepInv
<1>4. log[c][k].filled <= log[c][Len(log[c])].filled
  BY <1>1 DEF Shape, Steady
<1>5. s.filled = log[c][k].filled /\ book[c].filled = log[c][Len(log[c])].filled
  BY <1>3 DEF Reaches
<1>6. s.filled \in Nat /\ s.st \in States /\ book[c].filled \in Nat
  BY <1>3 DEF State
<1>7. s.filled <= Shares[c]
  BY <1>1, <1>3, <1>4, <1>5, <1>6
<1>8. s = [st |-> s.st, filled |-> s.filled]
  BY DEF State
<1> QED BY <1>1, <1>6, <1>7, <1>8 DEF View!StatesOf

\* The broker advances one order, and the history of that order is longer.
LEMMA ViewHappens ==
  ASSUME ViewInv, StepInv', NEW c \in Orders, NEW e,
         log' = [log EXCEPT ![c] = Append(@, e)],
         UNCHANGED <<local, fetched, upto, blind, phase>>
  PROVE  ViewInv' /\ View!Happens(c, book'[c]) /\ book'[c] \in View!StatesOf(c)
<1> DEFINE l == log[c]
           m == log'[c]
           n == Len(log[c])
<1>1. /\ TypeOK /\ TypeOK' /\ StepInv
      /\ Shape(l, book[c], Shares[c]) /\ Shape(m, book'[c], Shares[c])
  BY DEF ViewInv, StepInv, BookShape
<1>2. l \in Seq(Update) /\ m \in Seq(Update) /\ m = Append(l, e)
  BY <1>1 DEF TypeOK
<1>3. \A d \in Orders \ {c} : log'[d] = log[d]
  BY <1>1 DEF TypeOK
<1>4. /\ Len(m) = n + 1 /\ n \in Nat /\ DOMAIN l = 1..n /\ DOMAIN m = 1..(n + 1)
      /\ \A k \in 1..n : m[k] = l[k]
      /\ m[n + 1] = e
  BY <1>2
<1>5. e \in Update
  BY <1>2, <1>4
<1> HIDE DEF m, n
<1>6. ASSUME NEW d \in Orders, NEW s, NEW k, Reaches(log[d], s, k)
      PROVE  Reaches(log'[d], s, k)
  <2>1. CASE d = c
    <3>1. k \in DOMAIN l
      BY <1>6, <2>1 DEF Reaches
    <3>2. Reaches(Append(l, e), s, k)
      BY <1>2, <1>5, <1>6, <2>1, <3>1, ReachesStays
    <3> QED BY <1>2, <2>1, <3>2 DEF m
  <2> QED BY <1>3, <1>6, <2>1
<1>7. ViewInv'
  <2>1. SUFFICES ASSUME NEW d \in Orders PROVE Known(d)' /\ Asked(d)'
    BY DEF ViewInv
  <2>2. Known(d) /\ Asked(d)
    BY DEF ViewInv
  <2>3. Known(d)'
    <3>1. SUFFICES ASSUME local[d] # None, d \notin blind PROVE \E k \in DOMAIN log'[d] : Reaches(log'[d], local[d], k)
      BY DEF Known
    <3>2. PICK k \in DOMAIN log[d] : Reaches(log[d], local[d], k)
      BY <2>2, <3>1 DEF Known
    <3>3. Reaches(log'[d], local[d], k)
      BY <1>6, <3>2
    <3> QED BY <3>3 DEF Reaches
  <2> QED BY <2>2, <2>3 DEF Asked
<1>8. book'[c] # None /\ book'[c] \in State /\ Reaches(m, book'[c], n + 1)
  <2>1. m # <<>>
    BY <1>2, <1>4
  <2>2. book'[c] # None /\ Reaches(m, book'[c], n + 1)
    BY <1>1, <1>4, <2>1 DEF Shape
  <2> QED BY <1>1, <2>2 DEF TypeOK
<1>9. book'[c] \in View!StatesOf(c)
  <2>1. Reaches(log'[c], book'[c], n + 1)
    BY <1>8 DEF m
  <2>2. Shares[c] \in Nat /\ book'[c].filled <= Shares[c]
    BY <1>1, <1>8, SharesNat DEF Shape
  <2>3. book'[c] = [st |-> book'[c].st, filled |-> book'[c].filled]
        /\ book'[c].st \in States /\ book'[c].filled \in Nat
    BY <1>8 DEF State
  <2> QED BY <2>2, <2>3 DEF View!StatesOf
<1>10. History' = [History EXCEPT ![c] = Append(@, book'[c])]
  <2>1. \A d \in Orders \ {c} : History'[d] = History[d]
    BY <1>3 DEF History
  <2>2. History'[c] = [k \in 1..(n + 1) |-> StateAt(m, k)]
    BY <1>4 DEF History, m
  <2>3. History[c] = [k \in 1..n |-> StateAt(l, k)]
    BY <1>4 DEF History
  <2>4. ASSUME NEW k \in 1..n PROVE StateAt(m, k) = StateAt(l, k)
    <3>1. CASE k - 1 \in 1..n
      BY <1>4, <3>1 DEF StateAt
    <3>2. CASE k = 1
      <4>1. l[1].st # "odd"
        BY <1>1, <1>4, <3>2 DEF Shape, Steady
      <4> QED BY <1>4, <3>2, <4>1 DEF StateAt
    <3> QED BY <1>4, <3>1, <3>2
  <2>5. StateAt(m, n + 1) = book'[c]
    BY <1>8, ReachedIsStateAt
  <2>6. History'[c] = Append(History[c], book'[c])
    <3>1. Len(History[c]) = n
      BY <1>4, <2>3
    <3>2. Append(History[c], book'[c])
            = [k \in 1..(n + 1) |-> IF k = n + 1 THEN book'[c] ELSE History[c][k]]
      BY <1>4, <2>3, <3>1
    <3> QED BY <1>4, <2>2, <2>3, <2>4, <2>5, <3>2
  <2> QED BY <2>1, <2>6 DEF History
<1>11. History[c] # <<>> =>
         /\ History[c][Len(History[c])].st \notin Terminal
         /\ History[c][Len(History[c])].filled <= book'[c].filled
  <2>1. SUFFICES ASSUME History[c] # <<>>
                 PROVE  /\ History[c][Len(History[c])].st \notin Terminal
                        /\ History[c][Len(History[c])].filled <= book'[c].filled
    OBVIOUS
  <2>2. n \in 1..n
    BY <1>1, <2>1, HistoryOf DEF n
  <2>3. Reaches(l, book[c], n) /\ book[c] \in State
    <3>1. book[c] # None
      BY <1>1, <2>1, HistoryOf DEF Shape
    <3> QED BY <1>1, <3>1, BookType DEF Shape, n
  <2>4. StateAt(l, n) = book[c]
    BY <2>3, ReachedIsStateAt
  <2>5. Steady(m) /\ Len(m) = n + 1
    BY <1>1, <1>4 DEF Shape
  <2>6. book[c].st \notin Terminal
    <3>1. \A k \in 1..n : l[k].st \notin Terminal
      BY <1>4, <2>5 DEF Steady
    <3>2. l[n].st = "odd" => n - 1 \in 1..n /\ book[c].st = l[n - 1].st
      BY <1>4, <2>2, <2>3 DEF Reaches
    <3>3. l[n].st # "odd" => book[c].st = l[n].st
      BY <2>3 DEF Reaches
    <3> QED BY <2>2, <3>1, <3>2, <3>3
  <2>7. m[n].filled <= m[n + 1].filled
    BY <1>4, <2>2, <2>5 DEF Steady
  <2>8. book[c].filled = m[n].filled /\ book'[c].filled = m[n + 1].filled
    BY <1>4, <1>8, <2>2, <2>3 DEF Reaches
  <2>9. History[c][Len(History[c])] = StateAt(l, n)
    <3>1. /\ n \in DOMAIN log[c] /\ Len(History[c]) = n
          /\ History[c] = [k \in DOMAIN log[c] |-> StateAt(log[c], k)]
      BY <1>1, <1>4, <2>2, HistoryOf DEF n
    <3> QED BY <3>1
  <2> QED BY <2>4, <2>6, <2>7, <2>8, <2>9
<1>12. View!Happens(c, book'[c])
  BY <1>10, <1>11 DEF View!Happens
<1> QED BY <1>7, <1>9, <1>12

\* Every step of the broker sends one update.
LEMMA BrokerSends ==
  ASSUME Broker
  PROVE  \E c \in Orders : \E e :
           /\ log' = [log EXCEPT ![c] = Append(@, e)]
           /\ UNCHANGED <<local, fetched, upto, blind, phase>>
<1>1. ASSUME NEW c, NEW fills, NEW st, NEW filled, NEW qty, Sends(c, fills, st, filled, qty)
      PROVE  \E e : /\ log' = [log EXCEPT ![c] = Append(@, e)]
                    /\ UNCHANGED <<local, fetched, upto, blind, phase>>
  BY <1>1 DEF Sends, localVars, startVars, historyVars
<1>2. PICK c \in Orders :
        \/ Place(c) \/ Accept(c) \/ Hold(c)
        \/ \E q \in 1 .. Shares[c] : \E said \in {q, None} : Trade(c, q, said)
        \/ \E st \in Endings : End(c, st)
  BY DEF Broker
<1>3. \E fills, st, filled, qty : Sends(c, fills, st, filled, qty)
  BY <1>2 DEF Place, Accept, Hold, Trade, End, Becomes
<1> QED BY <1>1, <1>3

\* An update that is applied takes the order on in its history, or is a guess.
LEMMA ViewLearns ==
  ASSUME ViewInv, StepInv', NEW c \in Orders, NEW k \in DOMAIN log[c], ApplyUpdate(c, k)
  PROVE  /\ ViewInv'
         /\ View!Learn(c, local'[c]) \/ View!Guess(c, local'[c])
         /\ local'[c] \in View!StatesOf(c)
<1> DEFINE e == log[c][k]
           l == log[c]
<1>1. UNCHANGED <<book, log, fetched, upto, phase>>
  BY DEF ApplyUpdate, Arrived, brokerVars, startVars
<1>2. TypeOK /\ StepInv /\ Shape(l, book[c], Shares[c]) /\ Known(c)
  BY DEF ViewInv, StepInv, BookShape
<1>3. l \in Seq(Update) /\ e \in Update /\ DOMAIN l = 1..Len(l) /\ Len(l) \in Nat
  BY <1>2, UpdateType DEF TypeOK
<1>4. /\ Applicable(c, e) /\ local' = [local EXCEPT ![c] = local'[c]]
      /\ local'[c] = [st |-> e.st, filled |-> NewFilled(c, e)]
  BY <1>2 DEF ApplyUpdate, Applied, TypeOK
<1>5. e.st \in States /\ e.filled \in Nat /\ e.st # "odd"
  BY <1>3, <1>4 DEF Applicable, Update, States, Terminal
<1>6. /\ local'[c] \in State /\ local'[c] # None /\ NewFilled(c, e) \in Nat
      /\ FilledOf(c) <= NewFilled(c, e) /\ NewFilled(c, e) <= Shares[c]
  BY <1>2, <1>3, <1>4, NewFilledType
<1>7. local'[c] \in View!StatesOf(c)
  BY <1>4, <1>5, <1>6, SharesNat DEF View!StatesOf
<1>8. /\ blind' = blind \/ blind' = blind \cup {c}
      /\ c \notin blind' => NewFilled(c, e) = e.filled \/ local' = local
  BY <1>2, BlindOf, AppliedAsSent
<1>9. NewFilled(c, e) = e.filled => Reaches(l, local'[c], k)
  BY <1>4, <1>5 DEF Reaches
<1>10. ViewInv'
  <2>1. SUFFICES ASSUME NEW d \in Orders PROVE Known(d)' /\ Asked(d)'
    BY DEF ViewInv
  <2>2. Known(d) /\ Asked(d)
    BY DEF ViewInv
  <2>3. d # c => local'[d] = local[d]
    BY <1>2, <1>4 DEF TypeOK
  <2>4. CASE d # c
    <3>1. d \in blind' <=> d \in blind
      BY <1>8, <2>4
    <3> QED BY <1>1, <2>2, <2>3, <2>4, <3>1 DEF Known, Asked
  <2>5. CASE d = c
    <3>1. SUFFICES ASSUME c \notin blind' PROVE \E j \in DOMAIN l : Reaches(l, local'[c], j)
      BY <1>1, <2>2, <2>5 DEF Known, Asked
    <3>2. CASE NewFilled(c, e) = e.filled
      BY <1>9, <3>2
    <3>3. CASE local' = local
      BY <1>2, <1>6, <1>8, <3>1, <3>3 DEF Known
    <3> QED BY <1>8, <3>1, <3>2, <3>3
  <2> QED BY <2>4, <2>5
<1> HIDE DEF e, l
<1>11. CASE c \in blind'
  <2>1. blind' = blind \cup {c}
    BY <1>8, <1>11
  <2>2. local[c] # None => /\ local[c].filled <= local'[c].filled
                           /\ local[c].st \in Terminal => local'[c].st = local[c].st
    <3>1. SUFFICES ASSUME local[c] # None
                   PROVE  /\ local[c].filled <= local'[c].filled
                          /\ local[c].st \in Terminal => local'[c].st = local[c].st
      OBVIOUS
    <3>2. Legal(local[c].st, e.st) /\ FilledOf(c) = local[c].filled
      BY <1>4, <3>1 DEF Applicable, FilledOf
    <3> QED BY <1>4, <1>6, <3>2 DEF Legal, Terminal
  <2>3. View!Guess(c, local'[c])
    BY <1>1, <1>4, <2>1, <2>2 DEF View!Guess, History
  <2> QED BY <1>7, <1>10, <2>3
<1>12. CASE c \notin blind'
  <2>1. blind' = blind /\ c \notin blind
    BY <1>8, <1>12
  <2>2. SUFFICES View!Leads(History[c], IF local[c] = None THEN local'[c] ELSE local[c], local'[c])
    BY <1>1, <1>4, <1>7, <1>10, <2>1 DEF View!Learn, History
  <2>3. CASE local' = local
    <3>1. PICK j \in DOMAIN l : Reaches(l, local[c], j)
      BY <1>2, <1>6, <2>1, <2>3 DEF Known, l
    <3>2. j <= j
      BY <1>3, <3>1
    <3> QED BY <1>2, <1>6, <2>3, <3>1, <3>2, LeadsOn DEF l
  <2>4. CASE NewFilled(c, e) = e.filled /\ local[c] = None
    <3>1. k <= k /\ Reaches(l, local'[c], k)
      BY <1>3, <1>9, <2>4 DEF l
    <3> QED BY <1>2, <1>6, <2>4, <3>1, LeadsOn DEF l
  <2>5. CASE NewFilled(c, e) = e.filled /\ local[c] # None
    <3>1. PICK j \in DOMAIN l : Reaches(l, local[c], j)
      BY <1>2, <2>1, <2>5 DEF Known, l
    <3>2. local[c] \in State /\ Reaches(l, local'[c], k)
      BY <1>2, <1>9, <2>5, LocalType
    <3>3. ASSUME j <= k PROVE View!Leads(History[c], local[c], local'[c])
      BY <1>2, <1>6, <3>1, <3>2, <3>3, LeadsOn DEF l
    <3>4. ASSUME ~(j <= k) PROVE View!Leads(History[c], local[c], local'[c])
      <4>1. k <= j /\ k \in DOMAIN l /\ Steady(l)
        BY <1>2, <1>3, <3>1, <3>4 DEF Shape, l
      <4>2. e.filled <= local[c].filled /\ local[c].filled \in Nat
        BY <1>3, <3>1, <3>2, <4>1 DEF Steady, Reaches, State, e, l
      <4>3. ~e.fills
        <5>1. FillQty(c, e) \in Int
          BY <1>2, <1>3, FillQtyInt
        <5> QED BY <1>4, <1>5, <2>5, <4>2, <5>1 DEF Applicable, GoodFill, FilledOf
      <4>4. e.filled = local[c].filled /\ Legal(local[c].st, e.st)
        BY <1>4, <2>5, <4>3 DEF Applicable, GoodTotal, FilledOf
      <4>5. local[c] = local'[c]
        BY <1>3, <1>4, <1>5, <2>5, <3>1, <3>2, <4>1, <4>3, <4>4, RepeatIsIdle DEF e, l
      <4>6. j <= j
        BY <1>3, <3>1
      <4> QED BY <1>2, <3>1, <3>2, <4>5, <4>6, LeadsOn DEF l
    <3> QED BY <2>5, <3>3, <3>4
  <2> QED BY <1>8, <1>12, <2>3, <2>4, <2>5
<1> QED BY <1>11, <1>12

LEMMA ViewRestarts ==
  ASSUME ViewInv, StepInv', Restart
  PROVE  ViewInv' /\ View!Restart
<1>1. UNCHANGED log /\ local' = Nothing /\ phase' = "cold" /\ upto' = Zero /\ blind' = {}
  BY DEF Restart, brokerVars
<1>2. ViewInv'
  BY <1>1 DEF ViewInv, Known, Asked, Nothing
<1> QED BY <1>1, <1>2 DEF View!Restart, History, Nothing, Zero

LEMMA ViewFetches ==
  ASSUME ViewInv, StepInv', Fetch
  PROVE  ViewInv' /\ View!AskForList
<1>1. /\ UNCHANGED <<log, local, blind>> /\ phase = "cold" /\ phase' = "fetched"
      /\ \A c \in Orders : fetched'[c] = Listed(c)
      /\ upto' = [c \in Orders |-> Len(log[c])]
  BY DEF Fetch, brokerVars, localVars
<1>2. TypeOK /\ \A c \in Orders : Shape(log[c], book[c], Shares[c])
  BY DEF ViewInv, StepInv, BookShape
<1>3. ViewInv'
  <2>1. SUFFICES ASSUME NEW d \in Orders PROVE Known(d)' /\ Asked(d)'
    BY DEF ViewInv
  <2>2. Known(d)'
    BY <1>1 DEF ViewInv, Known
  <2>3. Asked(d)'
    <3>1. SUFFICES ASSUME book[d] = None PROVE Len(log[d]) = 0
      BY <1>1, <1>2, ListedType DEF Asked
    <3>2. log[d] = <<>>
      BY <1>2, <3>1 DEF Shape
    <3> QED BY <3>2
  <2> QED BY <2>2, <2>3
<1>4. upto' = [c \in Orders |-> Len(History[c])]
  BY <1>1, <1>2, HistoryOf
<1> QED BY <1>1, <1>3, <1>4 DEF View!AskForList, History

\* restore puts an order where the broker had it when the list was asked for, and
\* leaves one out whose status it does not know.
LEMMA ViewRestores ==
  ASSUME ViewInv, StepInv', Restore
  PROVE  ViewInv' /\ \E skipped \in SUBSET Orders : View!TakeList(skipped)
<1> DEFINE skipped == {c \in Orders : ~Restored(c)}
<1>1. /\ UNCHANGED <<log, upto, blind>> /\ phase = "fetched" /\ phase' = "live"
      /\ local' = [c \in Orders |-> IF Restored(c) THEN fetched[c] ELSE local[c]]
  BY DEF Restore, brokerVars
<1>2. TypeOK /\ StepInv /\ FetchShape
  BY DEF ViewInv, StepInv
<1>3. ASSUME NEW c \in Orders, Restored(c)
      PROVE  /\ upto[c] # 0 /\ Reaches(log[c], fetched[c], upto[c])
             /\ fetched[c] = History[c][upto[c]]
  <2>1. /\ fetched[c] \in State /\ upto[c] > 0 /\ upto[c] \in Nat
        /\ Reaches(log[c], fetched[c], upto[c])
    BY <1>2, <1>3 DEF Restored, FetchShape, TypeOK, State, Listing
  <2>3. upto[c] \in DOMAIN log[c] /\ fetched[c] = StateAt(log[c], upto[c])
    BY <2>1, ReachedIsStateAt DEF Reaches
  <2>4. fetched[c] = History[c][upto[c]]
    BY <1>2, <2>3, HistoryOf
  <2> QED BY <2>1, <2>4
<1>5. local' = [c \in Orders |-> IF upto[c] = 0 \/ c \in skipped THEN local[c]
                                 ELSE History[c][upto[c]]]
  BY <1>1, <1>3
<1>6. ViewInv'
  <2>1. SUFFICES ASSUME NEW d \in Orders PROVE Known(d)' /\ Asked(d)'
    BY DEF ViewInv
  <2>2. Known(d)
    BY DEF ViewInv
  <2>3. local'[d] = IF Restored(d) THEN fetched[d] ELSE local[d]
    BY <1>1
  <2>4. CASE Restored(d)
    <3>1. Reaches(log[d], local'[d], upto[d])
      BY <1>3, <2>3, <2>4
    <3> QED BY <1>1, <3>1 DEF Known, Asked, Reaches
  <2>5. CASE ~Restored(d)
    BY <1>1, <2>2, <2>3, <2>5 DEF Known, Asked
  <2> QED BY <2>4, <2>5
<1>7. View!TakeList(skipped)
  <2> HIDE DEF skipped
  <2> QED BY <1>1, <1>5 DEF View!TakeList, History
<1> QED BY <1>6, <1>7

LEMMA ViewStep ==
  ViewInv /\ StepInv' /\ [Next]_vars => ViewInv' /\ [View!Next]_(View!vars)
<1> SUFFICES ASSUME ViewInv, StepInv', [Next]_vars PROVE ViewInv' /\ [View!Next]_(View!vars)
  OBVIOUS
<1>1. CASE Broker
  BY <1>1, BrokerSends, ViewHappens DEF View!Next
<1>2. ASSUME NEW c \in Orders, NEW k \in DOMAIN log[c], ApplyUpdate(c, k)
      PROVE  ViewInv' /\ View!Next
  <2>1. /\ ViewInv'
        /\ View!Learn(c, local'[c]) \/ View!Guess(c, local'[c])
        /\ local'[c] \in View!StatesOf(c)
    BY <1>2, ViewLearns
  <2>2. \E s \in View!StatesOf(c) : View!Learn(c, s) \/ View!Guess(c, s)
    BY <2>1, Zenon
  <2> QED BY <2>1, <2>2, Zenon DEF View!Next
<1>3. ASSUME UNCHANGED <<log, local, fetched, upto, blind, phase>>
      PROVE  ViewInv' /\ UNCHANGED View!vars
  <2>1. UNCHANGED History
    BY <1>3 DEF History
  <2>2. \A c \in Orders : Known(c)' /\ Asked(c)'
    BY <1>3 DEF ViewInv, Known, Asked
  <2> QED BY <1>3, <2>1, <2>2 DEF ViewInv, View!vars
<1>4. ASSUME NEW c \in Orders, NEW k \in DOMAIN log[c], RefuseUpdate(c, k)
      PROVE  ViewInv' /\ UNCHANGED View!vars
  <2>1. UNCHANGED <<log, local, fetched, upto, blind, phase>>
    BY <1>4 DEF RefuseUpdate, Arrived, brokerVars, startVars
  <2> QED BY <1>3, <2>1
<1>5. CASE UNCHANGED vars
  <2>1. UNCHANGED <<log, local, fetched, upto, blind, phase>>
    BY <1>5 DEF vars, brokerVars, localVars, startVars, historyVars
  <2> QED BY <1>3, <2>1
<1> QED BY <1>1, <1>2, <1>4, <1>5, ViewRestarts, ViewFetches, ViewRestores
       DEF Next, Deliver, View!Next

\* "Local order state is a monotone, broker-derived function of the trade_updates
\* stream. It never regresses, it is never guessed": the local orders are the view
\* OrderView specifies, whatever the stream loses, repeats or reorders, and
\* whatever is restored over it; it is guessed where an update without a total is
\* taken out of turn, and even then takes nothing back.
THEOREM StreamImplementsView == Spec => ViewSpec
<1>1. Init => ViewInv /\ View!Init
  <2> SUFFICES ASSUME Init PROVE ViewInv /\ View!Init
    OBVIOUS
  <2>1. local = Nothing /\ phase = "cold" /\ upto = Zero /\ log = [c \in Orders |-> <<>>]
    BY DEF Init
  <2>2. ViewInv
    BY <2>1, StepInit DEF ViewInv, Known, Asked, Nothing
  <2>3. History = [c \in Orders |-> <<>>]
    BY <2>1 DEF History
  <2> QED BY <2>1, <2>2, <2>3 DEF View!Init, Nothing, Zero, Init
<1>2. ViewInv /\ StepInv' /\ [Next]_vars => ViewInv' /\ [View!Next]_(View!vars)
  BY ViewStep
<1>3. StepInv /\ [Next]_vars => StepInv'
  BY StepStep
<1>4. ViewInv => StepInv
  BY DEF ViewInv
<1>5. Spec => [](ViewInv /\ StepInv)
  BY <1>1, <1>2, <1>3, <1>4, PTL DEF Spec
<1> QED BY <1>1, <1>2, <1>5, PTL DEF Spec, ViewSpec, View!Spec

===============================================================================
