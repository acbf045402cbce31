-------------------------- MODULE SessionEngineProofs --------------------------
(***************************************************************************)
(* Theorems about SessionEngine, for every universe, account, setting and  *)
(* number of engines and runs.                                             *)
(*                                                                         *)
(* IInv says that nothing is sold twice, and that flat is what the broker  *)
(* showed.  Limited says that what a candidate has on the book and on its  *)
(* way fits the book it was judged on, and that trades are counted.  It    *)
(* stands on what the gate grants (GateDecisionsProofs, whose own variables*)
(* and contexts play no part here) and on sums over finite sets of orders. *)
(***************************************************************************)
EXTENDS SessionEngine, GateDecisionsProofs, FiniteSetTheorems

-----------------------------------------------------------------------------
(* Sums over finite sets.  SumFunction folds with a recursive function on  *)
(* the subsets of its domain; what it does is proved from a smallest set   *)
(* on which it would not.                                                  *)

(* A property of finite sets that fails fails of a smallest one. *)
LEMMA Minimal ==
  ASSUME NEW S, NEW T, T \subseteq FiniteSubsetsOf(S), T # {}
  PROVE  \E x \in T : \A y \in T : ~(y \subseteq x /\ y # x)
<1>1. \E x \in T : \A y \in T : ~(<<y, x>> \in StrictSubsetOrdering(S))
  BY FS_StrictSubsetOrderingWellFounded, WFMin, Zenon
<1>2. PICK x \in T : \A y \in T : ~(<<y, x>> \in StrictSubsetOrdering(S))
  BY <1>1
<1>3. \A y \in T : y \in SUBSET S
  BY DEF FiniteSubsetsOf
<1> QED BY <1>2, <1>3 DEF StrictSubsetOrdering

First(s)      == CHOOSE x \in s : TRUE
Sums(f, D, it) == it = [s \in SUBSET D |-> IF s = {} THEN 0 ELSE f[First(s)] + it[s \ {First(s)}]]
Summed(f, D)  == CHOOSE it : Sums(f, D, it)

LEMMA SumIsRecursive ==
  ASSUME NEW f, NEW D
  PROVE  SumFunctionOnSet(f, D) = Summed(f, D)[D]
BY DEF SumFunctionOnSet, FoldFunctionOnSet, MapThenFoldSet, Summed, Sums, First

LEMMA SumsOf ==
  ASSUME NEW f, NEW D, NEW it, Sums(f, D, it), NEW s \in SUBSET D
  PROVE  it[s] = IF s = {} THEN 0 ELSE f[First(s)] + it[s \ {First(s)}]
BY DEF Sums

LEMMA FirstIsIn ==
  ASSUME NEW s, s # {} PROVE First(s) \in s
BY DEF First

(* Two recursions over the same function agree where both are defined. *)
LEMMA SumsAgree ==
  ASSUME NEW f, NEW g, NEW D, IsFiniteSet(D), NEW E, NEW a, NEW b, Sums(f, D, a), Sums(g, E, b),
         \A x \in D : f[x] = g[x]
  PROVE  \A s \in SUBSET D : s \subseteq E => a[s] = b[s]
<1> DEFINE Bad == {s \in SUBSET D : s \subseteq E /\ a[s] # b[s]}
<1> SUFFICES ASSUME Bad # {} PROVE FALSE
  OBVIOUS
<1>1. Bad \subseteq FiniteSubsetsOf(D)
  BY FS_Subset DEF FiniteSubsetsOf
<1>2. PICK s \in Bad : \A t \in Bad : ~(t \subseteq s /\ t # s)
  <2> HIDE DEF Bad
  <2> QED BY <1>1, Minimal
<1>3. s \in SUBSET D /\ s \in SUBSET E /\ a[s] # b[s]
  OBVIOUS
<1>4. CASE s = {}
  BY <1>3, <1>4, SumsOf
<1>5. CASE s # {}
  <2>1. First(s) \in s
    BY <1>5, FirstIsIn
  <2>2. s \ {First(s)} \notin Bad
    BY <1>2, <2>1
  <2>3. a[s \ {First(s)}] = b[s \ {First(s)}]
    BY <2>2, <1>3
  <2>4. a[s] = f[First(s)] + a[s \ {First(s)}] /\ b[s] = g[First(s)] + b[s \ {First(s)}]
    BY <1>3, <1>5, SumsOf
  <2>5. f[First(s)] = g[First(s)]
    BY <2>1, <1>3
  <2> QED BY <2>3, <2>4, <2>5, <1>3
<1> QED BY <1>4, <1>5

LEMMA SumsExist ==
  ASSUME NEW f, NEW D, IsFiniteSet(D)
  PROVE  Sums(f, D, Summed(f, D))
<1> DEFINE Bad == {d \in SUBSET D : ~Sums(f, d, Summed(f, d))}
<1> SUFFICES ASSUME Bad # {} PROVE FALSE
  OBVIOUS
<1>1. Bad \subseteq FiniteSubsetsOf(D)
  BY FS_Subset DEF FiniteSubsetsOf
<1>2. PICK d \in Bad : \A e \in Bad : ~(e \subseteq d /\ e # d)
  <2> HIDE DEF Bad
  <2> QED BY <1>1, Minimal
<1>3. \A e \in SUBSET d : e # d => Sums(f, e, Summed(f, e))
  BY <1>2
<1> DEFINE Of(e) == Summed(f, e)[e]
           Step(e) == IF e = {} THEN 0 ELSE f[First(e)] + Of(e \ {First(e)})
           it == [e \in SUBSET d |-> Step(e)]
<1>4. ASSUME NEW e \in SUBSET d, e # d PROVE it[e] = Of(e)
  <2>1. Sums(f, e, Summed(f, e))
    BY <1>3, <1>4
  <2>2. CASE e = {}
    <3>1. Of(e) = 0
      BY <2>1, <2>2, SumsOf
    <3> QED BY <3>1, <2>2
  <2>3. CASE e # {}
    <3> DEFINE r == e \ {First(e)}
    <3>1. First(e) \in e
      BY <2>3, FirstIsIn
    <3>2. r \in SUBSET d /\ r # d /\ r \in SUBSET e
      BY <3>1
    <3>3. Sums(f, r, Summed(f, r))
      BY <1>3, <3>2
    <3>4. IsFiniteSet(r)
      BY <3>2, FS_Subset
    <3>5. Summed(f, r)[r] = Summed(f, e)[r]
      BY <2>1, <3>2, <3>3, <3>4, SumsAgree
    <3>6. Summed(f, e)[e] = f[First(e)] + Summed(f, e)[r]
      BY <2>1, <2>3, SumsOf
    <3>7. it[e] = f[First(e)] + Of(r)
      BY <2>3
    <3> QED BY <3>5, <3>6, <3>7
  <2> QED BY <2>2, <2>3
<1>5. Sums(f, d, it)
  <2>1. ASSUME NEW e \in SUBSET d, e # {}
        PROVE  it[e \ {First(e)}] = Of(e \ {First(e)})
    <3>1. First(e) \in e
      BY <2>1, FirstIsIn
    <3>2. e \ {First(e)} \in SUBSET d /\ e \ {First(e)} # d
      BY <3>1
    <3> QED BY <3>2, <1>4
  <2>2. it = [e \in SUBSET d |-> IF e = {} THEN 0 ELSE f[First(e)] + it[e \ {First(e)}]]
    <3>1. \A e \in SUBSET d :
            Step(e) = IF e = {} THEN 0 ELSE f[First(e)] + it[e \ {First(e)}]
      BY <2>1
    <3> HIDE DEF Step
    <3>2. \A e \in SUBSET d :
            it[e] = IF e = {} THEN 0 ELSE f[First(e)] + it[e \ {First(e)}]
      BY <3>1
    <3> QED BY <3>1
  <2> HIDE DEF it
  <2> QED BY <2>2 DEF Sums
<1> HIDE DEF it
<1>6. Sums(f, d, Summed(f, d))
  BY <1>5 DEF Summed
<1> QED BY <1>6

LEMMA SumEmpty ==
  ASSUME NEW f PROVE SumFunctionOnSet(f, {}) = 0
<1>1. Sums(f, {}, Summed(f, {}))
  BY SumsExist, FS_EmptySet
<1> QED BY <1>1, SumsOf, SumIsRecursive

(* The sum is what its recursion says. *)
LEMMA SumUnfolds ==
  ASSUME NEW f, NEW S, IsFiniteSet(S), S # {}
  PROVE  SumFunctionOnSet(f, S) = f[First(S)] + SumFunctionOnSet(f, S \ {First(S)})
<1> DEFINE r == S \ {First(S)}
<1>1. IsFiniteSet(r)
  BY FS_Subset
<1>2. Sums(f, S, Summed(f, S)) /\ Sums(f, r, Summed(f, r))
  BY <1>1, SumsExist
<1>3. Summed(f, r)[r] = Summed(f, S)[r]
  BY <1>1, <1>2, SumsAgree
<1>4. Summed(f, S)[S] = f[First(S)] + Summed(f, S)[r]
  BY <1>2, SumsOf
<1>5. SumFunctionOnSet(f, S) = Summed(f, S)[S] /\ SumFunctionOnSet(f, r) = Summed(f, r)[r]
  BY SumIsRecursive
<1> QED BY <1>3, <1>4, <1>5

LEMMA SumsAlike ==
  ASSUME NEW f, NEW g, NEW S, IsFiniteSet(S), \A x \in S : f[x] = g[x]
  PROVE  SumFunctionOnSet(f, S) = SumFunctionOnSet(g, S)
<1>1. Sums(f, S, Summed(f, S)) /\ Sums(g, S, Summed(g, S))
  BY SumsExist
<1>2. Summed(f, S)[S] = Summed(g, S)[S]
  BY <1>1, SumsAgree
<1> QED BY <1>2, SumIsRecursive

(* A sum stays where its terms are, in a set that addition does not leave. *)
LEMMA SumStays ==
  ASSUME NEW N, 0 \in N, \A i, j \in N : i + j \in N,
         NEW S, IsFiniteSet(S), NEW f, \A x \in S : f[x] \in N
  PROVE  SumFunctionOnSet(f, S) \in N
<1> DEFINE Bad == {s \in SUBSET S : SumFunctionOnSet(f, s) \notin N}
<1> SUFFICES ASSUME Bad # {} PROVE FALSE
  OBVIOUS
<1>1. Bad \subseteq FiniteSubsetsOf(S)
  BY FS_Subset DEF FiniteSubsetsOf
<1>2. PICK s \in Bad : \A t \in Bad : ~(t \subseteq s /\ t # s)
  <2> HIDE DEF Bad
  <2> QED BY <1>1, Minimal
<1>3. s # {}
  BY <1>2, SumEmpty
<1>4. First(s) \in s /\ IsFiniteSet(s)
  BY <1>3, FirstIsIn, FS_Subset
<1>5. SumFunctionOnSet(f, s \ {First(s)}) \in N
  BY <1>2, <1>4
<1>6. SumFunctionOnSet(f, s) = f[First(s)] + SumFunctionOnSet(f, s \ {First(s)})
  BY <1>3, <1>4, SumUnfolds
<1>7. f[First(s)] \in N
  BY <1>4
<1> QED BY <1>5, <1>6, <1>7

LEMMA SumLess ==
  ASSUME NEW f, NEW S, IsFiniteSet(S), \A x \in S : f[x] \in Int, NEW x \in S
  PROVE  SumFunctionOnSet(f, S) = f[x] + SumFunctionOnSet(f, S \ {x})
<1> DEFINE Sum(s) == SumFunctionOnSet(f, s)
           Bad == {s \in SUBSET S : \E y \in s : Sum(s) # f[y] + Sum(s \ {y})}
<1> SUFFICES ASSUME Bad # {} PROVE FALSE
  OBVIOUS
<1>1. Bad \subseteq FiniteSubsetsOf(S)
  BY FS_Subset DEF FiniteSubsetsOf
<1>2. PICK s \in Bad : \A t \in Bad : ~(t \subseteq s /\ t # s)
  <2> HIDE DEF Bad
  <2> QED BY <1>1, Minimal
<1>3. PICK y \in s : Sum(s) # f[y] + Sum(s \ {y})
  BY <1>2
<1> DEFINE c == First(s)
<1>4. c \in s /\ IsFiniteSet(s)
  BY <1>3, FirstIsIn, FS_Subset
<1>5. \A t \in SUBSET s : IsFiniteSet(t) /\ Sum(t) \in Int
  <2>1. 0 \in Int /\ \A i, j \in Int : i + j \in Int
    OBVIOUS
  <2> QED BY <1>4, <2>1, FS_Subset, SumStays
<1>6. Sum(s) = f[c] + Sum(s \ {c})
  BY <1>4, SumUnfolds
<1>7. y # c
  BY <1>3, <1>6
<1>8. \A t \in SUBSET s : t # s => \A z \in t : Sum(t) = f[z] + Sum(t \ {z})
  BY <1>2
<1>9. /\ Sum(s \ {c}) = f[y] + Sum((s \ {c}) \ {y})
      /\ Sum(s \ {y}) = f[c] + Sum((s \ {y}) \ {c})
  <2>1. s \ {c} \in SUBSET s /\ s \ {c} # s /\ y \in s \ {c}
    BY <1>4, <1>7
  <2>2. s \ {y} \in SUBSET s /\ s \ {y} # s /\ c \in s \ {y}
    BY <1>4, <1>7
  <2> HIDE DEF Sum, c
  <2> QED BY <1>8, <2>1, <2>2
<1>10. (s \ {c}) \ {y} = (s \ {y}) \ {c}
  OBVIOUS
<1>11. f[y] \in Int /\ f[c] \in Int /\ Sum((s \ {y}) \ {c}) \in Int
  BY <1>4, <1>5
<1>12. \A i, j, k \in Int : i + (j + k) = j + (i + k)
  OBVIOUS
<1>13. f[c] + (f[y] + Sum((s \ {y}) \ {c})) = f[y] + (f[c] + Sum((s \ {y}) \ {c}))
  BY <1>11, <1>12, Zenon
<1> QED BY <1>3, <1>6, <1>9, <1>10, <1>13, Zenon

-----------------------------------------------------------------------------
(* Orders, holdings and what is on its way                                 *)

IsOrder(o) ==
  /\ o = [kind |-> o.kind, id |-> o.id, symbol |-> o.symbol, side |-> o.side, qty |-> o.qty,
          left |-> o.left, told |-> o.told, engine |-> o.engine, run |-> o.run,
          price |-> o.price, limit |-> o.limit, cluster |-> o.cluster]
  /\ o.symbol \in Universe /\ o.side \in {"buy", "sell"}

Typed ==
  /\ TypeOK /\ setting \in Settings
  /\ \A p \in book : p.symbol \in Universe /\ p.qty \in Int

(* What is on its way to the broker: children enter, legs flatten what the *)
(* snapshot holds.                                                         *)
Sendable ==
  /\ \A o \in orders : IsOrder(o)
  /\ \A o \in children : IsOrder(o) /\ o.kind = "entry"
  /\ \A leg \in legs : /\ IsOrder(leg) /\ leg.kind = "flat" /\ leg.id = <<"flat", leg.symbol>>
                       /\ \E p \in book : /\ p.symbol = leg.symbol /\ leg.side = Closes(p)
                                          /\ leg.left = Absolute(p.qty)

OneOfAnId == \A o, p \in orders : o.id = p.id => o = p

(* A symbol no entry sold is covered: what its one flatten order may yet   *)
(* sell is held, and while there is none what the snapshot shows is held.  *)
Sold(s) == \E o \in orders : o.kind = "entry" /\ o.side = "sell" /\ o.symbol = s

Covered(s) ==
  /\ account[s] >= 0
  /\ \A p \in book : p.symbol = s => p.qty >= 0
  /\ \A o \in orders : o.symbol = s /\ o.side = "sell" =>
        o.id = <<"flat", s>> /\ o.left \in Int /\ o.left <= account[s]
  /\ <<"flat", s>> \notin Ids => \A p \in book : p.symbol = s => p.qty <= account[s]

Held == \A s \in Universe : Sold(s) \/ Covered(s)

Quiet == pc \in {"idle", "candidates"} => legs = {}

(* What nothing was filled of is in the snapshot if it is held; flat is    *)
(* set by the last step of a run.                                          *)
Tracked ==
  /\ pc # "idle" => engines > 0 /\ flat = None
  /\ flat = TRUE => engines > 0
  /\ engines > 0 => \A s \in Universe \ shifted :
                      account[s] = 0 \/ \E p \in book : p.symbol = s

IInv == Typed /\ Sendable /\ OneOfAnId /\ Held /\ Quiet /\ Tracked /\ FlatIsVerified

LEMMA NoReport == None # TRUE
  BY SessionAssumption

LEMMA IntentIsOrder ==
  ASSUME NEW kind, NEW id, NEW symbol \in Universe, NEW side \in {"buy", "sell"}, NEW qty
  PROVE  LET o == Intent(kind, id, symbol, side, qty)
         IN /\ IsOrder(o) /\ o.kind = kind /\ o.id = id /\ o.symbol = symbol /\ o.side = side
            /\ o.left = qty
<1>1. IsOrder(Intent(kind, id, symbol, side, qty))
  BY DEF Intent, IsOrder
<1>2. LET o == Intent(kind, id, symbol, side, qty)
      IN o.kind = kind /\ o.id = id /\ o.symbol = symbol /\ o.side = side /\ o.left = qty
  BY DEF Intent
<1> QED BY <1>1, <1>2

LEMMA PricedIsOrder ==
  ASSUME NEW o, IsOrder(o), NEW x
  PROVE  /\ IsOrder([o EXCEPT !.price = x]) /\ [o EXCEPT !.price = x].kind = o.kind
         /\ IsOrder([o EXCEPT !.limit = x]) /\ [o EXCEPT !.limit = x].kind = o.kind
         /\ IsOrder([o EXCEPT !.cluster = x]) /\ [o EXCEPT !.cluster = x].kind = o.kind
<1>1. IsOrder([o EXCEPT !.price = x]) /\ [o EXCEPT !.price = x].kind = o.kind
  BY DEF IsOrder
<1>2. IsOrder([o EXCEPT !.limit = x]) /\ [o EXCEPT !.limit = x].kind = o.kind
  BY DEF IsOrder
<1>3. IsOrder([o EXCEPT !.cluster = x]) /\ [o EXCEPT !.cluster = x].kind = o.kind
  BY DEF IsOrder
<1> QED BY <1>1, <1>2, <1>3

LEMMA ChildIsOrder ==
  ASSUME NEW c, c.symbol \in Universe, c.side \in {"buy", "sell"}, NEW i, NEW qty
  PROVE  IsOrder(Child(c, i, qty)) /\ Child(c, i, qty).kind = "entry"
<1> DEFINE o == Intent("entry", <<c.setup, i>>, c.symbol, c.side, qty)
           p == [o EXCEPT !.price = c.price]
           q == [p EXCEPT !.limit = Limit(c)]
<1>1. IsOrder(o) /\ o.kind = "entry"
  BY IntentIsOrder
<1> HIDE DEF o
<1>2. IsOrder(p) /\ p.kind = "entry"
  BY <1>1, PricedIsOrder
<1> HIDE DEF p
<1>3. IsOrder(q) /\ q.kind = "entry"
  BY <1>2, PricedIsOrder
<1> HIDE DEF q
<1>4. IsOrder([q EXCEPT !.cluster = c.cluster]) /\ [q EXCEPT !.cluster = c.cluster].kind = "entry"
  BY <1>3, PricedIsOrder
<1> QED BY <1>4 DEF Child, o, p, q

LEMMA ToldIsOrder ==
  ASSUME NEW o, IsOrder(o), NEW b
  PROVE  LET e == [o EXCEPT !.told = b]
         IN /\ IsOrder(e) /\ e.kind = o.kind /\ e.id = o.id /\ e.symbol = o.symbol
            /\ e.side = o.side /\ e.left = o.left
  BY DEF IsOrder

LEMMA FilledIsOrder ==
  ASSUME NEW o, IsOrder(o), NEW n
  PROVE  LET e == [o EXCEPT !.left = n]
         IN /\ IsOrder(e) /\ e.kind = o.kind /\ e.id = o.id /\ e.symbol = o.symbol
            /\ e.side = o.side /\ e.left = n
  BY DEF IsOrder

(* An order the broker takes is an entry, or the one flatten order of a    *)
(* position it shows.                                                      *)
LEMMA PlaceKeeps ==
  ASSUME IInv, NEW o, IsOrder(o), NEW b, Place(o, b), UNCHANGED <<book, account>>,
         \/ o.kind = "entry"
         \/ /\ o.kind = "flat" /\ o.id = <<"flat", o.symbol>>
            /\ \E p \in book : p.symbol = o.symbol /\ o.side = Closes(p) /\ o.left = Absolute(p.qty)
  PROVE  (\A e \in orders' : IsOrder(e)) /\ OneOfAnId' /\ Held'
<1> DEFINE e == [o EXCEPT !.told = b]
<1>1. /\ IsOrder(e) /\ e.kind = o.kind /\ e.id = o.id /\ e.symbol = o.symbol
      /\ e.side = o.side /\ e.left = o.left
  BY ToldIsOrder
<1>2. orders' = orders \cup {e} /\ o.id \notin Ids /\ \A x \in orders : x.id # e.id
  BY <1>1 DEF Place, Ids
<1> HIDE DEF e
<1>3. \A x \in orders' : IsOrder(x)
  BY <1>1, <1>2 DEF IInv, Sendable
<1>4. OneOfAnId'
  BY <1>2 DEF OneOfAnId, IInv
<1>5. ASSUME NEW s \in Universe PROVE Sold(s)' \/ Covered(s)'
  <2>1. CASE Sold(s)
    BY <1>2, <2>1 DEF Sold
  <2>2. CASE e.kind = "entry" /\ e.side = "sell" /\ e.symbol = s
    BY <1>2, <2>2 DEF Sold
  <2>3. CASE Covered(s) /\ ~(e.kind = "entry" /\ e.side = "sell" /\ e.symbol = s)
    <3>1. e.symbol = s /\ e.side = "sell" =>
            e.id = <<"flat", s>> /\ e.left \in Int /\ e.left <= account[s]
      <4> SUFFICES ASSUME e.symbol = s, e.side = "sell"
                   PROVE  e.id = <<"flat", s>> /\ e.left \in Int /\ e.left <= account[s]
        OBVIOUS
      <4>1. o.kind = "flat" /\ o.id = <<"flat", s>>
        BY <1>1, <2>3
      <4>2. PICK p \in book : p.symbol = s /\ o.left = Absolute(p.qty)
        BY <1>1, <2>3
      <4>3. p.qty >= 0 /\ p.qty <= account[s] /\ p.qty \in Int
        BY <1>2, <2>3, <4>1, <4>2 DEF Covered, IInv, Typed
      <4> QED BY <1>1, <4>1, <4>2, <4>3 DEF Absolute
    <3>2. Ids \subseteq Ids'
      BY <1>2 DEF Ids
    <3> QED BY <1>2, <2>3, <3>1, <3>2 DEF Covered
  <2> QED BY <2>1, <2>2, <2>3 DEF IInv, Held
<1> QED BY <1>3, <1>4, <1>5 DEF Held

LEMMA InitHolds == Init => IInv
<1> SUFFICES ASSUME Init PROVE IInv
  OBVIOUS
<1>1. account \in [Universe -> Nat]
  BY SessionAssumption DEF Init
<1>2. Typed
  <2>1. account \in [Universe -> Int]
    BY <1>1
  <2>2. trades \in [Universe -> Nat]
    BY DEF Init, Idle
  <2>3. engines \in 0..MaxEngines /\ runs \in 0..MaxRuns
    BY SessionAssumption DEF Init
  <2>4. /\ moved \subseteq Universe /\ shifted \subseteq Universe /\ todo \subseteq setting.offers /\ armed \in BOOLEAN
        /\ pc \in {"idle", "candidates", "flatten", "verify"} /\ flat \in BOOLEAN \cup {None}
        /\ setting \in Settings /\ book = {}
    BY DEF Init
  <2> QED BY <2>1, <2>2, <2>3, <2>4 DEF Typed, TypeOK
<1>3. Sendable /\ OneOfAnId /\ Quiet
  BY DEF Init, Sendable, OneOfAnId, Quiet
<1>5. FlatIsVerified
  BY NoReport DEF Init, FlatIsVerified
<1>6. Tracked
  <2>1. pc = "idle" /\ flat = None /\ engines = 0
    BY DEF Init
  <2>2. ~(engines > 0)
    BY <2>1
  <2>3. pc = "idle" /\ flat # TRUE
    BY <2>1, NoReport
  <2> QED BY <2>2, <2>3, Zenon DEF Tracked
<1>4. Held
  BY <1>1 DEF Init, Held, Covered
<1> QED BY <1>2, <1>3, <1>4, <1>5, <1>6 DEF IInv

LEMMA NewEngineKeeps ==
  ASSUME IInv, NewEngine
  PROVE  IInv'
<1> USE DEF IInv
<1>1. PICK tag \in [Universe -> Sleeves] : book' = Snapshot(tag)
  BY DEF NewEngine
<1>2. /\ pc = "idle" /\ engines < MaxEngines /\ engines' = engines + 1
      /\ trades' = Idle /\ flat' = None /\ moved' = {} /\ shifted' = {}
      /\ UNCHANGED <<setting, pc, armed, todo, children, legs, account, orders, runs>>
  BY DEF NewEngine
<1>3. \A p \in book' : p.symbol \in Universe /\ p.qty = account[p.symbol]
  BY <1>1 DEF Snapshot
<1>4. Typed'
  BY <1>2, <1>3, SessionAssumption DEF Typed, TypeOK, Idle
<1>5. legs = {}
  BY <1>2 DEF Quiet
<1>6. Sendable' /\ Quiet' /\ OneOfAnId'
  BY <1>2, <1>5 DEF Sendable, Quiet, OneOfAnId, IsOrder
<1>7. ASSUME NEW s \in Universe PROVE Sold(s)' \/ Covered(s)'
  <2>1. CASE Sold(s)
    BY <1>2, <2>1 DEF Sold
  <2>2. CASE Covered(s)
    BY <1>2, <1>3, <2>2 DEF Covered, Ids, Typed, TypeOK
  <2> QED BY <2>1, <2>2 DEF Held
<1>8. FlatIsVerified'
  BY <1>2, SessionAssumption DEF FlatIsVerified
<1>9. Tracked'
  <2>1. engines' > 0
    BY <1>2 DEF Typed, TypeOK
  <2>2. ASSUME NEW s \in Universe, account[s] # 0 PROVE \E p \in book' : p.symbol = s
    <3> DEFINE p == [symbol |-> s, qty |-> account[s], sleeve |-> tag[s], price |-> setting.mark[s],
                     cluster |-> setting.cluster[s], stop |-> setting.stop[s],
                     marked |-> setting.marked[s]]
    <3>1. p \in book'
      BY <1>1, <2>2 DEF Snapshot
    <3>2. p.symbol = s
      OBVIOUS
    <3> HIDE DEF p
    <3> QED BY <3>1, <3>2
  <2> QED BY <1>2, <2>1, <2>2, NoReport DEF Tracked
<1> QED BY <1>4, <1>6, <1>7, <1>8, <1>9 DEF Held

LEMMA RunKeeps ==
  ASSUME IInv, Run
  PROVE  IInv'
<1> USE DEF IInv
<1>1. PICK execute \in BOOLEAN : armed' = (setting.orderPath /\ execute)
  BY DEF Run
<1>2. /\ pc = "idle" /\ runs < MaxRuns /\ runs' = runs + 1 /\ pc' = "candidates"
      /\ todo' \subseteq setting.offers /\ flat' = None /\ moved' = {}
      /\ UNCHANGED <<setting, book, trades, children, legs, account, orders, shifted, engines>>
      /\ engines > 0
  BY DEF Run
<1>3. armed' \in BOOLEAN
  BY <1>1
<1>4. Typed'
  BY <1>2, <1>3, SessionAssumption DEF Typed, TypeOK
<1>5. Sendable' /\ Quiet' /\ OneOfAnId'
  BY <1>2 DEF Sendable, Quiet, OneOfAnId, IsOrder
<1>7. FlatIsVerified' /\ Tracked'
  BY <1>2, NoReport DEF FlatIsVerified, Tracked
<1>6. Held'
  BY <1>2 DEF Held, Sold, Covered, Ids
<1> QED BY <1>4, <1>5, <1>6, <1>7

LEMMA JudgeKeeps ==
  ASSUME IInv, Judge
  PROVE  IInv'
<1> USE DEF IInv
<1>1. /\ UNCHANGED <<setting, book, trades, pc, armed, legs, flat, account, orders, moved, shifted, engines, runs>>
      /\ children = {} /\ pc = "candidates"
  BY DEF Judge, engineVars, brokerVars
<1>2. /\ todo' \subseteq todo
      /\ \E c \in todo : \E qty, perChild : children' \in {PlanEntry(c, qty, perChild), {}}
  <2>1. PICK c \in todo, perChild \in {setting.perChild, None} :
          LET d   == Evaluate(Context(c))
              qty == Shares(c, d)
          IN /\ todo' = todo \ {c}
             /\ children' = IF Allowed(d) /\ armed /\ qty > 0
                            THEN PlanEntry(c, qty, perChild) ELSE {}
    BY DEF Judge
  <2> QED BY <2>1
<1>3. PICK c \in todo : \E qty, perChild : children' \in {PlanEntry(c, qty, perChild), {}}
  BY <1>2
<1>4. c.symbol \in Universe /\ c.side \in {"buy", "sell"}
  BY SessionAssumption DEF Typed, TypeOK
<1>5. \A o \in children' : IsOrder(o) /\ o.kind = "entry"
  BY <1>3, <1>4, ChildIsOrder DEF PlanEntry
<1>6. Typed' /\ Quiet' /\ OneOfAnId' /\ FlatIsVerified' /\ Tracked'
  BY <1>1, <1>2 DEF Typed, TypeOK, Quiet, OneOfAnId, FlatIsVerified, Tracked, Intraday
<1>7. Sendable'
  BY <1>1, <1>5 DEF Sendable, IsOrder
<1>8. Held'
  BY <1>1 DEF Held, Sold, Covered, Ids
<1> QED BY <1>6, <1>7, <1>8

LEMMA StandingKeeps ==
  ASSUME IInv, UNCHANGED <<book, account, orders>>
  PROVE  (\A e \in orders' : IsOrder(e)) /\ OneOfAnId' /\ Held'
<1>1. (\A e \in orders' : IsOrder(e)) /\ OneOfAnId'
  BY DEF IInv, Sendable, OneOfAnId
<1>2. \A s \in Universe : (Sold(s) => Sold(s)') /\ (Covered(s) => Covered(s)')
  BY DEF Sold, Covered, Ids
<1> QED BY <1>1, <1>2 DEF IInv, Held

LEMMA SubmitChildKeeps ==
  ASSUME IInv, SubmitChild
  PROVE  IInv'
<1> USE DEF IInv
<1>1. UNCHANGED <<setting, book, pc, armed, todo, legs, flat, account, moved, shifted, engines, runs>>
  BY DEF SubmitChild
<1>2. PICK child \in children :
        \/ /\ Place(child, TRUE)
           /\ trades' = [trades EXCEPT ![child.symbol] = @ + 1]
           /\ children' = {}
        \/ /\ Place(child, FALSE) \/ NotPlaced
           /\ children' = children \ {child}
           /\ UNCHANGED trades
  BY DEF SubmitChild
<1>3. IsOrder(child) /\ child.kind = "entry"
  BY DEF Sendable
<1>4. (\A e \in orders' : IsOrder(e)) /\ OneOfAnId' /\ Held'
  <2>1. CASE Place(child, TRUE)
    BY <1>1, <1>3, <2>1, PlaceKeeps
  <2>2. CASE Place(child, FALSE)
    BY <1>1, <1>3, <2>2, PlaceKeeps
  <2>3. CASE NotPlaced
    BY <1>1, <2>3, StandingKeeps DEF NotPlaced
  <2> QED BY <1>2, <2>1, <2>2, <2>3
<1>5. trades' \in [Universe -> Nat]
  <2>1. child.symbol \in Universe /\ trades \in [Universe -> Nat]
    BY <1>3 DEF IsOrder, Typed, TypeOK
  <2>2. trades' = [trades EXCEPT ![child.symbol] = @ + 1] \/ trades' = trades
    BY <1>2
  <2> QED BY <2>1, <2>2
<1>6. Typed' /\ Quiet' /\ FlatIsVerified' /\ Tracked'
  BY <1>1, <1>5 DEF Typed, TypeOK, Quiet, FlatIsVerified, Tracked, Intraday
<1>7. Sendable'
  BY <1>1, <1>2, <1>4 DEF Sendable, IsOrder
<1> QED BY <1>4, <1>6, <1>7

(* _protect never sends a leg: the stops it passes cover every position    *)
(* that has one.                                                           *)
LEMMA ProtectKeeps ==
  ASSUME IInv, Protect
  PROVE  IInv'
<1> USE DEF IInv
<1>1. /\ UNCHANGED <<setting, book, trades, armed, todo, children, flat, account, orders, moved, shifted, engines, runs>>
      /\ pc = "candidates" /\ pc' \in {"idle", "flatten"}
  BY DEF Protect, engineVars, brokerVars
<1>2. ProtectiveOrders(Intraday, {p.symbol : p \in {q \in book : q.stop # None}}) = {}
  BY DEF ProtectiveOrders, Intraday, OfSleeve
<1>3. legs' = {}
  BY <1>2 DEF Protect
<1>4. Typed' /\ Quiet' /\ FlatIsVerified' /\ Tracked'
  BY <1>1, <1>3 DEF Typed, TypeOK, Quiet, FlatIsVerified, Tracked, Intraday
<1>5. (\A e \in orders' : IsOrder(e)) /\ OneOfAnId' /\ Held'
  BY <1>1, StandingKeeps
<1>6. Sendable'
  BY <1>1, <1>3, <1>5 DEF Sendable, IsOrder
<1> QED BY <1>4, <1>5, <1>6

LEMMA SubmitLegKeeps ==
  ASSUME IInv, SubmitLeg
  PROVE  IInv'
<1> USE DEF IInv
<1>1. UNCHANGED <<setting, book, trades, pc, armed, todo, children, flat, account, moved, shifted, engines, runs>>
  BY DEF SubmitLeg, engineVars
<1>2. PICK leg \in legs : /\ legs' = legs \ {leg}
                          /\ Place(leg, TRUE) \/ Place(leg, FALSE) \/ NotPlaced
  BY DEF SubmitLeg
<1>3. /\ IsOrder(leg) /\ leg.kind = "flat" /\ leg.id = <<"flat", leg.symbol>>
      /\ \E p \in book : p.symbol = leg.symbol /\ leg.side = Closes(p) /\ leg.left = Absolute(p.qty)
  BY DEF Sendable
<1>4. (\A e \in orders' : IsOrder(e)) /\ OneOfAnId' /\ Held'
  <2>1. CASE Place(leg, TRUE)
    BY <1>1, <1>3, <2>1, PlaceKeeps
  <2>2. CASE Place(leg, FALSE)
    BY <1>1, <1>3, <2>2, PlaceKeeps
  <2>3. CASE NotPlaced
    BY <1>1, <2>3, StandingKeeps DEF NotPlaced
  <2> QED BY <1>2, <2>1, <2>2, <2>3
<1>5. Typed' /\ FlatIsVerified' /\ Tracked'
  BY <1>1 DEF Typed, TypeOK, FlatIsVerified, Tracked, Intraday
<1>6. Sendable' /\ Quiet'
  BY <1>1, <1>2, <1>4 DEF Sendable, IsOrder, Quiet
<1> QED BY <1>4, <1>5, <1>6

LEMMA PlanIsSendable ==
  ASSUME IInv, NEW leg \in FlattenPlan(Intraday)
  PROVE  /\ IsOrder(leg) /\ leg.kind = "flat" /\ leg.id = <<"flat", leg.symbol>>
         /\ \E p \in book : p.symbol = leg.symbol /\ leg.side = Closes(p) /\ leg.left = Absolute(p.qty)
<1>1. PICK p \in Intraday :
        leg = Intent("flat", <<"flat", p.symbol>>, p.symbol, Closes(p), Absolute(p.qty))
  BY DEF FlattenPlan
<1>2. p \in book /\ p.symbol \in Universe /\ Closes(p) \in {"buy", "sell"}
  BY DEF Intraday, OfSleeve, IInv, Typed, Closes
<1>3. /\ IsOrder(leg) /\ leg.kind = "flat" /\ leg.id = <<"flat", p.symbol>> /\ leg.symbol = p.symbol
      /\ leg.side = Closes(p) /\ leg.left = Absolute(p.qty)
  BY <1>1, <1>2, IntentIsOrder
<1> QED BY <1>2, <1>3

LEMMA FlattenKeeps ==
  ASSUME IInv, Flatten
  PROVE  IInv'
<1> USE DEF IInv
<1>1. /\ UNCHANGED <<setting, book, trades, armed, todo, children, account, orders, moved, shifted, engines, runs>>
      /\ pc = "flatten" /\ legs = {}
      /\ \/ pc' = "idle" /\ legs' = legs /\ flat' = flat
         \/ Intraday = {} /\ pc' = "idle" /\ flat' = TRUE /\ legs' = legs
         \/ pc' = "verify" /\ legs' = FlattenPlan(Intraday) /\ flat' = flat
  BY DEF Flatten, engineVars, brokerVars
<1>2. Typed'
  <2>1. pc' \in {"idle", "candidates", "flatten", "verify"} /\ flat' \in BOOLEAN \cup {None}
    BY <1>1 DEF Typed, TypeOK
  <2> QED BY <1>1, <2>1 DEF Typed, TypeOK
<1>3. Quiet' /\ Tracked'
  BY <1>1 DEF Quiet, Tracked
<1>7. FlatIsVerified'
  <2>1. CASE Intraday = {} /\ flat' = TRUE
    BY <1>1, <2>1 DEF FlatIsVerified, Intraday, Tracked, Absolute, DUST_SHARES
  <2>2. CASE flat' = flat
    BY <1>1, <2>2 DEF FlatIsVerified, Intraday
  <2> QED BY <1>1, <2>1, <2>2
<1>4. (\A e \in orders' : IsOrder(e)) /\ OneOfAnId' /\ Held'
  BY <1>1, StandingKeeps
<1>5. legs' \in {{}, FlattenPlan(Intraday)}
  BY <1>1
<1>6. Sendable'
  BY <1>1, <1>4, <1>5, PlanIsSendable DEF Sendable, IsOrder
<1> QED BY <1>2, <1>3, <1>4, <1>6, <1>7

LEMMA VerifyFlatKeeps ==
  ASSUME IInv, VerifyFlat
  PROVE  IInv'
<1> USE DEF IInv
<1>1. flat' = (setting.reader /\ IsFlat(account)) \/ flat' = flat
  BY DEF VerifyFlat
<1>2. /\ UNCHANGED <<setting, book, trades, armed, todo, children, legs, account, orders, shifted, engines, runs>>
      /\ pc = "verify" /\ legs = {} /\ moved' = {} /\ pc' = "idle"
  BY DEF VerifyFlat, engineVars
<1>3. flat' \in BOOLEAN \cup {None}
  <2>1. setting.reader \in BOOLEAN /\ IsFlat(account) \in BOOLEAN
    BY SessionAssumption DEF Typed, IsFlat
  <2> QED BY <1>1, <2>1 DEF Typed, TypeOK
<1>4. Typed'
  BY <1>2, <1>3 DEF Typed, TypeOK
<1>5. (\A e \in orders' : IsOrder(e)) /\ OneOfAnId' /\ Held'
  BY <1>2, StandingKeeps
<1>6. Sendable' /\ Quiet' /\ Tracked'
  BY <1>2, <1>5 DEF Sendable, IsOrder, Quiet, Tracked
<1>7. DOMAIN account = Universe
  BY DEF Typed, TypeOK
<1>8. flat' = TRUE => IsFlat(account)
  BY <1>1, <1>2, NoReport DEF Tracked
<1>9. FlatIsVerified'
  BY <1>2, <1>7, <1>8 DEF FlatIsVerified, IsFlat
<1> QED BY <1>4, <1>5, <1>6, <1>9

LEMMA FillKeeps ==
  ASSUME IInv, Fill
  PROVE  IInv'
<1> USE DEF IInv
<1>1. PICK o \in orders : \E n \in 1..o.left :
        /\ account' = [account EXCEPT ![o.symbol] = @ + Signed(o, n)]
        /\ orders' = (orders \ {o}) \cup {[o EXCEPT !.left = @ - n]}
        /\ moved' = moved \cup {o.symbol} /\ shifted' = shifted \cup {o.symbol}
  BY DEF Fill
<1>2. PICK n \in 1..o.left :
        /\ account' = [account EXCEPT ![o.symbol] = @ + Signed(o, n)]
        /\ orders' = (orders \ {o}) \cup {[o EXCEPT !.left = @ - n]}
        /\ moved' = moved \cup {o.symbol} /\ shifted' = shifted \cup {o.symbol}
  BY <1>1
<1> DEFINE e == [o EXCEPT !.left = @ - n]
<1>3. UNCHANGED <<setting, book, trades, pc, armed, todo, children, legs, flat, engines, runs>>
  BY DEF Fill, engineVars, runVars
<1>4. IsOrder(o) /\ n \in Int /\ n >= 1 /\ n <= o.left
  BY DEF Sendable
<1>5. /\ IsOrder(e) /\ e.kind = o.kind /\ e.id = o.id /\ e.symbol = o.symbol /\ e.side = o.side
      /\ e.left = o.left - n /\ orders' = (orders \ {o}) \cup {e}
  BY <1>2, <1>4, FilledIsOrder
<1> HIDE DEF e
<1>6. o.symbol \in Universe /\ o.side \in {"buy", "sell"}
  BY <1>4 DEF IsOrder
<1>7. /\ account' \in [Universe -> Int]
      /\ account'[o.symbol] = IF o.side = "buy" THEN account[o.symbol] + n ELSE account[o.symbol] - n
      /\ \A s \in Universe : s # o.symbol => account'[s] = account[s]
  BY <1>2, <1>4, <1>6 DEF Signed, Typed, TypeOK
<1>8. Typed'
  BY <1>2, <1>3, <1>6, <1>7 DEF Typed, TypeOK
<1>9. Sendable' /\ Quiet'
  BY <1>3, <1>5 DEF Sendable, Quiet, IsOrder
<1>10. OneOfAnId'
  BY <1>5 DEF OneOfAnId
<1>11. Ids' = Ids
  BY <1>5 DEF Ids
<1>12. ASSUME NEW s \in Universe PROVE Sold(s)' \/ Covered(s)'
  <2>1. CASE Sold(s)
    BY <1>5, <2>1 DEF Sold
  <2>2. CASE Covered(s) /\ s # o.symbol
    BY <1>3, <1>5, <1>7, <1>11, <2>2 DEF Covered
  <2>3. CASE Covered(s) /\ s = o.symbol /\ o.side = "buy"
    <3>1. account'[s] = account[s] + n /\ account[s] \in Int
      BY <1>7, <2>3 DEF Typed, TypeOK
    <3>2. \A p \in book : p.qty \in Int
      BY DEF Typed
    <3> QED BY <1>3, <1>4, <1>5, <1>11, <2>3, <3>1, <3>2 DEF Covered
  <2>4. CASE Covered(s) /\ s = o.symbol /\ o.side = "sell"
    <3>1. account'[s] = account[s] - n /\ account[s] \in Int
      BY <1>7, <2>4 DEF Typed, TypeOK
    <3>2. o.id = <<"flat", s>> /\ o.left \in Int /\ o.left <= account[s]
      BY <2>4 DEF Covered
    <3>3. <<"flat", s>> \in Ids
      BY <3>2 DEF Ids
    <3>4. \A x \in orders \ {o} : ~(x.symbol = s /\ x.side = "sell")
      BY <2>4, <3>2 DEF Covered, OneOfAnId
    <3> QED BY <1>3, <1>4, <1>5, <1>11, <2>4, <3>1, <3>2, <3>3, <3>4 DEF Covered
  <2> QED BY <1>6, <2>1, <2>2, <2>3, <2>4 DEF Held
<1>13. FlatIsVerified'
  BY <1>2, <1>3, <1>7 DEF FlatIsVerified, Intraday
<1>14. Tracked'
  BY <1>2, <1>3, <1>7 DEF Tracked
<1> QED BY <1>8, <1>9, <1>10, <1>12, <1>13, <1>14 DEF Held

LEMMA DayEndsKeeps ==
  ASSUME IInv, DayEnds
  PROVE  IInv'
<1> USE DEF IInv
<1>1. /\ orders' = {[o EXCEPT !.left = 0] : o \in orders}
      /\ UNCHANGED <<setting, book, trades, pc, armed, todo, children, legs, flat, account, moved, shifted, engines, runs>>
  BY DEF DayEnds, engineVars, runVars
<1>2. \A o \in orders : LET e == [o EXCEPT !.left = 0]
        IN /\ IsOrder(e) /\ e.kind = o.kind /\ e.id = o.id /\ e.symbol = o.symbol
           /\ e.side = o.side /\ e.left = 0
  BY FilledIsOrder DEF Sendable
<1>3. /\ \A e \in orders' : /\ IsOrder(e) /\ e.left = 0
                            /\ \E o \in orders : /\ e = [o EXCEPT !.left = 0] /\ e.id = o.id
                                                 /\ e.symbol = o.symbol /\ e.side = o.side
      /\ \A o \in orders : \E e \in orders' : /\ e.kind = o.kind /\ e.id = o.id
                                               /\ e.symbol = o.symbol /\ e.side = o.side
  BY <1>1, <1>2
<1>4. Typed' /\ Quiet' /\ FlatIsVerified' /\ Tracked'
  BY <1>1 DEF Typed, TypeOK, Quiet, FlatIsVerified, Tracked, Intraday
<1>5. Sendable'
  BY <1>1, <1>3 DEF Sendable, IsOrder
<1>6. OneOfAnId'
  BY <1>3 DEF OneOfAnId
<1>7. Ids' = Ids
  BY <1>3 DEF Ids
<1>8. ASSUME NEW s \in Universe PROVE Sold(s)' \/ Covered(s)'
  <2>1. CASE Sold(s)
    BY <1>3, <2>1 DEF Sold
  <2>2. CASE Covered(s)
    <3>1. account[s] \in Int
      BY DEF Typed, TypeOK
    <3> QED BY <1>1, <1>3, <1>7, <2>2, <3>1 DEF Covered
  <2> QED BY <2>1, <2>2 DEF Held
<1> QED BY <1>4, <1>5, <1>6, <1>8 DEF Held

LEMMA StepKeeps == IInv /\ [Next]_vars => IInv'
<1> SUFFICES ASSUME IInv, [Next]_vars PROVE IInv'
  OBVIOUS
<1>1. CASE UNCHANGED vars
  <2>1. UNCHANGED <<setting, book, trades, pc, armed, todo, children, legs, flat, account, orders,
                    moved, shifted, engines, runs>>
    BY <1>1 DEF vars, engineVars, runVars, brokerVars
  <2>2. Typed' /\ Quiet' /\ FlatIsVerified' /\ Tracked'
    BY <2>1 DEF IInv, Typed, TypeOK, Quiet, FlatIsVerified, Tracked, Intraday
  <2>3. (\A e \in orders' : IsOrder(e)) /\ OneOfAnId' /\ Held'
    BY <2>1, StandingKeeps
  <2>4. Sendable'
    BY <2>1, <2>3 DEF IInv, Sendable, IsOrder
  <2> QED BY <2>2, <2>3, <2>4 DEF IInv
<1> QED BY <1>1, NewEngineKeeps, RunKeeps, JudgeKeeps, SubmitChildKeeps, ProtectKeeps, SubmitLegKeeps,
           FlattenKeeps, VerifyFlatKeeps, FillKeeps, DayEndsKeeps DEF Next

LEMMA Invariance == Spec => []IInv
<1>1. Init => IInv
  BY InitHolds
<1>2. IInv /\ [Next]_vars => IInv'
  BY StepKeeps
<1> QED BY <1>1, <1>2, PTL DEF Spec

-----------------------------------------------------------------------------
(* The shares of the children of an entry                                  *)

(* The shares of a set of orders.                                          *)
Quantity(S) == SumFunction([o \in S |-> o.qty])
Whole(S)    == IsFiniteSet(S) /\ \A o \in S : o.qty \in Nat

LEMMA QuantityWithout ==
  ASSUME NEW S, Whole(S), NEW o \in S
  PROVE  Quantity(S) = o.qty + Quantity(S \ {o})
<1> DEFINE f == [x \in S |-> x.qty]
           R == S \ {o}
           g == [x \in R |-> x.qty]
<1>1. SumFunctionOnSet(f, S) = f[o] + SumFunctionOnSet(f, R)
  <2>1. \A x \in S : f[x] \in Int
    BY DEF Whole
  <2> HIDE DEF f
  <2> QED BY <2>1, SumLess DEF Whole
<1>2. SumFunctionOnSet(f, R) = SumFunctionOnSet(g, R)
  <2>1. IsFiniteSet(R)
    BY FS_Subset DEF Whole
  <2>2. \A x \in R : f[x] = g[x]
    OBVIOUS
  <2> HIDE DEF f, g
  <2> QED BY <2>1, <2>2, SumsAlike
<1>3. Quantity(S) = SumFunctionOnSet(f, S) /\ Quantity(R) = SumFunctionOnSet(g, R)
  BY DEF Quantity, SumFunction
<1> QED BY <1>1, <1>2, <1>3

LEMMA QuantityOfNone == Quantity({}) = 0
BY SumEmpty DEF Quantity, SumFunction

LEMMA QuantityType ==
  ASSUME NEW S, Whole(S)
  PROVE  Quantity(S) \in Nat
<1> DEFINE f == [o \in S |-> o.qty]
<1>1. IsFiniteSet(S) /\ \A o \in S : f[o] \in Nat
  BY DEF Whole
<1>2. Quantity(S) = SumFunctionOnSet(f, S)
  BY DEF Quantity, SumFunction
<1> HIDE DEF f
<1>3. 0 \in Nat /\ \A i, j \in Nat : i + j \in Nat
  OBVIOUS
<1> QED BY <1>1, <1>2, <1>3, SumStays

(* Orders that map one to one to orders of the same size are no more.      *)
LEMMA QuantityInto ==
  ASSUME NEW S, Whole(S), NEW T, NEW h \in Injection(T, S), \A o \in T : h[o].qty = o.qty
  PROVE  Whole(T) /\ Quantity(T) <= Quantity(S)
<1>1. /\ \A o \in T : h[o] \in S /\ o.qty \in Nat
      /\ \A o, e \in T : h[o] = h[e] => o = e
  BY DEF Injection, IsInjective, Whole
<1>2. IsFiniteSet(T) /\ Whole(T)
  BY <1>1, FS_Injection DEF Whole
<1> DEFINE Into(t, s) == \A o \in t : h[o] \in s
           Bad == {t \in SUBSET T : \E s \in SUBSET S : Into(t, s) /\ ~(Quantity(t) <= Quantity(s))}
<1>3. ASSUME Bad # {} PROVE FALSE
  <2>1. Bad \subseteq FiniteSubsetsOf(T)
    BY <1>2, FS_Subset DEF FiniteSubsetsOf
  <2>2. PICK t \in Bad : \A u \in Bad : ~(u \subseteq t /\ u # t)
    <3> HIDE DEF Bad
    <3> QED BY <1>3, <2>1, Minimal
  <2>3. PICK s \in SUBSET S : Into(t, s) /\ ~(Quantity(t) <= Quantity(s))
    OBVIOUS
  <2>4. Whole(s) /\ Whole(t)
    BY <1>2, FS_Subset DEF Whole
  <2>5. Quantity(s) \in Nat
    BY <2>4, QuantityType
  <2>6. t # {}
    BY <2>3, <2>5, QuantityOfNone
  <2> PICK o \in t : TRUE
    BY <2>6
  <2>7. Into(t \ {o}, s \ {h[o]}) /\ s \ {h[o]} \in SUBSET S /\ t \ {o} \in SUBSET T
    BY <1>1, <2>3
  <2>8. Quantity(t \ {o}) <= Quantity(s \ {h[o]})
    BY <2>2, <2>7
  <2>9. /\ Quantity(t) = o.qty + Quantity(t \ {o}) /\ Quantity(s) = h[o].qty + Quantity(s \ {h[o]})
        /\ h[o].qty = o.qty /\ o.qty \in Nat
    BY <1>1, <2>3, <2>4, QuantityWithout
  <2>10. Quantity(t \ {o}) \in Nat /\ Quantity(s \ {h[o]}) \in Nat
    <3>1. Whole(t \ {o}) /\ Whole(s \ {h[o]})
      BY <2>4, FS_Subset DEF Whole
    <3> QED BY <3>1, QuantityType
  <2> QED BY <2>3, <2>8, <2>9, <2>10
<1>4. Into(T, S)
  BY <1>1
<1> HIDE DEF Into
<1> QED BY <1>2, <1>3, <1>4

LEMMA ChildOf ==
  ASSUME NEW c, NEW i, NEW qty
  PROVE  LET o == Child(c, i, qty)
         IN /\ o.kind = "entry" /\ o.id = <<c.setup, i>> /\ o.symbol = c.symbol /\ o.qty = qty
            /\ o.told = None /\ o.engine = engines /\ o.run = runs
            /\ o.price = c.price /\ o.cluster = c.cluster
BY DEF Child, Intent

LEMMA Quotients ==
  ASSUME NEW q \in Nat, NEW n \in 1..MAX_CHILDREN
  PROVE  q \div n \in Nat /\ q % n \in Nat /\ n * (q \div n) + (q % n) = q
<1>1. CASE n = 1
  BY <1>1
<1>2. CASE n = 2
  BY <1>2
<1>3. CASE n = 3
  BY <1>3
<1>4. CASE n = 4
  BY <1>4
<1>5. CASE n = 5
  BY <1>5
<1> QED BY <1>1, <1>2, <1>3, <1>4, <1>5 DEF MAX_CHILDREN

LEMMA CountOfChildren ==
  ASSUME NEW qty \in Nat \ {0}, NEW perChild \in (Nat \ {0}) \cup {None}
  PROVE  SliceCount(qty, perChild) \in 1..MAX_CHILDREN
<1>1. CASE perChild = None
  BY <1>1 DEF SliceCount, MAX_CHILDREN
<1>2. CASE perChild # None
  <2> DEFINE n == (qty + perChild - 1) \div perChild
  <2>1. perChild \in Nat /\ perChild > 0 /\ qty >= 1
    BY <1>2
  <2>2. n \in Int /\ n >= 1
    <3>1. \A x, y \in Int : y > 0 /\ x >= y => x \div y \in Int /\ x \div y >= 1
      OBVIOUS
    <3> QED BY <2>1, <3>1
  <2> HIDE DEF n
  <2>3. SliceCount(qty, perChild) = Least(Least(MAX_CHILDREN, n), qty)
    BY <1>2 DEF SliceCount, n
  <2> QED BY <2>1, <2>2, <2>3 DEF Least, MAX_CHILDREN
<1> QED BY <1>1, <1>2

(* The children of an entry have its size between them.                    *)
LEMMA PlanHasItsSize ==
  ASSUME NEW c, NEW qty \in Nat \ {0}, NEW perChild \in (Nat \ {0}) \cup {None}
  PROVE  Whole(PlanEntry(c, qty, perChild)) /\ Quantity(PlanEntry(c, qty, perChild)) <= qty
<1> DEFINE n == SliceCount(qty, perChild)
           d == qty \div n
           r == qty % n
           part(i) == d + IF i = n THEN r ELSE 0
           First_(k) == {Child(c, i, part(i)) : i \in 1..k}
           Size_(k) == k * d + IF k = n THEN r ELSE 0
           Fine(k) == Whole(First_(k)) /\ Quantity(First_(k)) <= Size_(k)
           Bad == {k \in 0..n : ~Fine(k)}
<1>1. n \in 1..MAX_CHILDREN
  BY CountOfChildren
<1>2. d \in Nat /\ r \in Nat /\ n * d + r = qty
  <2> HIDE DEF n
  <2> QED BY <1>1, Quotients
<1>3. PlanEntry(c, qty, perChild) = First_(n)
  BY DEF PlanEntry
<1> HIDE DEF n, d, r
<1>4. n \in Nat /\ n >= 1 /\ n <= 5
  BY <1>1 DEF MAX_CHILDREN
<1>5. ASSUME Bad # {} PROVE FALSE
  <2>1. PICK k \in Bad : \A j \in Bad : k <= j
    <3>1. Bad \subseteq Nat
      BY <1>4
    <3> HIDE DEF Bad
    <3> QED BY <1>5, <3>1, Smallest
  <2>2. k \in 0..n /\ ~Fine(k)
    BY <2>1
  <2>3. k # 0
    <3>1. First_(0) = {} /\ Size_(0) >= 0 /\ Whole({})
      BY <1>2, <1>4, FS_EmptySet DEF Whole
    <3> QED BY <2>2, <3>1, QuantityOfNone
  <2> DEFINE j == k - 1
             o == Child(c, k, part(k))
  <2>4. j \in 0..n /\ j < k /\ k \in 1..n /\ k \in Nat
    BY <1>4, <2>2, <2>3
  <2>5. Fine(j)
    <3>1. j \notin Bad
      BY <2>1, <2>4
    <3> QED BY <2>4, <3>1
  <2>6. First_(k) = First_(j) \cup {o} /\ o \notin First_(j)
    <3>1. 1..k = (1..j) \cup {k} /\ k \notin 1..j
      BY <2>4
    <3>2. \A i \in 1..j : Child(c, i, part(i)).id = <<c.setup, i>>
      BY ChildOf
    <3>3. o.id = <<c.setup, k>>
      BY ChildOf
    <3>4. o \notin First_(j)
      BY <3>1, <3>2, <3>3
    <3>5. First_(k) = First_(j) \cup {o}
      BY <3>1
    <3> QED BY <3>4, <3>5
  <2>7. o.qty = part(k) /\ part(k) \in Nat
    BY <1>2, ChildOf
  <2>8. Whole(First_(k))
    <3> HIDE DEF First_, o
    <3> QED BY <2>5, <2>6, <2>7, FS_AddElement DEF Whole
  <2>9. Quantity(First_(k)) = o.qty + Quantity(First_(j))
    <3> HIDE DEF First_, o
    <3>1. First_(k) \ {o} = First_(j) /\ o \in First_(k)
      BY <2>6
    <3> QED BY <2>8, <3>1, QuantityWithout
  <2>10. Size_(k) = part(k) + Size_(j)
    <3>1. j # n
      BY <2>4, <1>4
    <3>2. k * d = d + j * d
      BY <1>2, <2>4
    <3>3. j * d \in Int
      BY <1>2, <2>4
    <3> QED BY <1>2, <3>1, <3>2, <3>3
  <2>11. Quantity(First_(j)) \in Nat
    BY <2>5, QuantityType
  <2>12. Size_(j) \in Int
    BY <1>2, <2>4
  <2> HIDE DEF First_, Size_, part, o
  <2> QED BY <2>2, <2>5, <2>7, <2>8, <2>9, <2>10, <2>11, <2>12
<1>6. n \in 0..n /\ Size_(n) = qty
  BY <1>2, <1>4
<1>7. Fine(n)
  BY <1>5, <1>6
<1> HIDE DEF First_, Size_
<1> QED BY <1>3, <1>6, <1>7

-----------------------------------------------------------------------------
(* What the gate and the sizer grant a candidate                           *)

Valued(B) == IsFiniteSet(B) /\ \A p \in B : p.qty \in Int /\ p.price \in Nat

LEMMA BookFigures ==
  ASSUME NEW B, Valued(B)
  PROVE  Notional(B) \in Nat /\ \A s : PositionFor(B, s) \in Int
<1>1. Notional(B) \in Nat
  <2> DEFINE f == [p \in B |-> Worth(p)]
  <2>1. ASSUME NEW p \in B PROVE f[p] \in Nat
    <3>1. Absolute(p.qty) \in Nat /\ p.price \in Nat
      BY DEF Valued, Absolute
    <3> QED BY <3>1 DEF Worth
  <2>2. Notional(B) = SumFunctionOnSet(f, B)
    BY DEF Notional, SumFunction
  <2> HIDE DEF f
  <2>3. 0 \in Nat /\ \A i, j \in Nat : i + j \in Nat
    OBVIOUS
  <2> QED BY <2>1, <2>2, <2>3, SumStays DEF Valued
<1>2. ASSUME NEW s PROVE PositionFor(B, s) \in Int
  <2> DEFINE S == {p \in B : p.symbol = s}
             f == [p \in S |-> p.qty]
  <2>1. IsFiniteSet(S) /\ \A p \in S : f[p] \in Int
    BY FS_Subset DEF Valued
  <2>2. PositionFor(B, s) = SumFunctionOnSet(f, S)
    BY DEF PositionFor, SumFunction
  <2> HIDE DEF f
  <2>3. 0 \in Int /\ \A i, j \in Int : i + j \in Int
    OBVIOUS
  <2> QED BY <2>1, <2>2, <2>3, SumStays
<1> QED BY <1>1, <1>2

(* The ladder is on one of its rungs.                                      *)
LEMMA OnARung ==
  ASSUME NEW path, NEW limit
  PROVE  RungFor(path, limit) \in {RungStates[rung] : rung \in 0..4}
<1> DEFINE r == << Rule(path.drawdown <= -limit.haltDd, RungStates[4]),
                   Rule(\/ path.fiveDay <= -limit.derisk5d
                        \/ path.drawdown <= -limit.deriskDd, RungStates[3]),
                   Rule(path.day <= -limit.hard, RungStates[2]),
                   Rule(path.day <= -limit.soft, RungStates[1]),
                   Rule(TRUE, RungStates[0]) >>
<1>1. /\ DOMAIN r = 1..5 /\ r[5].when
      /\ \A k \in 1..5 : r[k].then \in {RungStates[rung] : rung \in 0..4}
  <2>1. /\ r[1].then = RungStates[4] /\ r[2].then = RungStates[3] /\ r[3].then = RungStates[2]
        /\ r[4].then = RungStates[1] /\ r[5].then = RungStates[0] /\ r[5].when
    BY DEF Rule
  <2>2. DOMAIN r = 1..5
    OBVIOUS
  <2> HIDE DEF r
  <2> QED BY <2>1, <2>2
<1>2. RungFor(path, limit) = Only(FirstOf(r))
  BY DEF RungFor
<1> HIDE DEF r
<1>3. Only(FirstOf(r)) \in FirstOf(r)
  <2>1. 5 \in Nat /\ 5 \in 1..5
    OBVIOUS
  <2> QED BY <1>1, <2>1, SomeRuleAnswers
<1>4. \A f \in FirstOf(r) : f \in {RungStates[rung] : rung \in 0..4}
  BY <1>1, FiredOnly
<1> QED BY <1>2, <1>3, <1>4

LEMMA ContextIsJudgeable ==
  ASSUME TypeOK, setting \in Settings, Valued(book), NEW c \in setting.offers
  PROVE  Judgeable(Context(c)) /\ Context(c).stage = "order"
<1> DEFINE x == Context(c)
<1>1. Usable(setting) /\ c.symbol \in Universe
  BY SettingAssumption, SessionAssumption
<1>2. x.stage = "order" /\ x.raises = {}
  BY DEF Context
<1>3. /\ x.req.sleeve = "intraday" /\ x.req.risk = setting.risk /\ x.req.price = c.price
      /\ x.req.stopGap = c.stopGap /\ x.req.planned = None
  BY DEF Context, Request
<1>4. /\ x.book.notional = Notional(book) /\ x.book.clusterHeld = ClusterNotional(book, c.cluster)
      /\ x.book.position = PositionFor(book, c.symbol)
      /\ x.book.count = [s \in Sleeves |-> Cardinality(OfSleeve(book, s))]
      /\ x.book.trades = trades[c.symbol] + setting.tradesBefore[c.symbol]
  BY DEF Context, Figures
<1>5. \A S \in SUBSET book : Valued(S) /\ Cardinality(S) \in Nat
  BY FS_Subset, FS_CardinalityType DEF Valued
<1>6. /\ Notional(book) \in Nat /\ ClusterNotional(book, c.cluster) \in Nat
      /\ PositionFor(book, c.symbol) \in Int /\ SleeveDeployed(book, "intraday") \in Nat
  BY <1>5, BookFigures DEF ClusterNotional, SleeveDeployed, OfSleeve
<1>7. x.book.count \in [Sleeves -> Nat]
  BY <1>4, <1>5 DEF OfSleeve
<1>8. x.book.trades \in Nat
  BY <1>1, <1>4 DEF TypeOK, Usable
<1>9. x.mandate.exposureCap \in Nat
  <2>1. x.mandate = [setting.mandate EXCEPT !.listed = c.symbol \in @]
    BY DEF Context
  <2> QED BY <1>1, <2>1 DEF Usable
<1>10. x.cfg = setting.cfg /\ x.ceiling = setting.ceiling /\ x.es = setting.es /\ x.vol = setting.vol
       /\ x.deployed = SleeveDeployed(book, "intraday") /\ x.positionsValue = None
       /\ x.market.advCap = setting.advCap
  BY DEF Context, Market
<1>11. x.ladder \in {RungStates[rung] : rung \in 0..4}
  BY OnARung DEF Context
<1>12. Conditions(x)
  <2>1. x.invalidations = <<>>
    BY DEF Context
  <2> QED BY <2>1 DEF Conditions
<1>13. c.price \in Nat /\ c.stopGap \in BOOLEAN /\ setting.risk \in Nat /\ setting.risk > 0
       /\ setting.risk % Quarters = 0
  BY <1>1 DEF Usable
<1> HIDE DEF x
<1>14. Judgeable(x)
  <2>1. /\ x.req.sleeve \in Sleeves /\ x.req.risk \in Nat /\ x.req.risk % Quarters = 0
        /\ x.req.price \in Nat /\ x.req.stopGap \in BOOLEAN /\ x.req.planned = None /\ x.req.risk > 0
    BY <1>3, <1>13 DEF Sleeves
  <2>2. /\ x.book.notional \in Nat /\ x.book.clusterHeld \in Nat /\ x.book.position \in Int
        /\ x.positionsValue \in Nat \cup {None} /\ x.deployed \in Nat
    BY <1>4, <1>6, <1>10
  <2>3. /\ x.ceiling \in Nat /\ x.cfg.leverageCap \in Nat /\ x.cfg.clusterCap \in Nat
        /\ x.cfg.esHouse \in Nat /\ x.cfg.esSleeve \in Nat /\ x.es.value \in Nat
        /\ x.cfg.nameCap \in [Sleeves -> Nat] /\ x.cfg.maxPositions \in [Sleeves -> Nat]
        /\ x.cfg.maxTrades \in Nat /\ x.market.advCap \in Nat \cup {None} /\ x.vol.scalar \in Int
    BY <1>1, <1>10 DEF Usable
  <2> QED BY <1>2, <1>7, <1>8, <1>9, <1>11, <1>12, <2>1, <2>2, <2>3 DEF Judgeable
<1> QED BY <1>2, <1>14 DEF x

LEMMA Product ==
  ASSUME NEW i \in Int, NEW j \in Int, i <= j, NEW p \in Nat
  PROVE  i * p \in Int /\ j * p \in Int /\ i * p <= j * p
<1>1. \A a, b \in Nat : a * b \in Nat
  OBVIOUS
<1>2. j - i \in Nat
  OBVIOUS
<1>3. (j - i) * p \in Nat
  BY <1>1, <1>2
<1>4. (j - i) * p = j * p - i * p
  OBVIOUS
<1> QED BY <1>3, <1>4

LEMMA Division ==
  ASSUME NEW x \in Int, NEW p \in Nat \ {0}
  PROVE  x \div p \in Int /\ (x \div p) * p <= x
<1>1. x \div p \in Int
  OBVIOUS
<1>2. x = p * (x \div p) + (x % p) /\ (x % p) \in 0..(p - 1)
  OBVIOUS
<1> QED BY <1>1, <1>2

(* The sizer answers a positive number of shares only past all its         *)
(* refusals.                                                               *)
LEMMA SizedFor ==
  ASSUME NEW req, NEW caps, NEW scalar, Size(req, caps, scalar).qty > 0
  PROVE  /\ Size(req, caps, scalar).qty = SharesFor(req, caps, scalar)
         /\ req.stopGap /\ ~(scalar <= 0) /\ ~(req.price <= 0) /\ ~(SharesFor(req, caps, scalar) < 1)
<1> DEFINE shares == SharesFor(req, caps, scalar)
           r == << Rule(~req.stopGap,    Sized(0, "no_stop_distance")),
                  Rule(~caps.validated, Sized(0, "unvalidated_setup")),
                  Rule(scalar <= 0,     Sized(0, "size_below_one_share")),
                  Rule(req.price <= 0,  Sized(0, "no_price")),
                  Rule(shares < 1,      Sized(0, "size_below_one_share")),
                  Rule(TRUE,            Sized(shares, "ok")) >>
<1>1. Size(req, caps, scalar) = Only(FirstOf(r))
  BY DEF Size
<1> HIDE DEF shares
<1>2. /\ DOMAIN r = 1..6 /\ r[6].when
      /\ \A k \in 1..5 : r[k].then.qty = 0
      /\ r[6].then.qty = shares
      /\ (r[1].when <=> ~req.stopGap) /\ (r[3].when <=> scalar <= 0)
      /\ (r[4].when <=> req.price <= 0) /\ (r[5].when <=> shares < 1)
  <2>1. /\ r[1].then.qty = 0 /\ r[2].then.qty = 0 /\ r[3].then.qty = 0 /\ r[4].then.qty = 0
        /\ r[5].then.qty = 0 /\ r[6].then.qty = shares
    BY DEF Rule, Sized
  <2>2. /\ (r[1].when <=> ~req.stopGap) /\ (r[3].when <=> scalar <= 0)
        /\ (r[4].when <=> req.price <= 0) /\ (r[5].when <=> shares < 1) /\ r[6].when
    BY DEF Rule
  <2>3. DOMAIN r = 1..6
    OBVIOUS
  <2> HIDE DEF r
  <2> QED BY <2>1, <2>2, <2>3
<1> HIDE DEF r
<1>3. PICK k \in DOMAIN r : Size(req, caps, scalar) = r[k].then /\ Answers(r, k)
  <2>1. Only(FirstOf(r)) \in FirstOf(r)
    <3>1. 6 \in Nat /\ 6 \in 1..6
      OBVIOUS
    <3> QED BY <1>2, <3>1, SomeRuleAnswers
  <2> QED BY <1>1, <2>1, FiredOnly
<1>4. k = 6
  BY <1>2, <1>3
<1>5. \A j \in 1..5 : ~r[j].when
  BY <1>3, <1>4 DEF Answers
<1>6. ~r[1].when /\ ~r[3].when /\ ~r[4].when /\ ~r[5].when
  BY <1>5
<1> QED BY <1>2, <1>3, <1>4, <1>6 DEF shares

LEMMA VolumeIsKnown ==
  ASSUME NEW c, c.stage = "order", Allowed(Evaluate(c))
  PROVE  c.market.advCap # None
<1>1. Check("liquidity", c) = Liquidity(c) /\ "liquidity" \in CheckNames
  BY Names DEF Check
<1>2. \A f \in Liquidity(c) : f.kind # "block"
  BY <1>1, NothingRaised, VerdictAllows
<1> SUFFICES ASSUME c.market.advCap = None PROVE FALSE
  OBVIOUS
<1>3. Liquidity(c) = {Block("liquidity", "no_price")} \/ Liquidity(c) = {Block("liquidity", "no_adv")}
  BY DEF Liquidity
<1> QED BY <1>2, <1>3, Blocks

(* What is sized at the risk granted is worth no more than that risk       *)
(* implies, and within the volume.                                         *)
LEMMA SharesFit ==
  ASSUME TypeOK, setting \in Settings, Valued(book), NEW c \in setting.offers,
         Allowed(Evaluate(Context(c))), Shares(c, Evaluate(Context(c))) > 0
  PROVE  LET m   == Granted(Request(c), Evaluate(Context(c)))
             qty == Shares(c, Evaluate(Context(c)))
         IN /\ qty \in Nat \ {0} /\ setting.advCap \in Nat /\ qty <= setting.advCap
            /\ m \in Nat /\ qty * c.price <= m /\ Sloped(Request(c)) /\ c.price \in Nat
<1> DEFINE x == Context(c)
           m == Granted(Request(c), Evaluate(x))
           req == [Request(c) EXCEPT !.risk = m]
           caps == [sleeveRisk |-> setting.risk, heat |-> setting.heat, kelly |-> setting.kelly,
                    shares |-> setting.advCap, validated |-> TRUE,
                    room |-> RoomUsd(setting.ceiling, SleeveDeployed(book, "intraday"))]
           qty == Shares(c, Evaluate(x))
<1>1. Judgeable(x) /\ x.stage = "order"
  BY ContextIsJudgeable
<1>2. x.req = Request(c) /\ x.market.advCap = setting.advCap
  BY DEF Context, Market
<1>3. Usable(setting)
  BY SettingAssumption
<1>4. setting.advCap \in Nat
  BY <1>1, <1>2, <1>3, VolumeIsKnown DEF Usable
<1>5. m \in 1..setting.risk /\ m \in Nat
  <2>1. m \in 1..x.req.risk
    BY <1>1, <1>2, SettingAssumption, GrantLeaves
  <2>2. x.req.risk = setting.risk
    BY <1>2 DEF Request
  <2> QED BY <2>1, <2>2, <1>3 DEF Usable
<1>6. qty = Size(req, caps, Quarters).qty
  BY DEF Shares
<1>7. req.price = c.price /\ req.stopGap = c.stopGap /\ req.risk = m
  BY DEF Request
<1>8. c.price \in Nat /\ c.stopGap \in BOOLEAN
  BY <1>3 DEF Usable
<1>9. RoomUsd(setting.ceiling, SleeveDeployed(book, "intraday")) \in Nat
  <2>1. \A S \in SUBSET book : Valued(S)
    BY FS_Subset DEF Valued
  <2>2. SleeveDeployed(book, "intraday") \in Nat
    BY <2>1, BookFigures DEF SleeveDeployed, OfSleeve
  <2> QED BY <1>3, <2>2 DEF RoomUsd, Above0, Usable
<1>10. /\ caps.sleeveRisk \in Int /\ caps.heat \in Int /\ caps.kelly \in Int
       /\ caps.shares = setting.advCap /\ caps.room \in Nat
  BY <1>3, <1>9 DEF Usable
<1>11. qty > 0
  OBVIOUS
<1> HIDE DEF m, x, req, caps, qty
<1>12. /\ qty = SharesFor(req, caps, Quarters) /\ req.stopGap /\ ~(req.price <= 0)
       /\ ~(SharesFor(req, caps, Quarters) < 1)
  BY <1>6, <1>11, SizedFor
<1>13. c.price \in Nat \ {0} /\ c.stopGap
  BY <1>7, <1>8, <1>12
<1> DEFINE money == RiskUsed(req, caps, Quarters)
<1>14. money \in Int /\ money <= m
  <2> DEFINE budget == Least(req.risk, Least(caps.sleeveRisk, caps.heat))
  <2>1. budget \in Int /\ budget <= m
    BY <1>5, <1>7, <1>10 DEF Least
  <2>2. money = Least(Above0(budget * Quarters) \div Quarters, caps.kelly)
    BY DEF RiskUsed
  <2> HIDE DEF money, budget
  <2>3. Above0(budget * 4) \div 4 \in Int /\ Above0(budget * 4) \div 4 <= m
    BY <1>5, <2>1 DEF Above0
  <2> DEFINE cut == Above0(budget * 4) \div 4
  <2>4. money = Least(cut, caps.kelly)
    BY <2>2 DEF Quarters
  <2>5. cut \in Int /\ cut <= m
    BY <2>3
  <2> HIDE DEF cut
  <2> QED BY <1>5, <1>10, <2>4, <2>5 DEF Least
<1>15. /\ SharesWorth(money, c.price) = money \div c.price /\ money \div c.price \in Int
       /\ SharesWorth(caps.room, c.price) \in Int
  <2> HIDE DEF money
  <2> QED BY <1>10, <1>13, <1>14, Division DEF SharesWorth
<1>16. qty = Least(SharesWorth(money, c.price), Least(caps.shares, SharesWorth(caps.room, c.price)))
  BY <1>7, <1>12 DEF SharesFor
<1> HIDE DEF money
<1>17. qty \in Int /\ qty <= money \div c.price /\ qty <= setting.advCap
  BY <1>4, <1>10, <1>15, <1>16 DEF Least
<1>18. qty * c.price <= money
  <2>1. qty * c.price <= (money \div c.price) * c.price /\ qty * c.price \in Int
    BY <1>13, <1>15, <1>17, Product
  <2>2. (money \div c.price) * c.price <= money /\ (money \div c.price) * c.price \in Int
    BY <1>13, <1>14, Division
  <2> QED BY <1>14, <2>1, <2>2
<1>19. qty * c.price <= m
  <2>1. qty * c.price \in Int
    BY <1>13, <1>17
  <2> QED BY <1>5, <1>14, <1>18, <2>1
<1>20. Sloped(Request(c))
  BY <1>13 DEF Sloped, Request
<1> QED BY <1>4, <1>5, <1>11, <1>13, <1>17, <1>19, <1>20 DEF m, x, qty

(* n shares more of the name of order o, at its price, fit the book.       *)
Room(o, n) ==
  /\ SleeveDeployed(book, "intraday") + n * o.price <= setting.ceiling
  /\ Notional(book) + n * o.price <= setting.mandate.exposureCap
  /\ ClusterNotional(book, o.cluster) + n * o.price <= setting.cfg.clusterCap
  /\ Absolute(PositionFor(book, o.symbol)) * o.price + n * o.price
       <= setting.cfg.nameCap["intraday"]
  /\ n <= setting.advCap

LEMMA BookIsNatural ==
  ASSUME Valued(book), NEW cluster, NEW symbol, NEW price \in Nat
  PROVE  /\ SleeveDeployed(book, "intraday") \in Nat /\ Notional(book) \in Nat
         /\ ClusterNotional(book, cluster) \in Nat
         /\ Absolute(PositionFor(book, symbol)) * price \in Nat
<1>1. \A S \in SUBSET book : Valued(S)
  BY FS_Subset DEF Valued
<1>2. /\ SleeveDeployed(book, "intraday") \in Nat /\ Notional(book) \in Nat
      /\ ClusterNotional(book, cluster) \in Nat /\ PositionFor(book, symbol) \in Int
  BY <1>1, BookFigures DEF ClusterNotional, SleeveDeployed, OfSleeve
<1>3. Absolute(PositionFor(book, symbol)) \in Nat
  <2> DEFINE q == PositionFor(book, symbol)
  <2>1. q \in Int
    BY <1>2
  <2> HIDE DEF q
  <2>2. Absolute(q) \in Nat
    BY <2>1 DEF Absolute
  <2> QED BY <2>2 DEF q
<1>4. \A i, j \in Nat : i * j \in Nat
  OBVIOUS
<1> QED BY <1>2, <1>3, <1>4

LEMMA LimitsAreNumbers ==
  ASSUME setting \in Settings
  PROVE  /\ setting.ceiling \in Nat /\ setting.mandate.exposureCap \in Nat
         /\ setting.cfg.clusterCap \in Nat /\ setting.cfg.nameCap["intraday"] \in Nat
         /\ setting.mandate.maxDailyTrades \in Nat /\ setting.cfg.maxTrades \in Nat
         /\ setting.tradesBefore \in [Universe -> Nat]
BY SettingAssumption DEF Usable, Sleeves

LEMMA LessFits ==
  ASSUME Valued(book), setting \in Settings, setting.advCap \in Nat,
         NEW o, o.price \in Nat, NEW n \in Nat, Room(o, n), NEW k \in Nat, k <= n
  PROVE  Room(o, k)
<1>1. k * o.price \in Int /\ n * o.price \in Int /\ k * o.price <= n * o.price
  BY Product
<1>2. /\ SleeveDeployed(book, "intraday") \in Nat /\ Notional(book) \in Nat
      /\ ClusterNotional(book, o.cluster) \in Nat
      /\ Absolute(PositionFor(book, o.symbol)) * o.price \in Nat
  BY BookIsNatural
<1>3. \A i, j, l, m \in Int : i + l <= m /\ j <= l => i + j <= m
  OBVIOUS
<1>4. /\ setting.ceiling \in Int /\ setting.mandate.exposureCap \in Int
      /\ setting.cfg.clusterCap \in Int /\ setting.cfg.nameCap["intraday"] \in Int
  BY LimitsAreNumbers
<1>5. /\ SleeveDeployed(book, "intraday") + k * o.price <= setting.ceiling
      /\ Notional(book) + k * o.price <= setting.mandate.exposureCap
  BY <1>1, <1>2, <1>3, <1>4 DEF Room
<1>6. ClusterNotional(book, o.cluster) + k * o.price <= setting.cfg.clusterCap
  BY <1>1, <1>2, <1>3, <1>4 DEF Room
<1>7. Absolute(PositionFor(book, o.symbol)) * o.price + k * o.price <= setting.cfg.nameCap["intraday"]
  BY <1>1, <1>2, <1>3, <1>4 DEF Room
<1>8. k <= setting.advCap
  BY DEF Room
<1> QED BY <1>5, <1>6, <1>7, <1>8 DEF Room

(* What the gate grants has room in the book the engine works on.          *)
LEMMA GrantHasRoom ==
  ASSUME TypeOK, setting \in Settings, Valued(book), NEW c \in setting.offers,
         Allowed(Evaluate(Context(c))), Shares(c, Evaluate(Context(c))) > 0,
         NEW o, o.symbol = c.symbol, o.price = c.price, o.cluster = c.cluster
  PROVE  Room(o, Shares(c, Evaluate(Context(c))))
<1> DEFINE x == Context(c)
           m == Granted(Request(c), Evaluate(x))
           qty == Shares(c, Evaluate(x))
<1>1. /\ qty \in Nat \ {0} /\ setting.advCap \in Nat /\ qty <= setting.advCap
      /\ m \in Nat /\ qty * c.price <= m /\ Sloped(Request(c)) /\ c.price \in Nat
  BY SharesFit
<1>2. Judgeable(x) /\ x.stage = "order" /\ x.req = Request(c)
  BY ContextIsJudgeable DEF Context
<1>3. Fits(x, m)
  <2>1. GrantedNotional(x, Evaluate(x)) = m
    BY <1>1, <1>2 DEF GrantedNotional
  <2> QED BY <1>2, <2>1, SettingAssumption, GrantKeepsLimits
<1>4. /\ x.ceiling = setting.ceiling /\ x.deployed = SleeveDeployed(book, "intraday")
      /\ HeldNotional(x) = Notional(book) /\ x.cfg = setting.cfg
      /\ x.book.clusterHeld = ClusterNotional(book, c.cluster)
      /\ NameHeld(x) = Absolute(PositionFor(book, c.symbol)) * Absolute(c.price)
      /\ NameCap(x) = setting.cfg.nameCap["intraday"]
  BY DEF Context, Request, Figures, HeldNotional, NameHeld, NameCap
<1>5. x.mandate.exposureCap = setting.mandate.exposureCap
  <2>1. x.mandate = [setting.mandate EXCEPT !.listed = c.symbol \in @]
    BY DEF Context
  <2> QED BY <2>1, SettingAssumption DEF Usable
<1>6. Absolute(c.price) = c.price
  BY <1>1 DEF Absolute
<1> HIDE DEF x, m, qty
<1>7. /\ SleeveDeployed(book, "intraday") + m <= setting.ceiling
      /\ Notional(book) + m <= setting.mandate.exposureCap
      /\ ClusterNotional(book, o.cluster) + m <= setting.cfg.clusterCap
      /\ Absolute(PositionFor(book, o.symbol)) * o.price + m <= setting.cfg.nameCap["intraday"]
  <2>1. m <= setting.ceiling - SleeveDeployed(book, "intraday")
    BY <1>3, <1>4 DEF Fits
  <2>2. /\ SleeveDeployed(book, "intraday") \in Nat /\ setting.ceiling \in Nat
    BY <1>1, BookIsNatural, LimitsAreNumbers
  <2>3. SleeveDeployed(book, "intraday") + m <= setting.ceiling
    BY <1>1, <2>1, <2>2
  <2> QED BY <1>3, <1>4, <1>5, <1>6, <2>3 DEF Fits
<1>8. qty * o.price \in Int /\ qty * o.price <= m
  BY <1>1
<1>9. /\ SleeveDeployed(book, "intraday") \in Nat /\ Notional(book) \in Nat
      /\ ClusterNotional(book, o.cluster) \in Nat
      /\ Absolute(PositionFor(book, o.symbol)) * o.price \in Nat
  BY <1>1, BookIsNatural
<1>10. \A i, j, l, n \in Int : i + l <= n /\ j <= l => i + j <= n
  OBVIOUS
<1>11. /\ setting.ceiling \in Int /\ setting.mandate.exposureCap \in Int
       /\ setting.cfg.clusterCap \in Int /\ setting.cfg.nameCap["intraday"] \in Int /\ m \in Int
  BY <1>1, LimitsAreNumbers
<1>12. Room(o, qty)
  <2>1. SleeveDeployed(book, "intraday") + qty * o.price <= setting.ceiling
    BY <1>7, <1>8, <1>9, <1>10, <1>11
  <2>2. Notional(book) + qty * o.price <= setting.mandate.exposureCap
    BY <1>7, <1>8, <1>9, <1>10, <1>11
  <2>3. ClusterNotional(book, o.cluster) + qty * o.price <= setting.cfg.clusterCap
    BY <1>7, <1>8, <1>9, <1>10, <1>11
  <2>4. Absolute(PositionFor(book, o.symbol)) * o.price + qty * o.price
          <= setting.cfg.nameCap["intraday"]
    BY <1>7, <1>8, <1>9, <1>10, <1>11
  <2> QED BY <1>1, <2>1, <2>2, <2>3, <2>4 DEF Room
<1> QED BY <1>12 DEF x, qty

(* Nor does the gate let through a trade too many, of the day or of a name.*)
LEMMA GrantIsCounted ==
  ASSUME TypeOK, setting \in Settings, Valued(book), NEW c \in setting.offers,
         Allowed(Evaluate(Context(c))), Shares(c, Evaluate(Context(c))) > 0,
         NEW o, o.symbol = c.symbol, o.price = c.price
  PROVE  /\ setting.mandate.maxDailyTrades > 0 => ~(SleeveTrades >= setting.mandate.maxDailyTrades)
         /\ setting.cfg.maxTrades > 0 =>
              \/ setting.tradesBefore[c.symbol] + trades[c.symbol] < setting.cfg.maxTrades
              \/ NameCapBinds(o)
<1> DEFINE x == Context(c)
<1>1. Judgeable(x) /\ x.stage = "order" /\ x.req = Request(c)
  BY ContextIsJudgeable DEF Context
<1>2. setting.mandate.maxDailyTrades > 0 => ~(SleeveTrades >= setting.mandate.maxDailyTrades)
  <2> DEFINE r ==
       << Rule(~x.mandate.listed /\ ~ReducesAHeldName(x), Block("mandate", "symbol")),
          Rule(x.mandate.expired,                         Block("mandate", "expired")),
          Rule(x.req.opensShort /\ ~x.mandate.shorts,     Block("mandate", "shorts")),
          Rule(x.mandate.maxDailyTrades > 0 /\ x.book.sleeveTrades >= x.mandate.maxDailyTrades,
                                                  Block("mandate", "daily_cap")),
          Rule(x.book.cash < x.mandate.reserve,           Block("mandate", "cash_reserve")),
          Rule(~x.market.tradable,                Block("mandate", "not_tradable")) >>
  <2>1. MandateTerms(x) = FirstOf(r)
    BY DEF MandateTerms
  <2>2. x.mandate.maxDailyTrades = setting.mandate.maxDailyTrades
    <3>1. x.mandate = [setting.mandate EXCEPT !.listed = c.symbol \in @]
      BY DEF Context
    <3> QED BY <3>1, SettingAssumption DEF Usable
  <2>3. x.book.sleeveTrades = SleeveTrades
    BY DEF Context, Figures
  <2> HIDE DEF x
  <2>4. /\ DOMAIN r = 1..6
        /\ r[4].when <=> x.mandate.maxDailyTrades > 0 /\ x.book.sleeveTrades >= x.mandate.maxDailyTrades
    <3>1. DOMAIN r = 1..6
      OBVIOUS
    <3>2. r[4].when <=> x.mandate.maxDailyTrades > 0 /\ x.book.sleeveTrades >= x.mandate.maxDailyTrades
      BY DEF Rule
    <3> QED BY <3>1, <3>2
  <2>5. MandateTerms(x) = {}
    <3>1. "mandate" \in CheckNames /\ Check("mandate", x) = Mandate(x)
      BY Names DEF Check
    <3>2. \A f \in Mandate(x) : f.kind # "block"
      BY <3>1, NothingRaised, VerdictAllows DEF x
    <3> QED BY <3>2, TermsBlock DEF Mandate, OrElse
  <2> HIDE DEF r
  <2>6. ~r[4].when
    <3> SUFFICES ASSUME r[4].when PROVE FALSE
      OBVIOUS
    <3>1. 6 \in Nat /\ 4 \in 1..6
      OBVIOUS
    <3>2. Only(FirstOf(r)) \in FirstOf(r)
      BY <2>4, <3>1, SomeRuleAnswers
    <3> QED BY <2>1, <2>5, <3>2
  <2> QED BY <2>2, <2>3, <2>4, <2>6
<1>3. setting.cfg.maxTrades > 0 =>
              \/ setting.tradesBefore[c.symbol] + trades[c.symbol] < setting.cfg.maxTrades
              \/ NameCapBinds(o)
  <2>1. RoomForOneMore(x) \/ OverName(x)
    BY <1>1, SettingAssumption, GrantKeepsLimits DEF Fits
  <2>2. /\ x.book.trades = trades[c.symbol] + setting.tradesBefore[c.symbol] /\ x.cfg = setting.cfg
        /\ x.req.sleeve = "intraday"
    BY DEF Context, Figures, Request
  <2>3. trades[c.symbol] \in Nat /\ setting.tradesBefore[c.symbol] \in Nat
    BY SettingAssumption, SessionAssumption DEF TypeOK, Usable
  <2>4. OverName(x) => NameCapBinds(o)
    <3>1. Sloped(Request(c)) /\ c.price \in Nat
      BY SharesFit
    <3>2. NameHeld(x) = Absolute(PositionFor(book, c.symbol)) * c.price
      BY <3>1 DEF NameHeld, Context, Figures, Request, Absolute
    <3>3. Projected(x.req) = setting.risk
      BY <1>1, <3>1 DEF Projected, Request
    <3>4. NameCap(x) = setting.cfg.nameCap["intraday"]
      BY <2>2 DEF NameCap
    <3> QED BY <3>2, <3>3, <3>4 DEF OverName, NameCapBinds
  <2> HIDE DEF x
  <2>5. RoomForOneMore(x) /\ setting.cfg.maxTrades > 0 =>
          setting.tradesBefore[c.symbol] + trades[c.symbol] < setting.cfg.maxTrades
    BY <2>2, <2>3 DEF RoomForOneMore
  <2> QED BY <2>1, <2>4, <2>5
<1> QED BY <1>2, <1>3

-----------------------------------------------------------------------------
(* Entries fit, and trades are counted: the invariant and its steps        *)

(* What has been entered, by any engine, and what this engine sent or is   *)
(* about to send.                                                          *)
Opened == {o \in orders : o.kind = "entry"}
Sent   == Entries \cup children

Alongside(S, r, s) == {o \in S : o.run = r /\ o.symbol = s}

IsEntry(o) == o.qty \in Nat /\ o.price \in Nat

Orderly ==
  /\ IsFiniteSet(Opened) /\ IsFiniteSet(children) /\ Valued(book)
  /\ \A o \in Opened : /\ IsEntry(o) /\ o.told \in BOOLEAN
                       /\ o.engine \in Nat /\ o.engine <= engines
                       /\ o.run \in Nat /\ o.run <= runs
  /\ \A o \in children : IsEntry(o) /\ o.told = None /\ o.engine = engines /\ o.run = runs
  /\ pc # "candidates" => children = {}

(* A symbol yet to be judged has no order of this run.                     *)
Fresh ==
  /\ \A c, d \in todo : c.symbol = d.symbol => c = d
  /\ \A c \in todo : Alongside(Sent, runs, c.symbol) = {}

(* All that one candidate sends, children on their way included, has room. *)
Fitting(S) ==
  \A o \in S : setting.advCap \in Nat /\ Room(o, Quantity(Alongside(S, o.run, o.symbol)))

ToldIn(E)       == {o \in E : o.told}
ToldOf(E, s)    == {o \in E : o.told /\ o.symbol = s}

(* The engine's count is the broker's, and one trade more is within the    *)
(* caps while a child is on its way.                                       *)
Counted(E, C) ==
  /\ \A s \in Universe : trades[s] = Cardinality(ToldOf(E, s))
  /\ SumFunction(trades) = Cardinality(ToldIn(E))
  /\ setting.mandate.maxDailyTrades > 0 =>
       /\ Cardinality(ToldIn(E)) <= setting.mandate.maxDailyTrades
       /\ C # {} => Cardinality(ToldIn(E)) < setting.mandate.maxDailyTrades
  /\ setting.cfg.maxTrades > 0 =>
       /\ \A s \in Universe : \/ ToldOf(E, s) = {}
                              \/ setting.tradesBefore[s] + trades[s] <= setting.cfg.maxTrades
                              \/ \E o \in ToldOf(E, s) : NameCapBinds(o)
       /\ \A o \in C : \/ setting.tradesBefore[o.symbol] + trades[o.symbol] < setting.cfg.maxTrades
                       \/ NameCapBinds(o)

Limited == Orderly /\ Fresh /\ Fitting(Sent) /\ Counted(Entries, children)

LEMMA EntriesOpened == Entries = {o \in Opened : o.engine = engines}
BY DEF Entries, Opened

LEMMA SentIsWhole ==
  ASSUME Orderly
  PROVE  Whole(Sent) /\ IsFiniteSet(Entries) /\ \A o \in Sent : o.price \in Nat
<1>1. IsFiniteSet(Entries) /\ \A o \in Entries : IsEntry(o)
  BY EntriesOpened, FS_Subset DEF Orderly
<1> QED BY <1>1, FS_Union DEF Orderly, Sent, Whole, IsEntry

(* Fewer orders of the same kinds fit as well.                             *)
LEMMA FewerFit ==
  ASSUME setting \in Settings, Orderly, Fresh, Fitting(Sent),
         NEW T, NEW h \in Injection(T, Sent),
         \A o \in T : /\ h[o].run = o.run /\ h[o].symbol = o.symbol /\ h[o].qty = o.qty
                      /\ h[o].price = o.price /\ h[o].cluster = o.cluster
  PROVE  Fitting(T) /\ \A c \in todo : Alongside(T, runs, c.symbol) = {}
<1>1. /\ \A o \in T : h[o] \in Sent
      /\ \A o, e \in T : h[o] = h[e] => o = e
  BY DEF Injection, IsInjective
<1>2. ASSUME NEW o \in T
      PROVE  setting.advCap \in Nat /\ Room(o, Quantity(Alongside(T, o.run, o.symbol)))
  <2> DEFINE A == Alongside(T, o.run, o.symbol)
             B == Alongside(Sent, o.run, o.symbol)
             g == [e \in A |-> h[e]]
  <2>1. setting.advCap \in Nat /\ Room(h[o], Quantity(B))
    BY <1>1 DEF Fitting
  <2>2. Room(o, Quantity(B))
    <3>1. h[o].price = o.price /\ h[o].cluster = o.cluster /\ h[o].symbol = o.symbol
      OBVIOUS
    <3> HIDE DEF B
    <3> QED BY <2>1, <3>1 DEF Room
  <2>3. Whole(B)
    BY SentIsWhole, FS_Subset DEF Alongside, Whole
  <2>4. g \in Injection(A, B)
    <3>1. \A e \in A : g[e] \in B
      BY <1>1 DEF Alongside
    <3>2. \A e, f \in A : g[e] = g[f] => e = f
      BY <1>1 DEF Alongside
    <3>3. g \in [A -> B]
      BY <3>1
    <3> HIDE DEF g
    <3> QED BY <3>2, <3>3 DEF Injection, IsInjective
  <2>5. \A e \in A : g[e].qty = e.qty
    BY DEF Alongside
  <2> HIDE DEF A, B, g
  <2>6. Whole(A) /\ Quantity(A) <= Quantity(B)
    BY <2>3, <2>4, <2>5, QuantityInto
  <2>7. Quantity(A) \in Nat /\ Quantity(B) \in Nat
    BY <2>3, <2>6, QuantityType
  <2>8. o.price \in Nat
    BY <1>1, SentIsWhole
  <2>9. Room(o, Quantity(A))
    BY <2>1, <2>2, <2>6, <2>7, <2>8, LessFits DEF Orderly
  <2> QED BY <2>1, <2>9 DEF A
<1>3. ASSUME NEW c \in todo, NEW o \in Alongside(T, runs, c.symbol) PROVE FALSE
  <2>1. h[o] \in Alongside(Sent, runs, c.symbol)
    BY <1>1, <1>3 DEF Alongside
  <2> QED BY <2>1 DEF Fresh
<1>4. Fitting(T)
  BY <1>2 DEF Fitting
<1> QED BY <1>3, <1>4

(* Orders that differ in what is left of them count the same.              *)
LEMMA SameCount ==
  ASSUME NEW S, IsFiniteSet(S), NEW T, NEW C, NEW D, D \subseteq C, Counted(S, C),
         NEW h \in Bijection(T, S),
         \A o \in T : h[o].told = o.told /\ h[o].symbol = o.symbol /\ h[o].price = o.price
  PROVE  Counted(T, D)
<1>1. /\ \A o \in T : h[o] \in S
      /\ \A o, e \in T : h[o] = h[e] => o = e
      /\ \A e \in S : \E o \in T : h[o] = e
  BY DEF Bijection, Injection, Surjection, IsInjective
<1>2. ASSUME NEW A, NEW B, B \subseteq S, A \subseteq T, \A o \in T : o \in A <=> h[o] \in B
      PROVE  Cardinality(A) = Cardinality(B)
  <2> DEFINE g == [o \in A |-> h[o]]
  <2>1. g \in Bijection(A, B)
    <3>1. \A o \in A : g[o] \in B
      BY <1>2
    <3>2. \A e, f \in A : g[e] = g[f] => e = f
      BY <1>1, <1>2
    <3>3. \A e \in B : \E o \in A : g[o] = e
      BY <1>1, <1>2
    <3>4. g \in [A -> B]
      BY <3>1
    <3> HIDE DEF g
    <3> QED BY <3>2, <3>3, <3>4 DEF Bijection, Injection, Surjection, IsInjective
  <2>2. IsFiniteSet(B)
    BY <1>2, FS_Subset
  <2> HIDE DEF g
  <2>3. g \in Surjection(A, B) /\ g \in Injection(A, B)
    BY <2>1 DEF Bijection
  <2>4. IsFiniteSet(A)
    BY <2>2, <2>3, FS_Injection
  <2> QED BY <2>2, <2>3, <2>4, FS_Injection
<1>3. Cardinality(ToldIn(T)) = Cardinality(ToldIn(S))
  BY <1>1, <1>2 DEF ToldIn
<1>4. ASSUME NEW s
      PROVE  /\ Cardinality(ToldOf(T, s)) = Cardinality(ToldOf(S, s))
             /\ ToldOf(S, s) = {} => ToldOf(T, s) = {}
  BY <1>1, <1>2 DEF ToldOf
<1>5. ASSUME NEW s, NEW e \in ToldOf(S, s), NameCapBinds(e)
      PROVE  \E o \in ToldOf(T, s) : NameCapBinds(o)
  <2>1. PICK o \in T : h[o] = e
    BY <1>1, <1>5 DEF ToldOf
  <2>2. o \in ToldOf(T, s) /\ o.symbol = e.symbol /\ o.price = e.price
    BY <1>5, <2>1 DEF ToldOf
  <2>3. NameCapBinds(o)
    BY <1>5, <2>2 DEF NameCapBinds
  <2> QED BY <2>2, <2>3
<1> QED BY <1>3, <1>4, <1>5 DEF Counted

Alike(e, o) ==
  /\ e.id = o.id /\ e.symbol = o.symbol /\ e.qty = o.qty /\ e.told = o.told /\ e.engine = o.engine
  /\ e.run = o.run /\ e.price = o.price /\ e.cluster = o.cluster

LEMMA FitsThen ==
  ASSUME UNCHANGED <<setting, book>>, Fitting(Sent')
  PROVE  Fitting(Sent)'
BY DEF Fitting, Room

LEMMA CountsThen ==
  ASSUME UNCHANGED <<setting, book, trades>>, Counted(Entries', children')
  PROVE  Counted(Entries, children)'
BY DEF Counted, NameCapBinds

LEMMA StandingLimits ==
  ASSUME IInv, IInv', Limited, UNCHANGED <<setting, book, trades, todo, children, engines, runs>>,
         pc' # "candidates" => children = {},
         \A e \in Opened' : \E o \in Opened : Alike(e, o),
         \A o \in Opened : \E e \in Opened' : Alike(e, o)
  PROVE  Limited'
<1> DEFINE h == [e \in Opened' |-> CHOOSE o \in Opened : Alike(e, o)]
<1>1. \A e \in Opened' : h[e] \in Opened /\ Alike(e, h[e])
  OBVIOUS
<1> HIDE DEF h
<1>2. /\ \A e, f \in Opened' : e.id = f.id => e = f
      /\ \A o, p \in Opened : o.id = p.id => o = p
  BY DEF IInv, OneOfAnId, Opened
<1>3. \A e, f \in Opened' : h[e] = h[f] => e = f
  BY <1>1, <1>2 DEF Alike
<1>4. \A o \in Opened : \E e \in Opened' : h[e] = o
  BY <1>1, <1>2 DEF Alike
<1>5. Orderly /\ Fresh /\ Fitting(Sent) /\ Counted(Entries, children)
  BY DEF Limited
<1>6. Orderly'
  <2>1. IsFiniteSet(Opened')
    <3> DEFINE g == [e \in Opened' |-> h[e]]
    <3>1. g \in [Opened' -> Opened]
      BY <1>1
    <3>2. \A e, f \in Opened' : g[e] = g[f] => e = f
      BY <1>3
    <3> HIDE DEF g
    <3>3. g \in Injection(Opened', Opened)
      BY <3>1, <3>2 DEF Injection, IsInjective
    <3> QED BY <1>5, <3>3, FS_Injection DEF Orderly
  <2>2. \A e \in Opened' : /\ IsEntry(e) /\ e.told \in BOOLEAN
                           /\ e.engine \in Nat /\ e.engine <= engines
                           /\ e.run \in Nat /\ e.run <= runs
    BY <1>1, <1>5 DEF Orderly, Alike, IsEntry
  <2> QED BY <1>5, <2>1, <2>2 DEF Orderly, Valued, IsEntry
<1>7. /\ Entries = {o \in Opened : o.engine = engines}
      /\ Entries' = {o \in Opened' : o.engine = engines}
  BY EntriesOpened DEF Entries, Opened
<1>8. \A e \in Opened' : e \in Entries' <=> h[e] \in Entries
  BY <1>1, <1>7 DEF Alike
<1>9. Counted(Entries, children)'
  <2> DEFINE g == [e \in Entries' |-> h[e]]
  <2>1. g \in [Entries' -> Entries]
    BY <1>7, <1>8
  <2>2. \A e, f \in Entries' : g[e] = g[f] => e = f
    BY <1>3, <1>7
  <2>3. \A o \in Entries : \E e \in Entries' : g[e] = o
    BY <1>4, <1>7, <1>8
  <2>4. \A e \in Entries' : g[e].told = e.told /\ g[e].symbol = e.symbol /\ g[e].price = e.price
    BY <1>1, <1>7 DEF Alike
  <2> HIDE DEF g
  <2>5. g \in Bijection(Entries', Entries)
    BY <2>1, <2>2, <2>3 DEF Bijection, Injection, Surjection, IsInjective
  <2>6. Counted(Entries', children)
    BY <1>5, <2>4, <2>5, SentIsWhole, SameCount
  <2> QED BY <2>6, CountsThen
<1>10. Sent' = Entries' \cup children /\ Sent = Entries \cup children
  BY DEF Sent
<1>11. Fitting(Sent') /\ \A c \in todo : Alongside(Sent', runs, c.symbol) = {}
  <2> DEFINE g == [e \in Sent' |-> IF e \in Entries' THEN h[e] ELSE e]
  <2>1. g \in [Sent' -> Sent]
    BY <1>7, <1>8, <1>10
  <2>2. \A o \in Entries : o \notin children
    BY <1>5, <1>7, SessionAssumption DEF Orderly
  <2>3. \A e, f \in Sent' : g[e] = g[f] => e = f
    BY <1>3, <1>7, <1>8, <1>10, <2>2
  <2>4. \A e \in Sent' : /\ g[e].run = e.run /\ g[e].symbol = e.symbol /\ g[e].qty = e.qty
                         /\ g[e].price = e.price /\ g[e].cluster = e.cluster
    BY <1>1, <1>7 DEF Alike
  <2> HIDE DEF g
  <2>5. g \in Injection(Sent', Sent)
    BY <2>1, <2>3 DEF Injection, IsInjective
  <2>6. setting \in Settings
    BY DEF IInv, Typed
  <2> QED BY <1>5, <2>4, <2>5, <2>6, FewerFit
<1>12. Fitting(Sent)'
  BY <1>11, FitsThen
<1>13. Fresh'
  BY <1>5, <1>11 DEF Fresh, Alongside
<1> QED BY <1>6, <1>9, <1>12, <1>13 DEF Limited

LEMMA AlikeItself == \A o : Alike(o, o)
BY DEF Alike

LEMMA NothingSent ==
  ASSUME setting \in Settings, Entries = {}, children = {}, trades = Idle
  PROVE  Fitting(Sent) /\ Counted(Entries, children)
<1>1. ToldIn(Entries) = {} /\ \A s : ToldOf(Entries, s) = {}
  BY DEF ToldIn, ToldOf
<1>2. Cardinality(ToldIn(Entries)) = 0 /\ \A s : Cardinality(ToldOf(Entries, s)) = 0
  BY <1>1, FS_EmptySet
<1>3. SumFunction(trades) = 0
  <2>1. DOMAIN trades = Universe /\ \A s \in Universe : trades[s] = 0
    BY DEF Idle
  <2>2. SumFunctionOnSet(trades, Universe) \in {0}
    <3>1. 0 \in {0} /\ \A i, j \in {0} : i + j \in {0}
      OBVIOUS
    <3> QED BY <2>1, <3>1, SettingAssumption, SumStays
  <2> QED BY <2>1, <2>2 DEF SumFunction
<1>4. \A s \in Universe : trades[s] = 0
  BY DEF Idle
<1>5. Counted(Entries, children)
  <2>1. setting.mandate.maxDailyTrades > 0 => 0 <= setting.mandate.maxDailyTrades
    BY LimitsAreNumbers
  <2> QED BY <1>1, <1>2, <1>3, <1>4, <2>1 DEF Counted
<1>6. Fitting(Sent)
  BY DEF Fitting, Sent
<1> QED BY <1>5, <1>6

LEMMA InitLimits == Init => Limited
<1> SUFFICES ASSUME Init PROVE Limited
  OBVIOUS
<1>1. /\ orders = {} /\ children = {} /\ book = {} /\ todo = {} /\ trades = Idle
      /\ setting \in Settings
  BY DEF Init
<1>2. Opened = {} /\ Entries = {}
  BY <1>1 DEF Opened, Entries
<1>3. Orderly /\ Fresh
  BY <1>1, <1>2, FS_EmptySet DEF Orderly, Fresh, Valued
<1> QED BY <1>1, <1>2, <1>3, NothingSent DEF Limited

LEMMA NewEngineLimits ==
  ASSUME IInv, IInv', Limited, NewEngine
  PROVE  Limited'
<1>1. PICK tag \in [Universe -> Sleeves] : book' = Snapshot(tag)
  BY DEF NewEngine
<1>2. /\ pc = "idle" /\ engines' = engines + 1 /\ trades' = Idle /\ engines \in Nat /\ runs \in Nat
      /\ UNCHANGED <<setting, pc, todo, children, account, orders, runs>>
  BY SessionAssumption DEF NewEngine, IInv, Typed, TypeOK
<1>3. children = {} /\ Orderly /\ Fresh
  BY <1>2 DEF Limited, Orderly
<1>4. Valued(book')
  <2> DEFINE Shown == {t \in Universe : account[t] # 0}
             Of(s) == [symbol |-> s, qty |-> account[s], sleeve |-> tag[s], price |-> setting.mark[s],
                       cluster |-> setting.cluster[s], stop |-> setting.stop[s],
                       marked |-> setting.marked[s]]
             f == [s \in Shown |-> Of(s)]
  <2>1. book' = {Of(s) : s \in Shown}
    BY <1>1 DEF Snapshot
  <2>2. f \in Surjection(Shown, book')
    <3>1. f \in [Shown -> book'] /\ \A p \in book' : \E s \in Shown : f[s] = p
      BY <2>1
    <3> QED BY <3>1 DEF Surjection
  <2>3. IsFiniteSet(Shown)
    BY SettingAssumption, FS_Subset
  <2> HIDE DEF f
  <2>4. IsFiniteSet(book')
    BY <2>2, <2>3, FS_Surjection
  <2>5. \A s \in Universe : account[s] \in Int /\ setting.mark[s] \in Nat
    BY SettingAssumption DEF IInv, Typed, TypeOK, Usable
  <2>6. \A p \in book' : p.qty \in Int /\ p.price \in Nat
    BY <2>1, <2>5
  <2> QED BY <2>4, <2>6 DEF Valued
<1>5. Opened' = Opened /\ Entries' = {} /\ Sent' = {}
  BY <1>2, <1>3 DEF Opened, Entries, Sent, Orderly
<1>6. Orderly'
  BY <1>2, <1>3, <1>4, <1>5 DEF Orderly, Valued, IsEntry
<1>7. Fresh'
  BY <1>2, <1>3, <1>5 DEF Fresh, Alongside
<1>8. Fitting(Sent)' /\ Counted(Entries, children)'
  <2>1. setting' \in Settings /\ Entries' = {} /\ children' = {} /\ trades' = Idle
    BY <1>2, <1>3, <1>5 DEF IInv, Typed
  <2>2. (setting \in Settings /\ Entries = {} /\ children = {} /\ trades = Idle
           => Fitting(Sent) /\ Counted(Entries, children))'
    BY NothingSent, PTL
  <2> QED BY <2>1, <2>2 DEF Idle
<1> QED BY <1>6, <1>7, <1>8 DEF Limited

LEMMA RunLimits ==
  ASSUME IInv, IInv', Limited, Run
  PROVE  Limited'
<1>1. /\ pc = "idle" /\ runs' = runs + 1 /\ pc' = "candidates" /\ runs \in Nat
      /\ \A c, d \in todo' : c.symbol = d.symbol => c = d
      /\ UNCHANGED <<setting, book, trades, children, orders, engines>>
  BY SessionAssumption DEF Run, IInv, Typed, TypeOK
<1>2. children = {} /\ Orderly /\ Fitting(Sent) /\ Counted(Entries, children)
  BY <1>1 DEF Limited, Orderly
<1>3. Opened' = Opened /\ Entries' = Entries /\ Sent' = Sent
  BY <1>1 DEF Opened, Entries, Sent
<1>4. Orderly'
  BY <1>1, <1>2, <1>3 DEF Orderly, Valued, IsEntry
<1>5. Fresh'
  <2>1. \A o \in Sent : o.run \in Nat /\ o.run <= runs
    BY <1>2, EntriesOpened DEF Orderly, Sent
  <2>2. \A o \in Sent' : o.run # runs'
    BY <1>1, <1>3, <2>1
  <2> QED BY <1>1, <2>2 DEF Fresh, Alongside
<1>6. Fitting(Sent)' /\ Counted(Entries, children)'
  BY <1>1, <1>2, <1>3, FitsThen, CountsThen
<1> QED BY <1>4, <1>5, <1>6 DEF Limited

LEMMA ProtectLimits ==
  ASSUME IInv, IInv', Limited, Protect
  PROVE  Limited'
<1>1. UNCHANGED <<setting, book, trades, todo, children, orders, engines, runs>> /\ children = {}
  BY DEF Protect, engineVars, brokerVars
<1>2. Opened' = Opened
  BY <1>1 DEF Opened
<1> QED BY <1>1, <1>2, AlikeItself, StandingLimits

LEMMA SubmitLegLimits ==
  ASSUME IInv, IInv', Limited, SubmitLeg
  PROVE  Limited'
<1>1. UNCHANGED <<setting, book, trades, pc, todo, children, engines, runs>>
  BY DEF SubmitLeg, engineVars
<1>2. PICK leg \in legs : Place(leg, TRUE) \/ Place(leg, FALSE) \/ NotPlaced
  BY DEF SubmitLeg
<1>3. \A b : [leg EXCEPT !.told = b].kind = "flat"
  BY ToldIsOrder DEF IInv, Sendable
<1>4. Opened' = Opened
  BY <1>2, <1>3 DEF Opened, Place, NotPlaced
<1>5. pc # "candidates" => children = {}
  BY DEF Limited, Orderly
<1> QED BY <1>1, <1>4, <1>5, AlikeItself, StandingLimits

LEMMA FlattenLimits ==
  ASSUME IInv, IInv', Limited, Flatten
  PROVE  Limited'
<1>1. UNCHANGED <<setting, book, trades, todo, children, orders, engines, runs>> /\ pc = "flatten"
  BY DEF Flatten, engineVars, brokerVars
<1>2. Opened' = Opened /\ children = {}
  BY <1>1 DEF Opened, Limited, Orderly
<1> QED BY <1>1, <1>2, AlikeItself, StandingLimits

LEMMA VerifyFlatLimits ==
  ASSUME IInv, IInv', Limited, VerifyFlat
  PROVE  Limited'
<1>1. UNCHANGED <<setting, book, trades, todo, children, orders, engines, runs>> /\ pc = "verify"
  BY DEF VerifyFlat, engineVars
<1>2. Opened' = Opened /\ children = {}
  BY <1>1 DEF Opened, Limited, Orderly
<1> QED BY <1>1, <1>2, AlikeItself, StandingLimits

(* What a fill or the end of the day changes of an order is what is left.  *)
LEMMA FilledIsAlike ==
  ASSUME NEW o, IsOrder(o), NEW n
  PROVE  LET e == [o EXCEPT !.left = n] IN Alike(e, o) /\ e.kind = o.kind
BY DEF IsOrder, Alike

LEMMA FillLimits ==
  ASSUME IInv, IInv', Limited, Fill
  PROVE  Limited'
<1>1. UNCHANGED <<setting, book, trades, pc, todo, children, engines, runs>>
  BY DEF Fill, engineVars, runVars
<1>2. PICK o \in orders : \E n \in 1..o.left : orders' = (orders \ {o}) \cup {[o EXCEPT !.left = @ - n]}
  BY DEF Fill
<1>3. PICK n \in 1..o.left : orders' = (orders \ {o}) \cup {[o EXCEPT !.left = @ - n]}
  BY <1>2
<1> DEFINE e == [o EXCEPT !.left = @ - n]
<1>4. Alike(e, o) /\ e.kind = o.kind
  <2>1. e = [o EXCEPT !.left = o.left - n]
    OBVIOUS
  <2> QED BY <2>1, FilledIsAlike DEF IInv, Sendable
<1>5. orders' = (orders \ {o}) \cup {e}
  BY <1>3
<1> HIDE DEF e
<1>6. /\ \A x \in Opened' : \E y \in Opened : Alike(x, y)
      /\ \A y \in Opened : \E x \in Opened' : Alike(x, y)
  BY <1>4, <1>5, AlikeItself DEF Opened
<1>7. pc # "candidates" => children = {}
  BY DEF Limited, Orderly
<1> QED BY <1>1, <1>6, <1>7, StandingLimits

LEMMA DayEndsLimits ==
  ASSUME IInv, IInv', Limited, DayEnds
  PROVE  Limited'
<1>1. /\ UNCHANGED <<setting, book, trades, pc, todo, children, engines, runs>>
      /\ orders' = {[o EXCEPT !.left = 0] : o \in orders}
  BY DEF DayEnds, engineVars, runVars
<1>2. \A o \in orders : LET e == [o EXCEPT !.left = 0] IN Alike(e, o) /\ e.kind = o.kind
  BY FilledIsAlike DEF IInv, Sendable
<1>3. ASSUME NEW x \in Opened' PROVE \E y \in Opened : Alike(x, y)
  <2>1. x \in orders' /\ x.kind = "entry"
    BY DEF Opened
  <2>2. PICK o \in orders : x = [o EXCEPT !.left = 0]
    BY <1>1, <2>1
  <2>3. Alike(x, o) /\ o.kind = "entry"
    BY <1>2, <2>1, <2>2
  <2> QED BY <2>3 DEF Opened
<1>4. ASSUME NEW y \in Opened PROVE \E x \in Opened' : Alike(x, y)
  <2>1. y \in orders /\ y.kind = "entry"
    BY DEF Opened
  <2> DEFINE x == [y EXCEPT !.left = 0]
  <2>2. x \in orders' /\ Alike(x, y) /\ x.kind = "entry"
    BY <1>1, <1>2, <2>1
  <2> HIDE DEF x
  <2>3. x \in Opened'
    BY <2>2 DEF Opened
  <2> QED BY <2>2, <2>3
<1>5. pc # "candidates" => children = {}
  BY DEF Limited, Orderly
<1> QED BY <1>1, <1>3, <1>4, <1>5, StandingLimits

LEMMA ChildrenOf ==
  ASSUME NEW c, NEW qty, NEW perChild, NEW o \in PlanEntry(c, qty, perChild)
  PROVE  /\ o.kind = "entry" /\ o.symbol = c.symbol /\ o.price = c.price /\ o.cluster = c.cluster
         /\ o.told = None /\ o.engine = engines /\ o.run = runs
BY ChildOf DEF PlanEntry

(* Judging a candidate puts no more on its way than there is room for.     *)
LEMMA JudgeLimits ==
  ASSUME IInv, IInv', Limited, Judge
  PROVE  Limited'
<1>1. /\ UNCHANGED <<setting, book, trades, pc, orders, engines, runs>>
      /\ children = {} /\ pc = "candidates"
  BY DEF Judge, engineVars, brokerVars
<1>2. PICK c \in todo, perChild \in {setting.perChild, None} :
        LET d   == Evaluate(Context(c))
            qty == Shares(c, d)
        IN /\ todo' = todo \ {c}
           /\ children' = IF Allowed(d) /\ armed /\ qty > 0 THEN PlanEntry(c, qty, perChild) ELSE {}
  BY DEF Judge
<1>3. Orderly /\ Fresh /\ Fitting(Sent) /\ Counted(Entries, children)
  BY DEF Limited
<1>4. TypeOK /\ setting \in Settings /\ c \in setting.offers /\ Valued(book)
  BY <1>3 DEF IInv, Typed, TypeOK, Orderly
<1>5. Opened' = Opened /\ Entries' = Entries /\ Sent = Entries /\ Sent' = Entries \cup children'
  BY <1>1 DEF Opened, Entries, Sent
<1>6. CASE children' = {}
  <2>1. Orderly'
    BY <1>1, <1>3, <1>5, <1>6 DEF Orderly, Valued, IsEntry
  <2>2. Fresh'
    BY <1>1, <1>2, <1>3, <1>5, <1>6 DEF Fresh, Alongside
  <2>3. Fitting(Sent)' /\ Counted(Entries, children)'
    BY <1>1, <1>3, <1>5, <1>6, FitsThen, CountsThen
  <2> QED BY <2>1, <2>2, <2>3 DEF Limited
<1>7. CASE children' # {}
  <2> DEFINE qty == Shares(c, Evaluate(Context(c)))
             P == PlanEntry(c, qty, perChild)
  <2>1. Allowed(Evaluate(Context(c))) /\ qty > 0 /\ children' = P /\ todo' = todo \ {c}
    BY <1>2, <1>7
  <2>2. qty \in Nat \ {0} /\ setting.advCap \in Nat /\ c.price \in Nat
    BY <1>4, <2>1, SharesFit
  <2>3. Whole(P) /\ Quantity(P) <= qty /\ Quantity(P) \in Nat
    <3>1. perChild \in (Nat \ {0}) \cup {None}
      BY <1>2, <1>4, SettingAssumption DEF Usable
    <3> HIDE DEF qty
    <3> QED BY <2>2, <3>1, PlanHasItsSize, QuantityType
  <2>4. \A o \in P : /\ o.symbol = c.symbol /\ o.price = c.price /\ o.cluster = c.cluster
                     /\ o.told = None /\ o.engine = engines /\ o.run = runs
    BY ChildrenOf
  <2>5. ASSUME NEW o \in P PROVE Room(o, Quantity(P))
    <3>1. Room(o, qty) /\ o.price \in Nat
      BY <1>4, <2>1, <2>2, <2>4, GrantHasRoom
    <3> HIDE DEF P, qty
    <3> QED BY <1>4, <2>2, <2>3, <3>1, LessFits
  <2>6. Counted(Entries, P)
    <3>1. Counted(Entries, {})
      BY <1>1, <1>3
    <3>2. setting.mandate.maxDailyTrades > 0 =>
            Cardinality(ToldIn(Entries)) < setting.mandate.maxDailyTrades
      <4> SUFFICES ASSUME setting.mandate.maxDailyTrades > 0
                   PROVE  Cardinality(ToldIn(Entries)) < setting.mandate.maxDailyTrades
        OBVIOUS
      <4>1. ~(SleeveTrades >= setting.mandate.maxDailyTrades)
        BY <1>4, <2>1, GrantIsCounted
      <4>2. SumFunction(trades) = Cardinality(ToldIn(Entries))
        BY <3>1 DEF Counted
      <4>3. setting.mandate.maxDailyTrades \in Nat /\ setting.tradesBefore \in [Universe -> Nat]
        BY <1>4, LimitsAreNumbers
      <4>4. CASE Merged
        <5>1. Cardinality(ToldIn(Entries)) \in Nat
          BY <1>3, SentIsWhole, FS_Subset, FS_CardinalityType DEF ToldIn
        <5> QED BY <4>1, <4>2, <4>3, <4>4, <5>1 DEF SleeveTrades
      <4>5. CASE ~Merged
        <5>1. trades \in [Universe -> Nat]
          BY <1>4 DEF TypeOK
        <5>2. \A s \in Universe : trades[s] \in {0}
          BY <4>3, <4>5, <5>1 DEF Merged
        <5>3. 0 \in {0} /\ \A i, j \in {0} : i + j \in {0}
          OBVIOUS
        <5>4. SumFunctionOnSet(trades, Universe) \in {0}
          BY <5>2, <5>3, SettingAssumption, SumStays
        <5>5. SumFunction(trades) = 0
          BY <5>1, <5>4 DEF SumFunction
        <5> QED BY <4>2, <5>5
      <4> QED BY <4>4, <4>5
    <3>3. setting.cfg.maxTrades > 0 => \A o \in P :
            \/ setting.tradesBefore[o.symbol] + trades[o.symbol] < setting.cfg.maxTrades
            \/ NameCapBinds(o)
      BY <1>4, <2>1, <2>4, GrantIsCounted
    <3> HIDE DEF P
    <3> QED BY <3>1, <3>2, <3>3 DEF Counted
  <2>7. Alongside(Entries, runs, c.symbol) = {}
    BY <1>2, <1>3, <1>5 DEF Fresh
  <2> HIDE DEF P, qty
  <2>8. Fitting(Entries \cup P)
    <3> SUFFICES ASSUME NEW o \in Entries \cup P
                 PROVE  /\ setting.advCap \in Nat
                        /\ Room(o, Quantity(Alongside(Entries \cup P, o.run, o.symbol)))
      BY DEF Fitting
    <3>1. CASE o \in Entries
      <4>1. Alongside(Entries \cup P, o.run, o.symbol) = Alongside(Entries, o.run, o.symbol)
        BY <2>4, <2>7, <3>1 DEF Alongside
      <4> QED BY <1>3, <1>5, <3>1, <4>1 DEF Fitting
    <3>2. CASE o \in P
      <4>1. Alongside(Entries \cup P, o.run, o.symbol) = P
        BY <2>4, <2>7, <3>2 DEF Alongside
      <4> QED BY <2>2, <2>5, <3>2, <4>1
    <3> QED BY <3>1, <3>2
  <2>9. Fitting(Sent)' /\ Counted(Entries, children)'
    BY <1>1, <1>5, <2>1, <2>6, <2>8, FitsThen, CountsThen
  <2>10. Fresh'
    <3>1. \A x \in todo' : x \in todo /\ x.symbol # c.symbol
      BY <1>2, <1>3, <2>1 DEF Fresh
    <3>2. \A x \in todo' : Alongside(Entries \cup P, runs, x.symbol) = {}
      BY <1>3, <1>5, <2>4, <3>1 DEF Fresh, Alongside
    <3> QED BY <1>1, <1>3, <1>5, <2>1, <3>1, <3>2 DEF Fresh, Alongside
  <2>11. Orderly'
    <3>1. \A o \in P : IsEntry(o)
      BY <2>2, <2>3, <2>4 DEF IsEntry, Whole
    <3>2. IsFiniteSet(P)
      BY <2>3 DEF Whole
    <3> QED BY <1>1, <1>3, <1>5, <2>1, <2>4, <3>1, <3>2 DEF Orderly, Valued, IsEntry
  <2> QED BY <2>9, <2>10, <2>11 DEF Limited
<1> QED BY <1>6, <1>7

(* A child the broker takes is an entry more, and otherwise as it was.     *)
LEMMA ToldIsAlike ==
  ASSUME NEW o, IsOrder(o), NEW b
  PROVE  LET e == [o EXCEPT !.told = b]
         IN /\ e.kind = o.kind /\ e.id = o.id /\ e.symbol = o.symbol /\ e.qty = o.qty /\ e.told = b
            /\ e.engine = o.engine /\ e.run = o.run /\ e.price = o.price /\ e.cluster = o.cluster
BY DEF IsOrder

LEMMA TakenChild ==
  ASSUME IInv, Limited, UNCHANGED <<engines, runs>>, NEW child \in children, NEW b \in BOOLEAN,
         Place(child, b)
  PROVE  LET e == [child EXCEPT !.told = b]
         IN /\ Opened' = Opened \cup {e} /\ Entries' = Entries \cup {e}
            /\ e \notin Entries /\ e \notin children
            /\ e.told = b /\ IsEntry(e) /\ e.engine = engines /\ e.run = runs
            /\ e.symbol = child.symbol /\ e.qty = child.qty /\ e.price = child.price
            /\ e.cluster = child.cluster
<1> DEFINE e == [child EXCEPT !.told = b]
<1>1. IsOrder(child) /\ child.kind = "entry"
  BY DEF IInv, Sendable
<1>2. /\ e.kind = "entry" /\ e.id = child.id /\ e.symbol = child.symbol /\ e.qty = child.qty
      /\ e.told = b /\ e.engine = child.engine /\ e.run = child.run /\ e.price = child.price
      /\ e.cluster = child.cluster
  BY <1>1, ToldIsAlike
<1>3. /\ IsEntry(child) /\ child.engine = engines /\ child.run = runs
      /\ \A o \in children : o.told = None
  BY DEF Limited, Orderly
<1>4. orders' = orders \cup {e} /\ child.id \notin Ids
  BY DEF Place
<1> HIDE DEF e
<1>5. Opened' = Opened \cup {e} /\ Entries' = Entries \cup {e}
  BY <1>2, <1>3, <1>4 DEF Opened, Entries
<1>6. e \notin Entries
  BY <1>2, <1>4 DEF Ids, Entries
<1>7. e \notin children
  BY <1>2, <1>3, SessionAssumption
<1> QED BY <1>2, <1>3, <1>5, <1>6, <1>7 DEF IsEntry, e

(* Taking a child, and giving up others, leaves what is sent in its room.  *)
LEMMA TakenFits ==
  ASSUME setting \in Settings, Orderly, Fresh, Fitting(Sent), NEW child \in children,
         NEW e, e \notin Entries, e \notin children,
         e.run = child.run, e.symbol = child.symbol, e.qty = child.qty, e.price = child.price,
         e.cluster = child.cluster, NEW C, C \subseteq children \ {child}
  PROVE  LET T == (Entries \cup {e}) \cup C
         IN Fitting(T) /\ \A c \in todo : Alongside(T, runs, c.symbol) = {}
<1> DEFINE T == (Entries \cup {e}) \cup C
           h == [o \in T |-> IF o = e THEN child ELSE o]
<1>1. \A o \in Entries : o \notin children
  BY SessionAssumption, EntriesOpened DEF Orderly
<1>2. h \in [T -> Sent]
  BY DEF Sent
<1>3. \A o, f \in T : h[o] = h[f] => o = f
  BY <1>1
<1>4. \A o \in T : /\ h[o].run = o.run /\ h[o].symbol = o.symbol /\ h[o].qty = o.qty
                   /\ h[o].price = o.price /\ h[o].cluster = o.cluster
  OBVIOUS
<1> HIDE DEF h, T
<1>5. h \in Injection(T, Sent)
  BY <1>2, <1>3 DEF Injection, IsInjective
<1>6. Fitting(T) /\ \A c \in todo : Alongside(T, runs, c.symbol) = {}
  BY <1>4, <1>5, FewerFit
<1> QED BY <1>6 DEF T

LEMMA GivenUpFits ==
  ASSUME setting \in Settings, Orderly, Fresh, Fitting(Sent), NEW C, C \subseteq children
  PROVE  LET T == Entries \cup C
         IN Fitting(T) /\ \A c \in todo : Alongside(T, runs, c.symbol) = {}
<1> DEFINE T == Entries \cup C
           h == [o \in T |-> o]
<1>1. h \in [T -> Sent]
  BY DEF Sent
<1>2. \A o \in T : h[o] = o
  OBVIOUS
<1> HIDE DEF h, T
<1>3. h \in Injection(T, Sent)
  BY <1>1, <1>2 DEF Injection, IsInjective
<1>4. Fitting(T) /\ \A c \in todo : Alongside(T, runs, c.symbol) = {}
  BY <1>2, <1>3, FewerFit
<1> QED BY <1>4 DEF T

(* An entry told of is a trade more, and there was one more to make.       *)
LEMMA TradeCounts ==
  ASSUME TypeOK, setting \in Settings, IsFiniteSet(Entries), Counted(Entries, children),
         NEW child \in children, NEW e, e \notin Entries, e.told = TRUE, e.symbol \in Universe,
         e.symbol = child.symbol, e.price = child.price
  PROVE  LET t == [trades EXCEPT ![child.symbol] = @ + 1]
             E == Entries \cup {e}
         IN /\ \A s \in Universe : t[s] = Cardinality(ToldOf(E, s))
            /\ SumFunction(t) = Cardinality(ToldIn(E))
            /\ setting.mandate.maxDailyTrades > 0 =>
                 Cardinality(ToldIn(E)) <= setting.mandate.maxDailyTrades
            /\ setting.cfg.maxTrades > 0 => \A s \in Universe :
                 \/ ToldOf(E, s) = {}
                 \/ setting.tradesBefore[s] + t[s] <= setting.cfg.maxTrades
                 \/ \E o \in ToldOf(E, s) : NameCapBinds(o)
<1> DEFINE t == [trades EXCEPT ![child.symbol] = @ + 1]
           E == Entries \cup {e}
           s0 == child.symbol
<1>1. /\ trades \in [Universe -> Nat] /\ s0 \in Universe
      /\ t \in [Universe -> Nat] /\ t[s0] = trades[s0] + 1
      /\ \A s \in Universe : s # s0 => t[s] = trades[s]
  BY DEF TypeOK
<1>2. /\ \A S \in SUBSET Entries : IsFiniteSet(S) /\ Cardinality(S) \in Nat
  BY FS_Subset, FS_CardinalityType
<1>3. ToldIn(E) = ToldIn(Entries) \cup {e} /\ e \notin ToldIn(Entries)
  BY DEF ToldIn
<1>4. ToldOf(E, s0) = ToldOf(Entries, s0) \cup {e} /\ e \notin ToldOf(Entries, s0)
  BY DEF ToldOf
<1>5. \A s \in Universe : s # s0 => ToldOf(E, s) = ToldOf(Entries, s)
  BY DEF ToldOf
<1>6. Cardinality(ToldIn(E)) = Cardinality(ToldIn(Entries)) + 1
  <2>1. IsFiniteSet(ToldIn(Entries))
    BY <1>2 DEF ToldIn
  <2> HIDE DEF E
  <2> QED BY <1>3, <2>1, FS_AddElement
<1>7. Cardinality(ToldOf(E, s0)) = Cardinality(ToldOf(Entries, s0)) + 1
  <2>1. IsFiniteSet(ToldOf(Entries, s0))
    BY <1>2 DEF ToldOf
  <2> HIDE DEF E, s0
  <2> QED BY <1>4, <2>1, FS_AddElement
<1> HIDE DEF t, E
<1>8. \A s \in Universe : t[s] = Cardinality(ToldOf(E, s))
  BY <1>1, <1>5, <1>7 DEF Counted
<1>9. SumFunction(t) = SumFunction(trades) + 1
  <2> DEFINE R == Universe \ {s0}
  <2>1. SumFunctionOnSet(t, R) = SumFunctionOnSet(trades, R)
    <3>1. IsFiniteSet(R) /\ \A s \in R : t[s] = trades[s]
      BY <1>1, SettingAssumption, FS_Subset
    <3> HIDE DEF R
    <3> QED BY <3>1, SumsAlike
  <2>2. SumFunctionOnSet(t, Universe) = t[s0] + SumFunctionOnSet(t, R)
    <3>1. \A s \in Universe : t[s] \in Int
      BY <1>1
    <3> QED BY <1>1, <3>1, SettingAssumption, SumLess
  <2>3. SumFunctionOnSet(trades, Universe) = trades[s0] + SumFunctionOnSet(trades, R)
    <3>1. \A s \in Universe : trades[s] \in Int
      BY <1>1
    <3> QED BY <1>1, <3>1, SettingAssumption, SumLess
  <2>4. SumFunctionOnSet(trades, R) \in Int
    <3>1. IsFiniteSet(R) /\ \A s \in R : trades[s] \in Int
      BY <1>1, SettingAssumption, FS_Subset
    <3>2. 0 \in Int /\ \A i, j \in Int : i + j \in Int
      OBVIOUS
    <3> HIDE DEF R
    <3> QED BY <3>1, <3>2, SumStays
  <2>5. /\ SumFunction(t) = SumFunctionOnSet(t, Universe)
        /\ SumFunction(trades) = SumFunctionOnSet(trades, Universe)
    BY <1>1 DEF SumFunction
  <2> HIDE DEF R
  <2> QED BY <1>1, <2>1, <2>2, <2>3, <2>4, <2>5
<1>10. SumFunction(t) = Cardinality(ToldIn(E))
  BY <1>6, <1>9 DEF Counted
<1>11. setting.mandate.maxDailyTrades > 0 => Cardinality(ToldIn(E)) <= setting.mandate.maxDailyTrades
  <2>1. Cardinality(ToldIn(Entries)) \in Nat /\ setting.mandate.maxDailyTrades \in Nat
    BY <1>2, LimitsAreNumbers DEF ToldIn
  <2>2. setting.mandate.maxDailyTrades > 0 =>
          Cardinality(ToldIn(Entries)) < setting.mandate.maxDailyTrades
    BY DEF Counted
  <2> QED BY <1>6, <2>1, <2>2
<1>12. ASSUME setting.cfg.maxTrades > 0, NEW s \in Universe
       PROVE  \/ ToldOf(E, s) = {}
              \/ setting.tradesBefore[s] + t[s] <= setting.cfg.maxTrades
              \/ \E o \in ToldOf(E, s) : NameCapBinds(o)
  <2>1. CASE s # s0
    BY <1>1, <1>5, <1>12, <2>1 DEF Counted
  <2>2. CASE s = s0
    <3>1. \/ setting.tradesBefore[s0] + trades[s0] < setting.cfg.maxTrades
          \/ NameCapBinds(child)
      BY <1>12 DEF Counted
    <3>2. NameCapBinds(child) => NameCapBinds(e)
      BY DEF NameCapBinds
    <3>3. setting.tradesBefore[s0] \in Nat /\ trades[s0] \in Nat /\ setting.cfg.maxTrades \in Nat
      BY <1>1, LimitsAreNumbers
    <3> QED BY <1>1, <1>4, <2>2, <3>1, <3>2, <3>3
  <2> QED BY <2>1, <2>2
<1> QED BY <1>8, <1>10, <1>11, <1>12 DEF t, E

LEMMA SubmitChildLimits ==
  ASSUME IInv, IInv', Limited, SubmitChild
  PROVE  Limited'
<1>1. UNCHANGED <<setting, book, pc, todo, engines, runs>> /\ pc = "candidates"
  BY DEF SubmitChild
<1>2. PICK child \in children :
        \/ /\ Place(child, TRUE)
           /\ trades' = [trades EXCEPT ![child.symbol] = @ + 1]
           /\ children' = {}
        \/ /\ Place(child, FALSE) \/ NotPlaced
           /\ children' = children \ {child}
           /\ UNCHANGED trades
  BY DEF SubmitChild
<1>3. Orderly /\ Fresh /\ Fitting(Sent) /\ Counted(Entries, children)
  BY DEF Limited
<1>4. TypeOK /\ setting \in Settings /\ child.symbol \in Universe /\ IsFiniteSet(Entries)
  BY <1>3, SentIsWhole DEF IInv, Typed, Sendable, IsOrder
<1>5. Sent' = Entries' \cup children'
  BY DEF Sent
<1>6. IsFiniteSet(children') /\ children' \subseteq children
  BY <1>2, <1>3, FS_Subset DEF Orderly
<1>7. CASE NotPlaced /\ children' = children \ {child} /\ UNCHANGED trades
  <2>1. Opened' = Opened /\ Entries' = Entries
    BY <1>1, <1>7 DEF NotPlaced, Opened, Entries
  <2>2. Orderly'
    BY <1>1, <1>3, <1>6, <2>1 DEF Orderly, Valued, IsEntry
  <2>3. Fitting(Sent') /\ \A c \in todo : Alongside(Sent', runs, c.symbol) = {}
    BY <1>3, <1>4, <1>5, <1>6, <2>1, GivenUpFits
  <2>4. Counted(Entries', children')
    BY <1>3, <1>6, <2>1 DEF Counted
  <2>5. Fitting(Sent)' /\ Counted(Entries, children)'
    BY <1>1, <1>7, <2>3, <2>4, FitsThen, CountsThen
  <2>6. Fresh'
    BY <1>1, <1>3, <2>3 DEF Fresh, Alongside
  <2> QED BY <2>2, <2>5, <2>6 DEF Limited
<1>8. ASSUME NEW b \in BOOLEAN, Place(child, b), child \notin children'
      PROVE  Orderly' /\ Fresh' /\ Fitting(Sent)'
  <2> DEFINE e == [child EXCEPT !.told = b]
  <2>1. /\ Opened' = Opened \cup {e} /\ Entries' = Entries \cup {e}
        /\ e \notin Entries /\ e \notin children
        /\ e.told = b /\ IsEntry(e) /\ e.engine = engines /\ e.run = runs
        /\ e.symbol = child.symbol /\ e.qty = child.qty /\ e.price = child.price
        /\ e.cluster = child.cluster
    BY <1>1, <1>8, TakenChild
  <2> HIDE DEF e
  <2>2. child.run = runs /\ engines \in Nat /\ runs \in Nat
    BY <1>3, <1>4, SessionAssumption DEF Orderly, TypeOK
  <2>3. Orderly'
    BY <1>1, <1>3, <1>6, <1>8, <2>1, <2>2, FS_AddElement DEF Orderly, Valued, IsEntry
  <2>4. Fitting(Sent') /\ \A c \in todo : Alongside(Sent', runs, c.symbol) = {}
    BY <1>3, <1>4, <1>5, <1>6, <1>8, <2>1, <2>2, TakenFits
  <2>5. Fresh'
    BY <1>1, <1>3, <2>4 DEF Fresh, Alongside
  <2> QED BY <1>1, <2>3, <2>4, <2>5, FitsThen
<1>9. CASE Place(child, FALSE) /\ children' = children \ {child} /\ UNCHANGED trades
  <2> DEFINE e == [child EXCEPT !.told = FALSE]
  <2>1. Entries' = Entries \cup {e} /\ e.told = FALSE
    BY <1>1, <1>9, TakenChild
  <2> HIDE DEF e
  <2>2. ToldIn(Entries') = ToldIn(Entries) /\ \A s : ToldOf(Entries', s) = ToldOf(Entries, s)
    BY <2>1 DEF ToldIn, ToldOf
  <2>3. Counted(Entries', children')
    BY <1>3, <1>6, <2>2 DEF Counted
  <2>4. Counted(Entries, children)'
    BY <1>1, <1>9, <2>3, CountsThen
  <2> QED BY <1>8, <1>9, <2>4 DEF Limited
<1>10. CASE /\ Place(child, TRUE) /\ children' = {}
            /\ trades' = [trades EXCEPT ![child.symbol] = @ + 1]
  <2> DEFINE e == [child EXCEPT !.told = TRUE]
  <2>1. /\ Entries' = Entries \cup {e} /\ e.told = TRUE /\ e \notin Entries
        /\ e.symbol = child.symbol /\ e.price = child.price
    BY <1>1, <1>10, TakenChild
  <2> HIDE DEF e
  <2>2. /\ \A s \in Universe : trades'[s] = Cardinality(ToldOf(Entries', s))
        /\ SumFunction(trades') = Cardinality(ToldIn(Entries'))
        /\ setting.mandate.maxDailyTrades > 0 =>
             Cardinality(ToldIn(Entries')) <= setting.mandate.maxDailyTrades
        /\ setting.cfg.maxTrades > 0 => \A s \in Universe :
             \/ ToldOf(Entries', s) = {}
             \/ setting.tradesBefore[s] + trades'[s] <= setting.cfg.maxTrades
             \/ \E o \in ToldOf(Entries', s) : NameCapBinds(o)
    BY <1>3, <1>4, <1>10, <2>1, TradeCounts
  <2>3. Counted(Entries, children)'
    BY <1>1, <1>10, <2>2 DEF Counted, NameCapBinds
  <2> QED BY <1>8, <1>10, <2>3 DEF Limited
<1> QED BY <1>2, <1>7, <1>9, <1>10

LEMMA LimitsStep == IInv /\ IInv' /\ Limited /\ [Next]_vars => Limited'
<1> SUFFICES ASSUME IInv, IInv', Limited, [Next]_vars PROVE Limited'
  OBVIOUS
<1>1. CASE UNCHANGED vars
  <2>1. UNCHANGED <<setting, book, trades, pc, todo, children, orders, engines, runs>>
    BY <1>1 DEF vars, engineVars, runVars, brokerVars
  <2>2. Opened' = Opened /\ (pc # "candidates" => children = {})
    BY <2>1 DEF Opened, Limited, Orderly
  <2> QED BY <2>1, <2>2, AlikeItself, StandingLimits
<1> QED BY <1>1, NewEngineLimits, RunLimits, JudgeLimits, SubmitChildLimits, ProtectLimits,
           SubmitLegLimits, FlattenLimits, VerifyFlatLimits, FillLimits, DayEndsLimits DEF Next

LEMMA LimitsHold == Spec => []Limited
<1>1. Init => Limited
  BY InitLimits
<1>2. IInv /\ IInv' /\ Limited /\ [Next]_vars => Limited'
  BY LimitsStep
<1> QED BY <1>1, <1>2, Invariance, PTL DEF Spec

-----------------------------------------------------------------------------
(* The theorems                                                            *)

(* The engine and the broker's account keep their types.                   *)
THEOREM TypeCorrect == Spec => []TypeOK
<1>1. IInv => TypeOK
  BY DEF IInv, Typed
<1> QED BY <1>1, Invariance, PTL

(* No order of the engine takes a holding below zero but a sell entry      *)
(* (order/flatten.py:94-119, engine.py:562-570).                           *)
THEOREM NothingSoldTwice == Spec => []NeverShort
<1>1. IInv => NeverShort
  <2> SUFFICES ASSUME IInv, NEW s \in Universe, account[s] < 0 PROVE Sold(s)
    BY DEF NeverShort, Sold
  <2>1. account[s] \in Int
    BY DEF IInv, Typed, TypeOK
  <2>2. ~Covered(s)
    BY <2>1 DEF Covered
  <2> QED BY <2>2 DEF IInv, Held
<1> QED BY <1>1, Invariance, PTL

(* Flat is what the broker showed (order/flatten.py:196-236); where nobody *)
(* looked (engine.py:566), only another sleeve's position or a fill since  *)
(* the snapshot can be open.                                               *)
THEOREM FlatMeansFlat == Spec => []FlatIsVerified
<1>1. IInv => FlatIsVerified
  BY DEF IInv
<1> QED BY <1>1, Invariance, PTL

(* What a candidate put on the broker's book, lost answers included, fits  *)
(* the book it was judged on (engine.py:362-384, order/policy.py:102-193). *)
THEOREM EntriesFitTheBook == Spec => []EntryFits
<1>1. IInv /\ Limited => EntryFits
  <2> SUFFICES ASSUME IInv, Limited, NEW o \in Entries
               PROVE  Room(o, Quantity(Alongside(Entries, o.run, o.symbol)))
    BY DEF EntryFits, Room, Quantity, Alongside
  <2>1. setting \in Settings /\ Orderly /\ Fresh /\ Fitting(Sent)
    BY DEF IInv, Typed, Limited
  <2>2. Fitting(Entries \cup {})
    BY <2>1, GivenUpFits
  <2>3. Entries \cup {} = Entries
    OBVIOUS
  <2> QED BY <2>2, <2>3 DEF Fitting
<1> QED BY <1>1, Invariance, LimitsHold, PTL

(* The trades an engine was told of stay within the caps of the day and of *)
(* the name (engine.py:386-404, risk/gate.py:184-190 and 504-512).         *)
THEOREM CountedTradesAreCapped == Spec => []TradesAreCapped
<1>1. Limited => TradesAreCapped
  <2> SUFFICES ASSUME Limited PROVE TradesAreCapped
    OBVIOUS
  <2>1. Counted(Entries, children)
    BY DEF Limited
  <2>2. ToldIn(Entries) = {o \in Entries : o.told} /\ \A s : Told(s) = ToldOf(Entries, s)
    BY DEF ToldIn, ToldOf, Told
  <2> QED BY <2>1, <2>2 DEF TradesAreCapped, Counted
<1> QED BY <1>1, LimitsHold, PTL

(* What _evaluate asks is a question the gate's theorems are about, and so *)
(* its answer keeps every limit they speak of: the budget of the CVaR, the *)
(* counts of positions, leverage; and adjusted_risk_pct is never the zero  *)
(* that "or" in engine.py:374 would turn into the whole request.           *)
AnswersFit ==
  \A c \in todo :
     LET x == Context(c)
         d == Evaluate(x)
     IN /\ Judgeable(x) /\ x.stage = "order"
        /\ Allowed(d) => /\ Fits(x, GrantedNotional(x, d))
                         /\ WithinBudget(x, Granted(x.req, d))
                         /\ d.verdict = "REDUCE" => d.adjusted \in 1..setting.risk

(* The engine stands on the gate: every candidate of every run of it is    *)
(* put to the gate as the gate's own theorems assume (engine.py:302-374).  *)
THEOREM EngineStandsOnTheGate == Spec => []AnswersFit
<1>1. IInv /\ Limited => AnswersFit
  <2> SUFFICES ASSUME IInv, Limited, NEW c \in todo
               PROVE  LET x == Context(c)
                          d == Evaluate(x)
                      IN /\ Judgeable(x) /\ x.stage = "order"
                         /\ Allowed(d) => /\ Fits(x, GrantedNotional(x, d))
                                          /\ WithinBudget(x, Granted(x.req, d))
                                          /\ d.verdict = "REDUCE" => d.adjusted \in 1..setting.risk
    BY DEF AnswersFit
  <2>1. TypeOK /\ setting \in Settings /\ Valued(book) /\ c \in setting.offers
    BY DEF IInv, Typed, TypeOK, Limited, Orderly
  <2>2. Judgeable(Context(c)) /\ Context(c).stage = "order" /\ None \notin Int
    BY <2>1, ContextIsJudgeable, SettingAssumption
  <2>3. Context(c).req.risk = setting.risk
    BY DEF Context, Request
  <2> QED BY <2>2, <2>3, GrantKeepsLimits, GrantLeaves
<1> QED BY <1>1, Invariance, LimitsHold, PTL

=============================================================================
