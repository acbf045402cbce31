----------------------------- MODULE SessionEngine -----------------------------
(***************************************************************************)
(* The session engine (engine.py): it scans, asks the gate, sizes, cuts    *)
(* into children, asks the guard, submits, protects and flattens.  It is   *)
(* sequential; the broker fills between any two of its calls, refuses, and *)
(* loses requests and answers.  One engine works on one snapshot of the    *)
(* book and may be run more than once.                                     *)
(*                                                                         *)
(* Gate and sizer are RiskGate's and RiskArithmetic's.  All candidates of  *)
(* an instance have the same slope (equity * price / stop distance), so    *)
(* that a limit on risk is one number.                                     *)
(***************************************************************************)
EXTENDS RiskGate

CONSTANTS
  Universe,       \* the symbols scanned
  Accounts,       \* what the account may hold at first: shares of each symbol
  Settings,       \* configuration, mandate, figures of the book and of the market,
                  \* and offers: the candidates a scan may find
  MaxEngines, MaxRuns          \* bounds

ASSUME SessionAssumption ==
  /\ \A held \in Accounts : held \in [Universe -> Nat]
  /\ \A z \in Settings : \A c \in z.offers : c.symbol \in Universe /\ c.side \in {"buy", "sell"}
  /\ \A z \in Settings : z.orderPath \in BOOLEAN /\ z.reader \in BOOLEAN
  /\ MaxEngines \in Nat /\ MaxRuns \in Nat /\ None \notin BOOLEAN

(* What the code relies on of its configuration and of its data: prices,   *)
(* limits and counts are not negative, and the sleeve's risk per trade is  *)
(* positive and in units that quarters divide.                             *)
Usable(z) ==
  /\ z.risk \in Nat \ {0} /\ z.risk % Quarters = 0 /\ z.heat \in Int /\ z.kelly \in Int
  /\ z.advCap \in Nat \cup {None} /\ z.perChild \in (Nat \ {0}) \cup {None}
  /\ z.ceiling \in Nat /\ z.vol.scalar \in Int /\ z.es.value \in Nat
  /\ {"listed", "exposureCap", "maxDailyTrades"} \subseteq DOMAIN z.mandate
  /\ z.mandate.exposureCap \in Nat /\ z.mandate.maxDailyTrades \in Nat
  /\ z.cfg.leverageCap \in Nat /\ z.cfg.clusterCap \in Nat
  /\ z.cfg.nameCap \in [Sleeves -> Nat] /\ z.cfg.maxPositions \in [Sleeves -> Nat]
  /\ z.cfg.maxTrades \in Nat /\ z.cfg.esHouse \in Nat /\ z.cfg.esSleeve \in Nat
  /\ z.tradesBefore \in [Universe -> Nat] /\ z.mark \in [Universe -> Nat]
  /\ \A c \in z.offers : c.price \in Nat /\ c.stopGap \in BOOLEAN

ASSUME SettingAssumption ==
  IsFiniteSet(Universe) /\ None \notin Int /\ \A z \in Settings : Usable(z)

MAX_CHILDREN == 5
DUST_SHARES  == 1

VARIABLES
  setting, book, trades,                   \* the engine
  pc, armed, todo, children, legs, flat,   \* the locals of run
  account, orders,                         \* the broker
  moved, shifted,                          \* names filled since flat was set, since the snapshot
  engines, runs                            \* counts

engineVars == <<setting, book, trades>>
runVars    == <<pc, armed, todo, children, legs, flat>>
brokerVars == <<account, orders, moved, shifted>>
vars       == <<engineVars, runVars, brokerVars, engines, runs>>

-----------------------------------------------------------------------------
(* What the engine reads of its book *)

Intraday == OfSleeve(book, "intraday")

(* book_with_trades: once a trade is counted, the sleeve's own count and   *)
(* the buying power the caller supplied are gone.                          *)
Merged       == \E s \in Universe : trades[s] + setting.tradesBefore[s] > 0
SleeveTrades == IF Merged THEN SumFunction(trades)
                ELSE setting.sleeveBefore
BuyingPower  == IF Merged THEN None ELSE setting.buyingPower

Request(c) ==
  [sleeve |-> "intraday", side |-> c.side, opensShort |-> FALSE, setup |-> c.setup,
   risk |-> setting.risk, price |-> c.price, stopGap |-> c.stopGap, hasStop |-> TRUE,
   planned |-> None, move |-> c.move, cost |-> None]

FiguresOfCaller(c) ==
  [notional |-> Notional(book), cash |-> setting.cash,
   clusterHeld |-> ClusterNotional(book, c.cluster), position |-> PositionFor(book, c.symbol),
   trades |-> setting.tradesBefore[c.symbol], sleeveTrades |-> SleeveTrades,
   count |-> [s \in Sleeves |-> Cardinality(OfSleeve(book, s))]]

Figures(c) ==
  [notional |-> Notional(book), cash |-> setting.cash,
   clusterHeld |-> ClusterNotional(book, c.cluster), position |-> PositionFor(book, c.symbol),
   trades |-> trades[c.symbol] + setting.tradesBefore[c.symbol], sleeveTrades |-> SleeveTrades,
   count |-> [s \in Sleeves |-> Cardinality(OfSleeve(book, s))]]

(* The engine vouches for the data: fresh, adjusted, in session, tradable. *)
Market(c) ==
  [last |-> c.price, tradable |-> TRUE, shortable |-> FALSE, ssr |-> FALSE, halted |-> FALSE,
   session |-> "rth", reopenS |-> None, newsShock |-> FALSE, adverse |-> FALSE,
   advCap |-> setting.advCap, spreadBlown |-> FALSE, quoteOld |-> FALSE, barOld |-> FALSE]

(* SessionEngine._evaluate: the context of the order stage *)
Context(c) ==
  [stage |-> "order", raises |-> {}, req |-> Request(c), book |-> Figures(c),
   mandate |-> [setting.mandate EXCEPT !.listed = c.symbol \in @],
   cfg |-> setting.cfg, market |-> Market(c), ladder |-> RungFor(setting.path, setting.losses),
   vol |-> setting.vol, es |-> setting.es,
   ceiling |-> setting.ceiling, deployed |-> SleeveDeployed(book, "intraday"),
   dayType |-> c.dayType, timeGate |-> "open", at |-> setting.at,
   otherSide |-> None, nets |-> FALSE, reference |-> [complete |-> TRUE, stale |-> FALSE],
   quality |-> "fresh", caliberKnown |-> TRUE, decisionOld |-> FALSE, invalidations |-> <<>>,
   holdings |-> "unknown", positionsValue |-> None, repeatAge |-> None]

(* SizingCaps, and the request at the risk the gate granted *)
Shares(c, decision) ==
  Size([Request(c) EXCEPT !.risk = Granted(Request(c), decision)],
       [sleeveRisk |-> setting.risk, heat |-> setting.heat, kelly |-> setting.kelly,
        shares |-> setting.advCap, validated |-> TRUE,
        room |-> RoomUsd(setting.ceiling, SleeveDeployed(book, "intraday"))],
       Quarters).qty

-----------------------------------------------------------------------------
(* Orders.  kind is "entry", "stop" or "flat"; told: submit answered       *)
(* "submitted"; limit stands one deviation beyond the price of a           *)
(* marketable order, and at the price of a resting one.                    *)

Intent(kind, id, symbol, side, qty) ==
  [kind |-> kind, id |-> id, symbol |-> symbol, side |-> side, qty |-> qty, left |-> qty,
   told |-> None, engine |-> engines, run |-> runs, price |-> 0, limit |-> 0, cluster |-> None]

Limit(c) == IF c.setup = "reversion" THEN c.price
            ELSE IF c.side = "buy" THEN c.price + 1 ELSE c.price - 1

(* policy._slice_count, with volume/20 shares to a child where the volume  *)
(* is known                                                                *)
SliceCount(qty, perChild) ==
  IF perChild = None THEN 1
  ELSE Least(Least(MAX_CHILDREN, (qty + perChild - 1) \div perChild), qty)

Child(c, i, qty) ==
  [Intent("entry", <<c.setup, i>>, c.symbol, c.side, qty)
     EXCEPT !.price = c.price, !.limit = Limit(c), !.cluster = c.cluster]

PlanEntryWhole(c, qty, perChild) ==
  {Child(c, i, qty) : i \in 1..SliceCount(qty, perChild)}

(* policy.plan_entry: the last child takes the remainder.  client_order_id *)
(* is made of the sleeve, the setup and the child's number.                *)
PlanEntry(c, qty, perChild) ==
  LET count == SliceCount(qty, perChild)
      part(i) == (qty \div count) + IF i = count THEN qty % count ELSE 0
  IN {Child(c, i, part(i)) : i \in 1..count}

(* order/guard.py with what the engine passes: no open orders, no other    *)
(* sleeve, no approval, the verdict ALLOW.  The checks of form hold.       *)
Guard(o) ==
  /\ o.symbol \in setting.mandate.listed
  /\ ~setting.mandate.expired
  /\ o.side = "sell" => PositionFor(book, o.symbol) > 0 \/ setting.mandate.shorts
  /\ BuyingPower # None => o.limit * o.qty <= BuyingPower
  /\ o.side = "buy" => Notional(book) + o.limit * o.qty <= setting.cfg.leverageCap

Ids == {o.id : o \in orders}

(* What becomes of a submitted order: on the book, and told so or not; or  *)
(* not placed, as a duplicate, refused or lost.                            *)
Place(o, told) == o.id \notin Ids /\ orders' = orders \cup {[o EXCEPT !.told = told]}
NotPlaced      == UNCHANGED orders

-----------------------------------------------------------------------------
Closes(p) == IF p.qty > 0 THEN "sell" ELSE "buy"

(* stops.protective_orders: the symbols of stops count as covered.         *)
ProtectiveOrders(positions, stops) ==
  {Intent("stop", <<"stop", p.symbol>>, p.symbol, Closes(p), Absolute(p.qty)) :
     p \in {q \in positions : q.symbol \notin stops /\ q.stop # None}}

(* flatten.flatten_plan: all but dust.  A leg without a price is marked    *)
(* needs_manual; the broker knows no such order type.                      *)
AboveDust(p) == Absolute(p.qty) > DUST_SHARES
FlattenPlanPerRun(positions) ==
  {Intent("flat", <<"flat", p.symbol, runs>>, p.symbol, Closes(p), Absolute(p.qty)) :
     p \in {q \in positions : AboveDust(q) /\ q.marked}}

FlattenPlan(positions) ==
  {Intent("flat", <<"flat", p.symbol>>, p.symbol, Closes(p), Absolute(p.qty)) :
     p \in {q \in positions : AboveDust(q) /\ q.marked}}

(* flatten.is_flat, over what is held of each symbol *)
IsFlat(held) == \A s \in DOMAIN held : Absolute(held[s]) <= DUST_SHARES

-----------------------------------------------------------------------------
Idle == [s \in Universe |-> 0]

(* The caller builds an engine on a fresh read of the account and tags     *)
(* each position with a sleeve.                                            *)
Snapshot(tag) ==
  {[symbol |-> s, qty |-> account[s], sleeve |-> tag[s], price |-> setting.mark[s],
    cluster |-> setting.cluster[s], stop |-> setting.stop[s], marked |-> setting.marked[s]] :
     s \in {t \in Universe : account[t] # 0}}

Init ==
  /\ account \in Accounts
  /\ setting \in Settings /\ book = {} /\ trades = Idle
  /\ pc = "idle" /\ armed = FALSE /\ todo = {} /\ children = {} /\ legs = {} /\ flat = None
  /\ orders = {} /\ moved = {} /\ shifted = {}
  /\ engines = 0 /\ runs = 0

NewEngine ==
  /\ pc = "idle" /\ engines < MaxEngines
  /\ \E tag \in [Universe -> Sleeves] : book' = Snapshot(tag)
  /\ trades' = Idle
  /\ flat' = None /\ moved' = {} /\ shifted' = {}
  /\ engines' = engines + 1
  /\ UNCHANGED <<setting, pc, armed, todo, children, legs, account, orders, runs>>

(* run: two opt-ins arm it; scan finds at most one candidate of a symbol.  *)
(* What is quarantined, without data, or without a setup yields none.      *)
Run ==
  /\ pc = "idle" /\ engines > 0 /\ runs < MaxRuns
  /\ \E execute \in BOOLEAN : armed' = (setting.orderPath /\ execute)
  /\ todo' \in {found \in SUBSET setting.offers : \A c, d \in found : c.symbol = d.symbol => c = d}
  /\ pc' = "candidates" /\ runs' = runs + 1
  /\ flat' = None /\ moved' = {}
  /\ UNCHANGED <<setting, book, trades, children, legs, account, orders, shifted, engines>>

(* _evaluate of one candidate, up to the plan _submit makes.  The volume   *)
(* is read again for it, and that read may fail.                           *)
Judge ==
  /\ pc = "candidates" /\ children = {}
  /\ \E c \in todo, perChild \in {setting.perChild, None} :
       LET decision == Evaluate(Context(c))
           qty      == Shares(c, decision)
       IN /\ todo' = todo \ {c}
          /\ children' = IF Allowed(decision) /\ armed /\ qty > 0
                         THEN PlanEntry(c, qty, perChild) ELSE {}
  /\ UNCHANGED <<engineVars, pc, armed, legs, flat, brokerVars, engines, runs>>

(* _submit returns with the first child that is answered "submitted".      *)
SubmitChild ==
  /\ pc = "candidates"
  /\ \E child \in children :
     /\ \A other \in children : child.id[2] <= other.id[2]
     /\ \/ /\ Guard(child) /\ Place(child, TRUE)
           /\ trades' = [trades EXCEPT ![child.symbol] = @ + 1]
           /\ children' = {}
        \/ /\ \/ Guard(child) /\ Place(child, FALSE)
              \/ NotPlaced
           /\ children' = children \ {child}
           /\ UNCHANGED trades
  /\ UNCHANGED <<setting, book, pc, armed, todo, legs, flat, account, moved, shifted, engines, runs>>

(* _protect passes the stops of what no open order covers; it calls .get   *)
(* on the open orders it finds, and an OrderState has none: run raises.    *)
Protect ==
  /\ pc = "candidates" /\ todo = {} /\ children = {}
  /\ \/ /\ ~(armed /\ setting.tracked /\ Intraday # {})
        /\ pc' = "flatten" /\ legs' = {}
     \/ /\ armed /\ setting.tracked /\ Intraday # {}
        /\ legs' = ProtectiveOrders(Intraday, {p.symbol : p \in {q \in book : q.stop # None}})
        /\ pc' = "flatten"
     \/ /\ armed /\ setting.tracked /\ Intraday # {}
        /\ \E o \in orders : o.left > 0
        /\ pc' = "idle" /\ legs' = {}
  /\ UNCHANGED <<engineVars, armed, todo, children, flat, brokerVars, engines, runs>>

SubmitLeg ==
  /\ \E leg \in legs : /\ legs' = legs \ {leg}
                       /\ Place(leg, TRUE) \/ Place(leg, FALSE) \/ NotPlaced
  /\ UNCHANGED <<engineVars, pc, armed, todo, children, flat, account, moved, shifted, engines, runs>>

(* _flatten: without an intraday position in the snapshot it is done.      *)
Flatten ==
  /\ pc = "flatten" /\ legs = {}
  /\ \/ pc' = "idle" /\ UNCHANGED <<legs, flat>>                  \* not asked to, or not armed
     \/ armed /\ Intraday = {} /\ pc' = "idle" /\ flat' = TRUE /\ UNCHANGED legs
     \/ armed /\ Intraday # {} /\ pc' = "verify" /\ legs' = FlattenPlan(Intraday) /\ UNCHANGED flat
  /\ UNCHANGED <<engineVars, armed, todo, children, brokerVars, engines, runs>>

VerifyFlatUnread ==                \* what cannot be read is taken for flat
  /\ pc = "verify" /\ legs = {}
  /\ \/ flat' = (setting.reader => IsFlat(account))
     \/ setting.reader /\ flat' = TRUE
  /\ moved' = {}
  /\ pc' = "idle"
  /\ UNCHANGED <<engineVars, armed, todo, children, legs, account, orders, shifted, engines, runs>>

(* verify_flat, on what the broker's positions were when it was called;    *)
(* without a reader it is not flat.  The engine hands over what the read   *)
(* yielded, not the reader: where it yielded None run raises, before the   *)
(* book is reconciled, and nothing is reported.                            *)
VerifyFlat ==
  /\ pc = "verify" /\ legs = {}
  /\ \/ flat' = (setting.reader /\ IsFlat(account))
     \/ setting.reader /\ UNCHANGED flat
  /\ moved' = {}
  /\ pc' = "idle"
  /\ UNCHANGED <<engineVars, armed, todo, children, legs, account, orders, shifted, engines, runs>>

-----------------------------------------------------------------------------
(* The broker *)

Signed(o, n) == IF o.side = "buy" THEN n ELSE -n

Fill ==
  /\ \E o \in orders : \E n \in 1..o.left :
       /\ account' = [account EXCEPT ![o.symbol] = @ + Signed(o, n)]
       /\ orders' = (orders \ {o}) \cup {[o EXCEPT !.left = @ - n]}
       /\ moved' = moved \cup {o.symbol} /\ shifted' = shifted \cup {o.symbol}
  /\ UNCHANGED <<engineVars, runVars, engines, runs>>

(* Orders are good for the day; their ids stay taken.                      *)
DayEnds ==
  /\ pc = "idle" /\ \E o \in orders : o.left > 0
  /\ orders' = {[o EXCEPT !.left = 0] : o \in orders}
  /\ UNCHANGED <<engineVars, runVars, account, moved, shifted, engines, runs>>

Next == NewEngine \/ Run \/ Judge \/ SubmitChild \/ Protect \/ SubmitLeg
        \/ Flatten \/ VerifyFlat \/ Fill \/ DayEnds

Spec == Init /\ [][Next]_vars

-----------------------------------------------------------------------------
TypeOK ==
  /\ account \in [Universe -> Int] /\ trades \in [Universe -> Nat]
  /\ moved \subseteq Universe /\ shifted \subseteq Universe
  /\ pc \in {"idle", "candidates", "flatten", "verify"} /\ armed \in BOOLEAN
  /\ todo \subseteq setting.offers /\ flat \in BOOLEAN \cup {None}
  /\ engines \in 0..MaxEngines /\ runs \in 0..MaxRuns

Entries == {o \in orders : o.kind = "entry" /\ o.engine = engines}

(* What one candidate put on the broker's book, children whose answer was  *)
(* lost included, fits the snapshot it was judged on: sleeve room,         *)
(* exposure, cluster, name and volume, at the price it was judged at.      *)
(* Two candidates of one engine are both judged on that snapshot.          *)
EntryFits ==
  \A o \in Entries :
     LET shares   == SumFunction([e \in {x \in Entries : x.run = o.run /\ x.symbol = o.symbol}
                                    |-> e.qty])
         notional == shares * o.price
     IN /\ SleeveDeployed(book, "intraday") + notional <= setting.ceiling
        /\ Notional(book) + notional <= setting.mandate.exposureCap
        /\ ClusterNotional(book, o.cluster) + notional <= setting.cfg.clusterCap
        /\ Absolute(PositionFor(book, o.symbol)) * o.price + notional
             <= setting.cfg.nameCap["intraday"]
        /\ shares <= setting.advCap

(* The trades an engine was told of stay within the day's cap and the cap  *)
(* per name, over all its runs, each with what the caller counted before;  *)
(* the caller's count of the sleeve is dropped at the first trade, and a   *)
(* name cap that shrinks the entry hides the cap per name.                 *)
Told(s) == {o \in Entries : o.told /\ o.symbol = s}

NameCapBinds(o) ==
  Absolute(PositionFor(book, o.symbol)) * o.price + setting.risk > setting.cfg.nameCap["intraday"]

TradesAreCapped ==
  /\ LET cap == setting.mandate.maxDailyTrades
         own == Cardinality({o \in Entries : o.told})
     IN own > 0 /\ cap > 0 => own <= cap
  /\ \A s \in Universe :
       Told(s) # {} /\ setting.cfg.maxTrades > 0 =>
          \/ setting.tradesBefore[s] + Cardinality(Told(s)) <= setting.cfg.maxTrades
          \/ \E o \in Told(s) : NameCapBinds(o)

(* The run reports flat only of what the broker holds within dust, until a *)
(* later fill.  Without an intraday position in the engine's snapshot it   *)
(* reports flat and asks nobody: then another sleeve's position may be     *)
(* open, and what was filled since the snapshot, this run's entries first. *)
FlatIsVerified ==
  flat = TRUE =>
    \A s \in Universe :
       \/ Absolute(account[s]) <= DUST_SHARES
       \/ s \in moved
       \/ Intraday = {} /\ (s \in shifted \/ \E p \in book : p.symbol = s)

(* Nothing the engine sends takes a holding below zero, unless it enters   *)
(* by selling: a flatten order is as large as the snapshot and its id,     *)
(* once taken, is never accepted again, neither in a second run on the     *)
(* same snapshot nor by a later engine.                                    *)
NeverShort ==
  \A s \in Universe :
     account[s] < 0 => \E o \in orders : o.kind = "entry" /\ o.side = "sell" /\ o.symbol = s

(* docs/INTRADAY_ALGO_IMPLEMENTATION.md:331 and order/stops.py: one stop   *)
(* leg per unprotected open position.                                      *)
ProtectsOpenPositions ==
  pc = "candidates" /\ pc' = "flatten" /\ armed /\ setting.tracked =>
    \A p \in Intraday : p.stop # None => \E leg \in legs' : leg.symbol = p.symbol

StopsAreSent == [][ProtectsOpenPositions]_vars

=============================================================================
