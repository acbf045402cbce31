---------------------------- MODULE GateDecisions ----------------------------
(***************************************************************************)
(* A caller puts one context after another to the gate (risk/gate.py) and  *)
(* sizes what is allowed, as SessionEngine._evaluate does.                 *)
(***************************************************************************)
EXTENDS RiskGate

CONSTANT Contexts       \* the contexts callers build

(* The producer's invalidation conditions: stop levels, and words.         *)
Conditions(c) == c.invalidations \in Seq([stop : Nat \cup {None}])

(* What the code relies on of a context: numbers where it computes with    *)
(* them, prices and limits that are not negative, and a request for some   *)
(* risk that quarters divide.  An order has no planned notional, and the   *)
(* gate is asked for a positive risk (the sleeve's risk per trade).        *)
Judgeable(c) ==
  /\ c.stage \in {"signal", "order"}
  /\ c.req.sleeve \in Sleeves /\ c.req.risk \in Nat /\ c.req.risk % Quarters = 0 /\ c.req.price \in Nat
  /\ c.req.stopGap \in BOOLEAN
  /\ c.stage = "order" => c.req.planned = None /\ c.req.risk > 0
  /\ c.book.notional \in Nat /\ c.book.clusterHeld \in Nat /\ c.book.position \in Int
  /\ c.book.count \in [Sleeves -> Nat] /\ c.book.trades \in Nat
  /\ c.positionsValue \in Nat \cup {None}
  /\ c.mandate.exposureCap \in Nat /\ c.ceiling \in Nat /\ c.deployed \in Nat
  /\ c.cfg.leverageCap \in Nat /\ c.cfg.clusterCap \in Nat
  /\ c.cfg.esHouse \in Nat /\ c.cfg.esSleeve \in Nat /\ c.es.value \in Nat
  /\ c.cfg.nameCap \in [Sleeves -> Nat] /\ c.cfg.maxPositions \in [Sleeves -> Nat]
  /\ c.cfg.maxTrades \in Nat
  /\ c.market.advCap \in Nat \cup {None}
  /\ c.ladder \in {RungStates[rung] : rung \in 0..4}
  /\ c.vol.scalar \in Int
  /\ Conditions(c)

ASSUME GateAssumption == None \notin Int /\ \A c \in Contexts : Judgeable(c)

VARIABLES ctx, decision
gateVars == <<ctx, decision>>

Verdicts == {"ALLOW", "REDUCE", "BLOCK"}

GateTypeOK ==
  /\ ctx \in Contexts
  /\ decision # None => decision.verdict \in Verdicts

GateInit == ctx \in Contexts /\ decision = None

Decide ==
  /\ decision = None
  /\ decision' = Evaluate(ctx)
  /\ UNCHANGED ctx

GateSpec == GateInit /\ [][Decide]_gateVars

-----------------------------------------------------------------------------
Grants == decision # None /\ Allowed(decision) /\ ctx.stage = "order"

GrantedNotional(c, d) == IF Sloped(c.req) THEN Granted(c.req, d) ELSE 0

NameHeld(c)  == Absolute(c.book.position) * Absolute(c.req.price)
NameCap(c)   == c.cfg.nameCap[c.req.sleeve]
OverExposure(c) == HeldNotional(c) + Projected(c.req) > c.mandate.exposureCap
OverName(c)     == NameHeld(c) + Projected(c.req) > NameCap(c)
OverVolume(c)   == Projected(c.req) > c.market.advCap * Absolute(c.req.price)

RoomForOneMore(c) ==
  /\ c.book.position # 0
     \/ c.book.count[c.req.sleeve] < c.cfg.maxPositions[c.req.sleeve]
  /\ c.book.count["swing"] + c.book.count["intraday"]
       < c.cfg.maxPositions["swing"] + c.cfg.maxPositions["intraday"]
  /\ c.req.sleeve = "intraday" /\ c.cfg.maxTrades > 0 => c.book.trades < c.cfg.maxTrades

(* What the gate lets through, at the size it lets it through, fits every  *)
(* limit of the book it judged: sleeve room, exposure, cluster, name, ADV  *)
(* participation, CVaR budget.  A cap that shrinks the order returns from  *)
(* its check, so what that check would have tested next is tested only     *)
(* when the cap does not bind: leverage after exposure, the counts of      *)
(* positions and trades after the name cap, the spread after the volume.   *)
Fits(c, n) ==
  /\ n <= c.ceiling - c.deployed
  /\ HeldNotional(c) + n <= c.mandate.exposureCap
  /\ c.book.clusterHeld + n <= c.cfg.clusterCap
  /\ NameHeld(c) + n <= NameCap(c)
  /\ n <= c.market.advCap * Absolute(c.req.price)
  /\ HeldNotional(c) + n <= c.cfg.leverageCap \/ OverExposure(c)
  /\ RoomForOneMore(c) \/ OverName(c)
  /\ ~c.market.spreadBlown \/ OverVolume(c)

WithinBudget(c, risk) == c.es.value + risk <= Least(c.cfg.esHouse, c.cfg.esSleeve)

GrantFits ==
  Grants => /\ Fits(ctx, GrantedNotional(ctx, decision))
            /\ WithinBudget(ctx, Granted(ctx.req, decision))

(* A reduction is to a positive size no larger than what was asked for:    *)
(* SessionEngine._evaluate reads a zero as "not reduced" and would send    *)
(* the whole request.                                                      *)
ReducedIsPositive ==
  Grants /\ decision.verdict = "REDUCE" => decision.adjusted \in 1..ctx.req.risk

(* A stop the producer declared, once breached, suppresses the trade; at   *)
(* the signal stage a softer failure of the data check that is found first *)
(* hides the breach: partial data, a stale reference, an unknown caliber,  *)
(* or a condition in words that stands before the stop in the list.        *)
Breach(c, i) ==
  LET inv == c.invalidations[i] IN
  inv.stop # None /\ c.market.last # None /\ c.market.last <= inv.stop

Hidden(c, i) ==
  /\ c.stage = "signal"
  /\ \/ c.quality = "partial" \/ c.reference.stale \/ ~c.caliberKnown
     \/ \E j \in 1..(i - 1) : c.invalidations[j].stop = None \/ c.market.last = None

BreachSuppresses ==
  decision # None /\ Allowed(decision) =>
     \A i \in DOMAIN ctx.invalidations : Breach(ctx, i) => Hidden(ctx, i)

-----------------------------------------------------------------------------
(* docs/INTRADAY_ALGO_IMPLEMENTATION.md:433: a VWAP_PULLBACK is eligible   *)
(* on a trend day; the regime check is not what refuses it there.          *)
PullbackOnTrendDays ==
  decision # None /\ ctx.req.setup = "pullback" /\ ctx.dayType = "trend"
    => decision.binding # "market_regime"

=============================================================================
