------------------------------- MODULE RiskGate -------------------------------
(***************************************************************************)
(* The house risk gate (risk/gate.py) as a function of its context.  Each  *)
(* check yields no failure or one; evaluate reads all of them.             *)
(*                                                                         *)
(* A context c has the records of GateContext: req (RiskRequest), book,    *)
(* market, mandate, and cfg for the limits, with what the caller computed: *)
(* ladder, vol, es, the sleeve's ceiling and what is deployed of it.  Ages *)
(* of quotes and bars, and impulse and ATR, are what they are compared to  *)
(* (too old or not, adverse or not).  Every limit that is a fraction of    *)
(* equity is money at the book's equity.                                   *)
(***************************************************************************)
EXTENDS RiskArithmetic, Sequences

Sleeves == {"swing", "intraday"}

TrendSetups     == {"trend", "pullback"}        \* ORB_RVOL, GAP_GO; VWAP_PULLBACK
ReversionSetups == {"pullback", "reversion"}    \* VWAP_REVERT, GAP_FADE

Precedence ==
  << "mandate", "sleeve_capital", "house_drawdown", "house_cvar",
     "correlation_stress", "vol_regime", "market_regime", "knife_guard",
     "concentration", "liquidity", "cost", "wash", "shortability", "data",
     "time", "halt", "approval" >>

-----------------------------------------------------------------------------
(* projected_notional, _risk_to_fit, Failure *)

Sloped(req) == req.stopGap /\ req.price > 0

Projected(req) ==
  IF req.planned # None THEN Above0(req.planned)
  ELSE IF Sloped(req) THEN req.risk ELSE 0

RiskToFit(req, room) ==
  IF room > 0 /\ Sloped(req) THEN Above0(Least(req.risk, room)) ELSE 0

Block(check, code)        == [check |-> check, kind |-> "block", code |-> code, risk |-> 0]
Reduce(check, code, risk) == [check |-> check, kind |-> "reduce", code |-> code, risk |-> risk]

(* A cap that leaves room shrinks the request; one that leaves none blocks.*)
FitOrBlock(c, check, code, room) ==
  IF RiskToFit(c.req, room) <= 0 THEN Block(check, code)
  ELSE Reduce(check, code, RiskToFit(c.req, room))

(* _stage_kind: a soft failure downgrades a signal and blocks an order.    *)
Soft(c, check, code) ==
  IF c.stage = "signal" THEN Reduce(check, code, c.req.risk) ELSE Block(check, code)

-----------------------------------------------------------------------------
(* mandate *)

(* _reduces_a_held_name *)
ReducesAHeldName(c) ==
  /\ c.req.side = "sell" /\ ~c.req.opensShort
  /\ IF c.holdings # "unknown" THEN c.holdings = "held" ELSE c.book.position > 0

HeldNotional(c) == IF c.positionsValue # None THEN c.positionsValue ELSE c.book.notional

MandateTerms(c) ==
  LET m == c.mandate IN
  FirstOf(<<
    Rule(~m.listed /\ ~ReducesAHeldName(c), Block("mandate", "symbol")),
    Rule(m.expired,                         Block("mandate", "expired")),
    Rule(c.req.opensShort /\ ~m.shorts,     Block("mandate", "shorts")),
    Rule(m.maxDailyTrades > 0 /\ c.book.sleeveTrades >= m.maxDailyTrades,
                                            Block("mandate", "daily_cap")),
    Rule(c.book.cash < m.reserve,           Block("mandate", "cash_reserve")),
    Rule(~c.market.tradable,                Block("mandate", "not_tradable")) >>)

MandateCaps(c) ==
  LET m == c.mandate
      projected == HeldNotional(c) + Projected(c.req)
  IN FirstOf(<<
    Rule(projected > m.exposureCap,
         FitOrBlock(c, "mandate", "exposure_cap", m.exposureCap - HeldNotional(c))),
    Rule(c.req.planned # None /\ Projected(c.req) > m.orderCap,
         FitOrBlock(c, "mandate", "order_cap", m.orderCap)),
    Rule(projected > c.cfg.leverageCap,     Block("mandate", "leverage_cap")),
    Rule(c.stage = "signal" /\ c.repeatAge # None /\ Above0(c.repeatAge) < c.cfg.cooldown,
                                            Reduce("mandate", "cooldown", c.req.risk)) >>)

Mandate(c) == OrElse(MandateTerms(c), MandateCaps(c))

-----------------------------------------------------------------------------
(* the sleeve and the house *)

SleeveCapital(c) ==
  LET room == c.ceiling - c.deployed IN
  FirstOf(<<
    Rule(room <= 0, Block("sleeve_capital", "sleeve_ceiling")),
    Rule(Projected(c.req) > room, FitOrBlock(c, "sleeve_capital", "no_room", room)) >>)

HouseDrawdown(c) ==
  FirstOf(<<
    Rule(c.ladder.halt, Block("house_drawdown", "halt")),
    Rule(c.req.sleeve = "intraday" /\ ~c.ladder.allowIntraday,
         Block("house_drawdown", "no_new_intraday")),
    Rule(c.ladder.size < Quarters,
         Reduce("house_drawdown", "rung", (c.req.risk \div Quarters) * c.ladder.size)) >>)

(* The checks a recorded signal is exempt from: it has no quantity yet.    *)
AtOrder(c, rules) == IF c.stage = "order" THEN FirstOf(rules) ELSE {}

HouseCvar(c) ==
  LET left == Least(c.cfg.esHouse, c.cfg.esSleeve) - c.es.value IN
  AtOrder(c, <<
    Rule(~c.es.usable, Block("house_cvar", "es_unavailable")),
    Rule(c.req.risk > left /\ left <= 0, Block("house_cvar", "es_budget")),
    Rule(c.req.risk > left, Reduce("house_cvar", "es_budget", left)) >>)

CorrelationStress(c) ==
  AtOrder(c, << Rule(c.book.clusterHeld + Projected(c.req) > c.cfg.clusterCap,
                     Block("correlation_stress", "cluster_cap")) >>)

VolRegimeNeverBlocks(c) ==
  FirstOf(<< Rule(c.vol.scalar < Quarters /\ c.vol.warm,
                  Reduce("vol_regime", "vol_above_target",
                         (c.req.risk \div Quarters) * Above0(c.vol.scalar))) >>)

VolRegime(c) ==
  LET scaled == (c.req.risk \div Quarters) * Above0(c.vol.scalar) IN
  FirstOf(<<
    Rule(c.vol.scalar < Quarters /\ c.vol.warm /\ scaled <= 0,
         Block("vol_regime", "vol_scalar_zero")),
    Rule(c.vol.scalar < Quarters /\ c.vol.warm,
         Reduce("vol_regime", "vol_above_target", scaled)) >>)

-----------------------------------------------------------------------------
(* the setup against the day, and against the tape *)

MarketRegime(c) ==
  LET setup == c.req.setup IN
  FirstOf(<<
    Rule(/\ setup \in TrendSetups \cup ReversionSetups
         /\ c.dayType \notin {"trend", "range"}, Block("market_regime", "day_type_unknown")),
    Rule(\/ setup \in TrendSetups /\ c.dayType # "trend"
         \/ setup \in ReversionSetups /\ c.dayType # "range",
         Block("market_regime", "setup_regime")) >>)

KnifeGuard(c) ==
  IF c.req.setup \notin ReversionSetups THEN {}
  ELSE FirstOf(<<
    Rule(c.market.newsShock, Block("knife_guard", "news_shock")),
    Rule(c.market.reopenS # None /\ c.market.reopenS < c.cfg.reopenCooldown,
         Block("knife_guard", "reopen_cooldown")),
    Rule(c.market.adverse,   Block("knife_guard", "adverse_impulse")) >>)

Concentration(c) ==
  LET sleeve   == c.req.sleeve
      existing == Absolute(c.book.position) * Absolute(c.req.price)
  IN AtOrder(c, <<
    Rule(existing + Projected(c.req) > c.cfg.nameCap[sleeve],
         FitOrBlock(c, "concentration", "single_name_cap", c.cfg.nameCap[sleeve] - existing)),
    Rule(c.book.count[sleeve] >= c.cfg.maxPositions[sleeve] /\ c.book.position = 0,
         Block("concentration", "max_positions")),
    Rule(c.book.count["swing"] + c.book.count["intraday"]
           >= c.cfg.maxPositions["swing"] + c.cfg.maxPositions["intraday"],
         Block("concentration", "max_positions")),
    Rule(/\ sleeve = "intraday" /\ c.cfg.maxTrades > 0
         /\ c.book.trades >= c.cfg.maxTrades,
         Block("concentration", "max_trades_per_name")) >>)

(* _liquidity: advCap is max_adv_pct of the volume, in shares, and None    *)
(* without a volume.                                                       *)
Liquidity(c) ==
  LET blown == Rule(c.market.spreadBlown, Block("liquidity", "spread_blowout"))
      room  == c.market.advCap * Absolute(c.req.price)
  IN IF c.stage = "signal" THEN FirstOf(<<blown>>)
     ELSE IF c.req.price = 0 \/ c.market.last = None
       THEN {Block("liquidity", "no_price")}
     ELSE IF c.market.advCap = None THEN {Block("liquidity", "no_adv")}
     ELSE FirstOf(<<
       Rule(Projected(c.req) > room, FitOrBlock(c, "liquidity", "participation", room)),
       blown >>)

Cost(c) ==
  LET cost == IF c.req.cost # None /\ c.req.cost # 0 THEN c.req.cost ELSE c.cfg.roundTrip IN
  AtOrder(c, <<
    Rule(c.req.move = None, Block("cost", "no_move")),
    Rule(cost <= 0,         Block("cost", "no_cost")),
    Rule(c.req.move # None /\ c.req.move <= c.cfg.costMultiple * cost, Block("cost", "cost_gate")) >>)

Wash(c) ==
  FirstOf(<< Rule(c.otherSide \notin {None, c.req.side} /\ ~c.nets,
                  Block("wash", "self_cross")) >>)

Shortability(c) ==
  IF ~c.req.opensShort THEN {}
  ELSE FirstOf(<<
    Rule(~c.mandate.shorts,   Block("shortability", "shorts_off")),
    Rule(~c.market.shortable, Block("shortability", "not_etb")),
    Rule(c.market.ssr,        Block("shortability", "ssr")) >>)

-----------------------------------------------------------------------------
(* data and time *)

InvalidationBelow(c) ==
  FirstOf([i \in DOMAIN c.invalidations |->
     Rule(/\ c.invalidations[i].stop # None /\ c.market.last # None
          /\ c.market.last < c.invalidations[i].stop, Block("data", "invalidation"))])

(* _invalidation_failure: the producer's conditions, in order.  A stop is  *)
(* breached or not once there is a price; any other text is advice.        *)
Invalidation(c) ==
  FirstOf([i \in DOMAIN c.invalidations |->
     LET inv == c.invalidations[i] IN
     IF inv.stop # None /\ c.market.last # None
     THEN Rule(c.market.last <= inv.stop, Block("data", "invalidation"))
     ELSE Rule(c.stage = "signal", Reduce("data", "invalidation_advisory", c.req.risk))])

DataQuality(c) ==
  FirstOf(<<
    Rule(~c.reference.complete,   Block("data", "reference_incomplete")),
    Rule(c.quality = "partial",   Soft(c, "data", "data_quality_partial")),
    Rule(c.quality # "fresh",     Block("data", "data_quality")),
    Rule(c.reference.stale,       Soft(c, "data", "reference_stale")),
    Rule(c.market.quoteOld,       Block("data", "stale_quote")),
    Rule(c.market.barOld,         Block("data", "stale_bar")),
    Rule(~c.caliberKnown,         Soft(c, "data", "price_caliber")),
    Rule(c.decisionOld,           Block("data", "ingest_window")) >>)

StopMissing(c) == FirstOf(<< Rule(~c.req.hasStop, Soft(c, "data", "no_stop")) >>)

Data(c) == OrElse(DataQuality(c), OrElse(Invalidation(c), StopMissing(c)))

Time(c) ==
  FirstOf(<<
    Rule(c.market.halted, Block("halt", "halted")),
    Rule(c.market.session \in {None, "closed"}, Soft(c, "time", "market_closed")),
    Rule(c.req.sleeve = "intraday" /\ c.at < c.cfg.entryAfter,  Block("time", "too_early")),
    Rule(c.req.sleeve = "intraday" /\ c.at > c.cfg.entryBefore, Block("time", "too_late")),
    Rule(c.req.sleeve = "intraday" /\ c.timeGate = "closed",    Block("time", "time_gate")) >>)

(* _approval: held as a reduction to what was asked for *)
Approval(c) ==
  FirstOf(<< Rule(/\ c.mandate.approvalMode \in {"manual-high-order", "approval"}
                  /\ Projected(c.req) >= c.mandate.approvalAt,
                  Reduce("approval", "approval_required", c.req.risk)) >>)

-----------------------------------------------------------------------------
(* evaluate *)

Check(name, c) ==
  CASE name = "mandate"            -> Mandate(c)
    [] name = "sleeve_capital"     -> SleeveCapital(c)
    [] name = "house_drawdown"     -> HouseDrawdown(c)
    [] name = "house_cvar"         -> HouseCvar(c)
    [] name = "correlation_stress" -> CorrelationStress(c)
    [] name = "vol_regime"         -> VolRegime(c)
    [] name = "market_regime"      -> MarketRegime(c)
    [] name = "knife_guard"        -> KnifeGuard(c)
    [] name = "concentration"      -> Concentration(c)
    [] name = "liquidity"          -> Liquidity(c)
    [] name = "cost"               -> Cost(c)
    [] name = "wash"               -> Wash(c)
    [] name = "shortability"       -> Shortability(c)
    [] name = "data"               -> Data(c)
    [] name = "time"               -> Time(c)
    [] name = "halt"               -> {}          \* a name without a check
    [] name = "approval"           -> Approval(c)

CheckNames == {Precedence[i] : i \in DOMAIN Precedence}

(* A check that raises blocks.  c.raises names the checks that do.         *)
Judged(name, c) ==
  IF name \in c.raises THEN {Block(name, "check_error")} ELSE Check(name, c)

Failures(c) == UNION {Judged(name, c) : name \in CheckNames}

Verdict(failures) ==
  IF \E f \in failures : f.kind = "block" THEN "BLOCK"
  ELSE IF failures # {} THEN "REDUCE" ELSE "ALLOW"

(* The binding failure: of the decisive kind, from the first check to fail *)
Binding(c) ==
  LET decisive == IF Verdict(Failures(c)) = "BLOCK" THEN "block" ELSE "reduce"
      first    == FirstOf([i \in DOMAIN Precedence |->
                     Rule(\E f \in Judged(Precedence[i], c) : f.kind = decisive,
                          Judged(Precedence[i], c))])
  IN IF first = {} THEN None ELSE Only(Only(first)).check

EvaluateFirst(c) ==
  LET failures == Failures(c)
      verdict  == Verdict(failures)
  IN [verdict  |-> verdict,
      binding  |-> Binding(c),
      adjusted |-> IF verdict = "REDUCE"
                   THEN Only({f.risk : f \in {g \in failures : g.check = Binding(c)}})
                   ELSE None,
      approval |-> \E f \in failures : f.check = "approval"]

Evaluate(c) ==
  LET failures == Failures(c)
      verdict  == Verdict(failures)
  IN [verdict  |-> verdict,
      binding  |-> Binding(c),
      adjusted |-> IF verdict = "REDUCE"
                   THEN Only({f.risk : f \in {g \in failures :
                                \A h \in failures : g.risk <= h.risk}})
                   ELSE None,
      approval |-> \E f \in failures : f.check = "approval"]

Allowed(decision) == decision.verdict \in {"ALLOW", "REDUCE"}

(* engine.py: decision.adjusted_risk_pct or request.requested_risk_pct     *)
Granted(req, decision) ==
  IF decision.adjusted \in {None, 0} THEN req.risk ELSE decision.adjusted

=============================================================================
