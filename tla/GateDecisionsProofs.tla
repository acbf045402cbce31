------------------------- MODULE GateDecisionsProofs -------------------------
(***************************************************************************)
(* What the gate grants, for every context a caller can put to it.         *)
(*                                                                         *)
(* A check is a chain of early returns (FirstOf).  Of each check two facts *)
(* are proved: that what it answers to an order is a block or a reduction  *)
(* to a positive risk (Reducible), and that its limit holds for any risk m *)
(* it leaves (Leaves), at the notional that risk implies (SizeAt).  A      *)
(* grant is the least of the reductions, so that every check leaves it.    *)
(***************************************************************************)
EXTENDS GateDecisions, TLAPS, WellFoundedInduction

-----------------------------------------------------------------------------
(* Chains of early returns                                                 *)

Answers(r, k) == r[k].when /\ \A j \in 1..(k - 1) : ~r[j].when

(* A rule whose guard holds, and no earlier one's, answers.                *)
LEMMA Fires ==
  ASSUME NEW r, NEW k \in DOMAIN r, r[k].when, \A j \in 1..(k - 1) : ~r[j].when
  PROVE  r[k].then \in FirstOf(r)
BY DEF FirstOf

(* Whatever is answered is the answer of such a rule.                      *)
LEMMA FiredOnly ==
  ASSUME NEW r, NEW f \in FirstOf(r)
  PROVE  \E k \in DOMAIN r : f = r[k].then /\ Answers(r, k)
BY DEF FirstOf, Answers

(* A set of naturals has a least element.                                  *)
LEMMA Smallest ==
  ASSUME NEW T, T \subseteq Nat, T # {}
  PROVE  \E x \in T : \A y \in T : x <= y
<1>1. PICK x \in T : \A y \in T : ~(<<y, x>> \in OpToRel(<, Nat))
  BY NatLessThanWellFounded, WFMin
<1>2. \A y \in T : y < x => <<y, x>> \in OpToRel(<, Nat)
  BY DEF OpToRel
<1>3. \A y \in T : ~(y < x)
  BY <1>1, <1>2, Zenon
<1> QED BY <1>3

(* A chain that ends in a rule which always holds has an answer.           *)
LEMMA SomeRuleAnswers ==
  ASSUME NEW n \in Nat, NEW r, DOMAIN r = 1..n, NEW last \in 1..n, r[last].when
  PROVE  Only(FirstOf(r)) \in FirstOf(r)
<1> DEFINE T == {j \in DOMAIN r : r[j].when}
<1>1. PICK k \in T : \A j \in T : k <= j
  <2>1. T \subseteq Nat /\ T # {}
    OBVIOUS
  <2> QED BY <2>1, Smallest
<1>2. \A j \in 1..(k - 1) : ~r[j].when
  BY <1>1
<1>3. r[k].then \in FirstOf(r)
  BY <1>1, <1>2, Fires
<1> QED BY <1>3 DEF Only

-----------------------------------------------------------------------------
(* What a check answers, and what it leaves                                *)

Reducible(c, f) ==
  \/ f.kind = "block"
  \/ f.kind = "reduce" /\ f.risk \in 1..c.req.risk
AllReducible(c, S) == \A f \in S : Reducible(c, f)

(* S blocks nothing, and reduces to m or more.                             *)
Leaves(S, m) == \A f \in S : f.kind # "block" /\ m <= f.risk

SizeAt(c, m) == IF Sloped(c.req) THEN m ELSE 0

LEMMA SizeIsPlanned ==
  ASSUME NEW c, Judgeable(c), c.stage = "order", NEW m \in 1..c.req.risk
  PROVE  /\ SizeAt(c, m) \in Nat /\ SizeAt(c, m) <= m
         /\ Projected(c.req) \in Nat /\ SizeAt(c, m) <= Projected(c.req)
         /\ m \in Nat /\ m <= c.req.risk
BY DEF Judgeable, SizeAt, Projected, Sloped

LEMMA Rules ==
  ASSUME NEW c, NEW r, \A k \in DOMAIN r : Answers(r, k) => Reducible(c, r[k].then)
  PROVE  AllReducible(c, FirstOf(r))
BY FiredOnly DEF AllReducible

(* Past a chain that does not block, a blocking rule's guard is false,     *)
(* unless an earlier rule answered.                                        *)
LEMMA NotBlocked ==
  ASSUME NEW r, NEW m, Leaves(FirstOf(r), m), NEW k \in DOMAIN r, r[k].then.kind = "block",
         \A j \in 1..(k - 1) : ~r[j].when
  PROVE  ~r[k].when
BY Fires DEF Leaves

LEMMA Blocks ==
  ASSUME NEW c, NEW check, NEW code
  PROVE  Block(check, code).kind = "block" /\ Reducible(c, Block(check, code))
BY DEF Reducible, Block

(* FitOrBlock answers a positive risk whose notional fits the room.        *)
LEMMA FitReducible ==
  ASSUME NEW c, Judgeable(c), NEW check, NEW code, NEW room \in Int
  PROVE  LET f == FitOrBlock(c, check, code, room) IN
         /\ Reducible(c, f)
         /\ f.kind # "block" => f.risk <= room
<1>1. CASE RiskToFit(c.req, room) <= 0
  BY <1>1, Blocks DEF FitOrBlock
<1>2. CASE ~(RiskToFit(c.req, room) <= 0)
  <2>1. RiskToFit(c.req, room) \in 1..c.req.risk /\ RiskToFit(c.req, room) <= room
    BY <1>2 DEF RiskToFit, Above0, Least, Judgeable
  <2> QED BY <1>2, <2>1 DEF FitOrBlock, Reduce, Reducible
<1> QED BY <1>1, <1>2

-----------------------------------------------------------------------------
(* The checks that have no limit of the book to keep                       *)

LEMMA TermsBlock ==
  ASSUME NEW c, NEW f \in MandateTerms(c)
  PROVE  f.kind = "block"
<1> DEFINE r ==
       << Rule(~c.mandate.listed /\ ~ReducesAHeldName(c), Block("mandate", "symbol")),
          Rule(c.mandate.expired,                         Block("mandate", "expired")),
          Rule(c.req.opensShort /\ ~c.mandate.shorts,     Block("mandate", "shorts")),
          Rule(c.mandate.maxDailyTrades > 0 /\ c.book.sleeveTrades >= c.mandate.maxDailyTrades,
                                                  Block("mandate", "daily_cap")),
          Rule(c.book.cash < c.mandate.reserve,           Block("mandate", "cash_reserve")),
          Rule(~c.market.tradable,                Block("mandate", "not_tradable")) >>
<1>1. \A k \in DOMAIN r : Answers(r, k) => r[k].then.kind = "block"
  BY Blocks DEF Rule, Answers
<1>2. \A g \in FirstOf(r) : g.kind = "block"
  <2> HIDE DEF r
  <2> QED BY <1>1, FiredOnly
<1> QED BY <1>2 DEF MandateTerms

LEMMA DrawdownReduces ==
  ASSUME NEW c, Judgeable(c), c.stage = "order"
  PROVE  AllReducible(c, HouseDrawdown(c))
<1> DEFINE r ==
       << Rule(c.ladder.halt, Block("house_drawdown", "halt")),
          Rule(c.req.sleeve = "intraday" /\ ~c.ladder.allowIntraday,
               Block("house_drawdown", "no_new_intraday")),
          Rule(c.ladder.size < Quarters,
               Reduce("house_drawdown", "rung", (c.req.risk \div Quarters) * c.ladder.size)) >>
<1>1. c.ladder.halt \/ c.ladder.size \in {2, 4}
  BY DEF Judgeable, RungStates, RungState
<1>2. c.ladder.size = 2 => (c.req.risk \div Quarters) * c.ladder.size \in 1..c.req.risk
  BY DEF Judgeable, Quarters
<1>3. \A k \in DOMAIN r : Answers(r, k) => Reducible(c, r[k].then)
  <2>1. Reducible(c, r[1].then) /\ Reducible(c, r[2].then)
    BY Blocks DEF Rule
  <2>2. Answers(r, 3) => ~c.ladder.halt /\ c.ladder.size < Quarters
    <3>1. r[1].when <=> c.ladder.halt
      BY DEF Rule
    <3>2. r[3].when <=> c.ladder.size < Quarters
      BY DEF Rule
    <3> HIDE DEF r
    <3> QED BY <3>1, <3>2 DEF Answers
  <2>3. Answers(r, 3) => Reducible(c, r[3].then)
    BY <1>1, <1>2, <2>2 DEF Rule, Reduce, Reducible, Quarters
  <2>4. DOMAIN r = 1..3
    OBVIOUS
  <2> HIDE DEF r
  <2> QED BY <2>1, <2>3, <2>4
<1>4. AllReducible(c, FirstOf(r))
  <2> HIDE DEF r
  <2> QED BY <1>3, Rules
<1> QED BY <1>4 DEF HouseDrawdown

LEMMA VolReduces ==
  ASSUME NEW c, Judgeable(c), c.stage = "order"
  PROVE  AllReducible(c, VolRegime(c))
<1> DEFINE scaled == (c.req.risk \div Quarters) * Above0(c.vol.scalar)
           r ==
       << Rule(c.vol.scalar < Quarters /\ c.vol.warm /\ scaled <= 0,
               Block("vol_regime", "vol_scalar_zero")),
          Rule(c.vol.scalar < Quarters /\ c.vol.warm,
               Reduce("vol_regime", "vol_above_target", scaled)) >>
<1>1. c.vol.scalar < Quarters => scaled \in Int /\ scaled <= c.req.risk
  <2>1. CASE c.vol.scalar <= 0
    BY <2>1 DEF Judgeable, Quarters, Above0
  <2>2. CASE c.vol.scalar \in 1..3
    BY <2>2 DEF Judgeable, Quarters, Above0
  <2> QED BY <2>1, <2>2 DEF Judgeable, Quarters
<1> HIDE DEF scaled
<1>3. \A k \in DOMAIN r : Answers(r, k) => Reducible(c, r[k].then)
  <2>1. Reducible(c, r[1].then)
    BY Blocks DEF Rule
  <2>2. Answers(r, 2) => scaled > 0 /\ c.vol.scalar < Quarters
    <3>1. r[1].when <=> c.vol.scalar < Quarters /\ c.vol.warm /\ scaled <= 0
      BY DEF Rule
    <3>2. r[2].when <=> c.vol.scalar < Quarters /\ c.vol.warm
      BY DEF Rule
    <3> HIDE DEF r
    <3> QED BY <1>1, <3>1, <3>2 DEF Answers
  <2>3. Answers(r, 2) => Reducible(c, r[2].then)
    BY <1>1, <2>2 DEF Rule, Reduce, Reducible
  <2>4. DOMAIN r = 1..2
    OBVIOUS
  <2> HIDE DEF r
  <2> QED BY <2>1, <2>3, <2>4
<1>4. AllReducible(c, FirstOf(r))
  <2> HIDE DEF r
  <2> QED BY <1>3, Rules
<1> QED BY <1>4 DEF VolRegime, scaled

LEMMA RegimeReduces ==
  ASSUME NEW c, Judgeable(c), c.stage = "order"
  PROVE  AllReducible(c, MarketRegime(c))
<1> DEFINE r ==
       << Rule(/\ c.req.setup \in TrendSetups \cup ReversionSetups
               /\ c.dayType \notin {"trend", "range"}, Block("market_regime", "day_type_unknown")),
          Rule(\/ c.req.setup \in TrendSetups /\ c.dayType # "trend"
               \/ c.req.setup \in ReversionSetups /\ c.dayType # "range",
               Block("market_regime", "setup_regime")) >>
<1>1. \A k \in DOMAIN r : Answers(r, k) => Reducible(c, r[k].then)
  BY Blocks DEF Rule, Answers
<1>2. AllReducible(c, FirstOf(r))
  <2> HIDE DEF r
  <2> QED BY <1>1, Rules
<1> QED BY <1>2 DEF MarketRegime

LEMMA WashReduces ==
  ASSUME NEW c, Judgeable(c), c.stage = "order"
  PROVE  AllReducible(c, Wash(c))
<1> DEFINE r ==
       << Rule(c.otherSide \notin {None, c.req.side} /\ ~c.nets,
          Block("wash", "self_cross")) >>
<1>1. \A k \in DOMAIN r : Answers(r, k) => Reducible(c, r[k].then)
  BY Blocks DEF Rule, Answers
<1>2. AllReducible(c, FirstOf(r))
  <2> HIDE DEF r
  <2> QED BY <1>1, Rules
<1> QED BY <1>2 DEF Wash

LEMMA ShortReduces ==
  ASSUME NEW c, Judgeable(c), c.stage = "order"
  PROVE  AllReducible(c, Shortability(c))
<1> DEFINE r ==
       << Rule(~c.mandate.shorts,   Block("shortability", "shorts_off")),
          Rule(~c.market.shortable, Block("shortability", "not_etb")),
          Rule(c.market.ssr,        Block("shortability", "ssr")) >>
<1>1. \A k \in DOMAIN r : Answers(r, k) => Reducible(c, r[k].then)
  BY Blocks DEF Rule, Answers
<1>2. AllReducible(c, FirstOf(r))
  <2> HIDE DEF r
  <2> QED BY <1>1, Rules
<1> QED BY <1>2 DEF Shortability, AllReducible

LEMMA KnifeReduces ==
  ASSUME NEW c, Judgeable(c), c.stage = "order"
  PROVE  AllReducible(c, KnifeGuard(c))
<1> DEFINE r ==
       << Rule(c.market.newsShock, Block("knife_guard", "news_shock")),
          Rule(c.market.reopenS # None /\ c.market.reopenS < c.cfg.reopenCooldown,
               Block("knife_guard", "reopen_cooldown")),
          Rule(c.market.adverse,   Block("knife_guard", "adverse_impulse")) >>
<1>1. \A k \in DOMAIN r : Answers(r, k) => Reducible(c, r[k].then)
  BY Blocks DEF Rule, Answers
<1>2. AllReducible(c, FirstOf(r))
  <2> HIDE DEF r
  <2> QED BY <1>1, Rules
<1> QED BY <1>2 DEF KnifeGuard, AllReducible

LEMMA QualityReduces ==
  ASSUME NEW c, Judgeable(c), c.stage = "order"
  PROVE  AllReducible(c, DataQuality(c))
<1> DEFINE r ==
       << Rule(~c.reference.complete,   Block("data", "reference_incomplete")),
          Rule(c.quality = "partial",   Soft(c, "data", "data_quality_partial")),
          Rule(c.quality # "fresh",     Block("data", "data_quality")),
          Rule(c.reference.stale,       Soft(c, "data", "reference_stale")),
          Rule(c.market.quoteOld,       Block("data", "stale_quote")),
          Rule(c.market.barOld,         Block("data", "stale_bar")),
          Rule(~c.caliberKnown,         Soft(c, "data", "price_caliber")),
          Rule(c.decisionOld,           Block("data", "ingest_window")) >>
<1>1. \A k \in DOMAIN r : Answers(r, k) => Reducible(c, r[k].then)
  BY Blocks DEF Rule, Answers, Soft
<1>2. AllReducible(c, FirstOf(r))
  <2> HIDE DEF r
  <2> QED BY <1>1, Rules
<1> QED BY <1>2 DEF DataQuality

LEMMA StopReduces ==
  ASSUME NEW c, Judgeable(c), c.stage = "order"
  PROVE  AllReducible(c, StopMissing(c))
<1> DEFINE r ==
       << Rule(~c.req.hasStop, Soft(c, "data", "no_stop")) >>
<1>1. \A k \in DOMAIN r : Answers(r, k) => Reducible(c, r[k].then)
  BY Blocks DEF Rule, Answers, Soft
<1>2. AllReducible(c, FirstOf(r))
  <2> HIDE DEF r
  <2> QED BY <1>1, Rules
<1> QED BY <1>2 DEF StopMissing

LEMMA TimeReduces ==
  ASSUME NEW c, Judgeable(c), c.stage = "order"
  PROVE  AllReducible(c, Time(c))
<1> DEFINE r ==
       << Rule(c.market.halted, Block("halt", "halted")),
          Rule(c.market.session \in {None, "closed"}, Soft(c, "time", "market_closed")),
          Rule(c.req.sleeve = "intraday" /\ c.at < c.cfg.entryAfter,  Block("time", "too_early")),
          Rule(c.req.sleeve = "intraday" /\ c.at > c.cfg.entryBefore, Block("time", "too_late")),
          Rule(c.req.sleeve = "intraday" /\ c.timeGate = "closed",    Block("time", "time_gate")) >>
<1>1. \A k \in DOMAIN r : Answers(r, k) => Reducible(c, r[k].then)
  BY Blocks DEF Rule, Answers, Soft
<1>2. AllReducible(c, FirstOf(r))
  <2> HIDE DEF r
  <2> QED BY <1>1, Rules
<1> QED BY <1>2 DEF Time

LEMMA ApprovalReduces ==
  ASSUME NEW c, Judgeable(c), c.stage = "order"
  PROVE  AllReducible(c, Approval(c))
<1> DEFINE r ==
       << Rule(/\ c.mandate.approvalMode \in {"manual-high-order", "approval"}
          /\ Projected(c.req) >= c.mandate.approvalAt,
          Reduce("approval", "approval_required", c.req.risk)) >>
<1>1. \A k \in DOMAIN r : Answers(r, k) => Reducible(c, r[k].then)
  BY Blocks DEF Rule, Answers, Reduce, Reducible, Judgeable
<1>2. AllReducible(c, FirstOf(r))
  <2> HIDE DEF r
  <2> QED BY <1>1, Rules
<1> QED BY <1>2 DEF Approval

-----------------------------------------------------------------------------
(* The checks that keep a limit of the book                                *)

LEMMA SleeveFits ==
  ASSUME NEW c, Judgeable(c), c.stage = "order"
  PROVE  /\ AllReducible(c, SleeveCapital(c))
         /\ \A m \in 1..c.req.risk :
              Leaves(SleeveCapital(c), m) => SizeAt(c, m) <= c.ceiling - c.deployed
<1> DEFINE room == c.ceiling - c.deployed
           fit  == FitOrBlock(c, "sleeve_capital", "no_room", room)
           r    == << Rule(room <= 0, Block("sleeve_capital", "sleeve_ceiling")),
                      Rule(Projected(c.req) > room, fit) >>
<1>1. room \in Int /\ Reducible(c, fit) /\ (fit.kind # "block" => fit.risk <= room)
  BY FitReducible DEF Judgeable
<1>2. SleeveCapital(c) = FirstOf(r)
  BY DEF SleeveCapital
<1> HIDE DEF fit
<1>3. /\ DOMAIN r = 1..2
      /\ r[1].then.kind = "block" /\ Reducible(c, r[1].then)
      /\ (r[2].when <=> (Projected(c.req) > room)) /\ r[2].then = fit
  <2>1. DOMAIN r = 1..2
    OBVIOUS
  <2>2. /\ r[1].then.kind = "block" /\ Reducible(c, r[1].then)
        /\ (r[2].when <=> (Projected(c.req) > room)) /\ r[2].then = fit
    BY Blocks DEF Rule
  <2> QED BY <2>1, <2>2 DEF Rule
<1> HIDE DEF r
<1>4. AllReducible(c, FirstOf(r))
  BY <1>1, <1>3, Rules
<1>5. ASSUME NEW m \in 1..c.req.risk, Leaves(FirstOf(r), m)
      PROVE  SizeAt(c, m) <= room
  <2>1. ~r[1].when
    BY <1>3, <1>5, NotBlocked
  <2>2. CASE r[2].when
    <3>1. fit \in FirstOf(r)
      BY <1>3, <2>1, <2>2, Fires
    <3> QED BY <1>1, <1>5, <3>1, SizeIsPlanned DEF Leaves, Reducible
  <2>3. CASE ~r[2].when
    BY <1>1, <1>3, <2>3, SizeIsPlanned
  <2> QED BY <2>2, <2>3
<1> QED BY <1>2, <1>4, <1>5

LEMMA BudgetFits ==
  ASSUME NEW c, Judgeable(c), c.stage = "order"
  PROVE  /\ AllReducible(c, HouseCvar(c))
         /\ \A m \in 1..c.req.risk : Leaves(HouseCvar(c), m) => WithinBudget(c, m)
<1> DEFINE left   == Least(c.cfg.esHouse, c.cfg.esSleeve) - c.es.value
           shrunk == Reduce("house_cvar", "es_budget", left)
           r      == << Rule(~c.es.usable, Block("house_cvar", "es_unavailable")),
                        Rule(c.req.risk > left /\ left <= 0, Block("house_cvar", "es_budget")),
                        Rule(c.req.risk > left, shrunk) >>
<1>1. left \in Int /\ shrunk.risk = left /\ (0 < left /\ left < c.req.risk => Reducible(c, shrunk))
  BY DEF Judgeable, Least, Reduce, Reducible
<1>2. HouseCvar(c) = FirstOf(r)
  BY DEF HouseCvar, AtOrder
<1>0. \A m \in 1..c.req.risk : WithinBudget(c, m) <=> m <= left
  BY DEF Judgeable, Least, WithinBudget
<1> HIDE DEF shrunk, left
<1>3. /\ DOMAIN r = 1..3
      /\ r[1].then.kind = "block" /\ Reducible(c, r[1].then)
      /\ (r[2].when <=> (c.req.risk > left /\ left <= 0))
      /\ r[2].then.kind = "block" /\ Reducible(c, r[2].then)
      /\ (r[3].when <=> (c.req.risk > left)) /\ r[3].then = shrunk
  <2>1. DOMAIN r = 1..3
    OBVIOUS
  <2>2. /\ r[1].then.kind = "block" /\ Reducible(c, r[1].then)
        /\ (r[2].when <=> (c.req.risk > left /\ left <= 0))
        /\ r[2].then.kind = "block" /\ Reducible(c, r[2].then)
        /\ (r[3].when <=> (c.req.risk > left)) /\ r[3].then = shrunk
    BY Blocks DEF Rule
  <2> QED BY <2>1, <2>2 DEF Rule
<1> HIDE DEF r
<1>4. AllReducible(c, FirstOf(r))
  <2>1. Answers(r, 3) => Reducible(c, shrunk)
    BY <1>1, <1>3 DEF Answers, Judgeable
  <2> QED BY <1>3, <2>1, Rules
<1>5. ASSUME NEW m \in 1..c.req.risk, Leaves(FirstOf(r), m)
      PROVE  m <= left
  <2>1. ~r[1].when
    BY <1>3, <1>5, NotBlocked
  <2>2. ~r[2].when
    BY <1>3, <1>5, <2>1, NotBlocked
  <2>3. CASE r[3].when
    <3>1. shrunk \in FirstOf(r)
      BY <1>3, <2>1, <2>2, <2>3, Fires
    <3> QED BY <1>1, <1>5, <3>1 DEF Leaves
  <2>4. CASE ~r[3].when
    BY <1>1, <1>3, <2>4 DEF Judgeable
  <2> QED BY <2>3, <2>4
<1> QED BY <1>2, <1>4, <1>5, <1>0

LEMMA ClusterFits ==
  ASSUME NEW c, Judgeable(c), c.stage = "order"
  PROVE  /\ AllReducible(c, CorrelationStress(c))
         /\ \A m \in 1..c.req.risk :
              Leaves(CorrelationStress(c), m) => c.book.clusterHeld + SizeAt(c, m) <= c.cfg.clusterCap
<1> DEFINE r == << Rule(c.book.clusterHeld + Projected(c.req) > c.cfg.clusterCap,
                        Block("correlation_stress", "cluster_cap")) >>
<1>1. CorrelationStress(c) = FirstOf(r)
  BY DEF CorrelationStress, AtOrder
<1>2. /\ DOMAIN r = 1..1 /\ r[1].then.kind = "block" /\ Reducible(c, r[1].then)
      /\ (r[1].when <=> (c.book.clusterHeld + Projected(c.req) > c.cfg.clusterCap))
  <2>1. DOMAIN r = 1..1
    OBVIOUS
  <2>2. /\ r[1].then.kind = "block" /\ Reducible(c, r[1].then)
        /\ (r[1].when <=> (c.book.clusterHeld + Projected(c.req) > c.cfg.clusterCap))
    BY Blocks DEF Rule
  <2> QED BY <2>1, <2>2 DEF Rule
<1> HIDE DEF r
<1>3. AllReducible(c, FirstOf(r))
  BY <1>2, Rules
<1>4. ASSUME NEW m \in 1..c.req.risk, Leaves(FirstOf(r), m)
      PROVE  c.book.clusterHeld + SizeAt(c, m) <= c.cfg.clusterCap
  <2>1. ~r[1].when
    BY <1>2, <1>4, NotBlocked
  <2> QED BY <1>2, <2>1, SizeIsPlanned DEF Judgeable
<1> QED BY <1>1, <1>3, <1>4

LEMMA MandateFits ==
  ASSUME NEW c, Judgeable(c), c.stage = "order"
  PROVE  /\ AllReducible(c, Mandate(c))
         /\ \A m \in 1..c.req.risk : Leaves(Mandate(c), m) =>
              /\ HeldNotional(c) + SizeAt(c, m) <= c.mandate.exposureCap
              /\ HeldNotional(c) + SizeAt(c, m) <= c.cfg.leverageCap \/ OverExposure(c)
<1> DEFINE projected == HeldNotional(c) + Projected(c.req)
           fit   == FitOrBlock(c, "mandate", "exposure_cap", c.mandate.exposureCap - HeldNotional(c))
           order == FitOrBlock(c, "mandate", "order_cap", c.mandate.orderCap)
           cool  == Reduce("mandate", "cooldown", c.req.risk)
           r == << Rule(projected > c.mandate.exposureCap, fit),
                   Rule(c.req.planned # None /\ Projected(c.req) > c.mandate.orderCap, order),
                   Rule(projected > c.cfg.leverageCap, Block("mandate", "leverage_cap")),
                   Rule(c.stage = "signal" /\ c.repeatAge # None
                          /\ Above0(c.repeatAge) < c.cfg.cooldown, cool) >>
<1>1. HeldNotional(c) \in Nat
  BY DEF HeldNotional, Judgeable
<1>2. /\ Reducible(c, fit)
      /\ fit.kind # "block" => fit.risk <= c.mandate.exposureCap - HeldNotional(c)
  BY <1>1, FitReducible DEF Judgeable
<1>3. MandateCaps(c) = FirstOf(r)
  BY DEF MandateCaps
<1>4. OverExposure(c) <=> projected > c.mandate.exposureCap
  BY DEF OverExposure
<1> HIDE DEF fit, order, cool
<1>5. /\ DOMAIN r = 1..4
      /\ (r[1].when <=> projected > c.mandate.exposureCap) /\ r[1].then = fit
      /\ ~r[2].when
      /\ (r[3].when <=> projected > c.cfg.leverageCap)
      /\ r[3].then.kind = "block" /\ Reducible(c, r[3].then)
      /\ ~r[4].when
  <2>1. DOMAIN r = 1..4
    OBVIOUS
  <2>2. (r[1].when <=> projected > c.mandate.exposureCap) /\ r[1].then = fit
    BY DEF Rule
  <2>3. ~r[2].when /\ ~r[4].when
    BY DEF Rule, Judgeable
  <2>4. r[3].when <=> projected > c.cfg.leverageCap
    BY DEF Rule
  <2>5. r[3].then.kind = "block" /\ Reducible(c, r[3].then)
    BY Blocks DEF Rule
  <2> QED BY <2>1, <2>2, <2>3, <2>4, <2>5
<1> HIDE DEF r
<1>6. AllReducible(c, FirstOf(r))
  BY <1>2, <1>5, Rules DEF Answers
<1>7. ASSUME NEW m \in 1..c.req.risk, Leaves(FirstOf(r), m)
      PROVE  /\ HeldNotional(c) + SizeAt(c, m) <= c.mandate.exposureCap
             /\ HeldNotional(c) + SizeAt(c, m) <= c.cfg.leverageCap \/ OverExposure(c)
  <2>1. CASE r[1].when
    <3>1. fit \in FirstOf(r)
      BY <1>5, <2>1, Fires
    <3>2. fit.kind # "block" /\ m <= fit.risk
      BY <1>7, <3>1 DEF Leaves
    <3>3. fit.risk \in Int
      BY <1>2, <3>2 DEF Reducible
    <3> QED BY <1>1, <1>2, <1>4, <1>5, <2>1, <3>2, <3>3, SizeIsPlanned DEF Judgeable
  <2>2. CASE ~r[1].when
    <3>1. ~r[3].when
      BY <1>5, <1>7, <2>2, NotBlocked
    <3> QED BY <1>1, <1>5, <2>2, <3>1, SizeIsPlanned DEF Judgeable
  <2> QED BY <2>1, <2>2
<1>8. CASE MandateTerms(c) = {}
  BY <1>3, <1>6, <1>7, <1>8 DEF Mandate, OrElse
<1>9. CASE MandateTerms(c) # {}
  BY <1>9, TermsBlock DEF Mandate, OrElse, AllReducible, Reducible, Leaves
<1> QED BY <1>8, <1>9

LEMMA NameFits ==
  ASSUME NEW c, Judgeable(c), c.stage = "order"
  PROVE  /\ AllReducible(c, Concentration(c))
         /\ \A m \in 1..c.req.risk : Leaves(Concentration(c), m) =>
              /\ NameHeld(c) + SizeAt(c, m) <= NameCap(c)
              /\ RoomForOneMore(c) \/ OverName(c)
<1> DEFINE sleeve == c.req.sleeve
           fit == FitOrBlock(c, "concentration", "single_name_cap", NameCap(c) - NameHeld(c))
           full == Block("concentration", "max_positions")
           r == << Rule(NameHeld(c) + Projected(c.req) > NameCap(c), fit),
                   Rule(c.book.count[sleeve] >= c.cfg.maxPositions[sleeve]
                          /\ c.book.position = 0, full),
                   Rule(c.book.count["swing"] + c.book.count["intraday"]
                          >= c.cfg.maxPositions["swing"] + c.cfg.maxPositions["intraday"], full),
                   Rule(/\ sleeve = "intraday" /\ c.cfg.maxTrades > 0
                        /\ c.book.trades >= c.cfg.maxTrades,
                        Block("concentration", "max_trades_per_name")) >>
<1>1. NameHeld(c) \in Nat /\ NameCap(c) \in Nat
  <2>1. Absolute(c.book.position) \in Nat /\ Absolute(c.req.price) \in Nat
    BY DEF Judgeable, Absolute
  <2>2. \A p, q \in Nat : p * q \in Nat
    OBVIOUS
  <2> QED BY <2>1, <2>2 DEF NameHeld, NameCap, Judgeable
<1>2. Reducible(c, fit) /\ (fit.kind # "block" => fit.risk <= NameCap(c) - NameHeld(c))
  BY <1>1, FitReducible
<1>3. Concentration(c) = FirstOf(r)
  BY DEF Concentration, AtOrder, NameCap, NameHeld
<1>4. OverName(c) <=> NameHeld(c) + Projected(c.req) > NameCap(c)
  BY DEF OverName
<1> HIDE DEF fit
<1>5. /\ DOMAIN r = 1..4
      /\ (r[1].when <=> OverName(c)) /\ r[1].then = fit
      /\ r[2].then.kind = "block" /\ Reducible(c, r[2].then)
      /\ r[3].then.kind = "block" /\ Reducible(c, r[3].then)
      /\ r[4].then.kind = "block" /\ Reducible(c, r[4].then)
  <2>1. DOMAIN r = 1..4
    OBVIOUS
  <2>2. (r[1].when <=> OverName(c)) /\ r[1].then = fit
    BY <1>4 DEF Rule
  <2>3. /\ r[2].then.kind = "block" /\ Reducible(c, r[2].then)
        /\ r[3].then.kind = "block" /\ Reducible(c, r[3].then)
        /\ r[4].then.kind = "block" /\ Reducible(c, r[4].then)
    BY Blocks DEF Rule
  <2> QED BY <2>1, <2>2, <2>3
<1>6. ~r[2].when /\ ~r[3].when /\ ~r[4].when => RoomForOneMore(c)
  <2>1. r[2].when <=> c.book.count[sleeve] >= c.cfg.maxPositions[sleeve] /\ c.book.position = 0
    BY DEF Rule
  <2>2. r[3].when <=> c.book.count["swing"] + c.book.count["intraday"]
                        >= c.cfg.maxPositions["swing"] + c.cfg.maxPositions["intraday"]
    BY DEF Rule
  <2>3. r[4].when <=> /\ sleeve = "intraday" /\ c.cfg.maxTrades > 0
                      /\ c.book.trades >= c.cfg.maxTrades
    BY DEF Rule
  <2>4. /\ \A s \in Sleeves : c.book.count[s] \in Nat /\ c.cfg.maxPositions[s] \in Nat
        /\ "swing" \in Sleeves /\ "intraday" \in Sleeves /\ sleeve \in Sleeves
        /\ c.book.trades \in Nat /\ c.cfg.maxTrades \in Nat
    BY DEF Judgeable, Sleeves
  <2> HIDE DEF r
  <2> QED BY <2>1, <2>2, <2>3, <2>4 DEF RoomForOneMore
<1> HIDE DEF r
<1>7. AllReducible(c, FirstOf(r))
  BY <1>2, <1>5, Rules
<1>8. ASSUME NEW m \in 1..c.req.risk, Leaves(FirstOf(r), m)
      PROVE  NameHeld(c) + SizeAt(c, m) <= NameCap(c) /\ (RoomForOneMore(c) \/ OverName(c))
  <2>1. CASE r[1].when
    <3>1. fit \in FirstOf(r)
      BY <1>5, <2>1, Fires
    <3>2. fit.kind # "block" /\ m <= fit.risk
      BY <1>8, <3>1 DEF Leaves
    <3>3. fit.risk \in Int
      BY <1>2, <3>2 DEF Reducible
    <3> QED BY <1>1, <1>2, <1>5, <2>1, <3>2, <3>3, SizeIsPlanned
  <2>2. CASE ~r[1].when
    <3>1. ~r[2].when
      BY <1>5, <1>8, <2>2, NotBlocked
    <3>2. ~r[3].when
      BY <1>5, <1>8, <2>2, <3>1, NotBlocked
    <3>3. ~r[4].when
      BY <1>5, <1>8, <2>2, <3>1, <3>2, NotBlocked
    <3> QED BY <1>1, <1>4, <1>5, <1>6, <2>2, <3>1, <3>2, <3>3, SizeIsPlanned
  <2> QED BY <2>1, <2>2
<1> QED BY <1>3, <1>7, <1>8

LEMMA VolumeFits ==
  ASSUME NEW c, Judgeable(c), c.stage = "order", None \notin Int
  PROVE  /\ AllReducible(c, Liquidity(c))
         /\ \A m \in 1..c.req.risk : Leaves(Liquidity(c), m) =>
              /\ SizeAt(c, m) <= c.market.advCap * Absolute(c.req.price)
              /\ ~c.market.spreadBlown \/ OverVolume(c)
<1>1. CASE c.req.price = 0 \/ c.market.last = None
  BY <1>1, Blocks DEF Liquidity, AllReducible, Leaves
<1>2. CASE ~(c.req.price = 0 \/ c.market.last = None) /\ c.market.advCap = None
  BY <1>2, Blocks DEF Liquidity, AllReducible, Leaves
<1>3. CASE ~(c.req.price = 0 \/ c.market.last = None) /\ c.market.advCap # None
  <2> DEFINE room == c.market.advCap * Absolute(c.req.price)
             fit  == FitOrBlock(c, "liquidity", "participation", room)
             r    == << Rule(Projected(c.req) > room, fit),
                        Rule(c.market.spreadBlown, Block("liquidity", "spread_blowout")) >>
  <2>1. room \in Int
    <3>1. c.market.advCap \in Int /\ Absolute(c.req.price) \in Int
      BY <1>3 DEF Judgeable, Absolute
    <3> QED BY <3>1
  <2>2. Liquidity(c) = FirstOf(r)
    BY <1>3 DEF Liquidity
  <2>3. OverVolume(c) <=> Projected(c.req) > room
    BY DEF OverVolume
  <2> HIDE DEF room
  <2>4. Reducible(c, fit) /\ (fit.kind # "block" => fit.risk <= room)
    BY <2>1, FitReducible
  <2> HIDE DEF fit
  <2>5. /\ DOMAIN r = 1..2
        /\ (r[1].when <=> Projected(c.req) > room) /\ r[1].then = fit
        /\ (r[2].when <=> c.market.spreadBlown)
        /\ r[2].then.kind = "block" /\ Reducible(c, r[2].then)
    <3>1. DOMAIN r = 1..2
      OBVIOUS
    <3>2. (r[1].when <=> Projected(c.req) > room) /\ r[1].then = fit
      BY DEF Rule
    <3>3. r[2].when <=> c.market.spreadBlown
      BY DEF Rule
    <3>4. r[2].then.kind = "block" /\ Reducible(c, r[2].then)
      BY Blocks DEF Rule
    <3> QED BY <3>1, <3>2, <3>3, <3>4
  <2> HIDE DEF r
  <2>6. AllReducible(c, FirstOf(r))
    BY <2>4, <2>5, Rules
  <2>7. ASSUME NEW m \in 1..c.req.risk, Leaves(FirstOf(r), m)
        PROVE  SizeAt(c, m) <= room /\ (~c.market.spreadBlown \/ OverVolume(c))
    <3>1. CASE r[1].when
      <4>1. fit \in FirstOf(r)
        BY <2>5, <3>1, Fires
      <4>2. fit.kind # "block" /\ m <= fit.risk
        BY <2>7, <4>1 DEF Leaves
      <4>3. fit.risk \in Int
        BY <2>4, <4>2 DEF Reducible
      <4> QED BY <2>1, <2>3, <2>4, <2>5, <3>1, <4>2, <4>3, SizeIsPlanned
    <3>2. CASE ~r[1].when
      <4>1. ~r[2].when
        BY <2>5, <2>7, <3>2, NotBlocked
      <4> QED BY <2>1, <2>5, <3>2, <4>1, SizeIsPlanned
    <3> QED BY <3>1, <3>2
  <2> QED BY <2>2, <2>6, <2>7 DEF room
<1> QED BY <1>1, <1>2, <1>3

-----------------------------------------------------------------------------
(* All checks                                                              *)

LEMMA CostReduces ==
  ASSUME NEW c, Judgeable(c), c.stage = "order"
  PROVE  AllReducible(c, Cost(c))
<1> DEFINE cost == IF c.req.cost # None /\ c.req.cost # 0 THEN c.req.cost ELSE c.cfg.roundTrip
           r == << Rule(c.req.move = None, Block("cost", "no_move")),
                   Rule(cost <= 0,         Block("cost", "no_cost")),
                   Rule(c.req.move # None /\ c.req.move <= c.cfg.costMultiple * cost,
                        Block("cost", "cost_gate")) >>
<1>1. Cost(c) = FirstOf(r)
  BY DEF Cost, AtOrder
<1> HIDE DEF cost
<1>2. \A k \in DOMAIN r : Answers(r, k) => Reducible(c, r[k].then)
  BY Blocks DEF Rule, Answers
<1> HIDE DEF r
<1> QED BY <1>1, <1>2, Rules

LEMMA InvalidationReduces ==
  ASSUME NEW c, Judgeable(c), c.stage = "order"
  PROVE  AllReducible(c, Invalidation(c))
<1> DEFINE Advisory == Reduce("data", "invalidation_advisory", c.req.risk)
           Answer(i) == IF c.invalidations[i].stop # None /\ c.market.last # None
                        THEN Rule(c.market.last <= c.invalidations[i].stop, Block("data", "invalidation"))
                        ELSE Rule(c.stage = "signal", Advisory)
           r == [i \in DOMAIN c.invalidations |-> Answer(i)]
<1>1. Invalidation(c) = FirstOf(r)
  BY DEF Invalidation
<1>2. ASSUME NEW k \in DOMAIN r, Answers(r, k)
      PROVE  Reducible(c, r[k].then)
  <2>1. CASE c.invalidations[k].stop # None /\ c.market.last # None
    BY <2>1, Blocks DEF Rule
  <2>2. CASE ~(c.invalidations[k].stop # None /\ c.market.last # None)
    BY <1>2, <2>2 DEF Rule, Answers
  <2> QED BY <2>1, <2>2
<1> HIDE DEF r
<1> QED BY <1>1, <1>2, Rules

LEMMA DataReduces ==
  ASSUME NEW c, Judgeable(c), c.stage = "order"
  PROVE  AllReducible(c, Data(c))
BY QualityReduces, InvalidationReduces, StopReduces DEF Data, OrElse

LEMMA Names ==
  CheckNames = {"mandate", "sleeve_capital", "house_drawdown", "house_cvar",
     "correlation_stress", "vol_regime", "market_regime", "knife_guard",
     "concentration", "liquidity", "cost", "wash", "shortability", "data",
     "time", "halt", "approval"}
BY DEF CheckNames, Precedence

(* Whatever a check answers to an order is a block, or a reduction to a    *)
(* positive risk no larger than the one asked for.                         *)
LEMMA ChecksReduce ==
  ASSUME NEW c, Judgeable(c), c.stage = "order", None \notin Int, NEW name \in CheckNames
  PROVE  AllReducible(c, Check(name, c))
<1>1. CASE name \in {"mandate", "sleeve_capital", "house_drawdown", "house_cvar", "correlation_stress"}
  BY <1>1, MandateFits, SleeveFits, DrawdownReduces, BudgetFits, ClusterFits DEF Check
<1>2. CASE name \in {"vol_regime", "market_regime", "knife_guard", "concentration", "liquidity"}
  BY <1>2, VolReduces, RegimeReduces, KnifeReduces, NameFits, VolumeFits DEF Check
<1>3. CASE name \in {"cost", "wash", "shortability", "data", "time", "halt", "approval"}
  BY <1>3, CostReduces, WashReduces, ShortReduces, DataReduces, TimeReduces, ApprovalReduces
     DEF Check, AllReducible
<1> QED BY <1>1, <1>2, <1>3, Names

LEMMA VerdictAllows ==
  ASSUME NEW c, Allowed(Evaluate(c))
  PROVE  /\ \A f \in Failures(c) : f.kind # "block"
         /\ Evaluate(c).verdict = (IF Failures(c) = {} THEN "ALLOW" ELSE "REDUCE")
<1>1. Evaluate(c).verdict = Verdict(Failures(c))
  BY DEF Evaluate
<1> QED BY <1>1 DEF Verdict, Allowed

LEMMA NothingRaised ==
  ASSUME NEW c, Allowed(Evaluate(c)), NEW name \in CheckNames
  PROVE  Check(name, c) \subseteq Failures(c)
<1>1. Judged(name, c) \subseteq Failures(c)
  BY DEF Failures
<1>2. name \notin c.raises
  BY <1>1, VerdictAllows, Blocks DEF Judged
<1> QED BY <1>1, <1>2 DEF Judged

(* What is granted is positive, within the request, and left by all checks.*)
LEMMA GrantLeaves ==
  ASSUME NEW c, Judgeable(c), c.stage = "order", None \notin Int, Allowed(Evaluate(c))
  PROVE  LET m == Granted(c.req, Evaluate(c)) IN
         /\ m \in 1..c.req.risk
         /\ \A name \in CheckNames : Leaves(Check(name, c), m)
         /\ Evaluate(c).verdict = "REDUCE" => Evaluate(c).adjusted \in 1..c.req.risk
<1> DEFINE d == Evaluate(c)
           F == Failures(c)
           least == {f.risk : f \in {g \in F : \A h \in F : g.risk <= h.risk}}
<1>1. d.adjusted = IF Verdict(F) = "REDUCE" THEN Only(least) ELSE None
  BY DEF Evaluate
<1>2. d.verdict = (IF F = {} THEN "ALLOW" ELSE "REDUCE") /\ \A f \in F : f.kind # "block"
  BY VerdictAllows
<1>3. d.verdict = Verdict(F)
  BY DEF Evaluate
<1>4. \A f \in F : f.risk \in 1..c.req.risk
  <2> SUFFICES ASSUME NEW name \in CheckNames, NEW f \in Judged(name, c)
               PROVE  f.risk \in 1..c.req.risk
    BY DEF Failures
  <2>1. f \in F
    BY DEF Failures
  <2>2. name \notin c.raises
    BY <1>2, <2>1, Blocks DEF Judged
  <2> QED BY <1>2, <2>1, <2>2, ChecksReduce DEF Judged, AllReducible, Reducible
<1>5. CASE F = {}
  <2>1. d.adjusted = None /\ Granted(c.req, d) = c.req.risk
    BY <1>1, <1>2, <1>3, <1>5 DEF Granted
  <2>2. c.req.risk \in 1..c.req.risk
    BY DEF Judgeable
  <2> QED BY <1>2, <1>5, <2>1, <2>2, NothingRaised DEF Leaves
<1>6. CASE F # {}
  <2>1. PICK x \in {f.risk : f \in F} : \A y \in {f.risk : f \in F} : x <= y
    <3>1. {f.risk : f \in F} \subseteq Nat
      BY <1>4
    <3> QED BY <1>6, <3>1, Smallest
  <2>2. x \in 1..c.req.risk /\ \A f \in F : x <= f.risk
    BY <1>4, <2>1
  <2>3. least = {x}
    BY <1>4, <2>1
  <2>4. d.adjusted = x
    <3>1. Only({x}) = x
      BY DEF Only
    <3> QED BY <1>1, <1>2, <1>3, <1>6, <2>3, <3>1
  <2>5. Granted(c.req, d) = x
    BY <2>2, <2>4 DEF Granted, Judgeable
  <2>6. \A name \in CheckNames : Leaves(Check(name, c), x)
    BY <1>2, <2>2, NothingRaised DEF Leaves
  <2> QED BY <2>2, <2>4, <2>5, <2>6
<1> QED BY <1>5, <1>6

LEMMA GrantKeepsLimits ==
  ASSUME NEW c, Judgeable(c), c.stage = "order", None \notin Int, Allowed(Evaluate(c))
  PROVE  /\ Fits(c, GrantedNotional(c, Evaluate(c)))
         /\ WithinBudget(c, Granted(c.req, Evaluate(c)))
<1> DEFINE m == Granted(c.req, Evaluate(c))
           n == GrantedNotional(c, Evaluate(c))
<1>1. m \in 1..c.req.risk /\ \A name \in CheckNames : Leaves(Check(name, c), m)
  BY GrantLeaves
<1>2. n = SizeAt(c, m)
  BY DEF GrantedNotional, SizeAt
<1> HIDE DEF m, n
<1>3. n <= c.ceiling - c.deployed
  BY <1>1, <1>2, Names, SleeveFits DEF Check
<1>4. /\ HeldNotional(c) + n <= c.mandate.exposureCap
      /\ HeldNotional(c) + n <= c.cfg.leverageCap \/ OverExposure(c)
  BY <1>1, <1>2, Names, MandateFits DEF Check
<1>5. c.book.clusterHeld + n <= c.cfg.clusterCap
  BY <1>1, <1>2, Names, ClusterFits DEF Check
<1>6. NameHeld(c) + n <= NameCap(c) /\ (RoomForOneMore(c) \/ OverName(c))
  BY <1>1, <1>2, Names, NameFits DEF Check
<1>7. /\ n <= c.market.advCap * Absolute(c.req.price)
      /\ ~c.market.spreadBlown \/ OverVolume(c)
  BY <1>1, <1>2, Names, VolumeFits DEF Check
<1>8. WithinBudget(c, m)
  BY <1>1, Names, BudgetFits DEF Check
<1> QED BY <1>3, <1>4, <1>5, <1>6, <1>7, <1>8 DEF Fits, m, n

LEMMA ConditionsListed ==
  ASSUME NEW c, Judgeable(c)
  PROVE  DOMAIN c.invalidations = 1..Len(c.invalidations) /\ Len(c.invalidations) \in Nat
<1>1. \A S : \A s \in Seq(S) : DOMAIN s = 1..Len(s) /\ Len(s) \in Nat
  OBVIOUS
<1>2. c.invalidations \in Seq([stop : Nat \cup {None}])
  BY DEF Judgeable, Conditions
<1> QED BY <1>1, <1>2, Zenon

(* A breached stop that no softer failure hides is answered by a block.    *)
LEMMA BreachBlocks ==
  ASSUME NEW c, Judgeable(c), Allowed(Evaluate(c)),
         NEW i \in DOMAIN c.invalidations, Breach(c, i)
  PROVE  Hidden(c, i)
<1> SUFFICES ASSUME ~Hidden(c, i) PROVE FALSE
  OBVIOUS
<1>1. \A f \in Data(c) : f.kind # "block"
  BY Names, NothingRaised, VerdictAllows DEF Check
<1>2. ASSUME NEW f \in DataQuality(c)
      PROVE  f.kind = "block"
  <2> DEFINE r == <<
    Rule(~c.reference.complete,   Block("data", "reference_incomplete")),
    Rule(c.quality = "partial",   Soft(c, "data", "data_quality_partial")),
    Rule(c.quality # "fresh",     Block("data", "data_quality")),
    Rule(c.reference.stale,       Soft(c, "data", "reference_stale")),
    Rule(c.market.quoteOld,       Block("data", "stale_quote")),
    Rule(c.market.barOld,         Block("data", "stale_bar")),
    Rule(~c.caliberKnown,         Soft(c, "data", "price_caliber")),
    Rule(c.decisionOld,           Block("data", "ingest_window")) >>
  <2>1. f \in FirstOf(r)
    BY <1>2 DEF DataQuality
  <2>2. \A check, code : Soft(c, check, code).kind = "block" \/ c.stage = "signal"
    BY Blocks DEF Soft
  <2>3. c.stage = "signal" => c.quality # "partial" /\ ~c.reference.stale /\ c.caliberKnown
    BY DEF Hidden
  <2>4. \A k \in DOMAIN r : r[k].when => r[k].then.kind = "block"
    <3>1. /\ r[1].then.kind = "block" /\ r[3].then.kind = "block" /\ r[5].then.kind = "block"
          /\ r[6].then.kind = "block" /\ r[8].then.kind = "block"
      BY Blocks DEF Rule
    <3>2. r[2].when => c.quality = "partial"
      BY DEF Rule
    <3>3. r[4].when => c.reference.stale
      BY DEF Rule
    <3>4. r[7].when => ~c.caliberKnown
      BY DEF Rule
    <3>5. /\ r[2].then.kind = "block" \/ c.stage = "signal"
          /\ r[4].then.kind = "block" \/ c.stage = "signal"
          /\ r[7].then.kind = "block" \/ c.stage = "signal"
      BY <2>2 DEF Rule
    <3>6. DOMAIN r = 1..8
      OBVIOUS
    <3> HIDE DEF r
    <3> QED BY <2>3, <3>1, <3>2, <3>3, <3>4, <3>5, <3>6
  <2> HIDE DEF r
  <2> QED BY <2>1, <2>4, FiredOnly DEF Answers
<1>3. DataQuality(c) = {} /\ \A f \in Invalidation(c) : f.kind # "block"
  BY <1>1, <1>2 DEF Data, OrElse
<1> DEFINE Stopped(k) == c.invalidations[k].stop # None /\ c.market.last # None
           Answer(k) == IF Stopped(k)
                        THEN Rule(c.market.last <= c.invalidations[k].stop, Block("data", "invalidation"))
                        ELSE Rule(c.stage = "signal",
                                  Reduce("data", "invalidation_advisory", c.req.risk))
           r == [k \in DOMAIN c.invalidations |-> Answer(k)]
<1>4. Invalidation(c) = FirstOf(r)
  BY DEF Invalidation
<1>5. DOMAIN r = 1..Len(c.invalidations) /\ Len(c.invalidations) \in Nat /\ i \in DOMAIN r
  BY ConditionsListed
<1>6. Stopped(i) /\ r[i].when
  BY DEF Breach, Rule
<1>7. \A k \in DOMAIN r : r[k].when => r[k].then.kind = "block" \/ (c.stage = "signal" /\ ~Stopped(k))
  <2> TAKE k \in DOMAIN r
  <2>1. CASE Stopped(k)
    BY <2>1, Blocks DEF Rule
  <2>2. CASE ~Stopped(k)
    BY <2>2 DEF Rule
  <2> QED BY <2>1, <2>2
<1>8. \A k \in 1..(i - 1) : c.stage = "signal" => Stopped(k)
  BY DEF Hidden
<1> HIDE DEF r, Stopped
<1>9. PICK k \in {j \in DOMAIN r : r[j].when} : \A j \in {n \in DOMAIN r : r[n].when} : k <= j
  <2> DEFINE T == {j \in DOMAIN r : r[j].when}
  <2>1. T \subseteq Nat /\ T # {}
    BY <1>5, <1>6
  <2> QED BY <2>1, Smallest
<1>10. k \in Nat /\ 1 <= k /\ k <= i /\ i \in Nat
  BY <1>5, <1>6, <1>9
<1>11. r[k].then \in FirstOf(r)
  <2>1. \A j \in 1..(k - 1) : j \in DOMAIN r => ~r[j].when
    BY <1>5, <1>9, <1>10
  <2>2. \A j \in 1..(k - 1) : j \in DOMAIN r
    BY <1>5, <1>6, <1>10
  <2> QED BY <1>9, <2>1, <2>2, Fires
<1>12. c.stage = "signal" /\ ~Stopped(k)
  BY <1>3, <1>4, <1>7, <1>9, <1>11
<1>13. k # i
  BY <1>6, <1>12
<1> QED BY <1>8, <1>10, <1>12, <1>13

-----------------------------------------------------------------------------
(* The theorems: a decision is evaluate's answer to the context put to it. *)

GateInv == ctx \in Contexts /\ (decision # None => decision = Evaluate(ctx))

LEMMA DecisionsAreEvaluated == GateSpec => []GateInv
<1>1. GateInit => GateInv
  BY DEF GateInit, GateInv
<1>2. GateInv /\ [Decide]_gateVars => GateInv'
  <2> SUFFICES ASSUME GateInv, [Decide]_gateVars PROVE GateInv'
    OBVIOUS
  <2>1. CASE Decide
    BY <2>1 DEF GateInv, Decide
  <2>2. CASE UNCHANGED gateVars
    BY <2>2 DEF GateInv, gateVars
  <2> QED BY <2>1, <2>2
<1> QED BY <1>1, <1>2, PTL DEF GateSpec

(* Every decision is ALLOW, REDUCE or BLOCK, of a context callers build.   *)
THEOREM GateTypeCorrect == GateSpec => []GateTypeOK
<1>1. GateInv => GateTypeOK
  <2>1. \A S : Verdict(S) \in Verdicts
    BY DEF Verdict, Verdicts
  <2> QED BY <2>1 DEF GateInv, GateTypeOK, Evaluate
<1> QED BY <1>1, DecisionsAreEvaluated, PTL

(* An order that is granted, reduced or not, fits every limit of the book  *)
(* it was judged on, whatever the book, the limits and the tape are.       *)
THEOREM GrantsFitTheBook == GateSpec => []GrantFits
<1>1. GateInv => GrantFits
  <2> SUFFICES ASSUME GateInv, Grants
               PROVE  /\ Fits(ctx, GrantedNotional(ctx, decision))
                      /\ WithinBudget(ctx, Granted(ctx.req, decision))
    BY DEF GrantFits
  <2>1. /\ decision = Evaluate(ctx) /\ Allowed(decision) /\ ctx.stage = "order"
        /\ Judgeable(ctx) /\ None \notin Int
    BY GateAssumption DEF GateInv, Grants
  <2> QED BY <2>1, GrantKeepsLimits
<1> QED BY <1>1, DecisionsAreEvaluated, PTL

(* The gate never reduces an order to nothing, or enlarges it.             *)
THEOREM ReductionsArePositive == GateSpec => []ReducedIsPositive
<1>1. GateInv => ReducedIsPositive
  <2> SUFFICES ASSUME GateInv, Grants, decision.verdict = "REDUCE"
               PROVE  decision.adjusted \in 1..ctx.req.risk
    BY DEF ReducedIsPositive
  <2>1. /\ decision = Evaluate(ctx) /\ Allowed(decision) /\ ctx.stage = "order"
        /\ Judgeable(ctx) /\ None \notin Int
    BY GateAssumption DEF GateInv, Grants
  <2> QED BY <2>1, GrantLeaves
<1> QED BY <1>1, DecisionsAreEvaluated, PTL

(* A stop the tape has breached suppresses the decision, at both stages,   *)
(* but for the softer failures that hide it from a signal.                 *)
THEOREM BreachedStopSuppresses == GateSpec => []BreachSuppresses
<1>1. GateInv => BreachSuppresses
  <2> SUFFICES ASSUME GateInv, decision # None, Allowed(decision),
                      NEW i \in DOMAIN ctx.invalidations, Breach(ctx, i)
               PROVE  Hidden(ctx, i)
    BY DEF BreachSuppresses
  <2>1. decision = Evaluate(ctx) /\ Judgeable(ctx)
    BY GateAssumption DEF GateInv
  <2> QED BY <2>1, BreachBlocks
<1> QED BY <1>1, DecisionsAreEvaluated, PTL

=============================================================================
