--------------------------- MODULE MCGateDecisions ---------------------------
(* Instances of GateDecisions for TLC. *)
EXTENDS GateDecisions

(* An intraday order every check lets through. *)
Order ==
  [stage |-> "order", raises |-> {},
   req |-> [sleeve |-> "intraday", side |-> "buy", opensShort |-> FALSE, setup |-> "trend",
            risk |-> 8, price |-> 2, stopGap |-> TRUE, hasStop |-> TRUE,
            planned |-> None, move |-> 40, cost |-> None],
   book |-> [notional |-> 6, cash |-> 9, clusterHeld |-> 2, position |-> 0, trades |-> 0,
             sleeveTrades |-> 0, count |-> [s \in Sleeves |-> 1]],
   mandate |-> [listed |-> TRUE, expired |-> FALSE, shorts |-> FALSE, maxDailyTrades |-> 3,
                reserve |-> 1, exposureCap |-> 20, orderCap |-> 20,
                approvalMode |-> "manual", approvalAt |-> 6],
   cfg |-> [leverageCap |-> 20, clusterCap |-> 20, nameCap |-> [s \in Sleeves |-> 20],
            maxPositions |-> [s \in Sleeves |-> 2], maxTrades |-> 1, esHouse |-> 20,
            esSleeve |-> 24, costMultiple |-> 3, roundTrip |-> 8, reopenCooldown |-> 5,
            cooldown |-> 12, entryAfter |-> 2, entryBefore |-> 6],
   market |-> [last |-> 2, tradable |-> TRUE, shortable |-> FALSE, ssr |-> FALSE,
               halted |-> FALSE, session |-> "rth", reopenS |-> None, newsShock |-> FALSE,
               adverse |-> FALSE, advCap |-> 20, spreadBlown |-> FALSE,
               quoteOld |-> FALSE, barOld |-> FALSE],
   ladder |-> RungStates[0], vol |-> [scalar |-> 4, warm |-> TRUE],
   es |-> [usable |-> TRUE, value |-> 2], ceiling |-> 20, deployed |-> 2,
   dayType |-> "trend", timeGate |-> "open", at |-> 4, otherSide |-> None, nets |-> FALSE,
   reference |-> [complete |-> TRUE, stale |-> FALSE], quality |-> "fresh",
   caliberKnown |-> TRUE, decisionOld |-> FALSE, invalidations |-> <<>>,
   holdings |-> "unknown", positionsValue |-> None, repeatAge |-> None]

(* A research signal as gates.py builds it: no book but its value. *)
Signal ==
  [Order EXCEPT !.stage = "signal", !.req.sleeve = "swing", !.req.setup = "other",
                !.req.planned = 8, !.es.usable = FALSE, !.vol.warm = FALSE,
                !.book.notional = 0, !.book.clusterHeld = 0, !.market.advCap = None,
                !.positionsValue = 6, !.holdings = "absent", !.deployed = 0]

(* Every limit below, at or above what the order needs, in all combinations *)
Limits ==
  {[Order EXCEPT !.req.risk = risk, !.book.position = position, !.book.count["intraday"] = n,
      !.mandate.exposureCap = exposure, !.cfg.leverageCap = leverage, !.ceiling = ceiling,
      !.cfg.clusterCap = cluster, !.cfg.nameCap["intraday"] = name, !.market.advCap = adv,
      !.cfg.esHouse = budget, !.ladder = RungStates[rung], !.vol.scalar = scalar,
      !.market.spreadBlown = blown] :
     risk \in {4, 8}, position \in {0, 2}, n \in {1, 2}, exposure \in {9, 20},
     leverage \in {12, 20}, ceiling \in {5, 20}, cluster \in {9, 20}, name \in {6, 20},
     adv \in {3, 20}, budget \in {5, 20}, rung \in {0, 3}, scalar \in {1, 4},
     blown \in BOOLEAN}

Stop(level) == [stop |-> level]
Advice      == [stop |-> None]

(* One input away from c. *)
Changes(c) ==
  {[c EXCEPT !.req.side = "sell"], [c EXCEPT !.req.opensShort = TRUE],
   [c EXCEPT !.req.planned = IF c.stage = "signal" THEN 30 ELSE None],
   [c EXCEPT !.req.price = 0], [c EXCEPT !.req.stopGap = FALSE], [c EXCEPT !.req.hasStop = FALSE],
   [c EXCEPT !.req.move = None], [c EXCEPT !.req.move = 24], [c EXCEPT !.req.cost = 20],
   [c EXCEPT !.cfg.roundTrip = 0], [c EXCEPT !.req.setup = "pullback"],
   [c EXCEPT !.req.setup = "reversion", !.dayType = "range"], [c EXCEPT !.dayType = "none"],
   [c EXCEPT !.market.newsShock = TRUE], [c EXCEPT !.market.reopenS = 4],
   [c EXCEPT !.market.adverse = TRUE], [c EXCEPT !.market.tradable = FALSE],
   [c EXCEPT !.market.halted = TRUE], [c EXCEPT !.market.session = "closed"],
   [c EXCEPT !.market.spreadBlown = TRUE], [c EXCEPT !.market.advCap = None],
   [c EXCEPT !.market.quoteOld = TRUE], [c EXCEPT !.market.barOld = TRUE],
   [c EXCEPT !.market.last = None], [c EXCEPT !.market.shortable = TRUE],
   [c EXCEPT !.market.ssr = TRUE, !.mandate.shorts = TRUE, !.market.shortable = TRUE],
   [c EXCEPT !.mandate.listed = FALSE], [c EXCEPT !.mandate.expired = TRUE],
   [c EXCEPT !.mandate.shorts = TRUE], [c EXCEPT !.mandate.orderCap = 4],
   [c EXCEPT !.mandate.exposureCap = 9], [c EXCEPT !.mandate.exposureCap = 6],
   [c EXCEPT !.mandate.approvalMode = "approval"], [c EXCEPT !.book.sleeveTrades = 3],
   [c EXCEPT !.book.cash = 0], [c EXCEPT !.book.trades = 1], [c EXCEPT !.book.position = 1],
   [c EXCEPT !.holdings = "held"], [c EXCEPT !.ceiling = 2], [c EXCEPT !.es.usable = FALSE],
   [c EXCEPT !.es.value = 20], [c EXCEPT !.vol = [scalar |-> 0, warm |-> TRUE]],
   [c EXCEPT !.vol = [scalar |-> 1, warm |-> FALSE]], [c EXCEPT !.cfg.leverageCap = 9],
   [c EXCEPT !.reference.complete = FALSE], [c EXCEPT !.reference.stale = TRUE],
   [c EXCEPT !.quality = "partial"], [c EXCEPT !.quality = "unknown"],
   [c EXCEPT !.caliberKnown = FALSE], [c EXCEPT !.decisionOld = TRUE],
   [c EXCEPT !.invalidations = <<Advice, Stop(2)>>], [c EXCEPT !.invalidations = <<Stop(1)>>],
   [c EXCEPT !.invalidations = <<Stop(1), Stop(2)>>],
   [c EXCEPT !.repeatAge = 3], [c EXCEPT !.repeatAge = 12], [c EXCEPT !.at = 1],
   [c EXCEPT !.at = 7], [c EXCEPT !.timeGate = "closed"], [c EXCEPT !.otherSide = "sell"],
   [c EXCEPT !.otherSide = "sell", !.nets = TRUE], [c EXCEPT !.raises = {"cost"}]}
  \cup {[c EXCEPT !.ladder = RungStates[rung]] : rung \in 1..4}

AllContexts ==
  Limits \cup UNION {Changes(c) : c \in Changes(Order) \cup Changes(Signal)}

=============================================================================
