---------------------------- MODULE MCSessionEngine ----------------------------
(* Instances of SessionEngine for TLC. *)
EXTENDS SessionEngine

CONSTANTS a, b
Symbols == {a, b}

Offer(s, setup, side) ==
  [symbol |-> s, setup |-> setup, side |-> side, price |-> 2, stopGap |-> TRUE, cluster |-> s,
   dayType |-> IF setup = "trend" THEN "trend" ELSE "range", move |-> 40]

(* One setting in which every check passes and an entry has two children.  *)
Roomy ==
  [offers |-> {Offer(a, "trend", "buy"), Offer(b, "trend", "buy")}, orderPath |-> TRUE, reader |-> TRUE,
   tracked |-> FALSE, risk |-> 4, heat |-> 4, kelly |-> 4, advCap |-> 10,
   perChild |-> 2, cash |-> 9, buyingPower |-> 40, sleeveBefore |-> 0,
   tradesBefore |-> [s \in Symbols |-> 0], ceiling |-> 20, at |-> 4,
   mark |-> [s \in Symbols |-> 2], marked |-> [s \in Symbols |-> TRUE],
   cluster |-> [s \in Symbols |-> s], stop |-> [s \in Symbols |-> None],
   path |-> [day |-> 0, fiveDay |-> 0, drawdown |-> 0],
   losses |-> [soft |-> 1, hard |-> 2, derisk5d |-> 3, deriskDd |-> 4, haltDd |-> 6],
   vol |-> [scalar |-> 4, warm |-> TRUE], es |-> [usable |-> TRUE, value |-> 2],
   mandate |-> [listed |-> Symbols, expired |-> FALSE, shorts |-> FALSE, maxDailyTrades |-> 3,
                reserve |-> 1, exposureCap |-> 40, orderCap |-> 20,
                approvalMode |-> "manual", approvalAt |-> 6],
   cfg |-> [leverageCap |-> 40, clusterCap |-> 20, nameCap |-> [s \in Sleeves |-> 20],
            maxPositions |-> [s \in Sleeves |-> 2], maxTrades |-> 1, esHouse |-> 20,
            esSleeve |-> 24, costMultiple |-> 3, roundTrip |-> 8, reopenCooldown |-> 5,
            cooldown |-> 12, entryAfter |-> 2, entryBefore |-> 6]]

AllSettings ==
  {Roomy,
   [Roomy EXCEPT !.offers = {Offer(b, "trend", "buy")}, !.perChild = 1, !.ceiling = 7],
   [Roomy EXCEPT !.offers = {Offer(a, "reversion", "sell")}, !.mandate.listed = {a},
                 !.reader = FALSE],
   [Roomy EXCEPT !.offers = {Offer(b, "trend", "buy")}, !.tracked = TRUE,
                 !.stop = [s \in Symbols |-> 1], !.marked[a] = FALSE],
   [Roomy EXCEPT !.offers = {Offer(a, "trend", "buy"), Offer(b, "reversion", "buy")},
                 !.mandate.maxDailyTrades = 1, !.ceiling = 5],
   [Roomy EXCEPT !.offers = {Offer(a, "reversion", "buy"), Offer(b, "trend", "buy")},
                 !.mandate.maxDailyTrades = 2, !.sleeveBefore = 1, !.buyingPower = 5],
   [Roomy EXCEPT !.offers = {Offer(a, "trend", "buy"), Offer(a, "reversion", "buy")},
                 !.cfg.nameCap["intraday"] = 3],
   [Roomy EXCEPT !.offers = {Offer(b, "trend", "buy"), Offer(b, "reversion", "sell")},
                 !.advCap = 1, !.mandate.shorts = TRUE, !.path.day = -1,
                 !.tradesBefore[b] = 1, !.cfg.maxTrades = 2],
   [Roomy EXCEPT !.orderPath = FALSE]}

AllAccounts == {[s \in Symbols |-> IF s = a THEN n ELSE 0] : n \in {0, 2}}

=============================================================================
