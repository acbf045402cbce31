---------------------------- MODULE RiskArithmetic ----------------------------
(***************************************************************************)
(* The arithmetic the risk gate and the order path share: the book's       *)
(* figures (risk/state.py), a sleeve's room (sleeves/budgets.py), the      *)
(* de-risking ladder (risk/ladder.py) and the sizer (risk/sizing.py).      *)
(*                                                                         *)
(* Units.  Money is an integer.  A fraction of equity is the money it      *)
(* stands for.  A risk is the notional it implies, risk * slope, where     *)
(* slope is equity * price / stop_distance: projected_notional and         *)
(* _risk_to_fit are linear in the risk, so that nothing is rounded.  A     *)
(* scalar counts in quarters.                                              *)
(***************************************************************************)
EXTENDS Integers, FiniteSetsExt

CONSTANT None      \* Python's None

Quarters == 4
Least(a, b) == IF a <= b THEN a ELSE b
Above0(a)   == IF a > 0 THEN a ELSE 0
Absolute(q) == IF q < 0 THEN -q ELSE q

(* A chain of early returns: the first rule whose guard holds, if any.     *)
Rule(when, then) == [when |-> when, then |-> then]
FirstOf(rules) ==
  {rules[i].then : i \in {k \in DOMAIN rules :
                            rules[k].when /\ \A j \in 1..(k - 1) : ~rules[j].when}}
OrElse(first, rest) == IF first # {} THEN first ELSE rest
Only(S) == CHOOSE x \in S : TRUE

-----------------------------------------------------------------------------
(* BookState: positions are records with symbol, qty, sleeve, cluster, and *)
(* the broker's mark as their price.                                       *)

Worth(p)    == Absolute(p.qty) * p.price
Notional(P) == SumFunction([p \in P |-> Worth(p)])

OfSleeve(P, sleeve) == {p \in P : p.sleeve = sleeve}

SleeveDeployed(P, sleeve)   == Notional(OfSleeve(P, sleeve))
ClusterNotional(P, cluster) == Notional({p \in P : p.cluster = cluster})
PositionFor(P, symbol)      ==
  SumFunction([p \in {q \in P : q.symbol = symbol} |-> p.qty])

(* SleeveBudget.room_pct and notional_room_usd: room is never negative.    *)
RoomUsd(ceiling, deployed) == Above0(ceiling - deployed)

-----------------------------------------------------------------------------
(* The ladder: what the book may do on its equity path.  A loss is a       *)
(* negative number, a limit a positive one; a limit hit exactly trips.     *)

RungState(size, intraday, flatten, freeze, halt) ==
  [size |-> size, allowIntraday |-> intraday, flatten |-> flatten,
   freeze |-> freeze, halt |-> halt]

RungStates ==
  [rung \in 0..4 |->
     CASE rung = 0 -> RungState(4, TRUE,  FALSE, FALSE, FALSE)
       [] rung = 1 -> RungState(4, FALSE, FALSE, FALSE, FALSE)
       [] rung = 2 -> RungState(2, FALSE, TRUE,  FALSE, FALSE)
       [] rung = 3 -> RungState(2, FALSE, FALSE, TRUE,  FALSE)
       [] rung = 4 -> RungState(0, FALSE, TRUE,  TRUE,  TRUE)]

RungFor(path, limit) ==
  Only(FirstOf(<< Rule(path.drawdown <= -limit.haltDd, RungStates[4]),
                  Rule(\/ path.fiveDay <= -limit.derisk5d
                       \/ path.drawdown <= -limit.deriskDd, RungStates[3]),
                  Rule(path.day <= -limit.hard, RungStates[2]),
                  Rule(path.day <= -limit.soft, RungStates[1]),
                  Rule(TRUE, RungStates[0]) >>))

-----------------------------------------------------------------------------
(* The sizer.  A request in risk becomes whole shares, never rounded up.   *)

Sized(qty, reason) == [qty |-> qty, reason |-> reason]

SharesWorth(money, price) == IF price > 0 THEN money \div price ELSE 0

(* risk budget -> vol scalar -> Kelly cap *)
RiskUsed(req, caps, scalar) ==
  LET budget == Least(req.risk, Least(caps.sleeveRisk, caps.heat))
  IN  Least(Above0(budget * scalar) \div Quarters, caps.kelly)

(* -> participation cap -> sleeve room -> floor *)
SharesFor(req, caps, scalar) ==
  Least(SharesWorth(RiskUsed(req, caps, scalar), req.price),
        Least(caps.shares, SharesWorth(caps.room, req.price)))

Size(req, caps, scalar) ==
  LET shares == SharesFor(req, caps, scalar) IN
  Only(FirstOf(<< Rule(~req.stopGap,    Sized(0, "no_stop_distance")),
                  Rule(~caps.validated, Sized(0, "unvalidated_setup")),
                  Rule(scalar <= 0,     Sized(0, "size_below_one_share")),
                  Rule(req.price <= 0,  Sized(0, "no_price")),
                  Rule(shares < 1,      Sized(0, "size_below_one_share")),
                  Rule(TRUE,            Sized(shares, "ok")) >>))

=============================================================================
