-------------------------- MODULE MCSignalPipeline --------------------------
(* Instances of SignalPipeline for TLC. *)
EXTENDS SignalPipeline, TLC

CONSTANTS a1, a2, a3, k1, k2, k3, kf, h1, h2, h3, NVDA, NFLX, AMD

Says(k, h, t, act, kind, from, until) ==
  [key |-> k, hash |-> h, ticker |-> t, action |-> act, kind |-> kind,
   from |-> from, until |-> until]

\* Two BUYs and a body the parser refuses, all of one name; the envelopes
\* of the last two expire together.
MetaCrash ==
  a1 :> Says(k1, h1, NVDA, "BUY", "good", 0, 1) @@
  a2 :> Says(k2, h2, NVDA, "BUY", "good", 0, 0) @@
  a3 :> Says(k3, h3, NVDA, "BUY", "bad_body", 0, 0)

\* A HOLD and, on the same name, a decision to leave it.
MetaOperator ==
  a1 :> Says(k1, h1, NVDA, "HOLD", "good", 0, 2) @@
  a2 :> Says(k2, h2, NVDA, "EXIT", "good", 0, 2)

============================================================================
