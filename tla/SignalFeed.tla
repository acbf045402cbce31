----------------------------- MODULE SignalFeed -----------------------------
(***************************************************************************)
(* What signals.jsonl promises whoever follows it: entries are only ever   *)
(* appended, a decision is signalled at most once, and no day carries more *)
(* signals than the mandate's daily cap.  How the daemon keeps that across *)
(* crashes, restarts and re-dropped artifacts is the matter of             *)
(* SignalPipeline, which implements this specification.                    *)
(***************************************************************************)
EXTENDS Naturals, Sequences, FiniteSets

CONSTANTS Hashes, Tickers, Days, Cap

VARIABLE feed

Entry == [hash: Hashes, ticker: Tickers, day: Days]

OnDay(d) == {i \in DOMAIN feed : feed[i].day = d}

Emit(e) ==
  /\ \A i \in DOMAIN feed : feed[i].hash # e.hash
  /\ Cap > 0 => Cardinality(OnDay(e.day)) < Cap
  /\ feed' = Append(feed, e)

Init == feed = <<>>
Next == \E e \in Entry : Emit(e)
Spec == Init /\ [][Next]_feed

============================================================================
