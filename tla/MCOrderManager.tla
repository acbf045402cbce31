--------------------------- MODULE MCOrderManager ---------------------------
(* Instances of OrderManager for TLC. *)
EXTENDS OrderManager

Wants(origin, key, leg) == [origin |-> origin, key |-> key, leg |-> leg]

\* Two children of one entry.
OnePlan == {Wants("monday", "orb", 0), Wants("monday", "orb", 1)}

\* One position flattened at the end of two sessions.
TwoSessions == {Wants("monday", "NVDA", "flat"), Wants("tuesday", "NVDA", "flat")}

============================================================================
