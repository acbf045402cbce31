------------------------------ MODULE MCApprovals ------------------------------
(* Instance of Approvals for TLC. *)
EXTENDS Approvals, TLC

CONSTANTS p, trader, operator, t1, t2

AllPayloads  == {p}
AllPeople    == {trader, operator}
AllOperators == {operator}
AllThreads   == {t1, t2}
Symmetry     == Permutations(AllThreads)

=============================================================================
