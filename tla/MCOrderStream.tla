---------------------------- MODULE MCOrderStream ----------------------------
(* An instance of OrderStream for TLC. *)
EXTENDS OrderStream

CONSTANT buy

\* An order of two shares.
Two == [c \in Orders |-> 2]

=============================================================================
