---------------------------- MODULE MCRetention -----------------------------
(* An instance of Retention for TLC. *)
EXTENDS Retention

(* None after five days, one a day after four, one in two days after one. *)
ThreePolicies == <<[age |-> 5, interval |-> 0], [age |-> 4, interval |-> 1],
                   [age |-> 1, interval |-> 2]>>

=============================================================================
