----------------------- MODULE MCCassandraConnection -----------------------
(* Instances of CassandraConnection for TLC. *)
EXTENDS CassandraConnection, TLC

CONSTANTS c1, c2

(* No host; no retry, since -1 stands for 0; one retry; no health. *)
SomeConfigs ==
  {[hosts |-> 0, numRetries |-> 1, health |-> FALSE],
   [hosts |-> 1, numRetries |-> -1, health |-> TRUE],
   [hosts |-> 1, numRetries |-> 1, health |-> TRUE],
   [hosts |-> 1, numRetries |-> 0, health |-> FALSE]}

Symmetry == Permutations({c1, c2})
=============================================================================
