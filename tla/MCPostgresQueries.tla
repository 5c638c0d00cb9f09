------------------------- MODULE MCPostgresQueries -------------------------
(* An instance of PostgresQueries for TLC: a whole life of a connection,   *)
(* with a budget for what its users, its pool and its ticker do together.  *)
EXTENDS PostgresQueries

CONSTANTS
  c1, c2, k1, k2, k3,
  Budget  \* bound on connect attempts, calls, measurements, waits and the
          \* calls of Close but k1's, together

Retries == {-1, 0, 2}

Spent ==
  attempts + Calls + ticks + waitCount + Cardinality({k \in Closers \ {k1} : close[k] # "new"})

MCNext == QueriesNext /\ Spent' <= Budget

MCSpec == QueriesInit /\ [][MCNext]_queriesVars /\ Fairness
=============================================================================
