--------------------------- MODULE MCRetryInsert ---------------------------
(* Instances of RetryInsert for TLC. *)
EXTENDS RetryInsert, TLC

CONSTANTS c1, c2

Raw(initial, factor, multiplier, max, elapsed, measures) ==
  [backoff |-> [InitialInterval |-> initial, RandomizationFactor |-> factor,
                Multiplier |-> multiplier, MaxInterval |-> max, MaxElapsedTime |-> elapsed],
   measures |-> measures]

Library == [InitialInterval |-> 1, RandomizationFactor |-> 5, Multiplier |-> 2,
            MaxInterval |-> 3, MaxElapsedTime |-> 4]

(* With limits, without limit, without waits, every value replaced,        *)
(* without measures.                                                       *)
Configs == {Raw(1, 0, 2, 4, 3, TRUE), Raw(2, 5, 2, 3, 2, TRUE), Raw(1, 5, 3, 2, 0, TRUE),
            Raw(0, 0, 1, 0, 3, TRUE),
            Raw(-1, -1, 0, -1, -1, TRUE), Raw(1, 0, 2, 4, 3, FALSE)}
=============================================================================
