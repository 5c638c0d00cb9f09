------------------------- MODULE MCPostgresConnect -------------------------
(* Instances of PostgresConnect for TLC. *)
EXTENDS PostgresConnect, TLC

CONSTANTS k1, k2

Retries == {-1, 0, 2}
=============================================================================
