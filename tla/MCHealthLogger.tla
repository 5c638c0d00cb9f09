--------------------------- MODULE MCHealthLogger ---------------------------
(* Instances of HealthLogger for TLC. *)
EXTENDS HealthLogger, TLC

CONSTANTS g1, g2, p1, p2, p3

Symmetry == Permutations({g1, g2}) \cup Permutations({p1, p2, p3})
=============================================================================
