--------------------------- MODULE MCLongPolling ---------------------------
(* Instances of LongPolling for TLC. *)
EXTENDS LongPolling, TLC

CONSTANTS r1, r2, r3, old

(* The rows without an id are of another type than the first two. *)
AllOrSome == {Records, {r1, r2}}

Symmetry == Permutations({r1, r2})
=============================================================================
