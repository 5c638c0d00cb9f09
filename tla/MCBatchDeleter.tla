-------------------------- MODULE MCBatchDeleter --------------------------
(* Instances of BatchDeleter for TLC. *)
EXTENDS BatchDeleter, TLC

CONSTANTS r1, r2

Raw(workers, size, limit) == [MaxWorkers |-> workers, SetSize |-> size, GetLimit |-> limit]

(* A set for one record and a limit of one; two workers and a set and a    *)
(* limit for both records, the defaults that invalid values become; a get  *)
(* limit of 0, which is valid.                                             *)
Configs == {Raw(1, 1, 1), Raw(0, 0, -1), Raw(1, 1, 0)}

AllKinds == [AddBlocks : BOOLEAN, PopBlocks : BOOLEAN]
=============================================================================
