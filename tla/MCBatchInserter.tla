-------------------------- MODULE MCBatchInserter --------------------------
(* Instances of BatchInserter for TLC. *)
EXTENDS BatchInserter

CONSTANTS r1, r2, r3, r4

Raw(parse, insert, size, depth, tracker) ==
  [ParseWorkers |-> parse, MaxInsertWorkers |-> insert, MaxBatchSize |-> size,
   QueueSize |-> depth, TimeTracker |-> tracker]

(* Two batchers, one or two workers, batches without limit and of at most  *)
(* 2, a channel for one record; invalid values become the defaults, with a *)
(* MaxBatchSize of 1; one batcher and one worker, for which four records   *)
(* are enough to fill everything and to block a call of Insert.            *)
InserterConfigs ==
  {Raw(2, w, s, 0, TRUE) : w \in {1, 2}, s \in {0, 2}}
     \cup {Raw(0, 0, -1, 2, FALSE), Raw(1, 1, 2, 1, FALSE)}

(* The records are numbered in the order in which they are sent.  They are *)
(* interchangeable, r4 only where it is valid: every behaviour is one of   *)
(* these with the records renamed.                                         *)
Order == <<r1, r2, r3, r4>>

Sent(r) == call[r] \in {"sent", "returned"}

InOrder ==
  \A i, j \in DOMAIN Order : i < j /\ ~Invalid(Order[j]) /\ Sent(Order[j]) => Sent(Order[i])

MCNext == Next /\ InOrder'

MCSpec == Init /\ [][MCNext]_vars /\ Fairness
=============================================================================
