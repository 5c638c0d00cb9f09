-------------------------- MODULE MCInsertPipeline --------------------------
(* Instances of InsertPipeline for TLC. *)
EXTENDS InsertPipeline, TLC

CONSTANTS r1, r2, r3

(* One worker.  One batcher with three records: while it waits for the     *)
(* worker the channel is full; and two batchers that both need the worker, *)
(* where the third record is refused.                                      *)
InserterConfigs == {[ParseWorkers |-> b, MaxInsertWorkers |-> 1, MaxBatchSize |-> 2,
                     QueueSize |-> 1, TimeTracker |-> b = 2] : b \in {1, 2}}

(* A statement and a wait take 1 each: there is time for two statements    *)
(* per batch.                                                              *)
Backoff == [InitialInterval |-> 1, RandomizationFactor |-> 0, Multiplier |-> 1,
            MaxInterval |-> 1, MaxElapsedTime |-> 2]

BackoffConfigs == {[backoff |-> Backoff, measures |-> TRUE]}
=============================================================================
