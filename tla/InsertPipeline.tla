--------------------------- MODULE InsertPipeline ---------------------------
(***************************************************************************)
(* The inserter in front of the retry service in front of a database, as   *)
(* the service that uses codex-db puts them together: the db.Inserter that *)
(* BatchInserter is given is a RetryInsertService, whose own inserter is a *)
(* Connection.  A call of the service is named by the batch it was given,  *)
(* for no record is in two batches.                                        *)
(*                                                                         *)
(* A statement may take effect and its answer still be an error.  `stored` *)
(* is what the database knows, `lost` the answers nobody received.         *)
(***************************************************************************)
EXTENDS BatchInserter

CONSTANTS
  RetryConfigs,    \* see RawConfigs of RetryInsert; all with measures
  DefaultBackoff,
  Foresight,
  Durations,
  MaxAttempts

VARIABLES
  retryConfig, looksAhead, retryPc, age, spent, interval, tries, failed, retryCount, endCount,
             \* the variables of RetryInsert
  stored,    \* how many statements that carried the record took effect
  lost       \* how many of these were answered by an error

Batches == (SUBSET Records) \ {{}}

Service == INSTANCE RetryInsert WITH
  Calls <- Batches, RawConfigs <- RetryConfigs,
  config <- retryConfig, pc <- retryPc, attempts <- tries

dbVars == <<stored, lost>>
retryVars ==
  <<retryConfig, looksAhead, retryPc, age, spent, interval, tries, failed, retryCount, endCount>>
pipelineVars == <<vars, retryVars, dbVars>>

-----------------------------------------------------------------------------

PipelineInit ==
  /\ Init
  /\ Service!Init
  /\ stored = [r \in Records |-> 0]
  /\ lost = [r \in Records |-> 0]

(* The goroutine of a batch calls the service. *)
CallService(j) ==
  /\ j.pc = "insert"
  /\ Service!Begin(j.records)
  /\ UNCHANGED <<vars, dbVars>>

(* The service has one statement executed for the batch.  If the answer is *)
(* no error it took effect, else it may have.                              *)
Execute(batched, d, effect, error) ==
  /\ error \/ effect
  /\ Service!Attempt(batched, d, error)
  /\ stored' = [r \in Records |-> stored[r] + IF effect /\ r \in batched THEN 1 ELSE 0]
  /\ lost' = [r \in Records |-> lost[r] + IF effect /\ error /\ r \in batched THEN 1 ELSE 0]
  /\ UNCHANGED vars

(* The service decides whether to try again. *)
Decide(batched) ==
  /\ \/ Service!GiveUp(batched)
     \/ \E w \in Service!Waits(interval[batched]) : Service!Retry(batched, w)
  /\ UNCHANGED <<vars, dbVars>>

(* Mutant: an error of the service is not passed on. *)
ResultIgnored(batched) == "stored"

Result(batched) == IF failed[batched] THEN "failed" ELSE "stored"

(* The service returns to the goroutine of the batch. *)
ServiceReturns(j) ==
  /\ Service!End(j.records)
  /\ InsertReturns(j, Result(j.records))
  /\ UNCHANGED dbVars

(* A batch of the inserter moves on by itself only once its insert is over. *)
InserterStep ==
  /\ \/ Start
     \/ \E r \in Records : Insert(r)
     \/ \E b \in Batchers : BatchRecords(b)
     \/ \E j \in jobs : SendTimes(j) \/ Release(j)
     \/ Stop
     \/ Terminated
  /\ UNCHANGED <<retryVars, dbVars>>

(* The service runs in the goroutine of the batch.                         *)
ServiceStep ==
  \E j \in jobs :
    \/ CallService(j)
    \/ \E d \in Durations, effect, error \in BOOLEAN : Execute(j.records, d, effect, error)
    \/ Decide(j.records)
    \/ ServiceReturns(j)

PipelineNext == InserterStep \/ ServiceStep

PipelineSpec == PipelineInit /\ [][PipelineNext]_pipelineVars

(* The inserter is scheduled as in BatchInserter, except that nothing is   *)
(* assumed of InsertRecords: each statement is answered, by a result or by *)
(* an error, and the goroutine that runs the service goes on.              *)
PipelineFairSpec ==
  /\ PipelineSpec
  /\ WF_pipelineVars(/\ UNCHANGED <<retryVars, dbVars>>
                     /\ \E r \in Records : InsertSend(r) \/ InsertPanic(r) \/ InsertCount(r))
  /\ WF_pipelineVars(UNCHANGED <<retryVars, dbVars>> /\ \E b \in Batchers : BatchRecords(b))
  /\ WF_pipelineVars(UNCHANGED <<retryVars, dbVars>> /\ \E j \in jobs : SendTimes(j) \/ Release(j))
  /\ WF_pipelineVars(ServiceStep)
  /\ WF_pipelineVars(UNCHANGED <<retryVars, dbVars>> /\ (BatchersDone \/ GrabWorker))

-----------------------------------------------------------------------------
(* Properties. *)

(* A record is in the database once for the answer that said so and once   *)
(* more for each answer that was lost: retries, batches and goroutines     *)
(* never store it twice by themselves, a reported success is never untrue, *)
(* and a reported failure is untrue only after a lost answer.              *)
Succeeded(r) == \E c \in Batches : r \in c /\ tries[c] > 0 /\ ~failed[c]

StoredAsAnswered ==
  \A r \in Records :
    /\ stored[r] = lost[r] + IF Succeeded(r) THEN 1 ELSE 0
    /\ outcome[r] = "stored" => Succeeded(r)
    /\ outcome[r] = "failed" => ~Succeeded(r)

(* When Stop returns, every accepted record is in the database or counted  *)
(* as dropped, both only if an answer was lost, and the metric of the      *)
(* service has counted one call per batch.                                 *)
SettledAtStop ==
  LET Called == {c \in Batches : tries[c] > 0}
  IN phase = "stopped" =>
       /\ UNION Called = Accepted
       /\ dropped = Cardinality({r \in Accepted : stored[r] = lost[r]})
       /\ \A r \in Accepted : stored[r] > 0 \/ outcome[r] = "failed"
       /\ endCount = Cardinality(Called)

(* With a limit on the time of the service its calls return, and nothing   *)
(* more is needed for what BatchInserter assumes of InsertRecords.         *)
InsertReturnsFairly == WF_vars(\E j \in jobs : InsertRecords(j))
=============================================================================
