--------------------------- MODULE BatchInserter ---------------------------
(***************************************************************************)
(* batchInserter/batchInserter.go: callers of Insert put records on a      *)
(* bounded channel; ParseWorkers batcher goroutines group them by size and *)
(* by a ticker; each batch is written by a goroutine of its own, at most   *)
(* MaxInsertWorkers of them at a time (a semaphore); Stop closes the       *)
(* channel, waits for the batchers, then takes every permit.               *)
(*                                                                         *)
(* One record stands for one call of Insert.  Callers obey the comment of  *)
(* Stop: no Insert begins after Stop.  CallerWaits says whether they also  *)
(* wait for the calls in progress to return before they call Stop, which   *)
(* the comment does not ask for.  Start is called once, before Stop.       *)
(***************************************************************************)
EXTENDS Integers, Sequences, FiniteSets, Functions

CONSTANTS
  Records,               \* the records, one per call of Insert
  NoBeginning,           \* those whose Beginning is the zero time
  NoData,                \* those whose Data is nil or empty
  RawConfigs,            \* the Config values passed to NewBatchInserter
  DefaultInsertWorkers,  \* defaultInsertWorkers (5 in the code)
  DefaultMinQueueSize,   \* defaultMinQueueSize (5 in the code)
  CallerWaits            \* Stop is called only when no Insert is in progress

ASSUME RecordsAssumption ==
  /\ IsFiniteSet(Records)
  /\ NoBeginning \subseteq Records
  /\ NoData \subseteq Records

ASSUME ConfigAssumption ==
  /\ RawConfigs \subseteq [ParseWorkers : Int, MaxInsertWorkers : Int, MaxBatchSize : Int,
                           QueueSize : Int, TimeTracker : BOOLEAN]
  /\ DefaultInsertWorkers \in Nat \ {0}
  /\ DefaultMinQueueSize \in Nat \ {0}
  /\ CallerWaits \in BOOLEAN

VARIABLES
  config,    \* b.config after validation, and whether b.timeTracker is set
  call,      \* where each call of Insert stands
  queue,     \* b.insertQueue, the records buffered in the channel
  closed,    \* the channel has been closed
  bpc,       \* where each batcher goroutine stands in batchRecords
  batch,     \* each batcher's records (with their beginTimes)
  jobs,      \* the insertRecords goroutines that have been launched
  permits,   \* permits left in b.insertWorkers
  taken,     \* permits Stop has taken
  phase,     \* life cycle of the inserter
  gauge,     \* measures.InsertingQueue
  dropped,   \* measures.DroppedEventsFromDbFailCount
  attempts,  \* how often each record was passed to inserter.InsertRecords
  outcome,   \* what the last such call reported
  tracked    \* how often TrackTime was called for each record

callVars  == <<call, gauge>>
batchVars == <<queue, bpc, batch>>
jobVars   == <<jobs, dropped, attempts, outcome, tracked>>
stopVars  == <<closed, taken, phase>>
vars == <<config, call, queue, closed, bpc, batch, jobs, permits, taken, phase,
          gauge, dropped, attempts, outcome, tracked>>

-----------------------------------------------------------------------------
(* The validation in NewBatchInserter: MaxBatchSize 0 stands for no limit. *)

NewBatchInserter(raw) ==
  [ParseWorkers     |-> IF raw.ParseWorkers < 1 THEN 1 ELSE raw.ParseWorkers,
   MaxInsertWorkers |-> IF raw.MaxInsertWorkers < 1 THEN DefaultInsertWorkers
                                                    ELSE raw.MaxInsertWorkers,
   MaxBatchSize     |-> IF raw.MaxBatchSize < 0 THEN 1 ELSE raw.MaxBatchSize,
   QueueSize        |-> IF raw.QueueSize < DefaultMinQueueSize THEN DefaultMinQueueSize
                                                               ELSE raw.QueueSize,
   TimeTracker      |-> raw.TimeTracker]

Batchers == 1 .. config.ParseWorkers

Init ==
  /\ config \in {NewBatchInserter(raw) : raw \in RawConfigs}
  /\ call = [r \in Records |-> "new"]
  /\ queue = << >>
  /\ closed = FALSE
  /\ bpc = [b \in Batchers |-> "unborn"]
  /\ batch = [b \in Batchers |-> {}]
  /\ jobs = {}
  /\ permits = config.MaxInsertWorkers
  /\ taken = 0
  /\ phase = "created"
  /\ gauge = 0
  /\ dropped = 0
  /\ attempts = [r \in Records |-> 0]
  /\ outcome = [r \in Records |-> "none"]
  /\ tracked = [r \in Records |-> 0]

Start ==
  /\ phase = "created"
  /\ phase' = "running"
  /\ bpc' = [b \in Batchers |-> "range"]
  /\ UNCHANGED <<config, closed, taken, queue, batch, permits, callVars, jobVars>>

-----------------------------------------------------------------------------
(* Insert, run by the goroutine of its caller. *)

Invalid(r) == (config.TimeTracker /\ r \in NoBeginning) \/ r \in NoData

InsertReject(r) ==
  /\ phase \in {"created", "running"}
  /\ call[r] = "new"
  /\ Invalid(r)
  /\ call' = [call EXCEPT ![r] = "rejected"]
  /\ UNCHANGED <<config, permits, gauge, batchVars, jobVars, stopVars>>

InsertCall(r) ==
  /\ phase \in {"created", "running"}
  /\ call[r] = "new"
  /\ ~Invalid(r)
  /\ call' = [call EXCEPT ![r] = "sending"]
  /\ UNCHANGED <<config, permits, gauge, batchVars, jobVars, stopVars>>

(* The send goes through once the channel has room. *)
InsertSend(r) ==
  /\ call[r] = "sending"
  /\ ~closed
  /\ Len(queue) < config.QueueSize
  /\ queue' = Append(queue, r)
  /\ call' = [call EXCEPT ![r] = "sent"]
  /\ UNCHANGED <<config, bpc, batch, permits, gauge, jobVars, stopVars>>

(* A send on a closed channel panics, also one that was already blocked. *)
InsertPanic(r) ==
  /\ call[r] = "sending"
  /\ closed
  /\ call' = [call EXCEPT ![r] = "panicked"]
  /\ UNCHANGED <<config, permits, gauge, batchVars, jobVars, stopVars>>

InsertCount(r) ==
  /\ call[r] = "sent"
  /\ gauge' = gauge + 1
  /\ call' = [call EXCEPT ![r] = "returned"]
  /\ UNCHANGED <<config, permits, batchVars, jobVars, stopVars>>

-----------------------------------------------------------------------------
(* batchRecords, run by batcher b. *)

(* Mutant: the receive is not counted. *)
GaugeKept == UNCHANGED gauge

GaugeDown == gauge' = gauge - 1

(* Mutant: the slice is made anew for every record. *)
JoinedAlone(records, r) == {r}

Joined(records, r) == records \cup {r}

(* Mutant: the size check is off by one. *)
FullLate(records) ==
  config.MaxBatchSize # 0 /\ Cardinality(records) > config.MaxBatchSize

Full(records) ==
  config.MaxBatchSize # 0 /\ Cardinality(records) >= config.MaxBatchSize

ChannelOver == closed /\ queue = << >>

(* Mutant: the semaphore is not waited for. *)
WorkerFreeOrNot == TRUE

WorkerFree == permits > 0

ReceiveFirst(b) ==
  /\ bpc[b] = "range"
  /\ queue # << >>
  /\ queue' = Tail(queue)
  /\ batch' = [batch EXCEPT ![b] = {Head(queue)}]
  /\ bpc' = [bpc EXCEPT ![b] = "countFirst"]
  /\ UNCHANGED <<config, permits, callVars, jobVars, stopVars>>

(* Only the records after the first are followed by the size check. *)
CountFirst(b) ==
  /\ bpc[b] = "countFirst"
  /\ GaugeDown
  /\ bpc' = [bpc EXCEPT ![b] = "select"]
  /\ UNCHANGED <<config, call, queue, batch, permits, jobVars, stopVars>>

Tick(b) ==
  /\ bpc[b] = "select"
  /\ bpc' = [bpc EXCEPT ![b] = "flush"]
  /\ UNCHANGED <<config, queue, batch, permits, callVars, jobVars, stopVars>>

ReceiveMore(b) ==
  /\ bpc[b] = "select"
  /\ queue # << >>
  /\ queue' = Tail(queue)
  /\ batch' = [batch EXCEPT ![b] = Joined(@, Head(queue))]
  /\ bpc' = [bpc EXCEPT ![b] = "countMore"]
  /\ UNCHANGED <<config, permits, callVars, jobVars, stopVars>>

CountMore(b) ==
  /\ bpc[b] = "countMore"
  /\ GaugeDown
  /\ bpc' = [bpc EXCEPT ![b] = IF Full(batch[b]) THEN "flush" ELSE "select"]
  /\ UNCHANGED <<config, call, queue, batch, permits, jobVars, stopVars>>

ReceiveClosed(b) ==
  /\ bpc[b] = "select"
  /\ ChannelOver
  /\ bpc' = [bpc EXCEPT ![b] = "flush"]
  /\ UNCHANGED <<config, queue, batch, permits, callVars, jobVars, stopVars>>

(* insertWorkers.Acquire, then go insertRecords, then stop the ticker. *)
HandOff(b) ==
  /\ bpc[b] = "flush"
  /\ WorkerFree
  /\ permits' = permits - 1
  /\ jobs' = jobs \cup {[records |-> batch[b], pc |-> "insert"]}
  /\ batch' = [batch EXCEPT ![b] = {}]
  /\ bpc' = [bpc EXCEPT ![b] = "range"]
  /\ UNCHANGED <<config, queue, dropped, attempts, outcome, tracked, callVars, stopVars>>

RangeEnds(b) ==
  /\ bpc[b] = "range"
  /\ ChannelOver
  /\ bpc' = [bpc EXCEPT ![b] = "done"]
  /\ UNCHANGED <<config, queue, batch, permits, callVars, jobVars, stopVars>>

-----------------------------------------------------------------------------
(* insertRecords, a goroutine per batch. *)

(* Mutant: the goroutine returns, and nothing releases its permit. *)
AdvanceOut(j, pc) == jobs' = jobs \ {j}

Advance(j, pc) == jobs' = (jobs \ {j}) \cup {[j EXCEPT !.pc = pc]}

(* Mutant: a failure counts once per batch. *)
DropsOne(j, result) == IF result = "failed" THEN 1 ELSE 0

(* A failure is counted record by record. *)
Drops(j, result) == IF result = "failed" THEN Cardinality(j.records) ELSE 0

(* inserter.InsertRecords returns. *)
InsertReturns(j, result) ==
  /\ j.pc = "insert"
  /\ attempts' = [r \in Records |-> attempts[r] + IF r \in j.records THEN 1 ELSE 0]
  /\ outcome' = [r \in Records |-> IF r \in j.records THEN result ELSE outcome[r]]
  /\ dropped' = dropped + Drops(j, result)
  /\ Advance(j, "times")
  /\ UNCHANGED <<config, permits, tracked, callVars, batchVars, stopVars>>

SendTimes(j) ==
  /\ j.pc = "times"
  /\ tracked' = [r \in Records |->
                   tracked[r] + IF config.TimeTracker /\ r \in j.records THEN 1 ELSE 0]
  /\ Advance(j, "release")
  /\ UNCHANGED <<config, permits, dropped, attempts, outcome, callVars, batchVars, stopVars>>

Release(j) ==
  /\ j.pc = "release"
  /\ jobs' = jobs \ {j}
  /\ permits' = permits + 1
  /\ UNCHANGED <<config, dropped, attempts, outcome, tracked, callVars, batchVars, stopVars>>

-----------------------------------------------------------------------------
(* Stop, called once. *)

InProgress(r) == call[r] \in {"sending", "sent"}

StopCall ==
  /\ phase = "running"
  /\ CallerWaits => \A r \in Records : ~InProgress(r)
  /\ phase' = "waiting"
  /\ closed' = TRUE
  /\ UNCHANGED <<config, taken, permits, callVars, batchVars, jobVars>>

(* Mutant: the batchers are not waited for. *)
BatchersEndedOrNot == TRUE

BatchersEnded == \A b \in Batchers : bpc[b] = "done"

BatchersDone ==
  /\ phase = "waiting"
  /\ BatchersEnded
  /\ phase' = "acquiring"
  /\ UNCHANGED <<config, closed, taken, permits, callVars, batchVars, jobVars>>

GrabWorker ==
  /\ phase = "acquiring"
  /\ WorkerFree
  /\ permits' = permits - 1
  /\ taken' = taken + 1
  /\ phase' = IF taken' = config.MaxInsertWorkers THEN "stopped" ELSE phase
  /\ UNCHANGED <<config, closed, callVars, batchVars, jobVars>>

(* The program is over: Stop has returned and so has every Insert. *)
Terminated ==
  /\ phase = "stopped"
  /\ \A r \in Records : ~InProgress(r)
  /\ UNCHANGED vars

-----------------------------------------------------------------------------

Insert(r) == \/ InsertReject(r) \/ InsertCall(r) \/ InsertSend(r)
             \/ InsertPanic(r) \/ InsertCount(r)

BatchRecords(b) == \/ ReceiveFirst(b) \/ CountFirst(b) \/ Tick(b) \/ ReceiveMore(b)
                   \/ CountMore(b) \/ ReceiveClosed(b) \/ HandOff(b) \/ RangeEnds(b)

InsertRecords(j) == \/ \E result \in {"stored", "failed"} : InsertReturns(j, result)
                    \/ SendTimes(j)
                    \/ Release(j)

Stop == StopCall \/ BatchersDone \/ GrabWorker

Next ==
  \/ Start
  \/ \E r \in Records : Insert(r)
  \/ \E b \in Batchers : BatchRecords(b)
  \/ \E j \in jobs : InsertRecords(j)
  \/ Stop
  \/ Terminated

Spec == Init /\ [][Next]_vars

(* The Go scheduler runs every runnable goroutine, a ticker keeps ticking, *)
(* and every call of inserter.InsertRecords returns in the end (the        *)
(* database connections carry timeouts).  Nothing makes a program call     *)
(* Insert, Start or Stop.  Each condition asks only that some goroutine of *)
(* a kind proceeds, which is less than the scheduler gives.                *)
Fairness ==
  /\ WF_vars(\E r \in Records : InsertSend(r) \/ InsertPanic(r) \/ InsertCount(r))
  /\ WF_vars(\E b \in Batchers : BatchRecords(b))
  /\ WF_vars(\E j \in jobs : InsertRecords(j))
  /\ WF_vars(BatchersDone \/ GrabWorker)

-----------------------------------------------------------------------------
(* Properties. *)

(* Types of the variables: each goroutine of batchRecords, insertRecords   *)
(* and Insert is at a known point, and neither permits nor the counters go *)
(* below zero (the gauge may).                                             *)
TypeOK ==
  /\ config \in {NewBatchInserter(raw) : raw \in RawConfigs}
  /\ call \in [Records -> {"new", "rejected", "sending", "sent", "returned", "panicked"}]
  /\ queue \in Seq(Records)
  /\ closed \in BOOLEAN
  /\ bpc \in [Batchers -> {"unborn", "range", "countFirst", "select", "countMore", "flush", "done"}]
  /\ batch \in [Batchers -> SUBSET Records]
  /\ jobs \subseteq [records : SUBSET Records, pc : {"insert", "times", "release"}]
  /\ permits \in Nat
  /\ taken \in Nat
  /\ phase \in {"created", "running", "waiting", "acquiring", "stopped"}
  /\ gauge \in Int
  /\ dropped \in Nat
  /\ attempts \in [Records -> Nat]
  /\ outcome \in [Records -> {"none", "stored", "failed"}]
  /\ tracked \in [Records -> Nat]

Accepted == {r \in Records : call[r] \in {"sent", "returned"}}
Queued   == Range(queue)
Gathered == UNION {batch[b] : b \in Batchers}
Writing  == UNION {j.records : j \in {i \in jobs : i.pc = "insert"}}

(* No record is in two places of the pipeline: the channel holds it once,  *)
(* batches and running goroutines share none.                              *)
OnePlaceEach ==
  /\ IsInjective(queue)
  /\ \A b \in Batchers : batch[b] \cap Queued = {}
  /\ \A b, c \in Batchers : b # c => batch[b] \cap batch[c] = {}
  /\ \A j \in jobs : j.records \cap (Queued \cup Gathered) = {}
  /\ \A j, k \in jobs : j # k => j.records \cap k.records = {}

(* A record whose send went through is on its way (in the channel, in a    *)
(* batch or in a goroutine about to write it) until it has been passed to  *)
(* inserter.InsertRecords, which happens once; no other record ever is.    *)
EachAcceptedOnce ==
  \A r \in Records :
    attempts[r] = IF r \in Accepted \ (Queued \cup Gathered \cup Writing) THEN 1 ELSE 0

(* Every permit is free, held by one insertRecords goroutine, or taken by  *)
(* Stop: batchers, failing inserts and Stop neither leak nor invent one.   *)
PermitsAccounted == permits + taken + Cardinality(jobs) = config.MaxInsertWorkers

(* The queue depth metric differs from the depth of the channel by the     *)
(* updates that are still to come: Insert adds after its send, a batcher   *)
(* subtracts after its receive.                                            *)
GaugeAccounted ==
  gauge = Len(queue) + Cardinality({b \in Batchers : bpc[b] \in {"countFirst", "countMore"}})
                     - Cardinality({r \in Records : call[r] = "sent"})

(* A batch written to the database is never empty, and no larger than a    *)
(* MaxBatchSize of 2 or more, whichever of the two receives filled it.     *)
(* What a MaxBatchSize of 1 is worth, see BatchSizeRespected.              *)
BatchSizeBounded ==
  \A j \in jobs :
    /\ j.records # {}
    /\ config.MaxBatchSize > 1 => Cardinality(j.records) <= config.MaxBatchSize

(* batchInserter.go:54-56: BatchInserter ensures "that each batch doesn't   *)
(* pass a specified size".                                                 *)
BatchSizeRespected ==
  \A j \in jobs : config.MaxBatchSize # 0 => Cardinality(j.records) <= config.MaxBatchSize

(* When Stop returns, the workers have finished with everything that was   *)
(* added: each accepted record was passed to the database once, its time   *)
(* was tracked exactly when there is a tracker, the dropped metric counts  *)
(* the failures, and no goroutine is left.                                 *)
StoppedMeansDrained ==
  phase = "stopped" =>
    /\ queue = << >> /\ Gathered = {} /\ jobs = {}
    /\ \A r \in Records : /\ attempts[r] = IF r \in Accepted THEN 1 ELSE 0
                          /\ tracked[r] = IF config.TimeTracker THEN attempts[r] ELSE 0
    /\ dropped = Cardinality({r \in Accepted : outcome[r] = "failed"})

(* After Stop has returned the inserter touches neither the database nor   *)
(* the time tracker again, whatever the callers still do.                  *)
QuietAfterStop ==
  [][phase = "stopped" => UNCHANGED <<queue, batch, jobs, dropped, attempts, outcome, tracked>>]_vars

(* The largest batch there is: the size is compared only once a second     *)
(* record has joined.                                                      *)
GroupLimit == CASE config.MaxBatchSize = 0 -> 0
                [] config.MaxBatchSize = 1 -> 2
                [] OTHER -> config.MaxBatchSize

(* What the callers are promised: see RecordSink. *)
SinkStatus(r) == CASE call[r] \in {"rejected", "panicked"} -> "refused"
                   [] call[r] \in {"new", "sending"} -> "new"
                   [] outcome[r] = "stored" -> "stored"
                   [] outcome[r] = "failed" -> "dropped"
                   [] OTHER -> "accepted"

SinkService == CASE phase = "stopped" -> "stopped"
                 [] phase \in {"waiting", "acquiring"} -> "closing"
                 [] OTHER -> "open"

Sink == INSTANCE RecordSink WITH
  status <- [r \in Records |-> SinkStatus(r)],
  service <- SinkService,
  groupLimit <- GroupLimit

(* Whatever queue, batchers, workers and Stop do, it is a step the sink    *)
(* allows, or none: accepted records are delivered once and in groups of   *)
(* bounded size, and none is left when the sink has stopped.               *)
SinkSpec == Sink!Spec

(* The records handed over that have not reached the database. *)
Unsettled == {r \in Records : call[r] \in {"sending", "sent", "returned"} /\ attempts[r] = 0}

(* Once the inserter has been started, calls of Insert come to an end that *)
(* needs no further call by the program: each is refused or panics, or its *)
(* record reaches the database.  A full channel drains, a batcher that     *)
(* waits for a worker gets one, and the ticker sends off a batch that      *)
(* nothing fills.                                                          *)
InsertIsSettled == (phase # "created" /\ Unsettled # {}) ~> Unsettled = {}

(* Stop returns: no batcher waits for ever and every permit comes back.    *)
StopReturns == phase = "waiting" ~> phase = "stopped"

=============================================================================
