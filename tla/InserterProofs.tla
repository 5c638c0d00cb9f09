--------------------------- MODULE InserterProofs ---------------------------
(***************************************************************************)
(* Proofs about BatchInserter, for every set of records, every             *)
(* configuration and any number of batchers and workers; that it is a      *)
(* RecordSink; and, last, about InsertPipeline, its composition with a     *)
(* RetryInsertService and a database.                                      *)
(***************************************************************************)
EXTENDS InsertPipeline, TLAPS, FiniteSetTheorems, SequenceTheorems

(* The one-line helpers of the actions are expanded wherever they occur.   *)
USE DEF GaugeDown, Joined, ChannelOver, WorkerFree, Drops, BatchersEnded

(* NewBatchInserter replaces what it must: whatever it is given, there is  *)
(* a batcher, a worker and room in the queue, and no negative batch size.  *)
LEMMA ConfigValid ==
  ASSUME config \in {NewBatchInserter(raw) : raw \in RawConfigs}
  PROVE  /\ config.ParseWorkers \in Nat \ {0}
         /\ config.MaxInsertWorkers \in Nat \ {0}
         /\ config.MaxBatchSize \in Nat
         /\ config.QueueSize \in Nat \ {0}
         /\ config.TimeTracker \in BOOLEAN
  BY ConfigAssumption DEF NewBatchInserter

LEMMA InitTypeOK == Init => TypeOK
<1> SUFFICES ASSUME Init PROVE TypeOK
  OBVIOUS
<1>1. config.MaxInsertWorkers \in Nat
  BY ConfigValid DEF Init
<1>2. queue \in Seq(Records)
  BY EmptySeq DEF Init
<1>3. /\ bpc \in [Batchers -> {"unborn", "range", "countFirst", "select", "countMore",
                              "flush", "done"}]
      /\ batch \in [Batchers -> SUBSET Records]
  BY DEF Init
<1>4. jobs \subseteq [records : SUBSET Records, pc : {"insert", "times", "release"}]
  BY DEF Init
<1>5. /\ call \in [Records -> {"new", "rejected", "sending", "sent", "returned", "panicked"}]
      /\ attempts \in [Records -> Nat]
      /\ outcome \in [Records -> {"none", "stored", "failed"}]
      /\ tracked \in [Records -> Nat]
  BY DEF Init
<1>6. config \in {NewBatchInserter(raw) : raw \in RawConfigs}
  BY Zenon DEF Init
<1>7. permits \in Nat
  BY <1>1 DEF Init
<1>8. /\ closed \in BOOLEAN
      /\ phase \in {"created", "running", "waiting", "acquiring", "stopped"}
  BY DEF Init
<1>9. taken \in Nat /\ gauge \in Int /\ dropped \in Nat
  BY DEF Init
<1> QED
  BY <1>2, <1>3, <1>4, <1>5, <1>6, <1>7, <1>8, <1>9 DEF TypeOK

(* Tail and Head of the queue, and what they leave in it. *)
LEMMA ReceiveType ==
  ASSUME queue \in Seq(Records), queue # << >>
  PROVE  Head(queue) \in Records /\ Tail(queue) \in Seq(Records)
  BY HeadTailProperties

LEMMA AdvanceType ==
  ASSUME TypeOK, NEW j \in jobs, NEW pc \in {"insert", "times", "release"}, Advance(j, pc)
  PROVE  jobs' \subseteq [records : SUBSET Records, pc : {"insert", "times", "release"}]
  BY DEF TypeOK, Advance

LEMMA NextTypeOK == TypeOK /\ [Next]_vars => TypeOK'
<1> SUFFICES ASSUME TypeOK, [Next]_vars PROVE TypeOK'
  OBVIOUS
<1> USE DEF TypeOK, Batchers
<1>1. CASE Start
  BY <1>1 DEF Start, callVars, jobVars
<1>2. ASSUME NEW r \in Records, Insert(r) PROVE TypeOK'
  <2>1. CASE InsertReject(r)
    BY <2>1 DEF InsertReject, batchVars, jobVars, stopVars
  <2>2. CASE InsertCall(r)
    BY <2>2 DEF InsertCall, batchVars, jobVars, stopVars
  <2>3. CASE InsertSend(r)
    BY <2>3 DEF InsertSend, jobVars, stopVars
  <2>4. CASE InsertPanic(r)
    BY <2>4 DEF InsertPanic, batchVars, jobVars, stopVars
  <2>5. CASE InsertCount(r)
    BY <2>5 DEF InsertCount, batchVars, jobVars, stopVars
  <2> QED
    BY <1>2, <2>1, <2>2, <2>3, <2>4, <2>5 DEF Insert
<1>3. ASSUME NEW b \in Batchers, BatchRecords(b) PROVE TypeOK'
  <2>1. CASE ReceiveFirst(b)
    BY <2>1, ReceiveType DEF ReceiveFirst, callVars, jobVars, stopVars
  <2>2. CASE CountFirst(b)
    BY <2>2 DEF CountFirst, jobVars, stopVars
  <2>3. CASE Tick(b)
    BY <2>3 DEF Tick, callVars, jobVars, stopVars
  <2>4. CASE ReceiveMore(b)
    BY <2>4, ReceiveType DEF ReceiveMore, callVars, jobVars, stopVars
  <2>5. CASE CountMore(b)
    BY <2>5 DEF CountMore, jobVars, stopVars
  <2>6. CASE ReceiveClosed(b)
    BY <2>6 DEF ReceiveClosed, callVars, jobVars, stopVars
  <2>7. CASE HandOff(b)
    <3>1. [records |-> batch[b], pc |-> "insert"]
            \in [records : SUBSET Records, pc : {"insert", "times", "release"}]
      OBVIOUS
    <3>2. permits' \in Nat
      BY <2>7 DEF HandOff
    <3> QED
      BY <2>7, <3>1, <3>2 DEF HandOff, callVars, stopVars
  <2>8. CASE RangeEnds(b)
    BY <2>8 DEF RangeEnds, callVars, jobVars, stopVars
  <2> QED
    BY <1>3, <2>1, <2>2, <2>3, <2>4, <2>5, <2>6, <2>7, <2>8 DEF BatchRecords
<1>4. ASSUME NEW j \in jobs, InsertRecords(j) PROVE TypeOK'
  <2>1. ASSUME NEW result \in {"stored", "failed"}, InsertReturns(j, result) PROVE TypeOK'
    <3>1. Cardinality(j.records) \in Nat
      BY RecordsAssumption, FS_Subset, FS_CardinalityType
    <3>2. dropped' \in Nat
      BY <2>1, <3>1 DEF InsertReturns
    <3> QED
      BY <2>1, <3>2, AdvanceType DEF InsertReturns, callVars, batchVars, stopVars
  <2>2. CASE SendTimes(j)
    BY <2>2, AdvanceType DEF SendTimes, callVars, batchVars, stopVars
  <2>3. CASE Release(j)
    BY <2>3 DEF Release, callVars, batchVars, stopVars
  <2> QED
    BY <1>4, <2>1, <2>2, <2>3 DEF InsertRecords
<1>5. CASE Stop
  <2>1. CASE StopCall
    BY <2>1 DEF StopCall, callVars, batchVars, jobVars
  <2>2. CASE BatchersDone
    BY <2>2 DEF BatchersDone, callVars, batchVars, jobVars
  <2>3. CASE GrabWorker
    BY <2>3 DEF GrabWorker, callVars, batchVars, jobVars
  <2> QED
    BY <1>5, <2>1, <2>2, <2>3 DEF Stop
<1>6. CASE UNCHANGED vars
  BY <1>6 DEF vars
<1> QED
  BY <1>1, <1>2, <1>3, <1>4, <1>5, <1>6 DEF Next, Terminated

(* Every reachable state is well typed: permits are never overdrawn and    *)
(* each goroutine is where the code can have it.                           *)
THEOREM TypeCorrect == Spec => []TypeOK
  BY InitTypeOK, NextTypeOK, PTL DEF Spec

-----------------------------------------------------------------------------
(***************************************************************************)
(* Where the records are.  EachAcceptedOnce and OnePlaceEach are not       *)
(* inductive: for a record to be in one place after it has moved, it must  *)
(* have been in one place and not attempted before.  The invariant Places  *)
(* says of each stage what is known of a record in it.                     *)
(***************************************************************************)

(* A record in the channel was accepted, is there once, and is untouched.  *)
InChannel ==
  /\ IsInjective(queue)
  /\ \A r \in Queued : r \in Accepted /\ attempts[r] = 0

(* A record in a batch was accepted, has left the channel, is untouched,   *)
(* and is in no other batch.                                               *)
InBatch ==
  \A b \in Batchers : \A r \in batch[b] :
    /\ r \in Accepted /\ attempts[r] = 0
    /\ r \notin Queued
    /\ \A c \in Batchers : c # b => r \notin batch[c]

(* A record of a job has left channel and batches, is in no other job, and *)
(* has been attempted exactly if the job is past that.                     *)
InJob ==
  \A j \in jobs : \A r \in j.records :
    /\ r \in Accepted
    /\ attempts[r] = IF j.pc = "insert" THEN 0 ELSE 1
    /\ r \notin Queued
    /\ \A b \in Batchers : r \notin batch[b]
    /\ \A k \in jobs : k # j => r \notin k.records

(* A record is attempted at most once, and if accepted, not lost before.   *)
NoneLost ==
  \A r \in Records :
    /\ attempts[r] \in {0, 1}
    /\ attempts[r] = 1 => r \in Accepted
    /\ r \in Accepted /\ attempts[r] = 0 =>
         \/ r \in Queued
         \/ \E b \in Batchers : r \in batch[b]
         \/ \E j \in jobs : j.pc = "insert" /\ r \in j.records

(* A batcher holds records exactly while it gathers, a job always does.    *)
NonEmpty ==
  /\ \A b \in Batchers : batch[b] = {} <=> bpc[b] \in {"unborn", "range", "done"}
  /\ \A j \in jobs : j.records # {}

Places == InChannel /\ InBatch /\ InJob /\ NoneLost /\ NonEmpty

(* What a send does to the contents of the channel. *)
LEMMA AppendContents ==
  ASSUME NEW q \in Seq(Records), NEW r \in Records
  PROVE  /\ Range(Append(q, r)) = Range(q) \cup {r}
         /\ IsInjective(q) /\ r \notin Range(q) => IsInjective(Append(q, r))
<1> DEFINE a == Append(q, r)
<1>1. /\ DOMAIN q = 1 .. Len(q) /\ Len(q) \in Nat
      /\ DOMAIN a = 1 .. Len(q) + 1
      /\ \A i \in 1 .. Len(q) : a[i] = q[i]
      /\ a[Len(q) + 1] = r
  BY LenProperties, AppendProperties
<1>2. \A x : x \in Range(a) <=> x \in Range(q) \cup {r}
  BY <1>1 DEF Range
<1>3. IsInjective(q) /\ r \notin Range(q) => IsInjective(a)
  BY <1>1 DEF Range, IsInjective
<1> QED
  BY <1>2, <1>3

(* What a receive does to the contents of the channel. *)
LEMMA TailContents ==
  ASSUME NEW q \in Seq(Records), q # << >>, IsInjective(q)
  PROVE  /\ Head(q) \in Range(q)
         /\ Range(Tail(q)) = Range(q) \ {Head(q)}
         /\ IsInjective(Tail(q))
<1> DEFINE t == Tail(q)
<1>1. /\ DOMAIN q = 1 .. Len(q) /\ Len(q) \in Nat \ {0}
      /\ DOMAIN t = 1 .. Len(q) - 1
      /\ \A i \in 1 .. Len(q) - 1 : t[i] = q[i + 1]
      /\ Head(q) = q[1]
  BY LenProperties, EmptySeq, HeadTailProperties
<1>2. Head(q) \in Range(q)
  BY <1>1 DEF Range
<1>3. ASSUME NEW x \in Range(t) PROVE x \in Range(q) \ {Head(q)}
  <2>1. PICK i \in 1 .. Len(q) - 1 : x = q[i + 1]
    BY <1>1, <1>3 DEF Range
  <2>2. i + 1 \in 1 .. Len(q) /\ i + 1 # 1
    BY <1>1
  <2> QED
    BY <1>1, <2>1, <2>2 DEF Range, IsInjective
<1>4. ASSUME NEW x \in Range(q) \ {Head(q)} PROVE x \in Range(t)
  <2>1. PICK i \in 1 .. Len(q) : x = q[i]
    BY <1>1 DEF Range
  <2>2. i - 1 \in 1 .. Len(q) - 1 /\ (i - 1) + 1 = i
    BY <1>1, <2>1
  <2> QED
    BY <1>1, <2>1, <2>2 DEF Range
<1>5. IsInjective(t)
  BY <1>1 DEF IsInjective
<1> QED
  BY <1>2, <1>3, <1>4, <1>5

-----------------------------------------------------------------------------
(***************************************************************************)
(* The life cycle: what the phase says of the channel, the batchers and    *)
(* the permits Stop has taken.                                             *)
(***************************************************************************)

LifeCycle ==
  /\ closed <=> phase \in {"waiting", "acquiring", "stopped"}
  /\ phase = "created" <=> \A b \in Batchers : bpc[b] = "unborn"
  /\ \A b \in Batchers : bpc[b] = "done" => closed /\ queue = << >>
  /\ phase \in {"acquiring", "stopped"} => \A b \in Batchers : bpc[b] = "done"
  /\ phase \in {"created", "running", "waiting"} => taken = 0
  /\ phase = "acquiring" => taken < config.MaxInsertWorkers
  /\ phase = "stopped" => taken = config.MaxInsertWorkers

(* Each permit out is held by one job, of which there are finitely many.   *)
Permits == IsFiniteSet(jobs) /\ PermitsAccounted

Failed == {r \in Records : outcome[r] = "failed"}

(* An attempt leaves an outcome, the failed ones are counted, and a record *)
(* is tracked, if there is a tracker, once its job is past sending times.  *)
Outcomes ==
  /\ \A r \in Records : outcome[r] = "none" <=> attempts[r] = 0
  /\ dropped = Cardinality(Failed)

Times ==
  \A r \in Records :
    tracked[r] = IF /\ config.TimeTracker
                    /\ attempts[r] = 1
                    /\ \A j \in jobs : r \in j.records => j.pc = "release"
                 THEN 1 ELSE 0

(* The first record of a batch may come alone however small the limit, but *)
(* no record joins a batch that has reached it.                            *)
BatchRoom ==
  config.MaxBatchSize # 0 =>
    /\ \A b \in Batchers :
         /\ bpc[b] \in {"countFirst", "select"} =>
              Cardinality(batch[b]) = 1 \/ Cardinality(batch[b]) < config.MaxBatchSize
         /\ Cardinality(batch[b]) <= GroupLimit
    /\ \A j \in jobs : Cardinality(j.records) <= GroupLimit
-----------------------------------------------------------------------------

Located == InChannel /\ InBatch /\ InJob /\ NoneLost

LEMMA InitPlaces == Init => Places
<1> SUFFICES ASSUME Init PROVE Places
  OBVIOUS
<1>1. Queued = {} /\ IsInjective(queue)
  BY DEF Init, Queued, Range, IsInjective
<1>2. jobs = {} /\ \A b \in Batchers : batch[b] = {} /\ bpc[b] = "unborn"
  BY DEF Init
<1>3. \A r \in Records : attempts[r] = 0 /\ r \notin Accepted
  BY DEF Init, Accepted
<1> QED
  BY <1>1, <1>2, <1>3 DEF Places, InChannel, InBatch, InJob, NoneLost, NonEmpty

(* Steps that move no record. *)
LEMMA LocatedUnmoved ==
  ASSUME Located, UNCHANGED <<config, queue, batch, jobs, attempts>>, Accepted' = Accepted
  PROVE  Located'
  BY DEF Located, InChannel, InBatch, InJob, NoneLost, Queued, Batchers

LEMMA PlacesUnmoved ==
  ASSUME Places, UNCHANGED <<config, queue, batch, bpc, jobs, attempts>>, Accepted' = Accepted
  PROVE  Places'
<1>1. Located'
  BY LocatedUnmoved DEF Places, Located
<1>2. NonEmpty'
  BY DEF Places, NonEmpty, Batchers
<1> QED
  BY <1>1, <1>2 DEF Places, Located

(* Accepting a record puts it in the channel; the other steps of Insert    *)
(* move nothing.                                                           *)
LEMMA PlacesInsert ==
  ASSUME TypeOK, Places, NEW r \in Records, Insert(r)
  PROVE  Places'
<1>1. CASE InsertReject(r) \/ InsertCall(r) \/ InsertPanic(r) \/ InsertCount(r)
  <2>1. Accepted' = Accepted
    BY <1>1 DEF InsertReject, InsertCall, InsertPanic, InsertCount, Accepted, TypeOK
  <2> QED
    BY <1>1, <2>1, PlacesUnmoved
       DEF InsertReject, InsertCall, InsertPanic, InsertCount, batchVars, jobVars
<1>2. CASE InsertSend(r)
  <2>1. r \notin Accepted
    BY <1>2 DEF InsertSend, Accepted
  <2>2. Accepted' = Accepted \cup {r}
    BY <1>2 DEF InsertSend, Accepted, TypeOK
  <2>3. UNCHANGED <<config, batch, bpc, jobs, attempts>>
    BY <1>2 DEF InsertSend, jobVars
  <2>4. r \notin Queued /\ attempts[r] = 0
    BY <2>1 DEF Places, InChannel, NoneLost
  <2>5. Queued' = Queued \cup {r} /\ IsInjective(queue')
    BY <1>2, <2>4, AppendContents DEF InsertSend, Queued, Places, InChannel, TypeOK
  <2>6. InChannel'
    BY <2>2, <2>3, <2>4, <2>5 DEF Places, InChannel
  <2>7. InBatch'
    BY <2>1, <2>2, <2>3, <2>5 DEF Places, InBatch, Batchers
  <2>8. InJob'
    BY <2>1, <2>2, <2>3, <2>5 DEF Places, InJob, Batchers
  <2>9. NoneLost'
    BY <2>2, <2>3, <2>4, <2>5 DEF Places, NoneLost, Batchers
  <2>10. NonEmpty'
    BY <2>3 DEF Places, NonEmpty, Batchers
  <2> QED
    BY <2>6, <2>7, <2>8, <2>9, <2>10 DEF Places
<1> QED
  BY <1>1, <1>2 DEF Insert

(* A receive moves the head of the channel to the batch of the receiver.   *)
LEMMA PlacesReceive ==
  ASSUME TypeOK, Places, NEW b \in Batchers, ReceiveFirst(b) \/ ReceiveMore(b)
  PROVE  Places'
<1> DEFINE h == Head(queue)
<1>1. /\ queue # << >> /\ queue' = Tail(queue)
      /\ UNCHANGED <<config, jobs, attempts, call>>
      /\ Batchers' = Batchers
  BY DEF ReceiveFirst, ReceiveMore, callVars, jobVars, Batchers
<1>2. /\ h \in Queued /\ Queued' = Queued \ {h}
      /\ IsInjective(queue')
  BY <1>1, TailContents DEF Places, InChannel, Queued, TypeOK
<1>3. /\ \A x : x \in batch'[b] <=> x = h \/ x \in batch[b]
      /\ \A c \in Batchers : c # b => batch'[c] = batch[c]
  BY <1>1 DEF ReceiveFirst, ReceiveMore, Places, NonEmpty, TypeOK
<1>4. Accepted' = Accepted
  BY <1>1 DEF Accepted
<1>5. h \in Accepted /\ attempts[h] = 0
  BY <1>2 DEF Places, InChannel
<1>6. InChannel'
  BY <1>1, <1>2, <1>4 DEF Places, InChannel
<1>7. InBatch'
  BY <1>1, <1>2, <1>3, <1>4, <1>5 DEF Places, InBatch
<1>8. InJob'
  BY <1>1, <1>2, <1>3, <1>4 DEF Places, InJob
<1>9. NoneLost'
  <2> SUFFICES ASSUME NEW r \in Records, r \in Accepted', attempts'[r] = 0
               PROVE  \/ r \in Queued'
                      \/ \E c \in Batchers : r \in batch'[c]
                      \/ \E j \in jobs : j.pc = "insert" /\ r \in j.records
    BY <1>1, <1>4 DEF Places, NoneLost
  <2>1. CASE r \in Queued
    BY <2>1, <1>2, <1>3
  <2>2. CASE \E c \in Batchers : r \in batch[c]
    BY <2>2, <1>3
  <2>3. CASE \E j \in jobs : j.pc = "insert" /\ r \in j.records
    BY <2>3
  <2> QED
    BY <1>1, <1>4, <2>1, <2>2, <2>3 DEF Places, NoneLost
<1>10. NonEmpty'
  BY <1>1, <1>3 DEF ReceiveFirst, ReceiveMore, Places, NonEmpty, TypeOK
<1> QED
  BY <1>6, <1>7, <1>8, <1>9, <1>10 DEF Places

(* The steps of a batcher that leave its batch as it is. *)
LEMMA PlacesGather ==
  ASSUME TypeOK, Places, NEW b \in Batchers,
         \/ CountFirst(b) \/ Tick(b) \/ CountMore(b) \/ ReceiveClosed(b) \/ RangeEnds(b)
  PROVE  Places'
<1>1. UNCHANGED <<config, call, queue, batch, jobs, attempts>>
  BY DEF CountFirst, Tick, CountMore, ReceiveClosed, RangeEnds, callVars, jobVars
<1>2. Located'
  BY <1>1, LocatedUnmoved DEF Places, Located, Accepted
<1>3. /\ \A c \in Batchers : c # b => bpc'[c] = bpc[c]
      /\ bpc'[b] \in {"unborn", "range", "done"} <=> bpc[b] \in {"unborn", "range", "done"}
  BY DEF CountFirst, Tick, CountMore, ReceiveClosed, RangeEnds, TypeOK
<1>4. NonEmpty'
  BY <1>1, <1>3 DEF Places, NonEmpty, Batchers
<1> QED
  BY <1>2, <1>4 DEF Places, Located

(* A batch that is handed off becomes a job, with nothing in common with   *)
(* the jobs there are.                                                     *)
LEMMA PlacesHandOff ==
  ASSUME TypeOK, Places, NEW b \in Batchers, HandOff(b)
  PROVE  Places'
<1> DEFINE k == [records |-> batch[b], pc |-> "insert"]
<1>1. /\ UNCHANGED <<config, queue, attempts, call>>
      /\ jobs' = jobs \cup {k}
      /\ batch'[b] = {} /\ \A c \in Batchers : c # b => batch'[c] = batch[c]
      /\ bpc'[b] = "range" /\ \A c \in Batchers : c # b => bpc'[c] = bpc[c]
      /\ bpc[b] = "flush"
  BY DEF HandOff, callVars, TypeOK
<1>2. k.records = batch[b] /\ k.pc = "insert"
  OBVIOUS
<1>3. Batchers' = Batchers /\ Queued' = Queued /\ Accepted' = Accepted
  BY <1>1 DEF Batchers, Queued, Accepted
<1>4. batch[b] # {}
  BY <1>1 DEF Places, NonEmpty
<1>5. \A i \in jobs : \A r \in i.records : r \notin batch[b]
  BY DEF Places, InJob
<1>6. InChannel'
  BY <1>1, <1>3 DEF Places, InChannel
<1>7. InBatch'
  BY <1>1, <1>3 DEF Places, InBatch
<1>8. InJob'
  <2> SUFFICES ASSUME NEW i \in jobs', NEW r \in i.records
               PROVE  /\ r \in Accepted /\ attempts[r] = IF i.pc = "insert" THEN 0 ELSE 1
                      /\ r \notin Queued
                      /\ \A c \in Batchers : r \notin batch'[c]
                      /\ \A x \in jobs' : x # i => r \notin x.records
    BY <1>1, <1>3 DEF InJob
  <2>1. CASE i \in jobs
    BY <2>1, <1>1, <1>2, <1>5 DEF Places, InJob
  <2>2. CASE i = k
    BY <2>2, <1>1, <1>2, <1>5 DEF Places, InBatch
  <2> QED
    BY <1>1, <2>1, <2>2
<1>9. NoneLost'
  <2> SUFFICES ASSUME NEW r \in Records, r \in Accepted, attempts[r] = 0
               PROVE  \/ r \in Queued
                      \/ \E c \in Batchers : r \in batch'[c]
                      \/ \E j \in jobs' : j.pc = "insert" /\ r \in j.records
    BY <1>1, <1>3 DEF Places, NoneLost
  <2>1. CASE \E c \in Batchers : r \in batch[c]
    BY <2>1, <1>1, <1>2
  <2> QED
    BY <1>1, <2>1 DEF Places, NoneLost
<1>10. NonEmpty'
  BY <1>1, <1>2, <1>3, <1>4 DEF Places, NonEmpty
<1> QED
  BY <1>6, <1>7, <1>8, <1>9, <1>10 DEF Places

(* A job that advances keeps its records. *)
LEMMA AdvanceJob ==
  ASSUME TypeOK, NEW j \in jobs, NEW pc \in {"insert", "times", "release"}, Advance(j, pc)
  PROVE  \E k : /\ k.records = j.records /\ k.pc = pc
                /\ jobs' = (jobs \ {j}) \cup {k}
<1>1. j \in [records : SUBSET Records, pc : {"insert", "times", "release"}]
  BY DEF TypeOK
<1>2. [j EXCEPT !.pc = pc].records = j.records /\ [j EXCEPT !.pc = pc].pc = pc
  BY <1>1
<1> QED
  BY <1>2 DEF Advance

(* A job attempts its records, and with this settles them; later it leaves *)
(* them as they are.                                                       *)
LEMMA PlacesJob ==
  ASSUME TypeOK, Places, NEW j \in jobs, InsertRecords(j)
  PROVE  Places'
<1>1. /\ UNCHANGED <<config, queue, batch, bpc, call>>
      /\ Batchers' = Batchers /\ Queued' = Queued /\ Accepted' = Accepted
  BY DEF InsertRecords, InsertReturns, SendTimes, Release, batchVars, callVars, Batchers,
         Queued, Accepted
<1>2. /\ \A r \in j.records : attempts[r] = IF j.pc = "insert" THEN 0 ELSE 1
      /\ \A r \in j.records : /\ r \in Accepted /\ r \notin Queued
                              /\ \A b \in Batchers : r \notin batch[b]
                              /\ \A i \in jobs : i # j => r \notin i.records
      /\ j.records # {}
  BY DEF Places, InJob, NonEmpty
<1>3. CASE \E result \in {"stored", "failed"} : InsertReturns(j, result)
  <2>1. /\ j.pc = "insert"
        /\ \A r \in Records : attempts'[r] = attempts[r] + IF r \in j.records THEN 1 ELSE 0
        /\ Advance(j, "times")
    BY <1>3 DEF InsertReturns
  <2>2. PICK k : k.records = j.records /\ k.pc = "times" /\ jobs' = (jobs \ {j}) \cup {k}
    BY <2>1, AdvanceJob
  <2>3. \A r \in Records : attempts'[r] = IF r \in j.records THEN 1 ELSE attempts[r]
    BY <2>1, <1>2 DEF TypeOK
  <2>4. Queued \subseteq Records /\ Accepted \subseteq Records
    BY DEF TypeOK, Queued, Range, Accepted
  <2>5. InChannel'
    BY <1>1, <1>2, <2>3, <2>4 DEF Places, InChannel
  <2>6. InBatch'
    BY <1>1, <1>2, <2>3, <2>4 DEF Places, InBatch
  <2>7. InJob'
    BY <1>1, <1>2, <2>2, <2>3, <2>4 DEF Places, InJob
  <2>8. NoneLost'
    BY <1>1, <1>2, <2>2, <2>3 DEF Places, NoneLost
  <2>9. NonEmpty'
    BY <1>1, <1>2, <2>2 DEF Places, NonEmpty
  <2> QED
    BY <2>5, <2>6, <2>7, <2>8, <2>9 DEF Places
<1>4. CASE SendTimes(j)
  <2>1. j.pc = "times" /\ attempts' = attempts /\ Advance(j, "release")
    BY <1>4 DEF SendTimes
  <2>2. PICK k : k.records = j.records /\ k.pc = "release" /\ jobs' = (jobs \ {j}) \cup {k}
    BY <2>1, AdvanceJob
  <2>3. InChannel' /\ InBatch'
    BY <1>1, <2>1 DEF Places, InChannel, InBatch
  <2>4. InJob'
    BY <1>1, <1>2, <2>1, <2>2 DEF Places, InJob
  <2>5. NoneLost'
    BY <1>1, <1>2, <2>1, <2>2 DEF Places, NoneLost
  <2>6. NonEmpty'
    BY <1>1, <1>2, <2>2 DEF Places, NonEmpty
  <2> QED
    BY <2>3, <2>4, <2>5, <2>6 DEF Places
<1>5. CASE Release(j)
  <2>1. j.pc = "release" /\ attempts' = attempts /\ jobs' = jobs \ {j}
    BY <1>5 DEF Release
  <2>2. InChannel' /\ InBatch' /\ InJob' /\ NonEmpty'
    BY <1>1, <2>1 DEF Places, InChannel, InBatch, InJob, NonEmpty
  <2>3. NoneLost'
    BY <1>1, <2>1 DEF Places, NoneLost
  <2> QED
    BY <2>2, <2>3 DEF Places
<1> QED
  BY <1>3, <1>4, <1>5 DEF InsertRecords

LEMMA NextPlaces == TypeOK /\ LifeCycle /\ Places /\ [Next]_vars => Places'
<1> SUFFICES ASSUME TypeOK, LifeCycle, Places, [Next]_vars
             PROVE  Places'
  OBVIOUS
<1>1. CASE Start
  <2>1. UNCHANGED <<config, queue, batch, jobs, attempts, call>>
    BY <1>1 DEF Start, callVars, jobVars
  <2>2. \A b \in Batchers : bpc[b] = "unborn" /\ bpc'[b] = "range"
    BY <1>1 DEF Start, LifeCycle
  <2>3. Located'
    BY <2>1, LocatedUnmoved DEF Places, Located, Accepted
  <2>4. NonEmpty'
    BY <2>1, <2>2 DEF Places, NonEmpty, Batchers
  <2> QED
    BY <2>3, <2>4 DEF Places, Located
<1>2. ASSUME NEW r \in Records, Insert(r) PROVE Places'
  BY <1>2, PlacesInsert
<1>3. ASSUME NEW b \in Batchers, BatchRecords(b) PROVE Places'
  BY <1>3, PlacesReceive, PlacesGather, PlacesHandOff DEF BatchRecords
<1>4. ASSUME NEW j \in jobs, InsertRecords(j) PROVE Places'
  BY <1>4, PlacesJob
<1>5. CASE Stop \/ Terminated \/ UNCHANGED vars
  <2>1. UNCHANGED <<config, queue, batch, bpc, jobs, attempts, call>>
    BY <1>5 DEF Stop, StopCall, BatchersDone, GrabWorker, Terminated, vars, batchVars,
                jobVars, callVars
  <2> QED
    BY <2>1, PlacesUnmoved DEF Accepted
<1> QED
  BY <1>1, <1>2, <1>3, <1>4, <1>5 DEF Next

-----------------------------------------------------------------------------
(* The life cycle is kept. *)

LEMMA InitLifeCycle == Init => LifeCycle
<1> SUFFICES ASSUME Init PROVE LifeCycle
  OBVIOUS
<1>1. config \in {NewBatchInserter(raw) : raw \in RawConfigs}
  BY Zenon DEF Init
<1>2. 1 \in Batchers /\ config.MaxInsertWorkers >= 1
  BY <1>1, ConfigValid DEF Batchers
<1>3. /\ \A b \in Batchers : bpc[b] = "unborn"
      /\ closed = FALSE /\ phase = "created" /\ taken = 0
  BY DEF Init
<1> QED
  BY <1>2, <1>3 DEF LifeCycle

(* Steps of the goroutines that neither begin nor end a batcher. *)
LEMMA LifeCycleUnmoved ==
  ASSUME LifeCycle, UNCHANGED <<config, closed, phase, taken>>,
         \A b \in Batchers : /\ bpc'[b] = "unborn" <=> bpc[b] = "unborn"
                             /\ bpc'[b] = "done" <=> bpc[b] = "done",
         closed /\ queue = << >> => queue' = << >>
  PROVE  LifeCycle'
  BY DEF LifeCycle, Batchers

LEMMA NextLifeCycle == TypeOK /\ LifeCycle /\ [Next]_vars => LifeCycle'
<1> SUFFICES ASSUME TypeOK, LifeCycle, [Next]_vars
             PROVE  LifeCycle'
  OBVIOUS
<1>1. 1 \in Batchers /\ config.MaxInsertWorkers \in Nat /\ config.MaxInsertWorkers >= 1
  BY ConfigValid DEF Batchers, TypeOK
<1>2. CASE Start
  <2>1. /\ UNCHANGED <<config, closed, taken, queue>>
        /\ phase = "created" /\ phase' = "running"
        /\ \A b \in Batchers : bpc'[b] = "range"
    BY <1>2 DEF Start
  <2> QED
    BY <1>1, <2>1 DEF LifeCycle, Batchers
<1>3. ASSUME NEW r \in Records, Insert(r) PROVE LifeCycle'
  <2>1. UNCHANGED <<config, closed, phase, taken, bpc>>
    BY <1>3 DEF Insert, InsertReject, InsertCall, InsertSend, InsertPanic, InsertCount,
                batchVars, stopVars
  <2>2. closed => queue' = queue
    BY <1>3 DEF Insert, InsertReject, InsertCall, InsertSend, InsertPanic, InsertCount,
                batchVars
  <2> QED
    BY <2>1, <2>2, LifeCycleUnmoved
<1>4. ASSUME NEW b \in Batchers, BatchRecords(b) PROVE LifeCycle'
  <2>1. CASE RangeEnds(b)
    <3>1. /\ UNCHANGED <<config, closed, phase, taken, queue>>
          /\ closed /\ queue = << >> /\ bpc[b] = "range" /\ bpc'[b] = "done"
          /\ \A c \in Batchers : c # b => bpc'[c] = bpc[c]
      BY <2>1 DEF RangeEnds, stopVars, TypeOK
    <3> QED
      BY <3>1 DEF LifeCycle, Batchers
  <2>2. CASE ~RangeEnds(b)
    <3>1. /\ UNCHANGED <<config, closed, phase, taken>>
          /\ \A c \in Batchers : c # b => bpc'[c] = bpc[c]
          /\ bpc[b] \notin {"unborn", "done"} /\ bpc'[b] \notin {"unborn", "done"}
          /\ queue = << >> => queue' = << >>
      BY <1>4, <2>2 DEF BatchRecords, ReceiveFirst, CountFirst, Tick, ReceiveMore, CountMore,
                        ReceiveClosed, HandOff, stopVars, TypeOK
    <3> QED
      BY <3>1, LifeCycleUnmoved
  <2> QED
    BY <2>1, <2>2
<1>5. ASSUME NEW j \in jobs, InsertRecords(j) PROVE LifeCycle'
  <2>1. UNCHANGED <<config, closed, phase, taken, bpc, queue>>
    BY <1>5 DEF InsertRecords, InsertReturns, SendTimes, Release, batchVars, stopVars
  <2> QED
    BY <2>1, LifeCycleUnmoved
<1>6. CASE StopCall
  <2>1. /\ UNCHANGED <<config, taken, bpc, queue>>
        /\ phase = "running" /\ phase' = "waiting" /\ closed' = TRUE
    BY <1>6 DEF StopCall, batchVars
  <2> QED
    BY <2>1 DEF LifeCycle, Batchers
<1>7. CASE BatchersDone
  <2>1. /\ UNCHANGED <<config, closed, taken, bpc, queue>>
        /\ phase = "waiting" /\ phase' = "acquiring"
        /\ \A b \in Batchers : bpc[b] = "done"
    BY <1>7 DEF BatchersDone, batchVars
  <2> QED
    BY <1>1, <2>1 DEF LifeCycle, Batchers
<1>8. CASE GrabWorker
  <2>1. /\ UNCHANGED <<config, closed, bpc, queue>>
        /\ phase = "acquiring" /\ taken' = taken + 1
        /\ phase' = IF taken' = config.MaxInsertWorkers THEN "stopped" ELSE phase
    BY <1>8 DEF GrabWorker, batchVars
  <2>2. taken' <= config.MaxInsertWorkers /\ taken' \in Nat
    BY <1>1, <2>1 DEF LifeCycle, TypeOK
  <2> QED
    BY <1>1, <2>1, <2>2 DEF LifeCycle, Batchers
<1>9. CASE Terminated \/ UNCHANGED vars
  BY <1>9, LifeCycleUnmoved DEF Terminated, vars
<1> QED
  BY <1>2, <1>3, <1>4, <1>5, <1>6, <1>7, <1>8, <1>9 DEF Next, Stop

-----------------------------------------------------------------------------
(***************************************************************************)
(* The permits.  A job is a goroutine, and two goroutines are different    *)
(* elements of jobs because their records are: Places is needed to count.  *)
(***************************************************************************)

LEMMA InitPermits == Init => Permits
<1> SUFFICES ASSUME Init PROVE Permits
  OBVIOUS
<1>1. config \in {NewBatchInserter(raw) : raw \in RawConfigs}
  BY Zenon DEF Init
<1>2. jobs = {} /\ permits = config.MaxInsertWorkers /\ taken = 0
  BY DEF Init
<1> QED
  BY <1>1, <1>2, ConfigValid, FS_EmptySet DEF Permits, PermitsAccounted

LEMMA NextPermits == TypeOK /\ LifeCycle /\ Places /\ Permits /\ [Next]_vars => Permits'
<1> SUFFICES ASSUME TypeOK, LifeCycle, Places, Permits, [Next]_vars
             PROVE  Permits'
  OBVIOUS
<1>1. /\ permits \in Nat /\ taken \in Nat
      /\ IsFiniteSet(jobs) /\ Cardinality(jobs) \in Nat
      /\ permits + taken + Cardinality(jobs) = config.MaxInsertWorkers
  BY FS_CardinalityType DEF TypeOK, Permits, PermitsAccounted
<1>2. CASE UNCHANGED <<config, permits, taken, jobs>>
  BY <1>2 DEF Permits, PermitsAccounted
<1>3. ASSUME NEW b \in Batchers, HandOff(b) PROVE Permits'
  <2> DEFINE k == [records |-> batch[b], pc |-> "insert"]
  <2>1. /\ UNCHANGED <<config, taken>>
        /\ permits' = permits - 1 /\ jobs' = jobs \cup {k}
        /\ bpc[b] = "flush"
    BY <1>3 DEF HandOff, stopVars
  <2>2. batch[b] # {} /\ k.records = batch[b]
    BY <2>1 DEF Places, NonEmpty
  <2>3. k \notin jobs
    BY <2>2 DEF Places, InJob
  <2>4. IsFiniteSet(jobs') /\ Cardinality(jobs') = Cardinality(jobs) + 1
    BY <1>1, <2>1, <2>3, FS_AddElement
  <2> QED
    BY <1>1, <2>1, <2>4 DEF Permits, PermitsAccounted
<1>4. ASSUME NEW j \in jobs, InsertRecords(j) PROVE Permits'
  <2>1. /\ IsFiniteSet(jobs \ {j})
        /\ Cardinality(jobs \ {j}) = Cardinality(jobs) - 1
    BY <1>1, FS_RemoveElement
  <2>2. CASE Release(j)
    <3>1. UNCHANGED <<config, taken>> /\ permits' = permits + 1 /\ jobs' = jobs \ {j}
      BY <2>2 DEF Release, stopVars
    <3> QED
      BY <1>1, <2>1, <3>1 DEF Permits, PermitsAccounted
  <2>3. CASE SendTimes(j) \/ \E result \in {"stored", "failed"} : InsertReturns(j, result)
    <3>1. /\ UNCHANGED <<config, permits, taken>>
          /\ Advance(j, "times") \/ Advance(j, "release")
      BY <2>3 DEF InsertReturns, SendTimes, stopVars
    <3>2. PICK k : k.records = j.records /\ jobs' = (jobs \ {j}) \cup {k}
      BY <3>1, AdvanceJob
    <3>3. k \notin jobs \ {j}
      BY <3>2 DEF Places, InJob, NonEmpty
    <3>4. IsFiniteSet(jobs') /\ Cardinality(jobs') = Cardinality(jobs \ {j}) + 1
      BY <2>1, <3>2, <3>3, FS_AddElement
    <3> QED
      BY <1>1, <2>1, <3>1, <3>4 DEF Permits, PermitsAccounted
  <2> QED
    BY <1>4, <2>2, <2>3 DEF InsertRecords
<1>5. CASE GrabWorker
  <2>1. /\ UNCHANGED <<config, jobs>>
        /\ permits' = permits - 1 /\ taken' = taken + 1
    BY <1>5 DEF GrabWorker, jobVars
  <2> QED
    BY <1>1, <2>1 DEF Permits, PermitsAccounted
<1>6. CASE Start \/ StopCall \/ BatchersDone \/ Terminated \/ UNCHANGED vars
  BY <1>2, <1>6 DEF Start, StopCall, BatchersDone, Terminated, vars, jobVars
<1>7. ASSUME NEW r \in Records, Insert(r) PROVE Permits'
  BY <1>2, <1>7 DEF Insert, InsertReject, InsertCall, InsertSend, InsertPanic, InsertCount,
                    jobVars, stopVars
<1>8. ASSUME NEW b \in Batchers, BatchRecords(b), ~HandOff(b) PROVE Permits'
  BY <1>2, <1>8 DEF BatchRecords, ReceiveFirst, CountFirst, Tick, ReceiveMore, CountMore,
                    ReceiveClosed, RangeEnds, jobVars, stopVars
<1> QED
  BY <1>3, <1>4, <1>5, <1>6, <1>7, <1>8 DEF Next, Stop

-----------------------------------------------------------------------------
(* The outcomes and the time tracker.                                      *)

LEMMA InitOutcomes == Init => Outcomes /\ Times
<1> SUFFICES ASSUME Init PROVE Outcomes /\ Times
  OBVIOUS
<1>1. /\ \A r \in Records : outcome[r] = "none" /\ attempts[r] = 0 /\ tracked[r] = 0
      /\ dropped = 0
  BY DEF Init
<1>2. Failed = {}
  BY <1>1 DEF Failed
<1> QED
  BY <1>1, <1>2, FS_EmptySet DEF Outcomes, Times

(* A failure adds to the dropped count records that had no outcome yet.    *)
LEMMA NextOutcomes == TypeOK /\ Places /\ Outcomes /\ [Next]_vars => Outcomes'
<1> SUFFICES ASSUME TypeOK, Places, Outcomes, [Next]_vars
             PROVE  Outcomes'
  OBVIOUS
<1>1. CASE UNCHANGED <<attempts, outcome, dropped>>
  BY <1>1 DEF Outcomes, Failed
<1>2. ASSUME NEW j \in jobs, NEW result \in {"stored", "failed"}, InsertReturns(j, result)
      PROVE  Outcomes'
  <2>1. /\ \A r \in Records : /\ attempts'[r] = attempts[r] + IF r \in j.records THEN 1 ELSE 0
                              /\ outcome'[r] = IF r \in j.records THEN result ELSE outcome[r]
        /\ dropped' = dropped + IF result = "failed" THEN Cardinality(j.records) ELSE 0
        /\ \A r \in j.records : attempts[r] = 0
    BY <1>2 DEF InsertReturns, Places, InJob
  <2>2. /\ j.records \subseteq Records /\ Failed \subseteq Records
        /\ \A r \in Records : attempts[r] \in Nat
        /\ \A r \in Records : outcome[r] = "none" <=> attempts[r] = 0
        /\ dropped = Cardinality(Failed)
    BY DEF TypeOK, Outcomes, Failed
  <2>3. \A r \in Records : outcome'[r] = "none" <=> attempts'[r] = 0
    BY <2>1, <2>2
  <2>4. IsFiniteSet(j.records) /\ IsFiniteSet(Failed)
    BY <2>2, RecordsAssumption, FS_Subset
  <2>5. Failed \cap j.records = {}
    BY <2>1, <2>2 DEF Failed
  <2>6. CASE result = "stored"
    <3>1. Failed' = Failed
      BY <2>1, <2>2, <2>5, <2>6 DEF Failed
    <3>2. dropped' = dropped
      BY <2>1, <2>2, <2>4, <2>6, FS_CardinalityType
    <3> QED
      BY <2>2, <2>3, <3>1, <3>2 DEF Outcomes
  <2>7. CASE result = "failed"
    <3>1. Failed' = Failed \cup j.records
      BY <2>1, <2>2, <2>7 DEF Failed
    <3>2. Cardinality(Failed') = Cardinality(Failed \cup j.records)
      BY Zenon, <3>1
    <3>3. Cardinality(Failed \cup j.records) = Cardinality(Failed) + Cardinality(j.records)
                                                 - Cardinality(Failed \cap j.records)
      BY <2>4, FS_Union
    <3>4. Cardinality(Failed \cap j.records) = 0
      BY Zenon, <2>5, FS_EmptySet
    <3>5. Cardinality(Failed) \in Nat /\ Cardinality(j.records) \in Nat
      BY <2>4, FS_CardinalityType
    <3>6. dropped' = Cardinality(Failed')
      BY <2>1, <2>2, <2>7, <3>2, <3>3, <3>4, <3>5
    <3> QED
      BY <2>3, <3>6 DEF Outcomes
  <2> QED
    BY <2>6, <2>7
<1>3. ASSUME NEW j \in jobs, SendTimes(j) \/ Release(j) PROVE Outcomes'
  BY <1>1, <1>3 DEF SendTimes, Release
<1>4. ASSUME NEW b \in Batchers, BatchRecords(b) PROVE Outcomes'
  BY <1>1, <1>4 DEF BatchRecords, ReceiveFirst, CountFirst, Tick, ReceiveMore, CountMore,
                    ReceiveClosed, HandOff, RangeEnds, jobVars
<1>5. ASSUME NEW r \in Records, Insert(r) PROVE Outcomes'
  BY <1>1, <1>5 DEF Insert, InsertReject, InsertCall, InsertSend, InsertPanic, InsertCount,
                    jobVars
<1>6. CASE Start \/ Stop \/ Terminated \/ UNCHANGED vars
  BY <1>1, <1>6 DEF Start, Stop, StopCall, BatchersDone, GrabWorker, Terminated, vars, jobVars
<1> QED
  BY <1>2, <1>3, <1>4, <1>5, <1>6 DEF Next, InsertRecords

LEMMA NextTimes == TypeOK /\ Places /\ Times /\ [Next]_vars => Times'
<1> SUFFICES ASSUME TypeOK, Places, Times, [Next]_vars
             PROVE  Times'
  OBVIOUS
<1>1. CASE UNCHANGED <<config, jobs, attempts, tracked>>
  BY <1>1 DEF Times
<1>2. ASSUME NEW b \in Batchers, HandOff(b) PROVE Times'
  <2> DEFINE k == [records |-> batch[b], pc |-> "insert"]
  <2>1. UNCHANGED <<config, attempts, tracked>> /\ jobs' = jobs \cup {k}
    BY <1>2 DEF HandOff
  <2>2. \A r \in batch[b] : attempts[r] = 0
    BY DEF Places, InBatch
  <2> QED
    BY <2>1, <2>2 DEF Times
<1>3. ASSUME NEW j \in jobs, InsertRecords(j) PROVE Times'
  <2>1. /\ j.records \subseteq Records
        /\ \A r \in j.records : /\ attempts[r] = IF j.pc = "insert" THEN 0 ELSE 1
                                /\ \A i \in jobs : i # j => r \notin i.records
    BY DEF Places, InJob, TypeOK
  <2>2. CASE \E result \in {"stored", "failed"} : InsertReturns(j, result)
    <3>1. /\ UNCHANGED <<config, tracked>> /\ j.pc = "insert"
          /\ \A r \in Records : attempts'[r] = attempts[r] + IF r \in j.records THEN 1 ELSE 0
          /\ Advance(j, "times")
      BY <2>2 DEF InsertReturns
    <3>2. PICK k : k.records = j.records /\ k.pc = "times" /\ jobs' = (jobs \ {j}) \cup {k}
      BY <3>1, AdvanceJob
    <3>3. \A r \in Records : attempts'[r] = IF r \in j.records THEN 1 ELSE attempts[r]
      BY <2>1, <3>1 DEF TypeOK
    <3> QED
      BY <2>1, <3>1, <3>2, <3>3 DEF Times
  <2>3. CASE SendTimes(j)
    <3>1. /\ UNCHANGED <<config, attempts>> /\ j.pc = "times"
          /\ \A r \in Records : tracked'[r] =
                tracked[r] + IF config.TimeTracker /\ r \in j.records THEN 1 ELSE 0
          /\ Advance(j, "release")
      BY <2>3 DEF SendTimes
    <3>2. PICK k : k.records = j.records /\ k.pc = "release" /\ jobs' = (jobs \ {j}) \cup {k}
      BY <3>1, AdvanceJob
    <3>3. \A r \in j.records : tracked[r] = 0
      BY <2>1, <3>1 DEF Times
    <3>4. \A r \in Records :
            tracked'[r] = IF config.TimeTracker /\ r \in j.records THEN 1 ELSE tracked[r]
      BY <3>1, <3>3 DEF TypeOK
    <3> QED
      BY <2>1, <3>1, <3>2, <3>4 DEF Times
  <2>4. CASE Release(j)
    <3>1. UNCHANGED <<config, attempts, tracked>> /\ j.pc = "release" /\ jobs' = jobs \ {j}
      BY <2>4 DEF Release
    <3> QED
      BY <2>1, <3>1 DEF Times
  <2> QED
    BY <1>3, <2>2, <2>3, <2>4 DEF InsertRecords
<1>4. ASSUME NEW b \in Batchers, BatchRecords(b), ~HandOff(b) PROVE Times'
  BY <1>1, <1>4 DEF BatchRecords, ReceiveFirst, CountFirst, Tick, ReceiveMore, CountMore,
                    ReceiveClosed, RangeEnds, jobVars
<1>5. ASSUME NEW r \in Records, Insert(r) PROVE Times'
  BY <1>1, <1>5 DEF Insert, InsertReject, InsertCall, InsertSend, InsertPanic, InsertCount,
                    jobVars
<1>6. CASE Start \/ Stop \/ Terminated \/ UNCHANGED vars
  BY <1>1, <1>6 DEF Start, Stop, StopCall, BatchersDone, GrabWorker, Terminated, vars, jobVars
<1> QED
  BY <1>2, <1>3, <1>4, <1>5, <1>6 DEF Next

-----------------------------------------------------------------------------
(***************************************************************************)
(* The size of a batch.  A batcher that may take one more record has one,  *)
(* or has room; so the check after the second record comes in time for     *)
(* every limit but 1.                                                      *)
(***************************************************************************)

LEMMA GroupLimitBounds ==
  ASSUME TypeOK
  PROVE  /\ GroupLimit \in Nat
         /\ config.MaxBatchSize = 0 => GroupLimit = 0
         /\ config.MaxBatchSize # 0 => GroupLimit >= 2 /\ GroupLimit >= config.MaxBatchSize
<1>1. config.MaxBatchSize \in Nat
  BY ConfigValid DEF TypeOK
<1> QED
  BY <1>1 DEF GroupLimit

LEMMA BatchesFinite ==
  ASSUME TypeOK
  PROVE  /\ \A b \in Batchers : IsFiniteSet(batch[b]) /\ Cardinality(batch[b]) \in Nat
         /\ \A j \in jobs : IsFiniteSet(j.records) /\ Cardinality(j.records) \in Nat
<1>1. \A b \in Batchers : batch[b] \subseteq Records
  BY DEF TypeOK
<1>2. \A j \in jobs : j.records \subseteq Records
  BY DEF TypeOK
<1> QED
  BY <1>1, <1>2, RecordsAssumption, FS_Subset, FS_CardinalityType

LEMMA InitBatchRoom == Init => BatchRoom
<1> SUFFICES ASSUME Init PROVE BatchRoom
  OBVIOUS
<1>1. jobs = {} /\ \A b \in Batchers : batch[b] = {} /\ bpc[b] = "unborn"
  BY DEF Init
<1>2. TypeOK
  BY InitTypeOK
<1>3. \A b \in Batchers : Cardinality(batch[b]) = 0
  BY Zenon, <1>1, FS_EmptySet
<1> QED
  BY <1>1, <1>2, <1>3, GroupLimitBounds DEF BatchRoom

LEMMA NextBatchRoom == TypeOK /\ Places /\ BatchRoom /\ [Next]_vars => BatchRoom'
<1> SUFFICES ASSUME TypeOK, Places, BatchRoom, [Next]_vars
             PROVE  BatchRoom'
  OBVIOUS
<1>1. CASE UNCHANGED <<config, bpc, batch, jobs>>
  BY <1>1 DEF BatchRoom, GroupLimit, Batchers
<1>2. ASSUME NEW b \in Batchers, BatchRecords(b) PROVE BatchRoom'
  <2> SUFFICES ASSUME config.MaxBatchSize # 0, UNCHANGED config
               PROVE  BatchRoom'
    BY <1>2 DEF BatchRoom, BatchRecords, ReceiveFirst, CountFirst, Tick, ReceiveMore, CountMore,
                ReceiveClosed, HandOff, RangeEnds
  <2>1. /\ Batchers' = Batchers /\ GroupLimit' = GroupLimit
        /\ GroupLimit \in Nat /\ GroupLimit >= 2 /\ GroupLimit >= config.MaxBatchSize
        /\ config.MaxBatchSize \in Nat
    BY GroupLimitBounds, ConfigValid DEF Batchers, GroupLimit, TypeOK
  <2>2. \A c \in Batchers : c # b => batch'[c] = batch[c] /\ bpc'[c] = bpc[c]
    BY <1>2 DEF BatchRecords, ReceiveFirst, CountFirst, Tick, ReceiveMore, CountMore,
                ReceiveClosed, HandOff, RangeEnds, TypeOK
  <2>3. /\ bpc[b] \in {"countFirst", "select"} =>
             Cardinality(batch[b]) = 1 \/ Cardinality(batch[b]) < config.MaxBatchSize
        /\ Cardinality(batch[b]) <= GroupLimit
        /\ IsFiniteSet(batch[b]) /\ Cardinality(batch[b]) \in Nat
    BY BatchesFinite DEF BatchRoom
  <2>4. SUFFICES /\ bpc'[b] \in {"countFirst", "select"} =>
                      \/ Cardinality(batch'[b]) = 1
                      \/ Cardinality(batch'[b]) < config.MaxBatchSize
                 /\ Cardinality(batch'[b]) <= GroupLimit
                 /\ \A j \in jobs' : Cardinality(j.records) <= GroupLimit
    BY <2>1, <2>2 DEF BatchRoom
  <2>5. \A j \in jobs : Cardinality(j.records) <= GroupLimit
    BY DEF BatchRoom
  <2>6. CASE ReceiveFirst(b)
    <3>1. batch'[b] = {Head(queue)} /\ jobs' = jobs
      BY <2>6 DEF ReceiveFirst, jobVars, TypeOK
    <3>2. Cardinality(batch'[b]) = 1
      BY Zenon, <3>1, FS_Singleton
    <3> QED
      BY <2>1, <2>5, <3>1, <3>2
  <2>7. CASE ReceiveMore(b)
    <3>1. /\ bpc[b] = "select" /\ bpc'[b] = "countMore" /\ jobs' = jobs
          /\ batch'[b] = batch[b] \cup {Head(queue)}
      BY <2>7 DEF ReceiveMore, jobVars, TypeOK
    <3>2. Cardinality(batch'[b]) = IF Head(queue) \in batch[b] THEN Cardinality(batch[b])
                                                               ELSE Cardinality(batch[b]) + 1
      BY Zenon, <2>3, <3>1, FS_AddElement
    <3>3. Cardinality(batch'[b]) \in Nat /\ Cardinality(batch'[b]) <= Cardinality(batch[b]) + 1
      BY <2>3, <3>2
    <3> QED
      BY <2>1, <2>3, <2>5, <3>1, <3>3
  <2>8. CASE HandOff(b)
    <3> DEFINE k == [records |-> batch[b], pc |-> "insert"]
    <3>1. batch'[b] = {} /\ bpc'[b] = "range" /\ jobs' = jobs \cup {k}
      BY <2>8 DEF HandOff, TypeOK
    <3>2. k.records = batch[b]
      OBVIOUS
    <3>3. Cardinality(k.records) <= GroupLimit
      BY <2>3, <3>2
    <3>4. Cardinality(batch'[b]) = 0
      BY Zenon, <3>1, FS_EmptySet
    <3> QED
      BY <2>1, <2>5, <3>1, <3>3, <3>4
  <2>9. CASE CountMore(b)
    <3>1. /\ batch' = batch /\ jobs' = jobs
          /\ bpc'[b] = IF Full(batch[b]) THEN "flush" ELSE "select"
      BY <2>9 DEF CountMore, jobVars, TypeOK
    <3> QED
      BY <2>1, <2>3, <2>5, <3>1 DEF Full
  <2>10. CASE CountFirst(b) \/ Tick(b) \/ ReceiveClosed(b) \/ RangeEnds(b)
    <3>1. /\ batch' = batch /\ jobs' = jobs
          /\ bpc'[b] \in {"countFirst", "select"} => bpc[b] \in {"countFirst", "select"}
      BY <2>10 DEF CountFirst, Tick, ReceiveClosed, RangeEnds, jobVars, TypeOK
    <3> QED
      BY <2>3, <2>5, <3>1
  <2> QED
    BY <1>2, <2>6, <2>7, <2>8, <2>9, <2>10 DEF BatchRecords
<1>3. ASSUME NEW j \in jobs, InsertRecords(j) PROVE BatchRoom'
  <2>1. /\ UNCHANGED <<config, bpc, batch>>
        /\ jobs' = jobs \ {j} \/ Advance(j, "times") \/ Advance(j, "release")
    BY <1>3 DEF InsertRecords, InsertReturns, SendTimes, Release, batchVars
  <2>2. \A i \in jobs' : \E k \in jobs : i.records = k.records
    BY <2>1, AdvanceJob
  <2> QED
    BY <2>1, <2>2 DEF BatchRoom, GroupLimit, Batchers
<1>4. CASE Start
  BY <1>4 DEF Start, jobVars, BatchRoom, GroupLimit, Batchers
<1>5. ASSUME NEW r \in Records, Insert(r) PROVE BatchRoom'
  BY <1>1, <1>5 DEF Insert, InsertReject, InsertCall, InsertSend, InsertPanic, InsertCount,
                    batchVars, jobVars
<1>6. CASE Stop \/ Terminated \/ UNCHANGED vars
  BY <1>1, <1>6 DEF Stop, StopCall, BatchersDone, GrabWorker, Terminated, vars, batchVars, jobVars
<1> QED
  BY <1>2, <1>3, <1>4, <1>5, <1>6 DEF Next

-----------------------------------------------------------------------------
(***************************************************************************)
(* The gauge: each send and each receive leaves one update behind, and the *)
(* update that is made is one of those.                                    *)
(***************************************************************************)

Receivers == {b \in Batchers : bpc[b] \in {"countFirst", "countMore"}}
Senders   == {r \in Records : call[r] = "sent"}

LEMMA SidesFinite ==
  ASSUME TypeOK
  PROVE  /\ IsFiniteSet(Receivers) /\ Cardinality(Receivers) \in Nat
         /\ IsFiniteSet(Senders) /\ Cardinality(Senders) \in Nat
         /\ Len(queue) \in Nat /\ gauge \in Int
<1>1. config.ParseWorkers \in Nat
  BY ConfigValid DEF TypeOK
<1>2. IsFiniteSet(Batchers)
  BY <1>1, FS_Interval DEF Batchers
<1>3. Receivers \subseteq Batchers /\ Senders \subseteq Records
  BY DEF Receivers, Senders
<1>4. Len(queue) \in Nat /\ gauge \in Int
  BY LenProperties DEF TypeOK
<1> QED
  BY <1>2, <1>3, <1>4, RecordsAssumption, FS_Subset, FS_CardinalityType

LEMMA GaugeSides ==
  GaugeAccounted <=> gauge = Len(queue) + Cardinality(Receivers) - Cardinality(Senders)
  BY Zenon DEF GaugeAccounted, Receivers, Senders

LEMMA InitGauge == Init => GaugeAccounted
<1> SUFFICES ASSUME Init PROVE GaugeAccounted
  OBVIOUS
<1>1. Receivers = {} /\ Senders = {}
  BY DEF Init, Receivers, Senders
<1>2. Cardinality(Receivers) = 0 /\ Cardinality(Senders) = 0
  BY Zenon, <1>1, FS_EmptySet
<1>3. Len(queue) = 0 /\ gauge = 0
  BY EmptySeq DEF Init
<1> QED
  BY <1>2, <1>3, GaugeSides

LEMMA NextGauge == TypeOK /\ LifeCycle /\ GaugeAccounted /\ [Next]_vars => GaugeAccounted'
<1> SUFFICES ASSUME TypeOK, LifeCycle, GaugeAccounted, [Next]_vars
             PROVE  GaugeAccounted'
  OBVIOUS
<1>1. /\ gauge = Len(queue) + Cardinality(Receivers) - Cardinality(Senders)
      /\ IsFiniteSet(Receivers) /\ Cardinality(Receivers) \in Nat
      /\ IsFiniteSet(Senders) /\ Cardinality(Senders) \in Nat
      /\ Len(queue) \in Nat /\ gauge \in Int
  BY GaugeSides, SidesFinite
<1> DEFINE Balance == gauge' = Len(queue') + Cardinality(Receivers') - Cardinality(Senders')
<1>2. SUFFICES Balance
  BY Zenon DEF GaugeAccounted, Receivers, Senders
<1>3. CASE UNCHANGED <<gauge, queue, Receivers, Senders>>
  BY <1>1, <1>3
<1>4. ASSUME NEW r \in Records, InsertSend(r) PROVE Balance
  <2>1. /\ UNCHANGED <<config, bpc, gauge>> /\ queue' = Append(queue, r)
        /\ call[r] = "sending" /\ call' = [call EXCEPT ![r] = "sent"]
    BY <1>4 DEF InsertSend
  <2>2. Len(queue') = Len(queue) + 1
    BY <2>1, AppendProperties DEF TypeOK
  <2>3. Senders' = Senders \cup {r} /\ r \notin Senders
    BY <2>1 DEF Senders, TypeOK
  <2>4. Cardinality(Senders') = Cardinality(Senders) + 1
    BY <1>1, <2>3, FS_AddElement
  <2>5. Receivers' = Receivers
    BY <2>1 DEF Receivers, Batchers
  <2> QED
    BY <1>1, <2>1, <2>2, <2>4, <2>5
<1>5. ASSUME NEW r \in Records, InsertCount(r) PROVE Balance
  <2>1. /\ UNCHANGED <<config, bpc, queue>> /\ gauge' = gauge + 1
        /\ call[r] = "sent" /\ call' = [call EXCEPT ![r] = "returned"]
    BY <1>5 DEF InsertCount, batchVars
  <2>2. Senders' = Senders \ {r} /\ r \in Senders
    BY <2>1 DEF Senders, TypeOK
  <2>3. Cardinality(Senders') = Cardinality(Senders) - 1
    BY <1>1, <2>2, FS_RemoveElement
  <2>4. Receivers' = Receivers
    BY <2>1 DEF Receivers, Batchers
  <2> QED
    BY <1>1, <2>1, <2>3, <2>4
<1>6. ASSUME NEW r \in Records, InsertReject(r) \/ InsertCall(r) \/ InsertPanic(r)
      PROVE  Balance
  <2>1. /\ UNCHANGED <<config, bpc, queue, gauge>>
        /\ \A x \in Records : call'[x] = "sent" <=> call[x] = "sent"
    BY <1>6 DEF InsertReject, InsertCall, InsertPanic, batchVars, TypeOK
  <2> QED
    BY <1>3, <2>1 DEF Senders, Receivers, Batchers
<1>7. ASSUME NEW b \in Batchers, ReceiveFirst(b) \/ ReceiveMore(b) PROVE Balance
  <2>1. /\ UNCHANGED <<config, call, gauge>>
        /\ queue # << >> /\ queue' = Tail(queue)
        /\ bpc[b] \in {"range", "select"} /\ bpc'[b] \in {"countFirst", "countMore"}
        /\ \A c \in Batchers : c # b => bpc'[c] = bpc[c]
    BY <1>7 DEF ReceiveFirst, ReceiveMore, callVars, TypeOK
  <2>2. Len(queue') = Len(queue) - 1
    BY <2>1, HeadTailProperties DEF TypeOK
  <2>3. Receivers' = Receivers \cup {b} /\ b \notin Receivers
    BY <2>1 DEF Receivers, Batchers
  <2>4. Cardinality(Receivers') = Cardinality(Receivers) + 1
    BY <1>1, <2>3, FS_AddElement
  <2>5. Senders' = Senders
    BY <2>1 DEF Senders
  <2> QED
    BY <1>1, <2>1, <2>2, <2>4, <2>5
<1>8. ASSUME NEW b \in Batchers, CountFirst(b) \/ CountMore(b) PROVE Balance
  <2>1. /\ UNCHANGED <<config, call, queue>> /\ gauge' = gauge - 1
        /\ bpc[b] \in {"countFirst", "countMore"} /\ bpc'[b] \in {"select", "flush"}
        /\ \A c \in Batchers : c # b => bpc'[c] = bpc[c]
    BY <1>8 DEF CountFirst, CountMore, TypeOK
  <2>2. Receivers' = Receivers \ {b} /\ b \in Receivers
    BY <2>1 DEF Receivers, Batchers
  <2>3. Cardinality(Receivers') = Cardinality(Receivers) - 1
    BY <1>1, <2>2, FS_RemoveElement
  <2>4. Senders' = Senders
    BY <2>1 DEF Senders
  <2> QED
    BY <1>1, <2>1, <2>3, <2>4
<1>9. ASSUME NEW b \in Batchers, Tick(b) \/ ReceiveClosed(b) \/ HandOff(b) \/ RangeEnds(b)
      PROVE  Balance
  <2>1. /\ UNCHANGED <<config, call, queue, gauge>>
        /\ \A c \in Batchers : bpc'[c] \in {"countFirst", "countMore"} <=>
                                bpc[c] \in {"countFirst", "countMore"}
    BY <1>9 DEF Tick, ReceiveClosed, HandOff, RangeEnds, callVars, TypeOK
  <2> QED
    BY <1>3, <2>1 DEF Senders, Receivers, Batchers
<1>10. ASSUME NEW j \in jobs, InsertRecords(j) PROVE Balance
  BY <1>3, <1>10 DEF InsertRecords, InsertReturns, SendTimes, Release, callVars, batchVars,
                     Senders, Receivers, Batchers
<1>11. CASE Start
  <2>1. /\ UNCHANGED <<config, call, queue, gauge>>
        /\ \A b \in Batchers : bpc[b] = "unborn" /\ bpc'[b] = "range"
    BY <1>11 DEF Start, callVars, LifeCycle
  <2> QED
    BY <1>3, <2>1 DEF Senders, Receivers, Batchers
<1>12. CASE Stop \/ Terminated \/ UNCHANGED vars
  BY <1>3, <1>12 DEF Stop, StopCall, BatchersDone, GrabWorker, Terminated, vars, callVars,
                     batchVars, Senders, Receivers, Batchers
<1> QED
  BY <1>4, <1>5, <1>6, <1>7, <1>8, <1>9, <1>10, <1>11, <1>12 DEF Next, Insert, BatchRecords

-----------------------------------------------------------------------------
(***************************************************************************)
(* The invariants together, and what follows from them.                    *)
(***************************************************************************)

IInv ==
  /\ TypeOK /\ LifeCycle /\ Places /\ Permits
  /\ Outcomes /\ Times /\ BatchRoom /\ GaugeAccounted

LEMMA Inductive == Spec => []IInv
<1>1. Init => IInv
  BY InitTypeOK, InitLifeCycle, InitPlaces, InitPermits, InitOutcomes, InitBatchRoom, InitGauge
     DEF IInv
<1>2. IInv /\ [Next]_vars => IInv'
  BY NextTypeOK, NextLifeCycle, NextPlaces, NextPermits, NextOutcomes, NextTimes,
     NextBatchRoom, NextGauge DEF IInv
<1> QED
  BY <1>1, <1>2, PTL DEF Spec

(* However callers, batchers and workers interleave, no record is in two   *)
(* places of the pipeline.                                                 *)
THEOREM RecordsInOnePlace == Spec => []OnePlaceEach
<1>1. IInv => OnePlaceEach
  BY DEF IInv, Places, InChannel, InBatch, InJob, OnePlaceEach, Gathered
<1> QED
  BY <1>1, Inductive, PTL

(* No accepted record is lost, or written twice, on its way through the    *)
(* channel, a batch and a goroutine, and nothing else is written.          *)
THEOREM AcceptedAttemptedOnce == Spec => []EachAcceptedOnce
<1>1. IInv => EachAcceptedOnce
  <2> SUFFICES ASSUME IInv, NEW r \in Records
               PROVE  attempts[r] = IF r \in Accepted \ (Queued \cup Gathered \cup Writing)
                                    THEN 1 ELSE 0
    BY DEF EachAcceptedOnce
  <2>1. r \in Queued \cup Gathered \cup Writing => attempts[r] = 0
    BY DEF IInv, Places, InChannel, InBatch, InJob, Gathered, Writing
  <2>2. r \in Accepted /\ attempts[r] = 0 => r \in Queued \cup Gathered \cup Writing
    BY DEF IInv, Places, NoneLost, Gathered, Writing
  <2>3. attempts[r] \in {0, 1} /\ (attempts[r] = 1 => r \in Accepted)
    BY DEF IInv, Places, NoneLost
  <2> QED
    BY <2>1, <2>2, <2>3
<1> QED
  BY <1>1, Inductive, PTL

(* The semaphore neither loses nor gains a permit: at most                 *)
(* MaxInsertWorkers goroutines write at once.                              *)
THEOREM PermitsNeverLost == Spec => []PermitsAccounted
<1>1. IInv => PermitsAccounted
  BY DEF IInv, Permits
<1> QED
  BY <1>1, Inductive, PTL

(* No write is empty or larger than MaxBatchSize, where that is at least   *)
(* 2, whenever records arrive and whoever receives them.                   *)
THEOREM BatchesBounded == Spec => []BatchSizeBounded
<1>1. IInv => BatchSizeBounded
  <2> SUFFICES ASSUME IInv, NEW j \in jobs
               PROVE  /\ j.records # {}
                      /\ config.MaxBatchSize > 1 => Cardinality(j.records) <= config.MaxBatchSize
    BY DEF BatchSizeBounded
  <2>1. j.records # {}
    BY DEF IInv, Places, NonEmpty
  <2>2. config.MaxBatchSize \in Nat
    BY ConfigValid DEF IInv, TypeOK
  <2>3. config.MaxBatchSize > 1 => GroupLimit = config.MaxBatchSize
    BY <2>2 DEF GroupLimit
  <2>4. config.MaxBatchSize > 1 => Cardinality(j.records) <= GroupLimit
    BY <2>2 DEF IInv, BatchRoom
  <2> QED
    BY <2>1, <2>3, <2>4
<1> QED
  BY <1>1, Inductive, PTL

(* The queue depth metric is never off by more than the updates that are   *)
(* on their way, and right whenever there are none.                        *)
THEOREM GaugeFollowsQueue == Spec => []GaugeAccounted
<1>1. IInv => GaugeAccounted
  BY DEF IInv
<1> QED
  BY <1>1, Inductive, PTL

(* Once the channel is closed and Stop holds every permit, the pipeline is *)
(* empty and no goroutine is left to refill it.                            *)
LEMMA StoppedEmpty ==
  ASSUME IInv, phase = "stopped"
  PROVE  /\ closed /\ queue = << >> /\ jobs = {}
         /\ \A b \in Batchers : bpc[b] = "done" /\ batch[b] = {}
<1>1. 1 \in Batchers
  BY ConfigValid DEF IInv, TypeOK, Batchers
<1>2. closed /\ \A b \in Batchers : bpc[b] = "done"
  BY DEF IInv, LifeCycle
<1>3. queue = << >>
  BY <1>1, <1>2 DEF IInv, LifeCycle
<1>4. \A b \in Batchers : batch[b] = {}
  BY <1>2 DEF IInv, Places, NonEmpty
<1>5. taken = config.MaxInsertWorkers /\ permits \in Nat /\ taken \in Nat
  BY DEF IInv, LifeCycle, TypeOK
<1>6. Cardinality(jobs) = 0 /\ IsFiniteSet(jobs)
  BY <1>5, FS_CardinalityType DEF IInv, Permits, PermitsAccounted
<1>7. jobs = {}
  BY <1>6, FS_EmptySet
<1> QED
  BY <1>2, <1>3, <1>4, <1>7

(* When Stop returns, everything that was added has been handled, its time *)
(* tracked and its failure counted.                                        *)
THEOREM StopDrainsAll == Spec => []StoppedMeansDrained
<1>1. IInv => StoppedMeansDrained
  <2> SUFFICES ASSUME IInv, phase = "stopped"
               PROVE  /\ queue = << >> /\ Gathered = {} /\ jobs = {}
                      /\ \A r \in Records :
                           /\ attempts[r] = IF r \in Accepted THEN 1 ELSE 0
                           /\ tracked[r] = IF config.TimeTracker THEN attempts[r] ELSE 0
                      /\ dropped = Cardinality({r \in Accepted : outcome[r] = "failed"})
    BY DEF StoppedMeansDrained
  <2>1. /\ queue = << >> /\ jobs = {} /\ \A b \in Batchers : batch[b] = {}
        /\ Queued = {}
    BY StoppedEmpty DEF Queued, Range
  <2>2. Gathered = {}
    BY <2>1 DEF Gathered
  <2>3. \A r \in Records : attempts[r] = IF r \in Accepted THEN 1 ELSE 0
    BY <2>1 DEF IInv, Places, NoneLost
  <2>4. \A r \in Records : tracked[r] = IF config.TimeTracker THEN attempts[r] ELSE 0
    BY <2>1, <2>3 DEF IInv, Times
  <2>5. {r \in Accepted : outcome[r] = "failed"} = Failed
    BY <2>3 DEF IInv, Outcomes, Failed, Accepted
  <2>6. dropped = Cardinality({r \in Accepted : outcome[r] = "failed"})
    BY Zenon, <2>5 DEF IInv, Outcomes
  <2> QED
    BY <2>1, <2>2, <2>3, <2>4, <2>6
<1> QED
  BY <1>1, Inductive, PTL

(* After Stop has returned no goroutine of the inserter writes a record,   *)
(* tracks a time or counts a drop, not even for an Insert that was blocked *)
(* when Stop was called.                                                   *)
THEOREM StoppedIsQuiet == Spec => QuietAfterStop
<1> DEFINE Quiet == phase = "stopped" =>
                      UNCHANGED <<queue, batch, jobs, dropped, attempts, outcome, tracked>>
<1>1. IInv /\ [Next]_vars => [Quiet]_vars
  <2> SUFFICES ASSUME IInv, Next, phase = "stopped"
               PROVE  UNCHANGED <<queue, batch, jobs, dropped, attempts, outcome, tracked>>
    OBVIOUS
  <2>1. /\ closed /\ queue = << >> /\ jobs = {}
        /\ \A b \in Batchers : bpc[b] = "done"
    BY StoppedEmpty
  <2>2. ASSUME NEW r \in Records, Insert(r) PROVE UNCHANGED <<batchVars, jobVars>>
    BY <2>1, <2>2 DEF Insert, InsertReject, InsertCall, InsertSend, InsertPanic, InsertCount
  <2>3. ~ \E b \in Batchers : BatchRecords(b)
    BY <2>1 DEF BatchRecords, ReceiveFirst, CountFirst, Tick, ReceiveMore, CountMore,
                ReceiveClosed, HandOff, RangeEnds
  <2>4. ~ (Start \/ Stop)
    BY DEF Start, Stop, StopCall, BatchersDone, GrabWorker
  <2> QED
    BY <2>1, <2>2, <2>3, <2>4 DEF Next, Terminated, vars, batchVars, jobVars
<1> QED
  BY <1>1, Inductive, PTL DEF Spec, QuietAfterStop

-----------------------------------------------------------------------------
(* BatchInserter implements RecordSink: each step of the code is a step of *)
(* the sink or changes nothing that a caller is promised anything about,   *)
(* and the invariant gives what the sink's guards ask for.                 *)

LEMMA InitSink == Init => Sink!Init
<1> SUFFICES ASSUME Init PROVE Sink!Init
  OBVIOUS
<1>1. \A r \in Records : SinkStatus(r) = "new"
  BY DEF Init, SinkStatus
<1>2. SinkService = "open"
  BY DEF Init, SinkService
<1>3. GroupLimit \in Nat
  BY InitTypeOK, GroupLimitBounds
<1> QED
  BY <1>1, <1>2, <1>3 DEF Sink!Init

(* How a record stands with the sink, by what the invariant knows of it.   *)
LEMMA StatusOfAccepted ==
  ASSUME IInv, NEW r \in Records
  PROVE  /\ SinkStatus(r) = "accepted" <=> r \in Accepted /\ attempts[r] = 0
         /\ SinkStatus(r) = "new" <=> call[r] \in {"new", "sending"}
         /\ r \notin Accepted => attempts[r] = 0
<1>1. /\ call[r] \in {"new", "rejected", "sending", "sent", "returned", "panicked"}
      /\ outcome[r] \in {"none", "stored", "failed"}
      /\ outcome[r] = "none" <=> attempts[r] = 0
      /\ attempts[r] \in {0, 1} /\ (attempts[r] = 1 => r \in Accepted)
  BY DEF IInv, TypeOK, Outcomes, Places, NoneLost
<1> QED
  BY <1>1 DEF SinkStatus, Accepted

LEMMA GroupLimitUnchanged ==
  ASSUME UNCHANGED config
  PROVE  GroupLimit' = GroupLimit
  BY DEF GroupLimit

(* A step that changes no call, outcome or phase is none for the sink.     *)
LEMMA SinkStutters ==
  ASSUME UNCHANGED <<config, phase>>, \A r \in Records : SinkStatus(r)' = SinkStatus(r)
  PROVE  UNCHANGED Sink!sinkVars
<1>1. SinkService' = SinkService
  BY DEF SinkService
<1>2. [r \in Records |-> SinkStatus(r)]' = [r \in Records |-> SinkStatus(r)]
  OBVIOUS
<1> QED
  BY <1>1, <1>2, GroupLimitUnchanged DEF Sink!sinkVars

(* Insert refuses a record, or accepts it as its send goes through.        *)
LEMMA SinkInsert ==
  ASSUME IInv, NEW r \in Records, Insert(r)
  PROVE  [Sink!Next]_(Sink!sinkVars)
<1>1. /\ UNCHANGED <<config, phase, outcome>>
      /\ \A x \in Records : x # r => call'[x] = call[x]
  BY DEF Insert, InsertReject, InsertCall, InsertSend, InsertPanic, InsertCount, IInv, TypeOK,
         jobVars, stopVars
<1>2. \A x \in Records : x # r => SinkStatus(x)' = SinkStatus(x)
  BY <1>1 DEF SinkStatus
<1>3. SinkService' = SinkService /\ GroupLimit' = GroupLimit
  BY <1>1, GroupLimitUnchanged DEF SinkService
<1>4. CASE InsertReject(r) \/ InsertPanic(r)
  <2>1. call[r] \in {"new", "sending"} /\ call'[r] \in {"rejected", "panicked"}
    BY <1>4 DEF InsertReject, InsertPanic, IInv, TypeOK
  <2>2. SinkStatus(r) = "new" /\ outcome[r] = "none"
    BY <2>1, StatusOfAccepted DEF IInv, Outcomes, Accepted
  <2>3. SinkStatus(r)' = "refused"
    BY <1>1, <2>1, <2>2 DEF SinkStatus
  <2>4. Sink!Refuse(r)
    BY <1>2, <1>3, <2>2, <2>3 DEF Sink!Refuse
  <2> QED
    BY <2>4 DEF Sink!Next
<1>5. CASE InsertSend(r)
  <2>1. call[r] = "sending" /\ call'[r] = "sent" /\ ~closed
    BY <1>5 DEF InsertSend, IInv, TypeOK
  <2>2. SinkStatus(r) = "new" /\ outcome[r] = "none"
    BY <2>1, StatusOfAccepted DEF IInv, Outcomes, Accepted
  <2>3. SinkStatus(r)' = "accepted"
    BY <1>1, <2>1, <2>2 DEF SinkStatus
  <2>4. SinkService = "open"
    BY <2>1 DEF IInv, TypeOK, LifeCycle, SinkService
  <2>5. Sink!Accept(r)
    BY <1>2, <1>3, <2>2, <2>3, <2>4 DEF Sink!Accept
  <2> QED
    BY <2>5 DEF Sink!Next
<1>6. CASE InsertCall(r) \/ InsertCount(r)
  <2>1. \/ call[r] = "new" /\ call'[r] = "sending"
        \/ call[r] = "sent" /\ call'[r] = "returned"
    BY <1>6 DEF InsertCall, InsertCount, IInv, TypeOK
  <2>2. SinkStatus(r)' = SinkStatus(r)
    BY <1>1, <2>1 DEF SinkStatus
  <2> QED
    BY <1>1, <1>2, <2>2, SinkStutters
<1> QED
  BY <1>4, <1>5, <1>6 DEF Insert

(* A call of the wrapped inserter delivers the records of its job.         *)
LEMMA SinkDeliver ==
  ASSUME IInv, NEW j \in jobs, NEW result \in {"stored", "failed"}, InsertReturns(j, result)
  PROVE  Sink!Next
<1> DEFINE group == j.records
           delivered == IF result = "stored" THEN "stored" ELSE "dropped"
<1>1. /\ UNCHANGED <<config, phase, call>>
      /\ \A r \in Records : outcome'[r] = IF r \in group THEN result ELSE outcome[r]
      /\ j.pc = "insert"
  BY DEF InsertReturns, callVars, stopVars
<1>2. /\ group \subseteq Records /\ group # {}
      /\ \A r \in group : r \in Accepted /\ attempts[r] = 0
  BY <1>1 DEF IInv, TypeOK, Places, InJob, NonEmpty
<1>3. SinkService # "stopped"
  BY StoppedEmpty DEF SinkService
<1>4. GroupLimit = 0 \/ Sink!Cardinality(group) <= GroupLimit
  <2>1. Sink!Cardinality(group) = Cardinality(group)
    BY Zenon DEF Sink!Cardinality, Cardinality
  <2> QED
    BY <2>1, GroupLimitBounds DEF IInv, BatchRoom
<1>5. \A r \in group : SinkStatus(r) = "accepted"
  BY <1>2, StatusOfAccepted
<1>6. \A r \in Records : SinkStatus(r)' = IF r \in group THEN delivered ELSE SinkStatus(r)
  <2>1. ASSUME NEW r \in group PROVE SinkStatus(r)' = delivered
    BY <1>1, <1>2, <2>1 DEF SinkStatus, Accepted
  <2>2. ASSUME NEW r \in Records, r \notin group PROVE SinkStatus(r)' = SinkStatus(r)
    BY <1>1, <2>2 DEF SinkStatus
  <2> QED
    BY <1>2, <2>1, <2>2
<1>7. SinkService' = SinkService /\ GroupLimit' = GroupLimit
  BY <1>1, GroupLimitUnchanged DEF SinkService
<1>8. \A r \in group : [x \in Records |-> SinkStatus(x)][r] = "accepted"
  BY <1>2, <1>5
<1>9. [r \in Records |-> SinkStatus(r)]'
        = [r \in Records |-> IF r \in group THEN delivered ELSE [x \in Records |-> SinkStatus(x)][r]]
  BY <1>6
<1>10. Sink!Deliver(group, delivered)
  BY <1>2, <1>3, <1>4, <1>7, <1>8, <1>9 DEF Sink!Deliver
<1> QED
  BY <1>2, <1>10 DEF Sink!Next

(* Stop closes the sink, and finishes it as it takes the last permit.      *)
LEMMA SinkStop ==
  ASSUME IInv, Stop
  PROVE  [Sink!Next]_(Sink!sinkVars)
<1>1. UNCHANGED <<config, call, outcome>>
  BY DEF Stop, StopCall, BatchersDone, GrabWorker, callVars, jobVars
<1>2. \A r \in Records : SinkStatus(r)' = SinkStatus(r)
  BY <1>1 DEF SinkStatus
<1>3. [r \in Records |-> SinkStatus(r)]' = [r \in Records |-> SinkStatus(r)]
  BY <1>2
<1>4. GroupLimit' = GroupLimit
  BY <1>1, GroupLimitUnchanged
<1>5. CASE StopCall
  <2>1. SinkService = "open" /\ SinkService' = "closing"
    BY <1>5 DEF StopCall, SinkService
  <2> QED
    BY <1>3, <1>4, <2>1 DEF Sink!Next, Sink!Close
<1>6. CASE BatchersDone
  <2>1. SinkService' = SinkService
    BY <1>6 DEF BatchersDone, SinkService
  <2> QED
    BY <1>3, <1>4, <2>1 DEF Sink!sinkVars
<1>7. CASE GrabWorker /\ phase' = "stopped"
  <2>1. SinkService = "closing" /\ SinkService' = "stopped"
    BY <1>7 DEF GrabWorker, SinkService
  <2>2. queue = << >> /\ jobs = {} /\ \A b \in Batchers : batch[b] = {}
    <3>1. /\ phase = "acquiring" /\ permits > 0
          /\ taken' = taken + 1 /\ taken' = config.MaxInsertWorkers
      BY <1>7 DEF GrabWorker
    <3>2. Cardinality(jobs) = 0 /\ IsFiniteSet(jobs)
      BY <3>1, FS_CardinalityType DEF IInv, TypeOK, Permits, PermitsAccounted
    <3>3. jobs = {}
      BY <3>2, FS_EmptySet
    <3>4. 1 \in Batchers /\ \A b \in Batchers : bpc[b] = "done"
      BY <3>1, ConfigValid DEF IInv, TypeOK, LifeCycle, Batchers
    <3> QED
      BY <3>3, <3>4 DEF IInv, LifeCycle, Places, NonEmpty
  <2>3. \A r \in Records : SinkStatus(r) # "accepted"
    BY <2>2, StatusOfAccepted DEF IInv, Places, NoneLost, Queued, Range
  <2>4. \A r \in Records : [x \in Records |-> SinkStatus(x)][r] # "accepted"
    BY <2>3
  <2> QED
    BY <1>3, <1>4, <2>1, <2>4 DEF Sink!Next, Sink!Finish
<1>8. CASE GrabWorker /\ phase' # "stopped"
  <2>1. UNCHANGED phase
    BY <1>8 DEF GrabWorker
  <2> QED
    BY <1>1, <1>2, <2>1, SinkStutters
<1> QED
  BY <1>5, <1>6, <1>7, <1>8 DEF Stop

LEMMA SinkStep ==
  ASSUME IInv, [Next]_vars
  PROVE  [Sink!Next]_(Sink!sinkVars)
<1>1. CASE UNCHANGED <<config, phase, call, outcome>>
  BY <1>1, SinkStutters DEF SinkStatus
<1>2. CASE Start
  <2>1. /\ UNCHANGED <<config, call, outcome>>
        /\ phase = "created" /\ phase' = "running"
    BY <1>2 DEF Start, callVars, jobVars
  <2>2. SinkService' = SinkService /\ GroupLimit' = GroupLimit
    BY <2>1, GroupLimitUnchanged DEF SinkService
  <2>3. \A r \in Records : SinkStatus(r)' = SinkStatus(r)
    BY <2>1 DEF SinkStatus
  <2> QED
    BY <2>2, <2>3 DEF Sink!sinkVars
<1>3. ASSUME NEW r \in Records, Insert(r) PROVE [Sink!Next]_(Sink!sinkVars)
  BY <1>3, SinkInsert
<1>4. ASSUME NEW b \in Batchers, BatchRecords(b) PROVE UNCHANGED <<config, phase, call, outcome>>
  BY <1>4 DEF BatchRecords, ReceiveFirst, CountFirst, Tick, ReceiveMore, CountMore,
              ReceiveClosed, HandOff, RangeEnds, callVars, jobVars, stopVars
<1>5. ASSUME NEW j \in jobs, InsertRecords(j) PROVE [Sink!Next]_(Sink!sinkVars)
  <2>1. CASE SendTimes(j) \/ Release(j)
    BY <1>1, <2>1 DEF SendTimes, Release, callVars, stopVars
  <2> QED
    BY <1>5, <2>1, SinkDeliver DEF InsertRecords
<1>6. CASE Stop
  BY <1>6, SinkStop
<1>7. CASE Terminated \/ UNCHANGED vars
  BY <1>1, <1>7 DEF Terminated, vars
<1> QED
  BY <1>1, <1>2, <1>3, <1>4, <1>5, <1>6, <1>7 DEF Next

(* The batch inserter is a record sink: whatever queue, batchers, workers  *)
(* and Stop do, a record is refused or accepted, an accepted one is        *)
(* delivered once in a group of bounded size, and none is left behind.     *)
THEOREM InserterIsSink == Spec => SinkSpec
<1>1. Init => Sink!Init
  BY InitSink
<1>2. IInv /\ [Next]_vars => [Sink!Next]_(Sink!sinkVars)
  BY SinkStep
<1> QED
  BY <1>1, <1>2, Inductive, PTL DEF Spec, SinkSpec, Sink!Spec

-----------------------------------------------------------------------------
(* InsertPipeline implements BatchInserter, whose invariants, carried      *)
(* over, show that a batch is passed to the service once and shares no     *)
(* record with another, and so what is stored.                             *)

USE DEF Result

(* A step of the pipeline is one of the inserter, or none of its own.      *)
LEMMA PipelineStep == [PipelineNext]_pipelineVars => [Next]_vars
<1> SUFFICES ASSUME [PipelineNext]_pipelineVars PROVE [Next]_vars
  OBVIOUS
<1>1. CASE InserterStep
  BY <1>1 DEF InserterStep, Next, InsertRecords
<1>2. ASSUME NEW j \in jobs, ServiceReturns(j) PROVE Next
  BY <1>2 DEF ServiceReturns, Next, InsertRecords
<1>3. CASE UNCHANGED vars
  BY <1>3
<1> QED
  BY <1>1, <1>2, <1>3 DEF PipelineNext, ServiceStep, CallService, Execute, Decide, pipelineVars

(* With a RetryInsertService for its inserter, the batch inserter does     *)
(* what BatchInserter says, so that every theorem about it holds of the    *)
(* pipeline.                                                               *)
THEOREM ImplementsBatchInserter == PipelineSpec => Spec
<1>1. PipelineInit => Init
  BY DEF PipelineInit
<1>2. [PipelineNext]_pipelineVars => [Next]_vars
  BY PipelineStep
<1> QED
  BY <1>1, <1>2, PTL DEF PipelineSpec, Spec

-----------------------------------------------------------------------------
(* All that is needed of the invariant of BatchInserter. *)

Job(c) == [records |-> c, pc |-> "insert"]

Base ==
  /\ \A j \in jobs : j.records \in Batches /\ (j.pc = "insert" => j = Job(j.records))
  /\ \A j, k \in jobs : j # k => j.records \cap k.records = {}
  /\ \A j \in jobs : j.pc = "insert" => \A r \in j.records : attempts[r] = 0
  /\ \A r \in Records : attempts[r] = 0 => outcome[r] = "none"
  /\ attempts \in [Records -> Nat]

LEMMA BaseHolds == IInv => Base
<1> SUFFICES ASSUME IInv PROVE Base
  OBVIOUS
<1>1. jobs \subseteq [records : SUBSET Records, pc : {"insert", "times", "release"}]
      /\ attempts \in [Records -> Nat]
  BY DEF IInv, TypeOK
<1>2. \A j \in jobs : j.records \in Batches
  <2>1. NonEmpty
    BY DEF IInv, Places
  <2>2. \A j \in jobs : j.records \in SUBSET Records
    BY <1>1
  <2>3. \A j \in jobs : j.records # {}
    BY <2>1 DEF NonEmpty
  <2> QED
    BY <2>2, <2>3 DEF Batches
<1>3. \A j \in jobs : j.pc = "insert" => j = Job(j.records)
  BY <1>1 DEF Job
<1>4. InJob
  BY DEF IInv, Places
<1>5. \A j, k \in jobs : j # k => j.records \cap k.records = {}
  BY <1>4 DEF InJob
<1>6. \A j \in jobs : j.pc = "insert" => \A r \in j.records : attempts[r] = 0
  BY <1>4 DEF InJob
<1> QED
  BY <1>1, <1>2, <1>3, <1>5, <1>6 DEF Base, IInv, Outcomes

-----------------------------------------------------------------------------
(* The calls of the service.  StoredAsAnswered is not inductive: nothing   *)
(* in it keeps a record from being in a second batch, nor the service from *)
(* repeating a statement that has succeeded.                               *)

Begun(c) == retryPc[c] # "new"

Call(c) ==
  /\ retryPc[c] \in {"new", "attempt", "backoff", "end", "done"}
  /\ retryPc[c] = "new" => tries[c] = 0
  /\ retryPc[c] = "attempt" => tries[c] = 0 \/ failed[c]
  /\ retryPc[c] = "backoff" => failed[c] /\ tries[c] > 0
  /\ retryPc[c] \in {"end", "done"} => tries[c] > 0
  /\ retryPc[c] \in {"attempt", "backoff", "end"} => Job(c) \in jobs
  /\ retryPc[c] = "done" => \A r \in c : attempts[r] # 0

Calls ==
  /\ \A c \in Batches : Call(c)
  /\ \A c, d \in Batches : Begun(c) /\ Begun(d) /\ c # d => c \cap d = {}
  /\ retryPc = [c \in Batches |-> retryPc[c]]
  /\ tries \in [Batches -> Nat]
  /\ failed \in [Batches -> BOOLEAN]

LEMMA InitCalls == PipelineInit => Calls
<1> SUFFICES ASSUME PipelineInit PROVE Calls
  OBVIOUS
<1>1. /\ retryPc = [c \in Batches |-> "new"]
      /\ tries = [c \in Batches |-> 0]
      /\ failed = [c \in Batches |-> FALSE]
  BY DEF PipelineInit, Service!Init
<1> QED
  BY <1>1 DEF Calls, Call, Begun

(* What the inserter does by itself changes neither the record of past     *)
(* attempts nor the jobs that are in a call.                               *)
LEMMA InserterKeeps ==
  ASSUME InserterStep
  PROVE  /\ \A j \in jobs : j.pc = "insert" => j \in jobs'
         /\ attempts' = attempts /\ outcome' = outcome
<1>1. CASE \E j \in jobs : SendTimes(j) \/ Release(j)
  BY <1>1 DEF SendTimes, Release, Advance
<1>2. ASSUME NEW b \in Batchers, BatchRecords(b)
      PROVE  jobs \subseteq jobs' /\ attempts' = attempts /\ outcome' = outcome
  BY <1>2 DEF BatchRecords, ReceiveFirst, CountFirst, Tick, ReceiveMore, CountMore,
              ReceiveClosed, HandOff, RangeEnds, jobVars
<1>3. ASSUME NEW r \in Records, Insert(r)
      PROVE  jobs' = jobs /\ attempts' = attempts /\ outcome' = outcome
  BY <1>3 DEF Insert, InsertReject, InsertCall, InsertSend, InsertPanic, InsertCount, jobVars
<1>4. CASE Start \/ Stop \/ Terminated
  BY <1>4 DEF Start, Stop, StopCall, BatchersDone, GrabWorker, Terminated, jobVars, vars
<1> QED
  BY <1>1, <1>2, <1>3, <1>4 DEF InserterStep

(* No other batch that has begun, or that a job carries, shares a record.  *)
LEMMA Disjoint ==
  ASSUME Base, Calls, NEW j \in jobs, j.pc = "insert", NEW d \in Batches, Begun(d),
         d # j.records
  PROVE  d \cap j.records = {}
<1>1. Call(d)
  BY DEF Calls
<1>2. CASE retryPc[d] = "done"
  BY <1>1, <1>2 DEF Call, Base
<1>3. CASE Job(d) \in jobs
  BY <1>3 DEF Base, Job
<1> QED
  BY <1>1, <1>2, <1>3 DEF Call, Begun

LEMMA NextCalls == Base /\ Calls /\ [PipelineNext]_pipelineVars => Calls'
<1> SUFFICES ASSUME Base, Calls, [PipelineNext]_pipelineVars PROVE Calls'
  OBVIOUS
<1>1. CASE InserterStep \/ UNCHANGED pipelineVars
  <2>1. UNCHANGED <<retryPc, tries, failed, attempts>>
        /\ \A j \in jobs : j.pc = "insert" => j \in jobs'
    BY <1>1, InserterKeeps DEF InserterStep, retryVars, pipelineVars, vars
  <2> QED
    BY <2>1 DEF Calls, Call, Begun, Job
<1>2. ASSUME NEW j \in jobs, CallService(j) PROVE Calls'
  <2> DEFINE c == j.records
  <2>1. c \in Batches /\ j = Job(c) /\ j.pc = "insert"
    BY <1>2 DEF CallService, Base
  <2>2. /\ retryPc[c] = "new" /\ retryPc' = [retryPc EXCEPT ![c] = "attempt"]
        /\ UNCHANGED <<jobs, attempts, tries, failed>>
    BY <1>2 DEF CallService, Service!Begin, vars
  <2> HIDE DEF c
  <2>3. \A d \in Batches : d # c => retryPc'[d] = retryPc[d]
    BY <2>1, <2>2 DEF Calls
  <2>4. retryPc'[c] = "attempt" /\ retryPc' = [d \in Batches |-> retryPc'[d]]
    BY <2>1, <2>2 DEF Calls
  <2>5. ASSUME NEW d \in Batches PROVE Call(d)'
    BY <2>1, <2>2, <2>3, <2>4 DEF Calls, Call, Job
  <2>6. \A d \in Batches : Begun(d) /\ d # c => d \cap c = {}
    BY <2>1, Disjoint DEF c
  <2>7. \A d, e \in Batches : Begun(d)' /\ Begun(e)' /\ d # e => d \cap e = {}
    BY <2>3, <2>6 DEF Calls, Begun
  <2> QED
    BY <2>2, <2>4, <2>5, <2>7 DEF Calls
<1>3. ASSUME NEW c \in Batches, NEW d \in Durations, NEW effect \in BOOLEAN, NEW error \in BOOLEAN,
             Execute(c, d, effect, error)
      PROVE  Calls'
  <2>1. /\ retryPc[c] = "attempt" /\ UNCHANGED <<jobs, attempts>>
        /\ retryPc' = [retryPc EXCEPT ![c] = IF error THEN "backoff" ELSE "end"]
        /\ tries' = [tries EXCEPT ![c] = @ + 1]
        /\ failed' = [failed EXCEPT ![c] = error]
    BY <1>3 DEF Execute, Service!Attempt, vars
  <2>2. /\ \A e \in Batches : e # c => /\ retryPc'[e] = retryPc[e] /\ tries'[e] = tries[e]
                                       /\ failed'[e] = failed[e]
        /\ retryPc'[c] = IF error THEN "backoff" ELSE "end"
        /\ tries'[c] = tries[c] + 1 /\ failed'[c] = error
        /\ retryPc' = [e \in Batches |-> retryPc'[e]]
        /\ tries' \in [Batches -> Nat] /\ failed' \in [Batches -> BOOLEAN]
    BY <2>1 DEF Calls
  <2>3. ASSUME NEW e \in Batches PROVE Call(e)'
    <3>1. CASE e = c
      BY <2>1, <2>2, <3>1 DEF Calls, Call, Job
    <3>2. CASE e # c
      BY <2>1, <2>2, <3>2 DEF Calls, Call, Job
    <3> QED
      BY <3>1, <3>2
  <2>4. \A e, f \in Batches : Begun(e)' /\ Begun(f)' /\ e # f => e \cap f = {}
    BY <2>1, <2>2 DEF Calls, Begun
  <2> QED
    BY <2>2, <2>3, <2>4 DEF Calls
<1>4. ASSUME NEW c \in Batches, Decide(c) PROVE Calls'
  <2>1. /\ retryPc[c] = "backoff" /\ UNCHANGED <<jobs, attempts, tries, failed>>
        /\ \E to \in {"attempt", "end"} : retryPc' = [retryPc EXCEPT ![c] = to]
    BY <1>4 DEF Decide, Service!GiveUp, Service!Retry, vars
  <2>2. /\ \A e \in Batches : e # c => retryPc'[e] = retryPc[e]
        /\ retryPc'[c] \in {"attempt", "end"}
        /\ retryPc' = [e \in Batches |-> retryPc'[e]]
    BY <2>1 DEF Calls
  <2>3. ASSUME NEW e \in Batches PROVE Call(e)'
    BY <2>1, <2>2 DEF Calls, Call, Job
  <2>4. \A e, f \in Batches : Begun(e)' /\ Begun(f)' /\ e # f => e \cap f = {}
    BY <2>1, <2>2 DEF Calls, Begun
  <2> QED
    BY <2>1, <2>2, <2>3, <2>4 DEF Calls
<1>5. ASSUME NEW j \in jobs, ServiceReturns(j) PROVE Calls'
  <2> DEFINE c == j.records
  <2>1. c \in Batches /\ j = Job(c) /\ j.pc = "insert"
    BY <1>5 DEF ServiceReturns, InsertReturns, Base
  <2>2. /\ retryPc[c] = "end" /\ retryPc' = [retryPc EXCEPT ![c] = "done"]
        /\ UNCHANGED <<tries, failed>>
    BY <1>5 DEF ServiceReturns, Service!End
  <2>3. /\ \A k \in jobs : k # j => k \in jobs'
        /\ \A r \in Records : attempts'[r] = attempts[r] + IF r \in c THEN 1 ELSE 0
    BY <1>5 DEF ServiceReturns, InsertReturns, Advance
  <2> HIDE DEF c
  <2>4. /\ \A e \in Batches : e # c => retryPc'[e] = retryPc[e]
        /\ retryPc'[c] = "done"
        /\ retryPc' = [e \in Batches |-> retryPc'[e]]
    BY <2>1, <2>2 DEF Calls
  <2>5. \A r \in Records : attempts[r] \in Nat
    BY DEF Base
  <2>6. ASSUME NEW e \in Batches PROVE Call(e)'
    <3>1. CASE e = c
      <4>1. tries'[c] > 0
        BY <2>1, <2>2 DEF Calls, Call
      <4>2. \A r \in c : attempts'[r] # 0
        BY <2>1, <2>3, <2>5 DEF Batches
      <4> QED
        BY <2>4, <3>1, <4>1, <4>2 DEF Call
    <3>2. CASE e # c
      <4>1. Job(e) # j
        BY <2>1, <3>2 DEF Job
      <4>2. \A r \in e : attempts[r] # 0 => attempts'[r] # 0
        BY <2>3, <2>5 DEF Batches
      <4> QED
        BY <2>2, <2>3, <2>4, <3>2, <4>1, <4>2 DEF Calls, Call, Job
    <3> QED
      BY <3>1, <3>2
  <2>7. \A e, f \in Batches : Begun(e)' /\ Begun(f)' /\ e # f => e \cap f = {}
    BY <2>1, <2>2, <2>4 DEF Calls, Begun
  <2> QED
    BY <2>2, <2>4, <2>6, <2>7 DEF Calls
<1>6. \A j \in jobs : j.records \in Batches
  BY DEF Base
<1> QED
  BY <1>1, <1>2, <1>3, <1>4, <1>5, <1>6 DEF PipelineNext, ServiceStep

-----------------------------------------------------------------------------
(* What is stored. *)

Answered ==
  /\ stored \in [Records -> Nat] /\ lost \in [Records -> Nat]
  /\ StoredAsAnswered

LEMMA InitAnswered == PipelineInit => Answered
<1> SUFFICES ASSUME PipelineInit PROVE Answered
  OBVIOUS
<1>1. /\ tries = [c \in Batches |-> 0]
      /\ outcome = [r \in Records |-> "none"]
      /\ stored = [r \in Records |-> 0] /\ lost = [r \in Records |-> 0]
  BY DEF PipelineInit, Service!Init, Init
<1> QED
  BY <1>1 DEF Answered, StoredAsAnswered, Succeeded

(* Of the batches that hold a record only one has been tried.              *)
LEMMA OnlyTried ==
  ASSUME Calls, NEW c \in Batches, Begun(c), NEW r \in c,
         NEW d \in Batches, r \in d, tries[d] > 0
  PROVE  d = c
<1>1. Begun(d)
  BY DEF Calls, Call, Begun
<1> QED
  BY <1>1 DEF Calls

LEMMA NextAnswered ==
  Base /\ Calls /\ Answered /\ [PipelineNext]_pipelineVars => Answered'
<1> SUFFICES ASSUME Base, Calls, Answered, [PipelineNext]_pipelineVars PROVE Answered'
  OBVIOUS
<1>1. CASE UNCHANGED <<dbVars, tries, failed, outcome>>
  BY <1>1 DEF Answered, StoredAsAnswered, Succeeded, dbVars
<1>2. CASE InserterStep
  BY <1>1, <1>2, InserterKeeps DEF InserterStep, retryVars, dbVars
<1>3. ASSUME NEW j \in jobs, CallService(j) PROVE Answered'
  BY <1>1, <1>3 DEF CallService, Service!Begin, vars
<1>4. ASSUME NEW c \in Batches, Decide(c) PROVE Answered'
  BY <1>1, <1>4 DEF Decide, Service!GiveUp, Service!Retry, vars
<1>5. ASSUME NEW c \in Batches, NEW d \in Durations, NEW effect \in BOOLEAN, NEW error \in BOOLEAN,
             Execute(c, d, effect, error)
      PROVE  Answered'
  <2>1. /\ retryPc[c] = "attempt" /\ outcome' = outcome /\ (error \/ effect)
        /\ tries' = [tries EXCEPT ![c] = @ + 1]
        /\ failed' = [failed EXCEPT ![c] = error]
        /\ stored' = [r \in Records |-> stored[r] + IF effect /\ r \in c THEN 1 ELSE 0]
        /\ lost' = [r \in Records |-> lost[r] + IF effect /\ error /\ r \in c THEN 1 ELSE 0]
    BY <1>5 DEF Execute, Service!Attempt, vars
  <2>2. /\ tries[c] = 0 \/ failed[c]
        /\ Job(c) \in jobs /\ Begun(c) /\ c \subseteq Records
    BY <2>1 DEF Calls, Call, Begun, Batches
  <2>3. /\ \A e \in Batches : e # c => tries'[e] = tries[e] /\ failed'[e] = failed[e]
        /\ tries'[c] > 0 /\ failed'[c] = error
    BY <2>1 DEF Calls
  <2>4. ASSUME NEW r \in Records, r \notin c PROVE Succeeded(r)' = Succeeded(r)
    BY <2>3, <2>4 DEF Succeeded
  <2>5. ASSUME NEW r \in c PROVE outcome[r] = "none" /\ ~Succeeded(r) /\ (Succeeded(r)' <=> ~error)
    <3>1. outcome[r] = "none"
      BY <2>2 DEF Base, Job
    <3>2. \A e \in Batches : r \in e /\ tries[e] > 0 => e = c
      BY <2>2, OnlyTried
    <3>3. ~Succeeded(r)
      BY <2>2, <3>2 DEF Succeeded
    <3>4. Succeeded(r)' <=> ~error
      BY <2>3, <3>2 DEF Succeeded
    <3> QED
      BY <3>1, <3>3, <3>4
  <2>6. stored' \in [Records -> Nat] /\ lost' \in [Records -> Nat]
    BY <2>1 DEF Answered
  <2>7. ASSUME NEW r \in Records
        PROVE  /\ stored'[r] = lost'[r] + IF Succeeded(r)' THEN 1 ELSE 0
               /\ outcome'[r] = "stored" => Succeeded(r)'
               /\ outcome'[r] = "failed" => ~Succeeded(r)'
    <3>1. CASE r \in c
      BY <2>1, <2>5, <3>1 DEF Answered, StoredAsAnswered
    <3>2. CASE r \notin c
      BY <2>1, <2>4, <3>2 DEF Answered, StoredAsAnswered
    <3> QED
      BY <3>1, <3>2
  <2> QED
    BY <2>6, <2>7 DEF Answered, StoredAsAnswered
<1>6. ASSUME NEW j \in jobs, ServiceReturns(j) PROVE Answered'
  <2> DEFINE c == j.records
  <2>1. /\ c \in Batches /\ retryPc[c] = "end" /\ UNCHANGED <<dbVars, tries, failed>>
        /\ outcome' = [r \in Records |-> IF r \in c THEN IF failed[c] THEN "failed" ELSE "stored"
                                                    ELSE outcome[r]]
    BY <1>6 DEF ServiceReturns, InsertReturns, Service!End, Base
  <2> HIDE DEF c
  <2>2. tries[c] > 0 /\ Begun(c)
    BY <2>1 DEF Calls, Call, Begun
  <2>3. \A r \in Records : Succeeded(r)' = Succeeded(r)
    BY <2>1 DEF Succeeded
  <2>4. \A r \in c : Succeeded(r) <=> ~failed[c]
    BY <2>1, <2>2, OnlyTried DEF Succeeded
  <2> QED
    BY <2>1, <2>3, <2>4 DEF Answered, StoredAsAnswered, dbVars
<1>7. \A j \in jobs : j.records \in Batches
  BY DEF Base
<1> QED
  BY <1>1, <1>2, <1>3, <1>4, <1>5, <1>6, <1>7
     DEF PipelineNext, ServiceStep, pipelineVars, vars, retryVars

-----------------------------------------------------------------------------

(* The inductive invariant holds in every reachable state.                 *)
THEOREM PipelineInductive == PipelineSpec => [](Base /\ Calls /\ Answered)
<1>1. PipelineSpec => []Base
  BY ImplementsBatchInserter, Inductive, BaseHolds, PTL
<1>2. PipelineInit => Calls /\ Answered
  BY InitCalls, InitAnswered
<1>3. Base /\ Calls /\ Answered /\ [PipelineNext]_pipelineVars => Calls' /\ Answered'
  BY NextCalls, NextAnswered
<1> QED
  BY <1>1, <1>2, <1>3, PTL DEF PipelineSpec

(* Whatever the batches, the retries and the order of everything, a record *)
(* is stored once for its success and once for each lost answer, and the   *)
(* result that the inserter acts on is the one the database gave.          *)
THEOREM AnswersHold == PipelineSpec => []StoredAsAnswered
<1>1. Answered => StoredAsAnswered
  BY DEF Answered
<1> QED
  BY <1>1, PipelineInductive, PTL

-----------------------------------------------------------------------------
(* The service in the pipeline is the service by itself, called with the   *)
(* batches: the inserter never interferes with a call, nor repeats one.    *)
THEOREM ImplementsRetryInsert == PipelineSpec => Service!Spec
<1>1. PipelineInit => Service!Init
  BY DEF PipelineInit
<1>2. Base /\ [PipelineNext]_pipelineVars => [Service!Next]_(Service!vars)
  <2> SUFFICES ASSUME Base, [PipelineNext]_pipelineVars PROVE [Service!Next]_(Service!vars)
    OBVIOUS
  <2>1. CASE InserterStep \/ UNCHANGED pipelineVars
    BY <2>1 DEF InserterStep, pipelineVars, retryVars, Service!vars
  <2>2. ASSUME NEW j \in jobs, CallService(j) \/ ServiceReturns(j) PROVE Service!Next
    <3>1. j.records \in Batches
      BY DEF Base
    <3> QED
      BY <2>2, <3>1 DEF CallService, ServiceReturns, Service!Next, Service!InsertRecords
  <2>3. ASSUME NEW c \in Batches, NEW d \in Durations, NEW effect \in BOOLEAN,
               NEW error \in BOOLEAN, Execute(c, d, effect, error)
        PROVE  Service!Next
    BY <2>3 DEF Execute, Service!Next, Service!InsertRecords
  <2>4. ASSUME NEW c \in Batches, Decide(c) PROVE Service!Next
    BY <2>4 DEF Decide, Service!Next, Service!InsertRecords
  <2>5. \A j \in jobs : j.records \in Batches
    BY DEF Base
  <2> QED
    BY <2>1, <2>2, <2>3, <2>4, <2>5 DEF PipelineNext, ServiceStep
<1>3. PipelineSpec => []Base
  BY PipelineInductive, PTL
<1> QED
  BY <1>1, <1>2, <1>3, PTL DEF PipelineSpec, Service!Spec

-----------------------------------------------------------------------------
(* What Stop leaves behind. *)

Returned == {c \in Batches : retryPc[c] = "done"}

(* A record that has been attempted is in a batch that has come back.      *)
Settled ==
  /\ endCount = Cardinality(Returned)
  /\ \A r \in Records : attempts[r] # 0 => \E c \in Returned : r \in c

LEMMA ReturnedFinite == IsFiniteSet(Returned)
<1>1. IsFiniteSet(SUBSET Records)
  BY RecordsAssumption, FS_SUBSET
<1> QED
  BY <1>1, FS_Subset DEF Returned, Batches

LEMMA InitSettled == PipelineInit => Settled
<1> SUFFICES ASSUME PipelineInit PROVE Settled
  OBVIOUS
<1>1. /\ retryPc = [c \in Batches |-> "new"] /\ endCount = 0
      /\ attempts = [r \in Records |-> 0]
  BY DEF PipelineInit, Service!Init, Init
<1>2. Returned = {}
  BY <1>1 DEF Returned
<1> QED
  BY <1>1, <1>2, FS_EmptySet DEF Settled

LEMMA NextSettled ==
  Base /\ Calls /\ Settled /\ [PipelineNext]_pipelineVars => Settled'
<1> SUFFICES ASSUME Base, Calls, Settled, [PipelineNext]_pipelineVars PROVE Settled'
  OBVIOUS
<1>1. ASSUME UNCHANGED <<endCount, attempts>>, Returned' = Returned PROVE Settled'
  BY <1>1 DEF Settled
<1>2. CASE InserterStep \/ UNCHANGED pipelineVars
  BY <1>1, <1>2, InserterKeeps DEF InserterStep, pipelineVars, vars, retryVars, Returned
<1>3. ASSUME NEW j \in jobs, CallService(j) PROVE Settled'
  <2>1. /\ retryPc[j.records] = "new" /\ retryPc' = [retryPc EXCEPT ![j.records] = "attempt"]
        /\ UNCHANGED <<endCount, attempts>>
    BY <1>3 DEF CallService, Service!Begin, vars
  <2>2. Returned' = Returned
    BY <2>1 DEF Calls, Returned
  <2> QED
    BY <1>1, <2>1, <2>2
<1>4. ASSUME NEW c \in Batches, NEW d \in Durations, NEW effect \in BOOLEAN, NEW error \in BOOLEAN,
             Execute(c, d, effect, error)
      PROVE  Settled'
  <2>1. /\ retryPc[c] = "attempt" /\ UNCHANGED <<endCount, attempts>>
        /\ retryPc' = [retryPc EXCEPT ![c] = IF error THEN "backoff" ELSE "end"]
    BY <1>4 DEF Execute, Service!Attempt, vars
  <2>2. Returned' = Returned
    BY <2>1 DEF Calls, Returned
  <2> QED
    BY <1>1, <2>1, <2>2
<1>5. ASSUME NEW c \in Batches, Decide(c) PROVE Settled'
  <2>1. /\ retryPc[c] = "backoff" /\ UNCHANGED <<endCount, attempts>>
        /\ \E to \in {"attempt", "end"} : retryPc' = [retryPc EXCEPT ![c] = to]
    BY <1>5 DEF Decide, Service!GiveUp, Service!Retry, vars
  <2>2. Returned' = Returned
    BY <2>1 DEF Calls, Returned
  <2> QED
    BY <1>1, <2>1, <2>2
<1>6. ASSUME NEW j \in jobs, ServiceReturns(j) PROVE Settled'
  <2> DEFINE c == j.records
  <2>1. /\ c \in Batches /\ retryPc[c] = "end" /\ retryPc' = [retryPc EXCEPT ![c] = "done"]
        /\ endCount' = endCount + 1
        /\ attempts' = [r \in Records |-> attempts[r] + IF r \in c THEN 1 ELSE 0]
    BY <1>6 DEF ServiceReturns, InsertReturns, Service!End, Service!Ended, Base
  <2> HIDE DEF c
  <2>2. Returned' = Returned \cup {c} /\ c \notin Returned
    BY <2>1 DEF Calls, Returned
  <2>3. Cardinality(Returned') = Cardinality(Returned) + 1
    BY <2>2, ReturnedFinite, FS_AddElement
  <2>4. \A r \in Records : attempts'[r] # 0 => attempts[r] # 0 \/ r \in c
    BY <2>1 DEF Base
  <2> QED
    BY <2>1, <2>2, <2>3, <2>4 DEF Settled
<1>7. \A j \in jobs : j.records \in Batches
  BY DEF Base
<1> QED
  BY <1>2, <1>3, <1>4, <1>5, <1>6, <1>7 DEF PipelineNext, ServiceStep

(* With lost answers, retries and batches in any order, what Stop leaves   *)
(* behind is settled: no accepted record is neither stored nor counted.    *)
THEOREM StopSettlesAll == PipelineSpec => []SettledAtStop
<1>1. PipelineSpec => [](IInv /\ StoppedMeansDrained)
  BY ImplementsBatchInserter, Inductive, StopDrainsAll, PTL
<1>2. PipelineInit => Settled
  BY InitSettled
<1>3. Base /\ Calls /\ Settled /\ [PipelineNext]_pipelineVars => Settled'
  BY NextSettled
<1>4. IInv /\ StoppedMeansDrained /\ Calls /\ Answered /\ Settled => SettledAtStop
  <2> SUFFICES ASSUME IInv, StoppedMeansDrained, Calls, Answered, Settled, phase = "stopped"
               PROVE  SettledAtStop
    BY DEF SettledAtStop
  <2> DEFINE Called == {c \in Batches : tries[c] > 0}
  <2>1. /\ jobs = {} /\ dropped = Cardinality({r \in Accepted : outcome[r] = "failed"})
        /\ \A r \in Records : attempts[r] = IF r \in Accepted THEN 1 ELSE 0
    BY DEF StoppedMeansDrained
  <2>2. Called = Returned
    BY <2>1 DEF Calls, Call, Returned
  <2>3. UNION Called = Accepted
    <3>1. ASSUME NEW c \in Returned, NEW r \in c PROVE r \in Accepted
      <4>1. c \in Batches /\ retryPc[c] = "done" /\ Call(c)
        BY DEF Returned, Calls
      <4>2. r \in Records /\ attempts[r] # 0
        BY <4>1 DEF Call, Batches
      <4> QED
        BY <2>1, <4>2
    <3>2. ASSUME NEW r \in Accepted PROVE \E c \in Returned : r \in c
      BY <2>1 DEF Settled, Accepted
    <3> QED
      BY <2>2, <3>1, <3>2
  <2>4. ASSUME NEW r \in Accepted
        PROVE  /\ outcome[r] = "failed" <=> stored[r] = lost[r]
               /\ stored[r] > 0 \/ outcome[r] = "failed"
    <3>1. r \in Records /\ outcome[r] \in {"stored", "failed"}
      BY <2>1 DEF IInv, TypeOK, Outcomes, Accepted
    <3>2. stored[r] \in Nat /\ lost[r] \in Nat
      BY <3>1 DEF Answered
    <3> QED
      BY <3>1, <3>2 DEF Answered, StoredAsAnswered
  <2>5. {r \in Accepted : outcome[r] = "failed"} = {r \in Accepted : stored[r] = lost[r]}
    BY <2>4
  <2>6. endCount = Cardinality(Called)
    BY <2>2 DEF Settled
  <2> QED
    BY <2>1, <2>3, <2>4, <2>5, <2>6 DEF SettledAtStop
<1> QED
  BY <1>1, <1>2, <1>3, <1>4, PipelineInductive, PTL DEF PipelineSpec
=============================================================================
