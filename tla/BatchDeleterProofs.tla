------------------------- MODULE BatchDeleterProofs -------------------------
(***************************************************************************)
(* Proofs about BatchDeleter, for any finite set of records, any           *)
(* configuration and every kind of set.                                    *)
(***************************************************************************)
EXTENDS BatchDeleter, FiniteSetTheorems, TLAPS

USE DEF GoesOn, AfterAdd, WorkerFree, Release, None

(* The parts of TypeOK that do not depend on the values of Config. *)
Typed ==
  /\ table \in [Records -> {"live", "expired", "gone"}]
  /\ gpc \in {"unborn", "select", "adding", "count", "done"}
  /\ vals \subseteq Records
  /\ set \subseteq Records
  /\ popper \in {"absent", "popping", "sending"}
  /\ held \in [popper : SUBSET Records, delete : SUBSET Records]
  /\ dpc \in {"unborn", "loop", "select", "count", "acquire", "grabbing", "done"}
  /\ inFlight \in [Records -> Nat]
  /\ permits \in Nat
  /\ taken \in Nat
  /\ phase \in {"created", "running", "stopping", "stopped"}
  /\ gauge \in Int

(* The popper holds a record only while it waits to send it, and is absent *)
(* whenever delete is not at its select; before Start nothing runs.        *)
Popper ==
  /\ popper # "sending" => held.popper = {}
  /\ held.popper = {} \/ \E r \in Records : held.popper = {r}
  /\ dpc \in {"unborn", "loop", "count", "acquire"} => popper = "absent"

Unborn == phase = "created" => gpc = "unborn" /\ dpc = "unborn"

(* The validation makes every limit a natural number, and the workers at   *)
(* least one.                                                              *)
LEMMA ValidConfig ==
  ASSUME NEW raw \in RawConfigs
  PROVE  /\ NewBatchDeleter(raw).MaxWorkers \in Nat \ {0}
         /\ NewBatchDeleter(raw).SetSize \in Nat
<1>1. raw.MaxWorkers \in Int /\ raw.SetSize \in Int
  BY ConfigAssumption
<1> QED
  BY <1>1, ConfigAssumption DEF NewBatchDeleter


LEMMA Sizes ==
  ASSUME NEW S \in SUBSET Records
  PROVE  /\ IsFiniteSet(S) /\ Cardinality(S) \in Nat
         /\ \A r \in Records \ S : Cardinality(S \cup {r}) = Cardinality(S) + 1
         /\ \A r \in S : Cardinality(S \ {r}) = Cardinality(S) - 1
<1>1. IsFiniteSet(S)
  BY RecordsAssumption, FS_Subset
<1> QED
  BY <1>1, FS_CardinalityType, FS_AddElement, FS_RemoveElement

LEMMA SmallSizes == Cardinality({}) = 0 /\ \A r \in Records : Cardinality({r}) = 1
  BY FS_EmptySet, FS_Singleton

-----------------------------------------------------------------------------
(* Types. *)

LEMMA TypedInit == Init => Typed
<1> SUFFICES ASSUME Init PROVE Typed
  OBVIOUS
<1>1. config \in {NewBatchDeleter(raw) : raw \in RawConfigs}
  BY Zenon DEF Init
<1>2. config.MaxWorkers \in Nat
  BY <1>1, ValidConfig
<1> QED
  BY <1>2 DEF Init, Typed

LEMMA TypedNext == Typed /\ [Next]_vars => Typed'
<1> SUFFICES ASSUME Typed, [Next]_vars PROVE Typed'
  OBVIOUS
<1> USE DEF Typed
<1>1. ASSUME NEW r \in Records, Expire(r) PROVE Typed'
  BY <1>1 DEF Expire, getVars, popVars, workVars
<1>2. CASE Start
  BY <1>2 DEF Start, getVars, popVars, workVars
<1>3. ASSUME NEW s \in Selections, GetRecords(s) PROVE Typed'
  BY <1>3 DEF GetRecords, Selections, Expired, popVars, workVars
<1>4. CASE GetFails
  BY <1>4 DEF GetFails, popVars, workVars
<1>5. ASSUME NEW r \in Records, AddNew(r) PROVE Typed'
  BY <1>5 DEF AddNew, popVars, workVars
<1>6. ASSUME NEW r \in Records, AddRefused(r) PROVE Typed'
  BY <1>6 DEF AddRefused, popVars, workVars
<1>7. CASE CountAdded \/ AllAdded \/ GetterStops
  BY <1>7 DEF CountAdded, AllAdded, GetterStops, popVars, workVars
<1>8. ASSUME NEW r \in Records, PopItem(r) PROVE Typed'
  BY <1>8 DEF PopItem, getVars, workVars
<1>9. CASE PopNil \/ EnterSelect
  BY <1>9 DEF PopNil, EnterSelect, getVars, workVars
<1>10. CASE DeleteReceives
  BY <1>10 DEF DeleteReceives, getVars, workVars
<1>11. CASE CountPopped \/ DeleteStops
  BY <1>11 DEF CountPopped, DeleteStops, getVars, popVars, workVars
<1>12. ASSUME NEW r \in Records, LaunchWorker(r) PROVE Typed'
  BY <1>12 DEF LaunchWorker, getVars
<1>13. CASE GrabWorker
  BY <1>13 DEF GrabWorker, getVars, popVars
<1>14. ASSUME NEW r \in Records, DeleteSucceeds(r) \/ DeleteFails(r) PROVE Typed'
  BY <1>14 DEF DeleteSucceeds, DeleteFails, WorkerEnds, getVars, popVars
<1>15. CASE StopCall \/ StopEnds
  BY <1>15 DEF StopCall, StopEnds, getVars, popVars, workVars
<1>16. CASE UNCHANGED vars
  BY <1>16 DEF vars, getVars, popVars, workVars
<1> QED
  BY <1>1, <1>2, <1>3, <1>4, <1>5, <1>6, <1>7, <1>8, <1>9, <1>10, <1>11, <1>12, <1>13, <1>14,
     <1>15, <1>16
  DEF Next, GetRecordsToDelete, SendToChannel, Delete, DeleteWorker, Terminated

(* The set never outgrows SetSize, and the configuration is a valid one.   *)
LEMMA TypeOKNext == Typed /\ TypeOK /\ [Next]_vars => TypeOK'
<1> SUFFICES ASSUME Typed, TypeOK, [Next]_vars PROVE TypeOK'
  OBVIOUS
<1>1. Typed'
  BY TypedNext
<1>2. config' = config /\ kind' = kind
  BY DEF Next, Expire, Start, GetRecordsToDelete, GetRecords, GetFails, AddNew, AddRefused,
         CountAdded, AllAdded, GetterStops, SendToChannel, PopItem, PopNil, Delete, EnterSelect,
         DeleteReceives, CountPopped, LaunchWorker, DeleteStops, GrabWorker, DeleteWorker,
         DeleteSucceeds, DeleteFails, WorkerEnds, StopCall, StopEnds, Terminated, vars
<1>3. config \in {NewBatchDeleter(raw) : raw \in RawConfigs} /\ kind \in SetKinds
  BY Zenon DEF TypeOK
<1>4. config.SetSize \in Nat
  BY <1>3, ValidConfig
<1>5. Cardinality(set) <= config.SetSize /\ set \subseteq Records
  BY DEF TypeOK
<1>6. Cardinality(set') <= config.SetSize
  <2>1. CASE \E r \in Records : AddNew(r)
    <3>1. PICK r \in Records : AddNew(r)
      BY <2>1
    <3>2. set' = set \cup {r} /\ r \notin set /\ Cardinality(set) < config.SetSize
      BY <3>1 DEF AddNew
    <3> QED
      BY <1>4, <1>5, <3>2, Sizes
  <2>2. CASE \E r \in Records : PopItem(r)
    <3>1. PICK r \in Records : PopItem(r)
      BY <2>2
    <3>2. set' = set \ {r} /\ r \in set
      BY <3>1 DEF PopItem
    <3> QED
      BY <1>4, <1>5, <3>2, Sizes
  <2>3. CASE set' = set
    BY <1>5, <2>3
  <2> QED
    BY <2>1, <2>2, <2>3
    DEF Next, Expire, Start, GetRecordsToDelete, GetRecords, GetFails, AddRefused,
        CountAdded, AllAdded, GetterStops, SendToChannel, PopNil, Delete, EnterSelect,
        DeleteReceives, CountPopped, LaunchWorker, DeleteStops, GrabWorker, DeleteWorker,
        DeleteSucceeds, DeleteFails, WorkerEnds, StopCall, StopEnds, Terminated, vars
<1> HIDE DEF Typed
<1>7. config' \in {NewBatchDeleter(raw) : raw \in RawConfigs} /\ kind' \in SetKinds
  BY <1>2, <1>3
<1> QED
  BY <1>1, <1>2, <1>6, <1>7 DEF Typed, TypeOK

-----------------------------------------------------------------------------
(* The popper and the gauge. *)

LEMMA PopperNext == Typed /\ Popper /\ Unborn /\ [Next]_vars => Popper'
<1> SUFFICES ASSUME Typed, Popper, Unborn, [Next]_vars PROVE Popper'
  OBVIOUS
<1>1. CASE UNCHANGED <<popper, held, dpc>>
  BY <1>1 DEF Popper
<1>2. CASE Start \/ EnterSelect \/ CountPopped
  BY <1>2 DEF Start, EnterSelect, CountPopped, popVars, Popper, Unborn
<1>3. ASSUME NEW r \in Records, PopItem(r) PROVE Popper'
  BY <1>3 DEF PopItem, Popper
<1>4. CASE PopNil \/ DeleteReceives
  BY <1>4 DEF PopNil, DeleteReceives, Popper
<1>5. ASSUME NEW r \in Records, LaunchWorker(r) PROVE Popper'
  BY <1>5 DEF LaunchWorker, Popper
<1>6. CASE DeleteStops \/ GrabWorker
  BY <1>6 DEF DeleteStops, GrabWorker, popVars, Popper
<1> QED
  BY <1>1, <1>2, <1>3, <1>4, <1>5, <1>6
  DEF Next, Expire, GetRecordsToDelete, GetRecords, GetFails, AddNew, AddRefused,
      CountAdded, AllAdded, GetterStops, SendToChannel, Delete, DeleteWorker,
      DeleteSucceeds, DeleteFails, WorkerEnds, StopCall, StopEnds, Terminated, vars, popVars

LEMMA UnbornNext == Unborn /\ [Next]_vars => Unborn'
  BY DEF Unborn, Next, Expire, Start, GetRecordsToDelete, GetRecords, GetFails, AddNew, AddRefused,
         CountAdded, AllAdded, GetterStops, SendToChannel, PopItem, PopNil, Delete, EnterSelect,
         DeleteReceives, CountPopped, LaunchWorker, DeleteStops, GrabWorker, DeleteWorker,
         DeleteSucceeds, DeleteFails, WorkerEnds, StopCall, StopEnds, Terminated, vars, getVars

(* A record leaves the set with the popper, whose hand counts as the set   *)
(* until delete has it; both updates of the gauge follow the change they   *)
(* are for, which CountAdded and CountPopped make up for.                  *)
LEMMA GaugeNext == Typed /\ Popper /\ Unborn /\ GaugeAccounted /\ [Next]_vars => GaugeAccounted'
<1> SUFFICES ASSUME Typed, Popper, Unborn, GaugeAccounted, [Next]_vars PROVE GaugeAccounted'
  OBVIOUS
<1> USE SmallSizes
<1>0. /\ Cardinality(set) \in Nat /\ Cardinality(held.popper) \in Nat /\ gauge \in Int
  BY Sizes DEF Typed
<1>1. CASE UNCHANGED <<set, gauge>> /\ held'.popper = held.popper
           /\ (dpc' = "count") = (dpc = "count") /\ (gpc' = "count") = (gpc = "count")
  BY <1>1, Zenon DEF GaugeAccounted
<1>2. ASSUME NEW r \in Records, AddNew(r) PROVE GaugeAccounted'
  <2>1. Cardinality(set') = Cardinality(set) + 1
    BY <1>2, Sizes DEF AddNew, Typed
  <2> QED
    BY <1>0, <1>2, <2>1 DEF AddNew, popVars, GaugeAccounted
<1>3. CASE CountAdded
  BY <1>0, <1>3 DEF CountAdded, popVars, GaugeAccounted
<1>4. ASSUME NEW r \in Records, PopItem(r) PROVE GaugeAccounted'
  <2>1. Cardinality(set') = Cardinality(set) - 1
    BY <1>4, Sizes DEF PopItem, Typed
  <2>2. Cardinality(held.popper) = 0 /\ Cardinality(held'.popper) = 1
    BY <1>4 DEF PopItem, Popper
  <2> QED
    BY <1>0, <1>4, <2>1, <2>2 DEF PopItem, getVars, GaugeAccounted
<1>5. CASE DeleteReceives
  <2>1. Cardinality(held'.popper) = 0
    BY <1>5 DEF DeleteReceives
  <2>2. Cardinality(held.popper) = IF held.popper = {} THEN 0 ELSE 1
    BY DEF Popper
  <2>3. dpc = "select" /\ dpc' = (IF held.popper = {} THEN "loop" ELSE "count")
        /\ gauge' = gauge /\ set' = set /\ gpc' = gpc
    BY <1>5 DEF DeleteReceives, getVars
  <2> QED
    BY <1>0, <2>1, <2>2, <2>3 DEF GaugeAccounted
<1>6. CASE CountPopped
  BY <1>0, <1>6 DEF CountPopped, getVars, popVars, GaugeAccounted
<1>7. ASSUME NEW r \in Records, Expire(r) \/ AddRefused(r) \/ LaunchWorker(r)
                                \/ DeleteSucceeds(r) \/ DeleteFails(r)
      PROVE  GaugeAccounted'
  BY <1>1, <1>7 DEF Expire, AddRefused, LaunchWorker, DeleteSucceeds, DeleteFails, WorkerEnds,
                    getVars, popVars
<1>8. CASE \E s \in Selections : GetRecords(s)
  BY <1>1, <1>8 DEF GetRecords, getVars, popVars
<1>9. CASE GetFails \/ AllAdded \/ GetterStops
  BY <1>1, <1>9 DEF GetFails, AllAdded, GetterStops, popVars
<1>10. CASE EnterSelect \/ PopNil \/ DeleteStops \/ GrabWorker
  BY <1>1, <1>10 DEF EnterSelect, PopNil, DeleteStops, GrabWorker, popVars, getVars
<1>11. CASE StopCall \/ StopEnds \/ UNCHANGED vars
  BY <1>1, <1>11 DEF StopCall, StopEnds, vars, popVars, getVars
<1>12. CASE Start
  <2>1. gpc # "count" /\ dpc # "count"
    BY <1>12 DEF Start, Unborn
  <2> QED
    BY <1>1, <1>12, <2>1 DEF Start, popVars
<1> QED
  BY <1>2, <1>3, <1>4, <1>5, <1>6, <1>7, <1>8, <1>9, <1>10, <1>11, <1>12
  DEF Next, GetRecordsToDelete, SendToChannel, Delete, DeleteWorker, Terminated

-----------------------------------------------------------------------------
(* Only expired records are held for deletion. *)

LEMMA ExpiredNext == Typed /\ OnlyExpiredClaimed /\ [Next]_vars => OnlyExpiredClaimed'
<1> SUFFICES ASSUME Typed, OnlyExpiredClaimed, [Next]_vars PROVE OnlyExpiredClaimed'
  OBVIOUS
<1> USE DEF Typed, OnlyExpiredClaimed
<1>1. ASSUME NEW r \in Records, Expire(r) PROVE OnlyExpiredClaimed'
  BY <1>1 DEF Expire, getVars, popVars, workVars
<1>2. CASE Start \/ StopCall \/ StopEnds \/ UNCHANGED vars
  BY <1>2 DEF Start, StopCall, StopEnds, vars, getVars, popVars, workVars
<1>3. ASSUME NEW s \in Selections, GetRecords(s) PROVE OnlyExpiredClaimed'
  BY <1>3 DEF GetRecords, Selections, Expired, popVars, workVars
<1>4. CASE GetFails \/ CountAdded \/ AllAdded \/ GetterStops
  BY <1>4 DEF GetFails, CountAdded, AllAdded, GetterStops, popVars, workVars
<1>5. ASSUME NEW r \in Records, AddNew(r) \/ AddRefused(r) PROVE OnlyExpiredClaimed'
  BY <1>5 DEF AddNew, AddRefused, popVars, workVars
<1>6. ASSUME NEW r \in Records, PopItem(r) PROVE OnlyExpiredClaimed'
  BY <1>6 DEF PopItem, getVars, workVars
<1>7. CASE PopNil \/ EnterSelect \/ CountPopped \/ DeleteStops
  BY <1>7 DEF PopNil, EnterSelect, CountPopped, DeleteStops, getVars, popVars, workVars
<1>8. CASE DeleteReceives
  BY <1>8 DEF DeleteReceives, getVars, workVars
<1>9. ASSUME NEW r \in Records, LaunchWorker(r) PROVE OnlyExpiredClaimed'
  BY <1>9 DEF LaunchWorker, getVars
<1>10. CASE GrabWorker
  BY <1>10 DEF GrabWorker, getVars, popVars
<1>11. ASSUME NEW r \in Records, DeleteSucceeds(r) \/ DeleteFails(r) PROVE OnlyExpiredClaimed'
  BY <1>11 DEF DeleteSucceeds, DeleteFails, WorkerEnds, getVars, popVars
<1> QED
  BY <1>1, <1>2, <1>3, <1>4, <1>5, <1>6, <1>7, <1>8, <1>9, <1>10, <1>11
  DEF Next, GetRecordsToDelete, SendToChannel, Delete, DeleteWorker, Terminated

-----------------------------------------------------------------------------
(* The permits.  Without the goroutines by number the account would not be *)
(* inductive: that a worker ends takes exactly one of them away.           *)

LEMMA WorkersChange ==
  ASSUME Typed, NEW r \in Records, IsFiniteSet(Workers)
  PROVE  /\ inFlight' = [inFlight EXCEPT ![r] = @ + 1] =>
              IsFiniteSet(Workers') /\ Cardinality(Workers') = Cardinality(Workers) + 1
         /\ inFlight[r] > 0 /\ inFlight' = [inFlight EXCEPT ![r] = @ - 1] =>
              IsFiniteSet(Workers') /\ Cardinality(Workers') = Cardinality(Workers) - 1
<1>1. inFlight \in [Records -> Nat]
  BY DEF Typed
<1>2. \A w : w \in Workers <=> \E x \in Records : \E i \in 1 .. inFlight[x] : w = <<x, i>>
  BY DEF Workers
<1>3. \A w : w \in Workers' <=> \E x \in Records : \E i \in 1 .. inFlight'[x] : w = <<x, i>>
  BY DEF Workers
<1>4. ASSUME inFlight' = [inFlight EXCEPT ![r] = @ + 1]
      PROVE  IsFiniteSet(Workers') /\ Cardinality(Workers') = Cardinality(Workers) + 1
  <2> DEFINE w == <<r, inFlight[r] + 1>>
  <2>1. w \notin Workers
    BY <1>1, <1>2
  <2>2. Workers' = Workers \cup {w}
    BY <1>1, <1>2, <1>3, <1>4
  <2> QED
    BY <2>1, <2>2, FS_AddElement
<1>5. ASSUME inFlight[r] > 0, inFlight' = [inFlight EXCEPT ![r] = @ - 1]
      PROVE  IsFiniteSet(Workers') /\ Cardinality(Workers') = Cardinality(Workers) - 1
  <2> DEFINE w == <<r, inFlight[r]>>
  <2>1. w \in Workers
    BY <1>1, <1>2, <1>5
  <2>2. Workers' = Workers \ {w}
    BY <1>1, <1>2, <1>3, <1>5
  <2> QED
    BY <2>1, <2>2, FS_RemoveElement
<1> QED
  BY <1>4, <1>5

(* delete takes permits only after its loop, and leaves with all of them.  *)
Permits ==
  /\ IsFiniteSet(Workers)
  /\ PermitsAccounted
  /\ config.MaxWorkers \in Nat \ {0}
  /\ dpc \notin {"grabbing", "done"} => taken = 0
  /\ dpc = "grabbing" => taken < config.MaxWorkers
  /\ dpc = "done" => taken = config.MaxWorkers
  /\ phase = "stopped" => dpc = "done"

LEMMA PermitsNext == Typed /\ Unborn /\ Permits /\ [Next]_vars => Permits'
<1> SUFFICES ASSUME Typed, Unborn, Permits, [Next]_vars PROVE Permits'
  OBVIOUS
<1>0. Cardinality(Workers) \in Nat /\ permits \in Nat /\ taken \in Nat
  BY FS_CardinalityType DEF Typed, Permits
<1>1. inFlight' = inFlight => Workers' = Workers
  BY DEF Workers
<1>2. CASE UNCHANGED <<config, workVars, dpc, phase>>
  BY <1>1, <1>2 DEF workVars, Permits, PermitsAccounted
<1>3. CASE Start \/ StopCall \/ StopEnds
  BY <1>1, <1>3 DEF Start, StopCall, StopEnds, workVars, Unborn, Permits, PermitsAccounted
<1>4. CASE EnterSelect \/ DeleteReceives \/ CountPopped \/ DeleteStops
  BY <1>1, <1>4 DEF EnterSelect, DeleteReceives, CountPopped, DeleteStops, workVars,
                    Permits, PermitsAccounted
<1>5. ASSUME NEW r \in Records, LaunchWorker(r) PROVE Permits'
  <2>1. IsFiniteSet(Workers') /\ Cardinality(Workers') = Cardinality(Workers) + 1
    BY <1>5, WorkersChange DEF LaunchWorker, Permits
  <2> QED
    BY <1>0, <1>5, <2>1 DEF LaunchWorker, Permits, PermitsAccounted
<1>6. ASSUME NEW r \in Records, WorkerEnds(r), dpc' = dpc PROVE Permits'
  <2>1. IsFiniteSet(Workers') /\ Cardinality(Workers') = Cardinality(Workers) - 1
    BY <1>6, WorkersChange DEF WorkerEnds, Permits
  <2> QED
    BY <1>0, <1>6, <2>1 DEF WorkerEnds, Permits, PermitsAccounted
<1>7. CASE GrabWorker
  BY <1>0, <1>1, <1>7 DEF GrabWorker, Permits, PermitsAccounted
<1>8. ASSUME NEW r \in Records, Expire(r) \/ AddNew(r) \/ AddRefused(r) \/ PopItem(r) PROVE Permits'
  BY <1>2, <1>8 DEF Expire, AddNew, AddRefused, PopItem, workVars
<1>9. CASE \E s \in Selections : GetRecords(s)
  BY <1>2, <1>9 DEF GetRecords
<1>10. CASE GetFails \/ CountAdded \/ AllAdded \/ GetterStops \/ PopNil \/ UNCHANGED vars
  BY <1>2, <1>10 DEF GetFails, CountAdded, AllAdded, GetterStops, PopNil, vars, workVars
<1> QED
  BY <1>3, <1>4, <1>5, <1>6, <1>7, <1>8, <1>9, <1>10
  DEF Next, GetRecordsToDelete, SendToChannel, Delete, DeleteWorker, DeleteSucceeds, DeleteFails,
      WorkerEnds, Terminated

-----------------------------------------------------------------------------

IInv ==
  TypeOK /\ Typed /\ Popper /\ Unborn /\ GaugeAccounted /\ OnlyExpiredClaimed /\ Permits

(* The inductive invariant holds in every reachable state.                 *)
THEOREM Inductive == Spec => []IInv
<1>1. Init => IInv
  <2> SUFFICES ASSUME Init PROVE IInv
    OBVIOUS
  <2>1. Typed
    BY TypedInit
  <2>2. config \in {NewBatchDeleter(raw) : raw \in RawConfigs} /\ kind \in SetKinds
    BY Zenon DEF Init
  <2>3. config.SetSize \in Nat
    BY <2>2, ValidConfig
  <2>4. set = {} /\ Cardinality(set) = 0
    BY SmallSizes DEF Init
  <2>5. TypeOK
    BY <2>1, <2>2, <2>3, <2>4 DEF Typed, TypeOK
  <2>6. Popper /\ Unborn /\ GaugeAccounted
    BY <2>4 DEF Init, Popper, Unborn, GaugeAccounted
  <2>7. OnlyExpiredClaimed
    BY DEF Init, OnlyExpiredClaimed
  <2>8. Workers = {}
    BY DEF Init, Workers
  <2>9. config.MaxWorkers \in Nat \ {0}
    BY <2>2, ValidConfig
  <2>10. Permits
    <3>1. permits = config.MaxWorkers /\ taken = 0 /\ dpc = "unborn" /\ phase = "created"
      BY DEF Init
    <3> QED
      BY <2>8, <2>9, <3>1, FS_EmptySet DEF Permits, PermitsAccounted
  <2> QED
    BY <2>1, <2>5, <2>6, <2>7, <2>10 DEF IInv
<1>2. IInv /\ [Next]_vars => IInv'
  BY TypedNext, TypeOKNext, PopperNext, UnbornNext, GaugeNext, ExpiredNext, PermitsNext DEF IInv
<1> QED
  BY <1>1, <1>2, PTL DEF Spec

(* For every configuration, the set stays within its size and no permit    *)
(* is given out that is not there.                                         *)
THEOREM TypeCorrect == Spec => []TypeOK
<1>1. IInv => TypeOK
  BY DEF IInv
<1> QED
  BY <1>1, Inductive, PTL

(* The depth metric of the delete queue can be accounted for at any time.  *)
THEOREM GaugeFollowsSet == Spec => []GaugeAccounted
<1>1. IInv => GaugeAccounted
  BY DEF IInv
<1> QED
  BY <1>1, Inductive, PTL

(* No record that has not expired is on its way to be deleted, and so none *)
(* is deleted.                                                             *)
THEOREM LiveRecordsStay == Spec => []OnlyExpiredClaimed
<1>1. IInv => OnlyExpiredClaimed
  BY DEF IInv
<1> QED
  BY <1>1, Inductive, PTL

(* For every number of records, configuration and kind of set, no permit   *)
(* is lost or given twice, whether deletions succeed or fail.              *)
THEOREM PermitsKept == Spec => []PermitsAccounted
<1>1. IInv => PermitsAccounted
  BY DEF IInv, Permits
<1> QED
  BY <1>1, Inductive, PTL

(* When Stop returns no deletion is running, nor can one be started.       *)
NoWorkerAfterStop ==
  phase = "stopped" => permits = 0 /\ \A r \in Records : inFlight[r] = 0

(* Stop waits for every deleteWorker, however many are on the same record. *)
THEOREM StopWaitsForWorkers == Spec => []NoWorkerAfterStop
<1>1. IInv => NoWorkerAfterStop
  <2> SUFFICES ASSUME IInv, phase = "stopped"
               PROVE  permits = 0 /\ \A r \in Records : inFlight[r] = 0
    BY DEF NoWorkerAfterStop
  <2>1. /\ taken = config.MaxWorkers /\ config.MaxWorkers \in Nat /\ IsFiniteSet(Workers)
        /\ permits + taken + Cardinality(Workers) = config.MaxWorkers
    BY DEF IInv, Permits, PermitsAccounted
  <2>2. permits \in Nat /\ inFlight \in [Records -> Nat]
    BY DEF IInv, Typed
  <2>3. permits = 0 /\ Cardinality(Workers) = 0
    BY <2>1, <2>2, FS_CardinalityType
  <2>4. Workers = {}
    BY <2>1, <2>3, FS_EmptySet
  <2>5. ASSUME NEW r \in Records, inFlight[r] > 0 PROVE FALSE
    <3>1. 1 \in 1 .. inFlight[r]
      BY <2>2, <2>5
    <3>2. <<r, 1>> \in Workers
      BY <3>1 DEF Workers
    <3> QED
      BY <2>4, <3>2
  <2> QED
    BY <2>2, <2>3, <2>5
<1> QED
  BY <1>1, Inductive, PTL
=============================================================================
