---------------------------- MODULE BatchDeleter ----------------------------
(***************************************************************************)
(* batchDeleter/batchDeleter.go: one goroutine reads expired records from  *)
(* the database at every tick and adds them to a set of bounded size; a    *)
(* second one pops them and starts a goroutine per record that deletes it, *)
(* at most MaxWorkers at a time.  Stop closes a channel that both select   *)
(* on and waits for both.                                                  *)
(*                                                                         *)
(* The set is an external library: SetKinds says what Add may do on a full *)
(* set and Pop on an empty one.  SendToChannel runs Pop in a goroutine of  *)
(* its own, the popper, which nothing stops.  The database is `table`,     *)
(* whose records expire as time passes.  Start and Stop are called once,   *)
(* in this order.                                                          *)
(***************************************************************************)
EXTENDS Integers, FiniteSets

CONSTANTS
  Records,            \* the records (death date and id) of the shard
  RawConfigs,         \* the Config values passed to NewBatchDeleter
  DefaultMaxWorkers,  \* defaultMaxWorkers (5 in the code)
  MinSetSize,         \* minSetSize (5 in the code)
  DefaultSetSize,     \* defaultSetSize (1000 in the code)
  DefaultGetLimit,    \* defaultGetLimit (10 in the code)
  SetKinds            \* the kinds of set: AddBlocks if Add waits for room in a full
                      \* set, else it returns false; PopBlocks if Pop waits for an
                      \* item in an empty set, else it returns nil

ASSUME RecordsAssumption == IsFiniteSet(Records)

ASSUME ConfigAssumption ==
  /\ RawConfigs \subseteq [MaxWorkers : Int, SetSize : Int, GetLimit : Int]
  /\ DefaultMaxWorkers \in Nat \ {0}
  /\ MinSetSize \in Nat \ {0}
  /\ DefaultSetSize \in Nat /\ DefaultSetSize >= MinSetSize
  /\ DefaultGetLimit \in Nat
  /\ SetKinds \subseteq [AddBlocks : BOOLEAN, PopBlocks : BOOLEAN]

VARIABLES
  config,    \* d.config after validation
  kind,      \* which kind of set d.deleteSet is
  table,     \* the state of each record in the database
  gpc,       \* where getRecordsToDelete stands
  vals,      \* the records it has read and not yet passed to Add
  set,       \* d.deleteSet
  popper,    \* the popper goroutine: absent, in Pop, or about to send
  held,      \* the record the popper is about to send, or delete is handling
  dpc,       \* where delete stands
  inFlight,  \* how many deleteWorker goroutines run for each record
  permits,   \* permits left in d.deleteWorkers
  taken,     \* permits delete has taken after its loop
  phase,     \* life cycle of the deleter; the channel is closed from "stopping" on
  gauge      \* measures.DeletingQueue

getVars  == <<gpc, vals>>
popVars  == <<popper, held>>
workVars == <<inFlight, permits, taken>>
vars == <<config, kind, table, gpc, vals, set, popper, held, dpc, inFlight, permits, taken,
          phase, gauge>>

None == [popper |-> {}, delete |-> {}]

-----------------------------------------------------------------------------
(* The validation in NewBatchDeleter. *)
NewBatchDeleter(raw) ==
  [MaxWorkers |-> IF raw.MaxWorkers < 1 THEN DefaultMaxWorkers ELSE raw.MaxWorkers,
   SetSize    |-> IF raw.SetSize < MinSetSize THEN DefaultSetSize ELSE raw.SetSize,
   GetLimit   |-> IF raw.GetLimit < 0 THEN DefaultGetLimit ELSE raw.GetLimit]

Init ==
  /\ config \in {NewBatchDeleter(raw) : raw \in RawConfigs}
  /\ kind \in SetKinds
  /\ table = [r \in Records |-> "live"]
  /\ gpc = "unborn"
  /\ vals = {}
  /\ set = {}
  /\ popper = "absent"
  /\ held = None
  /\ dpc = "unborn"
  /\ inFlight = [r \in Records |-> 0]
  /\ permits = config.MaxWorkers
  /\ taken = 0
  /\ phase = "created"
  /\ gauge = 0

(* Time passes the death date of a record. *)
Expire(r) ==
  /\ table[r] = "live"
  /\ table' = [table EXCEPT ![r] = "expired"]
  /\ UNCHANGED <<config, kind, set, dpc, phase, gauge, getVars, popVars, workVars>>

Start ==
  /\ phase = "created"
  /\ phase' = "running"
  /\ gpc' = "select"
  /\ dpc' = "loop"
  /\ UNCHANGED <<config, kind, table, vals, set, gauge, popVars, workVars>>

StopClosed == phase \in {"stopping", "stopped"}

-----------------------------------------------------------------------------
(* getRecordsToDelete. *)

(* Mutant: the query does not compare the death date. *)
ExpiredOrNot == {r \in Records : table[r] # "gone"}

Expired == {r \in Records : table[r] = "expired"}

(* SELECT ... WHERE shard = ? AND death_date < ? LIMIT ?: any GetLimit of  *)
(* the expired records, all of them if they are fewer.                     *)
Selections ==
  {s \in SUBSET Expired :
     Cardinality(s) = IF Cardinality(Expired) < config.GetLimit THEN Cardinality(Expired)
                                                                ELSE config.GetLimit}

(* A tick and the query it triggers.  select may prefer the tick to a      *)
(* closed stop channel.                                                    *)
GetRecords(s) ==
  /\ gpc = "select"
  /\ s \in Selections
  /\ vals' = s
  /\ gpc' = "adding"
  /\ UNCHANGED <<config, kind, table, set, dpc, phase, gauge, popVars, workVars>>

(* Mutant: the goroutine returns when a query fails. *)
GivesUp == "done"

GoesOn == "adding"

(* The query fails: it is logged and its result, an empty slice, is used. *)
GetFails ==
  /\ gpc = "select"
  /\ gpc' = GoesOn
  /\ UNCHANGED <<config, kind, table, vals, set, dpc, phase, gauge, popVars, workVars>>

(* Mutant: the result of Add is ignored and the record counted. *)
Counted(added) == "count"

AfterAdd(added) == IF added THEN "count" ELSE "adding"

(* Add returns true for a new record, and the gauge is incremented next. *)
AddNew(r) ==
  /\ gpc = "adding"
  /\ r \in vals \ set
  /\ Cardinality(set) < config.SetSize
  /\ set' = set \cup {r}
  /\ vals' = vals \ {r}
  /\ gpc' = AfterAdd(TRUE)
  /\ UNCHANGED <<config, kind, table, dpc, phase, gauge, popVars, workVars>>

(* Add returns false: the record is in the set, or the set is full. *)
AddRefused(r) ==
  /\ gpc = "adding"
  /\ r \in vals
  /\ r \in set \/ (~kind.AddBlocks /\ Cardinality(set) >= config.SetSize)
  /\ vals' = vals \ {r}
  /\ gpc' = AfterAdd(FALSE)
  /\ UNCHANGED <<config, kind, table, set, dpc, phase, gauge, popVars, workVars>>

CountAdded ==
  /\ gpc = "count"
  /\ gauge' = gauge + 1
  /\ gpc' = "adding"
  /\ UNCHANGED <<config, kind, table, vals, set, dpc, phase, popVars, workVars>>

AllAdded ==
  /\ gpc = "adding"
  /\ vals = {}
  /\ gpc' = "select"
  /\ UNCHANGED <<config, kind, table, vals, set, dpc, phase, gauge, popVars, workVars>>

GetterStops ==
  /\ gpc = "select"
  /\ StopClosed
  /\ gpc' = "done"
  /\ UNCHANGED <<config, kind, table, vals, set, dpc, phase, gauge, popVars, workVars>>

-----------------------------------------------------------------------------
(* delete, and the popper it starts for every round of its select. *)

(* Evaluating the select calls SendToChannel(Pop). *)
EnterSelect ==
  /\ dpc = "loop"
  /\ dpc' = "select"
  /\ popper' = "popping"
  /\ UNCHANGED <<config, kind, table, set, held, phase, gauge, getVars, workVars>>

PopItem(r) ==
  /\ popper = "popping"
  /\ r \in set
  /\ set' = set \ {r}
  /\ held' = [popper |-> {r}, delete |-> held.delete]
  /\ popper' = "sending"
  /\ UNCHANGED <<config, kind, table, dpc, phase, gauge, getVars, workVars>>

PopNil ==
  /\ popper = "popping"
  /\ ~kind.PopBlocks /\ set = {}
  /\ popper' = "sending"
  /\ UNCHANGED <<config, kind, table, set, held, dpc, phase, gauge, getVars, workVars>>

(* A nil item starts the next round. *)
DeleteReceives ==
  /\ dpc = "select"
  /\ popper = "sending"
  /\ popper' = "absent"
  /\ held' = [popper |-> {}, delete |-> held.popper]
  /\ dpc' = IF held.popper = {} THEN "loop" ELSE "count"
  /\ UNCHANGED <<config, kind, table, set, phase, gauge, getVars, workVars>>

CountPopped ==
  /\ dpc = "count"
  /\ gauge' = gauge - 1
  /\ dpc' = "acquire"
  /\ UNCHANGED <<config, kind, table, set, phase, getVars, popVars, workVars>>

(* Mutant: the semaphore is not waited for. *)
WorkerFreeOrNot == TRUE

WorkerFree == permits > 0

(* deleteWorkers.Acquire, go deleteWorker, and the sleep before the next   *)
(* round.                                                                  *)
LaunchWorker(r) ==
  /\ dpc = "acquire"
  /\ r \in held.delete
  /\ WorkerFree
  /\ permits' = permits - 1
  /\ inFlight' = [inFlight EXCEPT ![r] = @ + 1]
  /\ held' = [popper |-> held.popper, delete |-> {}]
  /\ dpc' = "loop"
  /\ UNCHANGED <<config, kind, table, set, popper, taken, phase, gauge, getVars>>

(* The loop is left at once; the popper stays where it is. *)
DeleteStops ==
  /\ dpc = "select"
  /\ StopClosed
  /\ dpc' = "grabbing"
  /\ UNCHANGED <<config, kind, table, set, phase, gauge, getVars, popVars, workVars>>

GrabWorker ==
  /\ dpc = "grabbing"
  /\ WorkerFree
  /\ permits' = permits - 1
  /\ taken' = taken + 1
  /\ dpc' = IF taken' = config.MaxWorkers THEN "done" ELSE dpc
  /\ UNCHANGED <<config, kind, table, set, inFlight, phase, gauge, getVars, popVars>>

-----------------------------------------------------------------------------
(* deleteWorker for record r: DeleteRecord returns (a record that is gone  *)
(* affects no row, which is no error) and the permit is released.          *)

(* Mutant: the permit is not released. *)
Leak == UNCHANGED permits

Release == permits' = permits + 1

WorkerEnds(r) ==
  /\ inFlight[r] > 0
  /\ inFlight' = [inFlight EXCEPT ![r] = @ - 1]
  /\ Release
  /\ UNCHANGED <<config, kind, set, dpc, taken, phase, gauge, getVars, popVars>>

DeleteSucceeds(r) == WorkerEnds(r) /\ table' = [table EXCEPT ![r] = "gone"]

DeleteFails(r) == WorkerEnds(r) /\ UNCHANGED table

-----------------------------------------------------------------------------

StopCall ==
  /\ phase = "running"
  /\ phase' = "stopping"
  /\ UNCHANGED <<config, kind, table, set, dpc, gauge, getVars, popVars, workVars>>

StopEnds ==
  /\ phase = "stopping"
  /\ gpc = "done" /\ dpc = "done"
  /\ phase' = "stopped"
  /\ UNCHANGED <<config, kind, table, set, dpc, gauge, getVars, popVars, workVars>>

(* The program is over. *)
Terminated == phase = "stopped" /\ UNCHANGED vars

-----------------------------------------------------------------------------

GetRecordsToDelete ==
  \/ \E s \in Selections : GetRecords(s)
  \/ GetFails
  \/ \E r \in Records : AddNew(r) \/ AddRefused(r)
  \/ CountAdded
  \/ AllAdded
  \/ GetterStops

SendToChannel == PopNil \/ \E r \in Records : PopItem(r)

Delete ==
  \/ EnterSelect
  \/ DeleteReceives
  \/ CountPopped
  \/ \E r \in Records : LaunchWorker(r)
  \/ DeleteStops
  \/ GrabWorker

DeleteWorker == \E r \in Records : DeleteSucceeds(r) \/ DeleteFails(r)

Next ==
  \/ \E r \in Records : Expire(r)
  \/ Start
  \/ GetRecordsToDelete
  \/ SendToChannel
  \/ Delete
  \/ DeleteWorker
  \/ StopCall
  \/ StopEnds
  \/ Terminated

Spec == Init /\ [][Next]_vars

(* Every goroutine that can proceed does.  The choice of select is random, *)
(* so a closed stop channel is not passed over for ever, nor is the        *)
(* channel of the popper; the database answers a query and deletes a       *)
(* record if it is asked often enough.  Nobody need call Start or Stop.    *)
Fairness ==
  /\ WF_vars(GetRecordsToDelete)
  /\ WF_vars(SendToChannel)
  /\ WF_vars(Delete)
  /\ WF_vars(DeleteWorker)
  /\ WF_vars(StopEnds)
  /\ SF_vars(GetterStops)
  /\ SF_vars(DeleteStops)
  /\ SF_vars(\E s \in Selections : GetRecords(s))
  /\ \A r \in Records : SF_vars(DeleteSucceeds(r))

FairSpec == Spec /\ Fairness

-----------------------------------------------------------------------------
(* Properties. *)

(* Types of the variables: neither permits nor worker counts go below zero *)
(* and the set never outgrows SetSize (the gauge may be negative).         *)
TypeOK ==
  /\ config \in {NewBatchDeleter(raw) : raw \in RawConfigs}
  /\ kind \in SetKinds
  /\ table \in [Records -> {"live", "expired", "gone"}]
  /\ gpc \in {"unborn", "select", "adding", "count", "done"}
  /\ vals \subseteq Records
  /\ set \subseteq Records /\ Cardinality(set) <= config.SetSize
  /\ popper \in {"absent", "popping", "sending"}
  /\ held \in [popper : SUBSET Records, delete : SUBSET Records]
  /\ dpc \in {"unborn", "loop", "select", "count", "acquire", "grabbing", "done"}
  /\ inFlight \in [Records -> Nat]
  /\ permits \in Nat
  /\ taken \in Nat
  /\ phase \in {"created", "running", "stopping", "stopped"}
  /\ gauge \in Int

(* The deleteWorker goroutines, those of one record numbered. *)
Workers == UNION {{r} \X (1 .. inFlight[r]) : r \in Records}

(* Every permit is free, held by one deleteWorker, or taken by delete at   *)
(* its end: at most MaxWorkers deletions run at once, and none is running  *)
(* when delete has taken them all.                                         *)
PermitsAccounted == permits + taken + Cardinality(Workers) = config.MaxWorkers

(* The metric for the depth of the delete queue is the size of the set,    *)
(* plus a record the popper holds (for ever, once delete has left) or that *)
(* delete has yet to subtract, minus one that is yet to be added.          *)
GaugeAccounted ==
  gauge = Cardinality(set) + Cardinality(held.popper)
            + (IF dpc = "count" THEN 1 ELSE 0) - (IF gpc = "count" THEN 1 ELSE 0)

(* Whatever a goroutine holds for deletion has expired; it may be gone by  *)
(* now, for the same record can be read again while it is being deleted.   *)
OnlyExpiredClaimed ==
  \A r \in vals \cup set \cup held.popper \cup held.delete \cup {x \in Records : inFlight[x] > 0} :
    table[r] # "live"

(* While the deleter runs every expired record is deleted in the end: not  *)
(* an unlucky LIMIT, a full set, a failed delete or a query that returns a *)
(* record already in hand makes it forget one.  A get limit of 0, which is *)
(* a valid one, reads nothing.                                             *)
ExpiredIsDeleted ==
  \A r \in Records :
    (table[r] = "expired" /\ phase = "running" /\ config.GetLimit > 0) ~>
      (table[r] = "gone" \/ phase # "running")

(* Stop returns, with one exception: an Add that waits for room in a full  *)
(* set waits for ever once delete, the only one to make room, has left; a  *)
(* wait that comes to an end is no excuse.                                 *)
AddWaits ==
  kind.AddBlocks /\ gpc = "adding" /\ vals # {} /\ Cardinality(set) = config.SetSize

StopReturnsOrAddWaits == phase = "stopping" ~> (phase = "stopped" \/ []AddWaits)

-----------------------------------------------------------------------------

(* batchDeleter.go:123-124: "Stop closes the internal queue and waits for  *)
(* the workers to finish processing what has already been added".          *)
StopDrains == phase = "stopped" => set = {} /\ held.popper = {}
=============================================================================
