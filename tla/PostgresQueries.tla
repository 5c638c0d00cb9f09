-------------------------- MODULE PostgresQueries --------------------------
(***************************************************************************)
(* The operations of a postgresql Connection, postgresql/db.go with        *)
(* executer.go, run by several callers on one table, from the moment the   *)
(* connection of PostgresConnect has been created and after its Close too: *)
(* each sends one statement and then updates the metrics.  A statement     *)
(* takes effect in one step; its answer may be lost, so that the caller    *)
(* sees an error for a statement that took effect.  A row is its id, which *)
(* the database gives out in order.                                        *)
(***************************************************************************)
EXTENDS PostgresConnect, FiniteSetsExt

CONSTANTS
  Callers,   \* goroutines that use the connection
  Sizes,     \* numbers of records passed to InsertRecords
  Limits,    \* limits passed to the reading operations
  MaxCalls,  \* bound on the calls, for TLC
  MaxRows    \* bound on the rows ever inserted, for TLC

ASSUME QueriesAssumption ==
  /\ IsFiniteSet(Callers)
  /\ Sizes \subseteq Nat /\ Limits \subseteq Nat
  /\ MaxCalls \in Nat /\ MaxRows \in Nat

Labels == {"read", "delete", "insert", "ping", "blacklistRead"}

VARIABLES
  table,       \* the ids of the rows in the table
  nextId,      \* the id of the next row
  call,        \* the operation each caller is in
  inserted,    \* measures.SQLInsertedRecords
  deleted,     \* measures.SQLDeletedRecords
  read,        \* measures.SQLReadRecords
  success,     \* measures.SQLQuerySuccessCount, by label
  failure,     \* measures.SQLQueryFailureCount, by label
  astray,      \* rows whose insertion or removal was not reported, or was and
               \* did not happen
  started      \* how many calls have been made, by label

rowMetrics   == <<inserted, deleted, read>>
queryMetrics == <<success, failure>>
connectionVars == vars
dbVars == <<table, nextId, call, rowMetrics, queryMetrics, astray, started>>
queriesVars == <<connectionVars, dbVars>>

Idle == [pc |-> "idle", label |-> "ping", rows |-> 0, error |-> FALSE]

NewMeasures ==
  /\ inserted = 0 /\ deleted = 0 /\ read = 0
  /\ success = [l \in Labels |-> 0]
  /\ failure = [l \in Labels |-> 0]

QueriesInit ==
  /\ Init
  /\ table = {}
  /\ nextId = 1
  /\ call = [c \in Callers |-> Idle]
  /\ NewMeasures
  /\ astray = [inserted |-> 0, removed |-> 0, kept |-> 0]
  /\ started = [l \in Labels |-> 0]

-----------------------------------------------------------------------------
(* The statements: the first half of each operation. *)

(* Only a deletion can be "uncommitted": it runs in a transaction, and the *)
(* number of rows it removed stands when the commit fails and they return. *)
Answers == {"ok", "failed", "lost", "uncommitted"}

TakesEffect(answer) == answer \in {"ok", "lost"}
Reports(answer)     == answer \in {"ok", "uncommitted"}

Calls == MapThenSumSet(LAMBDA l : started[l], Labels)

(* A statement on a pool that has been closed is an error of the driver.   *)
Begin(c, label, rows, error) ==
  /\ cpc = "open"
  /\ pools = 0 => error
  /\ call[c].pc = "idle"
  /\ Calls < MaxCalls
  /\ started' = [started EXCEPT ![label] = @ + 1]
  /\ call' = [call EXCEPT ![c] =
                [pc |-> "rows", label |-> label, rows |-> rows, error |-> error]]
  /\ UNCHANGED <<connectionVars, rowMetrics, queryMetrics>>

(* An empty batch is an error, without a statement; insert reports no rows *)
(* with an error.                                                          *)
InsertRecords(c, n, answer) ==
  /\ answer # "uncommitted"
  /\ n = 0 \/ pools = 0 => answer = "failed"
  /\ nextId + n - 1 <= MaxRows
  /\ IF TakesEffect(answer)
     THEN table' = table \cup (nextId .. nextId + n - 1) /\ nextId' = nextId + n
     ELSE UNCHANGED <<table, nextId>>
  /\ astray' = [astray EXCEPT !.inserted = @ + IF answer = "lost" THEN n ELSE 0]
  /\ Begin(c, "insert", IF Reports(answer) THEN n ELSE 0, answer # "ok")

(* Mutant: the rows asked for are counted, also those that are gone. *)
Asked(ids) == Cardinality(ids)

RowsAffected(ids) == Cardinality(ids \cap table)

Remove(c, ids, answer) ==
  /\ pools = 0 => answer = "failed"
  /\ table' = IF TakesEffect(answer) THEN table \ ids ELSE table
  /\ astray' = [astray EXCEPT
                  !.removed = @ + IF answer = "lost" THEN RowsAffected(ids) ELSE 0,
                  !.kept = @ + IF answer = "uncommitted" THEN RowsAffected(ids) ELSE 0]
  /\ Begin(c, "delete", IF Reports(answer) THEN RowsAffected(ids) ELSE 0, answer # "ok")
  /\ UNCHANGED nextId

(* A row that is no longer there is not an error. *)
DeleteRecord(c, id, answer) == Remove(c, {id}, answer)

RemoveAll(c, answer) == Remove(c, table, answer)

(* A reading operation returns up to limit rows that meet its condition.   *)
Find(c, limit, error) ==
  /\ \E found \in SUBSET table :
       /\ Cardinality(found) <= limit
       /\ Begin(c, "read", IF error THEN 0 ELSE Cardinality(found), error)
  /\ UNCHANGED <<table, nextId, astray>>

GetRecords(c, limit, error)         == Find(c, limit, error)
GetRecordsOfType(c, limit, error)   == Find(c, limit, error)
GetRecordsToDelete(c, limit, error) == Find(c, limit, error)

(* These count no rows. *)
Ask(c, label, error) ==
  /\ Begin(c, label, 0, error)
  /\ UNCHANGED <<table, nextId, astray>>

GetDeviceList(c, error) == Ask(c, "read", error)
GetBlacklist(c, error)  == Ask(c, "blacklistRead", error)
Ping(c, error)          == Ask(c, "ping", error)

-----------------------------------------------------------------------------
(* The metrics: the second half. *)

CountRows(c) ==
  /\ call[c].pc = "rows"
  /\ inserted' = inserted + IF call[c].label = "insert" THEN call[c].rows ELSE 0
  /\ deleted' = deleted + IF call[c].label = "delete" THEN call[c].rows ELSE 0
  /\ read' = read + IF call[c].label = "read" THEN call[c].rows ELSE 0
  /\ call' = [call EXCEPT ![c].pc = "outcome"]
  /\ UNCHANGED <<connectionVars, table, nextId, queryMetrics, astray, started>>

(* Mutant: the label is copied from another operation. *)
CountedAsRead(count, label) == [count EXCEPT !["read"] = @ + 1]

Counted(count, label) == [count EXCEPT ![label] = @ + 1]

CountFailure(c) ==
  /\ call[c].pc = "outcome"
  /\ call[c].error
  /\ failure' = Counted(failure, call[c].label)
  /\ call' = [call EXCEPT ![c] = Idle]
  /\ UNCHANGED <<connectionVars, table, nextId, rowMetrics, success, astray, started>>

CountSuccess(c) ==
  /\ call[c].pc = "outcome"
  /\ ~call[c].error
  /\ success' = Counted(success, call[c].label)
  /\ call' = [call EXCEPT ![c] = Idle]
  /\ UNCHANGED <<connectionVars, table, nextId, rowMetrics, failure, astray, started>>

Change(c, answer) ==
  \/ \E n \in Sizes : InsertRecords(c, n, answer)
  \/ \E id \in 1 .. MaxRows : DeleteRecord(c, id, answer)
  \/ RemoveAll(c, answer)

Query(c, error) ==
  \/ \E limit \in Limits :
       \/ GetRecords(c, limit, error)
       \/ GetRecordsOfType(c, limit, error)
       \/ GetRecordsToDelete(c, limit, error)
  \/ GetDeviceList(c, error)
  \/ GetBlacklist(c, error)
  \/ Ping(c, error)

Operation(c) ==
  \/ \E answer \in Answers : Change(c, answer)
  \/ \E error \in BOOLEAN : Query(c, error)
  \/ CountRows(c) \/ CountFailure(c) \/ CountSuccess(c)

QueriesTerminated ==
  /\ Terminated
  /\ \A c \in Callers : call[c].pc = "idle"
  /\ UNCHANGED dbVars

QueriesNext ==
  \/ Live /\ UNCHANGED dbVars
  \/ \E c \in Callers : Operation(c)
  \/ QueriesTerminated

QueriesSpec == QueriesInit /\ [][QueriesNext]_queriesVars

-----------------------------------------------------------------------------
(* Properties. *)

(* The rows of some calls, those of one call numbered. *)
RowsOf(calls, callers) == UNION {{c} \X (1 .. calls[c].rows) : c \in callers}

(* Those of the calls that have yet to count them. *)
Uncounted(label) == RowsOf(call, {c \in Callers : call[c].pc = "rows" /\ call[c].label = label})

(* The rows in the table are those the metrics have counted as inserted    *)
(* less those counted as deleted, up to calls that have yet to count and   *)
(* statements whose answer was lost or untrue: two callers that delete the *)
(* same row count it once, and a failed insert counts no row.              *)
RowMetricsMatchTable ==
  Cardinality(table) =
    (inserted + Cardinality(Uncounted("insert")) + astray.inserted)
      - (deleted + Cardinality(Uncounted("delete")) + astray.removed - astray.kept)

Underway(label) == {c \in Callers : call[c].pc # "idle" /\ call[c].label = label}

(* Every call has been counted, once it has returned, as one success or    *)
(* one failure of its kind, whatever the others do and also if the pool    *)
(* was closed before it or under its hands.                                *)
EveryCallCounted ==
  \A l \in Labels : success[l] + failure[l] = started[l] - Cardinality(Underway(l))
=============================================================================
