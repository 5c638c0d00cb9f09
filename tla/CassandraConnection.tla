------------------------ MODULE CassandraConnection ------------------------
(***************************************************************************)
(* A cassandra Connection: CreateDbConnection with its retries, Close, and *)
(* the operations, cassandra/db.go, run by several callers through the     *)
(* decorator that measures them, executermeasures.go, on a gocql session,  *)
(* executer.go.  Rows are counted, not told apart: which of them a query   *)
(* returns is the subject of LongPolling.  An INSERT of a key that is in   *)
(* the table, PRIMARY KEY (device_id, birthdate, record_type), overwrites  *)
(* its row, so that there are fewer rows than records written.             *)
(***************************************************************************)
EXTENDS Integers, FiniteSets, FiniteSetsExt

CONSTANTS
  Configs,   \* the arguments: how many Hosts, NumRetries, and whether there
             \* is a health (not nil)
  Callers,   \* goroutines that use the connection
  Sizes,     \* numbers of records passed to InsertRecords
  MaxCalls   \* bound on the calls, for TLC

ASSUME ConstantsAssumption ==
  /\ Configs \subseteq [hosts : Nat, numRetries : Int, health : BOOLEAN]
  /\ IsFiniteSet(Callers)
  /\ Sizes \subseteq Nat
  /\ MaxCalls \in Nat

(* The operations, each with the label of its metrics. *)
TypeLabel ==
  [GetRecords |-> "read", GetRecordsOfType |-> "read", GetDeviceList |-> "read",
   GetBlacklist |-> "blacklistRead", InsertRecords |-> "insert", Ping |-> "ping"]

Operations == DOMAIN TypeLabel

CountsRows == {"GetRecords", "GetRecordsOfType"}

VARIABLES
  config,      \* config after validation
  connection,  \* "none", "failed", "panicked", or the state of the session
  attempts,    \* how often connectWithMetrics has been called
  stored,      \* rows in the table
  written,     \* records that have been written to it
  call,        \* the operation each caller is in
  started,     \* how many calls have been made, by label
  delivered,   \* rows returned to the callers of the CountsRows
  PoolInUseConnections, SQLDuration, SQLQuerySuccessCount, SQLQueryFailureCount,
  SQLInsertedRecords, SQLReadRecords  \* the Measures

table    == <<stored, written>>
session  == <<config, connection, attempts, table>>
calls    == <<call, started, delivered>>
timing   == <<PoolInUseConnections, SQLDuration>>
outcomes == <<SQLQuerySuccessCount, SQLQueryFailureCount>>
rows     == <<SQLInsertedRecords, SQLReadRecords>>
vars     == <<session, calls, timing, outcomes, rows>>

validateConfig(c) == [c EXCEPT !.numRetries = IF @ < 0 THEN 0 ELSE @]

Labels == {TypeLabel[op] : op \in Operations}

Zero == [l \in Labels |-> 0]

NewMeasures ==
  /\ PoolInUseConnections = 0
  /\ SQLDuration = Zero
  /\ SQLQuerySuccessCount = Zero /\ SQLQueryFailureCount = Zero
  /\ SQLInsertedRecords = 0 /\ SQLReadRecords = 0

Idle == [pc |-> "idle", op |-> "Ping", size |-> 0, rows |-> 0, error |-> FALSE]

Init ==
  /\ config \in {validateConfig(c) : c \in Configs}
  /\ connection = "none"
  /\ attempts = 0
  /\ stored = 0
  /\ written = 0
  /\ call = [c \in Callers |-> Idle]
  /\ started = Zero
  /\ delivered = 0
  /\ NewMeasures

-----------------------------------------------------------------------------
(* The life of the connection. *)

NoHosts ==
  /\ connection = "none"
  /\ config.hosts = 0
  /\ connection' = "failed"
  /\ UNCHANGED <<config, attempts, table, calls, timing, outcomes, rows>>

(* health.Logger is read without a look whether health is nil. *)
NilHealth ==
  /\ connection = "none"
  /\ config.hosts > 0
  /\ ~config.health
  /\ connection' = "panicked"
  /\ UNCHANGED <<config, attempts, table, calls, timing, outcomes, rows>>

ConnectSucceeds ==
  /\ connection = "none"
  /\ config.hosts > 0
  /\ config.health
  /\ attempts' = attempts + 1
  /\ connection' = "open"
  /\ UNCHANGED <<config, table, calls, timing, outcomes, rows>>

(* The first attempt is followed by up to NumRetries more. *)
ConnectFails ==
  /\ connection = "none"
  /\ config.hosts > 0
  /\ config.health
  /\ attempts' = attempts + 1
  /\ connection' = IF attempts < config.numRetries THEN "none" ELSE "failed"
  /\ UNCHANGED <<config, table, calls, timing, outcomes, rows>>

(* stopThreads is empty: Close waits for nobody, and may come again. *)
Close ==
  /\ connection \in {"open", "closed"}
  /\ connection' = "closed"
  /\ UNCHANGED <<config, attempts, table, calls, timing, outcomes, rows>>

-----------------------------------------------------------------------------
(* The operations, in the order in which each of them takes its steps. *)

Enter(c, op, size) ==
  /\ connection \in {"open", "closed"}
  /\ size = 0 \/ op = "InsertRecords"
  /\ call[c].pc = "idle"
  /\ MapThenSumSet(LAMBDA l : started[l], Labels) < MaxCalls
  /\ started' = [started EXCEPT ![TypeLabel[op]] = @ + 1]
  /\ PoolInUseConnections' = PoolInUseConnections + 1
  /\ call' = [call EXCEPT ![c] =
                [pc |-> "session", op |-> op, size |-> size, rows |-> 0, error |-> FALSE]]
  /\ UNCHANGED <<session, delivered, SQLDuration, outcomes, rows>>

Answered(c, n, error) ==
  /\ call' = [call EXCEPT ![c].pc = "timing", ![c].rows = n, ![c].error = error]
  /\ UNCHANGED <<config, connection, attempts, started, delivered, timing, outcomes, rows>>

(* The batch is unlogged: one that fails may have written some of its      *)
(* records, and an answer may be lost.  Whatever has been written, all the *)
(* records of the batch are reported.                                      *)
Insert(c, error) ==
  /\ call[c].pc = "session"
  /\ call[c].op = "InsertRecords"
  /\ connection = "closed" => error
  /\ \E n \in 0 .. call[c].size :
       /\ ~error => n = call[c].size
       /\ connection = "closed" => n = 0
       /\ written' = written + n
       /\ \E new \in 0 .. n :
            /\ stored + n > 0 => stored + new > 0
            /\ stored' = stored + new
  /\ Answered(c, call[c].size, error)

(* The rows scanned until the iteration ends, be it with an error. *)
Find(c, error) ==
  /\ call[c].pc = "session"
  /\ call[c].op \notin {"InsertRecords", "Ping"}
  /\ connection = "closed" => error
  /\ \E n \in 0 .. stored : Answered(c, n, error)
  /\ UNCHANGED table

Ping(c) ==
  /\ call[c].pc = "session"
  /\ call[c].op = "Ping"
  /\ Answered(c, 0, connection = "closed")
  /\ UNCHANGED table

(* Mutant: an error returns before the connection is given back. *)
BackUnlessError(c) == IF call[c].error THEN 0 ELSE 1

Back(c) == 1

Observe(c) ==
  /\ call[c].pc = "timing"
  /\ SQLDuration' = [SQLDuration EXCEPT ![TypeLabel[call[c].op]] = @ + 1]
  /\ call' = [call EXCEPT ![c].pc = "leaving"]
  /\ UNCHANGED <<session, started, delivered, PoolInUseConnections, outcomes, rows>>

Leave(c) ==
  /\ call[c].pc = "leaving"
  /\ PoolInUseConnections' = PoolInUseConnections - Back(c)
  /\ call' = [call EXCEPT ![c].pc = "rows"]
  /\ UNCHANGED <<session, started, delivered, SQLDuration, outcomes, rows>>

(* Mutant: one is added, as to the counters of the calls. *)
AddOne(n) == 1

Added(n) == n

(* Inserted rows are counted before the error is looked at, rows read      *)
(* after, and the others never.                                            *)
CountRows(c) ==
  /\ call[c].pc = "rows"
  /\ SQLInsertedRecords' =
       SQLInsertedRecords + IF call[c].op = "InsertRecords" THEN Added(call[c].rows) ELSE 0
  /\ SQLReadRecords' = SQLReadRecords +
       IF call[c].op \in CountsRows /\ ~call[c].error THEN call[c].rows ELSE 0
  /\ call' = [call EXCEPT ![c].pc = "outcome"]
  /\ UNCHANGED <<session, started, delivered, timing, outcomes>>

(* Mutant: the label is copied from another operation. *)
ReadLabel(op) == "read"

Label(op) == TypeLabel[op]

(* With an error the rows found are dropped and an empty list returned. *)
Fail(c) ==
  /\ call[c].pc = "outcome"
  /\ call[c].error
  /\ SQLQueryFailureCount' = [SQLQueryFailureCount EXCEPT ![Label(call[c].op)] = @ + 1]
  /\ call' = [call EXCEPT ![c] = Idle]
  /\ UNCHANGED <<session, started, delivered, timing, SQLQuerySuccessCount, rows>>

Succeed(c) ==
  /\ call[c].pc = "outcome"
  /\ ~call[c].error
  /\ SQLQuerySuccessCount' = [SQLQuerySuccessCount EXCEPT ![Label(call[c].op)] = @ + 1]
  /\ delivered' = delivered + IF call[c].op \in CountsRows THEN call[c].rows ELSE 0
  /\ call' = [call EXCEPT ![c] = Idle]
  /\ UNCHANGED <<session, started, timing, SQLQueryFailureCount, rows>>

Terminated ==
  /\ \/ connection \in {"failed", "panicked"}
     \/ connection = "closed" /\ \A c \in Callers : call[c].pc = "idle"
  /\ UNCHANGED vars

CreateDbConnection == NoHosts \/ NilHealth \/ ConnectSucceeds \/ ConnectFails

Decorated(c) ==
  \/ \E op \in Operations, size \in Sizes : Enter(c, op, size)
  \/ \E error \in BOOLEAN : Insert(c, error) \/ Find(c, error)
  \/ Ping(c)
  \/ Observe(c) \/ Leave(c)

Operation(c) == Decorated(c) \/ CountRows(c) \/ Fail(c) \/ Succeed(c)

Next ==
  \/ CreateDbConnection
  \/ Close
  \/ \E c \in Callers : Operation(c)
  \/ Terminated

Spec == Init /\ [][Next]_vars

-----------------------------------------------------------------------------
(* Properties. *)

(* The callers that stand somewhere, and those whose operation has a label. *)
At(pcs) == {c \in Callers : call[c].pc \in pcs}

Of(l) == {c \in Callers : TypeLabel[call[c].op] = l}

(* The gauge is the number of callers that hold a connection of the pool:  *)
(* whichever way a call ends, and after Close too, it gives it back once.  *)
PoolAccounted == PoolInUseConnections = Cardinality(At({"session", "timing", "leaving"}))

Untimed == At({"session", "timing"})

Underway == At({"session", "timing", "leaving", "rows", "outcome"})

(* Every call is timed once when it has been answered, and counted, once   *)
(* it has returned, as one success or one failure of its kind.             *)
EveryCallCounted ==
  \A l \in Labels :
    /\ SQLDuration[l] = started[l] - Cardinality(Untimed \cap Of(l))
    /\ SQLQuerySuccessCount[l] + SQLQueryFailureCount[l] =
          started[l] - Cardinality(Underway \cap Of(l))

(* The rows of some callers' answers, those of one answer numbered.        *)
RowsOf(answers, callers) == UNION {{c} \X (1 .. answers[c].rows) : c \in callers}

Inserting == {c \in Callers : call[c].op = "InsertRecords"}

Reading == {c \in Callers : call[c].op \in CountsRows}

Uninserted == RowsOf(call, Inserting \cap At({"timing", "leaving", "rows"}))

Undelivered == RowsOf(call, {c \in Reading \cap At({"outcome"}) : ~call[c].error})

(* The metric for inserted rows counts every record written, an upsert as  *)
(* a row of its own: it falls short of them by no more than calls have yet *)
(* to count, and exceeds them only after an insert has failed; the one for *)
(* rows read is what callers were given, a failed query giving none.       *)
RowMetricsMatch ==
  LET counted == SQLInsertedRecords + Cardinality(Uninserted)
  IN  /\ stored <= written /\ written <= counted
      /\ SQLQueryFailureCount["insert"] = 0 /\ (\A c \in Inserting : ~call[c].error) =>
            written = counted
      /\ SQLReadRecords = delivered + Cardinality(Undelivered)
=============================================================================
