--------------------------- MODULE PostgresProofs ---------------------------
(***************************************************************************)
(* Proofs about the life of a postgresql Connection, PostgresConnect, for  *)
(* any numbers of retries and calls of Close, and about its operations,    *)
(* PostgresQueries, for any set of callers, any batches and any rows.      *)
(***************************************************************************)
EXTENDS PostgresQueries, FiniteSetTheorems, TLAPS

USE DEF RetriesLeft, Return, Room, Sent, RowsAffected, Counted

-----------------------------------------------------------------------------
(* The connection. *)

(* How far the creation has come, by its place: a pool is open only once   *)
(* connect has succeeded.                                                  *)
Creation ==
  /\ cpc \in {"connect", "sleep"} => pools = 0 /\ attempts <= numRetries
  /\ cpc = "check" => pools = 1
  /\ attempts <= numRetries + 1
  /\ cpc = "failed" /\ pools = 0 => attempts = numRetries + 1

(* Close is called on a connection that is open, which it then stays; a    *)
(* call that has sent its signal has left it in the channel, or the        *)
(* goroutine has ended.                                                    *)
Closing ==
  \A k \in Closers :
    /\ close[k] # "new" => cpc = "open"
    /\ close[k] \in {"closing", "done"} => mpc = "done" \/ stopSignals = 1
    /\ close[k] = "done" => pools = 0

ConnectionInv == TypeOK /\ baseline <= waitCount /\ Creation /\ Closing

LEMMA InitConnection == Init => ConnectionInv
<1> SUFFICES ASSUME Init PROVE ConnectionInv
  OBVIOUS
<1>1. numRetries \in Nat
  BY ConstantsAssumption DEF Init, validateConfig
<1> QED
  BY <1>1 DEF Init, ConnectionInv, TypeOK, Creation, Closing

LEMMA NextConnection == ConnectionInv /\ [Next]_vars => ConnectionInv'
<1> SUFFICES ASSUME ConnectionInv, [Next]_vars PROVE ConnectionInv'
  OBVIOUS
<1> USE DEF ConnectionInv, TypeOK, Creation, Closing
<1>1. CASE ConnectSucceeds
  BY <1>1 DEF ConnectSucceeds, metricsVars
<1>2. CASE ConnectFails
  BY <1>2 DEF ConnectFails, metricsVars
<1>3. CASE Sleep
  BY <1>3 DEF Sleep, metricsVars
<1>4. CASE TableMissing
  BY <1>4 DEF TableMissing, metricsVars
<1>5. CASE SetUp
  BY <1>5 DEF SetUp
<1>6. CASE QueryWaits
  BY <1>6 DEF QueryWaits, createVars, metricsVars
<1>7. CASE Measure
  <2>1. SQLWaitCount' \in Nat
    BY <1>7 DEF Measure
  <2> QED
    BY <1>7, <2>1 DEF Measure, createVars
<1>8. CASE MetricsStop
  BY <1>8 DEF MetricsStop, createVars
<1>9. ASSUME NEW k \in Closers, CloseCall(k) PROVE ConnectionInv'
  BY <1>9 DEF CloseCall, createVars, metricsVars
<1>10. ASSUME NEW k \in Closers, Signal(k) PROVE ConnectionInv'
  BY <1>10 DEF Signal, createVars, metricsVars
<1>11. ASSUME NEW k \in Closers, ClosePool(k) PROVE ConnectionInv'
  BY <1>11 DEF ClosePool, createVars, metricsVars
<1>12. CASE UNCHANGED vars
  BY <1>12 DEF vars
<1> QED
  BY <1>1, <1>2, <1>3, <1>4, <1>5, <1>6, <1>7, <1>8, <1>9, <1>10, <1>11, <1>12
  DEF Next, Live, CreateDbConnection, DoEvery, Close, Terminated

(* The inductive invariant holds in every reachable state.                 *)
THEOREM ConnectionInductive == Spec => []ConnectionInv
<1>1. Init => ConnectionInv
  BY InitConnection
<1>2. ConnectionInv /\ [Next]_vars => ConnectionInv'
  BY NextConnection
<1> QED
  BY <1>1, <1>2, PTL DEF Spec

(* Every reachable state is well typed: the counters never go down past    *)
(* their baseline, and no signal is sent into a full stop channel.         *)
THEOREM TypeCorrect == Spec => []TypeOK
<1>1. ConnectionInv => TypeOK
  BY DEF ConnectionInv
<1> QED
  BY <1>1, ConnectionInductive, PTL

(* CreateDbConnection gives up only after all its retries or, with a pool  *)
(* left open, for want of the table.                                       *)
THEOREM GivesUpLate == Spec => []FailsOnlyAfterRetries
<1>1. ConnectionInv => FailsOnlyAfterRetries
  BY DEF ConnectionInv, Creation, FailsOnlyAfterRetries
<1> QED
  BY <1>1, ConnectionInductive, PTL

(* However many goroutines call Close, when one call has returned the pool *)
(* is closed for good and the metrics goroutine is told to end.            *)
THEOREM CloseIsFinal == Spec => []ClosedStaysClosed
<1>1. ConnectionInv => ClosedStaysClosed
  BY DEF ConnectionInv, Closing, ClosedStaysClosed
<1> QED
  BY <1>1, ConnectionInductive, PTL

-----------------------------------------------------------------------------
(* The operations leave the connection to its own goroutines. *)

(* Every step of the operations on a connection is a step of the           *)
(* connection or none, so that what it promises holds under queries too.   *)
THEOREM QueriesKeepConnection == QueriesSpec => Spec
<1>1. QueriesInit => Init
  BY DEF QueriesInit
<1>2. [QueriesNext]_queriesVars => [Next]_vars
  <2> SUFFICES ASSUME [QueriesNext]_queriesVars PROVE [Next]_vars
    OBVIOUS
  <2>1. CASE Live /\ UNCHANGED dbVars
    BY <2>1 DEF Next
  <2>2. ASSUME NEW c \in Callers, Operation(c) PROVE UNCHANGED connectionVars
    BY <2>2 DEF Operation, Change, InsertRecords, DeleteRecord, RemoveAll, Remove, Query, GetRecords,
                GetRecordsOfType, GetRecordsToDelete, Find, GetDeviceList, GetBlacklist, Ping, Ask,
                Begin, CountRows, CountFailure, CountSuccess
  <2>3. CASE QueriesTerminated
    BY <2>3 DEF QueriesTerminated, Next
  <2>4. CASE UNCHANGED queriesVars
    BY <2>4 DEF queriesVars, connectionVars
  <2> QED
    BY <2>1, <2>2, <2>3, <2>4 DEF QueriesNext, connectionVars
<1> QED
  BY <1>1, <1>2, PTL DEF QueriesSpec, Spec

-----------------------------------------------------------------------------
(* Counting callers, and the rows of their calls. *)

(* Two sets of callers that differ at most in c.                           *)
LEMMA OneCaller ==
  ASSUME NEW X \in SUBSET Callers, NEW Y \in SUBSET Callers, NEW c,
         \A x \in Callers : x # c => (x \in X <=> x \in Y)
  PROVE  /\ Cardinality(X) \in Nat /\ Cardinality(Y) \in Nat
         /\ (c \in X <=> c \in Y) => Cardinality(Y) = Cardinality(X)
         /\ c \notin X /\ c \in Y => Cardinality(Y) = Cardinality(X) + 1
         /\ c \in X /\ c \notin Y => Cardinality(Y) = Cardinality(X) - 1
<1>1. IsFiniteSet(X) /\ IsFiniteSet(Y)
  BY QueriesAssumption, FS_Subset
<1>2. Cardinality(X) \in Nat /\ Cardinality(Y) \in Nat
  BY <1>1, FS_CardinalityType
<1>3. CASE c \in X <=> c \in Y
  <2>1. X = Y
    BY <1>3
  <2> QED
    BY <1>2, <1>3, <2>1
<1>4. CASE c \notin X /\ c \in Y
  <2>1. Y = X \cup {c}
    BY <1>4
  <2> QED
    BY <1>1, <1>2, <1>4, <2>1, FS_AddElement
<1>5. CASE c \in X /\ c \notin Y
  <2>1. Y = X \ {c}
    BY <1>5
  <2> QED
    BY <1>1, <1>2, <1>5, <2>1, FS_RemoveElement
<1> QED
  BY <1>3, <1>4, <1>5

(* The numbered rows of one call.                                          *)
LEMMA OneCall ==
  ASSUME NEW c, NEW n \in Nat
  PROVE  IsFiniteSet({c} \X (1 .. n)) /\ Cardinality({c} \X (1 .. n)) = n
<1>1. IsFiniteSet({c}) /\ Cardinality({c}) = 1
  BY FS_Singleton
<1>2. IsFiniteSet(1 .. n) /\ Cardinality(1 .. n) = n
  BY FS_Interval
<1>3. /\ IsFiniteSet({c} \X (1 .. n))
      /\ Cardinality({c} \X (1 .. n)) = Cardinality({c}) * Cardinality(1 .. n)
  BY <1>1, <1>2, FS_Product
<1>4. 1 * n = n
  OBVIOUS
<1> QED
  BY <1>1, <1>2, <1>3, <1>4

(* The calls f of the callers in X and g of those in Y differ in that of   *)
(* c at most.                                                              *)
DifferIn(c, f, X, g, Y) ==
  /\ f[c].rows \in Nat /\ g[c].rows \in Nat
  /\ \A x : x # c => (x \in X <=> x \in Y)
  /\ \A x \in X : x # c => g[x].rows = f[x].rows

(* The rows of all calls change by those of the one that changes.          *)
LEMMA RowsChange ==
  ASSUME NEW c, NEW f, NEW X, NEW g, NEW Y, DifferIn(c, f, X, g, Y), IsFiniteSet(RowsOf(f, X))
  PROVE  /\ IsFiniteSet(RowsOf(g, Y))
         /\ Cardinality(RowsOf(f, X)) \in Nat
         /\ Cardinality(RowsOf(g, Y)) =
              Cardinality(RowsOf(f, X)) - (IF c \in X THEN f[c].rows ELSE 0)
                                        + (IF c \in Y THEN g[c].rows ELSE 0)
<1> DEFINE old == IF c \in X THEN {c} \X (1 .. f[c].rows) ELSE {}
           new == IF c \in Y THEN {c} \X (1 .. g[c].rows) ELSE {}
           rest == RowsOf(f, X) \ old
<1> USE DEF DifferIn
<1>1. \A p : p \in RowsOf(f, X) <=> \E x \in X : \E i \in 1 .. f[x].rows : p = <<x, i>>
  BY DEF RowsOf
<1>2. \A p : p \in RowsOf(g, Y) <=> \E x \in Y : \E i \in 1 .. g[x].rows : p = <<x, i>>
  BY DEF RowsOf
<1>3. /\ IsFiniteSet(old) /\ Cardinality(old) = IF c \in X THEN f[c].rows ELSE 0
      /\ IsFiniteSet(new) /\ Cardinality(new) = IF c \in Y THEN g[c].rows ELSE 0
  BY OneCall, FS_EmptySet
<1>4. RowsOf(f, X) \cap old = old
  BY <1>1
<1>5. rest \cap new = {}
  BY <1>1
<1>6. RowsOf(g, Y) = rest \cup new
  BY <1>1, <1>2
<1> HIDE DEF old, new
<1>7. IsFiniteSet(rest) /\ Cardinality(rest) = Cardinality(RowsOf(f, X)) - Cardinality(old)
  BY <1>4, FS_Difference
<1>8. /\ IsFiniteSet(RowsOf(g, Y))
      /\ Cardinality(RowsOf(g, Y)) = Cardinality(rest) + Cardinality(new) - Cardinality({})
  BY <1>3, <1>5, <1>6, <1>7, FS_Union
<1>9. Cardinality(RowsOf(f, X)) \in Nat
  BY FS_CardinalityType
<1> QED
  BY <1>3, <1>7, <1>8, <1>9, FS_EmptySet

-----------------------------------------------------------------------------
(* Types, and what a step of a caller does to its own call.                *)

CallType == [pc : {"idle", "rows", "outcome"}, label : Labels, rows : Nat, error : BOOLEAN]

Typed ==
  /\ nextId \in Nat \ {0}
  /\ table \subseteq 1 .. nextId - 1
  /\ call \in [Callers -> CallType]
  /\ inserted \in Nat /\ deleted \in Nat /\ read \in Nat
  /\ success \in [Labels -> Nat] /\ failure \in [Labels -> Nat]
  /\ astray \in [inserted : Nat, removed : Nat, kept : Nat]
  /\ started \in [Labels -> Nat]

(* A step of caller c leaves the calls of the others where they are.       *)
Others(c) == \A x \in Callers : x # c => call'[x] = call[x]

LEMMA InitTyped == QueriesInit => Typed
  BY DEF QueriesInit, NewMeasures, Idle, Labels, Typed, CallType

LEMMA BeginCall ==
  ASSUME Typed, NEW c \in Callers, NEW label \in Labels, NEW n \in Nat, NEW error \in BOOLEAN,
         Begin(c, label, n, error)
  PROVE  /\ Others(c) /\ call' \in [Callers -> CallType]
         /\ call[c].pc = "idle"
         /\ call'[c].pc = "rows" /\ call'[c].label = label /\ call'[c].rows = n
         /\ started' = [started EXCEPT ![label] = @ + 1]
         /\ UNCHANGED <<connectionVars, inserted, deleted, read, success, failure>>
<1>1. call' = [call EXCEPT ![c] = [pc |-> "rows", label |-> label, rows |-> n, error |-> error]]
  BY DEF Begin
<1> QED
  BY <1>1 DEF Begin, rowMetrics, queryMetrics, Typed, CallType, Others

LEMMA CountCall ==
  ASSUME Typed, NEW c \in Callers, CountRows(c)
  PROVE  /\ Others(c) /\ call' \in [Callers -> CallType]
         /\ call[c].pc = "rows"
         /\ call'[c].pc = "outcome" /\ call'[c].label = call[c].label
<1>1. call' = [call EXCEPT ![c].pc = "outcome"]
  BY DEF CountRows
<1> QED
  BY <1>1 DEF CountRows, Typed, CallType, Others

LEMMA EndCall ==
  ASSUME Typed, NEW c \in Callers, CountFailure(c) \/ CountSuccess(c)
  PROVE  /\ Others(c) /\ call' \in [Callers -> CallType]
         /\ call[c].pc = "outcome" /\ call'[c].pc = "idle"
<1>1. call' = [call EXCEPT ![c] = Idle]
  BY DEF CountFailure, CountSuccess
<1> QED
  BY <1>1 DEF CountFailure, CountSuccess, Idle, Labels, Typed, CallType, Others

(* A statement touches rows of a finite table.                             *)
LEMMA TableFinite ==
  ASSUME Typed
  PROVE  /\ IsFiniteSet(table) /\ Cardinality(table) \in Nat
         /\ \A ids : IsFiniteSet(ids \cap table) /\ Cardinality(ids \cap table) \in Nat
<1>1. IsFiniteSet(1 .. nextId - 1)
  BY FS_Interval DEF Typed
<1>2. IsFiniteSet(table)
  BY <1>1, FS_Subset DEF Typed
<1>3. ASSUME NEW ids PROVE IsFiniteSet(ids \cap table)
  BY <1>2, FS_Subset
<1> QED
  BY <1>2, <1>3, FS_CardinalityType

(* What an insertion does, by its answer.                                  *)
LEMMA InsertCall ==
  ASSUME Typed, NEW c \in Callers, NEW n \in Sizes, NEW answer \in Answers,
         InsertRecords(c, n, answer)
  PROVE  /\ n \in Nat
         /\ answer \in {"ok", "lost", "failed"}
         /\ Begin(c, "insert", IF answer = "ok" THEN n ELSE 0, answer # "ok")
         /\ answer \in {"ok", "lost"} =>
              table' = table \cup (nextId .. nextId + n - 1) /\ nextId' = nextId + n
         /\ answer = "failed" => UNCHANGED <<table, nextId>>
         /\ astray' = [astray EXCEPT !.inserted = @ + IF answer = "lost" THEN n ELSE 0]
  BY QueriesAssumption DEF InsertRecords, Answers, TakesEffect, Reports

(* What a deletion does, by its answer.                                    *)
LEMMA RemoveCall ==
  ASSUME Typed, NEW c \in Callers, NEW ids, NEW answer \in Answers, Remove(c, ids, answer)
  PROVE  /\ Begin(c, "delete",
                  IF answer \in {"ok", "uncommitted"} THEN Cardinality(ids \cap table) ELSE 0,
                  answer # "ok")
         /\ table' = IF answer \in {"ok", "lost"} THEN table \ ids ELSE table
         /\ nextId' = nextId
  BY DEF Remove, Answers, TakesEffect, Reports

LEMMA RemoveStrays ==
  ASSUME Typed, NEW c \in Callers, NEW ids, NEW answer \in Answers, Remove(c, ids, answer)
  PROVE  /\ astray' \in [inserted : Nat, removed : Nat, kept : Nat]
         /\ astray'.inserted = astray.inserted
         /\ astray'.removed =
              astray.removed + IF answer = "lost" THEN Cardinality(ids \cap table) ELSE 0
         /\ astray'.kept =
              astray.kept + IF answer = "uncommitted" THEN Cardinality(ids \cap table) ELSE 0
<1> DEFINE lost == IF answer = "lost" THEN Cardinality(ids \cap table) ELSE 0
           kept == IF answer = "uncommitted" THEN Cardinality(ids \cap table) ELSE 0
<1>1. lost \in Nat /\ kept \in Nat
  BY TableFinite
<1>2. astray' = [astray EXCEPT !.removed = @ + lost, !.kept = @ + kept]
  BY DEF Remove
<1> HIDE DEF lost, kept
<1>3. /\ astray \in [inserted : Nat, removed : Nat, kept : Nat]
      /\ astray.removed + lost \in Nat /\ astray.kept + kept \in Nat
  BY <1>1 DEF Typed
<1>4. astray' = [[astray EXCEPT !.removed = @ + lost] EXCEPT !.kept = @ + kept]
  BY <1>2, <1>3
<1>5. /\ astray' \in [inserted : Nat, removed : Nat, kept : Nat]
      /\ astray'.inserted = astray.inserted
      /\ astray'.removed = astray.removed + lost
      /\ astray'.kept = astray.kept + kept
  BY <1>3, <1>4
<1> QED
  BY <1>5 DEF lost, kept

(* A query begins a call that counts no row of the table.                  *)
LEMMA QueryCall ==
  ASSUME Typed, NEW c \in Callers, NEW error \in BOOLEAN, Query(c, error)
  PROVE  /\ \E label \in Labels \ {"insert", "delete"} : \E n \in Nat : Begin(c, label, n, error)
         /\ UNCHANGED <<table, nextId, astray>>
<1>1. ASSUME NEW limit \in Limits, Find(c, limit, error)
      PROVE  /\ \E n \in Nat : Begin(c, "read", n, error)
             /\ UNCHANGED <<table, nextId, astray>>
  <2>1. PICK found \in SUBSET table :
          Begin(c, "read", IF error THEN 0 ELSE Cardinality(found), error)
    BY <1>1 DEF Find
  <2>2. Cardinality(found) \in Nat
    BY TableFinite, FS_Subset, FS_CardinalityType
  <2> QED
    BY <1>1, <2>1, <2>2 DEF Find
<1>2. CASE \E limit \in Limits : Find(c, limit, error)
  BY <1>1, <1>2 DEF Labels
<1>3. CASE \E label \in {"read", "blacklistRead", "ping"} : Ask(c, label, error)
  BY <1>3 DEF Ask, Labels
<1> QED
  BY <1>2, <1>3 DEF Query, GetRecords, GetRecordsOfType, GetRecordsToDelete, GetDeviceList,
                    GetBlacklist, Ping

LEMMA ChangeCall ==
  ASSUME NEW c \in Callers, NEW answer \in Answers, Change(c, answer)
  PROVE  \/ \E n \in Sizes : InsertRecords(c, n, answer)
         \/ \E ids : Remove(c, ids, answer)
  BY DEF Change, DeleteRecord, RemoveAll

LEMMA NextTyped == Typed /\ [QueriesNext]_queriesVars => Typed'
<1> SUFFICES ASSUME Typed, [QueriesNext]_queriesVars PROVE Typed'
  OBVIOUS
<1>1. CASE UNCHANGED dbVars
  BY <1>1 DEF dbVars, rowMetrics, queryMetrics, Typed
<1>2. ASSUME NEW c \in Callers, NEW label \in Labels, NEW n \in Nat, NEW error \in BOOLEAN,
             Begin(c, label, n, error),
             nextId' \in Nat \ {0}, table' \subseteq 1 .. nextId' - 1,
             astray' \in [inserted : Nat, removed : Nat, kept : Nat]
      PROVE  Typed'
  <2>1. started' \in [Labels -> Nat]
    BY <1>2, BeginCall DEF Typed
  <2>2. /\ call' \in [Callers -> CallType]
        /\ UNCHANGED <<inserted, deleted, read, success, failure>>
    BY <1>2, BeginCall
  <2> QED
    BY <1>2, <2>1, <2>2 DEF Typed
<1>3. ASSUME NEW c \in Callers, NEW n \in Sizes, NEW answer \in Answers,
             InsertRecords(c, n, answer)
      PROVE  Typed'
  <2>1. nextId' \in Nat \ {0} /\ table' \subseteq 1 .. nextId' - 1
    BY <1>3, InsertCall DEF Typed
  <2>2. astray' \in [inserted : Nat, removed : Nat, kept : Nat]
    BY <1>3, InsertCall DEF Typed
  <2>3. (IF answer = "ok" THEN n ELSE 0) \in Nat /\ "insert" \in Labels
    BY <1>3, InsertCall DEF Labels
  <2> QED
    BY <1>2, <1>3, <2>1, <2>2, <2>3, InsertCall
<1>4. ASSUME NEW c \in Callers, NEW ids, NEW answer \in Answers, Remove(c, ids, answer)
      PROVE  Typed'
  <2>1. nextId' \in Nat \ {0} /\ table' \subseteq 1 .. nextId' - 1
    BY <1>4, RemoveCall DEF Typed
  <2>2. astray' \in [inserted : Nat, removed : Nat, kept : Nat]
    BY <1>4, RemoveStrays
  <2>3. /\ (IF answer \in {"ok", "uncommitted"} THEN Cardinality(ids \cap table) ELSE 0) \in Nat
        /\ "delete" \in Labels
    BY TableFinite DEF Labels
  <2> QED
    BY <1>2, <1>4, <2>1, <2>2, <2>3, RemoveCall
<1>5. ASSUME NEW c \in Callers, NEW error \in BOOLEAN, Query(c, error) PROVE Typed'
  BY <1>2, <1>5, QueryCall DEF Typed
<1>6. ASSUME NEW c \in Callers, CountRows(c) PROVE Typed'
  <2>1. call[c].rows \in Nat
    BY DEF Typed, CallType
  <2>2. inserted' \in Nat /\ deleted' \in Nat /\ read' \in Nat
    BY <1>6, <2>1 DEF CountRows, Typed
  <2> QED
    BY <1>6, <2>2, CountCall DEF CountRows, queryMetrics, Typed
<1>7. ASSUME NEW c \in Callers, CountFailure(c) \/ CountSuccess(c) PROVE Typed'
  <2>1. call[c].label \in Labels
    BY DEF Typed, CallType
  <2>2. success' \in [Labels -> Nat] /\ failure' \in [Labels -> Nat]
    BY <1>7, <2>1 DEF CountFailure, CountSuccess, Typed
  <2>3. UNCHANGED <<nextId, table, inserted, deleted, read, astray, started>>
    BY <1>7 DEF CountFailure, CountSuccess, rowMetrics
  <2> QED
    BY <1>7, <2>2, <2>3, EndCall DEF Typed
<1>8. CASE QueriesTerminated \/ UNCHANGED queriesVars
  BY <1>1, <1>8 DEF QueriesTerminated, queriesVars
<1> QED
  BY <1>1, <1>3, <1>4, <1>5, <1>6, <1>7, <1>8, ChangeCall DEF QueriesNext, Operation

-----------------------------------------------------------------------------
(* The successes and failures of each label. *)

(* Every operation either begins a call or goes on with one.               *)
LEMMA ChangeBegins ==
  ASSUME Typed, NEW c \in Callers, NEW answer \in Answers, Change(c, answer)
  PROVE  \E label \in Labels : \E n \in Nat : Begin(c, label, n, answer # "ok")
<1>1. ASSUME NEW n \in Sizes, InsertRecords(c, n, answer)
      PROVE  \E m \in Nat : Begin(c, "insert", m, answer # "ok")
  <2>1. (IF answer = "ok" THEN n ELSE 0) \in Nat
    BY <1>1, InsertCall
  <2> QED
    BY <1>1, <2>1, InsertCall
<1>2. ASSUME NEW ids, Remove(c, ids, answer)
      PROVE  \E m \in Nat : Begin(c, "delete", m, answer # "ok")
  <2>1. (IF answer \in {"ok", "uncommitted"} THEN Cardinality(ids \cap table) ELSE 0) \in Nat
    BY TableFinite
  <2> QED
    BY <1>2, <2>1, RemoveCall
<1> QED
  BY <1>1, <1>2, ChangeCall DEF Labels

LEMMA UnderwayChanges ==
  ASSUME NEW c \in Callers, Others(c), NEW l
  PROVE  LET was == call[c].pc # "idle" /\ call[c].label = l
             is  == call'[c].pc # "idle" /\ call'[c].label = l
         IN  /\ Cardinality(Underway(l)) \in Nat
             /\ (was <=> is) => Cardinality(Underway(l)') = Cardinality(Underway(l))
             /\ ~was /\ is => Cardinality(Underway(l)') = Cardinality(Underway(l)) + 1
             /\ was /\ ~is => Cardinality(Underway(l)') = Cardinality(Underway(l)) - 1
<1>1. Underway(l) \subseteq Callers /\ Underway(l)' \subseteq Callers
  BY DEF Underway
<1>2. /\ c \in Underway(l) <=> call[c].pc # "idle" /\ call[c].label = l
      /\ c \in Underway(l)' <=> call'[c].pc # "idle" /\ call'[c].label = l
      /\ \A x \in Callers : x # c => (x \in Underway(l) <=> x \in Underway(l)')
  BY DEF Underway, Others
<1> QED
  BY <1>1, <1>2, OneCaller

(* One label's share of EveryCallCounted. *)
CountedFor(l) == success[l] + failure[l] = started[l] - Cardinality(Underway(l))

LEMMA NextCounted == Typed /\ EveryCallCounted /\ [QueriesNext]_queriesVars => EveryCallCounted'
<1> SUFFICES ASSUME Typed, EveryCallCounted, [QueriesNext]_queriesVars, NEW l \in Labels
             PROVE  CountedFor(l)'
  BY DEF EveryCallCounted, CountedFor
<1>0. /\ CountedFor(l)
      /\ started[l] \in Nat /\ success[l] \in Nat /\ failure[l] \in Nat
      /\ Cardinality(Underway(l)) \in Nat
  <2>1. Underway(l) \subseteq Callers
    BY DEF Underway
  <2> QED
    BY <2>1, QueriesAssumption, FS_Subset, FS_CardinalityType
    DEF EveryCallCounted, CountedFor, Typed
<1>1. CASE UNCHANGED dbVars
  BY <1>0, <1>1 DEF dbVars, queryMetrics, CountedFor, Underway
<1>2. ASSUME NEW c \in Callers, NEW label \in Labels, NEW n \in Nat, NEW error \in BOOLEAN,
             Begin(c, label, n, error)
      PROVE  CountedFor(l)'
  <2>0. started' = [started EXCEPT ![label] = @ + 1]
    BY <1>2 DEF Begin
  <2>1. /\ Others(c) /\ call[c].pc = "idle"
        /\ call'[c].pc = "rows" /\ call'[c].label = label
        /\ UNCHANGED <<success, failure>>
    BY <1>2, BeginCall
  <2>2. CASE label = l
    <3>1. started'[l] = started[l] + 1
      BY <2>0, <2>2 DEF Typed
    <3>2. Cardinality(Underway(l)') = Cardinality(Underway(l)) + 1
      BY <2>1, <2>2, UnderwayChanges
    <3> QED
      BY <1>0, <2>1, <3>1, <3>2 DEF CountedFor
  <2>3. CASE label # l
    <3>1. started'[l] = started[l]
      BY <2>0, <2>3 DEF Typed
    <3>2. Cardinality(Underway(l)') = Cardinality(Underway(l))
      BY <2>1, <2>3, UnderwayChanges
    <3> QED
      BY <1>0, <2>1, <3>1, <3>2 DEF CountedFor
  <2> QED
    BY <2>2, <2>3
<1>3. ASSUME NEW c \in Callers, NEW answer \in Answers, Change(c, answer) PROVE CountedFor(l)'
  BY <1>2, <1>3, ChangeBegins
<1>4. ASSUME NEW c \in Callers, NEW error \in BOOLEAN, Query(c, error) PROVE CountedFor(l)'
  BY <1>2, <1>4, QueryCall
<1>5. ASSUME NEW c \in Callers, CountRows(c) PROVE CountedFor(l)'
  <2>1. UNCHANGED <<started, success, failure>>
    BY <1>5 DEF CountRows, queryMetrics
  <2>2. Cardinality(Underway(l)') = Cardinality(Underway(l))
    BY <1>5, CountCall, UnderwayChanges
  <2> QED
    BY <1>0, <2>1, <2>2 DEF CountedFor
<1>6. ASSUME NEW c \in Callers, CountFailure(c) \/ CountSuccess(c) PROVE CountedFor(l)'
  <2>1. Others(c) /\ call[c].pc = "outcome" /\ call'[c].pc = "idle" /\ started' = started
    BY <1>6, EndCall DEF CountFailure, CountSuccess
  <2>2. CASE call[c].label = l
    <3>1. success'[l] + failure'[l] = success[l] + failure[l] + 1
      BY <1>0, <1>6, <2>2 DEF CountFailure, CountSuccess, Typed
    <3>2. Cardinality(Underway(l)') = Cardinality(Underway(l)) - 1
      BY <2>1, <2>2, UnderwayChanges
    <3> QED
      BY <1>0, <2>1, <3>1, <3>2 DEF CountedFor
  <2>3. CASE call[c].label # l
    <3>1. success'[l] = success[l] /\ failure'[l] = failure[l]
      BY <1>6, <2>3 DEF CountFailure, CountSuccess, Typed
    <3>2. Cardinality(Underway(l)') = Cardinality(Underway(l))
      BY <2>1, <2>3, UnderwayChanges
    <3> QED
      BY <1>0, <2>1, <3>1, <3>2 DEF CountedFor
  <2> QED
    BY <2>2, <2>3
<1>7. CASE QueriesTerminated \/ UNCHANGED queriesVars
  BY <1>1, <1>7 DEF QueriesTerminated, queriesVars
<1> QED
  BY <1>1, <1>3, <1>4, <1>5, <1>6, <1>7 DEF QueriesNext, Operation

-----------------------------------------------------------------------------
(* The rows in the table. *)

(* Caller c has rows to count that it inserted, or that it deleted.        *)
HasRows(c, label) == call[c].pc = "rows" /\ call[c].label = label

RowsInv ==
  /\ IsFiniteSet(Uncounted("insert")) /\ IsFiniteSet(Uncounted("delete"))
  /\ RowMetricsMatchTable

LEMMA UncountedChanges ==
  ASSUME Typed, NEW c \in Callers, Others(c), call' \in [Callers -> CallType],
         NEW label, IsFiniteSet(Uncounted(label))
  PROVE  /\ IsFiniteSet(Uncounted(label)') /\ Cardinality(Uncounted(label)) \in Nat
         /\ Cardinality(Uncounted(label)') =
              Cardinality(Uncounted(label)) - (IF HasRows(c, label) THEN call[c].rows ELSE 0)
                + (IF HasRows(c, label)' THEN call'[c].rows ELSE 0)
<1> DEFINE X == {x \in Callers : call[x].pc = "rows" /\ call[x].label = label}
<1>1. (c \in X <=> HasRows(c, label)) /\ (c \in X' <=> HasRows(c, label)')
  BY DEF HasRows
<1>2. /\ \A x : x # c => (x \in X <=> x \in X')
      /\ \A x \in X : x # c => call'[x].rows = call[x].rows
  BY DEF Others
<1>3. call[c].rows \in Nat /\ call'[c].rows \in Nat
  BY DEF Typed, CallType
<1>4. Uncounted(label) = RowsOf(call, X) /\ Uncounted(label)' = RowsOf(call', X')
  BY DEF Uncounted, RowsOf
<1> HIDE DEF X
<1>5. IsFiniteSet(RowsOf(call, X))
  BY <1>4
<1>6. /\ IsFiniteSet(RowsOf(call', X')) /\ Cardinality(RowsOf(call, X)) \in Nat
      /\ Cardinality(RowsOf(call', X')) =
           Cardinality(RowsOf(call, X)) - (IF c \in X THEN call[c].rows ELSE 0)
                                        + (IF c \in X' THEN call'[c].rows ELSE 0)
  <2>1. DifferIn(c, call, X, call', X')
    BY <1>2, <1>3 DEF DifferIn
  <2> QED
    BY <1>5, <2>1, RowsChange
<1> QED
  BY <1>1, <1>4, <1>6

(* The rows in the table change by d as the counts on either side do.      *)
LEMMA RowsStep ==
  ASSUME Typed, Typed', RowsInv, NEW c \in Callers, Others(c), NEW d \in Int,
         Cardinality(table') = Cardinality(table) + d,
         (inserted' + Cardinality(Uncounted("insert")') + astray'.inserted)
           - (deleted' + Cardinality(Uncounted("delete")') + astray'.removed - astray'.kept) =
         (inserted + Cardinality(Uncounted("insert")) + astray.inserted)
           - (deleted + Cardinality(Uncounted("delete")) + astray.removed - astray.kept) + d
  PROVE  RowsInv'
<1>1. call' \in [Callers -> CallType]
  BY DEF Typed
<1>2. IsFiniteSet(Uncounted("insert")') /\ IsFiniteSet(Uncounted("delete")')
  BY <1>1, UncountedChanges DEF RowsInv
<1> QED
  BY <1>2 DEF RowsInv, RowMetricsMatchTable

LEMMA Numbers ==
  ASSUME Typed, RowsInv
  PROVE  /\ inserted \in Nat /\ deleted \in Nat /\ read \in Nat
         /\ astray.inserted \in Nat /\ astray.removed \in Nat /\ astray.kept \in Nat
         /\ Cardinality(table) \in Nat
         /\ Cardinality(Uncounted("insert")) \in Nat /\ Cardinality(Uncounted("delete")) \in Nat
         /\ \A c \in Callers : call[c].rows \in Nat
  BY TableFinite, FS_CardinalityType DEF Typed, CallType, RowsInv

LEMMA NextRows == Typed /\ RowsInv /\ [QueriesNext]_queriesVars => RowsInv'
<1> SUFFICES ASSUME Typed, RowsInv, [QueriesNext]_queriesVars PROVE RowsInv'
  OBVIOUS
<1>0. Typed'
  BY NextTyped
<1>1. CASE UNCHANGED dbVars
  BY <1>1 DEF dbVars, rowMetrics, RowsInv, RowMetricsMatchTable, Uncounted, RowsOf
<1>2. ASSUME NEW c \in Callers, NEW n \in Sizes, NEW answer \in Answers,
             InsertRecords(c, n, answer)
      PROVE  RowsInv'
  <2> DEFINE k == IF answer = "ok" THEN n ELSE 0
             d == IF answer \in {"ok", "lost"} THEN n ELSE 0
  <2>1. k \in Nat /\ d \in Nat /\ n \in Nat /\ answer \in {"ok", "lost", "failed"}
    BY <1>2, InsertCall
  <2>2. /\ Others(c) /\ call' \in [Callers -> CallType] /\ call[c].pc = "idle"
        /\ call'[c].pc = "rows" /\ call'[c].label = "insert" /\ call'[c].rows = k
        /\ UNCHANGED <<inserted, deleted>>
    BY <1>2, <2>1, InsertCall, BeginCall DEF Labels
  <2>3. astray'.inserted = astray.inserted + (d - k)
        /\ astray'.removed = astray.removed /\ astray'.kept = astray.kept
    BY <1>2, <2>1, InsertCall DEF Typed
  <2>4. /\ Cardinality(Uncounted("insert")') = Cardinality(Uncounted("insert")) + k
        /\ Cardinality(Uncounted("delete")') = Cardinality(Uncounted("delete"))
    BY <2>1, <2>2, UncountedChanges DEF HasRows, RowsInv
  <2>5. Cardinality(table') = Cardinality(table) + d
    <3> DEFINE new == nextId .. nextId + n - 1
    <3>1. IsFiniteSet(new) /\ Cardinality(new) = n
      <4>1. /\ nextId \in Int /\ nextId + n - 1 \in Int
            /\ (IF nextId > nextId + n - 1 THEN 0 ELSE (nextId + n - 1) - nextId + 1) = n
        BY <2>1 DEF Typed
      <4> QED
        BY <4>1, FS_Interval
    <3>2. table \cap new = {}
      BY <2>1 DEF Typed
    <3> HIDE DEF new
    <3>3. Cardinality(table \cup new) = Cardinality(table) + n - Cardinality({})
      BY <3>1, <3>2, TableFinite, FS_Union
    <3>4. Cardinality(table \cup new) = Cardinality(table) + n
      BY <2>1, <3>3, TableFinite, FS_EmptySet
    <3>5. answer \in {"ok", "lost"} => table' = table \cup new
      BY <1>2, InsertCall DEF new
    <3>6. answer = "failed" => table' = table
      BY <1>2, InsertCall
    <3>7. Cardinality(table) \in Nat
      BY TableFinite
    <3>8. CASE answer = "failed"
      <4>1. d = 0
        BY <3>8
      <4> QED
        BY <3>6, <3>7, <3>8, <4>1
    <3>9. CASE answer # "failed"
      <4>1. answer \in {"ok", "lost"} /\ d = n
        BY <2>1, <3>9
      <4> HIDE DEF d
      <4> QED
        BY <3>4, <3>5, <4>1
    <3> QED
      BY <3>8, <3>9
  <2> HIDE DEF k, d
  <2> QED
    BY <1>0, <2>1, <2>2, <2>3, <2>4, <2>5, Numbers, RowsStep
<1>3. ASSUME NEW c \in Callers, NEW ids, NEW answer \in Answers, Remove(c, ids, answer)
      PROVE  RowsInv'
  <2> DEFINE m == Cardinality(ids \cap table)
             k == IF answer \in {"ok", "uncommitted"} THEN m ELSE 0
             lost == IF answer = "lost" THEN m ELSE 0
             kept == IF answer = "uncommitted" THEN m ELSE 0
             d == IF answer \in {"ok", "lost"} THEN m ELSE 0
  <2>1. m \in Nat /\ k \in Nat /\ lost \in Nat /\ kept \in Nat /\ d = k + lost - kept
    BY TableFinite DEF Answers
  <2>2. /\ Others(c) /\ call' \in [Callers -> CallType] /\ call[c].pc = "idle"
        /\ call'[c].pc = "rows" /\ call'[c].label = "delete" /\ call'[c].rows = k
        /\ UNCHANGED <<inserted, deleted>>
    BY <1>3, <2>1, RemoveCall, BeginCall DEF Labels
  <2>3. astray'.inserted = astray.inserted
        /\ astray'.removed = astray.removed + lost /\ astray'.kept = astray.kept + kept
    BY <1>3, RemoveStrays
  <2>4. /\ Cardinality(Uncounted("insert")') = Cardinality(Uncounted("insert"))
        /\ Cardinality(Uncounted("delete")') = Cardinality(Uncounted("delete")) + k
    BY <2>1, <2>2, UncountedChanges DEF HasRows, RowsInv
  <2>5. Cardinality(table') = Cardinality(table) + (0 - d)
    <3>1. Cardinality(table \ ids) = Cardinality(table) - m
      <4>1. table \cap ids = ids \cap table
        OBVIOUS
      <4> QED
        BY <4>1, TableFinite, FS_Difference
    <3>2. table' = IF answer \in {"ok", "lost"} THEN table \ ids ELSE table
      BY <1>3, RemoveCall
    <3>3. CASE answer \in {"ok", "lost"}
      BY <2>1, <3>1, <3>2, <3>3, TableFinite
    <3>4. CASE answer \notin {"ok", "lost"}
      BY <2>1, <3>2, <3>4, TableFinite
    <3> QED
      BY <3>3, <3>4
  <2>6. 0 - d \in Int
    BY <2>1
  <2> HIDE DEF m, k, lost, kept, d
  <2> QED
    BY <1>0, <2>1, <2>2, <2>3, <2>4, <2>5, <2>6, Numbers, RowsStep
<1>4. ASSUME NEW c \in Callers, NEW error \in BOOLEAN, Query(c, error) PROVE RowsInv'
  <2>1. PICK label \in Labels \ {"insert", "delete"} : \E n \in Nat : Begin(c, label, n, error)
    BY <1>4, QueryCall
  <2>2. /\ Others(c) /\ call' \in [Callers -> CallType] /\ call[c].pc = "idle"
        /\ call'[c].pc = "rows" /\ call'[c].label = label
        /\ UNCHANGED <<inserted, deleted>>
    BY <2>1, BeginCall
  <2>3. UNCHANGED <<table, astray>>
    BY <1>4, QueryCall
  <2>4. /\ Cardinality(Uncounted("insert")') = Cardinality(Uncounted("insert"))
        /\ Cardinality(Uncounted("delete")') = Cardinality(Uncounted("delete"))
    BY <2>2, UncountedChanges DEF HasRows, RowsInv
  <2>5. Cardinality(table') = Cardinality(table) + 0
    BY <2>3, Numbers
  <2> QED
    BY <1>0, <2>2, <2>3, <2>4, <2>5, Numbers, RowsStep
<1>5. ASSUME NEW c \in Callers, CountRows(c) PROVE RowsInv'
  <2> DEFINE i == IF HasRows(c, "insert") THEN call[c].rows ELSE 0
             r == IF HasRows(c, "delete") THEN call[c].rows ELSE 0
  <2>1. i \in Nat /\ r \in Nat
    BY Numbers
  <2>2. inserted' = inserted + i /\ deleted' = deleted + r /\ UNCHANGED <<table, astray>>
    BY <1>5 DEF CountRows, HasRows
  <2>3. Others(c) /\ call' \in [Callers -> CallType] /\ call'[c].pc = "outcome"
    BY <1>5, CountCall
  <2>4. /\ Cardinality(Uncounted("insert")') = Cardinality(Uncounted("insert")) - i
        /\ Cardinality(Uncounted("delete")') = Cardinality(Uncounted("delete")) - r
    BY <2>1, <2>3, Numbers, UncountedChanges DEF HasRows, RowsInv
  <2>5. Cardinality(table') = Cardinality(table) + 0
    BY <2>2, Numbers
  <2> HIDE DEF i, r
  <2> QED
    BY <1>0, <2>1, <2>2, <2>3, <2>4, <2>5, Numbers, RowsStep
<1>6. ASSUME NEW c \in Callers, CountFailure(c) \/ CountSuccess(c) PROVE RowsInv'
  <2>1. UNCHANGED <<table, astray, inserted, deleted>>
    BY <1>6 DEF CountFailure, CountSuccess, rowMetrics
  <2>2. /\ Others(c) /\ call' \in [Callers -> CallType]
        /\ call[c].pc = "outcome" /\ call'[c].pc = "idle"
    BY <1>6, EndCall
  <2>3. /\ Cardinality(Uncounted("insert")') = Cardinality(Uncounted("insert"))
        /\ Cardinality(Uncounted("delete")') = Cardinality(Uncounted("delete"))
    BY <2>2, UncountedChanges DEF HasRows, RowsInv
  <2>4. Cardinality(table') = Cardinality(table) + 0
    BY <2>1, Numbers
  <2> QED
    BY <1>0, <2>1, <2>2, <2>3, <2>4, Numbers, RowsStep
<1>7. CASE QueriesTerminated \/ UNCHANGED queriesVars
  BY <1>1, <1>7 DEF QueriesTerminated, queriesVars
<1> QED
  BY <1>1, <1>2, <1>3, <1>4, <1>5, <1>6, <1>7, ChangeCall DEF QueriesNext, Operation

-----------------------------------------------------------------------------
(* The theorems about the operations. *)

QueriesInv == Typed /\ EveryCallCounted /\ RowsInv

LEMMA InitQueries == QueriesInit => QueriesInv
<1> SUFFICES ASSUME QueriesInit PROVE QueriesInv
  OBVIOUS
<1>1. Typed
  BY InitTyped
<1>2. /\ table = {} /\ call = [c \in Callers |-> Idle] /\ NewMeasures
      /\ astray = [inserted |-> 0, removed |-> 0, kept |-> 0]
      /\ started = [l \in Labels |-> 0]
  BY DEF QueriesInit
<1>3. \A l \in Labels : Underway(l) = {} /\ Uncounted(l) = {}
  BY <1>2 DEF Underway, Uncounted, RowsOf, Idle
<1>4. Cardinality({}) = 0 /\ IsFiniteSet({})
  BY FS_EmptySet
<1>5. EveryCallCounted
  BY <1>2, <1>3, <1>4 DEF EveryCallCounted, NewMeasures
<1>6. Uncounted("insert") = {} /\ Uncounted("delete") = {}
  BY <1>3 DEF Labels
<1>7. RowsInv
  BY <1>2, <1>4, <1>6 DEF RowsInv, RowMetricsMatchTable, NewMeasures
<1> QED
  BY <1>1, <1>5, <1>7 DEF QueriesInv

(* The inductive invariant of the operations.                              *)
THEOREM QueriesInductive == QueriesSpec => []QueriesInv
<1>1. QueriesInit => QueriesInv
  BY InitQueries
<1>2. QueriesInv /\ [QueriesNext]_queriesVars => QueriesInv'
  BY NextTyped, NextCounted, NextRows DEF QueriesInv
<1> QED
  BY <1>1, <1>2, PTL DEF QueriesSpec

(* However the statements of any callers interleave, and whichever of them *)
(* fail or lose their answers, the rows in the table are those counted as  *)
(* inserted less those counted as deleted, up to the calls under way and   *)
(* the answers that were not true.                                         *)
THEOREM RowsCounted == QueriesSpec => []RowMetricsMatchTable
<1>1. QueriesInv => RowMetricsMatchTable
  BY DEF QueriesInv, RowsInv
<1> QED
  BY <1>1, QueriesInductive, PTL

(* Every call is counted as one success or one failure under its label, by *)
(* the time it returns, on a pool that is open or closed.                  *)
THEOREM CallsCounted == QueriesSpec => []EveryCallCounted
<1>1. QueriesInv => EveryCallCounted
  BY DEF QueriesInv
<1> QED
  BY <1>1, QueriesInductive, PTL

(* The promises of the connection hold while any callers use it.           *)
THEOREM ClosedUnderQueries == QueriesSpec => []ClosedStaysClosed
  BY QueriesKeepConnection, CloseIsFinal, PTL
=============================================================================
