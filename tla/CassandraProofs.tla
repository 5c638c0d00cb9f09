-------------------------- MODULE CassandraProofs --------------------------
(***************************************************************************)
(* Proofs about CassandraConnection, for every set of callers, all batch   *)
(* sizes and every configuration: what the metrics account for.            *)
(***************************************************************************)
EXTENDS CassandraConnection, FiniteSetTheorems, TLAPS

USE DEF Back, Added, Label

Places == {"idle", "session", "timing", "leaving", "rows", "outcome"}

CallType ==
  [pc : Places, op : Operations, size : Nat, rows : Nat, error : BOOLEAN]

CallsTyped ==
  /\ call \in [Callers -> CallType]
  /\ \A c \in Callers : call[c].pc = "idle" => call[c] = Idle
  /\ \A c \in Callers : call[c].pc = "session" => ~call[c].error

(* An upsert writes a record and may add no row.                           *)
TableTyped == stored \in Nat /\ written \in Nat /\ stored <= written

USE DEF TableTyped, table

Typed ==
  /\ CallsTyped
  /\ TableTyped
  /\ started \in [Labels -> Nat]
  /\ delivered \in Nat
  /\ PoolInUseConnections \in Int
  /\ SQLDuration \in [Labels -> Nat]
  /\ SQLQuerySuccessCount \in [Labels -> Nat]
  /\ SQLQueryFailureCount \in [Labels -> Nat]
  /\ SQLInsertedRecords \in Nat
  /\ SQLReadRecords \in Nat

(* A step of caller c leaves the operations of the others where they are.  *)
Others(c) == \A x \in Callers : x # c => call'[x] = call[x]

LEMMA LabelsOfOperations ==
  /\ Operations = {"GetRecords", "GetRecordsOfType", "GetDeviceList", "GetBlacklist",
                   "InsertRecords", "Ping"}
  /\ \A op \in Operations : TypeLabel[op] \in Labels
  /\ \A op \in Operations : TypeLabel[op] = "insert" <=> op = "InsertRecords"
  /\ "insert" \in Labels
  /\ CountsRows \subseteq Operations \ {"InsertRecords"}
<1>1. Operations = {"GetRecords", "GetRecordsOfType", "GetDeviceList", "GetBlacklist",
                    "InsertRecords", "Ping"}
  BY DEF Operations, TypeLabel
<1>2. \A op \in Operations : TypeLabel[op] \in Labels
  BY DEF Labels
<1>3. \A op \in Operations : TypeLabel[op] = "insert" <=> op = "InsertRecords"
  BY <1>1 DEF TypeLabel
<1>4. "insert" \in Labels
  BY <1>1, <1>2, <1>3
<1> QED
  BY <1>1, <1>2, <1>3, <1>4 DEF CountsRows

-----------------------------------------------------------------------------
(* Counting callers, and the rows of their answers. *)

(* Two sets of callers that differ at most in c.                           *)
LEMMA OneCaller ==
  ASSUME NEW X \in SUBSET Callers, NEW Y \in SUBSET Callers, NEW c,
         \A x \in Callers : x # c => (x \in X <=> x \in Y)
  PROVE  /\ Cardinality(X) \in Nat /\ Cardinality(Y) \in Nat
         /\ (c \in X <=> c \in Y) => Cardinality(Y) = Cardinality(X)
         /\ c \notin X /\ c \in Y => Cardinality(Y) = Cardinality(X) + 1
         /\ c \in X /\ c \notin Y => Cardinality(Y) = Cardinality(X) - 1
<1>1. IsFiniteSet(X) /\ IsFiniteSet(Y)
  BY ConstantsAssumption, FS_Subset
<1>2. Cardinality(X) \in Nat /\ Cardinality(Y) \in Nat
  BY <1>1, FS_CardinalityType
<1>3. CASE c \in X <=> c \in Y
  <2>1. X = Y
    BY <1>3
  <2> QED
    BY <1>2, <1>3, <2>1
<1>4. CASE c \notin X /\ c \in Y
  <2>1. Y = X \cup {c}
    BY <1>4
  <2> QED
    BY <1>1, <1>2, <1>4, <2>1, FS_AddElement
<1>5. CASE c \in X /\ c \notin Y
  <2>1. Y = X \ {c}
    BY <1>5
  <2> QED
    BY <1>1, <1>2, <1>5, <2>1, FS_RemoveElement
<1> QED
  BY <1>3, <1>4, <1>5

(* The numbered rows of one answer.                                        *)
LEMMA OneAnswer ==
  ASSUME NEW c, NEW n \in Nat
  PROVE  IsFiniteSet({c} \X (1 .. n)) /\ Cardinality({c} \X (1 .. n)) = n
<1>1. IsFiniteSet({c}) /\ Cardinality({c}) = 1
  BY FS_Singleton
<1>2. IsFiniteSet(1 .. n) /\ Cardinality(1 .. n) = n
  BY FS_Interval
<1>3. /\ IsFiniteSet({c} \X (1 .. n))
      /\ Cardinality({c} \X (1 .. n)) = Cardinality({c}) * Cardinality(1 .. n)
  BY <1>1, <1>2, FS_Product
<1>4. 1 * n = n
  OBVIOUS
<1> QED
  BY <1>1, <1>2, <1>3, <1>4

(* The answers f of the callers in X and g of those in Y differ in that of *)
(* c at most.                                                              *)
DifferIn(c, f, X, g, Y) ==
  /\ f[c].rows \in Nat /\ g[c].rows \in Nat
  /\ \A x : x # c => (x \in X <=> x \in Y)
  /\ \A x \in X : x # c => g[x].rows = f[x].rows

(* The rows of all answers change by those of the one that changes.        *)
LEMMA RowsChange ==
  ASSUME NEW c, NEW f, NEW X, NEW g, NEW Y, DifferIn(c, f, X, g, Y), IsFiniteSet(RowsOf(f, X))
  PROVE  /\ IsFiniteSet(RowsOf(g, Y))
         /\ Cardinality(RowsOf(f, X)) \in Nat
         /\ Cardinality(RowsOf(g, Y)) =
              Cardinality(RowsOf(f, X)) - (IF c \in X THEN f[c].rows ELSE 0)
                                        + (IF c \in Y THEN g[c].rows ELSE 0)
<1> DEFINE old == IF c \in X THEN {c} \X (1 .. f[c].rows) ELSE {}
           new == IF c \in Y THEN {c} \X (1 .. g[c].rows) ELSE {}
           rest == RowsOf(f, X) \ old
<1> USE DEF DifferIn
<1>1. \A p : p \in RowsOf(f, X) <=> \E x \in X : \E i \in 1 .. f[x].rows : p = <<x, i>>
  BY DEF RowsOf
<1>2. \A p : p \in RowsOf(g, Y) <=> \E x \in Y : \E i \in 1 .. g[x].rows : p = <<x, i>>
  BY DEF RowsOf
<1>3. /\ IsFiniteSet(old) /\ Cardinality(old) = IF c \in X THEN f[c].rows ELSE 0
      /\ IsFiniteSet(new) /\ Cardinality(new) = IF c \in Y THEN g[c].rows ELSE 0
  BY OneAnswer, FS_EmptySet
<1>4. RowsOf(f, X) \cap old = old
  BY <1>1
<1>5. rest \cap new = {}
  BY <1>1
<1>6. RowsOf(g, Y) = rest \cup new
  BY <1>1, <1>2
<1> HIDE DEF old, new
<1>7. IsFiniteSet(rest) /\ Cardinality(rest) = Cardinality(RowsOf(f, X)) - Cardinality(old)
  BY <1>4, FS_Difference
<1>8. /\ IsFiniteSet(RowsOf(g, Y))
      /\ Cardinality(RowsOf(g, Y)) = Cardinality(rest) + Cardinality(new) - Cardinality({})
  BY <1>3, <1>5, <1>6, <1>7, FS_Union
<1>9. Cardinality(RowsOf(f, X)) \in Nat
  BY FS_CardinalityType
<1> QED
  BY <1>3, <1>7, <1>8, <1>9, FS_EmptySet

-----------------------------------------------------------------------------
(* Types, and what a step of a caller does to its own operation.           *)

LEMMA InitTyped == Init => Typed
  BY LabelsOfOperations DEF Init, NewMeasures, Zero, Idle, Typed, CallsTyped, CallType, Places

LEMMA OneCallTyped ==
  ASSUME Typed, NEW c \in Callers, Others(c), call' \in [Callers -> CallType],
         call'[c].pc = "idle" => call'[c] = Idle,
         call'[c].pc = "session" => ~call'[c].error
  PROVE  CallsTyped'
  BY DEF Typed, CallsTyped, Others

LEMMA EnterCall ==
  ASSUME Typed, NEW c \in Callers, NEW op \in Operations, NEW size \in Sizes, Enter(c, op, size)
  PROVE  /\ Others(c) /\ CallsTyped'
         /\ call[c].pc = "idle" /\ call[c].op = "Ping" /\ call[c].rows = 0 /\ ~call[c].error
         /\ call'[c].pc = "session" /\ call'[c].op = op /\ call'[c].rows = 0 /\ ~call'[c].error
<1>1. size \in Nat
  BY ConstantsAssumption
<1>2. call' = [call EXCEPT ![c] =
                 [pc |-> "session", op |-> op, size |-> size, rows |-> 0, error |-> FALSE]]
  BY DEF Enter
<1>3. call[c].pc = "idle" /\ call[c] = Idle
  BY DEF Enter, Typed, CallsTyped
<1> QED
  BY <1>1, <1>2, <1>3, OneCallTyped DEF Typed, CallsTyped, CallType, Places, Others, Idle

LEMMA AnsweredCall ==
  ASSUME Typed, NEW c \in Callers, NEW n \in Nat, NEW error \in BOOLEAN, Answered(c, n, error)
  PROVE  /\ Others(c) /\ CallsTyped'
         /\ call'[c].pc = "timing" /\ call'[c].op = call[c].op
         /\ call'[c].rows = n /\ call'[c].error = error
<1>1. call' = [call EXCEPT ![c].pc = "timing", ![c].rows = n, ![c].error = error]
  BY DEF Answered
<1>2. "timing" \in Places
  BY DEF Places
<1>3. call' = [call EXCEPT ![c] = [call[c] EXCEPT !.pc = "timing", !.rows = n, !.error = error]]
  BY <1>1 DEF Typed, CallsTyped, CallType
<1> QED
  BY <1>2, <1>3, OneCallTyped DEF Typed, CallsTyped, CallType, Others

LEMMA MovedCall ==
  ASSUME Typed, NEW c \in Callers, NEW place \in Places \ {"idle", "session"},
         call' = [call EXCEPT ![c].pc = place]
  PROVE  /\ Others(c) /\ CallsTyped'
         /\ call'[c].pc = place /\ call'[c].op = call[c].op
         /\ call'[c].rows = call[c].rows /\ call'[c].error = call[c].error
  BY OneCallTyped DEF Typed, CallsTyped, CallType, Others

LEMMA ReturnedCall ==
  ASSUME Typed, NEW c \in Callers, call' = [call EXCEPT ![c] = Idle]
  PROVE  /\ Others(c) /\ CallsTyped'
         /\ call'[c].pc = "idle" /\ call'[c].op = "Ping" /\ call'[c].rows = 0 /\ ~call'[c].error
  BY LabelsOfOperations, OneCallTyped DEF Typed, CallsTyped, CallType, Places, Idle, Others

(* The steps between the answer and the outcome.                           *)
LEMMA AfterAnswer ==
  ASSUME Typed, NEW c \in Callers, Observe(c) \/ Leave(c) \/ CountRows(c)
  PROVE  /\ Others(c) /\ CallsTyped'
         /\ call'[c].op = call[c].op /\ call'[c].rows = call[c].rows
         /\ call'[c].error = call[c].error
         /\ Observe(c) => call[c].pc = "timing" /\ call'[c].pc = "leaving"
         /\ Leave(c) => call[c].pc = "leaving" /\ call'[c].pc = "rows"
         /\ CountRows(c) => call[c].pc = "rows" /\ call'[c].pc = "outcome"
<1>1. Observe(c) => call[c].pc = "timing" /\ call' = [call EXCEPT ![c].pc = "leaving"]
  BY DEF Observe
<1>2. Leave(c) => call[c].pc = "leaving" /\ call' = [call EXCEPT ![c].pc = "rows"]
  BY DEF Leave
<1>3. CountRows(c) => call[c].pc = "rows" /\ call' = [call EXCEPT ![c].pc = "outcome"]
  BY DEF CountRows
<1> QED
  BY <1>1, <1>2, <1>3, MovedCall DEF Places

(* Insert, Find and Ping end in an answer.                                 *)
LEMMA InsertCall ==
  ASSUME Typed, NEW c \in Callers, NEW error \in BOOLEAN, Insert(c, error)
  PROVE  /\ call[c].pc = "session" /\ call[c].op = "InsertRecords" /\ call[c].size \in Nat
         /\ ~call[c].error
         /\ Answered(c, call[c].size, error)
         /\ \E n \in 0 .. call[c].size : (~error => n = call[c].size) /\ written' = written + n
         /\ TableTyped'
<1>1. call[c].size \in Nat
  BY DEF Typed, CallsTyped, CallType
<1> QED
  BY <1>1 DEF Insert, Typed, CallsTyped

LEMMA FindCall ==
  ASSUME Typed, NEW c \in Callers, NEW error \in BOOLEAN, Find(c, error) \/ Ping(c)
  PROVE  /\ call[c].pc = "session" /\ call[c].op # "InsertRecords" /\ UNCHANGED table
         /\ ~call[c].error
         /\ \E n \in Nat : \E e \in BOOLEAN : Answered(c, n, e)
<1>1. CASE Find(c, error)
  <2>1. PICK n \in 0 .. stored : Answered(c, n, error)
    BY <1>1 DEF Find
  <2>2. n \in Nat
    BY DEF Typed
  <2> QED
    BY <1>1, <2>1, <2>2 DEF Find, Typed, CallsTyped
<1>2. CASE Ping(c)
  <2>1. (connection = "closed") \in BOOLEAN
    OBVIOUS
  <2> QED
    BY <1>2, <2>1 DEF Ping, Typed, CallsTyped
<1> QED
  BY <1>1, <1>2

LEMMA NextTyped == Typed /\ [Next]_vars => Typed'
<1> SUFFICES ASSUME Typed, [Next]_vars PROVE Typed'
  OBVIOUS
<1>1. CASE CreateDbConnection \/ Close \/ Terminated \/ UNCHANGED vars
  BY <1>1 DEF CreateDbConnection, NoHosts, NilHealth, ConnectSucceeds, ConnectFails, Close, Terminated,
              vars, session, calls, timing, outcomes, rows, Typed, CallsTyped
<1>2. ASSUME NEW c \in Callers, NEW op \in Operations, NEW size \in Sizes, Enter(c, op, size)
      PROVE  Typed'
  <2>1. started' \in [Labels -> Nat] /\ PoolInUseConnections' \in Int
    BY <1>2, LabelsOfOperations DEF Enter, Typed
  <2>2. UNCHANGED <<table, delivered, SQLDuration, outcomes, rows>>
    BY <1>2 DEF Enter, session
  <2> QED
    BY <1>2, <2>1, <2>2, EnterCall DEF outcomes, rows, Typed
<1>3. ASSUME NEW c \in Callers, NEW n \in Nat, NEW error \in BOOLEAN, Answered(c, n, error),
             TableTyped'
      PROVE  Typed'
  <2>1. CallsTyped'
    BY <1>3, AnsweredCall
  <2> QED
    BY <1>3, <2>1 DEF Answered, timing, outcomes, rows, Typed
<1>4. ASSUME NEW c \in Callers, NEW error \in BOOLEAN, Insert(c, error) PROVE Typed'
  <2>1. TableTyped'
    BY <1>4, InsertCall
  <2> QED
    BY <1>3, <1>4, <2>1, InsertCall
<1>5. ASSUME NEW c \in Callers, NEW error \in BOOLEAN, Find(c, error) \/ Ping(c) PROVE Typed'
  <2>1. TableTyped'
    BY <1>5, FindCall DEF Typed
  <2> QED
    BY <1>3, <1>5, <2>1, FindCall
<1>6. ASSUME NEW c \in Callers, Observe(c) \/ Leave(c) \/ CountRows(c) PROVE Typed'
  <2>1. CallsTyped'
    BY <1>6, AfterAnswer
  <2>2. PoolInUseConnections' \in Int /\ SQLDuration' \in [Labels -> Nat]
    BY <1>6 DEF Observe, Leave, CountRows, timing, Typed
  <2>3. call[c].rows \in Nat
    BY DEF Typed, CallsTyped, CallType
  <2>4. SQLInsertedRecords' \in Nat /\ SQLReadRecords' \in Nat
    BY <1>6, <2>3 DEF Observe, Leave, CountRows, rows, Typed
  <2>5. UNCHANGED <<table, started, delivered, outcomes>>
    BY <1>6 DEF Observe, Leave, CountRows, session
  <2> QED
    BY <2>1, <2>2, <2>4, <2>5 DEF outcomes, Typed
<1>7. ASSUME NEW c \in Callers, Fail(c) \/ Succeed(c) PROVE Typed'
  <2>1. CallsTyped'
    BY <1>7, ReturnedCall DEF Fail, Succeed
  <2>2. call[c].rows \in Nat /\ TypeLabel[call[c].op] \in Labels
    BY LabelsOfOperations DEF Typed, CallsTyped, CallType
  <2>3. /\ SQLQueryFailureCount' \in [Labels -> Nat] /\ SQLQuerySuccessCount' \in [Labels -> Nat]
        /\ delivered' \in Nat
    BY <1>7, <2>2 DEF Fail, Succeed, Typed
  <2>4. UNCHANGED <<table, started, timing, rows>>
    BY <1>7 DEF Fail, Succeed, session
  <2> QED
    BY <2>1, <2>3, <2>4 DEF timing, rows, Typed
<1> QED
  BY <1>1, <1>2, <1>4, <1>5, <1>6, <1>7 DEF Next, Operation, Decorated

-----------------------------------------------------------------------------
(* The gauge of the pool. *)

LEMMA AtChanges ==
  ASSUME NEW c \in Callers, Others(c), NEW pcs
  PROVE  /\ Cardinality(At(pcs)) \in Nat
         /\ (call[c].pc \in pcs <=> call'[c].pc \in pcs) =>
              Cardinality(At(pcs)') = Cardinality(At(pcs))
         /\ call[c].pc \notin pcs /\ call'[c].pc \in pcs =>
              Cardinality(At(pcs)') = Cardinality(At(pcs)) + 1
         /\ call[c].pc \in pcs /\ call'[c].pc \notin pcs =>
              Cardinality(At(pcs)') = Cardinality(At(pcs)) - 1
<1>1. At(pcs) \subseteq Callers /\ At(pcs)' \subseteq Callers
  BY DEF At
<1>2. /\ c \in At(pcs) <=> call[c].pc \in pcs
      /\ c \in At(pcs)' <=> call'[c].pc \in pcs
      /\ \A x \in Callers : x # c => (x \in At(pcs) <=> x \in At(pcs)')
  BY DEF At, Others
<1> QED
  BY <1>1, <1>2, OneCaller

LEMMA NextPool == Typed /\ PoolAccounted /\ [Next]_vars => PoolAccounted'
<1> SUFFICES ASSUME Typed, PoolAccounted, [Next]_vars PROVE PoolAccounted'
  OBVIOUS
<1> DEFINE holding == {"session", "timing", "leaving"}
<1>1. CASE CreateDbConnection \/ Close \/ Terminated \/ UNCHANGED vars
  BY <1>1 DEF CreateDbConnection, NoHosts, NilHealth, ConnectSucceeds, ConnectFails, Close, Terminated,
              vars, calls, timing, PoolAccounted, At
<1>2. ASSUME NEW c \in Callers, NEW op \in Operations, NEW size \in Sizes, Enter(c, op, size)
      PROVE  PoolAccounted'
  <2>1. PoolInUseConnections' = PoolInUseConnections + 1
    BY <1>2 DEF Enter
  <2>2. Others(c) /\ call[c].pc \notin holding /\ call'[c].pc \in holding
    BY <1>2, EnterCall
  <2> QED
    BY <2>1, <2>2, AtChanges DEF PoolAccounted
<1>3. ASSUME NEW c \in Callers, NEW n \in Nat, NEW error \in BOOLEAN, Answered(c, n, error),
             call[c].pc = "session"
      PROVE  PoolAccounted'
  <2>1. PoolInUseConnections' = PoolInUseConnections
    BY <1>3 DEF Answered, timing
  <2>2. Others(c) /\ call'[c].pc \in holding
    BY <1>3, AnsweredCall
  <2> QED
    BY <1>3, <2>1, <2>2, AtChanges DEF PoolAccounted
<1>4. ASSUME NEW c \in Callers, NEW error \in BOOLEAN, Insert(c, error) PROVE PoolAccounted'
  BY <1>3, <1>4, InsertCall
<1>5. ASSUME NEW c \in Callers, NEW error \in BOOLEAN, Find(c, error) \/ Ping(c)
      PROVE  PoolAccounted'
  BY <1>3, <1>5, FindCall
<1>6. ASSUME NEW c \in Callers, Observe(c) PROVE PoolAccounted'
  <2>1. PoolInUseConnections' = PoolInUseConnections /\ call[c].pc \in holding
    BY <1>6 DEF Observe
  <2>2. Others(c) /\ call'[c].pc \in holding
    BY <1>6, AfterAnswer
  <2> QED
    BY <2>1, <2>2, AtChanges DEF PoolAccounted
<1>7. ASSUME NEW c \in Callers, Leave(c) PROVE PoolAccounted'
  <2>1. PoolInUseConnections' = PoolInUseConnections - 1 /\ call[c].pc \in holding
    BY <1>7 DEF Leave
  <2>2. Others(c) /\ call'[c].pc \notin holding
    BY <1>7, AfterAnswer
  <2> QED
    BY <2>1, <2>2, AtChanges DEF PoolAccounted
<1>8. ASSUME NEW c \in Callers, CountRows(c) PROVE PoolAccounted'
  <2>1. PoolInUseConnections' = PoolInUseConnections /\ call[c].pc \notin holding
    BY <1>8 DEF CountRows, timing
  <2>2. Others(c) /\ call'[c].pc \notin holding
    BY <1>8, AfterAnswer
  <2> QED
    BY <2>1, <2>2, AtChanges DEF PoolAccounted
<1>9. ASSUME NEW c \in Callers, Fail(c) \/ Succeed(c) PROVE PoolAccounted'
  <2>1. PoolInUseConnections' = PoolInUseConnections /\ call[c].pc \notin holding
    BY <1>9 DEF Fail, Succeed, timing
  <2>2. Others(c) /\ call'[c].pc \notin holding
    BY <1>9, ReturnedCall DEF Fail, Succeed
  <2> QED
    BY <2>1, <2>2, AtChanges DEF PoolAccounted
<1> QED
  BY <1>1, <1>2, <1>4, <1>5, <1>6, <1>7, <1>8, <1>9 DEF Next, Operation, Decorated

-----------------------------------------------------------------------------
(* The successes, failures and times of each label. *)

(* Caller c stands in pcs, with an operation of label l. *)
Counts(c, pcs, l) == call[c].pc \in pcs /\ TypeLabel[call[c].op] = l

LEMMA OfChanges ==
  ASSUME NEW c \in Callers, Others(c), NEW pcs, NEW l
  PROVE  /\ Cardinality(At(pcs) \cap Of(l)) \in Nat
         /\ (Counts(c, pcs, l) <=> Counts(c, pcs, l)') =>
              Cardinality((At(pcs) \cap Of(l))') = Cardinality(At(pcs) \cap Of(l))
         /\ ~Counts(c, pcs, l) /\ Counts(c, pcs, l)' =>
              Cardinality((At(pcs) \cap Of(l))') = Cardinality(At(pcs) \cap Of(l)) + 1
         /\ Counts(c, pcs, l) /\ ~Counts(c, pcs, l)' =>
              Cardinality((At(pcs) \cap Of(l))') = Cardinality(At(pcs) \cap Of(l)) - 1
<1> DEFINE here == At(pcs) \cap Of(l)
<1>1. here \subseteq Callers /\ here' \subseteq Callers
  BY DEF At
<1>2. /\ c \in here <=> Counts(c, pcs, l)
      /\ c \in here' <=> Counts(c, pcs, l)'
      /\ \A x \in Callers : x # c => (x \in here <=> x \in here')
  BY DEF At, Of, Counts, Others
<1> HIDE DEF here
<1>3. /\ Cardinality(here) \in Nat
      /\ (Counts(c, pcs, l) <=> Counts(c, pcs, l)') => Cardinality(here') = Cardinality(here)
      /\ ~Counts(c, pcs, l) /\ Counts(c, pcs, l)' => Cardinality(here') = Cardinality(here) + 1
      /\ Counts(c, pcs, l) /\ ~Counts(c, pcs, l)' => Cardinality(here') = Cardinality(here) - 1
  BY <1>1, <1>2, OneCaller
<1> QED
  BY <1>3 DEF here

(* One label's share of EveryCallCounted. *)
CountedFor(l) ==
  /\ SQLDuration[l] = started[l] - Cardinality(Untimed \cap Of(l))
  /\ SQLQuerySuccessCount[l] + SQLQueryFailureCount[l] =
        started[l] - Cardinality(Underway \cap Of(l))

LEMMA NextCounted == Typed /\ EveryCallCounted /\ [Next]_vars => EveryCallCounted'
<1> SUFFICES ASSUME Typed, EveryCallCounted, [Next]_vars, NEW l \in Labels PROVE CountedFor(l)'
  BY DEF EveryCallCounted, CountedFor
<1> DEFINE untimed == Untimed \cap Of(l)
           underway == Underway \cap Of(l)
           busy == {"session", "timing", "leaving", "rows", "outcome"}
<1>0. /\ CountedFor(l)
      /\ started[l] \in Nat /\ SQLDuration[l] \in Nat
      /\ SQLQuerySuccessCount[l] \in Nat /\ SQLQueryFailureCount[l] \in Nat
      /\ Cardinality(untimed) \in Nat /\ Cardinality(underway) \in Nat
  <2>1. untimed \subseteq Callers /\ underway \subseteq Callers
    BY DEF Untimed, Underway, At
  <2> QED
    BY <2>1, ConstantsAssumption, FS_Subset, FS_CardinalityType
    DEF EveryCallCounted, CountedFor, Typed
<1>1. CASE CreateDbConnection \/ Close \/ Terminated \/ UNCHANGED vars
  BY <1>0, <1>1 DEF CreateDbConnection, NoHosts, NilHealth, ConnectSucceeds, ConnectFails, Close, Terminated,
              vars, calls, timing, outcomes, CountedFor, Untimed, Underway, At, Of
<1>2. ASSUME NEW c \in Callers, NEW op \in Operations, NEW size \in Sizes, Enter(c, op, size)
      PROVE  CountedFor(l)'
  <2>1. /\ started'[l] = started[l] + IF TypeLabel[op] = l THEN 1 ELSE 0
        /\ UNCHANGED <<SQLDuration, SQLQuerySuccessCount, SQLQueryFailureCount>>
    BY <1>2, LabelsOfOperations DEF Enter, outcomes, Typed
  <2>2. Others(c) /\ call[c].pc = "idle" /\ call'[c].pc = "session" /\ call'[c].op = op
    BY <1>2, EnterCall
  <2>3. Cardinality(untimed') = Cardinality(untimed) + IF TypeLabel[op] = l THEN 1 ELSE 0
    BY <2>2, OfChanges DEF Untimed, Counts
  <2>4. Cardinality(underway') = Cardinality(underway) + IF TypeLabel[op] = l THEN 1 ELSE 0
    <3>1. ~Counts(c, busy, l) /\ (Counts(c, busy, l)' <=> TypeLabel[op] = l)
      BY <2>2 DEF Counts
    <3>2. Underway = At(busy) /\ Underway' = At(busy)'
      BY DEF Underway
    <3> HIDE DEF busy
    <3> QED
      BY <2>2, <3>1, <3>2, OfChanges
  <2> QED
    BY <1>0, <2>1, <2>2, <2>3, <2>4 DEF CountedFor
<1>3. ASSUME NEW c \in Callers, NEW n \in Nat, NEW error \in BOOLEAN, Answered(c, n, error),
             call[c].pc = "session"
      PROVE  CountedFor(l)'
  <2>1. UNCHANGED <<started, SQLDuration, SQLQuerySuccessCount, SQLQueryFailureCount>>
    BY <1>3 DEF Answered, timing, outcomes
  <2>2. Others(c) /\ call'[c].pc = "timing" /\ call'[c].op = call[c].op
    BY <1>3, AnsweredCall
  <2>3. Cardinality(untimed') = Cardinality(untimed)
    BY <1>3, <2>2, OfChanges DEF Untimed, Counts
  <2>4. Cardinality(underway') = Cardinality(underway)
    BY <1>3, <2>2, OfChanges DEF Underway, Counts
  <2> QED
    BY <1>0, <2>1, <2>2, <2>3, <2>4 DEF CountedFor
<1>4. ASSUME NEW c \in Callers, NEW error \in BOOLEAN, Insert(c, error) PROVE CountedFor(l)'
  BY <1>3, <1>4, InsertCall
<1>5. ASSUME NEW c \in Callers, NEW error \in BOOLEAN, Find(c, error) \/ Ping(c)
      PROVE  CountedFor(l)'
  BY <1>3, <1>5, FindCall
<1>6. ASSUME NEW c \in Callers, Observe(c) PROVE CountedFor(l)'
  <2>1. /\ SQLDuration'[l] = SQLDuration[l] + IF TypeLabel[call[c].op] = l THEN 1 ELSE 0
        /\ UNCHANGED <<started, SQLQuerySuccessCount, SQLQueryFailureCount>>
        /\ call[c].pc = "timing"
    BY <1>6 DEF Observe, outcomes, Typed
  <2>2. Others(c) /\ call'[c].pc = "leaving" /\ call'[c].op = call[c].op
    BY <1>6, AfterAnswer
  <2>3. Cardinality(untimed') = Cardinality(untimed) - IF TypeLabel[call[c].op] = l THEN 1 ELSE 0
    BY <2>1, <2>2, OfChanges DEF Untimed, Counts
  <2>4. Cardinality(underway') = Cardinality(underway)
    BY <2>1, <2>2, OfChanges DEF Underway, Counts
  <2>5. CASE TypeLabel[call[c].op] = l
    BY <1>0, <2>1, <2>3, <2>4, <2>5 DEF CountedFor
  <2>6. CASE TypeLabel[call[c].op] # l
    BY <1>0, <2>1, <2>3, <2>4, <2>6 DEF CountedFor
  <2> QED
    BY <2>5, <2>6
<1>7. ASSUME NEW c \in Callers, Leave(c) \/ CountRows(c) PROVE CountedFor(l)'
  <2>1. /\ UNCHANGED <<started, SQLDuration, SQLQuerySuccessCount, SQLQueryFailureCount>>
        /\ call[c].pc \in {"leaving", "rows"}
    BY <1>7 DEF Leave, CountRows, timing, outcomes
  <2>2. Others(c) /\ call'[c].pc \in {"rows", "outcome"} /\ call'[c].op = call[c].op
    BY <1>7, AfterAnswer
  <2>3. Cardinality(untimed') = Cardinality(untimed)
    BY <2>1, <2>2, OfChanges DEF Untimed, Counts
  <2>4. Cardinality(underway') = Cardinality(underway)
    <3>1. Counts(c, busy, l)' <=> Counts(c, busy, l)
      BY <2>1, <2>2 DEF Counts
    <3>2. Underway = At(busy) /\ Underway' = At(busy)'
      BY DEF Underway
    <3> HIDE DEF busy
    <3> QED
      BY <2>2, <3>1, <3>2, OfChanges
  <2> QED
    BY <1>0, <2>1, <2>2, <2>3, <2>4 DEF CountedFor
<1>8. ASSUME NEW c \in Callers, Fail(c) \/ Succeed(c) PROVE CountedFor(l)'
  <2>1. /\ UNCHANGED <<started, SQLDuration>>
        /\ call[c].pc = "outcome"
    BY <1>8 DEF Fail, Succeed, timing
  <2>2. SQLQuerySuccessCount'[l] + SQLQueryFailureCount'[l] =
          SQLQuerySuccessCount[l] + SQLQueryFailureCount[l]
            + IF TypeLabel[call[c].op] = l THEN 1 ELSE 0
    BY <1>0, <1>8 DEF Fail, Succeed, Typed
  <2>3. Others(c) /\ call'[c].pc = "idle"
    BY <1>8, ReturnedCall DEF Fail, Succeed
  <2>4. Cardinality(untimed') = Cardinality(untimed)
    BY <2>1, <2>3, OfChanges DEF Untimed, Counts
  <2>5. Cardinality(underway') = Cardinality(underway) - IF TypeLabel[call[c].op] = l THEN 1 ELSE 0
    BY <2>1, <2>3, OfChanges DEF Underway, Counts
  <2> QED
    BY <1>0, <2>1, <2>2, <2>4, <2>5 DEF CountedFor
<1> QED
  BY <1>1, <1>2, <1>4, <1>5, <1>6, <1>7, <1>8 DEF Next, Operation, Decorated

-----------------------------------------------------------------------------
(* The rows inserted and read. *)

(* The answer of c holds rows that have yet to be counted as inserted, or  *)
(* rows counted as read that have yet to be delivered.                     *)
ToInsert(c)  == call[c].op = "InsertRecords" /\ call[c].pc \in {"timing", "leaving", "rows"}
ToDeliver(c) == call[c].op \in CountsRows /\ call[c].pc = "outcome" /\ ~call[c].error

LEMMA UninsertedChanges ==
  ASSUME Typed, NEW c \in Callers, Others(c), CallsTyped', IsFiniteSet(Uninserted)
  PROVE  /\ IsFiniteSet(Uninserted') /\ Cardinality(Uninserted) \in Nat
         /\ Cardinality(Uninserted') =
              Cardinality(Uninserted) - (IF ToInsert(c) THEN call[c].rows ELSE 0)
                                      + (IF ToInsert(c)' THEN call'[c].rows ELSE 0)
<1> DEFINE X == Inserting \cap At({"timing", "leaving", "rows"})
<1>1. /\ c \in X <=> ToInsert(c)
      /\ c \in X' <=> ToInsert(c)'
  BY DEF Inserting, At, ToInsert
<1>2. /\ \A x : x # c => (x \in X <=> x \in X')
      /\ \A x \in X : x # c => call'[x].rows = call[x].rows
  BY DEF Inserting, At, Others
<1>3. call[c].rows \in Nat /\ call'[c].rows \in Nat
  BY DEF Typed, CallsTyped, CallType
<1>4. Uninserted = RowsOf(call, X) /\ Uninserted' = RowsOf(call', X')
  BY DEF Uninserted, RowsOf
<1> HIDE DEF X
<1>5. IsFiniteSet(RowsOf(call, X))
  BY <1>4
<1>6. /\ IsFiniteSet(RowsOf(call', X')) /\ Cardinality(RowsOf(call, X)) \in Nat
      /\ Cardinality(RowsOf(call', X')) =
           Cardinality(RowsOf(call, X)) - (IF c \in X THEN call[c].rows ELSE 0)
                                        + (IF c \in X' THEN call'[c].rows ELSE 0)
  <2>1. DifferIn(c, call, X, call', X')
    BY <1>2, <1>3 DEF DifferIn
  <2> QED
    BY <1>5, <2>1, RowsChange
<1> QED
  BY <1>1, <1>4, <1>6

LEMMA UndeliveredChanges ==
  ASSUME Typed, NEW c \in Callers, Others(c), CallsTyped', IsFiniteSet(Undelivered)
  PROVE  /\ IsFiniteSet(Undelivered') /\ Cardinality(Undelivered) \in Nat
         /\ Cardinality(Undelivered') =
              Cardinality(Undelivered) - (IF ToDeliver(c) THEN call[c].rows ELSE 0)
                                       + (IF ToDeliver(c)' THEN call'[c].rows ELSE 0)
<1> DEFINE X == {x \in Reading \cap At({"outcome"}) : ~call[x].error}
<1>1. /\ c \in X <=> ToDeliver(c)
      /\ c \in X' <=> ToDeliver(c)'
  BY DEF Reading, At, ToDeliver
<1>2. /\ \A x : x # c => (x \in X <=> x \in X')
      /\ \A x \in X : x # c => call'[x].rows = call[x].rows
  BY DEF Reading, At, Others
<1>3. call[c].rows \in Nat /\ call'[c].rows \in Nat
  BY DEF Typed, CallsTyped, CallType
<1>4. Undelivered = RowsOf(call, X) /\ Undelivered' = RowsOf(call', X')
  BY DEF Undelivered, RowsOf
<1> HIDE DEF X
<1>5. IsFiniteSet(RowsOf(call, X))
  BY <1>4
<1>6. /\ IsFiniteSet(RowsOf(call', X')) /\ Cardinality(RowsOf(call, X)) \in Nat
      /\ Cardinality(RowsOf(call', X')) =
           Cardinality(RowsOf(call, X)) - (IF c \in X THEN call[c].rows ELSE 0)
                                        + (IF c \in X' THEN call'[c].rows ELSE 0)
  <2>1. DifferIn(c, call, X, call', X')
    BY <1>2, <1>3 DEF DifferIn
  <2> QED
    BY <1>5, <2>1, RowsChange
<1> QED
  BY <1>1, <1>4, <1>6

(* No insert has failed yet, be it that it is still under way.             *)
NoneFailed == SQLQueryFailureCount["insert"] = 0 /\ \A c \in Inserting : ~call[c].error

RowsInv ==
  /\ IsFiniteSet(Uninserted) /\ IsFiniteSet(Undelivered)
  /\ RowMetricsMatch

(* The three claims of RowMetricsMatch follow from how the counts change.  *)
LEMMA RowsStep ==
  ASSUME Typed, RowsInv, NEW c \in Callers, Others(c), CallsTyped',
         NEW n \in Nat, NEW m \in Nat,
         written' = written + n, n <= m, NoneFailed' => NoneFailed /\ n = m,
         SQLInsertedRecords' + Cardinality(Uninserted') =
           SQLInsertedRecords + Cardinality(Uninserted) + m,
         SQLReadRecords' - delivered' - Cardinality(Undelivered') =
           SQLReadRecords - delivered - Cardinality(Undelivered),
         Typed'
  PROVE  RowsInv'
<1>1. IsFiniteSet(Uninserted') /\ IsFiniteSet(Undelivered')
  BY UninsertedChanges, UndeliveredChanges DEF RowsInv
<1>2. /\ Cardinality(Uninserted) \in Nat /\ Cardinality(Undelivered) \in Nat
      /\ Cardinality(Uninserted') \in Nat /\ Cardinality(Undelivered') \in Nat
  BY <1>1, FS_CardinalityType DEF RowsInv
<1>3. /\ written <= SQLInsertedRecords + Cardinality(Uninserted)
      /\ NoneFailed => written = SQLInsertedRecords + Cardinality(Uninserted)
      /\ SQLReadRecords = delivered + Cardinality(Undelivered)
  BY DEF RowsInv, RowMetricsMatch, NoneFailed
<1>4. /\ written' <= SQLInsertedRecords' + Cardinality(Uninserted')
      /\ NoneFailed' => written' = SQLInsertedRecords' + Cardinality(Uninserted')
      /\ SQLReadRecords' = delivered' + Cardinality(Undelivered')
  BY <1>2, <1>3 DEF Typed
<1>5. stored' <= written'
  BY DEF Typed
<1> QED
  BY <1>1, <1>4, <1>5 DEF RowsInv, RowMetricsMatch, NoneFailed

(* A step of a caller that neither answers nor returns can only keep the   *)
(* failures as they are.                                                   *)
LEMMA NoneFailedBefore ==
  ASSUME Typed, NEW c \in Callers, Others(c),
         SQLQueryFailureCount'["insert"] = SQLQueryFailureCount["insert"],
         call[c].op = "InsertRecords" /\ call[c].error =>
           call'[c].op = "InsertRecords" /\ call'[c].error,
         NoneFailed'
  PROVE  NoneFailed
  BY DEF NoneFailed, Inserting, Others

(* A step that moves no rows. *)
LEMMA Unmoved ==
  ASSUME Typed, Typed', RowsInv, NEW c \in Callers, Others(c), CallsTyped',
         UNCHANGED <<written, delivered, SQLInsertedRecords, SQLReadRecords>>,
         NoneFailed' => NoneFailed,
         Cardinality(Uninserted') = Cardinality(Uninserted),
         Cardinality(Undelivered') = Cardinality(Undelivered)
  PROVE  RowsInv'
<1>1. Cardinality(Uninserted) \in Nat /\ Cardinality(Undelivered) \in Nat
  BY FS_CardinalityType DEF RowsInv
<1>2. written' = written + 0
  BY DEF Typed
<1>3. SQLInsertedRecords' + Cardinality(Uninserted') =
        SQLInsertedRecords + Cardinality(Uninserted) + 0
  BY <1>1 DEF Typed
<1>4. SQLReadRecords' - delivered' - Cardinality(Undelivered') =
        SQLReadRecords - delivered - Cardinality(Undelivered)
  OBVIOUS
<1> QED
  BY <1>2, <1>3, <1>4, RowsStep

LEMMA NextRows == Typed /\ RowsInv /\ [Next]_vars => RowsInv'
<1> SUFFICES ASSUME Typed, RowsInv, [Next]_vars PROVE RowsInv'
  OBVIOUS
<1>0. Typed'
  BY NextTyped
<1>1. CASE CreateDbConnection \/ Close \/ Terminated \/ UNCHANGED vars
  BY <1>1 DEF CreateDbConnection, NoHosts, NilHealth, ConnectSucceeds, ConnectFails, Close, Terminated,
              vars, session, calls, outcomes, rows, RowsInv, RowMetricsMatch, Uninserted,
              Undelivered, RowsOf, Inserting, Reading, At
<1>2. ASSUME NEW c \in Callers, NEW op \in Operations, NEW size \in Sizes, Enter(c, op, size)
      PROVE  RowsInv'
  <2>1. /\ UNCHANGED <<written, delivered, SQLInsertedRecords, SQLReadRecords>>
        /\ SQLQueryFailureCount'["insert"] = SQLQueryFailureCount["insert"]
    BY <1>2 DEF Enter, session, outcomes, rows
  <2>2. Others(c) /\ CallsTyped' /\ (NoneFailed' => NoneFailed)
    BY <1>2, <2>1, EnterCall, NoneFailedBefore
  <2>3. ~ToInsert(c) /\ ~ToInsert(c)' /\ ~ToDeliver(c) /\ ~ToDeliver(c)'
    BY <1>2, EnterCall DEF ToInsert, ToDeliver
  <2>4. /\ Cardinality(Uninserted') = Cardinality(Uninserted)
        /\ Cardinality(Undelivered') = Cardinality(Undelivered)
    BY <2>2, <2>3, UninsertedChanges, UndeliveredChanges DEF RowsInv
  <2> QED
    BY <1>0, <2>1, <2>2, <2>4, Unmoved
<1>3. ASSUME NEW c \in Callers, NEW error \in BOOLEAN, Insert(c, error) PROVE RowsInv'
  <2>1. PICK n \in 0 .. call[c].size : (~error => n = call[c].size) /\ written' = written + n
    BY <1>3, InsertCall
  <2>2. /\ call[c].pc = "session" /\ call[c].op = "InsertRecords" /\ call[c].size \in Nat
        /\ ~call[c].error /\ Answered(c, call[c].size, error)
    BY <1>3, InsertCall
  <2>3. /\ UNCHANGED <<delivered, SQLInsertedRecords, SQLReadRecords>>
        /\ SQLQueryFailureCount'["insert"] = SQLQueryFailureCount["insert"]
    BY <2>2 DEF Answered, outcomes, rows
  <2>4. /\ Others(c) /\ CallsTyped'
        /\ call'[c].pc = "timing" /\ call'[c].op = "InsertRecords"
        /\ call'[c].rows = call[c].size /\ call'[c].error = error
    BY <2>2, AnsweredCall
  <2>5. NoneFailed' => NoneFailed /\ n = call[c].size
    <3>1. NoneFailed' => ~error
      BY <2>4 DEF NoneFailed, Inserting
    <3> QED
      BY <2>1, <2>2, <2>3, <2>4, <3>1, NoneFailedBefore
  <2>6. ~ToInsert(c) /\ ToInsert(c)' /\ ~ToDeliver(c) /\ ~ToDeliver(c)'
    BY <2>2, <2>4 DEF ToInsert, ToDeliver
  <2>7. /\ Cardinality(Uninserted') = Cardinality(Uninserted) + call[c].size
        /\ Cardinality(Uninserted) \in Nat
        /\ Cardinality(Undelivered') = Cardinality(Undelivered)
    BY <2>2, <2>4, <2>6, UninsertedChanges, UndeliveredChanges DEF RowsInv
  <2>8. SQLInsertedRecords' + Cardinality(Uninserted') =
          SQLInsertedRecords + Cardinality(Uninserted) + call[c].size
    BY <2>2, <2>3, <2>7 DEF Typed
  <2> QED
    BY <1>0, <2>1, <2>2, <2>3, <2>4, <2>5, <2>7, <2>8, RowsStep
<1>4. ASSUME NEW c \in Callers, NEW error \in BOOLEAN, Find(c, error) \/ Ping(c) PROVE RowsInv'
  <2>1. PICK n \in Nat : \E e \in BOOLEAN : Answered(c, n, e)
    BY <1>4, FindCall
  <2>2. PICK e \in BOOLEAN : Answered(c, n, e)
    BY <2>1
  <2>3. /\ call[c].pc = "session" /\ call[c].op # "InsertRecords" /\ written' = written
    BY <1>4, FindCall
  <2>4. /\ UNCHANGED <<delivered, SQLInsertedRecords, SQLReadRecords>>
        /\ SQLQueryFailureCount'["insert"] = SQLQueryFailureCount["insert"]
    BY <2>2 DEF Answered, outcomes, rows
  <2>5. Others(c) /\ CallsTyped' /\ call'[c].pc = "timing" /\ call'[c].op = call[c].op
    BY <2>2, AnsweredCall
  <2>6. NoneFailed' => NoneFailed
    BY <2>3, <2>4, <2>5, NoneFailedBefore
  <2>7. ~ToInsert(c) /\ ~ToInsert(c)' /\ ~ToDeliver(c) /\ ~ToDeliver(c)'
    BY <2>3, <2>5 DEF ToInsert, ToDeliver
  <2>8. /\ Cardinality(Uninserted') = Cardinality(Uninserted)
        /\ Cardinality(Undelivered') = Cardinality(Undelivered)
    BY <2>5, <2>7, UninsertedChanges, UndeliveredChanges DEF RowsInv
  <2> QED
    BY <1>0, <2>3, <2>4, <2>5, <2>6, <2>8, Unmoved
<1>5. ASSUME NEW c \in Callers, Observe(c) \/ Leave(c) PROVE RowsInv'
  <2>1. /\ UNCHANGED <<written, delivered, SQLInsertedRecords, SQLReadRecords>>
        /\ SQLQueryFailureCount'["insert"] = SQLQueryFailureCount["insert"]
    BY <1>5 DEF Observe, Leave, session, outcomes, rows
  <2>2. /\ Others(c) /\ CallsTyped' /\ call'[c].op = call[c].op
        /\ call'[c].rows = call[c].rows /\ call'[c].error = call[c].error
        /\ call[c].pc \in {"timing", "leaving"} /\ call'[c].pc \in {"leaving", "rows"}
    BY <1>5, AfterAnswer
  <2>3. NoneFailed' => NoneFailed
    BY <2>1, <2>2, NoneFailedBefore
  <2>4. (ToInsert(c) <=> ToInsert(c)') /\ ~ToDeliver(c) /\ ~ToDeliver(c)'
    BY <2>2 DEF ToInsert, ToDeliver
  <2>5. call[c].rows \in Nat
    BY DEF Typed, CallsTyped, CallType
  <2>6. /\ Cardinality(Uninserted') = Cardinality(Uninserted)
        /\ Cardinality(Undelivered') = Cardinality(Undelivered)
    BY <2>2, <2>4, <2>5, UninsertedChanges, UndeliveredChanges DEF RowsInv
  <2> QED
    BY <1>0, <2>1, <2>2, <2>3, <2>6, Unmoved
<1>6. ASSUME NEW c \in Callers, CountRows(c) PROVE RowsInv'
  <2>1. /\ UNCHANGED <<written, delivered>>
        /\ SQLQueryFailureCount'["insert"] = SQLQueryFailureCount["insert"]
        /\ SQLInsertedRecords' = SQLInsertedRecords + IF ToInsert(c) THEN call[c].rows ELSE 0
    BY <1>6 DEF CountRows, session, outcomes, ToInsert
  <2>2. /\ Others(c) /\ CallsTyped' /\ call'[c].op = call[c].op
        /\ call'[c].rows = call[c].rows /\ call'[c].error = call[c].error
        /\ call[c].pc = "rows" /\ call'[c].pc = "outcome"
    BY <1>6, AfterAnswer
  <2>3. SQLReadRecords' = SQLReadRecords + IF ToDeliver(c)' THEN call[c].rows ELSE 0
    BY <1>6, <2>2 DEF CountRows, ToDeliver
  <2>4. NoneFailed' => NoneFailed
    BY <2>1, <2>2, NoneFailedBefore
  <2>5. ~ToInsert(c)' /\ ~ToDeliver(c)
    BY <2>2 DEF ToInsert, ToDeliver
  <2>6. call[c].rows \in Nat
    BY DEF Typed, CallsTyped, CallType
  <2>7. /\ Cardinality(Uninserted) \in Nat /\ Cardinality(Undelivered) \in Nat
        /\ Cardinality(Uninserted') =
             Cardinality(Uninserted) - IF ToInsert(c) THEN call[c].rows ELSE 0
        /\ Cardinality(Undelivered') =
             Cardinality(Undelivered) + IF ToDeliver(c)' THEN call[c].rows ELSE 0
    BY <2>2, <2>5, <2>6, UninsertedChanges, UndeliveredChanges DEF RowsInv
  <2>8. SQLInsertedRecords' + Cardinality(Uninserted') =
          SQLInsertedRecords + Cardinality(Uninserted) + 0
    BY <2>1, <2>6, <2>7 DEF Typed
  <2>9. SQLReadRecords' - delivered' - Cardinality(Undelivered') =
          SQLReadRecords - delivered - Cardinality(Undelivered)
    BY <2>1, <2>3, <2>6, <2>7 DEF Typed
  <2>10. written' = written + 0
    BY <2>1 DEF Typed
  <2> QED
    BY <1>0, <2>2, <2>4, <2>8, <2>9, <2>10, RowsStep
<1>7. ASSUME NEW c \in Callers, Fail(c) \/ Succeed(c) PROVE RowsInv'
  <2>1. /\ UNCHANGED <<written, SQLInsertedRecords, SQLReadRecords>>
        /\ delivered' = delivered + IF ToDeliver(c) THEN call[c].rows ELSE 0
        /\ call[c].pc = "outcome"
    BY <1>7 DEF Fail, Succeed, session, rows, ToDeliver, Typed
  <2>2. /\ Others(c) /\ CallsTyped' /\ call'[c].pc = "idle" /\ call'[c].op = "Ping"
        /\ ~call'[c].error
    BY <1>7, ReturnedCall DEF Fail, Succeed
  <2>3. NoneFailed' => NoneFailed
    <3>1. CASE call[c].op = "InsertRecords" /\ call[c].error
      <4>1. SQLQueryFailureCount'["insert"] = SQLQueryFailureCount["insert"] + 1
        BY <1>7, <3>1, LabelsOfOperations DEF Fail, Succeed, Typed
      <4> QED
        BY <4>1, LabelsOfOperations DEF NoneFailed, Typed
    <3>2. CASE ~(call[c].op = "InsertRecords" /\ call[c].error)
      <4>1. call[c].op \in Operations
        BY DEF Typed, CallsTyped, CallType
      <4>2. SQLQueryFailureCount'["insert"] = SQLQueryFailureCount["insert"]
        BY <1>7, <3>2, <4>1, LabelsOfOperations DEF Fail, Succeed, Typed
      <4> QED
        BY <2>2, <3>2, <4>2, NoneFailedBefore
    <3> QED
      BY <3>1, <3>2
  <2>4. ~ToInsert(c) /\ ~ToInsert(c)' /\ ~ToDeliver(c)'
    BY <2>1, <2>2 DEF ToInsert, ToDeliver
  <2>5. call[c].rows \in Nat
    BY DEF Typed, CallsTyped, CallType
  <2>6. /\ Cardinality(Uninserted) \in Nat /\ Cardinality(Undelivered) \in Nat
        /\ Cardinality(Uninserted') = Cardinality(Uninserted)
        /\ Cardinality(Undelivered') =
             Cardinality(Undelivered) - IF ToDeliver(c) THEN call[c].rows ELSE 0
    BY <2>2, <2>4, <2>5, UninsertedChanges, UndeliveredChanges DEF RowsInv
  <2>7. SQLReadRecords' - delivered' - Cardinality(Undelivered') =
          SQLReadRecords - delivered - Cardinality(Undelivered)
    BY <2>1, <2>5, <2>6 DEF Typed
  <2>8. /\ SQLInsertedRecords' + Cardinality(Uninserted') =
             SQLInsertedRecords + Cardinality(Uninserted) + 0
        /\ written' = written + 0
    BY <2>1, <2>6 DEF Typed
  <2> QED
    BY <1>0, <2>2, <2>3, <2>7, <2>8, RowsStep
<1> QED
  BY <1>1, <1>2, <1>3, <1>4, <1>5, <1>6, <1>7 DEF Next, Operation, Decorated

-----------------------------------------------------------------------------
(* The theorems. *)

IInv == Typed /\ PoolAccounted /\ EveryCallCounted /\ RowsInv

LEMMA InitIInv == Init => IInv
<1> SUFFICES ASSUME Init PROVE IInv
  OBVIOUS
<1>1. Typed
  BY InitTyped
<1>2. call = [c \in Callers |-> Idle] /\ NewMeasures /\ started = Zero /\ delivered = 0
     /\ stored = 0 /\ written = 0
  BY DEF Init
<1>3. At({"session", "timing", "leaving"}) = {} /\ Untimed = {} /\ Underway = {}
  BY <1>2 DEF At, Untimed, Underway, Idle
<1>4. Inserting = {} /\ Reading = {}
  BY <1>2 DEF Inserting, Reading, CountsRows, Idle
<1>5. Uninserted = {} /\ Undelivered = {}
  BY <1>4 DEF Uninserted, Undelivered, RowsOf
<1>6. Cardinality({}) = 0 /\ IsFiniteSet({})
  BY FS_EmptySet
<1>7. PoolAccounted
  BY <1>2, <1>3, <1>6 DEF PoolAccounted, NewMeasures
<1>8. ASSUME NEW l \in Labels PROVE Untimed \cap Of(l) = {} /\ Underway \cap Of(l) = {}
  BY <1>3
<1>9. EveryCallCounted
  <2>1. ASSUME NEW l \in Labels
        PROVE  /\ SQLDuration[l] = 0 /\ started[l] = 0
               /\ SQLQuerySuccessCount[l] = 0 /\ SQLQueryFailureCount[l] = 0
    BY <1>2 DEF NewMeasures, Zero
  <2> QED
    BY <1>6, <1>8, <2>1 DEF EveryCallCounted
<1>10. RowsInv
  BY <1>2, <1>4, <1>5, <1>6 DEF RowsInv, RowMetricsMatch, NewMeasures
<1> QED
  BY <1>1, <1>7, <1>9, <1>10 DEF IInv

(* The inductive invariant holds in every reachable state.                 *)
THEOREM Inductive == Spec => []IInv
<1>1. Init => IInv
  BY InitIInv
<1>2. IInv /\ [Next]_vars => IInv'
  BY NextTyped, NextPool, NextCounted, NextRows DEF IInv
<1> QED
  BY <1>1, <1>2, PTL DEF Spec

(* The gauge of connections in use counts those in use, for any number of  *)
(* callers and wherever Close comes: no call keeps one or returns it twice.*)
THEOREM PoolBalanced == Spec => []PoolAccounted
<1>1. IInv => PoolAccounted
  BY DEF IInv
<1> QED
  BY <1>1, Inductive, PTL

(* Every call of the connection is timed once and is counted once, as a    *)
(* success or a failure under the label of its operation.                  *)
THEOREM CallsCounted == Spec => []EveryCallCounted
<1>1. IInv => EveryCallCounted
  BY DEF IInv
<1> QED
  BY <1>1, Inductive, PTL

(* What the rows metrics have to do with the rows: they miss no row that   *)
(* was inserted and count no row that a caller was not given.              *)
THEOREM RowsCounted == Spec => []RowMetricsMatch
<1>1. IInv => RowMetricsMatch
  BY DEF IInv, RowsInv
<1> QED
  BY <1>1, Inductive, PTL
=============================================================================
