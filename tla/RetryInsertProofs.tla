------------------------- MODULE RetryInsertProofs -------------------------
(***************************************************************************)
(* Proofs about RetryInsert, for any number of calls, any backoff values   *)
(* and both kinds of library.                                              *)
(***************************************************************************)
EXTENDS RetryInsert, FiniteSetTheorems, TLAPS

USE DEF Reset, Slept, Ended

ConfigOK == config \in {CreateRetryInsertService(raw) : raw \in RawConfigs}

ValidBackoff ==
  /\ Backoff.InitialInterval \in Nat
  /\ Backoff.RandomizationFactor \in Nat
  /\ Backoff.Multiplier \in Nat
  /\ Backoff.MaxInterval \in Nat
  /\ Backoff.MaxElapsedTime \in Nat

(* WithBackoff leaves nothing negative, whatever it is given.              *)
LEMMA BackoffIsValid == ConfigOK => ValidBackoff
<1> SUFFICES ASSUME NEW raw \in RawConfigs, config = CreateRetryInsertService(raw)
             PROVE  ValidBackoff
  BY DEF ConfigOK
<1>1. Backoff = WithBackoff(raw.backoff)
  BY DEF Backoff, CreateRetryInsertService
<1>2. raw.backoff \in BackoffType /\ DefaultBackoff \in BackoffType
  BY ConfigAssumption
<1>3. /\ DefaultBackoff.InitialInterval >= 0 /\ DefaultBackoff.RandomizationFactor >= 0
      /\ DefaultBackoff.MaxInterval >= 0 /\ DefaultBackoff.MaxElapsedTime >= 0
      /\ DefaultBackoff.Multiplier >= 1
  BY <1>2, ConfigAssumption DEF BackoffType
<1> QED
  BY <1>1, <1>2, <1>3 DEF WithBackoff, BackoffType, ValidBackoff

(* Longer intervals have longer waits. *)
LEMMA WaitBounds ==
  ASSUME ValidBackoff, NEW i \in Nat, NEW j \in Nat, i <= j
  PROVE  /\ LongestWait(i) \in Nat /\ LongestWait(i) <= LongestWait(j)
         /\ Waits(i) \subseteq Nat /\ \A w \in Waits(i) : w <= LongestWait(j)
<1> DEFINE f == 10 + Backoff.RandomizationFactor
<1>1. f \in Nat
  BY DEF ValidBackoff
<1> HIDE DEF f
<1>2. f * i \in Nat /\ f * j \in Nat /\ f * i <= f * j
  BY <1>1
<1>3. (f * i) \div 10 \in Nat /\ (f * i) \div 10 <= (f * j) \div 10
  BY <1>2
<1>4. LongestWait(i) = (f * i) \div 10 /\ LongestWait(j) = (f * j) \div 10
  BY DEF LongestWait, f
<1>5. Waits(i) \subseteq 0 .. LongestWait(i)
  BY DEF Waits
<1>6. LongestWait(i) \in Nat /\ LongestWait(j) \in Nat /\ LongestWait(i) <= LongestWait(j)
  BY <1>2, <1>3, <1>4
<1>7. \A w \in Waits(i) : w \in Nat /\ w <= LongestWait(j)
  BY <1>5, <1>6
<1> QED
  BY <1>6, <1>7

-----------------------------------------------------------------------------

Typed ==
  /\ ConfigOK
  /\ pc \in [Calls -> {"new", "attempt", "backoff", "end", "done", "panicked"}]
  /\ age \in [Calls -> Nat]
  /\ spent = age
  /\ interval \in [Calls -> Nat]
  /\ attempts \in [Calls -> Nat]
  /\ failed \in [Calls -> BOOLEAN]

(* A call that has begun never waits an interval longer than the longest,  *)
(* and starts no attempt late by the clock of its backoff; this clock is   *)
(* the time the call has taken, for no other call touches it (Typed).      *)
Sound(c) ==
  /\ pc[c] # "new" => interval[c] <= LongestInterval
  /\ pc[c] = "attempt" /\ Limited =>
       age[c] <= Backoff.MaxElapsedTime
                   + IF looksAhead \/ attempts[c] = 0 THEN 0 ELSE LongestWait(LongestInterval)
  /\ pc[c] = "backoff" => attempts[c] > 0

IInv == Typed /\ \A c \in Calls : Sound(c)

LEMMA InitIInv == Init => IInv
<1> SUFFICES ASSUME Init PROVE IInv
  OBVIOUS
<1>1. ConfigOK
  BY Zenon DEF Init, ConfigOK
<1>2. pc = [c \in Calls |-> "new"] /\ age = [c \in Calls |-> 0] /\ interval = [c \in Calls |-> 0]
      /\ spent = age /\ attempts = [c \in Calls |-> 0] /\ failed = [c \in Calls |-> FALSE]
  BY DEF Init
<1> QED
  BY <1>1, <1>2 DEF IInv, Typed, Sound

LEMMA NextIInv == IInv /\ [Next]_vars => IInv'
<1> SUFFICES ASSUME IInv, [Next]_vars PROVE IInv'
  OBVIOUS
<1>1. Typed /\ ValidBackoff /\ \A c \in Calls : Sound(c)
  BY BackoffIsValid DEF IInv, Typed
<1>2. LongestInterval \in Nat /\ Backoff.InitialInterval <= LongestInterval
      /\ Backoff.MaxInterval <= LongestInterval
  BY <1>1 DEF LongestInterval, ValidBackoff
<1>3. config' = config /\ looksAhead' = looksAhead
  BY DEF Next, Begin, InsertRecords, Attempt, GiveUp, Retry, End, Panic, Terminated, vars
<1>4. Backoff' = Backoff
  BY <1>3 DEF Backoff
<1>5. ASSUME NEW x \in Calls, pc'[x] = pc[x], age'[x] = age[x], interval'[x] = interval[x],
             attempts'[x] = attempts[x], failed'[x] = failed[x]
      PROVE  Sound(x)'
  BY <1>1, <1>3, <1>4, <1>5 DEF Sound, Limited, LongestInterval, LongestWait, Waits, OutOfTime
<1>6. ASSUME NEW c \in Calls, Sound(c)', Typed',
             \A x \in Calls : x # c =>
               /\ pc'[x] = pc[x] /\ age'[x] = age[x] /\ interval'[x] = interval[x]
               /\ attempts'[x] = attempts[x] /\ failed'[x] = failed[x]
      PROVE  IInv'
  BY <1>5, <1>6 DEF IInv
<1>7. ASSUME NEW c \in Calls, Begin(c) PROVE IInv'
  <2>1. Typed'
    BY <1>1, <1>3, <1>7 DEF Begin, Typed, ConfigOK, ValidBackoff
  <2>2. pc'[c] = "attempt" /\ age'[c] = 0 /\ interval'[c] = Backoff.InitialInterval
    BY <1>1, <1>7 DEF Begin, Typed
  <2>3. LongestWait(LongestInterval) \in Nat /\ Backoff.MaxElapsedTime \in Nat
    BY <1>1, <1>2, WaitBounds DEF ValidBackoff
  <2>4. Sound(c)'
    BY <1>2, <1>3, <1>4, <2>2, <2>3 DEF Sound, Limited, LongestInterval, LongestWait
  <2> QED
    BY <1>1, <1>6, <1>7, <2>1, <2>4 DEF Begin, Typed
<1>8. ASSUME NEW c \in Calls, NEW d \in Durations, NEW error \in BOOLEAN, Attempt(c, d, error)
      PROVE  IInv'
  <2>1. Typed'
    BY <1>1, <1>3, <1>8, BoundAssumption DEF Attempt, Typed, ConfigOK
  <2>2. /\ pc'[c] = (IF error THEN "backoff" ELSE "end") /\ failed'[c] = error
        /\ attempts'[c] > 0 /\ interval'[c] = interval[c] /\ pc[c] = "attempt"
    BY <1>1, <1>8 DEF Attempt, Typed
  <2>3. Sound(c)'
    BY <1>1, <1>4, <2>2 DEF Sound, LongestInterval
  <2> QED
    BY <1>1, <1>6, <1>8, <2>1, <2>3 DEF Attempt, Typed
<1>9. ASSUME NEW c \in Calls, GiveUp(c) PROVE IInv'
  <2>1. Typed'
    BY <1>1, <1>3, <1>9 DEF GiveUp, Typed, ConfigOK
  <2>2. pc'[c] = "end" /\ pc[c] = "backoff" /\ interval' = interval
    BY <1>1, <1>9 DEF GiveUp, Typed
  <2>3. Sound(c)'
    BY <1>1, <1>4, <2>2 DEF Sound, LongestInterval
  <2> QED
    BY <1>1, <1>6, <1>9, <2>1, <2>3 DEF GiveUp, Typed
<1>10. ASSUME NEW c \in Calls, NEW w \in Waits(interval[c]), Retry(c, w) PROVE IInv'
  <2>0. interval[c] \in Nat /\ interval[c] <= LongestInterval /\ age[c] \in Nat
        /\ attempts[c] > 0 /\ attempts[c] \in Nat
    BY <1>1, <1>10 DEF Retry, Sound, Typed
  <2>1. w \in Nat /\ w <= LongestWait(LongestInterval) /\ LongestWait(LongestInterval) \in Nat
    BY <1>1, <1>2, <2>0, WaitBounds
  <2>2. NextInterval(interval[c]) \in Nat /\ NextInterval(interval[c]) <= LongestInterval
    <3>1. interval[c] * Backoff.Multiplier \in Nat
      BY <1>1, <2>0 DEF ValidBackoff
    <3> QED
      BY <1>1, <1>2, <3>1 DEF NextInterval, ValidBackoff
  <2>3. /\ pc' = [pc EXCEPT ![c] = "attempt"] /\ age' = [age EXCEPT ![c] = age[c] + w]
        /\ spent' = [spent EXCEPT ![c] = spent[c] + w]
        /\ interval' = [interval EXCEPT ![c] = NextInterval(interval[c])]
        /\ UNCHANGED <<attempts, failed>> /\ ~OutOfTime(c, w)
    BY <1>10 DEF Retry
  <2>4. Typed'
    BY <1>1, <1>3, <2>0, <2>1, <2>2, <2>3 DEF Typed, ConfigOK
  <2>5. /\ pc'[c] = "attempt" /\ age'[c] = age[c] + w /\ attempts'[c] = attempts[c]
        /\ interval'[c] = NextInterval(interval[c])
    BY <1>1, <2>3 DEF Typed
  <2>6. Limited => age[c] + w <= Backoff.MaxElapsedTime
                                   + IF looksAhead THEN 0 ELSE LongestWait(LongestInterval)
    BY <1>1, <2>0, <2>1, <2>3 DEF OutOfTime, ValidBackoff
  <2>7. Sound(c)'
    BY <1>3, <1>4, <2>0, <2>2, <2>5, <2>6 DEF Sound, Limited, LongestInterval, LongestWait
  <2> QED
    BY <1>1, <1>6, <2>3, <2>4, <2>7 DEF Typed
<1>11. ASSUME NEW c \in Calls, End(c) \/ Panic(c) PROVE IInv'
  <2>1. Typed'
    BY <1>1, <1>3, <1>11 DEF End, Panic, Typed, ConfigOK
  <2>2. pc'[c] \in {"done", "panicked"} /\ pc[c] # "new" /\ interval' = interval
    BY <1>1, <1>11 DEF End, Panic, Typed
  <2>3. Sound(c)'
    BY <1>1, <1>4, <2>2 DEF Sound, LongestInterval
  <2> QED
    BY <1>1, <1>6, <1>11, <2>1, <2>3 DEF End, Panic, Typed
<1>12. CASE UNCHANGED vars
  <2>1. Typed'
    BY <1>1, <1>12 DEF vars, Typed, ConfigOK
  <2> QED
    BY <1>5, <1>12, <2>1 DEF vars, IInv
<1> QED
  BY <1>7, <1>8, <1>9, <1>10, <1>11, <1>12 DEF Next, InsertRecords, Terminated

LEMMA Inductive == Spec => []IInv
<1> QED
  BY InitIInv, NextIInv, PTL DEF Spec

(* For every valid or invalid configuration and however many calls retry   *)
(* at once, an attempt starts at most one longest wait after the limit,    *)
(* counted from when its call began.                                       *)
THEOREM NoLateAttempt == Spec => []AttemptsStartInTime
<1>1. IInv => AttemptsStartInTime
  BY DEF IInv, Typed, Sound, AttemptsStartInTime
<1> QED
  BY <1>1, Inductive, PTL

-----------------------------------------------------------------------------
(* The metrics.  A call counts its retries at other times than it makes    *)
(* its attempts, and one that panicked would be counted as if it had not.  *)

Done == {c \in Calls : pc[c] = "done"}

Metrics ==
  /\ IsFiniteSet(Retried)
  /\ \A c \in Calls : pc[c] = "new" => attempts[c] = 0
  /\ \A c \in Calls : pc[c] \in {"end", "done"} => attempts[c] > 0
  /\ config.measures \in BOOLEAN
  /\ MetricsAccounted

LEMMA InitMetrics == Init => Metrics
<1> SUFFICES ASSUME Init PROVE Metrics
  OBVIOUS
<1>1. PICK raw \in RawConfigs : config = CreateRetryInsertService(raw)
  BY Zenon DEF Init
<1>2. config.measures \in BOOLEAN
  BY <1>1, ConfigAssumption DEF CreateRetryInsertService
<1>3. /\ pc = [c \in Calls |-> "new"] /\ attempts = [c \in Calls |-> 0]
      /\ retryCount = 0 /\ endCount = 0
  BY DEF Init
<1>4. Retried = {}
  BY <1>3 DEF Retried, Retries
<1>5. {c \in Calls : pc[c] = "done"} = {}
  BY <1>3
<1> QED
  BY <1>2, <1>3, <1>4, <1>5, FS_EmptySet DEF Metrics, MetricsAccounted

(* What a step does to the retries, by what it does to those of one call.  *)
LEMMA RetriedSame ==
  ASSUME \A c \in Calls : Retries(c)' = Retries(c)
  PROVE  Retried' = Retried
BY DEF Retried

LEMMA RetriedGrows ==
  ASSUME NEW c \in Calls, IsFiniteSet(Retried),
         Retries(c) \in Nat, Retries(c)' = Retries(c) + 1,
         \A x \in Calls : x # c => Retries(x)' = Retries(x)
  PROVE  IsFiniteSet(Retried') /\ Cardinality(Retried') = Cardinality(Retried) + 1
<1> DEFINE w == <<c, Retries(c) + 1>>
<1>1. \A p : p \in Retried <=> \E x \in Calls : \E i \in 1 .. Retries(x) : p = <<x, i>>
  BY DEF Retried
<1>2. \A p : p \in Retried' <=> \E x \in Calls : \E i \in 1 .. Retries(x)' : p = <<x, i>>
  BY DEF Retried
<1>3. w \notin Retried
  BY <1>1
<1>4. Retried' = Retried \cup {w}
  BY <1>1, <1>2
<1> QED
  BY <1>3, <1>4, FS_AddElement

LEMMA NextMetrics == IInv /\ Metrics /\ [Next]_vars => Metrics'
<1> SUFFICES ASSUME IInv, Metrics, [Next]_vars PROVE Metrics'
  OBVIOUS
<1>1. Typed /\ \A c \in Calls : Sound(c)
  BY DEF IInv
<1>2. config' = config
  BY DEF Next, Begin, InsertRecords, Attempt, GiveUp, Retry, End, Panic, Terminated, vars
<1>3. \A c \in Calls : attempts[c] \in Nat
  BY <1>1 DEF Typed
<1>4. ASSUME NEW c \in Calls, Begin(c) PROVE Metrics'
  <2>1. pc[c] = "new" /\ pc' = [pc EXCEPT ![c] = "attempt"] /\ attempts[c] = 0
        /\ UNCHANGED <<attempts, retryCount, endCount>>
    BY <1>4 DEF Begin, Metrics
  <2>2. \A x \in Calls : Retries(x)' = Retries(x)
    BY <1>1, <2>1 DEF Typed, Retries
  <2>3. Done' = Done
    BY <1>1, <2>1 DEF Done, Typed
  <2> QED
    BY <1>1, <1>2, <2>1, <2>2, <2>3, RetriedSame DEF Typed, Metrics, MetricsAccounted, Done
<1>5. ASSUME NEW c \in Calls, NEW d \in Durations, NEW error \in BOOLEAN, Attempt(c, d, error)
      PROVE  Metrics'
  <2>1. /\ pc[c] = "attempt" /\ pc' = [pc EXCEPT ![c] = IF error THEN "backoff" ELSE "end"]
        /\ attempts' = [attempts EXCEPT ![c] = @ + 1] /\ UNCHANGED <<retryCount, endCount>>
    BY <1>5 DEF Attempt
  <2>2. \A x \in Calls : Retries(x)' = Retries(x)
    BY <1>1, <1>3, <2>1 DEF Typed, Retries
  <2>3. Done' = Done
    BY <1>1, <2>1 DEF Done, Typed
  <2> QED
    BY <1>1, <1>2, <1>3, <2>1, <2>2, <2>3, RetriedSame DEF Typed, Metrics, MetricsAccounted, Done
<1>6. ASSUME NEW c \in Calls, GiveUp(c) PROVE Metrics'
  <2>1. /\ pc[c] = "backoff" /\ pc' = [pc EXCEPT ![c] = "end"] /\ attempts[c] > 0
        /\ UNCHANGED <<attempts, retryCount, endCount>>
    BY <1>1, <1>6 DEF GiveUp, Sound
  <2>2. \A x \in Calls : Retries(x)' = Retries(x)
    BY <1>1, <2>1 DEF Typed, Retries
  <2>3. Done' = Done
    BY <1>1, <2>1 DEF Done, Typed
  <2> QED
    BY <1>1, <1>2, <2>1, <2>2, <2>3, RetriedSame DEF Typed, Metrics, MetricsAccounted, Done
<1>7. ASSUME NEW c \in Calls, NEW w \in Waits(interval[c]), Retry(c, w) PROVE Metrics'
  <2>1. /\ pc[c] = "backoff" /\ pc' = [pc EXCEPT ![c] = "attempt"] /\ attempts[c] > 0
        /\ retryCount' = retryCount + 1 /\ UNCHANGED <<attempts, endCount>>
    BY <1>1, <1>7 DEF Retry, Sound
  <2>2. Retries(c) \in Nat /\ Retries(c)' = Retries(c) + 1
        /\ \A x \in Calls : x # c => Retries(x)' = Retries(x)
    BY <1>1, <1>3, <2>1 DEF Typed, Retries
  <2>3. IsFiniteSet(Retried') /\ Cardinality(Retried') = Cardinality(Retried) + 1
    BY <2>2, RetriedGrows DEF Metrics
  <2>4. Done' = Done
    BY <1>1, <2>1 DEF Done, Typed
  <2> QED
    BY <1>1, <1>2, <2>1, <2>3, <2>4 DEF Typed, Metrics, MetricsAccounted, Done
<1>8. ASSUME NEW c \in Calls, End(c) PROVE Metrics'
  <2>1. /\ pc[c] = "end" /\ pc' = [pc EXCEPT ![c] = "done"] /\ attempts[c] > 0
        /\ endCount' = endCount + 1 /\ UNCHANGED <<attempts, retryCount>>
    BY <1>8 DEF End, Metrics
  <2>2. \A x \in Calls : Retries(x)' = Retries(x)
    BY <1>1, <2>1 DEF Typed, Retries
  <2>3. Done' = Done \cup {c} /\ c \notin Done
    BY <1>1, <2>1 DEF Done, Typed
  <2>4. IsFiniteSet(Done)
    BY BoundAssumption, FS_Subset DEF Done
  <2>5. Cardinality(Done') = Cardinality(Done) + 1
    BY <2>3, <2>4, FS_AddElement
  <2> QED
    BY <1>1, <1>2, <2>1, <2>2, <2>5, RetriedSame DEF Typed, Metrics, MetricsAccounted, Done
<1>9. ASSUME NEW c \in Calls, Panic(c) PROVE Metrics'
  <2>1. /\ ~config.measures /\ pc[c] \in {"backoff", "end"} /\ attempts' = attempts
        /\ pc' = [pc EXCEPT ![c] = "panicked"]
    BY <1>9 DEF Panic
  <2>2. \A x \in Calls : Retries(x)' = Retries(x)
    BY <1>1, <2>1 DEF Typed, Retries
  <2> QED
    BY <1>1, <1>2, <2>1, <2>2, RetriedSame DEF Typed, Metrics, MetricsAccounted
<1>10. CASE UNCHANGED vars
  BY <1>2, <1>10 DEF vars, Metrics, MetricsAccounted, Retried, Retries
<1> QED
  BY <1>4, <1>5, <1>6, <1>7, <1>8, <1>9, <1>10 DEF Next, InsertRecords, Terminated

(* Whatever the number of calls and the order of their steps, each retry   *)
(* and each end of a call is counted once.                                 *)
THEOREM MetricsCount == Spec => []MetricsAccounted
<1>1. Init => Metrics
  BY InitMetrics
<1>2. IInv /\ Metrics /\ [Next]_vars => Metrics'
  BY NextMetrics
<1>3. Metrics => MetricsAccounted
  BY DEF Metrics
<1> QED
  BY <1>1, <1>2, <1>3, Inductive, PTL DEF Spec
=============================================================================
