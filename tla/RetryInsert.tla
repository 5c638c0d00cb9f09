---------------------------- MODULE RetryInsert ----------------------------
(***************************************************************************)
(* retry/retry.go: RetryInsertService repeats a failing InsertRecords with *)
(* exponential backoff.  Several goroutines call it at once; each call has *)
(* a copy of the backoff of its own.  The backoff library is external: its *)
(* loop is modelled from how the service uses it, and may count the coming *)
(* wait against MaxElapsedTime or not.  Time is in whole units.  `age` is  *)
(* what a copy of the backoff takes for the time since it was reset;       *)
(* `spent`, which the code does not have, is the time since the call       *)
(* began, and no other call can touch it.                                  *)
(***************************************************************************)
EXTENDS Integers, FiniteSets

CONSTANTS
  Calls,           \* the calls of InsertRecords
  RawConfigs,      \* the backoff values passed to WithBackoff, and whether
                   \* WithMeasures was given a provider
  DefaultBackoff,  \* the values of backoff.NewExponentialBackOff
  Foresight,       \* whether the library makes no attempt that would start after
                   \* MaxElapsedTime: the possible answers
  Durations,       \* how long an attempt may take
  MaxAttempts      \* bound on the attempts of a call, for TLC

BackoffType ==
  [InitialInterval : Int, RandomizationFactor : Int, Multiplier : Int, MaxInterval : Int,
   MaxElapsedTime : Int]

ASSUME ConfigAssumption ==
  /\ \A raw \in RawConfigs : raw.backoff \in BackoffType /\ raw.measures \in BOOLEAN
  /\ DefaultBackoff \in BackoffType
  /\ DefaultBackoff.Multiplier >= 1
  /\ \A f \in DOMAIN DefaultBackoff : DefaultBackoff[f] >= 0
  /\ Foresight \subseteq BOOLEAN

ASSUME BoundAssumption ==
  /\ IsFiniteSet(Calls)
  /\ Durations \subseteq Nat \ {0}
  /\ MaxAttempts \in Nat \ {0}

VARIABLES
  config,      \* ri.config: the backoff after validation, and whether measures are set
  looksAhead,  \* the answer for this library
  pc,          \* where each call stands
  age,         \* the time since the call reset its copy of the backoff
  spent,       \* the time since the call began
  interval,    \* currentInterval of its copy
  attempts,    \* how often it has called the wrapped inserter
  failed,      \* whether its last attempt returned an error
  retryCount,  \* measures.SQLQueryRetryCount
  endCount     \* measures.SQLQueryEndCount

vars ==
  <<config, looksAhead, pc, age, spent, interval, attempts, failed, retryCount, endCount>>

-----------------------------------------------------------------------------
(* WithBackoff replaces invalid values by those of the library.  Factors   *)
(* of randomization are in tenths.                                         *)
WithBackoff(raw) ==
  LET Valid(f, least) == IF raw[f] < least THEN DefaultBackoff[f] ELSE raw[f]
  IN [InitialInterval     |-> Valid("InitialInterval", 0),
      RandomizationFactor |-> Valid("RandomizationFactor", 0),
      Multiplier          |-> Valid("Multiplier", 1),
      MaxInterval         |-> Valid("MaxInterval", 0),
      MaxElapsedTime      |-> Valid("MaxElapsedTime", 0)]

CreateRetryInsertService(raw) == [backoff |-> WithBackoff(raw.backoff), measures |-> raw.measures]

Backoff == config.backoff

Init ==
  /\ config \in {CreateRetryInsertService(raw) : raw \in RawConfigs}
  /\ looksAhead \in Foresight
  /\ pc = [c \in Calls |-> "new"]
  /\ age = [c \in Calls |-> 0]
  /\ spent = [c \in Calls |-> 0]
  /\ interval = [c \in Calls |-> 0]
  /\ attempts = [c \in Calls |-> 0]
  /\ failed = [c \in Calls |-> FALSE]
  /\ retryCount = 0
  /\ endCount = 0

-----------------------------------------------------------------------------
(* The backoff library. *)

LongestWait(i) == ((10 + Backoff.RandomizationFactor) * i) \div 10

(* The random waits around an interval; one below zero is none. *)
Waits(i) == {w \in 0 .. LongestWait(i) : 10 * w >= (10 - Backoff.RandomizationFactor) * i}

NextInterval(i) ==
  IF i * Backoff.Multiplier >= Backoff.MaxInterval THEN Backoff.MaxInterval
                                                   ELSE i * Backoff.Multiplier

Limited == Backoff.MaxElapsedTime # 0

OutOfTime(c, w) ==
  Limited /\ age[c] + (IF looksAhead THEN w ELSE 0) > Backoff.MaxElapsedTime

-----------------------------------------------------------------------------
(* InsertRecords. *)

(* Mutant: all calls use, and reset, the one configured backoff. *)
ResetShared(f, c, value) == [x \in Calls |-> value]

Reset(f, c, value) == [f EXCEPT ![c] = value]

(* The copy of the configured backoff is reset. *)
Begin(c) ==
  /\ pc[c] = "new"
  /\ pc' = [pc EXCEPT ![c] = "attempt"]
  /\ age' = Reset(age, c, 0)
  /\ interval' = Reset(interval, c, Backoff.InitialInterval)
  /\ spent' = [spent EXCEPT ![c] = 0]
  /\ UNCHANGED <<config, looksAhead, attempts, failed, retryCount, endCount>>

(* One call of the wrapped inserter. *)
Attempt(c, d, error) ==
  /\ pc[c] = "attempt"
  /\ attempts[c] < MaxAttempts
  /\ attempts' = [attempts EXCEPT ![c] = @ + 1]
  /\ age' = [age EXCEPT ![c] = @ + d]
  /\ spent' = [spent EXCEPT ![c] = @ + d]
  /\ failed' = [failed EXCEPT ![c] = error]
  /\ pc' = [pc EXCEPT ![c] = IF error THEN "backoff" ELSE "end"]
  /\ UNCHANGED <<config, looksAhead, interval, retryCount, endCount>>

GiveUp(c) ==
  /\ pc[c] = "backoff"
  /\ \E w \in Waits(interval[c]) : OutOfTime(c, w)
  /\ pc' = [pc EXCEPT ![c] = "end"]
  /\ UNCHANGED <<config, looksAhead, age, spent, interval, attempts, failed, retryCount, endCount>>

(* Mutant: every retry resets the clock. *)
SleptOnly(since, w) == w

Slept(since, w) == since + w

(* AddRetryMetric is called, then the goroutine sleeps. *)
Retry(c, w) ==
  /\ pc[c] = "backoff"
  /\ ~OutOfTime(c, w)
  /\ config.measures
  /\ retryCount' = retryCount + 1
  /\ interval' = [interval EXCEPT ![c] = NextInterval(@)]
  /\ age' = [age EXCEPT ![c] = Slept(@, w)]
  /\ spent' = [spent EXCEPT ![c] = @ + w]
  /\ pc' = [pc EXCEPT ![c] = "attempt"]
  /\ UNCHANGED <<config, looksAhead, attempts, failed, endCount>>

(* Mutant: only a success is counted. *)
EndedWell(c) == IF failed[c] THEN 0 ELSE 1

Ended(c) == 1

End(c) ==
  /\ pc[c] = "end"
  /\ config.measures
  /\ endCount' = endCount + Ended(c)
  /\ pc' = [pc EXCEPT ![c] = "done"]
  /\ UNCHANGED <<config, looksAhead, age, spent, interval, attempts, failed, retryCount>>

(* Without measures the first use of a counter panics: in AddRetryMetric   *)
(* when a failed attempt is to be repeated, else on the way out.           *)
Panic(c) ==
  /\ ~config.measures
  /\ \/ pc[c] = "backoff" /\ \E w \in Waits(interval[c]) : ~OutOfTime(c, w)
     \/ pc[c] = "end"
  /\ pc' = [pc EXCEPT ![c] = "panicked"]
  /\ UNCHANGED <<config, looksAhead, age, spent, interval, attempts, failed, retryCount, endCount>>

(* All calls are over, or at the bound. *)
Terminated ==
  /\ \A c \in Calls : \/ pc[c] \in {"done", "panicked"}
                      \/ pc[c] = "attempt" /\ attempts[c] = MaxAttempts
  /\ UNCHANGED vars

InsertRecords(c) ==
  \/ \E d \in Durations, error \in BOOLEAN : Attempt(c, d, error)
  \/ GiveUp(c)
  \/ \E w \in Waits(interval[c]) : Retry(c, w)
  \/ End(c)
  \/ Panic(c)

Next == (\E c \in Calls : Begin(c) \/ InsertRecords(c)) \/ Terminated

Spec == Init /\ [][Next]_vars

(* A goroutine in InsertRecords runs on; each attempt returns in the end.  *)
FairSpec == Spec /\ \A c \in Calls : WF_vars(InsertRecords(c))

-----------------------------------------------------------------------------
(* Properties. *)

(* Types of the variables. *)
TypeOK ==
  /\ config \in {CreateRetryInsertService(raw) : raw \in RawConfigs}
  /\ looksAhead \in Foresight
  /\ pc \in [Calls -> {"new", "attempt", "backoff", "end", "done", "panicked"}]
  /\ age \in [Calls -> Nat]
  /\ spent \in [Calls -> Nat]
  /\ interval \in [Calls -> Nat]
  /\ attempts \in [Calls -> 0 .. MaxAttempts]
  /\ failed \in [Calls -> BOOLEAN]
  /\ retryCount \in Nat
  /\ endCount \in Nat

LongestInterval ==
  IF Backoff.InitialInterval > Backoff.MaxInterval THEN Backoff.InitialInterval
                                                   ELSE Backoff.MaxInterval

(* No attempt starts later than MaxElapsedTime and one longest wait after  *)
(* the call began, by a clock that other calls cannot reset: this bounds   *)
(* how long a call keeps a worker busy while others begin and retry.       *)
AttemptsStartInTime ==
  \A c \in Calls :
    pc[c] = "attempt" /\ Limited =>
      spent[c] <= Backoff.MaxElapsedTime
                    + IF looksAhead \/ attempts[c] = 0 THEN 0 ELSE LongestWait(LongestInterval)

(* The retries the service has decided on, those of one call numbered: all *)
(* but the first of the attempts, and the one that is about to start.      *)
Retries(c) == CASE pc[c] = "new"     -> 0
                [] pc[c] = "attempt" -> attempts[c]
                [] OTHER             -> attempts[c] - 1

Retried == UNION {{c} \X (1 .. Retries(c)) : c \in Calls}

(* The metrics count every repeated attempt and every finished call once,  *)
(* whatever way the calls interleave.                                      *)
MetricsAccounted ==
  config.measures =>
    /\ retryCount = Cardinality(Retried)
    /\ endCount = Cardinality({c \in Calls : pc[c] = "done"})

(* A call that has begun returns, or panics for want of measures, if there *)
(* is a limit.                                                             *)
CallsEnd ==
  \A c \in Calls :
    (pc[c] = "attempt" /\ Limited) ~> (pc[c] = "done" \/ (pc[c] = "panicked" /\ ~config.measures))
=============================================================================
