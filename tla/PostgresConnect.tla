-------------------------- MODULE PostgresConnect --------------------------
(***************************************************************************)
(* The life of a postgresql Connection, postgresql/db.go: it is created    *)
(* with retries, a goroutine started by doEvery copies the statistics of   *)
(* the connection pool to the metrics every second, and Close, which any   *)
(* goroutine may call, sends that goroutine a stop signal over a channel   *)
(* with room for one and closes the pool.  Of the counters copied, the     *)
(* number of connections waited for stands for all four.                   *)
(***************************************************************************)
EXTENDS Integers, FiniteSets

CONSTANTS
  RawRetries,         \* the values of config.NumRetries
  DefaultNumRetries,  \* defaultNumRetries (0 in the code)
  Closers,            \* the calls of Close
  MaxWaits,           \* bound on the statistics, for TLC
  MaxTicks            \* bound on the measurements, for TLC

ASSUME ConstantsAssumption ==
  /\ RawRetries \subseteq Int
  /\ DefaultNumRetries \in Nat
  /\ IsFiniteSet(Closers)
  /\ MaxWaits \in Nat /\ MaxTicks \in Nat

VARIABLES
  numRetries,    \* config.NumRetries after validation
  cpc,           \* where CreateDbConnection stands
  attempts,      \* how often it has called connect
  pools,         \* connection pools opened and not closed
  waitCount,     \* WaitCount in the statistics of the pool
  baseline,      \* prevWaitCount
  mpc,           \* the metrics goroutine
  ticks,         \* how often it has measured
  SQLWaitCount,  \* measures.SQLWaitCount
  stopSignals,   \* what the stop channel holds
  close          \* where each call of Close stands

createVars  == <<numRetries, cpc, attempts>>
metricsVars == <<baseline, mpc, ticks, SQLWaitCount>>
vars == <<numRetries, cpc, attempts, pools, waitCount, baseline, mpc, ticks, SQLWaitCount,
          stopSignals, close>>

(* The part of validateConfig that the creation depends on. *)
validateConfig(n) == IF n < 0 THEN DefaultNumRetries ELSE n

Init ==
  /\ numRetries \in {validateConfig(n) : n \in RawRetries}
  /\ cpc = "connect"
  /\ attempts = 0
  /\ pools = 0
  /\ waitCount = 0
  /\ baseline = 0
  /\ mpc = "unborn"
  /\ ticks = 0
  /\ SQLWaitCount = 0
  /\ stopSignals = 0
  /\ close = [k \in Closers |-> "new"]

-----------------------------------------------------------------------------
(* CreateDbConnection. *)

ConnectSucceeds ==
  /\ cpc = "connect"
  /\ attempts' = attempts + 1
  /\ pools' = pools + 1
  /\ cpc' = "check"
  /\ UNCHANGED <<numRetries, waitCount, metricsVars, stopSignals, close>>

(* Mutant: one retry too many. *)
OneMoreLeft == attempts <= numRetries

RetriesLeft == attempts < numRetries

(* After the first call there are numRetries more, each after a sleep. *)
ConnectFails ==
  /\ cpc = "connect"
  /\ attempts' = attempts + 1
  /\ cpc' = IF RetriesLeft THEN "sleep" ELSE "failed"
  /\ UNCHANGED <<numRetries, pools, waitCount, metricsVars, stopSignals, close>>

Sleep ==
  /\ cpc = "sleep"
  /\ cpc' = "connect"
  /\ UNCHANGED <<numRetries, attempts, pools, waitCount, metricsVars, stopSignals, close>>

(* HasTable does not hold, be it that it failed; the pool that has just    *)
(* been opened is left open.                                               *)
TableMissing ==
  /\ cpc = "check"
  /\ cpc' = "failed"
  /\ UNCHANGED <<numRetries, attempts, pools, waitCount, metricsVars, stopSignals, close>>

(* HasTable holds; setupMetrics takes the baseline and starts doEvery. *)
SetUp ==
  /\ cpc = "check"
  /\ cpc' = "open"
  /\ baseline' = waitCount
  /\ mpc' = "loop"
  /\ UNCHANGED <<numRetries, attempts, pools, waitCount, ticks, SQLWaitCount, stopSignals, close>>

(* A query has to wait for a connection of the pool, whose size configure  *)
(* has limited last of all.                                                *)
QueryWaits ==
  /\ cpc = "open"
  /\ pools > 0
  /\ waitCount < MaxWaits
  /\ waitCount' = waitCount + 1
  /\ UNCHANGED <<createVars, pools, metricsVars, stopSignals, close>>

-----------------------------------------------------------------------------
(* The goroutine of doEvery. *)

(* Each measurement adds the difference from the baseline, which stays. *)
Measure ==
  /\ mpc = "loop"
  /\ ticks < MaxTicks
  /\ ticks' = ticks + 1
  /\ SQLWaitCount' = SQLWaitCount + (waitCount - baseline)
  /\ UNCHANGED <<createVars, pools, waitCount, baseline, mpc, stopSignals, close>>

(* Mutant: a break leaves the select and not the loop. *)
Break == "loop"

Return == "done"

MetricsStop ==
  /\ mpc = "loop"
  /\ stopSignals > 0
  /\ stopSignals' = stopSignals - 1
  /\ mpc' = Return
  /\ UNCHANGED <<createVars, pools, waitCount, baseline, ticks, SQLWaitCount, close>>

-----------------------------------------------------------------------------
(* Close, on a connection that was created without error. *)

CloseCall(k) ==
  /\ cpc = "open"
  /\ close[k] = "new"
  /\ close' = [close EXCEPT ![k] = "signalling"]
  /\ UNCHANGED <<createVars, pools, waitCount, metricsVars, stopSignals>>

(* Mutant: the send does not wait for room in the channel. *)
RoomOrNot == TRUE

Room == stopSignals < 1

(* Mutant: the signal is not sent. *)
Unsent == stopSignals

Sent == stopSignals + 1

Signal(k) ==
  /\ close[k] = "signalling"
  /\ Room
  /\ stopSignals' = Sent
  /\ close' = [close EXCEPT ![k] = "closing"]
  /\ UNCHANGED <<createVars, pools, waitCount, metricsVars>>

(* Closing a pool that is closed changes nothing. *)
ClosePool(k) ==
  /\ close[k] = "closing"
  /\ pools' = 0
  /\ close' = [close EXCEPT ![k] = "done"]
  /\ UNCHANGED <<createVars, waitCount, metricsVars, stopSignals>>

(* A third call finds the channel full and no one to empty it. *)
Stuck(k) == close[k] = "signalling" /\ mpc = "done" /\ ~Room

Terminated ==
  /\ \/ cpc = "failed"
     \/ mpc = "done" /\ \A k \in Closers : close[k] \in {"new", "done"} \/ Stuck(k)
  /\ UNCHANGED vars

-----------------------------------------------------------------------------

CreateDbConnection == ConnectSucceeds \/ ConnectFails \/ Sleep \/ TableMissing \/ SetUp

DoEvery == Measure \/ MetricsStop

Close(k) == Signal(k) \/ ClosePool(k)

Live ==
  \/ CreateDbConnection
  \/ QueryWaits
  \/ DoEvery
  \/ \E k \in Closers : CloseCall(k) \/ Close(k)

Next == Live \/ Terminated

Spec == Init /\ [][Next]_vars

(* Goroutines that can proceed do so; select, being random, receives the   *)
(* stop signal in the end however many ticks there are.                    *)
Fairness ==
  /\ WF_vars(CreateDbConnection)
  /\ SF_vars(MetricsStop)
  /\ \A k \in Closers : WF_vars(Close(k))

-----------------------------------------------------------------------------
(* Properties. *)

(* Types of the variables: no counter is negative (a metrics counter must  *)
(* not go down), and the stop channel holds at most one signal.            *)
TypeOK ==
  /\ numRetries \in Nat
  /\ cpc \in {"connect", "sleep", "check", "open", "failed"}
  /\ attempts \in Nat
  /\ pools \in 0 .. 1
  /\ waitCount \in Nat
  /\ baseline \in Nat
  /\ mpc \in {"unborn", "loop", "done"}
  /\ ticks \in Nat
  /\ SQLWaitCount \in Nat
  /\ stopSignals \in 0 .. 1
  /\ close \in [Closers -> {"new", "signalling", "closing", "done"}]

(* The creation fails only after 1 + NumRetries attempts or, connected,    *)
(* for want of the table, when it leaves a pool open; every other failure  *)
(* leaves none.                                                            *)
FailsOnlyAfterRetries ==
  /\ attempts <= numRetries + 1
  /\ cpc = "failed" /\ pools = 0 => attempts = numRetries + 1

(* Once a Close has returned the pool is closed and stays closed, and the  *)
(* metrics goroutine has ended or has its stop signal waiting.             *)
ClosedStaysClosed ==
  (\E k \in Closers : close[k] = "done") => pools = 0 /\ (mpc = "done" \/ stopSignals = 1)

(* Once Close is called the metrics goroutine ends, and the call returns   *)
(* unless two others do: one signal is taken by the goroutine, another one *)
(* stays in the channel, and a third call waits for ever.                  *)
CloseEndsAll ==
  \A k \in Closers :
    close[k] = "signalling" ~>
      /\ mpc = "done"
      /\ \/ close[k] = "done"
         \/ Cardinality({j \in Closers : close[j] = "done"}) = 2

-----------------------------------------------------------------------------

(* postgresql/metrics.go:50: "The total number of connections waited for". *)
WaitsCountedOnce == SQLWaitCount <= waitCount
=============================================================================
