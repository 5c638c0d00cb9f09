----------------------------- MODULE RecordSink -----------------------------
(***************************************************************************)
(* What a batch inserter promises its callers, without queue, batches or   *)
(* workers: an event handed over is either refused or accepted; an         *)
(* accepted event reaches the database in exactly one attempt, together    *)
(* with at most MaxGroup - 1 other events that share its outcome; and once *)
(* the service has stopped nothing that was accepted is left behind.       *)
(***************************************************************************)
EXTENDS FiniteSets, Integers

CONSTANT
  Records   \* the events callers may hand over

VARIABLES
  status,     \* what has become of each event
  service,    \* whether the service still takes events
  groupLimit  \* the largest number of events in one attempt, 0 for no limit

sinkVars == <<status, service, groupLimit>>

Statuses == {"new", "refused", "accepted", "stored", "dropped"}

Init ==
  /\ status = [r \in Records |-> "new"]
  /\ service = "open"
  /\ groupLimit \in Nat

(* An event is turned down: a field is missing, or the service is closed. *)
Refuse(r) ==
  /\ status[r] = "new"
  /\ status' = [status EXCEPT ![r] = "refused"]
  /\ UNCHANGED <<service, groupLimit>>

Accept(r) ==
  /\ service = "open"
  /\ status[r] = "new"
  /\ status' = [status EXCEPT ![r] = "accepted"]
  /\ UNCHANGED <<service, groupLimit>>

(* One attempt at the database, which stores the whole group or none of it *)
(* as far as the service can tell.                                         *)
Deliver(group, result) ==
  /\ service # "stopped"
  /\ group # {}
  /\ groupLimit = 0 \/ Cardinality(group) <= groupLimit
  /\ \A r \in group : status[r] = "accepted"
  /\ status' = [r \in Records |-> IF r \in group THEN result ELSE status[r]]
  /\ UNCHANGED <<service, groupLimit>>

Close ==
  /\ service = "open"
  /\ service' = "closing"
  /\ UNCHANGED <<status, groupLimit>>

Finish ==
  /\ service = "closing"
  /\ \A r \in Records : status[r] # "accepted"
  /\ service' = "stopped"
  /\ UNCHANGED <<status, groupLimit>>

Next ==
  \/ \E r \in Records : Refuse(r) \/ Accept(r)
  \/ \E group \in SUBSET Records, result \in {"stored", "dropped"} : Deliver(group, result)
  \/ Close
  \/ Finish

Spec == Init /\ [][Next]_sinkVars
=============================================================================
