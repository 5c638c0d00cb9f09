--------------------------- MODULE ListRefresher ---------------------------
(***************************************************************************)
(* blacklist/blacklist.go: a goroutine copies the blacklist table into a   *)
(* map at start and at every tick; callers of InList look a device up in   *)
(* that map, first as it is, then against every key as a regular           *)
(* expression, in the random order of a Go map.  A read-write lock guards  *)
(* the map: a writer that waits keeps new readers out, and its Unlock lets *)
(* in all that wait.  The table, which others change, takes the values of  *)
(* TableHistory one after the other; the stop channel is closed once.      *)
(***************************************************************************)
EXTENDS Integers, Sequences, FiniteSets, FiniteSetsExt

CONSTANTS
  Devices,       \* the device ids callers ask about
  TableHistory,  \* the contents of the table, as sequences of BlackListedItems
  Matches,       \* pairs of a key that compiles and a device it matches
  Callers        \* goroutines that call InList

Items(list) == {list[i] : i \in DOMAIN list}

ASSUME TableAssumption ==
  /\ TableHistory \in Seq(Seq([ID : STRING, Reason : STRING]))
  /\ TableHistory # << >>

ASSUME CallersAssumption == IsFiniteSet(Callers)

VARIABLES
  version,    \* which of TableHistory the table holds
  stopped,    \* the stop channel is closed
  rpc,        \* where the refresher goroutine stands
  fetched,    \* the version GetBlacklist returned last
  rules,      \* m.rules: a function from keys to reasons
  installed,  \* the version it was built from, 0 for the initial empty map
  pc,         \* where each caller stands in InList
  device,     \* the device it asks about
  left,       \* the keys it has not tried as regular expressions
  answer      \* what it is about to return: a set of one reason, or {} if not listed

refreshVars == <<rpc, fetched, rules, installed>>
callVars    == <<pc, device, left, answer>>
vars == <<version, stopped, rpc, fetched, rules, installed, pc, device, left, answer>>

NoRules == [k \in {} |-> ""]

(* UpdateList: of several items with the same id the last one counts. *)
MapOf(list) ==
  [k \in {item.ID : item \in Items(list)} |->
     list[Max({i \in DOMAIN list : list[i].ID = k})].Reason]

Init ==
  /\ version = 1
  /\ stopped = FALSE
  /\ rpc = "updating"
  /\ fetched = 0
  /\ rules = NoRules
  /\ installed = 0
  /\ pc = [c \in Callers |-> "idle"]
  /\ device = [c \in Callers |-> CHOOSE d \in Devices : TRUE]
  /\ left = [c \in Callers |-> {}]
  /\ answer = [c \in Callers |-> {}]

TableChanges ==
  /\ version < Len(TableHistory)
  /\ version' = version + 1
  /\ UNCHANGED <<stopped, refreshVars, callVars>>

StopClosed ==
  /\ ~stopped
  /\ stopped' = TRUE
  /\ UNCHANGED <<version, refreshVars, callVars>>

-----------------------------------------------------------------------------
(* The refresher goroutine: updateList, then the loop around it. *)

Fetch ==
  /\ rpc = "updating"
  /\ fetched' = version
  /\ rpc' = "locking"
  /\ UNCHANGED <<version, stopped, rules, installed, callVars>>

(* Mutant: the goroutine returns when a query fails. *)
GivesUp == "done"

GoesOn == "select"

(* An error is logged and the old map stays. *)
FetchFails ==
  /\ rpc = "updating"
  /\ rpc' = GoesOn
  /\ UNCHANGED <<version, stopped, fetched, rules, installed, callVars>>

Reading(c) == pc[c] \in {"exact", "scan", "unlock"}

Admit(c) == IF pc[c] = "waiting" THEN "exact" ELSE pc[c]

(* Mutant: the lock is not released, and no waiting reader gets in. *)
StillLocked == pc

WriterUnlock == [c \in Callers |-> Admit(c)]

(* Mutant: the map is swapped without the lock. *)
Unlocked == TRUE

LockFree == \A c \in Callers : ~Reading(c)

(* The new map is swapped in once the lock is free of readers; those that  *)
(* have been kept out meanwhile get in.                                    *)
Swap ==
  /\ rpc = "locking"
  /\ LockFree
  /\ rules' = MapOf(TableHistory[fetched])
  /\ installed' = fetched
  /\ rpc' = "select"
  /\ pc' = WriterUnlock
  /\ UNCHANGED <<version, stopped, fetched, device, left, answer>>

Tick ==
  /\ rpc = "select"
  /\ rpc' = "updating"
  /\ UNCHANGED <<version, stopped, fetched, rules, installed, callVars>>

(* Mutant: a break leaves the select and not the loop. *)
Break == "select"

Return == "done"

RefresherStops ==
  /\ rpc = "select"
  /\ stopped
  /\ rpc' = Return
  /\ UNCHANGED <<version, stopped, fetched, rules, installed, callVars>>

-----------------------------------------------------------------------------
(* InList. *)

(* RLock returns at once, unless a writer is waiting. *)
ReadLock(c, d) ==
  /\ pc[c] = "idle"
  /\ pc' = [pc EXCEPT ![c] = IF rpc = "locking" THEN "waiting" ELSE "exact"]
  /\ device' = [device EXCEPT ![c] = d]
  /\ UNCHANGED <<version, stopped, refreshVars, left, answer>>

Exact(c) ==
  /\ pc[c] = "exact"
  /\ device[c] \in DOMAIN rules
  /\ answer' = [answer EXCEPT ![c] = {rules[device[c]]}]
  /\ pc' = [pc EXCEPT ![c] = "unlock"]
  /\ UNCHANGED <<version, stopped, refreshVars, device, left>>

NotExact(c) ==
  /\ pc[c] = "exact"
  /\ device[c] \notin DOMAIN rules
  /\ left' = [left EXCEPT ![c] = DOMAIN rules]
  /\ pc' = [pc EXCEPT ![c] = "scan"]
  /\ UNCHANGED <<version, stopped, refreshVars, device, answer>>

TryKey(c, k) ==
  /\ pc[c] = "scan"
  /\ k \in left[c]
  /\ IF <<k, device[c]>> \in Matches
     THEN /\ answer' = [answer EXCEPT ![c] = {rules[k]}]
          /\ pc' = [pc EXCEPT ![c] = "unlock"]
          /\ left' = [left EXCEPT ![c] = {}]
     ELSE /\ left' = [left EXCEPT ![c] = @ \ {k}]
          /\ UNCHANGED <<answer, pc>>
  /\ UNCHANGED <<version, stopped, refreshVars, device>>

NoKeyLeft(c) ==
  /\ pc[c] = "scan"
  /\ left[c] = {}
  /\ answer' = [answer EXCEPT ![c] = {}]
  /\ pc' = [pc EXCEPT ![c] = "unlock"]
  /\ UNCHANGED <<version, stopped, refreshVars, device, left>>

ReadUnlock(c) ==
  /\ pc[c] = "unlock"
  /\ pc' = [pc EXCEPT ![c] = "idle"]
  /\ answer' = [answer EXCEPT ![c] = {}]
  /\ UNCHANGED <<version, stopped, refreshVars, device, left>>

-----------------------------------------------------------------------------

Refresh == Fetch \/ FetchFails \/ Swap \/ Tick \/ RefresherStops

InList(c) ==
  \/ Exact(c)
  \/ NotExact(c)
  \/ \E k \in left[c] : TryKey(c, k)
  \/ NoKeyLeft(c)
  \/ ReadUnlock(c)

Next ==
  \/ TableChanges
  \/ StopClosed
  \/ Refresh
  \/ \E c \in Callers : InList(c) \/ \E d \in Devices : ReadLock(c, d)

Spec == Init /\ [][Next]_vars

(* The goroutines run; select, being random, does not pass over a closed   *)
(* channel for ever; a query that is repeated succeeds at last.            *)
FairSpec ==
  /\ Spec
  /\ WF_vars(Refresh)
  /\ SF_vars(RefresherStops)
  /\ SF_vars(Fetch)
  /\ \A c \in Callers : WF_vars(InList(c))

-----------------------------------------------------------------------------
(* Properties. *)

Versions == 1 .. Len(TableHistory)

(* Types of the variables. *)
TypeOK ==
  /\ version \in Versions
  /\ stopped \in BOOLEAN
  /\ rpc \in {"updating", "locking", "select", "done"}
  /\ fetched \in Versions \cup {0}
  /\ installed \in Versions \cup {0}
  /\ rules \in {NoRules} \cup {MapOf(TableHistory[v]) : v \in Versions}
  /\ pc \in [Callers -> {"idle", "waiting", "exact", "scan", "unlock"}]
  /\ device \in [Callers -> Devices]
  /\ \A c \in Callers : left[c] \subseteq DOMAIN rules /\ Cardinality(answer[c]) <= 1

(* What InList may answer by a map: the reason of the device's own entry,  *)
(* or else that of any key that matches it.                                *)
Answers(map, d) ==
  IF d \in DOMAIN map THEN {{map[d]}}
  ELSE LET hits == {k \in DOMAIN map : <<k, d>> \in Matches}
       IN IF hits = {} THEN {{}} ELSE {{map[k]} : k \in hits}

(* The list that was fetched last, after a failed query still. *)
InForce == IF installed = 0 THEN NoRules ELSE MapOf(TableHistory[installed])

(* An answer is what one list gives, the one that was fetched last when    *)
(* InList returns: not the keys of a list with the reasons of another, nor *)
(* a miss because the list changed while it was scanned or because a query *)
(* has failed.                                                             *)
AnswerOfOneList ==
  \A c \in Callers : /\ pc[c] = "unlock" => answer[c] \in Answers(InForce, device[c])
                     /\ left[c] \subseteq DOMAIN InForce

(* A change of the table takes effect in the end, unless stopped before.   *)
ChangeTakesEffect ==
  \A v \in Versions : version = v ~> (installed >= v \/ stopped)

(* Closing the stop channel ends the refresher, readers notwithstanding.   *)
StopEndsRefresher == stopped ~> rpc = "done"

(* InList returns: a reader that is kept out by the refresher, which older *)
(* readers keep waiting in their turn, gets in and ends, however often the *)
(* list is refreshed.                                                      *)
InListReturns == \A c \in Callers : pc[c] # "idle" ~> pc[c] = "idle"
=============================================================================
