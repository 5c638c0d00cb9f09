------------------------ MODULE ListRefresherProofs ------------------------
(***************************************************************************)
(* Proofs about ListRefresher, for any history of the table, any relation  *)
(* between keys and devices, and any number of callers.                    *)
(***************************************************************************)
EXTENDS ListRefresher, TLAPS

USE DEF LockFree, GoesOn, Return, WriterUnlock, Admit

(* The variables of the callers are functions of the callers. *)
Calls ==
  /\ pc = [c \in Callers |-> pc[c]]
  /\ device = [c \in Callers |-> device[c]]
  /\ left = [c \in Callers |-> left[c]]
  /\ answer = [c \in Callers |-> answer[c]]

(* A caller that scans has found no entry of its own for the device, and   *)
(* none of the keys it has tried matches; only such a caller has keys left *)
(* to try.  What it is about to return is an answer by the map.            *)
Sound(c) ==
  /\ pc[c] # "scan" => left[c] = {}
  /\ pc[c] = "scan" =>
       /\ device[c] \notin DOMAIN rules
       /\ left[c] \subseteq DOMAIN rules
       /\ \A k \in DOMAIN rules \ left[c] : <<k, device[c]>> \notin Matches
  /\ pc[c] = "unlock" => answer[c] \in Answers(rules, device[c])
  /\ pc[c] \in {"idle", "waiting", "exact", "scan", "unlock"}

(* A list that waits to be put in force has been fetched.                  *)
Fetched == version \in Nat \ {0} /\ (rpc = "locking" => fetched \in Nat \ {0})

(* The map in use is that of the list put in force last.                   *)
IInv == Fetched /\ rules = InForce /\ Calls /\ \A c \in Callers : Sound(c)

LEMMA InitIInv == Init => IInv
  BY DEF Init, IInv, Fetched, InForce, Calls, Sound

(* The steps of one caller leave the map and the other callers alone.      *)
LEMMA StaysSound ==
  ASSUME NEW x, Sound(x), rules' = rules, pc'[x] = pc[x], device'[x] = device[x],
         left'[x] = left[x], answer'[x] = answer[x]
  PROVE  Sound(x)'
  BY DEF Sound, Answers

(* What Exact and TryKey return, and NoKeyLeft, are answers by the map.    *)
LEMMA ExactAnswers ==
  ASSUME NEW map, NEW d \in DOMAIN map
  PROVE  {map[d]} \in Answers(map, d)
  BY DEF Answers

LEMMA KeyAnswers ==
  ASSUME NEW map, NEW d, d \notin DOMAIN map, NEW k \in DOMAIN map, <<k, d>> \in Matches
  PROVE  {map[k]} \in Answers(map, d)
<1> DEFINE hits == {j \in DOMAIN map : <<j, d>> \in Matches}
<1>1. k \in hits
  OBVIOUS
<1>2. Answers(map, d) = {{map[j]} : j \in hits}
  BY <1>1 DEF Answers
<1> QED
  BY <1>1, <1>2

LEMMA MissAnswers ==
  ASSUME NEW map, NEW d, d \notin DOMAIN map, \A k \in DOMAIN map : <<k, d>> \notin Matches
  PROVE  {} \in Answers(map, d)
<1>1. {k \in DOMAIN map : <<k, d>> \in Matches} = {}
  OBVIOUS
<1> QED
  BY <1>1 DEF Answers

LEMMA NextFetched == Fetched /\ [Next]_vars => Fetched'
<1> SUFFICES ASSUME Fetched, [Next]_vars PROVE Fetched'
  OBVIOUS
<1> USE DEF Fetched
<1>1. CASE TableChanges
  BY <1>1 DEF TableChanges, refreshVars
<1>2. CASE UNCHANGED <<version, refreshVars>>
  BY <1>2 DEF refreshVars
<1>3. CASE Refresh
  BY <1>3 DEF Refresh, Fetch, FetchFails, Swap, Tick, RefresherStops
<1> QED
  BY <1>1, <1>2, <1>3
  DEF Next, StopClosed, InList, ReadLock, Exact, NotExact, TryKey, NoKeyLeft, ReadUnlock, vars,
      refreshVars

LEMMA NextIInv == IInv /\ [Next]_vars => IInv'
<1> SUFFICES ASSUME IInv, [Next]_vars PROVE IInv'
  OBVIOUS
<1> USE DEF Calls
<1>a. Calls /\ \A x \in Callers : Sound(x)
  BY DEF IInv
<1>g. Fetched'
  BY NextFetched DEF IInv
<1>f. ASSUME UNCHANGED <<rules, installed>> PROVE (rules = InForce)'
  BY <1>f DEF IInv, InForce
<1>1. CASE UNCHANGED <<rules, installed, callVars>>
  <2>1. \A x \in Callers : Sound(x)'
    BY <1>1, <1>a, StaysSound DEF callVars
  <2> QED
    BY <1>1, <1>a, <1>f, <1>g, <2>1 DEF IInv, callVars
<1>2. CASE Swap
  <2>1. \A x \in Callers : pc[x] \in {"idle", "waiting"} /\ left[x] = {}
    BY <1>2, <1>a DEF Swap, Reading, Sound
  <2>2. \A x \in Callers : pc'[x] \in {"idle", "exact"} /\ left'[x] = {}
    BY <1>2, <2>1 DEF Swap
  <2>3. Calls' /\ \A x \in Callers : Sound(x)'
    BY <1>2, <1>a, <2>2 DEF Swap, Sound
  <2>4. (rules = InForce)'
    <3>1. fetched # 0
      BY <1>2 DEF Swap, IInv, Fetched
    <3> QED
      BY <1>2, <3>1 DEF Swap, InForce
  <2> QED
    BY <1>g, <2>3, <2>4 DEF IInv
<1>b. ASSUME NEW c \in Callers, UNCHANGED <<rules, installed>>, Calls', Sound(c)',
             \A x \in Callers \ {c} : /\ pc'[x] = pc[x] /\ device'[x] = device[x]
                                      /\ left'[x] = left[x] /\ answer'[x] = answer[x]
      PROVE  IInv'
  <2>1. ASSUME NEW x \in Callers PROVE Sound(x)'
    <3>1. CASE x = c
      BY <1>b, <3>1
    <3>2. CASE x # c
      BY <1>a, <1>b, <3>2, StaysSound
    <3> QED
      BY <3>1, <3>2
  <2> QED
    BY <1>b, <1>f, <1>g, <2>1 DEF IInv
<1>3. ASSUME NEW c \in Callers, NEW d \in Devices, ReadLock(c, d) PROVE IInv'
  <2>1. Calls' /\ Sound(c)'
    BY <1>3, <1>a DEF ReadLock, Sound
  <2> QED
    BY <1>3, <1>a, <2>1, <1>b DEF ReadLock, refreshVars
<1>4. ASSUME NEW c \in Callers, Exact(c) PROVE IInv'
  <2>1. answer'[c] \in Answers(rules, device[c])
    BY <1>4, <1>a, ExactAnswers DEF Exact
  <2>2. rules' = rules /\ device' = device /\ left' = left /\ pc'[c] = "unlock" /\ left[c] = {} /\ Calls'
    BY <1>4, <1>a DEF Exact, refreshVars, Sound
  <2>3. Sound(c)'
    BY <2>1, <2>2 DEF Sound, Answers
  <2> QED
    BY <1>4, <1>a, <2>2, <2>3, <1>b DEF Exact, refreshVars
<1>5. ASSUME NEW c \in Callers, NotExact(c) PROVE IInv'
  <2>1. Calls' /\ Sound(c)' /\ rules' = rules
    BY <1>5, <1>a DEF NotExact, Sound, refreshVars
  <2> QED
    BY <1>5, <1>a, <2>1, <1>b DEF NotExact, refreshVars
<1>6. ASSUME NEW c \in Callers, NEW k \in left[c], TryKey(c, k) PROVE IInv'
  <2>0. /\ pc[c] = "scan" /\ rules' = rules /\ device' = device
        /\ device[c] \notin DOMAIN rules /\ left[c] \subseteq DOMAIN rules
        /\ \A j \in DOMAIN rules \ left[c] : <<j, device[c]>> \notin Matches
    BY <1>6, <1>a DEF TryKey, refreshVars, Sound
  <2>1. CASE <<k, device[c]>> \in Matches
    <3>1. answer'[c] = {rules[k]} /\ left'[c] = {} /\ pc'[c] = "unlock" /\ Calls'
      BY <1>6, <1>a, <2>0, <2>1 DEF TryKey
    <3>2. {rules[k]} \in Answers(rules, device[c])
      BY <2>0, <2>1, KeyAnswers
    <3>3. Sound(c)'
      BY <2>0, <3>1, <3>2 DEF Sound, Answers
    <3> QED
      BY <1>6, <1>a, <2>0, <2>1, <3>1, <3>3, <1>b DEF TryKey, refreshVars
  <2>2. CASE <<k, device[c]>> \notin Matches
    <3>1. left'[c] = left[c] \ {k} /\ pc' = pc /\ answer' = answer /\ Calls'
      BY <1>6, <1>a, <2>0, <2>2 DEF TryKey
    <3>2. Sound(c)'
      BY <2>0, <2>2, <3>1 DEF Sound
    <3> QED
      BY <1>6, <1>a, <2>0, <2>2, <3>1, <3>2, <1>b DEF TryKey, refreshVars
  <2> QED
    BY <2>1, <2>2
<1>7. ASSUME NEW c \in Callers, NoKeyLeft(c) PROVE IInv'
  <2>1. /\ answer'[c] = {} /\ rules' = rules /\ device' = device /\ left' = left
        /\ pc'[c] = "unlock" /\ left[c] = {} /\ Calls'
        /\ device[c] \notin DOMAIN rules
        /\ \A k \in DOMAIN rules : <<k, device[c]>> \notin Matches
    BY <1>7, <1>a DEF NoKeyLeft, refreshVars, Sound
  <2>2. {} \in Answers(rules, device[c])
    BY <2>1, MissAnswers
  <2>3. Sound(c)'
    BY <2>1, <2>2 DEF Sound, Answers
  <2> QED
    BY <1>7, <1>a, <2>1, <2>3, <1>b DEF NoKeyLeft, refreshVars
<1>8. ASSUME NEW c \in Callers, ReadUnlock(c) PROVE IInv'
  <2>1. Calls' /\ Sound(c)' /\ rules' = rules
    BY <1>8, <1>a DEF ReadUnlock, Sound, refreshVars
  <2> QED
    BY <1>8, <1>a, <2>1, <1>b DEF ReadUnlock, refreshVars
<1> QED
  BY <1>1, <1>2, <1>3, <1>4, <1>5, <1>6, <1>7, <1>8
  DEF Next, Refresh, InList, TableChanges, StopClosed, Fetch, FetchFails, Tick, RefresherStops,
      refreshVars, vars, callVars

(* The inductive invariant holds in every reachable state.                 *)
THEOREM Inductive == Spec => []IInv
<1>1. Init => IInv
  BY InitIInv
<1>2. IInv /\ [Next]_vars => IInv'
  BY NextIInv
<1> QED
  BY <1>1, <1>2, PTL DEF Spec

(* However often the list is refreshed, what InList answers is what one    *)
(* list gives, the one that is in force when it returns.                   *)
THEOREM OneListAnswers == Spec => []AnswerOfOneList
<1>1. IInv => AnswerOfOneList
  BY DEF IInv, Sound, AnswerOfOneList
<1> QED
  BY <1>1, Inductive, PTL
=============================================================================
