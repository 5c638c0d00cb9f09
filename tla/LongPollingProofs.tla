------------------------- MODULE LongPollingProofs -------------------------
(***************************************************************************)
(* Proofs about LongPolling, for any records, birth dates and limit.       *)
(***************************************************************************)
EXTENDS LongPolling, TLAPS, FiniteSetTheorems

LEMMA StampsType ==
  ASSUME NEW t \in Nat \ {0}, NEW id \in Stamps(t)
  PROVE  id \in Nat \ {0}
  BY DEF Stamps

LEMMA TimeMonotone ==
  ASSUME NEW i \in Nat, NEW j \in Nat, i <= j
  PROVE  Time(i) <= Time(j) /\ Time(i) \in Nat
<1>1. (i \div 2) <= (j \div 2)
  OBVIOUS
<1>2. i \div 2 \in Nat
  OBVIOUS
<1> QED
  BY <1>1, <1>2 DEF Time

LEMMA InitTypeOK == Init => TypeOK
  BY ConstantsAssumption DEF Init, TypeOK

LEMMA GuessType ==
  ASSUME TypeOK, Guess
  PROVE  hash' \in Nat \ {0}
<1>1. PICK t \in {birth[row.record] : row \in answer} :
        hash' \in Stamps(IF t > 0 THEN t ELSE now)
  BY DEF Guess
<1>2. t \in Nat
  BY ConstantsAssumption DEF TypeOK, Rows
<1>3. now \in Nat \ {0}
  BY ConstantsAssumption DEF TypeOK
<1> QED
  BY <1>1, <1>2, <1>3, StampsType

(* The row of a record that is given to the client. *)
LEMMA RowType ==
  ASSUME TypeOK, NEW r \in Records
  PROVE  Row(r) \in Rows /\ Row(r).record = r /\ Row(r).id = rowId[r]
  BY DEF TypeOK, Row, Rows

(* What an INSERT that is carried out changes. *)
LEMMA AppearRow ==
  ASSUME TypeOK, NEW row \in pending, Appear(row)
  PROVE  /\ row.record \in Records /\ row.id \in Nat
         /\ rowId'[row.record] = row.id
         /\ \A s \in Records : s # row.record => rowId'[s] = rowId[s]
         /\ \A s \in Records : rowId[s] \in Nat /\ rowId'[s] \in Nat
         /\ visible' = visible \cup {row.record}
         /\ rowId' \in [Records -> Nat]
<1>1. row.record \in Records /\ row.id \in Nat
  BY DEF TypeOK, Rows
<1> QED
  BY <1>1 DEF Appear, TypeOK

LEMMA NextTypeOK == TypeOK /\ [Next]_vars => TypeOK'
<1> SUFFICES ASSUME TypeOK, [Next]_vars PROVE TypeOK'
  OBVIOUS
<1>1. CASE Tick
  BY <1>1, ConstantsAssumption DEF TypeOK, Tick, client
<1>2. ASSUME NEW r \in Records, Stamp(r) PROVE TypeOK'
  <2>1. PICK id \in Stamps(now) : /\ issued' = issued \cup {id}
                                  /\ pending' = pending \cup {[record |-> r, id |-> id]}
    BY <1>2 DEF Stamp
  <2>2. id \in Nat \ {0}
    BY StampsType, ConstantsAssumption DEF TypeOK
  <2>3. [record |-> r, id |-> id] \in Rows
    BY <2>2 DEF Rows
  <2> QED
    BY <1>2, <2>1, <2>2, <2>3 DEF TypeOK, Stamp, client
<1>3. ASSUME NEW row \in pending, Appear(row) PROVE TypeOK'
  BY <1>3, AppearRow DEF TypeOK, Appear, client
<1>4. ASSUME NEW row \in pending, Superseded(row) PROVE TypeOK'
  BY <1>4 DEF TypeOK, Superseded, client
<1>5. CASE GetRecords
  <2>1. PICK found \in SUBSET Records : answer' = {Row(r) : r \in found}
    BY <1>5 DEF GetRecords, TypeOK
  <2>2. answer' \subseteq Rows
    BY <2>1, RowType
  <2>3. flaws' \subseteq {"late", "cut", "guessed"}
    BY <1>5 DEF GetRecords, TypeOK
  <2>4. delivered' = delivered \cup answer' /\ pc' = "hash" /\ UNCHANGED <<table, wanted, hash>>
    BY <1>5 DEF GetRecords
  <2> QED
    BY <2>2, <2>3, <2>4 DEF TypeOK, table
<1>6. CASE GetStateHash
  <2>1. hash' \in Nat
    <3>1. CASE answer = {} /\ hash' = hash
      BY <3>1 DEF TypeOK
    <3>2. CASE \E row \in Latest : hash' = row.id
      BY <3>2 DEF Latest, WithId, TypeOK, Rows
    <3>3. CASE Guess
      BY <3>3, GuessType
    <3> QED
      BY <1>6, <3>1, <3>2, <3>3 DEF GetStateHash
  <2> QED
    BY <1>6, <2>1 DEF TypeOK, GetStateHash, table
<1>7. CASE UNCHANGED vars
  BY <1>7 DEF TypeOK, vars, table, client
<1> QED
  BY <1>1, <1>2, <1>3, <1>4, <1>5, <1>6, <1>7 DEF Next

-----------------------------------------------------------------------------
(* What holds on the way. *)

(* An id is given out once: an INSERT that is pending has one, no row has  *)
(* it yet, and no other INSERT has it.                                     *)
Fresh ==
  /\ \A row \in pending : row.id \in issued /\ \A s \in Records : rowId[s] # row.id
  /\ \A row, other \in pending : row.id = other.id => row = other
  /\ \A r \in Records : rowId[r] # 0 => rowId[r] \in issued

(* What the client has got is newer than the hash it asked with, and what  *)
(* it had got before is not; without a hash it has got nothing before.     *)
Answered ==
  /\ answer \subseteq delivered
  /\ pc = "query" => answer = {}
  /\ \A row \in answer : hash = 0 \/ row.id > hash
  /\ hash = 0 => delivered = answer
  /\ \A row \in delivered \ answer : Time(row.id) <= Time(hash)

(* A row that has been read is still there, if it was not overwritten, and *)
(* then by one with a greater id unless that was late.                     *)
StillThere ==
  flaws = {} => \A row \in answer : row.record \in visible /\ row.id <= rowId[row.record]

(* As long as nothing has gone wrong, there is a row that is as new as the *)
(* hash, and the rows that are newer but not in the answer have appeared   *)
(* since, with ids greater than those in the answer.                       *)
Orderly ==
  flaws = {} =>
    /\ hash = 0 \/ \E r \in visible : hash <= rowId[r]
    /\ pc = "hash" =>
         \A r \in visible \cap wanted :
           Newer(rowId[r]) => Row(r) \in answer \/ \A row \in answer : row.id < rowId[r]

IInv == TypeOK /\ Fresh /\ Answered /\ StillThere /\ Orderly /\ NothingSkipped

LEMMA InitIInv == Init => IInv
<1> SUFFICES ASSUME Init PROVE IInv
  OBVIOUS
<1>1. TypeOK
  BY InitTypeOK
<1> QED
  BY <1>1 DEF Init, IInv, Fresh, Answered, StillThere, Orderly, NothingSkipped

(* The hash that a client goes on with, by what its answer holds. *)
LEMMA NewHash ==
  ASSUME IInv, GetStateHash
  PROVE  /\ answer = {} => hash' = hash
         /\ answer # {} => hash' # 0
         /\ \A row \in answer : Time(row.id) <= Time(hash')
         /\ answer # {} /\ flaws' = {} => \E row \in answer : hash' = row.id
         /\ Time(hash) <= Time(hash')
<1>0. hash \in Nat /\ hash' \in Nat /\ \A row \in answer : row.id \in Nat
  BY NextTypeOK DEF Next, IInv, TypeOK, Rows
<1>1. CASE answer = {} /\ hash' = hash
  BY <1>1, <1>0, TimeMonotone
<1>2. CASE ~NoIdFound /\ \E row \in Latest : hash' = row.id
  <2>1. PICK q \in Latest : hash' = q.id
    BY <1>2
  <2>2. q \in answer /\ q.id # 0 /\ \A row \in WithId : Time(row.id) <= Time(q.id)
    BY DEF Latest, WithId
  <2>3. \A row \in answer : Time(row.id) <= Time(hash')
    <3>1. SUFFICES ASSUME NEW row \in answer, row.id = 0 PROVE Time(row.id) <= Time(hash')
      BY <2>1, <2>2 DEF WithId
    <3> QED
      BY <3>1, <1>0, TimeMonotone
  <2>4. Time(hash) <= Time(hash')
    <3>1. hash <= hash'
      BY <1>0, <2>1, <2>2 DEF IInv, Answered
    <3> QED
      BY <1>0, <3>1, TimeMonotone
  <2> QED
    BY <2>1, <2>2, <2>3, <2>4
<1>3. CASE answer # {} /\ NoIdFound /\ Guess
  <2>1. hash' # 0
    BY <1>3, GuessType DEF IInv
  <2>2. \A row \in answer : row.id = 0
    BY <1>3 DEF NoIdFound, WithId
  <2>3. hash = 0
    BY <1>0, <1>3, <2>2 DEF IInv, Answered
  <2>4. flaws' # {}
    BY <1>3 DEF GetStateHash, NoIdFound
  <2> QED
    BY <1>0, <1>3, <2>1, <2>2, <2>3, <2>4, TimeMonotone
<1> QED
  BY <1>1, <1>2, <1>3 DEF GetStateHash

LEMMA KeepsFresh == IInv /\ [Next]_vars => Fresh'
<1> SUFFICES ASSUME IInv, [Next]_vars PROVE Fresh'
  OBVIOUS
<1>0. TypeOK /\ Fresh
  BY DEF IInv
<1>1. ASSUME NEW r \in Records, Stamp(r) PROVE Fresh'
  <2>1. PICK id \in Stamps(now) \ issued :
          issued' = issued \cup {id} /\ pending' = pending \cup {[record |-> r, id |-> id]}
    BY <1>1 DEF Stamp
  <2>2. id \in Nat \ {0} /\ rowId' = rowId
    BY <1>0, <1>1, StampsType, ConstantsAssumption DEF Stamp, TypeOK
  <2> QED
    BY <1>0, <2>1, <2>2 DEF Fresh
<1>2. ASSUME NEW row \in pending, Appear(row) PROVE Fresh'
  <2>1. /\ \A s \in Records : rowId'[s] = IF s = row.record THEN row.id ELSE rowId[s]
        /\ pending' = pending \ {row} /\ issued' = issued
    BY <1>0, <1>2, AppearRow DEF Appear
  <2> QED
    BY <1>0, <2>1 DEF Fresh
<1>3. ASSUME NEW row \in pending, Superseded(row) PROVE Fresh'
  BY <1>0, <1>3 DEF Fresh, Superseded
<1>4. CASE UNCHANGED <<issued, pending, rowId>>
  BY <1>0, <1>4 DEF Fresh
<1> QED
  BY <1>1, <1>2, <1>3, <1>4 DEF Next, Tick, GetRecords, GetStateHash, table, vars

LEMMA KeepsAnswered == IInv /\ [Next]_vars => Answered'
<1> SUFFICES ASSUME IInv, [Next]_vars PROVE Answered'
  OBVIOUS
<1>0. TypeOK /\ Answered
  BY DEF IInv
<1>1. CASE UNCHANGED client
  BY <1>0, <1>1 DEF Answered, client
<1>2. CASE GetRecords
  <2>1. hash' = hash /\ answer = {} /\ pc' = "hash" /\ delivered' = delivered \cup answer'
    BY <1>0, <1>2 DEF GetRecords, Answered
  <2>2. PICK found \in SUBSET {r \in visible \cap wanted : Newer(rowId[r])} :
          answer' = {Row(r) : r \in found}
    BY <1>2 DEF GetRecords
  <2>3. \A row \in answer' : hash = 0 \/ row.id > hash
    BY <2>2 DEF Row, Newer
  <2> QED
    BY <1>0, <2>1, <2>3 DEF Answered
<1>3. CASE GetStateHash
  <2>1. answer' = {} /\ UNCHANGED delivered
    BY <1>3 DEF GetStateHash
  <2>2. hash' = 0 => delivered' = {}
    BY <1>0, <1>3, <2>1, NewHash DEF Answered
  <2>3. \A row \in delivered : Time(row.id) <= Time(hash')
    <3> SUFFICES ASSUME NEW row \in delivered \ answer PROVE Time(row.id) <= Time(hash')
      BY <1>3, NewHash
    <3>1. Time(row.id) <= Time(hash) /\ Time(hash) <= Time(hash')
      BY <1>0, <1>3, NewHash DEF Answered
    <3>2. Time(row.id) \in Nat /\ Time(hash) \in Nat /\ Time(hash') \in Nat
      BY <1>0, NextTypeOK, TimeMonotone DEF TypeOK, Rows
    <3> QED
      BY <3>1, <3>2
  <2> QED
    BY <2>1, <2>2, <2>3 DEF Answered
<1> QED
  BY <1>1, <1>2, <1>3 DEF Next, Tick, Stamp, Appear, Superseded, vars

LEMMA KeepsStillThere == IInv /\ [Next]_vars => StillThere'
<1> SUFFICES ASSUME IInv, [Next]_vars, flaws' = {} PROVE StillThere'
  BY DEF StillThere
<1>0. TypeOK /\ Fresh /\ StillThere
  BY DEF IInv
<1>1. ASSUME NEW row \in pending, Appear(row) PROVE StillThere'
  <2>1. answer' = answer /\ flaws = {} /\ \A s \in visible : ~(row.id < rowId[s])
    BY <1>1 DEF Appear, client
  <2>2. ASSUME NEW a \in answer PROVE a.record \in visible' /\ a.id <= rowId'[a.record]
    <3>1. a.record \in visible /\ a.record \in Records /\ a.id \in Nat /\ a.id <= rowId[a.record]
      BY <1>0, <2>1 DEF StillThere, TypeOK, Rows
    <3>2. rowId[a.record] \in Nat /\ row.id \in Nat /\ rowId[a.record] <= row.id
      BY <1>0, <2>1, <3>1 DEF TypeOK, Rows
    <3>3. rowId'[a.record] \in {rowId[a.record], row.id} /\ a.record \in visible'
      BY <1>0, <1>1, <3>1, AppearRow
    <3> QED
      BY <3>1, <3>2, <3>3
  <2> QED
    BY <2>1, <2>2 DEF StillThere
<1>2. CASE GetRecords
  <2>1. PICK found \in SUBSET visible : answer' = {Row(r) : r \in found}
    BY <1>2 DEF GetRecords
  <2>2. UNCHANGED <<visible, rowId>>
    BY <1>2 DEF GetRecords, table
  <2> QED
    BY <1>0, <2>1, <2>2 DEF StillThere, Row, TypeOK
<1>3. CASE UNCHANGED <<visible, rowId>> /\ (answer' = {} \/ UNCHANGED <<answer, flaws>>)
  BY <1>0, <1>3 DEF StillThere
<1> QED
  BY <1>1, <1>2, <1>3 DEF Next, Tick, Stamp, Superseded, GetStateHash, table, client, vars

(* An INSERT that comes in order has a greater id than every row so far,   *)
(* and than everything the client has got.                                 *)
LEMMA InOrder ==
  ASSUME IInv, NEW row \in pending, Appear(row), flaws' = {}
  PROVE  /\ flaws = {}
         /\ \A s \in visible : rowId[s] < row.id
         /\ \A a \in answer : a.id < row.id
<1>0. TypeOK /\ Fresh /\ StillThere
  BY DEF IInv
<1>1. flaws = {} /\ \A s \in visible : ~(row.id < rowId[s])
  BY DEF Appear
<1>2. \A s \in visible : rowId[s] \in Nat /\ rowId[s] # row.id
  BY <1>0 DEF Fresh, TypeOK
<1>3. row.id \in Nat
  BY <1>0 DEF TypeOK, Rows
<1>4. \A s \in visible : rowId[s] < row.id
  BY <1>1, <1>2, <1>3
<1>5. ASSUME NEW a \in answer PROVE a.id < row.id
  <2>1. a.record \in visible /\ a.id \in Nat /\ a.id <= rowId[a.record]
    BY <1>0, <1>1 DEF StillThere, TypeOK, Rows
  <2> QED
    BY <1>2, <1>3, <1>4, <2>1
<1> QED
  BY <1>1, <1>4, <1>5

LEMMA KeepsOrderly == IInv /\ [Next]_vars => Orderly'
<1> SUFFICES ASSUME IInv, [Next]_vars, flaws' = {} PROVE Orderly'
  BY DEF Orderly
<1>0. TypeOK /\ Orderly
  BY DEF IInv
<1>1. ASSUME NEW row \in pending, Appear(row) PROVE Orderly'
  <2>1. flaws = {} /\ \A s \in visible : rowId[s] < row.id
    BY <1>1, InOrder
  <2>2. \A a \in answer : a.id < row.id
    BY <1>1, InOrder
  <2>3. UNCHANGED client
    BY <1>1 DEF Appear
  <2>4. /\ visible' = visible \cup {row.record} /\ visible \subseteq Records
        /\ row.record \in Records /\ row.id \in Nat
        /\ \A s \in Records : rowId'[s] = IF s = row.record THEN row.id ELSE rowId[s]
    BY <1>0, <1>1, AppearRow DEF TypeOK
  <2>5. hash' = 0 \/ \E r \in visible' : hash' <= rowId'[r]
    <3>1. CASE hash = 0
      BY <2>3, <3>1 DEF client
    <3>2. CASE hash # 0
      <4>1. PICK r \in visible : hash <= rowId[r]
        BY <1>0, <2>1, <3>2 DEF Orderly
      <4>2. rowId[r] \in Nat /\ hash \in Nat /\ rowId[r] < row.id
        BY <1>0, <2>1, <2>4 DEF TypeOK
      <4> QED
        BY <2>3, <2>4, <4>1, <4>2 DEF client
    <3> QED
      BY <3>1, <3>2
  <2>6. ASSUME pc' = "hash", NEW r \in visible' \cap wanted', Newer(rowId[r])'
        PROVE  Row(r)' \in answer' \/ \A a \in answer' : a.id < rowId'[r]
    <3>1. CASE r = row.record
      BY <2>2, <2>3, <2>4, <3>1 DEF client
    <3>2. CASE r # row.record
      <4>1. r \in visible \cap wanted /\ rowId'[r] = rowId[r] /\ Newer(rowId[r]) /\ Row(r)' = Row(r)
        BY <2>3, <2>4, <2>6, <3>2 DEF client, Newer, Row
      <4> QED
        BY <1>0, <2>1, <2>3, <2>6, <4>1 DEF Orderly, client
    <3> QED
      BY <3>1, <3>2
  <2> QED
    BY <2>5, <2>6 DEF Orderly
<1>2. CASE GetRecords
  <2>1. flaws = {} /\ UNCHANGED <<hash, rowId, visible, wanted>>
    BY <1>2 DEF GetRecords, table
  <2>2. answer' = {Row(r) : r \in {q \in visible \cap wanted : Newer(rowId[q])}}
    BY <1>2 DEF GetRecords
  <2> QED
    BY <1>0, <2>1, <2>2 DEF Orderly, Newer, Row
<1>3. CASE GetStateHash
  <2>1. flaws = {} /\ pc' = "query" /\ UNCHANGED <<rowId, visible>>
    BY <1>3 DEF GetStateHash, table
  <2>2. \A a \in answer : a.record \in visible /\ a.id <= rowId[a.record]
    BY <2>1 DEF IInv, StillThere
  <2>3. hash' = 0 \/ \E r \in visible : hash' <= rowId[r]
    <3>1. CASE answer = {}
      BY <1>0, <1>3, <2>1, <3>1, NewHash DEF Orderly
    <3>2. CASE answer # {}
      BY <1>3, <2>2, <3>2, NewHash
    <3> QED
      BY <3>1, <3>2
  <2> QED
    BY <2>1, <2>3 DEF Orderly
<1>4. CASE UNCHANGED <<rowId, visible, client, flaws>>
  BY <1>0, <1>4 DEF Orderly, client, Newer, Row
<1> QED
  BY <1>1, <1>2, <1>3, <1>4 DEF Next, Tick, Stamp, Superseded, vars, table

LEMMA KeepsNothingSkipped == IInv /\ [Next]_vars => NothingSkipped'
<1> SUFFICES ASSUME IInv, [Next]_vars, flaws' = {}, hash' # 0,
                    NEW r \in visible' \cap wanted', rowId'[r] <= hash'
             PROVE  Row(r)' \in delivered'
  BY DEF NothingSkipped
<1>0. TypeOK /\ Orderly /\ NothingSkipped
  BY DEF IInv
<1>1. ASSUME NEW row \in pending, Appear(row) PROVE Row(r)' \in delivered'
  <2>1. flaws = {} /\ UNCHANGED client /\ \A s \in visible : rowId[s] < row.id
    BY <1>1, InOrder DEF Appear
  <2>2. /\ visible' = visible \cup {row.record} /\ visible \subseteq Records
        /\ row.record \in Records /\ row.id \in Nat
        /\ \A s \in Records : rowId'[s] = IF s = row.record THEN row.id ELSE rowId[s]
    BY <1>0, <1>1, AppearRow DEF TypeOK
  <2>3. PICK h \in visible : hash <= rowId[h]
    BY <1>0, <2>1 DEF Orderly, client
  <2>4. hash < row.id
    <3>1. rowId[h] \in Nat /\ hash \in Nat /\ rowId[h] < row.id
      BY <1>0, <2>1, <2>2 DEF TypeOK
    <3> QED
      BY <2>2, <2>3, <3>1
  <2>5. r # row.record
    BY <1>0, <2>1, <2>2, <2>4 DEF TypeOK, client
  <2>6. r \in visible \cap wanted /\ rowId'[r] = rowId[r] /\ Row(r)' = Row(r)
    BY <2>1, <2>2, <2>5 DEF client, Row
  <2> QED
    BY <1>0, <2>1, <2>6 DEF NothingSkipped, client
<1>2. CASE GetRecords
  BY <1>0, <1>2 DEF NothingSkipped, GetRecords, table, Row
<1>3. CASE GetStateHash
  <2>1. flaws = {} /\ pc = "hash" /\ UNCHANGED <<rowId, visible, wanted, delivered>>
    BY <1>3 DEF GetStateHash, table
  <2>2. rowId[r] \in Nat /\ hash \in Nat /\ hash' \in Nat
    BY <1>0, NextTypeOK, <2>1 DEF TypeOK
  <2>3. Row(r)' = Row(r)
    BY <2>1 DEF Row
  <2>4. CASE hash # 0 /\ rowId[r] <= hash
    BY <1>0, <2>1, <2>3, <2>4 DEF NothingSkipped
  <2>5. CASE Newer(rowId[r])
    <3>1. answer # {} => \E a \in answer : rowId[r] <= a.id
      BY <1>3, <2>1, NewHash
    <3>2. \A a \in answer : a.id \in Nat
      BY <1>0 DEF TypeOK, Rows
    <3>3. answer # {} => Row(r) \in answer
      BY <1>0, <2>1, <2>2, <2>5, <3>1, <3>2 DEF Orderly
    <3>4. answer = {} => rowId[r] <= hash /\ hash # 0
      BY <1>3, <2>1, NewHash
    <3> QED
      BY <1>0, <2>1, <2>3, <3>3, <3>4 DEF IInv, Answered, NothingSkipped
  <2> QED
    BY <2>2, <2>4, <2>5 DEF Newer
<1>4. CASE UNCHANGED <<rowId, visible, client, flaws>>
  BY <1>0, <1>4 DEF NothingSkipped, client, Row
<1> QED
  BY <1>1, <1>2, <1>3, <1>4 DEF Next, Tick, Stamp, Superseded, vars, table

(* The inductive invariant holds in every reachable state.                 *)
THEOREM Inductive == Spec => []IInv
<1>1. Init => IInv
  BY InitIInv
<1>2. IInv /\ [Next]_vars => IInv'
  BY NextTypeOK, KeepsFresh, KeepsAnswered, KeepsStillThere, KeepsOrderly, KeepsNothingSkipped
  DEF IInv
<1> QED
  BY <1>1, <1>2, PTL DEF Spec

-----------------------------------------------------------------------------

(* What the hash of the client is past has been delivered, unless a row    *)
(* appeared out of order, an answer was cut short or the hash was guessed. *)
THEOREM NoneSkipped == Spec => []NothingSkipped
<1>1. IInv => NothingSkipped
  BY DEF IInv
<1> QED
  BY <1>1, Inductive, PTL

(* Whatever happens, the hash does not go back in time. *)
THEOREM HashOnlyAdvances == Spec => HashAdvances
<1>1. IInv /\ [Next]_vars => [hash' # hash => Time(hash') >= Time(hash)]_vars
  <2> SUFFICES ASSUME IInv, [Next]_vars, hash' # hash PROVE Time(hash') >= Time(hash)
    OBVIOUS
  <2>1. GetStateHash
    BY DEF Next, Tick, Stamp, Appear, Superseded, GetRecords, client, vars
  <2>2. Time(hash) \in Nat /\ Time(hash') \in Nat
    BY NextTypeOK, TimeMonotone DEF IInv, TypeOK
  <2> QED
    BY <2>1, <2>2, NewHash
<1> QED
  BY <1>1, Inductive, PTL DEF Spec, HashAdvances

(* A record that is delivered twice has been inserted again meanwhile, or  *)
(* its id has the time of the hash.                                        *)
THEOREM NoneDeliveredTwice == Spec => DeliveredOnce
<1> DEFINE Once ==
      \A row \in answer' : \A old \in delivered :
        pc = "query" /\ old.record = row.record =>
          old.id < row.id \/ Time(row.id) = Time(hash)
<1>1. IInv /\ [Next]_vars => [Once]_vars
  <2> SUFFICES ASSUME IInv, [Next]_vars, NEW row \in answer', NEW old \in delivered,
                      pc = "query", ~(old.id < row.id)
               PROVE  Time(row.id) = Time(hash)
    OBVIOUS
  <2>0. TypeOK /\ Answered
    BY DEF IInv
  <2>1. answer = {} /\ hash # 0 /\ Time(old.id) <= Time(hash)
    BY <2>0 DEF Answered
  <2>2. GetRecords
    BY <2>1 DEF Next, Tick, Stamp, Appear, Superseded, GetStateHash, client, vars
  <2>3. row.id > hash
    <3>1. hash' = hash
      BY <2>2 DEF GetRecords
    <3> QED
      BY <2>1, <3>1, KeepsAnswered DEF Answered
  <2>4. row.id \in Nat /\ old.id \in Nat /\ hash \in Nat
    BY <2>0, NextTypeOK DEF TypeOK, Rows
  <2>5. Time(hash) <= Time(row.id) /\ Time(row.id) <= Time(old.id)
    BY <2>3, <2>4, TimeMonotone
  <2>6. Time(hash) \in Nat /\ Time(row.id) \in Nat /\ Time(old.id) \in Nat
    BY <2>4, TimeMonotone
  <2> QED
    BY <2>1, <2>5, <2>6
<1> QED
  BY <1>1, Inductive, PTL DEF Spec, DeliveredOnce
=============================================================================
