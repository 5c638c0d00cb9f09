---------------------------- MODULE LongPolling ----------------------------
(***************************************************************************)
(* Long polling, cassandra/db.go and executer.go: a client asks for the    *)
(* records of a device that are newer than a hash, with GetRecords or      *)
(* GetRecordsOfType, and GetStateHash makes the hash of its next query     *)
(* from the records it got.  Records are inserted meanwhile, each perhaps  *)
(* several times, since an INSERT whose answer was lost is repeated: the   *)
(* database stamps every INSERT with a row id of its own, now(), before    *)
(* queries can see it, and those of one record write one row.  A row id is *)
(* a time and a tie-break, 2 * time + node, compared as a number by the    *)
(* database and by its time alone by GetStateHash; 0 stands for no id,     *)
(* which rows from before the migration have (cassandra/README.md:6), and  *)
(* for no hash.                                                            *)
(***************************************************************************)
EXTENDS Integers, FiniteSets

CONSTANTS
  Records,   \* the records of the device, each with a primary key of its own
  Legacy,    \* those stored before rows had ids
  Queries,   \* what the client may ask for: all of Records, or those of a type
  Births,    \* birth dates, 0 standing for those that are not after 1970
  Limit,     \* the limit of the queries
  MaxTime,   \* bound on the clock, for TLC
  MaxInserts \* bound on the INSERTs, for TLC

ASSUME ConstantsAssumption ==
  /\ IsFiniteSet(Records)
  /\ Legacy \subseteq Records
  /\ Queries \subseteq SUBSET Records
  /\ Births \subseteq Nat
  /\ Limit \in Nat \ {0}
  /\ MaxTime \in Nat \ {0} /\ MaxInserts \in Nat

VARIABLES
  now,        \* the clock of the database and of the client
  birth,      \* the birth date of each record
  issued,     \* the row ids that have been given out
  pending,    \* the INSERTs that have been stamped and not yet carried out
  visible,    \* the records that have a row for queries to see
  rowId,      \* the id of that row
  wanted,     \* what the client asks for
  hash,       \* the hash of its next query
  answer,     \* the rows it has got and makes a hash of
  pc,         \* "query" or "hash"
  delivered,  \* the rows it has been given
  flaws       \* what has happened that may make it miss records

table == <<now, birth, issued, pending, visible, rowId>>
client == <<wanted, hash, answer, pc, delivered>>
vars == <<table, client, flaws>>

Time(id) == id \div 2

Stamps(t) == {2 * t, 2 * t + 1}

Rows == [record : Records, id : Nat]

Row(r) == [record |-> r, id |-> rowId[r]]

Init ==
  /\ now = 1
  /\ birth \in [Records -> Births]
  /\ issued = {}
  /\ pending = {}
  /\ visible = Legacy
  /\ rowId = [r \in Records |-> 0]
  /\ wanted \in Queries
  /\ hash = 0
  /\ answer = {}
  /\ pc = "query"
  /\ delivered = {}
  /\ flaws = {}

-----------------------------------------------------------------------------
(* The database. *)

Tick ==
  /\ now < MaxTime
  /\ now' = now + 1
  /\ UNCHANGED <<birth, issued, pending, visible, rowId, client, flaws>>

(* insert, for the first time or once more: now() gives a new id. *)
Stamp(r) ==
  /\ Cardinality(issued) < MaxInserts
  /\ \E id \in Stamps(now) \ issued :
       /\ issued' = issued \cup {id}
       /\ pending' = pending \cup {[record |-> r, id |-> id]}
  /\ UNCHANGED <<now, birth, visible, rowId, client, flaws>>

(* The row appears, or its id changes: late, if there is a row with a      *)
(* greater id already.  Of the INSERTs of one record the last one stands,  *)
(* by a time that the clients give, and so in any order of the ids.        *)
Appear(row) ==
  /\ pending' = pending \ {row}
  /\ visible' = visible \cup {row.record}
  /\ rowId' = [rowId EXCEPT ![row.record] = row.id]
  /\ flaws' = flaws \cup IF \E s \in visible : row.id < rowId[s] THEN {"late"} ELSE {}
  /\ UNCHANGED <<now, birth, issued, client>>

(* A later INSERT of the record has been carried out before. *)
Superseded(row) ==
  /\ rowId[row.record] # 0
  /\ pending' = pending \ {row}
  /\ UNCHANGED <<now, birth, issued, visible, rowId, client, flaws>>

-----------------------------------------------------------------------------
(* The client. *)

(* Mutant: rows without an id are returned as well. *)
NewerOrNone(id) == hash = 0 \/ id = 0 \/ id > hash

(* "row_id > ?", which is not true of a row without an id. *)
Newer(id) == hash = 0 \/ id > hash

(* GetRecords and GetRecordsOfType: no order is asked for, so that any     *)
(* Limit of the matching rows may be the answer.                           *)
GetRecords ==
  /\ pc = "query"
  /\ LET matching == {r \in visible \cap wanted : Newer(rowId[r])}
     IN  \E found \in SUBSET matching :
           /\ \/ found = matching /\ Cardinality(found) <= Limit /\ UNCHANGED flaws
              \/ found # matching /\ Cardinality(found) = Limit /\ flaws' = flaws \cup {"cut"}
           /\ answer' = {Row(r) : r \in found}
           /\ delivered' = delivered \cup answer'
  /\ pc' = "hash"
  /\ UNCHANGED <<table, wanted, hash>>

WithId == {row \in answer : row.id # 0}

(* Mutant: the id of the record that comes last in the list. *)
Last == WithId

(* Those with the latest time: of several, the first in the list is taken. *)
Latest == {row \in WithId : \A s \in WithId : Time(s.id) <= Time(row.id)}

(* Mutant: the first record without an id ends the loop. *)
LoopBroken == WithId = {} \/ \E row \in answer : row.id = 0

NoIdFound == WithId = {}

(* Without an id the hash is made of the latest birth date, and without    *)
(* such a date of the present; the error that comes with it is not kept.   *)
Guess ==
  \E t \in {birth[row.record] : row \in answer} :
    /\ \A row \in answer : birth[row.record] <= t
    /\ hash' \in Stamps(IF t > 0 THEN t ELSE now)

(* GetStateHash; the client keeps its hash when it gets none. *)
GetStateHash ==
  /\ pc = "hash"
  /\ \/ answer = {} /\ hash' = hash
     \/ ~NoIdFound /\ \E row \in Latest : hash' = row.id
     \/ answer # {} /\ NoIdFound /\ Guess
  /\ flaws' = flaws \cup IF answer # {} /\ WithId = {} THEN {"guessed"} ELSE {}
  /\ answer' = {}
  /\ pc' = "query"
  /\ UNCHANGED <<table, wanted, delivered>>

Next ==
  \/ Tick
  \/ \E r \in Records : Stamp(r)
  \/ \E row \in pending : Appear(row) \/ Superseded(row)
  \/ GetRecords
  \/ GetStateHash

Spec == Init /\ [][Next]_vars

-----------------------------------------------------------------------------
(* Properties. *)

(* Types of the variables. *)
TypeOK ==
  /\ now \in 1 .. MaxTime
  /\ birth \in [Records -> Births]
  /\ issued \subseteq Nat \ {0}
  /\ pending \subseteq Rows
  /\ visible \subseteq Records
  /\ rowId \in [Records -> Nat]
  /\ wanted \in Queries
  /\ hash \in Nat
  /\ answer \subseteq Rows
  /\ pc \in {"query", "hash"}
  /\ delivered \subseteq Rows
  /\ flaws \subseteq {"late", "cut", "guessed"}

(* The hash never goes back in time, also when it was guessed: all a       *)
(* client gets with a hash has ids past it.                                *)
HashAdvances == [][hash' # hash => Time(hash') >= Time(hash)]_vars

(* A record is delivered a second time only with a later id, that is when  *)
(* it has been inserted again, except that GetStateHash may have chosen    *)
(* one of two ids of the same time, and the database compares them.        *)
DeliveredOnce ==
  [][\A row \in answer' : \A old \in delivered :
       pc = "query" /\ old.record = row.record =>
         old.id < row.id \/ Time(row.id) = Time(hash)]_vars

(* Every row the hash is past has been delivered, unless a row appeared    *)
(* after one with a greater id, the limit cut an answer short, or the hash *)
(* was guessed for want of an id; a row that has been written again has to *)
(* be delivered again.                                                     *)
NothingSkipped ==
  flaws = {} /\ hash # 0 =>
    \A r \in visible \cap wanted : rowId[r] <= hash => Row(r) \in delivered
=============================================================================
