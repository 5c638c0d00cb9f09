---------------------------- MODULE HealthLogger ----------------------------
(***************************************************************************)
(* healthlogger/healthlogger.go: a logger carries key-value pairs in a     *)
(* slice, and WithFields derives a logger with more of them by appending   *)
(* to that slice, from any goroutine.  A slice is the number of an array   *)
(* in memory and a length; append writes into the array while it has room  *)
(* left, and copies it into a larger one otherwise.  Loggers that share an *)
(* array can thus overwrite each other's pairs.  A pair is written in one  *)
(* step: two that are written at a time count as one replacing the other.  *)
(***************************************************************************)
EXTENDS Integers, FiniteSets, Sequences

CONSTANTS
  Goroutines,  \* the callers of WithFields
  Pairs,       \* key-value pairs
  MaxFields,   \* bound on the fields passed to WithFields, for TLC
  MaxLoggers   \* bound on the loggers derived, for TLC

ASSUME ConstantsAssumption ==
  /\ IsFiniteSet(Goroutines) /\ IsFiniteSet(Pairs)
  /\ MaxFields \in Nat /\ MaxLoggers \in Nat

VARIABLES
  memory,   \* the arrays: sequences of pairs, empty elements included
  loggers,  \* the loggers in the order of their making: parent, ancestors,
            \* slice, and the pairs it would have if nothing were shared
  call      \* the WithFields each goroutine is in

vars == <<memory, loggers, call>>

Empty == "empty"

Idle ==
  [parent |-> 0, ancestors |-> {}, array |-> 1, len |-> 0, left |-> {}, given |-> <<>>]

(* Mutant: the first slice is made with room for two pairs. *)
MadeWithRoom == <<Empty, Empty>>

RootArray == <<>>

(* NewHealthLogger. *)
Init ==
  /\ memory = <<RootArray>>
  /\ loggers = <<[parent |-> 0, ancestors |-> {}, array |-> 1, len |-> 0, given |-> <<>>]>>
  /\ call = [g \in Goroutines |-> Idle]

-----------------------------------------------------------------------------
(* WithFields. *)

(* Mutant: the slice is taken one pair short. *)
OneShort(l) == IF loggers[l].len = 0 THEN 0 ELSE loggers[l].len - 1

Taken(l) == loggers[l].len

(* It starts from the slice of its logger; a slice header is a value. *)
WithFields(g, l, fields) ==
  /\ call[g].parent = 0
  /\ Len(loggers) + Cardinality({h \in Goroutines : call[h].parent # 0}) <= MaxLoggers
  /\ call' = [call EXCEPT ![g] =
                [parent |-> l, ancestors |-> loggers[l].ancestors \cup {l},
                 array |-> loggers[l].array, len |-> Taken(l),
                 left |-> fields, given |-> loggers[l].given]]
  /\ UNCHANGED <<memory, loggers>>

Appended(g, array, p) ==
  call' = [call EXCEPT ![g].array = array, ![g].len = @ + 1, ![g].left = @ \ {p},
                       ![g].given = Append(@, p)]

(* append with room in the array. *)
AppendInPlace(g, p) ==
  /\ p \in call[g].left
  /\ call[g].len < Len(memory[call[g].array])
  /\ memory' = [memory EXCEPT ![call[g].array][call[g].len + 1] = p]
  /\ Appended(g, call[g].array, p)
  /\ UNCHANGED loggers

Grown(n) == IF n = 0 THEN 1 ELSE 2 * n

(* append without: a copy with twice the room, from one pair on. *)
AppendToCopy(g, p) ==
  /\ p \in call[g].left
  /\ call[g].len = Len(memory[call[g].array])
  /\ LET old == memory[call[g].array]
     IN  memory' = Append(memory, [i \in 1 .. Grown(Len(old)) |->
                                     IF i <= Len(old) THEN old[i]
                                     ELSE IF i = Len(old) + 1 THEN p ELSE Empty])
  /\ Appended(g, Len(memory) + 1, p)
  /\ UNCHANGED loggers

Return(g) ==
  /\ call[g].parent # 0
  /\ call[g].left = {}
  /\ loggers' = Append(loggers,
                       [parent |-> call[g].parent, ancestors |-> call[g].ancestors,
                        array |-> call[g].array, len |-> call[g].len, given |-> call[g].given])
  /\ call' = [call EXCEPT ![g] = Idle]
  /\ UNCHANGED memory

Terminated ==
  /\ Len(loggers) > MaxLoggers
  /\ \A g \in Goroutines : call[g].parent = 0
  /\ UNCHANGED vars

Next ==
  \/ \E g \in Goroutines :
       \/ \E l \in DOMAIN loggers, fields \in SUBSET Pairs :
            Cardinality(fields) <= MaxFields /\ WithFields(g, l, fields)
       \/ \E p \in Pairs : AppendInPlace(g, p) \/ AppendToCopy(g, p)
       \/ Return(g)
  \/ Terminated

Spec == Init /\ [][Next]_vars

-----------------------------------------------------------------------------
(* Properties. *)

(* What Debug, Info, Warn, Error and their ln and f forms add to a message. *)
KeyValPairs(l) == SubSeq(memory[loggers[l].array], 1, loggers[l].len)

Intact(l) == KeyValPairs(l) = loggers[l].given

(* The loggers derived from the one NewHealthLogger made never lose a pair *)
(* to another logger, however many are derived, and at the same time.      *)
RootChildrenKeep == \A l \in DOMAIN loggers : loggers[l].parent <= 1 => Intact(l)

(* The loggers derived from one, finished or not. *)
ChildLoggers(l) == {k \in DOMAIN loggers : loggers[k].parent = l}
ChildCalls(l)   == {g \in Goroutines : call[g].parent = l}

Children(l) == Cardinality(ChildLoggers(l)) + Cardinality(ChildCalls(l))

(* Its array has room left, and more than one logger is derived from it. *)
Shared(l) == loggers[l].len < Len(memory[loggers[l].array]) /\ Children(l) > 1

(* A logger has lost pairs only if one it descends from had room left and  *)
(* another logger was derived from that one.                               *)
LostOnlyWhenShared ==
  \A l \in DOMAIN loggers : Intact(l) \/ \E a \in loggers[l].ancestors : Shared(a)
=============================================================================
