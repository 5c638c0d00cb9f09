------------------------- MODULE HealthLoggerProofs -------------------------
(***************************************************************************)
(* Proofs about HealthLogger, for any finite set of goroutines, any pairs  *)
(* and any number of loggers.                                              *)
(***************************************************************************)
EXTENDS HealthLogger, FiniteSetTheorems, TLAPS

Elements == Pairs \cup {Empty}

Loggers ==
  [parent : Nat, ancestors : SUBSET Nat, array : Nat, len : Nat, given : Seq(Pairs)]

Calls ==
  [parent : Nat, ancestors : SUBSET Nat, array : Nat, len : Nat,
   left : SUBSET Pairs, given : Seq(Pairs)]

TypeOK ==
  /\ memory \in Seq(Seq(Elements))
  /\ loggers \in Seq(Loggers)
  /\ call \in [Goroutines -> Calls]

(* A slice x, of a logger or a call.                                       *)
Lost(x) == \E i \in 1 .. x.len : memory[x.array][i] # x.given[i]

InMemory(x) ==
  /\ x.array \in DOMAIN memory
  /\ x.len <= Len(memory[x.array])
  /\ Len(x.given) = x.len

(* The loggers it descends from have a descendant, and no more pairs than  *)
(* it where they share its array.                                          *)
Descends(x) ==
  \A a \in x.ancestors :
    /\ a \in DOMAIN loggers
    /\ Children(a) > 0
    /\ loggers[a].array = x.array => loggers[a].len <= x.len

Explained(x) == Lost(x) => \E a \in x.ancestors : Shared(a)

(* From a root whose array has no room.                                    *)
FromRoot(x) ==
  /\ x.parent = 0 => x.ancestors = {}
  /\ x.parent = 1 => x.ancestors = {1}

SliceOK(x) == InMemory(x) /\ Descends(x) /\ Explained(x) /\ FromRoot(x)

(* Both descend from a logger with their array, and not of one child only. *)
Kin(x, y) ==
  \E a \in x.ancestors \cap y.ancestors :
    loggers[a].array = x.array /\ Children(a) > 1

LoggersRelated ==
  \A k, l \in DOMAIN loggers :
    k # l /\ loggers[k].array = loggers[l].array =>
      \/ k \in loggers[l].ancestors
      \/ l \in loggers[k].ancestors
      \/ Kin(loggers[k], loggers[l])

CallsRelated ==
  \A g \in Goroutines : call[g].parent # 0 =>
    /\ \A l \in DOMAIN loggers :
         call[g].array = loggers[l].array =>
           l \in call[g].ancestors \/ Kin(call[g], loggers[l])
    /\ \A h \in Goroutines :
         h # g /\ call[h].parent # 0 /\ call[g].array = call[h].array =>
           Kin(call[g], call[h])

Root ==
  /\ Len(loggers) >= 1 /\ Len(memory) >= 1
  /\ memory[1] = <<>>
  /\ loggers[1] = [parent |-> 0, ancestors |-> {}, array |-> 1, len |-> 0, given |-> <<>>]

IInv ==
  /\ TypeOK
  /\ Root
  /\ \A g \in Goroutines : call[g].parent = 0 => call[g].left = {}
  /\ \A l \in DOMAIN loggers : SliceOK(loggers[l])
  /\ \A g \in Goroutines : call[g].parent # 0 => SliceOK(call[g])
  /\ LoggersRelated
  /\ CallsRelated

-----------------------------------------------------------------------------
(* What every step keeps.                                                  *)

LEMMA InitHolds == Init => IInv
<1> SUFFICES ASSUME Init PROVE IInv
  OBVIOUS
<1> DEFINE root == [parent |-> 0, ancestors |-> {}, array |-> 1, len |-> 0, given |-> <<>>]
<1>1. /\ loggers = <<root>> /\ memory = <<RootArray>>
      /\ call = [g \in Goroutines |-> Idle]
  BY DEF Init
<1>2. \A l \in DOMAIN loggers : l = 1 /\ loggers[l] = root
  <2> HIDE DEF root
  <2> QED
    BY <1>1
<1>3. TypeOK
  <2>1. RootArray \in Seq(Elements)
    BY DEF RootArray
  <2>2. root \in Loggers
    BY DEF Loggers
  <2>3. Idle \in Calls
    BY DEF Idle, Calls
  <2> HIDE DEF root
  <2> QED
    BY <1>1, <2>1, <2>2, <2>3 DEF TypeOK
<1>4. Root
  BY <1>1 DEF Root, RootArray
<1>5. \A g \in Goroutines : call[g].parent = 0 /\ call[g].left = {}
  BY <1>1 DEF Idle
<1>6. SliceOK(root)
  BY <1>1 DEF SliceOK, InMemory, Descends, Explained, FromRoot, Lost, RootArray
<1>7. \A l \in DOMAIN loggers : SliceOK(loggers[l])
  BY <1>2, <1>6
<1> QED
  BY <1>2, <1>3, <1>4, <1>5, <1>7 DEF IInv, LoggersRelated, CallsRelated

LEMMA ChildrenFinite ==
  ASSUME TypeOK, NEW a
  PROVE  /\ IsFiniteSet(ChildLoggers(a)) /\ IsFiniteSet(ChildCalls(a))
         /\ Cardinality(ChildLoggers(a)) \in Nat /\ Cardinality(ChildCalls(a)) \in Nat
         /\ Children(a) \in Nat
<1>1. DOMAIN loggers = 1 .. Len(loggers) /\ Len(loggers) \in Nat
  BY DEF TypeOK
<1>2. IsFiniteSet(DOMAIN loggers)
  BY <1>1, FS_Interval
<1>3. ChildLoggers(a) \subseteq DOMAIN loggers /\ ChildCalls(a) \subseteq Goroutines
  BY DEF ChildLoggers, ChildCalls
<1>4. IsFiniteSet(ChildLoggers(a)) /\ IsFiniteSet(ChildCalls(a))
  BY <1>2, <1>3, FS_Subset, ConstantsAssumption
<1>5. Cardinality(ChildLoggers(a)) \in Nat /\ Cardinality(ChildCalls(a)) \in Nat
  BY <1>4, FS_CardinalityType
<1> QED
  BY <1>4, <1>5 DEF Children

(* Loggers, the room in their arrays and their children only grow.         *)
Grows ==
  /\ \A a \in DOMAIN loggers :
       /\ a \in DOMAIN loggers' /\ loggers'[a] = loggers[a]
       /\ Children(a) \in Nat /\ Children(a)' \in Nat
       /\ Children(a)' >= Children(a)
  /\ \A b \in DOMAIN memory : b \in DOMAIN memory' /\ Len(memory'[b]) = Len(memory[b])

LEMMA SharedStays ==
  ASSUME Grows, NEW a \in DOMAIN loggers, InMemory(loggers[a]), Shared(a)
  PROVE  Shared(a)'
BY DEF Grows, Shared, InMemory

LEMMA KinStays ==
  ASSUME Grows, NEW x, NEW y, Descends(x), Kin(x, y)
  PROVE  Kin(x, y)'
BY DEF Grows, Kin, Descends

(* A slice stays as it was, or was written over and is explained.          *)
LEMMA SliceStays ==
  ASSUME Grows, NEW x, SliceOK(x), x.len \in Nat,
         \A l \in DOMAIN loggers : InMemory(loggers[l]),
         \/ \A i \in 1 .. x.len : memory'[x.array][i] = memory[x.array][i]
         \/ \E a \in x.ancestors : Shared(a)
  PROVE  SliceOK(x)'
<1>1. InMemory(x)'
  BY DEF SliceOK, InMemory, Grows
<1>2. Descends(x)'
  BY DEF SliceOK, Descends, Grows
<1>3. FromRoot(x)'
  BY DEF SliceOK, FromRoot
<1>4. ASSUME Lost(x)' PROVE (\E a \in x.ancestors : Shared(a))'
  <2>1. PICK a \in x.ancestors : Shared(a)
    BY <1>4 DEF SliceOK, Explained, Lost
  <2>2. a \in DOMAIN loggers
    BY <2>1 DEF SliceOK, Descends
  <2> QED
    BY <2>1, <2>2, SharedStays
<1> QED
  BY <1>1, <1>2, <1>3, <1>4 DEF SliceOK, Explained

(* Its pairs are as they were, or a logger it descends from explains why   *)
(* they are not.                                                           *)
Excused(x) ==
  \/ \A i \in 1 .. x.len : memory'[x.array][i] = memory[x.array][i]
  \/ \E a \in x.ancestors : Shared(a)

LEMMA Fields ==
  ASSUME IInv
  PROVE  /\ \A l \in DOMAIN loggers :
              /\ l \in Nat \ {0} /\ SliceOK(loggers[l]) /\ InMemory(loggers[l])
              /\ loggers[l].parent \in Nat /\ loggers[l].ancestors \in SUBSET Nat
              /\ loggers[l].array \in Nat /\ loggers[l].len \in Nat
              /\ loggers[l].given \in Seq(Pairs)
         /\ \A g \in Goroutines :
              /\ call[g].parent # 0 => SliceOK(call[g])
              /\ call[g].parent \in Nat /\ call[g].ancestors \in SUBSET Nat
              /\ call[g].array \in Nat /\ call[g].len \in Nat
              /\ call[g].left \in SUBSET Pairs /\ call[g].given \in Seq(Pairs)
<1>1. TypeOK /\ \A l \in DOMAIN loggers : SliceOK(loggers[l])
  BY DEF IInv
<1>2. \A l \in DOMAIN loggers : InMemory(loggers[l])
  BY <1>1 DEF SliceOK
<1>3. \A g \in Goroutines : call[g].parent # 0 => SliceOK(call[g])
  BY DEF IInv
<1>4. \A l \in DOMAIN loggers : l \in Nat \ {0} /\ loggers[l] \in Loggers
  BY <1>1 DEF TypeOK
<1>5. \A g \in Goroutines : call[g] \in Calls
  BY <1>1 DEF TypeOK
<1> QED
  BY <1>1, <1>2, <1>3, <1>4, <1>5 DEF Loggers, Calls

LEMMA LoggersStay ==
  ASSUME IInv, Grows, \A l \in DOMAIN loggers : Excused(loggers[l])
  PROVE  \A l \in DOMAIN loggers : SliceOK(loggers[l])'
<1> TAKE l \in DOMAIN loggers
<1>1. PICK x : x = loggers[l]
  OBVIOUS
<1>2. loggers'[l] = x
  BY <1>1 DEF Grows
<1>3. SliceOK(x) /\ x.len \in Nat /\ Excused(x)
  BY <1>1, Fields
<1>4. SliceOK(x)'
  BY <1>3, Fields, SliceStays DEF Excused
<1> QED
  BY <1>2, <1>4 DEF SliceOK, InMemory, Descends, Explained, FromRoot, Lost

LEMMA CallStays ==
  ASSUME IInv, Grows, NEW g \in Goroutines, call[g].parent # 0, call'[g] = call[g],
         Excused(call[g])
  PROVE  SliceOK(call[g])'
<1>1. PICK x : x = call[g]
  OBVIOUS
<1>2. call'[g] = x
  BY <1>1
<1>3. SliceOK(x) /\ x.len \in Nat /\ Excused(x)
  BY <1>1, Fields
<1>4. SliceOK(x)'
  BY <1>3, Fields, SliceStays DEF Excused
<1> QED
  BY <1>2, <1>4 DEF SliceOK, InMemory, Descends, Explained, FromRoot, Lost

(* Loggers that were related are.                                          *)
LEMMA LoggersStayRelated ==
  ASSUME IInv, Grows, NEW k \in DOMAIN loggers, NEW l \in DOMAIN loggers,
         k # l, loggers[k].array = loggers[l].array
  PROVE  \/ k \in loggers'[l].ancestors
         \/ l \in loggers'[k].ancestors
         \/ Kin(loggers[k], loggers[l])'
<1>1. loggers'[k] = loggers[k] /\ loggers'[l] = loggers[l]
  BY DEF Grows
<1>2. CASE Kin(loggers[k], loggers[l])
  <2>1. PICK x, y : x = loggers[k] /\ y = loggers[l]
    OBVIOUS
  <2>2. Kin(x, y)'
    BY <1>2, <2>1, Fields, KinStays DEF SliceOK
  <2> QED
    BY <1>1, <2>1, <2>2 DEF Kin
<1> QED
  BY <1>1, <1>2 DEF IInv, LoggersRelated

(* A slice that was related to a logger, and one to a call.                *)
LEMMA CallAndLoggerStayRelated ==
  ASSUME IInv, Grows, NEW g \in Goroutines, call[g].parent # 0, call'[g] = call[g],
         NEW l \in DOMAIN loggers, call[g].array = loggers[l].array
  PROVE  l \in call'[g].ancestors \/ Kin(call[g], loggers[l])'
<1>1. loggers'[l] = loggers[l]
  BY DEF Grows
<1>2. CASE Kin(call[g], loggers[l])
  <2>1. PICK x, y : x = call[g] /\ y = loggers[l]
    OBVIOUS
  <2>2. Kin(x, y)'
    BY <1>2, <2>1, Fields, KinStays DEF SliceOK
  <2> QED
    BY <1>1, <2>1, <2>2 DEF Kin
<1> QED
  BY <1>1, <1>2 DEF IInv, CallsRelated

LEMMA CallsStayRelated ==
  ASSUME IInv, Grows, NEW g \in Goroutines, NEW h \in Goroutines, g # h,
         call[g].parent # 0, call'[g] = call[g],
         call[h].parent # 0, call'[h] = call[h], call[g].array = call[h].array
  PROVE  Kin(call[g], call[h])'
<1>1. Kin(call[g], call[h])
  BY DEF IInv, CallsRelated
<1>2. PICK x, y : x = call[g] /\ y = call[h]
  OBVIOUS
<1>3. Kin(x, y)'
  BY <1>1, <1>2, Fields, KinStays DEF SliceOK
<1> QED
  BY <1>2, <1>3 DEF Kin

-----------------------------------------------------------------------------
(* WithFields: a call starts from the slice of its logger.                 *)

LEMMA WithFieldsChildren ==
  ASSUME TypeOK, NEW g \in Goroutines, NEW l \in DOMAIN loggers,
         NEW fields, WithFields(g, l, fields)
  PROVE  Grows /\ Children(l)' = Children(l) + 1
<1>1. /\ memory' = memory /\ loggers' = loggers /\ call[g].parent = 0
      /\ call'[g].parent = l /\ \A h \in Goroutines \ {g} : call'[h] = call[h]
  BY DEF WithFields, Taken, TypeOK
<1>2. \A a : ChildLoggers(a)' = ChildLoggers(a)
  BY <1>1 DEF ChildLoggers
<1>3. l # 0 /\ 0 \notin DOMAIN loggers
  BY DEF TypeOK
<1>4. /\ ChildCalls(l)' = ChildCalls(l) \cup {g} /\ g \notin ChildCalls(l)
      /\ \A a \in DOMAIN loggers \ {l} : ChildCalls(a)' = ChildCalls(a)
  BY <1>1, <1>3 DEF ChildCalls
<1>5. Cardinality(ChildCalls(l)') = Cardinality(ChildCalls(l)) + 1
  BY <1>4, ChildrenFinite, FS_AddElement
<1>6. Children(l)' = Children(l) + 1
  BY <1>2, <1>5, ChildrenFinite DEF Children
<1>7. \A a \in DOMAIN loggers \ {l} : Children(a)' = Children(a)
  BY <1>2, <1>4 DEF Children
<1>8. \A a : Children(a) \in Nat
  BY ChildrenFinite
<1> QED
  BY <1>1, <1>6, <1>7, <1>8 DEF Grows

LEMMA WithFieldsKeeps ==
  ASSUME IInv, NEW g \in Goroutines, NEW l \in DOMAIN loggers,
         NEW fields \in SUBSET Pairs, WithFields(g, l, fields)
  PROVE  IInv'
<1> DEFINE c == [parent |-> l, ancestors |-> loggers[l].ancestors \cup {l},
                 array |-> loggers[l].array, len |-> loggers[l].len,
                 left |-> fields, given |-> loggers[l].given]
<1>1. /\ memory' = memory /\ loggers' = loggers /\ call[g].parent = 0
      /\ call' = [call EXCEPT ![g] = c]
      /\ call'[g] = c /\ \A h \in Goroutines \ {g} : call'[h] = call[h]
  BY DEF WithFields, Taken, IInv, TypeOK
<1>2. /\ call'[g].parent = l /\ call'[g].ancestors = loggers[l].ancestors \cup {l}
      /\ call'[g].array = loggers[l].array /\ call'[g].len = loggers[l].len
      /\ call'[g].given = loggers[l].given
  BY <1>1
<1>3. c \in Calls
  BY Fields DEF Calls
<1> HIDE DEF c
<1>4. TypeOK'
  BY <1>1, <1>3 DEF IInv, TypeOK
<1>5. Grows /\ Children(l)' = Children(l) + 1
  BY WithFieldsChildren DEF IInv
<1>6. Root'
  BY <1>1 DEF IInv, Root
<1>7. \A k \in DOMAIN loggers : SliceOK(loggers[k])'
  BY <1>1, <1>5, LoggersStay DEF Excused
<1>8. \A h \in Goroutines \ {g} : call[h].parent # 0 => SliceOK(call[h])'
  BY <1>1, <1>5, CallStays DEF Excused
<1>9. SliceOK(call[g])'
  <2>1. InMemory(loggers[l])' /\ Descends(loggers[l])' /\ Explained(loggers[l])'
    BY <1>7 DEF SliceOK
  <2>2. InMemory(call[g])'
    BY <1>1, <1>2, <2>1 DEF InMemory
  <2>3. Children(l)' > 0
    BY <1>5 DEF Grows
  <2>4. Descends(call[g])'
    BY <1>1, <1>2, <2>1, <2>3, Fields DEF Descends
  <2>5. Explained(call[g])'
    BY <1>1, <1>2, <2>1 DEF Explained, Lost
  <2>6. FromRoot(call[g])'
    BY <1>1, <1>2, Fields DEF FromRoot, IInv, Root
  <2> QED
    BY <2>2, <2>4, <2>5, <2>6 DEF SliceOK
<1>10. LoggersRelated'
  BY <1>1, <1>5, LoggersStayRelated DEF LoggersRelated
<1>11. Children(l)' > 1 \/ Children(l) = 0
  BY <1>5 DEF Grows
<1>12. ASSUME NEW k \in DOMAIN loggers, loggers[k].array = loggers[l].array
       PROVE  k \in call'[g].ancestors \/ Kin(call[g], loggers[k])'
  <2>1. CASE k = l \/ k \in loggers[l].ancestors
    BY <1>2, <2>1
  <2>2. CASE k # l /\ l \in loggers[k].ancestors
    <3>1. Children(l)' > 1
      BY <2>2, <1>11, Fields DEF SliceOK, Descends
    <3> QED
      BY <1>1, <1>2, <2>2, <3>1 DEF Kin
  <2>3. CASE k # l /\ Kin(loggers[l], loggers[k])'
    BY <1>1, <1>2, <2>3 DEF Kin
  <2> QED
    BY <1>1, <1>5, <1>12, <2>1, <2>2, <2>3, LoggersStayRelated
<1>13. ASSUME NEW h \in Goroutines \ {g}, call[h].parent # 0, call[h].array = loggers[l].array
       PROVE  Kin(call[g], call[h])' /\ Kin(call[h], call[g])'
  <2>1. CASE l \in call[h].ancestors
    <3>1. Children(l)' > 1
      BY <2>1, <1>11, <1>13, Fields DEF SliceOK, Descends
    <3> QED
      BY <1>1, <1>2, <1>13, <2>1, <3>1 DEF Kin
  <2>2. CASE Kin(call[h], loggers[l])'
    BY <1>1, <1>2, <1>13, <2>2 DEF Kin
  <2> QED
    BY <1>1, <1>5, <1>13, <2>1, <2>2, CallAndLoggerStayRelated
<1>14. CallsRelated'
  <2>1. ASSUME NEW h \in Goroutines, call'[h].parent # 0, NEW k \in DOMAIN loggers,
               call'[h].array = loggers[k].array
        PROVE  k \in call'[h].ancestors \/ Kin(call[h], loggers[k])'
    BY <1>1, <1>2, <1>5, <1>12, <2>1, CallAndLoggerStayRelated
  <2>2. ASSUME NEW h \in Goroutines, call'[h].parent # 0,
               NEW i \in Goroutines, call'[i].parent # 0, h # i, call'[h].array = call'[i].array
        PROVE  Kin(call[h], call[i])'
    <3>1. CASE h = g
      BY <1>1, <1>2, <1>13, <2>2, <3>1
    <3>2. CASE i = g
      BY <1>1, <1>2, <1>13, <2>2, <3>2
    <3>3. CASE h # g /\ i # g
      BY <1>1, <1>5, <2>2, <3>3, CallsStayRelated
    <3> QED
      BY <3>1, <3>2, <3>3
  <2> QED
    BY <1>1, <2>1, <2>2 DEF CallsRelated
<1>15. (\A k \in DOMAIN loggers : SliceOK(loggers[k]))'
  BY <1>1, <1>7
<1>16. (\A h \in Goroutines : call[h].parent # 0 => SliceOK(call[h]))'
  BY <1>1, <1>8, <1>9
<1>17. (\A h \in Goroutines : call[h].parent = 0 => call[h].left = {})'
  BY <1>1, <1>2, Fields DEF IInv
<1> QED
  BY <1>4, <1>6, <1>10, <1>14, <1>15, <1>16, <1>17 DEF IInv

-----------------------------------------------------------------------------
(* append: the slice of one call has one more pair.                        *)

(* What both forms do to the calls.                                        *)
Appends(g, array, p) ==
  /\ loggers' = loggers
  /\ call' \in [Goroutines -> Calls]
  /\ \A h \in Goroutines \ {g} : call'[h] = call[h]
  /\ call[g].parent # 0 /\ call'[g].parent = call[g].parent
  /\ call'[g].ancestors = call[g].ancestors
  /\ call'[g].array = array
  /\ call'[g].len = call[g].len + 1 /\ Len(call'[g].given) = call[g].len + 1
  /\ \A i \in 1 .. call[g].len : call'[g].given[i] = call[g].given[i]
  /\ call'[g].given[call[g].len + 1] = p

LEMMA AppendedAppends ==
  ASSUME IInv, NEW g \in Goroutines, NEW array \in Nat, NEW p \in call[g].left,
         Appended(g, array, p), UNCHANGED loggers
  PROVE  Appends(g, array, p)
<1> DEFINE c == [call[g] EXCEPT !.array = array, !.len = @ + 1, !.left = @ \ {p},
                                !.given = Append(@, p)]
<1>1. call' = [call EXCEPT ![g] = c]
  BY DEF Appended
<1>2. call[g] \in Calls /\ call[g].parent # 0
  BY DEF IInv, TypeOK
<1>3. InMemory(call[g])
  BY <1>2, Fields DEF SliceOK
<1>4. /\ c.parent = call[g].parent /\ c.ancestors = call[g].ancestors /\ c.array = array
      /\ c.len = call[g].len + 1 /\ c.given = Append(call[g].given, p)
  BY <1>2 DEF Calls
<1>4a. c \in Calls
  <2>1. Append(call[g].given, p) \in Seq(Pairs) /\ call[g].len + 1 \in Nat
    BY Fields
  <2>2. call[g].left \ {p} \in SUBSET Pairs
    BY Fields
  <2> QED
    BY <1>2, <2>1, <2>2 DEF Calls
<1> HIDE DEF c
<1>5. /\ Len(c.given) = call[g].len + 1 /\ c.given[call[g].len + 1] = p
      /\ \A i \in 1 .. call[g].len : c.given[i] = call[g].given[i]
  BY <1>3, <1>4, Fields DEF InMemory
<1>6. call'[g] = c /\ call' \in [Goroutines -> Calls]
      /\ \A h \in Goroutines \ {g} : call'[h] = call[h]
  BY <1>1, <1>4a DEF IInv, TypeOK
<1> QED
  BY <1>2, <1>4, <1>5, <1>6 DEF Appends

LEMMA AppendGrows ==
  ASSUME TypeOK, NEW g \in Goroutines, NEW array, NEW p, Appends(g, array, p),
         \A b \in DOMAIN memory : b \in DOMAIN memory' /\ Len(memory'[b]) = Len(memory[b])
  PROVE  Grows
<1>1. \A a : ChildLoggers(a)' = ChildLoggers(a) /\ ChildCalls(a)' = ChildCalls(a)
  BY DEF Appends, ChildLoggers, ChildCalls
<1>2. \A a : Children(a) \in Nat /\ Children(a)' = Children(a)
  BY <1>1, ChildrenFinite DEF Children
<1> QED
  BY <1>2 DEF Appends, Grows

(* A call whose slice grows in its array, or moves to one of its own,      *)
(* while no other slice changes but one that is explained.                 *)
LEMMA AppendKeeps ==
  ASSUME IInv, NEW g \in Goroutines, NEW array, NEW p, Appends(g, array, p), Grows,
         memory' \in Seq(Seq(Elements)), memory'[1] = memory[1],
         array \in DOMAIN memory', call[g].len + 1 <= Len(memory'[array]),
         memory'[array][call[g].len + 1] = p,
         \A i \in 1 .. call[g].len : memory'[array][i] = memory[call[g].array][i],
         array = call[g].array \/ array \notin DOMAIN memory,
         \A l \in DOMAIN loggers : Excused(loggers[l]),
         \A h \in Goroutines \ {g} : call[h].parent # 0 => Excused(call[h])
  PROVE  IInv'
<1>1. TypeOK'
  BY DEF Appends, IInv, TypeOK
<1>2. Root'
  BY <1>1 DEF Appends, IInv, Root, Grows, TypeOK
<1>3. (\A h \in Goroutines : call[h].parent = 0 => call[h].left = {})'
  BY DEF Appends, IInv
<1>4. (\A l \in DOMAIN loggers : SliceOK(loggers[l]))'
  BY LoggersStay DEF Appends
<1>5. \A h \in Goroutines \ {g} : call[h].parent # 0 => SliceOK(call[h])'
  BY CallStays DEF Appends
<1>6. SliceOK(call[g])'
  <2>1. SliceOK(call[g]) /\ call[g].len \in Nat
    BY Fields DEF Appends
  <2>2. InMemory(call[g])'
    BY DEF Appends, InMemory
  <2>3. Descends(call[g])'
    <3> SUFFICES ASSUME NEW a \in call[g].ancestors
                 PROVE  /\ a \in DOMAIN loggers' /\ Children(a)' > 0
                        /\ loggers'[a].array = array => loggers'[a].len <= call[g].len + 1
      BY DEF Appends, Descends
    <3>1. a \in DOMAIN loggers /\ Children(a) > 0
          /\ (loggers[a].array = call[g].array => loggers[a].len <= call[g].len)
      BY <2>1 DEF SliceOK, Descends
    <3>2. loggers[a].array \in DOMAIN memory /\ loggers[a].len \in Nat
      BY <3>1, Fields DEF InMemory
    <3> QED
      BY <2>1, <3>1, <3>2 DEF Grows
  <2>4. Explained(call[g])'
    <3> SUFFICES ASSUME Lost(call[g])' PROVE (\E a \in call[g].ancestors : Shared(a))'
      BY DEF Explained
    <3>1. PICK i \in 1 .. call[g].len + 1 : memory'[array][i] # call'[g].given[i]
      BY DEF Lost, Appends
    <3>2. i \in 1 .. call[g].len
      BY <2>1, <3>1 DEF Appends
    <3>3. memory[call[g].array][i] # call[g].given[i]
      BY <3>1, <3>2 DEF Appends
    <3>4. PICK a \in call[g].ancestors : Shared(a)
      BY <2>1, <3>2, <3>3 DEF SliceOK, Explained, Lost
    <3>5. a \in DOMAIN loggers
      BY <2>1 DEF SliceOK, Descends
    <3> QED
      BY <3>4, <3>5, Fields, SharedStays DEF Appends
  <2>5. FromRoot(call[g])'
    BY <2>1 DEF Appends, SliceOK, FromRoot
  <2> QED
    BY <2>2, <2>3, <2>4, <2>5 DEF SliceOK
<1>7. LoggersRelated'
  BY LoggersStayRelated DEF Appends, LoggersRelated
<1>8. CallsRelated'
  <2>1. ASSUME NEW h \in Goroutines, call'[h].parent # 0, NEW k \in DOMAIN loggers,
               call'[h].array = loggers[k].array
        PROVE  k \in call'[h].ancestors \/ Kin(call[h], loggers[k])'
    <3>1. CASE h # g
      BY <2>1, <3>1, CallAndLoggerStayRelated DEF Appends
    <3>2. CASE h = g
      <4>1. loggers[k].array \in DOMAIN memory
        BY Fields DEF InMemory
      <4>2. call[g].parent # 0 /\ call'[g].array = call[g].array
            /\ call'[g].ancestors = call[g].ancestors
            /\ call[g].array = loggers[k].array
        BY <2>1, <3>2, <4>1 DEF Appends
      <4>3. CASE k \in call[g].ancestors
        BY <3>2, <4>2, <4>3
      <4>4. CASE Kin(call[g], loggers[k])
        <5>1. PICK x, y : x = call[g] /\ y = loggers[k]
          OBVIOUS
        <5>2. Kin(x, y)'
          BY <4>2, <4>4, <5>1, Fields, KinStays DEF SliceOK
        <5> QED
          BY <3>2, <4>2, <5>1, <5>2 DEF Kin, Appends
      <4> QED
        BY <4>2, <4>3, <4>4 DEF IInv, CallsRelated
    <3> QED
      BY <3>1, <3>2
  <2>2. ASSUME NEW h \in Goroutines, call'[h].parent # 0,
               NEW i \in Goroutines, call'[i].parent # 0, h # i, call'[h].array = call'[i].array
        PROVE  Kin(call[h], call[i])'
    <3>1. call[h].parent # 0 /\ call[i].parent # 0
      BY <2>2 DEF Appends
    <3>2. call[h].array \in DOMAIN memory /\ call[i].array \in DOMAIN memory
      BY <3>1, Fields DEF SliceOK, InMemory
    <3>3. call[h].array = call[i].array /\ call'[h].array = call[h].array
          /\ call'[h].ancestors = call[h].ancestors /\ call'[i].ancestors = call[i].ancestors
      BY <2>2, <3>2 DEF Appends
    <3>4. Kin(call[h], call[i])
      BY <2>2, <3>1, <3>3 DEF IInv, CallsRelated
    <3>5. PICK x, y : x = call[h] /\ y = call[i]
      OBVIOUS
    <3>6. Kin(x, y)'
      BY <3>1, <3>4, <3>5, Fields, KinStays DEF SliceOK
    <3> QED
      BY <3>3, <3>5, <3>6 DEF Kin
  <2> QED
    BY <2>1, <2>2 DEF CallsRelated, Appends
<1> QED
  BY <1>1, <1>2, <1>3, <1>4, <1>5, <1>6, <1>7, <1>8 DEF IInv, Appends

LEMMA InPlaceKeeps ==
  ASSUME IInv, NEW g \in Goroutines, NEW p \in Pairs, AppendInPlace(g, p)
  PROVE  IInv'
<1> DEFINE A == call[g].array
           n == call[g].len + 1
<1>1. p \in call[g].left /\ call[g].parent # 0
  BY DEF AppendInPlace, IInv
<1>2. SliceOK(call[g]) /\ InMemory(call[g]) /\ A \in Nat /\ call[g].len \in Nat
  BY <1>1, Fields DEF SliceOK
<1>3. Appends(g, A, p)
  BY <1>1, <1>2, AppendedAppends DEF AppendInPlace
<1>4. n \in 1 .. Len(memory[A]) /\ A \in DOMAIN memory /\ memory \in Seq(Seq(Elements))
  BY <1>2 DEF AppendInPlace, InMemory, IInv, TypeOK
<1>5. memory' = [memory EXCEPT ![A] = [memory[A] EXCEPT ![n] = p]]
  BY DEF AppendInPlace
<1> DEFINE new == [memory[A] EXCEPT ![n] = p]
<1>6. /\ new \in Seq(Elements) /\ Len(new) = Len(memory[A]) /\ new[n] = p
      /\ \A i \in 1 .. Len(memory[A]) : i # n => new[i] = memory[A][i]
  <2>1. memory[A] \in Seq(Elements)
    BY <1>4
  <2>2. p \in Elements
    BY DEF Elements
  <2> QED
    BY <1>4, <2>1, <2>2
<1>7. memory' = [memory EXCEPT ![A] = new]
  BY <1>5
<1> HIDE DEF new
<1>8. /\ memory' \in Seq(Seq(Elements)) /\ DOMAIN memory' = DOMAIN memory
      /\ memory'[A] = new /\ \A b \in DOMAIN memory : b # A => memory'[b] = memory[b]
  BY <1>4, <1>6, <1>7
<1>9. \A b \in DOMAIN memory : b \in DOMAIN memory' /\ Len(memory'[b]) = Len(memory[b])
  BY <1>6, <1>8
<1>10. Grows
  BY <1>3, <1>9, AppendGrows DEF IInv
<1>11. memory'[1] = memory[1]
  <2>1. memory[1] = <<>> /\ 1 \in DOMAIN memory
    BY <1>4 DEF IInv, Root
  <2>2. A # 1
    BY <1>4, <2>1
  <2> QED
    BY <1>8, <2>1, <2>2
(* Where the pair is written over one of another slice, that slice and the *)
(* call descend from a logger with room for the pair.                      *)
<1>12. ASSUME NEW x, InMemory(x), x.len \in Nat,
              x.array = A => n > x.len \/ Kin(call[g], x)
       PROVE  Excused(x)
  <2>1. CASE x.array # A
    BY <1>8, <1>12, <2>1 DEF Excused, InMemory
  <2>2. CASE x.array = A /\ n > x.len
    <3>1. ASSUME NEW i \in 1 .. x.len PROVE new[i] = memory[A][i]
      BY <1>4, <1>6, <1>12, <2>2 DEF InMemory
    <3> QED
      BY <1>8, <2>2, <3>1 DEF Excused
  <2>3. CASE Kin(call[g], x)
    <3>1. PICK a \in call[g].ancestors \cap x.ancestors :
            loggers[a].array = A /\ Children(a) > 1
      BY <2>3 DEF Kin
    <3>2. loggers[a].len <= call[g].len /\ a \in DOMAIN loggers
      BY <1>2, <3>1 DEF SliceOK, Descends
    <3>3. Shared(a)
      BY <1>2, <3>1, <3>2, Fields DEF Shared, AppendInPlace
    <3> QED
      BY <3>1, <3>3 DEF Excused
  <2> QED
    BY <1>12, <2>1, <2>2, <2>3
<1>13. ASSUME NEW l \in DOMAIN loggers PROVE Excused(loggers[l])
  <2>1. ASSUME loggers[l].array = A PROVE n > loggers[l].len \/ Kin(call[g], loggers[l])
    <3>1. l \in call[g].ancestors \/ Kin(call[g], loggers[l])
      BY <1>1, <2>1 DEF IInv, CallsRelated
    <3>2. CASE l \in call[g].ancestors
      BY <1>2, <2>1, <3>2, Fields DEF SliceOK, Descends
    <3> QED
      BY <3>1, <3>2
  <2> QED
    BY <1>12, <2>1, Fields
<1>14. ASSUME NEW h \in Goroutines \ {g}, call[h].parent # 0 PROVE Excused(call[h])
  <2>1. call[h].array = A => Kin(call[g], call[h])
    BY <1>1, <1>14 DEF IInv, CallsRelated
  <2> QED
    BY <1>12, <1>14, <2>1, Fields DEF SliceOK
<1>15. /\ A \in DOMAIN memory' /\ n <= Len(memory'[A]) /\ memory'[A][n] = p
       /\ \A i \in 1 .. call[g].len : memory'[A][i] = memory[A][i]
  <2>1. \A i \in 1 .. call[g].len : i \in 1 .. Len(memory[A]) /\ i # n
    BY <1>2, <1>4
  <2>2. n <= Len(memory[A])
    BY <1>4
  <2>3. A \in DOMAIN memory' /\ memory'[A] = new
    BY <1>4, <1>8
  <2>4. Len(new) = Len(memory[A]) /\ new[n] = p
        /\ \A i \in 1 .. Len(memory[A]) : i # n => new[i] = memory[A][i]
    BY <1>6
  <2> HIDE DEF A, n
  <2> QED
    BY <2>1, <2>2, <2>3, <2>4
<1> QED
  BY <1>3, <1>8, <1>10, <1>11, <1>13, <1>14, <1>15, AppendKeeps

LEMMA ToCopyKeeps ==
  ASSUME IInv, NEW g \in Goroutines, NEW p \in Pairs, AppendToCopy(g, p)
  PROVE  IInv'
<1> DEFINE A == call[g].array
           n == call[g].len + 1
           old == memory[A]
           new == [i \in 1 .. Grown(Len(old)) |->
                     IF i <= Len(old) THEN old[i] ELSE IF i = Len(old) + 1 THEN p ELSE Empty]
<1>1. p \in call[g].left /\ call[g].parent # 0
  BY DEF AppendToCopy, IInv
<1>2. SliceOK(call[g]) /\ InMemory(call[g]) /\ call[g].len \in Nat
  BY <1>1, Fields DEF SliceOK
<1>3. memory \in Seq(Seq(Elements)) /\ A \in DOMAIN memory /\ old \in Seq(Elements)
      /\ Len(memory) \in Nat
  BY <1>2 DEF InMemory, IInv, TypeOK
<1>4. Appends(g, Len(memory) + 1, p)
  BY <1>1, <1>3, AppendedAppends DEF AppendToCopy
<1>5. memory' = Append(memory, new) /\ n = Len(old) + 1
  BY DEF AppendToCopy
<1>6. Grown(Len(old)) \in Nat /\ n <= Grown(Len(old))
  BY <1>3, <1>5 DEF Grown
<1>7. /\ new \in Seq(Elements) /\ Len(new) = Grown(Len(old)) /\ new[n] = p
      /\ \A i \in 1 .. call[g].len : new[i] = old[i]
  <2>1. \A i \in 1 .. Grown(Len(old)) : new[i] \in Elements
    BY <1>3 DEF Elements
  <2>2. DOMAIN new = 1 .. Grown(Len(old))
    OBVIOUS
  <2>3. new \in [1 .. Grown(Len(old)) -> Elements]
    BY <2>1
  <2>4. new[n] = p
    BY <1>2, <1>5, <1>6
  <2>5. \A i \in 1 .. call[g].len : new[i] = old[i]
    BY <1>2, <1>5, <1>6
  <2>6. new \in Seq(Elements) /\ Len(new) = Grown(Len(old))
    <3> HIDE DEF new
    <3> QED
      BY <1>6, <2>2, <2>3
  <2> QED
    BY <2>4, <2>5, <2>6
<1> HIDE DEF new
<1>8. /\ memory' \in Seq(Seq(Elements)) /\ Len(memory') = Len(memory) + 1
      /\ memory'[Len(memory) + 1] = new
      /\ \A b \in DOMAIN memory : b \in DOMAIN memory' /\ memory'[b] = memory[b]
      /\ Len(memory) + 1 \in DOMAIN memory' /\ Len(memory) + 1 \notin DOMAIN memory
  BY <1>3, <1>5, <1>7
<1>9. Grows
  BY <1>4, <1>8, AppendGrows DEF IInv
<1>10. memory'[1] = memory[1]
  BY <1>3, <1>8 DEF IInv, Root
<1>11. ASSUME NEW x, InMemory(x) PROVE Excused(x)
  BY <1>8, <1>11 DEF Excused, InMemory
<1>12. \A l \in DOMAIN loggers : Excused(loggers[l])
  BY <1>11, Fields
<1>13. \A h \in Goroutines \ {g} : call[h].parent # 0 => Excused(call[h])
  BY <1>11, Fields DEF SliceOK
<1> QED
  BY <1>4, <1>6, <1>7, <1>8, <1>9, <1>10, <1>12, <1>13, AppendKeeps

-----------------------------------------------------------------------------
(* Return: the slice of a call becomes that of a logger.                   *)

LEMMA ReturnChildren ==
  ASSUME IInv, NEW g \in Goroutines, Return(g)
  PROVE  Grows
<1> DEFINE n == Len(loggers) + 1
<1>1. loggers \in Seq(Loggers) /\ Len(loggers) \in Nat /\ DOMAIN loggers = 1 .. Len(loggers)
  BY DEF IInv, TypeOK
<1>2. /\ DOMAIN loggers' = 1 .. n /\ loggers'[n].parent = call[g].parent
      /\ \A a \in DOMAIN loggers : loggers'[a] = loggers[a]
  BY <1>1 DEF Return
<1>3. /\ call'[g].parent = 0 /\ call[g].parent # 0 /\ memory' = memory
      /\ \A h \in Goroutines \ {g} : call'[h] = call[h]
  BY DEF Return, Idle, IInv, TypeOK
<1>4. \A a : /\ IsFiniteSet(ChildLoggers(a)) /\ IsFiniteSet(ChildCalls(a))
             /\ Cardinality(ChildLoggers(a)) \in Nat /\ Cardinality(ChildCalls(a)) \in Nat
             /\ Children(a) \in Nat
  BY ChildrenFinite DEF IInv
<1>5. ASSUME NEW a \in DOMAIN loggers PROVE Children(a)' = Children(a)
  <2>1. CASE a = call[g].parent
    <3>1. ChildLoggers(a)' = ChildLoggers(a) \cup {n} /\ n \notin ChildLoggers(a)
      BY <1>1, <1>2, <2>1 DEF ChildLoggers
    <3>2. ChildCalls(a)' = ChildCalls(a) \ {g} /\ g \in ChildCalls(a)
      BY <1>3, <2>1 DEF ChildCalls
    <3>3. Cardinality(ChildLoggers(a)') = Cardinality(ChildLoggers(a)) + 1
      BY <1>4, <3>1, FS_AddElement
    <3>4. Cardinality(ChildCalls(a)') = Cardinality(ChildCalls(a)) - 1
      BY <1>4, <3>2, FS_RemoveElement
    <3> QED
      BY <1>4, <3>3, <3>4 DEF Children
  <2>2. CASE a # call[g].parent
    <3>1. ChildLoggers(a)' = ChildLoggers(a)
      BY <1>1, <1>2, <2>2 DEF ChildLoggers
    <3>2. ChildCalls(a)' = ChildCalls(a)
      BY <1>1, <1>3, <2>2 DEF ChildCalls
    <3> QED
      BY <3>1, <3>2 DEF Children
  <2> QED
    BY <2>1, <2>2
<1> QED
  BY <1>1, <1>2, <1>3, <1>4, <1>5 DEF Grows

LEMMA ReturnKeeps ==
  ASSUME IInv, NEW g \in Goroutines, Return(g)
  PROVE  IInv'
<1>0. PICK n : n = Len(loggers) + 1
  OBVIOUS
<1> DEFINE r == [parent |-> call[g].parent, ancestors |-> call[g].ancestors,
                 array |-> call[g].array, len |-> call[g].len, given |-> call[g].given]
<1>1. loggers \in Seq(Loggers) /\ Len(loggers) \in Nat /\ DOMAIN loggers = 1 .. Len(loggers)
  BY DEF IInv, TypeOK
<1>2. loggers' = Append(loggers, r) /\ r \in Loggers
  BY Fields DEF Return, Loggers
<1>3. /\ loggers' \in Seq(Loggers) /\ DOMAIN loggers' = DOMAIN loggers \cup {n}
      /\ loggers'[n] = r /\ n \notin DOMAIN loggers
      /\ \A l \in DOMAIN loggers : loggers'[l] = loggers[l]
  <2> HIDE DEF r
  <2> QED
    BY <1>1, <1>2, <1>0
<1>4. /\ loggers'[n].parent = call[g].parent /\ loggers'[n].ancestors = call[g].ancestors
      /\ loggers'[n].array = call[g].array /\ loggers'[n].len = call[g].len
      /\ loggers'[n].given = call[g].given
  BY <1>3
<1> HIDE DEF r
<1>5. /\ call'[g] = Idle /\ call[g].parent # 0 /\ memory' = memory
      /\ \A h \in Goroutines \ {g} : call'[h] = call[h]
      /\ call' = [call EXCEPT ![g] = Idle]
  BY DEF Return, IInv, TypeOK
<1>6. Idle.parent = 0 /\ Idle.left = {} /\ Idle \in Calls
  BY DEF Idle, Calls
<1>7. TypeOK'
  BY <1>3, <1>5, <1>6 DEF IInv, TypeOK
<1>8. Grows
  BY ReturnChildren
<1>9. Root'
  <2>1. 1 \in DOMAIN loggers /\ loggers'[1] = loggers[1] /\ Len(loggers') >= 1
    BY <1>1, <1>2, <1>3 DEF IInv, Root
  <2> QED
    BY <1>5, <2>1 DEF IInv, Root
<1>10. (\A h \in Goroutines : call[h].parent = 0 => call[h].left = {})'
  BY <1>5, <1>6 DEF IInv
<1>11. \A l \in DOMAIN loggers : SliceOK(loggers[l])'
  BY <1>5, <1>8, LoggersStay DEF Excused
<1>12. SliceOK(loggers[n])'
  <2>1. PICK x : x = call[g]
    OBVIOUS
  <2>2. SliceOK(x)'
    BY <1>5, <1>8, <2>1, Fields, SliceStays DEF SliceOK
  <2> QED
    BY <1>4, <2>1, <2>2 DEF SliceOK, InMemory, Descends, Explained, FromRoot, Lost
<1>13. (\A l \in DOMAIN loggers : SliceOK(loggers[l]))'
  BY <1>3, <1>11, <1>12
<1>14. (\A h \in Goroutines : call[h].parent # 0 => SliceOK(call[h]))'
  BY <1>5, <1>6, <1>8, CallStays DEF Excused
<1>15. ASSUME NEW k \in DOMAIN loggers, loggers[k].array = call[g].array
       PROVE  k \in loggers'[n].ancestors
              \/ (Kin(loggers[n], loggers[k])' /\ Kin(loggers[k], loggers[n])')
  <2>1. CASE k \in call[g].ancestors
    BY <1>4, <2>1
  <2>2. CASE Kin(call[g], loggers[k])
    <3>1. PICK x, y : x = call[g] /\ y = loggers[k]
      OBVIOUS
    <3>2. Kin(x, y)'
      BY <1>5, <1>8, <2>2, <3>1, Fields, KinStays DEF SliceOK
    <3> QED
      BY <1>3, <1>4, <1>15, <3>1, <3>2 DEF Kin
  <2> QED
    BY <1>5, <1>15, <2>1, <2>2 DEF IInv, CallsRelated
<1>16. LoggersRelated'
  <2> SUFFICES ASSUME NEW k \in DOMAIN loggers', NEW l \in DOMAIN loggers', k # l,
                      loggers'[k].array = loggers'[l].array
               PROVE  \/ k \in loggers'[l].ancestors
                      \/ l \in loggers'[k].ancestors
                      \/ Kin(loggers[k], loggers[l])'
    BY DEF LoggersRelated
  <2>1. CASE k = n
    BY <1>3, <1>4, <1>15, <2>1
  <2>2. CASE l = n
    BY <1>3, <1>4, <1>15, <2>2
  <2>3. CASE k # n /\ l # n
    BY <1>3, <1>8, <2>3, LoggersStayRelated
  <2> QED
    BY <2>1, <2>2, <2>3
<1>17. CallsRelated'
  <2>1. ASSUME NEW h \in Goroutines, call'[h].parent # 0, NEW k \in DOMAIN loggers',
               call'[h].array = loggers'[k].array
        PROVE  k \in call'[h].ancestors \/ Kin(call[h], loggers[k])'
    <3>1. h # g /\ call'[h] = call[h]
      BY <1>5, <1>6, <2>1
    <3>2. CASE k = n
      <4>1. Kin(call[h], call[g])
        BY <1>4, <1>5, <2>1, <3>1, <3>2 DEF IInv, CallsRelated
      <4>2. PICK x, y : x = call[h] /\ y = call[g]
        OBVIOUS
      <4>3. Kin(x, y)'
        BY <1>8, <2>1, <3>1, <4>1, <4>2, Fields, KinStays DEF SliceOK
      <4> QED
        BY <1>4, <3>1, <3>2, <4>2, <4>3 DEF Kin
    <3>3. CASE k \in DOMAIN loggers
      BY <1>3, <1>8, <2>1, <3>1, <3>3, CallAndLoggerStayRelated
    <3> QED
      BY <1>3, <3>2, <3>3
  <2>2. ASSUME NEW h \in Goroutines, call'[h].parent # 0,
               NEW i \in Goroutines, call'[i].parent # 0, h # i, call'[h].array = call'[i].array
        PROVE  Kin(call[h], call[i])'
    BY <1>5, <1>6, <1>8, <2>2, CallsStayRelated
  <2> QED
    BY <2>1, <2>2 DEF CallsRelated
<1> QED
  BY <1>7, <1>9, <1>10, <1>13, <1>14, <1>16, <1>17 DEF IInv

-----------------------------------------------------------------------------
(* The slices are in their arrays, related through the loggers they        *)
(* descend from, and have lost pairs only where one of those is shared.    *)
THEOREM Inductive == Spec => []IInv
<1>1. Init => IInv
  BY InitHolds
<1>2. IInv /\ [Next]_vars => IInv'
  <2> SUFFICES ASSUME IInv, [Next]_vars PROVE IInv'
    OBVIOUS
  <2>1. ASSUME NEW g \in Goroutines, NEW l \in DOMAIN loggers, NEW fields \in SUBSET Pairs,
               WithFields(g, l, fields)
        PROVE  IInv'
    BY <2>1, WithFieldsKeeps
  <2>2. ASSUME NEW g \in Goroutines, NEW p \in Pairs, AppendInPlace(g, p) \/ AppendToCopy(g, p)
        PROVE  IInv'
    BY <2>2, InPlaceKeeps, ToCopyKeeps
  <2>3. ASSUME NEW g \in Goroutines, Return(g) PROVE IInv'
    BY <2>3, ReturnKeeps
  <2>4. CASE UNCHANGED vars
    <3>1. memory' = memory /\ loggers' = loggers /\ call' = call
      BY <2>4 DEF vars
    <3>2. TypeOK' /\ Root' /\ (\A g \in Goroutines : call[g].parent = 0 => call[g].left = {})'
      BY <3>1 DEF IInv, TypeOK, Root
    <3>3. \A a : Children(a)' = Children(a)
      BY <3>1 DEF Children, ChildLoggers, ChildCalls
    <3>4. Grows
      BY <3>1, <3>3, ChildrenFinite DEF Grows, IInv
    <3>5. (\A l \in DOMAIN loggers : SliceOK(loggers[l]))'
      BY <3>1, <3>4, LoggersStay DEF Excused
    <3>6. (\A g \in Goroutines : call[g].parent # 0 => SliceOK(call[g]))'
      BY <3>1, <3>4, CallStays DEF Excused
    <3>7. LoggersRelated'
      BY <3>1, <3>4, LoggersStayRelated DEF LoggersRelated
    <3>8. CallsRelated'
      BY <3>1, <3>4, CallAndLoggerStayRelated, CallsStayRelated DEF CallsRelated
    <3> QED
      BY <3>2, <3>5, <3>6, <3>7, <3>8 DEF IInv
  <2> QED
    BY <2>1, <2>2, <2>3, <2>4 DEF Next, Terminated
<1> QED
  BY <1>1, <1>2, PTL DEF Spec

LEMMA NothingLost ==
  ASSUME IInv, NEW l \in DOMAIN loggers, ~ Lost(loggers[l])
  PROVE  Intact(l)
<1> DEFINE x == loggers[l]
           kept == SubSeq(memory[x.array], 1, x.len)
<1>1. memory[x.array] \in Seq(Elements) /\ x.len \in Nat /\ x.len <= Len(memory[x.array])
      /\ x.given \in Seq(Pairs) /\ Len(x.given) = x.len
  BY Fields DEF IInv, TypeOK, InMemory
<1>2. /\ kept \in Seq(Elements) /\ Len(kept) = x.len
      /\ \A i \in 1 .. x.len : kept[i] = memory[x.array][i]
  BY <1>1
<1>3. \A i \in 1 .. x.len : kept[i] = x.given[i]
  BY <1>2 DEF Lost
<1>4. x.given \in Seq(Elements)
  BY <1>1 DEF Elements
<1> HIDE DEF kept
<1>5. kept = x.given
  BY <1>1, <1>2, <1>3, <1>4
<1> QED
  BY <1>5 DEF Intact, KeyValPairs, kept

(* A logger whose pairs are not those it was given descends from one whose *)
(* array has room and from which WithFields was called more than once.     *)
THEOREM LossNeedsSharing == Spec => []LostOnlyWhenShared
<1>1. ASSUME IInv PROVE LostOnlyWhenShared
  BY <1>1, Fields, NothingLost DEF LostOnlyWhenShared, SliceOK, Explained
<1> QED
  BY <1>1, Inductive, PTL

(* However many loggers are derived from the one NewHealthLogger made, and *)
(* however many from those at the same time, the former lose no pair.      *)
THEOREM RootIsSafe == Spec => []RootChildrenKeep
<1>1. ASSUME IInv PROVE RootChildrenKeep
  <2> SUFFICES ASSUME NEW l \in DOMAIN loggers, loggers[l].parent <= 1 PROVE Intact(l)
    BY DEF RootChildrenKeep
  <2>1. ~ Shared(1)
    BY <1>1 DEF Shared, IInv, Root
  <2>2. loggers[l].ancestors \subseteq {1}
    BY <1>1, Fields DEF SliceOK, FromRoot
  <2>3. ~ Lost(loggers[l])
    BY <1>1, <2>1, <2>2, Fields DEF SliceOK, Explained
  <2> QED
    BY <1>1, <2>3, NothingLost
<1> QED
  BY <1>1, Inductive, PTL
=============================================================================
