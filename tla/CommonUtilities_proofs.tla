----------------------- MODULE CommonUtilities_proofs -----------------------
(***************************************************************************)
(* Theorems about CommonUtilities: the containers and the post master.     *)
(*                                                                         *)
(* The hash map, for every capacity, every set of keys and every hash      *)
(* function: it is a dictionary from hashes to values.                     *)
(*                                                                         *)
(* The queue, for any objects, initial capacity and number of objects, if  *)
(* the caller avoids what moves the objects but not the start              *)
(* (ShiftAvoided): then Add either has a free cell before the first        *)
(* object, or the array is full and grows.                                 *)
(*                                                                         *)
(* The post master, for any subscribers, types and numbers of messages,    *)
(* however deeply deliveries nest: a delivery and the list it walks        *)
(* through agree (WalkFits), whatever the callbacks do to the list.        *)
(***************************************************************************)
EXTENDS HashMap, GrowingQueue, PostMaster,
        FiniteSetTheorems, SequenceTheorems, WellFoundedInduction, TLAPS

-----------------------------------------------------------------------------
(***************************************************************************)
(* The hash map                                                            *)
(***************************************************************************)

\* An unused entry has the hash 0, one that was used that of a key, and an
\* entry with a hash other than 0 has a key with that hash.
EntriesAgree ==
    \A i \in Slots :
        /\ myArray[i].state = "Empty" => myArray[i].hash = 0
        /\ myArray[i].state # "Empty" => myArray[i].hash \in Hashes
        /\ myArray[i].hash # 0 => Hash[myArray[i].key] = myArray[i].hash

\* The inductive invariant.
IInv == TypeOK /\ EntriesAgree /\ ChainsUnbroken /\ HashesDiffer

-----------------------------------------------------------------------------
(***************************************************************************)
(* The order in which a loop meets the entries                             *)
(***************************************************************************)

LEMMA SmallestNumber ==
    ASSUME NEW D, D \subseteq Nat, D # {}
    PROVE  \E m \in D : \A n \in D : m <= n
  <1> DEFINE Intervals == {0 .. d : d \in D}
  <1>1. Intervals \subseteq FiniteSubsetsOf(Nat) /\ Intervals # {}
    <2>1. \A d \in D : IsFiniteSet(0 .. d)
      BY FS_Interval
    <2>2. \A d \in D : 0 .. d \subseteq Nat
      OBVIOUS
    <2>3. QED
      BY <2>1, <2>2 DEF FiniteSubsetsOf
  <1>2. PICK T \in Intervals : \A U \in Intervals : ~(<<U, T>> \in StrictSubsetOrdering(Nat))
    BY <1>1, FS_StrictSubsetOrderingWellFounded, WFMin
  <1>3. PICK m \in D : T = 0 .. m
    OBVIOUS
  <1>4. ASSUME NEW n \in D, n < m PROVE FALSE
    <2>1. 0 .. n \subseteq 0 .. m /\ 0 .. n # 0 .. m
      BY <1>4
    <2>2. <<0 .. n, 0 .. m>> \in StrictSubsetOrdering(Nat)
      BY <2>1 DEF StrictSubsetOrdering
    <2>3. QED
      BY <1>2, <1>3, <2>2
  <1>5. QED
    BY <1>4

LEMMA HashTypes == Hashes \subseteq Nat
  BY KeyAssumption DEF Hashes

LEMMA HomeInSlots ==
    ASSUME NEW h \in Nat, NEW i \in Slots
    PROVE  Home(h) \in Slots
  BY CapacityAssumption DEF Home, Slots

\* Distances from one start are different for different entries.
LEMMA DistanceFacts ==
    ASSUME NEW h \in Nat, NEW i \in Slots
    PROVE  /\ Distance(h, i) \in Nat
           /\ \A j \in Slots : Distance(h, i) = Distance(h, j) => i = j
  <1>1. Home(h) \in Slots
    BY HomeInSlots
  <1>2. QED
    BY <1>1, CapacityAssumption DEF Distance, Slots

LEMMA FirstIsFirst ==
    ASSUME NEW h \in Nat, NEW S, S \subseteq Slots, S # {}
    PROVE  /\ First(h, S) \in S
           /\ \A j \in S : Distance(h, First(h, S)) <= Distance(h, j)
  <1> DEFINE D == {Distance(h, i) : i \in S}
  <1>1. D \subseteq Nat /\ D # {}
    BY DistanceFacts
  <1>2. \E m \in D : \A n \in D : m <= n
    BY <1>1, SmallestNumber
  <1>3. \E i \in S : \A j \in S : Distance(h, i) <= Distance(h, j)
    BY <1>2
  <1>4. QED
    BY <1>3 DEF First

\* An entry before the first one of a set is not in the set.
LEMMA BeforeFirst ==
    ASSUME NEW h \in Nat, NEW S, S \subseteq Slots, S # {},
           NEW j \in Slots, Distance(h, j) < Distance(h, First(h, S))
    PROVE  j \notin S
  <1>1. First(h, S) \in Slots
    BY FirstIsFirst
  <1>2. Distance(h, j) \in Nat /\ Distance(h, First(h, S)) \in Nat
    BY <1>1, DistanceFacts
  <1>3. QED
    BY <1>2, FirstIsFirst

\* The entry that was used for a hash is the first one a loop stops at, if
\* the loop stops only at entries with the hash and at empty ones.
LEMMA UsedIsFirst ==
    ASSUME IInv, NEW h \in Nat,
           NEW i \in Slots, myArray[i].state # "Empty", myArray[i].hash = h,
           NEW S, S \subseteq Slots, i \in S,
           \A j \in S : myArray[j].state # "Empty" => myArray[j].hash = h
    PROVE  First(h, S) = i
  <1> DEFINE f == First(h, S)
  <1>1. f \in S /\ Distance(h, f) <= Distance(h, i)
    BY FirstIsFirst
  <1>2. SUFFICES ASSUME f # i PROVE FALSE
    OBVIOUS
  <1>3. /\ Distance(h, f) \in Nat /\ Distance(h, i) \in Nat
        /\ Distance(h, f) # Distance(h, i)
    BY <1>1, <1>2, DistanceFacts
  <1>4. Distance(h, f) < Distance(h, i)
    BY <1>1, <1>3
  <1>5. myArray[f].state # "Empty"
    BY <1>1, <1>4 DEF IInv, ChainsUnbroken
  <1>6. QED
    BY <1>1, <1>2, <1>5 DEF IInv, HashesDiffer

\* Get and Remove find a hash exactly when an entry is in use for it.
LEMMA FindsUsed ==
    ASSUME IInv, NEW h \in Nat
    PROVE  /\ IsFound(h) => /\ First(h, Stops(h)) \in Slots
                            /\ myArray[First(h, Stops(h))].state = "Used"
                            /\ myArray[First(h, Stops(h))].hash = h
           /\ \A i \in Slots : myArray[i].state = "Used" /\ myArray[i].hash = h
                  => IsFound(h) /\ First(h, Stops(h)) = i
  <1>1. Stops(h) \subseteq Slots
    BY DEF Stops
  <1>2. ASSUME IsFound(h)
        PROVE  /\ First(h, Stops(h)) \in Slots
               /\ myArray[First(h, Stops(h))].state = "Used"
               /\ myArray[First(h, Stops(h))].hash = h
    <2>1. First(h, Stops(h)) \in Stops(h)
      BY <1>1, <1>2, FirstIsFirst DEF IsFound
    <2>2. QED
      BY <1>2, <2>1 DEF IsFound, Stops
  <1>3. ASSUME NEW i \in Slots, myArray[i].state = "Used", myArray[i].hash = h
        PROVE  IsFound(h) /\ First(h, Stops(h)) = i
    <2>1. i \in Stops(h)
      BY <1>3 DEF Stops
    <2>2. First(h, Stops(h)) = i
      BY <1>1, <1>3, <2>1, UsedIsFirst DEF Stops
    <2>3. QED
      BY <1>3, <2>1, <2>2 DEF IsFound
  <1>4. QED
    BY <1>2, <1>3

-----------------------------------------------------------------------------
(***************************************************************************)
(* The invariant                                                           *)
(***************************************************************************)

LEMMA ArrayType ==
    ASSUME TypeOK, NEW i \in Slots
    PROVE  /\ myArray[i] \in Entries
           /\ myArray[i].state \in {"Empty", "Used", "Removed"}
           /\ myArray[i].key \in Keys /\ myArray[i].value \in Values
           /\ myArray[i].hash \in Nat
  <1>1. myArray[i] \in Entries
    BY DEF TypeOK
  <1>2. /\ myArray[i].state \in {"Empty", "Used", "Removed"}
        /\ myArray[i].key \in Keys /\ myArray[i].value \in Values
        /\ myArray[i].hash \in Hashes \cup {0}
    BY <1>1 DEF Entries
  <1>3. Hashes \cup {0} \subseteq Nat
    BY HashTypes
  <1>4. myArray[i].hash \in Nat
    BY <1>2, <1>3
  <1>5. QED
    BY <1>1, <1>2, <1>4

LEMMA InitInvariant == Init => IInv
  <1> SUFFICES ASSUME Init PROVE IInv
    OBVIOUS
  <1>1. \A i \in Slots : \E v \in Values :
            myArray[i] = [state |-> "Empty", key |-> EmptyKey, value |-> v, hash |-> 0]
    BY DEF Init
  <1>2. ASSUME NEW i \in Slots
        PROVE  /\ myArray[i] \in Entries
               /\ myArray[i].state = "Empty" /\ myArray[i].hash = 0
    <2>1. PICK v \in Values :
              myArray[i] = [state |-> "Empty", key |-> EmptyKey, value |-> v, hash |-> 0]
      BY <1>1
    <2>2. QED
      BY <2>1, KeyAssumption DEF Entries
  <1>3. TypeOK
    BY <1>2 DEF Init, TypeOK
  <1>4. QED
    BY <1>2, <1>3 DEF IInv, EntriesAgree, ChainsUnbroken, HashesDiffer

\* A matching entry is used again where it is.
LEMMA InsertMatchingInvariant ==
    ASSUME IInv, NEW k \in Keys, NEW v \in Values, InsertMatching(k, v), found' = Nothing
    PROVE  IInv'
  <1> DEFINE h == Hash[k]
             i == First(h, Matching(h))
  <1>1. h \in Nat /\ h \in Hashes
    BY KeyAssumption DEF Hashes
  <1>2. Matching(h) \subseteq Slots /\ Matching(h) # {}
    BY DEF Matching, InsertMatching
  <1>3. i \in Slots /\ myArray[i].hash = h
    BY <1>1, <1>2, FirstIsFirst DEF Matching
  <1>4. myArray' = [myArray EXCEPT ![i] = Revived(myArray[i], v)]
    BY DEF InsertMatching
  <1>5. Revived(myArray[i], v) \in Entries
    BY <1>3, ArrayType DEF IInv, Revived, Entries
  <1>6. TypeOK'
    BY <1>3, <1>4, <1>5 DEF IInv, TypeOK, InsertMatching
  <1>7. /\ \A j \in Slots : j # i => myArray'[j] = myArray[j]
        /\ myArray'[i].state = "Used" /\ myArray'[i].hash = h
        /\ myArray'[i].key = myArray[i].key
    BY <1>3, <1>4, <1>5, ArrayType DEF IInv, TypeOK, Revived, Entries
  <1> HIDE DEF i
  <1>8. EntriesAgree'
    BY <1>1, <1>3, <1>7 DEF IInv, EntriesAgree
  \* An empty entry before the first one with the hash 0 would be that one.
  <1>9. ASSUME NEW j \in Slots, Distance(h, j) < Distance(h, i)
        PROVE  myArray[j].state # "Empty"
    <2>1. CASE myArray[i].state # "Empty"
      BY <1>3, <1>9, <2>1 DEF IInv, ChainsUnbroken
    <2>2. CASE myArray[i].state = "Empty"
      <3>1. h = 0
        BY <1>3, <2>2 DEF IInv, EntriesAgree
      <3>2. j \notin Matching(h)
        BY <1>1, <1>2, <1>9, BeforeFirst DEF i
      <3>3. QED
        BY <3>1, <3>2 DEF Matching, IInv, EntriesAgree
    <2>3. QED
      BY <2>1, <2>2
  <1>10. ChainsUnbroken'
    <2> SUFFICES ASSUME NEW p \in Slots, NEW q \in Slots, myArray'[p].state # "Empty",
                        Distance(myArray'[p].hash, q) < Distance(myArray'[p].hash, p)
                 PROVE  myArray'[q].state # "Empty"
      BY DEF ChainsUnbroken, Distance, Home, Slots
    <2>1. CASE p = i
      BY <1>7, <1>9, <2>1
    <2>2. CASE p # i
      BY <1>7, <2>2 DEF IInv, ChainsUnbroken
    <2>3. QED
      BY <2>1, <2>2
  <1>11. ASSUME NEW j \in Slots, myArray[j].state # "Empty", myArray[j].hash = h
         PROVE  j = i
    <2>1. j \in Matching(h)
      BY <1>11 DEF Matching
    <2>2. QED
      BY <1>1, <1>2, <1>11, <2>1, UsedIsFirst DEF Matching, i
  <1>12. HashesDiffer'
    BY <1>7, <1>11 DEF IInv, HashesDiffer
  <1>13. QED
    BY <1>6, <1>8, <1>10, <1>12 DEF IInv

\* A new entry is written into the first free one.
LEMMA InsertNewInvariant ==
    ASSUME IInv, NEW k \in Keys, NEW v \in Values, InsertNew(k, v), found' = Nothing
    PROVE  IInv'
  <1> DEFINE h == Hash[k]
             i == First(h, Room)
  <1>1. h \in Nat /\ h \in Hashes
    BY KeyAssumption DEF Hashes
  <1>2. Room \subseteq Slots /\ Room # {}
    BY DEF Room, InsertNew
  <1>3. i \in Slots
    BY <1>1, <1>2, FirstIsFirst
  <1>4. myArray' = [myArray EXCEPT ![i] = NewEntry(k, v)]
    BY DEF InsertNew
  <1>5. NewEntry(k, v) \in Entries
    BY <1>1 DEF NewEntry, Entries
  <1>6. TypeOK'
    BY <1>3, <1>4, <1>5 DEF IInv, TypeOK, InsertNew
  <1>7. /\ \A j \in Slots : j # i => myArray'[j] = myArray[j]
        /\ myArray'[i].state = "Used" /\ myArray'[i].hash = h
        /\ myArray'[i].key = k
    BY <1>3, <1>4 DEF IInv, TypeOK, NewEntry
  <1>8. \A j \in Slots : myArray[j].hash # h
    BY DEF InsertNew, Matching
  <1>9. \A j \in Slots : Distance(h, j) < Distance(h, i) => myArray[j].state # "Empty"
    BY <1>1, <1>2, BeforeFirst DEF Room
  <1> HIDE DEF i
  <1>10. EntriesAgree'
    BY <1>1, <1>7 DEF IInv, EntriesAgree
  <1>11. ChainsUnbroken'
    <2> SUFFICES ASSUME NEW p \in Slots, NEW q \in Slots, myArray'[p].state # "Empty",
                        Distance(myArray'[p].hash, q) < Distance(myArray'[p].hash, p)
                 PROVE  myArray'[q].state # "Empty"
      BY DEF ChainsUnbroken, Distance, Home, Slots
    <2>1. CASE p = i
      BY <1>7, <1>9, <2>1
    <2>2. CASE p # i
      BY <1>7, <2>2 DEF IInv, ChainsUnbroken
    <2>3. QED
      BY <2>1, <2>2
  <1>12. HashesDiffer'
    BY <1>7, <1>8 DEF IInv, HashesDiffer
  <1>13. QED
    BY <1>6, <1>10, <1>11, <1>12 DEF IInv

\* Entries that only change from used to removed, or their values.
LEMMA DroppedInvariant ==
    ASSUME IInv, myArray' \in [Slots -> Entries],
           \A i \in Slots : /\ myArray'[i].key = myArray[i].key
                            /\ myArray'[i].hash = myArray[i].hash
                            /\ myArray'[i].state = "Empty" <=> myArray[i].state = "Empty",
           success' \in BOOLEAN, found' \in Values \cup {Nothing}
    PROVE  IInv'
  <1>1. TypeOK'
    BY DEF TypeOK
  <1>2. EntriesAgree'
    BY DEF IInv, EntriesAgree
  <1>3. HashesDiffer'
    BY DEF IInv, HashesDiffer
  <1>4. ChainsUnbroken'
    <2> SUFFICES ASSUME NEW p \in Slots, NEW q \in Slots, myArray'[p].state # "Empty",
                        Distance(myArray'[p].hash, q) < Distance(myArray'[p].hash, p)
                 PROVE  myArray'[q].state # "Empty"
      BY DEF ChainsUnbroken, Distance, Home, Slots
    <2>1. QED
      BY DEF IInv, ChainsUnbroken
  <1>5. QED
    BY <1>1, <1>2, <1>3, <1>4 DEF IInv

\* Remove and Delete change the entry that Get would find.
LEMMA DropInvariant ==
    ASSUME IInv, NEW k \in Keys, Remove(k) \/ Delete(k)
    PROVE  IInv'
  <1> DEFINE h == Hash[k]
             i == First(h, Stops(h))
  <1>1. h \in Nat
    BY KeyAssumption
  <1>2. success' \in BOOLEAN /\ found' \in Values \cup {Nothing}
    BY DEF Remove, Delete, Drop, IsFound
  <1>3. CASE IsFound(h)
    <2>1. i \in Slots /\ myArray[i].state = "Used"
      BY <1>1, <1>3, FindsUsed
    <2>2. PICK e \in Entries :
              /\ myArray' = [myArray EXCEPT ![i] = e]
              /\ e.key = myArray[i].key /\ e.hash = myArray[i].hash
              /\ e.state = "Removed"
      <3>1. CASE Remove(k)
        <4>1. myArray' = [myArray EXCEPT ![i] = RemovedEntry(myArray[i])]
          BY <1>3, <3>1 DEF Remove, Drop
        <4>2. /\ RemovedEntry(myArray[i]) \in Entries
              /\ RemovedEntry(myArray[i]).key = myArray[i].key
              /\ RemovedEntry(myArray[i]).hash = myArray[i].hash
              /\ RemovedEntry(myArray[i]).state = "Removed"
          BY <2>1, ArrayType DEF IInv, RemovedEntry, Entries
        <4>3. QED
          BY <4>1, <4>2
      <3>2. CASE Delete(k)
        <4>1. myArray' = [myArray EXCEPT ![i] = DeletedEntry(myArray[i])]
          BY <1>3, <3>2 DEF Delete, Drop
        <4>2. /\ DeletedEntry(myArray[i]) \in Entries
              /\ DeletedEntry(myArray[i]).key = myArray[i].key
              /\ DeletedEntry(myArray[i]).hash = myArray[i].hash
              /\ DeletedEntry(myArray[i]).state = "Removed"
          BY <2>1, ArrayType, ValueAssumption DEF IInv, DeletedEntry, Entries
        <4>3. QED
          BY <4>1, <4>2
      <3>3. QED
        BY <3>1, <3>2
    <2>3. myArray' \in [Slots -> Entries]
      BY <2>1, <2>2 DEF IInv, TypeOK
    <2>4. \A j \in Slots : /\ myArray'[j].key = myArray[j].key
                           /\ myArray'[j].hash = myArray[j].hash
                           /\ myArray'[j].state = "Empty" <=> myArray[j].state = "Empty"
      BY <2>1, <2>2 DEF IInv, TypeOK
    <2>5. QED
      BY <1>2, <2>3, <2>4, DroppedInvariant
  <1>4. CASE ~ IsFound(h)
    <2>1. myArray' = myArray
      BY <1>4 DEF Remove, Delete, Drop
    <2>2. QED
      BY <1>2, <2>1, DroppedInvariant DEF IInv, TypeOK
  <1>5. QED
    BY <1>3, <1>4

LEMMA DropAllInvariant ==
    ASSUME IInv, RemoveAll \/ DeleteAll
    PROVE  IInv'
  <1>1. success' \in BOOLEAN /\ found' \in Values \cup {Nothing}
    BY DEF RemoveAll, DeleteAll, DropAll
  <1>2. ASSUME NEW i \in Slots
        PROVE  /\ myArray'[i] \in Entries
               /\ myArray'[i].key = myArray[i].key
               /\ myArray'[i].hash = myArray[i].hash
               /\ myArray'[i].state = "Empty" <=> myArray[i].state = "Empty"
    <2>1. CASE myArray[i].state = "Used"
      <3>1. myArray'[i] \in {RemovedEntry(myArray[i]), DeletedEntry(myArray[i])}
        BY <2>1 DEF RemoveAll, DeleteAll, DropAll
      <3>2. QED
        BY <2>1, <3>1, ArrayType, ValueAssumption
        DEF IInv, RemovedEntry, DeletedEntry, Entries
    <2>2. CASE myArray[i].state # "Used"
      BY <2>2, ArrayType DEF IInv, RemoveAll, DeleteAll, DropAll
    <2>3. QED
      BY <2>1, <2>2
  <1>3. myArray' \in [Slots -> Entries]
    <2>1. DOMAIN myArray' = Slots /\ myArray' = [i \in Slots |-> myArray'[i]]
      BY DEF RemoveAll, DeleteAll, DropAll
    <2>2. QED
      BY <1>2, <2>1
  <1>4. QED
    BY <1>1, <1>2, <1>3, DroppedInvariant

LEMMA NextInvariant == IInv /\ [Next]_vars => IInv'
  <1> SUFFICES ASSUME IInv, [Next]_vars PROVE IInv'
    OBVIOUS
  <1>1. ASSUME NEW k \in Keys, Full(k), found' = Nothing PROVE IInv'
    BY <1>1, DroppedInvariant DEF IInv, TypeOK, Full
  <1>2. ASSUME NEW k \in Keys, NEW v \in Values, Insert(k, v) PROVE IInv'
    BY <1>1, <1>2, InsertMatchingInvariant, InsertNewInvariant DEF Insert
  <1>3. ASSUME NEW k \in Keys, Create(k) PROVE IInv'
    <2>1. found' = Nothing
      BY <1>3 DEF Create
    <2>2. CASE CreateMatching(k)
      <3> DEFINE h == Hash[k]
                 i == First(h, Matching(h))
      <3>1. Matching(h) \subseteq Slots /\ Matching(h) # {} /\ h \in Nat
        BY <2>2, KeyAssumption DEF CreateMatching, Matching
      <3>2. i \in Slots
        BY <3>1, FirstIsFirst
      <3>3. myArray[i].value \in Values
        BY <3>2, ArrayType DEF IInv
      <3>4. InsertMatching(k, myArray[i].value)
        BY <2>2 DEF CreateMatching
      <3>5. QED
        BY <2>1, <3>3, <3>4, InsertMatchingInvariant
    <2>3. CASE \E v \in Values : InsertNew(k, v)
      BY <2>1, <2>3, InsertNewInvariant
    <2>4. CASE Full(k)
      BY <1>1, <2>1, <2>4
    <2>5. QED
      BY <1>3, <2>2, <2>3, <2>4 DEF Create
  <1>4. ASSUME NEW k \in Keys, Get(k) PROVE IInv'
    <2>1. UNCHANGED myArray /\ success' \in BOOLEAN
      BY <1>4 DEF Get, IsFound
    <2>2. Hash[k] \in Nat
      BY KeyAssumption
    <2>3. found' \in Values \cup {Nothing}
      <3>1. CASE IsFound(Hash[k])
        BY <1>4, <2>2, <3>1, FindsUsed, ArrayType DEF Get, IInv
      <3>2. CASE ~ IsFound(Hash[k])
        BY <1>4, <3>2 DEF Get
      <3>3. QED
        BY <3>1, <3>2
    <2>4. QED
      BY <2>1, <2>3, DroppedInvariant DEF IInv, TypeOK
  <1>5. CASE UNCHANGED vars
    BY <1>5, DroppedInvariant DEF IInv, TypeOK, vars
  <1>6. QED
    BY <1>2, <1>3, <1>4, <1>5, DropInvariant, DropAllInvariant DEF Next

\* Every reachable state satisfies the inductive invariant.
LEMMA Invariance == Spec => []IInv
  <1>1. QED
    BY InitInvariant, NextInvariant, PTL DEF Spec

\* Entries are states, keys, values and hashes; Get answers a value or nullptr.
THEOREM TypeCorrect == Spec => []TypeOK
  <1>1. IInv => TypeOK
    BY DEF IInv
  <1>2. QED
    BY <1>1, Invariance, PTL

\* However entries are removed and used again, a loop that starts where a
\* hash starts meets the entry of the hash before any empty one.
THEOREM ChainsStayUnbroken == Spec => []ChainsUnbroken
  <1>1. IInv => ChainsUnbroken
    BY DEF IInv
  <1>2. QED
    BY <1>1, Invariance, PTL

\* At most one entry is ever used for a hash.
THEOREM HashesStayDifferent == Spec => []HashesDiffer
  <1>1. IInv => HashesDiffer
    BY DEF IInv
  <1>2. QED
    BY <1>1, Invariance, PTL

\* Iterators visit every entry in use but those without a key.
THEOREM IterationStaysComplete == Spec => []IterationIsComplete
  <1>1. IInv => IterationIsComplete
    BY DEF IInv, EntriesAgree, IterationIsComplete, Visited
  <1>2. QED
    BY <1>1, Invariance, PTL

-----------------------------------------------------------------------------
(***************************************************************************)
(* The dictionary                                                          *)
(***************************************************************************)

UsedFor(h, i) == myArray[i].state = "Used" /\ myArray[i].hash = h

\* Under the invariant a hash has the value of the one entry used for it.
LEMMA ContentFacts ==
    ASSUME IInv, NEW h \in Nat
    PROVE  /\ \A i \in Slots : UsedFor(h, i) => ContentOf(h) = myArray[i].value
           /\ ContentOf(h) # Nothing <=> \E i \in Slots : UsedFor(h, i)
           /\ (~ \E i \in Slots : UsedFor(h, i)) => ContentOf(h) = Nothing
  <1>1. ASSUME NEW i \in Slots, UsedFor(h, i)
        PROVE  ContentOf(h) = myArray[i].value /\ myArray[i].value # Nothing
    <2>1. \A j \in Slots : UsedFor(h, j) => j = i
      BY <1>1 DEF IInv, HashesDiffer, UsedFor
    <2>2. (CHOOSE j \in Slots : UsedFor(h, j)) = i
      BY <1>1, <2>1
    <2>3. myArray[i].value # Nothing
      BY ArrayType, ValueAssumption DEF IInv
    <2>4. QED
      BY <1>1, <2>2, <2>3 DEF ContentOf, UsedFor
  <1>2. (~ \E i \in Slots : UsedFor(h, i)) => ContentOf(h) = Nothing
    BY DEF ContentOf, UsedFor
  <1>3. QED
    BY <1>1, <1>2

\* What Get finds is what the dictionary has.
LEMMA FindsContent ==
    ASSUME IInv, NEW h \in Nat
    PROVE  /\ IsFound(h) <=> ContentOf(h) # Nothing
           /\ IsFound(h) => ContentOf(h) = myArray[First(h, Stops(h))].value
  <1>1. IsFound(h) <=> \E i \in Slots : UsedFor(h, i)
    BY FindsUsed DEF UsedFor
  <1>2. IsFound(h) => /\ First(h, Stops(h)) \in Slots
                      /\ UsedFor(h, First(h, Stops(h)))
    BY FindsUsed DEF UsedFor
  <1>3. QED
    BY <1>1, <1>2, ContentFacts

PresentHashes == {h \in Hashes : ContentOf(h) # Nothing}

SlotOf == [h \in PresentHashes |-> CHOOSE i \in Slots : UsedFor(h, i)]

LEMMA SlotsFinite == IsFiniteSet(Slots) /\ Cardinality(Slots) = Capacity
  <1>1. 0 \in Int /\ Capacity - 1 \in Int /\ Capacity \in Nat
    BY CapacityAssumption
  <1>2. IsFiniteSet(Slots) /\ Cardinality(Slots) = IF 0 > Capacity - 1 THEN 0 ELSE Capacity - 1 - 0 + 1
    BY <1>1, FS_Interval DEF Slots
  <1>3. QED
    BY <1>1, <1>2

LEMMA SlotOfInjective ==
    ASSUME IInv
    PROVE  /\ SlotOf \in Injection(PresentHashes, Slots)
           /\ \A h \in PresentHashes : UsedFor(h, SlotOf[h])
  <1>1. ASSUME NEW h \in PresentHashes
        PROVE  SlotOf[h] \in Slots /\ UsedFor(h, SlotOf[h])
    <2>1. h \in Nat /\ ContentOf(h) # Nothing
      BY HashTypes DEF PresentHashes
    <2>2. \E i \in Slots : UsedFor(h, i)
      BY <2>1, ContentFacts
    <2>3. QED
      BY <2>2 DEF SlotOf
  <1>2. SlotOf \in [PresentHashes -> Slots]
    BY <1>1 DEF SlotOf
  <1>3. \A g, h \in PresentHashes : SlotOf[g] = SlotOf[h] => g = h
    BY <1>1 DEF UsedFor
  <1>4. QED
    BY <1>1, <1>2, <1>3 DEF Injection, IsInjective

\* The dictionary is full exactly when every entry is in use.
LEMMA RoomIsRoom ==
    ASSUME IInv
    PROVE  Room # {} <=> Cardinality(PresentHashes) < Capacity
  <1>1. /\ IsFiniteSet(PresentHashes)
        /\ Cardinality(PresentHashes) <= Capacity
        /\ Cardinality(PresentHashes) = Capacity => SlotOf \in Surjection(PresentHashes, Slots)
    BY SlotOfInjective, SlotsFinite, FS_Injection
  <1>2. Cardinality(PresentHashes) \in Nat
    BY <1>1, FS_CardinalityType
  <1>3. ASSUME Room # {} PROVE Cardinality(PresentHashes) < Capacity
    <2>1. PICK i \in Slots : myArray[i].state # "Used"
      BY <1>3 DEF Room
    <2>2. ~ \E h \in PresentHashes : SlotOf[h] = i
      BY <2>1, SlotOfInjective DEF UsedFor
    <2>3. SlotOf \notin Surjection(PresentHashes, Slots)
      BY <2>2 DEF Surjection
    <2>4. QED
      BY <1>1, <1>2, <2>3, CapacityAssumption
  <1>4. ASSUME Room = {} PROVE ~ (Cardinality(PresentHashes) < Capacity)
    <2> DEFINE f == [i \in Slots |-> myArray[i].hash]
    <2>1. \A i \in Slots : myArray[i].state = "Used"
      BY <1>4, ArrayType DEF Room, IInv
    <2>2. ASSUME NEW i \in Slots PROVE f[i] \in PresentHashes
      <3>1. f[i] \in Hashes
        BY <2>1 DEF IInv, EntriesAgree
      <3>2. UsedFor(f[i], i)
        BY <2>1 DEF UsedFor
      <3>3. QED
        BY <3>1, <3>2, ContentFacts, HashTypes DEF PresentHashes
    <2>3. f \in Injection(Slots, PresentHashes)
      BY <2>1, <2>2 DEF IInv, HashesDiffer, Injection, IsInjective
    <2>4. Capacity <= Cardinality(PresentHashes)
      BY <1>1, <2>3, SlotsFinite, FS_Injection
    <2>5. QED
      BY <1>2, <2>4, CapacityAssumption
  <1>5. QED
    BY <1>3, <1>4

\* ContentFacts for a hash, as a predicate that can be used after a step.
ContentKnown ==
    \A h \in Nat :
        /\ \A i \in Slots : UsedFor(h, i) => ContentOf(h) = myArray[i].value
        /\ (~ \E i \in Slots : UsedFor(h, i)) => ContentOf(h) = Nothing

LEMMA ContentIsKnown == IInv => ContentKnown
  BY ContentFacts DEF ContentKnown

LEMMA ContentIsKnownNext == IInv' => ContentKnown'
  BY ContentIsKnown, PTL

\* The content of the map when one entry comes into use for h.
LEMMA WrittenContent ==
    ASSUME IInv, IInv', NEW h \in Hashes, NEW i \in Slots, NEW v \in Values,
           ~ (myArray[i].state = "Used" /\ myArray[i].hash # h),
           myArray'[i].state = "Used", myArray'[i].hash = h, myArray'[i].value = v,
           \A j \in Slots : j # i => myArray'[j] = myArray[j]
    PROVE  Content' = [Content EXCEPT ![h] = v]
  <1> SUFFICES ASSUME NEW g \in Hashes
               PROVE  ContentOf(g)' = IF g = h THEN v ELSE ContentOf(g)
    BY DEF Content
  <1>1. g \in Nat
    BY HashTypes
  <1>2. ContentKnown /\ ContentKnown'
    BY ContentIsKnown, ContentIsKnownNext
  <1>3. CASE g = h
    BY <1>1, <1>2, <1>3 DEF ContentKnown, UsedFor, Slots
  <1>4. CASE g # h
    <2>1. \A j \in Slots : UsedFor(g, j)' <=> UsedFor(g, j)
      BY <1>4 DEF UsedFor
    <2>2. \A j \in Slots : UsedFor(g, j) => myArray'[j] = myArray[j]
      BY <1>4 DEF UsedFor
    <2>3. CASE \E j \in Slots : UsedFor(g, j)
      <3>1. PICK j \in Slots : UsedFor(g, j)
        BY <2>3
      <3>2. ContentOf(g) = myArray[j].value
        BY <1>1, <1>2, <3>1 DEF ContentKnown
      <3>3. ContentOf(g)' = myArray'[j].value
        BY <1>1, <1>2, <2>1, <3>1 DEF ContentKnown, Slots
      <3>4. QED
        BY <1>4, <2>2, <3>1, <3>2, <3>3
    <2>4. CASE ~ \E j \in Slots : UsedFor(g, j)
      <3>1. ContentOf(g) = Nothing
        BY <1>1, <1>2, <2>4 DEF ContentKnown
      <3>2. ContentOf(g)' = Nothing
        BY <1>1, <1>2, <2>1, <2>4 DEF ContentKnown, Slots
      <3>3. QED
        BY <1>4, <3>1, <3>2
    <2>5. QED
      BY <2>3, <2>4
  <1>5. QED
    BY <1>3, <1>4

\* The content of the map when entries with hashes in S are no longer used.
LEMMA DroppedContent ==
    ASSUME IInv, IInv', NEW S,
           \A j \in Slots :
               IF myArray[j].state = "Used" /\ myArray[j].hash \in S
                 THEN myArray'[j].state # "Used"
                 ELSE myArray'[j] = myArray[j]
    PROVE  Content' = [h \in Hashes |-> IF h \in S THEN Nothing ELSE ContentOf(h)]
  <1> SUFFICES ASSUME NEW g \in Hashes
               PROVE  ContentOf(g)' = IF g \in S THEN Nothing ELSE ContentOf(g)
    BY DEF Content
  <1>1. g \in Nat
    BY HashTypes
  <1>2. ContentKnown /\ ContentKnown'
    BY ContentIsKnown, ContentIsKnownNext
  <1>3. CASE g \in S
    <2>1. \A j \in Slots : ~ UsedFor(g, j)'
      BY <1>3 DEF UsedFor
    <2>2. QED
      BY <1>1, <1>2, <1>3, <2>1 DEF ContentKnown, Slots
  <1>4. CASE g \notin S
    <2>1. \A j \in Slots : UsedFor(g, j)' <=> UsedFor(g, j)
      BY <1>4 DEF UsedFor
    <2>2. \A j \in Slots : UsedFor(g, j) => myArray'[j] = myArray[j]
      BY <1>4 DEF UsedFor
    <2>3. CASE \E j \in Slots : UsedFor(g, j)
      <3>1. PICK j \in Slots : UsedFor(g, j)
        BY <2>3
      <3>2. ContentOf(g) = myArray[j].value
        BY <1>1, <1>2, <3>1 DEF ContentKnown
      <3>3. ContentOf(g)' = myArray'[j].value
        BY <1>1, <1>2, <2>1, <3>1 DEF ContentKnown, Slots
      <3>4. QED
        BY <1>4, <2>2, <3>1, <3>2, <3>3
    <2>4. CASE ~ \E j \in Slots : UsedFor(g, j)
      <3>1. ContentOf(g) = Nothing
        BY <1>1, <1>2, <2>4 DEF ContentKnown
      <3>2. ContentOf(g)' = Nothing
        BY <1>1, <1>2, <2>1, <2>4 DEF ContentKnown, Slots
      <3>3. QED
        BY <1>4, <3>1, <3>2
    <2>5. QED
      BY <2>3, <2>4
  <1>5. QED
    BY <1>3, <1>4

\* Whether the dictionary has a hash, and whether it has room.
LEMMA AbstractFacts ==
    /\ \A h \in Hashes : Abstract!Present(h) <=> ContentOf(h) # Nothing
    /\ Abstract!Size = Cardinality(PresentHashes)
  <1>1. \A h \in Hashes : Abstract!Present(h) <=> ContentOf(h) # Nothing
    BY DEF Abstract!Present, Content
  <1>2. {h \in Hashes : Abstract!Present(h)} = PresentHashes
    BY <1>1 DEF PresentHashes
  <1>3. Abstract!Size = Cardinality({h \in Hashes : Abstract!Present(h)})
    BY DEF Abstract!Size, Abstract!Cardinality, Cardinality
  <1>4. QED
    BY <1>1, <1>2, <1>3

-----------------------------------------------------------------------------
(***************************************************************************)
(* Every step is a step of the dictionary                                  *)
(***************************************************************************)

LEMMA InitIsAbstract == Init => Abstract!Init
  <1> SUFFICES ASSUME Init PROVE Abstract!Init
    OBVIOUS
  <1>1. \A i \in Slots : myArray[i].state # "Used"
    BY DEF Init
  <1>2. \A h \in Hashes : ContentOf(h) = Nothing
    BY <1>1 DEF ContentOf
  <1>3. QED
    BY <1>2 DEF Init, Abstract!Init, Content

LEMMA InsertMatchingPuts ==
    ASSUME IInv, IInv', NEW k \in Keys, NEW v \in Values,
           InsertMatching(k, v), found' = Nothing
    PROVE  Abstract!Put(Hash[k], v)
  <1> DEFINE h == Hash[k]
             i == First(h, Matching(h))
  <1>1. h \in Nat /\ h \in Hashes
    BY KeyAssumption DEF Hashes
  <1>2. Matching(h) \subseteq Slots /\ Matching(h) # {}
    BY DEF Matching, InsertMatching
  <1>3. i \in Slots /\ myArray[i].hash = h
    BY <1>1, <1>2, FirstIsFirst DEF Matching
  <1>4. myArray' = [myArray EXCEPT ![i] = Revived(myArray[i], v)]
    BY DEF InsertMatching
  <1>5. /\ Revived(myArray[i], v).state = "Used"
        /\ Revived(myArray[i], v).hash = h
        /\ Revived(myArray[i], v).value = v
    BY <1>3, ArrayType DEF IInv, Revived, Entries
  <1>6. /\ \A j \in Slots : j # i => myArray'[j] = myArray[j]
        /\ myArray'[i].state = "Used" /\ myArray'[i].hash = h /\ myArray'[i].value = v
    BY <1>3, <1>4, <1>5 DEF IInv, TypeOK
  <1> HIDE DEF i
  <1>7. Content' = [Content EXCEPT ![h] = v]
    BY <1>1, <1>3, <1>6, WrittenContent
  <1>8. Abstract!Present(h) \/ Abstract!Size < Capacity
    <2>1. CASE myArray[i].state = "Used"
      BY <1>1, <1>3, <2>1, ContentFacts, AbstractFacts DEF UsedFor
    <2>2. CASE myArray[i].state # "Used"
      <3>1. Room # {}
        BY <1>3, <2>2, ArrayType DEF IInv, Room
      <3>2. QED
        BY <3>1, RoomIsRoom, AbstractFacts
    <2>3. QED
      BY <2>1, <2>2
  <1>9. success' = TRUE
    BY DEF InsertMatching
  <1>10. QED
    BY <1>7, <1>8, <1>9 DEF Abstract!Put, Content

LEMMA InsertNewPuts ==
    ASSUME IInv, IInv', NEW k \in Keys, NEW v \in Values,
           InsertNew(k, v), found' = Nothing
    PROVE  Abstract!Put(Hash[k], v)
  <1> DEFINE h == Hash[k]
             i == First(h, Room)
  <1>1. h \in Nat /\ h \in Hashes
    BY KeyAssumption DEF Hashes
  <1>2. Room \subseteq Slots /\ Room # {}
    BY DEF Room, InsertNew
  <1>3. i \in Slots /\ myArray[i].state # "Used"
    BY <1>1, <1>2, FirstIsFirst DEF Room
  <1>4. /\ \A j \in Slots : j # i => myArray'[j] = myArray[j]
        /\ myArray'[i].state = "Used" /\ myArray'[i].hash = h /\ myArray'[i].value = v
    BY <1>3 DEF IInv, TypeOK, InsertNew, NewEntry
  <1> HIDE DEF i
  <1>5. Content' = [Content EXCEPT ![h] = v]
    BY <1>1, <1>3, <1>4, WrittenContent
  <1>6. Abstract!Size < Capacity
    BY <1>2, RoomIsRoom, AbstractFacts
  <1>7. success' = TRUE
    BY DEF InsertNew
  <1>8. QED
    BY <1>5, <1>6, <1>7 DEF Abstract!Put, Content

\* A full map refuses a hash it does not have.
LEMMA FullPuts ==
    ASSUME IInv, NEW k \in Keys, NEW v \in Values, Full(k), found' = Nothing
    PROVE  ~ Abstract!Present(Hash[k]) /\ Abstract!Put(Hash[k], v)
  <1> DEFINE h == Hash[k]
  <1>1. h \in Nat /\ h \in Hashes
    BY KeyAssumption DEF Hashes
  <1>2. ~ \E i \in Slots : UsedFor(h, i)
    BY DEF Full, Matching, UsedFor
  <1>3. ~ Abstract!Present(h)
    BY <1>1, <1>2, ContentFacts, AbstractFacts
  <1>4. ~ (Abstract!Size < Capacity)
    BY RoomIsRoom, AbstractFacts DEF Full
  <1>5. success' = FALSE /\ Content' = Content
    BY DEF Full, Content, ContentOf, Slots
  <1>6. QED
    BY <1>3, <1>4, <1>5 DEF Abstract!Put, Content

LEMMA CreateIsAbstract ==
    ASSUME IInv, IInv', NEW k \in Keys, Create(k)
    PROVE  Abstract!Create
  <1> DEFINE h == Hash[k]
             i == First(h, Matching(h))
  <1>1. h \in Nat /\ h \in Hashes
    BY KeyAssumption DEF Hashes
  <1>2. found' = Nothing /\ request' = <<"Create", h>>
    BY DEF Create
  <1>3. CASE CreateMatching(k)
    <2>1. Matching(h) \subseteq Slots /\ Matching(h) # {}
      BY <1>3 DEF CreateMatching, Matching
    <2>2. i \in Slots /\ myArray[i].value \in Values
      BY <1>1, <2>1, FirstIsFirst, ArrayType DEF IInv
    <2>3. Abstract!Put(h, myArray[i].value)
      BY <1>2, <1>3, <2>2, InsertMatchingPuts DEF CreateMatching
    <2>4. ASSUME Abstract!Present(h) PROVE myArray[i].value = Content[h]
      <3>1. PICK j \in Slots : UsedFor(h, j)
        BY <1>1, <2>4, ContentFacts, AbstractFacts
      <3>2. j \in Matching(h)
        BY <3>1 DEF UsedFor, Matching
      <3>3. i = j
        BY <1>1, <2>1, <3>1, <3>2, UsedIsFirst DEF UsedFor, Matching
      <3>4. QED
        BY <1>1, <3>1, <3>3, ContentFacts DEF Content
    <2> HIDE DEF i
    <2>5. QED
      BY <1>1, <1>2, <2>2, <2>3, <2>4 DEF Abstract!Create
  <1>4. CASE \E v \in Values : InsertNew(k, v)
    <2>1. PICK v \in Values : InsertNew(k, v)
      BY <1>4
    <2>2. Abstract!Put(h, v)
      BY <1>2, <2>1, InsertNewPuts
    <2>3. ~ \E j \in Slots : UsedFor(h, j)
      BY <2>1 DEF InsertNew, Matching, UsedFor
    <2>4. ~ Abstract!Present(h)
      BY <1>1, <2>3, ContentFacts, AbstractFacts
    <2>5. QED
      BY <1>1, <1>2, <2>1, <2>2, <2>4 DEF Abstract!Create
  <1>5. CASE Full(k)
    <2>1. PICK v \in Values : TRUE
      BY ValueAssumption
    <2>2. QED
      BY <1>1, <1>2, <1>5, FullPuts DEF Abstract!Create
  <1>6. QED
    BY <1>3, <1>4, <1>5 DEF Create

LEMMA DropIsAbstract ==
    ASSUME IInv, IInv', NEW k \in Keys, Remove(k) \/ Delete(k)
    PROVE  Abstract!Remove
  <1> DEFINE h == Hash[k]
             i == First(h, Stops(h))
  <1>1. h \in Nat /\ h \in Hashes
    BY KeyAssumption DEF Hashes
  <1>2. request' = <<"Remove", h>> /\ success' = IsFound(h) /\ found' = Nothing
    BY DEF Remove, Delete, Drop
  <1>3. \A j \in Slots :
            IF myArray[j].state = "Used" /\ myArray[j].hash \in {h}
              THEN myArray'[j].state # "Used"
              ELSE myArray'[j] = myArray[j]
    <2>1. CASE IsFound(h)
      <3>1. /\ i \in Slots /\ UsedFor(h, i)
            /\ \A j \in Slots : UsedFor(h, j) => j = i
        BY <1>1, <2>1, FindsUsed DEF UsedFor
      <3>2. \/ myArray' = [myArray EXCEPT ![i] = RemovedEntry(myArray[i])]
            \/ myArray' = [myArray EXCEPT ![i] = DeletedEntry(myArray[i])]
        BY <2>1 DEF Remove, Delete, Drop
      <3>3. /\ RemovedEntry(myArray[i]).state = "Removed"
            /\ DeletedEntry(myArray[i]).state = "Removed"
        BY <3>1, ArrayType DEF IInv, RemovedEntry, DeletedEntry, Entries
      <3>4. /\ myArray'[i].state = "Removed"
            /\ \A j \in Slots : j # i => myArray'[j] = myArray[j]
        BY <3>1, <3>2, <3>3 DEF IInv, TypeOK
      <3> HIDE DEF i
      <3>5. QED
        BY <3>1, <3>4 DEF UsedFor
    <2>2. CASE ~ IsFound(h)
      <3>1. \A j \in Slots : ~ UsedFor(h, j)
        BY <1>1, <2>2, FindsUsed DEF UsedFor
      <3>2. myArray' = myArray
        BY <2>2 DEF Remove, Delete, Drop
      <3>3. QED
        BY <3>1, <3>2 DEF UsedFor
    <2>3. QED
      BY <2>1, <2>2
  <1>4. Content' = [g \in Hashes |-> IF g \in {h} THEN Nothing ELSE ContentOf(g)]
    BY <1>3, DroppedContent
  <1>5. Content' = [Content EXCEPT ![h] = Nothing]
    BY <1>1, <1>4 DEF Content
  <1>6. success' = (ContentOf(h) # Nothing)
    BY <1>1, <1>2, FindsContent DEF IsFound
  <1>7. QED
    BY <1>1, <1>2, <1>5, <1>6 DEF Abstract!Remove, Abstract!Present, Content

LEMMA DropAllIsAbstract ==
    ASSUME IInv, IInv', RemoveAll \/ DeleteAll
    PROVE  Abstract!RemoveAll
  <1>1. ASSUME NEW j \in Slots
        PROVE  IF myArray[j].state = "Used" /\ myArray[j].hash \in Hashes
                 THEN myArray'[j].state # "Used"
                 ELSE myArray'[j] = myArray[j]
    <2>1. CASE myArray[j].state = "Used"
      <3>1. myArray[j].hash \in Hashes
        BY <2>1 DEF IInv, EntriesAgree
      <3>2. myArray'[j] \in {RemovedEntry(myArray[j]), DeletedEntry(myArray[j])}
        BY <2>1 DEF RemoveAll, DeleteAll, DropAll
      <3>3. myArray'[j].state = "Removed"
        BY <3>2, ArrayType DEF IInv, RemovedEntry, DeletedEntry, Entries
      <3>4. QED
        BY <2>1, <3>1, <3>3
    <2>2. CASE myArray[j].state # "Used"
      BY <2>2 DEF RemoveAll, DeleteAll, DropAll
    <2>3. QED
      BY <2>1, <2>2
  <1>2. Content' = [g \in Hashes |-> IF g \in Hashes THEN Nothing ELSE ContentOf(g)]
    BY <1>1, DroppedContent
  <1>3. Content' = [g \in Hashes |-> Nothing]
    BY <1>2
  <1>4. QED
    BY <1>3 DEF Abstract!RemoveAll, Content, RemoveAll, DeleteAll, DropAll

LEMMA GetIsAbstract ==
    ASSUME IInv, NEW k \in Keys, Get(k)
    PROVE  Abstract!Get
  <1> DEFINE h == Hash[k]
  <1>1. h \in Nat /\ h \in Hashes
    BY KeyAssumption DEF Hashes
  <1>2. found' = ContentOf(h)
    <2>1. CASE IsFound(h)
      BY <1>1, <2>1, FindsContent DEF Get
    <2>2. CASE ~ IsFound(h)
      BY <1>1, <2>2, FindsContent DEF Get
    <2>3. QED
      BY <2>1, <2>2
  <1>3. success' = (ContentOf(h) # Nothing)
    BY <1>1, FindsContent DEF Get, IsFound
  <1>4. Content' = Content
    BY DEF Get, Content, ContentOf, Slots
  <1>5. request' = <<"Get", h>>
    BY DEF Get
  <1>6. QED
    BY <1>1, <1>2, <1>3, <1>4, <1>5 DEF Abstract!Get, Abstract!Present, Content

LEMMA NextIsAbstract ==
    IInv /\ IInv' /\ [Next]_vars => [Abstract!Next]_<<Content, request, success, found>>
  <1> SUFFICES ASSUME IInv, IInv', [Next]_vars
               PROVE  [Abstract!Next]_<<Content, request, success, found>>
    OBVIOUS
  <1>1. ASSUME NEW k \in Keys, NEW v \in Values, Insert(k, v) PROVE Abstract!Insert
    <2>1. Hash[k] \in Hashes /\ request' = <<"Insert", Hash[k], v>>
      BY <1>1 DEF Hashes, Insert
    <2>2. Abstract!Put(Hash[k], v)
      BY <1>1, InsertMatchingPuts, InsertNewPuts, FullPuts DEF Insert
    <2>3. QED
      BY <2>1, <2>2 DEF Abstract!Insert
  <1>2. CASE UNCHANGED vars
    BY <1>2 DEF vars, Content, ContentOf, Slots
  <1>3. CASE Next
    BY <1>1, <1>3, CreateIsAbstract, DropIsAbstract, DropAllIsAbstract, GetIsAbstract
    DEF Next, Abstract!Next
  <1>4. QED
    BY <1>2, <1>3

\* Every behaviour of the map is one of a dictionary that holds Capacity
\* values: Insert and Create fail exactly when it is full and has no value
\* for the hash, Remove and Get know what was inserted and not removed since.
THEOREM MapRefinement == Spec => ImplementsDictionary
  <1>1. IInv /\ IInv' /\ [Next]_vars => [Abstract!Next]_<<Content, request, success, found>>
    BY NextIsAbstract
  <1>2. Spec => Abstract!Init /\ [][Abstract!Next]_<<Content, request, success, found>>
    BY <1>1, InitIsAbstract, Invariance, PTL DEF Spec
  <1>3. QED
    BY <1>2 DEF ImplementsDictionary, Abstract!Spec

-----------------------------------------------------------------------------
\* The array can always be searched, for every capacity and hash function.
THEOREM MapIsSearchable == Spec => []HashMapInv
  <1>1. TypeOK /\ ChainsUnbroken /\ HashesDiffer /\ IterationIsComplete
          => HashMapInv
    BY DEF HashMapInv
  <1>2. QED
    BY <1>1, TypeCorrect, ChainsStayUnbroken, HashesStayDifferent, IterationStaysComplete, PTL

-----------------------------------------------------------------------------
(***************************************************************************)
(* The queue                                                               *)
(***************************************************************************)
-----------------------------------------------------------------------------
(* The cells.                                                              *)

\* What the operations use of the invariant.
LEMMA CellFacts ==
    ASSUME QueueInv, myStart >= 0
    PROVE  /\ myStart \in Nat /\ mySize \in Nat /\ myCapacity \in Nat
           /\ myStart + mySize <= myCapacity
           /\ queueArray \in [0 .. myCapacity - 1 -> Objects \cup {NoObject}]
           /\ \A i \in 0 .. mySize - 1 : queueArray[myStart + i] \in Objects
  <1>1. /\ myStart \in Int /\ mySize \in Nat /\ myCapacity \in Nat
        /\ myStart + mySize <= myCapacity
        /\ queueArray \in [0 .. myCapacity - 1 -> Objects \cup {NoObject}]
    BY DEF QueueInv, QueueTypeOK
  <1>2. \A i \in 0 .. mySize - 1 : queueArray[myStart + i] \in Objects
    BY DEF QueueInv, IndexInScope
  <1>3. myStart \in Nat
    BY <1>1
  <1>4. QED
    BY <1>1, <1>2, <1>3

\* The objects in a part of an array, in its order.
InOrder(array, start, size) == [index \in 1 .. size |-> array[start + index - 1]]

LEMMA CellsInOrder ==
    ASSUME NEW array, NEW start \in Int, NEW size \in Nat,
           \A i \in 0 .. size - 1 : array[start + i] \in Objects
    PROVE  /\ InOrder(array, start, size) \in Seq(Objects) /\ Len(InOrder(array, start, size)) = size
           /\ \A i \in 1 .. size : /\ InOrder(array, start, size)[i] = array[start + i - 1]
                                   /\ InOrder(array, start, size)[i] \in Objects
  <1> DEFINE s == [index \in 1 .. size |-> array[start + index - 1]]
  <1>1. ASSUME NEW i \in 1 .. size
        PROVE  array[start + i - 1] \in Objects
    <2>1. i - 1 \in 0 .. size - 1 /\ start + (i - 1) = start + i - 1
      OBVIOUS
    <2>2. QED
      BY <2>1
  <1>2. s \in [1 .. size -> Objects]
    BY <1>1
  <1>3. s \in Seq(Objects) /\ Len(s) = size
    BY <1>2
  <1>4. QED
    BY <1>1, <1>3 DEF InOrder

LEMMA WaitingFacts ==
    ASSUME QueueInv
    PROVE  /\ Waiting \in Seq(Objects) /\ Len(Waiting) = mySize /\ mySize \in Nat
           /\ \A i \in 1 .. mySize : Waiting[i] = queueArray[myStart + i - 1] /\ Waiting[i] \in Objects
  <1>1. /\ mySize \in Nat /\ myStart \in Int
        /\ \A i \in 0 .. mySize - 1 : queueArray[myStart + i] \in Objects
    BY DEF QueueInv, QueueTypeOK, IndexInScope
  <1>2. Waiting = InOrder(queueArray, myStart, mySize)
    BY DEF Waiting, InOrder
  <1>3. QED
    BY <1>1, <1>2, CellsInOrder

\* The same of the next state.
LEMMA WaitingAlso ==
    ASSUME QueueInv'
    PROVE  /\ Waiting' \in Seq(Objects) /\ Len(Waiting') = mySize' /\ mySize' \in Nat
           /\ \A i \in 1 .. mySize' : Waiting'[i] = queueArray'[myStart' + i - 1] /\ Waiting'[i] \in Objects
  <1>1. /\ mySize' \in Nat /\ myStart' \in Int
        /\ \A i \in 0 .. mySize' - 1 : queueArray'[myStart' + i] \in Objects
    BY DEF QueueInv, QueueTypeOK, IndexInScope
  <1>2. Waiting' = InOrder(queueArray', myStart', mySize')
    BY DEF Waiting, InOrder
  <1>3. QED
    BY <1>1, <1>2, CellsInOrder

\* A sequence without its last element, and without the one after index others.
LEMMA SubSeqOfWaiting ==
    ASSUME NEW s \in Seq(Objects), NEW size \in Nat, Len(s) = size
    PROVE  /\ SubSeq(s, 1, size - 1) \in Seq(Objects)
           /\ size > 0 => Len(SubSeq(s, 1, size - 1)) = size - 1
           /\ \A i \in 1 .. size - 1 : SubSeq(s, 1, size - 1)[i] = s[i]
  <1>1. \A i \in 1 .. size - 1 : s[i] \in Objects /\ 1 + i - 1 = i
    BY LenProperties
  <1>2. 1 \in Int /\ size - 1 \in Int /\ (size - 1) - 1 + 1 = size - 1
    OBVIOUS
  <1>3. /\ SubSeq(s, 1, size - 1) \in Seq(Objects)
        /\ Len(SubSeq(s, 1, size - 1)) = IF 1 <= size - 1 THEN size - 1 ELSE 0
        /\ \A i \in 1 .. size - 1 : SubSeq(s, 1, size - 1)[i] = s[1 + i - 1]
    BY <1>1, <1>2, SubSeqProperties
  <1>4. QED
    BY <1>1, <1>3

LEMMA WithoutOne ==
    ASSUME NEW s \in Seq(Objects), NEW size \in Nat, Len(s) = size,
           NEW index \in Nat, index < size
    PROVE  LET t == SubSeq(s, 1, index + 1 - 1) \o SubSeq(s, index + 1 + 1, Len(s))
           IN  /\ t \in Seq(Objects) /\ Len(t) = size - 1
               /\ \A i \in 1 .. size - 1 : t[i] = IF i <= index THEN s[i] ELSE s[i + 1]
  <1> DEFINE before == SubSeq(s, 1, index)
             after == SubSeq(s, index + 2, size)
  <1>1. \A i \in 1 .. size : s[i] \in Objects
    BY LenProperties
  <1>2. /\ before \in Seq(Objects) /\ Len(before) = index
        /\ \A i \in 1 .. index : before[i] = s[i]
    <2>1. 1 \in Int /\ index \in Int /\ \A i \in 1 .. index : s[i] \in Objects
      BY <1>1
    <2>2. /\ before \in Seq(Objects) /\ Len(before) = IF 1 <= index THEN index - 1 + 1 ELSE 0
          /\ \A i \in 1 .. index - 1 + 1 : before[i] = s[1 + i - 1]
      BY <2>1, SubSeqProperties
    <2>3. index - 1 + 1 = index /\ \A i \in 1 .. index : 1 + i - 1 = i
      OBVIOUS
    <2>4. QED
      BY <2>2, <2>3
  <1>3. /\ after \in Seq(Objects) /\ Len(after) = size - index - 1
        /\ \A i \in 1 .. size - index - 1 : after[i] = s[index + 1 + i]
    <2>1. index + 2 \in Int /\ size \in Int /\ \A i \in index + 2 .. size : s[i] \in Objects
      BY <1>1
    <2>2. /\ after \in Seq(Objects)
          /\ Len(after) = IF index + 2 <= size THEN size - (index + 2) + 1 ELSE 0
          /\ \A i \in 1 .. size - (index + 2) + 1 : after[i] = s[index + 2 + i - 1]
      BY <2>1, SubSeqProperties
    <2>3. /\ size - (index + 2) + 1 = size - index - 1
          /\ \A i \in 1 .. size - index - 1 : index + 2 + i - 1 = index + 1 + i
          /\ ~(index + 2 <= size) => size - index - 1 = 0
      OBVIOUS
    <2>4. QED
      BY <2>2, <2>3
  <1> HIDE DEF before, after
  <1>4. /\ before \o after \in Seq(Objects)
        /\ Len(before \o after) = index + (size - index - 1)
        /\ \A i \in 1 .. index + (size - index - 1) :
              (before \o after)[i] = IF i <= index THEN before[i] ELSE after[i - index]
    <2>1. /\ before \o after \in Seq(Objects)
          /\ Len(before \o after) = Len(before) + Len(after)
          /\ \A i \in 1 .. Len(before) + Len(after) :
                (before \o after)[i] = IF i <= Len(before) THEN before[i] ELSE after[i - Len(before)]
      BY <1>2, <1>3, ConcatProperties
    <2>2. QED
      BY <1>2, <1>3, <2>1
  <1>5. index + (size - index - 1) = size - 1
    OBVIOUS
  <1>6. ASSUME NEW i \in 1 .. size - 1
        PROVE  (before \o after)[i] = IF i <= index THEN s[i] ELSE s[i + 1]
    <2>1. CASE i <= index
      BY <1>2, <1>4, <1>5, <2>1
    <2>2. CASE i > index
      <3>1. i - index \in 1 .. size - index - 1 /\ index + 1 + (i - index) = i + 1 /\ ~(i <= index)
        BY <2>2
      <3>2. QED
        BY <1>3, <1>4, <1>5, <3>1
    <2>3. i <= index \/ i > index
      OBVIOUS
    <2>4. QED
      BY <2>1, <2>2, <2>3
  <1>7. SubSeq(s, 1, index + 1 - 1) \o SubSeq(s, index + 1 + 1, Len(s)) = before \o after
    <2>1. index + 1 - 1 = index /\ index + 1 + 1 = index + 2
      OBVIOUS
    <2>2. QED
      BY <2>1 DEF before, after
  <1>8. QED
    BY <1>4, <1>5, <1>6, <1>7

\* A full array is copied whole into a greater one, to its end.
LEMMA ReserveKeeps ==
    ASSUME QueueInv, myStart = 0, NEW capacity \in Nat, mySize < capacity
    PROVE  LET q == Reserve(Queue, capacity)
           IN  /\ q.start = capacity - mySize /\ q.size = mySize /\ q.capacity = capacity
               /\ q.array \in [0 .. capacity - 1 -> Objects \cup {NoObject}]
               /\ \A i \in 0 .. mySize - 1 : q.array[q.start + i] = queueArray[i]
  <1> DEFINE q == Reserve(Queue, capacity)
             moved == capacity - mySize
             cells == [i \in 0 .. capacity - 1 |->
                         IF i - moved \in 0 .. mySize - 1 THEN queueArray[i - moved] ELSE NoObject]
  <1>1. mySize \in Nat /\ \A i \in 0 .. mySize - 1 : queueArray[i] \in Objects
    BY CellFacts
  <1>2. q = [array |-> cells, start |-> moved, size |-> mySize, capacity |-> capacity]
    <2>1. ~(mySize > capacity - 0) /\ capacity - (0 + mySize) = moved /\ 0 + moved = moved
          /\ 0 + mySize - 1 = mySize - 1
      BY <1>1
    <2>2. QED
      BY <2>1 DEF Reserve, Queue
  <1>3. cells \in [0 .. capacity - 1 -> Objects \cup {NoObject}]
    BY <1>1
  <1>4. ASSUME NEW i \in 0 .. mySize - 1
        PROVE  cells[moved + i] = queueArray[i]
    <2>1. moved + i \in 0 .. capacity - 1 /\ (moved + i) - moved = i
      BY <1>1
    <2>2. QED
      BY <2>1
  <1>5. /\ q.start = moved /\ q.size = mySize /\ q.capacity = capacity /\ q.array = cells
    BY <1>2
  <1> HIDE DEF q, cells
  <1>6. /\ q.start = capacity - mySize /\ q.size = mySize /\ q.capacity = capacity
        /\ q.array \in [0 .. capacity - 1 -> Objects \cup {NoObject}]
        /\ \A i \in 0 .. mySize - 1 : q.array[q.start + i] = queueArray[i]
    BY <1>3, <1>4, <1>5
  <1>7. QED
    BY <1>6 DEF q

\* After Add made room there is a cell before the first object.
LEMMA PreparedKeeps ==
    ASSUME QueueInv, myStart >= 0,
           ~ (mySize < myCapacity /\ myStart = 0 /\ Shifts(Queue))
    PROVE  LET q == Prepared(Queue)
           IN  /\ q.start \in Nat \ {0} /\ q.size = mySize /\ q.capacity \in Nat
               /\ q.start + mySize <= q.capacity
               /\ q.array \in [0 .. q.capacity - 1 -> Objects \cup {NoObject}]
               /\ \A i \in 0 .. mySize - 1 : q.array[q.start + i] = queueArray[myStart + i]
               /\ q = [array |-> q.array, start |-> q.start, size |-> q.size, capacity |-> q.capacity]
  <1>1. /\ myStart \in Nat /\ mySize \in Nat /\ myCapacity \in Nat
        /\ myStart + mySize <= myCapacity
        /\ queueArray \in [0 .. myCapacity - 1 -> Objects \cup {NoObject}]
    BY CellFacts
  <1>2. /\ Queue.start = myStart /\ Queue.size = mySize /\ Queue.capacity = myCapacity
        /\ Queue.array = queueArray
    BY DEF Queue
  <1>3. ASSUME NEW capacity \in Nat, mySize < capacity, myStart = 0,
               Prepared(Queue) = Reserve(Queue, capacity)
        PROVE  LET q == Prepared(Queue)
               IN  /\ q.start \in Nat \ {0} /\ q.size = mySize /\ q.capacity \in Nat
                   /\ q.start + mySize <= q.capacity
                   /\ q.array \in [0 .. q.capacity - 1 -> Objects \cup {NoObject}]
                   /\ \A i \in 0 .. mySize - 1 : q.array[q.start + i] = queueArray[myStart + i]
                   /\ q = [array |-> q.array, start |-> q.start, size |-> q.size, capacity |-> q.capacity]
    <2> DEFINE q == Prepared(Queue)
    <2>1. /\ q.start = capacity - mySize /\ q.size = mySize /\ q.capacity = capacity
          /\ q.array \in [0 .. capacity - 1 -> Objects \cup {NoObject}]
          /\ \A i \in 0 .. mySize - 1 : q.array[q.start + i] = queueArray[i]
      BY <1>3, ReserveKeeps
    <2>2. q.start \in Nat \ {0} /\ q.start + mySize <= q.capacity
      BY <1>1, <1>3, <2>1
    <2>3. \A i \in 0 .. mySize - 1 : myStart + i = i
      BY <1>1, <1>3
    <2>4. q = [array |-> q.array, start |-> q.start, size |-> q.size, capacity |-> q.capacity]
      BY <1>3 DEF Reserve
    <2>5. QED
      BY <1>3, <2>1, <2>2, <2>3, <2>4
  <1>4. CASE mySize >= myCapacity
    <2>1. myStart = 0 /\ mySize = myCapacity
      BY <1>1, <1>4
    <2> DEFINE capacity == IF myCapacity > 0 THEN myCapacity * 2 ELSE 1
    <2>2. capacity \in Nat /\ mySize < capacity
      BY <1>1, <2>1
    <2>3. Prepared(Queue) = Reserve(Queue, capacity)
      BY <1>2, <1>4 DEF Prepared, Grow
    <2>4. QED
      BY <1>3, <2>1, <2>2, <2>3
  <1>5. CASE mySize < myCapacity /\ myStart = 0
    <2>1. ~Shifts(Queue)
      BY <1>5
    <2>2. ~(myCapacity - mySize >= mySize \div 2)
      BY <1>1, <1>2, <1>5, <2>1 DEF Shifts
    <2>3. mySize \div 2 \in Nat
      BY <1>1
    <2> DEFINE capacity == mySize \div 2 + mySize
    <2>4. capacity \in Nat /\ mySize < capacity
      BY <1>1, <1>5, <2>2, <2>3
    <2>5. Prepared(Queue) = Reserve(Queue, capacity)
      BY <1>1, <1>2, <1>5, <2>2, <2>3 DEF Prepared, Optimize
    <2>6. QED
      BY <1>3, <1>5, <2>4, <2>5
  <1>6. CASE mySize < myCapacity /\ myStart # 0
    <2>1. Prepared(Queue) = Queue
      BY <1>1, <1>2, <1>6 DEF Prepared
    <2>2. QED
      BY <1>1, <1>2, <1>6, <2>1 DEF Queue
  <1>7. QED
    BY <1>1, <1>4, <1>5, <1>6

\* The cell before the first object takes the new one.
LEMMA PutRecord ==
    ASSUME NEW o, NEW array, NEW start, NEW size, NEW capacity, NEW q,
           q = [array |-> array, start |-> start, size |-> size, capacity |-> capacity]
    PROVE  /\ Put(q, o).array = [i \in DOMAIN array |-> IF i = start - 1 THEN o ELSE array[i]]
           /\ Put(q, o).start = start - 1 /\ Put(q, o).size = size + 1
           /\ Put(q, o).capacity = capacity
  <1>1. /\ DOMAIN q = {"array", "start", "size", "capacity"}
        /\ q.array = array /\ q.start = start /\ q.size = size /\ q.capacity = capacity
    OBVIOUS
  <1>2. Put(q, o).start = q.start - 1
    BY <1>1 DEF Put
  <1>3. Put(q, o).size = q.size + 1
    BY <1>1 DEF Put
  <1>4. Put(q, o).capacity = q.capacity
    BY <1>1 DEF Put
  <1>5. Put(q, o).array = [i \in DOMAIN q.array |-> IF i = q.start - 1 THEN o ELSE q.array[i]]
    BY <1>1 DEF Put
  <1>6. QED
    BY <1>1, <1>2, <1>3, <1>4, <1>5

WithNew(array, start, o) == [i \in DOMAIN array |-> IF i = start - 1 THEN o ELSE array[i]]

\* There is a cell before the first object.
HasRoom(array, start, size, capacity) ==
    /\ start \in Nat \ {0} /\ size \in Nat /\ capacity \in Nat /\ start + size <= capacity
    /\ array \in [0 .. capacity - 1 -> Objects \cup {NoObject}]
    /\ \A i \in 0 .. size - 1 : array[start + i] \in Objects

LEMMA PutInOrder ==
    ASSUME NEW o \in Objects, NEW array, NEW start, NEW size, NEW capacity,
           HasRoom(array, start, size, capacity)
    PROVE  /\ WithNew(array, start, o) \in [0 .. capacity - 1 -> Objects \cup {NoObject}]
           /\ \A i \in 0 .. size : /\ start - 1 + i \in 0 .. capacity - 1
                                   /\ WithNew(array, start, o)[start - 1 + i] \in Objects
           /\ InOrder(WithNew(array, start, o), start - 1, size + 1) = <<o>> \o InOrder(array, start, size)
  <1> DEFINE new == WithNew(array, start, o)
             s == InOrder(new, start - 1, size + 1)
             t == InOrder(array, start, size)
  <1> start \in Nat \ {0} /\ size \in Nat /\ capacity \in Nat /\ start + size <= capacity
    BY DEF HasRoom
  <1> array \in [0 .. capacity - 1 -> Objects \cup {NoObject}] /\ \A i \in 0 .. size - 1 : array[start + i] \in Objects
    BY DEF HasRoom
  <1>1. DOMAIN array = 0 .. capacity - 1 /\ new \in [0 .. capacity - 1 -> Objects \cup {NoObject}]
    BY DEF WithNew
  <1>2. ASSUME NEW i \in 0 .. size
        PROVE  /\ start - 1 + i \in 0 .. capacity - 1
               /\ new[start - 1 + i] = IF i = 0 THEN o ELSE array[start + (i - 1)]
    <2>1. start - 1 + i \in 0 .. capacity - 1 /\ (start - 1 + i = start - 1 <=> i = 0)
          /\ start - 1 + i = start + (i - 1)
      OBVIOUS
    <2>2. QED
      BY <1>1, <2>1 DEF WithNew
  <1>3. ASSUME NEW i \in 0 .. size
        PROVE  new[start - 1 + i] \in Objects
    <2>1. i # 0 => i - 1 \in 0 .. size - 1
      OBVIOUS
    <2>2. QED
      BY <1>2, <2>1
  <1> HIDE DEF new
  <1>4. /\ s \in Seq(Objects) /\ Len(s) = size + 1
        /\ \A i \in 1 .. size + 1 : s[i] = new[start - 1 + i - 1]
    <2> DEFINE first == start - 1
               more == size + 1
    <2>1. first \in Int /\ more \in Nat /\ more - 1 = size /\ first = start - 1
      OBVIOUS
    <2>2. \A i \in 0 .. size : new[first + i] \in Objects
      BY <1>3
    <2> HIDE DEF first, more
    <2>3. first \in Int /\ more \in Nat
      BY <2>1
    <2>4. \A i \in 0 .. more - 1 : new[first + i] \in Objects
      BY <2>1, <2>2
    <2>5. /\ InOrder(new, first, more) \in Seq(Objects) /\ Len(InOrder(new, first, more)) = more
          /\ \A i \in 1 .. more : InOrder(new, first, more)[i] = new[first + i - 1]
      BY <2>3, <2>4, CellsInOrder, Zenon
    <2>6. QED
      BY <2>5 DEF first, more
  <1>5. /\ t \in Seq(Objects) /\ Len(t) = size
        /\ \A i \in 1 .. size : t[i] = array[start + i - 1]
    <2>1. start \in Int /\ size \in Nat
      OBVIOUS
    <2>2. QED
      BY <2>1, CellsInOrder, Zenon
  <1> HIDE DEF s, t
  <1>6. <<o>> \in Seq(Objects) /\ Len(<<o>>) = 1 /\ <<o>>[1] = o
    OBVIOUS
  <1>7. /\ <<o>> \o t \in Seq(Objects) /\ Len(<<o>> \o t) = 1 + size
        /\ \A i \in 1 .. 1 + size : (<<o>> \o t)[i] = IF i <= 1 THEN <<o>>[i] ELSE t[i - 1]
    BY <1>5, <1>6, ConcatProperties
  <1>8. ASSUME NEW i \in 1 .. size + 1
        PROVE  s[i] = (<<o>> \o t)[i]
    <2>1. i - 1 \in 0 .. size /\ start - 1 + i - 1 = start - 1 + (i - 1) /\ i \in 1 .. 1 + size
      OBVIOUS
    <2>2. s[i] = IF i - 1 = 0 THEN o ELSE array[start + ((i - 1) - 1)]
      BY <1>2, <1>4, <2>1
    <2>3. CASE i = 1
      BY <1>6, <1>7, <2>1, <2>2, <2>3
    <2>4. CASE i # 1
      <3>1. i - 1 \in 1 .. size /\ ~(i <= 1) /\ start + ((i - 1) - 1) = start + (i - 1) - 1 /\ i - 1 # 0
        BY <2>4
      <3>2. QED
        BY <1>5, <1>7, <2>1, <2>2, <3>1
    <2>5. QED
      BY <2>3, <2>4
  <1>9. Len(s) = Len(<<o>> \o t)
    BY <1>4, <1>7
  <1>10. s = <<o>> \o t
    BY <1>4, <1>7, <1>8, <1>9, SeqEqual
  <1>11. QED
    BY <1>1, <1>2, <1>3, <1>10 DEF new, s, t

-----------------------------------------------------------------------------
(* The operations: each keeps the invariant and is an operation of Fifo.   *)

LEMMA AddIsAdd ==
    ASSUME ShiftAvoided, QueueInv, NEW o \in Objects, Add(o)
    PROVE  QueueInv' /\ Commands!Add
  <1>1. myStart >= 0 /\ ~ (mySize < myCapacity /\ myStart = 0 /\ Shifts(Queue))
    BY DEF Add
  <1>2. PICK q : /\ q = Prepared(Queue)
                 /\ q.start \in Nat \ {0} /\ q.size = mySize /\ q.capacity \in Nat
                 /\ q.start + mySize <= q.capacity
                 /\ q.array \in [0 .. q.capacity - 1 -> Objects \cup {NoObject}]
                 /\ \A i \in 0 .. mySize - 1 : q.array[q.start + i] = queueArray[myStart + i]
                 /\ q = [array |-> q.array, start |-> q.start, size |-> q.size, capacity |-> q.capacity]
    BY <1>1, PreparedKeeps
  <1> DEFINE new == WithNew(q.array, q.start, o)
  <1>3. Became(Put(q, o)) /\ queueRequest' = <<"Add", o>> /\ taken' = NoObject
    BY <1>2 DEF Add
  <1>4. myStart' = q.start - 1 /\ mySize' = mySize + 1 /\ myCapacity' = q.capacity /\ queueArray' = new
    BY <1>2, <1>3, PutRecord DEF Became, WithNew
  <1>5. /\ mySize \in Nat /\ myStart \in Nat
        /\ \A i \in 0 .. mySize - 1 : queueArray[myStart + i] \in Objects
    BY <1>1, CellFacts
  <1>6. /\ new \in [0 .. q.capacity - 1 -> Objects \cup {NoObject}]
        /\ \A i \in 0 .. mySize : q.start - 1 + i \in 0 .. q.capacity - 1 /\ new[q.start - 1 + i] \in Objects
        /\ InOrder(new, q.start - 1, mySize + 1) = <<o>> \o InOrder(q.array, q.start, mySize)
    <2>1. \A i \in 0 .. mySize - 1 : q.array[q.start + i] \in Objects
      BY <1>2, <1>5
    <2>2. HasRoom(q.array, q.start, mySize, q.capacity)
      BY <1>2, <1>5, <2>1 DEF HasRoom
    <2>3. QED
      BY <2>2, PutInOrder
  <1> HIDE DEF new
  <1>7. InOrder(q.array, q.start, mySize) = Waiting
    <2>1. ASSUME NEW i \in 1 .. mySize
          PROVE  q.array[q.start + i - 1] = queueArray[myStart + i - 1]
      <3>1. i - 1 \in 0 .. mySize - 1 /\ q.start + i - 1 = q.start + (i - 1)
            /\ myStart + i - 1 = myStart + (i - 1)
        BY <1>2, <1>5
      <3>2. QED
        BY <1>2, <3>1
    <2>2. QED
      BY <2>1 DEF Waiting, InOrder
  <1>8. Waiting' = <<o>> \o Waiting
    <2>1. Waiting' = InOrder(queueArray', myStart', mySize')
      BY DEF Waiting, InOrder
    <2>2. QED
      BY <1>4, <1>6, <1>7, <2>1
  <1>9. QueueTypeOK'
    <2>1. /\ q.start - 1 \in Int /\ mySize + 1 \in Nat /\ q.start - 1 + (mySize + 1) <= q.capacity
      BY <1>2, <1>5
    <2>2. QED
      BY <1>2, <1>3, <1>4, <1>6, <2>1 DEF QueueTypeOK
  <1>10. IndexInScope'
    <2>1. mySize' - 1 = mySize
      BY <1>4, <1>5
    <2>2. \A index \in 0 .. mySize : /\ myStart' + index \in DOMAIN queueArray'
                                     /\ queueArray'[myStart' + index] \in Objects
      BY <1>4, <1>6
    <2>3. QED
      BY <2>1, <2>2 DEF IndexInScope
  <1>11. QED
    BY <1>3, <1>8, <1>9, <1>10 DEF QueueInv, Commands!Add

LEMMA RemoveLastIsTakeLast ==
    ASSUME QueueInv, RemoveLast
    PROVE  QueueInv' /\ Commands!TakeLast
  <1>1. /\ myStart \in Nat /\ mySize \in Nat \ {0} /\ myCapacity \in Nat
        /\ myStart + mySize <= myCapacity
        /\ queueArray \in [0 .. myCapacity - 1 -> Objects \cup {NoObject}]
        /\ \A i \in 0 .. mySize - 1 : queueArray[myStart + i] \in Objects
    BY CellFacts DEF RemoveLast
  <1>2. /\ queueArray' = queueArray /\ mySize' = mySize - 1 /\ myCapacity' = myCapacity
        /\ myStart' = IF mySize - 1 = 0 THEN myCapacity - 1 ELSE myStart
        /\ queueRequest' = <<"TakeLast">> /\ taken' = queueArray[myStart + mySize - 1]
    BY DEF RemoveLast, Became, Restarted, Queue
  <1>3. mySize - 1 \in 0 .. mySize - 1 /\ myStart + mySize - 1 = myStart + (mySize - 1)
    BY <1>1
  <1>4. taken' \in Objects
    BY <1>1, <1>2, <1>3
  <1>5. QueueTypeOK'
    <2>1. /\ mySize - 1 \in Nat /\ myCapacity - 1 \in Int
          /\ myCapacity - 1 + 0 <= myCapacity /\ myStart + (mySize - 1) <= myCapacity
      BY <1>1
    <2>2. myStart' \in Int /\ mySize' \in Nat /\ myStart' + mySize' <= myCapacity'
      BY <1>1, <1>2, <2>1
    <2>3. QED
      BY <1>1, <1>2, <1>4, <2>2 DEF QueueTypeOK
  <1>6. ASSUME NEW i \in 0 .. mySize - 2
        PROVE  /\ myStart' = myStart /\ myStart + i \in 0 .. myCapacity - 1
               /\ queueArray[myStart + i] \in Objects
    <2>1. mySize - 1 # 0 /\ i \in 0 .. mySize - 1 /\ myStart + i \in 0 .. myCapacity - 1
      BY <1>1
    <2>2. QED
      BY <1>1, <1>2, <2>1
  <1>7. IndexInScope'
    <2>1. mySize' - 1 = mySize - 2 /\ DOMAIN queueArray' = 0 .. myCapacity - 1
      BY <1>1, <1>2
    <2>2. \A i \in 0 .. mySize - 2 : myStart' + i \in 0 .. myCapacity - 1 /\ queueArray'[myStart' + i] \in Objects
      BY <1>2, <1>6
    <2>3. QED
      BY <2>1, <2>2 DEF IndexInScope
  <1>8. /\ Waiting \in Seq(Objects) /\ Len(Waiting) = mySize
        /\ \A i \in 1 .. mySize : Waiting[i] = queueArray[myStart + i - 1] /\ Waiting[i] \in Objects
    BY WaitingFacts
  <1>9. Waiting' = SubSeq(Waiting, 1, Len(Waiting) - 1)
    <2>1. /\ Waiting' \in Seq(Objects) /\ Len(Waiting') = mySize - 1
          /\ \A i \in 1 .. mySize - 1 : Waiting'[i] = queueArray[myStart' + i - 1]
      BY <1>2, <1>5, <1>7, WaitingAlso DEF QueueInv
    <2>2. /\ SubSeq(Waiting, 1, mySize - 1) \in Seq(Objects)
          /\ Len(SubSeq(Waiting, 1, mySize - 1)) = mySize - 1
          /\ \A i \in 1 .. mySize - 1 : SubSeq(Waiting, 1, mySize - 1)[i] = Waiting[i]
      BY <1>1, <1>8, SubSeqOfWaiting
    <2>3. ASSUME NEW i \in 1 .. mySize - 1
          PROVE  Waiting'[i] = SubSeq(Waiting, 1, mySize - 1)[i]
      <3>1. i \in 1 .. mySize /\ mySize - 1 # 0
        BY <1>1
      <3>2. QED
        BY <1>2, <1>8, <2>1, <2>2, <3>1
    <2>4. QED
      BY <1>8, <2>1, <2>2, <2>3, SeqEqual
  <1>10. Waiting # <<>> /\ taken' = Waiting[Len(Waiting)]
    <2>1. mySize \in 1 .. mySize /\ mySize # 0
      BY <1>1
    <2>2. QED
      BY <1>2, <1>8, <2>1
  <1>11. QED
    BY <1>2, <1>5, <1>7, <1>9, <1>10 DEF QueueInv, Commands!TakeLast, Commands!Last, Commands!Front

LEMMA RemoveAllIsClear ==
    ASSUME QueueInv, RemoveAllObjects
    PROVE  QueueInv' /\ Commands!Clear
  <1>1. /\ myCapacity \in Nat /\ queueArray \in [0 .. myCapacity - 1 -> Objects \cup {NoObject}]
    BY DEF QueueInv, QueueTypeOK
  <1>2. /\ mySize' = 0 /\ myStart' = myCapacity - 1 /\ UNCHANGED <<queueArray, myCapacity>>
        /\ queueRequest' = <<"Clear">> /\ taken' = NoObject
    BY DEF RemoveAllObjects
  <1>3. QueueTypeOK'
    <2>1. myCapacity - 1 \in Int /\ 0 \in Nat /\ myCapacity - 1 + 0 <= myCapacity
      BY <1>1
    <2>2. QED
      BY <1>1, <1>2, <2>1 DEF QueueTypeOK
  <1>4. IndexInScope'
    BY <1>2 DEF IndexInScope
  <1>5. Waiting' = <<>>
    <2>1. Len(Waiting') = 0 /\ Waiting' \in Seq(Objects)
      BY <1>2, <1>3, <1>4, WaitingAlso DEF QueueInv
    <2>2. QED
      BY <2>1, EmptySeq
  <1>6. QED
    BY <1>2, <1>3, <1>4, <1>5 DEF QueueInv, Commands!Clear

LEMMA RemoveAtIndexIsTakeOne ==
    ASSUME QueueInv, NEW index \in 0 .. mySize - 1, RemoveAtIndex(index)
    PROVE  QueueInv' /\ Commands!TakeOne
  <1>1. /\ myStart \in Nat /\ mySize \in Nat \ {0} /\ myCapacity \in Nat
        /\ myStart + mySize <= myCapacity
        /\ queueArray \in [0 .. myCapacity - 1 -> Objects \cup {NoObject}]
        /\ \A i \in 0 .. mySize - 1 : queueArray[myStart + i] \in Objects
    BY CellFacts DEF RemoveAtIndex
  <1> DEFINE new == [i \in DOMAIN queueArray |->
                       IF i \in myStart + 1 .. myStart + index THEN queueArray[i - 1] ELSE queueArray[i]]
  <1>2. /\ queueArray' = new /\ mySize' = mySize - 1 /\ myStart' = myStart + 1 /\ myCapacity' = myCapacity
        /\ queueRequest' = <<"TakeOne", index>> /\ taken' = queueArray[myStart + index]
    BY DEF RemoveAtIndex
  <1>3. ASSUME NEW i \in 0 .. mySize - 2
        PROVE  /\ myStart + 1 + i \in 0 .. myCapacity - 1
               /\ new[myStart + 1 + i] = IF i < index THEN queueArray[myStart + i]
                                         ELSE queueArray[myStart + (i + 1)]
    <2>1. /\ myStart + 1 + i \in 0 .. myCapacity - 1
          /\ myStart + 1 + i \in myStart + 1 .. myStart + index <=> i < index
          /\ myStart + 1 + i - 1 = myStart + i /\ myStart + 1 + i = myStart + (i + 1)
      BY <1>1
    <2>2. QED
      BY <1>1, <2>1
  <1>4. ASSUME NEW i \in 0 .. mySize - 2
        PROVE  new[myStart + 1 + i] \in Objects
    <2>1. i \in 0 .. mySize - 1 /\ i + 1 \in 0 .. mySize - 1
      BY <1>1
    <2>2. QED
      BY <1>1, <1>3, <2>1
  <1>5. new \in [0 .. myCapacity - 1 -> Objects \cup {NoObject}]
    <2>1. ASSUME NEW i \in 0 .. myCapacity - 1, i \in myStart + 1 .. myStart + index
          PROVE  i - 1 \in 0 .. myCapacity - 1
      BY <1>1, <2>1
    <2>2. QED
      BY <1>1, <2>1
  <1>6. index \in Nat /\ index < mySize /\ taken' \in Objects
    BY <1>1, <1>2
  <1> HIDE DEF new
  <1>7. QueueTypeOK'
    <2>1. myStart + 1 \in Int /\ mySize - 1 \in Nat /\ myStart + 1 + (mySize - 1) <= myCapacity
      BY <1>1
    <2>2. QED
      BY <1>1, <1>2, <1>5, <1>6, <2>1 DEF QueueTypeOK
  <1>8. IndexInScope'
    <2>1. mySize' - 1 = mySize - 2 /\ DOMAIN queueArray' = 0 .. myCapacity - 1
      BY <1>1, <1>2, <1>5
    <2>2. \A i \in 0 .. mySize - 2 : myStart' + i \in 0 .. myCapacity - 1 /\ queueArray'[myStart' + i] \in Objects
      BY <1>2, <1>3, <1>4
    <2>3. QED
      BY <2>1, <2>2 DEF IndexInScope
  <1>9. /\ Waiting \in Seq(Objects) /\ Len(Waiting) = mySize
        /\ \A i \in 1 .. mySize : Waiting[i] = queueArray[myStart + i - 1] /\ Waiting[i] \in Objects
    BY WaitingFacts
  <1>10. /\ Waiting' \in Seq(Objects) /\ Len(Waiting') = mySize - 1
         /\ \A i \in 1 .. mySize - 1 : Waiting'[i] = new[myStart + 1 + i - 1]
    BY <1>2, <1>7, <1>8, WaitingAlso DEF QueueInv
  <1> DEFINE without == SubSeq(Waiting, 1, index + 1 - 1) \o SubSeq(Waiting, index + 1 + 1, Len(Waiting))
  <1>11. /\ without \in Seq(Objects) /\ Len(without) = mySize - 1
         /\ \A i \in 1 .. mySize - 1 : without[i] = IF i <= index THEN Waiting[i] ELSE Waiting[i + 1]
    BY <1>1, <1>6, <1>9, WithoutOne
  <1> HIDE DEF without
  <1>12. ASSUME NEW i \in 1 .. mySize - 1
         PROVE  Waiting'[i] = without[i]
    <2>1. /\ i - 1 \in 0 .. mySize - 2 /\ i \in 1 .. mySize /\ i + 1 \in 1 .. mySize
          /\ myStart + 1 + i - 1 = myStart + 1 + (i - 1) /\ i - 1 < index <=> i <= index
          /\ myStart + (i - 1) = myStart + i - 1 /\ myStart + (i - 1 + 1) = myStart + (i + 1) - 1
      BY <1>1, <1>6
    <2>2. Waiting'[i] = IF i <= index THEN queueArray[myStart + i - 1] ELSE queueArray[myStart + (i + 1) - 1]
      BY <1>3, <1>10, <2>1
    <2>3. QED
      BY <1>9, <1>11, <2>1, <2>2
  <1>13. Waiting' = without
    BY <1>10, <1>11, <1>12, SeqEqual
  <1>14. /\ index + 1 \in 1 .. mySize /\ index + 1 - 1 = index /\ DOMAIN Waiting = 1 .. mySize
         /\ taken' = Waiting[index + 1]
    <2>1. index + 1 \in 1 .. mySize /\ index + 1 - 1 = index /\ myStart + (index + 1) - 1 = myStart + index
      BY <1>1, <1>6
    <2>2. QED
      BY <1>2, <1>9, <2>1
  <1>15. /\ queueRequest' = <<"TakeOne", (index + 1) - 1>>
         /\ Waiting' = Commands!RemoveAt(Waiting, index + 1)
    BY <1>2, <1>13, <1>14 DEF Commands!RemoveAt, without
  <1>16. Commands!TakeOne
    BY <1>14, <1>15 DEF Commands!TakeOne
  <1>17. QED
    BY <1>7, <1>8, <1>16 DEF QueueInv

-----------------------------------------------------------------------------
(* The theorems.                                                           *)

LEMMA InitIsInit == QueueInit => QueueInv /\ Commands!Init
  <1> SUFFICES ASSUME QueueInit
               PROVE  QueueInv /\ Commands!Init
    OBVIOUS
  <1>1. InitCapacity \in Nat
    BY QueueAssumption
  <1>2. /\ queueArray = [i \in 0 .. InitCapacity - 1 |-> NoObject]
        /\ myStart = InitCapacity /\ mySize = 0 /\ myCapacity = InitCapacity
        /\ queueRequest = <<>> /\ taken = NoObject
    BY DEF QueueInit
  <1>3. QueueTypeOK
    BY <1>1, <1>2 DEF QueueTypeOK
  <1>4. IndexInScope
    BY <1>2 DEF IndexInScope
  <1>5. Waiting = <<>>
    <2>1. Len(Waiting) = 0 /\ Waiting \in Seq(Objects)
      BY <1>2, <1>3, <1>4, WaitingFacts DEF QueueInv
    <2>2. QED
      BY <2>1, EmptySeq
  <1>6. QED
    BY <1>2, <1>3, <1>4, <1>5 DEF QueueInv, Commands!Init

LEMMA NextIsNext ==
    ASSUME ShiftAvoided, QueueInv, [QueueNext]_queueVars
    PROVE  QueueInv' /\ [Commands!Next]_<<Waiting, queueRequest, taken>>
  <1>1. ASSUME NEW o \in Objects, Add(o)
        PROVE  QueueInv' /\ Commands!Add
    BY <1>1, AddIsAdd
  <1>2. CASE RemoveLast
    BY <1>2, RemoveLastIsTakeLast DEF Commands!Next
  <1>3. ASSUME NEW index \in 0 .. mySize - 1, RemoveAtIndex(index)
        PROVE  QueueInv' /\ Commands!TakeOne
    BY <1>3, RemoveAtIndexIsTakeOne
  <1>4. CASE RemoveAllObjects
    BY <1>4, RemoveAllIsClear DEF Commands!Next
  <1>5. CASE UNCHANGED queueVars
    <2>1. QueueInv'
      BY <1>5 DEF queueVars, QueueInv, QueueTypeOK, IndexInScope
    <2>2. UNCHANGED <<Waiting, queueRequest, taken>>
      BY <1>5 DEF queueVars, Waiting
    <2>3. QED
      BY <2>1, <2>2
  <1>6. QED
    BY <1>1, <1>2, <1>3, <1>4, <1>5 DEF QueueNext, Commands!Next

\* For any capacity at the start and any number of objects: every index below
\* mySize is in the array and holds an object (GrowingQueue.hpp:281), if nothing
\* is added where Optimize would move the objects.
THEOREM IndicesInScope == ASSUME ShiftAvoided PROVE QueueSpec => []QueueInv
  <1>1. QueueInit => QueueInv
    BY InitIsInit
  <1>2. QueueInv /\ [QueueNext]_queueVars => QueueInv'
    BY NextIsNext
  <1>3. QED
    BY <1>1, <1>2, PTL DEF QueueSpec

\* With the same condition the array with its start is a queue: the oldest object
\* is taken first, and growing, reserving and taking one out of the middle lose
\* and double none (GrowingQueue.hpp:326, :482, :543).
THEOREM QueueRefinement == ASSUME ShiftAvoided PROVE QueueSpec => ImplementsFifo
  <1>1. QueueInit => Commands!Init
    BY InitIsInit
  <1>2. QueueInv /\ [QueueNext]_queueVars => [Commands!Next]_<<Waiting, queueRequest, taken>>
    BY NextIsNext
  <1>3. QED
    BY <1>1, <1>2, IndicesInScope, PTL DEF QueueSpec, ImplementsFifo, Commands!Spec

-----------------------------------------------------------------------------
(***************************************************************************)
(* The post master                                                         *)
(***************************************************************************)

\* Where s is in the list, and where it still is ahead of the loop at k.
Places(list, s) == {n \in 1 .. Len(list) : list[n] = s}
Ahead(list, k, s) == {n \in k .. Len(list) : list[n] = s}

Messages == [id : Nat, type : Types]
Deliveries ==
    [type : Types, delayed : BOOLEAN, message : Nat, index : Nat \ {0}, telling : BOOLEAN,
     valid : BOOLEAN, told : Seq(Subscribers), shrunk : BOOLEAN, allowed : [Subscribers -> Nat]]

PostTypes ==
    /\ mySubscribers \in [Types -> Seq(Subscribers)] /\ myDelayedMessages \in Seq(Messages)
    /\ room \in Nat /\ calls \in Seq(Deliveries) /\ sent \in Nat /\ delivered \in Seq(Nat)

\* A delivery and the list it walks through: whom it told it will not tell
\* again, unless they are in the part of the list that is ahead.
Sofar(c) == IF c.telling THEN c.index ELSE c.index - 1
WalkFits(c, list) ==
    /\ ~c.shrunk => Sofar(c) <= Len(list) /\ c.told = SubSeq(list, 1, Sofar(c))
    /\ \A s \in Subscribers :
           Cardinality(Places(c.told, s)) + Cardinality(Ahead(list, Sofar(c) + 1, s)) <= c.allowed[s]
WalksFit == \A n \in 1 .. Len(calls) : WalkFits(calls[n], mySubscribers[calls[n].type])

\* Only the outermost delivery is one of Dispatch, all but the innermost wait
\* for a callback, and the list outgrew its first room before a reference dangles.
CallsFit ==
    \A n \in 1 .. Len(calls) :
        /\ calls[n].delayed => n = 1 /\ calls[n].message \in 1 .. Len(myDelayedMessages)
        /\ n < Len(calls) => calls[n].telling
        /\ ~calls[n].valid => FirstRoom < Len(myDelayedMessages)
RoomFits == FirstRoom <= room /\ Len(myDelayedMessages) <= room

\* The messages from FirstWaiting on are the ones that were not delivered.
FirstWaiting == IF calls # <<>> /\ calls[1].delayed THEN calls[1].message ELSE 1
OrderFits ==
    /\ Len(delivered) + Len(myDelayedMessages) + 1 - FirstWaiting = sent
    /\ \A n \in 1 .. Len(delivered) : delivered[n] = n
    /\ \A n \in 1 .. Len(myDelayedMessages) :
           /\ myDelayedMessages[n].id \in 1 .. sent
           /\ FirstWaiting <= n => myDelayedMessages[n].id = Len(delivered) + n + 1 - FirstWaiting

\* The inductive invariant.
PostIInv == PostTypes /\ WalksFit /\ CallsFit /\ RoomFits /\ OrderFits

-----------------------------------------------------------------------------
(* Lists.                                                                  *)

LEMMA PrefixFacts ==
    ASSUME NEW S, NEW s \in Seq(S), NEW k \in 0 .. Len(s)
    PROVE  /\ SubSeq(s, 1, k) \in Seq(S) /\ Len(SubSeq(s, 1, k)) = k
           /\ \A n \in 1 .. k : SubSeq(s, 1, k)[n] = s[n]
  <1>1. k \in Nat /\ \A n \in 1 .. k : s[n] \in S
    BY ElementOfSeq, LenProperties
  <1>2. k - 1 + 1 = k /\ \A n \in Nat : 1 + n - 1 = n
    BY <1>1
  <1>3. QED
    BY <1>1, <1>2, SubSeqProperties

LEMMA AppendFacts ==
    ASSUME NEW S, NEW s \in Seq(S), NEW e \in S
    PROVE  /\ Append(s, e) \in Seq(S) /\ Len(Append(s, e)) = Len(s) + 1
           /\ \A n \in 1 .. Len(s) : Append(s, e)[n] = s[n]
           /\ Append(s, e)[Len(s) + 1] = e
  BY AppendProperties

LEMMA ReplaceFacts ==
    ASSUME NEW S, NEW s \in Seq(S), NEW k \in 1 .. Len(s), NEW e \in S
    PROVE  /\ [s EXCEPT ![k] = e] \in Seq(S) /\ Len([s EXCEPT ![k] = e]) = Len(s)
           /\ \A n \in 1 .. Len(s) : [s EXCEPT ![k] = e][n] = IF n = k THEN e ELSE s[n]
  BY ExceptSeq

LEMMA CountsAreNat ==
    ASSUME NEW S, NEW s \in Seq(S), NEW l, NEW k \in Nat \ {0}
    PROVE  /\ IsFiniteSet(Places(s, l)) /\ Cardinality(Places(s, l)) \in Nat
           /\ IsFiniteSet(Ahead(s, k, l)) /\ Cardinality(Ahead(s, k, l)) \in Nat
           /\ Places(s, l) = Ahead(s, 1, l)
  <1>1. Len(s) \in Nat
    BY LenProperties
  <1>2. IsFiniteSet(1 .. Len(s)) /\ IsFiniteSet(k .. Len(s))
    BY <1>1, FS_Interval
  <1>3. Places(s, l) \in SUBSET (1 .. Len(s)) /\ Ahead(s, k, l) \in SUBSET (k .. Len(s))
    BY DEF Places, Ahead
  <1>4. IsFiniteSet(Places(s, l)) /\ IsFiniteSet(Ahead(s, k, l))
    BY <1>2, <1>3, FS_Subset
  <1>5. QED
    BY <1>4, FS_CardinalityType DEF Places, Ahead

LEMMA PlacesNat ==
    ASSUME NEW S, NEW s \in Seq(S), NEW l
    PROVE  Cardinality(Places(s, l)) \in Nat
  <1>1. 1 \in Nat \ {0}
    OBVIOUS
  <1>2. QED
    BY <1>1, CountsAreNat

\* One more was told.
LEMMA PlacesAppend ==
    ASSUME NEW S, NEW s \in Seq(S), NEW e \in S, NEW l
    PROVE  Cardinality(Places(Append(s, e), l)) =
               Cardinality(Places(s, l)) + (IF e = l THEN 1 ELSE 0)
  <1> DEFINE t == Append(s, e)
  <1>1. /\ Len(t) = Len(s) + 1 /\ Len(s) \in Nat /\ t[Len(s) + 1] = e
        /\ \A n \in 1 .. Len(s) : t[n] = s[n]
    BY AppendFacts, LenProperties
  <1> HIDE DEF t
  <1>2. \A n : n \in 1 .. Len(t) <=> n \in 1 .. Len(s) \/ n = Len(s) + 1
    BY <1>1
  <1>3. IsFiniteSet(Places(s, l)) /\ Cardinality(Places(s, l)) \in Nat
    BY CountsAreNat
  <1>4. CASE e = l
    <2>1. Places(t, l) = Places(s, l) \cup {Len(s) + 1}
      BY <1>1, <1>2, <1>4 DEF Places
    <2>2. Len(s) + 1 \notin Places(s, l)
      BY <1>1 DEF Places
    <2>3. Cardinality(Places(t, l)) = Cardinality(Places(s, l)) + 1
      BY <1>3, <2>1, <2>2, FS_AddElement
    <2>4. QED
      BY <1>4, <2>3 DEF t
  <1>5. CASE e # l
    <2>1. Places(t, l) = Places(s, l)
      BY <1>1, <1>2, <1>5 DEF Places
    <2>2. QED
      BY <1>3, <1>5, <2>1 DEF t
  <1>6. QED
    BY <1>4, <1>5

\* One more is in the list.
LEMMA AheadAppend ==
    ASSUME NEW S, NEW s \in Seq(S), NEW e \in S, NEW l, NEW k \in Nat \ {0}
    PROVE  Cardinality(Ahead(Append(s, e), k, l)) <=
               Cardinality(Ahead(s, k, l)) + (IF e = l THEN 1 ELSE 0)
  <1> DEFINE t == Append(s, e)
  <1>1. /\ Len(t) = Len(s) + 1 /\ Len(s) \in Nat /\ t[Len(s) + 1] = e /\ t \in Seq(S)
        /\ \A n \in 1 .. Len(s) : t[n] = s[n]
    BY AppendFacts, LenProperties
  <1> HIDE DEF t
  <1>2. \A n \in k .. Len(t) : (n \in k .. Len(s) /\ t[n] = s[n]) \/ n = Len(s) + 1
    BY <1>1
  <1>3. /\ IsFiniteSet(Ahead(s, k, l)) /\ Cardinality(Ahead(s, k, l)) \in Nat
        /\ IsFiniteSet(Ahead(t, k, l)) /\ Cardinality(Ahead(t, k, l)) \in Nat
    BY <1>1, CountsAreNat
  <1>4. CASE e = l
    <2>1. Ahead(t, k, l) \in SUBSET (Ahead(s, k, l) \cup {Len(s) + 1})
      BY <1>2 DEF Ahead
    <2>2. IsFiniteSet(Ahead(s, k, l) \cup {Len(s) + 1})
      BY <1>3, FS_AddElement
    <2>3. Cardinality(Ahead(t, k, l)) <= Cardinality(Ahead(s, k, l) \cup {Len(s) + 1})
      BY <2>1, <2>2, FS_Subset
    <2>4. Cardinality(Ahead(s, k, l) \cup {Len(s) + 1}) \in
              {Cardinality(Ahead(s, k, l)), Cardinality(Ahead(s, k, l)) + 1}
      BY <1>3, FS_AddElement
    <2>5. QED
      BY <1>3, <1>4, <2>3, <2>4 DEF t
  <1>5. CASE e # l
    <2>1. Ahead(t, k, l) \in SUBSET Ahead(s, k, l)
      BY <1>1, <1>2, <1>5 DEF Ahead
    <2>2. Cardinality(Ahead(t, k, l)) <= Cardinality(Ahead(s, k, l))
      BY <1>3, <2>1, FS_Subset
    <2>3. QED
      BY <1>3, <1>5, <2>2 DEF t
  <1>6. QED
    BY <1>4, <1>5

\* The next one is told.
LEMMA AheadNext ==
    ASSUME NEW S, NEW s \in Seq(S), NEW k \in 1 .. Len(s), NEW l
    PROVE  Cardinality(Ahead(s, k, l)) =
               Cardinality(Ahead(s, k + 1, l)) + (IF s[k] = l THEN 1 ELSE 0)
  <1>1. Len(s) \in Nat /\ k \in Nat \ {0} /\ k + 1 \in Nat \ {0}
    BY LenProperties
  <1>2. \A n : n \in k .. Len(s) <=> n \in k + 1 .. Len(s) \/ n = k
    BY <1>1
  <1>3. IsFiniteSet(Ahead(s, k + 1, l)) /\ Cardinality(Ahead(s, k + 1, l)) \in Nat
    BY <1>1, CountsAreNat
  <1>4. CASE s[k] = l
    <2>1. Ahead(s, k, l) = Ahead(s, k + 1, l) \cup {k}
      BY <1>2, <1>4 DEF Ahead
    <2>2. k \notin Ahead(s, k + 1, l)
      BY <1>1 DEF Ahead
    <2>3. QED
      BY <1>3, <1>4, <2>1, <2>2, FS_AddElement
  <1>5. CASE s[k] # l
    <2>1. Ahead(s, k, l) = Ahead(s, k + 1, l)
      BY <1>2, <1>5 DEF Ahead
    <2>2. QED
      BY <1>3, <1>5, <2>1
  <1>6. QED
    BY <1>4, <1>5

\* The last one takes the place of the one that is taken out.
LEMMA RemovedFacts ==
    ASSUME NEW S, NEW s \in Seq(S), NEW n \in 1 .. Len(s)
    PROVE  /\ RemoveCyclicAtIndex(s, n) \in Seq(S) /\ Len(RemoveCyclicAtIndex(s, n)) = Len(s) - 1
           /\ \A m \in 1 .. Len(s) - 1 :
                  RemoveCyclicAtIndex(s, n)[m] = IF m = n THEN s[Len(s)] ELSE s[m]
  <1> DEFINE u == [s EXCEPT ![n] = s[Len(s)]]
  <1>1. Len(s) \in Nat \ {0} /\ s[Len(s)] \in S
    BY LenProperties, ElementOfSeq
  <1>2. /\ u \in Seq(S) /\ Len(u) = Len(s)
        /\ \A m \in 1 .. Len(s) : u[m] = IF m = n THEN s[Len(s)] ELSE s[m]
    BY <1>1, ReplaceFacts
  <1> HIDE DEF u
  <1>3. Len(s) - 1 \in 0 .. Len(u) /\ \A m \in 1 .. Len(s) - 1 : m \in 1 .. Len(s)
    BY <1>1, <1>2
  <1>4. /\ SubSeq(u, 1, Len(s) - 1) \in Seq(S) /\ Len(SubSeq(u, 1, Len(s) - 1)) = Len(s) - 1
        /\ \A m \in 1 .. Len(s) - 1 : SubSeq(u, 1, Len(s) - 1)[m] = u[m]
    BY <1>2, <1>3, PrefixFacts
  <1>5. QED
    BY <1>2, <1>3, <1>4 DEF RemoveCyclicAtIndex, u

\* Nobody is in the rest of the list more often than before.
LEMMA AheadRemoved ==
    ASSUME NEW S, NEW s \in Seq(S), NEW n \in 1 .. Len(s), NEW k \in Nat \ {0}, NEW l
    PROVE  Cardinality(Ahead(RemoveCyclicAtIndex(s, n), k, l)) <= Cardinality(Ahead(s, k, l))
  <1> DEFINE t == RemoveCyclicAtIndex(s, n)  last == Len(s)
  <1>1. last \in Nat \ {0}
    BY LenProperties
  <1>2. /\ t \in Seq(S) /\ Len(t) = last - 1
        /\ \A m \in 1 .. last - 1 : t[m] = IF m = n THEN s[last] ELSE s[m]
    BY RemovedFacts
  <1> HIDE DEF t, last
  <1>3. \A m \in k .. Len(t) : m \in 1 .. last - 1 /\ m \in k .. last /\ m # last
    BY <1>1, <1>2
  <1>4. \A m \in k .. Len(t) : t[m] = IF m = n THEN s[last] ELSE s[m]
    BY <1>1, <1>2, <1>3
  <1>5. /\ IsFiniteSet(Ahead(s, k, l)) /\ Cardinality(Ahead(s, k, l)) \in Nat
        /\ IsFiniteSet(Ahead(t, k, l)) /\ Cardinality(Ahead(t, k, l)) \in Nat
    BY <1>2, CountsAreNat
  <1>6. CASE n \in Ahead(t, k, l)
    <2>1. s[last] = l /\ last \in k .. last
      BY <1>1, <1>3, <1>4, <1>6 DEF Ahead
    <2>2. last \in Ahead(s, k, l)
      BY <2>1 DEF Ahead, last
    <2>3. Ahead(t, k, l) \ {n} \in SUBSET (Ahead(s, k, l) \ {last})
      BY <1>3, <1>4 DEF Ahead, last
    <2>4. /\ IsFiniteSet(Ahead(s, k, l) \ {last})
          /\ Cardinality(Ahead(s, k, l) \ {last}) = Cardinality(Ahead(s, k, l)) - 1
          /\ Cardinality(Ahead(t, k, l) \ {n}) = Cardinality(Ahead(t, k, l)) - 1
      BY <1>5, <1>6, <2>2, FS_RemoveElement
    <2>5. Cardinality(Ahead(t, k, l) \ {n}) <= Cardinality(Ahead(s, k, l) \ {last})
      BY <2>3, <2>4, FS_Subset
    <2>6. Cardinality(Ahead(t, k, l)) <= Cardinality(Ahead(s, k, l))
      BY <1>5, <2>4, <2>5
    <2>7. QED
      BY <1>2, <2>6 DEF t
  <1>7. CASE n \notin Ahead(t, k, l)
    <2>1. Ahead(t, k, l) \in SUBSET Ahead(s, k, l)
      BY <1>3, <1>4, <1>7 DEF Ahead, last
    <2>2. Cardinality(Ahead(t, k, l)) <= Cardinality(Ahead(s, k, l))
      BY <1>5, <2>1, FS_Subset
    <2>3. QED
      BY <1>2, <2>2 DEF t
  <1>8. QED
    BY <1>6, <1>7


-----------------------------------------------------------------------------
(* Unsubscribe's loop.                                                     *)

\* The rounds up to n.
AreRounds(at, n, list, s) ==
    at = [k \in 0 .. n |-> IF k = 0 THEN [list |-> list, n |-> 1] ELSE Round(at[k - 1], s)]

LEMMA RoundsExist ==
    ASSUME NEW list, NEW s, NEW n \in Nat
    PROVE  \E at : AreRounds(at, n, list, s)
  <1> DEFINE Bad == {m \in Nat : ~\E at : AreRounds(at, m, list, s)}
  <1>1. SUFFICES ASSUME Bad # {} PROVE FALSE
    OBVIOUS
  <1>2. PICK m \in Bad : \A k \in Bad : m <= k
    BY <1>1, SmallestNumber
  <1>3. m # 0
    <2>1. AreRounds([k \in 0 .. 0 |-> [list |-> list, n |-> 1]], 0, list, s)
      BY DEF AreRounds
    <2>2. QED
      BY <2>1
  <1>4. m - 1 \in Nat /\ m - 1 \notin Bad
    BY <1>2, <1>3
  <1>5. PICK f : AreRounds(f, m - 1, list, s)
    BY <1>4
  <1> DEFINE g == [k \in 0 .. m |-> IF k = m THEN Round(f[m - 1], s) ELSE f[k]]
  <1>6. AreRounds(g, m, list, s)
    <2>1. \A k \in 0 .. m - 1 :
              f[k] = IF k = 0 THEN [list |-> list, n |-> 1] ELSE Round(f[k - 1], s)
      BY <1>5 DEF AreRounds
    <2>2. ASSUME NEW k \in 0 .. m
          PROVE  g[k] = IF k = 0 THEN [list |-> list, n |-> 1] ELSE Round(g[k - 1], s)
      <3>1. CASE k = m
        <4>1. k # 0 /\ m - 1 \in 0 .. m /\ m - 1 # m
          BY <1>3, <3>1
        <4>2. g[k - 1] = f[m - 1]
          BY <3>1, <4>1
        <4>3. QED
          BY <3>1, <4>1, <4>2
      <3>2. CASE k # m
        <4>1. k \in 0 .. m - 1 /\ g[k] = f[k]
          BY <3>2
        <4>2. k # 0 => k - 1 \in 0 .. m /\ k - 1 # m
          BY <3>2
        <4>3. k # 0 => g[k - 1] = f[k - 1]
          BY <4>2
        <4>4. QED
          BY <2>1, <4>1, <4>3
      <3>3. QED
        BY <3>1, <3>2
    <2>3. QED
      BY <2>2 DEF AreRounds
  <1>7. QED
    BY <1>2, <1>6

LEMMA RoundsAreRounds ==
    ASSUME NEW list, NEW s, Len(list) \in Nat
    PROVE  AreRounds(Rounds(list, s), Len(list), list, s)
  <1>1. \E at : AreRounds(at, Len(list), list, s)
    BY RoundsExist
  <1>2. Rounds(list, s) = CHOOSE at : AreRounds(at, Len(list), list, s)
    BY DEF Rounds, AreRounds
  <1>3. QED
    BY <1>1, <1>2

\* After k rounds: what is before n is not s, every round went one further or
\* took one out, and nobody is in the rest of the list more often than before.
RoundFits(at, k, list, s) ==
    /\ at.list \in Seq(Subscribers) /\ Len(at.list) <= Len(list)
    /\ at.n \in 1 .. Len(at.list) + 1 /\ k <= at.n - 1 + Len(list) - Len(at.list)
    /\ \A m \in 1 .. at.n - 1 : at.list[m] # s
    /\ \A i \in Nat \ {0} : \A l :
           Cardinality(Ahead(at.list, i, l)) <= Cardinality(Ahead(list, i, l))

LEMMA RoundKeeps ==
    ASSUME NEW list \in Seq(Subscribers), NEW s, NEW k \in 0 .. Len(list) - 1,
           NEW at, RoundFits(at, k, list, s), at = [list |-> at.list, n |-> at.n]
    PROVE  /\ RoundFits(Round(at, s), k + 1, list, s)
           /\ Round(at, s) = [list |-> Round(at, s).list, n |-> Round(at, s).n]
  <1>1. PICK rest \in Seq(Subscribers) : rest = at.list
    BY DEF RoundFits
  <1>2. PICK n \in 1 .. Len(rest) + 1 : n = at.n
    BY <1>1 DEF RoundFits
  <1>3. at = [list |-> rest, n |-> n] /\ Len(rest) \in Nat /\ Len(list) \in Nat
    BY <1>1, <1>2, LenProperties
  <1>4. /\ Len(rest) <= Len(list) /\ k <= n - 1 + Len(list) - Len(rest)
        /\ \A m \in 1 .. n - 1 : rest[m] # s
        /\ \A i \in Nat \ {0} : \A l :
               Cardinality(Ahead(rest, i, l)) <= Cardinality(Ahead(list, i, l))
    BY <1>1, <1>2 DEF RoundFits
  <1>5. CASE n > Len(rest)
    <2>1. Round(at, s) = at
      BY <1>3, <1>5 DEF Round
    <2>2. k + 1 <= n - 1 + Len(list) - Len(rest)
      BY <1>2, <1>3, <1>5
    <2>3. QED
      BY <1>1, <1>2, <1>3, <1>4, <2>1, <2>2 DEF RoundFits
  <1>6. CASE n <= Len(rest) /\ rest[n] = s
    <2>1. n \in 1 .. Len(rest)
      BY <1>2, <1>3, <1>6
    <2>2. PICK shorter : shorter = RemoveCyclicAtIndex(rest, n)
      OBVIOUS
    <2>3. /\ shorter \in Seq(Subscribers) /\ Len(shorter) = Len(rest) - 1
          /\ \A m \in 1 .. Len(rest) - 1 : shorter[m] = IF m = n THEN rest[Len(rest)] ELSE rest[m]
      BY <2>1, <2>2, RemovedFacts
    <2>4. Round(at, s) = [list |-> shorter, n |-> n]
      BY <1>3, <1>6, <2>2 DEF Round
    <2>5. ASSUME NEW m \in 1 .. n - 1 PROVE shorter[m] # s
      <3>1. m \in 1 .. Len(rest) - 1 /\ m # n
        BY <1>2, <1>3, <2>1
      <3>2. QED
        BY <1>4, <2>3, <3>1
    <2>6. ASSUME NEW i \in Nat \ {0}, NEW l
          PROVE  Cardinality(Ahead(shorter, i, l)) <= Cardinality(Ahead(list, i, l))
      <3>1. Cardinality(Ahead(shorter, i, l)) <= Cardinality(Ahead(rest, i, l))
        BY <2>1, <2>2, AheadRemoved
      <3>2. Cardinality(Ahead(rest, i, l)) <= Cardinality(Ahead(list, i, l))
        BY <1>4
      <3>3. /\ Cardinality(Ahead(shorter, i, l)) \in Nat /\ Cardinality(Ahead(rest, i, l)) \in Nat
            /\ Cardinality(Ahead(list, i, l)) \in Nat
        BY <2>3, CountsAreNat
      <3>4. QED
        BY <3>1, <3>2, <3>3
    <2>7. /\ Len(shorter) <= Len(list) /\ n \in 1 .. Len(shorter) + 1
          /\ k + 1 <= n - 1 + Len(list) - Len(shorter)
      BY <1>3, <1>4, <2>1, <2>3
    <2>8. PICK next : next = [list |-> shorter, n |-> n]
      OBVIOUS
    <2>9. next.list = shorter /\ next.n = n
      BY <2>8
    <2>10. RoundFits(next, k + 1, list, s)
      BY <2>3, <2>5, <2>6, <2>7, <2>9 DEF RoundFits
    <2>11. QED
      BY <2>4, <2>8, <2>9, <2>10
  <1>7. CASE n <= Len(rest) /\ rest[n] # s
    <2>1. n \in 1 .. Len(rest)
      BY <1>2, <1>3, <1>7
    <2>2. Round(at, s) = [list |-> rest, n |-> n + 1]
      BY <1>3, <1>7, <2>1 DEF Round
    <2>3. ASSUME NEW m \in 1 .. n + 1 - 1 PROVE rest[m] # s
      <3>1. m = n \/ m \in 1 .. n - 1
        BY <2>1
      <3>2. QED
        BY <1>4, <1>7, <3>1
    <2>4. n + 1 \in 1 .. Len(rest) + 1 /\ k + 1 <= n + 1 - 1 + Len(list) - Len(rest)
      BY <1>3, <1>4, <2>1
    <2>5. PICK next : next = [list |-> rest, n |-> n + 1]
      OBVIOUS
    <2>6. next.list = rest /\ next.n = n + 1
      BY <2>5
    <2>7. RoundFits(next, k + 1, list, s)
      <3>1. \A m \in 1 .. next.n - 1 : next.list[m] # s
        BY <2>3, <2>6
      <3>2. next.n \in 1 .. Len(rest) + 1 /\ k + 1 <= next.n - 1 + Len(list) - Len(rest)
        BY <2>4, <2>6
      <3>3. QED
        BY <1>4, <2>6, <3>1, <3>2 DEF RoundFits
    <2>8. QED
      BY <2>2, <2>5, <2>6, <2>7
  <1>8. n > Len(rest) \/ n <= Len(rest)
    BY <1>2, <1>3
  <1>9. QED
    BY <1>5, <1>6, <1>7, <1>8

LEMMA RoundsFit ==
    ASSUME NEW list \in Seq(Subscribers), NEW s, NEW at, AreRounds(at, Len(list), list, s),
           NEW k \in 0 .. Len(list)
    PROVE  RoundFits(at[k], k, list, s)
  <1> DEFINE Fits(n) == RoundFits(at[n], n, list, s) /\ at[n] = [list |-> at[n].list, n |-> at[n].n]
             Bad == {n \in 0 .. Len(list) : ~Fits(n)}
  <1>1. Len(list) \in Nat
    BY LenProperties
  <1>2. \A n \in 0 .. Len(list) : at[n] = IF n = 0 THEN [list |-> list, n |-> 1] ELSE Round(at[n - 1], s)
    BY DEF AreRounds
  <1>3. Fits(0)
    <2>1. at[0] = [list |-> list, n |-> 1]
      BY <1>1, <1>2
    <2>2. \A i \in Nat \ {0} : \A l : Cardinality(Ahead(list, i, l)) \in Nat
      BY CountsAreNat
    <2>3. QED
      BY <1>1, <2>1, <2>2 DEF RoundFits
  <1>4. SUFFICES ASSUME Bad # {} PROVE FALSE
    OBVIOUS
  <1>5. PICK m \in Bad : \A n \in Bad : m <= n
    <2>1. Bad \subseteq Nat
      BY <1>1
    <2> HIDE DEF Bad
    <2>2. QED
      BY <1>4, <2>1, SmallestNumber
  <1>6. m \in 0 .. Len(list) /\ ~Fits(m) /\ m # 0
    BY <1>3, <1>5
  <1>7. m - 1 \in 0 .. Len(list) - 1 /\ m - 1 \in 0 .. Len(list) /\ ~(m <= m - 1) /\ m - 1 + 1 = m
    BY <1>1, <1>6
  <1>8. Fits(m - 1)
    BY <1>5, <1>7
  <1>9. at[m] = Round(at[m - 1], s)
    BY <1>2, <1>6
  <1>10. PICK before : before = at[m - 1]
    OBVIOUS
  <1>11. RoundFits(before, m - 1, list, s) /\ before = [list |-> before.list, n |-> before.n]
    BY <1>8, <1>10
  <1>12. /\ RoundFits(Round(before, s), m, list, s)
         /\ Round(before, s) = [list |-> Round(before, s).list, n |-> Round(before, s).n]
    BY <1>7, <1>11, RoundKeeps
  <1>13. QED
    BY <1>6, <1>9, <1>10, <1>12

LEMMA WithoutFacts ==
    ASSUME NEW list \in Seq(Subscribers), NEW s
    PROVE  /\ Without(list, s) \in Seq(Subscribers)
           /\ \A m \in 1 .. Len(Without(list, s)) : Without(list, s)[m] # s
           /\ \A i \in Nat \ {0} : \A l :
                  Cardinality(Ahead(Without(list, s), i, l)) <= Cardinality(Ahead(list, i, l))
  <1>1. Len(list) \in Nat
    BY LenProperties
  <1>2. PICK at : at = Rounds(list, s) /\ AreRounds(at, Len(list), list, s)
    BY <1>1, RoundsAreRounds
  <1>3. PICK end : end = at[Len(list)]
    OBVIOUS
  <1>4. Len(list) \in 0 .. Len(list)
    BY <1>1
  <1>5. RoundFits(end, Len(list), list, s)
    BY <1>2, <1>3, <1>4, RoundsFit
  <1>6. PICK rest \in Seq(Subscribers) : rest = end.list
    BY <1>5 DEF RoundFits
  <1>7. Without(list, s) = rest
    BY <1>2, <1>3, <1>6 DEF Without
  <1>8. /\ Len(rest) \in Nat /\ end.n \in 1 .. Len(rest) + 1
        /\ Len(list) <= end.n - 1 + Len(list) - Len(rest)
    BY <1>5, <1>6, LenProperties DEF RoundFits
  <1>9. end.n - 1 = Len(rest)
    BY <1>1, <1>8
  <1>10. \A m \in 1 .. Len(rest) : rest[m] # s
    BY <1>5, <1>6, <1>9 DEF RoundFits
  <1>11. QED
    BY <1>5, <1>6, <1>7, <1>10 DEF RoundFits

\* For every list: Unsubscribe leaves no subscription of the subscriber behind,
\* although a removal moves one that it has not looked at (PostMaster.hpp:83-105).
THEOREM UnsubscribeIsComplete ==
    ASSUME NEW list \in Seq(Subscribers), NEW s
    PROVE  Occurrences(Without(list, s), s) = 0
  <1>1. {n \in 1 .. Len(Without(list, s)) : Without(list, s)[n] = s} = {}
    BY WithoutFacts
  <1>2. QED
    BY <1>1, FS_EmptySet DEF Occurrences

-----------------------------------------------------------------------------
(* A delivery and its list: WalkFits.                                      *)

LEMMA DeliveryFields ==
    ASSUME NEW c \in Deliveries
    PROVE  /\ c.type \in Types /\ c.index \in Nat \ {0} /\ c.telling \in BOOLEAN
           /\ c.told \in Seq(Subscribers) /\ c.shrunk \in BOOLEAN
           /\ c.allowed \in [Subscribers -> Nat] /\ Sofar(c) \in Nat
           /\ c.delayed \in BOOLEAN /\ c.message \in Nat
  BY DEF Deliveries, Sofar

\* The next subscriber is told.
LEMMA TellFits ==
    ASSUME NEW c \in Deliveries, NEW list \in Seq(Subscribers), WalkFits(c, list),
           ~c.telling, c.index <= Len(list), NEW g,
           g = [c EXCEPT !.telling = TRUE, !.told = Append(@, list[c.index])]
    PROVE  g \in Deliveries /\ WalkFits(g, list)
  <1>1. /\ c.index \in 1 .. Len(list) /\ Len(list) \in Nat /\ c.told \in Seq(Subscribers)
        /\ c.allowed \in [Subscribers -> Nat]
    BY DeliveryFields, LenProperties
  <1>2. PICK index \in 1 .. Len(list) : index = c.index
    BY <1>1
  <1>3. PICK l \in Subscribers : l = list[index]
    BY <1>1, ElementOfSeq
  <1>4. PICK told \in Seq(Subscribers) : told = Append(c.told, l)
    BY <1>1, AppendFacts
  <1>5. g = [c EXCEPT !.telling = TRUE, !.told = told]
    BY <1>2, <1>3, <1>4 DEF Deliveries
  <1>6. /\ g.index = index /\ g.told = told /\ g.shrunk = c.shrunk /\ g.telling = TRUE
        /\ g.allowed = c.allowed
    BY <1>2, <1>5 DEF Deliveries
  <1>7. g \in Deliveries
    BY <1>5 DEF Deliveries
  <1>8. Sofar(c) = index - 1 /\ Sofar(g) = index
    BY <1>2, <1>6 DEF Sofar
  <1>9. index - 1 \in 0 .. Len(list) /\ index \in 0 .. Len(list) /\ index - 1 + 1 = index
    BY <1>1
  <1>10. ASSUME ~c.shrunk
         PROVE  told = SubSeq(list, 1, index)
    <2>1. c.told = SubSeq(list, 1, index - 1)
      BY <1>8, <1>10 DEF WalkFits
    <2> DEFINE a == SubSeq(list, 1, index - 1)  b == SubSeq(list, 1, index)
    <2>2. /\ a \in Seq(Subscribers) /\ Len(a) = index - 1
          /\ \A n \in 1 .. index - 1 : a[n] = list[n]
      BY <1>9, PrefixFacts
    <2>3. /\ b \in Seq(Subscribers) /\ Len(b) = index
          /\ \A n \in 1 .. index : b[n] = list[n]
      BY <1>9, PrefixFacts
    <2> HIDE DEF a, b
    <2>4. c.told = a
      BY <2>1 DEF a
    <2>5. /\ Len(told) = index /\ told[index] = l
          /\ \A n \in 1 .. index - 1 : told[n] = a[n]
      BY <1>1, <1>4, <1>9, <2>2, <2>4, AppendFacts
    <2>6. ASSUME NEW n \in 1 .. index PROVE told[n] = b[n]
      <3>1. n = index \/ n \in 1 .. index - 1
        BY <1>1
      <3>2. n \in 1 .. index - 1 => told[n] = list[n]
        BY <2>2, <2>5
      <3>3. n = index => told[n] = list[n]
        BY <1>3, <2>5
      <3>4. QED
        BY <2>3, <3>1, <3>2, <3>3
    <2>7. QED
      BY <2>3, <2>5, <2>6, SeqEqual DEF b
  <1>11. ASSUME NEW s \in Subscribers
         PROVE  Cardinality(Places(told, s)) + Cardinality(Ahead(list, index + 1, s))
                    <= c.allowed[s]
    <2>1. Cardinality(Places(c.told, s)) + Cardinality(Ahead(list, index, s)) <= c.allowed[s]
      BY <1>8, <1>9 DEF WalkFits
    <2>2. Cardinality(Places(told, s)) = Cardinality(Places(c.told, s)) + (IF l = s THEN 1 ELSE 0)
      BY <1>1, <1>4, PlacesAppend
    <2>3. Cardinality(Ahead(list, index, s)) =
              Cardinality(Ahead(list, index + 1, s)) + (IF l = s THEN 1 ELSE 0)
      BY <1>3, AheadNext
    <2>4. /\ Cardinality(Places(c.told, s)) \in Nat /\ index + 1 \in Nat \ {0}
          /\ c.allowed[s] \in Nat
      BY <1>1, PlacesNat
    <2>5. Cardinality(Ahead(list, index + 1, s)) \in Nat
      BY <2>4, CountsAreNat
    <2>6. QED
      BY <2>1, <2>2, <2>3, <2>4, <2>5
  <1>12. index <= Len(list)
    BY <1>1
  <1>13. QED
    BY <1>6, <1>7, <1>8, <1>10, <1>11, <1>12 DEF WalkFits

\* The callback returns.
LEMMA ReturnFits ==
    ASSUME NEW c \in Deliveries, NEW list, WalkFits(c, list), c.telling, NEW g,
           g = [c EXCEPT !.telling = FALSE, !.index = @ + 1]
    PROVE  g \in Deliveries /\ WalkFits(g, list)
  <1>1. PICK index \in Nat \ {0} : index = c.index
    BY DeliveryFields
  <1>2. g = [c EXCEPT !.telling = FALSE, !.index = index + 1] /\ index + 1 \in Nat \ {0}
    BY <1>1 DEF Deliveries
  <1>3. /\ g \in Deliveries /\ g.index = index + 1 /\ g.told = c.told /\ g.shrunk = c.shrunk
        /\ g.allowed = c.allowed /\ g.telling = FALSE
    BY <1>2 DEF Deliveries
  <1>4. Sofar(g) = index /\ Sofar(c) = index
    BY <1>1, <1>3 DEF Sofar
  <1>5. QED
    BY <1>3, <1>4 DEF WalkFits

\* Nothing that the walk depends on changes.
LEMMA SameFits ==
    ASSUME NEW c, NEW list, WalkFits(c, list), NEW g, g.index = c.index, g.told = c.told,
           g.shrunk = c.shrunk, g.allowed = c.allowed, g.telling = c.telling
    PROVE  WalkFits(g, list)
  BY DEF WalkFits, Sofar

\* Somebody subscribes.
LEMMA SubscribeFits ==
    ASSUME NEW c \in Deliveries, NEW list \in Seq(Subscribers), WalkFits(c, list),
           NEW s \in Subscribers, NEW g, g = [c EXCEPT !.allowed[s] = @ + 1]
    PROVE  g \in Deliveries /\ g.type = c.type /\ WalkFits(g, Append(list, s))
  <1>1. /\ Sofar(c) \in Nat /\ Len(list) \in Nat /\ c.told \in Seq(Subscribers)
        /\ c.allowed \in [Subscribers -> Nat] /\ c.allowed[s] \in Nat
    BY DeliveryFields, LenProperties
  <1>2. PICK allowed : allowed = [c.allowed EXCEPT ![s] = @ + 1]
    OBVIOUS
  <1>3. allowed \in [Subscribers -> Nat]
    BY <1>1, <1>2
  <1>4. g = [c EXCEPT !.allowed = allowed]
    BY <1>2 DEF Deliveries
  <1>5. /\ g.index = c.index /\ g.told = c.told /\ g.shrunk = c.shrunk /\ g.telling = c.telling
        /\ g.allowed = allowed /\ g.type = c.type /\ g \in Deliveries
    BY <1>3, <1>4 DEF Deliveries
  <1>6. PICK sofar \in Nat : sofar = Sofar(c) /\ sofar = Sofar(g)
    BY <1>1, <1>5 DEF Sofar
  <1> DEFINE longer == Append(list, s)
  <1>7. /\ longer \in Seq(Subscribers) /\ Len(longer) = Len(list) + 1
        /\ \A n \in 1 .. Len(list) : longer[n] = list[n]
    BY AppendFacts
  <1>8. sofar + 1 \in Nat \ {0}
    OBVIOUS
  <1>9. \A l \in Subscribers :
            Cardinality(Ahead(longer, sofar + 1, l)) <=
                Cardinality(Ahead(list, sofar + 1, l)) + (IF s = l THEN 1 ELSE 0)
    BY <1>8, AheadAppend
  <1> HIDE DEF longer
  <1>10. ASSUME ~c.shrunk
         PROVE  sofar <= Len(longer) /\ c.told = SubSeq(longer, 1, sofar)
    <2>1. c.told = SubSeq(list, 1, sofar) /\ sofar <= Len(list)
      BY <1>6, <1>10 DEF WalkFits
    <2>2. sofar \in 0 .. Len(list) /\ sofar \in 0 .. Len(longer)
      BY <1>1, <1>7, <2>1
    <2> DEFINE a == SubSeq(list, 1, sofar)  b == SubSeq(longer, 1, sofar)
    <2>3. a \in Seq(Subscribers) /\ Len(a) = sofar /\ \A n \in 1 .. sofar : a[n] = list[n]
      BY <2>2, PrefixFacts
    <2>4. b \in Seq(Subscribers) /\ Len(b) = sofar /\ \A n \in 1 .. sofar : b[n] = longer[n]
      BY <1>7, <2>2, PrefixFacts
    <2>5. c.told = a
      BY <2>1
    <2> HIDE DEF a, b
    <2>6. \A n \in 1 .. sofar : n \in 1 .. Len(list)
      BY <2>2
    <2>7. \A n \in 1 .. Len(a) : a[n] = b[n]
      BY <1>7, <2>3, <2>4, <2>6
    <2>8. a = b
      BY <2>3, <2>4, <2>7, SeqEqual
    <2>9. QED
      BY <2>2, <2>5, <2>8 DEF b
  <1>11. ASSUME NEW l \in Subscribers
         PROVE  Cardinality(Places(c.told, l)) + Cardinality(Ahead(longer, sofar + 1, l))
                    <= allowed[l]
    <2>1. Cardinality(Places(c.told, l)) + Cardinality(Ahead(list, sofar + 1, l)) <= c.allowed[l]
      BY <1>6 DEF WalkFits
    <2>2. Cardinality(Ahead(longer, sofar + 1, l)) <=
              Cardinality(Ahead(list, sofar + 1, l)) + (IF s = l THEN 1 ELSE 0)
      BY <1>9
    <2>3. allowed[l] = c.allowed[l] + (IF s = l THEN 1 ELSE 0)
      BY <1>1, <1>2
    <2>4. /\ Cardinality(Places(c.told, l)) \in Nat
          /\ Cardinality(Ahead(list, sofar + 1, l)) \in Nat
          /\ Cardinality(Ahead(longer, sofar + 1, l)) \in Nat
          /\ c.allowed[l] \in Nat
      BY <1>1, <1>7, <1>8, CountsAreNat
    <2>5. QED
      BY <2>1, <2>2, <2>3, <2>4
  <1>12. QED
    BY <1>5, <1>6, <1>10, <1>11 DEF WalkFits, longer

\* Somebody unsubscribes.
LEMMA UnsubscribeFits ==
    ASSUME NEW c \in Deliveries, NEW list \in Seq(Subscribers), WalkFits(c, list),
           NEW s \in Subscribers, NEW rest, rest \in {list, Without(list, s)}, NEW g,
           g = [c EXCEPT !.shrunk = @ \/ rest # list]
    PROVE  g \in Deliveries /\ g.type = c.type /\ WalkFits(g, rest)
  <1>1. /\ Sofar(c) \in Nat /\ c.told \in Seq(Subscribers) /\ c.shrunk \in BOOLEAN
        /\ c.allowed \in [Subscribers -> Nat]
    BY DeliveryFields
  <1>2. PICK shrunk \in BOOLEAN : shrunk = (c.shrunk \/ rest # list)
    BY Zenon
  <1>3. g = [c EXCEPT !.shrunk = shrunk]
    BY <1>2, Zenon
  <1>4. /\ g.index = c.index /\ g.told = c.told /\ g.shrunk = shrunk /\ g.telling = c.telling
        /\ g.allowed = c.allowed /\ g.type = c.type /\ g \in Deliveries
    BY <1>3 DEF Deliveries
  <1>5. PICK sofar \in Nat : sofar = Sofar(c) /\ sofar = Sofar(g)
    BY <1>1, <1>4 DEF Sofar
  <1>6. sofar + 1 \in Nat \ {0}
    OBVIOUS
  <1>7. ASSUME ~shrunk
        PROVE  sofar <= Len(rest) /\ c.told = SubSeq(rest, 1, sofar)
    <2>1. ~c.shrunk /\ rest = list
      BY <1>2, <1>7, Zenon
    <2>2. QED
      BY <1>5, <2>1 DEF WalkFits
  <1>8. ASSUME NEW l \in Subscribers
        PROVE  Cardinality(Places(c.told, l)) + Cardinality(Ahead(rest, sofar + 1, l))
                    <= c.allowed[l]
    <2>1. Cardinality(Places(c.told, l)) + Cardinality(Ahead(list, sofar + 1, l)) <= c.allowed[l]
      BY <1>5 DEF WalkFits
    <2>2. Cardinality(Ahead(list, sofar + 1, l)) \in Nat
      BY <1>6, CountsAreNat
    <2>3. /\ rest \in Seq(Subscribers)
          /\ Cardinality(Ahead(rest, sofar + 1, l)) <= Cardinality(Ahead(list, sofar + 1, l))
      <3>1. CASE rest = list
        BY <2>2, <3>1
      <3>2. CASE rest = Without(list, s)
        BY <1>6, <3>2, WithoutFacts
      <3>3. QED
        BY <3>1, <3>2
    <2>4. /\ Cardinality(Places(c.told, l)) \in Nat
          /\ Cardinality(Ahead(rest, sofar + 1, l)) \in Nat /\ c.allowed[l] \in Nat
      BY <1>1, <1>6, <2>3, CountsAreNat
    <2>5. QED
      BY <2>1, <2>2, <2>3, <2>4
  <1>9. QED
    BY <1>4, <1>5, <1>7, <1>8 DEF WalkFits

\* A delivery begins.
LEMMA NewFits ==
    ASSUME NEW t \in Types, NEW delayed \in BOOLEAN, NEW message \in Nat,
           mySubscribers \in [Types -> Seq(Subscribers)]
    PROVE  /\ Delivery(t, delayed, message) \in Deliveries
           /\ WalkFits(Delivery(t, delayed, message), mySubscribers[t])
  <1>1. PICK list \in Seq(Subscribers) : list = mySubscribers[t]
    OBVIOUS
  <1>2. \A s : Occurrences(list, s) = Cardinality(Places(list, s))
    BY DEF Occurrences, Places
  <1>3. \A s : Occurrences(list, s) \in Nat
    BY <1>2, PlacesNat
  <1>4. PICK allowed \in [Subscribers -> Nat] : allowed = [s \in Subscribers |-> Occurrences(list, s)]
    BY <1>3
  <1>5. PICK c : c = Delivery(t, delayed, message)
    OBVIOUS
  <1>6. c = [type |-> t, delayed |-> delayed, message |-> message, index |-> 1, telling |-> FALSE,
             valid |-> TRUE, told |-> <<>>, shrunk |-> FALSE, allowed |-> allowed]
    BY <1>1, <1>4, <1>5 DEF Delivery
  <1>7. c \in Deliveries
    <2>1. <<>> \in Seq(Subscribers)
      BY EmptySeq
    <2>2. QED
      BY <1>6, <2>1 DEF Deliveries
  <1>8. Sofar(c) = 0 /\ c.told = <<>> /\ c.allowed = allowed
    BY <1>6 DEF Sofar
  <1>9. Len(list) \in Nat /\ <<>> = SubSeq(list, 1, 0)
    BY LenProperties, SubSeqEmpty
  <1>10. ASSUME NEW s \in Subscribers
         PROVE  Cardinality(Places(<<>>, s)) + Cardinality(Ahead(list, 0 + 1, s)) <= allowed[s]
    <2>1. Places(<<>>, s) = {}
      BY EmptySeq DEF Places
    <2>2. Cardinality(Places(<<>>, s)) = 0
      BY <2>1, FS_EmptySet
    <2>3. Ahead(list, 0 + 1, s) = Places(list, s)
      BY DEF Ahead, Places
    <2>4. Cardinality(Places(list, s)) \in Nat
      BY PlacesNat
    <2>5. allowed[s] = Cardinality(Places(list, s))
      BY <1>2, <1>4
    <2>6. QED
      BY <2>2, <2>3, <2>4, <2>5
  <1>11. WalkFits(c, list)
    BY <1>8, <1>9, <1>10 DEF WalkFits
  <1>12. QED
    BY <1>1, <1>5, <1>7, <1>11

-----------------------------------------------------------------------------
(* The actions of the post master.                                         *)

LEMMA MapFacts ==
    ASSUME NEW S, NEW s \in Seq(S), NEW t \in [DOMAIN s -> S]
    PROVE  t \in Seq(S) /\ Len(t) = Len(s)
  <1>1. Len(s) \in Nat /\ DOMAIN s = 1 .. Len(s)
    BY LenProperties
  <1>2. t \in [1 .. Len(s) -> S]
    BY <1>1
  <1>3. t \in Seq(S)
    BY <1>1, <1>2, SeqDef
  <1>4. Len(t) \in Nat /\ DOMAIN t = 1 .. Len(t) /\ DOMAIN t = 1 .. Len(s)
    BY <1>2, <1>3, LenProperties
  <1>5. Len(t) = Len(s)
    BY <1>1, <1>4
  <1>6. QED
    BY <1>3, <1>5

LEMMA PostFacts ==
    ASSUME PostIInv
    PROVE  /\ Len(calls) \in Nat /\ DOMAIN calls = 1 .. Len(calls)
           /\ (calls # <<>> => Len(calls) # 0) /\ (Len(calls) # 0 => calls # <<>>)
           /\ Len(myDelayedMessages) \in Nat /\ Len(delivered) \in Nat /\ FirstWaiting \in Nat
           /\ \A n \in 1 .. Len(calls) :
                  /\ calls[n] \in Deliveries /\ calls[n].type \in Types
                  /\ WalkFits(calls[n], mySubscribers[calls[n].type])
                  /\ mySubscribers[calls[n].type] \in Seq(Subscribers)
  <1>1. /\ Len(calls) \in Nat /\ DOMAIN calls = 1 .. Len(calls)
        /\ Len(myDelayedMessages) \in Nat /\ Len(delivered) \in Nat
    BY LenProperties DEF PostIInv, PostTypes
  <1>2. (calls # <<>> => Len(calls) # 0) /\ (Len(calls) # 0 => calls # <<>>)
    <2>1. calls \in Seq(Deliveries)
      BY DEF PostIInv, PostTypes
    <2>2. QED
      BY <2>1, EmptySeq
  <1>3. \A n \in 1 .. Len(calls) : calls[n] \in Deliveries
    BY ElementOfSeq DEF PostIInv, PostTypes
  <1>4. \A n \in 1 .. Len(calls) :
            calls[n].type \in Types /\ mySubscribers[calls[n].type] \in Seq(Subscribers)
    BY <1>3, DeliveryFields DEF PostIInv, PostTypes
  <1>5. FirstWaiting \in Nat
    <2>1. CASE calls # <<>>
      <3>1. calls[1] \in Deliveries
        BY <1>1, <1>2, <1>3, <2>1
      <3>2. QED
        BY <3>1, DeliveryFields DEF FirstWaiting
    <2>2. CASE calls = <<>>
      BY <2>2 DEF FirstWaiting
    <2>3. QED
      BY <2>1, <2>2
  <1>6. QED
    BY <1>1, <1>2, <1>3, <1>4, <1>5 DEF PostIInv, WalksFit

\* A step that leaves the messages alone, and of the deliveries the message, and
\* whether they are in a callback unless it is the innermost.
LEMMA WalkStep ==
    ASSUME PostIInv, mySubscribers' \in [Types -> Seq(Subscribers)],
           calls' \in Seq(Deliveries), Len(calls') = Len(calls),
           \A n \in 1 .. Len(calls) :
               /\ calls'[n].type = calls[n].type /\ calls'[n].delayed = calls[n].delayed
               /\ calls'[n].message = calls[n].message /\ calls'[n].valid = calls[n].valid
               /\ n < Len(calls) => calls'[n].telling = calls[n].telling
               /\ WalkFits(calls'[n], mySubscribers'[calls[n].type]),
           UNCHANGED <<myDelayedMessages, room, sent, delivered>>
    PROVE  PostIInv'
  <1>1. PostTypes'
    BY DEF PostIInv, PostTypes
  <1>2. WalksFit'
    BY DEF WalksFit
  <1>3. CallsFit' /\ RoomFits'
    BY DEF PostIInv, CallsFit, RoomFits
  <1>4. FirstWaiting' = FirstWaiting
    <2>1. (calls' = <<>>) <=> (calls = <<>>)
      BY PostFacts, EmptySeq
    <2>2. calls # <<>> => 1 \in 1 .. Len(calls)
      BY PostFacts
    <2>3. QED
      BY <2>1, <2>2 DEF FirstWaiting
  <1>5. OrderFits'
    BY <1>4 DEF PostIInv, OrderFits
  <1>6. QED
    BY <1>1, <1>2, <1>3, <1>5 DEF PostIInv

LEMMA SubscribeInvariant ==
    ASSUME PostIInv, NEW t \in Types, NEW s \in Subscribers, Subscribe(t, s)
    PROVE  PostIInv'
  <1>1. mySubscribers \in [Types -> Seq(Subscribers)] /\ mySubscribers[t] \in Seq(Subscribers)
    BY DEF PostIInv, PostTypes
  <1>2. PICK longer : longer = Append(mySubscribers[t], s)
    OBVIOUS
  <1>3. longer \in Seq(Subscribers)
    BY <1>1, <1>2, AppendFacts
  <1>4. mySubscribers' = [mySubscribers EXCEPT ![t] = longer]
    BY <1>2 DEF Subscribe
  <1>5. /\ mySubscribers' \in [Types -> Seq(Subscribers)] /\ mySubscribers'[t] = longer
        /\ \A u \in Types : u # t => mySubscribers'[u] = mySubscribers[u]
    BY <1>1, <1>3, <1>4
  <1>6. ASSUME NEW n \in 1 .. Len(calls)
        PROVE  /\ calls'[n] = IF calls[n].type = t THEN [calls[n] EXCEPT !.allowed[s] = @ + 1]
                                                   ELSE calls[n]
    BY PostFacts DEF Subscribe
  <1>7. ASSUME NEW n \in 1 .. Len(calls)
        PROVE  /\ calls'[n] \in Deliveries
               /\ calls'[n].type = calls[n].type /\ calls'[n].delayed = calls[n].delayed
               /\ calls'[n].message = calls[n].message /\ calls'[n].valid = calls[n].valid
               /\ calls'[n].telling = calls[n].telling
               /\ WalkFits(calls'[n], mySubscribers'[calls[n].type])
    <2>1. PICK c \in Deliveries : c = calls[n]
      BY PostFacts
    <2>2. PICK g : g = calls'[n]
      OBVIOUS
    <2>3. c.type \in Types /\ WalkFits(c, mySubscribers[c.type])
      BY <2>1, PostFacts
    <2>4. CASE c.type = t
      <3>1. g = [c EXCEPT !.allowed[s] = @ + 1]
        BY <1>6, <2>1, <2>2, <2>4
      <3>2. g \in Deliveries /\ WalkFits(g, longer)
        BY <1>1, <1>2, <2>3, <2>4, <3>1, SubscribeFits
      <3>3. /\ g.type = c.type /\ g.delayed = c.delayed /\ g.message = c.message
            /\ g.valid = c.valid /\ g.telling = c.telling
        BY <3>1 DEF Deliveries
      <3>4. QED
        BY <1>5, <2>1, <2>2, <2>4, <3>2, <3>3
    <2>5. CASE c.type # t
      <3>1. g = c
        BY <1>6, <2>1, <2>2, <2>5
      <3>2. WalkFits(g, mySubscribers'[c.type])
        BY <1>5, <2>3, <2>5, <3>1
      <3>3. QED
        BY <2>1, <2>2, <3>1, <3>2
    <2>6. QED
      BY <2>4, <2>5
  <1>8. calls' \in Seq(Deliveries) /\ Len(calls') = Len(calls)
    <2>1. calls \in Seq(Deliveries) /\ DOMAIN calls = 1 .. Len(calls)
      BY PostFacts DEF PostIInv, PostTypes
    <2>2. calls' \in [DOMAIN calls -> Deliveries]
      BY <1>7, <2>1 DEF Subscribe
    <2>3. PICK next : next = calls'
      OBVIOUS
    <2>4. QED
      BY <2>1, <2>2, <2>3, MapFacts
  <1>9. UNCHANGED <<myDelayedMessages, room, sent, delivered>>
    BY DEF Subscribe
  <1>10. QED
    BY <1>5, <1>7, <1>8, <1>9, WalkStep

LEMMA UnsubscribeInvariant ==
    ASSUME PostIInv, NEW types \in SUBSET Types, NEW s \in Subscribers, Unsubscribe(types, s)
    PROVE  PostIInv'
  <1>1. mySubscribers \in [Types -> Seq(Subscribers)]
    BY DEF PostIInv, PostTypes
  <1>2. \A t \in Types : /\ mySubscribers'[t] \in {mySubscribers[t], Without(mySubscribers[t], s)}
                         /\ mySubscribers'[t] \in Seq(Subscribers)
    BY <1>1, WithoutFacts DEF Unsubscribe
  <1>3. mySubscribers' \in [Types -> Seq(Subscribers)]
    BY <1>2 DEF Unsubscribe
  <1>4. ASSUME NEW n \in 1 .. Len(calls)
        PROVE  /\ calls'[n] \in Deliveries
               /\ calls'[n].type = calls[n].type /\ calls'[n].delayed = calls[n].delayed
               /\ calls'[n].message = calls[n].message /\ calls'[n].valid = calls[n].valid
               /\ calls'[n].telling = calls[n].telling
               /\ WalkFits(calls'[n], mySubscribers'[calls[n].type])
    <2>1. PICK c \in Deliveries : c = calls[n]
      BY PostFacts
    <2>2. PICK g : g = calls'[n]
      OBVIOUS
    <2>3. /\ c.type \in Types /\ WalkFits(c, mySubscribers[c.type])
          /\ mySubscribers[c.type] \in Seq(Subscribers)
      BY <2>1, PostFacts
    <2>4. PICK rest : rest = mySubscribers'[c.type]
      OBVIOUS
    <2>5. PICK list \in Seq(Subscribers) : list = mySubscribers[c.type]
      BY <2>3
    <2>6. rest \in {list, Without(list, s)}
      BY <1>2, <2>3, <2>4, <2>5
    <2>7. g = [c EXCEPT !.shrunk = @ \/ rest # list]
      BY <2>1, <2>2, <2>4, <2>5, PostFacts DEF Unsubscribe
    <2>8. g \in Deliveries /\ WalkFits(g, rest)
      <3>1. WalkFits(c, list)
        BY <2>3, <2>5
      <3>2. QED
        BY <2>6, <2>7, <3>1, UnsubscribeFits, Zenon
    <2>9. /\ g.type = c.type /\ g.delayed = c.delayed /\ g.message = c.message
          /\ g.valid = c.valid /\ g.telling = c.telling
      BY <2>7 DEF Deliveries
    <2>10. QED
      BY <2>1, <2>2, <2>4, <2>8, <2>9
  <1>5. calls' \in Seq(Deliveries) /\ Len(calls') = Len(calls)
    <2>1. calls \in Seq(Deliveries) /\ DOMAIN calls = 1 .. Len(calls)
      BY PostFacts DEF PostIInv, PostTypes
    <2>2. calls' \in [DOMAIN calls -> Deliveries]
      BY <1>4, <2>1 DEF Unsubscribe
    <2>3. PICK next : next = calls'
      OBVIOUS
    <2>4. QED
      BY <2>1, <2>2, <2>3, MapFacts
  <1>6. UNCHANGED <<myDelayedMessages, room, sent, delivered>>
    BY DEF Unsubscribe
  <1>7. QED
    BY <1>3, <1>4, <1>5, <1>6, WalkStep

\* The innermost delivery changes, Tell or Return.
LEMMA TopFacts ==
    ASSUME PostIInv, ~Idle
    PROVE  /\ Len(calls) \in 1 .. Len(calls) /\ Top \in Deliveries /\ Top = calls[Len(calls)]
           /\ Top.type \in Types /\ mySubscribers[Top.type] \in Seq(Subscribers)
           /\ WalkFits(Top, mySubscribers[Top.type])
  <1>1. Len(calls) \in 1 .. Len(calls)
    BY PostFacts DEF Idle
  <1>2. QED
    BY <1>1, PostFacts DEF Top

LEMMA TopStep ==
    ASSUME PostIInv, ~Idle, NEW g, calls' = [calls EXCEPT ![Len(calls)] = g],
           UNCHANGED <<mySubscribers, myDelayedMessages, room, sent, delivered>>,
           g \in Deliveries, g.type = Top.type, g.delayed = Top.delayed,
           g.message = Top.message, g.valid = Top.valid, WalkFits(g, mySubscribers[Top.type])
    PROVE  PostIInv'
  <1>1. Len(calls) \in 1 .. Len(calls) /\ Top = calls[Len(calls)]
    BY TopFacts
  <1>2. calls \in Seq(Deliveries) /\ mySubscribers \in [Types -> Seq(Subscribers)]
    BY DEF PostIInv, PostTypes
  <1>3. /\ calls' \in Seq(Deliveries) /\ Len(calls') = Len(calls)
        /\ \A n \in 1 .. Len(calls) : calls'[n] = IF n = Len(calls) THEN g ELSE calls[n]
    BY <1>1, <1>2, ReplaceFacts
  <1>4. \A n \in 1 .. Len(calls) : WalkFits(calls[n], mySubscribers[calls[n].type])
    BY PostFacts
  <1>5. ASSUME NEW n \in 1 .. Len(calls)
        PROVE  /\ calls'[n].type = calls[n].type /\ calls'[n].delayed = calls[n].delayed
               /\ calls'[n].message = calls[n].message /\ calls'[n].valid = calls[n].valid
               /\ n < Len(calls) => calls'[n].telling = calls[n].telling
               /\ WalkFits(calls'[n], mySubscribers'[calls[n].type])
    <2>1. CASE n = Len(calls)
      BY <1>1, <1>3, <2>1
    <2>2. CASE n # Len(calls)
      BY <1>3, <1>4, <2>2
    <2>3. QED
      BY <2>1, <2>2
  <1>6. mySubscribers' \in [Types -> Seq(Subscribers)]
    BY <1>2
  <1>7. QED
    BY <1>3, <1>5, <1>6, WalkStep

LEMMA TellInvariant == PostIInv /\ Tell => PostIInv'
  <1>1. SUFFICES ASSUME PostIInv, Tell PROVE PostIInv'
    OBVIOUS
  <1>2. ~Idle
    BY <1>1 DEF Tell
  <1>3. PICK c \in Deliveries : c = Top
    BY <1>1, <1>2, TopFacts
  <1>4. PICK list \in Seq(Subscribers) : list = mySubscribers[c.type]
    BY <1>1, <1>2, <1>3, TopFacts
  <1>5. WalkFits(c, list) /\ ~c.telling /\ c.index <= Len(list)
    BY <1>1, <1>2, <1>3, <1>4, TopFacts DEF Tell
  <1>6. PICK g : g = [c EXCEPT !.telling = TRUE, !.told = Append(@, list[c.index])]
    OBVIOUS
  <1>7. g \in Deliveries /\ WalkFits(g, list)
    BY <1>5, <1>6, TellFits
  <1>8. g.type = c.type /\ g.delayed = c.delayed /\ g.message = c.message /\ g.valid = c.valid
    BY <1>6 DEF Deliveries
  <1>9. calls' = [calls EXCEPT ![Len(calls)] = g]
    <2>1. calls' = [calls EXCEPT ![Len(calls)] = [Top EXCEPT !.telling = TRUE,
                          !.told = Append(@, mySubscribers[Top.type][Top.index])]]
      BY <1>1, Zenon DEF Tell, Top
    <2>2. QED
      BY <1>3, <1>4, <1>6, <2>1
  <1>10. UNCHANGED <<mySubscribers, myDelayedMessages, room, sent, delivered>>
    BY <1>1 DEF Tell
  <1>11. QED
    BY <1>1, <1>2, <1>3, <1>4, <1>7, <1>8, <1>9, <1>10, TopStep

LEMMA ReturnInvariant == PostIInv /\ Return => PostIInv'
  <1>1. SUFFICES ASSUME PostIInv, Return PROVE PostIInv'
    OBVIOUS
  <1>2. ~Idle
    BY <1>1 DEF Return
  <1>3. PICK c \in Deliveries : c = Top
    BY <1>1, <1>2, TopFacts
  <1>4. PICK list \in Seq(Subscribers) : list = mySubscribers[c.type]
    BY <1>1, <1>2, <1>3, TopFacts
  <1>5. WalkFits(c, list) /\ c.telling
    BY <1>1, <1>2, <1>3, <1>4, TopFacts DEF Return
  <1>6. PICK g : g = [c EXCEPT !.telling = FALSE, !.index = @ + 1]
    OBVIOUS
  <1>7. g \in Deliveries /\ WalkFits(g, list)
    BY <1>5, <1>6, ReturnFits
  <1>8. g.type = c.type /\ g.delayed = c.delayed /\ g.message = c.message /\ g.valid = c.valid
    BY <1>6 DEF Deliveries
  <1>9. calls' = [calls EXCEPT ![Len(calls)] = g]
    <2>1. calls' = [calls EXCEPT ![Len(calls)] = [Top EXCEPT !.telling = FALSE, !.index = @ + 1]]
      BY <1>1, Zenon DEF Return, Top
    <2>2. QED
      BY <1>3, <1>6, <2>1
  <1>10. UNCHANGED <<mySubscribers, myDelayedMessages, room, sent, delivered>>
    BY <1>1 DEF Return
  <1>11. QED
    BY <1>1, <1>2, <1>3, <1>4, <1>7, <1>8, <1>9, <1>10, TopStep

LEMMA SendInstantInvariant ==
    ASSUME PostIInv, NEW t \in Types, SendInstantMessage(t)
    PROVE  PostIInv'
  <1>1. mySubscribers \in [Types -> Seq(Subscribers)] /\ calls \in Seq(Deliveries)
    BY DEF PostIInv, PostTypes
  <1>2. PICK g : g = Delivery(t, FALSE, 0)
    OBVIOUS
  <1>3. g \in Deliveries /\ WalkFits(g, mySubscribers[t])
    BY <1>1, <1>2, NewFits
  <1>4. g.type = t /\ g.delayed = FALSE /\ g.valid = TRUE
    BY <1>2 DEF Delivery
  <1>5. calls' = Append(calls, g)
    BY <1>2 DEF SendInstantMessage
  <1>6. /\ calls' \in Seq(Deliveries) /\ Len(calls') = Len(calls) + 1 /\ Len(calls) \in Nat
        /\ \A n \in 1 .. Len(calls) : calls'[n] = calls[n]
        /\ calls'[Len(calls) + 1] = g
    BY <1>1, <1>3, <1>5, AppendFacts, LenProperties
  <1>7. UNCHANGED <<mySubscribers, myDelayedMessages, room, sent, delivered>>
    BY DEF SendInstantMessage
  <1>8. PostTypes'
    BY <1>6, <1>7 DEF PostIInv, PostTypes
  <1>9. \A n \in 1 .. Len(calls') : n \in 1 .. Len(calls) \/ n = Len(calls) + 1
    BY <1>6
  <1>10. WalksFit'
    BY <1>3, <1>4, <1>6, <1>7, <1>9, PostFacts DEF WalksFit
  <1>11. CallsFit' /\ RoomFits'
    <2>1. calls # <<>> => calls[Len(calls)].telling
      BY DEF SendInstantMessage, InCallback, Idle, Top
    <2>2. ASSUME NEW n \in 1 .. Len(calls')
          PROVE  /\ calls'[n].delayed => n = 1 /\ calls'[n].message \in 1 .. Len(myDelayedMessages')
                 /\ n < Len(calls') => calls'[n].telling
                 /\ ~calls'[n].valid => FirstRoom < Len(myDelayedMessages')
      <3>1. CASE n = Len(calls) + 1
        BY <1>4, <1>6, <3>1
      <3>2. CASE n \in 1 .. Len(calls)
        <4>1. /\ calls[n].delayed => n = 1 /\ calls[n].message \in 1 .. Len(myDelayedMessages)
              /\ n < Len(calls) => calls[n].telling
              /\ ~calls[n].valid => FirstRoom < Len(myDelayedMessages)
          BY <3>2 DEF PostIInv, CallsFit
        <4>2. calls[n].telling
          <5>1. n < Len(calls) \/ n = Len(calls)
            BY <1>6, <3>2
          <5>2. calls # <<>>
            BY <3>2, PostFacts
          <5>3. QED
            BY <2>1, <4>1, <5>1, <5>2
        <4>3. QED
          BY <1>6, <1>7, <3>2, <4>1, <4>2
      <3>3. QED
        BY <1>9, <3>1, <3>2
    <2>3. QED
      BY <1>7, <2>2 DEF PostIInv, CallsFit, RoomFits
  <1>12. FirstWaiting' = FirstWaiting
    <2>1. calls' # <<>>
      BY <1>6, EmptySeq
    <2>2. CASE calls = <<>>
      <3>1. Len(calls) = 0
        BY <2>2, EmptySeq
      <3>2. calls'[1] = g
        BY <1>6, <3>1
      <3>3. QED
        BY <1>4, <2>1, <2>2, <3>2 DEF FirstWaiting
    <2>3. CASE calls # <<>>
      <3>1. 1 \in 1 .. Len(calls)
        BY <2>3, PostFacts
      <3>2. calls'[1] = calls[1]
        BY <1>6, <3>1
      <3>3. QED
        BY <2>1, <2>3, <3>2 DEF FirstWaiting
    <2>4. QED
      BY <2>2, <2>3
  <1>13. OrderFits'
    BY <1>7, <1>12 DEF PostIInv, OrderFits
  <1>14. QED
    BY <1>8, <1>10, <1>11, <1>13 DEF PostIInv

LEMMA SendDelayedInvariant ==
    ASSUME PostIInv, NEW t \in Types, SendDelayedMessage(t)
    PROVE  PostIInv'
  <1>1. /\ myDelayedMessages \in Seq(Messages) /\ calls \in Seq(Deliveries)
        /\ sent \in Nat /\ room \in Nat /\ FirstRoom <= room /\ Len(myDelayedMessages) <= room
        /\ FirstRoom \in Nat \ {0} /\ mySubscribers \in [Types -> Seq(Subscribers)]
        /\ delivered \in Seq(Nat)
    BY LimitsAssumption DEF PostIInv, PostTypes, RoomFits
  <1>2. PICK count \in Nat : count = Len(myDelayedMessages)
    BY <1>1, LenProperties
  <1>3. PICK m : m = [id |-> sent + 1, type |-> t]
    OBVIOUS
  <1>4. m \in Messages /\ m.id = sent + 1 /\ sent' = sent + 1
    BY <1>1, <1>3 DEF Messages, SendDelayedMessage
  <1>5. myDelayedMessages' = Append(myDelayedMessages, m)
    BY <1>3, <1>4 DEF SendDelayedMessage
  <1>6. /\ myDelayedMessages' \in Seq(Messages) /\ Len(myDelayedMessages') = count + 1
        /\ \A n \in 1 .. count : myDelayedMessages'[n] = myDelayedMessages[n]
        /\ myDelayedMessages'[count + 1] = m
    BY <1>1, <1>2, <1>4, <1>5, AppendFacts
  <1>7. room' = (IF count = room THEN 2 * room ELSE room)
    BY <1>2 DEF SendDelayedMessage, Grows
  <1>8. room' \in Nat /\ FirstRoom <= room' /\ count + 1 <= room'
    BY <1>1, <1>2, <1>7
  <1>9. UNCHANGED <<mySubscribers, delivered>>
    BY DEF SendDelayedMessage
  <1>10. ASSUME NEW n \in 1 .. Len(calls)
         PROVE  /\ calls'[n] \in Deliveries
                /\ calls'[n].type = calls[n].type /\ calls'[n].delayed = calls[n].delayed
                /\ calls'[n].message = calls[n].message /\ calls'[n].telling = calls[n].telling
                /\ ~calls'[n].valid => ~calls[n].valid \/ count = room
                /\ WalkFits(calls'[n], mySubscribers'[calls[n].type])
    <2>1. PICK c \in Deliveries : c = calls[n]
      BY PostFacts
    <2>2. PICK g : g = calls'[n]
      OBVIOUS
    <2>3. g = [c EXCEPT !.valid = @ /\ ~(c.delayed /\ Grows)]
      BY <2>1, <2>2, PostFacts DEF SendDelayedMessage
    <2>4. PICK valid : valid = (c.valid /\ ~(c.delayed /\ Grows))
      BY Zenon
    <2>5. valid \in BOOLEAN /\ (~valid => ~c.valid \/ Grows)
      <3>1. c.valid \in BOOLEAN
        BY DEF Deliveries
      <3>2. QED
        BY <2>4, <3>1, Zenon
    <2>6. g = [c EXCEPT !.valid = valid]
      BY <2>3, <2>4, Zenon
    <2>7. /\ g.type = c.type /\ g.delayed = c.delayed /\ g.message = c.message
          /\ g.telling = c.telling /\ g.index = c.index /\ g.told = c.told
          /\ g.shrunk = c.shrunk /\ g.allowed = c.allowed /\ g.valid = valid
      BY <2>6 DEF Deliveries
    <2>8. g \in Deliveries
      BY <2>5, <2>6 DEF Deliveries
    <2>9. Grows => count = room
      BY <1>2 DEF Grows
    <2>10. WalkFits(c, mySubscribers[c.type])
      BY <2>1, PostFacts
    <2>11. WalkFits(g, mySubscribers[c.type])
      BY <2>7, <2>10, SameFits
    <2>12. ~g.valid => ~c.valid \/ count = room
      BY <2>5, <2>7, <2>9, Zenon
    <2>13. QED
      BY <1>9, <2>1, <2>2, <2>7, <2>8, <2>11, <2>12
  <1>11. calls' \in Seq(Deliveries) /\ Len(calls') = Len(calls)
    <2>1. DOMAIN calls = 1 .. Len(calls)
      BY PostFacts
    <2>2. calls' \in [DOMAIN calls -> Deliveries]
      BY <1>10, <2>1 DEF SendDelayedMessage
    <2>3. PICK next : next = calls'
      OBVIOUS
    <2>4. QED
      BY <1>1, <2>2, <2>3, MapFacts
  <1>12. PostTypes'
    BY <1>1, <1>4, <1>6, <1>8, <1>9, <1>11 DEF PostTypes
  <1>13. WalksFit'
    BY <1>10, <1>11 DEF WalksFit
  <1>14. RoomFits'
    BY <1>6, <1>8 DEF RoomFits
  <1>15. CallsFit'
    <2>1. ASSUME NEW n \in 1 .. Len(calls)
          PROVE  /\ calls'[n].delayed => n = 1 /\ calls'[n].message \in 1 .. count + 1
                 /\ n < Len(calls) => calls'[n].telling
                 /\ ~calls'[n].valid => FirstRoom < count + 1
      <3>1. /\ calls[n].delayed => n = 1 /\ calls[n].message \in 1 .. count
            /\ n < Len(calls) => calls[n].telling
            /\ ~calls[n].valid => FirstRoom < count
        BY <1>2 DEF PostIInv, CallsFit
      <3>2. \A k \in 1 .. count : k \in 1 .. count + 1
        BY <1>2
      <3>3. count = room => FirstRoom < count + 1
        BY <1>1, <1>2
      <3>4. FirstRoom < count => FirstRoom < count + 1
        BY <1>1, <1>2
      <3>5. QED
        BY <1>10, <3>1, <3>2, <3>3, <3>4
    <2>2. QED
      BY <1>6, <1>11, <2>1 DEF CallsFit
  <1>16. FirstWaiting' = FirstWaiting
    <2>1. (calls' = <<>>) <=> (calls = <<>>)
      BY <1>1, <1>11, EmptySeq
    <2>2. calls # <<>> => 1 \in 1 .. Len(calls)
      BY PostFacts
    <2>3. QED
      BY <1>10, <2>1, <2>2 DEF FirstWaiting
  <1>17. OrderFits'
    <2>1. PICK first \in Nat : first = FirstWaiting
      BY PostFacts
    <2>2. PICK gone \in Nat : gone = Len(delivered)
      BY PostFacts
    <2>3. gone + count + 1 - first = sent
      BY <1>2, <2>1, <2>2 DEF PostIInv, OrderFits
    <2>4. gone + (count + 1) + 1 - first = sent'
      BY <1>1, <1>4, <2>3
    <2>5. ASSUME NEW n \in 1 .. count + 1
          PROVE  /\ myDelayedMessages'[n].id \in 1 .. sent'
                 /\ first <= n => myDelayedMessages'[n].id = gone + n + 1 - first
      <3>1. CASE n \in 1 .. count
        <4>1. /\ myDelayedMessages[n].id \in 1 .. sent
              /\ first <= n => myDelayedMessages[n].id = gone + n + 1 - first
          BY <1>2, <2>1, <2>2, <3>1 DEF PostIInv, OrderFits
        <4>2. \A k \in 1 .. sent : k \in 1 .. sent'
          BY <1>1, <1>4
        <4>3. QED
          BY <1>6, <3>1, <4>1, <4>2
      <3>2. CASE n = count + 1
        BY <1>1, <1>4, <1>6, <2>3, <3>2
      <3>3. QED
        BY <3>1, <3>2
    <2>6. \A n \in 1 .. Len(delivered) : delivered[n] = n
      BY DEF PostIInv, OrderFits
    <2>7. QED
      BY <1>6, <1>9, <1>16, <2>1, <2>2, <2>4, <2>5, <2>6 DEF OrderFits
  <1>18. QED
    BY <1>12, <1>13, <1>14, <1>15, <1>17 DEF PostIInv

\* A list of one delivery, that of Dispatch.
LEMMA OneDelivery ==
    ASSUME NEW g \in Deliveries
    PROVE  /\ <<g>> \in Seq(Deliveries) /\ Len(<<g>>) = 1 /\ <<g>> # <<>> /\ <<g>>[1] = g
           /\ \A n \in 1 .. 1 : n = 1
  OBVIOUS

LEMMA DispatchInvariant == PostIInv /\ Dispatch => PostIInv'
  <1>1. SUFFICES ASSUME PostIInv, Dispatch PROVE PostIInv'
    OBVIOUS
  <1>2. /\ mySubscribers \in [Types -> Seq(Subscribers)] /\ myDelayedMessages \in Seq(Messages)
        /\ calls = <<>> /\ myDelayedMessages # <<>>
    BY <1>1 DEF PostIInv, PostTypes, Dispatch, Idle
  <1>3. 1 \in 1 .. Len(myDelayedMessages)
    BY <1>2, EmptySeq
  <1>4. PICK t \in Types : t = myDelayedMessages[1].type
    <2>1. PICK m \in Messages : m = myDelayedMessages[1]
      BY <1>2, <1>3, ElementOfSeq
    <2>2. m.type \in Types
      BY DEF Messages
    <2>3. QED
      BY <2>1, <2>2
  <1>5. PICK g : g = Delivery(t, TRUE, 1)
    OBVIOUS
  <1>6. g \in Deliveries /\ WalkFits(g, mySubscribers[t])
    <2>1. 1 \in Nat /\ TRUE \in BOOLEAN
      OBVIOUS
    <2>2. QED
      BY <1>2, <1>5, <2>1, NewFits
  <1>7. g.type = t /\ g.delayed = TRUE /\ g.valid = TRUE /\ g.message = 1
    BY <1>5 DEF Delivery
  <1>8. calls' = <<g>>
    BY <1>1, <1>4, <1>5 DEF Dispatch
  <1>9. /\ calls' \in Seq(Deliveries) /\ Len(calls') = 1 /\ calls' # <<>> /\ calls'[1] = g
        /\ \A n \in 1 .. 1 : n = 1
    BY <1>6, <1>8, OneDelivery
  <1>10. UNCHANGED <<mySubscribers, myDelayedMessages, room, sent, delivered>>
    BY <1>1 DEF Dispatch
  <1>11. PostTypes'
    BY <1>1, <1>9, <1>10 DEF PostIInv, PostTypes
  <1>12. WalksFit'
    BY <1>6, <1>7, <1>9, <1>10 DEF WalksFit
  <1>13. CallsFit' /\ RoomFits'
    BY <1>1, <1>3, <1>7, <1>9, <1>10 DEF PostIInv, CallsFit, RoomFits
  <1>14. FirstWaiting' = FirstWaiting
    BY <1>2, <1>7, <1>9 DEF FirstWaiting
  <1>15. OrderFits'
    BY <1>1, <1>10, <1>14 DEF PostIInv, OrderFits
  <1>16. QED
    BY <1>11, <1>12, <1>13, <1>15 DEF PostIInv

LEMMA EndInstantInvariant == PostIInv /\ EndInstant => PostIInv'
  <1>1. SUFFICES ASSUME PostIInv, EndInstant PROVE PostIInv'
    OBVIOUS
  <1>2. calls \in Seq(Deliveries) /\ calls # <<>> /\ ~calls[Len(calls)].delayed
    BY <1>1 DEF PostIInv, PostTypes, EndInstant, AllTold, Idle, Top
  <1>3. PICK depth \in Nat \ {0} : depth = Len(calls)
    BY <1>2, EmptySeq
  <1>4. depth - 1 \in 0 .. Len(calls) /\ \A n \in 1 .. depth - 1 : n \in 1 .. Len(calls)
    BY <1>3
  <1>5. /\ calls' \in Seq(Deliveries) /\ Len(calls') = depth - 1
        /\ \A n \in 1 .. depth - 1 : calls'[n] = calls[n]
    <2>1. calls' = SubSeq(calls, 1, depth - 1)
      BY <1>1, <1>3 DEF EndInstant
    <2>2. QED
      BY <1>2, <1>4, <2>1, PrefixFacts
  <1>6. UNCHANGED <<mySubscribers, myDelayedMessages, room, sent, delivered>>
    BY <1>1 DEF EndInstant
  <1>7. PostTypes'
    BY <1>1, <1>5, <1>6 DEF PostIInv, PostTypes
  <1>8. WalksFit'
    BY <1>1, <1>4, <1>5, <1>6 DEF PostIInv, WalksFit
  <1>9. CallsFit' /\ RoomFits'
    <2>1. \A n \in 1 .. depth - 1 : n < depth - 1 => n < Len(calls)
      BY <1>3
    <2>2. QED
      BY <1>1, <1>4, <1>5, <1>6, <2>1 DEF PostIInv, CallsFit, RoomFits
  <1>10. FirstWaiting' = FirstWaiting
    <2>1. CASE depth = 1
      <3>1. calls' = <<>>
        BY <1>5, <2>1, EmptySeq
      <3>2. QED
        BY <1>2, <1>3, <2>1, <3>1 DEF FirstWaiting
    <2>2. CASE depth # 1
      <3>1. 1 \in 1 .. depth - 1
        BY <2>2
      <3>2. calls' # <<>> /\ calls'[1] = calls[1]
        BY <1>5, <3>1, EmptySeq
      <3>3. QED
        BY <1>2, <3>2 DEF FirstWaiting
    <2>3. QED
      BY <2>1, <2>2
  <1>11. OrderFits'
    BY <1>1, <1>6, <1>10 DEF PostIInv, OrderFits
  <1>12. QED
    BY <1>7, <1>8, <1>9, <1>11 DEF PostIInv

\* What Dispatch delivers is the next one in order.
LEMMA DeliveredFacts ==
    ASSUME PostIInv, ~Idle, Top.delayed
    PROVE  /\ Len(calls) = 1 /\ Top = calls[1] /\ FirstWaiting = Top.message
           /\ Top.message \in 1 .. Len(myDelayedMessages) /\ Top.message \in Nat
           /\ myDelayedMessages[Top.message].id = Len(delivered) + 1
           /\ Append(delivered, Len(delivered) + 1) \in Seq(Nat)
           /\ Len(Append(delivered, Len(delivered) + 1)) = Len(delivered) + 1
           /\ \A n \in 1 .. Len(delivered) + 1 : Append(delivered, Len(delivered) + 1)[n] = n
  <1>1. Len(calls) \in 1 .. Len(calls) /\ Top = calls[Len(calls)] /\ calls # <<>>
    BY TopFacts DEF Idle
  <1>2. Len(calls) = 1 /\ Top.message \in 1 .. Len(myDelayedMessages)
    BY <1>1 DEF PostIInv, CallsFit
  <1>3. FirstWaiting = Top.message
    BY <1>1, <1>2 DEF FirstWaiting
  <1>4. PICK first \in Nat : first = Top.message
    BY <1>3, PostFacts
  <1>5. PICK gone \in Nat : gone = Len(delivered)
    BY PostFacts
  <1>6. first <= first => myDelayedMessages[first].id = gone + first + 1 - first
    BY <1>2, <1>3, <1>4, <1>5 DEF PostIInv, OrderFits
  <1>7. myDelayedMessages[first].id = gone + 1
    BY <1>6
  <1>8. delivered \in Seq(Nat) /\ gone + 1 \in Nat /\ \A n \in 1 .. gone : delivered[n] = n
    BY <1>5 DEF PostIInv, PostTypes, OrderFits
  <1>9. PICK after : after = Append(delivered, gone + 1)
    OBVIOUS
  <1>10. /\ after \in Seq(Nat) /\ Len(after) = gone + 1
         /\ \A n \in 1 .. gone : after[n] = delivered[n]
         /\ after[gone + 1] = gone + 1
    BY <1>5, <1>8, <1>9, AppendFacts
  <1>11. ASSUME NEW n \in 1 .. gone + 1 PROVE after[n] = n
    <2>1. n \in 1 .. gone \/ n = gone + 1
      OBVIOUS
    <2>2. QED
      BY <1>8, <1>10, <2>1
  <1>12. QED
    BY <1>1, <1>2, <1>3, <1>4, <1>5, <1>7, <1>9, <1>10, <1>11

LEMMA NextMessageInvariant == PostIInv /\ NextMessage => PostIInv'
  <1>1. SUFFICES ASSUME PostIInv, NextMessage PROVE PostIInv'
    OBVIOUS
  <1>2. ~Idle /\ Top.delayed /\ Top.message < Len(myDelayedMessages)
    BY <1>1 DEF NextMessage, AllTold
  <1>3. PICK first \in Nat : first = Top.message /\ first = FirstWaiting /\ first \in 1 .. Len(myDelayedMessages)
    BY <1>1, <1>2, DeliveredFacts
  <1>4. PICK gone \in Nat : gone = Len(delivered)
    BY <1>1, PostFacts
  <1>5. /\ mySubscribers \in [Types -> Seq(Subscribers)] /\ myDelayedMessages \in Seq(Messages)
        /\ Len(myDelayedMessages) \in Nat /\ sent \in Nat
    BY <1>1, PostFacts DEF PostIInv, PostTypes
  <1>6. first + 1 \in 1 .. Len(myDelayedMessages) /\ first + 1 \in Nat
    BY <1>2, <1>3, <1>5
  <1>7. PICK t \in Types : t = myDelayedMessages[first + 1].type
    <2>1. PICK m \in Messages : m = myDelayedMessages[first + 1]
      BY <1>5, <1>6, ElementOfSeq
    <2>2. m.type \in Types
      BY DEF Messages
    <2>3. QED
      BY <2>1, <2>2
  <1>8. PICK g : g = Delivery(t, TRUE, first + 1)
    OBVIOUS
  <1>9. g \in Deliveries /\ WalkFits(g, mySubscribers[t])
    <2>1. TRUE \in BOOLEAN
      OBVIOUS
    <2>2. QED
      BY <1>5, <1>6, <1>8, <2>1, NewFits
  <1>10. g.type = t /\ g.delayed = TRUE /\ g.valid = TRUE /\ g.message = first + 1
    BY <1>8 DEF Delivery
  <1>11. calls' = <<g>>
    BY <1>1, <1>3, <1>7, <1>8 DEF NextMessage
  <1>12. /\ calls' \in Seq(Deliveries) /\ Len(calls') = 1 /\ calls' # <<>> /\ calls'[1] = g
         /\ \A n \in 1 .. 1 : n = 1
    BY <1>9, <1>11, OneDelivery
  <1>13. UNCHANGED <<mySubscribers, myDelayedMessages, room, sent>>
    BY <1>1 DEF NextMessage
  <1>14. delivered' = Append(delivered, gone + 1)
    BY <1>1, <1>2, <1>4, DeliveredFacts DEF NextMessage
  <1>15. /\ delivered' \in Seq(Nat) /\ Len(delivered') = gone + 1
         /\ \A n \in 1 .. gone + 1 : delivered'[n] = n
    BY <1>1, <1>2, <1>4, <1>14, DeliveredFacts
  <1>16. PostTypes'
    BY <1>1, <1>12, <1>13, <1>15 DEF PostIInv, PostTypes
  <1>17. WalksFit'
    BY <1>9, <1>10, <1>12, <1>13 DEF WalksFit
  <1>18. CallsFit' /\ RoomFits'
    BY <1>1, <1>6, <1>10, <1>12, <1>13 DEF PostIInv, CallsFit, RoomFits
  <1>19. FirstWaiting' = first + 1
    BY <1>10, <1>12 DEF FirstWaiting
  <1>20. OrderFits'
    <2>1. PICK count \in Nat : count = Len(myDelayedMessages)
      BY <1>5
    <2>2. /\ gone + count + 1 - first = sent
          /\ \A n \in 1 .. count :
                 /\ myDelayedMessages[n].id \in 1 .. sent
                 /\ first <= n => myDelayedMessages[n].id = gone + n + 1 - first
      BY <1>1, <1>3, <1>4, <2>1 DEF PostIInv, OrderFits
    <2>3. gone + 1 + count + 1 - (first + 1) = sent
      BY <2>2
    <2>4. ASSUME NEW n \in 1 .. count, first + 1 <= n
          PROVE  myDelayedMessages[n].id = gone + 1 + n + 1 - (first + 1)
      <3>1. n \in Nat /\ first <= n
        BY <2>4
      <3>2. myDelayedMessages[n].id = gone + n + 1 - first
        BY <2>2, <3>1
      <3>3. gone + n + 1 - first = gone + 1 + n + 1 - (first + 1)
        BY <3>1
      <3>4. QED
        BY <3>2, <3>3
    <2>5. QED
      BY <1>13, <1>15, <1>19, <2>1, <2>2, <2>3, <2>4 DEF OrderFits
  <1>21. QED
    BY <1>16, <1>17, <1>18, <1>20 DEF PostIInv

LEMMA EndDispatchInvariant == PostIInv /\ EndDispatch => PostIInv'
  <1>1. SUFFICES ASSUME PostIInv, EndDispatch PROVE PostIInv'
    OBVIOUS
  <1>2. ~Idle /\ Top.delayed /\ Top.message = Len(myDelayedMessages)
    BY <1>1 DEF EndDispatch, AllTold
  <1>3. PICK gone \in Nat : gone = Len(delivered)
    BY <1>1, PostFacts
  <1>4. delivered' = Append(delivered, gone + 1)
    BY <1>1, <1>2, <1>3, DeliveredFacts DEF EndDispatch
  <1>5. /\ delivered' \in Seq(Nat) /\ Len(delivered') = gone + 1
        /\ \A n \in 1 .. gone + 1 : delivered'[n] = n
    BY <1>1, <1>2, <1>3, <1>4, DeliveredFacts
  <1>6. /\ calls' = <<>> /\ myDelayedMessages' = <<>> /\ UNCHANGED <<mySubscribers, room, sent>>
    BY <1>1 DEF EndDispatch
  <1>7. calls' \in Seq(Deliveries) /\ myDelayedMessages' \in Seq(Messages)
    BY <1>6, EmptySeq
  <1>8. Len(calls') = 0 /\ Len(myDelayedMessages') = 0
    BY <1>6, EmptySeq
  <1>9. PostTypes'
    BY <1>1, <1>5, <1>6, <1>7 DEF PostIInv, PostTypes
  <1>10. \A n \in 1 .. 0 : FALSE
    OBVIOUS
  <1>11. WalksFit'
    BY <1>8, <1>10 DEF WalksFit
  <1>12. CallsFit'
    BY <1>8, <1>10 DEF CallsFit
  <1>13. RoomFits'
    BY <1>1, <1>6, <1>8, LimitsAssumption DEF PostIInv, PostTypes, RoomFits
  <1>14. FirstWaiting' = 1
    BY <1>6 DEF FirstWaiting
  <1>15. gone + 1 = sent
    <2>1. gone + Len(myDelayedMessages) + 1 - Len(myDelayedMessages) = sent
      BY <1>1, <1>2, <1>3, DeliveredFacts DEF PostIInv, OrderFits
    <2>2. Len(myDelayedMessages) \in Nat
      BY <1>1, PostFacts
    <2>3. QED
      BY <2>1, <2>2
  <1>16. OrderFits'
    <2>1. gone + 1 + 0 + 1 - 1 = sent'
      BY <1>6, <1>15
    <2>2. QED
      BY <1>5, <1>8, <1>10, <1>14, <2>1 DEF OrderFits
  <1>17. QED
    BY <1>9, <1>11, <1>12, <1>13, <1>16 DEF PostIInv

LEMMA PostInitInvariant == PostInit => PostIInv
  <1>1. SUFFICES ASSUME PostInit PROVE PostIInv
    OBVIOUS
  <1>2. /\ mySubscribers = [t \in Types |-> <<>>] /\ myDelayedMessages = <<>> /\ room = FirstRoom
        /\ calls = <<>> /\ sent = 0 /\ delivered = <<>>
    BY <1>1 DEF PostInit
  <1>3. /\ \A S : <<>> \in Seq(S)
        /\ Len(calls) = 0 /\ Len(myDelayedMessages) = 0 /\ Len(delivered) = 0
    BY <1>2, EmptySeq
  <1>4. mySubscribers \in [Types -> Seq(Subscribers)]
    BY <1>2, <1>3
  <1>5. PostTypes
    BY <1>2, <1>3, <1>4, LimitsAssumption DEF PostTypes
  <1>6. \A n \in 1 .. 0 : FALSE
    OBVIOUS
  <1>7. WalksFit /\ CallsFit
    BY <1>3, <1>6 DEF WalksFit, CallsFit
  <1>8. RoomFits
    BY <1>2, <1>3, LimitsAssumption DEF RoomFits
  <1>9. FirstWaiting = 1
    BY <1>2 DEF FirstWaiting
  <1>10. OrderFits
    BY <1>2, <1>3, <1>6, <1>9 DEF OrderFits
  <1>11. QED
    BY <1>5, <1>7, <1>8, <1>10 DEF PostIInv

LEMMA PostNextInvariant == PostIInv /\ [PostNext]_postVars => PostIInv'
  <1>1. SUFFICES ASSUME PostIInv, [PostNext]_postVars PROVE PostIInv'
    OBVIOUS
  <1>2. ASSUME NEW t \in Types, SendInstantMessage(t) PROVE PostIInv'
    BY <1>1, <1>2, SendInstantInvariant
  <1>3. ASSUME NEW t \in Types, SendDelayedMessage(t) PROVE PostIInv'
    BY <1>1, <1>3, SendDelayedInvariant
  <1>4. ASSUME NEW s \in Subscribers, Unsubscribe(Types, s) PROVE PostIInv'
    <2>1. Types \in SUBSET Types
      OBVIOUS
    <2>2. QED
      BY <1>1, <1>4, <2>1, UnsubscribeInvariant
  <1>5. ASSUME NEW s \in Subscribers, NEW t \in Types, Subscribe(t, s) PROVE PostIInv'
    BY <1>1, <1>5, SubscribeInvariant
  <1>6. ASSUME NEW s \in Subscribers, NEW t \in Types, Unsubscribe({t}, s) PROVE PostIInv'
    <2>1. {t} \in SUBSET Types
      OBVIOUS
    <2>2. QED
      BY <1>1, <1>6, <2>1, UnsubscribeInvariant
  <1>7. CASE Dispatch
    BY <1>1, <1>7, DispatchInvariant
  <1>8. CASE Tell
    BY <1>1, <1>8, TellInvariant
  <1>9. CASE Return
    BY <1>1, <1>9, ReturnInvariant
  <1>10. CASE EndInstant
    BY <1>1, <1>10, EndInstantInvariant
  <1>11. CASE NextMessage
    BY <1>1, <1>11, NextMessageInvariant
  <1>12. CASE EndDispatch
    BY <1>1, <1>12, EndDispatchInvariant
  <1>13. CASE UNCHANGED postVars
    <2>1. /\ UNCHANGED <<mySubscribers, myDelayedMessages, room>>
          /\ UNCHANGED <<calls, sent, delivered>>
      BY <1>13 DEF postVars
    <2>2. PostTypes' /\ WalksFit' /\ CallsFit' /\ RoomFits'
      BY <1>1, <2>1 DEF PostIInv, PostTypes, WalksFit, CallsFit, RoomFits
    <2>3. OrderFits'
      BY <1>1, <2>1 DEF PostIInv, OrderFits, FirstWaiting
    <2>4. QED
      BY <2>2, <2>3 DEF PostIInv
  <1>14. QED
    BY <1>1, <1>2, <1>3, <1>4, <1>5, <1>6, <1>7, <1>8, <1>9, <1>10, <1>11, <1>12, <1>13
       DEF PostNext, Deliver

LEMMA PostInvariance == PostSpec => []PostIInv
  BY PostInitInvariant, PostNextInvariant, PTL DEF PostSpec

-----------------------------------------------------------------------------
(* What follows from the invariant of the post master.                     *)

LEMMA PostInvIsTypeOK == PostIInv => PostTypeOK
  <1>1. SUFFICES ASSUME PostIInv PROVE PostTypeOK
    OBVIOUS
  <1>2. /\ mySubscribers \in [Types -> Seq(Subscribers)] /\ myDelayedMessages \in Seq(Messages)
        /\ room \in Nat /\ Len(myDelayedMessages) <= room
    BY <1>1 DEF PostIInv, PostTypes, RoomFits
  <1>3. DOMAIN myDelayedMessages = 1 .. Len(myDelayedMessages) /\ DOMAIN calls = 1 .. Len(calls)
    BY <1>1, <1>2, PostFacts, LenProperties
  <1>4. ASSUME NEW n \in 1 .. Len(myDelayedMessages)
        PROVE  myDelayedMessages[n].id \in 1 .. sent /\ myDelayedMessages[n].type \in Types
    <2>1. PICK m \in Messages : m = myDelayedMessages[n]
      BY <1>2, ElementOfSeq
    <2>2. m.type \in Types
      BY DEF Messages
    <2>3. QED
      BY <1>1, <2>1, <2>2 DEF PostIInv, OrderFits
  <1>5. ASSUME NEW n \in 1 .. Len(calls)
        PROVE  /\ calls[n].type \in Types /\ calls[n].index \in Nat \ {0}
               /\ calls[n].delayed => n = 1 /\ calls[n].message \in 1 .. Len(myDelayedMessages)
               /\ n < Len(calls) => calls[n].telling
    <2>1. calls[n] \in Deliveries
      BY <1>1, PostFacts
    <2>2. QED
      BY <1>1, <2>1, DeliveryFields DEF PostIInv, CallsFit
  <1>6. QED
    BY <1>2, <1>3, <1>4, <1>5 DEF PostTypeOK

LEMMA PostInvNeverToldTwice == PostIInv => NeverToldTwice
  <1>1. SUFFICES ASSUME PostIInv PROVE NeverToldTwice
    OBVIOUS
  <1>2. ASSUME NEW n \in 1 .. Len(calls), NEW s \in Subscribers
        PROVE  Occurrences(calls[n].told, s) <= calls[n].allowed[s]
    <2>1. PICK c \in Deliveries : c = calls[n]
      BY <1>1, PostFacts
    <2>2. PICK list \in Seq(Subscribers) : list = mySubscribers[c.type]
      BY <1>1, <2>1, PostFacts
    <2>3. /\ c.told \in Seq(Subscribers) /\ Sofar(c) \in Nat
          /\ c.allowed \in [Subscribers -> Nat]
      BY DeliveryFields
    <2>4. PICK sofar \in Nat \ {0} : sofar = Sofar(c) + 1
      BY <2>3
    <2>5. Cardinality(Places(c.told, s)) + Cardinality(Ahead(list, sofar, s)) <= c.allowed[s]
      BY <1>1, <2>1, <2>2, <2>4, PostFacts DEF WalkFits
    <2>6. /\ Cardinality(Places(c.told, s)) \in Nat /\ Cardinality(Ahead(list, sofar, s)) \in Nat
          /\ c.allowed[s] \in Nat
      BY <2>3, CountsAreNat
    <2>7. Occurrences(c.told, s) = Cardinality(Places(c.told, s))
      BY DEF Occurrences, Places
    <2>8. QED
      BY <2>1, <2>5, <2>6, <2>7
  <1>3. QED
    BY <1>1, <1>2, PostFacts DEF NeverToldTwice

LEMMA PostInvToldInOrder == PostIInv => ToldInOrder
  <1>1. SUFFICES ASSUME PostIInv PROVE ToldInOrder
    OBVIOUS
  <1>2. ASSUME NEW n \in 1 .. Len(calls), ~calls[n].shrunk
        PROVE  calls[n].told = SubSeq(mySubscribers[calls[n].type], 1,
                                      IF calls[n].telling THEN calls[n].index ELSE calls[n].index - 1)
    BY <1>1, <1>2, PostFacts DEF WalkFits, Sofar
  <1>3. QED
    BY <1>1, <1>2, PostFacts DEF ToldInOrder

LEMMA PostInvDelayedInOrder == PostIInv => DelayedInOrder
  <1>1. SUFFICES ASSUME PostIInv PROVE DelayedInOrder
    OBVIOUS
  <1>2. PICK gone \in Nat : gone = Len(delivered)
    BY <1>1, PostFacts
  <1>3. PICK count \in Nat : count = Len(myDelayedMessages)
    BY <1>1, PostFacts
  <1>4. PICK first \in 1 .. count + 1 : first = FirstWaiting
    <2>1. CASE calls # <<>> /\ calls[1].delayed
      <3>1. 1 \in 1 .. Len(calls)
        BY <1>1, <2>1, PostFacts
      <3>2. calls[1].message \in 1 .. count
        BY <1>1, <1>3, <2>1, <3>1 DEF PostIInv, CallsFit
      <3>3. QED
        BY <1>3, <2>1, <3>2 DEF FirstWaiting
    <2>2. CASE ~(calls # <<>> /\ calls[1].delayed)
      BY <1>3, <2>2 DEF FirstWaiting
    <2>3. QED
      BY <2>1, <2>2
  <1>5. /\ gone + count + 1 - first = sent /\ sent \in Nat /\ delivered \in Seq(Nat)
        /\ \A n \in 1 .. gone : delivered[n] = n
        /\ \A n \in 1 .. count : first <= n => myDelayedMessages[n].id = gone + n + 1 - first
    BY <1>1, <1>2, <1>3, <1>4 DEF PostIInv, PostTypes, OrderFits
  <1>6. PICK left \in Nat : left = count + 1 - first
    BY <1>4
  <1>7. PICK waiting : waiting = [n \in 1 .. left |-> myDelayedMessages[n + first - 1].id]
    OBVIOUS
  <1>8. ASSUME NEW n \in 1 .. left PROVE waiting[n] = gone + n
    <2>1. n + first - 1 \in 1 .. count /\ first <= n + first - 1
      BY <1>4, <1>6
    <2>2. myDelayedMessages[n + first - 1].id = gone + (n + first - 1) + 1 - first
      BY <1>5, <2>1
    <2>3. gone + (n + first - 1) + 1 - first = gone + n
      BY <1>4
    <2>4. QED
      BY <1>7, <2>2, <2>3
  <1>9. waiting \in Seq(Nat) /\ Len(waiting) = left
    <2>1. waiting \in [1 .. left -> Nat]
      <3>1. \A n \in 1 .. left : gone + n \in Nat
        OBVIOUS
      <3>2. \A n \in 1 .. left : waiting[n] \in Nat
        BY <1>8, <3>1
      <3>3. QED
        BY <1>7, <3>2
    <2>2. waiting \in Seq(Nat)
      BY <2>1, SeqDef
    <2>3. DOMAIN waiting = 1 .. left /\ Len(waiting) \in Nat /\ DOMAIN waiting = 1 .. Len(waiting)
      BY <2>1, <2>2, LenProperties
    <2>4. QED
      BY <2>2, <2>3
  <1>10. PICK all : all = delivered \o waiting
    OBVIOUS
  <1>11. /\ all \in Seq(Nat) /\ Len(all) = gone + left
         /\ \A n \in 1 .. gone + left : all[n] = IF n <= gone THEN delivered[n] ELSE waiting[n - gone]
    BY <1>2, <1>5, <1>9, <1>10, ConcatProperties
  <1>12. gone + left = sent
    BY <1>4, <1>5, <1>6
  <1>13. ASSUME NEW n \in 1 .. sent PROVE all[n] = n
    <2>1. CASE n <= gone
      <3>1. n \in 1 .. gone /\ n \in 1 .. gone + left
        BY <1>12, <2>1
      <3>2. all[n] = delivered[n]
        BY <1>11, <2>1, <3>1
      <3>3. QED
        BY <1>5, <3>1, <3>2
    <2>2. CASE ~(n <= gone)
      <3>1. n - gone \in 1 .. left /\ gone + (n - gone) = n /\ n \in 1 .. gone + left
        BY <1>12, <2>2
      <3>2. all[n] = waiting[n - gone]
        BY <1>11, <2>2, <3>1
      <3>3. QED
        BY <1>8, <3>1, <3>2
    <2>3. QED
      BY <2>1, <2>2
  <1>14. all = [n \in 1 .. sent |-> n]
    <2>1. DOMAIN all = 1 .. sent /\ all \in [1 .. sent -> Nat]
      BY <1>11, <1>12, LenProperties
    <2>2. QED
      BY <1>13, <2>1
  <1>15. delivered \o [n \in 1 .. Len(myDelayedMessages) + 1 - FirstWaiting |->
                          myDelayedMessages[n + FirstWaiting - 1].id] = [n \in 1 .. sent |-> n]
    BY <1>3, <1>4, <1>6, <1>7, <1>10, <1>14
  <1>16. FirstWaiting = IF ~Idle /\ calls[1].delayed THEN calls[1].message ELSE 1
    BY DEF FirstWaiting, Idle
  <1>17. QED
    BY <1>15, <1>16 DEF DelayedInOrder

LEMMA PostInvReferencesStayValid == PostIInv => ReferencesStayValid
  <1>1. SUFFICES ASSUME PostIInv, Len(myDelayedMessages) <= FirstRoom, NEW n \in DOMAIN calls
                 PROVE  calls[n].valid
    BY DEF ReferencesStayValid
  <1>2. n \in 1 .. Len(calls) /\ Len(myDelayedMessages) \in Nat /\ FirstRoom \in Nat
    BY <1>1, PostFacts, LimitsAssumption
  <1>3. ~calls[n].valid => FirstRoom < Len(myDelayedMessages)
    BY <1>1, <1>2 DEF PostIInv, CallsFit
  <1>4. QED
    BY <1>1, <1>2, <1>3

\* However callbacks send, subscribe and unsubscribe, and however deeply they
\* nest: nobody is told more often than it subscribed, delayed messages keep
\* their order and none is lost, and the reference Dispatch holds stays valid
\* until more messages are queued than had room at first (PostMaster.hpp:83-153).
THEOREM DeliveriesAreRight == PostSpec => []PostMasterInv
  <1>1. PostIInv => PostMasterInv
    BY PostInvIsTypeOK, PostInvNeverToldTwice, PostInvDelayedInOrder, PostInvReferencesStayValid
       DEF PostMasterInv
  <1>2. QED
    BY PostInvariance, <1>1, PTL

\* If nobody unsubscribes meanwhile, the subscribers are told in the order of
\* the list, those that subscribe during the delivery included
\* (PostMaster.hpp:115-118, 147-150).
THEOREM SubscribersAreToldInOrder == PostSpec => []ToldInOrder
  BY PostInvariance, PostInvToldInOrder, PTL

=============================================================================
