----------------------- MODULE ComponentManager_proofs -----------------------
(***************************************************************************)
(* Theorems about the component system, for every set of types and every   *)
(* amount of objects.  Those about the lists of components assume that     *)
(* Init was given the maximum: identifiers beyond the lists that Init made *)
(* share the first one (see ListIndex).                                    *)
(***************************************************************************)
EXTENDS ComponentManager, SequenceTheorems, FiniteSetTheorems, WellFoundedInduction, TLAPS

USE DEF NoObject

\* Init was called with aObjectAmount = ourMaxObjectAmount.
Room == ObjectAmount = MaxObjectAmount

Distinct(s) == \A i, j \in 1 .. Len(s) : s[i] = s[j] => i = j

-----------------------------------------------------------------------------
(***************************************************************************)
(* Sequences without repetition                                            *)
(***************************************************************************)

LEMMA AppendElement ==
    ASSUME NEW S, NEW s \in Seq(S), NEW x \in S
    PROVE  /\ Append(s, x) \in Seq(S)
           /\ Elements(Append(s, x)) = Elements(s) \cup {x}
           /\ Distinct(s) /\ x \notin Elements(s) => Distinct(Append(s, x))
  <1> DEFINE t == Append(s, x)
  <1>1. /\ t \in Seq(S) /\ Len(t) = Len(s) + 1 /\ t[Len(s) + 1] = x
        /\ \A i \in 1 .. Len(s) : t[i] = s[i]
    OBVIOUS
  <1>2. Len(s) \in Nat
    OBVIOUS
  <1> HIDE DEF t
  <1>3. 1 .. Len(t) = (1 .. Len(s)) \cup {Len(s) + 1}
    BY <1>1, <1>2
  <1>4. Elements(t) = Elements(s) \cup {x}
    BY <1>1, <1>3 DEF Elements
  <1>5. Distinct(s) /\ x \notin Elements(s) => Distinct(t)
    BY <1>1, <1>3 DEF Elements, Distinct
  <1>6. QED
    BY <1>1, <1>4, <1>5 DEF t

LEMMA DropLastElement ==
    ASSUME NEW S, NEW s \in Seq(S), s # <<>>, Distinct(s),
           NEW t, t = [i \in 1 .. Len(s) - 1 |-> s[i]]
    PROVE  /\ t \in Seq(S) /\ Distinct(t)
           /\ s[Len(s)] \in Elements(s)
           /\ Elements(t) = Elements(s) \ {s[Len(s)]}
  <1> DEFINE n == Len(s)
  <1>1. n \in Nat /\ n >= 1 /\ \A i \in 1 .. n : s[i] \in S
    OBVIOUS
  <1>2. n - 1 \in Nat /\ \A i \in 1 .. n - 1 : i \in 1 .. n /\ i # n
    BY <1>1
  <1>3. t \in Seq(S) /\ Len(t) = n - 1
    BY <1>1, <1>2
  <1>4. \A i \in 1 .. Len(t) : t[i] = s[i] /\ i \in 1 .. n /\ i # n
    BY <1>2, <1>3
  <1> HIDE DEF n
  <1>5. \A i \in 1 .. n : i # n => i \in 1 .. Len(t)
    BY <1>1, <1>3
  <1>6. n \in 1 .. n
    BY <1>1
  <1>7. Distinct(t)
    BY <1>4 DEF Distinct, n
  <1>8. Elements(t) = Elements(s) \ {s[n]}
    BY <1>4, <1>5, <1>6 DEF Elements, Distinct, n
  <1>9. QED
    BY <1>3, <1>6, <1>7, <1>8 DEF Elements, n

LEMMA RemoveCyclicElement ==
    ASSUME NEW S, NEW s \in Seq(S), Distinct(s), NEW x \in Elements(s)
    PROVE  /\ RemoveCyclic(s, x) \in Seq(S)
           /\ Distinct(RemoveCyclic(s, x))
           /\ Elements(RemoveCyclic(s, x)) = Elements(s) \ {x}
  <1> DEFINE t == RemoveCyclic(s, x)
             n == Len(s)
  <1>1. PICK p \in 1 .. n : s[p] = x
    BY DEF Elements
  <1>2. n \in Nat /\ n >= 1 /\ n \in 1 .. n /\ \A i \in 1 .. n : s[i] \in S
    BY <1>1
  <1>3. n - 1 \in Nat /\ \A i \in 1 .. n - 1 : i \in 1 .. n /\ i # n
    BY <1>2
  <1>4. t = [i \in 1 .. n - 1 |-> IF s[i] = x THEN s[n] ELSE s[i]]
    BY DEF RemoveCyclic
  <1> HIDE DEF t
  <1>5. t \in Seq(S) /\ Len(t) = n - 1
    BY <1>2, <1>3, <1>4
  <1>6. \A i \in 1 .. Len(t) : /\ i \in 1 .. n /\ i # n
                               /\ t[i] = IF s[i] = x THEN s[n] ELSE s[i]
    BY <1>3, <1>4, <1>5
  <1>7. \A i \in 1 .. n : i # n => i \in 1 .. Len(t)
    BY <1>2, <1>5
  <1> HIDE DEF n
  <1>8. Distinct(t)
    BY <1>2, <1>6 DEF Distinct, n
  <1>9. Elements(t) \subseteq Elements(s) \ {x}
    BY <1>2, <1>6 DEF Elements, Distinct, n
  <1>10. ASSUME NEW y \in Elements(s) \ {x} PROVE y \in Elements(t)
    <2>1. PICK k \in 1 .. n : s[k] = y
      BY DEF Elements, n
    <2>2. CASE k # n
      BY <2>1, <2>2, <1>6, <1>7 DEF Elements
    <2>3. CASE k = n
      <3>1. p # n
        BY <1>1, <2>1, <2>3
      <3>2. p \in 1 .. Len(t) /\ t[p] = y
        BY <1>1, <2>1, <2>3, <3>1, <1>6, <1>7
      <3>3. QED
        BY <3>2 DEF Elements
    <2>4. QED
      BY <2>2, <2>3
  <1>11. QED
    BY <1>5, <1>8, <1>9, <1>10 DEF t

-----------------------------------------------------------------------------
(***************************************************************************)
(* Types                                                                   *)
(***************************************************************************)

LEMMA EmptySequence == ASSUME NEW S PROVE <<>> \in Seq(S) /\ Elements(<<>>) = {}
  BY DEF Elements

LEMMA SlotOfType ==
    ASSUME NEW t \in Types, NEW i \in 1 .. Amount[t] PROVE <<t, i>> \in Slots
  BY DEF Slots

LEMMA IndexInRange ==
    ASSUME NEW id \in ObjectIDs PROVE ListIndex(id) \in 0 .. ObjectAmount - 1
  BY ObjectAssumption DEF ListIndex, ObjectIDs

LEMMA InstanceTypes ==
    ASSUME NEW n \in Nat PROVE AddInstance(n) \in Nat /\ RemoveInstance(n) \in Nat
  BY DEF AddInstance, RemoveInstance

LEMMA TypesInit == Init => TypeOK
  <1> SUFFICES ASSUME Init PROVE TypeOK
    OBVIOUS
  <1>1. ConstantObjectAmount \in 0 .. MaxObjectAmount /\ ConstantIDs \subseteq ObjectIDs
    BY ObjectAssumption DEF ConstantIDs, ObjectIDs
  <1>2. QED
    BY <1>1, EmptySequence DEF Init, TypeOK

LEMMA ObjectTypes ==
    ASSUME TypeOK
    PROVE  /\ \A id \in ObjectIDs : /\ ListIndex(id) \in 0 .. ObjectAmount - 1
                                    /\ myObjectComponents[ListIndex(id)] \in Seq(Slots)
                                    /\ ComponentsOf(id) \subseteq Slots
           /\ \A c \in Slots : instances[c] \in Nat /\ active[c] \in BOOLEAN
           /\ ConstantIDs \subseteq ObjectIDs
  <1>1. \A id \in ObjectIDs : ListIndex(id) \in 0 .. ObjectAmount - 1
    BY IndexInRange
  <1>2. \A id \in ObjectIDs : myObjectComponents[ListIndex(id)] \in Seq(Slots)
    BY <1>1 DEF TypeOK
  <1>3. ASSUME NEW id \in ObjectIDs PROVE ComponentsOf(id) \subseteq Slots
    <2> DEFINE s == myObjectComponents[ListIndex(id)]
    <2>1. s \in Seq(Slots)
      BY <1>2
    <2> HIDE DEF s
    <2>2. Elements(s) \subseteq Slots
      BY <2>1 DEF Elements
    <2>3. QED
      BY <2>2 DEF ComponentsOf, s
  <1>4. ConstantIDs \subseteq ObjectIDs
    BY ObjectAssumption DEF ConstantIDs, ObjectIDs
  <1>5. QED
    BY <1>1, <1>2, <1>3, <1>4 DEF TypeOK

\* What an operation has to keep for TypeOK, besides what Watch keeps.
ObjectTypeOK ==
    /\ objectID \in [Slots -> ObjectIDs \cup {NoObject}]
    /\ active \in [Slots -> BOOLEAN]
    /\ myObjectComponents \in [0 .. ObjectAmount - 1 -> Seq(Slots)]
    /\ myActiveObjects \subseteq ObjectIDs
    /\ instances \in [Slots -> Nat]

IdentifierTypeOK ==
    /\ myObjectIDs \in Seq(ObjectIDs)
    /\ myNextObjectID \in 0 .. MaxObjectAmount
    /\ owned \subseteq ObjectIDs

OtherTypeOK ==
    /\ myDataInfo \in Seq(Types)
    /\ myCreationLocked \in BOOLEAN
    /\ cursor \in Slots \cup {NoSlot}
    /\ updated \subseteq Slots

LEMMA TypeParts ==
    TypeOK <=> ObjectTypeOK /\ IdentifierTypeOK /\ OtherTypeOK /\ steady \subseteq Slots
  BY DEF TypeOK, ObjectTypeOK, IdentifierTypeOK, OtherTypeOK

LEMMA CreateTypeTypes ==
    ASSUME TypeOK, NEW t \in Types, CreateType(t) \/ LockCreation
    PROVE  ObjectTypeOK' /\ IdentifierTypeOK' /\ OtherTypeOK'
  <1>1. ObjectTypeOK' /\ IdentifierTypeOK'
    BY TypeParts DEF CreateType, LockCreation, objectVars, identifierVars,
                     ObjectTypeOK, IdentifierTypeOK
  <1>2. CASE CreateType(t)
    <2>1. myDataInfo' \in Seq(Types)
      BY <1>2, AppendElement DEF CreateType, TypeOK
    <2>2. OtherTypeOK'
      BY <1>2, <2>1 DEF CreateType, updateVars, TypeOK, OtherTypeOK
    <2>3. QED
      BY <1>1, <2>2
  <1>3. CASE LockCreation
    BY <1>1, <1>3 DEF LockCreation, updateVars, TypeOK, OtherTypeOK
  <1>4. QED
    BY <1>2, <1>3

LEMMA NewIDTypes ==
    ASSUME TypeOK, GetNewObjectID
    PROVE  ObjectTypeOK' /\ IdentifierTypeOK' /\ OtherTypeOK'
  <1>1. ObjectTypeOK' /\ OtherTypeOK'
    BY TypeParts DEF GetNewObjectID, ReuseObjectID, NewObjectID, objectVars, typeVars,
                     updateVars, ObjectTypeOK, OtherTypeOK
  <1>2. CASE ReuseObjectID
    <2>1. /\ Len(myObjectIDs) \in Nat /\ Len(myObjectIDs) \in 1 .. Len(myObjectIDs)
          /\ Len(myObjectIDs) - 1 \in Nat
      BY <1>2 DEF TypeOK, ReuseObjectID
    <2>2. \A i \in 1 .. Len(myObjectIDs) : myObjectIDs[i] \in ObjectIDs
      BY DEF TypeOK
    <2>3. \A i \in 1 .. Len(myObjectIDs) - 1 : i \in 1 .. Len(myObjectIDs)
      BY <2>1
    <2>4. myObjectIDs' \in Seq(ObjectIDs)
      BY <1>2, <2>1, <2>2, <2>3 DEF ReuseObjectID
    <2>5. QED
      BY <1>1, <1>2, <2>1, <2>2, <2>4 DEF ReuseObjectID, TypeOK, IdentifierTypeOK
  <1>3. CASE NewObjectID
    <2>1. myNextObjectID \in ObjectIDs /\ myNextObjectID + 1 \in 0 .. MaxObjectAmount
      BY <1>3, ObjectAssumption DEF NewObjectID, IDsLeft, TypeOK, ObjectIDs
    <2>2. QED
      BY <1>1, <1>3, <2>1 DEF NewObjectID, TypeOK, IdentifierTypeOK
  <1>4. QED
    BY <1>1, <1>2, <1>3 DEF GetNewObjectID

LEMMA ReserveTypes ==
    ASSUME TypeOK, NEW aAmount \in Reservations, ReserveNewObjectIDs(aAmount)
    PROVE  ObjectTypeOK' /\ IdentifierTypeOK' /\ OtherTypeOK'
  <1>1. ObjectTypeOK' /\ OtherTypeOK'
    BY TypeParts DEF ReserveNewObjectIDs, objectVars, typeVars, updateVars,
                     ObjectTypeOK, OtherTypeOK
  <1>2. /\ aAmount \in Nat /\ myNextObjectID \in Nat
        /\ myNextObjectID + aAmount <= MaxObjectAmount
        /\ myNextObjectID' = myNextObjectID + aAmount
        /\ owned' = owned \cup (myNextObjectID .. myNextObjectID + aAmount - 1)
        /\ myObjectIDs' = myObjectIDs
    BY CallerAssumption DEF ReserveNewObjectIDs, TypeOK
  <1>3. (myNextObjectID .. myNextObjectID + aAmount - 1) \subseteq ObjectIDs
    BY <1>2, ObjectAssumption DEF ObjectIDs
  <1>4. myNextObjectID' \in 0 .. MaxObjectAmount
    BY <1>2, ObjectAssumption
  <1>5. QED
    BY <1>1, <1>2, <1>3, <1>4 DEF TypeOK, IdentifierTypeOK

LEMMA AddTypes ==
    ASSUME TypeOK, NEW t \in Types, NEW id \in owned, AddComponent(t, id)
    PROVE  ObjectTypeOK' /\ IdentifierTypeOK' /\ OtherTypeOK'
  <1>1. IdentifierTypeOK' /\ OtherTypeOK'
    BY TypeParts DEF AddComponent, identifierVars, typeVars, updateVars,
                     IdentifierTypeOK, OtherTypeOK
  <1>2. PICK i \in Unused(t) :
            /\ objectID' = [objectID EXCEPT ![<<t, i>>] = id]
            /\ active' = [active EXCEPT ![<<t, i>>] = TRUE]
            /\ instances' = [instances EXCEPT ![<<t, i>>] = AddInstance(@)]
            /\ myObjectComponents' =
                 [myObjectComponents EXCEPT ![ListIndex(id)] = Append(@, <<t, i>>)]
            /\ myActiveObjects' = myActiveObjects
    BY DEF AddComponent
  <1>3. <<t, i>> \in Slots
    BY SlotOfType DEF Unused
  <1>4. id \in ObjectIDs
    BY DEF TypeOK
  <1>5. AddInstance(instances[<<t, i>>]) \in Nat
    BY <1>3, InstanceTypes DEF TypeOK
  <1>6. /\ ListIndex(id) \in 0 .. ObjectAmount - 1
        /\ Append(myObjectComponents[ListIndex(id)], <<t, i>>) \in Seq(Slots)
    BY <1>3, <1>4, ObjectTypes, AppendElement
  <1>7. QED
    BY <1>1, <1>2, <1>3, <1>4, <1>5, <1>6 DEF TypeOK, ObjectTypeOK

\* RemoveCyclic needs no more than an element to remove.
LEMMA RemoveCyclicType ==
    ASSUME NEW S, NEW s \in Seq(S), NEW x \in Elements(s)
    PROVE  RemoveCyclic(s, x) \in Seq(S)
  <1> DEFINE n == Len(s)
  <1>1. n \in Nat /\ n >= 1 /\ n \in 1 .. n /\ \A i \in 1 .. n : s[i] \in S
    BY DEF Elements
  <1>2. n - 1 \in Nat /\ \A i \in 1 .. n - 1 : i \in 1 .. n
    BY <1>1
  <1>3. RemoveCyclic(s, x) = [i \in 1 .. n - 1 |-> IF s[i] = x THEN s[n] ELSE s[i]]
    BY DEF RemoveCyclic
  <1> HIDE DEF n
  <1>4. QED
    BY <1>1, <1>2, <1>3

LEMMA ReleaseComponentTypes ==
    ASSUME TypeOK, NEW c \in Slots, ReleaseComponent(c)
    PROVE  ObjectTypeOK' /\ IdentifierTypeOK' /\ OtherTypeOK'
  <1>1. IdentifierTypeOK' /\ OtherTypeOK'
    BY TypeParts DEF ReleaseComponent, identifierVars, typeVars, updateVars,
                     IdentifierTypeOK, OtherTypeOK
  <1> DEFINE id == objectID[c]
             s == myObjectComponents[ListIndex(id)]
  <1>2. id \in ObjectIDs
    BY DEF ReleaseComponent, TypeOK
  <1>3. ListIndex(id) \in 0 .. ObjectAmount - 1 /\ s \in Seq(Slots)
    BY <1>2, ObjectTypes
  <1>4. (IF c \in Elements(s) THEN RemoveCyclic(s, c) ELSE s) \in Seq(Slots)
    BY <1>3, RemoveCyclicType
  <1>5. myObjectComponents' =
          [myObjectComponents EXCEPT ![ListIndex(id)] =
              IF c \in Elements(s) THEN RemoveCyclic(s, c) ELSE s]
    BY DEF ReleaseComponent, ComponentsOf
  <1>6. RemoveInstance(instances[c]) \in Nat
    BY InstanceTypes DEF TypeOK
  <1> HIDE DEF id, s
  <1>7. myObjectComponents' \in [0 .. ObjectAmount - 1 -> Seq(Slots)]
    BY <1>3, <1>4, <1>5 DEF TypeOK
  <1>8. QED
    BY <1>1, <1>6, <1>7 DEF ReleaseComponent, TypeOK, ObjectTypeOK

LEMMA SetActiveTypes ==
    ASSUME TypeOK, NEW c \in Slots, ActivateComponent(c) \/ DeactivateComponent(c)
    PROVE  ObjectTypeOK' /\ IdentifierTypeOK' /\ OtherTypeOK'
  <1>1. IdentifierTypeOK' /\ OtherTypeOK'
    BY TypeParts DEF ActivateComponent, DeactivateComponent, identifierVars, typeVars,
                     updateVars, IdentifierTypeOK, OtherTypeOK
  <1>2. AddInstance(instances[c]) \in Nat /\ RemoveInstance(instances[c]) \in Nat
    BY InstanceTypes DEF TypeOK
  <1>3. QED
    BY <1>1, <1>2 DEF ActivateComponent, DeactivateComponent, TypeOK, ObjectTypeOK

LEMMA ReleaseObjectTypes ==
    ASSUME TypeOK, NEW id \in owned, ReleaseObject(id)
    PROVE  ObjectTypeOK' /\ IdentifierTypeOK' /\ OtherTypeOK'
  <1>1. OtherTypeOK'
    BY TypeParts DEF ReleaseObject, typeVars, updateVars, OtherTypeOK
  <1>2. id \in ObjectIDs
    BY DEF TypeOK
  <1>3. IdentifierTypeOK'
    BY <1>2, AppendElement DEF TypeOK, ReleaseObject, Recycled, IdentifierTypeOK
  <1>4. ListIndex(id) \in 0 .. ObjectAmount - 1
    BY <1>2, ObjectTypes
  <1>5. \A c \in Slots : RemoveInstance(instances[c]) \in Nat /\ instances[c] \in Nat
    BY InstanceTypes DEF TypeOK
  <1>6. objectID' \in [Slots -> ObjectIDs \cup {NoObject}]
    BY DEF ReleaseObject, TypeOK
  <1>7. active' \in [Slots -> BOOLEAN]
    BY DEF ReleaseObject
  <1>8. instances' \in [Slots -> Nat]
    BY <1>5 DEF ReleaseObject
  <1>9. QED
    BY <1>1, <1>3, <1>4, <1>6, <1>7, <1>8, EmptySequence
    DEF ReleaseObject, ClearsBit, TypeOK, ObjectTypeOK

LEMMA ReleaseAllTypes ==
    ASSUME TypeOK, ReleaseAllObjects
    PROVE  ObjectTypeOK' /\ IdentifierTypeOK' /\ OtherTypeOK'
  <1>1. OtherTypeOK'
    BY TypeParts DEF ReleaseAllObjects, typeVars, updateVars, OtherTypeOK
  <1>2. ConstantObjectAmount \in 0 .. MaxObjectAmount /\ ConstantIDs \subseteq ObjectIDs
    BY ObjectAssumption, ObjectTypes
  <1>3. IdentifierTypeOK'
    BY <1>2, EmptySequence DEF ReleaseAllObjects, EmptyStack, IdentifierTypeOK
  <1>4. \A c \in Slots : RemoveInstance(instances[c]) \in Nat /\ instances[c] \in Nat
    BY InstanceTypes DEF TypeOK
  <1>5. ObjectTypeOK'
    BY <1>4, EmptySequence DEF ReleaseAllObjects, ObjectTypeOK
  <1>6. QED
    BY <1>1, <1>3, <1>5

LEMMA ActivateObjectTypes ==
    ASSUME TypeOK, NEW id \in owned, NEW both \in BOOLEAN,
           ActivateObject(id, both) \/ DeactivateObject(id, both)
    PROVE  ObjectTypeOK' /\ IdentifierTypeOK' /\ OtherTypeOK'
  <1>1. IdentifierTypeOK' /\ OtherTypeOK'
    BY TypeParts DEF ActivateObject, DeactivateObject, identifierVars, typeVars,
                     updateVars, IdentifierTypeOK, OtherTypeOK
  <1>2. \A c \in Slots : /\ instances[c] \in Nat
                         /\ AddInstance(instances[c]) \in Nat
                         /\ RemoveInstance(instances[c]) \in Nat
                         /\ RemoveInstance(RemoveInstance(instances[c])) \in Nat
    BY InstanceTypes DEF TypeOK
  <1>3. instances' \in [Slots -> Nat]
    BY <1>2 DEF ActivateObject, DeactivateObject
  <1>4. active' \in [Slots -> BOOLEAN]
    BY DEF ActivateObject, DeactivateObject
  <1>5. QED
    BY <1>1, <1>3, <1>4
    DEF ActivateObject, DeactivateObject, ClearsBit, TypeOK, ObjectTypeOK

LEMMA UpdateTypes ==
    ASSUME TypeOK, UpdateNext \/ UpdateReturns
    PROVE  ObjectTypeOK' /\ IdentifierTypeOK' /\ OtherTypeOK'
  BY TypeParts DEF UpdateNext, UpdateReturns, objectVars, identifierVars, typeVars,
                   ObjectTypeOK, IdentifierTypeOK, OtherTypeOK

LEMMA TypesNext == TypeOK /\ [Next]_vars => TypeOK'
  <1> SUFFICES ASSUME TypeOK, [Next]_vars PROVE TypeOK'
    OBVIOUS
  <1>1. CASE Next
    <2>1. ObjectTypeOK' /\ IdentifierTypeOK' /\ OtherTypeOK'
      <3>1. CASE Operation
        <4> USE <3>1
        <4>1. CASE \E t \in Types : CreateType(t)
          BY <4>1, CreateTypeTypes
        <4>2. CASE LockCreation
          BY <4>2, TypeParts DEF LockCreation, objectVars, identifierVars, updateVars,
                                 ObjectTypeOK, IdentifierTypeOK, OtherTypeOK
        <4>3. CASE GetNewObjectID
          BY <4>3, NewIDTypes
        <4>4. CASE \E aAmount \in Reservations : ReserveNewObjectIDs(aAmount)
          BY <4>4, ReserveTypes
        <4>5. CASE \E t \in Types, id \in owned : AddComponent(t, id)
          BY <4>5, AddTypes
        <4>6. CASE \E c \in Slots : ReleaseComponent(c) \/ ActivateComponent(c)
                                    \/ DeactivateComponent(c)
          BY <4>6, ReleaseComponentTypes, SetActiveTypes
        <4>7. CASE \E id \in owned : ReleaseObject(id)
          BY <4>7, ReleaseObjectTypes
        <4>8. CASE ReleaseAllObjects
          BY <4>8, ReleaseAllTypes
        <4>9. CASE \E id \in owned, both \in BOOLEAN :
                       ActivateObject(id, both) \/ DeactivateObject(id, both)
          BY <4>9, ActivateObjectTypes
        <4>10. QED
          BY <3>1, <4>1, <4>2, <4>3, <4>4, <4>5, <4>6, <4>7, <4>8, <4>9 DEF Operation
      <3>2. CASE UpdateNext \/ UpdateReturns
        BY <3>2, UpdateTypes
      <3>3. QED
        BY <1>1, <3>1, <3>2 DEF Next
    <2>2. steady' \subseteq Slots
      BY <1>1 DEF Next, Watch, Eligible, TypeOK
    <2>3. QED
      BY <2>1, <2>2 DEF TypeOK, ObjectTypeOK, IdentifierTypeOK, OtherTypeOK
  <1>2. CASE UNCHANGED vars
    BY <1>2 DEF vars, objectVars, identifierVars, typeVars, updateVars, TypeOK
  <1>3. QED
    BY <1>1, <1>2

\* Every variable keeps its type: component lists and bits stay within the
\* identifiers, the counter within the bit set, for any number of types,
\* components and objects.
THEOREM TypeCorrect == Spec => []TypeOK
  BY TypesInit, TypesNext, PTL DEF Spec

-----------------------------------------------------------------------------
(***************************************************************************)
(* Identifiers                                                             *)
(***************************************************************************)

IdentifierInv ==
    /\ Distinct(myObjectIDs)
    /\ owned = LiveIDs
    /\ Elements(myObjectIDs) \cap ConstantIDs = {}
    /\ \A id \in Elements(myObjectIDs) : id < myNextObjectID
    /\ ConstantObjectAmount <= myNextObjectID

LEMMA IdentifierInvImplies == TypeOK /\ IdentifierInv => OneHolderPerID
  <1> SUFFICES ASSUME TypeOK, IdentifierInv PROVE OneHolderPerID
    OBVIOUS
  <1>1. ConstantIDs \subseteq 0 .. myNextObjectID - 1
    BY ObjectAssumption DEF IdentifierInv, ConstantIDs, TypeOK
  <1>2. QED
    BY <1>1 DEF IdentifierInv, OneHolderPerID, Distinct, LiveIDs

LEMMA IdentifierNumbers ==
    ASSUME TypeOK
    PROVE  /\ \A id \in Elements(myObjectIDs) : id \in Nat
           /\ \A id \in owned : id \in Nat /\ id \in ObjectIDs
           /\ myNextObjectID \in Nat
  <1>1. \A id \in ObjectIDs : id \in Nat
    BY DEF ObjectIDs
  <1>2. \A id \in Elements(myObjectIDs) : id \in ObjectIDs
    BY DEF TypeOK, Elements
  <1>3. QED
    BY <1>1, <1>2 DEF TypeOK

LEMMA IdentifierInit == Init => IdentifierInv
  <1> SUFFICES ASSUME Init PROVE IdentifierInv
    OBVIOUS
  <1>1. Elements(myObjectIDs) = {} /\ Distinct(myObjectIDs)
    BY DEF Init, Elements, Distinct
  <1>2. QED
    BY <1>1, ObjectAssumption DEF Init, IdentifierInv, LiveIDs, ConstantIDs

LEMMA IdentifierKept ==
    ASSUME IdentifierInv, UNCHANGED identifierVars PROVE IdentifierInv'
  BY DEF identifierVars, IdentifierInv, LiveIDs

LEMMA IdentifierNew ==
    ASSUME TypeOK, IdentifierInv, GetNewObjectID PROVE IdentifierInv'
  <1>1. CASE ReuseObjectID
    <2> DEFINE id == myObjectIDs[Len(myObjectIDs)]
    <2>1. /\ Distinct(myObjectIDs') /\ id \in Elements(myObjectIDs)
          /\ Elements(myObjectIDs') = Elements(myObjectIDs) \ {id}
      BY <1>1, DropLastElement DEF TypeOK, IdentifierInv, ReuseObjectID
    <2>2. id \in 0 .. myNextObjectID - 1
      <3>1. id \in Nat /\ id < myNextObjectID /\ myNextObjectID \in Nat
        BY <2>1, IdentifierNumbers DEF IdentifierInv
      <3> HIDE DEF id
      <3>2. QED
        BY <3>1
    <2>3. owned' = owned \cup {id} /\ myNextObjectID' = myNextObjectID
      BY <1>1 DEF ReuseObjectID
    <2> HIDE DEF id
    <2>4. owned' = LiveIDs'
      BY <2>1, <2>2, <2>3 DEF IdentifierInv, LiveIDs
    <2>5. QED
      BY <2>1, <2>3, <2>4 DEF IdentifierInv
  <1>2. CASE NewObjectID
    <2>1. /\ Elements(myObjectIDs) = {} /\ myObjectIDs' = myObjectIDs
          /\ owned' = owned \cup {myNextObjectID} /\ myNextObjectID' = myNextObjectID + 1
      BY <1>2 DEF NewObjectID, Elements
    <2>2. myNextObjectID \in Nat
      BY DEF TypeOK
    <2>3. owned' = LiveIDs'
      <3>1. owned = 0 .. myNextObjectID - 1
        BY <2>1 DEF IdentifierInv, LiveIDs
      <3>2. LiveIDs' = 0 .. myNextObjectID
        BY <2>1, <2>2 DEF LiveIDs
      <3>3. QED
        BY <2>1, <2>2, <3>1, <3>2
    <2>4. ConstantObjectAmount <= myNextObjectID'
      BY <2>1, <2>2, ObjectAssumption DEF IdentifierInv
    <2>5. QED
      BY <2>1, <2>3, <2>4 DEF IdentifierInv
  <1>3. QED
    BY <1>1, <1>2 DEF GetNewObjectID

LEMMA IdentifierReserve ==
    ASSUME TypeOK, IdentifierInv, NEW aAmount \in Reservations,
           ReserveNewObjectIDs(aAmount)
    PROVE  IdentifierInv'
  <1>1. /\ aAmount \in Nat /\ aAmount > 1 /\ myNextObjectID \in Nat
        /\ myNextObjectID' = myNextObjectID + aAmount
        /\ owned' = owned \cup (myNextObjectID .. myNextObjectID + aAmount - 1)
        /\ myObjectIDs' = myObjectIDs
    BY CallerAssumption DEF ReserveNewObjectIDs, TypeOK
  <1>2. \A id \in Elements(myObjectIDs) : id \in Nat /\ id < myNextObjectID
    BY IdentifierNumbers DEF IdentifierInv
  <1>3. owned' = LiveIDs'
    <2>1. Elements(myObjectIDs') = Elements(myObjectIDs)
      BY <1>1
    <2>2. LiveIDs' = (0 .. myNextObjectID + aAmount - 1) \ Elements(myObjectIDs)
      BY <1>1, <2>1 DEF LiveIDs
    <2>3. \A id : id \in 0 .. myNextObjectID + aAmount - 1
                    <=> \/ id \in 0 .. myNextObjectID - 1
                        \/ id \in myNextObjectID .. myNextObjectID + aAmount - 1
      BY <1>1
    <2>4. \A id \in myNextObjectID .. myNextObjectID + aAmount - 1 :
              id \notin Elements(myObjectIDs)
      BY <1>1, <1>2
    <2>5. QED
      BY <1>1, <2>2, <2>3, <2>4 DEF IdentifierInv, LiveIDs
  <1>4. /\ ConstantObjectAmount <= myNextObjectID'
        /\ \A id \in Elements(myObjectIDs) : id < myNextObjectID'
    BY <1>1, <1>2, ObjectAssumption DEF IdentifierInv
  <1>5. QED
    BY <1>1, <1>3, <1>4 DEF IdentifierInv

LEMMA IdentifierReleaseObject ==
    ASSUME TypeOK, IdentifierInv, NEW id \in owned, ReleaseObject(id)
    PROVE  IdentifierInv'
  <1>1. /\ id \in Nat /\ myNextObjectID \in Nat /\ id < myNextObjectID
        /\ id \in ObjectIDs /\ id \notin Elements(myObjectIDs)
    <2>1. id \in Nat /\ id \in ObjectIDs /\ myNextObjectID \in Nat
      BY IdentifierNumbers
    <2>2. id \in 0 .. myNextObjectID - 1 /\ id \notin Elements(myObjectIDs)
      BY DEF IdentifierInv, LiveIDs
    <2>3. QED
      BY <2>1, <2>2
  <1>2. id \in ConstantIDs <=> ~(id >= ConstantObjectAmount)
    BY <1>1, ObjectAssumption DEF ConstantIDs
  <1>3. /\ myObjectIDs' = Recycled(id) /\ myNextObjectID' = myNextObjectID
        /\ owned' = owned \ ({id} \ ConstantIDs)
    BY DEF ReleaseObject
  <1>4. CASE id \in ConstantIDs
    BY <1>2, <1>3, <1>4 DEF Recycled, IdentifierInv, LiveIDs
  <1>5. CASE id \notin ConstantIDs
    <2>1. /\ Elements(myObjectIDs') = Elements(myObjectIDs) \cup {id}
          /\ Distinct(myObjectIDs')
      BY <1>1, <1>2, <1>3, <1>5, AppendElement DEF Recycled, TypeOK, IdentifierInv
    <2>2. owned' = LiveIDs'
      BY <1>1, <1>3, <1>5, <2>1 DEF IdentifierInv, LiveIDs
    <2>3. QED
      BY <1>1, <1>3, <1>5, <2>1, <2>2 DEF IdentifierInv
  <1>6. QED
    BY <1>4, <1>5

LEMMA IdentifierReleaseAll ==
    ASSUME ReleaseAllObjects PROVE IdentifierInv'
  <1>1. Elements(myObjectIDs') = {} /\ Distinct(myObjectIDs')
    BY DEF ReleaseAllObjects, EmptyStack, Elements, Distinct
  <1>2. QED
    BY <1>1, ObjectAssumption
    DEF ReleaseAllObjects, IdentifierInv, LiveIDs, ConstantIDs

LEMMA IdentifierNext == TypeOK /\ IdentifierInv /\ [Next]_vars => IdentifierInv'
  <1> SUFFICES ASSUME TypeOK, IdentifierInv, [Next]_vars PROVE IdentifierInv'
    OBVIOUS
  <1>1. CASE GetNewObjectID
    BY <1>1, IdentifierNew
  <1>2. CASE \E aAmount \in Reservations : ReserveNewObjectIDs(aAmount)
    BY <1>2, IdentifierReserve
  <1>3. CASE \E id \in owned : ReleaseObject(id)
    BY <1>3, IdentifierReleaseObject
  <1>4. CASE ReleaseAllObjects
    BY <1>4, IdentifierReleaseAll
  <1>5. CASE UNCHANGED identifierVars
    BY <1>5, IdentifierKept
  <1>6. CASE UNCHANGED vars
    BY <1>6, IdentifierKept DEF vars
  <1>7. QED
    BY <1>1, <1>2, <1>3, <1>4, <1>5, <1>6
    DEF Next, Operation, CreateType, LockCreation, AddComponent, ReleaseComponent,
        ActivateComponent, DeactivateComponent, ActivateObject, DeactivateObject,
        UpdateNext, UpdateReturns

\* GetNewObjectID and ReserveNewObjectIDs never give an identifier to two
\* holders, however objects are created, reserved and released.
THEOREM IdentifiersHaveOneHolder == Spec => []OneHolderPerID
  <1>1. Init => TypeOK /\ IdentifierInv
    BY TypesInit, IdentifierInit
  <1>2. TypeOK /\ IdentifierInv /\ [Next]_vars => (TypeOK /\ IdentifierInv)'
    BY TypesNext, IdentifierNext
  <1>3. QED
    BY <1>1, <1>2, IdentifierInvImplies, PTL DEF Spec

-----------------------------------------------------------------------------
(***************************************************************************)
(* Lists and components                                                    *)
(***************************************************************************)

\* With a list per identifier: the list of an object holds exactly the
\* components that name it, and only objects in use are named or active.
ListInv ==
    /\ \A id \in ObjectIDs :
          /\ Distinct(myObjectComponents[id])
          /\ \A c \in Slots : c \in Elements(myObjectComponents[id]) <=> objectID[c] = id
    /\ \A c \in Slots : objectID[c] # NoObject => objectID[c] \in owned
    /\ myActiveObjects \subseteq owned

LEMMA OwnList ==
    ASSUME Room, NEW id \in ObjectIDs
    PROVE  ListIndex(id) = id /\ id \in 0 .. ObjectAmount - 1 /\ id # NoObject
           /\ ComponentsOf(id) = Elements(myObjectComponents[id])
  BY ObjectAssumption DEF Room, ListIndex, ComponentsOf, ObjectIDs

LEMMA RoomIDs == ASSUME Room PROVE ObjectIDs = 0 .. ObjectAmount - 1
  BY DEF Room, ObjectIDs

LEMMA ListInvImplies ==
    ASSUME Room, TypeOK, ListInv PROVE ListsMatchComponents /\ NewObjectsAreEmpty
  <1>1. ASSUME NEW id \in 0 .. ObjectAmount - 1
        PROVE  /\ \A c \in Elements(myObjectComponents[id]) : objectID[c] = id
               /\ Distinct(myObjectComponents[id])
    <2>1. id \in ObjectIDs /\ ComponentsOf(id) \subseteq Slots
          /\ ComponentsOf(id) = Elements(myObjectComponents[id])
      BY <1>1, RoomIDs, OwnList, ObjectTypes
    <2>2. QED
      BY <2>1 DEF ListInv
  <1>2. ASSUME NEW c \in Slots, objectID[c] # NoObject
        PROVE  c \in ComponentsOf(objectID[c])
    <2>1. objectID[c] \in ObjectIDs
      BY <1>2 DEF TypeOK
    <2>2. QED
      BY <2>1, OwnList DEF ListInv
  <1>3. ListsMatchComponents
    BY <1>1, <1>2 DEF ListsMatchComponents, Distinct
  <1>4. NewObjectsAreEmpty
    BY OwnList DEF ListInv, NewObjectsAreEmpty
  <1>5. QED
    BY <1>3, <1>4

LEMMA ListInit == ASSUME Room, Init PROVE ListInv
  <1>1. \A id \in ObjectIDs : myObjectComponents[id] = <<>> /\ id # NoObject
    BY RoomIDs, OwnList DEF Init
  <1>2. \A id \in ObjectIDs : Elements(myObjectComponents[id]) = {}
                              /\ Distinct(myObjectComponents[id])
    BY <1>1 DEF Elements, Distinct
  <1>3. QED
    BY <1>1, <1>2 DEF Init, ListInv

LEMMA ListAdd ==
    ASSUME Room, TypeOK, ListInv, NEW t \in Types, NEW id \in owned, AddComponent(t, id)
    PROVE  ListInv'
  <1>1. PICK i \in Unused(t) :
            /\ objectID' = [objectID EXCEPT ![<<t, i>>] = id]
            /\ myObjectComponents' =
                 [myObjectComponents EXCEPT ![ListIndex(id)] = Append(@, <<t, i>>)]
            /\ UNCHANGED <<myActiveObjects, owned>>
    BY DEF AddComponent, identifierVars
  <1> DEFINE c == <<t, i>>
             s == myObjectComponents[id]
  <1>2. c \in Slots /\ objectID[c] = NoObject
    BY SlotOfType DEF Unused
  <1>3. id \in ObjectIDs /\ ListIndex(id) = id /\ id \in 0 .. ObjectAmount - 1
        /\ id # NoObject
    BY OwnList DEF TypeOK
  <1>4. s \in Seq(Slots) /\ c \notin Elements(s) /\ Distinct(s)
    BY <1>2, <1>3 DEF TypeOK, ListInv
  <1>5. Elements(Append(s, c)) = Elements(s) \cup {c} /\ Distinct(Append(s, c))
    BY <1>2, <1>4, AppendElement
  <1>6. /\ objectID' = [objectID EXCEPT ![c] = id]
        /\ myObjectComponents' = [myObjectComponents EXCEPT ![id] = Append(s, c)]
    BY <1>1, <1>3
  <1> HIDE DEF c
  <1>7. \A d \in Slots : objectID'[d] = IF d = c THEN id ELSE objectID[d]
    BY <1>2, <1>6 DEF TypeOK
  <1>8. \A o \in ObjectIDs :
            myObjectComponents'[o] = IF o = id THEN Append(s, c) ELSE myObjectComponents[o]
    BY <1>6, RoomIDs DEF TypeOK
  <1>9. ASSUME NEW o \in ObjectIDs
        PROVE  /\ Distinct(myObjectComponents'[o])
               /\ \A d \in Slots : d \in Elements(myObjectComponents'[o]) <=> objectID'[d] = o
    <2>1. CASE o = id
      BY <1>5, <1>7, <1>8, <2>1 DEF ListInv
    <2>2. CASE o # id
      <3>1. objectID[c] # o
        BY <1>2, OwnList
      <3>2. QED
        BY <1>7, <1>8, <2>2, <3>1 DEF ListInv
    <2>3. QED
      BY <2>1, <2>2
  <1>10. QED
    BY <1>1, <1>7, <1>9 DEF ListInv

LEMMA ListReleaseComponent ==
    ASSUME Room, TypeOK, ListInv, NEW c \in Slots, ReleaseComponent(c)
    PROVE  ListInv'
  <1> DEFINE id == objectID[c]
             s == myObjectComponents[id]
  <1>1. id \in ObjectIDs /\ ListIndex(id) = id /\ id # NoObject
    BY OwnList DEF TypeOK, ReleaseComponent
  <1>2. s \in Seq(Slots) /\ c \in Elements(s) /\ Distinct(s)
    BY <1>1, RoomIDs DEF TypeOK, ListInv
  <1>3. /\ Elements(RemoveCyclic(s, c)) = Elements(s) \ {c}
        /\ Distinct(RemoveCyclic(s, c))
    BY <1>2, RemoveCyclicElement
  <1>4. /\ objectID' = [objectID EXCEPT ![c] = NoObject]
        /\ myObjectComponents' = [myObjectComponents EXCEPT ![id] = RemoveCyclic(s, c)]
        /\ UNCHANGED <<myActiveObjects, owned>>
    BY <1>1, <1>2 DEF ReleaseComponent, ComponentsOf, identifierVars
  <1>5. \A d \in Slots : objectID'[d] = IF d = c THEN NoObject ELSE objectID[d]
    BY <1>4 DEF TypeOK
  <1>6. \A o \in ObjectIDs :
            myObjectComponents'[o] = IF o = id THEN RemoveCyclic(s, c) ELSE myObjectComponents[o]
    BY <1>4, RoomIDs DEF TypeOK
  <1>7. ASSUME NEW o \in ObjectIDs
        PROVE  /\ Distinct(myObjectComponents'[o])
               /\ \A d \in Slots : d \in Elements(myObjectComponents'[o]) <=> objectID'[d] = o
    <2>0. o # NoObject
      BY OwnList
    <2>1. CASE o = id
      BY <1>1, <1>3, <1>5, <1>6, <2>0, <2>1 DEF ListInv
    <2>2. CASE o # id
      BY <1>5, <1>6, <2>0, <2>2 DEF ListInv
    <2>3. QED
      BY <2>1, <2>2
  <1>8. QED
    BY <1>4, <1>5, <1>7 DEF ListInv

LEMMA ListReleaseObject ==
    ASSUME Room, TypeOK, ListInv, NEW id \in owned, ReleaseObject(id)
    PROVE  ListInv'
  <1>1. /\ id \in ObjectIDs /\ ListIndex(id) = id /\ id # NoObject
        /\ ComponentsOf(id) = Elements(myObjectComponents[id])
    BY OwnList DEF TypeOK
  <1>2. \A c \in Slots : c \in ComponentsOf(id) <=> objectID[c] = id
    BY <1>1 DEF ListInv
  <1>3. \A c \in Slots : objectID'[c] = IF objectID[c] = id THEN NoObject ELSE objectID[c]
    BY <1>2 DEF ReleaseObject
  <1>4. \A o \in ObjectIDs :
            myObjectComponents'[o] = IF o = id THEN <<>> ELSE myObjectComponents[o]
    BY <1>1, RoomIDs DEF TypeOK, ReleaseObject
  <1>5. ASSUME NEW o \in ObjectIDs
        PROVE  /\ Distinct(myObjectComponents'[o])
               /\ \A d \in Slots : d \in Elements(myObjectComponents'[o]) <=> objectID'[d] = o
    <2>0. o # NoObject
      BY OwnList
    <2>1. CASE o = id
      <3>1. Elements(myObjectComponents'[o]) = {} /\ Distinct(myObjectComponents'[o])
        BY <1>4, <2>1 DEF Elements, Distinct
      <3>2. QED
        BY <1>3, <2>0, <2>1, <3>1
    <2>2. CASE o # id
      BY <1>3, <1>4, <2>0, <2>2 DEF ListInv
    <2>3. QED
      BY <2>1, <2>2
  <1>6. /\ owned \ {id} \subseteq owned'
        /\ myActiveObjects' = myActiveObjects \ {id}
    BY DEF ReleaseObject, ClearsBit
  <1>7. QED
    BY <1>3, <1>5, <1>6 DEF ListInv

LEMMA ListReleaseAll ==
    ASSUME Room, ReleaseAllObjects PROVE ListInv'
  <1>1. \A id \in ObjectIDs : myObjectComponents'[id] = <<>> /\ id # NoObject
    BY RoomIDs, OwnList DEF ReleaseAllObjects
  <1>2. \A id \in ObjectIDs : Elements(myObjectComponents'[id]) = {}
                              /\ Distinct(myObjectComponents'[id])
    BY <1>1 DEF Elements, Distinct
  <1>3. QED
    BY <1>1, <1>2 DEF ReleaseAllObjects, ListInv

\* Everything else leaves the lists alone; identifiers are only added.
LEMMA ListKept ==
    ASSUME ListInv, UNCHANGED <<objectID, myObjectComponents>>,
           owned \subseteq owned', myActiveObjects' \subseteq owned'
    PROVE  ListInv'
  BY DEF ListInv

LEMMA ListNext ==
    ASSUME Room, TypeOK, ListInv, [Next]_vars PROVE ListInv'
  <1>1. CASE \E t \in Types, id \in owned : AddComponent(t, id)
    BY <1>1, ListAdd
  <1>2. CASE \E c \in Slots : ReleaseComponent(c)
    BY <1>2, ListReleaseComponent
  <1>3. CASE \E id \in owned : ReleaseObject(id)
    BY <1>3, ListReleaseObject
  <1>4. CASE ReleaseAllObjects
    BY <1>4, ListReleaseAll
  <1>5. CASE GetNewObjectID \/ \E n \in Reservations : ReserveNewObjectIDs(n)
    <2>1. /\ UNCHANGED <<objectID, myObjectComponents>>
          /\ owned \subseteq owned' /\ myActiveObjects' = myActiveObjects
      BY <1>5 DEF GetNewObjectID, ReuseObjectID, NewObjectID, ReserveNewObjectIDs, objectVars
    <2>2. QED
      BY <2>1, ListKept DEF ListInv
  <1>6. CASE \/ \E c \in Slots : ActivateComponent(c) \/ DeactivateComponent(c)
             \/ \E id \in owned, both \in BOOLEAN :
                   ActivateObject(id, both) \/ DeactivateObject(id, both)
    <2>1. UNCHANGED <<objectID, myObjectComponents, owned>>
      BY <1>6 DEF ActivateComponent, DeactivateComponent, ActivateObject,
                  DeactivateObject, identifierVars
    <2>2. myActiveObjects' \subseteq owned
      BY <1>6 DEF ActivateComponent, DeactivateComponent, ActivateObject,
                  DeactivateObject, ClearsBit, ListInv
    <2>3. QED
      BY <2>1, <2>2, ListKept
  <1>7. CASE \/ (\E t \in Types : CreateType(t)) \/ LockCreation
             \/ UpdateNext \/ UpdateReturns \/ UNCHANGED vars
    <2>1. UNCHANGED <<objectID, myObjectComponents, owned, myActiveObjects>>
      BY <1>7 DEF CreateType, LockCreation, UpdateNext, UpdateReturns, vars,
                  objectVars, identifierVars
    <2>2. QED
      BY <2>1, ListKept DEF ListInv
  <1>8. QED
    BY <1>1, <1>2, <1>3, <1>4, <1>5, <1>6, <1>7 DEF Next, Operation

LEMMA ListAlways == ASSUME Room PROVE Spec => [](TypeOK /\ ListInv)
  <1>1. Init => TypeOK /\ ListInv
    BY TypesInit, ListInit
  <1>2. TypeOK /\ ListInv /\ [Next]_vars => (TypeOK /\ ListInv)'
    BY TypesNext, ListNext
  <1>3. QED
    BY <1>1, <1>2, PTL DEF Spec

\* If Init made a list for every identifier, the lists of the objects and the
\* identifiers in the components always agree.
THEOREM ListsAgree == ASSUME Room PROVE Spec => []ListsMatchComponents
  BY ListAlways, ListInvImplies, PTL

\* An identifier that is given out again has no components and is not active.
THEOREM ReusedIDIsEmpty == ASSUME Room PROVE Spec => []NewObjectsAreEmpty
  BY ListAlways, ListInvImplies, PTL

-----------------------------------------------------------------------------
(***************************************************************************)
(* The scene                                                               *)
(***************************************************************************)

Shown(c) == active[c] /\ objectID[c] \in myActiveObjects

SceneInv == \A c \in Slots : instances[c] = IF Shown(c) THEN 1 ELSE 0

LEMMA SceneInit == Init => SceneInv
  BY DEF Init, SceneInv, Shown

LEMMA SceneKept ==
    ASSUME SceneInv, UNCHANGED objectVars PROVE SceneInv'
  BY DEF SceneInv, Shown, objectVars

LEMMA SceneAdd ==
    ASSUME ActiveFirst, Room, TypeOK, ListInv, SceneInv,
           NEW t \in Types, NEW id \in owned, AddComponent(t, id)
    PROVE  SceneInv'
  <1>1. PICK i \in Unused(t) :
            /\ objectID' = [objectID EXCEPT ![<<t, i>>] = id]
            /\ active' = [active EXCEPT ![<<t, i>>] = TRUE]
            /\ instances' = [instances EXCEPT ![<<t, i>>] = AddInstance(@)]
            /\ myActiveObjects' = myActiveObjects
    BY DEF AddComponent
  <1> DEFINE c == <<t, i>>
  <1>2. c \in Slots /\ objectID[c] = NoObject
    BY SlotOfType DEF Unused
  <1>3. NoObject \notin myActiveObjects /\ id \in myActiveObjects
    BY DEF AddComponent, TypeOK, ObjectIDs
  <1>4. instances[c] = 0
    BY <1>2, <1>3 DEF SceneInv, Shown
  <1> HIDE DEF c
  <1>5. \A d \in Slots : /\ objectID'[d] = IF d = c THEN id ELSE objectID[d]
                         /\ active'[d] <=> d = c \/ active[d]
                         /\ instances'[d] = IF d = c THEN 1 ELSE instances[d]
    BY <1>1, <1>2, <1>4 DEF TypeOK, AddInstance, c
  <1>6. myActiveObjects' = myActiveObjects
    BY <1>1
  <1>7. ASSUME NEW d \in Slots PROVE instances'[d] = IF Shown(d)' THEN 1 ELSE 0
    <2>1. CASE d = c
      <3>1. Shown(d)'
        BY <1>3, <1>5, <2>1, <1>6 DEF Shown
      <3>2. QED
        BY <1>5, <2>1, <3>1
    <2>2. CASE d # c
      <3>1. Shown(d)' <=> Shown(d)
        BY <1>5, <2>2, <1>6 DEF Shown
      <3>2. QED
        BY <1>5, <2>2, <3>1 DEF SceneInv
    <2>3. QED
      BY <2>1, <2>2
  <1>8. QED
    BY <1>7 DEF SceneInv

LEMMA SceneReleaseComponent ==
    ASSUME TypeOK, SceneInv, NEW c \in Slots, ReleaseComponent(c)
    PROVE  SceneInv'
  <1>1. RemoveInstance(instances[c]) = 0
    BY DEF SceneInv, RemoveInstance
  <1>2. \A d \in Slots : /\ objectID'[d] = IF d = c THEN NoObject ELSE objectID[d]
                         /\ active'[d] = IF d = c THEN FALSE ELSE active[d]
                         /\ instances'[d] = IF d = c THEN 0 ELSE instances[d]
    BY <1>1 DEF ReleaseComponent, TypeOK
  <1>3. myActiveObjects' = myActiveObjects
    BY DEF ReleaseComponent
  <1>4. QED
    BY <1>2, <1>3 DEF SceneInv, Shown

LEMMA SceneSetActive ==
    ASSUME ActiveFirst, TypeOK, SceneInv, NEW c \in Slots,
           ActivateComponent(c) \/ DeactivateComponent(c)
    PROVE  SceneInv'
  <1>1. UNCHANGED <<objectID, myActiveObjects>>
    BY DEF ActivateComponent, DeactivateComponent
  <1>2. CASE ActivateComponent(c)
    <2>1. instances[c] = 0 /\ objectID[c] \in myActiveObjects
      BY <1>2 DEF ActivateComponent, Activates, SceneInv, Shown
    <2>2. \A d \in Slots : /\ active'[d] = IF d = c THEN TRUE ELSE active[d]
                           /\ instances'[d] = IF d = c THEN 1 ELSE instances[d]
      BY <1>2, <2>1 DEF ActivateComponent, AddInstance, TypeOK
    <2>3. QED
      BY <1>1, <2>1, <2>2 DEF SceneInv, Shown
  <1>3. CASE DeactivateComponent(c)
    <2>1. RemoveInstance(instances[c]) = 0
      BY DEF SceneInv, RemoveInstance
    <2>2. \A d \in Slots : /\ active'[d] = IF d = c THEN FALSE ELSE active[d]
                           /\ instances'[d] = IF d = c THEN 0 ELSE instances[d]
      BY <1>3, <2>1 DEF DeactivateComponent, TypeOK
    <2>3. QED
      BY <1>1, <2>2 DEF SceneInv, Shown
  <1>4. QED
    BY <1>2, <1>3

LEMMA SceneReleaseObject ==
    ASSUME Room, TypeOK, ListInv, SceneInv, NEW id \in owned, ReleaseObject(id)
    PROVE  SceneInv'
  <1>1. id \in ObjectIDs /\ id # NoObject
    BY OwnList DEF TypeOK
  <1>2. \A c \in Slots : c \in ComponentsOf(id) <=> objectID[c] = id
    BY <1>1, OwnList DEF ListInv
  <1>3. \A c \in Slots : RemoveInstance(instances[c]) = 0
    BY DEF SceneInv, RemoveInstance
  <1>4. \A c \in Slots :
            /\ objectID'[c] = IF objectID[c] = id THEN NoObject ELSE objectID[c]
            /\ active'[c] = (active[c] /\ objectID[c] # id)
            /\ instances'[c] = IF objectID[c] = id THEN 0 ELSE instances[c]
    BY <1>1, <1>2, <1>3 DEF ReleaseObject
  <1>5. myActiveObjects' = myActiveObjects \ {id}
    BY DEF ReleaseObject, ClearsBit
  <1>6. QED
    BY <1>4, <1>5 DEF SceneInv, Shown

LEMMA SceneReleaseAll ==
    ASSUME TypeOK, SceneInv, ReleaseAllObjects PROVE SceneInv'
  <1>1. \A c \in Slots : /\ RemoveInstance(instances[c]) = 0
                         /\ objectID[c] = NoObject => instances[c] = 0
    BY DEF SceneInv, Shown, RemoveInstance, TypeOK, ObjectIDs
  <1>2. QED
    BY <1>1 DEF ReleaseAllObjects, SceneInv, Shown

LEMMA SceneActivateObject ==
    ASSUME Room, TypeOK, ListInv, SceneInv, NEW id \in owned, NEW both \in BOOLEAN,
           ActivateObject(id, both) \/ DeactivateObject(id, both)
    PROVE  SceneInv'
  <1>1. \A c \in Slots : c \in ComponentsOf(id) <=> objectID[c] = id
    BY OwnList DEF TypeOK, ListInv
  <1>2. UNCHANGED objectID
    BY DEF ActivateObject, DeactivateObject
  <1>3. CASE ActivateObject(id, both)
    <2>1. /\ id \notin myActiveObjects
          /\ myActiveObjects' = myActiveObjects \cup {id}
      BY <1>3 DEF ActivateObject
    <2>2. \A c \in Slots :
              /\ active'[c] = (active[c] \/ (both /\ objectID[c] = id))
              /\ instances'[c] = IF objectID[c] = id /\ (active[c] \/ both)
                                 THEN instances[c] + 1 ELSE instances[c]
      BY <1>1, <1>3 DEF ActivateObject, AddInstance
    <2>3. ASSUME NEW c \in Slots PROVE instances'[c] = IF Shown(c)' THEN 1 ELSE 0
      <3>1. CASE objectID[c] = id
        <4>1. ~Shown(c) /\ (Shown(c)' <=> active[c] \/ both)
          BY <1>2, <2>1, <2>2, <3>1 DEF Shown
        <4>2. instances[c] = 0
          BY <4>1 DEF SceneInv
        <4>3. QED
          BY <2>2, <3>1, <4>1, <4>2
      <3>2. CASE objectID[c] # id
        <4>1. (Shown(c)' <=> Shown(c)) /\ instances'[c] = instances[c]
          BY <1>2, <2>1, <2>2, <3>2 DEF Shown
        <4>2. QED
          BY <4>1 DEF SceneInv
      <3>3. QED
        BY <3>1, <3>2
    <2>4. QED
      BY <2>3 DEF SceneInv
  <1>4. CASE DeactivateObject(id, both)
    <2>1. myActiveObjects' = myActiveObjects \ {id}
      BY <1>4 DEF DeactivateObject, ClearsBit
    <2>2. \A c \in Slots : /\ RemoveInstance(instances[c]) = 0
                           /\ RemoveInstance(RemoveInstance(instances[c])) = 0
      BY DEF SceneInv, RemoveInstance
    <2>3. \A c \in Slots :
              /\ active'[c] = (active[c] /\ ~(both /\ objectID[c] = id))
              /\ instances'[c] = IF objectID[c] = id /\ active[c] THEN 0 ELSE instances[c]
      BY <1>1, <1>4, <2>2 DEF DeactivateObject
    <2>4. QED
      BY <1>2, <2>1, <2>3 DEF SceneInv, Shown
  <1>5. QED
    BY <1>3, <1>4

LEMMA SceneNext ==
    ASSUME ActiveFirst, Room, TypeOK, ListInv, SceneInv, [Next]_vars PROVE SceneInv'
  <1>1. CASE \E t \in Types, id \in owned : AddComponent(t, id)
    BY <1>1, SceneAdd
  <1>2. CASE \E c \in Slots : ReleaseComponent(c) \/ ActivateComponent(c)
                              \/ DeactivateComponent(c)
    BY <1>2, SceneReleaseComponent, SceneSetActive
  <1>3. CASE \E id \in owned : ReleaseObject(id)
    BY <1>3, SceneReleaseObject
  <1>4. CASE ReleaseAllObjects
    BY <1>4, SceneReleaseAll
  <1>5. CASE \E id \in owned, both \in BOOLEAN :
                 ActivateObject(id, both) \/ DeactivateObject(id, both)
    BY <1>5, SceneActivateObject
  <1>6. CASE UNCHANGED objectVars
    BY <1>6, SceneKept
  <1>7. CASE UNCHANGED vars
    BY <1>7, SceneKept DEF vars
  <1>8. QED
    BY <1>1, <1>2, <1>3, <1>4, <1>5, <1>6, <1>7
    DEF Next, Operation, CreateType, LockCreation, GetNewObjectID, ReuseObjectID,
        NewObjectID, ReserveNewObjectIDs, UpdateNext, UpdateReturns

\* A program that adds and activates components only in active objects sees
\* each component in the scene exactly while it and its object are active.
THEOREM SceneIsRight == ASSUME Room PROVE Spec => []SceneMatches
  <1>1. CASE ActiveFirst
    <2>1. Init => TypeOK /\ ListInv /\ SceneInv
      BY TypesInit, ListInit, SceneInit
    <2>2. TypeOK /\ ListInv /\ SceneInv /\ [Next]_vars => (TypeOK /\ ListInv /\ SceneInv)'
      BY <1>1, TypesNext, ListNext, SceneNext
    <2>3. SceneInv => SceneMatches
      BY DEF SceneInv, Shown, SceneMatches
    <2>4. QED
      BY <2>1, <2>2, <2>3, PTL DEF Spec
  <1>2. CASE ~ActiveFirst
    <2>1. SceneMatches
      BY <1>2 DEF SceneMatches
    <2>2. QED
      BY <2>1, PTL
  <1>3. QED
    BY <1>1, <1>2

-----------------------------------------------------------------------------
(***************************************************************************)
(* The manager implements the abstract store                               *)
(***************************************************************************)

USE DEF Store!NoOwner

LEMMA StoreInit == Init => Store!Init
  <1> SUFFICES ASSUME Init PROVE Store!Init
    OBVIOUS
  <1>1. LiveIDs = ConstantIDs
    BY DEF Init, LiveIDs, ConstantIDs, Elements
  <1>2. QED
    BY <1>1 DEF Init, Store!Init

LEMMA StoreCreate ==
    ASSUME Room, TypeOK, ListInv, IdentifierInv, IdentifierInv',
           GetNewObjectID \/ \E n \in Reservations : ReserveNewObjectIDs(n)
    PROVE  Store!Create
  <1>1. owned \subseteq owned' /\ UNCHANGED objectID
    BY DEF GetNewObjectID, ReuseObjectID, NewObjectID, ReserveNewObjectIDs, objectVars
  <1>2. \A c \in Slots : objectID[c] \notin owned' \ owned
    <2>1. \A c \in Slots : objectID[c] # NoObject => objectID[c] \in owned
      BY DEF ListInv
    <2>2. NoObject \notin owned'
      BY DEF IdentifierInv, LiveIDs
    <2>3. QED
      BY <2>1, <2>2
  <1>3. LiveIDs = owned /\ LiveIDs' = owned'
    BY DEF IdentifierInv
  <1>4. QED
    BY <1>1, <1>2, <1>3 DEF Store!Create

LEMMA StoreAttach ==
    ASSUME TypeOK, IdentifierInv, NEW t \in Types, NEW id \in owned, AddComponent(t, id)
    PROVE  Store!Attach
  <1>1. PICK i \in Unused(t) : objectID' = [objectID EXCEPT ![<<t, i>>] = id]
    BY DEF AddComponent
  <1>2. <<t, i>> \in Slots /\ objectID[<<t, i>>] = NoObject
    BY SlotOfType DEF Unused
  <1>3. id \in LiveIDs
    BY DEF IdentifierInv
  <1>4. LiveIDs' = LiveIDs
    BY DEF AddComponent, identifierVars, LiveIDs
  <1>5. QED
    BY <1>1, <1>2, <1>3, <1>4 DEF Store!Attach

LEMMA StoreDestroy ==
    ASSUME Room, TypeOK, ListInv, IdentifierInv, IdentifierInv',
           NEW id \in owned, ReleaseObject(id)
    PROVE  Store!Destroy
  <1>1. \A c \in Slots : c \in ComponentsOf(id) <=> objectID[c] = id
    BY OwnList DEF TypeOK, ListInv
  <1>2. objectID' = [c \in Slots |-> IF objectID[c] = id THEN NoObject ELSE objectID[c]]
    BY <1>1 DEF ReleaseObject
  <1>3. id \in LiveIDs /\ LiveIDs' = LiveIDs \ ({id} \ ConstantIDs)
    BY DEF IdentifierInv, ReleaseObject
  <1>4. QED
    BY <1>2, <1>3 DEF Store!Destroy

LEMMA StoreNext ==
    ASSUME Room, TypeOK, ListInv, IdentifierInv, IdentifierInv', [Next]_vars
    PROVE  [Store!Next]_<<LiveIDs, objectID>>
  <1>1. CASE \E t \in Types, id \in owned : AddComponent(t, id)
    BY <1>1, StoreAttach DEF Store!Next
  <1>2. CASE \E c \in Slots : ReleaseComponent(c)
    BY <1>2 DEF ReleaseComponent, identifierVars, LiveIDs, Store!Next, Store!Detach
  <1>3. CASE \E id \in owned : ReleaseObject(id)
    BY <1>3, StoreDestroy DEF Store!Next
  <1>4. CASE ReleaseAllObjects
    <2>1. LiveIDs' = ConstantIDs
      BY <1>4 DEF ReleaseAllObjects, IdentifierInv
    <2>2. QED
      BY <1>4, <2>1 DEF ReleaseAllObjects, Store!Next, Store!DestroyAll
  <1>5. CASE GetNewObjectID \/ \E n \in Reservations : ReserveNewObjectIDs(n)
    BY <1>5, StoreCreate DEF Store!Next
  <1>6. CASE UNCHANGED <<objectID, identifierVars>>
    BY <1>6 DEF identifierVars, LiveIDs
  <1>7. CASE UNCHANGED vars
    BY <1>7 DEF vars, objectVars, identifierVars, LiveIDs
  <1>8. QED
    BY <1>1, <1>2, <1>3, <1>4, <1>5, <1>6, <1>7
    DEF Next, Operation, CreateType, LockCreation, ActivateComponent,
        DeactivateComponent, ActivateObject, DeactivateObject, UpdateNext,
        UpdateReturns, objectVars

\* Every behaviour of the manager is a behaviour of the abstract store: a new
\* object starts empty, an object goes with all its components, and a
\* component never belongs to an object that is gone.
THEOREM Refinement == ASSUME Room PROVE Spec => ImplementsObjectStore
  <1>1. Init => TypeOK /\ ListInv /\ IdentifierInv
    BY TypesInit, ListInit, IdentifierInit
  <1>2. TypeOK /\ ListInv /\ IdentifierInv /\ [Next]_vars
          => (TypeOK /\ ListInv /\ IdentifierInv)'
    BY TypesNext, ListNext, IdentifierNext
  <1>3. TypeOK /\ ListInv /\ IdentifierInv /\ (IdentifierInv)' /\ [Next]_vars
          => [Store!Next]_<<LiveIDs, objectID>>
    BY StoreNext
  <1>4. Spec => Store!Init /\ [][Store!Next]_<<LiveIDs, objectID>>
    BY <1>1, <1>2, <1>3, StoreInit, PTL DEF Spec
  <1>5. QED
    BY <1>4 DEF ImplementsObjectStore, Store!Spec

-----------------------------------------------------------------------------
\* The records of objects agree, for any types and amounts, if every identifier
\* has its list.
THEOREM RecordsAgree == ASSUME Room PROVE Spec => []ComponentManagerInv
  <1>1. TypeOK /\ OneHolderPerID /\ ListsMatchComponents /\ NewObjectsAreEmpty
          => ComponentManagerInv
    BY DEF ComponentManagerInv
  <1>2. QED
    BY <1>1, TypeCorrect, IdentifiersHaveOneHolder, ListsAgree, ReusedIDIsEmpty, PTL

-----------------------------------------------------------------------------
(***************************************************************************)
(* Update                                                                  *)
(***************************************************************************)

\* The inductive invariant: who has an object is of a type that was created, so
\* its place in memory is known; and who was to be updated ever since Update
\* began either has been called or comes after the component at the cursor.
OfCreatedTypes == \A c \in Slots : objectID[c] # NoObject => c[1] \in Elements(myDataInfo)
SteadyAreAhead ==
    cursor # NoSlot =>
        steady \subseteq Eligible /\ \A c \in steady : c \in updated \/ Before(cursor, c)
WalkInv == OfCreatedTypes /\ SteadyAreAhead

LEMMA SmallestNumber ==
    ASSUME NEW D, D \subseteq Nat, D # {}
    PROVE  \E m \in D : \A n \in D : m <= n
  <1> DEFINE Intervals == {0 .. d : d \in D}
  <1>1. Intervals \subseteq FiniteSubsetsOf(Nat) /\ Intervals # {}
    <2>1. \A d \in D : IsFiniteSet(0 .. d)
      BY FS_Interval
    <2>2. \A d \in D : 0 .. d \subseteq Nat
      OBVIOUS
    <2>3. QED
      BY <2>1, <2>2 DEF FiniteSubsetsOf
  <1>2. PICK T \in Intervals : \A U \in Intervals : ~(<<U, T>> \in StrictSubsetOrdering(Nat))
    BY <1>1, FS_StrictSubsetOrderingWellFounded, WFMin
  <1>3. PICK m \in D : T = 0 .. m
    OBVIOUS
  <1>4. ASSUME NEW n \in D, n < m PROVE FALSE
    <2>1. 0 .. n \subseteq 0 .. m /\ 0 .. n # 0 .. m
      BY <1>4
    <2>2. <<0 .. n, 0 .. m>> \in StrictSubsetOrdering(Nat)
      BY <2>1 DEF StrictSubsetOrdering
    <2>3. QED
      BY <1>2, <1>3, <2>2
  <1>5. QED
    BY <1>4

LEMMA SlotParts ==
    ASSUME NEW c \in Slots
    PROVE  c = <<c[1], c[2]>> /\ c[1] \in Types /\ c[2] \in Nat
  <1>1. PICK t \in Types : c \in {t} \X (1 .. Amount[t])
    BY DEF Slots
  <1>2. Amount[t] \in Nat
    BY TypesAssumption
  <1>3. QED
    BY <1>1, <1>2

LEMMA PositionFacts ==
    ASSUME TypeOK, NEW t \in Elements(myDataInfo)
    PROVE  TypePosition(t) \in Nat /\ myDataInfo[TypePosition(t)] = t
  <1>1. \E i \in 1 .. Len(myDataInfo) : myDataInfo[i] = t
    BY DEF Elements
  <1>2. /\ TypePosition(t) \in 1 .. Len(myDataInfo)
        /\ myDataInfo[TypePosition(t)] = t
    BY <1>1 DEF TypePosition
  <1>3. QED
    BY <1>2

\* What is left of the walk has a first component.
LEMMA FirstRemaining ==
    ASSUME TypeOK, OfCreatedTypes, Remaining # {}
    PROVE  \E c \in Slots : UpdatedNext(c)
  <1>1. ASSUME NEW c \in Remaining
        PROVE  /\ c \in Slots /\ c = <<c[1], c[2]>> /\ c[1] \in Elements(myDataInfo)
               /\ c[2] \in Nat /\ TypePosition(c[1]) \in Nat
               /\ myDataInfo[TypePosition(c[1])] = c[1]
    <2>1. c \in Slots /\ objectID[c] # NoObject
      BY DEF Remaining, Eligible
    <2>2. c[1] \in Elements(myDataInfo)
      BY <2>1 DEF OfCreatedTypes
    <2>3. QED
      BY <2>1, <2>2, SlotParts, PositionFacts
  <1> DEFINE Positions == {TypePosition(c[1]) : c \in Remaining}
  <1>2. Positions \subseteq Nat /\ Positions # {}
    BY <1>1
  <1>3. PICK p \in Positions : \A q \in Positions : p <= q
    BY <1>2, SmallestNumber
  <1>4. PICK b \in Remaining : TypePosition(b[1]) = p
    OBVIOUS
  <1> DEFINE Numbers == {c[2] : c \in {d \in Remaining : d[1] = b[1]}}
  <1>5. Numbers \subseteq Nat /\ Numbers # {}
    BY <1>1, <1>4
  <1>6. PICK n \in Numbers : \A k \in Numbers : n <= k
    BY <1>5, SmallestNumber
  <1>7. PICK a \in Remaining : a[1] = b[1] /\ a[2] = n
    OBVIOUS
  <1>8. ASSUME NEW d \in Remaining \ {a} PROVE Before(a, d)
    <2>1. CASE d[1] = a[1]
      <3>1. d[2] \in Numbers
        BY <1>7, <2>1
      <3>2. n <= d[2] /\ d[2] # n
        BY <1>1, <1>6, <1>7, <2>1, <3>1
      <3>3. a[2] < d[2]
        BY <1>1, <1>7, <3>2
      <3>4. QED
        BY <2>1, <3>3 DEF Before
    <2>2. CASE d[1] # a[1]
      <3>1. p <= TypePosition(d[1])
        BY <1>3
      <3>2. TypePosition(a[1]) = p
        BY <1>4, <1>7
      <3>3. TypePosition(d[1]) # TypePosition(a[1])
        BY <1>1, <2>2
      <3>4. TypePosition(d[1]) \in Nat /\ TypePosition(a[1]) \in Nat
        BY <1>1
      <3>5. TypePosition(a[1]) < TypePosition(d[1])
        BY <3>1, <3>2, <3>3, <3>4
      <3>6. QED
        BY <3>5 DEF Before
    <2>3. QED
      BY <2>1, <2>2
  <1>9. QED
    BY <1>1, <1>8 DEF UpdatedNext

LEMMA MoreTypes ==
    ASSUME TypeOK, Operation
    PROVE  /\ UNCHANGED <<cursor, updated>>
           /\ cursor # NoSlot => UNCHANGED myDataInfo
           /\ Elements(myDataInfo) \subseteq Elements(myDataInfo')
  <1>1. ASSUME NEW t \in Types, CreateType(t)
        PROVE  UNCHANGED updateVars /\ cursor = NoSlot
               /\ Elements(myDataInfo) \subseteq Elements(myDataInfo')
    BY <1>1, AppendElement DEF CreateType, TypeOK
  <1>2. LockCreation => UNCHANGED <<updateVars, myDataInfo>>
    BY DEF LockCreation
  <1>3. GetNewObjectID => UNCHANGED <<updateVars, typeVars>>
    BY DEF GetNewObjectID, ReuseObjectID, NewObjectID
  <1>4. \A n \in Reservations : ReserveNewObjectIDs(n) => UNCHANGED <<updateVars, typeVars>>
    BY DEF ReserveNewObjectIDs
  <1>5. \A t \in Types, id \in owned : AddComponent(t, id) => UNCHANGED <<updateVars, typeVars>>
    BY DEF AddComponent
  <1>6. \A c \in Slots : ReleaseComponent(c) \/ ActivateComponent(c) \/ DeactivateComponent(c)
            => UNCHANGED <<updateVars, typeVars>>
    BY DEF ReleaseComponent, ActivateComponent, DeactivateComponent
  <1>7. \A id \in owned : ReleaseObject(id) => UNCHANGED <<updateVars, typeVars>>
    BY DEF ReleaseObject
  <1>8. ReleaseAllObjects => UNCHANGED <<updateVars, typeVars>>
    BY DEF ReleaseAllObjects
  <1>9. \A id \in owned, both \in BOOLEAN :
            ActivateObject(id, both) \/ DeactivateObject(id, both)
                => UNCHANGED <<updateVars, typeVars>>
    BY DEF ActivateObject, DeactivateObject
  <1>10. QED
    BY <1>1, <1>2, <1>3, <1>4, <1>5, <1>6, <1>7, <1>8, <1>9
    DEF Operation, updateVars, typeVars, Elements

\* An operation gives objects to components of created types only.
LEMMA OwnersAreCreated ==
    ASSUME TypeOK, OfCreatedTypes, Operation
    PROVE  OfCreatedTypes'
  <1>1. Elements(myDataInfo) \subseteq Elements(myDataInfo')
    BY MoreTypes
  <1>2. ASSUME NEW t \in Types, NEW id \in owned, AddComponent(t, id),
               NEW c \in Slots, objectID'[c] # NoObject, objectID[c] = NoObject
        PROVE  c[1] \in Elements(myDataInfo)
    <2>1. PICK i \in Unused(t) : objectID' = [objectID EXCEPT ![<<t, i>>] = id]
      BY <1>2 DEF AddComponent
    <2>2. c = <<t, i>>
      BY <1>2, <2>1 DEF TypeOK
    <2>3. QED
      BY <1>2, <2>2 DEF AddComponent
  <1>3. \A c \in Slots : objectID'[c] # NoObject /\ objectID[c] = NoObject
            => c[1] \in Elements(myDataInfo)
    <2>1. ASSUME NEW c \in Slots, objectID'[c] # NoObject, objectID[c] = NoObject,
                 ~ \E t \in Types, id \in owned : AddComponent(t, id)
          PROVE  FALSE
      <3>1. CASE UNCHANGED objectID
        BY <2>1, <3>1
      <3>2. CASE \E d \in Slots : ReleaseComponent(d)
        BY <2>1, <3>2 DEF ReleaseComponent, TypeOK
      <3>3. CASE \E id \in owned : ReleaseObject(id)
        BY <2>1, <3>3 DEF ReleaseObject
      <3>4. CASE ReleaseAllObjects
        BY <2>1, <3>4 DEF ReleaseAllObjects
      <3>5. QED
        BY <2>1, <3>1, <3>2, <3>3, <3>4
        DEF Operation, CreateType, LockCreation, GetNewObjectID, ReuseObjectID, NewObjectID,
            ReserveNewObjectIDs, ActivateComponent, DeactivateComponent, ActivateObject,
            DeactivateObject, objectVars
    <2>2. QED
      BY <1>2, <2>1
  <1>4. QED
    BY <1>1, <1>3 DEF OfCreatedTypes

LEMMA WalkStart == TypeOK /\ Init => WalkInv
  BY DEF Init, WalkInv, OfCreatedTypes, SteadyAreAhead

LEMMA WalkOperation ==
    ASSUME TypeOK, WalkInv, Operation, Watch
    PROVE  WalkInv'
  <1>1. OfCreatedTypes'
    BY OwnersAreCreated DEF WalkInv
  <1>2. ASSUME cursor' # NoSlot
        PROVE  steady' \subseteq Eligible' /\ \A c \in steady' : c \in updated' \/ Before(cursor, c)'
    <2>1. cursor # NoSlot /\ UNCHANGED <<cursor, updated, myDataInfo>>
      BY <1>2, MoreTypes
    <2>2. steady' = steady \cap Eligible'
      BY <2>1 DEF Watch
    <2>3. \A c : Before(cursor, c)' <=> Before(cursor, c)
      BY <2>1 DEF Before, TypePosition
    <2>4. QED
      BY <2>1, <2>2, <2>3 DEF WalkInv, SteadyAreAhead
  <1>3. QED
    BY <1>1, <1>2 DEF WalkInv, SteadyAreAhead

LEMMA WalkNext ==
    ASSUME TypeOK, WalkInv, UpdateNext, Watch
    PROVE  WalkInv'
  <1>1. PICK c \in Slots : UpdatedNext(c) /\ cursor' = c /\ updated' = updated \cup {c}
    BY DEF UpdateNext
  <1>2. UNCHANGED <<objectVars, typeVars>>
    BY DEF UpdateNext
  <1>3. UNCHANGED <<objectID, active, myActiveObjects, myDataInfo>>
    BY <1>2 DEF objectVars, typeVars
  <1>4. OfCreatedTypes'
    BY <1>3 DEF WalkInv, OfCreatedTypes, Elements
  <1>5. Eligible' = Eligible
    BY <1>3 DEF Eligible
  <1>6. \A d : Before(cursor, d)' <=> Before(c, d)
    BY <1>1, <1>3 DEF Before, TypePosition
  <1>7. \A d \in Remaining \ {c} : Before(c, d)
    BY <1>1 DEF UpdatedNext
  <1>8. ASSUME cursor' # NoSlot
        PROVE  steady' \subseteq Eligible' /\ \A d \in steady' : d \in updated' \/ Before(cursor, d)'
    <2>1. CASE cursor = NoSlot
      <3>1. steady' = Eligible /\ Remaining = Eligible
        BY <1>5, <1>8, <2>1 DEF Watch, Remaining
      <3>2. QED
        BY <1>1, <1>5, <1>6, <1>7, <3>1
    <2>2. CASE cursor # NoSlot
      <3>1. steady' = steady \cap Eligible
        BY <1>5, <1>8, <2>2 DEF Watch
      <3>2. \A d \in steady : d \in updated \/ Before(cursor, d)
        BY <2>2 DEF WalkInv, SteadyAreAhead
      <3>3. \A d \in Eligible : Before(cursor, d) => d \in Remaining
        BY DEF Remaining
      <3>4. QED
        BY <1>1, <1>5, <1>6, <1>7, <3>1, <3>2, <3>3
    <2>3. QED
      BY <2>1, <2>2
  <1>9. QED
    BY <1>4, <1>8 DEF WalkInv, SteadyAreAhead

LEMMA WalkStep ==
    ASSUME TypeOK, WalkInv, [Next]_vars
    PROVE  WalkInv'
  <1>1. CASE Operation /\ Watch
    BY <1>1, WalkOperation
  <1>2. CASE UpdateNext /\ Watch
    BY <1>2, WalkNext
  <1>3. CASE UpdateReturns
    <2>1. cursor' = NoSlot /\ UNCHANGED <<objectID, myDataInfo>>
      BY <1>3 DEF UpdateReturns, objectVars, typeVars
    <2>2. QED
      BY <2>1 DEF WalkInv, OfCreatedTypes, SteadyAreAhead, Elements
  <1>4. CASE UNCHANGED vars
    <2>1. UNCHANGED <<objectID, active, myActiveObjects, myDataInfo, cursor, updated, steady>>
      BY <1>4 DEF vars, objectVars, typeVars, updateVars
    <2>2. OfCreatedTypes'
      BY <2>1 DEF WalkInv, OfCreatedTypes, Elements
    <2>3. SteadyAreAhead'
      BY <2>1 DEF WalkInv, SteadyAreAhead, Eligible, Before, TypePosition
    <2>4. QED
      BY <2>2, <2>3 DEF WalkInv
  <1>5. QED
    BY <1>1, <1>2, <1>3, <1>4 DEF Next

\* When Update returns nobody is left who was ahead of the cursor.
LEMMA SteadyAreUpdated ==
    ASSUME TypeOK, WalkInv, [Next]_vars, cursor # NoSlot, cursor' = NoSlot
    PROVE  steady \subseteq updated
  <1>1. UpdateReturns
    <2>1. ~UNCHANGED vars
      BY DEF vars, updateVars
    <2>2. ~Operation
      BY MoreTypes
    <2>3. \A c \in Slots : c # NoSlot
      BY SlotParts DEF NoSlot
    <2>4. ~UpdateNext
      BY <2>3 DEF UpdateNext
    <2>5. QED
      BY <2>1, <2>2, <2>4 DEF Next
  <1>2. Remaining = {}
    BY <1>1, FirstRemaining DEF UpdateReturns, WalkInv
  <1>3. QED
    BY <1>2 DEF WalkInv, SteadyAreAhead, Remaining

\* Update calls every component that is to be updated from its beginning to its
\* end, whatever components are added, released or activated by those it calls,
\* for any types and amounts (ComponentManager.cpp:56-75).
THEOREM UpdateSkipsNobody == Spec => SteadyComponentsUpdated
  <1>1. Init => TypeOK /\ WalkInv
    BY TypesInit, WalkStart
  <1>2. (TypeOK /\ WalkInv) /\ [Next]_vars => (TypeOK /\ WalkInv)'
    BY TypesNext, WalkStep
  <1>3. (TypeOK /\ WalkInv) /\ [Next]_vars
            => [cursor # NoSlot /\ cursor' = NoSlot => steady \subseteq updated]_vars
    BY SteadyAreUpdated
  <1>4. QED
    BY <1>1, <1>2, <1>3, PTL DEF Spec, SteadyComponentsUpdated
=============================================================================
