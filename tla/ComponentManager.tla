-------------------------- MODULE ComponentManager --------------------------
(***************************************************************************)
(* The component system (ComponentSystem/ComponentManager.cpp): objects    *)
(* are identifiers, components are slots in memory created once per type.  *)
(* Each object has a list of its components, each component the identifier *)
(* of its object, and released identifiers wait on a stack.                *)
(*                                                                         *)
(* The manager is single-threaded.  Its operations are called by the       *)
(* program, or by a component while Update walks over all of them.         *)
(* Components behave like ModelComponent, which shows itself in the scene  *)
(* when it is added or activated; the other components keep less state.    *)
(* This is the release build: what an assert refuses is what the guard     *)
(* behind it makes of it.                                                  *)
(***************************************************************************)
EXTENDS Integers, Sequences

CONSTANTS
    Types,                 \* component types
    Amount,                \* aAmount: slots per type
    UpdatedTypes,          \* types created with aShouldUpdate
    ObjectAmount,          \* aObjectAmount, the size of myObjectComponents
    ConstantObjectAmount,  \* aConstantObjectAmount
    MaxObjectAmount,       \* ourMaxObjectAmount, the size of the bit set
    Reservations,          \* amounts the program reserves
    ActiveFirst,           \* the program adds and activates components only
                           \* in active objects
    InstanceLimit          \* bound on the entries of a component in the scene,
                           \* not in the code

ASSUME TypesAssumption == UpdatedTypes \subseteq Types /\ Amount \in [Types -> Nat]
ASSUME ObjectAssumption ==
    /\ ObjectAmount \in Nat \ {0} /\ ConstantObjectAmount \in Nat
    /\ MaxObjectAmount \in Nat
    /\ ConstantObjectAmount <= ObjectAmount
    /\ ObjectAmount <= MaxObjectAmount
ASSUME CallerAssumption ==
    Reservations \subseteq Nat /\ ActiveFirst \in BOOLEAN /\ InstanceLimit \in Nat

VARIABLES
    myDataInfo,          \* the types created so far, in order
    objectID,            \* Component::myObjectID of every slot
    active,              \* Component::myActive of every slot
    myObjectComponents,  \* the components of each object
    myActiveObjects,     \* the identifiers whose bit is set
    myObjectIDs,         \* released identifiers; the last one is used first
    myNextObjectID,
    myCreationLocked,
    instances,           \* entries of each component in Scene::myModels
    cursor,              \* the component whose Update is being called
    owned,               \* history: identifiers the program holds
    updated,             \* history: components this Update has called
    steady               \* history: components to be called ever since it began

objectVars == <<objectID, active, myObjectComponents, myActiveObjects, instances>>
identifierVars == <<myObjectIDs, myNextObjectID, owned>>
typeVars == <<myDataInfo, myCreationLocked>>
updateVars == <<cursor, updated>>
vars == <<objectVars, identifierVars, typeVars, updateVars, steady>>

-----------------------------------------------------------------------------
NoObject == -1

\* A component: its type and its place among the components of that type.
Slots == UNION {{t} \X (1 .. Amount[t]) : t \in Types}
NoSlot == <<>>

ObjectIDs == 0 .. MaxObjectAmount - 1
ConstantIDs == 0 .. ConstantObjectAmount - 1

Elements(s) == {s[i] : i \in 1 .. Len(s)}

\* GrowingArray::operator[] answers the first entry when the index is out of scope.
ListIndex(id) == IF id < ObjectAmount THEN id ELSE 0

ComponentsOf(id) == Elements(myObjectComponents[ListIndex(id)])

\* Identifiers given out by the counter and not on the stack.
LiveIDs == (0 .. myNextObjectID - 1) \ Elements(myObjectIDs)

(***************************************************************************)
(* The pieces the operations are made of.  Where a faulty variant stands   *)
(* before an operator, it is the mistake a property must notice; the       *)
(* specification does not use it.                                          *)
(***************************************************************************)

\* Find, then RemoveCyclicAtIndex: the last element takes the place of x.
RemoveCyclic(s, x) ==
    [i \in 1 .. Len(s) - 1 |-> IF s[i] = x THEN s[Len(s)] ELSE s[i]]

AddInstance(n) == n + 1
RemoveInstance(n) == IF n > 0 THEN n - 1 ELSE 0

RecycledAlways(id) == Append(myObjectIDs, id)

\* The stack after the release of an object: constant objects are not reused.
Recycled(id) ==
    IF id >= ConstantObjectAmount THEN Append(myObjectIDs, id) ELSE myObjectIDs

ClearsBit(id) == myActiveObjects \ {id}

KeepsStack == myObjectIDs

\* The stack after ReleaseAllObjects.
EmptyStack == <<>>

IDsLeft == myNextObjectID < MaxObjectAmount

ActivatesAgain(c) == TRUE

\* The Activate message does nothing to a component that is active.
Activates(c) == ~active[c]

-----------------------------------------------------------------------------
Init ==
    /\ myDataInfo = <<>>
    /\ objectID = [c \in Slots |-> NoObject]
    /\ active = [c \in Slots |-> FALSE]
    /\ myObjectComponents = [id \in 0 .. ObjectAmount - 1 |-> <<>>]
    /\ myActiveObjects = {}
    /\ myObjectIDs = <<>>
    /\ myNextObjectID = ConstantObjectAmount
    /\ myCreationLocked = FALSE
    /\ instances = [c \in Slots |-> 0]
    /\ cursor = NoSlot
    /\ owned = ConstantIDs
    /\ updated = {}
    /\ steady = {}

-----------------------------------------------------------------------------
(***************************************************************************)
(* Types.  CreateType moves all components, so no component may call it.   *)
(***************************************************************************)

CreateType(t) ==
    /\ cursor = NoSlot
    /\ ~myCreationLocked
    /\ t \notin Elements(myDataInfo)
    /\ myDataInfo' = Append(myDataInfo, t)
    /\ UNCHANGED <<objectVars, identifierVars, myCreationLocked, updateVars>>

LockCreation ==
    /\ myCreationLocked' = TRUE
    /\ UNCHANGED <<objectVars, identifierVars, myDataInfo, updateVars>>

-----------------------------------------------------------------------------
(***************************************************************************)
(* Identifiers                                                             *)
(***************************************************************************)

ReuseObjectID ==
    /\ myObjectIDs # <<>>
    /\ owned' = owned \cup {myObjectIDs[Len(myObjectIDs)]}
    /\ myObjectIDs' = [i \in 1 .. Len(myObjectIDs) - 1 |-> myObjectIDs[i]]
    /\ UNCHANGED <<objectVars, myNextObjectID, typeVars, updateVars>>

NewObjectID ==
    /\ myObjectIDs = <<>>
    /\ IDsLeft
    /\ owned' = owned \cup {myNextObjectID}
    /\ myNextObjectID' = myNextObjectID + 1
    /\ UNCHANGED <<objectVars, myObjectIDs, typeVars, updateVars>>

GetNewObjectID == ReuseObjectID \/ NewObjectID

\* One identifier comes from GetNewObjectID; more are a run of new ones.
ReserveNewObjectIDs(aAmount) ==
    /\ aAmount > 1
    /\ myNextObjectID + aAmount <= MaxObjectAmount
    /\ owned' = owned \cup (myNextObjectID .. myNextObjectID + aAmount - 1)
    /\ myNextObjectID' = myNextObjectID + aAmount
    /\ UNCHANGED <<objectVars, myObjectIDs, typeVars, updateVars>>

-----------------------------------------------------------------------------
(***************************************************************************)
(* Components                                                              *)
(***************************************************************************)

\* The first unused component of the type.
Unused(t) == {i \in 1 .. Amount[t] : objectID[<<t, i>>] = NoObject}

AddComponent(t, id) ==
    /\ id \in owned
    /\ ActiveFirst => id \in myActiveObjects
    /\ t \in Elements(myDataInfo)
    /\ \E i \in Unused(t) :
          /\ \A j \in Unused(t) : i <= j
          /\ objectID' = [objectID EXCEPT ![<<t, i>>] = id]
          /\ active' = [active EXCEPT ![<<t, i>>] = TRUE]
          /\ instances' = [instances EXCEPT ![<<t, i>>] = AddInstance(@)]
          /\ instances[<<t, i>>] < InstanceLimit
          /\ myObjectComponents' =
               [myObjectComponents EXCEPT ![ListIndex(id)] = Append(@, <<t, i>>)]
    /\ UNCHANGED <<myActiveObjects, identifierVars, typeVars, updateVars>>

ReleaseComponent(c) ==
    /\ objectID[c] # NoObject
    /\ objectID' = [objectID EXCEPT ![c] = NoObject]
    /\ active' = [active EXCEPT ![c] = FALSE]
    /\ instances' = [instances EXCEPT ![c] = RemoveInstance(@)]
    /\ myObjectComponents' =
         [myObjectComponents EXCEPT ![ListIndex(objectID[c])] =
              IF c \in ComponentsOf(objectID[c]) THEN RemoveCyclic(@, c) ELSE @]
    /\ UNCHANGED <<myActiveObjects, identifierVars, typeVars, updateVars>>

\* ActivateComponent and DeactivateComponent: SetActive.
ActivateComponent(c) ==
    /\ objectID[c] # NoObject
    /\ ActiveFirst => objectID[c] \in myActiveObjects
    /\ Activates(c)
    /\ active' = [active EXCEPT ![c] = TRUE]
    /\ instances[c] < InstanceLimit
    /\ instances' = [instances EXCEPT ![c] = AddInstance(@)]
    /\ UNCHANGED <<objectID, myObjectComponents, myActiveObjects,
                   identifierVars, typeVars, updateVars>>

DeactivateComponent(c) ==
    /\ objectID[c] # NoObject
    /\ active[c]
    /\ active' = [active EXCEPT ![c] = FALSE]
    /\ instances' = [instances EXCEPT ![c] = RemoveInstance(@)]
    /\ UNCHANGED <<objectID, myObjectComponents, myActiveObjects,
                   identifierVars, typeVars, updateVars>>

-----------------------------------------------------------------------------
(***************************************************************************)
(* Objects                                                                 *)
(***************************************************************************)

ReleaseObject(id) ==
    /\ id \in owned
    /\ myActiveObjects' = ClearsBit(id)
    /\ objectID' = [c \in Slots |->
                      IF c \in ComponentsOf(id) THEN NoObject ELSE objectID[c]]
    /\ active' = [c \in Slots |-> active[c] /\ c \notin ComponentsOf(id)]
    /\ instances' = [c \in Slots |->
                       IF c \in ComponentsOf(id) /\ objectID[c] # NoObject
                       THEN RemoveInstance(instances[c]) ELSE instances[c]]
    /\ myObjectComponents' = [myObjectComponents EXCEPT ![ListIndex(id)] = <<>>]
    /\ myObjectIDs' = Recycled(id)
    /\ owned' = owned \ ({id} \ ConstantIDs)
    /\ UNCHANGED <<myNextObjectID, typeVars, updateVars>>

ReleaseAllObjects ==
    /\ objectID' = [c \in Slots |-> NoObject]
    /\ active' = [c \in Slots |-> FALSE]
    /\ instances' = [c \in Slots |-> IF objectID[c] # NoObject
                                     THEN RemoveInstance(instances[c])
                                     ELSE instances[c]]
    /\ myObjectComponents' = [id \in 0 .. ObjectAmount - 1 |-> <<>>]
    /\ myActiveObjects' = {}
    /\ myObjectIDs' = EmptyStack
    /\ myNextObjectID' = ConstantObjectAmount
    /\ owned' = ConstantIDs
    /\ UNCHANGED <<typeVars, updateVars>>

\* An active component is told that its object is active again; with
\* aActivateComponents the others become active.
ActivateObject(id, aActivateComponents) ==
    /\ id \in owned
    /\ id \notin myActiveObjects
    /\ myActiveObjects' = myActiveObjects \cup {id}
    /\ active' = [c \in Slots |->
                    active[c] \/ (aActivateComponents /\ c \in ComponentsOf(id))]
    /\ instances' = [c \in Slots |->
                       IF c \in ComponentsOf(id) /\ (active[c] \/ aActivateComponents)
                       THEN AddInstance(instances[c]) ELSE instances[c]]
    /\ \A c \in ComponentsOf(id) : instances[c] < InstanceLimit
    /\ UNCHANGED <<objectID, myObjectComponents, identifierVars, typeVars, updateVars>>

\* With aDeactivateComponents an active component is told twice.
DeactivateObject(id, aDeactivateComponents) ==
    /\ id \in owned
    /\ id \in myActiveObjects
    /\ myActiveObjects' = ClearsBit(id)
    /\ active' = [c \in Slots |->
                    active[c] /\ ~(aDeactivateComponents /\ c \in ComponentsOf(id))]
    /\ instances' = [c \in Slots |->
                       IF c \in ComponentsOf(id) /\ active[c]
                       THEN IF aDeactivateComponents
                            THEN RemoveInstance(RemoveInstance(instances[c]))
                            ELSE RemoveInstance(instances[c])
                       ELSE instances[c]]
    /\ UNCHANGED <<objectID, myObjectComponents, identifierVars, typeVars, updateVars>>

-----------------------------------------------------------------------------
(***************************************************************************)
(* Update.  The loop goes from one component that is to be updated to the  *)
(* next; what happens between two of its steps was called by a component.  *)
(***************************************************************************)

TypePosition(t) == CHOOSE i \in 1 .. Len(myDataInfo) : myDataInfo[i] = t

\* The order in memory.
Before(c, d) ==
    \/ TypePosition(c[1]) < TypePosition(d[1])
    \/ c[1] = d[1] /\ c[2] < d[2]

Eligible ==
    {c \in Slots : /\ c[1] \in UpdatedTypes
                   /\ objectID[c] # NoObject
                   /\ objectID[c] \in myActiveObjects
                   /\ active[c]}

Remaining == {c \in Eligible : cursor = NoSlot \/ Before(cursor, c)}

StopsAtGap(c) ==
    /\ c \in Remaining /\ \A d \in Remaining \ {c} : Before(c, d)
    /\ c[2] > 1 => objectID[<<c[1], c[2] - 1>>] # NoObject

\* c is the next component whose Update is called.
UpdatedNext(c) == c \in Remaining /\ \A d \in Remaining \ {c} : Before(c, d)

\* The first component, or the one after the component that has returned.
UpdateNext ==
    \E c \in Slots :
        /\ UpdatedNext(c)
        /\ cursor' = c
        /\ updated' = updated \cup {c}
        /\ UNCHANGED <<objectVars, identifierVars, typeVars>>

UpdateReturns ==
    /\ cursor # NoSlot
    /\ ~ \E c \in Slots : UpdatedNext(c)
    /\ cursor' = NoSlot
    /\ updated' = {}
    /\ UNCHANGED <<objectVars, identifierVars, typeVars>>

-----------------------------------------------------------------------------
Operation ==
    \/ \E t \in Types : CreateType(t)
    \/ LockCreation
    \/ GetNewObjectID
    \/ \E aAmount \in Reservations : ReserveNewObjectIDs(aAmount)
    \/ \E t \in Types, id \in owned : AddComponent(t, id)
    \/ \E c \in Slots :
          ReleaseComponent(c) \/ ActivateComponent(c) \/ DeactivateComponent(c)
    \/ \E id \in owned : ReleaseObject(id)
    \/ ReleaseAllObjects
    \/ \E id \in owned, both \in BOOLEAN :
          ActivateObject(id, both) \/ DeactivateObject(id, both)

\* A component stays steady while it is to be updated, from the beginning of
\* Update to its end.
Watch ==
    steady' = IF cursor' = NoSlot THEN {}
              ELSE IF cursor = NoSlot THEN Eligible'
              ELSE steady \cap Eligible'

Next == (Operation \/ UpdateNext \/ UpdateReturns) /\ Watch

Spec == Init /\ [][Next]_vars

-----------------------------------------------------------------------------
(***************************************************************************)
(* Properties                                                              *)
(***************************************************************************)

\* Every variable keeps its type.
TypeOK ==
    /\ myDataInfo \in Seq(Types)
    /\ objectID \in [Slots -> ObjectIDs \cup {NoObject}]
    /\ active \in [Slots -> BOOLEAN]
    /\ myObjectComponents \in [0 .. ObjectAmount - 1 -> Seq(Slots)]
    /\ myActiveObjects \subseteq ObjectIDs
    /\ myObjectIDs \in Seq(ObjectIDs)
    /\ myNextObjectID \in 0 .. MaxObjectAmount
    /\ myCreationLocked \in BOOLEAN
    /\ instances \in [Slots -> Nat]
    /\ cursor \in Slots \cup {NoSlot}
    /\ owned \subseteq ObjectIDs
    /\ updated \subseteq Slots
    /\ steady \subseteq Slots

\* An identifier has one holder: the stack holds none twice, none that the
\* program still has, and no constant one, so GetNewObjectID never gives two
\* objects the same name, however objects are reserved and released.
OneHolderPerID ==
    /\ \A i, j \in 1 .. Len(myObjectIDs) : myObjectIDs[i] = myObjectIDs[j] => i = j
    /\ owned = LiveIDs
    /\ ConstantIDs \subseteq owned

\* The two records of who owns a component agree: it is on the list of the
\* object it names, once, and on no other; a component without object is on none.
ListsMatchComponents ==
    /\ \A id \in 0 .. ObjectAmount - 1 :
          /\ \A c \in Elements(myObjectComponents[id]) : objectID[c] = id
          /\ \A i, j \in 1 .. Len(myObjectComponents[id]) :
                myObjectComponents[id][i] = myObjectComponents[id][j] => i = j
    /\ \A c \in Slots : objectID[c] # NoObject => c \in ComponentsOf(objectID[c])

\* An identifier that is given out again carries nothing of its last object:
\* no component names it and its bit is clear.
NewObjectsAreEmpty ==
    \A id \in ObjectIDs \ owned :
        id \notin myActiveObjects /\ \A c \in Slots : objectID[c] # id

\* The records of objects agree: identifiers with the stack they return to, the
\* lists of objects with the components, and both with an object that is gone
\* (ComponentManager.cpp:77-121, 168-253, 335-375).
ComponentManagerInv ==
    TypeOK /\ OneHolderPerID /\ ListsMatchComponents /\ NewObjectsAreEmpty

\* A component is in the scene once while it, and its object, are active, and
\* not at all otherwise, if the program adds and activates components only in
\* active objects: the messages to components and to objects overlap, and a
\* released component must not be drawn.
SceneMatches ==
    ActiveFirst =>
        \A c \in Slots :
            instances[c] = IF active[c] /\ objectID[c] \in myActiveObjects THEN 1 ELSE 0

\* Update has called every component that was to be updated all the time,
\* although components are added and released while it walks.
SteadyComponentsUpdated ==
    [][cursor # NoSlot /\ cursor' = NoSlot => steady \subseteq updated]_vars

\* The manager implements the abstract store of objects.
Store == INSTANCE ObjectStore WITH
    Components <- Slots, Permanent <- ConstantIDs, live <- LiveIDs, owner <- objectID
ImplementsObjectStore == Store!Spec
=============================================================================
