---------------------------- MODULE GrowingQueue ----------------------------
(***************************************************************************)
(* The queue the load commands wait in                                     *)
(* (CommonUtilities/Include/GrowingQueue.hpp): the objects lie in          *)
(* myArray[myStart] .. myArray[myStart + mySize - 1] and new ones are put  *)
(* before the first.  The operations are those ModelLoader.cpp calls, with *)
(* what they call.  An object written outside of the array destroys other  *)
(* memory: nothing is said of the program after that (myStart < 0).        *)
(* Names that HashMap has too are prefixed with queue.                     *)
(***************************************************************************)
EXTENDS Integers, Sequences

CONSTANTS
    Objects,
    NoObject,       \* no object; what a cell holds that was never written
    InitCapacity,   \* aCapacity of Init
    ShiftAvoided,   \* the caller adds nothing when that would shift the
                    \* objects to the end of the array
    SizeLimit       \* bound on the size, not in the code

ASSUME QueueAssumption ==
    InitCapacity \in Nat /\ SizeLimit \in Nat /\ ShiftAvoided \in BOOLEAN

VARIABLES
    queueArray,     \* myArray
    myStart, mySize, myCapacity,
    queueRequest,   \* the last operation and what it was called with
    taken           \* the object it took out, or NoObject

queueVars == <<queueArray, myStart, mySize, myCapacity, queueRequest, taken>>

-----------------------------------------------------------------------------
(***************************************************************************)
(* Faulty variants, used only to see that the properties notice: they are  *)
(* no part of the specification.                                           *)
(***************************************************************************)
FaultyReserve(q, capacity) ==
    LET fits == capacity - q.start IN
    [array |-> [i \in 0 .. capacity - 1 |->
                  IF i \in q.start .. q.start + q.size - 1 THEN q.array[i] ELSE NoObject],
     start |-> q.start,
     size |-> IF q.size > fits THEN fits ELSE q.size, capacity |-> capacity]
FaultyRemoveAtIndex(index) ==
    /\ myStart >= 0
    /\ queueRequest' = <<"TakeOne", index>>
    /\ taken' = queueArray[myStart + index]
    /\ queueArray' = [i \in DOMAIN queueArray |->
                     IF i \in myStart + index .. myStart + mySize - 2
                       THEN queueArray[i + 1] ELSE queueArray[i]]
    /\ mySize' = mySize - 1 /\ myStart' = myStart + 1
    /\ UNCHANGED myCapacity

-----------------------------------------------------------------------------
(* The parts of the operations, on the fields as a record *)

Queue == [array |-> queueArray, start |-> myStart, size |-> mySize, capacity |-> myCapacity]

Became(q) ==
    /\ queueArray' = q.array /\ myStart' = q.start
    /\ mySize' = q.size /\ myCapacity' = q.capacity

\* A new array with the objects at its end; those that have no room are lost.
Reserve(q, capacity) ==
    LET fits == capacity - q.start
        size == IF q.size > fits THEN fits ELSE q.size
        indexDiff == IF q.size > fits THEN 0 ELSE capacity - (q.start + q.size)
    IN [array |-> [i \in 0 .. capacity - 1 |->
                     IF i - indexDiff \in q.start .. q.start + size - 1
                       THEN q.array[i - indexDiff] ELSE NoObject],
        start |-> q.start + indexDiff, size |-> size, capacity |-> capacity]

Grow(q) == Reserve(q, IF q.capacity > 0 THEN q.capacity * 2 ELSE 1)

\* Whether Optimize moves the objects to the end of the array.
Shifts(q) ==
    /\ q.capacity - q.size >= q.size \div 2
    /\ q.start + q.size < q.capacity

\* The objects move, but myStart stays.
Shifted(q) ==
    LET indexDiff == q.capacity - (q.start + q.size) IN
    [q EXCEPT !.array = [i \in DOMAIN q.array |->
        IF i - indexDiff \in q.start .. q.start + q.size - 1
          THEN q.array[i - indexDiff] ELSE q.array[i]]]

Optimize(q) ==
    IF q.capacity - q.size < q.size \div 2 THEN Reserve(q, q.size \div 2 + q.size)
    ELSE IF Shifts(q) THEN Shifted(q)
    ELSE q

\* Add and the write, which misses the array if there is no cell left.
Prepared(q) ==
    IF q.size >= q.capacity THEN Grow(q)
    ELSE IF q.start = 0 THEN Optimize(q)
    ELSE q

Put(q, o) ==
    [q EXCEPT !.start = @ - 1, !.size = @ + 1,
              !.array = [i \in DOMAIN @ |-> IF i = q.start - 1 THEN o ELSE @[i]]]

\* An empty queue starts again at the last cell.
Restarted(q) == IF q.size = 0 THEN [q EXCEPT !.start = q.capacity - 1] ELSE q

-----------------------------------------------------------------------------
(* Operations *)

QueueInit ==
    /\ queueArray = [i \in 0 .. InitCapacity - 1 |-> NoObject]
    /\ myStart = InitCapacity /\ mySize = 0 /\ myCapacity = InitCapacity
    /\ queueRequest = <<>> /\ taken = NoObject

Add(o) ==
    /\ myStart >= 0 /\ mySize < SizeLimit
    /\ ShiftAvoided => ~ (mySize < myCapacity /\ myStart = 0 /\ Shifts(Queue))
    /\ Became(Put(Prepared(Queue), o))
    /\ queueRequest' = <<"Add", o>>
    /\ taken' = NoObject

\* GetLast and RemoveLast; both leave an empty queue alone.
RemoveLast ==
    /\ myStart >= 0 /\ mySize > 0
    /\ queueRequest' = <<"TakeLast">>
    /\ taken' = queueArray[myStart + mySize - 1]
    /\ Became(Restarted([Queue EXCEPT !.size = @ - 1]))

\* operator[] and RemoveAtIndex: the objects before the index move up.
RemoveAtIndex(index) ==
    /\ myStart >= 0
    /\ queueRequest' = <<"TakeOne", index>>
    /\ taken' = queueArray[myStart + index]
    /\ queueArray' = [i \in DOMAIN queueArray |->
                     IF i \in myStart + 1 .. myStart + index
                       THEN queueArray[i - 1] ELSE queueArray[i]]
    /\ mySize' = mySize - 1 /\ myStart' = myStart + 1
    /\ UNCHANGED myCapacity

RemoveAllObjects ==
    /\ myStart >= 0
    /\ mySize' = 0 /\ myStart' = myCapacity - 1
    /\ queueRequest' = <<"Clear">> /\ taken' = NoObject
    /\ UNCHANGED <<queueArray, myCapacity>>

QueueNext ==
    \/ \E o \in Objects : Add(o)
    \/ RemoveLast
    \/ \E index \in 0 .. mySize - 1 : RemoveAtIndex(index)
    \/ RemoveAllObjects

QueueSpec == QueueInit /\ [][QueueNext]_queueVars

-----------------------------------------------------------------------------
(* Properties *)

\* The cells are those of the array, and the queue ends inside of it.
QueueTypeOK ==
    /\ queueArray \in [0 .. myCapacity - 1 -> Objects \cup {NoObject}]
    /\ myStart \in Int /\ mySize \in Nat /\ myCapacity \in Nat
    /\ myStart + mySize <= myCapacity
    /\ taken \in Objects \cup {NoObject}

\* Every index below mySize, which the assertion of operator[] calls in
\* scope (GrowingQueue.hpp:281), lies in the array and holds an object.
IndexInScope ==
    \A index \in 0 .. mySize - 1 :
        /\ myStart + index \in DOMAIN queueArray
        /\ queueArray[myStart + index] \in Objects

\* The queue ends inside of its array, and every index below mySize holds an
\* object, wherever the queue starts (GrowingQueue.hpp:281).
QueueInv == QueueTypeOK /\ IndexInScope

\* The oldest object is taken first, none is lost or doubled when the array
\* grows or its contents move, and a taken one leaves the others in order.
Waiting == [index \in 1 .. mySize |-> queueArray[myStart + index - 1]]

Commands == INSTANCE Fifo WITH
    queue <- Waiting, request <- queueRequest, Nothing <- NoObject

ImplementsFifo == Commands!Spec
=============================================================================
