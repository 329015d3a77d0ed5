-------------------------------- MODULE Fifo --------------------------------
(***************************************************************************)
(* What the model loader relies on: commands wait in the order in which    *)
(* they were added, the oldest last, and one of them can be taken out.     *)
(***************************************************************************)
EXTENDS Integers, Sequences, SequencesExt

CONSTANTS Objects, Nothing

VARIABLES
    queue,    \* the waiting objects, the oldest last
    request,  \* the last operation and what it was called with
    taken     \* the object it took out, or Nothing

Init == queue = <<>> /\ request = <<>> /\ taken = Nothing

Add == \E o \in Objects :
           /\ request' = <<"Add", o>>
           /\ queue' = <<o>> \o queue
           /\ taken' = Nothing

TakeLast ==
    /\ queue # <<>>
    /\ request' = <<"TakeLast">>
    /\ taken' = Last(queue)
    /\ queue' = Front(queue)

TakeOne == \E i \in DOMAIN queue :
               /\ request' = <<"TakeOne", i - 1>>
               /\ taken' = queue[i]
               /\ queue' = RemoveAt(queue, i)

Clear ==
    /\ request' = <<"Clear">>
    /\ queue' = <<>> /\ taken' = Nothing

Next == Add \/ TakeLast \/ TakeOne \/ Clear

Spec == Init /\ [][Next]_<<queue, request, taken>>
=============================================================================
