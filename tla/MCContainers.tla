---------------------------- MODULE MCContainers ----------------------------
(* Small instances of HashMap and GrowingQueue for TLC.  The two have no   *)
(* state in common; a behaviour is one of a single part, chosen at first,  *)
(* and the other keeps its initial state.                                  *)
EXTENDS HashMap, GrowingQueue, TLC

CONSTANTS none, a, b, c, null, one

VARIABLE part

\* With three entries the keys none and a start at the same one, and so do
\* b and c; a has the hash of unused entries.
SmallHash == (none :> 3) @@ (a :> 0) @@ (b :> 2) @@ (c :> 5)

PartInit ==
    /\ part \in {"map", "queue"}
    /\ Init /\ QueueInit
    /\ part = "queue" => \A i \in Slots : myArray[i].value = Null

PartNext ==
    \/ part = "map" /\ Next /\ UNCHANGED <<part, queueVars>>
    \/ part = "queue" /\ QueueNext /\ UNCHANGED <<part, vars>>

PartSpec == PartInit /\ [][PartNext]_<<part, vars, queueVars>>
=============================================================================
