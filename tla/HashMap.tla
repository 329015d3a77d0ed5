------------------------------ MODULE HashMap -------------------------------
(***************************************************************************)
(* The hash map every loader and the script manager keep their files in    *)
(* (CommonUtilities/Include/HashMap.hpp): open addressing with linear      *)
(* probing in an array that never grows.  A removed entry stays as a       *)
(* marker; only the constructor makes empty ones.  A key is known by its   *)
(* 64-bit hash, so a name of the dictionary the map implements is a hash.  *)
(* Entries that were never used carry the hash 0, which is also the hash   *)
(* some key may have.                                                      *)
(***************************************************************************)
EXTENDS Integers, FiniteSets

CONSTANTS
    Capacity,   \* aCapacity
    Keys,
    EmptyKey,   \* the key of length 0, which unused entries have
    Hash,       \* the hash of each key
    Values,
    Null,       \* the value Delete leaves
    Nothing     \* nullptr as the answer of Get

ASSUME CapacityAssumption == Capacity \in Nat
ASSUME KeyAssumption == EmptyKey \in Keys /\ Hash \in [Keys -> Nat]
ASSUME ValueAssumption == Null \in Values /\ Nothing \notin Values

VARIABLES
    myArray,    \* the entries
    request,    \* the last operation, with the hash and value it was given
    success,    \* what the last operation returned
    found       \* the value the last Get pointed to, or Nothing

vars == <<myArray, request, success, found>>

-----------------------------------------------------------------------------
(***************************************************************************)
(* Faulty variants, used only to see that the properties notice: they are  *)
(* no part of the specification.                                           *)
(***************************************************************************)
EmptiedEntry(entry) == [entry EXCEPT !.state = "Empty"]
PastRemoved(h) ==
    {i \in 0 .. Capacity - 1 : myArray[i].state # "Used" \/ myArray[i].hash = h}

-----------------------------------------------------------------------------
Slots == 0 .. Capacity - 1
Hashes == {Hash[k] : k \in Keys}
Entries == [state : {"Empty", "Used", "Removed"}, key : Keys,
            value : Values, hash : Hashes \cup {0}]

\* startIndex, and how far from there a loop comes by index i.
Home(h) == h % Capacity
Distance(h, i) == IF i >= Home(h) THEN i - Home(h) ELSE i - Home(h) + Capacity

\* The entry of the set S that a loop from startIndex meets first.
First(h, S) == CHOOSE i \in S : \A j \in S : Distance(h, i) <= Distance(h, j)

\* Where the loops of Insert stop: the first one does not look at the state.
Matching(h) == {i \in Slots : myArray[i].hash = h}
Room == {i \in Slots : myArray[i].state \in {"Empty", "Removed"}}
\* Where the loops of Remove, Delete and Get stop.
Stops(h) == {i \in Slots : myArray[i].state = "Empty" \/ myArray[i].hash = h}

Revived(entry, v) == [entry EXCEPT !.state = "Used", !.value = v]
NewEntry(k, v) == [state |-> "Used", key |-> k, value |-> v, hash |-> Hash[k]]
RemovedEntry(entry) == [entry EXCEPT !.state = "Removed"]
DeletedEntry(entry) == [entry EXCEPT !.state = "Removed", !.value = Null]

\* The entry that Get and Remove find: none if the loop stops elsewhere.
IsFound(h) ==
    /\ Stops(h) # {}
    /\ myArray[First(h, Stops(h))].state = "Used"

-----------------------------------------------------------------------------
(* Operations *)

\* The constructor leaves in a value what its type's constructor leaves.
Init ==
    /\ myArray \in [Slots -> {[state |-> "Empty", key |-> EmptyKey,
                               value |-> v, hash |-> 0] : v \in Values}]
    /\ request = <<>> /\ success = TRUE /\ found = Nothing

\* An entry with the hash is used again, else the first one that is free.
InsertMatching(k, v) ==
    LET i == First(Hash[k], Matching(Hash[k])) IN
    /\ Matching(Hash[k]) # {}
    /\ myArray' = [myArray EXCEPT ![i] = Revived(@, v)]
    /\ success' = TRUE

InsertNew(k, v) ==
    LET i == First(Hash[k], Room) IN
    /\ Matching(Hash[k]) = {} /\ Room # {}
    /\ myArray' = [myArray EXCEPT ![i] = NewEntry(k, v)]
    /\ success' = TRUE

Full(k) ==
    /\ Matching(Hash[k]) = {} /\ Room = {}
    /\ success' = FALSE
    /\ UNCHANGED myArray

Insert(k, v) ==
    /\ request' = <<"Insert", Hash[k], v>>
    /\ InsertMatching(k, v) \/ InsertNew(k, v) \/ Full(k)
    /\ found' = Nothing

\* Create leaves the value of a matching entry, also of a removed one.
CreateMatching(k) ==
    /\ Matching(Hash[k]) # {}
    /\ InsertMatching(k, myArray[First(Hash[k], Matching(Hash[k]))].value)

Create(k) ==
    /\ request' = <<"Create", Hash[k]>>
    /\ CreateMatching(k) \/ (\E v \in Values : InsertNew(k, v)) \/ Full(k)
    /\ found' = Nothing

Drop(k, After(_)) ==
    LET h == Hash[k] IN
    /\ request' = <<"Remove", h>>
    /\ myArray' = IF IsFound(h)
                    THEN [myArray EXCEPT ![First(h, Stops(h))] = After(@)]
                    ELSE myArray
    /\ success' = IsFound(h)
    /\ found' = Nothing

Remove(k) == Drop(k, RemovedEntry)
Delete(k) == Drop(k, DeletedEntry)

DropAll(After(_)) ==
    /\ request' = <<"RemoveAll">>
    /\ myArray' = [i \in Slots |->
                     IF myArray[i].state = "Used" THEN After(myArray[i]) ELSE myArray[i]]
    /\ success' = TRUE /\ found' = Nothing

RemoveAll == DropAll(RemovedEntry)
DeleteAll == DropAll(DeletedEntry)

Get(k) ==
    LET h == Hash[k] IN
    /\ request' = <<"Get", h>>
    /\ found' = IF IsFound(h) THEN myArray[First(h, Stops(h))].value ELSE Nothing
    /\ success' = IsFound(h)
    /\ UNCHANGED myArray

Next ==
    \/ \E k \in Keys :
          \/ \E v \in Values : Insert(k, v)
          \/ Create(k) \/ Remove(k) \/ Delete(k) \/ Get(k)
    \/ RemoveAll \/ DeleteAll

Spec == Init /\ [][Next]_vars

\* The entries an Iterator visits: those whose key is not empty, used or not.
Visited == {i \in Slots : myArray[i].key # EmptyKey}

-----------------------------------------------------------------------------
(* Properties *)

\* Entries are states, keys, values and hashes; Get answers a value or nullptr.
TypeOK ==
    /\ myArray \in [Slots -> Entries]
    /\ success \in BOOLEAN
    /\ found \in Values \cup {Nothing}

\* Every entry that was ever used is reached from its hash's startIndex
\* without meeting an empty one, however entries were removed and reused:
\* Get and Remove stop at the first empty entry (HashMap.hpp:221, :323).
ChainsUnbroken ==
    \A i, j \in Slots :
        /\ myArray[i].state # "Empty"
        /\ Distance(myArray[i].hash, j) < Distance(myArray[i].hash, i)
        => myArray[j].state # "Empty"

\* No two entries that were ever used have one hash: else Remove would leave
\* a value behind that Get then finds (HashMap.hpp:141).
HashesDiffer ==
    \A i, j \in Slots :
        /\ myArray[i].state # "Empty" /\ myArray[j].state # "Empty"
        /\ myArray[i].hash = myArray[j].hash
        => i = j

\* An iterator, which goes by the key alone, visits every entry in use but
\* those of the empty key and of a key with the hash 0: that one moves into
\* an unused entry without its key (HashMap.hpp:141-143, :381).
IterationIsComplete ==
    \A i \in Slots :
        /\ myArray[i].state = "Used" /\ myArray[i].hash \notin {0, Hash[EmptyKey]}
        => i \in Visited

\* The array can be searched: no chain of a hash is broken, no hash is there
\* twice, and an iterator misses nothing that has a key (HashMap.hpp:141-143,
\* 221, 323, 381).
HashMapInv == TypeOK /\ ChainsUnbroken /\ HashesDiffer /\ IterationIsComplete

\* The map is a dictionary from hashes to values.
ContentOf(h) ==
    IF \E i \in Slots : myArray[i].state = "Used" /\ myArray[i].hash = h
      THEN myArray[CHOOSE i \in Slots : myArray[i].state = "Used" /\ myArray[i].hash = h].value
      ELSE Nothing

Content == [h \in Hashes |-> ContentOf(h)]

Abstract == INSTANCE Dictionary WITH Names <- Hashes, content <- Content

\* Every operation does and returns what the comments of HashMap.hpp:64-81
\* say: Insert overwrites and fails exactly when the map is full, Remove and
\* Get know exactly the keys that were inserted and not removed since.
ImplementsDictionary == Abstract!Spec
=============================================================================
