----------------------------- MODULE Dictionary -----------------------------
(***************************************************************************)
(* What HashMap.hpp promises its users (the comments at its declaration):  *)
(* a map of limited capacity from names to values.                         *)
(***************************************************************************)
EXTENDS Integers, FiniteSets

CONSTANTS
    Capacity,  \* how many names may have a value
    Names,
    Values,
    Nothing    \* the answer for a name without a value

VARIABLES
    content,   \* the value of each name, or Nothing
    request,   \* the last operation and what it was called with
    success,   \* what the last operation returned
    found      \* the value the last look-up returned, or Nothing

Present(n) == content[n] # Nothing
Size == Cardinality({n \in Names : Present(n)})

Init ==
    /\ content = [n \in Names |-> Nothing]
    /\ request = <<>> /\ success = TRUE /\ found = Nothing

Put(n, v) ==
    /\ success' = (Present(n) \/ Size < Capacity)
    /\ content' = IF success' THEN [content EXCEPT ![n] = v] ELSE content
    /\ found' = Nothing

\* A value that is there already is overwritten.
Insert == \E n \in Names, v \in Values :
              /\ request' = <<"Insert", n, v>>
              /\ Put(n, v)

\* A value that is there already is kept; a new one may be any.
Create == \E n \in Names, v \in Values :
              /\ request' = <<"Create", n>>
              /\ Present(n) => v = content[n]
              /\ Put(n, v)

Remove == \E n \in Names :
              /\ request' = <<"Remove", n>>
              /\ success' = Present(n)
              /\ content' = [content EXCEPT ![n] = Nothing]
              /\ found' = Nothing

RemoveAll ==
    /\ request' = <<"RemoveAll">>
    /\ content' = [n \in Names |-> Nothing]
    /\ success' = TRUE /\ found' = Nothing

Get == \E n \in Names :
           /\ request' = <<"Get", n>>
           /\ found' = content[n] /\ success' = Present(n)
           /\ UNCHANGED content

Next == Insert \/ Create \/ Remove \/ RemoveAll \/ Get

Spec == Init /\ [][Next]_<<content, request, success, found>>
=============================================================================
