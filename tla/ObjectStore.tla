---------------------------- MODULE ObjectStore ----------------------------
(***************************************************************************)
(* What users of the component system rely on: objects have identifiers,   *)
(* an identifier names one object at a time, and a component belongs to at *)
(* most one live object.                                                   *)
(***************************************************************************)
EXTENDS Integers

CONSTANTS
    Components,  \* the components there are
    Permanent    \* identifiers of the objects that always exist

VARIABLES
    live,        \* identifiers of the objects that exist
    owner        \* the object of each component, or NoOwner

NoOwner == -1

Init ==
    /\ live = Permanent
    /\ owner = [c \in Components |-> NoOwner]

\* New objects come without components.
Create ==
    /\ live \subseteq live'
    /\ \A c \in Components : owner[c] \notin live' \ live
    /\ UNCHANGED owner

Attach ==
    \E c \in Components, o \in live :
        /\ owner[c] = NoOwner
        /\ owner' = [owner EXCEPT ![c] = o]
        /\ UNCHANGED live

Detach ==
    \E c \in Components :
        /\ owner' = [owner EXCEPT ![c] = NoOwner]
        /\ UNCHANGED live

\* An object goes with all its components; a permanent one loses only those.
Destroy ==
    \E o \in live :
        /\ live' = live \ ({o} \ Permanent)
        /\ owner' = [c \in Components |-> IF owner[c] = o THEN NoOwner ELSE owner[c]]

DestroyAll ==
    /\ live' = Permanent
    /\ owner' = [c \in Components |-> NoOwner]

Next == Create \/ Attach \/ Detach \/ Destroy \/ DestroyAll

Spec == Init /\ [][Next]_<<live, owner>>
=============================================================================
