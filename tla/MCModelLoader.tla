--------------------------- MODULE MCModelLoader ---------------------------
(***************************************************************************)
(* Small instances of ModelLoader.                                         *)
(***************************************************************************)
EXTENDS ModelLoader

CONSTANTS main, a, b, wall, door, man, tree

\* The main thread has both instances.
OneOwner == [i \in Instances |-> main]

\* Two plain models, so that an instance can be given another path, a skinned
\* and a custom one.
EachKind ==
    [p \in Paths |-> CASE p \in {wall, door} -> "plain" [] p = man -> "skinned"
                       [] p = tree -> "custom"]

\* The instances begin with the same path.
SamePath == {[i \in Instances |-> p] : p \in Paths}
=============================================================================
