------------------------------ MODULE NodeGraph ------------------------------
(***************************************************************************)
(* How a visual script becomes connected nodes (Script/NodeSystem.cpp,     *)
(* NodeInstance.cpp).  The nodes are made in the order of the file.  A     *)
(* file names every connection at both of its ends; it is made from the    *)
(* end that comes later, when the other node exists.                       *)
(*                                                                         *)
(* Pins are counted from 0 as in the code; files count a node's outputs    *)
(* after its inputs.  Definitions called Faulty are no part of the         *)
(* specification.                                                          *)
(***************************************************************************)
EXTENDS Integers, SequencesExt

CONSTANTS
    Kinds,              \* the node types that could be parsed
    PinsIn, PinsOut,    \* per kind: the data types of the pins, in order
    StartKind,          \* "StartNode", or "Start" in Ralmark's files
    Files,              \* [nodes : Seq(kind), links : SUBSET Link, ralmark : BOOLEAN]:
                        \* myVisualScriptType says which of two formats a file has
    Rooms,              \* what the program may pass as aNodeInstanceMaxCount
    Nothing

DataTypes == {"Int", "Float", "String"}
PinTypes == DataTypes \cup {"None", "Run", "Call", "Bool"}

\* A connection: output "out" of node "from" to input "in" of node "to".
Links == [from : Nat, out : Nat, to : Nat, in : Nat]

ASSUME PinsAssumption ==
    /\ PinsIn \in [Kinds -> Seq(PinTypes)] /\ PinsOut \in [Kinds -> Seq(PinTypes)]
    /\ StartKind \in Kinds /\ Rooms \subseteq Nat
    /\ Nothing \notin Nat /\ Nothing \notin [node : Nat, pin : Int]

\* What an editor saves: connections between pins that are there, one to an input
\* that takes data; Ralmark's files have one start node.
ASSUME FilesAssumption ==
    \A f \in Files :
        /\ f.nodes \in Seq(Kinds) /\ f.ralmark \in BOOLEAN
        /\ f.links \subseteq Links /\ IsFiniteSet(f.links)
        /\ \A l \in f.links :
               /\ {l.from, l.to} \subseteq DOMAIN f.nodes
               /\ l.out < Len(PinsOut[f.nodes[l.from]]) /\ l.in < Len(PinsIn[f.nodes[l.to]])
               /\ PinsOut[f.nodes[l.from]][l.out + 1] \in DataTypes =>
                      \A k \in f.links : k.to = l.to /\ k.in = l.in => k = l
        /\ f.ralmark => \A m, n \in DOMAIN f.nodes :
               f.nodes[m] = StartKind /\ f.nodes[n] = StartKind => m = n

VARIABLES
    file,
    aNodeInstanceMaxCount,
    nextNode,           \* the node of the file that is read next
    unread,             \* connections the file lists with the last node, still to be read
    instanceList,       \* the nodes of the file that have an instance
    startNode,
    myConnectionsIn,    \* per node and input pin: [node, pin] or Nothing
    callLists,          \* per node and output pin: the nodes to run
    scope               \* history: every index used was in its array's scope

graphVars == <<file, aNodeInstanceMaxCount, nextNode, unread, instanceList, startNode,
               myConnectionsIn, callLists, scope>>

-----------------------------------------------------------------------------
Kind(n) == file.nodes[n]
Inputs(n) == Len(PinsIn[Kind(n)])
Outputs(n) == Len(PinsOut[Kind(n)])
AllNodes == DOMAIN file.nodes

\* The number of an output pin in a file.  Ralmark's start node has no Run pin.
FilePin(n, out) == IF file.ralmark /\ Kind(n) = StartKind THEN out ELSE Inputs(n) + out

\* Whether the code takes the inputs off a number read for node n.
Separate(n) == ~(file.ralmark /\ startNode # Nothing /\ n = startNode)
CodePin(n, number) == IF Separate(n) THEN number - Inputs(n) ELSE number

InScope(n, pin) == pin \in 0 .. Outputs(n) - 1
\* GrowingArray's operator[] in a release build: out of scope, the first entry.
OutPin(n, pin) == PinsOut[Kind(n)][IF InScope(n, pin) THEN pin + 1 ELSE 1]
At(n, pin) == IF InScope(n, pin) THEN pin ELSE 0

GraphInit ==
    /\ file \in Files /\ aNodeInstanceMaxCount \in Rooms
    /\ nextNode = 1 /\ unread = {} /\ instanceList = <<>> /\ startNode = Nothing
    /\ myConnectionsIn = [n \in AllNodes |-> [p \in 0 .. Inputs(n) - 1 |-> Nothing]]
    /\ callLists = [n \in AllNodes |-> [p \in 0 .. Outputs(n) - 1 |-> <<>>]]
    /\ scope = TRUE

-----------------------------------------------------------------------------
(* One connection.                                                         *)

\* What ConnectPinIn and ConnectPinOut have in common: "pin" chooses the call
\* list, "stored" is what the input remembers.
Connect(from, pin, stored, to, in) ==
    /\ myConnectionsIn' = [myConnectionsIn EXCEPT ![to][in] = [node |-> from, pin |-> stored]]
    /\ callLists' = IF OutPin(from, pin) = "Call"
                    THEN [callLists EXCEPT ![from][At(from, pin)] = Append(@, to)]
                    ELSE callLists
    /\ scope' = (scope /\ InScope(from, pin))

\* Called for the node of the input, from the node of the output.
ConnectPinIn(link) ==
    LET pin == CodePin(link.from, FilePin(link.from, link.out))
    IN  Connect(link.from, pin, pin, link.to, link.in)

\* Called for the node of the output, from the node of the input: the input
\* remembers the number of the file.
ConnectPinOut(link) ==
    LET number == FilePin(link.from, link.out)
    IN  Connect(link.from, CodePin(link.from, number), number, link.to, link.in)

\* Ralmark: nothing is connected to an input of the start node.
IntoStart(link) == file.ralmark /\ link.to = startNode

FaultyCanConnect(end) == ~IntoStart(end.link)

\* The other node has an instance.
CanConnect(end) == ~IntoStart(end.link) /\ end.other \in ToSet(instanceList)

\* The connections a file lists with a node.
Ends(n) ==
    {[link |-> l, input |-> TRUE, other |-> l.from] : l \in {k \in file.links : k.to = n}}
        \cup {[link |-> l, input |-> FALSE, other |-> l.to] : l \in {k \in file.links : k.from = n}}

\* One end of a connection, read with the last node.
ReadConnection(end) ==
    /\ unread' = unread \ {end}
    /\ IF CanConnect(end)
       THEN IF end.input THEN ConnectPinOut(end.link) ELSE ConnectPinIn(end.link)
       ELSE UNCHANGED <<myConnectionsIn, callLists, scope>>
    /\ UNCHANGED <<file, aNodeInstanceMaxCount, nextNode, instanceList, startNode>>

-----------------------------------------------------------------------------

\* A node of the file is made; its connections are read next, in any order.
CreateInstance ==
    /\ unread = {} /\ nextNode <= Len(file.nodes)
    /\ Len(instanceList) < aNodeInstanceMaxCount
    /\ nextNode' = nextNode + 1 /\ instanceList' = Append(instanceList, nextNode)
    /\ startNode' = IF startNode = Nothing /\ Kind(nextNode) = StartKind THEN nextNode
                    ELSE startNode
    /\ unread' = Ends(nextNode)
    /\ UNCHANGED <<file, aNodeInstanceMaxCount, myConnectionsIn, callLists, scope>>

\* The list of instances is full: the node is left out, and its connections with it.
SkipNode ==
    /\ unread = {} /\ nextNode <= Len(file.nodes)
    /\ Len(instanceList) = aNodeInstanceMaxCount
    /\ nextNode' = nextNode + 1
    /\ UNCHANGED <<file, aNodeInstanceMaxCount, unread, instanceList, startNode,
                   myConnectionsIn, callLists, scope>>

Loaded == unread = {} /\ nextNode > Len(file.nodes) /\ UNCHANGED graphVars

GraphNext == CreateInstance \/ SkipNode \/ Loaded \/ \E end \in unread : ReadConnection(end)

GraphSpec == GraphInit /\ [][GraphNext]_graphVars

-----------------------------------------------------------------------------
\* The connections that can be there: both nodes were made.
Possible ==
    {l \in file.links : /\ {l.from, l.to} \subseteq ToSet(instanceList)
                        /\ ~IntoStart(l)}

GraphTypeOK ==
    /\ nextNode \in 1 .. Len(file.nodes) + 1
    /\ Len(instanceList) <= aNodeInstanceMaxCount
    /\ ToSet(instanceList) \subseteq 1 .. nextNode - 1
    /\ unread # {} => unread \subseteq Ends(nextNode - 1)
    /\ startNode \in ToSet(instanceList) \cup {Nothing} /\ scope \in BOOLEAN
    /\ \A n \in AllNodes : \A p \in DOMAIN callLists[n] : ToSet(callLists[n][p]) \subseteq AllNodes

\* A call pin runs the nodes the file connects it to, each of them once, wherever
\* the two ends stand in the file: no connection is lost because its other end
\* came first, and none is made twice, but for a node connected to itself
\* (NodeSystem.cpp:131-176).
CallsMatchFile ==
    unread = {} =>
        \A n \in ToSet(instanceList) : \A p \in DOMAIN callLists[n] :
            PinsOut[Kind(n)][p + 1] = "Call" =>
                \A m \in AllNodes \ {n} :
                    Cardinality({i \in DOMAIN callLists[n][p] : callLists[n][p][i] = m}) =
                    Cardinality({l \in Possible : l.from = n /\ l.out = p /\ l.to = m})

\* An input is read from the node the file connects it to, and from the right pin
\* if that node comes later in the file, has no inputs or is Ralmark's start
\* (NodeInstance.cpp:72-73, 111-112; NodeInstance.h:44-47).
InputsMatchFile ==
    unread = {} =>
        \A l \in Possible : PinsOut[Kind(l.from)][l.out + 1] \in DataTypes =>
            LET c == myConnectionsIn[l.to][l.in]
            IN  /\ c # Nothing /\ c.node = l.from
                /\ (l.from > l.to \/ FilePin(l.from, l.out) = l.out) => c.pin = l.out

\* Making a connection uses only pins the node has, so the call list is found
\* (the assertions GrowingArray.hpp:275, NodeInstance.cpp:78, 101).
ConnectsInScope == scope

\* The nodes are connected as their file says, calls once each and inputs to
\* the node, and mostly the pin, the file names, through pins that exist
\* (NodeSystem.cpp:131-176; NodeInstance.cpp:72-78, 101-112).
GraphInv == GraphTypeOK /\ CallsMatchFile /\ InputsMatchFile /\ ConnectsInScope
=============================================================================
