--------------------------- MODULE MCScriptManager ---------------------------
(* Instances of ScriptManager and NodeGraph for TLC: scripts and nodes as   *)
(* they run, and the files their connections come from.  The two have no   *)
(* state in common; a behaviour is one of a single part, chosen at first.  *)
EXTENDS ScriptManager, NodeGraph

CONSTANTS nodes, menu, start, next, Count

VARIABLE part

-----------------------------------------------------------------------------
(* Two nodes of two scripts: "start" calls "next", or "next" reads from it. *)
MCNodeScriptOf == [n \in Nodes |-> IF n = start THEN menu ELSE nodes]
Connected(a, b) == [n \in Nodes |-> IF n = a THEN <<b>> ELSE <<>>]
MCWirings ==
    {[inputs |-> [n \in Nodes |-> <<>>], calls |-> Connected(start, next)],
     [inputs |-> Connected(next, start), calls |-> [n \in Nodes |-> <<>>]]}

-----------------------------------------------------------------------------
(* All files with the given nodes in any order, no kind more than twice,   *)
(* connected in ways that fit the types, in both formats.                  *)

\* A start with a Run pin and a call; a source without inputs; an action that
\* takes a number, and gives two.
MCPinsIn ==
    [k \in Kinds |-> CASE k = "StartNode" -> <<"Run">>
                       [] k = "action" -> <<"Run", "Int">>
                       [] OTHER -> <<>>]
MCPinsOut ==
    [k \in Kinds |-> CASE k = "StartNode" -> <<"Call">>
                       [] k = "action" -> <<"Call", "Int", "Int">>
                       [] k = "source" -> <<"Int">>]

Pins(list, pins, type) ==
    {x \in (DOMAIN list) \X (0 .. 2) :
        x[2] < Len(pins[list[x[1]]]) /\ pins[list[x[1]]][x[2] + 1] = type}
Link(out, in) == [from |-> out[1], out |-> out[2], to |-> in[1], in |-> in[2]]

\* At most two call connections, and at most one to each data input.
CallLinks(list) ==
    LET all == {Link(o, i) : o \in Pins(list, MCPinsOut, "Call"),
                             i \in Pins(list, MCPinsIn, "Run")}
    IN  {{}} \cup {{k, l} : k, l \in all}
DataLinks(list) ==
    LET ins == Pins(list, MCPinsIn, "Int")
        outs == Pins(list, MCPinsOut, "Int")
    IN  {{Link(f[i], i) : i \in {x \in ins : f[x] # <<>>}} : f \in [ins -> outs \cup {<<>>}]}

Often(list, k) == Cardinality({x \in DOMAIN list : list[x] = k})

\* Ralmark's files have one start node.
MCFiles ==
    UNION {UNION {{[nodes |-> list, links |-> c \cup d, ralmark |-> r] :
                      c \in CallLinks(list), d \in DataLinks(list)} :
                  list \in {l \in [1 .. Count -> Kinds] :
                               \A k \in Kinds :
                                   Often(l, k) <= IF r /\ k = "StartNode" THEN 1 ELSE 2}} :
           r \in BOOLEAN}

-----------------------------------------------------------------------------
NoFile == [nodes |-> <<>>, links |-> {}, ralmark |-> FALSE]

PartInit ==
    \/ /\ part = "scripts" /\ Init
       /\ file = NoFile /\ aNodeInstanceMaxCount = 0 /\ nextNode = 1 /\ unread = {}
       /\ instanceList = <<>> /\ startNode = Nothing
       /\ myConnectionsIn = <<>> /\ callLists = <<>> /\ scope = TRUE
    \/ /\ part = "graph" /\ Init /\ wiring = CHOOSE w \in Wirings : TRUE
       /\ GraphInit

PartNext ==
    \/ part = "scripts" /\ Next /\ UNCHANGED <<part, graphVars>>
    \/ part = "graph" /\ GraphNext /\ UNCHANGED <<part, vars>>

PartSpec == PartInit /\ [][PartNext]_<<part, vars, graphVars>>
=============================================================================
