---------------------------- MODULE ScriptManager ----------------------------
(***************************************************************************)
(* Scripts, events and visual script nodes (Script/ScriptManager.cpp,      *)
(* NodeScript.cpp, NodeInstance.cpp).  Each script file has a Squirrel     *)
(* virtual machine of its own.  Code running in one may call functions the *)
(* program registered; those may start events, functions and nodes before  *)
(* the first call has returned.                                            *)
(*                                                                         *)
(* One thread.  What is being executed is the stack "calls", the innermost *)
(* last; the code itself keeps two stacks beside it to know which script   *)
(* and which node is running.  Squirrel and the file watcher are external. *)
(* Definitions called Faulty are no part of the specification.             *)
(***************************************************************************)
EXTENDS Integers, SequencesExt

CONSTANTS
    Scripts, Nodes, Events,
    NodeScriptOf,   \* per node instance: the script of its NodeScript
    Wirings,        \* connections of the nodes, see below
    MayBroadcast,   \* whether the program calls a function in all scripts
    MayLose,        \* whether files disappear or fail to load
    NoNode,
    DepthLimit,     \* bound: entries of calls
    ListLimit,      \* bound: listeners of one event
    TellLimit       \* bound: how often a CallEvent may have to call one listener

ASSUME ScriptsAssumption ==
    /\ NodeScriptOf \in [Nodes -> Scripts] /\ NoNode \notin Nodes
    /\ \A w \in Wirings : {w.inputs, w.calls} \subseteq [Nodes -> Seq(Nodes)]
    /\ {MayBroadcast, MayLose} \subseteq BOOLEAN /\ {DepthLimit, ListLimit, TellLimit} \subseteq Nat

VARIABLES
    wiring,                     \* per node: inputs, the nodes GetInput has to run first;
                                \* calls, those connected to its call pin
    vm,                         \* mySquirrelVM: "null", "live" or "freed"
    myFileOpen,
    myScriptFunctions,          \* the scripts with functions of their own
    bound,                      \* the scripts whose VM knows those functions
    myEvents,                   \* per event: the listeners [script, node]
    myRunningScriptStack,
    myStackedRunningInstances,  \* per script
    myCurrentRunningInstance,
    calls,
    crashed,                    \* a VM was used that is not live
    lost, nested                \* history: files closed or failed; a node ran inside another

files == <<vm, myFileOpen, myScriptFunctions, bound, lost>>
running == <<myRunningScriptStack, myStackedRunningInstances, myCurrentRunningInstance, nested>>
vars == <<wiring, files, running, myEvents, calls, crashed>>

-----------------------------------------------------------------------------
Listeners == [script : Scripts, node : {NoNode}] \cup
             {[script |-> NodeScriptOf[n], node |-> n] : n \in Nodes}
Occurrences(list, x) == Cardinality({n \in 1 .. Len(list) : list[n] = x})

(* What is being executed.  "vm": code of a script; "open": its file, for  *)
(* the first time.  "node": NodeScript::Run, "todo": who is called next.   *)
(* "input": GetInput.  "event", "all": the loops of CallEvent and of       *)
(* CallFunction without a script.                                          *)
CodeOf(script, pushed) == [kind |-> "vm", script |-> script, pushed |-> pushed]
NodeRun(node) == [kind |-> "node", node |-> node, returned |-> FALSE, todo |-> <<>>]
InputOf(node) == [kind |-> "input", node |-> node, todo |-> wiring.inputs[node]]
EventLoop(event) ==
    [kind |-> "event", event |-> event, index |-> 1, told |-> <<>>, shrunk |-> FALSE,
     allowed |-> [l \in Listeners |-> Occurrences(myEvents[event], l)]]

Idle == calls = <<>>
Top == calls[Len(calls)]
TopIs(kind) == ~Idle /\ Top.kind = kind

\* The program's own code runs: in its loop, or in a function a script called.
InProgram == ~crashed /\ (Idle \/ TopIs("vm") \/ TopIs("open"))

\* The program calls scripts it has opened, and makes nodes when their scripts are.
WasOpened(s) == vm[s] # "null" \/ s \in lost

Replace(frame) == [calls EXCEPT ![Len(calls)] = frame]

Init ==
    /\ wiring \in Wirings
    /\ vm = [s \in Scripts |-> "null"] /\ myFileOpen = [s \in Scripts |-> FALSE]
    /\ myScriptFunctions = {} /\ bound = {} /\ lost = {}
    /\ myEvents = [e \in Events |-> <<>>]
    /\ myRunningScriptStack = <<>>
    /\ myStackedRunningInstances = [s \in Scripts |-> <<>>]
    /\ myCurrentRunningInstance = NoNode
    /\ calls = <<>> /\ crashed = FALSE /\ nested = FALSE

-----------------------------------------------------------------------------
(* Files.  The node system and the file watcher open and close files while *)
(* no script runs.                                                         *)

RegisterFunction(s) ==
    /\ Idle /\ ~crashed /\ s \notin myScriptFunctions
    /\ myScriptFunctions' = myScriptFunctions \cup {s}
    /\ bound' = IF myFileOpen[s] THEN bound \cup {s} ELSE bound
    /\ UNCHANGED <<vm, myFileOpen, lost, running, myEvents, calls, crashed>>

\* A new VM; one that a failure left behind is forgotten.
OpenFile(s) ==
    /\ Idle /\ ~crashed
    /\ vm' = [vm EXCEPT ![s] = "live"]
    /\ myFileOpen' = [myFileOpen EXCEPT ![s] = FALSE]
    /\ bound' = (bound \ {s}) \cup (myScriptFunctions \cap {s})
    /\ myRunningScriptStack' = Append(myRunningScriptStack, s)
    /\ calls' = <<[kind |-> "open", script |-> s]>>
    /\ UNCHANGED <<myScriptFunctions, lost, myStackedRunningInstances, myCurrentRunningInstance,
                   nested, myEvents, crashed>>

\* The file has been executed; if that failed the VM is closed, and the pointer
\* to it and the listeners it registered stay.
Opened(failed) ==
    /\ TopIs("open") /\ ~crashed /\ (failed => MayLose)
    /\ LET s == Top.script
       IN  /\ vm' = IF failed THEN [vm EXCEPT ![s] = "freed"] ELSE vm
           /\ myFileOpen' = [myFileOpen EXCEPT ![s] = ~failed]
           /\ lost' = IF failed THEN lost \cup {s} ELSE lost
    /\ myRunningScriptStack' = Front(myRunningScriptStack)
    /\ calls' = Front(calls)
    /\ UNCHANGED <<myScriptFunctions, bound, myStackedRunningInstances, myCurrentRunningInstance,
                   nested, myEvents, crashed>>

\* The file is gone.  Nobody asks whether it was open.
CloseFile(s) ==
    /\ MayLose /\ Idle /\ ~crashed
    /\ crashed' = (vm[s] # "live")
    /\ vm' = [vm EXCEPT ![s] = "null"] /\ myFileOpen' = [myFileOpen EXCEPT ![s] = FALSE]
    /\ lost' = lost \cup {s}
    /\ UNCHANGED <<myScriptFunctions, bound, running, myEvents, calls>>

-----------------------------------------------------------------------------
(* Calls.  CallFunction does not ask whether the script's file is open.    *)

\* The code of the script on top of the frames "below".
Execute(s, below) ==
    /\ crashed' = (vm[s] # "live")
    /\ calls' = Append(below, CodeOf(s, TRUE))
    /\ myRunningScriptStack' = Append(myRunningScriptStack, s)

CallFunction(s) ==
    /\ InProgram /\ Len(calls) < DepthLimit /\ WasOpened(s)
    /\ Execute(s, calls)
    /\ UNCHANGED <<files, myStackedRunningInstances, myCurrentRunningInstance, nested, myEvents>>

CallFunctionInAll ==
    /\ MayBroadcast /\ InProgram /\ Len(calls) + 1 < DepthLimit
    /\ calls' = Append(calls, [kind |-> "all", left |-> Scripts])
    /\ UNCHANGED <<files, running, myEvents, crashed>>

\* Only open scripts, in the order of the hash map; the running stack is left alone.
CallNextScript ==
    /\ TopIs("all") /\ ~crashed
    /\ IF Top.left = {} THEN calls' = Front(calls)
       ELSE \E s \in Top.left :
                LET rest == Replace([Top EXCEPT !.left = @ \ {s}])
                IN  calls' = IF myFileOpen[s] THEN Append(rest, CodeOf(s, FALSE)) ELSE rest
    /\ UNCHANGED <<files, running, myEvents, crashed>>

\* NodeScript::Run and Event, once the arguments are known.
RunNode(n, below) ==
    LET s == NodeScriptOf[n]
    IN  /\ myCurrentRunningInstance' = n
        /\ myStackedRunningInstances' = [myStackedRunningInstances EXCEPT ![s] = Append(@, n)]
        /\ Execute(s, Append(below, NodeRun(n)))
        /\ nested' = (nested \/ \E f \in ToSet(below) : f.kind = "node" /\ ~f.returned)

Run(n) ==
    /\ InProgram /\ Len(calls) < DepthLimit
    /\ \A m \in Nodes : WasOpened(NodeScriptOf[m])
    /\ calls' = Append(calls, InputOf(n))
    /\ UNCHANGED <<files, running, myEvents, crashed>>

\* GetInput runs the nodes whose output is needed, and those theirs.
GetInput ==
    /\ TopIs("input") /\ ~crashed
    /\ IF Top.todo = <<>>
       THEN RunNode(Top.node, Front(calls))
       ELSE /\ calls' = Append(Replace([Top EXCEPT !.todo = Tail(@)]), InputOf(Head(Top.todo)))
            /\ UNCHANGED <<running, crashed>>
    /\ UNCHANGED <<files, myEvents>>

\* A function of a script returns.  If a node was run the value may name its
\* call pin.
Return ==
    /\ TopIs("vm") /\ ~crashed
    /\ LET below == Front(calls)
           isNode == below # <<>> /\ Last(below).kind = "node"
       IN  \E todo \in IF isNode THEN {<<>>, wiring.calls[Last(below).node]} ELSE {<<>>} :
               calls' = IF isNode
                        THEN [below EXCEPT ![Len(below)].returned = TRUE,
                                           ![Len(below)].todo = todo]
                        ELSE below
    /\ myRunningScriptStack' = IF Top.pushed THEN Front(myRunningScriptStack)
                               ELSE myRunningScriptStack
    /\ UNCHANGED <<files, myStackedRunningInstances, myCurrentRunningInstance, nested, myEvents,
                   crashed>>

CallConnected ==
    /\ TopIs("node") /\ ~crashed /\ Top.todo # <<>>
    /\ calls' = Append(Replace([Top EXCEPT !.todo = Tail(@)]), InputOf(Head(Top.todo)))
    /\ UNCHANGED <<files, running, myEvents, crashed>>

FaultyEndRun ==
    /\ TopIs("node") /\ ~crashed /\ Top.todo = <<>>
    /\ calls' = Front(calls)
    /\ UNCHANGED <<files, myRunningScriptStack, myStackedRunningInstances,
                   myCurrentRunningInstance, nested, myEvents, crashed>>

EndRun ==
    /\ TopIs("node") /\ ~crashed /\ Top.todo = <<>>
    /\ LET s == NodeScriptOf[Top.node]
       IN  myStackedRunningInstances' = [myStackedRunningInstances EXCEPT ![s] = Front(@)]
    /\ myCurrentRunningInstance' = NoNode
    /\ calls' = Front(calls)
    /\ UNCHANGED <<files, myRunningScriptStack, nested, myEvents, crashed>>

-----------------------------------------------------------------------------
(* Events.                                                                 *)

RegisterEventListener(e, l) ==
    /\ Len(myEvents[e]) < ListLimit
    /\ \A f \in ToSet(calls) :
           f.kind = "event" => (f.event = e => f.allowed[l] < TellLimit)
    /\ myEvents' = [myEvents EXCEPT ![e] = Append(@, l)]
    /\ calls' = [n \in DOMAIN calls |->
                    IF calls[n].kind # "event" THEN calls[n]
                    ELSE IF calls[n].event # e THEN calls[n]
                    ELSE [calls[n] EXCEPT !.allowed[l] = @ + 1]]
    /\ UNCHANGED <<files, running, crashed>>

\* The first one that matches; the last listener takes its place.
UnregisterEventListener(e, l) ==
    /\ LET list == myEvents[e]
       IN  \E n \in DOMAIN list :
               /\ list[n] = l /\ \A m \in 1 .. n - 1 : list[m] # l
               /\ myEvents' = [myEvents EXCEPT ![e] = Front([list EXCEPT ![n] = Last(list)])]
    /\ calls' = [n \in DOMAIN calls |->
                    IF calls[n].kind # "event" THEN calls[n]
                    ELSE [calls[n] EXCEPT !.shrunk = @ \/ calls[n].event = e]]
    /\ UNCHANGED <<files, running, crashed>>

\* A global function, for a script that has been opened.
ByName(e, s) ==
    /\ InProgram /\ WasOpened(s)
    /\ LET l == [script |-> s, node |-> NoNode]
       IN  RegisterEventListener(e, l) \/ UnregisterEventListener(e, l)

CallEvent(e) ==
    /\ InProgram /\ Len(calls) < DepthLimit
    /\ calls' = Append(calls, EventLoop(e))
    /\ UNCHANGED <<files, running, myEvents, crashed>>

FaultyCallListener ==
    /\ TopIs("event") /\ ~crashed
    /\ LET list == myEvents[Top.event]
           l == list[Top.index]
           below == Replace([Top EXCEPT !.index = IF Top.shrunk THEN @ ELSE @ + 1,
                                        !.told = Append(@, l)])
       IN  IF Top.index > Len(list)
           THEN calls' = Front(calls) /\ UNCHANGED <<running, crashed>>
           ELSE IF l.node = NoNode
           THEN /\ Execute(l.script, below)
                /\ UNCHANGED <<myStackedRunningInstances, myCurrentRunningInstance, nested>>
           ELSE RunNode(l.node, below)
    /\ UNCHANGED <<files, myEvents>>

\* One round of CallEvent's loop.
CallListener ==
    /\ TopIs("event") /\ ~crashed
    /\ LET list == myEvents[Top.event]
           l == list[Top.index]
           below == Replace([Top EXCEPT !.index = @ + 1, !.told = Append(@, l)])
       IN  IF Top.index > Len(list)
           THEN calls' = Front(calls) /\ UNCHANGED <<running, crashed>>
           ELSE IF l.node = NoNode
           THEN /\ Execute(l.script, below)
                /\ UNCHANGED <<myStackedRunningInstances, myCurrentRunningInstance, nested>>
           ELSE RunNode(l.node, below)
    /\ UNCHANGED <<files, myEvents>>

-----------------------------------------------------------------------------
(* Functions of one script, called by its code: SquirrelFunction looks     *)
(* them up in the script on top of the running stack.  The node script     *)
(* takes the instance on top of its own stack.                             *)

CallsOwnFunction == (TopIs("vm") \/ TopIs("open")) /\ Top.script \in bound
LookedUpIn == Last(myRunningScriptStack)
Instance == Last(myStackedRunningInstances[LookedUpIn])

\* RegisterNodeEventListener and UnregisterNodeEventListener.
NodeListener(e) ==
    /\ ~crashed /\ CallsOwnFunction
    /\ myRunningScriptStack # <<>> /\ LookedUpIn \in myScriptFunctions
    /\ myStackedRunningInstances[LookedUpIn] # <<>>
    /\ LET l == [script |-> NodeScriptOf[Instance], node |-> Instance]
       IN  RegisterEventListener(e, l) \/ UnregisterEventListener(e, l)

Stopped == crashed /\ UNCHANGED vars

Step ==
    \/ \E s \in Scripts : RegisterFunction(s) \/ OpenFile(s) \/ CloseFile(s) \/ CallFunction(s)
    \/ \E failed \in BOOLEAN : Opened(failed)
    \/ CallFunctionInAll \/ CallNextScript \/ Return
    \/ \E n \in Nodes : Run(n)
    \/ GetInput \/ CallConnected \/ EndRun
    \/ \E e \in Events : \/ CallEvent(e) \/ NodeListener(e)
                         \/ \E s \in Scripts : ByName(e, s)
    \/ CallListener \/ Stopped

\* The nodes stay connected as they are.
Next == Step /\ UNCHANGED wiring

Spec == Init /\ [][Next]_vars

-----------------------------------------------------------------------------
TypeOK ==
    /\ vm \in [Scripts -> {"null", "live", "freed"}] /\ myFileOpen \in [Scripts -> BOOLEAN]
    /\ myScriptFunctions \subseteq Scripts /\ bound \subseteq myScriptFunctions
    /\ \A e \in Events : \A n \in DOMAIN myEvents[e] : myEvents[e][n] \in Listeners
    /\ myRunningScriptStack \in Seq(Scripts)
    /\ \A s \in Scripts : \A n \in DOMAIN myStackedRunningInstances[s] :
           NodeScriptOf[myStackedRunningInstances[s][n]] = s
    /\ myCurrentRunningInstance \in Nodes \cup {NoNode}
    /\ lost \subseteq Scripts /\ crashed \in BOOLEAN /\ nested \in BOOLEAN

\* The scripts whose code the running stack should name, and the nodes that run
\* for a script, by their position in a stack of frames.
IsExecuted(f) == f.kind = "open" \/ (f.kind = "vm" /\ f.pushed)
ScriptsIn(frames) == [n \in {m \in DOMAIN frames : IsExecuted(frames[m])} |-> frames[n].script]
IsRunOf(f, s) == f.kind = "node" /\ NodeScriptOf[f.node] = s
NodesIn(frames, s) == [n \in {m \in DOMAIN frames : IsRunOf(frames[m], s)} |-> frames[n].node]

\* The stack holds the values of f, in the order of their positions.
UpTo(f, n) == {m \in DOMAIN f : m <= n}
Lists(stack, f) ==
    /\ Len(stack) = Cardinality(DOMAIN f)
    /\ \A n \in DOMAIN f : stack[Cardinality(UpTo(f, n))] = f[n]

\* The two stacks the code keeps are those of what is really being executed,
\* in the same order and without leftovers, however calls, events and nodes are
\* nested; so code that runs for a node finds its script's functions, registers
\* that node and writes that node's output (ScriptManager.cpp:275-294, 629-635; NodeScript.cpp:33-56, 62-77).
StacksMatchCalls ==
    /\ Lists(myRunningScriptStack, ScriptsIn(calls))
    /\ \A s \in Scripts : Lists(myStackedRunningInstances[s], NodesIn(calls, s))

\* GetCurrentRunningInstance is the node whose function runs, unless some node was
\* ever run from inside another's function: the inner one leaves nullptr behind
\* (NodeScript.cpp:33, 56, 62, 77).
CurrentInstanceIsKnown ==
    ~nested =>
        \A n \in DOMAIN calls : calls[n].kind = "node" /\ ~calls[n].returned
            => myCurrentRunningInstance = calls[n].node

\* As long as no listener is removed, an event calls its listeners in the order
\* they were registered, those registered meanwhile included; and it never calls
\* one more often than it was registered (ScriptManager.cpp:436, 691-702).
ListenersInOrder ==
    \A f \in ToSet(calls) :
        f.kind = "event" =>
            /\ ~f.shrunk => f.told = SubSeq(myEvents[f.event], 1, f.index - 1)
            /\ \A l \in Listeners : Occurrences(f.told, l) <= f.allowed[l]

\* A VM that is not there is used only after a file was lost or failed to load
\* again: listeners outlive it (ScriptManager.cpp:281, 324-326, 572).
CrashOnlyAfterLoss == crashed => lost # {}

\* However scripts, events and nodes run inside one another: the stacks say what
\* is executed, the current node is the right one, and no VM is used that is
\* not there (ScriptManager.cpp:275-294, 572; NodeScript.cpp:33-77).
ScriptManagerInv ==
    TypeOK /\ StacksMatchCalls /\ CurrentInstanceIsKnown /\ CrashOnlyAfterLoss
=============================================================================
