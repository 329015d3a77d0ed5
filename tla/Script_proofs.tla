--------------------------- MODULE Script_proofs ---------------------------
(***************************************************************************)
(* Theorems about scripts.                                                 *)
(*                                                                         *)
(* The script manager, for any scripts, nodes, events and connections,     *)
(* however deep calls, events and nodes run inside one another: the stacks *)
(* the code keeps say what is being executed, the current node is the      *)
(* right one, no VM is used that is not there unless a file was lost, and  *)
(* events call their listeners in order and not too often.  A step changes *)
(* the top of "calls", or the listeners an event may call.  So the lemmas  *)
(* are about stacks of frames of which the top is pushed, popped or        *)
(* replaced, one lemma for each part of the invariant, and the actions     *)
(* then say which of these they are.                                       *)
(*                                                                         *)
(* The graph of a visual script, for any file: the nodes are connected as  *)
(* the file says.                                                          *)
(***************************************************************************)
EXTENDS ScriptManager, NodeGraph, FiniteSetTheorems, SequenceTheorems, TLAPS

-----------------------------------------------------------------------------
(* The invariant.                                                          *)

VmFrames == [kind : {"vm"}, script : Scripts, pushed : BOOLEAN]
OpenFrames == [kind : {"open"}, script : Scripts]
NodeFrames == [kind : {"node"}, node : Nodes, returned : BOOLEAN, todo : Seq(Nodes)]
InputFrames == [kind : {"input"}, node : Nodes, todo : Seq(Nodes)]
EventFrames == [kind : {"event"}, event : Events, index : Nat \ {0}, told : Seq(Listeners),
                shrunk : BOOLEAN, allowed : [Listeners -> Nat]]
AllFrames == [kind : {"all"}, left : SUBSET Scripts]
Frames == VmFrames \cup OpenFrames \cup NodeFrames \cup InputFrames \cup EventFrames
          \cup AllFrames

NodesOf(s) == {n \in Nodes : NodeScriptOf[n] = s}

Types ==
    /\ wiring \in Wirings
    /\ vm \in [Scripts -> {"null", "live", "freed"}] /\ myFileOpen \in [Scripts -> BOOLEAN]
    /\ myScriptFunctions \subseteq Scripts /\ bound \subseteq myScriptFunctions
    /\ myEvents \in [Events -> Seq(Listeners)]
    /\ myCurrentRunningInstance \in Nodes \cup {NoNode}
    /\ lost \subseteq Scripts /\ crashed \in BOOLEAN /\ nested \in BOOLEAN
StackTypes(stack, instances) ==
    /\ stack \in Seq(Scripts) /\ instances \in [Scripts -> Seq(Nodes)]
    /\ \A s \in Scripts : instances[s] \in Seq(NodesOf(s))

\* StacksMatchCalls, for any stack of frames.
StacksFit(stack, instances, frames) ==
    /\ Lists(stack, ScriptsIn(frames))
    /\ \A s \in Scripts : Lists(instances[s], NodesIn(frames, s))

\* A node's function is executed right above the node until it has returned;
\* unless nodes ran inside one another, no other node is above.
Unreturned(f) == f.kind = "node" /\ ~f.returned
CodeAbove(frames) ==
    \A n \in DOMAIN frames :
        Unreturned(frames[n]) => n < Len(frames) /\ frames[n + 1].kind = "vm"
CurrentOf(frames, current) ==
    \A n \in DOMAIN frames :
        Unreturned(frames[n]) => /\ current = frames[n].node
                                 /\ \A m \in n + 1 .. Len(frames) : frames[m].kind # "node"

\* Whatever is still going to be executed was opened, and is live unless some
\* file was lost.
NodesOpened == \A m \in Nodes : WasOpened(NodeScriptOf[m])
NeedsNodes(frames) == \E n \in DOMAIN frames : frames[n].kind \in {"node", "input"}
IsCallable(l) == WasOpened(l.script) /\ (l.node # NoNode => NodesOpened)
ListenersCallable == \A e \in Events : \A n \in DOMAIN myEvents[e] : IsCallable(myEvents[e][n])
VmsInv ==
    /\ lost = {} => \A s \in Scripts : vm[s] # "freed"
    /\ NeedsNodes(calls) => NodesOpened
    /\ ListenersCallable
    /\ CrashOnlyAfterLoss

\* An event has called a part of its list, and what it called and what it is
\* going to call is not more than it may.
Left(list, index, l) == {n \in index .. Len(list) : list[n] = l}
Called(list, l) == {n \in 1 .. Len(list) : list[n] = l}
EventFits(f, list) ==
    /\ ~f.shrunk => f.index <= Len(list) + 1 /\ f.told = SubSeq(list, 1, f.index - 1)
    /\ \A l \in Listeners :
           Cardinality(Called(f.told, l)) + Cardinality(Left(list, f.index, l)) <= f.allowed[l]
FitsIn(f, events) == f.kind = "event" => EventFits(f, events[f.event])
EventsFit(frames, events) == \A n \in DOMAIN frames : FitsIn(frames[n], events)

\* All that is about the stack of frames.
Good(frames, stack, instances, current, nest, events) ==
    /\ frames \in Seq(Frames) /\ StackTypes(stack, instances)
    /\ StacksFit(stack, instances, frames)
    /\ CodeAbove(frames) /\ (~nest => CurrentOf(frames, current))
    /\ EventsFit(frames, events)
AllGood == Good(calls, myRunningScriptStack, myStackedRunningInstances,
                myCurrentRunningInstance, nested, myEvents)

IInv == Types /\ AllGood /\ VmsInv

-----------------------------------------------------------------------------
(* Sequences.                                                              *)

LEMMA FrontFacts ==
    ASSUME NEW S, NEW s \in Seq(S), s # <<>>
    PROVE  /\ Len(s) \in Nat \ {0} /\ Last(s) = s[Len(s)] /\ Last(s) \in S
           /\ Front(s) \in Seq(S) /\ Len(Front(s)) = Len(s) - 1
           /\ \A n \in 1 .. Len(s) - 1 : Front(s)[n] = s[n]
  <1>1. Len(s) \in Nat \ {0}
    BY EmptySeq, LenProperties
  <1>2. /\ SubSeq(s, 1, Len(s) - 1) \in Seq(S) /\ Len(SubSeq(s, 1, Len(s) - 1)) = Len(s) - 1
        /\ \A n \in 1 .. Len(s) - 1 : SubSeq(s, 1, Len(s) - 1)[n] = s[n]
    <2> DEFINE m == Len(s) - 1
    <2>1. m \in Nat /\ \A n \in 1 .. m : s[n] \in S
      BY <1>1, ElementOfSeq
    <2>2. m - 1 + 1 = m /\ \A n \in Nat : 1 + n - 1 = n
      BY <2>1
    <2> HIDE DEF m
    <2>3. /\ SubSeq(s, 1, m) \in Seq(S) /\ Len(SubSeq(s, 1, m)) = m
          /\ \A n \in 1 .. m : SubSeq(s, 1, m)[n] = s[n]
      BY <2>1, <2>2, SubSeqProperties
    <2>4. QED
      BY <2>3 DEF m
  <1>3. QED
    BY <1>1, <1>2, ElementOfSeq DEF Front, Last

LEMMA AppendFacts ==
    ASSUME NEW S, NEW s \in Seq(S), NEW e \in S
    PROVE  /\ Append(s, e) \in Seq(S) /\ Len(Append(s, e)) = Len(s) + 1
           /\ \A n \in 1 .. Len(s) : Append(s, e)[n] = s[n]
           /\ Append(s, e)[Len(s) + 1] = e
  BY AppendProperties

LEMMA TailFacts ==
    ASSUME NEW S, NEW s \in Seq(S), s # <<>>
    PROVE  Head(s) \in S /\ Tail(s) \in Seq(S)
  BY HeadTailProperties

LEMMA ReplaceFacts ==
    ASSUME NEW S, NEW s \in Seq(S), NEW k \in 1 .. Len(s), NEW e \in S
    PROVE  /\ [s EXCEPT ![k] = e] \in Seq(S) /\ Len([s EXCEPT ![k] = e]) = Len(s)
           /\ \A n \in 1 .. Len(s) : [s EXCEPT ![k] = e][n] = IF n = k THEN e ELSE s[n]
  BY ExceptSeq

-----------------------------------------------------------------------------
(* Stacks that list the values of a function.                              *)

IndexSets(f) == IsFiniteSet(DOMAIN f) /\ DOMAIN f \subseteq Nat

LEMMA UpToFacts ==
    ASSUME NEW f, IndexSets(f), NEW n \in DOMAIN f
    PROVE  /\ IsFiniteSet(UpTo(f, n))
           /\ Cardinality(UpTo(f, n)) \in 1 .. Cardinality(DOMAIN f)
  <1>1. UpTo(f, n) \in SUBSET DOMAIN f /\ n \in UpTo(f, n)
    BY DEF UpTo, IndexSets
  <1>2. IsFiniteSet(UpTo(f, n)) /\ Cardinality(UpTo(f, n)) <= Cardinality(DOMAIN f)
    BY <1>1, FS_Subset DEF IndexSets
  <1>3. Cardinality(UpTo(f, n)) # 0 /\ Cardinality(UpTo(f, n)) \in Nat
    BY <1>1, <1>2, FS_EmptySet, FS_CardinalityType
  <1>4. Cardinality(DOMAIN f) \in Nat
    BY FS_CardinalityType DEF IndexSets
  <1>5. QED
    BY <1>2, <1>3, <1>4

\* A value is put on top.
LEMMA ListsPush ==
    ASSUME NEW S, NEW stack \in Seq(S), NEW f, NEW g, IndexSets(f), Lists(stack, f),
           NEW k \in Nat, \A n \in DOMAIN f : n < k, DOMAIN g = DOMAIN f \cup {k},
           \A n \in DOMAIN f : g[n] = f[n], g[k] \in S
    PROVE  Lists(Append(stack, g[k]), g)
  <1>1. k \notin DOMAIN f /\ IsFiniteSet(DOMAIN f)
    BY DEF IndexSets
  <1>2. Cardinality(DOMAIN g) = Cardinality(DOMAIN f) + 1
    BY <1>1, FS_AddElement
  <1>3. Len(stack) = Cardinality(DOMAIN f) /\ Len(stack) \in Nat
    BY LenProperties DEF Lists
  <1>4. UpTo(g, k) = DOMAIN g
    BY DEF UpTo, IndexSets
  <1>5. \A n \in DOMAIN f : UpTo(g, n) = UpTo(f, n)
    BY DEF UpTo, IndexSets
  <1>6. Append(stack, g[k])[Len(stack) + 1] = g[k] /\ Len(Append(stack, g[k])) = Len(stack) + 1
    BY AppendFacts
  <1>7. ASSUME NEW n \in DOMAIN f
        PROVE  Append(stack, g[k])[Cardinality(UpTo(g, n))] = g[n]
    <2>1. Cardinality(UpTo(f, n)) \in 1 .. Len(stack)
      BY UpToFacts, <1>3
    <2>2. stack[Cardinality(UpTo(f, n))] = f[n]
      BY DEF Lists
    <2>3. Append(stack, g[k])[Cardinality(UpTo(f, n))] = stack[Cardinality(UpTo(f, n))]
      BY <2>1, AppendFacts
    <2>4. QED
      BY <2>2, <2>3, <1>5
  <1>8. QED
    BY <1>2, <1>3, <1>4, <1>6, <1>7 DEF Lists

\* The value on top is taken away.
LEMMA ListsPop ==
    ASSUME NEW S, NEW stack \in Seq(S), NEW f, NEW g, IndexSets(f), Lists(stack, f),
           NEW k \in DOMAIN f, \A n \in DOMAIN f : n <= k, DOMAIN g = DOMAIN f \ {k},
           \A n \in DOMAIN g : g[n] = f[n]
    PROVE  stack # <<>> /\ Last(stack) = f[k] /\ Lists(Front(stack), g)
  <1>1. Len(stack) = Cardinality(DOMAIN f) /\ Len(stack) \in Nat /\ IsFiniteSet(DOMAIN f)
    BY LenProperties DEF Lists, IndexSets
  <1>2. Cardinality(DOMAIN g) = Len(stack) - 1
    BY <1>1, FS_RemoveElement
  <1>3. UpTo(f, k) = DOMAIN f
    BY DEF UpTo, IndexSets
  <1>4. stack[Len(stack)] = f[k] /\ Len(stack) # 0
    BY <1>1, <1>3, FS_EmptySet DEF Lists
  <1>5. stack # <<>>
    BY <1>4
  <1>6. /\ Last(stack) = stack[Len(stack)] /\ Len(Front(stack)) = Len(stack) - 1
        /\ \A n \in 1 .. Len(stack) - 1 : Front(stack)[n] = stack[n]
    BY <1>5, FrontFacts
  <1>7. IndexSets(g)
    BY <1>1, FS_RemoveElement DEF IndexSets
  <1>8. ASSUME NEW n \in DOMAIN g
        PROVE  Front(stack)[Cardinality(UpTo(g, n))] = g[n]
    <2>1. UpTo(g, n) = UpTo(f, n)
      BY DEF UpTo, IndexSets
    <2>2. Cardinality(UpTo(g, n)) \in 1 .. Len(stack) - 1
      BY <1>2, <1>7, UpToFacts
    <2>3. stack[Cardinality(UpTo(g, n))] = f[n]
      BY <2>1 DEF Lists
    <2>4. QED
      BY <1>6, <2>2, <2>3
  <1>9. QED
    BY <1>2, <1>4, <1>5, <1>6, <1>8 DEF Lists

\* Nothing changes.
LEMMA ListsSame ==
    ASSUME NEW stack, NEW f, NEW g, Lists(stack, f), DOMAIN g = DOMAIN f,
           \A n \in DOMAIN f : g[n] = f[n]
    PROVE  Lists(stack, g)
  <1>1. \A n \in DOMAIN f : UpTo(g, n) = UpTo(f, n)
    BY DEF UpTo
  <1>2. QED
    BY <1>1 DEF Lists

-----------------------------------------------------------------------------
(* The stacks beside the frames: StacksMatchCalls.                         *)

LEMMA ExecutedHaveScripts ==
    ASSUME NEW f \in Frames
    PROVE  /\ IsExecuted(f) => f.script \in Scripts
           /\ IsExecuted(f) => f.kind # "node"
           /\ f.kind = "node" => f.node \in Nodes /\ NodeScriptOf[f.node] \in Scripts
  BY ScriptsAssumption
     DEF Frames, VmFrames, OpenFrames, NodeFrames, InputFrames, EventFrames, AllFrames, IsExecuted

LEMMA PositionsAreIndices ==
    ASSUME NEW frames \in Seq(Frames)
    PROVE  /\ Len(frames) \in Nat /\ DOMAIN frames = 1 .. Len(frames)
           /\ IndexSets(ScriptsIn(frames))
           /\ DOMAIN ScriptsIn(frames) = {m \in 1 .. Len(frames) : IsExecuted(frames[m])}
           /\ \A s : /\ IndexSets(NodesIn(frames, s))
                     /\ DOMAIN NodesIn(frames, s) =
                            {m \in 1 .. Len(frames) : IsRunOf(frames[m], s)}
  <1>1. Len(frames) \in Nat /\ DOMAIN frames = 1 .. Len(frames)
    BY LenProperties
  <1>2. IsFiniteSet(1 .. Len(frames)) /\ 1 .. Len(frames) \subseteq Nat
    BY <1>1, FS_Interval
  <1>3. \A P \in SUBSET (1 .. Len(frames)) : IsFiniteSet(P) /\ P \subseteq Nat
    BY <1>2, FS_Subset
  <1>4. DOMAIN ScriptsIn(frames) = {m \in 1 .. Len(frames) : IsExecuted(frames[m])}
    BY <1>1 DEF ScriptsIn
  <1>5. \A s : DOMAIN NodesIn(frames, s) = {m \in 1 .. Len(frames) : IsRunOf(frames[m], s)}
    BY <1>1 DEF NodesIn
  <1>6. IndexSets(ScriptsIn(frames))
    BY <1>3, <1>4, Zenon DEF IndexSets
  <1>7. \A s : IndexSets(NodesIn(frames, s))
    BY <1>3, <1>5, Zenon DEF IndexSets
  <1>8. QED
    BY <1>1, <1>4, <1>5, <1>6, <1>7

LEMMA NodePositions ==
    ASSUME NEW frames \in Seq(Frames), NEW s
    PROVE  /\ IndexSets(NodesIn(frames, s))
           /\ DOMAIN NodesIn(frames, s) = {m \in 1 .. Len(frames) : IsRunOf(frames[m], s)}
           /\ \A n \in DOMAIN NodesIn(frames, s) : NodesIn(frames, s)[n] = frames[n].node
  <1>1. IndexSets(NodesIn(frames, s))
    BY PositionsAreIndices
  <1>2. DOMAIN frames = 1 .. Len(frames)
    BY PositionsAreIndices
  <1>3. QED
    BY <1>1, <1>2 DEF NodesIn

\* Every position is below the next one.
LEMMA PositionsBelow ==
    ASSUME NEW frames \in Seq(Frames), NEW s
    PROVE  /\ Len(frames) + 1 \in Nat
           /\ \A n \in DOMAIN ScriptsIn(frames) : n < Len(frames) + 1
           /\ \A n \in DOMAIN NodesIn(frames, s) : n < Len(frames) + 1
  <1>1. Len(frames) \in Nat /\ \A n \in 1 .. Len(frames) : n < Len(frames) + 1
    BY LenProperties
  <1>2. DOMAIN ScriptsIn(frames) \subseteq 1 .. Len(frames)
    BY PositionsAreIndices
  <1>3. DOMAIN NodesIn(frames, s) \subseteq 1 .. Len(frames)
    BY NodePositions
  <1>4. QED
    BY <1>1, <1>2, <1>3

LEMMA ValuesIn ==
    ASSUME NEW frames
    PROVE  /\ \A n \in DOMAIN ScriptsIn(frames) : ScriptsIn(frames)[n] = frames[n].script
           /\ \A s : \A n \in DOMAIN NodesIn(frames, s) : NodesIn(frames, s)[n] = frames[n].node
  BY DEF ScriptsIn, NodesIn

\* Frames that differ in nothing the stacks are about.
Alike(f, g) ==
    /\ g.kind = f.kind
    /\ f.kind = "vm" => g.script = f.script /\ g.pushed = f.pushed
    /\ f.kind = "open" => g.script = f.script
    /\ f.kind = "node" => g.node = f.node

LEMMA StacksSame ==
    ASSUME NEW c \in Seq(Frames), NEW d \in Seq(Frames), Len(d) = Len(c),
           \A n \in 1 .. Len(c) : Alike(c[n], d[n]),
           NEW stack, NEW instances, StacksFit(stack, instances, c)
    PROVE  StacksFit(stack, instances, d)
  <1>1. \A n \in 1 .. Len(c) : IsExecuted(d[n]) <=> IsExecuted(c[n])
    BY DEF Alike, IsExecuted
  <1>2. \A n \in 1 .. Len(c) : \A s : IsRunOf(d[n], s) <=> IsRunOf(c[n], s)
    BY DEF Alike, IsRunOf
  <1>3. DOMAIN ScriptsIn(d) = DOMAIN ScriptsIn(c)
    BY <1>1, PositionsAreIndices
  <1>4. ASSUME NEW s PROVE DOMAIN NodesIn(d, s) = DOMAIN NodesIn(c, s)
    <2>1. DOMAIN NodesIn(d, s) = {m \in 1 .. Len(d) : IsRunOf(d[m], s)}
      BY NodePositions
    <2>2. DOMAIN NodesIn(c, s) = {m \in 1 .. Len(c) : IsRunOf(c[m], s)}
      BY NodePositions
    <2>3. QED
      BY <1>2, <2>1, <2>2
  <1>5. \A n \in DOMAIN ScriptsIn(c) : ScriptsIn(d)[n] = ScriptsIn(c)[n]
    <2> TAKE n \in DOMAIN ScriptsIn(c)
    <2>1. n \in 1 .. Len(c) /\ IsExecuted(c[n])
      BY PositionsAreIndices
    <2>2. d[n].script = c[n].script
      BY <2>1 DEF Alike, IsExecuted
    <2>3. QED
      BY <2>2, <1>3, ValuesIn
  <1>6. ASSUME NEW s, NEW n \in DOMAIN NodesIn(c, s)
        PROVE  NodesIn(d, s)[n] = NodesIn(c, s)[n]
    <2>1. n \in 1 .. Len(c) /\ IsRunOf(c[n], s)
      BY NodePositions
    <2>2. d[n].node = c[n].node
      BY <2>1 DEF Alike, IsRunOf
    <2>3. n \in DOMAIN NodesIn(d, s)
      BY <1>4
    <2>4. NodesIn(d, s)[n] = d[n].node /\ NodesIn(c, s)[n] = c[n].node
      BY <2>3, NodePositions
    <2>5. QED
      BY <2>2, <2>4
  <1>7. Lists(stack, ScriptsIn(d))
    BY <1>3, <1>5, ListsSame DEF StacksFit
  <1>8. ASSUME NEW s \in Scripts PROVE Lists(instances[s], NodesIn(d, s))
    <2>1. Lists(instances[s], NodesIn(c, s))
      BY DEF StacksFit
    <2>2. QED
      BY <2>1, <1>4, <1>6, ListsSame
  <1>9. QED
    BY <1>7, <1>8 DEF StacksFit

\* What a new frame on top adds to the functions.
LEMMA PushedIn ==
    ASSUME NEW c \in Seq(Frames), NEW f \in Frames, NEW s
    PROVE  /\ DOMAIN ScriptsIn(Append(c, f)) =
                  DOMAIN ScriptsIn(c) \cup (IF IsExecuted(f) THEN {Len(c) + 1} ELSE {})
           /\ DOMAIN NodesIn(Append(c, f), s) =
                  DOMAIN NodesIn(c, s) \cup (IF IsRunOf(f, s) THEN {Len(c) + 1} ELSE {})
           /\ \A n \in DOMAIN ScriptsIn(c) : ScriptsIn(Append(c, f))[n] = ScriptsIn(c)[n]
           /\ \A n \in DOMAIN NodesIn(c, s) : NodesIn(Append(c, f), s)[n] = NodesIn(c, s)[n]
           /\ IsExecuted(f) => ScriptsIn(Append(c, f))[Len(c) + 1] = f.script
           /\ IsRunOf(f, s) => NodesIn(Append(c, f), s)[Len(c) + 1] = f.node
  <1> DEFINE d == Append(c, f)
  <1>1. /\ d \in Seq(Frames) /\ Len(d) = Len(c) + 1 /\ Len(c) \in Nat
        /\ \A n \in 1 .. Len(c) : d[n] = c[n]
        /\ d[Len(c) + 1] = f
    BY AppendFacts, LenProperties
  <1> HIDE DEF d
  <1>2. \A n : n \in 1 .. Len(d) <=> n \in 1 .. Len(c) \/ n = Len(c) + 1
    BY <1>1
  <1>3. /\ DOMAIN ScriptsIn(c) = {m \in 1 .. Len(c) : IsExecuted(c[m])}
        /\ DOMAIN NodesIn(c, s) = {m \in 1 .. Len(c) : IsRunOf(c[m], s)}
        /\ DOMAIN ScriptsIn(d) = {m \in 1 .. Len(d) : IsExecuted(d[m])}
        /\ DOMAIN NodesIn(d, s) = {m \in 1 .. Len(d) : IsRunOf(d[m], s)}
    BY <1>1, PositionsAreIndices
  <1>4. Len(c) + 1 \notin 1 .. Len(c)
    BY <1>1
  <1>5. DOMAIN ScriptsIn(d) = DOMAIN ScriptsIn(c) \cup (IF IsExecuted(f) THEN {Len(c) + 1} ELSE {})
    BY <1>1, <1>2, <1>3, <1>4
  <1>6. DOMAIN NodesIn(d, s) =
            DOMAIN NodesIn(c, s) \cup (IF IsRunOf(f, s) THEN {Len(c) + 1} ELSE {})
    BY <1>1, <1>2, <1>3, <1>4
  <1>7. \A n \in DOMAIN ScriptsIn(c) : ScriptsIn(d)[n] = ScriptsIn(c)[n]
    BY <1>1, <1>3, <1>5, ValuesIn
  <1>8. \A n \in DOMAIN NodesIn(c, s) : NodesIn(d, s)[n] = NodesIn(c, s)[n]
    BY <1>1, <1>3, <1>6, ValuesIn
  <1>9. IsExecuted(f) => ScriptsIn(d)[Len(c) + 1] = f.script
    BY <1>1, <1>5, ValuesIn
  <1>10. IsRunOf(f, s) => NodesIn(d, s)[Len(c) + 1] = f.node
    BY <1>1, <1>6, ValuesIn
  <1>11. QED
    BY <1>5, <1>6, <1>7, <1>8, <1>9, <1>10 DEF d

LEMMA NodesPush ==
    ASSUME NEW c \in Seq(Frames), NEW f \in Frames, NEW s, IsRunOf(f, s), f.node \in Nodes,
           NEW stack \in Seq(Nodes), Lists(stack, NodesIn(c, s))
    PROVE  Lists(Append(stack, f.node), NodesIn(Append(c, f), s))
  <1> DEFINE k == Len(c) + 1  g == NodesIn(Append(c, f), s)  h == NodesIn(c, s)
  <1>1. DOMAIN g = DOMAIN h \cup {k} /\ (\A n \in DOMAIN h : g[n] = h[n]) /\ g[k] = f.node
    BY PushedIn
  <1>2. IndexSets(h) /\ Lists(stack, h)
    BY NodePositions
  <1>3. k \in Nat /\ \A n \in DOMAIN h : n < k
    BY PositionsBelow
  <1> HIDE DEF k, g, h
  <1>4. Lists(Append(stack, g[k]), g)
    BY <1>1, <1>2, <1>3, ListsPush
  <1>5. QED
    BY <1>1, <1>4 DEF g

LEMMA NodesKeep ==
    ASSUME NEW c \in Seq(Frames), NEW f \in Frames, NEW s, ~IsRunOf(f, s),
           NEW stack, Lists(stack, NodesIn(c, s))
    PROVE  Lists(stack, NodesIn(Append(c, f), s))
  <1> DEFINE d == Append(c, f)
  <1>1. /\ d \in Seq(Frames) /\ Len(d) = Len(c) + 1 /\ Len(c) \in Nat
        /\ \A n \in 1 .. Len(c) : d[n] = c[n]
        /\ d[Len(c) + 1] = f
    BY AppendFacts, LenProperties
  <1> HIDE DEF d
  <1>2. DOMAIN NodesIn(d, s) = DOMAIN NodesIn(c, s)
    <2>1. DOMAIN NodesIn(d, s) = {m \in 1 .. Len(d) : IsRunOf(d[m], s)}
      BY <1>1, NodePositions
    <2>2. DOMAIN NodesIn(c, s) = {m \in 1 .. Len(c) : IsRunOf(c[m], s)}
      BY NodePositions
    <2>3. QED
      BY <1>1, <2>1, <2>2
  <1>3. ASSUME NEW n \in DOMAIN NodesIn(c, s)
        PROVE  NodesIn(d, s)[n] = NodesIn(c, s)[n]
    <2>1. NodesIn(d, s)[n] = d[n].node /\ NodesIn(c, s)[n] = c[n].node /\ n \in 1 .. Len(c)
      BY <1>1, <1>2, NodePositions
    <2>2. QED
      BY <1>1, <2>1
  <1>4. Lists(stack, NodesIn(d, s))
    BY <1>2, <1>3, ListsSame
  <1>5. QED
    BY <1>4 DEF d

LEMMA StacksPushOther ==
    ASSUME NEW c \in Seq(Frames), NEW f \in Frames, ~IsExecuted(f), f.kind # "node",
           NEW stack, NEW instances, StacksFit(stack, instances, c)
    PROVE  StacksFit(stack, instances, Append(c, f))
  <1>1. Lists(stack, ScriptsIn(Append(c, f)))
    <2>1. Lists(stack, ScriptsIn(c))
      BY DEF StacksFit
    <2>2. /\ DOMAIN ScriptsIn(Append(c, f)) = DOMAIN ScriptsIn(c)
          /\ \A n \in DOMAIN ScriptsIn(c) : ScriptsIn(Append(c, f))[n] = ScriptsIn(c)[n]
      BY PushedIn
    <2>3. QED
      BY <2>1, <2>2, ListsSame
  <1>2. ASSUME NEW s \in Scripts PROVE Lists(instances[s], NodesIn(Append(c, f), s))
    <2>1. Lists(instances[s], NodesIn(c, s))
      BY DEF StacksFit
    <2>2. ~IsRunOf(f, s)
      BY DEF IsRunOf
    <2>3. QED
      BY <2>1, <2>2, NodesKeep
  <1>3. QED
    BY <1>1, <1>2 DEF StacksFit

LEMMA StacksPushCode ==
    ASSUME NEW c \in Seq(Frames), NEW f \in Frames, IsExecuted(f),
           NEW stack \in Seq(Scripts), NEW instances, StacksFit(stack, instances, c)
    PROVE  StacksFit(Append(stack, f.script), instances, Append(c, f))
  <1>1. f.script \in Scripts /\ f.kind # "node"
    BY ExecutedHaveScripts
  <1>3. Lists(Append(stack, f.script), ScriptsIn(Append(c, f)))
    <2> DEFINE k == Len(c) + 1  g == ScriptsIn(Append(c, f))  h == ScriptsIn(c)
    <2>1. DOMAIN g = DOMAIN h \cup {k} /\ (\A n \in DOMAIN h : g[n] = h[n]) /\ g[k] = f.script
      BY PushedIn
    <2>2. IndexSets(h) /\ Lists(stack, h)
      BY PositionsAreIndices DEF StacksFit
    <2>3. k \in Nat /\ \A n \in DOMAIN h : n < k
      BY PositionsBelow
    <2> HIDE DEF k, g, h
    <2>4. Lists(Append(stack, g[k]), g)
      BY <1>1, <2>1, <2>2, <2>3, ListsPush
    <2>5. QED
      BY <2>1, <2>4 DEF g
  <1>4. ASSUME NEW s \in Scripts PROVE Lists(instances[s], NodesIn(Append(c, f), s))
    <2>1. Lists(instances[s], NodesIn(c, s))
      BY DEF StacksFit
    <2>2. ~IsRunOf(f, s)
      BY <1>1 DEF IsRunOf
    <2>3. QED
      BY <2>1, <2>2, NodesKeep
  <1>5. QED
    BY <1>3, <1>4 DEF StacksFit

LEMMA StacksPushNode ==
    ASSUME NEW c \in Seq(Frames), NEW f \in Frames, f.kind = "node",
           NEW stack, NEW instances \in [Scripts -> Seq(Nodes)], StacksFit(stack, instances, c)
    PROVE  StacksFit(stack,
                     [instances EXCEPT ![NodeScriptOf[f.node]] = Append(@, f.node)],
                     Append(c, f))
  <1>1. f.node \in Nodes /\ NodeScriptOf[f.node] \in Scripts /\ ~IsExecuted(f)
    BY ExecutedHaveScripts
  <1>3. Lists(stack, ScriptsIn(Append(c, f)))
    <2>1. Lists(stack, ScriptsIn(c))
      BY DEF StacksFit
    <2>2. /\ DOMAIN ScriptsIn(Append(c, f)) = DOMAIN ScriptsIn(c)
          /\ \A n \in DOMAIN ScriptsIn(c) : ScriptsIn(Append(c, f))[n] = ScriptsIn(c)[n]
      BY <1>1, PushedIn
    <2>3. QED
      BY <2>1, <2>2, ListsSame
  <1> DEFINE after == [instances EXCEPT ![NodeScriptOf[f.node]] = Append(@, f.node)]
  <1>4. ASSUME NEW s \in Scripts PROVE Lists(after[s], NodesIn(Append(c, f), s))
    <2>1. Lists(instances[s], NodesIn(c, s)) /\ instances[s] \in Seq(Nodes)
      BY DEF StacksFit
    <2>2. CASE s = NodeScriptOf[f.node]
      <3>1. IsRunOf(f, s)
        BY <2>2 DEF IsRunOf
      <3>2. after[s] = Append(instances[s], f.node)
        BY <2>2
      <3>3. Lists(Append(instances[s], f.node), NodesIn(Append(c, f), s))
        BY <1>1, <2>1, <3>1, NodesPush
      <3>4. QED
        BY <3>2, <3>3
    <2>3. CASE s # NodeScriptOf[f.node]
      <3>1. ~IsRunOf(f, s)
        BY <2>3 DEF IsRunOf
      <3>2. after[s] = instances[s]
        BY <2>3
      <3>3. QED
        BY <2>1, <3>1, <3>2, NodesKeep
    <2>4. QED
      BY <2>2, <2>3
  <1>5. QED
    BY <1>3, <1>4 DEF StacksFit

\* What taking the top frame away takes from the functions.
LEMMA PoppedIn ==
    ASSUME NEW c \in Seq(Frames), c # <<>>, NEW s
    PROVE  /\ DOMAIN ScriptsIn(Front(c)) = DOMAIN ScriptsIn(c) \ {Len(c)}
           /\ DOMAIN NodesIn(Front(c), s) = DOMAIN NodesIn(c, s) \ {Len(c)}
           /\ \A n \in DOMAIN ScriptsIn(Front(c)) : ScriptsIn(Front(c))[n] = ScriptsIn(c)[n]
           /\ \A n \in DOMAIN NodesIn(Front(c), s) :
                  NodesIn(Front(c), s)[n] = NodesIn(c, s)[n]
           /\ Len(c) \in DOMAIN ScriptsIn(c) <=> IsExecuted(Last(c))
           /\ Len(c) \in DOMAIN NodesIn(c, s) <=> IsRunOf(Last(c), s)
           /\ \A n \in DOMAIN ScriptsIn(c) : n <= Len(c)
           /\ \A n \in DOMAIN NodesIn(c, s) : n <= Len(c)
  <1> DEFINE d == Front(c)
  <1>1. /\ d \in Seq(Frames) /\ Len(d) = Len(c) - 1 /\ Len(c) \in Nat \ {0}
        /\ \A n \in 1 .. Len(c) - 1 : d[n] = c[n]
        /\ Last(c) = c[Len(c)]
    BY FrontFacts
  <1> HIDE DEF d
  <1>2. \A n : n \in 1 .. Len(d) <=> n \in 1 .. Len(c) /\ n # Len(c)
    BY <1>1
  <1>3. /\ DOMAIN ScriptsIn(c) = {m \in 1 .. Len(c) : IsExecuted(c[m])}
        /\ DOMAIN ScriptsIn(d) = {m \in 1 .. Len(d) : IsExecuted(d[m])}
    BY <1>1, PositionsAreIndices
  <1>4. DOMAIN NodesIn(c, s) = {m \in 1 .. Len(c) : IsRunOf(c[m], s)}
    BY NodePositions
  <1>5. DOMAIN NodesIn(d, s) = {m \in 1 .. Len(d) : IsRunOf(d[m], s)}
    BY <1>1, NodePositions
  <1>6. Len(c) \in 1 .. Len(c) /\ \A n \in 1 .. Len(c) : n <= Len(c)
    BY <1>1
  <1>7. \A n \in 1 .. Len(d) : d[n] = c[n]
    BY <1>1
  <1>8. DOMAIN ScriptsIn(d) = DOMAIN ScriptsIn(c) \ {Len(c)}
    BY <1>2, <1>3, <1>7
  <1>9. DOMAIN NodesIn(d, s) = DOMAIN NodesIn(c, s) \ {Len(c)}
    BY <1>2, <1>4, <1>5, <1>7
  <1>10. ASSUME NEW n \in DOMAIN ScriptsIn(d) PROVE ScriptsIn(d)[n] = ScriptsIn(c)[n]
    <2>1. ScriptsIn(d)[n] = d[n].script /\ n \in DOMAIN ScriptsIn(c) /\ n \in 1 .. Len(d)
      BY <1>3, <1>8, ValuesIn
    <2>2. ScriptsIn(c)[n] = c[n].script
      BY <2>1, ValuesIn
    <2>3. QED
      BY <1>7, <2>1, <2>2
  <1>11. ASSUME NEW n \in DOMAIN NodesIn(d, s) PROVE NodesIn(d, s)[n] = NodesIn(c, s)[n]
    <2>1. NodesIn(d, s)[n] = d[n].node /\ n \in DOMAIN NodesIn(c, s) /\ n \in 1 .. Len(d)
      BY <1>1, <1>5, <1>9, NodePositions
    <2>2. NodesIn(c, s)[n] = c[n].node
      BY <2>1, NodePositions
    <2>3. QED
      BY <1>7, <2>1, <2>2
  <1>12. /\ Len(c) \in DOMAIN ScriptsIn(c) <=> IsExecuted(Last(c))
         /\ Len(c) \in DOMAIN NodesIn(c, s) <=> IsRunOf(Last(c), s)
    BY <1>1, <1>3, <1>4, <1>6
  <1>13. /\ \A n \in DOMAIN ScriptsIn(c) : n <= Len(c)
         /\ \A n \in DOMAIN NodesIn(c, s) : n <= Len(c)
    BY <1>3, <1>4, <1>6
  <1> USE DEF d
  <1>14. QED
    BY <1>8, <1>9, <1>10, <1>11, <1>12, <1>13

LEMMA ScriptsPop ==
    ASSUME NEW c \in Seq(Frames), c # <<>>, IsExecuted(Last(c)),
           NEW stack \in Seq(Scripts), Lists(stack, ScriptsIn(c))
    PROVE  /\ stack # <<>> /\ Last(stack) = Last(c).script
           /\ Lists(Front(stack), ScriptsIn(Front(c)))
  <1> DEFINE k == Len(c)  g == ScriptsIn(Front(c))  h == ScriptsIn(c)
  <1>1. k \in DOMAIN h /\ (\A n \in DOMAIN h : n <= k) /\ DOMAIN g = DOMAIN h \ {k}
    BY PoppedIn
  <1>2. \A n \in DOMAIN g : g[n] = h[n]
    BY PoppedIn
  <1>3. IndexSets(h)
    BY PositionsAreIndices
  <1>4. h[k] = Last(c).script
    BY <1>1, ValuesIn, FrontFacts
  <1>5. Lists(stack, h)
    OBVIOUS
  <1> HIDE DEF k, g, h
  <1>6. stack # <<>> /\ Last(stack) = h[k] /\ Lists(Front(stack), g)
    BY <1>1, <1>2, <1>3, <1>5, ListsPop
  <1>7. QED
    BY <1>4, <1>6 DEF g

LEMMA NodesPop ==
    ASSUME NEW c \in Seq(Frames), c # <<>>, NEW s, IsRunOf(Last(c), s),
           NEW stack \in Seq(Nodes), Lists(stack, NodesIn(c, s))
    PROVE  /\ stack # <<>> /\ Last(stack) = Last(c).node
           /\ Lists(Front(stack), NodesIn(Front(c), s))
  <1> DEFINE k == Len(c)  g == NodesIn(Front(c), s)  h == NodesIn(c, s)
  <1>1. k \in DOMAIN h /\ (\A n \in DOMAIN h : n <= k) /\ DOMAIN g = DOMAIN h \ {k}
    BY PoppedIn
  <1>2. \A n \in DOMAIN g : g[n] = h[n]
    BY PoppedIn
  <1>3. IndexSets(h) /\ h[k] = c[k].node
    BY <1>1, NodePositions
  <1>4. h[k] = Last(c).node
    BY <1>3, FrontFacts
  <1>5. Lists(stack, h)
    OBVIOUS
  <1> HIDE DEF k, g, h
  <1>6. stack # <<>> /\ Last(stack) = h[k] /\ Lists(Front(stack), g)
    BY <1>1, <1>2, <1>3, <1>5, ListsPop
  <1>7. QED
    BY <1>4, <1>6 DEF g

LEMMA ScriptsStay ==
    ASSUME NEW c \in Seq(Frames), c # <<>>, ~IsExecuted(Last(c)),
           NEW stack, Lists(stack, ScriptsIn(c))
    PROVE  Lists(stack, ScriptsIn(Front(c)))
  <1> DEFINE g == ScriptsIn(Front(c))  h == ScriptsIn(c)
  <1>1. Len(c) \notin DOMAIN h /\ DOMAIN g = DOMAIN h \ {Len(c)}
    BY PoppedIn
  <1>2. \A n \in DOMAIN g : g[n] = h[n]
    BY PoppedIn
  <1>3. Lists(stack, h)
    OBVIOUS
  <1> HIDE DEF g, h
  <1>4. Lists(stack, g)
    BY <1>1, <1>2, <1>3, ListsSame
  <1>5. QED
    BY <1>4 DEF g

LEMMA NodesStay ==
    ASSUME NEW c \in Seq(Frames), c # <<>>, NEW s, ~IsRunOf(Last(c), s),
           NEW stack, Lists(stack, NodesIn(c, s))
    PROVE  Lists(stack, NodesIn(Front(c), s))
  <1> DEFINE g == NodesIn(Front(c), s)  h == NodesIn(c, s)
  <1>1. Len(c) \notin DOMAIN h /\ DOMAIN g = DOMAIN h \ {Len(c)}
    BY PoppedIn
  <1>2. \A n \in DOMAIN g : g[n] = h[n]
    BY PoppedIn
  <1>3. Lists(stack, h)
    OBVIOUS
  <1> HIDE DEF g, h
  <1>4. Lists(stack, g)
    BY <1>1, <1>2, <1>3, ListsSame
  <1>5. QED
    BY <1>4 DEF g

LEMMA StacksPopOther ==
    ASSUME NEW c \in Seq(Frames), c # <<>>, ~IsExecuted(Last(c)), Last(c).kind # "node",
           NEW stack, NEW instances, StacksFit(stack, instances, c)
    PROVE  StacksFit(stack, instances, Front(c))
  <1>1. Lists(stack, ScriptsIn(Front(c)))
    BY ScriptsStay DEF StacksFit
  <1>2. ASSUME NEW s \in Scripts PROVE Lists(instances[s], NodesIn(Front(c), s))
    <2>1. Lists(instances[s], NodesIn(c, s)) /\ ~IsRunOf(Last(c), s)
      BY DEF StacksFit, IsRunOf
    <2>2. QED
      BY <2>1, NodesStay
  <1>3. QED
    BY <1>1, <1>2 DEF StacksFit

LEMMA StacksPopCode ==
    ASSUME NEW c \in Seq(Frames), c # <<>>, IsExecuted(Last(c)),
           NEW stack \in Seq(Scripts), NEW instances, StacksFit(stack, instances, c)
    PROVE  /\ stack # <<>> /\ Last(stack) = Last(c).script
           /\ StacksFit(Front(stack), instances, Front(c))
  <1>1. /\ stack # <<>> /\ Last(stack) = Last(c).script
        /\ Lists(Front(stack), ScriptsIn(Front(c)))
    BY ScriptsPop DEF StacksFit
  <1>2. Last(c).kind # "node"
    BY FrontFacts, ExecutedHaveScripts
  <1>3. ASSUME NEW s \in Scripts PROVE Lists(instances[s], NodesIn(Front(c), s))
    <2>1. Lists(instances[s], NodesIn(c, s)) /\ ~IsRunOf(Last(c), s)
      BY <1>2 DEF StacksFit, IsRunOf
    <2>2. QED
      BY <2>1, NodesStay
  <1>4. QED
    BY <1>1, <1>3 DEF StacksFit

LEMMA StacksPopNode ==
    ASSUME NEW c \in Seq(Frames), c # <<>>, Last(c).kind = "node",
           NEW stack, NEW instances \in [Scripts -> Seq(Nodes)], StacksFit(stack, instances, c)
    PROVE  /\ instances[NodeScriptOf[Last(c).node]] # <<>>
           /\ StacksFit(stack, [instances EXCEPT ![NodeScriptOf[Last(c).node]] = Front(@)],
                        Front(c))
  <1>1. PICK t : t = NodeScriptOf[Last(c).node]
    OBVIOUS
  <1>2. t \in Scripts /\ ~IsExecuted(Last(c)) /\ IsRunOf(Last(c), t)
    BY <1>1, FrontFacts, ExecutedHaveScripts DEF IsRunOf
  <1>3. instances[t] \in Seq(Nodes) /\ Lists(instances[t], NodesIn(c, t))
    BY <1>2 DEF StacksFit
  <1>4. instances[t] # <<>> /\ Lists(Front(instances[t]), NodesIn(Front(c), t))
    BY <1>2, <1>3, NodesPop
  <1> DEFINE after == [instances EXCEPT ![t] = Front(@)]
  <1>5. ASSUME NEW s \in Scripts PROVE Lists(after[s], NodesIn(Front(c), s))
    <2>1. CASE s = t
      BY <2>1, <1>4
    <2>2. CASE s # t
      <3>1. Lists(instances[s], NodesIn(c, s)) /\ ~IsRunOf(Last(c), s) /\ after[s] = instances[s]
        BY <1>1, <2>2 DEF StacksFit, IsRunOf
      <3>2. QED
        BY <3>1, NodesStay
    <2>3. QED
      BY <2>1, <2>2
  <1>6. Lists(stack, ScriptsIn(Front(c)))
    BY <1>2, ScriptsStay DEF StacksFit
  <1>7. QED
    BY <1>1, <1>4, <1>5, <1>6 DEF StacksFit

-----------------------------------------------------------------------------
(* Nodes whose functions run: CodeAbove and CurrentOf.                     *)

\* Frames that differ in nothing NodesInv is about.
SameRun(f, g) == /\ g.kind = f.kind
                 /\ f.kind = "node" => g.node = f.node /\ g.returned = f.returned

LEMMA RunsSame ==
    ASSUME NEW c \in Seq(Frames), NEW d \in Seq(Frames), Len(d) = Len(c),
           \A n \in 1 .. Len(c) : SameRun(c[n], d[n]), NEW current
    PROVE  /\ CodeAbove(c) => CodeAbove(d)
           /\ CurrentOf(c, current) => CurrentOf(d, current)
           /\ NeedsNodes(d) => NeedsNodes(c)
  <1>1. DOMAIN c = 1 .. Len(c) /\ DOMAIN d = 1 .. Len(c) /\ Len(c) \in Nat
    BY LenProperties
  <1>2. \A n \in 1 .. Len(c) : d[n].kind = c[n].kind
    BY DEF SameRun
  <1>3. \A n \in 1 .. Len(c) : Unreturned(d[n]) <=> Unreturned(c[n])
    BY DEF SameRun, Unreturned
  <1>4. \A n \in 1 .. Len(c) : Unreturned(d[n]) => d[n].node = c[n].node
    BY DEF SameRun, Unreturned
  <1>5. CodeAbove(c) => CodeAbove(d)
    BY <1>1, <1>2, <1>3 DEF CodeAbove
  <1>6. \A n \in 1 .. Len(c) : \A m \in n + 1 .. Len(c) : m \in 1 .. Len(c)
    BY <1>1
  <1>7. CurrentOf(c, current) => CurrentOf(d, current)
    BY <1>1, <1>2, <1>3, <1>4, <1>6 DEF CurrentOf
  <1>8. NeedsNodes(d) => NeedsNodes(c)
    BY <1>1, <1>2 DEF NeedsNodes
  <1>9. QED
    BY <1>5, <1>7, <1>8

\* A frame that is not a node is put on top.
LEMMA RunsPush ==
    ASSUME NEW c \in Seq(Frames), NEW f \in Frames, f.kind # "node", NEW current
    PROVE  /\ CodeAbove(c) => CodeAbove(Append(c, f))
           /\ CurrentOf(c, current) => CurrentOf(Append(c, f), current)
           /\ NeedsNodes(Append(c, f)) => NeedsNodes(c) \/ f.kind = "input"
  <1> DEFINE d == Append(c, f)
  <1>1. /\ Len(c) \in Nat /\ Len(d) = Len(c) + 1 /\ d[Len(c) + 1] = f
        /\ \A n \in 1 .. Len(c) : d[n] = c[n]
        /\ DOMAIN c = 1 .. Len(c) /\ DOMAIN d = 1 .. Len(c) + 1
    BY AppendFacts, LenProperties
  <1> HIDE DEF d
  <1>2. \A n \in DOMAIN d : n \in 1 .. Len(c) \/ n = Len(c) + 1
    BY <1>1
  <1>3. ~Unreturned(f)
    BY DEF Unreturned
  <1>4. ASSUME CodeAbove(c) PROVE CodeAbove(d)
    <2> SUFFICES ASSUME NEW n \in DOMAIN d, Unreturned(d[n])
                 PROVE  n < Len(d) /\ d[n + 1].kind = "vm"
      BY DEF CodeAbove
    <2>1. n \in 1 .. Len(c)
      BY <1>1, <1>2, <1>3
    <2>2. n < Len(c) /\ c[n + 1].kind = "vm"
      BY <1>1, <1>4, <2>1 DEF CodeAbove
    <2>3. d[n + 1] = c[n + 1]
      BY <1>1, <2>1, <2>2
    <2>4. QED
      BY <1>1, <2>1, <2>2, <2>3
  <1>5. ASSUME CurrentOf(c, current) PROVE CurrentOf(d, current)
    <2> SUFFICES ASSUME NEW n \in DOMAIN d, Unreturned(d[n])
                 PROVE  /\ current = d[n].node
                        /\ \A m \in n + 1 .. Len(d) : d[m].kind # "node"
      BY DEF CurrentOf
    <2>1. n \in 1 .. Len(c)
      BY <1>1, <1>2, <1>3
    <2>2. current = c[n].node /\ \A m \in n + 1 .. Len(c) : c[m].kind # "node"
      BY <1>1, <1>5, <2>1 DEF CurrentOf
    <2>3. ASSUME NEW m \in n + 1 .. Len(d) PROVE d[m].kind # "node"
      <3>1. CASE m = Len(c) + 1
        BY <1>1, <3>1
      <3>2. CASE m # Len(c) + 1
        <4>1. m \in n + 1 .. Len(c) /\ m \in 1 .. Len(c)
          BY <1>1, <2>1, <3>2
        <4>2. QED
          BY <1>1, <2>2, <4>1
      <3>3. QED
        BY <3>1, <3>2
    <2>4. QED
      BY <1>1, <2>1, <2>2, <2>3
  <1>6. NeedsNodes(d) => NeedsNodes(c) \/ f.kind = "input"
    <2> SUFFICES ASSUME NEW n \in DOMAIN d, d[n].kind \in {"node", "input"}
                 PROVE  NeedsNodes(c) \/ f.kind = "input"
      BY DEF NeedsNodes
    <2>1. CASE n = Len(c) + 1
      BY <1>1, <2>1
    <2>2. CASE n \in 1 .. Len(c)
      BY <1>1, <2>2 DEF NeedsNodes
    <2>3. QED
      BY <1>2, <2>1, <2>2
  <1>7. QED
    BY <1>4, <1>5, <1>6 DEF d

\* A node is put on top with the code of its function.
LEMMA RunsPushNode ==
    ASSUME NEW c \in Seq(Frames), NEW f \in Frames, NEW g \in Frames,
           f.kind = "node", g.kind = "vm"
    PROVE  /\ CodeAbove(c) => CodeAbove(Append(Append(c, f), g))
           /\ (\A n \in DOMAIN c : ~Unreturned(c[n]))
                  => CurrentOf(Append(Append(c, f), g), f.node)
  <1> DEFINE d == Append(c, f)  e == Append(d, g)
  <1>1. /\ Len(c) \in Nat /\ Len(d) = Len(c) + 1 /\ d[Len(c) + 1] = f /\ d \in Seq(Frames)
        /\ \A n \in 1 .. Len(c) : d[n] = c[n]
        /\ DOMAIN c = 1 .. Len(c)
    BY AppendFacts, LenProperties
  <1> HIDE DEF d
  <1>2. /\ Len(e) = Len(d) + 1 /\ e[Len(d) + 1] = g /\ DOMAIN e = 1 .. Len(e)
        /\ \A n \in 1 .. Len(d) : e[n] = d[n]
    BY <1>1, AppendFacts, LenProperties
  <1> HIDE DEF e
  <1>3. /\ Len(e) = Len(c) + 2 /\ e[Len(c) + 2] = g /\ e[Len(c) + 1] = f
        /\ \A n \in 1 .. Len(c) : e[n] = c[n]
        /\ \A n \in DOMAIN e : n \in 1 .. Len(c) \/ n = Len(c) + 1 \/ n = Len(c) + 2
    BY <1>1, <1>2
  <1>4. ~Unreturned(g)
    BY DEF Unreturned
  <1>5. ASSUME CodeAbove(c) PROVE CodeAbove(e)
    <2> SUFFICES ASSUME NEW n \in DOMAIN e, Unreturned(e[n])
                 PROVE  n < Len(e) /\ e[n + 1].kind = "vm"
      BY DEF CodeAbove
    <2>1. CASE n \in 1 .. Len(c)
      <3>1. n < Len(c) /\ c[n + 1].kind = "vm"
        BY <1>1, <1>3, <1>5, <2>1 DEF CodeAbove
      <3>2. n + 1 \in 1 .. Len(c) /\ n < Len(e)
        BY <1>1, <1>3, <2>1, <3>1
      <3>3. QED
        BY <1>3, <3>1, <3>2
    <2>2. CASE n = Len(c) + 1
      <3>1. n + 1 = Len(c) + 2 /\ n < Len(e)
        BY <1>1, <1>3, <2>2
      <3>2. QED
        BY <1>3, <3>1
    <2>3. n # Len(c) + 2
      BY <1>3, <1>4
    <2>4. QED
      BY <1>3, <2>1, <2>2, <2>3
  <1>6. ASSUME \A n \in DOMAIN c : ~Unreturned(c[n]) PROVE CurrentOf(e, f.node)
    <2> SUFFICES ASSUME NEW n \in DOMAIN e, Unreturned(e[n])
                 PROVE  /\ f.node = e[n].node
                        /\ \A m \in n + 1 .. Len(e) : e[m].kind # "node"
      BY DEF CurrentOf
    <2>1. n = Len(c) + 1
      BY <1>1, <1>3, <1>4, <1>6
    <2>2. \A m \in n + 1 .. Len(e) : m = Len(c) + 2
      BY <1>1, <1>3, <2>1
    <2>3. QED
      BY <1>3, <2>1, <2>2
  <1>7. QED
    BY <1>5, <1>6 DEF d, e

\* The frame on top is taken away.
LEMMA RunsPop ==
    ASSUME NEW c \in Seq(Frames), c # <<>>, NEW current
    PROVE  /\ CodeAbove(c) /\ (Last(c).kind = "vm" /\ Front(c) # <<>>
                                => ~Unreturned(Last(Front(c))))
                  => CodeAbove(Front(c))
           /\ CurrentOf(c, current) => CurrentOf(Front(c), current)
           /\ NeedsNodes(Front(c)) => NeedsNodes(c)
  <1> DEFINE d == Front(c)
  <1>1. /\ d \in Seq(Frames) /\ Len(d) = Len(c) - 1 /\ Len(c) \in Nat \ {0}
        /\ \A n \in 1 .. Len(c) - 1 : d[n] = c[n]
        /\ Last(c) = c[Len(c)]
        /\ DOMAIN c = 1 .. Len(c) /\ DOMAIN d = 1 .. Len(c) - 1
    BY FrontFacts, LenProperties
  <1>2. d # <<>> => Last(d) = d[Len(d)]
    BY <1>1, FrontFacts
  <1>3. Len(d) # 0 => d # <<>>
    BY EmptySeq
  <1> HIDE DEF d
  <1>4. \A n \in DOMAIN d : n \in DOMAIN c /\ d[n] = c[n] /\ n + 1 \in 1 .. Len(c)
    BY <1>1
  <1>5. ASSUME CodeAbove(c), Last(c).kind = "vm" /\ d # <<>> => ~Unreturned(Last(d))
        PROVE  CodeAbove(d)
    <2> SUFFICES ASSUME NEW n \in DOMAIN d, Unreturned(d[n])
                 PROVE  n < Len(d) /\ d[n + 1].kind = "vm"
      BY DEF CodeAbove
    <2>1. c[n + 1].kind = "vm"
      BY <1>4, <1>5 DEF CodeAbove
    <2>2. n # Len(d)
      <3> SUFFICES ASSUME n = Len(d) PROVE FALSE
        OBVIOUS
      <3>1. n + 1 = Len(c) /\ Len(d) # 0
        BY <1>1
      <3>2. Last(c).kind = "vm"
        BY <1>1, <2>1, <3>1
      <3>3. QED
        BY <1>2, <1>3, <1>5, <3>1, <3>2
    <2>3. n < Len(d) /\ n + 1 \in 1 .. Len(c) - 1
      BY <1>1, <2>2
    <2>4. QED
      BY <1>1, <2>1, <2>3
  <1>6. ASSUME CurrentOf(c, current) PROVE CurrentOf(d, current)
    <2>1. \A n \in DOMAIN d : \A m \in n + 1 .. Len(d) : m \in n + 1 .. Len(c) /\ m \in DOMAIN d
      BY <1>1
    <2>2. QED
      BY <1>4, <1>6, <2>1 DEF CurrentOf
  <1>7. NeedsNodes(d) => NeedsNodes(c)
    BY <1>4 DEF NeedsNodes
  <1>8. QED
    BY <1>5, <1>6, <1>7 DEF d

\* A node on top has returned, and if none ran inside another, so have all below.
LEMMA RunsPopNode ==
    ASSUME NEW c \in Seq(Frames), c # <<>>, Last(c).kind = "node", CodeAbove(c),
           NEW current, CurrentOf(c, current), NEW other
    PROVE  CurrentOf(Front(c), other)
  <1> DEFINE d == Front(c)
  <1>1. /\ d \in Seq(Frames) /\ Len(d) = Len(c) - 1 /\ Len(c) \in Nat \ {0}
        /\ \A n \in 1 .. Len(c) - 1 : d[n] = c[n]
        /\ Last(c) = c[Len(c)]
        /\ DOMAIN c = 1 .. Len(c) /\ DOMAIN d = 1 .. Len(c) - 1
    BY FrontFacts, LenProperties
  <1> HIDE DEF d
  <1>2. ASSUME NEW n \in DOMAIN d, Unreturned(d[n]) PROVE FALSE
    <2>1. n \in DOMAIN c /\ Unreturned(c[n]) /\ Len(c) \in n + 1 .. Len(c)
      BY <1>1, <1>2
    <2>2. c[Len(c)].kind # "node"
      BY <2>1 DEF CurrentOf
    <2>3. QED
      BY <1>1, <2>2
  <1>3. CurrentOf(d, other)
    BY <1>2 DEF CurrentOf
  <1>4. QED
    BY <1>3 DEF d

-----------------------------------------------------------------------------
(* Events and their lists: EventsFit.                                      *)

LEMMA PrefixFacts ==
    ASSUME NEW S, NEW s \in Seq(S), NEW k \in 0 .. Len(s)
    PROVE  /\ SubSeq(s, 1, k) \in Seq(S) /\ Len(SubSeq(s, 1, k)) = k
           /\ \A n \in 1 .. k : SubSeq(s, 1, k)[n] = s[n]
  <1>1. k \in Nat /\ \A n \in 1 .. k : s[n] \in S
    BY ElementOfSeq, LenProperties
  <1>2. k - 1 + 1 = k /\ \A n \in Nat : 1 + n - 1 = n
    BY <1>1
  <1>3. QED
    BY <1>1, <1>2, SubSeqProperties

LEMMA CountsAreNat ==
    ASSUME NEW S, NEW s \in Seq(S), NEW l, NEW k \in Nat \ {0}
    PROVE  /\ IsFiniteSet(Called(s, l)) /\ Cardinality(Called(s, l)) \in Nat
           /\ IsFiniteSet(Left(s, k, l)) /\ Cardinality(Left(s, k, l)) \in Nat
           /\ Called(s, l) = Left(s, 1, l)
  <1>1. Len(s) \in Nat
    BY LenProperties
  <1>2. IsFiniteSet(1 .. Len(s)) /\ IsFiniteSet(k .. Len(s))
    BY <1>1, FS_Interval
  <1>3. Called(s, l) \in SUBSET (1 .. Len(s)) /\ Left(s, k, l) \in SUBSET (k .. Len(s))
    BY DEF Called, Left
  <1>4. IsFiniteSet(Called(s, l)) /\ IsFiniteSet(Left(s, k, l))
    BY <1>2, <1>3, FS_Subset
  <1>5. QED
    BY <1>4, FS_CardinalityType DEF Called, Left

LEMMA CalledNat ==
    ASSUME NEW S, NEW s \in Seq(S), NEW l
    PROVE  Cardinality(Called(s, l)) \in Nat
  <1>1. 1 \in Nat \ {0}
    OBVIOUS
  <1>2. QED
    BY <1>1, CountsAreNat

\* One more was called.
LEMMA CalledAppend ==
    ASSUME NEW S, NEW s \in Seq(S), NEW e \in S, NEW l
    PROVE  Cardinality(Called(Append(s, e), l)) =
               Cardinality(Called(s, l)) + (IF e = l THEN 1 ELSE 0)
  <1> DEFINE t == Append(s, e)
  <1>1. /\ Len(t) = Len(s) + 1 /\ Len(s) \in Nat /\ t[Len(s) + 1] = e
        /\ \A n \in 1 .. Len(s) : t[n] = s[n]
    BY AppendFacts, LenProperties
  <1> HIDE DEF t
  <1>2. \A n : n \in 1 .. Len(t) <=> n \in 1 .. Len(s) \/ n = Len(s) + 1
    BY <1>1
  <1>3. IsFiniteSet(Called(s, l)) /\ Cardinality(Called(s, l)) \in Nat
    BY CountsAreNat
  <1>4. CASE e = l
    <2>1. Called(t, l) = Called(s, l) \cup {Len(s) + 1}
      BY <1>1, <1>2, <1>4 DEF Called
    <2>2. Len(s) + 1 \notin Called(s, l)
      BY <1>1 DEF Called
    <2>3. Cardinality(Called(t, l)) = Cardinality(Called(s, l)) + 1
      BY <1>3, <2>1, <2>2, FS_AddElement
    <2>4. QED
      BY <1>4, <2>3 DEF t
  <1>5. CASE e # l
    <2>1. Called(t, l) = Called(s, l)
      BY <1>1, <1>2, <1>5 DEF Called
    <2>2. QED
      BY <1>3, <1>5, <2>1 DEF t
  <1>6. QED
    BY <1>4, <1>5

\* One more is in the list.
LEMMA LeftAppend ==
    ASSUME NEW S, NEW s \in Seq(S), NEW e \in S, NEW l, NEW k \in Nat \ {0}
    PROVE  Cardinality(Left(Append(s, e), k, l)) <=
               Cardinality(Left(s, k, l)) + (IF e = l THEN 1 ELSE 0)
  <1> DEFINE t == Append(s, e)
  <1>1. /\ Len(t) = Len(s) + 1 /\ Len(s) \in Nat /\ t[Len(s) + 1] = e /\ t \in Seq(S)
        /\ \A n \in 1 .. Len(s) : t[n] = s[n]
    BY AppendFacts, LenProperties
  <1> HIDE DEF t
  <1>2. \A n \in k .. Len(t) : (n \in k .. Len(s) /\ t[n] = s[n]) \/ n = Len(s) + 1
    BY <1>1
  <1>3. /\ IsFiniteSet(Left(s, k, l)) /\ Cardinality(Left(s, k, l)) \in Nat
        /\ IsFiniteSet(Left(t, k, l)) /\ Cardinality(Left(t, k, l)) \in Nat
    BY <1>1, CountsAreNat
  <1>4. CASE e = l
    <2>1. Left(t, k, l) \in SUBSET (Left(s, k, l) \cup {Len(s) + 1})
      BY <1>2 DEF Left
    <2>2. IsFiniteSet(Left(s, k, l) \cup {Len(s) + 1})
      BY <1>3, FS_AddElement
    <2>3. Cardinality(Left(t, k, l)) <= Cardinality(Left(s, k, l) \cup {Len(s) + 1})
      BY <2>1, <2>2, FS_Subset
    <2>4. Cardinality(Left(s, k, l) \cup {Len(s) + 1}) \in
              {Cardinality(Left(s, k, l)), Cardinality(Left(s, k, l)) + 1}
      BY <1>3, FS_AddElement
    <2>5. QED
      BY <1>3, <1>4, <2>3, <2>4 DEF t
  <1>5. CASE e # l
    <2>1. Left(t, k, l) \in SUBSET Left(s, k, l)
      BY <1>1, <1>2, <1>5 DEF Left
    <2>2. Cardinality(Left(t, k, l)) <= Cardinality(Left(s, k, l))
      BY <1>3, <2>1, FS_Subset
    <2>3. QED
      BY <1>3, <1>5, <2>2 DEF t
  <1>6. QED
    BY <1>4, <1>5

\* The next one is called.
LEMMA LeftNext ==
    ASSUME NEW S, NEW s \in Seq(S), NEW k \in 1 .. Len(s), NEW l
    PROVE  Cardinality(Left(s, k, l)) =
               Cardinality(Left(s, k + 1, l)) + (IF s[k] = l THEN 1 ELSE 0)
  <1>1. Len(s) \in Nat /\ k \in Nat \ {0} /\ k + 1 \in Nat \ {0}
    BY LenProperties
  <1>2. \A n : n \in k .. Len(s) <=> n \in k + 1 .. Len(s) \/ n = k
    BY <1>1
  <1>3. IsFiniteSet(Left(s, k + 1, l)) /\ Cardinality(Left(s, k + 1, l)) \in Nat
    BY <1>1, CountsAreNat
  <1>4. CASE s[k] = l
    <2>1. Left(s, k, l) = Left(s, k + 1, l) \cup {k}
      BY <1>2, <1>4 DEF Left
    <2>2. k \notin Left(s, k + 1, l)
      BY <1>1 DEF Left
    <2>3. QED
      BY <1>3, <1>4, <2>1, <2>2, FS_AddElement
  <1>5. CASE s[k] # l
    <2>1. Left(s, k, l) = Left(s, k + 1, l)
      BY <1>2, <1>5 DEF Left
    <2>2. QED
      BY <1>3, <1>5, <2>1
  <1>6. QED
    BY <1>4, <1>5

\* One is taken out and the last takes its place: nobody is in the rest of the
\* list more often than before.
LEMMA LeftRemoved ==
    ASSUME NEW S, NEW s \in Seq(S), NEW n \in 1 .. Len(s), NEW k \in Nat \ {0}, NEW l
    PROVE  /\ Front([s EXCEPT ![n] = Last(s)]) \in Seq(S)
           /\ Cardinality(Left(Front([s EXCEPT ![n] = Last(s)]), k, l)) <=
                  Cardinality(Left(s, k, l))
  <1> DEFINE u == [s EXCEPT ![n] = Last(s)]  t == Front(u)  last == Len(s)
  <1>1. last \in Nat \ {0} /\ Last(s) = s[last] /\ s[last] \in S
    BY LenProperties, ElementOfSeq DEF Last
  <1>2. /\ u \in Seq(S) /\ Len(u) = last
        /\ \A m \in 1 .. last : u[m] = IF m = n THEN s[last] ELSE s[m]
    BY <1>1, ReplaceFacts
  <1>3. u # <<>>
    BY <1>1, <1>2, EmptySeq
  <1> HIDE DEF u, last
  <1>4. t \in Seq(S) /\ Len(t) = last - 1 /\ \A m \in 1 .. last - 1 : t[m] = u[m]
    BY <1>2, <1>3, FrontFacts
  <1> HIDE DEF t
  <1>5. \A m \in k .. Len(t) : m \in 1 .. last - 1 /\ m \in k .. last /\ m # last
    BY <1>1, <1>4
  <1>6. \A m \in k .. Len(t) : t[m] = IF m = n THEN s[last] ELSE s[m]
    BY <1>1, <1>2, <1>4, <1>5
  <1>7. /\ IsFiniteSet(Left(s, k, l)) /\ Cardinality(Left(s, k, l)) \in Nat
        /\ IsFiniteSet(Left(t, k, l)) /\ Cardinality(Left(t, k, l)) \in Nat
    BY <1>4, CountsAreNat
  <1>8. CASE n \in Left(t, k, l)
    <2>1. s[last] = l /\ last \in k .. last
      BY <1>1, <1>5, <1>6, <1>8 DEF Left
    <2>2. last \in Left(s, k, l)
      BY <2>1 DEF Left, last
    <2>3. Left(t, k, l) \ {n} \in SUBSET (Left(s, k, l) \ {last})
      BY <1>5, <1>6 DEF Left, last
    <2>4. /\ IsFiniteSet(Left(s, k, l) \ {last})
          /\ Cardinality(Left(s, k, l) \ {last}) = Cardinality(Left(s, k, l)) - 1
          /\ Cardinality(Left(t, k, l) \ {n}) = Cardinality(Left(t, k, l)) - 1
      BY <1>7, <1>8, <2>2, FS_RemoveElement
    <2>5. Cardinality(Left(t, k, l) \ {n}) <= Cardinality(Left(s, k, l) \ {last})
      BY <2>3, <2>4, FS_Subset
    <2>6. Cardinality(Left(t, k, l)) <= Cardinality(Left(s, k, l))
      BY <1>7, <2>4, <2>5
    <2>7. QED
      BY <1>4, <2>6 DEF t, u
  <1>9. CASE n \notin Left(t, k, l)
    <2>1. Left(t, k, l) \in SUBSET Left(s, k, l)
      BY <1>5, <1>6, <1>9 DEF Left, last
    <2>2. Cardinality(Left(t, k, l)) <= Cardinality(Left(s, k, l))
      BY <1>7, <2>1, FS_Subset
    <2>3. QED
      BY <1>4, <2>2 DEF t, u
  <1>10. QED
    BY <1>8, <1>9

\* A frame of an event is changed field by field.
LEMMA EventFields ==
    ASSUME NEW f \in EventFrames
    PROVE  /\ f.kind = "event" /\ f.event \in Events /\ f.index \in Nat \ {0}
           /\ f.told \in Seq(Listeners) /\ f.shrunk \in BOOLEAN
           /\ f.allowed \in [Listeners -> Nat] /\ f \in Frames
  BY DEF EventFrames, Frames

\* CallEvent calls the next one.
LEMMA TellFits ==
    ASSUME NEW f \in EventFrames, NEW list \in Seq(Listeners), EventFits(f, list),
           f.index <= Len(list), NEW g,
           g = [f EXCEPT !.index = @ + 1, !.told = Append(@, list[f.index])]
    PROVE  g \in EventFrames /\ g.event = f.event /\ EventFits(g, list)
  <1>1. /\ f.index \in 1 .. Len(list) /\ Len(list) \in Nat /\ f.told \in Seq(Listeners)
        /\ f.allowed \in [Listeners -> Nat]
    BY EventFields, LenProperties
  <1>2. PICK l \in Listeners : l = list[f.index]
    BY <1>1, ElementOfSeq
  <1>3. PICK told \in Seq(Listeners) : told = Append(f.told, l)
    BY <1>1, AppendFacts
  <1>4. /\ g.index = f.index + 1 /\ g.told = told /\ g.shrunk = f.shrunk
        /\ g.allowed = f.allowed /\ g.event = f.event
    BY <1>2, <1>3 DEF EventFrames
  <1>5. g \in EventFrames
    <2>1. g = [f EXCEPT !.index = f.index + 1, !.told = told]
      BY <1>2, <1>3 DEF EventFrames
    <2>2. f.index + 1 \in Nat \ {0}
      BY <1>1
    <2>3. QED
      BY <2>1, <2>2 DEF EventFrames
  <1>6. ASSUME ~f.shrunk
        PROVE  g.index <= Len(list) + 1 /\ told = SubSeq(list, 1, g.index - 1)
    <2>1. f.told = SubSeq(list, 1, f.index - 1)
      BY <1>6 DEF EventFits
    <2>2. f.index - 1 \in 0 .. Len(list) /\ f.index \in 0 .. Len(list)
      BY <1>1
    <2> DEFINE a == SubSeq(list, 1, f.index - 1)  b == SubSeq(list, 1, f.index)
    <2>3. /\ a \in Seq(Listeners) /\ Len(a) = f.index - 1
          /\ \A n \in 1 .. f.index - 1 : a[n] = list[n]
      BY <2>2, PrefixFacts
    <2>4. /\ b \in Seq(Listeners) /\ Len(b) = f.index
          /\ \A n \in 1 .. f.index : b[n] = list[n]
      BY <2>2, PrefixFacts
    <2> HIDE DEF a, b
    <2>5. f.told = a
      BY <2>1 DEF a
    <2>6. /\ Len(told) = f.index /\ told[f.index] = l
          /\ \A n \in 1 .. f.index - 1 : told[n] = a[n]
      BY <1>1, <1>3, <2>3, <2>5, AppendFacts
    <2>7. ASSUME NEW n \in 1 .. f.index PROVE told[n] = b[n]
      <3>1. n = f.index \/ n \in 1 .. f.index - 1
        BY <1>1
      <3>2. n \in 1 .. f.index - 1 => told[n] = list[n]
        BY <2>3, <2>6
      <3>3. n = f.index => told[n] = list[n]
        BY <1>2, <2>6
      <3>4. QED
        BY <2>4, <3>1, <3>2, <3>3
    <2>8. told = b
      BY <2>4, <2>6, <2>7, SeqEqual
    <2>9. g.index - 1 = f.index
      BY <1>1, <1>4
    <2>10. g.index <= Len(list) + 1
      BY <1>1, <1>4
    <2>11. QED
      BY <2>8, <2>9, <2>10 DEF b
  <1>7. ASSUME NEW m \in Listeners
        PROVE  Cardinality(Called(told, m)) + Cardinality(Left(list, g.index, m))
                   <= f.allowed[m]
    <2>1. Cardinality(Called(f.told, m)) + Cardinality(Left(list, f.index, m)) <= f.allowed[m]
      BY DEF EventFits
    <2>2. Cardinality(Called(told, m)) = Cardinality(Called(f.told, m)) + (IF l = m THEN 1 ELSE 0)
      BY <1>1, <1>3, CalledAppend
    <2>3. Cardinality(Left(list, f.index, m)) =
              Cardinality(Left(list, f.index + 1, m)) + (IF l = m THEN 1 ELSE 0)
      BY <1>1, <1>2, LeftNext
    <2>4. /\ Cardinality(Called(f.told, m)) \in Nat /\ f.index + 1 \in Nat \ {0}
          /\ f.allowed[m] \in Nat
      BY <1>1, CalledNat
    <2>5. Cardinality(Left(list, f.index + 1, m)) \in Nat
      BY <2>4, CountsAreNat
    <2>6. QED
      BY <1>4, <2>1, <2>2, <2>3, <2>4, <2>5
  <1>8. QED
    BY <1>4, <1>5, <1>6, <1>7 DEF EventFits

\* A listener is registered while the event runs.
LEMMA RegisterFits ==
    ASSUME NEW f \in EventFrames, NEW list \in Seq(Listeners), EventFits(f, list),
           NEW l \in Listeners, NEW g, g = [f EXCEPT !.allowed[l] = @ + 1]
    PROVE  g \in EventFrames /\ g.event = f.event /\ EventFits(g, Append(list, l))
  <1>1. /\ f.index \in Nat \ {0} /\ Len(list) \in Nat /\ f.told \in Seq(Listeners)
        /\ f.allowed \in [Listeners -> Nat] /\ f.allowed[l] \in Nat
    BY EventFields, LenProperties
  <1>2. PICK allowed : allowed = [f.allowed EXCEPT ![l] = @ + 1]
    OBVIOUS
  <1>3. allowed \in [Listeners -> Nat]
    BY <1>1, <1>2
  <1>4. g = [f EXCEPT !.allowed = allowed]
    BY <1>2 DEF EventFrames
  <1>5. /\ g.index = f.index /\ g.told = f.told /\ g.shrunk = f.shrunk
        /\ g.allowed = allowed /\ g.event = f.event
    BY <1>4 DEF EventFrames
  <1>6. g \in EventFrames
    BY <1>3, <1>4 DEF EventFrames
  <1> DEFINE longer == Append(list, l)
  <1>7. /\ longer \in Seq(Listeners) /\ Len(longer) = Len(list) + 1
        /\ \A n \in 1 .. Len(list) : longer[n] = list[n]
    BY AppendFacts
  <1>8. \A m \in Listeners :
            Cardinality(Left(longer, f.index, m)) <=
                Cardinality(Left(list, f.index, m)) + (IF l = m THEN 1 ELSE 0)
    BY <1>1, LeftAppend
  <1> HIDE DEF longer
  <1>9. ASSUME ~f.shrunk
        PROVE  f.index <= Len(longer) + 1 /\ f.told = SubSeq(longer, 1, f.index - 1)
    <2>1. f.told = SubSeq(list, 1, f.index - 1) /\ f.index <= Len(list) + 1
      BY <1>9 DEF EventFits
    <2>2. f.index - 1 \in 0 .. Len(list) /\ f.index - 1 \in 0 .. Len(longer)
      BY <1>1, <1>7, <2>1
    <2> DEFINE a == SubSeq(list, 1, f.index - 1)  b == SubSeq(longer, 1, f.index - 1)
    <2>3. /\ a \in Seq(Listeners) /\ Len(a) = f.index - 1
          /\ \A n \in 1 .. f.index - 1 : a[n] = list[n]
      BY <2>2, PrefixFacts
    <2>4. /\ b \in Seq(Listeners) /\ Len(b) = f.index - 1
          /\ \A n \in 1 .. f.index - 1 : b[n] = longer[n]
      BY <1>7, <2>2, PrefixFacts
    <2>5. f.told = a
      BY <2>1
    <2> HIDE DEF a, b
    <2>6. \A n \in 1 .. f.index - 1 : n \in 1 .. Len(list)
      BY <2>2
    <2>7. \A n \in 1 .. Len(a) : a[n] = b[n]
      BY <1>7, <2>3, <2>4, <2>6
    <2>8. a = b
      BY <2>3, <2>4, <2>7, SeqEqual
    <2>9. QED
      BY <1>1, <1>7, <2>1, <2>5, <2>8 DEF b
  <1>10. ASSUME NEW m \in Listeners
         PROVE  Cardinality(Called(f.told, m)) + Cardinality(Left(longer, f.index, m))
                    <= allowed[m]
    <2>1. Cardinality(Called(f.told, m)) + Cardinality(Left(list, f.index, m)) <= f.allowed[m]
      BY DEF EventFits
    <2>2. Cardinality(Left(longer, f.index, m)) <=
              Cardinality(Left(list, f.index, m)) + (IF l = m THEN 1 ELSE 0)
      BY <1>8
    <2>3. allowed[m] = f.allowed[m] + (IF l = m THEN 1 ELSE 0)
      BY <1>1, <1>2
    <2>4. /\ Cardinality(Called(f.told, m)) \in Nat
          /\ Cardinality(Left(list, f.index, m)) \in Nat
          /\ Cardinality(Left(longer, f.index, m)) \in Nat
          /\ f.allowed[m] \in Nat
      BY <1>1, <1>7, CountsAreNat
    <2>5. QED
      BY <2>1, <2>2, <2>3, <2>4
  <1>11. QED
    BY <1>5, <1>6, <1>9, <1>10 DEF EventFits, longer

\* A listener is removed while the event runs.
LEMMA UnregisterFits ==
    ASSUME NEW f \in EventFrames, NEW list \in Seq(Listeners), EventFits(f, list),
           NEW n \in 1 .. Len(list), NEW g, g = [f EXCEPT !.shrunk = TRUE]
    PROVE  /\ g \in EventFrames /\ g.event = f.event
           /\ EventFits(g, Front([list EXCEPT ![n] = Last(list)]))
  <1>1. /\ f.index \in Nat \ {0} /\ f.told \in Seq(Listeners)
        /\ f.allowed \in [Listeners -> Nat]
    BY EventFields
  <1>2. /\ g.index = f.index /\ g.told = f.told /\ g.shrunk = TRUE
        /\ g.allowed = f.allowed /\ g.event = f.event /\ g \in EventFrames
    BY DEF EventFrames
  <1> DEFINE shorter == Front([list EXCEPT ![n] = Last(list)])
  <1>3. shorter \in Seq(Listeners)
    BY <1>1, LeftRemoved
  <1>4. \A m \in Listeners :
            Cardinality(Left(shorter, f.index, m)) <= Cardinality(Left(list, f.index, m))
    BY <1>1, LeftRemoved
  <1> HIDE DEF shorter
  <1>5. ASSUME NEW m \in Listeners
        PROVE  Cardinality(Called(f.told, m)) + Cardinality(Left(shorter, f.index, m))
                    <= f.allowed[m]
    <2>1. Cardinality(Called(f.told, m)) + Cardinality(Left(list, f.index, m)) <= f.allowed[m]
      BY DEF EventFits
    <2>2. /\ Cardinality(Called(f.told, m)) \in Nat
          /\ Cardinality(Left(list, f.index, m)) \in Nat
          /\ Cardinality(Left(shorter, f.index, m)) \in Nat
          /\ f.allowed[m] \in Nat
      BY <1>1, <1>3, CountsAreNat
    <2>3. QED
      BY <1>4, <2>1, <2>2
  <1>6. QED
    BY <1>2, <1>5 DEF EventFits, shorter

\* CallEvent begins.
LEMMA NewFits ==
    ASSUME NEW e \in Events, myEvents \in [Events -> Seq(Listeners)]
    PROVE  EventLoop(e) \in EventFrames /\ EventFits(EventLoop(e), myEvents[e])
  <1>1. PICK list \in Seq(Listeners) : list = myEvents[e]
    OBVIOUS
  <1>2. \A l : Occurrences(list, l) = Cardinality(Called(list, l))
    BY DEF Occurrences, Called
  <1>3. \A l : Occurrences(list, l) \in Nat
    BY <1>2, CalledNat
  <1>4. PICK f : f = EventLoop(e)
    OBVIOUS
  <1>5. /\ f \in EventFrames /\ f.index = 1 /\ f.told = <<>> /\ f.shrunk = FALSE
        /\ f.allowed = [l \in Listeners |-> Occurrences(list, l)]
    <2>1. f.allowed \in [Listeners -> Nat] /\ f.allowed = [l \in Listeners |-> Occurrences(list, l)]
      BY <1>1, <1>3, <1>4 DEF EventLoop
    <2>2. <<>> \in Seq(Listeners)
      BY EmptySeq
    <2>3. QED
      BY <1>4, <2>1, <2>2 DEF EventLoop, EventFrames
  <1>6. Len(list) \in Nat /\ <<>> = SubSeq(list, 1, 1 - 1)
    BY LenProperties, SubSeqEmpty
  <1>7. ASSUME NEW l \in Listeners
        PROVE  Cardinality(Called(<<>>, l)) + Cardinality(Left(list, 1, l)) <= f.allowed[l]
    <2>1. Called(<<>>, l) = {}
      BY EmptySeq DEF Called
    <2>2. Cardinality(Called(<<>>, l)) = 0
      BY <2>1, FS_EmptySet
    <2>3. Left(list, 1, l) = Called(list, l)
      BY DEF Left, Called
    <2>4. Cardinality(Called(list, l)) \in Nat
      BY CalledNat
    <2>5. f.allowed[l] = Cardinality(Called(list, l))
      BY <1>2, <1>5
    <2>6. QED
      BY <2>2, <2>3, <2>4, <2>5
  <1>8. EventFits(f, list)
    BY <1>5, <1>6, <1>7 DEF EventFits
  <1>9. QED
    BY <1>1, <1>4, <1>5, <1>8

-----------------------------------------------------------------------------
(* All parts of the invariant that are about a stack of frames.            *)

LEMMA EventsPush ==
    ASSUME NEW c \in Seq(Frames), NEW f \in Frames, NEW events, EventsFit(c, events),
           FitsIn(f, events)
    PROVE  EventsFit(Append(c, f), events)
  <1> DEFINE d == Append(c, f)
  <1>1. /\ Len(c) \in Nat /\ Len(d) = Len(c) + 1 /\ d[Len(c) + 1] = f
        /\ \A n \in 1 .. Len(c) : d[n] = c[n]
        /\ DOMAIN c = 1 .. Len(c) /\ DOMAIN d = 1 .. Len(c) + 1
    BY AppendFacts, LenProperties
  <1> HIDE DEF d
  <1>2. \A n \in DOMAIN d : n \in 1 .. Len(c) \/ n = Len(c) + 1
    BY <1>1
  <1>3. ASSUME NEW n \in DOMAIN d, d[n].kind = "event"
        PROVE  EventFits(d[n], events[d[n].event])
    <2>1. CASE n = Len(c) + 1
      BY <1>1, <1>3, <2>1 DEF FitsIn
    <2>2. CASE n \in 1 .. Len(c)
      BY <1>1, <1>3, <2>2 DEF EventsFit, FitsIn
    <2>3. QED
      BY <1>2, <2>1, <2>2
  <1>4. EventsFit(d, events)
    BY <1>3 DEF EventsFit, FitsIn
  <1>5. QED
    BY <1>4 DEF d

LEMMA EventsPop ==
    ASSUME NEW c \in Seq(Frames), c # <<>>, NEW events, EventsFit(c, events)
    PROVE  EventsFit(Front(c), events)
  <1> DEFINE d == Front(c)
  <1>1. /\ d \in Seq(Frames) /\ Len(d) = Len(c) - 1 /\ Len(c) \in Nat \ {0}
        /\ \A n \in 1 .. Len(c) - 1 : d[n] = c[n]
        /\ DOMAIN c = 1 .. Len(c) /\ DOMAIN d = 1 .. Len(c) - 1
    BY FrontFacts, LenProperties
  <1> HIDE DEF d
  <1>2. \A n \in DOMAIN d : n \in DOMAIN c /\ d[n] = c[n]
    BY <1>1
  <1>3. EventsFit(d, events)
    BY <1>2 DEF EventsFit, FitsIn
  <1>4. QED
    BY <1>3 DEF d

\* The stack the code keeps beside the frames is not touched.
LEMMA GoodReplace ==
    ASSUME NEW c, c # <<>>, NEW f \in Frames, Alike(Last(c), f), SameRun(Last(c), f),
           NEW stack, NEW instances, NEW current, NEW nest, NEW events,
           Good(c, stack, instances, current, nest, events), FitsIn(f, events)
    PROVE  /\ Good([c EXCEPT ![Len(c)] = f], stack, instances, current, nest, events)
           /\ NeedsNodes([c EXCEPT ![Len(c)] = f]) => NeedsNodes(c)
  <1> DEFINE d == [c EXCEPT ![Len(c)] = f]
  <1>1. c \in Seq(Frames) /\ Last(c) = c[Len(c)] /\ Len(c) \in Nat \ {0}
    BY FrontFacts DEF Good
  <1>2. Len(c) \in 1 .. Len(c)
    BY <1>1
  <1>3. /\ d \in Seq(Frames) /\ Len(d) = Len(c)
        /\ \A n \in 1 .. Len(c) : d[n] = IF n = Len(c) THEN f ELSE c[n]
    BY <1>1, <1>2, ReplaceFacts
  <1> HIDE DEF d
  <1>4. \A n \in 1 .. Len(c) : Alike(c[n], d[n])
    BY <1>1, <1>3 DEF Alike
  <1>5. \A n \in 1 .. Len(c) : SameRun(c[n], d[n])
    BY <1>1, <1>3 DEF SameRun
  <1>6. StacksFit(stack, instances, d)
    BY <1>1, <1>3, <1>4, StacksSame DEF Good
  <1>7. /\ CodeAbove(c) => CodeAbove(d)
        /\ CurrentOf(c, current) => CurrentOf(d, current)
        /\ NeedsNodes(d) => NeedsNodes(c)
    BY <1>1, <1>3, <1>5, RunsSame
  <1>8. DOMAIN d = 1 .. Len(c) /\ DOMAIN c = 1 .. Len(c)
    BY <1>1, <1>3, LenProperties
  <1>9. EventsFit(c, events)
    BY DEF Good
  <1>10. EventsFit(d, events)
    BY <1>3, <1>8, <1>9 DEF EventsFit, FitsIn
  <1>11. QED
    BY <1>3, <1>6, <1>7, <1>10 DEF Good, d

LEMMA GoodPushOther ==
    ASSUME NEW c, NEW f \in Frames, ~IsExecuted(f), f.kind # "node",
           NEW stack, NEW instances, NEW current, NEW nest, NEW events,
           Good(c, stack, instances, current, nest, events), FitsIn(f, events)
    PROVE  Good(Append(c, f), stack, instances, current, nest, events)
  <1>1. c \in Seq(Frames)
    BY DEF Good
  <1>2. Append(c, f) \in Seq(Frames)
    BY <1>1, AppendFacts
  <1>3. StacksFit(stack, instances, Append(c, f))
    BY <1>1, StacksPushOther DEF Good
  <1>4. CodeAbove(Append(c, f)) /\ (~nest => CurrentOf(Append(c, f), current))
    BY <1>1, RunsPush DEF Good
  <1>5. EventsFit(Append(c, f), events)
    BY <1>1, EventsPush DEF Good
  <1>6. QED
    BY <1>2, <1>3, <1>4, <1>5 DEF Good

LEMMA GoodPushCode ==
    ASSUME NEW c, NEW f \in Frames, IsExecuted(f),
           NEW stack, NEW instances, NEW current, NEW nest, NEW events,
           Good(c, stack, instances, current, nest, events)
    PROVE  Good(Append(c, f), Append(stack, f.script), instances, current, nest, events)
  <1>1. c \in Seq(Frames) /\ stack \in Seq(Scripts)
    BY DEF Good, StackTypes
  <1>2. f.script \in Scripts /\ f.kind # "node" /\ f.kind # "event"
    BY ExecutedHaveScripts DEF IsExecuted
  <1>3. Append(c, f) \in Seq(Frames) /\ Append(stack, f.script) \in Seq(Scripts)
    BY <1>1, <1>2, AppendFacts
  <1>4. StacksFit(Append(stack, f.script), instances, Append(c, f))
    BY <1>1, StacksPushCode DEF Good
  <1>5. CodeAbove(Append(c, f)) /\ (~nest => CurrentOf(Append(c, f), current))
    BY <1>1, <1>2, RunsPush DEF Good
  <1>6. EventsFit(Append(c, f), events)
    BY <1>1, <1>2, EventsPush DEF Good, FitsIn
  <1>7. StackTypes(Append(stack, f.script), instances)
    BY <1>3 DEF Good, StackTypes
  <1>8. QED
    BY <1>3, <1>4, <1>5, <1>6, <1>7 DEF Good

\* A node and the code of its function.
LEMMA GoodPushNode ==
    ASSUME NEW c, NEW n \in Nodes, NEW s, s = NodeScriptOf[n],
           NEW stack, NEW instances, NEW current, NEW nest, NEW events, NEW after,
           Good(c, stack, instances, current, nest, events),
           ~after => \A m \in DOMAIN c : ~Unreturned(c[m])
    PROVE  Good(Append(Append(c, NodeRun(n)), CodeOf(s, TRUE)), Append(stack, s),
                [instances EXCEPT ![s] = Append(@, n)], n, after, events)
  <1>1. PICK f : f = NodeRun(n)
    OBVIOUS
  <1>2. PICK g : g = CodeOf(s, TRUE)
    OBVIOUS
  <1>3. c \in Seq(Frames) /\ StackTypes(stack, instances)
    BY DEF Good
  <1>4. s \in Scripts
    BY ScriptsAssumption
  <1>5. <<>> \in Seq(Nodes)
    BY EmptySeq
  <1>6. f \in Frames /\ f.kind = "node" /\ f.node = n
    BY <1>1, <1>5 DEF NodeRun, Frames, NodeFrames
  <1>7. g \in Frames /\ g.kind = "vm" /\ g.script = s /\ IsExecuted(g)
    BY <1>2, <1>4 DEF CodeOf, Frames, VmFrames, IsExecuted
  <1>8. PICK d : d = Append(c, f)
    OBVIOUS
  <1>9. d \in Seq(Frames) /\ Append(d, g) \in Seq(Frames)
    BY <1>3, <1>6, <1>7, <1>8, AppendFacts
  <1> DEFINE instances2 == [instances EXCEPT ![s] = Append(@, n)]
  <1>10. StacksFit(stack, instances2, d)
    BY <1>3, <1>6, <1>8, StacksPushNode DEF Good, StackTypes
  <1>11. StackTypes(Append(stack, s), instances2)
    <2>1. Append(stack, s) \in Seq(Scripts)
      BY <1>3, <1>4, AppendFacts DEF StackTypes
    <2>2. instances \in [Scripts -> Seq(Nodes)] /\ instances[s] \in Seq(NodesOf(s))
      BY <1>3, <1>4 DEF StackTypes
    <2>3. Append(instances[s], n) \in Seq(Nodes)
      BY <1>4, <2>2, AppendFacts
    <2>4. Append(instances[s], n) \in Seq(NodesOf(s))
      <3>1. n \in NodesOf(s)
        BY DEF NodesOf
      <3>2. QED
        BY <2>2, <3>1, AppendFacts
    <2>5. instances2 \in [Scripts -> Seq(Nodes)]
      BY <1>4, <2>2, <2>3
    <2>6. \A t \in Scripts : instances2[t] \in Seq(NodesOf(t))
      BY <1>3, <1>4, <2>2, <2>4 DEF StackTypes
    <2>7. QED
      BY <2>1, <2>5, <2>6 DEF StackTypes
  <1> HIDE DEF instances2
  <1>12. StacksFit(Append(stack, s), instances2, Append(d, g))
    <2>1. stack \in Seq(Scripts)
      BY <1>3 DEF StackTypes
    <2>2. StacksFit(Append(stack, g.script), instances2, Append(d, g))
      BY <1>7, <1>9, <1>10, <2>1, StacksPushCode
    <2>3. QED
      BY <1>7, <2>2
  <1>13. CodeAbove(Append(d, g)) /\ (~after => CurrentOf(Append(d, g), n))
    BY <1>3, <1>6, <1>7, <1>8, RunsPushNode DEF Good
  <1>14. EventsFit(Append(d, g), events)
    <2>1. FitsIn(f, events) /\ FitsIn(g, events)
      BY <1>6, <1>7 DEF FitsIn
    <2>2. EventsFit(d, events)
      BY <1>3, <1>6, <1>8, <2>1, EventsPush DEF Good
    <2>3. QED
      BY <1>7, <1>9, <2>1, <2>2, EventsPush
  <1>15. Good(Append(d, g), Append(stack, s), instances2, n, after, events)
    BY <1>9, <1>11, <1>12, <1>13, <1>14 DEF Good
  <1>16. QED
    BY <1>1, <1>2, <1>8, <1>15 DEF instances2

LEMMA GoodPopOther ==
    ASSUME NEW c, c # <<>>, Last(c).kind \in {"all", "event", "input"},
           NEW stack, NEW instances, NEW current, NEW nest, NEW events,
           Good(c, stack, instances, current, nest, events)
    PROVE  Good(Front(c), stack, instances, current, nest, events)
  <1>1. c \in Seq(Frames) /\ ~IsExecuted(Last(c)) /\ Last(c).kind # "node"
    BY DEF Good, IsExecuted
  <1>2. Front(c) \in Seq(Frames)
    BY <1>1, FrontFacts
  <1>3. StacksFit(stack, instances, Front(c))
    BY <1>1, StacksPopOther DEF Good
  <1>4. CodeAbove(Front(c)) /\ (~nest => CurrentOf(Front(c), current))
    BY <1>1, RunsPop DEF Good
  <1>5. EventsFit(Front(c), events)
    BY <1>1, EventsPop DEF Good
  <1>6. QED
    BY <1>2, <1>3, <1>4, <1>5 DEF Good

LEMMA GoodPopNode ==
    ASSUME NEW c, c # <<>>, Last(c).kind = "node",
           NEW stack, NEW instances, NEW current, NEW nest, NEW events, NEW other,
           Good(c, stack, instances, current, nest, events)
    PROVE  Good(Front(c), stack,
                [instances EXCEPT ![NodeScriptOf[Last(c).node]] = Front(@)],
                other, nest, events)
  <1>1. c \in Seq(Frames) /\ StackTypes(stack, instances) /\ Last(c) \in Frames
    BY FrontFacts DEF Good
  <1>2. PICK s \in Scripts : s = NodeScriptOf[Last(c).node]
    BY <1>1, ExecutedHaveScripts
  <1>3. Front(c) \in Seq(Frames)
    BY <1>1, FrontFacts
  <1> DEFINE instances2 == [instances EXCEPT ![s] = Front(@)]
  <1>4. instances[s] # <<>> /\ StacksFit(stack, instances2, Front(c))
    BY <1>1, <1>2, StacksPopNode DEF Good, StackTypes
  <1>5. StackTypes(stack, instances2)
    <2>1. instances \in [Scripts -> Seq(Nodes)] /\ instances[s] \in Seq(NodesOf(s))
      BY <1>1 DEF StackTypes
    <2>2. Front(instances[s]) \in Seq(Nodes) /\ Front(instances[s]) \in Seq(NodesOf(s))
      BY <1>4, <2>1, FrontFacts
    <2>3. instances2 \in [Scripts -> Seq(Nodes)]
      BY <2>1, <2>2
    <2>4. \A t \in Scripts : instances2[t] \in Seq(NodesOf(t))
      BY <1>1, <2>1, <2>2 DEF StackTypes
    <2>5. QED
      BY <1>1, <2>3, <2>4 DEF StackTypes
  <1> HIDE DEF instances2
  <1>6. CodeAbove(Front(c))
    BY <1>1, RunsPop DEF Good
  <1>7. ~nest => CurrentOf(Front(c), other)
    BY <1>1, RunsPopNode DEF Good
  <1>8. EventsFit(Front(c), events)
    BY <1>1, EventsPop DEF Good
  <1>9. Good(Front(c), stack, instances2, other, nest, events)
    BY <1>1, <1>3, <1>4, <1>5, <1>6, <1>7, <1>8 DEF Good
  <1>10. QED
    BY <1>2, <1>9 DEF instances2

\* A file has been executed.
LEMMA GoodPopOpen ==
    ASSUME NEW c, c # <<>>, Last(c).kind = "open",
           NEW stack, NEW instances, NEW current, NEW nest, NEW events,
           Good(c, stack, instances, current, nest, events)
    PROVE  Good(Front(c), Front(stack), instances, current, nest, events)
  <1>1. c \in Seq(Frames) /\ StackTypes(stack, instances) /\ IsExecuted(Last(c))
    BY DEF Good, IsExecuted
  <1>2. stack \in Seq(Scripts)
    BY <1>1 DEF StackTypes
  <1>3. stack # <<>> /\ StacksFit(Front(stack), instances, Front(c))
    BY <1>1, <1>2, StacksPopCode DEF Good
  <1>4. Front(c) \in Seq(Frames) /\ Front(stack) \in Seq(Scripts)
    BY <1>1, <1>2, <1>3, FrontFacts
  <1>5. CodeAbove(Front(c)) /\ (~nest => CurrentOf(Front(c), current))
    BY <1>1, RunsPop DEF Good
  <1>6. EventsFit(Front(c), events)
    BY <1>1, EventsPop DEF Good
  <1>7. StackTypes(Front(stack), instances)
    BY <1>1, <1>4 DEF StackTypes
  <1>8. QED
    BY <1>4, <1>3, <1>5, <1>6, <1>7 DEF Good

\* Code returns: the running stack loses what the call put there.
LEMMA StacksPopVm ==
    ASSUME NEW c \in Seq(Frames), c # <<>>, Last(c).kind = "vm",
           NEW stack, NEW instances, StackTypes(stack, instances),
           StacksFit(stack, instances, c),
           NEW after, after = IF Last(c).pushed THEN Front(stack) ELSE stack
    PROVE  StackTypes(after, instances) /\ StacksFit(after, instances, Front(c))
  <1>1. stack \in Seq(Scripts)
    BY DEF StackTypes
  <1>2. CASE Last(c).pushed
    <2>1. IsExecuted(Last(c))
      BY <1>2 DEF IsExecuted
    <2>2. stack # <<>> /\ StacksFit(Front(stack), instances, Front(c))
      BY <1>1, <2>1, StacksPopCode
    <2>3. Front(stack) \in Seq(Scripts)
      BY <1>1, <2>2, FrontFacts
    <2>4. QED
      BY <1>2, <2>2, <2>3 DEF StackTypes
  <1>3. CASE ~Last(c).pushed
    <2>1. ~IsExecuted(Last(c)) /\ Last(c).kind # "node"
      BY <1>3 DEF IsExecuted
    <2>2. StacksFit(stack, instances, Front(c))
      BY <2>1, StacksPopOther
    <2>3. QED
      BY <1>3, <2>2
  <1>4. QED
    BY <1>2, <1>3

\* It was not the function of a node.
LEMMA GoodPopVm ==
    ASSUME NEW c, c # <<>>, Last(c).kind = "vm",
           Front(c) # <<>> => Last(Front(c)).kind # "node",
           NEW stack, NEW instances, NEW current, NEW nest, NEW events,
           Good(c, stack, instances, current, nest, events),
           NEW after, after = IF Last(c).pushed THEN Front(stack) ELSE stack
    PROVE  Good(Front(c), after, instances, current, nest, events)
  <1>1. /\ c \in Seq(Frames) /\ StackTypes(stack, instances)
        /\ StacksFit(stack, instances, c)
    BY DEF Good
  <1>2. StackTypes(after, instances) /\ StacksFit(after, instances, Front(c))
    BY <1>1, StacksPopVm
  <1>3. Front(c) \in Seq(Frames)
    BY <1>1, FrontFacts
  <1>4. CodeAbove(Front(c))
    BY <1>1, RunsPop DEF Good, Unreturned
  <1>5. ~nest => CurrentOf(Front(c), current)
    BY <1>1, RunsPop DEF Good
  <1>6. EventsFit(Front(c), events)
    BY <1>1, EventsPop DEF Good
  <1>7. QED
    BY <1>2, <1>3, <1>4, <1>5, <1>6 DEF Good

\* It was: the node on top has returned.
LEMMA GoodPopNodeCode ==
    ASSUME NEW c, c # <<>>, Last(c).kind = "vm", NEW d, d = Front(c), d # <<>>,
           NEW g \in Frames, Last(d).kind = "node", g.kind = "node", g.node = Last(d).node,
           g.returned,
           NEW stack, NEW instances, NEW current, NEW nest, NEW events,
           Good(c, stack, instances, current, nest, events),
           NEW after, after = IF Last(c).pushed THEN Front(stack) ELSE stack
    PROVE  Good([d EXCEPT ![Len(d)] = g], after, instances, current, nest, events)
  <1>1. /\ c \in Seq(Frames) /\ StackTypes(stack, instances)
        /\ StacksFit(stack, instances, c)
    BY DEF Good
  <1>2. StackTypes(after, instances) /\ StacksFit(after, instances, d)
    BY <1>1, StacksPopVm
  <1>3. /\ d \in Seq(Frames) /\ Len(d) = Len(c) - 1 /\ Len(c) \in Nat
        /\ \A n \in 1 .. Len(c) - 1 : d[n] = c[n]
    BY <1>1, FrontFacts
  <1>4. Len(d) \in Nat \ {0} /\ Last(d) = d[Len(d)]
    BY <1>3, FrontFacts
  <1>5. Len(d) \in 1 .. Len(d)
    BY <1>4
  <1> DEFINE e == [d EXCEPT ![Len(d)] = g]
  <1>6. /\ e \in Seq(Frames) /\ Len(e) = Len(d)
        /\ \A n \in 1 .. Len(d) : e[n] = IF n = Len(d) THEN g ELSE d[n]
    BY <1>3, <1>5, ReplaceFacts
  <1> HIDE DEF e
  <1>7. /\ DOMAIN e = 1 .. Len(d) /\ DOMAIN d = 1 .. Len(d) /\ DOMAIN c = 1 .. Len(d) + 1
        /\ \A n \in 1 .. Len(d) : n \in 1 .. Len(c) - 1
    BY <1>1, <1>3, <1>6, LenProperties
  <1>8. \A n \in 1 .. Len(d) : e[n].kind = c[n].kind
    BY <1>3, <1>4, <1>5, <1>6, <1>7
  <1>9. \A n \in 1 .. Len(d) : Alike(d[n], e[n])
    BY <1>4, <1>6 DEF Alike
  <1>10. StacksFit(after, instances, e)
    BY <1>2, <1>3, <1>6, <1>9, StacksSame
  <1>11. ASSUME NEW n \in DOMAIN e, Unreturned(e[n])
         PROVE  n # Len(d) /\ e[n] = c[n] /\ n + 1 \in 1 .. Len(d) /\ n \in DOMAIN c
    <2>1. n # Len(d)
      BY <1>6, <1>7, <1>11 DEF Unreturned
    <2>2. n \in 1 .. Len(d) /\ n + 1 \in 1 .. Len(d)
      BY <1>4, <1>7, <2>1
    <2>3. QED
      BY <1>3, <1>6, <1>7, <2>1, <2>2
  <1>12. CodeAbove(e)
    <2> SUFFICES ASSUME NEW n \in DOMAIN e, Unreturned(e[n])
                 PROVE  n < Len(e) /\ e[n + 1].kind = "vm"
      BY DEF CodeAbove
    <2>1. n + 1 \in 1 .. Len(d) /\ n \in DOMAIN c /\ Unreturned(c[n])
      BY <1>11
    <2>2. c[n + 1].kind = "vm"
      BY <2>1 DEF Good, CodeAbove
    <2>3. e[n + 1].kind = "vm"
      BY <1>8, <2>1, <2>2
    <2>4. n < Len(e)
      <3>1. PICK k \in Nat : k = Len(d)
        BY <1>4
      <3>2. n \in 1 .. k /\ n + 1 \in 1 .. k
        BY <1>7, <2>1, <3>1
      <3>3. Len(e) = k
        BY <1>6, <3>1
      <3>4. QED
        BY <3>2, <3>3
    <2>5. QED
      BY <2>3, <2>4
  <1>13. ASSUME ~nest PROVE CurrentOf(e, current)
    <2> SUFFICES ASSUME NEW n \in DOMAIN e, Unreturned(e[n])
                 PROVE  /\ current = e[n].node
                        /\ \A m \in n + 1 .. Len(e) : e[m].kind # "node"
      BY DEF CurrentOf
    <2>1. /\ n \in DOMAIN c /\ e[n] = c[n] /\ CurrentOf(c, current)
      BY <1>11, <1>13 DEF Good
    <2>2. current = c[n].node /\ \A m \in n + 1 .. Len(c) : c[m].kind # "node"
      BY <2>1 DEF CurrentOf
    <2>3. \A m \in n + 1 .. Len(e) : m \in n + 1 .. Len(c) /\ m \in 1 .. Len(d)
      BY <1>3, <1>4, <1>6, <1>7
    <2>4. QED
      BY <1>8, <2>1, <2>2, <2>3
  <1>14. EventsFit(e, events)
    <2>1. \A n \in DOMAIN c : FitsIn(c[n], events)
      BY DEF Good, EventsFit
    <2>2. FitsIn(g, events)
      BY DEF FitsIn
    <2>3. \A n \in DOMAIN e : e[n] = g \/ (n \in DOMAIN c /\ e[n] = c[n])
      BY <1>3, <1>6, <1>7
    <2>4. QED
      BY <2>1, <2>2, <2>3 DEF EventsFit
  <1>15. QED
    BY <1>2, <1>6, <1>10, <1>12, <1>13, <1>14 DEF Good, e

\* The listeners of an event change, and the frames of events that run with them.
LEMMA GoodListeners ==
    ASSUME NEW c, NEW d, NEW stack, NEW instances, NEW current, NEW nest, NEW events,
           Good(c, stack, instances, current, nest, events),
           NEW after, d = [n \in DOMAIN c |-> d[n]],
           \A n \in DOMAIN c : c[n].kind # "event" => d[n] = c[n],
           \A n \in DOMAIN c : c[n].kind = "event" =>
               d[n] \in EventFrames /\ EventFits(d[n], after[d[n].event])
    PROVE  Good(d, stack, instances, current, nest, after) /\ (NeedsNodes(d) => NeedsNodes(c))
  <1>1. c \in Seq(Frames) /\ DOMAIN c = 1 .. Len(c) /\ Len(c) \in Nat
    BY LenProperties DEF Good
  <1>2. \A n \in 1 .. Len(c) : c[n] \in Frames
    BY <1>1, ElementOfSeq
  <1>3. \A f \in EventFrames : f \in Frames /\ f.kind = "event"
    BY EventFields
  <1>4. /\ DOMAIN d = 1 .. Len(c)
        /\ \A n \in 1 .. Len(c) : d[n] = c[n] \/ (c[n].kind = "event" /\ d[n] \in EventFrames)
    BY <1>1
  <1>5. \A n \in 1 .. Len(c) : d[n] \in Frames
    BY <1>1, <1>2, <1>3, <1>4
  <1>6. d \in [1 .. Len(c) -> Frames]
    BY <1>1, <1>4, <1>5
  <1>7. d \in Seq(Frames) /\ Len(d) = Len(c)
    BY <1>1, <1>6, IsASeq, LenProperties
  <1>8. \A n \in 1 .. Len(c) : d[n] # c[n] => d[n].kind = "event" /\ c[n].kind = "event"
    BY <1>1, <1>3, <1>4
  <1>9. \A n \in 1 .. Len(c) : Alike(c[n], d[n]) /\ SameRun(c[n], d[n])
    BY <1>8 DEF Alike, SameRun
  <1>10. StacksFit(stack, instances, d)
    BY <1>1, <1>7, <1>9, StacksSame DEF Good
  <1>11. /\ CodeAbove(c) => CodeAbove(d)
         /\ CurrentOf(c, current) => CurrentOf(d, current)
         /\ NeedsNodes(d) => NeedsNodes(c)
    BY <1>1, <1>7, <1>9, RunsSame
  <1>12. EventsFit(d, after)
    BY <1>1, <1>4, <1>8 DEF EventsFit, FitsIn
  <1>13. QED
    BY <1>7, <1>10, <1>11, <1>12 DEF Good

-----------------------------------------------------------------------------
(* The actions.  First what they have in common.                           *)

LEMMA ListenerFacts ==
    ASSUME NEW l \in Listeners
    PROVE  /\ l.script \in Scripts /\ l.node \in Nodes \cup {NoNode}
           /\ l.node # NoNode => l.node \in Nodes /\ l.script = NodeScriptOf[l.node]
  BY ScriptsAssumption DEF Listeners

\* The top frame, of a stack that is not empty.
LEMMA TopFacts ==
    ASSUME IInv, calls # <<>>
    PROVE  /\ calls \in Seq(Frames) /\ Top = Last(calls) /\ Top \in Frames
           /\ Len(calls) \in Nat \ {0} /\ Len(calls) \in DOMAIN calls
           /\ calls[Len(calls)] = Top
  <1>1. calls \in Seq(Frames)
    BY DEF IInv, AllGood, Good
  <1>2. Len(calls) \in Nat \ {0} /\ Last(calls) = calls[Len(calls)] /\ Last(calls) \in Frames
    BY <1>1, FrontFacts
  <1>3. Len(calls) \in DOMAIN calls
    BY <1>1, <1>2, LenProperties
  <1>4. QED
    BY <1>1, <1>2, <1>3 DEF Top

\* A frame by its kind.
LEMMA FrameFacts ==
    ASSUME NEW f \in Frames
    PROVE  /\ f.kind = "vm" => f.script \in Scripts /\ f.pushed \in BOOLEAN
           /\ f.kind = "open" => f.script \in Scripts
           /\ f.kind = "node" => f \in NodeFrames
           /\ f.kind = "input" => f \in InputFrames
           /\ f.kind = "event" => f \in EventFrames
           /\ f.kind = "all" => f.left \subseteq Scripts
  BY DEF Frames, VmFrames, OpenFrames, NodeFrames, InputFrames, EventFrames, AllFrames

\* The VM of a script that was opened is there unless a file was lost.
LEMMA OpenedIsLive ==
    ASSUME IInv, NEW s \in Scripts, WasOpened(s), vm[s] # "live"
    PROVE  lost # {}
  BY DEF IInv, Types, VmsInv, WasOpened

\* Nodes are there while one of them runs or waits for its input.
LEMMA NodesAreOpened ==
    ASSUME IInv, calls # <<>>, Top.kind \in {"node", "input"}, NEW n \in Nodes
    PROVE  NodesOpened /\ WasOpened(NodeScriptOf[n]) /\ NodeScriptOf[n] \in Scripts
  <1>1. Len(calls) \in DOMAIN calls /\ calls[Len(calls)] = Top
    BY TopFacts
  <1>2. NeedsNodes(calls)
    BY <1>1 DEF NeedsNodes
  <1>3. NodesOpened
    BY <1>2 DEF IInv, VmsInv
  <1>4. QED
    BY <1>3, ScriptsAssumption DEF NodesOpened

\* A step that leaves files and listeners alone.
LEMMA CallsChange ==
    ASSUME IInv, UNCHANGED <<wiring, files, myEvents>>,
           myCurrentRunningInstance' \in Nodes \cup {NoNode},
           crashed' \in BOOLEAN, nested' \in BOOLEAN,
           AllGood', NeedsNodes(calls') => NodesOpened, crashed' => lost # {}
    PROVE  IInv'
  <1>1. Types'
    BY DEF IInv, Types, files
  <1>2. VmsInv'
    BY DEF IInv, VmsInv, ListenersCallable, files, NodesOpened, WasOpened, IsCallable,
           CrashOnlyAfterLoss
  <1>3. QED
    BY <1>1, <1>2 DEF IInv

\* So is one that does not execute anything.
LEMMA NothingExecuted ==
    ASSUME IInv, UNCHANGED <<wiring, files, myEvents, myCurrentRunningInstance, nested>>,
           UNCHANGED crashed, AllGood', NeedsNodes(calls') => NodesOpened
    PROVE  IInv'
  <1>1. crashed' => lost # {}
    BY DEF IInv, VmsInv, CrashOnlyAfterLoss
  <1>2. /\ myCurrentRunningInstance' \in Nodes \cup {NoNode}
        /\ crashed' \in BOOLEAN /\ nested' \in BOOLEAN
    BY DEF IInv, Types
  <1>3. QED
    BY <1>1, <1>2, CallsChange

\* A step that opens or loses files.
LEMMA FilesChange ==
    ASSUME IInv, Types', AllGood', UNCHANGED myEvents,
           \A s \in Scripts : WasOpened(s) => WasOpened(s)',
           NeedsNodes(calls') => NeedsNodes(calls),
           lost' = {} => \A s \in Scripts : vm'[s] # "freed",
           crashed' => lost' # {}
    PROVE  IInv'
  <1>1. NodesOpened => NodesOpened'
    BY ScriptsAssumption DEF NodesOpened
  <1>2. NeedsNodes(calls') => NodesOpened'
    BY <1>1 DEF IInv, VmsInv
  <1>3. ASSUME NEW e \in Events, NEW n \in DOMAIN myEvents[e]
        PROVE  IsCallable(myEvents[e][n])'
    <2>1. PICK l : l = myEvents[e][n]
      OBVIOUS
    <2>2. myEvents[e] \in Seq(Listeners)
      BY DEF IInv, Types
    <2>3. l \in Listeners
      BY <2>1, <2>2, ElementOfSeq, LenProperties
    <2>4. WasOpened(l.script) /\ (l.node # NoNode => NodesOpened)
      BY <2>1 DEF IInv, VmsInv, ListenersCallable, IsCallable
    <2>5. l.script \in Scripts
      BY <2>3, ListenerFacts
    <2>6. WasOpened(l.script)' /\ (l.node # NoNode => NodesOpened')
      BY <1>1, <2>4, <2>5
    <2>7. IsCallable(l)'
      BY <2>6 DEF IsCallable
    <2>8. QED
      BY <2>1, <2>7
  <1>4. VmsInv'
    <2>1. ListenersCallable'
      BY <1>3 DEF ListenersCallable
    <2>2. QED
      BY <1>2, <2>1 DEF VmsInv, CrashOnlyAfterLoss
  <1>5. QED
    BY <1>4 DEF IInv

-----------------------------------------------------------------------------
(* Files.                                                                  *)

LEMMA InitIsGood ==
    ASSUME Init
    PROVE  IInv
  <1>1. Types
    BY EmptySeq, ScriptsAssumption DEF Init, Types
  <1>2. <<>> \in Seq(Frames) /\ <<>> \in Seq(Scripts) /\ <<>> \in Seq(Nodes) /\ Len(<<>>) = 0
        /\ \A s : <<>> \in Seq(NodesOf(s))
    BY EmptySeq
  <1>3. DOMAIN <<>> = {}
    BY EmptySeq, LenProperties
  <1>4. DOMAIN ScriptsIn(<<>>) = {} /\ \A s : DOMAIN NodesIn(<<>>, s) = {}
    BY <1>3 DEF ScriptsIn, NodesIn
  <1>5. Cardinality({}) = 0
    BY FS_EmptySet
  <1>6. Lists(<<>>, ScriptsIn(<<>>)) /\ \A s : Lists(<<>>, NodesIn(<<>>, s))
    BY <1>2, <1>4, <1>5 DEF Lists
  <1>7. StacksFit(<<>>, [s \in Scripts |-> <<>>], <<>>)
    BY <1>6 DEF StacksFit
  <1>8. StackTypes(<<>>, [s \in Scripts |-> <<>>])
    BY <1>2 DEF StackTypes
  <1>9. /\ CodeAbove(<<>>) /\ CurrentOf(<<>>, NoNode)
        /\ EventsFit(<<>>, [e \in Events |-> <<>>]) /\ ~NeedsNodes(<<>>)
    BY <1>3 DEF CodeAbove, CurrentOf, EventsFit, NeedsNodes
  <1>10. AllGood
    BY <1>2, <1>7, <1>8, <1>9 DEF AllGood, Good, Init
  <1>11. VmsInv
    BY <1>3, <1>9 DEF VmsInv, ListenersCallable, Init, CrashOnlyAfterLoss
  <1>12. QED
    BY <1>1, <1>10, <1>11 DEF IInv

LEMMA RegisterFunctionKeeps ==
    ASSUME IInv, UNCHANGED wiring, NEW s \in Scripts, RegisterFunction(s)
    PROVE  IInv'
  <1>1. Types'
    BY DEF IInv, Types, RegisterFunction, running
  <1>2. AllGood'
    BY DEF IInv, AllGood, RegisterFunction, running
  <1>3. QED
    <2>1. UNCHANGED <<vm, lost, calls, crashed, myEvents>>
      BY DEF RegisterFunction
    <2>2. \A t \in Scripts : WasOpened(t) => WasOpened(t)'
      BY <2>1 DEF WasOpened
    <2>3. /\ lost' = {} => \A t \in Scripts : vm'[t] # "freed"
          /\ crashed' => lost' # {}
      BY <2>1 DEF IInv, VmsInv, CrashOnlyAfterLoss
    <2>4. QED
      BY <1>1, <1>2, <2>1, <2>2, <2>3, FilesChange

LEMMA OpenFileKeeps ==
    ASSUME IInv, UNCHANGED wiring, NEW s \in Scripts, OpenFile(s)
    PROVE  IInv'
  <1>1. Types'
    BY DEF IInv, Types, OpenFile
  <1>2. PICK f : f = [kind |-> "open", script |-> s]
    OBVIOUS
  <1>3. f \in Frames /\ IsExecuted(f) /\ f.script = s /\ f.kind = "open"
    BY <1>2 DEF Frames, OpenFrames, IsExecuted
  <1>4. calls = <<>> /\ calls' = <<f>> /\ calls \in Seq(Frames)
    BY <1>2 DEF OpenFile, Idle, IInv, AllGood, Good
  <1>5. calls' = Append(calls, f)
    BY <1>4
  <1>6. AllGood'
    <2>1. Good(Append(calls, f), Append(myRunningScriptStack, f.script),
               myStackedRunningInstances, myCurrentRunningInstance, nested, myEvents)
      BY <1>3, GoodPushCode DEF IInv, AllGood
    <2>2. QED
      BY <1>3, <1>5, <2>1 DEF AllGood, OpenFile
  <1>7. NeedsNodes(calls') => NeedsNodes(calls)
    BY <1>3, <1>4, <1>5, RunsPush
  <1>8. /\ vm' = [vm EXCEPT ![s] = "live"] /\ UNCHANGED <<lost, myEvents, crashed>>
        /\ vm \in [Scripts -> {"null", "live", "freed"}]
    BY DEF OpenFile, IInv, Types
  <1>9. /\ \A t \in Scripts : WasOpened(t) => WasOpened(t)'
        /\ lost' = {} => \A t \in Scripts : vm'[t] # "freed"
        /\ crashed' => lost' # {}
    BY <1>8 DEF IInv, VmsInv, CrashOnlyAfterLoss, WasOpened
  <1>10. QED
    BY <1>1, <1>6, <1>7, <1>8, <1>9, FilesChange

LEMMA OpenedKeeps ==
    ASSUME IInv, UNCHANGED wiring, NEW failed \in BOOLEAN, Opened(failed)
    PROVE  IInv'
  <1>1. /\ calls # <<>> /\ Top.kind = "open" /\ calls' = Front(calls)
        /\ UNCHANGED <<myScriptFunctions, bound, myStackedRunningInstances,
                       myCurrentRunningInstance, nested, myEvents, crashed>>
        /\ myRunningScriptStack' = Front(myRunningScriptStack)
    BY DEF Opened, TopIs, Idle
  <1>2. calls \in Seq(Frames) /\ Top = Last(calls) /\ Top \in Frames
    BY <1>1, TopFacts
  <1>3. PICK s \in Scripts : s = Top.script
    BY <1>1, <1>2, FrameFacts
  <1>4. /\ vm' = IF failed THEN [vm EXCEPT ![s] = "freed"] ELSE vm
        /\ myFileOpen' = [myFileOpen EXCEPT ![s] = ~failed]
        /\ lost' = IF failed THEN lost \cup {s} ELSE lost
    BY <1>3 DEF Opened
  <1>5. Types'
    BY <1>1, <1>4 DEF IInv, Types
  <1>6. AllGood'
    BY <1>1, <1>2, GoodPopOpen DEF IInv, AllGood
  <1>7. NeedsNodes(calls') => NeedsNodes(calls)
    BY <1>1, <1>2, RunsPop
  <1>8. /\ \A t \in Scripts : WasOpened(t) => WasOpened(t)'
        /\ lost' = {} => \A t \in Scripts : vm'[t] # "freed"
        /\ crashed' => lost' # {}
    BY <1>1, <1>4 DEF IInv, Types, VmsInv, CrashOnlyAfterLoss, WasOpened
  <1>9. QED
    BY <1>1, <1>5, <1>6, <1>7, <1>8, FilesChange

LEMMA CloseFileKeeps ==
    ASSUME IInv, UNCHANGED wiring, NEW s \in Scripts, CloseFile(s)
    PROVE  IInv'
  <1>1. /\ vm' = [vm EXCEPT ![s] = "null"] /\ myFileOpen' = [myFileOpen EXCEPT ![s] = FALSE]
        /\ lost' = lost \cup {s} /\ UNCHANGED <<myScriptFunctions, bound, running, myEvents, calls>>
        /\ crashed' \in BOOLEAN
    BY DEF CloseFile
  <1>2. Types'
    BY <1>1 DEF IInv, Types, running
  <1>3. AllGood'
    BY <1>1 DEF IInv, AllGood, running
  <1>4. /\ \A t \in Scripts : WasOpened(t) => WasOpened(t)'
        /\ lost' = {} => \A t \in Scripts : vm'[t] # "freed"
        /\ crashed' => lost' # {}
    BY <1>1 DEF IInv, Types, WasOpened
  <1>5. QED
    BY <1>1, <1>2, <1>3, <1>4, FilesChange

-----------------------------------------------------------------------------
(* Calls.                                                                  *)

LEMMA CodeFrame ==
    ASSUME NEW s \in Scripts, NEW pushed \in BOOLEAN
    PROVE  /\ CodeOf(s, pushed) \in Frames /\ CodeOf(s, pushed).kind = "vm"
           /\ CodeOf(s, pushed).script = s /\ CodeOf(s, pushed).pushed = pushed
           /\ IsExecuted(CodeOf(s, pushed)) <=> pushed
  BY DEF CodeOf, Frames, VmFrames, IsExecuted

LEMMA InputFrame ==
    ASSUME IInv, NEW n \in Nodes
    PROVE  /\ InputOf(n) \in Frames /\ InputOf(n).kind = "input"
           /\ wiring.calls[n] \in Seq(Nodes)
  <1>1. wiring \in Wirings
    BY DEF IInv, Types
  <1>2. wiring.inputs \in [Nodes -> Seq(Nodes)] /\ wiring.calls \in [Nodes -> Seq(Nodes)]
    BY <1>1, ScriptsAssumption
  <1>3. PICK todo \in Seq(Nodes) : todo = wiring.inputs[n]
    BY <1>2
  <1>4. QED
    BY <1>2, <1>3 DEF InputOf, Frames, InputFrames

\* Code of a script is executed above the frames "below".
LEMMA ExecuteKeeps ==
    ASSUME IInv, UNCHANGED <<wiring, files, myEvents>>,
           UNCHANGED <<myStackedRunningInstances, myCurrentRunningInstance, nested>>,
           NEW s \in Scripts, WasOpened(s), NEW below,
           Good(below, myRunningScriptStack, myStackedRunningInstances,
                myCurrentRunningInstance, nested, myEvents),
           NeedsNodes(below) => NodesOpened, Execute(s, below)
    PROVE  IInv'
  <1>1. PICK f \in Frames : f = CodeOf(s, TRUE) /\ f.kind = "vm" /\ f.script = s /\ IsExecuted(f)
    BY CodeFrame
  <1>2. /\ calls' = Append(below, f) /\ myRunningScriptStack' = Append(myRunningScriptStack, s)
        /\ crashed' = (vm[s] # "live")
    BY <1>1 DEF Execute
  <1>3. Good(Append(below, f), Append(myRunningScriptStack, f.script),
             myStackedRunningInstances, myCurrentRunningInstance, nested, myEvents)
    BY <1>1, GoodPushCode
  <1>4. AllGood'
    BY <1>1, <1>2, <1>3 DEF AllGood
  <1>5. NeedsNodes(calls') => NodesOpened
    BY <1>1, <1>2, RunsPush DEF Good
  <1>6. crashed' => lost # {}
    BY <1>2, OpenedIsLive
  <1>7. /\ myCurrentRunningInstance' \in Nodes \cup {NoNode}
        /\ crashed' \in BOOLEAN /\ nested' \in BOOLEAN
    BY <1>2 DEF IInv, Types
  <1>8. QED
    BY <1>4, <1>5, <1>6, <1>7, CallsChange

\* A node and its function.
LEMMA RunNodeKeeps ==
    ASSUME IInv, UNCHANGED <<wiring, files, myEvents>>, NEW n \in Nodes, NEW below,
           Good(below, myRunningScriptStack, myStackedRunningInstances,
                myCurrentRunningInstance, nested, myEvents),
           NodesOpened, RunNode(n, below)
    PROVE  IInv'
  <1>1. PICK s \in Scripts : s = NodeScriptOf[n]
    BY ScriptsAssumption
  <1>2. /\ myCurrentRunningInstance' = n
        /\ myStackedRunningInstances' = [myStackedRunningInstances EXCEPT ![s] = Append(@, n)]
        /\ crashed' = (vm[s] # "live")
        /\ calls' = Append(Append(below, NodeRun(n)), CodeOf(s, TRUE))
        /\ myRunningScriptStack' = Append(myRunningScriptStack, s)
        /\ nested' = (nested \/ \E f \in ToSet(below) : f.kind = "node" /\ ~f.returned)
    BY <1>1 DEF RunNode, Execute
  <1>3. ~nested' => \A m \in DOMAIN below : ~Unreturned(below[m])
    BY <1>2 DEF ToSet, Unreturned
  <1>4. AllGood'
    <2>1. Good(Append(Append(below, NodeRun(n)), CodeOf(s, TRUE)),
               Append(myRunningScriptStack, s),
               [myStackedRunningInstances EXCEPT ![s] = Append(@, n)], n, nested', myEvents)
      BY <1>1, <1>3, GoodPushNode
    <2>2. QED
      BY <1>2, <2>1 DEF AllGood
  <1>5. WasOpened(s)
    BY <1>1 DEF NodesOpened
  <1>6. crashed' => lost # {}
    BY <1>2, <1>5, OpenedIsLive
  <1>7. /\ myCurrentRunningInstance' \in Nodes \cup {NoNode}
        /\ crashed' \in BOOLEAN /\ nested' \in BOOLEAN
    BY <1>2 DEF IInv, Types
  <1>8. QED
    BY <1>4, <1>6, <1>7, CallsChange

LEMMA CallFunctionKeeps ==
    ASSUME IInv, UNCHANGED wiring, NEW s \in Scripts, CallFunction(s)
    PROVE  IInv'
  <1>1. NeedsNodes(calls) => NodesOpened
    BY DEF IInv, VmsInv
  <1>2. /\ WasOpened(s) /\ Execute(s, calls) /\ UNCHANGED <<wiring, files, myEvents>>
        /\ UNCHANGED <<myStackedRunningInstances, myCurrentRunningInstance, nested>>
    BY DEF CallFunction
  <1>3. QED
    BY <1>1, <1>2, ExecuteKeeps DEF IInv, AllGood

LEMMA CallFunctionInAllKeeps ==
    ASSUME IInv, UNCHANGED wiring, CallFunctionInAll
    PROVE  IInv'
  <1>1. PICK f : f = [kind |-> "all", left |-> Scripts]
    OBVIOUS
  <1>2. f \in Frames /\ ~IsExecuted(f) /\ f.kind = "all"
    BY <1>1 DEF Frames, AllFrames, IsExecuted
  <1>3. calls' = Append(calls, f) /\ UNCHANGED <<files, running, myEvents, crashed>>
    BY <1>1 DEF CallFunctionInAll
  <1>4. Good(Append(calls, f), myRunningScriptStack, myStackedRunningInstances,
             myCurrentRunningInstance, nested, myEvents)
    BY <1>2, GoodPushOther DEF IInv, AllGood, FitsIn
  <1>5. AllGood'
    BY <1>3, <1>4 DEF AllGood, running
  <1>6. NeedsNodes(calls') => NodesOpened
    BY <1>2, <1>3, RunsPush DEF IInv, VmsInv, AllGood, Good
  <1>7. QED
    BY <1>3, <1>5, <1>6, NothingExecuted DEF running

LEMMA CallNextScriptKeeps ==
    ASSUME IInv, UNCHANGED wiring, CallNextScript
    PROVE  IInv'
  <1>1. calls # <<>> /\ Top.kind = "all" /\ UNCHANGED <<files, running, myEvents, crashed>>
    BY DEF CallNextScript, TopIs, Idle
  <1>2. /\ calls \in Seq(Frames) /\ Top = Last(calls) /\ Top \in Frames
        /\ NeedsNodes(calls) => NodesOpened
    BY <1>1, TopFacts DEF IInv, VmsInv
  <1> DEFINE GoodNow(frames) == Good(frames, myRunningScriptStack, myStackedRunningInstances,
                                     myCurrentRunningInstance, nested, myEvents)
  <1>3. GoodNow(calls)
    BY DEF IInv, AllGood
  <1>4. CASE Top.left = {}
    <2>1. calls' = Front(calls)
      BY <1>4 DEF CallNextScript
    <2>2. GoodNow(calls')
      BY <1>1, <1>2, <1>3, <2>1, GoodPopOther
    <2>3. NeedsNodes(calls') => NodesOpened
      BY <1>1, <1>2, <2>1, RunsPop
    <2>4. QED
      BY <1>1, <2>2, <2>3, NothingExecuted DEF running, AllGood
  <1>5. CASE Top.left # {}
    <2>1. PICK s \in Top.left :
              LET rest == Replace([Top EXCEPT !.left = @ \ {s}])
              IN  calls' = IF myFileOpen[s] THEN Append(rest, CodeOf(s, FALSE)) ELSE rest
      BY <1>5 DEF CallNextScript
    <2>2. s \in Scripts
      BY <1>1, <1>2, FrameFacts
    <2>3. PICK f : f = [Top EXCEPT !.left = @ \ {s}]
      OBVIOUS
    <2>4. f \in Frames /\ f.kind = "all"
      <3>1. Top \in AllFrames
        BY <1>1, <1>2 DEF Frames, VmFrames, OpenFrames, NodeFrames, InputFrames, EventFrames
      <3>2. QED
        BY <2>3, <3>1 DEF AllFrames, Frames
    <2>5. PICK rest : rest = [calls EXCEPT ![Len(calls)] = f]
      OBVIOUS
    <2>6. calls' = IF myFileOpen[s] THEN Append(rest, CodeOf(s, FALSE)) ELSE rest
      BY <2>1, <2>3, <2>5 DEF Replace
    <2>7. Alike(Last(calls), f) /\ SameRun(Last(calls), f) /\ FitsIn(f, myEvents)
      BY <1>1, <1>2, <2>4 DEF Alike, SameRun, FitsIn
    <2>8. GoodNow(rest) /\ (NeedsNodes(rest) => NodesOpened)
      BY <1>1, <1>2, <1>3, <2>4, <2>5, <2>7, GoodReplace
    <2>9. PICK g \in Frames : g = CodeOf(s, FALSE) /\ g.kind = "vm" /\ ~IsExecuted(g)
      BY <2>2, CodeFrame
    <2>10. GoodNow(Append(rest, g)) /\ (NeedsNodes(Append(rest, g)) => NodesOpened)
      <3>1. GoodNow(Append(rest, g))
        BY <2>8, <2>9, GoodPushOther DEF FitsIn
      <3>2. rest \in Seq(Frames)
        BY <2>8 DEF Good
      <3>3. QED
        BY <2>8, <2>9, <3>1, <3>2, RunsPush
    <2>11. GoodNow(calls') /\ (NeedsNodes(calls') => NodesOpened)
      BY <2>6, <2>8, <2>9, <2>10
    <2>12. QED
      BY <1>1, <2>11, NothingExecuted DEF running, AllGood
  <1>6. QED
    BY <1>4, <1>5

-----------------------------------------------------------------------------
(* Nodes.                                                                  *)

\* A frame waits for the input of another node, after "rest" has been left.
LEMMA InputKeeps ==
    ASSUME IInv, UNCHANGED <<wiring, files, running, myEvents, crashed>>,
           NEW rest, Good(rest, myRunningScriptStack, myStackedRunningInstances,
                          myCurrentRunningInstance, nested, myEvents),
           NodesOpened, NEW n \in Nodes, calls' = Append(rest, InputOf(n))
    PROVE  IInv'
  <1>1. PICK f \in Frames : f = InputOf(n) /\ f.kind = "input"
    BY InputFrame
  <1>2. ~IsExecuted(f) /\ FitsIn(f, myEvents)
    BY <1>1 DEF IsExecuted, FitsIn
  <1>3. Good(Append(rest, f), myRunningScriptStack, myStackedRunningInstances,
             myCurrentRunningInstance, nested, myEvents)
    BY <1>1, <1>2, GoodPushOther
  <1>4. AllGood'
    BY <1>1, <1>3 DEF AllGood, running
  <1>5. QED
    BY <1>4, NothingExecuted DEF running

LEMMA RunKeeps ==
    ASSUME IInv, UNCHANGED wiring, NEW n \in Nodes, Run(n)
    PROVE  IInv'
  <1>1. NodesOpened /\ UNCHANGED <<wiring, files, running, myEvents, crashed>>
        /\ calls' = Append(calls, InputOf(n))
    BY DEF Run, NodesOpened
  <1>2. QED
    BY <1>1, InputKeeps DEF IInv, AllGood

\* The frame on top goes on with its next node.
LEMMA NextNodeKeeps ==
    ASSUME IInv, UNCHANGED <<wiring, files, running, myEvents, crashed>>, calls # <<>>,
           Top.kind \in {"node", "input"}, Top.todo # <<>>,
           calls' = Append(Replace([Top EXCEPT !.todo = Tail(@)]), InputOf(Head(Top.todo)))
    PROVE  IInv'
  <1>1. /\ calls \in Seq(Frames) /\ Top = Last(calls) /\ Top \in Frames
    BY TopFacts
  <1>2. Top \in NodeFrames \/ Top \in InputFrames
    BY <1>1, FrameFacts
  <1>3. Top.todo \in Seq(Nodes) /\ Top.node \in Nodes
    BY <1>2 DEF NodeFrames, InputFrames
  <1>4. PICK n \in Nodes : n = Head(Top.todo)
    BY <1>3, TailFacts
  <1>5. PICK todo \in Seq(Nodes) : todo = Tail(Top.todo)
    BY <1>3, TailFacts
  <1>6. PICK f : f = [Top EXCEPT !.todo = todo]
    OBVIOUS
  <1>7. f \in Frames /\ f.kind = Top.kind /\ Alike(Top, f) /\ SameRun(Top, f)
    <2>1. CASE Top \in NodeFrames
      BY <1>6, <2>1 DEF NodeFrames, Frames, Alike, SameRun
    <2>2. CASE Top \in InputFrames
      BY <1>6, <2>2 DEF InputFrames, Frames, Alike, SameRun
    <2>3. QED
      BY <1>2, <2>1, <2>2
  <1>8. PICK rest : rest = [calls EXCEPT ![Len(calls)] = f]
    OBVIOUS
  <1>9. FitsIn(f, myEvents)
    BY <1>7 DEF FitsIn
  <1>10. Good(rest, myRunningScriptStack, myStackedRunningInstances,
              myCurrentRunningInstance, nested, myEvents)
    BY <1>1, <1>7, <1>8, <1>9, GoodReplace DEF IInv, AllGood
  <1>11. [Top EXCEPT !.todo = Tail(@)] = f
    BY <1>2, <1>5, <1>6 DEF NodeFrames, InputFrames
  <1>12. calls' = Append(rest, InputOf(n))
    BY <1>4, <1>8, <1>11 DEF Replace
  <1>13. NodesOpened
    BY <1>3, NodesAreOpened
  <1>14. QED
    BY <1>10, <1>12, <1>13, InputKeeps

LEMMA GetInputKeeps ==
    ASSUME IInv, UNCHANGED wiring, GetInput
    PROVE  IInv'
  <1>1. calls # <<>> /\ Top.kind = "input" /\ UNCHANGED <<files, myEvents>>
    BY DEF GetInput, TopIs, Idle
  <1>2. /\ calls \in Seq(Frames) /\ Top = Last(calls) /\ Top \in Frames
    BY <1>1, TopFacts
  <1>3. Top.node \in Nodes
    BY <1>1, <1>2, FrameFacts DEF InputFrames
  <1>4. CASE Top.todo = <<>>
    <2>1. RunNode(Top.node, Front(calls))
      BY <1>4 DEF GetInput
    <2>2. Good(Front(calls), myRunningScriptStack, myStackedRunningInstances,
               myCurrentRunningInstance, nested, myEvents)
      BY <1>1, <1>2, GoodPopOther DEF IInv, AllGood
    <2>3. NodesOpened
      BY <1>1, <1>3, NodesAreOpened
    <2>4. QED
      BY <1>1, <1>3, <2>1, <2>2, <2>3, RunNodeKeeps
  <1>5. CASE Top.todo # <<>>
    <2>1. /\ calls' = Append(Replace([Top EXCEPT !.todo = Tail(@)]), InputOf(Head(Top.todo)))
          /\ UNCHANGED <<running, crashed>>
      BY <1>5 DEF GetInput
    <2>2. QED
      BY <1>1, <1>5, <2>1, NextNodeKeeps
  <1>6. QED
    BY <1>4, <1>5

LEMMA CallConnectedKeeps ==
    ASSUME IInv, UNCHANGED wiring, CallConnected
    PROVE  IInv'
  <1>1. /\ calls # <<>> /\ Top.kind = "node" /\ Top.todo # <<>>
        /\ UNCHANGED <<files, running, myEvents, crashed>>
        /\ calls' = Append(Replace([Top EXCEPT !.todo = Tail(@)]), InputOf(Head(Top.todo)))
    BY DEF CallConnected, TopIs, Idle
  <1>2. QED
    BY <1>1, NextNodeKeeps

LEMMA EndRunKeeps ==
    ASSUME IInv, UNCHANGED wiring, EndRun
    PROVE  IInv'
  <1>1. /\ calls # <<>> /\ Top.kind = "node" /\ calls' = Front(calls)
        /\ myStackedRunningInstances' =
               [myStackedRunningInstances EXCEPT ![NodeScriptOf[Top.node]] = Front(@)]
        /\ myCurrentRunningInstance' = NoNode
        /\ UNCHANGED <<files, myRunningScriptStack, nested, myEvents, crashed>>
    BY DEF EndRun, TopIs, Idle
  <1>2. /\ calls \in Seq(Frames) /\ Top = Last(calls)
    BY <1>1, TopFacts
  <1>3. AllGood'
    <2>1. Good(Front(calls), myRunningScriptStack,
               [myStackedRunningInstances EXCEPT ![NodeScriptOf[Top.node]] = Front(@)],
               NoNode, nested, myEvents)
      BY <1>1, <1>2, GoodPopNode DEF IInv, AllGood
    <2>2. QED
      BY <1>1, <2>1 DEF AllGood
  <1>4. NeedsNodes(calls') => NodesOpened
    BY <1>1, <1>2, RunsPop DEF IInv, VmsInv
  <1>5. crashed' => lost # {}
    BY <1>1 DEF IInv, VmsInv, CrashOnlyAfterLoss
  <1>6. /\ myCurrentRunningInstance' \in Nodes \cup {NoNode}
        /\ crashed' \in BOOLEAN /\ nested' \in BOOLEAN
    BY <1>1 DEF IInv, Types
  <1>7. QED
    BY <1>1, <1>3, <1>4, <1>5, <1>6, CallsChange

LEMMA ReturnKeeps ==
    ASSUME IInv, UNCHANGED wiring, Return
    PROVE  IInv'
  <1> DEFINE below == Front(calls)
             isNode == below # <<>> /\ Last(below).kind = "node"
  <1>1. /\ calls # <<>> /\ Top.kind = "vm"
        /\ UNCHANGED <<files, myStackedRunningInstances, myCurrentRunningInstance, nested,
                       myEvents, crashed>>
        /\ myRunningScriptStack' = IF Top.pushed THEN Front(myRunningScriptStack)
                                   ELSE myRunningScriptStack
    BY DEF Return, TopIs, Idle
  <1>2. PICK todo \in IF isNode THEN {<<>>, wiring.calls[Last(below).node]} ELSE {<<>>} :
            calls' = IF isNode
                     THEN [below EXCEPT ![Len(below)].returned = TRUE,
                                        ![Len(below)].todo = todo]
                     ELSE below
    BY DEF Return
  <1>3. calls \in Seq(Frames) /\ Top = Last(calls)
    BY <1>1, TopFacts
  <1>4. below \in Seq(Frames) /\ (NeedsNodes(below) => NeedsNodes(calls))
    BY <1>1, <1>3, FrontFacts, RunsPop
  <1>5. NeedsNodes(calls) => NodesOpened
    BY DEF IInv, VmsInv
  <1>6. CASE ~isNode
    <2>1. calls' = below
      BY <1>2, <1>6
    <2>2. Good(below, myRunningScriptStack', myStackedRunningInstances,
               myCurrentRunningInstance, nested, myEvents)
      BY <1>1, <1>3, <1>6, GoodPopVm DEF IInv, AllGood
    <2>3. AllGood'
      BY <1>1, <2>1, <2>2 DEF AllGood
    <2>4. NeedsNodes(calls') => NodesOpened
      BY <1>4, <1>5, <2>1
    <2>5. QED
      BY <1>1, <2>3, <2>4, NothingExecuted
  <1>7. CASE isNode
    <2>1. /\ Len(below) \in Nat \ {0} /\ Last(below) = below[Len(below)] /\ Last(below) \in Frames
      BY <1>4, <1>7, FrontFacts
    <2>2. PICK f \in NodeFrames : f = Last(below)
      BY <1>7, <2>1, FrameFacts
    <2>3. todo \in Seq(Nodes)
      BY <1>2, <1>7, <2>2, InputFrame, EmptySeq DEF NodeFrames
    <2>4. PICK g : g = [f EXCEPT !.returned = TRUE, !.todo = todo]
      OBVIOUS
    <2>5. g \in Frames /\ g.kind = "node" /\ g.node = f.node /\ g.returned
      BY <2>3, <2>4 DEF NodeFrames, Frames
    <2>6. calls' = [below EXCEPT ![Len(below)] = g]
      BY <1>2, <1>4, <1>7, <2>1, <2>2, <2>4, LenProperties
    <2>7. Good([below EXCEPT ![Len(below)] = g], myRunningScriptStack',
               myStackedRunningInstances, myCurrentRunningInstance, nested, myEvents)
      BY <1>1, <1>3, <1>7, <2>2, <2>5, GoodPopNodeCode DEF IInv, AllGood
    <2>8. AllGood'
      BY <1>1, <2>6, <2>7 DEF AllGood
    <2>9. NeedsNodes(below)
      <3>1. Len(below) \in DOMAIN below
        BY <1>4, <2>1, LenProperties
      <3>2. QED
        BY <1>7, <2>1, <3>1 DEF NeedsNodes
    <2>10. NodesOpened
      BY <1>4, <1>5, <2>9
    <2>11. QED
      BY <1>1, <2>8, <2>10, NothingExecuted
  <1>8. QED
    BY <1>6, <1>7

-----------------------------------------------------------------------------
(* Events.                                                                 *)

\* The listeners change, and with them the events that are being called.
LEMMA ListenersChange ==
    ASSUME IInv, UNCHANGED <<wiring, files, running, crashed>>,
           myEvents' \in [Events -> Seq(Listeners)],
           calls' = [n \in DOMAIN calls |-> calls'[n]],
           \A n \in DOMAIN calls : calls[n].kind # "event" => calls'[n] = calls[n],
           \A n \in DOMAIN calls : calls[n].kind = "event" =>
               calls'[n] \in EventFrames /\ EventFits(calls'[n], myEvents'[calls'[n].event]),
           \A e \in Events : \A n \in DOMAIN myEvents'[e] : IsCallable(myEvents'[e][n])
    PROVE  IInv'
  <1>1. Types'
    BY DEF IInv, Types, files, running
  <1>2. /\ Good(calls', myRunningScriptStack, myStackedRunningInstances,
                myCurrentRunningInstance, nested, myEvents')
        /\ NeedsNodes(calls') => NeedsNodes(calls)
    <2>1. PICK d : d = calls'
      OBVIOUS
    <2>2. PICK events : events = myEvents'
      OBVIOUS
    <2>3. /\ d = [n \in DOMAIN calls |-> d[n]]
          /\ \A n \in DOMAIN calls : calls[n].kind # "event" => d[n] = calls[n]
          /\ \A n \in DOMAIN calls : calls[n].kind = "event" =>
                 d[n] \in EventFrames /\ EventFits(d[n], events[d[n].event])
      BY <2>1, <2>2
    <2>4. Good(calls, myRunningScriptStack, myStackedRunningInstances,
               myCurrentRunningInstance, nested, myEvents)
      BY DEF IInv, AllGood
    <2>5. /\ Good(d, myRunningScriptStack, myStackedRunningInstances,
                  myCurrentRunningInstance, nested, events)
          /\ NeedsNodes(d) => NeedsNodes(calls)
      BY <2>3, <2>4, GoodListeners
    <2>6. QED
      BY <2>1, <2>2, <2>5
  <1>3. AllGood'
    BY <1>2 DEF AllGood, running
  <1>4. VmsInv'
    BY <1>2 DEF IInv, VmsInv, ListenersCallable, files, NodesOpened, WasOpened, IsCallable,
                CrashOnlyAfterLoss
  <1>5. QED
    BY <1>1, <1>3, <1>4 DEF IInv

\* The frames of events are typed, and fit their lists.
LEMMA EventFacts ==
    ASSUME IInv, NEW n \in DOMAIN calls, calls[n].kind = "event"
    PROVE  /\ calls[n] \in EventFrames /\ calls[n].event \in Events
           /\ myEvents[calls[n].event] \in Seq(Listeners)
           /\ EventFits(calls[n], myEvents[calls[n].event])
  <1>1. calls \in Seq(Frames) /\ EventsFit(calls, myEvents)
    BY DEF IInv, AllGood, Good
  <1>2. calls[n] \in Frames
    BY <1>1, ElementOfSeq, LenProperties
  <1>3. calls[n] \in EventFrames
    BY <1>2, FrameFacts
  <1>4. QED
    BY <1>1, <1>3, EventFields DEF EventsFit, FitsIn, IInv, Types

LEMMA RegisterKeeps ==
    ASSUME IInv, UNCHANGED wiring, NEW e \in Events, NEW l \in Listeners, IsCallable(l),
           RegisterEventListener(e, l)
    PROVE  IInv'
  <1>1. /\ myEvents' = [myEvents EXCEPT ![e] = Append(@, l)]
        /\ calls' = [n \in DOMAIN calls |->
                        IF calls[n].kind # "event" THEN calls[n]
                        ELSE IF calls[n].event # e THEN calls[n]
                        ELSE [calls[n] EXCEPT !.allowed[l] = @ + 1]]
        /\ UNCHANGED <<files, running, crashed>>
    BY DEF RegisterEventListener
  <1>2. myEvents \in [Events -> Seq(Listeners)] /\ ListenersCallable
    BY DEF IInv, Types, VmsInv
  <1>3. PICK list \in Seq(Listeners) : list = myEvents[e]
    BY <1>2
  <1>4. PICK longer : longer = Append(list, l)
    OBVIOUS
  <1>5. /\ longer \in Seq(Listeners) /\ DOMAIN longer = 1 .. Len(list) + 1
        /\ \A n \in 1 .. Len(list) : longer[n] = list[n]
        /\ longer[Len(list) + 1] = l /\ Len(list) \in Nat /\ DOMAIN list = 1 .. Len(list)
    BY <1>4, AppendFacts, LenProperties
  <1>6. /\ myEvents' \in [Events -> Seq(Listeners)] /\ myEvents'[e] = longer
        /\ \A o \in Events : o # e => myEvents'[o] = myEvents[o]
    BY <1>1, <1>2, <1>3, <1>4, <1>5
  <1>7. ASSUME NEW n \in DOMAIN calls, calls[n].kind = "event"
        PROVE  calls'[n] \in EventFrames /\ EventFits(calls'[n], myEvents'[calls'[n].event])
    <2>1. PICK f \in EventFrames : f = calls[n]
      BY <1>7, EventFacts
    <2>2. f.event \in Events /\ EventFits(f, myEvents[f.event])
      BY <1>7, <2>1, EventFacts
    <2>3. CASE f.event # e
      BY <1>1, <1>6, <1>7, <2>1, <2>2, <2>3
    <2>4. CASE f.event = e
      <3>1. PICK g : g = [f EXCEPT !.allowed[l] = @ + 1]
        OBVIOUS
      <3>2. calls'[n] = g
        BY <1>1, <1>7, <2>1, <2>4, <3>1
      <3>3. EventFits(f, list)
        BY <1>3, <2>2, <2>4
      <3>4. g \in EventFrames /\ g.event = f.event /\ EventFits(g, Append(list, l))
        BY <3>1, <3>3, RegisterFits
      <3>5. QED
        BY <1>4, <1>6, <2>4, <3>2, <3>4
    <2>5. QED
      BY <2>3, <2>4
  <1>8. ASSUME NEW o \in Events, NEW n \in DOMAIN myEvents'[o]
        PROVE  IsCallable(myEvents'[o][n])
    <2>1. CASE o # e
      BY <1>2, <1>6, <2>1 DEF ListenersCallable
    <2>2. CASE o = e
      <3>1. n \in DOMAIN longer /\ myEvents'[o][n] = longer[n]
        BY <1>6, <2>2
      <3>2. n \in DOMAIN list \/ n = Len(list) + 1
        BY <1>5, <3>1
      <3>3. n \in DOMAIN list => IsCallable(list[n])
        BY <1>2, <1>3 DEF ListenersCallable
      <3>4. n \in DOMAIN list => longer[n] = list[n]
        BY <1>5
      <3>5. QED
        BY <1>5, <3>1, <3>2, <3>3, <3>4
    <2>3. QED
      BY <2>1, <2>2
  <1>9. /\ calls' = [n \in DOMAIN calls |-> calls'[n]]
        /\ \A n \in DOMAIN calls : calls[n].kind # "event" => calls'[n] = calls[n]
    BY <1>1
  <1>10. QED
    BY <1>1, <1>6, <1>7, <1>8, <1>9, ListenersChange

LEMMA UnregisterKeeps ==
    ASSUME IInv, UNCHANGED wiring, NEW e \in Events, NEW l, UnregisterEventListener(e, l)
    PROVE  IInv'
  <1>1. myEvents \in [Events -> Seq(Listeners)] /\ ListenersCallable
    BY DEF IInv, Types, VmsInv
  <1>2. PICK list \in Seq(Listeners) : list = myEvents[e]
    BY <1>1
  <1>3. PICK k \in DOMAIN list :
            myEvents' = [myEvents EXCEPT ![e] = Front([list EXCEPT ![k] = Last(list)])]
    BY <1>2 DEF UnregisterEventListener
  <1>4. /\ calls' = [n \in DOMAIN calls |->
                        IF calls[n].kind # "event" THEN calls[n]
                        ELSE [calls[n] EXCEPT !.shrunk = @ \/ calls[n].event = e]]
        /\ UNCHANGED <<files, running, crashed>>
    BY DEF UnregisterEventListener
  <1>5. k \in 1 .. Len(list) /\ DOMAIN list = 1 .. Len(list) /\ Len(list) \in Nat
    BY <1>3, LenProperties
  <1>6. PICK shorter : shorter = Front([list EXCEPT ![k] = Last(list)])
    OBVIOUS
  <1>7. /\ shorter \in Seq(Listeners)
        /\ \A n \in DOMAIN shorter : \E m \in DOMAIN list : shorter[n] = list[m]
    <2> DEFINE changed == [list EXCEPT ![k] = Last(list)]
    <2>1. list # <<>>
      BY <1>5, EmptySeq
    <2>2. Last(list) = list[Len(list)] /\ Last(list) \in Listeners /\ Len(list) \in Nat \ {0}
      BY <2>1, FrontFacts
    <2>3. /\ changed \in Seq(Listeners) /\ Len(changed) = Len(list)
          /\ \A m \in 1 .. Len(list) : changed[m] = IF m = k THEN Last(list) ELSE list[m]
      BY <1>5, <2>2, ReplaceFacts
    <2> HIDE DEF changed
    <2>4. changed # <<>>
      BY <2>2, <2>3, EmptySeq
    <2>5. /\ Front(changed) \in Seq(Listeners) /\ Len(Front(changed)) = Len(list) - 1
          /\ \A m \in 1 .. Len(list) - 1 : Front(changed)[m] = changed[m]
      BY <2>3, <2>4, FrontFacts
    <2>6. shorter = Front(changed)
      BY <1>6 DEF changed
    <2>7. DOMAIN shorter = 1 .. Len(list) - 1
      BY <2>5, <2>6, LenProperties
    <2>8. ASSUME NEW n \in DOMAIN shorter
          PROVE  \E m \in DOMAIN list : shorter[n] = list[m]
      <3>1. n \in 1 .. Len(list) - 1 /\ n \in 1 .. Len(list) /\ Len(list) \in 1 .. Len(list)
        BY <2>2, <2>7
      <3>2. shorter[n] = IF n = k THEN list[Len(list)] ELSE list[n]
        BY <2>2, <2>3, <2>5, <2>6, <3>1
      <3>3. QED
        BY <1>5, <3>1, <3>2
    <2>9. QED
      BY <2>5, <2>6, <2>8
  <1>8. /\ myEvents' \in [Events -> Seq(Listeners)] /\ myEvents'[e] = shorter
        /\ \A o \in Events : o # e => myEvents'[o] = myEvents[o]
    BY <1>1, <1>3, <1>6, <1>7
  <1>9. ASSUME NEW n \in DOMAIN calls, calls[n].kind = "event"
        PROVE  calls'[n] \in EventFrames /\ EventFits(calls'[n], myEvents'[calls'[n].event])
    <2>1. PICK f \in EventFrames : f = calls[n]
      BY <1>9, EventFacts
    <2>2. f.event \in Events /\ EventFits(f, myEvents[f.event])
      BY <1>9, <2>1, EventFacts
    <2>3. calls'[n] = [f EXCEPT !.shrunk = @ \/ f.event = e]
      BY <1>4, <1>9, <2>1
    <2>4. CASE f.event # e
      <3>1. f.shrunk \in BOOLEAN
        BY EventFields
      <3>2. calls'[n] = f
        BY <2>3, <2>4, <3>1 DEF EventFrames
      <3>3. QED
        BY <1>8, <2>2, <2>4, <3>2
    <2>5. CASE f.event = e
      <3>1. PICK g : g = [f EXCEPT !.shrunk = TRUE]
        OBVIOUS
      <3>2. calls'[n] = g
        BY <2>3, <2>5, <3>1 DEF EventFrames
      <3>3. EventFits(f, list)
        BY <1>2, <2>2, <2>5
      <3>4. g \in EventFrames /\ g.event = f.event /\ EventFits(g, shorter)
        BY <1>5, <1>6, <3>1, <3>3, UnregisterFits
      <3>5. QED
        BY <1>8, <2>5, <3>2, <3>4
    <2>6. QED
      BY <2>4, <2>5
  <1>10. ASSUME NEW o \in Events, NEW n \in DOMAIN myEvents'[o]
         PROVE  IsCallable(myEvents'[o][n])
    <2>1. CASE o # e
      BY <1>1, <1>8, <2>1 DEF ListenersCallable
    <2>2. CASE o = e
      <3>1. PICK m \in DOMAIN list : myEvents'[o][n] = list[m]
        BY <1>7, <1>8, <2>2
      <3>2. QED
        BY <1>1, <1>2, <3>1 DEF ListenersCallable
    <2>3. QED
      BY <2>1, <2>2
  <1>11. /\ calls' = [n \in DOMAIN calls |-> calls'[n]]
         /\ \A n \in DOMAIN calls : calls[n].kind # "event" => calls'[n] = calls[n]
    BY <1>4
  <1>12. QED
    BY <1>4, <1>8, <1>9, <1>10, <1>11, ListenersChange

LEMMA ByNameKeeps ==
    ASSUME IInv, UNCHANGED wiring, NEW e \in Events, NEW s \in Scripts, ByName(e, s)
    PROVE  IInv'
  <1>1. PICK l : l = [script |-> s, node |-> NoNode]
    OBVIOUS
  <1>2. l \in Listeners /\ l.script = s /\ l.node = NoNode
    BY <1>1 DEF Listeners
  <1>3. IsCallable(l)
    BY <1>2 DEF ByName, IsCallable
  <1>4. RegisterEventListener(e, l) \/ UnregisterEventListener(e, l)
    BY <1>1 DEF ByName
  <1>5. QED
    BY <1>2, <1>3, <1>4, RegisterKeeps, UnregisterKeeps

LEMMA NodeListenerKeeps ==
    ASSUME IInv, UNCHANGED wiring, NEW e \in Events, NodeListener(e)
    PROVE  IInv'
  <1>1. myRunningScriptStack \in Seq(Scripts) /\ myRunningScriptStack # <<>>
    BY DEF NodeListener, IInv, AllGood, Good, StackTypes
  <1>2. PICK s \in Scripts : s = LookedUpIn
    BY <1>1, FrontFacts DEF LookedUpIn
  <1>3. /\ myStackedRunningInstances[s] \in Seq(Nodes) /\ myStackedRunningInstances[s] # <<>>
        /\ Lists(myStackedRunningInstances[s], NodesIn(calls, s)) /\ calls \in Seq(Frames)
    BY <1>2 DEF NodeListener, IInv, AllGood, Good, StackTypes, StacksFit
  <1>4. PICK n \in Nodes : n = Instance
    BY <1>2, <1>3, FrontFacts DEF Instance
  <1>5. NodesOpened
    <2>1. Len(myStackedRunningInstances[s]) # 0
      BY <1>3, FrontFacts
    <2>2. Cardinality(DOMAIN NodesIn(calls, s)) # 0
      BY <1>3, <2>1 DEF Lists
    <2>3. PICK m : m \in DOMAIN NodesIn(calls, s)
      BY <2>2, FS_EmptySet
    <2>4. m \in 1 .. Len(calls) /\ calls[m].kind = "node"
      <3>1. DOMAIN NodesIn(calls, s) = {k \in 1 .. Len(calls) : IsRunOf(calls[k], s)}
        BY <1>3, NodePositions
      <3>2. QED
        BY <2>3, <3>1 DEF IsRunOf
    <2>5. NeedsNodes(calls)
      BY <1>3, <2>4, LenProperties DEF NeedsNodes
    <2>6. QED
      BY <2>5 DEF IInv, VmsInv
  <1>6. PICK l : l = [script |-> NodeScriptOf[n], node |-> n]
    OBVIOUS
  <1>7. l \in Listeners /\ IsCallable(l)
    BY <1>5, <1>6 DEF Listeners, IsCallable, NodesOpened
  <1>8. RegisterEventListener(e, l) \/ UnregisterEventListener(e, l)
    BY <1>4, <1>6 DEF NodeListener
  <1>9. QED
    BY <1>7, <1>8, RegisterKeeps, UnregisterKeeps

LEMMA CallEventKeeps ==
    ASSUME IInv, UNCHANGED wiring, NEW e \in Events, CallEvent(e)
    PROVE  IInv'
  <1>1. PICK f : f = EventLoop(e)
    OBVIOUS
  <1>2. /\ calls' = Append(calls, f) /\ UNCHANGED <<files, running, myEvents, crashed>>
        /\ myEvents \in [Events -> Seq(Listeners)]
    BY <1>1 DEF CallEvent, IInv, Types
  <1>3. f \in EventFrames /\ EventFits(f, myEvents[e]) /\ f.event = e
    BY <1>1, <1>2, NewFits DEF EventLoop
  <1>4. f \in Frames /\ f.kind = "event" /\ ~IsExecuted(f) /\ FitsIn(f, myEvents)
    BY <1>3, EventFields DEF IsExecuted, FitsIn
  <1>5. Good(Append(calls, f), myRunningScriptStack, myStackedRunningInstances,
             myCurrentRunningInstance, nested, myEvents)
    BY <1>4, GoodPushOther DEF IInv, AllGood
  <1>6. AllGood'
    BY <1>2, <1>5 DEF AllGood, running
  <1>7. NeedsNodes(calls') => NodesOpened
    BY <1>2, <1>4, RunsPush DEF IInv, VmsInv, AllGood, Good
  <1>8. QED
    BY <1>2, <1>6, <1>7, NothingExecuted DEF running

LEMMA CallListenerKeeps ==
    ASSUME IInv, UNCHANGED wiring, CallListener
    PROVE  IInv'
  <1>1. calls # <<>> /\ Top.kind = "event" /\ UNCHANGED <<files, myEvents>>
    BY DEF CallListener, TopIs, Idle
  <1>2. /\ calls \in Seq(Frames) /\ Top = Last(calls) /\ Top \in Frames
        /\ Len(calls) \in DOMAIN calls /\ calls[Len(calls)] = Top
    BY <1>1, TopFacts
  <1>3. PICK f \in EventFrames : f = Top
    BY <1>1, <1>2, FrameFacts
  <1>4. /\ f.event \in Events /\ EventFits(f, myEvents[f.event])
        /\ myEvents[f.event] \in Seq(Listeners)
    BY <1>1, <1>2, <1>3, EventFacts
  <1>5. PICK list \in Seq(Listeners) : list = myEvents[f.event]
    BY <1>4
  <1>6. f.index \in Nat \ {0} /\ Len(list) \in Nat /\ DOMAIN list = 1 .. Len(list)
    BY EventFields, LenProperties
  <1>7. NeedsNodes(calls) => NodesOpened
    BY DEF IInv, VmsInv
  <1> DEFINE GoodNow(frames) == Good(frames, myRunningScriptStack, myStackedRunningInstances,
                                     myCurrentRunningInstance, nested, myEvents)
  <1>8. GoodNow(calls)
    BY DEF IInv, AllGood
  <1>9. CASE f.index > Len(list)
    <2>1. calls' = Front(calls) /\ UNCHANGED <<running, crashed>>
      BY <1>3, <1>5, <1>9 DEF CallListener
    <2>2. GoodNow(Front(calls))
      BY <1>1, <1>2, <1>8, GoodPopOther
    <2>3. AllGood'
      BY <1>1, <2>1, <2>2 DEF AllGood, running
    <2>4. NeedsNodes(calls') => NodesOpened
      BY <1>1, <1>2, <1>7, <2>1, RunsPop
    <2>5. QED
      BY <1>1, <2>1, <2>3, <2>4, NothingExecuted DEF running
  <1>10. CASE ~(f.index > Len(list))
    <2>1. f.index <= Len(list) /\ f.index \in DOMAIN list
      BY <1>6, <1>10
    <2>2. PICK l \in Listeners : l = list[f.index]
      BY <1>6, <2>1, ElementOfSeq
    <2>3. PICK g : g = [f EXCEPT !.index = @ + 1, !.told = Append(@, list[f.index])]
      OBVIOUS
    <2>4. g \in EventFrames /\ g.event = f.event /\ EventFits(g, list)
      BY <1>4, <1>5, <2>1, <2>3, TellFits
    <2>5. g \in Frames /\ g.kind = "event" /\ FitsIn(g, myEvents)
      BY <1>5, <2>4, EventFields DEF FitsIn
    <2>6. Alike(Last(calls), g) /\ SameRun(Last(calls), g)
      BY <1>1, <1>2, <2>5 DEF Alike, SameRun
    <2>7. PICK below : below = [calls EXCEPT ![Len(calls)] = g]
      OBVIOUS
    <2>8. GoodNow(below) /\ (NeedsNodes(below) => NodesOpened)
      BY <1>1, <1>7, <1>8, <2>5, <2>6, <2>7, GoodReplace
    <2>9. IsCallable(l)
      BY <1>4, <1>5, <2>1, <2>2 DEF IInv, VmsInv, ListenersCallable
    <2>10. Replace([Top EXCEPT !.index = @ + 1, !.told = Append(@, l)]) = below
      BY <1>3, <2>2, <2>3, <2>7 DEF Replace
    <2>11. CASE l.node = NoNode
      <3>1. /\ Execute(l.script, below)
            /\ UNCHANGED <<myStackedRunningInstances, myCurrentRunningInstance, nested>>
        BY <1>3, <1>5, <1>10, <2>2, <2>10, <2>11 DEF CallListener
      <3>2. l.script \in Scripts /\ WasOpened(l.script)
        BY <2>9, ListenerFacts DEF IsCallable
      <3>3. QED
        BY <1>1, <2>8, <3>1, <3>2, ExecuteKeeps
    <2>12. CASE l.node # NoNode
      <3>1. RunNode(l.node, below)
        BY <1>3, <1>5, <1>10, <2>2, <2>10, <2>12 DEF CallListener
      <3>2. l.node \in Nodes /\ NodesOpened
        BY <2>9, <2>12, ListenerFacts DEF IsCallable
      <3>3. QED
        BY <1>1, <2>8, <3>1, <3>2, RunNodeKeeps
    <2>13. QED
      BY <2>11, <2>12
  <1>11. QED
    BY <1>9, <1>10

-----------------------------------------------------------------------------
(* The theorems.                                                           *)

LEMMA StepKeeps ==
    ASSUME IInv, UNCHANGED wiring, Step
    PROVE  IInv'
  <1>1. CASE \E s \in Scripts : \/ RegisterFunction(s) \/ OpenFile(s) \/ CloseFile(s)
                                \/ CallFunction(s)
    BY <1>1, RegisterFunctionKeeps, OpenFileKeeps, CloseFileKeeps, CallFunctionKeeps
  <1>2. CASE \E failed \in BOOLEAN : Opened(failed)
    BY <1>2, OpenedKeeps
  <1>3. CASE CallFunctionInAll \/ CallNextScript \/ Return
    BY <1>3, CallFunctionInAllKeeps, CallNextScriptKeeps, ReturnKeeps
  <1>4. CASE \E n \in Nodes : Run(n)
    BY <1>4, RunKeeps
  <1>5. CASE GetInput \/ CallConnected \/ EndRun
    BY <1>5, GetInputKeeps, CallConnectedKeeps, EndRunKeeps
  <1>6. CASE \E e \in Events : \/ CallEvent(e) \/ NodeListener(e)
                               \/ \E s \in Scripts : ByName(e, s)
    BY <1>6, CallEventKeeps, NodeListenerKeeps, ByNameKeeps
  <1>7. CASE CallListener
    BY <1>7, CallListenerKeeps
  <1>8. CASE Stopped
    <2>1. UNCHANGED vars
      BY <1>8 DEF Stopped
    <2>2. QED
      BY <2>1 DEF vars, files, running, IInv, Types, AllGood, VmsInv, ListenersCallable,
                  NodesOpened, WasOpened, IsCallable, CrashOnlyAfterLoss
  <1>9. QED
    BY <1>1, <1>2, <1>3, <1>4, <1>5, <1>6, <1>7, <1>8 DEF Step

LEMMA InvHolds == Spec => []IInv
  <1>1. Init => IInv
    BY InitIsGood
  <1>2. IInv /\ [Next]_vars => IInv'
    <2> SUFFICES ASSUME IInv, [Next]_vars
                 PROVE  IInv'
      OBVIOUS
    <2>1. CASE Next
      BY <2>1, StepKeeps DEF Next
    <2>2. CASE UNCHANGED vars
      BY <2>2 DEF vars, files, running, IInv, Types, AllGood, VmsInv, ListenersCallable,
                  NodesOpened, WasOpened, IsCallable, CrashOnlyAfterLoss
    <2>3. QED
      BY <2>1, <2>2
  <1>3. QED
    BY <1>1, <1>2, PTL DEF Spec

\* The stacks and lists keep their types, and on the stack of a node script are
\* only nodes of that script (NodeScript.cpp:33-77, ScriptManager.cpp:275-294).
THEOREM TypeCorrect == Spec => []TypeOK
  <1>1. IInv => TypeOK
    <2> SUFFICES ASSUME IInv PROVE TypeOK
      OBVIOUS
    <2>1. Types /\ StackTypes(myRunningScriptStack, myStackedRunningInstances)
      BY DEF IInv, AllGood, Good
    <2>2. ASSUME NEW e \in Events, NEW n \in DOMAIN myEvents[e]
          PROVE  myEvents[e][n] \in Listeners
      BY <2>1, <2>2, ElementOfSeq, LenProperties DEF Types
    <2>3. ASSUME NEW s \in Scripts, NEW n \in DOMAIN myStackedRunningInstances[s]
          PROVE  NodeScriptOf[myStackedRunningInstances[s][n]] = s
      <3>1. myStackedRunningInstances[s] \in Seq(NodesOf(s))
        BY <2>1 DEF StackTypes
      <3>2. myStackedRunningInstances[s][n] \in NodesOf(s)
        BY <3>1, <2>3, ElementOfSeq, LenProperties
      <3>3. QED
        BY <3>2 DEF NodesOf
    <2>4. QED
      BY <2>1, <2>2, <2>3 DEF TypeOK, Types, StackTypes
  <1>2. QED
    BY InvHolds, <1>1, PTL

\* However calls, events and nodes run inside one another: myRunningScriptStack
\* names the scripts whose code runs, and the stack of each node script its
\* running nodes, in order and without leftovers (ScriptManager.cpp:275-294,
\* 629-635; NodeScript.cpp:33-56, 62-77).
THEOREM StacksAreRight == Spec => []StacksMatchCalls
  <1>1. IInv => StacksMatchCalls
    BY DEF IInv, AllGood, Good, StacksFit, StacksMatchCalls
  <1>2. QED
    BY InvHolds, <1>1, PTL

\* The stacks, the current node, and the use of VMs: the current node is the one
\* whose function runs unless nodes ran inside one another, and a VM that is not
\* there is used only after a file was lost (ScriptManager.cpp:275-294, 572;
\* NodeScript.cpp:33-77).
THEOREM ScriptsAreSound == Spec => []ScriptManagerInv
  <1>1. IInv => CurrentInstanceIsKnown
    BY DEF IInv, AllGood, Good, CurrentOf, Unreturned, CurrentInstanceIsKnown
  <1>2. IInv => CrashOnlyAfterLoss
    BY DEF IInv, VmsInv
  <1>3. TypeOK /\ StacksMatchCalls /\ CurrentInstanceIsKnown /\ CrashOnlyAfterLoss
            => ScriptManagerInv
    BY DEF ScriptManagerInv
  <1>4. QED
    BY InvHolds, TypeCorrect, StacksAreRight, <1>1, <1>2, <1>3, PTL

\* An event calls its listeners in their order as long as none is removed, and
\* none more often than it was registered (ScriptManager.cpp:436, 691-702).
THEOREM EventsCallInOrder == Spec => []ListenersInOrder
  <1>1. IInv => ListenersInOrder
    <2> SUFFICES ASSUME IInv, NEW f \in ToSet(calls), f.kind = "event"
                 PROVE  /\ ~f.shrunk => f.told = SubSeq(myEvents[f.event], 1, f.index - 1)
                        /\ \A l \in Listeners : Occurrences(f.told, l) <= f.allowed[l]
      BY DEF ListenersInOrder
    <2>1. PICK n \in DOMAIN calls : f = calls[n]
      BY DEF ToSet
    <2>2. PICK list \in Seq(Listeners) : list = myEvents[f.event]
      BY <2>1, EventFacts
    <2>3. f \in EventFrames /\ EventFits(f, list)
      BY <2>1, <2>2, EventFacts
    <2>4. f.index \in Nat \ {0} /\ f.told \in Seq(Listeners) /\ f.allowed \in [Listeners -> Nat]
      BY <2>3, EventFields
    <2>5. ASSUME NEW l \in Listeners PROVE Occurrences(f.told, l) <= f.allowed[l]
      <3>1. Cardinality(Called(f.told, l)) + Cardinality(Left(list, f.index, l)) <= f.allowed[l]
        BY <2>3 DEF EventFits
      <3>2. /\ Cardinality(Called(f.told, l)) \in Nat
            /\ Cardinality(Left(list, f.index, l)) \in Nat /\ f.allowed[l] \in Nat
        BY <2>4, CountsAreNat
      <3>3. Occurrences(f.told, l) = Cardinality(Called(f.told, l))
        BY DEF Occurrences, Called
      <3>4. QED
        BY <3>1, <3>2, <3>3
    <2>6. QED
      BY <2>2, <2>3, <2>5 DEF EventFits
  <1>2. QED
    BY InvHolds, <1>1, PTL

-----------------------------------------------------------------------------
(***************************************************************************)
(* The graph of a visual script                                            *)
(***************************************************************************)

Seen == ToSet(instanceList)
PlacesOf(list, m) == {i \in DOMAIN list : list[i] = m}

\* Connections that have been made: both nodes are there, and no end of it waits.
Settled == {l \in Possible : \A e \in unread : e.link # l}
LinksOf(n, p, m) == {l \in Settled : l.from = n /\ l.out = p /\ l.to = m}

GraphTypes ==
    /\ file \in Files /\ aNodeInstanceMaxCount \in Nat
    /\ nextNode \in 1 .. Len(file.nodes) + 1
    /\ instanceList \in Seq(Nat) /\ Len(instanceList) <= aNodeInstanceMaxCount
    /\ DOMAIN myConnectionsIn = AllNodes /\ DOMAIN callLists = AllNodes
    /\ \A n \in AllNodes : /\ DOMAIN myConnectionsIn[n] = 0 .. Inputs(n) - 1
                           /\ DOMAIN callLists[n] = 0 .. Outputs(n) - 1
    /\ \A n \in AllNodes : \A p \in 0 .. Outputs(n) - 1 : callLists[n][p] \in Seq(AllNodes)

\* The nodes made so far were read; connections are read with the last of them.
NodesFit ==
    /\ Seen \subseteq 1 .. nextNode - 1
    /\ unread # {} => nextNode - 1 \in Seen /\ unread \subseteq Ends(nextNode - 1)
StartFits ==
    /\ startNode \in Seen \cup {Nothing}
    /\ startNode # Nothing => Kind(startNode) = StartKind
    /\ \A n \in Seen : file.ralmark /\ Kind(n) = StartKind => startNode = n
CallsFitLinks ==
    \A n \in AllNodes : \A p \in 0 .. Outputs(n) - 1 : PinsOut[Kind(n)][p + 1] = "Call" =>
        \A m \in AllNodes \ {n} :
            Cardinality(PlacesOf(callLists[n][p], m)) = Cardinality(LinksOf(n, p, m))

\* What an input that takes data remembers of its connection.
Reads(l, c) ==
    /\ c # Nothing /\ c.node = l.from
    /\ (l.from > l.to \/ FilePin(l.from, l.out) = l.out) => c.pin = l.out
IsData(l) == PinsOut[Kind(l.from)][l.out + 1] \in DataTypes
InputsFitLinks == \A l \in Settled : IsData(l) => Reads(l, myConnectionsIn[l.to][l.in])

\* The inductive invariant.
GraphIInv ==
    GraphTypes /\ NodesFit /\ StartFits /\ CallsFitLinks /\ InputsFitLinks /\ scope = TRUE

LEMMA FileFacts ==
    ASSUME file \in Files
    PROVE  /\ file.nodes \in Seq(Kinds) /\ AllNodes = 1 .. Len(file.nodes)
           /\ Len(file.nodes) \in Nat /\ file.ralmark \in BOOLEAN
           /\ file.links \subseteq Links /\ IsFiniteSet(file.links)
           /\ \A n \in AllNodes : /\ Kind(n) \in Kinds
                                  /\ Inputs(n) \in Nat /\ Outputs(n) \in Nat
           /\ file.ralmark => \A m, n \in AllNodes :
                  Kind(m) = StartKind /\ Kind(n) = StartKind => m = n
  <1>1. /\ file.nodes \in Seq(Kinds) /\ file.ralmark \in BOOLEAN
        /\ file.links \subseteq Links /\ IsFiniteSet(file.links)
        /\ file.ralmark => \A m, n \in DOMAIN file.nodes :
               file.nodes[m] = StartKind /\ file.nodes[n] = StartKind => m = n
    BY FilesAssumption
  <1>2. AllNodes = 1 .. Len(file.nodes) /\ Len(file.nodes) \in Nat
    BY <1>1 DEF AllNodes
  <1>3. ASSUME NEW n \in AllNodes
        PROVE  Kind(n) \in Kinds /\ Inputs(n) \in Nat /\ Outputs(n) \in Nat
    <2>1. Kind(n) \in Kinds
      BY <1>1, <1>2, <1>3 DEF Kind
    <2>2. PinsIn[Kind(n)] \in Seq(PinTypes) /\ PinsOut[Kind(n)] \in Seq(PinTypes)
      BY <2>1, PinsAssumption
    <2>3. QED
      BY <2>1, <2>2, LenProperties DEF Inputs, Outputs
  <1>4. QED
    BY <1>1, <1>2, <1>3 DEF AllNodes, Kind

LEMMA LinkFacts ==
    ASSUME file \in Files, NEW l \in file.links
    PROVE  /\ l \in Links /\ l.from \in AllNodes /\ l.to \in AllNodes
           /\ l.out \in 0 .. Outputs(l.from) - 1 /\ l.in \in 0 .. Inputs(l.to) - 1
           /\ IsData(l) => \A k \in file.links : k.to = l.to /\ k.in = l.in => k = l
  <1>1. /\ {l.from, l.to} \subseteq DOMAIN file.nodes
        /\ l.out < Len(PinsOut[file.nodes[l.from]]) /\ l.in < Len(PinsIn[file.nodes[l.to]])
        /\ PinsOut[file.nodes[l.from]][l.out + 1] \in DataTypes =>
               \A k \in file.links : k.to = l.to /\ k.in = l.in => k = l
    BY FilesAssumption
  <1>2. l \in Links /\ l.from \in AllNodes /\ l.to \in AllNodes
    BY <1>1, FileFacts DEF AllNodes
  <1>3. l.out \in Nat /\ l.in \in Nat
    BY <1>2 DEF Links
  <1>4. Outputs(l.from) \in Nat /\ Inputs(l.to) \in Nat
    BY <1>2, FileFacts
  <1>5. l.out < Outputs(l.from) /\ l.in < Inputs(l.to)
    BY <1>1 DEF Outputs, Inputs, Kind
  <1>6. l.out \in 0 .. Outputs(l.from) - 1 /\ l.in \in 0 .. Inputs(l.to) - 1
    BY <1>3, <1>4, <1>5
  <1>7. QED
    BY <1>1, <1>2, <1>6 DEF IsData, Kind

LEMMA SeenAppend ==
    ASSUME instanceList \in Seq(Nat), NEW n \in Nat
    PROVE  ToSet(Append(instanceList, n)) = Seen \cup {n}
  <1>1. /\ Append(instanceList, n) \in Seq(Nat)
        /\ Len(Append(instanceList, n)) = Len(instanceList) + 1
        /\ \A i \in 1 .. Len(instanceList) : Append(instanceList, n)[i] = instanceList[i]
        /\ Append(instanceList, n)[Len(instanceList) + 1] = n
    BY AppendProperties
  <1>2. PICK s : s = Append(instanceList, n)
    OBVIOUS
  <1>3. DOMAIN s = 1 .. Len(instanceList) + 1 /\ DOMAIN instanceList = 1 .. Len(instanceList)
    BY <1>1, <1>2
  <1>4. Len(instanceList) \in Nat
    BY LenProperties
  <1>5. 1 .. Len(instanceList) + 1 = (1 .. Len(instanceList)) \cup {Len(instanceList) + 1}
    BY <1>4
  <1>6. QED
    BY <1>1, <1>2, <1>3, <1>5 DEF Seen, ToSet

\* One more entry in a call list.
LEMMA PlacesAppend ==
    ASSUME NEW S, NEW list \in Seq(S), NEW x \in S, NEW m
    PROVE  /\ IsFiniteSet(PlacesOf(list, m))
           /\ x # m => Cardinality(PlacesOf(Append(list, x), m)) = Cardinality(PlacesOf(list, m))
           /\ x = m => Cardinality(PlacesOf(Append(list, x), m))
                         = Cardinality(PlacesOf(list, m)) + 1
  <1>1. PICK s : s = Append(list, x)
    OBVIOUS
  <1>2. /\ DOMAIN list = 1 .. Len(list) /\ Len(list) \in Nat
        /\ DOMAIN s = 1 .. Len(list) + 1 /\ s[Len(list) + 1] = x
        /\ \A i \in 1 .. Len(list) : s[i] = list[i]
    BY <1>1, AppendProperties, LenProperties
  <1>3. 1 .. Len(list) + 1 = (1 .. Len(list)) \cup {Len(list) + 1} /\ Len(list) + 1 \notin 1 .. Len(list)
    BY <1>2
  <1>4. IsFiniteSet(PlacesOf(list, m))
    <2>1. PlacesOf(list, m) \subseteq 1 .. Len(list) /\ IsFiniteSet(1 .. Len(list))
      BY <1>2, FS_Interval DEF PlacesOf
    <2>2. QED
      BY <2>1, FS_Subset
  <1>5. CASE x # m
    <2>1. PlacesOf(s, m) = PlacesOf(list, m)
      BY <1>2, <1>3, <1>5 DEF PlacesOf
    <2>2. QED
      BY <1>1, <1>4, <1>5, <2>1
  <1>6. CASE x = m
    <2>1. PlacesOf(s, m) = PlacesOf(list, m) \cup {Len(list) + 1}
      BY <1>2, <1>3, <1>6 DEF PlacesOf
    <2>2. Len(list) + 1 \notin PlacesOf(list, m)
      BY <1>2, <1>3 DEF PlacesOf
    <2>3. QED
      BY <1>1, <1>4, <1>6, <2>1, <2>2, FS_AddElement
  <1>7. QED
    BY <1>5, <1>6

\* The pin the code computes is the one the connection names.
LEMMA PinIsRight ==
    ASSUME GraphTypes, NodesFit, StartFits, NEW l \in Possible
    PROVE  /\ CodePin(l.from, FilePin(l.from, l.out)) = l.out
           /\ InScope(l.from, l.out) /\ At(l.from, l.out) = l.out
           /\ OutPin(l.from, l.out) = PinsOut[Kind(l.from)][l.out + 1]
  <1>1. l \in file.links /\ l.from \in Seen
    BY DEF Possible, Seen
  <1>2. l.from \in AllNodes /\ l.out \in 0 .. Outputs(l.from) - 1
    BY <1>1, LinkFacts DEF GraphTypes
  <1>3. Inputs(l.from) \in Nat /\ Outputs(l.from) \in Nat
    BY <1>2, FileFacts DEF GraphTypes
  <1>4. InScope(l.from, l.out)
    BY <1>2 DEF InScope
  <1>5. CASE file.ralmark /\ Kind(l.from) = StartKind
    <2>1. startNode = l.from /\ startNode # Nothing
      BY <1>1, <1>2, <1>5, FileFacts, PinsAssumption DEF StartFits, GraphTypes
    <2>2. QED
      BY <1>4, <1>5, <2>1 DEF CodePin, FilePin, Separate, At, OutPin
  <1>6. CASE ~(file.ralmark /\ Kind(l.from) = StartKind)
    <2>1. Separate(l.from)
      BY <1>6 DEF StartFits, Separate
    <2>2. CodePin(l.from, FilePin(l.from, l.out)) = (Inputs(l.from) + l.out) - Inputs(l.from)
      BY <1>6, <2>1 DEF CodePin, FilePin
    <2>3. (Inputs(l.from) + l.out) - Inputs(l.from) = l.out
      BY <1>2, <1>3
    <2>4. QED
      BY <1>4, <2>2, <2>3 DEF At, OutPin
  <1>7. QED
    BY <1>5, <1>6

\* An end belongs to a connection of its node.
LEMMA EndFacts ==
    ASSUME NEW n, NEW e \in Ends(n)
    PROVE  /\ e.link \in file.links /\ e.input \in BOOLEAN
           /\ e.input => e.link.to = n /\ e.other = e.link.from
           /\ ~e.input => e.link.from = n /\ e.other = e.link.to
           /\ e = [link |-> e.link, input |-> e.input, other |-> e.other]
  <1>1. CASE e \in {[link |-> l, input |-> TRUE, other |-> l.from] :
                       l \in {k \in file.links : k.to = n}}
    <2>1. PICK l \in {k \in file.links : k.to = n} :
                   e = [link |-> l, input |-> TRUE, other |-> l.from]
      BY <1>1
    <2>2. e.link = l /\ e.input = TRUE /\ e.other = l.from
      BY <2>1
    <2>3. QED
      BY <2>1, <2>2
  <1>2. CASE e \in {[link |-> l, input |-> FALSE, other |-> l.to] :
                       l \in {k \in file.links : k.from = n}}
    <2>1. PICK l \in {k \in file.links : k.from = n} :
                   e = [link |-> l, input |-> FALSE, other |-> l.to]
      BY <1>2
    <2>2. e.link = l /\ e.input = FALSE /\ e.other = l.to
      BY <2>1
    <2>3. QED
      BY <2>1, <2>2
  <1>3. QED
    BY <1>1, <1>2 DEF Ends

LEMMA LinksAreFinite ==
    ASSUME file \in Files, NEW n, NEW p, NEW m
    PROVE  IsFiniteSet(LinksOf(n, p, m))
  <1>1. LinksOf(n, p, m) \subseteq file.links
    BY DEF LinksOf, Settled, Possible
  <1>2. QED
    BY <1>1, FileFacts, FS_Subset

\* A connection that is not an end of node n keeps away from n.
LEMMA OtherLinks ==
    ASSUME NEW n, NEW l \in file.links, \A e \in Ends(n) : e.link # l
    PROVE  l.from # n /\ l.to # n
  <1>1. ASSUME l.to = n
        PROVE  FALSE
    <2>1. [link |-> l, input |-> TRUE, other |-> l.from] \in Ends(n)
      BY <1>1 DEF Ends
    <2>2. [link |-> l, input |-> TRUE, other |-> l.from].link = l
      OBVIOUS
    <2>3. QED
      BY <2>1, <2>2
  <1>2. ASSUME l.from = n
        PROVE  FALSE
    <2>1. [link |-> l, input |-> FALSE, other |-> l.to] \in Ends(n)
      BY <1>2 DEF Ends
    <2>2. [link |-> l, input |-> FALSE, other |-> l.to].link = l
      OBVIOUS
    <2>3. QED
      BY <2>1, <2>2
  <1>3. QED
    BY <1>1, <1>2

LEMMA GraphInitKeeps ==
    ASSUME GraphInit
    PROVE  GraphIInv
  <1>1. file \in Files /\ aNodeInstanceMaxCount \in Nat
    BY PinsAssumption DEF GraphInit
  <1>2. instanceList = <<>> /\ instanceList \in Seq(Nat) /\ Len(instanceList) = 0
    BY DEF GraphInit
  <1>3. Seen = {}
    BY <1>2 DEF Seen, ToSet
  <1>4. Settled = {}
    BY <1>3 DEF Settled, Possible, Seen
  <1>5. GraphTypes
    <2>1. nextNode \in 1 .. Len(file.nodes) + 1
      BY <1>1, FileFacts DEF GraphInit
    <2>2. /\ DOMAIN myConnectionsIn = AllNodes /\ DOMAIN callLists = AllNodes
          /\ \A n \in AllNodes : /\ DOMAIN myConnectionsIn[n] = 0 .. Inputs(n) - 1
                                 /\ DOMAIN callLists[n] = 0 .. Outputs(n) - 1
      BY DEF GraphInit
    <2>3. \A n \in AllNodes : \A p \in 0 .. Outputs(n) - 1 : callLists[n][p] \in Seq(AllNodes)
      BY DEF GraphInit
    <2>4. QED
      BY <1>1, <1>2, <2>1, <2>2, <2>3 DEF GraphTypes
  <1>6. NodesFit /\ StartFits
    BY <1>3 DEF GraphInit, NodesFit, StartFits
  <1>7. CallsFitLinks
    <2>1. ASSUME NEW n \in AllNodes, NEW p \in 0 .. Outputs(n) - 1, NEW m
          PROVE  PlacesOf(callLists[n][p], m) = LinksOf(n, p, m)
      <3>1. callLists[n][p] = <<>>
        BY DEF GraphInit
      <3>2. PlacesOf(callLists[n][p], m) = {}
        BY <3>1 DEF PlacesOf
      <3>3. LinksOf(n, p, m) = {}
        BY <1>4 DEF LinksOf
      <3>4. QED
        BY <3>2, <3>3
    <2>2. QED
      BY <2>1 DEF CallsFitLinks
  <1>8. InputsFitLinks
    BY <1>4 DEF InputsFitLinks
  <1>9. QED
    BY <1>5, <1>6, <1>7, <1>8 DEF GraphIInv, GraphInit

\* What a step that connects nothing leaves alone.
LEMMA SameConnections ==
    ASSUME CallsFitLinks, InputsFitLinks, file' = file, callLists' = callLists,
           myConnectionsIn' = myConnectionsIn, Settled' = Settled
    PROVE  CallsFitLinks' /\ InputsFitLinks'
  <1>1. /\ AllNodes' = AllNodes
        /\ \A n : Kind(n)' = Kind(n) /\ Outputs(n)' = Outputs(n) /\ Inputs(n)' = Inputs(n)
    BY DEF AllNodes, Kind, Outputs, Inputs
  <1>2. \A n, p, m : LinksOf(n, p, m)' = LinksOf(n, p, m)
    BY DEF LinksOf
  <1>3. CallsFitLinks'
    BY <1>1, <1>2 DEF CallsFitLinks
  <1>4. \A l : IsData(l)' = IsData(l) /\ FilePin(l.from, l.out)' = FilePin(l.from, l.out)
    BY <1>1 DEF IsData, FilePin
  <1>5. \A l : Reads(l, myConnectionsIn[l.to][l.in])' = Reads(l, myConnectionsIn[l.to][l.in])
    BY <1>4 DEF Reads
  <1>6. InputsFitLinks'
    BY <1>4, <1>5 DEF InputsFitLinks
  <1>7. QED
    BY <1>3, <1>6

\* The types of the arrays, when only the reading went on.
LEMMA SameArrays ==
    ASSUME GraphTypes, file' = file, aNodeInstanceMaxCount' = aNodeInstanceMaxCount,
           callLists' = callLists, myConnectionsIn' = myConnectionsIn,
           nextNode' \in 1 .. Len(file.nodes) + 1, instanceList' \in Seq(Nat),
           Len(instanceList') <= aNodeInstanceMaxCount
    PROVE  GraphTypes'
  <1>1. AllNodes' = AllNodes /\ \A n : Outputs(n)' = Outputs(n) /\ Inputs(n)' = Inputs(n)
    BY DEF AllNodes, Kind, Outputs, Inputs
  <1>2. QED
    BY <1>1 DEF GraphTypes

\* The next node is made.  Its connections wait to be read, so none of them is
\* settled; all others are as they were.
LEMMA CreateSettles ==
    ASSUME GraphIInv, CreateInstance
    PROVE  Settled' = Settled
  <1>1. PICK n : n = nextNode
    OBVIOUS
  <1>2. /\ file \in Files /\ n \in Nat /\ instanceList \in Seq(Nat) /\ unread = {}
        /\ n \in 1 .. Len(file.nodes) /\ Seen \subseteq 1 .. n - 1
    BY <1>1, FileFacts DEF CreateInstance, GraphIInv, GraphTypes, NodesFit
  <1>3. /\ unread' = Ends(n) /\ file' = file
        /\ startNode' = startNode \/ (startNode = Nothing /\ startNode' = n)
    BY <1>1 DEF CreateInstance
  <1>4. ToSet(instanceList') = Seen \cup {n}
    BY <1>1, <1>2, SeenAppend DEF CreateInstance
  <1>5. n \notin Seen
    BY <1>2
  <1>6. Settled = Possible
    BY <1>2 DEF Settled
  <1>7. ASSUME NEW l \in file.links, l.to # n
        PROVE  IntoStart(l)' = IntoStart(l)
    <2>1. l.to # Nothing
      BY <1>2, LinkFacts, PinsAssumption DEF Links
    <2>2. QED
      BY <1>3, <1>7, <2>1 DEF IntoStart
  <1>8. ASSUME NEW l \in Settled
        PROVE  l \in Settled'
    <2>1. l \in file.links /\ l.from \in Seen /\ l.to \in Seen /\ ~IntoStart(l)
      BY <1>6, <1>8 DEF Possible, Seen
    <2>2. l.from # n /\ l.to # n
      BY <1>5, <2>1
    <2>3. \A e \in Ends(n) : e.link # l
      BY <2>2, EndFacts
    <2>4. ~IntoStart(l)'
      BY <1>7, <2>1, <2>2
    <2>5. QED
      BY <1>3, <1>4, <2>1, <2>3, <2>4 DEF Settled, Possible
  <1>9. ASSUME NEW l \in Settled'
        PROVE  l \in Settled
    <2>1. /\ l \in file.links /\ l.from \in Seen \cup {n} /\ l.to \in Seen \cup {n}
          /\ ~IntoStart(l)' /\ \A e \in Ends(n) : e.link # l
      BY <1>3, <1>4, <1>9 DEF Settled, Possible
    <2>2. l.from # n /\ l.to # n
      BY <2>1, OtherLinks
    <2>3. ~IntoStart(l)
      BY <1>7, <2>1, <2>2
    <2>4. QED
      BY <1>6, <2>1, <2>2, <2>3 DEF Possible, Seen
  <1>10. QED
    BY <1>8, <1>9

LEMMA CreateKeeps ==
    ASSUME GraphIInv, CreateInstance
    PROVE  GraphIInv'
  <1>1. PICK n : n = nextNode
    OBVIOUS
  <1>2. /\ file \in Files /\ n \in Nat /\ instanceList \in Seq(Nat) /\ unread = {}
        /\ n \in 1 .. Len(file.nodes) /\ Seen \subseteq 1 .. n - 1
    BY <1>1, FileFacts DEF CreateInstance, GraphIInv, GraphTypes, NodesFit
  <1>3. /\ nextNode' = n + 1 /\ instanceList' = Append(instanceList, n)
        /\ Len(instanceList) < aNodeInstanceMaxCount /\ unread' = Ends(n)
        /\ startNode' = IF startNode = Nothing /\ Kind(n) = StartKind THEN n ELSE startNode
        /\ file' = file /\ aNodeInstanceMaxCount' = aNodeInstanceMaxCount
        /\ callLists' = callLists /\ myConnectionsIn' = myConnectionsIn /\ scope' = scope
    BY <1>1 DEF CreateInstance
  <1>4. ToSet(instanceList') = Seen \cup {n}
    BY <1>2, <1>3, SeenAppend
  <1>5. GraphTypes'
    <2>1. Len(file.nodes) \in Nat /\ aNodeInstanceMaxCount \in Nat
      BY <1>2, FileFacts DEF GraphIInv, GraphTypes
    <2>2. nextNode' \in 1 .. Len(file.nodes) + 1
      BY <1>2, <1>3, <2>1
    <2>3. instanceList' \in Seq(Nat) /\ Len(instanceList') = Len(instanceList) + 1
      BY <1>2, <1>3, AppendProperties
    <2>4. Len(instanceList) \in Nat
      BY <1>2, LenProperties
    <2>5. Len(instanceList') <= aNodeInstanceMaxCount
      BY <1>3, <2>1, <2>3, <2>4
    <2>6. QED
      BY <1>3, <2>2, <2>3, <2>5, SameArrays DEF GraphIInv
  <1>6. NodesFit'
    <2>1. Seen' = Seen \cup {n}
      BY <1>4 DEF Seen
    <2>2. nextNode' - 1 = n
      BY <1>2, <1>3
    <2>3. Ends(n)' = Ends(n)
      BY <1>3 DEF Ends
    <2>4. Seen' \subseteq 1 .. n
      BY <1>2, <2>1
    <2>5. \A k : k = nextNode' - 1 => Ends(k)' = Ends(n)
      BY <2>2, <2>3
    <2>6. Ends(nextNode - 1)' = Ends(n)
      BY <1>3, <2>2 DEF Ends
    <2>7. QED
      BY <1>3, <2>1, <2>2, <2>4, <2>6 DEF NodesFit
  <1>7. StartFits'
    <2>1. Seen' = Seen \cup {n} /\ \A m : Kind(m)' = Kind(m)
      BY <1>3, <1>4 DEF Seen, Kind
    <2>2. startNode' \in Seen' \cup {Nothing}
      BY <1>3, <2>1 DEF GraphIInv, StartFits
    <2>3. startNode' # Nothing => Kind(startNode') = StartKind
      BY <1>3 DEF GraphIInv, StartFits
    <2>4. (startNode' # Nothing => Kind(startNode') = StartKind)
             => (startNode # Nothing => Kind(startNode) = StartKind)'
      BY <1>3 DEF Kind
    <2>5. ASSUME NEW m \in Seen', file.ralmark, Kind(m) = StartKind
          PROVE  startNode' = m
      <3>1. n \in AllNodes /\ Seen \subseteq AllNodes
        BY <1>2, FileFacts
      <3>2. CASE m = n
        <4>1. startNode = Nothing
          <5>1. SUFFICES ASSUME startNode # Nothing
                         PROVE  FALSE
            OBVIOUS
          <5>2. startNode \in Seen /\ Kind(startNode) = StartKind
            BY <5>1 DEF GraphIInv, StartFits
          <5>3. startNode = n
            BY <1>2, <2>5, <3>1, <3>2, <5>2, FileFacts
          <5>4. QED
            BY <1>2, <5>2, <5>3
        <4>2. QED
          BY <1>3, <2>5, <3>2, <4>1
      <3>3. CASE m \in Seen
        <4>1. startNode = m
          BY <2>5, <3>3 DEF GraphIInv, StartFits
        <4>2. m # Nothing
          BY <1>2, <3>3, PinsAssumption
        <4>3. QED
          BY <1>3, <4>1, <4>2
      <3>4. QED
        BY <2>1, <2>5, <3>2, <3>3
    <2>6. QED
      BY <1>3, <2>1, <2>2, <2>3, <2>4, <2>5 DEF StartFits
  <1>8. CallsFitLinks' /\ InputsFitLinks'
    BY <1>3, CreateSettles, SameConnections DEF GraphIInv
  <1>9. QED
    BY <1>3, <1>5, <1>6, <1>7, <1>8 DEF GraphIInv

\* A node is left out.
LEMMA SkipKeeps ==
    ASSUME GraphIInv, SkipNode
    PROVE  GraphIInv'
  <1>1. /\ nextNode' = nextNode + 1 /\ nextNode <= Len(file.nodes) /\ unread = {}
        /\ file' = file /\ aNodeInstanceMaxCount' = aNodeInstanceMaxCount
        /\ unread' = unread /\ instanceList' = instanceList /\ startNode' = startNode
        /\ callLists' = callLists /\ myConnectionsIn' = myConnectionsIn /\ scope' = scope
    BY DEF SkipNode
  <1>2. /\ file \in Files /\ Len(file.nodes) \in Nat /\ nextNode \in 1 .. Len(file.nodes) + 1
        /\ instanceList \in Seq(Nat) /\ Len(instanceList) <= aNodeInstanceMaxCount
    BY FileFacts DEF GraphIInv, GraphTypes
  <1>3. GraphTypes'
    <2>1. nextNode' \in 1 .. Len(file.nodes) + 1
      BY <1>1, <1>2
    <2>2. QED
      BY <1>1, <1>2, <2>1, SameArrays DEF GraphIInv
  <1>4. Seen' = Seen /\ \A n : Kind(n)' = Kind(n)
    BY <1>1 DEF Seen, Kind
  <1>5. NodesFit'
    <2>1. Seen \subseteq 1 .. nextNode - 1
      BY DEF GraphIInv, NodesFit
    <2>2. 1 .. nextNode - 1 \subseteq 1 .. nextNode' - 1
      BY <1>1, <1>2
    <2>3. QED
      BY <1>1, <1>4, <2>1, <2>2 DEF NodesFit
  <1>6. StartFits'
    <2>1. StartFits
      BY DEF GraphIInv
    <2>2. Kind(startNode)' = Kind(startNode)
      BY <1>1 DEF Kind
    <2>3. QED
      BY <1>1, <1>4, <2>1, <2>2 DEF StartFits
  <1>7. Settled' = Settled
    BY <1>1 DEF Settled, Possible, IntoStart
  <1>8. QED
    BY <1>1, <1>3, <1>5, <1>6, <1>7, SameConnections DEF GraphIInv

\* An end that cannot be connected belongs to no connection that can be there.
LEMMA ReadSkips ==
    ASSUME GraphIInv, NEW e \in unread, ReadConnection(e), ~CanConnect(e)
    PROVE  GraphIInv'
  <1>1. /\ unread' = unread \ {e} /\ file' = file
        /\ aNodeInstanceMaxCount' = aNodeInstanceMaxCount /\ nextNode' = nextNode
        /\ instanceList' = instanceList /\ startNode' = startNode
        /\ callLists' = callLists /\ myConnectionsIn' = myConnectionsIn /\ scope' = scope
    BY DEF ReadConnection
  <1>2. e \in Ends(nextNode - 1)
    BY DEF GraphIInv, NodesFit
  <1>3. e.link \notin Possible
    BY <1>2, EndFacts DEF CanConnect, Possible
  <1>4. Possible' = Possible
    BY <1>1 DEF Possible, IntoStart
  <1>5. Settled' = Settled
    BY <1>1, <1>3, <1>4 DEF Settled
  <1>6. GraphTypes'
    BY <1>1, SameArrays DEF GraphIInv, GraphTypes
  <1>7. Seen' = Seen /\ \A n : Kind(n)' = Kind(n)
    BY <1>1 DEF Seen, Kind
  <1>8. NodesFit'
    <2>1. Ends(nextNode - 1)' = Ends(nextNode - 1)
      BY <1>1 DEF Ends
    <2>2. QED
      BY <1>1, <1>7, <2>1 DEF GraphIInv, NodesFit
  <1>9. StartFits'
    <2>1. StartFits
      BY DEF GraphIInv
    <2>2. Kind(startNode)' = Kind(startNode)
      BY <1>1 DEF Kind
    <2>3. QED
      BY <1>1, <1>7, <2>1, <2>2 DEF StartFits
  <1>10. QED
    BY <1>1, <1>5, <1>6, <1>8, <1>9, SameConnections DEF GraphIInv

\* What making a connection does: the call list of the pin it names gets the other
\* node, the input remembers the connection, and the connection is settled, but for
\* a node connected to itself whose other end waits.
LEMMA ReadConnects ==
    ASSUME GraphIInv, NEW e \in unread, ReadConnection(e), CanConnect(e),
           NEW l, l = e.link
    PROVE  /\ l \in Possible /\ l \in file.links /\ scope' = TRUE
           /\ \E stored :
                 /\ myConnectionsIn' = [myConnectionsIn EXCEPT ![l.to][l.in] =
                                            [node |-> l.from, pin |-> stored]]
                 /\ Reads(l, [node |-> l.from, pin |-> stored])
           /\ callLists' = IF PinsOut[Kind(l.from)][l.out + 1] = "Call"
                           THEN [callLists EXCEPT ![l.from][l.out] = Append(@, l.to)]
                           ELSE callLists
           /\ l \notin Settled /\ Settled \subseteq Settled'
           /\ Settled' \subseteq Settled \cup {l} /\ (l.from # l.to => l \in Settled')
  <1>1. /\ unread' = unread \ {e} /\ file' = file
        /\ instanceList' = instanceList /\ startNode' = startNode
        /\ IF e.input THEN ConnectPinOut(l) ELSE ConnectPinIn(l)
    BY DEF ReadConnection
  <1>2. PICK n : n = nextNode - 1
    OBVIOUS
  <1>3. /\ unread \subseteq Ends(n) /\ n \in Seen /\ Seen \subseteq 1 .. n
        /\ file \in Files /\ scope = TRUE /\ GraphTypes /\ NodesFit /\ StartFits
    BY <1>2 DEF GraphIInv, NodesFit, GraphTypes
  <1>4. /\ l \in file.links /\ e.input \in BOOLEAN
        /\ e.input => l.to = n /\ e.other = l.from
        /\ ~e.input => l.from = n /\ e.other = l.to
    BY <1>3, EndFacts
  <1>5. e.other \in Seen /\ ~IntoStart(l)
    BY DEF CanConnect, Seen
  <1>6. l \in Possible
    BY <1>3, <1>4, <1>5 DEF Possible, Seen
  <1>7. /\ CodePin(l.from, FilePin(l.from, l.out)) = l.out
        /\ InScope(l.from, l.out) /\ At(l.from, l.out) = l.out
        /\ OutPin(l.from, l.out) = PinsOut[Kind(l.from)][l.out + 1]
    BY <1>3, <1>6, PinIsRight
  <1>8. PICK stored : /\ Connect(l.from, l.out, stored, l.to, l.in)
                      /\ stored = IF e.input THEN FilePin(l.from, l.out) ELSE l.out
    <2>1. CASE e.input
      BY <1>1, <1>7, <2>1 DEF ConnectPinOut
    <2>2. CASE ~e.input
      BY <1>1, <1>7, <2>2 DEF ConnectPinIn
    <2>3. QED
      BY <2>1, <2>2
  <1>9. /\ myConnectionsIn' = [myConnectionsIn EXCEPT ![l.to][l.in] =
                                   [node |-> l.from, pin |-> stored]]
        /\ callLists' = IF PinsOut[Kind(l.from)][l.out + 1] = "Call"
                        THEN [callLists EXCEPT ![l.from][l.out] = Append(@, l.to)]
                        ELSE callLists
        /\ scope' = TRUE
    BY <1>3, <1>7, <1>8 DEF Connect
  <1>10. Reads(l, [node |-> l.from, pin |-> stored])
    <2>1. CASE e.input
      <3>1. ~(l.from > l.to)
        BY <1>3, <1>4, <1>5, <2>1, LinkFacts DEF Links
      <3>2. Nothing # [node |-> l.from, pin |-> stored]
        <4>1. l.from \in Nat /\ l.out \in Nat /\ l.from \in AllNodes
          BY <1>3, <1>4, LinkFacts DEF Links
        <4>2. Inputs(l.from) \in Nat
          BY <1>3, <4>1, FileFacts
        <4>3. stored \in Int
          BY <1>8, <4>1, <4>2 DEF FilePin
        <4>4. QED
          BY <4>1, <4>3, PinsAssumption
      <3>3. QED
        BY <1>8, <2>1, <3>1, <3>2 DEF Reads
    <2>2. CASE ~e.input
      <3>1. l.from \in Nat /\ l.out \in Nat
        BY <1>3, <1>4, LinkFacts DEF Links
      <3>2. Nothing # [node |-> l.from, pin |-> stored]
        BY <1>8, <2>2, <3>1, PinsAssumption
      <3>3. QED
        BY <1>8, <2>2, <3>2 DEF Reads
    <2>3. QED
      BY <2>1, <2>2
  <1>11. Possible' = Possible
    BY <1>1 DEF Possible, IntoStart
  <1>12. l \notin Settled
    BY DEF Settled
  <1>13. Settled \subseteq Settled'
    BY <1>1, <1>11 DEF Settled
  <1>14. Settled' \subseteq Settled \cup {l}
    BY <1>1, <1>11 DEF Settled
  <1>15. ASSUME l.from # l.to
         PROVE  l \in Settled'
    <2>1. ASSUME NEW f \in unread \ {e}, f.link = l
          PROVE  FALSE
      <3>1. /\ f.input \in BOOLEAN
            /\ f.input => f.link.to = n /\ f.other = f.link.from
            /\ ~f.input => f.link.from = n /\ f.other = f.link.to
            /\ f = [link |-> f.link, input |-> f.input, other |-> f.other]
        BY <1>3, EndFacts
      <3>2. e = [link |-> e.link, input |-> e.input, other |-> e.other]
        BY <1>3, EndFacts
      <3>3. f.input # e.input
        <4>1. SUFFICES ASSUME f.input = e.input
                       PROVE  FALSE
          OBVIOUS
        <4>2. f.other = e.other
          BY <1>4, <2>1, <3>1, <4>1
        <4>3. f = e
          BY <2>1, <3>1, <3>2, <4>1, <4>2
        <4>4. QED
          BY <2>1, <4>3
      <3>4. QED
        BY <1>4, <1>15, <2>1, <3>1, <3>3
    <2>2. QED
      BY <1>1, <1>6, <1>11, <2>1 DEF Settled
  <1>16. QED
    BY <1>4, <1>6, <1>9, <1>10, <1>12, <1>13, <1>14, <1>15

LEMMA ConnectedArrays ==
    ASSUME GraphIInv, NEW e \in unread, ReadConnection(e), CanConnect(e)
    PROVE  GraphTypes'
  <1>1. PICK l : l = e.link
    OBVIOUS
  <1>2. /\ l \in file.links
        /\ \E stored : myConnectionsIn' = [myConnectionsIn EXCEPT ![l.to][l.in] =
                                               [node |-> l.from, pin |-> stored]]
        /\ callLists' = IF PinsOut[Kind(l.from)][l.out + 1] = "Call"
                        THEN [callLists EXCEPT ![l.from][l.out] = Append(@, l.to)]
                        ELSE callLists
    BY <1>1, ReadConnects
  <1>3. /\ file' = file /\ aNodeInstanceMaxCount' = aNodeInstanceMaxCount
        /\ nextNode' = nextNode /\ instanceList' = instanceList
    BY DEF ReadConnection
  <1>4. AllNodes' = AllNodes /\ \A n : Outputs(n)' = Outputs(n) /\ Inputs(n)' = Inputs(n)
    BY <1>3 DEF AllNodes, Kind, Outputs, Inputs
  <1>5. GraphTypes
    BY DEF GraphIInv
  <1>6. l.from \in AllNodes /\ l.to \in AllNodes /\ l.out \in 0 .. Outputs(l.from) - 1
    BY <1>2, <1>5, LinkFacts DEF GraphTypes
  <1>7. /\ DOMAIN myConnectionsIn' = AllNodes
        /\ \A n \in AllNodes : DOMAIN myConnectionsIn'[n] = 0 .. Inputs(n) - 1
    BY <1>2, <1>5 DEF GraphTypes
  <1>8. /\ DOMAIN callLists' = AllNodes
        /\ \A n \in AllNodes : DOMAIN callLists'[n] = 0 .. Outputs(n) - 1
    BY <1>2, <1>5 DEF GraphTypes
  <1>9. ASSUME NEW n \in AllNodes, NEW p \in 0 .. Outputs(n) - 1
        PROVE  callLists'[n][p] \in Seq(AllNodes)
    <2>1. callLists[n][p] \in Seq(AllNodes) /\ p \in DOMAIN callLists[n] /\ n \in DOMAIN callLists
      BY <1>5, <1>9 DEF GraphTypes
    <2>2. callLists'[n][p] = callLists[n][p] \/ callLists'[n][p] = Append(callLists[n][p], l.to)
      BY <1>2, <2>1
    <2>3. Append(callLists[n][p], l.to) \in Seq(AllNodes)
      BY <1>6, <2>1, AppendProperties
    <2>4. QED
      BY <2>1, <2>2, <2>3
  <1>10. QED
    BY <1>3, <1>4, <1>5, <1>7, <1>8, <1>9 DEF GraphTypes

LEMMA ConnectedCalls ==
    ASSUME GraphIInv, NEW e \in unread, ReadConnection(e), CanConnect(e)
    PROVE  CallsFitLinks'
  <1>1. PICK l : l = e.link
    OBVIOUS
  <1>2. /\ l \in file.links /\ l \notin Settled /\ Settled \subseteq Settled'
        /\ Settled' \subseteq Settled \cup {l} /\ (l.from # l.to => l \in Settled')
        /\ callLists' = IF PinsOut[Kind(l.from)][l.out + 1] = "Call"
                        THEN [callLists EXCEPT ![l.from][l.out] = Append(@, l.to)]
                        ELSE callLists
    BY <1>1, ReadConnects
  <1>3. file' = file
    BY DEF ReadConnection
  <1>4. AllNodes' = AllNodes /\ \A n : Outputs(n)' = Outputs(n) /\ Kind(n)' = Kind(n)
    BY <1>3 DEF AllNodes, Kind, Outputs
  <1>5. file \in Files /\ GraphTypes /\ CallsFitLinks
    BY DEF GraphIInv, GraphTypes
  <1>6. l.from \in AllNodes /\ l.to \in AllNodes /\ l.out \in 0 .. Outputs(l.from) - 1
    BY <1>2, <1>5, LinkFacts
  <1>7. PICK S : S = Settled'
    OBVIOUS
  <1>8. \A n, p, m : LinksOf(n, p, m)' = {k \in S : k.from = n /\ k.out = p /\ k.to = m}
    BY <1>7 DEF LinksOf
  <1>9. \A n, p, m, k : k # l \/ ~(l.from = n /\ l.out = p /\ l.to = m) =>
             (k \in LinksOf(n, p, m)' <=> k \in LinksOf(n, p, m))
    <2>1. \A k : k # l => (k \in S <=> k \in Settled)
      BY <1>2, <1>7
    <2>2. QED
      BY <1>2, <1>8, <2>1 DEF LinksOf
  <1>10. l.from # l.to => l \in LinksOf(l.from, l.out, l.to)'
    BY <1>2, <1>7, <1>8
  <1>11. ASSUME NEW n \in AllNodes, NEW p \in 0 .. Outputs(n) - 1,
               PinsOut[Kind(n)][p + 1] = "Call", NEW m \in AllNodes \ {n}
        PROVE  Cardinality(PlacesOf(callLists'[n][p], m)) = Cardinality(LinksOf(n, p, m)')
    <2>1. /\ Cardinality(PlacesOf(callLists[n][p], m)) = Cardinality(LinksOf(n, p, m))
          /\ callLists[n][p] \in Seq(AllNodes) /\ n \in DOMAIN callLists
          /\ p \in DOMAIN callLists[n] /\ IsFiniteSet(LinksOf(n, p, m))
      BY <1>5, <1>11, LinksAreFinite DEF CallsFitLinks, GraphTypes
    <2>2. CASE n = l.from /\ p = l.out
      <3>1. callLists'[n][p] = Append(callLists[n][p], l.to)
        BY <1>2, <1>11, <2>1, <2>2
      <3>2. CASE m = l.to
        <4>1. LinksOf(n, p, m)' = LinksOf(n, p, m) \cup {l}
          <5>1. l \in LinksOf(n, p, m)'
            BY <1>11, <1>10, <2>2, <3>2
          <5>2. \A k : k # l => (k \in LinksOf(n, p, m)' <=> k \in LinksOf(n, p, m))
            BY <1>9
          <5>3. QED
            BY <5>1, <5>2
        <4>2. l \notin LinksOf(n, p, m)
          BY <1>2 DEF LinksOf
        <4>3. Cardinality(LinksOf(n, p, m)') = Cardinality(LinksOf(n, p, m)) + 1
          BY <2>1, <4>1, <4>2, FS_AddElement
        <4>4. Cardinality(PlacesOf(Append(callLists[n][p], l.to), m))
                = Cardinality(PlacesOf(callLists[n][p], m)) + 1
          BY <1>6, <2>1, <3>2, PlacesAppend
        <4>5. QED
          BY <2>1, <3>1, <4>3, <4>4
      <3>3. CASE m # l.to
        <4>1. LinksOf(n, p, m)' = LinksOf(n, p, m)
          <5>1. \A k : k \in LinksOf(n, p, m)' <=> k \in LinksOf(n, p, m)
            BY <1>9, <3>3
          <5>2. QED
            BY <5>1
        <4>2. Cardinality(PlacesOf(Append(callLists[n][p], l.to), m))
                = Cardinality(PlacesOf(callLists[n][p], m))
          BY <1>6, <2>1, <3>3, PlacesAppend
        <4>3. QED
          BY <2>1, <3>1, <4>1, <4>2
      <3>4. QED
        BY <3>2, <3>3
    <2>3. CASE ~(n = l.from /\ p = l.out)
      <3>1. callLists'[n][p] = callLists[n][p]
        BY <1>2, <2>1, <2>3
      <3>2. LinksOf(n, p, m)' = LinksOf(n, p, m)
        <4>1. \A k : k \in LinksOf(n, p, m)' <=> k \in LinksOf(n, p, m)
          BY <1>9, <2>3
        <4>2. QED
          BY <4>1
      <3>3. QED
        BY <2>1, <3>1, <3>2
    <2>4. QED
      BY <2>2, <2>3
  <1>12. QED
    BY <1>4, <1>11 DEF CallsFitLinks, PlacesOf

LEMMA ConnectedInputs ==
    ASSUME GraphIInv, NEW e \in unread, ReadConnection(e), CanConnect(e)
    PROVE  InputsFitLinks'
  <1>1. PICK l : l = e.link
    OBVIOUS
  <1>2. l \in file.links /\ Settled' \subseteq Settled \cup {l}
    <2>1. l \in file.links
      BY <1>1, ReadConnects
    <2>2. Settled' \subseteq Settled \cup {l}
      BY <1>1, ReadConnects
    <2>3. QED
      BY <2>1, <2>2
  <1>3. PICK stored :
           /\ myConnectionsIn' = [myConnectionsIn EXCEPT ![l.to][l.in] =
                                      [node |-> l.from, pin |-> stored]]
           /\ Reads(l, [node |-> l.from, pin |-> stored])
    BY <1>1, ReadConnects
  <1>4. file' = file
    BY DEF ReadConnection
  <1>5. \A k : IsData(k)' = IsData(k) /\ FilePin(k.from, k.out)' = FilePin(k.from, k.out)
    BY <1>4 DEF IsData, FilePin, Kind, Inputs
  <1>6. file \in Files /\ GraphTypes /\ InputsFitLinks
    BY DEF GraphIInv, GraphTypes
  <1>7. /\ l.to \in DOMAIN myConnectionsIn /\ l.in \in DOMAIN myConnectionsIn[l.to]
    BY <1>2, <1>6, LinkFacts DEF GraphTypes
  <1>8. myConnectionsIn'[l.to][l.in] = [node |-> l.from, pin |-> stored]
    BY <1>3, <1>7
  <1>9. ASSUME NEW k \in Settled', IsData(k)
        PROVE  Reads(k, myConnectionsIn'[k.to][k.in])
    <2>1. CASE k = l
      BY <1>3, <1>8, <2>1
    <2>2. CASE k # l
      <3>1. k \in Settled /\ k \in file.links
        BY <1>2, <1>9, <2>2 DEF Settled, Possible
      <3>2. ~(k.to = l.to /\ k.in = l.in)
        BY <1>2, <1>6, <1>9, <2>2, <3>1, LinkFacts
      <3>3. /\ k.to \in DOMAIN myConnectionsIn /\ k.in \in DOMAIN myConnectionsIn[k.to]
        BY <1>6, <3>1, LinkFacts DEF GraphTypes
      <3>4. myConnectionsIn'[k.to][k.in] = myConnectionsIn[k.to][k.in]
        BY <1>3, <3>2, <3>3
      <3>5. QED
        BY <1>6, <1>9, <3>1, <3>4 DEF InputsFitLinks
    <2>3. QED
      BY <2>1, <2>2
  <1>10. \A k : Reads(k, myConnectionsIn[k.to][k.in])' <=> Reads(k, myConnectionsIn'[k.to][k.in])
    BY <1>5 DEF Reads
  <1>11. QED
    BY <1>5, <1>9, <1>10 DEF InputsFitLinks

LEMMA ReadKeeps ==
    ASSUME GraphIInv, NEW e \in unread, ReadConnection(e), CanConnect(e)
    PROVE  GraphIInv'
  <1>1. /\ unread' = unread \ {e} /\ file' = file /\ nextNode' = nextNode
        /\ instanceList' = instanceList /\ startNode' = startNode
    BY DEF ReadConnection
  <1>2. Seen' = Seen /\ \A n : Kind(n)' = Kind(n)
    BY <1>1 DEF Seen, Kind
  <1>3. NodesFit'
    <2>1. Ends(nextNode - 1)' = Ends(nextNode - 1)
      BY <1>1 DEF Ends
    <2>2. QED
      BY <1>1, <1>2, <2>1 DEF GraphIInv, NodesFit
  <1>4. StartFits'
    <2>1. StartFits
      BY DEF GraphIInv
    <2>2. Kind(startNode)' = Kind(startNode)
      BY <1>1 DEF Kind
    <2>3. QED
      BY <1>1, <1>2, <2>1, <2>2 DEF StartFits
  <1>5. scope' = TRUE
    BY ReadConnects
  <1>6. QED
    BY <1>3, <1>4, <1>5, ConnectedArrays, ConnectedCalls, ConnectedInputs DEF GraphIInv

LEMMA GraphNextKeeps == GraphIInv /\ [GraphNext]_graphVars => GraphIInv'
  <1>1. SUFFICES ASSUME GraphIInv, [GraphNext]_graphVars
                 PROVE  GraphIInv'
    OBVIOUS
  <1>2. CASE UNCHANGED graphVars
    <2>1. /\ unread' = unread /\ file' = file /\ nextNode' = nextNode
          /\ aNodeInstanceMaxCount' = aNodeInstanceMaxCount
          /\ instanceList' = instanceList /\ startNode' = startNode
          /\ callLists' = callLists /\ myConnectionsIn' = myConnectionsIn /\ scope' = scope
      BY <1>2 DEF graphVars
    <2>2. Settled' = Settled
      BY <2>1 DEF Settled, Possible, IntoStart
    <2>3. GraphTypes'
      BY <1>1, <2>1, SameArrays DEF GraphIInv, GraphTypes
    <2>4. Seen' = Seen /\ Ends(nextNode - 1)' = Ends(nextNode - 1)
      BY <2>1 DEF Seen, Ends
    <2>5. NodesFit'
      BY <1>1, <2>1, <2>4 DEF GraphIInv, NodesFit
    <2>6. StartFits'
      <3>1. Kind(startNode)' = Kind(startNode) /\ \A n : Kind(n)' = Kind(n)
        BY <2>1 DEF Kind
      <3>2. StartFits
        BY <1>1 DEF GraphIInv
      <3>3. QED
        BY <2>1, <2>4, <3>1, <3>2 DEF StartFits
    <2>7. QED
      BY <1>1, <2>1, <2>2, <2>3, <2>5, <2>6, SameConnections DEF GraphIInv
  <1>3. CASE CreateInstance
    BY <1>1, <1>3, CreateKeeps
  <1>4. CASE SkipNode
    BY <1>1, <1>4, SkipKeeps
  <1>5. ASSUME NEW e \in unread, ReadConnection(e)
        PROVE  GraphIInv'
    BY <1>1, <1>5, ReadSkips, ReadKeeps
  <1>6. QED
    BY <1>1, <1>2, <1>3, <1>4, <1>5 DEF GraphNext, Loaded

LEMMA GraphIInvHolds == GraphIInv => GraphInv
  <1>1. SUFFICES ASSUME GraphIInv
                 PROVE  GraphInv
    OBVIOUS
  <1>2. /\ file \in Files /\ GraphTypes /\ NodesFit /\ StartFits /\ CallsFitLinks
        /\ InputsFitLinks /\ scope = TRUE
    BY <1>1 DEF GraphIInv, GraphTypes
  <1>3. AllNodes = 1 .. Len(file.nodes) /\ Len(file.nodes) \in Nat
        /\ nextNode \in 1 .. Len(file.nodes) + 1
    BY <1>2, FileFacts DEF GraphTypes
  <1>4. GraphTypeOK
    <2>1. ASSUME NEW n \in AllNodes, NEW p \in DOMAIN callLists[n]
          PROVE  ToSet(callLists[n][p]) \subseteq AllNodes
      <3>1. callLists[n][p] \in Seq(AllNodes)
        BY <1>2, <2>1 DEF GraphTypes
      <3>2. QED
        BY <3>1 DEF ToSet
    <2>2. QED
      BY <1>2, <2>1 DEF GraphTypeOK, GraphTypes, NodesFit, StartFits, Seen
  <1>5. CallsMatchFile
    <2>1. ASSUME unread = {}, NEW n \in Seen, NEW p \in DOMAIN callLists[n],
                 PinsOut[Kind(n)][p + 1] = "Call", NEW m \in AllNodes \ {n}
          PROVE  Cardinality(PlacesOf(callLists[n][p], m)) =
                 Cardinality({l \in Possible : l.from = n /\ l.out = p /\ l.to = m})
      <3>1. n \in AllNodes
        BY <1>2, <1>3 DEF NodesFit
      <3>2. p \in 0 .. Outputs(n) - 1
        BY <1>2, <3>1 DEF GraphTypes
      <3>3. Cardinality(PlacesOf(callLists[n][p], m)) = Cardinality(LinksOf(n, p, m))
        BY <1>2, <2>1, <3>1, <3>2 DEF CallsFitLinks
      <3>4. LinksOf(n, p, m) = {l \in Possible : l.from = n /\ l.out = p /\ l.to = m}
        BY <2>1 DEF LinksOf, Settled
      <3>5. QED
        BY <3>3, <3>4
    <2>2. QED
      BY <2>1 DEF CallsMatchFile, PlacesOf, Seen
  <1>6. InputsMatchFile
    <2>1. unread = {} => Settled = Possible
      BY DEF Settled
    <2>2. QED
      BY <1>2, <2>1 DEF InputsMatchFile, InputsFitLinks, IsData, Reads
  <1>7. QED
    BY <1>2, <1>4, <1>5, <1>6 DEF GraphInv, ConnectsInScope

\* Whatever file is read, a visual script's nodes are connected as the file says:
\* each call of it once, each input that takes data to the node it names, and every
\* pin that is used is one the node has (NodeSystem.cpp:131-176).
THEOREM NodesFollowTheirFile == GraphSpec => []GraphInv
  <1>1. GraphInit => GraphIInv
    BY GraphInitKeeps
  <1>2. QED
    BY <1>1, GraphNextKeeps, GraphIInvHolds, PTL DEF GraphSpec
=============================================================================
