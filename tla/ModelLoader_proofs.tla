------------------------- MODULE ModelLoader_proofs -------------------------
(***************************************************************************)
(* Theorems about the model loader, for any callers, instances and models, *)
(* any kinds of models, and any accidents that are tolerated: as long as   *)
(* none of the accidents happens that a property names, users are counted, *)
(* no model that is held is unloaded, no load is forgotten and the thread  *)
(* gives its mutex back.                                                   *)
(*                                                                         *)
(* The proof has three layers, each on top of the one before: what a       *)
(* thread's step is about (ShapeInv), what happens to commands (QueueInv), *)
(* and who counts as a user (CountInv).                                    *)
(***************************************************************************)
EXTENDS ModelLoader, FiniteSetTheorems, SequenceTheorems, TLAPS

-----------------------------------------------------------------------------
(* The invariants.                                                         *)

Busy == {"lookup", "create", "load", "add"}

CallerRecords ==
    [pc : {"idle", "unload", "init", "copy", "get", "queue", "assign"},
     model : Instances, next : {"idle", "init", "copy", "get"},
     other : Instances \cup Paths \cup {NoModel}, result : Paths \cup {NoModel}]

\* A caller works on an instance of its own, which is not loaded meanwhile;
\* what else it remembers depends on what it does.
Doing(r) == IF r.pc = "unload" THEN r.next ELSE r.pc
Proper(c, r, loaded) ==
    /\ r \in CallerRecords /\ Owner[r.model] = c
    /\ r.pc # "idle" => ~loaded[r.model]
    /\ Doing(r) = "init" => r.other \in Paths
    /\ Doing(r) = "copy" => r.other \in Instances /\ Owner[r.other] = c

CallersKeepToThemselves == \A c \in Callers : Proper(c, caller[c], myLoaded)

\* The thread carries a model, never animations, while it works, and says so.
ThreadCarriesModel ==
    /\ loader.pc \in Busy => loader.command \in Commands /\ ~loader.command.isAnimation
    /\ loader.pc \in Busy \cup {"lock"} => myIsLoading
    /\ LoaderAt("lock") => myLoadCommands # <<>>

ShapeInv == TypeOK /\ CallersKeepToThemselves /\ ThreadCarriesModel

\* An instance waits in the queue once at most.
CommandsDiffer ==
    \A j, k \in Positions(myLoadCommands) :
        (/\ ~myLoadCommands[j].isAnimation /\ ~myLoadCommands[k].isAnimation
         /\ myLoadCommands[j].model = myLoadCommands[k].model) => j = k

\* Custom models never reach the thread.
NoCustomCommands ==
    /\ \A k \in Positions(myLoadCommands) :
           ~myLoadCommands[k].isAnimation => Kind[myLoadCommands[k].path] # "custom"
    /\ loader.pc \in Busy => Kind[loader.command.path] # "custom"

\* Who was told to wait has no model only as long as somebody loads it.
WaitersAreServed ==
    ~Happened({"overwritten", "failed"}) =>
        \A c \in Callers :
            At(c, "assign") /\ caller[c].result = NoModel =>
                Pending(caller[c].model) \/ myModel[caller[c].model] # NoModel

\* Animations wait for models that are there or will be.
AnimationsHaveModels ==
    ~Happened({"orphaned", "failed", "overwritten"}) =>
        /\ \A i \in Instances : Animated(i) => myModel[i] # NoModel \/ Pending(i)
        /\ \A c \in Callers : At(c, "unload") \/ At(c, "copy") => ~Animated(caller[c].model)

QueueInv == /\ CommandsDiffer /\ NoCustomCommands /\ WaitersAreServed /\ AnimationsHaveModels
            /\ LoadsAreRemembered /\ LockIsReturned

\* Everyone who will count as a user of some model without asking again
\* whether there are few: a caller on its way to a model, an instance in the
\* queue, and the thread.
Asking(c) ==
    \/ caller[c].pc \in {"get", "queue", "copy"}
    \/ At(c, "unload") /\ caller[c].next \in {"get", "copy"}
Waiting == {c \in Callers : Asking(c)} \cup {i \in Instances : Queued(i)}
           \cup (IF loader.pc \in Busy THEN {"loader"} ELSE {})

Everyone == Callers \cup Instances \cup {"loader"}
Bound == UserLimit + Cardinality(Everyone)

\* The users of a model: those who hold it, and the callers that were counted
\* and have not given it to their instances yet.
Users(p) == Holders(p) \cup {c \in Callers : At(c, "assign") /\ caller[c].result = p}

Unspoilt == ~Happened({"lost", "reset"})

\* No count comes near its modulus.
CountsBounded ==
    Unspoilt => \A p \in Paths :
        myUserCount[p] + Cardinality(Waiting) <= Bound

AllUsersCounted == Unspoilt => \A p \in Paths : Cardinality(Users(p)) <= myUserCount[p]

\* What is used is in its map; a custom model whatever happens.
UsedStays ==
    \A p \in Paths \ entries :
        Unspoilt /\ (Happened({"stale"}) => Kind[p] = "custom") => Users(p) = {}

\* What the thread works on is in the map.
LoadedStays ==
    ~Happened({"stale"}) /\ loader.pc \in {"load", "add"} => loader.command.path \in entries

CountInv == CountsBounded /\ AllUsersCounted /\ UsedStays /\ LoadedStays

IInv == ShapeInv /\ QueueInv /\ CountInv

-----------------------------------------------------------------------------
(* Numbers, sequences and records.                                         *)

LEMMA ModulusType == CountModulus \in Nat /\ CountModulus > 1
  BY BoundsAssumption

LEMMA ModType == \A n \in Int : n % CountModulus \in 0 .. CountModulus - 1
  BY ModulusType

LEMMA ModSmall == \A n \in 0 .. CountModulus - 1 : n % CountModulus = n
  BY ModulusType

LEMMA Names == /\ NoModel \notin Paths /\ NoCaller \notin Callers
               /\ Instances \cap Paths = {} /\ Instances \cap Callers = {}
               /\ "loader" \notin Callers \cup Instances \cup {NoCaller}
               /\ Owner \in [Instances -> Callers]
  BY InstancesAssumption

\* Taking one element out keeps the others, in their order.
LEMMA RemoveAtFacts ==
    ASSUME NEW S, NEW s \in Seq(S), NEW k \in 1 .. Len(s)
    PROVE  /\ RemoveAt(s, k) \in Seq(S) /\ Len(RemoveAt(s, k)) = Len(s) - 1
           /\ \A j \in 1 .. Len(s) - 1 :
                  RemoveAt(s, k)[j] = IF j < k THEN s[j] ELSE s[j + 1]
  <1>1. /\ SubSeq(s, 1, k - 1) \in Seq(S) /\ Len(SubSeq(s, 1, k - 1)) = k - 1
        /\ \A j \in 1 .. k - 1 : SubSeq(s, 1, k - 1)[j] = s[j]
    BY SubSeqProperties
  <1>2. /\ SubSeq(s, k + 1, Len(s)) \in Seq(S) /\ Len(SubSeq(s, k + 1, Len(s))) = Len(s) - k
        /\ \A j \in 1 .. Len(s) - k : SubSeq(s, k + 1, Len(s))[j] = s[k + j]
    BY SubSeqProperties
  <1> DEFINE t == SubSeq(s, 1, k - 1)  u == SubSeq(s, k + 1, Len(s))
  <1>3. t \in Seq(S) /\ u \in Seq(S) /\ Len(t) = k - 1 /\ Len(u) = Len(s) - k
    BY <1>1, <1>2
  <1> HIDE DEF t, u
  <1>4. t \o u \in Seq(S) /\ Len(t \o u) = Len(s) - 1
    BY <1>3
  <1>5. \A j \in 1 .. Len(s) - 1 : (t \o u)[j] = IF j < k THEN t[j] ELSE u[j - k + 1]
    <2> TAKE j \in 1 .. Len(s) - 1
    <2>1. (t \o u)[j] = IF j <= Len(t) THEN t[j] ELSE u[j - Len(t)]
      BY <1>3, SMT
    <2>2. j - Len(t) = j - k + 1 /\ (j <= Len(t) <=> j < k)
      BY <1>3
    <2>3. QED
      BY <2>1, <2>2
  <1>6. \A j \in 1 .. Len(s) - 1 : (t \o u)[j] = IF j < k THEN s[j] ELSE s[j + 1]
    <2> TAKE j \in 1 .. Len(s) - 1
    <2>1. j < k => t[j] = s[j]
      BY <1>1 DEF t
    <2>2. ~(j < k) => u[j - k + 1] = s[k + (j - k + 1)]
      BY <1>2 DEF u
    <2>3. k + (j - k + 1) = j + 1
      OBVIOUS
    <2>4. QED
      BY <1>5, <2>1, <2>2, <2>3
  <1>7. QED
    BY <1>4, <1>6 DEF RemoveAt, t, u

LEMMA AppendFacts ==
    ASSUME NEW S, NEW s \in Seq(S), NEW x \in S
    PROVE  /\ Append(s, x) \in Seq(S) /\ Len(Append(s, x)) = Len(s) + 1
           /\ \A j \in 1 .. Len(s) : Append(s, x)[j] = s[j]
           /\ Append(s, x)[Len(s) + 1] = x
  OBVIOUS

LEMMA RedirectedFacts ==
    ASSUME NEW s \in Seq(Commands), NEW i \in Instances, NEW p \in Paths
    PROVE  /\ Redirected(s, i, p) \in Seq(Commands) /\ Len(Redirected(s, i, p)) = Len(s)
           /\ \A j \in 1 .. Len(s) :
                  /\ Redirected(s, i, p)[j] \in Commands
                  /\ Redirected(s, i, p)[j].model = s[j].model
                  /\ Redirected(s, i, p)[j].isAnimation = s[j].isAnimation
                  /\ Redirected(s, i, p)[j].path \in {s[j].path, p}
  <1> DEFINE new(j) == IF s[j].model = i /\ ~s[j].isAnimation
                       THEN [s[j] EXCEPT !.path = p] ELSE s[j]
  <1>1. \A j \in 1 .. Len(s) : s[j] \in Commands
    OBVIOUS
  <1>2. \A j \in 1 .. Len(s) :
           /\ new(j) \in Commands /\ new(j).model = s[j].model
           /\ new(j).isAnimation = s[j].isAnimation /\ new(j).path \in {s[j].path, p}
    BY <1>1 DEF Commands
  <1>3. Redirected(s, i, p) = [j \in 1 .. Len(s) |-> new(j)]
    BY DEF Redirected, Positions
  <1>4. Redirected(s, i, p) \in Seq(Commands) /\ Len(Redirected(s, i, p)) = Len(s)
    BY <1>2, <1>3, SMT
  <1>5. \A j \in 1 .. Len(s) : Redirected(s, i, p)[j] = new(j)
    BY <1>3
  <1>6. QED
    BY <1>2, <1>4, <1>5

LEMMA IdleIsProper ==
    ASSUME NEW c \in Callers, NEW loaded
    PROVE  Proper(c, Idle(c), loaded) /\ Idle(c).pc = "idle"
  <1>1. Idle(c).model \in Instances /\ Owner[Idle(c).model] = c
    BY InstancesAssumption DEF Idle
  <1>2. QED
    BY <1>1 DEF Idle, Proper, Doing, CallerRecords

-----------------------------------------------------------------------------
(* The first layer: types and what a step is about.                        *)

LoaderRecords ==
    [pc : {"idle", "stopped", "lock", "lookup", "create", "load", "add"},
     command : Commands \cup {NoCommand}, count : 0 .. CountModulus - 1]

LEMMA TypeFacts ==
    ASSUME ShapeInv
    PROVE  /\ myLoadCommands \in Seq(Commands) /\ myIsLoading \in BOOLEAN
           /\ entries \subseteq Paths /\ myUserCount \in [Paths -> 0 .. CountModulus - 1]
           /\ loader \in LoaderRecords /\ caller \in [Callers -> CallerRecords]
           /\ myModel \in [Instances -> Paths \cup {NoModel}] /\ myPath \in [Instances -> Paths]
           /\ myLoaded \in [Instances -> BOOLEAN] /\ events \subseteq Events
           /\ \A c \in Callers : Proper(c, caller[c], myLoaded)
  BY DEF ShapeInv, TypeOK, LoaderRecords, CallerRecords, CallersKeepToThemselves

\* A caller's record changes, and what is loaded among its own instances.
LEMMA CallerMoves ==
    ASSUME ShapeInv, NEW c \in Callers, NEW r, Proper(c, r, myLoaded'),
           caller' = [caller EXCEPT ![c] = r],
           \A i \in Instances : Owner[i] # c => myLoaded'[i] = myLoaded[i]
    PROVE  caller' \in [Callers -> CallerRecords] /\ CallersKeepToThemselves'
  <1>1. r \in CallerRecords
    BY DEF Proper
  <1>2. caller' \in [Callers -> CallerRecords]
    BY <1>1, TypeFacts
  <1>3. \A d \in Callers : Proper(d, caller'[d], myLoaded')
    <2> TAKE d \in Callers
    <2>1. CASE d = c
      BY <2>1, TypeFacts
    <2>2. CASE d # c
      <3>1. caller'[d] = caller[d] /\ Proper(d, caller[d], myLoaded)
        BY <2>2, TypeFacts
      <3>2. caller[d].model \in Instances /\ Owner[caller[d].model] # c
        BY <3>1, <2>2 DEF Proper, CallerRecords
      <3>3. myLoaded'[caller[d].model] = myLoaded[caller[d].model]
        BY <3>2
      <3>4. QED
        BY <3>1, <3>3 DEF Proper
    <2>3. QED
      BY <2>1, <2>2
  <1>4. QED
    BY <1>2, <1>3 DEF CallersKeepToThemselves

LEMMA GoToIsProper ==
    ASSUME ShapeInv, NEW c \in Callers, NEW pc \in {"idle", "init", "copy", "get", "queue"},
           GoTo(c, pc), ~At(c, "idle"), myLoaded' \in [Instances -> BOOLEAN],
           pc # "idle" => ~myLoaded'[caller[c].model],
           pc = "init" => Doing(caller[c]) = "init", pc = "copy" => Doing(caller[c]) = "copy",
           \A i \in Instances : Owner[i] # c => myLoaded'[i] = myLoaded[i]
    PROVE  caller' \in [Callers -> CallerRecords] /\ CallersKeepToThemselves'
  <1> DEFINE r == IF pc = "idle" THEN Idle(c) ELSE [caller[c] EXCEPT !.pc = pc]
  <1>1. caller' = [caller EXCEPT ![c] = r]
    BY DEF GoTo
  <1>2. Proper(c, r, myLoaded')
    <2>1. CASE pc = "idle"
      BY <2>1, IdleIsProper
    <2>2. CASE pc # "idle"
      <3>1. Proper(c, caller[c], myLoaded) /\ caller[c] \in CallerRecords
        BY TypeFacts
      <3>2. /\ r \in CallerRecords /\ r.pc = pc /\ r.model = caller[c].model
            /\ r.other = caller[c].other
        BY <2>2, <3>1 DEF CallerRecords
      <3>3. QED
        BY <3>1, <3>2, <2>2 DEF Proper, Doing
    <2>3. QED
      BY <2>1, <2>2
  <1>3. QED
    BY <1>1, <1>2, CallerMoves

\* Going to "assign" with a result.
LEMMA AssignIsProper ==
    ASSUME ShapeInv, NEW c \in Callers, NEW p \in Paths \cup {NoModel}, ~At(c, "idle"),
           caller' = [caller EXCEPT ![c] = [@ EXCEPT !.pc = "assign", !.result = p]],
           myLoaded' = myLoaded
    PROVE  caller' \in [Callers -> CallerRecords] /\ CallersKeepToThemselves'
  <1> DEFINE r == [caller[c] EXCEPT !.pc = "assign", !.result = p]
  <1>1. caller' = [caller EXCEPT ![c] = r]
    OBVIOUS
  <1>2. Proper(c, caller[c], myLoaded) /\ caller[c] \in CallerRecords
    BY TypeFacts
  <1>3. r \in CallerRecords /\ r.pc = "assign" /\ r.model = caller[c].model
    BY <1>2 DEF CallerRecords
  <1>4. Proper(c, r, myLoaded')
    BY <1>2, <1>3 DEF Proper, Doing, At
  <1>5. QED
    BY <1>1, <1>4, CallerMoves

LEMMA InitShapeInv == Init => ShapeInv
  <1> SUFFICES ASSUME Init PROVE ShapeInv
    OBVIOUS
  <1>1. \A c \in Callers : Proper(c, Idle(c), myLoaded)
    BY IdleIsProper
  <1>2. CallersKeepToThemselves /\ caller \in [Callers -> CallerRecords]
    BY <1>1 DEF Init, CallersKeepToThemselves, Proper
  <1>3. myLoadCommands \in Seq(Commands) /\ loader \in LoaderRecords
    BY ModulusType DEF Init, LoaderRecords
  <1>4. /\ myIsLoading \in BOOLEAN
        /\ ModelAddMutex \in {NoCaller, "loader"} /\ ModelLoadMutex \in Callers \cup {NoCaller}
        /\ entries \subseteq Paths /\ myUserCount \in [Paths -> 0 .. CountModulus - 1]
        /\ myModel \in [Instances -> Paths \cup {NoModel}] /\ myPath \in [Instances -> Paths]
        /\ myLoaded \in [Instances -> BOOLEAN] /\ events \subseteq Events
    BY ModulusType, InstancesAssumption DEF Init, When, Events
  <1>5. ThreadCarriesModel
    BY DEF Init, ThreadCarriesModel, LoaderAt, Busy
  <1>6. QED
    BY <1>2, <1>3, <1>4, <1>5 DEF ShapeInv, TypeOK, LoaderRecords, CallerRecords

\* A step of a caller that leaves the thread and the queue alone.
LEMMA ThreadStays ==
    ASSUME ShapeInv, UNCHANGED <<loader, myIsLoading>>,
           myLoadCommands' = myLoadCommands \/ myLoadCommands' # <<>>
    PROVE  ThreadCarriesModel'
  BY DEF ShapeInv, ThreadCarriesModel, LoaderAt

LEMMA CountTypes ==
    ASSUME ShapeInv
    PROVE  \A p \in Paths : /\ myUserCount[p] \in 0 .. CountModulus - 1
                             /\ (myUserCount[p] + 1) % CountModulus \in 0 .. CountModulus - 1
                             /\ (myUserCount[p] - 1) % CountModulus \in 0 .. CountModulus - 1
  <1>1. \A n \in 0 .. CountModulus - 1 : n + 1 \in Int /\ n - 1 \in Int
    BY ModulusType
  <1>2. \A p \in Paths : myUserCount[p] \in 0 .. CountModulus - 1
    BY TypeFacts
  <1>3. QED
    BY <1>1, <1>2, ModType

LEMMA EventTypes ==
    /\ \A b1, b2 : When(b1, "orphaned") \cup When(b2, "late") \subseteq Events
    /\ \A b1, b2 : When(b1, "stale") \cup When(b2, "overwritten") \subseteq Events
    /\ \A b1, b2 : When(b1, "lost") \cup When(b2, "late") \subseteq Events
    /\ \A b1, b2 : When(b1, "reset") \cup When(b2, "late") \subseteq Events
    /\ {"failed"} \subseteq Events
  BY DEF When, Events

\* The arguments with which Release is called.
Onward(c, next, other) ==
    \/ next = "idle" /\ other = NoModel
    \/ next = "get" /\ other = NoModel
    \/ next = "init" /\ other \in Paths
    \/ next = "copy" /\ other \in Instances /\ Owner[other] = c

LEMMA StartReleaseShape ==
    ASSUME ShapeInv, NEW c \in Callers, NEW i \in Instances, NEW next, NEW other,
           Onward(c, next, other), StartRelease(c, i, next, other)
    PROVE  ShapeInv'
  <1> DEFINE p == myModel[i]
             users == IF p = NoModel THEN 1 ELSE (myUserCount[p] - 1) % CountModulus
             last == p # NoModel /\ Unused(users)
             r == IF ~last /\ next = "idle" THEN Idle(c)
                  ELSE [caller[c] EXCEPT !.pc = IF last THEN "unload" ELSE next,
                                         !.model = i, !.next = next, !.other = other]
  <1>1. /\ caller' = [caller EXCEPT ![c] = r] /\ Owner[i] = c
        /\ myUserCount' = IF p = NoModel THEN myUserCount
                          ELSE [myUserCount EXCEPT ![p] = users]
        /\ myModel' = IF last THEN myModel ELSE [myModel EXCEPT ![i] = NoModel]
        /\ myLoaded' = [myLoaded EXCEPT ![i] = FALSE]
        /\ events' = events \cup When(Animated(i) /\ (next # "get" \/ myModel[i] # NoModel),
                                      "orphaned")
        /\ UNCHANGED <<queueVars, mapVars, myPath, myIsLoading, loader>>
    BY DEF StartRelease, Note
  <1>2. /\ p # NoModel => p \in Paths /\ users \in 0 .. CountModulus - 1
        /\ p \in Paths \cup {NoModel}
    BY TypeFacts, CountTypes
  <1>3. Proper(c, r, myLoaded')
    <2>1. CASE ~last /\ next = "idle"
      BY <2>1, IdleIsProper
    <2>2. CASE ~(~last /\ next = "idle")
      <3>1. caller[c] \in CallerRecords
        BY TypeFacts
      <3>2. /\ next \in {"idle", "init", "copy", "get"}
            /\ other \in Instances \cup Paths \cup {NoModel}
            /\ (IF last THEN "unload" ELSE next) \in {"idle", "unload", "init", "copy", "get"}
        BY DEF Onward
      <3> HIDE DEF last
      <3>3. /\ r \in CallerRecords /\ r.model = i /\ r.next = next /\ r.other = other
            /\ r.pc = IF last THEN "unload" ELSE next
        BY <2>2, <3>1, <3>2 DEF CallerRecords
      <3>4. Doing(r) = next
        BY <3>3, <3>2 DEF Doing
      <3>5. ~myLoaded'[i]
        BY <1>1, TypeFacts
      <3> HIDE DEF r
      <3>6. QED
        BY <1>1, <3>3, <3>4, <3>5 DEF Proper, Onward
    <2>3. QED
      BY <2>1, <2>2
  <1>4. caller' \in [Callers -> CallerRecords] /\ CallersKeepToThemselves'
    <2>1. \A j \in Instances : Owner[j] # c => myLoaded'[j] = myLoaded[j]
      BY <1>1, TypeFacts
    <2> HIDE DEF r
    <2>2. QED
      BY <1>1, <1>3, <2>1, CallerMoves
  <1>5. /\ myUserCount' \in [Paths -> 0 .. CountModulus - 1]
        /\ myModel' \in [Instances -> Paths \cup {NoModel}]
        /\ myLoaded' \in [Instances -> BOOLEAN]
    <2> HIDE DEF users, last
    <2>1. QED
      BY <1>1, <1>2, TypeFacts
  <1>6. events' \subseteq Events
    BY <1>1, TypeFacts DEF When, Events
  <1>7. ThreadCarriesModel'
    BY <1>1, ThreadStays DEF queueVars
  <1>8. QED
    BY <1>1, <1>4, <1>5, <1>6, <1>7
       DEF ShapeInv, TypeOK, CallerRecords, queueVars, mapVars

LEMMA UnloadModelShape ==
    ASSUME ShapeInv, NEW c \in Callers, UnloadModel(c)
    PROVE  ShapeInv'
  <1>1. caller[c] \in CallerRecords /\ Proper(c, caller[c], myLoaded) /\ caller[c].pc = "unload"
    BY TypeFacts DEF UnloadModel, At
  <1>2. /\ caller[c].next \in {"idle", "init", "copy", "get"} /\ ~myLoaded[caller[c].model]
        /\ Doing(caller[c]) = caller[c].next /\ caller[c].model \in Instances
    BY <1>1 DEF CallerRecords, Proper, Doing
  <1>3. caller' \in [Callers -> CallerRecords] /\ CallersKeepToThemselves'
    BY <1>1, <1>2, TypeFacts, GoToIsProper DEF UnloadModel, At
  <1>4. entries' \subseteq Paths /\ myModel' \in [Instances -> Paths \cup {NoModel}]
    BY TypeFacts DEF UnloadModel
  <1>5. ModelLoadMutex' \in Callers \cup {NoCaller}
    BY DEF UnloadModel
  <1>6. events' \subseteq Events
    BY TypeFacts, EventTypes DEF UnloadModel, Note
  <1>7. ThreadCarriesModel'
    BY ThreadStays DEF UnloadModel, queueVars
  <1>8. QED
    BY <1>3, <1>4, <1>5, <1>6, <1>7
       DEF ShapeInv, TypeOK, CallerRecords, queueVars, UnloadModel

LEMMA InitInstanceShape ==
    ASSUME ShapeInv, NEW c \in Callers, InitInstance(c)
    PROVE  ShapeInv'
  <1>1. caller[c] \in CallerRecords /\ Proper(c, caller[c], myLoaded) /\ caller[c].pc = "init"
    BY TypeFacts DEF InitInstance, At
  <1>2. caller[c].model \in Instances /\ caller[c].other \in Paths
    BY <1>1 DEF CallerRecords, Proper, Doing
  <1>3. caller' \in [Callers -> CallerRecords] /\ CallersKeepToThemselves'
    BY <1>1, TypeFacts, GoToIsProper DEF InitInstance, At
  <1>4. myPath' \in [Instances -> Paths]
    BY <1>2, TypeFacts DEF InitInstance
  <1>5. events' \subseteq Events
    BY TypeFacts, EventTypes DEF InitInstance, Note
  <1>6. ThreadCarriesModel'
    BY ThreadStays DEF InitInstance, queueVars
  <1>7. QED
    BY <1>3, <1>4, <1>5, <1>6
       DEF ShapeInv, TypeOK, CallerRecords, queueVars, mapVars, InitInstance

LEMMA CopyInstanceShape ==
    ASSUME ShapeInv, NEW c \in Callers, CopyInstance(c)
    PROVE  ShapeInv'
  <1> DEFINE i == caller[c].model
             from == caller[c].other
             p == myModel[from]
  <1>1. caller[c] \in CallerRecords /\ Proper(c, caller[c], myLoaded) /\ caller[c].pc = "copy"
    BY TypeFacts DEF CopyInstance, At
  <1>2. i \in Instances /\ from \in Instances /\ Owner[i] = c
    BY <1>1 DEF CallerRecords, Proper, Doing
  <1>3. /\ myPath' = [myPath EXCEPT ![i] = myPath[from]]
        /\ myModel' = [myModel EXCEPT ![i] = p]
        /\ myLoaded' = [myLoaded EXCEPT ![i] = myLoaded[from] /\ p # NoModel]
        /\ myUserCount' = IF p = NoModel THEN myUserCount
                          ELSE [myUserCount EXCEPT ![p] = (@ + 1) % CountModulus]
        /\ GoTo(c, "idle")
        /\ UNCHANGED <<queueVars, mapVars, myIsLoading, loader, events>>
    BY DEF CopyInstance
  <1>4. p \in Paths \cup {NoModel} /\ (myLoaded[from] /\ p # NoModel) \in BOOLEAN
    BY <1>2, TypeFacts
  <1> HIDE DEF i, from, p
  <1>5. /\ myPath' \in [Instances -> Paths] /\ myModel' \in [Instances -> Paths \cup {NoModel}]
        /\ myLoaded' \in [Instances -> BOOLEAN]
    BY <1>2, <1>3, <1>4, TypeFacts
  <1>6. myUserCount' \in [Paths -> 0 .. CountModulus - 1]
    <2>1. CASE p = NoModel
      BY <1>3, <2>1, TypeFacts
    <2>2. CASE p # NoModel
      <3>1. (myUserCount[p] + 1) % CountModulus \in 0 .. CountModulus - 1
        BY <1>4, <2>2, CountTypes
      <3>2. QED
        BY <1>3, <2>2, <3>1, TypeFacts
    <2>3. QED
      BY <2>1, <2>2
  <1>7. \A j \in Instances : Owner[j] # c => myLoaded'[j] = myLoaded[j]
    BY <1>2, <1>3, TypeFacts
  <1>8. caller' \in [Callers -> CallerRecords] /\ CallersKeepToThemselves'
    BY <1>1, <1>3, <1>5, <1>7, GoToIsProper DEF At
  <1>9. ThreadCarriesModel'
    BY <1>3, ThreadStays DEF queueVars
  <1>10. QED
    BY <1>3, <1>5, <1>6, <1>8, <1>9
       DEF ShapeInv, TypeOK, CallerRecords, queueVars, mapVars

LEMMA GetShape ==
    ASSUME ShapeInv, NEW c \in Callers, GetFound(c) \/ GetMissed(c)
    PROVE  ShapeInv'
  <1> DEFINE p == myPath[caller[c].model]
  <1>1. caller[c] \in CallerRecords /\ Proper(c, caller[c], myLoaded) /\ caller[c].pc = "get"
    BY TypeFacts DEF GetFound, GetMissed, At
  <1>2. p \in Paths /\ ~myLoaded[caller[c].model]
    BY <1>1, TypeFacts DEF CallerRecords, Proper
  <1>3. ThreadCarriesModel'
    BY ThreadStays DEF GetFound, GetMissed, queueVars
  <1>4. CASE GetFound(c)
    <2>1. (myUserCount[p] + 1) % CountModulus \in 0 .. CountModulus - 1
      BY <1>2, CountTypes
    <2>2. myUserCount' \in [Paths -> 0 .. CountModulus - 1]
      BY <1>2, <1>4, <2>1, TypeFacts DEF GetFound
    <2>3. caller' \in [Callers -> CallerRecords] /\ CallersKeepToThemselves'
      <3>1. caller' = [caller EXCEPT ![c] = [@ EXCEPT !.pc = "assign", !.result = p]]
        BY <1>4 DEF GetFound
      <3>2. ~At(c, "idle") /\ myLoaded' = myLoaded
        BY <1>1, <1>4 DEF GetFound, At, instanceVars
      <3> HIDE DEF p
      <3>3. QED
        BY <1>2, <3>1, <3>2, AssignIsProper
    <2>4. QED
      BY <1>3, <1>4, <2>2, <2>3
         DEF ShapeInv, TypeOK, CallerRecords, queueVars, mapVars, instanceVars, GetFound
  <1>5. CASE GetMissed(c)
    <2>1. caller' \in [Callers -> CallerRecords] /\ CallersKeepToThemselves'
      BY <1>1, <1>2, <1>5, TypeFacts, GoToIsProper DEF GetMissed, At, instanceVars
    <2>2. QED
      BY <1>3, <1>5, <2>1
         DEF ShapeInv, TypeOK, CallerRecords, queueVars, mapVars, instanceVars, GetMissed
  <1>6. QED
    BY <1>4, <1>5

LEMMA AddCommandShape ==
    ASSUME ShapeInv, NEW c \in Callers, AddCommand(c)
    PROVE  ShapeInv'
  <1> DEFINE i == caller[c].model
             p == myPath[i]
             new == [path |-> p, model |-> i, isAnimation |-> FALSE]
  <1>1. caller[c] \in CallerRecords /\ caller[c].pc = "queue"
    BY TypeFacts DEF AddCommand, At
  <1>2. i \in Instances /\ p \in Paths
    BY <1>1, TypeFacts DEF CallerRecords
  <1>3. /\ myLoadCommands' = IF Queued(i) THEN Redirected(myLoadCommands, i, p)
                             ELSE Append(myLoadCommands, new)
        /\ caller' = [caller EXCEPT ![c] = [@ EXCEPT !.pc = "assign", !.result = NoModel]]
        /\ UNCHANGED <<ModelAddMutex, mapVars, instanceVars, myIsLoading, myUserCount, loader,
                       events>>
    BY DEF AddCommand
  <1>4. new \in Commands
    BY <1>2 DEF Commands
  <1>5. myLoadCommands' \in Seq(Commands) /\ myLoadCommands' # <<>>
    <2> HIDE DEF i, p, new
    <2>1. CASE Queued(i)
      <3>1. /\ Redirected(myLoadCommands, i, p) \in Seq(Commands)
            /\ Len(Redirected(myLoadCommands, i, p)) = Len(myLoadCommands)
        BY <1>2, TypeFacts, RedirectedFacts
      <3>2. 1 .. Len(myLoadCommands) # {}
        BY <2>1 DEF Queued, Positions
      <3>3. QED
        BY <1>3, <2>1, <3>1, <3>2, TypeFacts
    <2>2. CASE ~Queued(i)
      <3>1. /\ Append(myLoadCommands, new) \in Seq(Commands)
            /\ Len(Append(myLoadCommands, new)) = Len(myLoadCommands) + 1
        BY <1>4, TypeFacts, AppendFacts
      <3>2. myLoadCommands' = Append(myLoadCommands, new)
        BY <1>3, <2>2
      <3>3. QED
        BY <3>1, <3>2, TypeFacts
    <2>3. QED
      BY <2>1, <2>2
  <1>6. caller' \in [Callers -> CallerRecords] /\ CallersKeepToThemselves'
    BY <1>1, <1>3, AssignIsProper DEF At, instanceVars
  <1>7. ThreadCarriesModel'
    BY <1>3, <1>5, ThreadStays
  <1>8. QED
    BY <1>3, <1>5, <1>6, <1>7
       DEF ShapeInv, TypeOK, CallerRecords, mapVars, instanceVars

LEMMA LoadCustomShape ==
    ASSUME ShapeInv, NEW c \in Callers, LoadCustom(c)
    PROVE  ShapeInv'
  <1> DEFINE p == myPath[caller[c].model]
  <1>1. caller[c] \in CallerRecords /\ caller[c].pc = "queue"
    BY TypeFacts DEF LoadCustom, At
  <1>2. p \in Paths
    BY <1>1, TypeFacts DEF CallerRecords
  <1>3. /\ entries' = entries \cup {p}
        /\ myUserCount' = [myUserCount EXCEPT ![p] =
                              IF p \in entries THEN (@ + 1) % CountModulus ELSE 1]
        /\ caller' = [caller EXCEPT ![c] = [@ EXCEPT !.pc = "assign", !.result = p]]
        /\ UNCHANGED <<queueVars, ModelLoadMutex, instanceVars, myIsLoading, loader, events>>
    BY DEF LoadCustom
  <1> HIDE DEF p
  <1>4. /\ entries' \subseteq Paths /\ myUserCount' \in [Paths -> 0 .. CountModulus - 1]
    <2>1. 1 \in 0 .. CountModulus - 1
      BY ModulusType
    <2>2. QED
      BY <1>2, <1>3, <2>1, TypeFacts, CountTypes
  <1>5. caller' \in [Callers -> CallerRecords] /\ CallersKeepToThemselves'
    BY <1>1, <1>2, <1>3, AssignIsProper DEF At, instanceVars
  <1>6. ThreadCarriesModel'
    BY <1>3, ThreadStays DEF queueVars
  <1>7. QED
    BY <1>3, <1>4, <1>5, <1>6
       DEF ShapeInv, TypeOK, CallerRecords, queueVars, instanceVars

LEMMA AssignShape ==
    ASSUME ShapeInv, NEW c \in Callers, Assign(c)
    PROVE  ShapeInv'
  <1> DEFINE i == caller[c].model
  <1>1. caller[c] \in CallerRecords /\ Proper(c, caller[c], myLoaded) /\ caller[c].pc = "assign"
    BY TypeFacts DEF Assign, At
  <1>2. i \in Instances /\ Owner[i] = c /\ caller[c].result \in Paths \cup {NoModel}
    BY <1>1 DEF CallerRecords, Proper
  <1>3. /\ myModel' = [myModel EXCEPT ![i] = caller[c].result]
        /\ myLoaded' = [myLoaded EXCEPT ![i] = TRUE]
        /\ GoTo(c, "idle")
        /\ events' = events \cup When(myModel[i] # NoModel, "overwritten")
        /\ UNCHANGED <<queueVars, mapVars, myPath, myIsLoading, myUserCount, loader>>
    BY DEF Assign, Note
  <1> HIDE DEF i
  <1>4. myModel' \in [Instances -> Paths \cup {NoModel}] /\ myLoaded' \in [Instances -> BOOLEAN]
    BY <1>2, <1>3, TypeFacts
  <1>5. \A j \in Instances : Owner[j] # c => myLoaded'[j] = myLoaded[j]
    BY <1>2, <1>3, TypeFacts
  <1>6. caller' \in [Callers -> CallerRecords] /\ CallersKeepToThemselves'
    BY <1>1, <1>3, <1>4, <1>5, GoToIsProper DEF At
  <1>7. events' \subseteq Events
    BY <1>3, TypeFacts, EventTypes
  <1>8. ThreadCarriesModel'
    BY <1>3, ThreadStays DEF queueVars
  <1>9. QED
    BY <1>3, <1>4, <1>6, <1>7, <1>8
       DEF ShapeInv, TypeOK, CallerRecords, queueVars, mapVars

LEMMA AddAnimationsShape ==
    ASSUME ShapeInv, NEW c \in Callers, NEW i \in Instances, AddAnimations(c, i)
    PROVE  ShapeInv'
  <1> DEFINE new == [path |-> myPath[i], model |-> i, isAnimation |-> TRUE]
  <1>1. new \in Commands
    BY TypeFacts DEF Commands
  <1>2. myLoadCommands' = Append(myLoadCommands, new)
    BY DEF AddAnimations
  <1> HIDE DEF new
  <1>3. myLoadCommands' \in Seq(Commands) /\ myLoadCommands' # <<>>
    <2>1. /\ Append(myLoadCommands, new) \in Seq(Commands)
          /\ Len(Append(myLoadCommands, new)) = Len(myLoadCommands) + 1
      BY <1>1, TypeFacts, AppendFacts
    <2>2. QED
      BY <1>2, <2>1, TypeFacts
  <1>4. events' \subseteq Events
    BY TypeFacts DEF AddAnimations, Note, When, Events
  <1>5. ThreadCarriesModel'
    BY <1>3, ThreadStays DEF AddAnimations
  <1>6. CallersKeepToThemselves'
    BY DEF AddAnimations, ShapeInv, CallersKeepToThemselves, instanceVars
  <1>7. QED
    BY <1>3, <1>4, <1>5, <1>6
       DEF ShapeInv, TypeOK, CallerRecords, mapVars, instanceVars, AddAnimations

-----------------------------------------------------------------------------
(* The same for the thread.                                                *)

LEMMA CallersStay ==
    ASSUME ShapeInv, UNCHANGED <<caller, myLoaded>>
    PROVE  CallersKeepToThemselves'
  BY DEF ShapeInv, CallersKeepToThemselves

LEMMA CarriedFacts ==
    ASSUME ShapeInv, loader.pc \in Busy
    PROVE  /\ loader.command \in Commands /\ ~loader.command.isAnimation
           /\ loader.command.path \in Paths /\ loader.command.model \in Instances
           /\ loader.count \in 0 .. CountModulus - 1 /\ myIsLoading
  BY TypeFacts DEF ShapeInv, ThreadCarriesModel, Commands, LoaderRecords

LEMMA SeeShape ==
    ASSUME ShapeInv, SeeCommands \/ SeeNothing
    PROVE  ShapeInv'
  <1>1. loader' \in LoaderRecords /\ myIsLoading' \in BOOLEAN
    BY TypeFacts DEF SeeCommands, SeeNothing, LoaderGoesTo, LoaderRecords
  <1>2. ThreadCarriesModel'
    <2>1. CASE SeeCommands
      BY <2>1, TypeFacts
         DEF SeeCommands, LoaderGoesTo, LoaderAt, LoaderRecords, ThreadCarriesModel, Busy,
             queueVars
    <2>2. CASE SeeNothing
      BY <2>2 DEF SeeNothing, LoaderAt, ThreadCarriesModel, Busy
    <2>3. QED
      BY <2>1, <2>2
  <1>3. CallersKeepToThemselves'
    BY CallersStay DEF SeeCommands, SeeNothing, instanceVars
  <1>4. QED
    BY <1>1, <1>2, <1>3
       DEF ShapeInv, TypeOK, LoaderRecords, queueVars, mapVars, instanceVars, SeeCommands,
           SeeNothing

LEMMA TakeCommandShape ==
    ASSUME ShapeInv, TakeCommand
    PROVE  ShapeInv'
  <1>1. PICK k \in ValidCommands :
           /\ myLoadCommands' = RemoveAt(myLoadCommands, k)
           /\ loader' = [loader EXCEPT
                  !.pc = IF myLoadCommands[k].isAnimation THEN "idle" ELSE "lookup",
                  !.command = IF myLoadCommands[k].isAnimation THEN NoCommand
                              ELSE myLoadCommands[k]]
    BY DEF TakeCommand
  <1>2. k \in 1 .. Len(myLoadCommands) /\ myLoadCommands[k] \in Commands
    BY <1>1, TypeFacts DEF ValidCommands, Positions
  <1>3. /\ loader' \in LoaderRecords
        /\ loader'.pc = IF myLoadCommands[k].isAnimation THEN "idle" ELSE "lookup"
        /\ ~myLoadCommands[k].isAnimation => loader'.command = myLoadCommands[k]
    BY <1>1, <1>2, TypeFacts DEF LoaderRecords
  <1>4. myLoadCommands' \in Seq(Commands)
    BY <1>1, <1>2, TypeFacts, RemoveAtFacts
  <1>5. myIsLoading /\ myIsLoading'
    BY DEF TakeCommand, ShapeInv, ThreadCarriesModel, LoaderAt
  <1>6. ThreadCarriesModel'
    BY <1>2, <1>3, <1>5 DEF ThreadCarriesModel, LoaderAt, Busy
  <1>7. CallersKeepToThemselves'
    BY CallersStay DEF TakeCommand, instanceVars
  <1>8. QED
    BY <1>3, <1>4, <1>6, <1>7
       DEF ShapeInv, TypeOK, LoaderRecords, mapVars, instanceVars, TakeCommand

LEMMA DropAnimationsShape ==
    ASSUME ShapeInv, DropAnimations
    PROVE  ShapeInv'
  <1>1. loader' \in LoaderRecords /\ loader'.pc = "idle"
    BY TypeFacts DEF DropAnimations, LoaderGoesTo, LoaderRecords
  <1>2. ThreadCarriesModel'
    BY <1>1 DEF ThreadCarriesModel, LoaderAt, Busy
  <1>3. myLoadCommands' \in Seq(Commands) /\ ModelAddMutex' \in {NoCaller, "loader"}
    BY DEF DropAnimations
  <1>4. CallersKeepToThemselves'
    BY CallersStay DEF DropAnimations, instanceVars
  <1>5. QED
    BY <1>1, <1>2, <1>3, <1>4
       DEF ShapeInv, TypeOK, LoaderRecords, mapVars, instanceVars, DropAnimations

LEMMA LookUpShape ==
    ASSUME ShapeInv, LookUp \/ CreateEntry
    PROVE  ShapeInv'
  <1>1. loader.pc \in Busy
    BY DEF LookUp, CreateEntry, LoaderAt, Busy
  <1>2. /\ loader' \in LoaderRecords /\ loader'.pc \in {"add", "create", "load"}
        /\ loader'.command = loader.command
    <2>1. CASE LookUp
      <3>1. myUserCount[loader.command.path] \in 0 .. CountModulus - 1
        BY <1>1, CarriedFacts, TypeFacts
      <3>2. QED
        BY <2>1, <3>1, TypeFacts DEF LookUp, LoaderRecords
    <2>2. CASE CreateEntry
      BY <2>2, TypeFacts DEF CreateEntry, LoaderGoesTo, LoaderRecords
    <2>3. QED
      BY <2>1, <2>2
  <1>3. entries' \subseteq Paths
    BY <1>1, CarriedFacts, TypeFacts DEF LookUp, CreateEntry, mapVars
  <1>4. ThreadCarriesModel'
    BY <1>1, <1>2, CarriedFacts
       DEF ThreadCarriesModel, LoaderAt, Busy, LookUp, CreateEntry, instanceVars
  <1>5. CallersKeepToThemselves'
    BY CallersStay DEF LookUp, CreateEntry, instanceVars
  <1>6. QED
    BY <1>2, <1>3, <1>4, <1>5
       DEF ShapeInv, TypeOK, LoaderRecords, queueVars, mapVars, instanceVars, LookUp, CreateEntry

LEMMA DeliverShape ==
    ASSUME ShapeInv, loader.pc \in Busy, NEW users \in 0 .. CountModulus - 1,
           NEW accidents, accidents \subseteq Events, Deliver(users, accidents)
    PROVE  ShapeInv'
  <1> DEFINE p == loader.command.path  i == loader.command.model
  <1>1. p \in Paths /\ i \in Instances
    BY CarriedFacts
  <1>2. /\ myUserCount' = [myUserCount EXCEPT ![p] = users]
        /\ myModel' = [myModel EXCEPT ![i] = p]
        /\ loader' = [pc |-> "idle", command |-> NoCommand, count |-> 0]
        /\ events' = events \cup (accidents \cup When(myPath[i] # p, "late"))
        /\ UNCHANGED <<queueVars, mapVars, myPath, myLoaded, myIsLoading, caller>>
    BY DEF Deliver, Note
  <1> HIDE DEF p, i
  <1>3. /\ myUserCount' \in [Paths -> 0 .. CountModulus - 1]
        /\ myModel' \in [Instances -> Paths \cup {NoModel}]
    BY <1>1, <1>2, TypeFacts
  <1>4. events' \subseteq Events
    BY <1>2, TypeFacts DEF When, Events
  <1>5. loader' \in LoaderRecords
    BY <1>2, ModulusType DEF LoaderRecords
  <1>6. ThreadCarriesModel'
    BY <1>2 DEF ThreadCarriesModel, LoaderAt, Busy
  <1>7. CallersKeepToThemselves'
    BY <1>2, CallersStay
  <1>8. QED
    BY <1>2, <1>3, <1>4, <1>5, <1>6, <1>7
       DEF ShapeInv, TypeOK, LoaderRecords, queueVars, mapVars

LEMMA AnswerShape ==
    ASSUME ShapeInv, AddUser \/ FinishLoad \/ FailLoad
    PROVE  ShapeInv'
  <1>1. loader.pc \in Busy
    BY DEF AddUser, FinishLoad, FailLoad, LoaderAt, Busy
  <1>2. CASE AddUser
    <2>1. (loader.count + 1) % CountModulus \in 0 .. CountModulus - 1
      <3>1. loader.count + 1 \in Int
        BY <1>1, CarriedFacts, ModulusType
      <3>2. QED
        BY <3>1, ModType
    <2>2. When(myUserCount[loader.command.path] # loader.count, "lost") \subseteq Events
      BY DEF When, Events
    <2>3. QED
      BY <1>1, <1>2, <2>1, <2>2, DeliverShape DEF AddUser
  <1>3. CASE FinishLoad
    <2>1. 1 \in 0 .. CountModulus - 1
      BY ModulusType
    <2>2. When(myUserCount[loader.command.path] # 0, "reset") \subseteq Events
      BY DEF When, Events
    <2>3. QED
      BY <1>1, <1>3, <2>1, <2>2, DeliverShape DEF FinishLoad
  <1>4. CASE FailLoad
    <2>1. loader' \in LoaderRecords /\ loader'.pc = "idle"
      BY <1>4, ModulusType DEF FailLoad, LoaderRecords
    <2>2. ThreadCarriesModel'
      BY <2>1 DEF ThreadCarriesModel, LoaderAt, Busy
    <2>3. events' \subseteq Events
      BY <1>4, TypeFacts, EventTypes DEF FailLoad, Note
    <2>4. CallersKeepToThemselves'
      BY <1>4, CallersStay DEF FailLoad, instanceVars
    <2>5. QED
      BY <1>4, <2>1, <2>2, <2>3, <2>4
         DEF ShapeInv, TypeOK, LoaderRecords, queueVars, mapVars, instanceVars, FailLoad
  <1>5. QED
    BY <1>2, <1>3, <1>4

\* The calls that begin with Release.
LEMMA CallReleases ==
    ASSUME ShapeInv, NEW c \in Callers, Calls(c)
    PROVE  \E i \in Instances :
               \/ AddAnimations(c, i)
               \/ \E next, other : /\ Onward(c, next, other) /\ StartRelease(c, i, next, other)
                                   /\ next \in {"get", "copy"} => FewUsers
  <1>1. PICK i \in Instances : \/ Load(c, i) \/ Release(c, i) \/ AddAnimations(c, i)
                               \/ \E p \in Paths : StartInit(c, i, p)
                               \/ \E j \in Instances : StartCopy(c, i, j)
    BY DEF Calls
  <1>2. CASE Load(c, i)
    BY <1>2 DEF Load, Onward
  <1>3. CASE Release(c, i)
    BY <1>3 DEF Release, Onward
  <1>4. CASE \E p \in Paths : StartInit(c, i, p)
    BY <1>4 DEF StartInit, Onward
  <1>5. CASE \E j \in Instances : StartCopy(c, i, j)
    BY <1>5 DEF StartCopy, Onward
  <1>6. QED
    BY <1>1, <1>2, <1>3, <1>4, <1>5

LEMMA NextShapeInv == ShapeInv /\ [Next]_vars => ShapeInv'
  <1> SUFFICES ASSUME ShapeInv, [Next]_vars PROVE ShapeInv'
    OBVIOUS
  <1>1. CASE LoadThreaded
    BY <1>1, SeeShape, TakeCommandShape, DropAnimationsShape, LookUpShape, AnswerShape
       DEF LoadThreaded
  <1>2. ASSUME NEW c \in Callers, Calls(c)
        PROVE  ShapeInv'
    BY <1>2, CallReleases, AddAnimationsShape, StartReleaseShape
  <1>3. ASSUME NEW c \in Callers, Returns(c)
        PROVE  ShapeInv'
    BY <1>3, UnloadModelShape, InitInstanceShape, CopyInstanceShape, GetShape,
       AddCommandShape, LoadCustomShape, AssignShape DEF Returns
  <1>4. CASE UNCHANGED vars
    BY <1>4 DEF ShapeInv, TypeOK, CallersKeepToThemselves, ThreadCarriesModel, LoaderAt, vars,
                queueVars, mapVars, instanceVars
  <1>5. QED
    BY <1>1, <1>2, <1>3, <1>4 DEF Next

LEMMA ShapeInvariant == Spec => []ShapeInv
  BY InitShapeInv, NextShapeInv, PTL DEF Spec

-----------------------------------------------------------------------------
(* The second layer: the commands.                                         *)

\* The accidents that excuse what is said of loads and of animations.
LoadAccidents == {"overwritten", "failed"}
LockAccidents == {"orphaned", "failed", "overwritten"}

LEMMA HappenedStays ==
    ASSUME NEW E, events \subseteq events'
    PROVE  Happened(E) => Happened(E)'
  BY DEF Happened

LEMMA QueueFacts ==
    ASSUME QueueInv
    PROVE  /\ CommandsDiffer /\ NoCustomCommands
           /\ ~Happened(LoadAccidents) =>
                  /\ \A c \in Callers : At(c, "assign") /\ caller[c].result = NoModel =>
                         Pending(caller[c].model) \/ myModel[caller[c].model] # NoModel
                  /\ \A i \in Instances : myLoaded[i] /\ myModel[i] = NoModel => Pending(i)
           /\ ~Happened(LockAccidents) =>
                  /\ \A i \in Instances : Animated(i) => myModel[i] # NoModel \/ Pending(i)
                  /\ \A c \in Callers : At(c, "unload") \/ At(c, "copy") =>
                         ~Animated(caller[c].model)
                  /\ ModelAddMutex # "loader"
  BY DEF QueueInv, WaitersAreServed, AnimationsHaveModels, LoadsAreRemembered, LockIsReturned,
         LoadAccidents, LockAccidents

LEMMA QueueInvAgain ==
    ASSUME CommandsDiffer', NoCustomCommands',
           ~Happened(LoadAccidents)' =>
               /\ \A c \in Callers : At(c, "assign")' /\ caller'[c].result = NoModel =>
                      Pending(caller[c].model)' \/ myModel'[caller'[c].model] # NoModel
               /\ \A i \in Instances : myLoaded'[i] /\ myModel'[i] = NoModel => Pending(i)',
           ~Happened(LockAccidents)' =>
               /\ \A i \in Instances : Animated(i)' => myModel'[i] # NoModel \/ Pending(i)'
               /\ \A c \in Callers : At(c, "unload")' \/ At(c, "copy")' =>
                      ~Animated(caller[c].model)'
               /\ ModelAddMutex' # "loader"
    PROVE  QueueInv'
  BY DEF QueueInv, WaitersAreServed, AnimationsHaveModels, LoadsAreRemembered, LockIsReturned,
         LoadAccidents, LockAccidents

\* A step that leaves the queue and what the thread carries alone.
SameQueue ==
    /\ UNCHANGED <<myLoadCommands, ModelAddMutex>>
    /\ loader'.command = loader.command /\ (loader'.pc \in Busy <=> loader.pc \in Busy)
    /\ events \subseteq events'

LEMMA SameQueueKeeps ==
    ASSUME SameQueue
    PROVE  /\ \A i : (Queued(i)' <=> Queued(i)) /\ (Animated(i)' <=> Animated(i))
                     /\ (Pending(i)' <=> Pending(i))
           /\ CommandsDiffer => CommandsDiffer'
           /\ NoCustomCommands => NoCustomCommands'
  <1>1. ASSUME NEW i
        PROVE (Queued(i)' <=> Queued(i)) /\ (Animated(i)' <=> Animated(i))
    BY DEF SameQueue, Queued, Animated
  <1>2. ASSUME NEW i PROVE Carried(i)' <=> Carried(i)
    BY DEF SameQueue, Carried, Busy
  <1>3. CommandsDiffer => CommandsDiffer'
    BY DEF SameQueue, CommandsDiffer
  <1>4. NoCustomCommands => NoCustomCommands'
    BY DEF SameQueue, NoCustomCommands
  <1>5. QED
    BY <1>1, <1>2, <1>3, <1>4 DEF Pending

LEMMA ThreadKeepsQueueInv ==
    ASSUME QueueInv, SameQueue, UNCHANGED <<caller, myModel, myLoaded>>
    PROVE  QueueInv'
  <1>1. \A E : Happened(E) => Happened(E)'
    BY HappenedStays DEF SameQueue
  <1>2. \A c \in Callers : \A pc : At(c, pc)' <=> At(c, pc)
    BY DEF At
  <1>3. \A c \in Callers : /\ Pending(caller[c].model)' <=> Pending(caller[c].model)
                           /\ Animated(caller[c].model)' <=> Animated(caller[c].model)
    <2> TAKE c \in Callers
    <2> DEFINE i == caller[c].model
    <2>1. (Pending(i)' <=> Pending(i)) /\ (Animated(i)' <=> Animated(i))
      BY DEF SameQueue, Pending, Queued, Carried, Animated, Busy
    <2>2. QED
      BY <2>1
  <1>4. ModelAddMutex' = ModelAddMutex
    BY DEF SameQueue
  <1>5. QED
    BY <1>1, <1>2, <1>3, <1>4, SameQueueKeeps, QueueFacts, QueueInvAgain

\* A step of a caller that works on instance i, and leaves the others alone.
OthersStay(c, i) ==
    /\ Owner[i] = c
    /\ \A d \in Callers \ {c} : caller'[d] = caller[d]
    /\ \A j \in Instances \ {i} : myModel'[j] = myModel[j] /\ myLoaded'[j] = myLoaded[j]

\* What the step has to show for its own instance.
OwnKept(c, i) ==
    /\ ~Happened(LoadAccidents)' =>
           /\ At(c, "assign")' /\ caller'[c].result = NoModel =>
                  Pending(caller'[c].model) \/ myModel'[caller'[c].model] # NoModel
           /\ myLoaded'[i] /\ myModel'[i] = NoModel => Pending(i)
    /\ ~Happened(LockAccidents)' =>
           /\ Animated(i) => myModel'[i] # NoModel \/ Pending(i)
           /\ At(c, "unload")' \/ At(c, "copy")' => ~Animated(caller'[c].model)

LEMMA OwnModel ==
    ASSUME ShapeInv, NEW c \in Callers
    PROVE  caller[c].model \in Instances /\ Owner[caller[c].model] = c
  BY TypeFacts DEF Proper, CallerRecords

LEMMA CallerKeepsQueueInv ==
    ASSUME ShapeInv, QueueInv, SameQueue, NEW c \in Callers, NEW i \in Instances,
           OthersStay(c, i), OwnKept(c, i)
    PROVE  QueueInv'
  <1>1. \A E : Happened(E) => Happened(E)'
    BY HappenedStays DEF SameQueue
  <1>2. ASSUME NEW d \in Callers, d # c
        PROVE  /\ \A pc : At(d, pc)' <=> At(d, pc)
               /\ caller'[d] = caller[d] /\ myModel'[caller'[d].model] = myModel[caller[d].model]
               /\ Pending(caller[d].model)' <=> Pending(caller[d].model)
               /\ Animated(caller[d].model)' <=> Animated(caller[d].model)
    <2>1. caller'[d] = caller[d]
      BY <1>2 DEF OthersStay
    <2>2. caller[d].model \in Instances \ {i}
      BY <1>2, OwnModel DEF OthersStay
    <2>3. myModel'[caller'[d].model] = myModel[caller[d].model]
      BY <2>1, <2>2 DEF OthersStay
    <2>4. /\ Pending(caller[d].model)' <=> Pending(caller[d].model)
          /\ Animated(caller[d].model)' <=> Animated(caller[d].model)
      BY <2>1 DEF SameQueue, Pending, Queued, Carried, Animated, Busy
    <2>5. QED
      BY <2>1, <2>3, <2>4 DEF At
  <1>3. /\ Pending(caller[c].model)' <=> Pending(caller'[c].model)
        /\ Animated(caller[c].model)' <=> Animated(caller'[c].model)
    BY DEF SameQueue, Pending, Queued, Carried, Animated, Busy
  <1>4. CommandsDiffer' /\ NoCustomCommands' /\ ModelAddMutex' = ModelAddMutex
    BY SameQueueKeeps, QueueFacts DEF SameQueue
  <1>5. ASSUME ~Happened(LoadAccidents)'
        PROVE  /\ \A d \in Callers : At(d, "assign")' /\ caller'[d].result = NoModel =>
                      Pending(caller[d].model)' \/ myModel'[caller'[d].model] # NoModel
               /\ \A j \in Instances : myLoaded'[j] /\ myModel'[j] = NoModel => Pending(j)'
    <2>1. ~Happened(LoadAccidents)
      BY <1>1, <1>5
    <2>2. ASSUME NEW d \in Callers, At(d, "assign")', caller'[d].result = NoModel
          PROVE  Pending(caller[d].model)' \/ myModel'[caller'[d].model] # NoModel
      <3>1. CASE d = c
        BY <1>3, <1>5, <2>2, <3>1 DEF OwnKept
      <3>2. CASE d # c
        BY <1>2, <2>1, <2>2, <3>2, QueueFacts
      <3>3. QED
        BY <3>1, <3>2
    <2>3. ASSUME NEW j \in Instances, myLoaded'[j], myModel'[j] = NoModel
          PROVE  Pending(j)'
      <3>1. Pending(j)
        BY <1>5, <2>1, <2>3, QueueFacts DEF OwnKept, OthersStay
      <3>2. QED
        BY <3>1, SameQueueKeeps
    <2>4. QED
      BY <2>2, <2>3
  <1>6. ASSUME ~Happened(LockAccidents)'
        PROVE  /\ \A j \in Instances : Animated(j)' => myModel'[j] # NoModel \/ Pending(j)'
               /\ \A d \in Callers : At(d, "unload")' \/ At(d, "copy")' =>
                      ~Animated(caller[d].model)'
               /\ ModelAddMutex' # "loader"
    <2>1. ~Happened(LockAccidents)
      BY <1>1, <1>6
    <2>2. ASSUME NEW j \in Instances, Animated(j)'
          PROVE  myModel'[j] # NoModel \/ Pending(j)'
      <3>1. Animated(j)
        BY <2>2, SameQueueKeeps
      <3>2. myModel'[j] # NoModel \/ Pending(j)
        BY <1>6, <2>1, <3>1, QueueFacts DEF OwnKept, OthersStay
      <3>3. QED
        BY <3>2, SameQueueKeeps
    <2>3. ASSUME NEW d \in Callers, At(d, "unload")' \/ At(d, "copy")'
          PROVE  ~Animated(caller[d].model)'
      <3>1. CASE d = c
        BY <1>3, <1>6, <2>3, <3>1 DEF OwnKept
      <3>2. CASE d # c
        BY <1>2, <2>1, <2>3, <3>2, QueueFacts
      <3>3. QED
        BY <3>1, <3>2
    <2>4. QED
      BY <1>4, <2>1, <2>2, <2>3, QueueFacts
  <1>7. QED
    BY <1>4, <1>5, <1>6, QueueInvAgain

LEMMA StartReleaseQueue ==
    ASSUME ShapeInv, QueueInv, NEW c \in Callers, NEW i \in Instances, NEW next, NEW other,
           Onward(c, next, other), StartRelease(c, i, next, other)
    PROVE  QueueInv'
  <1> DEFINE p == myModel[i]
             users == IF p = NoModel THEN 1 ELSE (myUserCount[p] - 1) % CountModulus
             last == p # NoModel /\ Unused(users)
             r == IF ~last /\ next = "idle" THEN Idle(c)
                  ELSE [caller[c] EXCEPT !.pc = IF last THEN "unload" ELSE next,
                                         !.model = i, !.next = next, !.other = other]
             orphans == Animated(i) /\ (next # "get" \/ myModel[i] # NoModel)
  <1>1. /\ caller' = [caller EXCEPT ![c] = r] /\ Owner[i] = c
        /\ myModel' = IF last THEN myModel ELSE [myModel EXCEPT ![i] = NoModel]
        /\ myLoaded' = [myLoaded EXCEPT ![i] = FALSE]
        /\ events' = events \cup When(orphans, "orphaned")
        /\ UNCHANGED <<queueVars, mapVars, myPath, myIsLoading, loader>>
    BY DEF StartRelease, Note
  <1>2. last => p # NoModel
    OBVIOUS
  <1>3. /\ r.pc \in {"idle", "unload", "init", "copy", "get"}
        /\ r.pc = "unload" => last /\ r.model = i
        /\ r.pc = "copy" => next = "copy" /\ r.model = i
    <2>1. CASE ~last /\ next = "idle"
      BY <2>1, IdleIsProper
    <2>2. CASE ~(~last /\ next = "idle")
      <3>1. caller[c] \in CallerRecords
        BY TypeFacts
      <3> HIDE DEF last
      <3>2. r.pc = (IF last THEN "unload" ELSE next) /\ r.model = i
        BY <2>2, <3>1 DEF CallerRecords
      <3>3. QED
        BY <3>2 DEF Onward
    <2>3. QED
      BY <2>1, <2>2
  <1> HIDE DEF r, last, users
  <1>4. orphans => Happened(LockAccidents)'
    BY <1>1 DEF Happened, When, LockAccidents
  <1>5. SameQueue
    BY <1>1 DEF SameQueue, queueVars
  <1>6. caller'[c] = r /\ myLoaded'[i] = FALSE /\ (~last => myModel'[i] = NoModel)
        /\ (last => myModel'[i] = p)
    BY <1>1, TypeFacts
  <1>7. OthersStay(c, i)
    BY <1>1, TypeFacts DEF OthersStay
  <1>8. OwnKept(c, i)
    <2>1. ~At(c, "assign")'
      BY <1>3, <1>6 DEF At
    <2>2. ASSUME ~Happened(LockAccidents)', Animated(i)
          PROVE  myModel'[i] # NoModel \/ Pending(i)
      <3>1. ~Happened(LockAccidents)
        BY <1>5, <2>2, HappenedStays DEF SameQueue
      <3>2. myModel[i] = NoModel
        BY <1>4, <2>2
      <3>3. QED
        BY <2>2, <3>1, <3>2, QueueFacts
    <2>3. ASSUME ~Happened(LockAccidents)', At(c, "unload")' \/ At(c, "copy")'
          PROVE  ~Animated(caller'[c].model)
      <3>1. ~orphans
        BY <1>4, <2>3
      <3>2. r.model = i /\ (p # NoModel \/ next # "get")
        BY <1>2, <1>3, <1>6, <2>3 DEF At
      <3>3. QED
        BY <1>6, <3>1, <3>2
    <2>4. QED
      BY <1>6, <2>1, <2>2, <2>3 DEF OwnKept
  <1>9. QED
    BY <1>5, <1>7, <1>8, CallerKeepsQueueInv

LEMMA GoToFacts ==
    ASSUME ShapeInv, NEW c \in Callers, NEW pc, GoTo(c, pc)
    PROVE  /\ caller'[c].pc = pc /\ (pc # "idle" => caller'[c].model = caller[c].model)
           /\ \A d \in Callers \ {c} : caller'[d] = caller[d]
  <1>1. caller[c] \in CallerRecords
    BY TypeFacts
  <1>2. /\ caller'[c] = IF pc = "idle" THEN Idle(c) ELSE [caller[c] EXCEPT !.pc = pc]
        /\ \A d \in Callers \ {c} : caller'[d] = caller[d]
    BY TypeFacts DEF GoTo
  <1>3. QED
    BY <1>1, <1>2, IdleIsProper DEF CallerRecords

LEMMA UnloadModelQueue ==
    ASSUME ShapeInv, QueueInv, NEW c \in Callers, UnloadModel(c)
    PROVE  QueueInv'
  <1> DEFINE i == caller[c].model
  <1>1. /\ At(c, "unload") /\ i \in Instances /\ Owner[i] = c /\ ~myLoaded[i]
        /\ caller[c].next \in {"idle", "init", "copy", "get"}
    BY OwnModel, TypeFacts DEF UnloadModel, At, Proper, CallerRecords
  <1>2. SameQueue
    BY DEF UnloadModel, SameQueue, queueVars, Note
  <1>3. myModel' = [myModel EXCEPT ![i] = NoModel] /\ myLoaded' = myLoaded
        /\ GoTo(c, caller[c].next)
    BY DEF UnloadModel
  <1>4. OthersStay(c, i)
    BY <1>1, <1>3, TypeFacts, GoToFacts DEF OthersStay
  <1>5. ~Happened(LockAccidents)' => ~Animated(i)
    BY <1>1, <1>2, HappenedStays, QueueFacts DEF SameQueue
  <1>6. caller'[c].pc = caller[c].next /\ (caller[c].next # "idle" => caller'[c].model = i)
    BY <1>3, GoToFacts
  <1>7. OwnKept(c, i)
    BY <1>1, <1>3, <1>5, <1>6 DEF OwnKept, At
  <1>8. QED
    BY <1>1, <1>2, <1>4, <1>7, CallerKeepsQueueInv

LEMMA InitInstanceQueue ==
    ASSUME ShapeInv, QueueInv, NEW c \in Callers, InitInstance(c)
    PROVE  QueueInv'
  <1> DEFINE i == caller[c].model
  <1>1. i \in Instances /\ Owner[i] = c
    BY OwnModel
  <1>2. SameQueue
    BY DEF InitInstance, SameQueue, queueVars, Note
  <1>3. myModel' = myModel /\ myLoaded' = myLoaded /\ GoTo(c, "idle")
    BY DEF InitInstance
  <1>4. OthersStay(c, i) /\ caller'[c].pc = "idle"
    BY <1>1, <1>3, GoToFacts DEF OthersStay
  <1>5. OwnKept(c, i)
    <2>1. ~Happened(LoadAccidents)' => ~Happened(LoadAccidents)
      BY <1>2, HappenedStays DEF SameQueue
    <2>2. ~Happened(LockAccidents)' => ~Happened(LockAccidents)
      BY <1>2, HappenedStays DEF SameQueue
    <2>3. QED
      BY <1>1, <1>3, <1>4, <2>1, <2>2, QueueFacts DEF OwnKept, At
  <1>6. QED
    BY <1>1, <1>2, <1>4, <1>5, CallerKeepsQueueInv

LEMMA CopyInstanceQueue ==
    ASSUME ShapeInv, QueueInv, NEW c \in Callers, CopyInstance(c)
    PROVE  QueueInv'
  <1> DEFINE i == caller[c].model  from == caller[c].other
  <1>1. i \in Instances /\ Owner[i] = c /\ At(c, "copy")
    BY OwnModel DEF CopyInstance
  <1>2. SameQueue
    BY DEF CopyInstance, SameQueue, queueVars
  <1>3. /\ myModel' = [myModel EXCEPT ![i] = myModel[from]]
        /\ myLoaded' = [myLoaded EXCEPT ![i] = myLoaded[from] /\ myModel[from] # NoModel]
        /\ GoTo(c, "idle")
    BY DEF CopyInstance
  <1> HIDE DEF i, from
  <1>4. OthersStay(c, i) /\ caller'[c].pc = "idle"
    BY <1>1, <1>3, GoToFacts, TypeFacts DEF OthersStay
  <1>5. ~Happened(LockAccidents)' => ~Animated(i)
    BY <1>1, <1>2, HappenedStays, QueueFacts DEF SameQueue, i
  <1>6. myLoaded'[i] => myModel'[i] # NoModel
    BY <1>1, <1>3, TypeFacts
  <1>7. OwnKept(c, i)
    BY <1>4, <1>5, <1>6 DEF OwnKept, At
  <1>8. QED
    BY <1>1, <1>2, <1>4, <1>7, CallerKeepsQueueInv

\* The caller is given a counted user, or is on its way into the queue.
LEMMA ResultFacts ==
    ASSUME ShapeInv, NEW c \in Callers, NEW p \in Paths \cup {NoModel},
           caller' = [caller EXCEPT ![c] = [@ EXCEPT !.pc = "assign", !.result = p]]
    PROVE  /\ caller'[c].pc = "assign" /\ caller'[c].result = p
           /\ caller'[c].model = caller[c].model
           /\ \A d \in Callers \ {c} : caller'[d] = caller[d]
  <1> DEFINE r == [caller[c] EXCEPT !.pc = "assign", !.result = p]
  <1>1. caller[c] \in CallerRecords
    BY TypeFacts
  <1>2. r.pc = "assign" /\ r.result = p /\ r.model = caller[c].model
    BY <1>1 DEF CallerRecords
  <1>3. caller'[c] = r /\ \A d \in Callers \ {c} : caller'[d] = caller[d]
    BY TypeFacts
  <1>4. QED
    BY <1>2, <1>3

LEMMA GetQueue ==
    ASSUME ShapeInv, QueueInv, NEW c \in Callers, GetFound(c) \/ GetMissed(c) \/ LoadCustom(c)
    PROVE  QueueInv'
  <1> DEFINE i == caller[c].model  p == myPath[i]
  <1>1. i \in Instances /\ Owner[i] = c /\ p \in Paths /\ p # NoModel
    BY OwnModel, TypeFacts, Names
  <1>2. SameQueue
    BY DEF GetFound, GetMissed, LoadCustom, SameQueue, queueVars
  <1>3. myModel' = myModel /\ myLoaded' = myLoaded
    BY DEF GetFound, GetMissed, LoadCustom, instanceVars
  <1> HIDE DEF i, p
  <1>4. /\ caller'[c].pc \in {"assign", "queue"} /\ caller'[c].model = i
        /\ caller'[c].pc = "assign" => caller'[c].result = p
        /\ \A d \in Callers \ {c} : caller'[d] = caller[d]
    <2>1. CASE GetFound(c) \/ LoadCustom(c)
      BY <1>1, <2>1, ResultFacts DEF GetFound, LoadCustom, p, i
    <2>2. CASE GetMissed(c)
      BY <2>2, GoToFacts DEF GetMissed, i
    <2>3. QED
      BY <2>1, <2>2
  <1>5. OthersStay(c, i)
    BY <1>1, <1>3, <1>4 DEF OthersStay
  <1>6. OwnKept(c, i)
    <2>1. ~Happened(LoadAccidents)' => ~Happened(LoadAccidents)
      BY <1>2, HappenedStays DEF SameQueue
    <2>2. ~Happened(LockAccidents)' => ~Happened(LockAccidents)
      BY <1>2, HappenedStays DEF SameQueue
    <2>3. QED
      BY <1>1, <1>3, <1>4, <2>1, <2>2, QueueFacts DEF OwnKept, At
  <1>7. QED
    BY <1>1, <1>2, <1>5, <1>6, CallerKeepsQueueInv

LEMMA AssignQueue ==
    ASSUME ShapeInv, QueueInv, NEW c \in Callers, Assign(c)
    PROVE  QueueInv'
  <1> DEFINE i == caller[c].model
  <1>1. i \in Instances /\ Owner[i] = c /\ At(c, "assign")
    BY OwnModel DEF Assign
  <1>2. SameQueue
    BY DEF Assign, SameQueue, queueVars, Note
  <1>3. /\ myModel' = [myModel EXCEPT ![i] = caller[c].result]
        /\ myLoaded' = [myLoaded EXCEPT ![i] = TRUE] /\ GoTo(c, "idle")
        /\ events' = events \cup When(myModel[i] # NoModel, "overwritten")
    BY DEF Assign, Note
  <1> HIDE DEF i
  <1>4. OthersStay(c, i) /\ caller'[c].pc = "idle"
    BY <1>1, <1>3, GoToFacts, TypeFacts DEF OthersStay
  <1>5. myModel[i] # NoModel => Happened(LoadAccidents)' /\ Happened(LockAccidents)'
    BY <1>3 DEF When, Happened, LoadAccidents, LockAccidents
  <1>6. myModel'[i] = caller[c].result
    BY <1>1, <1>3, TypeFacts
  <1>7. OwnKept(c, i)
    <2>1. ~Happened(LoadAccidents)' /\ caller[c].result = NoModel => Pending(i)
      BY <1>1, <1>2, <1>5, HappenedStays, QueueFacts DEF SameQueue, i
    <2>2. ~Happened(LockAccidents)' /\ Animated(i) => Pending(i)
      BY <1>1, <1>2, <1>5, HappenedStays, QueueFacts DEF SameQueue
    <2>3. QED
      BY <1>4, <1>6, <2>1, <2>2 DEF OwnKept, At
  <1>8. QED
    BY <1>1, <1>2, <1>4, <1>7, CallerKeepsQueueInv

\* What a changed queue holds: of which instances, and of which kind.
LEMMA AddCommandMoves ==
    ASSUME ShapeInv, QueueInv, NEW c \in Callers, AddCommand(c)
    PROVE  LET i == caller[c].model
           IN  /\ CommandsDiffer' /\ NoCustomCommands'
               /\ \A j : /\ Queued(j)' <=> Queued(j) \/ j = i
                         /\ Animated(j)' <=> Animated(j)
                         /\ Pending(j)' <=> Pending(j) \/ j = i
  <1> DEFINE i == caller[c].model
             p == myPath[i]
             new == [path |-> p, model |-> i, isAnimation |-> FALSE]
             s == myLoadCommands
             t == myLoadCommands'
  <1>1. i \in Instances /\ p \in Paths /\ Kind[p] # "custom" /\ new \in Commands
    BY OwnModel, TypeFacts DEF AddCommand, Commands
  <1>2. /\ Queued(i) => t = Redirected(s, i, p)
        /\ ~Queued(i) => t = Append(s, new)
    BY DEF AddCommand
  <1>3. new.path = p /\ new.model = i /\ ~new.isAnimation
    OBVIOUS
  <1>4. s \in Seq(Commands) /\ CommandsDiffer /\ NoCustomCommands
    BY TypeFacts, QueueFacts
  <1>5. loader' = loader
    BY DEF AddCommand
  <1> HIDE DEF i, p, new
  <1>6. CASE Queued(i)
    <2>1. /\ Len(t) = Len(s)
          /\ \A j \in 1 .. Len(s) : /\ t[j].model = s[j].model
                                    /\ t[j].isAnimation = s[j].isAnimation
                                    /\ t[j].path \in {s[j].path, p}
      BY <1>1, <1>2, <1>4, <1>6, RedirectedFacts
    <2>2. CommandsDiffer'
      BY <1>4, <2>1 DEF CommandsDiffer, Positions
    <2>3. NoCustomCommands'
      BY <1>1, <1>4, <1>5, <2>1 DEF NoCustomCommands, Positions
    <2>4. ASSUME NEW j
          PROVE  (Queued(j)' <=> Queued(j) \/ j = i) /\ (Animated(j)' <=> Animated(j))
      BY <1>6, <2>1 DEF Queued, Animated, Positions
    <2>5. ASSUME NEW j PROVE Pending(j)' <=> Pending(j) \/ j = i
      BY <1>5, <2>4 DEF Pending, Carried
    <2>6. QED
      BY <2>2, <2>3, <2>4, <2>5 DEF i
  <1>7. CASE ~Queued(i)
    <2>1. /\ Len(t) = Len(s) + 1 /\ t[Len(s) + 1] = new
          /\ \A j \in 1 .. Len(s) : t[j] = s[j]
          /\ Len(s) \in Nat
      BY <1>1, <1>2, <1>4, <1>7, AppendFacts
    <2>2. 1 .. Len(t) = 1 .. Len(s) \cup {Len(s) + 1}
      BY <2>1
    <2>3. CommandsDiffer'
      <3> SUFFICES ASSUME NEW j \in 1 .. Len(t), NEW k \in 1 .. Len(t),
                          ~t[j].isAnimation, ~t[k].isAnimation, t[j].model = t[k].model
                   PROVE  j = k
        BY DEF CommandsDiffer, Positions
      <3>1. \A l \in 1 .. Len(s) : ~s[l].isAnimation => s[l].model # i
        BY <1>7 DEF Queued, Positions
      <3>2. QED
        BY <1>3, <1>4, <2>1, <2>2, <3>1 DEF CommandsDiffer, Positions
    <2>4. NoCustomCommands'
      BY <1>1, <1>3, <1>4, <1>5, <2>1, <2>2 DEF NoCustomCommands, Positions
    <2>5. ASSUME NEW j
          PROVE  (Queued(j)' <=> Queued(j) \/ j = i) /\ (Animated(j)' <=> Animated(j))
      BY <1>3, <2>1, <2>2 DEF Queued, Animated, Positions
    <2>6. ASSUME NEW j PROVE Pending(j)' <=> Pending(j) \/ j = i
      BY <1>5, <2>5 DEF Pending, Carried
    <2>7. QED
      BY <2>3, <2>4, <2>5, <2>6 DEF i
  <1>8. QED
    BY <1>6, <1>7

LEMMA AddCommandQueue ==
    ASSUME ShapeInv, QueueInv, NEW c \in Callers, AddCommand(c)
    PROVE  QueueInv'
  <1> PICK i : i = caller[c].model
    OBVIOUS
  <1>1. i \in Instances /\ Owner[i] = c
    BY OwnModel
  <1>2. /\ CommandsDiffer' /\ NoCustomCommands' /\ Pending(i)'
        /\ \A j : (Animated(j)' <=> Animated(j)) /\ (Pending(j) => Pending(j)')
    BY AddCommandMoves
  <1>3. UNCHANGED <<myModel, myLoaded, events, ModelAddMutex>>
    BY DEF AddCommand, instanceVars
  <1>4. /\ caller'[c].pc = "assign" /\ caller'[c].model = i
        /\ \A d \in Callers \ {c} : caller'[d] = caller[d]
    BY ResultFacts DEF AddCommand
  <1>5. \A E : Happened(E)' <=> Happened(E)
    BY <1>3 DEF Happened
  <1>6. ASSUME NEW d \in Callers, d # c
        PROVE  /\ \A pc : At(d, pc)' <=> At(d, pc)
               /\ caller'[d] = caller[d]
               /\ Pending(caller[d].model) => Pending(caller[d].model)'
               /\ Animated(caller[d].model)' => Animated(caller[d].model)
    <2>1. caller'[d] = caller[d]
      BY <1>4, <1>6
    <2> DEFINE m == caller[d].model
    <2>2. m' = m
      BY <2>1
    <2>3. \A j : j = m => (Pending(j) => Pending(m)') /\ (Animated(m)' => Animated(j))
      <3> SUFFICES ASSUME NEW j, j = m
                   PROVE  (Pending(j) => Pending(m)') /\ (Animated(m)' => Animated(j))
        OBVIOUS
      <3>1. (Pending(m)' <=> Pending(j)') /\ (Animated(m)' <=> Animated(j)')
        BY <2>2 DEF Pending, Queued, Carried, Animated
      <3>2. QED
        BY <3>1, <1>2
    <2>4. QED
      BY <2>1, <2>3 DEF At
  <1>7. /\ Pending(caller[c].model)'
        /\ ~At(c, "unload")' /\ ~At(c, "copy")'
    <2>1. Pending(caller[c].model)' <=> Pending(i)'
      BY <1>4 DEF Pending, Queued, Carried
    <2>2. QED
      BY <1>2, <1>4, <2>1 DEF At
  <1>8. \A d \in Callers : At(d, "assign")' /\ caller'[d].result = NoModel
                           /\ ~Happened(LoadAccidents)' =>
             Pending(caller[d].model)' \/ myModel'[caller'[d].model] # NoModel
    BY <1>3, <1>5, <1>6, <1>7, QueueFacts
  <1>9. \A d \in Callers : (At(d, "unload")' \/ At(d, "copy")') /\ ~Happened(LockAccidents)' =>
             ~Animated(caller[d].model)'
    BY <1>5, <1>6, <1>7, QueueFacts
  <1>10. QED
    BY <1>2, <1>3, <1>5, <1>8, <1>9, QueueFacts, QueueInvAgain

LEMMA AddAnimationsQueue ==
    ASSUME ShapeInv, QueueInv, NEW c \in Callers, NEW i \in Instances, AddAnimations(c, i)
    PROVE  QueueInv'
  <1> DEFINE new == [path |-> myPath[i], model |-> i, isAnimation |-> TRUE]
             s == myLoadCommands
             t == myLoadCommands'
  <1>1. new \in Commands /\ new.isAnimation /\ new.model = i
    BY TypeFacts DEF Commands
  <1>2. /\ t = Append(s, new) /\ Owner[i] = c /\ At(c, "idle")
        /\ events' = events \cup When(myModel[i] = NoModel /\ ~Pending(i), "orphaned")
        /\ UNCHANGED <<ModelAddMutex, myModel, myLoaded, loader, caller>>
    BY DEF AddAnimations, Note, instanceVars
  <1>3. s \in Seq(Commands) /\ CommandsDiffer /\ NoCustomCommands
    BY TypeFacts, QueueFacts
  <1> HIDE DEF new
  <1>4. /\ Len(t) = Len(s) + 1 /\ t[Len(s) + 1] = new
        /\ \A j \in 1 .. Len(s) : t[j] = s[j]
        /\ Len(s) \in Nat
    BY <1>1, <1>2, <1>3, AppendFacts
  <1>5. 1 .. Len(t) = 1 .. Len(s) \cup {Len(s) + 1}
    BY <1>4
  <1>6. CommandsDiffer' /\ NoCustomCommands'
    BY <1>1, <1>2, <1>3, <1>4, <1>5 DEF CommandsDiffer, NoCustomCommands, Positions
  <1>7. ASSUME NEW j
        PROVE  /\ Queued(j)' <=> Queued(j)
               /\ Animated(j)' <=> Animated(j) \/ j = i
    BY <1>1, <1>4, <1>5 DEF Queued, Animated, Positions
  <1>8. ASSUME NEW j PROVE Pending(j)' <=> Pending(j)
    BY <1>2, <1>7 DEF Pending, Carried
  <1>9. \A E : Happened(E) => Happened(E)'
    BY <1>2, HappenedStays
  <1>10. ASSUME NEW d \in Callers
         PROVE  /\ \A pc : At(d, pc)' <=> At(d, pc)
                /\ Pending(caller[d].model)' <=> Pending(caller[d].model)
                /\ ~At(d, "idle") => (Animated(caller[d].model)' <=> Animated(caller[d].model))
    <2> DEFINE m == caller[d].model
    <2>1. m' = m /\ m \in Instances /\ Owner[m] = d
      BY <1>2, OwnModel
    <2>2. (Pending(m)' <=> Pending(m)) /\ (m # i => (Animated(m)' <=> Animated(m)))
      <3>1. \A j : j = m => (Pending(m)' <=> Pending(j)') /\ (Animated(m)' <=> Animated(j)')
        BY <2>1 DEF Pending, Queued, Carried, Animated
      <3>2. QED
        BY <3>1, <1>7, <1>8
    <2>3. m = i => d = c
      BY <1>2, <2>1
    <2>4. QED
      BY <1>2, <2>2, <2>3 DEF At
  <1>11. ~Happened(LockAccidents)' => myModel[i] # NoModel \/ Pending(i)
    BY <1>2 DEF Happened, LockAccidents, When
  <1>12. \A d \in Callers : At(d, "unload")' \/ At(d, "copy")' => ~At(d, "idle")
    BY <1>2 DEF At
  <1>13. \A d \in Callers : At(d, "assign")' /\ caller'[d].result = NoModel
                            /\ ~Happened(LoadAccidents)' =>
             Pending(caller[d].model)' \/ myModel'[caller'[d].model] # NoModel
    BY <1>2, <1>9, <1>10, QueueFacts
  <1>14. \A d \in Callers : (At(d, "unload")' \/ At(d, "copy")') /\ ~Happened(LockAccidents)' =>
             ~Animated(caller[d].model)'
    BY <1>9, <1>10, <1>12, QueueFacts
  <1>15. QED
    BY <1>2, <1>6, <1>7, <1>8, <1>9, <1>11, <1>13, <1>14, QueueFacts, QueueInvAgain

\* The thread takes a command: what waited for it now is carried.
LEMMA TakeCommandMoves ==
    ASSUME ShapeInv, QueueInv, TakeCommand
    PROVE  /\ CommandsDiffer' /\ NoCustomCommands'
           /\ \A j : (Pending(j) => Pending(j)') /\ (Animated(j)' => Animated(j))
           /\ \A j : Queued(j)' => Queued(j)
           /\ loader'.pc \in Busy => /\ Queued(loader'.command.model)
                                     /\ ~Queued(loader.command.model)'
  <1> DEFINE s == myLoadCommands
             t == myLoadCommands'
  <1>1. PICK k \in ValidCommands :
           /\ t = RemoveAt(s, k)
           /\ loader' = [loader EXCEPT
                  !.pc = IF s[k].isAnimation THEN "idle" ELSE "lookup",
                  !.command = IF s[k].isAnimation THEN NoCommand ELSE s[k]]
    BY DEF TakeCommand
  <1>2. /\ s \in Seq(Commands) /\ CommandsDiffer /\ NoCustomCommands /\ LoaderAt("lock")
        /\ k \in 1 .. Len(s) /\ s[k] \in Commands /\ Len(s) \in Nat
    BY <1>1, TypeFacts, QueueFacts DEF ValidCommands, Positions, TakeCommand
  <1>3. /\ loader'.pc = IF s[k].isAnimation THEN "idle" ELSE "lookup"
        /\ ~s[k].isAnimation => loader'.command = s[k]
    BY <1>1, <1>2, TypeFacts DEF LoaderRecords
  <1>4. /\ Len(t) = Len(s) - 1
        /\ \A j \in 1 .. Len(s) - 1 : t[j] = IF j < k THEN s[j] ELSE s[j + 1]
    BY <1>1, <1>2, RemoveAtFacts
  <1>5. \A j \in 1 .. Len(t) : \E l \in 1 .. Len(s) : l = (IF j < k THEN j ELSE j + 1)
                                                      /\ l # k /\ t[j] = s[l]
    BY <1>2, <1>4
  <1>6. \A l \in 1 .. Len(s) : l # k => \E j \in 1 .. Len(t) : t[j] = s[l]
    <2> SUFFICES ASSUME NEW l \in 1 .. Len(s), l # k
                 PROVE  \E j \in 1 .. Len(t) : t[j] = s[l]
      OBVIOUS
    <2>1. CASE l < k
      <3>1. l \in 1 .. Len(t) /\ t[l] = s[l]
        BY <1>2, <1>4, <2>1
      <3>2. QED
        BY <3>1
    <2>2. CASE l > k
      <3>1. l - 1 \in 1 .. Len(t) /\ ~(l - 1 < k) /\ l - 1 + 1 = l
        BY <1>2, <1>4, <2>2
      <3>2. t[l - 1] = s[l]
        BY <1>4, <3>1
      <3>3. QED
        BY <3>1, <3>2
    <2>3. QED
      BY <1>2, <2>1, <2>2
  <1>7. CommandsDiffer'
    <2> SUFFICES ASSUME NEW i \in 1 .. Len(t), NEW j \in 1 .. Len(t),
                        ~t[i].isAnimation, ~t[j].isAnimation, t[i].model = t[j].model
                 PROVE  i = j
      BY DEF CommandsDiffer, Positions
    <2>1. PICK l \in 1 .. Len(s) : l = (IF i < k THEN i ELSE i + 1) /\ l # k /\ t[i] = s[l]
      BY <1>5
    <2>2. PICK m \in 1 .. Len(s) : m = (IF j < k THEN j ELSE j + 1) /\ m # k /\ t[j] = s[m]
      BY <1>5
    <2>3. l = m
      BY <1>2, <2>1, <2>2 DEF CommandsDiffer, Positions
    <2>4. QED
      BY <1>2, <2>1, <2>2, <2>3
  <1>8. NoCustomCommands'
    BY <1>2, <1>3, <1>5 DEF NoCustomCommands, Positions, Busy
  <1>9. ASSUME NEW j
        PROVE  /\ Queued(j)' => Queued(j)
               /\ Animated(j)' => Animated(j)
               /\ Queued(j) => Queued(j)' \/ (~s[k].isAnimation /\ s[k].model = j)
    BY <1>5, <1>6 DEF Queued, Animated, Positions
  <1>10. ASSUME NEW j, Pending(j) PROVE Pending(j)'
    <2>1. Queued(j)
      BY <1>2, <1>10 DEF Pending, Carried, LoaderAt
    <2>2. ~s[k].isAnimation /\ s[k].model = j => Carried(j)'
      BY <1>3 DEF Carried
    <2>3. QED
      BY <1>9, <2>1, <2>2 DEF Pending
  <1>11. ASSUME loader'.pc \in Busy
         PROVE  Queued(loader'.command.model) /\ ~Queued(loader.command.model)'
    <2>1. ~s[k].isAnimation /\ loader'.command = s[k]
      BY <1>3, <1>11 DEF Busy
    <2>2. Queued(s[k].model)
      BY <1>2, <2>1 DEF Queued, Positions
    <2>3. \A j \in 1 .. Len(t) : ~(t[j].model = loader'.command.model /\ ~t[j].isAnimation)
      BY <1>2, <1>5, <2>1 DEF CommandsDiffer, Positions
    <2>4. QED
      BY <2>1, <2>2, <2>3 DEF Queued, Positions
  <1>12. QED
    BY <1>7, <1>8, <1>9, <1>10, <1>11

\* The callers and their instances stay, and what is pending is answered or
\* stays so.
LEMMA ThreadAnswersQueueInv ==
    ASSUME ShapeInv, QueueInv, CommandsDiffer', NoCustomCommands',
           UNCHANGED <<caller, myLoaded>>, events \subseteq events',
           \A j : Animated(j)' => Animated(j),
           ~Happened(LoadAccidents)' =>
               \A j \in Instances : myModel[j] # NoModel \/ Pending(j) =>
                                    myModel'[j] # NoModel \/ Pending(j)',
           ~Happened(LockAccidents)' => ModelAddMutex' # "loader"
    PROVE  QueueInv'
  <1>1. \A E : Happened(E) => Happened(E)'
    BY HappenedStays
  <1>2. Happened(LoadAccidents)' => Happened(LockAccidents)'
    BY DEF Happened, LoadAccidents, LockAccidents
  <1>3. ASSUME NEW d \in Callers
        PROVE  /\ \A pc : At(d, pc)' <=> At(d, pc)
               /\ Animated(caller[d].model)' => Animated(caller[d].model)
               /\ ~Happened(LoadAccidents)' =>
                    (myModel[caller[d].model] # NoModel \/ Pending(caller[d].model) =>
                     myModel'[caller'[d].model] # NoModel \/ Pending(caller[d].model)')
    <2> DEFINE m == caller[d].model
    <2>1. m' = m /\ m \in Instances
      BY OwnModel
    <2>2. \A j : j = m => (Pending(m)' <=> Pending(j)') /\ (Animated(m)' <=> Animated(j)')
      BY <2>1 DEF Pending, Queued, Carried, Animated
    <2>3. QED
      BY <2>1, <2>2 DEF At
  <1>4. ASSUME ~Happened(LoadAccidents)'
        PROVE  /\ \A c \in Callers : At(c, "assign")' /\ caller'[c].result = NoModel =>
                      Pending(caller[c].model)' \/ myModel'[caller'[c].model] # NoModel
               /\ \A i \in Instances : myLoaded'[i] /\ myModel'[i] = NoModel => Pending(i)'
    BY <1>1, <1>3, <1>4, QueueFacts
  <1>5. ASSUME ~Happened(LockAccidents)'
        PROVE  /\ \A i \in Instances : Animated(i)' => myModel'[i] # NoModel \/ Pending(i)'
               /\ \A c \in Callers : At(c, "unload")' \/ At(c, "copy")' =>
                      ~Animated(caller[c].model)'
    BY <1>1, <1>2, <1>3, <1>5, QueueFacts
  <1>6. QED
    BY <1>4, <1>5, QueueInvAgain

LEMMA TakeCommandQueue ==
    ASSUME ShapeInv, QueueInv, TakeCommand
    PROVE  QueueInv'
  <1>1. UNCHANGED <<caller, myLoaded, myModel, events, ModelAddMutex>>
    BY DEF TakeCommand, instanceVars
  <1>2. ModelAddMutex # "loader"
    BY Names DEF TakeCommand
  <1>3. QED
    BY <1>1, <1>2, TakeCommandMoves, ThreadAnswersQueueInv

LEMMA DropAnimationsQueue ==
    ASSUME ShapeInv, QueueInv, DropAnimations
    PROVE  QueueInv'
  <1>1. /\ UNCHANGED <<caller, myLoaded, myModel, events>> /\ ValidCommands = {}
        /\ LoaderAt("lock") /\ myLoadCommands' = <<>> /\ loader' = [loader EXCEPT !.pc = "idle"]
    BY DEF DropAnimations, instanceVars, LoaderGoesTo
  <1>2. loader'.pc = "idle"
    BY <1>1, TypeFacts DEF LoaderRecords
  <1>3. CommandsDiffer' /\ NoCustomCommands' /\ \A j : ~Animated(j)'
    BY <1>1, <1>2 DEF CommandsDiffer, NoCustomCommands, Animated, Positions, Busy
  <1>4. ASSUME NEW j PROVE ~Pending(j)
    BY <1>1 DEF Pending, Queued, Carried, LoaderAt, ValidCommands, Valid
  <1>5. Happened(LockAccidents)
    <2> SUFFICES ASSUME ~Happened(LockAccidents) PROVE FALSE
      OBVIOUS
    <2>1. myLoadCommands \in Seq(Commands) /\ myLoadCommands # <<>>
      BY <1>1, TypeFacts DEF ShapeInv, ThreadCarriesModel
    <2>2. 1 \in Positions(myLoadCommands) /\ myLoadCommands[1] \in Commands
      BY <2>1 DEF Positions
    <2> DEFINE i == myLoadCommands[1].model
    <2>3. i \in Instances /\ myLoadCommands[1].isAnimation /\ myModel[i] = NoModel
      BY <1>1, <2>2 DEF ValidCommands, Valid, Commands
    <2>4. Animated(i)
      BY <2>2, <2>3 DEF Animated
    <2>5. QED
      BY <1>4, <2>3, <2>4, QueueFacts
  <1>6. events \subseteq events' /\ Happened(LockAccidents)'
    BY <1>1, <1>5 DEF Happened
  <1>7. QED
    BY <1>1, <1>3, <1>4, <1>6, ThreadAnswersQueueInv

LEMMA DeliverQueue ==
    ASSUME ShapeInv, QueueInv, loader.pc \in Busy, NEW users, NEW accidents,
           Deliver(users, accidents)
    PROVE  QueueInv'
  <1> DEFINE p == loader.command.path  i == loader.command.model
  <1>1. p \in Paths /\ i \in Instances
    BY CarriedFacts
  <1>2. /\ myModel' = [myModel EXCEPT ![i] = p]
        /\ loader' = [pc |-> "idle", command |-> NoCommand, count |-> 0]
        /\ events \subseteq events'
        /\ UNCHANGED <<myLoadCommands, ModelAddMutex, myLoaded, caller>>
    BY DEF Deliver, Note, queueVars
  <1>3. loader'.pc = "idle"
    BY <1>2
  <1>4. \A j : Carried(j) => j = i
    BY DEF Carried
  <1> HIDE DEF p, i
  <1>5. CommandsDiffer' /\ NoCustomCommands'
    BY <1>2, <1>3, QueueFacts DEF CommandsDiffer, NoCustomCommands, Busy
  <1>6. ASSUME NEW j PROVE (Queued(j)' <=> Queued(j)) /\ (Animated(j)' <=> Animated(j))
    BY <1>2 DEF Queued, Animated
  <1>7. \A j \in Instances : myModel[j] # NoModel \/ Pending(j) =>
                             myModel'[j] # NoModel \/ Pending(j)'
    BY <1>1, <1>2, <1>4, <1>6, TypeFacts, Names DEF Pending
  <1>8. ~Happened(LockAccidents)' => ModelAddMutex' # "loader"
    BY <1>2, HappenedStays, QueueFacts
  <1>9. QED
    BY <1>2, <1>5, <1>6, <1>7, <1>8, ThreadAnswersQueueInv

LEMMA FailLoadQueue ==
    ASSUME ShapeInv, QueueInv, FailLoad
    PROVE  QueueInv'
  <1>1. /\ loader'.pc = "idle" /\ "failed" \in events' /\ events \subseteq events'
        /\ UNCHANGED <<myLoadCommands, caller, myLoaded>>
    BY DEF FailLoad, Note, queueVars, instanceVars
  <1>2. Happened(LoadAccidents)' /\ Happened(LockAccidents)'
    BY <1>1 DEF Happened, LoadAccidents, LockAccidents
  <1>3. CommandsDiffer' /\ NoCustomCommands'
    BY <1>1, QueueFacts DEF CommandsDiffer, NoCustomCommands, Busy
  <1>4. \A j : Animated(j)' => Animated(j)
    BY <1>1 DEF Animated
  <1>5. QED
    BY <1>1, <1>2, <1>3, <1>4, ThreadAnswersQueueInv

LEMMA ThreadQueue ==
    ASSUME ShapeInv, QueueInv, LoadThreaded
    PROVE  QueueInv'
  <1>1. CASE SeeCommands \/ SeeNothing \/ LookUp \/ CreateEntry
    <2>1. loader'.command = loader.command /\ (loader'.pc \in Busy <=> loader.pc \in Busy)
      <3>1. loader \in LoaderRecords
        BY TypeFacts
      <3>2. CASE SeeCommands
        BY <3>1, <3>2 DEF SeeCommands, LoaderGoesTo, LoaderAt, LoaderRecords, Busy
      <3>3. CASE SeeNothing
        BY <3>3 DEF SeeNothing
      <3>4. CASE LookUp
        BY <3>1, <3>4 DEF LookUp, LoaderAt, LoaderRecords, Busy
      <3>5. CASE CreateEntry
        BY <3>1, <3>5 DEF CreateEntry, LoaderGoesTo, LoaderAt, LoaderRecords, Busy
      <3>6. QED
        BY <1>1, <3>2, <3>3, <3>4, <3>5
    <2>2. UNCHANGED <<caller, myModel, myLoaded, myLoadCommands, ModelAddMutex, events>>
      BY <1>1 DEF SeeCommands, SeeNothing, LookUp, CreateEntry, queueVars, instanceVars
    <2>3. QED
      BY <2>1, <2>2, ThreadKeepsQueueInv DEF SameQueue
  <1>2. CASE AddUser \/ FinishLoad
    BY <1>2, DeliverQueue DEF AddUser, FinishLoad, LoaderAt, Busy
  <1>3. QED
    BY <1>1, <1>2, TakeCommandQueue, DropAnimationsQueue, FailLoadQueue DEF LoadThreaded

LEMMA InitQueueInv == Init => QueueInv
  <1> SUFFICES ASSUME Init PROVE QueueInv
    OBVIOUS
  <1>1. /\ myLoadCommands = <<>> /\ ModelAddMutex # "loader" /\ loader.pc \notin Busy
        /\ \A i \in Instances : ~myLoaded[i]
    BY Names, InstancesAssumption DEF Init, Busy
  <1>2. \A c \in Callers : caller[c].pc = "idle"
    BY IdleIsProper DEF Init
  <1>3. \A i : ~Animated(i)
    BY <1>1 DEF Animated, Positions
  <1>4. QED
    BY <1>1, <1>2, <1>3
       DEF QueueInv, CommandsDiffer, NoCustomCommands, WaitersAreServed, AnimationsHaveModels,
           LoadsAreRemembered, LockIsReturned, At, Positions

LEMMA NextQueueInv == ShapeInv /\ QueueInv /\ [Next]_vars => QueueInv'
  <1> SUFFICES ASSUME ShapeInv, QueueInv, [Next]_vars PROVE QueueInv'
    OBVIOUS
  <1>1. CASE LoadThreaded
    BY <1>1, ThreadQueue
  <1>2. ASSUME NEW c \in Callers, Calls(c)
        PROVE  QueueInv'
    BY <1>2, CallReleases, AddAnimationsQueue, StartReleaseQueue
  <1>3. ASSUME NEW c \in Callers, Returns(c)
        PROVE  QueueInv'
    BY <1>3, UnloadModelQueue, InitInstanceQueue, CopyInstanceQueue, GetQueue,
       AddCommandQueue, AssignQueue DEF Returns
  <1>4. CASE UNCHANGED vars
    BY <1>4, ThreadKeepsQueueInv DEF SameQueue, vars, queueVars, instanceVars
  <1>5. QED
    BY <1>1, <1>2, <1>3, <1>4 DEF Next

-----------------------------------------------------------------------------
(* The third layer: the users.                                             *)

LEMMA EveryoneIsFinite == IsFiniteSet(Everyone) /\ Cardinality(Everyone) \in Nat
  <1>1. IsFiniteSet(Callers) /\ IsFiniteSet(Instances) /\ IsFiniteSet({"loader"})
    BY InstancesAssumption, FS_Singleton
  <1>2. IsFiniteSet(Callers \cup Instances)
    BY <1>1, FS_Union
  <1>3. IsFiniteSet(Everyone)
    BY <1>1, <1>2, FS_Union DEF Everyone
  <1>4. QED
    BY <1>3, FS_CardinalityType

LEMMA BoundFacts == Bound \in Nat /\ 2 * Bound <= CountModulus /\ Cardinality(Everyone) >= 1
  <1>1. IsFiniteSet(Callers) /\ IsFiniteSet(Instances) /\ Callers \cap Instances = {}
    BY InstancesAssumption
  <1>2. /\ Cardinality(Callers) \in Nat /\ Cardinality(Instances) \in Nat
        /\ IsFiniteSet(Callers \cup Instances)
        /\ Cardinality(Callers \cup Instances) =
               Cardinality(Callers) + Cardinality(Instances) - Cardinality(Callers \cap Instances)
    BY <1>1, FS_Union, FS_CardinalityType
  <1>3. Cardinality(Callers \cap Instances) = 0
    BY <1>1, FS_EmptySet
  <1>4. Cardinality(Everyone) = Cardinality(Callers \cup Instances) + 1
    BY <1>2, Names, FS_AddElement DEF Everyone
  <1>5. QED
    BY <1>2, <1>3, <1>4, RoomAssumption, BoundsAssumption DEF Bound

\* Sizes of sets of callers, instances and the thread.
LEMMA SetSize ==
    ASSUME NEW S, S \subseteq Everyone
    PROVE  /\ IsFiniteSet(S) /\ Cardinality(S) \in Nat
           /\ Cardinality(S) <= Cardinality(Everyone)
           /\ Cardinality(S) = 0 <=> S = {}
  <1>1. IsFiniteSet(S) /\ Cardinality(S) <= Cardinality(Everyone)
    BY EveryoneIsFinite, FS_Subset
  <1>2. QED
    BY <1>1, FS_CardinalityType, FS_EmptySet

LEMMA SmallerSet ==
    ASSUME NEW T, T \subseteq Everyone, NEW S, S \subseteq T
    PROVE  Cardinality(S) <= Cardinality(T)
  BY SetSize, FS_Subset

LEMMA OneLess ==
    ASSUME NEW T, T \subseteq Everyone, NEW x \in T, NEW S, S \subseteq T \ {x}
    PROVE  Cardinality(S) + 1 <= Cardinality(T)
  <1>1. Cardinality(T \ {x}) = Cardinality(T) - 1
    BY SetSize, FS_RemoveElement
  <1>2. Cardinality(S) <= Cardinality(T \ {x})
    <2>1. T \ {x} \subseteq Everyone
      OBVIOUS
    <2>2. QED
      BY <2>1, SmallerSet
  <1>3. Cardinality(S) \in Nat /\ Cardinality(T) \in Nat
    <2>1. S \subseteq Everyone
      OBVIOUS
    <2>2. QED
      BY <2>1, SetSize
  <1>4. QED
    BY <1>1, <1>2, <1>3

LEMMA OneMore ==
    ASSUME NEW T, T \subseteq Everyone, NEW x \in Everyone, NEW S, S \subseteq T \cup {x}
    PROVE  Cardinality(S) <= Cardinality(T) + 1
  <1>1. T \cup {x} \subseteq Everyone
    OBVIOUS
  <1>2. Cardinality(S) <= Cardinality(T \cup {x})
    BY <1>1, SmallerSet
  <1>3. Cardinality(T \cup {x}) <= Cardinality(T) + 1
    <2>1. CASE x \in T
      <3>1. T \cup {x} = T
        BY <2>1
      <3>2. Cardinality(T) \in Nat
        BY SetSize
      <3>3. QED
        BY <3>1, <3>2
    <2>2. CASE x \notin T
      <3>1. IsFiniteSet(T) /\ Cardinality(T) \in Nat
        BY SetSize
      <3>2. Cardinality(T \cup {x}) = Cardinality(T) + 1
        BY <2>2, <3>1, FS_AddElement
      <3>3. QED
        BY <3>1, <3>2
    <2>3. QED
      BY <2>1, <2>2
  <1>4. S \subseteq Everyone
    OBVIOUS
  <1>5. Cardinality(S) \in Nat /\ Cardinality(T) \in Nat /\ Cardinality(T \cup {x}) \in Nat
    BY <1>1, <1>4, SetSize
  <1>6. QED
    BY <1>2, <1>3, <1>5

LEMMA OneMoved ==
    ASSUME NEW T, T \subseteq Everyone, NEW x \in T, NEW y \in Everyone,
           NEW S, S \subseteq (T \ {x}) \cup {y}
    PROVE  Cardinality(S) <= Cardinality(T)
  <1>1. T \ {x} \subseteq Everyone
    OBVIOUS
  <1>2. Cardinality(S) <= Cardinality(T \ {x}) + 1
    BY <1>1, OneMore
  <1>3. Cardinality(T \ {x}) + 1 <= Cardinality(T)
    BY OneLess
  <1>4. S \subseteq Everyone
    OBVIOUS
  <1>5. Cardinality(S) \in Nat /\ Cardinality(T) \in Nat /\ Cardinality(T \ {x}) \in Nat
    BY <1>1, <1>4, SetSize
  <1>6. QED
    BY <1>2, <1>3, <1>5

LEMMA UsersType ==
    /\ \A p : Users(p) \subseteq Everyone
    /\ \A p : Users(p)' \subseteq Everyone
    /\ Waiting \subseteq Everyone /\ Waiting' \subseteq Everyone
  <1>1. \A p : Users(p) \subseteq Everyone /\ Users(p)' \subseteq Everyone
    BY DEF Users, Holders, Everyone
  <1>2. Waiting \subseteq Everyone /\ Waiting' \subseteq Everyone
    BY DEF Waiting, Everyone
  <1>3. QED
    BY <1>1, <1>2

LEMMA UnspoiltBefore ==
    ASSUME events \subseteq events'
    PROVE  /\ Unspoilt' => Unspoilt
           /\ ~Happened({"stale"})' => ~Happened({"stale"})
  BY DEF Unspoilt, Happened

\* Without the accidents of the counts, no count wraps.
LEMMA CountFacts ==
    ASSUME ShapeInv, CountInv, Unspoilt
    PROVE  \A p \in Paths :
               /\ myUserCount[p] \in Nat
               /\ myUserCount[p] + Cardinality(Waiting) <= Bound
               /\ Cardinality(Users(p)) <= myUserCount[p]
               /\ 2 * myUserCount[p] <= CountModulus
  <1>1. \A p \in Paths : /\ myUserCount[p] \in Nat
                         /\ myUserCount[p] + Cardinality(Waiting) <= Bound
                         /\ Cardinality(Users(p)) <= myUserCount[p]
    BY CountTypes, ModulusType DEF CountInv, CountsBounded, AllUsersCounted
  <1>2. Cardinality(Waiting) \in Nat
    BY UsersType, SetSize
  <1>3. QED
    BY <1>1, <1>2, BoundFacts, ModulusType

\* Nobody is added to the users, and no more wait than before.
LEMMA NoMoreUsers ==
    ASSUME ShapeInv, CountInv, events \subseteq events', myUserCount' = myUserCount,
           \A p \in Paths : Users(p)' \subseteq Users(p),
           Cardinality(Waiting') <= Cardinality(Waiting),
           entries \subseteq entries', LoadedStays'
    PROVE  CountInv'
  <1>1. Cardinality(Waiting) \in Nat /\ Cardinality(Waiting') \in Nat
    BY UsersType, SetSize
  <1>2. ASSUME NEW p \in Paths
        PROVE  /\ Cardinality(Users(p)') <= Cardinality(Users(p))
               /\ Cardinality(Users(p)') \in Nat /\ Cardinality(Users(p)) \in Nat
    BY UsersType, SmallerSet, SetSize
  <1>3. CountsBounded'
    <2> SUFFICES ASSUME Unspoilt', NEW p \in Paths
                 PROVE  myUserCount[p] + Cardinality(Waiting') <= Bound
      BY DEF CountsBounded
    <2>1. myUserCount[p] \in Nat /\ myUserCount[p] + Cardinality(Waiting) <= Bound
      BY UnspoiltBefore, CountFacts
    <2>2. QED
      BY <1>1, <2>1, BoundFacts
  <1>4. AllUsersCounted'
    <2> SUFFICES ASSUME Unspoilt', NEW p \in Paths
                 PROVE  Cardinality(Users(p)') <= myUserCount[p]
      BY DEF AllUsersCounted
    <2>1. myUserCount[p] \in Nat /\ Cardinality(Users(p)) <= myUserCount[p]
      BY UnspoiltBefore, CountFacts
    <2>2. QED
      BY <1>2, <2>1
  <1>5. UsedStays'
    BY UnspoiltBefore DEF CountInv, UsedStays
  <1>6. QED
    BY <1>3, <1>4, <1>5 DEF CountInv

\* One user more, who waited until now; the model is in its map.
LEMMA OneUserMore ==
    ASSUME ShapeInv, CountInv, events \subseteq events', NEW p \in Paths,
           Unspoilt' => myUserCount' = [myUserCount EXCEPT ![p] = (@ + 1) % CountModulus],
           NEW y \in Everyone, Users(p)' \subseteq Users(p) \cup {y},
           \A q \in Paths \ {p} : Users(q)' \subseteq Users(q),
           NEW x \in Waiting, Waiting' \subseteq Waiting \ {x},
           entries \subseteq entries', LoadedStays',
           Unspoilt' /\ (Happened({"stale"})' => Kind[p] = "custom") => p \in entries'
    PROVE  CountInv'
  <1>1. /\ Cardinality(Waiting) \in Nat /\ Cardinality(Waiting') \in Nat
        /\ Cardinality(Waiting') + 1 <= Cardinality(Waiting)
    BY UsersType, SetSize, OneLess
  <1>2. /\ Cardinality(Users(p)') <= Cardinality(Users(p)) + 1
        /\ Cardinality(Users(p)') \in Nat /\ Cardinality(Users(p)) \in Nat
    BY UsersType, OneMore, SetSize
  <1>3. ASSUME NEW q \in Paths \ {p}
        PROVE  /\ Cardinality(Users(q)') <= Cardinality(Users(q))
               /\ Cardinality(Users(q)') \in Nat /\ Cardinality(Users(q)) \in Nat
    BY UsersType, SmallerSet, SetSize
  <1>4. ASSUME Unspoilt'
        PROVE  /\ myUserCount'[p] = myUserCount[p] + 1
               /\ \A q \in Paths \ {p} : myUserCount'[q] = myUserCount[q]
               /\ \A q \in Paths : /\ myUserCount[q] \in Nat
                                   /\ myUserCount[q] + Cardinality(Waiting) <= Bound
                                   /\ Cardinality(Users(q)) <= myUserCount[q]
    <2>1. \A q \in Paths : /\ myUserCount[q] \in Nat
                           /\ myUserCount[q] + Cardinality(Waiting) <= Bound
                           /\ Cardinality(Users(q)) <= myUserCount[q]
      BY <1>4, UnspoiltBefore, CountFacts
    <2>2. myUserCount[p] + 1 \in 0 .. CountModulus - 1
      BY <1>1, <2>1, BoundFacts, ModulusType
    <2>3. (myUserCount[p] + 1) % CountModulus = myUserCount[p] + 1
      BY <2>2, ModSmall
    <2>4. QED
      BY <1>4, <2>1, <2>3, TypeFacts
  <1>5. CountsBounded'
    <2> SUFFICES ASSUME Unspoilt', NEW q \in Paths
                 PROVE  myUserCount'[q] + Cardinality(Waiting') <= Bound
      BY DEF CountsBounded
    <2>1. CASE q = p
      BY <1>1, <1>4, <2>1, BoundFacts
    <2>2. CASE q # p
      BY <1>1, <1>4, <2>2, BoundFacts
    <2>3. QED
      BY <2>1, <2>2
  <1>6. AllUsersCounted'
    <2> SUFFICES ASSUME Unspoilt', NEW q \in Paths
                 PROVE  Cardinality(Users(q)') <= myUserCount'[q]
      BY DEF AllUsersCounted
    <2>1. CASE q = p
      BY <1>2, <1>4, <2>1
    <2>2. CASE q # p
      BY <1>3, <1>4, <2>2
    <2>3. QED
      BY <2>1, <2>2
  <1>7. UsedStays'
    <2> SUFFICES ASSUME NEW q \in Paths \ entries', Unspoilt',
                        Happened({"stale"})' => Kind[q] = "custom"
                 PROVE  Users(q)' = {}
      BY DEF UsedStays
    <2>1. q # p /\ q \notin entries
      OBVIOUS
    <2>2. Users(q) = {}
      BY <2>1, UnspoiltBefore DEF CountInv, UsedStays
    <2>3. QED
      BY <2>1, <2>2
  <1>8. QED
    BY <1>5, <1>6, <1>7 DEF CountInv

\* How the sets move when a caller does something to an instance of its own
\* and leaves the queue and the thread alone.
LEMMA CallerMovesSets ==
    ASSUME ShapeInv, NEW c \in Callers, NEW i \in Instances, OthersStay(c, i),
           At(c, "unload") => caller[c].model = i,
           At(c, "unload")' => caller'[c].model = i
    PROVE  /\ \A p : Users(p)' \subseteq Users(p) \cup {i, c}
           /\ \A p : i \in Users(p)' <=> myModel'[i] = p /\ ~At(c, "unload")'
           /\ \A p : i \in Users(p) <=> myModel[i] = p /\ ~At(c, "unload")
           /\ \A p : c \in Users(p)' <=> At(c, "assign")' /\ caller'[c].result = p
           /\ \A p : c \in Users(p) <=> At(c, "assign") /\ caller[c].result = p
  <1>1. Owner[i] = c /\ Instances \cap Callers = {} /\ Owner \in [Instances -> Callers]
    BY Names DEF OthersStay
  <1>2. \A j \in Instances : Owner[j] # c => caller'[Owner[j]] = caller[Owner[j]]
    BY <1>1 DEF OthersStay
  <1>3. \A j \in Instances \ {i} : Leaving(j)' <=> Leaving(j)
    <2> SUFFICES ASSUME NEW j \in Instances \ {i} PROVE Leaving(j)' <=> Leaving(j)
      OBVIOUS
    <2>1. CASE Owner[j] = c
      BY <2>1 DEF Leaving, At
    <2>2. CASE Owner[j] # c
      BY <1>2, <2>2 DEF Leaving
    <2>3. QED
      BY <2>1, <2>2
  <1>4. (Leaving(i)' <=> At(c, "unload")') /\ (Leaving(i) <=> At(c, "unload"))
    BY <1>1 DEF Leaving, At
  <1>5. ASSUME NEW p
        PROVE  Users(p)' \subseteq Users(p) \cup {i, c}
    <2>1. \A j \in Instances \ {i} : myModel'[j] = myModel[j]
      BY DEF OthersStay
    <2>2. \A d \in Callers \ {c} : caller'[d] = caller[d]
      BY DEF OthersStay
    <2>3. \A j \in Holders(p)' : j = i \/ j \in Holders(p)
      BY <1>3, <2>1 DEF Holders
    <2>4. \A d \in Callers : At(d, "assign")' /\ caller'[d].result = p =>
                             d = c \/ (At(d, "assign") /\ caller[d].result = p)
      BY <2>2 DEF At
    <2>5. QED
      BY <2>3, <2>4 DEF Users
  <1>6. ASSUME NEW p
        PROVE  /\ i \in Users(p)' <=> myModel'[i] = p /\ ~At(c, "unload")'
               /\ i \in Users(p) <=> myModel[i] = p /\ ~At(c, "unload")
    BY <1>1, <1>4 DEF Users, Holders
  <1>7. ASSUME NEW p
        PROVE  /\ c \in Users(p)' <=> At(c, "assign")' /\ caller'[c].result = p
               /\ c \in Users(p) <=> At(c, "assign") /\ caller[c].result = p
    BY <1>1 DEF Users, Holders
  <1>8. QED
    BY <1>5, <1>6, <1>7

LEMMA CallerMovesWaiting ==
    ASSUME NEW c \in Callers, \A d \in Callers \ {c} : caller'[d] = caller[d],
           myLoadCommands' = myLoadCommands, loader' = loader
    PROVE  /\ Waiting' \subseteq Waiting \cup {c}
           /\ c \in Waiting' <=> Asking(c)'
           /\ c \in Waiting <=> Asking(c)
  <1>1. c \notin Instances /\ c # "loader"
    BY Names
  <1>2. \A j : Queued(j)' <=> Queued(j)
    BY DEF Queued
  <1>3. \A d \in Callers \ {c} : Asking(d)' <=> Asking(d)
    BY DEF Asking, At
  <1>4. Waiting' \subseteq Waiting \cup {c}
    BY <1>2, <1>3 DEF Waiting
  <1>5. (c \in Waiting' <=> Asking(c)') /\ (c \in Waiting <=> Asking(c))
    BY <1>1 DEF Waiting
  <1>6. QED
    BY <1>4, <1>5

LEMMA LoadedStaysIf ==
    ASSUME CountInv, events \subseteq events', loader' = loader, entries \subseteq entries'
    PROVE  LoadedStays'
  BY UnspoiltBefore DEF CountInv, LoadedStays

LEMMA StartReleaseCount ==
    ASSUME ShapeInv, CountInv, NEW c \in Callers, NEW i \in Instances, NEW next, NEW other,
           Onward(c, next, other), StartRelease(c, i, next, other),
           next \in {"get", "copy"} => FewUsers
    PROVE  CountInv'
  <1> DEFINE users == (myUserCount[myModel[i]] - 1) % CountModulus
             last == myModel[i] # NoModel /\ Unused(users)
             r == IF ~last /\ next = "idle" THEN Idle(c)
                  ELSE [caller[c] EXCEPT !.pc = IF last THEN "unload" ELSE next,
                                         !.model = i, !.next = next, !.other = other]
  <1>1. /\ caller' = [caller EXCEPT ![c] = r] /\ Owner[i] = c /\ caller[c].pc = "idle"
        /\ myUserCount' = IF myModel[i] = NoModel THEN myUserCount
                          ELSE [myUserCount EXCEPT ![myModel[i]] = users]
        /\ myModel' = IF last THEN myModel ELSE [myModel EXCEPT ![i] = NoModel]
        /\ myLoaded' = [myLoaded EXCEPT ![i] = FALSE]
        /\ events \subseteq events'
        /\ UNCHANGED <<myLoadCommands, entries, loader>>
    <2>1. UNCHANGED <<myLoadCommands, entries, loader>> /\ events \subseteq events'
      BY DEF StartRelease, Note, queueVars, mapVars
    <2>2. QED
      BY <2>1 DEF StartRelease, At
  <1>2. /\ r.pc \in {"idle", "unload", "init", "copy", "get"}
        /\ r.pc = "unload" => last /\ r.model = i /\ r.next = next
        /\ r.pc \in {"copy", "get"} => next \in {"copy", "get"}
        /\ last => r.pc = "unload"
    <2>1. CASE ~last /\ next = "idle"
      BY <2>1, IdleIsProper
    <2>2. CASE ~(~last /\ next = "idle")
      <3>1. caller[c] \in CallerRecords
        BY TypeFacts
      <3> HIDE DEF last
      <3>2. r.pc = (IF last THEN "unload" ELSE next) /\ r.model = i /\ r.next = next
        BY <2>2, <3>1 DEF CallerRecords
      <3>3. QED
        BY <2>2, <3>2 DEF Onward
    <2>3. QED
      BY <2>1, <2>2
  <1> HIDE DEF r
  <1>3. caller'[c] = r /\ \A d \in Callers \ {c} : caller'[d] = caller[d]
    BY <1>1, TypeFacts
  <1>4. /\ last => myModel'[i] = myModel[i]
        /\ ~last => myModel'[i] = NoModel
        /\ \A j \in Instances \ {i} : myModel'[j] = myModel[j] /\ myLoaded'[j] = myLoaded[j]
    <2> HIDE DEF last
    <2>1. QED
      BY <1>1, TypeFacts
  <1>5. OthersStay(c, i)
    BY <1>1, <1>3, <1>4 DEF OthersStay
  <1>6. /\ \A p \in Paths : Users(p)' \subseteq Users(p) \ {i}
        /\ \A p : i \in Users(p) <=> myModel[i] = p
    <2>1. ~At(c, "unload") /\ ~At(c, "assign") /\ (At(c, "unload")' => caller'[c].model = i)
      BY <1>1, <1>2, <1>3 DEF At
    <2>2. ~At(c, "assign")' /\ (last => At(c, "unload")')
      BY <1>2, <1>3 DEF At
    <2> HIDE DEF last
    <2>3. QED
      BY <1>4, <1>5, <2>1, <2>2, CallerMovesSets, Names
  <1>7. ASSUME NEW p \in Paths
        PROVE  /\ Cardinality(Users(p)') <= Cardinality(Users(p))
               /\ myModel[i] = p => Cardinality(Users(p)') + 1 <= Cardinality(Users(p))
               /\ Cardinality(Users(p)') \in Nat /\ Cardinality(Users(p)) \in Nat
    <2>1. Users(p)' \subseteq Users(p)
      BY <1>6
    <2>2. QED
      BY <1>6, <2>1, UsersType, SmallerSet, OneLess, SetSize
  <1> DEFINE m == myModel[i]
  <1>8. ASSUME Unspoilt'
        PROVE  \A p \in Paths :
                 /\ myUserCount[p] \in Nat /\ myUserCount'[p] \in Nat
                 /\ m # p => myUserCount'[p] = myUserCount[p]
                 /\ m = p => myUserCount'[p] = myUserCount[p] - 1
                 /\ myUserCount[p] + Cardinality(Waiting) <= Bound
                 /\ Cardinality(Users(p)) <= myUserCount[p]
                 /\ 2 * myUserCount[p] <= CountModulus
    <2>1. \A p \in Paths :
                 /\ myUserCount[p] \in Nat /\ myUserCount[p] \in 0 .. CountModulus - 1
                 /\ myUserCount[p] + Cardinality(Waiting) <= Bound
                 /\ Cardinality(Users(p)) <= myUserCount[p]
                 /\ 2 * myUserCount[p] <= CountModulus
      BY <1>1, <1>8, UnspoiltBefore, CountFacts, CountTypes
    <2>2. CASE m = NoModel
      BY <1>1, <2>1, <2>2, Names
    <2>3. CASE m # NoModel
      <3>1. m \in Paths
        BY <2>3, TypeFacts
      <3>2. myUserCount[m] >= 1
        BY <1>7, <2>1, <3>1
      <3>3. myUserCount[m] - 1 \in 0 .. CountModulus - 1
        BY <2>1, <3>1, <3>2, ModulusType
      <3>4. users = myUserCount[m] - 1
        BY <3>3, ModSmall
      <3>5. myUserCount' = [myUserCount EXCEPT ![m] = users]
        BY <1>1, <2>3
      <3> HIDE DEF users, m
      <3>6. myUserCount'[m] = myUserCount[m] - 1 /\ myUserCount'[m] \in Nat
        BY <3>1, <3>3, <3>4, <3>5, TypeFacts, ModulusType
      <3>7. \A p \in Paths : p # m => myUserCount'[p] = myUserCount[p]
        BY <3>5, TypeFacts
      <3>8. QED
        BY <2>1, <3>6, <3>7
    <2>4. QED
      BY <2>2, <2>3
  <1> HIDE DEF m, users, last
  <1>9. CountsBounded'
    <2> SUFFICES ASSUME Unspoilt', NEW p \in Paths
                 PROVE  myUserCount'[p] + Cardinality(Waiting') <= Bound
      BY DEF CountsBounded
    <2>1. myUserCount'[p] <= myUserCount[p]
      BY <1>8
    <2>2. /\ Cardinality(Waiting') \in Nat /\ Cardinality(Waiting) \in Nat
          /\ Cardinality(Waiting') <= Cardinality(Everyone) /\ Cardinality(Everyone) \in Nat
      BY UsersType, SetSize, EveryoneIsFinite
    <2>3. CASE next \in {"get", "copy"}
      <3>1. myUserCount[p] < UserLimit
        <4>1. 2 * myUserCount[p] <= CountModulus
          BY <1>8
        <4>2. ~(2 * myUserCount[p] > CountModulus)
          BY <1>8, <4>1, ModulusType
        <4>3. QED
          BY <2>3, <4>2 DEF FewUsers
      <3>2. QED
        BY <1>8, <2>1, <2>2, <3>1, BoundsAssumption DEF Bound
    <2>4. CASE next \notin {"get", "copy"}
      <3>1. ~Asking(c)'
        BY <1>2, <1>3, <2>4 DEF Asking, At
      <3>2. Waiting' \subseteq Waiting
        BY <1>1, <1>3, <3>1, CallerMovesWaiting
      <3>3. Cardinality(Waiting') <= Cardinality(Waiting)
        BY <3>2, UsersType, SmallerSet
      <3>4. QED
        BY <1>8, <2>1, <2>2, <3>3, BoundFacts
    <2>5. QED
      BY <2>3, <2>4
  <1>10. AllUsersCounted'
    <2> SUFFICES ASSUME Unspoilt', NEW p \in Paths
                 PROVE  Cardinality(Users(p)') <= myUserCount'[p]
      BY DEF AllUsersCounted
    <2>1. QED
      BY <1>7, <1>8 DEF m
  <1>11. UsedStays'
    BY <1>1, <1>6, UnspoiltBefore DEF CountInv, UsedStays
  <1>12. QED
    BY <1>1, <1>9, <1>10, <1>11, LoadedStaysIf DEF CountInv

LEMMA UnloadModelCount ==
    ASSUME ShapeInv, CountInv, NEW c \in Callers, UnloadModel(c)
    PROVE  CountInv'
  <1> PICK i : i = caller[c].model
    OBVIOUS
  <1> PICK p : p = myPath[i]
    OBVIOUS
  <1>1. /\ At(c, "unload") /\ i \in Instances /\ Owner[i] = c /\ p \in Paths
        /\ caller[c].next \in {"idle", "init", "copy", "get"}
    BY OwnModel, TypeFacts DEF UnloadModel, CallerRecords
  <1>2. /\ entries' = IF Unloadable(p) THEN entries \ {p} ELSE entries
        /\ myModel' = [myModel EXCEPT ![i] = NoModel] /\ myLoaded' = myLoaded
        /\ GoTo(c, caller[c].next)
        /\ UNCHANGED <<myLoadCommands, myUserCount, loader>>
        /\ events' = events \cup
               When(/\ Unloadable(p)
                    /\ \/ myUserCount[p] # 0
                       \/ loader.pc \in {"load", "add"} /\ loader.command.path = p,
                    "stale")
    BY DEF UnloadModel, queueVars, Note
  <1>3. /\ caller'[c].pc = caller[c].next
        /\ \A d \in Callers \ {c} : caller'[d] = caller[d]
    BY <1>2, GoToFacts
  <1>4. OthersStay(c, i) /\ myModel'[i] = NoModel
    BY <1>1, <1>2, <1>3, TypeFacts DEF OthersStay
  <1>5. \A q \in Paths : Users(q)' \subseteq Users(q)
    <2>1. ~At(c, "unload")' /\ ~At(c, "assign")'
      BY <1>1, <1>3 DEF At
    <2>2. QED
      BY <1>1, <1>4, <2>1, CallerMovesSets, Names
  <1>6. Waiting' \subseteq Waiting
    <2>1. Asking(c)' => Asking(c)
      BY <1>1, <1>3 DEF Asking, At
    <2>2. QED
      BY <1>2, <1>3, <2>1, CallerMovesWaiting
  <1>7. Cardinality(Waiting') <= Cardinality(Waiting)
    BY <1>6, UsersType, SmallerSet
  <1>8. events \subseteq events'
    BY <1>2
  <1>9. CASE ~Unloadable(p)
    <2>1. entries' = entries /\ LoadedStays'
      BY <1>2, <1>8, <1>9, LoadedStaysIf
    <2>2. QED
      BY <1>2, <1>5, <1>7, <1>8, <2>1, NoMoreUsers
  <1>10. CASE Unloadable(p)
    <2>1. entries' = entries \ {p} /\ Kind[p] # "custom"
      BY <1>2, <1>10 DEF Unloadable
    <2>2. ~Happened({"stale"})' => /\ myUserCount[p] = 0
                                   /\ loader.pc \in {"load", "add"} => loader.command.path # p
      BY <1>2, <1>10 DEF When, Happened
    <2>3. LoadedStays'
      BY <1>2, <1>8, <2>1, <2>2, UnspoiltBefore DEF CountInv, LoadedStays
    <2>4. CountsBounded' /\ AllUsersCounted'
      <3>1. Cardinality(Waiting) \in Nat /\ Cardinality(Waiting') \in Nat
        BY UsersType, SetSize
      <3>2. ASSUME Unspoilt', NEW q \in Paths
            PROVE  /\ myUserCount[q] + Cardinality(Waiting') <= Bound
                   /\ Cardinality(Users(q)') <= myUserCount[q]
        <4>1. /\ myUserCount[q] \in Nat /\ myUserCount[q] + Cardinality(Waiting) <= Bound
              /\ Cardinality(Users(q)) <= myUserCount[q]
          BY <1>8, <3>2, UnspoiltBefore, CountFacts
        <4>2. /\ Cardinality(Users(q)') <= Cardinality(Users(q))
              /\ Cardinality(Users(q)') \in Nat /\ Cardinality(Users(q)) \in Nat
          BY <1>5, UsersType, SmallerSet, SetSize
        <4>3. QED
          BY <1>7, <3>1, <4>1, <4>2, BoundFacts
      <3>3. QED
        BY <1>2, <3>2 DEF CountsBounded, AllUsersCounted
    <2>5. UsedStays'
      <3> SUFFICES ASSUME NEW q \in Paths \ entries', Unspoilt',
                          Happened({"stale"})' => Kind[q] = "custom"
                   PROVE  Users(q)' = {}
        BY DEF UsedStays
      <3>1. Unspoilt /\ (Happened({"stale"}) => Kind[q] = "custom")
        BY <1>8, UnspoiltBefore
      <3>2. CASE q \notin entries
        BY <1>5, <3>1, <3>2 DEF CountInv, UsedStays
      <3>3. CASE q = p
        <4>1. myUserCount[p] = 0
          BY <2>1, <2>2, <3>3
        <4>2. Cardinality(Users(p)) = 0
          <5>1. Cardinality(Users(p)) \in Nat /\ Cardinality(Users(p)) <= myUserCount[p]
            BY <1>1, <3>1, CountFacts, UsersType, SetSize
          <5>2. QED
            BY <4>1, <5>1
        <4>3. QED
          BY <1>1, <1>5, <3>3, <4>2, UsersType, SetSize
      <3>4. QED
        BY <2>1, <3>2, <3>3
    <2>6. QED
      BY <2>3, <2>4, <2>5 DEF CountInv
  <1>11. QED
    BY <1>9, <1>10

LEMMA InitInstanceCount ==
    ASSUME ShapeInv, CountInv, NEW c \in Callers, InitInstance(c)
    PROVE  CountInv'
  <1> PICK i : i = caller[c].model
    OBVIOUS
  <1>1. At(c, "init") /\ i \in Instances /\ Owner[i] = c
    BY OwnModel DEF InitInstance
  <1>2. /\ UNCHANGED <<myModel, myLoaded, entries, myLoadCommands, myUserCount, loader>>
        /\ GoTo(c, "idle") /\ events \subseteq events'
    BY DEF InitInstance, queueVars, mapVars, Note
  <1>3. caller'[c].pc = "idle" /\ \A d \in Callers \ {c} : caller'[d] = caller[d]
    BY <1>2, GoToFacts
  <1>4. OthersStay(c, i)
    BY <1>1, <1>2, <1>3 DEF OthersStay
  <1>5. \A q \in Paths : Users(q)' \subseteq Users(q)
    <2>1. ~At(c, "unload")' /\ ~At(c, "assign")' /\ ~At(c, "unload")
      BY <1>1, <1>3 DEF At
    <2>2. QED
      BY <1>1, <1>2, <1>4, <2>1, CallerMovesSets
  <1>6. Waiting' \subseteq Waiting
    BY <1>2, <1>3, CallerMovesWaiting DEF Asking, At
  <1>7. Cardinality(Waiting') <= Cardinality(Waiting)
    BY <1>6, UsersType, SmallerSet
  <1>8. QED
    BY <1>2, <1>5, <1>7, LoadedStaysIf, NoMoreUsers

LEMMA CopyInstanceCount ==
    ASSUME ShapeInv, CountInv, NEW c \in Callers, CopyInstance(c)
    PROVE  CountInv'
  <1> PICK i : i = caller[c].model
    OBVIOUS
  <1> PICK from : from = caller[c].other
    OBVIOUS
  <1> PICK p : p = myModel[from]
    OBVIOUS
  <1>1. /\ At(c, "copy") /\ i \in Instances /\ Owner[i] = c
        /\ from \in Instances /\ Owner[from] = c /\ p \in Paths \cup {NoModel}
    BY OwnModel, TypeFacts DEF CopyInstance, Proper, Doing, At
  <1>2. /\ myModel' = [myModel EXCEPT ![i] = p]
        /\ myLoaded' = [myLoaded EXCEPT ![i] = myLoaded[from] /\ p # NoModel]
        /\ myUserCount' = IF p = NoModel THEN myUserCount
                          ELSE [myUserCount EXCEPT ![p] = (@ + 1) % CountModulus]
        /\ GoTo(c, "idle") /\ events' = events
        /\ UNCHANGED <<entries, myLoadCommands, loader>>
    BY DEF CopyInstance, queueVars, mapVars
  <1>3. caller'[c].pc = "idle" /\ \A d \in Callers \ {c} : caller'[d] = caller[d]
    BY <1>2, GoToFacts
  <1>4. OthersStay(c, i) /\ myModel'[i] = p
    BY <1>1, <1>2, <1>3, TypeFacts DEF OthersStay
  <1>5. \A q : q # p => Users(q)' \subseteq Users(q)
    <2>1. ~At(c, "unload")' /\ ~At(c, "assign")' /\ ~At(c, "unload")
      BY <1>1, <1>3 DEF At
    <2>2. QED
      BY <1>1, <1>4, <2>1, CallerMovesSets
  <1>6. Users(p)' \subseteq Users(p) \cup {i}
    <2>1. ~At(c, "unload")' /\ ~At(c, "assign")' /\ ~At(c, "unload")
      BY <1>1, <1>3 DEF At
    <2>2. QED
      BY <1>1, <1>4, <2>1, CallerMovesSets
  <1>7. Waiting' \subseteq Waiting \ {c} /\ c \in Waiting
    BY <1>1, <1>2, <1>3, CallerMovesWaiting DEF Asking, At
  <1>8. LoadedStays'
    BY <1>2, LoadedStaysIf
  <1>9. CASE p = NoModel
    <2>1. Cardinality(Waiting') <= Cardinality(Waiting)
      BY <1>7, UsersType, SmallerSet
    <2>2. \A q \in Paths : Users(q)' \subseteq Users(q)
      BY <1>5, <1>9, Names
    <2>3. QED
      BY <1>2, <1>8, <1>9, <2>1, <2>2, NoMoreUsers
  <1>10. CASE p # NoModel
    <2>1. p \in Paths
      BY <1>1, <1>10
    <2>2. from \in Users(p)
      BY <1>1 DEF Users, Holders, Leaving, At
    <2>3. Unspoilt' /\ (Happened({"stale"})' => Kind[p] = "custom") => p \in entries'
      BY <1>2, <2>1, <2>2 DEF CountInv, UsedStays, Unspoilt, Happened
    <2>4. i \in Everyone
      BY <1>1 DEF Everyone
    <2>5. /\ myUserCount' = [myUserCount EXCEPT ![p] = (@ + 1) % CountModulus]
          /\ events \subseteq events' /\ entries \subseteq entries'
      BY <1>2, <1>10
    <2>6. \A q \in Paths \ {p} : Users(q)' \subseteq Users(q)
      BY <1>5
    <2>7. QED
      BY <1>6, <1>7, <1>8, <2>1, <2>3, <2>4, <2>5, <2>6, OneUserMore
  <1>11. QED
    BY <1>9, <1>10

\* A caller is given a model that the map has, or that it loads itself.
LEMMA GivenCount ==
    ASSUME ShapeInv, CountInv, NEW c \in Callers, GetFound(c) \/ LoadCustom(c)
    PROVE  CountInv'
  <1> PICK i : i = caller[c].model
    OBVIOUS
  <1> PICK p : p = myPath[i]
    OBVIOUS
  <1>1. (At(c, "get") \/ At(c, "queue")) /\ p \in Paths
    BY OwnModel, TypeFacts DEF GetFound, LoadCustom
  <1>2. /\ caller' = [caller EXCEPT ![c] = [@ EXCEPT !.pc = "assign", !.result = p]]
        /\ UNCHANGED <<myModel, myLoaded, myLoadCommands, loader, events>>
        /\ entries \subseteq entries' /\ p \in entries'
        /\ p \in entries => myUserCount' = [myUserCount EXCEPT ![p] = (@ + 1) % CountModulus]
        /\ p \notin entries => /\ myUserCount' = [myUserCount EXCEPT ![p] = 1]
                               /\ Kind[p] = "custom"
    <2>1. CASE GetFound(c)
      BY <2>1 DEF GetFound, Found, queueVars, mapVars, instanceVars
    <2>2. CASE LoadCustom(c)
      BY <2>2 DEF LoadCustom, queueVars, instanceVars
    <2>3. QED
      BY <2>1, <2>2
  <1>3. i \in Instances /\ Owner[i] = c
    BY OwnModel
  <1>4. /\ caller'[c].pc = "assign" /\ caller'[c].result = p
        /\ \A d \in Callers \ {c} : caller'[d] = caller[d]
    BY <1>1, <1>2, ResultFacts
  <1>5. OthersStay(c, i)
    BY <1>2, <1>3, <1>4 DEF OthersStay
  <1>6. /\ \A q : q # p => Users(q)' \subseteq Users(q)
        /\ Users(p)' \subseteq Users(p) \cup {c}
    <2>1. ~At(c, "unload")' /\ ~At(c, "unload")
      BY <1>1, <1>4 DEF At, GetFound, LoadCustom
    <2>2. QED
      BY <1>2, <1>3, <1>4, <1>5, <2>1, CallerMovesSets
  <1>7. Waiting' \subseteq Waiting \ {c} /\ c \in Waiting
    <2>1. ~Asking(c)' /\ Asking(c)
      BY <1>1, <1>4 DEF Asking, At, GetFound, LoadCustom
    <2>2. QED
      BY <1>2, <1>4, <2>1, CallerMovesWaiting
  <1>8. LoadedStays' /\ c \in Everyone
    BY <1>2, LoadedStaysIf DEF Everyone
  <1>9. CASE p \in entries
    <2>1. \A q \in Paths \ {p} : Users(q)' \subseteq Users(q)
      BY <1>6
    <2>2. /\ myUserCount' = [myUserCount EXCEPT ![p] = (@ + 1) % CountModulus]
          /\ events \subseteq events'
      BY <1>2, <1>9
    <2>3. p \in Paths
      BY <1>1
    <2>4. QED
      BY <1>2, <1>6, <1>7, <1>8, <2>1, <2>2, <2>3, OneUserMore
  <1>10. CASE p \notin entries
    <2>1. /\ myUserCount' = [myUserCount EXCEPT ![p] = 1] /\ Kind[p] = "custom" /\ p \in Paths
      BY <1>1, <1>2, <1>10
    <2>2. /\ Cardinality(Waiting) \in Nat /\ Cardinality(Waiting') \in Nat
          /\ Cardinality(Waiting') + 1 <= Cardinality(Waiting)
          /\ Cardinality(Waiting) <= Cardinality(Everyone)
      BY <1>7, UsersType, SetSize, OneLess
    <2>3. ASSUME Unspoilt', NEW q \in Paths
          PROVE  /\ myUserCount'[q] + Cardinality(Waiting') <= Bound
                 /\ Cardinality(Users(q)') <= myUserCount'[q]
      <3>1. Unspoilt
        BY <1>2, <2>3 DEF Unspoilt, Happened
      <3>2. CASE q = p
        <4>1. Users(p) = {}
          BY <1>10, <2>1, <3>1 DEF CountInv, UsedStays
        <4>2. Users(p)' \subseteq {} \cup {c}
          BY <1>6, <4>1
        <4>3. Cardinality(Users(p)') <= Cardinality({}) + 1
          BY <1>8, <4>2, OneMore
        <4>4. Cardinality(Users(p)') <= 1
          BY <4>3, FS_EmptySet
        <4>5. myUserCount'[p] = 1
          BY <2>1, TypeFacts
        <4>6. QED
          BY <2>2, <3>2, <4>4, <4>5, EveryoneIsFinite, BoundsAssumption DEF Bound
      <3>3. CASE q # p
        <4>1. myUserCount'[q] = myUserCount[q]
          BY <2>1, <3>3, TypeFacts
        <4>2. /\ myUserCount[q] \in Nat /\ myUserCount[q] + Cardinality(Waiting) <= Bound
              /\ Cardinality(Users(q)) <= myUserCount[q]
          BY <3>1, CountFacts
        <4>3. /\ Cardinality(Users(q)') <= Cardinality(Users(q))
              /\ Cardinality(Users(q)') \in Nat /\ Cardinality(Users(q)) \in Nat
          BY <1>6, <3>3, UsersType, SmallerSet, SetSize
        <4>4. QED
          BY <2>2, <4>1, <4>2, <4>3, BoundFacts
      <3>4. QED
        BY <3>2, <3>3
    <2>4. UsedStays'
      <3> SUFFICES ASSUME NEW q \in Paths \ entries', Unspoilt',
                          Happened({"stale"})' => Kind[q] = "custom"
                   PROVE  Users(q)' = {}
        BY DEF UsedStays
      <3>1. q # p /\ q \notin entries
        BY <1>2
      <3>2. Users(q) = {}
        BY <1>2, <3>1 DEF CountInv, UsedStays, Unspoilt, Happened
      <3>3. QED
        BY <1>6, <3>1, <3>2
    <2>5. QED
      BY <1>8, <2>3, <2>4 DEF CountInv, CountsBounded, AllUsersCounted
  <1>11. QED
    BY <1>9, <1>10

\* A caller is told to wait: first by the map, then by the queue.
LEMMA ToldToWaitCount ==
    ASSUME ShapeInv, QueueInv, CountInv, NEW c \in Callers, GetMissed(c) \/ AddCommand(c)
    PROVE  CountInv'
  <1> PICK i : i = caller[c].model
    OBVIOUS
  <1>1. i \in Instances /\ Owner[i] = c
    BY OwnModel
  <1>2. /\ UNCHANGED <<myModel, myLoaded, entries, myUserCount, loader, events>>
        /\ ~At(c, "unload")
    BY DEF GetMissed, AddCommand, At, mapVars, instanceVars
  <1>3. /\ caller'[c].pc \in {"queue", "assign"}
        /\ caller'[c].pc = "assign" => caller'[c].result = NoModel
        /\ \A d \in Callers \ {c} : caller'[d] = caller[d]
    <2>1. CASE GetMissed(c)
      BY <2>1, GoToFacts DEF GetMissed
    <2>2. CASE AddCommand(c)
      BY <2>2, ResultFacts DEF AddCommand
    <2>3. QED
      BY <2>1, <2>2
  <1>4. OthersStay(c, i)
    BY <1>1, <1>2, <1>3 DEF OthersStay
  <1>5. \A q \in Paths : Users(q)' \subseteq Users(q)
    <2>1. ~At(c, "unload")' /\ ~At(c, "unload")
      BY <1>2, <1>3 DEF At
    <2>2. \A q \in Paths : c \notin Users(q)'
      BY <1>1, <1>3, <1>4, <2>1, CallerMovesSets, Names DEF At
    <2>3. QED
      BY <1>1, <1>2, <1>4, <2>1, <2>2, CallerMovesSets
  <1>6. Cardinality(Waiting') <= Cardinality(Waiting)
    <2>1. CASE GetMissed(c)
      <3>1. myLoadCommands' = myLoadCommands /\ Asking(c)
        BY <2>1 DEF GetMissed, queueVars, Asking, At
      <3>2. Waiting' \subseteq Waiting
        BY <1>2, <1>3, <3>1, CallerMovesWaiting
      <3>3. QED
        BY <3>2, UsersType, SmallerSet
    <2>2. CASE AddCommand(c)
      <3>1. \A j : Queued(j)' <=> Queued(j) \/ j = i
        BY <2>2, AddCommandMoves
      <3>2. \A d \in Callers \ {c} : Asking(d)' <=> Asking(d)
        BY <1>3 DEF Asking, At
      <3>3. ~Asking(c)' /\ Asking(c)
        <4>1. caller'[c].pc = "assign" /\ caller[c].pc = "queue"
          BY <2>2, ResultFacts DEF AddCommand, At
        <4>2. QED
          BY <4>1 DEF Asking, At
      <3>4. c \in Waiting /\ Waiting' \subseteq (Waiting \ {c}) \cup {i}
        BY <1>2, <3>1, <3>2, <3>3, Names DEF Waiting
      <3>5. i \in Everyone
        BY <1>1 DEF Everyone
      <3>6. QED
        BY <3>4, <3>5, UsersType, OneMoved
    <2>3. QED
      BY <2>1, <2>2
  <1>7. QED
    BY <1>2, <1>5, <1>6, LoadedStaysIf, NoMoreUsers

LEMMA AssignCount ==
    ASSUME ShapeInv, CountInv, NEW c \in Callers, Assign(c)
    PROVE  CountInv'
  <1> PICK i : i = caller[c].model
    OBVIOUS
  <1> PICK p : p = caller[c].result
    OBVIOUS
  <1>1. At(c, "assign") /\ i \in Instances /\ Owner[i] = c /\ p \in Paths \cup {NoModel}
    BY OwnModel, TypeFacts DEF Assign, CallerRecords
  <1>2. /\ myModel' = [myModel EXCEPT ![i] = p] /\ myLoaded' = [myLoaded EXCEPT ![i] = TRUE]
        /\ GoTo(c, "idle") /\ events \subseteq events'
        /\ UNCHANGED <<entries, myLoadCommands, myUserCount, loader>>
    BY DEF Assign, Note, queueVars, mapVars
  <1>3. caller'[c].pc = "idle" /\ \A d \in Callers \ {c} : caller'[d] = caller[d]
    BY <1>2, GoToFacts
  <1>4. OthersStay(c, i) /\ myModel'[i] = p
    BY <1>1, <1>2, <1>3, TypeFacts DEF OthersStay
  <1>5. /\ \A q : q # p => Users(q)' \subseteq Users(q)
        /\ Users(p)' \subseteq (Users(p) \ {c}) \cup {i}
        /\ c \in Users(p)
    <2>1. ~At(c, "unload")' /\ ~At(c, "assign")' /\ ~At(c, "unload")
      BY <1>1, <1>3 DEF At
    <2>2. QED
      BY <1>1, <1>4, <2>1, CallerMovesSets
  <1>6. Waiting' \subseteq Waiting
    <2>1. ~Asking(c)'
      BY <1>3 DEF Asking, At
    <2>2. QED
      BY <1>2, <1>3, <2>1, CallerMovesWaiting
  <1>7. /\ Cardinality(Waiting') <= Cardinality(Waiting)
        /\ Cardinality(Waiting') \in Nat /\ Cardinality(Waiting) \in Nat
    BY <1>6, UsersType, SmallerSet, SetSize
  <1>8. ASSUME NEW q \in Paths
        PROVE  /\ Cardinality(Users(q)') <= Cardinality(Users(q))
               /\ Cardinality(Users(q)') \in Nat /\ Cardinality(Users(q)) \in Nat
    <2>1. CASE q = p
      <3>1. i \in Everyone
        BY <1>1 DEF Everyone
      <3>2. QED
        BY <1>5, <2>1, <3>1, UsersType, OneMoved, SetSize
    <2>2. CASE q # p
      BY <1>5, <2>2, UsersType, SmallerSet, SetSize
    <2>3. QED
      BY <2>1, <2>2
  <1>9. ASSUME Unspoilt', NEW q \in Paths
        PROVE  /\ myUserCount'[q] + Cardinality(Waiting') <= Bound
               /\ Cardinality(Users(q)') <= myUserCount'[q]
    <2>1. /\ myUserCount[q] \in Nat /\ myUserCount[q] + Cardinality(Waiting) <= Bound
          /\ Cardinality(Users(q)) <= myUserCount[q]
      BY <1>2, <1>9, UnspoiltBefore, CountFacts
    <2>2. myUserCount'[q] = myUserCount[q]
      BY <1>2
    <2>3. QED
      BY <1>7, <1>8, <2>1, <2>2, BoundFacts
  <1>10. UsedStays'
    <2> SUFFICES ASSUME NEW q \in Paths \ entries', Unspoilt',
                        Happened({"stale"})' => Kind[q] = "custom"
                 PROVE  Users(q)' = {}
      BY DEF UsedStays
    <2>1. Users(q) = {}
      BY <1>2, UnspoiltBefore DEF CountInv, UsedStays
    <2>2. QED
      BY <1>5, <2>1
  <1>11. QED
    BY <1>2, <1>9, <1>10, LoadedStaysIf DEF CountInv, CountsBounded, AllUsersCounted

LEMMA AddAnimationsCount ==
    ASSUME ShapeInv, CountInv, NEW c \in Callers, NEW i \in Instances, AddAnimations(c, i)
    PROVE  CountInv'
  <1> DEFINE new == [path |-> myPath[i], model |-> i, isAnimation |-> TRUE]
  <1>1. new \in Commands /\ new.isAnimation
    BY TypeFacts DEF Commands
  <1>2. /\ myLoadCommands' = Append(myLoadCommands, new) /\ events \subseteq events'
        /\ UNCHANGED <<entries, myUserCount, myModel, loader, caller>>
    BY DEF AddAnimations, Note, mapVars, instanceVars
  <1> HIDE DEF new
  <1>3. /\ Len(myLoadCommands') = Len(myLoadCommands) + 1
        /\ myLoadCommands'[Len(myLoadCommands) + 1] = new
        /\ \A j \in 1 .. Len(myLoadCommands) : myLoadCommands'[j] = myLoadCommands[j]
        /\ Len(myLoadCommands) \in Nat
    BY <1>1, <1>2, TypeFacts, AppendFacts
  <1>4. ASSUME NEW j, Queued(j)' PROVE Queued(j)
    BY <1>1, <1>3, <1>4 DEF Queued, Positions
  <1>5. Waiting' \subseteq Waiting
    <2>1. \A d \in Callers : Asking(d)' <=> Asking(d)
      BY <1>2 DEF Asking, At
    <2>2. QED
      BY <1>2, <1>4, <2>1 DEF Waiting
  <1>6. Cardinality(Waiting') <= Cardinality(Waiting)
    BY <1>5, UsersType, SmallerSet
  <1>7. \A p \in Paths : Users(p)' \subseteq Users(p)
    BY <1>2 DEF Users, Holders, Leaving, At
  <1>8. QED
    BY <1>2, <1>6, <1>7, LoadedStaysIf, NoMoreUsers

\* The thread does not touch the callers, nor who holds a model.
LEMMA ThreadKeepsUsers ==
    ASSUME UNCHANGED <<caller, myModel>>
    PROVE  /\ \A p \in Paths : Users(p)' \subseteq Users(p)
           /\ \A c \in Callers : Asking(c)' <=> Asking(c)
  BY DEF Users, Holders, Leaving, Asking, At

LEMMA ThreadWorksCount ==
    ASSUME ShapeInv, CountInv,
           SeeCommands \/ SeeNothing \/ LookUp \/ CreateEntry \/ DropAnimations \/ FailLoad
    PROVE  CountInv'
  <1>1. /\ UNCHANGED <<caller, myModel, myUserCount>>
        /\ events \subseteq events' /\ entries \subseteq entries'
    BY DEF SeeCommands, SeeNothing, LookUp, CreateEntry, DropAnimations, FailLoad, Note,
           queueVars, mapVars, instanceVars
  <1>2. \A j : Queued(j)' => Queued(j)
    BY DEF SeeCommands, SeeNothing, LookUp, CreateEntry, DropAnimations, FailLoad, queueVars,
           Queued, Positions
  <1>3. loader'.pc \in Busy => loader.pc \in Busy /\ loader'.command = loader.command
    <2>1. loader \in LoaderRecords
      BY TypeFacts
    <2>2. CASE SeeCommands
      BY <2>1, <2>2 DEF SeeCommands, LoaderGoesTo, LoaderAt, LoaderRecords, Busy
    <2>3. CASE SeeNothing
      BY <2>3 DEF SeeNothing
    <2>4. CASE LookUp
      BY <2>1, <2>4 DEF LookUp, LoaderAt, LoaderRecords, Busy
    <2>5. CASE CreateEntry
      BY <2>1, <2>5 DEF CreateEntry, LoaderGoesTo, LoaderAt, LoaderRecords, Busy
    <2>6. CASE DropAnimations
      BY <2>1, <2>6 DEF DropAnimations, LoaderGoesTo, LoaderAt, LoaderRecords, Busy
    <2>7. CASE FailLoad
      BY <2>7 DEF FailLoad, Busy
    <2>8. QED
      BY <2>2, <2>3, <2>4, <2>5, <2>6, <2>7
  <1>4. Waiting' \subseteq Waiting
    BY <1>1, <1>2, <1>3, ThreadKeepsUsers DEF Waiting
  <1>5. Cardinality(Waiting') <= Cardinality(Waiting)
    BY <1>4, UsersType, SmallerSet
  <1>6. LoadedStays'
    <2> SUFFICES ASSUME ~Happened({"stale"})', loader'.pc \in {"load", "add"}
                 PROVE  loader'.command.path \in entries'
      BY DEF LoadedStays
    <2>1. loader \in LoaderRecords
      BY TypeFacts
    <2>2. loader'.command = loader.command
      BY <1>3 DEF Busy
    <2>3. CASE loader.pc \in {"load", "add"}
      BY <1>1, <2>2, <2>3, UnspoiltBefore DEF CountInv, LoadedStays
    <2>4. CASE loader.pc \notin {"load", "add"}
      <3>1. \/ LookUp /\ loader.command.path \in entries
            \/ CreateEntry
        <4>1. CASE SeeCommands
          BY <2>1, <2>4, <4>1 DEF SeeCommands, LoaderGoesTo, LoaderRecords
        <4>2. CASE SeeNothing
          BY <2>4, <4>2 DEF SeeNothing
        <4>3. CASE LookUp
          BY <2>1, <2>4, <4>3 DEF LookUp, LoaderRecords
        <4>4. CASE DropAnimations
          BY <2>1, <2>4, <4>4 DEF DropAnimations, LoaderGoesTo, LoaderRecords
        <4>5. CASE FailLoad
          BY <4>5 DEF FailLoad
        <4>6. QED
          BY <4>1, <4>2, <4>3, <4>4, <4>5
      <3>2. QED
        BY <1>1, <2>2, <3>1 DEF CreateEntry
    <2>5. QED
      BY <2>3, <2>4
  <1>7. QED
    BY <1>1, <1>5, <1>6, ThreadKeepsUsers, NoMoreUsers

LEMMA TakeCommandCount ==
    ASSUME ShapeInv, QueueInv, CountInv, TakeCommand
    PROVE  CountInv'
  <1>1. UNCHANGED <<caller, myModel, myUserCount, entries, events>> /\ LoaderAt("lock")
    BY DEF TakeCommand, mapVars, instanceVars
  <1>2. loader'.pc \in {"idle", "lookup"}
    <2>1. loader \in LoaderRecords
      BY TypeFacts
    <2>2. QED
      BY <2>1 DEF TakeCommand, LoaderRecords
  <1>3. LoadedStays'
    BY <1>2 DEF LoadedStays
  <1>4. \A c \in Callers : Asking(c)' <=> Asking(c)
    BY <1>1, ThreadKeepsUsers
  <1>5. Cardinality(Waiting') <= Cardinality(Waiting)
    <2>1. CASE loader'.pc \notin Busy
      <3>1. Waiting' \subseteq Waiting
        BY <1>4, <2>1, TakeCommandMoves DEF Waiting
      <3>2. QED
        BY <3>1, UsersType, SmallerSet
    <2>2. CASE loader'.pc \in Busy
      <3>1. PICK i : i = loader'.command.model
        OBVIOUS
      <3>2. i \in Instances /\ Queued(i)
        <4>1. Queued(i)
          BY <2>2, <3>1, TakeCommandMoves
        <4>2. \A k \in Positions(myLoadCommands) : myLoadCommands[k].model \in Instances
          <5>1. \A k \in Positions(myLoadCommands) : myLoadCommands[k] \in Commands
            BY TypeFacts DEF Positions
          <5>2. QED
            BY <5>1 DEF Commands
        <4>3. QED
          BY <4>1, <4>2 DEF Queued
      <3>3. ~Queued(i)'
        <4>1. ~Queued(loader.command.model)'
          BY <2>2, TakeCommandMoves
        <4>2. QED
          BY <3>1, <4>1 DEF Queued
      <3>4. i \in Waiting /\ i \notin Callers /\ i # "loader"
        BY <3>2, Names DEF Waiting
      <3>5. Waiting' \subseteq (Waiting \ {i}) \cup {"loader"}
        BY <1>4, <3>3, <3>4, TakeCommandMoves DEF Waiting
      <3>6. "loader" \in Everyone
        BY DEF Everyone
      <3>7. QED
        BY <3>4, <3>5, <3>6, UsersType, OneMoved
    <2>3. QED
      BY <2>1, <2>2
  <1>6. QED
    BY <1>1, <1>3, <1>5, ThreadKeepsUsers, NoMoreUsers

LEMMA DeliverCount ==
    ASSUME ShapeInv, QueueInv, CountInv, loader.pc \in {"load", "add"}, NEW users,
           NEW accidents, Deliver(users, accidents),
           Unspoilt' => users = (myUserCount[loader.command.path] + 1) % CountModulus
    PROVE  CountInv'
  <1> PICK i : i = loader.command.model
    OBVIOUS
  <1> PICK p : p = loader.command.path
    OBVIOUS
  <1>1. loader.pc \in Busy
    BY DEF Busy
  <1>2. p \in Paths /\ i \in Instances /\ Kind[p] # "custom"
    BY <1>1, CarriedFacts, QueueFacts DEF NoCustomCommands
  <1>3. /\ myUserCount' = [myUserCount EXCEPT ![p] = users]
        /\ myModel' = [myModel EXCEPT ![i] = p]
        /\ loader'.pc = "idle" /\ events \subseteq events'
        /\ UNCHANGED <<myLoadCommands, entries, caller>>
    BY DEF Deliver, Note, queueVars, mapVars
  <1>4. \A j \in Instances : myModel'[j] = IF j = i THEN p ELSE myModel[j]
    BY <1>2, <1>3, TypeFacts
  <1>5. \A j : Leaving(j)' <=> Leaving(j)
    BY <1>3 DEF Leaving, At
  <1>6. /\ \A q \in Paths \ {p} : Users(q)' \subseteq Users(q)
        /\ Users(p)' \subseteq Users(p) \cup {i}
    BY <1>3, <1>4, <1>5 DEF Users, Holders, At
  <1>7. "loader" \in Waiting /\ Waiting' \subseteq Waiting \ {"loader"}
    <2>1. \A c \in Callers : Asking(c)' <=> Asking(c)
      BY <1>3 DEF Asking, At
    <2>2. \A j : Queued(j)' <=> Queued(j)
      BY <1>3 DEF Queued
    <2>3. loader'.pc \notin Busy
      BY <1>3 DEF Busy
    <2>4. QED
      BY <1>1, <2>1, <2>2, <2>3, Names DEF Waiting
  <1>8. LoadedStays'
    BY <1>3 DEF LoadedStays
  <1>9. Unspoilt' /\ (Happened({"stale"})' => Kind[p] = "custom") => p \in entries'
    BY <1>2, <1>3, UnspoiltBefore DEF CountInv, LoadedStays
  <1>10. i \in Everyone
    BY <1>2 DEF Everyone
  <1>11. Unspoilt' => myUserCount' = [myUserCount EXCEPT ![p] = (@ + 1) % CountModulus]
    BY <1>3
  <1>12. entries \subseteq entries'
    BY <1>3
  <1>13. QED
    BY <1>2, <1>3, <1>6, <1>7, <1>8, <1>9, <1>10, <1>11, <1>12, OneUserMore

LEMMA AnswerCount ==
    ASSUME ShapeInv, QueueInv, CountInv, AddUser \/ FinishLoad
    PROVE  CountInv'
  <1> DEFINE p == loader.command.path
  <1>1. CASE AddUser
    <2>1. Unspoilt' => (loader.count + 1) % CountModulus = (myUserCount[p] + 1) % CountModulus
      BY <1>1 DEF AddUser, Deliver, Note, When, Unspoilt, Happened
    <2>2. QED
      BY <1>1, <2>1, DeliverCount DEF AddUser, LoaderAt
  <1>2. CASE FinishLoad
    <2>1. Unspoilt' => myUserCount[p] = 0
      BY <1>2 DEF FinishLoad, Deliver, Note, When, Unspoilt, Happened
    <2>2. (0 + 1) % CountModulus = 1
      BY ModSmall, ModulusType
    <2>3. QED
      BY <1>2, <2>1, <2>2, DeliverCount DEF FinishLoad, LoaderAt
  <1>3. QED
    BY <1>1, <1>2

LEMMA InitCountInv == Init => CountInv
  <1> SUFFICES ASSUME Init PROVE CountInv
    OBVIOUS
  <1>1. \A c \in Callers : caller[c].pc = "idle"
    BY IdleIsProper DEF Init
  <1>2. /\ \A i \in Instances : myModel[i] = NoModel /\ ~Queued(i)
        /\ \A p \in Paths : myUserCount[p] = 0
        /\ loader.pc \in {"idle", "stopped"}
    BY DEF Init, Queued, Positions
  <1>3. \A p \in Paths : Users(p) = {}
    BY <1>1, <1>2, Names DEF Users, Holders, At
  <1>4. Waiting = {}
    BY <1>1, <1>2 DEF Waiting, Asking, At, Busy
  <1>5. \A p \in Paths : Cardinality(Users(p)) = 0
    BY <1>3, FS_EmptySet
  <1>6. Cardinality(Waiting) = 0
    BY <1>4, FS_EmptySet
  <1>7. QED
    BY <1>2, <1>3, <1>5, <1>6, BoundFacts
       DEF CountInv, CountsBounded, AllUsersCounted, UsedStays, LoadedStays

LEMMA NextCountInv == ShapeInv /\ QueueInv /\ CountInv /\ [Next]_vars => CountInv'
  <1> SUFFICES ASSUME ShapeInv, QueueInv, CountInv, [Next]_vars PROVE CountInv'
    OBVIOUS
  <1>1. CASE LoadThreaded
    BY <1>1, ThreadWorksCount, TakeCommandCount, AnswerCount DEF LoadThreaded
  <1>2. ASSUME NEW c \in Callers, Calls(c)
        PROVE  CountInv'
    BY <1>2, CallReleases, AddAnimationsCount, StartReleaseCount
  <1>3. ASSUME NEW c \in Callers, Returns(c)
        PROVE  CountInv'
    BY <1>3, UnloadModelCount, InitInstanceCount, CopyInstanceCount, GivenCount,
       ToldToWaitCount, AssignCount DEF Returns
  <1>4. CASE UNCHANGED vars
    <2>1. UNCHANGED <<caller, myModel, myUserCount, entries, loader, myLoadCommands, events>>
      BY <1>4 DEF vars, queueVars, mapVars, instanceVars
    <2>2. Waiting' \subseteq Waiting
      BY <2>1, ThreadKeepsUsers DEF Waiting, Queued
    <2>3. Cardinality(Waiting') <= Cardinality(Waiting)
      BY <2>2, UsersType, SmallerSet
    <2>4. QED
      BY <2>1, <2>3, LoadedStaysIf, ThreadKeepsUsers, NoMoreUsers
  <1>5. QED
    BY <1>1, <1>2, <1>3, <1>4 DEF Next

-----------------------------------------------------------------------------
(* The theorems.                                                           *)

LEMMA InductiveInvariant == Spec => []IInv
  <1>1. Init => IInv
    BY InitShapeInv, InitQueueInv, InitCountInv DEF IInv
  <1>2. IInv /\ [Next]_vars => IInv'
    BY NextShapeInv, NextQueueInv, NextCountInv DEF IInv
  <1>3. QED
    BY <1>1, <1>2, PTL DEF Spec

\* The state of the loader, its thread and its callers keeps its types
\* (ModelLoader.cpp, ModelInstance.cpp).
THEOREM TypeCorrect == Spec => []TypeOK
  <1>1. IInv => TypeOK
    BY DEF IInv, ShapeInv
  <1>2. QED
    BY <1>1, InductiveInvariant, PTL

\* Without a lost or reset count, a model has as many users as instances hold
\* it, and the mutex of the queue comes back unless animations were left
\* without a model, for any number of callers, instances and models
\* (ModelLoader.cpp:66-91, 499-530, 1037).
THEOREM LoaderIsSound == Spec => []ModelLoaderInv
  <1>1. IInv => UsersCounted
    <2> SUFFICES ASSUME IInv, Unspoilt, NEW p \in Paths
                 PROVE  Cardinality(Holders(p)) <= myUserCount[p]
      BY DEF UsersCounted, Unspoilt
    <2>1. /\ myUserCount[p] \in Nat /\ Cardinality(Users(p)) <= myUserCount[p]
      BY CountFacts DEF IInv
    <2>2. Holders(p) \subseteq Users(p) /\ Holders(p) \subseteq Everyone
      BY DEF Users, Holders, Everyone
    <2>3. /\ Cardinality(Holders(p)) <= Cardinality(Users(p))
          /\ Cardinality(Holders(p)) \in Nat /\ Cardinality(Users(p)) \in Nat
      BY <2>2, UsersType, SmallerSet, SetSize
    <2>4. QED
      BY <2>1, <2>3
  <1>2. IInv => TypeOK /\ LockIsReturned
    BY DEF IInv, ShapeInv, QueueInv
  <1>3. IInv => ModelLoaderInv
    BY <1>1, <1>2 DEF ModelLoaderInv
  <1>4. QED
    BY <1>3, InductiveInvariant, PTL

\* A model an instance holds stays in its map as long as no count was lost or
\* reset and the thread did not lose the entry it works on
\* (ModelInstance.cpp:219-229, ModelLoader.cpp:1180-1225).
THEOREM HeldStays == Spec => []HeldModelsStay
  <1>1. IInv => HeldModelsStay
    <2> SUFFICES ASSUME IInv, ~Happened({"lost", "reset", "stale"}), NEW p \in Paths \ entries
                 PROVE  Holders(p) = {}
      BY DEF HeldModelsStay
    <2>1. Unspoilt /\ ~Happened({"stale"})
      BY DEF Unspoilt, Happened
    <2>2. QED
      BY <2>1 DEF IInv, CountInv, UsedStays, Users
  <1>2. QED
    BY <1>1, InductiveInvariant, PTL

\* A load that was asked for and has not arrived is in the queue or in the
\* hands of the thread (ModelLoader.cpp:66-91, 507-522).
THEOREM LoadsStay == Spec => []LoadsAreRemembered
  <1>1. IInv => LoadsAreRemembered
    BY DEF IInv, QueueInv
  <1>2. QED
    BY <1>1, InductiveInvariant, PTL

\* IsLoading and an empty queue together say that the thread has nothing in
\* hand (ModelLoader.cpp:65, 89, 1227-1230).
THEOREM IdleIsIdle == Spec => []IdleMeansIdle
  <1>1. IInv => IdleMeansIdle
    <2> SUFFICES ASSUME IInv, ~myIsLoading PROVE LoaderAt("idle") \/ LoaderAt("stopped")
      BY DEF IdleMeansIdle
    <2>1. loader \in LoaderRecords /\ loader.pc \notin Busy \cup {"lock"}
      BY TypeFacts DEF IInv, ShapeInv, ThreadCarriesModel
    <2>2. QED
      BY <2>1 DEF LoaderRecords, Busy, LoaderAt
  <1>2. QED
    BY <1>1, InductiveInvariant, PTL
=============================================================================
