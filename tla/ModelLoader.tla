----------------------------- MODULE ModelLoader -----------------------------
(***************************************************************************)
(* The model loader (Engine/ModelLoader.cpp) and the instances that use it *)
(* (Engine/ModelInstance.cpp).  Instances ask for a model and get it at    *)
(* once if its map has it; otherwise a command waits in a queue for the    *)
(* loading thread, which loads the model and writes it into the instance.  *)
(* Models count their users and are unloaded when the last one goes.       *)
(*                                                                         *)
(* A caller is a thread that uses instances of its own: the main thread,   *)
(* and the culling tasks if ThreadCulling is on.  The counts, the maps and *)
(* the pointer an instance holds are shared without a lock, so a step is   *)
(* what happens between two accesses to them.  This is the release build.  *)
(* An instance is custom for good or never; models made in code (the cube, *)
(* the plane) are loaded like the others.  The definitions called Faulty   *)
(* are no part of the specification.                                       *)
(***************************************************************************)
EXTENDS Integers, Sequences, FiniteSets

CONSTANTS
    Callers,       \* threads that use instances
    Instances,     \* model instances
    Owner,         \* the thread each instance belongs to
    Paths,         \* models
    Kind,          \* "plain", "skinned" or "custom": the map a model is kept in
    FirstPaths,    \* the paths the instances may start with
    MayFail,       \* whether a model can fail to load
    QueueLimit,    \* bound on the commands when an animation is added, not in the code
    CountModulus,  \* 2^32: myUserCount is an unsigned int
    UserLimit,     \* bound on the counts when an instance is loaded or copied, not in
                   \* the code
    Tolerated,     \* bound: calls are made while only these accidents have happened
    NoModel, NoCaller

ASSUME InstancesAssumption ==
    /\ Owner \in [Instances -> Callers] /\ \A c \in Callers : \E i \in Instances : Owner[i] = c
    /\ FirstPaths \subseteq [Instances -> Paths]
    /\ Kind \in [Paths -> {"plain", "skinned", "custom"}]
    /\ MayFail \in BOOLEAN /\ NoModel \notin Paths /\ NoCaller \notin Callers
    /\ IsFiniteSet(Callers) /\ IsFiniteSet(Instances)
    /\ Instances \cap Paths = {} /\ Instances \cap Callers = {}
    /\ "loader" \notin Callers \cup Instances \cup {NoCaller}
ASSUME BoundsAssumption == QueueLimit \in Nat /\ UserLimit \in Nat /\ CountModulus \in Nat \ {0, 1}
\* 2^32 is more than twice the users there are while an instance may be loaded,
\* and those who may be waiting for a model then.
ASSUME RoomAssumption ==
    2 * (UserLimit + Cardinality(Callers) + Cardinality(Instances) + 1) <= CountModulus

VARIABLES
    myLoadCommands,  \* the oldest first
    myIsLoading,
    ModelAddMutex,   \* who holds it
    ModelLoadMutex,
    entries,         \* keys of myModelMap, mySkinnedModelMap and myCustomModelMap
    myUserCount,     \* of each model, kept when its entry is removed
    loader,          \* the loading thread: where it is, its command, the count it read
    caller,          \* each thread: where it is, its instance, where it goes next
    myModel,         \* per instance: the model it points to
    myPath,
    myLoaded,
    events           \* history: the accidents of the races so far

instanceVars == <<myModel, myPath, myLoaded>>
queueVars == <<myLoadCommands, ModelAddMutex>>
mapVars == <<entries, ModelLoadMutex>>
vars == <<queueVars, mapVars, instanceVars, myIsLoading, myUserCount, loader, caller, events>>

-----------------------------------------------------------------------------
NoCommand == [path |-> NoModel]
Commands == [path : Paths, model : Instances, isAnimation : BOOLEAN]

\* What can go wrong between the threads, recorded when it happens.
Events == {"overwritten",  \* Load puts nullptr over a model the thread just wrote
           "reset",        \* the thread sets to 0 a count that has users
           "lost",         \* the thread's AddUser loses another's
           "stale",        \* a model the thread works on is unloaded
           "late",         \* an instance has a model of another path than its own
           "failed",       \* a model is not loaded
           "stopped",      \* the thread reads myStopThread before it is set, and ends
           "orphaned"}     \* animations wait for an instance nobody loads

Happened(E) == events \cap E # {}
Note(E) == events' = events \cup E
When(condition, event) == IF condition THEN {event} ELSE {}

RemoveAt(s, k) == SubSeq(s, 1, k - 1) \o SubSeq(s, k + 1, Len(s))
Positions(s) == 1 .. Len(s)

Queued(i) == \E k \in Positions(myLoadCommands) :
                 myLoadCommands[k].model = i /\ ~myLoadCommands[k].isAnimation
Animated(i) == \E k \in Positions(myLoadCommands) :
                   myLoadCommands[k].model = i /\ myLoadCommands[k].isAnimation
Carried(i) == loader.pc \in {"lookup", "create", "load", "add"} /\ loader.command.model = i
Pending(i) == Queued(i) \/ Carried(i)

\* Instances that count as users of a model: not the one that is being released.
Leaving(i) == caller[Owner[i]].pc = "unload" /\ caller[Owner[i]].model = i
Holders(p) == {i \in Instances : myModel[i] = p /\ ~Leaving(i)}

\* GetModel and GetCustomModel find what their map has.  GetSkinnedModel looks
\* for aPath, and the skinned map is keyed by aPath and aSkeletonPath together.
Found(p) == p \in entries /\ Kind[p] # "skinned"

\* UnloadModel(aPath) removes from the map of the plain models only, also when
\* the instance is custom.
Unloadable(p) == p \in entries /\ Kind[p] # "custom"

\* A thread between two calls.
Idle(c) == [pc |-> "idle", model |-> CHOOSE i \in Instances : Owner[i] = c,
            next |-> "idle", other |-> NoModel, result |-> NoModel]

Init ==
    /\ myLoadCommands = <<>> /\ myIsLoading \in BOOLEAN
    /\ ModelAddMutex = NoCaller /\ ModelLoadMutex = NoCaller
    /\ entries = {} /\ myUserCount = [p \in Paths |-> 0]
    /\ loader \in [pc : {"idle", "stopped"}, command : {NoCommand}, count : {0}]
    /\ caller = [c \in Callers |-> Idle(c)]
    /\ myModel = [i \in Instances |-> NoModel] /\ myPath \in FirstPaths
    /\ myLoaded = [i \in Instances |-> FALSE]
    /\ events = When(loader.pc = "stopped", "stopped")

-----------------------------------------------------------------------------
(* Instances: Init, Load, Release and operator=, which all release first.  *)

At(c, pc) == caller[c].pc = pc
GoTo(c, pc) ==
    caller' = [caller EXCEPT ![c] = IF pc = "idle" THEN Idle(c) ELSE [@ EXCEPT !.pc = pc]]

Unused(users) == users = 0

\* Release up to UnloadModel, for an instance that holds a model or none.
StartRelease(c, i, next, other) ==
    /\ At(c, "idle") /\ Owner[i] = c
    /\ LET p == myModel[i]
           users == IF p = NoModel THEN 1 ELSE (myUserCount[p] - 1) % CountModulus
           last == p # NoModel /\ Unused(users)
       IN  /\ caller' = [caller EXCEPT ![c] =
                   IF ~last /\ next = "idle" THEN Idle(c)
                   ELSE [@ EXCEPT !.pc = IF last THEN "unload" ELSE next,
                                  !.model = i, !.next = next, !.other = other]]
           /\ myUserCount' = IF p = NoModel THEN myUserCount
                             ELSE [myUserCount EXCEPT ![p] = users]
           /\ myModel' = IF last THEN myModel ELSE [myModel EXCEPT ![i] = NoModel]
    /\ myLoaded' = [myLoaded EXCEPT ![i] = FALSE]
    /\ Note(When(Animated(i) /\ (next # "get" \/ myModel[i] # NoModel), "orphaned"))
    /\ UNCHANGED <<queueVars, mapVars, myPath, myIsLoading, loader>>

\* The bound: no more users, unless a count went below 0.
FewUsers == \A p \in Paths : myUserCount[p] < UserLimit \/ 2 * myUserCount[p] > CountModulus

Release(c, i) == StartRelease(c, i, "idle", NoModel)
Load(c, i) == FewUsers /\ StartRelease(c, i, "get", NoModel)
StartInit(c, i, p) == /\ Kind[p] = Kind[myPath[i]]
                      /\ StartRelease(c, i, "init", p)
StartCopy(c, i, j) == /\ FewUsers /\ i # j /\ Owner[j] = c /\ Kind[myPath[j]] = Kind[myPath[i]]
                      /\ StartRelease(c, i, "copy", j)

\* UnloadModel, by the path of the instance.  A model that is not in the map
\* leaves ModelLoadMutex locked.
UnloadModel(c) ==
    LET i == caller[c].model
        p == myPath[i]
    IN  /\ At(c, "unload") /\ ModelLoadMutex = NoCaller
        /\ entries' = IF Unloadable(p) THEN entries \ {p} ELSE entries
        /\ ModelLoadMutex' = IF Unloadable(p) THEN NoCaller ELSE c
        /\ myModel' = [myModel EXCEPT ![i] = NoModel]
        /\ GoTo(c, caller[c].next)
        /\ Note(When(/\ Unloadable(p)
                     /\ \/ myUserCount[p] # 0
                        \/ loader.pc \in {"load", "add"} /\ loader.command.path = p,
                     "stale"))
        /\ UNCHANGED <<queueVars, myPath, myLoaded, myIsLoading, myUserCount, loader>>

\* The rest of ModelInstance::Init.
InitInstance(c) ==
    /\ At(c, "init")
    /\ myPath' = [myPath EXCEPT ![caller[c].model] = caller[c].other]
    /\ GoTo(c, "idle")
    /\ Note(When(myModel[caller[c].model] \notin {NoModel, caller[c].other}, "late"))
    /\ UNCHANGED <<queueVars, mapVars, myModel, myLoaded, myIsLoading, myUserCount, loader>>

\* The rest of ModelInstance::operator=.
CopyInstance(c) ==
    LET i == caller[c].model
        from == caller[c].other
        p == myModel[from]
    IN  /\ At(c, "copy")
        /\ myPath' = [myPath EXCEPT ![i] = myPath[from]]
        /\ myModel' = [myModel EXCEPT ![i] = p]
        /\ myLoaded' = [myLoaded EXCEPT ![i] = myLoaded[from] /\ p # NoModel]
        /\ myUserCount' = IF p = NoModel THEN myUserCount
                          ELSE [myUserCount EXCEPT ![p] = (@ + 1) % CountModulus]
        /\ GoTo(c, "idle")
        /\ UNCHANGED <<queueVars, mapVars, myIsLoading, loader, events>>

-----------------------------------------------------------------------------
(* GetModel, GetSkinnedModel, GetCustomModel and AddAnimations.            *)

FaultyGetFound(c) ==
    LET p == myPath[caller[c].model]
    IN  /\ At(c, "get") /\ Found(p)
        /\ caller' = [caller EXCEPT ![c] = [@ EXCEPT !.pc = "assign", !.result = p]]
        /\ UNCHANGED <<queueVars, mapVars, instanceVars, myIsLoading, myUserCount, loader,
                       events>>

\* The map has the model, whole or still being loaded.
GetFound(c) ==
    LET p == myPath[caller[c].model]
    IN  /\ At(c, "get") /\ Found(p)
        /\ myUserCount' = [myUserCount EXCEPT ![p] = (@ + 1) % CountModulus]
        /\ caller' = [caller EXCEPT ![c] = [@ EXCEPT !.pc = "assign", !.result = p]]
        /\ UNCHANGED <<queueVars, mapVars, instanceVars, myIsLoading, loader, events>>

GetMissed(c) ==
    /\ At(c, "get") /\ ~Found(myPath[caller[c].model])
    /\ GoTo(c, "queue")
    /\ UNCHANGED <<queueVars, mapVars, instanceVars, myIsLoading, myUserCount, loader, events>>

FaultyRedirected(s, i, p) == SelectSeq(s, LAMBDA command : command.model # i)

\* The command of an instance that already waits gets the new path.
Redirected(s, i, p) ==
    [k \in Positions(s) |-> IF s[k].model = i /\ ~s[k].isAnimation
                            THEN [s[k] EXCEPT !.path = p] ELSE s[k]]

\* The part of GetModel under ModelAddMutex.
AddCommand(c) ==
    LET i == caller[c].model
        p == myPath[i]
    IN  /\ At(c, "queue") /\ ModelAddMutex = NoCaller
        /\ Kind[p] # "custom"
        /\ myLoadCommands' =
               IF Queued(i) THEN Redirected(myLoadCommands, i, p)
               ELSE Append(myLoadCommands, [path |-> p, model |-> i, isAnimation |-> FALSE])
        /\ caller' = [caller EXCEPT ![c] = [@ EXCEPT !.pc = "assign", !.result = NoModel]]
        /\ UNCHANGED <<ModelAddMutex, mapVars, instanceVars, myIsLoading, myUserCount, loader,
                       events>>

\* GetCustomModel loads at once, in the calling thread and under ModelAddMutex.
LoadCustom(c) ==
    LET i == caller[c].model
        p == myPath[i]
    IN  /\ At(c, "queue") /\ ModelAddMutex = NoCaller /\ ModelLoadMutex = NoCaller
        /\ Kind[p] = "custom"
        /\ entries' = entries \cup {p}
        /\ myUserCount' = [myUserCount EXCEPT ![p] =
                              IF p \in entries THEN (@ + 1) % CountModulus ELSE 1]
        /\ caller' = [caller EXCEPT ![c] = [@ EXCEPT !.pc = "assign", !.result = p]]
        /\ UNCHANGED <<queueVars, ModelLoadMutex, instanceVars, myIsLoading, loader, events>>

\* The end of ModelInstance::Load.
Assign(c) ==
    LET i == caller[c].model
    IN  /\ At(c, "assign")
        /\ myModel' = [myModel EXCEPT ![i] = caller[c].result]
        /\ myLoaded' = [myLoaded EXCEPT ![i] = TRUE]
        /\ GoTo(c, "idle")
        /\ Note(When(myModel[i] # NoModel, "overwritten"))
        /\ UNCHANGED <<queueVars, mapVars, myPath, myIsLoading, myUserCount, loader>>

\* AddAnimations, which ModelInstance calls for skinned models only.
AddAnimations(c, i) ==
    /\ At(c, "idle") /\ Owner[i] = c /\ Kind[myPath[i]] = "skinned"
    /\ ModelAddMutex = NoCaller /\ Len(myLoadCommands) < QueueLimit
    /\ myLoadCommands' = Append(myLoadCommands, [path |-> myPath[i], model |-> i,
                                                 isAnimation |-> TRUE])
    /\ Note(When(myModel[i] = NoModel /\ ~Pending(i), "orphaned"))
    /\ UNCHANGED <<ModelAddMutex, mapVars, instanceVars, myIsLoading, myUserCount, loader,
                   caller>>

-----------------------------------------------------------------------------
(* The loading thread: LoadThreaded and LoadModel.                         *)

LoaderAt(pc) == loader.pc = pc
LoaderGoesTo(pc) == loader' = [loader EXCEPT !.pc = pc]

FaultySeeCommands ==
    /\ LoaderAt("idle") /\ myLoadCommands # <<>>
    /\ LoaderGoesTo("lock")
    /\ UNCHANGED <<queueVars, mapVars, instanceVars, myIsLoading, myUserCount, caller, events>>

\* The size of the queue is read without the mutex.
SeeCommands ==
    /\ LoaderAt("idle") /\ myLoadCommands # <<>>
    /\ myIsLoading' = TRUE /\ LoaderGoesTo("lock")
    /\ UNCHANGED <<queueVars, mapVars, instanceVars, myUserCount, caller, events>>

SeeNothing ==
    /\ LoaderAt("idle") /\ myLoadCommands = <<>> /\ myIsLoading
    /\ myIsLoading' = FALSE
    /\ UNCHANGED <<queueVars, mapVars, instanceVars, myUserCount, loader, caller, events>>

FaultyValid(k) == myModel[myLoadCommands[k].model] # NoModel

\* Animations wait until their model is there.
Valid(k) == ~myLoadCommands[k].isAnimation \/ myModel[myLoadCommands[k].model] # NoModel
ValidCommands == {k \in Positions(myLoadCommands) : Valid(k)}

FaultyTakeCommand ==
    /\ LoaderAt("lock") /\ ModelAddMutex = NoCaller
    /\ \E k \in ValidCommands :
           /\ \A j \in ValidCommands : k >= j
           /\ myLoadCommands' = RemoveAt(myLoadCommands, k)
           /\ loader' = [loader EXCEPT
                  !.pc = IF myLoadCommands[k].isAnimation THEN "idle" ELSE "lookup",
                  !.command = IF myLoadCommands[k].isAnimation THEN NoCommand
                              ELSE myLoadCommands[k]]
    /\ UNCHANGED <<ModelAddMutex, mapVars, instanceVars, myIsLoading, myUserCount, caller,
                   events>>

\* The oldest valid command.  LoadAnimations changes nothing modelled here.
TakeCommand ==
    /\ LoaderAt("lock") /\ ModelAddMutex = NoCaller
    /\ \E k \in ValidCommands :
           /\ \A j \in ValidCommands : k <= j
           /\ myLoadCommands' = RemoveAt(myLoadCommands, k)
           /\ loader' = [loader EXCEPT
                  !.pc = IF myLoadCommands[k].isAnimation THEN "idle" ELSE "lookup",
                  !.command = IF myLoadCommands[k].isAnimation THEN NoCommand
                              ELSE myLoadCommands[k]]
    /\ UNCHANGED <<ModelAddMutex, mapVars, instanceVars, myIsLoading, myUserCount, caller,
                   events>>

\* Only animations whose models are missing: they are dropped, and continue
\* skips the unlock.
DropAnimations ==
    /\ LoaderAt("lock") /\ ModelAddMutex = NoCaller /\ ValidCommands = {}
    /\ myLoadCommands' = <<>> /\ ModelAddMutex' = "loader"
    /\ LoaderGoesTo("idle")
    /\ UNCHANGED <<mapVars, instanceVars, myIsLoading, myUserCount, caller, events>>

\* LoadModel finds the model, and reads the count it is about to raise.
LookUp ==
    LET p == loader.command.path
    IN  /\ LoaderAt("lookup")
        /\ loader' = IF p \in entries
                     THEN [loader EXCEPT !.pc = "add", !.count = myUserCount[p]]
                     ELSE [loader EXCEPT !.pc = "create"]
        /\ UNCHANGED <<queueVars, mapVars, instanceVars, myIsLoading, myUserCount, caller,
                       events>>

\* The model reaches the instance with this count of users.
Deliver(users, accidents) ==
    LET p == loader.command.path
        i == loader.command.model
    IN  /\ myUserCount' = [myUserCount EXCEPT ![p] = users]
        /\ myModel' = [myModel EXCEPT ![i] = p]
        /\ loader' = [pc |-> "idle", command |-> NoCommand, count |-> 0]
        /\ Note(accidents \cup When(myPath[i] # p, "late"))
        /\ UNCHANGED <<queueVars, mapVars, myPath, myLoaded, myIsLoading, caller>>

AddUser ==
    /\ LoaderAt("add")
    /\ Deliver((loader.count + 1) % CountModulus,
               When(myUserCount[loader.command.path] # loader.count, "lost"))

\* An entry that was removed comes back as it was.
CreateEntry ==
    /\ LoaderAt("create") /\ ModelLoadMutex = NoCaller
    /\ entries' = entries \cup {loader.command.path}
    /\ LoaderGoesTo("load")
    /\ UNCHANGED <<queueVars, ModelLoadMutex, instanceVars, myIsLoading, myUserCount, caller,
                   events>>

\* myUserCount = 0 and AddUser: whoever found the entry meanwhile is forgotten.
FinishLoad ==
    /\ LoaderAt("load")
    /\ Deliver(1, When(myUserCount[loader.command.path] # 0, "reset"))

FailLoad ==
    /\ MayFail /\ LoaderAt("load")
    /\ loader' = [pc |-> "idle", command |-> NoCommand, count |-> 0]
    /\ Note({"failed"})
    /\ UNCHANGED <<queueVars, mapVars, instanceVars, myIsLoading, myUserCount, caller>>

LoadThreaded ==
    \/ SeeCommands \/ SeeNothing \/ TakeCommand \/ DropAnimations
    \/ LookUp \/ AddUser \/ CreateEntry \/ FinishLoad \/ FailLoad

Returns(c) ==
    \/ UnloadModel(c) \/ InitInstance(c) \/ CopyInstance(c) \/ GetFound(c) \/ GetMissed(c)
    \/ AddCommand(c) \/ LoadCustom(c) \/ Assign(c)

Calls(c) ==
    /\ events \subseteq Tolerated
    /\ \E i \in Instances : \/ Load(c, i) \/ Release(c, i) \/ AddAnimations(c, i)
                            \/ \E p \in Paths : StartInit(c, i, p)
                            \/ \E j \in Instances : StartCopy(c, i, j)

Next == LoadThreaded \/ \E c \in Callers : Calls(c) \/ Returns(c)

Spec == Init /\ [][Next]_vars

\* The operating system runs every thread; what is begun is carried on.
FairSpec == Spec /\ WF_vars(LoadThreaded) /\ \A c \in Callers : WF_vars(Returns(c))

-----------------------------------------------------------------------------
TypeOK ==
    /\ myLoadCommands \in Seq(Commands) /\ myIsLoading \in BOOLEAN
    /\ ModelAddMutex \in {NoCaller, "loader"} /\ ModelLoadMutex \in Callers \cup {NoCaller}
    /\ entries \subseteq Paths /\ myUserCount \in [Paths -> 0 .. CountModulus - 1]
    /\ loader \in [pc : {"idle", "stopped", "lock", "lookup", "create", "load", "add"},
                   command : Commands \cup {NoCommand}, count : 0 .. CountModulus - 1]
    /\ caller \in [Callers ->
           [pc : {"idle", "unload", "init", "copy", "get", "queue", "assign"},
            model : Instances, next : {"idle", "init", "copy", "get"},
            other : Instances \cup Paths \cup {NoModel}, result : Paths \cup {NoModel}]]
    /\ myModel \in [Instances -> Paths \cup {NoModel}] /\ myPath \in [Instances -> Paths]
    /\ myLoaded \in [Instances -> BOOLEAN]
    /\ events \subseteq Events

\* A load that was asked for and not answered waits in the queue or is in the
\* hands of the thread: neither the dropped animations nor the path that is
\* changed in the queue loses one (ModelLoader.cpp:66-91, 507-522).
LoadsAreRemembered ==
    ~Happened({"overwritten", "failed"}) =>
        \A i \in Instances : myLoaded[i] /\ myModel[i] = NoModel => Pending(i)

\* A model has at least as many users as instances hold it
\* (ModelInstance.cpp:218, ModelLoader.cpp:499-530, 1037).
UsersCounted ==
    ~Happened({"lost", "reset"}) =>
        \A p \in Paths : Cardinality(Holders(p)) <= myUserCount[p]

\* A model that an instance holds is not unloaded (ModelInstance.cpp:219-229).
HeldModelsStay ==
    ~Happened({"lost", "reset", "stale"}) =>
        \A p \in Paths \ entries : Holders(p) = {}

\* The thread gives ModelAddMutex back (ModelLoader.cpp:66-91).
LockIsReturned ==
    ~Happened({"orphaned", "failed", "overwritten"}) => ModelAddMutex # "loader"

\* While the accidents of the code do not happen, the thread and its callers
\* leave the loader as they found it: users are counted and the lock is given
\* back (ModelLoader.cpp:66-91, 499-530, 1037).
ModelLoaderInv == TypeOK /\ UsersCounted /\ LockIsReturned

\* What IsLoading reads says that nothing is left to do only when the thread
\* carries nothing (ModelLoader.cpp:65, 89, 1227-1230).
IdleMeansIdle ==
    ~myIsLoading /\ myLoadCommands = <<>> => LoaderAt("idle") \/ LoaderAt("stopped")

\* A model that is unloaded is in the map (the assertion ModelLoader.cpp:1184).
UnloadFindsModel ==
    \A c \in Callers : At(c, "unload") => Unloadable(myPath[caller[c].model])

\* Every command is taken from the queue (ModelLoader.cpp:58-106).
CommandsAreTaken ==
    \A i \in Instances : Queued(i) ~> (~Queued(i) \/ events # {})
=============================================================================
