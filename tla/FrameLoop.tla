------------------------------ MODULE FrameLoop ------------------------------
(***************************************************************************)
(* A frame of the engine (Launcher/main.cpp, Engine/Engine.cpp) on top of  *)
(* the thread pool: the main thread switches the two render buffers, hands *)
(* the rendering of one and the physics to the pool, fills the other       *)
(* buffer with the help of culling tasks, and waits with Sync.             *)
(*                                                                         *)
(* The main thread is the pool's only client.  What a task does is here,   *)
(* when it starts and returns is the pool's: the worker that runs a task   *)
(* returns from it (Finish) once it did what the task does.  The           *)
(* definitions called Faulty are no part of the specification.             *)
(***************************************************************************)
EXTENDS Threadpool

CONSTANTS
    main,          \* the main thread
    CullingTasks,  \* lists the pool culls, each by a task: 7 in the code
    DividedFrames, \* bound on the frames whose culling may be divided, not in the code
    MaxFrames      \* bound on the frames before the program ends, not in the code

ASSUME FrameAssumption ==
    /\ Clients = {main} /\ CullingTasks \in Nat
    /\ DividedFrames \in Nat /\ MaxFrames \in Nat
    /\ NoID \notin IDs

VARIABLES
    phase,             \* where the main thread is in its loop
    myRenderBufferA,   \* buffer A is the one to render
    myIsCulled,        \* the lists whose culling is done
    list,              \* the list whose task is added next
    job,               \* what each task is
    reading,           \* per worker: the buffer Render has taken, or "culled"
    frames,            \* frames begun
    earlySync,         \* history: a Sync returned before a task it waits for
    refused            \* history: the pool refused a task

frameVars == <<phase, myRenderBufferA, myIsCulled, list, frames>>
taskVars == <<job, reading>>
historyVars == <<earlySync, refused>>
allVars == <<vars, frameVars, taskVars, historyVars>>

-----------------------------------------------------------------------------
Buffers == {"A", "B"}
CullingLists == 1 .. CullingTasks
Render == [kind |-> "render", list |-> 0]
Physics == [kind |-> "physics", list |-> 0]
Culling(k) == [kind |-> "culling", list |-> k]
Jobs == {Render, Physics} \cup {Culling(k) : k \in CullingLists}

BufferToRender == IF myRenderBufferA THEN "A" ELSE "B"
OtherBuffer == IF myRenderBufferA THEN "B" ELSE "A"

\* The phases in which the main thread writes the buffer that is not rendered.
WritingPhases == {"clean", "draw", "cull", "await"}

\* The pool is not in the middle of a call of the main thread.
Free == call[main] = "ready"

SyncTasks == {t \in DOMAIN job : job[t] \in {Render, Physics}}

FrameInit ==
    /\ Init
    /\ phase = "begin" /\ myRenderBufferA \in BOOLEAN
    /\ myIsCulled = {} /\ list = 1 /\ job = <<>> /\ frames = 0
    /\ reading = [w \in Workers |-> "none"]
    /\ earlySync = FALSE /\ refused = FALSE

-----------------------------------------------------------------------------
(* The tasks.                                                              *)

Doing(w, j) == pc[w] = "run" /\ job[currentTask[w].id] = j

FaultyTakeBuffer(w) ==
    /\ Doing(w, Render) /\ reading[w] = "none"
    /\ reading' = [reading EXCEPT ![w] = OtherBuffer]
    /\ UNCHANGED <<vars, frameVars, job, historyVars>>

\* Render takes the buffer once, when it starts (RenderManager::Render).
TakeBuffer(w) ==
    /\ Doing(w, Render) /\ reading[w] = "none"
    /\ reading' = [reading EXCEPT ![w] = BufferToRender]
    /\ UNCHANGED <<vars, frameVars, job, historyVars>>

FaultyReportCulled(w) ==
    \E k \in CullingLists :
        /\ Doing(w, Culling(k)) /\ reading[w] = "none"
        /\ reading' = [reading EXCEPT ![w] = "culled"]
        /\ UNCHANGED <<vars, frameVars, job, historyVars>>

\* The last statement of CullModelList.
ReportCulled(w) ==
    \E k \in CullingLists :
        /\ Doing(w, Culling(k)) /\ reading[w] = "none"
        /\ myIsCulled' = myIsCulled \cup {k}
        /\ reading' = [reading EXCEPT ![w] = "culled"]
        /\ UNCHANGED <<vars, phase, myRenderBufferA, list, job, frames, historyVars>>

TaskDone(w) == Doing(w, Physics) \/ reading[w] # "none"

\* A step of a worker in the pool; it returns from a task that is done.
PoolStep(w) ==
    /\ Work(w)
    /\ pc[w] = "run" => TaskDone(w)
    /\ reading' = [reading EXCEPT ![w] = IF pc[w] = "run" THEN "none" ELSE @]
    /\ UNCHANGED <<frameVars, job, historyVars>>

-----------------------------------------------------------------------------
(* The main thread: Run.                                                   *)

\* The rest of a call of the pool.  Sync has returned when the flags were read.
CallStep ==
    /\ Continue(main)
    /\ earlySync' = (earlySync \/ /\ call[main] = "sync" /\ call'[main] = "ready"
                                  /\ ~(SyncTasks \subseteq finished))
    /\ UNCHANGED <<frameVars, taskVars, refused>>

\* AddTask; what it answers is not looked at.
Add(j, sync) ==
    /\ \/ /\ AddTask(main, sync, NoID)
          /\ job' = [t \in DOMAIN job \cup {myNextID} |-> IF t = myNextID THEN j ELSE job[t]]
          /\ UNCHANGED refused
       \/ AddTaskRefused(main) /\ refused' = TRUE /\ UNCHANGED job
    /\ UNCHANGED <<myRenderBufferA, myIsCulled, reading, frames, earlySync>>

\* SwitchAndCleanBuffers: the buffer that was filled is the one to render.
SwitchBuffers ==
    /\ Free /\ phase = "begin" /\ frames < MaxFrames
    /\ myRenderBufferA' = ~myRenderBufferA
    /\ phase' = "clean" /\ frames' = frames + 1
    /\ UNCHANGED <<vars, myIsCulled, list, taskVars, historyVars>>

CleanBuffer ==
    /\ Free /\ phase = "clean" /\ phase' = "render"
    /\ UNCHANGED <<vars, myRenderBufferA, myIsCulled, list, frames, taskVars, historyVars>>

AddRender ==
    Free /\ phase = "render" /\ Add(Render, TRUE) /\ phase' = "physics" /\ UNCHANGED list
AddPhysics ==
    Free /\ phase = "physics" /\ Add(Physics, TRUE) /\ phase' = "draw" /\ UNCHANGED list

\* The states draw and CreateRenderCommands begins; the culling is divided if
\* there are many models.
StartCommands ==
    /\ Free /\ phase = "draw"
    /\ phase' = "sync" \/ (frames <= DividedFrames /\ phase' = "cull")
    /\ myIsCulled' = {} /\ list' = 1
    /\ UNCHANGED <<vars, myRenderBufferA, frames, taskVars, historyVars>>

\* One task per list.
AddCulling ==
    /\ Free /\ phase = "cull"
    /\ IF list \in CullingLists
       THEN Add(Culling(list), FALSE) /\ list' = list + 1 /\ UNCHANGED phase
       ELSE /\ phase' = "await"
            /\ UNCHANGED <<vars, myRenderBufferA, myIsCulled, list, frames, taskVars, historyVars>>

FaultyAllCulled ==
    /\ Free /\ phase = "await" /\ CullingLists \ {CullingTasks} \subseteq myIsCulled
    /\ phase' = "sync"
    /\ UNCHANGED <<vars, myRenderBufferA, myIsCulled, list, frames, taskVars, historyVars>>

\* while (!cullingCollection[collectionIndex].myIsCulled): then the lists and
\* collections, which are local, are gone.
AllCulled ==
    /\ Free /\ phase = "await" /\ myIsCulled = CullingLists
    /\ phase' = "sync"
    /\ UNCHANGED <<vars, myRenderBufferA, myIsCulled, list, frames, taskVars, historyVars>>

StartSync ==
    /\ Free /\ phase = "sync"
    /\ Sync(main) /\ phase' = "end"
    /\ UNCHANGED <<myRenderBufferA, myIsCulled, list, frames, taskVars, historyVars>>

\* EndFrame, and the next frame or the end of the loop.
EndFrame ==
    /\ Free /\ phase = "end"
    /\ phase' \in {"begin", "destroyPhysics"}
    /\ UNCHANGED <<vars, myRenderBufferA, myIsCulled, list, frames, taskVars, historyVars>>

\* PhysicsInterface::Destroy comes before Threadpool::DestroyInstance.
DestroyPhysics ==
    /\ Free /\ phase = "destroyPhysics" /\ phase' = "destroyPool"
    /\ UNCHANGED <<vars, myRenderBufferA, myIsCulled, list, frames, taskVars, historyVars>>

DestroyPool ==
    /\ phase = "destroyPool" /\ Destroy(main) /\ phase' = "gone"
    /\ UNCHANGED <<myRenderBufferA, myIsCulled, list, frames, taskVars, historyVars>>

Gone ==
    /\ phase = "gone" /\ Terminated
    /\ UNCHANGED <<frameVars, taskVars, historyVars>>

Run ==
    \/ SwitchBuffers \/ CleanBuffer \/ AddRender \/ AddPhysics \/ StartCommands
    \/ AddCulling \/ AllCulled \/ StartSync \/ EndFrame \/ DestroyPhysics \/ DestroyPool \/ CallStep

FrameNext ==
    \/ \E w \in Workers : PoolStep(w) \/ TakeBuffer(w) \/ ReportCulled(w)
    \/ Run \/ Gone

FrameSpec == FrameInit /\ [][FrameNext]_allVars

\* The threads run; a lock that is free again and again is taken.
FairFrameSpec ==
    /\ FrameSpec /\ SF_allVars(Run)
    /\ \A w \in Workers : SF_allVars(PoolStep(w) \/ TakeBuffer(w) \/ ReportCulled(w))

-----------------------------------------------------------------------------
FrameTypeOK ==
    /\ phase \in {"begin", "clean", "render", "physics", "draw", "cull", "await", "sync", "end",
                 "destroyPhysics", "destroyPool", "gone"}
    /\ myRenderBufferA \in BOOLEAN /\ myIsCulled \subseteq CullingLists
    /\ list \in 1 .. CullingTasks + 1 /\ frames \in 0 .. MaxFrames
    /\ job \in [AcceptedIDs -> Jobs] /\ reading \in [Workers -> Buffers \cup {"none", "culled"}]
    /\ earlySync \in BOOLEAN /\ refused \in BOOLEAN

\* While the main thread cleans or fills a buffer, no task renders it, unless a
\* Sync returned early (Engine.cpp:490-530, main.cpp:172-207).
BuffersApart ==
    phase \in WritingPhases /\ ~earlySync => \A w \in Workers : reading[w] # OtherBuffer

Unfinished(j) == {t \in DOMAIN job : job[t] = j} \ finished

\* The lists and collections of CreateRenderCommands are there as long as a
\* culling task has still to write into them (Engine.cpp:303-350).
CollectionsOutliveTasks ==
    phase \notin {"cull", "await"} =>
        \A k \in CullingLists :
            /\ QueuedIDs \cap Unfinished(Culling(k)) = {}
            /\ \A w \in Workers : Doing(w, Culling(k)) => reading[w] = "culled"

\* When the physics are destroyed, no task updates them, unless a Sync returned
\* early (main.cpp:235-236).
PhysicsOutliveTasks ==
    phase \in {"destroyPool", "gone"} /\ ~earlySync => Unfinished(Physics) = {}

\* A pool with room for the tasks of one frame refuses none, unless a Sync
\* returned early; a culling task that is refused is awaited for ever
\* (Engine.cpp:314, 333).
FrameFits ==
    Capacity >= CullingTasks + 2 /\ ~earlySync => ~refused

\* What a task of the frame works on lives as long as the task, and the pool
\* has room for every task (Engine.cpp:303-350, main.cpp:235-236).
FrameInv == FrameTypeOK /\ CollectionsOutliveTasks /\ PhysicsOutliveTasks /\ FrameFits

\* A frame that is begun ends, unless a task was refused.
FramesEnd == phase = "clean" ~> phase = "end" \/ refused
=============================================================================
