---------------------------- MODULE Threadpool ----------------------------
(***************************************************************************)
(* The engine's thread pool (Engine/Threadpool.cpp): a last-in-first-out   *)
(* list of tasks behind myTaskMutex, a list of the identifiers being       *)
(* worked on behind myDependancyMutex, and one atomic "waiting" flag per   *)
(* worker.  Workers poll; AddTask, WaitForTask, Sync and the destructor    *)
(* are called by the clients (in the engine, the main thread).             *)
(*                                                                         *)
(* Atomicity.  One step is one access to what another thread can see:      *)
(* a critical section of myTaskMutex that touches nothing else, a critical *)
(* section of myDependancyMutex (a leaf lock, nothing is acquired inside), *)
(* or one access of an atomic.  A worker that takes a task holds           *)
(* myTaskMutex over two such steps ("claim" and "pop").                    *)
(***************************************************************************)
EXTENDS Integers, Sequences

CONSTANTS
    ThreadCount,  \* number of worker threads the constructor starts
    Capacity,     \* aMaxTaskCount, the capacity of myTasks
    Clients,      \* threads that call the pool
    FirstIDs,     \* values the uninitialised myNextID may start with
    LastID        \* bound on the identifiers handed out, not in the code

ASSUME ThreadCountAssumption == ThreadCount \in Nat \ {0}
ASSUME CapacityAssumption == Capacity \in Nat \ {0}
ASSUME FirstIDsAssumption == FirstIDs \subseteq Int
ASSUME LastIDAssumption == LastID \in Int

VARIABLES
    myTasks,               \* the task list; the last element is taken first
    myWorkingDependancies, \* identifiers claimed by a worker
    myWaitingThreads,      \* one flag per worker
    myNextID,
    myContinueWork,
    myTaskMutex,           \* the worker that holds it, or NoThread
    pc,                    \* where each worker is in Work
    currentTask,           \* the task each worker has taken
    call,                  \* what each client is doing
    arg,                   \* the identifier a client passed or got back
    idx,                   \* a client's loop index over the workers
    finished,              \* history: identifiers whose function returned
    owed                   \* history: see Sync

workerVars == <<pc, currentTask>>
clientVars == <<call, arg, idx, owed>>
vars == <<myTasks, myWorkingDependancies, myWaitingThreads, myNextID,
          myContinueWork, myTaskMutex, workerVars, clientVars, finished>>

-----------------------------------------------------------------------------
NoID == -1
NoThread == -1

Workers == 0 .. ThreadCount - 1

\* The identifiers AddTask can hand out within the bound.
IDs == UNION {n .. LastID - 1 : n \in FirstIDs}

Task == [id : Int, dependancy : Int, sync : BOOLEAN]

\* The default-constructed Task.
NullTask == [id |-> NoID, dependancy |-> NoID, sync |-> FALSE]

WorkerPCs == {"loop", "lock", "claim", "pop", "run", "release", "idle", "exit"}

ClientPCs == {"ready", "wake", "waitQueue", "waitWorking", "sync", "join", "gone"}

LastTask == myTasks[Len(myTasks)]

QueuedIDs == {myTasks[i].id : i \in 1 .. Len(myTasks)}

\* Identifiers of the tasks whose function has been called and not returned.
RunningIDs == {currentTask[w].id : w \in {v \in Workers : pc[v] = "run"}}

\* Every identifier AddTask has given to a task.
AcceptedIDs == QueuedIDs \cup RunningIDs \cup finished

\* What a caller can know: identifiers AddTask has already returned.
ReturnedIDs ==
    {t \in AcceptedIDs : \A c \in Clients : call[c] = "wake" => arg[c] # t}

(***************************************************************************)
(* The operations on the lists and the flags.  Where a faulty variant      *)
(* stands before an operator, it is the mistake a property must notice;    *)
(* the specification does not use it.                                      *)
(***************************************************************************)

RemoveLast(tasks) == [i \in 1 .. Len(tasks) - 1 |-> tasks[i]]

KeepOrder(tasks) == tasks
InsertOnly(tasks) == <<tasks[Len(tasks)]>> \o tasks

\* RemoveLast followed by Insert(0, task): the last task goes to the front.
Rotate(tasks) ==
    [i \in 1 .. Len(tasks) |-> IF i = 1 THEN tasks[Len(tasks)] ELSE tasks[i - 1]]

Full == Len(myTasks) >= Capacity

BlockedByWorking == LastTask.dependancy \in myWorkingDependancies \ {NoID}

\* The dependency of the last task is being worked on or still queued below.
Blocked ==
    /\ LastTask.dependancy # NoID
    /\ \/ LastTask.dependancy \in myWorkingDependancies
       \/ \E i \in 1 .. Len(myTasks) - 1 : myTasks[i].id = LastTask.dependancy

\* What the working list gains when a task is claimed.
Claimed(task) == {task.id} \ {NoID}

ReleaseNothing(working, task) == working

\* What the working list keeps when a task has returned.
Released(working, task) == working \ {task.id}

\* The flag of a worker inside a task: only sync tasks are waited for by Sync.
WaitingWhileRunning(task) == ~task.sync

-----------------------------------------------------------------------------
\* The constructor starts the workers with myTaskMutex held, so none of them
\* passes its first lock before the flags exist.
Init ==
    /\ myTasks = <<>>
    /\ myWorkingDependancies = {}
    /\ myWaitingThreads = [w \in Workers |-> TRUE]
    /\ myNextID \in FirstIDs
    /\ myContinueWork = TRUE
    /\ myTaskMutex = NoThread
    /\ pc = [w \in Workers |-> "loop"]
    /\ currentTask = [w \in Workers |-> NullTask]
    /\ call = [c \in Clients |-> "ready"]
    /\ arg = [c \in Clients |-> NoID]
    /\ idx = [c \in Clients |-> 0]
    /\ finished = {}
    /\ owed = [c \in Clients |-> {}]

-----------------------------------------------------------------------------
(***************************************************************************)
(* Work                                                                    *)
(***************************************************************************)

\* while (myContinueWork) { currentTask = nullptr; ...
Loop(w) ==
    /\ pc[w] = "loop"
    /\ pc' = [pc EXCEPT ![w] = IF myContinueWork THEN "lock" ELSE "exit"]
    /\ currentTask' = [currentTask EXCEPT ![w] = NullTask]
    /\ UNCHANGED <<myTasks, myWorkingDependancies, myWaitingThreads, myNextID,
                   myContinueWork, myTaskMutex, clientVars, finished>>

\* Nothing queued: unlock, and only then raise the flag (Idle).
FindEmpty(w) ==
    /\ pc[w] = "lock" /\ myTaskMutex = NoThread
    /\ myTasks = <<>>
    /\ pc' = [pc EXCEPT ![w] = "idle"]
    /\ UNCHANGED <<myTasks, myWorkingDependancies, myWaitingThreads, myNextID,
                   myContinueWork, myTaskMutex, currentTask, clientVars, finished>>

\* The last task may not start yet: move it to the front and unlock.
Postpone(w) ==
    /\ pc[w] = "lock" /\ myTaskMutex = NoThread
    /\ myTasks # <<>> /\ Blocked
    /\ myTasks' = IF Len(myTasks) > 1 THEN Rotate(myTasks) ELSE myTasks
    /\ pc' = [pc EXCEPT ![w] = "idle"]
    /\ UNCHANGED <<myWorkingDependancies, myWaitingThreads, myNextID,
                   myContinueWork, myTaskMutex, currentTask, clientVars, finished>>

\* The last task may start; the worker keeps myTaskMutex.
Choose(w) ==
    /\ pc[w] = "lock" /\ myTaskMutex = NoThread
    /\ myTasks # <<>> /\ ~Blocked
    /\ myTaskMutex' = w
    /\ pc' = [pc EXCEPT ![w] = "claim"]
    /\ UNCHANGED <<myTasks, myWorkingDependancies, myWaitingThreads, myNextID,
                   myContinueWork, currentTask, clientVars, finished>>

Claim(w) ==
    /\ pc[w] = "claim"
    /\ myWorkingDependancies' = myWorkingDependancies \cup Claimed(LastTask)
    /\ pc' = [pc EXCEPT ![w] = "pop"]
    /\ UNCHANGED <<myTasks, myWaitingThreads, myNextID, myContinueWork,
                   myTaskMutex, currentTask, clientVars, finished>>

\* Flag, RemoveLast, unlock.
Pop(w) ==
    /\ pc[w] = "pop"
    /\ currentTask' = [currentTask EXCEPT ![w] = LastTask]
    /\ myWaitingThreads' =
         [myWaitingThreads EXCEPT ![w] = WaitingWhileRunning(LastTask)]
    /\ myTasks' = RemoveLast(myTasks)
    /\ myTaskMutex' = NoThread
    /\ pc' = [pc EXCEPT ![w] = "run"]
    /\ UNCHANGED <<myWorkingDependancies, myNextID, myContinueWork,
                   clientVars, finished>>

\* currentTask() returns.
Finish(w) ==
    /\ pc[w] = "run"
    /\ finished' = finished \cup {currentTask[w].id}
    /\ pc' = [pc EXCEPT ![w] = IF currentTask[w].id = NoID THEN "loop" ELSE "release"]
    /\ UNCHANGED <<myTasks, myWorkingDependancies, myWaitingThreads, myNextID,
                   myContinueWork, myTaskMutex, currentTask, clientVars>>

Release(w) ==
    /\ pc[w] = "release"
    /\ myWorkingDependancies' = Released(myWorkingDependancies, currentTask[w])
    /\ pc' = [pc EXCEPT ![w] = "loop"]
    /\ UNCHANGED <<myTasks, myWaitingThreads, myNextID, myContinueWork,
                   myTaskMutex, currentTask, clientVars, finished>>

\* Outside the lock: myWaitingThreads[aThreadIndex] = true, then sleep or yield.
Idle(w) ==
    /\ pc[w] = "idle"
    /\ myWaitingThreads' = [myWaitingThreads EXCEPT ![w] = TRUE]
    /\ pc' = [pc EXCEPT ![w] = "loop"]
    /\ UNCHANGED <<myTasks, myWorkingDependancies, myNextID, myContinueWork,
                   myTaskMutex, currentTask, clientVars, finished>>

Work(w) ==
    \/ Loop(w) \/ FindEmpty(w) \/ Postpone(w) \/ Choose(w) \/ Claim(w)
    \/ Pop(w) \/ Finish(w) \/ Release(w) \/ Idle(w)

-----------------------------------------------------------------------------
(***************************************************************************)
(* AddTask                                                                 *)
(***************************************************************************)

AddTask(c, aSync, aDependancy) ==
    /\ call[c] = "ready" /\ myContinueWork
    /\ myTaskMutex = NoThread
    /\ ~Full
    /\ myNextID < LastID
    /\ myTasks' = Append(myTasks, [id |-> myNextID,
                                   dependancy |-> aDependancy, sync |-> aSync])
    /\ myNextID' = myNextID + 1
    /\ call' = [call EXCEPT ![c] = "wake"]
    /\ arg' = [arg EXCEPT ![c] = myNextID]
    /\ idx' = [idx EXCEPT ![c] = 0]
    /\ UNCHANGED <<myWorkingDependancies, myWaitingThreads, myContinueWork,
                   myTaskMutex, workerVars, finished, owed>>

\* The list is full: AddTask answers -1 and no flag changes.
AddTaskRefused(c) ==
    /\ call[c] = "ready" /\ myContinueWork
    /\ myTaskMutex = NoThread
    /\ Full
    /\ arg' = [arg EXCEPT ![c] = NoID]
    /\ UNCHANGED <<myTasks, myWorkingDependancies, myWaitingThreads, myNextID,
                   myContinueWork, myTaskMutex, workerVars, call, idx, owed, finished>>

\* After the unlock, the flags are lowered one at a time.
LowerFlag(c) ==
    /\ call[c] = "wake"
    /\ myWaitingThreads' = [myWaitingThreads EXCEPT ![idx[c]] = FALSE]
    /\ idx' = [idx EXCEPT ![c] = @ + 1]
    /\ call' = [call EXCEPT ![c] = IF idx[c] + 1 = ThreadCount THEN "ready" ELSE "wake"]
    /\ UNCHANGED <<myTasks, myWorkingDependancies, myNextID, myContinueWork,
                   myTaskMutex, workerVars, arg, owed, finished>>

-----------------------------------------------------------------------------
(***************************************************************************)
(* WaitForTask                                                             *)
(***************************************************************************)

WaitForTask(c, aID) ==
    /\ call[c] = "ready" /\ myContinueWork
    /\ call' = [call EXCEPT ![c] = "waitQueue"]
    /\ arg' = [arg EXCEPT ![c] = aID]
    /\ UNCHANGED <<myTasks, myWorkingDependancies, myWaitingThreads, myNextID,
                   myContinueWork, myTaskMutex, workerVars, idx, owed, finished>>

ScanQueue(c) ==
    /\ call[c] = "waitQueue" /\ myTaskMutex = NoThread
    /\ call' = [call EXCEPT ![c] =
                  IF arg[c] \in QueuedIDs THEN "waitQueue" ELSE "waitWorking"]
    /\ UNCHANGED <<myTasks, myWorkingDependancies, myWaitingThreads, myNextID,
                   myContinueWork, myTaskMutex, workerVars, arg, idx, owed, finished>>

ScanWorking(c) ==
    /\ call[c] = "waitWorking"
    /\ call' = [call EXCEPT ![c] =
                  IF arg[c] \in myWorkingDependancies THEN "waitQueue" ELSE "ready"]
    /\ UNCHANGED <<myTasks, myWorkingDependancies, myWaitingThreads, myNextID,
                   myContinueWork, myTaskMutex, workerVars, arg, idx, owed, finished>>

-----------------------------------------------------------------------------
(***************************************************************************)
(* Sync.  The history variable owed records the sync tasks that run when   *)
(* the call begins.                                                        *)
(***************************************************************************)

RunningSyncIDs ==
    {currentTask[w].id : w \in {v \in Workers : pc[v] = "run" /\ currentTask[v].sync}}

Sync(c) ==
    /\ call[c] = "ready" /\ myContinueWork
    /\ call' = [call EXCEPT ![c] = "sync"]
    /\ idx' = [idx EXCEPT ![c] = 0]
    /\ owed' = [owed EXCEPT ![c] = RunningSyncIDs]
    /\ UNCHANGED <<myTasks, myWorkingDependancies, myWaitingThreads, myNextID,
                   myContinueWork, myTaskMutex, workerVars, arg, finished>>

NextWithoutRestart(c) == idx[c] + 1

\* The next flag Sync reads.
NextFlag(c) == IF myWaitingThreads[idx[c]] THEN idx[c] + 1 ELSE 0

\* One flag is read; a lowered one sends the scan back to the first worker.
ScanFlag(c) ==
    /\ call[c] = "sync"
    /\ idx' = [idx EXCEPT ![c] = NextFlag(c)]
    /\ call' = [call EXCEPT ![c] =
                  IF NextFlag(c) = ThreadCount
                  THEN "ready" ELSE "sync"]
    /\ UNCHANGED <<myTasks, myWorkingDependancies, myWaitingThreads, myNextID,
                   myContinueWork, myTaskMutex, workerVars, arg, owed, finished>>

-----------------------------------------------------------------------------
(***************************************************************************)
(* The destructor.  It runs when no other call is in progress; what is     *)
(* still queued is never started by a worker that reads myContinueWork     *)
(* afterwards.                                                             *)
(***************************************************************************)

Destroy(c) ==
    /\ \A d \in Clients : call[d] = "ready"
    /\ myContinueWork
    /\ myContinueWork' = FALSE
    /\ call' = [call EXCEPT ![c] = "join"]
    /\ idx' = [idx EXCEPT ![c] = ThreadCount]
    /\ UNCHANGED <<myTasks, myWorkingDependancies, myWaitingThreads, myNextID,
                   myTaskMutex, workerVars, arg, owed, finished>>

AlmostJoined(size) == size <= 1

\* while (myThreads.Size() > 0)
AllJoined(size) == size = 0

\* Join the last thread of myThreads and remove it.
Join(c) ==
    /\ call[c] = "join"
    /\ pc[idx[c] - 1] = "exit"
    /\ idx' = [idx EXCEPT ![c] = @ - 1]
    /\ call' = [call EXCEPT ![c] = IF AllJoined(idx[c] - 1) THEN "gone" ELSE "join"]
    /\ UNCHANGED <<myTasks, myWorkingDependancies, myWaitingThreads, myNextID,
                   myContinueWork, myTaskMutex, workerVars, arg, owed, finished>>

\* The pool is gone.
Terminated ==
    /\ \E c \in Clients : call[c] = "gone"
    /\ UNCHANGED vars

-----------------------------------------------------------------------------
\* A call a client chooses to make.
Begin(c) ==
    \/ \E aSync \in BOOLEAN, aDependancy \in ReturnedIDs \cup {NoID} :
          AddTask(c, aSync, aDependancy)
    \/ AddTaskRefused(c)
    \/ \E aID \in ReturnedIDs \cup {NoID} : WaitForTask(c, aID)
    \/ Sync(c)
    \/ Destroy(c)

\* A step of a call in progress.
Continue(c) ==
    \/ LowerFlag(c) \/ ScanQueue(c) \/ ScanWorking(c) \/ ScanFlag(c) \/ Join(c)

Next ==
    \/ \E w \in Workers : Work(w)
    \/ \E c \in Clients : Begin(c) \/ Continue(c)
    \/ Terminated

Spec == Init /\ [][Next]_vars

\* Worker threads are scheduled and task functions return.  A thread blocked
\* on a mutex that is released again and again gets it in the end (strong
\* fairness); nobody has to begin a call.
Fairness ==
    /\ \A w \in Workers : WF_vars(Work(w))
    /\ \A c \in Clients : SF_vars(Continue(c))

FairSpec == Spec /\ Fairness
-----------------------------------------------------------------------------
(***************************************************************************)
(* Properties                                                              *)
(***************************************************************************)

\* Every variable keeps its type; the list never outgrows the capacity that
\* Init gave it, and the loop indices stay within the arrays they index.
TypeOK ==
    /\ myTasks \in Seq(Task)
    /\ Len(myTasks) <= Capacity
    /\ myWorkingDependancies \subseteq Int
    /\ myWaitingThreads \in [Workers -> BOOLEAN]
    /\ myNextID \in Int
    /\ myContinueWork \in BOOLEAN
    /\ myTaskMutex \in Workers \cup {NoThread}
    /\ pc \in [Workers -> WorkerPCs]
    /\ currentTask \in [Workers -> Task]
    /\ call \in [Clients -> ClientPCs]
    /\ arg \in [Clients -> Int]
    /\ idx \in [Clients -> 0 .. ThreadCount]
    /\ finished \subseteq Int
    /\ owed \in [Clients -> SUBSET Int]

\* An accepted task is in one place: at one position of the list, or taken by
\* one worker, or finished.  So no function is called twice, whatever the
\* order in which workers lock, postpone and pop.
OnePlacePerTask ==
    /\ \A i, j \in 1 .. Len(myTasks) : myTasks[i].id = myTasks[j].id => i = j
    /\ \A v, w \in Workers :
          pc[v] = "run" /\ pc[w] = "run" /\ currentTask[v].id = currentTask[w].id
             => v = w
    /\ QueuedIDs \cap RunningIDs = {}
    /\ QueuedIDs \cap finished = {}
    /\ RunningIDs \cap finished = {}

\* No step loses a task AddTask accepted: postponing and popping move it.
NoTaskLost == [][AcceptedIDs \subseteq AcceptedIDs']_vars

\* A task whose dependency is a task starts only after that task has returned,
\* although the list, the working list and the claim are read in different
\* critical sections.
DependancyFirst ==
    \A w \in Workers :
        pc[w] = "run" => currentTask[w].dependancy \in finished \cup {NoID}

\* WaitForTask looks at the list and then at the working list, each under its
\* own lock; when it returns, the task it waited for has returned.
WaitForTaskWaits ==
    [][\A c \in Clients :
          call[c] = "waitWorking" /\ call'[c] = "ready"
             => arg[c] \in finished \cup {NoID}]_vars

\* A worker inside a sync task keeps its flag down, whatever AddTask and the
\* other workers write meanwhile.
SyncTaskKeepsFlagDown ==
    \A w \in Workers : pc[w] = "run" /\ currentTask[w].sync => ~myWaitingThreads[w]

\* What holds between any two steps of the threads: the list keeps to its
\* capacity, an accepted task is in one place, a task starts after the one it
\* depends on, and a worker in a sync task shows that it is busy
\* (Threadpool.cpp:55-152).
ThreadpoolInv ==
    TypeOK /\ OnePlacePerTask /\ DependancyFirst /\ SyncTaskKeepsFlagDown

\* When Sync returns, the sync tasks that ran when it was called have returned,
\* although it reads the flags one after the other.
SyncCoversRunningTasks ==
    [][\A c \in Clients :
          call[c] = "sync" /\ call'[c] = "ready" => owed[c] \subseteq finished]_vars

\* When the destructor is done, every worker has left Work, none of them inside
\* a task, a critical section or the working list.
QuietAfterDestroy ==
    (\E c \in Clients : call[c] = "gone") =>
        /\ \A w \in Workers : pc[w] = "exit"
        /\ myTaskMutex = NoThread
        /\ myWorkingDependancies = {}

\* An accepted task returns in the end, unless the pool is destroyed first: a
\* task postponed behind its dependency does not keep the workers busy forever.
EveryTaskReturns ==
    \A t \in IDs :
        t \in AcceptedIDs ~> (t \in finished \/ ~myContinueWork)

\* AddTask, WaitForTask, Sync and the destructor return.
CallsReturn ==
    \A c \in Clients : call[c] # "ready" ~> call[c] \in {"ready", "gone"}

(***************************************************************************)
(* The pool implements TaskPool: a task starts when it is popped and is    *)
(* complete when its function returns.                                     *)
(***************************************************************************)
Pending == {myTasks[i] : i \in 1 .. Len(myTasks)}

Awaited ==
    [c \in Clients |-> IF call[c] \in {"waitQueue", "waitWorking"} THEN {arg[c]} ELSE {}]

Pool == INSTANCE TaskPool WITH
            Tasks <- [id : IDs, dependancy : IDs \cup {NoID}, sync : BOOLEAN],
            Callers <- Clients, NoTask <- NoID, pending <- Pending,
            running <- RunningIDs, finished <- finished, awaited <- Awaited

\* Every behaviour of the thread pool is one the abstract pool allows.
ImplementsTaskPool == Pool!Spec
=============================================================================
