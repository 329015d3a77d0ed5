-------------------------- MODULE FrameLoop_proofs --------------------------
(***************************************************************************)
(* Theorems about the thread pool and the frame loop on top of it, for     *)
(* every number of workers, clients, culling tasks and frames, every       *)
(* capacity of the pool and every initial value of myNextID.               *)
(*                                                                         *)
(* The first part is about the pool alone: a specification that allows any *)
(* number of clients to call it at any time.  The main thread of the frame *)
(* loop is one such client, so what is proved of the pool holds there; the *)
(* second part is about which tasks a phase of the frame can meet.         *)
(***************************************************************************)
EXTENDS FrameLoop, SequenceTheorems, TLAPS

USE DEF NoID, NoThread

-----------------------------------------------------------------------------
(***************************************************************************)
(* The list operations                                                     *)
(***************************************************************************)

LEMMA RemoveLastType ==
    ASSUME NEW tasks \in Seq(Task), tasks # <<>>
    PROVE  /\ RemoveLast(tasks) \in Seq(Task)
           /\ Len(RemoveLast(tasks)) = Len(tasks) - 1
           /\ \A i \in 1 .. Len(tasks) - 1 : RemoveLast(tasks)[i] = tasks[i]
  <1>1. Len(tasks) \in Nat /\ Len(tasks) > 0
    OBVIOUS
  <1>2. RemoveLast(tasks) \in [1 .. Len(tasks) - 1 -> Task]
    BY <1>1 DEF RemoveLast
  <1>3. RemoveLast(tasks) \in Seq(Task) /\ Len(RemoveLast(tasks)) = Len(tasks) - 1
    BY <1>1, <1>2
  <1>4. QED
    BY <1>1, <1>3 DEF RemoveLast

LEMMA AppendType ==
    ASSUME NEW tasks \in Seq(Task), NEW task \in Task
    PROVE  /\ Append(tasks, task) \in Seq(Task)
           /\ Len(Append(tasks, task)) = Len(tasks) + 1
           /\ Append(tasks, task)[Len(tasks) + 1] = task
           /\ \A i \in 1 .. Len(tasks) : Append(tasks, task)[i] = tasks[i]
  BY AppendProperties

LEMMA RotateType ==
    ASSUME NEW tasks \in Seq(Task), tasks # <<>>
    PROVE  /\ Rotate(tasks) \in Seq(Task)
           /\ Len(Rotate(tasks)) = Len(tasks)
           /\ Rotate(tasks)[1] = tasks[Len(tasks)]
           /\ \A i \in 2 .. Len(tasks) : Rotate(tasks)[i] = tasks[i - 1]
  <1>1. Len(tasks) \in Nat /\ Len(tasks) > 0
    OBVIOUS
  <1>2. Rotate(tasks) \in [1 .. Len(tasks) -> Task]
    BY <1>1 DEF Rotate
  <1>3. Rotate(tasks) \in Seq(Task) /\ Len(Rotate(tasks)) = Len(tasks)
    BY <1>1, <1>2
  <1>4. QED
    BY <1>1, <1>3 DEF Rotate

-----------------------------------------------------------------------------
(***************************************************************************)
(* Types.  A worker that has chosen a task holds the lock and the list is  *)
(* not empty; a loop index is inside the array while its loop runs.        *)
(***************************************************************************)

LockHeld ==
    \A w \in Workers :
        pc[w] \in {"claim", "pop"} => myTaskMutex = w /\ myTasks # <<>>

IndexInRange ==
    \A c \in Clients :
        /\ call[c] \in {"wake", "sync"} => idx[c] < ThreadCount
        /\ call[c] = "join" => idx[c] > 0

TypeInv == TypeOK /\ LockHeld /\ IndexInRange

LEMMA InitTypeInv == Init => TypeInv
  BY ThreadCountAssumption, CapacityAssumption, FirstIDsAssumption
  DEF Init, TypeInv, TypeOK, LockHeld, IndexInRange, Workers, Task, NullTask,
      WorkerPCs, ClientPCs

LEMMA LastTaskType ==
    ASSUME TypeOK, myTasks # <<>>
    PROVE  LastTask \in Task
  BY DEF TypeOK, LastTask

LEMMA AcceptedType ==
    ASSUME TypeOK
    PROVE  AcceptedIDs \subseteq Int
  <1>1. QueuedIDs \subseteq Int
    <2>1. \A i \in 1 .. Len(myTasks) : myTasks[i] \in Task
      BY DEF TypeOK
    <2>2. QED
      BY <2>1 DEF QueuedIDs, Task
  <1>2. RunningIDs \subseteq Int
    BY DEF TypeOK, RunningIDs, Task
  <1>3. QED
    BY <1>1, <1>2 DEF AcceptedIDs, TypeOK

LEMMA NextTypeInv == TypeInv /\ [Next]_vars => TypeInv'
  <1> SUFFICES ASSUME TypeInv, [Next]_vars PROVE TypeInv'
    OBVIOUS
  <1> USE ThreadCountAssumption, CapacityAssumption
        DEF TypeInv, TypeOK, LockHeld, IndexInRange, vars, workerVars,
            clientVars, WorkerPCs, ClientPCs, Workers
  <1>1. ASSUME NEW w \in Workers, Loop(w) PROVE TypeInv'
    BY <1>1 DEF Loop, NullTask, Task
  <1>2. ASSUME NEW w \in Workers, FindEmpty(w) PROVE TypeInv'
    BY <1>2 DEF FindEmpty
  <1>3. ASSUME NEW w \in Workers, Postpone(w) PROVE TypeInv'
    BY <1>3, RotateType DEF Postpone
  <1>4. ASSUME NEW w \in Workers, Choose(w) PROVE TypeInv'
    BY <1>4 DEF Choose
  <1>5. ASSUME NEW w \in Workers, Claim(w) PROVE TypeInv'
    BY <1>5, LastTaskType DEF Claim, Claimed, Task
  <1>6. ASSUME NEW w \in Workers, Pop(w) PROVE TypeInv'
    <2>1. LastTask \in Task /\ WaitingWhileRunning(LastTask) \in BOOLEAN
      BY <1>6, LastTaskType DEF Pop, WaitingWhileRunning, Task
    <2>2. myTasks # <<>> /\ myTaskMutex = w
      BY <1>6 DEF Pop
    <2>3. myTasks' \in Seq(Task) /\ Len(myTasks') <= Capacity
      BY <1>6, <2>2, RemoveLastType DEF Pop
    <2>4. QED
      BY <1>6, <2>1, <2>2, <2>3 DEF Pop
  <1>7. ASSUME NEW w \in Workers, Finish(w) PROVE TypeInv'
    BY <1>7 DEF Finish, Task
  <1>8. ASSUME NEW w \in Workers, Release(w) PROVE TypeInv'
    BY <1>8 DEF Release, Released
  <1>9. ASSUME NEW w \in Workers, Idle(w) PROVE TypeInv'
    BY <1>9 DEF Idle
  <1>10. ASSUME NEW c \in Clients, NEW aSync \in BOOLEAN,
                NEW aDependancy \in ReturnedIDs \cup {NoID},
                AddTask(c, aSync, aDependancy)
         PROVE  TypeInv'
    <2>1. aDependancy \in Int
      BY AcceptedType DEF ReturnedIDs
    <2>2. [id |-> myNextID, dependancy |-> aDependancy, sync |-> aSync] \in Task
      BY <2>1 DEF Task
    <2>3. myTasks' \in Seq(Task) /\ Len(myTasks') <= Capacity /\ myTasks' # <<>>
      BY <1>10, <2>2, AppendType DEF AddTask, Full
    <2>4. QED
      BY <1>10, <2>3 DEF AddTask
  <1>11. ASSUME NEW c \in Clients, AddTaskRefused(c) PROVE TypeInv'
    BY <1>11 DEF AddTaskRefused
  <1>12. ASSUME NEW c \in Clients, LowerFlag(c) PROVE TypeInv'
    BY <1>12 DEF LowerFlag
  <1>13. ASSUME NEW c \in Clients, NEW aID \in ReturnedIDs \cup {NoID},
                WaitForTask(c, aID)
         PROVE  TypeInv'
    <2>1. aID \in Int
      BY AcceptedType DEF ReturnedIDs
    <2>2. QED
      BY <1>13, <2>1 DEF WaitForTask
  <1>14. ASSUME NEW c \in Clients, ScanQueue(c) PROVE TypeInv'
    BY <1>14 DEF ScanQueue
  <1>15. ASSUME NEW c \in Clients, ScanWorking(c) PROVE TypeInv'
    BY <1>15 DEF ScanWorking
  <1>16. ASSUME NEW c \in Clients, Sync(c) PROVE TypeInv'
    BY <1>16 DEF Sync, RunningSyncIDs, Task
  <1>17. ASSUME NEW c \in Clients, ScanFlag(c) PROVE TypeInv'
    <2>1. idx[c] \in 0 .. ThreadCount - 1 /\ NextFlag(c) \in 0 .. ThreadCount
      BY <1>17 DEF ScanFlag, NextFlag
    <2>2. idx' \in [Clients -> 0 .. ThreadCount] /\ idx'[c] = NextFlag(c)
      BY <1>17, <2>1 DEF ScanFlag
    <2>3. call' \in [Clients -> ClientPCs]
      BY <1>17 DEF ScanFlag
    <2>4. call'[c] = "sync" => NextFlag(c) < ThreadCount
      BY <1>17, <2>1 DEF ScanFlag
    <2>5. QED
      BY <1>17, <2>1, <2>2, <2>3, <2>4 DEF ScanFlag
  <1>18. ASSUME NEW c \in Clients, Destroy(c) PROVE TypeInv'
    <2>1. idx' = [idx EXCEPT ![c] = ThreadCount] /\ ThreadCount \in 1 .. ThreadCount
      BY <1>18 DEF Destroy
    <2>2. idx' \in [Clients -> 0 .. ThreadCount]
      BY <2>1
    <2>3. \A d \in Clients : call'[d] \in {"ready", "join"}
      BY <1>18 DEF Destroy
    <2>4. \A d \in Clients : call'[d] = "join" => d = c
      BY <1>18 DEF Destroy
    <2>5. QED
      <3>1. IndexInRange'
        BY <1>18, <2>1, <2>2, <2>3, <2>4
      <3>2. call' \in [Clients -> ClientPCs]
        BY <1>18 DEF Destroy
      <3>3. QED
        BY <1>18, <2>2, <3>1, <3>2 DEF Destroy
  <1>19. ASSUME NEW c \in Clients, Join(c) PROVE TypeInv'
    BY <1>19 DEF Join, AllJoined
  <1>20. CASE UNCHANGED vars
    BY <1>20
  <1>21. QED
    BY <1>1, <1>2, <1>3, <1>4, <1>5, <1>6, <1>7, <1>8, <1>9, <1>10, <1>11,
       <1>12, <1>13, <1>14, <1>15, <1>16, <1>17, <1>18, <1>19, <1>20
    DEF Next, Work, Begin, Continue, Terminated

\* Every variable keeps its type in every reachable state: the list never
\* outgrows its capacity and no loop of AddTask, Sync or the destructor leaves
\* the array of flags.
THEOREM TypeCorrect == Spec => []TypeOK
  <1>1. TypeInv => TypeOK
    BY DEF TypeInv
  <1>2. QED
    BY InitTypeInv, NextTypeInv, <1>1, PTL DEF Spec
-----------------------------------------------------------------------------
(***************************************************************************)
(* Who has a task.  An identifier moves from the list to a worker to       *)
(* finished; a worker adds it to the working list before it leaves the     *)
(* list and removes it from there after its function has returned.         *)
(***************************************************************************)

Fresh == \A t \in AcceptedIDs : t < myNextID

ReleasedIsFinished ==
    \A w \in Workers : pc[w] = "release" => currentTask[w].id \in finished

OlderDependancy ==
    \A i \in 1 .. Len(myTasks) :
        \/ myTasks[i].dependancy = NoID
        \/ /\ myTasks[i].dependancy \in AcceptedIDs
           /\ myTasks[i].dependancy < myTasks[i].id

ReadyToStart ==
    \A w \in Workers :
        pc[w] \in {"claim", "pop"} => LastTask.dependancy \in finished \cup {NoID}

Listed ==
    \A w \in Workers :
        /\ pc[w] = "pop" => LastTask.id \in myWorkingDependancies \cup {NoID}
        /\ pc[w] = "run" => currentTask[w].id \in myWorkingDependancies \cup {NoID}

AwaitedIsAccepted ==
    \A c \in Clients :
        /\ call[c] = "waitQueue" => arg[c] \in AcceptedIDs \cup {NoID}
        /\ call[c] = "waitWorking" => arg[c] \in RunningIDs \cup finished \cup {NoID}

PlaceInv ==
    /\ TypeInv
    /\ Fresh
    /\ OnePlacePerTask
    /\ ReleasedIsFinished
    /\ OlderDependancy
    /\ ReadyToStart
    /\ DependancyFirst
    /\ Listed
    /\ AwaitedIsAccepted

LEMMA InitPlaceInv == Init => PlaceInv
  <1> SUFFICES ASSUME Init PROVE PlaceInv
    OBVIOUS
  <1>1. TypeInv
    BY InitTypeInv
  <1>2. QueuedIDs = {} /\ RunningIDs = {} /\ finished = {}
    BY DEF Init, QueuedIDs, RunningIDs
  <1>3. \A w \in Workers : pc[w] = "loop"
    BY DEF Init
  <1>4. QED
    BY <1>1, <1>2, <1>3
    DEF PlaceInv, Fresh, AcceptedIDs, OnePlacePerTask, ReleasedIsFinished, Init,
        OlderDependancy, ReadyToStart, DependancyFirst, Listed, AwaitedIsAccepted

\* Steps that move no task, take no decision about one and end no wait.
LEMMA QuietStep ==
    ASSUME PlaceInv, TypeInv',
           UNCHANGED <<myTasks, finished, myNextID, myWorkingDependancies>>,
           \A v \in Workers :
              pc'[v] \in {"claim", "pop", "run", "release"}
                 => pc'[v] = pc[v] /\ currentTask'[v] = currentTask[v],
           \A v \in Workers : pc[v] = "run" => pc'[v] = "run",
           \A c \in Clients :
              call'[c] \in {"waitQueue", "waitWorking"}
                 => call'[c] = call[c] /\ arg'[c] = arg[c]
    PROVE  PlaceInv'
  <1>1. QueuedIDs' = QueuedIDs /\ LastTask' = LastTask
    BY DEF QueuedIDs, LastTask
  <1>2. RunningIDs' = RunningIDs
    BY DEF RunningIDs
  <1>3. AcceptedIDs' = AcceptedIDs
    BY <1>1, <1>2 DEF AcceptedIDs
  <1>4. Fresh'
    BY <1>3 DEF PlaceInv, Fresh
  <1>5. OnePlacePerTask'
    BY <1>1, <1>2 DEF PlaceInv, OnePlacePerTask
  <1>6. ReleasedIsFinished' /\ ReadyToStart' /\ DependancyFirst' /\ Listed'
    BY <1>1 DEF PlaceInv, ReleasedIsFinished, ReadyToStart, DependancyFirst, Listed
  <1>7. OlderDependancy'
    BY <1>3 DEF PlaceInv, OlderDependancy
  <1>8. AwaitedIsAccepted'
    BY <1>2, <1>3 DEF PlaceInv, AwaitedIsAccepted
  <1>9. QED
    BY <1>4, <1>5, <1>6, <1>7, <1>8 DEF PlaceInv
\* Moving the last task to the front, or leaving the list alone, permutes the
\* list: every position of the new list shows a position of the old one.
LEMMA PostponePermutes ==
    ASSUME TypeInv, NEW w \in Workers, Postpone(w)
    PROVE  \E f \in [1 .. Len(myTasks) -> 1 .. Len(myTasks)] :
              /\ Len(myTasks') = Len(myTasks)
              /\ \A i \in 1 .. Len(myTasks) : myTasks'[i] = myTasks[f[i]]
              /\ \A i, j \in 1 .. Len(myTasks) : f[i] = f[j] => i = j
              /\ \A j \in 1 .. Len(myTasks) : \E i \in 1 .. Len(myTasks) : f[i] = j
  <1> DEFINE n == Len(myTasks)
  <1>1. n \in Nat /\ n > 0 /\ myTasks \in Seq(Task) /\ myTasks # <<>>
    BY DEF TypeInv, TypeOK, Postpone
  <1>2. CASE n > 1
    <2> DEFINE f == [i \in 1 .. n |-> IF i = 1 THEN n ELSE i - 1]
    <2>1. f \in [1 .. n -> 1 .. n]
      BY <1>1
    <2>2. myTasks' = Rotate(myTasks)
      BY <1>2 DEF Postpone
    <2>3. Len(myTasks') = n /\ \A i \in 1 .. n : myTasks'[i] = myTasks[f[i]]
      BY <1>1, <2>2, RotateType
    <2>4. \A i, j \in 1 .. n : f[i] = f[j] => i = j
      BY <1>1
    <2>5. \A j \in 1 .. n : \E i \in 1 .. n : f[i] = j
      <3> TAKE j \in 1 .. n
      <3>1. CASE j = n
        BY <1>1, <3>1
      <3>2. CASE j # n
        <4>1. j + 1 \in 1 .. n /\ f[j + 1] = j
          BY <1>1, <3>2
        <4>2. QED
          BY <4>1
      <3>3. QED
        BY <3>1, <3>2
    <2> HIDE DEF f
    <2>6. QED
      BY <2>1, <2>3, <2>4, <2>5
  <1>3. CASE n = 1
    <2> DEFINE f == [i \in 1 .. n |-> i]
    <2>1. myTasks' = myTasks
      BY <1>3 DEF Postpone
    <2>2. f \in [1 .. n -> 1 .. n] /\ \A i \in 1 .. n : f[i] = i
      OBVIOUS
    <2> HIDE DEF f
    <2>3. \A i \in 1 .. n : myTasks'[i] = myTasks[f[i]]
      BY <2>1, <2>2
    <2>4. \A i, j \in 1 .. n : f[i] = f[j] => i = j
      BY <2>2
    <2>5. \A j \in 1 .. n : \E i \in 1 .. n : f[i] = j
      BY <2>2
    <2>6. QED
      BY <2>1, <2>2, <2>3, <2>4, <2>5
  <1>4. n = 1 \/ n > 1
    <2>1. n \in Nat /\ n > 0
      BY <1>1
    <2> HIDE DEF n
    <2>2. QED
      BY <2>1
  <1>5. QED
    BY <1>2, <1>3, <1>4, Zenon

\* So postponing changes the order of the list and nothing else of it.
LEMMA PostponeKeepsPending ==
    ASSUME PlaceInv, NEW w \in Workers, Postpone(w)
    PROVE  Pending' = Pending /\ QueuedIDs' = QueuedIDs
  <1> DEFINE n == Len(myTasks)
  <1>1. PICK f \in [1 .. n -> 1 .. n] :
              /\ Len(myTasks') = n
              /\ \A i \in 1 .. n : myTasks'[i] = myTasks[f[i]]
              /\ \A i, j \in 1 .. n : f[i] = f[j] => i = j
              /\ \A j \in 1 .. n : \E i \in 1 .. n : f[i] = j
    BY PostponePermutes DEF PlaceInv
  <1>2. Pending' = {myTasks'[i] : i \in 1 .. n}
    BY <1>1 DEF Pending
  <1>3. \A task \in Pending' : task \in Pending
    <2> SUFFICES ASSUME NEW i \in 1 .. n PROVE myTasks'[i] \in Pending
      BY <1>2
    <2>1. f[i] \in 1 .. n /\ myTasks'[i] = myTasks[f[i]]
      BY <1>1
    <2>2. QED
      BY <2>1 DEF Pending
  <1>4. \A task \in Pending : task \in Pending'
    <2> SUFFICES ASSUME NEW j \in 1 .. n PROVE myTasks[j] \in Pending'
      BY DEF Pending
    <2>1. PICK i \in 1 .. n : f[i] = j
      BY <1>1
    <2>2. myTasks'[i] = myTasks[j]
      BY <1>1, <2>1
    <2>3. QED
      BY <1>2, <2>2
  <1>5. Pending' = Pending
    BY <1>3, <1>4
  <1>6. QueuedIDs = {task.id : task \in Pending} /\ QueuedIDs' = {task.id : task \in Pending'}
    BY DEF QueuedIDs, Pending
  <1>7. QED
    BY <1>5, <1>6

LEMMA PostponePlaceInv ==
    ASSUME PlaceInv, TypeInv', NEW w \in Workers, Postpone(w)
    PROVE  PlaceInv'
  <1> DEFINE n == Len(myTasks)
  <1>1. PICK f \in [1 .. n -> 1 .. n] :
              /\ Len(myTasks') = n
              /\ \A i \in 1 .. n : myTasks'[i] = myTasks[f[i]]
              /\ \A i, j \in 1 .. n : f[i] = f[j] => i = j
              /\ \A j \in 1 .. n : \E i \in 1 .. n : f[i] = j
    BY PostponePermutes DEF PlaceInv
  <1>2. QueuedIDs' = QueuedIDs
    BY PostponeKeepsPending
  <1>3. /\ UNCHANGED <<finished, myNextID, myWorkingDependancies, currentTask, call, arg>>
        /\ myTaskMutex = NoThread /\ pc[w] = "lock"
        /\ pc' = [pc EXCEPT ![w] = "idle"] /\ pc \in [Workers -> WorkerPCs]
    BY DEF PlaceInv, TypeInv, TypeOK, Postpone, clientVars
  <1>4. RunningIDs' = RunningIDs
    BY <1>3 DEF RunningIDs
  <1>5. AcceptedIDs' = AcceptedIDs
    BY <1>2, <1>3, <1>4 DEF AcceptedIDs
  <1>6. \A v \in Workers : pc'[v] \notin {"claim", "pop"}
    BY <1>3, ThreadCountAssumption DEF PlaceInv, TypeInv, LockHeld, Workers
  <1>7. Fresh'
    BY <1>3, <1>5 DEF PlaceInv, Fresh
  <1>8. OnePlacePerTask'
    <2>1. \A i, j \in 1 .. n : myTasks'[i].id = myTasks'[j].id => i = j
      <3> SUFFICES ASSUME NEW i \in 1 .. n, NEW j \in 1 .. n,
                          myTasks'[i].id = myTasks'[j].id
                   PROVE  i = j
        OBVIOUS
      <3>1. f[i] \in 1 .. n /\ f[j] \in 1 .. n /\ myTasks[f[i]].id = myTasks[f[j]].id
        BY <1>1
      <3>2. f[i] = f[j]
        BY <3>1 DEF PlaceInv, OnePlacePerTask
      <3>3. QED
        BY <1>1, <3>2
    <2>2. \A u, v \in Workers :
             pc'[u] = "run" /\ pc'[v] = "run" /\ currentTask'[u].id = currentTask'[v].id
                => u = v
      BY <1>3 DEF PlaceInv, OnePlacePerTask
    <2>3. QED
      BY <1>1, <1>2, <1>3, <1>4, <2>1, <2>2, Zenon DEF PlaceInv, OnePlacePerTask
  <1>9. ReleasedIsFinished' /\ ReadyToStart' /\ DependancyFirst' /\ Listed'
    <2>1. \A v \in Workers : pc'[v] \in {"run", "release"} => pc'[v] = pc[v]
      BY <1>3
    <2>2. QED
      BY <1>3, <1>6, <2>1
      DEF PlaceInv, ReleasedIsFinished, ReadyToStart, DependancyFirst, Listed
  <1>10. OlderDependancy'
    BY <1>1, <1>5 DEF PlaceInv, OlderDependancy
  <1>11. AwaitedIsAccepted'
    BY <1>3, <1>4, <1>5 DEF PlaceInv, AwaitedIsAccepted
  <1>12. QED
    BY <1>7, <1>8, <1>9, <1>10, <1>11 DEF PlaceInv

\* The worker that holds the lock is the only one between Choose and Pop.
LEMMA ChoosePlaceInv ==
    ASSUME PlaceInv, TypeInv', NEW w \in Workers, Choose(w)
    PROVE  PlaceInv'
  <1>1. /\ UNCHANGED <<myTasks, finished, myNextID, myWorkingDependancies,
                       currentTask, call, arg>>
        /\ pc[w] = "lock" /\ pc' = [pc EXCEPT ![w] = "claim"]
        /\ pc \in [Workers -> WorkerPCs] /\ myTasks # <<>>
        /\ myTasks \in Seq(Task)
    BY DEF PlaceInv, TypeInv, TypeOK, Choose, clientVars
  <1>2. QueuedIDs' = QueuedIDs /\ LastTask' = LastTask
    BY <1>1 DEF QueuedIDs, LastTask
  <1>3. RunningIDs' = RunningIDs
    BY <1>1 DEF RunningIDs
  <1>4. AcceptedIDs' = AcceptedIDs
    BY <1>1, <1>2, <1>3 DEF AcceptedIDs
  <1>5. LastTask.dependancy \in finished \cup {NoID}
    <2> SUFFICES ASSUME LastTask.dependancy # NoID PROVE LastTask.dependancy \in finished
      OBVIOUS
    <2>1. Len(myTasks) \in 1 .. Len(myTasks) /\ LastTask \in Task
      BY <1>1 DEF LastTask
    <2>2. LastTask.dependancy \in AcceptedIDs /\ LastTask.dependancy < LastTask.id
      BY <2>1 DEF PlaceInv, OlderDependancy, LastTask
    <2>3. /\ LastTask.dependancy \notin myWorkingDependancies
          /\ \A i \in 1 .. Len(myTasks) - 1 : myTasks[i].id # LastTask.dependancy
      BY DEF Choose, Blocked
    <2>4. LastTask.dependancy \notin QueuedIDs
      <3>1. LastTask.dependancy # LastTask.id
        BY <2>1, <2>2 DEF Task
      <3>2. QED
        BY <1>1, <2>1, <2>3, <3>1 DEF QueuedIDs, LastTask
    <2>5. LastTask.dependancy \notin RunningIDs
      BY <2>3 DEF PlaceInv, Listed, RunningIDs
    <2>6. QED
      BY <2>2, <2>4, <2>5 DEF AcceptedIDs
  <1>6. Fresh'
    BY <1>1, <1>4 DEF PlaceInv, Fresh
  <1>7. OnePlacePerTask'
    BY <1>1, <1>2, <1>3 DEF PlaceInv, OnePlacePerTask
  <1>8. ReleasedIsFinished' /\ DependancyFirst' /\ Listed'
    BY <1>1, <1>2 DEF PlaceInv, ReleasedIsFinished, DependancyFirst, Listed
  <1>9. ReadyToStart'
    BY <1>1, <1>2, <1>5 DEF PlaceInv, ReadyToStart
  <1>10. OlderDependancy'
    BY <1>1, <1>4 DEF PlaceInv, OlderDependancy
  <1>11. AwaitedIsAccepted'
    BY <1>1, <1>3, <1>4 DEF PlaceInv, AwaitedIsAccepted
  <1>12. QED
    BY <1>6, <1>7, <1>8, <1>9, <1>10, <1>11 DEF PlaceInv
LEMMA ClaimPlaceInv ==
    ASSUME PlaceInv, TypeInv', NEW w \in Workers, Claim(w)
    PROVE  PlaceInv'
  <1>1. /\ UNCHANGED <<myTasks, finished, myNextID, currentTask, call, arg>>
        /\ myWorkingDependancies' = myWorkingDependancies \cup Claimed(LastTask)
        /\ pc[w] = "claim" /\ pc' = [pc EXCEPT ![w] = "pop"]
        /\ pc \in [Workers -> WorkerPCs]
    BY DEF PlaceInv, TypeInv, TypeOK, Claim, clientVars
  <1>2. QueuedIDs' = QueuedIDs /\ LastTask' = LastTask
    BY <1>1 DEF QueuedIDs, LastTask
  <1>3. RunningIDs' = RunningIDs
    BY <1>1 DEF RunningIDs
  <1>4. AcceptedIDs' = AcceptedIDs
    BY <1>1, <1>2, <1>3 DEF AcceptedIDs
  <1>5. LastTask.id \in myWorkingDependancies' \cup {NoID}
    BY <1>1 DEF Claimed
  <1>6. Fresh'
    BY <1>1, <1>4 DEF PlaceInv, Fresh
  <1>7. OnePlacePerTask'
    BY <1>1, <1>2, <1>3 DEF PlaceInv, OnePlacePerTask
  <1>8. ReleasedIsFinished' /\ DependancyFirst' /\ ReadyToStart'
    BY <1>1, <1>2 DEF PlaceInv, ReleasedIsFinished, DependancyFirst, ReadyToStart
  <1>9. Listed'
    BY <1>1, <1>2, <1>5 DEF PlaceInv, Listed
  <1>10. OlderDependancy'
    BY <1>1, <1>4 DEF PlaceInv, OlderDependancy
  <1>11. AwaitedIsAccepted'
    BY <1>1, <1>3, <1>4 DEF PlaceInv, AwaitedIsAccepted
  <1>12. QED
    BY <1>6, <1>7, <1>8, <1>9, <1>10, <1>11 DEF PlaceInv

\* Popping moves one identifier from the list to the running tasks.
LEMMA PopMoves ==
    ASSUME PlaceInv, NEW w \in Workers, Pop(w)
    PROVE  /\ QueuedIDs' = QueuedIDs \ {LastTask.id}
           /\ RunningIDs' = RunningIDs \cup {LastTask.id}
           /\ LastTask.id \in QueuedIDs
           /\ AcceptedIDs' = AcceptedIDs
  <1> DEFINE n == Len(myTasks)
  <1>1. myTasks # <<>> /\ myTasks \in Seq(Task) /\ pc \in [Workers -> WorkerPCs]
        /\ currentTask \in [Workers -> Task]
    BY DEF PlaceInv, TypeInv, TypeOK, LockHeld, Pop
  <1>2. n \in Nat /\ n > 0
    BY <1>1
  <1>3. Len(myTasks') = n - 1 /\ \A i \in 1 .. n - 1 : myTasks'[i] = myTasks[i]
    BY <1>1, RemoveLastType DEF Pop
  <1>4. \A i, j \in 1 .. n : myTasks[i].id = myTasks[j].id => i = j
    BY DEF PlaceInv, OnePlacePerTask
  <1>5. QueuedIDs' = {myTasks[i].id : i \in 1 .. n - 1}
    BY <1>3 DEF QueuedIDs
  <1>6. LastTask.id = myTasks[n].id
    BY DEF LastTask
  <1>7. QueuedIDs = {myTasks[i].id : i \in 1 .. n}
    BY DEF QueuedIDs
  <1> HIDE DEF n
  <1>8. QueuedIDs' = QueuedIDs \ {LastTask.id} /\ LastTask.id \in QueuedIDs
    <2>1. n \in 1 .. n /\ \A i \in 1 .. n - 1 : i \in 1 .. n /\ i # n
      BY <1>2
    <2>2. \A i \in 1 .. n : i = n \/ i \in 1 .. n - 1
      BY <1>2
    <2>3. LastTask.id \in QueuedIDs
      BY <2>1, <1>6, <1>7
    <2>4. \A t \in QueuedIDs' : t \in QueuedIDs /\ t # LastTask.id
      BY <2>1, <1>4, <1>5, <1>6, <1>7
    <2>5. \A t \in QueuedIDs : t = LastTask.id \/ t \in QueuedIDs'
      BY <2>2, <1>5, <1>6, <1>7
    <2>6. QED
      BY <2>3, <2>4, <2>5
  <1>9. RunningIDs' = RunningIDs \cup {LastTask.id}
    <2>1. /\ pc[w] = "pop" /\ pc' = [pc EXCEPT ![w] = "run"]
          /\ currentTask' = [currentTask EXCEPT ![w] = LastTask]
      BY DEF Pop
    <2>2. \A v \in Workers : pc'[v] = "run" <=> pc[v] = "run" \/ v = w
      BY <1>1, <2>1
    <2>3. \A v \in Workers : pc[v] = "run" => currentTask'[v] = currentTask[v]
      BY <1>1, <2>1
    <2>4. currentTask'[w] = LastTask
      BY <1>1, <2>1
    <2>5. QED
      BY <2>2, <2>3, <2>4 DEF RunningIDs
  <1>10. finished' = finished
    BY DEF Pop
  <1>11. QED
    BY <1>8, <1>9, <1>10 DEF AcceptedIDs

LEMMA PopPlaceInv ==
    ASSUME PlaceInv, TypeInv', NEW w \in Workers, Pop(w)
    PROVE  PlaceInv'
  <1>1. /\ UNCHANGED <<finished, myNextID, myWorkingDependancies, call, arg>>
        /\ pc[w] = "pop" /\ pc' = [pc EXCEPT ![w] = "run"]
        /\ currentTask' = [currentTask EXCEPT ![w] = LastTask]
        /\ pc \in [Workers -> WorkerPCs] /\ currentTask \in [Workers -> Task]
        /\ myTasks # <<>> /\ myTasks \in Seq(Task)
    BY DEF PlaceInv, TypeInv, TypeOK, LockHeld, Pop, clientVars
  <1>2. /\ QueuedIDs' = QueuedIDs \ {LastTask.id}
        /\ RunningIDs' = RunningIDs \cup {LastTask.id}
        /\ LastTask.id \in QueuedIDs
        /\ AcceptedIDs' = AcceptedIDs
    BY PopMoves
  <1>3. /\ \A i \in 1 .. Len(myTasks') : i \in 1 .. Len(myTasks)
        /\ \A i \in 1 .. Len(myTasks') : myTasks'[i] = myTasks[i]
    <2>1. /\ Len(myTasks') = Len(myTasks) - 1
          /\ \A i \in 1 .. Len(myTasks) - 1 : myTasks'[i] = myTasks[i]
      BY <1>1, RemoveLastType DEF Pop
    <2>2. Len(myTasks) \in Nat
      BY <1>1
    <2>3. QED
      BY <2>1, <2>2
  <1>4. \A v \in Workers : pc'[v] \notin {"claim", "pop"}
    BY <1>1 DEF PlaceInv, TypeInv, LockHeld
  <1>5. currentTask'[w] = LastTask
    BY <1>1
  <1>6. \A v \in Workers \ {w} : pc'[v] = pc[v] /\ currentTask'[v] = currentTask[v]
    BY <1>1
  <1>7. Fresh'
    BY <1>1, <1>2 DEF PlaceInv, Fresh
  <1>8. OnePlacePerTask'
    <2>1. \A i, j \in 1 .. Len(myTasks') : myTasks'[i].id = myTasks'[j].id => i = j
      BY <1>3 DEF PlaceInv, OnePlacePerTask
    <2>2. \A v \in Workers : pc[v] = "run" => currentTask[v].id # LastTask.id
      BY <1>2 DEF PlaceInv, OnePlacePerTask, RunningIDs
    <2>3. \A u, v \in Workers :
             pc'[u] = "run" /\ pc'[v] = "run" /\ currentTask'[u].id = currentTask'[v].id
                => u = v
      BY <1>5, <1>6, <2>2 DEF PlaceInv, OnePlacePerTask
    <2>4. QueuedIDs' \cap RunningIDs' = {} /\ QueuedIDs' \cap finished' = {}
          /\ RunningIDs' \cap finished' = {}
      BY <1>1, <1>2 DEF PlaceInv, OnePlacePerTask
    <2>5. QED
      BY <2>1, <2>3, <2>4, Zenon DEF OnePlacePerTask
  <1>9. ReleasedIsFinished' /\ ReadyToStart'
    BY <1>1, <1>4, <1>5, <1>6 DEF PlaceInv, ReleasedIsFinished, ReadyToStart
  <1>10. DependancyFirst' /\ Listed'
    <2>1. LastTask.dependancy \in finished' \cup {NoID}
      BY <1>1 DEF PlaceInv, ReadyToStart
    <2>2. LastTask.id \in myWorkingDependancies' \cup {NoID}
      BY <1>1 DEF PlaceInv, Listed
    <2>3. DependancyFirst'
      BY <1>1, <1>5, <1>6, <2>1 DEF PlaceInv, DependancyFirst
    <2>4. Listed'
      BY <1>1, <1>4, <1>5, <1>6, <2>2 DEF PlaceInv, Listed
    <2>5. QED
      BY <2>3, <2>4
  <1>11. OlderDependancy'
    BY <1>2, <1>3 DEF PlaceInv, OlderDependancy
  <1>12. AwaitedIsAccepted'
    BY <1>1, <1>2 DEF PlaceInv, AwaitedIsAccepted
  <1>13. QED
    BY <1>7, <1>8, <1>9, <1>10, <1>11, <1>12 DEF PlaceInv
\* A function returns: its identifier moves from running to finished.
LEMMA FinishMoves ==
    ASSUME PlaceInv, NEW w \in Workers, Finish(w)
    PROVE  /\ QueuedIDs' = QueuedIDs
           /\ RunningIDs' = RunningIDs \ {currentTask[w].id}
           /\ finished' = finished \cup {currentTask[w].id}
           /\ currentTask[w].id \in RunningIDs
           /\ AcceptedIDs' = AcceptedIDs
  <1>1. /\ myTasks' = myTasks /\ currentTask' = currentTask /\ pc[w] = "run"
        /\ finished' = finished \cup {currentTask[w].id}
        /\ pc \in [Workers -> WorkerPCs]
        /\ pc' = [pc EXCEPT ![w] = IF currentTask[w].id = NoID THEN "loop" ELSE "release"]
    BY DEF PlaceInv, TypeInv, TypeOK, Finish
  <1>2. QueuedIDs' = QueuedIDs
    BY <1>1 DEF QueuedIDs
  <1>3. \A v \in Workers : pc'[v] = "run" <=> pc[v] = "run" /\ v # w
    BY <1>1
  <1>4. \A v \in Workers \ {w} : pc[v] = "run" => currentTask[v].id # currentTask[w].id
    BY <1>1 DEF PlaceInv, OnePlacePerTask
  <1>5. currentTask[w].id \in RunningIDs
    BY <1>1 DEF RunningIDs
  <1>6. RunningIDs' = RunningIDs \ {currentTask[w].id}
    BY <1>1, <1>3, <1>4 DEF RunningIDs
  <1>7. QED
    BY <1>1, <1>2, <1>5, <1>6 DEF AcceptedIDs

LEMMA FinishPlaceInv ==
    ASSUME PlaceInv, TypeInv', NEW w \in Workers, Finish(w)
    PROVE  PlaceInv'
  <1>1. /\ UNCHANGED <<myTasks, myNextID, myWorkingDependancies, currentTask, call, arg>>
        /\ pc[w] = "run" /\ pc \in [Workers -> WorkerPCs]
        /\ pc' = [pc EXCEPT ![w] = IF currentTask[w].id = NoID THEN "loop" ELSE "release"]
    BY DEF PlaceInv, TypeInv, TypeOK, Finish, clientVars
  <1>2. /\ QueuedIDs' = QueuedIDs
        /\ RunningIDs' = RunningIDs \ {currentTask[w].id}
        /\ finished' = finished \cup {currentTask[w].id}
        /\ currentTask[w].id \in RunningIDs
        /\ AcceptedIDs' = AcceptedIDs
    BY FinishMoves
  <1>3. LastTask' = LastTask
    BY <1>1 DEF LastTask
  <1>4. \A v \in Workers \ {w} : pc'[v] = pc[v]
    BY <1>1
  <1>5. pc'[w] \in {"loop", "release"}
    BY <1>1
  <1>6. Fresh'
    BY <1>1, <1>2 DEF PlaceInv, Fresh
  <1>7. OnePlacePerTask'
    <2>1. \A i, j \in 1 .. Len(myTasks') : myTasks'[i].id = myTasks'[j].id => i = j
      BY <1>1 DEF PlaceInv, OnePlacePerTask
    <2>2. \A u, v \in Workers :
             pc'[u] = "run" /\ pc'[v] = "run" /\ currentTask'[u].id = currentTask'[v].id
                => u = v
      BY <1>1, <1>4, <1>5 DEF PlaceInv, OnePlacePerTask
    <2>3. QueuedIDs' \cap RunningIDs' = {} /\ QueuedIDs' \cap finished' = {}
          /\ RunningIDs' \cap finished' = {}
      BY <1>2 DEF PlaceInv, OnePlacePerTask
    <2>4. QED
      BY <2>1, <2>2, <2>3, Zenon DEF OnePlacePerTask
  <1>8. ReleasedIsFinished' /\ ReadyToStart'
    BY <1>1, <1>2, <1>3, <1>4, <1>5 DEF PlaceInv, ReleasedIsFinished, ReadyToStart
  <1>9. DependancyFirst' /\ Listed'
    BY <1>1, <1>2, <1>3, <1>4, <1>5 DEF PlaceInv, DependancyFirst, Listed
  <1>10. OlderDependancy'
    BY <1>1, <1>2 DEF PlaceInv, OlderDependancy
  <1>11. AwaitedIsAccepted'
    BY <1>1, <1>2 DEF PlaceInv, AwaitedIsAccepted
  <1>12. QED
    BY <1>6, <1>7, <1>8, <1>9, <1>10, <1>11 DEF PlaceInv

\* What a worker removes from the working list is finished, so it is neither
\* running nor about to be popped by another worker.
LEMMA ReleasePlaceInv ==
    ASSUME PlaceInv, TypeInv', NEW w \in Workers, Release(w)
    PROVE  PlaceInv'
  <1>1. /\ UNCHANGED <<myTasks, finished, myNextID, currentTask, call, arg>>
        /\ myWorkingDependancies' = myWorkingDependancies \ {currentTask[w].id}
        /\ pc[w] = "release" /\ pc' = [pc EXCEPT ![w] = "loop"]
        /\ pc \in [Workers -> WorkerPCs]
    BY DEF PlaceInv, TypeInv, TypeOK, Release, Released, clientVars
  <1>2. QueuedIDs' = QueuedIDs /\ LastTask' = LastTask
    BY <1>1 DEF QueuedIDs, LastTask
  <1>3. RunningIDs' = RunningIDs
    BY <1>1 DEF RunningIDs
  <1>4. AcceptedIDs' = AcceptedIDs
    BY <1>1, <1>2, <1>3 DEF AcceptedIDs
  <1>5. currentTask[w].id \in finished
    BY <1>1 DEF PlaceInv, ReleasedIsFinished
  <1>6. \A v \in Workers : pc[v] = "run" => currentTask[v].id # currentTask[w].id
    BY <1>5 DEF PlaceInv, OnePlacePerTask, RunningIDs
  <1>7. \A v \in Workers : pc[v] = "pop" => LastTask.id # currentTask[w].id
    <2>1. \A v \in Workers : pc[v] = "pop" => LastTask.id \in QueuedIDs
      <3> SUFFICES ASSUME myTasks # <<>> PROVE LastTask.id \in QueuedIDs
        BY DEF PlaceInv, TypeInv, LockHeld
      <3>1. Len(myTasks) \in 1 .. Len(myTasks)
        BY DEF PlaceInv, TypeInv, TypeOK
      <3>2. QED
        BY <3>1 DEF QueuedIDs, LastTask
    <2>2. QED
      BY <1>5, <2>1 DEF PlaceInv, OnePlacePerTask
  <1>8. Fresh'
    BY <1>1, <1>4 DEF PlaceInv, Fresh
  <1>9. OnePlacePerTask'
    BY <1>1, <1>2, <1>3 DEF PlaceInv, OnePlacePerTask
  <1>10. ReleasedIsFinished' /\ DependancyFirst' /\ ReadyToStart'
    BY <1>1, <1>2 DEF PlaceInv, ReleasedIsFinished, DependancyFirst, ReadyToStart
  <1>11. Listed'
    BY <1>1, <1>2, <1>6, <1>7 DEF PlaceInv, Listed
  <1>12. OlderDependancy'
    BY <1>1, <1>4 DEF PlaceInv, OlderDependancy
  <1>13. AwaitedIsAccepted'
    BY <1>1, <1>3, <1>4 DEF PlaceInv, AwaitedIsAccepted
  <1>14. QED
    BY <1>8, <1>9, <1>10, <1>11, <1>12, <1>13 DEF PlaceInv
\* The new task gets an identifier no task has had, and its dependency is older.
LEMMA AddTaskMoves ==
    ASSUME PlaceInv, NEW c \in Clients, NEW aSync \in BOOLEAN,
           NEW aDependancy \in ReturnedIDs \cup {NoID},
           AddTask(c, aSync, aDependancy)
    PROVE  /\ Pending' = Pending \cup {[id |-> myNextID,
                                        dependancy |-> aDependancy, sync |-> aSync]}
           /\ QueuedIDs' = QueuedIDs \cup {myNextID}
           /\ RunningIDs' = RunningIDs
           /\ AcceptedIDs' = AcceptedIDs \cup {myNextID}
           /\ aDependancy \in AcceptedIDs \cup {NoID}
           /\ myNextID \notin AcceptedIDs
  <1> DEFINE n == Len(myTasks)
             task == [id |-> myNextID, dependancy |-> aDependancy, sync |-> aSync]
  <1>1. /\ UNCHANGED <<finished, pc, currentTask>>
        /\ myNextID \in Int /\ n \in Nat
        /\ myTasks' = Append(myTasks, task) /\ myTasks \in Seq(Task)
    BY DEF PlaceInv, TypeInv, TypeOK, AddTask, workerVars
  <1>2. aDependancy \in AcceptedIDs \cup {NoID} /\ AcceptedIDs \subseteq Int
    BY AcceptedType DEF ReturnedIDs, PlaceInv, TypeInv
  <1>3. task \in Task /\ task.id = myNextID
    BY <1>1, <1>2 DEF Task
  <1> HIDE DEF task
  <1>4. /\ Len(myTasks') = n + 1
        /\ myTasks'[n + 1] = task
        /\ \A i \in 1 .. n : myTasks'[i] = myTasks[i]
    BY <1>1, <1>3, AppendType
  <1>5. Pending = {myTasks[i] : i \in 1 .. n} /\ Pending' = {myTasks'[i] : i \in 1 .. n + 1}
    BY <1>4 DEF Pending
  <1>6. n \in Nat
    BY <1>1
  <1> HIDE DEF n
  <1>7. 1 .. n + 1 = (1 .. n) \cup {n + 1}
    BY <1>6
  <1>8. Pending' = Pending \cup {task}
    BY <1>4, <1>5, <1>7
  <1>9. QueuedIDs = {t.id : t \in Pending} /\ QueuedIDs' = {t.id : t \in Pending'}
    BY DEF QueuedIDs, Pending
  <1>10. QueuedIDs' = QueuedIDs \cup {myNextID}
    BY <1>3, <1>8, <1>9
  <1>11. RunningIDs' = RunningIDs
    BY <1>1 DEF RunningIDs
  <1>12. AcceptedIDs' = AcceptedIDs \cup {myNextID}
    BY <1>1, <1>10, <1>11 DEF AcceptedIDs
  <1>13. myNextID \notin AcceptedIDs
    BY <1>1, <1>2 DEF PlaceInv, Fresh
  <1>14. QED
    BY <1>2, <1>8, <1>10, <1>11, <1>12, <1>13 DEF task

LEMMA AddTaskPlaceInv ==
    ASSUME PlaceInv, TypeInv', NEW c \in Clients, NEW aSync \in BOOLEAN,
           NEW aDependancy \in ReturnedIDs \cup {NoID},
           AddTask(c, aSync, aDependancy)
    PROVE  PlaceInv'
  <1> DEFINE n == Len(myTasks)
             task == [id |-> myNextID, dependancy |-> aDependancy, sync |-> aSync]
  <1>1. /\ UNCHANGED <<finished, myWorkingDependancies, pc, currentTask>>
        /\ myTaskMutex = NoThread /\ myNextID' = myNextID + 1 /\ myNextID \in Int
        /\ call' = [call EXCEPT ![c] = "wake"] /\ call \in [Clients -> ClientPCs]
        /\ arg' = [arg EXCEPT ![c] = myNextID] /\ arg \in [Clients -> Int]
        /\ myTasks' = Append(myTasks, task) /\ myTasks \in Seq(Task) /\ n \in Nat
    BY DEF PlaceInv, TypeInv, TypeOK, AddTask, workerVars
  <1>2. AcceptedIDs \subseteq Int
    BY AcceptedType DEF PlaceInv, TypeInv
  <1>3. aDependancy \in AcceptedIDs \cup {NoID}
    BY DEF ReturnedIDs
  <1>4. task \in Task
    BY <1>1, <1>2, <1>3 DEF Task
  <1>5. task.id = myNextID /\ task.dependancy = aDependancy
    OBVIOUS
  <1> HIDE DEF task
  <1>6. /\ Len(myTasks') = n + 1
        /\ myTasks'[n + 1] = task
        /\ \A i \in 1 .. n : myTasks'[i] = myTasks[i]
    BY <1>1, <1>4, AppendType
  <1>7. QueuedIDs = {myTasks[i].id : i \in 1 .. n}
    BY DEF QueuedIDs
  <1>8. n \in Nat
    BY <1>1
  <1> HIDE DEF n
  <1>9. 1 .. n + 1 = (1 .. n) \cup {n + 1}
    BY <1>8
  <1>10. QueuedIDs' = QueuedIDs \cup {myNextID} /\ RunningIDs' = RunningIDs
    BY AddTaskMoves
  <1>11. AcceptedIDs' = AcceptedIDs \cup {myNextID}
    BY AddTaskMoves
  <1>12. \A t \in AcceptedIDs : t \in Int /\ t < myNextID /\ t # myNextID
    BY <1>1, <1>2 DEF PlaceInv, Fresh
  <1>13. Fresh'
    BY <1>1, <1>11, <1>12 DEF Fresh
  <1>14. OnePlacePerTask'
    <2>1. \A i \in 1 .. n : myTasks[i].id # myNextID
      BY <1>7, <1>12 DEF AcceptedIDs
    <2>2. \A i, j \in 1 .. n : myTasks[i].id = myTasks[j].id => i = j
      BY DEF PlaceInv, OnePlacePerTask, n
    <2>3. \A i, j \in 1 .. n + 1 : myTasks'[i].id = myTasks'[j].id => i = j
      BY <1>5, <1>6, <1>9, <2>1, <2>2
    <2>4. \A u, v \in Workers :
             pc'[u] = "run" /\ pc'[v] = "run" /\ currentTask'[u].id = currentTask'[v].id
                => u = v
      BY <1>1 DEF PlaceInv, OnePlacePerTask
    <2>5. QueuedIDs' \cap RunningIDs' = {} /\ QueuedIDs' \cap finished' = {}
          /\ RunningIDs' \cap finished' = {}
      BY <1>1, <1>10, <1>12 DEF PlaceInv, OnePlacePerTask, AcceptedIDs
    <2>6. QED
      BY <1>6, <2>3, <2>4, <2>5, Zenon DEF OnePlacePerTask
  <1>15. \A v \in Workers : pc'[v] \notin {"claim", "pop"}
    BY <1>1, ThreadCountAssumption DEF PlaceInv, TypeInv, LockHeld, Workers
  <1>16. ReleasedIsFinished' /\ ReadyToStart' /\ DependancyFirst' /\ Listed'
    BY <1>1, <1>15
    DEF PlaceInv, ReleasedIsFinished, ReadyToStart, DependancyFirst, Listed
  <1>17. OlderDependancy'
    <2>1. \A i \in 1 .. n :
             \/ myTasks[i].dependancy = NoID
             \/ /\ myTasks[i].dependancy \in AcceptedIDs
                /\ myTasks[i].dependancy < myTasks[i].id
      BY DEF PlaceInv, OlderDependancy, n
    <2>2. \A i \in 1 .. n :
             \/ myTasks'[i].dependancy = NoID
             \/ /\ myTasks'[i].dependancy \in AcceptedIDs'
                /\ myTasks'[i].dependancy < myTasks'[i].id
      BY <1>6, <1>11, <2>1
    <2>3. \/ myTasks'[n + 1].dependancy = NoID
          \/ /\ myTasks'[n + 1].dependancy \in AcceptedIDs'
             /\ myTasks'[n + 1].dependancy < myTasks'[n + 1].id
      BY <1>3, <1>5, <1>6, <1>11, <1>12
    <2>4. QED
      BY <1>6, <1>9, <2>2, <2>3, Zenon DEF OlderDependancy
  <1>18. AwaitedIsAccepted'
    BY <1>1, <1>10, <1>11 DEF PlaceInv, AwaitedIsAccepted
  <1>19. QED
    BY <1>13, <1>14, <1>16, <1>17, <1>18 DEF PlaceInv

\* The steps of WaitForTask: an awaited identifier that is not in the list is
\* running or finished, and stays so.
LEMMA WaitPlaceInv ==
    ASSUME PlaceInv, TypeInv', NEW c \in Clients,
           \/ \E aID \in ReturnedIDs \cup {NoID} : WaitForTask(c, aID)
           \/ ScanQueue(c)
           \/ ScanWorking(c)
    PROVE  PlaceInv'
  <1>1. /\ UNCHANGED <<myTasks, finished, myNextID, myWorkingDependancies, pc, currentTask>>
        /\ \A d \in Clients \ {c} : call'[d] = call[d] /\ arg'[d] = arg[d]
    BY DEF PlaceInv, TypeInv, TypeOK, WaitForTask, ScanQueue, ScanWorking, workerVars
  <1>2. QueuedIDs' = QueuedIDs /\ LastTask' = LastTask /\ RunningIDs' = RunningIDs
    BY <1>1 DEF QueuedIDs, LastTask, RunningIDs
  <1>3. AcceptedIDs' = AcceptedIDs
    BY <1>1, <1>2 DEF AcceptedIDs
  <1>4. /\ call'[c] = "waitQueue" => arg'[c] \in AcceptedIDs \cup {NoID}
        /\ call'[c] = "waitWorking" => arg'[c] \in RunningIDs \cup finished \cup {NoID}
    <2>1. call \in [Clients -> ClientPCs] /\ arg \in [Clients -> Int]
      BY DEF PlaceInv, TypeInv, TypeOK
    <2>2. CASE \E aID \in ReturnedIDs \cup {NoID} : WaitForTask(c, aID)
      BY <2>1, <2>2 DEF WaitForTask, ReturnedIDs
    <2>3. CASE ScanQueue(c)
      <3>1. arg[c] \in AcceptedIDs \cup {NoID} /\ arg'[c] = arg[c]
        BY <2>3 DEF PlaceInv, AwaitedIsAccepted, ScanQueue
      <3>2. call'[c] = "waitWorking" => arg[c] \notin QueuedIDs
        BY <2>1, <2>3 DEF ScanQueue
      <3>3. QED
        BY <3>1, <3>2 DEF AcceptedIDs
    <2>4. CASE ScanWorking(c)
      <3>1. arg[c] \in RunningIDs \cup finished \cup {NoID} /\ arg'[c] = arg[c]
        BY <2>4 DEF PlaceInv, AwaitedIsAccepted, ScanWorking
      <3>2. call'[c] \in {"waitQueue", "ready"}
        BY <2>1, <2>4 DEF ScanWorking
      <3>3. QED
        BY <3>1, <3>2 DEF AcceptedIDs
    <2>5. QED
      BY <2>2, <2>3, <2>4
  <1>5. Fresh'
    BY <1>1, <1>3 DEF PlaceInv, Fresh
  <1>6. OnePlacePerTask'
    BY <1>1, <1>2 DEF PlaceInv, OnePlacePerTask
  <1>7. ReleasedIsFinished' /\ ReadyToStart' /\ DependancyFirst' /\ Listed'
    BY <1>1, <1>2 DEF PlaceInv, ReleasedIsFinished, ReadyToStart, DependancyFirst, Listed
  <1>8. OlderDependancy'
    BY <1>1, <1>3 DEF PlaceInv, OlderDependancy
  <1>9. AwaitedIsAccepted'
    BY <1>1, <1>2, <1>3, <1>4 DEF PlaceInv, AwaitedIsAccepted
  <1>10. QED
    BY <1>5, <1>6, <1>7, <1>8, <1>9 DEF PlaceInv

LEMMA NextPlaceInv == PlaceInv /\ [Next]_vars => PlaceInv'
  <1> SUFFICES ASSUME PlaceInv, [Next]_vars PROVE PlaceInv'
    OBVIOUS
  <1>1. TypeInv'
    BY NextTypeInv DEF PlaceInv
  <1>2. /\ pc \in [Workers -> WorkerPCs] /\ currentTask \in [Workers -> Task]
        /\ call \in [Clients -> ClientPCs] /\ arg \in [Clients -> Int]
    BY DEF PlaceInv, TypeInv, TypeOK
  <1>3. ASSUME NEW w \in Workers, Loop(w) \/ FindEmpty(w) \/ Idle(w)
        PROVE  PlaceInv'
    <2>1. UNCHANGED <<myTasks, finished, myNextID, myWorkingDependancies, call, arg>>
      BY <1>3 DEF Loop, FindEmpty, Idle, clientVars
    <2>2. /\ \A v \in Workers :
                pc'[v] \in {"claim", "pop", "run", "release"}
                   => pc'[v] = pc[v] /\ currentTask'[v] = currentTask[v]
          /\ \A v \in Workers : pc[v] = "run" => pc'[v] = "run"
      BY <1>2, <1>3 DEF Loop, FindEmpty, Idle
    <2>3. QED
      BY <1>1, <2>1, <2>2, QuietStep
  <1>4. ASSUME NEW c \in Clients,
               \/ AddTaskRefused(c) \/ LowerFlag(c) \/ Sync(c) \/ ScanFlag(c)
               \/ Destroy(c) \/ Join(c)
        PROVE  PlaceInv'
    <2>1. UNCHANGED <<myTasks, finished, myNextID, myWorkingDependancies, pc, currentTask>>
      BY <1>4 DEF AddTaskRefused, LowerFlag, Sync, ScanFlag, Destroy, Join, workerVars
    <2>2. \A d \in Clients :
             call'[d] \in {"waitQueue", "waitWorking"}
                => call'[d] = call[d] /\ arg'[d] = arg[d]
      BY <1>2, <1>4 DEF AddTaskRefused, LowerFlag, Sync, ScanFlag, Destroy, Join
    <2>3. QED
      BY <1>1, <2>1, <2>2, QuietStep
  <1>5. CASE UNCHANGED vars
    <2>1. UNCHANGED <<myTasks, finished, myNextID, myWorkingDependancies, pc,
                      currentTask, call, arg>>
      BY <1>5 DEF vars, workerVars, clientVars
    <2>2. QED
      BY <1>1, <2>1, QuietStep
  <1>6. QED
    BY <1>1, <1>3, <1>4, <1>5, PostponePlaceInv, ChoosePlaceInv, ClaimPlaceInv,
       PopPlaceInv, FinishPlaceInv, ReleasePlaceInv, AddTaskPlaceInv, WaitPlaceInv
    DEF Next, Work, Begin, Continue, Terminated

LEMMA PlaceInvHolds == Spec => []PlaceInv
  BY InitPlaceInv, NextPlaceInv, PTL DEF Spec

-----------------------------------------------------------------------------
\* No task is in two places or runs twice.
THEOREM TaskInOnePlace == Spec => []OnePlacePerTask
  <1>1. PlaceInv => OnePlacePerTask
    BY DEF PlaceInv
  <1>2. QED
    BY <1>1, PlaceInvHolds, PTL

\* A task starts only after the task it depends on has returned.
THEOREM DependancyRespected == Spec => []DependancyFirst
  <1>1. PlaceInv => DependancyFirst
    BY DEF PlaceInv
  <1>2. QED
    BY <1>1, PlaceInvHolds, PTL
LEMMA EndOfWait ==
    ASSUME PlaceInv, [Next]_vars, NEW c \in Clients,
           call[c] = "waitWorking", call'[c] = "ready"
    PROVE  arg[c] \in finished \cup {NoID}
  <1>1. call \in [Clients -> ClientPCs]
    BY DEF PlaceInv, TypeInv, TypeOK
  <1>2. ScanWorking(c)
    <2>1. ASSUME NEW w \in Workers, Work(w) PROVE call' = call
      BY <2>1 DEF Work, Loop, FindEmpty, Postpone, Choose, Claim, Pop, Finish,
         Release, Idle, clientVars
    <2>2. ASSUME NEW d \in Clients, Begin(d) PROVE call[d] = "ready" /\ call'[c] = call[c]
      <3>1. call[d] = "ready"
        BY <2>2, ThreadCountAssumption
        DEF Begin, AddTask, AddTaskRefused, WaitForTask, Sync, Destroy
      <3>2. c # d
        BY <3>1
      <3>3. QED
        BY <1>1, <2>2, <3>1, <3>2
        DEF Begin, AddTask, AddTaskRefused, WaitForTask, Sync, Destroy
    <2>3. ASSUME NEW d \in Clients, Continue(d) PROVE d = c /\ ScanWorking(c)
      BY <1>1, <2>3 DEF Continue, LowerFlag, ScanQueue, ScanWorking, ScanFlag, Join
    <2>4. CASE UNCHANGED vars
      BY <2>4 DEF vars, clientVars
    <2>5. QED
      BY <2>1, <2>2, <2>3, <2>4 DEF Next, Terminated
  <1>3. arg[c] \notin myWorkingDependancies
    BY <1>1, <1>2 DEF ScanWorking
  <1>4. arg[c] \in RunningIDs => arg[c] = NoID
    BY <1>3 DEF PlaceInv, Listed, RunningIDs
  <1>5. QED
    BY <1>4 DEF PlaceInv, AwaitedIsAccepted

\* WaitForTask returns only when the task it was given has returned.
THEOREM WaitForTaskCorrect == Spec => WaitForTaskWaits
  <1>1. PlaceInv /\ [Next]_vars =>
           [\A c \in Clients : call[c] = "waitWorking" /\ call'[c] = "ready"
               => arg[c] \in finished \cup {NoID}]_vars
    BY EndOfWait
  <1>2. QED
    BY <1>1, PlaceInvHolds, PTL DEF Spec, WaitForTaskWaits
-----------------------------------------------------------------------------
(***************************************************************************)
(* Refinement of TaskPool.  Identifiers stay inside the bound, and each    *)
(* step of the pool moves tasks the way a step of TaskPool does.           *)
(***************************************************************************)

IDsInBound ==
    /\ \E first \in FirstIDs : first <= myNextID
    /\ AcceptedIDs \subseteq IDs

LEMMA PendingIDsAreQueued ==
    Pool!PendingIDs = QueuedIDs /\ Pool!KnownIDs = AcceptedIDs
  <1>1. Pool!PendingIDs = QueuedIDs
    BY DEF Pool!PendingIDs, Pending, QueuedIDs
  <1>2. QED
    BY <1>1 DEF Pool!KnownIDs, AcceptedIDs

LEMMA PopTakesLast ==
    ASSUME PlaceInv, NEW w \in Workers, Pop(w)
    PROVE  LastTask \in Pending /\ Pending' = Pending \ {LastTask}
  <1> DEFINE n == Len(myTasks)
  <1>1. myTasks # <<>> /\ myTasks \in Seq(Task)
    BY DEF PlaceInv, TypeInv, TypeOK, LockHeld, Pop
  <1>2. n \in Nat /\ n > 0
    BY <1>1
  <1>3. Len(myTasks') = n - 1 /\ \A i \in 1 .. n - 1 : myTasks'[i] = myTasks[i]
    BY <1>1, RemoveLastType DEF Pop
  <1>4. \A i, j \in 1 .. n : myTasks[i] = myTasks[j] => i = j
    BY DEF PlaceInv, OnePlacePerTask
  <1>5. Pending' = {myTasks[i] : i \in 1 .. n - 1} /\ Pending = {myTasks[i] : i \in 1 .. n}
    BY <1>3 DEF Pending
  <1>6. LastTask = myTasks[n]
    BY DEF LastTask
  <1> HIDE DEF n
  <1>7. n \in 1 .. n /\ \A i \in 1 .. n - 1 : i \in 1 .. n /\ i # n
    BY <1>2
  <1>8. \A i \in 1 .. n : i = n \/ i \in 1 .. n - 1
    BY <1>2
  <1>9. LastTask \in Pending
    BY <1>5, <1>6, <1>7
  <1>10. \A task \in Pending' : task \in Pending /\ task # LastTask
    BY <1>4, <1>5, <1>6, <1>7
  <1>11. \A task \in Pending : task = LastTask \/ task \in Pending'
    BY <1>5, <1>6, <1>8
  <1>12. QED
    BY <1>9, <1>10, <1>11

\* A step that changes neither the list nor what runs nor what has returned.
LEMMA StillStep ==
    ASSUME PlaceInv, [Next]_vars,
           \A w \in Workers : ~Postpone(w) /\ ~Pop(w) /\ ~Finish(w),
           \A c \in Clients, aSync \in BOOLEAN, aDependancy \in ReturnedIDs \cup {NoID} :
              ~AddTask(c, aSync, aDependancy)
    PROVE  /\ Pending' = Pending /\ QueuedIDs' = QueuedIDs
           /\ RunningIDs' = RunningIDs /\ finished' = finished
           /\ AcceptedIDs' = AcceptedIDs /\ myNextID' = myNextID
  <1> DEFINE Still ==
         /\ UNCHANGED <<myTasks, finished, myNextID>>
         /\ \A v \in Workers : pc'[v] = "run" <=> pc[v] = "run"
         /\ \A v \in Workers : pc[v] = "run" => currentTask'[v] = currentTask[v]
  <1>1. pc \in [Workers -> WorkerPCs] /\ currentTask \in [Workers -> Task]
    BY DEF PlaceInv, TypeInv, TypeOK
  <1>2. ASSUME NEW w \in Workers, Loop(w) \/ FindEmpty(w) \/ Idle(w) PROVE Still
    BY <1>1, <1>2 DEF Loop, FindEmpty, Idle
  <1>3. ASSUME NEW w \in Workers, Choose(w) \/ Claim(w) \/ Release(w) PROVE Still
    BY <1>1, <1>3 DEF Choose, Claim, Release
  <1>4. ASSUME NEW c \in Clients, Begin(c) PROVE Still
    BY <1>4 DEF Begin, AddTaskRefused, WaitForTask, Sync, Destroy, workerVars
  <1>5. ASSUME NEW c \in Clients, Continue(c) PROVE Still
    BY <1>5 DEF Continue, LowerFlag, ScanQueue, ScanWorking, ScanFlag, Join, workerVars
  <1>6. ASSUME UNCHANGED vars PROVE Still
    <2>1. UNCHANGED <<myTasks, finished, myNextID, pc, currentTask>>
      BY <1>6 DEF vars, workerVars
    <2>2. QED
      BY <2>1
  <1> HIDE DEF Still
  <1>7. Still
    <2>1. ASSUME NEW w \in Workers, Work(w) PROVE Still
      BY <1>2, <1>3, <2>1 DEF Work
    <2>2. QED
      BY <1>4, <1>5, <1>6, <2>1 DEF Next, Terminated
  <1>8. Pending' = Pending /\ QueuedIDs' = QueuedIDs
    BY <1>7 DEF Still, Pending, QueuedIDs
  <1>9. RunningIDs' = RunningIDs
    BY <1>7 DEF Still, RunningIDs
  <1>10. QED
    BY <1>7, <1>8, <1>9 DEF Still, AcceptedIDs
LEMMA IDsInBoundInvariant ==
    /\ Init => IDsInBound
    /\ PlaceInv /\ IDsInBound /\ [Next]_vars => IDsInBound'
  <1>1. Init => IDsInBound
    <2> SUFFICES ASSUME Init PROVE IDsInBound
      OBVIOUS
    <2>1. AcceptedIDs = {}
      BY DEF Init, AcceptedIDs, QueuedIDs, RunningIDs
    <2>2. myNextID \in FirstIDs /\ myNextID <= myNextID
      BY FirstIDsAssumption DEF Init
    <2>3. QED
      BY <2>1, <2>2 DEF IDsInBound
  <1>2. ASSUME PlaceInv, IDsInBound, [Next]_vars PROVE IDsInBound'
    <2>1. ASSUME NEW c \in Clients, NEW aSync \in BOOLEAN,
                 NEW aDependancy \in ReturnedIDs \cup {NoID},
                 AddTask(c, aSync, aDependancy)
          PROVE  IDsInBound'
      <3>1. AcceptedIDs' = AcceptedIDs \cup {myNextID}
        BY <2>1, <1>2, AddTaskMoves
      <3>2. /\ myNextID \in Int /\ myNextID' = myNextID + 1 /\ myNextID < LastID
        BY <1>2, <2>1 DEF AddTask, PlaceInv, TypeInv, TypeOK
      <3>3. PICK first \in FirstIDs : first <= myNextID
        BY <1>2 DEF IDsInBound
      <3>4. first \in Int /\ first <= myNextID' /\ myNextID \in first .. LastID - 1
        BY <3>2, <3>3, FirstIDsAssumption, LastIDAssumption
      <3>5. myNextID \in IDs
        BY <3>3, <3>4 DEF IDs
      <3>6. QED
        BY <1>2, <3>1, <3>3, <3>4, <3>5 DEF IDsInBound
    <2>2. ASSUME NEW w \in Workers, Postpone(w) \/ Pop(w) \/ Finish(w)
          PROVE  IDsInBound'
      <3>1. myNextID' = myNextID
        BY <2>2 DEF Postpone, Pop, Finish
      <3>2. AcceptedIDs' = AcceptedIDs
        <4>1. CASE Postpone(w)
          <5>1. RunningIDs' = RunningIDs /\ finished' = finished
            BY <1>2, <4>1 DEF Postpone, RunningIDs, PlaceInv, TypeInv, TypeOK
          <5>2. QED
            BY <1>2, <4>1, <5>1, PostponeKeepsPending DEF AcceptedIDs
        <4>2. QED
          BY <1>2, <2>2, <4>1, PopMoves, FinishMoves
      <3>3. QED
        BY <1>2, <3>1, <3>2 DEF IDsInBound
    <2>3. ASSUME \A w \in Workers : ~Postpone(w) /\ ~Pop(w) /\ ~Finish(w),
                 \A c \in Clients, aSync \in BOOLEAN, aDependancy \in ReturnedIDs \cup {NoID} :
                    ~AddTask(c, aSync, aDependancy)
          PROVE  IDsInBound'
      BY <1>2, <2>3, StillStep DEF IDsInBound
    <2>4. QED
      BY <2>1, <2>2, <2>3
  <1>3. QED
    BY <1>1, <1>2

RefinementInv == PlaceInv /\ IDsInBound

LEMMA AwaitedUnchanged ==
    ASSUME TypeOK,
           \A c \in Clients :
              \/ call'[c] = call[c] /\ arg'[c] = arg[c]
              \/ /\ call[c] \notin {"waitQueue", "waitWorking"}
                 /\ call'[c] \notin {"waitQueue", "waitWorking"}
              \/ /\ call[c] \in {"waitQueue", "waitWorking"}
                 /\ call'[c] \in {"waitQueue", "waitWorking"}
                 /\ arg'[c] = arg[c]
    PROVE  Awaited' = Awaited
  BY DEF Awaited

LEMMA InitRefines == Init => Pool!Init
  <1> SUFFICES ASSUME Init PROVE Pool!Init
    OBVIOUS
  <1>1. Pending = {} /\ RunningIDs = {} /\ finished = {}
    BY DEF Init, Pending, RunningIDs
  <1>2. Awaited = [c \in Clients |-> {}]
    BY DEF Init, Awaited
  <1>3. QED
    BY <1>1, <1>2 DEF Pool!Init

\* The worker steps: Pop starts a task, Finish completes it, the others are
\* invisible.
LEMMA WorkRefines ==
    ASSUME RefinementInv, RefinementInv', NEW w \in Workers, Work(w)
    PROVE  [Pool!Next]_Pool!vars
  <1>1. [Next]_vars
    BY DEF Next
  <1>2. call' = call /\ arg' = arg
    BY DEF Work, Loop, FindEmpty, Postpone, Choose, Claim, Pop, Finish, Release,
       Idle, clientVars
  <1>3. Awaited' = Awaited
    BY <1>2 DEF Awaited
  <1>4. PlaceInv
    BY DEF RefinementInv
  <1>5. CASE Postpone(w)
    <2>1. Pending' = Pending
      BY <1>4, <1>5, PostponeKeepsPending
    <2>2. RunningIDs' = RunningIDs /\ finished' = finished
      BY <1>4, <1>5 DEF Postpone, RunningIDs, PlaceInv, TypeInv, TypeOK
    <2>3. QED
      BY <1>3, <2>1, <2>2 DEF Pool!vars
  <1>6. CASE Pop(w)
    <2>1. LastTask \in Pending /\ Pending' = Pending \ {LastTask}
      BY <1>4, <1>6, PopTakesLast
    <2>2. RunningIDs' = RunningIDs \cup {LastTask.id}
      BY <1>4, <1>6, PopMoves
    <2>3. LastTask.dependancy \in finished \cup {NoID} /\ finished' = finished
      BY <1>4, <1>6 DEF Pop, PlaceInv, ReadyToStart
    <2>4. Pool!Start(LastTask)
      BY <1>3, <2>1, <2>2, <2>3 DEF Pool!Start
    <2>5. QED
      BY <2>1, <2>4 DEF Pool!Next
  <1>7. CASE Finish(w)
    <2>1. /\ RunningIDs' = RunningIDs \ {currentTask[w].id}
          /\ finished' = finished \cup {currentTask[w].id}
          /\ currentTask[w].id \in RunningIDs
      BY <1>4, <1>7, FinishMoves
    <2>2. Pending' = Pending
      BY <1>7 DEF Finish, Pending
    <2>3. Pool!Complete(currentTask[w].id)
      BY <1>3, <2>1, <2>2 DEF Pool!Complete
    <2>4. QED
      BY <2>1, <2>3 DEF Pool!Next
  <1>8. CASE Loop(w) \/ FindEmpty(w) \/ Choose(w) \/ Claim(w) \/ Release(w) \/ Idle(w)
    <2>1. myTasks' = myTasks /\ finished' = finished
      BY <1>8 DEF Loop, FindEmpty, Choose, Claim, Release, Idle
    <2>2. pc \in [Workers -> WorkerPCs] /\ currentTask \in [Workers -> Task]
      BY <1>4 DEF PlaceInv, TypeInv, TypeOK
    <2>3. /\ \A v \in Workers : pc'[v] = "run" <=> pc[v] = "run"
          /\ \A v \in Workers : pc[v] = "run" => currentTask'[v] = currentTask[v]
      <3>1. CASE Loop(w) \/ FindEmpty(w) \/ Idle(w)
        BY <2>2, <3>1 DEF Loop, FindEmpty, Idle
      <3>2. CASE Choose(w) \/ Claim(w) \/ Release(w)
        BY <2>2, <3>2 DEF Choose, Claim, Release
      <3>3. QED
        BY <1>8, <3>1, <3>2
    <2>4. Pending' = Pending /\ RunningIDs' = RunningIDs
      BY <2>1, <2>3 DEF Pending, RunningIDs
    <2>5. QED
      BY <1>3, <2>1, <2>4 DEF Pool!vars
  <1>9. QED
    BY <1>5, <1>6, <1>7, <1>8 DEF Work
\* AddTask submits, WaitForTask awaits, and the scan that ends a wait resumes.
LEMMA BeginRefines ==
    ASSUME RefinementInv, RefinementInv', NEW c \in Clients, Begin(c)
    PROVE  [Pool!Next]_Pool!vars
  <1>1. PlaceInv /\ TypeOK /\ call \in [Clients -> ClientPCs] /\ arg \in [Clients -> Int]
    BY DEF RefinementInv, PlaceInv, TypeInv, TypeOK
  <1>2. ASSUME NEW aSync \in BOOLEAN, NEW aDependancy \in ReturnedIDs \cup {NoID},
               AddTask(c, aSync, aDependancy)
        PROVE  Pool!Next
    <2> DEFINE task == [id |-> myNextID, dependancy |-> aDependancy, sync |-> aSync]
    <2>1. /\ Pending' = Pending \cup {task}
          /\ RunningIDs' = RunningIDs
          /\ AcceptedIDs' = AcceptedIDs \cup {myNextID}
          /\ aDependancy \in AcceptedIDs \cup {NoID}
          /\ myNextID \notin AcceptedIDs
      BY <1>1, <1>2, AddTaskMoves
    <2>2. myNextID \in IDs /\ aDependancy \in IDs \cup {NoID}
      BY <2>1 DEF RefinementInv, IDsInBound
    <2>3. task \in [id : IDs, dependancy : IDs \cup {NoID}, sync : BOOLEAN]
      BY <2>2
    <2>4. finished' = finished
      BY <1>2 DEF AddTask
    <2>5. Awaited' = Awaited
      <3>1. call[c] = "ready" /\ call' = [call EXCEPT ![c] = "wake"]
            /\ arg' = [arg EXCEPT ![c] = myNextID]
        BY <1>2 DEF AddTask
      <3>2. QED
        BY <1>1, <3>1, AwaitedUnchanged
    <2>6. task.id \notin Pool!KnownIDs /\ task.dependancy \in Pool!KnownIDs \cup {NoID}
      BY <2>1, PendingIDsAreQueued
    <2> HIDE DEF task
    <2>7. Pool!Submit(task)
      BY <2>1, <2>4, <2>5, <2>6 DEF Pool!Submit
    <2>8. QED
      BY <2>3, <2>7 DEF Pool!Next
  <1>3. ASSUME NEW aID \in ReturnedIDs \cup {NoID}, WaitForTask(c, aID)
        PROVE  Pool!Next
    <2>1. /\ call[c] = "ready" /\ call' = [call EXCEPT ![c] = "waitQueue"]
          /\ arg' = [arg EXCEPT ![c] = aID]
          /\ UNCHANGED <<myTasks, finished, pc, currentTask>>
      BY <1>3 DEF WaitForTask, workerVars
    <2>2. Pending' = Pending /\ RunningIDs' = RunningIDs
      BY <2>1 DEF Pending, RunningIDs
    <2>3. Awaited[c] = {} /\ Awaited' = [Awaited EXCEPT ![c] = {aID}]
      BY <1>1, <2>1 DEF Awaited
    <2>4. aID \in Pool!KnownIDs \cup {NoID}
      BY PendingIDsAreQueued DEF ReturnedIDs
    <2>5. Pool!Await(c, aID)
      BY <2>1, <2>2, <2>3, <2>4 DEF Pool!Await
    <2>6. QED
      BY <2>4, <2>5 DEF Pool!Next
  <1>4. ASSUME AddTaskRefused(c) \/ Sync(c) \/ Destroy(c)
        PROVE  UNCHANGED Pool!vars
    <2>1. /\ UNCHANGED <<myTasks, finished, pc, currentTask>>
          /\ call[c] = "ready" /\ call'[c] \in {"ready", "sync", "join"}
          /\ \A d \in Clients \ {c} : call'[d] = call[d] /\ arg'[d] = arg[d]
      BY <1>1, <1>4 DEF AddTaskRefused, Sync, Destroy, workerVars
    <2>2. Pending' = Pending /\ RunningIDs' = RunningIDs
      BY <2>1 DEF Pending, RunningIDs
    <2>3. Awaited' = Awaited
      BY <1>1, <2>1, AwaitedUnchanged
    <2>4. QED
      BY <2>1, <2>2, <2>3 DEF Pool!vars
  <1>5. QED
    BY <1>2, <1>3, <1>4 DEF Begin

LEMMA ContinueRefines ==
    ASSUME RefinementInv, RefinementInv', NEW c \in Clients, Continue(c)
    PROVE  [Pool!Next]_Pool!vars
  <1>1. PlaceInv /\ TypeOK /\ call \in [Clients -> ClientPCs] /\ arg \in [Clients -> Int]
    BY DEF RefinementInv, PlaceInv, TypeInv, TypeOK
  <1>2. UNCHANGED <<myTasks, finished, pc, currentTask, arg>>
    BY DEF Continue, LowerFlag, ScanQueue, ScanWorking, ScanFlag, Join, workerVars
  <1>3. Pending' = Pending /\ RunningIDs' = RunningIDs
    BY <1>2 DEF Pending, RunningIDs
  <1>4. \A d \in Clients \ {c} : call'[d] = call[d]
    BY <1>1 DEF Continue, LowerFlag, ScanQueue, ScanWorking, ScanFlag, Join
  <1>5. CASE call[c] = "waitWorking" /\ call'[c] = "ready"
    <2>1. arg[c] \in finished \cup {NoID}
      BY <1>1, <1>5, EndOfWait DEF Next
    <2>2. Awaited[c] = {arg[c]} /\ Awaited' = [Awaited EXCEPT ![c] = {}]
      BY <1>1, <1>2, <1>4, <1>5 DEF Awaited
    <2>3. Pool!Resume(c)
      BY <1>2, <1>3, <2>1, <2>2 DEF Pool!Resume
    <2>4. QED
      BY <2>3 DEF Pool!Next
  <1>6. CASE ~(call[c] = "waitWorking" /\ call'[c] = "ready")
    <2> DEFINE Waits(x) == x \in {"waitQueue", "waitWorking"}
    <2>1. Waits(call[c]) <=> Waits(call'[c])
      BY <1>1, <1>6 DEF Continue, LowerFlag, ScanQueue, ScanWorking, ScanFlag, Join
    <2>2. Awaited' = Awaited
      BY <1>1, <1>2, <1>4, <2>1 DEF Awaited
    <2>3. QED
      BY <1>2, <1>3, <2>2 DEF Pool!vars
  <1>7. QED
    BY <1>5, <1>6

\* The thread pool implements the abstract pool.
THEOREM Refinement == Spec => ImplementsTaskPool
  <1>1. Init => RefinementInv
    BY InitPlaceInv, IDsInBoundInvariant DEF RefinementInv
  <1>2. RefinementInv /\ [Next]_vars => RefinementInv'
    BY NextPlaceInv, IDsInBoundInvariant DEF RefinementInv
  <1>3. RefinementInv /\ RefinementInv' /\ [Next]_vars => [Pool!Next]_Pool!vars
    <2> SUFFICES ASSUME RefinementInv, RefinementInv', [Next]_vars
                 PROVE  [Pool!Next]_Pool!vars
      OBVIOUS
    <2>1. CASE UNCHANGED vars
      BY <2>1 DEF vars, workerVars, clientVars, Pool!vars, Pending, RunningIDs, Awaited
    <2>2. QED
      BY <2>1, WorkRefines, BeginRefines, ContinueRefines DEF Next, Terminated
  <1>4. QED
    BY <1>1, <1>2, <1>3, InitRefines, PTL DEF Spec, ImplementsTaskPool, Pool!Spec
-----------------------------------------------------------------------------
(***************************************************************************)
(* No step loses a task.                                                   *)
(***************************************************************************)

LEMMA AcceptedGrows == PlaceInv /\ [Next]_vars => AcceptedIDs \subseteq AcceptedIDs'
  <1> SUFFICES ASSUME PlaceInv, [Next]_vars PROVE AcceptedIDs \subseteq AcceptedIDs'
    OBVIOUS
  <1>1. ASSUME NEW w \in Workers, Postpone(w) PROVE AcceptedIDs' = AcceptedIDs
    <2>1. RunningIDs' = RunningIDs /\ finished' = finished
      BY <1>1 DEF Postpone, RunningIDs, PlaceInv, TypeInv, TypeOK
    <2>2. QED
      BY <1>1, <2>1, PostponeKeepsPending DEF AcceptedIDs
  <1>2. ASSUME NEW w \in Workers, Pop(w) \/ Finish(w) PROVE AcceptedIDs' = AcceptedIDs
    BY <1>2, PopMoves, FinishMoves
  <1>3. ASSUME NEW c \in Clients, NEW aSync \in BOOLEAN,
               NEW aDependancy \in ReturnedIDs \cup {NoID},
               AddTask(c, aSync, aDependancy)
        PROVE  AcceptedIDs \subseteq AcceptedIDs'
    BY <1>3, AddTaskMoves
  <1>4. QED
    BY <1>1, <1>2, <1>3, StillStep

\* An accepted task stays in the list, with a worker, or finished.
THEOREM AcceptedTaskKept == Spec => NoTaskLost
  <1>1. PlaceInv /\ [Next]_vars => [AcceptedIDs \subseteq AcceptedIDs']_vars
    BY AcceptedGrows
  <1>2. QED
    BY <1>1, PlaceInvHolds, PTL DEF Spec, NoTaskLost

-----------------------------------------------------------------------------
(***************************************************************************)
(* Sync.  A sync task that ran when Sync was called has returned or still  *)
(* runs on a worker whose flag the scan has not passed, because a worker   *)
(* inside a sync task keeps its flag down.                                 *)
(***************************************************************************)

RunsSync(w, t) == pc[w] = "run" /\ currentTask[w].sync /\ currentTask[w].id = t

OwedNotPassed ==
    \A c \in Clients : call[c] = "sync" =>
        \A t \in owed[c] :
            \/ t \in finished
            \/ \E w \in Workers : w >= idx[c] /\ RunsSync(w, t)

SyncInv == TypeInv /\ SyncTaskKeepsFlagDown /\ OwedNotPassed

LEMMA InitSyncInv == Init => SyncInv
  <1> SUFFICES ASSUME Init PROVE SyncInv
    OBVIOUS
  <1>1. TypeInv
    BY InitTypeInv
  <1>2. SyncTaskKeepsFlagDown /\ OwedNotPassed
    BY DEF Init, SyncTaskKeepsFlagDown, OwedNotPassed
  <1>3. QED
    BY <1>1, <1>2 DEF SyncInv

LEMMA WorkSyncInv ==
    ASSUME SyncInv, TypeInv', NEW w \in Workers, Work(w)
    PROVE  SyncInv'
  <1>1. /\ pc \in [Workers -> WorkerPCs] /\ currentTask \in [Workers -> Task]
        /\ myWaitingThreads \in [Workers -> BOOLEAN]
    BY DEF SyncInv, TypeInv, TypeOK
  <1>2. call' = call /\ idx' = idx /\ owed' = owed
    BY DEF Work, Loop, FindEmpty, Postpone, Choose, Claim, Pop, Finish, Release,
       Idle, clientVars
  <1>3. \A v \in Workers \ {w} :
           /\ pc'[v] = pc[v] /\ currentTask'[v] = currentTask[v]
           /\ myWaitingThreads'[v] = myWaitingThreads[v]
    <2>1. CASE Loop(w) \/ FindEmpty(w) \/ Postpone(w) \/ Choose(w)
      BY <1>1, <2>1 DEF Loop, FindEmpty, Postpone, Choose
    <2>2. CASE Claim(w) \/ Pop(w) \/ Finish(w)
      BY <1>1, <2>2 DEF Claim, Pop, Finish
    <2>3. CASE Release(w) \/ Idle(w)
      BY <1>1, <2>3 DEF Release, Idle
    <2>4. QED
      BY <2>1, <2>2, <2>3 DEF Work
  <1>4. pc'[w] = "run" /\ currentTask'[w].sync => ~myWaitingThreads'[w]
    <2>1. CASE Pop(w)
      BY <1>1, <2>1 DEF Pop, WaitingWhileRunning
    <2>2. CASE ~Pop(w)
      BY <1>1, <2>2 DEF Work, Loop, FindEmpty, Postpone, Choose, Claim, Finish,
         Release, Idle
    <2>3. QED
      BY <2>1, <2>2
  <1>5. SyncTaskKeepsFlagDown'
    BY <1>3, <1>4 DEF SyncInv, SyncTaskKeepsFlagDown
  <1>6. finished \subseteq finished'
    BY DEF Work, Loop, FindEmpty, Postpone, Choose, Claim, Pop, Finish, Release, Idle
  <1>7. \A t : RunsSync(w, t) => RunsSync(w, t)' \/ t \in finished'
    <2>1. CASE Finish(w)
      BY <2>1 DEF Finish, RunsSync
    <2>2. CASE ~Finish(w)
      BY <2>2 DEF Work, Loop, FindEmpty, Postpone, Choose, Claim, Pop, Release,
         Idle, RunsSync
    <2>3. QED
      BY <2>1, <2>2
  <1>8. \A v \in Workers : \A t : RunsSync(v, t) => RunsSync(v, t)' \/ t \in finished'
    BY <1>3, <1>7 DEF RunsSync
  <1>9. OwedNotPassed'
    BY <1>2, <1>6, <1>8 DEF SyncInv, OwedNotPassed
  <1>10. QED
    BY <1>5, <1>9 DEF SyncInv

LEMMA ClientSyncInv ==
    ASSUME SyncInv, TypeInv', NEW c \in Clients, Begin(c) \/ Continue(c)
    PROVE  SyncInv'
  <1>1. /\ call \in [Clients -> ClientPCs] /\ idx \in [Clients -> 0 .. ThreadCount]
        /\ myWaitingThreads \in [Workers -> BOOLEAN] /\ owed \in [Clients -> SUBSET Int]
    BY DEF SyncInv, TypeInv, TypeOK
  <1>2. pc' = pc /\ currentTask' = currentTask /\ finished' = finished
    BY DEF Begin, Continue, AddTask, AddTaskRefused, LowerFlag, WaitForTask,
       ScanQueue, ScanWorking, Sync, ScanFlag, Destroy, Join, workerVars
  <1>3. \A v \in Workers : myWaitingThreads'[v] => myWaitingThreads[v]
    <2>1. CASE LowerFlag(c)
      BY <1>1, <2>1 DEF LowerFlag
    <2>2. CASE ~LowerFlag(c)
      <3>1. myWaitingThreads' = myWaitingThreads
        BY <2>2 DEF Begin, Continue, AddTask, AddTaskRefused, WaitForTask,
           ScanQueue, ScanWorking, Sync, ScanFlag, Destroy, Join
      <3>2. QED
        BY <3>1
    <2>3. QED
      BY <2>1, <2>2
  <1>4. SyncTaskKeepsFlagDown'
    BY <1>2, <1>3 DEF SyncInv, SyncTaskKeepsFlagDown
  <1>5. \A d \in Clients \ {c} : call'[d] = call[d] /\ idx'[d] = idx[d] /\ owed'[d] = owed[d]
    <2>1. CASE Begin(c)
      BY <1>1, <2>1 DEF Begin, AddTask, AddTaskRefused, WaitForTask, Sync, Destroy
    <2>2. CASE Continue(c)
      BY <1>1, <2>2 DEF Continue, LowerFlag, ScanQueue, ScanWorking, ScanFlag, Join
    <2>3. QED
      BY <2>1, <2>2
  <1>6. \A w \in Workers : \A t : RunsSync(w, t)' <=> RunsSync(w, t)
    BY <1>2 DEF RunsSync
  <1>7. ASSUME call'[c] = "sync", NEW t \in owed'[c]
        PROVE  t \in finished \/ \E w \in Workers : w >= idx'[c] /\ RunsSync(w, t)
    <2>1. CASE Sync(c)
      <3>1. idx'[c] = 0 /\ owed'[c] = RunningSyncIDs
        BY <1>1, <2>1 DEF Sync
      <3>2. PICK w \in Workers : RunsSync(w, t)
        BY <1>7, <3>1 DEF RunningSyncIDs, RunsSync
      <3>3. w >= 0
        BY ThreadCountAssumption DEF Workers
      <3>4. QED
        BY <3>1, <3>2, <3>3
    <2>2. CASE ScanFlag(c)
      <3>1. call[c] = "sync" /\ idx'[c] = NextFlag(c) /\ owed' = owed
        BY <1>1, <2>2 DEF ScanFlag
      <3>2. CASE t \in finished
        BY <3>2
      <3>3. CASE t \notin finished
        <4>1. PICK w \in Workers : w >= idx[c] /\ RunsSync(w, t)
          BY <1>7, <3>1, <3>3 DEF SyncInv, OwedNotPassed
        <4>2. ~myWaitingThreads[w]
          BY <4>1 DEF SyncInv, SyncTaskKeepsFlagDown, RunsSync
        <4>3. w \in Int /\ w >= 0 /\ idx[c] \in Int
          BY <1>1, ThreadCountAssumption DEF Workers
        <4>4. w >= NextFlag(c)
          BY <4>1, <4>2, <4>3 DEF NextFlag
        <4>5. QED
          BY <3>1, <4>1, <4>4
      <3>4. QED
        BY <3>2, <3>3
    <2>3. CASE ~Sync(c) /\ ~ScanFlag(c)
      <3>1. call'[c] = call[c] /\ idx'[c] = idx[c] /\ owed' = owed
        BY <1>1, <1>7, <2>3 DEF Begin, Continue, AddTask, AddTaskRefused, LowerFlag,
           WaitForTask, ScanQueue, ScanWorking, Destroy, Join
      <3>2. QED
        BY <1>7, <3>1 DEF SyncInv, OwedNotPassed
    <2>4. QED
      BY <2>1, <2>2, <2>3
  <1>8. OwedNotPassed'
    BY <1>2, <1>5, <1>6, <1>7 DEF SyncInv, OwedNotPassed
  <1>9. QED
    BY <1>4, <1>8 DEF SyncInv
LEMMA NextSyncInv == SyncInv /\ [Next]_vars => SyncInv'
  <1> SUFFICES ASSUME SyncInv, [Next]_vars PROVE SyncInv'
    OBVIOUS
  <1>1. TypeInv'
    BY NextTypeInv DEF SyncInv
  <1>2. CASE UNCHANGED vars
    <2>1. UNCHANGED <<pc, currentTask, myWaitingThreads, call, idx, owed, finished>>
      BY <1>2 DEF vars, workerVars, clientVars
    <2>2. QED
      BY <1>1, <2>1 DEF SyncInv, SyncTaskKeepsFlagDown, OwedNotPassed, RunsSync
  <1>3. QED
    BY <1>1, <1>2, WorkSyncInv, ClientSyncInv DEF Next, Terminated

LEMMA EndOfSync ==
    ASSUME SyncInv, [Next]_vars, NEW c \in Clients,
           call[c] = "sync", call'[c] = "ready"
    PROVE  owed[c] \subseteq finished
  <1>1. call \in [Clients -> ClientPCs] /\ idx \in [Clients -> 0 .. ThreadCount]
    BY DEF SyncInv, TypeInv, TypeOK
  <1>2. ScanFlag(c)
    <2>1. ASSUME NEW w \in Workers, Work(w) PROVE call' = call
      BY <2>1 DEF Work, Loop, FindEmpty, Postpone, Choose, Claim, Pop, Finish,
         Release, Idle, clientVars
    <2>2. ASSUME NEW d \in Clients, Begin(d) PROVE call[d] = "ready" /\ call'[c] = call[c]
      <3>1. call[d] = "ready"
        BY <2>2, ThreadCountAssumption
        DEF Begin, AddTask, AddTaskRefused, WaitForTask, Sync, Destroy
      <3>2. c # d
        BY <3>1
      <3>3. QED
        BY <1>1, <2>2, <3>1, <3>2
        DEF Begin, AddTask, AddTaskRefused, WaitForTask, Sync, Destroy
    <2>3. ASSUME NEW d \in Clients, Continue(d) PROVE d = c /\ ScanFlag(c)
      BY <1>1, <2>3 DEF Continue, LowerFlag, ScanQueue, ScanWorking, ScanFlag, Join
    <2>4. CASE UNCHANGED vars
      BY <2>4 DEF vars, clientVars
    <2>5. QED
      BY <2>1, <2>2, <2>3, <2>4 DEF Next, Terminated
  <1>3. NextFlag(c) = ThreadCount
    BY <1>1, <1>2 DEF ScanFlag
  <1>4. myWaitingThreads[idx[c]] /\ idx[c] + 1 = ThreadCount
    BY <1>3, ThreadCountAssumption DEF NextFlag
  <1>5. \A w \in Workers : w >= idx[c] => w = idx[c]
    <2>1. idx[c] \in Int /\ ThreadCount \in Int
      BY <1>1, ThreadCountAssumption
    <2>2. QED
      BY <1>4, <2>1 DEF Workers
  <1>6. \A w \in Workers : \A t : w >= idx[c] => ~RunsSync(w, t)
    BY <1>4, <1>5 DEF SyncInv, SyncTaskKeepsFlagDown, RunsSync
  <1>7. QED
    BY <1>6 DEF SyncInv, OwedNotPassed

\* A worker inside a sync task keeps its flag down.
THEOREM FlagDownInSyncTask == Spec => []SyncTaskKeepsFlagDown
  <1>1. SyncInv => SyncTaskKeepsFlagDown
    BY DEF SyncInv
  <1>2. QED
    BY <1>1, InitSyncInv, NextSyncInv, PTL DEF Spec

\* Sync returns only after the sync tasks that ran at the call have returned.
THEOREM SyncCorrect == Spec => SyncCoversRunningTasks
  <1>1. SyncInv /\ [Next]_vars =>
           [\A c \in Clients : call[c] = "sync" /\ call'[c] = "ready"
               => owed[c] \subseteq finished]_vars
    BY EndOfSync
  <1>2. QED
    BY <1>1, InitSyncInv, NextSyncInv, PTL DEF Spec, SyncCoversRunningTasks

-----------------------------------------------------------------------------
(***************************************************************************)
(* The destructor.  Every entry of the working list belongs to a worker    *)
(* that has yet to remove it, and a worker that has been joined has left   *)
(* Work for good.                                                          *)
(***************************************************************************)

HolderIsTaking ==
    myTaskMutex # NoThread => myTaskMutex \in Workers /\ pc[myTaskMutex] \in {"claim", "pop"}

EntryHasWorker ==
    \A t \in myWorkingDependancies :
        /\ t # NoID
        /\ \E w \in Workers :
              \/ pc[w] \in {"run", "release"} /\ currentTask[w].id = t
              \/ pc[w] = "pop" /\ LastTask.id = t

JoinedHasLeft ==
    \A c \in Clients :
        /\ call[c] = "join" => \A w \in Workers : w >= idx[c] => pc[w] = "exit"
        /\ call[c] = "gone" => \A w \in Workers : pc[w] = "exit"

QuietInv == TypeInv /\ HolderIsTaking /\ EntryHasWorker /\ JoinedHasLeft

LEMMA InitQuietInv == Init => QuietInv
  <1> SUFFICES ASSUME Init PROVE QuietInv
    OBVIOUS
  <1>1. TypeInv
    BY InitTypeInv
  <1>2. HolderIsTaking /\ EntryHasWorker /\ JoinedHasLeft
    BY DEF Init, HolderIsTaking, EntryHasWorker, JoinedHasLeft
  <1>3. QED
    BY <1>1, <1>2 DEF QuietInv

LEMMA WorkQuietInv ==
    ASSUME QuietInv, TypeInv', NEW w \in Workers, Work(w)
    PROVE  QuietInv'
  <1>1. /\ pc \in [Workers -> WorkerPCs] /\ currentTask \in [Workers -> Task]
        /\ myTaskMutex \in Workers \cup {NoThread} /\ NoThread \notin Workers
    BY ThreadCountAssumption DEF QuietInv, TypeInv, TypeOK, Workers
  <1>2. call' = call /\ idx' = idx
    BY DEF Work, Loop, FindEmpty, Postpone, Choose, Claim, Pop, Finish, Release,
       Idle, clientVars
  <1>3. \A v \in Workers \ {w} : pc'[v] = pc[v] /\ currentTask'[v] = currentTask[v]
    <2>1. CASE Loop(w) \/ FindEmpty(w) \/ Postpone(w) \/ Choose(w)
      BY <1>1, <2>1 DEF Loop, FindEmpty, Postpone, Choose
    <2>2. CASE Claim(w) \/ Pop(w) \/ Finish(w) \/ Release(w) \/ Idle(w)
      BY <1>1, <2>2 DEF Claim, Pop, Finish, Release, Idle
    <2>3. QED
      BY <2>1, <2>2 DEF Work
  <1>4. pc[w] # "exit"
    BY DEF Work, Loop, FindEmpty, Postpone, Choose, Claim, Pop, Finish, Release, Idle
  <1>5. JoinedHasLeft'
    BY <1>2, <1>3, <1>4 DEF QuietInv, JoinedHasLeft
  <1>6. \A v \in Workers : pc[v] \in {"claim", "pop"} => myTaskMutex = v
    BY DEF QuietInv, TypeInv, LockHeld
  <1>7. HolderIsTaking'
    <2>1. CASE Loop(w) \/ FindEmpty(w) \/ Postpone(w)
      BY <1>1, <1>3, <2>1 DEF QuietInv, HolderIsTaking, Loop, FindEmpty, Postpone
    <2>2. CASE Choose(w) \/ Claim(w) \/ Pop(w)
      BY <1>1, <1>3, <1>6, <2>2 DEF QuietInv, HolderIsTaking, Choose, Claim, Pop
    <2>3. CASE Finish(w) \/ Release(w) \/ Idle(w)
      BY <1>1, <1>3, <2>3 DEF QuietInv, HolderIsTaking, Finish, Release, Idle
    <2>4. QED
      BY <2>1, <2>2, <2>3 DEF Work
  <1> DEFINE Has(v, t) == \/ pc[v] \in {"run", "release"} /\ currentTask[v].id = t
                          \/ pc[v] = "pop" /\ LastTask.id = t
  <1>8. \A v \in Workers \ {w} : \A t : Has(v, t) => Has(v, t)'
    <2>1. \A v \in Workers \ {w} : pc[v] = "pop" => myTasks' = myTasks
      <3>1. CASE myTasks' = myTasks
        BY <3>1
      <3>2. CASE Postpone(w) \/ Pop(w)
        BY <1>1, <1>6, <3>2 DEF Postpone, Pop
      <3>3. QED
        BY <3>1, <3>2 DEF Work, Loop, FindEmpty, Choose, Claim, Finish, Release, Idle
    <2>2. QED
      BY <1>3, <2>1 DEF LastTask
  <1>9. EntryHasWorker'
    <2> SUFFICES ASSUME NEW t \in myWorkingDependancies'
                 PROVE  t # NoID /\ \E v \in Workers : Has(v, t)'
      BY DEF EntryHasWorker
    <2>1. CASE Claim(w) /\ t \notin myWorkingDependancies
      <3>1. t # NoID /\ t = LastTask.id
        BY <2>1 DEF Claim, Claimed
      <3>2. pc'[w] = "pop" /\ LastTask' = LastTask
        BY <1>1, <2>1 DEF Claim, LastTask
      <3>3. QED
        BY <3>1, <3>2
    <2>2. CASE t \in myWorkingDependancies
      <3>1. PICK v \in Workers : Has(v, t)
        BY <2>2 DEF QuietInv, EntryHasWorker
      <3>2. t # NoID
        BY <2>2 DEF QuietInv, EntryHasWorker
      <3>3. CASE v # w
        BY <1>8, <3>1, <3>2, <3>3
      <3>4. CASE v = w
        <4>1. pc[w] \in {"run", "release", "pop"}
          BY <3>1, <3>4
        <4>2. Pop(w) \/ Finish(w) \/ Release(w)
          BY <4>1 DEF Work, Loop, FindEmpty, Postpone, Choose, Claim, Idle
        <4>3. CASE Pop(w)
          <5>1. LastTask.id = t
            BY <3>1, <3>4, <4>3 DEF Pop
          <5>2. pc'[w] = "run" /\ currentTask'[w] = LastTask
            BY <1>1, <4>3 DEF Pop
          <5>3. QED
            BY <3>2, <5>1, <5>2
        <4>4. CASE Finish(w)
          <5>1. currentTask[w].id = t /\ currentTask' = currentTask
            BY <3>1, <3>4, <4>4 DEF Finish
          <5>2. pc'[w] = "release"
            BY <1>1, <3>2, <4>4, <5>1 DEF Finish
          <5>3. QED
            BY <3>2, <5>1, <5>2
        <4>5. CASE Release(w)
          <5>1. currentTask[w].id = t
            BY <3>1, <3>4, <4>5 DEF Release
          <5>2. t \notin myWorkingDependancies'
            BY <4>5, <5>1 DEF Release, Released
          <5>3. QED
            BY <5>2
        <4>6. QED
          BY <4>2, <4>3, <4>4, <4>5
      <3>5. QED
        BY <3>3, <3>4
    <2>3. QED
      BY <2>1, <2>2 DEF Work, Loop, FindEmpty, Postpone, Choose, Pop, Finish,
         Release, Released, Idle
  <1>10. QED
    BY <1>5, <1>7, <1>9 DEF QuietInv
LEMMA ClientQuietInv ==
    ASSUME QuietInv, TypeInv', NEW c \in Clients, Begin(c) \/ Continue(c)
    PROVE  QuietInv'
  <1>1. call \in [Clients -> ClientPCs] /\ idx \in [Clients -> 0 .. ThreadCount]
    BY DEF QuietInv, TypeInv, TypeOK
  <1>2. UNCHANGED <<pc, currentTask, myWorkingDependancies, myTaskMutex>>
    BY DEF Begin, Continue, AddTask, AddTaskRefused, LowerFlag, WaitForTask,
       ScanQueue, ScanWorking, Sync, ScanFlag, Destroy, Join, workerVars
  <1>3. HolderIsTaking'
    BY <1>2 DEF QuietInv, HolderIsTaking
  <1>4. \A w \in Workers : pc[w] = "pop" => LastTask' = LastTask
    <2>1. CASE \E aSync \in BOOLEAN, aDependancy \in ReturnedIDs \cup {NoID} :
                  AddTask(c, aSync, aDependancy)
      BY <2>1, ThreadCountAssumption DEF AddTask, QuietInv, TypeInv, LockHeld, Workers
    <2>2. CASE myTasks' = myTasks
      BY <2>2 DEF LastTask
    <2>3. QED
      BY <2>1, <2>2 DEF Begin, Continue, AddTaskRefused, LowerFlag, WaitForTask,
         ScanQueue, ScanWorking, Sync, ScanFlag, Destroy, Join
  <1>5. EntryHasWorker'
    BY <1>2, <1>4 DEF QuietInv, EntryHasWorker
  <1>6. \A d \in Clients \ {c} : call'[d] = call[d] /\ idx'[d] = idx[d]
    <2>1. CASE Begin(c)
      BY <1>1, <2>1 DEF Begin, AddTask, AddTaskRefused, WaitForTask, Sync, Destroy
    <2>2. CASE Continue(c)
      BY <1>1, <2>2 DEF Continue, LowerFlag, ScanQueue, ScanWorking, ScanFlag, Join
    <2>3. QED
      BY <2>1, <2>2
  <1>7. /\ call'[c] = "join" => \A w \in Workers : w >= idx'[c] => pc[w] = "exit"
        /\ call'[c] = "gone" => \A w \in Workers : pc[w] = "exit"
    <2>1. CASE Destroy(c)
      <3>1. call'[c] = "join" /\ idx'[c] = ThreadCount
        BY <1>1, <2>1 DEF Destroy
      <3>2. \A w \in Workers : ~(w >= ThreadCount)
        BY ThreadCountAssumption DEF Workers
      <3>3. QED
        BY <3>1, <3>2
    <2>2. CASE Join(c)
      <3>1. /\ call[c] = "join" /\ idx'[c] = idx[c] - 1 /\ idx[c] \in Int
            /\ pc[idx[c] - 1] = "exit"
            /\ call'[c] = "gone" => idx[c] - 1 = 0
        BY <1>1, <2>2 DEF Join, AllJoined
      <3>2. \A w \in Workers : w >= idx[c] => pc[w] = "exit"
        BY <3>1 DEF QuietInv, JoinedHasLeft
      <3>3. \A w \in Workers : w \in Int /\ w >= 0
        BY ThreadCountAssumption DEF Workers
      <3>4. \A w \in Workers : w >= idx[c] - 1 => pc[w] = "exit"
        <4>1. \A w \in Workers : w >= idx[c] - 1 => w >= idx[c] \/ w = idx[c] - 1
          BY <3>1, <3>3
        <4>2. QED
          BY <3>1, <3>2, <4>1
      <3>5. QED
        BY <3>1, <3>3, <3>4
    <2>3. CASE ~Destroy(c) /\ ~Join(c)
      <3>1. call'[c] \notin {"join", "gone"} \/ (call'[c] = call[c] /\ idx'[c] = idx[c])
        BY <1>1, <2>3 DEF Begin, Continue, AddTask, AddTaskRefused, LowerFlag,
           WaitForTask, ScanQueue, ScanWorking, Sync, ScanFlag
      <3>2. QED
        BY <3>1 DEF QuietInv, JoinedHasLeft
    <2>4. QED
      BY <2>1, <2>2, <2>3
  <1>8. JoinedHasLeft'
    BY <1>2, <1>6, <1>7 DEF QuietInv, JoinedHasLeft
  <1>9. QED
    BY <1>3, <1>5, <1>8 DEF QuietInv

LEMMA NextQuietInv == QuietInv /\ [Next]_vars => QuietInv'
  <1> SUFFICES ASSUME QuietInv, [Next]_vars PROVE QuietInv'
    OBVIOUS
  <1>1. TypeInv'
    BY NextTypeInv DEF QuietInv
  <1>2. CASE UNCHANGED vars
    <2>1. UNCHANGED <<pc, currentTask, call, idx, myTasks, myTaskMutex,
                      myWorkingDependancies>>
      BY <1>2 DEF vars, workerVars, clientVars
    <2>2. QED
      BY <1>1, <2>1 DEF QuietInv, HolderIsTaking, EntryHasWorker, JoinedHasLeft, LastTask
  <1>3. QED
    BY <1>1, <1>2, WorkQuietInv, ClientQuietInv DEF Next, Terminated

\* The destructor returns with every worker out of Work, the lock free and
\* nothing in the working list.
THEOREM DestroyedIsQuiet == Spec => []QuietAfterDestroy
  <1>1. QuietInv => QuietAfterDestroy
    <2> SUFFICES ASSUME QuietInv, NEW c \in Clients, call[c] = "gone"
                 PROVE  /\ \A w \in Workers : pc[w] = "exit"
                        /\ myTaskMutex = NoThread
                        /\ myWorkingDependancies = {}
      BY DEF QuietAfterDestroy
    <2>1. \A w \in Workers : pc[w] = "exit"
      BY DEF QuietInv, JoinedHasLeft
    <2>2. QED
      BY <2>1 DEF QuietInv, HolderIsTaking, EntryHasWorker
  <1>2. QED
    BY <1>1, InitQuietInv, NextQuietInv, PTL DEF Spec

-----------------------------------------------------------------------------
\* What holds between any two steps of the threads, for any number of workers,
\* clients and tasks: the four parts above together.
THEOREM PoolIsSound == Spec => []ThreadpoolInv
  <1>1. TypeOK /\ OnePlacePerTask /\ DependancyFirst /\ SyncTaskKeepsFlagDown
          => ThreadpoolInv
    BY DEF ThreadpoolInv
  <1>2. QED
    BY <1>1, TypeCorrect, TaskInOnePlace, DependancyRespected, FlagDownInSyncTask, PTL

-----------------------------------------------------------------------------
(***************************************************************************)
(* The frame loop uses the pool                                            *)
(***************************************************************************)

LEMMA MainIsClient == main \in Clients
  BY FrameAssumption

LEMMA FrameStepIsPoolStep == [FrameNext]_allVars => [Next]_vars
  <1> SUFFICES ASSUME [FrameNext]_allVars PROVE [Next]_vars
    OBVIOUS
  <1> USE MainIsClient
  <1>1. ASSUME NEW w \in Workers, PoolStep(w) PROVE Next
    BY <1>1 DEF PoolStep, Next
  <1>2. ASSUME NEW w \in Workers, TakeBuffer(w) \/ ReportCulled(w) PROVE UNCHANGED vars
    BY <1>2 DEF TakeBuffer, ReportCulled
  <1>3. ASSUME NEW j, NEW sync \in BOOLEAN, Add(j, sync) PROVE Next
    BY <1>3 DEF Add, Next, Begin
  <1>4. ASSUME \/ SwitchBuffers \/ CleanBuffer \/ StartCommands \/ AllCulled \/ EndFrame
               \/ DestroyPhysics
        PROVE  UNCHANGED vars
    BY <1>4 DEF SwitchBuffers, CleanBuffer, StartCommands, AllCulled, EndFrame, DestroyPhysics
  <1>5. ASSUME AddRender \/ AddPhysics PROVE Next
    BY <1>3, <1>5 DEF AddRender, AddPhysics
  <1>6. ASSUME AddCulling PROVE [Next]_vars
    BY <1>3, <1>6 DEF AddCulling
  <1>7. ASSUME StartSync \/ DestroyPool \/ CallStep PROVE Next
    BY <1>7 DEF StartSync, DestroyPool, CallStep, Next, Begin
  <1>8. ASSUME Gone \/ UNCHANGED allVars PROVE UNCHANGED vars
    BY <1>8 DEF Gone, Terminated, allVars
  <1>9. QED
    BY <1>1, <1>2, <1>4, <1>5, <1>6, <1>7, <1>8 DEF FrameNext, Run

\* The frame loop calls the pool as a client may, so every theorem about the
\* pool holds in it (Launcher/main.cpp:172-207, Engine.cpp:490-530).
THEOREM FrameUsesPool == FrameSpec => Spec
  <1>1. FrameInit => Init
    BY DEF FrameInit
  <1>2. QED
    BY <1>1, FrameStepIsPoolStep, PTL DEF FrameSpec, Spec

-----------------------------------------------------------------------------
(***************************************************************************)
(* Jobs, and what a step of a worker does to the tasks                     *)
(***************************************************************************)

LEMMA JobsDiffer ==
    /\ Render \in Jobs /\ Physics \in Jobs /\ Render # Physics
    /\ \A k \in CullingLists : /\ Culling(k) \in Jobs
                               /\ Culling(k) # Render /\ Culling(k) # Physics
    /\ \A j, k \in CullingLists : Culling(j) = Culling(k) => j = k
    /\ \A j \in Jobs : j = Render \/ j = Physics \/ \E k \in CullingLists : j = Culling(k)
  <1>1. \A j, k : Culling(j) = Culling(k) => j = k
    BY DEF Culling
  <1>2. Render.kind = "render" /\ Physics.kind = "physics" /\ \A k : Culling(k).kind = "culling"
    BY DEF Render, Physics, Culling
  <1>3. QED
    BY <1>1, <1>2 DEF Jobs

LEMMA RunningIsAccepted ==
    \A w \in Workers : pc[w] = "run" => currentTask[w].id \in RunningIDs /\
                                        currentTask[w].id \in AcceptedIDs
  BY DEF RunningIDs, AcceptedIDs

LEMMA SameTasks ==
    ASSUME UNCHANGED <<myTasks, pc, currentTask, finished>>
    PROVE  QueuedIDs' = QueuedIDs /\ RunningIDs' = RunningIDs /\ AcceptedIDs' = AcceptedIDs
  BY DEF QueuedIDs, RunningIDs, AcceptedIDs

\* A worker takes tasks from the list, runs them, and returns from them.
Moved(w) ==
    /\ QueuedIDs' \subseteq QueuedIDs /\ AcceptedIDs' = AcceptedIDs
    /\ finished \subseteq finished' /\ call' = call
    /\ Len(myTasks') <= Len(myTasks)
    /\ \A v \in Workers :
          pc'[v] = "run" =>
             \/ v # w /\ pc[v] = "run" /\ currentTask'[v].id = currentTask[v].id
             \/ v = w /\ pc[v] # "run" /\ currentTask'[v].id \in QueuedIDs \ QueuedIDs'
    /\ \A v \in Workers \ {w} : pc'[v] = pc[v]

LEMMA WorkMoves ==
    ASSUME PlaceInv, NEW w \in Workers, Work(w)
    PROVE  Moved(w)
  <1>1. /\ pc \in [Workers -> WorkerPCs] /\ currentTask \in [Workers -> Task]
        /\ myTasks \in Seq(Task) /\ Len(myTasks) \in Nat
    BY DEF PlaceInv, TypeInv, TypeOK
  <1>2. ASSUME \/ Loop(w) \/ FindEmpty(w) \/ Choose(w) \/ Claim(w) \/ Release(w) \/ Idle(w)
        PROVE  Moved(w)
    <2>1. /\ UNCHANGED <<myTasks, finished, call>>
          /\ \A v \in Workers : pc'[v] = "run" <=> pc[v] = "run"
          /\ \A v \in Workers : pc[v] = "run" => v # w /\ currentTask'[v] = currentTask[v]
          /\ \A v \in Workers \ {w} : pc'[v] = pc[v]
      BY <1>1, <1>2 DEF Loop, FindEmpty, Choose, Claim, Release, Idle, clientVars
    <2>2. QueuedIDs' = QueuedIDs /\ RunningIDs' = RunningIDs
      BY <2>1 DEF QueuedIDs, RunningIDs
    <2>3. QED
      BY <1>1, <2>1, <2>2 DEF Moved, AcceptedIDs
  <1>3. ASSUME Postpone(w) PROVE Moved(w)
    <2>1. /\ UNCHANGED <<finished, call, currentTask>> /\ pc[w] = "lock"
          /\ pc' = [pc EXCEPT ![w] = "idle"]
      BY <1>3 DEF Postpone, clientVars
    <2>2. RunningIDs' = RunningIDs
      BY <1>1, <2>1 DEF RunningIDs
    <2>3. QueuedIDs' = QueuedIDs
      BY <1>3, PostponeKeepsPending
    <2>4. Len(myTasks') = Len(myTasks)
      BY <1>3, PostponePermutes DEF PlaceInv
    <2>5. QED
      BY <1>1, <2>1, <2>2, <2>3, <2>4 DEF Moved, AcceptedIDs
  <1>4. ASSUME Pop(w) PROVE Moved(w)
    <2>1. /\ pc[w] = "pop" /\ pc' = [pc EXCEPT ![w] = "run"] /\ UNCHANGED <<finished, call>>
          /\ currentTask' = [currentTask EXCEPT ![w] = LastTask]
          /\ myTasks' = RemoveLast(myTasks)
      BY <1>4 DEF Pop, clientVars
    <2>2. myTasks # <<>>
      BY <2>1 DEF PlaceInv, TypeInv, LockHeld
    <2>3. Len(myTasks') <= Len(myTasks)
      BY <1>1, <2>1, <2>2, RemoveLastType
    <2>4. QED
      BY <1>1, <1>4, <2>1, <2>3, PopMoves DEF Moved
  <1>5. ASSUME Finish(w) PROVE Moved(w)
    <2>1. /\ pc[w] = "run" /\ UNCHANGED <<myTasks, call, currentTask>>
          /\ pc' = [pc EXCEPT ![w] = IF currentTask[w].id = NoID THEN "loop" ELSE "release"]
      BY <1>5 DEF Finish, clientVars
    <2>2. QED
      BY <1>1, <1>5, <2>1, FinishMoves DEF Moved
  <1>6. QED
    BY <1>2, <1>3, <1>4, <1>5 DEF Work

-----------------------------------------------------------------------------
(***************************************************************************)
(* What a phase can meet.  A culling task is open from its AddTask until   *)
(* it has reported; sync tasks are unfinished from AddTask until a Sync    *)
(* that did not return early.                                              *)
(***************************************************************************)

JobsMatch == job \in [AcceptedIDs -> Jobs]

PhasesMatchCalls ==
    /\ phase \in {"begin", "clean", "render", "await", "sync", "destroyPhysics", "destroyPool"}
          => call[main] = "ready"
    /\ phase \in {"physics", "draw", "cull"} => call[main] \in {"ready", "wake"}
    /\ phase = "end" => call[main] \in {"ready", "sync"}
    /\ phase = "gone" => call[main] \in {"join", "gone"}

ReadingMatches ==
    \A w \in Workers :
        reading[w] # "none" =>
            /\ pc[w] = "run"
            /\ reading[w] \in Buffers => job[currentTask[w].id] = Render

\* A task that renders took the buffer of this frame.
BuffersCurrent ==
    ~earlySync => \A w \in Workers : reading[w] \in Buffers => reading[w] = BufferToRender

Synced == \/ phase \in {"begin", "clean", "render", "destroyPhysics", "destroyPool", "gone"}
          \/ phase = "end" /\ call[main] = "ready"
SyncedIsFinished == ~earlySync /\ Synced => SyncTasks \subseteq finished

Open(t) == \/ t \in QueuedIDs
           \/ \E w \in Workers : pc[w] = "run" /\ currentTask[w].id = t /\ reading[w] # "culled"
OpenCulling(t, k) == t \in AcceptedIDs /\ Open(t) /\ job[t] = Culling(k)

\* Open culling tasks belong to the culling in progress, one for each list.
OpenIsAwaited ==
    \A k \in CullingLists : \A t \in AcceptedIDs :
        OpenCulling(t, k) =>
            /\ phase \in {"cull", "await"} /\ k < list /\ k \notin myIsCulled
            /\ \A u \in AcceptedIDs : OpenCulling(u, k) => t = u

CulledWasAdded == \A k \in myIsCulled : k < list

\* How long the list can be when the next task is added.
ListIsShort ==
    ~earlySync =>
        /\ phase = "physics" => Len(myTasks) <= 1
        /\ phase = "draw" => Len(myTasks) <= 2
        /\ phase = "cull" => Len(myTasks) <= 1 + list

FrameTasksInv ==
    /\ JobsMatch /\ PhasesMatchCalls /\ ReadingMatches /\ BuffersCurrent /\ SyncedIsFinished
    /\ OpenIsAwaited /\ CulledWasAdded /\ ListIsShort /\ FrameFits

FrameIInv == PlaceInv /\ FrameTypeOK /\ FrameTasksInv

LEMMA PlaceFacts ==
    ASSUME PlaceInv
    PROVE  /\ myTasks \in Seq(Task) /\ Len(myTasks) \in Nat /\ myNextID \in Int
           /\ pc \in [Workers -> WorkerPCs] /\ currentTask \in [Workers -> Task]
           /\ call \in [Clients -> ClientPCs]
           /\ QueuedIDs \cap RunningIDs = {} /\ QueuedIDs \cap finished = {}
           /\ RunningIDs \cap finished = {}
           /\ \A v, w \in Workers :
                 pc[v] = "run" /\ pc[w] = "run" /\ currentTask[v].id = currentTask[w].id => v = w
  BY DEF PlaceInv, TypeInv, TypeOK, OnePlacePerTask

LEMMA InitFrameIInv == FrameInit => FrameIInv
  <1> SUFFICES ASSUME FrameInit PROVE FrameIInv
    OBVIOUS
  <1>1. PlaceInv
    BY InitPlaceInv DEF FrameInit
  <1>2. QueuedIDs = {} /\ RunningIDs = {} /\ finished = {} /\ AcceptedIDs = {}
    BY DEF FrameInit, Init, QueuedIDs, RunningIDs, AcceptedIDs
  <1>3. call[main] = "ready" /\ \A w \in Workers : pc[w] = "loop"
    BY MainIsClient DEF FrameInit, Init
  <1>4. /\ phase = "begin" /\ myRenderBufferA \in BOOLEAN /\ myIsCulled = {} /\ list = 1
        /\ job = <<>> /\ frames = 0 /\ reading = [w \in Workers |-> "none"]
        /\ earlySync = FALSE /\ refused = FALSE
    BY DEF FrameInit
  <1>5. job \in [AcceptedIDs -> Jobs] /\ DOMAIN job = {}
    <2>1. DOMAIN job = 1 .. 0 /\ 1 .. 0 = {} /\ job = [i \in 1 .. 0 |-> job[i]]
      BY <1>4
    <2>2. QED
      BY <1>2, <2>1
  <1>6. FrameTypeOK
    <2>1. list \in 1 .. CullingTasks + 1 /\ frames \in 0 .. MaxFrames
      BY <1>4, FrameAssumption
    <2>2. reading \in [Workers -> Buffers \cup {"none", "culled"}]
      BY <1>4
    <2>3. QED
      BY <1>4, <1>5, <2>1, <2>2 DEF FrameTypeOK
  <1>7. FrameTasksInv
    BY <1>2, <1>3, <1>4, <1>5
    DEF FrameTasksInv, JobsMatch, PhasesMatchCalls, ReadingMatches, BuffersCurrent, Buffers,
        SyncedIsFinished, Synced, SyncTasks, OpenIsAwaited, CulledWasAdded, ListIsShort, FrameFits
  <1>8. QED
    BY <1>1, <1>6, <1>7 DEF FrameIInv

\* When no sync task is unfinished and no culling is in progress, the list is
\* empty and nobody renders.
LEMMA NothingLeft ==
    ASSUME FrameIInv, SyncTasks \subseteq finished, phase \notin {"cull", "await"}
    PROVE  /\ Len(myTasks) = 0
           /\ \A w \in Workers : reading[w] \notin Buffers
  <1>1. \A t \in QueuedIDs : FALSE
    <2> SUFFICES ASSUME NEW t \in QueuedIDs PROVE FALSE
      OBVIOUS
    <2>1. t \in AcceptedIDs /\ t \notin finished
      BY PlaceFacts DEF FrameIInv, AcceptedIDs
    <2>2. job[t] \in Jobs /\ job[t] \notin {Render, Physics}
      BY <2>1 DEF FrameIInv, FrameTasksInv, JobsMatch, SyncTasks
    <2>3. PICK k \in CullingLists : job[t] = Culling(k)
      BY <2>2, JobsDiffer
    <2>4. QED
      BY <2>1, <2>3 DEF FrameIInv, FrameTasksInv, OpenIsAwaited, OpenCulling, Open
  <1>2. Len(myTasks) = 0
    <2>1. Len(myTasks) \in Nat
      BY PlaceFacts DEF FrameIInv
    <2>2. Len(myTasks) > 0 => myTasks[1].id \in QueuedIDs
      BY <2>1 DEF QueuedIDs
    <2>3. QED
      BY <1>1, <2>1, <2>2
  <1>3. ASSUME NEW w \in Workers, reading[w] \in Buffers PROVE FALSE
    <2>1. pc[w] = "run" /\ job[currentTask[w].id] = Render
      BY <1>3 DEF FrameIInv, FrameTasksInv, ReadingMatches, Buffers
    <2>2. currentTask[w].id \in RunningIDs /\ currentTask[w].id \in AcceptedIDs
      BY <2>1, RunningIsAccepted
    <2>3. currentTask[w].id \in SyncTasks
      BY <2>1, <2>2 DEF SyncTasks, FrameIInv, FrameTasksInv, JobsMatch
    <2>4. QED
      BY <2>2, <2>3, PlaceFacts DEF FrameIInv
  <1>4. QED
    BY <1>2, <1>3

-----------------------------------------------------------------------------
(***************************************************************************)
(* The steps of the main thread that do not call the pool                  *)
(***************************************************************************)

\* What steps share that neither move a task nor change what one is doing.
Still == UNCHANGED <<myTasks, pc, currentTask, finished, myNextID, job, reading>>

LEMMA StillKeeps ==
    ASSUME FrameIInv, Still, PlaceInv'
    PROVE  /\ QueuedIDs' = QueuedIDs /\ AcceptedIDs' = AcceptedIDs
           /\ JobsMatch' /\ ReadingMatches' /\ SyncTasks' = SyncTasks
           /\ \A t, k : OpenCulling(t, k)' <=> OpenCulling(t, k)
  <1>1. QueuedIDs' = QueuedIDs /\ AcceptedIDs' = AcceptedIDs
    BY SameTasks DEF Still
  <1>2. JobsMatch' /\ ReadingMatches' /\ SyncTasks' = SyncTasks
    BY <1>1 DEF Still, FrameIInv, FrameTasksInv, JobsMatch, ReadingMatches, SyncTasks
  <1>3. \A t, k : OpenCulling(t, k)' <=> OpenCulling(t, k)
    BY <1>1 DEF Still, OpenCulling, Open
  <1>4. QED
    BY <1>1, <1>2, <1>3

\* The part of the types that a step which is Still does not see.
LEMMA StillTypes ==
    ASSUME FrameIInv, Still, PlaceInv', UNCHANGED <<earlySync, refused>>,
           phase' \in {"begin", "clean", "render", "physics", "draw", "cull", "await", "sync",
                      "end", "destroyPhysics", "destroyPool", "gone"},
           myRenderBufferA' \in BOOLEAN, myIsCulled' \subseteq CullingLists,
           list' \in 1 .. CullingTasks + 1, frames' \in 0 .. MaxFrames
    PROVE  FrameTypeOK'
  <1>1. (job \in [AcceptedIDs -> Jobs])'
    BY StillKeeps DEF JobsMatch
  <1>2. (reading \in [Workers -> Buffers \cup {"none", "culled"}])'
    BY DEF Still, FrameIInv, FrameTypeOK
  <1>3. (earlySync \in BOOLEAN /\ refused \in BOOLEAN)'
    BY DEF FrameIInv, FrameTypeOK
  <1>4. QED
    BY <1>1, <1>2, <1>3 DEF FrameTypeOK

LEMMA SwitchKeeps ==
    ASSUME FrameIInv, SwitchBuffers, PlaceInv'
    PROVE  FrameTypeOK' /\ FrameTasksInv'
  <1>1. /\ phase = "begin" /\ phase' = "clean" /\ myRenderBufferA' = ~myRenderBufferA
        /\ frames < MaxFrames /\ frames' = frames + 1 /\ Still
        /\ UNCHANGED <<myIsCulled, list, call, earlySync, refused>>
    BY DEF SwitchBuffers, Still, vars, clientVars, workerVars, taskVars, historyVars
  <1>2. FrameTypeOK'
    <2>1. /\ myRenderBufferA' \in BOOLEAN /\ myIsCulled' \subseteq CullingLists
          /\ list' \in 1 .. CullingTasks + 1 /\ frames' \in 0 .. MaxFrames
      BY <1>1, FrameAssumption DEF FrameIInv, FrameTypeOK
    <2>2. QED
      BY <1>1, <2>1, StillTypes
  <1>3. ASSUME ~earlySync PROVE \A w \in Workers : reading[w] \notin Buffers
    BY <1>1, <1>3, NothingLeft DEF FrameIInv, FrameTasksInv, SyncedIsFinished, Synced
  <1>4. BuffersCurrent'
    BY <1>1, <1>3 DEF BuffersCurrent, Still
  <1>5. SyncedIsFinished'
    BY <1>1, StillKeeps DEF FrameIInv, FrameTasksInv, SyncedIsFinished, Synced, Still
  <1>6. OpenIsAwaited'
    BY <1>1, StillKeeps DEF FrameIInv, FrameTasksInv, OpenIsAwaited
  <1>7. PhasesMatchCalls' /\ CulledWasAdded' /\ ListIsShort' /\ FrameFits'
    BY <1>1 DEF FrameIInv, FrameTasksInv, PhasesMatchCalls, CulledWasAdded, ListIsShort, FrameFits
  <1>8. QED
    BY <1>1, <1>2, <1>4, <1>5, <1>6, <1>7, StillKeeps DEF FrameTasksInv

LEMMA PhaseKeeps ==
    ASSUME FrameIInv, CleanBuffer \/ EndFrame \/ DestroyPhysics, PlaceInv'
    PROVE  FrameTypeOK' /\ FrameTasksInv'
  <1>1. /\ \/ phase = "clean" /\ phase' = "render"
           \/ phase = "end" /\ phase' \in {"begin", "destroyPhysics"}
           \/ phase = "destroyPhysics" /\ phase' = "destroyPool"
        /\ call[main] = "ready" /\ Still
        /\ UNCHANGED <<myRenderBufferA, frames, myIsCulled, list, call, earlySync, refused>>
    BY DEF CleanBuffer, EndFrame, DestroyPhysics, Free, Still, vars, clientVars, workerVars,
           taskVars, historyVars
  <1>2. FrameTypeOK'
    <2>1. /\ myRenderBufferA' \in BOOLEAN /\ myIsCulled' \subseteq CullingLists
          /\ list' \in 1 .. CullingTasks + 1 /\ frames' \in 0 .. MaxFrames
      BY <1>1, FrameAssumption DEF FrameIInv, FrameTypeOK
    <2>2. QED
      BY <1>1, <2>1, StillTypes
  <1>3. BuffersCurrent'
    BY <1>1 DEF FrameIInv, FrameTasksInv, BuffersCurrent, Still, BufferToRender
  <1>4. SyncedIsFinished'
    BY <1>1, StillKeeps DEF FrameIInv, FrameTasksInv, SyncedIsFinished, Synced, Still
  <1>5. OpenIsAwaited'
    BY <1>1, StillKeeps DEF FrameIInv, FrameTasksInv, OpenIsAwaited
  <1>6. PhasesMatchCalls' /\ CulledWasAdded' /\ ListIsShort' /\ FrameFits'
    BY <1>1 DEF FrameIInv, FrameTasksInv, PhasesMatchCalls, CulledWasAdded, ListIsShort, FrameFits
  <1>7. QED
    BY <1>1, <1>2, <1>3, <1>4, <1>5, <1>6, StillKeeps DEF FrameTasksInv

LEMMA StartCommandsKeeps ==
    ASSUME FrameIInv, StartCommands, PlaceInv'
    PROVE  FrameTypeOK' /\ FrameTasksInv'
  <1>1. /\ phase = "draw" /\ phase' \in {"sync", "cull"} /\ call[main] = "ready"
        /\ myIsCulled' = {} /\ list' = 1 /\ Still
        /\ UNCHANGED <<myRenderBufferA, frames, call, earlySync, refused>>
    BY DEF StartCommands, Free, Still, vars, clientVars, workerVars, taskVars, historyVars
  <1>2. FrameTypeOK'
    <2>1. /\ myRenderBufferA' \in BOOLEAN /\ myIsCulled' \subseteq CullingLists
          /\ list' \in 1 .. CullingTasks + 1 /\ frames' \in 0 .. MaxFrames
      BY <1>1, FrameAssumption DEF FrameIInv, FrameTypeOK
    <2>2. QED
      BY <1>1, <2>1, StillTypes
  <1>3. BuffersCurrent'
    BY <1>1 DEF FrameIInv, FrameTasksInv, BuffersCurrent, Still, BufferToRender
  <1>4. SyncedIsFinished'
    BY <1>1 DEF SyncedIsFinished, Synced
  <1>5. OpenIsAwaited'
    BY <1>1, StillKeeps DEF FrameIInv, FrameTasksInv, OpenIsAwaited
  <1>6. PhasesMatchCalls' /\ CulledWasAdded' /\ FrameFits'
    BY <1>1 DEF FrameIInv, FrameTasksInv, PhasesMatchCalls, CulledWasAdded, FrameFits
  <1>7. ListIsShort'
    BY <1>1 DEF FrameIInv, FrameTasksInv, ListIsShort, Still
  <1>8. QED
    BY <1>1, <1>2, <1>3, <1>4, <1>5, <1>6, <1>7, StillKeeps DEF FrameTasksInv

LEMMA AllCulledKeeps ==
    ASSUME FrameIInv, AllCulled, PlaceInv'
    PROVE  FrameTypeOK' /\ FrameTasksInv'
  <1>1. /\ phase = "await" /\ phase' = "sync" /\ call[main] = "ready"
        /\ myIsCulled = CullingLists /\ Still
        /\ UNCHANGED <<myIsCulled, list, myRenderBufferA, frames, call, earlySync, refused>>
    BY DEF AllCulled, Free, Still, vars, clientVars, workerVars, taskVars, historyVars
  <1>2. FrameTypeOK'
    <2>1. /\ myRenderBufferA' \in BOOLEAN /\ myIsCulled' \subseteq CullingLists
          /\ list' \in 1 .. CullingTasks + 1 /\ frames' \in 0 .. MaxFrames
      BY <1>1, FrameAssumption DEF FrameIInv, FrameTypeOK
    <2>2. QED
      BY <1>1, <2>1, StillTypes
  <1>3. BuffersCurrent'
    BY <1>1 DEF FrameIInv, FrameTasksInv, BuffersCurrent, Still, BufferToRender
  <1>4. SyncedIsFinished' /\ ListIsShort'
    BY <1>1 DEF SyncedIsFinished, Synced, ListIsShort
  <1>5. OpenIsAwaited'
    BY <1>1, StillKeeps DEF FrameIInv, FrameTasksInv, OpenIsAwaited
  <1>6. PhasesMatchCalls' /\ CulledWasAdded' /\ FrameFits'
    BY <1>1 DEF FrameIInv, FrameTasksInv, PhasesMatchCalls, CulledWasAdded, FrameFits
  <1>7. QED
    BY <1>1, <1>2, <1>3, <1>4, <1>5, <1>6, StillKeeps DEF FrameTasksInv

-----------------------------------------------------------------------------
(***************************************************************************)
(* Adding a task                                                           *)
(***************************************************************************)

Accepts(j) ==
    LET n == myNextID
    IN  /\ QueuedIDs' = QueuedIDs \cup {n} /\ AcceptedIDs' = AcceptedIDs \cup {n}
        /\ n \notin AcceptedIDs
        /\ Len(myTasks') = Len(myTasks) + 1
        /\ UNCHANGED <<pc, currentTask, finished, refused>> /\ call'[main] = "wake"
        /\ job' \in [AcceptedIDs' -> Jobs] /\ job'[n] = j
        /\ \A t \in AcceptedIDs : job'[t] = job[t]
Refuses == Len(myTasks) >= Capacity /\ Still /\ refused' = TRUE /\ UNCHANGED call

LEMMA AddAcceptsOrRefuses ==
    ASSUME PlaceInv, JobsMatch, NEW j \in Jobs, NEW sync \in BOOLEAN, Add(j, sync)
    PROVE  /\ Accepts(j) \/ Refuses
           /\ UNCHANGED <<myRenderBufferA, myIsCulled, reading, frames, earlySync>>
  <1>1. UNCHANGED <<myRenderBufferA, myIsCulled, reading, frames, earlySync>>
    BY DEF Add
  <1>2. CASE /\ AddTask(main, sync, NoID)
             /\ job' = [t \in DOMAIN job \cup {myNextID} |-> IF t = myNextID THEN j ELSE job[t]]
             /\ UNCHANGED refused
    <2>1. /\ QueuedIDs' = QueuedIDs \cup {myNextID} /\ myNextID \notin AcceptedIDs
          /\ AcceptedIDs' = AcceptedIDs \cup {myNextID}
      BY <1>2, AddTaskMoves, MainIsClient
    <2>2. UNCHANGED <<pc, currentTask, finished>> /\ call'[main] = "wake"
      BY <1>2, MainIsClient, PlaceFacts DEF AddTask, workerVars
    <2>3. Len(myTasks') = Len(myTasks) + 1
      BY <1>2, PlaceFacts DEF AddTask
    <2>4. DOMAIN job = AcceptedIDs /\ job \in [AcceptedIDs -> Jobs]
      BY DEF JobsMatch
    <2>5. /\ job' \in [AcceptedIDs' -> Jobs] /\ job'[myNextID] = j
          /\ \A t \in AcceptedIDs : job'[t] = job[t]
      BY <1>2, <2>1, <2>4
    <2>6. QED
      BY <1>1, <1>2, <2>1, <2>2, <2>3, <2>5 DEF Accepts
  <1>3. CASE AddTaskRefused(main) /\ refused' = TRUE /\ UNCHANGED job
    BY <1>1, <1>3 DEF AddTaskRefused, Full, Refuses, Still, workerVars
  <1>4. QED
    BY <1>2, <1>3 DEF Add

\* What the invariant says of tasks survives the new one, if the phase may meet it.
LEMMA AddKeeps ==
    ASSUME FrameIInv, PlaceInv', NEW j \in Jobs, NEW sync \in BOOLEAN, Add(j, sync)
    PROVE  /\ JobsMatch' /\ ReadingMatches'
           /\ (job \in [AcceptedIDs -> Jobs])'
           /\ (reading \in [Workers -> Buffers \cup {"none", "culled"}])'
           /\ earlySync' \in BOOLEAN /\ refused' \in BOOLEAN
           /\ \A k \in CullingLists : \A t \in AcceptedIDs' :
                 OpenCulling(t, k)' =>
                    OpenCulling(t, k) \/ (t = myNextID /\ t \notin AcceptedIDs /\ j = Culling(k))
  <1>1. JobsMatch /\ ReadingMatches /\ PlaceInv
    BY DEF FrameIInv, FrameTasksInv
  <1>2. /\ Accepts(j) \/ Refuses
        /\ UNCHANGED <<myRenderBufferA, myIsCulled, reading, frames, earlySync>>
    BY <1>1, AddAcceptsOrRefuses
  <1>3. (reading \in [Workers -> Buffers \cup {"none", "culled"}])'
    BY <1>2 DEF FrameIInv, FrameTypeOK
  <1>4. earlySync' \in BOOLEAN /\ refused' \in BOOLEAN
    BY <1>2 DEF FrameIInv, FrameTypeOK, Accepts, Refuses
  <1>5. CASE Accepts(j)
    <2>1. JobsMatch'
      BY <1>5 DEF Accepts, JobsMatch
    <2>2. ReadingMatches'
      BY <1>1, <1>2, <1>5, RunningIsAccepted DEF Accepts, ReadingMatches
    <2>3. ASSUME NEW k \in CullingLists, NEW t \in AcceptedIDs', OpenCulling(t, k)',
                 t # myNextID
          PROVE  OpenCulling(t, k)
      BY <1>2, <1>5, <2>3 DEF Accepts, OpenCulling, Open
    <2>4. ASSUME NEW k \in CullingLists, NEW t \in AcceptedIDs', OpenCulling(t, k)',
                 t = myNextID
          PROVE  j = Culling(k) /\ t \notin AcceptedIDs
      BY <1>5, <2>4 DEF Accepts, OpenCulling
    <2>5. QED
      BY <1>3, <1>4, <1>5, <2>1, <2>2, <2>3, <2>4 DEF JobsMatch, Accepts
  <1>6. CASE Refuses
    BY <1>3, <1>4, <1>6, StillKeeps DEF Refuses, JobsMatch
  <1>7. QED
    BY <1>2, <1>5, <1>6

LEMMA AddSyncTaskKeeps ==
    ASSUME FrameIInv, AddRender \/ AddPhysics, PlaceInv'
    PROVE  FrameTypeOK' /\ FrameTasksInv'
  <1>1. PICK j \in {Render, Physics} :
           /\ Add(j, TRUE) /\ UNCHANGED list /\ call[main] = "ready"
           /\ \/ phase = "render" /\ phase' = "physics"
              \/ phase = "physics" /\ phase' = "draw"
    BY DEF AddRender, AddPhysics, Free
  <1>2. j \in Jobs /\ \A k \in CullingLists : j # Culling(k)
    BY JobsDiffer
  <1>3. /\ Accepts(j) \/ Refuses
        /\ UNCHANGED <<myRenderBufferA, myIsCulled, reading, frames, earlySync>>
    BY <1>1, <1>2, AddAcceptsOrRefuses DEF FrameIInv, FrameTasksInv
  <1>4. JobsMatch' /\ ReadingMatches'
    BY <1>1, <1>2, AddKeeps
  <1>5. FrameTypeOK'
    <2>1. /\ (job \in [AcceptedIDs -> Jobs])' /\ earlySync' \in BOOLEAN /\ refused' \in BOOLEAN
          /\ (reading \in [Workers -> Buffers \cup {"none", "culled"}])'
      BY <1>1, <1>2, AddKeeps
    <2>2. QED
      BY <1>1, <1>3, <2>1 DEF FrameIInv, FrameTypeOK
  <1>6. PhasesMatchCalls'
    BY <1>1, <1>3 DEF PhasesMatchCalls, Accepts, Refuses
  <1>7. BuffersCurrent'
    BY <1>3 DEF FrameIInv, FrameTasksInv, BuffersCurrent, BufferToRender
  <1>8. SyncedIsFinished'
    BY <1>1 DEF SyncedIsFinished, Synced
  <1>9. OpenIsAwaited'
    <2>1. ASSUME NEW k \in CullingLists, NEW t \in AcceptedIDs', OpenCulling(t, k)' PROVE FALSE
      <3>1. OpenCulling(t, k)
        BY <1>1, <1>2, <2>1, AddKeeps
      <3>2. QED
        BY <1>1, <3>1 DEF FrameIInv, FrameTasksInv, OpenIsAwaited, OpenCulling
    <2>2. QED
      BY <2>1 DEF OpenIsAwaited
  <1>10. CulledWasAdded'
    BY <1>1, <1>3 DEF FrameIInv, FrameTasksInv, CulledWasAdded
  <1>11. ASSUME ~earlySync
         PROVE  /\ phase = "render" => Len(myTasks) = 0
                /\ phase = "physics" => Len(myTasks) <= 1
    <2>1. phase = "render" => SyncTasks \subseteq finished
      BY <1>11 DEF FrameIInv, FrameTasksInv, SyncedIsFinished, Synced
    <2>2. QED
      BY <1>11, <2>1, NothingLeft DEF FrameIInv, FrameTasksInv, ListIsShort
  <1>12. Len(myTasks) \in Nat /\ Len(myTasks') \in Nat /\ CullingTasks \in Nat /\ Capacity \in Nat
    BY PlaceFacts, FrameAssumption, CapacityAssumption DEF FrameIInv, PlaceInv, TypeInv, TypeOK
  <1>13. ListIsShort'
    BY <1>1, <1>3, <1>11, <1>12 DEF ListIsShort, Accepts, Refuses, Still
  <1>14. FrameFits'
    BY <1>1, <1>3, <1>11, <1>12 DEF FrameIInv, FrameTasksInv, FrameFits, Accepts, Refuses
  <1>15. QED
    BY <1>4, <1>5, <1>6, <1>7, <1>8, <1>9, <1>10, <1>13, <1>14 DEF FrameTasksInv

LEMMA AddCullingKeeps ==
    ASSUME FrameIInv, AddCulling, PlaceInv'
    PROVE  FrameTypeOK' /\ FrameTasksInv'
  <1>0. phase = "cull" /\ call[main] = "ready"
    BY DEF AddCulling, Free
  <1>1. CASE list \in CullingLists
    <2>1. Add(Culling(list), FALSE) /\ list' = list + 1 /\ UNCHANGED phase
      BY <1>1 DEF AddCulling
    <2>2. Culling(list) \in Jobs
      BY <1>1, JobsDiffer
    <2>3. /\ Accepts(Culling(list)) \/ Refuses
          /\ UNCHANGED <<myRenderBufferA, myIsCulled, reading, frames, earlySync>>
      BY <2>1, <2>2, AddAcceptsOrRefuses DEF FrameIInv, FrameTasksInv
    <2>4. JobsMatch' /\ ReadingMatches'
      BY <2>1, <2>2, AddKeeps
    <2>5. list \in 1 .. CullingTasks /\ list' \in 1 .. CullingTasks + 1 /\ CullingTasks \in Nat
      BY <1>1, <2>1, FrameAssumption DEF CullingLists
    <2>6. FrameTypeOK'
      <3>1. /\ (job \in [AcceptedIDs -> Jobs])' /\ earlySync' \in BOOLEAN /\ refused' \in BOOLEAN
            /\ (reading \in [Workers -> Buffers \cup {"none", "culled"}])'
        BY <2>1, <2>2, AddKeeps
      <3>2. QED
        BY <2>1, <2>3, <2>5, <3>1 DEF FrameIInv, FrameTypeOK
    <2>7. PhasesMatchCalls'
      BY <1>0, <2>1, <2>3 DEF PhasesMatchCalls, Accepts, Refuses
    <2>8. BuffersCurrent'
      BY <2>3 DEF FrameIInv, FrameTasksInv, BuffersCurrent, BufferToRender
    <2>9. SyncedIsFinished'
      BY <1>0, <2>1 DEF SyncedIsFinished, Synced
    <2>10. CulledWasAdded'
      <3>1. \A k \in myIsCulled : k \in Int /\ k < list
        BY <2>5 DEF FrameIInv, FrameTypeOK, FrameTasksInv, CulledWasAdded, CullingLists
      <3>2. QED
        BY <2>1, <2>3, <2>5, <3>1 DEF CulledWasAdded
    <2>11. OpenIsAwaited'
      <3>1. ASSUME NEW k \in CullingLists, NEW t \in AcceptedIDs', OpenCulling(t, k)'
            PROVE  OpenCulling(t, k) \/ (t = myNextID /\ k = list)
        BY <1>1, <2>1, <2>2, <3>1, AddKeeps, JobsDiffer
      <3>2. ASSUME NEW k \in CullingLists, NEW t \in AcceptedIDs, OpenCulling(t, k)
            PROVE  /\ k < list /\ k \notin myIsCulled
                   /\ \A u \in AcceptedIDs : OpenCulling(u, k) => t = u
        BY <3>2 DEF FrameIInv, FrameTasksInv, OpenIsAwaited
      <3>3. list \notin myIsCulled
        BY <2>5 DEF FrameIInv, FrameTasksInv, CulledWasAdded
      <3>4. ASSUME NEW k \in CullingLists, NEW t \in AcceptedIDs', OpenCulling(t, k)'
            PROVE  /\ k < list + 1 /\ k \notin myIsCulled
                   /\ \A u \in AcceptedIDs' : OpenCulling(u, k)' => t = u
        <4>1. \A u : OpenCulling(u, k) => u \in AcceptedIDs
          BY DEF OpenCulling
        <4>2. k \in Int
          BY DEF CullingLists
        <4>3. CASE k = list
          BY <2>5, <3>1, <3>2, <3>3, <3>4, <4>1, <4>3
        <4>4. CASE k # list
          <5>1. \A u \in AcceptedIDs' : OpenCulling(u, k)' => OpenCulling(u, k)
            BY <3>1, <4>4
          <5>2. OpenCulling(t, k) /\ t \in AcceptedIDs
            BY <3>4, <4>1, <5>1
          <5>3. k < list /\ k \notin myIsCulled
            BY <3>2, <5>2
          <5>4. QED
            BY <2>5, <3>2, <4>1, <4>2, <5>1, <5>2, <5>3
        <4>5. QED
          BY <4>3, <4>4
      <3>5. QED
        BY <1>0, <2>1, <2>3, <3>4 DEF OpenIsAwaited
    <2>12. Len(myTasks) \in Nat /\ Capacity \in Nat
      BY PlaceFacts, CapacityAssumption DEF FrameIInv
    <2>13. ~earlySync => Len(myTasks) <= 1 + list
      BY <1>0 DEF FrameIInv, FrameTasksInv, ListIsShort
    <2>14. ListIsShort'
      BY <1>0, <2>1, <2>3, <2>5, <2>12, <2>13 DEF ListIsShort, Accepts, Refuses, Still
    <2>15. FrameFits'
      BY <2>3, <2>5, <2>12, <2>13
      DEF FrameIInv, FrameTasksInv, FrameFits, Accepts, Refuses
    <2>16. QED
      BY <2>4, <2>6, <2>7, <2>8, <2>9, <2>10, <2>11, <2>14, <2>15 DEF FrameTasksInv
  <1>2. CASE list \notin CullingLists
    <2>1. /\ phase' = "await" /\ Still
          /\ UNCHANGED <<myIsCulled, list, myRenderBufferA, frames, call, earlySync, refused>>
      BY <1>2 DEF AddCulling, Still, vars, clientVars, workerVars, taskVars, historyVars
    <2>2. FrameTypeOK'
      <3>1. /\ myRenderBufferA' \in BOOLEAN /\ myIsCulled' \subseteq CullingLists
            /\ list' \in 1 .. CullingTasks + 1 /\ frames' \in 0 .. MaxFrames
        BY <2>1 DEF FrameIInv, FrameTypeOK
      <3>2. QED
        BY <2>1, <3>1, StillTypes
    <2>3. BuffersCurrent'
      BY <2>1 DEF FrameIInv, FrameTasksInv, BuffersCurrent, Still, BufferToRender
    <2>4. SyncedIsFinished' /\ ListIsShort'
      BY <2>1 DEF SyncedIsFinished, Synced, ListIsShort
    <2>5. OpenIsAwaited'
      BY <2>1, StillKeeps DEF FrameIInv, FrameTasksInv, OpenIsAwaited
    <2>6. PhasesMatchCalls' /\ CulledWasAdded' /\ FrameFits'
      BY <1>0, <2>1 DEF FrameIInv, FrameTasksInv, PhasesMatchCalls, CulledWasAdded, FrameFits
    <2>7. QED
      BY <2>1, <2>2, <2>3, <2>4, <2>5, <2>6, StillKeeps DEF FrameTasksInv
  <1>3. QED
    BY <1>1, <1>2

-----------------------------------------------------------------------------
(***************************************************************************)
(* Calls of the pool, and the workers                                      *)
(***************************************************************************)

LEMMA ContinueMoves ==
    ASSUME PlaceInv, NEW c \in Clients, Continue(c)
    PROVE  /\ UNCHANGED <<myTasks, pc, currentTask, finished, myNextID>>
           /\ call[c] = "wake" => call'[c] \in {"wake", "ready"}
           /\ call[c] = "sync" => call'[c] \in {"sync", "ready"}
           /\ call[c] = "join" => call'[c] \in {"join", "gone"}
           /\ call[c] # "ready" /\ call[c] # "gone"
  BY PlaceFacts DEF Continue, LowerFlag, ScanQueue, ScanWorking, ScanFlag, Join, workerVars

LEMMA CallKeeps ==
    ASSUME FrameIInv, StartSync \/ DestroyPool \/ CallStep, PlaceInv'
    PROVE  FrameTypeOK' /\ FrameTasksInv'
  <1>1. /\ Still
        /\ UNCHANGED <<myRenderBufferA, frames, myIsCulled, list, refused>>
    BY ContinueMoves, MainIsClient
    DEF StartSync, DestroyPool, CallStep, Sync, Destroy, Still, workerVars, taskVars,
        historyVars, frameVars, FrameIInv
  <1>2. \/ /\ phase = "sync" /\ phase' = "end" /\ call'[main] = "sync" /\ UNCHANGED earlySync
        \/ /\ phase = "destroyPool" /\ phase' = "gone" /\ call'[main] = "join"
           /\ UNCHANGED earlySync
        \/ /\ phase' = phase /\ call[main] \in {"wake", "sync", "join"}
           /\ \/ call'[main] = call[main]
              \/ call[main] \in {"wake", "sync"} /\ call'[main] = "ready"
              \/ call[main] = "join" /\ call'[main] = "gone"
           /\ earlySync' = (earlySync \/ /\ call[main] = "sync" /\ call'[main] = "ready"
                                         /\ ~(SyncTasks \subseteq finished))
    <2>1. CASE StartSync
      BY <2>1, MainIsClient, PlaceFacts DEF StartSync, Sync, historyVars, FrameIInv
    <2>2. CASE DestroyPool
      BY <2>2, MainIsClient, PlaceFacts DEF DestroyPool, Destroy, historyVars, FrameIInv
    <2>3. CASE CallStep
      <3>1. phase' = phase /\ call[main] # "ready" /\ call[main] # "gone"
        BY <2>3, MainIsClient, ContinueMoves DEF CallStep, frameVars, FrameIInv
      <3>2. call[main] \in {"wake", "sync", "join"}
        BY <3>1 DEF FrameIInv, FrameTypeOK, FrameTasksInv, PhasesMatchCalls
      <3>3. QED
        BY <2>3, <3>1, <3>2, MainIsClient, ContinueMoves DEF CallStep, FrameIInv
    <2>4. QED
      BY <2>1, <2>2, <2>3
  <1>3. earlySync' \in BOOLEAN /\ (earlySync => earlySync')
    BY <1>2 DEF FrameIInv, FrameTypeOK
  <1>4. FrameTypeOK'
    <2>1. (job \in [AcceptedIDs -> Jobs])'
      BY <1>1, StillKeeps DEF JobsMatch
    <2>2. QED
      BY <1>1, <1>2, <1>3, <2>1 DEF FrameIInv, FrameTypeOK, Still
  <1>5. PhasesMatchCalls'
    BY <1>2 DEF FrameIInv, FrameTasksInv, PhasesMatchCalls
  <1>6. BuffersCurrent'
    BY <1>1, <1>3 DEF FrameIInv, FrameTasksInv, BuffersCurrent, Still, BufferToRender
  <1>7. SyncedIsFinished'
    <2>1. SyncTasks' = SyncTasks /\ finished' = finished
      BY <1>1, StillKeeps DEF Still
    <2>2. ASSUME ~earlySync', Synced' PROVE SyncTasks \subseteq finished
      <3>1. CASE Synced
        BY <1>3, <2>2, <3>1 DEF FrameIInv, FrameTasksInv, SyncedIsFinished
      <3>2. CASE ~Synced
        <4>1. phase = "end" /\ call[main] = "sync" /\ call'[main] = "ready"
          BY <1>2, <2>2, <3>2
          DEF Synced, FrameIInv, FrameTasksInv, PhasesMatchCalls
        <4>2. QED
          BY <1>2, <2>2, <4>1
      <3>3. QED
        BY <3>1, <3>2
    <2>3. QED
      BY <2>1, <2>2 DEF SyncedIsFinished
  <1>8. OpenIsAwaited'
    BY <1>1, <1>2, StillKeeps DEF FrameIInv, FrameTasksInv, OpenIsAwaited
  <1>9. CulledWasAdded' /\ ListIsShort' /\ FrameFits'
    BY <1>1, <1>2, <1>3
    DEF FrameIInv, FrameTasksInv, CulledWasAdded, ListIsShort, FrameFits, Still
  <1>10. QED
    BY <1>1, <1>4, <1>5, <1>6, <1>7, <1>8, <1>9, StillKeeps DEF FrameTasksInv

LEMMA TakeBufferKeeps ==
    ASSUME FrameIInv, NEW w \in Workers, TakeBuffer(w), PlaceInv'
    PROVE  FrameTypeOK' /\ FrameTasksInv'
  <1>1. /\ UNCHANGED <<myTasks, pc, currentTask, finished, call>>
        /\ UNCHANGED <<phase, myRenderBufferA, myIsCulled, list, frames, job, earlySync, refused>>
        /\ pc[w] = "run" /\ job[currentTask[w].id] = Render /\ reading[w] = "none"
        /\ reading' = [reading EXCEPT ![w] = BufferToRender]
    BY DEF TakeBuffer, Doing, vars, workerVars, clientVars, frameVars, historyVars
  <1>2. reading \in [Workers -> Buffers \cup {"none", "culled"}] /\ BufferToRender \in Buffers
    BY DEF FrameIInv, FrameTypeOK, Buffers, BufferToRender
  <1>3. QueuedIDs' = QueuedIDs /\ AcceptedIDs' = AcceptedIDs
    BY <1>1, SameTasks
  <1>4. FrameTypeOK'
    BY <1>1, <1>2, <1>3 DEF FrameIInv, FrameTypeOK
  <1>5. JobsMatch' /\ ReadingMatches'
    BY <1>1, <1>2, <1>3 DEF FrameIInv, FrameTasksInv, JobsMatch, ReadingMatches
  <1>6. BuffersCurrent'
    BY <1>1, <1>2 DEF FrameIInv, FrameTasksInv, BuffersCurrent, BufferToRender
  <1>7. ASSUME NEW t, NEW k, OpenCulling(t, k)' PROVE OpenCulling(t, k)
    BY <1>1, <1>2, <1>3, <1>7 DEF OpenCulling, Open
  <1>8. OpenIsAwaited'
    BY <1>1, <1>3, <1>7 DEF FrameIInv, FrameTasksInv, OpenIsAwaited
  <1>9. /\ SyncedIsFinished' /\ PhasesMatchCalls' /\ CulledWasAdded' /\ ListIsShort'
        /\ FrameFits'
    BY <1>1 DEF FrameIInv, FrameTasksInv, SyncedIsFinished, Synced, SyncTasks, PhasesMatchCalls,
                CulledWasAdded, ListIsShort, FrameFits
  <1>10. QED
    BY <1>4, <1>5, <1>6, <1>8, <1>9 DEF FrameTasksInv

LEMMA ReportCulledKeeps ==
    ASSUME FrameIInv, NEW w \in Workers, ReportCulled(w), PlaceInv'
    PROVE  FrameTypeOK' /\ FrameTasksInv'
  <1>1. PICK k \in CullingLists :
        /\ UNCHANGED <<myTasks, pc, currentTask, finished, call>>
        /\ UNCHANGED <<phase, myRenderBufferA, list, frames, job, earlySync, refused>>
        /\ pc[w] = "run" /\ job[currentTask[w].id] = Culling(k) /\ reading[w] = "none"
        /\ reading' = [reading EXCEPT ![w] = "culled"]
        /\ myIsCulled' = myIsCulled \cup {k}
    BY DEF ReportCulled, Doing, vars, workerVars, clientVars, historyVars
  <1>2. reading \in [Workers -> Buffers \cup {"none", "culled"}] /\ "culled" \notin Buffers
    BY DEF FrameIInv, FrameTypeOK, Buffers
  <1>3. QueuedIDs' = QueuedIDs /\ AcceptedIDs' = AcceptedIDs
    BY <1>1, SameTasks
  <1> DEFINE t0 == currentTask[w].id
  <1>4. /\ t0 \in RunningIDs /\ t0 \in AcceptedIDs /\ t0 \notin QueuedIDs
        /\ \A v \in Workers : pc[v] = "run" /\ currentTask[v].id = t0 => v = w
    BY <1>1, RunningIsAccepted, PlaceFacts DEF FrameIInv
  <1>5. OpenCulling(t0, k)
    BY <1>1, <1>4 DEF OpenCulling, Open
  <1>6. /\ phase \in {"cull", "await"} /\ k < list
        /\ \A u \in AcceptedIDs : OpenCulling(u, k) => t0 = u
    BY <1>4, <1>5 DEF FrameIInv, FrameTasksInv, OpenIsAwaited
  <1>7. FrameTypeOK'
    BY <1>1, <1>2, <1>3 DEF FrameIInv, FrameTypeOK
  <1>8. JobsMatch' /\ ReadingMatches' /\ BuffersCurrent' /\ CulledWasAdded'
    BY <1>1, <1>2, <1>3, <1>6
    DEF FrameIInv, FrameTasksInv, JobsMatch, ReadingMatches, BuffersCurrent, BufferToRender,
        CulledWasAdded
  <1>9. ASSUME NEW t, NEW j, OpenCulling(t, j)' PROVE OpenCulling(t, j) /\ t # t0
    <2>1. t \in AcceptedIDs /\ job[t] = Culling(j)
      BY <1>1, <1>3, <1>9 DEF OpenCulling
    <2>2. CASE t \in QueuedIDs
      BY <1>4, <2>1, <2>2 DEF OpenCulling, Open
    <2>3. CASE t \notin QueuedIDs
      <3>1. PICK v \in Workers : pc[v] = "run" /\ currentTask[v].id = t /\ reading'[v] # "culled"
        BY <1>1, <1>3, <1>9, <2>3 DEF OpenCulling, Open
      <3>2. v # w /\ reading[v] # "culled"
        BY <1>1, <1>2, <3>1
      <3>3. QED
        BY <1>4, <2>1, <3>1, <3>2 DEF OpenCulling, Open
    <2>4. QED
      BY <2>2, <2>3
  <1>10. OpenIsAwaited'
    <2> SUFFICES ASSUME NEW j \in CullingLists, NEW t \in AcceptedIDs, OpenCulling(t, j)'
                 PROVE  /\ phase \in {"cull", "await"} /\ j < list /\ j \notin myIsCulled \cup {k}
                        /\ \A u \in AcceptedIDs : OpenCulling(u, j)' => t = u
      BY <1>1, <1>3 DEF OpenIsAwaited
    <2>1. OpenCulling(t, j) /\ t # t0
      BY <1>9
    <2>2. j # k
      BY <1>6, <2>1
    <2>3. /\ j < list /\ j \notin myIsCulled
          /\ \A u \in AcceptedIDs : OpenCulling(u, j) => t = u
      BY <2>1 DEF FrameIInv, FrameTasksInv, OpenIsAwaited
    <2>4. QED
      BY <1>6, <1>9, <2>2, <2>3
  <1>11. SyncedIsFinished' /\ PhasesMatchCalls' /\ ListIsShort' /\ FrameFits'
    BY <1>1 DEF FrameIInv, FrameTasksInv, SyncedIsFinished, Synced, SyncTasks, PhasesMatchCalls,
                ListIsShort, FrameFits
  <1>12. QED
    BY <1>7, <1>8, <1>10, <1>11 DEF FrameTasksInv

LEMMA PoolStepKeeps ==
    ASSUME FrameIInv, NEW w \in Workers, PoolStep(w), PlaceInv'
    PROVE  FrameTypeOK' /\ FrameTasksInv'
  <1>1. /\ Work(w) /\ (pc[w] = "run" => TaskDone(w))
        /\ reading' = [reading EXCEPT ![w] = IF pc[w] = "run" THEN "none" ELSE @]
        /\ UNCHANGED <<phase, myRenderBufferA, myIsCulled, list, frames, job, earlySync, refused>>
    BY DEF PoolStep, frameVars, historyVars
  <1>2. Moved(w)
    BY <1>1, WorkMoves DEF FrameIInv
  <1>3. reading \in [Workers -> Buffers \cup {"none", "culled"}] /\ "none" \notin Buffers
    BY DEF FrameIInv, FrameTypeOK, Buffers
  <1>4. /\ reading'[w] = "none"
        /\ \A v \in Workers \ {w} : reading'[v] = reading[v]
        /\ reading' \in [Workers -> Buffers \cup {"none", "culled"}]
    <2>1. pc[w] # "run" => reading[w] = "none"
      BY DEF FrameIInv, FrameTasksInv, ReadingMatches
    <2>2. QED
      BY <1>1, <1>3, <2>1
  <1>5. FrameTypeOK' /\ JobsMatch'
    BY <1>1, <1>2, <1>4 DEF FrameIInv, FrameTypeOK, FrameTasksInv, JobsMatch, Moved
  <1>6. ReadingMatches'
    <2> SUFFICES ASSUME NEW v \in Workers, reading'[v] # "none"
                 PROVE  pc'[v] = "run" /\ (reading'[v] \in Buffers
                                            => job'[currentTask'[v].id] = Render)
      BY DEF ReadingMatches, Buffers
    <2>1. v # w /\ reading[v] = reading'[v]
      BY <1>4
    <2>2. pc[v] = "run" /\ (reading[v] \in Buffers => job[currentTask[v].id] = Render)
      BY <2>1 DEF FrameIInv, FrameTasksInv, ReadingMatches
    <2>3. pc'[v] = "run" /\ currentTask'[v].id = currentTask[v].id
      BY <1>2, <2>1, <2>2 DEF Moved
    <2>4. QED
      BY <1>1, <2>1, <2>2, <2>3
  <1>7. BuffersCurrent'
    BY <1>1, <1>3, <1>4 DEF FrameIInv, FrameTasksInv, BuffersCurrent, BufferToRender, Buffers
  <1>8. ASSUME NEW t, NEW k, OpenCulling(t, k)' PROVE OpenCulling(t, k)
    <2>1. t \in AcceptedIDs /\ job[t] = Culling(k)
      BY <1>1, <1>2, <1>8 DEF OpenCulling, Moved
    <2>2. CASE t \in QueuedIDs'
      BY <1>2, <2>1, <2>2 DEF OpenCulling, Open, Moved
    <2>3. CASE t \notin QueuedIDs'
      <3>1. PICK v \in Workers :
               pc'[v] = "run" /\ currentTask'[v].id = t /\ reading'[v] # "culled"
        BY <1>8, <2>3 DEF OpenCulling, Open
      <3>2. CASE v = w
        BY <1>2, <2>1, <3>1, <3>2 DEF Moved, OpenCulling, Open
      <3>3. CASE v # w
        BY <1>2, <1>4, <2>1, <3>1, <3>3 DEF Moved, OpenCulling, Open
      <3>4. QED
        BY <3>2, <3>3
    <2>4. QED
      BY <2>2, <2>3
  <1>9. OpenIsAwaited'
    BY <1>1, <1>2, <1>8 DEF FrameIInv, FrameTasksInv, OpenIsAwaited, Moved
  <1>10. SyncedIsFinished' /\ PhasesMatchCalls' /\ CulledWasAdded' /\ FrameFits'
    BY <1>1, <1>2 DEF FrameIInv, FrameTasksInv, SyncedIsFinished, Synced, SyncTasks,
                      PhasesMatchCalls, CulledWasAdded, FrameFits, Moved
  <1>11. ListIsShort'
    <2>1. Len(myTasks) \in Nat /\ Len(myTasks') \in Nat /\ list \in Int
      BY PlaceFacts DEF FrameIInv, PlaceInv, TypeInv, TypeOK, FrameTypeOK
    <2>2. QED
      BY <1>1, <1>2, <2>1 DEF FrameIInv, FrameTasksInv, ListIsShort, Moved
  <1>12. QED
    BY <1>5, <1>6, <1>7, <1>9, <1>10, <1>11 DEF FrameTasksInv

LEMMA NextFrameIInv == FrameIInv /\ [FrameNext]_allVars => FrameIInv'
  <1> SUFFICES ASSUME FrameIInv, [FrameNext]_allVars PROVE FrameIInv'
    OBVIOUS
  <1>1. PlaceInv'
    BY FrameStepIsPoolStep, NextPlaceInv DEF FrameIInv
  <1>2. CASE Gone \/ UNCHANGED allVars
    <2>1. /\ Still
          /\ UNCHANGED <<phase, myRenderBufferA, frames, myIsCulled, list, call, earlySync, refused>>
      BY <1>2 DEF Gone, Terminated, allVars, vars, workerVars, clientVars, frameVars, taskVars,
                  historyVars, Still
    <2>2. FrameTypeOK'
      <3>1. (job \in [AcceptedIDs -> Jobs])'
        BY <1>1, <2>1, StillKeeps DEF JobsMatch
      <3>2. QED
        BY <2>1, <3>1 DEF FrameIInv, FrameTypeOK, Still
    <2>3. OpenIsAwaited' /\ SyncedIsFinished'
      BY <1>1, <2>1, StillKeeps
      DEF FrameIInv, FrameTasksInv, OpenIsAwaited, SyncedIsFinished, Synced, Still
    <2>4. PhasesMatchCalls' /\ BuffersCurrent' /\ CulledWasAdded' /\ ListIsShort' /\ FrameFits'
      BY <2>1 DEF FrameIInv, FrameTasksInv, PhasesMatchCalls, BuffersCurrent, BufferToRender,
                  CulledWasAdded, ListIsShort, FrameFits, Still
    <2>5. QED
      BY <1>1, <2>1, <2>2, <2>3, <2>4, StillKeeps DEF FrameIInv, FrameTasksInv
  <1>3. QED
    BY <1>1, <1>2, SwitchKeeps, PhaseKeeps, StartCommandsKeeps, AllCulledKeeps, AddSyncTaskKeeps,
       AddCullingKeeps, CallKeeps, TakeBufferKeeps, ReportCulledKeeps, PoolStepKeeps
    DEF FrameNext, Run, FrameIInv

LEMMA FrameIInvHolds == FrameSpec => []FrameIInv
  BY InitFrameIInv, NextFrameIInv, PTL DEF FrameSpec

-----------------------------------------------------------------------------
LEMMA CollectionsAreSafe == FrameIInv => CollectionsOutliveTasks
  <1> SUFFICES ASSUME FrameIInv, phase \notin {"cull", "await"}, NEW k \in CullingLists
               PROVE  /\ QueuedIDs \cap Unfinished(Culling(k)) = {}
                      /\ \A w \in Workers : Doing(w, Culling(k)) => reading[w] = "culled"
    BY DEF CollectionsOutliveTasks
  <1>1. \A t \in AcceptedIDs : ~OpenCulling(t, k)
    BY DEF FrameIInv, FrameTasksInv, OpenIsAwaited
  <1>2. QueuedIDs \cap Unfinished(Culling(k)) = {}
    BY <1>1 DEF Unfinished, OpenCulling, Open, AcceptedIDs
  <1>3. ASSUME NEW w \in Workers, Doing(w, Culling(k)), reading[w] # "culled" PROVE FALSE
    BY <1>1, <1>3, RunningIsAccepted DEF Doing, OpenCulling, Open
  <1>4. QED
    BY <1>2, <1>3

\* Whatever the workers do: the collections of the culling and the physics
\* outlive the tasks that use them, and the pool refuses no task of a frame if it
\* has room for them, as long as no Sync returned early (Engine.cpp:303-350,
\* main.cpp:235-236).
THEOREM FrameIsSound == FrameSpec => []FrameInv
  <1>1. FrameIInv => FrameInv
    <2> SUFFICES ASSUME FrameIInv PROVE FrameInv
      OBVIOUS
    <2>1. PhysicsOutliveTasks
      BY DEF FrameIInv, FrameTasksInv, SyncedIsFinished, Synced, SyncTasks,
             PhysicsOutliveTasks, Unfinished
    <2>2. QED
      BY <2>1, CollectionsAreSafe DEF FrameIInv, FrameTasksInv, FrameInv
  <1>2. QED
    BY <1>1, FrameIInvHolds, PTL

\* The buffer that is filled is never the one a task renders, for any number of
\* workers and frames, as long as no Sync returned early (Engine.cpp:490-530).
THEOREM BuffersStayApart == FrameSpec => []BuffersApart
  <1>1. FrameIInv => BuffersApart
    BY DEF FrameIInv, FrameTypeOK, FrameTasksInv, BuffersCurrent, BuffersApart, Buffers, BufferToRender,
           OtherBuffer
  <1>2. QED
    BY <1>1, FrameIInvHolds, PTL
=============================================================================
