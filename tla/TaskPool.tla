----------------------------- MODULE TaskPool -----------------------------
(***************************************************************************)
(* What the engine's thread pool promises its callers, without workers,    *)
(* locks or flags: a submitted task is started at most once and only after *)
(* the task it depends on has finished, and a caller that awaits a task    *)
(* goes on only when that task has finished.                               *)
(***************************************************************************)
CONSTANTS
    Tasks,    \* the tasks that can be submitted: records with an id and the
              \* identifier of their dependancy
    Callers,  \* the threads that await tasks
    NoTask    \* the dependancy of a task that depends on nothing

VARIABLES
    pending,   \* submitted tasks that have not started
    running,   \* identifiers of the tasks that have started
    finished,  \* identifiers of the tasks that have returned
    awaited    \* for each caller, the set of identifiers it awaits (at most one)

vars == <<pending, running, finished, awaited>>

PendingIDs == {task.id : task \in pending}

KnownIDs == PendingIDs \cup running \cup finished

Init ==
    /\ pending = {}
    /\ running = {}
    /\ finished = {}
    /\ awaited = [c \in Callers |-> {}]

\* A new task, with a fresh identifier, depends on nothing or on an older task.
Submit(task) ==
    /\ task.id \notin KnownIDs
    /\ task.dependancy \in KnownIDs \cup {NoTask}
    /\ pending' = pending \cup {task}
    /\ UNCHANGED <<running, finished, awaited>>

Start(task) ==
    /\ task.dependancy \in finished \cup {NoTask}
    /\ pending' = pending \ {task}
    /\ running' = running \cup {task.id}
    /\ UNCHANGED <<finished, awaited>>

Complete(id) ==
    /\ running' = running \ {id}
    /\ finished' = finished \cup {id}
    /\ UNCHANGED <<pending, awaited>>

Await(c, id) ==
    /\ awaited[c] = {}
    /\ id \in KnownIDs \cup {NoTask}
    /\ awaited' = [awaited EXCEPT ![c] = {id}]
    /\ UNCHANGED <<pending, running, finished>>

Resume(c) ==
    /\ awaited[c] # {}
    /\ awaited[c] \subseteq finished \cup {NoTask}
    /\ awaited' = [awaited EXCEPT ![c] = {}]
    /\ UNCHANGED <<pending, running, finished>>

Next ==
    \/ \E task \in Tasks : Submit(task)
    \/ \E task \in pending : Start(task)
    \/ \E id \in running : Complete(id)
    \/ \E c \in Callers : Resume(c) \/ \E id \in KnownIDs \cup {NoTask} : Await(c, id)

Spec == Init /\ [][Next]_vars
=============================================================================
