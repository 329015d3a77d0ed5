--------------------------- MODULE TextureLoader ---------------------------
(***************************************************************************)
(* Users of a texture: TextureInstance, Texture and TextureLoader          *)
(* (Engine/), as models take and release them (ModelLoader::LoadModel and  *)
(* UnloadModel).  The map of textures is behind TextureMutex; the count of *)
(* users is not: AddUser and RemoveUser read and write it wherever an      *)
(* instance is copied or released.  A step is one such access, or what     *)
(* happens under the mutex between two.                                    *)
(*                                                                         *)
(* One path is enough: textures share nothing but the mutex.  Files exist  *)
(* and textures are created.  What a thread has left to do is a sequence   *)
(* of steps.                                                               *)
(*                                                                         *)
(* Operators that describe a faulty variant stand before the one they      *)
(* would replace; they are no part of the specification.                   *)
(***************************************************************************)
EXTENDS Naturals, Sequences, FiniteSets

CONSTANTS Models,
          Loading, Releasing,   \* threads that load models, and release them
          NoThread, Nothing,
          CountSize,            \* 2^32 in the code: the count is unsigned
          ResourceLimit         \* bound: how often the texture is created

VARIABLES
    known,         \* the path is in myTextureMap
    myUserCount,
    myTexture,     \* the resource, counted; Nothing if there is none
    TextureMutex,
    created,       \* resources made so far
    released,      \* history: resources that were released
    plan,          \* of each thread: the steps left
    read,          \* of each thread: the count it has read
    works,         \* of each thread: the model it works on
    loaded         \* models that hold the texture

vars == <<known, myUserCount, myTexture, TextureMutex, created, released, plan, read,
          works, loaded>>

Threads == Loading \cup Releasing

Init ==
    /\ known = FALSE
    /\ myUserCount = 0
    /\ myTexture = Nothing
    /\ TextureMutex = NoThread
    /\ created = 0
    /\ released = {}
    /\ plan = [t \in Threads |-> <<>>]
    /\ read = [t \in Threads |-> 0]
    /\ works = [t \in Threads |-> Nothing]
    /\ loaded = {}

-----------------------------------------------------------------------------
(* What the operations consist of. *)

AddUser == <<"read", "add">>
RemoveUser == <<"read", "subtract">>

GetTexture == <<"lock", "find">> \o AddUser \o <<"unlock">>

Copy == AddUser

\* Faulty variant: the count is looked at first.
TestFirst == <<"test">> \o RemoveUser

Release == RemoveUser \o <<"test">>

UnloadTexture == <<"lock", "remove", "unlock", "free">>

\* A temporary gets the texture and is copied to a local instance, the local
\* one to the model's; each is released when it ends.
LoadModel == GetTexture \o Copy \o Release \o Copy \o Release

-----------------------------------------------------------------------------

StartLoad(t, m) ==
    /\ plan[t] = <<>> /\ t \in Loading
    /\ m \notin loaded /\ \A u \in Threads : works[u] # m
    /\ plan' = [plan EXCEPT ![t] = LoadModel \o <<"loaded">>]
    /\ works' = [works EXCEPT ![t] = m]
    /\ UNCHANGED <<known, myUserCount, myTexture, TextureMutex, created, released, read,
                   loaded>>

StartUnload(t, m) ==
    /\ plan[t] = <<>> /\ t \in Releasing
    /\ m \in loaded
    /\ plan' = [plan EXCEPT ![t] = Release \o <<"unloaded">>]
    /\ works' = [works EXCEPT ![t] = m]
    /\ loaded' = loaded \ {m}
    /\ UNCHANGED <<known, myUserCount, myTexture, TextureMutex, created, released, read>>

At(t, step) == plan[t] # <<>> /\ Head(plan[t]) = step
Continue(t) == plan' = [plan EXCEPT ![t] = Tail(@)]

\* AddUser and RemoveUser: the count is read and then written.
ReadCount(t) ==
    /\ At(t, "read")
    /\ read' = [read EXCEPT ![t] = myUserCount]
    /\ Continue(t)
    /\ UNCHANGED <<known, myUserCount, myTexture, TextureMutex, created, released, works,
                   loaded>>

WriteCount(t) ==
    /\ \/ At(t, "add") /\ myUserCount' = (read[t] + 1) % CountSize
       \/ At(t, "subtract") /\ myUserCount' = (read[t] + CountSize - 1) % CountSize
    /\ Continue(t)
    /\ UNCHANGED <<known, myTexture, TextureMutex, created, released, read, works, loaded>>

\* TextureInstance::Release, after RemoveUser: the last user unloads.
TestCount(t) ==
    /\ At(t, "test")
    /\ plan' = [plan EXCEPT ![t] = IF myUserCount = 0 THEN UnloadTexture \o Tail(@)
                                   ELSE Tail(@)]
    /\ UNCHANGED <<known, myUserCount, myTexture, TextureMutex, created, released, read,
                   works, loaded>>

Lock(t) ==
    /\ At(t, "lock")
    /\ TextureMutex = NoThread
    /\ TextureMutex' = t
    /\ Continue(t)
    /\ UNCHANGED <<known, myUserCount, myTexture, created, released, read, works, loaded>>

Unlock(t) ==
    /\ At(t, "unlock")
    /\ TextureMutex' = NoThread
    /\ Continue(t)
    /\ UNCHANGED <<known, myUserCount, myTexture, created, released, read, works, loaded>>

\* GetTexture.  An entry that was removed is used again with the count it
\* has.
Find(t) ==
    /\ At(t, "find")
    /\ IF known
         THEN UNCHANGED <<known, created, myTexture>>
         ELSE /\ created < ResourceLimit
              /\ known' = TRUE
              /\ created' = created + 1
              /\ myTexture' = created + 1
    /\ Continue(t)
    /\ UNCHANGED <<myUserCount, TextureMutex, released, read, works, loaded>>

\* UnloadTexture.  If the path is not there (an assertion in a debug build)
\* it returns, and the mutex stays locked.
Remove(t) ==
    /\ At(t, "remove")
    /\ known' = FALSE
    /\ plan' = [plan EXCEPT ![t] = IF known THEN Tail(@) ELSE SubSeq(@, 4, Len(@))]
    /\ UNCHANGED <<myUserCount, myTexture, TextureMutex, created, released, read, works,
                   loaded>>

\* The resource is released after the mutex, through the entry.
Free(t) ==
    /\ At(t, "free")
    /\ released' = released \cup {myTexture}
    /\ myTexture' = Nothing
    /\ Continue(t)
    /\ UNCHANGED <<known, myUserCount, TextureMutex, created, read, works, loaded>>

Finish(t) ==
    /\ At(t, "loaded") \/ At(t, "unloaded")
    /\ loaded' = IF At(t, "loaded") THEN loaded \cup {works[t]} ELSE loaded
    /\ works' = [works EXCEPT ![t] = Nothing]
    /\ Continue(t)
    /\ UNCHANGED <<known, myUserCount, myTexture, TextureMutex, created, released, read>>

Step(t) ==
    \/ ReadCount(t) \/ WriteCount(t) \/ TestCount(t)
    \/ Lock(t) \/ Unlock(t) \/ Find(t) \/ Remove(t) \/ Free(t)
    \/ Finish(t)

Next ==
    \E t \in Threads : Step(t) \/ \E m \in Models : StartLoad(t, m) \/ StartUnload(t, m)

Spec == Init /\ [][Next]_vars

-----------------------------------------------------------------------------

\* A model that is loaded has its texture: it was not released by whoever
\* thought to be the last user (TextureInstance::Release,
\* TextureInstance.cpp:47).
HeldTexturesStay ==
    loaded # {} => known /\ myTexture # Nothing /\ myTexture \notin released

\* Between two operations the count is the number of models that hold the
\* texture, and at zero the texture is released (TextureInstance.cpp:15, :24,
\* :47): all the copies on the way to the model are accounted for.
UsersMatch ==
    (\A t \in Threads : plan[t] = <<>>) =>
        /\ myUserCount = Cardinality(loaded)
        /\ loaded = {} => ~known /\ released = 1..created
=============================================================================
