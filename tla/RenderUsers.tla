----------------------------- MODULE RenderUsers -----------------------------
(***************************************************************************)
(* Who uses a sprite or a model: the instances that hold it and the render *)
(* commands made from them (Engine/Engine.cpp).  A command outlives its    *)
(* frame by one: it is made in the buffer that is filled, rendered in the  *)
(* next frame and dropped when the buffers switch again.  The counts of    *)
(* users decide when a sprite or a model is unloaded, so they must count   *)
(* the commands too.                                                       *)
(*                                                                         *)
(* All this is the main thread's; FrameLoop has the threads.  Definitions  *)
(* called Faulty are no part of the specification.                         *)
(***************************************************************************)
EXTENDS Integers, FiniteSets

CONSTANTS
    Sprites, Models,
    Instances,
    MayDraw,       \* whether the program calls Engine::Draw with sprites
    CountModulus,  \* 2^32: myUserCount is an unsigned int
    Nothing

ASSUME ResourcesAssumption ==
    /\ Sprites \cap Models = {} /\ Nothing \notin Sprites \cup Models
    /\ MayDraw \in BOOLEAN /\ CountModulus \in Nat \ {0, 1}

VARIABLES
    myUserCount,      \* of each sprite and model
    loaded,           \* the entries of mySpriteMap and myModelMap
    holds,            \* per instance: the sprite or model it points to
    scene,            \* the instances in the active scene
    commands,         \* per buffer: how many commands use each sprite or model
    myRenderBufferA,
    filled,           \* CreateRenderCommands has been called in this frame
    drawn             \* history: Draw made a command

vars == <<myUserCount, loaded, holds, scene, commands, myRenderBufferA, filled, drawn>>

-----------------------------------------------------------------------------
Resources == Sprites \cup Models

Filling == IF myRenderBufferA THEN "B" ELSE "A"
Rendered == IF myRenderBufferA THEN "A" ELSE "B"

Holders(r) == {i \in Instances : holds[i] = r}
InScene(r) == Holders(r) \cap scene

\* The counts after users come or go; an unsigned int wraps.
Plus(count, change) == [r \in Resources |-> (count[r] + change[r]) % CountModulus]
Minus(count, change) == [r \in Resources |-> (count[r] - change[r]) % CountModulus]
One(r) == [s \in Resources |-> IF s = r THEN 1 ELSE 0]
None == [r \in Resources |-> 0]

Init ==
    /\ myUserCount = None /\ loaded = {}
    /\ holds = [i \in Instances |-> Nothing] /\ scene = {}
    /\ commands = [b \in {"A", "B"} |-> None]
    /\ myRenderBufferA \in BOOLEAN /\ filled = FALSE /\ drawn = FALSE

-----------------------------------------------------------------------------
(* Instances.  The scene's sprite instances always hold a sprite.          *)

FaultyUnload(r) == IF myUserCount[r] <= 2 THEN {r} ELSE {}

Unload(r) == IF myUserCount[r] = 1 THEN {r} ELSE {}

Release(i) ==
    LET r == holds[i]
    IN  /\ r # Nothing /\ (r \in Sprites => i \notin scene)
        /\ myUserCount' = Minus(myUserCount, One(r))
        /\ loaded' = loaded \ Unload(r)
        /\ holds' = [holds EXCEPT ![i] = Nothing]
        /\ UNCHANGED <<scene, commands, myRenderBufferA, filled, drawn>>

\* Init of a sprite, Load of a model, after Release.
Get(i, r) ==
    /\ holds[i] = Nothing
    /\ loaded' = loaded \cup {r}
    /\ myUserCount' = Plus(myUserCount, One(r))
    /\ holds' = [holds EXCEPT ![i] = r]
    /\ UNCHANGED <<scene, commands, myRenderBufferA, filled, drawn>>

FaultyCopy(i, j) ==
    /\ holds[i] = Nothing /\ holds[j] # Nothing
    /\ holds' = [holds EXCEPT ![i] = holds[j]]
    /\ UNCHANGED <<myUserCount, loaded, scene, commands, myRenderBufferA, filled, drawn>>

\* operator=, after Release.
Copy(i, j) ==
    /\ holds[i] = Nothing /\ holds[j] # Nothing
    /\ holds' = [holds EXCEPT ![i] = holds[j]]
    /\ myUserCount' = Plus(myUserCount, One(holds[j]))
    /\ UNCHANGED <<loaded, scene, commands, myRenderBufferA, filled, drawn>>

EnterScene(i) ==
    /\ holds[i] # Nothing
    /\ scene' = scene \cup {i}
    /\ UNCHANGED <<myUserCount, loaded, holds, commands, myRenderBufferA, filled, drawn>>

LeaveScene(i) ==
    /\ scene' = scene \ {i}
    /\ UNCHANGED <<myUserCount, loaded, holds, commands, myRenderBufferA, filled, drawn>>

-----------------------------------------------------------------------------
(* The frame.                                                              *)

\* The buffer that was rendered is emptied and filled next.  Nothing is
\* unloaded here.
SwitchAndCleanBuffers ==
    /\ myRenderBufferA' = ~myRenderBufferA /\ filled' = FALSE
    /\ myUserCount' = Minus(myUserCount, commands[Rendered])
    /\ commands' = [commands EXCEPT ![Rendered] = None]
    /\ UNCHANGED <<loaded, holds, scene, drawn>>

\* Draw makes the sprite's command if the buffer has none, and adds no user.
Draw(i) ==
    /\ MayDraw /\ ~filled /\ holds[i] \in Sprites
    /\ IF commands[Filling][holds[i]] = 0
       THEN commands' = [commands EXCEPT ![Filling] = Plus(@, One(holds[i]))] /\ drawn' = TRUE
       ELSE UNCHANGED <<commands, drawn>>
    /\ UNCHANGED <<myUserCount, loaded, holds, scene, myRenderBufferA, filled>>

\* A command for each model instance the culling found, and one for all
\* instances of a sprite.
Made(visible) ==
    [r \in Resources |->
        IF r \in Models THEN Cardinality(InScene(r) \cap visible)
        ELSE IF InScene(r) # {} /\ commands[Filling][r] = 0 THEN 1 ELSE 0]

CreateRenderCommands ==
    /\ ~filled /\ filled' = TRUE
    /\ \E visible \in SUBSET scene :
           /\ commands' = [commands EXCEPT ![Filling] = Plus(@, Made(visible))]
           /\ myUserCount' = Plus(myUserCount, Made(visible))
    /\ UNCHANGED <<loaded, holds, scene, myRenderBufferA, drawn>>

Next ==
    \/ \E i \in Instances : \/ Release(i) \/ Draw(i) \/ EnterScene(i) \/ LeaveScene(i)
                            \/ \E r \in Resources : Get(i, r)
                            \/ \E j \in Instances : Copy(i, j)
    \/ SwitchAndCleanBuffers \/ CreateRenderCommands

Spec == Init /\ [][Next]_vars

-----------------------------------------------------------------------------
TypeOK ==
    /\ myUserCount \in [Resources -> 0 .. CountModulus - 1] /\ loaded \subseteq Resources
    /\ holds \in [Instances -> Resources \cup {Nothing}] /\ scene \subseteq Instances
    /\ commands \in [{"A", "B"} -> [Resources -> 0 .. CountModulus - 1]]
    /\ \A b \in {"A", "B"} : \A r \in Sprites : commands[b][r] <= 1
    /\ myRenderBufferA \in BOOLEAN /\ filled \in BOOLEAN /\ drawn \in BOOLEAN

\* As long as no command was made by Draw, every user is counted once: each
\* instance, and each command of both buffers (Engine.cpp:367-391, 475-476,
\* 499-531).
UsersMatch ==
    ~drawn => \A r \in Resources :
        myUserCount[r] = Cardinality(Holders(r)) + commands["A"][r] + commands["B"][r]

\* The counts are those of the instances and of the commands of both buffers
\* (Engine.cpp:367-391, 475-476, 499-531).
RenderUsersInv == TypeOK /\ UsersMatch

\* As long as no command was made by Draw, what the render thread uses, and what
\* it will use in the next frame, is loaded, also if every instance was released.
RenderedIsLoaded ==
    ~drawn => \A r \in Resources \ loaded : commands["A"][r] = 0 /\ commands["B"][r] = 0
=============================================================================
