---------------------------- MODULE MCResources ----------------------------
(* What is counted, kept and shown: users of sprites and models, users of  *)
(* textures, and recordings.  The three have no state in common; a         *)
(* behaviour is one of a single part, chosen at first, and the other two   *)
(* keep their initial state.                                               *)
EXTENDS RenderUsers

CONSTANTS Textured,                  \* models with the texture
          Loader, NoThread, TextureLimit,
          Recorded, Places, FrameTimes, FrameLimit

VARIABLES
    part,
    known, textureUsers, myTexture, TextureMutex, created, released, plan, read,
    works, textured,
    transform, myFrames, myRecordedModels, myModelOrientationList, myRecordTimer,
    myFrameTimer, myFrameDuration, myPlayFrame, myIsRecording, myIsPlaying,
    myPlayReversed, scenes, unbroken

textureVars == <<known, textureUsers, myTexture, TextureMutex, created, released, plan,
                 read, works, textured>>
playbackVars == <<transform, myFrames, myRecordedModels, myModelOrientationList,
                  myRecordTimer, myFrameTimer, myFrameDuration, myPlayFrame,
                  myIsRecording, myIsPlaying, myPlayReversed, scenes, unbroken>>

\* One thread loads and releases the models: what the program does with the
\* texture, without the races between its threads.
Textures == INSTANCE TextureLoader
    WITH Models <- Textured, Loading <- {Loader}, Releasing <- {Loader},
         CountSize <- CountModulus, ResourceLimit <- TextureLimit,
         myUserCount <- textureUsers, loaded <- textured

Playback == INSTANCE Gameplayback
    WITH Models <- Recorded, Orientations <- Places, Default <- CHOOSE p \in Places : TRUE,
         Durations <- FrameTimes, Ticks <- FrameTimes

PartInit ==
    /\ part \in {"users", "textures", "playback"}
    /\ Init /\ Textures!Init /\ Playback!Init
    /\ part # "users" => myRenderBufferA
    /\ part # "playback" => /\ myFrameDuration = CHOOSE d \in FrameTimes : TRUE
                            /\ transform = [m \in Recorded |-> CHOOSE p \in Places : TRUE]

PartNext ==
    \/ part = "users" /\ Next /\ UNCHANGED <<textureVars, playbackVars>>
    \/ part = "textures" /\ Textures!Next /\ UNCHANGED <<vars, playbackVars>>
    \/ part = "playback" /\ Playback!Next /\ UNCHANGED <<vars, textureVars>>

PartSpec ==
    PartInit /\ [][PartNext /\ UNCHANGED part]_<<part, vars, textureVars, playbackVars>>

\* A model that is loaded has its texture; between two operations the texture's
\* count is the number of models that hold it, and at zero the texture is
\* released (TextureInstance.cpp:15, :24, :47).
TexturesInv == Textures!HeldTexturesStay /\ Textures!UsersMatch

\* Unbroken playback shows each model with a key where it stood
\* (GameplaybackManager.cpp:154, :183).
ShownAsRecorded == Playback!ShownAsRecorded
=============================================================================
