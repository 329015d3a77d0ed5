---------------------------- MODULE Gameplayback ----------------------------
(***************************************************************************)
(* Recording the movement of models and playing it back                    *)
(* (Engine/GameplaybackManager.cpp).  A frame keeps a key for the models   *)
(* that stand elsewhere than when they were last recorded.  Every step is  *)
(* a call of the program, which also moves the models.                     *)
(*                                                                         *)
(* Time is counted in ticks, an orientation (rotation and position) is a   *)
(* value.  A model that is added twice is recorded twice, with the same    *)
(* keys: once here.                                                        *)
(*                                                                         *)
(* Operators that describe a faulty variant stand before the one they      *)
(* would replace; they are no part of the specification.                   *)
(***************************************************************************)
EXTENDS Integers, Sequences

CONSTANTS Models, Orientations,
          Default,      \* what RecordedOrientation() holds
          Durations,    \* of a frame, one for every frame rate
          Ticks,        \* that may pass between two calls of Update
          FrameLimit    \* bound: frames recorded

VARIABLES
    transform,               \* where the models stand
    myFrames,                \* of each frame, the keys: an orientation for
                             \* some of the models
    myRecordedModels, myModelOrientationList,
    myRecordTimer, myFrameTimer, myFrameDuration,
    myPlayFrame,             \* counted from 1
    myIsRecording, myIsPlaying, myPlayReversed,
    scenes,                  \* history: where the models stood, for each frame
    unbroken                 \* history: since the first frame was shown, every
                             \* frame was, and nobody else moved a model

timers == <<myRecordTimer, myFrameTimer>>
modes == <<myIsRecording, myIsPlaying, myPlayReversed>>
models == <<myRecordedModels, myModelOrientationList>>
frames == <<myFrames, scenes>>
vars == <<transform, frames, models, timers, myFrameDuration, myPlayFrame, modes,
          unbroken>>

Init ==
    /\ transform \in [Models -> Orientations]
    /\ myFrames = <<>> /\ scenes = <<>>
    /\ myRecordedModels = {}
    /\ myModelOrientationList = [m \in Models |-> Default]
    /\ myRecordTimer = 0 /\ myFrameTimer = 0
    /\ myFrameDuration \in Durations
    /\ myPlayFrame = 1
    /\ myIsRecording = FALSE /\ myIsPlaying = FALSE /\ myPlayReversed = FALSE
    /\ unbroken = FALSE

-----------------------------------------------------------------------------

\* Faulty variant: what is recorded is not remembered.
Forgotten == UNCHANGED myModelOrientationList

Remembered ==
    myModelOrientationList' =
        [m \in Models |-> IF m \in myRecordedModels THEN transform[m]
                          ELSE myModelOrientationList[m]]

\* RecordFrame, count times in a row: the models stand still meanwhile, so
\* the frames after the first one have no keys.
RecordFrames(count) ==
    LET moved == {m \in myRecordedModels : transform[m] # myModelOrientationList[m]}
        keys == [m \in moved |-> transform[m]]
        nothing == [m \in {} |-> Default]
    IN  /\ Len(myFrames) + count =< FrameLimit
        /\ myFrames' = myFrames \o [k \in 1..count |-> IF k = 1 THEN keys ELSE nothing]
        /\ scenes' = scenes \o [k \in 1..count |-> transform]
        /\ IF count > 0 THEN Remembered ELSE UNCHANGED myModelOrientationList

\* PlayFrame.
Shown(frame) ==
    [m \in Models |-> IF frame \in DOMAIN myFrames /\ m \in DOMAIN myFrames[frame]
                      THEN myFrames[frame][m] ELSE transform[m]]

Clamp(n, low, high) == IF n < low THEN low ELSE IF n > high THEN high ELSE n

-----------------------------------------------------------------------------

AddModelToRecord(m) ==
    /\ m \notin myRecordedModels
    /\ myRecordedModels' = myRecordedModels \cup {m}
    /\ UNCHANGED <<transform, frames, myModelOrientationList, timers, myFrameDuration,
                   myPlayFrame, modes, unbroken>>

\* Without models only the timers are set.
StartRecording(timer) ==
    /\ myRecordTimer' = timer
    /\ myFrameTimer' = 0
    /\ myIsPlaying' = FALSE
    /\ IF myRecordedModels # {}
         THEN myIsRecording' = TRUE /\ RecordFrames(1)
         ELSE UNCHANGED <<myIsRecording, frames, myModelOrientationList>>
    /\ UNCHANGED <<transform, myRecordedModels, myFrameDuration, myPlayFrame,
                   myPlayReversed, unbroken>>

StopRecording ==
    /\ myIsRecording' = FALSE
    /\ myRecordTimer' = 0
    /\ UNCHANGED <<transform, frames, models, myFrameTimer, myFrameDuration, myPlayFrame,
                   myIsPlaying, myPlayReversed, unbroken>>

\* What the models were recorded at last is not forgotten.
ClearRecording ==
    /\ myFrames' = <<>> /\ scenes' = <<>>
    /\ unbroken' = FALSE
    /\ UNCHANGED <<transform, models, timers, myFrameDuration, myPlayFrame, modes>>

StartPlayback(reset, reversed) ==
    LET first == IF ~reset THEN Clamp(myPlayFrame, 1, Len(myFrames))
                 ELSE IF reversed THEN Len(myFrames) ELSE 1
    IN  /\ myIsRecording' = FALSE
        /\ myRecordTimer' = 0 /\ myFrameTimer' = 0
        /\ myPlayReversed' = reversed
        /\ myPlayFrame' = first
        /\ IF myFrames # <<>>
             THEN myIsPlaying' = TRUE /\ transform' = Shown(first)
             ELSE UNCHANGED <<myIsPlaying, transform>>
        /\ unbroken' = (first = 1 /\ ~reversed)
        /\ UNCHANGED <<frames, models, myFrameDuration>>

StopPlayback ==
    /\ myIsPlaying' = FALSE
    /\ UNCHANGED <<transform, frames, models, timers, myFrameDuration, myPlayFrame,
                   myIsRecording, myPlayReversed, unbroken>>

\* Whole frames in the time that has passed, and what is left.
FramesIn(time) == time \div myFrameDuration
RestOf(time) == time % myFrameDuration

UpdatePlayback(ticks) ==
    LET time == myFrameTimer + ticks
        steps == FramesIn(time)
        frame == IF myPlayReversed THEN myPlayFrame - steps ELSE myPlayFrame + steps
    IN  /\ myIsPlaying
        /\ myFrameTimer' = RestOf(time)
        /\ myPlayFrame' = frame
        /\ IF frame \in DOMAIN myFrames
             THEN /\ transform' = IF steps > 0 THEN Shown(frame) ELSE transform
                  /\ UNCHANGED myIsPlaying
             ELSE /\ myIsPlaying' = FALSE
                  /\ UNCHANGED transform
        /\ unbroken' = (unbroken /\ steps =< 1)
        /\ UNCHANGED <<frames, models, myRecordTimer, myFrameDuration, myIsRecording,
                       myPlayReversed>>

UpdateRecording(ticks) ==
    LET time == myFrameTimer + ticks
        ends == myRecordTimer > 0 /\ myRecordTimer =< ticks
    IN  /\ ~myIsPlaying /\ myIsRecording
        /\ myFrameTimer' = RestOf(time)
        /\ RecordFrames(FramesIn(time))
        /\ myRecordTimer' = IF myRecordTimer > ticks THEN myRecordTimer - ticks ELSE 0
        /\ myIsRecording' = ~ends
        /\ UNCHANGED <<transform, myRecordedModels, myFrameDuration, myPlayFrame,
                       myIsPlaying, myPlayReversed, unbroken>>

\* The recording stays as it is.
SetRecordingFrameRate(duration) ==
    /\ myFrameDuration' = duration
    /\ UNCHANGED <<transform, frames, models, timers, myPlayFrame, modes, unbroken>>

\* The program moves a model (external).
Move(m, orientation) ==
    /\ transform' = [transform EXCEPT ![m] = orientation]
    /\ unbroken' = FALSE
    /\ UNCHANGED <<frames, models, timers, myFrameDuration, myPlayFrame, modes>>

Next ==
    \/ \E m \in Models : AddModelToRecord(m) \/ \E o \in Orientations : Move(m, o)
    \/ \E timer \in {0} \cup Ticks : StartRecording(timer)
    \/ StopRecording
    \/ ClearRecording
    \/ \E reset, reversed \in BOOLEAN : StartPlayback(reset, reversed)
    \/ StopPlayback
    \/ \E ticks \in Ticks : UpdatePlayback(ticks) \/ UpdateRecording(ticks)
    \/ \E duration \in Durations : SetRecordingFrameRate(duration)

Spec == Init /\ [][Next]_vars

-----------------------------------------------------------------------------

\* Played from the first frame on, without leaving one out, a recording
\* shows each model that has had a key where it stood when the frame was
\* recorded (RecordFrame and PlayFrame, GameplaybackManager.cpp:154 and
\* :183), however often the recording was stopped, continued, cleared or
\* given another rate.
ShownAsRecorded ==
    myIsPlaying /\ unbroken /\ myPlayFrame \in DOMAIN myFrames =>
        \A m \in Models :
            (\E k \in 1..myPlayFrame : m \in DOMAIN myFrames[k]) =>
                transform[m] = scenes[myPlayFrame][m]
=============================================================================
