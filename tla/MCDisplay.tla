------------------------------ MODULE MCDisplay ------------------------------
(***************************************************************************)
(* What the guest sees and hears: the buffer queue of a layer              *)
(* (BufferQueue) with all its calls, with the two default slots of the     *)
(* code under a program that resizes it and under one that connects and    *)
(* disconnects; the composer with several layers (HardwareComposer); and   *)
(* the playback of an audio output (AudioOut).  They are explored one at a *)
(* time: `explored' names the one that takes steps.                        *)
(***************************************************************************)
EXTENDS Integers, Sequences

CONSTANT None

VARIABLES explored,
    slots, queue, override, beenQueued, connected, abandoned, possible, frameCounter,
    overtaken, setups, pc, pslot, cache, fb, composing, layer,
    stack, pendingFrame, slotAcquired, framebuffers, frameNumber, swapInterval, age,
    ring, state, bufEvent, backlog, minPlayed, maxPlayed, played, appended, starts,
    flushes, owed, waiting, inStream, sent

queueVars == <<slots, queue, override, beenQueued, connected, abandoned, possible,
               frameCounter, overtaken, setups, pc, pslot, cache, fb, composing, layer>>
composerVars == <<stack, pendingFrame, slotAcquired, framebuffers, frameNumber,
                  swapInterval, age>>
audioVars == <<ring, state, bufEvent, backlog, minPlayed, maxPlayed, played, appended,
               starts, flushes, owed, waiting, inStream, sent>>
vars == <<explored, queueVars, composerVars, audioVars>>

\* Two slots, one of them beyond the default maximum; buffers of both kinds.
Queue == INSTANCE BufferQueue WITH
    NumSlots <- 2, DefaultMax <- 1, MaxFrame <- 3, MaxSetups <- 1,
    Allocated <- {1, 2, 3}, Preallocated <- {11, 12}

\* Two slots of the default maximum, set up twice, and more frames than slots and items.
Deep == INSTANCE BufferQueue WITH
    NumSlots <- 2, DefaultMax <- 2, MaxFrame <- 5, MaxSetups <- 2,
    Allocated <- {1, 2, 3, 4}, Preallocated <- {}

\* SetBufferCount frees the slots twice, and not the queue.
ResizeSteps ==
    \/ Deep!Draw({TRUE}) \/ Deep!SetBufferCount(2)
    \/ Deep!ComposeAcquire \/ Deep!ComposeRelease(TRUE) \/ Deep!OpenLayer

\* Disconnect frees both.
ConnectSteps == Deep!Draw({TRUE}) \/ Deep!Connect \/ Deep!Display

\* Two layers, and swap intervals of every kind NormalizeSwapInterval tells apart.
Composer == INSTANCE HardwareComposer WITH
    Layers <- {"l1", "l2"}, SwapIntervals <- {-1, 2, 5}, RespectZero <- FALSE,
    Beyond <- 3, waiting <- pendingFrame

\* An output that plays on, with a ring of two buffers.
Playback == INSTANCE AudioOut WITH
    BufferCount <- 2, BufferAppendLimit <- 1, Latency <- 1, Sizes <- {1, 2},
    MaxFrames <- 4, MaxStarts <- 1, MaxFlushes <- 0, due <- owed

ASSUME Queue!BufferQueueAssumption /\ Deep!BufferQueueAssumption
ASSUME Composer!ComposerAssumption /\ Composer!BeyondAssumption
ASSUME Playback!AudioAssumption

Init ==
    /\ explored \in {"Queue", "Resize", "Connect", "Composer", "Playback"}
    /\ Queue!Init /\ Composer!Init /\ Playback!Init

Next ==
    /\ UNCHANGED explored
    /\ \/ explored = "Queue" /\ Queue!Next /\ UNCHANGED <<composerVars, audioVars>>
       \/ explored = "Resize" /\ ResizeSteps /\ UNCHANGED <<composerVars, audioVars>>
       \/ explored = "Connect" /\ ConnectSteps /\ UNCHANGED <<composerVars, audioVars>>
       \/ explored = "Composer" /\ Composer!Next /\ UNCHANGED <<queueVars, audioVars>>
       \/ explored = "Playback" /\ Playback!Next /\ UNCHANGED <<queueVars, composerVars>>

\* What is said of a queue, of the one that is explored.
OfQueue(queueSays, deepSays) ==
    (explored = "Queue" /\ queueSays) \/ (explored \in {"Resize", "Connect"} /\ deepSays)

\* The fairness of each, of the one that is explored: the others have no steps.
Fairness ==
    /\ WF_queueVars(OfQueue(Queue!CallGoesOn, Deep!CallGoesOn))
    /\ WF_queueVars(OfQueue(Queue!Compose, Deep!Compose))
    /\ SF_queueVars(OfQueue(Queue!ComposeRelease(TRUE), Deep!ComposeRelease(TRUE)))
    /\ WF_composerVars(explored = "Composer" /\ Composer!Compose)
    /\ WF_audioVars(explored = "Playback" /\ \E frames \in {1, 2} : Playback!ProcessAudioOutAndRender(frames))
    /\ WF_audioVars(explored = "Playback" /\ Playback!ThreadFunc)
    /\ WF_audioVars(explored = "Playback" /\ Playback!ReleaseAndRegisterBuffers)

Spec == Init /\ [][Next]_vars /\ Fairness
-----------------------------------------------------------------------------

\* A producer that waits for a slot gets one while its layer is shown, unless a slot is left
\* over from an overtaken item, a frame that
\* waits is shown whatever the other layer does, and buffers whose samples were played
\* are released.
FramesFlow ==
    /\ OfQueue(Queue!Waits, Deep!Waits) ~> OfQueue(Queue!Served, Deep!Served)
    /\ explored = "Composer" => Composer!FramesAreShown
    /\ explored = "Playback" => Playback!PlayedAreReleased
=============================================================================
