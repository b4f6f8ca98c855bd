--------------------------- MODULE HardwareComposer ---------------------------
(***************************************************************************)
(* The hardware composer with several layers on one display: which frames  *)
(* it acquires and when it releases them, by the swap intervals of the     *)
(* frames.  A composition, and the changes of the stack, run under the     *)
(* lock of the vi container and are one step each.  Of a layer's buffer    *)
(* queue only the frames waiting and the acquired slot are kept            *)
(* (BufferQueue has the rest).                                             *)
(***************************************************************************)
EXTENDS Integers, FiniteSets, FiniteSetsExt

CONSTANTS
    Layers,
    SwapIntervals,  \* the intervals programs queue frames with
    RespectZero,    \* the setting respect_present_interval_zero
    Beyond,         \* above all intervals: frame numbers are compared with intervals alone,
                    \* and those from here on are alike
    None

ComposerAssumption == SwapIntervals \subseteq Int /\ RespectZero \in BOOLEAN

VARIABLES
    stack,          \* the layers on the display
    waiting,        \* the swap interval of the frame that waits in each queue, or None
    slotAcquired,   \* the layers whose queue has an acquired slot
    framebuffers,   \* m_framebuffers
    frameNumber,    \* m_frame_number, kept below Beyond
    swapInterval,   \* m_swap_interval of the conductor: when the next composition is due
    age             \* how many frames ago each framebuffer was acquired, kept below Beyond

vars == <<stack, waiting, slotAcquired, framebuffers, frameNumber, swapInterval, age>>

NormalizeSwapInterval(i) ==
    IF i >= 5 \/ i < 0 \/ (i = 0 /\ ~RespectZero) THEN 1 ELSE i

BeyondAssumption == Beyond \in Nat /\ \A i \in SwapIntervals : NormalizeSwapInterval(i) < Beyond

UpTo(n) == IF n > Beyond THEN Beyond ELSE n

TypeOK ==
    /\ stack \subseteq Layers /\ slotAcquired \subseteq Layers
    /\ waiting \in [Layers -> SwapIntervals \cup {None}]
    /\ \A l \in DOMAIN framebuffers :
          framebuffers[l] \in [interval : SwapIntervals, release : 0 .. Beyond, acquired : BOOLEAN]
    /\ DOMAIN framebuffers \subseteq Layers
    /\ frameNumber \in 0 .. Beyond /\ swapInterval \in 0 .. Beyond
    /\ age \in [Layers -> 0 .. Beyond]

Init ==
    /\ stack = {} /\ slotAcquired = {} /\ waiting = [l \in Layers |-> None]
    /\ framebuffers = [l \in {} |-> None]
    /\ frameNumber = 0 /\ swapInterval = 1 /\ age = [l \in Layers |-> 0]
-----------------------------------------------------------------------------
\* A program queues a frame.
QueueFrame(l, i) ==
    /\ waiting[l] = None
    /\ waiting' = [waiting EXCEPT ![l] = i]
    /\ UNCHANGED <<stack, slotAcquired, framebuffers, frameNumber, swapInterval, age>>

\* CacheFramebufferLocked: a frame is acquired when there is one and the last was released.
Acquires(l) ==
    /\ l \in stack /\ waiting[l] # None /\ l \notin slotAcquired
    /\ l \in DOMAIN framebuffers => ~framebuffers[l].acquired

Cached ==
    [l \in DOMAIN framebuffers \cup {l \in stack : Acquires(l)} |->
        IF Acquires(l)
        THEN [interval |-> waiting[l], release |-> NormalizeSwapInterval(waiting[l]), acquired |-> TRUE]
        ELSE framebuffers[l]]

\* The shortest interval of the layers on the stack that have a frame.
Advance(cached) ==
    LET shown == stack \cap DOMAIN cached IN
    IF shown = {} THEN 1 ELSE Min({NormalizeSwapInterval(cached[l].interval) : l \in shown})

\* Mutant: only at that very frame.
ReleasedOnTime(cached, number) ==
    {l \in stack \cap DOMAIN cached : cached[l].acquired /\ cached[l].release = number}

Released(cached, number) ==
    {l \in stack \cap DOMAIN cached : cached[l].acquired /\ cached[l].release <= number}

\* ComposeLocked.
Compose ==
    LET cached == Cached
        advance == Advance(cached)
        number == UpTo(frameNumber + advance)
        released == Released(cached, number)
        acquired == {l \in Layers : Acquires(l)}
    IN
    /\ stack # {}
    /\ framebuffers' = [l \in DOMAIN cached |-> [cached[l] EXCEPT !.acquired = @ /\ l \notin released]]
    /\ waiting' = [l \in Layers |-> IF l \in acquired THEN None ELSE waiting[l]]
    /\ slotAcquired' = (slotAcquired \cup acquired) \ released
    /\ frameNumber' = number
    /\ swapInterval' = advance
    /\ age' = [l \in Layers |-> IF l \notin DOMAIN cached THEN 0
                             ELSE UpTo((IF l \in acquired THEN 0 ELSE age[l]) + advance)]
    /\ UNCHANGED stack

OpenLayer(l) ==
    /\ l \notin stack
    /\ stack' = stack \cup {l}
    /\ UNCHANGED <<waiting, slotAcquired, framebuffers, frameNumber, swapInterval, age>>

Without(l) == [k \in DOMAIN framebuffers \ {l} |-> framebuffers[k]]

\* RemoveLayerLocked, then the layer leaves the stack.
CloseLayer(l) ==
    /\ l \in stack
    /\ stack' = stack \ {l}
    /\ slotAcquired' = IF l \in DOMAIN framebuffers /\ framebuffers[l].acquired
                       THEN slotAcquired \ {l} ELSE slotAcquired
    /\ framebuffers' = Without(l)
    /\ age' = [age EXCEPT ![l] = 0]
    /\ UNCHANGED <<waiting, frameNumber, swapInterval>>
-----------------------------------------------------------------------------
Next ==
    \/ Compose
    \/ \E l \in Layers :
          \/ \E i \in SwapIntervals : QueueFrame(l, i)
          \/ OpenLayer(l) \/ CloseLayer(l)

\* The conductor composes again and again.
Fairness == WF_vars(Compose)

Spec == Init /\ [][Next]_vars /\ Fairness
-----------------------------------------------------------------------------
\* The composer and the queues agree on what is acquired; layers come and go in between.  An
\* acquired slot the composer does not know of is never released, and the layer stands still.
AcquiredIsKnown ==
    slotAcquired = {l \in DOMAIN framebuffers : framebuffers[l].acquired}

\* A frame that waits on a layer that stays is shown, whatever the other layers do.
FramesAreShown ==
    \A l \in Layers : (l \in stack /\ waiting[l] # None) ~> (l \notin stack \/ waiting[l] = None)

\* "Advance by at least one frame."
AdvancesByOne == swapInterval >= 1

\* A frame with a swap interval is not released before so many frames have passed.
HeldForInterval ==
    \A l \in stack \cap DOMAIN framebuffers :
        framebuffers[l].acquired \/ age[l] >= NormalizeSwapInterval(framebuffers[l].interval)
=============================================================================
