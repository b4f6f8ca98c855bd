----------------------------- MODULE BufferQueue -----------------------------
(***************************************************************************)
(* The buffer queue of a layer: BufferQueueCore, BufferQueueProducer,      *)
(* BufferQueueConsumer, the caches of ConsumerBase, and the hardware       *)
(* composer that acquires and releases the frames of the layer.            *)
(*                                                                         *)
(* Three threads meet here: the one thread of the dispdrv service, which   *)
(* runs the calls of the producer; the vsync thread, which composes; and   *)
(* the vi thread, which opens, closes and destroys the layer.  The last    *)
(* two exclude each other by the lock of the container.  What a thread     *)
(* does under the mutex of the queue is one step; the consumer's own mutex *)
(* makes its step with the queue and the one with its cache one.           *)
(*                                                                         *)
(* Constants of HOS fold branches away: use_async_buffer is false,         *)
(* max_acquired_buffer_count is 0, and a consumer that is not controlled   *)
(* by an application makes dequeue_buffer_cannot_block false.  Fences,     *)
(* timestamps and crops are left out; a call that fails changes nothing.   *)
(***************************************************************************)
EXTENDS Naturals, Sequences, FiniteSets, FiniteSetsExt

CONSTANTS
    NumSlots,       \* NUM_BUFFER_SLOTS
    DefaultMax,     \* default_max_buffer_count
    MaxFrame,       \* bound on frame_counter
    MaxSetups,      \* bound on the calls that set the queue up anew
    Allocated,      \* identities of buffers the queue allocates: their handle is 0
    Preallocated    \* identities of buffers the program brings

Null == 0
Buffers == Allocated \cup Preallocated
Slots == 0 .. NumSlots - 1
Never == MaxFrame + 1       \* UINT32_MAX as a frame number: above all others

BufferQueueAssumption ==
    /\ NumSlots \in Nat \ {0} /\ DefaultMax \in 1 .. NumSlots
    /\ MaxFrame \in Nat /\ MaxSetups \in Nat
    /\ Allocated \cap Preallocated = {} /\ Buffers \subseteq Nat \ {Null}

VARIABLES
    slots,          \* the slots of the core
    queue,          \* the items that wait for the consumer
    override,       \* override_max_buffer_count
    beenQueued,     \* buffer_has_been_queued
    connected,      \* connected_api is set
    abandoned,      \* is_abandoned
    possible,       \* dequeue_possible
    frameCounter,
    overtaken,      \* history: the slots whose last item was put ahead of an older one of theirs
    setups,         \* counts those calls
    pc, pslot,      \* where the producer's call is, and the slot it allocates for
    cache,          \* the slots of ConsumerBase
    fb,             \* the framebuffer the composer keeps of the layer
    composing,      \* the vsync thread is between acquiring and releasing
    layer           \* "closed", "open" or "destroyed"

frameVars == <<frameCounter, overtaken>>
coreVars == <<slots, queue, override, beenQueued, connected, abandoned, possible, frameVars>>
producerVars == <<pc, pslot, setups>>
displayVars == <<cache, fb, composing, layer>>
vars == <<coreVars, producerVars, displayVars>>

States == {"Free", "Dequeued", "Queued", "Acquired"}
EmptySlot == [state |-> "Free", buffer |-> Null, requested |-> FALSE, frame |-> 0,
              acquireCalled |-> FALSE, cleanup |-> FALSE, prealloc |-> FALSE]
NoFramebuffer == [present |-> FALSE, acquired |-> FALSE, slot |-> 0, buffer |-> Null]
EmptyCache == [buffer |-> Null, frame |-> 0]

TypeOK ==
    /\ slots \in [Slots -> [state : States, buffer : Buffers \cup {Null}, requested : BOOLEAN,
                            frame : 0 .. Never, acquireCalled : BOOLEAN, cleanup : BOOLEAN,
                            prealloc : BOOLEAN]]
    /\ \A i \in DOMAIN queue :
          queue[i] \in [slot : Slots, buffer : Buffers, frame : 1 .. MaxFrame,
                        acquireCalled : BOOLEAN, droppable : BOOLEAN]
    /\ override \in 0 .. NumSlots /\ frameCounter \in 0 .. MaxFrame
    /\ {beenQueued, connected, abandoned, possible, composing} \subseteq BOOLEAN
    /\ overtaken \subseteq Slots /\ setups \in 0 .. MaxSetups
    /\ pc \in {"idle", "waiting", "allocate", "released"} /\ pslot \in Slots
    /\ cache \in [Slots -> [buffer : Buffers \cup {Null}, frame : 0 .. MaxFrame]]
    /\ fb \in [present : BOOLEAN, acquired : BOOLEAN, slot : Slots, buffer : Buffers \cup {Null}]
    /\ layer \in {"closed", "open", "destroyed"}

Init ==
    /\ slots = [s \in Slots |-> EmptySlot] /\ queue = <<>>
    /\ override = 0 /\ beenQueued = FALSE /\ connected = FALSE /\ abandoned = FALSE
    /\ possible = FALSE /\ frameCounter = 0 /\ overtaken = {}
    /\ pc = "idle" /\ pslot = 0 /\ setups = 0
    /\ cache = [s \in Slots |-> EmptyCache] /\ fb = NoFramebuffer
    /\ composing = FALSE /\ layer = "closed"
-----------------------------------------------------------------------------
\* BufferQueueCore.

SlotsIn(state) == {s \in Slots : slots[s].state = state}

\* The slots above the default that the producer or the queue holds stay usable.
MaxBufferCount ==
    IF override # 0 THEN override
    ELSE Max({DefaultMax} \cup {s + 1 : s \in SlotsIn("Queued") \cup SlotsIn("Dequeued")})

PreallocatedCount(ss) == Cardinality({s \in Slots : ss[s].prealloc})

\* FreeBufferLocked.
Freed(slot) ==
    [slot EXCEPT !.buffer = Null, !.state = "Free", !.frame = Never, !.acquireCalled = FALSE,
                 !.cleanup = @ \/ slot.state = "Acquired"]

FreeAllBuffers == [s \in Slots |-> Freed(slots[s])]

SignalDequeueCondition == possible' = TRUE

StillTracking(item) ==
    slots[item.slot].buffer # Null /\ slots[item.slot].buffer = item.buffer

\* A buffer identity that nobody refers to.
Unused(kind) ==
    kind \ ({slots[s].buffer : s \in Slots} \cup {queue[i].buffer : i \in DOMAIN queue}
            \cup {cache[s].buffer : s \in Slots} \cup {fb.buffer})
New(kind) == Min(Unused(kind))
-----------------------------------------------------------------------------
\* BufferQueueProducer.  Its calls come one after another.

SetUp == setups < MaxSetups /\ setups' = setups + 1

ProducerConnect(known) ==
    /\ SetUp
    /\ pc = "idle" /\ ~abandoned /\ ~connected
    /\ connected' = known
    /\ beenQueued' = FALSE
    /\ UNCHANGED <<slots, queue, override, abandoned, possible, frameVars, pc, pslot, displayVars>>

ProducerDisconnect ==
    /\ SetUp
    /\ pc = "idle" /\ ~abandoned /\ connected
    /\ connected' = FALSE /\ queue' = <<>>
    /\ slots' = FreeAllBuffers /\ beenQueued' = FALSE
    /\ SignalDequeueCondition
    /\ pc' = "released"
    /\ UNCHANGED <<override, abandoned, frameVars, pslot, displayVars>>

RequestBuffer(s) ==
    /\ pc = "idle" /\ ~abandoned /\ slots[s].state = "Dequeued"
    /\ slots' = [slots EXCEPT ![s].requested = TRUE]
    /\ UNCHANGED <<queue, override, beenQueued, connected, abandoned, possible, frameVars>>
    /\ UNCHANGED <<producerVars, displayVars>>

\* With a count of zero the override ends, and nothing is freed.
SetBufferCount(n) ==
    /\ SetUp
    /\ pc = "idle" /\ ~abandoned /\ SlotsIn("Dequeued") = {}
    /\ override' = n
    /\ IF n # 0 /\ PreallocatedCount(slots) = 0
       THEN slots' = FreeAllBuffers /\ beenQueued' = FALSE
       ELSE UNCHANGED <<slots, beenQueued>>
    /\ SignalDequeueCondition
    /\ pc' = IF n = 0 THEN "idle" ELSE "released"
    /\ UNCHANGED <<queue, connected, abandoned, frameVars, pslot, displayVars>>

\* The listener's OnBuffersReleased, without the lock of the queue: the consumer forgets the
\* buffers of the slots that were not acquired since, except those it will not be told again.


ReleasedMask ==
    {s \in Slots : ~slots[s].acquireCalled
                   /\ \A i \in DOMAIN queue : queue[i].slot = s => ~queue[i].acquireCalled}

OnBuffersReleased ==
    /\ pc = "released"
    /\ pc' = "idle"
    /\ cache' = [s \in Slots |-> IF ~abandoned /\ s \in ReleasedMask THEN EmptyCache ELSE cache[s]]
    /\ UNCHANGED <<coreVars, pslot, setups, fb, composing, layer>>

\* The free slot that was used longest ago, the first of those.
FreeSlots(ss) == {s \in 0 .. MaxBufferCount - 1 : ss[s].state = "Free"}
Found(ss) ==
    CHOOSE s \in FreeSlots(ss) : \A r \in FreeSlots(ss) :
        ss[s].frame < ss[r].frame \/ (ss[s].frame = ss[r].frame /\ s <= r)

\* The buffer is missing or does not fit: the program has to ask for the new one.
Reallocated(slot) ==
    [slot EXCEPT !.buffer = Null, !.acquireCalled = FALSE, !.requested = FALSE]

\* DequeueBuffer with the loop of WaitForFreeSlotThenRelock, from the start or from the wait.
DequeueBuffer(fits) ==
    LET max == MaxBufferCount
        trimmed == [s \in Slots |->
                      IF s >= max /\ slots[s].buffer # Null /\ slots[s].state = "Free"
                         /\ ~slots[s].prealloc
                      THEN Freed(slots[s]) ELSE slots[s]]
        dequeued == Cardinality({s \in SlotsIn("Dequeued") : s < max})
        refused == \/ override = 0 /\ dequeued > 0
                   \/ beenQueued /\ dequeued + 1 > max
        none == FreeSlots(trimmed) = {} \/ Len(queue) > max
        found == Found(trimmed)
        taken == [trimmed[found] EXCEPT !.state = "Dequeued"]
        realloc == taken.buffer = Null \/ ~fits
    IN
    /\ pc = "idle" \/ (pc = "waiting" /\ possible)
    /\ possible' = (possible /\ pc = "idle")
    /\ CASE abandoned -> pc' = "idle" /\ UNCHANGED <<slots, pslot>>
         [] ~abandoned /\ refused -> pc' = "idle" /\ slots' = trimmed /\ UNCHANGED pslot
         [] ~abandoned /\ ~refused /\ none -> pc' = "waiting" /\ slots' = trimmed /\ UNCHANGED pslot
         [] OTHER ->
              /\ slots' = [trimmed EXCEPT ![found] = IF realloc THEN Reallocated(taken) ELSE taken]
              /\ pc' = IF realloc THEN "allocate" ELSE "idle"
              /\ pslot' = IF realloc THEN found ELSE 0
    /\ UNCHANGED <<queue, override, beenQueued, connected, abandoned, frameVars, setups, displayVars>>

\* The new buffer is made without the lock.
Allocate ==
    /\ pc = "allocate"
    /\ IF abandoned THEN UNCHANGED slots
       ELSE /\ Unused(Allocated) # {}
            /\ slots' = [slots EXCEPT ![pslot].frame = Never, ![pslot].buffer = New(Allocated)]
    /\ pc' = "idle" /\ pslot' = 0
    /\ UNCHANGED <<queue, override, beenQueued, connected, abandoned, possible, frameVars>>
    /\ UNCHANGED <<setups, displayVars>>

DetachBuffer(s) ==
    /\ pc = "idle" /\ ~abandoned /\ slots[s].state = "Dequeued" /\ slots[s].requested
    /\ slots' = [slots EXCEPT ![s] = Freed(@)]
    /\ SignalDequeueCondition
    /\ UNCHANGED <<queue, override, beenQueued, connected, abandoned, frameVars>>
    /\ UNCHANGED <<producerVars, displayVars>>

CancelBuffer(s) ==
    /\ pc = "idle" /\ ~abandoned /\ slots[s].state = "Dequeued"
    /\ slots' = [slots EXCEPT ![s].state = "Free", ![s].frame = 0]
    /\ SignalDequeueCondition
    /\ UNCHANGED <<queue, override, beenQueued, connected, abandoned, frameVars>>
    /\ UNCHANGED <<producerVars, displayVars>>

NextFrame == frameCounter + 1

\* The item at the front is dropped: its slot is the first to be used again.
DropFront(ss) ==
    IF StillTracking(Head(queue))
    THEN [ss EXCEPT ![Head(queue).slot].state = "Free", ![Head(queue).slot].frame = 0]
    ELSE ss

QueueBuffer(s, async) ==
    LET slot == slots[s]
        queuedSlots == [slots EXCEPT ![s].state = "Queued", ![s].frame = NextFrame]
        item == [slot |-> s, buffer |-> slot.buffer, frame |-> NextFrame,
                 acquireCalled |-> slot.acquireCalled, droppable |-> async]
        replace == queue # <<>> /\ Head(queue).droppable
    IN
    /\ pc = "idle" /\ ~abandoned /\ s < MaxBufferCount
    /\ slot.state = "Dequeued" /\ slot.requested
    /\ frameCounter < MaxFrame
    /\ frameCounter' = NextFrame
    /\ slots' = IF replace THEN DropFront(queuedSlots) ELSE queuedSlots
    /\ queue' = IF replace THEN [queue EXCEPT ![1] = item] ELSE Append(queue, item)
    /\ overtaken' = IF replace /\ \E i \in 2 .. Len(queue) : queue[i].slot = s
                    THEN overtaken \cup {s} ELSE overtaken \ {s}
    /\ beenQueued' = TRUE
    /\ SignalDequeueCondition
    /\ UNCHANGED <<override, connected, abandoned, producerVars, displayVars>>

\* The program brings a buffer for a slot, or clears the slot; nothing is checked.
SetPreallocatedBuffer(s, real) ==
    LET kind == IF real THEN Preallocated ELSE Allocated IN
    /\ SetUp
    /\ pc = "idle" /\ Unused(kind) # {}
    /\ slots' = [slots EXCEPT ![s] = [EmptySlot EXCEPT !.buffer = New(kind), !.prealloc = real]]
    /\ override' = IF real THEN PreallocatedCount(slots') ELSE override
    /\ SignalDequeueCondition
    /\ UNCHANGED <<queue, beenQueued, connected, abandoned, frameVars, pc, pslot, displayVars>>
-----------------------------------------------------------------------------
\* The consumer, as the composer calls it.

CanAcquire == SlotsIn("Acquired") = {} /\ queue # <<>>

\* BufferItemConsumer::AcquireBuffer: a buffer that the consumer was told of is not sent again,
\* and taken from the consumer's slots.
Acquire ==
    LET item == Head(queue)
        sent == IF item.acquireCalled THEN Null ELSE item.buffer
        buffer == IF sent # Null THEN sent ELSE cache[item.slot].buffer
    IN
    /\ slots' = IF StillTracking(item)
                THEN [slots EXCEPT ![item.slot].acquireCalled = TRUE,
                                   ![item.slot].cleanup = FALSE,
                                   ![item.slot].state = "Acquired"]
                ELSE slots
    /\ queue' = Tail(queue)
    /\ cache' = [cache EXCEPT ![item.slot] = [buffer |-> buffer, frame |-> item.frame]]
    /\ fb' = [present |-> TRUE, acquired |-> TRUE, slot |-> item.slot, buffer |-> buffer]
    /\ SignalDequeueCondition

Handle(b) == IF b \in Preallocated THEN 1 ELSE 0

\* BufferItemConsumer::ReleaseBuffer and ConsumerBase::ReleaseBufferLocked.

ReleaseSignal(released) == possible' = (possible \/ released)

Release ==
    LET s == fb.slot
        tracking == cache[s].buffer # Null /\ Handle(cache[s].buffer) = Handle(fb.buffer)
        sameFrame == slots[s].frame = cache[s].frame
        again == \E i \in DOMAIN queue : queue[i].slot = s
        released == tracking /\ sameFrame /\ ~again /\ slots[s].state = "Acquired"
        cleaned == tracking /\ sameFrame /\ ~again /\ slots[s].state # "Acquired" /\ slots[s].cleanup
        stale == (tracking /\ ~sameFrame) \/ cleaned
    IN
    /\ slots' = [slots EXCEPT ![s].state = IF released THEN "Free" ELSE @,
                              ![s].cleanup = @ /\ ~cleaned]
    /\ cache' = IF stale THEN [cache EXCEPT ![s] = EmptyCache] ELSE cache
    /\ ReleaseSignal(released)

\* ComposeLocked: a frame is acquired if the last one was released, ...
ComposeAcquire ==
    /\ layer = "open" /\ ~composing
    /\ composing' = TRUE
    /\ IF ~fb.acquired /\ CanAcquire THEN Acquire
       ELSE UNCHANGED <<slots, queue, cache, fb, possible>>
    /\ UNCHANGED <<override, beenQueued, connected, abandoned, frameVars, producerVars, layer>>

\* ... and released when its frame number has come; the result is not looked at.
ComposeRelease(due) ==
    /\ composing
    /\ composing' = FALSE
    /\ IF fb.acquired /\ due
       THEN Release /\ fb' = [fb EXCEPT !.acquired = FALSE]
       ELSE UNCHANGED <<slots, cache, fb, possible>>
    /\ UNCHANGED <<queue, override, beenQueued, connected, abandoned, frameVars>>
    /\ UNCHANGED <<producerVars, layer>>

OpenLayer ==
    /\ layer = "closed" /\ ~composing
    /\ layer' = "open"
    /\ UNCHANGED <<coreVars, producerVars, cache, fb, composing>>

\* CloseLayer: the composer's RemoveLayerLocked.
CloseLayer ==
    /\ layer = "open" /\ ~composing
    /\ layer' = "closed"
    /\ IF fb.acquired THEN Release ELSE UNCHANGED <<slots, cache, possible>>
    /\ fb' = NoFramebuffer
    /\ UNCHANGED <<queue, override, beenQueued, connected, abandoned, frameVars>>
    /\ UNCHANGED <<producerVars, composing>>

\* The last reference to the layer goes, when it is destroyed or the service ends: Abandon.
DestroyLayer ==
    /\ layer # "destroyed" /\ ~composing
    /\ layer' = "destroyed"
    /\ cache' = [s \in Slots |-> EmptyCache] /\ fb' = NoFramebuffer
    /\ abandoned' = TRUE /\ queue' = <<>>
    /\ slots' = FreeAllBuffers /\ beenQueued' = FALSE
    /\ SignalDequeueCondition
    /\ UNCHANGED <<override, connected, frameVars, producerVars, composing>>
-----------------------------------------------------------------------------
\* The calls by which a program shows frames, takes them back, and sets the queue up.
Draw(fits) ==
    \/ \E b \in fits : DequeueBuffer(b)
    \/ OnBuffersReleased \/ Allocate
    \/ \E s \in Slots : RequestBuffer(s) \/ \E b \in BOOLEAN : QueueBuffer(s, b)

TakeBack == \E s \in Slots : DetachBuffer(s) \/ CancelBuffer(s)

Connect == ProducerDisconnect \/ \E b \in BOOLEAN : ProducerConnect(b)

Bring == \E s \in Slots, b \in BOOLEAN : SetPreallocatedBuffer(s, b)

Resize == \E n \in 0 .. NumSlots : SetBufferCount(n)

Producer == Draw(BOOLEAN) \/ TakeBack \/ Connect \/ Bring \/ Resize

Compose == ComposeAcquire \/ \E due \in BOOLEAN : ComposeRelease(due)

Display ==
    \/ Compose
    \/ OpenLayer \/ CloseLayer \/ DestroyLayer

Next == Producer \/ Display

CallGoesOn ==
    pc # "idle" /\ (OnBuffersReleased \/ Allocate \/ \E b \in BOOLEAN : DequeueBuffer(b))

\* A call that began goes on; vsyncs come, and the frame number of a release comes.
Fairness ==
    /\ WF_vars(CallGoesOn)
    /\ WF_vars(Compose)
    /\ SF_vars(ComposeRelease(TRUE))

Spec == Init /\ [][Next]_vars /\ Fairness
-----------------------------------------------------------------------------
\* The items of the queue whose buffer is still the one of the slot are the slots that are
\* queued, each once: no slot is lost to the queue, and none is there twice.
QueuedIsTracked ==
    \A s \in Slots :
        Cardinality({i \in DOMAIN queue : queue[i].slot = s /\ StillTracking(queue[i])})
            = (IF slots[s].state = "Queued" THEN 1 ELSE 0)

\* A slot is acquired only as long as the composer means to release it.  The composer forgets
\* a frame whatever ReleaseBuffer says, and AcquireBuffer allows one acquired slot: a slot left
\* over would stop the display for good.  ReleaseBuffer refuses while another item of the slot
\* waits; those are older and went first, but for a slot whose item overtook one: a droppable
\* item was replaced by it, ahead of what the slot had queued before a SetBufferCount.
Held(s) == fb.acquired /\ fb.slot = s /\ fb.buffer = slots[s].buffer

LeftOver == {s \in SlotsIn("Acquired") : ~Held(s)}

AcquiredIsHeld == LeftOver \subseteq overtaken

\* The same of every slot: refuted with two set-up calls and four frames.
NothingIsLeftOver == LeftOver = {}

\* What is composed has a buffer, also when the queue did not send it again: ComposeLocked
\* dereferences it.
FramebufferHasBuffer == fb.present => fb.buffer # Null

\* The program cannot draw into the buffer that is on the screen.
ShownIsNotDrawn ==
    fb.acquired => \A s \in SlotsIn("Dequeued") : slots[s].buffer # fb.buffer

\* QueueBuffer dereferences the buffer of a slot that was requested.
RequestedHasBuffer ==
    \A s \in SlotsIn("Dequeued") : slots[s].requested => slots[s].buffer # Null

\* A producer asleep without a signal has no slot to get: whoever made room has signalled.
NoLostWakeUp ==
    pc = "waiting" /\ ~possible =>
        ~abandoned /\ (FreeSlots(slots) = {} \/ Len(queue) > MaxBufferCount)

\* The assertion of WaitForFreeSlotThenRelock: beyond the maximum all slots are free.
BeyondMaxIsFree ==
    ~abandoned => \A s \in MaxBufferCount .. NumSlots - 1 : slots[s].state = "Free"

QueueSound ==
    /\ QueuedIsTracked /\ AcquiredIsHeld /\ FramebufferHasBuffer
    /\ ShownIsNotDrawn /\ RequestedHasBuffer /\ NoLostWakeUp

\* While the layer is shown, a producer that waits for a slot gets one, unless it has them all
\* itself or one is left over.
Waits == pc = "waiting"

Served ==
    \/ ~Waits \/ layer # "open" \/ LeftOver # {}
    \/ \A s \in 0 .. MaxBufferCount - 1 : slots[s].state = "Dequeued"

DequeueEnds == Waits ~> Served
=============================================================================
