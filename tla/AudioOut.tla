------------------------------ MODULE AudioOut ------------------------------
(***************************************************************************)
(* An audio output of audio_core: the ring AudioBuffers with its appended, *)
(* registered and released sections, AudioOut::System on top of it, and    *)
(* what the two learn about playback from the sink stream.                 *)
(*                                                                         *)
(* Guest calls and BufferReleaseAndRegister of the AudioManager thread run *)
(* under the mutex of the manager, so each is one action.  The sink's      *)
(* callback (ProcessAudioOutAndRender) and the 5 ms event                  *)
(* (DeviceSession::ThreadFunc) run without that mutex.                     *)
(*                                                                         *)
(* Samples are counted in small units; of the sink's queue only the number *)
(* of frames still to play matters.  `waiting', `inStream' and `sent' are  *)
(* history variables: the tags the guest has not got back, the buffers     *)
(* that are registered, each as the number of frames sent to the stream up *)
(* to its end, and the number of frames sent.                              *)
(***************************************************************************)
EXTENDS Integers, Sequences, FiniteSetsExt

CONSTANTS
    BufferCount,        \* size of the ring (32), and its append_limit
    BufferAppendLimit,  \* most buffers registered at a time (4)
    Latency,            \* 15 ms of samples added to the reported count
    Sizes,              \* frames in a buffer
    MaxFrames,          \* bound: frames appended by the guest
    MaxStarts,          \* bound: calls of Start
    MaxFlushes          \* bound: calls of FlushAudioOutBuffers

AudioAssumption ==
    /\ BufferCount \in Nat \ {0} /\ BufferAppendLimit \in 1 .. BufferCount
    /\ Latency \in Nat /\ Sizes \subseteq Nat \ {0}
    /\ MaxFrames \in Nat /\ MaxStarts \in Nat /\ MaxFlushes \in Nat

VARIABLES
    ring,       \* AudioBuffers
    state,      \* AudioOut::State
    bufEvent,   \* is buffer_event signaled?
    backlog,    \* frames in the queue of the stream
    minPlayed, maxPlayed,   \* sample counts of the stream
    played,     \* DeviceSession::played_sample_count
    appended, starts, flushes,  \* counters for tags and bounds
    due,        \* the guest has reset the event and not drained since
    waiting, inStream, sent     \* history

stream == <<backlog, minPlayed, maxPlayed>>
bounds == <<starts, flushes>>
vars == <<ring, state, bufEvent, stream, played, appended,
          bounds, due, waiting, inStream, sent>>

Slots == 0 .. BufferCount - 1
\* The guest goes round a set of BufferCount + 1 buffers of its own.
Tags == 1 .. BufferCount + 1
Free == [tag |-> 0, start |-> 0, end |-> 0]

TypeOK ==
    /\ ring.slots \in [Slots -> [tag : Tags \cup {0}, start : 0 .. MaxFrames,
                               end : 0 .. MaxFrames]]
    /\ {ring.relIx, ring.regIx, ring.appIx} \subseteq Slots
    /\ {ring.relCnt, ring.regCnt, ring.appCnt} \subseteq 0 .. BufferCount
    /\ ring.regCnt <= BufferAppendLimit
    /\ ring.relCnt + ring.regCnt + ring.appCnt <= BufferCount
    /\ state \in {"Stopped", "Started"}
    /\ {bufEvent, due} \subseteq BOOLEAN
    /\ backlog \in 0 .. MaxFrames /\ maxPlayed \in 0 .. MaxFrames
    /\ minPlayed \in 0 .. maxPlayed /\ played \in 0 .. MaxFrames + Latency

-----------------------------------------------------------------------------
(***************************************************************************)
(* AudioBuffers.  A section ends before its index and has `count' slots.   *)
(***************************************************************************)
Total(r) == r.relCnt + r.regCnt + r.appCnt

Section(r, index, count) ==
    [i \in 1 .. count |-> r.slots[(index - count + i - 1) % BufferCount]]

Released(r) == Section(r, r.relIx, r.relCnt)
Registered(r) == Section(r, r.regIx, r.regCnt)
Appended(r) == Section(r, r.appIx, r.appCnt)

AppendToRing(r, buffer) ==
    [r EXCEPT !.slots[r.appIx] = buffer,
              !.appCnt = @ + 1,
              !.appIx = (@ + 1) % BufferCount]

ToRegister(r) == Min({r.appCnt, BufferAppendLimit,
                      BufferAppendLimit - r.regCnt})

RegisterBuffers(r) ==
    [r EXCEPT !.regCnt = @ + ToRegister(r),
              !.regIx = (@ + ToRegister(r)) % BufferCount,
              !.appCnt = @ - ToRegister(r)]

\* How many registered buffers the loop of ReleaseBuffers gets to.
Consumed(r, force) ==
    Max({n \in 0 .. r.regCnt :
            force \/ \A i \in 1 .. n : played >= Registered(r)[i].end})

ReleaseBuffers(r, n) ==
    [r EXCEPT !.regCnt = @ - n,
              !.relCnt = @ + n,
              !.relIx = (@ + n) % BufferCount]

\* Mutant: the released section does not end further on.
FlushBuffersNoIndex(r) ==
    [r EXCEPT !.regCnt = 0, !.appCnt = 0, !.relCnt = @ + r.regCnt + r.appCnt]

\* GetRegisteredAppendedBuffers as FlushBuffers calls it.
FlushBuffers(r) ==
    LET n == r.regCnt + r.appCnt
    IN  [r EXCEPT !.regCnt = 0,
                  !.appCnt = 0,
                  !.relCnt = @ + n,
                  !.relIx = (@ + n) % BufferCount]

\* GetReleasedBuffers: up to `size' buffers, or up to one without a tag.
Taken(r, size) ==
    LET n == Min({size, r.relCnt})
        untagged == {i \in 1 .. n : Released(r)[i].tag = 0}
    IN  IF untagged = {} THEN n ELSE Min(untagged)

TakenTags(r, size) ==
    LET n == Taken(r, size)
    IN  SelectSeq([i \in 1 .. n |-> Released(r)[i].tag], LAMBDA t : t # 0)

TakeReleased(r, size) ==
    LET n == Taken(r, size)
        cleared == {(r.relIx - r.relCnt + i - 1) % BufferCount : i \in 1 .. n}
    IN  [r EXCEPT !.slots = [s \in Slots |-> IF s \in cleared
                                             THEN [@[s] EXCEPT !.tag = 0]
                                             ELSE @[s]],
                  !.relCnt = @ - n]

ContainsBuffer(r, tag) ==
    \E i \in 0 .. Total(r) - 1 :
        r.slots[(r.relIx - r.relCnt + i) % BufferCount].tag = tag

GetNextTimestamp(r) == r.slots[(r.appIx - 1) % BufferCount].end

-----------------------------------------------------------------------------
(***************************************************************************)
(* AudioOut::System and the stream.                                        *)
(***************************************************************************)
\* RegisterBuffers of the system: what is registered goes to the stream,
\* which holds `queued' frames and has been sent `frames'.
Register(r, queued, frames, already) ==
    LET n == ToRegister(r)
        out == Appended(r)
        new == IF n = 0 THEN 0 ELSE out[n].end - out[1].start
    IN  /\ ring' = RegisterBuffers(r)
        /\ backlog' = queued + new
        /\ sent' = frames + new
        /\ inStream' = already
              \o [i \in 1 .. n |-> frames + out[i].end - out[1].start]

Init ==
    /\ ring = [slots |-> [s \in Slots |-> Free],
               relIx |-> 0, relCnt |-> 0, regIx |-> 0, regCnt |-> 0,
               appIx |-> 0, appCnt |-> 0]
    /\ state = "Stopped" /\ bufEvent = FALSE
    /\ backlog = 0 /\ minPlayed = 0 /\ maxPlayed = 0 /\ played = 0
    /\ appended = 0 /\ starts = 0 /\ flushes = 0
    /\ due = FALSE /\ waiting = <<>> /\ inStream = <<>> /\ sent = 0

\* A new stream is opened; the ring and its timestamps stay.
Start ==
    /\ state = "Stopped" /\ starts < MaxStarts
    /\ state' = "Started" /\ starts' = starts + 1
    /\ minPlayed' = 0 /\ maxPlayed' = 0
    /\ Register(ring, 0, 0, <<>>)
    /\ UNCHANGED <<bufEvent, played, appended, flushes, due,
                   waiting>>

\* The queue of the stream is cleared and every registered buffer released.
Stop ==
    /\ state = "Started"
    /\ state' = "Stopped"
    /\ ring' = ReleaseBuffers(ring, Consumed(ring, TRUE))
    /\ bufEvent' = TRUE
    /\ backlog' = 0 /\ inStream' = <<>>
    /\ UNCHANGED <<minPlayed, maxPlayed, played, appended,
                   bounds, due, waiting, sent>>

AppendBuffer(size) ==
    LET tag == (appended % (BufferCount + 1)) + 1
        time == GetNextTimestamp(ring)
        next == [tag |-> tag, start |-> time, end |-> time + size]
        r == AppendToRing(ring, next)
    IN  /\ Total(ring) # BufferCount
        /\ next.end <= MaxFrames
        /\ appended' = appended + 1
        /\ waiting' = Append(waiting, tag)
        /\ IF state = "Started"
           THEN Register(r, backlog, sent, inStream)
           ELSE ring' = r /\ UNCHANGED <<backlog, sent, inStream>>
        /\ UNCHANGED <<state, bufEvent, minPlayed, maxPlayed, played,
                       bounds, due>>

FlushAudioOutBuffers ==
    /\ state = "Started" /\ flushes < MaxFlushes
    /\ flushes' = flushes + 1
    /\ ring' = FlushBuffers(ring)
    /\ bufEvent' = (bufEvent \/ ring.regCnt + ring.appCnt > 0)
    /\ inStream' = <<>>
    /\ UNCHANGED <<state, stream, played, appended, starts,
                   due, waiting, sent>>

GetReleasedBuffers(size) ==
    LET tags == TakenTags(ring, size)
    IN  /\ ring.relCnt > 0
        /\ ring' = TakeReleased(ring, size)
        /\ waiting' = SubSeq(waiting, Len(tags) + 1, Len(waiting))
        /\ due' = (due /\ ring'.relCnt > 0)
        /\ UNCHANGED <<state, bufEvent, stream, played, appended, bounds, inStream, sent>>

\* The guest resets the event it waited for, before it looks for buffers.
ResetBufferEvent ==
    /\ bufEvent
    /\ bufEvent' = FALSE /\ due' = TRUE
    /\ UNCHANGED <<ring, state, stream, played, appended,
                   bounds, waiting, inStream, sent>>

\* The host asks for `frames' frames.
ProcessAudioOutAndRender(frames) ==
    LET written == Min({frames, backlog})
    IN  /\ state = "Started"
        /\ backlog' = backlog - written
        /\ minPlayed' = maxPlayed
        /\ maxPlayed' = maxPlayed + written
        /\ UNCHANGED <<ring, state, bufEvent, played, appended,
                       bounds, due, waiting, inStream, sent>>

\* The count the stream reports grows with time from the smaller of its two
\* counts to the larger.
ThreadFunc ==
    /\ state = "Started"
    /\ \E n \in minPlayed .. maxPlayed : played' = n + Latency
    /\ UNCHANGED <<ring, state, bufEvent, stream, appended, bounds, due,
                   waiting, inStream, sent>>

\* AudioManager::ThreadFunc calls this after each ThreadFunc, and every two
\* seconds without one.
ReleaseAndRegisterBuffers ==
    LET n == Consumed(ring, FALSE)
        r == ReleaseBuffers(ring, n)
    IN  /\ state = "Started"
        /\ bufEvent' = (bufEvent \/ n > 0 \/ r.regCnt = 0)
        /\ Register(r, backlog, sent, SubSeq(inStream, n + 1, Len(inStream)))
        /\ UNCHANGED <<state, minPlayed, maxPlayed, played, appended, bounds,
                       due, waiting>>

Next ==
    \/ Start \/ Stop \/ FlushAudioOutBuffers \/ ResetBufferEvent
    \/ \E size \in Sizes : AppendBuffer(size)
    \/ \E size \in 1 .. BufferCount : GetReleasedBuffers(size)
    \/ \E frames \in Sizes : ProcessAudioOutAndRender(frames)
    \/ ThreadFunc \/ ReleaseAndRegisterBuffers

-----------------------------------------------------------------------------
(***************************************************************************)
(* Properties.                                                             *)
(***************************************************************************)
\* The guest gets the tags of its buffers back in the order in which it
\* appended them, each once, after any mixture of releases, stops and
\* flushes: GetReleasedBuffers takes the oldest ones of its own list.
TagsInOrder ==
    \A size \in 1 .. BufferCount :
        GetReleasedBuffers(size) => waiting = TakenTags(ring, size) \o waiting'

\* ContainsBuffer, which walks all three sections from the start of the
\* released one, finds exactly the tags the guest has not got back.
ContainsIsExact ==
    \A tag \in Tags : ContainsBuffer(ring, tag)
                        <=> \E i \in 1 .. Len(waiting) : waiting[i] = tag

\* A buffer that ReleaseBuffers finds consumed was played by the stream, but
\* for the latency added on purpose.
ReleasedWerePlayed ==
    ReleaseAndRegisterBuffers =>
        \A i \in 1 .. Consumed(ring, FALSE) :
            i <= Len(inStream) => inStream[i] <= maxPlayed + Latency

\* While there are released buffers the event of the guest is signaled, or
\* the guest has reset it and not taken all buffers since.
ReleasedIsSignaled == ring.relCnt > 0 => bufEvent \/ due

\* Buffers whose samples the stream has all played are released and the
\* guest told: playback does not stall with every buffer registered.
PlayedAreReleased ==
    (state = "Started" /\ ring.regCnt > 0 /\ backlog = 0)
        ~> (ring.regCnt = 0 \/ backlog > 0 \/ state = "Stopped")

\* The host keeps asking for frames, the event recurs every 5 ms and the
\* manager's thread runs after it; the guest owes nothing.
Fairness ==
    /\ WF_vars(\E frames \in Sizes : ProcessAudioOutAndRender(frames))
    /\ WF_vars(ThreadFunc)
    /\ WF_vars(ReleaseAndRegisterBuffers)

Spec == Init /\ [][Next]_vars /\ Fairness
=============================================================================
