-------------------------------- MODULE NvMap --------------------------------
(***************************************************************************)
(* nvmap: handles to guest memory that the guest, the display's buffers    *)
(* and the mappings of the GPU and the video decoder share.  A pinned      *)
(* handle has an address in the device's address space (the SMMU); when    *)
(* its last pin is gone it stays mapped, in a queue from which space is to *)
(* be reclaimed.                                                           *)
(*                                                                         *)
(* The nvdrv service has one thread, Nvdrv, which creates, allocates,      *)
(* duplicates and frees handles and maps them; the threads in Displays     *)
(* construct and destroy graphic buffers.  Locks are waited for in steps   *)
(* of their own: a call holds the handle's mutex while it waits for        *)
(* unmap_queue_lock.  handles_lock is only held within a step.  Guest code *)
(* names a handle only while it has a reference to it, and maps it or      *)
(* gives it to a buffer only when it is allocated.                         *)
(***************************************************************************)
EXTENDS Integers, Sequences, FiniteSets, SequencesExt

CONSTANTS
    Handles,
    Nvdrv, Displays,    \* threads
    Buffers,            \* GraphicBuffers
    Mappings,           \* of MapBufferEx and of the decoder's MapBuffer
    LowMappings,        \* those of the decoder
    Remaps,             \* of nvhost_as_gpu's Remap
    HeapHandles,        \* handles inside the session's preallocated area
    Slots,              \* how many handles fit the SMMU besides
    MaxDupes,           \* bound on the guest's references to a handle
    MaxPins             \* bound on the pins of a handle that is remapped

ThreadsAssumption == Nvdrv \notin Displays
UsersAssumption ==
    LowMappings \subseteq Mappings /\ Buffers \cap Mappings = {} /\ HeapHandles \subseteq Handles
BoundsAssumption == Slots \in Nat /\ MaxDupes \in Nat \ {0} /\ MaxPins \in Nat

Threads == {Nvdrv} \cup Displays
Users == Buffers \cup Mappings \cup Remaps

Null == "none"

\* d_address of a handle mapped through the heap mapper of the session.
InHeap == Slots + 1

VARIABLES
    created, allocated, registered,     \* sets of handles; registered: those in `handles`
    dupes, internalDupes, pins, dAddress,
    low,            \* handles with a pin_virt_address
    queue,          \* unmap_queue
    entries,        \* handles with an unmap_queue_entry
    smmu,           \* addresses allocated in the SMMU
    locked,         \* handles whose pages are locked for the device
    mutex,          \* mutex[h]: the thread that holds it
    queueLock,      \* the thread that holds unmap_queue_lock
    pc, job,        \* the call of each thread: operation, handle, user
    refs,           \* threads that hold a shared_ptr to the handle of their call
    uses,           \* uses[u]: the handle of a live buffer or mapping
    backed,         \* users whose pin has not been cancelled by a forced unmap
    todo, closed    \* UnmapAllHandles

counts == <<dupes, internalDupes, pins>>
maps == <<dAddress, low, queue, entries, smmu>>
guest == <<created, allocated, registered, locked>>
users == <<uses, backed>>
locks == <<mutex, queueLock>>
call == <<pc, job, refs, todo, closed>>
vars == <<counts, maps, guest, users, locks, call>>

NoJob == [op |-> Null, h |-> Null, u |-> Null]
Ops == {"new", "delete", "map", "unmap", "fromid", "free", "close"}
PCs == {"idle", "dup", "dup2", "pin", "pin2", "pin3", "pin4", "pin5", "pin6",
        "unpin", "unpin2", "unpin3", "free", "free2", "free3", "free4", "next"}

TypeOK ==
    /\ allocated \subseteq created /\ registered \subseteq created /\ locked \subseteq allocated
    /\ dupes \in [Handles -> 0 .. MaxDupes]
    /\ internalDupes \in [Handles -> 0 .. Cardinality(Buffers)]
    /\ pins \in [Handles -> -Cardinality(Users) .. Cardinality(Users) + MaxPins]
    /\ dAddress \in [Handles -> 0 .. InHeap]
    /\ low \subseteq Handles /\ entries \subseteq Handles /\ queue \in Seq(Handles)
    /\ smmu \subseteq 1 .. Slots
    /\ mutex \in [Handles -> Threads \cup {Null}] /\ queueLock \in Threads \cup {Null}
    /\ pc \in [Threads -> PCs]
    /\ \A t \in Threads : job[t] = NoJob \/ job[t].op \in Ops
    /\ uses \in [Users -> Handles \cup {Null}]
    /\ backed \subseteq {u \in Users : uses[u] # Null}
    /\ todo \subseteq created

Init ==
    /\ created = {} /\ allocated = {} /\ registered = {} /\ locked = {}
    /\ dupes = [h \in Handles |-> 0] /\ internalDupes = [h \in Handles |-> 0]
    /\ pins = [h \in Handles |-> 0]
    /\ dAddress = [h \in Handles |-> 0] /\ low = {}
    /\ queue = <<>> /\ entries = {} /\ smmu = {}
    /\ mutex = [h \in Handles |-> Null] /\ queueLock = Null
    /\ pc = [t \in Threads |-> "idle"] /\ job = [t \in Threads |-> NoJob] /\ refs = {}
    /\ uses = [u \in Users |-> Null] /\ backed = {}
    /\ todo = {} /\ closed = FALSE

-----------------------------------------------------------------------------
(* Calls.  A thread runs one operation at a time; an operation makes one or *)
(* two calls of NvMap on its handle.                                        *)

Goto(t, label) == pc' = [pc EXCEPT ![t] = label]

\* The call that follows `done` in the operation of t.
Following(t, done) ==
    CASE job[t].op = "new" /\ done = "dup" -> "pin"
      [] job[t].op = "delete" /\ done = "unpin" -> "free"
      [] job[t].op = "close" -> "next"
      [] OTHER -> "idle"

\* The call `done` of t returns: its shared_ptr goes away.
Return(t, done) ==
    /\ Goto(t, Following(t, done))
    /\ job' = IF Following(t, done) = "idle" THEN [job EXCEPT ![t] = NoJob] ELSE job
    /\ refs' = refs \ {t}
    /\ UNCHANGED <<todo, closed>>

Continue(t, label) == Goto(t, label) /\ UNCHANGED <<job, refs, todo, closed>>

Begin(t, o, h, u, label) ==
    /\ pc[t] = "idle"
    /\ Goto(t, label)
    /\ job' = [job EXCEPT ![t] = [op |-> o, h |-> h, u |-> u]]
    /\ UNCHANGED <<refs, todo, closed>>

GuestHolds(h) == ~closed /\ h \in created /\ dupes[h] > 0

Lock(t, h) == mutex' = [mutex EXCEPT ![h] = t] /\ UNCHANGED queueLock
Unlock(h) == mutex' = [mutex EXCEPT ![h] = Null] /\ UNCHANGED queueLock

\* SetPreallocatedBuffer: GraphicBuffer::GraphicBuffer.
NewBuffer(t, h, u) ==
    /\ t \in Displays /\ u \in Buffers /\ uses[u] = Null
    /\ \A s \in Threads : job[s].u # u
    /\ GuestHolds(h) /\ h \in allocated
    /\ Begin(t, "new", h, u, "dup")
    /\ UNCHANGED <<counts, maps, guest, users, locks>>

\* GraphicBuffer::~GraphicBuffer.
DeleteBuffer(t, u) ==
    /\ t \in Displays /\ u \in Buffers /\ uses[u] # Null
    /\ \A s \in Threads : job[s].u # u
    /\ Begin(t, "delete", uses[u], u, "unpin")
    /\ UNCHANGED <<counts, maps, guest, users, locks>>

\* MapBufferEx, Remap and the decoder's MapBuffer.
MapBuffer(h, u) ==
    /\ u \in Mappings \cup Remaps /\ uses[u] = Null
    /\ GuestHolds(h) /\ h \in allocated
    /\ u \in Remaps => pins[h] < MaxPins
    /\ Begin(Nvdrv, "map", h, u, "pin")
    /\ UNCHANGED <<counts, maps, guest, users, locks>>

UnmapBuffer(u) ==
    /\ u \in Mappings /\ uses[u] # Null /\ ~closed
    /\ Begin(Nvdrv, "unmap", uses[u], u, "unpin")
    /\ UNCHANGED <<counts, maps, guest, users, locks>>

\* FreeSpace unmaps a sparse range, and what was remapped into it, without UnpinHandle.
FreeRemapped(u) ==
    /\ u \in Remaps /\ uses[u] # Null /\ pc[Nvdrv] = "idle" /\ ~closed
    /\ uses' = [uses EXCEPT ![u] = Null] /\ backed' = backed \ {u}
    /\ UNCHANGED <<counts, maps, guest, locks, call>>

-----------------------------------------------------------------------------
(* Ioctls of /dev/nvmap.                                                    *)

IocCreate(h) ==
    /\ pc[Nvdrv] = "idle" /\ ~closed
    /\ h \notin created
    /\ created' = created \cup {h} /\ registered' = registered \cup {h}
    /\ dupes' = [dupes EXCEPT ![h] = 1]
    /\ UNCHANGED <<allocated, locked, internalDupes, pins, maps, users, locks, call>>

\* Nobody else uses a handle that is not allocated.
IocAlloc(h) ==
    /\ pc[Nvdrv] = "idle"
    /\ GuestHolds(h) /\ h \notin allocated
    /\ mutex[h] = Null
    /\ allocated' = allocated \cup {h} /\ locked' = locked \cup {h}
    /\ UNCHANGED <<created, registered, counts, maps, users, locks, call>>

IocFromId(h) ==
    /\ GuestHolds(h) /\ dupes[h] < MaxDupes
    /\ Begin(Nvdrv, "fromid", h, Null, "dup")
    /\ UNCHANGED <<counts, maps, guest, users, locks>>

IocFree(h) ==
    /\ GuestHolds(h)
    /\ Begin(Nvdrv, "free", h, Null, "free")
    /\ UNCHANGED <<counts, maps, guest, users, locks>>

\* CloseSession of the only session: UnmapAllHandles copies the handles.
CloseSession ==
    /\ pc[Nvdrv] = "idle" /\ ~closed
    /\ todo' = registered /\ closed' = TRUE
    /\ Goto(Nvdrv, "next")
    /\ job' = [job EXCEPT ![Nvdrv] = [NoJob EXCEPT !.op = "close"]]
    /\ UNCHANGED <<counts, maps, guest, users, locks, refs>>

\* One iteration of its loop: a handle without guest references is passed over.
UnmapAllHandles ==
    /\ pc[Nvdrv] = "next"
    /\ \/ /\ todo = {}
          /\ Goto(Nvdrv, "idle") /\ job' = [job EXCEPT ![Nvdrv] = NoJob]
          /\ UNCHANGED todo
       \/ \E h \in todo :
            /\ mutex[h] = Null
            /\ todo' = todo \ {h}
            /\ Goto(Nvdrv, IF dupes[h] <= 0 THEN "next" ELSE "free")
            /\ job' = [job EXCEPT ![Nvdrv].h = h]
    /\ UNCHANGED <<counts, maps, guest, users, locks, refs, closed>>

-----------------------------------------------------------------------------
(* The calls of NvMap, after GetHandle.                                     *)

Locking == [dup |-> "dup2", pin |-> "pin2", unpin |-> "unpin2", free |-> "free2"]

\* The buffer of a failed PinHandle exists all the same.
Created(t, done) ==
    IF done = "pin" THEN uses' = [uses EXCEPT ![job[t].u] = job[t].h] ELSE UNCHANGED uses

\* The destructor that ends, or the mapping that is erased, is not used any more.
Ended(t, done) ==
    IF \/ done = "free" /\ job[t].op = "delete"
       \/ done = "unpin" /\ job[t].op = "unmap"
    THEN uses' = [uses EXCEPT ![job[t].u] = Null]
    ELSE UNCHANGED uses

GetHandle(t) ==
    /\ pc[t] \in DOMAIN Locking
    /\ IF job[t].h \in registered
       THEN /\ Goto(t, Locking[pc[t]])
            /\ refs' = refs \cup {t}
            /\ UNCHANGED <<job, todo, closed, users>>
       ELSE /\ Return(t, pc[t])
            /\ IF pc[t] = "pin" THEN Created(t, "pin") ELSE Ended(t, pc[t])
            /\ backed' = backed \ (IF pc[t] = "unpin" THEN {job[t].u} ELSE {})
    /\ UNCHANGED <<counts, maps, guest, locks>>

Duplicate(t) ==
    LET h == job[t].h IN
    /\ pc[t] = "dup2" /\ mutex[h] = Null
    /\ IF h \notin allocated THEN UNCHANGED <<dupes, internalDupes>>
       ELSE IF job[t].op = "new"
            THEN /\ internalDupes' = [internalDupes EXCEPT ![h] = @ + 1]
                 /\ UNCHANGED dupes
            ELSE dupes' = [dupes EXCEPT ![h] = @ + 1] /\ UNCHANGED internalDupes
    /\ Return(t, "dup")
    /\ UNCHANGED <<pins, maps, guest, users, locks>>

Pinned(t, h) ==
    /\ pins' = [pins EXCEPT ![h] = @ + 1]
    /\ low' = IF job[t].u \in LowMappings THEN low \cup {h} ELSE low
    /\ Created(t, "pin") /\ backed' = backed \cup {job[t].u}
    /\ Return(t, "pin")

\* A pinned handle is mapped already.
PinMapped(t) ==
    LET h == job[t].h IN
    /\ pc[t] = "pin2" /\ mutex[h] = Null /\ pins[h] # 0
    /\ Pinned(t, h)
    /\ UNCHANGED <<dupes, internalDupes, dAddress, queue, entries, smmu, guest, locks>>

PinLock(t) ==
    LET h == job[t].h IN
    /\ pc[t] = "pin2" /\ mutex[h] = Null /\ pins[h] = 0
    /\ Lock(t, h) /\ Continue(t, "pin3")
    /\ UNCHANGED <<counts, maps, guest, users>>

\* The handle is found in the queue.
Waiting(h) == h \in entries

Erase(h) == queue' = Remove(queue, h) /\ entries' = entries \ {h}

\* "we can just remove ourselves and return since we're already mapped"
PinQueued(t) ==
    LET h == job[t].h IN
    /\ pc[t] = "pin3" /\ queueLock = Null
    /\ IF Waiting(h)
       THEN /\ Erase(h)
            /\ Pinned(t, h) /\ Unlock(h)
            /\ UNCHANGED <<dupes, internalDupes, dAddress, smmu>>
       ELSE Continue(t, "pin4") /\ UNCHANGED <<counts, maps, users, locks>>
    /\ UNCHANGED guest

\* has_preallocated_area goes with the session.
Preallocated(h) == h \in HeapHandles /\ ~(closed /\ pc[Nvdrv] = "idle")

\* Allocate and map; the allocator's choice is left open.
PinAllocate(t) ==
    LET h == job[t].h IN
    /\ pc[t] = "pin4"
    /\ \E a \in IF Preallocated(h) THEN {InHeap} ELSE 1 .. Slots \ smmu :
         /\ dAddress' = [dAddress EXCEPT ![h] = a]
         /\ smmu' = smmu \cup ({a} \ {InHeap})
    /\ Pinned(t, h) /\ Unlock(h)
    /\ UNCHANGED <<dupes, internalDupes, queue, entries, guest>>

\* The allocation fails: the loop locks the queue and takes its front.  There is
\* no next state if the queue is empty: front() is then undefined and faults.
PinFull(t) ==
    /\ pc[t] = "pin4" /\ ~Preallocated(job[t].h) /\ smmu = 1 .. Slots
    /\ queueLock = Null /\ queue # <<>>
    /\ queueLock' = t /\ Continue(t, "pin5")
    /\ UNCHANGED <<counts, maps, guest, users, mutex>>

\* The address UnmapHandle gives back to the SMMU.
Freed(h) == {dAddress[h]}

UnmapHandle(h) ==
    /\ Erase(h)
    /\ low' = low \ {h}
    /\ smmu' = smmu \ Freed(h)
    /\ dAddress' = [dAddress EXCEPT ![h] = 0]

\* The test is of the handle that is being pinned.
PinEvict(t) ==
    LET f == Head(queue) IN
    /\ pc[t] = "pin5" /\ mutex[f] = Null
    /\ IF dAddress[job[t].h] # 0 THEN UnmapHandle(f) ELSE UNCHANGED maps
    /\ queueLock' = Null /\ Continue(t, "pin4")
    /\ UNCHANGED <<counts, guest, users, mutex>>

LastPin(n) == n = 0

UnpinHandle(t) ==
    LET h == job[t].h IN
    /\ pc[t] = "unpin2" /\ mutex[h] = Null
    /\ pins' = [pins EXCEPT ![h] = @ - 1]
    /\ backed' = backed \ {job[t].u}
    /\ IF LastPin(pins[h] - 1)
       THEN Lock(t, h) /\ Continue(t, "unpin3") /\ UNCHANGED uses
       ELSE Return(t, "unpin") /\ Ended(t, "unpin") /\ UNCHANGED locks
    /\ UNCHANGED <<dupes, internalDupes, maps, guest>>

UnpinQueue(t) ==
    LET h == job[t].h IN
    /\ pc[t] = "unpin3" /\ queueLock = Null
    /\ queue' = Append(queue, h) /\ entries' = entries \cup {h}
    /\ Unlock(h) /\ Return(t, "unpin") /\ Ended(t, "unpin")
    /\ UNCHANGED <<counts, dAddress, low, smmu, guest, backed>>

\* TryRemoveHandle with the new counts, then the end of the locked part.
FreeRemove(t, h, d, i) ==
    /\ dupes' = [dupes EXCEPT ![h] = d] /\ internalDupes' = [internalDupes EXCEPT ![h] = i]
    /\ registered' = IF d = 0 /\ i = 0 THEN registered \ {h} ELSE registered
    /\ UNCHANGED <<created, allocated, locked>>

\* weak_ptr::expired: no shared_ptr to the handle is left in the map, the queue or a call.
Expired(t, h) ==
    /\ h \notin registered /\ h \notin ToSet(queue)
    /\ \A s \in refs \ {t} : job[s].h # h

Forget(h) == backed \ {u \in Users : uses[u] = h}

Internal(t) == job[t].op = "delete"

\* The references of the guest that FreeHandle drops.
GuestRef(t) == IF Internal(t) THEN 0 ELSE 1

LastRef(t, d) == ~Internal(t) /\ d = 0

FreeHandle(t) ==
    LET h == job[t].h
        d == dupes[h] - GuestRef(t)
        i == internalDupes[h] - (IF Internal(t) THEN 1 ELSE 0)
        last == LastRef(t, d)
    IN
    /\ pc[t] = "free2" /\ mutex[h] = Null
    /\ IF last /\ dAddress[h] # 0
       THEN /\ Lock(t, h) /\ Continue(t, "free3")
            /\ UNCHANGED <<counts, maps, guest, users>>
       ELSE /\ FreeRemove(t, h, d, i)
            /\ pins' = IF last THEN [pins EXCEPT ![h] = 0] ELSE pins
            /\ backed' = IF last THEN Forget(h) ELSE backed
            /\ IF job[t].op = "free"
               THEN /\ Goto(t, "free4") /\ refs' = refs \ {t}
                    /\ UNCHANGED <<job, todo, closed, uses>>
               ELSE Return(t, "free") /\ Ended(t, "free")
            /\ UNCHANGED <<maps, locks>>

\* "Force unmap the handle"
FreeUnmap(t) ==
    LET h == job[t].h IN
    /\ pc[t] = "free3" /\ queueLock = Null
    /\ UnmapHandle(h)
    /\ pins' = [pins EXCEPT ![h] = 0] /\ backed' = Forget(h)
    /\ FreeRemove(t, h, dupes[h] - 1, internalDupes[h])
    /\ Unlock(h)
    /\ IF job[t].op = "free"
       THEN Goto(t, "free4") /\ refs' = refs \ {t} /\ UNCHANGED <<job, todo, closed>>
       ELSE Return(t, "free")
    /\ UNCHANGED uses

\* Mutant: the map alone decides that the pages can be unlocked.
CanUnlockRemoved(t, h) == h \notin registered

CanUnlock(t, h) == Expired(t, h)

\* The end of IocFree, after FreeHandle's check of the weak pointer.
IocFreeUnlock(t) ==
    /\ pc[t] = "free4"
    /\ locked' = IF CanUnlock(t, job[t].h) THEN locked \ {job[t].h} ELSE locked
    /\ Return(t, "free")
    /\ UNCHANGED <<counts, maps, created, allocated, registered, users, locks>>

-----------------------------------------------------------------------------
Call(t) ==
    \/ GetHandle(t) \/ Duplicate(t)
    \/ PinMapped(t) \/ PinLock(t) \/ PinQueued(t) \/ PinAllocate(t) \/ PinFull(t) \/ PinEvict(t)
    \/ UnpinHandle(t) \/ UnpinQueue(t)
    \/ FreeHandle(t) \/ FreeUnmap(t) \/ IocFreeUnlock(t)

Next ==
    \/ \E h \in Handles : IocCreate(h) \/ IocAlloc(h) \/ IocFromId(h) \/ IocFree(h)
    \/ \E h \in Handles, u \in Users : MapBuffer(h, u)
    \/ \E t \in Displays, h \in Handles, u \in Buffers : NewBuffer(t, h, u)
    \/ \E t \in Displays, u \in Buffers : DeleteBuffer(t, u)
    \/ \E u \in Users : UnmapBuffer(u) \/ FreeRemapped(u)
    \/ CloseSession \/ UnmapAllHandles
    \/ \E t \in Threads : Call(t)

Spec == Init /\ [][Next]_vars

\* A call in progress goes on when the locks it needs are free from time to time.
LiveSpec == Spec /\ \A t \in Threads : SF_vars(Call(t))

-----------------------------------------------------------------------------
Free(h) == mutex[h] = Null

(* unmap_queue_entry tells the truth: a handle has one exactly while it is in
   the queue, and is there once, so that every erase hits a live iterator
   (nvmap.cpp:83, 186). *)
EntriesMatchQueue ==
    /\ ToSet(queue) = entries
    /\ IsInjective(queue)

(* The pin count of a handle, its address and the queue agree whenever its
   mutex is free: a pinned handle is mapped, a mapped one is pinned or can be
   reclaimed from the queue, and what waits in the queue is mapped and has no
   pins, whatever forced unmaps have done to the count (nvmap.cpp:178, 252,
   296). *)
MappedIsTracked ==
    \A h \in Handles : Free(h) =>
        /\ pins[h] > 0 => dAddress[h] # 0
        /\ dAddress[h] # 0 => pins[h] > 0 \/ h \in entries
        /\ h \in entries => dAddress[h] # 0 /\ pins[h] <= 0

(* Every address taken from the SMMU belongs to one handle and goes back when
   that handle is unmapped: none is given out twice or leaked (nvmap.cpp:101). *)
AddressesOwned ==
    /\ smmu = {dAddress[h] : h \in Handles} \ {0, InHeap}
    /\ \A g, h \in Handles : g # h /\ dAddress[g] \in smmu => dAddress[g] # dAddress[h]

(* IocFree unlocks the guest's pages only when no buffer, queue or call can
   bring the handle back: the device does not map memory the guest has back
   (devices/nvmap.cpp:244). *)
UnlockedIsGone ==
    \A h \in allocated \ locked :
        /\ h \notin registered /\ dAddress[h] = 0
        /\ \A t \in refs : job[t].h # h

(* While the guest holds a handle its pin count is the number of live users:
   none of them can lose the mapping to another one's unpin (nvmap.h:131). *)
PinsMatchUsers ==
    \A h \in Handles : dupes[h] > 0 /\ Free(h) =>
        pins[h] = Cardinality({u \in backed : uses[u] = h})

(* "Handles in the unmap queue are guaranteed not to be pinned so don't bother
   checking if they are before unmapping" (nvmap.cpp:216). *)
QueuedIsNotPinned == \A h \in entries : \A u \in backed : uses[u] # h

(* "Free handles until the allocation succeeds" (nvmap.cpp:213): PinHandle gets
   its address when there are handles to free. *)
EvictionSucceeds ==
    \A t \in Threads : pc[t] = "pin5" ~> (pc[t] = "idle")

(* IocFree asserts that the pages it unlocks were locked (devices/nvmap.cpp:245). *)
UnlockSucceeds ==
    \A t \in Threads : pc[t] = "free4" /\ CanUnlock(t, job[t].h) => job[t].h \in locked
=============================================================================
