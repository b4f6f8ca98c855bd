------------------------------ MODULE MCDevices ------------------------------
(***************************************************************************)
(* What the emulated devices are built on: the memory handles of nvmap     *)
(* (NvMap), the allocator of device addresses (FlatAllocator), the ring of *)
(* an audio output (AudioOut) and the bounded queue of common, which       *)
(* implements Fifo (BoundedQueue).  They are explored one at a time:       *)
(* `explored' names the one that takes steps.                              *)
(***************************************************************************)
EXTENDS BoundedQueue, Integers

VARIABLES explored,
    created, allocated, registered, dupes, internalDupes, pins, dAddress, low, queue,
    entries, smmu, locked, mutex, queueLock, thread, job, refs, uses, backed, todo, closed,
    blocks, linear, live,
    ring, state, bufEvent, backlog, minPlayed, maxPlayed, played, appended, starts,
    flushes, due, waiting, inStream, sent

nvmapVars == <<created, allocated, registered, dupes, internalDupes, pins, dAddress, low,
               queue, entries, smmu, locked, mutex, queueLock, thread, job, refs, uses, backed,
               todo, closed>>
allocatorVars == <<blocks, linear, live>>
audioVars == <<ring, state, bufEvent, backlog, minPlayed, maxPlayed, played, appended,
               starts, flushes, due, waiting, inStream, sent>>
allVars == <<explored, nvmapVars, allocatorVars, audioVars, vars>>

\* Two handles that compete for one address, a graphic buffer and two mappings.
Shared == INSTANCE NvMap WITH
    Handles <- {"h1", "h2"}, Nvdrv <- "nvdrv", Displays <- {"d1"}, Buffers <- {"b1"},
    Mappings <- {"m1", "m2"}, LowMappings <- {"m2"}, Remaps <- {}, HeapHandles <- {},
    Slots <- 1, MaxDupes <- 2, MaxPins <- 2,
    pc <- thread

\* Two display threads, a handle in the preallocated area, and one that is remapped.
Heap == INSTANCE NvMap WITH
    Handles <- {"h1", "h2"}, Nvdrv <- "nvdrv", Displays <- {"d1", "d2"}, Buffers <- {"b1"},
    Mappings <- {}, LowMappings <- {}, Remaps <- {"r1"}, HeapHandles <- {"h2"},
    Slots <- 1, MaxDupes <- 1, MaxPins <- 1,
    pc <- thread

\* Fixed ranges behind the linear end, and frees of a page too few.
Allocator == INSTANCE FlatAllocator WITH
    VirtStart <- 1, VaLimit <- 8, Sizes <- {1, 2, 3}, MaxLive <- 4,
    FixedRanges <- "behind", WithTruncated <- TRUE

\* An output that is stopped, started again and flushed.
Output == INSTANCE AudioOut WITH
    BufferCount <- 3, BufferAppendLimit <- 2, Latency <- 1, Sizes <- {1, 2},
    MaxFrames <- 5, MaxStarts <- 2, MaxFlushes <- 1

ASSUME Shared!ThreadsAssumption /\ Shared!UsersAssumption /\ Shared!BoundsAssumption
ASSUME Heap!ThreadsAssumption /\ Heap!UsersAssumption /\ Heap!BoundsAssumption
ASSUME Allocator!RangeAssumption /\ Allocator!SizesAssumption /\ Allocator!UseAssumption
ASSUME Output!AudioAssumption
ASSUME CapacityAssumption /\ SidesAssumption

DevicesInit ==
    /\ explored \in {"Shared", "Heap", "Allocator", "Output", "Queue"}
    /\ IF explored = "Heap" THEN Heap!Init ELSE Shared!Init
    /\ Allocator!Init /\ Output!Init /\ Init

DevicesNext ==
    /\ UNCHANGED explored
    /\ \/ explored = "Shared" /\ Shared!Next /\ UNCHANGED <<allocatorVars, audioVars, vars>>
       \/ explored = "Heap" /\ Heap!Next /\ UNCHANGED <<allocatorVars, audioVars, vars>>
       \/ explored = "Allocator" /\ Allocator!Next /\ UNCHANGED <<nvmapVars, audioVars, vars>>
       \/ explored = "Output" /\ Output!Next /\ UNCHANGED <<nvmapVars, allocatorVars, vars>>
       \/ explored = "Queue" /\ Next /\ UNCHANGED <<nvmapVars, allocatorVars, audioVars>>

DevicesSpec == DevicesInit /\ [][DevicesNext]_allVars
-----------------------------------------------------------------------------
\* Device memory: handles, their pins, their addresses and the queue from which addresses
\* are reclaimed agree, pages are unlocked only when nothing can map them again, and the
\* allocator's blocks are sorted, cover what is allocated and give nothing out twice.
DeviceMemorySound ==
    /\ [](explored = "Shared" =>
            /\ Shared!TypeOK
            /\ Shared!EntriesMatchQueue /\ Shared!MappedIsTracked /\ Shared!AddressesOwned
            /\ Shared!UnlockedIsGone /\ Shared!PinsMatchUsers)
    /\ [](explored = "Heap" =>
            /\ Heap!EntriesMatchQueue /\ Heap!MappedIsTracked /\ Heap!AddressesOwned
            /\ Heap!UnlockedIsGone)
    /\ [](explored = "Allocator" =>
            /\ Allocator!TypeOK /\ Allocator!BlocksSorted
            /\ Allocator!LiveIsMapped /\ Allocator!AllocationsDisjoint)
    /\ [][explored = "Allocator" => Allocator!OnlyRangeChanges]_allVars

\* The audio ring: ContainsBuffer finds exactly the buffers the guest has not got back,
\* the guest is told of released ones and gets them back in its order, and as long as the
\* output is neither restarted nor flushed what is released was played.
AudioSound ==
    /\ [](explored = "Output" => Output!TypeOK /\ Output!ContainsIsExact /\ Output!ReleasedIsSignaled)
    /\ [][explored = "Output" => Output!TagsInOrder]_allVars
    /\ [][explored = "Output" /\ starts <= 1 /\ flushes = 0 => Output!ReleasedWerePlayed]_allVars
=============================================================================
