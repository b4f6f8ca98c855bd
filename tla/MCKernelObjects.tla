-------------------------- MODULE MCKernelObjects --------------------------
(***************************************************************************)
(* What the kernel keeps under its locks: the priority queues and what the *)
(* scheduler chooses from them (KScheduler), the cores that switch to the  *)
(* chosen threads (ContextSwitch, where any choice may be made), a         *)
(* process's handle table (KHandleTable), and the blocks of its address    *)
(* space (KMemoryBlockManager) with all kinds of operations, with          *)
(* overlapping locks, and with a larger region to search.  They share no   *)
(* variable and are explored one at a time: `explored' names the one that  *)
(* takes steps.                                                            *)
(***************************************************************************)
EXTENDS ContextSwitch, TLC

CONSTANTS
    s1, s2,         \* threads of the context switch, and
    t1, t2, t3      \* of the priority queues

VARIABLES explored,
    runnable, priority, affinity, active, scheduled, suggested, front, quiet,
    size, count, freeHead, nextLinearId, entryInfo, objects, refs, made, call, obj, handle,
    closing, given, handles,
    blocks, locks, overdraft

queueVars == <<runnable, priority, affinity, active, scheduled, suggested, front, quiet>>
tableVars == <<size, count, freeHead, nextLinearId, entryInfo, objects, refs, made, call, obj,
               handle, closing, given, handles>>
blockVars == <<blocks, locks, overdraft>>
allVars == <<explored, vars, queueVars, tableVars, blockVars>>

\* The context switch treats its threads alike.
ThreadSymmetry == Permutations({s1, s2})

\* Three threads of two priorities on two cores, two of them of one process,
\* pinned to a core or free; the more urgent may not be moved.
Queues == INSTANCE KScheduler WITH
    NumCores <- 2,
    Threads <- {t1, t2, t3},
    Process <- (t1 :> 1 @@ t2 :> 1 @@ t3 :> 2),
    Priorities <- {1, 2},
    MigrationAllowed <- 2,
    Masks <- {{1}, {0, 1}},
    highest <- front

\* Two threads, a table of two entries and more objects than fit; no linear id is
\* used twice in as many handles as are made.
Table == INSTANCE KHandleTable WITH
    Threads <- {"t1", "t2"}, Objects <- {"o1", "o2", "o3"},
    TableSize <- 2, MinLinearId <- 1, MaxLinearId <- 3, MaxHandles <- 3,
    pc <- call

\* The linear ids start again.
Wrapping == INSTANCE KHandleTable WITH
    Threads <- {"t1", "t2"}, Objects <- {"o1", "o2", "o3"},
    TableSize <- 2, MinLinearId <- 1, MaxLinearId <- 2, MaxHandles <- 3,
    pc <- call

\* Three pages of a region, all operations on them but IPC, and one lock.
Blocks == INSTANCE KMemoryBlockManager WITH
    FirstPage <- 1, EndPage <- 5, MaxLocks <- 1,
    Calls <- {"map", "permission", "attribute", "transfer", "device"}

\* Three locks for devices and for IPC that overlap.
Locks == INSTANCE KMemoryBlockManager WITH
    FirstPage <- 1, EndPage <- 5, MaxLocks <- 3, Calls <- {"map", "device", "ipc"}

\* Seven pages that are mapped and unmapped.
Search == INSTANCE KMemoryBlockManager WITH
    FirstPage <- 1, EndPage <- 9, MaxLocks <- 0, Calls <- {"map"}

ASSUME /\ Queues!NoneAssumption /\ Queues!CoresAssumption
       /\ Queues!PrioritiesAssumption /\ Queues!MasksAssumption
ASSUME CoresAssumption /\ NamesAssumption
ASSUME Table!TableAssumption /\ Wrapping!TableAssumption

ObjectsInit ==
    /\ Queues!Init /\ Init /\ Table!Init
    /\ \/ explored \in {"Queues", "Switch", "Table", "Wrapping", "Blocks"} /\ Blocks!Init
       \/ explored = "Locks" /\ Locks!Init
       \/ explored = "Search" /\ Search!Init
    /\ explored # "Queues" => /\ priority = [t \in {t1, t2, t3} |-> 1]
                              /\ affinity = [t \in {t1, t2, t3} |-> {1}]

ObjectsNext ==
    /\ UNCHANGED explored
    /\ \/ explored = "Queues" /\ Queues!Next /\ UNCHANGED <<vars, tableVars, blockVars>>
       \/ explored = "Switch" /\ Next /\ UNCHANGED <<queueVars, tableVars, blockVars>>
       \/ explored = "Table" /\ Table!Next /\ UNCHANGED <<queueVars, vars, blockVars>>
       \/ explored = "Wrapping" /\ Wrapping!Next /\ UNCHANGED <<queueVars, vars, blockVars>>
       \/ explored = "Blocks" /\ Blocks!Next /\ UNCHANGED <<queueVars, vars, tableVars>>
       \/ explored = "Locks" /\ Locks!Next /\ UNCHANGED <<queueVars, vars, tableVars>>
       \/ explored = "Search" /\ Search!Next /\ UNCHANGED <<queueVars, vars, tableVars>>

ObjectsSpec == ObjectsInit /\ [][ObjectsNext]_allVars
-----------------------------------------------------------------------------
\* A runnable thread is in the scheduled queue of its active core and suggested for
\* its other cores, in the order of the priorities, and each core is told to run
\* the front of its queue, whichever operation changed it.
QueueInvariant ==
    explored = "Queues" =>
        Queues!TypeOK /\ Queues!QueuesMatch /\ Queues!QueuesSorted /\ Queues!HighestIsFront

\* No core stays idle while a thread that may move to it waits behind another one,
\* and a yield is skipped only while there is nobody to yield to.
CoresUsed == explored = "Queues" => Queues!IdleCoresHelp /\ Queues!SkippedYieldIsUseless

\* The handle table: its free list has exactly the unused entries, an object has as
\* many references as entries and calls have it, a handle resolves to the object it
\* was made for and to none that has its entry now, and every entry can be reached,
\* also when the linear ids start again.
HandlesSound ==
    /\ explored = "Table" => /\ Table!TypeOK /\ Table!FreeListSound
                             /\ Table!RefsMatch /\ Table!ResolvesToOwn
    /\ explored = "Wrapping" => Wrapping!FreeListSound /\ Wrapping!EntryReachable

\* The memory blocks: they cover the region without a gap and none could be merged
\* with the next one, no update needs more blocks than were reserved for it, what
\* is locked can be unlocked, the edges of blocks are those of the locks, and
\* FindFreeArea finds the first place.
BlocksSound ==
    /\ explored = "Blocks" => /\ Blocks!TypeOK /\ Blocks!CheckState /\ Blocks!EnoughBlocks
                              /\ Blocks!UnlockNeverFails /\ Blocks!EdgesMatchLocks
    /\ explored = "Locks" => /\ Locks!CheckState /\ Locks!EnoughBlocks
                             /\ Locks!UnlockNeverFails /\ Locks!EdgesMatchLocks
    /\ explored = "Search" => Search!FindFreeAreaIsFirst

\* The blocks implement the map of single pages (PageMap): every operation changes
\* the pages of its range as one page would change, and no other page, however the
\* blocks are split and merged.
RefinesPages ==
    [][/\ explored = "Blocks" => Blocks!RefinesPages
       /\ explored = "Locks" => Locks!RefinesPages]_allVars
=============================================================================
