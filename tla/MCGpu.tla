-------------------------------- MODULE MCGpu --------------------------------
(***************************************************************************)
(* The emulated GPU as seen from other threads: its command thread         *)
(* (GpuThread) with and without asynchronous emulation, the fences it      *)
(* leaves for the host GPU (FenceManager) with Vulkan and with OpenGL, and *)
(* the events of the guest driver that wait for syncpoints (NvHostCtrl).   *)
(* They are explored one at a time: `explored' names the one that takes    *)
(* steps.                                                                  *)
(***************************************************************************)
EXTENDS FenceManager

CONSTANTS
    GpuClients, AwaitedValues, AwaitedCounts,       \* of GpuThread
    AsyncCapacity, AsyncMaxFence,                   \* with asynchronous emulation
    SyncCapacity, SyncMaxFence,                     \* without
    Incs, Svc, NumSlots, FailLimit, MaxValue, Width   \* of NvHostCtrl

VARIABLES explored,
    writeLock, queue, lastFence, signaledFence, syncRequests, lastSyncFence,
    currentSyncFence, swapCounters, freeSwapCounters, guestValue, guestActions, cpc, op,
    fence, syncFence, gpc, command, request,
    value, counterMin, counterMax, actions, guard, npc, newValue, slot, target, status,
    registered, kevent, assigned, fails, handle, overtaken

threadVars == <<writeLock, queue, lastFence, signaledFence, syncRequests, lastSyncFence,
                currentSyncFence, swapCounters, freeSwapCounters, guestValue, guestActions,
                cpc, op, fence, syncFence, gpc, command, request>>
ctrlVars == <<value, counterMin, counterMax, actions, guard, npc, newValue, slot, target,
              status, registered, kevent, assigned, fails, handle, overtaken>>
allVars == <<explored, threadVars, vars, ctrlVars>>

\* The clients and the GPU thread, with asynchronous emulation or without: then every call
\* waits for its command. A composition waits for some number of values of a syncpoint.
Commands(async) == INSTANCE GpuThread WITH
    Clients <- GpuClients, Async <- async,
    Capacity <- IF async THEN AsyncCapacity ELSE SyncCapacity,
    MaxFence <- IF async THEN AsyncMaxFence ELSE SyncMaxFence,
    FenceLists <- UNION {[1 .. n -> AwaitedValues] : n \in AwaitedCounts},
    pc <- cpc, current <- command

\* OpenGL, where the GPU thread waits for the fences and runs their operations, is the
\* module extended here; with Vulkan a thread does both.
Vulkan == INSTANCE FenceManager WITH
    AsyncCheck <- TRUE, Levels <- {TRUE, FALSE}, MaxFences <- 2

\* Two threads that increment a syncpoint, the driver's thread and one event.
Ctrl == INSTANCE NvHostCtrl WITH pc <- npc

ASSUME CommandsAssumption ==
    \A async \in BOOLEAN :
        /\ Commands(async)!BoundsAssumption /\ Commands(async)!AsyncAssumption
        /\ Commands(async)!FenceListsAssumption /\ Commands(async)!ClientsAssumption
ASSUME Vulkan!AsyncCheckAssumption /\ Vulkan!MaxFencesAssumption
ASSUME AsyncCheckAssumption /\ MaxFencesAssumption
ASSUME Ctrl!SvcAssumption /\ Ctrl!BoundsAssumption

GpuInit ==
    /\ explored \in {"Asynchronous", "Synchronous", "Vulkan", "OpenGL", "Ctrl"}
    /\ Commands(TRUE)!Init /\ Init /\ Ctrl!Init

GpuNext ==
    /\ UNCHANGED explored
    /\ \/ /\ explored = "Asynchronous" /\ Commands(TRUE)!Next
          /\ UNCHANGED <<vars, ctrlVars>>
       \/ /\ explored = "Synchronous" /\ Commands(FALSE)!Next
          /\ UNCHANGED <<vars, ctrlVars>>
       \/ explored = "Vulkan" /\ Vulkan!Next /\ UNCHANGED <<threadVars, ctrlVars>>
       \/ explored = "OpenGL" /\ Next /\ UNCHANGED <<threadVars, ctrlVars>>
       \/ explored = "Ctrl" /\ Ctrl!Next /\ UNCHANGED <<threadVars, vars>>

GpuFairness ==
    \/ explored = "Asynchronous" /\ Commands(TRUE)!Fairness
    \/ explored = "Synchronous" /\ Commands(FALSE)!Fairness
    \/ explored = "Vulkan" /\ Vulkan!Fairness
    \/ explored = "OpenGL"
    \/ explored = "Ctrl" /\ Ctrl!Fairness

GpuSpec == GpuInit /\ [][GpuNext]_allVars /\ GpuFairness
-----------------------------------------------------------------------------
\* The GPU thread: a request in the list or being run has its caller, on whose
\* stack it lives, inside its call; it has a tick on its way; no sleeper misses
\* what it waits for; and a swap counter belongs to one composition.
GpuThreadInvariant ==
    /\ explored = "Asynchronous" =>
          /\ Commands(TRUE)!TypeOK /\ Commands(TRUE)!RequesterWaits
          /\ Commands(TRUE)!NoForgottenRequest /\ Commands(TRUE)!NoLostWakeUp
          /\ Commands(TRUE)!SwapCountersMatch
    /\ explored = "Synchronous" =>
          /\ Commands(FALSE)!RequesterWaits /\ Commands(FALSE)!NoForgottenRequest
          /\ Commands(FALSE)!NoLostWakeUp /\ Commands(FALSE)!SwapCountersMatch

\* Syncpoint events: no action whose value was reached is missed, an event that
\* says Waiting has its action, and one that says Signalled has told its waiter.
SyncpointInvariant ==
    explored = "Ctrl" =>
        Ctrl!TypeOK /\ Ctrl!NoMissedAction /\ Ctrl!WaitingIsArmed /\ Ctrl!SignalledIsTold

\* Calls to the GPU return, fences are released, and waits for a syncpoint end and
\* leave the driver's thread free.
GpuCallsReturn ==
    /\ explored = "Asynchronous" => Commands(TRUE)!CallsReturn
    /\ explored = "Synchronous" => Commands(FALSE)!CallsReturn
    /\ explored = "Vulkan" => Vulkan!FencesReleased /\ Vulkan!WaitsReturn
    /\ explored = "Ctrl" => Ctrl!WaitsEnd /\ Ctrl!IoctlsReturn
=============================================================================
