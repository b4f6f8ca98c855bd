---------------------------- MODULE FenceManager ----------------------------
(***************************************************************************)
(* FenceManager (fence_manager.h): the GPU thread queues fences with the   *)
(* operations that wait for the host GPU, and a release thread, or without *)
(* asynchronous checks (OpenGL) the GPU thread itself, runs them.          *)
(*                                                                         *)
(* The caches stand for one bit of a fence: with uncommitted flushes it is *)
(* a real fence of the host GPU, without it is a stub.  The flushes the    *)
(* caches commit and pop keep step with the fences (ShouldWait).           *)
(***************************************************************************)
EXTENDS Integers, Sequences, FiniteSets

CONSTANTS
    AsyncCheck,     \* can_async_check: Vulkan, not OpenGL
    Levels,         \* the values Settings::IsGPULevelHigh can have
    MaxFences

AsyncCheckAssumption == AsyncCheck \in BOOLEAN /\ Levels \subseteq BOOLEAN
MaxFencesAssumption == MaxFences \in Nat

VARIABLES
    fences,         \* the queue: numbers of fences, the k-th made has number k
    made, real,     \* number of fences made; the ones that are not stubs
    signaled,       \* real fences the host GPU has reached
    uncommitted, pending,   \* the operations without a fence, and those of each in the queue
    guest, host,    \* values of the syncpoint
    pc, func,       \* the GPU thread, and the operation of the fence it makes
    finished,       \* wait_finished of WaitPendingFences
    released,       \* number of fences whose operations have all run
    rpc, current, operations,   \* the release thread, its fence and operations
    stop, dpc       \* stop_requested, and the destructor

queueVars == <<fences, made, real, uncommitted, pending>>
gpuVars == <<pc, func, finished>>
releaseVars == <<released, rpc, current, operations>>
stopVars == <<stop, dpc>>
vars == <<queueVars, signaled, guest, host, gpuVars, releaseVars, stopVars>>

Operations == {"IncrementHost", "SyncOperation", "finish"}

TypeOK ==
    /\ made \in 0 .. MaxFences /\ real \subseteq 1 .. made /\ signaled \subseteq real
    /\ fences \in Seq(1 .. made)
    /\ pending \in Seq(Seq(Operations)) /\ Len(pending) = Len(fences)
    /\ uncommitted \in Seq(Operations) /\ operations \in Seq(Operations)
    /\ guest \in Nat /\ host \in Nat /\ released \in 0 .. made /\ current \in 0 .. made
    /\ pc \in {"idle", "try", "signal", "notify", "force", "waiting"}
    /\ func \in Operations \cup {"none"} /\ finished \in BOOLEAN
    /\ rpc \in {"check", "drowsy", "asleep", "wait", "run", "ended"}
    /\ stop \in BOOLEAN /\ dpc \in {"none", "notify", "join", "joined"}

Init ==
    /\ fences = <<>> /\ made = 0 /\ real = {} /\ signaled = {}
    /\ uncommitted = <<>> /\ pending = <<>> /\ guest = 0 /\ host = 0
    /\ pc = "idle" /\ func = "none" /\ finished = FALSE
    /\ released = 0 /\ rpc = "check" /\ current = 0 /\ operations = <<>>
    /\ stop = FALSE /\ dpc = "none"

\* The release thread holds guard between steps only when about to sleep.
GuardFree == rpc # "drowsy"

\* What an operation does to the syncpoint and to WaitPendingFences.
Run(op) ==
    /\ host' = IF op = "IncrementHost" THEN host + 1 ELSE host
    /\ finished' = (finished \/ op = "finish")

\* What all the operations of a fence do to it.
Increments(ops) == Cardinality({i \in DOMAIN ops : ops[i] = "IncrementHost"})

CanCall == pc = "idle" /\ dpc = "none" /\ made < MaxFences
-----------------------------------------------------------------------------
(***************************************************************************)
(* The GPU thread                                                          *)
(***************************************************************************)

\* At most one of these waits for a fence.
SyncOperation ==
    /\ CanCall /\ uncommitted = <<>>
    /\ uncommitted' = Append(uncommitted, "SyncOperation")
    /\ UNCHANGED <<fences, made, real, pending, signaled, guest, host, gpuVars, releaseVars,
                   stopVars>>

SignalBegins == IF AsyncCheck THEN "signal" ELSE "try"

\* Mutant: only the host side is incremented.
IncrementGuestNot(n) == n

IncrementGuest(n) == n + 1

SignalSyncPoint ==
    /\ CanCall
    /\ guest' = IncrementGuest(guest)
    /\ func' = "IncrementHost" /\ pc' = SignalBegins
    /\ UNCHANGED <<queueVars, signaled, host, finished, releaseVars, stopVars>>

\* Without asynchronous checks the GPU thread releases the fences itself.
WaitPendingFences ==
    /\ CanCall
    /\ pc' = IF AsyncCheck THEN "signal" ELSE "force"
    /\ func' = IF AsyncCheck THEN "finish" ELSE "none"
    /\ finished' = FALSE
    /\ UNCHANGED <<queueVars, signaled, guest, host, releaseVars, stopVars>>

\* A stub counts as reached.
IsReached(f) == f \in real => f \in signaled

\* One round of TryReleasePendingFences; a fence that is not reached ends it,
\* or is waited for.
TryRelease ==
    /\ pc \in {"try", "force"}
    /\ IF fences # <<>> /\ IsReached(Head(fences))
       THEN /\ released' = Head(fences)
            /\ host' = host + Increments(Head(pending))
            /\ fences' = Tail(fences) /\ pending' = Tail(pending)
            /\ UNCHANGED pc
       ELSE /\ pc = "force" => fences = <<>>
            /\ pc' = IF pc = "try" THEN "signal" ELSE "idle"
            /\ UNCHANGED <<released, host, fences, pending>>
    /\ UNCHANGED <<made, real, uncommitted, signaled, guest, func, finished, rpc, current,
                   operations, stopVars>>

Queued(q, f) == Append(q, f)

\* With guard: the operations, the fence of the host GPU, and the operation of
\* the fence, at once or with the others.
SignalFence(flush, delay) ==
    /\ pc = "signal" /\ GuardFree
    /\ made' = made + 1
    /\ real' = IF flush THEN real \cup {made + 1} ELSE real
    /\ pending' = Append(pending, IF delay THEN Append(uncommitted, func) ELSE uncommitted)
    /\ fences' = Queued(fences, made + 1)
    /\ uncommitted' = <<>>
    /\ IF delay THEN UNCHANGED <<host, finished>> ELSE Run(func)
    /\ pc' = "notify"
    /\ UNCHANGED <<signaled, guest, func, releaseVars, stopVars>>

\* Mutant: no one is notified.
WakeNone(l) == l

Wake(l) == IF l = "asleep" THEN "check" ELSE l

\* cv.notify_all after guard is released.
Notify ==
    /\ pc = "notify"
    /\ rpc' = Wake(rpc)
    /\ pc' = IF func = "finish" THEN "waiting" ELSE "idle"
    /\ func' = "none"
    /\ UNCHANGED <<queueVars, signaled, guest, host, finished, released, current, operations,
                   stopVars>>

WaitFinished ==
    /\ pc = "waiting" /\ finished
    /\ pc' = "idle" /\ finished' = FALSE
    /\ UNCHANGED <<queueVars, signaled, guest, host, func, releaseVars, stopVars>>

\* The host GPU reaches the fences in order.
HostReaches ==
    /\ \E f \in real \ signaled :
        /\ \A g \in real \ signaled : f <= g
        /\ signaled' = signaled \cup {f}
    /\ UNCHANGED <<queueVars, guest, host, gpuVars, releaseVars, stopVars>>
-----------------------------------------------------------------------------
(***************************************************************************)
(* ReleaseThreadFunc, and the destructor, called when the GPU thread is    *)
(* done.                                                                   *)
(***************************************************************************)

TakeFence ==
    /\ rpc = "check" /\ AsyncCheck
    /\ \/ stop /\ rpc' = "ended" /\ UNCHANGED <<fences, pending, current, operations>>
       \/ /\ ~stop /\ fences # <<>>
          /\ current' = Head(fences) /\ operations' = Head(pending)
          /\ fences' = Tail(fences) /\ pending' = Tail(pending)
          /\ rpc' = "wait"
       \/ ~stop /\ fences = <<>> /\ rpc' = "drowsy" /\ UNCHANGED <<fences, pending, current, operations>>
    /\ UNCHANGED <<made, real, uncommitted, signaled, guest, host, gpuVars, released, stopVars>>

Sleep ==
    /\ rpc = "drowsy" /\ rpc' = "asleep"
    /\ UNCHANGED <<queueVars, signaled, guest, host, gpuVars, released, current, operations,
                   stopVars>>

WaitFence ==
    /\ rpc = "wait" /\ IsReached(current)
    /\ rpc' = "run"
    /\ UNCHANGED <<queueVars, signaled, guest, host, gpuVars, released, current, operations,
                   stopVars>>

RunOperation ==
    /\ rpc = "run"
    /\ IF operations # <<>>
       THEN /\ Run(Head(operations))
            /\ operations' = Tail(operations)
            /\ UNCHANGED <<released, current, rpc>>
       ELSE /\ released' = current /\ current' = 0 /\ rpc' = "check"
            /\ UNCHANGED <<host, finished, operations>>
    /\ UNCHANGED <<queueVars, signaled, guest, pc, func, stopVars>>

RequestStop ==
    /\ AsyncCheck /\ pc = "idle" /\ dpc = "none"
    /\ stop' = TRUE /\ dpc' = "notify"
    /\ UNCHANGED <<queueVars, signaled, guest, host, gpuVars, releaseVars>>

NotifyStop ==
    /\ dpc = "notify"
    /\ rpc' = Wake(rpc) /\ dpc' = "join"
    /\ UNCHANGED <<queueVars, signaled, guest, host, gpuVars, released, current, operations, stop>>

Join ==
    /\ dpc = "join" /\ rpc = "ended"
    /\ dpc' = "joined"
    /\ UNCHANGED <<queueVars, signaled, guest, host, gpuVars, releaseVars, stop>>
-----------------------------------------------------------------------------
GpuThread ==
    \/ TryRelease \/ Notify \/ WaitFinished
    \/ \E flush \in BOOLEAN, delay \in Levels : SignalFence(flush, delay)

ReleaseThread == TakeFence \/ Sleep \/ WaitFence \/ RunOperation

Next ==
    \/ SyncOperation \/ SignalSyncPoint \/ WaitPendingFences
    \/ GpuThread \/ HostReaches \/ ReleaseThread
    \/ RequestStop \/ NotifyStop \/ Join

Spec == Init /\ [][Next]_vars

\* The threads go on, and the host GPU finishes its work.
Fairness ==
    /\ SF_vars(GpuThread) /\ WF_vars(ReleaseThread) /\ WF_vars(HostReaches)
    /\ WF_vars(NotifyStop) /\ WF_vars(Join)
-----------------------------------------------------------------------------
\* Operations run after the work they wait for: when those of a fence are run,
\* the host GPU has reached every real fence up to it, also for a stub
\* (SignalFence, ReleaseThreadFunc, TryReleasePendingFences).
RunsAfterGpu ==
    \A f \in real : f <= released \/ (rpc = "run" /\ f <= current) => f \in signaled

\* The host's value of the syncpoint never passes the guest's: the operation may
\* run in the other thread as soon as it is queued (SignalSyncPoint).
HostNotAhead == host <= guest

\* A release thread asleep with a fence in the queue is about to be notified
\* (SignalFence notifies after it released guard).
NoLostWakeUp == rpc = "asleep" /\ fences # <<>> => pc = "notify"

\* Operations run after the host GPU has done the work before them, the host's
\* syncpoint never passes the guest's, and the release thread does not sleep with a
\* fence in the queue (SignalFence, ReleaseThreadFunc, TryReleasePendingFences).
FenceInvariant == TypeOK /\ RunsAfterGpu /\ HostNotAhead /\ NoLostWakeUp

\* Every fence is released unless the manager is destroyed (ReleaseThreadFunc).
FencesReleased == \A k \in 1 .. MaxFences : made >= k ~> released >= k \/ stop

\* The destructor joins the release thread: its notification does not fall
\* between the check and the sleep (~FenceManager, ReleaseThreadFunc).
DestructorEnds == dpc = "notify" ~> dpc = "joined"

\* A call of the GPU thread returns, also one that waits for all the fences
\* (WaitPendingFences).
WaitsReturn == pc # "idle" ~> pc = "idle"
=============================================================================
