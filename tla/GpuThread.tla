----------------------------- MODULE GpuThread -----------------------------
(***************************************************************************)
(* The GPU thread (gpu_thread.cpp) and the synchronous operations of the   *)
(* GPU (gpu.cpp): client threads push commands, ask the GPU thread to run  *)
(* an operation and wait for it, and ask for a composition that has to     *)
(* wait for fences on a guest syncpoint.                                   *)
(*                                                                         *)
(* The command queue is the FIFO of module BoundedQueue.  A SubmitList     *)
(* command stands for its effect on the syncpoint: it increments it once.  *)
(* A flush, a read by the CPU and a capture are operations with no fences. *)
(***************************************************************************)
EXTENDS Integers, Sequences, FiniteSets

CONSTANTS Clients, Async, Capacity, MaxFence, FenceLists

AsyncAssumption == Async \in BOOLEAN
BoundsAssumption == Capacity \in Nat \ {0} /\ MaxFence \in Nat
\* The values a composition waits for; one entry for each fence.
FenceListsAssumption == FenceLists \subseteq Seq(Nat \ {0})

NoClient == "none"
ClientsAssumption == NoClient \notin Clients

VARIABLES
    writeLock, queue, lastFence, signaledFence,     \* SynchState
    syncRequests, lastSyncFence, currentSyncFence,  \* of GPU::Impl
    swapCounters, freeSwapCounters,     \* request_swap_counters, free_swap_counters
    guestValue, guestActions,   \* of the guest syncpoint: value, counter of each
    pc,             \* pc[t]: where the call of client t stands
    op,             \* op[t]: what it asks for
    fence, syncFence,   \* what PushCommand and RequestSyncOperation gave it
    gpc, current,   \* the GPU thread and what it executes
    request         \* the request it executes

stateVars == <<writeLock, queue, lastFence, signaledFence>>
syncVars == <<syncRequests, lastSyncFence, currentSyncFence>>
swapVars == <<swapCounters, freeSwapCounters, guestValue, guestActions>>
clientVars == <<pc, op, fence, syncFence>>
gpuVars == <<gpc, current, request>>
vars == <<stateVars, syncVars, swapVars, clientVars, gpuVars>>

NoOp == [kind |-> "none"]
Submit == [kind |-> "submit"]
Flush == [kind |-> "flush"]
Composite(fences, counter) == [kind |-> "composite", fences |-> fences, counter |-> counter]

TypeOK ==
    /\ writeLock \in Clients \cup {NoClient}
    /\ Len(queue) <= Capacity /\ \A i \in DOMAIN queue : queue[i].fence \in 1 .. lastFence
    /\ signaledFence \in 0 .. lastFence
    /\ currentSyncFence \in 0 .. lastSyncFence
    /\ \A i \in DOMAIN syncRequests : syncRequests[i] \in Clients
    /\ swapCounters \in Seq(Nat) /\ freeSwapCounters \subseteq DOMAIN swapCounters
    /\ pc \in [Clients -> {"idle", "request", "push", "emplace", "block", "sleepy",
                           "blocked", "wait", "drowsy", "waiting"}]
    /\ fence \in [Clients -> 0 .. lastFence] /\ syncFence \in [Clients -> 0 .. lastSyncFence]
    /\ gpc \in {"pop", "execute", "tick", "run", "count", "notify", "store", "unblock"}
    /\ request \in Clients \cup {NoClient}

Init ==
    /\ writeLock = NoClient /\ queue = <<>> /\ lastFence = 0 /\ signaledFence = 0
    /\ syncRequests = <<>> /\ lastSyncFence = 0 /\ currentSyncFence = 0
    /\ swapCounters = <<>> /\ freeSwapCounters = {}
    /\ guestValue = 0 /\ guestActions = {}
    /\ pc = [t \in Clients |-> "idle"] /\ op = [t \in Clients |-> NoOp]
    /\ fence = [t \in Clients |-> 0] /\ syncFence = [t \in Clients |-> 0]
    /\ gpc = "pop" /\ current = NoOp /\ request = NoClient

Goto(t, l) == pc' = [pc EXCEPT ![t] = l]

\* sync_request_mutex is held between steps only by a caller about to sleep.
SyncMutexFree == \A t \in Clients : pc[t] # "drowsy"

\* The bound on the number of calls.
Room == lastFence + Cardinality({t \in Clients : pc[t] \in {"request", "push"}}) < MaxFence
-----------------------------------------------------------------------------
(***************************************************************************)
(* The calls.                                                              *)
(***************************************************************************)

SubmitList(t) ==
    /\ pc[t] = "idle" /\ Room
    /\ op' = [op EXCEPT ![t] = Submit]
    /\ Goto(t, "push")
    /\ UNCHANGED <<stateVars, syncVars, swapVars, fence, syncFence, gpuVars>>

OnCPURead(t) ==
    /\ pc[t] = "idle" /\ Room
    /\ op' = [op EXCEPT ![t] = Flush]
    /\ Goto(t, "request")
    /\ UNCHANGED <<stateVars, syncVars, swapVars, fence, syncFence, gpuVars>>

\* A counter of the fences still to come: one that is free, or a new one.
RequestComposite(t, fences) ==
    /\ pc[t] = "idle" /\ Room
    /\ \E c \in IF freeSwapCounters = {} THEN {Len(swapCounters) + 1} ELSE freeSwapCounters :
        /\ swapCounters' = IF freeSwapCounters = {} THEN Append(swapCounters, Len(fences))
                           ELSE [swapCounters EXCEPT ![c] = Len(fences)]
        /\ freeSwapCounters' = freeSwapCounters \ {c}
        /\ op' = [op EXCEPT ![t] = Composite(fences, c)]
    /\ Goto(t, "request")
    /\ UNCHANGED <<stateVars, syncVars, guestValue, guestActions, fence, syncFence, gpuVars>>

\* The request goes into the list before the GPU thread is told to look there.
RequestSyncOperation(t) ==
    /\ pc[t] = "request" /\ SyncMutexFree
    /\ lastSyncFence' = lastSyncFence + 1
    /\ syncRequests' = Append(syncRequests, t)
    /\ syncFence' = [syncFence EXCEPT ![t] = lastSyncFence + 1]
    /\ Goto(t, "push")
    /\ UNCHANGED <<stateVars, currentSyncFence, swapVars, op, fence, gpuVars>>

\* PushCommand holds write_lock while it waits for room in the queue.
PushCommand(t) ==
    /\ pc[t] = "push" /\ writeLock = NoClient
    /\ writeLock' = t
    /\ lastFence' = lastFence + 1
    /\ fence' = [fence EXCEPT ![t] = lastFence + 1]
    /\ Goto(t, "emplace")
    /\ UNCHANGED <<queue, signaledFence, syncVars, swapVars, op, syncFence, gpuVars>>

\* A list is submitted and forgotten; for an operation the GPU was ticked, and
\* its caller waits for it.
AfterPush(t) ==
    /\ Goto(t, IF op[t] = Submit THEN "idle" ELSE "wait")
    /\ op' = [op EXCEPT ![t] = IF @ = Submit THEN NoOp ELSE @]
    /\ fence' = [fence EXCEPT ![t] = 0]

CommandOf(o) == IF o = Submit THEN "submit" ELSE "tick"

EmplaceWait(t) ==
    /\ pc[t] = "emplace" /\ Len(queue) < Capacity
    /\ queue' = Append(queue, [kind |-> CommandOf(op[t]), fence |-> fence[t], block |-> ~Async])
    /\ IF Async THEN writeLock' = NoClient /\ AfterPush(t)
       ELSE Goto(t, "block") /\ UNCHANGED <<writeLock, op, fence>>
    /\ UNCHANGED <<lastFence, signaledFence, syncVars, swapVars, syncFence, gpuVars>>

\* The wait of a blocking command: its condition is looked at with write_lock,
\* which is given up in the sleep.
CondvarWait(t) ==
    /\ pc[t] = "block" /\ writeLock \in {t, NoClient}
    /\ IF fence[t] <= signaledFence THEN writeLock' = NoClient /\ AfterPush(t)
       ELSE writeLock' = t /\ Goto(t, "sleepy") /\ UNCHANGED <<op, fence>>
    /\ UNCHANGED <<queue, lastFence, signaledFence, syncVars, swapVars, syncFence, gpuVars>>

Sleep(t) ==
    /\ \/ pc[t] = "sleepy" /\ writeLock' = NoClient /\ Goto(t, "blocked")
       \/ pc[t] = "drowsy" /\ Goto(t, "waiting") /\ UNCHANGED writeLock
    /\ UNCHANGED <<queue, lastFence, signaledFence, syncVars, swapVars, op, fence, syncFence,
                   gpuVars>>

SyncReached(t) == currentSyncFence >= syncFence[t]

WaitForSyncOperation(t) ==
    /\ pc[t] = "wait" /\ SyncMutexFree
    /\ IF SyncReached(t)
       THEN /\ Goto(t, "idle")
            /\ op' = [op EXCEPT ![t] = NoOp]
            /\ syncFence' = [syncFence EXCEPT ![t] = 0]
       ELSE Goto(t, "drowsy") /\ UNCHANGED <<op, syncFence>>
    /\ UNCHANGED <<stateVars, syncVars, swapVars, fence, gpuVars>>
-----------------------------------------------------------------------------
(***************************************************************************)
(* The GPU thread.                                                         *)
(***************************************************************************)

\* Of the actions `run' on the guest syncpoint the last one of a counter gives
\* it back and composites.
Executed(counters, run) ==
    [c \in DOMAIN counters |-> counters[c] - Cardinality({a \in run : a.counter = c})]

Finished(counters, run) ==
    {c \in {a.counter : a \in run} : Executed(counters, run)[c] = 0}

PopWait ==
    /\ gpc = "pop" /\ queue # <<>>
    /\ current' = Head(queue) /\ queue' = Tail(queue)
    /\ gpc' = IF Head(queue).kind = "tick" THEN "tick" ELSE "execute"
    /\ UNCHANGED <<writeLock, lastFence, signaledFence, syncVars, swapVars, clientVars, request>>

\* The commands of a list; one of them signals the syncpoint (IncrementGuest).
Execute ==
    /\ gpc = "execute"
    /\ LET due == {a \in guestActions : a.value <= guestValue + 1}
       IN  /\ guestValue' = guestValue + 1
           /\ guestActions' = guestActions \ due
           /\ swapCounters' = Executed(swapCounters, due)
           /\ freeSwapCounters' = freeSwapCounters \cup Finished(swapCounters, due)
    /\ gpc' = "store"
    /\ UNCHANGED <<stateVars, syncVars, clientVars, current, request>>

\* TickWork takes the next request, with sync_request_mutex, or is done.
TakeRequest ==
    IF syncRequests = <<>>
    THEN /\ gpc' = "store" /\ request' = NoClient
         /\ UNCHANGED syncRequests
    ELSE /\ gpc' = "run" /\ request' = Head(syncRequests)
         /\ syncRequests' = Tail(syncRequests)

TickWork ==
    /\ gpc = "tick" /\ SyncMutexFree
    /\ TakeRequest
    /\ UNCHANGED <<stateVars, lastSyncFence, currentSyncFence, swapVars, clientVars, current>>

\* What the request captured by reference is read here.
RunRequest ==
    /\ gpc = "run"
    /\ IF op[request].kind # "composite" THEN UNCHANGED swapVars
       ELSE LET c == op[request].counter
                all == {[value |-> op[request].fences[i], counter |-> c, index |-> i] :
                            i \in DOMAIN op[request].fences}
                due == {a \in all : a.value <= guestValue}
            IN  /\ guestActions' = guestActions \cup (all \ due)
                /\ swapCounters' = Executed(swapCounters, due)
                /\ freeSwapCounters' = freeSwapCounters \cup Finished(swapCounters, due)
                /\ UNCHANGED guestValue
    /\ gpc' = "count"
    /\ UNCHANGED <<stateVars, syncVars, clientVars, current, request>>

Counted(n) == n + 1

CountRequest ==
    /\ gpc = "count"
    /\ currentSyncFence' = Counted(currentSyncFence)
    /\ gpc' = "notify"
    /\ UNCHANGED <<stateVars, syncRequests, lastSyncFence, swapVars, clientVars, current, request>>

Woken(l) == [t \in Clients |-> IF pc[t] = l THEN IF l = "waiting" THEN "wait" ELSE "block"
                               ELSE pc[t]]

\* Mutant: the waiters are notified without the mutex.
CanNotifyAtOnce == TRUE

CanNotify == SyncMutexFree

\* The mutex is taken between the count and the notification, and kept to take
\* the next request.
NotifyAndTake ==
    /\ gpc = "notify" /\ CanNotify
    /\ pc' = Woken("waiting")
    /\ TakeRequest
    /\ UNCHANGED <<stateVars, lastSyncFence, currentSyncFence, swapVars, op, fence, syncFence,
                   current>>

StoreFence ==
    /\ gpc = "store"
    /\ signaledFence' = current.fence
    /\ gpc' = IF current.block THEN "unblock" ELSE "pop"
    /\ UNCHANGED <<writeLock, queue, lastFence, syncVars, swapVars, clientVars, current, request>>

CanUnblock == writeLock = NoClient

Unblock ==
    /\ gpc = "unblock" /\ CanUnblock
    /\ pc' = Woken("blocked")
    /\ gpc' = "pop"
    /\ UNCHANGED <<stateVars, syncVars, swapVars, op, fence, syncFence, current, request>>
-----------------------------------------------------------------------------
Client(t) ==
    RequestSyncOperation(t) \/ PushCommand(t) \/ EmplaceWait(t) \/ CondvarWait(t)
    \/ Sleep(t) \/ WaitForSyncOperation(t)

RunThread ==
    PopWait \/ Execute \/ TickWork \/ RunRequest \/ CountRequest \/ NotifyAndTake \/ StoreFence
    \/ Unblock

Call(t) ==
    SubmitList(t) \/ OnCPURead(t) \/ \E fences \in FenceLists : RequestComposite(t, fences)

Next == RunThread \/ \E t \in Clients : Client(t) \/ Call(t)

Spec == Init /\ [][Next]_vars

\* Threads inside a call and the GPU thread go on; the mutexes are strongly fair.
Fairness ==
    /\ SF_vars(RunThread)
    /\ \A t \in Clients :
        /\ WF_vars(EmplaceWait(t)) /\ WF_vars(Sleep(t))
        /\ SF_vars(PushCommand(t) \/ CondvarWait(t))
        /\ SF_vars(RequestSyncOperation(t) \/ WaitForSyncOperation(t))
-----------------------------------------------------------------------------
NotRun == {t \in Clients : op[t].kind = "composite" /\ (pc[t] = "request"
              \/ \E i \in DOMAIN syncRequests : syncRequests[i] = t)}
          \cup {t \in Clients : gpc = "run" /\ request = t /\ op[t].kind = "composite"}

\* What a request captures by reference is on the stack of its caller: a request
\* in the list or being run has a caller inside its call, and each caller one
\* request (RequestSyncOperation, TickWork, WaitForSyncOperation).
RequesterWaits ==
    /\ \A i \in DOMAIN syncRequests : syncFence[syncRequests[i]] = lastSyncFence - Len(syncRequests) + i
    /\ gpc = "run" => syncFence[request] = currentSyncFence + 1

\* A request in the list has a tick on its way: in the queue, in the GPU thread,
\* or still to be pushed (RequestSyncOperation before TickGPU).
NoForgottenRequest ==
    syncRequests # <<>> =>
        \/ gpc \in {"tick", "run", "count", "notify"}
        \/ \E i \in DOMAIN queue : queue[i].kind = "tick"
        \/ \E t \in Clients : pc[t] \in {"push", "emplace"} /\ op[t] # Submit

\* No sleeper misses what it waits for: the GPU thread is about to notify it
\* (the lock between the store and notify_all in RunThread and TickWork).
NoLostWakeUp ==
    \A t \in Clients :
        /\ pc[t] = "waiting" /\ SyncReached(t) => gpc = "notify"
        /\ pc[t] = "blocked" /\ fence[t] <= signaledFence => gpc = "unblock"

\* A swap counter counts the fences its composition still waits for, and no
\* other composition has it (RequestComposite and the executer it registers).
SwapCountersMatch ==
    \A c \in DOMAIN swapCounters :
        LET owners == {t \in NotRun : op[t].counter = c}
            left == Cardinality({a \in guestActions : a.counter = c})
        IN  /\ Cardinality(owners) <= 1
            /\ owners = {} => swapCounters[c] = left
            /\ \A t \in owners : left = 0 /\ swapCounters[c] = Len(op[t].fences)
            /\ c \in freeSwapCounters => owners = {} /\ left = 0

\* Every call returns: no one waits for a command or an operation for ever.
CallsReturn == \A t \in Clients : pc[t] # "idle" ~> pc[t] = "idle"
=============================================================================
