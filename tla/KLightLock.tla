----------------------------- MODULE KLightLock -----------------------------
(***************************************************************************)
(* KLightLock: the kernel's own lock (k_light_lock.cpp), and the part of   *)
(* KThread that it relies on (k_thread.cpp): the waiters kept under the    *)
(* owner thread, suspension, and termination.                              *)
(*                                                                         *)
(* The lock is one word, m_tag: the owner's pointer, whose low bit says    *)
(* that somebody waits.  Lock and Unlock try one compare-and-swap; when    *)
(* that fails they take the slow path, under the scheduler lock.  The two  *)
(* interleave: the fast paths never take the scheduler lock, so the tag    *)
(* can change between a thread's compare-and-swap and its slow path.       *)
(*                                                                         *)
(* A thread that holds a light lock others wait for must not be suspended, *)
(* or they would wait until it is resumed: TrySuspend leaves such a thread *)
(* running, and the slow paths continue (and re-suspend) the owners.       *)
(*                                                                         *)
(* One lock is modelled, so a thread's kernel waiters are the waiters of   *)
(* that lock, and a waiting thread inherits no priority: Prio is constant. *)
(***************************************************************************)
EXTENDS Integers, Sequences

CONSTANTS
    Threads,        \* KThread objects
    None,           \* nullptr
    SuspendTypes,   \* SuspendType: Process, Thread, Debug, Backtrace, Init, System
    Prio            \* thread -> priority; a smaller number is a higher priority

ASSUME ThreadsAssumption == None \notin Threads
ASSUME PrioAssumption == Prio \in [Threads -> Nat]

VARIABLES
    owner,          \* m_tag without its low bit: the owner, or None
    waitBit,        \* the low bit of m_tag, read and written with owner in one step
    held,           \* held[t]: waiters of the lock info in t's m_held_lock_info_list
    pc,             \* where thread t is in Lock and Unlock
    seen,           \* seen[t]: the owner in the tag t's compare-and-swap found
    schedLock,      \* the thread inside a split scheduler-locked section, or None
    nextOwner,      \* next_tag of the UnlockSlowPath in progress: pointer
    nextBit,        \*     and low bit
    suspRequest,    \* suspRequest[t]: m_suspend_request_flags
    suspAllowed,    \* suspAllowed[t]: m_suspend_allowed_flags
    stateFlags,     \* stateFlags[t]: the suspend bits of m_thread_state
    termRequested   \* the threads whose m_termination_requested is set

lockVars == <<owner, waitBit, held, pc, seen, schedLock, nextOwner, nextBit>>
threadVars == <<suspRequest, suspAllowed, stateFlags, termRequested>>
vars == <<owner, waitBit, held, pc, seen, schedLock, nextOwner, nextBit,
          suspRequest, suspAllowed, stateFlags, termRequested>>

\* The lock as its callers see it: during UnlockSlowPath the lock has already
\* passed to the thread that next_tag names.
Holder == IF schedLock = None THEN owner ELSE nextOwner
HolderBit == IF schedLock = None THEN waitBit ELSE nextBit
Queue == IF Holder = None THEN <<>> ELSE held[Holder]

Abstract == INSTANCE HandoffLock WITH holder <- Holder, queue <- Queue

\* "Idle": outside the lock; "Retry": LockSlowPath returned false;
\* "LockSlow": the compare-and-swap set the waiters bit of another's tag;
\* "Waiting": ThreadState::Waiting in LockSlowPath; "Woken": runnable again,
\* not yet back in Lock; "Critical": Lock has returned; "UnlockSlow": Unlock's
\* compare-and-swap failed; "StoreTag": about to write next_tag.
PCs == {"Idle", "Retry", "LockSlow", "Waiting", "Woken", "Critical",
        "UnlockSlow", "StoreTag", "Exited"}

HeldType == held \in [Threads -> Seq(Threads)]

TypeOK ==
    /\ HeldType
    /\ owner \in Threads \cup {None}
    /\ waitBit \in {0, 1}
    /\ pc \in [Threads -> PCs]
    /\ seen \in [Threads -> Threads \cup {None}]
    /\ schedLock \in Threads \cup {None}
    /\ nextOwner \in Threads \cup {None}
    /\ nextBit \in {0, 1}
    /\ suspRequest \in [Threads -> SUBSET SuspendTypes]
    /\ suspAllowed \in [Threads -> SUBSET SuspendTypes]
    /\ stateFlags \in [Threads -> SUBSET SuspendTypes]
    /\ termRequested \subseteq Threads

Init ==
    /\ owner = None /\ waitBit = 0
    /\ held = [t \in Threads |-> <<>>]
    /\ pc = [t \in Threads |-> "Idle"]
    /\ seen = [t \in Threads |-> None]
    /\ schedLock = None
    /\ nextOwner = None /\ nextBit = 0
    /\ suspRequest = [t \in Threads |-> {}]
    /\ suspAllowed = [t \in Threads |-> SuspendTypes]
    /\ stateFlags = [t \in Threads |-> {}]
    /\ termRequested = {}
-----------------------------------------------------------------------------
(***************************************************************************)
(* The parts of KThread the lock uses.                                     *)
(***************************************************************************)

\* KThread::GetSuspendFlags and IsSuspended: requested and allowed.
GetSuspendFlags(t) == suspRequest[t] \cap suspAllowed[t]
IsSuspended(t) == GetSuspendFlags(t) # {}

\* KThread::GetNumKernelWaiters.
NumKernelWaiters(t) == Len(held[t])

\* Mutant: the owner is not continued when somebody starts to wait for it.
NeverContinue(flags, t, waiters) == flags

\* Mutant: TrySuspend does not look at the kernel waiters.
SuspendAnyway(flags, t, suspendFlags, waiters) == [flags EXCEPT ![t] = suspendFlags]

\* KThread::Continue drops the suspend bits of a thread somebody waits for.
ContinueIfHasKernelWaiters(flags, t, waiters) ==
    IF IsSuspended(t) /\ waiters # <<>> THEN [flags EXCEPT ![t] = {}] ELSE flags

\* KThread::TrySuspend: no effect on a thread with kernel waiters.
TrySuspend(flags, t, suspendFlags, waiters) ==
    IF waiters = <<>> THEN [flags EXCEPT ![t] = suspendFlags] ELSE flags
-----------------------------------------------------------------------------
(***************************************************************************)
(* KLightLock.                                                             *)
(***************************************************************************)

\* Mutant: the slow path does not look at the tag again under the scheduler lock.
LockSlowPathNoRecheck(t) ==
    /\ pc[t] = "LockSlow"
    /\ schedLock = None
    /\ held' = [held EXCEPT ![seen[t]] = Append(@, t)]
    /\ pc' = [pc EXCEPT ![t] = "Waiting"]
    /\ stateFlags' = ContinueIfHasKernelWaiters(stateFlags, seen[t], held'[seen[t]])
    /\ seen' = [seen EXCEPT ![t] = None]
    /\ UNCHANGED <<owner, waitBit, schedLock, nextOwner, nextBit,
                   suspRequest, suspAllowed, termRequested>>

\* Mutant: Unlock's compare-and-swap ignores the waiters bit.
UnlockIgnoresWaiters(t) ==
    /\ pc[t] = "Critical"
    /\ owner' = None /\ waitBit' = 0
    /\ pc' = [pc EXCEPT ![t] = "Idle"]
    /\ UNCHANGED <<held, seen, schedLock, nextOwner, nextBit, threadVars>>

\* Mutant: UnlockSlowPath stores a free tag although it woke a waiter.
StoreFreeTag(t) ==
    /\ pc[t] = "StoreTag"
    /\ schedLock = t
    /\ owner' = None /\ waitBit' = 0
    /\ nextOwner' = None /\ nextBit' = 0
    /\ schedLock' = None
    /\ pc' = [pc EXCEPT ![t] = "Idle"]
    /\ UNCHANGED <<held, seen, threadVars>>

\* Lock's compare-and-swap loop: take a free lock, else set the waiters bit.
Lock(t) ==
    /\ pc[t] \in {"Idle", "Retry"}
    /\ IF owner = None
       THEN /\ owner' = t
            /\ pc' = [pc EXCEPT ![t] = "Critical"]
            /\ UNCHANGED <<waitBit, seen>>
       ELSE /\ waitBit' = 1
            /\ seen' = [seen EXCEPT ![t] = owner]
            /\ pc' = [pc EXCEPT ![t] = "LockSlow"]
            /\ UNCHANGED owner
    /\ UNCHANGED <<held, schedLock, nextOwner, nextBit, threadVars>>

\* LockSlowPath: back to the loop if the tag moved on; else wait on the owner,
\* and let a suspended owner run until it has released the lock.
LockSlowPath(t) ==
    /\ pc[t] = "LockSlow"
    /\ schedLock = None
    /\ IF owner = seen[t] /\ waitBit = 1
       THEN /\ \E n \in Abstract!InsertionPoints(held[seen[t]], t) :
                  held' = [held EXCEPT ![seen[t]] = Abstract!InsertAfter(@, n, t)]
            /\ pc' = [pc EXCEPT ![t] = "Waiting"]
            /\ stateFlags' = ContinueIfHasKernelWaiters(stateFlags, seen[t], held'[seen[t]])
       ELSE /\ pc' = [pc EXCEPT ![t] = "Retry"]
            /\ UNCHANGED <<held, stateFlags>>
    /\ seen' = [seen EXCEPT ![t] = None]
    /\ UNCHANGED <<owner, waitBit, schedLock, nextOwner, nextBit,
                   suspRequest, suspAllowed, termRequested>>

\* The woken thread is scheduled again and LockSlowPath returns true: Lock
\* returns to its caller.
LockReturn(t) ==
    /\ pc[t] = "Woken"
    /\ schedLock = None
    /\ stateFlags[t] = {}
    /\ pc' = [pc EXCEPT ![t] = "Critical"]
    /\ UNCHANGED <<owner, waitBit, held, seen, schedLock, nextOwner, nextBit, threadVars>>

\* Unlock's compare-and-swap: succeeds only on its own pointer, no waiters bit.
Unlock(t) ==
    /\ pc[t] = "Critical"
    /\ IF owner = t /\ waitBit = 0
       THEN /\ owner' = None
            /\ pc' = [pc EXCEPT ![t] = "Idle"]
       ELSE /\ pc' = [pc EXCEPT ![t] = "UnlockSlow"]
            /\ UNCHANGED owner
    /\ UNCHANGED <<waitBit, held, seen, schedLock, nextOwner, nextBit, threadVars>>

\* UnlockSlowPath up to the store, with RemoveWaiterByKey: the first waiter
\* becomes the owner and takes over the others; it is woken; whichever of the
\* two is suspended is continued or re-suspended according to its waiters.
UnlockSlowPath(t) ==
    /\ pc[t] = "UnlockSlow"
    /\ schedLock = None
    /\ schedLock' = t
    /\ IF held[t] = <<>>
       THEN /\ nextOwner' = None
            /\ nextBit' = 0
            /\ pc' = [pc EXCEPT ![t] = "StoreTag"]
            /\ UNCHANGED held
            /\ stateFlags' = IF IsSuspended(t)
                             THEN TrySuspend(stateFlags, t, GetSuspendFlags(t), <<>>)
                             ELSE stateFlags
       ELSE LET next == Head(held[t])
                rest == Tail(held[t])
                flags == ContinueIfHasKernelWaiters(stateFlags, next, rest)
            IN  /\ nextOwner' = next
                /\ nextBit' = IF rest = <<>> THEN 0 ELSE 1
                /\ held' = [held EXCEPT ![t] = <<>>, ![next] = rest]
                /\ pc' = [pc EXCEPT ![t] = "StoreTag", ![next] = "Woken"]
                /\ stateFlags' = IF IsSuspended(t)
                                 THEN TrySuspend(flags, t, GetSuspendFlags(t), <<>>)
                                 ELSE flags
    /\ UNCHANGED <<owner, waitBit, seen, suspRequest, suspAllowed, termRequested>>

\* The store of the new tag, and the end of the scheduler-locked section.
StoreTag(t) ==
    /\ pc[t] = "StoreTag"
    /\ schedLock = t
    /\ owner' = nextOwner
    /\ waitBit' = nextBit
    /\ nextOwner' = None
    /\ nextBit' = 0
    /\ schedLock' = None
    /\ pc' = [pc EXCEPT ![t] = "Idle"]
    /\ UNCHANGED <<held, seen, threadVars>>
-----------------------------------------------------------------------------
(***************************************************************************)
(* KThread operations that other threads perform on t.                     *)
(***************************************************************************)

RequestSuspend(t, type) ==
    /\ schedLock = None
    /\ suspRequest' = [suspRequest EXCEPT ![t] = @ \cup {type}]
    /\ stateFlags' = TrySuspend(stateFlags, t, suspRequest'[t] \cap suspAllowed[t], held[t])
    /\ UNCHANGED <<lockVars, suspAllowed, termRequested>>

\* Resume always refreshes the suspend bits (UpdateState), kernel waiters or not.
Resume(t, type) ==
    /\ schedLock = None
    /\ suspRequest' = [suspRequest EXCEPT ![t] = @ \ {type}]
    /\ stateFlags' = [stateFlags EXCEPT ![t] = suspRequest'[t] \cap suspAllowed[t]]
    /\ UNCHANGED <<lockVars, suspAllowed, termRequested>>

\* The first request continues a suspended thread for good and cancels a wait:
\* ThreadQueueImplForKLightLock::CancelWait takes the thread out of the owner's
\* waiters and makes it runnable.  Only the wait result tells it apart from a
\* thread that was given the lock, and LockSlowPath does not read it.
RequestTerminate(t) ==
    /\ schedLock = None
    /\ t \notin termRequested
    /\ termRequested' = termRequested \cup {t}
    /\ suspAllowed' = IF IsSuspended(t) THEN [suspAllowed EXCEPT ![t] = {}] ELSE suspAllowed
    /\ stateFlags' = IF IsSuspended(t) THEN [stateFlags EXCEPT ![t] = {}] ELSE stateFlags
    /\ IF pc[t] = "Waiting"
       THEN /\ held' = [o \in Threads |-> SelectSeq(held[o], LAMBDA w : w # t)]
            /\ pc' = [pc EXCEPT ![t] = "Woken"]
       ELSE UNCHANGED <<held, pc>>
    /\ UNCHANGED <<owner, waitBit, seen, schedLock, nextOwner, nextBit, suspRequest>>

\* KThread::Exit, on the way out of the kernel (no lock held).
Exit(t) ==
    /\ pc[t] = "Idle"
    /\ schedLock = None
    /\ suspAllowed' = [suspAllowed EXCEPT ![t] = {}]
    /\ stateFlags' = [stateFlags EXCEPT ![t] = {}]
    /\ pc' = [pc EXCEPT ![t] = "Exited"]
    /\ UNCHANGED <<owner, waitBit, held, seen, schedLock, nextOwner, nextBit,
                   suspRequest, termRequested>>
-----------------------------------------------------------------------------
LockStep(t) ==
    \/ Lock(t)
    \/ LockSlowPath(t)
    \/ LockReturn(t)
    \/ Unlock(t)
    \/ UnlockSlowPath(t)
    \/ StoreTag(t)

Suspension(t) ==
    \E type \in SuspendTypes : RequestSuspend(t, type) \/ Resume(t, type)

\* Termination requests that reach a thread while it is not waiting for the
\* lock: the lock is correct under these.
TerminateRunning(t) == pc[t] # "Waiting" /\ RequestTerminate(t)

Next == \E t \in Threads : LockStep(t) \/ Suspension(t) \/ TerminateRunning(t) \/ Exit(t)

Spec == Init /\ [][Next]_vars

\* Every termination request, also one that cancels a wait for the lock.
TermNext == Next \/ \E t \in Threads : RequestTerminate(t)

TermSpec == Init /\ [][TermNext]_vars

\* A thread inside Lock or Unlock that is not suspended (or cannot be descheduled
\* because it has the scheduler lock) gets to run, and a kernel critical section
\* ends; nothing makes a thread start another Lock.
Running(t) ==
    /\ pc[t] # "Idle"
    /\ stateFlags[t] = {} \/ schedLock = t
    /\ LockStep(t)

Fairness == \A t \in Threads : WF_vars(Running(t))
-----------------------------------------------------------------------------
(***************************************************************************)
(* Properties.                                                             *)
(***************************************************************************)

\* Between the return of Lock and the end of Unlock, the tag names the thread:
\* IsLockedByCurrentThread holds wherever the kernel asserts it, so two threads
\* are never inside the lock together.
LockedByCurrentThread ==
    \A t \in Threads : pc[t] \in {"Critical", "UnlockSlow", "StoreTag"} => owner = t

\* A thread that LockSlowPath put to sleep is in the list of the thread that
\* will run UnlockSlowPath, and the waiters bit that makes that thread take the
\* slow path is set: no wake-up is lost between the tag and the waiter list.
NoLostWaiter ==
    \A t \in Threads : pc[t] = "Waiting" =>
        /\ Holder # None
        /\ \E i \in 1 .. Len(Queue) : Queue[i] = t
        /\ HolderBit = 1

\* A thread other threads wait for in the kernel is never suspended (the
\* "Ensure that we have no waiters" of TrySuspend).
KernelWaitersNotSuspended ==
    \A t \in Threads : NumKernelWaiters(t) > 0 => stateFlags[t] = {}

\* The lock implements the hand-off lock: one holder, priority order, nobody
\* overtaken or forgotten.
ImplementsHandoffLock == Abstract!Spec

\* A waiting thread of the highest priority in use is given the lock, even if
\* the owners before it are asked to suspend while they hold it.
WaiterGranted ==
    \A t \in Threads : (\A u \in Threads : Prio[t] <= Prio[u]) =>
        (pc[t] = "Waiting" ~> Holder = t)
-----------------------------------------------------------------------------
(***************************************************************************)
(* The inductive invariant behind LockedByCurrentThread, NoLostWaiter and  *)
(* the refinement.                                                         *)
(***************************************************************************)

\* The scheduler lock is held across steps only by the thread about to store.
SchedLockInv ==
    /\ \A t \in Threads : schedLock = t <=> pc[t] = "StoreTag"
    /\ schedLock = None => nextOwner = None /\ nextBit = 0

\* The low bit is never set on a null pointer.
TagInv ==
    /\ owner = None => waitBit = 0
    /\ nextOwner = None => nextBit = 0

\* The holder is exactly the thread that has the lock, or was given it.
HolderInv ==
    \A t \in Threads : Holder = t <=> pc[t] \in {"Critical", "UnlockSlow", "Woken"}

\* Only the holder has waiters, and then the waiters bit is set.
HeldInv ==
    \A o \in Threads : held[o] # <<>> =>
        /\ Holder = o
        /\ HolderBit = 1

\* The waiters of a thread are distinct and waiting.
QueueInv ==
    \A o \in Threads : \A i \in 1 .. Len(held[o]) :
        /\ held[o][i] \in Threads
        /\ pc[held[o][i]] = "Waiting"
        /\ \A j \in 1 .. Len(held[o]) : held[o][i] = held[o][j] => i = j

\* A thread never waits for itself.
SeenInv == \A t \in Threads : pc[t] = "LockSlow" => seen[t] \in Threads \ {t}

LockInv ==
    /\ LockedByCurrentThread
    /\ NoLostWaiter
    /\ SchedLockInv
    /\ TagInv
    /\ HolderInv
    /\ HeldInv
    /\ QueueInv
    /\ SeenInv

\* Only one kind of suspension is in use.
SingleSuspendType == \A a, b \in SuspendTypes : a = b

\* The suspend bits in the thread state are requested and allowed ones, and a
\* thread with kernel waiters has none.
SuspendInv ==
    /\ KernelWaitersNotSuspended
    /\ \A t \in Threads : stateFlags[t] \subseteq GetSuspendFlags(t)
=============================================================================
