---------------------------- MODULE MCUserLocks ----------------------------
(***************************************************************************)
(* The locks of user programs: mutexes and condition variables             *)
(* (KConditionVariable), once with one mutex and a condition variable,     *)
(* once with two mutexes that can wait in a circle, and once with two      *)
(* mutexes and a condition variable that both are used with, the address   *)
(* arbiter (KAddressArbiter), and the tick that the calls make of a        *)
(* time-out (SvcTimeout).  They share no state and are explored one at a   *)
(* time: `explored' names the one that takes steps.                        *)
(***************************************************************************)
EXTENDS KAddressArbiter, TLC

CONSTANTS
    None,           \* nullptr, InvalidHandle
    LockThreads, Addrs, Keys, InitPrio, BasePrios, Adjustable, Mortal, TermPrio,
    MaxTick, MaxNow

VARIABLES explored,
    memOwner, memWait, cvFlag, base, prio, held, mutexTree, wait, addrKey, mutexTimers, ownerRef,
    result, op, restoring, pc, want, seen, holds, termRequested,
    now, call, asked, since, deadline

mutexVars == <<memOwner, memWait, cvFlag, base, prio, held, mutexTree, wait, addrKey, mutexTimers,
               ownerRef, result, op, restoring, pc, want, seen, holds, termRequested>>
svcVars == <<now, call, asked, since, deadline>>
allVars == <<explored, vars, mutexVars, svcVars>>

Locks == INSTANCE KConditionVariable WITH
    Threads <- LockThreads, tree <- mutexTree, timers <- mutexTimers

\* Three threads of three priorities.
ThreePrios == "t1" :> 1 @@ "t2" :> 2 @@ "t3" :> 3

\* One mutex and one condition variable; the least urgent thread is raised to the
\* top, and the others may exit.
MutexSteps == Locks!Steps({"a1"} \cap Addrs, Keys, Mortal, Adjustable \ {"t1"}, {1} \cap BasePrios)

\* Two mutexes, so that priorities pass along chains of owners and around circles.
ChainSteps == Locks!Steps(Addrs, {}, Mortal \ {"t1"}, Adjustable \ {"t3"}, BasePrios)

\* Two mutexes and a condition variable, so that a waiter of the condition variable may own
\* the mutex that another waiter of it is to get: waits without a time-out and broadcasts.
WalkSteps ==
    \/ Locks!KernelStep
    \/ \E t \in LockThreads :
          \/ Locks!GuestStep(t, Addrs) \/ Locks!WaitForAddress(t) \/ Locks!Return(t)
          \/ \E a \in Addrs : Locks!SignalToAddress(t, a)
          \/ \E a \in Addrs, k \in Keys : Locks!Wait(t, a, k, "Infinite")
    \/ \E k \in Keys : Locks!Signal(k, -1)

\* Three threads of two priorities on one word of two bits; counts up to one less
\* than the threads, so that waiters are left behind.
SomeCounts == {-1, 1, 2}

\* Ticks of five bits, and a clock that gets far enough for a sum to overflow.
Svc == INSTANCE SvcTimeout WITH pc <- call

ASSUME Locks!NoneAssumption /\ Locks!PrioAssumption
ASSUME AddressesAssumption /\ LimitAssumption /\ CountsAssumption /\ PrioritiesAssumption
ASSUME Svc!MaxTickAssumption

LocksInit ==
    /\ explored \in {"Mutex", "Chain", "Walk", "Arbiter", "Svc"}
    /\ Locks!Init /\ Svc!Init
    /\ Init /\ (explored # "Arbiter" => priority = [t \in Threads |-> 1])

LocksNext ==
    /\ UNCHANGED explored
    /\ \/ explored = "Mutex" /\ MutexSteps /\ UNCHANGED <<vars, svcVars>>
       \/ explored = "Chain" /\ ChainSteps /\ UNCHANGED <<vars, svcVars>>
       \/ explored = "Walk" /\ WalkSteps /\ UNCHANGED <<vars, svcVars>>
       \/ explored = "Arbiter" /\ Next /\ UNCHANGED <<mutexVars, svcVars>>
       \/ explored = "Svc" /\ Svc!Next /\ UNCHANGED <<vars, mutexVars>>

\* The holder of the scheduler lock keeps running.
Fairness ==
    WF_allVars(explored = "Chain" /\ Locks!KernelStep /\ UNCHANGED <<explored, vars, svcVars>>)

LocksSpec == LocksInit /\ [][LocksNext]_allVars /\ Fairness
-----------------------------------------------------------------------------
\* Priority inheritance: whenever no kernel operation is under way each thread has
\* exactly the priority its own and its waiters' give it, and the trees of waiters
\* are ordered at all times, through chains, time-outs, signals, changes of
\* priority and terminations.
PriorityInherited == Locks!PriorityInherited /\ Locks!TreesOrdered

\* The hand-over of a mutex: kernel waiters are under the thread the word names
\* with the waiters bit set, each in one tree; a thread that believes it holds a
\* mutex is the one its word names; and the has-waiter word of a condition
\* variable is set while a thread waits for it that owns no mutex.
MutexHandover ==
    /\ Locks!TypeOK
    /\ Locks!WaitersMatchWord
    /\ Locks!OneTreeNode
    /\ Locks!MutexOwned
    /\ Locks!WaiterFlagSet

\* RestorePriority ends, also when threads wait for each other in a circle.
RestoreEnds == explored = "Chain" => Locks!RestoreEnds

\* A time-out is never cut short by the overflow of the tick, and a wait without
\* an end was asked for or is longer than the clock lasts.
DeadlineHonoured == Svc!TypeOK /\ Svc!NeverEarly /\ Svc!EndlessIsLong

\* CancelWait of WaitForAddress removes the thread "as a waiter from its owner": a
\* thread that Finalize cancels has an owner.
CancelFindsOwner == explored = "Mutex" => Locks!CancelFindsOwner
=============================================================================
