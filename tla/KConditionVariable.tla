------------------------- MODULE KConditionVariable -------------------------
(***************************************************************************)
(* User mutexes and condition variables (k_condition_variable.cpp) with    *)
(* the priority inheritance of KThread (k_thread.cpp).                     *)
(*                                                                         *)
(* A mutex is a word of guest memory: the owner's handle and a bit that    *)
(* says there are waiters.  Guest code takes and releases it with compare- *)
(* and-swap and calls the kernel when it finds it taken, or its waiters    *)
(* bit set.  The kernel keeps the waiters of a mutex under its owner       *)
(* thread, and the waiters of a condition variable in a tree of the        *)
(* process; a signaled thread moves from the one to the other while it     *)
(* sleeps.  A thread inherits the priority of its waiters, so every such   *)
(* change may run RestorePriority along the chain of owners.               *)
(*                                                                         *)
(* A kernel operation holds the scheduler lock from its first step to its  *)
(* last; op is the operation in progress and restoring the thread that     *)
(* RestorePriority has reached.  Guest code goes on at the same time.      *)
(***************************************************************************)
EXTENDS Integers, Sequences, FiniteSets, SequencesExt

CONSTANTS
    Threads,        \* KThread objects; a thread stands for its handle as well
    Addrs,          \* addresses of mutexes
    Keys,           \* addresses (keys) of condition variables
    None,           \* nullptr, InvalidHandle
    InitPrio,       \* thread -> its first base priority (smaller is higher)
    BasePrios,      \* the priorities SetBasePriority is called with,
    Adjustable,     \*     and the threads it is called on
    Mortal,         \* the threads that exit or are asked to terminate
    TermPrio        \* TerminatingThreadPriority

NoneAssumption == None \notin Threads \cup Addrs \cup Keys
PrioAssumption ==
    /\ BasePrios \subseteq Nat
    /\ InitPrio \in [Threads -> Nat]
    /\ TermPrio \in Nat
    /\ Adjustable \subseteq Threads /\ Mortal \subseteq Threads

Timeouts == {"Zero", "Finite", "Infinite"}
Results == {"Success", "TimedOut", "TerminationRequested", "InvalidState"}

VARIABLES
    memOwner,       \* memOwner[a]: the handle in the mutex word
    memWait,        \* memWait[a]: HandleWaitMask in the mutex word
    cvFlag,         \* cvFlag[k]: the has-waiter word at a condition variable
    base,           \* base[t]: m_base_priority
    prio,           \* prio[t]: m_priority
    held,           \* held[t][a]: waiters, in tree order, of the lock info for a
                    \*     in t's m_held_lock_info_list (<<>>: there is none)
    tree,           \* tree[k]: the waiters of key k in m_tree, in tree order
    wait,           \* wait[t]: the kind of t's m_wait_queue
    addrKey,        \* addrKey[t]: m_address_key, while t waits
    timers,         \* the threads registered in the hardware timer
    ownerRef,       \* ownerRef[t]: the owner t's WaitForAddress has a reference to
    result,         \* result[t]: m_wait_result
    op,             \* the kernel operation in progress
    restoring,      \* the thread RestorePriority looks at next, or None
    pc,             \* pc[t]: where the guest thread is
    want,           \* want[t]: the mutex it is locking
    seen,           \* seen[t]: the owner it found there
    holds,          \* holds[t]: the mutexes it believes it holds
    termRequested   \* the threads with m_termination_requested

memVars == <<memOwner, memWait, cvFlag>>
prioVars == <<base, prio>>
waitVars == <<held, tree, wait, addrKey, timers, ownerRef, result>>
guestVars == <<pc, want, seen, holds>>
vars == <<memVars, prioVars, waitVars, op, restoring, guestVars, termRequested>>

Idle == [kind |-> "Idle", thread |-> None, addr |-> None, key |-> None,
         next |-> None, more |-> 0, timeout |-> "Infinite", left |-> 0, it |-> None]

TypeOK ==
    /\ memOwner \in [Addrs -> Threads \cup {None}]
    /\ memWait \in [Addrs -> {0, 1}]
    /\ cvFlag \in [Keys -> {0, 1}]
    /\ base \in [Threads -> Nat]
    /\ prio \in [Threads -> Nat]
    /\ held \in [Threads -> [Addrs -> Seq(Threads)]]
    /\ tree \in [Keys -> Seq(Threads)]
    /\ wait \in [Threads -> {"None", "Address", "CondVar"}]
    /\ addrKey \in [Threads -> Addrs \cup {None}]
    /\ timers \subseteq Threads
    /\ ownerRef \in [Threads -> Threads \cup {None}]
    /\ result \in [Threads -> Results]
    /\ op \in [kind : {"Idle", "Unlock", "CvWait", "Signal", "Terminate"},
               thread : Threads \cup {None}, addr : Addrs \cup {None}, key : Keys \cup {None},
               next : Threads \cup {None}, more : {0, 1}, timeout : Timeouts, left : Int,
               it : Threads \cup {None}]
    /\ restoring \in Threads \cup {None}
    /\ pc \in [Threads -> {"User", "Locking", "Arbitrate", "Kernel", "Exited", "Finalized"}]
    /\ want \in [Threads -> Addrs \cup {None}]
    /\ seen \in [Threads -> Threads \cup {None}]
    /\ holds \in [Threads -> SUBSET Addrs]
    /\ termRequested \subseteq Threads

Init ==
    /\ memOwner = [a \in Addrs |-> None]
    /\ memWait = [a \in Addrs |-> 0]
    /\ cvFlag = [k \in Keys |-> 0]
    /\ base = InitPrio
    /\ prio = InitPrio
    /\ held = [t \in Threads |-> [a \in Addrs |-> <<>>]]
    /\ tree = [k \in Keys |-> <<>>]
    /\ wait = [t \in Threads |-> "None"]
    /\ addrKey = [t \in Threads |-> None]
    /\ timers = {}
    /\ ownerRef = [t \in Threads |-> None]
    /\ result = [t \in Threads |-> "Success"]
    /\ op = Idle
    /\ restoring = None
    /\ pc = [t \in Threads |-> "User"]
    /\ want = [t \in Threads |-> None]
    /\ seen = [t \in Threads |-> None]
    /\ holds = [t \in Threads |-> {}]
    /\ termRequested = {}

\* Nobody is inside the scheduler lock.
Unlocked == op = Idle /\ restoring = None
-----------------------------------------------------------------------------
(***************************************************************************)
(* Waiters and inheritance.                                                *)
(***************************************************************************)

\* Insertion in a tree ordered by priority p: behind the equals.
Insert(s, t, p) ==
    LET after == SelectInSeq(s, LAMBDA u : p[u] > p[t])
    IN  InsertAt(s, IF after = 0 THEN Len(s) + 1 ELSE after, t)

\* KThread::GetLockOwner.
LockOwner(t) ==
    IF \E o \in Threads, a \in Addrs : t \in ToSet(held[o][a])
    THEN CHOOSE o \in Threads : \E a \in Addrs : t \in ToSet(held[o][a])
    ELSE None

\* AddWaiter: t waits for mutex a of thread o; o may have to inherit.
AddWaiter(o, t, a) ==
    /\ held' = [held EXCEPT ![o][a] = Insert(@, t, prio)]
    /\ restoring' = IF prio[t] < prio[o] THEN o ELSE None

\* RemoveWaiter: a waiter that gives up; its owner may have to stop inheriting.
RemoveWaiter(o, t) ==
    /\ held' = [held EXCEPT ![o][addrKey[t]] = RemoveFirst(@, t)]
    /\ restoring' = IF prio[o] = prio[t] /\ prio[o] < base[o] THEN o ELSE None

\* RemoveUserWaiterByKey: the first waiter of t's lock info for a becomes the
\* owner of the info, with the other waiters.
RemoveWaiterByKey(t, a) ==
    IF held[t][a] = <<>>
    THEN UNCHANGED <<held, restoring>>
    ELSE LET next == Head(held[t][a])
         IN  /\ held' = [held EXCEPT ![t][a] = <<>>, ![next][a] = Tail(held[t][a])]
             /\ restoring' = IF prio[t] = prio[next] /\ prio[t] < base[t] THEN t ELSE None

\* The next owner and the has_waiters flag that RemoveUserWaiterByKey returns.
NextOwner(t, a) == IF held[t][a] = <<>> THEN None ELSE Head(held[t][a])
HasWaiters(t, a) == IF Len(held[t][a]) > 1 THEN 1 ELSE 0

\* The priority RestorePriority wants to give t.
InheritedPriority(t) ==
    Min({base[t]} \cup {prio[Head(held[t][a])] : a \in {b \in Addrs : held[t][b] # <<>>}})

\* Mutant: only the first owner of the chain inherits.
RestoreOnce ==
    /\ restoring # None
    /\ LET t == restoring
           o == LockOwner(t)
           new == [prio EXCEPT ![t] = InheritedPriority(t)]
       IN  /\ prio' = new
           /\ restoring' = None
           /\ held' = IF o = None THEN held
                      ELSE [held EXCEPT ![o][addrKey[t]] = Insert(RemoveFirst(@, t), t, new)]
           /\ tree' = [k \in Keys |-> IF t \in ToSet(tree[k])
                                      THEN Insert(RemoveFirst(tree[k], t), t, new) ELSE tree[k]]
    /\ UNCHANGED <<memVars, base, wait, addrKey, timers, ownerRef, result, op,
                   guestVars, termRequested>>

\* Mutant: no end at a thread whose priority is right already.
RestoreToTheEnd ==
    /\ restoring # None
    /\ LET t == restoring
           o == LockOwner(t)
           new == [prio EXCEPT ![t] = InheritedPriority(t)]
       IN  /\ prio' = new
           /\ restoring' = o
           /\ held' = IF o = None THEN held
                      ELSE [held EXCEPT ![o][addrKey[t]] = Insert(RemoveFirst(@, t), t, new)]
    /\ UNCHANGED tree
    /\ UNCHANGED <<memVars, base, wait, addrKey, timers, ownerRef, result, op,
                   guestVars, termRequested>>

\* One round of RestorePriority's loop: t is taken out of the trees ordered by
\* priority while its priority changes, and then its lock owner is looked at.  In the
\* tree of a condition variable it may get ahead of the iterator of Signal.
RestorePriority ==
    /\ restoring # None
    /\ LET t == restoring
           o == LockOwner(t)
           new == [prio EXCEPT ![t] = InheritedPriority(t)]
       IN  IF new = prio
           THEN /\ restoring' = None
                /\ UNCHANGED <<prio, held, tree>>
           ELSE /\ prio' = new
                /\ restoring' = o
                /\ held' = IF o = None THEN held
                           ELSE [held EXCEPT ![o][addrKey[t]] = Insert(RemoveFirst(@, t), t, new)]
                /\ tree' = [k \in Keys |-> IF t \in ToSet(tree[k])
                                           THEN Insert(RemoveFirst(tree[k], t), t, new)
                                           ELSE tree[k]]
    /\ UNCHANGED <<memVars, base, wait, addrKey, timers, ownerRef, result, op,
                   guestVars, termRequested>>

\* KThreadQueue::EndWait and CancelWait: the threads run again; their time-outs
\* are cancelled (or have just fired).
EndWait(ts, res) ==
    /\ wait' = [t \in Threads |-> IF t \in ts THEN "None" ELSE wait[t]]
    /\ result' = [t \in Threads |-> IF t \in ts THEN res ELSE result[t]]
    /\ timers' = timers \ ts

\* CancelWait of both wait queues.  (The one of WaitForAddress does not expect a
\* thread without a lock owner: see CancelFindsOwner.)
CancelWait(t, res) ==
    /\ IF LockOwner(t) # None
       THEN RemoveWaiter(LockOwner(t), t)
       ELSE UNCHANGED <<held, restoring>>
    /\ tree' = [k \in Keys |-> RemoveFirst(tree[k], t)]
    /\ EndWait({t}, res)
    /\ UNCHANGED <<addrKey, ownerRef>>
-----------------------------------------------------------------------------
(***************************************************************************)
(* Guest code: the mutex as the kernel interface expects it to be used.    *)
(***************************************************************************)

GuestLock(t, a) ==
    /\ pc[t] = "User"
    /\ a \notin holds[t]
    /\ pc' = [pc EXCEPT ![t] = "Locking"]
    /\ want' = [want EXCEPT ![t] = a]
    /\ UNCHANGED <<memVars, prioVars, waitVars, op, restoring, seen, holds, termRequested>>

\* One compare-and-swap: take a free mutex; find it handed over; or set the
\* waiters bit and ask the kernel.
GuestLockCas(t) ==
    LET a == want[t]
    IN  /\ pc[t] = "Locking"
        /\ IF memOwner[a] \in {None, t}
           THEN /\ memOwner' = [memOwner EXCEPT ![a] = t]
                /\ holds' = [holds EXCEPT ![t] = @ \cup {a}]
                /\ want' = [want EXCEPT ![t] = None]
                /\ pc' = [pc EXCEPT ![t] = "User"]
                /\ UNCHANGED <<memWait, seen>>
           ELSE /\ memWait' = [memWait EXCEPT ![a] = 1]
                /\ seen' = [seen EXCEPT ![t] = memOwner[a]]
                /\ pc' = [pc EXCEPT ![t] = "Arbitrate"]
                /\ UNCHANGED <<memOwner, holds, want>>
        /\ UNCHANGED <<cvFlag, prioVars, waitVars, op, restoring, termRequested>>

\* Release by compare-and-swap when the waiters bit is not set.
GuestUnlock(t, a) ==
    /\ pc[t] = "User"
    /\ a \in holds[t]
    /\ memOwner[a] = t /\ memWait[a] = 0
    /\ memOwner' = [memOwner EXCEPT ![a] = None]
    /\ holds' = [holds EXCEPT ![t] = @ \ {a}]
    /\ UNCHANGED <<memWait, cvFlag, prioVars, waitVars, op, restoring, pc, want, seen,
                   termRequested>>
-----------------------------------------------------------------------------
(***************************************************************************)
(* The system calls.                                                       *)
(***************************************************************************)

\* svcArbitrateLock: back to guest code unless the mutex still has the owner that
\* was seen there, and that owner still exists.
WaitForAddress(t) ==
    LET a == want[t]
        o == seen[t]
    IN  /\ pc[t] = "Arbitrate"
        /\ Unlocked
        /\ IF t \notin termRequested /\ memOwner[a] = o /\ memWait[a] = 1 /\ pc[o] # "Finalized"
           THEN /\ addrKey' = [addrKey EXCEPT ![t] = a]
                /\ AddWaiter(o, t, a)
                /\ wait' = [wait EXCEPT ![t] = "Address"]
                /\ ownerRef' = [ownerRef EXCEPT ![t] = o]
                /\ pc' = [pc EXCEPT ![t] = "Kernel"]
           ELSE /\ pc' = [pc EXCEPT ![t] = "Locking"]
                /\ UNCHANGED <<addrKey, held, restoring, wait, ownerRef>>
        /\ seen' = [seen EXCEPT ![t] = None]
        /\ UNCHANGED <<memVars, prioVars, tree, timers, result, op, want, holds, termRequested>>

\* svcArbitrateUnlock, up to the write of the new mutex word.
SignalToAddress(t, a) ==
    /\ pc[t] = "User"
    /\ a \in holds[t]
    /\ memWait[a] = 1
    /\ Unlocked
    /\ RemoveWaiterByKey(t, a)
    /\ op' = [Idle EXCEPT !.kind = "Unlock", !.thread = t, !.addr = a,
                          !.next = NextOwner(t, a), !.more = HasWaiters(t, a)]
    /\ holds' = [holds EXCEPT ![t] = @ \ {a}]
    /\ pc' = [pc EXCEPT ![t] = "Kernel"]
    /\ UNCHANGED <<memVars, prioVars, tree, wait, addrKey, timers, ownerRef, result,
                   want, seen, termRequested>>

\* Mutant: the word is cleared although the next owner is woken with success.
SignalToAddressClears ==
    /\ op.kind = "Unlock"
    /\ restoring = None
    /\ memOwner' = [memOwner EXCEPT ![op.addr] = None]
    /\ memWait' = [memWait EXCEPT ![op.addr] = 0]
    /\ EndWait({op.next}, "Success")
    /\ pc' = [pc EXCEPT ![op.thread] = "User"]
    /\ op' = Idle
    /\ UNCHANGED <<cvFlag, prioVars, held, tree, addrKey, ownerRef, restoring, want, seen,
                   holds, termRequested>>

SignalToAddressWrite ==
    /\ op.kind = "Unlock"
    /\ restoring = None
    /\ memOwner' = [memOwner EXCEPT ![op.addr] = op.next]
    /\ memWait' = [memWait EXCEPT ![op.addr] = op.more]
    /\ EndWait({op.next}, "Success")
    /\ pc' = [pc EXCEPT ![op.thread] = "User"]
    /\ op' = Idle
    /\ UNCHANGED <<cvFlag, prioVars, held, tree, addrKey, ownerRef, restoring, want, seen,
                   holds, termRequested>>

\* svcWaitProcessWideKeyAtomic: the mutex is passed on as in SignalToAddress...
Wait(t, a, k, timeout) ==
    /\ pc[t] = "User"
    /\ a \in holds[t]
    /\ Unlocked
    /\ t \notin termRequested
    /\ RemoveWaiterByKey(t, a)
    /\ op' = [Idle EXCEPT !.kind = "CvWait", !.thread = t, !.addr = a, !.key = k,
                          !.timeout = timeout,
                          !.next = NextOwner(t, a), !.more = HasWaiters(t, a)]
    /\ holds' = [holds EXCEPT ![t] = @ \ {a}]
    /\ pc' = [pc EXCEPT ![t] = "Kernel"]
    /\ UNCHANGED <<memVars, prioVars, tree, wait, addrKey, timers, ownerRef, result,
                   want, seen, termRequested>>

\* ...and the thread enters the tree, unless the time-out is zero.
WaitSleep ==
    LET t == op.thread
        sleeps == op.timeout # "Zero"
    IN  /\ op.kind = "CvWait"
        /\ restoring = None
        /\ memOwner' = [memOwner EXCEPT ![op.addr] = op.next]
        /\ memWait' = [memWait EXCEPT ![op.addr] = op.more]
        /\ cvFlag' = [cvFlag EXCEPT ![op.key] = 1]
        /\ IF sleeps
           THEN /\ tree' = [tree EXCEPT ![op.key] = Insert(@, t, prio)]
                /\ addrKey' = [addrKey EXCEPT ![t] = op.addr]
                /\ UNCHANGED <<pc, want>>
           ELSE /\ pc' = [pc EXCEPT ![t] = "Locking"]
                /\ want' = [want EXCEPT ![t] = op.addr]
                /\ UNCHANGED <<tree, addrKey>>
        /\ wait' = [u \in Threads |-> IF u = op.next THEN "None"
                                      ELSE IF u = t /\ sleeps THEN "CondVar" ELSE wait[u]]
        /\ result' = [u \in Threads |-> IF u = op.next THEN "Success" ELSE result[u]]
        /\ timers' = (timers \ {op.next}) \cup (IF op.timeout = "Finite" THEN {t} ELSE {})
        /\ op' = Idle
        /\ UNCHANGED <<prioVars, held, ownerRef, restoring, seen, holds, termRequested>>

\* The thread behind t in a tree, which erase returns: None if it is of another key or
\* there is none.
Successor(s, t) ==
    LET Behind(i) == i > 1 /\ s[i - 1] = t
    IN  IF \E i \in DOMAIN s : Behind(i) THEN s[CHOOSE i \in DOMAIN s : Behind(i)] ELSE None

\* svcSignalProcessWideKey: count <= 0 signals all waiters.  The iterator starts at the
\* first waiter of the key.
Signal(k, count) ==
    /\ Unlocked
    /\ op' = [Idle EXCEPT !.kind = "Signal", !.key = k, !.left = count,
                          !.it = IF tree[k] = <<>> THEN None ELSE Head(tree[k])]
    /\ UNCHANGED <<memVars, prioVars, waitVars, restoring, guestVars, termRequested>>

\* One turn of Signal's loop and SignalImpl: the iterator moves on and the waiter it was
\* at leaves the tree; it gets the mutex if it is free, or waits for its owner (or fails
\* if there is no such thread any more).  The owner's priority may rise then, and it may
\* be a waiter of this key itself.
SignalImpl ==
    LET k == op.key
        t == op.it
        a == addrKey[t]
        o == memOwner[a]
    IN  /\ op.kind = "Signal"
        /\ restoring = None
        /\ t # None /\ op.left # 0
        /\ tree' = [tree EXCEPT ![k] = RemoveFirst(@, t)]
        /\ op' = [op EXCEPT !.left = @ - 1, !.it = Successor(tree[k], t)]
        /\ IF o = None
           THEN /\ memOwner' = [memOwner EXCEPT ![a] = t]
                /\ EndWait({t}, "Success")
                /\ UNCHANGED <<memWait, held, restoring>>
           ELSE /\ memWait' = [memWait EXCEPT ![a] = 1]
                /\ IF pc[o] # "Finalized"
                   THEN /\ AddWaiter(o, t, a)
                        /\ UNCHANGED <<wait, result, timers>>
                   ELSE /\ EndWait({t}, "InvalidState")
                        /\ UNCHANGED <<held, restoring>>
                /\ UNCHANGED memOwner
        /\ UNCHANGED <<cvFlag, prioVars, addrKey, ownerRef, guestVars, termRequested>>

\* The has-waiter word is cleared if the iterator has come to the end of the key.
SignalEnd ==
    /\ op.kind = "Signal"
    /\ restoring = None
    /\ op.it = None \/ op.left = 0
    /\ cvFlag' = IF op.it = None THEN [cvFlag EXCEPT ![op.key] = 0] ELSE cvFlag
    /\ op' = Idle
    /\ UNCHANGED <<memOwner, memWait, prioVars, waitVars, restoring, guestVars, termRequested>>

\* The thread runs again and leaves the kernel.  A successful condition variable
\* wait returns with the mutex; otherwise guest code locks it (again).
Return(t) ==
    /\ pc[t] = "Kernel"
    /\ wait[t] = "None"
    /\ Unlocked
    /\ IF ownerRef[t] = None /\ result[t] \in {"Success", "InvalidState"}
       THEN /\ holds' = IF result[t] = "Success"
                        THEN [holds EXCEPT ![t] = @ \cup {addrKey[t]}] ELSE holds
            /\ want' = [want EXCEPT ![t] = None]
            /\ pc' = [pc EXCEPT ![t] = "User"]
       ELSE /\ want' = [want EXCEPT ![t] = addrKey[t]]
            /\ pc' = [pc EXCEPT ![t] = "Locking"]
            /\ UNCHANGED holds
    /\ ownerRef' = [ownerRef EXCEPT ![t] = None]
    /\ addrKey' = [addrKey EXCEPT ![t] = None]
    /\ result' = [result EXCEPT ![t] = "Success"]
    /\ UNCHANGED <<memVars, prioVars, held, tree, wait, timers, op, restoring, seen,
                   termRequested>>
-----------------------------------------------------------------------------
(***************************************************************************)
(* Time-outs, priority changes, and the end of a thread.                   *)
(***************************************************************************)

OnTimer(t) ==
    /\ t \in timers
    /\ Unlocked
    /\ CancelWait(t, "TimedOut")
    /\ UNCHANGED <<memVars, prioVars, op, guestVars, termRequested>>

SetBasePriority(t, p) ==
    /\ Unlocked
    /\ pc[t] # "Finalized"
    /\ base' = [base EXCEPT ![t] = p]
    /\ restoring' = t
    /\ UNCHANGED <<memVars, prio, waitVars, op, guestVars, termRequested>>

\* RequestTerminate: the priority first, then the wait.
RequestTerminate(t) ==
    /\ Unlocked
    /\ t \notin termRequested
    /\ pc[t] # "Finalized"
    /\ termRequested' = termRequested \cup {t}
    /\ IF base[t] > TermPrio
       THEN base' = [base EXCEPT ![t] = TermPrio] /\ restoring' = t
       ELSE UNCHANGED <<base, restoring>>
    /\ op' = [Idle EXCEPT !.kind = "Terminate", !.thread = t]
    /\ UNCHANGED <<memVars, prio, waitVars, guestVars>>

RequestTerminateCancel ==
    /\ op.kind = "Terminate"
    /\ restoring = None
    /\ IF wait[op.thread] # "None"
       THEN CancelWait(op.thread, "TerminationRequested")
       ELSE UNCHANGED <<waitVars, restoring>>
    /\ op' = Idle
    /\ UNCHANGED <<memVars, prioVars, guestVars, termRequested>>

\* A thread exits by itself or, if it must terminate, on its way back to guest
\* code; the mutexes it holds stay locked.
Exit(t) ==
    /\ pc[t] = "User" \/ (pc[t] = "Locking" /\ t \in termRequested)
    /\ Unlocked
    /\ pc' = [pc EXCEPT ![t] = "Exited"]
    /\ want' = [want EXCEPT ![t] = None]
    /\ UNCHANGED <<memVars, prioVars, waitVars, op, restoring, seen, holds, termRequested>>

\* The last reference to a dead thread is closed: its waiters are taken from its
\* lock infos and their waits cancelled.  There is no next state if one of them
\* sleeps in WaitForAddress: its CancelWait goes through a null pointer.
Finalize(t) ==
    LET waiters == {u \in Threads : LockOwner(u) = t}
    IN  /\ pc[t] = "Exited"
        /\ Unlocked
        /\ \A u \in Threads : ownerRef[u] # t
        /\ \A u \in waiters : wait[u] = "CondVar"
        /\ pc' = [pc EXCEPT ![t] = "Finalized"]
        /\ held' = [held EXCEPT ![t] = [a \in Addrs |-> <<>>]]
        /\ EndWait(waiters, "InvalidState")
        /\ UNCHANGED <<memVars, prioVars, tree, addrKey, ownerRef, op, restoring, want, seen,
                       holds, termRequested>>
-----------------------------------------------------------------------------
GuestStep(t, addrs) ==
    \/ GuestLockCas(t)
    \/ \E a \in addrs : GuestLock(t, a) \/ GuestUnlock(t, a)

KernelStep ==
    \/ RestorePriority
    \/ SignalToAddressWrite
    \/ WaitSleep
    \/ SignalImpl
    \/ SignalEnd
    \/ RequestTerminateCancel

SystemCall(t, addrs, keys) ==
    \/ WaitForAddress(t)
    \/ \E a \in addrs : SignalToAddress(t, a)
    \/ \E a \in addrs, k \in keys, timeout \in Timeouts : Wait(t, a, k, timeout)
    \/ Return(t)

\* The steps of a program with these mutexes and condition variables, whose threads
\* `mortal' end and whose threads `adjustable' get the base priorities `prios'.
Steps(addrs, keys, mortal, adjustable, prios) ==
    \/ KernelStep
    \/ \E t \in Threads : \/ GuestStep(t, addrs)
                          \/ SystemCall(t, addrs, keys)
                          \/ OnTimer(t)
    \/ \E t \in mortal : RequestTerminate(t) \/ Exit(t) \/ Finalize(t)
    \/ \E t \in adjustable, p \in prios : SetBasePriority(t, p)
    \/ \E k \in keys, count \in {-1, 1} : Signal(k, count)

Next == Steps(Addrs, Keys, Mortal, Adjustable, BasePrios)

Spec == Init /\ [][Next]_vars
-----------------------------------------------------------------------------
\* Whenever no kernel operation is under way, a thread has exactly the priority
\* its own and its waiters' priorities give it, along chains of mutexes and
\* through time-outs, signals, priority changes and terminations: RestorePriority
\* never stops too early, and nobody skips it.
PriorityInherited ==
    Unlocked => \A t \in Threads : pc[t] # "Finalized" => prio[t] = InheritedPriority(t)

\* Each tree of waiters is ordered by priority at all times: no thread's priority
\* changes while it is in a tree (RestorePriority's "prevent violating red black
\* tree invariants").
TreesOrdered ==
    LET Ordered(s) == \A i, j \in DOMAIN s : i < j => prio[s[i]] <= prio[s[j]]
    IN  /\ \A t \in Threads, a \in Addrs : Ordered(held[t][a])
        /\ \A k \in Keys : Ordered(tree[k])

\* The tree node of a thread, which condition variables and lock infos share, is
\* in exactly one tree while the thread waits, and in none otherwise.
OneTreeNode ==
    Unlocked => \A t \in Threads :
        LET locks == {oa \in Threads \X Addrs : t \in ToSet(held[oa[1]][oa[2]])}
            keys == {k \in Keys : t \in ToSet(tree[k])}
        IN  /\ Cardinality(locks) + Cardinality(keys) = IF wait[t] = "None" THEN 0 ELSE 1
            /\ wait[t] = "Address" => keys = {}
            /\ \A oa \in locks : oa[2] = addrKey[t]

\* The waiters the kernel keeps under a thread are waiters of a mutex whose word
\* names that thread and has the waiters bit: the owner's unlock will come to the
\* kernel and find them, whatever guest code does to the word meanwhile.
WaitersMatchWord ==
    Unlocked => \A o \in Threads, a \in Addrs :
        held[o][a] # <<>> => memOwner[a] = o /\ memWait[a] = 1

\* A wait that ends in success ends with the mutex, and a thread that believes it
\* holds a mutex is the one its word names: two threads never hold it together.
MutexOwned ==
    /\ \A t \in Threads, a \in Addrs : a \in holds[t] => memOwner[a] = t
    /\ Unlocked => \A t \in Threads :
          pc[t] = "Kernel" /\ wait[t] = "None" /\ result[t] = "Success" =>
              memOwner[addrKey[t]] = t

\* The has-waiter word guest code tests before it calls Signal is set while a thread
\* waits for the condition variable that owns no mutex.  One that owns a mutex may inherit
\* a priority in a Signal, get ahead of its iterator and be left in the tree by it.
WaiterFlagSet ==
    \A k \in Keys : \A t \in ToSet(tree[k]) :
        (\A a \in Addrs : memOwner[a] # t) => cvFlag[k] = 1

\* The same of every waiter ("If we have no waiters, clear the has waiter flag"): refuted
\* with two mutexes and a condition variable.
FlagTellsWaiters == \A k \in Keys : tree[k] # <<>> => cvFlag[k] = 1

\* RestorePriority ends, also when threads wait for each other in a circle.
RestoreEnds == restoring # None ~> restoring = None

\* CancelWait of WaitForAddress removes the thread "as a waiter from its owner": a
\* thread that Finalize cancels has an owner.
CancelFindsOwner ==
    \A t, u \in Threads :
        pc[t] = "Exited" /\ (\A v \in Threads : ownerRef[v] # t) /\ LockOwner(u) = t =>
            wait[u] = "CondVar"
=============================================================================
