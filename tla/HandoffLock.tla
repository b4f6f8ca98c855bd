---------------------------- MODULE HandoffLock ----------------------------
(***************************************************************************)
(* What a kernel light lock promises its callers: at most one holder, and  *)
(* a release that either frees the lock (nobody queued) or hands it, in    *)
(* the same step, to the highest-priority queued thread, oldest first      *)
(* among equals.  A thread that finds the lock taken queues up; nobody     *)
(* else leaves or joins the queue, so a queued thread is never forgotten.  *)
(*                                                                         *)
(* KLightLock implements this specification (KLightLock!Implements-        *)
(* HandoffLock).                                                           *)
(***************************************************************************)
EXTENDS Integers, Sequences

CONSTANTS
    Threads,    \* the threads that use the lock
    None,       \* "no thread" (nullptr)
    Prio        \* thread -> priority; a smaller number is a higher priority

VARIABLES
    holder,     \* the thread that holds the lock, or None
    queue       \* the threads queued for it, next one first

vars == <<holder, queue>>

\* The places where thread t may be inserted in the priority-ordered queue s:
\* after every thread of its own or a higher priority (one place if s is
\* ordered).
InsertionPoints(s, t) ==
    {n \in 0 .. Len(s) :
        /\ \A i \in 1 .. n : Prio[s[i]] <= Prio[t]
        /\ n < Len(s) => Prio[s[n + 1]] > Prio[t]}

\* s with t inserted after its first n elements.
InsertAfter(s, n, t) == SubSeq(s, 1, n) \o <<t>> \o SubSeq(s, n + 1, Len(s))

Init ==
    /\ holder = None
    /\ queue = <<>>

Acquire(t) ==
    /\ holder = None
    /\ holder' = t
    /\ UNCHANGED queue

Enqueue(t) ==
    /\ holder \notin {None, t}
    /\ \A i \in 1 .. Len(queue) : queue[i] # t
    /\ \E n \in InsertionPoints(queue, t) : queue' = InsertAfter(queue, n, t)
    /\ UNCHANGED holder

Release(t) ==
    /\ holder = t
    /\ queue = <<>>
    /\ holder' = None
    /\ UNCHANGED queue

Handoff(t) ==
    /\ holder = t
    /\ queue # <<>>
    /\ holder' = Head(queue)
    /\ queue' = Tail(queue)

Next == \E t \in Threads : Acquire(t) \/ Enqueue(t) \/ Release(t) \/ Handoff(t)

Spec == Init /\ [][Next]_vars
=============================================================================
