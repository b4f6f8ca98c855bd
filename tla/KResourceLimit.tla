--------------------------- MODULE KResourceLimit ---------------------------
(***************************************************************************)
(* A resource limit: reservations that wait on a light condition variable  *)
(* for what others release, and the two-phase release of threads, whose    *)
(* hint is given back when they exit and whose count when they are         *)
(* destroyed.  One resource is modelled.  Sections under the light lock    *)
(* m_lock are one step up to a wait: others touch nothing of them but the  *)
(* waiters that a time-out or a termination takes out.                     *)
(*                                                                         *)
(* The lock excludes others as KLightLock has it: until a termination      *)
(* request wakes a thread that sleeps for the lock, and Lock returns to    *)
(* it although another is inside.  `intruded' says that this has happened, *)
(* and the model ends there: how two sections race is not followed.        *)
(***************************************************************************)
EXTENDS Integers, FiniteSets, FiniteSetsExt, Functions

CONSTANTS
    Threads,
    None,           \* no thread
    Width,          \* bits of a value (64 in the code)
    Values,         \* amounts that are reserved
    Limits,         \* limits that are set
    Mortal,         \* threads that are asked to terminate: a bound of the model
    Timeout,        \* ticks until a reservation gives up
    MaxTime         \* the last tick: a bound of the model

NoneAssumption == None \notin Threads
MortalAssumption == Mortal \subseteq Threads
WidthAssumption == Width \in Nat \ {0}
ValuesAssumption == Values \cup Limits \subseteq 1 .. 2 ^ (Width - 1) - 1
TimeAssumption == Timeout \in Nat \ {0} /\ MaxTime \in Nat

VARIABLES
    current, hints, limit, peak,    \* the four values of the resource
    waiters,        \* m_waiter_count
    lock,           \* the holder of m_lock
    list,           \* m_wait_list of the condition variable
    late,           \* those of the list that slept when the limit was raised
    pc, value,      \* place and argument of a call
    deadline,       \* its time-out
    terminating,    \* threads with m_termination_requested
    held, exited,   \* what a thread has reserved; the part whose hint was given back
    now,            \* the hardware timer's tick
    intruded        \* a thread is in the lock that does not own it

limitVars == <<current, hints, limit, peak>>
vars == <<limitVars, waiters, lock, list, late, pc, value, deadline, terminating, held, exited,
          now, intruded>>

TypeOK ==
    /\ current \in Nat /\ hints \in Nat /\ limit \in Limits /\ peak \in 0 .. 2 ^ (Width - 1) - 1
    /\ waiters \in 0 .. Cardinality(Threads)
    /\ lock \in Threads \cup {None}
    /\ list \subseteq Threads /\ late \subseteq list
    /\ pc \in [Threads -> {"Idle", "Lock", "Loop", "Sleep", "Waiting", "Relock"}]
    /\ value \in [Threads -> Values \cup {0}]
    /\ deadline \in [Threads -> 0 .. MaxTime]
    /\ terminating \subseteq Threads
    /\ held \in [Threads -> Nat] /\ exited \in [Threads -> Nat]
    /\ now \in 0 .. MaxTime
    /\ intruded \in BOOLEAN

Init ==
    /\ current = 0 /\ hints = 0 /\ peak = 0 /\ limit \in Limits
    /\ waiters = 0 /\ lock = None /\ list = {} /\ late = {}
    /\ pc = [t \in Threads |-> "Idle"]
    /\ value = [t \in Threads |-> 0] /\ deadline = [t \in Threads |-> 0]
    /\ terminating = {}
    /\ held = [t \in Threads |-> 0] /\ exited = [t \in Threads |-> 0]
    /\ now = 0 /\ intruded = FALSE
-----------------------------------------------------------------------------
(***************************************************************************)
(* Reserve.                                                                *)
(***************************************************************************)

\* Common::WrappingAdd.
WrappingAdd(a, b) ==
    LET half == 2 ^ (Width - 1) IN ((a + b + half) % (2 * half)) - half

\* The sum wraps (or nothing is asked for).
Overflows(v) == WrappingAdd(current, v) <= current

Fits(v) == WrappingAdd(current, v) <= limit

\* It would fit once those that have exited are destroyed.
MayFit(v) == hints + v <= limit

InTime(t) == now < deadline[t]

\* The call ends.
Return(t) ==
    /\ lock' = None
    /\ pc' = [pc EXCEPT ![t] = "Idle"]
    /\ value' = [value EXCEPT ![t] = 0]
    /\ deadline' = [deadline EXCEPT ![t] = 0]

Reserve(t, v) ==
    /\ pc[t] = "Idle"
    /\ now + Timeout <= MaxTime
    /\ pc' = [pc EXCEPT ![t] = "Lock"]
    /\ value' = [value EXCEPT ![t] = v]
    /\ deadline' = [deadline EXCEPT ![t] = now + Timeout]
    /\ UNCHANGED <<limitVars, waiters, lock, list, late, terminating, held, exited, now, intruded>>

\* The lock is taken; a limit that is used up for good is not waited for.
ReserveLocks(t) ==
    /\ pc[t] = "Lock" /\ lock = None
    /\ IF hints >= limit
       THEN Return(t)
       ELSE lock' = t /\ pc' = [pc EXCEPT ![t] = "Loop"] /\ UNCHANGED <<value, deadline>>
    /\ UNCHANGED <<limitVars, waiters, list, late, terminating, held, exited, now, intruded>>

Take(v) ==
    /\ current' = WrappingAdd(current, v)
    /\ hints' = hints + v

\* A round of the loop that reserves, ...
ReserveSucceeds(t) ==
    /\ pc[t] = "Loop"
    /\ ~Overflows(value[t]) /\ Fits(value[t])
    /\ Take(value[t])
    /\ peak' = Max({peak, current'})
    /\ held' = [held EXCEPT ![t] = @ + value[t]]
    /\ Return(t)
    /\ UNCHANGED <<limit, waiters, list, late, terminating, exited, now, intruded>>

\* ... that gives up, ...
ReserveFails(t) ==
    /\ pc[t] = "Loop"
    /\ \/ Overflows(value[t])
       \/ ~Fits(value[t]) /\ ~(MayFit(value[t]) /\ InTime(t))
    /\ Return(t)
    /\ UNCHANGED <<limitVars, waiters, list, late, terminating, held, exited, now, intruded>>

\* ... or that is going to wait.
ReserveWaits(t) ==
    /\ pc[t] = "Loop"
    /\ ~Overflows(value[t]) /\ ~Fits(value[t])
    /\ MayFit(value[t]) /\ InTime(t)
    /\ waiters' = waiters + 1
    /\ pc' = [pc EXCEPT ![t] = "Sleep"]
    /\ UNCHANGED <<limitVars, lock, list, late, value, deadline, terminating, held, exited,
                   now, intruded>>
-----------------------------------------------------------------------------
(***************************************************************************)
(* KLightConditionVariable.                                                *)
(***************************************************************************)

\* Wait returns to a terminating thread at once, with the lock held; the next round of
\* Reserve's loop follows.
WaitTerminating(t) ==
    /\ pc[t] = "Sleep" /\ t \in terminating
    /\ waiters' = waiters - 1
    /\ pc' = [pc EXCEPT ![t] = "Loop"]
    /\ UNCHANGED <<limitVars, lock, list, late, value, deadline, terminating, held, exited,
                   now, intruded>>

\* Unlocking and sleeping are one step under the scheduler lock.
Wait(t) ==
    /\ pc[t] = "Sleep" /\ t \notin terminating
    /\ lock' = None
    /\ list' = list \cup {t}
    /\ pc' = [pc EXCEPT ![t] = "Waiting"]
    /\ UNCHANGED <<limitVars, waiters, late, value, deadline, terminating, held, exited,
                   now, intruded>>

\* A woken waiter goes for the lock.
Woken(t, places) == [places EXCEPT ![t] = "Relock"]

\* The lock is taken again, and the next round of Reserve's loop follows.
Relock(t) ==
    /\ pc[t] = "Relock" /\ lock = None
    /\ lock' = t
    /\ waiters' = waiters - 1
    /\ pc' = [pc EXCEPT ![t] = "Loop"]
    /\ UNCHANGED <<limitVars, list, late, value, deadline, terminating, held, exited,
                   now, intruded>>

\* CancelWait by the timer task of KScopedSchedulerLockAndSleep, ...
OnTimer(t) ==
    /\ t \in list /\ now >= deadline[t]
    /\ list' = list \ {t} /\ late' = late \ {t}
    /\ pc' = Woken(t, pc)
    /\ UNCHANGED <<limitVars, waiters, lock, value, deadline, terminating, held, exited,
                   now, intruded>>

\* A cancelled wait in KLightLock::LockSlowPath: the thread goes on as if it had the lock.
\* Any thread but the owner may be asleep there, also in a call that is one step here or
\* because of one.
LockSlowPathCancelled(t) ==
    /\ t \notin list /\ lock # t
    /\ pc' = IF pc[t] \in {"Lock", "Relock"} THEN [pc EXCEPT ![t] = "Loop"] ELSE pc
    /\ intruded' = TRUE
    /\ UNCHANGED <<list, late>>

\* ... or by a termination request, which cancels whatever the thread waits for.
RequestTerminate(t) ==
    /\ t \in Mortal \ terminating
    /\ terminating' = terminating \cup {t}
    /\ \/ /\ list' = list \ {t} /\ late' = late \ {t}
          /\ pc' = IF t \in list THEN Woken(t, pc) ELSE pc
          /\ UNCHANGED intruded
       \/ LockSlowPathCancelled(t)
    /\ UNCHANGED <<limitVars, waiters, lock, value, deadline, held, exited, now>>

\* Mutant: nobody is woken.
BroadcastNothing == UNCHANGED <<list, late, pc>>

\* Broadcast, if anybody waits.
BroadcastIfWaiting ==
    IF waiters # 0
    THEN /\ list' = {} /\ late' = {}
         /\ pc' = [t \in Threads |-> IF t \in list THEN "Relock" ELSE pc[t]]
    ELSE UNCHANGED <<list, late, pc>>
-----------------------------------------------------------------------------
(***************************************************************************)
(* Release and SetLimitValue: one section under the lock each.             *)
(***************************************************************************)

ReleaseValues(v, h) ==
    /\ lock = None
    /\ current' = current - v
    /\ hints' = hints - h
    /\ BroadcastIfWaiting
    /\ UNCHANGED <<limit, peak, waiters, lock, value, deadline, terminating, now, intruded>>

\* An object is destroyed, or a reservation was not committed.
Release(t, v) ==
    /\ pc[t] = "Idle" /\ v \in 1 .. held[t]
    /\ held' = [held EXCEPT ![t] = @ - v]
    /\ ReleaseValues(v, v)
    /\ UNCHANGED exited

\* A thread exits: its hint is given back, ...
ReleaseHint(t) ==
    /\ pc[t] = "Idle" /\ held[t] > 0
    /\ held' = [held EXCEPT ![t] = @ - 1]
    /\ exited' = [exited EXCEPT ![t] = @ + 1]
    /\ ReleaseValues(0, 1)

\* ... and when it is destroyed, its count.
ReleaseExited(t) ==
    /\ pc[t] = "Idle" /\ exited[t] > 0
    /\ exited' = [exited EXCEPT ![t] = @ - 1]
    /\ ReleaseValues(1, 0)
    /\ UNCHANGED held

\* Nobody is woken when the limit is raised.
SetLimitValue(v) ==
    /\ lock = None
    /\ current <= v
    /\ limit' = v
    /\ peak' = current
    /\ late' = IF v > limit THEN list ELSE late
    /\ UNCHANGED <<current, hints, waiters, lock, list, pc, value, deadline, terminating, held,
                   exited, now, intruded>>

Tick ==
    /\ now < MaxTime
    /\ now' = now + 1
    /\ UNCHANGED <<limitVars, waiters, lock, list, late, pc, value, deadline, terminating, held,
                   exited, intruded>>
-----------------------------------------------------------------------------
Step(t) ==
    \/ ReserveSucceeds(t) \/ ReserveFails(t) \/ ReserveWaits(t)
    \/ WaitTerminating(t) \/ Wait(t)
    \/ OnTimer(t)

TakeLock(t) == ReserveLocks(t) \/ Relock(t)

Exclusive ==
    /\ ~intruded
    /\ \/ Tick
       \/ \E t \in Threads :
             \/ Step(t) \/ TakeLock(t)
             \/ \E v \in Values : Reserve(t, v) \/ Release(t, v)
             \/ ReleaseHint(t) \/ ReleaseExited(t) \/ RequestTerminate(t)
       \/ \E v \in Limits : SetLimitValue(v)

Next == Exclusive \/ (intruded /\ UNCHANGED vars)

Spec == Init /\ [][Next]_vars

\* Time passes, threads run and timers fire; the light lock lets everybody in at last.
Fairness ==
    /\ WF_vars(~intruded /\ Tick)
    /\ \A t \in Threads : WF_vars(~intruded /\ Step(t)) /\ SF_vars(~intruded /\ TakeLock(t))
-----------------------------------------------------------------------------
\* The assertions of Reserve, Release and GetFreeValue, with the numbers checked against
\* what the callers hold: no sequence of reservations, waits and two-phase releases makes
\* the counters drift, wrap or pass the limit.
CountersMatch ==
    /\ hints = FoldFunction(+, 0, held)
    /\ current = hints + FoldFunction(+, 0, exited)
    /\ current <= limit /\ current <= peak

\* Whoever is inside the lock owns it, a thread back from a wait included.  A termination
\* that wakes a thread asleep for the lock breaks this: it holds while ~intruded.
LockedInLoop ==
    \A t \in Threads : pc[t] \in {"Loop", "Sleep"} <=> lock = t

\* Nobody sleeps although its reservation fits, except after the limit was raised, which
\* wakes nobody: the waiter count seen by Release and the list agree at every wake-up.
NoSleeperFits == \A t \in list \ late : current + value[t] > limit

\* Every call returns; a terminating thread, which keeps the lock while it goes round the
\* loop, returns when its time has run out.
CallsReturn == \A t \in Threads : pc[t] # "Idle" ~> pc[t] = "Idle" \/ intruded
=============================================================================
