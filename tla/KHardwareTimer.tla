--------------------------- MODULE KHardwareTimer ---------------------------
(***************************************************************************)
(* KHardwareTimer (k_hardware_timer.cpp): the timeouts of waiting threads, *)
(* driven by one event of CoreTiming (core_timing.cpp).                    *)
(*                                                                         *)
(* A thread that waits with a timeout is a task in the timer's tree.  The  *)
(* timer keeps one event scheduled in CoreTiming, at m_wakeup_time, which  *)
(* must never be later than the earliest task.  The timing thread pops the *)
(* event and only then takes the kernel's locks to run DoTask: between the *)
(* two, tasks come and go and the event may be scheduled again.            *)
(*                                                                         *)
(* The scheduler lock and the timer's spin lock are always held together   *)
(* here, so one variable stands for both.  Only this timer's event is in   *)
(* the queue.  Pausing and shutdown are not modelled.                      *)
(***************************************************************************)
EXTENDS Integers

CONSTANTS
    Tasks,      \* KTimerTask objects: the threads
    None,       \* nullptr
    MaxTime     \* bound: the clock stops here

ASSUME TasksAssumption == None \notin Tasks
ASSUME TimeAssumption == MaxTime \in Nat \ {0}

\* numeric_limits<s64>::max(): a time the clock never reaches.  It is what
\* m_wakeup_time holds while the interrupt is off, and also what the supervisor
\* calls make of a timeout that overflows.
Infinity == MaxTime + 1

VARIABLES
    now,        \* GetGlobalTimeNs
    time,       \* time[k]: KTimerTask::m_time, 0 outside the tree
    next,       \* m_next_task
    wakeup,     \* m_wakeup_time
    locked,     \* who is inside the locks: "Nobody", "Register" or "DoTask"
    enable,     \* where that one is in EnableInterrupt
    events,     \* the times at which the timer's event is in event_queue
    timing,     \* where the timing thread is
    cur,        \* cur_time of the DoInterruptTaskImpl in progress
    signaled    \* is_set of CoreTiming's event

taskVars == <<time, next>>
vars == <<now, time, next, wakeup, locked, enable, events, timing, cur, signaled>>

\* "Advance": in CoreTiming::Advance; "Callback": the event is popped, DoTask has
\* not got the locks yet; "DoTask": in DoTask; "Wait": in event.Wait, the queue
\* was empty; "TimedWait": asleep until the next event, or less.
TimingPCs == {"Advance", "Callback", "DoTask", "Wait", "TimedWait"}

TypeOK ==
    /\ now \in 1 .. MaxTime
    /\ time \in [Tasks -> 0 .. Infinity]
    /\ next \in Tasks \cup {None}
    /\ wakeup \in 1 .. Infinity
    /\ locked \in {"Nobody", "Register", "DoTask"}
    /\ enable \in {"Idle", "Unscheduled", "Emplaced"}
    /\ events \subseteq 1 .. Infinity
    /\ timing \in TimingPCs
    /\ cur \in 0 .. MaxTime
    /\ signaled \in {0, 1}

Init ==
    /\ now = 1
    /\ time = [k \in Tasks |-> 0]
    /\ next = None
    /\ wakeup = Infinity
    /\ locked = "Nobody"
    /\ enable = "Idle"
    /\ events = {}
    /\ timing = "Advance"
    /\ cur = 0
    /\ signaled = 0

Tick ==
    /\ now < MaxTime
    /\ now' = now + 1
    /\ UNCHANGED <<taskVars, wakeup, locked, enable, events, timing, cur, signaled>>
-----------------------------------------------------------------------------
(***************************************************************************)
(* The tree of tasks.                                                      *)
(***************************************************************************)

\* Mutant: every new task becomes the next one.
InsertAsNext(k, t) ==
    /\ time' = [time EXCEPT ![k] = t]
    /\ next' = k

\* RegisterAbsoluteTaskImpl.
Insert(k, t) ==
    /\ time' = [time EXCEPT ![k] = t]
    /\ next' = IF next # None /\ time[next] <= t THEN next ELSE k

\* The tasks that are not before k in the tree (among equals, any order).
After(k) == {j \in Tasks \ {k} : time[j] > 0 /\ time[k] <= time[j]}

\* RemoveTaskFromTree.
RemoveTaskFromTree(k) ==
    /\ time' = [time EXCEPT ![k] = 0]
    /\ IF next = k
       THEN \/ After(k) = {} /\ next' = None
            \/ next' \in After(k) /\ \A j \in After(k) : time[next'] <= time[j]
       ELSE UNCHANGED next
-----------------------------------------------------------------------------
(***************************************************************************)
(* Turning the interrupt on.                                               *)
(***************************************************************************)

\* EnableInterrupt up to ScheduleEvent: UnscheduleEvent, then m_wakeup_time.
Unschedule(t) ==
    /\ wakeup' = t
    /\ events' = {}
    /\ enable' = "Unscheduled"

\* ScheduleEvent under CoreTiming's basic_lock.
Emplace ==
    /\ enable = "Unscheduled"
    /\ events' = events \cup {wakeup}
    /\ enable' = "Emplaced"
    /\ UNCHANGED <<now, taskVars, wakeup, locked, timing, cur, signaled>>

\* Mutant: ScheduleEvent does not set the event.
NoEventSet ==
    /\ enable = "Emplaced"
    /\ enable' = "Idle"
    /\ locked' = "Nobody"
    /\ IF locked = "DoTask"
       THEN timing' = "Advance" /\ cur' = 0
       ELSE UNCHANGED <<timing, cur>>
    /\ UNCHANGED <<now, taskVars, wakeup, events, signaled>>

\* The end of ScheduleEvent, and of the locked section around it.
EventSet ==
    /\ enable = "Emplaced"
    /\ signaled' = 1
    /\ enable' = "Idle"
    /\ locked' = "Nobody"
    /\ IF locked = "DoTask"
       THEN timing' = "Advance" /\ cur' = 0
       ELSE UNCHANGED <<timing, cur>>
    /\ UNCHANGED <<now, taskVars, wakeup, events>>
-----------------------------------------------------------------------------
(***************************************************************************)
(* The threads.                                                            *)
(***************************************************************************)

\* Mutant: the interrupt is only turned on if it was off.
RegisterOnlyWhenOff(k, t) ==
    /\ locked = "Nobody"
    /\ time[k] = 0
    /\ Insert(k, t)
    /\ IF next' = k /\ wakeup = Infinity
       THEN locked' = "Register" /\ Unschedule(t)
       ELSE UNCHANGED <<locked, wakeup, events, enable>>
    /\ UNCHANGED <<now, timing, cur, signaled>>

\* RegisterAbsoluteTask, by a thread about to wait: the time may have passed.
RegisterAbsoluteTask(k, t) ==
    /\ locked = "Nobody"
    /\ time[k] = 0
    /\ Insert(k, t)
    /\ IF next' = k /\ t <= wakeup
       THEN locked' = "Register" /\ Unschedule(t)
       ELSE UNCHANGED <<locked, wakeup, events, enable>>
    /\ UNCHANGED <<now, timing, cur, signaled>>

\* CancelTask, when a wait ends before its time: the interrupt stays on.
CancelTask(k) ==
    /\ locked = "Nobody"
    /\ time[k] > 0
    /\ RemoveTaskFromTree(k)
    /\ UNCHANGED <<now, wakeup, locked, enable, events, timing, cur, signaled>>
-----------------------------------------------------------------------------
(***************************************************************************)
(* The timing thread.                                                      *)
(***************************************************************************)

\* Advance pops the first event if it is due and lets go of basic_lock.
Pop ==
    /\ timing = "Advance"
    /\ \E e \in events :
          /\ e <= now
          /\ \A f \in events : e <= f
          /\ events' = events \ {e}
    /\ timing' = "Callback"
    /\ UNCHANGED <<now, taskVars, wakeup, locked, enable, cur, signaled>>

\* DoTask gets the locks; an event that was superseded is ignored.
DoTask ==
    /\ timing = "Callback"
    /\ locked = "Nobody"
    /\ IF wakeup = Infinity
       THEN /\ timing' = "Advance"
            /\ UNCHANGED <<wakeup, locked, cur>>
       ELSE /\ timing' = "DoTask"
            /\ locked' = "DoTask"
            /\ wakeup' = Infinity
            /\ cur' = now
    /\ UNCHANGED <<now, taskVars, enable, events, signaled>>

\* DoInterruptTaskImpl, one turn of its loop: no task is left.
NoMoreTasks ==
    /\ timing = "DoTask"
    /\ enable = "Idle"
    /\ next = None
    /\ locked' = "Nobody"
    /\ timing' = "Advance"
    /\ cur' = 0
    /\ UNCHANGED <<now, taskVars, wakeup, events, enable, signaled>>

\* Mutant: DoTask leaves the interrupt off.
NoRearm ==
    /\ timing = "DoTask"
    /\ enable = "Idle"
    /\ next # None
    /\ time[next] > cur
    /\ locked' = "Nobody"
    /\ timing' = "Advance"
    /\ cur' = 0
    /\ UNCHANGED <<now, taskVars, wakeup, events, enable, signaled>>

\* The next task is not due: DoTask turns the interrupt on for it.
RearmInterrupt ==
    /\ timing = "DoTask"
    /\ enable = "Idle"
    /\ next # None
    /\ time[next] > cur
    /\ Unschedule(time[next])
    /\ UNCHANGED <<now, taskVars, locked, timing, cur, signaled>>

\* The next task is due: OnTimer ends the wait.
ExpireTask ==
    /\ timing = "DoTask"
    /\ enable = "Idle"
    /\ next # None
    /\ time[next] <= cur
    /\ RemoveTaskFromTree(next)
    /\ UNCHANGED <<now, wakeup, events, enable, locked, timing, cur, signaled>>

\* Advance finds nothing due and ThreadLoop goes to sleep.
Sleep ==
    /\ timing = "Advance"
    /\ \A e \in events : e > now
    /\ timing' = IF events = {} THEN "Wait" ELSE "TimedWait"
    /\ UNCHANGED <<now, taskVars, wakeup, locked, enable, events, cur, signaled>>

\* A timed sleep also ends by itself, the event set (and left set) or not.
WakeUp ==
    /\ \/ /\ timing \in {"Wait", "TimedWait"}
          /\ signaled = 1
          /\ signaled' = 0
       \/ /\ timing = "TimedWait"
          /\ UNCHANGED signaled
    /\ timing' = "Advance"
    /\ UNCHANGED <<now, taskVars, wakeup, locked, enable, events, cur>>
-----------------------------------------------------------------------------
\* EnableInterrupt's last steps belong to whoever holds the locks.
EnableInterrupt == Emplace \/ EventSet

DoInterruptTaskImpl == NoMoreTasks \/ RearmInterrupt \/ ExpireTask

TimingThread == Pop \/ DoTask \/ DoInterruptTaskImpl \/ Sleep \/ WakeUp

Threads == \E k \in Tasks : CancelTask(k) \/ \E t \in 1 .. Infinity : RegisterAbsoluteTask(k, t)

Next == Tick \/ Threads \/ EnableInterrupt \/ TimingThread

Spec == Init /\ [][Next]_vars

\* The clock goes on, the timing thread runs, and a thread in the locks is not
\* preempted; nothing makes a thread register or cancel.  The timing thread gets
\* basic_lock, and the kernel's locks, even if threads keep taking them, and does
\* not wake up only in the moments when some thread reschedules the event.
Fairness ==
    /\ WF_vars(Tick)
    /\ WF_vars(EnableInterrupt)
    /\ WF_vars(TimingThread)
    /\ SF_vars(WakeUp /\ enable # "Unscheduled")
    /\ SF_vars(Pop)
    /\ SF_vars(DoTask)
-----------------------------------------------------------------------------
(***************************************************************************)
(* Properties.                                                             *)
(***************************************************************************)

\* A thread with a timeout is never forgotten: an event is queued for no later
\* than its time, or DoTask is about to run or running and will see it, or the
\* event is just being scheduled again.
NoLostTask ==
    \A k \in Tasks : 0 < time[k] /\ time[k] <= MaxTime =>
        \/ \E e \in events : e <= time[k]
        \/ timing = "Callback" /\ wakeup # Infinity
        \/ timing = "DoTask" /\ enable = "Idle"
        \/ enable = "Unscheduled" /\ wakeup <= time[k]

\* m_next_task is the earliest task of the tree, whatever the order in which
\* tasks were registered and cancelled: DoInterruptTaskImpl stops at the first
\* task that is not due.
NextIsEarliest ==
    /\ next = None => \A k \in Tasks : time[k] = 0
    /\ next # None => /\ time[next] > 0
                      /\ \A k \in Tasks : time[k] > 0 => time[next] <= time[k]

\* The timing thread does not sleep in event.Wait on a queue that is not empty,
\* unless it is about to be woken.
SleepersSignaled ==
    timing = "Wait" /\ events # {} => signaled = 1 \/ enable = "Emplaced"

\* Every timeout that can be reached happens, or is cancelled.
TasksFire == \A k \in Tasks : time[k] \in 1 .. MaxTime ~> time[k] = 0
-----------------------------------------------------------------------------
(***************************************************************************)
(* The inductive invariant behind NoLostTask.                              *)
(***************************************************************************)

\* Who is inside the locks, and where.
LockedInv ==
    /\ locked = "DoTask" <=> timing = "DoTask"
    /\ locked = "Register" => enable # "Idle"
    /\ enable # "Idle" => locked # "Nobody"

\* Outside DoTask's loop the interrupt is no later than any task.
CoverInv ==
    timing # "DoTask" \/ enable # "Idle" =>
        \A k \in Tasks : time[k] > 0 => wakeup <= time[k]

\* An interrupt that is on has its event, in the queue or just popped.
BackedInv ==
    enable # "Unscheduled" /\ wakeup # Infinity =>
        wakeup \in events \/ timing = "Callback"

TimerInv ==
    /\ NextIsEarliest
    /\ SleepersSignaled
    /\ LockedInv
    /\ CoverInv
    /\ BackedInv
    /\ timing = "DoTask" /\ enable = "Idle" => wakeup = Infinity
=============================================================================
