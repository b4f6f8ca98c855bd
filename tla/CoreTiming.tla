----------------------------- MODULE CoreTiming -----------------------------
(***************************************************************************)
(* CoreTiming: the queue of timed events, the host thread that runs their  *)
(* callbacks, and pausing that thread.                                     *)
(*                                                                         *)
(* Advance holds advance_lock throughout and basic_lock except while a     *)
(* callback runs.  The owner of an event type schedules it, unschedules it *)
(* and waits for the callback, and then may drop it: the queue has weak    *)
(* references only.  One controller at a time (System::Run and Pause hold  *)
(* suspend_guard) pauses and continues the thread, and ends it.            *)
(*                                                                         *)
(* ScheduleEvent sets `event' after it released basic_lock; KHardwareTimer *)
(* models the gap, here it is one step.                                    *)
(***************************************************************************)
EXTENDS Integers, Sequences, SequencesExt

CONSTANTS
    Looping,        \* types scheduled with ScheduleLoopingEvent
    OneShot,        \* types scheduled with ScheduleEvent
    Rescheduling,   \* those of OneShot whose callback schedules the type again
    Destroyed,      \* types whose owner is destroyed while the thread runs
    Periods,        \* delays, reschedule times and what callbacks return
    MaxTime,        \* bound on the clock
    MaxUnschedules, \* bound on the sequence numbers
    Started         \* whether the timer thread has run to its first pause

Types == Looping \cup OneShot

TypesAssumption == 
    Looping \cap OneShot = {} /\ Rescheduling \subseteq OneShot /\ Destroyed \subseteq Types
BoundsAssumption ==
    Periods \subseteq Nat \ {0} /\ MaxTime \in Nat /\ MaxUnschedules \in Nat
StartedAssumption == Started \in BOOLEAN

VARIABLES
    now,            \* GetGlobalTimeNs
    queue,          \* event_queue, in the order of (time, fifo_order)
    seq,            \* seq[e]: sequence_number of the type
    alive,          \* the types whose shared pointer exists
    owner,          \* owner[e]: "Free", "Erased" (in UnscheduleEvent) or "Released"
    pc,             \* the timer thread's place in ThreadLoop and Advance
    cur,            \* the event whose callback runs, or was last run
    paused, pausedSet, waitSet, shuttingDown, eventSet, pauseSet,    \* flags and events
    pauseEnd,       \* pause_end_time
    ctl,            \* the controller's place
    target,         \* the argument of its last SyncPause
    wanted          \* the looping types that are scheduled and not unscheduled

loopVars == <<pc, cur>>
ctlVars == <<ctl, target, paused, pauseEnd, shuttingDown>>
ownerVars == <<owner, alive>>
vars == <<now, queue, seq, wanted, waitSet, pausedSet, eventSet, pauseSet,
          loopVars, ctlVars, ownerVars>>

Events == [type : Types, time : 0 .. MaxTime + Max(Periods), period : Periods \cup {0}]

TypeOK ==
    /\ now \in 0 .. MaxTime /\ pauseEnd \in 0 .. MaxTime
    /\ queue \in Seq(Events)
    /\ seq \in [Types -> 0 .. MaxUnschedules]
    /\ alive \subseteq Types /\ wanted \subseteq Looping
    /\ owner \in [Types -> {"Free", "Erased", "Released"}]
    /\ pc \in {"Outer", "Inner", "StoreRunning", "StorePaused", "PauseWait", "Advance",
               "Callback", "Wait", "TimedWait", "Ended"}
    /\ cur.event \in Events /\ cur.seq \in 0 .. MaxUnschedules
    /\ {paused, pausedSet, waitSet, shuttingDown, eventSet, pauseSet, target} \subseteq BOOLEAN
    /\ ctl \in {"Idle", "Set", "Spin", "Cleared", "ResetSet", "Join", "Done"}

NoEvent == [event |-> [type |-> CHOOSE e \in Types : TRUE, time |-> 0, period |-> 0],
            seq |-> 0]

\* After Initialize, whose Reset leaves paused and both events set; the thread has
\* not run yet, or waits in its first pause.
Init ==
    /\ now = 0 /\ queue = <<>> /\ cur = NoEvent
    /\ seq = [e \in Types |-> 0]
    /\ alive = Types /\ wanted = {}
    /\ owner = [e \in Types |-> "Free"]
    /\ pc = IF Started THEN "PauseWait" ELSE "Outer"
    /\ paused = TRUE /\ pausedSet = Started /\ waitSet = FALSE
    /\ shuttingDown = FALSE /\ eventSet = TRUE /\ pauseSet = ~Started
    /\ pauseEnd = 0 /\ ctl = "Idle" /\ target = TRUE
-----------------------------------------------------------------------------
(***************************************************************************)
(* The event queue.                                                        *)
(***************************************************************************)

\* basic_lock and advance_lock are not held by Advance.
BasicFree == pc # "Advance"
AdvanceFree == pc \notin {"Advance", "Callback"}

\* emplace with the next fifo_order: after all events of the same time.
Emplace(q, e) ==
    SelectSeq(q, LAMBDA x : x.time <= e.time) \o <<e>>
        \o SelectSeq(q, LAMBDA x : x.time > e.time)

Erase(q, e) == SelectSeq(q, LAMBDA x : x.type # e)

InQueue(e) == \E i \in DOMAIN queue : queue[i].type = e

\* ScheduleEvent and ScheduleLoopingEvent by the owner, for a type not in the queue.
Schedule(e, delay) ==
    /\ BasicFree
    /\ e \in alive /\ owner[e] \in {"Free", "Released"} /\ ~InQueue(e)
    /\ e \notin wanted
    /\ owner' = [owner EXCEPT ![e] = "Free"]
    /\ queue' = Emplace(queue, [type |-> e, time |-> now + delay,
                                period |-> IF e \in Looping THEN delay ELSE 0])
    /\ wanted' = wanted \cup ({e} \cap Looping)
    /\ eventSet' = TRUE
    /\ UNCHANGED <<now, seq, alive, waitSet, pausedSet, pauseSet, loopVars, ctlVars>>

\* UnscheduleEvent up to releasing basic_lock; with NoWait that is all.
UnscheduleEvent(e, wait) ==
    /\ BasicFree
    /\ e \in alive /\ owner[e] = "Free"
    /\ seq[e] < MaxUnschedules
    /\ queue' = Erase(queue, e)
    /\ seq' = [seq EXCEPT ![e] = @ + 1]
    /\ wanted' = wanted \ {e}
    /\ owner' = [owner EXCEPT ![e] = IF wait THEN "Erased" ELSE "Free"]
    /\ UNCHANGED <<now, alive, waitSet, pausedSet, eventSet, pauseSet, loopVars, ctlVars>>

\* Mutant: UnscheduleEvent does not wait for the callback.
WaitForNothing(e) ==
    /\ owner[e] = "Erased"
    /\ owner' = [owner EXCEPT ![e] = "Released"]
    /\ UNCHANGED <<now, queue, seq, alive, wanted, waitSet, pausedSet, eventSet, pauseSet,
                   loopVars, ctlVars>>

\* "Force any in-progress events to finish": take and release advance_lock.
WaitForAdvance(e) ==
    /\ owner[e] = "Erased" /\ AdvanceFree
    /\ owner' = [owner EXCEPT ![e] = "Released"]
    /\ UNCHANGED <<now, queue, seq, alive, wanted, waitSet, pausedSet, eventSet, pauseSet,
                   loopVars, ctlVars>>

\* The owner is destroyed, as the destructors that unschedule their event go on to.
Destroy(e) ==
    /\ owner[e] = "Released" /\ e \in alive \cap Destroyed
    /\ alive' = alive \ {e}
    /\ UNCHANGED <<now, queue, seq, owner, wanted, waitSet, pausedSet, eventSet, pauseSet,
                   loopVars, ctlVars>>

Tick ==
    /\ now < MaxTime
    /\ now' = now + 1
    /\ UNCHANGED <<queue, seq, wanted, waitSet, pausedSet, eventSet, pauseSet, loopVars,
                   ctlVars, ownerVars>>
-----------------------------------------------------------------------------
(***************************************************************************)
(* The timer thread.  Each step leaves the clock, the sequence numbers and *)
(* what the others write alone.                                            *)
(***************************************************************************)

threadFrame == <<now, seq, wanted, ctlVars, ownerVars>>

\* while (!shutting_down)
OuterCheck ==
    /\ pc = "Outer"
    /\ pc' = IF shuttingDown THEN "Ended" ELSE "Inner"
    /\ UNCHANGED <<threadFrame, queue, cur, waitSet, pausedSet, eventSet, pauseSet>>

\* while (!paused)
InnerCheck ==
    /\ pc = "Inner"
    /\ pc' = IF paused THEN "StorePaused" ELSE "StoreRunning"
    /\ UNCHANGED <<threadFrame, queue, cur, waitSet, pausedSet, eventSet, pauseSet>>

\* paused_set = false, and Advance takes its locks.
StoreRunning ==
    /\ pc = "StoreRunning"
    /\ pc' = "Advance"
    /\ pausedSet' = FALSE
    /\ UNCHANGED <<threadFrame, queue, cur, waitSet, eventSet, pauseSet>>

StorePaused ==
    /\ pc = "StorePaused"
    /\ pc' = "PauseWait"
    /\ pausedSet' = TRUE
    /\ UNCHANGED <<threadFrame, queue, cur, waitSet, eventSet, pauseSet>>

\* pause_event.Wait()
PauseWait ==
    /\ pc = "PauseWait" /\ pauseSet
    /\ pc' = "Outer"
    /\ pauseSet' = FALSE
    /\ UNCHANGED <<threadFrame, queue, cur, waitSet, pausedSet, eventSet>>

Due == queue # <<>> /\ Head(queue).time <= now

\* Advance finds a due event whose type still exists: a one-shot event is popped, a
\* looping one stays, and basic_lock is released for the callback.  (A due event
\* whose type is gone is never removed: the loop has no other step.)
StartCallback ==
    /\ pc = "Advance" /\ Due
    /\ LET e == Head(queue)
       IN  /\ e.type \in alive
           /\ cur' = [event |-> e, seq |-> seq[e.type]]
           /\ queue' = IF e.period = 0 THEN Tail(queue) ELSE queue
    /\ pc' = "Callback"
    /\ UNCHANGED <<threadFrame, waitSet, pausedSet, eventSet, pauseSet>>

\* The callback schedules its type again, as those of Freezer and KHardwareTimer do.
RescheduleInCallback(delay) ==
    /\ pc = "Callback"
    /\ cur.event.type \in Rescheduling /\ ~InQueue(cur.event.type)
    /\ queue' = Emplace(queue, [cur.event EXCEPT !.time = now + delay])
    /\ eventSet' = TRUE
    /\ UNCHANGED <<threadFrame, loopVars, waitSet, pausedSet, pauseSet>>

\* The type was unscheduled during the callback: the handle is not valid any more.
Stale == cur.seq # seq[cur.event.type]

NextTime(period) ==
    IF cur.event.time < pauseEnd THEN pauseEnd + period ELSE cur.event.time + period

\* After the callback, which may return another period: a looping event gets its
\* next time, in place.
FinishCallback(period) ==
    /\ pc = "Callback"
    /\ pc' = "Advance"
    /\ queue' = IF cur.event.period = 0 \/ Stale THEN queue
                ELSE Emplace(Erase(queue, cur.event.type),
                             [cur.event EXCEPT !.time = NextTime(period), !.period = period])
    /\ cur' = NoEvent
    /\ UNCHANGED <<threadFrame, waitSet, pausedSet, eventSet, pauseSet>>

\* Advance returns the next time, or nothing: then wait_set is stored.
AdvanceReturns ==
    /\ pc = "Advance" /\ ~Due
    /\ pc' = IF queue = <<>> THEN "Wait" ELSE "TimedWait"
    /\ waitSet' = (queue = <<>>)
    /\ UNCHANGED <<threadFrame, queue, cur, pausedSet, eventSet, pauseSet>>

\* wait_set = false at the end of the inner loop.
ClearWaitSet == FALSE

\* event.Wait()
WaitReturns ==
    /\ pc = "Wait" /\ eventSet
    /\ pc' = "Inner"
    /\ eventSet' = FALSE
    /\ waitSet' = ClearWaitSet
    /\ UNCHANGED <<threadFrame, queue, cur, pausedSet, pauseSet>>

\* event.WaitFor(wait_time), or a sleep of a millisecond that ignores the event.
TimedWaitReturns ==
    /\ pc = "TimedWait"
    /\ pc' = "Inner"
    /\ eventSet' \in {eventSet, FALSE}
    /\ waitSet' = ClearWaitSet
    /\ UNCHANGED <<threadFrame, queue, cur, pausedSet, pauseSet>>
-----------------------------------------------------------------------------
(***************************************************************************)
(* The controller.                                                         *)
(***************************************************************************)

ctlFrame == <<now, queue, seq, wanted, waitSet, pausedSet, loopVars, ownerVars>>

\* SyncPause returns at once, or stores paused.
SyncPause(b) ==
    /\ ctl = "Idle"
    /\ target' = b
    /\ IF b = paused /\ pausedSet = paused
       THEN UNCHANGED <<paused, ctl>>
       ELSE paused' = b /\ ctl' = "Set"
    /\ UNCHANGED <<ctlFrame, eventSet, pauseSet, pauseEnd, shuttingDown>>

\* pause_event.Set() of Pause.
SetPauseEvent == TRUE

\* The rest of Pause, and event.Set().
SyncPauseSet ==
    /\ ctl = "Set"
    /\ ctl' = "Spin"
    /\ pauseSet' = SetPauseEvent
    /\ eventSet' = TRUE
    /\ pauseEnd' = IF target THEN pauseEnd ELSE now
    /\ UNCHANGED <<ctlFrame, target, paused, shuttingDown>>

\* while (paused_set != is_paused);
SyncPauseReturns ==
    /\ ctl = "Spin" /\ pausedSet = target
    /\ ctl' = "Idle"
    /\ pauseEnd' = IF target THEN pauseEnd ELSE now
    /\ UNCHANGED <<ctlFrame, target, paused, shuttingDown, eventSet, pauseSet>>

\* Only on exit.
ClearPendingEvents ==
    /\ ctl = "Idle" /\ ~target
    /\ AdvanceFree
    /\ ctl' = "Cleared"
    /\ queue' = <<>> /\ wanted' = {}
    /\ eventSet' = TRUE
    /\ UNCHANGED <<now, seq, waitSet, pausedSet, pauseSet, loopVars, ownerVars,
                   target, paused, pauseEnd, shuttingDown>>

\* Reset: both flags, both events, join.
Reset ==
    /\ ctl = "Cleared"
    /\ ctl' = "ResetSet"
    /\ paused' = TRUE /\ shuttingDown' = TRUE
    /\ UNCHANGED <<ctlFrame, target, pauseEnd, eventSet, pauseSet>>

ResetSet ==
    /\ ctl = "ResetSet"
    /\ ctl' = "Join"
    /\ pauseSet' = SetPauseEvent /\ eventSet' = TRUE
    /\ UNCHANGED <<ctlFrame, target, paused, pauseEnd, shuttingDown>>

Join ==
    /\ ctl = "Join" /\ pc = "Ended"
    /\ ctl' = "Done"
    /\ UNCHANGED <<ctlFrame, target, paused, pauseEnd, shuttingDown, eventSet, pauseSet>>
-----------------------------------------------------------------------------
ThreadLoop ==
    \/ OuterCheck \/ InnerCheck \/ StoreRunning \/ StorePaused \/ PauseWait
    \/ StartCallback \/ (\E p \in Periods : FinishCallback(p))
    \/ AdvanceReturns \/ WaitReturns \/ TimedWaitReturns

Controller == SyncPauseSet \/ SyncPauseReturns \/ Reset \/ ResetSet \/ Join

Next ==
    \/ ThreadLoop \/ Controller \/ Tick \/ ClearPendingEvents
    \/ \E b \in BOOLEAN : SyncPause(b)
    \/ \E p \in Periods : RescheduleInCallback(p)
    \/ \E e \in Types : \/ \E p \in Periods : Schedule(e, p)
                        \/ \E wait \in BOOLEAN : UnscheduleEvent(e, wait)
                        \/ WaitForAdvance(e)
                        \/ Destroy(e)

Spec == Init /\ [][Next]_vars

\* The host schedules the timer thread and the controller.  The mutexes do not
\* starve a thread: one that waits for advance_lock gets it if it is free again and
\* again.
Fairness ==
    /\ WF_vars(ThreadLoop) /\ WF_vars(Controller)
    /\ \A e \in Types : SF_vars(WaitForAdvance(e))
-----------------------------------------------------------------------------
\* The type is neither queued nor running.
Inactive(e) == ~InQueue(e) /\ ~(pc = "Callback" /\ cur.event.type = e)

\* When UnscheduleEvent has returned, the type is neither queued nor running until
\* it is scheduled again, so its owner may be destroyed: for the looping types and
\* those that do not schedule themselves.
UnscheduleIsFinal ==
    \A e \in Types \ Rescheduling : owner[e] = "Released" => Inactive(e)

\* The same of the types that schedule themselves in their callback, which
\* UnscheduleEvent forces to finish.
UnscheduleEndsRescheduling ==
    \A e \in Rescheduling : owner[e] = "Released" => Inactive(e)

\* No event of the queue has lost its type, so Advance never meets an event that it
\* can neither run nor remove.
NoExpiredEvent == \A i \in DOMAIN queue : queue[i].type \in alive

\* A looping event is in the queue exactly once from ScheduleLoopingEvent to
\* UnscheduleEvent, its own callback and unscheduling during it included.
LoopingScheduledOnce ==
    \A e \in Looping :
        Cardinality({i \in DOMAIN queue : queue[i].type = e}) = IF e \in wanted THEN 1 ELSE 0

\* A looping event makes up for at most one period of a pause: once it has run it
\* is later than the end of the pause.
NoBurstAfterPause ==
    pc = "Callback" /\ pc' = "Advance" /\ cur.event.type \in wanted /\ ~Stale =>
        \A i \in DOMAIN queue' :
            queue'[i].type = cur.event.type => queue'[i].time > pauseEnd

\* HasPendingEvents is false only if no callback is running.
NotPendingMeansIdle == waitSet /\ queue = <<>> => pc # "Callback"

\* After SyncPause(true) has returned, the timer thread runs no callback until
\* SyncPause(false).
PausedMeansQuiet == ctl = "Idle" /\ paused /\ target => AdvanceFree

\* SyncPause, UnscheduleEvent and the join of Reset return.
CallsReturn ==
    /\ (\E e \in Types : owner[e] = "Erased") ~> \A e \in Types : owner[e] # "Erased"
    /\ ctl # "Idle" ~> ctl \in {"Idle", "Done"}
=============================================================================
