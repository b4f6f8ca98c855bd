------------------------------- MODULE MCTime -------------------------------
(***************************************************************************)
(* Time: the kernel's timer tasks and the timing thread they arm           *)
(* (KHardwareTimer), and CoreTiming itself.  They share no variable (what  *)
(* the timer needs of CoreTiming is part of KHardwareTimer) and are        *)
(* explored one at a time: `explored' names the one that takes steps.      *)
(***************************************************************************)
EXTENDS KHardwareTimer, Sequences

VARIABLES explored,
    clock, queue, seq, alive, owner, pc, running, paused, pausedSet, waitSet, shuttingDown,
    eventSet, pauseSet, pauseEnd, ctl, target, wanted

timingVars == <<clock, queue, seq, alive, owner, pc, running, paused, pausedSet, waitSet,
                shuttingDown, eventSet, pauseSet, pauseEnd, ctl, target, wanted>>
allVars == <<explored, vars, timingVars>>

\* One looping type whose owner is destroyed while the thread runs, and one type
\* that schedules itself in its callback; a clock long enough for a pause with an
\* event due in it, and one call of UnscheduleEvent.
Timing == INSTANCE CoreTiming WITH
    Looping <- {"L"}, OneShot <- {"R"}, Rescheduling <- {"R"}, Destroyed <- {"L"},
    Periods <- {1}, MaxTime <- 2, MaxUnschedules <- 1, Started <- TRUE,
    now <- clock, cur <- running

ASSUME Timing!TypesAssumption /\ Timing!BoundsAssumption /\ Timing!StartedAssumption

TimeInit ==
    /\ explored \in {"Timer", "Timing"}
    /\ Init /\ Timing!Init

TimeNext ==
    /\ UNCHANGED explored
    /\ \/ explored = "Timer" /\ Next /\ UNCHANGED timingVars
       \/ explored = "Timing" /\ Timing!Next /\ UNCHANGED vars

TimeFairness ==
    \/ explored = "Timer" /\ Fairness
    \/ explored = "Timing" /\ Timing!Fairness

TimeSpec == TimeInit /\ [][TimeNext]_allVars /\ TimeFairness
-----------------------------------------------------------------------------
\* CoreTiming: when UnscheduleEvent has returned the type neither runs nor is
\* queued, no queued event has lost its type, a looping event is queued exactly
\* once, HasPendingEvents and SyncPause tell the truth about callbacks, and a
\* looping event makes up for at most one period of a pause.
TimingSound ==
    /\ [](explored = "Timing" =>
            /\ Timing!TypeOK
            /\ Timing!UnscheduleIsFinal
            /\ Timing!NoExpiredEvent
            /\ Timing!LoopingScheduledOnce
            /\ Timing!NotPendingMeansIdle
            /\ Timing!PausedMeansQuiet)
    /\ [][explored = "Timing" => Timing!NoBurstAfterPause]_allVars

\* Every time-out the clock reaches happens or is cancelled; SyncPause,
\* UnscheduleEvent and the join of CoreTiming::Reset return.
TimeoutsHappen ==
    /\ explored = "Timer" => TasksFire
    /\ explored = "Timing" => Timing!CallsReturn
=============================================================================
