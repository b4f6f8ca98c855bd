-------------------------- MODULE MCSynchronization --------------------------
(***************************************************************************)
(* Waiting in the kernel: the wait for synchronization objects             *)
(* (KSynchronizationObject) with the intrusive lists it keeps (ThreadList),*)
(* and the condition variable under a light lock that resource limits wait *)
(* on (KResourceLimit).  They share no variable, so every behaviour of     *)
(* theirs is met by exploring them one at a time: `explored' names the one *)
(* that takes steps, and the others stay in their initial states.          *)
(***************************************************************************)
EXTENDS KSynchronizationObject

CONSTANT None   \* nullptr

VARIABLES explored,
    head, tail, next, listObjects, op,
    current, hints, limit, peak, waiters, lock, list, late, pc, value, deadline,
    terminating, held, exited, now, intruded

listVars == <<head, tail, next, listObjects, op>>
limitVars == <<current, hints, limit, peak, waiters, lock, list, late, pc, value, deadline,
               terminating, held, exited, now, intruded>>
allVars == <<explored, vars, listVars, limitVars>>

\* Waits for two events, for a thread, and for an event given twice, in both orders of
\* two events.
Arrays == {<<"e1">>, <<"e1", "e2">>, <<"e2", "e1">>, <<"e1", "e1", "t2">>, <<"t1">>}

\* Three threads and two objects, with an object repeated next to itself and
\* around another.
Lists == INSTANCE ThreadList WITH
    Threads <- {"t1", "t2", "t3"},
    Objects <- {"a", "b"},
    WaitLists <- {<<"a">>, <<"a", "b">>, <<"b", "a">>, <<"a", "a">>, <<"a", "b", "a">>},
    objects <- listObjects

\* Three threads that reserve one of a resource of one or of all that three bits
\* count, with a time-out of one tick; one is asked to terminate.
Limit == INSTANCE KResourceLimit WITH
    Threads <- {"t1", "t2", "t3"}, Mortal <- {"t1"},
    Width <- 3, Values <- {1}, Limits <- {1, 3}, Timeout <- 1, MaxTime <- 1

ASSUME ObjectsAssumption /\ WaitListsAssumption
ASSUME Lists!NoneAssumption /\ Lists!WaitListsAssumption
ASSUME /\ Limit!NoneAssumption /\ Limit!MortalAssumption /\ Limit!WidthAssumption
       /\ Limit!ValuesAssumption /\ Limit!TimeAssumption

SynchronizationInit ==
    /\ explored \in {"Sync", "Lists", "Limit"}
    /\ Init /\ Lists!Init /\ Limit!Init
    /\ explored # "Limit" => limit = 1

SynchronizationNext ==
    /\ UNCHANGED explored
    /\ \/ explored = "Sync" /\ Next /\ UNCHANGED <<listVars, limitVars>>
       \/ explored = "Lists" /\ Lists!Next /\ UNCHANGED <<vars, limitVars>>
       \/ explored = "Limit" /\ Limit!Next /\ UNCHANGED <<vars, listVars>>

SynchronizationFairness ==
    \/ explored = "Sync" /\ Fairness
    \/ explored = "Lists" /\ Lists!Fairness
    \/ explored = "Limit" /\ Limit!Fairness

SynchronizationSpec ==
    SynchronizationInit /\ [][SynchronizationNext]_allVars /\ SynchronizationFairness
-----------------------------------------------------------------------------
\* The lists of waiters: between operations they hold exactly the nodes of the
\* threads that wait, UnlinkNode always meets the node it looks for, and
\* NotifyAvailable reaches every waiter although the list shrinks under it.
ListsSound ==
    /\ [](explored = "Lists" => Lists!TypeOK /\ Lists!ListsWellFormed /\ Lists!UnlinkFindsNode)
    /\ Lists!NotifyReachesAll

\* A resource limit, until a termination lets a thread into the lock that does not own
\* it: the counters are what callers hold and keep the limit, whoever is in the lock is
\* alone, and nobody sleeps although its reservation fits.
LimitInvariant ==
    explored = "Limit" =>
        /\ Limit!TypeOK
        /\ ~intruded => Limit!CountersMatch /\ Limit!LockedInLoop /\ Limit!NoSleeperFits

\* Timed waits and waits for a thread that exits end, and so do every operation on
\* the lists and every reservation, one of a terminating thread too.
EveryWaitEnds ==
    /\ explored = "Sync" => WaitsEnd
    /\ explored = "Lists" => Lists!OperationsEnd
    /\ explored = "Limit" => Limit!CallsReturn
=============================================================================
