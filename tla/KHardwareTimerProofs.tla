------------------------ MODULE KHardwareTimerProofs ------------------------
(***************************************************************************)
(* Proofs about KHardwareTimer, for any set of tasks and any length of     *)
(* time.                                                                   *)
(***************************************************************************)
EXTENDS KHardwareTimer, TLAPS

USE TasksAssumption, TimeAssumption DEF Infinity

\* What a step in the tree leaves: the removal of a task keeps m_next_task typed
\* and the earliest (RemoveTaskFromTree).
LEMMA RemoveKeepsNext ==
    ASSUME TypeOK, NextIsEarliest, NEW k \in Tasks, time[k] > 0, RemoveTaskFromTree(k)
    PROVE  /\ time' \in [Tasks -> 0 .. Infinity]
           /\ next' \in Tasks \cup {None}
           /\ NextIsEarliest'
           /\ \A j \in Tasks : time'[j] > 0 => time'[j] = time[j]
<1>1. /\ time' \in [Tasks -> 0 .. Infinity]
      /\ \A j \in Tasks : time'[j] = IF j = k THEN 0 ELSE time[j]
  BY DEF TypeOK, RemoveTaskFromTree
<1>2. time \in [Tasks -> 0 .. Infinity] /\ next \in Tasks \cup {None}
  BY DEF TypeOK
<1>3. CASE next # k
  BY <1>1, <1>2, <1>3 DEF NextIsEarliest, RemoveTaskFromTree
<1>4. CASE next = k /\ next' = None /\ After(k) = {}
  <2>1. ASSUME NEW j \in Tasks PROVE time'[j] = 0
    <3>1. j # k => j \in After(k) \/ time[j] = 0
      BY <1>2, <1>4 DEF NextIsEarliest, After
    <3>2. QED
      BY <3>1, <1>1, <1>4
  <2>2. QED
    BY <1>1, <1>4, <2>1 DEF NextIsEarliest
<1>5. CASE next = k /\ next' \in After(k) /\ \A j \in After(k) : time[next'] <= time[j]
  BY <1>1, <1>2, <1>5 DEF NextIsEarliest, After
<1>6. QED
  BY <1>3, <1>4, <1>5 DEF RemoveTaskFromTree

\* The insertion of a task keeps m_next_task typed and the earliest
\* (RegisterAbsoluteTaskImpl).
LEMMA InsertKeepsNext ==
    ASSUME TypeOK, NextIsEarliest, NEW k \in Tasks, NEW t \in 1 .. Infinity,
           time[k] = 0, Insert(k, t)
    PROVE  /\ time' \in [Tasks -> 0 .. Infinity]
           /\ next' \in Tasks \cup {None}
           /\ NextIsEarliest'
           /\ \A j \in Tasks : time'[j] = IF j = k THEN t ELSE time[j]
           /\ next' = k \/ (next' = next /\ next # None /\ time[next] <= t)
<1>1. /\ time' \in [Tasks -> 0 .. Infinity]
      /\ \A j \in Tasks : time'[j] = IF j = k THEN t ELSE time[j]
  BY DEF TypeOK, Insert
<1>2. /\ time \in [Tasks -> 0 .. Infinity]
      /\ next \in Tasks \cup {None}
      /\ next' = k \/ (next' = next /\ next # None /\ time[next] <= t)
      /\ next = None \/ time[next] <= t \/ next' = k
  BY DEF TypeOK, Insert
<1>3. NextIsEarliest'
  <2>1. CASE next' = k /\ next = None
    BY <1>1, <1>2, <2>1 DEF NextIsEarliest
  <2>2. CASE next' = k /\ next # None
    <3>1. next # k
      BY <2>2, <1>2 DEF NextIsEarliest
    <3>2. t <= time[next]
      BY <3>1, <1>2, <2>2 DEF Insert
    <3>3. QED
      BY <1>1, <1>2, <2>2, <3>2 DEF NextIsEarliest
  <2>3. CASE next' = next /\ next # None /\ time[next] <= t
    BY <1>1, <1>2, <2>3 DEF NextIsEarliest
  <2>4. QED
    BY <1>2, <2>1, <2>2, <2>3
<1>4. QED
  BY <1>1, <1>2, <1>3
-----------------------------------------------------------------------------
\* Every step keeps the variables in their sets: in particular m_wakeup_time
\* stays a time that the interrupt can be set to.
LEMMA TypeStep == TypeOK /\ TimerInv /\ [Next]_vars => TypeOK'
<1> SUFFICES ASSUME TypeOK, TimerInv, [Next]_vars PROVE TypeOK'
  OBVIOUS
<1>n. NextIsEarliest
  BY DEF TimerInv
<1>1. CASE Tick
  BY <1>1 DEF TypeOK, Tick, taskVars
<1>2. ASSUME NEW k \in Tasks, CancelTask(k) PROVE TypeOK'
  <2>1. /\ time' \in [Tasks -> 0 .. Infinity]
        /\ next' \in Tasks \cup {None}
    BY <1>2, <1>n, RemoveKeepsNext DEF CancelTask
  <2>2. QED
    BY <1>2, <2>1 DEF TypeOK, CancelTask
<1>3. ASSUME NEW k \in Tasks, NEW t \in 1 .. Infinity, RegisterAbsoluteTask(k, t)
      PROVE  TypeOK'
  <2>1. /\ time' \in [Tasks -> 0 .. Infinity]
        /\ next' \in Tasks \cup {None}
    BY <1>3, <1>n, InsertKeepsNext DEF RegisterAbsoluteTask
  <2>2. QED
    BY <1>3, <2>1 DEF TypeOK, RegisterAbsoluteTask, Unschedule
<1>4. CASE Emplace
  BY <1>4 DEF TypeOK, Emplace, taskVars
<1>5. CASE EventSet
  BY <1>5 DEF TypeOK, EventSet, taskVars, TimingPCs
<1>6. CASE Pop
  BY <1>6 DEF TypeOK, Pop, taskVars, TimingPCs
<1>7. CASE DoTask
  BY <1>7 DEF TypeOK, DoTask, taskVars, TimingPCs
<1>8. CASE NoMoreTasks
  BY <1>8 DEF TypeOK, NoMoreTasks, taskVars, TimingPCs
<1>9. CASE RearmInterrupt
  <2>1. time[next] \in 1 .. Infinity
    BY <1>9, <1>n DEF TypeOK, RearmInterrupt, NextIsEarliest
  <2>2. QED
    BY <1>9, <2>1 DEF TypeOK, RearmInterrupt, Unschedule, taskVars
<1>10. CASE ExpireTask
  <2>1. next \in Tasks /\ time[next] > 0
    BY <1>10, <1>n DEF TypeOK, ExpireTask, NextIsEarliest
  <2>2. /\ time' \in [Tasks -> 0 .. Infinity]
        /\ next' \in Tasks \cup {None}
    BY <1>10, <1>n, <2>1, RemoveKeepsNext DEF ExpireTask
  <2>3. QED
    BY <1>10, <2>2 DEF TypeOK, ExpireTask
<1>11. CASE Sleep
  BY <1>11 DEF TypeOK, Sleep, taskVars, TimingPCs
<1>12. CASE WakeUp
  BY <1>12 DEF TypeOK, WakeUp, taskVars, TimingPCs
<1>13. CASE UNCHANGED vars
  BY <1>13 DEF TypeOK, vars
<1>14. QED
  BY <1>1, <1>2, <1>3, <1>4, <1>5, <1>6, <1>7, <1>8, <1>9, <1>10, <1>11, <1>12, <1>13
     DEF Next, Threads, EnableInterrupt, TimingThread, DoInterruptTaskImpl

\* Every step keeps the inductive invariant.
LEMMA TimerInvStep == TypeOK /\ TimerInv /\ [Next]_vars => TimerInv'
<1> SUFFICES ASSUME TypeOK, TimerInv, [Next]_vars PROVE TimerInv'
  OBVIOUS
<1>n. NextIsEarliest
  BY DEF TimerInv
<1>1. CASE Tick
  BY <1>1 DEF Tick, taskVars, TimerInv, NextIsEarliest, SleepersSignaled, LockedInv,
              CoverInv, BackedInv
<1>2. ASSUME NEW k \in Tasks, CancelTask(k) PROVE TimerInv'
  <2>1. /\ NextIsEarliest'
        /\ \A j \in Tasks : time'[j] > 0 => time'[j] = time[j]
    BY <1>2, <1>n, RemoveKeepsNext DEF CancelTask
  <2>2. QED
    BY <1>2, <2>1 DEF CancelTask, TimerInv, SleepersSignaled, LockedInv, CoverInv, BackedInv
<1>3. ASSUME NEW k \in Tasks, NEW t \in 1 .. Infinity, RegisterAbsoluteTask(k, t)
      PROVE  TimerInv'
  <2>1. /\ NextIsEarliest'
        /\ next' \in Tasks \cup {None}
        /\ \A j \in Tasks : time'[j] = IF j = k THEN t ELSE time[j]
        /\ next' = k \/ (next' = next /\ next # None /\ time[next] <= t)
    BY <1>3, <1>n, InsertKeepsNext DEF RegisterAbsoluteTask
  <2>2. CASE next' = k /\ t <= wakeup
    BY <1>3, <2>1, <2>2 DEF RegisterAbsoluteTask, Unschedule, TypeOK, TimerInv, NextIsEarliest,
                            SleepersSignaled, LockedInv, CoverInv, BackedInv
  <2>3. CASE ~(next' = k /\ t <= wakeup)
    BY <1>3, <2>1, <2>3 DEF RegisterAbsoluteTask, TypeOK, TimerInv, NextIsEarliest,
                            SleepersSignaled, LockedInv, CoverInv, BackedInv
  <2>4. QED
    BY <2>2, <2>3
<1>4. CASE Emplace
  BY <1>4 DEF Emplace, taskVars, TypeOK, TimerInv, NextIsEarliest, SleepersSignaled, LockedInv,
              CoverInv, BackedInv
<1>5. CASE EventSet
  BY <1>5 DEF EventSet, taskVars, TypeOK, TimerInv, NextIsEarliest, SleepersSignaled, LockedInv,
              CoverInv, BackedInv
<1>6. CASE Pop
  BY <1>6 DEF Pop, taskVars, TypeOK, TimerInv, NextIsEarliest, SleepersSignaled, LockedInv,
              CoverInv, BackedInv
<1>7. CASE DoTask
  BY <1>7 DEF DoTask, taskVars, TypeOK, TimerInv, NextIsEarliest, SleepersSignaled, LockedInv,
              CoverInv, BackedInv
<1>8. CASE NoMoreTasks
  BY <1>8 DEF NoMoreTasks, taskVars, TypeOK, TimerInv, NextIsEarliest, SleepersSignaled, LockedInv,
              CoverInv, BackedInv
<1>9. CASE RearmInterrupt
  BY <1>9 DEF RearmInterrupt, Unschedule, taskVars, TypeOK, TimerInv, NextIsEarliest,
              SleepersSignaled, LockedInv, CoverInv, BackedInv
<1>10. CASE ExpireTask
  <2>1. next \in Tasks /\ time[next] > 0
    BY <1>10, <1>n DEF TypeOK, ExpireTask, NextIsEarliest
  <2>2. /\ NextIsEarliest'
        /\ \A j \in Tasks : time'[j] > 0 => time'[j] = time[j]
    BY <1>10, <1>n, <2>1, RemoveKeepsNext DEF ExpireTask
  <2>3. QED
    BY <1>10, <2>2 DEF ExpireTask, TimerInv, SleepersSignaled, LockedInv, CoverInv, BackedInv
<1>11. CASE Sleep
  BY <1>11 DEF Sleep, taskVars, TypeOK, TimerInv, NextIsEarliest, SleepersSignaled, LockedInv,
               CoverInv, BackedInv
<1>12. CASE WakeUp
  BY <1>12 DEF WakeUp, taskVars, TypeOK, TimerInv, NextIsEarliest, SleepersSignaled, LockedInv,
               CoverInv, BackedInv
<1>13. CASE UNCHANGED vars
  BY <1>13 DEF vars, TimerInv, NextIsEarliest, SleepersSignaled, LockedInv, CoverInv, BackedInv
<1>14. QED
  BY <1>1, <1>2, <1>3, <1>4, <1>5, <1>6, <1>7, <1>8, <1>9, <1>10, <1>11, <1>12, <1>13
     DEF Next, Threads, EnableInterrupt, TimingThread, DoInterruptTaskImpl
-----------------------------------------------------------------------------
\* The timer's state is well typed and the invariant holds in every state that
\* RegisterAbsoluteTask, CancelTask and DoTask can reach.
THEOREM TimerInvariant == Spec => [](TypeOK /\ TimerInv)
<1>1. Init => TypeOK /\ TimerInv
  BY DEF Init, TypeOK, TimingPCs, TimerInv, NextIsEarliest, SleepersSignaled, LockedInv, CoverInv,
         BackedInv
<1>2. TypeOK /\ TimerInv /\ [Next]_vars => (TypeOK /\ TimerInv)'
  BY TypeStep, TimerInvStep
<1>3. QED
  BY <1>1, <1>2, PTL DEF Spec

\* No timeout is forgotten by the interplay of RegisterAbsoluteTask, CancelTask,
\* DoTask and CoreTiming's queue.
THEOREM NoTaskLost == Spec => []NoLostTask
<1>1. TypeOK /\ TimerInv => NoLostTask
  <2> SUFFICES ASSUME TypeOK, TimerInv, NEW k \in Tasks, 0 < time[k], time[k] <= MaxTime
               PROVE  \/ \E e \in events : e <= time[k]
                      \/ timing = "Callback" /\ wakeup # Infinity
                      \/ timing = "DoTask" /\ enable = "Idle"
                      \/ enable = "Unscheduled" /\ wakeup <= time[k]
    BY DEF NoLostTask
  <2>1. CASE timing = "DoTask" /\ enable = "Idle"
    BY <2>1
  <2>2. CASE timing # "DoTask" \/ enable # "Idle"
    <3>1. wakeup <= time[k] /\ wakeup # Infinity
      BY <2>2 DEF TypeOK, TimerInv, CoverInv
    <3>2. enable = "Unscheduled" \/ wakeup \in events \/ timing = "Callback"
      BY <3>1 DEF TimerInv, BackedInv
    <3>3. QED
      BY <3>1, <3>2
  <2>3. QED
    BY <2>1, <2>2
<1>2. QED
  BY <1>1, TimerInvariant, PTL

\* m_next_task is always the earliest task of the tree.
THEOREM NextTaskEarliest == Spec => []NextIsEarliest
<1>1. TimerInv => NextIsEarliest
  BY DEF TimerInv
<1>2. QED
  BY <1>1, TimerInvariant, PTL

\* ScheduleEvent wakes the timing thread when it sleeps on an empty queue.
THEOREM NoSleepThroughEvent == Spec => []SleepersSignaled
<1>1. TimerInv => SleepersSignaled
  BY DEF TimerInv
<1>2. QED
  BY <1>1, TimerInvariant, PTL
=============================================================================
