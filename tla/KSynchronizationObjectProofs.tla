-------------------- MODULE KSynchronizationObjectProofs --------------------
(***************************************************************************)
(* Proofs about waits for kernel objects, for any threads, events and      *)
(* arrays of objects.                                                      *)
(***************************************************************************)
EXTENDS KSynchronizationObject, WellFoundedInduction, TLAPS

\* What keeps the wait protocol going.  A thread is in a wait queue exactly while it
\* waits, and has objects, a time-out and a cancellable flag only then; one that is
\* still inside Wait after its wake-up runs and has no result yet; and a cancellation
\* that came before a wait was used up when the wait began.
InQueueIffWaiting == \A t \in Threads : state[t] = "Waiting" <=> queue[t] # "None"
ObjectsOnlyInSyncWait == \A t \in Threads : queue[t] # "Sync" => objects[t] = <<>>
TimedOnlyWhileWaiting == \A t \in Threads : timedWait[t] => state[t] = "Waiting"
ReturningRuns == \A t \in returning : state[t] = "Runnable"
NoCancellationKept == \A t \in Threads : queue[t] = "Sync" => ~waitCancelled[t]

WaitInv ==
    /\ InQueueIffWaiting
    /\ ObjectsOnlyInSyncWait
    /\ TimedOnlyWhileWaiting
    /\ ReturningRuns
    /\ NoCancellationKept
    /\ NoMissedSignal
    /\ TimerOnlyWhileWaiting
    /\ CancellableOnlyInSyncWait
    /\ TerminatingNeverWaits
-----------------------------------------------------------------------------
(***************************************************************************)
(* The index NotifyAvailable and Wait look for.                            *)
(***************************************************************************)

\* A nonempty set of positions has a first one.
LEMMA FirstPosition ==
    ASSUME NEW I \in SUBSET Nat, I # {}
    PROVE  Min(I) \in I /\ \A i \in I : Min(I) <= i
<1>1. \E i \in I : \A j \in I : ~(<<j, i>> \in OpToRel(<, Nat))
  BY NatLessThanWellFounded, WFMin
<1>2. PICK i \in I : \A j \in I : ~(<<j, i>> \in OpToRel(<, Nat))
  BY <1>1
<1>3. \A j \in I : i <= j
  <2> SUFFICES ASSUME NEW j \in I, j < i PROVE FALSE
    OBVIOUS
  <2>1. <<j, i>> \in Nat \X Nat /\ <<j, i>>[1] < <<j, i>>[2]
    OBVIOUS
  <2>2. <<j, i>> \in OpToRel(<, Nat)
    BY <2>1 DEF OpToRel
  <2>3. QED
    BY <1>2, <2>2
<1>4. QED
  BY <1>3 DEF Min

\* The positions of the elements of a sequence that are in a set.
Places(s, S) == {i \in 1 .. Len(s) : s[i] \in S}

\* The first place of an element of S in the sequence, or 0.
FirstPlace(s, S) == IF Places(s, S) # {} THEN Min(Places(s, S)) ELSE 0

LEMMA FirstPlaceIsFirst ==
    ASSUME NEW s \in Seq(Objects), NEW S, NEW k, k = FirstPlace(s, S)
    PROVE  IF ToSet(s) \cap S = {} THEN k = 0
           ELSE k \in 1 .. Len(s) /\ s[k] \in S /\ \A i \in 1 .. k - 1 : s[i] \notin S
<1>1. Places(s, S) \in SUBSET Nat /\ Len(s) \in Nat
  BY DEF Places
<1>2. CASE ToSet(s) \cap S = {}
  BY <1>2 DEF ToSet, FirstPlace, Places
<1>3. CASE ToSet(s) \cap S # {}
  <2>1. Places(s, S) # {}
    BY <1>3 DEF ToSet, Places
  <2>2. k \in Places(s, S) /\ \A i \in Places(s, S) : k <= i
    BY <1>1, <2>1, FirstPosition DEF FirstPlace
  <2>3. k \in 1 .. Len(s) /\ s[k] \in S
    BY <2>2 DEF Places
  <2>4. ASSUME NEW i \in 1 .. k - 1 PROVE s[i] \notin S
    BY <1>1, <2>2, <2>3 DEF Places
  <2>5. QED
    BY <1>3, <2>3, <2>4
<1>4. QED
  BY <1>2, <1>3
-----------------------------------------------------------------------------
(***************************************************************************)
(* Types.                                                                  *)
(***************************************************************************)

\* Waking threads keeps the types of what it writes.
LEMMA WakeTyped ==
    ASSUME TypeOK, NEW woken \in SUBSET Threads, NEW result \in Results,
           NEW cancelTimer \in BOOLEAN, Wake(woken, result, cancelTimer)
    PROVE  /\ state' \in [Threads -> {"Runnable", "Waiting", "Terminated"}]
           /\ queue' \in [Threads -> {"None", "Sync", "Sleep"}]
           /\ objects' \in [Threads -> WaitLists \cup {<<>>}]
           /\ timedWait' \in [Threads -> BOOLEAN]
           /\ timers' \subseteq Threads
           /\ cancellable' \in [Threads -> BOOLEAN]
           /\ waitResult' \in [Threads -> Results]
           /\ returning' \subseteq Threads
<1>1. timers' \subseteq Threads /\ returning' \subseteq Threads
  BY DEF Wake, TypeOK
<1>2. /\ cancellable' \in [Threads -> BOOLEAN]
      /\ timedWait' \in [Threads -> BOOLEAN]
  BY Zenon DEF Wake, TypeOK
<1>3. /\ state' \in [Threads -> {"Runnable", "Waiting", "Terminated"}]
      /\ queue' \in [Threads -> {"None", "Sync", "Sleep"}]
      /\ objects' \in [Threads -> WaitLists \cup {<<>>}]
      /\ waitResult' \in [Threads -> Results]
  BY DEF Wake, TypeOK
<1>4. QED
  BY <1>1, <1>2, <1>3

\* The threads that wait for an object.
WaitersOf(o) == {t \in Threads : state[t] = "Waiting" /\ o \in ToSet(objects[t])}

\* NotifyAvailable wakes exactly these and gives each the first place of the object.
LEMMA NotifyFinds ==
    ASSUME WaitListsAssumption, TypeOK, NEW o \in Objects, NotifyAvailable(o)
    PROVE  /\ Wake(WaitersOf(o), "Success", TRUE)
           /\ \A t \in Threads \ WaitersOf(o) : syncedIndex'[t] = syncedIndex[t]
           /\ \A t \in WaitersOf(o) :
                /\ syncedIndex'[t] + 1 \in 1 .. Len(objects[t])
                /\ objects[t][syncedIndex'[t] + 1] = o
                /\ \A i \in 1 .. syncedIndex'[t] : objects[t][i] # o
           /\ syncedIndex' \in [Threads -> Indices]
<1>1. Wake(WaitersOf(o), "Success", TRUE)
  BY DEF NotifyAvailable, WaitersOf
<1>2. syncedIndex' = [t \in Threads |->
          IF t \in WaitersOf(o) THEN SelectInSeq(objects[t], LAMBDA x : x = o) - 1
          ELSE syncedIndex[t]]
  BY DEF NotifyAvailable, WaitersOf
<1>3. ASSUME NEW t \in WaitersOf(o)
      PROVE  /\ syncedIndex'[t] \in Indices
             /\ syncedIndex'[t] + 1 \in 1 .. Len(objects[t])
             /\ objects[t][syncedIndex'[t] + 1] = o
             /\ \A i \in 1 .. syncedIndex'[t] : objects[t][i] # o
  <2>1. t \in Threads /\ o \in ToSet(objects[t])
    BY DEF WaitersOf
  <2>2. objects[t] \in WaitLists /\ objects[t] \in Seq(Objects)
    BY <2>1 DEF TypeOK, WaitListsAssumption, ToSet
  <2>3. PICK k : k = SelectInSeq(objects[t], LAMBDA x : x = o)
    OBVIOUS
  <2>4. k = FirstPlace(objects[t], {o})
    BY <2>3 DEF SelectInSeq, FirstPlace, Places
  <2>5. k \in 1 .. Len(objects[t]) /\ objects[t][k] = o /\ \A i \in 1 .. k - 1 : objects[t][i] # o
    BY <2>1, <2>2, <2>4, FirstPlaceIsFirst
  <2>6. syncedIndex'[t] = k - 1
    BY <1>2, <2>1, <2>3
  <2>7. Len(objects[t]) \in Nat
    BY <2>2
  <2>8. syncedIndex'[t] \in 0 .. Len(objects[t]) - 1
    BY <2>5, <2>6, <2>7
  <2>9. syncedIndex'[t] \in Indices
    BY <2>2, <2>8 DEF Indices
  <2>10. syncedIndex'[t] + 1 = k
    BY <2>5, <2>6, <2>7
  <2>11. QED
    BY <2>5, <2>6, <2>9, <2>10
<1>4. \A t \in Threads \ WaitersOf(o) : syncedIndex'[t] = syncedIndex[t]
  BY <1>2
<1>5. \A t \in Threads : syncedIndex'[t] \in Indices
  BY <1>3, <1>4 DEF TypeOK
<1>6. syncedIndex' \in [Threads -> Indices]
  BY <1>2, <1>5
<1>7. QED
  BY <1>1, <1>3, <1>4, <1>6

\* Wait looks for the first signaled object of its array.
LEMMA WaitFinds ==
    ASSUME WaitListsAssumption, NEW objs \in WaitLists, NEW k,
           k = SelectInSeq(objs, LAMBDA o : o \in signaled)
    PROVE  /\ IF ToSet(objs) \cap signaled = {} THEN k = 0 ELSE k \in 1 .. Len(objs)
           /\ k # 0 => k - 1 \in Indices
<1>1. k = FirstPlace(objs, signaled)
  BY DEF SelectInSeq, FirstPlace, Places
<1>2. objs \in Seq(Objects) /\ Len(objs) \in Nat
  BY DEF WaitListsAssumption
<1>3. IF ToSet(objs) \cap signaled = {} THEN k = 0 ELSE k \in 1 .. Len(objs)
  BY <1>1, <1>2, FirstPlaceIsFirst
<1>4. k # 0 => k - 1 \in 0 .. Len(objs) - 1
  BY <1>2, <1>3
<1>5. QED
  BY <1>3, <1>4 DEF Indices

\* A wait that returns at once, or the thread that goes to sleep.
WaitAtOnce(t, objs, timeout) ==
    /\ \E result \in Results, index \in Indices : WaitReturns(t, result, index)
    /\ \/ UNCHANGED waitCancelled
       \/ /\ waitCancelled' = [waitCancelled EXCEPT ![t] = FALSE]
          /\ outResult' = [outResult EXCEPT ![t] = "Cancelled"]

WaitAsleep(t, objs, timeout) ==
    /\ t \notin termRequested /\ ToSet(objs) \cap signaled = {} /\ ~waitCancelled[t]
    /\ objects' = [objects EXCEPT ![t] = objs]
    /\ cancellable' = [cancellable EXCEPT ![t] = TRUE]
    /\ syncedIndex' = [syncedIndex EXCEPT ![t] = -1]
    /\ timedWait' = [timedWait EXCEPT ![t] = timeout = "Finite"]
    /\ state' = [state EXCEPT ![t] = "Waiting"]
    /\ queue' = [queue EXCEPT ![t] = "Sync"]
    /\ timers' = IF timeout = "Finite" THEN timers \cup {t} ELSE timers
    /\ UNCHANGED <<signaled, waitCancelled, waitResult, outVars, returning, termRequested>>

LEMMA WaitCases ==
    ASSUME WaitListsAssumption, NEW t \in Threads, NEW objs \in WaitLists,
           NEW timeout \in Timeouts, Wait(t, objs, timeout)
    PROVE  CanCall(t) /\ (WaitAtOnce(t, objs, timeout) \/ WaitAsleep(t, objs, timeout))
<1>1. PICK k : k = SelectInSeq(objs, LAMBDA o : o \in signaled)
  OBVIOUS
<1>2. /\ IF ToSet(objs) \cap signaled = {} THEN k = 0 ELSE k \in 1 .. Len(objs)
      /\ k # 0 => k - 1 \in Indices
  BY <1>1, WaitFinds
<1>3. k = 0 => ToSet(objs) \cap signaled = {}
  BY <1>2
<1>4. 0 \in Indices
  BY DEF Indices
<1>5. /\ CanCall(t)
      /\ \/ WaitReturns(t, "TerminationRequested", 0) /\ UNCHANGED waitCancelled
         \/ k # 0 /\ WaitReturns(t, "Success", k - 1) /\ UNCHANGED waitCancelled
         \/ WaitReturns(t, "TimedOut", 0) /\ UNCHANGED waitCancelled
         \/ /\ WaitReturns(t, "Cancelled", 0)
            /\ waitCancelled' = [waitCancelled EXCEPT ![t] = FALSE]
         \/ k = 0 /\ WaitAsleep(t, objs, timeout)
  BY <1>1, <1>3 DEF Wait, WaitAsleep
<1>6. ASSUME NEW r \in Results, NEW n \in Indices, WaitReturns(t, r, n), UNCHANGED waitCancelled
      PROVE  WaitAtOnce(t, objs, timeout)
  BY <1>6 DEF WaitAtOnce
<1>7. ASSUME WaitReturns(t, "Cancelled", 0), waitCancelled' = [waitCancelled EXCEPT ![t] = FALSE]
      PROVE  WaitAtOnce(t, objs, timeout)
  BY <1>4, <1>7 DEF WaitAtOnce, Results, WaitReturns
<1>8. QED
  BY <1>2, <1>4, <1>5, <1>6, <1>7 DEF Results

\* The type invariant.
LEMMA TypeStep ==
    ASSUME WaitListsAssumption, TypeOK, [Next]_vars
    PROVE  TypeOK'
<1>1. "Success" \in Results /\ "TimedOut" \in Results /\ "Cancelled" \in Results
      /\ "TerminationRequested" \in Results /\ 0 \in Indices /\ -1 \in Indices
  BY DEF Results, Indices
<1>2. ASSUME NEW t \in Threads, NEW objs \in WaitLists, NEW timeout \in Timeouts,
             Wait(t, objs, timeout)
      PROVE  TypeOK'
  <2>1. CASE WaitAtOnce(t, objs, timeout)
    <3>1. waitCancelled' \in [Threads -> BOOLEAN]
      BY <2>1 DEF WaitAtOnce, TypeOK
    <3>2. PICK result \in Results, index \in Indices : WaitReturns(t, result, index)
      BY <2>1 DEF WaitAtOnce
    <3>3. QED
      BY <3>1, <3>2 DEF WaitReturns, wakeVars, TypeOK
  <2>2. CASE WaitAsleep(t, objs, timeout)
    <3>1. /\ cancellable' \in [Threads -> BOOLEAN]
          /\ timedWait' \in [Threads -> BOOLEAN]
      BY <2>2 DEF WaitAsleep, TypeOK
    <3>2. QED
      BY <1>1, <2>2, <3>1 DEF WaitAsleep, outVars, TypeOK
  <2>3. QED
    BY <1>2, <2>1, <2>2, WaitCases
<1>3. ASSUME NEW t \in Threads, Return(t) \/ Leave(t) \/ Sleep(t) \/ Exit(t)
      PROVE  TypeOK'
  <2>1. CASE Return(t)
    BY <1>1, <2>1 DEF Return, TypeOK
  <2>2. CASE Leave(t)
    BY <1>1, <2>2 DEF Leave, wakeVars, TypeOK
  <2>3. CASE Sleep(t)
    BY <2>3 DEF Sleep, outVars, TypeOK
  <2>4. CASE Exit(t)
    BY <2>4 DEF Exit, outVars, TypeOK
  <2>5. QED
    BY <1>3, <2>1, <2>2, <2>3, <2>4
<1>4. ASSUME NEW o \in Objects, NotifyAvailable(o), signaled' = signaled \cup {o},
             UNCHANGED <<waitCancelled, outVars, termRequested>>
      PROVE  TypeOK'
  <2>1. WaitersOf(o) \in SUBSET Threads
    BY DEF WaitersOf
  <2>2. Wake(WaitersOf(o), "Success", TRUE) /\ syncedIndex' \in [Threads -> Indices]
    BY <1>4, NotifyFinds
  <2>3. QED
    BY <1>1, <1>4, <2>1, <2>2, WakeTyped DEF TypeOK, outVars
<1>5. ASSUME NEW t \in Threads, OnTimer(t) \/ WaitCancel(t) \/ RequestTerminate(t)
      PROVE  TypeOK'
  <2>1. ASSUME NEW result \in Results, NEW c \in BOOLEAN, CancelWait(t, result, c)
        PROVE  /\ state' \in [Threads -> {"Runnable", "Waiting", "Terminated"}]
               /\ queue' \in [Threads -> {"None", "Sync", "Sleep"}]
               /\ objects' \in [Threads -> WaitLists \cup {<<>>}]
               /\ timedWait' \in [Threads -> BOOLEAN]
               /\ timers' \subseteq Threads
               /\ cancellable' \in [Threads -> BOOLEAN]
               /\ waitResult' \in [Threads -> Results]
               /\ returning' \subseteq Threads
    <3>1. {t} \in SUBSET Threads
      OBVIOUS
    <3>2. Wake({t}, result, c)
      BY <2>1 DEF CancelWait
    <3>3. QED
      BY <3>1, <3>2, WakeTyped
  <2>2. CASE OnTimer(t)
    <3>1. CASE state[t] = "Waiting"
      <4>1. CancelWait(t, "TimedOut", FALSE)
        BY <2>2, <3>1 DEF OnTimer
      <4>2. QED
        BY <1>1, <2>1, <2>2, <4>1 DEF OnTimer, TypeOK, outVars
    <3>2. CASE state[t] # "Waiting"
      BY <2>2, <3>2 DEF OnTimer, TypeOK, outVars
    <3>3. QED
      BY <3>1, <3>2
  <2>3. CASE WaitCancel(t)
    <3>1. waitCancelled' \in [Threads -> BOOLEAN]
      BY <2>3 DEF WaitCancel, TypeOK
    <3>2. CASE CancelWait(t, "Cancelled", TRUE)
      BY <1>1, <2>1, <2>3, <3>1, <3>2 DEF WaitCancel, TypeOK, outVars
    <3>3. CASE UNCHANGED wakeVars
      BY <2>3, <3>1, <3>3 DEF WaitCancel, TypeOK, outVars, wakeVars
    <3>4. QED
      BY <2>3, <3>2, <3>3 DEF WaitCancel
  <2>4. CASE RequestTerminate(t)
    <3>1. CASE CancelWait(t, "TerminationRequested", TRUE)
      BY <1>1, <2>1, <2>4, <3>1 DEF RequestTerminate, TypeOK, outVars
    <3>2. CASE UNCHANGED wakeVars
      BY <2>4, <3>2 DEF RequestTerminate, TypeOK, outVars, wakeVars
    <3>3. QED
      BY <2>4, <3>1, <3>2 DEF RequestTerminate
  <2>5. QED
    BY <1>5, <2>2, <2>3, <2>4
<1>6. ASSUME NEW e \in Events, Reset(e)
      PROVE  TypeOK'
  BY <1>6 DEF Reset, wakeVars, outVars, TypeOK
<1>7. CASE UNCHANGED vars
  BY <1>7 DEF vars, TypeOK
<1>8. QED
  <2>1. ASSUME NEW t \in Threads, FinishTermination(t) PROVE TypeOK'
    BY <1>4, <2>1 DEF FinishTermination, Objects
  <2>2. ASSUME NEW e \in Events, Signal(e) PROVE TypeOK'
    BY <1>4, <2>2 DEF Signal, Objects
  <2>3. QED
    BY <1>2, <1>3, <1>5, <1>6, <1>7, <2>1, <2>2 DEF Next
-----------------------------------------------------------------------------
(***************************************************************************)
(* The invariant.                                                          *)
(***************************************************************************)

\* Waking waiting threads ends their waits and touches no other.
LEMMA WakeKeeps ==
    ASSUME TypeOK, WaitInv, NEW woken \in SUBSET Threads, NEW result \in Results,
           NEW cancelTimer \in BOOLEAN, Wake(woken, result, cancelTimer),
           \A t \in woken : state[t] = "Waiting"
    PROVE  /\ InQueueIffWaiting'
           /\ ObjectsOnlyInSyncWait'
           /\ TimedOnlyWhileWaiting'
           /\ ReturningRuns'
           /\ TimerOnlyWhileWaiting'
           /\ CancellableOnlyInSyncWait'
           /\ \A t \in Threads : state'[t] = "Waiting" => state[t] = "Waiting" /\ t \notin woken
           /\ \A t \in Threads : queue'[t] = "Sync" =>
                 queue[t] = "Sync" /\ t \notin woken /\ objects'[t] = objects[t]
<1>1. ASSUME NEW t \in Threads
      PROVE  /\ cancellable'[t] <=> cancellable[t] /\ t \notin woken
             /\ timedWait'[t] <=> timedWait[t] /\ t \notin woken
  BY Zenon DEF Wake
<1>2. ASSUME NEW t \in Threads
      PROVE  /\ state'[t] = IF t \in woken THEN "Runnable" ELSE state[t]
             /\ queue'[t] = IF t \in woken THEN "None" ELSE queue[t]
             /\ objects'[t] = IF t \in woken THEN <<>> ELSE objects[t]
  BY DEF Wake
<1>3. InQueueIffWaiting' /\ ObjectsOnlyInSyncWait'
  BY <1>2 DEF InQueueIffWaiting, ObjectsOnlyInSyncWait, WaitInv
<1>4. TimedOnlyWhileWaiting'
  BY <1>1, <1>2 DEF TimedOnlyWhileWaiting, WaitInv
<1>5. ReturningRuns'
  BY <1>2 DEF ReturningRuns, WaitInv, Wake, TypeOK
<1>6. TimerOnlyWhileWaiting'
  BY <1>1, <1>2 DEF TimerOnlyWhileWaiting, WaitInv, Wake
<1>7. CancellableOnlyInSyncWait'
  BY <1>1, <1>2 DEF CancellableOnlyInSyncWait, WaitInv
<1>8. QED
  BY <1>2, <1>3, <1>4, <1>5, <1>6, <1>7

\* The signal of an object: the threads that wait for it wake up, so the others still wait
\* for unsignaled ones.
LEMMA SignalKeeps ==
    ASSUME WaitListsAssumption, TypeOK, WaitInv, NEW o \in Objects, NotifyAvailable(o),
           signaled' = signaled \cup {o}, UNCHANGED <<waitCancelled, termRequested>>
    PROVE  WaitInv'
<1>1. WaitersOf(o) \in SUBSET Threads /\ \A t \in WaitersOf(o) : state[t] = "Waiting"
  BY DEF WaitersOf
<1>2. Wake(WaitersOf(o), "Success", TRUE) /\ "Success" \in Results
  BY NotifyFinds DEF Results
<1>3. /\ InQueueIffWaiting' /\ ObjectsOnlyInSyncWait' /\ TimedOnlyWhileWaiting'
      /\ ReturningRuns' /\ TimerOnlyWhileWaiting' /\ CancellableOnlyInSyncWait'
      /\ \A t \in Threads : state'[t] = "Waiting" => state[t] = "Waiting" /\ t \notin WaitersOf(o)
      /\ \A t \in Threads : queue'[t] = "Sync" =>
            queue[t] = "Sync" /\ t \notin WaitersOf(o) /\ objects'[t] = objects[t]
  BY <1>1, <1>2, WakeKeeps
<1>4. NoMissedSignal'
  <2> SUFFICES ASSUME NEW t \in Threads, queue'[t] = "Sync"
               PROVE  ToSet(objects'[t]) \cap signaled' = {}
    BY DEF NoMissedSignal
  <2>1. queue[t] = "Sync" /\ objects'[t] = objects[t] /\ o \notin ToSet(objects[t])
    BY <1>3 DEF WaitersOf, WaitInv, InQueueIffWaiting
  <2>2. QED
    BY <2>1 DEF WaitInv, NoMissedSignal
<1>5. TerminatingNeverWaits'
  BY <1>3 DEF WaitInv, TerminatingNeverWaits, TypeOK
<1>6. NoCancellationKept'
  BY <1>3 DEF WaitInv, NoCancellationKept
<1>7. QED
  BY <1>3, <1>4, <1>5, <1>6 DEF WaitInv

\* The timer, a cancellation and a termination request end the wait of one thread.
LEMMA CancelKeeps ==
    ASSUME TypeOK, WaitInv, NEW t \in Threads, NEW result \in Results, NEW c \in BOOLEAN,
           CancelWait(t, result, c), state[t] = "Waiting", UNCHANGED signaled,
           termRequested' \subseteq termRequested \cup {t},
           \A u \in Threads : waitCancelled'[u] => waitCancelled[u]
    PROVE  WaitInv'
<1> DEFINE W == {t}
<1>1. Wake(W, result, c) /\ W \in SUBSET Threads /\ \A u \in W : state[u] = "Waiting"
  BY DEF CancelWait
<1> HIDE DEF W
<1>2. /\ InQueueIffWaiting' /\ ObjectsOnlyInSyncWait' /\ TimedOnlyWhileWaiting'
      /\ ReturningRuns' /\ TimerOnlyWhileWaiting' /\ CancellableOnlyInSyncWait'
      /\ \A u \in Threads : state'[u] = "Waiting" => state[u] = "Waiting" /\ u \notin W
      /\ \A u \in Threads : queue'[u] = "Sync" =>
            queue[u] = "Sync" /\ u \notin W /\ objects'[u] = objects[u]
  BY <1>1, WakeKeeps
<1>3. NoMissedSignal'
  BY <1>2 DEF WaitInv, NoMissedSignal
<1>4. TerminatingNeverWaits'
  BY <1>2 DEF WaitInv, TerminatingNeverWaits, TypeOK, W
<1>5. NoCancellationKept'
  BY <1>2, Zenon DEF WaitInv, NoCancellationKept
<1>6. QED
  BY <1>2, <1>3, <1>4, <1>5 DEF WaitInv

\* WaitInv is inductive.
LEMMA InvStep ==
    ASSUME WaitListsAssumption, TypeOK, WaitInv, [Next]_vars
    PROVE  WaitInv'
<1> USE DEF WaitInv, InQueueIffWaiting, ObjectsOnlyInSyncWait, TimedOnlyWhileWaiting,
            ReturningRuns, NoCancellationKept, NoMissedSignal, TimerOnlyWhileWaiting,
            CancellableOnlyInSyncWait, TerminatingNeverWaits
<1>1. ASSUME NEW t \in Threads, NEW objs \in WaitLists, NEW timeout \in Timeouts,
             Wait(t, objs, timeout)
      PROVE  WaitInv'
  <2>1. CanCall(t) /\ (WaitAtOnce(t, objs, timeout) \/ WaitAsleep(t, objs, timeout))
    BY <1>1, WaitCases
  <2>2. CASE WaitAtOnce(t, objs, timeout)
    <3>1. UNCHANGED <<signaled, wakeVars, termRequested>>
      BY <2>2 DEF WaitAtOnce, WaitReturns
    <3>2. \A u \in Threads : waitCancelled'[u] => waitCancelled[u]
      BY <2>2 DEF WaitAtOnce, TypeOK
    <3>3. QED
      BY <3>1, <3>2 DEF wakeVars
  <2>3. CASE WaitAsleep(t, objs, timeout)
    <3>1. \A u \in Threads \ {t} :
             /\ state'[u] = state[u] /\ queue'[u] = queue[u] /\ objects'[u] = objects[u]
             /\ timedWait'[u] = timedWait[u] /\ cancellable'[u] = cancellable[u]
      BY <2>3 DEF WaitAsleep, TypeOK
    <3>2. /\ state'[t] = "Waiting" /\ queue'[t] = "Sync" /\ objects'[t] = objs
          /\ timedWait'[t] = (timeout = "Finite") /\ cancellable'[t] = TRUE
          /\ t \notin termRequested /\ ToSet(objs) \cap signaled = {} /\ ~waitCancelled[t]
      BY <2>3 DEF WaitAsleep, TypeOK
    <3>3. UNCHANGED <<signaled, waitCancelled, returning, termRequested>>
      BY <2>3 DEF WaitAsleep
    <3>4. state[t] = "Runnable" /\ t \notin returning /\ t \notin timers
      BY <2>1 DEF CanCall
    <3>5. timers' = IF timeout = "Finite" THEN timers \cup {t} ELSE timers
      BY <2>3 DEF WaitAsleep
    <3>6. InQueueIffWaiting' /\ ObjectsOnlyInSyncWait' /\ NoMissedSignal'
          /\ ReturningRuns' /\ TerminatingNeverWaits' /\ NoCancellationKept'
      <4>1. InQueueIffWaiting' /\ ObjectsOnlyInSyncWait'
        BY <3>1, <3>2
      <4>2. NoMissedSignal'
        BY <3>1, <3>2, <3>3
      <4>3. ReturningRuns' /\ TerminatingNeverWaits'
        BY <3>1, <3>2, <3>3, <3>4 DEF TypeOK
      <4>4. NoCancellationKept'
        BY <3>1, <3>2, <3>3
      <4>5. QED
        BY <4>1, <4>2, <4>3, <4>4
    <3>7. TimedOnlyWhileWaiting' /\ TimerOnlyWhileWaiting'
      <4>1. TimedOnlyWhileWaiting'
        BY <3>1, <3>2
      <4>2. TimerOnlyWhileWaiting'
        BY <3>1, <3>2, <3>4, <3>5
      <4>3. QED
        BY <4>1, <4>2
    <3>8. CancellableOnlyInSyncWait'
      BY <3>1, <3>2
    <3>9. QED
      BY <3>6, <3>7, <3>8
  <2>4. QED
    BY <2>1, <2>2, <2>3
<1>2. ASSUME NEW t \in Threads, Return(t) PROVE WaitInv'
  BY <1>2 DEF Return
<1>3. ASSUME NEW t \in Threads, Leave(t) PROVE WaitInv'
  BY <1>3 DEF Leave, wakeVars
<1>4. ASSUME NEW t \in Threads, Sleep(t) PROVE WaitInv'
  <2>1. state[t] = "Runnable" /\ t \notin returning /\ t \notin timers /\ t \notin termRequested
        /\ queue[t] = "None"
    BY <1>4 DEF Sleep, CanCall, TypeOK
  <2>2. \A u \in Threads \ {t} :
           state'[u] = state[u] /\ queue'[u] = queue[u] /\ timedWait'[u] = timedWait[u]
    BY <1>4 DEF Sleep, TypeOK
  <2>3. state'[t] = "Waiting" /\ queue'[t] = "Sleep" /\ timedWait'[t] = TRUE
    BY <1>4 DEF Sleep, TypeOK
  <2>4. /\ timers' = timers \cup {t}
        /\ UNCHANGED <<signaled, objects, cancellable, waitCancelled, returning, termRequested>>
    BY <1>4 DEF Sleep
  <2>5. QED
    BY <2>1, <2>2, <2>3, <2>4 DEF TypeOK
<1>5. ASSUME NEW t \in Threads, Exit(t) PROVE WaitInv'
  <2>1. state[t] = "Runnable" /\ t \notin returning
    BY <1>5 DEF Exit, CanCall
  <2>2. /\ \A u \in Threads \ {t} : state'[u] = state[u]
        /\ state'[t] = "Terminated"
    BY <1>5 DEF Exit, TypeOK
  <2>3. UNCHANGED <<signaled, queue, objects, timedWait, timers, cancellable, waitCancelled,
                    returning, termRequested>>
    BY <1>5 DEF Exit
  <2>4. QED
    BY <2>1, <2>2, <2>3 DEF TypeOK
<1>6. ASSUME NEW t \in Threads, OnTimer(t) PROVE WaitInv'
  <2>1. state[t] = "Waiting" /\ "TimedOut" \in Results
    BY <1>6 DEF OnTimer, Results
  <2>2. CancelWait(t, "TimedOut", FALSE) /\ UNCHANGED <<signaled, waitCancelled, termRequested>>
    BY <1>6, <2>1 DEF OnTimer
  <2>3. QED
    BY <2>1, <2>2, CancelKeeps
<1>7. ASSUME NEW t \in Threads, WaitCancel(t) PROVE WaitInv'
  <2>1. CASE state[t] = "Waiting" /\ cancellable[t]
    <3>1. /\ CancelWait(t, "Cancelled", TRUE) /\ "Cancelled" \in Results
          /\ UNCHANGED <<signaled, termRequested>>
      BY <1>7, <2>1 DEF WaitCancel, Results
    <3>2. \A u \in Threads : waitCancelled'[u] => waitCancelled[u]
      BY <1>7, <2>1 DEF WaitCancel, TypeOK
    <3>3. QED
      BY <2>1, <3>1, <3>2, CancelKeeps
  <2>2. CASE ~(state[t] = "Waiting" /\ cancellable[t])
    <3>1. UNCHANGED <<signaled, wakeVars, termRequested>>
      BY <1>7, <2>2 DEF WaitCancel
    <3>2. queue[t] # "Sync"
      BY <2>2
    <3>3. waitCancelled' = [waitCancelled EXCEPT ![t] = TRUE]
      BY <1>7, <2>2 DEF WaitCancel
    <3>4. \A u \in Threads \ {t} : waitCancelled'[u] = waitCancelled[u]
      BY <3>3 DEF TypeOK
    <3>5. QED
      BY <3>1, <3>2, <3>4 DEF wakeVars
  <2>3. QED
    BY <2>1, <2>2
<1>8. ASSUME NEW t \in Threads, RequestTerminate(t) PROVE WaitInv'
  <2>1. termRequested' = termRequested \cup {t} /\ UNCHANGED <<signaled, waitCancelled>>
    BY <1>8 DEF RequestTerminate
  <2>2. CASE state[t] = "Waiting"
    <3>1. CancelWait(t, "TerminationRequested", TRUE) /\ "TerminationRequested" \in Results
      BY <1>8, <2>2 DEF RequestTerminate, Results
    <3>2. QED
      BY <2>1, <2>2, <3>1, CancelKeeps
  <2>3. CASE state[t] # "Waiting"
    BY <1>8, <2>1, <2>3 DEF RequestTerminate, wakeVars
  <2>4. QED
    BY <2>2, <2>3
<1>9. ASSUME NEW t \in Threads, FinishTermination(t) PROVE WaitInv'
  BY <1>9, SignalKeeps DEF FinishTermination, Objects
<1>10. ASSUME NEW e \in Events, Signal(e) PROVE WaitInv'
  BY <1>10, SignalKeeps DEF Signal, Objects
<1>11. ASSUME NEW e \in Events, Reset(e) PROVE WaitInv'
  BY <1>11 DEF Reset, wakeVars
<1>12. CASE UNCHANGED vars
  BY <1>12 DEF vars
<1>13. QED
  BY <1>1, <1>2, <1>3, <1>4, <1>5, <1>6, <1>7, <1>8, <1>9, <1>10, <1>11, <1>12 DEF Next

\* Nothing waits at the start.
LEMMA InitInv == Init => TypeOK /\ WaitInv
  BY DEF Init, TypeOK, WaitInv, InQueueIffWaiting, ObjectsOnlyInSyncWait, TimedOnlyWhileWaiting,
         ReturningRuns, NoCancellationKept, NoMissedSignal, TimerOnlyWhileWaiting,
         CancellableOnlyInSyncWait, TerminatingNeverWaits, Indices, Results

\* The wait protocol, for any threads, events and arrays: no thread sleeps on a signaled
\* object, a thread has a timer task exactly while it is in a wait with a time-out, only
\* waits for objects can be cancelled, and a terminating thread never waits.
THEOREM WaitsAreSound == ASSUME WaitListsAssumption PROVE Spec => []WaitInvariant
<1>1. Init => TypeOK /\ WaitInv
  BY InitInv
<1>2. TypeOK /\ WaitInv /\ [Next]_vars => (TypeOK /\ WaitInv)'
  BY TypeStep, InvStep
<1>3. TypeOK /\ WaitInv => WaitInvariant
  BY DEF WaitInv, WaitInvariant
<1>4. QED
  BY <1>1, <1>2, <1>3, PTL DEF Spec
-----------------------------------------------------------------------------
(***************************************************************************)
(* What a wait returns.                                                    *)
(***************************************************************************)

\* The steps WokenBySignaledObject, ResultIsStable and CancellationNotLost allow.
WokenStep ==
    \A t \in Threads :
        queue[t] = "Sync" /\ queue'[t] = "None" /\ waitResult'[t] = "Success" =>
            /\ syncedIndex'[t] + 1 \in DOMAIN objects[t]
            /\ objects[t][syncedIndex'[t] + 1] \in signaled'
            /\ \A i \in 1 .. syncedIndex'[t] : objects[t][i] \notin signaled'

StableStep ==
    \A t \in Threads : t \in returning /\ t \in returning' =>
        syncedIndex'[t] = syncedIndex[t] /\ waitResult'[t] = waitResult[t]

CancelledStep ==
    \A t \in Threads : waitCancelled[t] /\ ~waitCancelled'[t] => outResult'[t] = "Cancelled"

\* The signal of an object wakes its waiters with its first place in their arrays, before
\* which nothing was signaled, and leaves the results of threads that are awake.
LEMMA SignalOutcome ==
    ASSUME WaitListsAssumption, TypeOK, WaitInv, NEW o \in Objects, NotifyAvailable(o),
           signaled' = signaled \cup {o}
    PROVE  WokenStep /\ StableStep
<1>1. /\ Wake(WaitersOf(o), "Success", TRUE)
      /\ \A t \in Threads \ WaitersOf(o) : syncedIndex'[t] = syncedIndex[t]
      /\ \A t \in WaitersOf(o) :
           /\ syncedIndex'[t] + 1 \in 1 .. Len(objects[t])
           /\ objects[t][syncedIndex'[t] + 1] = o
           /\ \A i \in 1 .. syncedIndex'[t] : objects[t][i] # o
      /\ syncedIndex' \in [Threads -> Indices]
  BY NotifyFinds
<1>2. ASSUME NEW t \in Threads, queue[t] = "Sync", queue'[t] = "None"
      PROVE  /\ syncedIndex'[t] + 1 \in DOMAIN objects[t]
             /\ objects[t][syncedIndex'[t] + 1] \in signaled'
             /\ \A i \in 1 .. syncedIndex'[t] : objects[t][i] \notin signaled'
  <2>1. t \in WaitersOf(o)
    BY <1>1, <1>2 DEF Wake
  <2>2. objects[t] \in WaitLists \cup {<<>>} /\ <<>> \in Seq(Objects)
    BY DEF TypeOK
  <2>3. objects[t] \in Seq(Objects)
    BY <2>2 DEF WaitListsAssumption
  <2>4. Len(objects[t]) \in Nat /\ DOMAIN objects[t] = 1 .. Len(objects[t])
    BY <2>3
  <2>5. \A i \in DOMAIN objects[t] : objects[t][i] \notin signaled
    BY <1>2 DEF WaitInv, NoMissedSignal, ToSet
  <2>6. syncedIndex'[t] \in Int
    BY <1>1 DEF Indices, WaitListsAssumption
  <2>7. \A i \in 1 .. syncedIndex'[t] : i \in DOMAIN objects[t]
    BY <1>1, <2>1, <2>4, <2>6
  <2>8. QED
    BY <1>1, <2>1, <2>4, <2>5, <2>7
<1>3. ASSUME NEW t \in Threads, t \in returning
      PROVE  syncedIndex'[t] = syncedIndex[t] /\ waitResult'[t] = waitResult[t]
  <2>1. t \notin WaitersOf(o)
    BY <1>3 DEF WaitersOf, WaitInv, ReturningRuns
  <2>2. QED
    BY <1>1, <2>1 DEF Wake
<1>4. QED
  BY <1>2, <1>3 DEF WokenStep, StableStep

\* The end of a wait for another reason says so.
LEMMA CancelOutcome ==
    ASSUME TypeOK, WaitInv, NEW t \in Threads, NEW result \in Results, NEW c \in BOOLEAN,
           CancelWait(t, result, c), state[t] = "Waiting", result # "Success",
           UNCHANGED syncedIndex
    PROVE  WokenStep /\ StableStep
<1>1. \A u \in Threads :
         /\ waitResult'[u] = IF u = t THEN result ELSE waitResult[u]
         /\ queue'[u] = IF u = t THEN "None" ELSE queue[u]
  BY DEF CancelWait, Wake
<1>2. t \notin returning
  BY DEF WaitInv, ReturningRuns
<1>3. QED
  BY <1>1, <1>2 DEF WokenStep, StableStep

\* Every step is of the three kinds.
LEMMA OutcomeStep ==
    ASSUME WaitListsAssumption, TypeOK, WaitInv, [Next]_vars
    PROVE  WokenStep /\ StableStep /\ CancelledStep
<1>1. ASSUME NEW t \in Threads, NEW objs \in WaitLists, NEW timeout \in Timeouts,
             Wait(t, objs, timeout)
      PROVE  WokenStep /\ StableStep /\ CancelledStep
  <2>1. CanCall(t) /\ (WaitAtOnce(t, objs, timeout) \/ WaitAsleep(t, objs, timeout))
    BY <1>1, WaitCases
  <2>2. CASE WaitAtOnce(t, objs, timeout)
    <3>1. UNCHANGED <<queue, waitResult, syncedIndex>>
      BY <2>2 DEF WaitAtOnce, WaitReturns, wakeVars
    <3>2. CancelledStep
      BY <2>2 DEF WaitAtOnce, TypeOK, CancelledStep
    <3>3. QED
      BY <3>1, <3>2 DEF WokenStep, StableStep
  <2>3. CASE WaitAsleep(t, objs, timeout)
    <3>1. \A u \in Threads : queue'[u] = queue[u] \/ queue'[u] = "Sync"
      BY <2>3 DEF WaitAsleep, TypeOK
    <3>2. \A u \in Threads \ {t} : syncedIndex'[u] = syncedIndex[u]
      BY <2>3 DEF WaitAsleep, TypeOK
    <3>3. t \notin returning /\ UNCHANGED <<waitCancelled, waitResult>>
      BY <2>1, <2>3 DEF CanCall, WaitAsleep
    <3>4. QED
      BY <3>1, <3>2, <3>3 DEF WokenStep, StableStep, CancelledStep
  <2>4. QED
    BY <2>1, <2>2, <2>3
<1>2. ASSUME NEW t \in Threads, Return(t) PROVE WokenStep /\ StableStep /\ CancelledStep
  BY <1>2 DEF Return, TypeOK, WokenStep, StableStep, CancelledStep
<1>3. ASSUME NEW t \in Threads, Leave(t) PROVE WokenStep /\ StableStep /\ CancelledStep
  BY <1>3 DEF Leave, wakeVars, WokenStep, StableStep, CancelledStep
<1>4. ASSUME NEW t \in Threads, Sleep(t) PROVE WokenStep /\ StableStep /\ CancelledStep
  BY <1>4 DEF Sleep, TypeOK, WokenStep, StableStep, CancelledStep
<1>5. ASSUME NEW t \in Threads, Exit(t) PROVE WokenStep /\ StableStep /\ CancelledStep
  BY <1>5 DEF Exit, WokenStep, StableStep, CancelledStep
<1>6. ASSUME NEW t \in Threads, OnTimer(t) PROVE WokenStep /\ StableStep /\ CancelledStep
  <2>1. state[t] = "Waiting" /\ "TimedOut" \in Results
    BY <1>6 DEF OnTimer, WaitInv, TimerOnlyWhileWaiting, Results
  <2>2. CancelWait(t, "TimedOut", FALSE) /\ UNCHANGED <<syncedIndex, waitCancelled>>
    BY <1>6, <2>1 DEF OnTimer
  <2>3. QED
    BY <2>1, <2>2, CancelOutcome DEF CancelledStep
<1>7. ASSUME NEW t \in Threads, WaitCancel(t) PROVE WokenStep /\ StableStep /\ CancelledStep
  <2>1. CASE state[t] = "Waiting" /\ cancellable[t]
    <3>1. /\ CancelWait(t, "Cancelled", TRUE) /\ "Cancelled" \in Results
          /\ UNCHANGED syncedIndex
          /\ waitCancelled' = [waitCancelled EXCEPT ![t] = FALSE]
      BY <1>7, <2>1 DEF WaitCancel, Results
    <3>2. ~waitCancelled[t]
      BY <2>1 DEF WaitInv, CancellableOnlyInSyncWait, NoCancellationKept
    <3>3. CancelledStep
      BY <3>1, <3>2 DEF TypeOK, CancelledStep
    <3>4. QED
      BY <2>1, <3>1, <3>3, CancelOutcome
  <2>2. CASE ~(state[t] = "Waiting" /\ cancellable[t])
    <3>1. UNCHANGED <<wakeVars, syncedIndex>> /\ waitCancelled' = [waitCancelled EXCEPT ![t] = TRUE]
      BY <1>7, <2>2 DEF WaitCancel
    <3>2. CancelledStep
      BY <3>1 DEF TypeOK, CancelledStep
    <3>3. QED
      BY <3>1, <3>2 DEF wakeVars, WokenStep, StableStep
  <2>3. QED
    BY <2>1, <2>2
<1>8. ASSUME NEW t \in Threads, RequestTerminate(t) PROVE WokenStep /\ StableStep /\ CancelledStep
  <2>1. UNCHANGED <<syncedIndex, waitCancelled>>
    BY <1>8 DEF RequestTerminate
  <2>2. CASE state[t] = "Waiting"
    <3>1. CancelWait(t, "TerminationRequested", TRUE) /\ "TerminationRequested" \in Results
      BY <1>8, <2>2 DEF RequestTerminate, Results
    <3>2. QED
      BY <2>1, <2>2, <3>1, CancelOutcome DEF CancelledStep
  <2>3. CASE state[t] # "Waiting"
    BY <1>8, <2>1, <2>3 DEF RequestTerminate, wakeVars, WokenStep, StableStep, CancelledStep
  <2>4. QED
    BY <2>2, <2>3
<1>9. ASSUME NEW t \in Threads, FinishTermination(t) PROVE WokenStep /\ StableStep /\ CancelledStep
  BY <1>9, SignalOutcome DEF FinishTermination, Objects, CancelledStep
<1>10. ASSUME NEW e \in Events, Signal(e) PROVE WokenStep /\ StableStep /\ CancelledStep
  BY <1>10, SignalOutcome DEF Signal, Objects, CancelledStep
<1>11. ASSUME NEW e \in Events, Reset(e) PROVE WokenStep /\ StableStep /\ CancelledStep
  BY <1>11 DEF Reset, wakeVars, WokenStep, StableStep, CancelledStep
<1>12. CASE UNCHANGED vars
  BY <1>12 DEF vars, WokenStep, StableStep, CancelledStep
<1>13. QED
  BY <1>1, <1>2, <1>3, <1>4, <1>5, <1>6, <1>7, <1>8, <1>9, <1>10, <1>11, <1>12 DEF Next

\* What a wait returns, for any threads, events and arrays: a successful one the first
\* signaled object of its array, with nothing between the wake-up and the return to change
\* its result; and no cancellation is lost.
THEOREM OutcomeIsRight == ASSUME WaitListsAssumption PROVE Spec => WaitOutcome
<1>1. Init => TypeOK /\ WaitInv
  BY InitInv
<1>2. TypeOK /\ WaitInv /\ [Next]_vars => (TypeOK /\ WaitInv)'
  BY TypeStep, InvStep
<1>3. TypeOK /\ WaitInv /\ [Next]_vars
          => [WokenStep]_vars /\ [StableStep]_vars /\ [CancelledStep]_vars
  BY OutcomeStep
<1>4. QED
  BY <1>1, <1>2, <1>3, PTL
     DEF Spec, WaitOutcome, WokenBySignaledObject, ResultIsStable, CancellationNotLost,
         WokenStep, StableStep, CancelledStep
=============================================================================
