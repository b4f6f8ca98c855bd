----------------------- MODULE KSynchronizationObject -----------------------
(***************************************************************************)
(* Waiting for kernel objects: KSynchronizationObject::Wait and            *)
(* NotifyAvailable, readable events, KThread as an object that is signaled *)
(* when the thread has ended, wait cancellation, time-outs, KThread::Sleep *)
(* and termination requests.                                               *)
(*                                                                         *)
(* Every operation runs under the scheduler lock and is one step.  What    *)
(* wakes a thread writes its synced index and wait result; the thread      *)
(* reads them later, without the lock.                                     *)
(*                                                                         *)
(* The nodes a waiting thread links into the lists of its objects are left *)
(* to ThreadList, which shows that a walk over an object's list meets      *)
(* exactly the threads that wait for it; here the waiters of an object are *)
(* the threads whose object array has it.  The timer is abstract too: a    *)
(* registered thread may time out at any moment.                           *)
(***************************************************************************)
EXTENDS Integers, Sequences, SequencesExt

CONSTANTS
    Threads,        \* KThread objects
    Events,         \* KReadableEvent objects
    WaitLists       \* the object arrays passed to Wait (an object may be repeated)

Objects == Events \cup Threads

ObjectsAssumption == Events \cap Threads = {}
WaitListsAssumption == WaitLists \subseteq Seq(Objects)

Timeouts == {"Zero", "Finite", "Infinite"}
Results == {"Success", "TimedOut", "Cancelled", "TerminationRequested"}
Indices == {-1, 0} \cup UNION {0 .. Len(l) - 1 : l \in WaitLists}

VARIABLES
    signaled,       \* the signaled objects (m_is_signaled, KThread::m_signaled)
    state,          \* state[t]: ThreadState
    queue,          \* queue[t]: m_wait_queue's kind: "None", "Sync" or "Sleep"
    objects,        \* objects[t]: the list of the Wait in progress
    timedWait,      \* timedWait[t]: the wait queue has a hardware timer
    timers,         \* the threads registered in the hardware timer
    cancellable,    \* cancellable[t]: m_cancellable
    waitCancelled,  \* waitCancelled[t]: m_wait_cancelled
    syncedIndex,    \* syncedIndex[t]: m_synced_index
    waitResult,     \* waitResult[t]: m_wait_result
    outIndex,       \* outIndex[t]: *out_index of the Wait that t returns from
    outResult,      \* outResult[t]: its result, or "None" outside a return
    returning,      \* the threads that are runnable again but still inside Wait
    termRequested   \* the threads with m_termination_requested

wakeVars == <<state, queue, objects, timedWait, timers, cancellable, waitResult, returning>>
vars == <<signaled, state, queue, objects, timedWait, timers,
          cancellable, waitCancelled, syncedIndex, waitResult, outIndex, outResult,
          returning, termRequested>>
outVars == <<outIndex, outResult>>

TypeOK ==
    /\ signaled \subseteq Objects
    /\ state \in [Threads -> {"Runnable", "Waiting", "Terminated"}]
    /\ queue \in [Threads -> {"None", "Sync", "Sleep"}]
    /\ objects \in [Threads -> WaitLists \cup {<<>>}]
    /\ timedWait \in [Threads -> BOOLEAN]
    /\ timers \subseteq Threads
    /\ cancellable \in [Threads -> BOOLEAN]
    /\ waitCancelled \in [Threads -> BOOLEAN]
    /\ syncedIndex \in [Threads -> Indices]
    /\ waitResult \in [Threads -> Results]
    /\ outIndex \in [Threads -> Indices]
    /\ outResult \in [Threads -> Results \cup {"None"}]
    /\ returning \subseteq Threads
    /\ termRequested \subseteq Threads

Init ==
    /\ signaled = {}
    /\ state = [t \in Threads |-> "Runnable"]
    /\ queue = [t \in Threads |-> "None"]
    /\ objects = [t \in Threads |-> <<>>]
    /\ timedWait = [t \in Threads |-> FALSE]
    /\ timers = {}
    /\ cancellable = [t \in Threads |-> FALSE]
    /\ waitCancelled = [t \in Threads |-> FALSE]
    /\ syncedIndex = [t \in Threads |-> -1]
    /\ waitResult = [t \in Threads |-> "Success"]
    /\ outIndex = [t \in Threads |-> 0]
    /\ outResult = [t \in Threads |-> "None"]
    /\ returning = {}
    /\ termRequested = {}
-----------------------------------------------------------------------------
(***************************************************************************)
(* Waking a thread.                                                        *)
(***************************************************************************)

\* KThreadQueue::EndWait and CancelWait: result, runnable, no queue, and the
\* timer task of a timed wait cancelled (unless it is the timer that wakes it,
\* which has removed the task).  The wait queue of ThreadQueueImplForKSynchro-
\* nizationObjectWait also clears the cancellable flag and unlinks the nodes: the
\* thread no longer waits for its objects.
Wake(woken, result, cancelTimer) ==
    /\ cancellable' = [t \in Threads |-> cancellable[t] /\ t \notin woken]
    /\ state' = [t \in Threads |-> IF t \in woken THEN "Runnable" ELSE state[t]]
    /\ queue' = [t \in Threads |-> IF t \in woken THEN "None" ELSE queue[t]]
    /\ objects' = [t \in Threads |-> IF t \in woken THEN <<>> ELSE objects[t]]
    /\ timedWait' = [t \in Threads |-> timedWait[t] /\ t \notin woken]
    /\ waitResult' = [t \in Threads |-> IF t \in woken THEN result ELSE waitResult[t]]
    /\ timers' = IF cancelTimer THEN timers \ {t \in woken : timedWait[t]} ELSE timers \ woken
    /\ returning' = returning \cup {t \in woken : queue[t] = "Sync"}

\* KThread::CancelWait of one waiting thread.
CancelWait(t, result, cancelTimer) == Wake({t}, result, cancelTimer)

\* Mutant: the loop over the objects does not stop at the first match.
NotifyLastIndex(o) ==
    LET woken == {t \in Threads : state[t] = "Waiting" /\ o \in ToSet(objects[t])}
    IN  /\ syncedIndex' = [t \in Threads |->
               IF t \in woken THEN SelectLastInSeq(objects[t], LAMBDA x : x = o) - 1
               ELSE syncedIndex[t]]
        /\ Wake(woken, "Success", TRUE)

\* NotifyAvailable of an object that has become signaled: every thread in its
\* list gets the first index of the object in its array.
NotifyAvailable(o) ==
    LET woken == {t \in Threads : state[t] = "Waiting" /\ o \in ToSet(objects[t])}
    IN  /\ syncedIndex' = [t \in Threads |->
               IF t \in woken THEN SelectInSeq(objects[t], LAMBDA x : x = o) - 1
               ELSE syncedIndex[t]]
        /\ Wake(woken, "Success", TRUE)
-----------------------------------------------------------------------------
(***************************************************************************)
(* Operations of the waiting thread.                                       *)
(***************************************************************************)

\* The thread runs and is not inside a wait.
CanCall(t) == state[t] = "Runnable" /\ t \notin returning /\ outResult[t] = "None"

\* Wait returns at once, without sleeping.  Unless it found a signaled object it
\* leaves *out_index alone (0 in the system call's wrapper).
WaitReturns(t, result, index) ==
    /\ outResult' = [outResult EXCEPT ![t] = result]
    /\ outIndex' = [outIndex EXCEPT ![t] = index]
    /\ UNCHANGED <<signaled, wakeVars, syncedIndex, termRequested>>

\* Wait, in the order of its checks.
Wait(t, objs, timeout) ==
    LET first == SelectInSeq(objs, LAMBDA o : o \in signaled)
    IN  /\ CanCall(t)
        /\ \/ /\ t \in termRequested
              /\ WaitReturns(t, "TerminationRequested", 0)
              /\ UNCHANGED waitCancelled
           \/ /\ t \notin termRequested
              /\ first # 0
              /\ WaitReturns(t, "Success", first - 1)
              /\ UNCHANGED waitCancelled
           \/ /\ t \notin termRequested /\ first = 0
              /\ timeout = "Zero"
              /\ WaitReturns(t, "TimedOut", 0)
              /\ UNCHANGED waitCancelled
           \/ /\ t \notin termRequested /\ first = 0 /\ timeout # "Zero"
              /\ waitCancelled[t]
              /\ WaitReturns(t, "Cancelled", 0)
              /\ waitCancelled' = [waitCancelled EXCEPT ![t] = FALSE]
           \/ /\ t \notin termRequested /\ first = 0 /\ timeout # "Zero"
              /\ ~waitCancelled[t]
              /\ objects' = [objects EXCEPT ![t] = objs]
              /\ cancellable' = [cancellable EXCEPT ![t] = TRUE]
              /\ syncedIndex' = [syncedIndex EXCEPT ![t] = -1]
              /\ timedWait' = [timedWait EXCEPT ![t] = timeout = "Finite"]
              /\ state' = [state EXCEPT ![t] = "Waiting"]
              /\ queue' = [queue EXCEPT ![t] = "Sync"]
              /\ timers' = IF timeout = "Finite" THEN timers \cup {t} ELSE timers
              /\ UNCHANGED <<signaled, waitCancelled, waitResult, outVars, returning,
                             termRequested>>

\* The thread runs again in Wait, and reads the index and the result.  Both are
\* written again before they are next read: the model may forget them here.
Return(t) ==
    /\ t \in returning
    /\ returning' = returning \ {t}
    /\ outIndex' = [outIndex EXCEPT ![t] = syncedIndex[t]]
    /\ outResult' = [outResult EXCEPT ![t] = waitResult[t]]
    /\ syncedIndex' = [syncedIndex EXCEPT ![t] = -1]
    /\ waitResult' = [waitResult EXCEPT ![t] = "Success"]
    /\ UNCHANGED <<signaled, state, queue, objects, timedWait, timers, cancellable,
                   waitCancelled, termRequested>>

\* The system call returns to the program.
Leave(t) ==
    /\ outResult[t] # "None"
    /\ outIndex' = [outIndex EXCEPT ![t] = 0]
    /\ outResult' = [outResult EXCEPT ![t] = "None"]
    /\ UNCHANGED <<signaled, wakeVars, waitCancelled, syncedIndex, termRequested>>

\* KThread::Sleep.
Sleep(t) ==
    /\ CanCall(t)
    /\ t \notin termRequested
    /\ state' = [state EXCEPT ![t] = "Waiting"]
    /\ queue' = [queue EXCEPT ![t] = "Sleep"]
    /\ timedWait' = [timedWait EXCEPT ![t] = TRUE]
    /\ timers' = timers \cup {t}
    /\ UNCHANGED <<signaled, objects, cancellable, waitCancelled,
                   syncedIndex, waitResult, outVars, returning,
                   termRequested>>

\* KThread::Exit up to StartTermination; DoWorkerTask will finish it.
Exit(t) ==
    /\ CanCall(t)
    /\ state' = [state EXCEPT ![t] = "Terminated"]
    /\ UNCHANGED <<signaled, queue, objects, timedWait, timers, cancellable,
                   waitCancelled, syncedIndex, waitResult, outVars, returning,
                   termRequested>>
-----------------------------------------------------------------------------
(***************************************************************************)
(* Operations of others.                                                   *)
(***************************************************************************)

\* Mutant: Signal sets the flag and notifies nobody.
SignalWithoutNotify(e) ==
    /\ e \notin signaled
    /\ signaled' = signaled \cup {e}
    /\ UNCHANGED <<wakeVars, waitCancelled, syncedIndex, outVars, termRequested>>

Signal(e) ==
    /\ e \notin signaled
    /\ signaled' = signaled \cup {e}
    /\ NotifyAvailable(e)
    /\ UNCHANGED <<waitCancelled, outVars, termRequested>>

\* KReadableEvent::Reset and Clear (an error if the event is not signaled).
Reset(e) ==
    /\ e \in signaled
    /\ signaled' = signaled \ {e}
    /\ UNCHANGED <<wakeVars, waitCancelled, syncedIndex, outVars, termRequested>>

\* Mutant: the thread is signaled and those that wait for it are not told.
FinishUntold(t) ==
    /\ state[t] = "Terminated"
    /\ t \notin signaled
    /\ signaled' = signaled \cup {t}
    /\ UNCHANGED <<wakeVars, waitCancelled, syncedIndex, outVars, termRequested>>

\* KThread::FinishTermination, by the worker task.
FinishTermination(t) ==
    /\ state[t] = "Terminated"
    /\ t \notin signaled
    /\ signaled' = signaled \cup {t}
    /\ NotifyAvailable(t)
    /\ UNCHANGED <<waitCancelled, outVars, termRequested>>

\* The hardware timer removes the task and calls KThread::OnTimer.
OnTimer(t) ==
    /\ t \in timers
    /\ IF state[t] = "Waiting"
       THEN CancelWait(t, "TimedOut", FALSE)
       ELSE /\ timers' = timers \ {t}
            /\ UNCHANGED <<state, queue, objects, timedWait, cancellable, waitResult,
                           returning>>
    /\ UNCHANGED <<signaled, waitCancelled, syncedIndex, outVars, termRequested>>

\* svcCancelSynchronization.
WaitCancel(t) ==
    /\ IF state[t] = "Waiting" /\ cancellable[t]
       THEN /\ waitCancelled' = [waitCancelled EXCEPT ![t] = FALSE]
            /\ CancelWait(t, "Cancelled", TRUE)
       ELSE /\ waitCancelled' = [waitCancelled EXCEPT ![t] = TRUE]
            /\ UNCHANGED wakeVars
    /\ UNCHANGED <<signaled, syncedIndex, outVars, termRequested>>

RequestTerminate(t) ==
    /\ t \notin termRequested
    /\ termRequested' = termRequested \cup {t}
    /\ IF state[t] = "Waiting"
       THEN CancelWait(t, "TerminationRequested", TRUE)
       ELSE UNCHANGED wakeVars
    /\ UNCHANGED <<signaled, waitCancelled, syncedIndex, outVars>>
-----------------------------------------------------------------------------
Next ==
    \/ \E t \in Threads, objs \in WaitLists, timeout \in Timeouts : Wait(t, objs, timeout)
    \/ \E t \in Threads : \/ Return(t)
                          \/ Leave(t)
                          \/ Sleep(t)
                          \/ Exit(t)
                          \/ FinishTermination(t)
                          \/ OnTimer(t)
                          \/ WaitCancel(t)
                          \/ RequestTerminate(t)
    \/ \E e \in Events : Signal(e) \/ Reset(e)

Spec == Init /\ [][Next]_vars

\* The timer interrupt comes, and the worker thread that runs exit tasks runs.
Fairness ==
    \A t \in Threads : WF_vars(OnTimer(t)) /\ WF_vars(FinishTermination(t))
-----------------------------------------------------------------------------
\* No thread sleeps on an object that is signaled: neither a Wait that checked
\* before it linked its nodes nor a walk over the list can miss a signal.
NoMissedSignal ==
    \A t \in Threads : queue[t] = "Sync" => ToSet(objects[t]) \cap signaled = {}

\* A thread is registered in the hardware timer exactly while it is in a wait
\* with a time-out: an old time-out can never end a later wait, nor is the
\* intrusive task inserted twice.
TimerOnlyWhileWaiting ==
    \A t \in Threads : t \in timers <=> state[t] = "Waiting" /\ timedWait[t]

\* WaitCancel ends waits for objects only, never a sleep: the cancellable flag
\* does not outlive the wait that set it.
CancellableOnlyInSyncWait ==
    \A t \in Threads : cancellable[t] <=> queue[t] = "Sync"

\* A terminating thread is not waiting and will not wait again, so nothing can
\* delay its exit.
TerminatingNeverWaits == \A t \in termRequested : state[t] # "Waiting"

\* A thread that returns from Wait successfully was given the index of an object
\* that was signaled when it was woken, the first such one in its list.
WokenBySignaledObject ==
    [][\A t \in Threads :
          queue[t] = "Sync" /\ queue'[t] = "None" /\ waitResult'[t] = "Success" =>
              /\ syncedIndex'[t] + 1 \in DOMAIN objects[t]
              /\ objects[t][syncedIndex'[t] + 1] \in signaled'
              /\ \A i \in 1 .. syncedIndex'[t] : objects[t][i] \notin signaled']_vars

\* Between the wake-up and the (unlocked) reads of the index and the result,
\* nothing overwrites them.
ResultIsStable ==
    [][\A t \in Threads : t \in returning /\ t \in returning' =>
          syncedIndex'[t] = syncedIndex[t] /\ waitResult'[t] = waitResult[t]]_vars

\* A cancellation that did not find the thread in a cancellable wait is kept
\* until it cancels one: it is not lost.
CancellationNotLost ==
    [][\A t \in Threads :
          waitCancelled[t] /\ ~waitCancelled'[t] => outResult'[t] = "Cancelled"]_vars

\* The wait protocol, and what a wait returns.
WaitInvariant ==
    TypeOK /\ NoMissedSignal /\ TimerOnlyWhileWaiting /\ CancellableOnlyInSyncWait
           /\ TerminatingNeverWaits

WaitOutcome == WokenBySignaledObject /\ ResultIsStable /\ CancellationNotLost

\* A wait with a time-out ends, and so does waiting for a thread that exits.
WaitsEnd ==
    /\ \A t \in Threads : timedWait[t] /\ state[t] = "Waiting" ~> state[t] # "Waiting"
    /\ \A t \in Threads :
          queue[t] = "Sync" /\ (\E u \in ToSet(objects[t]) \cap Threads : state[u] = "Terminated")
              ~> queue[t] # "Sync"
=============================================================================
