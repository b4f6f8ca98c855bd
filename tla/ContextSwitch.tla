--------------------------- MODULE ContextSwitch ---------------------------
(***************************************************************************)
(* The context switch of KScheduler on several cores: reschedule flags,    *)
(* interprocessor interrupts, the run loop of PhysicalCore and CpuManager, *)
(* the context guards of the threads, and the end of a thread.             *)
(*                                                                         *)
(* Which threads the cores should run is decided under the scheduler lock; *)
(* here that is any choice of different threads (module KScheduler has the *)
(* selection).  Everything below it happens without that lock.  An idle    *)
(* thread belongs to its core and is written None.                         *)
(***************************************************************************)
EXTENDS Integers, FiniteSets, Functions

CONSTANTS
    NumCores,       \* NUM_CPU_CORES (4 in the code)
    Threads,
    None,           \* the idle thread, no core
    Host            \* a host thread that changes the selection (timer, service)

Cores == 0 .. NumCores - 1

CoresAssumption == NumCores \in Nat \ {0}
NamesAssumption == None \notin Threads \cup Cores /\ Host \notin Cores \cup {None}

VARIABLES
    highest,        \* m_state.highest_priority_thread of a core
    needs,          \* cores with m_state.needs_scheduling
    current,        \* m_current_thread of a core
    next,           \* highest_priority_thread of ScheduleImpl and its fiber
    pc,             \* place of a core, and of the host thread
    mask,           \* cores that a core or the host thread has yet to interrupt
    interrupted,    \* cores with m_is_interrupted
    halted,         \* cores whose guest code has been told to stop
    guard,          \* m_context_guard: the core that has locked it
    live,           \* the core that has a thread's registers, None if they are saved
    terminated,     \* threads with the DPC flag Terminated
    checked         \* cores that FinishTermination has found without the thread

cpuVars == <<interrupted, halted>>
threadVars == <<guard, live>>
endVars == <<terminated, checked>>
vars == <<highest, needs, current, next, pc, mask, cpuVars, threadVars, endVars>>

Places == {"Loop", "Guest", "Unlocked", "Schedule", "Read", "Unload", "TryLock", "Switch",
           "Check", "Retry", "Refresh", "Reload"}

TypeOK ==
    /\ highest \in [Cores -> Threads \cup {None}]
    /\ needs \subseteq Cores
    /\ current \in [Cores -> Threads \cup {None}] /\ next \in [Cores -> Threads \cup {None}]
    /\ pc \in [Cores \cup {Host} -> Places]
    /\ mask \in [Cores \cup {Host} -> SUBSET Cores] /\ \A c \in Cores : c \notin mask[c]
    /\ interrupted \subseteq Cores /\ halted \subseteq Cores
    /\ guard \in [Threads -> Cores \cup {None}] /\ live \in [Threads -> Cores \cup {None}]
    /\ terminated \subseteq Threads
    /\ checked \in [Threads -> 0 .. NumCores]

\* The cores idle.
Init ==
    /\ highest = [c \in Cores |-> None] /\ needs = {}
    /\ current = [c \in Cores |-> None] /\ next = [c \in Cores |-> None]
    /\ pc = [a \in Cores \cup {Host} |-> "Loop"]
    /\ mask = [a \in Cores \cup {Host} |-> {}]
    /\ interrupted = {} /\ halted = {}
    /\ guard = [t \in Threads |-> None] /\ live = [t \in Threads |-> None]
    /\ terminated = {} /\ checked = [t \in Threads |-> 0]

Goto(a, place) == pc' = [pc EXCEPT ![a] = place]
-----------------------------------------------------------------------------
(***************************************************************************)
(* The scheduler lock is released by a thread on core a, or by the host    *)
(* thread.                                                                 *)
(***************************************************************************)

\* What UpdateHighestPriorityThreadsImpl may choose: different threads that can run.
Selections ==
    {h \in [Cores -> Threads \cup {None}] :
        \A c, d \in Cores : /\ h[c] \notin terminated
                            /\ c # d /\ h[c] # None => h[c] # h[d]}

\* RescheduleOtherCores leaves out the core it runs on.
OtherCores(a, changed) == changed \ {a}

\* Unlock updates the highest priority threads and marks the cores that change.
Unlock(a, selection) ==
    LET changed == {c \in Cores : highest[c] # selection[c]} IN
    /\ highest' = selection
    /\ needs' = needs \cup changed
    /\ mask' = [mask EXCEPT ![a] = OtherCores(a, changed)]
    /\ Goto(a, "Unlocked")

\* A host thread changes which threads run, ...
HostUpdate ==
    /\ pc[Host] = "Loop"
    /\ \E selection \in Selections : Unlock(Host, selection)
    /\ UNCHANGED <<current, next, cpuVars, threadVars, endVars>>

\* ... or guest code does, by a system call.
SupervisorCall(c) ==
    /\ pc[c] = "Guest"
    /\ halted' = halted \ {c}
    /\ \E selection \in Selections : Unlock(c, selection)
    /\ UNCHANGED <<current, next, interrupted, threadVars, endVars>>

\* KThread::Exit, with the flag that keeps the context locked.
Exit(c) ==
    /\ pc[c] = "Guest"
    /\ halted' = halted \ {c}
    /\ terminated' = terminated \cup {current[c]}
    /\ \E selection \in Selections :
          (\A d \in Cores : selection[d] # current[c]) /\ Unlock(c, selection)
    /\ UNCHANGED <<current, next, interrupted, threadVars, checked>>

\* RescheduleOtherCores, or RescheduleCores by the host thread: one interrupt.
Interrupt(a) ==
    /\ pc[a] = "Unlocked"
    /\ \E c \in mask[a] :
          /\ mask' = [mask EXCEPT ![a] = @ \ {c}]
          /\ interrupted' = interrupted \cup {c}
          /\ halted' = IF pc[c] = "Guest" THEN halted \cup {c} ELSE halted
    /\ UNCHANGED <<highest, needs, current, next, pc, threadVars, endVars>>

\* RescheduleCurrentCore; the host thread has no core.
Reschedule(a) ==
    /\ pc[a] = "Unlocked" /\ mask[a] = {}
    /\ Goto(a, IF a \in needs THEN "Schedule" ELSE "Loop")
    /\ UNCHANGED <<highest, needs, current, next, mask, cpuVars, threadVars, endVars>>
-----------------------------------------------------------------------------
(***************************************************************************)
(* The run loop of a core.                                                 *)
(***************************************************************************)

\* Mutant: the interrupt is not looked at again under m_guard.
EnterAnyway(c) == TRUE

\* EnterContext looks at the interrupt again, under m_guard.
MayEnter(c) == c \notin interrupted

EnterContext(c) ==
    /\ pc[c] = "Loop" /\ current[c] # None
    /\ MayEnter(c)
    /\ Goto(c, "Guest")
    /\ UNCHANGED <<highest, needs, current, next, mask, cpuVars, threadVars, endVars>>

\* Guest code stops when it has been interrupted.
BreakLoop(c) ==
    /\ pc[c] = "Guest" /\ c \in halted
    /\ halted' = halted \ {c}
    /\ Goto(c, "Loop")
    /\ UNCHANGED <<highest, needs, current, next, mask, interrupted, threadVars, endVars>>

\* HandleInterrupt acknowledges the interrupt and schedules (the idle thread has waited
\* for it).
HandleInterrupt(c) ==
    /\ pc[c] = "Loop" /\ c \in interrupted
    /\ interrupted' = interrupted \ {c}
    /\ needs' = needs \cup {c}
    /\ Goto(c, "Schedule")
    /\ UNCHANGED <<highest, current, next, mask, halted, threadVars, endVars>>
-----------------------------------------------------------------------------
(***************************************************************************)
(* ScheduleImpl and ScheduleImplFiber.                                     *)
(***************************************************************************)

ClearNeeds(c) ==
    /\ pc[c] = "Schedule"
    /\ needs' = needs \ {c}
    /\ Goto(c, "Read")
    /\ UNCHANGED <<highest, current, next, mask, cpuVars, threadVars, endVars>>

ReadHighest(c) ==
    /\ pc[c] = "Read"
    /\ IF highest[c] # None /\ highest[c] = current[c]
       THEN Goto(c, "Loop") /\ UNCHANGED next
       ELSE Goto(c, "Unload") /\ next' = [next EXCEPT ![c] = highest[c]]
    /\ UNCHANGED <<highest, needs, current, mask, cpuVars, threadVars, endVars>>

\* Mutant: no guard is unlocked.
UnlockNothing(t) == guard

\* The guard of a thread that has terminated stays locked.
GuardAfterUnload(t) ==
    IF t = None \/ t \in terminated THEN guard ELSE [guard EXCEPT ![t] = None]

SaveContext(t) == IF t = None THEN live ELSE [live EXCEPT ![t] = None]

Unload(c) ==
    /\ pc[c] = "Unload"
    /\ live' = SaveContext(current[c])
    /\ guard' = GuardAfterUnload(current[c])
    /\ Goto(c, "TryLock")
    /\ UNCHANGED <<highest, needs, current, next, mask, cpuVars, endVars>>

Lockable(c) == next[c] # None => guard[next[c]] = None

TryLock(c) ==
    /\ pc[c] = "TryLock"
    /\ Lockable(c)
    /\ guard' = IF next[c] = None THEN guard ELSE [guard EXCEPT ![next[c]] = c]
    /\ Goto(c, "Switch")
    /\ UNCHANGED <<highest, needs, current, next, mask, cpuVars, live, endVars>>

\* The guard is not free; another core interferes.
MustRetry(c) == ~Lockable(c) /\ c \in needs

TryLockFails(c) ==
    /\ pc[c] = "TryLock"
    /\ MustRetry(c)
    /\ next' = [next EXCEPT ![c] = None]
    /\ Goto(c, "Retry")
    /\ UNCHANGED <<highest, needs, current, mask, cpuVars, threadVars, endVars>>

SwitchThread(c) ==
    /\ pc[c] = "Switch"
    /\ current' = [current EXCEPT ![c] = next[c]]
    /\ Goto(c, "Check")
    /\ UNCHANGED <<highest, needs, next, mask, cpuVars, threadVars, endVars>>

\* The decision was revised meanwhile: the guard is unlocked again.
CheckNeeds(c) ==
    /\ pc[c] = "Check"
    /\ IF c \in needs
       THEN /\ guard' = IF next[c] = None THEN guard ELSE [guard EXCEPT ![next[c]] = None]
            /\ next' = [next EXCEPT ![c] = None]
            /\ Goto(c, "Retry")
       ELSE UNCHANGED <<guard, next>> /\ Goto(c, "Reload")
    /\ UNCHANGED <<highest, needs, current, mask, cpuVars, live, endVars>>

Retry(c) ==
    /\ pc[c] = "Retry"
    /\ needs' = needs \ {c}
    /\ Goto(c, "Refresh")
    /\ UNCHANGED <<highest, current, next, mask, cpuVars, threadVars, endVars>>

Refresh(c) ==
    /\ pc[c] = "Refresh"
    /\ next' = [next EXCEPT ![c] = highest[c]]
    /\ Goto(c, "TryLock")
    /\ UNCHANGED <<highest, needs, current, mask, cpuVars, threadVars, endVars>>

\* The registers are loaded and the thread goes on where it stopped.
Reload(c) ==
    /\ pc[c] = "Reload"
    /\ live' = IF next[c] = None THEN live ELSE [live EXCEPT ![next[c]] = c]
    /\ next' = [next EXCEPT ![c] = None]
    /\ Goto(c, "Loop")
    /\ UNCHANGED <<highest, needs, current, mask, cpuVars, guard, endVars>>
-----------------------------------------------------------------------------
\* FinishTermination, on a worker thread, passes core after core, waiting for it to have
\* another current thread; then the thread may be freed.
FinishTermination(t) ==
    /\ t \in terminated /\ checked[t] < NumCores
    /\ current[checked[t]] # t
    /\ checked' = [checked EXCEPT ![t] = @ + 1]
    /\ UNCHANGED <<highest, needs, current, next, pc, mask, cpuVars, threadVars, terminated>>
-----------------------------------------------------------------------------
Switch(c) ==
    \/ ClearNeeds(c) \/ ReadHighest(c) \/ Unload(c)
    \/ TryLock(c) \/ TryLockFails(c) \/ SwitchThread(c) \/ CheckNeeds(c)
    \/ Retry(c) \/ Refresh(c) \/ Reload(c)

Run(c) ==
    \/ Interrupt(c) \/ Reschedule(c)
    \/ EnterContext(c) \/ BreakLoop(c) \/ HandleInterrupt(c)

Next ==
    \/ \E c \in Cores : Switch(c) \/ Run(c) \/ SupervisorCall(c) \/ Exit(c)
    \/ HostUpdate \/ Interrupt(Host) \/ Reschedule(Host)
    \/ \E t \in Threads : FinishTermination(t)

Spec == Init /\ [][Next]_vars

\* Host threads of the cores run; guest code need not make a system call.
Fairness ==
    /\ \A c \in Cores : WF_vars(Switch(c)) /\ WF_vars(Run(c))
    /\ WF_vars(Interrupt(Host)) /\ WF_vars(Reschedule(Host))
    /\ \A t \in Threads : WF_vars(FinishTermination(t))
-----------------------------------------------------------------------------
\* Core c executes its current thread, in guest or in kernel code.
Executes(c, t) ==
    current[c] = t /\ pc[c] \in {"Loop", "Guest", "Unlocked", "Schedule", "Read", "Unload"}

\* A thread executes on one core at most, and there with its own registers, however the
\* selection moves it while its old core is still switching away.
OneCorePerThread ==
    \A c \in Cores, t \in Threads :
        Executes(c, t) => /\ live[t] = c
                          /\ \A d \in Cores \ {c} : ~Executes(d, t)

\* Registers are loaded only after they have been saved.
SavedBeforeLoaded ==
    \A c \in Cores : pc[c] = "Reload" /\ next[c] # None => live[next[c]] = None

\* A core in its run loop that should run another thread has been or will be interrupted:
\* no change of the selection is lost between the flag, the interrupt and the switch.
NoLostReschedule ==
    \A c \in Cores : pc[c] \in {"Loop", "Guest"} /\ highest[c] # current[c] =>
        c \in interrupted \/ \E a \in Cores \cup {Host} : c \in mask[a]

\* When FinishTermination has passed all cores, no core has the thread or can get it.
FinishedUnused ==
    \A t \in Threads, c \in Cores : checked[t] = NumCores =>
        current[c] # t /\ (pc[c] \in {"Switch", "Check", "Reload"} => next[c] # t)

\* A core that waits for a guard holds none, but those of terminated threads that nobody
\* asks for: cores that exchange their threads do not wait for each other.
NoHoldAndWait ==
    \A c \in Cores, t \in Threads \ terminated : pc[c] = "TryLock" => guard[t] # c

\* A thread executes on one core at most, with registers that were saved before
\* they were loaded; a core that should run another thread has been or will be
\* interrupted; cores that exchange their threads do not wait for each other; and
\* a thread whose termination has finished is on no core.
SwitchInvariant ==
    TypeOK /\ OneCorePerThread /\ SavedBeforeLoaded /\ NoLostReschedule /\ NoHoldAndWait
           /\ FinishedUnused

\* The thread chosen for a core gets there, unless the choice changes.
SelectedRuns ==
    \A c \in Cores, t \in Threads :
        highest[c] = t ~> highest[c] # t \/ (pc[c] = "Guest" /\ current[c] = t)

\* The end of a thread is not held up by a core that keeps it as its current thread.
TerminationFinishes ==
    \A t \in Threads : t \in terminated ~> checked[t] = NumCores
=============================================================================
