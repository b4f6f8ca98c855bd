--------------------------- MODULE MCKernelThreads ---------------------------
(***************************************************************************)
(* Light locks (KLightLock), and cores that switch to the threads the      *)
(* scheduler chooses (ContextSwitch).  They share no variable and are      *)
(* explored one at a time: `explored' names the one that takes steps.      *)
(***************************************************************************)
EXTENDS MCKLightLock

CONSTANT Host   \* a host thread

VARIABLES explored,
    highest, needs, current, next, place, mask, interrupted, halted, guard, live,
    terminated, checked

switchVars == <<highest, needs, current, next, place, mask, interrupted, halted, guard, live,
                terminated, checked>>
allVars == <<explored, vars, switchVars>>

\* Two cores and one thread that is moved between them.
Switch == INSTANCE ContextSwitch WITH
    NumCores <- 2, Threads <- {t1}, pc <- place

ASSUME Switch!CoresAssumption /\ Switch!NamesAssumption

ThreadsInit == explored \in {"Lock", "Switch"} /\ Init /\ Switch!Init

ThreadsNext ==
    /\ UNCHANGED explored
    /\ \/ explored = "Lock" /\ Next /\ UNCHANGED switchVars
       \/ explored = "Switch" /\ Switch!Next /\ UNCHANGED vars

ThreadsFairness ==
    \/ explored = "Lock" /\ Fairness
    \/ explored = "Switch" /\ Switch!Fairness

ThreadsSpec == ThreadsInit /\ [][ThreadsNext]_allVars /\ ThreadsFairness
-----------------------------------------------------------------------------
\* The thread chosen for a core gets there, unless the choice changes, and the end
\* of a thread is not held up by a core that keeps it as its current thread.
SelectedRuns == explored = "Switch" => Switch!SelectedRuns /\ Switch!TerminationFinishes

\* A waiting thread of the highest priority is given the light lock (UnlockSlowPath), although
\* owners may be suspended while they hold it: ContinueIfHasKernelWaiters lets them go on.
LockGranted == explored = "Lock" => WaiterGranted
=============================================================================
