------------------------ MODULE ContextSwitchProofs ------------------------
(***************************************************************************)
(* Proofs about the context switch, for any number of cores and threads.   *)
(***************************************************************************)
EXTENDS ContextSwitch, TLAPS

Running == {"Loop", "Guest", "Unlocked", "Schedule", "Read", "Unload"}
Switching == {"Switch", "Check", "Reload"}

\* The guard of a thread is locked by the core that runs it, whose registers then are the
\* thread's, ...
RunningHasGuard ==
    \A c \in Cores : pc[c] \in Running /\ current[c] # None =>
        guard[current[c]] = c /\ live[current[c]] = c

\* ... or by the core that switches to it, while its registers are saved, ...
SwitchingHasGuard ==
    \A c \in Cores : pc[c] \in Switching /\ next[c] # None =>
        guard[next[c]] = c /\ live[next[c]] = None

\* ... or for good, when it has terminated.
GuardHasReason ==
    \A t \in Threads, c \in Cores : guard[t] = c =>
        \/ t \in terminated
        \/ pc[c] \in Running /\ current[c] = t
        \/ pc[c] \in Switching /\ next[c] = t

UnguardedIsSaved == \A t \in Threads : guard[t] = None => live[t] = None

SwitchedTo == \A c \in Cores : pc[c] \in {"Check", "Reload"} => current[c] = next[c]

GuestHasThread == \A c \in Cores : pc[c] = "Guest" => current[c] # None

\* Nobody can switch to a terminated thread, so a core that does not have it will not
\* have it again.
TerminatedStays ==
    \A t \in Threads :
        /\ t \in terminated =>
               /\ guard[t] # None
               /\ \A c \in Cores : pc[c] \in Switching => next[c] # t
               /\ \A c \in Cores : c < checked[t] => current[c] # t
        /\ checked[t] > 0 => t \in terminated

InterruptsSent == \A a \in Cores \cup {Host} : pc[a] # "Unlocked" => mask[a] = {}

\* A core that is not about to read the selection, and has acted on an old one, has its flag
\* set if it will look at that, or has been or will be interrupted.
Pending(c) == c \in interrupted \/ \E a \in Cores \cup {Host} : c \in mask[a]

FlagOrInterrupt ==
    \A c \in Cores :
        /\ pc[c] \in {"Loop", "Guest"} /\ highest[c] # current[c] => Pending(c)
        /\ pc[c] = "Unlocked" /\ highest[c] # current[c] => c \in needs \/ Pending(c)
        /\ pc[c] \in {"Unload", "TryLock", "Switch", "Check"} /\ highest[c] # next[c] =>
               c \in needs
        /\ pc[c] = "Reload" /\ highest[c] # next[c] => Pending(c)

SwitchInv ==
    /\ RunningHasGuard /\ SwitchingHasGuard /\ GuardHasReason /\ UnguardedIsSaved
    /\ SwitchedTo /\ GuestHasThread /\ TerminatedStays
    /\ InterruptsSent /\ FlagOrInterrupt
-----------------------------------------------------------------------------
(***************************************************************************)
(* Types.                                                                  *)
(***************************************************************************)

Actors == Cores \cup {Host}

LEMMA GotoMoves ==
    ASSUME TypeOK, NEW a \in Actors, NEW l, Goto(a, l)
    PROVE  /\ pc'[a] = l /\ \A b \in Actors : b # a => pc'[b] = pc[b]
           /\ l \in Places => pc' \in [Cores \cup {Host} -> Places]
  BY DEF Goto, TypeOK, Actors

\* The release of the scheduler lock.
LEMMA UnlockTyped ==
    ASSUME TypeOK, NEW a \in Actors, NEW selection \in Selections, Unlock(a, selection)
    PROVE  /\ highest' \in [Cores -> Threads \cup {None}] /\ needs' \subseteq Cores
           /\ pc' \in [Cores \cup {Host} -> Places]
           /\ mask' \in [Cores \cup {Host} -> SUBSET Cores] /\ \A c \in Cores : c \notin mask'[c]
<1>1. Goto(a, "Unlocked") /\ "Unlocked" \in Places
  BY DEF Unlock, Places
<1>2. pc' \in [Cores \cup {Host} -> Places]
  BY <1>1, GotoMoves
<1>3. highest' \in [Cores -> Threads \cup {None}] /\ needs' \subseteq Cores
  BY DEF Unlock, Selections, TypeOK
<1>4. PICK changed \in SUBSET Cores : mask' = [mask EXCEPT ![a] = changed \ {a}]
  BY DEF Unlock, OtherCores
<1>5. mask' \in [Cores \cup {Host} -> SUBSET Cores] /\ \A c \in Cores : c \notin mask'[c]
  BY <1>4 DEF TypeOK, Actors
<1>6. QED
  BY <1>2, <1>3, <1>5

LEMMA TypeStep ==
    ASSUME CoresAssumption, NamesAssumption, TypeOK, GuestHasThread, [Next]_vars
    PROVE  TypeOK'
<1> USE DEF cpuVars, threadVars, endVars
<1>1. \A l \in {"Loop", "Guest", "Unlocked", "Schedule", "Read", "Unload", "TryLock", "Switch",
               "Check", "Retry", "Refresh", "Reload"} : l \in Places
  BY DEF Places
<1>2. \A a \in Actors, l \in Places : Goto(a, l) => pc' \in [Cores \cup {Host} -> Places]
  BY GotoMoves
<1>3. \A c \in Cores : c \in Actors
  BY DEF Actors
<1>4. ASSUME NEW c \in Cores, ClearNeeds(c) PROVE TypeOK'
  BY <1>1, <1>2, <1>3, <1>4 DEF ClearNeeds, TypeOK
<1>5. ASSUME NEW c \in Cores, ReadHighest(c) PROVE TypeOK'
  BY <1>1, <1>2, <1>3, <1>5 DEF ReadHighest, TypeOK
<1>6. ASSUME NEW c \in Cores, Unload(c) PROVE TypeOK'
  <2>1. live' \in [Threads -> Cores \cup {None}] /\ guard' \in [Threads -> Cores \cup {None}]
    BY <1>6 DEF Unload, SaveContext, GuardAfterUnload, TypeOK
  <2>2. pc' \in [Cores \cup {Host} -> Places]
    BY <1>1, <1>2, <1>3, <1>6 DEF Unload
  <2>3. QED
    BY <1>6, <2>1, <2>2 DEF Unload, TypeOK
<1>7. ASSUME NEW c \in Cores, TryLock(c) PROVE TypeOK'
  BY <1>1, <1>2, <1>3, <1>7 DEF TryLock, TypeOK
<1>8. ASSUME NEW c \in Cores, TryLockFails(c) PROVE TypeOK'
  BY <1>1, <1>2, <1>3, <1>8 DEF TryLockFails, TypeOK
<1>9. ASSUME NEW c \in Cores, SwitchThread(c) PROVE TypeOK'
  BY <1>1, <1>2, <1>3, <1>9 DEF SwitchThread, TypeOK
<1>10. ASSUME NEW c \in Cores, CheckNeeds(c) PROVE TypeOK'
  BY <1>1, <1>2, <1>3, <1>10 DEF CheckNeeds, TypeOK
<1>11. ASSUME NEW c \in Cores, Retry(c) PROVE TypeOK'
  BY <1>1, <1>2, <1>3, <1>11 DEF Retry, TypeOK
<1>12. ASSUME NEW c \in Cores, Refresh(c) PROVE TypeOK'
  BY <1>1, <1>2, <1>3, <1>12 DEF Refresh, TypeOK
<1>13. ASSUME NEW c \in Cores, Reload(c) PROVE TypeOK'
  BY <1>1, <1>2, <1>3, <1>13 DEF Reload, TypeOK
<1>14. ASSUME NEW c \in Cores, EnterContext(c) PROVE TypeOK'
  BY <1>1, <1>2, <1>3, <1>14 DEF EnterContext, TypeOK
<1>15. ASSUME NEW c \in Cores, BreakLoop(c) PROVE TypeOK'
  BY <1>1, <1>2, <1>3, <1>15 DEF BreakLoop, TypeOK
<1>16. ASSUME NEW c \in Cores, HandleInterrupt(c) PROVE TypeOK'
  BY <1>1, <1>2, <1>3, <1>16 DEF HandleInterrupt, TypeOK
<1>17. ASSUME NEW c \in Cores, SupervisorCall(c) PROVE TypeOK'
  <2>1. PICK selection \in Selections : Unlock(c, selection)
    BY <1>17 DEF SupervisorCall
  <2>2. /\ highest' \in [Cores -> Threads \cup {None}] /\ needs' \subseteq Cores
        /\ pc' \in [Cores \cup {Host} -> Places]
        /\ mask' \in [Cores \cup {Host} -> SUBSET Cores] /\ \A d \in Cores : d \notin mask'[d]
    BY <1>3, <2>1, UnlockTyped
  <2>3. QED
    BY <1>17, <2>2 DEF SupervisorCall, TypeOK
<1>18. ASSUME NEW c \in Cores, Exit(c) PROVE TypeOK'
  <2>1. PICK selection \in Selections : Unlock(c, selection)
    BY <1>18 DEF Exit
  <2>2. /\ highest' \in [Cores -> Threads \cup {None}] /\ needs' \subseteq Cores
        /\ pc' \in [Cores \cup {Host} -> Places]
        /\ mask' \in [Cores \cup {Host} -> SUBSET Cores] /\ \A d \in Cores : d \notin mask'[d]
    BY <1>3, <2>1, UnlockTyped
  <2>3. current[c] \in Threads
    BY <1>18 DEF Exit, GuestHasThread, TypeOK
  <2>4. QED
    BY <1>18, <2>2, <2>3 DEF Exit, TypeOK
<1>19. CASE HostUpdate
  <2>1. PICK selection \in Selections : Unlock(Host, selection)
    BY <1>19 DEF HostUpdate
  <2>2. /\ highest' \in [Cores -> Threads \cup {None}] /\ needs' \subseteq Cores
        /\ pc' \in [Cores \cup {Host} -> Places]
        /\ mask' \in [Cores \cup {Host} -> SUBSET Cores] /\ \A d \in Cores : d \notin mask'[d]
    BY <2>1, UnlockTyped DEF Actors
  <2>3. QED
    BY <1>19, <2>2 DEF HostUpdate, TypeOK
<1>20. ASSUME NEW a \in Actors, Interrupt(a) PROVE TypeOK'
  BY <1>20 DEF Interrupt, TypeOK, Actors
<1>21. ASSUME NEW a \in Actors, Reschedule(a) PROVE TypeOK'
  BY <1>1, <1>2, <1>21 DEF Reschedule, TypeOK
<1>22. ASSUME NEW t \in Threads, FinishTermination(t) PROVE TypeOK'
  BY <1>22 DEF FinishTermination, TypeOK, CoresAssumption
<1>23. CASE UNCHANGED vars
  BY <1>23 DEF vars, TypeOK
<1>24. QED
  BY <1>3, <1>4, <1>5, <1>6, <1>7, <1>8, <1>9, <1>10, <1>11, <1>12, <1>13, <1>14, <1>15,
     <1>16, <1>17, <1>18, <1>19, <1>20, <1>21, <1>22, <1>23
     DEF Next, Switch, Run, Actors
-----------------------------------------------------------------------------

(***************************************************************************)
(* Every step of a core or of the host thread keeps the invariant.  A      *)
(* guard names one core, which is what makes a thread's core unique.       *)
(***************************************************************************)

LEMMA InvStep ==
    ASSUME CoresAssumption, NamesAssumption, TypeOK, SwitchInv, [Next]_vars
    PROVE  SwitchInv'
<1> USE DEF cpuVars, threadVars, endVars
<1>1. NumCores \in Nat /\ None \notin Threads \cup Cores /\ Host \notin Cores
  BY DEF CoresAssumption, NamesAssumption
<1>2. ASSUME NEW c \in Cores, ClearNeeds(c) PROVE SwitchInv'
  <2>1. pc'[c] = "Read" /\ \A b \in Actors : b # c => pc'[b] = pc[b]
    BY <1>2, GotoMoves DEF ClearNeeds, Actors
  <2>2. RunningHasGuard'
    BY <1>1, <1>2, <2>1 DEF ClearNeeds, SwitchInv, TypeOK, Actors, Running, Switching,
       RunningHasGuard, SwitchingHasGuard, SwitchedTo
  <2>3. SwitchingHasGuard'
    BY <1>1, <1>2, <2>1 DEF ClearNeeds, SwitchInv, TypeOK, Actors, Running, Switching,
       SwitchingHasGuard, RunningHasGuard, UnguardedIsSaved
  <2>4. GuardHasReason'
    BY <1>1, <1>2, <2>1 DEF ClearNeeds, SwitchInv, TypeOK, Actors, Running, Switching,
       GuardHasReason, RunningHasGuard, SwitchingHasGuard
  <2>5. UnguardedIsSaved'
    BY <1>1, <1>2, <2>1 DEF ClearNeeds, SwitchInv, TypeOK, Actors, Running, Switching,
       UnguardedIsSaved, RunningHasGuard
  <2>6. (SwitchedTo /\ GuestHasThread /\ InterruptsSent)'
    BY <1>1, <1>2, <2>1 DEF ClearNeeds, SwitchInv, TypeOK, Actors,
       SwitchedTo, GuestHasThread, InterruptsSent
  <2>7. TerminatedStays'
    BY <1>1, <1>2, <2>1 DEF ClearNeeds, SwitchInv, TypeOK, Actors, Running, Switching,
       TerminatedStays, RunningHasGuard, SwitchingHasGuard, SwitchedTo, GuestHasThread
  <2>8. FlagOrInterrupt'
    BY <1>1, <1>2, <2>1 DEF ClearNeeds, SwitchInv, TypeOK, Actors, Running, Switching,
       FlagOrInterrupt, Pending, SwitchedTo, InterruptsSent
  <2>9. QED
    BY <2>2, <2>3, <2>4, <2>5, <2>6, <2>7, <2>8 DEF SwitchInv
<1>3. ASSUME NEW c \in Cores, ReadHighest(c) PROVE SwitchInv'
  <2>1. \A b \in Actors : b # c => pc'[b] = pc[b]
    BY <1>3, GotoMoves DEF ReadHighest, Actors
  <2>2. RunningHasGuard'
    BY <1>1, <1>3, <2>1 DEF ReadHighest, Goto, SwitchInv, TypeOK, Actors, Running, Switching,
       RunningHasGuard, SwitchingHasGuard, SwitchedTo
  <2>3. SwitchingHasGuard'
    BY <1>1, <1>3, <2>1 DEF ReadHighest, Goto, SwitchInv, TypeOK, Actors, Running, Switching,
       SwitchingHasGuard, RunningHasGuard, UnguardedIsSaved
  <2>4. GuardHasReason'
    BY <1>1, <1>3, <2>1 DEF ReadHighest, Goto, SwitchInv, TypeOK, Actors, Running, Switching,
       GuardHasReason, RunningHasGuard, SwitchingHasGuard
  <2>5. UnguardedIsSaved'
    BY <1>1, <1>3, <2>1 DEF ReadHighest, Goto, SwitchInv, TypeOK, Actors, Running, Switching,
       UnguardedIsSaved, RunningHasGuard
  <2>6. (SwitchedTo /\ GuestHasThread /\ InterruptsSent)'
    BY <1>1, <1>3, <2>1 DEF ReadHighest, Goto, SwitchInv, TypeOK, Actors,
       SwitchedTo, GuestHasThread, InterruptsSent
  <2>7. TerminatedStays'
    BY <1>1, <1>3, <2>1 DEF ReadHighest, Goto, SwitchInv, TypeOK, Actors, Running, Switching,
       TerminatedStays, RunningHasGuard, SwitchingHasGuard, SwitchedTo, GuestHasThread
  <2>8. FlagOrInterrupt'
    BY <1>1, <1>3, <2>1 DEF ReadHighest, Goto, SwitchInv, TypeOK, Actors, Running, Switching,
       FlagOrInterrupt, Pending, SwitchedTo, InterruptsSent
  <2>9. QED
    BY <2>2, <2>3, <2>4, <2>5, <2>6, <2>7, <2>8 DEF SwitchInv
<1>4. ASSUME NEW c \in Cores, Unload(c) PROVE SwitchInv'
  <2>1. pc'[c] = "TryLock" /\ \A b \in Actors : b # c => pc'[b] = pc[b]
    BY <1>4, GotoMoves DEF Unload, Actors
  <2>2. RunningHasGuard'
    BY <1>1, <1>4, <2>1 DEF Unload, SaveContext, GuardAfterUnload, SwitchInv, TypeOK, Actors,
       Running, Switching, RunningHasGuard, SwitchingHasGuard, SwitchedTo
  <2>3. SwitchingHasGuard'
    BY <1>1, <1>4, <2>1 DEF Unload, SaveContext, GuardAfterUnload, SwitchInv, TypeOK, Actors,
       Running, Switching, SwitchingHasGuard, RunningHasGuard, UnguardedIsSaved
  <2>4. GuardHasReason'
    BY <1>1, <1>4, <2>1 DEF Unload, SaveContext, GuardAfterUnload, SwitchInv, TypeOK, Actors,
       Running, Switching, GuardHasReason, RunningHasGuard, SwitchingHasGuard
  <2>5. UnguardedIsSaved'
    BY <1>1, <1>4, <2>1 DEF Unload, SaveContext, GuardAfterUnload, SwitchInv, TypeOK, Actors,
       Running, Switching, UnguardedIsSaved, RunningHasGuard
  <2>6. (SwitchedTo /\ GuestHasThread /\ InterruptsSent)'
    BY <1>1, <1>4, <2>1 DEF Unload, SaveContext, GuardAfterUnload, SwitchInv, TypeOK, Actors,
       SwitchedTo, GuestHasThread, InterruptsSent
  <2>7. TerminatedStays'
    BY <1>1, <1>4, <2>1 DEF Unload, SaveContext, GuardAfterUnload, SwitchInv, TypeOK, Actors,
       Running, Switching, TerminatedStays, RunningHasGuard, SwitchingHasGuard, SwitchedTo,
       GuestHasThread
  <2>8. FlagOrInterrupt'
    BY <1>1, <1>4, <2>1 DEF Unload, SaveContext, GuardAfterUnload, SwitchInv, TypeOK, Actors,
       Running, Switching, FlagOrInterrupt, Pending, SwitchedTo, InterruptsSent
  <2>9. QED
    BY <2>2, <2>3, <2>4, <2>5, <2>6, <2>7, <2>8 DEF SwitchInv
<1>5. ASSUME NEW c \in Cores, TryLock(c) PROVE SwitchInv'
  <2>1. pc'[c] = "Switch" /\ \A b \in Actors : b # c => pc'[b] = pc[b]
    BY <1>5, GotoMoves DEF TryLock, Actors
  <2>2. RunningHasGuard'
    BY <1>1, <1>5, <2>1 DEF TryLock, Lockable, SwitchInv, TypeOK, Actors, Running, Switching,
       RunningHasGuard, SwitchingHasGuard, SwitchedTo
  <2>3. SwitchingHasGuard'
    BY <1>1, <1>5, <2>1 DEF TryLock, Lockable, SwitchInv, TypeOK, Actors, Running, Switching,
       SwitchingHasGuard, RunningHasGuard, UnguardedIsSaved
  <2>4. GuardHasReason'
    BY <1>1, <1>5, <2>1 DEF TryLock, Lockable, SwitchInv, TypeOK, Actors, Running, Switching,
       GuardHasReason, RunningHasGuard, SwitchingHasGuard
  <2>5. UnguardedIsSaved'
    BY <1>1, <1>5, <2>1 DEF TryLock, Lockable, SwitchInv, TypeOK, Actors, Running, Switching,
       UnguardedIsSaved, RunningHasGuard
  <2>6. (SwitchedTo /\ GuestHasThread /\ InterruptsSent)'
    BY <1>1, <1>5, <2>1 DEF TryLock, Lockable, SwitchInv, TypeOK, Actors,
       SwitchedTo, GuestHasThread, InterruptsSent
  <2>7. TerminatedStays'
    BY <1>1, <1>5, <2>1 DEF TryLock, Lockable, SwitchInv, TypeOK, Actors, Running, Switching,
       TerminatedStays, RunningHasGuard, SwitchingHasGuard, SwitchedTo, GuestHasThread
  <2>8. FlagOrInterrupt'
    BY <1>1, <1>5, <2>1 DEF TryLock, Lockable, SwitchInv, TypeOK, Actors, Running, Switching,
       FlagOrInterrupt, Pending, SwitchedTo, InterruptsSent
  <2>9. QED
    BY <2>2, <2>3, <2>4, <2>5, <2>6, <2>7, <2>8 DEF SwitchInv
<1>6. ASSUME NEW c \in Cores, TryLockFails(c) PROVE SwitchInv'
  <2>1. pc'[c] = "Retry" /\ \A b \in Actors : b # c => pc'[b] = pc[b]
    BY <1>6, GotoMoves DEF TryLockFails, Actors
  <2>2. RunningHasGuard'
    BY <1>1, <1>6, <2>1 DEF TryLockFails, Lockable, MustRetry, SwitchInv, TypeOK, Actors,
       Running, Switching, RunningHasGuard, SwitchingHasGuard, SwitchedTo
  <2>3. SwitchingHasGuard'
    BY <1>1, <1>6, <2>1 DEF TryLockFails, Lockable, MustRetry, SwitchInv, TypeOK, Actors,
       Running, Switching, SwitchingHasGuard, RunningHasGuard, UnguardedIsSaved
  <2>4. GuardHasReason'
    BY <1>1, <1>6, <2>1 DEF TryLockFails, Lockable, MustRetry, SwitchInv, TypeOK, Actors,
       Running, Switching, GuardHasReason, RunningHasGuard, SwitchingHasGuard
  <2>5. UnguardedIsSaved'
    BY <1>1, <1>6, <2>1 DEF TryLockFails, Lockable, MustRetry, SwitchInv, TypeOK, Actors,
       Running, Switching, UnguardedIsSaved, RunningHasGuard
  <2>6. (SwitchedTo /\ GuestHasThread /\ InterruptsSent)'
    BY <1>1, <1>6, <2>1 DEF TryLockFails, Lockable, MustRetry, SwitchInv, TypeOK, Actors,
       SwitchedTo, GuestHasThread, InterruptsSent
  <2>7. TerminatedStays'
    BY <1>1, <1>6, <2>1 DEF TryLockFails, Lockable, MustRetry, SwitchInv, TypeOK, Actors,
       Running, Switching, TerminatedStays, RunningHasGuard, SwitchingHasGuard, SwitchedTo,
       GuestHasThread
  <2>8. FlagOrInterrupt'
    BY <1>1, <1>6, <2>1 DEF TryLockFails, Lockable, MustRetry, SwitchInv, TypeOK, Actors,
       Running, Switching, FlagOrInterrupt, Pending, SwitchedTo, InterruptsSent
  <2>9. QED
    BY <2>2, <2>3, <2>4, <2>5, <2>6, <2>7, <2>8 DEF SwitchInv
<1>7. ASSUME NEW c \in Cores, SwitchThread(c) PROVE SwitchInv'
  <2>1. pc'[c] = "Check" /\ \A b \in Actors : b # c => pc'[b] = pc[b]
    BY <1>7, GotoMoves DEF SwitchThread, Actors
  <2>2. RunningHasGuard'
    BY <1>1, <1>7, <2>1 DEF SwitchThread, SwitchInv, TypeOK, Actors, Running, Switching,
       RunningHasGuard, SwitchingHasGuard, SwitchedTo
  <2>3. SwitchingHasGuard'
    BY <1>1, <1>7, <2>1 DEF SwitchThread, SwitchInv, TypeOK, Actors, Running, Switching,
       SwitchingHasGuard, RunningHasGuard, UnguardedIsSaved
  <2>4. GuardHasReason'
    BY <1>1, <1>7, <2>1 DEF SwitchThread, SwitchInv, TypeOK, Actors, Running, Switching,
       GuardHasReason, RunningHasGuard, SwitchingHasGuard
  <2>5. UnguardedIsSaved'
    BY <1>1, <1>7, <2>1 DEF SwitchThread, SwitchInv, TypeOK, Actors, Running, Switching,
       UnguardedIsSaved, RunningHasGuard
  <2>6. (SwitchedTo /\ GuestHasThread /\ InterruptsSent)'
    BY <1>1, <1>7, <2>1 DEF SwitchThread, SwitchInv, TypeOK, Actors,
       SwitchedTo, GuestHasThread, InterruptsSent
  <2>7. TerminatedStays'
    BY <1>1, <1>7, <2>1 DEF SwitchThread, SwitchInv, TypeOK, Actors, Running, Switching,
       TerminatedStays, RunningHasGuard, SwitchingHasGuard, SwitchedTo, GuestHasThread
  <2>8. FlagOrInterrupt'
    BY <1>1, <1>7, <2>1 DEF SwitchThread, SwitchInv, TypeOK, Actors, Running, Switching,
       FlagOrInterrupt, Pending, SwitchedTo, InterruptsSent
  <2>9. QED
    BY <2>2, <2>3, <2>4, <2>5, <2>6, <2>7, <2>8 DEF SwitchInv
<1>8. ASSUME NEW c \in Cores, CheckNeeds(c) PROVE SwitchInv'
  <2>1. \A b \in Actors : b # c => pc'[b] = pc[b]
    BY <1>8, GotoMoves DEF CheckNeeds, Actors
  <2>2. RunningHasGuard'
    BY <1>1, <1>8, <2>1 DEF CheckNeeds, Goto, SwitchInv, TypeOK, Actors, Running, Switching,
       RunningHasGuard, SwitchingHasGuard, SwitchedTo
  <2>3. SwitchingHasGuard'
    BY <1>1, <1>8, <2>1 DEF CheckNeeds, Goto, SwitchInv, TypeOK, Actors, Running, Switching,
       SwitchingHasGuard, RunningHasGuard, UnguardedIsSaved
  <2>4. GuardHasReason'
    BY <1>1, <1>8, <2>1 DEF CheckNeeds, Goto, SwitchInv, TypeOK, Actors, Running, Switching,
       GuardHasReason, RunningHasGuard, SwitchingHasGuard
  <2>5. UnguardedIsSaved'
    BY <1>1, <1>8, <2>1 DEF CheckNeeds, Goto, SwitchInv, TypeOK, Actors, Running, Switching,
       UnguardedIsSaved, RunningHasGuard, SwitchingHasGuard
  <2>6. (SwitchedTo /\ GuestHasThread /\ InterruptsSent)'
    BY <1>1, <1>8, <2>1 DEF CheckNeeds, Goto, SwitchInv, TypeOK, Actors,
       SwitchedTo, GuestHasThread, InterruptsSent
  <2>7. TerminatedStays'
    BY <1>1, <1>8, <2>1 DEF CheckNeeds, Goto, SwitchInv, TypeOK, Actors, Running, Switching,
       TerminatedStays, RunningHasGuard, SwitchingHasGuard, SwitchedTo, GuestHasThread
  <2>8. FlagOrInterrupt'
    BY <1>1, <1>8, <2>1 DEF CheckNeeds, Goto, SwitchInv, TypeOK, Actors, Running, Switching,
       FlagOrInterrupt, Pending, SwitchedTo, InterruptsSent
  <2>9. QED
    BY <2>2, <2>3, <2>4, <2>5, <2>6, <2>7, <2>8 DEF SwitchInv
<1>9. ASSUME NEW c \in Cores, Retry(c) PROVE SwitchInv'
  <2>1. pc'[c] = "Refresh" /\ \A b \in Actors : b # c => pc'[b] = pc[b]
    BY <1>9, GotoMoves DEF Retry, Actors
  <2>2. RunningHasGuard'
    BY <1>1, <1>9, <2>1 DEF Retry, SwitchInv, TypeOK, Actors, Running, Switching,
       RunningHasGuard, SwitchingHasGuard, SwitchedTo
  <2>3. SwitchingHasGuard'
    BY <1>1, <1>9, <2>1 DEF Retry, SwitchInv, TypeOK, Actors, Running, Switching,
       SwitchingHasGuard, RunningHasGuard, UnguardedIsSaved
  <2>4. GuardHasReason'
    BY <1>1, <1>9, <2>1 DEF Retry, SwitchInv, TypeOK, Actors, Running, Switching,
       GuardHasReason, RunningHasGuard, SwitchingHasGuard
  <2>5. UnguardedIsSaved'
    BY <1>1, <1>9, <2>1 DEF Retry, SwitchInv, TypeOK, Actors, Running, Switching,
       UnguardedIsSaved, RunningHasGuard
  <2>6. (SwitchedTo /\ GuestHasThread /\ InterruptsSent)'
    BY <1>1, <1>9, <2>1 DEF Retry, SwitchInv, TypeOK, Actors,
       SwitchedTo, GuestHasThread, InterruptsSent
  <2>7. TerminatedStays'
    BY <1>1, <1>9, <2>1 DEF Retry, SwitchInv, TypeOK, Actors, Running, Switching,
       TerminatedStays, RunningHasGuard, SwitchingHasGuard, SwitchedTo, GuestHasThread
  <2>8. FlagOrInterrupt'
    BY <1>1, <1>9, <2>1 DEF Retry, SwitchInv, TypeOK, Actors, Running, Switching,
       FlagOrInterrupt, Pending, SwitchedTo, InterruptsSent
  <2>9. QED
    BY <2>2, <2>3, <2>4, <2>5, <2>6, <2>7, <2>8 DEF SwitchInv
<1>10. ASSUME NEW c \in Cores, Refresh(c) PROVE SwitchInv'
  <2>1. pc'[c] = "TryLock" /\ \A b \in Actors : b # c => pc'[b] = pc[b]
    BY <1>10, GotoMoves DEF Refresh, Actors
  <2>2. RunningHasGuard'
    BY <1>1, <1>10, <2>1 DEF Refresh, SwitchInv, TypeOK, Actors, Running, Switching,
       RunningHasGuard, SwitchingHasGuard, SwitchedTo
  <2>3. SwitchingHasGuard'
    BY <1>1, <1>10, <2>1 DEF Refresh, SwitchInv, TypeOK, Actors, Running, Switching,
       SwitchingHasGuard, RunningHasGuard, UnguardedIsSaved
  <2>4. GuardHasReason'
    BY <1>1, <1>10, <2>1 DEF Refresh, SwitchInv, TypeOK, Actors, Running, Switching,
       GuardHasReason, RunningHasGuard, SwitchingHasGuard
  <2>5. UnguardedIsSaved'
    BY <1>1, <1>10, <2>1 DEF Refresh, SwitchInv, TypeOK, Actors, Running, Switching,
       UnguardedIsSaved, RunningHasGuard
  <2>6. (SwitchedTo /\ GuestHasThread /\ InterruptsSent)'
    BY <1>1, <1>10, <2>1 DEF Refresh, SwitchInv, TypeOK, Actors,
       SwitchedTo, GuestHasThread, InterruptsSent
  <2>7. TerminatedStays'
    BY <1>1, <1>10, <2>1 DEF Refresh, SwitchInv, TypeOK, Actors, Running, Switching,
       TerminatedStays, RunningHasGuard, SwitchingHasGuard, SwitchedTo, GuestHasThread
  <2>8. FlagOrInterrupt'
    BY <1>1, <1>10, <2>1 DEF Refresh, SwitchInv, TypeOK, Actors, Running, Switching,
       FlagOrInterrupt, Pending, SwitchedTo, InterruptsSent
  <2>9. QED
    BY <2>2, <2>3, <2>4, <2>5, <2>6, <2>7, <2>8 DEF SwitchInv
<1>11. ASSUME NEW c \in Cores, Reload(c) PROVE SwitchInv'
  <2>1. pc'[c] = "Loop" /\ \A b \in Actors : b # c => pc'[b] = pc[b]
    BY <1>11, GotoMoves DEF Reload, Actors
  <2>2. RunningHasGuard'
    BY <1>1, <1>11, <2>1 DEF Reload, SwitchInv, TypeOK, Actors, Running, Switching,
       RunningHasGuard, SwitchingHasGuard, SwitchedTo
  <2>3. SwitchingHasGuard'
    BY <1>1, <1>11, <2>1 DEF Reload, SwitchInv, TypeOK, Actors, Running, Switching,
       SwitchingHasGuard, RunningHasGuard, UnguardedIsSaved
  <2>4. GuardHasReason'
    BY <1>1, <1>11, <2>1 DEF Reload, SwitchInv, TypeOK, Actors, Running, Switching,
       GuardHasReason, RunningHasGuard, SwitchingHasGuard, SwitchedTo
  <2>5. UnguardedIsSaved'
    BY <1>1, <1>11, <2>1 DEF Reload, SwitchInv, TypeOK, Actors, Running, Switching,
       UnguardedIsSaved, RunningHasGuard, SwitchingHasGuard
  <2>6. (SwitchedTo /\ GuestHasThread /\ InterruptsSent)'
    BY <1>1, <1>11, <2>1 DEF Reload, SwitchInv, TypeOK, Actors,
       SwitchedTo, GuestHasThread, InterruptsSent
  <2>7. TerminatedStays'
    BY <1>1, <1>11, <2>1 DEF Reload, SwitchInv, TypeOK, Actors, Running, Switching,
       TerminatedStays, RunningHasGuard, SwitchingHasGuard, SwitchedTo, GuestHasThread
  <2>8. FlagOrInterrupt'
    BY <1>1, <1>11, <2>1 DEF Reload, SwitchInv, TypeOK, Actors, Running, Switching,
       FlagOrInterrupt, Pending, SwitchedTo, InterruptsSent
  <2>9. QED
    BY <2>2, <2>3, <2>4, <2>5, <2>6, <2>7, <2>8 DEF SwitchInv
<1>12. ASSUME NEW c \in Cores, EnterContext(c) PROVE SwitchInv'
  <2>1. pc'[c] = "Guest" /\ \A b \in Actors : b # c => pc'[b] = pc[b]
    BY <1>12, GotoMoves DEF EnterContext, Actors
  <2>2. RunningHasGuard'
    BY <1>1, <1>12, <2>1 DEF EnterContext, MayEnter, SwitchInv, TypeOK, Actors, Running,
       Switching, RunningHasGuard, SwitchingHasGuard, SwitchedTo
  <2>3. SwitchingHasGuard'
    BY <1>1, <1>12, <2>1 DEF EnterContext, MayEnter, SwitchInv, TypeOK, Actors, Running,
       Switching, SwitchingHasGuard, RunningHasGuard, UnguardedIsSaved
  <2>4. GuardHasReason'
    BY <1>1, <1>12, <2>1 DEF EnterContext, MayEnter, SwitchInv, TypeOK, Actors, Running,
       Switching, GuardHasReason, RunningHasGuard, SwitchingHasGuard
  <2>5. UnguardedIsSaved'
    BY <1>1, <1>12, <2>1 DEF EnterContext, MayEnter, SwitchInv, TypeOK, Actors, Running,
       Switching, UnguardedIsSaved, RunningHasGuard
  <2>6. (SwitchedTo /\ GuestHasThread /\ InterruptsSent)'
    BY <1>1, <1>12, <2>1 DEF EnterContext, MayEnter, SwitchInv, TypeOK, Actors,
       SwitchedTo, GuestHasThread, InterruptsSent
  <2>7. TerminatedStays'
    BY <1>1, <1>12, <2>1 DEF EnterContext, MayEnter, SwitchInv, TypeOK, Actors, Running,
       Switching, TerminatedStays, RunningHasGuard, SwitchingHasGuard, SwitchedTo, GuestHasThread
  <2>8. FlagOrInterrupt'
    BY <1>1, <1>12, <2>1 DEF EnterContext, MayEnter, SwitchInv, TypeOK, Actors, Running,
       Switching, FlagOrInterrupt, Pending, SwitchedTo, InterruptsSent
  <2>9. QED
    BY <2>2, <2>3, <2>4, <2>5, <2>6, <2>7, <2>8 DEF SwitchInv
<1>13. ASSUME NEW c \in Cores, BreakLoop(c) PROVE SwitchInv'
  <2>1. pc'[c] = "Loop" /\ \A b \in Actors : b # c => pc'[b] = pc[b]
    BY <1>13, GotoMoves DEF BreakLoop, Actors
  <2>2. RunningHasGuard'
    BY <1>1, <1>13, <2>1 DEF BreakLoop, SwitchInv, TypeOK, Actors, Running, Switching,
       RunningHasGuard, SwitchingHasGuard, SwitchedTo
  <2>3. SwitchingHasGuard'
    BY <1>1, <1>13, <2>1 DEF BreakLoop, SwitchInv, TypeOK, Actors, Running, Switching,
       SwitchingHasGuard, RunningHasGuard, UnguardedIsSaved
  <2>4. GuardHasReason'
    BY <1>1, <1>13, <2>1 DEF BreakLoop, SwitchInv, TypeOK, Actors, Running, Switching,
       GuardHasReason, RunningHasGuard, SwitchingHasGuard
  <2>5. UnguardedIsSaved'
    BY <1>1, <1>13, <2>1 DEF BreakLoop, SwitchInv, TypeOK, Actors, Running, Switching,
       UnguardedIsSaved, RunningHasGuard
  <2>6. (SwitchedTo /\ GuestHasThread /\ InterruptsSent)'
    BY <1>1, <1>13, <2>1 DEF BreakLoop, SwitchInv, TypeOK, Actors,
       SwitchedTo, GuestHasThread, InterruptsSent
  <2>7. TerminatedStays'
    BY <1>1, <1>13, <2>1 DEF BreakLoop, SwitchInv, TypeOK, Actors, Running, Switching,
       TerminatedStays, RunningHasGuard, SwitchingHasGuard, SwitchedTo, GuestHasThread
  <2>8. FlagOrInterrupt'
    BY <1>1, <1>13, <2>1 DEF BreakLoop, SwitchInv, TypeOK, Actors, Running, Switching,
       FlagOrInterrupt, Pending, SwitchedTo, InterruptsSent
  <2>9. QED
    BY <2>2, <2>3, <2>4, <2>5, <2>6, <2>7, <2>8 DEF SwitchInv
<1>14. ASSUME NEW c \in Cores, HandleInterrupt(c) PROVE SwitchInv'
  <2>1. pc'[c] = "Schedule" /\ \A b \in Actors : b # c => pc'[b] = pc[b]
    BY <1>14, GotoMoves DEF HandleInterrupt, Actors
  <2>2. RunningHasGuard'
    BY <1>1, <1>14, <2>1 DEF HandleInterrupt, SwitchInv, TypeOK, Actors, Running, Switching,
       RunningHasGuard, SwitchingHasGuard, SwitchedTo
  <2>3. SwitchingHasGuard'
    BY <1>1, <1>14, <2>1 DEF HandleInterrupt, SwitchInv, TypeOK, Actors, Running, Switching,
       SwitchingHasGuard, RunningHasGuard, UnguardedIsSaved
  <2>4. GuardHasReason'
    BY <1>1, <1>14, <2>1 DEF HandleInterrupt, SwitchInv, TypeOK, Actors, Running, Switching,
       GuardHasReason, RunningHasGuard, SwitchingHasGuard
  <2>5. UnguardedIsSaved'
    BY <1>1, <1>14, <2>1 DEF HandleInterrupt, SwitchInv, TypeOK, Actors, Running, Switching,
       UnguardedIsSaved, RunningHasGuard
  <2>6. (SwitchedTo /\ GuestHasThread /\ InterruptsSent)'
    BY <1>1, <1>14, <2>1 DEF HandleInterrupt, SwitchInv, TypeOK, Actors,
       SwitchedTo, GuestHasThread, InterruptsSent
  <2>7. TerminatedStays'
    BY <1>1, <1>14, <2>1 DEF HandleInterrupt, SwitchInv, TypeOK, Actors, Running, Switching,
       TerminatedStays, RunningHasGuard, SwitchingHasGuard, SwitchedTo, GuestHasThread
  <2>8. FlagOrInterrupt'
    BY <1>1, <1>14, <2>1 DEF HandleInterrupt, SwitchInv, TypeOK, Actors, Running, Switching,
       FlagOrInterrupt, Pending, SwitchedTo, InterruptsSent
  <2>9. QED
    BY <2>2, <2>3, <2>4, <2>5, <2>6, <2>7, <2>8 DEF SwitchInv
<1>15. ASSUME NEW c \in Cores, SupervisorCall(c) PROVE SwitchInv'
  <2>1. PICK selection \in Selections : Unlock(c, selection)
    BY <1>15 DEF SupervisorCall
  <2>2. pc'[c] = "Unlocked" /\ \A b \in Actors : b # c => pc'[b] = pc[b]
    BY <2>1, GotoMoves DEF Unlock, Actors
  <2>3. RunningHasGuard'
    BY <1>1, <1>15, <2>1, <2>2 DEF SupervisorCall, Unlock, OtherCores, Selections, SwitchInv,
       TypeOK, Actors, Running, Switching, RunningHasGuard, SwitchingHasGuard, SwitchedTo
  <2>4. SwitchingHasGuard'
    BY <1>1, <1>15, <2>1, <2>2 DEF SupervisorCall, Unlock, OtherCores, Selections, SwitchInv,
       TypeOK, Actors, Running, Switching, SwitchingHasGuard, RunningHasGuard, UnguardedIsSaved
  <2>5. GuardHasReason'
    BY <1>1, <1>15, <2>1, <2>2 DEF SupervisorCall, Unlock, OtherCores, Selections, SwitchInv,
       TypeOK, Actors, Running, Switching, GuardHasReason, RunningHasGuard, SwitchingHasGuard
  <2>6. UnguardedIsSaved'
    BY <1>1, <1>15, <2>1, <2>2 DEF SupervisorCall, Unlock, OtherCores, Selections, SwitchInv,
       TypeOK, Actors, Running, Switching, UnguardedIsSaved, RunningHasGuard
  <2>7. (SwitchedTo /\ GuestHasThread /\ InterruptsSent)'
    BY <1>1, <1>15, <2>1, <2>2 DEF SupervisorCall, Unlock, OtherCores, Selections, SwitchInv,
       TypeOK, Actors,
       SwitchedTo, GuestHasThread, InterruptsSent
  <2>8. TerminatedStays'
    BY <1>1, <1>15, <2>1, <2>2 DEF SupervisorCall, Unlock, OtherCores, Selections, SwitchInv,
       TypeOK, Actors, Running, Switching, TerminatedStays, RunningHasGuard, SwitchingHasGuard,
       SwitchedTo, GuestHasThread
  <2>9. FlagOrInterrupt'
    BY <1>1, <1>15, <2>1, <2>2 DEF SupervisorCall, Unlock, OtherCores, Selections, SwitchInv,
       TypeOK, Actors, Running, Switching, FlagOrInterrupt, Pending, SwitchedTo, InterruptsSent
  <2>10. QED
    BY <2>3, <2>4, <2>5, <2>6, <2>7, <2>8, <2>9 DEF SwitchInv
<1>16. ASSUME NEW c \in Cores, Exit(c) PROVE SwitchInv'
  <2>1. PICK selection \in Selections : Unlock(c, selection)
    BY <1>16 DEF Exit
  <2>2. pc'[c] = "Unlocked" /\ \A b \in Actors : b # c => pc'[b] = pc[b]
    BY <2>1, GotoMoves DEF Unlock, Actors
  <2>3. RunningHasGuard'
    BY <1>1, <1>16, <2>1, <2>2 DEF Exit, Unlock, OtherCores, Selections, SwitchInv, TypeOK,
       Actors, Running, Switching, RunningHasGuard, SwitchingHasGuard, SwitchedTo
  <2>4. SwitchingHasGuard'
    BY <1>1, <1>16, <2>1, <2>2 DEF Exit, Unlock, OtherCores, Selections, SwitchInv, TypeOK,
       Actors, Running, Switching, SwitchingHasGuard, RunningHasGuard, UnguardedIsSaved
  <2>5. GuardHasReason'
    BY <1>1, <1>16, <2>1, <2>2 DEF Exit, Unlock, OtherCores, Selections, SwitchInv, TypeOK,
       Actors, Running, Switching, GuardHasReason, RunningHasGuard, SwitchingHasGuard
  <2>6. UnguardedIsSaved'
    BY <1>1, <1>16, <2>1, <2>2 DEF Exit, Unlock, OtherCores, Selections, SwitchInv, TypeOK,
       Actors, Running, Switching, UnguardedIsSaved, RunningHasGuard
  <2>7. (SwitchedTo /\ GuestHasThread /\ InterruptsSent)'
    BY <1>1, <1>16, <2>1, <2>2 DEF Exit, Unlock, OtherCores, Selections, SwitchInv, TypeOK,
       Actors,
       SwitchedTo, GuestHasThread, InterruptsSent
  <2>8. TerminatedStays'
    <3>1. current[c] \in Threads /\ guard[current[c]] = c
      BY <1>1, <1>16 DEF Exit, SwitchInv, GuestHasThread, RunningHasGuard, Running, TypeOK
    <3>2. \A d \in Cores : pc'[d] \in Switching => next'[d] # current[c]
      BY <1>1, <1>16, <2>2, <3>1 DEF Exit, SwitchInv, SwitchingHasGuard, Switching, Actors
    <3>3. checked' = checked /\ guard' = guard /\ next' = next /\ current' = current
      BY <1>16 DEF Exit
    <3>4. \A d \in Cores : pc'[d] \in Switching => pc[d] \in Switching
      BY <2>2 DEF Switching, Actors
    <3>5. \A t \in Threads : checked[t] > 0 => t \in terminated
      BY DEF SwitchInv, TerminatedStays
    <3>6. \A t \in Threads, d \in Cores : d < checked[t] => current[d] # t
      <4>1. SUFFICES ASSUME NEW t \in Threads, NEW d \in Cores, d < checked[t]
                     PROVE  current[d] # t
        OBVIOUS
      <4>2. checked[t] > 0
        BY <1>1, <4>1 DEF Cores, TypeOK
      <4>3. QED
        BY <3>5, <4>1, <4>2 DEF SwitchInv, TerminatedStays
    <3>7. \A t \in terminated : guard[t] # None /\ \A d \in Cores : pc[d] \in Switching => next[d] # t
      BY DEF SwitchInv, TerminatedStays, TypeOK
    <3>8. terminated' = terminated \cup {current[c]}
      BY <1>16 DEF Exit
    <3>9. guard[current[c]] # None
      BY <1>1, <3>1
    <3>10. QED
      BY <3>2, <3>3, <3>4, <3>5, <3>6, <3>7, <3>8, <3>9 DEF TerminatedStays
  <2>9. FlagOrInterrupt'
    BY <1>1, <1>16, <2>1, <2>2 DEF Exit, Unlock, OtherCores, Selections, SwitchInv, TypeOK,
       Actors, Running, Switching, FlagOrInterrupt, Pending, SwitchedTo, InterruptsSent
  <2>10. QED
    BY <2>3, <2>4, <2>5, <2>6, <2>7, <2>8, <2>9 DEF SwitchInv
<1>17. CASE HostUpdate
  <2>1. PICK selection \in Selections : Unlock(Host, selection)
    BY <1>17 DEF HostUpdate
  <2>2. pc'[Host] = "Unlocked" /\ \A b \in Actors : b # Host => pc'[b] = pc[b]
    BY <2>1, GotoMoves DEF Unlock, Actors
  <2>3. RunningHasGuard'
    BY <1>1, <1>17, <2>1, <2>2 DEF HostUpdate, Unlock, OtherCores, Selections, SwitchInv,
       TypeOK, Actors, Running, Switching, RunningHasGuard, SwitchingHasGuard, SwitchedTo
  <2>4. SwitchingHasGuard'
    BY <1>1, <1>17, <2>1, <2>2 DEF HostUpdate, Unlock, OtherCores, Selections, SwitchInv,
       TypeOK, Actors, Running, Switching, SwitchingHasGuard, RunningHasGuard, UnguardedIsSaved
  <2>5. GuardHasReason'
    BY <1>1, <1>17, <2>1, <2>2 DEF HostUpdate, Unlock, OtherCores, Selections, SwitchInv,
       TypeOK, Actors, Running, Switching, GuardHasReason, RunningHasGuard, SwitchingHasGuard
  <2>6. UnguardedIsSaved'
    BY <1>1, <1>17, <2>1, <2>2 DEF HostUpdate, Unlock, OtherCores, Selections, SwitchInv,
       TypeOK, Actors, Running, Switching, UnguardedIsSaved, RunningHasGuard
  <2>7. (SwitchedTo /\ GuestHasThread /\ InterruptsSent)'
    BY <1>1, <1>17, <2>1, <2>2 DEF HostUpdate, Unlock, OtherCores, Selections, SwitchInv,
       TypeOK, Actors,
       SwitchedTo, GuestHasThread, InterruptsSent
  <2>8. TerminatedStays'
    BY <1>1, <1>17, <2>1, <2>2 DEF HostUpdate, Unlock, OtherCores, Selections, SwitchInv,
       TypeOK, Actors, Running, Switching, TerminatedStays, RunningHasGuard, SwitchingHasGuard,
       SwitchedTo, GuestHasThread
  <2>9. FlagOrInterrupt'
    BY <1>1, <1>17, <2>1, <2>2 DEF HostUpdate, Unlock, OtherCores, Selections, SwitchInv,
       TypeOK, Actors, Running, Switching, FlagOrInterrupt, Pending, SwitchedTo, InterruptsSent
  <2>10. QED
    BY <2>3, <2>4, <2>5, <2>6, <2>7, <2>8, <2>9 DEF SwitchInv
<1>18. ASSUME NEW a \in Actors, Interrupt(a) PROVE SwitchInv'
  <2>1. \A b \in Actors : b # a => pc'[b] = pc[b]
    BY <1>18, GotoMoves DEF Interrupt
  <2>2. RunningHasGuard'
    BY <1>1, <1>18, <2>1 DEF Interrupt, Goto, SwitchInv, TypeOK, Actors, Running, Switching,
       RunningHasGuard, SwitchingHasGuard, SwitchedTo
  <2>3. SwitchingHasGuard'
    BY <1>1, <1>18, <2>1 DEF Interrupt, Goto, SwitchInv, TypeOK, Actors, Running, Switching,
       SwitchingHasGuard, RunningHasGuard, UnguardedIsSaved
  <2>4. GuardHasReason'
    BY <1>1, <1>18, <2>1 DEF Interrupt, Goto, SwitchInv, TypeOK, Actors, Running, Switching,
       GuardHasReason, RunningHasGuard, SwitchingHasGuard
  <2>5. UnguardedIsSaved'
    BY <1>1, <1>18, <2>1 DEF Interrupt, Goto, SwitchInv, TypeOK, Actors, Running, Switching,
       UnguardedIsSaved, RunningHasGuard
  <2>6. (SwitchedTo /\ GuestHasThread /\ InterruptsSent)'
    BY <1>1, <1>18, <2>1 DEF Interrupt, Goto, SwitchInv, TypeOK, Actors,
       SwitchedTo, GuestHasThread, InterruptsSent
  <2>7. TerminatedStays'
    BY <1>1, <1>18, <2>1 DEF Interrupt, Goto, SwitchInv, TypeOK, Actors, Running, Switching,
       TerminatedStays, RunningHasGuard, SwitchingHasGuard, SwitchedTo, GuestHasThread
  <2>8. FlagOrInterrupt'
    BY <1>1, <1>18, <2>1 DEF Interrupt, Goto, SwitchInv, TypeOK, Actors, Running, Switching,
       FlagOrInterrupt, Pending, SwitchedTo, InterruptsSent
  <2>9. QED
    BY <2>2, <2>3, <2>4, <2>5, <2>6, <2>7, <2>8 DEF SwitchInv
<1>19. ASSUME NEW a \in Actors, Reschedule(a) PROVE SwitchInv'
  <2>1. \A b \in Actors : b # a => pc'[b] = pc[b]
    BY <1>19, GotoMoves DEF Reschedule
  <2>2. RunningHasGuard'
    BY <1>1, <1>19, <2>1 DEF Reschedule, Goto, SwitchInv, TypeOK, Actors, Running, Switching,
       RunningHasGuard, SwitchingHasGuard, SwitchedTo
  <2>3. SwitchingHasGuard'
    BY <1>1, <1>19, <2>1 DEF Reschedule, Goto, SwitchInv, TypeOK, Actors, Running, Switching,
       SwitchingHasGuard, RunningHasGuard, UnguardedIsSaved
  <2>4. GuardHasReason'
    BY <1>1, <1>19, <2>1 DEF Reschedule, Goto, SwitchInv, TypeOK, Actors, Running, Switching,
       GuardHasReason, RunningHasGuard, SwitchingHasGuard
  <2>5. UnguardedIsSaved'
    BY <1>1, <1>19, <2>1 DEF Reschedule, Goto, SwitchInv, TypeOK, Actors, Running, Switching,
       UnguardedIsSaved, RunningHasGuard
  <2>6. (SwitchedTo /\ GuestHasThread /\ InterruptsSent)'
    BY <1>1, <1>19, <2>1 DEF Reschedule, Goto, SwitchInv, TypeOK, Actors,
       SwitchedTo, GuestHasThread, InterruptsSent
  <2>7. TerminatedStays'
    BY <1>1, <1>19, <2>1 DEF Reschedule, Goto, SwitchInv, TypeOK, Actors, Running, Switching,
       TerminatedStays, RunningHasGuard, SwitchingHasGuard, SwitchedTo, GuestHasThread
  <2>8. FlagOrInterrupt'
    BY <1>1, <1>19, <2>1 DEF Reschedule, Goto, SwitchInv, TypeOK, Actors, Running, Switching,
       FlagOrInterrupt, Pending, SwitchedTo, InterruptsSent
  <2>9. QED
    BY <2>2, <2>3, <2>4, <2>5, <2>6, <2>7, <2>8 DEF SwitchInv
<1>20. ASSUME NEW t \in Threads, FinishTermination(t) PROVE SwitchInv'
  <2>1. pc' = pc
    BY <1>20 DEF FinishTermination
  <2>2. RunningHasGuard'
    BY <1>1, <1>20, <2>1 DEF FinishTermination, CoresAssumption, SwitchInv, TypeOK, Actors,
       Running, Switching, RunningHasGuard, SwitchingHasGuard, SwitchedTo
  <2>3. SwitchingHasGuard'
    BY <1>1, <1>20, <2>1 DEF FinishTermination, CoresAssumption, SwitchInv, TypeOK, Actors,
       Running, Switching, SwitchingHasGuard, RunningHasGuard, UnguardedIsSaved
  <2>4. GuardHasReason'
    BY <1>1, <1>20, <2>1 DEF FinishTermination, CoresAssumption, SwitchInv, TypeOK, Actors,
       Running, Switching, GuardHasReason, RunningHasGuard, SwitchingHasGuard
  <2>5. UnguardedIsSaved'
    BY <1>1, <1>20, <2>1 DEF FinishTermination, CoresAssumption, SwitchInv, TypeOK, Actors,
       Running, Switching, UnguardedIsSaved, RunningHasGuard
  <2>6. (SwitchedTo /\ GuestHasThread /\ InterruptsSent)'
    BY <1>1, <1>20, <2>1 DEF FinishTermination, CoresAssumption, SwitchInv, TypeOK, Actors,
       SwitchedTo, GuestHasThread, InterruptsSent
  <2>7. TerminatedStays'
    BY <1>1, <1>20, <2>1 DEF FinishTermination, CoresAssumption, SwitchInv, TypeOK, Actors,
       Running, Switching, TerminatedStays, RunningHasGuard, SwitchingHasGuard, SwitchedTo,
       GuestHasThread, Cores
  <2>8. FlagOrInterrupt'
    BY <1>1, <1>20, <2>1 DEF FinishTermination, CoresAssumption, SwitchInv, TypeOK, Actors,
       Running, Switching, FlagOrInterrupt, Pending, SwitchedTo, InterruptsSent
  <2>9. QED
    BY <2>2, <2>3, <2>4, <2>5, <2>6, <2>7, <2>8 DEF SwitchInv
<1>21. CASE UNCHANGED vars
  BY <1>21 DEF vars, SwitchInv, Pending, RunningHasGuard, SwitchingHasGuard, GuardHasReason,
     UnguardedIsSaved, SwitchedTo, GuestHasThread, TerminatedStays, InterruptsSent,
     FlagOrInterrupt
<1>22. QED
  BY <1>2, <1>3, <1>4, <1>5, <1>6, <1>7, <1>8, <1>9, <1>10, <1>11, <1>12, <1>13, <1>14, <1>15,
     <1>16, <1>17, <1>18, <1>19, <1>20, <1>21 DEF Next, Switch, Run, Actors
-----------------------------------------------------------------------------
(***************************************************************************)
(* What the threads and the cores rely on.                                 *)
(***************************************************************************)

\* The guards and flags give what SwitchInvariant says.
LEMMA InvGivesSafety ==
    ASSUME CoresAssumption, NamesAssumption, TypeOK, SwitchInv
    PROVE  SwitchInvariant
<1>1. NumCores \in Nat \ {0} /\ None \notin Threads \cup Cores
  BY DEF CoresAssumption, NamesAssumption
<1>2. OneCorePerThread
  BY <1>1 DEF OneCorePerThread, Executes, SwitchInv, RunningHasGuard, Running, TypeOK
<1>3. SavedBeforeLoaded
  BY DEF SavedBeforeLoaded, SwitchInv, SwitchingHasGuard, Switching
<1>4. NoLostReschedule
  BY DEF NoLostReschedule, SwitchInv, FlagOrInterrupt, Pending
<1>5. NoHoldAndWait
  BY DEF NoHoldAndWait, SwitchInv, GuardHasReason, Running, Switching
<1>6. FinishedUnused
  <2>1. SUFFICES ASSUME NEW t \in Threads, NEW c \in Cores, checked[t] = NumCores
                 PROVE  current[c] # t /\ (pc[c] \in Switching => next[c] # t)
    BY DEF FinishedUnused, Switching
  <2>2. t \in terminated /\ c < checked[t]
    BY <1>1, <2>1 DEF SwitchInv, TerminatedStays, Cores
  <2>3. QED
    BY <2>2 DEF SwitchInv, TerminatedStays
<1>7. QED
  BY <1>2, <1>3, <1>4, <1>5, <1>6 DEF SwitchInvariant

\* A thread executes on one core at most, with its own registers; no change of the
\* selection is lost between the flag, the interrupt and the switch; cores that exchange
\* threads do not wait for each other; and a finished thread is on no core: for any number
\* of cores and threads, and whatever the scheduler selects.
THEOREM SwitchIsSound ==
    ASSUME CoresAssumption, NamesAssumption
    PROVE  Spec => []SwitchInvariant
<1>1. Init => TypeOK /\ SwitchInv
  BY DEF Init, TypeOK, SwitchInv, RunningHasGuard, SwitchingHasGuard, GuardHasReason,
         UnguardedIsSaved, SwitchedTo, GuestHasThread, TerminatedStays, InterruptsSent,
         FlagOrInterrupt, Running, Switching, Places, CoresAssumption, NamesAssumption
<1>2. TypeOK /\ SwitchInv /\ [Next]_vars => (TypeOK /\ SwitchInv)'
  BY TypeStep, InvStep DEF SwitchInv
<1>3. TypeOK /\ SwitchInv => SwitchInvariant
  BY InvGivesSafety
<1>4. QED
  BY <1>1, <1>2, <1>3, PTL DEF Spec
=============================================================================
