----------------------------- MODULE KScheduler -----------------------------
(***************************************************************************)
(* The selection of threads: KPriorityQueue and the operations of          *)
(* KScheduler that change it, all under the scheduler lock, each with the  *)
(* update of the highest priority threads when the lock is released.       *)
(*                                                                         *)
(* A queue of the code (a list per priority, and a bit set of priorities)  *)
(* is a sequence in the order in which GetFront and GetNext visit it.      *)
(* When a thread was last scheduled is left open.  Pinned threads are left *)
(* out.  Module ContextSwitch shows how the cores follow the selection.    *)
(***************************************************************************)
EXTENDS Integers, Sequences, FiniteSets, SequencesExt

CONSTANTS
    NumCores,       \* NUM_CPU_CORES
    Threads,
    None,           \* nullptr
    Process,        \* Process[t]: the owner
    Priorities,     \* a smaller number is more urgent
    MigrationAllowed,   \* HighestCoreMigrationAllowedPriority
    Masks           \* affinity masks, sets of cores: a bound of the model

Cores == 0 .. NumCores - 1
NoCore == -1

NoneAssumption == None \notin Threads
CoresAssumption == NumCores \in Nat \ {0}
PrioritiesAssumption == Priorities \subseteq Nat /\ MigrationAllowed \in Nat
MasksAssumption == \A m \in Masks : m # {} /\ m \subseteq Cores

VARIABLES
    runnable,       \* threads in the state Runnable
    priority, affinity,
    active,         \* active[t]: the active core, or NoCore
    scheduled, suggested,   \* the queues of each core
    highest,        \* m_state.highest_priority_thread of each core
    quiet           \* threads whose yield count is the scheduled count of their process

threadVars == <<runnable, priority, affinity>>
vars == <<threadVars, active, scheduled, suggested, highest, quiet>>

TypeOK ==
    /\ runnable \subseteq Threads /\ quiet \subseteq Threads
    /\ priority \in [Threads -> Priorities] /\ affinity \in [Threads -> Masks]
    /\ active \in [Threads -> Cores \cup {NoCore}]
    /\ scheduled \in [Cores -> Seq(Threads)] /\ suggested \in [Cores -> Seq(Threads)]
    /\ highest \in [Cores -> Threads \cup {None}]

Init ==
    /\ runnable = {} /\ quiet = {}
    /\ priority \in [Threads -> Priorities] /\ affinity \in [Threads -> Masks]
    /\ active \in [Threads -> Cores] /\ \A t \in Threads : active[t] \in affinity[t]
    /\ scheduled = [c \in Cores |-> <<>>] /\ suggested = [c \in Cores |-> <<>>]
    /\ highest = [c \in Cores |-> None]
-----------------------------------------------------------------------------
(***************************************************************************)
(* KPriorityQueue, as functions of a record q of the queues and the active *)
(* cores; p are the priorities.                                            *)
(***************************************************************************)

Queues == [sched |-> scheduled, sugg |-> suggested, active |-> active]

GetFront(s) == IF s = <<>> THEN None ELSE Head(s)

\* GetNext.
NextIn(s, t) == GetFront(SubSeq(s, SelectInSeq(s, LAMBDA u : u = t) + 1, Len(s)))

\* Behind the threads of the same priority, or before them.
InsertBack(p, s, t) == InsertAt(s, 1 + Len(SelectSeq(s, LAMBDA u : p[u] <= p[t])), t)
InsertFront(p, s, t) == InsertAt(s, 1 + Len(SelectSeq(s, LAMBDA u : p[u] < p[t])), t)

\* PushBack and PushFront: suggestions always go to the back.
Push(p, q, t, mask, toFront) ==
    [q EXCEPT !.sched = [c \in Cores |->
                            IF c # q.active[t] THEN @[c]
                            ELSE IF toFront THEN InsertFront(p, @[c], t)
                            ELSE InsertBack(p, @[c], t)],
              !.sugg = [c \in Cores |->
                            IF c \in mask \ {q.active[t]} THEN InsertBack(p, @[c], t) ELSE @[c]]]

RemoveFromQueues(q, t) ==
    [q EXCEPT !.sched = [c \in Cores |-> Remove(@[c], t)],
              !.sugg = [c \in Cores |-> Remove(@[c], t)]]

\* SetActiveCore and ChangeCore.
ChangeCore(p, q, t, core, toFront) ==
    LET old == q.active[t] IN
    IF old = core THEN q ELSE
    [q EXCEPT !.active[t] = core,
              !.sched = [c \in Cores |->
                  CASE c = old  -> Remove(@[c], t)
                    [] c = core -> IF toFront THEN InsertFront(p, @[c], t)
                                   ELSE InsertBack(p, @[c], t)
                    [] OTHER    -> @[c]],
              !.sugg = [c \in Cores |->
                  CASE c = old  -> InsertBack(p, @[c], t)
                    [] c = core -> Remove(@[c], t)
                    [] OTHER    -> @[c]]]

MoveToScheduledBack(q, t) ==
    [q EXCEPT !.sched[q.active[t]] = InsertBack(priority, Remove(@, t), t)]

\* GetScheduledFront of a priority.
FrontOf(q, c, p) == GetFront(SelectSeq(q.sched[c], LAMBDA u : priority[u] = p))
-----------------------------------------------------------------------------
(***************************************************************************)
(* UpdateHighestPriorityThreadsImpl.                                       *)
(***************************************************************************)

\* The top thread (in the sense of tops) of the core where t is.
TopAt(q, tops, t) == IF q.active[t] = NoCore THEN None ELSE tops[q.active[t]]

\* A thread may be taken from a core whose top thread is not too urgent.
MayMigrate(p, top) == top = None \/ p[top] >= MigrationAllowed

\* UpdateHighestPriorityThread: u.bumped are the threads whose processes are counted.
SetTop(u, c, t) ==
    [u EXCEPT !.top[c] = t,
              !.bumped = IF u.top[c] # t THEN @ \cup ({u.top[c]} \ {None}) ELSE @]

\* Mutant: idle cores stay idle.
MigrateNothing(p, u, c) == u

\* An idle core c takes the first suggestion that is not the top thread of its core, or
\* else the top thread of the first suggesting core that has another one to run.
MigrateTo(p, u, c) ==
    LET others == SelectSeq(u.q.sugg[c], LAMBDA t : TopAt(u.q, u.top, t) # t)
        tops == SelectSeq(u.q.sugg[c],
                    LAMBDA t : NextIn(u.q.sched[u.q.active[t]], u.top[u.q.active[t]]) # None)
        t == Head(others)
        s == Head(tops)
        k == u.q.active[s]
    IN  CASE others # <<>> /\ MayMigrate(p, TopAt(u.q, u.top, t)) ->
                 SetTop([u EXCEPT !.q = ChangeCore(p, u.q, t, c, FALSE)], c, t)
          [] others = <<>> /\ tops # <<>> ->
                 SetTop([SetTop(u, k, NextIn(u.q.sched[k], s))
                            EXCEPT !.q = ChangeCore(p, u.q, s, c, FALSE)], c, s)
          [] OTHER -> u

Updated(p, q) ==
    LET fronts == [c \in Cores |-> GetFront(q.sched[c])]
        idle == SelectSeq([i \in 1 .. NumCores |-> i - 1], LAMBDA c : fronts[c] = None)
        start == [q |-> q, top |-> fronts,
                  bumped |-> {highest[c] : c \in {d \in Cores : highest[d] # fronts[d]}} \ {None}]
    IN  FoldLeft(LAMBDA u, c : MigrateTo(p, u, c), start, idle)

\* IncrementScheduledCount of the processes of some threads: their yields count again.
Counted(threads) == {t \in quiet : \A u \in threads : Process[u] # Process[t]}

\* The lock is released, after the scheduled counts of some threads were incremented: with
\* SetSchedulerUpdateNeeded, ...
UnlockAndUpdate(p, q, counted) ==
    LET u == Updated(p, q) IN
    /\ scheduled' = u.q.sched /\ suggested' = u.q.sugg /\ active' = u.q.active
    /\ highest' = u.top
    /\ quiet' = Counted(counted \cup u.bumped)

\* ... and without.
UnlockOnly(q, quieter) ==
    /\ scheduled' = q.sched /\ suggested' = q.sugg /\ active' = q.active
    /\ quiet' = quieter
    /\ UNCHANGED highest
-----------------------------------------------------------------------------
(***************************************************************************)
(* Changes of a thread.                                                    *)
(***************************************************************************)

\* OnThreadStateChanged, to and from Runnable.
OnThreadStateChanged(t) ==
    /\ runnable' = IF t \in runnable THEN runnable \ {t} ELSE runnable \cup {t}
    /\ UnlockAndUpdate(priority,
           IF t \in runnable THEN RemoveFromQueues(Queues, t)
           ELSE Push(priority, Queues, t, affinity[t], FALSE), {t})
    /\ UNCHANGED <<priority, affinity>>

\* OnThreadPriorityChanged; the running thread is kept at the front.
OnThreadPriorityChanged(t, p, running) ==
    /\ p # priority[t]
    /\ priority' = [priority EXCEPT ![t] = p]
    /\ IF t \in runnable
       THEN UnlockAndUpdate(priority',
                Push(priority', RemoveFromQueues(Queues, t), t, affinity[t], running), {t})
       ELSE UNCHANGED <<scheduled, suggested, active, highest, quiet>>
    /\ UNCHANGED <<runnable, affinity>>

LastCore(mask) == CHOOSE c \in mask : \A d \in mask : d <= c

\* SetCoreMask with its ideal core, and OnThreadAffinityMaskChanged.
SetCoreMask(t, mask, ideal) ==
    LET core == IF active[t] = NoCore \/ active[t] \in mask THEN active[t]
                ELSE IF ideal # NoCore THEN ideal ELSE LastCore(mask)
        moved == [Queues EXCEPT !.active[t] = core]
    IN
    /\ mask # affinity[t] /\ ideal \in mask \cup {NoCore}
    /\ affinity' = [affinity EXCEPT ![t] = mask]
    /\ IF t \in runnable
       THEN UnlockAndUpdate(priority,
                Push(priority, RemoveFromQueues(moved, t), t, mask, FALSE), {t})
       ELSE UnlockOnly(moved, quiet)
    /\ UNCHANGED <<runnable, priority>>
-----------------------------------------------------------------------------
(***************************************************************************)
(* Rotation and yields.  "recent" are the threads that were scheduled      *)
(* later than the next thread of the core.                                 *)
(***************************************************************************)

\* The fronts of the scheduled queues.
Fronts(q) == [c \in Cores |-> GetFront(q.sched[c])]

\* The first suggestion for which Stop or MayMigrate holds, if it is not Stop.
Suggestion(q, tops, candidates, Stop(_)) ==
    LET others == SelectSeq(candidates, LAMBDA t : TopAt(q, tops, t) # t)
        ends == SelectSeq(others, LAMBDA t : Stop(t) \/ MayMigrate(priority, TopAt(q, tops, t)))
    IN  IF ends = <<>> \/ Stop(Head(ends)) THEN None ELSE Head(ends)

\* Migrations of a rotation and of a yield put the thread first.
TakeFirst(q, t, c) == IF t = None THEN q ELSE ChangeCore(priority, q, t, c, TRUE)

\* RotateScheduledQueue, called by the thread at the front or by another one.
RotateScheduledQueue(c, p, recent, byFront) ==
    LET top == FrontOf(Queues, c, p)
        q1 == IF top = None THEN Queues ELSE MoveToScheduledBack(Queues, top)
        next == FrontOf(q1, c, p)
        same == Suggestion(q1, Fronts(q1), SelectSeq(q1.sugg[c], LAMBDA t : priority[t] = p),
                           LAMBDA t : top # next /\ t \in recent)
        q2 == TakeFirst(q1, same, c)
        front == GetFront(q2.sched[c])
        best == IF byFront /\ front # None THEN NextIn(q2.sched[c], front) ELSE front
        better == IF best = None \/ priority[best] < p THEN None
                  ELSE Suggestion(q2, Fronts(q2),
                           SelectSeq(q2.sugg[c], LAMBDA t : priority[t] < priority[best]),
                           LAMBDA t : FALSE)
    IN  /\ UnlockAndUpdate(priority, TakeFirst(q2, better, c),
               ((IF top # next THEN {top, next} ELSE {}) \cup {same, better}) \ {None})
        /\ UNCHANGED threadVars

\* A thread may yield unless its last yield changed nothing and nothing was scheduled
\* since.  It need not be the highest any more: its core may not know yet.
MayYield(t) == t \in runnable \ quiet /\ active[t] # NoCore

\* Mutant: the cores are never told.
YieldUntold(t) ==
    /\ MayYield(t)
    /\ UnlockOnly(MoveToScheduledBack(Queues, t), Counted({t}))
    /\ UNCHANGED threadVars

YieldWithoutCoreMigration(t) ==
    LET q == MoveToScheduledBack(Queues, t) IN
    /\ MayYield(t)
    /\ IF FrontOf(q, active[t], priority[t]) # t
       THEN UnlockAndUpdate(priority, q, {t})
       ELSE UnlockOnly(q, Counted({t}) \cup {t})
    /\ UNCHANGED threadVars

YieldWithCoreMigration(t, recent) ==
    LET c == active[t]
        q == MoveToScheduledBack(Queues, t)
        next == FrontOf(q, c, priority[t])
        Stop(s) == \/ priority[s] > priority[t]
                   \/ priority[s] = priority[t] /\ next # t /\ s \in recent
        suggestion == Suggestion(q, highest, q.sugg[c], Stop)
        recheck == \E i \in DOMAIN q.sugg[c] :
                      LET s == q.sugg[c][i] IN
                      /\ TopAt(q, highest, s) # s /\ ~MayMigrate(priority, TopAt(q, highest, s))
                      /\ \A j \in 1 .. i : ~Stop(q.sugg[c][j])
    IN
    /\ MayYield(t)
    /\ IF suggestion # None \/ next # t
       THEN UnlockAndUpdate(priority, TakeFirst(q, suggestion, c), {t, suggestion} \ {None})
       ELSE UnlockOnly(q, Counted({t}) \cup (IF recheck THEN {} ELSE {t}))
    /\ UNCHANGED threadVars

\* The thread leaves its core; an empty core takes a suggestion, maybe the thread itself.
YieldToAnyThread(t) ==
    LET c == active[t]
        q == ChangeCore(priority, Queues, t, NoCore, FALSE)
        others == SelectSeq(q.sugg[c], LAMBDA s : TopAt(q, Fronts(q), s) # s)
        s == GetFront(others)
        migrates == s # None /\ MayMigrate(priority, TopAt(q, Fronts(q), s))
    IN
    /\ MayYield(t)
    /\ CASE q.sched[c] # <<>> -> UnlockAndUpdate(priority, q, {t})
         [] q.sched[c] = <<>> /\ s # t ->
                UnlockAndUpdate(priority, IF migrates THEN ChangeCore(priority, q, s, c, FALSE) ELSE q,
                                {t} \cup (IF migrates THEN {s} ELSE {}))
         [] OTHER -> UnlockOnly(ChangeCore(priority, q, t, c, FALSE), Counted({t}) \cup {t})
    /\ UNCHANGED threadVars
-----------------------------------------------------------------------------
Next ==
    \/ \E t \in Threads :
          \/ OnThreadStateChanged(t)
          \/ \E p \in Priorities, running \in BOOLEAN : OnThreadPriorityChanged(t, p, running)
          \/ \E mask \in Masks, ideal \in Cores \cup {NoCore} : SetCoreMask(t, mask, ideal)
          \/ YieldWithoutCoreMigration(t)
          \/ active[t] # NoCore /\ \E recent \in SUBSET ToSet(suggested[active[t]]) :
                YieldWithCoreMigration(t, recent)
          \/ YieldToAnyThread(t)
    \/ \E c \in Cores, p \in Priorities, byFront \in BOOLEAN :
          \E recent \in SUBSET ToSet(suggested[c]) : RotateScheduledQueue(c, p, recent, byFront)

Spec == Init /\ [][Next]_vars
-----------------------------------------------------------------------------
\* A runnable thread is in the scheduled queue of its active core and is suggested for
\* every other core it may run on, once each; other threads are in no queue.
QueuesMatch ==
    \A t \in Threads, c \in Cores :
        /\ Len(SelectSeq(scheduled[c], LAMBDA u : u = t)) =
               IF t \in runnable /\ c = active[t] THEN 1 ELSE 0
        /\ Len(SelectSeq(suggested[c], LAMBDA u : u = t)) =
               IF t \in runnable /\ c \in affinity[t] \ {active[t]} THEN 1 ELSE 0

\* Queues are in the order of the priorities, across all changes of priority.
QueuesSorted ==
    \A c \in Cores, q \in {scheduled, suggested} :
        \A i, j \in DOMAIN q[c] : i < j => priority[q[c][i]] <= priority[q[c][j]]

\* Every core is told to run the front of its scheduled queue, whichever operation
\* changed the queue and whether or not it asked for an update.
HighestIsFront == \A c \in Cores : highest[c] = GetFront(scheduled[c])

\* No core stays idle for a thread that waits behind another one and may run on it,
\* unless an earlier suggestion is on a core with a thread too urgent to be disturbed.
IdleCoresHelp ==
    \A c \in Cores : highest[c] = None =>
        \A i \in DOMAIN suggested[c] :
            \/ \E d \in Cores : scheduled[d] = <<suggested[c][i]>>
            \/ \E j \in 1 .. i : ~MayMigrate(priority, TopAt(Queues, highest, suggested[c][j]))

\* A yield is skipped only while there is nobody to yield to: no other thread of the
\* process waits at the same priority on the core.
SkippedYieldIsUseless ==
    \A t \in quiet \cap runnable : \A u \in Threads \ {t} :
        active[t] # NoCore /\ u \in ToSet(scheduled[active[t]]) /\ Process[u] = Process[t]
            => priority[u] # priority[t]
=============================================================================
