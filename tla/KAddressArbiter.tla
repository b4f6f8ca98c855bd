-------------------------- MODULE KAddressArbiter --------------------------
(***************************************************************************)
(* KAddressArbiter: svcWaitForAddress and svcSignalToAddress.              *)
(*                                                                         *)
(* The kernel side runs under the scheduler lock; programs write the word  *)
(* at any moment.  A wait therefore has two steps, reading the word and    *)
(* going to sleep, between which the word may change but no other kernel   *)
(* operation runs.  A signal reads or updates the word once, with the      *)
(* exclusive monitor, and nothing else it uses can change meanwhile: it is *)
(* one step.  The words wrap.                                              *)
(***************************************************************************)
EXTENDS Integers, Sequences, SequencesExt

CONSTANTS
    Threads,        \* KThread objects
    Addresses,      \* addresses of words in user memory
    Limit,          \* 2^31: an s32 is below it
    Counts,         \* the counts passed to svcSignalToAddress
    Priorities      \* thread priorities: smaller is more urgent

AddressesAssumption == Addresses # {}
LimitAssumption == Limit \in Nat \ {0}
CountsAssumption == Counts \subseteq Int
PrioritiesAssumption == Priorities \subseteq Int

\* The values of an s32.
Ints == -Limit .. Limit - 1

WaitTypes == {"IfLessThan", "DecrementIfLessThan", "IfEqual"}
Timeouts == {"Zero", "Finite", "Infinite"}

VARIABLES
    word,       \* word[a]: the word in user memory
    tree,       \* tree[a]: the part of m_tree whose key has address a, in order
    priority,   \* priority[t]
    state,      \* state[t]: "Runnable", "Locked" (in Wait, word read) or "Waiting"
    key,        \* key[t]: the address of the wait in progress (m_condvar_key)
    timed,      \* the threads whose wait in progress has a time-out
    timers,     \* the threads registered in the hardware timer
    terminating,\* the threads with m_termination_requested
    owes,       \* owes[t]: addresses that t wrote to and has not signaled yet
    outdated    \* the threads in a wait whose word a program wrote since they read it

waitVars == <<tree, state, timers, timed, outdated>>
vars == <<word, priority, key, terminating, owes, waitVars>>

TypeOK ==
    /\ word \in [Addresses -> Ints]
    /\ tree \in [Addresses -> Seq(Threads)]
    /\ priority \in [Threads -> Priorities]
    /\ state \in [Threads -> {"Runnable", "Locked", "Waiting"}]
    /\ key \in [Threads -> Addresses]
    /\ timers \subseteq Threads /\ timed \subseteq Threads
    /\ terminating \subseteq Threads /\ outdated \subseteq Threads
    /\ owes \in [Threads -> SUBSET Addresses]

Init ==
    /\ word = [a \in Addresses |-> 0]
    /\ tree = [a \in Addresses |-> <<>>]
    /\ priority \in [Threads -> Priorities]
    /\ state = [t \in Threads |-> "Runnable"]
    /\ key = [t \in Threads |-> CHOOSE a \in Addresses : TRUE]
    /\ timed = {} /\ timers = {} /\ terminating = {} /\ outdated = {}
    /\ owes = [t \in Threads |-> {}]

Unlocked == \A t \in Threads : state[t] # "Locked"

\* Arithmetic of the s32 that the build makes wrap.
Wrap(n) == ((n + Limit) % (2 * Limit)) - Limit
-----------------------------------------------------------------------------
(***************************************************************************)
(* The tree, and waking threads.                                           *)
(***************************************************************************)

\* insert: after the waiters of the same address and the same priority.
Insert(s, t, p) ==
    LET after == SelectInSeq(s, LAMBDA u : priority[u] > p)
    IN  InsertAt(s, IF after = 0 THEN Len(s) + 1 ELSE after, t)

\* KThreadQueue::EndWait and CancelWait of waiting threads.
Wake(woken) ==
    /\ state' = [t \in Threads |-> IF t \in woken THEN "Runnable" ELSE state[t]]
    /\ timed' = timed \ woken
    /\ timers' = timers \ woken
    /\ outdated' = outdated \ woken

\* The waiters that the walk from nfind_key({addr, -1}) ends.
Woken(a, count) ==
    IF count <= 0 \/ count > Len(tree[a]) THEN tree[a] ELSE SubSeq(tree[a], 1, count)

WakeWaiters(a, count) ==
    /\ Wake(ToSet(Woken(a, count)))
    /\ tree' = [tree EXCEPT ![a] = SubSeq(@, Len(Woken(a, count)) + 1, Len(@))]

\* ThreadQueueImplForKAddressArbiter::CancelWait.
CancelWait(t) ==
    /\ Wake({t})
    /\ tree' = [tree EXCEPT ![key[t]] = RemoveFirst(@, t)]
-----------------------------------------------------------------------------
(***************************************************************************)
(* Waiting.                                                                *)
(***************************************************************************)

CanCall(t) == state[t] = "Runnable" /\ t \notin terminating

\* Whether the word lets the thread wait, for each type of wait.
MayWait(type, user, value) ==
    IF type = "IfEqual" THEN user = value ELSE user < value

\* WaitIfLessThan and WaitIfEqual, up to reading (or decrementing) the word.  A
\* word that forbids the wait is left alone; a zero time-out is noticed only after
\* the decrement.  (A terminating thread gets its error here; the model gives it
\* no more calls.)
WaitForAddress(t, a, type, value, timeout) ==
    /\ CanCall(t) /\ Unlocked
    /\ MayWait(type, word[a], value)
    /\ word' = IF type = "DecrementIfLessThan"
               THEN [word EXCEPT ![a] = Wrap(@ - 1)] ELSE word
    /\ \/ /\ timeout = "Zero"
          /\ UNCHANGED <<state, key, timed>>
       \/ /\ timeout # "Zero"
          /\ state' = [state EXCEPT ![t] = "Locked"]
          /\ key' = [key EXCEPT ![t] = a]
          /\ timed' = IF timeout = "Finite" THEN timed \cup {t} ELSE timed
    /\ UNCHANGED <<tree, timers, priority, terminating, owes, outdated>>

\* The destructor of KScopedSchedulerLockAndSleep, for a sleep not cancelled.
RegisterTask(t) == IF t \in timed THEN timers \cup {t} ELSE timers

\* The rest of the wait: into the tree, BeginWait, and the time-out registered when
\* the scheduler is unlocked.
BeginWait(t) ==
    /\ state[t] = "Locked"
    /\ state' = [state EXCEPT ![t] = "Waiting"]
    /\ tree' = [tree EXCEPT ![key[t]] = Insert(@, t, priority[t])]
    /\ timers' = RegisterTask(t)
    /\ UNCHANGED <<word, key, timed, priority, terminating, owes, outdated>>
-----------------------------------------------------------------------------
(***************************************************************************)
(* Signaling.                                                              *)
(***************************************************************************)

\* A signal settles what the caller owes if it wakes every waiter.
Settle(t, a) == owes' = [owes EXCEPT ![t] = IF tree'[a] = <<>> THEN @ \ {a} ELSE @]

\* Mutant: signals do not take the scheduler lock.
SignalUnlocked(t, a, count) ==
    /\ CanCall(t)
    /\ WakeWaiters(a, count)
    /\ Settle(t, a)
    /\ UNCHANGED <<word, key, priority, terminating>>

Signal(t, a, count) ==
    /\ CanCall(t) /\ Unlocked
    /\ WakeWaiters(a, count)
    /\ Settle(t, a)
    /\ UNCHANGED <<word, key, priority, terminating>>

SignalAndIncrementIfEqual(t, a, value, count) ==
    /\ CanCall(t) /\ Unlocked
    /\ word[a] = value
    /\ word' = [word EXCEPT ![a] = Wrap(value + 1)]
    /\ WakeWaiters(a, count)
    /\ Settle(t, a)
    /\ UNCHANGED <<key, priority, terminating>>

\* tmp_num_waiters: the waiters after the first one, until there are more than count.
CountOtherWaiters(a, count) == Min({Len(tree[a]) - 1, count + 1})

NewValue(a, value, count) ==
    IF tree[a] = <<>> THEN Wrap(value + 1)
    ELSE IF count <= 0 THEN Wrap(value - 2)
    ELSE IF CountOtherWaiters(a, count) < count THEN Wrap(value - 1)
    ELSE value

\* The word is updated only if it has the expected value; otherwise nobody wakes.
SignalAndModifyByWaitingCountIfEqual(t, a, value, count) ==
    /\ CanCall(t) /\ Unlocked
    /\ word[a] = value
    /\ word' = [word EXCEPT ![a] = NewValue(a, value, count)]
    /\ WakeWaiters(a, count)
    /\ Settle(t, a)
    /\ UNCHANGED <<key, priority, terminating>>
-----------------------------------------------------------------------------
(***************************************************************************)
(* Everything else.                                                        *)
(***************************************************************************)

\* A program writes the word and undertakes to signal it, as these calls expect.
GuestWrite(t, a, value) ==
    /\ CanCall(t)
    /\ word[a] # value
    /\ word' = [word EXCEPT ![a] = value]
    /\ owes' = [owes EXCEPT ![t] = @ \cup {a}]
    /\ outdated' = outdated \cup {u \in Threads : state[u] # "Runnable" /\ key[u] = a}
    /\ UNCHANGED <<tree, state, key, timed, timers, priority, terminating>>

\* The hardware timer calls KThread::OnTimer.
OnTimer(t) ==
    /\ t \in timers /\ Unlocked
    /\ CancelWait(t)
    /\ UNCHANGED <<word, key, priority, terminating, owes>>

\* RequestTerminate.
RequestTerminate(t) ==
    /\ t \notin terminating /\ Unlocked
    /\ terminating' = terminating \cup {t}
    /\ IF state[t] = "Waiting" THEN CancelWait(t) ELSE UNCHANGED waitVars
    /\ UNCHANGED <<word, key, priority, owes>>

\* RestorePriority takes a waiting thread out of the tree around the change.
SetPriority(t, p) ==
    /\ Unlocked
    /\ priority[t] # p
    /\ priority' = [priority EXCEPT ![t] = p]
    /\ tree' = IF state[t] = "Waiting"
               THEN [tree EXCEPT ![key[t]] = Insert(RemoveFirst(@, t), t, p)]
               ELSE tree
    /\ UNCHANGED <<word, key, state, timed, timers, terminating, owes, outdated>>

Next ==
    \E t \in Threads :
        \/ \E a \in Addresses, type \in WaitTypes, v \in Ints, timeout \in Timeouts :
               WaitForAddress(t, a, type, v, timeout)
        \/ \E a \in Addresses, v \in Ints, count \in Counts :
               \/ SignalAndIncrementIfEqual(t, a, v, count)
               \/ SignalAndModifyByWaitingCountIfEqual(t, a, v, count)
        \/ \E a \in Addresses, count \in Counts : Signal(t, a, count)
        \/ \E a \in Addresses, v \in Ints : GuestWrite(t, a, v)
        \/ \E p \in Priorities : SetPriority(t, p)
        \/ BeginWait(t)
        \/ OnTimer(t)
        \/ RequestTerminate(t)

Spec == Init /\ [][Next]_vars
-----------------------------------------------------------------------------
\* The tree has exactly the waiting threads, each once, under its address and in
\* the order of the priorities: a time-out, a termination, a signal and a change
\* of priority all leave it so.
TreeMatchesWaiters ==
    \A a \in Addresses :
        /\ ToSet(tree[a]) = {t \in Threads : state[t] = "Waiting" /\ key[t] = a}
        /\ \A i, j \in DOMAIN tree[a] :
              i < j => tree[a][i] # tree[a][j] /\ priority[tree[a][i]] <= priority[tree[a][j]]

\* No wake-up is lost between reading the word and going to sleep: as long as a
\* thread sleeps, or will, on a word that a program changed after it was read,
\* the program has yet to signal it.
NoLostWakeUp ==
    \A t \in outdated : \E u \in Threads : key[t] \in owes[u]

\* What SignalAndModifyByWaitingCountIfEqual leaves in the word tells the program
\* how many waited: one more if nobody did, unchanged exactly if some are still
\* waiting, one less (two, if told to wake all) if the last was woken.
WordTellsWaiters ==
    \A a \in Addresses, count \in Counts, t \in Threads :
       SignalAndModifyByWaitingCountIfEqual(t, a, word[a], count) =>
           word'[a] = IF tree[a] = <<>> THEN Wrap(word[a] + 1)
                      ELSE IF tree'[a] # <<>> THEN word[a]
                      ELSE Wrap(word[a] - (IF count <= 0 THEN 2 ELSE 1))

\* A signal with a positive count wakes as many waiters as it says, if there are
\* as many, and no waiter it leaves is more urgent than one it wakes.
MostUrgentFirst ==
    \A a \in Addresses : tree[a] # <<>> =>
        \A s \in Threads, count \in Counts : Signal(s, a, count) =>
            /\ count > 0 => Len(tree[a]) - Len(tree'[a]) = Min({count, Len(tree[a])})
            /\ \A t \in ToSet(tree[a]) \ ToSet(tree'[a]), u \in ToSet(tree'[a]) :
                  priority[t] <= priority[u]

\* All of it: what holds at all times, and what the signals do.
ArbiterSound ==
    /\ [](TypeOK /\ TreeMatchesWaiters /\ NoLostWakeUp)
    /\ [][WordTellsWaiters /\ MostUrgentFirst]_vars
=============================================================================
