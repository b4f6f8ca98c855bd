---------------------------- MODULE BoundedQueue ----------------------------
(***************************************************************************)
(* The bounded queues of common: a ring with one read and one write index, *)
(* a condition variable for each side, and a mutex that lets one producer  *)
(* and one consumer in at a time (MPMCQueue; without the second MPSCQueue, *)
(* without both SPSCQueue).  TryEmplace, EmplaceWait, TryPop, PopWait and  *)
(* PopWait with a stop token.                                              *)
(*                                                                         *)
(* The two sides are alike: a thread takes its mutex and its index, waits  *)
(* for room or data, moves the value, advances the index, and notifies.    *)
(***************************************************************************)
EXTENDS Naturals, Sequences, FiniteSets

CONSTANTS
    Producers, Consumers, Values, None,
    Capacity,
    IndexSize       \* the indices are size_t: 2^64, a multiple of the capacity

CapacityAssumption ==
    /\ Capacity \in Nat \ {0} /\ IndexSize \in Nat
    /\ IndexSize % Capacity = 0 /\ IndexSize > Capacity
SidesAssumption == Producers \cap Consumers = {} /\ None \notin Producers \cup Consumers \cup Values

Threads == Producers \cup Consumers
Sides == {"producer", "consumer"}

VARIABLES
    readIndex, writeIndex, data,
    sideMutex,      \* write_mutex and read_mutex: the owner
    cvMutex,        \* producer_cv_mutex and consumer_cv_mutex: the owner
    asleep,         \* threads in a condition variable wait
    pc, mode,       \* the step and the kind of each call
    item,           \* the value of each call
    popped,         \* the value that left the queue last
    stop            \* the stop token

callVars == <<pc, mode, item>>
ringVars == <<readIndex, writeIndex, data, popped>>
vars == <<callVars, ringVars, sideMutex, cvMutex, asleep, stop>>

Side(t) == IF t \in Producers THEN "producer" ELSE "consumer"
Other(t) == IF t \in Producers THEN "consumer" ELSE "producer"

TypeOK ==
    /\ readIndex \in 0 .. IndexSize - 1 /\ writeIndex \in 0 .. IndexSize - 1
    /\ data \in [0 .. Capacity - 1 -> Values \cup {None}] /\ popped \in Values \cup {None}
    /\ sideMutex \in [Sides -> Threads \cup {None}] /\ cvMutex \in [Sides -> Threads \cup {None}]
    /\ asleep \subseteq Threads /\ stop \in BOOLEAN
    /\ pc \in [Threads -> {"idle", "enter", "try", "lock", "check", "sleep", "move", "advance", "notify"}]
    /\ mode \in [Threads -> {"try", "wait", "stoppable"}]
    /\ item \in [Threads -> Values \cup {None}]

Init ==
    /\ readIndex = 0 /\ writeIndex = 0 /\ data = [i \in 0 .. Capacity - 1 |-> None]
    /\ sideMutex = [s \in Sides |-> None] /\ cvMutex = [s \in Sides |-> None]
    /\ asleep = {} /\ stop = FALSE /\ popped = None
    /\ pc = [t \in Threads |-> "idle"] /\ mode = [t \in Threads |-> "try"]
    /\ item = [t \in Threads |-> None]
-----------------------------------------------------------------------------
\* write_index - read_index, in size_t.
Size == (writeIndex + IndexSize - readIndex) % IndexSize

\* There is room, or data.
Ready(t) == IF t \in Producers THEN Size < Capacity ELSE Size # 0

\* The call leaves: with scoped locks nothing is held.
Leave(t) ==
    /\ pc' = [pc EXCEPT ![t] = "idle"] /\ mode' = [mode EXCEPT ![t] = "try"]
    /\ item' = [item EXCEPT ![t] = None]
    /\ sideMutex' = [sideMutex EXCEPT ![Side(t)] = None]

Call(t, m, v) ==
    /\ pc[t] = "idle"
    /\ m = "stoppable" => t \in Consumers
    /\ IF t \in Producers THEN v \in Values ELSE v = None
    /\ pc' = [pc EXCEPT ![t] = "enter"] /\ mode' = [mode EXCEPT ![t] = m]
    /\ item' = [item EXCEPT ![t] = v]
    /\ UNCHANGED <<ringVars, sideMutex, cvMutex, asleep, stop>>

Enter(t) ==
    /\ pc[t] = "enter" /\ sideMutex[Side(t)] = None
    /\ sideMutex' = [sideMutex EXCEPT ![Side(t)] = t]
    /\ pc' = [pc EXCEPT ![t] = IF mode[t] = "try" THEN "try" ELSE "lock"]
    /\ UNCHANGED <<mode, item, ringVars, cvMutex, asleep, stop>>

\* PushMode::Try and PopMode::Try.
Try(t) ==
    /\ pc[t] = "try"
    /\ IF Ready(t)
       THEN pc' = [pc EXCEPT ![t] = "move"] /\ UNCHANGED <<mode, item, sideMutex>>
       ELSE Leave(t)
    /\ UNCHANGED <<ringVars, cvMutex, asleep, stop>>

\* The waits: the mutex of the condition variable, ...
LockCv(t) ==
    /\ pc[t] = "lock" /\ cvMutex[Side(t)] = None
    /\ cvMutex' = [cvMutex EXCEPT ![Side(t)] = t]
    /\ pc' = [pc EXCEPT ![t] = "check"]
    /\ UNCHANGED <<mode, item, ringVars, sideMutex, asleep, stop>>

\* ... the predicate, and after it the stop token, ...
Check(t) ==
    LET stopped == mode[t] = "stoppable" /\ stop IN
    /\ pc[t] = "check"
    /\ IF Ready(t) \/ stopped THEN cvMutex' = [cvMutex EXCEPT ![Side(t)] = None]
                              ELSE UNCHANGED cvMutex
    /\ IF stopped THEN Leave(t)
       ELSE /\ pc' = [pc EXCEPT ![t] = IF Ready(t) THEN "move" ELSE "sleep"]
            /\ UNCHANGED <<mode, item, sideMutex>>
    /\ UNCHANGED <<ringVars, asleep, stop>>

\* ... and the wait, which releases the mutex.  A wait that a stop token can end does not
\* begin after the stop.
Sleep(t) ==
    /\ pc[t] = "sleep" /\ t \notin asleep /\ cvMutex[Side(t)] = t
    /\ cvMutex' = [cvMutex EXCEPT ![Side(t)] = None]
    /\ IF mode[t] = "stoppable" /\ stop
       THEN pc' = [pc EXCEPT ![t] = "lock"] /\ UNCHANGED asleep
       ELSE asleep' = asleep \cup {t} /\ UNCHANGED pc
    /\ UNCHANGED <<mode, item, ringVars, sideMutex, stop>>

\* A thread that is notified, or wakes for no reason, checks again.
WakeUp(ts) ==
    /\ asleep' = asleep \ ts
    /\ pc' = [t \in Threads |-> IF t \in ts THEN "lock" ELSE pc[t]]

SpuriousWakeUp(t) ==
    /\ t \in asleep
    /\ WakeUp({t})
    /\ UNCHANGED <<mode, item, ringVars, sideMutex, cvMutex, stop>>

Slot(t) == (IF t \in Producers THEN writeIndex ELSE readIndex) % Capacity

\* The value is constructed in the slot, or moved from it.
Move(t) ==
    /\ pc[t] = "move"
    /\ pc' = [pc EXCEPT ![t] = "advance"]
    /\ item' = [item EXCEPT ![t] = IF t \in Producers THEN None ELSE data[Slot(t)]]
    /\ data' = [data EXCEPT ![Slot(t)] = IF t \in Producers THEN item[t] ELSE None]
    /\ UNCHANGED <<mode, readIndex, writeIndex, popped, sideMutex, cvMutex, asleep, stop>>

Increment(i) == (i + 1) % IndexSize

Advance(t) ==
    /\ pc[t] = "advance"
    /\ pc' = [pc EXCEPT ![t] = "notify"]
    /\ IF t \in Producers
       THEN writeIndex' = Increment(writeIndex) /\ UNCHANGED <<readIndex, popped>>
       ELSE readIndex' = Increment(readIndex) /\ popped' = item[t] /\ UNCHANGED writeIndex
    /\ UNCHANGED <<mode, item, data, sideMutex, cvMutex, asleep, stop>>

\* Mutant: the lock is not taken.
NotifyUnlocked(t) == TRUE

MayNotify(t) == cvMutex[Other(t)] = None

\* notify_one of the other side, under its mutex; then the call returns.
Notify(t) ==
    LET waiting == {u \in asleep : Side(u) = Other(t)} IN
    /\ pc[t] = "notify" /\ MayNotify(t)
    /\ \E ts \in SUBSET waiting :
          /\ Cardinality(ts) = (IF waiting = {} THEN 0 ELSE 1)
          /\ asleep' = asleep \ ts
          /\ pc' = [u \in Threads |-> IF u \in ts THEN "lock" ELSE IF u = t THEN "idle" ELSE pc[u]]
    /\ mode' = [mode EXCEPT ![t] = "try"] /\ item' = [item EXCEPT ![t] = None]
    /\ sideMutex' = [sideMutex EXCEPT ![Side(t)] = None]
    /\ UNCHANGED <<ringVars, cvMutex, stop>>

StopCallback(ts) == WakeUp(ts)

\* request_stop wakes the waits that were given the token.
RequestStop ==
    /\ ~stop
    /\ stop' = TRUE
    /\ StopCallback({t \in asleep : mode[t] = "stoppable"})
    /\ UNCHANGED <<mode, item, ringVars, sideMutex, cvMutex>>
-----------------------------------------------------------------------------
Step(t) ==
    \/ Enter(t) \/ Try(t) \/ LockCv(t) \/ Check(t) \/ Sleep(t)
    \/ Move(t) \/ Advance(t) \/ Notify(t)

Next ==
    \/ \E t \in Threads :
          \/ \E m \in {"try", "wait", "stoppable"}, v \in Values \cup {None} : Call(t, m, v)
          \/ Step(t) \/ SpuriousWakeUp(t)
    \/ RequestStop

\* Threads run and get the mutexes they ask for; no wake-up is for no reason.
Fairness ==
    \A t \in Threads :
        WF_vars(Step(t)) /\ SF_vars(Enter(t)) /\ SF_vars(LockCv(t)) /\ SF_vars(Notify(t))

Spec == Init /\ [][Next]_vars /\ Fairness
-----------------------------------------------------------------------------
Contents == [i \in 1 .. Size |-> data[(readIndex + i - 1) % Capacity]]

\* The slot a consumer has emptied still counts until it advances the read index.
Taken == {t \in Consumers : pc[t] = "advance"}

Queued == IF Taken = {} THEN Contents
          ELSE [Contents EXCEPT ![1] = item[CHOOSE t \in Taken : TRUE]]

F == INSTANCE Fifo WITH queue <- Queued, last <- popped

\* Nobody sleeps through a change of the other side: if there is something to do, the one
\* who made it so is still going to notify, or somebody who came before does it.
NoLostWakeUp ==
    \A t \in asleep : Ready(t) => \E u \in Threads : Side(u) = Other(t) /\ pc[u] = "notify"

\* The queue implements Fifo: the order, no value lost, overwritten or taken twice, at every
\* point of the indices, their wrap included; and no thread misses its wake-up.
QueueSound == F!Spec /\ [](TypeOK /\ NoLostWakeUp)
-----------------------------------------------------------------------------
(***************************************************************************)
(* The inductive invariant behind QueueSound.                              *)
(***************************************************************************)

\* Inside a call, past its mutex.
Inside == {"try", "lock", "check", "sleep", "move", "advance", "notify"}

\* One producer and one consumer are inside at a time, asleep or not, and one that is between
\* the predicate and the wait has the mutex of its condition variable.
OnePerSide ==
    /\ \A t \in Threads : pc[t] \in Inside => sideMutex[Side(t)] = t
    /\ \A t \in asleep : pc[t] = "sleep"
    /\ \A t \in Threads :
        pc[t] = "check" \/ (pc[t] = "sleep" /\ t \notin asleep) => cvMutex[Side(t)] = t

\* Room or data that a thread has found stays: only its own side can use it up.
StaysReady ==
    /\ Size <= Capacity
    /\ \A t \in Threads : pc[t] \in {"move", "advance"} => Ready(t)

\* The value of a producer is in its hands until it is in the slot after the last one.
ValueAtHand ==
    \A t \in Producers :
        /\ pc[t] \in {"enter", "try", "lock", "check", "sleep", "move"} => item[t] \in Values
        /\ pc[t] = "advance" => data[writeIndex % Capacity] \in Values

\* NoLostWakeUp also of a thread that has looked and is about to sleep.
NotifyComes ==
    \A t \in Threads : pc[t] = "sleep" /\ Ready(t) =>
        \E u \in Threads : Side(u) = Other(t) /\ pc[u] = "notify"

QueueInv == OnePerSide /\ StaysReady /\ ValueAtHand /\ NotifyComes
=============================================================================
