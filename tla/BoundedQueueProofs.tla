-------------------------- MODULE BoundedQueueProofs --------------------------
(***************************************************************************)
(* Proof that the bounded queue implements Fifo and loses no wake-up, for  *)
(* any capacity, any width of the indices that is a multiple of it, and    *)
(* any number of producers and consumers: QueueInv is inductive.           *)
(*                                                                         *)
(* First the arithmetic of indices that wrap, then what the steps that     *)
(* touch the ring do to the contents, then the invariant, then the         *)
(* refinement.                                                             *)
(***************************************************************************)
EXTENDS BoundedQueue, Integers, FiniteSetTheorems, SequenceTheorems, TLAPS

\* The remainder is the only number of its range that differs by a multiple.
LEMMA RemainderUnique ==
    ASSUME NEW a \in Int, NEW b \in Nat \ {0}, NEW q \in Int, NEW r \in 0 .. b - 1, a = q * b + r
    PROVE  a % b = r
<1>1. a \div b \in Int /\ a % b \in 0 .. b - 1 /\ a = b * (a \div b) + (a % b)
  OBVIOUS
<1> DEFINE k == q - (a \div b)
<1>2. k \in Int /\ k * b = (a % b) - r
  BY <1>1
<1>3. CASE k = 0
  BY <1>1, <1>2, <1>3
<1>4. CASE k >= 1
  <2>1. k * b >= b
    BY <1>2, <1>4
  <2>2. QED
    BY <1>1, <1>2, <2>1
<1>5. CASE k <= -1
  <2>1. k * b <= -b
    BY <1>2, <1>5
  <2>2. QED
    BY <1>1, <1>2, <2>1
<1>6. QED
  BY <1>2, <1>3, <1>4, <1>5

LEMMA RemainderTwice ==
    ASSUME NEW a \in Int, NEW b \in Nat \ {0}
    PROVE  a % b \in 0 .. b - 1 /\ \E q \in Int : a = q * b + (a % b)
<1>1. a \div b \in Int /\ a % b \in 0 .. b - 1 /\ a = (a \div b) * b + (a % b)
  OBVIOUS
<1>2. QED
  BY <1>1

\* Multiples do not change the remainder.
LEMMA RemainderShift ==
    ASSUME NEW a \in Int, NEW b \in Nat \ {0}, NEW k \in Int
    PROVE  (a + k * b) % b = a % b
<1>1. PICK q \in Int : a = q * b + (a % b)
  BY RemainderTwice
<1>2. a % b \in 0 .. b - 1
  BY RemainderTwice
<1>3. a + k * b \in Int /\ q + k \in Int /\ a + k * b = (q + k) * b + (a % b)
  BY <1>1, <1>2
<1>4. QED
  BY <1>2, <1>3, RemainderUnique

\* Numbers less than b apart have different remainders.
LEMMA RemainderDiffers ==
    ASSUME NEW a \in Int, NEW b \in Nat \ {0}, NEW c \in Int, a < c, c < a + b
    PROVE  a % b # c % b
<1> SUFFICES ASSUME a % b = c % b PROVE FALSE
  OBVIOUS
<1>1. PICK q \in Int : a = q * b + (a % b)
  BY RemainderTwice
<1>2. PICK p \in Int : c = p * b + (c % b)
  BY RemainderTwice
<1>3. a % b \in Int
  BY RemainderTwice
<1> DEFINE k == p - q
<1>4. k \in Int /\ c - a = k * b
  BY <1>1, <1>2, <1>3
<1>5. k <= 0 => k * b <= 0
  BY <1>4
<1>6. k >= 1 => k * b >= b
  BY <1>4
<1>7. QED
  BY <1>4, <1>5, <1>6
-----------------------------------------------------------------------------
\* The difference of two indices, with at most one wrap.
LEMMA SizeIs ==
    ASSUME CapacityAssumption, NEW w \in 0 .. IndexSize - 1, NEW r \in 0 .. IndexSize - 1
    PROVE  (w + IndexSize - r) % IndexSize = IF w >= r THEN w - r ELSE w + IndexSize - r
<1>1. IndexSize \in Nat \ {0} /\ w + IndexSize - r \in Int
  BY DEF CapacityAssumption
<1>2. CASE w >= r
  <2>1. w - r \in 0 .. IndexSize - 1 /\ w + IndexSize - r = 1 * IndexSize + (w - r)
    BY <1>1, <1>2
  <2>2. QED
    BY <1>1, <1>2, <2>1, RemainderUnique
<1>3. CASE ~(w >= r)
  <2>1. /\ w + IndexSize - r \in 0 .. IndexSize - 1
        /\ w + IndexSize - r = 0 * IndexSize + (w + IndexSize - r)
    BY <1>1, <1>3
  <2>2. QED
    BY <1>1, <1>3, <2>1, RemainderUnique
<1>4. QED
  BY <1>2, <1>3

\* Increment wraps at the width of an index only.
LEMMA IncrementIs ==
    ASSUME CapacityAssumption, NEW i \in 0 .. IndexSize - 1
    PROVE  Increment(i) = IF i = IndexSize - 1 THEN 0 ELSE i + 1
<1>1. IndexSize \in Nat \ {0} /\ i + 1 \in Int
  BY DEF CapacityAssumption
<1>2. CASE i = IndexSize - 1
  <2>1. 0 \in 0 .. IndexSize - 1 /\ i + 1 = 1 * IndexSize + 0
    BY <1>1, <1>2
  <2>2. QED
    BY <1>1, <1>2, <2>1, RemainderUnique DEF Increment
<1>3. CASE i # IndexSize - 1
  <2>1. i + 1 \in 0 .. IndexSize - 1 /\ i + 1 = 0 * IndexSize + (i + 1)
    BY <1>1, <1>3
  <2>2. QED
    BY <1>1, <1>3, <2>1, RemainderUnique DEF Increment
<1>4. QED
  BY <1>2, <1>3

\* The wrap of an index does not move its slot.
LEMMA SlotWraps ==
    ASSUME CapacityAssumption, NEW a \in Int
    PROVE  (a + IndexSize) % Capacity = a % Capacity
<1>1. Capacity \in Nat \ {0} /\ IndexSize \in Int /\ IndexSize % Capacity = 0
  BY DEF CapacityAssumption
<1>2. PICK k \in Int : IndexSize = k * Capacity + (IndexSize % Capacity)
  BY <1>1, RemainderTwice
<1>3. IndexSize = k * Capacity
  BY <1>1, <1>2
<1>4. (a + k * Capacity) % Capacity = a % Capacity
  BY <1>1, RemainderShift
<1>5. QED
  BY <1>3, <1>4
-----------------------------------------------------------------------------
\* What Size is worth.
LEMMA RingSize ==
    ASSUME CapacityAssumption, TypeOK
    PROVE  /\ Size = IF writeIndex >= readIndex THEN writeIndex - readIndex
                     ELSE writeIndex + IndexSize - readIndex
           /\ Size \in 0 .. IndexSize - 1
<1>1. IndexSize \in Nat
  BY DEF CapacityAssumption
<1>2. QED
  BY <1>1, SizeIs DEF TypeOK, Size

\* Advance of a producer adds one, ...
LEMMA Grows ==
    ASSUME CapacityAssumption, TypeOK, Size < Capacity,
           writeIndex' = Increment(writeIndex), readIndex' = readIndex
    PROVE  Size' = Size + 1 /\ writeIndex' \in 0 .. IndexSize - 1
<1>1. /\ IndexSize \in Nat /\ Capacity \in Nat \ {0} /\ IndexSize > Capacity
      /\ readIndex \in 0 .. IndexSize - 1 /\ writeIndex \in 0 .. IndexSize - 1
  BY DEF CapacityAssumption, TypeOK
<1>2. /\ writeIndex' = IF writeIndex = IndexSize - 1 THEN 0 ELSE writeIndex + 1
      /\ writeIndex' \in 0 .. IndexSize - 1
  BY <1>1, IncrementIs
<1>3. Size' = IF writeIndex' >= readIndex THEN writeIndex' - readIndex
              ELSE writeIndex' + IndexSize - readIndex
  BY <1>1, <1>2, SizeIs DEF Size
<1>4. QED
  BY <1>1, <1>2, <1>3, RingSize

\* ... and of a consumer takes one away.
LEMMA Shrinks ==
    ASSUME CapacityAssumption, TypeOK, Size # 0,
           readIndex' = Increment(readIndex), writeIndex' = writeIndex
    PROVE  Size' = Size - 1 /\ readIndex' \in 0 .. IndexSize - 1
<1>1. /\ IndexSize \in Nat /\ Capacity \in Nat \ {0} /\ IndexSize > Capacity
      /\ readIndex \in 0 .. IndexSize - 1 /\ writeIndex \in 0 .. IndexSize - 1
  BY DEF CapacityAssumption, TypeOK
<1>2. /\ readIndex' = IF readIndex = IndexSize - 1 THEN 0 ELSE readIndex + 1
      /\ readIndex' \in 0 .. IndexSize - 1
  BY <1>1, IncrementIs
<1>3. Size' = IF writeIndex >= readIndex' THEN writeIndex - readIndex'
              ELSE writeIndex + IndexSize - readIndex'
  BY <1>1, <1>2, SizeIs DEF Size
<1>4. QED
  BY <1>1, <1>2, <1>3, RingSize

\* Both ends of the ring in one array: the write index is Size slots ahead, ...
LEMMA WriteSlot ==
    ASSUME CapacityAssumption, TypeOK
    PROVE  writeIndex % Capacity = (readIndex + Size) % Capacity
<1>1. IndexSize \in Nat /\ readIndex \in Int /\ writeIndex \in Int
  BY DEF CapacityAssumption, TypeOK
<1>2. readIndex + Size = writeIndex \/ readIndex + Size = writeIndex + IndexSize
  BY <1>1, RingSize
<1>3. (writeIndex + IndexSize) % Capacity = writeIndex % Capacity
  BY <1>1, SlotWraps
<1>4. QED
  BY <1>2, <1>3

\* ... and the same slot only if the ring is full or empty.
LEMMA FullEmpty ==
    ASSUME CapacityAssumption, TypeOK, Size # 0, Size < Capacity
    PROVE  readIndex % Capacity # writeIndex % Capacity
<1>1. /\ Capacity \in Nat \ {0} /\ readIndex \in Int /\ Size \in Nat
      /\ readIndex < readIndex + Size /\ readIndex + Size < readIndex + Capacity
  BY RingSize DEF CapacityAssumption, TypeOK
<1>2. readIndex % Capacity # (readIndex + Size) % Capacity
  <2> DEFINE c == readIndex + Size
  <2>1. c \in Int /\ readIndex < c /\ c < readIndex + Capacity
    BY <1>1
  <2> HIDE DEF c
  <2>2. readIndex % Capacity # c % Capacity
    BY <1>1, <2>1, RemainderDiffers
  <2>3. QED
    BY <2>2 DEF c
<1>3. QED
  BY <1>2, WriteSlot

\* Steps that leave the indices alone.
LEMMA IndicesSame ==
    ASSUME readIndex' = readIndex, writeIndex' = writeIndex
    PROVE  Size' = Size /\ \A t \in Threads : Ready(t)' <=> Ready(t)
BY DEF Size, Ready

\* Slots are slots of the array.
LEMMA SlotType ==
    ASSUME CapacityAssumption, TypeOK, NEW t
    PROVE  Slot(t) \in 0 .. Capacity - 1
<1>1. Capacity \in Nat \ {0} /\ readIndex \in Int /\ writeIndex \in Int
  BY DEF CapacityAssumption, TypeOK
<1>2. QED
  BY <1>1, RemainderTwice DEF Slot

\* Of two threads inside, one is on each side.
LEMMA Alone ==
    ASSUME OnePerSide, NEW t \in Threads, NEW u \in Threads,
           pc[t] \in Inside, pc[u] \in Inside, Side(t) = Side(u)
    PROVE  t = u
BY DEF OnePerSide

\* Two sides, each the other's other, and no thread on both.
LEMMA TwoSides ==
    ASSUME SidesAssumption, NEW t \in Threads
    PROVE  /\ Side(t) \in Sides /\ Other(t) \in Sides /\ t # None
           /\ t \in Producers <=> Side(t) = "producer"
           /\ t \in Consumers <=> Side(t) = "consumer"
           /\ \A u \in Threads : Side(u) = Other(t) <=> Side(u) # Side(t)
BY DEF SidesAssumption, Threads, Side, Other, Sides
-----------------------------------------------------------------------------
\* Every step keeps the types.
LEMMA TypeStep ==
    ASSUME CapacityAssumption, SidesAssumption, TypeOK, StaysReady, [Next]_vars
    PROVE  TypeOK'
<1>1. ASSUME NEW t \in Threads, NEW m \in {"try", "wait", "stoppable"},
             NEW v \in Values \cup {None}, Call(t, m, v)
      PROVE  TypeOK'
  BY <1>1 DEF Call, TypeOK, ringVars
<1>2. ASSUME NEW t \in Threads, Enter(t) \/ Try(t) \/ LockCv(t) \/ Check(t) \/ Sleep(t)
      PROVE  TypeOK'
  <2>1. t \in Threads /\ Side(t) \in Sides
    BY TwoSides
  <2>2. QED
    BY <1>2, <2>1 DEF Enter, Try, LockCv, Check, Sleep, Leave, TypeOK, ringVars
<1>3. ASSUME NEW t \in Threads, Move(t)
      PROVE  TypeOK'
  <2>1. Slot(t) \in 0 .. Capacity - 1
    BY SlotType
  <2>2. QED
    BY <1>3, <2>1 DEF Move, TypeOK
<1>4. ASSUME NEW t \in Threads, Advance(t)
      PROVE  TypeOK'
  <2>1. CASE t \in Producers
    <3>1. Size < Capacity
      BY <1>4, <2>1 DEF Advance, StaysReady, Ready
    <3>2. writeIndex' \in 0 .. IndexSize - 1
      BY <1>4, <2>1, <3>1, Grows DEF Advance
    <3>3. QED
      BY <1>4, <2>1, <3>2 DEF Advance, TypeOK
  <2>2. CASE t \notin Producers
    <3>1. Size # 0
      BY <1>4, <2>2 DEF Advance, StaysReady, Ready
    <3>2. readIndex' \in 0 .. IndexSize - 1
      BY <1>4, <2>2, <3>1, Shrinks DEF Advance
    <3>3. QED
      BY <1>4, <2>2, <3>2 DEF Advance, TypeOK
  <2>3. QED
    BY <2>1, <2>2
<1>5. ASSUME NEW t \in Threads, Notify(t)
      PROVE  TypeOK'
  <2>1. Side(t) \in Sides
    BY TwoSides
  <2>2. PICK ts \in SUBSET asleep :
            /\ asleep' = asleep \ ts
            /\ pc' = [u \in Threads |-> IF u \in ts THEN "lock"
                                        ELSE IF u = t THEN "idle" ELSE pc[u]]
    BY <1>5 DEF Notify
  <2>3. QED
    BY <1>5, <2>1, <2>2 DEF Notify, TypeOK, ringVars
<1>6. ASSUME NEW t \in Threads, SpuriousWakeUp(t)
      PROVE  TypeOK'
  BY <1>6 DEF SpuriousWakeUp, WakeUp, TypeOK, ringVars
<1>7. CASE RequestStop
  BY <1>7 DEF RequestStop, StopCallback, WakeUp, TypeOK, ringVars
<1>8. CASE UNCHANGED vars
  BY <1>8 DEF vars, callVars, ringVars, TypeOK
<1>9. QED
  BY <1>1, <1>2, <1>3, <1>4, <1>5, <1>6, <1>7, <1>8 DEF Next, Step
-----------------------------------------------------------------------------
(***************************************************************************)
(* QueueInv, step by step.                                                 *)
(***************************************************************************)

\* Steps of one thread that leave the ring alone and wake nobody.
LEMMA QuietSteps ==
    ASSUME SidesAssumption, TypeOK, QueueInv, NEW t \in Threads,
           \/ \E m \in {"try", "wait", "stoppable"}, v \in Values \cup {None} : Call(t, m, v)
           \/ Enter(t) \/ Try(t) \/ LockCv(t) \/ Check(t) \/ Sleep(t)
    PROVE  QueueInv'
<1>1. /\ UNCHANGED ringVars /\ Size' = Size
      /\ \A u \in Threads : Ready(u)' <=> Ready(u)
  BY IndicesSame DEF Call, Enter, Try, LockCv, Check, Sleep, ringVars
<1>2. \A u \in Threads : u # t => pc'[u] = pc[u] /\ item'[u] = item[u]
  BY DEF Call, Enter, Try, LockCv, Check, Sleep, Leave, TypeOK
<1>3. /\ Side(t) \in Sides /\ \A u \in Threads : Side(u) \in Sides /\ u # None
  BY TwoSides
<1>4. OnePerSide'
  <2>1. CASE \E m \in {"try", "wait", "stoppable"}, v \in Values \cup {None} : Call(t, m, v)
    BY <2>1 DEF Call, TypeOK, QueueInv, OnePerSide, Inside
  <2>2. CASE Enter(t)
    BY <1>3, <2>2 DEF Enter, TypeOK, QueueInv, OnePerSide, Inside
  <2>3. CASE Try(t)
    BY <1>3, <2>3 DEF Try, Leave, TypeOK, QueueInv, OnePerSide, Inside
  <2>4. CASE LockCv(t)
    BY <1>3, <2>4 DEF LockCv, TypeOK, QueueInv, OnePerSide, Inside
  <2>5. CASE Check(t)
    BY <1>3, <2>5 DEF Check, Leave, TypeOK, QueueInv, OnePerSide, Inside
  <2>6. CASE Sleep(t)
    BY <1>3, <2>6 DEF Sleep, TypeOK, QueueInv, OnePerSide, Inside
  <2>7. QED
    BY <2>1, <2>2, <2>3, <2>4, <2>5, <2>6
<1>5. StaysReady'
  <2>1. pc'[t] \in {"move", "advance"} => Ready(t)
    BY DEF Call, Enter, Try, LockCv, Check, Sleep, Leave, TypeOK
  <2>2. QED
    BY <1>1, <1>2, <2>1 DEF QueueInv, StaysReady
<1>6. ValueAtHand'
  <2>1. t \in Producers /\ pc'[t] \in {"enter", "try", "lock", "check", "sleep", "move"}
            => item'[t] \in Values
    BY DEF Call, Enter, Try, LockCv, Check, Sleep, Leave, TypeOK, QueueInv, ValueAtHand
  <2>2. pc'[t] # "advance"
    BY DEF Call, Enter, Try, LockCv, Check, Sleep, Leave, TypeOK
  <2>3. QED
    BY <1>1, <1>2, <2>1, <2>2 DEF QueueInv, ValueAtHand, ringVars, Threads
<1>7. NotifyComes'
  <2>1. pc'[t] = "sleep" /\ Ready(t) => pc[t] = "sleep"
    BY DEF Call, Enter, Try, LockCv, Check, Sleep, Leave, TypeOK
  <2>2. pc[t] # "notify"
    BY DEF Call, Enter, Try, LockCv, Check, Sleep
  <2>3. QED
    BY <1>1, <1>2, <2>1, <2>2 DEF QueueInv, NotifyComes
<1>8. QED
  BY <1>4, <1>5, <1>6, <1>7 DEF QueueInv

\* A value moves into its slot or out of it.
LEMMA MoveStep ==
    ASSUME CapacityAssumption, SidesAssumption, TypeOK, QueueInv, NEW t \in Threads, Move(t)
    PROVE  QueueInv'
<1>1. /\ Size' = Size /\ \A u \in Threads : Ready(u)' <=> Ready(u)
  BY IndicesSame DEF Move
<1>2. /\ pc[t] = "move" /\ pc' = [pc EXCEPT ![t] = "advance"]
      /\ UNCHANGED <<sideMutex, cvMutex, asleep, writeIndex>>
  BY DEF Move
<1>3. OnePerSide' /\ StaysReady' /\ NotifyComes'
  BY <1>1, <1>2 DEF TypeOK, QueueInv, OnePerSide, StaysReady, NotifyComes, Inside
<1>4. ValueAtHand'
  <2>1. \A u \in Producers : u # t => u \in Threads /\ pc'[u] = pc[u] /\ item'[u] = item[u]
    BY <1>2 DEF Move, TypeOK, Threads
  <2>2. CASE t \in Producers
    <3>1. Slot(t) = writeIndex % Capacity /\ data'[Slot(t)] = item[t] /\ item[t] \in Values
      BY <2>2, SlotType DEF Move, Slot, TypeOK, QueueInv, ValueAtHand
    <3>2. QED
      BY <1>2, <2>1, <3>1 DEF TypeOK, QueueInv, ValueAtHand
  <2>3. CASE t \notin Producers
    <3>1. ASSUME NEW u \in Producers, pc[u] = "advance"
          PROVE  data'[writeIndex % Capacity] = data[writeIndex % Capacity]
      <4>1. Size < Capacity /\ Size # 0 /\ u \in Threads
        BY <1>2, <2>3, <3>1 DEF QueueInv, StaysReady, Ready, Threads
      <4>2. readIndex % Capacity # writeIndex % Capacity
        BY <4>1, FullEmpty
      <4>3. Slot(t) = readIndex % Capacity
        BY <2>3 DEF Slot
      <4>4. QED
        BY <4>2, <4>3 DEF Move, TypeOK
    <3>2. \A u \in Producers : u # t
      BY <2>3
    <3>3. QED
      BY <1>2, <2>1, <3>1, <3>2 DEF QueueInv, ValueAtHand
  <2>4. QED
    BY <2>2, <2>3
<1>5. QED
  BY <1>3, <1>4 DEF QueueInv

\* The index moves on: what was ready for the other side stays so.
LEMMA AdvanceStep ==
    ASSUME CapacityAssumption, SidesAssumption, TypeOK, QueueInv, NEW t \in Threads, Advance(t)
    PROVE  QueueInv'
<1>1. /\ pc[t] = "advance" /\ pc' = [pc EXCEPT ![t] = "notify"]
      /\ UNCHANGED <<item, data, sideMutex, cvMutex, asleep>>
  BY DEF Advance
<1>2. /\ Capacity \in Nat \ {0} /\ IndexSize \in Nat /\ Size \in 0 .. IndexSize - 1 /\ Size <= Capacity
  BY RingSize DEF CapacityAssumption, QueueInv, StaysReady
<1>3. ASSUME NEW u \in Threads, pc[u] \in Inside, u # t
      PROVE  Side(u) = Other(t) /\ (t \in Producers <=> u \notin Producers)
  <2>1. Side(u) # Side(t)
    BY <1>1, <1>3, Alone DEF QueueInv, Inside
  <2>2. QED
    BY <2>1 DEF Side, Other
<1>4. /\ t \in Producers => Size < Capacity /\ Size' = Size + 1
      /\ t \notin Producers => Size # 0 /\ Size' = Size - 1
  <2>1. Ready(t)
    BY <1>1 DEF QueueInv, StaysReady
  <2>2. CASE t \in Producers
    BY <2>1, <2>2, Grows DEF Advance, Ready
  <2>3. CASE t \notin Producers
    BY <2>1, <2>3, Shrinks DEF Advance, Ready
  <2>4. QED
    BY <2>2, <2>3
<1>5. OnePerSide'
  BY <1>1 DEF TypeOK, QueueInv, OnePerSide, Inside
<1>6. StaysReady'
  <2>1. Size' <= Capacity
    BY <1>2, <1>4
  <2>2. ASSUME NEW u \in Threads, pc'[u] \in {"move", "advance"}
        PROVE  Ready(u)'
    <3>1. u # t /\ pc[u] \in {"move", "advance"}
      BY <1>1, <2>2 DEF TypeOK
    <3>2. Ready(u) /\ (t \in Producers <=> u \notin Producers)
      BY <1>3, <3>1 DEF QueueInv, StaysReady, Inside
    <3>3. QED
      BY <1>2, <1>4, <3>2 DEF Ready
  <2>3. QED
    BY <2>1, <2>2 DEF StaysReady
<1>7. ValueAtHand'
  <2>1. ASSUME NEW u \in Producers, pc'[u] = "advance"
        PROVE  writeIndex' = writeIndex /\ pc[u] = "advance"
    <3>1. u # t /\ pc[u] = "advance" /\ u \in Threads
      BY <1>1, <2>1 DEF TypeOK, Threads
    <3>2. t \notin Producers
      BY <1>3, <2>1, <3>1 DEF Inside
    <3>3. QED
      BY <3>1, <3>2 DEF Advance
  <2>2. QED
    BY <1>1, <2>1 DEF TypeOK, QueueInv, ValueAtHand, Threads
<1>8. NotifyComes'
  <2>1. ASSUME NEW u \in Threads, pc'[u] = "sleep"
        PROVE  Side(t) = Other(u)
    <3>1. u # t /\ pc[u] = "sleep"
      BY <1>1, <2>1 DEF TypeOK
    <3>2. QED
      BY <1>3, <3>1, TwoSides DEF Inside
  <2>2. pc'[t] = "notify"
    BY <1>1 DEF TypeOK
  <2>3. QED
    BY <2>1, <2>2 DEF NotifyComes
<1>9. QED
  BY <1>5, <1>6, <1>7, <1>8 DEF QueueInv

\* The thread that may sleep on the other side is asleep by now, and the only one there.
LEMMA NotifyStep ==
    ASSUME SidesAssumption, TypeOK, QueueInv, NEW t \in Threads, Notify(t)
    PROVE  QueueInv'
<1> DEFINE waiting == {u \in asleep : Side(u) = Other(t)}
<1>1. PICK ts \in SUBSET waiting :
          /\ Cardinality(ts) = (IF waiting = {} THEN 0 ELSE 1)
          /\ asleep' = asleep \ ts
          /\ pc' = [u \in Threads |-> IF u \in ts THEN "lock" ELSE IF u = t THEN "idle" ELSE pc[u]]
  BY DEF Notify
<1>2. /\ Size' = Size /\ \A u \in Threads : Ready(u)' <=> Ready(u)
  BY IndicesSame DEF Notify, ringVars
<1>3. /\ pc[t] = "notify" /\ MayNotify(t) /\ UNCHANGED <<ringVars, cvMutex>>
      /\ sideMutex' = [sideMutex EXCEPT ![Side(t)] = None]
      /\ item' = [item EXCEPT ![t] = None]
  BY DEF Notify
<1>4. \A u \in waiting : pc[u] = "sleep" /\ u \in Threads /\ u # t
  BY <1>3 DEF TypeOK, QueueInv, OnePerSide
<1>5. \A u \in Threads : Side(u) \in Sides /\ u # None
  BY TwoSides
<1>6. OnePerSide'
  <2>1. \A u \in Threads : pc'[u] \in Inside => u # t /\ pc[u] \in Inside
    BY <1>1, <1>4 DEF Inside
  <2>2. \A u \in Threads : pc'[u] \in Inside => sideMutex'[Side(u)] = u
    BY <1>3, <1>5, <2>1 DEF QueueInv, OnePerSide, TypeOK, Inside
  <2>3. \A u \in asleep' : pc'[u] = "sleep"
    BY <1>1, <1>3 DEF QueueInv, OnePerSide, TypeOK
  <2>4. \A u \in Threads :
            pc'[u] = "check" \/ (pc'[u] = "sleep" /\ u \notin asleep') => cvMutex'[Side(u)] = u
    BY <1>1, <1>3 DEF QueueInv, OnePerSide
  <2>5. QED
    BY <2>2, <2>3, <2>4 DEF OnePerSide
<1>7. StaysReady'
  BY <1>1, <1>2 DEF QueueInv, StaysReady
<1>8. ValueAtHand'
  BY <1>1, <1>3, <1>4 DEF QueueInv, ValueAtHand, Threads, ringVars, TypeOK
<1>9. NotifyComes'
  <2>1. ASSUME NEW u \in Threads, pc'[u] = "sleep", Ready(u)'
        PROVE  \E v \in Threads : Side(v) = Other(u) /\ pc'[v] = "notify"
    <3>1. u # t /\ u \notin ts /\ pc[u] = "sleep" /\ Ready(u)
      BY <1>1, <1>2, <2>1
    <3>2. Side(u) = Other(t)
      BY <1>3, <3>1, Alone, TwoSides DEF QueueInv, Inside
    <3>3. u \in asleep
      BY <1>3, <1>5, <3>1, <3>2 DEF QueueInv, OnePerSide, MayNotify
    <3>4. u \in waiting /\ ts # {}
      BY <1>1, <3>2, <3>3, FS_EmptySet
    <3>5. PICK v \in ts : TRUE
      BY <3>4
    <3>6. v = u
      BY <1>4, <3>1, <3>2, <3>5, Alone DEF QueueInv, Inside
    <3>7. QED
      BY <3>1, <3>5, <3>6
  <2>2. QED
    BY <2>1 DEF NotifyComes
<1>10. QED
  BY <1>6, <1>7, <1>8, <1>9 DEF QueueInv

\* Sleepers that are woken check again.
LEMMA WakeStep ==
    ASSUME TypeOK, QueueInv, NEW ts \in SUBSET asleep, WakeUp(ts),
           UNCHANGED <<item, ringVars, sideMutex, cvMutex>>
    PROVE  QueueInv'
<1>1. /\ Size' = Size /\ \A u \in Threads : Ready(u)' <=> Ready(u)
  BY IndicesSame DEF ringVars
<1>2. /\ asleep' = asleep \ ts /\ pc' = [u \in Threads |-> IF u \in ts THEN "lock" ELSE pc[u]]
      /\ \A u \in ts : u \in Threads /\ pc[u] = "sleep"
  BY DEF WakeUp, TypeOK, QueueInv, OnePerSide
<1>3. OnePerSide'
  BY <1>2 DEF QueueInv, OnePerSide, TypeOK, Inside
<1>4. StaysReady' /\ ValueAtHand'
  BY <1>1, <1>2 DEF QueueInv, StaysReady, ValueAtHand, ringVars, Threads
<1>5. NotifyComes'
  BY <1>1, <1>2 DEF QueueInv, NotifyComes
<1>6. QED
  BY <1>3, <1>4, <1>5 DEF QueueInv

LEMMA QueueInvStep ==
    ASSUME CapacityAssumption, SidesAssumption, TypeOK, QueueInv, [Next]_vars
    PROVE  QueueInv'
<1>1. ASSUME NEW t \in Threads, SpuriousWakeUp(t)
      PROVE  QueueInv'
  BY <1>1, WakeStep DEF SpuriousWakeUp
<1>2. CASE RequestStop
  <2>1. {t \in asleep : mode[t] = "stoppable"} \in SUBSET asleep
    OBVIOUS
  <2>2. QED
    BY <1>2, <2>1, WakeStep DEF RequestStop, StopCallback
<1>3. CASE UNCHANGED vars
  BY <1>3
     DEF vars, callVars, ringVars, QueueInv, OnePerSide, StaysReady, ValueAtHand, NotifyComes,
         Ready, Size
<1>4. QED
  BY <1>1, <1>2, <1>3, QuietSteps, MoveStep, AdvanceStep, NotifyStep DEF Next, Step
-----------------------------------------------------------------------------
(***************************************************************************)
(* The refinement of Fifo.                                                 *)
(***************************************************************************)

Item == Values \cup {None}

\* A function over 1 .. n is a sequence of that length.
LEMMA SequenceOf ==
    ASSUME NEW S, NEW n \in Nat, NEW q \in [1 .. n -> S]
    PROVE  q \in Seq(S) /\ Len(q) = n
<1>1. q \in Seq(S)
  BY SeqDef
<1>2. Len(q) \in Nat /\ DOMAIN q = 1 .. Len(q)
  BY <1>1, LenProperties
<1>3. 1 .. Len(q) = 1 .. n
  BY <1>2
<1>4. QED
  BY <1>1, <1>2, <1>3

\* What is in the queue, place by place: the slots from the read index on, the first one
\* in the hands of a consumer that has emptied it.
Places ==
    /\ Queued \in Seq(Item) /\ Len(Queued) = Size
    /\ Taken = {} =>
         \A i \in 1 .. Size : Queued[i] = data[(readIndex + i - 1) % Capacity]
    /\ \A t \in Threads : Taken = {t} =>
         /\ Size # 0 /\ Queued[1] = item[t]
         /\ \A i \in 2 .. Size : Queued[i] = data[(readIndex + i - 1) % Capacity]

LEMMA QueuedIs ==
    ASSUME CapacityAssumption, SidesAssumption, TypeOK, QueueInv
    PROVE  Places
<1>1. /\ Capacity \in Nat \ {0} /\ readIndex \in Int /\ Size \in Nat
  BY RingSize DEF CapacityAssumption, TypeOK
<1>2. \A i \in 1 .. Size : (readIndex + i - 1) % Capacity \in 0 .. Capacity - 1
  BY <1>1, RemainderTwice
<1>3. Contents \in [1 .. Size -> Item]
  BY <1>2 DEF Contents, TypeOK, Item
<1>4. CASE Taken = {}
  <2>1. Queued = Contents
    BY <1>4 DEF Queued
  <2>2. Queued \in Seq(Item) /\ Len(Queued) = Size
    BY <1>1, <1>3, <2>1, SequenceOf
  <2>3. \A t : Taken # {t}
    BY <1>4
  <2>4. QED
    BY <2>1, <2>2, <2>3 DEF Contents, Places
<1>5. CASE Taken # {}
  <2>1. PICK t \in Threads : t \in Taken
    BY <1>5 DEF Taken, Threads
  <2> DEFINE taker == CHOOSE u \in Taken : TRUE
  <2>2. taker \in Taken /\ taker \in Threads
    BY <2>1 DEF Taken, Threads
  <2>3. item[taker] \in Item
    BY <2>2 DEF TypeOK, Item
  <2> HIDE DEF taker
  <2>4. Queued = [Contents EXCEPT ![1] = item[taker]]
    BY <1>5 DEF Queued, taker
  <2>5. Queued \in [1 .. Size -> Item]
    BY <1>3, <2>3, <2>4
  <2>6. Queued \in Seq(Item) /\ Len(Queued) = Size
    BY <1>1, <2>5, SequenceOf
  <2>7. ASSUME NEW u \in Threads, Taken = {u}
        PROVE  /\ Size # 0 /\ Queued[1] = item[u]
               /\ \A i \in 2 .. Size : Queued[i] = data[(readIndex + i - 1) % Capacity]
    <3>1. u = taker /\ pc[u] = "advance" /\ u \in Consumers
      BY <2>2, <2>7 DEF Taken
    <3>2. Size # 0
      <4>1. Ready(u)
        BY <3>1, <2>7 DEF QueueInv, StaysReady
      <4>2. QED
        BY <3>1, <4>1 DEF Ready, SidesAssumption
    <3>3. 1 \in 1 .. Size
      BY <1>1, <3>2
    <3>4. QED
      BY <1>3, <2>4, <3>1, <3>2, <3>3 DEF Contents
  <2>8. QED
    BY <1>5, <2>6, <2>7 DEF Places
<1>6. QED
  BY <1>4, <1>5

\* The same in the next state.
LEMMA QueuedIsNext ==
    ASSUME CapacityAssumption, SidesAssumption
    PROVE  TypeOK' /\ QueueInv' => Places'
<1>1. TypeOK /\ QueueInv => Places
  BY QueuedIs
<1>2. QED
  BY <1>1, PTL

\* Only a consumer that is about to advance has taken a value.
LEMMA TakenIs ==
    ASSUME SidesAssumption, TypeOK, QueueInv, NEW t \in Threads, pc[t] \in Inside
    PROVE  /\ t \in Consumers => Taken = IF pc[t] = "advance" THEN {t} ELSE {}
           /\ \A u \in Taken : u \in Threads /\ pc[u] = "advance" /\ u \notin Producers
<1>1. \A u \in Taken : u \in Threads /\ u \in Consumers /\ pc[u] = "advance"
  BY DEF Taken, Threads
<1>2. \A u \in Taken : u \notin Producers
  BY <1>1 DEF SidesAssumption
<1>3. CASE t \in Consumers
  <2>1. t \notin Producers
    BY <1>3 DEF SidesAssumption
  <2>2. \A u \in Taken : u = t
    BY <1>1, <1>2, <2>1, Alone DEF QueueInv, Inside, Side
  <2>3. t \in Taken <=> pc[t] = "advance"
    BY <1>3 DEF Taken
  <2>4. QED
    BY <1>1, <1>2, <2>2, <2>3
<1>4. QED
  BY <1>1, <1>2, <1>3

\* Steps that leave the ring alone leave the contents alone.
LEMMA QuietRefines ==
    ASSUME UNCHANGED ringVars, Taken' = Taken, \A u \in Taken : item'[u] = item[u]
    PROVE  UNCHANGED <<Queued, popped>>
<1>1. Contents' = Contents /\ popped' = popped
  BY DEF ringVars, Contents, Size
<1>2. CASE Taken = {}
  BY <1>1, <1>2 DEF Queued
<1>3. CASE Taken # {}
  <2> DEFINE taker == CHOOSE u \in Taken : TRUE
  <2>1. item'[taker] = item[taker]
    BY <1>3
  <2>2. Queued = [Contents EXCEPT ![1] = item[taker]]
    BY <1>3 DEF Queued
  <2>3. Queued' = [Contents EXCEPT ![1] = item'[taker]]
    BY <1>1, <1>3 DEF Queued
  <2>4. QED
    BY <1>1, <2>1, <2>2, <2>3
<1>4. QED
  BY <1>2, <1>3

\* A value on its way into its slot is not in the queue yet, one on its way out still is.
LEMMA MoveRefines ==
    ASSUME CapacityAssumption, SidesAssumption, TypeOK, QueueInv, TypeOK', QueueInv',
           NEW t \in Threads, Move(t)
    PROVE  UNCHANGED <<Queued, popped>>
<1>1. /\ pc[t] = "move" /\ pc' = [pc EXCEPT ![t] = "advance"]
      /\ UNCHANGED <<readIndex, writeIndex, popped>> /\ Size' = Size
      /\ \A i \in 0 .. Capacity - 1 : i # Slot(t) => data'[i] = data[i]
  BY DEF Move, Size, TypeOK
<1>2. /\ Capacity \in Nat \ {0} /\ readIndex \in Int /\ Size \in Nat /\ Size <= Capacity
  BY RingSize DEF CapacityAssumption, TypeOK, QueueInv, StaysReady
<1>3. /\ Queued \in Seq(Item) /\ Len(Queued) = Size
      /\ Queued' \in Seq(Item) /\ Len(Queued') = Size
  BY <1>1, QueuedIs, QueuedIsNext DEF Places
<1>4. ASSUME NEW i \in 1 .. Size, NEW j \in 0 .. Capacity, i - 1 < j, j < i - 1 + Capacity
      PROVE  (readIndex + i - 1) % Capacity # (readIndex + j) % Capacity
  <2> DEFINE a == readIndex + i - 1
             c == readIndex + j
  <2>1. a \in Int /\ c \in Int /\ a < c /\ c < a + Capacity
    BY <1>2, <1>4
  <2> HIDE DEF a, c
  <2>2. a % Capacity # c % Capacity
    BY <1>2, <2>1, RemainderDiffers
  <2>3. QED
    BY <2>2 DEF a, c
<1>5. ASSUME NEW i \in 1 .. Size
      PROVE  (readIndex + i - 1) % Capacity \in 0 .. Capacity - 1
  BY <1>2, RemainderTwice
<1>6. \A i \in 1 .. Size : Queued'[i] = Queued[i]
  <2>1. CASE t \in Producers
    <3>1. Size < Capacity /\ Slot(t) = (readIndex + Size) % Capacity
      BY <1>1, <2>1, WriteSlot DEF QueueInv, StaysReady, Ready, Slot
    <3>2. ASSUME NEW i \in 1 .. Size
          PROVE  data'[(readIndex + i - 1) % Capacity] = data[(readIndex + i - 1) % Capacity]
      <4>1. Size \in 0 .. Capacity /\ i - 1 < Size /\ Size < i - 1 + Capacity
        BY <1>2, <3>1
      <4>2. (readIndex + i - 1) % Capacity # Slot(t)
        BY <1>4, <3>1, <4>1
      <4>3. QED
        BY <1>1, <1>5, <4>2
    <3>3. t \notin Consumers
      BY <2>1 DEF SidesAssumption
    <3>4. Taken' = Taken
      BY <1>1, <3>3 DEF Taken, TypeOK
    <3>5. \A u \in Taken : u # t /\ item'[u] = item[u]
      BY <3>3 DEF Taken, Move, TypeOK, Threads
    <3>6. CASE Taken = {}
      BY <1>1, <3>2, <3>4, <3>6, QueuedIs, QueuedIsNext DEF Places
    <3>7. CASE Taken # {}
      <4>1. PICK u \in Threads : u \in Taken
        BY <3>7 DEF Taken, Threads
      <4>2. u \in Consumers /\ pc[u] = "advance"
        BY <4>1 DEF Taken
      <4>3. Taken = {u}
        BY <4>2, TakenIs DEF Inside
      <4>4. /\ Queued[1] = item[u]
            /\ \A i \in 2 .. Size : Queued[i] = data[(readIndex + i - 1) % Capacity]
        BY <4>3, QueuedIs DEF Places
      <4>5. /\ Queued'[1] = item'[u]
            /\ \A i \in 2 .. Size : Queued'[i] = data'[(readIndex + i - 1) % Capacity]
        BY <1>1, <3>4, <4>3, QueuedIsNext DEF Places
      <4>6. \A i \in 1 .. Size : i = 1 \/ i \in 2 .. Size
        BY <1>2
      <4>7. QED
        BY <3>2, <3>5, <4>1, <4>4, <4>5, <4>6
    <3>8. QED
      BY <3>6, <3>7
  <2>2. CASE t \notin Producers
    <3>1. t \in Consumers /\ Slot(t) = readIndex % Capacity
      BY <2>2 DEF Slot, Threads
    <3>2. Taken = {}
      BY <1>1, <3>1, TakenIs DEF Inside
    <3>3. Taken' = {t}
      BY <1>1, <3>1, <3>2 DEF Taken, TypeOK
    <3>4. /\ Size # 0 /\ Queued'[1] = item'[t]
          /\ \A i \in 2 .. Size : Queued'[i] = data'[(readIndex + i - 1) % Capacity]
      BY <1>1, <3>3, QueuedIsNext DEF Places
    <3>5. item'[t] = data[readIndex % Capacity]
      BY <2>2, <3>1 DEF Move, TypeOK
    <3>6. \A i \in 1 .. Size : Queued[i] = data[(readIndex + i - 1) % Capacity]
      BY <3>2, QueuedIs DEF Places
    <3>7. Queued'[1] = Queued[1]
      <4>1. 1 \in 1 .. Size /\ readIndex + 1 - 1 = readIndex
        BY <1>2, <3>4
      <4>2. QED
        BY <3>4, <3>5, <3>6, <4>1
    <3>8. ASSUME NEW i \in 2 .. Size
          PROVE  data'[(readIndex + i - 1) % Capacity] = data[(readIndex + i - 1) % Capacity]
      <4>1. i \in 1 .. Size /\ 1 \in 1 .. Size /\ i - 1 \in 0 .. Capacity /\ 1 - 1 < i - 1
            /\ i - 1 < 1 - 1 + Capacity /\ readIndex + 1 - 1 = readIndex
            /\ readIndex + (i - 1) = readIndex + i - 1
        BY <1>2
      <4>2. readIndex % Capacity # (readIndex + i - 1) % Capacity
        <5>1. (readIndex + 1 - 1) % Capacity # (readIndex + (i - 1)) % Capacity
          BY <1>4, <4>1
        <5>2. QED
          BY <4>1, <5>1
      <4>3. QED
        BY <1>1, <1>5, <3>1, <4>1, <4>2
    <3>9. \A i \in 1 .. Size : i = 1 \/ i \in 2 .. Size
      BY <1>2
    <3>10. QED
      BY <3>4, <3>6, <3>7, <3>8, <3>9
  <2>3. QED
    BY <2>1, <2>2
<1>7. Queued' = Queued
  BY <1>3, <1>6, SeqEqual
<1>8. QED
  BY <1>1, <1>7

\* Advance of a producer is Put of the value in its slot.
LEMMA AdvanceIsPut ==
    ASSUME CapacityAssumption, SidesAssumption, TypeOK, QueueInv, TypeOK', QueueInv',
           NEW t \in Producers, Advance(t)
    PROVE  F!Put(data[writeIndex % Capacity])
<1> DEFINE v == data[writeIndex % Capacity]
<1>1. /\ t \in Threads /\ t \notin Consumers /\ pc[t] = "advance"
      /\ pc' = [pc EXCEPT ![t] = "notify"]
      /\ UNCHANGED <<readIndex, data, item, popped>> /\ v \in Values
  BY DEF Advance, Threads, SidesAssumption, QueueInv, ValueAtHand
<1>2. Size < Capacity /\ Size' = Size + 1
  BY <1>1, Grows DEF Advance, QueueInv, StaysReady, Ready
<1>3. /\ Size \in Nat /\ Capacity \in Nat /\ readIndex \in Int
  BY RingSize DEF CapacityAssumption, TypeOK
<1>4. v = data[(readIndex + Size) % Capacity]
  BY WriteSlot
<1>5. Taken' = Taken
  BY <1>1 DEF Taken, TypeOK
<1> HIDE DEF v
<1>6. /\ Queued \in Seq(Item) /\ Len(Queued) = Size
      /\ Queued' \in Seq(Item) /\ Len(Queued') = Size + 1
  BY <1>2, QueuedIs, QueuedIsNext DEF Places
<1>7. /\ Append(Queued, v) \in Seq(Item) /\ Len(Append(Queued, v)) = Size + 1
      /\ \A i \in 1 .. Size : Append(Queued, v)[i] = Queued[i]
      /\ Append(Queued, v)[Size + 1] = v
  BY <1>1, <1>6, AppendProperties DEF Item
<1>8. /\ readIndex + (Size + 1) - 1 = readIndex + Size /\ Size + 1 \in 1 .. Size + 1
      /\ \A i \in 1 .. Size + 1 : (i \in 1 .. Size \/ i = Size + 1)
      /\ \A i \in 1 .. Size : i \in 1 .. Size + 1
  BY <1>3
<1>9. \A i \in 1 .. Size + 1 : Queued'[i] = Append(Queued, v)[i]
  <2>1. CASE Taken = {}
    <3>1. \A i \in 1 .. Size : Queued[i] = data[(readIndex + i - 1) % Capacity]
      BY <2>1, QueuedIs DEF Places
    <3>2. \A i \in 1 .. Size + 1 : Queued'[i] = data[(readIndex + i - 1) % Capacity]
      BY <1>1, <1>2, <1>5, <2>1, QueuedIsNext DEF Places
    <3>3. QED
      BY <1>4, <1>7, <1>8, <3>1, <3>2
  <2>2. CASE Taken # {}
    <3>1. PICK u \in Threads : u \in Taken
      BY <2>2 DEF Taken, Threads
    <3>2. u \in Consumers /\ pc[u] = "advance"
      BY <3>1 DEF Taken
    <3>3. Taken = {u}
      BY <3>2, TakenIs DEF Inside
    <3>4. /\ Size # 0 /\ Queued[1] = item[u]
          /\ \A i \in 2 .. Size : Queued[i] = data[(readIndex + i - 1) % Capacity]
      BY <3>3, QueuedIs DEF Places
    <3>5. /\ Queued'[1] = item[u]
          /\ \A i \in 2 .. Size + 1 : Queued'[i] = data[(readIndex + i - 1) % Capacity]
      BY <1>1, <1>2, <1>5, <3>3, QueuedIsNext DEF Places
    <3>6. /\ Size + 1 \in 2 .. Size + 1 /\ 1 \in 1 .. Size
          /\ \A i \in 1 .. Size : i = 1 \/ (i \in 2 .. Size /\ i \in 2 .. Size + 1)
      BY <1>3, <3>4
    <3>7. Queued'[Size + 1] = v
      BY <1>4, <1>8, <3>5, <3>6
    <3>8. \A i \in 1 .. Size : Queued'[i] = Queued[i]
      BY <3>4, <3>5, <3>6
    <3>9. QED
      BY <1>7, <1>8, <3>7, <3>8
  <2>3. QED
    BY <2>1, <2>2
<1>10. Queued' = Append(Queued, v)
  BY <1>6, <1>7, <1>9, SeqEqual
<1>11. QED
  BY <1>1, <1>2, <1>6, <1>10 DEF F!Put, v

\* Advance of a consumer is Get of the value it has.
LEMMA AdvanceIsGet ==
    ASSUME CapacityAssumption, SidesAssumption, TypeOK, QueueInv, TypeOK', QueueInv',
           NEW t \in Consumers, Advance(t)
    PROVE  F!Get
<1>1. /\ t \in Threads /\ t \notin Producers /\ pc[t] = "advance"
      /\ pc' = [pc EXCEPT ![t] = "notify"]
      /\ UNCHANGED <<writeIndex, data>> /\ popped' = item[t]
      /\ readIndex' = Increment(readIndex)
  BY DEF Advance, Threads, SidesAssumption
<1>2. Size # 0 /\ Size' = Size - 1
  BY <1>1, Shrinks DEF QueueInv, StaysReady, Ready
<1>3. Size \in Nat /\ readIndex \in 0 .. IndexSize - 1 /\ IndexSize \in Nat
  BY RingSize DEF CapacityAssumption, TypeOK
<1>4. Taken = {t}
  BY <1>1, TakenIs DEF Inside
<1>5. Taken' = {}
  BY <1>1, <1>4 DEF Taken, TypeOK
<1>6. /\ Queued \in Seq(Item) /\ Len(Queued) = Size /\ Queued[1] = item[t]
      /\ \A i \in 2 .. Size : Queued[i] = data[(readIndex + i - 1) % Capacity]
  BY <1>1, <1>4, QueuedIs DEF Places
<1>7. /\ Queued' \in Seq(Item) /\ Len(Queued') = Size - 1
      /\ \A i \in 1 .. Size - 1 : Queued'[i] = data[(readIndex' + i - 1) % Capacity]
  BY <1>1, <1>2, <1>5, QueuedIsNext DEF Places
<1>8. Queued # <<>>
  BY <1>2, <1>6
<1>9. /\ Tail(Queued) \in Seq(Item) /\ Len(Tail(Queued)) = Size - 1
      /\ \A i \in 1 .. Size - 1 : Tail(Queued)[i] = Queued[i + 1]
  BY <1>6, <1>8, HeadTailProperties
<1>10. ASSUME NEW i \in 1 .. Size - 1
       PROVE  (readIndex' + i - 1) % Capacity = (readIndex + (i + 1) - 1) % Capacity
  <2>1. readIndex' = IF readIndex = IndexSize - 1 THEN 0 ELSE readIndex + 1
    BY <1>1, <1>3, IncrementIs
  <2>2. CASE readIndex = IndexSize - 1
    <3>1. /\ readIndex' + i - 1 \in Int
          /\ (readIndex' + i - 1) + IndexSize = readIndex + (i + 1) - 1
      BY <1>3, <2>1, <2>2
    <3> DEFINE a == readIndex' + i - 1
    <3> HIDE DEF a
    <3>2. (a + IndexSize) % Capacity = a % Capacity
      BY <3>1, SlotWraps DEF a
    <3>3. QED
      BY <3>1, <3>2 DEF a
  <2>3. CASE readIndex # IndexSize - 1
    <3>1. readIndex' + i - 1 = readIndex + (i + 1) - 1
      BY <1>3, <2>1, <2>3
    <3>2. QED
      BY <3>1
  <2>4. QED
    BY <2>2, <2>3
<1>11. \A i \in 1 .. Size - 1 : i + 1 \in 2 .. Size
  BY <1>3
<1>12. \A i \in 1 .. Size - 1 : Queued'[i] = Tail(Queued)[i]
  BY <1>6, <1>7, <1>9, <1>10, <1>11
<1>13. Queued' = Tail(Queued)
  BY <1>7, <1>9, <1>12, SeqEqual
<1>14. Head(Queued) = Queued[1]
  BY <1>6, <1>8
<1>15. QED
  BY <1>1, <1>6, <1>8, <1>13, <1>14 DEF F!Get

FifoStep == [F!Next]_<<Queued, popped>>

\* Every step is a step of Fifo or leaves it alone.
LEMMA StepRefines ==
    ASSUME CapacityAssumption, SidesAssumption, TypeOK, QueueInv, TypeOK', QueueInv',
           [Next]_vars
    PROVE  FifoStep
<1>1. ASSUME NEW t \in Threads,
             \/ \E m \in {"try", "wait", "stoppable"}, v \in Values \cup {None} : Call(t, m, v)
             \/ Enter(t) \/ Try(t) \/ LockCv(t) \/ Check(t) \/ Sleep(t)
      PROVE  FifoStep
  <2>1. /\ UNCHANGED ringVars /\ pc[t] # "advance" /\ pc'[t] # "advance"
        /\ \A u \in Threads : u # t => pc'[u] = pc[u] /\ item'[u] = item[u]
    BY <1>1 DEF Call, Enter, Try, LockCv, Check, Sleep, Leave, TypeOK
  <2>2. Taken' = Taken /\ \A u \in Taken : item'[u] = item[u]
    BY <2>1 DEF Taken, Threads
  <2>3. QED
    BY <2>1, <2>2, QuietRefines DEF FifoStep
<1>2. ASSUME NEW t \in Threads, Move(t)
      PROVE  FifoStep
  BY <1>2, MoveRefines DEF FifoStep
<1>3. ASSUME NEW t \in Threads, Advance(t)
      PROVE  FifoStep
  <2>1. CASE t \in Producers
    <3>1. data[writeIndex % Capacity] \in Values
      BY <1>3, <2>1 DEF Advance, QueueInv, ValueAtHand
    <3>2. QED
      BY <1>3, <2>1, <3>1, AdvanceIsPut DEF FifoStep, F!Next
  <2>2. CASE t \in Consumers
    BY <1>3, <2>2, AdvanceIsGet DEF FifoStep, F!Next
  <2>3. QED
    BY <2>1, <2>2 DEF Threads
<1>4. ASSUME NEW t \in Threads, Notify(t)
      PROVE  FifoStep
  <2>1. PICK ts \in SUBSET asleep :
            pc' = [u \in Threads |-> IF u \in ts THEN "lock" ELSE IF u = t THEN "idle" ELSE pc[u]]
    BY <1>4 DEF Notify
  <2>2. \A u \in ts : pc[u] = "sleep"
    BY DEF QueueInv, OnePerSide
  <2>3. /\ UNCHANGED ringVars /\ pc[t] = "notify"
        /\ item' = [item EXCEPT ![t] = None]
    BY <1>4 DEF Notify
  <2>4. Taken' = Taken /\ \A u \in Taken : item'[u] = item[u]
    BY <2>1, <2>2, <2>3 DEF Taken, Threads, TypeOK
  <2>5. QED
    BY <2>3, <2>4, QuietRefines DEF FifoStep
<1>5. ASSUME NEW ts \in SUBSET asleep, WakeUp(ts), UNCHANGED <<item, ringVars>>
      PROVE  FifoStep
  <2>1. /\ pc' = [u \in Threads |-> IF u \in ts THEN "lock" ELSE pc[u]]
        /\ \A u \in ts : pc[u] = "sleep"
    BY <1>5 DEF WakeUp, QueueInv, OnePerSide
  <2>2. Taken' = Taken
    BY <2>1 DEF Taken, Threads
  <2>3. QED
    BY <1>5, <2>2, QuietRefines DEF FifoStep
<1>6. ASSUME NEW t \in Threads, SpuriousWakeUp(t)
      PROVE  FifoStep
  BY <1>5, <1>6 DEF SpuriousWakeUp
<1>7. CASE RequestStop
  <2>1. {t \in asleep : mode[t] = "stoppable"} \in SUBSET asleep
    OBVIOUS
  <2>2. QED
    BY <1>5, <1>7, <2>1 DEF RequestStop, StopCallback
<1>8. CASE UNCHANGED vars
  BY <1>8, QuietRefines DEF vars, callVars, ringVars, Taken, FifoStep
<1>9. QED
  BY <1>1, <1>2, <1>3, <1>4, <1>6, <1>7, <1>8 DEF Next, Step
-----------------------------------------------------------------------------
LEMMA InitTyped == ASSUME CapacityAssumption, Init PROVE TypeOK
<1>1. 0 \in 0 .. IndexSize - 1
  BY DEF CapacityAssumption
<1>2. /\ data \in [0 .. Capacity - 1 -> Values \cup {None}] /\ popped \in Values \cup {None}
      /\ item \in [Threads -> Values \cup {None}]
  BY DEF Init
<1>3. /\ sideMutex \in [Sides -> Threads \cup {None}]
      /\ cvMutex \in [Sides -> Threads \cup {None}]
  BY DEF Init
<1>4. /\ pc \in [Threads -> {"idle", "enter", "try", "lock", "check", "sleep", "move", "advance",
                             "notify"}]
      /\ mode \in [Threads -> {"try", "wait", "stoppable"}]
  BY DEF Init
<1>5. QED
  BY <1>1, <1>2, <1>3, <1>4 DEF Init, TypeOK

\* At any time one producer and one consumer are past their mutexes, what they have found
\* to be there stays, and the ring holds what it should.
THEOREM QueueInvariant ==
    ASSUME CapacityAssumption, SidesAssumption
    PROVE  Spec => [](TypeOK /\ QueueInv)
<1>1. Init => TypeOK /\ QueueInv
  <2> SUFFICES ASSUME Init PROVE TypeOK /\ QueueInv
    OBVIOUS
  <2>1. /\ Capacity \in Nat \ {0} /\ IndexSize \in Nat /\ IndexSize > Capacity
    BY DEF CapacityAssumption
  <2>2. TypeOK
    BY InitTyped
  <2>3. Size = 0
    BY <2>1, <2>2, RingSize DEF Init
  <2>4. QED
    BY <2>1, <2>2, <2>3
       DEF Init, QueueInv, OnePerSide, StaysReady, ValueAtHand, NotifyComes, Inside, Threads
<1>2. TypeOK /\ QueueInv /\ [Next]_vars => (TypeOK /\ QueueInv)'
  BY TypeStep, QueueInvStep DEF QueueInv
<1>3. QED
  BY <1>1, <1>2, PTL DEF Spec

\* The bounded queue is a bounded FIFO, whatever the number of threads on either side and
\* wherever the indices wrap.
THEOREM ImplementsFifo ==
    ASSUME CapacityAssumption, SidesAssumption
    PROVE  Spec => F!Spec
<1>1. Init => F!Init
  <2> SUFFICES ASSUME Init PROVE F!Init
    OBVIOUS
  <2>1. TypeOK /\ Capacity \in Nat \ {0} /\ IndexSize \in Nat /\ IndexSize > Capacity
    BY InitTyped DEF CapacityAssumption
  <2>2. Size = 0
    BY <2>1, RingSize DEF Init
  <2>3. Taken = {}
    BY DEF Init, Taken, Threads
  <2>4. Contents \in [1 .. 0 -> Item]
    BY <2>2 DEF Contents
  <2>5. Queued \in Seq(Item) /\ Len(Queued) = 0
    BY <2>3, <2>4, SequenceOf DEF Queued
  <2>6. Queued = <<>>
    BY <2>5, EmptySeq
  <2>7. QED
    BY <2>6 DEF F!Init, Init, SidesAssumption
<1>2. TypeOK /\ QueueInv /\ TypeOK' /\ QueueInv' /\ [Next]_vars
          => [F!Next]_<<Queued, popped>>
  BY StepRefines DEF FifoStep
<1>3. QED
  BY <1>1, <1>2, QueueInvariant, PTL DEF Spec, F!Spec

\* No consumer sleeps beside data, no producer beside room, although the index is advanced
\* without a lock.
THEOREM NoWakeUpLost ==
    ASSUME CapacityAssumption, SidesAssumption
    PROVE  Spec => []NoLostWakeUp
<1>1. TypeOK /\ QueueInv => NoLostWakeUp
  BY DEF TypeOK, QueueInv, OnePerSide, NotifyComes, NoLostWakeUp
<1>2. QED
  BY <1>1, QueueInvariant, PTL

\* What the runs check of the bounded queue, for every capacity, width of index and number
\* of threads.
THEOREM QueueIsSound ==
    ASSUME CapacityAssumption, SidesAssumption
    PROVE  Spec => QueueSound
  BY ImplementsFifo, QueueInvariant, NoWakeUpLost, PTL DEF QueueSound
=============================================================================
