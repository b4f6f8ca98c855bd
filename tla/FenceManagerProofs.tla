------------------------- MODULE FenceManagerProofs -------------------------
(***************************************************************************)
(* Proofs about the emulated GPU and its driver: the operations of a fence *)
(* run after the work they wait for and the host's syncpoint does not pass *)
(* the guest's, with and without a release thread, for any number of       *)
(* fences; and the events of NvHostCtrl agree with the actions of the      *)
(* syncpoint for any number of events and of threads that increment it;    *)
(* and the calls to the GPU thread, whose requests, ticks, wake-ups and    *)
(* counters of compositions are in order for any number of clients.        *)
(***************************************************************************)
EXTENDS MCGpu, SequencesExt, FiniteSetTheorems, SequenceTheorems, WellFoundedInduction, TLAPS

\* The number of fences that have left the queue.
Base == made - Len(fences)

\* The release thread is the only one, or there is none, and a call under way has room for
\* its fence and knows its operation.
CallInv ==
    /\ AsyncCheck => pc \notin {"try", "force"}
    /\ ~AsyncCheck => rpc = "check"
    /\ pc \in {"try", "signal"} => made < MaxFences /\ func \in Operations

\* Fences leave the queue one at a time, and only the one that has just left it has operations
\* elsewhere.
ReleaseInv ==
    /\ rpc \in {"wait", "run"} => current = Base /\ released = Base - 1
    /\ rpc \notin {"wait", "run"} => released = Base /\ operations = <<>>

\* The release thread holds guard from its look at the queue until it sleeps.
GuardInv == rpc = "drowsy" => fences = <<>>

HasIncrement(ops) == \E k \in 1 .. Len(ops) : ops[k] = "IncrementHost"

Single(ops) ==
    \A k, l \in 1 .. Len(ops) : ops[k] = "IncrementHost" /\ ops[l] = "IncrementHost" => k = l

\* The fences in the queue, in the order they were made, each with one increment at most.
QueueInv ==
    /\ made \in 0 .. MaxFences /\ fences \in Seq(1 .. made)
    /\ pending \in Seq(Seq(Operations)) /\ Len(pending) = Len(fences)
    /\ \A i \in 1 .. Len(fences) : fences[i] = Base + i
    /\ \A i \in 1 .. Len(pending) : Single(pending[i])

\* Those that will increment the host's value.
Owed == {f \in Base + 1 .. made : HasIncrement(pending[f - Base])}

Bit(b) == IF b THEN 1 ELSE 0

\* Each increment of the guest's value was done to the host's, or is on its way there: with
\* the GPU thread, a fence of the queue, or the release thread.
CountInv ==
    /\ ~HasIncrement(uncommitted) /\ Single(operations)
    /\ guest = host + Cardinality(Owed) + Bit(HasIncrement(operations))
                    + Bit(pc \in {"try", "signal"} /\ func = "IncrementHost")

FenceInv ==
    /\ TypeOK /\ QueueInv /\ CallInv /\ ReleaseInv /\ GuardInv /\ CountInv
    /\ RunsAfterGpu /\ NoLostWakeUp
-----------------------------------------------------------------------------
(***************************************************************************)
(* The operations of a fence.                                              *)
(***************************************************************************)

\* A fence has at most one increment, so running it at once counts that.
LEMMA SingleIncrement ==
    ASSUME NEW ops \in Seq(Operations), Single(ops)
    PROVE  Increments(ops) = Bit(HasIncrement(ops))
<1> DEFINE K == {i \in 1 .. Len(ops) : ops[i] = "IncrementHost"}
<1>1. Increments(ops) = Cardinality(K)
  BY LenProperties DEF Increments
<1>2. CASE HasIncrement(ops)
  <2>1. PICK k \in 1 .. Len(ops) : ops[k] = "IncrementHost"
    BY <1>2 DEF HasIncrement
  <2>2. K = {k}
    BY <2>1 DEF Single
  <2>3. QED
    BY <1>1, <1>2, <2>2, FS_Singleton DEF Bit
<1>3. CASE ~HasIncrement(ops)
  <2>1. K = {}
    BY <1>3 DEF HasIncrement
  <2>2. QED
    BY <1>1, <1>3, <2>1, FS_EmptySet DEF Bit
<1>4. QED
  BY <1>2, <1>3

\* The release thread runs the first operation.
LEMMA OneLess ==
    ASSUME NEW ops \in Seq(Operations), ops # <<>>, Single(ops)
    PROVE  /\ Head(ops) \in Operations /\ Tail(ops) \in Seq(Operations) /\ Single(Tail(ops))
           /\ Bit(HasIncrement(ops)) = Bit(Head(ops) = "IncrementHost") + Bit(HasIncrement(Tail(ops)))
<1>1. /\ Len(ops) \in Nat \ {0} /\ Head(ops) = ops[1] /\ Tail(ops) \in Seq(Operations)
      /\ Len(Tail(ops)) = Len(ops) - 1 /\ \A i \in 1 .. Len(Tail(ops)) : Tail(ops)[i] = ops[i + 1]
      /\ Head(ops) \in Operations
  BY HeadTailProperties, LenProperties, EmptySeq, ElementOfSeq
<1> DEFINE t == Tail(ops)
<1>2. t \in Seq(Operations) /\ Len(t) = Len(ops) - 1 /\ \A i \in 1 .. Len(t) : t[i] = ops[i + 1]
  BY <1>1
<1> HIDE DEF t
<1>3. Single(t)
  <2>1. ASSUME NEW k \in 1 .. Len(t), NEW l \in 1 .. Len(t),
               t[k] = "IncrementHost", t[l] = "IncrementHost"
        PROVE  k = l
    <3>1. k + 1 \in 1 .. Len(ops) /\ l + 1 \in 1 .. Len(ops)
          /\ ops[k + 1] = "IncrementHost" /\ ops[l + 1] = "IncrementHost"
      BY <1>1, <1>2, <2>1
    <3>2. k + 1 = l + 1
      BY <3>1 DEF Single
    <3>3. QED
      BY <1>1, <1>2, <3>2
  <2>2. QED
    BY <2>1 DEF Single
<1>4. HasIncrement(t) <=> \E i \in 2 .. Len(ops) : ops[i] = "IncrementHost"
  <2>1. ASSUME NEW i \in 2 .. Len(ops), ops[i] = "IncrementHost" PROVE HasIncrement(t)
    <3>1. i - 1 \in 1 .. Len(t) /\ t[i - 1] = ops[i]
      BY <1>1, <1>2
    <3>2. QED
      BY <2>1, <3>1 DEF HasIncrement
  <2>2. ASSUME NEW i \in 1 .. Len(t), t[i] = "IncrementHost"
        PROVE  \E j \in 2 .. Len(ops) : ops[j] = "IncrementHost"
    <3>1. i + 1 \in 2 .. Len(ops) /\ ops[i + 1] = "IncrementHost"
      BY <1>1, <1>2, <2>2
    <3>2. QED
      BY <3>1
  <2>3. QED
    BY <2>1, <2>2 DEF HasIncrement
<1>5. HasIncrement(ops) <=> ops[1] = "IncrementHost" \/ HasIncrement(t)
  <2>1. \A i : i \in 1 .. Len(ops) <=> i = 1 \/ i \in 2 .. Len(ops)
    BY <1>1
  <2>2. QED
    BY <1>4, <2>1 DEF HasIncrement
<1>6. ~(ops[1] = "IncrementHost" /\ HasIncrement(t))
  <2> SUFFICES ASSUME ops[1] = "IncrementHost", NEW i \in 2 .. Len(ops), ops[i] = "IncrementHost"
               PROVE  FALSE
    BY <1>4
  <2>1. 1 \in 1 .. Len(ops) /\ i \in 1 .. Len(ops) /\ i # 1
    BY <1>1
  <2>2. QED
    BY <2>1 DEF Single
<1>7. QED
  BY <1>1, <1>3, <1>5, <1>6 DEF Bit, t

\* SignalFence puts the operation of the fence behind the others.
LEMMA OneMore ==
    ASSUME NEW ops \in Seq(Operations), ~HasIncrement(ops), NEW o \in Operations
    PROVE  /\ Append(ops, o) \in Seq(Operations) /\ Single(Append(ops, o)) /\ Single(ops)
           /\ HasIncrement(Append(ops, o)) <=> o = "IncrementHost"
<1> DEFINE a == Append(ops, o)
<1>1. /\ Len(ops) \in Nat /\ a \in Seq(Operations) /\ Len(a) = Len(ops) + 1
      /\ \A i \in 1 .. Len(ops) : a[i] = ops[i]
      /\ a[Len(ops) + 1] = o
  BY AppendProperties, LenProperties
<1> HIDE DEF a
<1>2. \A i \in 1 .. Len(a) : i = Len(ops) + 1 \/ (i \in 1 .. Len(ops) /\ a[i] # "IncrementHost")
  <2>1. \A i \in 1 .. Len(ops) : ops[i] # "IncrementHost"
    BY DEF HasIncrement
  <2>2. QED
    BY <1>1, <2>1
<1>3. Len(ops) + 1 \in 1 .. Len(a)
  BY <1>1
<1>4. HasIncrement(a) <=> o = "IncrementHost"
  BY <1>1, <1>2, <1>3 DEF HasIncrement
<1>5. Single(a) /\ Single(ops)
  BY <1>2 DEF Single, HasIncrement
<1>6. QED
  BY <1>1, <1>4, <1>5 DEF a
-----------------------------------------------------------------------------
(***************************************************************************)
(* The queue.                                                              *)
(***************************************************************************)

\* The fences that owe an increment can be counted.
LEMMA QueueFacts ==
    ASSUME QueueInv
    PROVE  /\ Len(fences) \in Nat /\ made \in Nat /\ Base \in Int
           /\ IsFiniteSet(Owed) /\ Cardinality(Owed) \in Nat
<1>1. /\ Len(fences) \in Nat /\ made \in Nat /\ Base \in Int
  BY LenProperties DEF QueueInv, Base
<1>2. Owed \subseteq Base + 1 .. made /\ IsFiniteSet(Base + 1 .. made)
  BY <1>1, FS_Interval DEF Owed
<1>3. IsFiniteSet(Owed)
  BY <1>2, FS_Subset
<1>4. QED
  BY <1>1, <1>3, FS_CardinalityType

\* The oldest fence leaves the queue.
LEMMA Popped ==
    ASSUME QueueInv, fences # <<>>,
           fences' = Tail(fences), pending' = Tail(pending), made' = made
    PROVE  /\ QueueInv' /\ Base' = Base + 1
           /\ Head(fences) = Base + 1 /\ Head(fences) \in 1 .. made
           /\ Head(pending) \in Seq(Operations) /\ Single(Head(pending))
           /\ Cardinality(Owed') \in Nat
           /\ Cardinality(Owed) = Cardinality(Owed') + Bit(HasIncrement(Head(pending)))
<1>1. /\ Len(fences) \in Nat \ {0} /\ Head(fences) = fences[1] /\ fences' \in Seq(1 .. made)
      /\ Len(fences') = Len(fences) - 1
      /\ \A i \in 1 .. Len(fences') : fences'[i] = fences[i + 1]
      /\ Head(fences) \in 1 .. made
  BY HeadTailProperties, LenProperties, EmptySeq, ElementOfSeq DEF QueueInv
<1>2. pending # <<>>
  BY <1>1, EmptySeq DEF QueueInv
<1>3. /\ Head(pending) = pending[1] /\ pending' \in Seq(Seq(Operations))
      /\ Len(pending') = Len(pending) - 1
      /\ \A i \in 1 .. Len(pending') : pending'[i] = pending[i + 1]
      /\ Head(pending) \in Seq(Operations)
  BY <1>1, <1>2, HeadTailProperties, LenProperties, EmptySeq, ElementOfSeq DEF QueueInv
<1>4. made \in Nat /\ Len(pending) = Len(fences) /\ Base \in Int /\ Base = made - Len(fences)
  BY <1>1 DEF QueueInv, Base
<1>5. Base' = Base + 1
  BY <1>1, <1>4 DEF Base
<1>6. \A i \in 1 .. Len(fences') : fences'[i] = Base' + i
  <2>1. ASSUME NEW i \in 1 .. Len(fences') PROVE fences'[i] = Base' + i
    <3>1. i + 1 \in 1 .. Len(fences)
      BY <1>1
    <3>2. fences[i + 1] = Base + (i + 1)
      BY <3>1 DEF QueueInv
    <3>3. QED
      BY <1>1, <1>4, <1>5, <3>2
  <2>2. QED
    BY <2>1
<1>7. \A i \in 1 .. Len(pending') : Single(pending'[i])
  <2>1. ASSUME NEW i \in 1 .. Len(pending') PROVE Single(pending'[i])
    <3>1. i + 1 \in 1 .. Len(pending) /\ pending'[i] = pending[i + 1]
      BY <1>1, <1>3, <1>4
    <3>2. QED
      BY <3>1 DEF QueueInv
  <2>2. QED
    BY <2>1
<1>8. QueueInv'
  BY <1>1, <1>3, <1>4, <1>6, <1>7 DEF QueueInv
<1>9. Head(fences) = Base + 1 /\ Single(Head(pending))
  <2>1. 1 \in 1 .. Len(fences) /\ 1 \in 1 .. Len(pending)
    BY <1>1, <1>4
  <2>2. QED
    BY <1>1, <1>3, <2>1 DEF QueueInv
<1>10. Owed' = Owed \ {Base + 1}
  <2>1. ASSUME NEW f \in Base + 2 .. made
        PROVE  pending'[f - Base'] = pending[f - Base]
    <3>1. f - Base' \in 1 .. Len(pending') /\ (f - Base') + 1 = f - Base
      BY <1>1, <1>3, <1>4, <1>5
    <3>2. QED
      BY <1>3, <3>1
  <2>2. Owed' = {f \in Base + 2 .. made : HasIncrement(pending'[f - Base'])}
    BY <1>4, <1>5 DEF Owed
  <2>3. Owed' = {f \in Base + 2 .. made : HasIncrement(pending[f - Base])}
    BY <2>1, <2>2
  <2>4. \A f : f \in Base + 2 .. made <=> f \in Base + 1 .. made /\ f # Base + 1
    BY <1>4
  <2>5. QED
    BY <2>3, <2>4 DEF Owed
<1>11. Base + 1 \in Owed <=> HasIncrement(Head(pending))
  <2>1. Base + 1 \in Base + 1 .. made /\ (Base + 1) - Base = 1
    BY <1>1, <1>4
  <2>2. QED
    BY <1>3, <2>1 DEF Owed
<1>12. IsFiniteSet(Owed) /\ Cardinality(Owed) \in Nat /\ Cardinality(Owed') \in Nat
  <2>1. IsFiniteSet(Owed) /\ Cardinality(Owed) \in Nat
    BY QueueFacts
  <2>2. IsFiniteSet(Owed')
    BY <1>10, <2>1, FS_Subset
  <2>3. QED
    BY <2>1, <2>2, FS_CardinalityType
<1>13. CASE HasIncrement(Head(pending))
  <2>1. Cardinality(Owed \ {Base + 1}) = Cardinality(Owed) - 1
    BY <1>11, <1>12, <1>13, FS_RemoveElement
  <2>2. QED
    BY <1>1, <1>3, <1>5, <1>8, <1>9, <1>10, <1>12, <1>13, <2>1 DEF Bit
<1>14. CASE ~HasIncrement(Head(pending))
  <2>1. Owed' = Owed
    BY <1>10, <1>11, <1>14
  <2>2. QED
    BY <1>1, <1>3, <1>5, <1>8, <1>9, <1>12, <1>14, <2>1 DEF Bit
<1>15. QED
  BY <1>13, <1>14

\* A sequence over a set is one over a larger set.
LEMMA WiderSeq ==
    ASSUME NEW S, NEW T, S \subseteq T, NEW seq \in Seq(S)
    PROVE  seq \in Seq(T)
<1> DEFINE n == Len(seq)
<1>1. n \in Nat /\ seq \in [1 .. n -> S]
  BY LenProperties
<1> HIDE DEF n
<1>2. seq \in [1 .. n -> T]
  BY <1>1
<1>3. QED
  BY <1>1, <1>2, SeqDef

\* A fence enters it.
LEMMA Queuing ==
    ASSUME MaxFencesAssumption, QueueInv, made < MaxFences, NEW ops \in Seq(Operations), Single(ops),
           fences' = Append(fences, made + 1), pending' = Append(pending, ops), made' = made + 1
    PROVE  /\ QueueInv' /\ Base' = Base
           /\ Cardinality(Owed') = Cardinality(Owed) + Bit(HasIncrement(ops))
<1>1. /\ made \in Nat /\ Len(fences) \in Nat /\ Len(pending) = Len(fences) /\ Base \in Int
      /\ Base = made - Len(fences)
  BY QueueFacts DEF QueueInv, Base
<1>2. fences \in Seq(1 .. made + 1)
  <2>1. fences \in Seq(1 .. made) /\ 1 .. made \subseteq 1 .. made + 1
    BY <1>1 DEF QueueInv
  <2>2. QED
    BY <2>1, WiderSeq
<1>3. /\ fences' \in Seq(1 .. made + 1) /\ Len(fences') = Len(fences) + 1
      /\ \A i \in 1 .. Len(fences) : fences'[i] = fences[i]
      /\ fences'[Len(fences) + 1] = made + 1
  <2>1. made + 1 \in 1 .. made + 1
    BY <1>1
  <2>2. QED
    BY <1>2, <2>1, AppendProperties
<1>4. /\ pending' \in Seq(Seq(Operations)) /\ Len(pending') = Len(pending) + 1
      /\ \A i \in 1 .. Len(pending) : pending'[i] = pending[i]
      /\ pending'[Len(pending) + 1] = ops
  BY AppendProperties DEF QueueInv
<1>5. Base' = Base
  BY <1>1, <1>3 DEF Base
<1>6. \A i \in 1 .. Len(fences') : i = Len(fences) + 1 \/ i \in 1 .. Len(fences)
  BY <1>1, <1>3
<1>7. \A i \in 1 .. Len(fences') : fences'[i] = Base' + i
  <2>1. ASSUME NEW i \in 1 .. Len(fences) PROVE fences'[i] = Base' + i
    BY <1>3, <1>5 DEF QueueInv
  <2>2. fences'[Len(fences) + 1] = Base' + (Len(fences) + 1)
    BY <1>1, <1>3, <1>5
  <2>3. QED
    BY <1>6, <2>1, <2>2
<1>8. \A i \in 1 .. Len(pending') : Single(pending'[i])
  BY <1>1, <1>3, <1>4, <1>6 DEF QueueInv
<1>9. made' \in 0 .. MaxFences
  BY <1>1 DEF MaxFencesAssumption
<1>10. QueueInv'
  BY <1>1, <1>3, <1>4, <1>7, <1>8, <1>9 DEF QueueInv
<1>11. ASSUME NEW f \in Base + 1 .. made PROVE pending'[f - Base] = pending[f - Base]
  <2>1. f - Base \in 1 .. Len(pending)
    BY <1>1
  <2>2. QED
    BY <1>4, <2>1
<1>12. pending'[(made + 1) - Base] = ops
  <2>1. (made + 1) - Base = Len(pending) + 1
    BY <1>1
  <2>2. QED
    BY <1>4, <2>1
<1>13. \A f : f \in Base + 1 .. made + 1 <=> f \in Base + 1 .. made \/ f = made + 1
  BY <1>1
<1>14. Owed' = {f \in Base + 1 .. made + 1 : HasIncrement(pending'[f - Base])}
  BY <1>5 DEF Owed
<1>15. IsFiniteSet(Owed) /\ Cardinality(Owed) \in Nat
  BY QueueFacts
<1>16. made + 1 \notin Owed
  BY <1>1 DEF Owed
<1>17. CASE HasIncrement(ops)
  <2>1. Owed' = Owed \cup {made + 1}
    BY <1>11, <1>12, <1>13, <1>14, <1>17 DEF Owed
  <2>2. Cardinality(Owed') = Cardinality(Owed) + 1
    BY <1>15, <1>16, <2>1, FS_AddElement
  <2>3. QED
    BY <1>5, <1>10, <1>17, <2>2 DEF Bit
<1>18. CASE ~HasIncrement(ops)
  <2>1. Owed' = Owed
    BY <1>11, <1>12, <1>13, <1>14, <1>18 DEF Owed
  <2>2. QED
    BY <1>5, <1>10, <1>15, <1>18, <2>1 DEF Bit
<1>19. QED
  BY <1>17, <1>18

\* Most steps leave it alone.
LEMMA Resting ==
    ASSUME UNCHANGED <<fences, made, pending>>
    PROVE  (QueueInv => QueueInv') /\ Base' = Base /\ Owed' = Owed
BY DEF QueueInv, Base, Owed
-----------------------------------------------------------------------------
(***************************************************************************)
(* The steps.                                                              *)
(***************************************************************************)

USE DEF queueVars, gpuVars, releaseVars, stopVars

\* Steps that move neither an operation nor a value of the syncpoint.
Quiet ==
    \/ WaitPendingFences \/ Notify \/ WaitFinished \/ HostReaches
    \/ Sleep \/ WaitFence \/ RequestStop \/ NotifyStop \/ Join

\* They leave the queue and the account alone; the fence the release thread waits for is the next
\* one (WaitFence).
LEMMA QuietKeeps ==
    ASSUME AsyncCheckAssumption, MaxFencesAssumption, FenceInv, Quiet
    PROVE  FenceInv'
<1> USE DEF Quiet, WaitPendingFences, CanCall, Notify, Wake, WaitFinished, HostReaches,
            Sleep, WaitFence, RequestStop, NotifyStop, Join
<1>1. QueueInv' /\ Base' = Base /\ Owed' = Owed
  BY Resting DEF FenceInv
<1>2. Base \in Int /\ made \in Nat /\ Len(fences) \in Nat /\ Cardinality(Owed) \in Nat
  BY QueueFacts DEF FenceInv
<1>3. TypeOK'
  <2>1. signaled' \subseteq real
    <3>1. signaled \subseteq real
      BY DEF FenceInv, TypeOK
    <3>2. signaled' = signaled \/ \E f \in real : signaled' = signaled \cup {f}
      OBVIOUS
    <3>3. QED
      BY <3>1, <3>2
  <2>2. /\ pc' \in {"idle", "try", "signal", "notify", "force", "waiting"}
        /\ func' \in Operations \cup {"none"} /\ finished' \in BOOLEAN
    BY DEF FenceInv, TypeOK, Operations
  <2>3. /\ rpc' \in {"check", "drowsy", "asleep", "wait", "run", "ended"}
        /\ stop' \in BOOLEAN /\ dpc' \in {"none", "notify", "join", "joined"}
    BY DEF FenceInv, TypeOK
  <2>4. UNCHANGED <<queueVars, guest, host, released, current, operations>>
    OBVIOUS
  <2>5. QED
    BY <2>1, <2>2, <2>3, <2>4 DEF FenceInv, TypeOK
<1>4. CallInv' /\ ReleaseInv'
  BY <1>1 DEF FenceInv, TypeOK, CallInv, ReleaseInv, AsyncCheckAssumption, Operations
<1>5. GuardInv' /\ NoLostWakeUp'
  BY DEF FenceInv, GuardInv, NoLostWakeUp
<1>6. RunsAfterGpu'
  <2>1. CASE WaitFence
    <3>1. /\ real \subseteq 1 .. made /\ current = Base /\ released = Base - 1
          /\ current \in real => current \in signaled
      BY <2>1 DEF FenceInv, TypeOK, ReleaseInv, IsReached
    <3>2. ASSUME NEW f \in real, f <= Base PROVE f \in signaled
      <4>1. f <= released \/ f = current
        BY <1>2, <3>1, <3>2
      <4>2. QED
        BY <3>1, <4>1 DEF FenceInv, RunsAfterGpu
    <3>3. QED
      BY <1>2, <2>1, <3>1, <3>2 DEF RunsAfterGpu
  <2>2. CASE HostReaches
    BY <2>2 DEF FenceInv, RunsAfterGpu, HostReaches
  <2>3. CASE ~WaitFence /\ ~HostReaches
    BY <2>3 DEF FenceInv, RunsAfterGpu
  <2>4. QED
    BY <2>1, <2>2, <2>3
<1>7. CountInv'
  BY <1>1, <1>2 DEF FenceInv, TypeOK, CountInv, Bit
<1>8. QED
  BY <1>1, <1>3, <1>4, <1>5, <1>6, <1>7 DEF FenceInv

\* One more operation waits for a fence.
LEMMA SyncOperationKeeps ==
    ASSUME FenceInv, SyncOperation
    PROVE  FenceInv'
<1>1. QueueInv' /\ Base' = Base /\ Owed' = Owed
  BY Resting DEF FenceInv, SyncOperation
<1>2. uncommitted \in Seq(Operations) /\ uncommitted' = Append(uncommitted, "SyncOperation")
      /\ "SyncOperation" \in Operations /\ ~HasIncrement(uncommitted)
  BY DEF FenceInv, TypeOK, CountInv, SyncOperation, Operations
<1>3. uncommitted' \in Seq(Operations) /\ ~HasIncrement(uncommitted')
  BY <1>2, OneMore
<1>4. TypeOK'
  BY <1>1, <1>3 DEF FenceInv, TypeOK, SyncOperation
<1>5. CallInv' /\ ReleaseInv' /\ GuardInv' /\ RunsAfterGpu' /\ NoLostWakeUp'
  BY <1>1 DEF FenceInv, CallInv, ReleaseInv, GuardInv, RunsAfterGpu, NoLostWakeUp, SyncOperation
<1>6. CountInv'
  BY <1>1, <1>3 DEF FenceInv, CountInv, SyncOperation
<1>7. QED
  BY <1>1, <1>4, <1>5, <1>6 DEF FenceInv

\* The guest's value is incremented, and the call owes the host's increment.
LEMMA SignalSyncPointKeeps ==
    ASSUME FenceInv, SignalSyncPoint
    PROVE  FenceInv'
<1>1. QueueInv' /\ Base' = Base /\ Owed' = Owed
  BY Resting DEF FenceInv, SignalSyncPoint
<1>2. Cardinality(Owed) \in Nat
  BY QueueFacts DEF FenceInv
<1>3. TypeOK'
  BY <1>1 DEF FenceInv, TypeOK, SignalSyncPoint, SignalBegins, IncrementGuest, Operations
<1>4. CallInv' /\ ReleaseInv' /\ GuardInv' /\ RunsAfterGpu' /\ NoLostWakeUp'
  BY <1>1 DEF FenceInv, CallInv, ReleaseInv, GuardInv, RunsAfterGpu, NoLostWakeUp,
              SignalSyncPoint, SignalBegins, CanCall, Operations
<1>5. CountInv'
  BY <1>1, <1>2 DEF FenceInv, TypeOK, CountInv, Bit, SignalSyncPoint, SignalBegins, CanCall,
                    IncrementGuest
<1>6. QED
  BY <1>1, <1>3, <1>4, <1>5 DEF FenceInv

\* The GPU thread releases a fence.
LEMMA TryReleaseKeeps ==
    ASSUME AsyncCheckAssumption, FenceInv, TryRelease
    PROVE  FenceInv'
<1>1. rpc = "check" /\ ~AsyncCheck /\ operations = <<>> /\ released = Base
  BY DEF FenceInv, CallInv, ReleaseInv, TryRelease, AsyncCheckAssumption
<1>2. Base \in Int /\ made \in Nat /\ Cardinality(Owed) \in Nat
  BY QueueFacts DEF FenceInv
<1>3. CASE fences # <<>> /\ IsReached(Head(fences))
  <2> DEFINE first == Head(pending)
  <2>1. /\ fences' = Tail(fences) /\ pending' = Tail(pending) /\ released' = Head(fences)
        /\ host' = host + Increments(first)
        /\ UNCHANGED <<pc, made, real, uncommitted, signaled, guest, func, finished, rpc, current,
                       operations, stopVars>>
    BY <1>3 DEF TryRelease
  <2>2. /\ QueueInv' /\ Base' = Base + 1
        /\ Head(fences) = Base + 1 /\ Head(fences) \in 1 .. made /\ Cardinality(Owed') \in Nat
        /\ first \in Seq(Operations) /\ Single(first)
        /\ Cardinality(Owed) = Cardinality(Owed') + Bit(HasIncrement(first))
    BY <1>3, <2>1, Popped DEF FenceInv
  <2>3. Increments(first) = Bit(HasIncrement(first)) /\ Increments(first) \in Nat
    BY <2>2, SingleIncrement DEF Bit
  <2> HIDE DEF first
  <2>4. TypeOK'
    <3>1. released' \in 0 .. made
      BY <1>2, <2>1, <2>2
    <3>2. host \in Nat /\ host' = host + Increments(first) /\ Increments(first) \in Nat
      BY <2>1, <2>3 DEF FenceInv, TypeOK
    <3>3. host' \in Nat
      BY <3>2
    <3>4. QED
      BY <1>1, <2>1, <2>2, <3>1, <3>3 DEF FenceInv, TypeOK, QueueInv
  <2>5. CallInv' /\ ReleaseInv' /\ GuardInv' /\ NoLostWakeUp'
    BY <1>1, <2>1, <2>2 DEF FenceInv, CallInv, ReleaseInv, GuardInv, NoLostWakeUp
  <2>6. RunsAfterGpu'
    <3>1. ASSUME NEW f \in real, f <= Base + 1 PROVE f \in signaled
      <4>1. f <= released \/ f = Head(fences)
        BY <1>1, <1>2, <2>2, <3>1 DEF FenceInv, TypeOK
      <4>2. QED
        BY <1>3, <4>1 DEF FenceInv, RunsAfterGpu, IsReached
    <3>2. QED
      BY <1>1, <2>1, <2>2, <3>1 DEF RunsAfterGpu
  <2>7. CountInv'
    <3>1. Bit(pc \in {"try", "signal"} /\ func = "IncrementHost") \in Nat
          /\ Bit(HasIncrement(operations)) \in Nat
      BY DEF Bit
    <3>2. guest = host + (Cardinality(Owed') + Increments(first)) + Bit(HasIncrement(operations))
                       + Bit(pc \in {"try", "signal"} /\ func = "IncrementHost")
      BY <2>2, <2>3 DEF FenceInv, CountInv
    <3>3. guest = host' + Cardinality(Owed') + Bit(HasIncrement(operations))
                       + Bit(pc \in {"try", "signal"} /\ func = "IncrementHost")
      <4>1. host \in Nat /\ guest \in Nat
        BY DEF FenceInv, TypeOK
      <4>2. QED
        BY <2>1, <2>2, <2>3, <3>1, <3>2, <4>1
    <3>4. QED
      BY <2>1, <3>3 DEF FenceInv, CountInv
  <2>8. QED
    BY <2>2, <2>4, <2>5, <2>6, <2>7 DEF FenceInv
<1>4. CASE ~(fences # <<>> /\ IsReached(Head(fences)))
  <2>1. /\ pc' = IF pc = "try" THEN "signal" ELSE "idle"
        /\ UNCHANGED <<released, host, fences, pending>>
        /\ UNCHANGED <<made, real, uncommitted, signaled, guest, func, finished, rpc, current,
                       operations, stopVars>>
        /\ pc \in {"try", "force"}
    BY <1>4 DEF TryRelease
  <2>2. QueueInv' /\ Base' = Base /\ Owed' = Owed
    BY <2>1, Resting DEF FenceInv
  <2>3. TypeOK'
    BY <2>1 DEF FenceInv, TypeOK
  <2>4. CallInv' /\ ReleaseInv' /\ GuardInv' /\ RunsAfterGpu' /\ NoLostWakeUp'
    BY <1>1, <2>1, <2>2 DEF FenceInv, CallInv, ReleaseInv, GuardInv, RunsAfterGpu, NoLostWakeUp
  <2>5. CountInv'
    BY <1>2, <2>1, <2>2 DEF FenceInv, CountInv, Bit
  <2>6. QED
    BY <2>2, <2>3, <2>4, <2>5 DEF FenceInv
<1>5. QED
  BY <1>3, <1>4

\* A fence is queued with the increment, or the increment is done.
LEMMA SignalFenceKeeps ==
    ASSUME MaxFencesAssumption, FenceInv, NEW flush \in BOOLEAN, NEW delay \in Levels,
           AsyncCheckAssumption, SignalFence(flush, delay)
    PROVE  FenceInv'
<1> DEFINE ops == IF delay THEN Append(uncommitted, func) ELSE uncommitted
<1>1. /\ pc = "signal" /\ rpc # "drowsy" /\ made < MaxFences /\ func \in Operations
      /\ uncommitted \in Seq(Operations) /\ ~HasIncrement(uncommitted)
      /\ delay \in BOOLEAN
  BY DEF SignalFence, GuardFree, FenceInv, CallInv, CountInv, TypeOK, AsyncCheckAssumption
<1>2. /\ ops \in Seq(Operations) /\ Single(ops)
      /\ HasIncrement(ops) <=> delay /\ func = "IncrementHost"
  BY <1>1, OneMore
<1>3. /\ made' = made + 1 /\ fences' = Append(fences, made + 1)
      /\ pending' = Append(pending, ops) /\ uncommitted' = <<>> /\ pc' = "notify"
      /\ real' = IF flush THEN real \cup {made + 1} ELSE real
      /\ UNCHANGED <<signaled, guest, func, releaseVars, stopVars>>
  BY DEF SignalFence, Queued
<1>4. /\ host' = IF ~delay /\ func = "IncrementHost" THEN host + 1 ELSE host
      /\ finished' \in BOOLEAN
  BY <1>1 DEF SignalFence, Run, FenceInv, TypeOK
<1> HIDE DEF ops
<1>5. /\ QueueInv' /\ Base' = Base
      /\ Cardinality(Owed') = Cardinality(Owed) + Bit(HasIncrement(ops))
  BY <1>1, <1>2, <1>3, Queuing DEF FenceInv
<1>6. Base \in Int /\ Base <= made /\ made \in Nat /\ Cardinality(Owed) \in Nat
  BY QueueFacts DEF FenceInv, QueueInv, Base
<1>7. TypeOK'
  <2>1. real' \subseteq 1 .. made + 1 /\ signaled \subseteq real' /\ real \subseteq real'
    BY <1>3, <1>6 DEF FenceInv, TypeOK
  <2>2. uncommitted' \in Seq(Operations)
    BY <1>3, EmptySeq
  <2>3. /\ made' \in 0 .. MaxFences /\ fences' \in Seq(1 .. made')
        /\ pending' \in Seq(Seq(Operations)) /\ Len(pending') = Len(fences')
    BY <1>5 DEF QueueInv
  <2>4. real' \subseteq 1 .. made' /\ signaled' \subseteq real'
    BY <1>3, <2>1
  <2>5. guest' \in Nat /\ host' \in Nat /\ released' \in 0 .. made' /\ current' \in 0 .. made'
    BY <1>3, <1>4, <1>6 DEF releaseVars, FenceInv, TypeOK
  <2>6. QED
    BY <1>3, <1>4, <2>2, <2>3, <2>4, <2>5 DEF releaseVars, stopVars, FenceInv, TypeOK
<1>8. CallInv' /\ ReleaseInv' /\ GuardInv' /\ NoLostWakeUp'
  BY <1>1, <1>3, <1>5 DEF FenceInv, CallInv, ReleaseInv, GuardInv, NoLostWakeUp
<1>9. RunsAfterGpu'
  <2>1. released <= made /\ (rpc = "run" => current <= made) /\ released \in Int /\ current \in Int
    BY <1>6 DEF FenceInv, ReleaseInv, TypeOK
  <2>2. ASSUME NEW f \in real', f <= released \/ (rpc = "run" /\ f <= current) PROVE f \in signaled
    <3>1. f \in real
      BY <1>3, <1>6, <2>1, <2>2
    <3>2. QED
      BY <2>2, <3>1 DEF FenceInv, RunsAfterGpu
  <2>3. QED
    BY <1>3, <2>2 DEF RunsAfterGpu
<1>10. CountInv'
  <2>1. ~HasIncrement(uncommitted')
    BY <1>3, EmptySeq DEF HasIncrement
  <2>2. guest = host + Cardinality(Owed) + Bit(HasIncrement(operations)) + Bit(func = "IncrementHost")
    BY <1>1 DEF FenceInv, CountInv, Bit
  <2>3. Bit(HasIncrement(operations)) \in Nat
    BY DEF Bit
  <2>4. guest = host' + Cardinality(Owed') + Bit(HasIncrement(operations))
    BY <1>1, <1>2, <1>4, <1>5, <1>6, <2>2, <2>3 DEF FenceInv, TypeOK, Bit
  <2>5. QED
    BY <1>3, <2>1, <2>3, <2>4, <1>4, <1>5, <1>6 DEF FenceInv, TypeOK, CountInv, Bit
<1>11. QED
  BY <1>5, <1>7, <1>8, <1>9, <1>10 DEF FenceInv

\* The release thread takes a fence with its operations.
LEMMA TakeFenceKeeps ==
    ASSUME AsyncCheckAssumption, FenceInv, TakeFence
    PROVE  FenceInv'
<1>1. rpc = "check" /\ AsyncCheck /\ operations = <<>> /\ released = Base
  BY DEF FenceInv, ReleaseInv, TakeFence
<1>2. Base \in Int /\ made \in Nat /\ Cardinality(Owed) \in Nat
  BY QueueFacts DEF FenceInv
<1>3. CASE fences # <<>> /\ ~stop
  <2>1. /\ current' = Head(fences) /\ operations' = Head(pending)
        /\ fences' = Tail(fences) /\ pending' = Tail(pending) /\ rpc' = "wait"
        /\ UNCHANGED <<made, real, uncommitted, signaled, guest, host, gpuVars, released, stopVars>>
    BY <1>3 DEF TakeFence
  <2>2. /\ QueueInv' /\ Base' = Base + 1
        /\ Head(fences) = Base + 1 /\ Head(fences) \in 1 .. made /\ Cardinality(Owed') \in Nat
        /\ operations' \in Seq(Operations) /\ Single(operations')
        /\ Cardinality(Owed) = Cardinality(Owed') + Bit(HasIncrement(operations'))
    BY <1>3, <2>1, Popped DEF FenceInv
  <2>3. TypeOK'
    BY <1>1, <2>1, <2>2 DEF FenceInv, TypeOK, QueueInv
  <2>4. CallInv' /\ ReleaseInv' /\ GuardInv' /\ RunsAfterGpu' /\ NoLostWakeUp'
    BY <1>1, <1>2, <2>1, <2>2 DEF FenceInv, CallInv, ReleaseInv, GuardInv, RunsAfterGpu, NoLostWakeUp
  <2>5. CountInv'
    <3>1. ~HasIncrement(operations)
      BY <1>1, EmptySeq DEF HasIncrement
    <3>2. guest = host + (Cardinality(Owed') + Bit(HasIncrement(operations')))
                       + Bit(pc \in {"try", "signal"} /\ func = "IncrementHost")
      BY <1>2, <2>2, <3>1 DEF FenceInv, TypeOK, CountInv, Bit
    <3>3. guest = host + Cardinality(Owed') + Bit(HasIncrement(operations'))
                       + Bit(pc \in {"try", "signal"} /\ func = "IncrementHost")
      BY <2>2, <3>2 DEF FenceInv, TypeOK, Bit
    <3>4. QED
      BY <2>1, <2>2, <3>3 DEF FenceInv, CountInv
  <2>6. QED
    BY <2>2, <2>3, <2>4, <2>5 DEF FenceInv
<1>4. CASE fences = <<>> \/ stop
  <2>1. /\ rpc' = "ended" \/ (rpc' = "drowsy" /\ fences = <<>>)
        /\ UNCHANGED <<fences, pending, current, operations>>
        /\ UNCHANGED <<made, real, uncommitted, signaled, guest, host, gpuVars, released, stopVars>>
    BY <1>4 DEF TakeFence
  <2>2. QueueInv' /\ Base' = Base /\ Owed' = Owed
    BY <2>1, Resting DEF FenceInv
  <2>3. TypeOK'
    BY <2>1 DEF FenceInv, TypeOK
  <2>4. CallInv' /\ ReleaseInv' /\ GuardInv' /\ RunsAfterGpu' /\ NoLostWakeUp'
    BY <1>1, <2>1, <2>2 DEF FenceInv, CallInv, ReleaseInv, GuardInv, RunsAfterGpu, NoLostWakeUp
  <2>5. CountInv'
    BY <2>1, <2>2 DEF FenceInv, CountInv
  <2>6. QED
    BY <2>2, <2>3, <2>4, <2>5 DEF FenceInv
<1>5. QED
  BY <1>3, <1>4

\* It runs an operation, or is through with the fence.
LEMMA RunOperationKeeps ==
    ASSUME AsyncCheckAssumption, FenceInv, RunOperation
    PROVE  FenceInv'
<1>1. rpc = "run" /\ AsyncCheck /\ current = Base /\ released = Base - 1
  BY DEF FenceInv, CallInv, ReleaseInv, RunOperation, AsyncCheckAssumption
<1>2. Base \in Int /\ made \in Nat /\ Cardinality(Owed) \in Nat
  BY QueueFacts DEF FenceInv
<1>3. QueueInv' /\ Base' = Base /\ Owed' = Owed
  BY Resting DEF FenceInv, RunOperation
<1>4. CASE operations # <<>>
  <2>1. /\ operations' = Tail(operations)
        /\ host' = host + Bit(Head(operations) = "IncrementHost") /\ finished' \in BOOLEAN
        /\ UNCHANGED <<released, current, rpc>>
        /\ UNCHANGED <<queueVars, signaled, guest, pc, func, stopVars>>
    BY <1>4 DEF RunOperation, Run, Bit, FenceInv, TypeOK
  <2>2. /\ operations' \in Seq(Operations) /\ Single(operations')
        /\ Bit(HasIncrement(operations))
             = Bit(Head(operations) = "IncrementHost") + Bit(HasIncrement(operations'))
    BY <1>4, <2>1, OneLess DEF FenceInv, TypeOK, CountInv
  <2>3. Bit(Head(operations) = "IncrementHost") \in Nat /\ Bit(HasIncrement(operations')) \in Nat
        /\ Bit(pc \in {"try", "signal"} /\ func = "IncrementHost") \in Nat
    BY DEF Bit
  <2>4. host \in Nat /\ guest \in Nat /\ host' \in Nat
    BY <2>1, <2>3 DEF FenceInv, TypeOK
  <2>5. TypeOK'
    BY <2>1, <2>2, <2>4 DEF FenceInv, TypeOK
  <2>6. CallInv' /\ ReleaseInv' /\ GuardInv' /\ RunsAfterGpu' /\ NoLostWakeUp'
    BY <1>1, <1>3, <2>1 DEF FenceInv, CallInv, ReleaseInv, GuardInv, RunsAfterGpu, NoLostWakeUp
  <2>7. CountInv'
    <3>1. guest = host + Cardinality(Owed)
                + (Bit(Head(operations) = "IncrementHost") + Bit(HasIncrement(operations')))
                + Bit(pc \in {"try", "signal"} /\ func = "IncrementHost")
      BY <2>2 DEF FenceInv, CountInv
    <3>2. guest = host' + Cardinality(Owed) + Bit(HasIncrement(operations'))
                + Bit(pc \in {"try", "signal"} /\ func = "IncrementHost")
      BY <1>2, <2>1, <2>3, <2>4, <3>1
    <3>3. QED
      BY <1>3, <2>1, <2>2, <3>2 DEF FenceInv, CountInv
  <2>8. QED
    BY <1>3, <2>5, <2>6, <2>7 DEF FenceInv
<1>5. CASE operations = <<>>
  <2>1. /\ released' = current /\ current' = 0 /\ rpc' = "check"
        /\ UNCHANGED <<host, finished, operations>>
        /\ UNCHANGED <<queueVars, signaled, guest, pc, func, stopVars>>
    BY <1>5 DEF RunOperation
  <2>2. TypeOK'
    BY <1>2, <2>1 DEF FenceInv, TypeOK
  <2>3. CallInv' /\ ReleaseInv' /\ GuardInv' /\ RunsAfterGpu' /\ NoLostWakeUp'
    BY <1>1, <1>3, <1>5, <2>1 DEF FenceInv, CallInv, ReleaseInv, GuardInv, RunsAfterGpu, NoLostWakeUp
  <2>4. CountInv'
    BY <1>3, <2>1 DEF FenceInv, CountInv
  <2>5. QED
    BY <1>3, <2>2, <2>3, <2>4 DEF FenceInv
<1>6. QED
  BY <1>4, <1>5
-----------------------------------------------------------------------------
\* It holds at first.
LEMMA InitFence ==
    ASSUME AsyncCheckAssumption, MaxFencesAssumption, Init
    PROVE  FenceInv
<1>1. fences \in Seq(1 .. made) /\ pending \in Seq(Seq(Operations)) /\ uncommitted \in Seq(Operations)
      /\ operations \in Seq(Operations) /\ Len(fences) = 0 /\ Len(pending) = 0 /\ Len(operations) = 0
      /\ Len(uncommitted) = 0
  BY EmptySeq DEF Init
<1>2. QueueInv /\ Base = 0
  <2>1. Base = 0 /\ made \in 0 .. MaxFences
    <3>1. made = 0
      BY DEF Init
    <3>2. QED
      BY <1>1, <3>1 DEF Base, MaxFencesAssumption
  <2>2. \A i : i \notin 1 .. 0
    OBVIOUS
  <2>3. QED
    BY <1>1, <2>1, <2>2 DEF QueueInv
<1>3. Owed = {}
  BY <1>2 DEF Owed, Init
<1>4. Cardinality(Owed) = 0
  BY <1>3, FS_EmptySet
<1>5. ~HasIncrement(operations) /\ ~HasIncrement(uncommitted) /\ Single(operations)
  BY <1>1 DEF HasIncrement, Single
<1>6. TypeOK
  <2>1. /\ made = 0 /\ real = {} /\ signaled = {} /\ guest = 0 /\ host = 0 /\ pc = "idle"
        /\ func = "none" /\ finished = FALSE /\ released = 0 /\ rpc = "check" /\ current = 0
        /\ stop = FALSE /\ dpc = "none"
    BY DEF Init
  <2>2. made \in 0 .. MaxFences
    BY <1>2 DEF QueueInv
  <2>3. /\ pc \in {"idle", "try", "signal", "notify", "force", "waiting"}
        /\ func \in Operations \cup {"none"} /\ finished \in BOOLEAN
        /\ rpc \in {"check", "drowsy", "asleep", "wait", "run", "ended"}
        /\ stop \in BOOLEAN /\ dpc \in {"none", "notify", "join", "joined"}
    BY <2>1
  <2>4. real \subseteq 1 .. made /\ signaled \subseteq real /\ guest \in Nat /\ host \in Nat
        /\ released \in 0 .. made /\ current \in 0 .. made
    BY <2>1
  <2>5. QED
    BY <1>1, <2>2, <2>3, <2>4 DEF TypeOK
<1>7. CallInv /\ ReleaseInv /\ GuardInv /\ RunsAfterGpu /\ NoLostWakeUp
  BY <1>2 DEF CallInv, ReleaseInv, GuardInv, RunsAfterGpu, NoLostWakeUp, Init
<1>8. CountInv
  BY <1>4, <1>5 DEF CountInv, Bit, Init
<1>9. QED
  BY <1>2, <1>6, <1>7, <1>8 DEF FenceInv

\* It is inductive.
LEMMA StepFence ==
    ASSUME AsyncCheckAssumption, MaxFencesAssumption, FenceInv, [Next]_vars
    PROVE  FenceInv'
<1>1. CASE Quiet
  BY <1>1, QuietKeeps
<1>2. CASE SyncOperation
  BY <1>2, SyncOperationKeeps
<1>3. CASE SignalSyncPoint
  BY <1>3, SignalSyncPointKeeps
<1>4. CASE TryRelease
  BY <1>4, TryReleaseKeeps
<1>5. ASSUME NEW flush \in BOOLEAN, NEW delay \in Levels, SignalFence(flush, delay)
      PROVE  FenceInv'
  BY <1>5, SignalFenceKeeps
<1>6. CASE TakeFence
  BY <1>6, TakeFenceKeeps
<1>7. CASE RunOperation
  BY <1>7, RunOperationKeeps
<1>8. CASE UNCHANGED vars
  <2>1. QueueInv' /\ Base' = Base /\ Owed' = Owed
    BY <1>8, Resting DEF FenceInv, vars
  <2>2. TypeOK'
    BY <1>8 DEF FenceInv, TypeOK, vars
  <2>3. CallInv' /\ ReleaseInv' /\ GuardInv' /\ RunsAfterGpu' /\ NoLostWakeUp' /\ CountInv'
    BY <1>8, <2>1 DEF FenceInv, CallInv, ReleaseInv, GuardInv, RunsAfterGpu, NoLostWakeUp, CountInv, vars
  <2>4. QED
    BY <2>1, <2>2, <2>3 DEF FenceInv
<1>9. QED
  BY <1>1, <1>2, <1>3, <1>4, <1>5, <1>6, <1>7, <1>8 DEF Next, GpuThread, ReleaseThread, Quiet

\* An increment is done by the host only after the guest's: what is on its way is not negative.
LEMMA HostBehind ==
    ASSUME FenceInv
    PROVE  HostNotAhead
<1>1. Cardinality(Owed) \in Nat
  BY QueueFacts DEF FenceInv
<1>2. QED
  BY <1>1 DEF FenceInv, TypeOK, CountInv, Bit, HostNotAhead

\* Whether a thread releases the fences (Vulkan) or the GPU thread itself (OpenGL), and for any
\* number of fences, the operations of a fence run after the host GPU has done the work before
\* it, the host's value of the syncpoint never passes the guest's, and the release thread does
\* not sleep with a fence in the queue (SignalFence, ReleaseThreadFunc,
\* TryReleasePendingFences).
THEOREM FencesAreSound ==
    ASSUME AsyncCheckAssumption, MaxFencesAssumption
    PROVE  Spec => []FenceInvariant
<1>1. Init => FenceInv
  BY InitFence
<1>2. FenceInv /\ [Next]_vars => FenceInv'
  BY StepFence
<1>3. FenceInv => FenceInvariant
  BY HostBehind DEF FenceInv, FenceInvariant
<1>4. QED
  BY <1>1, <1>2, <1>3, PTL DEF Spec
-----------------------------------------------------------------------------
\* Lowest gives the least member of a set of numbers.
LEMMA FirstPosition ==
    ASSUME NEW I \in SUBSET Nat, I # {}
    PROVE  Ctrl!Lowest(I) \in I /\ \A i \in I : Ctrl!Lowest(I) <= i
<1>1. \E i \in I : \A j \in I : ~(<<j, i>> \in OpToRel(<, Nat))
  BY NatLessThanWellFounded, WFMin
<1>2. PICK i \in I : \A j \in I : ~(<<j, i>> \in OpToRel(<, Nat))
  BY <1>1
<1>3. \A j \in I : i <= j
  <2> SUFFICES ASSUME NEW j \in I, j < i PROVE FALSE
    OBVIOUS
  <2>1. <<j, i>> \in Nat \X Nat /\ <<j, i>>[1] < <<j, i>>[2]
    OBVIOUS
  <2>2. <<j, i>> \in OpToRel(<, Nat)
    BY <2>1 DEF OpToRel
  <2>3. QED
    BY <1>2, <2>2
<1>4. QED
  BY <1>3 DEF Ctrl!Lowest

\* A sequence with one element more.
LEMMA Inserted ==
    ASSUME NEW T, NEW s \in Seq(T), NEW t \in T, NEW q \in 1 .. Len(s) + 1,
           NEW r, r = InsertAt(s, q, t)
    PROVE  /\ r \in Seq(T) /\ Len(r) = Len(s) + 1
           /\ \A i \in 1 .. Len(r) : r[i] = IF i < q THEN s[i] ELSE IF i = q THEN t ELSE s[i - 1]
<1>1. PICK u : u = SubSeq(s, 1, q - 1)
  OBVIOUS
<1>2. PICK v : v = SubSeq(s, q, Len(s))
  OBVIOUS
<1>3. u \in Seq(T) /\ Len(u) = q - 1 /\ \A i \in 1 .. q - 1 : u[i] = s[i]
  BY <1>1, SubSeqProperties
<1>4. v \in Seq(T) /\ Len(v) = Len(s) - q + 1 /\ \A i \in 1 .. Len(v) : v[i] = s[q + i - 1]
  BY <1>2, SubSeqProperties
<1>5. r = (u \o <<t>>) \o v
  BY <1>1, <1>2 DEF InsertAt
<1>6. PICK w : w = u \o <<t>>
  OBVIOUS
<1>7. w \in Seq(T) /\ Len(w) = q /\ \A i \in 1 .. q : w[i] = IF i < q THEN s[i] ELSE t
  BY <1>3, <1>6
<1>8. Len(s) \in Nat /\ Len(w) + Len(v) = Len(s) + 1
  BY <1>4, <1>7
<1>9. /\ r \in Seq(T) /\ Len(r) = Len(s) + 1
      /\ \A i \in 1 .. Len(r) : r[i] = IF i <= q THEN w[i] ELSE v[i - q]
  <2>1. /\ w \o v \in Seq(T) /\ Len(w \o v) = Len(w) + Len(v)
        /\ \A i \in 1 .. Len(w) + Len(v) : (w \o v)[i] = IF i <= Len(w) THEN w[i] ELSE v[i - Len(w)]
    BY <1>4, <1>7, ConcatProperties
  <2>2. r = w \o v
    BY <1>5, <1>6
  <2>3. QED
    BY <1>7, <1>8, <2>1, <2>2
<1>10. \A i \in 1 .. Len(r) : i > q => v[i - q] = s[i - 1]
  BY <1>4, <1>8, <1>9
<1>11. ASSUME NEW i \in 1 .. Len(r)
       PROVE  r[i] = IF i < q THEN s[i] ELSE IF i = q THEN t ELSE s[i - 1]
  <2>1. CASE i <= q
    <3>1. i \in 1 .. q /\ r[i] = w[i]
      BY <1>8, <1>9, <2>1
    <3>2. QED
      BY <1>7, <3>1
  <2>2. CASE i > q
    <3>1. r[i] = v[i - q] /\ v[i - q] = s[i - 1]
      BY <1>8, <1>9, <1>10, <2>2
    <3>2. QED
      BY <1>8, <1>9, <2>2, <3>1
  <2>3. QED
    BY <1>8, <1>9, <2>1, <2>2
<1>12. QED
  BY <1>9, <1>11

\* A sequence with one element less.
LEMMA Removed ==
    ASSUME NEW T, NEW s \in Seq(T), NEW q \in 1 .. Len(s), NEW r, r = RemoveAt(s, q)
    PROVE  /\ r \in Seq(T) /\ Len(r) = Len(s) - 1
           /\ \A i \in 1 .. Len(r) : r[i] = IF i < q THEN s[i] ELSE s[i + 1]
<1>1. PICK u : u = SubSeq(s, 1, q - 1)
  OBVIOUS
<1>2. PICK v : v = SubSeq(s, q + 1, Len(s))
  OBVIOUS
<1>3. u \in Seq(T) /\ Len(u) = q - 1 /\ \A i \in 1 .. q - 1 : u[i] = s[i]
  BY <1>1, SubSeqProperties
<1>4. v \in Seq(T) /\ Len(v) = Len(s) - q /\ \A i \in 1 .. Len(v) : v[i] = s[q + i]
  BY <1>2, SubSeqProperties
<1>5. r = u \o v
  BY <1>1, <1>2 DEF RemoveAt
<1>6. Len(s) \in Nat /\ Len(u) + Len(v) = Len(s) - 1
  BY <1>3, <1>4
<1>7. /\ r \in Seq(T) /\ Len(r) = Len(s) - 1
      /\ \A i \in 1 .. Len(r) : r[i] = IF i <= q - 1 THEN u[i] ELSE v[i - (q - 1)]
  <2>1. /\ u \o v \in Seq(T) /\ Len(u \o v) = Len(u) + Len(v)
        /\ \A i \in 1 .. Len(u) + Len(v) : (u \o v)[i] = IF i <= Len(u) THEN u[i] ELSE v[i - Len(u)]
    BY <1>3, <1>4, ConcatProperties
  <2>2. QED
    BY <1>3, <1>5, <1>6, <2>1
<1>8. \A i \in 1 .. Len(r) : i > q - 1 => v[i - (q - 1)] = s[i + 1]
  BY <1>4, <1>6, <1>7
<1>9. QED
  BY <1>3, <1>6, <1>7, <1>8

\* The elements of a sequence are at its positions.
LEMMA Members ==
    ASSUME NEW T, NEW s \in Seq(T)
    PROVE  \A x : x \in ToSet(s) <=> \E i \in 1 .. Len(s) : s[i] = x
BY LenProperties DEF ToSet
-----------------------------------------------------------------------------
(***************************************************************************)
(* The events of the guest driver.                                         *)
(***************************************************************************)

\* The thread runs an action.
Inside(t) == npc[t] \in {"exchange", "signal", "store"}

\* The actions are in the order of their values, each with a node of its own.
InOrder(list) ==
    /\ \A i, j \in 1 .. Len(list) : i < j => list[i].value <= list[j].value
    /\ \A i, j \in 1 .. Len(list) : list[i].node = list[j].node => i = j

\* Actions are run with guard held; the one that is run is the first.
ActionGuard ==
    /\ \A t \in Incs : Inside(t) => guard = t /\ actions # <<>>
    /\ \A t \in Incs \cup {Svc} : guard = t => Inside(t)

\* The node DeregisterHostAction is about to look for is in no action of another event.
OwnNode ==
    npc[Svc] = "dereg" =>
        /\ status[slot] # "Waiting"
        /\ \A a \in ToSet(actions) : a.node = handle[slot] => a.slot = slot

\* The only action of an event that was never overtaken is the one it waits for, the one that
\* is being run, or the one its cancellation is about to erase.
OneAction ==
    \A a \in ToSet(actions) : a.slot \notin overtaken =>
        /\ a.node = handle[a.slot]
        /\ slot = a.slot => npc[Svc] \notin {"register", "reglock", "exchange", "signal", "store",
                                             "cancelled", "clear"}
        /\ \/ status[a.slot] = "Waiting"
           \/ /\ status[a.slot] = "Signalling" /\ a = Head(actions)
              /\ \E t \in Incs : npc[t] \in {"signal", "store"}
           \/ npc[Svc] = "dereg" /\ slot = a.slot /\ status[a.slot] = "Cancelling"

\* What the ioctl in progress knows of its event.
IoctlEvent ==
    slot \notin overtaken =>
        /\ npc[Svc] \in {"register", "reglock", "exchange"} => status[slot] = "Waiting"
        /\ npc[Svc] \in {"signal", "store"} => status[slot] = "Signalling"
        /\ npc[Svc] = "store" /\ slot \in registered => slot \in kevent
        /\ npc[Svc] = "clear" => status[slot] = "Cancelled"

\* The event about to be marked Signalled was signalled, or is being cancelled.
AboutToTell ==
    \A t \in Incs :
        npc[t] = "store" /\ Head(actions).slot \in registered \ overtaken =>
            \/ Head(actions).slot \in kevent
            \/ npc[Svc] = "dereg" /\ slot = Head(actions).slot

\* An event is registered while a call is about it, and a new one is not in use.
Registration ==
    /\ \A s \in Ctrl!Slots \ (registered \cup overtaken) : status[s] = "Available"
    /\ npc[Svc] \notin {"idle", "slot", "poll", "waithost", "sleep"} => slot \in registered

DueIsRun ==
    \A a \in ToSet(actions) : a.value <= value =>
        \E t \in Incs : npc[t] # "idle" /\ newValue[t] >= a.value

Armed ==
    \A s \in Ctrl!Slots : status[s] = "Waiting" =>
        \/ npc[Svc] \in {"register", "reglock", "exchange"} /\ slot = s
        \/ \E a \in ToSet(actions) : a.slot = s /\ a.node = handle[s]

CtrlInv ==
    /\ Ctrl!TypeOK /\ InOrder(actions) /\ ActionGuard /\ OwnNode /\ OneAction /\ IoctlEvent
    /\ AboutToTell /\ Registration /\ DueIsRun /\ Armed /\ Ctrl!SignalledIsTold

-----------------------------------------------------------------------------
\* Operators of the modules NvHostCtrl extends.
LEMMA SameOperators ==
    /\ \A s : Ctrl!ToSet(s) = ToSet(s)
    /\ \A s, i, e : Ctrl!InsertAt(s, i, e) = InsertAt(s, i, e)
    /\ \A s, i : Ctrl!RemoveAt(s, i) = RemoveAt(s, i)
BY DEF Ctrl!ToSet, ToSet, Ctrl!InsertAt, InsertAt, Ctrl!RemoveAt, RemoveAt

\* The first action is removed.
LEMMA FirstRemoved ==
    ASSUME NEW T, NEW s \in Seq(T), s # <<>>, InOrder(s), \A x \in T : x.value \in Nat
    PROVE  /\ Head(s) \in T /\ Head(s) \in ToSet(s)
           /\ Tail(s) \in Seq(T) /\ InOrder(Tail(s))
           /\ ToSet(Tail(s)) = ToSet(s) \ {Head(s)}
           /\ \A x \in ToSet(s) : Head(s).value <= x.value
<1>1. /\ Len(s) \in Nat \ {0} /\ Head(s) = s[1]
      /\ Tail(s) \in Seq(T) /\ Len(Tail(s)) = Len(s) - 1
      /\ \A i \in 1 .. Len(Tail(s)) : Tail(s)[i] = s[i + 1]
  BY HeadTailProperties, EmptySeq, LenProperties
<1>2. PICK r : r = Tail(s)
  OBVIOUS
<1>3. r \in Seq(T) /\ Len(r) = Len(s) - 1 /\ \A i \in 1 .. Len(r) : i + 1 \in 1 .. Len(s) /\ r[i] = s[i + 1]
  BY <1>1, <1>2
<1>4. 1 \in 1 .. Len(s) /\ \A i \in 1 .. Len(s) : s[i] \in T
  BY <1>1, ElementOfSeq
<1>5. Head(s) \in T /\ Head(s) \in ToSet(s)
  BY <1>1, <1>4, Members
<1>6. InOrder(r)
  <2>1. ASSUME NEW i \in 1 .. Len(r), NEW j \in 1 .. Len(r), i < j PROVE r[i].value <= r[j].value
    <3>1. i + 1 \in 1 .. Len(s) /\ j + 1 \in 1 .. Len(s) /\ i + 1 < j + 1
      BY <1>3, <2>1
    <3>2. s[i + 1].value <= s[j + 1].value
      BY <3>1 DEF InOrder
    <3>3. QED
      BY <1>3, <3>2
  <2>2. ASSUME NEW i \in 1 .. Len(r), NEW j \in 1 .. Len(r), r[i].node = r[j].node PROVE i = j
    <3>1. i + 1 \in 1 .. Len(s) /\ j + 1 \in 1 .. Len(s) /\ s[i + 1].node = s[j + 1].node
      BY <1>3, <2>2
    <3>2. i + 1 = j + 1
      BY <3>1 DEF InOrder
    <3>3. QED
      BY <3>2
  <2>3. QED
    BY <2>1, <2>2 DEF InOrder
<1>7. ToSet(r) = ToSet(s) \ {Head(s)}
  <2>1. ASSUME NEW x \in ToSet(r) PROVE x \in ToSet(s) /\ x # Head(s)
    <3>1. PICK i \in 1 .. Len(r) : r[i] = x
      BY <1>3, Members
    <3>2. i + 1 \in 1 .. Len(s) /\ s[i + 1] = x /\ i + 1 # 1
      BY <1>3, <3>1
    <3>3. x \in ToSet(s)
      BY <3>2, Members
    <3>4. CASE x = Head(s)
      <4>1. s[i + 1].node = s[1].node
        BY <1>1, <3>2, <3>4
      <4>2. QED
        BY <1>4, <3>2, <4>1 DEF InOrder
    <3>5. QED
      BY <3>3, <3>4
  <2>2. ASSUME NEW x \in ToSet(s), x # Head(s) PROVE x \in ToSet(r)
    <3>1. PICK i \in 1 .. Len(s) : s[i] = x
      BY Members
    <3>2. i # 1
      BY <1>1, <2>2, <3>1
    <3>3. i - 1 \in 1 .. Len(r) /\ (i - 1) + 1 = i
      BY <1>1, <1>3, <3>2
    <3>4. r[i - 1] = x
      BY <1>3, <3>1, <3>3
    <3>5. QED
      BY <1>3, <3>3, <3>4, Members
  <2>3. QED
    BY <2>1, <2>2
<1>8. ASSUME NEW x \in ToSet(s) PROVE Head(s).value <= x.value
  <2>1. PICK i \in 1 .. Len(s) : s[i] = x
    BY Members
  <2>2. CASE i = 1
    BY <1>1, <1>4, <2>1, <2>2
  <2>3. CASE i # 1
    <3>1. 1 < i
      BY <2>3
    <3>2. QED
      BY <1>1, <1>4, <2>1, <3>1 DEF InOrder
  <2>4. QED
    BY <2>2, <2>3
<1>9. QED
  BY <1>2, <1>3, <1>5, <1>6, <1>7, <1>8

\* One action is removed.
LEMMA ErasedAt ==
    ASSUME NEW T, NEW s \in Seq(T), InOrder(s), NEW q \in 1 .. Len(s), NEW r, r = RemoveAt(s, q)
    PROVE  /\ r \in Seq(T) /\ InOrder(r)
           /\ ToSet(r) = {a \in ToSet(s) : a.node # s[q].node}
<1>1. Len(s) \in Nat
  BY LenProperties
<1>2. /\ r \in Seq(T) /\ Len(r) = Len(s) - 1
      /\ \A i \in 1 .. Len(r) : r[i] = IF i < q THEN s[i] ELSE s[i + 1]
  BY Removed
<1> DEFINE old(i) == IF i < q THEN i ELSE i + 1
<1>3. \A i \in 1 .. Len(r) : old(i) \in 1 .. Len(s) /\ old(i) # q /\ r[i] = s[old(i)]
  BY <1>1, <1>2
<1>4. \A i, j \in 1 .. Len(r) : (i < j => old(i) < old(j)) /\ (old(i) = old(j) => i = j)
  BY <1>1, <1>2
<1>5. ASSUME NEW i \in 1 .. Len(s), i # q PROVE \E j \in 1 .. Len(r) : old(j) = i
  <2>1. CASE i < q
    <3>1. i \in 1 .. Len(r) /\ old(i) = i
      BY <1>1, <1>2, <2>1
    <3>2. QED
      BY <3>1
  <2>2. CASE i > q
    <3>1. i - 1 \in 1 .. Len(r) /\ old(i - 1) = i
      BY <1>1, <1>2, <2>2
    <3>2. QED
      BY <3>1
  <2>3. QED
    BY <1>5, <2>1, <2>2
<1> HIDE DEF old
<1>6. InOrder(r)
  <2>1. ASSUME NEW i \in 1 .. Len(r), NEW j \in 1 .. Len(r)
        PROVE  /\ i < j => r[i].value <= r[j].value
               /\ r[i].node = r[j].node => i = j
    <3>1. old(i) \in 1 .. Len(s) /\ old(j) \in 1 .. Len(s) /\ r[i] = s[old(i)] /\ r[j] = s[old(j)]
      BY <1>3
    <3>2. (i < j => old(i) < old(j)) /\ (old(i) = old(j) => i = j)
      BY <1>4
    <3>3. QED
      BY <3>1, <3>2 DEF InOrder
  <2>2. QED
    BY <2>1 DEF InOrder
<1>7. ASSUME NEW x \in ToSet(r) PROVE x \in ToSet(s) /\ x.node # s[q].node
  <2>1. PICK i \in 1 .. Len(r) : r[i] = x
    BY <1>2, Members
  <2>2. x = s[old(i)] /\ old(i) \in 1 .. Len(s) /\ old(i) # q
    BY <1>3, <2>1
  <2>3. x \in ToSet(s)
    BY <2>2, Members
  <2>4. x.node # s[q].node
    BY <2>2 DEF InOrder
  <2>5. QED
    BY <2>3, <2>4
<1>8. ASSUME NEW x \in ToSet(s), x.node # s[q].node PROVE x \in ToSet(r)
  <2>1. PICK i \in 1 .. Len(s) : s[i] = x
    BY Members
  <2>2. i # q
    BY <1>8, <2>1
  <2>3. PICK j \in 1 .. Len(r) : old(j) = i
    BY <1>5, <2>2
  <2>4. r[j] = x
    BY <1>3, <2>1, <2>3
  <2>5. QED
    BY <1>2, <2>4, Members
<1>9. QED
  BY <1>2, <1>6, <1>7, <1>8

\* DeregisterAction erases the action with its node.
Without(s, n) ==
    LET found == {i \in DOMAIN s : s[i].node = n}
    IN  IF found = {} THEN s ELSE RemoveAt(s, Ctrl!Lowest(found))

LEMMA Erased ==
    ASSUME NEW T, NEW s \in Seq(T), InOrder(s), NEW n, NEW r, r = Without(s, n)
    PROVE  /\ r \in Seq(T) /\ InOrder(r)
           /\ \A a : a \in ToSet(r) <=> a \in ToSet(s) /\ a.node # n
<1> DEFINE found == {i \in 1 .. Len(s) : s[i].node = n}
<1>1. Len(s) \in Nat /\ DOMAIN s = 1 .. Len(s)
  BY LenProperties
<1>2. found \in SUBSET Nat
  BY <1>1
<1>3. CASE found = {}
  <2>1. r = s
    BY <1>1, <1>3 DEF Without
  <2>2. \A a \in ToSet(s) : a.node # n
    BY <1>3, Members
  <2>3. QED
    BY <2>1, <2>2
<1>4. CASE found # {}
  <2>1. PICK q : q = Ctrl!Lowest(found)
    OBVIOUS
  <2>2. q \in found
    BY <1>2, <1>4, <2>1, FirstPosition
  <2>3. r = RemoveAt(s, q)
    BY <1>1, <1>4, <2>1 DEF Without
  <2>4. q \in 1 .. Len(s) /\ s[q].node = n
    BY <2>2
  <2>5. QED
    BY <2>3, <2>4, ErasedAt
<1>5. QED
  BY <1>3, <1>4

\* The list has no more nodes than actions, so one of the first is free.
LEMMA NodeFree ==
    ASSUME NEW T, NEW s \in Seq(T)
    PROVE  LET free == (1 .. Len(s) + 1) \ {s[i].node : i \in DOMAIN s}
           IN  Ctrl!Lowest(free) \in free
<1> DEFINE used == {s[i].node : i \in 1 .. Len(s)}
           free == (1 .. Len(s) + 1) \ used
<1>1. Len(s) \in Nat /\ DOMAIN s = 1 .. Len(s)
  BY LenProperties
<1>2. IsFiniteSet(1 .. Len(s)) /\ Cardinality(1 .. Len(s)) = Len(s)
  BY <1>1, FS_Interval
<1>3. IsFiniteSet(1 .. Len(s) + 1) /\ Cardinality(1 .. Len(s) + 1) = Len(s) + 1
  BY <1>1, FS_Interval
<1>4. IsFiniteSet(used) /\ Cardinality(used) <= Len(s) /\ Cardinality(used) \in Nat
  <2>1. [i \in 1 .. Len(s) |-> s[i].node] \in Surjection(1 .. Len(s), used)
    BY DEF Surjection
  <2>2. IsFiniteSet(used) /\ Cardinality(used) <= Cardinality(1 .. Len(s))
    BY <1>2, <2>1, FS_Surjection
  <2>3. QED
    BY <1>2, <2>2, FS_CardinalityType
<1>5. CASE free = {}
  <2>1. 1 .. Len(s) + 1 \subseteq used
    BY <1>5
  <2>2. Cardinality(1 .. Len(s) + 1) <= Cardinality(used)
    BY <1>4, <2>1, FS_Subset
  <2>3. QED
    BY <1>1, <1>3, <1>4, <2>2
<1>6. CASE free # {}
  <2>1. free \in SUBSET Nat
    BY <1>1
  <2>2. Ctrl!Lowest(free) \in free
    BY <1>6, <2>1, FirstPosition
  <2>3. QED
    BY <1>1, <2>2
<1>7. QED
  BY <1>5, <1>6

\* RegisterAction puts its action before the first with its value or a later one.
LEMMA Registered ==
    ASSUME Ctrl!TypeOK, InOrder(actions), NEW new \in Ctrl!Actions, new.value = target,
           \A a \in ToSet(actions) : a.node # new.node,
           NEW r, r = InsertAt(actions, Ctrl!Place(target), new)
    PROVE  r \in Seq(Ctrl!Actions) /\ InOrder(r) /\ ToSet(r) = ToSet(actions) \cup {new}
<1> DEFINE later == {i \in 1 .. Len(actions) : actions[i].value >= target}
           q == Ctrl!Place(target)
<1>1. /\ actions \in Seq(Ctrl!Actions) /\ Len(actions) \in Nat /\ DOMAIN actions = 1 .. Len(actions)
      /\ \A i \in 1 .. Len(actions) : actions[i] \in Ctrl!Actions /\ actions[i].value \in Nat
      /\ target \in Nat
  <2>1. actions \in Seq(Ctrl!Actions)
    BY DEF Ctrl!TypeOK
  <2>2. \A i \in 1 .. Len(actions) : actions[i] \in Ctrl!Actions
    BY <2>1, ElementOfSeq
  <2>3. \A a \in Ctrl!Actions : a.value \in Nat
    BY DEF Ctrl!Actions
  <2>4. QED
    BY <2>1, <2>2, <2>3, LenProperties
<1>2. /\ q \in 1 .. Len(actions) + 1
      /\ \A i \in 1 .. Len(actions) : (i < q => actions[i].value <= target)
                                      /\ (i >= q => actions[i].value >= target)
  <2>1. q = IF later = {} THEN Len(actions) + 1 ELSE Ctrl!Lowest(later)
    BY <1>1 DEF Ctrl!Place
  <2>2. CASE later = {}
    BY <1>1, <2>1, <2>2
  <2>3. CASE later # {}
    <3>0. later \in SUBSET Nat /\ q = Ctrl!Lowest(later)
      BY <1>1, <2>1, <2>3
    <3>1. q \in later /\ \A i \in later : q <= i
      BY <2>3, <3>0, FirstPosition
    <3>2. ASSUME NEW i \in 1 .. Len(actions), i >= q PROVE actions[i].value >= target
      <4>1. q \in 1 .. Len(actions) /\ actions[q].value >= target /\ (i = q \/ q < i)
        BY <3>1, <3>2
      <4>2. i = q \/ actions[q].value <= actions[i].value
        BY <4>1 DEF InOrder
      <4>3. QED
        BY <1>1, <4>1, <4>2
    <3>3. QED
      BY <1>1, <3>1, <3>2
  <2>4. QED
    BY <2>2, <2>3
<1> HIDE DEF q
<1>3. /\ r \in Seq(Ctrl!Actions) /\ Len(r) = Len(actions) + 1
      /\ \A i \in 1 .. Len(r) :
            r[i] = IF i < q THEN actions[i] ELSE IF i = q THEN new ELSE actions[i - 1]
  <2>1. r = InsertAt(actions, q, new)
    BY DEF q
  <2>2. QED
    BY <1>1, <1>2, <2>1, Inserted
<1>4. \A i \in 1 .. Len(actions) : actions[i].node # new.node
  BY <1>1, Members
<1>5. InOrder(r)
  <2>1. ASSUME NEW i \in 1 .. Len(r), NEW j \in 1 .. Len(r), i < j PROVE r[i].value <= r[j].value
    <3>1. CASE j < q
      BY <1>1, <1>2, <1>3, <2>1, <3>1 DEF InOrder
    <3>2. CASE j = q
      BY <1>1, <1>2, <1>3, <2>1, <3>2
    <3>3. CASE i = q
      <4>1. r[j] = actions[j - 1] /\ j - 1 \in 1 .. Len(actions) /\ j - 1 >= q /\ r[i] = new
        BY <1>1, <1>2, <1>3, <2>1, <3>3
      <4>2. QED
        BY <1>2, <4>1
    <3>4. CASE i < q /\ j > q
      <4>1. r[j] = actions[j - 1] /\ j - 1 \in 1 .. Len(actions) /\ j - 1 >= q
        BY <1>1, <1>2, <1>3, <2>1, <3>4
      <4>2. r[i] = actions[i] /\ i \in 1 .. Len(actions)
        BY <1>1, <1>2, <1>3, <2>1, <3>4
      <4>3. actions[i].value <= target /\ target <= actions[j - 1].value
        BY <1>1, <1>2, <3>4, <4>1, <4>2
      <4>4. QED
        BY <1>1, <4>1, <4>2, <4>3
    <3>5. CASE i > q
      <4>1. r[j] = actions[j - 1] /\ r[i] = actions[i - 1] /\ i - 1 < j - 1
            /\ i - 1 \in 1 .. Len(actions) /\ j - 1 \in 1 .. Len(actions)
        BY <1>1, <1>2, <1>3, <2>1, <3>5
      <4>2. QED
        BY <4>1 DEF InOrder
    <3>6. QED
      BY <1>1, <1>2, <1>3, <2>1, <3>1, <3>2, <3>3, <3>4, <3>5
  <2>2. ASSUME NEW i \in 1 .. Len(r), NEW j \in 1 .. Len(r), r[i].node = r[j].node PROVE i = j
    <3> DEFINE old(k) == IF k < q THEN k ELSE k - 1
    <3>1. \A k \in 1 .. Len(r) : k # q => old(k) \in 1 .. Len(actions) /\ r[k] = actions[old(k)]
      BY <1>1, <1>2, <1>3
    <3>2. old(i) = old(j) /\ i # q /\ j # q => i = j
      BY <1>1, <1>2, <1>3
    <3> HIDE DEF old
    <3>6. r[q] = new /\ q \in 1 .. Len(r)
      BY <1>1, <1>2, <1>3
    <3>7. \A k \in 1 .. Len(r) : k # q => r[k].node # new.node
      BY <1>4, <3>1
    <3>3. CASE i = q \/ j = q
      BY <2>2, <3>3, <3>6, <3>7
    <3>4. CASE i # q /\ j # q
      <4>1. actions[old(i)].node = actions[old(j)].node
        BY <2>2, <3>1, <3>4
      <4>2. old(i) = old(j)
        BY <3>1, <3>4, <4>1 DEF InOrder
      <4>3. QED
        BY <3>2, <3>4, <4>2
    <3>5. QED
      BY <3>3, <3>4
  <2>3. QED
    BY <2>1, <2>2 DEF InOrder
<1>6. ASSUME NEW x \in ToSet(r) PROVE x \in ToSet(actions) \cup {new}
  <2>1. PICK i \in 1 .. Len(r) : r[i] = x
    BY <1>3, Members
  <2>2. CASE i < q
    <3>1. i \in 1 .. Len(actions) /\ actions[i] = x
      BY <1>1, <1>2, <1>3, <2>1, <2>2
    <3>2. QED
      BY <1>1, <3>1, Members
  <2>3. CASE i = q
    BY <1>3, <2>1, <2>3
  <2>4. CASE i > q
    <3>1. i - 1 \in 1 .. Len(actions) /\ actions[i - 1] = x
      BY <1>1, <1>2, <1>3, <2>1, <2>4
    <3>2. QED
      BY <1>1, <3>1, Members
  <2>5. QED
    BY <1>1, <1>2, <1>3, <2>2, <2>3, <2>4
<1>7. ASSUME NEW x \in ToSet(actions) PROVE x \in ToSet(r)
  <2>1. PICK i \in 1 .. Len(actions) : actions[i] = x
    BY <1>1, Members
  <2>2. CASE i < q
    <3>1. i \in 1 .. Len(r) /\ r[i] = x
      BY <1>1, <1>3, <2>1, <2>2
    <3>2. QED
      BY <1>3, <3>1, Members
  <2>3. CASE i >= q
    <3>1. i + 1 \in 1 .. Len(r) /\ (i + 1) - 1 = i /\ r[i + 1] = actions[(i + 1) - 1]
      BY <1>1, <1>2, <1>3, <2>3
    <3>2. r[i + 1] = x
      BY <2>1, <3>1
    <3>3. QED
      BY <1>3, <3>1, <3>2, Members
  <2>4. QED
    BY <1>1, <1>2, <2>2, <2>3
<1>8. new \in ToSet(r)
  <2>1. q \in 1 .. Len(r) /\ r[q] = new
    BY <1>1, <1>2, <1>3
  <2>2. QED
    BY <1>3, <2>1, Members
<1>9. QED
  BY <1>3, <1>5, <1>6, <1>7, <1>8
-----------------------------------------------------------------------------
\* The list has a first action while one is run.
LEMMA Running ==
    ASSUME CtrlInv, actions # <<>>
    PROVE  /\ Head(actions) \in ToSet(actions) /\ Head(actions) \in Ctrl!Actions
           /\ Head(actions).slot \in Ctrl!Slots
<1>1. /\ actions \in Seq(Ctrl!Actions) /\ InOrder(actions)
      /\ \A a \in Ctrl!Actions : a.value \in Nat /\ a.slot \in Ctrl!Slots
  BY DEF CtrlInv, Ctrl!TypeOK, Ctrl!Actions
<1>2. QED
  BY <1>1, FirstRemoved

\* A sequence with an element is not empty.
LEMMA NotEmpty ==
    ASSUME NEW T, NEW s \in Seq(T), NEW x \in ToSet(s)
    PROVE  s # <<>>
<1>1. PICK i \in 1 .. Len(s) : s[i] = x
  BY Members
<1>2. Len(s) \in Nat /\ (s = <<>> => Len(s) = 0)
  BY EmptySeq, LenProperties
<1>3. QED
  BY <1>1, <1>2

\* Types that the steps use.
LEMMA CtrlTypes ==
    ASSUME Ctrl!BoundsAssumption, CtrlInv
    PROVE  /\ actions \in Seq(Ctrl!Actions) /\ InOrder(actions)
           /\ 0 \in Ctrl!Slots /\ 0 \in 0 .. MaxValue /\ Ctrl!Slots \subseteq Nat
           /\ \A n \in 0 .. FailLimit + 1 : (n <= FailLimit => n + 1 \in 0 .. FailLimit + 1)
           /\ 0 \in 0 .. FailLimit + 1
           /\ value \in Nat /\ target \in Nat /\ MaxValue \in Nat
           /\ \A t \in Incs : newValue[t] \in Nat
           /\ \A a \in ToSet(actions) : a \in Ctrl!Actions /\ a.slot \in Ctrl!Slots /\ a.value \in Nat
           /\ \A a, b \in ToSet(actions) : a.node = b.node => a = b
<1>1. actions \in Seq(Ctrl!Actions) /\ InOrder(actions)
  BY DEF CtrlInv, Ctrl!TypeOK
<1>2. /\ 0 \in Ctrl!Slots /\ 0 \in 0 .. MaxValue /\ Ctrl!Slots \subseteq Nat
      /\ \A n \in 0 .. FailLimit + 1 : (n <= FailLimit => n + 1 \in 0 .. FailLimit + 1)
      /\ 0 \in 0 .. FailLimit + 1 /\ MaxValue \in Nat
  BY DEF Ctrl!BoundsAssumption, Ctrl!Slots
<1>3. target \in Nat /\ \A t \in Incs : newValue[t] \in Nat
  BY <1>2 DEF CtrlInv, Ctrl!TypeOK
<1>4. value \in Nat
  BY <1>2 DEF CtrlInv, Ctrl!TypeOK
<1>5. \A a \in ToSet(actions) : a \in Ctrl!Actions
  BY <1>1, Members, ElementOfSeq
<1>6. \A a \in Ctrl!Actions : a.slot \in Ctrl!Slots /\ a.value \in Nat
  BY <1>2 DEF Ctrl!Actions
<1>7. ASSUME NEW a \in ToSet(actions), NEW b \in ToSet(actions), a.node = b.node PROVE a = b
  <2>1. PICK i \in 1 .. Len(actions) : actions[i] = a
    BY <1>1, Members
  <2>2. PICK j \in 1 .. Len(actions) : actions[j] = b
    BY <1>1, Members
  <2>3. i = j
    BY <1>1, <1>7, <2>1, <2>2 DEF InOrder
  <2>4. QED
    BY <2>1, <2>2, <2>3
<1>8. QED
  BY <1>1, <1>2, <1>3, <1>4, <1>5, <1>6, <1>7

\* The guest submits work.
LEMMA KeptByMax ==
    ASSUME Ctrl!SvcAssumption, Ctrl!BoundsAssumption, CtrlInv, Ctrl!IncrementSyncpointMaxExt
    PROVE  CtrlInv'
<1> USE DEF Ctrl!IncrementSyncpointMaxExt, Ctrl!Goto, Ctrl!syncVars, Ctrl!threadVars, Ctrl!eventVars, Ctrl!SvcAssumption
<1>1. Ctrl!TypeOK'
  <2>1. value' \in 0 .. counterMax' /\ counterMin' \in 0 .. value' /\ counterMax' \in 0 .. MaxValue
    BY DEF CtrlInv, Ctrl!TypeOK, Ctrl!BoundsAssumption
  <2>2. actions' \in Seq(Ctrl!Actions) /\ guard' \in Incs \cup {Svc, Ctrl!NoThread}
    BY DEF CtrlInv, Ctrl!TypeOK
  <2>3. npc' \in [Incs \cup {Svc} -> Ctrl!IncPCs \cup Ctrl!SvcPCs]
    BY DEF CtrlInv, Ctrl!TypeOK, Ctrl!IncPCs, Ctrl!SvcPCs
  <2>4. npc'[Svc] \in Ctrl!SvcPCs /\ \A u \in Incs : npc'[u] \in Ctrl!IncPCs
    BY DEF CtrlInv, Ctrl!TypeOK, Ctrl!IncPCs, Ctrl!SvcPCs
  <2>5. newValue' \in [Incs -> 0 .. MaxValue] /\ slot' \in Ctrl!Slots /\ target' \in 0 .. MaxValue
    BY DEF CtrlInv, Ctrl!TypeOK, Ctrl!BoundsAssumption
  <2>6. status' \in [Ctrl!Slots -> {"Available", "Waiting", "Cancelling", "Signalling",
                                   "Signalled", "Cancelled"}]
    BY DEF CtrlInv, Ctrl!TypeOK
  <2>7. /\ registered' \subseteq Ctrl!Slots /\ kevent' \subseteq registered'
        /\ assigned' \subseteq Ctrl!Slots /\ overtaken' \subseteq Ctrl!Slots
    BY DEF CtrlInv, Ctrl!TypeOK
  <2>8. fails' \in [Ctrl!Slots -> 0 .. FailLimit + 1] /\ handle' \in [Ctrl!Slots -> Ctrl!Nodes \cup {0}]
    BY DEF CtrlInv, Ctrl!TypeOK, Ctrl!BoundsAssumption
  <2>9. QED
    BY <2>1, <2>2, <2>3, <2>4, <2>5, <2>6, <2>7, <2>8 DEF Ctrl!TypeOK
<1>2. InOrder(actions)'
  BY DEF CtrlInv
<1>3. ActionGuard'
  BY DEF CtrlInv, ActionGuard, Inside, Ctrl!TypeOK
<1>4. OwnNode'
  BY DEF CtrlInv, OwnNode, Ctrl!TypeOK
<1>5. OneAction'
  BY DEF CtrlInv, OneAction, ActionGuard, Inside, Ctrl!TypeOK
<1>6. IoctlEvent'
  BY DEF CtrlInv, IoctlEvent, Ctrl!TypeOK
<1>7. AboutToTell'
  BY DEF CtrlInv, AboutToTell, Ctrl!TypeOK
<1>8. Registration'
  BY DEF CtrlInv, Registration, Ctrl!TypeOK
<1>9. DueIsRun'
  BY DEF CtrlInv, DueIsRun, Ctrl!TypeOK
<1>10. Armed'
  BY DEF CtrlInv, Armed, Ctrl!TypeOK
<1>11. Ctrl!SignalledIsTold'
  BY DEF CtrlInv, Ctrl!SignalledIsTold, Ctrl!TypeOK
<1>12. QED
  BY <1>1, <1>2, <1>3, <1>4, <1>5, <1>6, <1>7, <1>8, <1>9, <1>10, <1>11 DEF CtrlInv

\* The counter is incremented before the guard is taken.
LEMMA KeptByFetchAdd ==
    ASSUME Ctrl!SvcAssumption, Ctrl!BoundsAssumption, CtrlInv, NEW t \in Incs, Ctrl!FetchAdd(t)
    PROVE  CtrlInv'
<1> USE DEF Ctrl!FetchAdd, Ctrl!Goto, Ctrl!syncVars, Ctrl!threadVars, Ctrl!eventVars, Ctrl!SvcAssumption
<1>1. Ctrl!TypeOK'
  <2>1. value' \in 0 .. counterMax' /\ counterMin' \in 0 .. value' /\ counterMax' \in 0 .. MaxValue
    BY DEF CtrlInv, Ctrl!TypeOK, Ctrl!BoundsAssumption
  <2>2. actions' \in Seq(Ctrl!Actions) /\ guard' \in Incs \cup {Svc, Ctrl!NoThread}
    BY DEF CtrlInv, Ctrl!TypeOK
  <2>3. npc' \in [Incs \cup {Svc} -> Ctrl!IncPCs \cup Ctrl!SvcPCs]
    BY DEF CtrlInv, Ctrl!TypeOK, Ctrl!IncPCs, Ctrl!SvcPCs
  <2>4. npc'[Svc] \in Ctrl!SvcPCs /\ \A u \in Incs : npc'[u] \in Ctrl!IncPCs
    BY DEF CtrlInv, Ctrl!TypeOK, Ctrl!IncPCs, Ctrl!SvcPCs
  <2>5. newValue' \in [Incs -> 0 .. MaxValue] /\ slot' \in Ctrl!Slots /\ target' \in 0 .. MaxValue
    BY DEF CtrlInv, Ctrl!TypeOK, Ctrl!BoundsAssumption
  <2>6. status' \in [Ctrl!Slots -> {"Available", "Waiting", "Cancelling", "Signalling",
                                   "Signalled", "Cancelled"}]
    BY DEF CtrlInv, Ctrl!TypeOK
  <2>7. /\ registered' \subseteq Ctrl!Slots /\ kevent' \subseteq registered'
        /\ assigned' \subseteq Ctrl!Slots /\ overtaken' \subseteq Ctrl!Slots
    BY DEF CtrlInv, Ctrl!TypeOK
  <2>8. fails' \in [Ctrl!Slots -> 0 .. FailLimit + 1] /\ handle' \in [Ctrl!Slots -> Ctrl!Nodes \cup {0}]
    BY DEF CtrlInv, Ctrl!TypeOK, Ctrl!BoundsAssumption
  <2>9. QED
    BY <2>1, <2>2, <2>3, <2>4, <2>5, <2>6, <2>7, <2>8 DEF Ctrl!TypeOK
<1>2. InOrder(actions)'
  BY DEF CtrlInv
<1>3. ActionGuard'
  BY DEF CtrlInv, ActionGuard, Inside, Ctrl!TypeOK
<1>4. OwnNode'
  BY DEF CtrlInv, OwnNode, Ctrl!TypeOK
<1>5. OneAction'
  BY DEF CtrlInv, OneAction, ActionGuard, Inside, Ctrl!TypeOK
<1>6. IoctlEvent'
  BY DEF CtrlInv, IoctlEvent, Ctrl!TypeOK
<1>7. AboutToTell'
  BY DEF CtrlInv, AboutToTell, Ctrl!TypeOK
<1>8. Registration'
  BY DEF CtrlInv, Registration, Ctrl!TypeOK
<1>9. DueIsRun'
  BY DEF CtrlInv, DueIsRun, Ctrl!TypeOK
<1>10. Armed'
  BY DEF CtrlInv, Armed, Ctrl!TypeOK
<1>11. Ctrl!SignalledIsTold'
  BY DEF CtrlInv, Ctrl!SignalledIsTold, Ctrl!TypeOK
<1>12. QED
  BY <1>1, <1>2, <1>3, <1>4, <1>5, <1>6, <1>7, <1>8, <1>9, <1>10, <1>11 DEF CtrlInv

\* The guard is taken.
LEMMA KeptByIncrement ==
    ASSUME Ctrl!SvcAssumption, Ctrl!BoundsAssumption, CtrlInv, NEW t \in Incs, Ctrl!Increment(t)
    PROVE  CtrlInv'
<1> USE DEF Ctrl!Increment, Ctrl!Goto, Ctrl!syncVars, Ctrl!threadVars, Ctrl!eventVars, Ctrl!SvcAssumption
<1>1. /\ \A u \in Incs \cup {Svc} : ~Inside(u) \/ u = Svc
      /\ actions' = actions
  BY DEF CtrlInv, ActionGuard, Ctrl!TypeOK
<1>2. \/ /\ actions # <<>> /\ guard' = t /\ newValue' = newValue
         /\ npc' = [npc EXCEPT ![t] = "exchange"]
      \/ /\ actions = <<>> \/ ~(Head(actions).value <= newValue[t])
         /\ guard' = Ctrl!NoThread /\ newValue' = [newValue EXCEPT ![t] = 0]
         /\ npc' = [npc EXCEPT ![t] = "idle", ![Svc] = Ctrl!Woken(@)]
  BY DEF Ctrl!RunDue
<1>3. /\ npc' \in [Incs \cup {Svc} -> Ctrl!IncPCs \cup Ctrl!SvcPCs]
      /\ npc'[t] \in {"exchange", "idle"} /\ \A u \in Incs : u # t => npc'[u] = npc[u]
      /\ npc'[Svc] = npc[Svc] \/ (npc[Svc] = "sleep" /\ npc'[Svc] = "waithost")
  <2>1. /\ npc \in [Incs \cup {Svc} -> Ctrl!IncPCs \cup Ctrl!SvcPCs] /\ npc[Svc] \in Ctrl!SvcPCs
        /\ Ctrl!Woken(npc[Svc]) \in Ctrl!SvcPCs /\ t # Svc
        /\ {"exchange", "idle"} \subseteq Ctrl!IncPCs
    BY DEF CtrlInv, Ctrl!TypeOK, Ctrl!Woken, Ctrl!IncPCs, Ctrl!SvcPCs
  <2>2. CASE npc' = [npc EXCEPT ![t] = "exchange"]
    BY <2>1, <2>2
  <2>3. CASE npc' = [npc EXCEPT ![t] = "idle", ![Svc] = Ctrl!Woken(@)]
    BY <2>1, <2>3 DEF Ctrl!Woken
  <2>4. QED
    BY <1>2, <2>2, <2>3
<1>4. Ctrl!TypeOK'
  <2>1. value' \in 0 .. counterMax' /\ counterMin' \in 0 .. value' /\ counterMax' \in 0 .. MaxValue
    BY <1>1, <1>2, <1>3 DEF CtrlInv, Ctrl!TypeOK, Ctrl!BoundsAssumption
  <2>2. actions' \in Seq(Ctrl!Actions) /\ guard' \in Incs \cup {Svc, Ctrl!NoThread}
    BY <1>1, <1>2 DEF CtrlInv, Ctrl!TypeOK
  <2>3. npc' \in [Incs \cup {Svc} -> Ctrl!IncPCs \cup Ctrl!SvcPCs]
    BY <1>3
  <2>4. npc'[Svc] \in Ctrl!SvcPCs /\ \A u \in Incs : npc'[u] \in Ctrl!IncPCs
    BY <1>3 DEF CtrlInv, Ctrl!TypeOK, Ctrl!IncPCs, Ctrl!SvcPCs
  <2>5. newValue' \in [Incs -> 0 .. MaxValue] /\ slot' \in Ctrl!Slots /\ target' \in 0 .. MaxValue
    BY <1>2, CtrlTypes DEF CtrlInv, Ctrl!TypeOK
  <2>6. status' \in [Ctrl!Slots -> {"Available", "Waiting", "Cancelling", "Signalling",
                                   "Signalled", "Cancelled"}]
    BY <1>1, <1>2, <1>3 DEF CtrlInv, Ctrl!TypeOK
  <2>7. /\ registered' \subseteq Ctrl!Slots /\ kevent' \subseteq registered'
        /\ assigned' \subseteq Ctrl!Slots /\ overtaken' \subseteq Ctrl!Slots
    BY <1>1, <1>2, <1>3 DEF CtrlInv, Ctrl!TypeOK
  <2>8. fails' \in [Ctrl!Slots -> 0 .. FailLimit + 1] /\ handle' \in [Ctrl!Slots -> Ctrl!Nodes \cup {0}]
    BY <1>1, <1>2, <1>3 DEF CtrlInv, Ctrl!TypeOK, Ctrl!BoundsAssumption
  <2>9. QED
    BY <2>1, <2>2, <2>3, <2>4, <2>5, <2>6, <2>7, <2>8 DEF Ctrl!TypeOK
<1>5. InOrder(actions)'
  BY <1>1, <1>2, <1>3 DEF CtrlInv
<1>6. ActionGuard'
  <2>1. CASE guard' = t
    BY <1>1, <1>2, <1>3, <2>1 DEF ActionGuard, Inside
  <2>2. CASE guard' = Ctrl!NoThread
    <3>1. npc'[t] = "idle"
      BY <1>2, <1>3, <2>2 DEF CtrlInv, Ctrl!TypeOK
    <3>2. QED
      BY <1>1, <1>3, <2>2, <3>1 DEF ActionGuard, Inside
  <2>3. QED
    BY <1>2, <2>1, <2>2
<1>7. OwnNode'
  BY <1>1, <1>3 DEF CtrlInv, OwnNode
<1>8. OneAction'
  BY <1>1, <1>3 DEF CtrlInv, OneAction, Inside
<1>9. IoctlEvent'
  BY <1>3 DEF CtrlInv, IoctlEvent
<1>10. AboutToTell'
  BY <1>1, <1>3 DEF CtrlInv, AboutToTell, Inside
<1>11. Registration'
  BY <1>1, <1>2, <1>3 DEF CtrlInv, Registration, Ctrl!TypeOK
<1>12. DueIsRun'
  <2>1. ASSUME NEW a \in ToSet(actions), a.value <= value
        PROVE  \E u \in Incs : npc'[u] # "idle" /\ newValue'[u] >= a.value
    <3>1. PICK u \in Incs : npc[u] # "idle" /\ newValue[u] >= a.value
      BY <2>1 DEF CtrlInv, DueIsRun
    <3>2. CASE u # t
      <4>1. npc'[u] = npc[u] /\ newValue'[u] = newValue[u]
        BY <1>2, <1>3, <3>2 DEF CtrlInv, Ctrl!TypeOK
      <4>2. QED
        BY <3>1, <4>1
    <3>3. CASE u = t /\ newValue' = newValue /\ npc' = [npc EXCEPT ![t] = "exchange"]
      <4>1. npc'[t] = "exchange"
        BY <3>3 DEF CtrlInv, Ctrl!TypeOK
      <4>2. QED
        BY <3>1, <3>3, <4>1
    <3>4. CASE u = t /\ (actions = <<>> \/ ~(Head(actions).value <= newValue[t]))
      <4>1. actions # <<>> /\ Head(actions).value <= a.value /\ Head(actions).value \in Nat
            /\ a.value \in Nat /\ newValue[t] \in Nat
        <5>1. actions # <<>>
          BY <2>1, CtrlTypes, NotEmpty
        <5>2. \A b \in Ctrl!Actions : b.value \in Nat
          BY CtrlTypes DEF Ctrl!Actions
        <5>3. Head(actions) \in Ctrl!Actions /\ Head(actions).value <= a.value
          BY <2>1, <5>1, <5>2, CtrlTypes, FirstRemoved
        <5>4. QED
          BY <2>1, <5>1, <5>2, <5>3, CtrlTypes
      <4>2. QED
        BY <3>1, <3>4, <4>1
    <3>5. QED
      BY <1>2, <3>2, <3>3, <3>4
  <2>2. QED
    BY <1>1, <2>1 DEF DueIsRun
<1>13. Armed'
  BY <1>1, <1>3 DEF CtrlInv, Armed
<1>14. Ctrl!SignalledIsTold'
  BY <1>3 DEF CtrlInv, Ctrl!SignalledIsTold
<1>15. QED
  BY <1>4, <1>5, <1>6, <1>7, <1>8, <1>9, <1>10, <1>11, <1>12, <1>13, <1>14 DEF CtrlInv

\* A due action begins.
LEMMA KeptByExchange ==
    ASSUME Ctrl!SvcAssumption, Ctrl!BoundsAssumption, CtrlInv, NEW t \in Incs, Ctrl!Exchange(t)
    PROVE  CtrlInv'
<1> USE DEF Ctrl!Exchange, Ctrl!MarkSignalling, Ctrl!SlotOf, Ctrl!Goto, Ctrl!syncVars, Ctrl!threadVars, Ctrl!eventVars, Ctrl!SvcAssumption
<1>1. actions # <<>> /\ guard = t
      /\ Head(actions) \in ToSet(actions) /\ Head(actions).slot \in Ctrl!Slots
  BY Running DEF CtrlInv, ActionGuard, Inside
<1>2. \A u \in Incs : u # t => ~Inside(u)
  BY DEF CtrlInv, ActionGuard, Inside
<1>3. /\ status' = [status EXCEPT ![Head(actions).slot] = "Signalling"]
      /\ status'[Head(actions).slot] = "Signalling"
      /\ \A s \in Ctrl!Slots : s # Head(actions).slot => status'[s] = status[s]
  BY <1>1 DEF CtrlInv, Ctrl!TypeOK
<1>4. /\ npc'[t] = IF status[Head(actions).slot] = "Waiting" THEN "signal" ELSE "store"
      /\ \A u \in Incs \cup {Svc} : u # t => npc'[u] = npc[u]
  BY DEF CtrlInv, Ctrl!TypeOK
<1>5. Head(actions).slot \notin overtaken =>
         /\ slot = Head(actions).slot => npc[Svc] \notin {"register", "reglock", "exchange",
                                                           "signal", "store", "cancelled", "clear"}
         /\ \/ status[Head(actions).slot] = "Waiting"
            \/ npc[Svc] = "dereg" /\ slot = Head(actions).slot
  BY <1>1, <1>2 DEF CtrlInv, OneAction, Inside
<1>6. Ctrl!TypeOK'
  <2>1. value' \in 0 .. counterMax' /\ counterMin' \in 0 .. value' /\ counterMax' \in 0 .. MaxValue
    BY <1>1, <1>2, <1>3, <1>4, <1>5 DEF CtrlInv, Ctrl!TypeOK, Ctrl!BoundsAssumption
  <2>2. actions' \in Seq(Ctrl!Actions) /\ guard' \in Incs \cup {Svc, Ctrl!NoThread}
    BY <1>1, <1>2, <1>3, <1>4, <1>5 DEF CtrlInv, Ctrl!TypeOK
  <2>3. npc' \in [Incs \cup {Svc} -> Ctrl!IncPCs \cup Ctrl!SvcPCs]
    BY <1>1, <1>2, <1>3, <1>4, <1>5 DEF CtrlInv, Ctrl!TypeOK, Ctrl!IncPCs, Ctrl!SvcPCs
  <2>4. npc'[Svc] \in Ctrl!SvcPCs /\ \A u \in Incs : npc'[u] \in Ctrl!IncPCs
    BY <1>1, <1>2, <1>3, <1>4, <1>5 DEF CtrlInv, Ctrl!TypeOK, Ctrl!IncPCs, Ctrl!SvcPCs
  <2>5. newValue' \in [Incs -> 0 .. MaxValue] /\ slot' \in Ctrl!Slots /\ target' \in 0 .. MaxValue
    BY <1>1, <1>2, <1>3, <1>4, <1>5 DEF CtrlInv, Ctrl!TypeOK, Ctrl!BoundsAssumption
  <2>6. status' \in [Ctrl!Slots -> {"Available", "Waiting", "Cancelling", "Signalling",
                                   "Signalled", "Cancelled"}]
    BY <1>1, <1>2, <1>3, <1>4, <1>5 DEF CtrlInv, Ctrl!TypeOK
  <2>7. /\ registered' \subseteq Ctrl!Slots /\ kevent' \subseteq registered'
        /\ assigned' \subseteq Ctrl!Slots /\ overtaken' \subseteq Ctrl!Slots
    BY <1>1, <1>2, <1>3, <1>4, <1>5 DEF CtrlInv, Ctrl!TypeOK
  <2>8. fails' \in [Ctrl!Slots -> 0 .. FailLimit + 1] /\ handle' \in [Ctrl!Slots -> Ctrl!Nodes \cup {0}]
    BY <1>1, <1>2, <1>3, <1>4, <1>5 DEF CtrlInv, Ctrl!TypeOK, Ctrl!BoundsAssumption
  <2>9. QED
    BY <2>1, <2>2, <2>3, <2>4, <2>5, <2>6, <2>7, <2>8 DEF Ctrl!TypeOK
<1>7. InOrder(actions)'
  BY <1>1, <1>2, <1>3, <1>4, <1>5 DEF CtrlInv
<1>8. ActionGuard'
  BY <1>1, <1>2, <1>3, <1>4, <1>5 DEF CtrlInv, ActionGuard, Inside, Ctrl!TypeOK
<1>9. OwnNode'
  BY <1>1, <1>2, <1>3, <1>4, <1>5 DEF CtrlInv, OwnNode, Ctrl!TypeOK
<1>10. OneAction'
  <2>1. ASSUME NEW a \in ToSet(actions), a.slot \notin overtaken, a.slot = Head(actions).slot
        PROVE  a = Head(actions)
    <3>1. a.node = handle[a.slot] /\ Head(actions).node = handle[a.slot]
      BY <1>1, <2>1 DEF CtrlInv, OneAction
    <3>2. QED
      BY <1>1, <2>1, <3>1, CtrlTypes
  <2>2. npc'[t] \in {"signal", "store"} /\ npc'[Svc] = npc[Svc] /\ npc[t] = "exchange"
    BY <1>4
  <2>3. ASSUME NEW a \in ToSet(actions), a.slot \notin overtaken, a.slot # Head(actions).slot
        PROVE  status'[a.slot] = status[a.slot] /\ status[a.slot] # "Signalling"
    <3>1. status'[a.slot] = status[a.slot]
      BY <1>3, <2>3, CtrlTypes
    <3>2. QED
      BY <2>3, <3>1 DEF CtrlInv, OneAction
  <2>4. ASSUME NEW a \in ToSet(actions), a.slot \notin overtaken
        PROVE  /\ a.node = handle[a.slot]
               /\ slot = a.slot => npc[Svc] \notin {"register", "reglock", "exchange", "signal",
                                                    "store", "cancelled", "clear"}
               /\ \/ status[a.slot] = "Waiting"
                  \/ status[a.slot] = "Signalling"
                  \/ npc[Svc] = "dereg" /\ slot = a.slot /\ status[a.slot] = "Cancelling"
    BY <2>4 DEF CtrlInv, OneAction
  <2>5. QED
    BY <1>1, <1>3, <2>1, <2>2, <2>3, <2>4 DEF OneAction
<1>11. IoctlEvent'
  <2>1. CASE slot = Head(actions).slot
    BY <1>4, <1>5, <2>1 DEF IoctlEvent
  <2>2. CASE slot # Head(actions).slot
    <3>1. status'[slot] = status[slot]
      BY <1>3, <2>2 DEF CtrlInv, Ctrl!TypeOK
    <3>2. QED
      BY <1>4, <3>1 DEF CtrlInv, IoctlEvent
  <2>3. QED
    BY <2>1, <2>2
<1>12. AboutToTell'
  <2>1. \A u \in Incs : npc'[u] = "store" => u = t
    BY <1>2, <1>4 DEF Inside
  <2>2. npc'[t] = "store" => status[Head(actions).slot] # "Waiting"
    BY <1>4
  <2>3. QED
    BY <1>4, <1>5, <2>1, <2>2 DEF AboutToTell
<1>13. Registration'
  BY <1>1, <1>2, <1>3, <1>4, <1>5 DEF CtrlInv, Registration, Ctrl!TypeOK
<1>14. DueIsRun'
  BY <1>1, <1>2, <1>3, <1>4, <1>5 DEF CtrlInv, DueIsRun, Ctrl!TypeOK
<1>15. Armed'
  BY <1>1, <1>2, <1>3, <1>4, <1>5 DEF CtrlInv, Armed, Ctrl!TypeOK
<1>16. Ctrl!SignalledIsTold'
  BY <1>1, <1>2, <1>3, <1>4, <1>5 DEF CtrlInv, Ctrl!SignalledIsTold, Ctrl!TypeOK
<1>17. QED
  BY <1>6, <1>7, <1>8, <1>9, <1>10, <1>11, <1>12, <1>13, <1>14, <1>15, <1>16 DEF CtrlInv

\* RegisterAction runs the action.
LEMMA KeptByExchangeAtOnce ==
    ASSUME Ctrl!SvcAssumption, Ctrl!BoundsAssumption, CtrlInv, Ctrl!Exchange(Svc)
    PROVE  CtrlInv'
<1> USE DEF Ctrl!Exchange, Ctrl!MarkSignalling, Ctrl!SlotOf, Ctrl!Goto, Ctrl!syncVars, Ctrl!threadVars, Ctrl!eventVars, Ctrl!SvcAssumption
<1>1. Ctrl!TypeOK'
  <2>1. value' \in 0 .. counterMax' /\ counterMin' \in 0 .. value' /\ counterMax' \in 0 .. MaxValue
    BY DEF CtrlInv, Ctrl!TypeOK, Ctrl!BoundsAssumption
  <2>2. actions' \in Seq(Ctrl!Actions) /\ guard' \in Incs \cup {Svc, Ctrl!NoThread}
    BY DEF CtrlInv, Ctrl!TypeOK
  <2>3. npc' \in [Incs \cup {Svc} -> Ctrl!IncPCs \cup Ctrl!SvcPCs]
    BY DEF CtrlInv, Ctrl!TypeOK, Ctrl!IncPCs, Ctrl!SvcPCs
  <2>4. npc'[Svc] \in Ctrl!SvcPCs /\ \A u \in Incs : npc'[u] \in Ctrl!IncPCs
    BY DEF CtrlInv, Ctrl!TypeOK, Ctrl!IncPCs, Ctrl!SvcPCs
  <2>5. newValue' \in [Incs -> 0 .. MaxValue] /\ slot' \in Ctrl!Slots /\ target' \in 0 .. MaxValue
    BY DEF CtrlInv, Ctrl!TypeOK, Ctrl!BoundsAssumption
  <2>6. status' \in [Ctrl!Slots -> {"Available", "Waiting", "Cancelling", "Signalling",
                                   "Signalled", "Cancelled"}]
    BY DEF CtrlInv, Ctrl!TypeOK
  <2>7. /\ registered' \subseteq Ctrl!Slots /\ kevent' \subseteq registered'
        /\ assigned' \subseteq Ctrl!Slots /\ overtaken' \subseteq Ctrl!Slots
    BY DEF CtrlInv, Ctrl!TypeOK
  <2>8. fails' \in [Ctrl!Slots -> 0 .. FailLimit + 1] /\ handle' \in [Ctrl!Slots -> Ctrl!Nodes \cup {0}]
    BY DEF CtrlInv, Ctrl!TypeOK, Ctrl!BoundsAssumption
  <2>9. QED
    BY <2>1, <2>2, <2>3, <2>4, <2>5, <2>6, <2>7, <2>8 DEF Ctrl!TypeOK
<1>2. InOrder(actions)'
  BY DEF CtrlInv
<1>3. ActionGuard'
  BY DEF CtrlInv, ActionGuard, Inside, Ctrl!TypeOK
<1>4. OwnNode'
  BY DEF CtrlInv, OwnNode, Ctrl!TypeOK
<1>5. OneAction'
  BY DEF CtrlInv, OneAction, ActionGuard, Inside, Ctrl!TypeOK
<1>6. IoctlEvent'
  BY DEF CtrlInv, IoctlEvent, Ctrl!TypeOK
<1>7. AboutToTell'
  BY DEF CtrlInv, AboutToTell, Ctrl!TypeOK
<1>8. Registration'
  BY DEF CtrlInv, Registration, Ctrl!TypeOK
<1>9. DueIsRun'
  BY DEF CtrlInv, DueIsRun, Ctrl!TypeOK
<1>10. Armed'
  BY DEF CtrlInv, Armed, Ctrl!TypeOK
<1>11. Ctrl!SignalledIsTold'
  BY DEF CtrlInv, Ctrl!SignalledIsTold, Ctrl!TypeOK
<1>12. QED
  BY <1>1, <1>2, <1>3, <1>4, <1>5, <1>6, <1>7, <1>8, <1>9, <1>10, <1>11 DEF CtrlInv

\* It signals the event.
LEMMA KeptBySignal ==
    ASSUME Ctrl!SvcAssumption, Ctrl!BoundsAssumption, CtrlInv, NEW t \in Incs, Ctrl!Signal(t)
    PROVE  CtrlInv'
<1> USE DEF Ctrl!Signal, Ctrl!SlotOf, Ctrl!Goto, Ctrl!syncVars, Ctrl!threadVars, Ctrl!eventVars, Ctrl!SvcAssumption
<1>1. actions # <<>> /\ guard = t
      /\ Head(actions) \in ToSet(actions) /\ Head(actions).slot \in Ctrl!Slots
  BY Running DEF CtrlInv, ActionGuard, Inside
<1>2. Ctrl!TypeOK'
  <2>1. value' \in 0 .. counterMax' /\ counterMin' \in 0 .. value' /\ counterMax' \in 0 .. MaxValue
    BY <1>1 DEF CtrlInv, Ctrl!TypeOK, Ctrl!BoundsAssumption
  <2>2. actions' \in Seq(Ctrl!Actions) /\ guard' \in Incs \cup {Svc, Ctrl!NoThread}
    BY <1>1 DEF CtrlInv, Ctrl!TypeOK
  <2>3. npc' \in [Incs \cup {Svc} -> Ctrl!IncPCs \cup Ctrl!SvcPCs]
    BY <1>1 DEF CtrlInv, Ctrl!TypeOK, Ctrl!IncPCs, Ctrl!SvcPCs
  <2>4. npc'[Svc] \in Ctrl!SvcPCs /\ \A u \in Incs : npc'[u] \in Ctrl!IncPCs
    BY <1>1 DEF CtrlInv, Ctrl!TypeOK, Ctrl!IncPCs, Ctrl!SvcPCs
  <2>5. newValue' \in [Incs -> 0 .. MaxValue] /\ slot' \in Ctrl!Slots /\ target' \in 0 .. MaxValue
    BY <1>1 DEF CtrlInv, Ctrl!TypeOK, Ctrl!BoundsAssumption
  <2>6. status' \in [Ctrl!Slots -> {"Available", "Waiting", "Cancelling", "Signalling",
                                   "Signalled", "Cancelled"}]
    BY <1>1 DEF CtrlInv, Ctrl!TypeOK
  <2>7. /\ registered' \subseteq Ctrl!Slots /\ kevent' \subseteq registered'
        /\ assigned' \subseteq Ctrl!Slots /\ overtaken' \subseteq Ctrl!Slots
    BY <1>1 DEF CtrlInv, Ctrl!TypeOK
  <2>8. fails' \in [Ctrl!Slots -> 0 .. FailLimit + 1] /\ handle' \in [Ctrl!Slots -> Ctrl!Nodes \cup {0}]
    BY <1>1 DEF CtrlInv, Ctrl!TypeOK, Ctrl!BoundsAssumption
  <2>9. QED
    BY <2>1, <2>2, <2>3, <2>4, <2>5, <2>6, <2>7, <2>8 DEF Ctrl!TypeOK
<1>3. InOrder(actions)'
  BY <1>1 DEF CtrlInv
<1>4. ActionGuard'
  BY <1>1 DEF CtrlInv, ActionGuard, Inside, Ctrl!TypeOK
<1>5. OwnNode'
  BY <1>1 DEF CtrlInv, OwnNode, Ctrl!TypeOK
<1>6. OneAction'
  BY <1>1 DEF CtrlInv, OneAction, ActionGuard, Inside, Ctrl!TypeOK
<1>7. IoctlEvent'
  BY <1>1 DEF CtrlInv, IoctlEvent, Ctrl!TypeOK
<1>8. AboutToTell'
  BY <1>1 DEF CtrlInv, AboutToTell, Ctrl!TypeOK
<1>9. Registration'
  BY <1>1 DEF CtrlInv, Registration, Ctrl!TypeOK
<1>10. DueIsRun'
  BY <1>1 DEF CtrlInv, DueIsRun, Ctrl!TypeOK
<1>11. Armed'
  BY <1>1 DEF CtrlInv, Armed, Ctrl!TypeOK
<1>12. Ctrl!SignalledIsTold'
  BY <1>1 DEF CtrlInv, Ctrl!SignalledIsTold, Ctrl!TypeOK
<1>13. QED
  BY <1>2, <1>3, <1>4, <1>5, <1>6, <1>7, <1>8, <1>9, <1>10, <1>11, <1>12 DEF CtrlInv

\* The action RegisterAction runs does.
LEMMA KeptBySignalAtOnce ==
    ASSUME Ctrl!SvcAssumption, Ctrl!BoundsAssumption, CtrlInv, Ctrl!Signal(Svc)
    PROVE  CtrlInv'
<1> USE DEF Ctrl!Signal, Ctrl!SlotOf, Ctrl!Goto, Ctrl!syncVars, Ctrl!threadVars, Ctrl!eventVars, Ctrl!SvcAssumption
<1>1. Ctrl!TypeOK'
  <2>1. value' \in 0 .. counterMax' /\ counterMin' \in 0 .. value' /\ counterMax' \in 0 .. MaxValue
    BY DEF CtrlInv, Ctrl!TypeOK, Ctrl!BoundsAssumption
  <2>2. actions' \in Seq(Ctrl!Actions) /\ guard' \in Incs \cup {Svc, Ctrl!NoThread}
    BY DEF CtrlInv, Ctrl!TypeOK
  <2>3. npc' \in [Incs \cup {Svc} -> Ctrl!IncPCs \cup Ctrl!SvcPCs]
    BY DEF CtrlInv, Ctrl!TypeOK, Ctrl!IncPCs, Ctrl!SvcPCs
  <2>4. npc'[Svc] \in Ctrl!SvcPCs /\ \A u \in Incs : npc'[u] \in Ctrl!IncPCs
    BY DEF CtrlInv, Ctrl!TypeOK, Ctrl!IncPCs, Ctrl!SvcPCs
  <2>5. newValue' \in [Incs -> 0 .. MaxValue] /\ slot' \in Ctrl!Slots /\ target' \in 0 .. MaxValue
    BY DEF CtrlInv, Ctrl!TypeOK, Ctrl!BoundsAssumption
  <2>6. status' \in [Ctrl!Slots -> {"Available", "Waiting", "Cancelling", "Signalling",
                                   "Signalled", "Cancelled"}]
    BY DEF CtrlInv, Ctrl!TypeOK
  <2>7. /\ registered' \subseteq Ctrl!Slots /\ kevent' \subseteq registered'
        /\ assigned' \subseteq Ctrl!Slots /\ overtaken' \subseteq Ctrl!Slots
    BY DEF CtrlInv, Ctrl!TypeOK
  <2>8. fails' \in [Ctrl!Slots -> 0 .. FailLimit + 1] /\ handle' \in [Ctrl!Slots -> Ctrl!Nodes \cup {0}]
    BY DEF CtrlInv, Ctrl!TypeOK, Ctrl!BoundsAssumption
  <2>9. QED
    BY <2>1, <2>2, <2>3, <2>4, <2>5, <2>6, <2>7, <2>8 DEF Ctrl!TypeOK
<1>2. InOrder(actions)'
  BY DEF CtrlInv
<1>3. ActionGuard'
  BY DEF CtrlInv, ActionGuard, Inside, Ctrl!TypeOK
<1>4. OwnNode'
  BY DEF CtrlInv, OwnNode, Ctrl!TypeOK
<1>5. OneAction'
  BY DEF CtrlInv, OneAction, ActionGuard, Inside, Ctrl!TypeOK
<1>6. IoctlEvent'
  BY DEF CtrlInv, IoctlEvent, Ctrl!TypeOK
<1>7. AboutToTell'
  BY DEF CtrlInv, AboutToTell, Ctrl!TypeOK
<1>8. Registration'
  BY DEF CtrlInv, Registration, Ctrl!TypeOK
<1>9. DueIsRun'
  BY DEF CtrlInv, DueIsRun, Ctrl!TypeOK
<1>10. Armed'
  BY DEF CtrlInv, Armed, Ctrl!TypeOK
<1>11. Ctrl!SignalledIsTold'
  BY DEF CtrlInv, Ctrl!SignalledIsTold, Ctrl!TypeOK
<1>12. QED
  BY <1>1, <1>2, <1>3, <1>4, <1>5, <1>6, <1>7, <1>8, <1>9, <1>10, <1>11 DEF CtrlInv

\* It marks the event and is erased.
LEMMA KeptByStore ==
    ASSUME Ctrl!SvcAssumption, Ctrl!BoundsAssumption, CtrlInv, NEW t \in Incs, Ctrl!Store(t)
    PROVE  CtrlInv'
<1> USE DEF Ctrl!Store, Ctrl!SlotOf, Ctrl!Goto, Ctrl!syncVars, Ctrl!threadVars, Ctrl!eventVars, Ctrl!SvcAssumption
<1>1. actions # <<>> /\ guard = t
      /\ Head(actions) \in ToSet(actions) /\ Head(actions).slot \in Ctrl!Slots
  BY Running DEF CtrlInv, ActionGuard, Inside
<1>2. \A u \in Incs : u # t => ~Inside(u)
  BY DEF CtrlInv, ActionGuard, Inside
<1>3. /\ status' = [status EXCEPT ![Head(actions).slot] = "Signalled"]
      /\ status'[Head(actions).slot] = "Signalled"
      /\ \A s \in Ctrl!Slots : s # Head(actions).slot => status'[s] = status[s]
  BY <1>1 DEF CtrlInv, Ctrl!TypeOK
<1>4. /\ actions' \in Seq(Ctrl!Actions) /\ InOrder(actions')
      /\ ToSet(actions') = ToSet(actions) \ {Head(actions)}
  <2>1. \A a \in Ctrl!Actions : a.value \in Nat
    BY DEF Ctrl!Actions
  <2>2. QED
    BY <1>1, <2>1, CtrlTypes, FirstRemoved
<1>5. \/ /\ actions' # <<>> /\ guard' = t /\ newValue' = newValue
         /\ npc' = [npc EXCEPT ![t] = "exchange"]
      \/ /\ actions' = <<>> \/ ~(Head(actions').value <= newValue[t])
         /\ guard' = Ctrl!NoThread /\ newValue' = [newValue EXCEPT ![t] = 0]
         /\ npc' = [npc EXCEPT ![t] = "idle", ![Svc] = Ctrl!Woken(@)]
  BY DEF Ctrl!RunDue
<1>6. /\ npc' \in [Incs \cup {Svc} -> Ctrl!IncPCs \cup Ctrl!SvcPCs]
      /\ npc'[t] \in {"exchange", "idle"} /\ \A u \in Incs : u # t => npc'[u] = npc[u]
      /\ npc'[Svc] = npc[Svc] \/ (npc[Svc] = "sleep" /\ npc'[Svc] = "waithost")
  <2>1. /\ npc \in [Incs \cup {Svc} -> Ctrl!IncPCs \cup Ctrl!SvcPCs] /\ npc[Svc] \in Ctrl!SvcPCs
        /\ Ctrl!Woken(npc[Svc]) \in Ctrl!SvcPCs /\ t # Svc
        /\ {"exchange", "idle"} \subseteq Ctrl!IncPCs
    BY DEF CtrlInv, Ctrl!TypeOK, Ctrl!Woken, Ctrl!IncPCs, Ctrl!SvcPCs
  <2>2. CASE npc' = [npc EXCEPT ![t] = "exchange"]
    BY <2>1, <2>2
  <2>3. CASE npc' = [npc EXCEPT ![t] = "idle", ![Svc] = Ctrl!Woken(@)]
    BY <2>1, <2>3 DEF Ctrl!Woken
  <2>4. QED
    BY <1>5, <2>2, <2>3
<1>7. Head(actions).slot \notin overtaken =>
         /\ slot = Head(actions).slot => npc[Svc] \notin {"register", "reglock", "exchange",
                                                           "signal", "store", "cancelled", "clear"}
         /\ \A a \in ToSet(actions') : a.slot # Head(actions).slot
  <2>1. \A a \in ToSet(actions) : a.slot \notin overtaken => a.node = handle[a.slot]
    BY DEF CtrlInv, OneAction
  <2>2. \A a \in ToSet(actions') : a.node # Head(actions).node
    BY <1>1, <1>4, CtrlTypes
  <2>3. \A a \in ToSet(actions') : a \in ToSet(actions)
    BY <1>4
  <2>4. Head(actions).slot \notin overtaken /\ slot = Head(actions).slot =>
             npc[Svc] \notin {"register", "reglock", "exchange", "signal",
                              "store", "cancelled", "clear"}
    BY <1>1 DEF CtrlInv, OneAction
  <2>5. ASSUME NEW a \in ToSet(actions'), Head(actions).slot \notin overtaken
        PROVE  a.slot # Head(actions).slot
    <3>1. Head(actions).node = handle[Head(actions).slot]
      BY <1>1, <2>1, <2>5
    <3>2. a.slot \notin overtaken => a.node = handle[a.slot]
      BY <2>1, <2>3, <2>5
    <3>3. QED
      BY <2>2, <2>5, <3>1, <3>2
  <2>6. QED
    BY <2>4, <2>5
<1>8. Ctrl!TypeOK'
  <2>1. value' \in 0 .. counterMax' /\ counterMin' \in 0 .. value' /\ counterMax' \in 0 .. MaxValue
    BY DEF CtrlInv, Ctrl!TypeOK
  <2>2. actions' \in Seq(Ctrl!Actions) /\ guard' \in Incs \cup {Svc, Ctrl!NoThread}
    BY <1>4, <1>5 DEF CtrlInv, Ctrl!TypeOK
  <2>3. npc' \in [Incs \cup {Svc} -> Ctrl!IncPCs \cup Ctrl!SvcPCs]
    BY <1>6
  <2>4. npc'[Svc] \in Ctrl!SvcPCs /\ \A u \in Incs : npc'[u] \in Ctrl!IncPCs
    BY <1>6 DEF CtrlInv, Ctrl!TypeOK, Ctrl!IncPCs, Ctrl!SvcPCs
  <2>5. newValue' \in [Incs -> 0 .. MaxValue] /\ slot' \in Ctrl!Slots /\ target' \in 0 .. MaxValue
    <3>1. newValue \in [Incs -> 0 .. MaxValue] /\ slot' \in Ctrl!Slots /\ target' \in 0 .. MaxValue
      BY DEF CtrlInv, Ctrl!TypeOK
    <3>2. 0 \in 0 .. MaxValue
      BY CtrlTypes
    <3>3. newValue' = newValue \/ newValue' = [newValue EXCEPT ![t] = 0]
      BY <1>5
    <3> HIDE DEF Ctrl!RunDue
    <3>4. newValue' \in [Incs -> 0 .. MaxValue]
      BY <3>1, <3>2, <3>3
    <3>5. QED
      BY <3>1, <3>4
  <2>6. status' \in [Ctrl!Slots -> {"Available", "Waiting", "Cancelling", "Signalling",
                                   "Signalled", "Cancelled"}]
    BY <1>3 DEF CtrlInv, Ctrl!TypeOK
  <2>7. /\ registered' \subseteq Ctrl!Slots /\ kevent' \subseteq registered'
        /\ assigned' \subseteq Ctrl!Slots /\ overtaken' \subseteq Ctrl!Slots
    BY DEF CtrlInv, Ctrl!TypeOK
  <2>8. fails' \in [Ctrl!Slots -> 0 .. FailLimit + 1] /\ handle' \in [Ctrl!Slots -> Ctrl!Nodes \cup {0}]
    BY DEF CtrlInv, Ctrl!TypeOK
  <2>9. QED
    BY <2>1, <2>2, <2>3, <2>4, <2>5, <2>6, <2>7, <2>8 DEF Ctrl!TypeOK
<1>9. InOrder(actions)'
  BY <1>4
<1>10. ActionGuard'
  <2>1. guard # Svc /\ t # Svc
    BY <1>1
  <2>2. CASE guard' = t
    BY <1>2, <1>5, <1>6, <2>1, <2>2 DEF ActionGuard, Inside
  <2>3. CASE guard' = Ctrl!NoThread
    <3>1. npc'[t] = "idle"
      BY <1>5, <1>6, <2>3 DEF CtrlInv, Ctrl!TypeOK
    <3>2. QED
      BY <1>2, <1>6, <2>3, <3>1 DEF ActionGuard, Inside
  <2>4. QED
    BY <1>5, <2>2, <2>3
<1>11. OwnNode'
  <2>1. CASE slot = Head(actions).slot
    BY <1>3, <1>4, <1>6, <2>1 DEF CtrlInv, OwnNode
  <2>2. CASE slot # Head(actions).slot
    <3>1. status'[slot] = status[slot]
      BY <1>3, <2>2 DEF CtrlInv, Ctrl!TypeOK
    <3>2. QED
      BY <1>4, <1>6, <3>1 DEF CtrlInv, OwnNode
  <2>3. QED
    BY <2>1, <2>2
<1>12. OneAction'
  <2>1. ASSUME NEW a \in ToSet(actions'), a.slot \notin overtaken
        PROVE  /\ a.node = handle[a.slot]
               /\ slot = a.slot => npc[Svc] \notin {"register", "reglock", "exchange", "signal",
                                                    "store", "cancelled", "clear"}
               /\ \/ status[a.slot] = "Waiting"
                  \/ npc[Svc] = "dereg" /\ slot = a.slot /\ status[a.slot] = "Cancelling"
    BY <1>4, <2>1 DEF CtrlInv, OneAction
  <2>2. ASSUME NEW a \in ToSet(actions'), a.slot \notin overtaken
        PROVE  status'[a.slot] = status[a.slot]
    BY <1>3, <1>4, <1>7, <2>2, CtrlTypes
  <2>3. QED
    BY <1>6, <2>1, <2>2 DEF OneAction
<1>13. IoctlEvent'
  <2>1. CASE slot = Head(actions).slot
    BY <1>6, <1>7, <2>1 DEF IoctlEvent
  <2>2. CASE slot # Head(actions).slot
    <3>1. status'[slot] = status[slot]
      BY <1>3, <2>2 DEF CtrlInv, Ctrl!TypeOK
    <3>2. QED
      BY <1>6, <3>1 DEF CtrlInv, IoctlEvent
  <2>3. QED
    BY <2>1, <2>2
<1>14. AboutToTell'
  BY <1>2, <1>6 DEF AboutToTell, Inside
<1>15. Registration'
  <2>1. ASSUME Head(actions).slot \notin registered \cup overtaken PROVE FALSE
    <3>1. status[Head(actions).slot] # "Available"
      BY <1>1, <2>1 DEF CtrlInv, OneAction
    <3>2. QED
      BY <1>1, <2>1, <3>1 DEF CtrlInv, Registration
  <2>2. QED
    BY <1>3, <1>6, <2>1 DEF CtrlInv, Registration
<1>16. DueIsRun'
  <2>1. ASSUME NEW a \in ToSet(actions'), a.value <= value
        PROVE  \E u \in Incs : npc'[u] # "idle" /\ newValue'[u] >= a.value
    <3>1. PICK u \in Incs : npc[u] # "idle" /\ newValue[u] >= a.value
      BY <1>4, <2>1 DEF CtrlInv, DueIsRun
    <3>2. CASE u # t
      <4>1. npc'[u] = npc[u] /\ newValue'[u] = newValue[u]
        BY <1>5, <1>6, <3>2 DEF CtrlInv, Ctrl!TypeOK
      <4>2. QED
        BY <3>1, <4>1
    <3>3. CASE u = t /\ newValue' = newValue /\ npc' = [npc EXCEPT ![t] = "exchange"]
      <4>1. npc'[t] = "exchange"
        BY <3>3 DEF CtrlInv, Ctrl!TypeOK
      <4>2. QED
        BY <3>1, <3>3, <4>1
    <3>4. CASE u = t /\ (actions' = <<>> \/ ~(Head(actions').value <= newValue[t]))
      <4>1. actions' # <<>>
        BY <1>4, <2>1, NotEmpty
      <4>2. \A b \in Ctrl!Actions : b.value \in Nat
        BY DEF Ctrl!Actions
      <4>3. Head(actions') \in Ctrl!Actions /\ Head(actions').value <= a.value
        BY <1>4, <2>1, <4>1, <4>2, FirstRemoved
      <4>4. a.value \in Nat /\ newValue[t] \in Nat
        BY <1>4, <2>1, CtrlTypes
      <4>5. QED
        BY <3>1, <3>4, <4>1, <4>2, <4>3, <4>4
    <3>5. QED
      BY <1>5, <3>2, <3>3, <3>4
  <2>2. QED
    BY <2>1 DEF DueIsRun
<1>17. Armed'
  <2>1. ASSUME NEW s \in Ctrl!Slots, status'[s] = "Waiting"
        PROVE  status[s] = "Waiting" /\ s # Head(actions).slot
    BY <1>1, <1>3, <2>1
  <2>2. QED
    BY <1>4, <1>6, <2>1 DEF CtrlInv, Armed
<1>18. Ctrl!SignalledIsTold'
  <2>1. Head(actions).slot \in registered \ overtaken =>
            Head(actions).slot \in kevent \/ (npc[Svc] = "dereg" /\ slot = Head(actions).slot)
    BY DEF CtrlInv, AboutToTell
  <2>2. \A s \in registered : s \in Ctrl!Slots
    BY DEF CtrlInv, Ctrl!TypeOK
  <2>3. QED
    BY <1>3, <1>6, <2>1, <2>2 DEF CtrlInv, Ctrl!SignalledIsTold
<1>19. QED
  BY <1>8, <1>9, <1>10, <1>11, <1>12, <1>13, <1>14, <1>15, <1>16, <1>17, <1>18 DEF CtrlInv

\* RegisterAction returns.
LEMMA KeptByStoreAtOnce ==
    ASSUME Ctrl!SvcAssumption, Ctrl!BoundsAssumption, CtrlInv, Ctrl!StoreAtOnce
    PROVE  CtrlInv'
<1> USE DEF Ctrl!StoreAtOnce, Ctrl!Return, Ctrl!Goto, Ctrl!syncVars, Ctrl!threadVars, Ctrl!eventVars, Ctrl!SvcAssumption
<1>1. Ctrl!TypeOK'
  <2>1. value' \in 0 .. counterMax' /\ counterMin' \in 0 .. value' /\ counterMax' \in 0 .. MaxValue
    BY DEF CtrlInv, Ctrl!TypeOK, Ctrl!BoundsAssumption
  <2>2. actions' \in Seq(Ctrl!Actions) /\ guard' \in Incs \cup {Svc, Ctrl!NoThread}
    BY DEF CtrlInv, Ctrl!TypeOK
  <2>3. npc' \in [Incs \cup {Svc} -> Ctrl!IncPCs \cup Ctrl!SvcPCs]
    BY DEF CtrlInv, Ctrl!TypeOK, Ctrl!IncPCs, Ctrl!SvcPCs
  <2>4. npc'[Svc] \in Ctrl!SvcPCs /\ \A u \in Incs : npc'[u] \in Ctrl!IncPCs
    BY DEF CtrlInv, Ctrl!TypeOK, Ctrl!IncPCs, Ctrl!SvcPCs
  <2>5. newValue' \in [Incs -> 0 .. MaxValue] /\ slot' \in Ctrl!Slots /\ target' \in 0 .. MaxValue
    BY CtrlTypes DEF CtrlInv, Ctrl!TypeOK
  <2>6. status' \in [Ctrl!Slots -> {"Available", "Waiting", "Cancelling", "Signalling",
                                   "Signalled", "Cancelled"}]
    BY DEF CtrlInv, Ctrl!TypeOK
  <2>7. /\ registered' \subseteq Ctrl!Slots /\ kevent' \subseteq registered'
        /\ assigned' \subseteq Ctrl!Slots /\ overtaken' \subseteq Ctrl!Slots
    BY DEF CtrlInv, Ctrl!TypeOK
  <2>8. fails' \in [Ctrl!Slots -> 0 .. FailLimit + 1] /\ handle' \in [Ctrl!Slots -> Ctrl!Nodes \cup {0}]
    BY DEF CtrlInv, Ctrl!TypeOK, Ctrl!BoundsAssumption
  <2>9. QED
    BY <2>1, <2>2, <2>3, <2>4, <2>5, <2>6, <2>7, <2>8 DEF Ctrl!TypeOK
<1>2. InOrder(actions)'
  BY DEF CtrlInv
<1>3. ActionGuard'
  BY DEF CtrlInv, ActionGuard, Inside, Ctrl!TypeOK
<1>4. OwnNode'
  BY DEF CtrlInv, OwnNode, Ctrl!TypeOK
<1>5. OneAction'
  BY DEF CtrlInv, OneAction, ActionGuard, Inside, Ctrl!TypeOK
<1>6. IoctlEvent'
  BY DEF CtrlInv, IoctlEvent, Ctrl!TypeOK
<1>7. AboutToTell'
  BY DEF CtrlInv, AboutToTell, Ctrl!TypeOK
<1>8. Registration'
  BY DEF CtrlInv, Registration, Ctrl!TypeOK
<1>9. DueIsRun'
  BY DEF CtrlInv, DueIsRun, Ctrl!TypeOK
<1>10. Armed'
  BY DEF CtrlInv, Armed, Ctrl!TypeOK
<1>11. Ctrl!SignalledIsTold'
  <2>1. slot \in registered \ overtaken => slot \in kevent
    BY DEF CtrlInv, IoctlEvent
  <2>2. \A s \in Ctrl!Slots : s # slot => status'[s] = status[s]
    BY DEF CtrlInv, Ctrl!TypeOK
  <2>3. npc[Svc] = "store" /\ \A s \in registered : s \in Ctrl!Slots
    BY DEF CtrlInv, Ctrl!TypeOK
  <2>4. ASSUME NEW s \in registered \ overtaken, status'[s] = "Signalled" PROVE s \in kevent
    <3>1. CASE s = slot
      BY <2>1, <2>4, <3>1
    <3>2. CASE s # slot
      BY <2>2, <2>3, <2>4, <3>2 DEF CtrlInv, Ctrl!SignalledIsTold
    <3>3. QED
      BY <3>1, <3>2
  <2>5. QED
    BY <2>4 DEF Ctrl!SignalledIsTold
<1>12. QED
  BY <1>1, <1>2, <1>3, <1>4, <1>5, <1>6, <1>7, <1>8, <1>9, <1>10, <1>11 DEF CtrlInv

\* The event is looked at and armed.
LEMMA KeptByCheckEvent ==
    ASSUME Ctrl!SvcAssumption, Ctrl!BoundsAssumption, CtrlInv, Ctrl!CheckEvent
    PROVE  CtrlInv'
<1> USE DEF Ctrl!CheckEvent, Ctrl!Return, Ctrl!Goto, Ctrl!syncVars, Ctrl!threadVars, Ctrl!eventVars, Ctrl!SvcAssumption
<1>1. Ctrl!TypeOK'
  <2>1. value' \in 0 .. counterMax' /\ counterMin' \in 0 .. value' /\ counterMax' \in 0 .. MaxValue
    BY DEF CtrlInv, Ctrl!TypeOK, Ctrl!BoundsAssumption
  <2>2. actions' \in Seq(Ctrl!Actions) /\ guard' \in Incs \cup {Svc, Ctrl!NoThread}
    BY DEF CtrlInv, Ctrl!TypeOK
  <2>3. npc' \in [Incs \cup {Svc} -> Ctrl!IncPCs \cup Ctrl!SvcPCs]
    BY DEF CtrlInv, Ctrl!TypeOK, Ctrl!IncPCs, Ctrl!SvcPCs
  <2>4. npc'[Svc] \in Ctrl!SvcPCs /\ \A u \in Incs : npc'[u] \in Ctrl!IncPCs
    BY DEF CtrlInv, Ctrl!TypeOK, Ctrl!IncPCs, Ctrl!SvcPCs
  <2>5. newValue' \in [Incs -> 0 .. MaxValue] /\ slot' \in Ctrl!Slots /\ target' \in 0 .. MaxValue
    BY CtrlTypes DEF CtrlInv, Ctrl!TypeOK
  <2>6. status' \in [Ctrl!Slots -> {"Available", "Waiting", "Cancelling", "Signalling",
                                   "Signalled", "Cancelled"}]
    BY DEF CtrlInv, Ctrl!TypeOK
  <2>7. /\ registered' \subseteq Ctrl!Slots /\ kevent' \subseteq registered'
        /\ assigned' \subseteq Ctrl!Slots /\ overtaken' \subseteq Ctrl!Slots
    BY DEF CtrlInv, Ctrl!TypeOK
  <2>8. fails' \in [Ctrl!Slots -> 0 .. FailLimit + 1] /\ handle' \in [Ctrl!Slots -> Ctrl!Nodes \cup {0}]
    BY DEF CtrlInv, Ctrl!TypeOK, Ctrl!BoundsAssumption
  <2>9. QED
    BY <2>1, <2>2, <2>3, <2>4, <2>5, <2>6, <2>7, <2>8 DEF Ctrl!TypeOK
<1>2. InOrder(actions)'
  BY DEF CtrlInv
<1>3. ActionGuard'
  BY DEF CtrlInv, ActionGuard, Inside, Ctrl!TypeOK
<1>4. OwnNode'
  BY DEF CtrlInv, OwnNode, Ctrl!TypeOK
<1>5. OneAction'
  <2>1. CASE status' = status /\ npc'[Svc] \in {"waithost", "idle"}
    BY <2>1 DEF CtrlInv, OneAction, Ctrl!TypeOK
  <2>2. CASE /\ status' = [status EXCEPT ![slot] = "Waiting"] /\ slot' = slot
             /\ ~Ctrl!IsBeingUsed(slot) /\ npc'[Svc] = "register"
    <3>1. \A a \in ToSet(actions) : a.slot \notin overtaken => a.slot # slot
      BY <2>2 DEF CtrlInv, OneAction, Ctrl!IsBeingUsed
    <3>2. \A a \in ToSet(actions) : a.slot # slot => status'[a.slot] = status[a.slot]
      BY <2>2, CtrlTypes DEF CtrlInv, Ctrl!TypeOK
    <3>3. \A u \in Incs : npc'[u] = npc[u]
      BY DEF CtrlInv, Ctrl!TypeOK
    <3>4. QED
      BY <2>2, <3>1, <3>2, <3>3 DEF CtrlInv, OneAction
  <2>3. npc' = [npc EXCEPT ![Svc] = npc'[Svc]]
    BY DEF CtrlInv, Ctrl!TypeOK
  <2>4. QED
    BY <2>1, <2>2 DEF CtrlInv, Ctrl!TypeOK
<1>6. IoctlEvent'
  BY DEF CtrlInv, IoctlEvent, Ctrl!TypeOK
<1>7. AboutToTell'
  BY DEF CtrlInv, AboutToTell, Ctrl!TypeOK
<1>8. Registration'
  BY DEF CtrlInv, Registration, Ctrl!TypeOK
<1>9. DueIsRun'
  BY DEF CtrlInv, DueIsRun, Ctrl!TypeOK
<1>10. Armed'
  BY DEF CtrlInv, Armed, Ctrl!TypeOK
<1>11. Ctrl!SignalledIsTold'
  BY DEF CtrlInv, Ctrl!SignalledIsTold, Ctrl!TypeOK
<1>12. QED
  BY <1>1, <1>2, <1>3, <1>4, <1>5, <1>6, <1>7, <1>8, <1>9, <1>10, <1>11 DEF CtrlInv

\* The counter is looked at without the guard.
LEMMA KeptByRegisterAction ==
    ASSUME Ctrl!SvcAssumption, Ctrl!BoundsAssumption, CtrlInv, Ctrl!RegisterAction
    PROVE  CtrlInv'
<1> USE DEF Ctrl!RegisterAction, Ctrl!Goto, Ctrl!syncVars, Ctrl!threadVars, Ctrl!eventVars, Ctrl!SvcAssumption
<1>1. Ctrl!TypeOK'
  <2>1. value' \in 0 .. counterMax' /\ counterMin' \in 0 .. value' /\ counterMax' \in 0 .. MaxValue
    BY DEF CtrlInv, Ctrl!TypeOK, Ctrl!BoundsAssumption
  <2>2. actions' \in Seq(Ctrl!Actions) /\ guard' \in Incs \cup {Svc, Ctrl!NoThread}
    BY DEF CtrlInv, Ctrl!TypeOK
  <2>3. npc' \in [Incs \cup {Svc} -> Ctrl!IncPCs \cup Ctrl!SvcPCs]
    BY DEF CtrlInv, Ctrl!TypeOK, Ctrl!IncPCs, Ctrl!SvcPCs
  <2>4. npc'[Svc] \in Ctrl!SvcPCs /\ \A u \in Incs : npc'[u] \in Ctrl!IncPCs
    BY DEF CtrlInv, Ctrl!TypeOK, Ctrl!IncPCs, Ctrl!SvcPCs
  <2>5. newValue' \in [Incs -> 0 .. MaxValue] /\ slot' \in Ctrl!Slots /\ target' \in 0 .. MaxValue
    BY DEF CtrlInv, Ctrl!TypeOK, Ctrl!BoundsAssumption
  <2>6. status' \in [Ctrl!Slots -> {"Available", "Waiting", "Cancelling", "Signalling",
                                   "Signalled", "Cancelled"}]
    BY DEF CtrlInv, Ctrl!TypeOK
  <2>7. /\ registered' \subseteq Ctrl!Slots /\ kevent' \subseteq registered'
        /\ assigned' \subseteq Ctrl!Slots /\ overtaken' \subseteq Ctrl!Slots
    BY DEF CtrlInv, Ctrl!TypeOK
  <2>8. fails' \in [Ctrl!Slots -> 0 .. FailLimit + 1] /\ handle' \in [Ctrl!Slots -> Ctrl!Nodes \cup {0}]
    BY DEF CtrlInv, Ctrl!TypeOK, Ctrl!BoundsAssumption
  <2>9. QED
    BY <2>1, <2>2, <2>3, <2>4, <2>5, <2>6, <2>7, <2>8 DEF Ctrl!TypeOK
<1>2. InOrder(actions)'
  BY DEF CtrlInv
<1>3. ActionGuard'
  BY DEF CtrlInv, ActionGuard, Inside, Ctrl!TypeOK
<1>4. OwnNode'
  BY DEF CtrlInv, OwnNode, Ctrl!TypeOK
<1>5. OneAction'
  BY DEF CtrlInv, OneAction, ActionGuard, Inside, Ctrl!TypeOK
<1>6. IoctlEvent'
  BY DEF CtrlInv, IoctlEvent, Ctrl!TypeOK
<1>7. AboutToTell'
  BY DEF CtrlInv, AboutToTell, Ctrl!TypeOK
<1>8. Registration'
  BY DEF CtrlInv, Registration, Ctrl!TypeOK
<1>9. DueIsRun'
  BY DEF CtrlInv, DueIsRun, Ctrl!TypeOK
<1>10. Armed'
  BY DEF CtrlInv, Armed, Ctrl!TypeOK
<1>11. Ctrl!SignalledIsTold'
  BY DEF CtrlInv, Ctrl!SignalledIsTold, Ctrl!TypeOK
<1>12. QED
  BY <1>1, <1>2, <1>3, <1>4, <1>5, <1>6, <1>7, <1>8, <1>9, <1>10, <1>11 DEF CtrlInv

\* The action RegisterAction puts into the list.
NewAction == [value |-> target, slot |-> slot, node |-> Ctrl!FreeNode]

LEMMA NodeOfNew ==
    ASSUME Ctrl!BoundsAssumption, CtrlInv, Ctrl!StillEarly
    PROVE  /\ NewAction \in Ctrl!Actions /\ \A a \in ToSet(actions) : a.node # NewAction.node
           /\ Ctrl!FreeNode \in Ctrl!Nodes
<1> DEFINE used == {actions[i].node : i \in DOMAIN actions}
           free == (1 .. Len(actions) + 1) \ used
<1>1. actions \in Seq(Ctrl!Actions) /\ Len(actions) \in Nat /\ DOMAIN actions = 1 .. Len(actions)
  BY CtrlTypes, LenProperties
<1>2. Ctrl!FreeNode \in free
  BY <1>1, NodeFree DEF Ctrl!FreeNode
<1>3. Ctrl!FreeNode \in Ctrl!Nodes
  BY <1>1, <1>2 DEF Ctrl!Nodes
<1>4. target \in 1 .. MaxValue /\ slot \in Ctrl!Slots
  <2>1. target \in 0 .. MaxValue /\ slot \in Ctrl!Slots
    BY DEF CtrlInv, Ctrl!TypeOK
  <2>2. target > 0
    BY CtrlTypes DEF Ctrl!StillEarly
  <2>3. QED
    BY <2>1, <2>2, CtrlTypes
<1>5. NewAction \in Ctrl!Actions
  BY <1>3, <1>4 DEF NewAction, Ctrl!Actions
<1>6. ASSUME NEW a \in ToSet(actions) PROVE a.node # NewAction.node
  <2>1. PICK i \in 1 .. Len(actions) : actions[i] = a
    BY <1>1, Members
  <2>2. a.node \in used
    BY <1>1, <2>1
  <2>3. QED
    BY <1>2, <2>2 DEF NewAction
<1>7. QED
  BY <1>3, <1>5, <1>6

\* The action is put into the list.
LEMMA KeptByRegisterEarly ==
    ASSUME Ctrl!SvcAssumption, Ctrl!BoundsAssumption, CtrlInv, Ctrl!RegisterLocked, Ctrl!StillEarly
    PROVE  CtrlInv'
<1> USE DEF Ctrl!RegisterLocked, Ctrl!Return, Ctrl!Goto, Ctrl!syncVars, Ctrl!threadVars, Ctrl!eventVars, Ctrl!SvcAssumption
<1>1. /\ NewAction \in Ctrl!Actions /\ NewAction.value = target /\ NewAction.slot = slot
      /\ NewAction.node = Ctrl!FreeNode
      /\ \A a \in ToSet(actions) : a.node # NewAction.node
      /\ Ctrl!FreeNode \in Ctrl!Nodes
  BY NodeOfNew DEF NewAction
<1>2. /\ actions' \in Seq(Ctrl!Actions) /\ InOrder(actions')
      /\ ToSet(actions') = ToSet(actions) \cup {NewAction}
  <2>1. actions' = InsertAt(actions, Ctrl!Place(target), NewAction)
    BY SameOperators DEF NewAction
  <2>2. QED
    BY <1>1, <2>1, Registered DEF CtrlInv
<1>3. /\ npc[Svc] = "reglock" /\ npc'[Svc] = "idle" /\ \A u \in Incs : npc'[u] = npc[u] /\ ~Inside(u)
      /\ npc' \in [Incs \cup {Svc} -> Ctrl!IncPCs \cup Ctrl!SvcPCs]
      /\ handle'[slot] = Ctrl!FreeNode /\ \A s \in Ctrl!Slots : s # slot => handle'[s] = handle[s]
      /\ slot \in Ctrl!Slots
  BY <1>1 DEF CtrlInv, ActionGuard, Ctrl!TypeOK, Ctrl!IncPCs, Ctrl!SvcPCs
<1>4. status' = status /\ registered' = registered /\ kevent' = kevent /\ overtaken' = overtaken
      /\ guard' = guard /\ guard = Ctrl!NoThread /\ value' = value /\ newValue' = newValue
  OBVIOUS
<1>5. Ctrl!TypeOK'
  <2>1. value' \in 0 .. counterMax' /\ counterMin' \in 0 .. value' /\ counterMax' \in 0 .. MaxValue
    BY DEF CtrlInv, Ctrl!TypeOK
  <2>2. actions' \in Seq(Ctrl!Actions) /\ guard' \in Incs \cup {Svc, Ctrl!NoThread}
    BY <1>2, <1>4 DEF CtrlInv, Ctrl!TypeOK
  <2>3. npc' \in [Incs \cup {Svc} -> Ctrl!IncPCs \cup Ctrl!SvcPCs]
    BY <1>3
  <2>4. npc'[Svc] \in Ctrl!SvcPCs /\ \A u \in Incs : npc'[u] \in Ctrl!IncPCs
    BY <1>3 DEF CtrlInv, Ctrl!TypeOK, Ctrl!SvcPCs
  <2>5. newValue' \in [Incs -> 0 .. MaxValue] /\ slot' \in Ctrl!Slots /\ target' \in 0 .. MaxValue
    BY CtrlTypes DEF CtrlInv, Ctrl!TypeOK
  <2>6. status' \in [Ctrl!Slots -> {"Available", "Waiting", "Cancelling", "Signalling",
                                   "Signalled", "Cancelled"}]
    BY DEF CtrlInv, Ctrl!TypeOK
  <2>7. /\ registered' \subseteq Ctrl!Slots /\ kevent' \subseteq registered'
        /\ assigned' \subseteq Ctrl!Slots /\ overtaken' \subseteq Ctrl!Slots
    BY DEF CtrlInv, Ctrl!TypeOK
  <2>8. fails' \in [Ctrl!Slots -> 0 .. FailLimit + 1] /\ handle' \in [Ctrl!Slots -> Ctrl!Nodes \cup {0}]
    BY <1>1 DEF CtrlInv, Ctrl!TypeOK
  <2>9. QED
    BY <2>1, <2>2, <2>3, <2>4, <2>5, <2>6, <2>7, <2>8 DEF Ctrl!TypeOK
<1>6. InOrder(actions)'
  BY <1>2
<1>7. ActionGuard'
  BY <1>3, <1>4 DEF ActionGuard, Inside
<1>8. OwnNode'
  BY <1>3 DEF OwnNode
<1>9. OneAction'
  <2>1. \A a \in ToSet(actions) : a.slot \notin overtaken => a.slot # slot
    BY <1>3 DEF CtrlInv, OneAction
  <2>2. slot \notin overtaken => status[slot] = "Waiting"
    BY <1>3 DEF CtrlInv, IoctlEvent
  <2>3. ASSUME NEW a \in ToSet(actions), a.slot \notin overtaken
        PROVE  a.node = handle'[a.slot] /\ status[a.slot] = "Waiting"
    <3>1. handle'[a.slot] = handle[a.slot]
      BY <1>3, <2>1, <2>3, CtrlTypes
    <3>2. QED
      BY <1>3, <2>3, <3>1 DEF CtrlInv, OneAction, Inside
  <2>4. QED
    BY <1>1, <1>2, <1>3, <1>4, <2>2, <2>3 DEF OneAction
<1>10. IoctlEvent'
  BY <1>3 DEF IoctlEvent
<1>11. AboutToTell'
  BY <1>3 DEF AboutToTell, Inside
<1>12. Registration'
  BY <1>1, <1>2, <1>3, <1>4 DEF CtrlInv, Registration, Ctrl!TypeOK
<1>13. DueIsRun'
  <2>1. ~(NewAction.value <= value)
    BY <1>1, CtrlTypes DEF Ctrl!StillEarly
  <2>2. QED
    BY <1>2, <1>3, <1>4, <2>1 DEF CtrlInv, DueIsRun
<1>14. Armed'
  <2>1. ASSUME NEW s \in Ctrl!Slots, status[s] = "Waiting", s # slot
        PROVE  \E a \in ToSet(actions) : a.slot = s /\ a.node = handle[s]
    BY <2>1 DEF CtrlInv, Armed
  <2>2. NewAction.slot = slot /\ NewAction.node = handle'[slot]
    BY <1>1, <1>3
  <2>3. QED
    BY <1>2, <1>3, <1>4, <2>1, <2>2 DEF Armed
<1>15. Ctrl!SignalledIsTold'
  BY <1>3, <1>4 DEF CtrlInv, Ctrl!SignalledIsTold
<1>16. QED
  BY <1>5, <1>6, <1>7, <1>8, <1>9, <1>10, <1>11, <1>12, <1>13, <1>14, <1>15 DEF CtrlInv

\* The value was reached before the guard was taken.
LEMMA KeptByRegisterLate ==
    ASSUME Ctrl!SvcAssumption, Ctrl!BoundsAssumption, CtrlInv, Ctrl!RegisterLocked, ~Ctrl!StillEarly
    PROVE  CtrlInv'
<1> USE DEF Ctrl!RegisterLocked, Ctrl!Goto, Ctrl!syncVars, Ctrl!threadVars, Ctrl!eventVars, Ctrl!SvcAssumption
<1>1. Ctrl!TypeOK'
  <2>1. value' \in 0 .. counterMax' /\ counterMin' \in 0 .. value' /\ counterMax' \in 0 .. MaxValue
    BY DEF CtrlInv, Ctrl!TypeOK, Ctrl!BoundsAssumption
  <2>2. actions' \in Seq(Ctrl!Actions) /\ guard' \in Incs \cup {Svc, Ctrl!NoThread}
    BY DEF CtrlInv, Ctrl!TypeOK
  <2>3. npc' \in [Incs \cup {Svc} -> Ctrl!IncPCs \cup Ctrl!SvcPCs]
    BY DEF CtrlInv, Ctrl!TypeOK, Ctrl!IncPCs, Ctrl!SvcPCs
  <2>4. npc'[Svc] \in Ctrl!SvcPCs /\ \A u \in Incs : npc'[u] \in Ctrl!IncPCs
    BY DEF CtrlInv, Ctrl!TypeOK, Ctrl!IncPCs, Ctrl!SvcPCs
  <2>5. newValue' \in [Incs -> 0 .. MaxValue] /\ slot' \in Ctrl!Slots /\ target' \in 0 .. MaxValue
    BY DEF CtrlInv, Ctrl!TypeOK, Ctrl!BoundsAssumption
  <2>6. status' \in [Ctrl!Slots -> {"Available", "Waiting", "Cancelling", "Signalling",
                                   "Signalled", "Cancelled"}]
    BY DEF CtrlInv, Ctrl!TypeOK
  <2>7. /\ registered' \subseteq Ctrl!Slots /\ kevent' \subseteq registered'
        /\ assigned' \subseteq Ctrl!Slots /\ overtaken' \subseteq Ctrl!Slots
    BY DEF CtrlInv, Ctrl!TypeOK
  <2>8. fails' \in [Ctrl!Slots -> 0 .. FailLimit + 1] /\ handle' \in [Ctrl!Slots -> Ctrl!Nodes \cup {0}]
    BY DEF CtrlInv, Ctrl!TypeOK, Ctrl!BoundsAssumption
  <2>9. QED
    BY <2>1, <2>2, <2>3, <2>4, <2>5, <2>6, <2>7, <2>8 DEF Ctrl!TypeOK
<1>2. InOrder(actions)'
  BY DEF CtrlInv
<1>3. ActionGuard'
  BY DEF CtrlInv, ActionGuard, Inside, Ctrl!TypeOK
<1>4. OwnNode'
  BY DEF CtrlInv, OwnNode, Ctrl!TypeOK
<1>5. OneAction'
  BY DEF CtrlInv, OneAction, ActionGuard, Inside, Ctrl!TypeOK
<1>6. IoctlEvent'
  BY DEF CtrlInv, IoctlEvent, Ctrl!TypeOK
<1>7. AboutToTell'
  BY DEF CtrlInv, AboutToTell, Ctrl!TypeOK
<1>8. Registration'
  BY DEF CtrlInv, Registration, Ctrl!TypeOK
<1>9. DueIsRun'
  BY DEF CtrlInv, DueIsRun, Ctrl!TypeOK
<1>10. Armed'
  BY DEF CtrlInv, Armed, Ctrl!TypeOK
<1>11. Ctrl!SignalledIsTold'
  BY DEF CtrlInv, Ctrl!SignalledIsTold, Ctrl!TypeOK
<1>12. QED
  BY <1>1, <1>2, <1>3, <1>4, <1>5, <1>6, <1>7, <1>8, <1>9, <1>10, <1>11 DEF CtrlInv

\* The wait for the syncpoint itself.
LEMMA KeptByWaitHost ==
    ASSUME Ctrl!SvcAssumption, Ctrl!BoundsAssumption, CtrlInv, Ctrl!WaitHost
    PROVE  CtrlInv'
<1> USE DEF Ctrl!WaitHost, Ctrl!Return, Ctrl!Goto, Ctrl!syncVars, Ctrl!threadVars, Ctrl!eventVars, Ctrl!SvcAssumption
<1>1. Ctrl!TypeOK'
  <2>1. value' \in 0 .. counterMax' /\ counterMin' \in 0 .. value' /\ counterMax' \in 0 .. MaxValue
    BY DEF CtrlInv, Ctrl!TypeOK, Ctrl!BoundsAssumption
  <2>2. actions' \in Seq(Ctrl!Actions) /\ guard' \in Incs \cup {Svc, Ctrl!NoThread}
    BY DEF CtrlInv, Ctrl!TypeOK
  <2>3. npc' \in [Incs \cup {Svc} -> Ctrl!IncPCs \cup Ctrl!SvcPCs]
    BY DEF CtrlInv, Ctrl!TypeOK, Ctrl!IncPCs, Ctrl!SvcPCs
  <2>4. npc'[Svc] \in Ctrl!SvcPCs /\ \A u \in Incs : npc'[u] \in Ctrl!IncPCs
    BY DEF CtrlInv, Ctrl!TypeOK, Ctrl!IncPCs, Ctrl!SvcPCs
  <2>5. newValue' \in [Incs -> 0 .. MaxValue] /\ slot' \in Ctrl!Slots /\ target' \in 0 .. MaxValue
    BY CtrlTypes DEF CtrlInv, Ctrl!TypeOK
  <2>6. status' \in [Ctrl!Slots -> {"Available", "Waiting", "Cancelling", "Signalling",
                                   "Signalled", "Cancelled"}]
    BY DEF CtrlInv, Ctrl!TypeOK
  <2>7. /\ registered' \subseteq Ctrl!Slots /\ kevent' \subseteq registered'
        /\ assigned' \subseteq Ctrl!Slots /\ overtaken' \subseteq Ctrl!Slots
    BY DEF CtrlInv, Ctrl!TypeOK
  <2>8. fails' \in [Ctrl!Slots -> 0 .. FailLimit + 1] /\ handle' \in [Ctrl!Slots -> Ctrl!Nodes \cup {0}]
    BY CtrlTypes DEF CtrlInv, Ctrl!TypeOK
  <2>9. QED
    BY <2>1, <2>2, <2>3, <2>4, <2>5, <2>6, <2>7, <2>8 DEF Ctrl!TypeOK
<1>2. InOrder(actions)'
  BY DEF CtrlInv
<1>3. ActionGuard'
  BY DEF CtrlInv, ActionGuard, Inside, Ctrl!TypeOK
<1>4. OwnNode'
  BY DEF CtrlInv, OwnNode, Ctrl!TypeOK
<1>5. OneAction'
  BY DEF CtrlInv, OneAction, ActionGuard, Inside, Ctrl!TypeOK
<1>6. IoctlEvent'
  BY DEF CtrlInv, IoctlEvent, Ctrl!TypeOK
<1>7. AboutToTell'
  BY DEF CtrlInv, AboutToTell, Ctrl!TypeOK
<1>8. Registration'
  BY DEF CtrlInv, Registration, Ctrl!TypeOK
<1>9. DueIsRun'
  BY DEF CtrlInv, DueIsRun, Ctrl!TypeOK
<1>10. Armed'
  BY DEF CtrlInv, Armed, Ctrl!TypeOK
<1>11. Ctrl!SignalledIsTold'
  BY DEF CtrlInv, Ctrl!SignalledIsTold, Ctrl!TypeOK
<1>12. QED
  BY <1>1, <1>2, <1>3, <1>4, <1>5, <1>6, <1>7, <1>8, <1>9, <1>10, <1>11 DEF CtrlInv

\* A wait for a value that was reached.
LEMMA KeptByWaitReached ==
    ASSUME Ctrl!SvcAssumption, Ctrl!BoundsAssumption, CtrlInv, NEW s \in Ctrl!Slots, NEW allocate \in BOOLEAN, NEW thr,
           npc[Svc] = "idle", Ctrl!WaitReached(s, allocate, thr)
    PROVE  CtrlInv'
<1> USE DEF Ctrl!WaitReached, Ctrl!Goto, Ctrl!syncVars, Ctrl!threadVars, Ctrl!eventVars, Ctrl!SvcAssumption
<1>1. Ctrl!TypeOK'
  <2>1. value' \in 0 .. counterMax' /\ counterMin' \in 0 .. value' /\ counterMax' \in 0 .. MaxValue
    BY DEF CtrlInv, Ctrl!TypeOK, Ctrl!BoundsAssumption
  <2>2. actions' \in Seq(Ctrl!Actions) /\ guard' \in Incs \cup {Svc, Ctrl!NoThread}
    BY DEF CtrlInv, Ctrl!TypeOK
  <2>3. npc' \in [Incs \cup {Svc} -> Ctrl!IncPCs \cup Ctrl!SvcPCs]
    BY DEF CtrlInv, Ctrl!TypeOK, Ctrl!IncPCs, Ctrl!SvcPCs
  <2>4. npc'[Svc] \in Ctrl!SvcPCs /\ \A u \in Incs : npc'[u] \in Ctrl!IncPCs
    BY DEF CtrlInv, Ctrl!TypeOK, Ctrl!IncPCs, Ctrl!SvcPCs
  <2>5. newValue' \in [Incs -> 0 .. MaxValue] /\ slot' \in Ctrl!Slots /\ target' \in 0 .. MaxValue
    BY DEF CtrlInv, Ctrl!TypeOK, Ctrl!BoundsAssumption
  <2>6. status' \in [Ctrl!Slots -> {"Available", "Waiting", "Cancelling", "Signalling",
                                   "Signalled", "Cancelled"}]
    BY DEF CtrlInv, Ctrl!TypeOK
  <2>7. /\ registered' \subseteq Ctrl!Slots /\ kevent' \subseteq registered'
        /\ assigned' \subseteq Ctrl!Slots /\ overtaken' \subseteq Ctrl!Slots
    BY DEF CtrlInv, Ctrl!TypeOK
  <2>8. fails' \in [Ctrl!Slots -> 0 .. FailLimit + 1] /\ handle' \in [Ctrl!Slots -> Ctrl!Nodes \cup {0}]
    BY CtrlTypes DEF CtrlInv, Ctrl!TypeOK
  <2>9. QED
    BY <2>1, <2>2, <2>3, <2>4, <2>5, <2>6, <2>7, <2>8 DEF Ctrl!TypeOK
<1>2. InOrder(actions)'
  BY DEF CtrlInv
<1>3. ActionGuard'
  BY DEF CtrlInv, ActionGuard, Inside, Ctrl!TypeOK
<1>4. OwnNode'
  BY DEF CtrlInv, OwnNode, Ctrl!TypeOK
<1>5. OneAction'
  BY DEF CtrlInv, OneAction, ActionGuard, Inside, Ctrl!TypeOK
<1>6. IoctlEvent'
  BY DEF CtrlInv, IoctlEvent, Ctrl!TypeOK
<1>7. AboutToTell'
  BY DEF CtrlInv, AboutToTell, Ctrl!TypeOK
<1>8. Registration'
  BY DEF CtrlInv, Registration, Ctrl!TypeOK
<1>9. DueIsRun'
  BY DEF CtrlInv, DueIsRun, Ctrl!TypeOK
<1>10. Armed'
  BY DEF CtrlInv, Armed, Ctrl!TypeOK
<1>11. Ctrl!SignalledIsTold'
  BY DEF CtrlInv, Ctrl!SignalledIsTold, Ctrl!TypeOK
<1>12. QED
  BY <1>1, <1>2, <1>3, <1>4, <1>5, <1>6, <1>7, <1>8, <1>9, <1>10, <1>11 DEF CtrlInv

\* A new event, in the place of one that is not in use.
Replaced(s) ==
    /\ registered' = registered \cup {s} /\ kevent' = kevent \ {s}
    /\ status' = [status EXCEPT ![s] = "Available"]
    /\ fails' = [fails EXCEPT ![s] = 0] /\ assigned' = assigned \ {s}

\* The event of a wait is an idle one, a new one or the first.
LEMMA EventFound ==
    ASSUME Ctrl!BoundsAssumption, CtrlInv, Ctrl!FindFreeNvEvent
    PROVE  /\ slot' \in Ctrl!Slots
           /\ \/ UNCHANGED <<registered, kevent, status, fails, assigned>>
              \/ slot' \notin registered /\ Replaced(slot')
<1> DEFINE idle == {s \in registered : ~Ctrl!IsBeingUsed(s)}
           new == Ctrl!Slots \ registered
<1>1. /\ registered \subseteq Ctrl!Slots /\ Ctrl!Slots \subseteq Nat /\ 0 \in Ctrl!Slots
  BY CtrlTypes DEF CtrlInv, Ctrl!TypeOK
<1>2. idle \subseteq Ctrl!Slots
  BY <1>1
<1> HIDE DEF idle, new
<1>3. CASE idle \cap assigned # {}
  <2>1. slot' = Ctrl!Lowest(idle \cap assigned) /\ UNCHANGED <<registered, kevent, status, fails, assigned>>
    BY <1>3 DEF Ctrl!FindFreeNvEvent, idle
  <2>2. idle \cap assigned \in SUBSET Nat
    BY <1>1, <1>2
  <2>3. slot' \in idle \cap assigned
    BY <1>3, <2>1, <2>2, FirstPosition
  <2>4. QED
    BY <1>2, <2>1, <2>3
<1>4. CASE idle \cap assigned = {} /\ new # {}
  <2>1. slot' = Ctrl!Lowest(new) /\ Replaced(Ctrl!Lowest(new))
    BY <1>4 DEF Ctrl!FindFreeNvEvent, Ctrl!Created, Replaced, idle, new
  <2>2. new \in SUBSET Nat /\ new \subseteq Ctrl!Slots \ registered
    BY <1>1 DEF new
  <2>3. slot' \in new
    BY <1>4, <2>1, <2>2, FirstPosition
  <2>4. QED
    BY <2>1, <2>2, <2>3
<1>5. CASE idle \cap assigned = {} /\ new = {}
  <2>1. /\ slot' = IF idle # {} THEN Ctrl!Highest(idle) ELSE 0
        /\ UNCHANGED <<registered, kevent, status, fails, assigned>>
    BY <1>5 DEF Ctrl!FindFreeNvEvent, Ctrl!NoneFree, idle, new
  <2>2. CASE idle # {}
    <3>1. \E s \in idle : \A u \in idle : s >= u
      <4> DEFINE mirrored == {NumSlots - s : s \in idle}
      <4>1. NumSlots \in Nat /\ \A s \in idle : s \in Nat /\ NumSlots - s \in Nat
        BY <1>2 DEF Ctrl!BoundsAssumption, Ctrl!Slots
      <4>2. mirrored \in SUBSET Nat /\ mirrored # {}
        BY <2>2, <4>1
      <4>3. Ctrl!Lowest(mirrored) \in mirrored /\ \A i \in mirrored : Ctrl!Lowest(mirrored) <= i
        BY <4>2, FirstPosition
      <4>4. PICK s \in idle : Ctrl!Lowest(mirrored) = NumSlots - s
        BY <4>3
      <4>5. ASSUME NEW u \in idle PROVE s >= u
        <5>1. NumSlots - s <= NumSlots - u
          BY <4>3, <4>4
        <5>2. QED
          BY <4>1, <5>1
      <4>6. QED
        BY <4>5
    <3>2. Ctrl!Highest(idle) \in idle
      BY <3>1 DEF Ctrl!Highest
    <3>3. QED
      BY <1>2, <2>1, <2>2, <3>2
  <2>3. QED
    BY <1>1, <2>1, <2>2
<1>6. QED
  BY <1>3, <1>4, <1>5

\* An event that is replaced or freed was not waited for, and none of its actions is left.
LEMMA ReplacedIsIdle ==
    ASSUME CtrlInv, npc[Svc] = "idle", NEW s \in Ctrl!Slots,
           s \notin registered \/ ~Ctrl!IsBeingUsed(s)
    PROVE  \A a \in ToSet(actions) : a.slot \notin overtaken => a.slot # s
<1> SUFFICES ASSUME NEW a \in ToSet(actions), s \notin overtaken, a.slot = s PROVE FALSE
  OBVIOUS
<1>1. status[s] = "Waiting" \/ status[s] = "Signalling"
  BY DEF CtrlInv, OneAction
<1>2. CASE s \notin registered
  <2>1. status[s] = "Available"
    BY <1>2 DEF CtrlInv, Registration
  <2>2. QED
    BY <1>1, <2>1
<1>3. CASE ~Ctrl!IsBeingUsed(s)
  BY <1>1, <1>3 DEF Ctrl!IsBeingUsed
<1>4. QED
  BY <1>2, <1>3

\* An event is registered or freed.
LEMMA KeptByReplace ==
    ASSUME Ctrl!SvcAssumption, Ctrl!BoundsAssumption, CtrlInv, npc[Svc] = "idle", NEW s \in Ctrl!Slots,
           s \notin registered \/ ~Ctrl!IsBeingUsed(s),
           registered' \in {registered \cup {s}, registered \ {s}}, kevent' = kevent \ {s},
           status' = [status EXCEPT ![s] = "Available"], assigned' \subseteq Ctrl!Slots,
           fails' \in [Ctrl!Slots -> 0 .. FailLimit + 1],
           UNCHANGED <<value, counterMax, actions, guard, newValue, handle, overtaken>>,
           counterMin' \in 0 .. value, slot' \in Ctrl!Slots, target' \in 0 .. MaxValue,
           npc' = [npc EXCEPT ![Svc] = npc'[Svc]], npc'[Svc] \in {"idle", "slot", "poll"}
    PROVE  CtrlInv'
<1> USE DEF Ctrl!Goto, Ctrl!syncVars, Ctrl!threadVars, Ctrl!eventVars, Ctrl!SvcAssumption
<1>1. /\ npc[Svc] = "idle" /\ npc'[Svc] \in {"idle", "slot", "poll"}
      /\ \A u \in Incs : npc'[u] = npc[u]
      /\ npc' \in [Incs \cup {Svc} -> Ctrl!IncPCs \cup Ctrl!SvcPCs]
  BY DEF CtrlInv, Ctrl!TypeOK, Ctrl!SvcPCs
<1>2. status'[s] = "Available" /\ \A u \in Ctrl!Slots : u # s => status'[u] = status[u]
  BY DEF CtrlInv, Ctrl!TypeOK
<1>3. \A a \in ToSet(actions) : a.slot \notin overtaken => a.slot # s /\ status'[a.slot] = status[a.slot]
  BY <1>1, <1>2, ReplacedIsIdle, CtrlTypes
<1>4. registered' \subseteq Ctrl!Slots /\ registered \ {s} \subseteq registered'
      /\ \A u \in registered' : u = s \/ u \in registered
  BY DEF CtrlInv, Ctrl!TypeOK
<1>5. Ctrl!TypeOK'
  <2>1. value' \in 0 .. counterMax' /\ counterMin' \in 0 .. value' /\ counterMax' \in 0 .. MaxValue
    BY DEF CtrlInv, Ctrl!TypeOK
  <2>2. actions' \in Seq(Ctrl!Actions) /\ guard' \in Incs \cup {Svc, Ctrl!NoThread}
    BY DEF CtrlInv, Ctrl!TypeOK
  <2>3. npc' \in [Incs \cup {Svc} -> Ctrl!IncPCs \cup Ctrl!SvcPCs]
    BY <1>1
  <2>4. npc'[Svc] \in Ctrl!SvcPCs /\ \A u \in Incs : npc'[u] \in Ctrl!IncPCs
    BY <1>1 DEF CtrlInv, Ctrl!TypeOK, Ctrl!SvcPCs
  <2>5. newValue' \in [Incs -> 0 .. MaxValue] /\ slot' \in Ctrl!Slots /\ target' \in 0 .. MaxValue
    BY DEF CtrlInv, Ctrl!TypeOK
  <2>6. status' \in [Ctrl!Slots -> {"Available", "Waiting", "Cancelling", "Signalling",
                                   "Signalled", "Cancelled"}]
    BY DEF CtrlInv, Ctrl!TypeOK
  <2>7. /\ registered' \subseteq Ctrl!Slots /\ kevent' \subseteq registered'
        /\ assigned' \subseteq Ctrl!Slots /\ overtaken' \subseteq Ctrl!Slots
    BY DEF CtrlInv, Ctrl!TypeOK
  <2>8. fails' \in [Ctrl!Slots -> 0 .. FailLimit + 1] /\ handle' \in [Ctrl!Slots -> Ctrl!Nodes \cup {0}]
    BY DEF CtrlInv, Ctrl!TypeOK
  <2>9. QED
    BY <2>1, <2>2, <2>3, <2>4, <2>5, <2>6, <2>7, <2>8 DEF Ctrl!TypeOK
<1>6. InOrder(actions)'
  BY DEF CtrlInv
<1>7. ActionGuard'
  BY <1>1 DEF CtrlInv, ActionGuard, Inside
<1>8. OwnNode'
  BY <1>1 DEF OwnNode
<1>9. OneAction'
  BY <1>1, <1>3 DEF CtrlInv, OneAction
<1>10. IoctlEvent'
  BY <1>1 DEF IoctlEvent
<1>11. AboutToTell'
  <2>1. ASSUME NEW t \in Incs, npc[t] = "store", Head(actions).slot \in registered' \ overtaken
        PROVE  Head(actions).slot \in kevent'
    <3>1. actions # <<>> /\ Head(actions) \in ToSet(actions)
      BY <2>1, Running DEF CtrlInv, ActionGuard, Inside
    <3>2. Head(actions).slot # s /\ Head(actions).slot \in registered
      BY <1>3, <1>4, <2>1, <3>1
    <3>3. QED
      BY <1>1, <2>1, <3>2 DEF CtrlInv, AboutToTell
  <2>2. QED
    BY <1>1, <2>1 DEF AboutToTell
<1>12. Registration'
  BY <1>1, <1>2, <1>4 DEF CtrlInv, Registration
<1>13. DueIsRun'
  BY <1>1 DEF CtrlInv, DueIsRun
<1>14. Armed'
  BY <1>1, <1>2 DEF CtrlInv, Armed
<1>15. Ctrl!SignalledIsTold'
  BY <1>1, <1>2, <1>4 DEF CtrlInv, Ctrl!SignalledIsTold
<1>16. QED
  BY <1>5, <1>6, <1>7, <1>8, <1>9, <1>10, <1>11, <1>12, <1>13, <1>14, <1>15 DEF CtrlInv

\* An idle event is chosen for a wait.
LEMMA KeptByChoice ==
    ASSUME Ctrl!SvcAssumption, Ctrl!BoundsAssumption, CtrlInv, npc[Svc] = "idle",
           UNCHANGED <<registered, kevent, status, fails, assigned>>,
           UNCHANGED <<value, counterMax, actions, guard, newValue, handle, overtaken>>,
           counterMin' \in 0 .. value, slot' \in Ctrl!Slots, target' \in 0 .. MaxValue,
           npc' = [npc EXCEPT ![Svc] = npc'[Svc]], npc'[Svc] \in {"slot", "poll"}
    PROVE  CtrlInv'
<1> USE DEF Ctrl!Goto, Ctrl!syncVars, Ctrl!threadVars, Ctrl!eventVars, Ctrl!SvcAssumption
<1>1. /\ npc[Svc] = "idle" /\ npc'[Svc] \in {"idle", "slot", "poll"}
      /\ \A u \in Incs : npc'[u] = npc[u]
      /\ npc' \in [Incs \cup {Svc} -> Ctrl!IncPCs \cup Ctrl!SvcPCs]
  BY DEF CtrlInv, Ctrl!TypeOK, Ctrl!SvcPCs
<1>2. Ctrl!TypeOK'
  <2>1. value' \in 0 .. counterMax' /\ counterMin' \in 0 .. value' /\ counterMax' \in 0 .. MaxValue
    BY DEF CtrlInv, Ctrl!TypeOK
  <2>2. actions' \in Seq(Ctrl!Actions) /\ guard' \in Incs \cup {Svc, Ctrl!NoThread}
    BY <1>1 DEF CtrlInv, Ctrl!TypeOK
  <2>3. npc' \in [Incs \cup {Svc} -> Ctrl!IncPCs \cup Ctrl!SvcPCs]
    BY <1>1
  <2>4. npc'[Svc] \in Ctrl!SvcPCs /\ \A u \in Incs : npc'[u] \in Ctrl!IncPCs
    BY <1>1 DEF CtrlInv, Ctrl!TypeOK, Ctrl!SvcPCs
  <2>5. newValue' \in [Incs -> 0 .. MaxValue] /\ slot' \in Ctrl!Slots /\ target' \in 0 .. MaxValue
    BY DEF CtrlInv, Ctrl!TypeOK
  <2>6. status' \in [Ctrl!Slots -> {"Available", "Waiting", "Cancelling", "Signalling",
                                   "Signalled", "Cancelled"}]
    BY <1>1 DEF CtrlInv, Ctrl!TypeOK
  <2>7. /\ registered' \subseteq Ctrl!Slots /\ kevent' \subseteq registered'
        /\ assigned' \subseteq Ctrl!Slots /\ overtaken' \subseteq Ctrl!Slots
    BY <1>1 DEF CtrlInv, Ctrl!TypeOK
  <2>8. fails' \in [Ctrl!Slots -> 0 .. FailLimit + 1] /\ handle' \in [Ctrl!Slots -> Ctrl!Nodes \cup {0}]
    BY <1>1 DEF CtrlInv, Ctrl!TypeOK, Ctrl!BoundsAssumption
  <2>9. QED
    BY <2>1, <2>2, <2>3, <2>4, <2>5, <2>6, <2>7, <2>8 DEF Ctrl!TypeOK
<1>3. InOrder(actions)'
  BY <1>1 DEF CtrlInv
<1>4. ActionGuard'
  BY <1>1 DEF CtrlInv, ActionGuard, Inside, Ctrl!TypeOK
<1>5. OwnNode'
  BY <1>1 DEF CtrlInv, OwnNode, Ctrl!TypeOK
<1>6. OneAction'
  BY <1>1 DEF CtrlInv, OneAction, ActionGuard, Inside, Ctrl!TypeOK
<1>7. IoctlEvent'
  BY <1>1 DEF CtrlInv, IoctlEvent, Ctrl!TypeOK
<1>8. AboutToTell'
  BY <1>1 DEF CtrlInv, AboutToTell, Ctrl!TypeOK
<1>9. Registration'
  BY <1>1 DEF CtrlInv, Registration, Ctrl!TypeOK
<1>10. DueIsRun'
  BY <1>1 DEF CtrlInv, DueIsRun, Ctrl!TypeOK
<1>11. Armed'
  BY <1>1 DEF CtrlInv, Armed, Ctrl!TypeOK
<1>12. Ctrl!SignalledIsTold'
  BY <1>1 DEF CtrlInv, Ctrl!SignalledIsTold, Ctrl!TypeOK
<1>13. QED
  BY <1>2, <1>3, <1>4, <1>5, <1>6, <1>7, <1>8, <1>9, <1>10, <1>11, <1>12 DEF CtrlInv

LEMMA KeptByWaitLater ==
    ASSUME Ctrl!SvcAssumption, Ctrl!BoundsAssumption, CtrlInv, NEW s \in Ctrl!Slots,
           NEW allocate \in BOOLEAN, NEW thr \in 0 .. MaxValue, npc[Svc] = "idle",
           NEW later \in {"slot", "poll"}, Ctrl!WaitLater(s, allocate, thr, later)
    PROVE  CtrlInv'
<1>1. /\ npc' = [npc EXCEPT ![Svc] = later] /\ npc' = [npc EXCEPT ![Svc] = npc'[Svc]]
      /\ npc'[Svc] \in {"slot", "poll"}
  BY DEF Ctrl!WaitLater, Ctrl!Goto, CtrlInv, Ctrl!TypeOK
<1>2. /\ UNCHANGED <<value, counterMax, actions, guard, newValue, handle, overtaken>>
      /\ counterMin' \in 0 .. value /\ target' \in 0 .. MaxValue
  BY CtrlTypes DEF Ctrl!WaitLater
<1>3. /\ slot' \in Ctrl!Slots
      /\ \/ UNCHANGED <<registered, kevent, status, fails, assigned>>
         \/ slot' \notin registered /\ Replaced(slot')
  <2>1. CASE allocate
    BY <2>1, EventFound DEF Ctrl!WaitLater
  <2>2. CASE ~allocate
    BY <2>2 DEF Ctrl!WaitLater
  <2>3. QED
    BY <2>1, <2>2
<1>4. CASE UNCHANGED <<registered, kevent, status, fails, assigned>>
  BY <1>1, <1>2, <1>3, <1>4, KeptByChoice
<1>5. CASE slot' \notin registered /\ Replaced(slot')
  <2>1. fails' \in [Ctrl!Slots -> 0 .. FailLimit + 1] /\ assigned' \subseteq Ctrl!Slots
    BY <1>3, <1>5, CtrlTypes DEF Replaced, CtrlInv, Ctrl!TypeOK
  <2>2. PICK e \in Ctrl!Slots : e = slot'
    BY <1>3
  <2>3. /\ e \notin registered /\ registered' = registered \cup {e} /\ kevent' = kevent \ {e}
        /\ status' = [status EXCEPT ![e] = "Available"]
    BY <1>5, <2>2 DEF Replaced
  <2>4. npc'[Svc] \in {"idle", "slot", "poll"}
    BY <1>1
  <2>5. QED
    BY <1>1, <1>2, <1>3, <2>1, <2>3, <2>4, KeptByReplace
<1>6. QED
  BY <1>3, <1>4, <1>5

LEMMA KeptByRegisterEvent ==
    ASSUME Ctrl!SvcAssumption, Ctrl!BoundsAssumption, CtrlInv, NEW s \in Ctrl!Slots,
           Ctrl!IocCtrlEventRegister(s)
    PROVE  CtrlInv'
<1> USE DEF Ctrl!IocCtrlEventRegister, Ctrl!Created, Ctrl!syncVars, Ctrl!threadVars
<1>1. /\ npc[Svc] = "idle" /\ (s \notin registered \/ ~Ctrl!IsBeingUsed(s))
      /\ registered' = registered \cup {s} /\ kevent' = kevent \ {s}
      /\ status' = [status EXCEPT ![s] = "Available"]
      /\ UNCHANGED <<value, counterMax, actions, guard, newValue, handle, overtaken>>
  OBVIOUS
<1>2. fails' \in [Ctrl!Slots -> 0 .. FailLimit + 1] /\ assigned' \subseteq Ctrl!Slots
  BY CtrlTypes DEF CtrlInv, Ctrl!TypeOK
<1>3. counterMin' \in 0 .. value /\ slot' \in Ctrl!Slots /\ target' \in 0 .. MaxValue
  BY DEF CtrlInv, Ctrl!TypeOK
<1>4. npc' = [npc EXCEPT ![Svc] = npc'[Svc]] /\ npc'[Svc] \in {"idle", "slot", "poll"}
  BY <1>1 DEF CtrlInv, Ctrl!TypeOK
<1>5. QED
  BY <1>1, <1>2, <1>3, <1>4, KeptByReplace

LEMMA KeptByUnregister ==
    ASSUME Ctrl!SvcAssumption, Ctrl!BoundsAssumption, CtrlInv, NEW s \in Ctrl!Slots,
           Ctrl!IocCtrlEventUnregister(s)
    PROVE  CtrlInv'
<1> USE DEF Ctrl!IocCtrlEventUnregister, Ctrl!Created, Ctrl!syncVars, Ctrl!threadVars
<1>1. /\ npc[Svc] = "idle" /\ (s \notin registered \/ ~Ctrl!IsBeingUsed(s))
      /\ registered' = registered \ {s} /\ kevent' = kevent \ {s}
      /\ status' = [status EXCEPT ![s] = "Available"]
      /\ UNCHANGED <<value, counterMax, actions, guard, newValue, handle, overtaken>>
  OBVIOUS
<1>2. fails' \in [Ctrl!Slots -> 0 .. FailLimit + 1] /\ assigned' \subseteq Ctrl!Slots
  BY CtrlTypes DEF CtrlInv, Ctrl!TypeOK
<1>3. counterMin' \in 0 .. value /\ slot' \in Ctrl!Slots /\ target' \in 0 .. MaxValue
  BY DEF CtrlInv, Ctrl!TypeOK
<1>4. npc' = [npc EXCEPT ![Svc] = npc'[Svc]] /\ npc'[Svc] \in {"idle", "slot", "poll"}
  BY <1>1 DEF CtrlInv, Ctrl!TypeOK
<1>5. QED
  BY <1>1, <1>2, <1>3, <1>4, KeptByReplace

\* A wait is cancelled.
LEMMA KeptByClearEventWait ==
    ASSUME Ctrl!SvcAssumption, Ctrl!BoundsAssumption, CtrlInv, NEW s \in Ctrl!Slots, Ctrl!IocCtrlClearEventWait(s)
    PROVE  CtrlInv'
<1> USE DEF Ctrl!IocCtrlClearEventWait, Ctrl!MarkCancelling, Ctrl!Goto, Ctrl!syncVars, Ctrl!threadVars, Ctrl!eventVars, Ctrl!SvcAssumption
<1>1. /\ npc[Svc] = "idle" /\ npc'[Svc] = IF status[s] = "Waiting" THEN "dereg" ELSE "cancelled"
      /\ \A u \in Incs : npc'[u] = npc[u]
      /\ npc' \in [Incs \cup {Svc} -> Ctrl!IncPCs \cup Ctrl!SvcPCs]
  BY DEF CtrlInv, Ctrl!TypeOK, Ctrl!SvcPCs
<1>2. status'[s] = "Cancelling" /\ slot' = s /\ \A u \in Ctrl!Slots : u # s => status'[u] = status[u]
  BY DEF CtrlInv, Ctrl!TypeOK
<1>3. overtaken \subseteq overtaken' /\ (status[s] = "Signalling" => s \in overtaken')
  OBVIOUS
<1>4. Ctrl!TypeOK'
  <2>1. value' \in 0 .. counterMax' /\ counterMin' \in 0 .. value' /\ counterMax' \in 0 .. MaxValue
    BY <1>1, <1>2, <1>3 DEF CtrlInv, Ctrl!TypeOK, Ctrl!BoundsAssumption
  <2>2. actions' \in Seq(Ctrl!Actions) /\ guard' \in Incs \cup {Svc, Ctrl!NoThread}
    BY <1>1, <1>2, <1>3 DEF CtrlInv, Ctrl!TypeOK
  <2>3. npc' \in [Incs \cup {Svc} -> Ctrl!IncPCs \cup Ctrl!SvcPCs]
    BY <1>1
  <2>4. npc'[Svc] \in Ctrl!SvcPCs /\ \A u \in Incs : npc'[u] \in Ctrl!IncPCs
    BY <1>1 DEF CtrlInv, Ctrl!TypeOK, Ctrl!SvcPCs
  <2>5. newValue' \in [Incs -> 0 .. MaxValue] /\ slot' \in Ctrl!Slots /\ target' \in 0 .. MaxValue
    BY <1>1, <1>2, <1>3 DEF CtrlInv, Ctrl!TypeOK, Ctrl!BoundsAssumption
  <2>6. status' \in [Ctrl!Slots -> {"Available", "Waiting", "Cancelling", "Signalling",
                                   "Signalled", "Cancelled"}]
    BY <1>1, <1>2, <1>3 DEF CtrlInv, Ctrl!TypeOK
  <2>7. /\ registered' \subseteq Ctrl!Slots /\ kevent' \subseteq registered'
        /\ assigned' \subseteq Ctrl!Slots /\ overtaken' \subseteq Ctrl!Slots
    BY <1>1, <1>2, <1>3 DEF CtrlInv, Ctrl!TypeOK
  <2>8. fails' \in [Ctrl!Slots -> 0 .. FailLimit + 1] /\ handle' \in [Ctrl!Slots -> Ctrl!Nodes \cup {0}]
    BY <1>1, <1>2, <1>3 DEF CtrlInv, Ctrl!TypeOK, Ctrl!BoundsAssumption
  <2>9. QED
    BY <2>1, <2>2, <2>3, <2>4, <2>5, <2>6, <2>7, <2>8 DEF Ctrl!TypeOK
<1>5. InOrder(actions)'
  BY <1>1, <1>2, <1>3 DEF CtrlInv
<1>6. ActionGuard'
  BY <1>1, <1>2, <1>3 DEF CtrlInv, ActionGuard, Inside, Ctrl!TypeOK
<1>7. OwnNode'
  <2>1. CASE status[s] = "Waiting"
    <3>1. PICK b \in ToSet(actions) : b.slot = s /\ b.node = handle[s]
      BY <1>1, <2>1 DEF CtrlInv, Armed
    <3>2. \A a \in ToSet(actions) : a.node = handle[s] => a = b
      BY <3>1, CtrlTypes
    <3>3. QED
      BY <1>1, <1>2, <3>1, <3>2 DEF OwnNode
  <2>2. CASE status[s] # "Waiting"
    BY <1>1, <2>2 DEF OwnNode
  <2>3. QED
    BY <2>1, <2>2
<1>8. OneAction'
  <2>1. ASSUME NEW a \in ToSet(actions), a.slot \notin overtaken'
        PROVE  /\ a.node = handle[a.slot] /\ a.slot \in Ctrl!Slots
               /\ \/ status[a.slot] = "Waiting"
                  \/ /\ status[a.slot] = "Signalling" /\ a = Head(actions)
                     /\ \E t \in Incs : npc[t] \in {"signal", "store"}
    BY <1>1, <1>3, <2>1, CtrlTypes DEF CtrlInv, OneAction
  <2>2. ASSUME NEW a \in ToSet(actions), a.slot \notin overtaken', a.slot = s
        PROVE  npc'[Svc] = "dereg"
    BY <1>1, <1>3, <2>1, <2>2
  <2>3. QED
    BY <1>1, <1>2, <2>1, <2>2 DEF OneAction
<1>9. IoctlEvent'
  BY <1>1 DEF IoctlEvent
<1>10. AboutToTell'
  BY <1>1, <1>3 DEF CtrlInv, AboutToTell
<1>11. Registration'
  BY <1>2, <1>3 DEF CtrlInv, Registration
<1>12. DueIsRun'
  BY <1>1, <1>2, <1>3 DEF CtrlInv, DueIsRun, Ctrl!TypeOK
<1>13. Armed'
  BY <1>1, <1>2 DEF CtrlInv, Armed
<1>14. Ctrl!SignalledIsTold'
  BY <1>1, <1>2, <1>3 DEF CtrlInv, Ctrl!SignalledIsTold
<1>15. QED
  BY <1>4, <1>5, <1>6, <1>7, <1>8, <1>9, <1>10, <1>11, <1>12, <1>13, <1>14 DEF CtrlInv

\* Its action is erased.
LEMMA KeptByDeregister ==
    ASSUME Ctrl!SvcAssumption, Ctrl!BoundsAssumption, CtrlInv, Ctrl!DeregisterHostAction
    PROVE  CtrlInv'
<1> USE DEF Ctrl!DeregisterHostAction, Ctrl!Goto, Ctrl!syncVars, Ctrl!threadVars, Ctrl!eventVars, Ctrl!SvcAssumption
<1>1. /\ npc[Svc] = "dereg" /\ npc'[Svc] = "cancelled" /\ \A u \in Incs : npc'[u] = npc[u]
      /\ npc' \in [Incs \cup {Svc} -> Ctrl!IncPCs \cup Ctrl!SvcPCs]
  BY DEF CtrlInv, Ctrl!TypeOK, Ctrl!SvcPCs
<1>2. /\ actions' \in Seq(Ctrl!Actions) /\ InOrder(actions')
      /\ \A a : a \in ToSet(actions') <=> a \in ToSet(actions) /\ a.node # handle[slot]
  <2>1. actions' = Without(actions, handle[slot])
    BY SameOperators DEF Without
  <2>2. actions \in Seq(Ctrl!Actions) /\ InOrder(actions)
    BY CtrlTypes
  <2>3. QED
    BY <2>1, <2>2, Erased
<1>3. /\ handle' \in [Ctrl!Slots -> Ctrl!Nodes \cup {0}]
      /\ \A s \in Ctrl!Slots : s # slot => handle'[s] = handle[s]
  BY DEF CtrlInv, Ctrl!TypeOK
<1>4. \A u \in Incs : ~Inside(u)
  BY DEF CtrlInv, ActionGuard
<1>5. status' = status /\ registered' = registered /\ kevent' = kevent /\ overtaken' = overtaken
      /\ guard' = guard /\ guard = Ctrl!NoThread /\ value' = value /\ newValue' = newValue
      /\ slot' = slot
  OBVIOUS
<1>6. Ctrl!TypeOK'
  <2>1. value' \in 0 .. counterMax' /\ counterMin' \in 0 .. value' /\ counterMax' \in 0 .. MaxValue
    BY DEF CtrlInv, Ctrl!TypeOK
  <2>2. actions' \in Seq(Ctrl!Actions) /\ guard' \in Incs \cup {Svc, Ctrl!NoThread}
    BY <1>2, <1>5 DEF CtrlInv, Ctrl!TypeOK
  <2>3. npc' \in [Incs \cup {Svc} -> Ctrl!IncPCs \cup Ctrl!SvcPCs]
    BY <1>1
  <2>4. npc'[Svc] \in Ctrl!SvcPCs /\ \A u \in Incs : npc'[u] \in Ctrl!IncPCs
    BY <1>1 DEF CtrlInv, Ctrl!TypeOK, Ctrl!SvcPCs
  <2>5. newValue' \in [Incs -> 0 .. MaxValue] /\ slot' \in Ctrl!Slots /\ target' \in 0 .. MaxValue
    BY DEF CtrlInv, Ctrl!TypeOK
  <2>6. status' \in [Ctrl!Slots -> {"Available", "Waiting", "Cancelling", "Signalling",
                                   "Signalled", "Cancelled"}]
    BY DEF CtrlInv, Ctrl!TypeOK
  <2>7. /\ registered' \subseteq Ctrl!Slots /\ kevent' \subseteq registered'
        /\ assigned' \subseteq Ctrl!Slots /\ overtaken' \subseteq Ctrl!Slots
    BY DEF CtrlInv, Ctrl!TypeOK
  <2>8. fails' \in [Ctrl!Slots -> 0 .. FailLimit + 1] /\ handle' \in [Ctrl!Slots -> Ctrl!Nodes \cup {0}]
    BY <1>3 DEF CtrlInv, Ctrl!TypeOK
  <2>9. QED
    BY <2>1, <2>2, <2>3, <2>4, <2>5, <2>6, <2>7, <2>8 DEF Ctrl!TypeOK
<1>7. InOrder(actions)'
  BY <1>2
<1>8. ActionGuard'
  BY <1>1, <1>4, <1>5 DEF ActionGuard, Inside
<1>9. OwnNode'
  BY <1>1 DEF OwnNode
<1>10. OneAction'
  <2>1. ASSUME NEW a \in ToSet(actions'), a.slot \notin overtaken
        PROVE  /\ a.slot # slot /\ handle'[a.slot] = handle[a.slot] /\ a.node = handle[a.slot]
               /\ status[a.slot] = "Waiting"
    <3>1. a \in ToSet(actions) /\ a.node # handle[slot]
      BY <1>2
    <3>2. a.node = handle[a.slot] /\ a.slot \in Ctrl!Slots
      BY <2>1, <3>1, CtrlTypes DEF CtrlInv, OneAction
    <3>3. a.slot # slot
      BY <3>1, <3>2
    <3>4. status[a.slot] = "Waiting"
      BY <1>4, <2>1, <3>1, <3>3 DEF CtrlInv, OneAction, Inside
    <3>5. QED
      BY <1>3, <3>2, <3>3, <3>4
  <2>2. QED
    BY <1>1, <1>5, <2>1 DEF OneAction
<1>11. IoctlEvent'
  BY <1>1 DEF IoctlEvent
<1>12. AboutToTell'
  BY <1>1, <1>4 DEF AboutToTell, Inside
<1>13. Registration'
  BY <1>1, <1>5 DEF CtrlInv, Registration
<1>14. DueIsRun'
  BY <1>1, <1>2, <1>5 DEF CtrlInv, DueIsRun
<1>15. Armed'
  <2>1. ASSUME NEW s \in Ctrl!Slots, status[s] = "Waiting"
        PROVE  \E a \in ToSet(actions') : a.slot = s /\ a.node = handle'[s]
    <3>1. status[slot] # "Waiting" /\ \A a \in ToSet(actions) : a.node = handle[slot] => a.slot = slot
      BY <1>1 DEF CtrlInv, OwnNode
    <3>2. PICK a \in ToSet(actions) : a.slot = s /\ a.node = handle[s]
      BY <1>1, <2>1 DEF CtrlInv, Armed
    <3>3. s # slot
      BY <2>1, <3>1
    <3>4. a \in ToSet(actions') /\ handle'[s] = handle[s]
      BY <1>2, <1>3, <3>1, <3>2, <3>3
    <3>5. QED
      BY <3>2, <3>4
  <2>2. QED
    BY <1>5, <2>1 DEF Armed
<1>16. Ctrl!SignalledIsTold'
  BY <1>1, <1>5 DEF CtrlInv, Ctrl!SignalledIsTold
<1>17. QED
  BY <1>6, <1>7, <1>8, <1>9, <1>10, <1>11, <1>12, <1>13, <1>14, <1>15, <1>16 DEF CtrlInv

\* Its event is marked.
LEMMA KeptByStoreCancelled ==
    ASSUME Ctrl!SvcAssumption, Ctrl!BoundsAssumption, CtrlInv, Ctrl!StoreCancelled
    PROVE  CtrlInv'
<1> USE DEF Ctrl!StoreCancelled, Ctrl!Goto, Ctrl!syncVars, Ctrl!threadVars, Ctrl!eventVars, Ctrl!SvcAssumption
<1>1. /\ npc[Svc] = "cancelled" /\ npc'[Svc] = "clear" /\ \A u \in Incs : npc'[u] = npc[u]
      /\ npc' \in [Incs \cup {Svc} -> Ctrl!IncPCs \cup Ctrl!SvcPCs]
  BY DEF CtrlInv, Ctrl!TypeOK, Ctrl!SvcPCs
<1>2. status'[slot] = "Cancelled" /\ \A u \in Ctrl!Slots : u # slot => status'[u] = status[u]
  BY DEF CtrlInv, Ctrl!TypeOK
<1>3. \A a \in ToSet(actions) : a.slot \notin overtaken => a.slot # slot /\ status'[a.slot] = status[a.slot]
  BY <1>1, <1>2, CtrlTypes DEF CtrlInv, OneAction
<1>4. Ctrl!TypeOK'
  <2>1. value' \in 0 .. counterMax' /\ counterMin' \in 0 .. value' /\ counterMax' \in 0 .. MaxValue
    BY <1>1, <1>2, <1>3 DEF CtrlInv, Ctrl!TypeOK, Ctrl!BoundsAssumption
  <2>2. actions' \in Seq(Ctrl!Actions) /\ guard' \in Incs \cup {Svc, Ctrl!NoThread}
    BY <1>1, <1>2, <1>3 DEF CtrlInv, Ctrl!TypeOK
  <2>3. npc' \in [Incs \cup {Svc} -> Ctrl!IncPCs \cup Ctrl!SvcPCs]
    BY <1>1
  <2>4. npc'[Svc] \in Ctrl!SvcPCs /\ \A u \in Incs : npc'[u] \in Ctrl!IncPCs
    BY <1>1 DEF CtrlInv, Ctrl!TypeOK, Ctrl!SvcPCs
  <2>5. newValue' \in [Incs -> 0 .. MaxValue] /\ slot' \in Ctrl!Slots /\ target' \in 0 .. MaxValue
    BY <1>1, <1>2, <1>3 DEF CtrlInv, Ctrl!TypeOK, Ctrl!BoundsAssumption
  <2>6. status' \in [Ctrl!Slots -> {"Available", "Waiting", "Cancelling", "Signalling",
                                   "Signalled", "Cancelled"}]
    BY <1>1, <1>2, <1>3 DEF CtrlInv, Ctrl!TypeOK
  <2>7. /\ registered' \subseteq Ctrl!Slots /\ kevent' \subseteq registered'
        /\ assigned' \subseteq Ctrl!Slots /\ overtaken' \subseteq Ctrl!Slots
    BY <1>1, <1>2, <1>3 DEF CtrlInv, Ctrl!TypeOK
  <2>8. fails' \in [Ctrl!Slots -> 0 .. FailLimit + 1] /\ handle' \in [Ctrl!Slots -> Ctrl!Nodes \cup {0}]
    <3>1. fails[slot] \in 0 .. FailLimit + 1 /\ FailLimit \in Nat
      BY DEF CtrlInv, Ctrl!TypeOK, Ctrl!BoundsAssumption
    <3>2. (IF fails[slot] > FailLimit THEN fails[slot] ELSE fails[slot] + 1) \in 0 .. FailLimit + 1
      BY <3>1
    <3>3. QED
      BY <3>2 DEF CtrlInv, Ctrl!TypeOK
  <2>9. QED
    BY <2>1, <2>2, <2>3, <2>4, <2>5, <2>6, <2>7, <2>8 DEF Ctrl!TypeOK
<1>5. InOrder(actions)'
  BY <1>1, <1>2, <1>3 DEF CtrlInv
<1>6. ActionGuard'
  BY <1>1, <1>2, <1>3 DEF CtrlInv, ActionGuard, Inside, Ctrl!TypeOK
<1>7. OwnNode'
  BY <1>1, <1>2, <1>3 DEF CtrlInv, OwnNode, Ctrl!TypeOK
<1>8. OneAction'
  BY <1>1, <1>3 DEF CtrlInv, OneAction
<1>9. IoctlEvent'
  BY <1>1, <1>2 DEF IoctlEvent
<1>10. AboutToTell'
  BY <1>1 DEF CtrlInv, AboutToTell
<1>11. Registration'
  BY <1>1, <1>2 DEF CtrlInv, Registration, Ctrl!TypeOK
<1>12. DueIsRun'
  BY <1>1, <1>2, <1>3 DEF CtrlInv, DueIsRun, Ctrl!TypeOK
<1>13. Armed'
  BY <1>1, <1>2 DEF CtrlInv, Armed
<1>14. Ctrl!SignalledIsTold'
  BY <1>1, <1>2 DEF CtrlInv, Ctrl!SignalledIsTold, Ctrl!TypeOK
<1>15. QED
  BY <1>4, <1>5, <1>6, <1>7, <1>8, <1>9, <1>10, <1>11, <1>12, <1>13, <1>14 DEF CtrlInv

\* Its event is cleared.
LEMMA KeptByClear ==
    ASSUME Ctrl!SvcAssumption, Ctrl!BoundsAssumption, CtrlInv, Ctrl!ClearEvent
    PROVE  CtrlInv'
<1> USE DEF Ctrl!ClearEvent, Ctrl!Return, Ctrl!Goto, Ctrl!syncVars, Ctrl!threadVars, Ctrl!eventVars, Ctrl!SvcAssumption
<1>1. /\ npc[Svc] = "clear" /\ npc'[Svc] = "idle" /\ \A u \in Incs : npc'[u] = npc[u]
      /\ npc' \in [Incs \cup {Svc} -> Ctrl!IncPCs \cup Ctrl!SvcPCs]
  BY DEF CtrlInv, Ctrl!TypeOK, Ctrl!SvcPCs
<1>2. Ctrl!TypeOK'
  <2>1. value' \in 0 .. counterMax' /\ counterMin' \in 0 .. value' /\ counterMax' \in 0 .. MaxValue
    BY <1>1 DEF CtrlInv, Ctrl!TypeOK, Ctrl!BoundsAssumption
  <2>2. actions' \in Seq(Ctrl!Actions) /\ guard' \in Incs \cup {Svc, Ctrl!NoThread}
    BY <1>1 DEF CtrlInv, Ctrl!TypeOK
  <2>3. npc' \in [Incs \cup {Svc} -> Ctrl!IncPCs \cup Ctrl!SvcPCs]
    BY <1>1
  <2>4. npc'[Svc] \in Ctrl!SvcPCs /\ \A u \in Incs : npc'[u] \in Ctrl!IncPCs
    BY <1>1 DEF CtrlInv, Ctrl!TypeOK, Ctrl!SvcPCs
  <2>5. newValue' \in [Incs -> 0 .. MaxValue] /\ slot' \in Ctrl!Slots /\ target' \in 0 .. MaxValue
    BY CtrlTypes DEF CtrlInv, Ctrl!TypeOK
  <2>6. status' \in [Ctrl!Slots -> {"Available", "Waiting", "Cancelling", "Signalling",
                                   "Signalled", "Cancelled"}]
    BY <1>1 DEF CtrlInv, Ctrl!TypeOK
  <2>7. /\ registered' \subseteq Ctrl!Slots /\ kevent' \subseteq registered'
        /\ assigned' \subseteq Ctrl!Slots /\ overtaken' \subseteq Ctrl!Slots
    BY <1>1 DEF CtrlInv, Ctrl!TypeOK
  <2>8. fails' \in [Ctrl!Slots -> 0 .. FailLimit + 1] /\ handle' \in [Ctrl!Slots -> Ctrl!Nodes \cup {0}]
    BY <1>1 DEF CtrlInv, Ctrl!TypeOK, Ctrl!BoundsAssumption
  <2>9. QED
    BY <2>1, <2>2, <2>3, <2>4, <2>5, <2>6, <2>7, <2>8 DEF Ctrl!TypeOK
<1>3. InOrder(actions)'
  BY <1>1 DEF CtrlInv
<1>4. ActionGuard'
  BY <1>1 DEF CtrlInv, ActionGuard, Inside, Ctrl!TypeOK
<1>5. OwnNode'
  BY <1>1 DEF CtrlInv, OwnNode, Ctrl!TypeOK
<1>6. OneAction'
  BY <1>1 DEF CtrlInv, OneAction
<1>7. IoctlEvent'
  BY <1>1 DEF CtrlInv, IoctlEvent, Ctrl!TypeOK
<1>8. AboutToTell'
  <2>1. ASSUME NEW t \in Incs, npc[t] = "store", Head(actions).slot \in registered \ overtaken
        PROVE  Head(actions).slot \in kevent'
    <3>1. actions # <<>> /\ Head(actions) \in ToSet(actions)
      BY <2>1, Running DEF CtrlInv, ActionGuard, Inside
    <3>2. Head(actions).slot # slot
      BY <1>1, <2>1, <3>1 DEF CtrlInv, OneAction
    <3>3. QED
      BY <1>1, <2>1, <3>2 DEF CtrlInv, AboutToTell
  <2>2. QED
    BY <1>1, <2>1 DEF AboutToTell
<1>9. Registration'
  BY <1>1 DEF CtrlInv, Registration
<1>10. DueIsRun'
  BY <1>1 DEF CtrlInv, DueIsRun, Ctrl!TypeOK
<1>11. Armed'
  BY <1>1 DEF CtrlInv, Armed, Ctrl!TypeOK
<1>12. Ctrl!SignalledIsTold'
  <2>1. slot \notin overtaken => status[slot] = "Cancelled"
    BY <1>1 DEF CtrlInv, IoctlEvent
  <2>2. QED
    BY <1>1, <2>1 DEF CtrlInv, Ctrl!SignalledIsTold
<1>13. QED
  BY <1>2, <1>3, <1>4, <1>5, <1>6, <1>7, <1>8, <1>9, <1>10, <1>11, <1>12 DEF CtrlInv

LEMMA InitCtrl ==
    ASSUME Ctrl!SvcAssumption, Ctrl!BoundsAssumption, Ctrl!Init
    PROVE  CtrlInv
<1>1. /\ 0 \in Ctrl!Slots /\ 0 \in 0 .. 0 /\ 0 \in 0 .. MaxValue /\ 0 \in 0 .. FailLimit + 1
      /\ \A a : a \notin ToSet(actions)
  <2>1. 0 \in Ctrl!Slots /\ 0 \in 0 .. 0 /\ 0 \in 0 .. MaxValue /\ 0 \in 0 .. FailLimit + 1
    BY DEF Ctrl!BoundsAssumption, Ctrl!Slots
  <2>2. actions = <<>> /\ actions \in Seq(Ctrl!Actions)
    BY EmptySeq DEF Ctrl!Init
  <2>3. \A a : a \notin ToSet(actions)
    BY <2>2, NotEmpty
  <2>4. QED
    BY <2>1, <2>3
<1>2. \A t \in Incs \cup {Svc} : npc[t] = "idle"
  BY DEF Ctrl!Init
<1>3. Ctrl!TypeOK
  <2>1. actions \in Seq(Ctrl!Actions)
    BY EmptySeq DEF Ctrl!Init
  <2>2. /\ value \in 0 .. counterMax /\ counterMin \in 0 .. value /\ counterMax \in 0 .. MaxValue
        /\ newValue \in [Incs -> 0 .. MaxValue] /\ slot \in Ctrl!Slots /\ target \in 0 .. MaxValue
        /\ fails \in [Ctrl!Slots -> 0 .. FailLimit + 1]
        /\ handle \in [Ctrl!Slots -> Ctrl!Nodes \cup {0}]
    BY <1>1 DEF Ctrl!Init
  <2>3. /\ npc \in [Incs \cup {Svc} -> Ctrl!IncPCs \cup Ctrl!SvcPCs]
        /\ npc[Svc] \in Ctrl!SvcPCs /\ \A t \in Incs : npc[t] \in Ctrl!IncPCs
    BY DEF Ctrl!Init, Ctrl!IncPCs, Ctrl!SvcPCs
  <2>4. QED
    BY <2>1, <2>2, <2>3 DEF Ctrl!Init, Ctrl!TypeOK
<1>4. InOrder(actions) /\ ActionGuard
  <2>1. InOrder(actions)
    BY EmptySeq DEF Ctrl!Init, InOrder
  <2>2. ActionGuard
    BY <1>2 DEF Ctrl!Init, Ctrl!SvcAssumption, ActionGuard, Inside
  <2>3. QED
    BY <2>1, <2>2
<1>5. OwnNode /\ OneAction /\ IoctlEvent /\ AboutToTell
  BY <1>1, <1>2 DEF OwnNode, OneAction, IoctlEvent, AboutToTell
<1>6. Registration /\ DueIsRun /\ Armed /\ Ctrl!SignalledIsTold
  BY <1>1, <1>2 DEF Ctrl!Init, Registration, DueIsRun, Armed, Ctrl!SignalledIsTold
<1>7. QED
  BY <1>3, <1>4, <1>5, <1>6 DEF CtrlInv

\* Every step keeps it.
LEMMA StepCtrl ==
    ASSUME Ctrl!SvcAssumption, Ctrl!BoundsAssumption, CtrlInv, Ctrl!Next
    PROVE  CtrlInv'
<1>1. CASE Ctrl!IncrementSyncpointMaxExt
  BY <1>1, KeptByMax
<1>2. ASSUME NEW t \in Incs, Ctrl!FetchAdd(t) PROVE CtrlInv'
  BY <1>2, KeptByFetchAdd
<1>3. ASSUME NEW t \in Incs, Ctrl!IncStep(t) PROVE CtrlInv'
  <2>1. CASE Ctrl!Increment(t)
    BY <2>1, KeptByIncrement
  <2>2. CASE Ctrl!Exchange(t)
    BY <2>2, KeptByExchange
  <2>3. CASE Ctrl!Signal(t)
    BY <2>3, KeptBySignal
  <2>4. CASE Ctrl!Store(t)
    BY <2>4, KeptByStore
  <2>5. QED
    BY <1>3, <2>1, <2>2, <2>3, <2>4 DEF Ctrl!IncStep
<1>4. CASE Ctrl!SvcStep
  <2>1. CASE Ctrl!CheckEvent
    BY <2>1, KeptByCheckEvent
  <2>2. CASE Ctrl!RegisterAction
    BY <2>2, KeptByRegisterAction
  <2>3. CASE Ctrl!RegisterLocked
    BY <2>3, KeptByRegisterEarly, KeptByRegisterLate
  <2>4. CASE Ctrl!WaitHost
    BY <2>4, KeptByWaitHost
  <2>5. CASE Ctrl!Exchange(Svc)
    BY <2>5, KeptByExchangeAtOnce
  <2>6. CASE Ctrl!Signal(Svc)
    BY <2>6, KeptBySignalAtOnce
  <2>7. CASE Ctrl!StoreAtOnce
    BY <2>7, KeptByStoreAtOnce
  <2>8. CASE Ctrl!DeregisterHostAction
    BY <2>8, KeptByDeregister
  <2>9. CASE Ctrl!StoreCancelled
    BY <2>9, KeptByStoreCancelled
  <2>10. CASE Ctrl!ClearEvent
    BY <2>10, KeptByClear
  <2>11. QED
    BY <1>4, <2>1, <2>2, <2>3, <2>4, <2>5, <2>6, <2>7, <2>8, <2>9, <2>10 DEF Ctrl!SvcStep
<1>5. ASSUME NEW s \in Ctrl!Slots, NEW allocate \in BOOLEAN, NEW thr \in 0 .. MaxValue,
             Ctrl!IocCtrlEventWait(s, allocate, thr)
      PROVE  CtrlInv'
  <2>1. npc[Svc] = "idle"
    BY <1>5 DEF Ctrl!IocCtrlEventWait
  <2>2. CASE Ctrl!WaitReached(s, allocate, thr)
    BY <2>1, <2>2, KeptByWaitReached
  <2>3. ASSUME NEW later \in {"slot", "poll"}, Ctrl!WaitLater(s, allocate, thr, later)
        PROVE  CtrlInv'
    BY <2>1, <2>3, KeptByWaitLater
  <2>4. QED
    BY <1>5, <2>2, <2>3 DEF Ctrl!IocCtrlEventWait
<1>6. ASSUME NEW s \in Ctrl!Slots,
             \/ Ctrl!IocCtrlClearEventWait(s)
             \/ Ctrl!IocCtrlEventRegister(s)
             \/ Ctrl!IocCtrlEventUnregister(s)
      PROVE  CtrlInv'
  BY <1>6, KeptByClearEventWait, KeptByRegisterEvent, KeptByUnregister
<1>7. QED
  BY <1>1, <1>2, <1>3, <1>4, <1>5, <1>6 DEF Ctrl!Next, Ctrl!Ioctl

LEMMA RestCtrl ==
    ASSUME CtrlInv, UNCHANGED ctrlVars
    PROVE  CtrlInv'
<1> USE DEF ctrlVars
<1>1. Ctrl!TypeOK' /\ InOrder(actions)' /\ ActionGuard' /\ OwnNode' /\ OneAction'
  BY DEF CtrlInv, Ctrl!TypeOK, ActionGuard, Inside, OwnNode, OneAction
<1>2. IoctlEvent' /\ AboutToTell' /\ Registration' /\ DueIsRun' /\ Armed' /\ Ctrl!SignalledIsTold'
  BY DEF CtrlInv, IoctlEvent, AboutToTell, Registration, DueIsRun, Armed, Ctrl!SignalledIsTold
<1>3. QED
  BY <1>1, <1>2 DEF CtrlInv

\* With any number of threads that increment, of events and of values: no action whose value
\* the syncpoint has reached is missed, an event that says Waiting has its own action in the
\* list, and one that says Signalled has told its waiter unless it was cancelled in the middle
\* of a signal (Increment, RegisterAction, DeregisterHostAction, IocCtrlEventWait,
\* IocCtrlClearEventWait).
THEOREM SyncpointsAreSound ==
    ASSUME Ctrl!SvcAssumption, Ctrl!BoundsAssumption
    PROVE  GpuSpec => []SyncpointInvariant
<1> DEFINE Guarded == explored = "Ctrl" => CtrlInv
<1>1. GpuInit => Guarded
  BY InitCtrl DEF GpuInit
<1>2. Guarded /\ [GpuNext]_allVars => Guarded'
  <2> SUFFICES ASSUME Guarded, [GpuNext]_allVars, explored' = "Ctrl" PROVE CtrlInv'
    OBVIOUS
  <2>1. explored = "Ctrl" /\ CtrlInv
    BY DEF GpuNext, allVars
  <2>2. Ctrl!Next \/ UNCHANGED ctrlVars
    BY <2>1 DEF GpuNext, allVars
  <2>3. QED
    BY <2>1, <2>2, StepCtrl, RestCtrl
<1>3. Guarded => SyncpointInvariant
  <2> SUFFICES ASSUME CtrlInv
               PROVE  Ctrl!TypeOK /\ Ctrl!NoMissedAction /\ Ctrl!WaitingIsArmed /\ Ctrl!SignalledIsTold
    BY DEF SyncpointInvariant
  <2>1. /\ actions \in Seq(Ctrl!Actions) /\ DOMAIN actions = 1 .. Len(actions)
        /\ \A a : a \in ToSet(actions) <=> \E i \in 1 .. Len(actions) : actions[i] = a
    BY LenProperties, Members DEF CtrlInv, Ctrl!TypeOK
  <2>2. Ctrl!NoMissedAction
    BY <2>1 DEF CtrlInv, DueIsRun, Ctrl!NoMissedAction
  <2>3. Ctrl!WaitingIsArmed
    BY <2>1 DEF CtrlInv, Armed, Ctrl!WaitingIsArmed
  <2>4. QED
    BY <2>2, <2>3 DEF CtrlInv
<1>4. QED
  BY <1>1, <1>2, <1>3, PTL DEF GpuSpec
-----------------------------------------------------------------------------
(***************************************************************************)
(* The GPU thread and its clients.                                         *)
(***************************************************************************)

ClientPCs == {"idle", "request", "push", "emplace", "block", "sleepy", "blocked", "wait",
              "drowsy", "waiting"}
ThreadPCs == {"pop", "execute", "tick", "run", "count", "notify", "store", "unblock"}
FenceLists == UNION {[1 .. n -> AwaitedValues] : n \in AwaitedCounts}

\* What a client asks for, and the commands for it.
CmdOps ==
    {[kind |-> "none"], [kind |-> "submit"], [kind |-> "flush"]}
    \cup {[kind |-> "composite", fences |-> f, counter |-> c] : f \in FenceLists, c \in Nat}
Orders(A) == [kind : {"submit", "tick"}, fence : Nat \ {0}, block : {~A}]
Room(A) == IF A THEN AsyncCapacity ELSE SyncCapacity

CmdTypes ==
    /\ writeLock \in GpuClients \cup {"none"} /\ request \in GpuClients \cup {"none"}
    /\ lastFence \in Nat /\ signaledFence \in Nat /\ signaledFence <= lastFence
    /\ lastSyncFence \in Nat /\ currentSyncFence \in Nat
    /\ cpc \in [GpuClients -> ClientPCs] /\ op \in [GpuClients -> CmdOps]
    /\ fence \in [GpuClients -> Nat] /\ syncFence \in [GpuClients -> Nat]
    /\ \A t \in GpuClients : fence[t] <= lastFence /\ syncFence[t] <= lastSyncFence
    /\ gpc \in ThreadPCs

\* The commands in the queue and the one executed have fences that were given out.
CommandsOK(A) ==
    /\ queue \in Seq(Orders(A)) /\ Len(queue) <= Room(A)
    /\ \A i \in 1 .. Len(queue) : queue[i].fence <= lastFence
    /\ gpc # "pop" => command \in Orders(A) /\ command.fence <= lastFence

\* Where a client is tells what it asks for and whether it has the lock.
PlaceOK(A) ==
    \A t \in GpuClients :
        /\ cpc[t] \in {"emplace", "sleepy"} => writeLock = t
        /\ A => cpc[t] \notin {"block", "sleepy", "blocked"}
        /\ cpc[t] = "emplace" => fence[t] # 0
        /\ cpc[t] = "idle" <=> op[t].kind = "none"
        /\ op[t].kind = "submit" => cpc[t] \notin {"request", "wait", "drowsy", "waiting"}

\* Requests are counted when they are made and when they have been run; those between are
\* in the list, in order, or with the GPU thread, and their callers are in the call.
InHand == IF gpc \in {"run", "count"} THEN 1 ELSE 0

RequestsOK ==
    /\ syncRequests \in Seq(GpuClients)
    /\ lastSyncFence = currentSyncFence + InHand + Len(syncRequests)
    /\ \A i \in 1 .. Len(syncRequests) :
           syncFence[syncRequests[i]] = lastSyncFence - Len(syncRequests) + i
    /\ gpc = "run" => request \in GpuClients /\ syncFence[request] = currentSyncFence + 1
    /\ \A t \in GpuClients :
           syncFence[t] = 0 <=> cpc[t] \in {"idle", "request"} \/ op[t].kind = "submit"

\* The tick for the requests of the list is on its way.
TickOK ==
    syncRequests # <<>> =>
        \/ gpc \in {"tick", "run", "count", "notify"}
        \/ \E i \in 1 .. Len(queue) : queue[i].kind = "tick"
        \/ \E t \in GpuClients : cpc[t] \in {"push", "emplace"} /\ op[t].kind # "submit"

\* A client that sleeps, or has looked and is about to, will be woken.
WakeOK ==
    \A t \in GpuClients :
        /\ cpc[t] \in {"drowsy", "waiting"} /\ currentSyncFence >= syncFence[t] => gpc = "notify"
        /\ cpc[t] \in {"sleepy", "blocked"} /\ fence[t] <= signaledFence => gpc = "unblock"

\* A composition that was not run has a counter to itself; after that the counter counts
\* the actions left at the guest syncpoint.
Requested == {syncRequests[i] : i \in 1 .. Len(syncRequests)}
NotYetRun(t) ==
    /\ op[t].kind = "composite"
    /\ cpc[t] = "request" \/ t \in Requested \/ (gpc = "run" /\ request = t)
Left(c) == {a \in guestActions : a.counter = c}

SwapOK ==
    /\ swapCounters \in Seq(Nat) /\ freeSwapCounters \subseteq 1 .. Len(swapCounters)
    /\ IsFiniteSet(guestActions)
    /\ \A a \in guestActions : a.counter \in 1 .. Len(swapCounters)
    /\ \A t \in GpuClients : NotYetRun(t) =>
           /\ op[t].counter \in 1 .. Len(swapCounters)
           /\ op[t].counter \notin freeSwapCounters
           /\ \A a \in guestActions : a.counter # op[t].counter
           /\ swapCounters[op[t].counter] = Len(op[t].fences)
    /\ \A t, u \in GpuClients :
           NotYetRun(t) /\ NotYetRun(u) /\ op[t].counter = op[u].counter => t = u
    /\ \A c \in 1 .. Len(swapCounters) :
           (\A t \in GpuClients : NotYetRun(t) => op[t].counter # c) =>
               swapCounters[c] = Cardinality(Left(c))
    /\ \A c \in freeSwapCounters : Left(c) = {}

CmdInv(A) ==
    CmdTypes /\ CommandsOK(A) /\ PlaceOK(A) /\ RequestsOK /\ TickOK /\ WakeOK /\ SwapOK

\* The kinds of what clients ask for, of whom "none" is none.
LEMMA OpKinds ==
    ASSUME NEW A \in BOOLEAN
    PROVE  /\ "none" \notin GpuClients /\ Commands(A)!NoClient = "none"
           /\ \A o \in CmdOps :
                  /\ o.kind \in {"none", "submit", "flush", "composite"}
                  /\ o = Commands(A)!NoOp <=> o.kind = "none"
                  /\ o = Commands(A)!Submit <=> o.kind = "submit"
                  /\ o = Commands(A)!Flush <=> o.kind = "flush"
                  /\ o.kind = "composite" => /\ o.counter \in Nat /\ o.fences \in FenceLists
                                             /\ o = Commands(A)!Composite(o.fences, o.counter)
<1>1. "none" \notin GpuClients /\ Commands(A)!NoClient = "none"
  BY CommandsAssumption DEF Commands!ClientsAssumption, Commands!NoClient
<1>2. ASSUME NEW o \in CmdOps
      PROVE  /\ o.kind \in {"none", "submit", "flush", "composite"}
             /\ o = Commands(A)!NoOp <=> o.kind = "none"
             /\ o = Commands(A)!Submit <=> o.kind = "submit"
             /\ o = Commands(A)!Flush <=> o.kind = "flush"
             /\ o.kind = "composite" => /\ o.counter \in Nat /\ o.fences \in FenceLists
                                        /\ o = Commands(A)!Composite(o.fences, o.counter)
  BY <1>2 DEF CmdOps, Commands!NoOp, Commands!Submit, Commands!Flush, Commands!Composite
<1>3. QED
  BY <1>1, <1>2

\* A request in the list or being run is above the count.
LEMMA RequestAbove ==
    ASSUME CmdTypes, RequestsOK, NEW t \in GpuClients
    PROVE  /\ Len(syncRequests) \in Nat /\ InHand \in Nat
           /\ t \in Requested => syncFence[t] > currentSyncFence + InHand
           /\ gpc = "run" /\ request = t => syncFence[t] = currentSyncFence + 1
           /\ \A i, j \in 1 .. Len(syncRequests) : syncRequests[i] = syncRequests[j] => i = j
<1>1. /\ Len(syncRequests) \in Nat /\ InHand \in Nat
      /\ lastSyncFence \in Nat /\ currentSyncFence \in Nat
      /\ lastSyncFence = currentSyncFence + InHand + Len(syncRequests)
  BY LenProperties DEF RequestsOK, InHand, CmdTypes
<1>2. \A i \in 1 .. Len(syncRequests) : syncFence[syncRequests[i]] = currentSyncFence + InHand + i
  BY <1>1 DEF RequestsOK
<1>3. t \in Requested => syncFence[t] > currentSyncFence + InHand
  BY <1>1, <1>2 DEF Requested
<1>4. \A i, j \in 1 .. Len(syncRequests) : syncRequests[i] = syncRequests[j] => i = j
  BY <1>1, <1>2
<1>5. QED
  BY <1>1, <1>3, <1>4 DEF RequestsOK

\* Steps that leave the counters and the actions alone, and the compositions not yet run.
LEMMA SwapSame ==
    ASSUME SwapOK, UNCHANGED <<swapCounters, freeSwapCounters, guestActions>>,
           \A t \in GpuClients : NotYetRun(t)' <=> NotYetRun(t),
           \A t \in GpuClients : NotYetRun(t) => op'[t] = op[t]
    PROVE  SwapOK'
<1>1. \A c : Left(c)' = Left(c)
  BY DEF Left
<1>2. \A t \in GpuClients : NotYetRun(t)' =>
          /\ op'[t].counter \in 1 .. Len(swapCounters')
          /\ op'[t].counter \notin freeSwapCounters'
          /\ \A a \in guestActions' : a.counter # op'[t].counter
          /\ swapCounters'[op'[t].counter] = Len(op'[t].fences)
  BY DEF SwapOK
<1>3. \A t, u \in GpuClients :
          NotYetRun(t)' /\ NotYetRun(u)' /\ op'[t].counter = op'[u].counter => t = u
  BY DEF SwapOK
<1>4. \A c \in 1 .. Len(swapCounters') :
          (\A t \in GpuClients : NotYetRun(t)' => op'[t].counter # c) =>
              swapCounters'[c] = Cardinality(Left(c)')
  BY <1>1 DEF SwapOK
<1>5. /\ swapCounters' \in Seq(Nat) /\ freeSwapCounters' \subseteq 1 .. Len(swapCounters')
      /\ IsFiniteSet(guestActions')
      /\ \A a \in guestActions' : a.counter \in 1 .. Len(swapCounters')
      /\ \A c \in freeSwapCounters' : Left(c)' = {}
  BY <1>1 DEF SwapOK
<1>6. QED
  BY <1>2, <1>3, <1>4, <1>5 DEF SwapOK

\* A call that begins.
LEMMA SubmitListKeeps ==
    ASSUME NEW A \in BOOLEAN, CmdInv(A), NEW t \in GpuClients, Commands(A)!SubmitList(t)
    PROVE  CmdInv(A)'
<1> USE DEF Commands!SubmitList, Commands!stateVars, Commands!syncVars, Commands!swapVars,
       Commands!clientVars, Commands!gpuVars
<1>1. CmdTypes
  BY DEF CmdInv
<1>2. "none" \notin GpuClients /\ Commands(A)!NoClient = "none"
  BY OpKinds
<1>3. /\ cpc' \in [GpuClients -> ClientPCs] /\ cpc'[t] = "push"
      /\ \A u \in GpuClients : u # t => cpc'[u] = cpc[u]
  BY <1>1 DEF CmdTypes, ClientPCs, Commands!Goto
<1>4. /\ op' \in [GpuClients -> CmdOps] /\ op'[t].kind = "submit" /\ op'[t] \in CmdOps
      /\ \A u \in GpuClients : u # t => op'[u] = op[u]
  BY <1>1 DEF CmdTypes, CmdOps, Commands!Submit
<1>5. /\ cpc[t] = "idle"
      /\ UNCHANGED <<writeLock, queue, lastFence, signaledFence, syncRequests, lastSyncFence,
                     currentSyncFence, swapCounters, freeSwapCounters, guestActions,
                     fence, syncFence, gpc, command, request>>
  OBVIOUS
<1>6. t \notin Requested /\ ~(gpc = "run" /\ request = t)
  <2>1. syncFence[t] = 0
    BY <1>5 DEF CmdInv, RequestsOK
  <2>2. currentSyncFence \in Nat
    BY <1>1 DEF CmdTypes
  <2>3. QED
    BY <1>1, <2>1, <2>2, RequestAbove DEF CmdInv
<1> HIDE DEF Commands!SubmitList
<1>7. CmdTypes'
  BY <1>1, <1>2, <1>3, <1>4, <1>5, <1>6 DEF CmdInv, CmdTypes, ThreadPCs
<1>8. CommandsOK(A)'
  BY <1>1, <1>2, <1>3, <1>4, <1>5, <1>6 DEF CmdInv, CommandsOK
<1>9. PlaceOK(A)'
  BY <1>1, <1>2, <1>3, <1>4, <1>5, <1>6 DEF CmdInv, PlaceOK
<1>10. RequestsOK'
  BY <1>1, <1>2, <1>3, <1>4, <1>5, <1>6 DEF CmdInv, RequestsOK, InHand
<1>11. TickOK'
  BY <1>1, <1>2, <1>3, <1>4, <1>5, <1>6 DEF CmdInv, TickOK
<1>12. WakeOK'
  BY <1>1, <1>2, <1>3, <1>4, <1>5, <1>6 DEF CmdInv, WakeOK
<1>13. SwapOK'
  <2>1. \A u \in GpuClients : NotYetRun(u)' <=> NotYetRun(u)
    BY <1>3, <1>4, <1>5, <1>6 DEF CmdInv, PlaceOK, NotYetRun, Requested
  <2>2. \A u \in GpuClients : NotYetRun(u) => op'[u] = op[u]
    BY <1>3, <1>4, <1>5, <1>6 DEF CmdInv, PlaceOK, NotYetRun, Requested
  <2>3. QED
    BY <1>3, <1>4, <1>5, <1>6, <2>1, <2>2, SwapSame DEF CmdInv
<1>14. QED
  BY <1>7, <1>8, <1>9, <1>10, <1>11, <1>12, <1>13 DEF CmdInv

\* A call that begins.
LEMMA OnCPUReadKeeps ==
    ASSUME NEW A \in BOOLEAN, CmdInv(A), NEW t \in GpuClients, Commands(A)!OnCPURead(t)
    PROVE  CmdInv(A)'
<1> USE DEF Commands!OnCPURead, Commands!stateVars, Commands!syncVars, Commands!swapVars,
       Commands!clientVars, Commands!gpuVars
<1>1. CmdTypes
  BY DEF CmdInv
<1>2. "none" \notin GpuClients /\ Commands(A)!NoClient = "none"
  BY OpKinds
<1>3. /\ cpc' \in [GpuClients -> ClientPCs] /\ cpc'[t] = "request"
      /\ \A u \in GpuClients : u # t => cpc'[u] = cpc[u]
  BY <1>1 DEF CmdTypes, ClientPCs, Commands!Goto
<1>4. /\ op' \in [GpuClients -> CmdOps] /\ op'[t].kind = "flush" /\ op'[t] \in CmdOps
      /\ \A u \in GpuClients : u # t => op'[u] = op[u]
  BY <1>1 DEF CmdTypes, CmdOps, Commands!Flush
<1>5. /\ cpc[t] = "idle"
      /\ UNCHANGED <<writeLock, queue, lastFence, signaledFence, syncRequests, lastSyncFence,
                     currentSyncFence, swapCounters, freeSwapCounters, guestActions,
                     fence, syncFence, gpc, command, request>>
  OBVIOUS
<1>6. t \notin Requested /\ ~(gpc = "run" /\ request = t)
  <2>1. syncFence[t] = 0
    BY <1>5 DEF CmdInv, RequestsOK
  <2>2. currentSyncFence \in Nat
    BY <1>1 DEF CmdTypes
  <2>3. QED
    BY <1>1, <2>1, <2>2, RequestAbove DEF CmdInv
<1> HIDE DEF Commands!OnCPURead
<1>7. CmdTypes'
  BY <1>1, <1>2, <1>3, <1>4, <1>5, <1>6 DEF CmdInv, CmdTypes, ThreadPCs
<1>8. CommandsOK(A)'
  BY <1>1, <1>2, <1>3, <1>4, <1>5, <1>6 DEF CmdInv, CommandsOK
<1>9. PlaceOK(A)'
  BY <1>1, <1>2, <1>3, <1>4, <1>5, <1>6 DEF CmdInv, PlaceOK
<1>10. RequestsOK'
  BY <1>1, <1>2, <1>3, <1>4, <1>5, <1>6 DEF CmdInv, RequestsOK, InHand
<1>11. TickOK'
  BY <1>1, <1>2, <1>3, <1>4, <1>5, <1>6 DEF CmdInv, TickOK
<1>12. WakeOK'
  BY <1>1, <1>2, <1>3, <1>4, <1>5, <1>6 DEF CmdInv, WakeOK
<1>13. SwapOK'
  <2>1. \A u \in GpuClients : NotYetRun(u)' <=> NotYetRun(u)
    BY <1>3, <1>4, <1>5, <1>6 DEF CmdInv, PlaceOK, NotYetRun, Requested
  <2>2. \A u \in GpuClients : NotYetRun(u) => op'[u] = op[u]
    BY <1>3, <1>4, <1>5, <1>6 DEF CmdInv, PlaceOK, NotYetRun, Requested
  <2>3. QED
    BY <1>3, <1>4, <1>5, <1>6, <2>1, <2>2, SwapSame DEF CmdInv
<1>14. QED
  BY <1>7, <1>8, <1>9, <1>10, <1>11, <1>12, <1>13 DEF CmdInv

\* What Append adds to a sequence.
LEMMA Appended ==
    ASSUME NEW S, NEW q \in Seq(S), NEW x \in S
    PROVE  /\ Append(q, x) \in Seq(S) /\ Append(q, x) # <<>>
           /\ Len(Append(q, x)) = Len(q) + 1 /\ Len(q) \in Nat
           /\ \A i \in 1 .. Len(q) : Append(q, x)[i] = q[i]
           /\ Append(q, x)[Len(q) + 1] = x
<1>1. /\ Append(q, x) \in Seq(S) /\ Len(Append(q, x)) = Len(q) + 1 /\ Len(q) \in Nat
      /\ \A i \in 1 .. Len(q) : Append(q, x)[i] = q[i]
      /\ Append(q, x)[Len(q) + 1] = x
  BY AppendProperties, LenProperties
<1>2. Len(<<>>) = 0
  OBVIOUS
<1>3. QED
  BY <1>1, <1>2

\* What Head and Tail take.
LEMMA HeadAndTail ==
    ASSUME NEW S, NEW q \in Seq(S), q # <<>>
    PROVE  /\ Head(q) = q[1] /\ Head(q) \in S /\ Tail(q) \in Seq(S) /\ Len(q) \in Nat \ {0}
           /\ Len(Tail(q)) = Len(q) - 1 /\ \A i \in 1 .. Len(Tail(q)) : Tail(q)[i] = q[i + 1]
<1>1. /\ Len(q) \in Nat \ {0} /\ Head(q) = q[1] /\ Tail(q) \in Seq(S)
      /\ Len(Tail(q)) = Len(q) - 1 /\ \A i \in 1 .. Len(Tail(q)) : Tail(q)[i] = q[i + 1]
  BY HeadTailProperties, LenProperties, EmptySeq
<1>2. q[1] \in S
  BY <1>1, ElementOfSeq
<1>3. QED
  BY <1>1, <1>2

\* The end of a push: a list is forgotten, an operation waited for.
LEMMA Pushed ==
    ASSUME NEW A \in BOOLEAN, CmdTypes, NEW t \in GpuClients, Commands(A)!AfterPush(t)
    PROVE  /\ cpc' \in [GpuClients -> ClientPCs]
           /\ cpc'[t] = IF op[t].kind = "submit" THEN "idle" ELSE "wait"
           /\ op' \in [GpuClients -> CmdOps]
           /\ op'[t].kind = IF op[t].kind = "submit" THEN "none" ELSE op[t].kind
           /\ op[t].kind # "submit" => op'[t] = op[t]
           /\ fence' \in [GpuClients -> Nat] /\ fence'[t] = 0
           /\ \A u \in GpuClients :
                  u # t => cpc'[u] = cpc[u] /\ op'[u] = op[u] /\ fence'[u] = fence[u]
<1> USE DEF Commands!AfterPush, Commands!Goto
<1>1. op[t] = Commands(A)!Submit <=> op[t].kind = "submit"
  BY OpKinds DEF CmdTypes
<1>2. Commands(A)!NoOp \in CmdOps /\ Commands(A)!NoOp.kind = "none"
  BY DEF CmdOps, Commands!NoOp
<1>3. /\ op' \in [GpuClients -> CmdOps]
      /\ op'[t] = IF op[t].kind = "submit" THEN Commands(A)!NoOp ELSE op[t]
      /\ \A u \in GpuClients : u # t => op'[u] = op[u]
  BY <1>1, <1>2 DEF CmdTypes
<1>4. /\ cpc' \in [GpuClients -> ClientPCs]
      /\ cpc'[t] = IF op[t].kind = "submit" THEN "idle" ELSE "wait"
      /\ \A u \in GpuClients : u # t => cpc'[u] = cpc[u]
  BY <1>1 DEF CmdTypes, ClientPCs
<1>5. /\ fence' \in [GpuClients -> Nat] /\ fence'[t] = 0
      /\ \A u \in GpuClients : u # t => fence'[u] = fence[u]
  BY DEF CmdTypes
<1>6. QED
  BY <1>2, <1>3, <1>4, <1>5

\* A request is put into the list.
LEMMA RequestSyncOperationKeeps ==
    ASSUME NEW A \in BOOLEAN, CmdInv(A), NEW t \in GpuClients, Commands(A)!RequestSyncOperation(t)
    PROVE  CmdInv(A)'
<1> USE DEF Commands!RequestSyncOperation, Commands!stateVars, Commands!syncVars,
       Commands!swapVars, Commands!clientVars, Commands!gpuVars
<1>1. CmdTypes
  BY DEF CmdInv
<1>2. "none" \notin GpuClients /\ Commands(A)!NoClient = "none"
  BY OpKinds
<1>3. /\ cpc' \in [GpuClients -> ClientPCs] /\ cpc'[t] = "push"
      /\ \A u \in GpuClients : u # t => cpc'[u] = cpc[u]
  BY <1>1 DEF CmdTypes, ClientPCs, Commands!Goto
<1>4. /\ cpc[t] = "request" /\ lastSyncFence' = lastSyncFence + 1
      /\ UNCHANGED <<writeLock, queue, lastFence, signaledFence, currentSyncFence, swapCounters,
                     freeSwapCounters, guestActions, op, fence, gpc, command, request>>
  OBVIOUS
<1>5. t \notin Requested /\ ~(gpc = "run" /\ request = t)
  <2>1. syncFence[t] = 0
    BY <1>4 DEF CmdInv, RequestsOK
  <2>2. currentSyncFence \in Nat
    BY <1>1 DEF CmdTypes
  <2>3. QED
    BY <1>1, <2>1, <2>2, RequestAbove DEF CmdInv
<1>6. /\ syncFence' \in [GpuClients -> Nat] /\ syncFence'[t] = lastSyncFence + 1
      /\ \A u \in GpuClients : u # t => syncFence'[u] = syncFence[u]
  BY <1>1 DEF CmdTypes
<1>7. /\ syncRequests' \in Seq(GpuClients) /\ syncRequests' # <<>> /\ Len(syncRequests) \in Nat
      /\ Len(syncRequests') = Len(syncRequests) + 1
      /\ \A i \in 1 .. Len(syncRequests) : syncRequests'[i] = syncRequests[i]
      /\ syncRequests'[Len(syncRequests) + 1] = t
  <2>1. syncRequests \in Seq(GpuClients) /\ syncRequests' = Append(syncRequests, t)
    BY DEF CmdInv, RequestsOK
  <2>2. QED
    BY <2>1, Appended
<1>8. Requested' = Requested \cup {t}
  <2>1. \A i \in 1 .. Len(syncRequests) + 1 :
            i \in 1 .. Len(syncRequests) \/ i = Len(syncRequests) + 1
    BY <1>7
  <2>2. /\ 1 .. Len(syncRequests) \subseteq 1 .. Len(syncRequests) + 1
        /\ Len(syncRequests) + 1 \in 1 .. Len(syncRequests) + 1
    BY <1>7
  <2>3. QED
    BY <1>7, <2>1, <2>2 DEF Requested
<1>9. lastSyncFence \in Nat /\ currentSyncFence \in Nat /\ InHand \in Nat /\ InHand' = InHand
  BY <1>1, <1>4 DEF CmdTypes, InHand
<1> HIDE DEF Commands!RequestSyncOperation
<1>10. CmdTypes'
  <2>1. \A u \in GpuClients : fence'[u] <= lastFence' /\ syncFence'[u] <= lastSyncFence'
    BY <1>1, <1>4, <1>6, <1>9 DEF CmdTypes
  <2>2. QED
    BY <1>1, <1>3, <1>4, <1>6, <1>9, <2>1 DEF CmdTypes
<1>11. CommandsOK(A)'
  BY <1>1, <1>2, <1>3, <1>4, <1>5, <1>6, <1>7, <1>8, <1>9 DEF CmdInv, CommandsOK
<1>12. PlaceOK(A)'
  BY <1>1, <1>2, <1>3, <1>4, <1>5, <1>6, <1>7, <1>8, <1>9 DEF CmdInv, PlaceOK
<1>13. RequestsOK'
  <2>1. \A i \in 1 .. Len(syncRequests) :
            syncRequests[i] # t /\ syncRequests[i] \in GpuClients
            /\ syncFence[syncRequests[i]] = lastSyncFence - Len(syncRequests) + i
    BY <1>5, ElementOfSeq DEF CmdInv, RequestsOK, Requested
  <2>2. \A i \in 1 .. Len(syncRequests') :
            syncFence'[syncRequests'[i]] = lastSyncFence' - Len(syncRequests') + i
    <3>1. SUFFICES ASSUME NEW i \in 1 .. Len(syncRequests) + 1
                   PROVE  syncFence'[syncRequests'[i]] = lastSyncFence - Len(syncRequests) + i
      BY <1>4, <1>7, <1>9
    <3>2. CASE i = Len(syncRequests) + 1
      BY <1>6, <1>7, <1>9, <3>2
    <3>3. CASE i # Len(syncRequests) + 1
      <4>1. i \in 1 .. Len(syncRequests)
        BY <1>7, <3>3
      <4>2. QED
        BY <1>6, <1>7, <2>1, <4>1
    <3>4. QED
      BY <3>2, <3>3
  <2>3. gpc' = "run" => request' \in GpuClients /\ syncFence'[request'] = currentSyncFence' + 1
    BY <1>4, <1>5, <1>6 DEF CmdInv, RequestsOK
  <2>4. \A u \in GpuClients :
            syncFence'[u] = 0 <=> cpc'[u] \in {"idle", "request"} \/ op'[u].kind = "submit"
    <3>1. op[t].kind # "submit"
      BY <1>4 DEF CmdInv, PlaceOK
    <3>2. QED
      BY <1>3, <1>4, <1>6, <1>9, <3>1 DEF CmdInv, RequestsOK
  <2>5. lastSyncFence' = currentSyncFence' + InHand' + Len(syncRequests')
    <3>1. lastSyncFence = currentSyncFence + InHand + Len(syncRequests)
      BY DEF CmdInv, RequestsOK
    <3>2. QED
      BY <1>4, <1>7, <1>9, <3>1
  <2>6. QED
    BY <1>7, <2>2, <2>3, <2>4, <2>5 DEF RequestsOK
<1>14. TickOK'
  <2>1. op[t].kind # "submit"
    BY <1>4 DEF CmdInv, PlaceOK
  <2>2. QED
    BY <1>3, <1>4, <2>1 DEF TickOK
<1>15. WakeOK'
  BY <1>3, <1>4, <1>6 DEF CmdInv, WakeOK
<1>16. SwapOK'
  <2>1. \A u \in GpuClients : NotYetRun(u)' <=> NotYetRun(u)
    BY <1>3, <1>4, <1>5, <1>8 DEF NotYetRun
  <2>2. QED
    BY <1>4, <2>1, SwapSame DEF CmdInv
<1>17. QED
  BY <1>10, <1>11, <1>12, <1>13, <1>14, <1>15, <1>16 DEF CmdInv

\* A command is counted, with the lock.
LEMMA PushCommandKeeps ==
    ASSUME NEW A \in BOOLEAN, CmdInv(A), NEW t \in GpuClients, Commands(A)!PushCommand(t)
    PROVE  CmdInv(A)'
<1> USE DEF Commands!PushCommand, Commands!stateVars, Commands!syncVars, Commands!swapVars,
       Commands!clientVars, Commands!gpuVars
<1>1. CmdTypes
  BY DEF CmdInv
<1>2. "none" \notin GpuClients /\ Commands(A)!NoClient = "none"
  BY OpKinds
<1>3. /\ cpc' \in [GpuClients -> ClientPCs] /\ cpc'[t] = "emplace"
      /\ \A u \in GpuClients : u # t => cpc'[u] = cpc[u]
  BY <1>1 DEF CmdTypes, ClientPCs, Commands!Goto
<1>4. /\ cpc[t] = "push" /\ lastFence' = lastFence + 1 /\ lastFence \in Nat
      /\ writeLock = "none" /\ writeLock' = t
      /\ UNCHANGED <<queue, signaledFence, syncRequests, lastSyncFence, currentSyncFence,
                     swapCounters, freeSwapCounters, guestActions, op, syncFence, gpc, command,
                     request>>
  BY <1>1, <1>2 DEF CmdTypes
<1>5. /\ fence' \in [GpuClients -> Nat] /\ fence'[t] = lastFence + 1
      /\ \A u \in GpuClients : u # t => fence'[u] = fence[u]
  BY <1>1 DEF CmdTypes
<1> HIDE DEF Commands!PushCommand
<1>6. CmdTypes'
  <2>1. \A u \in GpuClients : fence[u] \in Nat /\ fence[u] <= lastFence
    BY <1>1 DEF CmdTypes
  <2>2. \A u \in GpuClients : fence'[u] <= lastFence'
    BY <1>4, <1>5, <2>1
  <2>3. signaledFence' \in Nat /\ signaledFence' <= lastFence'
    BY <1>1, <1>4 DEF CmdTypes
  <2>4. QED
    BY <1>1, <1>3, <1>4, <1>5, <2>2, <2>3 DEF CmdTypes
<1>7. CommandsOK(A)'
  <2>1. \A i \in 1 .. Len(queue) : queue[i].fence \in Nat /\ queue[i].fence <= lastFence
    <3>1. \A i \in 1 .. Len(queue) : queue[i] \in Orders(A)
      BY ElementOfSeq DEF CmdInv, CommandsOK
    <3>2. QED
      BY <3>1 DEF CmdInv, CommandsOK, Orders
  <2>2. gpc # "pop" => command.fence \in Nat
    BY DEF CmdInv, CommandsOK, Orders
  <2>3. QED
    BY <1>4, <2>1, <2>2 DEF CmdInv, CommandsOK
<1>8. PlaceOK(A)'
  BY <1>1, <1>2, <1>3, <1>4, <1>5 DEF CmdInv, PlaceOK
<1>9. RequestsOK'
  BY <1>1, <1>2, <1>3, <1>4, <1>5 DEF CmdInv, RequestsOK, InHand
<1>10. TickOK'
  BY <1>1, <1>2, <1>3, <1>4, <1>5 DEF CmdInv, TickOK
<1>11. WakeOK'
  BY <1>1, <1>2, <1>3, <1>4, <1>5 DEF CmdInv, WakeOK
<1>12. SwapOK'
  <2>1. \A u \in GpuClients : NotYetRun(u)' <=> NotYetRun(u)
    BY <1>3, <1>4, <1>5 DEF CmdInv, PlaceOK, NotYetRun, Requested
  <2>2. \A u \in GpuClients : NotYetRun(u) => op'[u] = op[u]
    BY <1>3, <1>4, <1>5 DEF CmdInv, PlaceOK, NotYetRun, Requested
  <2>3. QED
    BY <1>3, <1>4, <1>5, <2>1, <2>2, SwapSame DEF CmdInv
<1>13. QED
  BY <1>6, <1>7, <1>8, <1>9, <1>10, <1>11, <1>12 DEF CmdInv

\* A command is put into the queue.
LEMMA EmplaceWaitKeeps ==
    ASSUME NEW A \in BOOLEAN, CmdInv(A), NEW t \in GpuClients, Commands(A)!EmplaceWait(t)
    PROVE  CmdInv(A)'
<1> USE DEF Commands!EmplaceWait, Commands!CommandOf, Commands!stateVars, Commands!syncVars,
       Commands!swapVars, Commands!clientVars, Commands!gpuVars
<1>1. CmdTypes
  BY DEF CmdInv
<1>2. "none" \notin GpuClients /\ Commands(A)!NoClient = "none"
  BY OpKinds
<1>3. /\ cpc[t] = "emplace" /\ (op[t] = Commands(A)!Submit <=> op[t].kind = "submit")
      /\ fence[t] \in Nat \ {0} /\ fence[t] <= lastFence
      /\ UNCHANGED <<lastFence, signaledFence, syncRequests, lastSyncFence, currentSyncFence,
                     swapCounters, freeSwapCounters, guestActions, syncFence, gpc, command,
                     request>>
  BY <1>1, OpKinds DEF CmdTypes, CmdInv, PlaceOK
<1>4. /\ queue' \in Seq(Orders(A)) /\ Len(queue') <= Room(A) /\ Len(queue) \in Nat
      /\ Len(queue') = Len(queue) + 1
      /\ \A i \in 1 .. Len(queue) : queue'[i] = queue[i]
      /\ queue'[Len(queue) + 1].fence = fence[t]
      /\ op[t].kind # "submit" => queue'[Len(queue) + 1].kind = "tick"
  <2>1. PICK x : x = [kind |-> IF op[t].kind = "submit" THEN "submit" ELSE "tick",
                      fence |-> fence[t], block |-> ~A]
    OBVIOUS
  <2>2. x \in Orders(A) /\ x.fence = fence[t] /\ (op[t].kind # "submit" => x.kind = "tick")
    BY <1>3, <2>1 DEF Orders
  <2>3. queue' = Append(queue, x) /\ Len(queue) < Room(A)
    BY <1>3, <2>1 DEF Room
  <2>4. queue \in Seq(Orders(A))
    BY DEF CmdInv, CommandsOK
  <2>5. Room(A) \in Nat
    BY CommandsAssumption DEF Room, Commands!BoundsAssumption
  <2> HIDE DEF Commands!EmplaceWait
  <2>6. /\ Append(queue, x) \in Seq(Orders(A)) /\ Len(Append(queue, x)) = Len(queue) + 1
        /\ Len(queue) \in Nat /\ \A i \in 1 .. Len(queue) : Append(queue, x)[i] = queue[i]
        /\ Append(queue, x)[Len(queue) + 1] = x
    BY <2>2, <2>4, Appended
  <2>7. QED
    BY <2>2, <2>3, <2>5, <2>6
<1>5. /\ cpc' \in [GpuClients -> ClientPCs]
      /\ cpc'[t] = IF ~A THEN "block" ELSE IF op[t].kind = "submit" THEN "idle" ELSE "wait"
      /\ op' \in [GpuClients -> CmdOps]
      /\ op'[t].kind = IF A /\ op[t].kind = "submit" THEN "none" ELSE op[t].kind
      /\ op[t].kind # "submit" => op'[t] = op[t]
      /\ fence' \in [GpuClients -> Nat] /\ fence'[t] = (IF A THEN 0 ELSE fence[t])
      /\ \A u \in GpuClients : u # t => cpc'[u] = cpc[u] /\ op'[u] = op[u] /\ fence'[u] = fence[u]
      /\ writeLock = t /\ writeLock' = IF A THEN "none" ELSE writeLock
  <2>1. writeLock = t
    BY <1>3 DEF CmdInv, PlaceOK
  <2>2. CASE A
    BY <1>1, <1>2, <2>1, <2>2, Pushed
  <2>3. CASE ~A
    BY <1>1, <2>1, <2>3 DEF CmdTypes, ClientPCs, Commands!Goto
  <2>4. QED
    BY <2>2, <2>3
<1> HIDE DEF Commands!EmplaceWait, Commands!CommandOf
<1>6. CmdTypes'
  <2>1. lastFence \in Nat /\ \A u \in GpuClients : fence[u] \in Nat /\ fence[u] <= lastFence
    BY <1>1 DEF CmdTypes
  <2>2. \A u \in GpuClients : fence'[u] <= lastFence'
    <3>1. fence'[t] <= lastFence'
      BY <1>3, <1>5, <2>1
    <3>2. QED
      BY <1>3, <1>5, <2>1, <3>1
  <2>3. writeLock' \in GpuClients \cup {"none"}
    BY <1>5
  <2>4. QED
    BY <1>1, <1>3, <1>5, <2>2, <2>3 DEF CmdTypes
<1>7. CommandsOK(A)'
  <2>1. \A i \in 1 .. Len(queue') : queue'[i].fence <= lastFence'
    <3>1. \A i \in 1 .. Len(queue) + 1 : i \in 1 .. Len(queue) \/ i = Len(queue) + 1
      BY <1>4
    <3>2. QED
      BY <1>3, <1>4, <3>1 DEF CmdInv, CommandsOK
  <2>2. QED
    BY <1>3, <1>4, <2>1 DEF CmdInv, CommandsOK
<1>8. PlaceOK(A)'
  <2>1. /\ cpc'[t] \in {"emplace", "sleepy"} => writeLock' = t
        /\ A => cpc'[t] \notin {"block", "sleepy", "blocked"}
        /\ cpc'[t] = "emplace" => fence'[t] # 0
        /\ cpc'[t] = "idle" <=> op'[t].kind = "none"
        /\ op'[t].kind = "submit" => cpc'[t] \notin {"request", "wait", "drowsy", "waiting"}
    BY <1>3, <1>5 DEF CmdInv, PlaceOK
  <2>2. ASSUME NEW u \in GpuClients, u # t
        PROVE  /\ cpc'[u] \in {"emplace", "sleepy"} => writeLock' = u
               /\ A => cpc'[u] \notin {"block", "sleepy", "blocked"}
               /\ cpc'[u] = "emplace" => fence'[u] # 0
               /\ cpc'[u] = "idle" <=> op'[u].kind = "none"
               /\ op'[u].kind = "submit" =>
                      cpc'[u] \notin {"request", "wait", "drowsy", "waiting"}
    BY <1>5, <2>2 DEF CmdInv, PlaceOK
  <2>3. QED
    BY <2>1, <2>2 DEF PlaceOK
<1>9. RequestsOK'
  <2>1. syncFence'[t] = 0 <=> cpc'[t] \in {"idle", "request"} \/ op'[t].kind = "submit"
    <3>1. syncFence[t] = 0 <=> op[t].kind = "submit"
      BY <1>3 DEF CmdInv, RequestsOK
    <3>2. QED
      BY <1>3, <1>5, <3>1
  <2>2. \A u \in GpuClients :
            u # t => (syncFence'[u] = 0 <=> cpc'[u] \in {"idle", "request"} \/ op'[u].kind = "submit")
    BY <1>3, <1>5 DEF CmdInv, RequestsOK
  <2>3. InHand' = InHand
    BY <1>3 DEF InHand
  <2>4. QED
    BY <1>3, <2>1, <2>2, <2>3 DEF CmdInv, RequestsOK
<1>10. TickOK'
  <2>1. SUFFICES ASSUME syncRequests # <<>>, gpc \notin {"tick", "run", "count", "notify"}
                 PROVE  \/ \E i \in 1 .. Len(queue') : queue'[i].kind = "tick"
                        \/ \E u \in GpuClients :
                               cpc'[u] \in {"push", "emplace"} /\ op'[u].kind # "submit"
    BY <1>3 DEF TickOK
  <2>2. CASE \E i \in 1 .. Len(queue) : queue[i].kind = "tick"
    BY <1>4, <2>2
  <2>3. CASE \E u \in GpuClients : cpc[u] \in {"push", "emplace"} /\ op[u].kind # "submit"
    <3>1. PICK u \in GpuClients : cpc[u] \in {"push", "emplace"} /\ op[u].kind # "submit"
      BY <2>3
    <3>2. CASE u = t
      <4>1. Len(queue) + 1 \in 1 .. Len(queue')
        BY <1>4
      <4>2. QED
        BY <1>4, <3>1, <3>2, <4>1
    <3>3. CASE u # t
      BY <1>5, <3>1, <3>3
    <3>4. QED
      BY <3>2, <3>3
  <2>4. QED
    BY <2>1, <2>2, <2>3 DEF CmdInv, TickOK
<1>11. WakeOK'
  BY <1>1, <1>2, <1>3, <1>4, <1>5 DEF CmdInv, WakeOK
<1>12. SwapOK'
  <2>1. \A u \in GpuClients : NotYetRun(u)' <=> NotYetRun(u)
    BY <1>3, <1>5 DEF CmdInv, PlaceOK, NotYetRun, Requested
  <2>2. \A u \in GpuClients : NotYetRun(u) => op'[u] = op[u]
    BY <1>3, <1>5 DEF CmdInv, PlaceOK, NotYetRun, Requested
  <2>3. QED
    BY <1>3, <1>5, <2>1, <2>2, SwapSame DEF CmdInv
<1>13. QED
  BY <1>6, <1>7, <1>8, <1>9, <1>10, <1>11, <1>12 DEF CmdInv

\* The wait for a command looks at the fence.
LEMMA CondvarWaitKeeps ==
    ASSUME NEW A \in BOOLEAN, CmdInv(A), NEW t \in GpuClients, Commands(A)!CondvarWait(t)
    PROVE  CmdInv(A)'
<1> USE DEF Commands!CondvarWait, Commands!stateVars, Commands!syncVars, Commands!swapVars,
       Commands!clientVars, Commands!gpuVars
<1>1. CmdTypes
  BY DEF CmdInv
<1>2. "none" \notin GpuClients /\ Commands(A)!NoClient = "none"
  BY OpKinds
<1>3. /\ cpc[t] = "block" /\ writeLock \in {t, "none"}
      /\ UNCHANGED <<queue, lastFence, signaledFence, syncRequests, lastSyncFence,
                     currentSyncFence, swapCounters, freeSwapCounters, guestActions, syncFence,
                     gpc, command, request>>
  BY <1>2
<1>4. /\ cpc' \in [GpuClients -> ClientPCs]
      /\ cpc'[t] = IF fence[t] <= signaledFence
                   THEN IF op[t].kind = "submit" THEN "idle" ELSE "wait" ELSE "sleepy"
      /\ op' \in [GpuClients -> CmdOps]
      /\ op'[t].kind = IF fence[t] <= signaledFence /\ op[t].kind = "submit" THEN "none"
                       ELSE op[t].kind
      /\ op[t].kind # "submit" => op'[t] = op[t]
      /\ fence' \in [GpuClients -> Nat]
      /\ fence'[t] = (IF fence[t] <= signaledFence THEN 0 ELSE fence[t])
      /\ \A u \in GpuClients : u # t => cpc'[u] = cpc[u] /\ op'[u] = op[u] /\ fence'[u] = fence[u]
      /\ writeLock' = IF fence[t] <= signaledFence THEN "none" ELSE t
  <2>1. CASE fence[t] <= signaledFence
    BY <1>1, <1>2, <2>1, Pushed
  <2>2. CASE ~(fence[t] <= signaledFence)
    BY <1>1, <2>2 DEF CmdTypes, ClientPCs, Commands!Goto
  <2>3. QED
    BY <2>1, <2>2
<1> HIDE DEF Commands!CondvarWait
<1>5. CmdTypes'
  BY <1>1, <1>2, <1>3, <1>4 DEF CmdInv, CmdTypes, ThreadPCs
<1>6. CommandsOK(A)'
  BY <1>1, <1>2, <1>3, <1>4 DEF CmdInv, CommandsOK
<1>7. PlaceOK(A)'
  BY <1>1, <1>2, <1>3, <1>4 DEF CmdInv, PlaceOK
<1>8. RequestsOK'
  BY <1>1, <1>2, <1>3, <1>4 DEF CmdInv, RequestsOK, InHand
<1>9. TickOK'
  BY <1>1, <1>2, <1>3, <1>4 DEF CmdInv, TickOK
<1>10. WakeOK'
  BY <1>1, <1>2, <1>3, <1>4 DEF CmdInv, WakeOK
<1>11. SwapOK'
  <2>1. \A u \in GpuClients : NotYetRun(u)' <=> NotYetRun(u)
    BY <1>3, <1>4 DEF CmdInv, PlaceOK, NotYetRun, Requested
  <2>2. \A u \in GpuClients : NotYetRun(u) => op'[u] = op[u]
    BY <1>3, <1>4 DEF CmdInv, PlaceOK, NotYetRun, Requested
  <2>3. QED
    BY <1>3, <1>4, <2>1, <2>2, SwapSame DEF CmdInv
<1>12. QED
  BY <1>5, <1>6, <1>7, <1>8, <1>9, <1>10, <1>11 DEF CmdInv

\* A client falls asleep on a command.
LEMMA DrowseKeeps ==
    ASSUME NEW A \in BOOLEAN, CmdInv(A), NEW t \in GpuClients, Commands(A)!Sleep(t),
           cpc[t] = "sleepy"
    PROVE  CmdInv(A)'
<1> USE DEF Commands!Sleep, Commands!stateVars, Commands!syncVars, Commands!swapVars,
       Commands!clientVars, Commands!gpuVars
<1>1. CmdTypes
  BY DEF CmdInv
<1>2. "none" \notin GpuClients /\ Commands(A)!NoClient = "none"
  BY OpKinds
<1>3. /\ cpc' \in [GpuClients -> ClientPCs] /\ cpc'[t] = "blocked"
      /\ \A u \in GpuClients : u # t => cpc'[u] = cpc[u]
  BY <1>1 DEF CmdTypes, ClientPCs, Commands!Goto
<1>4. /\ writeLock = t /\ writeLock' = "none"
      /\ UNCHANGED <<queue, lastFence, signaledFence, syncRequests, lastSyncFence,
                     currentSyncFence, swapCounters, freeSwapCounters, guestActions, op, fence,
                     syncFence, gpc, command, request>>
  BY <1>2 DEF CmdInv, PlaceOK
<1>5. cpc[t] = "sleepy"
  OBVIOUS
<1> HIDE DEF Commands!Sleep
<1>6. CmdTypes'
  BY <1>1, <1>2, <1>3, <1>4, <1>5 DEF CmdInv, CmdTypes, ThreadPCs
<1>7. CommandsOK(A)'
  BY <1>1, <1>2, <1>3, <1>4, <1>5 DEF CmdInv, CommandsOK
<1>8. PlaceOK(A)'
  BY <1>1, <1>2, <1>3, <1>4, <1>5 DEF CmdInv, PlaceOK
<1>9. RequestsOK'
  BY <1>1, <1>2, <1>3, <1>4, <1>5 DEF CmdInv, RequestsOK, InHand
<1>10. TickOK'
  BY <1>1, <1>2, <1>3, <1>4, <1>5 DEF CmdInv, TickOK
<1>11. WakeOK'
  BY <1>1, <1>2, <1>3, <1>4, <1>5 DEF CmdInv, WakeOK
<1>12. SwapOK'
  <2>1. \A u \in GpuClients : NotYetRun(u)' <=> NotYetRun(u)
    BY <1>3, <1>4, <1>5 DEF CmdInv, PlaceOK, NotYetRun, Requested
  <2>2. \A u \in GpuClients : NotYetRun(u) => op'[u] = op[u]
    BY <1>3, <1>4, <1>5 DEF CmdInv, PlaceOK, NotYetRun, Requested
  <2>3. QED
    BY <1>3, <1>4, <1>5, <2>1, <2>2, SwapSame DEF CmdInv
<1>13. QED
  BY <1>6, <1>7, <1>8, <1>9, <1>10, <1>11, <1>12 DEF CmdInv

\* A client falls asleep on a request.
LEMMA DozeKeeps ==
    ASSUME NEW A \in BOOLEAN, CmdInv(A), NEW t \in GpuClients, Commands(A)!Sleep(t),
           cpc[t] = "drowsy"
    PROVE  CmdInv(A)'
<1> USE DEF Commands!Sleep, Commands!stateVars, Commands!syncVars, Commands!swapVars,
       Commands!clientVars, Commands!gpuVars
<1>1. CmdTypes
  BY DEF CmdInv
<1>2. "none" \notin GpuClients /\ Commands(A)!NoClient = "none"
  BY OpKinds
<1>3. /\ cpc' \in [GpuClients -> ClientPCs] /\ cpc'[t] = "waiting"
      /\ \A u \in GpuClients : u # t => cpc'[u] = cpc[u]
  BY <1>1 DEF CmdTypes, ClientPCs, Commands!Goto
<1>4. /\ cpc[t] = "drowsy"
      /\ UNCHANGED <<writeLock, queue, lastFence, signaledFence, syncRequests, lastSyncFence,
                     currentSyncFence, swapCounters, freeSwapCounters, guestActions, op, fence,
                     syncFence, gpc, command, request>>
  OBVIOUS
<1> HIDE DEF Commands!Sleep
<1>5. CmdTypes'
  BY <1>1, <1>2, <1>3, <1>4 DEF CmdInv, CmdTypes, ThreadPCs
<1>6. CommandsOK(A)'
  BY <1>1, <1>2, <1>3, <1>4 DEF CmdInv, CommandsOK
<1>7. PlaceOK(A)'
  BY <1>1, <1>2, <1>3, <1>4 DEF CmdInv, PlaceOK
<1>8. RequestsOK'
  BY <1>1, <1>2, <1>3, <1>4 DEF CmdInv, RequestsOK, InHand
<1>9. TickOK'
  BY <1>1, <1>2, <1>3, <1>4 DEF CmdInv, TickOK
<1>10. WakeOK'
  BY <1>1, <1>2, <1>3, <1>4 DEF CmdInv, WakeOK
<1>11. SwapOK'
  <2>1. \A u \in GpuClients : NotYetRun(u)' <=> NotYetRun(u)
    BY <1>3, <1>4 DEF CmdInv, PlaceOK, NotYetRun, Requested
  <2>2. \A u \in GpuClients : NotYetRun(u) => op'[u] = op[u]
    BY <1>3, <1>4 DEF CmdInv, PlaceOK, NotYetRun, Requested
  <2>3. QED
    BY <1>3, <1>4, <2>1, <2>2, SwapSame DEF CmdInv
<1>12. QED
  BY <1>5, <1>6, <1>7, <1>8, <1>9, <1>10, <1>11 DEF CmdInv

\* A request has been run: the call returns.
LEMMA WaitReachedKeeps ==
    ASSUME NEW A \in BOOLEAN, CmdInv(A), NEW t \in GpuClients, Commands(A)!WaitForSyncOperation(t),
           Commands(A)!SyncReached(t)
    PROVE  CmdInv(A)'
<1> USE DEF Commands!WaitForSyncOperation, Commands!SyncReached, Commands!stateVars,
       Commands!syncVars, Commands!swapVars, Commands!clientVars, Commands!gpuVars
<1>1. CmdTypes
  BY DEF CmdInv
<1>2. "none" \notin GpuClients /\ Commands(A)!NoClient = "none"
  BY OpKinds
<1>3. /\ cpc' \in [GpuClients -> ClientPCs] /\ cpc'[t] = "idle"
      /\ \A u \in GpuClients : u # t => cpc'[u] = cpc[u]
  BY <1>1 DEF CmdTypes, ClientPCs, Commands!Goto
<1>4. /\ cpc[t] = "wait" /\ currentSyncFence >= syncFence[t]
      /\ UNCHANGED <<writeLock, queue, lastFence, signaledFence, syncRequests, lastSyncFence,
                     currentSyncFence, swapCounters, freeSwapCounters, guestActions, fence,
                     gpc, command, request>>
  OBVIOUS
<1>5. /\ syncFence' \in [GpuClients -> Nat] /\ syncFence'[t] = 0
      /\ \A u \in GpuClients : u # t => syncFence'[u] = syncFence[u]
  BY <1>1 DEF CmdTypes
<1>6. /\ op' \in [GpuClients -> CmdOps] /\ op'[t].kind = "none"
      /\ \A u \in GpuClients : u # t => op'[u] = op[u]
  BY <1>1 DEF CmdTypes, CmdOps, Commands!NoOp
<1>7. t \notin Requested /\ ~(gpc = "run" /\ request = t)
  <2>1. syncFence[t] \in Nat /\ currentSyncFence \in Nat
    BY <1>1 DEF CmdTypes
  <2>2. QED
    BY <1>1, <1>4, <2>1, RequestAbove DEF CmdInv
<1>8. /\ \A i \in 1 .. Len(syncRequests) : syncRequests[i] # t /\ syncRequests[i] \in GpuClients
      /\ currentSyncFence \in Nat
  <2>1. syncRequests \in Seq(GpuClients)
    BY DEF CmdInv, RequestsOK
  <2>2. QED
    BY <1>1, <1>7, <2>1, ElementOfSeq DEF Requested, CmdTypes
<1> HIDE DEF Commands!WaitForSyncOperation, Commands!SyncReached
<1>9. CmdTypes'
  <2>1. lastSyncFence \in Nat /\ \A u \in GpuClients : syncFence[u] <= lastSyncFence
    BY <1>1 DEF CmdTypes
  <2>2. \A u \in GpuClients : syncFence'[u] <= lastSyncFence'
    BY <1>4, <1>5, <2>1
  <2>3. QED
    BY <1>1, <1>3, <1>4, <1>5, <1>6, <2>2 DEF CmdTypes
<1>10. CommandsOK(A)'
  BY <1>1, <1>2, <1>3, <1>4, <1>5, <1>6, <1>7, <1>8 DEF CmdInv, CommandsOK
<1>11. PlaceOK(A)'
  BY <1>1, <1>2, <1>3, <1>4, <1>5, <1>6, <1>7, <1>8 DEF CmdInv, PlaceOK
<1>12. RequestsOK'
  <2>1. \A i \in 1 .. Len(syncRequests') :
            syncFence'[syncRequests'[i]] = lastSyncFence' - Len(syncRequests') + i
    BY <1>4, <1>5, <1>8 DEF CmdInv, RequestsOK
  <2>2. gpc' = "run" => request' \in GpuClients /\ syncFence'[request'] = currentSyncFence' + 1
    BY <1>4, <1>5, <1>7 DEF CmdInv, RequestsOK
  <2>3. \A u \in GpuClients :
            syncFence'[u] = 0 <=> cpc'[u] \in {"idle", "request"} \/ op'[u].kind = "submit"
    BY <1>3, <1>5, <1>6 DEF CmdInv, RequestsOK
  <2>4. InHand' = InHand
    BY <1>4 DEF InHand
  <2>5. QED
    BY <1>4, <2>1, <2>2, <2>3, <2>4 DEF CmdInv, RequestsOK
<1>13. TickOK'
  BY <1>1, <1>2, <1>3, <1>4, <1>5, <1>6, <1>7, <1>8 DEF CmdInv, TickOK
<1>14. WakeOK'
  BY <1>1, <1>2, <1>3, <1>4, <1>5, <1>6, <1>7, <1>8 DEF CmdInv, WakeOK
<1>15. SwapOK'
  <2>1. \A u \in GpuClients : NotYetRun(u)' <=> NotYetRun(u)
    <3>1. ~NotYetRun(t) /\ ~NotYetRun(t)'
      BY <1>3, <1>4, <1>6, <1>7 DEF NotYetRun, Requested
    <3>2. QED
      BY <1>3, <1>4, <1>6, <3>1 DEF NotYetRun, Requested
  <2>2. \A u \in GpuClients : NotYetRun(u) => op'[u] = op[u]
    BY <1>4, <1>6, <1>7 DEF NotYetRun
  <2>3. QED
    BY <1>4, <2>1, <2>2, SwapSame DEF CmdInv
<1>16. QED
  BY <1>9, <1>10, <1>11, <1>12, <1>13, <1>14, <1>15 DEF CmdInv

\* A request has not been run: the client will sleep.
LEMMA WaitLongerKeeps ==
    ASSUME NEW A \in BOOLEAN, CmdInv(A), NEW t \in GpuClients, Commands(A)!WaitForSyncOperation(t),
           ~Commands(A)!SyncReached(t)
    PROVE  CmdInv(A)'
<1> USE DEF Commands!WaitForSyncOperation, Commands!SyncReached, Commands!stateVars,
       Commands!syncVars, Commands!swapVars, Commands!clientVars, Commands!gpuVars
<1>1. CmdTypes
  BY DEF CmdInv
<1>2. "none" \notin GpuClients /\ Commands(A)!NoClient = "none"
  BY OpKinds
<1>3. /\ cpc' \in [GpuClients -> ClientPCs] /\ cpc'[t] = "drowsy"
      /\ \A u \in GpuClients : u # t => cpc'[u] = cpc[u]
  BY <1>1 DEF CmdTypes, ClientPCs, Commands!Goto
<1>4. /\ cpc[t] = "wait" /\ ~(currentSyncFence >= syncFence[t])
      /\ UNCHANGED <<writeLock, queue, lastFence, signaledFence, syncRequests, lastSyncFence,
                     currentSyncFence, swapCounters, freeSwapCounters, guestActions, op, fence,
                     syncFence, gpc, command, request>>
  OBVIOUS
<1> HIDE DEF Commands!WaitForSyncOperation, Commands!SyncReached
<1>5. CmdTypes'
  BY <1>1, <1>2, <1>3, <1>4 DEF CmdInv, CmdTypes, ThreadPCs
<1>6. CommandsOK(A)'
  BY <1>1, <1>2, <1>3, <1>4 DEF CmdInv, CommandsOK
<1>7. PlaceOK(A)'
  BY <1>1, <1>2, <1>3, <1>4 DEF CmdInv, PlaceOK
<1>8. RequestsOK'
  BY <1>1, <1>2, <1>3, <1>4 DEF CmdInv, RequestsOK, InHand
<1>9. TickOK'
  BY <1>1, <1>2, <1>3, <1>4 DEF CmdInv, TickOK
<1>10. WakeOK'
  BY <1>1, <1>2, <1>3, <1>4 DEF CmdInv, WakeOK
<1>11. SwapOK'
  <2>1. \A u \in GpuClients : NotYetRun(u)' <=> NotYetRun(u)
    BY <1>3, <1>4 DEF CmdInv, PlaceOK, NotYetRun, Requested
  <2>2. \A u \in GpuClients : NotYetRun(u) => op'[u] = op[u]
    BY <1>3, <1>4 DEF CmdInv, PlaceOK, NotYetRun, Requested
  <2>3. QED
    BY <1>3, <1>4, <2>1, <2>2, SwapSame DEF CmdInv
<1>12. QED
  BY <1>5, <1>6, <1>7, <1>8, <1>9, <1>10, <1>11 DEF CmdInv

\* The instance of GpuThread counts as this module does.
LEMMA CmdCardinality ==
    ASSUME NEW A, NEW S
    PROVE  Commands(A)!Cardinality(S) = Cardinality(S)
BY DEF Commands!Cardinality, Cardinality

\* The next request of the list, or none.
LEMMA NextRequest ==
    ASSUME NEW A \in BOOLEAN, CmdTypes, RequestsOK, Commands(A)!TakeRequest
    PROVE  /\ gpc' \in {"store", "run"} /\ request' \in GpuClients \cup {"none"}
           /\ syncRequests' \in Seq(GpuClients)
           /\ gpc' = "store" => /\ syncRequests = <<>> /\ syncRequests' = <<>>
                                /\ Requested = {} /\ Requested' = {}
           /\ gpc' = "run" => /\ request' = syncRequests[1] /\ request' \in GpuClients
                              /\ Len(syncRequests) \in Nat \ {0}
                              /\ Len(syncRequests') = Len(syncRequests) - 1
                              /\ \A i \in 1 .. Len(syncRequests') :
                                     syncRequests'[i] = syncRequests[i + 1]
                              /\ Requested = Requested' \cup {request'}
<1> USE DEF Commands!TakeRequest
<1>1. syncRequests \in Seq(GpuClients)
  BY DEF RequestsOK
<1>2. CASE syncRequests = <<>>
  <2>1. Len(syncRequests) = 0 /\ Len(syncRequests') = 0
    BY <1>2
  <2>2. QED
    BY <1>1, <1>2, <2>1, OpKinds DEF Requested
<1>3. CASE syncRequests # <<>>
  <2>1. gpc' = "run" /\ request' = Head(syncRequests) /\ syncRequests' = Tail(syncRequests)
    BY <1>3
  <2>2. /\ Head(syncRequests) = syncRequests[1] /\ Head(syncRequests) \in GpuClients
        /\ Tail(syncRequests) \in Seq(GpuClients) /\ Len(syncRequests) \in Nat \ {0}
        /\ Len(Tail(syncRequests)) = Len(syncRequests) - 1
        /\ \A i \in 1 .. Len(Tail(syncRequests)) : Tail(syncRequests)[i] = syncRequests[i + 1]
    BY <1>1, <1>3, HeadAndTail
  <2>3. Requested = Requested' \cup {request'}
    <3>1. \A i \in 1 .. Len(syncRequests) :
              i = 1 \/ (i - 1 \in 1 .. Len(syncRequests') /\ (i - 1) + 1 = i)
      BY <2>1, <2>2
    <3>2. \A i \in 1 .. Len(syncRequests') : i + 1 \in 1 .. Len(syncRequests)
      BY <2>1, <2>2
    <3>3. 1 \in 1 .. Len(syncRequests)
      BY <2>2
    <3>4. /\ request' = syncRequests[1]
          /\ \A i \in 1 .. Len(syncRequests') : syncRequests'[i] = syncRequests[i + 1]
      BY <2>1, <2>2
    <3>5. Requested \subseteq Requested' \cup {request'}
      <4>1. SUFFICES ASSUME NEW i \in 1 .. Len(syncRequests), i # 1
                     PROVE  syncRequests[i] \in Requested'
        BY <3>4 DEF Requested
      <4>2. i - 1 \in 1 .. Len(syncRequests') /\ syncRequests'[i - 1] = syncRequests[i]
        BY <3>1, <3>4, <4>1
      <4>3. QED
        BY <4>2 DEF Requested
    <3>6. Requested' \cup {request'} \subseteq Requested
      BY <3>2, <3>3, <3>4 DEF Requested
    <3>7. QED
      BY <3>5, <3>6
  <2>4. QED
    BY <2>1, <2>2, <2>3
<1>4. QED
  BY <1>2, <1>3

\* The GPU thread takes a command.
LEMMA PopWaitKeeps ==
    ASSUME NEW A \in BOOLEAN, CmdInv(A), Commands(A)!PopWait
    PROVE  CmdInv(A)'
<1> USE DEF Commands!PopWait, Commands!stateVars, Commands!syncVars, Commands!swapVars,
       Commands!clientVars, Commands!gpuVars
<1>1. CmdTypes
  BY DEF CmdInv
<1>2. "none" \notin GpuClients /\ Commands(A)!NoClient = "none"
  BY OpKinds
<1>3. /\ gpc = "pop" /\ queue # <<>> /\ command' = Head(queue) /\ queue' = Tail(queue)
      /\ gpc' = IF Head(queue).kind = "tick" THEN "tick" ELSE "execute"
      /\ UNCHANGED <<writeLock, lastFence, signaledFence, syncRequests, lastSyncFence,
                     currentSyncFence, swapCounters, freeSwapCounters, guestActions, cpc, op,
                     fence, syncFence, request>>
  OBVIOUS
<1>4. /\ command' = queue[1] /\ command' \in Orders(A) /\ queue' \in Seq(Orders(A))
      /\ Len(queue) \in Nat \ {0} /\ Len(queue') = Len(queue) - 1
      /\ \A i \in 1 .. Len(queue') : queue'[i] = queue[i + 1]
  <2>1. queue \in Seq(Orders(A))
    BY DEF CmdInv, CommandsOK
  <2> HIDE DEF Commands!PopWait
  <2>2. QED
    BY <1>3, <2>1, HeadAndTail
<1>5. InHand' = InHand
  BY <1>3 DEF InHand
<1> HIDE DEF Commands!PopWait
<1>6. CmdTypes'
  BY <1>1, <1>2, <1>3, <1>4, <1>5 DEF CmdInv, CmdTypes, ThreadPCs
<1>7. CommandsOK(A)'
  <2>1. Room(A) \in Nat
    BY CommandsAssumption DEF Room, Commands!BoundsAssumption
  <2>2. \A i \in 1 .. Len(queue') : i + 1 \in 1 .. Len(queue)
    BY <1>4
  <2>3. 1 \in 1 .. Len(queue)
    BY <1>4
  <2>4. \A i \in 1 .. Len(queue) : queue[i].fence <= lastFence
    BY DEF CmdInv, CommandsOK
  <2>5. Len(queue') <= Room(A)
    BY <1>4, <2>1 DEF CmdInv, CommandsOK
  <2>6. QED
    BY <1>3, <1>4, <2>2, <2>3, <2>4, <2>5 DEF CommandsOK
<1>8. PlaceOK(A)'
  BY <1>1, <1>2, <1>3, <1>4, <1>5 DEF CmdInv, PlaceOK
<1>9. RequestsOK'
  BY <1>1, <1>2, <1>3, <1>4, <1>5 DEF CmdInv, RequestsOK, InHand
<1>10. TickOK'
  <2>1. CASE \E i \in 1 .. Len(queue) : queue[i].kind = "tick"
    <3>1. PICK i \in 1 .. Len(queue) : queue[i].kind = "tick"
      BY <2>1
    <3>2. CASE i = 1
      BY <1>3, <1>4, <3>1, <3>2 DEF TickOK
    <3>3. CASE i # 1
      <4>1. i - 1 \in 1 .. Len(queue') /\ queue'[i - 1] = queue[i]
        BY <1>4, <3>3
      <4>2. QED
        BY <3>1, <4>1 DEF TickOK
    <3>4. QED
      BY <3>2, <3>3
  <2>2. CASE ~\E i \in 1 .. Len(queue) : queue[i].kind = "tick"
    BY <1>3, <2>2 DEF CmdInv, TickOK
  <2>3. QED
    BY <2>1, <2>2
<1>11. WakeOK'
  BY <1>1, <1>2, <1>3, <1>4, <1>5 DEF CmdInv, WakeOK
<1>12. SwapOK'
  <2>1. \A u \in GpuClients : NotYetRun(u)' <=> NotYetRun(u)
    BY <1>3 DEF NotYetRun, Requested
  <2>2. QED
    BY <1>3, <2>1, SwapSame DEF CmdInv
<1>13. QED
  BY <1>6, <1>7, <1>8, <1>9, <1>10, <1>11, <1>12 DEF CmdInv

\* The GPU thread looks into the list of requests.
LEMMA TickWorkKeeps ==
    ASSUME NEW A \in BOOLEAN, CmdInv(A), Commands(A)!TickWork
    PROVE  CmdInv(A)'
<1> USE DEF Commands!TickWork, Commands!stateVars, Commands!syncVars, Commands!swapVars,
       Commands!clientVars, Commands!gpuVars
<1>1. CmdTypes
  BY DEF CmdInv
<1>2. "none" \notin GpuClients /\ Commands(A)!NoClient = "none"
  BY OpKinds
<1>3. /\ gpc = "tick" /\ Commands(A)!TakeRequest
      /\ UNCHANGED <<writeLock, queue, lastFence, signaledFence, lastSyncFence, currentSyncFence,
                     swapCounters, freeSwapCounters, guestActions, cpc, op, fence, syncFence,
                     command>>
  OBVIOUS
<1>4. /\ gpc' \in {"store", "run"} /\ request' \in GpuClients \cup {"none"}
      /\ syncRequests' \in Seq(GpuClients)
      /\ gpc' = "store" => /\ syncRequests = <<>> /\ syncRequests' = <<>>
                           /\ Requested = {} /\ Requested' = {}
      /\ gpc' = "run" => /\ request' = syncRequests[1] /\ request' \in GpuClients
                         /\ Len(syncRequests) \in Nat \ {0}
                         /\ Len(syncRequests') = Len(syncRequests) - 1
                         /\ \A i \in 1 .. Len(syncRequests') :
                                syncRequests'[i] = syncRequests[i + 1]
                         /\ Requested = Requested' \cup {request'}
  BY <1>1, <1>3, NextRequest DEF CmdInv
<1>5. InHand = 0 /\ InHand' = IF gpc' = "run" THEN 1 ELSE 0
  BY <1>3, <1>4 DEF InHand
<1> HIDE DEF Commands!TickWork
<1>6. CmdTypes'
  BY <1>1, <1>2, <1>3, <1>4, <1>5 DEF CmdInv, CmdTypes, ThreadPCs
<1>7. CommandsOK(A)'
  BY <1>1, <1>2, <1>3, <1>4, <1>5 DEF CmdInv, CommandsOK
<1>8. PlaceOK(A)'
  BY <1>1, <1>2, <1>3, <1>4, <1>5 DEF CmdInv, PlaceOK
<1>9. RequestsOK'
  <2>1. CASE gpc' = "store"
    BY <1>3, <1>4, <1>5, <2>1 DEF CmdInv, RequestsOK
  <2>2. CASE gpc' = "run"
    <3>1. /\ lastSyncFence = currentSyncFence + Len(syncRequests)
          /\ \A i \in 1 .. Len(syncRequests) :
                 syncFence[syncRequests[i]] = lastSyncFence - Len(syncRequests) + i
      BY <1>1, <1>4, <1>5, <2>2 DEF CmdInv, RequestsOK, CmdTypes
    <3>2. lastSyncFence \in Nat /\ currentSyncFence \in Nat
      BY <1>1 DEF CmdTypes
    <3>3. 1 \in 1 .. Len(syncRequests) /\ syncFence[syncRequests[1]] = currentSyncFence + 1
      BY <1>4, <2>2, <3>1, <3>2
    <3>4. ASSUME NEW i \in 1 .. Len(syncRequests')
          PROVE  syncFence[syncRequests'[i]] = lastSyncFence - Len(syncRequests') + i
      <4>1. i + 1 \in 1 .. Len(syncRequests) /\ syncRequests'[i] = syncRequests[i + 1]
        BY <1>4, <2>2
      <4>2. syncFence[syncRequests'[i]] = lastSyncFence - Len(syncRequests) + (i + 1)
        BY <3>1, <4>1
      <4>3. /\ Len(syncRequests') = Len(syncRequests) - 1 /\ i \in Int
            /\ Len(syncRequests) \in Int
        BY <1>4, <2>2
      <4>4. QED
        BY <3>2, <4>2, <4>3
    <3>5. lastSyncFence = currentSyncFence + 1 + Len(syncRequests')
      BY <1>4, <2>2, <3>1, <3>2
    <3>6. \A u \in GpuClients :
              syncFence[u] = 0 <=> cpc[u] \in {"idle", "request"} \/ op[u].kind = "submit"
      BY DEF CmdInv, RequestsOK
    <3>7. QED
      BY <1>3, <1>4, <1>5, <2>2, <3>3, <3>4, <3>5, <3>6 DEF RequestsOK
  <2>3. QED
    BY <1>4, <2>1, <2>2
<1>10. TickOK'
  BY <1>1, <1>2, <1>3, <1>4, <1>5 DEF CmdInv, TickOK
<1>11. WakeOK'
  BY <1>1, <1>2, <1>3, <1>4, <1>5 DEF CmdInv, WakeOK
<1>12. SwapOK'
  <2>1. \A u \in GpuClients : NotYetRun(u)' <=> NotYetRun(u)
    BY <1>3, <1>4 DEF NotYetRun
  <2>2. QED
    BY <1>3, <2>1, SwapSame DEF CmdInv
<1>13. QED
  BY <1>6, <1>7, <1>8, <1>9, <1>10, <1>11, <1>12 DEF CmdInv

\* A request that was run is counted.
LEMMA CountRequestKeeps ==
    ASSUME NEW A \in BOOLEAN, CmdInv(A), Commands(A)!CountRequest
    PROVE  CmdInv(A)'
<1> USE DEF Commands!CountRequest, Commands!Counted, Commands!stateVars, Commands!syncVars,
       Commands!swapVars, Commands!clientVars, Commands!gpuVars
<1>1. CmdTypes
  BY DEF CmdInv
<1>2. "none" \notin GpuClients /\ Commands(A)!NoClient = "none"
  BY OpKinds
<1>3. /\ gpc = "count" /\ gpc' = "notify" /\ currentSyncFence' = currentSyncFence + 1
      /\ UNCHANGED <<writeLock, queue, lastFence, signaledFence, syncRequests, lastSyncFence,
                     swapCounters, freeSwapCounters, guestActions, cpc, op, fence, syncFence,
                     command, request>>
  OBVIOUS
<1>4. InHand = 1 /\ InHand' = 0
  BY <1>3 DEF InHand
<1>5. currentSyncFence \in Nat /\ lastSyncFence = currentSyncFence + 1 + Len(syncRequests)
      /\ Len(syncRequests) \in Nat
  <2>1. /\ syncRequests \in Seq(GpuClients)
        /\ lastSyncFence = currentSyncFence + InHand + Len(syncRequests)
    BY DEF CmdInv, RequestsOK
  <2>2. QED
    BY <1>1, <1>4, <2>1, LenProperties DEF CmdTypes
<1> HIDE DEF Commands!CountRequest, Commands!Counted
<1>6. CmdTypes'
  BY <1>1, <1>2, <1>3, <1>4, <1>5 DEF CmdInv, CmdTypes, ThreadPCs
<1>7. CommandsOK(A)'
  BY <1>1, <1>2, <1>3, <1>4, <1>5 DEF CmdInv, CommandsOK
<1>8. PlaceOK(A)'
  BY <1>1, <1>2, <1>3, <1>4, <1>5 DEF CmdInv, PlaceOK
<1>9. RequestsOK'
  BY <1>1, <1>2, <1>3, <1>4, <1>5 DEF CmdInv, RequestsOK, InHand
<1>10. TickOK'
  BY <1>1, <1>2, <1>3, <1>4, <1>5 DEF CmdInv, TickOK
<1>11. WakeOK'
  BY <1>1, <1>2, <1>3, <1>4, <1>5 DEF CmdInv, WakeOK
<1>12. SwapOK'
  <2>1. \A u \in GpuClients : NotYetRun(u)' <=> NotYetRun(u)
    BY <1>3 DEF NotYetRun, Requested
  <2>2. QED
    BY <1>3, <2>1, SwapSame DEF CmdInv
<1>13. QED
  BY <1>6, <1>7, <1>8, <1>9, <1>10, <1>11, <1>12 DEF CmdInv

\* Those who wait for requests run again, and the next request is taken.
LEMMA NotifyAndTakeKeeps ==
    ASSUME NEW A \in BOOLEAN, CmdInv(A), Commands(A)!NotifyAndTake
    PROVE  CmdInv(A)'
<1> USE DEF Commands!NotifyAndTake, Commands!CanNotify, Commands!SyncMutexFree, Commands!Woken,
       Commands!stateVars, Commands!syncVars, Commands!swapVars, Commands!clientVars,
       Commands!gpuVars
<1>1. CmdTypes
  BY DEF CmdInv
<1>2. "none" \notin GpuClients /\ Commands(A)!NoClient = "none"
  BY OpKinds
<1>3. /\ gpc = "notify" /\ Commands(A)!TakeRequest
      /\ UNCHANGED <<writeLock, queue, lastFence, signaledFence, lastSyncFence, currentSyncFence,
                     swapCounters, freeSwapCounters, guestActions, op, fence, syncFence,
                     command>>
  OBVIOUS
<1>4. /\ gpc' \in {"store", "run"} /\ request' \in GpuClients \cup {"none"}
      /\ syncRequests' \in Seq(GpuClients)
      /\ gpc' = "store" => /\ syncRequests = <<>> /\ syncRequests' = <<>>
                           /\ Requested = {} /\ Requested' = {}
      /\ gpc' = "run" => /\ request' = syncRequests[1] /\ request' \in GpuClients
                         /\ Len(syncRequests) \in Nat \ {0}
                         /\ Len(syncRequests') = Len(syncRequests) - 1
                         /\ \A i \in 1 .. Len(syncRequests') :
                                syncRequests'[i] = syncRequests[i + 1]
                         /\ Requested = Requested' \cup {request'}
  BY <1>1, <1>3, NextRequest DEF CmdInv
<1>5. InHand = 0 /\ InHand' = IF gpc' = "run" THEN 1 ELSE 0
  BY <1>3, <1>4 DEF InHand
<1>6. /\ cpc' \in [GpuClients -> ClientPCs]
      /\ \A u \in GpuClients : /\ cpc[u] # "drowsy"
                               /\ cpc'[u] = IF cpc[u] = "waiting" THEN "wait" ELSE cpc[u]
  BY <1>1 DEF CmdTypes, ClientPCs
<1> HIDE DEF Commands!NotifyAndTake, Commands!CanNotify, Commands!SyncMutexFree, Commands!Woken
<1>7. CmdTypes'
  BY <1>1, <1>2, <1>3, <1>4, <1>5, <1>6 DEF CmdInv, CmdTypes, ThreadPCs
<1>8. CommandsOK(A)'
  BY <1>1, <1>2, <1>3, <1>4, <1>5, <1>6 DEF CmdInv, CommandsOK
<1>9. PlaceOK(A)'
  BY <1>1, <1>2, <1>3, <1>4, <1>5, <1>6 DEF CmdInv, PlaceOK
<1>10. RequestsOK'
  <2>1. CASE gpc' = "store"
    BY <1>3, <1>4, <1>5, <1>6, <2>1 DEF CmdInv, RequestsOK
  <2>2. CASE gpc' = "run"
    <3>1. /\ lastSyncFence = currentSyncFence + Len(syncRequests)
          /\ \A i \in 1 .. Len(syncRequests) :
                 syncFence[syncRequests[i]] = lastSyncFence - Len(syncRequests) + i
      BY <1>1, <1>4, <1>5, <2>2 DEF CmdInv, RequestsOK, CmdTypes
    <3>2. lastSyncFence \in Nat /\ currentSyncFence \in Nat
      BY <1>1 DEF CmdTypes
    <3>3. 1 \in 1 .. Len(syncRequests) /\ syncFence[syncRequests[1]] = currentSyncFence + 1
      BY <1>4, <2>2, <3>1, <3>2
    <3>4. ASSUME NEW i \in 1 .. Len(syncRequests')
          PROVE  syncFence[syncRequests'[i]] = lastSyncFence - Len(syncRequests') + i
      <4>1. i + 1 \in 1 .. Len(syncRequests) /\ syncRequests'[i] = syncRequests[i + 1]
        BY <1>4, <2>2
      <4>2. syncFence[syncRequests'[i]] = lastSyncFence - Len(syncRequests) + (i + 1)
        BY <3>1, <4>1
      <4>3. /\ Len(syncRequests') = Len(syncRequests) - 1 /\ i \in Int
            /\ Len(syncRequests) \in Int
        BY <1>4, <2>2
      <4>4. QED
        BY <3>2, <4>2, <4>3
    <3>5. lastSyncFence = currentSyncFence + 1 + Len(syncRequests')
      BY <1>4, <2>2, <3>1, <3>2
    <3>6. \A u \in GpuClients :
              syncFence[u] = 0 <=> cpc'[u] \in {"idle", "request"} \/ op[u].kind = "submit"
      BY <1>6 DEF CmdInv, RequestsOK
    <3>7. QED
      BY <1>3, <1>4, <1>5, <2>2, <3>3, <3>4, <3>5, <3>6 DEF RequestsOK
  <2>3. QED
    BY <1>4, <2>1, <2>2
<1>11. TickOK'
  <2>1. \A u \in GpuClients : cpc[u] \in {"push", "emplace"} => cpc'[u] = cpc[u]
    BY <1>6
  <2>2. QED
    BY <1>3, <1>4, <2>1 DEF CmdInv, TickOK
<1>12. WakeOK'
  BY <1>1, <1>2, <1>3, <1>4, <1>5, <1>6 DEF CmdInv, WakeOK
<1>13. SwapOK'
  <2>1. \A u \in GpuClients : NotYetRun(u)' <=> NotYetRun(u)
    BY <1>3, <1>4, <1>6 DEF NotYetRun
  <2>2. QED
    BY <1>3, <2>1, SwapSame DEF CmdInv
<1>14. QED
  BY <1>7, <1>8, <1>9, <1>10, <1>11, <1>12, <1>13 DEF CmdInv

\* The fence of a command that was executed is stored.
LEMMA StoreFenceKeeps ==
    ASSUME NEW A \in BOOLEAN, CmdInv(A), Commands(A)!StoreFence
    PROVE  CmdInv(A)'
<1> USE DEF Commands!StoreFence, Commands!stateVars, Commands!syncVars, Commands!swapVars,
       Commands!clientVars, Commands!gpuVars
<1>1. CmdTypes
  BY DEF CmdInv
<1>2. "none" \notin GpuClients /\ Commands(A)!NoClient = "none"
  BY OpKinds
<1>3. /\ gpc = "store" /\ signaledFence' = command.fence
      /\ gpc' = (IF command.block THEN "unblock" ELSE "pop")
      /\ UNCHANGED <<writeLock, queue, lastFence, syncRequests, lastSyncFence, currentSyncFence,
                     swapCounters, freeSwapCounters, guestActions, cpc, op, fence, syncFence,
                     command, request>>
  OBVIOUS
<1>4. /\ command \in Orders(A) /\ command.block = ~A
      /\ command.fence <= lastFence /\ command.fence \in Nat
  BY <1>3 DEF CmdInv, CommandsOK, Orders
<1>5. InHand' = InHand
  BY <1>3 DEF InHand
<1> HIDE DEF Commands!StoreFence
<1>6. CmdTypes'
  BY <1>1, <1>2, <1>3, <1>4, <1>5 DEF CmdInv, CmdTypes, ThreadPCs
<1>7. CommandsOK(A)'
  BY <1>1, <1>2, <1>3, <1>4, <1>5 DEF CmdInv, CommandsOK
<1>8. PlaceOK(A)'
  BY <1>1, <1>2, <1>3, <1>4, <1>5 DEF CmdInv, PlaceOK
<1>9. RequestsOK'
  BY <1>1, <1>2, <1>3, <1>4, <1>5 DEF CmdInv, RequestsOK, InHand
<1>10. TickOK'
  BY <1>1, <1>2, <1>3, <1>4, <1>5 DEF CmdInv, TickOK
<1>11. WakeOK'
  <2>1. \A u \in GpuClients : A => cpc[u] \notin {"sleepy", "blocked"}
    BY DEF CmdInv, PlaceOK
  <2>2. \A u \in GpuClients :
            cpc[u] \in {"drowsy", "waiting"} => ~(currentSyncFence >= syncFence[u])
    BY <1>3 DEF CmdInv, WakeOK
  <2>3. ~A => gpc' = "unblock"
    BY <1>3, <1>4
  <2>4. QED
    BY <1>3, <2>1, <2>2, <2>3 DEF WakeOK
<1>12. SwapOK'
  <2>1. \A u \in GpuClients : NotYetRun(u)' <=> NotYetRun(u)
    BY <1>3 DEF NotYetRun, Requested
  <2>2. QED
    BY <1>3, <2>1, SwapSame DEF CmdInv
<1>13. QED
  BY <1>6, <1>7, <1>8, <1>9, <1>10, <1>11, <1>12 DEF CmdInv

\* Those who wait for commands run again.
LEMMA UnblockKeeps ==
    ASSUME NEW A \in BOOLEAN, CmdInv(A), Commands(A)!Unblock
    PROVE  CmdInv(A)'
<1> USE DEF Commands!Unblock, Commands!CanUnblock, Commands!Woken, Commands!stateVars,
       Commands!syncVars, Commands!swapVars, Commands!clientVars, Commands!gpuVars
<1>1. CmdTypes
  BY DEF CmdInv
<1>2. "none" \notin GpuClients /\ Commands(A)!NoClient = "none"
  BY OpKinds
<1>3. /\ gpc = "unblock" /\ gpc' = "pop" /\ writeLock = "none"
      /\ UNCHANGED <<writeLock, queue, lastFence, signaledFence, syncRequests, lastSyncFence,
                     currentSyncFence, swapCounters, freeSwapCounters, guestActions, op, fence,
                     syncFence, command, request>>
  BY <1>2
<1>4. InHand' = InHand
  BY <1>3 DEF InHand
<1>5. /\ cpc' \in [GpuClients -> ClientPCs]
      /\ \A u \in GpuClients : /\ cpc[u] # "sleepy"
                               /\ cpc'[u] = IF cpc[u] = "blocked" THEN "block" ELSE cpc[u]
  <2>1. \A u \in GpuClients : cpc[u] # "sleepy"
    BY <1>2, <1>3 DEF CmdInv, PlaceOK
  <2>2. QED
    BY <1>1, <2>1 DEF CmdTypes, ClientPCs
<1> HIDE DEF Commands!Unblock, Commands!CanUnblock, Commands!Woken
<1>6. CmdTypes'
  BY <1>1, <1>2, <1>3, <1>4, <1>5 DEF CmdInv, CmdTypes, ThreadPCs
<1>7. CommandsOK(A)'
  BY <1>1, <1>2, <1>3, <1>4, <1>5 DEF CmdInv, CommandsOK
<1>8. PlaceOK(A)'
  BY <1>1, <1>2, <1>3, <1>4, <1>5 DEF CmdInv, PlaceOK
<1>9. RequestsOK'
  BY <1>1, <1>2, <1>3, <1>4, <1>5 DEF CmdInv, RequestsOK, InHand
<1>10. TickOK'
  BY <1>1, <1>2, <1>3, <1>4, <1>5 DEF CmdInv, TickOK
<1>11. WakeOK'
  BY <1>1, <1>2, <1>3, <1>4, <1>5 DEF CmdInv, WakeOK
<1>12. SwapOK'
  <2>1. \A u \in GpuClients : NotYetRun(u)' <=> NotYetRun(u)
    BY <1>3, <1>5 DEF NotYetRun, Requested
  <2>2. QED
    BY <1>3, <2>1, SwapSame DEF CmdInv
<1>13. QED
  BY <1>6, <1>7, <1>8, <1>9, <1>10, <1>11, <1>12 DEF CmdInv

-----------------------------------------------------------------------------
(***************************************************************************)
(* Counters of compositions.                                               *)
(***************************************************************************)

\* What is left of a finite set after some were taken from it.
LEMMA TakenAway ==
    ASSUME NEW S, IsFiniteSet(S), NEW D \in SUBSET S
    PROVE  /\ IsFiniteSet(D) /\ IsFiniteSet(S \ D)
           /\ Cardinality(S) \in Nat /\ Cardinality(D) \in Nat /\ Cardinality(D) <= Cardinality(S)
           /\ Cardinality(S \ D) = Cardinality(S) - Cardinality(D)
<1>1. Cardinality(S) \in Nat
  BY FS_CardinalityType
<1>2. IsFiniteSet(D) /\ Cardinality(D) <= Cardinality(S)
  BY FS_Subset
<1>3. Cardinality(D) \in Nat
  BY <1>2, FS_CardinalityType
<1>4. IsFiniteSet(S \ D) /\ Cardinality(S \ D) = Cardinality(S) - Cardinality(S \cap D)
  BY FS_Difference
<1>5. S \cap D = D
  OBVIOUS
<1>6. QED
  BY <1>1, <1>2, <1>3, <1>4, <1>5

\* How many of some actions count down a counter.
TakenFrom(c, due) == Cardinality({a \in due : a.counter = c})

\* What the actions that are run take from the counters.
LEMMA CountersAfter ==
    ASSUME NEW A \in BOOLEAN, NEW counters \in Seq(Nat), NEW due,
           \A c \in 1 .. Len(counters) : TakenFrom(c, due) \in 0 .. counters[c],
           \A a \in due : a.counter \in 1 .. Len(counters)
    PROVE  /\ Commands(A)!Executed(counters, due) \in Seq(Nat)
           /\ Len(Commands(A)!Executed(counters, due)) = Len(counters)
           /\ \A c \in 1 .. Len(counters) :
                  Commands(A)!Executed(counters, due)[c] =
                      counters[c] - TakenFrom(c, due)
           /\ \A c \in Commands(A)!Finished(counters, due) :
                  /\ c \in 1 .. Len(counters) /\ \E a \in due : a.counter = c
                  /\ Commands(A)!Executed(counters, due)[c] = 0
<1>1. Len(counters) \in Nat /\ DOMAIN counters = 1 .. Len(counters)
      /\ \A c \in 1 .. Len(counters) : counters[c] \in Nat
  BY LenProperties, ElementOfSeq
<1>2. Commands(A)!Executed(counters, due) =
          [c \in 1 .. Len(counters) |-> counters[c] - TakenFrom(c, due)]
  BY <1>1, CmdCardinality DEF Commands!Executed, TakenFrom
<1>3. \A c \in 1 .. Len(counters) : counters[c] - TakenFrom(c, due) \in Nat
  BY <1>1
<1>4. PICK after : after = Commands(A)!Executed(counters, due)
  OBVIOUS
<1>5. after \in [1 .. Len(counters) -> Nat]
      /\ \A c \in 1 .. Len(counters) :
             after[c] = counters[c] - TakenFrom(c, due)
  BY <1>2, <1>3, <1>4
<1>6. after \in Seq(Nat)
  BY <1>1, <1>5, SeqDef
<1>7. Len(after) = Len(counters)
  BY <1>1, <1>5, <1>6, LenProperties
<1>8. \A c \in Commands(A)!Finished(counters, due) :
          c \in 1 .. Len(counters) /\ (\E a \in due : a.counter = c) /\ after[c] = 0
  BY <1>4 DEF Commands!Finished
<1>9. QED
  BY <1>4, <1>5, <1>6, <1>7, <1>8

\* A set listed without repetition.
LEMMA Listed ==
    ASSUME NEW n \in Nat, NEW S, NEW g \in [1 .. n -> S], \A a \in S : \E i \in 1 .. n : g[i] = a,
           \A i, j \in 1 .. n : g[i] = g[j] => i = j
    PROVE  IsFiniteSet(S) /\ Cardinality(S) = n
<1>1. g \in Surjection(1 .. n, S)
  BY DEF Surjection
<1>2. g \in Injection(1 .. n, S)
  BY DEF Injection, IsInjective
<1>3. IsFiniteSet(1 .. n) /\ Cardinality(1 .. n) = n
  BY FS_Interval
<1>4. QED
  BY <1>1, <1>2, <1>3, FS_Surjection

\* A composition waits for a sequence of values.
LEMMA ListsAreSequences ==
    ASSUME NEW f \in FenceLists
    PROVE  f \in Seq(Nat \ {0}) /\ Len(f) \in Nat /\ DOMAIN f = 1 .. Len(f)
<1>1. f \in Seq(Nat \ {0})
  BY CommandsAssumption DEF FenceLists, Commands!FenceListsAssumption
<1>2. QED
  BY <1>1, LenProperties

\* A composition gets a counter.
LEMMA RequestCompositeKeeps ==
    ASSUME NEW A \in BOOLEAN, CmdInv(A), NEW t \in GpuClients, NEW f \in FenceLists,
           Commands(A)!RequestComposite(t, f)
    PROVE  CmdInv(A)'
<1> USE DEF Commands!RequestComposite, Commands!stateVars, Commands!syncVars, Commands!swapVars,
       Commands!clientVars, Commands!gpuVars
<1>1. CmdTypes
  BY DEF CmdInv
<1>2. "none" \notin GpuClients /\ Commands(A)!NoClient = "none"
  BY OpKinds
<1>3. /\ cpc' \in [GpuClients -> ClientPCs] /\ cpc'[t] = "request"
      /\ \A u \in GpuClients : u # t => cpc'[u] = cpc[u]
  BY <1>1 DEF CmdTypes, ClientPCs, Commands!Goto
<1>4. PICK c : /\ c \in IF freeSwapCounters = {} THEN {Len(swapCounters) + 1} ELSE freeSwapCounters
               /\ swapCounters' = IF freeSwapCounters = {} THEN Append(swapCounters, Len(f))
                                  ELSE [swapCounters EXCEPT ![c] = Len(f)]
               /\ freeSwapCounters' = freeSwapCounters \ {c}
               /\ op' = [op EXCEPT ![t] = Commands(A)!Composite(f, c)]
  OBVIOUS
<1>5. /\ cpc[t] = "idle"
      /\ UNCHANGED <<writeLock, queue, lastFence, signaledFence, syncRequests, lastSyncFence,
                     currentSyncFence, guestActions, fence, syncFence, gpc, command, request>>
  OBVIOUS
<1>6. t \notin Requested /\ ~(gpc = "run" /\ request = t)
  <2>1. syncFence[t] = 0
    BY <1>5 DEF CmdInv, RequestsOK
  <2>2. currentSyncFence \in Nat
    BY <1>1 DEF CmdTypes
  <2>3. QED
    BY <1>1, <2>1, <2>2, RequestAbove DEF CmdInv
<1>7. /\ swapCounters \in Seq(Nat) /\ Len(swapCounters) \in Nat
      /\ freeSwapCounters \subseteq 1 .. Len(swapCounters)
      /\ \A d \in freeSwapCounters : Left(d) = {}
      /\ \A a \in guestActions : a.counter \in 1 .. Len(swapCounters)
      /\ f \in Seq(Nat \ {0}) /\ Len(f) \in Nat
  BY LenProperties, ListsAreSequences DEF CmdInv, SwapOK
<1>8. /\ swapCounters' \in Seq(Nat) /\ c \in 1 .. Len(swapCounters') /\ swapCounters'[c] = Len(f)
      /\ c \notin 1 .. Len(swapCounters) \/ c \in freeSwapCounters
      /\ \A d \in 1 .. Len(swapCounters') :
             d # c => d \in 1 .. Len(swapCounters) /\ swapCounters'[d] = swapCounters[d]
      /\ 1 .. Len(swapCounters) \subseteq 1 .. Len(swapCounters')
  <2> HIDE DEF Commands!RequestComposite
  <2>1. CASE freeSwapCounters = {}
    <3>1. swapCounters' = Append(swapCounters, Len(f)) /\ c = Len(swapCounters) + 1
      BY <1>4, <2>1
    <3>2. /\ swapCounters' \in Seq(Nat) /\ Len(swapCounters') = Len(swapCounters) + 1
          /\ \A i \in 1 .. Len(swapCounters) : swapCounters'[i] = swapCounters[i]
          /\ swapCounters'[Len(swapCounters) + 1] = Len(f)
      BY <1>7, <3>1, Appended
    <3>3. QED
      BY <1>7, <3>1, <3>2
  <2>2. CASE freeSwapCounters # {}
    <3>1. c \in freeSwapCounters /\ swapCounters' = [swapCounters EXCEPT ![c] = Len(f)]
      BY <1>4, <2>2
    <3>2. c \in 1 .. Len(swapCounters)
      BY <1>7, <3>1
    <3>3. /\ swapCounters' \in Seq(Nat) /\ Len(swapCounters') = Len(swapCounters)
          /\ \A j \in 1 .. Len(swapCounters) :
                 swapCounters'[j] = IF j = c THEN Len(f) ELSE swapCounters[j]
      BY <1>7, <3>1, <3>2, ExceptSeq
    <3>4. QED
      BY <3>1, <3>2, <3>3
  <2>3. QED
    BY <2>1, <2>2
<1>9. /\ op' \in [GpuClients -> CmdOps] /\ op'[t].kind = "composite" /\ op'[t].counter = c
      /\ op'[t].fences = f /\ \A u \in GpuClients : u # t => op'[u] = op[u]
  <2>1. c \in Nat
    BY <1>8
  <2>2. PICK o : o = [kind |-> "composite", fences |-> f, counter |-> c]
    OBVIOUS
  <2>3. o \in CmdOps /\ o.kind = "composite" /\ o.counter = c /\ o.fences = f
    BY <2>1, <2>2 DEF CmdOps
  <2>4. op' = [op EXCEPT ![t] = o]
    BY <1>4, <2>2 DEF Commands!Composite
  <2> HIDE DEF Commands!RequestComposite
  <2>5. QED
    BY <1>1, <2>3, <2>4 DEF CmdTypes
<1>10. freeSwapCounters' = freeSwapCounters \ {c}
  BY <1>4
<1> HIDE DEF Commands!RequestComposite
<1>11. CmdTypes'
  BY <1>1, <1>2, <1>3, <1>4, <1>5, <1>6, <1>7, <1>8, <1>9, <1>10 DEF CmdInv, CmdTypes, ThreadPCs
<1>12. CommandsOK(A)'
  BY <1>1, <1>2, <1>3, <1>4, <1>5, <1>6, <1>7, <1>8, <1>9, <1>10 DEF CmdInv, CommandsOK
<1>13. PlaceOK(A)'
  BY <1>3, <1>5, <1>9 DEF CmdInv, PlaceOK
<1>14. RequestsOK'
  BY <1>1, <1>2, <1>3, <1>4, <1>5, <1>6, <1>7, <1>8, <1>9, <1>10 DEF CmdInv, RequestsOK, InHand
<1>15. TickOK'
  BY <1>1, <1>2, <1>3, <1>4, <1>5, <1>6, <1>7, <1>8, <1>9, <1>10 DEF CmdInv, TickOK
<1>16. WakeOK'
  BY <1>1, <1>2, <1>3, <1>4, <1>5, <1>6, <1>7, <1>8, <1>9, <1>10 DEF CmdInv, WakeOK
<1>17. SwapOK'
  <2>1. /\ ~NotYetRun(t) /\ NotYetRun(t)'
        /\ \A u \in GpuClients : u # t => (NotYetRun(u)' <=> NotYetRun(u))
    BY <1>3, <1>5, <1>6, <1>9 DEF NotYetRun, Requested
  <2>2. \A u \in GpuClients : NotYetRun(u) =>
            /\ op[u].counter \in 1 .. Len(swapCounters) /\ op[u].counter \notin freeSwapCounters
            /\ \A a \in guestActions : a.counter # op[u].counter
            /\ swapCounters[op[u].counter] = Len(op[u].fences)
    BY DEF CmdInv, SwapOK
  <2>3. \A a \in guestActions : a.counter # c
    BY <1>7, <1>8 DEF Left
  <2>4. \A u \in GpuClients : NotYetRun(u)' =>
            /\ op'[u].counter \in 1 .. Len(swapCounters') /\ op'[u].counter \notin freeSwapCounters'
            /\ \A a \in guestActions' : a.counter # op'[u].counter
            /\ swapCounters'[op'[u].counter] = Len(op'[u].fences)
    <3>1. ASSUME NEW u \in GpuClients, u # t, NotYetRun(u)
          PROVE  /\ op'[u].counter \in 1 .. Len(swapCounters')
                 /\ op'[u].counter \notin freeSwapCounters'
                 /\ \A a \in guestActions' : a.counter # op'[u].counter
                 /\ swapCounters'[op'[u].counter] = Len(op'[u].fences)
      <4>1. op'[u] = op[u] /\ op[u].counter # c
        BY <1>8, <1>9, <2>2, <3>1
      <4>2. QED
        BY <1>5, <1>8, <1>10, <2>2, <3>1, <4>1
    <3>2. QED
      BY <1>5, <1>8, <1>9, <1>10, <2>1, <2>3, <3>1
  <2>5. \A u, v \in GpuClients :
            NotYetRun(u)' /\ NotYetRun(v)' /\ op'[u].counter = op'[v].counter => u = v
    <3>1. \A u \in GpuClients : u # t /\ NotYetRun(u)' => op'[u].counter # c
      BY <1>8, <1>9, <2>1, <2>2
    <3>2. \A u, v \in GpuClients :
              NotYetRun(u) /\ NotYetRun(v) /\ op[u].counter = op[v].counter => u = v
      BY DEF CmdInv, SwapOK
    <3>3. QED
      BY <1>9, <2>1, <3>1, <3>2
  <2>6. \A d \in 1 .. Len(swapCounters') :
            (\A u \in GpuClients : NotYetRun(u)' => op'[u].counter # d) =>
                swapCounters'[d] = Cardinality(Left(d)')
    <3>1. SUFFICES ASSUME NEW d \in 1 .. Len(swapCounters'),
                          \A u \in GpuClients : NotYetRun(u)' => op'[u].counter # d
                   PROVE  swapCounters'[d] = Cardinality(Left(d)')
      OBVIOUS
    <3>2. d # c
      BY <1>9, <2>1, <3>1
    <3>3. \A u \in GpuClients : NotYetRun(u) => op[u].counter # d
      BY <1>9, <2>1, <3>1
    <3>4. d \in 1 .. Len(swapCounters) /\ swapCounters'[d] = swapCounters[d]
      BY <1>8, <3>2
    <3>5. Left(d)' = Left(d)
      BY <1>5 DEF Left
    <3>6. QED
      BY <3>3, <3>4, <3>5 DEF CmdInv, SwapOK
  <2>7. \A d \in freeSwapCounters' : Left(d)' = {}
    BY <1>5, <1>7, <1>10 DEF Left
  <2>8. /\ freeSwapCounters' \subseteq 1 .. Len(swapCounters') /\ IsFiniteSet(guestActions')
        /\ \A a \in guestActions' : a.counter \in 1 .. Len(swapCounters')
    BY <1>5, <1>7, <1>8, <1>10 DEF CmdInv, SwapOK
  <2>9. QED
    BY <1>8, <2>4, <2>5, <2>6, <2>7, <2>8 DEF SwapOK
<1>18. QED
  BY <1>11, <1>12, <1>13, <1>14, <1>15, <1>16, <1>17 DEF CmdInv

\* A list is executed: the guest syncpoint reaches a value.
LEMMA ExecuteKeeps ==
    ASSUME NEW A \in BOOLEAN, CmdInv(A), Commands(A)!Execute
    PROVE  CmdInv(A)'
<1> USE DEF Commands!Execute, Commands!stateVars, Commands!syncVars, Commands!swapVars,
       Commands!clientVars, Commands!gpuVars
<1>1. CmdTypes
  BY DEF CmdInv
<1>2. "none" \notin GpuClients /\ Commands(A)!NoClient = "none"
  BY OpKinds
<1>3. PICK due : /\ due = {a \in guestActions : a.value <= guestValue + 1}
               /\ guestActions' = guestActions \ due
               /\ swapCounters' = Commands(A)!Executed(swapCounters, due)
               /\ freeSwapCounters' = freeSwapCounters \cup Commands(A)!Finished(swapCounters, due)
  OBVIOUS
<1>4. /\ gpc = "execute" /\ gpc' = "store"
      /\ UNCHANGED <<writeLock, queue, lastFence, signaledFence, syncRequests, lastSyncFence,
                     currentSyncFence, cpc, op, fence, syncFence, command, request>>
  OBVIOUS
<1>5. InHand' = InHand
  BY <1>4 DEF InHand
<1>6. /\ swapCounters \in Seq(Nat) /\ freeSwapCounters \subseteq 1 .. Len(swapCounters)
      /\ IsFiniteSet(guestActions)
      /\ \A a \in guestActions : a.counter \in 1 .. Len(swapCounters)
  BY DEF CmdInv, SwapOK
<1>7. \A c \in 1 .. Len(swapCounters) :
          /\ Cardinality(Left(c)) \in Nat /\ TakenFrom(c, due) \in Nat
          /\ TakenFrom(c, due) <= Cardinality(Left(c))
          /\ Cardinality(Left(c)') = Cardinality(Left(c)) - TakenFrom(c, due)
  <2>1. /\ due \in SUBSET guestActions /\ IsFiniteSet(guestActions)
        /\ guestActions' = guestActions \ due
    BY <1>3, <1>6
  <2> HIDE DEF Commands!Execute
  <2>2. ASSUME NEW c \in 1 .. Len(swapCounters)
        PROVE  /\ Cardinality(Left(c)) \in Nat /\ TakenFrom(c, due) \in Nat
               /\ TakenFrom(c, due) <= Cardinality(Left(c))
               /\ Cardinality(Left(c)') =
                      Cardinality(Left(c)) - TakenFrom(c, due)
    <3>1. PICK D : D = {a \in due : a.counter = c}
      OBVIOUS
    <3>2. D \in SUBSET Left(c) /\ Left(c) \in SUBSET guestActions /\ Left(c)' = Left(c) \ D
      BY <2>1, <3>1 DEF Left
    <3>3. IsFiniteSet(Left(c))
      BY <2>1, <3>2, FS_Subset
    <3>4. /\ Cardinality(Left(c)) \in Nat /\ Cardinality(D) \in Nat
          /\ Cardinality(D) <= Cardinality(Left(c))
          /\ Cardinality(Left(c) \ D) = Cardinality(Left(c)) - Cardinality(D)
      BY <3>2, <3>3, TakenAway
    <3>5. QED
      BY <3>1, <3>2, <3>4 DEF TakenFrom
  <2>3. QED
    BY <2>2
<1>8. \A c \in 1 .. Len(swapCounters) :
          /\ swapCounters[c] \in Nat
          /\ \/ /\ \A a \in guestActions : a.counter # c
                /\ TakenFrom(c, due) = 0
             \/ swapCounters[c] = Cardinality(Left(c))
  <2>1. SUFFICES ASSUME NEW c \in 1 .. Len(swapCounters)
                 PROVE  /\ swapCounters[c] \in Nat
                        /\ \/ /\ \A a \in guestActions : a.counter # c
                              /\ TakenFrom(c, due) = 0
                           \/ swapCounters[c] = Cardinality(Left(c))
    OBVIOUS
  <2>2. swapCounters[c] \in Nat
    BY <1>6, ElementOfSeq
  <2>3. CASE \A u \in GpuClients : NotYetRun(u) => op[u].counter # c
    BY <2>2, <2>3 DEF CmdInv, SwapOK
  <2>4. CASE \E u \in GpuClients : NotYetRun(u) /\ op[u].counter = c
    <3>1. \A a \in guestActions : a.counter # c
      BY <2>4 DEF CmdInv, SwapOK
    <3>2. {a \in due : a.counter = c} = {}
      BY <1>3, <3>1
    <3>3. QED
      BY <2>2, <3>1, <3>2, FS_EmptySet DEF TakenFrom
  <2>5. QED
    BY <2>3, <2>4
<1>9. /\ swapCounters' \in Seq(Nat) /\ Len(swapCounters') = Len(swapCounters)
      /\ \A c \in 1 .. Len(swapCounters) :
             swapCounters'[c] = swapCounters[c] - TakenFrom(c, due)
      /\ \A c \in freeSwapCounters' \ freeSwapCounters :
             /\ c \in 1 .. Len(swapCounters) /\ \E a \in due : a.counter = c
             /\ swapCounters'[c] = 0
  <2>1. \A a \in due : a.counter \in 1 .. Len(swapCounters)
    BY <1>3, <1>6
  <2>2. \A c \in 1 .. Len(swapCounters) :
            TakenFrom(c, due) \in 0 .. swapCounters[c]
    BY <1>7, <1>8
  <2> HIDE DEF Commands!Execute
  <2>3. /\ Commands(A)!Executed(swapCounters, due) \in Seq(Nat)
        /\ Len(Commands(A)!Executed(swapCounters, due)) = Len(swapCounters)
        /\ \A c \in 1 .. Len(swapCounters) :
               Commands(A)!Executed(swapCounters, due)[c] =
                   swapCounters[c] - TakenFrom(c, due)
        /\ \A c \in Commands(A)!Finished(swapCounters, due) :
               /\ c \in 1 .. Len(swapCounters) /\ \E a \in due : a.counter = c
               /\ Commands(A)!Executed(swapCounters, due)[c] = 0
    BY <1>6, <2>1, <2>2, CountersAfter
  <2>4. freeSwapCounters' \ freeSwapCounters \subseteq Commands(A)!Finished(swapCounters, due)
    BY <1>3
  <2>5. QED
    BY <1>3, <2>3, <2>4
<1> HIDE DEF Commands!Execute
<1>10. CmdTypes'
  BY <1>1, <1>2, <1>3, <1>4, <1>5, <1>6, <1>7, <1>8, <1>9 DEF CmdInv, CmdTypes, ThreadPCs
<1>11. CommandsOK(A)'
  BY <1>1, <1>2, <1>3, <1>4, <1>5, <1>6, <1>7, <1>8, <1>9 DEF CmdInv, CommandsOK
<1>12. PlaceOK(A)'
  BY <1>1, <1>2, <1>3, <1>4, <1>5, <1>6, <1>7, <1>8, <1>9 DEF CmdInv, PlaceOK
<1>13. RequestsOK'
  BY <1>1, <1>2, <1>3, <1>4, <1>5, <1>6, <1>7, <1>8, <1>9 DEF CmdInv, RequestsOK, InHand
<1>14. TickOK'
  BY <1>1, <1>2, <1>3, <1>4, <1>5, <1>6, <1>7, <1>8, <1>9 DEF CmdInv, TickOK
<1>15. WakeOK'
  BY <1>1, <1>2, <1>3, <1>4, <1>5, <1>6, <1>7, <1>8, <1>9 DEF CmdInv, WakeOK
<1>16. SwapOK'
  <2>1. \A u \in GpuClients : NotYetRun(u)' <=> NotYetRun(u)
    BY <1>4 DEF NotYetRun, Requested
  <2>2. \A u \in GpuClients : NotYetRun(u) =>
            /\ op[u].counter \in 1 .. Len(swapCounters) /\ op[u].counter \notin freeSwapCounters
            /\ \A a \in guestActions : a.counter # op[u].counter
            /\ swapCounters[op[u].counter] = Len(op[u].fences)
    BY DEF CmdInv, SwapOK
  <2>3. \A u \in GpuClients : NotYetRun(u) =>
            /\ op[u].counter \notin freeSwapCounters'
            /\ \A a \in guestActions' : a.counter # op[u].counter
            /\ swapCounters'[op[u].counter] = Len(op[u].fences)
    <3>1. SUFFICES ASSUME NEW u \in GpuClients, NotYetRun(u)
                   PROVE  /\ op[u].counter \notin freeSwapCounters'
                          /\ \A a \in guestActions' : a.counter # op[u].counter
                          /\ swapCounters'[op[u].counter] = Len(op[u].fences)
      OBVIOUS
    <3>2. PICK c : c = op[u].counter
      OBVIOUS
    <3>3. /\ c \in 1 .. Len(swapCounters) /\ \A a \in guestActions : a.counter # c
          /\ c \notin freeSwapCounters /\ swapCounters[c] = Len(op[u].fences)
      BY <2>2, <3>1, <3>2
    <3>4. {a \in due : a.counter = c} = {}
      BY <1>3, <3>3
    <3>5. swapCounters'[c] = swapCounters[c]
      <4>1. TakenFrom(c, due) = 0
        BY <3>4, FS_EmptySet DEF TakenFrom
      <4>2. QED
        BY <1>8, <1>9, <3>3, <4>1
    <3>6. c \notin freeSwapCounters'
      BY <1>9, <3>3, <3>4
    <3>7. QED
      BY <1>3, <3>2, <3>3, <3>5, <3>6
  <2>4. \A c \in 1 .. Len(swapCounters) :
            (\A u \in GpuClients : NotYetRun(u) => op[u].counter # c) =>
                swapCounters'[c] = Cardinality(Left(c)')
    <3>1. \A c \in 1 .. Len(swapCounters) :
              (\A u \in GpuClients : NotYetRun(u) => op[u].counter # c) =>
                  swapCounters[c] = Cardinality(Left(c))
      BY DEF CmdInv, SwapOK
    <3>2. QED
      BY <1>7, <1>9, <3>1
  <2>5. \A c \in freeSwapCounters' : Left(c)' = {}
    <3>1. SUFFICES ASSUME NEW c \in freeSwapCounters', c \notin freeSwapCounters
                   PROVE  Left(c)' = {}
      <4>1. \A c \in freeSwapCounters : Left(c) = {}
        BY DEF CmdInv, SwapOK
      <4>2. QED
        BY <1>3, <4>1 DEF Left
    <3>2. c \in 1 .. Len(swapCounters) /\ swapCounters'[c] = 0 /\ \E a \in due : a.counter = c
      BY <1>9, <3>1
    <3>3. swapCounters[c] = Cardinality(Left(c))
      BY <1>3, <1>8, <3>2
    <3>4. Cardinality(Left(c)') = 0
      BY <1>7, <1>9, <3>2, <3>3
    <3>5. IsFiniteSet(Left(c)')
      <4>1. Left(c)' \subseteq guestActions
        BY <1>3 DEF Left
      <4>2. QED
        BY <1>6, <4>1, FS_Subset
    <3>6. QED
      BY <3>4, <3>5, FS_EmptySet
  <2>6. /\ freeSwapCounters' \subseteq 1 .. Len(swapCounters') /\ IsFiniteSet(guestActions')
        /\ \A a \in guestActions' : a.counter \in 1 .. Len(swapCounters')
    <3>1. IsFiniteSet(guestActions')
      <4>1. guestActions' \subseteq guestActions
        BY <1>3
      <4>2. QED
        BY <1>6, <4>1, FS_Subset
    <3>2. QED
      BY <1>3, <1>6, <1>9, <3>1
  <2>7. \A u, v \in GpuClients :
            NotYetRun(u)' /\ NotYetRun(v)' /\ op'[u].counter = op'[v].counter => u = v
    BY <1>4, <2>1 DEF CmdInv, SwapOK
  <2>8. QED
    BY <1>4, <1>9, <2>1, <2>2, <2>3, <2>4, <2>5, <2>6, <2>7 DEF SwapOK
<1>17. QED
  BY <1>10, <1>11, <1>12, <1>13, <1>14, <1>15, <1>16 DEF CmdInv

\* A request that is no composition is run.
LEMMA RunPlainKeeps ==
    ASSUME NEW A \in BOOLEAN, CmdInv(A), Commands(A)!RunRequest, op[request].kind # "composite"
    PROVE  CmdInv(A)'
<1> USE DEF Commands!RunRequest, Commands!stateVars, Commands!syncVars, Commands!swapVars,
       Commands!clientVars, Commands!gpuVars
<1>1. CmdTypes
  BY DEF CmdInv
<1>2. "none" \notin GpuClients /\ Commands(A)!NoClient = "none"
  BY OpKinds
<1>3. /\ gpc = "run" /\ gpc' = "count" /\ op[request].kind # "composite"
      /\ UNCHANGED <<writeLock, queue, lastFence, signaledFence, syncRequests, lastSyncFence,
                     currentSyncFence, swapCounters, freeSwapCounters, guestActions, cpc, op,
                     fence, syncFence, command, request>>
  OBVIOUS
<1>4. InHand' = InHand
  BY <1>3 DEF InHand
<1> HIDE DEF Commands!RunRequest
<1>5. CmdTypes'
  BY <1>1, <1>2, <1>3, <1>4 DEF CmdInv, CmdTypes, ThreadPCs
<1>6. CommandsOK(A)'
  BY <1>1, <1>2, <1>3, <1>4 DEF CmdInv, CommandsOK
<1>7. PlaceOK(A)'
  BY <1>1, <1>2, <1>3, <1>4 DEF CmdInv, PlaceOK
<1>8. RequestsOK'
  BY <1>3, <1>4 DEF CmdInv, RequestsOK
<1>9. TickOK'
  BY <1>1, <1>2, <1>3, <1>4 DEF CmdInv, TickOK
<1>10. WakeOK'
  BY <1>1, <1>2, <1>3, <1>4 DEF CmdInv, WakeOK
<1>11. SwapOK'
  <2>1. \A u \in GpuClients : NotYetRun(u)' <=> NotYetRun(u)
    BY <1>3 DEF NotYetRun, Requested
  <2>2. QED
    BY <1>3, <2>1, SwapSame DEF CmdInv
<1>12. QED
  BY <1>5, <1>6, <1>7, <1>8, <1>9, <1>10, <1>11 DEF CmdInv

\* A composition is run: its actions are registered, but for those of values reached.
LEMMA RunCompositeKeeps ==
    ASSUME NEW A \in BOOLEAN, CmdInv(A), Commands(A)!RunRequest, op[request].kind = "composite"
    PROVE  CmdInv(A)'
<1> USE DEF Commands!RunRequest, Commands!stateVars, Commands!syncVars, Commands!swapVars,
       Commands!clientVars, Commands!gpuVars
<1>1. CmdTypes
  BY DEF CmdInv
<1>2. "none" \notin GpuClients /\ Commands(A)!NoClient = "none"
  BY OpKinds
<1>3. /\ gpc = "run" /\ gpc' = "count" /\ op[request].kind = "composite"
      /\ UNCHANGED <<writeLock, queue, lastFence, signaledFence, syncRequests, lastSyncFence,
                     currentSyncFence, cpc, op, fence, syncFence, command, request>>
  OBVIOUS
<1>4. InHand' = InHand
  BY <1>3 DEF InHand
<1>5. request \in GpuClients /\ NotYetRun(request) /\ ~NotYetRun(request)'
  <2>1. request \in GpuClients /\ syncFence[request] = currentSyncFence + 1
    BY <1>3 DEF CmdInv, RequestsOK
  <2>2. currentSyncFence \in Nat /\ InHand = 1
    BY <1>1, <1>3 DEF CmdTypes, InHand
  <2>3. request \notin Requested
    <3>1. request \in Requested => syncFence[request] > currentSyncFence + InHand
      BY <1>1, <2>1, RequestAbove DEF CmdInv
    <3>2. QED
      BY <2>1, <2>2, <3>1
  <2>4. cpc[request] # "request"
    <3>1. syncFence[request] # 0
      BY <2>1, <2>2
    <3>2. QED
      BY <2>1, <3>1 DEF CmdInv, RequestsOK
  <2>5. QED
    BY <1>3, <2>1, <2>3, <2>4 DEF NotYetRun, Requested
<1>6. PICK f \in FenceLists, n \in Nat : op[request].fences = f /\ op[request].counter = n
  <2>1. op[request] \in CmdOps
    BY <1>1, <1>5 DEF CmdTypes
  <2>2. op[request].fences \in FenceLists /\ op[request].counter \in Nat
    BY <1>3, <2>1, OpKinds
  <2>3. QED
    BY <2>2
<1>7. /\ swapCounters \in Seq(Nat) /\ freeSwapCounters \subseteq 1 .. Len(swapCounters)
      /\ IsFiniteSet(guestActions) /\ \A a \in guestActions : a.counter \in 1 .. Len(swapCounters)
      /\ n \in 1 .. Len(swapCounters) /\ n \notin freeSwapCounters
      /\ \A a \in guestActions : a.counter # n
      /\ swapCounters[n] = Len(f) /\ Len(f) \in Nat /\ DOMAIN f = 1 .. Len(f)
  <2>1. Len(f) \in Nat /\ DOMAIN f = 1 .. Len(f)
    BY ListsAreSequences
  <2>2. QED
    BY <1>5, <1>6, <2>1 DEF CmdInv, SwapOK
<1>8. PICK all, due :
             /\ all = {[value |-> f[i], counter |-> n, index |-> i] : i \in 1 .. Len(f)}
             /\ due \in SUBSET all
             /\ guestActions' = guestActions \cup (all \ due)
             /\ swapCounters' = Commands(A)!Executed(swapCounters, due)
             /\ freeSwapCounters' = freeSwapCounters \cup Commands(A)!Finished(swapCounters, due)
  <2>1. PICK all :
            all = {[value |-> op[request].fences[i], counter |-> op[request].counter,
                    index |-> i] : i \in DOMAIN op[request].fences}
    OBVIOUS
  <2>2. PICK due : due = {a \in all : a.value <= guestValue}
    OBVIOUS
  <2>3. /\ guestActions' = guestActions \cup (all \ due)
        /\ swapCounters' = Commands(A)!Executed(swapCounters, due)
        /\ freeSwapCounters' = freeSwapCounters \cup Commands(A)!Finished(swapCounters, due)
    BY <1>3, <2>1, <2>2
  <2>4. all = {[value |-> f[i], counter |-> n, index |-> i] : i \in 1 .. Len(f)}
    BY <1>6, <1>7, <2>1
  <2>5. due \in SUBSET all
    BY <2>2
  <2> HIDE DEF Commands!RunRequest
  <2>6. QED
    BY <2>3, <2>4, <2>5
<1>9. /\ IsFiniteSet(all) /\ Cardinality(all) = Len(f) /\ \A a \in all : a.counter = n
      /\ IsFiniteSet(all \ due) /\ Cardinality(due) \in Nat /\ Cardinality(due) <= Len(f)
      /\ Cardinality(all \ due) = Len(f) - Cardinality(due)
  <2> HIDE DEF Commands!RunRequest
  <2>1. IsFiniteSet(all) /\ Cardinality(all) = Len(f) /\ \A a \in all : a.counter = n
    <3>1. PICK g : g = [i \in 1 .. Len(f) |-> [value |-> f[i], counter |-> n, index |-> i]]
      OBVIOUS
    <3>2. /\ g \in [1 .. Len(f) -> all] /\ \A a \in all : \E i \in 1 .. Len(f) : g[i] = a
          /\ \A i \in 1 .. Len(f) : g[i].index = i
          /\ \A a \in all : a.counter = n
      BY <1>8, <3>1
    <3>3. \A i, j \in 1 .. Len(f) : g[i] = g[j] => i = j
      BY <3>2
    <3>4. Len(f) \in Nat
      BY <1>7
    <3>5. IsFiniteSet(all) /\ Cardinality(all) = Len(f)
      BY <3>2, <3>3, <3>4, Listed
    <3>6. QED
      BY <3>2, <3>5
  <2>2. /\ IsFiniteSet(all \ due) /\ Cardinality(due) \in Nat
        /\ Cardinality(due) <= Cardinality(all)
        /\ Cardinality(all \ due) = Cardinality(all) - Cardinality(due)
    BY <1>8, <2>1, TakenAway
  <2>3. QED
    BY <2>1, <2>2
<1>10. /\ Left(n)' = all \ due /\ {a \in due : a.counter = n} = due
       /\ \A c : c # n => Left(c)' = Left(c) /\ {a \in due : a.counter = c} = {}
  <2>1. /\ guestActions' = guestActions \cup (all \ due) /\ due \in SUBSET all
        /\ \A a \in all : a.counter = n
        /\ \A a \in guestActions : a.counter # n
    BY <1>7, <1>8, <1>9
  <2> HIDE DEF Commands!RunRequest
  <2>2. QED
    BY <2>1 DEF Left
<1>11. /\ swapCounters' \in Seq(Nat) /\ Len(swapCounters') = Len(swapCounters)
       /\ swapCounters'[n] = Len(f) - Cardinality(due)
       /\ \A c \in 1 .. Len(swapCounters) : c # n => swapCounters'[c] = swapCounters[c]
       /\ freeSwapCounters' \subseteq freeSwapCounters \cup {n}
       /\ n \in freeSwapCounters' => swapCounters'[n] = 0
  <2>1. \A a \in due : a.counter = n
    BY <1>8, <1>9
  <2>2. \A c \in 1 .. Len(swapCounters) :
            /\ swapCounters[c] \in Nat
            /\ TakenFrom(c, due) = IF c = n THEN Cardinality(due) ELSE 0
    <3>1. \A c \in 1 .. Len(swapCounters) : swapCounters[c] \in Nat
      BY <1>7, ElementOfSeq
    <3>2. Cardinality({}) = 0
      BY FS_EmptySet
    <3>3. \A c \in 1 .. Len(swapCounters) : c # n => TakenFrom(c, due) = 0
      BY <1>10, <3>2 DEF TakenFrom
    <3>4. TakenFrom(n, due) = Cardinality(due)
      BY <1>10 DEF TakenFrom
    <3>5. QED
      BY <3>1, <3>3, <3>4
  <2>3. \A c \in 1 .. Len(swapCounters) :
            TakenFrom(c, due) \in 0 .. swapCounters[c]
    <3>1. \A c \in 1 .. Len(swapCounters) :
              /\ swapCounters[c] \in Nat
              /\ \/ TakenFrom(c, due) = 0
                 \/ /\ TakenFrom(c, due) \in Nat
                    /\ TakenFrom(c, due) <= swapCounters[c]
      BY <1>7, <1>9, <2>2
    <3>2. QED
      BY <3>1
  <2> HIDE DEF Commands!RunRequest
  <2>4. \A a \in due : a.counter \in 1 .. Len(swapCounters)
    BY <1>7, <2>1
  <2>5. /\ Commands(A)!Executed(swapCounters, due) \in Seq(Nat)
        /\ Len(Commands(A)!Executed(swapCounters, due)) = Len(swapCounters)
        /\ \A c \in 1 .. Len(swapCounters) :
               Commands(A)!Executed(swapCounters, due)[c] =
                   swapCounters[c] - TakenFrom(c, due)
        /\ \A c \in Commands(A)!Finished(swapCounters, due) :
               /\ c \in 1 .. Len(swapCounters) /\ \E a \in due : a.counter = c
               /\ Commands(A)!Executed(swapCounters, due)[c] = 0
    <3>1. swapCounters \in Seq(Nat)
      BY <1>7
    <3>2. QED
      BY <2>3, <2>4, <3>1, CountersAfter
  <2>6. /\ swapCounters' \in Seq(Nat) /\ Len(swapCounters') = Len(swapCounters)
        /\ \A c \in 1 .. Len(swapCounters) :
               swapCounters'[c] = swapCounters[c] - TakenFrom(c, due)
    BY <1>8, <2>5
  <2>7. \A c \in Commands(A)!Finished(swapCounters, due) : c = n /\ swapCounters'[c] = 0
    BY <1>8, <2>1, <2>5
  <2>8. /\ freeSwapCounters' \subseteq freeSwapCounters \cup {n}
        /\ n \in freeSwapCounters' => swapCounters'[n] = 0
    BY <1>7, <1>8, <2>7
  <2>9. /\ swapCounters'[n] = Len(f) - Cardinality(due)
        /\ \A c \in 1 .. Len(swapCounters) : c # n => swapCounters'[c] = swapCounters[c]
    <3>1. n \in 1 .. Len(swapCounters) /\ swapCounters[n] = Len(f)
      BY <1>7
    <3>2. \A c \in 1 .. Len(swapCounters) : c # n => swapCounters'[c] = swapCounters[c] - 0
      BY <2>2, <2>6
    <3>3. swapCounters'[n] = swapCounters[n] - Cardinality(due)
      BY <2>2, <2>6, <3>1
    <3>4. \A c \in 1 .. Len(swapCounters) : swapCounters[c] \in Nat
      BY <2>2
    <3>5. \A c \in 1 .. Len(swapCounters) : c # n => swapCounters'[c] = swapCounters[c]
      BY <3>2, <3>4
    <3>6. QED
      BY <3>1, <3>3, <3>5
  <2>10. QED
    BY <2>6, <2>8, <2>9
<1> HIDE DEF Commands!RunRequest
<1>12. CmdTypes'
  BY <1>1, <1>3 DEF CmdTypes, ThreadPCs
<1>13. CommandsOK(A)'
  BY <1>3 DEF CmdInv, CommandsOK
<1>14. PlaceOK(A)'
  BY <1>3 DEF CmdInv, PlaceOK
<1>15. RequestsOK'
  BY <1>3, <1>4 DEF CmdInv, RequestsOK
<1>16. TickOK'
  BY <1>3 DEF TickOK
<1>17. WakeOK'
  BY <1>3 DEF CmdInv, WakeOK
<1>18. SwapOK'
  <2>1. /\ ~NotYetRun(request)'
        /\ \A u \in GpuClients : NotYetRun(u)' => u # request /\ NotYetRun(u)
        /\ \A u \in GpuClients : u # request => (NotYetRun(u)' <=> NotYetRun(u))
    BY <1>3, <1>5 DEF NotYetRun, Requested
  <2>2. \A u \in GpuClients : u # request /\ NotYetRun(u) =>
            /\ op[u].counter \in 1 .. Len(swapCounters) /\ op[u].counter \notin freeSwapCounters
            /\ \A a \in guestActions : a.counter # op[u].counter
            /\ swapCounters[op[u].counter] = Len(op[u].fences) /\ op[u].counter # n
    BY <1>5, <1>6 DEF CmdInv, SwapOK
  <2>3. \A u \in GpuClients : u # request /\ NotYetRun(u) =>
            /\ op[u].counter \notin freeSwapCounters'
            /\ \A a \in guestActions' : a.counter # op[u].counter
            /\ swapCounters'[op[u].counter] = Len(op[u].fences)
    BY <1>8, <1>9, <1>11, <2>2
  <2>4. \A c \in 1 .. Len(swapCounters) :
            (\A u \in GpuClients : NotYetRun(u)' => op[u].counter # c) =>
                swapCounters'[c] = Cardinality(Left(c)')
    <3>1. swapCounters'[n] = Cardinality(Left(n)')
      BY <1>9, <1>10, <1>11
    <3>2. ASSUME NEW c \in 1 .. Len(swapCounters), c # n,
                 \A u \in GpuClients : NotYetRun(u)' => op[u].counter # c
          PROVE  swapCounters'[c] = Cardinality(Left(c)')
      <4>1. \A u \in GpuClients : NotYetRun(u) => op[u].counter # c
        BY <1>6, <2>1, <3>2
      <4>2. swapCounters[c] = Cardinality(Left(c))
        BY <4>1 DEF CmdInv, SwapOK
      <4>3. QED
        BY <1>10, <1>11, <3>2, <4>2
    <3>3. QED
      BY <3>1, <3>2
  <2>5. \A c \in freeSwapCounters' : Left(c)' = {}
    <3>1. n \in freeSwapCounters' => Left(n)' = {}
      <4>1. n \in freeSwapCounters' => Cardinality(all \ due) = 0
        BY <1>9, <1>11
      <4>2. QED
        BY <1>9, <1>10, <4>1, FS_EmptySet
    <3>2. \A c \in freeSwapCounters : c # n /\ Left(c) = {}
      BY <1>7 DEF CmdInv, SwapOK
    <3>3. QED
      BY <1>10, <1>11, <3>1, <3>2
  <2>6. IsFiniteSet(guestActions')
    <3>1. IsFiniteSet(guestActions \cup (all \ due))
      BY <1>7, <1>9, FS_Union
    <3>2. QED
      BY <1>8, <3>1
  <2>7. /\ freeSwapCounters' \subseteq 1 .. Len(swapCounters')
        /\ \A a \in guestActions' : a.counter \in 1 .. Len(swapCounters')
    BY <1>7, <1>8, <1>9, <1>11
  <2>8. \A u, v \in GpuClients :
            NotYetRun(u)' /\ NotYetRun(v)' /\ op'[u].counter = op'[v].counter => u = v
    BY <1>3, <2>1 DEF CmdInv, SwapOK
  <2>9. QED
    BY <1>3, <1>11, <2>1, <2>2, <2>3, <2>4, <2>5, <2>6, <2>7, <2>8 DEF SwapOK
<1>19. QED
  BY <1>12, <1>13, <1>14, <1>15, <1>16, <1>17, <1>18 DEF CmdInv

-----------------------------------------------------------------------------
(***************************************************************************)
(* Steps together, and what the invariant says.                            *)
(***************************************************************************)

\* The invariant holds at the start, with asynchronous emulation and without.
LEMMA CmdStarts ==
    ASSUME NEW A \in BOOLEAN, Commands(TRUE)!Init
    PROVE  CmdInv(A)
<1> USE DEF Commands!Init, Commands!NoOp, Commands!NoClient
<1>1. Len(<<>>) = 0 /\ \A S : <<>> \in Seq(S)
  BY EmptySeq
<1>2. /\ writeLock = "none" /\ queue = <<>> /\ lastFence = 0 /\ signaledFence = 0
      /\ syncRequests = <<>> /\ lastSyncFence = 0 /\ currentSyncFence = 0
      /\ swapCounters = <<>> /\ freeSwapCounters = {} /\ guestActions = {}
      /\ cpc = [t \in GpuClients |-> "idle"] /\ fence = [t \in GpuClients |-> 0]
      /\ syncFence = [t \in GpuClients |-> 0] /\ gpc = "pop" /\ request = "none"
  OBVIOUS
<1>3. op \in [GpuClients -> CmdOps] /\ \A t \in GpuClients : op[t].kind = "none"
  BY DEF CmdOps
<1> HIDE DEF Commands!Init, Commands!NoOp, Commands!NoClient
<1>4. CmdTypes
  BY <1>2, <1>3 DEF CmdTypes, ClientPCs, ThreadPCs
<1>5. CommandsOK(A)
  <2>1. Room(A) \in Nat
    BY CommandsAssumption DEF Room, Commands!BoundsAssumption
  <2>2. QED
    BY <1>1, <1>2, <2>1 DEF CommandsOK
<1>6. PlaceOK(A)
  BY <1>2, <1>3 DEF PlaceOK
<1>7. RequestsOK
  BY <1>1, <1>2, <1>3 DEF RequestsOK, InHand
<1>8. TickOK /\ WakeOK
  BY <1>2 DEF TickOK, WakeOK
<1>9. SwapOK
  <2>1. \A t \in GpuClients : ~NotYetRun(t)
    BY <1>3 DEF NotYetRun
  <2>2. IsFiniteSet(guestActions)
    BY <1>2, FS_EmptySet
  <2>3. swapCounters \in Seq(Nat) /\ 1 .. Len(swapCounters) = {}
    BY <1>1, <1>2
  <2>4. QED
    BY <1>2, <2>1, <2>2, <2>3 DEF SwapOK
<1>10. QED
  BY <1>4, <1>5, <1>6, <1>7, <1>8, <1>9 DEF CmdInv

\* Steps of the other components leave it.
LEMMA CmdStutters ==
    ASSUME NEW A \in BOOLEAN, CmdInv(A), UNCHANGED threadVars
    PROVE  CmdInv(A)'
<1>1. UNCHANGED <<writeLock, queue, lastFence, signaledFence, syncRequests, lastSyncFence,
                  currentSyncFence, swapCounters, freeSwapCounters, guestActions, cpc, op,
                  fence, syncFence, gpc, command, request>>
  BY DEF threadVars
<1>2. CmdTypes' /\ CommandsOK(A)'
  BY <1>1 DEF CmdInv, CmdTypes, CommandsOK
<1>3. PlaceOK(A)' /\ RequestsOK'
  BY <1>1 DEF CmdInv, PlaceOK, RequestsOK, InHand
<1>4. TickOK' /\ WakeOK'
  BY <1>1 DEF CmdInv, TickOK, WakeOK
<1>5. \A t : NotYetRun(t)' <=> NotYetRun(t)
  BY <1>1 DEF NotYetRun, Requested
<1>6. SwapOK'
  BY <1>1, <1>5, SwapSame DEF CmdInv
<1>7. QED
  BY <1>2, <1>3, <1>4, <1>6 DEF CmdInv

\* Every step of the GPU thread and of its clients preserves it.
LEMMA CmdKeeps ==
    ASSUME NEW A \in BOOLEAN, CmdInv(A), Commands(A)!Next
    PROVE  CmdInv(A)'
<1>1. CASE Commands(A)!RunThread
  <2>1. CASE Commands(A)!RunRequest
    BY <2>1, RunPlainKeeps, RunCompositeKeeps
  <2>2. CASE Commands(A)!PopWait \/ Commands(A)!Execute \/ Commands(A)!TickWork
    BY <2>2, PopWaitKeeps, ExecuteKeeps, TickWorkKeeps
  <2>3. CASE Commands(A)!CountRequest \/ Commands(A)!NotifyAndTake
    BY <2>3, CountRequestKeeps, NotifyAndTakeKeeps
  <2>4. CASE Commands(A)!StoreFence \/ Commands(A)!Unblock
    BY <2>4, StoreFenceKeeps, UnblockKeeps
  <2>5. QED
    BY <1>1, <2>1, <2>2, <2>3, <2>4 DEF Commands!RunThread
<1>2. ASSUME NEW t \in GpuClients, Commands(A)!Client(t)
      PROVE  CmdInv(A)'
  <2>1. CASE Commands(A)!RequestSyncOperation(t) \/ Commands(A)!PushCommand(t)
    BY <2>1, RequestSyncOperationKeeps, PushCommandKeeps
  <2>2. CASE Commands(A)!EmplaceWait(t) \/ Commands(A)!CondvarWait(t)
    BY <2>2, EmplaceWaitKeeps, CondvarWaitKeeps
  <2>3. CASE Commands(A)!Sleep(t)
    <3>1. cpc[t] = "sleepy" \/ cpc[t] = "drowsy"
      BY <2>3 DEF Commands!Sleep
    <3>2. QED
      BY <2>3, <3>1, DrowseKeeps, DozeKeeps
  <2>4. CASE Commands(A)!WaitForSyncOperation(t)
    BY <2>4, WaitReachedKeeps, WaitLongerKeeps
  <2>5. QED
    BY <1>2, <2>1, <2>2, <2>3, <2>4 DEF Commands!Client
<1>3. ASSUME NEW t \in GpuClients, Commands(A)!Call(t)
      PROVE  CmdInv(A)'
  <2>1. CASE \E f \in FenceLists : Commands(A)!RequestComposite(t, f)
    BY <2>1, RequestCompositeKeeps
  <2>2. CASE Commands(A)!SubmitList(t) \/ Commands(A)!OnCPURead(t)
    BY <2>2, SubmitListKeeps, OnCPUReadKeeps
  <2>3. QED
    BY <1>3, <2>1, <2>2 DEF Commands!Call, FenceLists
<1>4. QED
  BY <1>1, <1>2, <1>3 DEF Commands!Next

\* The types of the variables.
LEMMA CmdTypeOK ==
    ASSUME NEW A \in BOOLEAN, CmdInv(A)
    PROVE  Commands(A)!TypeOK
<1>1. CmdTypes /\ CommandsOK(A) /\ RequestsOK /\ SwapOK
  BY DEF CmdInv
<1>2. Len(queue) <= Room(A) /\ \A i \in DOMAIN queue : queue[i].fence \in 1 .. lastFence
  <2>1. queue \in Seq(Orders(A)) /\ DOMAIN queue = 1 .. Len(queue) /\ lastFence \in Nat
    BY <1>1, LenProperties DEF CommandsOK, CmdTypes
  <2>2. \A i \in DOMAIN queue : queue[i] \in Orders(A) /\ queue[i].fence <= lastFence
    BY <1>1, <2>1, ElementOfSeq DEF CommandsOK
  <2>3. \A i \in DOMAIN queue : queue[i].fence \in Nat \ {0}
    BY <2>2 DEF Orders
  <2>4. QED
    BY <1>1, <2>1, <2>2, <2>3 DEF CommandsOK
<1>3. signaledFence \in 0 .. lastFence /\ currentSyncFence \in 0 .. lastSyncFence
  <2>1. /\ signaledFence \in Nat /\ lastFence \in Nat /\ signaledFence <= lastFence
        /\ currentSyncFence \in Nat /\ lastSyncFence \in Nat
    BY <1>1 DEF CmdTypes
  <2>2. Len(syncRequests) \in Nat /\ InHand \in Nat
        /\ lastSyncFence = currentSyncFence + InHand + Len(syncRequests)
    BY <1>1, LenProperties DEF RequestsOK, InHand
  <2>3. QED
    BY <2>1, <2>2
<1>4. \A i \in DOMAIN syncRequests : syncRequests[i] \in GpuClients
  BY <1>1, LenProperties, ElementOfSeq DEF RequestsOK
<1>5. swapCounters \in Seq(Nat) /\ freeSwapCounters \subseteq DOMAIN swapCounters
  BY <1>1, LenProperties DEF SwapOK
<1>6. /\ fence \in [GpuClients -> 0 .. lastFence]
      /\ syncFence \in [GpuClients -> 0 .. lastSyncFence]
  <2>1. /\ lastFence \in Nat /\ lastSyncFence \in Nat
        /\ fence \in [GpuClients -> Nat] /\ syncFence \in [GpuClients -> Nat]
        /\ \A t \in GpuClients : fence[t] <= lastFence /\ syncFence[t] <= lastSyncFence
    BY <1>1 DEF CmdTypes
  <2>2. \A t \in GpuClients : fence[t] \in 0 .. lastFence /\ syncFence[t] \in 0 .. lastSyncFence
    BY <2>1
  <2>3. QED
    BY <2>1, <2>2
<1>7. /\ writeLock \in GpuClients \cup {"none"} /\ request \in GpuClients \cup {"none"}
      /\ cpc \in [GpuClients -> ClientPCs] /\ gpc \in ThreadPCs
  BY <1>1 DEF CmdTypes
<1>8. Commands(A)!NoClient = "none"
  BY DEF Commands!NoClient
<1>9. QED
  BY <1>2, <1>3, <1>4, <1>5, <1>6, <1>7, <1>8
  DEF Commands!TypeOK, Room, ClientPCs, ThreadPCs

\* What is said of requests, ticks and sleepers.
LEMMA CmdSafe ==
    ASSUME NEW A \in BOOLEAN, CmdInv(A)
    PROVE  /\ Commands(A)!RequesterWaits /\ Commands(A)!NoForgottenRequest
           /\ Commands(A)!NoLostWakeUp
<1>1. CmdTypes /\ CommandsOK(A) /\ RequestsOK /\ TickOK /\ WakeOK
  BY DEF CmdInv
<1>2. DOMAIN syncRequests = 1 .. Len(syncRequests) /\ DOMAIN queue = 1 .. Len(queue)
  BY <1>1, LenProperties DEF RequestsOK, CommandsOK
<1>3. Commands(A)!RequesterWaits
  BY <1>1, <1>2 DEF Commands!RequesterWaits, RequestsOK
<1>4. Commands(A)!NoForgottenRequest
  <2>1. \A t \in GpuClients : op[t].kind # "submit" => op[t] # Commands(A)!Submit
    BY DEF Commands!Submit
  <2>2. QED
    BY <1>1, <1>2, <2>1 DEF Commands!NoForgottenRequest, TickOK
<1>5. Commands(A)!NoLostWakeUp
  BY <1>1 DEF Commands!NoLostWakeUp, Commands!SyncReached, WakeOK
<1>6. QED
  BY <1>3, <1>4, <1>5

\* What is said of the counters of compositions.
LEMMA CmdCounters ==
    ASSUME NEW A \in BOOLEAN, CmdInv(A)
    PROVE  Commands(A)!SwapCountersMatch
<1>1. SwapOK /\ RequestsOK
  BY DEF CmdInv
<1>2. DOMAIN syncRequests = 1 .. Len(syncRequests) /\ DOMAIN swapCounters = 1 .. Len(swapCounters)
  BY <1>1, LenProperties DEF RequestsOK, SwapOK
<1>3. Commands(A)!NotRun = {t \in GpuClients : NotYetRun(t)}
  BY <1>2 DEF Commands!NotRun, NotYetRun, Requested
<1>4. ASSUME NEW c \in 1 .. Len(swapCounters), NEW owners,
             owners = {t \in GpuClients : NotYetRun(t) /\ op[t].counter = c}
      PROVE  /\ Cardinality(owners) <= 1
             /\ owners = {} => swapCounters[c] = Cardinality(Left(c))
             /\ \A t \in owners : Cardinality(Left(c)) = 0 /\ swapCounters[c] = Len(op[t].fences)
             /\ c \in freeSwapCounters => owners = {} /\ Cardinality(Left(c)) = 0
  <2>1. Cardinality({}) = 0 /\ \A t : Cardinality({t}) = 1
    BY FS_EmptySet, FS_Singleton
  <2>2. Cardinality(owners) <= 1
    <3>1. owners = {} \/ \E t \in owners : owners = {t}
      BY <1>1, <1>4 DEF SwapOK
    <3>2. Cardinality(owners) = 0 \/ Cardinality(owners) = 1
      BY <2>1, <3>1
    <3>3. QED
      BY <3>2
  <2>3. owners = {} => swapCounters[c] = Cardinality(Left(c))
    BY <1>1, <1>4 DEF SwapOK
  <2>4. \A t \in owners : Left(c) = {} /\ swapCounters[c] = Len(op[t].fences)
    BY <1>1, <1>4 DEF SwapOK, Left
  <2>5. c \in freeSwapCounters => owners = {} /\ Left(c) = {}
    BY <1>1, <1>4 DEF SwapOK
  <2>6. QED
    BY <2>1, <2>2, <2>3, <2>4, <2>5
<1>5. ASSUME NEW c \in DOMAIN swapCounters
      PROVE  LET owners == {t \in Commands(A)!NotRun : op[t].counter = c}
                 left == Commands(A)!Cardinality({a \in guestActions : a.counter = c})
             IN  /\ Commands(A)!Cardinality(owners) <= 1
                 /\ owners = {} => swapCounters[c] = left
                 /\ \A t \in owners : left = 0 /\ swapCounters[c] = Len(op[t].fences)
                 /\ c \in freeSwapCounters => owners = {} /\ left = 0
  <2>1. PICK owners : owners = {t \in GpuClients : NotYetRun(t) /\ op[t].counter = c}
    OBVIOUS
  <2>2. {t \in Commands(A)!NotRun : op[t].counter = c} = owners
    BY <1>3, <2>1
  <2>3. Commands(A)!Cardinality({a \in guestActions : a.counter = c}) = Cardinality(Left(c))
    BY CmdCardinality DEF Left
  <2>4. Commands(A)!Cardinality(owners) = Cardinality(owners)
    BY CmdCardinality
  <2>5. /\ Cardinality(owners) <= 1
        /\ owners = {} => swapCounters[c] = Cardinality(Left(c))
        /\ \A t \in owners : Cardinality(Left(c)) = 0 /\ swapCounters[c] = Len(op[t].fences)
        /\ c \in freeSwapCounters => owners = {} /\ Cardinality(Left(c)) = 0
    BY <1>2, <1>4, <2>1
  <2>6. QED
    BY <2>2, <2>3, <2>4, <2>5
<1>6. QED
  BY <1>5 DEF Commands!SwapCountersMatch

\* The GPU thread and its clients, for any clients, capacities and fences: a request in
\* the list or being run has its caller, on whose stack it lives, inside its call; a tick
\* for it is on its way; no sleeper misses what it waits for; and a swap counter belongs
\* to one composition and counts the actions it still waits for.
THEOREM GpuThreadIsSound == GpuSpec => []GpuThreadInvariant
<1>1. GpuInit => \A A \in BOOLEAN : CmdInv(A)
  BY CmdStarts DEF GpuInit
<1> DEFINE Inv == /\ explored = "Asynchronous" => CmdInv(TRUE)
                  /\ explored = "Synchronous" => CmdInv(FALSE)
<1>2. GpuInit => Inv
  BY <1>1
<1>3. Inv /\ [GpuNext]_allVars => Inv'
  <2> SUFFICES ASSUME Inv, [GpuNext]_allVars PROVE Inv'
    OBVIOUS
  <2>1. explored' = explored
    BY DEF GpuNext, allVars
  <2>2. explored = "Asynchronous" => Commands(TRUE)!Next \/ UNCHANGED threadVars
    BY DEF GpuNext, allVars, threadVars
  <2>3. explored = "Synchronous" => Commands(FALSE)!Next \/ UNCHANGED threadVars
    BY DEF GpuNext, allVars, threadVars
  <2>4. explored = "Asynchronous" => CmdInv(TRUE)'
    BY <2>2, CmdKeeps, CmdStutters
  <2>5. explored = "Synchronous" => CmdInv(FALSE)'
    BY <2>3, CmdKeeps, CmdStutters
  <2>6. QED
    BY <2>1, <2>4, <2>5
<1>4. Inv => GpuThreadInvariant
  <2>1. ASSUME NEW A \in BOOLEAN, CmdInv(A)
        PROVE  /\ Commands(A)!TypeOK /\ Commands(A)!RequesterWaits
               /\ Commands(A)!NoForgottenRequest /\ Commands(A)!NoLostWakeUp
               /\ Commands(A)!SwapCountersMatch
    BY <2>1, CmdTypeOK, CmdSafe, CmdCounters
  <2>2. QED
    BY <2>1 DEF GpuThreadInvariant
<1> HIDE DEF Inv
<1>5. QED
  BY <1>2, <1>3, <1>4, PTL DEF GpuSpec
=============================================================================
