-------------------------- MODULE KLightLockProofs --------------------------
(***************************************************************************)
(* Proofs about KLightLock, for any set of threads, any priorities and any *)
(* set of suspend types.                                                   *)
(***************************************************************************)
EXTENDS KLightLock, SequenceTheorems, TLAPS

USE ThreadsAssumption, PrioAssumption

\* What inserting a waiter in the priority-ordered tree yields: the elements
\* before the insertion point, the waiter, the other elements shifted by one.
LEMMA InsertAfterFact ==
    ASSUME NEW s \in Seq(Threads), NEW t \in Threads, NEW n \in 0 .. Len(s)
    PROVE  LET r == Abstract!InsertAfter(s, n, t)
           IN  /\ r \in Seq(Threads)
               /\ Len(r) = Len(s) + 1
               /\ \A i \in 1 .. Len(r) :
                     r[i] = IF i <= n THEN s[i] ELSE IF i = n + 1 THEN t ELSE s[i - 1]
<1> DEFINE a == SubSeq(s, 1, n)
           b == a \o <<t>>
           c == SubSeq(s, n + 1, Len(s))
           r == b \o c
<1>1. /\ a \in Seq(Threads)
      /\ Len(a) = n
      /\ \A i \in 1 .. n : a[i] = s[i]
  OBVIOUS
<1>2. /\ c \in Seq(Threads)
      /\ Len(c) = Len(s) - n
      /\ \A i \in 1 .. (Len(s) - n) : c[i] = s[n + i]
  OBVIOUS
<1> HIDE DEF a, c
<1>3. /\ b \in Seq(Threads)
      /\ Len(b) = n + 1
      /\ \A i \in 1 .. (n + 1) : b[i] = IF i <= n THEN s[i] ELSE t
  BY <1>1
<1> HIDE DEF b
<1>4. /\ r \in Seq(Threads)
      /\ Len(r) = Len(s) + 1
      /\ \A i \in 1 .. (Len(s) + 1) : r[i] = IF i <= n + 1 THEN b[i] ELSE c[i - (n + 1)]
  <2>1. /\ b \o c \in Seq(Threads)
        /\ Len(b \o c) = Len(b) + Len(c)
        /\ \A i \in 1 .. Len(b) + Len(c) :
              (b \o c)[i] = IF i <= Len(b) THEN b[i] ELSE c[i - Len(b)]
    BY <1>2, <1>3, ConcatProperties, ZenonT(40)
  <2>2. Len(b) + Len(c) = Len(s) + 1
    BY <1>2, <1>3
  <2>3. QED BY <2>1, <2>2, <1>3
<1>5. ASSUME NEW i \in 1 .. (Len(s) + 1), i > n + 1
      PROVE  c[i - (n + 1)] = s[i - 1]
  <2>1. i - (n + 1) \in 1 .. (Len(s) - n) /\ n + (i - (n + 1)) = i - 1
    BY <1>5
  <2>2. QED BY <1>2, <2>1
<1> HIDE DEF r
<1>6. ASSUME NEW i \in 1 .. Len(r)
      PROVE  r[i] = IF i <= n THEN s[i] ELSE IF i = n + 1 THEN t ELSE s[i - 1]
  <2>1. i \in 1 .. (Len(s) + 1)
    BY <1>4
  <2>2. CASE i <= n + 1
    BY <1>3, <1>4, <2>1, <2>2, SMTT(30)
  <2>3. CASE i > n + 1
    <3>1. r[i] = c[i - (n + 1)]
      BY <1>4, <2>1, <2>3
    <3>2. c[i - (n + 1)] = s[i - 1]
      BY <1>5, <2>1, <2>3
    <3>3. QED BY <3>1, <3>2, <2>3
  <2>4. QED BY <2>1, <2>2, <2>3
<1>7. r = Abstract!InsertAfter(s, n, t)
  BY DEF r, a, b, c, Abstract!InsertAfter
<1>8. QED
  BY <1>4, <1>6, <1>7

\* The program counter values the actions assign.
LEMMA PCValues ==
    /\ "Idle" \in PCs /\ "Retry" \in PCs /\ "LockSlow" \in PCs
    /\ "Waiting" \in PCs /\ "Woken" \in PCs /\ "Critical" \in PCs
    /\ "UnlockSlow" \in PCs /\ "StoreTag" \in PCs /\ "Exited" \in PCs
BY DEF PCs

\* Every variable keeps its type, whatever the interleaving.
THEOREM TypeCorrect == Spec => []TypeOK
<1>1. Init => TypeOK
  BY DEF Init, TypeOK, HeldType, PCs
<1>2. TypeOK /\ [Next]_vars => TypeOK'
  <2> SUFFICES ASSUME TypeOK, [Next]_vars PROVE TypeOK'
    OBVIOUS
  <2> USE PCValues DEF TypeOK
  <2>0. held' = held => HeldType'
    BY DEF HeldType
  <2>1. ASSUME NEW t \in Threads, Lock(t) PROVE TypeOK'
    BY <2>0, <2>1 DEF Lock, threadVars
  <2>2. ASSUME NEW t \in Threads, LockSlowPath(t) PROVE TypeOK'
    <3>1. CASE owner = seen[t] /\ waitBit = 1
      <4>1. PICK n \in 0 .. Len(held[seen[t]]) :
                held' = [held EXCEPT ![seen[t]] = Abstract!InsertAfter(@, n, t)]
        BY <2>2, <3>1 DEF LockSlowPath, Abstract!InsertionPoints
      <4>2. HeldType'
        <5>1. CASE seen[t] \in Threads
          BY <5>1, <4>1, InsertAfterFact DEF HeldType
        <5>2. CASE seen[t] \notin Threads
          BY <5>2, <4>1 DEF HeldType
        <5>3. QED BY <5>1, <5>2
      <4>3. stateFlags' \in [Threads -> SUBSET SuspendTypes]
        BY <2>2, <3>1 DEF LockSlowPath, ContinueIfHasKernelWaiters
      <4>4. QED
        BY <4>2, <4>3, <2>2, <3>1, SMTT(30) DEF LockSlowPath
    <3>2. CASE ~(owner = seen[t] /\ waitBit = 1)
      BY <2>0, <2>2, <3>2 DEF LockSlowPath
    <3>3. QED BY <3>1, <3>2
  <2>3. ASSUME NEW t \in Threads, LockReturn(t) PROVE TypeOK'
    BY <2>0, <2>3 DEF LockReturn, threadVars
  <2>4. ASSUME NEW t \in Threads, Unlock(t) PROVE TypeOK'
    BY <2>0, <2>4 DEF Unlock, threadVars
  <2>5. ASSUME NEW t \in Threads, UnlockSlowPath(t) PROVE TypeOK'
    <3>1. CASE held[t] = <<>>
      <4>1. stateFlags' \in [Threads -> SUBSET SuspendTypes]
        <5>1. GetSuspendFlags(t) \in SUBSET SuspendTypes
          BY DEF GetSuspendFlags
        <5>2. TrySuspend(stateFlags, t, GetSuspendFlags(t), <<>>)
                \in [Threads -> SUBSET SuspendTypes]
          BY <5>1 DEF TrySuspend
        <5>3. QED
          BY <2>5, <3>1, <5>2 DEF UnlockSlowPath
      <4>2. held' = held /\ schedLock' = t /\ nextOwner' = None /\ nextBit' = 0
        BY <2>5, <3>1 DEF UnlockSlowPath
      <4>3. pc' \in [Threads -> PCs]
        BY <2>5, <3>1 DEF UnlockSlowPath
      <4>4. QED
        BY <2>0, <2>5, <4>1, <4>2, <4>3 DEF UnlockSlowPath
    <3>2. CASE held[t] # <<>>
      <4>1. Head(held[t]) \in Threads /\ Tail(held[t]) \in Seq(Threads)
        BY <3>2, HeadTailProperties DEF HeldType
      <4>2. HeldType'
        <5>1. held' = [held EXCEPT ![t] = <<>>, ![Head(held[t])] = Tail(held[t])]
          BY <2>5, <3>2 DEF UnlockSlowPath
        <5>2. <<>> \in Seq(Threads)
          BY EmptySeq
        <5>3. QED BY <5>1, <5>2, <4>1, Zenon DEF HeldType
      <4>3. stateFlags' \in [Threads -> SUBSET SuspendTypes]
        <5> DEFINE flags == ContinueIfHasKernelWaiters(stateFlags, Head(held[t]), Tail(held[t]))
        <5>1. flags \in [Threads -> SUBSET SuspendTypes]
          BY <4>1 DEF ContinueIfHasKernelWaiters
        <5>2. GetSuspendFlags(t) \in SUBSET SuspendTypes
          BY DEF GetSuspendFlags
        <5>3. TrySuspend(flags, t, GetSuspendFlags(t), <<>>) \in [Threads -> SUBSET SuspendTypes]
          BY <5>1, <5>2 DEF TrySuspend
        <5>4. QED
          BY <2>5, <3>2, <5>1, <5>3 DEF UnlockSlowPath
      <4>4. QED
        <5>1. pc' \in [Threads -> PCs]
          BY <2>5, <3>2, <4>1 DEF UnlockSlowPath
        <5>2. nextOwner' \in Threads \cup {None} /\ nextBit' \in {0, 1}
          BY <2>5, <3>2, <4>1 DEF UnlockSlowPath
        <5>3. QED
          BY <2>5, <4>2, <4>3, <5>1, <5>2 DEF UnlockSlowPath
    <3>3. QED BY <3>1, <3>2
  <2>6. ASSUME NEW t \in Threads, StoreTag(t) PROVE TypeOK'
    BY <2>0, <2>6 DEF StoreTag, threadVars
  <2>7. ASSUME NEW t \in Threads, Suspension(t) PROVE TypeOK'
    <3>1. PICK type \in SuspendTypes : RequestSuspend(t, type) \/ Resume(t, type)
      BY <2>7 DEF Suspension
    <3>2. suspRequest' \in [Threads -> SUBSET SuspendTypes]
      BY <3>1 DEF RequestSuspend, Resume
    <3>3. suspRequest'[t] \cap suspAllowed[t] \in SUBSET SuspendTypes
      BY <3>2
    <3>4. stateFlags' \in [Threads -> SUBSET SuspendTypes]
      BY <3>1, <3>3, SMTT(30) DEF RequestSuspend, Resume, TrySuspend
    <3>5. QED
      BY <2>0, <3>1, <3>2, <3>4 DEF RequestSuspend, Resume, lockVars
  <2>8. ASSUME NEW t \in Threads, TerminateRunning(t) PROVE TypeOK'
    BY <2>0, <2>8 DEF TerminateRunning, RequestTerminate
  <2>9. ASSUME NEW t \in Threads, Exit(t) PROVE TypeOK'
    BY <2>0, <2>9 DEF Exit
  <2>10. CASE UNCHANGED vars
    BY <2>0, <2>10 DEF vars
  <2>11. QED
    BY <2>1, <2>2, <2>3, <2>4, <2>5, <2>6, <2>7, <2>8, <2>9, <2>10 DEF Next, LockStep
<1>3. QED
  BY <1>1, <1>2, PTL DEF Spec
-----------------------------------------------------------------------------
\* The actions that leave the waiter lists alone.
LEMMA LockInvSimpleSteps ==
    ASSUME TypeOK, LockInv, NEW t \in Threads,
           Lock(t) \/ LockReturn(t) \/ Unlock(t) \/ StoreTag(t)
    PROVE  LockInv'
<1> USE DEF LockInv, TypeOK, Holder, HolderBit, Queue
<1>1. ASSUME Lock(t) PROVE LockInv'
  <2>1. LockedByCurrentThread'
    BY <1>1 DEF Lock, LockedByCurrentThread
  <2>2. NoLostWaiter'
    <3>1. owner = None => schedLock = None
      BY DEF LockedByCurrentThread, SchedLockInv
    <3>2. ASSUME NEW w \in Threads, pc'[w] = "Waiting"
          PROVE  pc[w] = "Waiting" /\ owner # None
      BY <1>1, <3>1, <3>2 DEF Lock, NoLostWaiter
    <3>3. owner # None => Holder' = Holder /\ (HolderBit = 1 => HolderBit' = 1)
      BY <1>1 DEF Lock
    <3>4. held' = held
      BY <1>1 DEF Lock
    <3>5. QED
      BY <3>2, <3>3, <3>4 DEF NoLostWaiter
  <2>3. SchedLockInv'
    BY <1>1 DEF Lock, SchedLockInv
  <2>4. TagInv'
    BY <1>1 DEF Lock, TagInv
  <2>5. HolderInv'
    BY <1>1 DEF Lock, HolderInv, LockedByCurrentThread, SchedLockInv
  <2>6. HeldInv'
    BY <1>1 DEF Lock, HeldInv
  <2>7. QueueInv'
    BY <1>1 DEF Lock, QueueInv
  <2>8. SeenInv'
    BY <1>1 DEF Lock, SeenInv, LockedByCurrentThread, SchedLockInv, HolderInv
  <2> QED BY <2>1, <2>2, <2>3, <2>4, <2>5, <2>6, <2>7, <2>8
<1>2. ASSUME LockReturn(t) PROVE LockInv'
  <2>1. LockedByCurrentThread'
    BY <1>2 DEF LockReturn, LockedByCurrentThread, HolderInv
  <2>2. NoLostWaiter'
    BY <1>2 DEF LockReturn, NoLostWaiter
  <2>3. SchedLockInv'
    BY <1>2 DEF LockReturn, SchedLockInv
  <2>4. TagInv'
    BY <1>2 DEF LockReturn, TagInv
  <2>5. HolderInv'
    BY <1>2 DEF LockReturn, HolderInv
  <2>6. HeldInv'
    BY <1>2 DEF LockReturn, HeldInv
  <2>7. QueueInv'
    BY <1>2 DEF LockReturn, QueueInv
  <2>8. SeenInv'
    BY <1>2 DEF LockReturn, SeenInv
  <2> QED BY <2>1, <2>2, <2>3, <2>4, <2>5, <2>6, <2>7, <2>8
<1>3. ASSUME Unlock(t) PROVE LockInv'
  <2>1. LockedByCurrentThread'
    BY <1>3 DEF Unlock, LockedByCurrentThread
  <2>2. NoLostWaiter'
    BY <1>3 DEF Unlock, NoLostWaiter
  <2>3. SchedLockInv'
    BY <1>3 DEF Unlock, SchedLockInv
  <2>4. TagInv'
    BY <1>3 DEF Unlock, TagInv
  <2>5. HolderInv'
    BY <1>3 DEF Unlock, HolderInv, LockedByCurrentThread, SchedLockInv
  <2>6. HeldInv'
    BY <1>3 DEF Unlock, HeldInv
  <2>7. QueueInv'
    BY <1>3 DEF Unlock, QueueInv
  <2>8. SeenInv'
    BY <1>3 DEF Unlock, SeenInv
  <2> QED BY <2>1, <2>2, <2>3, <2>4, <2>5, <2>6, <2>7, <2>8
<1>4. ASSUME StoreTag(t) PROVE LockInv'
  <2>1. LockedByCurrentThread'
    BY <1>4 DEF StoreTag, LockedByCurrentThread
  <2>2. NoLostWaiter'
    BY <1>4 DEF StoreTag, NoLostWaiter
  <2>3. SchedLockInv'
    BY <1>4 DEF StoreTag, SchedLockInv
  <2>4. TagInv'
    BY <1>4 DEF StoreTag, TagInv
  <2>5. HolderInv'
    BY <1>4 DEF StoreTag, HolderInv
  <2>6. HeldInv'
    BY <1>4 DEF StoreTag, HeldInv
  <2>7. QueueInv'
    BY <1>4 DEF StoreTag, QueueInv
  <2>8. SeenInv'
    BY <1>4 DEF StoreTag, SeenInv
  <2> QED BY <2>1, <2>2, <2>3, <2>4, <2>5, <2>6, <2>7, <2>8
<1> QED BY <1>1, <1>2, <1>3, <1>4

\* Suspension, termination of a thread that is not waiting, and exit touch
\* neither the tag nor the waiters.
LEMMA LockInvThreadSteps ==
    ASSUME TypeOK, LockInv, NEW t \in Threads,
           Suspension(t) \/ TerminateRunning(t) \/ Exit(t)
    PROVE  LockInv'
<1> USE DEF LockInv, TypeOK, Holder, HolderBit, Queue
<1>1. /\ UNCHANGED <<owner, waitBit, held, seen, schedLock, nextOwner, nextBit>>
      /\ pc' = pc \/ (pc[t] = "Idle" /\ pc' = [pc EXCEPT ![t] = "Exited"])
  BY DEF Suspension, RequestSuspend, Resume, TerminateRunning, RequestTerminate, Exit, lockVars
<1>2. LockedByCurrentThread'
  BY <1>1 DEF LockedByCurrentThread
<1>3. NoLostWaiter'
  BY <1>1 DEF NoLostWaiter
<1>4. SchedLockInv'
  BY <1>1 DEF SchedLockInv
<1>5. TagInv'
  BY <1>1 DEF TagInv
<1>6. HolderInv'
  BY <1>1 DEF HolderInv
<1>7. HeldInv'
  BY <1>1 DEF HeldInv
<1>8. QueueInv'
  BY <1>1 DEF QueueInv
<1>9. SeenInv'
  BY <1>1 DEF SeenInv
<1> QED BY <1>2, <1>3, <1>4, <1>5, <1>6, <1>7, <1>8, <1>9

\* LockSlowPath: the new waiter joins the list of the thread the tag names.
LEMMA LockInvLockSlowPath ==
    ASSUME TypeOK, LockInv, NEW t \in Threads, LockSlowPath(t)
    PROVE  LockInv'
<1> USE DEF LockInv, TypeOK
<1>1. schedLock = None /\ pc[t] = "LockSlow" /\ seen[t] \in Threads \ {t}
  BY DEF LockSlowPath, SeenInv
<1>2. CASE ~(owner = seen[t] /\ waitBit = 1)
  <2> USE <1>1, <1>2 DEF Holder, HolderBit, Queue
  <2>1. LockedByCurrentThread'
    BY DEF LockSlowPath, LockedByCurrentThread
  <2>2. NoLostWaiter'
    BY DEF LockSlowPath, NoLostWaiter
  <2>3. SchedLockInv'
    BY DEF LockSlowPath, SchedLockInv
  <2>4. TagInv'
    BY DEF LockSlowPath, TagInv
  <2>5. HolderInv'
    BY DEF LockSlowPath, HolderInv
  <2>6. HeldInv'
    BY DEF LockSlowPath, HeldInv
  <2>7. QueueInv'
    BY DEF LockSlowPath, QueueInv
  <2>8. SeenInv'
    BY DEF LockSlowPath, SeenInv
  <2> QED BY <2>1, <2>2, <2>3, <2>4, <2>5, <2>6, <2>7, <2>8
<1>3. CASE owner = seen[t] /\ waitBit = 1
  <2> DEFINE o == seen[t]
  <2>1. PICK n \in 0 .. Len(held[o]) :
            held' = [held EXCEPT ![o] = Abstract!InsertAfter(@, n, t)]
    BY <1>3 DEF LockSlowPath, Abstract!InsertionPoints
  <2>2. /\ UNCHANGED <<owner, waitBit, schedLock, nextOwner, nextBit>>
        /\ pc' = [pc EXCEPT ![t] = "Waiting"]
        /\ seen' = [seen EXCEPT ![t] = None]
    BY <1>3 DEF LockSlowPath
  <2>3. /\ Len(held[o]) \in Nat
        /\ Len(held'[o]) = Len(held[o]) + 1
        /\ \A i \in 1 .. (Len(held[o]) + 1) :
              held'[o][i] = IF i <= n THEN held[o][i]
                            ELSE IF i = n + 1 THEN t ELSE held[o][i - 1]
        /\ \A u \in Threads \ {o} : held'[u] = held[u]
    <3>1. held[o] \in Seq(Threads) /\ held' = [held EXCEPT ![o] = Abstract!InsertAfter(held[o], n, t)]
          /\ held \in [Threads -> Seq(Threads)]
      BY <2>1, <1>1 DEF HeldType
    <3>2. held'[o] = Abstract!InsertAfter(held[o], n, t) /\ \A u \in Threads \ {o} : held'[u] = held[u]
      BY <3>1, <1>1, Zenon
    <3>3. Len(held[o]) \in Nat
      BY <3>1, LenProperties
    <3> DEFINE r == Abstract!InsertAfter(held[o], n, t)
    <3>4. /\ Len(r) = Len(held[o]) + 1
          /\ \A i \in 1 .. Len(r) : r[i] = IF i <= n THEN held[o][i]
                                         ELSE IF i = n + 1 THEN t ELSE held[o][i - 1]
      <4> DEFINE P(s, m) ==
             /\ Len(Abstract!InsertAfter(s, m, t)) = Len(s) + 1
             /\ \A i \in 1 .. Len(Abstract!InsertAfter(s, m, t)) :
                   Abstract!InsertAfter(s, m, t)[i] = IF i <= m THEN s[i]
                                         ELSE IF i = m + 1 THEN t ELSE s[i - 1]
      <4>1. \A s \in Seq(Threads) : \A m \in 0 .. Len(s) : P(s, m)
        BY InsertAfterFact
      <4> HIDE DEF P
      <4>2. P(held[o], n)
        BY <3>1, <4>1, Zenon
      <4>3. QED BY <4>2, Zenon DEF P
    <3> HIDE DEF r
    <3>5. held'[o] = r
      BY <3>2 DEF r
    <3>6. QED BY <3>2, <3>3, <3>4, <3>5
  <2>4. owner = o /\ Holder = o /\ Holder' = o /\ HolderBit = 1 /\ HolderBit' = 1
    BY <1>1, <1>3, <2>2 DEF Holder, HolderBit
  <2>5. Queue = held[o] /\ Queue' = held'[o]
    BY <1>1, <2>4 DEF Queue
  <2> HIDE DEF o
  <2>6. LockedByCurrentThread'
    BY <1>1, <2>2 DEF LockedByCurrentThread
  <2>7. NoLostWaiter'
    <3> SUFFICES ASSUME NEW w \in Threads, pc'[w] = "Waiting"
                 PROVE  \E i \in 1 .. Len(held'[o]) : held'[o][i] = w
      <4>1. o # None
        BY <1>1 DEF o
      <4>2. QED BY <2>4, <2>5, <4>1 DEF NoLostWaiter
    <3>1. CASE w = t
      <4>1. n + 1 \in 1 .. (Len(held[o]) + 1) /\ held'[o][n + 1] = t
        BY <2>3, <1>1
      <4>2. QED BY <3>1, <4>1, <2>3
    <3>2. CASE w # t
      <4>1. PICK i \in 1 .. Len(held[o]) : held[o][i] = w
        BY <3>2, <2>2, <2>4, <2>5 DEF NoLostWaiter
      <4>2. CASE i <= n
        <5>1. i \in 1 .. (Len(held[o]) + 1)
          BY <2>3
        <5>2. held'[o][i] = held[o][i]
          BY <5>1, <4>2, <2>3
        <5>3. QED BY <5>1, <5>2, <4>1, <2>3
      <4>3. CASE i > n
        <5>1. i + 1 \in 1 .. (Len(held[o]) + 1) /\ ~(i + 1 <= n) /\ i + 1 # n + 1 /\ (i + 1) - 1 = i
          BY <4>3, <2>3
        <5>2. held'[o][i + 1] = held[o][i]
          BY <5>1, <2>3
        <5>3. QED BY <5>1, <5>2, <4>1, <2>3
      <4>4. QED BY <4>2, <4>3, <2>3
    <3>3. QED BY <3>1, <3>2
  <2>8. SchedLockInv'
    BY <1>1, <2>2 DEF SchedLockInv
  <2>9. TagInv'
    BY <2>2 DEF TagInv
  <2>10. HolderInv'
    BY <1>1, <2>2, <2>4 DEF HolderInv
  <2>11. HeldInv'
    BY <2>3, <2>4, <1>1 DEF HeldInv
  <2>12. QueueInv'
    <3> SUFFICES ASSUME NEW u \in Threads, NEW i \in 1 .. Len(held'[u])
                 PROVE  /\ held'[u][i] \in Threads
                        /\ pc'[held'[u][i]] = "Waiting"
                        /\ \A j \in 1 .. Len(held'[u]) : held'[u][i] = held'[u][j] => i = j
      BY DEF QueueInv
    <3>1. CASE u # o
      <4>1. held'[u] = held[u]
        BY <3>1, <2>3
      <4>2. /\ held[u][i] \in Threads
            /\ pc[held[u][i]] = "Waiting"
            /\ \A j \in 1 .. Len(held[u]) : held[u][i] = held[u][j] => i = j
        BY <4>1 DEF QueueInv
      <4>3. QED BY <4>1, <4>2, <1>1, <2>2
    <3>2. CASE u = o
      <4>1. \A k \in 1 .. Len(held[o]) :
               held[o][k] \in Threads /\ held[o][k] # t /\ pc'[held[o][k]] = "Waiting"
        BY <3>2, <2>2, <1>1 DEF QueueInv
      <4>2. \A k, j \in 1 .. Len(held[o]) : held[o][k] = held[o][j] => k = j
        BY <3>2 DEF QueueInv
      <4>3. pc'[t] = "Waiting"
        BY <2>2
      <4> DEFINE pos(k) == IF k <= n THEN k ELSE k - 1
      <4>4. ASSUME NEW k \in 1 .. (Len(held[o]) + 1), k # n + 1
            PROVE  pos(k) \in 1 .. Len(held[o]) /\ held'[o][k] = held[o][pos(k)]
        <5>1. CASE k <= n
          BY <2>3, <4>4, <5>1
        <5>2. CASE k > n + 1
          BY <2>3, <4>4, <5>2
        <5>3. n \in 0 .. Len(held[o]) /\ Len(held[o]) \in Nat
          BY <2>3
        <5>4. k <= n \/ k > n + 1
          BY <4>4, <5>3
        <5> QED BY <5>1, <5>2, <5>4
      <4>5. ASSUME NEW k \in 1 .. (Len(held[o]) + 1), k = n + 1
            PROVE  held'[o][k] = t
        BY <2>3, <4>5
      <4>6. ASSUME NEW k \in 1 .. (Len(held[o]) + 1), NEW j \in 1 .. (Len(held[o]) + 1),
                   k # n + 1, j # n + 1, pos(k) = pos(j)
            PROVE  k = j
        BY <2>3, <4>6
      <4> HIDE DEF pos
      <4>7. i \in 1 .. (Len(held[o]) + 1) /\ Len(held'[u]) = Len(held[o]) + 1
        BY <3>2, <2>3
      <4>8. held'[o][i] \in Threads /\ pc'[held'[o][i]] = "Waiting"
        <5>1. CASE i = n + 1
          BY <5>1, <4>3, <4>5, <4>7
        <5>2. CASE i # n + 1
          <6>1. pos(i) \in 1 .. Len(held[o]) /\ held'[o][i] = held[o][pos(i)]
            BY <5>2, <4>4, <4>7
          <6>2. QED BY <6>1, <4>1
        <5>3. QED BY <5>1, <5>2
      <4>9. ASSUME NEW j \in 1 .. (Len(held[o]) + 1), held'[o][i] = held'[o][j]
            PROVE  i = j
        <5>1. CASE i = n + 1
          <6>1. held'[o][j] = t
            BY <5>1, <4>5, <4>7, <4>9
          <6>2. ASSUME j # n + 1 PROVE FALSE
            <7>1. pos(j) \in 1 .. Len(held[o]) /\ held'[o][j] = held[o][pos(j)]
              BY <6>2, <4>4
            <7>2. QED BY <7>1, <6>1, <4>1
          <6>3. QED BY <5>1, <6>2
        <5>2. CASE j = n + 1
          <6>1. held'[o][i] = t
            BY <5>2, <4>5, <4>9
          <6>2. ASSUME i # n + 1 PROVE FALSE
            <7>1. pos(i) \in 1 .. Len(held[o]) /\ held'[o][i] = held[o][pos(i)]
              BY <6>2, <4>4, <4>7
            <7>2. QED BY <7>1, <6>1, <4>1
          <6>3. QED BY <5>2, <6>2
        <5>3. CASE i # n + 1 /\ j # n + 1
          <6>1. pos(i) \in 1 .. Len(held[o]) /\ held'[o][i] = held[o][pos(i)]
            BY <5>3, <4>4, <4>7
          <6>2. pos(j) \in 1 .. Len(held[o]) /\ held'[o][j] = held[o][pos(j)]
            BY <5>3, <4>4
          <6>3. pos(i) = pos(j)
            BY <6>1, <6>2, <4>2, <4>9
          <6>4. QED BY <6>3, <5>3, <4>6, <4>7
        <5>4. QED BY <5>1, <5>2, <5>3
      <4>10. QED BY <3>2, <4>7, <4>8, <4>9
    <3>3. QED BY <3>1, <3>2
  <2>13. SeenInv'
    BY <2>2, <1>1 DEF SeenInv
  <2> QED BY <2>6, <2>7, <2>8, <2>9, <2>10, <2>11, <2>12, <2>13
<1> QED BY <1>2, <1>3

\* UnlockSlowPath: the lock and the remaining waiters pass to the first waiter.
LEMMA LockInvUnlockSlowPath ==
    ASSUME TypeOK, LockInv, NEW t \in Threads, UnlockSlowPath(t)
    PROVE  LockInv'
<1> USE DEF LockInv, TypeOK
<1>1. /\ schedLock = None /\ pc[t] = "UnlockSlow" /\ owner = t /\ t # None
      /\ Holder = t /\ Queue = held[t] /\ HolderBit = waitBit
  BY DEF UnlockSlowPath, LockedByCurrentThread, Holder, HolderBit, Queue
<1>2. schedLock' = t /\ UNCHANGED <<owner, waitBit, seen>>
  BY DEF UnlockSlowPath
<1>3. \A u \in Threads : held[u] # <<>> => u = t
  BY <1>1 DEF HeldInv
<1>4. CASE held[t] = <<>>
  <2>1. /\ nextOwner' = None /\ nextBit' = 0 /\ held' = held
        /\ pc' = [pc EXCEPT ![t] = "StoreTag"]
    BY <1>4 DEF UnlockSlowPath
  <2>2. \A w \in Threads : pc[w] # "Waiting"
    BY <1>1, <1>4, EmptySeq DEF NoLostWaiter
  <2>3. Holder' = None /\ HolderBit' = 0
    BY <1>1, <1>2, <2>1 DEF Holder, HolderBit
  <2>4. LockedByCurrentThread' /\ SchedLockInv' /\ TagInv' /\ SeenInv'
    BY <1>1, <1>2, <2>1 DEF LockedByCurrentThread, SchedLockInv, TagInv, SeenInv
  <2>5. NoLostWaiter'
    BY <2>1, <2>2 DEF NoLostWaiter
  <2>6. HolderInv'
    BY <1>1, <2>1, <2>3 DEF HolderInv
  <2>7. HeldInv'
    BY <1>3, <1>4, <2>1 DEF HeldInv
  <2>8. QueueInv'
    <3>1. \A u \in Threads : held[u] = <<>>
      BY <1>3, <1>4
    <3>2. QED BY <3>1, <2>1, EmptySeq DEF QueueInv
  <2> QED BY <2>4, <2>5, <2>6, <2>7, <2>8
<1>5. CASE held[t] # <<>>
  <2> DEFINE next == Head(held[t])
             rest == Tail(held[t])
  <2>1. /\ nextOwner' = next
        /\ nextBit' = IF rest = <<>> THEN 0 ELSE 1
        /\ held' = [held EXCEPT ![t] = <<>>, ![next] = rest]
        /\ pc' = [pc EXCEPT ![t] = "StoreTag", ![next] = "Woken"]
    BY <1>5 DEF UnlockSlowPath
  <2>2. held[t] \in Seq(Threads) /\ held \in [Threads -> Seq(Threads)]
    BY DEF HeldType
  <2>3. /\ Len(held[t]) \in Nat \ {0}
        /\ next = held[t][1]
        /\ Len(rest) = Len(held[t]) - 1
        /\ \A i \in 1 .. (Len(held[t]) - 1) : rest[i] = held[t][i + 1]
    BY <1>5, <2>2, EmptySeq, HeadTailProperties
  <2>4. rest = <<>> => Len(rest) = 0
    BY EmptySeq
  <2> HIDE DEF next, rest
  <2>5. next \in Threads \ {t} /\ pc[next] = "Waiting"
    <3>1. 1 \in 1 .. Len(held[t])
      BY <2>3
    <3>2. QED BY <3>1, <2>3, <1>1 DEF QueueInv
  <2>6. held'[next] = rest /\ \A u \in Threads \ {next} : held'[u] = <<>>
    <3>1. held'[next] = rest /\ held'[t] = <<>>
      BY <2>1, <2>2, <2>5, Zenon
    <3>2. \A u \in Threads \ {next, t} : held'[u] = held[u]
      BY <2>1, <2>2, Zenon
    <3>3. QED BY <3>1, <3>2, <1>3
  <2>7. /\ Holder' = next /\ Queue' = rest
        /\ HolderBit' = IF rest = <<>> THEN 0 ELSE 1
    BY <1>1, <1>2, <2>1, <2>5, <2>6 DEF Holder, HolderBit, Queue
  <2>8. \A u \in Threads : pc'[u] = IF u = next THEN "Woken" ELSE IF u = t THEN "StoreTag" ELSE pc[u]
    BY <2>1, <2>5
  <2>9. LockedByCurrentThread' /\ SchedLockInv' /\ TagInv' /\ SeenInv'
    BY <1>1, <1>2, <2>1, <2>5, <2>8 DEF LockedByCurrentThread, SchedLockInv, TagInv, SeenInv
  <2>10. NoLostWaiter'
    <3> SUFFICES ASSUME NEW w \in Threads, pc'[w] = "Waiting"
                 PROVE  (\E i \in 1 .. Len(rest) : rest[i] = w) /\ rest # <<>>
      BY <2>5, <2>7 DEF NoLostWaiter
    <3>1. w # next /\ pc[w] = "Waiting"
      BY <2>8
    <3>2. PICK i \in 1 .. Len(held[t]) : held[t][i] = w
      BY <3>1, <1>1 DEF NoLostWaiter
    <3>3. i # 1
      BY <3>1, <3>2, <2>3
    <3>4. i - 1 \in 1 .. (Len(held[t]) - 1) /\ (i - 1) + 1 = i
      BY <3>3, <2>3
    <3>5. rest[i - 1] = w
      BY <3>2, <3>4, <2>3
    <3>6. i - 1 \in 1 .. Len(rest)
      BY <3>4, <2>3
    <3>7. rest # <<>>
      BY <3>6, <2>4
    <3>8. QED BY <3>5, <3>6, <3>7
  <2>11. HolderInv'
    BY <1>1, <2>5, <2>7, <2>8 DEF HolderInv
  <2>12. HeldInv'
    BY <2>6, <2>7 DEF HeldInv
  <2>13. QueueInv'
    <3> SUFFICES ASSUME NEW i \in 1 .. Len(rest)
                 PROVE  /\ rest[i] \in Threads
                        /\ pc'[rest[i]] = "Waiting"
                        /\ \A j \in 1 .. Len(rest) : rest[i] = rest[j] => i = j
      BY <2>6, EmptySeq DEF QueueInv
    <3>1. i + 1 \in 1 .. Len(held[t]) /\ i + 1 # 1 /\ rest[i] = held[t][i + 1]
      BY <2>3
    <3>2. 1 \in 1 .. Len(held[t])
      BY <2>3
    <3>3. /\ held[t][i + 1] \in Threads
          /\ pc[held[t][i + 1]] = "Waiting"
          /\ held[t][i + 1] # held[t][1]
      BY <3>1, <3>2 DEF QueueInv
    <3>4. pc'[rest[i]] = "Waiting" /\ rest[i] \in Threads
      BY <3>1, <3>3, <2>3, <2>8, <1>1
    <3>5. ASSUME NEW j \in 1 .. Len(rest), rest[i] = rest[j]
          PROVE  i = j
      <4>1. j + 1 \in 1 .. Len(held[t]) /\ rest[j] = held[t][j + 1]
        BY <2>3
      <4>2. i + 1 = j + 1
        <5>1. held[t][i + 1] = held[t][j + 1]
          BY <3>1, <3>5, <4>1
        <5> QED BY <3>1, <4>1, <5>1, SMTT(30) DEF QueueInv
      <4>3. QED BY <4>2
    <3>6. QED BY <3>4, <3>5
  <2> QED BY <2>9, <2>10, <2>11, <2>12, <2>13
<1> QED BY <1>4, <1>5

\* The inductive invariant holds in every reachable state.
THEOREM LockInvariant == Spec => []LockInv
<1>1. Init => LockInv
  BY EmptySeq DEF Init, LockInv, Holder, HolderBit, Queue, LockedByCurrentThread, NoLostWaiter, SchedLockInv, TagInv, HolderInv, HeldInv, QueueInv, SeenInv
<1>2. TypeOK /\ LockInv /\ [Next]_vars => LockInv'
  <2> SUFFICES ASSUME TypeOK, LockInv, [Next]_vars PROVE LockInv'
    OBVIOUS
  <2>1. CASE Next
    BY <2>1, LockInvSimpleSteps, LockInvThreadSteps, LockInvLockSlowPath, LockInvUnlockSlowPath
       DEF Next, LockStep
  <2>2. CASE UNCHANGED vars
    BY <2>2 DEF vars, LockInv, Holder, HolderBit, Queue, LockedByCurrentThread, NoLostWaiter, SchedLockInv, TagInv, HolderInv, HeldInv, QueueInv, SeenInv
  <2>3. QED BY <2>1, <2>2
<1>3. QED
  BY <1>1, <1>2, TypeCorrect, PTL DEF Spec

\* No two threads are inside a light lock together, and the thread inside is the
\* one the tag names: the kernel's IsLockedByCurrentThread assertions hold.
THEOREM MutualExclusion == Spec => []LockedByCurrentThread
BY LockInvariant, PTL DEF LockInv

\* A sleeping thread is always in the list that the next UnlockSlowPath serves.
THEOREM NoWakeupLost == Spec => []NoLostWaiter
BY LockInvariant, PTL DEF LockInv
-----------------------------------------------------------------------------
\* Every step of the lock is a step of the hand-off lock, or leaves its holder
\* and its queue alone.
LEMMA HandoffStep ==
    ASSUME TypeOK, LockInv, LockInv', [Next]_vars
    PROVE  [Abstract!Next]_(Abstract!vars)
<1> USE DEF LockInv, TypeOK, Abstract!vars
<1>1. ASSUME NEW t \in Threads, Lock(t) PROVE [Abstract!Next]_(Abstract!vars)
  <2>1. CASE owner = None
    <3>1. schedLock = None /\ schedLock' = None /\ owner' = t /\ held' = held
      BY <1>1, <2>1 DEF Lock, LockedByCurrentThread, SchedLockInv
    <3>2. Holder = None /\ Holder' = t /\ Queue = <<>> /\ Queue' = held[t]
      BY <2>1, <3>1 DEF Holder, Queue
    <3>3. held[t] = <<>>
      BY <3>2 DEF HeldInv
    <3>4. Abstract!Acquire(t)
      BY <3>2, <3>3 DEF Abstract!Acquire
    <3>5. QED BY <3>4 DEF Abstract!Next
  <2>2. CASE owner # None
    BY <1>1, <2>2 DEF Lock, Holder, Queue
  <2>3. QED BY <2>1, <2>2
<1>2. ASSUME NEW t \in Threads, LockSlowPath(t) PROVE [Abstract!Next]_(Abstract!vars)
  <2>1. CASE owner = seen[t] /\ waitBit = 1
    <3>1. /\ owner \in Threads \ {t} /\ schedLock = None /\ schedLock' = None
          /\ owner' = owner /\ pc[t] = "LockSlow"
      BY <1>2, <2>1 DEF LockSlowPath, SeenInv
    <3>2. Holder = owner /\ Holder' = owner /\ Queue = held[owner] /\ Queue' = held'[owner]
      BY <3>1 DEF Holder, Queue
    <3>3. PICK n \in Abstract!InsertionPoints(held[owner], t) :
              held' = [held EXCEPT ![owner] = Abstract!InsertAfter(held[owner], n, t)]
      BY <1>2, <2>1 DEF LockSlowPath
    <3>4. held'[owner] = Abstract!InsertAfter(held[owner], n, t)
      BY <3>1, <3>3, Zenon DEF HeldType
    <3>5. \A i \in 1 .. Len(Queue) : Queue[i] # t
      BY <3>1, <3>2 DEF QueueInv
    <3>6. Holder \notin {None, t}
      BY <3>1, <3>2
    <3>7. \E m \in Abstract!InsertionPoints(Queue, t) : Queue' = Abstract!InsertAfter(Queue, m, t)
      BY <3>2, <3>4, Zenon
    <3>8. Abstract!Enqueue(t)
      BY <3>2, <3>5, <3>6, <3>7, Zenon DEF Abstract!Enqueue
    <3>9. QED BY <3>8 DEF Abstract!Next
  <2>2. CASE ~(owner = seen[t] /\ waitBit = 1)
    BY <1>2, <2>2 DEF LockSlowPath, Holder, Queue
  <2>3. QED BY <2>1, <2>2
<1>3. ASSUME NEW t \in Threads, Unlock(t) PROVE [Abstract!Next]_(Abstract!vars)
  <2>1. CASE owner = t /\ waitBit = 0
    <3>1. schedLock = None /\ schedLock' = None /\ owner' = None /\ held' = held
      BY <1>3, <2>1 DEF Unlock, LockedByCurrentThread, SchedLockInv
    <3>2. Holder = t /\ Holder' = None /\ Queue = held[t] /\ Queue' = <<>> /\ HolderBit = 0
      BY <2>1, <3>1 DEF Holder, HolderBit, Queue
    <3>3. held[t] = <<>>
      BY <3>2 DEF HeldInv
    <3>4. Abstract!Release(t)
      BY <3>2, <3>3 DEF Abstract!Release
    <3>5. QED BY <3>4 DEF Abstract!Next
  <2>2. CASE ~(owner = t /\ waitBit = 0)
    BY <1>3, <2>2 DEF Unlock, Holder, Queue
  <2>3. QED BY <2>1, <2>2
<1>4. ASSUME NEW t \in Threads, UnlockSlowPath(t) PROVE [Abstract!Next]_(Abstract!vars)
  <2>1. schedLock = None /\ schedLock' = t /\ owner = t /\ Holder = t /\ Queue = held[t]
    BY <1>4 DEF UnlockSlowPath, LockedByCurrentThread, Holder, Queue
  <2>2. CASE held[t] = <<>>
    <3>1. Holder' = None /\ Queue' = <<>>
      BY <1>4, <2>1, <2>2 DEF UnlockSlowPath, Holder, Queue
    <3>2. Abstract!Release(t)
      BY <2>1, <2>2, <3>1 DEF Abstract!Release
    <3>3. QED BY <3>2 DEF Abstract!Next
  <2>3. CASE held[t] # <<>>
    <3>1. Head(held[t]) \in Threads
      BY <2>3, HeadTailProperties DEF HeldType
    <3>2. /\ nextOwner' = Head(held[t])
          /\ held' = [held EXCEPT ![t] = <<>>, ![Head(held[t])] = Tail(held[t])]
      BY <1>4, <2>3 DEF UnlockSlowPath
    <3>3. held'[Head(held[t])] = Tail(held[t])
      BY <3>1, <3>2, Zenon DEF HeldType
    <3>4. Holder' = Head(Queue) /\ Queue' = Tail(Queue)
      BY <2>1, <3>1, <3>2, <3>3 DEF Holder, Queue
    <3>5. Abstract!Handoff(t)
      BY <2>1, <2>3, <3>4, Zenon DEF Abstract!Handoff
    <3>6. QED BY <3>5 DEF Abstract!Next
  <2>4. QED BY <2>2, <2>3
<1>5. ASSUME NEW t \in Threads, StoreTag(t) PROVE [Abstract!Next]_(Abstract!vars)
  BY <1>5 DEF StoreTag, Holder, Queue
<1>6. ASSUME NEW t \in Threads, LockReturn(t) \/ Exit(t) PROVE [Abstract!Next]_(Abstract!vars)
  BY <1>6 DEF LockReturn, Exit, Holder, Queue
<1>7. ASSUME NEW t \in Threads, Suspension(t) PROVE [Abstract!Next]_(Abstract!vars)
  BY <1>7 DEF Suspension, RequestSuspend, Resume, lockVars, Holder, Queue
<1>8. ASSUME NEW t \in Threads, TerminateRunning(t) PROVE [Abstract!Next]_(Abstract!vars)
  BY <1>8 DEF TerminateRunning, RequestTerminate, Holder, Queue
<1>9. CASE UNCHANGED vars
  BY <1>9 DEF vars, Holder, Queue
<1>10. QED
  BY <1>1, <1>2, <1>3, <1>4, <1>5, <1>6, <1>7, <1>8, <1>9 DEF Next, LockStep

\* KLightLock implements the hand-off lock for any number of threads: one holder
\* at a time, and a release hands the lock to the first thread of the priority-
\* ordered queue, which no thread leaves otherwise.
THEOREM Refinement == Spec => ImplementsHandoffLock
<1>1. Init => Abstract!Init
  BY DEF Init, Abstract!Init, Holder, Queue
<1>2. QED
  BY <1>1, HandoffStep, TypeCorrect, LockInvariant, PTL DEF Spec, ImplementsHandoffLock, Abstract!Spec
-----------------------------------------------------------------------------
\* With a single kind of suspension, a thread that others wait for in the kernel
\* is never left suspended: the "Ensure that we have no waiters" of TrySuspend
\* is kept up by every other operation too.  (With two kinds it is not: see the
\* run klightlock_two_suspend_types.)
THEOREM OwnersKeepRunning ==
    ASSUME SingleSuspendType
    PROVE  Spec => []KernelWaitersNotSuspended
<1>1. Init => SuspendInv
  BY EmptySeq DEF Init, SuspendInv, KernelWaitersNotSuspended, NumKernelWaiters, GetSuspendFlags
<1>2. TypeOK /\ LockInv /\ SuspendInv /\ [Next]_vars => SuspendInv'
  <2> SUFFICES ASSUME TypeOK, LockInv, SuspendInv, [Next]_vars PROVE SuspendInv'
    OBVIOUS
  <2> DEFINE Kept(u) == /\ held'[u] # <<>> => stateFlags'[u] = {}
                        /\ stateFlags'[u] \subseteq suspRequest'[u] \cap suspAllowed'[u]
  <2>1. \A u \in Threads :
            /\ held[u] # <<>> => stateFlags[u] = {}
            /\ stateFlags[u] \subseteq suspRequest[u] \cap suspAllowed[u]
    <3>1. \A u \in Threads : held[u] # <<>> => Len(held[u]) > 0
      BY EmptySeq DEF TypeOK, HeldType
    <3>2. QED
      BY <3>1 DEF SuspendInv, KernelWaitersNotSuspended, NumKernelWaiters, GetSuspendFlags
  <2> SUFFICES \A u \in Threads : Kept(u)
    BY EmptySeq DEF SuspendInv, KernelWaitersNotSuspended, NumKernelWaiters, GetSuspendFlags
  <2>0. /\ stateFlags \in [Threads -> SUBSET SuspendTypes]
        /\ suspRequest \in [Threads -> SUBSET SuspendTypes]
        /\ suspAllowed \in [Threads -> SUBSET SuspendTypes]
        /\ seen \in [Threads -> Threads \cup {None}]
        /\ HeldType
    BY DEF TypeOK
  <2>2. ASSUME UNCHANGED <<held, stateFlags, suspRequest, suspAllowed>>
        PROVE  \A u \in Threads : Kept(u)
    <3> TAKE u \in Threads
    <3>1. held'[u] = held[u] /\ stateFlags'[u] = stateFlags[u]
          /\ suspRequest'[u] = suspRequest[u] /\ suspAllowed'[u] = suspAllowed[u]
      BY <2>2
    <3>2. QED BY <3>1, <2>1
  <2>3. ASSUME NEW t \in Threads, Lock(t) \/ LockReturn(t) \/ Unlock(t) \/ StoreTag(t)
        PROVE  \A u \in Threads : Kept(u)
    BY <2>2, <2>3 DEF Lock, LockReturn, Unlock, StoreTag, threadVars
  <2>4. ASSUME NEW t \in Threads, LockSlowPath(t) PROVE \A u \in Threads : Kept(u)
    <3>1. CASE owner = seen[t] /\ waitBit = 1
      <4>1. PICK n : held' = [held EXCEPT ![seen[t]] = Abstract!InsertAfter(@, n, t)]
        BY <2>4, <3>1 DEF LockSlowPath
      <4>2. \A u \in Threads \ {seen[t]} : held'[u] = held[u]
        BY <2>0, <4>1, Zenon DEF HeldType
      <4>3. /\ stateFlags' = IF suspRequest[seen[t]] \cap suspAllowed[seen[t]] # {} /\ held'[seen[t]] # <<>>
                              THEN [stateFlags EXCEPT ![seen[t]] = {}] ELSE stateFlags
            /\ UNCHANGED <<suspRequest, suspAllowed>>
        BY <2>4, <3>1 DEF LockSlowPath, ContinueIfHasKernelWaiters, IsSuspended, GetSuspendFlags
      <4>4. ASSUME NEW u \in Threads PROVE Kept(u)
        <5>1. CASE u = seen[t]
          BY <2>0, <2>1, <4>3, <5>1
        <5>2. CASE u # seen[t]
          BY <2>0, <2>1, <4>2, <4>3, <5>2
        <5>3. QED BY <5>1, <5>2
      <4>5. QED BY <4>4
    <3>2. CASE ~(owner = seen[t] /\ waitBit = 1)
      BY <2>2, <2>4, <3>2 DEF LockSlowPath
    <3>3. QED BY <3>1, <3>2
  <2>5. ASSUME NEW t \in Threads, UnlockSlowPath(t) PROVE \A u \in Threads : Kept(u)
    <3> DEFINE again(flags) == IF IsSuspended(t) THEN [flags EXCEPT ![t] = GetSuspendFlags(t)] ELSE flags
    <3>1. CASE held[t] = <<>>
      <4>1. held' = held /\ stateFlags' = again(stateFlags) /\ UNCHANGED <<suspRequest, suspAllowed>>
        BY <2>5, <3>1 DEF UnlockSlowPath, TrySuspend
      <4>2. ASSUME NEW u \in Threads PROVE Kept(u)
        <5>1. CASE u = t
          BY <2>0, <2>1, <3>1, <4>1, <5>1 DEF GetSuspendFlags
        <5>2. CASE u # t
          BY <2>0, <2>1, <4>1, <5>2
        <5>3. QED BY <5>1, <5>2
      <4>3. QED BY <4>2
    <3>2. CASE held[t] # <<>>
      <4> DEFINE next == Head(held[t])
                 rest == Tail(held[t])
                 flags == ContinueIfHasKernelWaiters(stateFlags, next, rest)
      <4>1. /\ held' = [held EXCEPT ![t] = <<>>, ![next] = rest]
            /\ stateFlags' = again(flags)
            /\ UNCHANGED <<suspRequest, suspAllowed>>
        BY <2>5, <3>2 DEF UnlockSlowPath, TrySuspend
      <4>2. next \in Threads \ {t}
        <5>1. next \in Threads /\ next = held[t][1] /\ 1 \in 1 .. Len(held[t])
          BY <2>0, <3>2, EmptySeq, HeadTailProperties DEF HeldType
        <5>2. pc[next] = "Waiting" /\ pc[t] = "UnlockSlow"
          BY <2>5, <5>1 DEF UnlockSlowPath, LockInv, QueueInv
        <5>3. QED BY <5>1, <5>2
      <4> HIDE DEF next, rest
      <4>3. held'[next] = rest /\ held'[t] = <<>> /\ \A u \in Threads \ {next, t} : held'[u] = held[u]
        BY <2>0, <4>1, <4>2, Zenon DEF HeldType
      <4>4. /\ flags \in [Threads -> SUBSET SuspendTypes]
            /\ rest # <<>> => flags[next] = {}
            /\ flags[next] \subseteq stateFlags[next]
            /\ \A u \in Threads \ {next} : flags[u] = stateFlags[u]
        BY <2>0, <2>1, <4>2 DEF ContinueIfHasKernelWaiters, IsSuspended, GetSuspendFlags
      <4> HIDE DEF flags
      <4>5. \A u \in Threads \ {t} : stateFlags'[u] = flags[u]
        BY <4>1, <4>4
      <4>6. stateFlags'[t] \subseteq suspRequest[t] \cap suspAllowed[t]
        BY <2>1, <4>1, <4>2, <4>4 DEF GetSuspendFlags
      <4>7. ASSUME NEW u \in Threads PROVE Kept(u)
        <5>1. CASE u = t
          BY <4>1, <4>3, <4>6, <5>1
        <5>2. CASE u = next
          BY <2>1, <4>1, <4>2, <4>3, <4>4, <4>5, <5>2
        <5>3. CASE u \notin {t, next}
          BY <2>1, <4>1, <4>3, <4>4, <4>5, <5>3
        <5>4. QED BY <5>1, <5>2, <5>3
      <4>8. QED BY <4>7
    <3>3. QED BY <3>1, <3>2
  <2>6. ASSUME NEW t \in Threads, NEW type \in SuspendTypes, RequestSuspend(t, type)
        PROVE  \A u \in Threads : Kept(u)
    <3>1. /\ held' = held /\ suspAllowed' = suspAllowed
          /\ suspRequest' = [suspRequest EXCEPT ![t] = @ \cup {type}]
          /\ stateFlags' = IF held[t] = <<>>
                           THEN [stateFlags EXCEPT ![t] = suspRequest'[t] \cap suspAllowed[t]]
                           ELSE stateFlags
      BY <2>6 DEF RequestSuspend, TrySuspend, lockVars
    <3>2. ASSUME NEW u \in Threads PROVE Kept(u)
      <4>1. CASE u = t
        BY <2>0, <2>1, <3>1, <4>1
      <4>2. CASE u # t
        BY <2>0, <2>1, <3>1, <4>2
      <4>3. QED BY <4>1, <4>2
    <3>3. QED BY <3>2
  <2>7. ASSUME NEW t \in Threads, NEW type \in SuspendTypes, Resume(t, type)
        PROVE  \A u \in Threads : Kept(u)
    <3>1. /\ held' = held /\ suspAllowed' = suspAllowed
          /\ suspRequest' = [suspRequest EXCEPT ![t] = @ \ {type}]
          /\ stateFlags' = [stateFlags EXCEPT ![t] = suspRequest'[t] \cap suspAllowed[t]]
      BY <2>7 DEF Resume, lockVars
    <3>2. suspRequest'[t] = {}
      BY <2>0, <3>1 DEF SingleSuspendType
    <3>3. ASSUME NEW u \in Threads PROVE Kept(u)
      <4>1. CASE u = t
        BY <2>0, <3>1, <3>2, <4>1
      <4>2. CASE u # t
        BY <2>0, <2>1, <3>1, <4>2
      <4>3. QED BY <4>1, <4>2
    <3>4. QED BY <3>3
  <2>8. ASSUME NEW t \in Threads, TerminateRunning(t) \/ Exit(t) PROVE \A u \in Threads : Kept(u)
    <3>1. held' = held /\ suspRequest' = suspRequest
      BY <2>8 DEF TerminateRunning, RequestTerminate, Exit
    <3>2. \/ UNCHANGED <<suspAllowed, stateFlags>>
          \/ /\ suspAllowed' = [suspAllowed EXCEPT ![t] = {}]
             /\ stateFlags' = [stateFlags EXCEPT ![t] = {}]
      BY <2>8 DEF TerminateRunning, RequestTerminate, Exit
    <3>3. ASSUME NEW u \in Threads PROVE Kept(u)
      <4>1. CASE u = t
        BY <2>0, <2>1, <3>1, <3>2, <4>1
      <4>2. CASE u # t
        BY <2>0, <2>1, <3>1, <3>2, <4>2
      <4>3. QED BY <4>1, <4>2
    <3>4. QED BY <3>3
  <2>9. CASE UNCHANGED vars
    BY <2>2, <2>9 DEF vars
  <2>10. QED
    BY <2>3, <2>4, <2>5, <2>6, <2>7, <2>8, <2>9 DEF Next, LockStep, Suspension
<1>3. QED
  BY <1>1, <1>2, TypeCorrect, LockInvariant, PTL DEF Spec, SuspendInv
=============================================================================
