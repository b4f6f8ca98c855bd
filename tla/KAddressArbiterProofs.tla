----------------------- MODULE KAddressArbiterProofs -----------------------
(***************************************************************************)
(* Proofs about the locks of user programs: the address arbiter, for any   *)
(* number of threads and words and words of any width; mutexes and condition *)
(* variables, for any number of threads, addresses and priorities; and the *)
(* ticks made of time-outs, of any width.                                  *)
(***************************************************************************)
EXTENDS MCUserLocks, FiniteSetTheorems, SequenceTheorems, WellFoundedInduction, TLAPS

(***************************************************************************)
(* Sequences in order.                                                     *)
(***************************************************************************)

\* Each thread once, and none before a more urgent one.
Ordered(s, p) ==
    \A i, j \in DOMAIN s : i < j => s[i] # s[j] /\ p[s[i]] <= p[s[j]]

\* A nonempty set of positions has a first one.
LEMMA FirstPosition ==
    ASSUME NEW I \in SUBSET Nat, I # {}
    PROVE  Min(I) \in I /\ \A i \in I : Min(I) <= i
<1>1. \E i \in I : \A j \in I : ~(<<j, i>> \in OpToRel(<, Nat))
  BY NatLessThanWellFounded, WFMin
<1>2. PICK i \in I : \A j \in I : ~(<<j, i>> \in OpToRel(<, Nat))
  BY <1>1
<1>3. \A j \in I : i <= j
  <2> SUFFICES ASSUME NEW j \in I, j < i PROVE FALSE
    OBVIOUS
  <2>1. <<j, i>> \in Nat \X Nat /\ <<j, i>>[1] < <<j, i>>[2]
    OBVIOUS
  <2>2. <<j, i>> \in OpToRel(<, Nat)
    BY <2>1 DEF OpToRel
  <2>3. QED
    BY <1>2, <2>2
<1>4. QED
  BY <1>3 DEF Min

\* The places of InsertAt and RemoveAt.
LEMMA Inserted ==
    ASSUME NEW T, NEW s \in Seq(T), NEW t \in T, NEW q \in 1 .. Len(s) + 1,
           NEW r, r = InsertAt(s, q, t)
    PROVE  /\ r \in Seq(T) /\ Len(r) = Len(s) + 1
           /\ \A i \in 1 .. Len(r) : r[i] = IF i < q THEN s[i] ELSE IF i = q THEN t ELSE s[i - 1]
<1>1. PICK u : u = SubSeq(s, 1, q - 1)
  OBVIOUS
<1>2. PICK v : v = SubSeq(s, q, Len(s))
  OBVIOUS
<1>3. u \in Seq(T) /\ Len(u) = q - 1 /\ \A i \in 1 .. q - 1 : u[i] = s[i]
  BY <1>1, SubSeqProperties
<1>4. v \in Seq(T) /\ Len(v) = Len(s) - q + 1 /\ \A i \in 1 .. Len(v) : v[i] = s[q + i - 1]
  BY <1>2, SubSeqProperties
<1>5. r = (u \o <<t>>) \o v
  BY <1>1, <1>2 DEF InsertAt
<1>6. PICK w : w = u \o <<t>>
  OBVIOUS
<1>7. w \in Seq(T) /\ Len(w) = q /\ \A i \in 1 .. q : w[i] = IF i < q THEN s[i] ELSE t
  BY <1>3, <1>6
<1>8. Len(s) \in Nat /\ Len(w) + Len(v) = Len(s) + 1
  BY <1>4, <1>7
<1>9. /\ r \in Seq(T) /\ Len(r) = Len(s) + 1
      /\ \A i \in 1 .. Len(r) : r[i] = IF i <= q THEN w[i] ELSE v[i - q]
  <2>1. /\ w \o v \in Seq(T) /\ Len(w \o v) = Len(w) + Len(v)
        /\ \A i \in 1 .. Len(w) + Len(v) : (w \o v)[i] = IF i <= Len(w) THEN w[i] ELSE v[i - Len(w)]
    BY <1>4, <1>7, ConcatProperties
  <2>2. r = w \o v
    BY <1>5, <1>6
  <2>3. QED
    BY <1>7, <1>8, <2>1, <2>2
<1>10. \A i \in 1 .. Len(r) : i > q => v[i - q] = s[i - 1]
  BY <1>4, <1>8, <1>9
<1>11. ASSUME NEW i \in 1 .. Len(r)
       PROVE  r[i] = IF i < q THEN s[i] ELSE IF i = q THEN t ELSE s[i - 1]
  <2>1. CASE i <= q
    <3>1. i \in 1 .. q /\ r[i] = w[i]
      BY <1>8, <1>9, <2>1
    <3>2. QED
      BY <1>7, <3>1
  <2>2. CASE i > q
    <3>1. r[i] = v[i - q] /\ v[i - q] = s[i - 1]
      BY <1>8, <1>9, <1>10, <2>2
    <3>2. QED
      BY <1>8, <1>9, <2>2, <3>1
  <2>3. QED
    BY <1>8, <1>9, <2>1, <2>2
<1>12. QED
  BY <1>9, <1>11

LEMMA Removed ==
    ASSUME NEW T, NEW s \in Seq(T), NEW q \in 1 .. Len(s), NEW r, r = RemoveAt(s, q)
    PROVE  /\ r \in Seq(T) /\ Len(r) = Len(s) - 1
           /\ \A i \in 1 .. Len(r) : r[i] = IF i < q THEN s[i] ELSE s[i + 1]
<1>1. PICK u : u = SubSeq(s, 1, q - 1)
  OBVIOUS
<1>2. PICK v : v = SubSeq(s, q + 1, Len(s))
  OBVIOUS
<1>3. u \in Seq(T) /\ Len(u) = q - 1 /\ \A i \in 1 .. q - 1 : u[i] = s[i]
  BY <1>1, SubSeqProperties
<1>4. v \in Seq(T) /\ Len(v) = Len(s) - q /\ \A i \in 1 .. Len(v) : v[i] = s[q + i]
  BY <1>2, SubSeqProperties
<1>5. r = u \o v
  BY <1>1, <1>2 DEF RemoveAt
<1>6. Len(s) \in Nat /\ Len(u) + Len(v) = Len(s) - 1
  BY <1>3, <1>4
<1>7. /\ r \in Seq(T) /\ Len(r) = Len(s) - 1
      /\ \A i \in 1 .. Len(r) : r[i] = IF i <= q - 1 THEN u[i] ELSE v[i - (q - 1)]
  <2>1. /\ u \o v \in Seq(T) /\ Len(u \o v) = Len(u) + Len(v)
        /\ \A i \in 1 .. Len(u) + Len(v) : (u \o v)[i] = IF i <= Len(u) THEN u[i] ELSE v[i - Len(u)]
    BY <1>3, <1>4, ConcatProperties
  <2>2. QED
    BY <1>3, <1>5, <1>6, <2>1
<1>8. \A i \in 1 .. Len(r) : i > q - 1 => v[i - (q - 1)] = s[i + 1]
  BY <1>4, <1>6, <1>7
<1>9. QED
  BY <1>3, <1>6, <1>7, <1>8

LEMMA Members ==
    ASSUME NEW T, NEW s \in Seq(T)
    PROVE  \A x : x \in ToSet(s) <=> \E i \in 1 .. Len(s) : s[i] = x
BY LenProperties DEF ToSet


\* The place before the first element of s that P holds for, or behind all of them.
LEMMA PlaceOfFirst ==
    ASSUME NEW T, NEW s \in Seq(T), NEW P
    PROVE  LET I == {i \in 1 .. Len(s) : s[i] \in P}
               q == IF I = {} THEN Len(s) + 1 ELSE Min(I)
           IN  /\ q \in 1 .. Len(s) + 1
               /\ I # {} => q # 0
               /\ \A i \in 1 .. Len(s) : i < q => s[i] \notin P
               /\ q <= Len(s) => s[q] \in P
<1> DEFINE I == {i \in 1 .. Len(s) : s[i] \in P}
           q == IF I = {} THEN Len(s) + 1 ELSE Min(I)
<1>1. Len(s) \in Nat /\ I \in SUBSET Nat
  BY LenProperties
<1>2. CASE I = {}
  <2>1. q = Len(s) + 1
    BY <1>2
  <2>2. \A i \in 1 .. Len(s) : s[i] \notin P
    BY <1>2
  <2>3. QED
    BY <1>1, <1>2, <2>1, <2>2
<1>3. CASE I # {}
  <2>1. Min(I) \in I /\ \A i \in I : Min(I) <= i
    BY <1>1, <1>3, FirstPosition
  <2>2. q = Min(I)
    BY <1>3
  <2>3. q \in 1 .. Len(s) /\ s[q] \in P
    BY <2>1, <2>2
  <2>4. ASSUME NEW i \in 1 .. Len(s), i < q PROVE s[i] \notin P
    <3>1. i \notin I
      BY <1>1, <2>1, <2>2, <2>3, <2>4
    <3>2. QED
      BY <3>1
  <2>5. QED
    BY <1>1, <2>3, <2>4
<1>4. QED
  BY <1>2, <1>3

\* A thread put before the first one that is less urgent keeps the order.
LEMMA InsertedInOrder ==
    ASSUME NEW T, NEW s \in Seq(T), NEW p, \A x \in T : p[x] \in Int, Ordered(s, p),
           NEW t \in T, t \notin ToSet(s), NEW q \in 1 .. Len(s) + 1,
           \A i \in 1 .. Len(s) : i < q => p[s[i]] <= p[t],
           q <= Len(s) => p[s[q]] > p[t],
           NEW r, r = InsertAt(s, q, t)
    PROVE  /\ r \in Seq(T)
           /\ ToSet(r) = ToSet(s) \cup {t}
           /\ Ordered(r, p)
<1>1. Len(s) \in Nat /\ DOMAIN s = 1 .. Len(s)
  BY LenProperties
<1>2. \A i \in 1 .. Len(s) : s[i] \in T /\ p[s[i]] \in Int
  BY ElementOfSeq
<1>5. /\ q \in 1 .. Len(s) + 1
      /\ \A i \in 1 .. Len(s) : i < q => p[s[i]] <= p[t]
      /\ q <= Len(s) => p[s[q]] > p[t]
  OBVIOUS
<1>6. \A i, j \in 1 .. Len(s) : i < j => s[i] # s[j] /\ p[s[i]] <= p[s[j]]
  BY <1>1 DEF Ordered
<1>7. ASSUME NEW i \in 1 .. Len(s), i >= q PROVE p[t] <= p[s[i]]
  <2>1. q \in 1 .. Len(s) /\ p[s[q]] > p[t]
    BY <1>1, <1>5, <1>7
  <2>2. p[s[q]] <= p[s[i]]
    <3>1. CASE i = q
      BY <1>2, <3>1
    <3>2. CASE i > q
      BY <1>6, <2>1, <3>2
    <3>3. QED
      BY <1>1, <1>7, <2>1, <3>1, <3>2
  <2>3. QED
    BY <1>2, <2>1, <2>2
<1>8. /\ r \in Seq(T) /\ Len(r) = Len(s) + 1
      /\ \A i \in 1 .. Len(r) : r[i] = IF i < q THEN s[i] ELSE IF i = q THEN t ELSE s[i - 1]
  BY Inserted
<1>9. \A i \in 1 .. Len(r) : \/ i < q /\ i \in 1 .. Len(s) /\ r[i] = s[i]
                             \/ i = q /\ r[i] = t
                             \/ i > q /\ i - 1 \in 1 .. Len(s) /\ i - 1 >= q /\ r[i] = s[i - 1]
  <2> TAKE i \in 1 .. Len(r)
  <2>1. r[i] = IF i < q THEN s[i] ELSE IF i = q THEN t ELSE s[i - 1]
    BY <1>8
  <2>2. i \in 1 .. Len(s) + 1 /\ q \in 1 .. Len(s) + 1
    BY <1>5, <1>8
  <2>3. CASE i < q
    <3>1. r[i] = s[i] /\ i \in 1 .. Len(s)
      BY <1>1, <2>1, <2>2, <2>3
    <3>2. QED
      BY <2>3, <3>1
  <2>4. CASE i = q
    BY <2>1, <2>4
  <2>5. CASE i > q
    <3>1. r[i] = s[i - 1] /\ i - 1 \in 1 .. Len(s) /\ i - 1 >= q
      BY <1>1, <2>1, <2>2, <2>5
    <3>2. QED
      BY <2>5, <3>1
  <2>6. QED
    BY <2>2, <2>3, <2>4, <2>5
<1>10. ToSet(r) = ToSet(s) \cup {t}
  <2>1. ASSUME NEW x \in ToSet(r) PROVE x \in ToSet(s) \cup {t}
    <3>1. PICK i \in 1 .. Len(r) : r[i] = x
      BY <1>8, Members
    <3>2. r[i] = t \/ \E k \in 1 .. Len(s) : r[i] = s[k]
      BY <1>9
    <3>3. QED
      BY <3>1, <3>2, Members
  <2>2. ASSUME NEW i \in 1 .. Len(s) PROVE s[i] \in ToSet(r)
    <3>1. CASE i < q
      <4>1. i \in 1 .. Len(r) /\ r[i] = s[i]
        BY <1>1, <1>5, <1>8, <3>1
      <4>2. QED
        BY <1>8, <4>1, Members
    <3>2. CASE i >= q
      <4>1. i + 1 \in 1 .. Len(r) /\ r[i + 1] = s[i]
        BY <1>1, <1>5, <1>8, <3>2
      <4>2. QED
        BY <1>8, <4>1, Members
    <3>3. QED
      BY <1>5, <3>1, <3>2
  <2>3. q \in 1 .. Len(r) /\ r[q] = t
    BY <1>1, <1>5, <1>8
  <2>4. t \in ToSet(r)
    BY <1>8, <2>3, Members
  <2>5. QED
    BY <2>1, <2>2, <2>4, Members
<1>11. Ordered(r, p)
  <2>1. \A i \in 1 .. Len(s) : s[i] # t
    BY <1>2, Members
  <2>2. DOMAIN r = 1 .. Len(r)
    BY <1>8, LenProperties
  <2>3. SUFFICES ASSUME NEW i \in 1 .. Len(r), NEW j \in 1 .. Len(r), i < j
                 PROVE  r[i] # r[j] /\ p[r[i]] <= p[r[j]]
    BY <2>2 DEF Ordered
  <2>4. CASE j < q
    BY <1>5, <1>9, <1>6, <2>3, <2>4
  <2>5. CASE j = q
    BY <1>5, <1>9, <2>1, <2>3, <2>5
  <2>6. CASE i < q /\ q < j
    <3>1. /\ i \in 1 .. Len(s) /\ r[i] = s[i] /\ i < j - 1
          /\ j - 1 \in 1 .. Len(s) /\ r[j] = s[j - 1]
      BY <1>5, <1>9, <2>6
    <3>2. QED
      BY <1>6, <3>1
  <2>7. CASE i = q
    <3>1. r[i] = t /\ j > q
      BY <1>5, <1>9, <2>3, <2>7
    <3>2. j - 1 \in 1 .. Len(s) /\ j - 1 >= q /\ r[j] = s[j - 1]
      BY <1>5, <1>9, <3>1
    <3>3. p[t] <= p[s[j - 1]]
      BY <1>7, <3>2
    <3>4. QED
      BY <2>1, <3>1, <3>2, <3>3
  <2>8. CASE q < i
    <3>1. /\ i - 1 \in 1 .. Len(s) /\ r[i] = s[i - 1] /\ i - 1 < j - 1
          /\ j - 1 \in 1 .. Len(s) /\ r[j] = s[j - 1]
      BY <1>5, <1>9, <2>3, <2>8
    <3>2. QED
      BY <1>6, <3>1
  <2>9. QED
    BY <1>5, <2>3, <2>4, <2>5, <2>6, <2>7, <2>8
<1>12. QED
  BY <1>8, <1>10, <1>11

\* erase takes the first occurrence away.
LEMMA RemovedPlace ==
    ASSUME NEW T, NEW s \in Seq(T), NEW t \in ToSet(s)
    PROVE  \E q \in 1 .. Len(s) : s[q] = t /\ RemoveFirst(s, t) = RemoveAt(s, q)
<1> DEFINE I == {i \in 1 .. Len(s) : s[i] = t}
           q == Min(I)
<1>1. I # {} /\ I \in SUBSET Nat
  BY Members
<1>2. q \in I
  BY <1>1, FirstPosition
<1>3. SelectInSeq(s, LAMBDA v : v = t) = q
  BY <1>1 DEF SelectInSeq
<1>4. q \in 1 .. Len(s) /\ s[q] = t /\ q # 0
  BY <1>2, LenProperties
<1>5. RemoveFirst(s, t) = RemoveAt(s, q)
  BY <1>3, <1>4 DEF RemoveFirst
<1>6. QED
  BY <1>4, <1>5

\* A thread is taken out of a sequence in order.
LEMMA RemoveKeepsOrder ==
    ASSUME NEW T, NEW s \in Seq(T), NEW p, Ordered(s, p), NEW t \in ToSet(s)
    PROVE  /\ RemoveFirst(s, t) \in Seq(T)
           /\ ToSet(RemoveFirst(s, t)) = ToSet(s) \ {t}
           /\ Ordered(RemoveFirst(s, t), p)
<1>1. Len(s) \in Nat /\ DOMAIN s = 1 .. Len(s)
  BY LenProperties
<1>2. PICK q \in 1 .. Len(s) : s[q] = t /\ RemoveFirst(s, t) = RemoveAt(s, q)
  BY RemovedPlace
<1>3. q \in 1 .. Len(s) /\ s[q] = t
  BY <1>2
<1>4. PICK r : r = RemoveFirst(s, t)
  OBVIOUS
<1>5. /\ r \in Seq(T) /\ Len(r) = Len(s) - 1
      /\ \A i \in 1 .. Len(r) : r[i] = IF i < q THEN s[i] ELSE s[i + 1]
  BY <1>2, <1>4, Removed
<1>6. \A i, j \in 1 .. Len(s) : i < j => s[i] # s[j] /\ p[s[i]] <= p[s[j]]
  BY <1>1 DEF Ordered
<1>7. \A i \in 1 .. Len(s) : i # q => s[i] # t
  BY <1>1, <1>3, <1>6
<1>8. \A i \in 1 .. Len(r) : \/ i < q /\ i \in 1 .. Len(s) /\ r[i] = s[i]
                             \/ i >= q /\ i + 1 \in 1 .. Len(s) /\ r[i] = s[i + 1]
  <2> TAKE i \in 1 .. Len(r)
  <2>1. r[i] = IF i < q THEN s[i] ELSE s[i + 1]
    BY <1>5
  <2>2. i \in 1 .. Len(s) - 1 /\ q \in 1 .. Len(s)
    BY <1>3, <1>5
  <2>3. CASE i < q
    <3>1. r[i] = s[i] /\ i \in 1 .. Len(s)
      BY <1>1, <2>1, <2>2, <2>3
    <3>2. QED
      BY <2>3, <3>1
  <2>4. CASE i >= q
    <3>1. r[i] = s[i + 1] /\ i + 1 \in 1 .. Len(s)
      BY <1>1, <2>1, <2>2, <2>4
    <3>2. QED
      BY <2>4, <3>1
  <2>5. QED
    BY <2>2, <2>3, <2>4
<1>9. ToSet(r) = ToSet(s) \ {t}
  <2>1. \A i \in 1 .. Len(r) : r[i] \in ToSet(s) /\ r[i] # t
    <3> TAKE i \in 1 .. Len(r)
    <3>1. PICK k \in 1 .. Len(s) : k # q /\ r[i] = s[k]
      BY <1>1, <1>3, <1>8
    <3>2. QED
      BY <1>7, <3>1, Members
  <2>2. \A x \in ToSet(r) : x \in ToSet(s) \ {t}
    BY <1>5, <2>1, Members
  <2>3. ASSUME NEW i \in 1 .. Len(s), i # q PROVE s[i] \in ToSet(r)
    <3>1. CASE i < q
      <4>1. i \in 1 .. Len(r) /\ r[i] = s[i]
        BY <1>1, <1>3, <1>5, <3>1
      <4>2. QED
        BY <1>5, <4>1, Members
    <3>2. CASE i > q
      <4>1. i - 1 \in 1 .. Len(r) /\ r[i - 1] = s[i]
        BY <1>1, <1>3, <1>5, <3>2
      <4>2. QED
        BY <1>5, <4>1, Members
    <3>3. QED
      BY <1>3, <2>3, <3>1, <3>2
  <2>4. QED
    BY <1>3, <2>2, <2>3, Members
<1>10. Ordered(r, p)
  <2>1. DOMAIN r = 1 .. Len(r)
    BY <1>5, LenProperties
  <2>2. SUFFICES ASSUME NEW i \in 1 .. Len(r), NEW j \in 1 .. Len(r), i < j
                 PROVE  r[i] # r[j] /\ p[r[i]] <= p[r[j]]
    BY <2>1 DEF Ordered
  <2>3. PICK k \in 1 .. Len(s), l \in 1 .. Len(s) : k < l /\ r[i] = s[k] /\ r[j] = s[l]
    <3>1. CASE i < q
      <4>1. r[i] = s[i] /\ i \in 1 .. Len(s)
        BY <1>3, <1>8, <3>1
      <4>2. PICK l \in 1 .. Len(s) : r[j] = s[l] /\ (l = j \/ l = j + 1)
        BY <1>8
      <4>3. i < l
        BY <1>1, <2>2, <4>2
      <4>4. QED
        BY <4>1, <4>2, <4>3
    <3>2. CASE i >= q
      <4>1. i + 1 \in 1 .. Len(s) /\ r[i] = s[i + 1]
        BY <1>3, <1>8, <3>2
      <4>2. j >= q
        BY <1>3, <2>2, <3>2
      <4>3. j + 1 \in 1 .. Len(s) /\ r[j] = s[j + 1] /\ i + 1 < j + 1
        BY <1>3, <1>8, <2>2, <4>2
      <4>4. QED
        BY <4>1, <4>3
    <3>3. QED
      BY <1>3, <2>2, <3>1, <3>2
  <2>4. QED
    BY <1>6, <2>3
<1>11. QED
  BY <1>4, <1>5, <1>9, <1>10

\* The rest of a sequence in order.
LEMMA TailKeepsOrder ==
    ASSUME NEW T, NEW s \in Seq(T), s # <<>>, NEW p, Ordered(s, p)
    PROVE  /\ Head(s) \in T /\ Head(s) \in ToSet(s)
           /\ Tail(s) \in Seq(T) /\ Ordered(Tail(s), p)
           /\ ToSet(Tail(s)) = ToSet(s) \ {Head(s)}
           /\ \A x \in ToSet(Tail(s)) : p[Head(s)] <= p[x]
           /\ Tail(s) # <<>> <=> Len(s) > 1
<1>1. /\ Len(s) \in Nat \ {0} /\ DOMAIN s = 1 .. Len(s)
      /\ Tail(s) \in Seq(T) /\ Len(Tail(s)) = Len(s) - 1
      /\ \A i \in 1 .. Len(s) - 1 : Tail(s)[i] = s[i + 1]
      /\ Head(s) = s[1] /\ s[1] \in T
  BY EmptySeq, HeadTailProperties, LenProperties, ElementOfSeq
<1>2. PICK r : r = Tail(s)
  OBVIOUS
<1>3. /\ r \in Seq(T) /\ Len(r) = Len(s) - 1 /\ DOMAIN r = 1 .. Len(r)
      /\ \A i \in 1 .. Len(r) : r[i] = s[i + 1] /\ i + 1 \in 1 .. Len(s) /\ 1 < i + 1
  BY <1>1, <1>2, LenProperties
<1>4. \A i, j \in 1 .. Len(s) : i < j => s[i] # s[j] /\ p[s[i]] <= p[s[j]]
  BY <1>1 DEF Ordered
<1>5. Head(s) \in ToSet(s)
  BY <1>1, Members
<1>6. \A i \in 1 .. Len(r) : r[i] \in ToSet(s) /\ r[i] # s[1] /\ p[s[1]] <= p[r[i]]
  <2> TAKE i \in 1 .. Len(r)
  <2>1. r[i] = s[i + 1] /\ i + 1 \in 1 .. Len(s) /\ 1 < i + 1 /\ 1 \in 1 .. Len(s)
    BY <1>1, <1>3
  <2>2. s[i + 1] \in ToSet(s)
    BY <2>1, Members
  <2>3. QED
    BY <1>4, <2>1, <2>2
<1>7. \A x \in ToSet(r) : \E i \in 1 .. Len(r) : r[i] = x
  BY <1>3, Members
<1>8. \A i \in 1 .. Len(s) : i # 1 => s[i] \in ToSet(r)
  <2> SUFFICES ASSUME NEW i \in 1 .. Len(s), i # 1 PROVE s[i] \in ToSet(r)
    OBVIOUS
  <2>1. i - 1 \in 1 .. Len(r) /\ r[i - 1] = s[i]
    BY <1>1, <1>3
  <2>2. QED
    BY <1>3, <2>1, Members
<1>9. ToSet(r) = ToSet(s) \ {s[1]}
  <2>1. \A x \in ToSet(s) : \E i \in 1 .. Len(s) : s[i] = x
    BY Members
  <2>2. \A x \in ToSet(s) : x # s[1] => x \in ToSet(r)
    BY <1>8, <2>1
  <2>3. \A x \in ToSet(r) : x \in ToSet(s) /\ x # s[1]
    BY <1>6, <1>7
  <2>4. QED
    BY <2>2, <2>3
<1>10. Ordered(r, p)
  <2>1. SUFFICES ASSUME NEW i \in 1 .. Len(r), NEW j \in 1 .. Len(r), i < j
                 PROVE  r[i] # r[j] /\ p[r[i]] <= p[r[j]]
    BY <1>3 DEF Ordered
  <2>2. /\ r[i] = s[i + 1] /\ r[j] = s[j + 1] /\ i + 1 < j + 1
        /\ i + 1 \in 1 .. Len(s) /\ j + 1 \in 1 .. Len(s)
    BY <1>3, <2>1
  <2>3. QED
    BY <1>4, <2>2
<1>11. \A x \in ToSet(r) : p[s[1]] <= p[x]
  BY <1>6, <1>7
<1>12. r # <<>> <=> Len(s) > 1
  BY <1>1, <1>3, EmptySeq
<1>13. QED
  BY <1>1, <1>2, <1>3, <1>5, <1>9, <1>10, <1>11, <1>12

\* A thread stays in order when the priority of another one changes.
LEMMA OrderOfOthers ==
    ASSUME NEW T, NEW s \in Seq(T), NEW f, NEW g, Ordered(s, f),
           \A x \in ToSet(s) : g[x] = f[x]
    PROVE  Ordered(s, g)
<1>1. DOMAIN s = 1 .. Len(s) /\ \A i \in 1 .. Len(s) : s[i] \in ToSet(s)
  BY LenProperties, Members
<1>2. QED
  BY <1>1 DEF Ordered

LEMMA EmptyHasNone ==
    ASSUME NEW T, NEW s \in Seq(T)
    PROVE  s = <<>> <=> ToSet(s) = {}
<1>1. Len(s) \in Nat /\ (s = <<>> <=> Len(s) = 0)
  BY EmptySeq, LenProperties
<1>2. CASE Len(s) = 0
  <2>1. ~\E i \in 1 .. Len(s) : TRUE
    BY <1>2
  <2>2. \A x : x \notin ToSet(s)
    BY <2>1, Members
  <2>3. QED
    BY <1>1, <1>2, <2>2
<1>3. CASE Len(s) # 0
  <2>1. 1 \in 1 .. Len(s)
    BY <1>1, <1>3
  <2>2. s[1] \in ToSet(s)
    BY <2>1, Members
  <2>3. QED
    BY <1>1, <1>3, <2>2
<1>4. QED
  BY <1>2, <1>3
-----------------------------------------------------------------------------
(***************************************************************************)
(* The address arbiter.                                                    *)
(***************************************************************************)

\* A thread whose word was written since it read it is in a wait, and only a thread in the
\* tree is registered in the timer.
OutdatedInWait == \A t \in outdated : state[t] # "Runnable"
TimedWaits == \A t \in timers : state[t] = "Waiting"

ArbiterInv == TreeMatchesWaiters /\ NoLostWakeUp /\ OutdatedInWait /\ TimedWaits

\* insert puts a thread of the arbiter into the order.
LEMMA InsertKeepsOrder ==
    ASSUME PrioritiesAssumption, priority \in [Threads -> Priorities],
           NEW s \in Seq(Threads), Ordered(s, priority),
           NEW t \in Threads \ ToSet(s), NEW p \in Priorities
    PROVE  /\ Insert(s, t, p) \in Seq(Threads)
           /\ ToSet(Insert(s, t, p)) = ToSet(s) \cup {t}
           /\ Ordered(Insert(s, t, p), [priority EXCEPT ![t] = p])
<1> DEFINE P == {u \in Threads : priority[u] > p}
           I == {i \in 1 .. Len(s) : s[i] \in P}
           q == IF I = {} THEN Len(s) + 1 ELSE Min(I)
<1>1. \A i \in 1 .. Len(s) : s[i] \in Threads /\ s[i] \in ToSet(s)
  BY ElementOfSeq, Members
<1>2. /\ q \in 1 .. Len(s) + 1
      /\ I # {} => q # 0
      /\ \A i \in 1 .. Len(s) : i < q => s[i] \notin P
      /\ q <= Len(s) => s[q] \in P
  BY PlaceOfFirst
<1>3. {i \in 1 .. Len(s) : priority[s[i]] > p} = I
  BY <1>1
<1>4. SelectInSeq(s, LAMBDA u : priority[u] > p) = IF I # {} THEN Min(I) ELSE 0
  BY <1>3 DEF SelectInSeq
<1>5. Insert(s, t, p) = InsertAt(s, q, t)
  BY <1>2, <1>4 DEF Insert
<1>6. q \in 1 .. Len(s) + 1
  BY <1>2
<1>7. PICK new : new = [priority EXCEPT ![t] = p]
  OBVIOUS
<1>8. /\ new[t] = p /\ \A u \in Threads \ {t} : new[u] = priority[u]
      /\ \A u \in Threads : new[u] \in Int /\ priority[u] \in Int
  BY <1>7 DEF PrioritiesAssumption
<1>9. \A i \in 1 .. Len(s) : s[i] \in Threads \ {t}
  BY <1>1
<1>10. Ordered(s, new)
  <2>1. \A u \in ToSet(s) : u \in Threads \ {t}
    BY <1>9, Members
  <2>2. QED
    BY <1>8, <2>1, OrderOfOthers
<1>11. \A i \in 1 .. Len(s) : i < q => new[s[i]] <= new[t]
  <2> SUFFICES ASSUME NEW i \in 1 .. Len(s), i < q PROVE new[s[i]] <= new[t]
    OBVIOUS
  <2>1. ~(priority[s[i]] > p) /\ new[s[i]] = priority[s[i]] /\ priority[s[i]] \in Int /\ p \in Int
    BY <1>2, <1>8, <1>9
  <2>2. QED
    BY <1>8, <2>1
<1>12. q <= Len(s) => new[s[q]] > new[t]
  <2>1. q <= Len(s) => s[q] \in P /\ q \in 1 .. Len(s)
    BY <1>2, LenProperties
  <2>2. QED
    BY <1>8, <1>9, <2>1
<1>13. t \in Threads /\ t \notin ToSet(s)
  OBVIOUS
<1> HIDE DEF P, I, q
<1>14. PICK r : r = InsertAt(s, q, t)
  OBVIOUS
<1>15. r \in Seq(Threads) /\ ToSet(r) = ToSet(s) \cup {t} /\ Ordered(r, new)
  BY <1>6, <1>8, <1>10, <1>11, <1>12, <1>13, <1>14, InsertedInOrder
<1>16. QED
  BY <1>5, <1>7, <1>14, <1>15

\* The part of a sequence after its first n elements.
LEMMA Suffix ==
    ASSUME NEW T, NEW s \in Seq(T), NEW n \in 0 .. Len(s)
    PROVE  /\ SubSeq(s, n + 1, Len(s)) \in Seq(T)
           /\ Len(SubSeq(s, n + 1, Len(s))) = Len(s) - n
           /\ \A i \in 1 .. Len(s) - n : SubSeq(s, n + 1, Len(s))[i] = s[n + i]
<1>1. Len(s) \in Nat /\ n \in Nat
  BY LenProperties
<1>2. PICK m \in Int : m = n + 1
  BY <1>1
<1>3. PICK r : r = SubSeq(s, m, Len(s))
  OBVIOUS
<1>4. \A i \in m .. Len(s) : s[i] \in T
  BY <1>1, <1>2, ElementOfSeq
<1>5. /\ r \in Seq(T) /\ Len(r) = IF m <= Len(s) THEN Len(s) - m + 1 ELSE 0
      /\ \A i \in 1 .. Len(s) - m + 1 : r[i] = s[m + i - 1]
  BY <1>1, <1>3, <1>4, SubSeqProperties
<1>6. Len(r) = Len(s) - n
  BY <1>1, <1>2, <1>5
<1>7. ASSUME NEW i \in 1 .. Len(s) - n PROVE r[i] = s[n + i]
  <2>1. i \in 1 .. Len(s) - m + 1 /\ m + i - 1 = n + i
    BY <1>1, <1>2
  <2>2. QED
    BY <1>5, <2>1
<1>8. QED
  BY <1>2, <1>3, <1>5, <1>6, <1>7

\* The sequence s is the n elements of w and then the ones of r.
SplitAt(n, s, w, r) ==
    /\ n \in 0 .. Len(s)
    /\ Len(w) = n /\ \A i \in 1 .. n : w[i] = s[i]
    /\ Len(r) = Len(s) - n /\ \A i \in 1 .. Len(s) - n : r[i] = s[n + i]

\* The walk of a signal takes a prefix of the tree: what it leaves is in order, and no more
\* urgent than what it takes.
LEMMA SuffixKeepsOrder ==
    ASSUME PrioritiesAssumption, priority \in [Threads -> Priorities],
           NEW s \in Seq(Threads), NEW w \in Seq(Threads), NEW r \in Seq(Threads),
           Ordered(s, priority), NEW n, SplitAt(n, s, w, r)
    PROVE  /\ ToSet(w) \subseteq ToSet(s) /\ ToSet(r) = ToSet(s) \ ToSet(w)
           /\ Ordered(r, priority)
           /\ \A x \in ToSet(w), y \in ToSet(r) : priority[x] <= priority[y]
<1>1. Len(s) \in Nat /\ n \in Nat /\ DOMAIN s = 1 .. Len(s)
  BY LenProperties DEF SplitAt
<1>2. /\ n \in 0 .. Len(s)
      /\ Len(w) = n /\ \A i \in 1 .. n : w[i] = s[i]
      /\ Len(r) = Len(s) - n /\ \A i \in 1 .. Len(s) - n : r[i] = s[n + i]
  BY DEF SplitAt
<1>3. \A i, j \in 1 .. Len(s) : i < j => s[i] # s[j] /\ priority[s[i]] <= priority[s[j]]
  BY <1>1 DEF Ordered
<1>4. \A x \in ToSet(w) : \E k \in 1 .. n : x = s[k]
  BY <1>2, Members
<1>5. \A y \in ToSet(r) : \E k \in 1 .. Len(s) : k > n /\ y = s[k]
  <2> SUFFICES ASSUME NEW y \in ToSet(r)
               PROVE  \E k \in 1 .. Len(s) : k > n /\ y = s[k]
    OBVIOUS
  <2>1. PICK i \in 1 .. Len(r) : r[i] = y
    BY Members
  <2>2. i \in 1 .. Len(s) - n
    BY <1>2
  <2>3. y = s[n + i]
    BY <1>2, <2>1, <2>2
  <2>4. n + i \in 1 .. Len(s) /\ n + i > n
    BY <1>1, <2>2
  <2>5. QED
    BY <2>3, <2>4
<1>6. \A k \in 1 .. n : s[k] \in ToSet(w) /\ k \in 1 .. Len(s)
  BY <1>1, <1>2, Members
<1>7. ASSUME NEW k \in 1 .. Len(s), k > n PROVE s[k] \in ToSet(r)
  <2>1. k - n \in 1 .. Len(r) /\ r[k - n] = s[k]
    BY <1>1, <1>2, <1>7
  <2>2. QED
    BY <1>2, <2>1, Members
<1>8. ToSet(w) \subseteq ToSet(s)
  <2>1. \A k \in 1 .. Len(s) : s[k] \in ToSet(s)
    BY Members
  <2>2. QED
    BY <1>4, <1>6, <2>1
<1>9. \A x \in ToSet(w), y \in ToSet(r) : x # y /\ priority[x] <= priority[y]
  BY <1>1, <1>3, <1>4, <1>5, <1>6
<1>10. ToSet(r) = ToSet(s) \ ToSet(w)
  <2>1. \A y \in ToSet(r) : y \in ToSet(s) \ ToSet(w)
    BY <1>5, <1>9, Members
  <2>2. ASSUME NEW y \in ToSet(s) \ ToSet(w) PROVE y \in ToSet(r)
    <3>1. PICK k \in 1 .. Len(s) : s[k] = y
      BY Members
    <3>2. k > n
      BY <1>1, <1>6, <2>2, <3>1
    <3>3. QED
      BY <1>7, <3>1, <3>2
  <2>3. QED
    BY <2>1, <2>2
<1>11. Ordered(r, priority)
  <2>1. DOMAIN r = 1 .. Len(s) - n
    BY <1>2, LenProperties
  <2>2. SUFFICES ASSUME NEW i \in 1 .. Len(s) - n, NEW j \in 1 .. Len(s) - n, i < j
                 PROVE  r[i] # r[j] /\ priority[r[i]] <= priority[r[j]]
    BY <2>1 DEF Ordered
  <2>3. /\ n + i \in 1 .. Len(s) /\ n + j \in 1 .. Len(s) /\ n + i < n + j
        /\ r[i] = s[n + i] /\ r[j] = s[n + j]
    BY <1>1, <1>2, <2>2
  <2>4. QED
    BY <1>3, <2>3
<1>12. QED
  BY <1>8, <1>9, <1>10, <1>11

\* The order of threads whose priority does not change stays.
LEMMA OrderElsewhere ==
    ASSUME priority \in [Threads -> Priorities], NEW s \in Seq(Threads), Ordered(s, priority),
           NEW t \in Threads \ ToSet(s), NEW p \in Priorities
    PROVE  Ordered(s, [priority EXCEPT ![t] = p])
<1>1. DOMAIN s = 1 .. Len(s) /\ \A i \in 1 .. Len(s) : s[i] \in Threads /\ s[i] # t
  BY LenProperties, ElementOfSeq, Members
<1>2. \A i \in 1 .. Len(s) : [priority EXCEPT ![t] = p][s[i]] = priority[s[i]]
  BY <1>1
<1>3. QED
  BY <1>1, <1>2 DEF Ordered

\* The smaller of two numbers.
LEMMA MinOfTwo ==
    ASSUME NEW m \in Nat, NEW n \in Nat
    PROVE  Min({m, n}) = IF m <= n THEN m ELSE n
<1>1. {m, n} \in SUBSET Nat /\ {m, n} # {}
  OBVIOUS
<1>2. Min({m, n}) \in {m, n} /\ \A i \in {m, n} : Min({m, n}) <= i
  BY <1>1, FirstPosition
<1>3. QED
  BY <1>2

\* A word that wraps stays a word.
LEMMA WrapIsInt ==
    ASSUME LimitAssumption, NEW n \in Int
    PROVE  Wrap(n) \in Ints
<1>1. Limit \in Nat /\ Limit > 0 /\ 2 * Limit \in Nat /\ 2 * Limit > 0
  BY DEF LimitAssumption
<1>2. n + Limit \in Int
  BY <1>1
<1>3. ((n + Limit) % (2 * Limit)) \in 0 .. 2 * Limit - 1
  BY <1>1, <1>2
<1>4. QED
  BY <1>1, <1>3 DEF Wrap, Ints
-----------------------------------------------------------------------------
(***************************************************************************)
(* The parts of a step.                                                    *)
(***************************************************************************)

Waiters(a) == {t \in Threads : state[t] = "Waiting" /\ key[t] = a}

\* The tree in the terms of the lemmas.
LEMMA TreeOrdered ==
    TreeMatchesWaiters <=> \A a \in Addresses : ToSet(tree[a]) = Waiters(a) /\ Ordered(tree[a], priority)
BY DEF TreeMatchesWaiters, Waiters, Ordered

\* The threads W stop waiting at the address a.
LEMMA WakeStep ==
    ASSUME TypeOK, ArbiterInv, NEW a \in Addresses, NEW W \in SUBSET ToSet(tree[a]), Wake(W),
           UNCHANGED <<priority, key>>,
           tree' \in [Addresses -> Seq(Threads)],
           ToSet(tree'[a]) = ToSet(tree[a]) \ W, Ordered(tree'[a], priority),
           \A b \in Addresses \ {a} : tree'[b] = tree[b],
           \A t \in outdated' : \E u \in Threads : key[t] \in owes'[u]
    PROVE  /\ ArbiterInv'
           /\ state' \in [Threads -> {"Runnable", "Locked", "Waiting"}]
           /\ timers' \subseteq Threads /\ timed' \subseteq Threads /\ outdated' \subseteq Threads
<1>1. /\ state \in [Threads -> {"Runnable", "Locked", "Waiting"}]
      /\ timers \subseteq Threads /\ timed \subseteq Threads /\ outdated \subseteq Threads
  BY DEF TypeOK
<1>2. /\ state' = [t \in Threads |-> IF t \in W THEN "Runnable" ELSE state[t]]
      /\ timed' = timed \ W /\ timers' = timers \ W /\ outdated' = outdated \ W
  BY DEF Wake
<1>3. \A b \in Addresses : ToSet(tree[b]) = Waiters(b) /\ Ordered(tree[b], priority)
  BY TreeOrdered DEF ArbiterInv
<1>4. ASSUME NEW b \in Addresses PROVE ToSet(tree'[b]) = Waiters(b)' /\ Ordered(tree'[b], priority')
  <2>1. Waiters(b)' = Waiters(b) \ W
    BY <1>1, <1>2 DEF Waiters
  <2>2. CASE b = a
    BY <1>3, <2>1, <2>2
  <2>3. CASE b # a
    <3>1. Waiters(b) \cap W = {}
      BY <1>3, <2>3 DEF Waiters
    <3>2. QED
      BY <1>3, <2>1, <2>3, <3>1
  <2>4. QED
    BY <2>2, <2>3
<1>5. TreeMatchesWaiters'
  BY <1>4 DEF TreeMatchesWaiters, Waiters, Ordered
<1>6. NoLostWakeUp'
  BY DEF NoLostWakeUp
<1>7. OutdatedInWait' /\ TimedWaits'
  BY <1>1, <1>2 DEF ArbiterInv, OutdatedInWait, TimedWaits
<1>8. QED
  BY <1>1, <1>2, <1>5, <1>6, <1>7 DEF ArbiterInv

\* A time-out or a termination ends a wait.
LEMMA CancelStep ==
    ASSUME TypeOK, ArbiterInv, NEW t \in Threads, state[t] = "Waiting", CancelWait(t),
           UNCHANGED <<priority, key, owes>>
    PROVE  /\ ArbiterInv' /\ tree' \in [Addresses -> Seq(Threads)]
           /\ state' \in [Threads -> {"Runnable", "Locked", "Waiting"}]
           /\ timers' \subseteq Threads /\ timed' \subseteq Threads /\ outdated' \subseteq Threads
<1> DEFINE W == {t}
<1>1. PICK a \in Addresses : a = key[t]
  BY DEF TypeOK
<1>2. PICK s \in Seq(Threads) : s = tree[a]
  BY DEF TypeOK
<1>3. t \in ToSet(s) /\ Ordered(s, priority)
  BY <1>1, <1>2, TreeOrdered DEF ArbiterInv, Waiters
<1>4. /\ RemoveFirst(s, t) \in Seq(Threads)
      /\ ToSet(RemoveFirst(s, t)) = ToSet(s) \ {t} /\ Ordered(RemoveFirst(s, t), priority)
  BY <1>3, RemoveKeepsOrder
<1>5. tree' = [tree EXCEPT ![a] = RemoveFirst(s, t)] /\ tree \in [Addresses -> Seq(Threads)]
  BY <1>1, <1>2 DEF CancelWait, TypeOK
<1>6. /\ tree' \in [Addresses -> Seq(Threads)] /\ tree'[a] = RemoveFirst(s, t)
      /\ \A b \in Addresses \ {a} : tree'[b] = tree[b]
  BY <1>4, <1>5
<1>7. /\ W \subseteq ToSet(tree[a]) /\ Wake(W)
      /\ ToSet(tree'[a]) = ToSet(tree[a]) \ W /\ Ordered(tree'[a], priority)
  BY <1>2, <1>3, <1>4, <1>6 DEF CancelWait
<1>8. \A u \in outdated' : \E v \in Threads : key[u] \in owes'[v]
  BY <1>7 DEF Wake, ArbiterInv, NoLostWakeUp
<1> HIDE DEF W
<1>9. QED
  BY <1>6, <1>7, <1>8, WakeStep

\* How many waiters a signal wakes.
Ended(a, count) == IF count <= 0 \/ count > Len(tree[a]) THEN Len(tree[a]) ELSE count

\* The waiters a signal wakes and the ones it leaves.
LEMMA Waking ==
    ASSUME PrioritiesAssumption, CountsAssumption, TypeOK, ArbiterInv,
           NEW a \in Addresses, NEW count \in Counts, WakeWaiters(a, count)
    PROVE  /\ tree' \in [Addresses -> Seq(Threads)]
           /\ \A b \in Addresses \ {a} : tree'[b] = tree[b]
           /\ Ended(a, count) \in 0 .. Len(tree[a])
           /\ Len(tree'[a]) = Len(tree[a]) - Ended(a, count)
           /\ ToSet(Woken(a, count)) \subseteq ToSet(tree[a])
           /\ ToSet(tree'[a]) = ToSet(tree[a]) \ ToSet(Woken(a, count))
           /\ Ordered(tree'[a], priority)
           /\ \A t \in ToSet(Woken(a, count)), u \in ToSet(tree'[a]) : priority[t] <= priority[u]
<1>1. PICK s \in Seq(Threads) : s = tree[a]
  BY DEF TypeOK
<1>2. PICK n : n = Ended(a, count)
  OBVIOUS
<1>3. PICK w : w = Woken(a, count)
  OBVIOUS
<1>4. Len(s) \in Nat /\ count \in Int
  BY LenProperties DEF CountsAssumption
<1>5. n \in 0 .. Len(s)
  BY <1>1, <1>2, <1>4 DEF Ended
<1>6. w \in Seq(Threads) /\ Len(w) = n /\ \A i \in 1 .. n : w[i] = s[i]
  <2>1. CASE count <= 0 \/ count > Len(s)
    BY <1>1, <1>2, <1>3, <1>4, <2>1 DEF Woken, Ended
  <2>2. CASE ~(count <= 0 \/ count > Len(s))
    <3>1. w = SubSeq(s, 1, count) /\ n = count /\ count \in 1 .. Len(s)
      BY <1>1, <1>2, <1>3, <1>4, <2>2 DEF Woken, Ended
    <3>2. QED
      BY <1>4, <3>1, SubSeqProperties, ElementOfSeq
  <2>3. QED
    BY <2>1, <2>2
<1>7. PICK r : r = SubSeq(s, n + 1, Len(s))
  OBVIOUS
<1>8. r \in Seq(Threads) /\ Len(r) = Len(s) - n /\ \A i \in 1 .. Len(s) - n : r[i] = s[n + i]
  BY <1>5, <1>7, Suffix
<1>9. Ordered(s, priority) /\ priority \in [Threads -> Priorities]
  BY <1>1, TreeOrdered DEF ArbiterInv, TypeOK
<1>10. /\ ToSet(w) \subseteq ToSet(s) /\ ToSet(r) = ToSet(s) \ ToSet(w) /\ Ordered(r, priority)
       /\ \A x \in ToSet(w), y \in ToSet(r) : priority[x] <= priority[y]
  <2>1. SplitAt(n, s, w, r)
    BY <1>5, <1>6, <1>8 DEF SplitAt
  <2>2. QED
    BY <1>6, <1>8, <1>9, <2>1, SuffixKeepsOrder
<1>11. tree' = [tree EXCEPT ![a] = r] /\ tree \in [Addresses -> Seq(Threads)]
  <2>1. tree' = [tree EXCEPT ![a] = SubSeq(s, Len(w) + 1, Len(s))]
    BY <1>1, <1>3 DEF WakeWaiters
  <2>2. QED
    BY <1>6, <1>7, <2>1 DEF TypeOK
<1>12. /\ tree' \in [Addresses -> Seq(Threads)] /\ tree'[a] = r
       /\ \A b \in Addresses \ {a} : tree'[b] = tree[b]
  BY <1>8, <1>11
<1>13. QED
  BY <1>1, <1>2, <1>3, <1>5, <1>8, <1>10, <1>12

\* A signal, whatever it does to the word: nobody it leaves asleep is owed a signal by the
\* caller alone, for it settles what the caller owes only if it leaves nobody.
LEMMA SignalStep ==
    ASSUME PrioritiesAssumption, CountsAssumption, TypeOK, ArbiterInv,
           NEW t \in Threads, NEW a \in Addresses, NEW count \in Counts,
           Unlocked, WakeWaiters(a, count), Settle(t, a), UNCHANGED <<priority, key>>
    PROVE  /\ ArbiterInv' /\ tree' \in [Addresses -> Seq(Threads)]
           /\ owes' \in [Threads -> SUBSET Addresses]
           /\ state' \in [Threads -> {"Runnable", "Locked", "Waiting"}]
           /\ timers' \subseteq Threads /\ timed' \subseteq Threads /\ outdated' \subseteq Threads
<1> DEFINE W == ToSet(Woken(a, count))
<1>1. /\ tree' \in [Addresses -> Seq(Threads)]
      /\ \A b \in Addresses \ {a} : tree'[b] = tree[b]
      /\ W \subseteq ToSet(tree[a]) /\ ToSet(tree'[a]) = ToSet(tree[a]) \ W
      /\ Ordered(tree'[a], priority)
  BY Waking
<1>2. Wake(W)
  BY DEF WakeWaiters
<1> HIDE DEF W
<1>3. owes \in [Threads -> SUBSET Addresses] /\ key \in [Threads -> Addresses]
  BY DEF TypeOK
<1>4. owes' = [owes EXCEPT ![t] = IF tree'[a] = <<>> THEN owes[t] \ {a} ELSE owes[t]]
  BY DEF Settle
<1>5. \A u \in Threads, b \in Addresses :
          b \in owes[u] => b \in owes'[u] \/ (b = a /\ tree'[a] = <<>>)
  BY <1>3, <1>4
<1>6. \A u \in outdated' : u \in Threads /\ u \in outdated /\ u \notin W
  BY <1>2 DEF Wake, TypeOK
<1>7. ASSUME NEW u \in outdated', key[u] = a PROVE tree'[a] # <<>>
  <2>1. state[u] = "Waiting"
    BY <1>6 DEF ArbiterInv, OutdatedInWait, Unlocked, TypeOK
  <2>2. u \in ToSet(tree[a])
    BY <1>6, <1>7, <2>1, TreeOrdered DEF ArbiterInv, Waiters
  <2>3. u \in ToSet(tree'[a])
    BY <1>1, <1>6, <2>2
  <2>4. ToSet(<<>>) = {}
    BY DEF ToSet
  <2>5. QED
    BY <2>3, <2>4
<1>8. \A u \in outdated' : \E v \in Threads : key[u] \in owes'[v]
  BY <1>3, <1>5, <1>6, <1>7 DEF ArbiterInv, NoLostWakeUp
<1>9. owes' \in [Threads -> SUBSET Addresses]
  BY <1>3, <1>4
<1>10. QED
  BY <1>1, <1>2, <1>8, <1>9, WakeStep
-----------------------------------------------------------------------------
(***************************************************************************)
(* The steps.                                                              *)
(***************************************************************************)

LEMMA InitHolds ==
    ASSUME AddressesAssumption, LimitAssumption, Init
    PROVE  TypeOK /\ ArbiterInv
<1>1. 0 \in Ints
  BY DEF LimitAssumption, Ints
<1>2. \A t \in Threads : key[t] \in Addresses
  BY DEF Init, AddressesAssumption
<1>3. key \in [Threads -> Addresses]
  BY <1>2 DEF Init
<1>4. TypeOK
  BY <1>1, <1>3 DEF Init, TypeOK
<1>5. \A a \in Addresses : tree[a] = <<>>
  BY DEF Init
<1>6. ToSet(<<>>) = {} /\ DOMAIN <<>> = {}
  BY DEF ToSet
<1>7. TreeMatchesWaiters
  BY <1>5, <1>6 DEF Init, TreeMatchesWaiters
<1>8. QED
  BY <1>4, <1>7 DEF Init, ArbiterInv, NoLostWakeUp, OutdatedInWait, TimedWaits

\* The thread that reads the word is in no tree, and nothing it reads is outdated.
LEMMA WaitForAddressStep ==
    ASSUME LimitAssumption, TypeOK, ArbiterInv, NEW t \in Threads, NEW a \in Addresses,
           NEW type \in WaitTypes, NEW v \in Ints, NEW timeout \in Timeouts,
           WaitForAddress(t, a, type, v, timeout)
    PROVE  (TypeOK /\ ArbiterInv)'
<1>1. /\ state[t] = "Runnable" /\ t \notin outdated
      /\ UNCHANGED <<tree, timers, priority, terminating, owes, outdated>>
  BY DEF WaitForAddress, CanCall, ArbiterInv, OutdatedInWait
<1>2. word' \in [Addresses -> Ints]
  <2>1. word[a] \in Int /\ word \in [Addresses -> Ints]
    BY DEF TypeOK, Ints, LimitAssumption
  <2>2. Wrap(word[a] - 1) \in Ints
    <3>1. PICK n \in Int : n = word[a] - 1
      BY <2>1
    <3>2. Wrap(n) \in Ints
      BY WrapIsInt
    <3>3. QED
      BY <3>1, <3>2
  <2>3. QED
    BY <2>1, <2>2 DEF WaitForAddress
<1>3. /\ state' \in [Threads -> {"Runnable", "Locked", "Waiting"}]
      /\ key' \in [Threads -> Addresses] /\ timed' \subseteq Threads
      /\ state'[t] # "Waiting"
      /\ \A u \in Threads \ {t} : state'[u] = state[u] /\ key'[u] = key[u]
  <2>1. /\ state \in [Threads -> {"Runnable", "Locked", "Waiting"}]
        /\ key \in [Threads -> Addresses] /\ timed \subseteq Threads
    BY DEF TypeOK
  <2>2. CASE UNCHANGED <<state, key, timed>>
    BY <1>1, <2>1, <2>2
  <2>3. CASE /\ state' = [state EXCEPT ![t] = "Locked"]
             /\ key' = [key EXCEPT ![t] = a]
             /\ timed' \subseteq timed \cup {t}
    BY <1>1, <2>1, <2>3
  <2>4. QED
    BY <2>2, <2>3 DEF WaitForAddress
<1>4. TypeOK'
  BY <1>1, <1>2, <1>3 DEF TypeOK
<1>5. TreeMatchesWaiters'
  <2>1. \A b \in Addresses : Waiters(b)' = Waiters(b)
    BY <1>1, <1>3 DEF Waiters
  <2>2. QED
    BY <1>1, <2>1 DEF ArbiterInv, TreeMatchesWaiters, Waiters
<1>6. NoLostWakeUp'
  BY <1>1, <1>3 DEF ArbiterInv, NoLostWakeUp, TypeOK
<1>7. OutdatedInWait' /\ TimedWaits'
  BY <1>1, <1>3 DEF ArbiterInv, OutdatedInWait, TimedWaits, TypeOK
<1>8. QED
  BY <1>4, <1>5, <1>6, <1>7 DEF ArbiterInv

LEMMA BeginWaitStep ==
    ASSUME PrioritiesAssumption, TypeOK, ArbiterInv, NEW t \in Threads, BeginWait(t)
    PROVE  (TypeOK /\ ArbiterInv)'
<1>1. PICK a \in Addresses : a = key[t]
  BY DEF TypeOK
<1>2. PICK s \in Seq(Threads) : s = tree[a]
  BY DEF TypeOK
<1>3. PICK r : r = Insert(s, t, priority[t])
  OBVIOUS
<1>4. /\ state[t] = "Locked" /\ state' = [state EXCEPT ![t] = "Waiting"]
      /\ tree' = [tree EXCEPT ![a] = r]
      /\ timers' \subseteq timers \cup {t}
      /\ UNCHANGED <<word, key, timed, priority, terminating, owes, outdated>>
  BY <1>1, <1>2, <1>3 DEF BeginWait, RegisterTask
<1>5. /\ tree \in [Addresses -> Seq(Threads)] /\ priority \in [Threads -> Priorities]
      /\ state \in [Threads -> {"Runnable", "Locked", "Waiting"}]
  BY DEF TypeOK
<1>6. \A b \in Addresses : ToSet(tree[b]) = Waiters(b) /\ Ordered(tree[b], priority)
  BY TreeOrdered DEF ArbiterInv
<1>7. t \notin ToSet(s) /\ Ordered(s, priority)
  BY <1>2, <1>4, <1>6 DEF Waiters
<1>8. [priority EXCEPT ![t] = priority[t]] = priority /\ priority[t] \in Priorities
  BY <1>5
<1>9. r \in Seq(Threads) /\ ToSet(r) = ToSet(s) \cup {t} /\ Ordered(r, priority)
  BY <1>3, <1>5, <1>7, <1>8, InsertKeepsOrder
<1>10. /\ tree' \in [Addresses -> Seq(Threads)] /\ tree'[a] = r
       /\ \A b \in Addresses \ {a} : tree'[b] = tree[b]
  BY <1>4, <1>5, <1>9
<1>11. TypeOK'
  BY <1>4, <1>10 DEF TypeOK
<1>12. TreeMatchesWaiters'
  <2>1. ASSUME NEW b \in Addresses PROVE ToSet(tree'[b]) = Waiters(b)' /\ Ordered(tree'[b], priority')
    <3>1. Waiters(b)' = IF b = a THEN Waiters(b) \cup {t} ELSE Waiters(b)
      BY <1>1, <1>4, <1>5 DEF Waiters
    <3>2. QED
      BY <1>2, <1>4, <1>6, <1>9, <1>10, <3>1
  <2>2. QED
    BY <2>1 DEF TreeMatchesWaiters, Waiters, Ordered
<1>13. NoLostWakeUp' /\ OutdatedInWait' /\ TimedWaits'
  BY <1>4, <1>5 DEF ArbiterInv, NoLostWakeUp, OutdatedInWait, TimedWaits, TypeOK
<1>14. QED
  BY <1>11, <1>12, <1>13 DEF ArbiterInv

\* A change of priority moves a waiting thread in its tree, and no other.
LEMMA SetPriorityStep ==
    ASSUME PrioritiesAssumption, TypeOK, ArbiterInv, NEW t \in Threads, NEW p \in Priorities,
           SetPriority(t, p)
    PROVE  (TypeOK /\ ArbiterInv)'
<1>1. /\ priority' = [priority EXCEPT ![t] = p]
      /\ UNCHANGED <<word, key, state, timed, timers, terminating, owes, outdated>>
  BY DEF SetPriority
<1>2. tree \in [Addresses -> Seq(Threads)] /\ priority \in [Threads -> Priorities]
  BY DEF TypeOK
<1>3. \A b \in Addresses : ToSet(tree[b]) = Waiters(b) /\ Ordered(tree[b], priority)
  BY TreeOrdered DEF ArbiterInv
<1>4. ASSUME NEW b \in Addresses, t \notin Waiters(b) PROVE Ordered(tree[b], priority')
  <2>1. PICK s \in Seq(Threads) : s = tree[b]
    BY <1>2
  <2>2. Ordered(s, priority) /\ t \in Threads \ ToSet(s)
    BY <1>3, <1>4, <2>1
  <2>3. Ordered(s, [priority EXCEPT ![t] = p])
    BY <1>2, <2>2, OrderElsewhere
  <2>4. QED
    BY <1>1, <2>1, <2>3
<1>5. /\ tree' \in [Addresses -> Seq(Threads)]
      /\ \A b \in Addresses : ToSet(tree'[b]) = Waiters(b) /\ Ordered(tree'[b], priority')
  <2>1. CASE state[t] # "Waiting"
    <3>1. tree' = tree
      BY <2>1 DEF SetPriority
    <3>2. \A b \in Addresses : t \notin Waiters(b)
      BY <2>1 DEF Waiters
    <3>3. QED
      BY <1>2, <1>3, <1>4, <3>1, <3>2
  <2>2. CASE state[t] = "Waiting"
    <3>1. PICK a \in Addresses : a = key[t]
      BY DEF TypeOK
    <3>2. PICK s \in Seq(Threads) : s = tree[a]
      BY <1>2
    <3>3. t \in ToSet(s) /\ Ordered(s, priority)
      BY <1>3, <2>2, <3>1, <3>2 DEF Waiters
    <3>4. PICK r : r = RemoveFirst(s, t)
      OBVIOUS
    <3>5. r \in Seq(Threads) /\ ToSet(r) = ToSet(s) \ {t} /\ Ordered(r, priority)
      BY <3>3, <3>4, RemoveKeepsOrder
    <3>6. PICK i : i = Insert(r, t, p)
      OBVIOUS
    <3>7. t \in Threads \ ToSet(r)
      BY <3>5
    <3>8. /\ i \in Seq(Threads) /\ ToSet(i) = ToSet(r) \cup {t}
          /\ Ordered(i, [priority EXCEPT ![t] = p])
      BY <1>2, <3>5, <3>6, <3>7, InsertKeepsOrder
    <3>9. tree' = [tree EXCEPT ![a] = i]
      BY <2>2, <3>1, <3>2, <3>4, <3>6 DEF SetPriority
    <3>10. /\ tree' \in [Addresses -> Seq(Threads)] /\ tree'[a] = i
           /\ \A b \in Addresses \ {a} : tree'[b] = tree[b]
      BY <1>2, <3>8, <3>9
    <3>11. ToSet(i) = ToSet(s)
      BY <3>3, <3>5, <3>8
    <3>12. \A b \in Addresses \ {a} : t \notin Waiters(b)
      BY <3>1 DEF Waiters
    <3>13. ASSUME NEW b \in Addresses
           PROVE  ToSet(tree'[b]) = Waiters(b) /\ Ordered(tree'[b], priority')
      <4>1. CASE b = a
        BY <1>1, <1>3, <3>2, <3>8, <3>10, <3>11, <4>1
      <4>2. CASE b # a
        BY <1>3, <1>4, <3>10, <3>12, <4>2
      <4>3. QED
        BY <4>1, <4>2
    <3>14. QED
      BY <3>10, <3>13
  <2>3. QED
    BY <2>1, <2>2
<1>6. TypeOK'
  BY <1>1, <1>2, <1>5 DEF TypeOK
<1>7. TreeMatchesWaiters'
  <2>1. \A b \in Addresses : Waiters(b)' = Waiters(b)
    BY <1>1 DEF Waiters
  <2>2. QED
    BY <1>5, <2>1 DEF TreeMatchesWaiters, Waiters, Ordered
<1>8. NoLostWakeUp' /\ OutdatedInWait' /\ TimedWaits'
  BY <1>1 DEF ArbiterInv, NoLostWakeUp, OutdatedInWait, TimedWaits
<1>9. QED
  BY <1>6, <1>7, <1>8 DEF ArbiterInv

\* Who writes a word owes a signal to all that have read it.
LEMMA GuestWriteStep ==
    ASSUME TypeOK, ArbiterInv, NEW t \in Threads, NEW a \in Addresses, NEW v \in Ints,
           GuestWrite(t, a, v)
    PROVE  (TypeOK /\ ArbiterInv)'
<1>1. /\ word' = [word EXCEPT ![a] = v]
      /\ owes' = [owes EXCEPT ![t] = owes[t] \cup {a}]
      /\ outdated' = outdated \cup {u \in Threads : state[u] # "Runnable" /\ key[u] = a}
      /\ UNCHANGED <<tree, state, key, timed, timers, priority, terminating>>
  BY DEF GuestWrite
<1>2. owes \in [Threads -> SUBSET Addresses]
  BY DEF TypeOK
<1>3. owes' \in [Threads -> SUBSET Addresses] /\ a \in owes'[t]
      /\ \A u \in Threads : owes[u] \subseteq owes'[u]
  BY <1>1, <1>2
<1>4. TypeOK'
  BY <1>1, <1>3 DEF TypeOK
<1>5. NoLostWakeUp'
  <2>1. ASSUME NEW u \in outdated' PROVE \E w \in Threads : key[u] \in owes'[w]
    BY <1>1, <1>3 DEF ArbiterInv, NoLostWakeUp
  <2>2. QED
    BY <1>1, <2>1 DEF NoLostWakeUp
<1>6. TreeMatchesWaiters'
  BY <1>1 DEF ArbiterInv, TreeMatchesWaiters
<1>7. OutdatedInWait' /\ TimedWaits'
  BY <1>1 DEF ArbiterInv, OutdatedInWait, TimedWaits
<1>8. QED
  BY <1>4, <1>5, <1>6, <1>7 DEF ArbiterInv

\* What the signals do to the word is in range.
LEMMA WordStep ==
    ASSUME LimitAssumption, CountsAssumption, TypeOK, NEW a \in Addresses, NEW v \in Ints,
           NEW count \in Counts,
           \/ word' = word
           \/ word' = [word EXCEPT ![a] = Wrap(v + 1)]
           \/ word' = [word EXCEPT ![a] = NewValue(a, v, count)]
    PROVE  word' \in [Addresses -> Ints]
<1>1. v \in Int /\ word \in [Addresses -> Ints]
  BY DEF Ints, LimitAssumption, TypeOK
<1>2. v + 1 \in Int /\ v - 1 \in Int /\ v - 2 \in Int
  BY <1>1
<1>3. Wrap(v + 1) \in Ints /\ Wrap(v - 1) \in Ints /\ Wrap(v - 2) \in Ints
  BY <1>2, WrapIsInt
<1>4. NewValue(a, v, count) \in Ints
  BY <1>3 DEF NewValue
<1>5. QED
  BY <1>1, <1>3, <1>4

\* The signals.
LEMMA SignalSteps ==
    ASSUME LimitAssumption, PrioritiesAssumption, CountsAssumption, TypeOK, ArbiterInv,
           NEW t \in Threads, NEW a \in Addresses, NEW v \in Ints, NEW count \in Counts,
           \/ Signal(t, a, count)
           \/ SignalAndIncrementIfEqual(t, a, v, count)
           \/ SignalAndModifyByWaitingCountIfEqual(t, a, v, count)
    PROVE  (TypeOK /\ ArbiterInv)'
<1>1. /\ Unlocked /\ WakeWaiters(a, count) /\ Settle(t, a)
      /\ UNCHANGED <<key, priority, terminating>>
      /\ \/ word' = word
         \/ word' = [word EXCEPT ![a] = Wrap(v + 1)]
         \/ word' = [word EXCEPT ![a] = NewValue(a, v, count)]
  BY DEF Signal, SignalAndIncrementIfEqual, SignalAndModifyByWaitingCountIfEqual
<1>2. /\ ArbiterInv' /\ tree' \in [Addresses -> Seq(Threads)]
      /\ owes' \in [Threads -> SUBSET Addresses]
      /\ state' \in [Threads -> {"Runnable", "Locked", "Waiting"}]
      /\ timers' \subseteq Threads /\ timed' \subseteq Threads /\ outdated' \subseteq Threads
  BY <1>1, SignalStep
<1>3. word' \in [Addresses -> Ints]
  BY <1>1, WordStep
<1>4. TypeOK'
  BY <1>1, <1>2, <1>3 DEF TypeOK
<1>5. QED
  BY <1>2, <1>4

\* The end of a wait by a time-out or a termination.
LEMMA CancelSteps ==
    ASSUME TypeOK, ArbiterInv, NEW t \in Threads, OnTimer(t) \/ RequestTerminate(t)
    PROVE  (TypeOK /\ ArbiterInv)'
<1>1. /\ UNCHANGED <<word, key, priority, owes>>
      /\ terminating' \subseteq Threads
      /\ (state[t] = "Waiting" /\ CancelWait(t)) \/ UNCHANGED waitVars
  BY DEF OnTimer, RequestTerminate, ArbiterInv, TimedWaits, TypeOK
<1>2. CASE state[t] = "Waiting" /\ CancelWait(t)
  <2>1. /\ ArbiterInv' /\ tree' \in [Addresses -> Seq(Threads)]
        /\ state' \in [Threads -> {"Runnable", "Locked", "Waiting"}]
        /\ timers' \subseteq Threads /\ timed' \subseteq Threads /\ outdated' \subseteq Threads
    BY <1>1, <1>2, CancelStep
  <2>2. QED
    BY <1>1, <2>1 DEF TypeOK
<1>3. CASE UNCHANGED waitVars
  BY <1>1, <1>3
     DEF waitVars, TypeOK, ArbiterInv, TreeMatchesWaiters, NoLostWakeUp, OutdatedInWait, TimedWaits
<1>4. QED
  BY <1>1, <1>2, <1>3

LEMMA NextHolds ==
    ASSUME LimitAssumption, CountsAssumption, PrioritiesAssumption, TypeOK, ArbiterInv, [Next]_vars
    PROVE  (TypeOK /\ ArbiterInv)'
<1>1. CASE UNCHANGED vars
  BY <1>1 DEF vars, waitVars, TypeOK, ArbiterInv, TreeMatchesWaiters, NoLostWakeUp,
              OutdatedInWait, TimedWaits
<1>2. ASSUME NEW t \in Threads, NEW a \in Addresses, NEW type \in WaitTypes, NEW v \in Ints,
             NEW timeout \in Timeouts, WaitForAddress(t, a, type, v, timeout)
      PROVE  (TypeOK /\ ArbiterInv)'
  BY <1>2, WaitForAddressStep
<1>3. ASSUME NEW t \in Threads, NEW a \in Addresses, NEW v \in Ints, NEW count \in Counts,
             \/ SignalAndIncrementIfEqual(t, a, v, count)
             \/ SignalAndModifyByWaitingCountIfEqual(t, a, v, count)
      PROVE  (TypeOK /\ ArbiterInv)'
  BY <1>3, SignalSteps
<1>4. ASSUME NEW t \in Threads, NEW a \in Addresses, NEW count \in Counts, Signal(t, a, count)
      PROVE  (TypeOK /\ ArbiterInv)'
  <2>1. PICK v \in Ints : v = word[a]
    BY DEF TypeOK
  <2>2. QED
    BY <1>4, <2>1, SignalSteps
<1>5. ASSUME NEW t \in Threads, NEW a \in Addresses, NEW v \in Ints, GuestWrite(t, a, v)
      PROVE  (TypeOK /\ ArbiterInv)'
  BY <1>5, GuestWriteStep
<1>6. ASSUME NEW t \in Threads, NEW p \in Priorities, SetPriority(t, p)
      PROVE  (TypeOK /\ ArbiterInv)'
  BY <1>6, SetPriorityStep
<1>7. ASSUME NEW t \in Threads, BeginWait(t) \/ OnTimer(t) \/ RequestTerminate(t)
      PROVE  (TypeOK /\ ArbiterInv)'
  BY <1>7, BeginWaitStep, CancelSteps
<1>8. QED
  BY <1>1, <1>2, <1>3, <1>4, <1>5, <1>6, <1>7 DEF Next
-----------------------------------------------------------------------------
(***************************************************************************)
(* What a signal does.                                                     *)
(***************************************************************************)

LEMMA WordTells ==
    ASSUME PrioritiesAssumption, CountsAssumption, TypeOK, ArbiterInv
    PROVE  WordTellsWaiters
<1> SUFFICES ASSUME NEW a \in Addresses, NEW count \in Counts, NEW t \in Threads,
                    SignalAndModifyByWaitingCountIfEqual(t, a, word[a], count)
             PROVE  word'[a] = IF tree[a] = <<>> THEN Wrap(word[a] + 1)
                               ELSE IF tree'[a] # <<>> THEN word[a]
                               ELSE Wrap(word[a] - (IF count <= 0 THEN 2 ELSE 1))
  BY DEF WordTellsWaiters
<1>1. /\ WakeWaiters(a, count) /\ count \in Int
      /\ word'[a] = NewValue(a, word[a], count)
  BY DEF SignalAndModifyByWaitingCountIfEqual, TypeOK, CountsAssumption
<1>2. PICK s \in Seq(Threads) : s = tree[a]
  BY DEF TypeOK
<1>3. PICK r \in Seq(Threads) : r = tree'[a]
  BY <1>1, Waking
<1>4. /\ Len(r) = Len(s) - (IF count <= 0 \/ count > Len(s) THEN Len(s) ELSE count)
      /\ Len(s) \in Nat /\ Len(r) \in Nat
  BY <1>1, <1>2, <1>3, Waking, LenProperties DEF Ended
<1>5. (s = <<>> <=> Len(s) = 0) /\ (r = <<>> <=> Len(r) = 0)
  BY EmptySeq
<1>6. CASE s = <<>> \/ count <= 0
  BY <1>1, <1>2, <1>3, <1>4, <1>5, <1>6 DEF NewValue
<1>7. CASE s # <<>> /\ count > 0
  <2>1. CountOtherWaiters(a, count) = IF Len(s) - 1 <= count + 1 THEN Len(s) - 1 ELSE count + 1
    <3>1. PICK m \in Nat : m = Len(s) - 1
      BY <1>4, <1>5, <1>7
    <3>2. PICK n \in Nat : n = count + 1
      BY <1>1, <1>7
    <3>3. QED
      BY <1>2, <3>1, <3>2, MinOfTwo DEF CountOtherWaiters
  <2>2. (CountOtherWaiters(a, count) < count) <=> r = <<>>
    BY <1>1, <1>4, <1>5, <1>7, <2>1
  <2>3. QED
    BY <1>1, <1>2, <1>3, <1>7, <2>2 DEF NewValue
<1>8. QED
  BY <1>1, <1>6, <1>7

LEMMA MostUrgent ==
    ASSUME PrioritiesAssumption, CountsAssumption, TypeOK, ArbiterInv
    PROVE  MostUrgentFirst
<1> SUFFICES ASSUME NEW a \in Addresses, NEW s \in Threads, NEW count \in Counts,
                    Signal(s, a, count)
             PROVE  /\ count > 0 => Len(tree[a]) - Len(tree'[a]) = Min({count, Len(tree[a])})
                    /\ \A t \in ToSet(tree[a]) \ ToSet(tree'[a]), u \in ToSet(tree'[a]) :
                          priority[t] <= priority[u]
  BY DEF MostUrgentFirst
<1>1. WakeWaiters(a, count) /\ count \in Int
  BY DEF Signal, CountsAssumption
<1>2. PICK n \in Nat : n = Len(tree[a])
  BY LenProperties DEF TypeOK
<1>3. Len(tree'[a]) = n - (IF count <= 0 \/ count > n THEN n ELSE count)
  BY <1>1, <1>2, Waking DEF Ended
<1>4. count > 0 => Min({count, n}) = IF count <= n THEN count ELSE n
  BY <1>1, MinOfTwo
<1>5. count > 0 => n - Len(tree'[a]) = Min({count, n})
  BY <1>1, <1>3, <1>4
<1>6. \A t \in ToSet(tree[a]) \ ToSet(tree'[a]), u \in ToSet(tree'[a]) : priority[t] <= priority[u]
  BY <1>1, Waking
<1>7. QED
  BY <1>2, <1>5, <1>6
-----------------------------------------------------------------------------
\* The arbiter is sound for any threads, words and counts: the tree has exactly the waiters,
\* in order; no wake-up is lost between reading a word and sleeping on it; the word tells how
\* many waited; and the most urgent wake first.
THEOREM ArbiterIsSound ==
    ASSUME AddressesAssumption, LimitAssumption, CountsAssumption, PrioritiesAssumption
    PROVE  Spec => ArbiterSound
<1>1. Init => TypeOK /\ ArbiterInv
  BY InitHolds
<1>2. TypeOK /\ ArbiterInv /\ [Next]_vars => (TypeOK /\ ArbiterInv)'
  BY NextHolds
<1>3. TypeOK /\ ArbiterInv => TreeMatchesWaiters /\ NoLostWakeUp
  BY DEF ArbiterInv
<1>4. TypeOK /\ ArbiterInv => [WordTellsWaiters /\ MostUrgentFirst]_vars
  BY WordTells, MostUrgent
<1>5. QED
  BY <1>1, <1>2, <1>3, <1>4, PTL DEF Spec, ArbiterSound
-----------------------------------------------------------------------------
(***************************************************************************)
(* Mutexes and condition variables.                                        *)
(***************************************************************************)

\* An operation that has taken the next owner of a mutex from the waiters and has
\* not written the mutex word yet.
Passing == op.kind \in {"Unlock", "CvWait"}

GuestOK ==
    \A t \in LockThreads :
        /\ pc[t] \in {"Locking", "Arbitrate"} => want[t] \in Addrs
        /\ pc[t] = "Arbitrate" => seen[t] \in LockThreads
        /\ wait[t] # "None" => pc[t] = "Kernel" /\ addrKey[t] \in Addrs
        /\ pc[t] = "Kernel" => addrKey[t] \in Addrs \/ (Passing /\ t = op.thread)

\* One node for all trees, which is in one of them while the thread waits.
NodesOK ==
    \A t \in LockThreads :
        /\ \A o, p \in LockThreads, a, b \in Addrs :
              t \in ToSet(held[o][a]) /\ t \in ToSet(held[p][b]) => o = p /\ a = b
        /\ \A o \in LockThreads, a \in Addrs : t \in ToSet(held[o][a]) =>
              addrKey[t] = a /\ wait[t] # "None" /\ \A k \in Keys : t \notin ToSet(mutexTree[k])
        /\ \A k \in Keys : t \in ToSet(mutexTree[k]) =>
              wait[t] = "CondVar" /\ \A l \in Keys : t \in ToSet(mutexTree[l]) => k = l
        /\ wait[t] # "None" /\ ~(Passing /\ t = op.next) =>
              \/ \E o \in LockThreads, a \in Addrs : t \in ToSet(held[o][a])
              \/ \E k \in Keys : t \in ToSet(mutexTree[k])

\* The mutex that is passed on.
OpOK ==
    /\ Passing =>
        /\ op.thread \in LockThreads /\ op.addr \in Addrs
        /\ wait[op.thread] = "None" /\ pc[op.thread] = "Kernel"
        /\ op.addr \notin holds[op.thread] /\ memOwner[op.addr] = op.thread
        /\ op.next \in LockThreads =>
              /\ wait[op.next] # "None" /\ addrKey[op.next] = op.addr
              /\ \A o \in LockThreads, a \in Addrs : op.next \notin ToSet(held[o][a])
              /\ \A k \in Keys : op.next \notin ToSet(mutexTree[k])
        /\ \A o \in LockThreads : held[o][op.addr] # <<>> => o = op.next /\ op.more = 1
    /\ op.kind \in {"CvWait", "Signal"} => op.key \in Keys
    /\ op.kind = "Terminate" => op.thread \in LockThreads

WordOK ==
    \A o \in LockThreads, a \in Addrs : held[o][a] # <<>> /\ ~(Passing /\ op.addr = a) =>
        memOwner[a] = o /\ memWait[a] = 1

HoldOK ==
    /\ \A t \in LockThreads, a \in Addrs : a \in holds[t] => memOwner[a] = t
    /\ \A t \in LockThreads : pc[t] = "Kernel" /\ wait[t] = "None" /\ result[t] = "Success" /\
          ~(Passing /\ t = op.thread) => memOwner[addrKey[t]] = t

Sorted ==
    /\ \A o \in LockThreads, a \in Addrs : Ordered(held[o][a], prio)
    /\ \A k \in Keys : Ordered(mutexTree[k], prio)

\* x is the best of b and the priorities p of W.
Best(x, b, W, p) ==
    /\ x <= b /\ \A u \in W : x <= p[u]
    /\ x = b \/ \E u \in W : x = p[u]

WaitersOf(h) == {u \in LockThreads : \E a \in Addrs : u \in ToSet(h[a])}

PrioOK ==
    \A t \in LockThreads : pc[t] # "Finalized" /\ t # restoring =>
        Best(prio[t], base[t], WaitersOf(held[t]), prio)

\* Of the threads s in tree order, u is somewhere before v.
Before(s, u, v) == \E i, j \in 1 .. Len(s) : i < j /\ s[i] = u /\ s[j] = v

\* A mutex word names t.
Owning(t) == \E a \in Addrs : memOwner[a] = t

\* Signal's iterator is at a thread of the key or at the end of it, and all the threads
\* that own no mutex are still ahead; what RestorePriority has left to do in it is to
\* raise priorities.
WalkOK ==
    op.kind = "Signal" =>
        /\ op.it \in LockThreads => op.it \in ToSet(mutexTree[op.key])
        /\ \A u \in ToSet(mutexTree[op.key]) :
              ~Owning(u) => u = op.it \/ Before(mutexTree[op.key], op.it, u)
        /\ \A r \in LockThreads : r = restoring /\ pc[r] # "Finalized" =>
              /\ prio[r] <= base[r]
              /\ prio[r] = base[r] \/ \E u \in WaitersOf(held[r]) : prio[u] <= prio[r]

MutexInv ==
    /\ Locks!TypeOK /\ GuestOK /\ NodesOK /\ OpOK /\ WordOK /\ HoldOK /\ Sorted /\ PrioOK
    /\ Locks!WaiterFlagSet /\ WalkOK
-----------------------------------------------------------------------------
\* The operators on sequences and sets are the same inside KConditionVariable.
LEMMA SameOperators ==
    /\ \A s : Locks!ToSet(s) = ToSet(s)
    /\ \A s, e : Locks!RemoveFirst(s, e) = RemoveFirst(s, e)
    /\ \A s, i, e : Locks!InsertAt(s, i, e) = InsertAt(s, i, e)
    /\ \A S : Locks!Min(S) = Min(S)
    /\ \A S : Locks!Cardinality(S) = Cardinality(S)
<1>1. \A s : Locks!ToSet(s) = ToSet(s)
  BY DEF Locks!ToSet, ToSet
<1>2. \A s, i : Locks!RemoveAt(s, i) = RemoveAt(s, i)
  BY DEF Locks!RemoveAt, RemoveAt
<1>3. \A S : Locks!Min(S) = Min(S)
  BY DEF Locks!Min, Min
<1>4. ASSUME NEW s, NEW e PROVE Locks!RemoveFirst(s, e) = RemoveFirst(s, e)
  BY <1>2, <1>3 DEF Locks!RemoveFirst, RemoveFirst, Locks!SelectInSeq, SelectInSeq
<1>5. \A s, i, e : Locks!InsertAt(s, i, e) = InsertAt(s, i, e)
  BY DEF Locks!InsertAt, InsertAt
<1>6. \A S : Locks!Cardinality(S) = Cardinality(S)
  BY DEF Locks!Cardinality, Cardinality
<1>7. QED
  BY <1>1, <1>3, <1>4, <1>5, <1>6

\* The trees.
LEMMA InsertedPlace ==
    ASSUME NEW s \in Seq(LockThreads), NEW p \in [LockThreads -> Nat], NEW t \in LockThreads
    PROVE  \E q \in 1 .. Len(s) + 1 :
              /\ Locks!Insert(s, t, p) = InsertAt(s, q, t)
              /\ \A i \in 1 .. Len(s) : i < q => p[s[i]] <= p[t]
              /\ q <= Len(s) => p[s[q]] > p[t]
<1> DEFINE P == {u \in LockThreads : p[u] > p[t]}
           I == {i \in 1 .. Len(s) : s[i] \in P}
           q == IF I = {} THEN Len(s) + 1 ELSE Min(I)
<1>1. Len(s) \in Nat /\ \A i \in 1 .. Len(s) : s[i] \in LockThreads
  BY LenProperties, ElementOfSeq
<1>2. /\ q \in 1 .. Len(s) + 1
      /\ I # {} => q # 0
      /\ \A i \in 1 .. Len(s) : i < q => s[i] \notin P
      /\ q <= Len(s) => s[q] \in P
  BY PlaceOfFirst
<1>3. {i \in 1 .. Len(s) : p[s[i]] > p[t]} = I
  BY <1>1
<1>4. Locks!SelectInSeq(s, LAMBDA u : p[u] > p[t]) = IF I # {} THEN Min(I) ELSE 0
  BY <1>3, SameOperators DEF Locks!SelectInSeq
<1>5. Locks!Insert(s, t, p) = InsertAt(s, q, t)
  BY <1>2, <1>4, SameOperators DEF Locks!Insert
<1>6. q \in 1 .. Len(s) + 1
  BY <1>2
<1>7. \A i \in 1 .. Len(s) : i < q => p[s[i]] <= p[t]
  <2> SUFFICES ASSUME NEW i \in 1 .. Len(s), i < q PROVE p[s[i]] <= p[t]
    OBVIOUS
  <2>1. ~(p[s[i]] > p[t]) /\ p[s[i]] \in Nat /\ p[t] \in Nat
    BY <1>1, <1>2
  <2>2. QED
    BY <2>1
<1>8. q <= Len(s) => p[s[q]] > p[t]
  BY <1>2
<1> HIDE DEF P, I, q
<1>9. QED
  BY <1>5, <1>6, <1>7, <1>8

LEMMA InsertInTree ==
    ASSUME NEW s \in Seq(LockThreads), NEW p \in [LockThreads -> Nat], Ordered(s, p),
           NEW t \in LockThreads, t \notin ToSet(s)
    PROVE  /\ Locks!Insert(s, t, p) \in Seq(LockThreads)
           /\ ToSet(Locks!Insert(s, t, p)) = ToSet(s) \cup {t}
           /\ Ordered(Locks!Insert(s, t, p), p)
<1>1. PICK q \in 1 .. Len(s) + 1 :
         /\ Locks!Insert(s, t, p) = InsertAt(s, q, t)
         /\ \A i \in 1 .. Len(s) : i < q => p[s[i]] <= p[t]
         /\ q <= Len(s) => p[s[q]] > p[t]
  BY InsertedPlace
<1>2. \A x \in LockThreads : p[x] \in Int
  OBVIOUS
<1>3. PICK r : r = InsertAt(s, q, t)
  OBVIOUS
<1>4. r \in Seq(LockThreads) /\ ToSet(r) = ToSet(s) \cup {t} /\ Ordered(r, p)
  BY <1>1, <1>2, <1>3, InsertedInOrder
<1>5. QED
  BY <1>1, <1>3, <1>4

LEMMA NotThere ==
    ASSUME NEW s \in Seq(LockThreads), NEW t, t \notin ToSet(s)
    PROVE  RemoveFirst(s, t) = s
<1>1. ~\E i \in 1 .. Len(s) : s[i] = t
  BY Members
<1>2. QED
  BY <1>1 DEF RemoveFirst

\* A thread is taken out of a tree or was not in it.
LEMMA Taken ==
    ASSUME NEW s \in Seq(LockThreads), NEW p, Ordered(s, p), NEW t
    PROVE  /\ RemoveFirst(s, t) \in Seq(LockThreads)
           /\ ToSet(RemoveFirst(s, t)) = ToSet(s) \ {t}
           /\ Ordered(RemoveFirst(s, t), p)
<1>1. CASE t \in ToSet(s)
  BY <1>1, RemoveKeepsOrder
<1>2. CASE t \notin ToSet(s)
  BY <1>2, NotThere
<1>3. QED
  BY <1>1, <1>2

\* A thread moves within a tree when its priority changes.
LEMMA Reinserted ==
    ASSUME NEW s \in Seq(LockThreads), NEW f, Ordered(s, f),
           NEW g \in [LockThreads -> Nat], NEW t \in ToSet(s),
           \A u \in LockThreads \ {t} : g[u] = f[u]
    PROVE  /\ Locks!Insert(RemoveFirst(s, t), t, g) \in Seq(LockThreads)
           /\ ToSet(Locks!Insert(RemoveFirst(s, t), t, g)) = ToSet(s)
           /\ Ordered(Locks!Insert(RemoveFirst(s, t), t, g), g)
<1>1. PICK r : r = RemoveFirst(s, t)
  OBVIOUS
<1>2. r \in Seq(LockThreads) /\ ToSet(r) = ToSet(s) \ {t} /\ Ordered(r, f)
  BY <1>1, Taken
<1>3. t \in LockThreads /\ \A u \in ToSet(r) : u \in LockThreads
  <2>1. \A u \in ToSet(s) : u \in LockThreads
    BY Members, ElementOfSeq
  <2>2. QED
    BY <1>2, <2>1
<1>4. Ordered(r, g)
  <2>1. \A u \in ToSet(r) : g[u] = f[u]
    BY <1>2, <1>3
  <2>2. QED
    BY <1>2, <2>1, OrderOfOthers
<1>5. t \notin ToSet(r)
  BY <1>2
<1>6. /\ Locks!Insert(r, t, g) \in Seq(LockThreads) /\ ToSet(Locks!Insert(r, t, g)) = ToSet(r) \cup {t}
      /\ Ordered(Locks!Insert(r, t, g), g)
  BY <1>2, <1>3, <1>4, <1>5, InsertInTree
<1>7. QED
  BY <1>1, <1>2, <1>6

\* Two threads stay in their order when a third one is taken out or put in.
LEMMA BeforeRemoved ==
    ASSUME NEW s \in Seq(LockThreads), NEW t, NEW x, NEW y, x # t, y # t, Before(s, x, y)
    PROVE  Before(RemoveFirst(s, t), x, y)
<1>1. CASE t \notin ToSet(s)
  BY <1>1, NotThere
<1>2. CASE t \in ToSet(s)
  <2>1. PICK q \in 1 .. Len(s) : s[q] = t /\ RemoveFirst(s, t) = RemoveAt(s, q)
    BY <1>2, RemovedPlace
  <2>2. PICK r : r = RemoveFirst(s, t)
    OBVIOUS
  <2>3. /\ r \in Seq(LockThreads) /\ Len(r) = Len(s) - 1 /\ Len(s) \in Nat
        /\ \A i \in 1 .. Len(r) : r[i] = IF i < q THEN s[i] ELSE s[i + 1]
    BY <2>1, <2>2, Removed, LenProperties
  <2>4. PICK i \in 1 .. Len(s), j \in 1 .. Len(s) : i < j /\ s[i] = x /\ s[j] = y
    BY DEF Before
  <2>5. i # q /\ j # q
    BY <2>1, <2>4
  <2>6. PICK c \in 1 .. Len(r) : r[c] = x /\ ((c = i /\ i < q) \/ (c = i - 1 /\ i > q))
    <3>1. CASE i < q
      <4>1. i \in 1 .. Len(r) /\ r[i] = s[i]
        BY <2>3, <3>1
      <4>2. QED
        BY <2>4, <3>1, <4>1
    <3>2. CASE i > q
      <4>1. i - 1 \in 1 .. Len(r) /\ r[i - 1] = s[i]
        BY <2>3, <3>2
      <4>2. QED
        BY <2>4, <3>2, <4>1
    <3>3. QED
      BY <2>5, <3>1, <3>2
  <2>7. PICK d \in 1 .. Len(r) : r[d] = y /\ ((d = j /\ j < q) \/ (d = j - 1 /\ j > q))
    <3>1. CASE j < q
      <4>1. j \in 1 .. Len(r) /\ r[j] = s[j]
        BY <2>3, <3>1
      <4>2. QED
        BY <2>4, <3>1, <4>1
    <3>2. CASE j > q
      <4>1. j - 1 \in 1 .. Len(r) /\ r[j - 1] = s[j]
        BY <2>3, <3>2
      <4>2. QED
        BY <2>4, <3>2, <4>1
    <3>3. QED
      BY <2>5, <3>1, <3>2
  <2>8. c < d
    BY <2>3, <2>4, <2>6, <2>7
  <2>9. QED
    BY <2>2, <2>6, <2>7, <2>8 DEF Before
<1>3. QED
  BY <1>1, <1>2

LEMMA BeforeInserted ==
    ASSUME NEW s \in Seq(LockThreads), NEW p \in [LockThreads -> Nat], NEW t \in LockThreads,
           NEW x, NEW y, Before(s, x, y)
    PROVE  Before(Locks!Insert(s, t, p), x, y)
<1>1. PICK q \in 1 .. Len(s) + 1 : Locks!Insert(s, t, p) = InsertAt(s, q, t)
  BY InsertedPlace
<1>2. PICK r : r = InsertAt(s, q, t)
  OBVIOUS
<1>3. /\ Len(r) = Len(s) + 1 /\ Len(s) \in Nat
      /\ \A i \in 1 .. Len(r) : r[i] = IF i < q THEN s[i] ELSE IF i = q THEN t ELSE s[i - 1]
  BY <1>2, Inserted, LenProperties
<1>4. PICK i \in 1 .. Len(s), j \in 1 .. Len(s) : i < j /\ s[i] = x /\ s[j] = y
  BY DEF Before
<1>5. \A b \in 1 .. Len(s) : /\ b < q => b \in 1 .. Len(r) /\ r[b] = s[b]
                             /\ b >= q => b + 1 \in 1 .. Len(r) /\ r[b + 1] = s[b]
  <2> SUFFICES ASSUME NEW b \in 1 .. Len(s)
               PROVE  /\ b < q => b \in 1 .. Len(r) /\ r[b] = s[b]
                      /\ b >= q => b + 1 \in 1 .. Len(r) /\ r[b + 1] = s[b]
    OBVIOUS
  <2>1. b \in 1 .. Len(r) /\ b + 1 \in 1 .. Len(r) /\ (b + 1) - 1 = b
    BY <1>3
  <2>2. b >= q => ~(b + 1 < q) /\ b + 1 # q
    BY <1>3
  <2>3. QED
    BY <1>3, <2>1, <2>2
<1>6. PICK c \in 1 .. Len(r) : r[c] = x /\ ((c = i /\ i < q) \/ (c = i + 1 /\ i >= q))
  <2>1. CASE i < q
    BY <1>4, <1>5, <2>1
  <2>2. CASE i >= q
    BY <1>4, <1>5, <2>2
  <2>3. QED
    BY <1>3, <2>1, <2>2
<1>7. PICK d \in 1 .. Len(r) : r[d] = y /\ ((d = j /\ j < q) \/ (d = j + 1 /\ j >= q))
  <2>1. CASE j < q
    BY <1>4, <1>5, <2>1
  <2>2. CASE j >= q
    BY <1>4, <1>5, <2>2
  <2>3. QED
    BY <1>3, <2>1, <2>2
<1>8. c < d
  BY <1>3, <1>4, <1>6, <1>7
<1>9. QED
  BY <1>1, <1>2, <1>6, <1>7, <1>8 DEF Before

\* The first of a tree is before all others.
LEMMA HeadFirst ==
    ASSUME NEW s \in Seq(LockThreads), s # <<>>
    PROVE  /\ Head(s) \in LockThreads /\ Head(s) \in ToSet(s)
           /\ \A u \in ToSet(s) : u = Head(s) \/ Before(s, Head(s), u)
<1>1. Len(s) \in Nat \ {0} /\ Head(s) = s[1] /\ s[1] \in LockThreads
  BY EmptySeq, HeadTailProperties, LenProperties, ElementOfSeq
<1>2. Head(s) \in ToSet(s)
  BY <1>1, Members
<1>3. ASSUME NEW u \in ToSet(s), u # Head(s) PROVE Before(s, Head(s), u)
  <2>1. PICK j \in 1 .. Len(s) : s[j] = u
    BY Members
  <2>2. 1 \in 1 .. Len(s) /\ 1 < j
    BY <1>1, <1>3, <2>1
  <2>3. QED
    BY <1>1, <2>1, <2>2 DEF Before
<1>4. QED
  BY <1>1, <1>2, <1>3

\* The thread that erase returns is in the tree still, and before all that were behind
\* the one that is taken out.
LEMMA SuccessorOf ==
    ASSUME Locks!NoneAssumption, NEW s \in Seq(LockThreads), NEW p, Ordered(s, p), NEW t \in ToSet(s),
           NEW n, n = Locks!Successor(s, t)
    PROVE  /\ n \in LockThreads \cup {None}
           /\ n \in LockThreads => n \in ToSet(RemoveFirst(s, t))
           /\ \A u : Before(s, t, u) => u = n \/ Before(RemoveFirst(s, t), n, u)
<1>1. /\ Len(s) \in Nat /\ DOMAIN s = 1 .. Len(s)
      /\ \A i \in 1 .. Len(s) : s[i] \in LockThreads
      /\ \A i, j \in 1 .. Len(s) : i < j => s[i] # s[j]
  BY LenProperties, ElementOfSeq DEF Ordered
<1>2. PICK q \in 1 .. Len(s) : s[q] = t
  BY Members
<1>3. \A i \in 1 .. Len(s) : s[i] = t => i = q
  BY <1>1, <1>2
<1>4. \A i \in 1 .. Len(s) : (i > 1 /\ s[i - 1] = t) <=> i = q + 1
  <2> SUFFICES ASSUME NEW i \in 1 .. Len(s) PROVE (i > 1 /\ s[i - 1] = t) <=> i = q + 1
    OBVIOUS
  <2>1. i > 1 => i - 1 \in 1 .. Len(s)
    BY <1>1
  <2>2. i = q + 1 => i > 1 /\ i - 1 = q
    BY <1>1
  <2>3. i > 1 /\ i - 1 = q => i = q + 1
    BY <1>1
  <2>4. QED
    BY <1>2, <1>3, <2>1, <2>2, <2>3
<1>5. CASE q + 1 \in 1 .. Len(s)
  <2>1. n = s[q + 1]
    <3>1. \E i \in DOMAIN s : i > 1 /\ s[i - 1] = t
      BY <1>1, <1>4, <1>5
    <3>2. PICK c : c = CHOOSE i \in DOMAIN s : i > 1 /\ s[i - 1] = t
      OBVIOUS
    <3>3. c \in 1 .. Len(s) /\ c > 1 /\ s[c - 1] = t
      BY <1>1, <3>1, <3>2
    <3>4. c = q + 1
      BY <1>4, <3>3
    <3>5. n = s[c]
      BY <3>1, <3>2 DEF Locks!Successor
    <3>6. QED
      BY <3>4, <3>5
  <2>2. n \in LockThreads /\ n # t /\ n \in ToSet(s)
    <3>1. q < q + 1
      BY <1>1
    <3>2. QED
      BY <1>1, <1>2, <1>5, <2>1, <3>1, Members
  <2>3. n \in ToSet(RemoveFirst(s, t))
    BY <2>2, RemoveKeepsOrder
  <2>4. ASSUME NEW u, Before(s, t, u), u # n PROVE Before(RemoveFirst(s, t), n, u)
    <3>1. PICK i \in 1 .. Len(s), j \in 1 .. Len(s) : i < j /\ s[i] = t /\ s[j] = u
      BY <2>4 DEF Before
    <3>2. i = q /\ j # q + 1
      BY <1>3, <2>1, <2>4, <3>1
    <3>3. q + 1 < j
      BY <1>1, <3>1, <3>2
    <3>4. Before(s, n, u)
      BY <1>5, <2>1, <3>1, <3>3 DEF Before
    <3>5. u # t
      BY <1>3, <1>1, <3>1, <3>2
    <3>6. QED
      BY <2>2, <3>4, <3>5, BeforeRemoved
  <2>5. QED
    BY <2>2, <2>3, <2>4
<1>6. CASE q + 1 \notin 1 .. Len(s)
  <2>1. n = None
    <3>1. ~\E i \in DOMAIN s : i > 1 /\ s[i - 1] = t
      BY <1>1, <1>4, <1>6
    <3>2. QED
      BY <3>1 DEF Locks!Successor
  <2>2. ASSUME NEW u, Before(s, t, u) PROVE FALSE
    <3>1. PICK i \in 1 .. Len(s), j \in 1 .. Len(s) : i < j /\ s[i] = t /\ s[j] = u
      BY <2>2 DEF Before
    <3>2. QED
      BY <1>1, <1>3, <1>6, <3>1
  <2>3. QED
    BY <2>1, <2>2 DEF Locks!NoneAssumption
<1>7. QED
  BY <1>5, <1>6

\* GetLockOwner finds the thread under which a thread waits.
LEMMA OwnerFound ==
    ASSUME Locks!NoneAssumption, Locks!TypeOK, NodesOK, NEW t \in LockThreads
    PROVE  \/ /\ Locks!LockOwner(t) = None
              /\ \A o \in LockThreads, a \in Addrs : t \notin ToSet(held[o][a])
           \/ /\ Locks!LockOwner(t) \in LockThreads /\ Locks!LockOwner(t) # None
              /\ addrKey[t] \in Addrs /\ t \in ToSet(held[Locks!LockOwner(t)][addrKey[t]])
<1>1. CASE \E o \in LockThreads, a \in Addrs : t \in ToSet(held[o][a])
  <2>1. PICK o \in LockThreads : \E a \in Addrs : t \in ToSet(held[o][a])
    BY <1>1
  <2>2. Locks!LockOwner(t) = CHOOSE x \in LockThreads : \E a \in Addrs : t \in ToSet(held[x][a])
    BY <1>1, SameOperators DEF Locks!LockOwner
  <2>3. Locks!LockOwner(t) \in LockThreads /\ \E a \in Addrs : t \in ToSet(held[Locks!LockOwner(t)][a])
    BY <2>1, <2>2
  <2>4. PICK a \in Addrs : t \in ToSet(held[Locks!LockOwner(t)][a])
    BY <2>3
  <2>5. addrKey[t] = a
    BY <2>3, <2>4 DEF NodesOK
  <2>6. QED
    BY <2>3, <2>4, <2>5 DEF Locks!NoneAssumption
<1>2. CASE ~\E o \in LockThreads, a \in Addrs : t \in ToSet(held[o][a])
  BY <1>2, SameOperators DEF Locks!LockOwner
<1>3. QED
  BY <1>1, <1>2
-----------------------------------------------------------------------------
\* The best of some priorities.
LEMMA BestAdd ==
    ASSUME NEW x \in Nat, NEW b \in Nat, NEW W, NEW p, NEW t, NEW V, V = W \cup {t},
           Best(x, b, W, p), x <= p[t]
    PROVE  Best(x, b, V, p)
BY DEF Best

LEMMA BestRemove ==
    ASSUME NEW x \in Nat, NEW b \in Nat, NEW W, NEW p, NEW t, NEW V, V = W \ {t},
           Best(x, b, W, p), ~(x = p[t] /\ x < b)
    PROVE  Best(x, b, V, p)
BY DEF Best

\* InheritedPriority of a thread with base priority b and the lock infos h.
InheritedOf(b, h, p) == Min({b} \cup {p[Head(h[a])] : a \in {c \in Addrs : h[c] # <<>>}})

\* InheritedPriority is the best of the thread's own and its waiters' priorities.
LEMMA BestIs ==
    ASSUME NEW h \in [Addrs -> Seq(LockThreads)], NEW p \in [LockThreads -> Nat], NEW b \in Nat,
           \A a \in Addrs : Ordered(h[a], p)
    PROVE  /\ InheritedOf(b, h, p) \in Nat /\ Best(InheritedOf(b, h, p), b, WaitersOf(h), p)
           /\ \A x \in Nat : Best(x, b, WaitersOf(h), p) => x = InheritedOf(b, h, p)
<1> DEFINE S == {b} \cup {p[Head(h[a])] : a \in {c \in Addrs : h[c] # <<>>}}
<1>1. \A a \in Addrs : h[a] # <<>> =>
         /\ Head(h[a]) \in LockThreads /\ Head(h[a]) \in ToSet(h[a])
         /\ \A u \in ToSet(h[a]) : p[Head(h[a])] <= p[u]
  <2> SUFFICES ASSUME NEW a \in Addrs, h[a] # <<>>
               PROVE  /\ Head(h[a]) \in LockThreads /\ Head(h[a]) \in ToSet(h[a])
                      /\ \A u \in ToSet(h[a]) : p[Head(h[a])] <= p[u]
    OBVIOUS
  <2>1. PICK s \in Seq(LockThreads) : s = h[a]
    OBVIOUS
  <2>2. s # <<>> /\ Ordered(s, p)
    BY <2>1
  <2>3. /\ Head(s) \in LockThreads /\ Head(s) \in ToSet(s)
        /\ ToSet(Tail(s)) = ToSet(s) \ {Head(s)}
        /\ \A x \in ToSet(Tail(s)) : p[Head(s)] <= p[x]
    BY <2>2, TailKeepsOrder
  <2>4. \A u \in ToSet(s) : p[Head(s)] <= p[u]
    <3> SUFFICES ASSUME NEW u \in ToSet(s) PROVE p[Head(s)] <= p[u]
      OBVIOUS
    <3>1. CASE u = Head(s)
      BY <2>3, <3>1
    <3>2. CASE u # Head(s)
      BY <2>3, <3>2
    <3>3. QED
      BY <3>1, <3>2
  <2>5. QED
    BY <2>1, <2>3, <2>4
<1>2. S \in SUBSET Nat /\ b \in S
  BY <1>1
<1>3. Min(S) \in S /\ \A y \in S : Min(S) <= y
  BY <1>2, FirstPosition
<1>4. \A a \in Addrs : \A u \in ToSet(h[a]) : h[a] # <<>>
  BY EmptyHasNone
<1>5. PICK m \in Nat : m = Min(S)
  BY <1>2, <1>3
<1>6. \A u \in WaitersOf(h) : m <= p[u]
  <2> SUFFICES ASSUME NEW u \in LockThreads, NEW a \in Addrs, u \in ToSet(h[a]) PROVE m <= p[u]
    BY DEF WaitersOf
  <2>1. h[a] # <<>>
    BY <1>4
  <2>2. p[Head(h[a])] \in S /\ p[Head(h[a])] \in Nat /\ p[Head(h[a])] <= p[u]
    BY <1>1, <2>1
  <2>3. m <= p[Head(h[a])]
    BY <1>3, <1>5, <2>2
  <2>4. QED
    BY <2>2, <2>3
<1>7. m = b \/ \E u \in WaitersOf(h) : m = p[u]
  <2>1. \A a \in Addrs : h[a] # <<>> => Head(h[a]) \in WaitersOf(h)
    BY <1>1 DEF WaitersOf
  <2>2. QED
    BY <1>3, <1>5, <2>1
<1>8. Best(m, b, WaitersOf(h), p)
  BY <1>2, <1>3, <1>5, <1>6, <1>7 DEF Best
<1>9. \A u \in WaitersOf(h) : p[u] \in Nat
  BY DEF WaitersOf
<1>10. ASSUME NEW x \in Nat, Best(x, b, WaitersOf(h), p) PROVE x = m
  BY <1>8, <1>9, <1>10 DEF Best
<1>11. m = InheritedOf(b, h, p)
  BY <1>5 DEF InheritedOf
<1>12. QED
  BY <1>8, <1>10, <1>11

\* The same of the thread t of the program.
LEMMA InheritedIsBest ==
    ASSUME Locks!TypeOK, Sorted, NEW t \in LockThreads, NEW m, m = Locks!InheritedPriority(t)
    PROVE  /\ m \in Nat /\ Best(m, base[t], WaitersOf(held[t]), prio)
           /\ \A x \in Nat : Best(x, base[t], WaitersOf(held[t]), prio) => x = m
<1>1. /\ held \in [LockThreads -> [Addrs -> Seq(LockThreads)]]
      /\ prio \in [LockThreads -> Nat] /\ base \in [LockThreads -> Nat]
  BY DEF Locks!TypeOK
<1>2. PICK h \in [Addrs -> Seq(LockThreads)] : h = held[t]
  BY <1>1
<1>3. m = InheritedOf(base[t], held[t], prio)
  BY SameOperators DEF Locks!InheritedPriority, InheritedOf
<1>4. base[t] \in Nat /\ \A a \in Addrs : Ordered(h[a], prio)
  BY <1>1, <1>2 DEF Sorted
<1>5. QED
  BY <1>1, <1>2, <1>3, <1>4, BestIs
-----------------------------------------------------------------------------
HeldType == [LockThreads -> [Addrs -> Seq(LockThreads)]]

\* What PrioOK says of the priorities as they are and the waiters of h.
StillBest(h, r) ==
    \A u \in LockThreads : pc[u] # "Finalized" /\ u # r => Best(prio[u], base[u], WaitersOf(h[u]), prio)

LEMMA NoThread == ASSUME Locks!NoneAssumption PROVE None \notin LockThreads
BY DEF Locks!NoneAssumption

\* t waits for mutex a under o now.
Added(o, t, a) ==
    /\ held' \in HeldType /\ restoring' \in LockThreads \cup {None}
    /\ restoring' # None => restoring' = o
    /\ \A x \in LockThreads, b \in Addrs : \A u : u \in ToSet(held'[x][b]) <=>
          u \in ToSet(held[x][b]) \/ (u = t /\ x = o /\ b = a)
    /\ \A x \in LockThreads, b \in Addrs :
          held'[x][b] # <<>> <=> held[x][b] # <<>> \/ (x = o /\ b = a)
    /\ \A x \in LockThreads, b \in Addrs : Ordered(held'[x][b], prio)
    /\ StillBest(held', restoring')

LEMMA AddEffect ==
    ASSUME Locks!NoneAssumption, Locks!TypeOK, Sorted, PrioOK, restoring = None, NEW o \in LockThreads, NEW t \in LockThreads,
           NEW a \in Addrs, t \notin ToSet(held[o][a]), Locks!AddWaiter(o, t, a)
    PROVE  Added(o, t, a)
<1>1. held \in HeldType /\ prio \in [LockThreads -> Nat] /\ base \in [LockThreads -> Nat]
  BY DEF Locks!TypeOK, HeldType
<1>2. PICK s \in Seq(LockThreads) : s = held[o][a]
  BY <1>1 DEF HeldType
<1>3. PICK r : r = Locks!Insert(s, t, prio)
  OBVIOUS
<1>4. r \in Seq(LockThreads) /\ ToSet(r) = ToSet(s) \cup {t} /\ Ordered(r, prio)
  BY <1>1, <1>2, <1>3, InsertInTree DEF Sorted
<1>5. held' = [held EXCEPT ![o][a] = r]
  BY <1>2, <1>3 DEF Locks!AddWaiter
<1>6. held' \in HeldType
  BY <1>1, <1>4, <1>5 DEF HeldType
<1>7. \A x \in LockThreads, b \in Addrs : held'[x][b] = IF x = o /\ b = a THEN r ELSE held[x][b]
  BY <1>1, <1>5 DEF HeldType
<1>8. \A x \in LockThreads, b \in Addrs : \A u : u \in ToSet(held'[x][b]) <=>
        u \in ToSet(held[x][b]) \/ (u = t /\ x = o /\ b = a)
  BY <1>2, <1>4, <1>7
<1>9. r # <<>>
  BY <1>4, EmptyHasNone
<1>10. \A x \in LockThreads, b \in Addrs : Ordered(held'[x][b], prio)
  BY <1>4, <1>7 DEF Sorted
<1>11. restoring' = IF prio[t] < prio[o] THEN o ELSE None
  BY DEF Locks!AddWaiter
<1>12. ASSUME NEW u \in LockThreads, pc[u] # "Finalized", u # restoring'
       PROVE  Best(prio[u], base[u], WaitersOf(held'[u]), prio)
  <2>1. Best(prio[u], base[u], WaitersOf(held[u]), prio)
    BY <1>1, <1>12, NoThread DEF PrioOK
  <2>2. CASE u # o
    <3>1. WaitersOf(held'[u]) = WaitersOf(held[u])
      BY <1>8, <2>2 DEF WaitersOf
    <3>2. QED
      BY <2>1, <3>1
  <2>3. CASE u = o
    <3>1. WaitersOf(held'[u]) = WaitersOf(held[u]) \cup {t}
      BY <1>8, <2>3 DEF WaitersOf
    <3>2. prio[u] \in Nat /\ base[u] \in Nat /\ prio[t] \in Nat
      BY <1>1
    <3>3. prio[u] <= prio[t]
      BY <1>11, <1>12, <2>3, <3>2
    <3>4. QED
      BY <2>1, <3>1, <3>2, <3>3, BestAdd
  <2>4. QED
    BY <2>2, <2>3
<1>13. QED
  BY <1>6, <1>7, <1>8, <1>9, <1>10, <1>11, <1>12 DEF StillBest, Added

\* t waits under no thread any more.
TakenOut(t) ==
    /\ held' \in HeldType /\ restoring' \in LockThreads \cup {None}
    /\ \A x \in LockThreads, b \in Addrs : \A u : u \in ToSet(held'[x][b]) <=>
          u \in ToSet(held[x][b]) /\ u # t
    /\ \A x \in LockThreads, b \in Addrs : held'[x][b] # <<>> => held[x][b] # <<>>
    /\ \A x \in LockThreads, b \in Addrs : Ordered(held'[x][b], prio)
    /\ StillBest(held', restoring')

LEMMA RemoveEffect ==
    ASSUME Locks!NoneAssumption, Locks!TypeOK, Sorted, PrioOK, NodesOK, restoring = None, NEW o \in LockThreads, NEW t \in LockThreads,
           addrKey[t] \in Addrs, t \in ToSet(held[o][addrKey[t]]), Locks!RemoveWaiter(o, t)
    PROVE  TakenOut(t)
<1>1. held \in HeldType /\ prio \in [LockThreads -> Nat] /\ base \in [LockThreads -> Nat]
  BY DEF Locks!TypeOK, HeldType
<1>2. PICK a \in Addrs : a = addrKey[t]
  OBVIOUS
<1>3. PICK s \in Seq(LockThreads) : s = held[o][a]
  BY <1>1 DEF HeldType
<1>4. PICK r : r = RemoveFirst(s, t)
  OBVIOUS
<1>5. r \in Seq(LockThreads) /\ ToSet(r) = ToSet(s) \ {t} /\ Ordered(r, prio)
  BY <1>3, <1>4, Taken DEF Sorted
<1>6. held' = [held EXCEPT ![o][a] = r]
  BY <1>2, <1>3, <1>4, SameOperators DEF Locks!RemoveWaiter
<1>7. held' \in HeldType
  BY <1>1, <1>5, <1>6 DEF HeldType
<1>8. \A x \in LockThreads, b \in Addrs : held'[x][b] = IF x = o /\ b = a THEN r ELSE held[x][b]
  BY <1>1, <1>6 DEF HeldType
<1>9. \A x \in LockThreads, b \in Addrs : t \in ToSet(held[x][b]) => x = o /\ b = a
  BY <1>2 DEF NodesOK
<1>10. \A x \in LockThreads, b \in Addrs : \A u : u \in ToSet(held'[x][b]) <=>
        u \in ToSet(held[x][b]) /\ u # t
  BY <1>3, <1>5, <1>8, <1>9
<1>11. s # <<>>
  BY <1>2, <1>3, EmptyHasNone
<1>12. \A x \in LockThreads, b \in Addrs : Ordered(held'[x][b], prio)
  BY <1>5, <1>8 DEF Sorted
<1>13. restoring' = IF prio[o] = prio[t] /\ prio[o] < base[o] THEN o ELSE None
  BY DEF Locks!RemoveWaiter
<1>14. ASSUME NEW u \in LockThreads, pc[u] # "Finalized", u # restoring'
       PROVE  Best(prio[u], base[u], WaitersOf(held'[u]), prio)
  <2>1. Best(prio[u], base[u], WaitersOf(held[u]), prio)
    BY <1>1, <1>14, NoThread DEF PrioOK
  <2>2. CASE u # o
    <3>1. \A b \in Addrs : \A x : x \in ToSet(held'[u][b]) <=> x \in ToSet(held[u][b])
      BY <1>9, <1>10, <2>2
    <3>2. WaitersOf(held'[u]) = WaitersOf(held[u])
      BY <3>1 DEF WaitersOf
    <3>3. QED
      BY <2>1, <3>2
  <2>3. CASE u = o
    <3>1. WaitersOf(held'[u]) = WaitersOf(held[u]) \ {t}
      BY <1>10, <2>3 DEF WaitersOf
    <3>2. prio[u] \in Nat /\ base[u] \in Nat
      BY <1>1
    <3>3. ~(prio[u] = prio[t] /\ prio[u] < base[u])
      BY <1>13, <1>14, <2>3
    <3>4. QED
      BY <2>1, <3>1, <3>2, <3>3, BestRemove
  <2>4. QED
    BY <2>2, <2>3
<1>15. QED
  BY <1>3, <1>7, <1>8, <1>10, <1>11, <1>12, <1>13, <1>14 DEF StillBest, TakenOut

\* The owner t of mutex a has passed its waiters on to the first of them.
PassedOn(t, a) ==
    /\ held' \in HeldType /\ restoring' \in LockThreads \cup {None}
    /\ Locks!NextOwner(t, a) \in LockThreads /\ Locks!NextOwner(t, a) \in ToSet(held[t][a])
    /\ \A x \in LockThreads, b \in Addrs : \A u : u \in ToSet(held'[x][b]) <=>
          IF b # a THEN u \in ToSet(held[x][b])
          ELSE x = Locks!NextOwner(t, a) /\ u # x /\ u \in ToSet(held[t][a])
    /\ \A x \in LockThreads : held'[x][a] # <<>> => x = Locks!NextOwner(t, a) /\ Locks!HasWaiters(t, a) = 1
    /\ \A x \in LockThreads, b \in Addrs : b # a => held'[x][b] = held[x][b]
    /\ \A x \in LockThreads, b \in Addrs : Ordered(held'[x][b], prio)
    /\ StillBest(held', restoring')

LEMMA ByKeyEffect ==
    ASSUME Locks!NoneAssumption, Locks!TypeOK, Sorted, PrioOK, NodesOK, restoring = None, ~Passing, WordOK,
           NEW t \in LockThreads, NEW a \in Addrs, memOwner[a] = t, held[t][a] # <<>>,
           t \notin ToSet(held[t][a]), Locks!RemoveWaiterByKey(t, a)
    PROVE  PassedOn(t, a)
<1>1. held \in HeldType /\ prio \in [LockThreads -> Nat] /\ base \in [LockThreads -> Nat]
  BY DEF Locks!TypeOK, HeldType
<1>2. PICK s \in Seq(LockThreads) : s = held[t][a]
  BY <1>1 DEF HeldType
<1>3. PICK next : next = Head(s)
  OBVIOUS
<1>4. PICK r : r = Tail(s)
  OBVIOUS
<1>5. s # <<>> /\ Ordered(s, prio)
  BY <1>2 DEF Sorted
<1>6. /\ next \in LockThreads /\ next \in ToSet(s) /\ r \in Seq(LockThreads) /\ Ordered(r, prio)
      /\ ToSet(r) = ToSet(s) \ {next} /\ \A x \in ToSet(r) : prio[next] <= prio[x]
      /\ r # <<>> <=> Len(s) > 1
  BY <1>3, <1>4, <1>5, TailKeepsOrder
<1>7. next # t
  BY <1>2, <1>6
<1>8. held' = [held EXCEPT ![t][a] = <<>>, ![next][a] = r]
  BY <1>2, <1>3, <1>4, <1>5 DEF Locks!RemoveWaiterByKey
<1>9. <<>> \in Seq(LockThreads)
  OBVIOUS
<1>10. /\ held' \in HeldType
       /\ \A x \in LockThreads, b \in Addrs : held'[x][b] =
             IF b # a THEN held[x][b] ELSE IF x = next THEN r ELSE IF x = t THEN <<>> ELSE held[x][b]
  BY <1>1, <1>6, <1>7, <1>8, <1>9 DEF HeldType
<1>11. \A x \in LockThreads : x # t => held[x][a] = <<>>
  BY DEF WordOK
<1>12. \A x \in LockThreads : held'[x][a] = IF x = next THEN r ELSE <<>>
  BY <1>10, <1>11
<1>13. ToSet(<<>>) = {} /\ Ordered(<<>>, prio)
  BY DEF ToSet, Ordered
<1>14. \A x \in LockThreads, b \in Addrs : \A u : u \in ToSet(held'[x][b]) <=>
         IF b # a THEN u \in ToSet(held[x][b]) ELSE x = next /\ u # x /\ u \in ToSet(s)
  BY <1>6, <1>10, <1>12, <1>13
<1>15. \A x \in LockThreads, b \in Addrs : Ordered(held'[x][b], prio)
  BY <1>6, <1>10, <1>12, <1>13 DEF Sorted
<1>16. restoring' = IF prio[t] = prio[next] /\ prio[t] < base[t] THEN t ELSE None
  BY <1>2, <1>3, <1>5 DEF Locks!RemoveWaiterByKey
<1>17. Locks!NextOwner(t, a) = next /\ (r # <<>> => Locks!HasWaiters(t, a) = 1)
  BY <1>2, <1>3, <1>5, <1>6 DEF Locks!NextOwner, Locks!HasWaiters
<1>18. ASSUME NEW u \in LockThreads, pc[u] # "Finalized", u # restoring'
       PROVE  Best(prio[u], base[u], WaitersOf(held'[u]), prio)
  <2>1. Best(prio[u], base[u], WaitersOf(held[u]), prio)
    BY <1>1, <1>18, NoThread DEF PrioOK
  <2>2. prio[u] \in Nat /\ base[u] \in Nat /\ \A x \in LockThreads : prio[x] \in Nat
    BY <1>1
  <2>3. CASE u # t /\ u # next
    <3>1. WaitersOf(held'[u]) = WaitersOf(held[u])
      BY <1>11, <1>10, <2>3 DEF WaitersOf
    <3>2. QED
      BY <2>1, <3>1
  <2>4. CASE u = next
    <3>1. WaitersOf(held'[u]) = WaitersOf(held[u]) \cup ToSet(r)
      <4>1. ToSet(held[u][a]) = {} /\ ToSet(held'[u][a]) = ToSet(r) /\ ToSet(r) \subseteq LockThreads
        <5>1. ToSet(r) \subseteq LockThreads
          BY <1>6, Members, ElementOfSeq
        <5>2. QED
          BY <1>7, <1>11, <1>12, <1>13, <2>4, <5>1
      <4>2. \A b \in Addrs : b # a => held'[u][b] = held[u][b]
        BY <1>10
      <4>3. QED
        BY <4>1, <4>2 DEF WaitersOf
    <3>2. \A x \in ToSet(r) : prio[u] <= prio[x]
      BY <1>6, <2>4
    <3>3. QED
      BY <2>1, <3>1, <3>2 DEF Best
  <2>5. CASE u = t
    <3>1. /\ \A x \in WaitersOf(held'[u]) : x \in WaitersOf(held[u])
          /\ \A x \in WaitersOf(held[u]) : x \in WaitersOf(held'[u]) \/ x \in ToSet(s)
      BY <1>2, <1>7, <1>14, <2>5 DEF WaitersOf
    <3>2. ~(prio[u] = prio[next] /\ prio[u] < base[u])
      BY <1>16, <1>18, <2>5
    <3>3. CASE prio[u] = base[u]
      BY <2>1, <3>1, <3>3 DEF Best
    <3>4. CASE prio[u] # base[u]
      <4>1. prio[u] < base[u] /\ prio[u] # prio[next]
        BY <2>1, <2>2, <3>2, <3>4 DEF Best
      <4>2. next \in WaitersOf(held[u])
        BY <1>2, <1>6, <2>5 DEF WaitersOf
      <4>3. prio[u] < prio[next]
        BY <1>6, <2>1, <2>2, <4>1, <4>2 DEF Best
      <4>4. \A x \in ToSet(s) : prio[u] # prio[x]
        <5> SUFFICES ASSUME NEW x \in ToSet(s) PROVE prio[u] # prio[x]
          OBVIOUS
        <5>1. x = next \/ prio[next] <= prio[x]
          BY <1>6
        <5>2. x \in LockThreads /\ prio[x] \in Nat /\ prio[next] \in Nat
          BY <1>6, <2>2, Members, ElementOfSeq
        <5>3. QED
          BY <2>2, <4>1, <4>3, <5>1, <5>2
      <4>5. PICK x \in WaitersOf(held[u]) : prio[u] = prio[x]
        BY <2>1, <3>4 DEF Best
      <4>6. x \in WaitersOf(held'[u])
        BY <3>1, <4>4, <4>5
      <4>7. QED
        BY <2>1, <3>1, <4>5, <4>6 DEF Best
    <3>5. QED
      BY <3>3, <3>4
  <2>6. QED
    BY <2>3, <2>4, <2>5
<1>19. QED
  BY <1>2, <1>6, <1>10, <1>12, <1>14, <1>15, <1>16, <1>17, <1>18 DEF StillBest, PassedOn

\* One round of RestorePriority.
LEMMA RestoreEffect ==
    ASSUME Locks!NoneAssumption, Locks!TypeOK, Sorted, PrioOK, NodesOK, Locks!RestorePriority
    PROVE  /\ held' \in HeldType /\ restoring' \in LockThreads \cup {None}
           /\ prio' \in [LockThreads -> Nat] /\ mutexTree' \in [Keys -> Seq(LockThreads)]
           /\ \A x \in LockThreads, b \in Addrs : ToSet(held'[x][b]) = ToSet(held[x][b])
           /\ \A x \in LockThreads, b \in Addrs : held'[x][b] # <<>> <=> held[x][b] # <<>>
           /\ \A k \in Keys : ToSet(mutexTree'[k]) = ToSet(mutexTree[k])
           /\ \A k \in Keys : mutexTree'[k] # <<>> <=> mutexTree[k] # <<>>
           /\ \A x \in LockThreads, b \in Addrs : Ordered(held'[x][b], prio')
           /\ \A k \in Keys : Ordered(mutexTree'[k], prio')
           /\ \A u \in LockThreads : pc[u] # "Finalized" /\ u # restoring' =>
                 Best(prio'[u], base[u], WaitersOf(held'[u]), prio')
<1>1. /\ held \in HeldType /\ prio \in [LockThreads -> Nat] /\ base \in [LockThreads -> Nat]
      /\ mutexTree \in [Keys -> Seq(LockThreads)]
  BY DEF Locks!TypeOK, HeldType
<1>2. PICK t \in LockThreads : t = restoring
  BY DEF Locks!RestorePriority, Locks!TypeOK
<1>3. PICK m : m = Locks!InheritedPriority(t)
  OBVIOUS
<1>4. /\ m \in Nat /\ Best(m, base[t], WaitersOf(held[t]), prio)
      /\ \A x \in Nat : Best(x, base[t], WaitersOf(held[t]), prio) => x = m
  BY <1>3, InheritedIsBest
<1>5. PICK new : new = [prio EXCEPT ![t] = m]
  OBVIOUS
<1>6. new \in [LockThreads -> Nat] /\ new[t] = m /\ \A u \in LockThreads \ {t} : new[u] = prio[u]
  BY <1>1, <1>4, <1>5
<1>7. CASE new = prio
  <2>1. restoring' = None /\ prio' = prio /\ held' = held /\ mutexTree' = mutexTree
    BY <1>2, <1>3, <1>5, <1>7 DEF Locks!RestorePriority
  <2>2. Best(prio[t], base[t], WaitersOf(held[t]), prio)
    BY <1>4, <1>6, <1>7
  <2>3. \A u \in LockThreads : pc[u] # "Finalized" => Best(prio[u], base[u], WaitersOf(held[u]), prio)
    BY <1>2, <2>2 DEF PrioOK
  <2>4. QED
    BY <1>1, <2>1, <2>3 DEF Sorted
<1>8. CASE new # prio
  <2> DEFINE o == Locks!LockOwner(t)
             a == addrKey[t]
  <2>1. /\ prio' = new /\ restoring' = o
        /\ held' = IF o = None THEN held
                   ELSE [held EXCEPT ![o][a] = Locks!Insert(RemoveFirst(@, t), t, new)]
        /\ mutexTree' = [k \in Keys |-> IF t \in ToSet(mutexTree[k])
                                   THEN Locks!Insert(RemoveFirst(mutexTree[k], t), t, new) ELSE mutexTree[k]]
    BY <1>2, <1>3, <1>5, <1>8, SameOperators DEF Locks!RestorePriority
  <2>2. \/ o = None /\ \A x \in LockThreads, b \in Addrs : t \notin ToSet(held[x][b])
        \/ o \in LockThreads /\ o # None /\ a \in Addrs /\ t \in ToSet(held[o][a])
    BY OwnerFound
  <2> HIDE DEF o, a
  <2>3. \A s \in Seq(LockThreads) : Ordered(s, prio) /\ t \notin ToSet(s) => Ordered(s, new)
    <3> SUFFICES ASSUME NEW s \in Seq(LockThreads), Ordered(s, prio), t \notin ToSet(s)
                 PROVE  Ordered(s, new)
      OBVIOUS
    <3>1. \A u \in ToSet(s) : u \in LockThreads /\ new[u] = prio[u]
      BY <1>6, Members, ElementOfSeq
    <3>2. QED
      BY <3>1, OrderOfOthers
  <2>4. \A s \in Seq(LockThreads) : Ordered(s, prio) /\ t \in ToSet(s) =>
           /\ Locks!Insert(RemoveFirst(s, t), t, new) \in Seq(LockThreads)
           /\ ToSet(Locks!Insert(RemoveFirst(s, t), t, new)) = ToSet(s)
           /\ Ordered(Locks!Insert(RemoveFirst(s, t), t, new), new)
    BY <1>6, Reinserted
  <2>5. ASSUME NEW k \in Keys
        PROVE  /\ mutexTree'[k] \in Seq(LockThreads) /\ ToSet(mutexTree'[k]) = ToSet(mutexTree[k])
               /\ Ordered(mutexTree'[k], prio')
    <3>1. mutexTree[k] \in Seq(LockThreads) /\ Ordered(mutexTree[k], prio)
      BY <1>1 DEF Sorted
    <3>2. CASE t \in ToSet(mutexTree[k])
      BY <2>1, <2>4, <3>1, <3>2
    <3>3. CASE t \notin ToSet(mutexTree[k])
      BY <2>1, <2>3, <3>1, <3>3
    <3>4. QED
      BY <3>2, <3>3
  <2>6. mutexTree' \in [Keys -> Seq(LockThreads)] /\ \A k \in Keys : mutexTree'[k] # <<>> <=> mutexTree[k] # <<>>
    <3>1. \A k \in Keys : mutexTree'[k] # <<>> <=> mutexTree[k] # <<>>
      BY <1>1, <2>5, EmptyHasNone
    <3>2. mutexTree' = [k \in Keys |-> mutexTree'[k]]
      BY <2>1
    <3>3. QED
      BY <2>5, <3>1, <3>2
  <2>7. /\ held' \in HeldType
        /\ \A x \in LockThreads, b \in Addrs : ToSet(held'[x][b]) = ToSet(held[x][b]) /\ Ordered(held'[x][b], prio')
    <3>1. \A x \in LockThreads, b \in Addrs : held[x][b] \in Seq(LockThreads) /\ Ordered(held[x][b], prio)
      BY <1>1 DEF Sorted, HeldType
    <3>2. CASE o = None
      <4>1. held' = held /\ \A x \in LockThreads, b \in Addrs : t \notin ToSet(held[x][b])
        BY <2>1, <2>2, <3>2
      <4>2. QED
        BY <1>1, <2>1, <2>3, <3>1, <4>1
    <3>3. CASE o # None
      <4>1. o \in LockThreads /\ a \in Addrs /\ t \in ToSet(held[o][a])
        BY <2>2, <3>3
      <4>2. PICK r : r = Locks!Insert(RemoveFirst(held[o][a], t), t, new)
        OBVIOUS
      <4>3. r \in Seq(LockThreads) /\ ToSet(r) = ToSet(held[o][a]) /\ Ordered(r, new)
        BY <2>4, <3>1, <4>1, <4>2
      <4>4. held' = [held EXCEPT ![o][a] = r]
        BY <2>1, <3>3, <4>2
      <4>5. held' \in HeldType
        BY <1>1, <4>3, <4>4 DEF HeldType
      <4>6. \A x \in LockThreads, b \in Addrs : held'[x][b] = IF x = o /\ b = a THEN r ELSE held[x][b]
        BY <1>1, <4>4 DEF HeldType
      <4>7. \A x \in LockThreads, b \in Addrs : t \in ToSet(held[x][b]) => x = o /\ b = a
        BY <4>1 DEF NodesOK
      <4>8. ASSUME NEW x \in LockThreads, NEW b \in Addrs
            PROVE  ToSet(held'[x][b]) = ToSet(held[x][b]) /\ Ordered(held'[x][b], prio')
        <5>1. CASE x = o /\ b = a
          BY <2>1, <4>3, <4>6, <5>1
        <5>2. CASE ~(x = o /\ b = a)
          BY <2>1, <2>3, <3>1, <4>6, <4>7, <5>2
        <5>3. QED
          BY <5>1, <5>2
      <4>9. QED
        BY <4>5, <4>8
    <3>4. QED
      BY <3>2, <3>3
  <2>8. \A x \in LockThreads, b \in Addrs : held'[x][b] # <<>> <=> held[x][b] # <<>>
    <3> SUFFICES ASSUME NEW x \in LockThreads, NEW b \in Addrs
                 PROVE  held'[x][b] # <<>> <=> held[x][b] # <<>>
      OBVIOUS
    <3>1. held'[x][b] \in Seq(LockThreads) /\ held[x][b] \in Seq(LockThreads)
      BY <1>1, <2>7 DEF HeldType
    <3>2. QED
      BY <2>7, <3>1, EmptyHasNone
  <2>9. ASSUME NEW u \in LockThreads, pc[u] # "Finalized", u # restoring'
        PROVE  Best(prio'[u], base[u], WaitersOf(held'[u]), prio')
    <3>1. WaitersOf(held'[u]) = WaitersOf(held[u])
      BY <2>7 DEF WaitersOf
    <3>2. t \notin WaitersOf(held[u])
      <4>1. ASSUME NEW b \in Addrs, t \in ToSet(held[u][b]) PROVE FALSE
        <5>1. o \in LockThreads /\ a \in Addrs /\ t \in ToSet(held[o][a])
          BY <2>2, <4>1
        <5>2. u = o
          BY <4>1, <5>1 DEF NodesOK
        <5>3. QED
          BY <2>1, <2>9, <5>2
      <4>2. QED
        BY <4>1 DEF WaitersOf
    <3>3. Best(new[u], base[u], WaitersOf(held[u]), prio)
      <4>1. CASE u = t
        BY <1>4, <1>6, <4>1
      <4>2. CASE u # t
        BY <1>2, <1>6, <2>9, <4>2 DEF PrioOK
      <4>3. QED
        BY <4>1, <4>2
    <3>4. \A x \in WaitersOf(held[u]) : new[x] = prio[x]
      BY <1>6, <3>2 DEF WaitersOf
    <3>5. QED
      BY <2>1, <3>1, <3>3, <3>4 DEF Best
  <2>10. restoring' \in LockThreads \cup {None}
    BY <2>1, <2>2
  <2>11. QED
    BY <1>6, <2>1, <2>5, <2>6, <2>7, <2>8, <2>9, <2>10
<1>9. QED
  BY <1>7, <1>8
-----------------------------------------------------------------------------
\* Steps that keep the invariant.

\* The nodes, the order and the priorities stay as they are.
LEMMA SameNodes ==
    ASSUME NodesOK, UNCHANGED <<held, mutexTree, wait, addrKey>>,
           Passing /\ op.next \in LockThreads => Passing' /\ op'.next = op.next
    PROVE  NodesOK'
<1>1. \A t \in LockThreads : ~(Passing' /\ t = op'.next) => ~(Passing /\ t = op.next)
  OBVIOUS
<1> DEFINE Alone(t, h, k, w, a) ==
              /\ \A o, p \in LockThreads, b, c \in Addrs :
                    t \in ToSet(h[o][b]) /\ t \in ToSet(h[p][c]) => o = p /\ b = c
              /\ \A o \in LockThreads, b \in Addrs : t \in ToSet(h[o][b]) =>
                    a[t] = b /\ w[t] # "None" /\ \A l \in Keys : t \notin ToSet(k[l])
              /\ \A l \in Keys : t \in ToSet(k[l]) =>
                    w[t] = "CondVar" /\ \A m \in Keys : t \in ToSet(k[m]) => l = m
           Placed(t, h, k) == \/ \E o \in LockThreads, b \in Addrs : t \in ToSet(h[o][b])
                              \/ \E l \in Keys : t \in ToSet(k[l])
<1>2. \A t \in LockThreads : Alone(t, held, mutexTree, wait, addrKey) /\
         (wait[t] # "None" /\ ~(Passing /\ t = op.next) => Placed(t, held, mutexTree))
  BY DEF NodesOK
<1> HIDE DEF Alone, Placed
<1>3. \A t \in LockThreads : Alone(t, held', mutexTree', wait', addrKey') /\
         (wait'[t] # "None" /\ ~(Passing' /\ t = op'.next) => Placed(t, held', mutexTree'))
  BY <1>1, <1>2
<1>4. QED
  BY <1>3 DEF NodesOK, Alone, Placed

LEMMA SamePriorities ==
    ASSUME PrioOK, UNCHANGED <<held, prio, base>>,
           \A t \in LockThreads : pc'[t] # "Finalized" /\ t # restoring' => pc[t] # "Finalized" /\ t # restoring
    PROVE  PrioOK'
BY DEF PrioOK

\* The trees are of threads, that sleep.
LEMMA TreeThreads ==
    ASSUME Locks!TypeOK, NodesOK, NEW k \in Keys, NEW u \in ToSet(mutexTree[k])
    PROVE  u \in LockThreads /\ wait[u] = "CondVar"
<1>1. PICK s \in Seq(LockThreads) : s = mutexTree[k]
  BY DEF Locks!TypeOK
<1>2. PICK i \in 1 .. Len(s) : s[i] = u
  BY <1>1, Members
<1>3. u \in LockThreads
  BY <1>2, ElementOfSeq
<1>4. QED
  BY <1>3 DEF NodesOK

\* No thread becomes a waiter of a condition variable, or the word of it is set, and its
\* waiters that own mutexes keep them.
LEMMA FlagKept ==
    ASSUME Locks!WaiterFlagSet,
           \A k \in Keys : \/ cvFlag'[k] = 1
                           \/ /\ cvFlag'[k] = cvFlag[k]
                              /\ \A u \in ToSet(mutexTree'[k]) :
                                    /\ u \in ToSet(mutexTree[k])
                                    /\ (\E a \in Addrs : memOwner[a] = u) => \E a \in Addrs : memOwner'[a] = u
    PROVE  Locks!WaiterFlagSet'
<1> SUFFICES ASSUME NEW k \in Keys, NEW u \in ToSet(mutexTree'[k]), \A a \in Addrs : memOwner'[a] # u
             PROVE  cvFlag'[k] = 1
  BY SameOperators DEF Locks!WaiterFlagSet
<1>1. CASE cvFlag'[k] # 1
  <2>1. /\ cvFlag'[k] = cvFlag[k] /\ u \in ToSet(mutexTree[k])
        /\ (\E a \in Addrs : memOwner[a] = u) => \E a \in Addrs : memOwner'[a] = u
    BY <1>1
  <2>2. QED
    BY <2>1, SameOperators DEF Locks!WaiterFlagSet
<1>2. QED
  BY <1>1

\* A step that is no part of a Signal.
LEMMA NoWalk ==
    ASSUME Locks!WaiterFlagSet, UNCHANGED <<memOwner, cvFlag, mutexTree>>, op'.kind # "Signal"
    PROVE  Locks!WaiterFlagSet' /\ WalkOK'
BY DEF Locks!WaiterFlagSet, WalkOK

\* A step of guest code in the middle of a Signal.
LEMMA WalkKept ==
    ASSUME WalkOK, OpOK, UNCHANGED <<op, held, mutexTree, restoring, prio, base>>,
           \A u \in LockThreads : pc'[u] # "Finalized" => pc[u] # "Finalized",
           \A k \in Keys : \A u \in ToSet(mutexTree[k]) :
              (\E a \in Addrs : memOwner[a] = u) => \E a \in Addrs : memOwner'[a] = u
    PROVE  WalkOK'
<1> SUFFICES ASSUME op.kind = "Signal"
             PROVE  /\ op.it \in LockThreads => op.it \in ToSet(mutexTree[op.key])
                    /\ \A u \in ToSet(mutexTree[op.key]) :
                          (\A a \in Addrs : memOwner'[a] # u) => u = op.it \/ Before(mutexTree[op.key], op.it, u)
                    /\ \A r \in LockThreads : r = restoring /\ pc'[r] # "Finalized" =>
                          /\ prio[r] <= base[r]
                          /\ prio[r] = base[r] \/ \E u \in WaitersOf(held[r]) : prio[u] <= prio[r]
  BY DEF WalkOK, Owning, Before
<1>1. op.key \in Keys
  BY DEF OpOK
<1>2. QED
  BY <1>1 DEF WalkOK, Owning

\* A round of RestorePriority in the middle of a Signal: the thread it moves ahead, maybe of
\* the iterator, owns the mutex that another thread waits for.
LEMMA WalkRestored ==
    ASSUME Locks!NoneAssumption, Locks!TypeOK, GuestOK, NodesOK, OpOK, WordOK, Sorted, PrioOK, WalkOK,
           Locks!RestorePriority, op.kind = "Signal"
    PROVE  WalkOK'
<1>1. /\ held \in HeldType /\ prio \in [LockThreads -> Nat] /\ base \in [LockThreads -> Nat]
      /\ mutexTree \in [Keys -> Seq(LockThreads)] /\ ~Passing /\ None \notin LockThreads
  BY NoThread DEF Locks!TypeOK, HeldType, Passing
<1>2. UNCHANGED <<memOwner, base, op, pc>>
  BY DEF Locks!RestorePriority, Locks!memVars, Locks!guestVars
<1>3. PICK t \in LockThreads : t = restoring
  BY DEF Locks!RestorePriority, Locks!TypeOK
<1>4. PICK k \in Keys : k = op.key
  BY DEF OpOK
<1>5. PICK it : it = op.it
  OBVIOUS
<1>6. PICK s \in Seq(LockThreads) : s = mutexTree[k]
  BY <1>1
<1>7. /\ it \in LockThreads => it \in ToSet(s)
      /\ \A u \in ToSet(s) : (\A a \in Addrs : memOwner[a] # u) => u = it \/ Before(s, it, u)
      /\ pc[t] # "Finalized" =>
            prio[t] <= base[t] /\ (prio[t] = base[t] \/ \E u \in WaitersOf(held[t]) : prio[u] <= prio[t])
  BY <1>3, <1>4, <1>5, <1>6 DEF WalkOK, Owning
<1>8. PICK m : m = Locks!InheritedPriority(t)
  OBVIOUS
<1>9. m \in Nat /\ Best(m, base[t], WaitersOf(held[t]), prio)
  BY <1>8, InheritedIsBest
<1>10. PICK new : new = [prio EXCEPT ![t] = m]
  OBVIOUS
<1>11. new \in [LockThreads -> Nat] /\ new[t] = m /\ \A u \in LockThreads \ {t} : new[u] = prio[u]
  BY <1>1, <1>9, <1>10
<1>12. /\ \A x \in LockThreads, b \in Addrs : ToSet(held'[x][b]) = ToSet(held[x][b])
       /\ ToSet(mutexTree'[k]) = ToSet(s) /\ Ordered(mutexTree'[k], prio')
       /\ mutexTree'[k] \in Seq(LockThreads)
  BY <1>6, RestoreEffect
<1>13. \A u \in ToSet(s) : u \in LockThreads
  BY <1>6, Members, ElementOfSeq
<1> SUFFICES ASSUME NEW v, v = mutexTree'[k]
             PROVE  /\ it \in LockThreads => it \in ToSet(v)
                    /\ \A u \in ToSet(v) : (\A a \in Addrs : memOwner[a] # u) => u = it \/ Before(v, it, u)
                    /\ \A r \in LockThreads : r = restoring' /\ pc[r] # "Finalized" =>
                          /\ prio'[r] <= base[r]
                          /\ prio'[r] = base[r] \/ \E u \in WaitersOf(held'[r]) : prio'[u] <= prio'[r]
  BY <1>2, <1>4, <1>5 DEF WalkOK, Owning, Before
<1>14. CASE new = prio
  <2>1. restoring' = None /\ v = s
    BY <1>3, <1>6, <1>8, <1>10, <1>14 DEF Locks!RestorePriority
  <2>2. QED
    BY <1>1, <1>7, <2>1
<1>15. CASE new # prio
  <2>1. /\ prio' = new /\ restoring' = Locks!LockOwner(t)
        /\ v = IF t \in ToSet(s) THEN Locks!Insert(RemoveFirst(s, t), t, new) ELSE s
    BY <1>3, <1>4, <1>6, <1>8, <1>10, <1>15, SameOperators DEF Locks!RestorePriority
  <2>2. pc[t] # "Finalized" => m <= prio[t]
    <3> SUFFICES ASSUME pc[t] # "Finalized" PROVE m <= prio[t]
      OBVIOUS
    <3>1. CASE prio[t] = base[t]
      BY <1>9, <3>1 DEF Best
    <3>2. CASE prio[t] # base[t]
      <4>1. PICK u \in WaitersOf(held[t]) : prio[u] <= prio[t]
        BY <1>7, <3>2
      <4>2. m <= prio[u] /\ prio[u] \in Nat /\ prio[t] \in Nat
        BY <1>1, <1>9, <4>1 DEF Best, WaitersOf
      <4>3. QED
        BY <1>9, <4>1, <4>2
    <3>3. QED
      BY <3>1, <3>2
  <2>3. t \in ToSet(s) => /\ \E a \in Addrs : memOwner[a] = t
                          /\ m < prio[t]
    <3> SUFFICES ASSUME t \in ToSet(s)
                 PROVE  (\E a \in Addrs : memOwner[a] = t) /\ m < prio[t]
      OBVIOUS
    <3>1. pc[t] # "Finalized"
      BY <1>6 DEF NodesOK, GuestOK
    <3>2. m # prio[t]
      BY <1>1, <1>10, <1>15
    <3>3. m < prio[t] /\ m # base[t]
      BY <1>1, <1>7, <1>9, <2>2, <3>1, <3>2
    <3>4. PICK u \in WaitersOf(held[t]) : TRUE
      BY <1>9, <3>3 DEF Best
    <3>5. PICK a \in Addrs : u \in ToSet(held[t][a])
      BY <3>4 DEF WaitersOf
    <3>6. held[t][a] # <<>>
      <4>1. ToSet(<<>>) = {}
        BY DEF ToSet
      <4>2. QED
        BY <3>5, <4>1
    <3>7. memOwner[a] = t
      BY <1>1, <3>6 DEF WordOK
    <3>8. QED
      BY <3>3, <3>7
  <2>4. ASSUME NEW u \in ToSet(v), \A a \in Addrs : memOwner[a] # u, u # it
        PROVE  Before(v, it, u)
    <3>1. u \in ToSet(s) /\ Before(s, it, u)
      BY <1>7, <1>12, <2>4
    <3>2. CASE t \notin ToSet(s)
      BY <2>1, <3>1, <3>2
    <3>3. CASE t \in ToSet(s) /\ it # t
      <4>1. u # t
        BY <2>3, <2>4, <3>3
      <4>2. Before(RemoveFirst(s, t), it, u)
        BY <3>1, <3>3, <4>1, BeforeRemoved
      <4>3. RemoveFirst(s, t) \in Seq(LockThreads)
        BY <1>6, Taken DEF Sorted
      <4>4. Before(Locks!Insert(RemoveFirst(s, t), t, new), it, u)
        BY <1>11, <4>2, <4>3, BeforeInserted
      <4>5. QED
        BY <2>1, <3>3, <4>4
    <3>4. CASE t \in ToSet(s) /\ it = t
      <4>1. u # t /\ u \in LockThreads
        BY <1>13, <2>4, <3>1, <3>4
      <4>2. prio[t] <= prio[u]
        <5>1. PICK i \in 1 .. Len(s), j \in 1 .. Len(s) : i < j /\ s[i] = t /\ s[j] = u
          BY <3>1, <3>4 DEF Before
        <5>2. Ordered(s, prio) /\ DOMAIN s = 1 .. Len(s)
          BY <1>6, LenProperties DEF Sorted
        <5>3. QED
          BY <5>1, <5>2 DEF Ordered
      <4>3. ~(prio'[u] <= prio'[t])
        BY <1>1, <1>9, <1>11, <2>1, <2>3, <3>4, <4>1, <4>2
      <4>4. PICK i \in 1 .. Len(v), j \in 1 .. Len(v) : v[i] = t /\ v[j] = u
        BY <1>12, <3>1, <3>4, Members
      <4>5. Len(v) \in Nat /\ DOMAIN v = 1 .. Len(v)
        BY <1>12, LenProperties
      <4>6. ~(j < i)
        BY <1>12, <4>3, <4>4, <4>5 DEF Ordered
      <4>7. i < j
        BY <4>1, <4>4, <4>5, <4>6
      <4>8. QED
        BY <3>4, <4>4, <4>7 DEF Before
    <3>5. QED
      BY <3>2, <3>3, <3>4
  <2>5. ASSUME NEW o \in LockThreads, o = restoring', pc[o] # "Finalized"
        PROVE  /\ prio'[o] <= base[o]
               /\ prio'[o] = base[o] \/ \E u \in WaitersOf(held'[o]) : prio'[u] <= prio'[o]
    <3>1. WaitersOf(held'[o]) = WaitersOf(held[o])
      BY <1>12 DEF WaitersOf
    <3>2. t \in WaitersOf(held[o]) /\ wait[t] # "None"
      <4>1. addrKey[t] \in Addrs /\ t \in ToSet(held[o][addrKey[t]])
        BY <1>1, <2>1, <2>5, OwnerFound
      <4>2. wait[t] # "None"
        BY <4>1 DEF NodesOK
      <4>3. QED
        BY <4>1, <4>2 DEF WaitersOf
    <3>3. m <= prio[t]
      BY <2>2, <3>2 DEF GuestOK
    <3>4. \A u \in WaitersOf(held[o]) : new[u] \in Nat /\ prio[u] \in Nat /\ new[u] <= prio[u]
      <4>1. \A u \in WaitersOf(held[o]) : u \in LockThreads
        BY DEF WaitersOf
      <4>2. \A u \in LockThreads : new[u] \in Nat /\ prio[u] \in Nat
        BY <1>1, <1>11
      <4>3. \A u \in LockThreads : new[u] <= prio[u]
        <5> TAKE u \in LockThreads
        <5>1. CASE u = t
          BY <1>11, <3>3, <5>1
        <5>2. CASE u # t
          BY <1>11, <4>2, <5>2
        <5>3. QED
          BY <5>1, <5>2
      <4>4. QED
        BY <4>1, <4>2, <4>3
    <3>5. new[o] <= base[o] /\ (new[o] = base[o] \/ \E u \in WaitersOf(held[o]) : new[o] = prio[u])
      <4>1. CASE o = t
        BY <1>9, <1>11, <4>1 DEF Best
      <4>2. CASE o # t
        <5>1. Best(prio[o], base[o], WaitersOf(held[o]), prio)
          BY <1>3, <2>5, <4>2 DEF PrioOK
        <5>2. QED
          BY <1>11, <4>2, <5>1 DEF Best
      <4>3. QED
        BY <4>1, <4>2
    <3>6. new[o] = base[o] \/ \E u \in WaitersOf(held[o]) : new[u] <= new[o]
      BY <3>4, <3>5
    <3>7. QED
      BY <2>1, <3>1, <3>5, <3>6
  <2>6. QED
    BY <1>7, <1>12, <2>4, <2>5
<1>16. QED
  BY <1>14, <1>15

\* Guest code.
LEMMA KeptByGuestLock ==
    ASSUME Locks!NoneAssumption, Locks!PrioAssumption, MutexInv, NEW t \in LockThreads, NEW a \in Addrs, Locks!GuestLock(t, a)
    PROVE  MutexInv'
<1>1. /\ pc[t] = "User" /\ pc' = [pc EXCEPT ![t] = "Locking"] /\ want' = [want EXCEPT ![t] = a]
      /\ UNCHANGED <<memOwner, memWait, cvFlag, base, prio, held, mutexTree, wait, addrKey, mutexTimers, ownerRef, result, op, restoring, seen, holds, termRequested>>
  BY DEF Locks!GuestLock, Locks!memVars, Locks!prioVars, Locks!waitVars, Locks!guestVars
<1>2. /\ pc \in [LockThreads -> {"User", "Locking", "Arbitrate", "Kernel", "Exited", "Finalized"}]
      /\ memOwner \in [Addrs -> LockThreads \cup {None}] /\ memWait \in [Addrs -> {0, 1}]
      /\ want \in [LockThreads -> Addrs \cup {None}] /\ holds \in [LockThreads -> SUBSET Addrs]
      /\ seen \in [LockThreads -> LockThreads \cup {None}] /\ addrKey \in [LockThreads -> Addrs \cup {None}]
      /\ wait \in [LockThreads -> {"None", "Address", "CondVar"}]
      /\ ownerRef \in [LockThreads -> LockThreads \cup {None}] /\ None \notin LockThreads /\ None \notin Addrs
  BY DEF MutexInv, Locks!TypeOK, Locks!NoneAssumption
<1>3. Locks!TypeOK'
  BY <1>1, <1>2 DEF MutexInv, Locks!TypeOK
<1>4. GuestOK'
  BY <1>1, <1>2 DEF MutexInv, GuestOK, Passing
<1>5. NodesOK'
  BY <1>1, <1>2, SameNodes DEF MutexInv, Passing
<1>6. OpOK'
  BY <1>1, <1>2 DEF MutexInv, OpOK, Passing
<1>7. WordOK'
  BY <1>1, <1>2 DEF MutexInv, WordOK, Passing
<1>8. HoldOK'
  BY <1>1, <1>2 DEF MutexInv, HoldOK, Passing
<1>9. Locks!WaiterFlagSet' /\ WalkOK'
  <2>1. \A u \in LockThreads : pc'[u] # "Finalized" => pc[u] # "Finalized"
    BY <1>1, <1>2
  <2>2. WalkOK'
    BY <1>1, <2>1, WalkKept DEF MutexInv
  <2>3. QED
    BY <1>1, <2>2 DEF MutexInv, Locks!WaiterFlagSet
<1>10. Sorted'
  BY <1>1, <1>2 DEF MutexInv, Sorted
<1>11. PrioOK'
  BY <1>1, <1>2, SamePriorities DEF MutexInv
<1>12. QED
  BY <1>3, <1>4, <1>5, <1>6, <1>7, <1>8, <1>9, <1>10, <1>11 DEF MutexInv

LEMMA KeptByGuestLockCas ==
    ASSUME Locks!NoneAssumption, Locks!PrioAssumption, MutexInv, NEW t \in LockThreads, Locks!GuestLockCas(t)
    PROVE  MutexInv'
<1>1. pc[t] = "Locking" /\ want[t] \in Addrs /\ UNCHANGED <<cvFlag, base, prio, held, mutexTree, wait, addrKey, mutexTimers, ownerRef, result, op, restoring, termRequested>>
  BY DEF Locks!GuestLockCas, MutexInv, GuestOK, Locks!memVars, Locks!prioVars, Locks!waitVars, Locks!guestVars
<1>2. /\ pc \in [LockThreads -> {"User", "Locking", "Arbitrate", "Kernel", "Exited", "Finalized"}]
      /\ memOwner \in [Addrs -> LockThreads \cup {None}] /\ memWait \in [Addrs -> {0, 1}]
      /\ want \in [LockThreads -> Addrs \cup {None}] /\ holds \in [LockThreads -> SUBSET Addrs]
      /\ seen \in [LockThreads -> LockThreads \cup {None}] /\ addrKey \in [LockThreads -> Addrs \cup {None}]
      /\ wait \in [LockThreads -> {"None", "Address", "CondVar"}]
      /\ ownerRef \in [LockThreads -> LockThreads \cup {None}] /\ None \notin LockThreads /\ None \notin Addrs
  BY DEF MutexInv, Locks!TypeOK, Locks!NoneAssumption
<1>3. PICK a \in Addrs : a = want[t]
  BY <1>1
<1>4. \/ /\ memOwner[a] \in {None, t} /\ memOwner' = [memOwner EXCEPT ![a] = t]
         /\ holds' = [holds EXCEPT ![t] = @ \cup {a}]
         /\ want' = [want EXCEPT ![t] = None] /\ pc' = [pc EXCEPT ![t] = "User"]
         /\ UNCHANGED <<memWait, seen>>
      \/ /\ memOwner[a] \in LockThreads \ {t} /\ memWait' = [memWait EXCEPT ![a] = 1]
         /\ seen' = [seen EXCEPT ![t] = memOwner[a]] /\ pc' = [pc EXCEPT ![t] = "Arbitrate"]
         /\ UNCHANGED <<memOwner, holds, want>>
  BY <1>2, <1>3 DEF Locks!GuestLockCas
<1>5. Locks!TypeOK'
  <2>1. holds' \in [LockThreads -> SUBSET Addrs] /\ memOwner' \in [Addrs -> LockThreads \cup {None}]
    BY <1>2, <1>4
  <2>2. want' \in [LockThreads -> Addrs \cup {None}] /\ memWait' \in [Addrs -> {0, 1}]
    BY <1>2, <1>4
  <2>3. /\ seen' \in [LockThreads -> LockThreads \cup {None}]
        /\ pc' \in [LockThreads -> {"User", "Locking", "Arbitrate", "Kernel", "Exited", "Finalized"}]
    BY <1>2, <1>4
  <2>4. QED
    BY <1>1, <2>1, <2>2, <2>3 DEF MutexInv, Locks!TypeOK
<1>6. GuestOK'
  BY <1>1, <1>2, <1>3, <1>4 DEF MutexInv, GuestOK, Passing
<1>7. NodesOK'
  BY <1>1, <1>2, <1>3, <1>4, SameNodes DEF MutexInv, Passing
<1>8. OpOK'
  BY <1>1, <1>2, <1>3, <1>4 DEF MutexInv, OpOK, Passing
<1>9. WordOK'
  BY <1>1, <1>2, <1>3, <1>4 DEF MutexInv, WordOK, Passing
<1>10. HoldOK'
  <2>1. \A b \in Addrs : memOwner'[b] # memOwner[b] => b = a /\ memOwner[a] = None /\ memOwner'[a] = t
    BY <1>2, <1>4
  <2>2. \A u \in LockThreads, b \in Addrs : b \in holds'[u] => b \in holds[u] \/ (u = t /\ b = a /\ memOwner'[a] = t)
    BY <1>2, <1>4
  <2>3. \A u \in LockThreads : pc'[u] = "Kernel" => pc[u] = "Kernel"
    BY <1>2, <1>4
  <2>4. \A u \in LockThreads : pc[u] = "Kernel" /\ ~(Passing /\ u = op.thread) => addrKey[u] \in Addrs
    BY DEF MutexInv, GuestOK
  <2>5. QED
    BY <1>1, <1>2, <2>1, <2>2, <2>3, <2>4 DEF MutexInv, HoldOK, Passing
<1>11. Locks!WaiterFlagSet' /\ WalkOK'
  <2>1. \A b \in Addrs : memOwner[b] \in LockThreads => memOwner'[b] = memOwner[b]
    BY <1>2, <1>4
  <2>2. \A k \in Keys : \A u \in ToSet(mutexTree[k]) :
           (\E b \in Addrs : memOwner[b] = u) => \E b \in Addrs : memOwner'[b] = u
    BY <2>1, TreeThreads DEF MutexInv
  <2>3. \A u \in LockThreads : pc'[u] # "Finalized" => pc[u] # "Finalized"
    BY <1>1, <1>2, <1>4
  <2>4. WalkOK'
    BY <1>1, <2>2, <2>3, WalkKept DEF MutexInv
  <2>5. Locks!WaiterFlagSet'
    BY <1>1, <2>2, FlagKept DEF MutexInv
  <2>6. QED
    BY <2>4, <2>5
<1>12. Sorted'
  BY <1>1, <1>2, <1>3, <1>4 DEF MutexInv, Sorted
<1>13. PrioOK'
  BY <1>1, <1>2, <1>3, <1>4, SamePriorities DEF MutexInv
<1>14. QED
  BY <1>5, <1>6, <1>7, <1>8, <1>9, <1>10, <1>11, <1>12, <1>13 DEF MutexInv

LEMMA KeptByGuestUnlock ==
    ASSUME Locks!NoneAssumption, Locks!PrioAssumption, MutexInv, NEW t \in LockThreads, NEW a \in Addrs, Locks!GuestUnlock(t, a)
    PROVE  MutexInv'
<1>1. /\ pc[t] = "User" /\ a \in holds[t] /\ memOwner[a] = t /\ memWait[a] = 0
      /\ memOwner' = [memOwner EXCEPT ![a] = None] /\ holds' = [holds EXCEPT ![t] = @ \ {a}]
      /\ UNCHANGED <<memWait, cvFlag, base, prio, held, mutexTree, wait, addrKey, mutexTimers, ownerRef, result, op, restoring, pc, want, seen, termRequested>>
  BY DEF Locks!GuestUnlock, Locks!memVars, Locks!prioVars, Locks!waitVars, Locks!guestVars
<1>2. /\ pc \in [LockThreads -> {"User", "Locking", "Arbitrate", "Kernel", "Exited", "Finalized"}]
      /\ memOwner \in [Addrs -> LockThreads \cup {None}] /\ memWait \in [Addrs -> {0, 1}]
      /\ want \in [LockThreads -> Addrs \cup {None}] /\ holds \in [LockThreads -> SUBSET Addrs]
      /\ seen \in [LockThreads -> LockThreads \cup {None}] /\ addrKey \in [LockThreads -> Addrs \cup {None}]
      /\ wait \in [LockThreads -> {"None", "Address", "CondVar"}]
      /\ ownerRef \in [LockThreads -> LockThreads \cup {None}] /\ None \notin LockThreads /\ None \notin Addrs
  BY DEF MutexInv, Locks!TypeOK, Locks!NoneAssumption
<1>3. Locks!TypeOK'
  BY <1>1, <1>2 DEF MutexInv, Locks!TypeOK
<1>4. GuestOK'
  BY <1>1, <1>2 DEF MutexInv, GuestOK, Passing
<1>5. NodesOK'
  BY <1>1, <1>2, SameNodes DEF MutexInv, Passing
<1>6. OpOK'
  BY <1>1, <1>2 DEF MutexInv, OpOK, Passing
<1>7. WordOK'
  BY <1>1, <1>2 DEF MutexInv, WordOK, Passing
<1>8. HoldOK'
  BY <1>1, <1>2 DEF MutexInv, HoldOK, Passing, GuestOK
<1>9. Locks!WaiterFlagSet' /\ WalkOK'
  <2>1. \A b \in Addrs : memOwner[b] # t => memOwner'[b] = memOwner[b]
    BY <1>1, <1>2
  <2>2. wait[t] = "None"
    BY <1>1, <1>2 DEF MutexInv, GuestOK
  <2>3. \A k \in Keys : \A u \in ToSet(mutexTree[k]) :
           (\E b \in Addrs : memOwner[b] = u) => \E b \in Addrs : memOwner'[b] = u
    BY <2>1, <2>2, TreeThreads DEF MutexInv
  <2>4. WalkOK'
    BY <1>1, <2>3, WalkKept DEF MutexInv
  <2>5. Locks!WaiterFlagSet'
    BY <1>1, <2>3, FlagKept DEF MutexInv
  <2>6. QED
    BY <2>4, <2>5
<1>10. Sorted'
  BY <1>1, <1>2 DEF MutexInv, Sorted
<1>11. PrioOK'
  BY <1>1, <1>2, SamePriorities DEF MutexInv
<1>12. QED
  BY <1>3, <1>4, <1>5, <1>6, <1>7, <1>8, <1>9, <1>10, <1>11 DEF MutexInv

LEMMA KeptBySignal ==
    ASSUME Locks!NoneAssumption, Locks!PrioAssumption, MutexInv, NEW k \in Keys, NEW count \in Int, Locks!Signal(k, count)
    PROVE  MutexInv'
<1>1. /\ op' = [kind |-> "Signal", thread |-> None, addr |-> None, key |-> k, next |-> None, more |-> 0,
                timeout |-> "Infinite", left |-> count,
                it |-> IF mutexTree[k] = <<>> THEN None ELSE Head(mutexTree[k])]
      /\ UNCHANGED <<memOwner, memWait, cvFlag, base, prio, held, mutexTree, wait, addrKey, mutexTimers, ownerRef, result, restoring, pc, want, seen, holds, termRequested>>
  BY DEF Locks!Signal, Locks!Idle, Locks!memVars, Locks!prioVars, Locks!waitVars, Locks!guestVars
<1>2. op.kind = "Idle" /\ ~Passing /\ restoring = None
  BY DEF Locks!Signal, Locks!Unlocked, Locks!Idle, Passing
<1>3. ~Passing' /\ op'.kind = "Signal" /\ op'.key = k
  BY <1>1 DEF Passing
<1>4. Locks!TypeOK'
  <2>1. (IF mutexTree[k] = <<>> THEN None ELSE Head(mutexTree[k])) \in LockThreads \cup {None}
    <3>1. PICK s \in Seq(LockThreads) : s = mutexTree[k]
      BY DEF MutexInv, Locks!TypeOK
    <3>2. s # <<>> => Head(s) \in LockThreads
      BY HeadFirst
    <3>3. QED
      BY <3>1, <3>2
  <2>2. op' \in [kind : {"Idle", "Unlock", "CvWait", "Signal", "Terminate"},
                  thread : LockThreads \cup {None}, addr : Addrs \cup {None}, key : Keys \cup {None},
                  next : LockThreads \cup {None}, more : {0, 1}, timeout : Locks!Timeouts, left : Int,
                  it : LockThreads \cup {None}]
    BY <1>1, <2>1 DEF Locks!Timeouts
  <2>3. QED
    BY <1>1, <2>2 DEF MutexInv, Locks!TypeOK
<1>5. GuestOK'
  BY <1>1, <1>2, <1>3 DEF MutexInv, GuestOK, Passing
<1>6. NodesOK'
  BY <1>1, <1>2, <1>3, SameNodes DEF MutexInv, Passing
<1>7. OpOK'
  BY <1>3 DEF OpOK
<1>8. WordOK'
  BY <1>1, <1>2, <1>3 DEF MutexInv, WordOK, Passing
<1>9. HoldOK'
  BY <1>1, <1>2, <1>3 DEF MutexInv, HoldOK, Passing
<1>10. Locks!WaiterFlagSet' /\ WalkOK'
  <2>1. PICK s \in Seq(LockThreads) : s = mutexTree[k]
    BY DEF MutexInv, Locks!TypeOK
  <2>2. op'.it = IF s = <<>> THEN None ELSE Head(s)
    BY <1>1, <2>1
  <2>3. CASE s = <<>>
    <3>1. ToSet(s) = {} /\ op'.it = None /\ None \notin LockThreads
      BY <2>2, <2>3, EmptyHasNone, NoThread
    <3>2. QED
      BY <1>1, <1>2, <1>3, <2>1, <3>1, NoThread DEF MutexInv, WalkOK, Locks!WaiterFlagSet
  <2>4. CASE s # <<>>
    <3>1. op'.it \in ToSet(s) /\ \A u \in ToSet(s) : u = op'.it \/ Before(s, op'.it, u)
      BY <2>2, <2>4, HeadFirst
    <3>2. mutexTree'[op'.key] = s /\ restoring' = None
      BY <1>1, <1>2, <1>3, <2>1
    <3>3. WalkOK'
      BY <3>1, <3>2, NoThread DEF WalkOK, Before
    <3>4. QED
      BY <1>1, <3>3 DEF MutexInv, Locks!WaiterFlagSet
  <2>5. QED
    BY <2>3, <2>4
<1>11. Sorted'
  BY <1>1, <1>2, <1>3 DEF MutexInv, Sorted
<1>12. PrioOK'
  BY <1>1, <1>2, <1>3, SamePriorities DEF MutexInv
<1>13. QED
  BY <1>4, <1>5, <1>6, <1>7, <1>8, <1>9, <1>10, <1>11, <1>12 DEF MutexInv

LEMMA KeptBySignalEnd ==
    ASSUME Locks!NoneAssumption, Locks!PrioAssumption, MutexInv, Locks!SignalEnd
    PROVE  MutexInv'
<1>1. /\ op.kind = "Signal" /\ restoring = None /\ op.key \in Keys
      /\ cvFlag' = IF op.it = None THEN [cvFlag EXCEPT ![op.key] = 0] ELSE cvFlag
      /\ op' = Locks!Idle /\ UNCHANGED <<memOwner, memWait, base, prio, held, mutexTree, wait, addrKey, mutexTimers, ownerRef, result, restoring, pc, want, seen, holds, termRequested>>
  BY DEF Locks!SignalEnd, MutexInv, OpOK, Locks!memVars, Locks!prioVars, Locks!waitVars, Locks!guestVars
<1>2. ~Passing /\ ~Passing' /\ op'.kind = "Idle"
  BY <1>1 DEF Passing, Locks!Idle
<1>3. Locks!TypeOK'
  BY <1>1 DEF MutexInv, Locks!TypeOK, Locks!Idle, Locks!Timeouts
<1>4. GuestOK'
  BY <1>1, <1>2 DEF MutexInv, GuestOK, Passing
<1>5. NodesOK'
  BY <1>1, <1>2, SameNodes DEF MutexInv, Passing
<1>6. OpOK'
  BY <1>2 DEF OpOK
<1>7. WordOK'
  BY <1>1, <1>2 DEF MutexInv, WordOK, Passing
<1>8. HoldOK'
  BY <1>1, <1>2 DEF MutexInv, HoldOK, Passing
<1>9. Locks!WaiterFlagSet' /\ WalkOK'
  <2>1. PICK k \in Keys : k = op.key
    BY <1>1
  <2>2. \A l \in Keys : l # k => cvFlag'[l] = cvFlag[l]
    BY <1>1, <2>1 DEF MutexInv, Locks!TypeOK
  <2>3. op.it # None => cvFlag'[k] = cvFlag[k]
    BY <1>1
  <2>4. ASSUME op.it = None, NEW u \in ToSet(mutexTree[k]), \A b \in Addrs : memOwner[b] # u
        PROVE  FALSE
    <3>1. u = None \/ Before(mutexTree[k], None, u)
      BY <1>1, <2>1, <2>4 DEF MutexInv, WalkOK, Owning
    <3>2. u \in LockThreads /\ None \notin LockThreads
      BY <2>4, NoThread, TreeThreads DEF MutexInv
    <3>3. PICK i \in 1 .. Len(mutexTree[k]) : mutexTree[k][i] = None
      BY <3>1, <3>2 DEF Before
    <3>4. mutexTree[k] \in Seq(LockThreads)
      BY DEF MutexInv, Locks!TypeOK
    <3>5. QED
      BY <3>2, <3>3, <3>4, ElementOfSeq
  <2>5. Locks!WaiterFlagSet'
    <3> SUFFICES ASSUME NEW l \in Keys, NEW u \in ToSet(mutexTree[l]), \A b \in Addrs : memOwner[b] # u
                 PROVE  cvFlag'[l] = 1
      BY <1>1, SameOperators DEF Locks!WaiterFlagSet
    <3>1. cvFlag[l] = 1
      BY SameOperators DEF MutexInv, Locks!WaiterFlagSet
    <3>2. QED
      BY <2>2, <2>3, <2>4, <3>1
  <2>6. QED
    BY <1>2, <2>5 DEF WalkOK
<1>10. Sorted'
  BY <1>1, <1>2 DEF MutexInv, Sorted
<1>11. PrioOK'
  BY <1>1, <1>2, SamePriorities DEF MutexInv
<1>12. QED
  BY <1>3, <1>4, <1>5, <1>6, <1>7, <1>8, <1>9, <1>10, <1>11 DEF MutexInv

LEMMA KeptByReturn ==
    ASSUME Locks!NoneAssumption, Locks!PrioAssumption, MutexInv, NEW t \in LockThreads, Locks!Return(t)
    PROVE  MutexInv'
<1>1. /\ pc[t] = "Kernel" /\ wait[t] = "None" /\ UNCHANGED <<memOwner, memWait, cvFlag, base, prio, held, mutexTree, wait, mutexTimers, op, restoring, seen, termRequested>>
  BY DEF Locks!Return, Locks!memVars, Locks!prioVars, Locks!waitVars, Locks!guestVars
<1>2. op.kind = "Idle" /\ ~Passing /\ restoring = None
  BY DEF Locks!Return, Locks!Unlocked, Locks!Idle, Passing
<1>3. /\ pc \in [LockThreads -> {"User", "Locking", "Arbitrate", "Kernel", "Exited", "Finalized"}]
      /\ memOwner \in [Addrs -> LockThreads \cup {None}] /\ memWait \in [Addrs -> {0, 1}]
      /\ want \in [LockThreads -> Addrs \cup {None}] /\ holds \in [LockThreads -> SUBSET Addrs]
      /\ seen \in [LockThreads -> LockThreads \cup {None}] /\ addrKey \in [LockThreads -> Addrs \cup {None}]
      /\ wait \in [LockThreads -> {"None", "Address", "CondVar"}]
      /\ ownerRef \in [LockThreads -> LockThreads \cup {None}] /\ None \notin LockThreads /\ None \notin Addrs
  BY DEF MutexInv, Locks!TypeOK, Locks!NoneAssumption
<1>4. PICK a \in Addrs : a = addrKey[t]
  BY <1>1, <1>2 DEF MutexInv, GuestOK
<1>5. /\ \/ /\ holds' = [holds EXCEPT ![t] = @ \cup {a}] /\ result[t] = "Success"
            /\ want' = [want EXCEPT ![t] = None] /\ pc' = [pc EXCEPT ![t] = "User"]
         \/ /\ holds' = holds
            /\ want' = [want EXCEPT ![t] = None] /\ pc' = [pc EXCEPT ![t] = "User"]
         \/ /\ want' = [want EXCEPT ![t] = a] /\ pc' = [pc EXCEPT ![t] = "Locking"]
            /\ holds' = holds
      /\ ownerRef' = [ownerRef EXCEPT ![t] = None] /\ addrKey' = [addrKey EXCEPT ![t] = None]
      /\ result' = [result EXCEPT ![t] = "Success"]
  BY <1>4 DEF Locks!Return
<1>6. \A u \in LockThreads : u # t => pc'[u] = pc[u] /\ addrKey'[u] = addrKey[u] /\ result'[u] = result[u]
                                /\ want'[u] = want[u]
  BY <1>3, <1>5 DEF MutexInv, Locks!TypeOK
<1>7. pc'[t] # "Kernel" /\ pc'[t] # "Arbitrate" /\ pc'[t] # "Finalized" /\ (pc'[t] = "Locking" => want'[t] \in Addrs)
  BY <1>3, <1>5
<1>8. Locks!TypeOK'
  <2>1. holds' \in [LockThreads -> SUBSET Addrs] /\ want' \in [LockThreads -> Addrs \cup {None}]
    BY <1>3, <1>5
  <2>2. pc' \in [LockThreads -> {"User", "Locking", "Arbitrate", "Kernel", "Exited", "Finalized"}]
    BY <1>3, <1>5
  <2>3. /\ ownerRef' \in [LockThreads -> LockThreads \cup {None}] /\ addrKey' \in [LockThreads -> Addrs \cup {None}]
        /\ result' \in [LockThreads -> Locks!Results]
    BY <1>5 DEF MutexInv, Locks!TypeOK, Locks!Results
  <2>4. QED
    BY <1>1, <2>1, <2>2, <2>3 DEF MutexInv, Locks!TypeOK
<1>9. GuestOK'
  BY <1>1, <1>2, <1>6, <1>7 DEF MutexInv, GuestOK, Passing
<1>10. NodesOK'
  <2>1. \A u \in LockThreads : u # t => addrKey'[u] = addrKey[u]
    BY <1>6
  <2>2. \A o \in LockThreads, b \in Addrs : t \notin ToSet(held[o][b])
    BY <1>1 DEF MutexInv, NodesOK
  <2>3. QED
    BY <1>1, <1>2, <2>1, <2>2 DEF MutexInv, NodesOK, Passing
<1>11. OpOK'
  BY <1>1, <1>2 DEF MutexInv, OpOK, Passing
<1>12. WordOK'
  BY <1>1, <1>2 DEF MutexInv, WordOK, Passing
<1>13. HoldOK'
  <2>1. result[t] = "Success" => memOwner[a] = t
    BY <1>1, <1>2, <1>4 DEF MutexInv, HoldOK
  <2>2. \A u \in LockThreads, b \in Addrs : b \in holds'[u] => b \in holds[u] \/ (u = t /\ b = a /\ result[t] = "Success")
    BY <1>3, <1>5
  <2>3. QED
    BY <1>1, <1>2, <1>6, <1>7, <2>1, <2>2 DEF MutexInv, HoldOK, Passing
<1>14. Locks!WaiterFlagSet' /\ WalkOK'
  BY <1>1, <1>2, NoWalk DEF MutexInv
<1>15. Sorted'
  BY <1>1 DEF MutexInv, Sorted
<1>16. PrioOK'
  <2>1. \A u \in LockThreads : pc'[u] # "Finalized" => pc[u] # "Finalized"
    BY <1>1, <1>6
  <2>2. QED
    BY <1>1, <2>1, SamePriorities DEF MutexInv
<1>17. QED
  BY <1>8, <1>9, <1>10, <1>11, <1>12, <1>13, <1>14, <1>15, <1>16 DEF MutexInv

LEMMA KeptBySetBasePriority ==
    ASSUME Locks!NoneAssumption, Locks!PrioAssumption, MutexInv, NEW t \in LockThreads, NEW p \in Nat, Locks!SetBasePriority(t, p)
    PROVE  MutexInv'
<1>1. /\ base' = [base EXCEPT ![t] = p] /\ restoring' = t /\ restoring = None
      /\ UNCHANGED <<memOwner, memWait, cvFlag, prio, held, mutexTree, wait, addrKey, mutexTimers, ownerRef, result, op, pc, want, seen, holds, termRequested>>
  BY DEF Locks!SetBasePriority, Locks!Unlocked, Locks!memVars, Locks!prioVars, Locks!waitVars, Locks!guestVars
<1>2. Locks!TypeOK'
  BY <1>1 DEF MutexInv, Locks!TypeOK
<1>3. GuestOK'
  BY <1>1 DEF MutexInv, GuestOK, Passing
<1>4. NodesOK'
  BY <1>1, SameNodes DEF MutexInv, Passing
<1>5. OpOK'
  BY <1>1 DEF MutexInv, OpOK, Passing
<1>6. WordOK'
  BY <1>1 DEF MutexInv, WordOK, Passing
<1>7. HoldOK'
  BY <1>1 DEF MutexInv, HoldOK, Passing
<1>8. Locks!WaiterFlagSet' /\ WalkOK'
  <2>1. op.kind # "Signal"
    BY DEF Locks!SetBasePriority, Locks!Unlocked, Locks!Idle
  <2>2. QED
    BY <1>1, <2>1, NoWalk DEF MutexInv
<1>9. Sorted'
  BY <1>1 DEF MutexInv, Sorted
<1>10. PrioOK'
  <2>1. \A u \in LockThreads : u # t => base'[u] = base[u] /\ u # restoring
    BY <1>1, NoThread DEF MutexInv, Locks!TypeOK
  <2>2. QED
    BY <1>1, <2>1 DEF MutexInv, PrioOK
<1>11. QED
  BY <1>2, <1>3, <1>4, <1>5, <1>6, <1>7, <1>8, <1>9, <1>10 DEF MutexInv

LEMMA KeptByRequestTerminate ==
    ASSUME Locks!NoneAssumption, Locks!PrioAssumption, MutexInv, NEW t \in LockThreads, Locks!RequestTerminate(t)
    PROVE  MutexInv'
<1>1. /\ \/ base' = [base EXCEPT ![t] = TermPrio] /\ restoring' = t
         \/ UNCHANGED <<base, restoring>>
      /\ termRequested' = termRequested \cup {t} /\ restoring = None
      /\ op' = [kind |-> "Terminate", thread |-> t, addr |-> None, key |-> None, next |-> None, more |-> 0,
                timeout |-> "Infinite", left |-> 0, it |-> None]
      /\ UNCHANGED <<memOwner, memWait, cvFlag, prio, held, mutexTree, wait, addrKey, mutexTimers, ownerRef, result, pc, want, seen, holds>>
  BY DEF Locks!RequestTerminate, Locks!Unlocked, Locks!Idle, Locks!memVars, Locks!prioVars, Locks!waitVars, Locks!guestVars
<1>2. op.kind = "Idle" /\ ~Passing /\ restoring = None
  BY DEF Locks!RequestTerminate, Locks!Unlocked, Locks!Idle, Passing
<1>3. ~Passing' /\ op'.kind = "Terminate" /\ op'.thread = t
  BY <1>1 DEF Passing
<1>4. Locks!TypeOK'
  <2> base \in [LockThreads -> Nat] /\ restoring \in LockThreads \cup {None} /\ termRequested \subseteq LockThreads
    BY DEF MutexInv, Locks!TypeOK
  <2> TermPrio \in Nat
    BY DEF Locks!PrioAssumption
  <2>1. base' \in [LockThreads -> Nat] /\ restoring' \in LockThreads \cup {None} /\ termRequested' \subseteq LockThreads
    BY <1>1
  <2>2. op' \in [kind : {"Idle", "Unlock", "CvWait", "Signal", "Terminate"},
                  thread : LockThreads \cup {None}, addr : Addrs \cup {None}, key : Keys \cup {None},
                  next : LockThreads \cup {None}, more : {0, 1}, timeout : Locks!Timeouts, left : Int,
                  it : LockThreads \cup {None}]
    BY <1>1 DEF Locks!Timeouts
  <2>3. QED
    BY <1>1, <2>1, <2>2 DEF MutexInv, Locks!TypeOK
<1>5. GuestOK'
  BY <1>1, <1>2, <1>3 DEF MutexInv, GuestOK, Passing
<1>6. NodesOK'
  BY <1>1, <1>2, <1>3, SameNodes DEF MutexInv, Passing
<1>7. OpOK'
  BY <1>3 DEF OpOK
<1>8. WordOK'
  BY <1>1, <1>2, <1>3 DEF MutexInv, WordOK, Passing
<1>9. HoldOK'
  BY <1>1, <1>2, <1>3 DEF MutexInv, HoldOK, Passing
<1>10. Locks!WaiterFlagSet' /\ WalkOK'
  BY <1>1, <1>3, NoWalk DEF MutexInv
<1>11. Sorted'
  BY <1>1, <1>2, <1>3 DEF MutexInv, Sorted
<1>12. PrioOK'
  <2>1. \A u \in LockThreads : u # restoring' => base'[u] = base[u] /\ u # restoring
    BY <1>1, NoThread DEF MutexInv, Locks!TypeOK
  <2>2. QED
    BY <1>1, <2>1 DEF MutexInv, PrioOK
<1>13. QED
  BY <1>4, <1>5, <1>6, <1>7, <1>8, <1>9, <1>10, <1>11, <1>12 DEF MutexInv

LEMMA KeptByExit ==
    ASSUME Locks!NoneAssumption, Locks!PrioAssumption, MutexInv, NEW t \in LockThreads, Locks!Exit(t)
    PROVE  MutexInv'
<1>1. /\ pc[t] \in {"User", "Locking"} /\ pc' = [pc EXCEPT ![t] = "Exited"] /\ want' = [want EXCEPT ![t] = None]
      /\ UNCHANGED <<memOwner, memWait, cvFlag, base, prio, held, mutexTree, wait, addrKey, mutexTimers, ownerRef, result, op, restoring, seen, holds, termRequested>>
  BY DEF Locks!Exit, Locks!memVars, Locks!prioVars, Locks!waitVars, Locks!guestVars
<1>2. op.kind = "Idle" /\ ~Passing /\ restoring = None
  BY DEF Locks!Exit, Locks!Unlocked, Locks!Idle, Passing
<1>3. /\ pc \in [LockThreads -> {"User", "Locking", "Arbitrate", "Kernel", "Exited", "Finalized"}]
      /\ memOwner \in [Addrs -> LockThreads \cup {None}] /\ memWait \in [Addrs -> {0, 1}]
      /\ want \in [LockThreads -> Addrs \cup {None}] /\ holds \in [LockThreads -> SUBSET Addrs]
      /\ seen \in [LockThreads -> LockThreads \cup {None}] /\ addrKey \in [LockThreads -> Addrs \cup {None}]
      /\ wait \in [LockThreads -> {"None", "Address", "CondVar"}]
      /\ ownerRef \in [LockThreads -> LockThreads \cup {None}] /\ None \notin LockThreads /\ None \notin Addrs
  BY DEF MutexInv, Locks!TypeOK, Locks!NoneAssumption
<1>4. Locks!TypeOK'
  BY <1>1, <1>2, <1>3 DEF MutexInv, Locks!TypeOK
<1>5. GuestOK'
  BY <1>1, <1>2, <1>3 DEF MutexInv, GuestOK, Passing
<1>6. NodesOK'
  BY <1>1, <1>2, <1>3, SameNodes DEF MutexInv, Passing
<1>7. OpOK'
  BY <1>1, <1>2, <1>3 DEF MutexInv, OpOK, Passing
<1>8. WordOK'
  BY <1>1, <1>2, <1>3 DEF MutexInv, WordOK, Passing
<1>9. HoldOK'
  BY <1>1, <1>2, <1>3 DEF MutexInv, HoldOK, Passing
<1>10. Locks!WaiterFlagSet' /\ WalkOK'
  BY <1>1, <1>2, NoWalk DEF MutexInv
<1>11. Sorted'
  BY <1>1, <1>2, <1>3 DEF MutexInv, Sorted
<1>12. PrioOK'
  BY <1>1, <1>2, <1>3, SamePriorities DEF MutexInv
<1>13. QED
  BY <1>4, <1>5, <1>6, <1>7, <1>8, <1>9, <1>10, <1>11, <1>12 DEF MutexInv

LEMMA KeptByRestorePriority ==
    ASSUME Locks!NoneAssumption, Locks!PrioAssumption, MutexInv, Locks!RestorePriority
    PROVE  MutexInv'
<1>1. /\ held' \in HeldType /\ restoring' \in LockThreads \cup {None}
      /\ prio' \in [LockThreads -> Nat] /\ mutexTree' \in [Keys -> Seq(LockThreads)]
      /\ \A x \in LockThreads, b \in Addrs : ToSet(held'[x][b]) = ToSet(held[x][b])
      /\ \A x \in LockThreads, b \in Addrs : held'[x][b] # <<>> <=> held[x][b] # <<>>
      /\ \A k \in Keys : ToSet(mutexTree'[k]) = ToSet(mutexTree[k])
      /\ \A k \in Keys : mutexTree'[k] # <<>> <=> mutexTree[k] # <<>>
      /\ \A x \in LockThreads, b \in Addrs : Ordered(held'[x][b], prio')
      /\ \A k \in Keys : Ordered(mutexTree'[k], prio')
      /\ \A u \in LockThreads : pc[u] # "Finalized" /\ u # restoring' =>
            Best(prio'[u], base[u], WaitersOf(held'[u]), prio')
  BY RestoreEffect DEF MutexInv
<1>2. UNCHANGED <<Locks!memVars, base, wait, addrKey, mutexTimers, ownerRef, result, op, Locks!guestVars, termRequested>>
  BY DEF Locks!RestorePriority
<1>3. UNCHANGED <<memOwner, memWait, cvFlag, base, wait, addrKey, mutexTimers, ownerRef, result, op, pc, want, seen, holds, termRequested>>
  BY <1>2 DEF Locks!memVars, Locks!guestVars
<1>4. Locks!TypeOK'
  BY <1>1, <1>3 DEF MutexInv, Locks!TypeOK, HeldType
<1>5. GuestOK'
  BY <1>1, <1>2, <1>3 DEF MutexInv, GuestOK, Passing
<1>6. NodesOK'
  BY <1>1, <1>3 DEF MutexInv, NodesOK, Passing
<1>7. OpOK'
  BY <1>1, <1>3 DEF MutexInv, OpOK, Passing
<1>8. WordOK'
  BY <1>1, <1>3 DEF MutexInv, WordOK, Passing
<1>9. HoldOK'
  BY <1>1, <1>2, <1>3 DEF MutexInv, HoldOK, Passing
<1>10. Locks!WaiterFlagSet' /\ WalkOK'
  <2>1. Locks!WaiterFlagSet'
    BY <1>1, <1>3, FlagKept DEF MutexInv
  <2>2. CASE op.kind = "Signal"
    BY <2>1, <2>2, WalkRestored DEF MutexInv
  <2>3. CASE op.kind # "Signal"
    BY <1>3, <2>1, <2>3 DEF WalkOK
  <2>4. QED
    BY <2>2, <2>3
<1>11. Sorted'
  BY <1>1, <1>2, <1>3 DEF MutexInv, Sorted
<1>12. PrioOK'
  BY <1>1, <1>3 DEF PrioOK
<1>13. QED
  BY <1>4, <1>5, <1>6, <1>7, <1>8, <1>9, <1>10, <1>11, <1>12 DEF MutexInv

\* Kernel operations.
LEMMA KeptBySignalToAddressWrite ==
    ASSUME Locks!NoneAssumption, Locks!PrioAssumption, MutexInv, Locks!SignalToAddressWrite
    PROVE  MutexInv'
<1>1. /\ op.kind = "Unlock" /\ restoring = None
      /\ memOwner' = [memOwner EXCEPT ![op.addr] = op.next]
      /\ memWait' = [memWait EXCEPT ![op.addr] = op.more]
      /\ wait' = [t \in LockThreads |-> IF t = op.next THEN "None" ELSE wait[t]]
      /\ result' = [t \in LockThreads |-> IF t = op.next THEN "Success" ELSE result[t]]
      /\ mutexTimers' = mutexTimers \ {op.next} /\ pc' = [pc EXCEPT ![op.thread] = "User"]
      /\ op' = Locks!Idle /\ UNCHANGED <<cvFlag, base, prio, held, mutexTree, addrKey, ownerRef, restoring, want, seen, holds, termRequested>>
  BY DEF Locks!SignalToAddressWrite, Locks!EndWait, Locks!memVars, Locks!prioVars, Locks!waitVars, Locks!guestVars
<1>2. PICK a \in Addrs, t \in LockThreads, n \in LockThreads \cup {None} : a = op.addr /\ t = op.thread /\ n = op.next
  BY <1>1 DEF MutexInv, OpOK, Locks!TypeOK, Passing
<1>3. /\ pc \in [LockThreads -> {"User", "Locking", "Arbitrate", "Kernel", "Exited", "Finalized"}]
      /\ memOwner \in [Addrs -> LockThreads \cup {None}] /\ memWait \in [Addrs -> {0, 1}]
      /\ want \in [LockThreads -> Addrs \cup {None}] /\ holds \in [LockThreads -> SUBSET Addrs]
      /\ seen \in [LockThreads -> LockThreads \cup {None}] /\ addrKey \in [LockThreads -> Addrs \cup {None}]
      /\ wait \in [LockThreads -> {"None", "Address", "CondVar"}]
      /\ ownerRef \in [LockThreads -> LockThreads \cup {None}] /\ None \notin LockThreads /\ None \notin Addrs
  BY DEF MutexInv, Locks!TypeOK, Locks!NoneAssumption
<1>4. /\ wait[t] = "None" /\ pc[t] = "Kernel" /\ a \notin holds[t] /\ memOwner[a] = t
      /\ n \in LockThreads => /\ wait[n] # "None" /\ addrKey[n] = a /\ n # t /\ pc[n] = "Kernel"
                          /\ \A o \in LockThreads, b \in Addrs : n \notin ToSet(held[o][b])
                          /\ \A k \in Keys : n \notin ToSet(mutexTree[k])
      /\ \A o \in LockThreads : held[o][a] # <<>> => o = n /\ op.more = 1
  BY <1>1, <1>2 DEF MutexInv, OpOK, GuestOK, Passing
<1>5. /\ Passing /\ ~Passing' /\ op'.kind = "Idle"
  BY <1>1 DEF Passing, Locks!Idle
<1>6. /\ \A u \in LockThreads : pc'[u] = IF u = t THEN "User" ELSE pc[u]
      /\ \A u \in LockThreads : wait'[u] = IF u = n THEN "None" ELSE wait[u]
      /\ \A u \in LockThreads : result'[u] = IF u = n THEN "Success" ELSE result[u]
      /\ \A b \in Addrs : memOwner'[b] = IF b = a THEN n ELSE memOwner[b]
      /\ \A b \in Addrs : memWait'[b] = IF b = a THEN op.more ELSE memWait[b]
  BY <1>1, <1>2, <1>3
<1>7. UNCHANGED <<cvFlag, base, prio, held, mutexTree, addrKey, ownerRef, restoring, want, seen, holds, termRequested>>
  BY <1>1
<1>8. Locks!TypeOK'
  <2>1. wait' \in [LockThreads -> {"None", "Address", "CondVar"}] /\ result' \in [LockThreads -> Locks!Results]
    BY <1>1 DEF MutexInv, Locks!TypeOK, Locks!Results
  <2>2. pc' \in [LockThreads -> {"User", "Locking", "Arbitrate", "Kernel", "Exited", "Finalized"}]
    BY <1>1, <1>3
  <2>3. memOwner' \in [Addrs -> LockThreads \cup {None}] /\ memWait' \in [Addrs -> {0, 1}]
    BY <1>1, <1>2, <1>3 DEF MutexInv, Locks!TypeOK
  <2>4. op' \in [kind : {"Idle", "Unlock", "CvWait", "Signal", "Terminate"},
                  thread : LockThreads \cup {None}, addr : Addrs \cup {None}, key : Keys \cup {None},
                  next : LockThreads \cup {None}, more : {0, 1}, timeout : Locks!Timeouts, left : Int,
                  it : LockThreads \cup {None}]
    BY <1>1 DEF Locks!Idle, Locks!Timeouts
  <2>5. mutexTimers' \subseteq LockThreads
    BY <1>1 DEF MutexInv, Locks!TypeOK
  <2>6. QED
    BY <1>7, <2>1, <2>2, <2>3, <2>4, <2>5 DEF MutexInv, Locks!TypeOK
<1>9. GuestOK'
  BY <1>2, <1>4, <1>5, <1>6, <1>7 DEF MutexInv, GuestOK
<1>10. NodesOK'
  BY <1>2, <1>4, <1>5, <1>6, <1>7 DEF MutexInv, NodesOK
<1>11. OpOK'
  BY <1>5 DEF OpOK
<1>12. WordOK'
  BY <1>2, <1>3, <1>4, <1>5, <1>6, <1>7 DEF MutexInv, WordOK
<1>13. HoldOK'
  <2>1. \A u \in LockThreads, b \in Addrs : b \in holds[u] => memOwner[b] = u /\ b # a
    BY <1>4 DEF MutexInv, HoldOK
  <2>2. \A u \in LockThreads : pc[u] = "Kernel" /\ u # t => addrKey[u] \in Addrs
    BY <1>2 DEF MutexInv, GuestOK
  <2>3. ASSUME NEW u \in LockThreads, pc'[u] = "Kernel", wait'[u] = "None", result'[u] = "Success"
        PROVE  memOwner'[addrKey[u]] = u
    <3>1. u # t /\ pc[u] = "Kernel" /\ addrKey[u] \in Addrs
      BY <1>6, <2>2, <2>3
    <3>2. CASE u = n
      BY <1>4, <1>6, <3>2
    <3>3. CASE u # n
      <4>1. memOwner[addrKey[u]] = u
        BY <1>2, <1>6, <2>3, <3>1, <3>3 DEF MutexInv, HoldOK
      <4>2. QED
        BY <1>4, <1>6, <3>1, <4>1
    <3>4. QED
      BY <3>2, <3>3
  <2>4. QED
    BY <1>5, <1>6, <1>7, <2>1, <2>3 DEF HoldOK
<1>14. Locks!WaiterFlagSet' /\ WalkOK'
  <2>1. \A b \in Addrs : memOwner[b] # t => memOwner'[b] = memOwner[b]
    BY <1>4, <1>6
  <2>2. \A k \in Keys : \A u \in ToSet(mutexTree[k]) :
           (\E b \in Addrs : memOwner[b] = u) => \E b \in Addrs : memOwner'[b] = u
    BY <1>4, <2>1, TreeThreads DEF MutexInv
  <2>3. Locks!WaiterFlagSet'
    BY <1>7, <2>2, FlagKept DEF MutexInv
  <2>4. QED
    BY <1>5, <2>3 DEF WalkOK
<1>15. Sorted'
  BY <1>7 DEF MutexInv, Sorted
<1>16. PrioOK'
  <2>1. \A u \in LockThreads : pc'[u] # "Finalized" => pc[u] # "Finalized"
    BY <1>4, <1>6
  <2>2. QED
    BY <1>7, <2>1, SamePriorities DEF MutexInv
<1>17. QED
  BY <1>8, <1>9, <1>10, <1>11, <1>12, <1>13, <1>14, <1>15, <1>16 DEF MutexInv

\* The system calls.
LEMMA KeptByWaitForAddress ==
    ASSUME Locks!NoneAssumption, Locks!PrioAssumption, MutexInv, NEW t \in LockThreads, Locks!WaitForAddress(t)
    PROVE  MutexInv'
<1>1. /\ pc[t] = "Arbitrate" /\ wait[t] = "None" /\ want[t] \in Addrs /\ seen[t] \in LockThreads
      /\ seen' = [seen EXCEPT ![t] = None]
      /\ UNCHANGED <<memOwner, memWait, cvFlag, base, prio, mutexTree, mutexTimers, result, op, want, holds, termRequested>>
  BY DEF Locks!WaitForAddress, MutexInv, GuestOK, Locks!memVars, Locks!prioVars, Locks!waitVars, Locks!guestVars
<1>2. op.kind = "Idle" /\ ~Passing /\ restoring = None
  BY DEF Locks!WaitForAddress, Locks!Unlocked, Locks!Idle, Passing
<1>3. /\ pc \in [LockThreads -> {"User", "Locking", "Arbitrate", "Kernel", "Exited", "Finalized"}]
      /\ memOwner \in [Addrs -> LockThreads \cup {None}] /\ memWait \in [Addrs -> {0, 1}]
      /\ want \in [LockThreads -> Addrs \cup {None}] /\ holds \in [LockThreads -> SUBSET Addrs]
      /\ seen \in [LockThreads -> LockThreads \cup {None}] /\ addrKey \in [LockThreads -> Addrs \cup {None}]
      /\ wait \in [LockThreads -> {"None", "Address", "CondVar"}]
      /\ ownerRef \in [LockThreads -> LockThreads \cup {None}] /\ None \notin LockThreads /\ None \notin Addrs
  BY DEF MutexInv, Locks!TypeOK, Locks!NoneAssumption
<1>4. PICK a \in Addrs, o \in LockThreads : a = want[t] /\ o = seen[t]
  BY <1>1
<1>5. \A x \in LockThreads, b \in Addrs : t \notin ToSet(held[x][b])
  BY <1>1 DEF MutexInv, NodesOK
<1>6. \/ /\ addrKey' = [addrKey EXCEPT ![t] = a] /\ wait' = [wait EXCEPT ![t] = "Address"]
         /\ Locks!AddWaiter(o, t, a) /\ ownerRef' = [ownerRef EXCEPT ![t] = o]
         /\ memOwner[a] = o /\ memWait[a] = 1 /\ pc' = [pc EXCEPT ![t] = "Kernel"]
      \/ /\ pc' = [pc EXCEPT ![t] = "Locking"] /\ UNCHANGED <<addrKey, held, restoring, wait, ownerRef>>
  BY <1>4 DEF Locks!WaitForAddress
<1>7. \/ /\ UNCHANGED <<held, restoring, wait, addrKey>> /\ pc' = [pc EXCEPT ![t] = "Locking"]
      \/ /\ memOwner[a] = o /\ memWait[a] = 1 /\ pc' = [pc EXCEPT ![t] = "Kernel"]
         /\ wait' = [wait EXCEPT ![t] = "Address"] /\ addrKey' = [addrKey EXCEPT ![t] = a]
         /\ held' \in HeldType /\ restoring' \in LockThreads \cup {None}
         /\ \A x \in LockThreads, b \in Addrs : \A u : u \in ToSet(held'[x][b]) <=>
               u \in ToSet(held[x][b]) \/ (u = t /\ x = o /\ b = a)
         /\ \A x \in LockThreads, b \in Addrs : held'[x][b] # <<>> <=> held[x][b] # <<>> \/ (x = o /\ b = a)
         /\ \A x \in LockThreads, b \in Addrs : Ordered(held'[x][b], prio)
         /\ StillBest(held', restoring')
  <2>1. Locks!TypeOK /\ Sorted /\ PrioOK /\ restoring = None /\ t \notin ToSet(held[o][a])
    BY <1>2, <1>5 DEF MutexInv
  <2>2. CASE Locks!AddWaiter(o, t, a) /\ pc' # [pc EXCEPT ![t] = "Locking"]
    <3>1. Added(o, t, a)
      BY <2>1, <2>2, AddEffect
    <3>2. QED
      BY <1>6, <2>2, <3>1 DEF Added
  <2>3. CASE ~(Locks!AddWaiter(o, t, a) /\ pc' # [pc EXCEPT ![t] = "Locking"])
    BY <1>3, <1>6, <2>3
  <2>4. QED
    BY <2>2, <2>3
<1>8. /\ \A u \in LockThreads : u # t => pc'[u] = pc[u] /\ wait'[u] = wait[u] /\ addrKey'[u] = addrKey[u]
                                    /\ seen'[u] = seen[u]
      /\ \A u \in LockThreads : pc'[u] # "Finalized" => pc[u] # "Finalized"
  BY <1>1, <1>3, <1>6
<1>9. /\ pc'[t] \in {"Kernel", "Locking"}
      /\ pc'[t] = "Kernel" => wait'[t] = "Address" /\ addrKey'[t] = a
      /\ wait'[t] # "None" => pc'[t] = "Kernel" /\ addrKey'[t] = a
  BY <1>1, <1>3, <1>6
<1>10. Locks!TypeOK'
  <2>1. /\ wait' \in [LockThreads -> {"None", "Address", "CondVar"}] /\ addrKey' \in [LockThreads -> Addrs \cup {None}]
        /\ ownerRef' \in [LockThreads -> LockThreads \cup {None}] /\ seen' \in [LockThreads -> LockThreads \cup {None}]
    BY <1>1, <1>3, <1>6
  <2>2. pc' \in [LockThreads -> {"User", "Locking", "Arbitrate", "Kernel", "Exited", "Finalized"}]
    BY <1>3, <1>6
  <2>3. held' \in HeldType /\ restoring' \in LockThreads \cup {None}
    BY <1>7 DEF MutexInv, Locks!TypeOK, HeldType
  <2>4. QED
    BY <1>1, <2>1, <2>2, <2>3 DEF MutexInv, Locks!TypeOK, HeldType
<1>11. GuestOK'
  BY <1>1, <1>2, <1>8, <1>9 DEF MutexInv, GuestOK, Passing
<1>12. NodesOK'
  <2>1. CASE UNCHANGED <<held, restoring, wait, addrKey>>
    BY <1>1, <2>1, SameNodes DEF MutexInv, Passing
  <2>2. CASE ~UNCHANGED <<held, restoring, wait, addrKey>>
    <3>1. \A x \in LockThreads, b \in Addrs : \A u : u \in ToSet(held'[x][b]) <=>
            u \in ToSet(held[x][b]) \/ (u = t /\ x = o /\ b = a)
      BY <1>7, <2>2
    <3>2. /\ wait'[t] = "Address" /\ addrKey'[t] = a
          /\ \A k \in Keys : t \notin ToSet(mutexTree[k])
      BY <1>1, <1>3, <1>7, <2>2 DEF MutexInv, Locks!TypeOK, NodesOK
    <3>3. \A u \in LockThreads : u # t => wait'[u] = wait[u] /\ addrKey'[u] = addrKey[u]
      BY <1>8
    <3>4. mutexTree' = mutexTree /\ op' = op
      BY <1>1
    <3>5. ASSUME NEW u \in LockThreads, u # t
          PROVE  /\ wait'[u] = wait[u] /\ addrKey'[u] = addrKey[u]
                 /\ \A x \in LockThreads, b \in Addrs : u \in ToSet(held'[x][b]) <=> u \in ToSet(held[x][b])
      BY <3>1, <3>3, <3>5
    <3>6. \A x \in LockThreads, b \in Addrs : t \in ToSet(held'[x][b]) <=> x = o /\ b = a
      BY <1>5, <3>1
    <3>7. QED
      BY <1>2, <3>2, <3>4, <3>5, <3>6 DEF MutexInv, NodesOK, Passing
  <2>3. QED
    BY <2>1, <2>2
<1>13. OpOK'
  BY <1>1, <1>2 DEF MutexInv, OpOK, Passing
<1>14. WordOK'
  BY <1>1, <1>2, <1>7 DEF MutexInv, WordOK, Passing
<1>15. HoldOK'
  BY <1>1, <1>2, <1>8, <1>9 DEF MutexInv, HoldOK, Passing
<1>16. Locks!WaiterFlagSet' /\ WalkOK'
  BY <1>1, <1>2, NoWalk DEF MutexInv
<1>17. Sorted'
  BY <1>1, <1>7 DEF MutexInv, Sorted
<1>18. PrioOK'
  <2>1. CASE UNCHANGED <<held, restoring, wait, addrKey>>
    BY <1>1, <1>8, <2>1, SamePriorities DEF MutexInv
  <2>2. CASE ~UNCHANGED <<held, restoring, wait, addrKey>>
    BY <1>1, <1>7, <1>8, <2>2 DEF PrioOK, StillBest
  <2>3. QED
    BY <2>1, <2>2
<1>19. QED
  BY <1>10, <1>11, <1>12, <1>13, <1>14, <1>15, <1>16, <1>17, <1>18 DEF MutexInv

\* The first half of svcArbitrateUnlock and of svcWaitProcessWideKeyAtomic.
LEMMA KeptByPassingOn ==
    ASSUME Locks!NoneAssumption, Locks!PrioAssumption, MutexInv, NEW t \in LockThreads, NEW a \in Addrs, pc[t] = "User", a \in holds[t], Locks!Unlocked,
           Locks!RemoveWaiterByKey(t, a),
           op' \in [kind : {"Idle", "Unlock", "CvWait", "Signal", "Terminate"},
                   thread : LockThreads \cup {None}, addr : Addrs \cup {None}, key : Keys \cup {None},
                   next : LockThreads \cup {None}, more : {0, 1}, timeout : Locks!Timeouts, left : Int,
                   it : LockThreads \cup {None}],
           op'.kind \in {"Unlock", "CvWait"}, op'.thread = t, op'.addr = a,
           op'.next = Locks!NextOwner(t, a), op'.more = Locks!HasWaiters(t, a),
           op'.kind = "CvWait" => op'.key \in Keys,
           holds' = [holds EXCEPT ![t] = @ \ {a}], pc' = [pc EXCEPT ![t] = "Kernel"],
           UNCHANGED <<memOwner, memWait, cvFlag, base, prio, mutexTree, wait, addrKey, mutexTimers, ownerRef, result, want, seen, termRequested>>
    PROVE  MutexInv'
<1>1. op.kind = "Idle" /\ ~Passing /\ restoring = None
  BY DEF Locks!Unlocked, Locks!Idle, Passing
<1>2. /\ pc \in [LockThreads -> {"User", "Locking", "Arbitrate", "Kernel", "Exited", "Finalized"}]
      /\ memOwner \in [Addrs -> LockThreads \cup {None}] /\ memWait \in [Addrs -> {0, 1}]
      /\ want \in [LockThreads -> Addrs \cup {None}] /\ holds \in [LockThreads -> SUBSET Addrs]
      /\ seen \in [LockThreads -> LockThreads \cup {None}] /\ addrKey \in [LockThreads -> Addrs \cup {None}]
      /\ wait \in [LockThreads -> {"None", "Address", "CondVar"}]
      /\ ownerRef \in [LockThreads -> LockThreads \cup {None}] /\ None \notin LockThreads /\ None \notin Addrs
  BY DEF MutexInv, Locks!TypeOK, Locks!NoneAssumption
<1>3. Passing'
  BY DEF Passing
<1>4. /\ memOwner[a] = t /\ wait[t] = "None"
      /\ \A x \in LockThreads, b \in Addrs : t \notin ToSet(held[x][b])
  BY <1>2 DEF MutexInv, HoldOK, GuestOK, NodesOK
<1>5. \/ /\ held[t][a] = <<>> /\ UNCHANGED <<held, restoring>> /\ Locks!NextOwner(t, a) = None
      \/ /\ held' \in HeldType /\ restoring' \in LockThreads \cup {None}
         /\ Locks!NextOwner(t, a) \in LockThreads /\ Locks!NextOwner(t, a) \in ToSet(held[t][a])
         /\ \A x \in LockThreads, b \in Addrs : \A u : u \in ToSet(held'[x][b]) <=>
               IF b # a THEN u \in ToSet(held[x][b])
               ELSE x = Locks!NextOwner(t, a) /\ u # x /\ u \in ToSet(held[t][a])
         /\ \A x \in LockThreads : held'[x][a] # <<>> => x = Locks!NextOwner(t, a) /\ Locks!HasWaiters(t, a) = 1
         /\ \A x \in LockThreads, b \in Addrs : b # a => held'[x][b] = held[x][b]
         /\ \A x \in LockThreads, b \in Addrs : Ordered(held'[x][b], prio)
         /\ StillBest(held', restoring')
  <2>1. CASE held[t][a] = <<>>
    BY <2>1 DEF Locks!RemoveWaiterByKey, Locks!NextOwner
  <2>2. CASE held[t][a] # <<>>
    <3>1. t \notin ToSet(held[t][a]) /\ memOwner[a] = t /\ restoring = None /\ ~Passing
      BY <1>1, <1>4
    <3>2. Locks!TypeOK /\ Sorted /\ PrioOK /\ NodesOK /\ WordOK
      BY DEF MutexInv
    <3>3. PassedOn(t, a)
      BY <2>2, <3>1, <3>2, ByKeyEffect
    <3>4. QED
      BY <3>3 DEF PassedOn
  <2>3. QED
    BY <2>1, <2>2
<1>6. \A x \in LockThreads : held'[x][a] # <<>> => x = Locks!NextOwner(t, a) /\ Locks!HasWaiters(t, a) = 1
  BY <1>1, <1>4, <1>5 DEF MutexInv, WordOK
<1>7. \A u \in LockThreads : pc'[u] = IF u = t THEN "Kernel" ELSE pc[u]
  BY <1>2
<1>8. Locks!TypeOK'
  <2>1. /\ held' \in HeldType /\ restoring' \in LockThreads \cup {None}
    BY <1>5 DEF MutexInv, Locks!TypeOK, HeldType
  <2>2. holds' \in [LockThreads -> SUBSET Addrs] /\
        pc' \in [LockThreads -> {"User", "Locking", "Arbitrate", "Kernel", "Exited", "Finalized"}]
    BY <1>2
  <2>3. QED
    BY <2>1, <2>2 DEF MutexInv, Locks!TypeOK, HeldType
<1>9. GuestOK'
  BY <1>1, <1>3, <1>4, <1>7 DEF MutexInv, GuestOK
<1>10. NodesOK'
  <2>1. CASE held' = held /\ Locks!NextOwner(t, a) = None
    BY <1>1, <2>1, SameNodes DEF MutexInv
  <2>2. CASE ~(held' = held /\ Locks!NextOwner(t, a) = None)
    <3>1. PICK n \in LockThreads : n = Locks!NextOwner(t, a)
      BY <1>5, <2>2
    <3>2. /\ n \in ToSet(held[t][a]) /\ op'.next = n
          /\ \A x \in LockThreads, b \in Addrs : \A u : u \in ToSet(held'[x][b]) <=>
                IF b # a THEN u \in ToSet(held[x][b]) ELSE x = n /\ u # x /\ u \in ToSet(held[t][a])
      BY <1>5, <2>2, <3>1
    <3>3. \A x \in LockThreads : x # t => held[x][a] = <<>>
      BY <1>1, <1>4 DEF MutexInv, WordOK
    <3>4. \A x \in LockThreads : \A u : u \in ToSet(held[x][a]) => x = t
      <4>1. ToSet(<<>>) = {}
        BY DEF ToSet
      <4>2. QED
        BY <3>3, <4>1
    <3>5. UNCHANGED <<mutexTree, wait, addrKey>>
      OBVIOUS
    <3>6. ASSUME NEW u \in LockThreads, NEW x \in LockThreads, NEW b \in Addrs, u \in ToSet(held'[x][b])
          PROVE  /\ \E y \in LockThreads : u \in ToSet(held[y][b])
                 /\ b = a => x = n
      BY <3>2, <3>6
    <3>7. ASSUME NEW u \in LockThreads
          PROVE  /\ \A x, y \in LockThreads, b, c \in Addrs :
                       u \in ToSet(held'[x][b]) /\ u \in ToSet(held'[y][c]) => x = y /\ b = c
                 /\ \A x \in LockThreads, b \in Addrs : u \in ToSet(held'[x][b]) =>
                       addrKey[u] = b /\ wait[u] # "None" /\ \A k \in Keys : u \notin ToSet(mutexTree[k])
      <4>1. \A x \in LockThreads, b \in Addrs : u \in ToSet(held'[x][b]) =>
              addrKey[u] = b /\ wait[u] # "None" /\ \A k \in Keys : u \notin ToSet(mutexTree[k])
        BY <3>6 DEF MutexInv, NodesOK
      <4>2. ASSUME NEW x \in LockThreads, NEW y \in LockThreads, NEW b \in Addrs, NEW c \in Addrs,
                   u \in ToSet(held'[x][b]), u \in ToSet(held'[y][c])
            PROVE  x = y /\ b = c
        <5>1. b = c
          BY <4>1, <4>2
        <5>2. CASE b = a
          BY <3>6, <4>2, <5>1, <5>2
        <5>3. CASE b # a
          <6>1. u \in ToSet(held[x][b]) /\ u \in ToSet(held[y][b])
            BY <3>2, <4>2, <5>1, <5>3
          <6>2. QED
            BY <5>1, <6>1 DEF MutexInv, NodesOK
        <5>4. QED
          BY <5>2, <5>3
      <4>3. QED
        BY <4>1, <4>2
    <3>8. ASSUME NEW u \in LockThreads, wait[u] # "None", u # n
          PROVE  \/ \E x \in LockThreads, b \in Addrs : u \in ToSet(held'[x][b])
                 \/ \E k \in Keys : u \in ToSet(mutexTree[k])
      <4>1. CASE \E k \in Keys : u \in ToSet(mutexTree[k])
        BY <4>1
      <4>2. CASE ~\E k \in Keys : u \in ToSet(mutexTree[k])
        <5>1. PICK x \in LockThreads, b \in Addrs : u \in ToSet(held[x][b])
          BY <1>1, <3>8, <4>2 DEF MutexInv, NodesOK
        <5>2. CASE b # a
          BY <3>2, <5>1, <5>2
        <5>3. CASE b = a
          <6>1. u \in ToSet(held'[n][a])
            BY <3>2, <3>4, <3>8, <5>1, <5>3
          <6>2. QED
            BY <6>1
        <5>4. QED
          BY <5>2, <5>3
      <4>3. QED
        BY <4>1, <4>2
    <3>9. \A u \in LockThreads : \A k \in Keys : u \in ToSet(mutexTree[k]) =>
            wait[u] = "CondVar" /\ \A l \in Keys : u \in ToSet(mutexTree[l]) => k = l
      BY DEF MutexInv, NodesOK
    <3>10. \A u \in LockThreads : ~(Passing' /\ u = op'.next) => u # n
      BY <1>3, <3>2
    <3>11. QED
      BY <3>5, <3>7, <3>8, <3>9, <3>10 DEF NodesOK
  <2>3. QED
    BY <2>1, <2>2
<1>11. OpOK'
  <2>1. Locks!NextOwner(t, a) \in LockThreads => Locks!NextOwner(t, a) \in ToSet(held[t][a]) /\ held[t][a] # <<>>
    <3>1. Locks!NextOwner(t, a) \in LockThreads => Locks!NextOwner(t, a) \in ToSet(held[t][a])
      BY <1>2, <1>5
    <3>2. ToSet(<<>>) = {}
      BY DEF ToSet
    <3>3. QED
      BY <3>1, <3>2
  <2>2. Locks!NextOwner(t, a) \in LockThreads =>
          /\ wait[Locks!NextOwner(t, a)] # "None" /\ addrKey[Locks!NextOwner(t, a)] = a
          /\ \A x \in LockThreads, b \in Addrs : Locks!NextOwner(t, a) \notin ToSet(held'[x][b])
          /\ \A k \in Keys : Locks!NextOwner(t, a) \notin ToSet(mutexTree[k])
    <3> SUFFICES ASSUME Locks!NextOwner(t, a) \in LockThreads
                 PROVE  /\ wait[Locks!NextOwner(t, a)] # "None" /\ addrKey[Locks!NextOwner(t, a)] = a
                        /\ \A x \in LockThreads, b \in Addrs : Locks!NextOwner(t, a) \notin ToSet(held'[x][b])
                        /\ \A k \in Keys : Locks!NextOwner(t, a) \notin ToSet(mutexTree[k])
      OBVIOUS
    <3>1. PICK n \in LockThreads : n = Locks!NextOwner(t, a)
      OBVIOUS
    <3>2. /\ n \in ToSet(held[t][a])
          /\ \A x \in LockThreads, b \in Addrs : \A u : u \in ToSet(held'[x][b]) <=>
                IF b # a THEN u \in ToSet(held[x][b]) ELSE x = n /\ u # x /\ u \in ToSet(held[t][a])
      BY <1>2, <1>5, <3>1
    <3>3. /\ wait[n] # "None" /\ addrKey[n] = a /\ \A k \in Keys : n \notin ToSet(mutexTree[k])
          /\ \A x \in LockThreads, b \in Addrs : n \in ToSet(held[x][b]) => b = a
      BY <3>2 DEF MutexInv, NodesOK
    <3>4. \A x \in LockThreads, b \in Addrs : n \notin ToSet(held'[x][b])
      BY <3>2, <3>3
    <3>5. QED
      BY <3>1, <3>3, <3>4
  <2>3. a \notin holds'[t] /\ wait'[t] = "None" /\ pc'[t] = "Kernel" /\ memOwner'[a] = t
    BY <1>2, <1>4
  <2>4. op'.kind # "Signal" /\ op'.kind # "Terminate"
    OBVIOUS
  <2>5. wait' = wait /\ addrKey' = addrKey /\ mutexTree' = mutexTree
    OBVIOUS
  <2>6. QED
    BY <1>3, <1>6, <2>2, <2>3, <2>4, <2>5 DEF OpOK
<1>12. WordOK'
  <2>1. \A x \in LockThreads, b \in Addrs : b # a => held'[x][b] = held[x][b]
    BY <1>5
  <2>2. QED
    BY <1>1, <1>3, <2>1 DEF MutexInv, WordOK
<1>13. HoldOK'
  <2>1. \A u \in LockThreads, b \in Addrs : b \in holds'[u] => b \in holds[u]
    BY <1>2
  <2>2. QED
    BY <1>1, <1>3, <1>7, <2>1 DEF MutexInv, HoldOK
<1>14. Locks!WaiterFlagSet' /\ WalkOK'
  BY NoWalk DEF MutexInv
<1>15. Sorted'
  BY <1>5 DEF MutexInv, Sorted
<1>16. PrioOK'
  <2>1. \A u \in LockThreads : pc'[u] # "Finalized" => pc[u] # "Finalized"
    BY <1>7
  <2>2. CASE held' = held /\ restoring' = restoring
    BY <2>1, <2>2, SamePriorities DEF MutexInv
  <2>3. CASE ~(held' = held /\ restoring' = restoring)
    BY <1>5, <2>1, <2>3 DEF PrioOK, StillBest
  <2>4. QED
    BY <2>2, <2>3
<1>17. QED
  BY <1>8, <1>9, <1>10, <1>11, <1>12, <1>13, <1>14, <1>15, <1>16 DEF MutexInv

LEMMA NextOwnerType ==
    ASSUME Locks!TypeOK, NEW t \in LockThreads, NEW a \in Addrs
    PROVE  Locks!NextOwner(t, a) \in LockThreads \cup {None} /\ Locks!HasWaiters(t, a) \in {0, 1}
<1>1. PICK s \in Seq(LockThreads) : s = held[t][a]
  <2>1. held \in HeldType
    BY DEF Locks!TypeOK, HeldType
  <2>2. QED
    BY <2>1 DEF HeldType
<1>2. s # <<>> => Head(s) \in LockThreads
  OBVIOUS
<1>3. QED
  BY <1>1, <1>2 DEF Locks!NextOwner, Locks!HasWaiters

LEMMA KeptBySignalToAddress ==
    ASSUME Locks!NoneAssumption, Locks!PrioAssumption, MutexInv, NEW t \in LockThreads, NEW a \in Addrs, Locks!SignalToAddress(t, a)
    PROVE  MutexInv'
<1>1. /\ pc[t] = "User" /\ a \in holds[t] /\ Locks!Unlocked /\ Locks!RemoveWaiterByKey(t, a)
      /\ op' = [kind |-> "Unlock", thread |-> t, addr |-> a, key |-> None, next |-> Locks!NextOwner(t, a),
                more |-> Locks!HasWaiters(t, a), timeout |-> "Infinite", left |-> 0, it |-> None]
      /\ holds' = [holds EXCEPT ![t] = @ \ {a}] /\ pc' = [pc EXCEPT ![t] = "Kernel"]
      /\ UNCHANGED <<memOwner, memWait, cvFlag, base, prio, mutexTree, wait, addrKey, mutexTimers, ownerRef, result, want, seen, termRequested>>
  BY DEF Locks!SignalToAddress, Locks!Idle, Locks!memVars, Locks!prioVars, Locks!waitVars, Locks!guestVars
<1>2. Locks!NextOwner(t, a) \in LockThreads \cup {None} /\ Locks!HasWaiters(t, a) \in {0, 1}
  BY NextOwnerType DEF MutexInv
<1>3. op' \in [kind : {"Idle", "Unlock", "CvWait", "Signal", "Terminate"},
                thread : LockThreads \cup {None}, addr : Addrs \cup {None}, key : Keys \cup {None},
                next : LockThreads \cup {None}, more : {0, 1}, timeout : Locks!Timeouts, left : Int,
                it : LockThreads \cup {None}]
  BY <1>1, <1>2 DEF Locks!Timeouts
<1>4. /\ op'.kind \in {"Unlock", "CvWait"} /\ op'.thread = t /\ op'.addr = a
      /\ op'.next = Locks!NextOwner(t, a) /\ op'.more = Locks!HasWaiters(t, a)
      /\ op'.kind = "CvWait" => op'.key \in Keys
  BY <1>1
<1>5. QED
  BY <1>1, <1>3, <1>4, KeptByPassingOn

LEMMA KeptByWait ==
    ASSUME Locks!NoneAssumption, Locks!PrioAssumption, MutexInv, NEW t \in LockThreads, NEW a \in Addrs,
           NEW k \in Keys, NEW timeout \in Locks!Timeouts, Locks!Wait(t, a, k, timeout)
    PROVE  MutexInv'
<1>1. /\ pc[t] = "User" /\ a \in holds[t] /\ Locks!Unlocked /\ Locks!RemoveWaiterByKey(t, a)
      /\ op' = [kind |-> "CvWait", thread |-> t, addr |-> a, key |-> k, next |-> Locks!NextOwner(t, a),
                more |-> Locks!HasWaiters(t, a), timeout |-> timeout, left |-> 0, it |-> None]
      /\ holds' = [holds EXCEPT ![t] = @ \ {a}] /\ pc' = [pc EXCEPT ![t] = "Kernel"]
      /\ UNCHANGED <<memOwner, memWait, cvFlag, base, prio, mutexTree, wait, addrKey, mutexTimers, ownerRef, result, want, seen, termRequested>>
  BY DEF Locks!Wait, Locks!Idle, Locks!memVars, Locks!prioVars, Locks!waitVars, Locks!guestVars
<1>2. Locks!NextOwner(t, a) \in LockThreads \cup {None} /\ Locks!HasWaiters(t, a) \in {0, 1}
  BY NextOwnerType DEF MutexInv
<1>3. op' \in [kind : {"Idle", "Unlock", "CvWait", "Signal", "Terminate"},
                thread : LockThreads \cup {None}, addr : Addrs \cup {None}, key : Keys \cup {None},
                next : LockThreads \cup {None}, more : {0, 1}, timeout : Locks!Timeouts, left : Int,
                it : LockThreads \cup {None}]
  BY <1>1, <1>2 DEF Locks!Timeouts
<1>4. /\ op'.kind \in {"Unlock", "CvWait"} /\ op'.thread = t /\ op'.addr = a
      /\ op'.next = Locks!NextOwner(t, a) /\ op'.more = Locks!HasWaiters(t, a)
      /\ op'.kind = "CvWait" => op'.key \in Keys
  BY <1>1
<1>5. QED
  BY <1>1, <1>3, <1>4, KeptByPassingOn

LEMMA KeptByWaitSleep ==
    ASSUME Locks!NoneAssumption, Locks!PrioAssumption, MutexInv, Locks!WaitSleep
    PROVE  MutexInv'
<1>1. /\ op.kind = "CvWait" /\ restoring = None
      /\ memOwner' = [memOwner EXCEPT ![op.addr] = op.next]
      /\ memWait' = [memWait EXCEPT ![op.addr] = op.more]
      /\ cvFlag' = [cvFlag EXCEPT ![op.key] = 1]
      /\ \/ /\ op.timeout # "Zero" /\ mutexTree' = [mutexTree EXCEPT ![op.key] = Locks!Insert(@, op.thread, prio)]
            /\ addrKey' = [addrKey EXCEPT ![op.thread] = op.addr] /\ UNCHANGED <<pc, want>>
         \/ /\ op.timeout = "Zero" /\ pc' = [pc EXCEPT ![op.thread] = "Locking"]
            /\ want' = [want EXCEPT ![op.thread] = op.addr] /\ UNCHANGED <<mutexTree, addrKey>>
      /\ wait' = [u \in LockThreads |-> IF u = op.next THEN "None"
                                     ELSE IF u = op.thread /\ op.timeout # "Zero" THEN "CondVar" ELSE wait[u]]
      /\ result' = [u \in LockThreads |-> IF u = op.next THEN "Success" ELSE result[u]]
      /\ mutexTimers' = (mutexTimers \ {op.next}) \cup (IF op.timeout = "Finite" THEN {op.thread} ELSE {})
      /\ op' = Locks!Idle
      /\ UNCHANGED <<base, prio, held, ownerRef, restoring, seen, holds, termRequested>>
  BY DEF Locks!WaitSleep, Locks!memVars, Locks!prioVars, Locks!waitVars, Locks!guestVars
<1>2. PICK a \in Addrs, t \in LockThreads, n \in LockThreads \cup {None}, k \in Keys :
        a = op.addr /\ t = op.thread /\ n = op.next /\ k = op.key
  BY <1>1 DEF MutexInv, OpOK, Locks!TypeOK, Passing
<1>3. /\ pc \in [LockThreads -> {"User", "Locking", "Arbitrate", "Kernel", "Exited", "Finalized"}]
      /\ memOwner \in [Addrs -> LockThreads \cup {None}] /\ memWait \in [Addrs -> {0, 1}]
      /\ want \in [LockThreads -> Addrs \cup {None}] /\ holds \in [LockThreads -> SUBSET Addrs]
      /\ seen \in [LockThreads -> LockThreads \cup {None}] /\ addrKey \in [LockThreads -> Addrs \cup {None}]
      /\ wait \in [LockThreads -> {"None", "Address", "CondVar"}]
      /\ ownerRef \in [LockThreads -> LockThreads \cup {None}] /\ None \notin LockThreads /\ None \notin Addrs
  BY DEF MutexInv, Locks!TypeOK, Locks!NoneAssumption
<1>4. /\ wait[t] = "None" /\ pc[t] = "Kernel" /\ a \notin holds[t] /\ memOwner[a] = t
      /\ n \in LockThreads => /\ wait[n] # "None" /\ addrKey[n] = a /\ n # t /\ pc[n] = "Kernel"
                          /\ \A o \in LockThreads, b \in Addrs : n \notin ToSet(held[o][b])
                          /\ \A l \in Keys : n \notin ToSet(mutexTree[l])
      /\ \A o \in LockThreads : held[o][a] # <<>> => o = n /\ op.more = 1
  BY <1>1, <1>2 DEF MutexInv, OpOK, GuestOK, Passing
<1>5. /\ Passing /\ ~Passing' /\ op'.kind = "Idle"
  BY <1>1 DEF Passing, Locks!Idle
<1>6. /\ mutexTree \in [Keys -> Seq(LockThreads)] /\ prio \in [LockThreads -> Nat] /\ memWait \in [Addrs -> {0, 1}]
      /\ cvFlag \in [Keys -> {0, 1}] /\ op.more \in {0, 1} /\ mutexTimers \subseteq LockThreads
      /\ result \in [LockThreads -> Locks!Results]
  BY DEF MutexInv, Locks!TypeOK
<1>7. /\ \A o \in LockThreads, b \in Addrs : t \notin ToSet(held[o][b])
      /\ \A l \in Keys : t \notin ToSet(mutexTree[l])
  BY <1>4 DEF MutexInv, NodesOK
<1>8. PICK r \in Seq(LockThreads) :
        r = Locks!Insert(mutexTree[k], t, prio) /\ ToSet(r) = ToSet(mutexTree[k]) \cup {t} /\ Ordered(r, prio)
  <2>1. PICK q \in Seq(LockThreads) : q = mutexTree[k]
    BY <1>6
  <2>2. t \notin ToSet(q) /\ Ordered(q, prio)
    BY <1>7, <2>1 DEF MutexInv, Sorted
  <2>3. QED
    BY <1>6, <2>1, <2>2, InsertInTree
<1>9. /\ \A l \in Keys : mutexTree'[l] = IF l = k /\ op.timeout # "Zero" THEN r ELSE mutexTree[l]
      /\ mutexTree' \in [Keys -> Seq(LockThreads)]
  BY <1>1, <1>2, <1>6, <1>8
<1>10. /\ \A u \in LockThreads : pc'[u] = IF u = t /\ op.timeout = "Zero" THEN "Locking" ELSE pc[u]
       /\ \A u \in LockThreads : wait'[u] = IF u = n THEN "None" ELSE
                                IF u = t /\ op.timeout # "Zero" THEN "CondVar" ELSE wait[u]
       /\ \A u \in LockThreads : result'[u] = IF u = n THEN "Success" ELSE result[u]
       /\ \A u \in LockThreads : addrKey'[u] = IF u = t /\ op.timeout # "Zero" THEN a ELSE addrKey[u]
       /\ \A u \in LockThreads : want'[u] = IF u = t /\ op.timeout = "Zero" THEN a ELSE want[u]
       /\ \A b \in Addrs : memOwner'[b] = IF b = a THEN n ELSE memOwner[b]
       /\ \A b \in Addrs : memWait'[b] = IF b = a THEN op.more ELSE memWait[b]
  BY <1>1, <1>2, <1>3
<1>11. UNCHANGED <<base, prio, held, ownerRef, restoring, seen, holds, termRequested>>
  BY <1>1
<1>12. Locks!TypeOK'
  <2>1. /\ wait' \in [LockThreads -> {"None", "Address", "CondVar"}] /\ result' \in [LockThreads -> Locks!Results]
        /\ mutexTimers' \subseteq LockThreads
    BY <1>1, <1>2, <1>3, <1>6 DEF Locks!Results
  <2>2. /\ pc' \in [LockThreads -> {"User", "Locking", "Arbitrate", "Kernel", "Exited", "Finalized"}]
        /\ want' \in [LockThreads -> Addrs \cup {None}] /\ addrKey' \in [LockThreads -> Addrs \cup {None}]
    BY <1>1, <1>2, <1>3
  <2>3. /\ memOwner' \in [Addrs -> LockThreads \cup {None}] /\ memWait' \in [Addrs -> {0, 1}]
        /\ cvFlag' \in [Keys -> {0, 1}]
    BY <1>1, <1>2, <1>3, <1>6
  <2>4. op' \in [kind : {"Idle", "Unlock", "CvWait", "Signal", "Terminate"},
                  thread : LockThreads \cup {None}, addr : Addrs \cup {None}, key : Keys \cup {None},
                  next : LockThreads \cup {None}, more : {0, 1}, timeout : Locks!Timeouts, left : Int,
                  it : LockThreads \cup {None}]
    BY <1>1 DEF Locks!Idle, Locks!Timeouts
  <2>5. QED
    BY <1>9, <1>11, <2>1, <2>2, <2>3, <2>4 DEF MutexInv, Locks!TypeOK
<1>13. GuestOK'
  BY <1>2, <1>4, <1>5, <1>10, <1>11 DEF MutexInv, GuestOK
<1>14. NodesOK'
  <2>1. CASE op.timeout = "Zero"
    <3>1. /\ \A u \in LockThreads : wait'[u] = IF u = n THEN "None" ELSE wait[u]
          /\ \A l \in Keys : mutexTree'[l] = mutexTree[l]
          /\ \A u \in LockThreads : addrKey'[u] = addrKey[u]
      BY <1>9, <1>10, <2>1
    <3>2. QED
      BY <1>2, <1>4, <1>5, <1>11, <3>1 DEF MutexInv, NodesOK
  <2>2. CASE op.timeout # "Zero"
    <3>1. /\ \A u \in LockThreads : wait'[u] = IF u = n THEN "None" ELSE IF u = t THEN "CondVar" ELSE wait[u]
          /\ \A u \in LockThreads : u # t => addrKey'[u] = addrKey[u]
          /\ \A l \in Keys : \A u : u \in ToSet(mutexTree'[l]) <=> u \in ToSet(mutexTree[l]) \/ (u = t /\ l = k)
      BY <1>8, <1>9, <1>10, <2>2
    <3>2. held' = held
      BY <1>11
    <3>3. ASSUME NEW u \in LockThreads, u # t
          PROVE  /\ addrKey'[u] = addrKey[u] /\ wait'[u] = IF u = n THEN "None" ELSE wait[u]
                 /\ \A l \in Keys : u \in ToSet(mutexTree'[l]) <=> u \in ToSet(mutexTree[l])
      BY <3>1, <3>3
    <3>4. n # t /\ wait'[t] = "CondVar" /\ \A l \in Keys : t \in ToSet(mutexTree'[l]) <=> l = k
      BY <1>2, <1>3, <1>4, <1>7, <3>1
    <3>5. QED
      BY <1>2, <1>4, <1>5, <1>7, <3>2, <3>3, <3>4 DEF MutexInv, NodesOK
  <2>3. QED
    BY <2>1, <2>2
<1>15. OpOK'
  BY <1>5 DEF OpOK
<1>16. WordOK'
  BY <1>2, <1>3, <1>4, <1>5, <1>10, <1>11 DEF MutexInv, WordOK
<1>17. HoldOK'
  <2>1. \A u \in LockThreads, b \in Addrs : b \in holds[u] => memOwner[b] = u /\ b # a
    BY <1>4 DEF MutexInv, HoldOK
  <2>2. \A u \in LockThreads : pc[u] = "Kernel" /\ u # t => addrKey[u] \in Addrs
    BY <1>2 DEF MutexInv, GuestOK
  <2>3. ASSUME NEW u \in LockThreads, pc'[u] = "Kernel", wait'[u] = "None", result'[u] = "Success"
        PROVE  memOwner'[addrKey'[u]] = u
    <3>1. u # t /\ pc[u] = "Kernel" /\ addrKey[u] \in Addrs /\ addrKey'[u] = addrKey[u]
      BY <1>4, <1>10, <2>2, <2>3
    <3>2. CASE u = n
      BY <1>4, <1>10, <3>1, <3>2
    <3>3. CASE u # n
      <4>1. memOwner[addrKey[u]] = u
        BY <1>2, <1>10, <2>3, <3>1, <3>3 DEF MutexInv, HoldOK
      <4>2. QED
        BY <1>4, <1>10, <3>1, <4>1
    <3>4. QED
      BY <3>2, <3>3
  <2>4. QED
    BY <1>5, <1>10, <1>11, <2>1, <2>3 DEF HoldOK
<1>18. Locks!WaiterFlagSet' /\ WalkOK'
  <2>1. cvFlag'[k] = 1 /\ \A l \in Keys : l # k => cvFlag'[l] = cvFlag[l] /\ mutexTree'[l] = mutexTree[l]
    BY <1>1, <1>2, <1>6, <1>9
  <2>2. \A b \in Addrs : memOwner[b] # t => memOwner'[b] = memOwner[b]
    BY <1>4, <1>10
  <2>3. \A l \in Keys : \A u \in ToSet(mutexTree[l]) :
           (\E b \in Addrs : memOwner[b] = u) => \E b \in Addrs : memOwner'[b] = u
    BY <1>4, <2>2, TreeThreads DEF MutexInv
  <2>4. Locks!WaiterFlagSet'
    BY <2>1, <2>3, FlagKept DEF MutexInv
  <2>5. QED
    BY <1>5, <2>4 DEF WalkOK
<1>19. Sorted'
  BY <1>8, <1>9, <1>11 DEF MutexInv, Sorted
<1>20. PrioOK'
  <2>1. \A u \in LockThreads : pc'[u] # "Finalized" => pc[u] # "Finalized"
    BY <1>4, <1>10
  <2>2. QED
    BY <1>11, <2>1, SamePriorities DEF MutexInv
<1>21. QED
  BY <1>12, <1>13, <1>14, <1>15, <1>16, <1>17, <1>18, <1>19, <1>20 DEF MutexInv

LEMMA KeptBySignalImpl ==
    ASSUME Locks!NoneAssumption, Locks!PrioAssumption, MutexInv, Locks!SignalImpl
    PROVE  MutexInv'
<1>1. /\ op.kind = "Signal" /\ restoring = None /\ op.key \in Keys /\ op.it # None
      /\ mutexTree' = [mutexTree EXCEPT ![op.key] = RemoveFirst(@, op.it)]
      /\ op' = [op EXCEPT !.left = @ - 1, !.it = Locks!Successor(mutexTree[op.key], op.it)]
      /\ UNCHANGED <<cvFlag, base, prio, addrKey, ownerRef, pc, want, seen, holds, termRequested>>
  BY SameOperators DEF Locks!SignalImpl, MutexInv, OpOK, Locks!memVars, Locks!prioVars, Locks!waitVars, Locks!guestVars
<1>2. /\ pc \in [LockThreads -> {"User", "Locking", "Arbitrate", "Kernel", "Exited", "Finalized"}]
      /\ memOwner \in [Addrs -> LockThreads \cup {None}] /\ memWait \in [Addrs -> {0, 1}]
      /\ want \in [LockThreads -> Addrs \cup {None}] /\ holds \in [LockThreads -> SUBSET Addrs]
      /\ seen \in [LockThreads -> LockThreads \cup {None}] /\ addrKey \in [LockThreads -> Addrs \cup {None}]
      /\ wait \in [LockThreads -> {"None", "Address", "CondVar"}]
      /\ ownerRef \in [LockThreads -> LockThreads \cup {None}] /\ None \notin LockThreads /\ None \notin Addrs
  BY DEF MutexInv, Locks!TypeOK, Locks!NoneAssumption
<1>3. PICK k \in Keys : k = op.key
  BY <1>1
<1>4. /\ mutexTree \in [Keys -> Seq(LockThreads)] /\ prio \in [LockThreads -> Nat] /\ memWait \in [Addrs -> {0, 1}]
      /\ mutexTimers \subseteq LockThreads /\ result \in [LockThreads -> Locks!Results] /\ held \in HeldType
      /\ op \in [kind : {"Idle", "Unlock", "CvWait", "Signal", "Terminate"},
                  thread : LockThreads \cup {None}, addr : Addrs \cup {None}, key : Keys \cup {None},
                  next : LockThreads \cup {None}, more : {0, 1}, timeout : Locks!Timeouts, left : Int,
                  it : LockThreads \cup {None}]
  BY DEF MutexInv, Locks!TypeOK, HeldType
<1>5. /\ ~Passing /\ ~Passing' /\ op'.kind = "Signal" /\ op'.key \in Keys
      /\ op' \in [kind : {"Idle", "Unlock", "CvWait", "Signal", "Terminate"},
                  thread : LockThreads \cup {None}, addr : Addrs \cup {None}, key : Keys \cup {None},
                  next : LockThreads \cup {None}, more : {0, 1}, timeout : Locks!Timeouts, left : Int,
                  it : LockThreads \cup {None}]
  <2>1. op.left \in Int /\ op.kind = "Signal" /\ op.key \in Keys
    BY <1>1, <1>4
  <2>2. op' \in [kind : {"Idle", "Unlock", "CvWait", "Signal", "Terminate"},
                  thread : LockThreads \cup {None}, addr : Addrs \cup {None}, key : Keys \cup {None},
                  next : LockThreads \cup {None}, more : {0, 1}, timeout : Locks!Timeouts, left : Int,
                  it : LockThreads \cup {None}]
    <3>1. op' = [kind |-> op.kind, thread |-> op.thread, addr |-> op.addr, key |-> op.key, next |-> op.next,
                 more |-> op.more, timeout |-> op.timeout, left |-> op.left - 1,
                 it |-> Locks!Successor(mutexTree[op.key], op.it)]
      BY <1>1, <1>4
    <3>2. op.left - 1 \in Int /\ op.timeout \in Locks!Timeouts /\ op.more \in {0, 1}
      BY <1>4, <2>1
    <3>3. /\ op.thread \in LockThreads \cup {None} /\ op.addr \in Addrs \cup {None}
          /\ op.key \in Keys \cup {None} /\ op.next \in LockThreads \cup {None}
      BY <1>4
    <3>4. Locks!Successor(mutexTree[op.key], op.it) \in LockThreads \cup {None}
      <4>1. PICK s \in Seq(LockThreads) : s = mutexTree[op.key]
        BY <1>1, <1>4
      <4>2. op.it \in LockThreads
        BY <1>1, <1>4
      <4>3. op.it \in ToSet(s) /\ Ordered(s, prio)
        BY <1>1, <4>1, <4>2 DEF MutexInv, WalkOK, Sorted
      <4>4. QED
        BY <4>1, <4>3, SuccessorOf
    <3>5. QED
      BY <2>1, <3>1, <3>2, <3>3, <3>4
  <2>3. op'.kind = "Signal" /\ op'.key = op.key
    BY <1>1, <1>4
  <2>4. QED
    BY <2>1, <2>2, <2>3 DEF Passing
<1>6. PICK s \in Seq(LockThreads) : s = mutexTree[k]
  BY <1>4
<1>7. PICK t, r : t = op.it /\ r = RemoveFirst(s, t)
  OBVIOUS
<1>8. /\ t \in LockThreads /\ t \in ToSet(s) /\ r \in Seq(LockThreads) /\ Ordered(r, prio)
      /\ ToSet(r) = ToSet(s) \ {t}
  <2>1. t \in LockThreads
    BY <1>1, <1>4, <1>7
  <2>2. t \in ToSet(s) /\ Ordered(s, prio)
    BY <1>1, <1>3, <1>6, <1>7, <2>1 DEF MutexInv, WalkOK, Sorted
  <2>3. QED
    BY <1>7, <2>1, <2>2, RemoveKeepsOrder
<1>9. /\ \A l \in Keys : mutexTree'[l] = IF l = k THEN r ELSE mutexTree[l]
      /\ mutexTree' \in [Keys -> Seq(LockThreads)]
  BY <1>1, <1>3, <1>4, <1>6, <1>7, <1>8
<1>10. /\ wait[t] = "CondVar" /\ pc[t] = "Kernel" /\ addrKey[t] \in Addrs
       /\ \A l \in Keys : t \in ToSet(mutexTree[l]) <=> l = k
       /\ \A x \in LockThreads, b \in Addrs : t \notin ToSet(held[x][b])
  BY <1>6, <1>8 DEF MutexInv, GuestOK, NodesOK
<1>11. PICK a \in Addrs, o \in LockThreads \cup {None} : a = addrKey[t] /\ o = memOwner[a]
  BY <1>2, <1>10
<1>12. \/ /\ o = None /\ memOwner' = [memOwner EXCEPT ![a] = t] /\ Locks!EndWait({t}, "Success")
          /\ UNCHANGED <<memWait, held, restoring>>
       \/ /\ o \in LockThreads /\ memWait' = [memWait EXCEPT ![a] = 1] /\ Added(o, t, a)
          /\ UNCHANGED <<wait, result, mutexTimers, memOwner>>
       \/ /\ o \in LockThreads /\ memWait' = [memWait EXCEPT ![a] = 1] /\ Locks!EndWait({t}, "InvalidState")
          /\ UNCHANGED <<held, restoring, memOwner>>
  <2>1. \/ /\ o = None /\ memOwner' = [memOwner EXCEPT ![a] = t] /\ Locks!EndWait({t}, "Success")
           /\ UNCHANGED <<memWait, held, restoring>>
        \/ /\ o # None /\ memWait' = [memWait EXCEPT ![a] = 1] /\ Locks!AddWaiter(o, t, a)
           /\ UNCHANGED <<wait, result, mutexTimers, memOwner>>
        \/ /\ o # None /\ memWait' = [memWait EXCEPT ![a] = 1] /\ Locks!EndWait({t}, "InvalidState")
           /\ UNCHANGED <<held, restoring, memOwner>>
    BY <1>3, <1>6, <1>7, <1>11 DEF Locks!SignalImpl
  <2>2. Locks!TypeOK /\ Sorted /\ PrioOK /\ restoring = None
    BY <1>1 DEF MutexInv
  <2>3. ASSUME o # None, Locks!AddWaiter(o, t, a) PROVE Added(o, t, a)
    <3>1. o \in LockThreads /\ t \notin ToSet(held[o][a])
      BY <1>10, <2>3
    <3>2. QED
      BY <1>8, <2>2, <2>3, <3>1, AddEffect
  <2>4. QED
    BY <2>1, <2>3
<1>13. /\ mutexTimers' \subseteq LockThreads /\ result' \in [LockThreads -> Locks!Results]
       /\ wait' \in [LockThreads -> {"None", "Address", "CondVar"}]
       /\ memOwner' \in [Addrs -> LockThreads \cup {None}] /\ memWait' \in [Addrs -> {0, 1}]
       /\ held' \in HeldType /\ restoring' \in LockThreads \cup {None}
  <2>1. restoring \in LockThreads \cup {None} /\ \A x \in LockThreads : x \in LockThreads
    BY <1>1
  <2>2. CASE Locks!EndWait({t}, "Success") \/ Locks!EndWait({t}, "InvalidState")
    <3>1. /\ mutexTimers' \subseteq LockThreads /\ result' \in [LockThreads -> Locks!Results]
          /\ wait' \in [LockThreads -> {"None", "Address", "CondVar"}]
      BY <1>2, <1>4, <2>2 DEF Locks!EndWait, Locks!Results
    <3>2. memOwner' \in [Addrs -> LockThreads \cup {None}] /\ memWait' \in [Addrs -> {0, 1}]
      <4>1. memOwner' = memOwner \/ memOwner' = [memOwner EXCEPT ![a] = t]
        BY <1>12
      <4>2. memWait' = memWait \/ memWait' = [memWait EXCEPT ![a] = 1]
        BY <1>12
      <4>3. memOwner' \in [Addrs -> LockThreads \cup {None}]
        BY <1>2, <1>8, <4>1
      <4>4. memWait' \in [Addrs -> {0, 1}]
        BY <1>4, <4>2
      <4>5. QED
        BY <4>3, <4>4
    <3>3. held' \in HeldType /\ restoring' \in LockThreads \cup {None}
      BY <1>2, <1>4, <1>12, <2>1 DEF Added
    <3>4. QED
      BY <3>1, <3>2, <3>3
  <2>3. CASE ~(Locks!EndWait({t}, "Success") \/ Locks!EndWait({t}, "InvalidState"))
    BY <1>2, <1>4, <1>12, <2>3 DEF Added
  <2>4. QED
    BY <2>2, <2>3
<1>14. /\ \A u \in LockThreads : u # t => wait'[u] = wait[u] /\ result'[u] = result[u]
       /\ \A b \in Addrs : b # a => memOwner'[b] = memOwner[b] /\ memWait'[b] = memWait[b]
       /\ memWait[a] = 1 => memWait'[a] = 1
       /\ memOwner[a] # None => memOwner'[a] = memOwner[a]
       /\ wait'[t] \in {"None", "CondVar"}
  <2>1. CASE Locks!EndWait({t}, "Success") \/ Locks!EndWait({t}, "InvalidState")
    BY <1>2, <1>4, <1>10, <1>11, <1>12, <2>1 DEF Locks!EndWait
  <2>2. CASE ~(Locks!EndWait({t}, "Success") \/ Locks!EndWait({t}, "InvalidState"))
    BY <1>2, <1>4, <1>10, <1>11, <1>12, <2>2
  <2>3. QED
    BY <2>1, <2>2
<1>15. \/ held' = held /\ restoring' = restoring /\ wait'[t] = "None"
       \/ /\ o \in LockThreads /\ Added(o, t, a) /\ wait'[t] = "CondVar" /\ memWait'[a] = 1
          /\ memOwner'[a] = o /\ result'[t] = result[t]
  BY <1>2, <1>4, <1>8, <1>10, <1>11, <1>12 DEF Locks!EndWait
<1>16. UNCHANGED <<cvFlag, base, prio, addrKey, ownerRef, pc, want, seen, holds, termRequested>>
  BY <1>1
<1>17. Locks!TypeOK'
  BY <1>5, <1>9, <1>13, <1>16 DEF MutexInv, Locks!TypeOK, HeldType
<1>18. GuestOK'
  BY <1>5, <1>10, <1>14, <1>16 DEF MutexInv, GuestOK
<1>19. NodesOK'
  <2>1. \A l \in Keys : \A u : u \in ToSet(mutexTree'[l]) <=> u \in ToSet(mutexTree[l]) /\ u # t
    BY <1>6, <1>8, <1>9, <1>10
  <2>2. addrKey' = addrKey /\ \A l \in Keys : t \notin ToSet(mutexTree'[l])
    BY <1>16, <2>1
  <2>3. CASE held' = held /\ wait'[t] = "None"
    <3>1. \A u \in LockThreads : wait'[u] = IF u = t THEN "None" ELSE wait[u]
      BY <1>14, <2>3
    <3>2. ASSUME NEW u \in LockThreads, u # t
          PROVE  /\ wait'[u] = wait[u]
                 /\ \A l \in Keys : u \in ToSet(mutexTree'[l]) <=> u \in ToSet(mutexTree[l])
      BY <2>1, <3>1, <3>2
    <3>3. /\ held' = held /\ wait'[t] = "None"
          /\ \A x \in LockThreads, b \in Addrs : t \notin ToSet(held[x][b])
      BY <1>10, <2>3
    <3>4. QED
      BY <1>5, <2>2, <3>2, <3>3 DEF MutexInv, NodesOK
  <2>4. CASE ~(held' = held /\ wait'[t] = "None")
    <3>1. /\ o \in LockThreads /\ wait'[t] = "CondVar"
          /\ \A x \in LockThreads, b \in Addrs : \A u : u \in ToSet(held'[x][b]) <=>
                 u \in ToSet(held[x][b]) \/ (u = t /\ x = o /\ b = a)
      BY <1>15, <2>4 DEF Added
    <3>2. \A x \in LockThreads, b \in Addrs : t \in ToSet(held'[x][b]) <=> x = o /\ b = a
      BY <1>10, <3>1
    <3>3. ASSUME NEW u \in LockThreads, u # t
          PROVE  /\ wait'[u] = wait[u]
                 /\ \A l \in Keys : u \in ToSet(mutexTree'[l]) <=> u \in ToSet(mutexTree[l])
                 /\ \A x \in LockThreads, b \in Addrs : u \in ToSet(held'[x][b]) <=> u \in ToSet(held[x][b])
      BY <1>14, <2>1, <3>1, <3>3
    <3>4. QED
      BY <1>5, <1>11, <2>2, <3>1, <3>2, <3>3 DEF MutexInv, NodesOK
  <2>5. QED
    BY <2>3, <2>4
<1>20. OpOK'
  BY <1>5 DEF OpOK
<1>21. WordOK'
  <2>1. ASSUME NEW x \in LockThreads, NEW b \in Addrs, held'[x][b] # <<>>
        PROVE  memOwner'[b] = x /\ memWait'[b] = 1
    <3>1. CASE held[x][b] # <<>>
      <4>1. memOwner[b] = x /\ memWait[b] = 1
        BY <1>5, <3>1 DEF MutexInv, WordOK
      <4>2. QED
        BY <1>2, <1>14, <4>1
    <3>2. CASE held[x][b] = <<>>
      <4>1. o \in LockThreads /\ x = o /\ b = a /\ memOwner'[a] = o /\ memWait'[a] = 1
        BY <1>15, <2>1, <3>2 DEF Added
      <4>2. QED
        BY <4>1
    <3>3. QED
      BY <3>1, <3>2
  <2>2. QED
    BY <2>1 DEF WordOK
<1>22. HoldOK'
  <2>1. \A u \in LockThreads, b \in Addrs : memOwner[b] = u => memOwner'[b] = u
    BY <1>2, <1>14
  <2>2. \A u \in LockThreads, b \in Addrs : b \in holds[u] => memOwner'[b] = u
    BY <2>1 DEF MutexInv, HoldOK
  <2>3. ASSUME NEW u \in LockThreads, pc[u] = "Kernel", wait'[u] = "None", result'[u] = "Success"
        PROVE  memOwner'[addrKey[u]] = u
    <3>1. CASE u = t
      <4>1. o = None /\ memOwner' = [memOwner EXCEPT ![a] = t]
        <5>1. CASE Locks!EndWait({t}, "InvalidState")
          BY <1>8, <2>3, <3>1, <5>1 DEF Locks!EndWait
        <5>2. CASE ~Locks!EndWait({t}, "InvalidState")
          BY <1>10, <1>12, <2>3, <3>1, <5>2
        <5>3. QED
          BY <5>1, <5>2
      <4>2. QED
        BY <1>2, <1>11, <3>1, <4>1
    <3>2. CASE u # t
      <4>1. addrKey[u] \in Addrs /\ memOwner[addrKey[u]] = u
        BY <1>5, <1>14, <2>3, <3>2 DEF MutexInv, HoldOK, GuestOK
      <4>2. QED
        BY <2>1, <4>1
    <3>3. QED
      BY <3>1, <3>2
  <2>4. QED
    BY <1>16, <2>2, <2>3 DEF HoldOK
<1>23. Locks!WaiterFlagSet' /\ WalkOK'
  <2>1. \A u \in LockThreads, b \in Addrs : memOwner[b] = u => memOwner'[b] = u
    BY <1>2, <1>14
  <2>2. \A l \in Keys : \A u \in ToSet(mutexTree'[l]) : u \in ToSet(mutexTree[l]) /\ u \in LockThreads
    BY <1>6, <1>8, <1>9, TreeThreads DEF MutexInv
  <2>3. Locks!WaiterFlagSet'
    BY <1>16, <2>1, <2>2, FlagKept DEF MutexInv
  <2>4. PICK n : n = Locks!Successor(s, t)
    OBVIOUS
  <2>5. op'.it = n /\ op'.key = k /\ op'.kind = "Signal"
    BY <1>1, <1>3, <1>4, <1>6, <1>7, <2>4
  <2>6. /\ n \in LockThreads => n \in ToSet(r)
        /\ \A u : Before(s, t, u) => u = n \/ Before(r, n, u)
    <3>1. Ordered(s, prio)
      BY <1>6 DEF MutexInv, Sorted
    <3>2. QED
      BY <1>7, <1>8, <2>4, <3>1, SuccessorOf
  <2>7. ASSUME NEW u \in ToSet(r), \A b \in Addrs : memOwner'[b] # u
        PROVE  u = n \/ Before(r, n, u)
    <3>1. u \in ToSet(s) /\ u # t /\ u \in LockThreads
      BY <1>8, <1>9, <2>2, <2>7
    <3>2. \A b \in Addrs : memOwner[b] # u
      BY <2>1, <2>7, <3>1
    <3>3. Before(s, t, u)
      BY <1>1, <1>3, <1>6, <1>7, <3>1, <3>2 DEF MutexInv, WalkOK, Owning
    <3>4. QED
      BY <2>6, <3>3
  <2>8. ASSUME NEW x \in LockThreads, x = restoring', pc[x] # "Finalized"
        PROVE  /\ prio[x] <= base[x]
               /\ prio[x] = base[x] \/ \E u \in WaitersOf(held'[x]) : prio[u] <= prio[x]
    <3>1. \A u : u \in WaitersOf(held[x]) => u \in WaitersOf(held'[x])
      BY <1>15 DEF Added, WaitersOf
    <3>2. Best(prio[x], base[x], WaitersOf(held[x]), prio)
      BY <1>1, <1>2, <2>8 DEF MutexInv, PrioOK
    <3>3. prio[x] \in Nat
      BY <1>4
    <3>4. prio[x] = base[x] \/ \E u \in WaitersOf(held'[x]) : prio[x] = prio[u]
      BY <3>1, <3>2 DEF Best
    <3>5. QED
      BY <3>2, <3>3, <3>4 DEF Best
  <2>9. mutexTree'[k] = r
    BY <1>9
  <2>10. WalkOK'
    BY <1>16, <2>5, <2>6, <2>7, <2>8, <2>9 DEF WalkOK, Owning, Before
  <2>11. QED
    BY <2>3, <2>10
<1>24. Sorted'
  <2>1. \A l \in Keys : Ordered(mutexTree'[l], prio)
    BY <1>8, <1>9 DEF MutexInv, Sorted
  <2>2. \A x \in LockThreads, b \in Addrs : Ordered(held'[x][b], prio)
    BY <1>15 DEF MutexInv, Sorted, Added
  <2>3. QED
    BY <1>16, <2>1, <2>2 DEF Sorted
<1>25. PrioOK'
  <2>1. CASE held' = held /\ restoring' = restoring
    BY <1>16, <2>1, SamePriorities DEF MutexInv
  <2>2. CASE ~(held' = held /\ restoring' = restoring)
    BY <1>15, <1>16, <2>2 DEF PrioOK, StillBest, Added
  <2>3. QED
    BY <2>1, <2>2
<1>26. QED
  BY <1>17, <1>18, <1>19, <1>20, <1>21, <1>22, <1>23, <1>24, <1>25 DEF MutexInv

\* Time-outs and terminations.
LEMMA KeptByCancelWait ==
    ASSUME Locks!NoneAssumption, Locks!PrioAssumption, MutexInv, NEW t \in LockThreads, NEW res \in {"TimedOut", "TerminationRequested"},
           ~Passing, restoring = None, Locks!CancelWait(t, res),
           ~Passing', OpOK', op'.kind # "Signal", op' \in [kind : {"Idle", "Unlock", "CvWait", "Signal", "Terminate"},
                    thread : LockThreads \cup {None}, addr : Addrs \cup {None}, key : Keys \cup {None},
                    next : LockThreads \cup {None}, more : {0, 1}, timeout : Locks!Timeouts, left : Int,
                    it : LockThreads \cup {None}],
           UNCHANGED <<memOwner, memWait, cvFlag, base, prio, addrKey, ownerRef, pc, want, seen, holds, termRequested>>
    PROVE  MutexInv'
<1>1. /\ mutexTree' = [k \in Keys |-> RemoveFirst(mutexTree[k], t)]
      /\ wait' = [u \in LockThreads |-> IF u = t THEN "None" ELSE wait[u]]
      /\ result' = [u \in LockThreads |-> IF u = t THEN res ELSE result[u]]
      /\ mutexTimers' = mutexTimers \ {t}
  BY SameOperators DEF Locks!CancelWait, Locks!EndWait
<1>2. /\ pc \in [LockThreads -> {"User", "Locking", "Arbitrate", "Kernel", "Exited", "Finalized"}]
      /\ memOwner \in [Addrs -> LockThreads \cup {None}] /\ memWait \in [Addrs -> {0, 1}]
      /\ want \in [LockThreads -> Addrs \cup {None}] /\ holds \in [LockThreads -> SUBSET Addrs]
      /\ seen \in [LockThreads -> LockThreads \cup {None}] /\ addrKey \in [LockThreads -> Addrs \cup {None}]
      /\ wait \in [LockThreads -> {"None", "Address", "CondVar"}]
      /\ ownerRef \in [LockThreads -> LockThreads \cup {None}] /\ None \notin LockThreads /\ None \notin Addrs
  BY DEF MutexInv, Locks!TypeOK, Locks!NoneAssumption
<1>3. /\ mutexTree \in [Keys -> Seq(LockThreads)] /\ mutexTimers \subseteq LockThreads /\ result \in [LockThreads -> Locks!Results]
      /\ held \in HeldType
  BY DEF MutexInv, Locks!TypeOK, HeldType
<1>4. TakenOut(t)
  <2>1. CASE Locks!LockOwner(t) = None
    <3>1. held' = held /\ restoring' = restoring
      BY <2>1 DEF Locks!CancelWait
    <3>2. \A x \in LockThreads, b \in Addrs : t \notin ToSet(held[x][b])
      BY <2>1, OwnerFound DEF MutexInv
    <3>3. StillBest(held', restoring')
      BY <3>1 DEF MutexInv, PrioOK, StillBest
    <3>4. \A x \in LockThreads, b \in Addrs : Ordered(held'[x][b], prio)
      BY <3>1 DEF MutexInv, Sorted
    <3>5. QED
      BY <1>3, <3>1, <3>2, <3>3, <3>4 DEF TakenOut
  <2>2. CASE Locks!LockOwner(t) # None
    <3>1. PICK o : o = Locks!LockOwner(t)
      OBVIOUS
    <3>2. o \in LockThreads /\ addrKey[t] \in Addrs /\ t \in ToSet(held[o][addrKey[t]])
      BY <2>2, <3>1, OwnerFound DEF MutexInv
    <3>3. Locks!RemoveWaiter(o, t)
      BY <2>2, <3>1 DEF Locks!CancelWait
    <3>4. Locks!TypeOK /\ Sorted /\ PrioOK /\ NodesOK
      BY DEF MutexInv
    <3>5. QED
      BY <3>2, <3>3, <3>4, RemoveEffect
  <2>3. QED
    BY <2>1, <2>2
<1>5. \A k \in Keys : /\ mutexTree'[k] \in Seq(LockThreads) /\ ToSet(mutexTree'[k]) = ToSet(mutexTree[k]) \ {t}
                    /\ Ordered(mutexTree'[k], prio)
  <2> SUFFICES ASSUME NEW k \in Keys
               PROVE  /\ mutexTree'[k] \in Seq(LockThreads) /\ ToSet(mutexTree'[k]) = ToSet(mutexTree[k]) \ {t}
                      /\ Ordered(mutexTree'[k], prio)
    OBVIOUS
  <2>1. PICK s \in Seq(LockThreads) : s = mutexTree[k]
    BY <1>3
  <2>2. Ordered(s, prio) /\ mutexTree'[k] = RemoveFirst(s, t)
    BY <1>1, <2>1 DEF MutexInv, Sorted
  <2>3. QED
    BY <2>1, <2>2, Taken
<1>6. \A k \in Keys : mutexTree'[k] # <<>> => mutexTree[k] # <<>>
  <2>1. \A k \in Keys : mutexTree[k] \in Seq(LockThreads) /\ mutexTree'[k] \in Seq(LockThreads)
    BY <1>3, <1>5
  <2>2. \A k \in Keys : ToSet(mutexTree'[k]) # {} => ToSet(mutexTree[k]) # {}
    BY <1>5
  <2>3. QED
    BY <2>1, <2>2, EmptyHasNone
<1>7. /\ \A u \in LockThreads : wait'[u] = IF u = t THEN "None" ELSE wait[u]
      /\ \A u \in LockThreads : result'[u] = IF u = t THEN res ELSE result[u]
  BY <1>1
<1>8. UNCHANGED <<memOwner, memWait, cvFlag, base, prio, addrKey, ownerRef, pc, want, seen, holds, termRequested>>
  OBVIOUS
<1>9. Locks!TypeOK'
  <2>1. mutexTree' \in [Keys -> Seq(LockThreads)]
    BY <1>1, <1>5
  <2>2. /\ mutexTimers' \subseteq LockThreads /\ result' \in [LockThreads -> Locks!Results]
        /\ wait' \in [LockThreads -> {"None", "Address", "CondVar"}]
    BY <1>1, <1>2, <1>3 DEF Locks!Results
  <2>3. held' \in HeldType /\ restoring' \in LockThreads \cup {None}
    BY <1>4 DEF TakenOut
  <2>4. op' \in [kind : {"Idle", "Unlock", "CvWait", "Signal", "Terminate"},
                  thread : LockThreads \cup {None}, addr : Addrs \cup {None}, key : Keys \cup {None},
                  next : LockThreads \cup {None}, more : {0, 1}, timeout : Locks!Timeouts, left : Int,
                  it : LockThreads \cup {None}]
    OBVIOUS
  <2>5. QED
    BY <1>8, <2>1, <2>2, <2>3, <2>4 DEF MutexInv, Locks!TypeOK, HeldType
<1>10. GuestOK'
  BY <1>7, <1>8 DEF MutexInv, GuestOK
<1>11. NodesOK'
  <2>1. \A x \in LockThreads, b \in Addrs : \A u : u \in ToSet(held'[x][b]) <=> u \in ToSet(held[x][b]) /\ u # t
    BY <1>4 DEF TakenOut
  <2>2. \A k \in Keys : \A u : u \in ToSet(mutexTree'[k]) <=> u \in ToSet(mutexTree[k]) /\ u # t
    BY <1>5
  <2>3. addrKey' = addrKey
    BY <1>8
  <2>4. ASSUME NEW u \in LockThreads, u # t
        PROVE  /\ wait'[u] = wait[u]
               /\ \A k \in Keys : u \in ToSet(mutexTree'[k]) <=> u \in ToSet(mutexTree[k])
               /\ \A x \in LockThreads, b \in Addrs : u \in ToSet(held'[x][b]) <=> u \in ToSet(held[x][b])
    BY <1>7, <2>1, <2>2, <2>4
  <2>5. /\ wait'[t] = "None"
        /\ \A k \in Keys : t \notin ToSet(mutexTree'[k])
        /\ \A x \in LockThreads, b \in Addrs : t \notin ToSet(held'[x][b])
    BY <1>7, <2>1, <2>2
  <2>6. ~Passing
    OBVIOUS
  <2>7. QED
    BY <2>3, <2>4, <2>5, <2>6 DEF MutexInv, NodesOK
<1>12. OpOK'
  OBVIOUS
<1>13. WordOK'
  <2>1. \A x \in LockThreads, b \in Addrs : held'[x][b] # <<>> => held[x][b] # <<>>
    BY <1>4 DEF TakenOut
  <2>2. QED
    BY <1>8, <2>1 DEF MutexInv, WordOK
<1>14. HoldOK'
  <2>1. \A u \in LockThreads : wait'[u] = "None" /\ result'[u] = "Success" => wait[u] = "None" /\ result[u] = "Success"
    BY <1>7
  <2>2. QED
    BY <1>8, <2>1 DEF MutexInv, HoldOK
<1>15. Locks!WaiterFlagSet' /\ WalkOK'
  <2>1. Locks!WaiterFlagSet'
    BY <1>5, <1>8, FlagKept DEF MutexInv
  <2>2. QED
    BY <2>1 DEF WalkOK
<1>16. Sorted'
  BY <1>4, <1>5, <1>8 DEF Sorted, TakenOut
<1>17. PrioOK'
  BY <1>4, <1>8 DEF TakenOut, StillBest, PrioOK
<1>18. QED
  BY <1>9, <1>10, <1>11, <1>12, <1>13, <1>14, <1>15, <1>16, <1>17 DEF MutexInv

LEMMA KeptByOnTimer ==
    ASSUME Locks!NoneAssumption, Locks!PrioAssumption, MutexInv, NEW t \in LockThreads, Locks!OnTimer(t)
    PROVE  MutexInv'
<1>1. /\ Locks!CancelWait(t, "TimedOut") /\ restoring = None /\ op.kind = "Idle" /\ ~Passing
      /\ UNCHANGED <<memOwner, memWait, cvFlag, base, prio, addrKey, ownerRef, op, pc, want, seen, holds, termRequested>>
  BY DEF Locks!OnTimer, Locks!CancelWait, Locks!Unlocked, Locks!Idle, Passing, Locks!memVars, Locks!prioVars, Locks!waitVars, Locks!guestVars
<1>2. ~Passing' /\ OpOK' /\ op'.kind # "Signal"
  BY <1>1 DEF Passing, OpOK
<1>3. op' \in [kind : {"Idle", "Unlock", "CvWait", "Signal", "Terminate"},
                thread : LockThreads \cup {None}, addr : Addrs \cup {None}, key : Keys \cup {None},
                next : LockThreads \cup {None}, more : {0, 1}, timeout : Locks!Timeouts, left : Int,
                it : LockThreads \cup {None}]
  BY <1>1 DEF MutexInv, Locks!TypeOK
<1>4. QED
  BY <1>1, <1>2, <1>3, KeptByCancelWait

LEMMA KeptByRequestTerminateCancel ==
    ASSUME Locks!NoneAssumption, Locks!PrioAssumption, MutexInv, Locks!RequestTerminateCancel
    PROVE  MutexInv'
<1>1. /\ op.kind = "Terminate" /\ op.thread \in LockThreads /\ restoring = None /\ op' = Locks!Idle
      /\ ~Passing /\ ~Passing' /\ OpOK' /\ op'.kind # "Signal"
  BY DEF Locks!RequestTerminateCancel, MutexInv, OpOK, Locks!Idle, Passing
<1>2. op' \in [kind : {"Idle", "Unlock", "CvWait", "Signal", "Terminate"},
                thread : LockThreads \cup {None}, addr : Addrs \cup {None}, key : Keys \cup {None},
                next : LockThreads \cup {None}, more : {0, 1}, timeout : Locks!Timeouts, left : Int,
                it : LockThreads \cup {None}]
  BY <1>1 DEF Locks!Idle, Locks!Timeouts
<1>3. CASE wait[op.thread] # "None"
  <2>1. PICK t \in LockThreads : t = op.thread
    BY <1>1
  <2>2. /\ Locks!CancelWait(t, "TerminationRequested")
        /\ UNCHANGED <<memOwner, memWait, cvFlag, base, prio, addrKey, ownerRef, pc, want, seen, holds, termRequested>>
    BY <1>3, <2>1 DEF Locks!RequestTerminateCancel, Locks!CancelWait, Locks!memVars, Locks!prioVars, Locks!waitVars, Locks!guestVars
  <2>3. QED
    BY <1>1, <1>2, <2>2, KeptByCancelWait
<1>4. CASE wait[op.thread] = "None"
  <2>1. UNCHANGED <<memOwner, memWait, cvFlag, base, prio, held, mutexTree, wait, addrKey, mutexTimers, ownerRef, result, restoring, pc, want, seen, holds, termRequested>>
    BY <1>4 DEF Locks!RequestTerminateCancel, Locks!memVars, Locks!prioVars, Locks!waitVars, Locks!guestVars
  <2>2. Locks!TypeOK'
    BY <1>2, <2>1 DEF MutexInv, Locks!TypeOK
  <2>3. NodesOK'
    BY <1>1, <2>1, SameNodes DEF MutexInv
  <2>4. GuestOK' /\ WordOK' /\ HoldOK'
    BY <1>1, <2>1 DEF MutexInv, GuestOK, WordOK, HoldOK
  <2>5. Locks!WaiterFlagSet' /\ WalkOK' /\ Sorted'
    BY <1>1, <2>1, NoWalk DEF MutexInv, Sorted
  <2>6. PrioOK'
    BY <2>1, SamePriorities DEF MutexInv
  <2>7. QED
    BY <1>1, <2>2, <2>3, <2>4, <2>5, <2>6 DEF MutexInv
<1>5. QED
  BY <1>3, <1>4

LEMMA KeptByFinalize ==
    ASSUME Locks!NoneAssumption, Locks!PrioAssumption, MutexInv, NEW t \in LockThreads, Locks!Finalize(t)
    PROVE  MutexInv'
<1>1. /\ pc[t] = "Exited" /\ pc' = [pc EXCEPT ![t] = "Finalized"]
      /\ held' = [held EXCEPT ![t] = [a \in Addrs |-> <<>>]]
      /\ Locks!EndWait({u \in LockThreads : Locks!LockOwner(u) = t}, "InvalidState")
      /\ UNCHANGED <<memOwner, memWait, cvFlag, base, prio, mutexTree, addrKey, ownerRef, op, restoring, want, seen, holds, termRequested>>
  BY DEF Locks!Finalize, Locks!memVars, Locks!prioVars, Locks!waitVars, Locks!guestVars
<1>2. op.kind = "Idle" /\ ~Passing /\ ~Passing' /\ restoring = None
  BY <1>1 DEF Locks!Finalize, Locks!Unlocked, Locks!Idle, Passing
<1>3. /\ pc \in [LockThreads -> {"User", "Locking", "Arbitrate", "Kernel", "Exited", "Finalized"}]
      /\ memOwner \in [Addrs -> LockThreads \cup {None}] /\ memWait \in [Addrs -> {0, 1}]
      /\ want \in [LockThreads -> Addrs \cup {None}] /\ holds \in [LockThreads -> SUBSET Addrs]
      /\ seen \in [LockThreads -> LockThreads \cup {None}] /\ addrKey \in [LockThreads -> Addrs \cup {None}]
      /\ wait \in [LockThreads -> {"None", "Address", "CondVar"}]
      /\ ownerRef \in [LockThreads -> LockThreads \cup {None}] /\ None \notin LockThreads /\ None \notin Addrs
  BY DEF MutexInv, Locks!TypeOK, Locks!NoneAssumption
<1>4. /\ mutexTimers \subseteq LockThreads /\ result \in [LockThreads -> Locks!Results] /\ held \in HeldType
  BY DEF MutexInv, Locks!TypeOK, HeldType
<1>5. PICK W : W = {u \in LockThreads : Locks!LockOwner(u) = t}
  OBVIOUS
<1>6. \A u \in LockThreads : u \in W <=> \E b \in Addrs : u \in ToSet(held[t][b])
  <2> SUFFICES ASSUME NEW u \in LockThreads
               PROVE  u \in W <=> \E b \in Addrs : u \in ToSet(held[t][b])
    OBVIOUS
  <2>1. PICK o : o = Locks!LockOwner(u)
    OBVIOUS
  <2>2. \/ o = None /\ \A x \in LockThreads, b \in Addrs : u \notin ToSet(held[x][b])
        \/ o \in LockThreads /\ addrKey[u] \in Addrs /\ u \in ToSet(held[o][addrKey[u]])
    BY <2>1, OwnerFound DEF MutexInv
  <2>3. u \in W <=> o = t
    BY <1>5, <2>1
  <2>4. QED
    BY <1>3, <2>2, <2>3 DEF MutexInv, NodesOK
<1>7. /\ wait' = [u \in LockThreads |-> IF u \in W THEN "None" ELSE wait[u]]
      /\ result' = [u \in LockThreads |-> IF u \in W THEN "InvalidState" ELSE result[u]]
      /\ mutexTimers' \subseteq LockThreads
  BY <1>1, <1>4, <1>5 DEF Locks!EndWait
<1>8. /\ held' \in HeldType
      /\ \A x \in LockThreads, b \in Addrs : held'[x][b] = IF x = t THEN <<>> ELSE held[x][b]
  <2>1. [a \in Addrs |-> <<>>] \in [Addrs -> Seq(LockThreads)]
    OBVIOUS
  <2>2. QED
    BY <1>1, <1>4, <2>1 DEF HeldType
<1>9. \A x \in LockThreads, b \in Addrs : \A u : u \in ToSet(held'[x][b]) <=> u \in ToSet(held[x][b]) /\ x # t
  <2>1. ToSet(<<>>) = {}
    BY DEF ToSet
  <2>2. QED
    BY <1>8, <2>1
<1>10. /\ \A u \in LockThreads : pc'[u] = IF u = t THEN "Finalized" ELSE pc[u]
       /\ \A u \in LockThreads : wait'[u] = IF u \in W THEN "None" ELSE wait[u]
       /\ \A u \in LockThreads : result'[u] = IF u \in W THEN "InvalidState" ELSE result[u]
       /\ wait[t] = "None"
  BY <1>1, <1>3, <1>7 DEF MutexInv, GuestOK
<1>11. UNCHANGED <<memOwner, memWait, cvFlag, base, prio, mutexTree, addrKey, ownerRef, op, restoring, want, seen, holds, termRequested>>
  BY <1>1
<1>12. Locks!TypeOK'
  <2>1. /\ wait' \in [LockThreads -> {"None", "Address", "CondVar"}] /\ result' \in [LockThreads -> Locks!Results]
    BY <1>3, <1>4, <1>7 DEF Locks!Results
  <2>2. pc' \in [LockThreads -> {"User", "Locking", "Arbitrate", "Kernel", "Exited", "Finalized"}]
    BY <1>1, <1>3
  <2>3. QED
    BY <1>7, <1>8, <1>11, <2>1, <2>2 DEF MutexInv, Locks!TypeOK, HeldType
<1>13. GuestOK'
  BY <1>1, <1>2, <1>10, <1>11 DEF MutexInv, GuestOK
<1>14. NodesOK'
  <2>1. UNCHANGED <<mutexTree, addrKey>>
    BY <1>11
  <2>2. ASSUME NEW u \in LockThreads, u \in W
        PROVE  /\ \A x \in LockThreads, b \in Addrs : u \notin ToSet(held'[x][b])
               /\ \A k \in Keys : u \notin ToSet(mutexTree[k])
               /\ wait'[u] = "None"
    <3>1. PICK b \in Addrs : u \in ToSet(held[t][b])
      BY <1>6, <2>2
    <3>2. \A x \in LockThreads, c \in Addrs : u \in ToSet(held[x][c]) => x = t
      BY <3>1 DEF MutexInv, NodesOK
    <3>3. \A k \in Keys : u \notin ToSet(mutexTree[k])
      BY <3>1 DEF MutexInv, NodesOK
    <3>4. QED
      BY <1>9, <1>10, <2>2, <3>2, <3>3
  <2>3. ASSUME NEW u \in LockThreads, u \notin W
        PROVE  /\ \A x \in LockThreads, b \in Addrs : u \in ToSet(held'[x][b]) <=> u \in ToSet(held[x][b])
               /\ wait'[u] = wait[u]
    BY <1>6, <1>9, <1>10, <2>3
  <2>4. ASSUME NEW u \in LockThreads
        PROVE  /\ \A o, p \in LockThreads, a, b \in Addrs :
                     u \in ToSet(held'[o][a]) /\ u \in ToSet(held'[p][b]) => o = p /\ a = b
               /\ \A o \in LockThreads, a \in Addrs : u \in ToSet(held'[o][a]) =>
                     addrKey[u] = a /\ wait'[u] # "None" /\ \A k \in Keys : u \notin ToSet(mutexTree[k])
               /\ \A k \in Keys : u \in ToSet(mutexTree[k]) =>
                     wait'[u] = "CondVar" /\ \A l \in Keys : u \in ToSet(mutexTree[l]) => k = l
               /\ wait'[u] # "None" =>
                     \/ \E o \in LockThreads, a \in Addrs : u \in ToSet(held'[o][a])
                     \/ \E k \in Keys : u \in ToSet(mutexTree[k])
    <3>1. CASE u \in W
      BY <2>2, <3>1
    <3>2. CASE u \notin W
      BY <1>2, <2>3, <3>2 DEF MutexInv, NodesOK
    <3>3. QED
      BY <3>1, <3>2
  <2>5. QED
    BY <1>2, <2>1, <2>4 DEF NodesOK
<1>15. OpOK'
  BY <1>2, <1>11 DEF OpOK
<1>16. WordOK'
  BY <1>2, <1>8, <1>11 DEF MutexInv, WordOK
<1>17. HoldOK'
  BY <1>2, <1>10, <1>11 DEF MutexInv, HoldOK
<1>18. Locks!WaiterFlagSet' /\ WalkOK'
  BY <1>2, <1>11, NoWalk DEF MutexInv
<1>19. Sorted'
  <2>1. Ordered(<<>>, prio)
    BY DEF Ordered
  <2>2. QED
    BY <1>8, <1>11, <2>1 DEF MutexInv, Sorted
<1>20. PrioOK'
  <2>1. ASSUME NEW u \in LockThreads, pc'[u] # "Finalized", u # restoring'
        PROVE  Best(prio[u], base[u], WaitersOf(held'[u]), prio)
    <3>1. u # t /\ pc[u] # "Finalized" /\ u # restoring /\ held'[u] = held[u]
      BY <1>1, <1>10, <1>11, <1>4, <2>1 DEF HeldType
    <3>2. QED
      BY <3>1 DEF MutexInv, PrioOK
  <2>2. QED
    BY <1>11, <2>1 DEF PrioOK
<1>21. QED
  BY <1>12, <1>13, <1>14, <1>15, <1>16, <1>17, <1>18, <1>19, <1>20 DEF MutexInv

LEMMA KeptByStuttering ==
    ASSUME MutexInv, UNCHANGED Locks!vars
    PROVE  MutexInv'
<1>1. UNCHANGED <<memOwner, memWait, cvFlag, base, prio, held, mutexTree, wait, addrKey, mutexTimers, ownerRef, result, op, restoring, pc, want, seen, holds, termRequested>>
  BY DEF Locks!vars, Locks!memVars, Locks!prioVars, Locks!waitVars, Locks!guestVars
<1>2. Locks!TypeOK'
  BY <1>1 DEF MutexInv, Locks!TypeOK
<1>3. NodesOK'
  BY <1>1, SameNodes DEF MutexInv, Passing
<1>4. GuestOK' /\ WordOK' /\ HoldOK' /\ OpOK'
  BY <1>1 DEF MutexInv, GuestOK, WordOK, HoldOK, OpOK, Passing
<1>5. Locks!WaiterFlagSet' /\ WalkOK' /\ Sorted'
  BY <1>1 DEF MutexInv, Locks!WaiterFlagSet, WalkOK, Owning, Before, Sorted
<1>6. PrioOK'
  BY <1>1, SamePriorities DEF MutexInv
<1>7. QED
  BY <1>2, <1>3, <1>4, <1>5, <1>6 DEF MutexInv

\* Every step of a program keeps the invariant.
LEMMA KeptBySteps ==
    ASSUME Locks!NoneAssumption, Locks!PrioAssumption, MutexInv,
           NEW addrs \in SUBSET Addrs, NEW keys \in SUBSET Keys, NEW mortal \in SUBSET LockThreads,
           NEW adjustable \in SUBSET LockThreads, NEW prios \in SUBSET Nat,
           Locks!Steps(addrs, keys, mortal, adjustable, prios)
    PROVE  MutexInv'
<1>1. CASE Locks!KernelStep
  <2>1. CASE Locks!RestorePriority
    BY <2>1, KeptByRestorePriority
  <2>2. CASE Locks!SignalToAddressWrite
    BY <2>2, KeptBySignalToAddressWrite
  <2>3. CASE Locks!WaitSleep
    BY <2>3, KeptByWaitSleep
  <2>4. CASE Locks!SignalImpl
    BY <2>4, KeptBySignalImpl
  <2>5. CASE Locks!SignalEnd
    BY <2>5, KeptBySignalEnd
  <2>6. CASE Locks!RequestTerminateCancel
    BY <2>6, KeptByRequestTerminateCancel
  <2>7. QED
    BY <1>1, <2>1, <2>2, <2>3, <2>4, <2>5, <2>6 DEF Locks!KernelStep
<1>2. ASSUME NEW t \in LockThreads, Locks!GuestStep(t, addrs)
      PROVE  MutexInv'
  <2>1. CASE Locks!GuestLockCas(t)
    BY <2>1, KeptByGuestLockCas
  <2>2. ASSUME NEW a \in Addrs, Locks!GuestLock(t, a)
        PROVE  MutexInv'
    BY <2>2, KeptByGuestLock
  <2>3. ASSUME NEW a \in Addrs, Locks!GuestUnlock(t, a)
        PROVE  MutexInv'
    BY <2>3, KeptByGuestUnlock
  <2>4. QED
    BY <1>2, <2>1, <2>2, <2>3 DEF Locks!GuestStep
<1>3. ASSUME NEW t \in LockThreads, Locks!SystemCall(t, addrs, keys)
      PROVE  MutexInv'
  <2>1. CASE Locks!WaitForAddress(t)
    BY <2>1, KeptByWaitForAddress
  <2>2. ASSUME NEW a \in Addrs, Locks!SignalToAddress(t, a)
        PROVE  MutexInv'
    BY <2>2, KeptBySignalToAddress
  <2>3. ASSUME NEW a \in Addrs, NEW k \in Keys, NEW timeout \in Locks!Timeouts, Locks!Wait(t, a, k, timeout)
        PROVE  MutexInv'
    BY <2>3, KeptByWait
  <2>4. CASE Locks!Return(t)
    BY <2>4, KeptByReturn
  <2>5. QED
    BY <1>3, <2>1, <2>2, <2>3, <2>4 DEF Locks!SystemCall
<1>4. ASSUME NEW t \in LockThreads, Locks!OnTimer(t)
      PROVE  MutexInv'
  BY <1>4, KeptByOnTimer
<1>5. ASSUME NEW t \in LockThreads, Locks!RequestTerminate(t) \/ Locks!Exit(t) \/ Locks!Finalize(t)
      PROVE  MutexInv'
  BY <1>5, KeptByRequestTerminate, KeptByExit, KeptByFinalize
<1>6. ASSUME NEW t \in LockThreads, NEW p \in Nat, Locks!SetBasePriority(t, p)
      PROVE  MutexInv'
  BY <1>6, KeptBySetBasePriority
<1>7. ASSUME NEW k \in Keys, NEW count \in {-1, 1}, Locks!Signal(k, count)
      PROVE  MutexInv'
  <2>1. count \in Int
    OBVIOUS
  <2>2. QED
    BY <1>7, <2>1, KeptBySignal
<1>8. QED
  BY <1>1, <1>2, <1>3, <1>4, <1>5, <1>6, <1>7 DEF Locks!Steps

\* The invariant holds at first.
LEMMA MutexInit ==
    ASSUME Locks!NoneAssumption, Locks!PrioAssumption, Locks!Init
    PROVE  MutexInv
<1>1. /\ op.kind = "Idle" /\ ~Passing
      /\ op \in [kind : {"Idle", "Unlock", "CvWait", "Signal", "Terminate"},
                  thread : LockThreads \cup {None}, addr : Addrs \cup {None}, key : Keys \cup {None},
                  next : LockThreads \cup {None}, more : {0, 1}, timeout : Locks!Timeouts, left : Int,
                  it : LockThreads \cup {None}]
  BY DEF Locks!Init, Locks!Idle, Passing, Locks!Timeouts
<1>2. Locks!TypeOK
  <2>1. held \in HeldType /\ mutexTree \in [Keys -> Seq(LockThreads)]
    BY DEF Locks!Init, HeldType
  <2>2. QED
    BY <1>1, <2>1 DEF Locks!Init, Locks!TypeOK, HeldType, Locks!PrioAssumption, Locks!Results
<1>3. ToSet(<<>>) = {} /\ Ordered(<<>>, prio)
  BY DEF ToSet, Ordered
<1>4. /\ \A t \in LockThreads, a \in Addrs : held[t][a] = <<>>
      /\ \A k \in Keys : mutexTree[k] = <<>>
      /\ \A t \in LockThreads : wait[t] = "None" /\ pc[t] = "User" /\ holds[t] = {}
  BY DEF Locks!Init
<1>5. /\ \A t \in LockThreads, a \in Addrs : \A u : u \notin ToSet(held[t][a])
      /\ \A k \in Keys : \A u : u \notin ToSet(mutexTree[k])
  BY <1>3, <1>4
<1>6. GuestOK /\ NodesOK /\ OpOK /\ WordOK /\ HoldOK /\ Locks!WaiterFlagSet /\ WalkOK /\ Sorted
  <2>1. GuestOK /\ OpOK /\ WordOK /\ HoldOK
    BY <1>1, <1>4 DEF GuestOK, OpOK, WordOK, HoldOK
  <2>2. NodesOK /\ Sorted
    BY <1>3, <1>4, <1>5 DEF NodesOK, Sorted
  <2>3. Locks!WaiterFlagSet
    BY <1>5, SameOperators DEF Locks!WaiterFlagSet
  <2>4. WalkOK
    BY <1>1 DEF WalkOK
  <2>5. QED
    BY <2>1, <2>2, <2>3, <2>4
<1>7. PrioOK
  <2>1. \A t \in LockThreads : WaitersOf(held[t]) = {} /\ prio[t] = base[t] /\ base[t] \in Nat
    BY <1>5 DEF WaitersOf, Locks!Init, Locks!PrioAssumption
  <2>2. QED
    BY <2>1 DEF PrioOK, Best
<1>8. QED
  BY <1>2, <1>6, <1>7 DEF MutexInv
-----------------------------------------------------------------------------
\* What the invariant implies.
LEMMA NoOperation == ASSUME Locks!NoneAssumption, Locks!Unlocked PROVE ~Passing /\ restoring = None
BY DEF Locks!Unlocked, Locks!Idle, Passing

LEMMA InheritsWhenUnlocked ==
    ASSUME Locks!NoneAssumption, MutexInv
    PROVE  Locks!PriorityInherited
<1> SUFFICES ASSUME Locks!Unlocked, NEW t \in LockThreads, pc[t] # "Finalized"
             PROVE  prio[t] = Locks!InheritedPriority(t)
  BY DEF Locks!PriorityInherited
<1>1. held \in HeldType /\ prio \in [LockThreads -> Nat] /\ base \in [LockThreads -> Nat]
  BY DEF MutexInv, Locks!TypeOK, HeldType
<1>2. PICK h \in [Addrs -> Seq(LockThreads)] : h = held[t]
  BY <1>1 DEF HeldType
<1>3. Best(prio[t], base[t], WaitersOf(h), prio)
  BY <1>2, NoOperation, NoThread DEF MutexInv, PrioOK
<1>4. prio[t] \in Nat /\ base[t] \in Nat /\ \A a \in Addrs : Ordered(h[a], prio)
  BY <1>1, <1>2 DEF MutexInv, Sorted
<1>5. prio[t] = InheritedOf(base[t], h, prio)
  BY <1>1, <1>3, <1>4, BestIs
<1>6. QED
  BY <1>2, <1>5, SameOperators DEF InheritedOf, Locks!InheritedPriority

LEMMA SortedTrees == ASSUME MutexInv PROVE Locks!TreesOrdered
BY DEF MutexInv, Sorted, Locks!TreesOrdered, Ordered

LEMMA MatchingWords == ASSUME Locks!NoneAssumption, MutexInv PROVE Locks!WaitersMatchWord
BY NoOperation DEF MutexInv, WordOK, Locks!WaitersMatchWord

LEMMA OwnedMutexes == ASSUME Locks!NoneAssumption, MutexInv PROVE Locks!MutexOwned
BY NoOperation DEF MutexInv, HoldOK, Locks!MutexOwned

LEMMA SingleNodes ==
    ASSUME Locks!NoneAssumption, MutexInv
    PROVE  Locks!OneTreeNode
<1> SUFFICES ASSUME Locks!Unlocked, NEW t \in LockThreads
             PROVE  LET locks == {oa \in LockThreads \X Addrs : t \in ToSet(held[oa[1]][oa[2]])}
                        keys == {k \in Keys : t \in ToSet(mutexTree[k])}
                    IN  /\ Cardinality(locks) + Cardinality(keys) = IF wait[t] = "None" THEN 0 ELSE 1
                        /\ wait[t] = "Address" => keys = {}
                        /\ \A oa \in locks : oa[2] = addrKey[t]
  BY SameOperators DEF Locks!OneTreeNode
<1> DEFINE locks == {oa \in LockThreads \X Addrs : t \in ToSet(held[oa[1]][oa[2]])}
           keys == {k \in Keys : t \in ToSet(mutexTree[k])}
<1>1. /\ \A o, p \in LockThreads, a, b \in Addrs :
            t \in ToSet(held[o][a]) /\ t \in ToSet(held[p][b]) => o = p /\ a = b
      /\ \A o \in LockThreads, a \in Addrs : t \in ToSet(held[o][a]) =>
            addrKey[t] = a /\ wait[t] # "None" /\ \A k \in Keys : t \notin ToSet(mutexTree[k])
      /\ \A k \in Keys : t \in ToSet(mutexTree[k]) =>
            wait[t] = "CondVar" /\ \A l \in Keys : t \in ToSet(mutexTree[l]) => k = l
      /\ wait[t] # "None" =>
            \/ \E o \in LockThreads, a \in Addrs : t \in ToSet(held[o][a])
            \/ \E k \in Keys : t \in ToSet(mutexTree[k])
  BY NoOperation DEF MutexInv, NodesOK
<1>2. (wait[t] = "Address" => keys = {}) /\ \A oa \in locks : oa[2] = addrKey[t]
  BY <1>1
<1>3. CASE wait[t] = "None"
  <2>1. locks = {} /\ keys = {}
    BY <1>1, <1>3
  <2>2. Cardinality({}) = 0
    BY FS_EmptySet
  <2> HIDE DEF locks, keys
  <2>3. Cardinality(locks) + Cardinality(keys) = IF wait[t] = "None" THEN 0 ELSE 1
    BY <1>3, <2>1, <2>2
  <2>4. QED
    BY <1>2, <2>3 DEF locks, keys
<1>4. CASE \E o \in LockThreads, a \in Addrs : t \in ToSet(held[o][a])
  <2>1. PICK o \in LockThreads, a \in Addrs : t \in ToSet(held[o][a])
    BY <1>4
  <2>2. locks = {<<o, a>>} /\ keys = {} /\ wait[t] # "None"
    BY <1>1, <2>1
  <2>3. Cardinality({<<o, a>>}) = 1 /\ Cardinality({}) = 0
    BY FS_EmptySet, FS_Singleton
  <2> HIDE DEF locks, keys
  <2>4. Cardinality(locks) + Cardinality(keys) = IF wait[t] = "None" THEN 0 ELSE 1
    BY <2>2, <2>3
  <2>5. QED
    BY <1>2, <2>4 DEF locks, keys
<1>5. CASE \E k \in Keys : t \in ToSet(mutexTree[k])
  <2>1. PICK k \in Keys : t \in ToSet(mutexTree[k])
    BY <1>5
  <2>2. locks = {} /\ keys = {k} /\ wait[t] # "None"
    BY <1>1, <2>1
  <2>3. Cardinality({k}) = 1 /\ Cardinality({}) = 0
    BY FS_EmptySet, FS_Singleton
  <2> HIDE DEF locks, keys
  <2>4. Cardinality(locks) + Cardinality(keys) = IF wait[t] = "None" THEN 0 ELSE 1
    BY <2>2, <2>3
  <2>5. QED
    BY <1>2, <2>4 DEF locks, keys
<1>6. QED
  BY <1>1, <1>3, <1>4, <1>5

\* Mutexes and condition variables, for all threads, addresses and priorities: what a Signal
\* leaves behind its iterator are waiters that own a mutex.
THEOREM MutexCorrect ==
    ASSUME Locks!NoneAssumption, Locks!PrioAssumption
    PROVE  Locks!Spec =>
               [](/\ MutexInv
                  /\ Locks!PriorityInherited /\ Locks!TreesOrdered
                  /\ Locks!OneTreeNode /\ Locks!WaitersMatchWord
                  /\ Locks!MutexOwned /\ Locks!WaiterFlagSet)
<1>1. Locks!Init => MutexInv
  BY MutexInit
<1>2. MutexInv /\ [Locks!Next]_Locks!vars => MutexInv'
  BY KeptBySteps, KeptByStuttering DEF Locks!Next, Locks!PrioAssumption
<1>3. MutexInv => Locks!PriorityInherited /\ Locks!TreesOrdered /\ Locks!OneTreeNode /\ Locks!WaitersMatchWord
                  /\ Locks!MutexOwned /\ Locks!WaiterFlagSet
  BY InheritsWhenUnlocked, SortedTrees, SingleNodes, MatchingWords, OwnedMutexes DEF MutexInv
<1>4. QED
  BY <1>1, <1>2, <1>3, PTL DEF Locks!Spec

\* Every step of the suite keeps the invariant.
LEMMA MutexKept ==
    ASSUME Locks!NoneAssumption, Locks!PrioAssumption, MutexInv, [LocksNext]_allVars
    PROVE  MutexInv'
<1>1. /\ Adjustable \subseteq LockThreads /\ Mortal \subseteq LockThreads /\ BasePrios \subseteq Nat
  BY DEF Locks!PrioAssumption
<1>2. CASE MutexSteps
  <2>1. /\ {"a1"} \cap Addrs \in SUBSET Addrs /\ Keys \in SUBSET Keys /\ Mortal \in SUBSET LockThreads
        /\ Adjustable \ {"t1"} \in SUBSET LockThreads /\ {1} \cap BasePrios \in SUBSET Nat
    BY <1>1
  <2>2. QED
    BY <1>2, <2>1, KeptBySteps DEF MutexSteps
<1>3. CASE ChainSteps
  <2>1. /\ Addrs \in SUBSET Addrs /\ {} \in SUBSET Keys /\ Mortal \ {"t1"} \in SUBSET LockThreads
        /\ Adjustable \ {"t3"} \in SUBSET LockThreads /\ BasePrios \in SUBSET Nat
    BY <1>1
  <2>2. QED
    BY <1>3, <2>1, KeptBySteps DEF ChainSteps
<1>4. CASE WalkSteps
  <2>1. /\ Addrs \in SUBSET Addrs /\ Keys \in SUBSET Keys /\ {} \in SUBSET LockThreads /\ {} \in SUBSET Nat
    OBVIOUS
  <2>2. Locks!Steps(Addrs, Keys, {}, {}, {})
    <3>1. "Infinite" \in Locks!Timeouts
      BY DEF Locks!Timeouts
    <3>2. QED
      BY <1>4, <3>1 DEF WalkSteps, Locks!Steps, Locks!SystemCall
  <2>3. QED
    BY <2>1, <2>2, KeptBySteps
<1>5. CASE UNCHANGED mutexVars
  <2>1. UNCHANGED Locks!vars
    BY <1>5 DEF mutexVars, Locks!vars, Locks!memVars, Locks!prioVars, Locks!waitVars, Locks!guestVars
  <2>2. QED
    BY <2>1, KeptByStuttering
<1>6. QED
  BY <1>2, <1>3, <1>4, <1>5 DEF LocksNext, allVars

\* Whenever no kernel operation is under way, every thread has exactly the priority its own
\* and its waiters' priorities give it, and the trees of waiters are ordered at all times.
THEOREM PrioritiesInherited ==
    ASSUME Locks!NoneAssumption, Locks!PrioAssumption
    PROVE  LocksSpec => []PriorityInherited
<1>1. LocksInit => MutexInv
  BY MutexInit DEF LocksInit
<1>2. MutexInv /\ [LocksNext]_allVars => MutexInv'
  BY MutexKept
<1>3. MutexInv => PriorityInherited
  BY InheritsWhenUnlocked, SortedTrees DEF PriorityInherited
<1>4. QED
  BY <1>1, <1>2, <1>3, PTL DEF LocksSpec

\* The waiters kept under a thread are those of a mutex whose word names it with the waiters
\* bit, each in one tree; two threads never hold a mutex together, a wait that ends in success
\* ends with the mutex, and a condition variable that a thread waits for which owns no mutex
\* has its word set, wherever the iterator of a Signal comes to stand.
THEOREM MutexesHandedOver ==
    ASSUME Locks!NoneAssumption, Locks!PrioAssumption
    PROVE  LocksSpec => []MutexHandover
<1>1. LocksInit => MutexInv
  BY MutexInit DEF LocksInit
<1>2. MutexInv /\ [LocksNext]_allVars => MutexInv'
  BY MutexKept
<1>3. MutexInv => MutexHandover
  BY SingleNodes, MatchingWords, OwnedMutexes DEF MutexHandover, MutexInv
<1>4. QED
  BY <1>1, <1>2, <1>3, PTL DEF LocksSpec
-----------------------------------------------------------------------------
(***************************************************************************)
(* The ticks of the time-outs.                                             *)
(***************************************************************************)

\* What the tick given to the kernel is, for the time-out that was asked for.
DeadlineOf ==
    \/ asked < 0 /\ deadline = asked
    \/ asked > 0 /\ deadline = since + asked + 2
    \/ asked > 0 /\ since + asked + 2 > MaxTick /\ (deadline < 0 \/ deadline = MaxTick)

SvcInv ==
    /\ Svc!TypeOK /\ Svc!NeverEarly
    /\ since <= now
    /\ call = "waiting" => DeadlineOf

\* The sum of the clock and a time-out wraps to a negative tick, never to another one.
LEMMA TickOfTimeout ==
    ASSUME Svc!MaxTickAssumption, now \in 0 .. MaxNow, NEW ns \in Svc!Tick
    PROVE  /\ Svc!AbsoluteTick(ns) \in Svc!Tick
           /\ ns <= 0 => Svc!AbsoluteTick(ns) = ns
           /\ ns > 0 => \/ Svc!AbsoluteTick(ns) = now + ns + 2
                        \/ now + ns + 2 > MaxTick /\ Svc!AbsoluteTick(ns) < 0
<1>1. MaxTick \in Nat /\ MaxNow \in Nat /\ MaxNow < MaxTick /\ now \in Nat /\ now <= MaxNow
  BY DEF Svc!MaxTickAssumption
<1>2. ns \in Int /\ -(MaxTick + 1) <= ns /\ ns <= MaxTick
  BY <1>1 DEF Svc!Tick
<1>3. CASE ns <= 0
  BY <1>1, <1>2, <1>3 DEF Svc!AbsoluteTick
<1>4. CASE ns > 0
  <2>1. PICK x \in Nat : x = now + ns + 2
    BY <1>1, <1>2, <1>4
  <2>2. Svc!AbsoluteTick(ns) = IF x > MaxTick THEN x - 2 * (MaxTick + 1) ELSE x
    BY <1>4, <2>1 DEF Svc!AbsoluteTick, Svc!ToS64
  <2>3. CASE x > MaxTick
    <3>1. Svc!AbsoluteTick(ns) = x - 2 * (MaxTick + 1)
      BY <2>2, <2>3
    <3>2. x - 2 * (MaxTick + 1) < 0 /\ x - 2 * (MaxTick + 1) >= -(MaxTick + 1)
      BY <1>1, <1>2, <2>1, <2>3
    <3>3. QED
      BY <1>1, <1>4, <2>1, <2>3, <3>1, <3>2 DEF Svc!Tick
  <2>4. CASE ~(x > MaxTick)
    BY <1>1, <1>4, <2>1, <2>2, <2>4 DEF Svc!Tick
  <2>5. QED
    BY <2>3, <2>4
<1>5. QED
  BY <1>2, <1>3, <1>4

LEMMA TickIsInt ==
    ASSUME Svc!MaxTickAssumption
    PROVE  /\ MaxTick \in Nat /\ MaxNow \in Nat /\ MaxNow < MaxTick
           /\ 0 \in Svc!Tick /\ MaxTick \in Svc!Tick
           /\ \A x \in Svc!Tick : x \in Int
BY DEF Svc!MaxTickAssumption, Svc!Tick

\* A call that waits for the tick d.
LEMMA KeptByWaiting ==
    ASSUME Svc!MaxTickAssumption, SvcInv, NEW ns \in Svc!Tick, NEW d \in Svc!Tick, Svc!Wait(ns, d),
           \/ ns <= 0 /\ d = ns
           \/ ns > 0 /\ d = now + ns + 2
           \/ ns > 0 /\ now + ns + 2 > MaxTick /\ (d < 0 \/ d = MaxTick)
    PROVE  SvcInv'
<1>1. /\ asked' = ns /\ since' = now /\ deadline' = d /\ now' = now
      /\ call' = IF d = 0 THEN "polled" ELSE "waiting"
  BY DEF Svc!Wait
<1>2. /\ now \in 0 .. MaxNow /\ MaxTick \in Nat /\ MaxNow \in Nat /\ MaxNow < MaxTick
      /\ ns \in Int /\ d \in Int
  BY TickIsInt DEF SvcInv, Svc!TypeOK
<1>3. Svc!TypeOK'
  BY <1>1, <1>2 DEF Svc!TypeOK
<1>4. d = 0 => ns = 0
  BY <1>2
<1>5. d # 0 => DeadlineOf'
  BY <1>1, <1>2 DEF DeadlineOf
<1>6. Svc!NeverEarly'
  BY <1>1, <1>4 DEF Svc!NeverEarly
<1>7. QED
  BY <1>1, <1>2, <1>3, <1>5, <1>6 DEF SvcInv

LEMMA SvcKept ==
    ASSUME Svc!MaxTickAssumption, SvcInv, [Svc!Next]_svcVars
    PROVE  SvcInv'
<1>1. /\ now \in 0 .. MaxNow /\ since \in 0 .. MaxNow /\ MaxTick \in Nat /\ MaxNow \in Nat
      /\ MaxNow < MaxTick /\ asked \in Int /\ deadline \in Int
      /\ since <= now
  BY TickIsInt DEF SvcInv, Svc!TypeOK
<1>2. 0 \in Svc!Tick /\ MaxTick \in Svc!Tick
  BY TickIsInt
<1>3. ASSUME NEW ns \in Svc!Tick,
             Svc!WaitSynchronization(ns) \/ Svc!WaitForAddress(ns) \/ Svc!SleepThread(ns)
      PROVE  SvcInv'
  <2>1. PICK x : x = Svc!AbsoluteTick(ns)
    OBVIOUS
  <2>2. /\ x \in Svc!Tick /\ (ns <= 0 => x = ns)
        /\ ns > 0 => x = now + ns + 2 \/ (now + ns + 2 > MaxTick /\ x < 0)
    BY <1>1, <2>1, TickOfTimeout
  <2>3. x \in Int /\ ns \in Int
    BY <2>2, TickIsInt
  <2>4. PICK c \in Svc!Tick : c = Svc!Clamped(x)
    BY <1>2, <2>2 DEF Svc!Clamped
  <2>5. ns > 0 => c = now + ns + 2 \/ (now + ns + 2 > MaxTick /\ (c < 0 \/ c = MaxTick))
    BY <1>1, <2>2, <2>3, <2>4 DEF Svc!Clamped
  <2>6. CASE Svc!Wait(ns, x)
    BY <1>1, <2>2, <2>3, <2>6, KeptByWaiting
  <2>7. CASE ns > 0 /\ Svc!Wait(ns, c)
    BY <1>1, <2>3, <2>4, <2>5, <2>7, KeptByWaiting
  <2>8. CASE ns <= 0 /\ Svc!Wait(ns, ns)
    BY <1>1, <2>3, <2>8, KeptByWaiting
  <2>9. QED
    BY <1>3, <2>1, <2>3, <2>4, <2>6, <2>7, <2>8
    DEF Svc!WaitSynchronization, Svc!WaitForAddress, Svc!SleepThread
<1>4. CASE Svc!OnTimer
  <2>1. /\ call = "waiting" /\ 0 < deadline /\ deadline <= now /\ call' = "timed out"
        /\ UNCHANGED <<now, asked, since, deadline>>
    BY <1>4 DEF Svc!OnTimer
  <2>2. asked > 0 /\ now - since >= asked
    <3>1. DeadlineOf
      BY <2>1 DEF SvcInv
    <3>2. 0 < deadline /\ deadline <= now /\ now <= MaxNow
      <4>1. 0 < deadline /\ deadline <= now
        BY <2>1
      <4>2. now <= MaxNow
        BY <1>1
      <4>3. QED
        BY <4>1, <4>2
    <3>3. asked > 0 /\ deadline = since + asked + 2
      BY <1>1, <3>1, <3>2 DEF DeadlineOf
    <3>4. QED
      BY <1>1, <3>2, <3>3
  <2>3. QED
    BY <2>1, <2>2 DEF SvcInv, Svc!TypeOK, Svc!NeverEarly
<1>5. CASE Svc!Return
  <2>1. call' = "idle" /\ asked' = 0 /\ since' = 0 /\ deadline' = 0 /\ now' = now
    BY <1>5 DEF Svc!Return
  <2>2. 0 \in 0 .. MaxNow /\ 0 <= now
    BY <1>1
  <2>3. Svc!TypeOK'
    BY <1>1, <1>2, <2>1, <2>2 DEF Svc!TypeOK
  <2>4. QED
    BY <2>1, <2>2, <2>3 DEF SvcInv, Svc!NeverEarly
<1>6. CASE Svc!Advance
  <2>1. /\ now < MaxNow /\ now' = now + 1 /\ UNCHANGED <<call, asked, since, deadline>>
    BY <1>6 DEF Svc!Advance
  <2>2. now' \in 0 .. MaxNow /\ since <= now'
    BY <1>1, <2>1
  <2>3. now - since >= asked => now' - since >= asked
    BY <1>1, <2>1
  <2>4. Svc!NeverEarly'
    BY <2>1, <2>3 DEF SvcInv, Svc!NeverEarly
  <2>5. QED
    BY <2>1, <2>2, <2>4 DEF SvcInv, Svc!TypeOK, DeadlineOf
<1>7. CASE UNCHANGED svcVars
  BY <1>7 DEF svcVars, SvcInv, Svc!TypeOK, Svc!NeverEarly, DeadlineOf
<1>8. QED
  BY <1>3, <1>4, <1>5, <1>6, <1>7 DEF Svc!Next

\* A wait that times out has lasted as long as was asked for, one that comes back at once was
\* asked to, and one without an end was asked for or would outlast the clock: for ticks of
\* any width.
THEOREM DeadlinesHonoured ==
    ASSUME Svc!MaxTickAssumption
    PROVE  LocksSpec => []DeadlineHonoured
<1>1. LocksInit => SvcInv
  <2> SUFFICES ASSUME Svc!Init PROVE SvcInv
    BY DEF LocksInit
  <2>1. 0 \in 0 .. MaxNow /\ 0 \in Svc!Tick
    BY DEF Svc!MaxTickAssumption, Svc!Tick
  <2>2. QED
    BY <2>1 DEF Svc!Init, SvcInv, Svc!TypeOK, Svc!NeverEarly
<1>2. SvcInv /\ [LocksNext]_allVars => SvcInv'
  <2> SUFFICES ASSUME SvcInv, [LocksNext]_allVars PROVE SvcInv'
    OBVIOUS
  <2>1. [Svc!Next]_svcVars
    BY DEF LocksNext, allVars
  <2>2. QED
    BY <2>1, SvcKept
<1>3. SvcInv => DeadlineHonoured
  <2> SUFFICES ASSUME SvcInv PROVE DeadlineHonoured
    OBVIOUS
  <2>1. /\ since \in Int /\ asked \in Int /\ deadline \in Int /\ since >= 0 /\ MaxTick \in Nat
    <3>1. since \in 0 .. MaxNow /\ asked \in Svc!Tick /\ deadline \in Svc!Tick
      BY DEF SvcInv, Svc!TypeOK
    <3>2. QED
      BY <3>1, TickIsInt
  <2>2. Svc!EndlessIsLong
    BY <2>1 DEF SvcInv, DeadlineOf, Svc!EndlessIsLong
  <2>3. QED
    BY <2>2 DEF SvcInv, DeadlineHonoured
<1>4. QED
  BY <1>1, <1>2, <1>3, PTL DEF LocksSpec
=============================================================================
