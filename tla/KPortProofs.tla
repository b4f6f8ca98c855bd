---------------------------- MODULE KPortProofs ----------------------------
(***************************************************************************)
(* Proof that ports count their sessions, outlive them and strand none,    *)
(* for any set of sessions and any limit: PortInv is inductive.  The       *)
(* actions are grouped by what they change: the calls of one session, the  *)
(* list, and the ends of the port.                                         *)
(*                                                                         *)
(* Then that the loop of the service threads forgets nothing it waits for, *)
(* for any threads and sessions: LoopInv is inductive, action by action.   *)
(*                                                                         *)
(* Then that sessions answer the request a client waits for, for any       *)
(* clients, servers and requests: SessInv is inductive in the same way.    *)
(***************************************************************************)
EXTENDS MCIpc, FiniteSetTheorems, SequenceTheorems, TLAPS

\* What Head and Tail leave of a list without repetition (AcceptSession, CleanupSessions).
LEMMA TailOfList ==
    ASSUME NEW S, NEW q \in Seq(S), q # <<>>,
           \A i, j \in 1 .. Len(q) : q[i] = q[j] => i = j
    PROVE  /\ Head(q) \in {q[i] : i \in 1 .. Len(q)}
           /\ Tail(q) \in Seq(S)
           /\ {Tail(q)[i] : i \in 1 .. Len(Tail(q))} = {q[i] : i \in 1 .. Len(q)} \ {Head(q)}
           /\ \A i, j \in 1 .. Len(Tail(q)) : Tail(q)[i] = Tail(q)[j] => i = j
<1>1. /\ Len(q) \in Nat \ {0} /\ Head(q) = q[1] /\ Tail(q) \in Seq(S)
      /\ Len(Tail(q)) = Len(q) - 1 /\ \A i \in 1 .. Len(Tail(q)) : Tail(q)[i] = q[i + 1]
  BY HeadTailProperties, LenProperties, EmptySeq
<1>2. \A i, j \in 1 .. Len(Tail(q)) : Tail(q)[i] = Tail(q)[j] => i = j
  BY <1>1
<1>3. {Tail(q)[i] : i \in 1 .. Len(Tail(q))} \subseteq {q[i] : i \in 1 .. Len(q)} \ {Head(q)}
  BY <1>1
<1>4. ASSUME NEW k \in 1 .. Len(q), q[k] # Head(q)
      PROVE  q[k] \in {Tail(q)[i] : i \in 1 .. Len(Tail(q))}
  <2>1. k - 1 \in 1 .. Len(Tail(q)) /\ Tail(q)[k - 1] = q[k]
    BY <1>1, <1>4
  <2>2. QED
    BY <2>1
<1>5. QED
  BY <1>1, <1>2, <1>3, <1>4

\* What Append adds to a list of other sessions (EnqueueSession).
LEMMA AppendToList ==
    ASSUME NEW S, NEW q \in Seq(S), NEW s \in S, s \notin {q[i] : i \in 1 .. Len(q)},
           \A i, j \in 1 .. Len(q) : q[i] = q[j] => i = j
    PROVE  /\ Append(q, s) \in Seq(S) /\ Append(q, s) # <<>>
           /\ Len(Append(q, s)) = Len(q) + 1 /\ Len(q) \in Nat
           /\ {Append(q, s)[i] : i \in 1 .. Len(Append(q, s))} = {q[i] : i \in 1 .. Len(q)} \cup {s}
           /\ \A i, j \in 1 .. Len(Append(q, s)) : Append(q, s)[i] = Append(q, s)[j] => i = j
<1>1. /\ Append(q, s) \in Seq(S) /\ Len(Append(q, s)) = Len(q) + 1 /\ Len(q) \in Nat
      /\ \A i \in 1 .. Len(q) : Append(q, s)[i] = q[i]
      /\ Append(q, s)[Len(q) + 1] = s
  BY AppendProperties, LenProperties
<1>2. Append(q, s) # <<>>
  <2>1. Len(<<>>) = 0
    OBVIOUS
  <2>2. QED
    BY <1>1, <2>1
<1>3. \A i \in 1 .. Len(q) + 1 : i \in 1 .. Len(q) \/ i = Len(q) + 1
  BY <1>1
<1>4. \A i, j \in 1 .. Len(Append(q, s)) : Append(q, s)[i] = Append(q, s)[j] => i = j
  BY <1>1, <1>3
<1>5. {Append(q, s)[i] : i \in 1 .. Len(Append(q, s))} = {q[i] : i \in 1 .. Len(q)} \cup {s}
  <2>1. 1 .. Len(q) \subseteq 1 .. Len(q) + 1 /\ Len(q) + 1 \in 1 .. Len(q) + 1
    BY <1>1
  <2>2. QED
    BY <1>1, <1>3, <2>1
<1>6. QED
  BY <1>1, <1>2, <1>4, <1>5
-----------------------------------------------------------------------------
\* How a step of one call changes the set of calls in progress.
LEMMA ConnectingChanges ==
    ASSUME TypeOK, Finite, NEW s \in Sessions, NEW v, pc' = [pc EXCEPT ![s] = v]
    PROVE  /\ IsFiniteSet(Connecting')
           /\ pc[s] = "idle" /\ v # "idle" => Cardinality(Connecting') = Cardinality(Connecting) + 1
           /\ pc[s] # "idle" /\ v # "idle" => Connecting' = Connecting
           /\ pc[s] # "idle" /\ v = "idle" => Cardinality(Connecting') = Cardinality(Connecting) - 1
<1>1. IsFiniteSet(Connecting)
  BY DEF Finite
<1>2. Connecting' = IF v = "idle" THEN Connecting \ {s} ELSE Connecting \cup {s}
  BY DEF Connecting, TypeOK
<1>3. s \in Connecting <=> pc[s] # "idle"
  BY DEF Connecting
<1>4. QED
  BY <1>1, <1>2, <1>3, FS_AddElement, FS_RemoveElement

\* The invariant counts with natural numbers.
LEMMA Counts ==
    ASSUME TypeOK, PortInv
    PROVE  /\ Cardinality(live) \in Nat /\ Cardinality(Connecting) \in Nat
           /\ \A s : s \in live => Cardinality(live) >= 1
           /\ \A s : s \in Connecting => Cardinality(Connecting) >= 1
<1>1. IsFiniteSet(live) /\ IsFiniteSet(Connecting)
  BY DEF PortInv, Finite
<1>2. Cardinality(live) \in Nat /\ Cardinality(Connecting) \in Nat
  BY <1>1, FS_CardinalityType
<1>3. Cardinality(live) = 0 <=> live = {}
  BY <1>1, FS_EmptySet
<1>4. Cardinality(Connecting) = 0 <=> Connecting = {}
  BY <1>1, FS_EmptySet
<1>5. QED
  BY <1>2, <1>3, <1>4
-----------------------------------------------------------------------------
\* The steps of CreateSession for one session.
LEMMA CallSteps ==
    ASSUME MaxSessionsAssumption, TypeOK, PortInv, NEW s \in Sessions,
           ConnectToPort(s) \/ CreateSession(s) \/ EnqueueSession(s) \/ CloseFailed(s) \/ Return(s)
    PROVE  (TypeOK /\ PortInv)'
<1> USE DEF MaxSessionsAssumption
<1>1. CASE ConnectToPort(s)
  <2>1. /\ IsFiniteSet(Connecting') /\ Cardinality(Connecting') = Cardinality(Connecting) + 1
    <3>1. pc[s] = "idle" /\ pc' = [pc EXCEPT ![s] = "begin"] /\ Finite
      BY <1>1 DEF ConnectToPort, PortInv
    <3>2. /\ IsFiniteSet(Connecting')
          /\ pc[s] = "idle" /\ "begin" # "idle"
                => Cardinality(Connecting') = Cardinality(Connecting) + 1
      BY <3>1, ConnectingChanges
    <3>3. QED
      BY <3>1, <3>2
  <2>2. TypeOK'
    BY <1>1 DEF ConnectToPort, TypeOK, portVars
  <2>3. RefsCounted'
    <3>1. /\ Cardinality(live)' = Cardinality(live) /\ clientRefs' = clientRefs + 1
          /\ UNCHANGED <<clientPort, serverPort, portRefs>> /\ RefsCounted
      BY <1>1 DEF ConnectToPort, portVars, PortInv
    <3>2. QED
      BY <2>1, <3>1, Counts DEF RefsCounted
  <2>4. OnTheWay'
    <3>1. /\ UNCHANGED <<list, accepted, serverEnd, live>> /\ Listed' = Listed
          /\ s \notin live /\ OnTheWay
      BY <1>1 DEF ConnectToPort, portVars, PortInv, Listed
    <3>2. pc'[s] = "begin" /\ \A u \in Sessions \ {s} : pc'[u] = pc[u]
      BY <1>1 DEF ConnectToPort, TypeOK
    <3>3. QED
      BY <3>1, <3>2 DEF OnTheWay
  <2>5. QED
    BY <1>1, <2>1, <2>2, <2>3, <2>4
       DEF ConnectToPort, TypeOK, portVars, PortInv, CountMatches, Finite, ClosedInOrder,
           PortOutlivesSessions, NoStrandedSession, NoMissedNotification, HasRoom
<1>2. CASE CreateSession(s)
  <2>1. /\ IsFiniteSet(Connecting') /\ Cardinality(Connecting') = Cardinality(Connecting)
        /\ s \notin live /\ s \notin accepted /\ s \notin Listed
    BY <1>2, ConnectingChanges DEF CreateSession, PortInv, OnTheWay, TypeOK
  <2>2. /\ IsFiniteSet(live')
        /\ Cardinality(live') = IF HasRoom THEN Cardinality(live) + 1 ELSE Cardinality(live)
    BY <1>2, <2>1, FS_AddElement DEF CreateSession, PortInv, Finite
  <2>3. TypeOK'
    BY <1>2, Counts DEF CreateSession, TypeOK, portVars, WithSession, HasRoom
  <2>4. RefsCounted'
    <3>1. /\ UNCHANGED <<clientPort, serverPort, portRefs>> /\ RefsCounted
          /\ clientRefs' = IF HasRoom THEN clientRefs + 1 ELSE clientRefs
      BY <1>2 DEF CreateSession, portVars, PortInv, WithSession
    <3>2. QED
      BY <2>1, <2>2, <3>1, Counts DEF RefsCounted, HasRoom, TypeOK
  <2>5. OnTheWay'
    <3>1. /\ Listed' = Listed /\ accepted' = accepted /\ OnTheWay
          /\ pc \in [Sessions -> {pc[u] : u \in Sessions}] /\ pc[s] = "begin"
      BY <1>2 DEF CreateSession, TypeOK, portVars, PortInv, Listed
    <3>2. CASE HasRoom
      <4>1. /\ pc' = [pc EXCEPT ![s] = "enqueue"]
            /\ live' = live \cup {s} /\ serverEnd' = serverEnd \cup {s}
        BY <1>2, <3>2 DEF CreateSession
      <4>2. QED
        BY <2>1, <3>1, <4>1 DEF OnTheWay
    <3>3. CASE ~HasRoom
      <4>1. pc' = [pc EXCEPT ![s] = "return"] /\ live' = live /\ serverEnd' = serverEnd
        BY <1>2, <3>3 DEF CreateSession
      <4>2. QED
        BY <3>1, <4>1 DEF OnTheWay
    <3>4. QED
      BY <3>2, <3>3
  <2>6. QED
    BY <1>2, <2>1, <2>2, <2>3, <2>4, <2>5, Counts
       DEF CreateSession, TypeOK, portVars, PortInv, CountMatches, Finite, ClosedInOrder,
           PortOutlivesSessions, NoStrandedSession, NoMissedNotification, HasRoom
<1>3. CASE EnqueueSession(s)
  <2>1. /\ IsFiniteSet(Connecting') /\ Cardinality(Connecting') = Cardinality(Connecting)
        /\ s \in serverEnd /\ s \notin accepted /\ s \notin Listed
    BY <1>3, ConnectingChanges DEF EnqueueSession, PortInv, OnTheWay, TypeOK
  <2>2. CASE MayEnqueue
    <3>1. /\ list' \in Seq(Sessions) /\ list' # <<>> /\ Len(list') = Len(list) + 1
          /\ Len(list) \in Nat
          /\ Listed' = Listed \cup {s}
          /\ \A i, j \in 1 .. Len(list') : list'[i] = list'[j] => i = j
      <4>1. list' = Append(list, s) /\ list \in Seq(Sessions) /\ s \notin Listed
        BY <1>3, <2>1, <2>2 DEF EnqueueSession, TypeOK
      <4>2. \A i, j \in 1 .. Len(list) : list[i] = list[j] => i = j
        BY DEF PortInv, Finite
      <4>3. QED
        BY <4>1, <4>2, AppendToList DEF Listed
    <3>2. TypeOK'
      BY <1>3, <2>2, <3>1 DEF EnqueueSession, TypeOK, portVars, NotifyServer
    <3>3. OnTheWay'
      BY <1>3, <2>1, <2>2, <3>1 DEF EnqueueSession, TypeOK, portVars, PortInv, OnTheWay
    <3>4. NoMissedNotification'
      <4>1. list # <<>> => Len(list) # 0
        BY EmptySeq DEF TypeOK
      <4>2. QED
        BY <1>3, <2>2, <3>1, <4>1
           DEF EnqueueSession, NotifyServer, PortInv, NoMissedNotification, HasRoom
    <3>5. QED
      BY <1>3, <2>1, <2>2, <3>1, <3>2, <3>3, <3>4
         DEF EnqueueSession, MayEnqueue, TypeOK, portVars, PortInv, CountMatches, Finite,
             RefsCounted, ClosedInOrder, PortOutlivesSessions, NoStrandedSession
  <2>3. CASE ~MayEnqueue
    <3>1. /\ pc' = [pc EXCEPT ![s] = "fail"] /\ pc[s] = "enqueue"
          /\ UNCHANGED <<portVars, live, clientEnd, serverEnd, accepted, numSessions, list,
                         clientRefs, sleepers>>
      BY <1>3, <2>3 DEF EnqueueSession
    <3>2. TypeOK' /\ OnTheWay'
      BY <2>1, <3>1 DEF TypeOK, portVars, PortInv, OnTheWay, Listed
    <3>3. Finite' /\ RefsCounted'
      BY <2>1, <3>1 DEF portVars, PortInv, Finite, RefsCounted
    <3>4. QED
      BY <3>1, <3>2, <3>3
         DEF portVars, PortInv, CountMatches, ClosedInOrder, PortOutlivesSessions,
             NoStrandedSession, NoMissedNotification, HasRoom, TypeOK
  <2>4. QED
    BY <2>2, <2>3
<1>4. CASE CloseFailed(s)
  <2>1. /\ IsFiniteSet(Connecting') /\ Cardinality(Connecting') = Cardinality(Connecting)
    BY <1>4, ConnectingChanges DEF CloseFailed, PortInv
  <2>2. TypeOK' /\ OnTheWay'
    BY <1>4 DEF CloseFailed, TypeOK, portVars, PortInv, OnTheWay, Listed
  <2>3. QED
    BY <1>4, <2>1, <2>2
       DEF CloseFailed, TypeOK, portVars, PortInv, CountMatches, Finite, RefsCounted,
           ClosedInOrder, PortOutlivesSessions, NoStrandedSession, NoMissedNotification, HasRoom
<1>5. CASE Return(s)
  <2>1. /\ IsFiniteSet(Connecting') /\ Cardinality(Connecting') = Cardinality(Connecting) - 1
        /\ s \in Connecting
    BY <1>5, ConnectingChanges DEF Return, PortInv, Connecting
  <2>2. clientRefs' \in Nat /\ RefsCounted'
    BY <1>5, <2>1, Counts DEF Return, TypeOK, portVars, PortInv, RefsCounted
  <2>3. TypeOK' /\ OnTheWay'
    BY <1>5, <2>2 DEF Return, TypeOK, portVars, PortInv, OnTheWay, Listed
  <2>4. QED
    BY <1>5, <2>1, <2>2, <2>3
       DEF Return, TypeOK, portVars, PortInv, CountMatches, Finite,
           ClosedInOrder, PortOutlivesSessions, NoStrandedSession, NoMissedNotification, HasRoom
<1>6. QED
  BY <1>1, <1>2, <1>3, <1>4, <1>5

\* The end of a session: the count and the reference it gives back are its own.
LEMMA SessionSteps ==
    ASSUME MaxSessionsAssumption, TypeOK, PortInv, NEW s \in Sessions,
           CloseClientSession(s) \/ CloseServerSession(s) \/ FinalizeSession(s)
    PROVE  (TypeOK /\ PortInv)'
<1> USE DEF MaxSessionsAssumption
<1>1. CASE CloseClientSession(s)
  <2>1. TypeOK' /\ OnTheWay'
    BY <1>1 DEF CloseClientSession, TypeOK, portVars, PortInv, OnTheWay, Listed
  <2>2. QED
    BY <1>1, <2>1
       DEF CloseClientSession, portVars, PortInv, CountMatches, Finite, Connecting, RefsCounted,
           ClosedInOrder, PortOutlivesSessions, NoStrandedSession, NoMissedNotification, HasRoom
<1>2. CASE CloseServerSession(s)
  <2>1. TypeOK' /\ OnTheWay'
    BY <1>2 DEF CloseServerSession, TypeOK, portVars, PortInv, OnTheWay, Listed
  <2>2. QED
    BY <1>2, <2>1
       DEF CloseServerSession, portVars, PortInv, CountMatches, Finite, Connecting, RefsCounted,
           ClosedInOrder, PortOutlivesSessions, NoStrandedSession, NoMissedNotification, HasRoom
<1>3. CASE FinalizeSession(s)
  <2>1. /\ IsFiniteSet(live') /\ Cardinality(live') = Cardinality(live) - 1
        /\ Cardinality(live) >= 1 /\ Connecting' = Connecting
    BY <1>3, Counts, FS_RemoveElement DEF FinalizeSession, PortInv, Finite, Connecting
  <2>2. /\ UNCHANGED <<clientPort, serverPort, portRefs>> /\ RefsCounted
        /\ clientRefs' = clientRefs - 1
    BY <1>3 DEF FinalizeSession, portVars, PortInv
  <2>3. clientRefs' \in Nat /\ RefsCounted'
    <3>1. Cardinality(live) \in Nat /\ Cardinality(Connecting) \in Nat
      BY Counts
    <3>2. PICK held \in 0 .. 1 : /\ held = (IF clientPort = "open" THEN 1 ELSE 0)
                                /\ held = (IF clientPort' = "open" THEN 1 ELSE 0)
      BY <2>2
    <3>3. clientRefs = held + Cardinality(Connecting) + Cardinality(live)
      BY <2>2, <3>2 DEF RefsCounted
    <3>4. clientRefs' = held + Cardinality(Connecting') + Cardinality(live')
      BY <2>1, <2>2, <3>1, <3>3
    <3>5. QED
      BY <2>1, <2>2, <3>1, <3>2, <3>4 DEF RefsCounted
  <2>4. CountMatches' /\ numSessions' \in 0 .. MaxSessions
    <3>1. numSessions \in 0 .. MaxSessions /\ numSessions = Cardinality(live)
          /\ numSessions' = numSessions - 1
      BY <1>3 DEF FinalizeSession, PortInv, CountMatches, TypeOK
    <3>2. Cardinality(live) \in Nat
      BY <3>1
    <3>3. QED
      BY <2>1, <3>1, <3>2, Counts DEF CountMatches
  <2>5. TypeOK' /\ OnTheWay'
    <3>1. TypeOK'
      BY <1>3, <2>3, <2>4 DEF FinalizeSession, TypeOK, portVars, NotifyClient
    <3>2. /\ UNCHANGED <<list, accepted, serverEnd, pc>> /\ Listed' = Listed
          /\ live' \subseteq live /\ OnTheWay
      BY <1>3 DEF FinalizeSession, portVars, PortInv, Listed
    <3>3. OnTheWay'
      BY <3>2 DEF OnTheWay
    <3>4. QED
      BY <3>1, <3>3
  <2>6. NoMissedNotification'
    BY <1>3, <2>4
       DEF FinalizeSession, NotifyClient, PortInv, NoMissedNotification, HasRoom, TypeOK
  <2>7. QED
    BY <1>3, <2>1, <2>3, <2>4, <2>5, <2>6
       DEF FinalizeSession, portVars, PortInv, Finite, ClosedInOrder, PortOutlivesSessions,
           NoStrandedSession
<1>4. QED
  BY <1>1, <1>2, <1>3

\* The server takes the first session of the list, to serve it or to close it.
LEMMA ListSteps ==
    ASSUME TypeOK, PortInv, AcceptSession \/ CleanupSessions
    PROVE  (TypeOK /\ PortInv)'
<1>1. list # <<>> /\ list \in Seq(Sessions) /\ list' = Tail(list)
  BY DEF AcceptSession, CleanupSessions, MayCleanup, TypeOK
<1>2. \A i, j \in 1 .. Len(list) : list[i] = list[j] => i = j
  BY DEF PortInv, Finite
<1>3. /\ Head(list) \in Listed /\ list' \in Seq(Sessions)
      /\ Listed' = Listed \ {Head(list)}
      /\ \A i, j \in 1 .. Len(list') : list'[i] = list'[j] => i = j
  <2>1. /\ Head(list) \in {list[i] : i \in 1 .. Len(list)}
        /\ Tail(list) \in Seq(Sessions)
        /\ {Tail(list)[i] : i \in 1 .. Len(Tail(list))}
              = {list[i] : i \in 1 .. Len(list)} \ {Head(list)}
        /\ \A i, j \in 1 .. Len(Tail(list)) : Tail(list)[i] = Tail(list)[j] => i = j
    BY <1>1, <1>2, TailOfList
  <2>2. /\ Listed = {list[i] : i \in 1 .. Len(list)}
        /\ Listed' = {Tail(list)[i] : i \in 1 .. Len(Tail(list))}
    BY <1>1 DEF Listed
  <2>3. list' \in Seq(Sessions)
    BY <1>1, <2>1
  <2>4. \A i, j \in 1 .. Len(list') : list'[i] = list'[j] => i = j
    BY <1>1, <2>1
  <2>5. QED
    BY <2>1, <2>2, <2>3, <2>4
<1>4. PICK h \in Listed : h = Head(list) /\ Listed' = Listed \ {h}
  BY <1>3
<1>5. list' \in Seq(Sessions) /\ h \in serverEnd /\ h \notin accepted /\ OnTheWay
  BY <1>3 DEF PortInv, OnTheWay
<1>6. ASSUME AcceptSession
      PROVE  (TypeOK /\ OnTheWay)'
  <2>1. /\ UNCHANGED <<state, serverPort, clientPort, numSessions, pc, live, clientEnd>>
        /\ UNCHANGED <<serverEnd, clientRefs, portRefs, sleepers>>
        /\ accepted' = accepted \cup {h}
    BY <1>4, <1>6 DEF AcceptSession, portVars
  <2>2. TypeOK'
    BY <1>5, <2>1 DEF TypeOK
  <2>3. OnTheWay'
    BY <1>4, <1>5, <2>1 DEF OnTheWay
  <2>4. QED
    BY <2>2, <2>3
<1>7. ASSUME CleanupSessions
      PROVE  (TypeOK /\ OnTheWay)'
  <2>1. /\ UNCHANGED <<state, serverPort, clientPort, numSessions, pc, live, clientEnd>>
        /\ UNCHANGED <<accepted, clientRefs, portRefs, sleepers>>
        /\ serverEnd' = serverEnd \ {h}
    BY <1>4, <1>7 DEF CleanupSessions, portVars
  <2>2. TypeOK'
    BY <1>5, <2>1 DEF TypeOK
  <2>3. OnTheWay'
    BY <1>4, <1>5, <2>1 DEF OnTheWay
  <2>4. QED
    BY <2>2, <2>3
<1>8. NoMissedNotification'
  BY <1>1 DEF AcceptSession, CleanupSessions, PortInv, NoMissedNotification, HasRoom
<1>9. QED
  BY <1>1, <1>3, <1>6, <1>7, <1>8
     DEF AcceptSession, CleanupSessions, portVars, PortInv, CountMatches, Finite, Connecting,
         RefsCounted, ClosedInOrder, PortOutlivesSessions, NoStrandedSession

\* A thread begins to wait at an end of the port.
LEMMA WaitSteps ==
    ASSUME TypeOK, PortInv, WaitClientPort \/ WaitServerPort
    PROVE  (TypeOK /\ PortInv)'
<1>1. NoMissedNotification'
  BY DEF WaitClientPort, WaitServerPort, PortInv, NoMissedNotification, HasRoom
<1>2. TypeOK' /\ OnTheWay'
  BY DEF WaitClientPort, WaitServerPort, TypeOK, portVars, sessionVars, PortInv, OnTheWay, Listed
<1>3. QED
  BY <1>1, <1>2
     DEF WaitClientPort, WaitServerPort, portVars, sessionVars, PortInv, CountMatches, Finite,
         Connecting, RefsCounted, ClosedInOrder, PortOutlivesSessions, NoStrandedSession

\* The ends of the port go away: the client end when nothing refers to it.
LEMMA EndSteps ==
    ASSUME TypeOK, PortInv,
           CloseClientHandle \/ DestroyClientPort \/ DestroyServerPort \/ CloseParent
    PROVE  (TypeOK /\ PortInv)'
<1> DEFINE Same == UNCHANGED <<sessionVars, numSessions, list, sleepers>>
<1>1. /\ Same /\ Connecting' = Connecting /\ Listed' = Listed
  BY DEF CloseClientHandle, DestroyClientPort, DestroyServerPort, CloseParent, sessionVars,
         Connecting, Listed
<1>2. RefsCounted' /\ clientRefs' \in Nat /\ portRefs' \in 0 .. 2
  <2>1. Cardinality(live') = Cardinality(live) /\ Cardinality(Connecting') = Cardinality(Connecting)
    BY <1>1 DEF sessionVars
  <2>2. RefsCounted /\ Cardinality(live) \in Nat /\ Cardinality(Connecting) \in Nat
    BY Counts DEF PortInv
  <2>3. CASE CloseClientHandle
    BY <2>1, <2>2, <2>3 DEF CloseClientHandle, RefsCounted, TypeOK
  <2>4. CASE DestroyClientPort
    BY <2>1, <2>2, <2>4 DEF DestroyClientPort, RefsCounted, TypeOK
  <2>5. CASE DestroyServerPort
    BY <2>1, <2>2, <2>5 DEF DestroyServerPort, RefsCounted, TypeOK
  <2>6. CASE CloseParent
    BY <2>1, <2>2, <2>6 DEF CloseParent, RefsCounted, TypeOK
  <2>7. QED
    BY <2>3, <2>4, <2>5, <2>6
<1>3. TypeOK'
  BY <1>1, <1>2
     DEF CloseClientHandle, DestroyClientPort, DestroyServerPort, CloseParent, TypeOK, sessionVars
<1>4. PortOutlivesSessions'
  <2>1. CASE DestroyClientPort
    <3>1. Cardinality(live) = 0 /\ Cardinality(Connecting) = 0
      <4>1. RefsCounted /\ Cardinality(live) \in Nat /\ Cardinality(Connecting) \in Nat
        BY Counts DEF PortInv
      <4>2. QED
        BY <2>1, <4>1 DEF DestroyClientPort, RefsCounted
    <3>2. live = {} /\ Connecting = {}
      BY <3>1, FS_EmptySet DEF PortInv, Finite
    <3>3. Listed = {} => list = <<>>
      <4>1. list # <<>> => Len(list) \in Nat \ {0}
        BY EmptySeq DEF TypeOK
      <4>2. list # <<>> => 1 \in 1 .. Len(list)
        BY <4>1
      <4>3. QED
        BY <4>2 DEF Listed
    <3>4. Listed \subseteq live
      BY DEF PortInv, OnTheWay, TypeOK
    <3>5. QED
      BY <1>1, <3>2, <3>3, <3>4 DEF PortOutlivesSessions, Connecting, sessionVars
  <2>2. CASE ~DestroyClientPort
    BY <1>1, <2>2
       DEF CloseClientHandle, DestroyServerPort, CloseParent, PortInv, PortOutlivesSessions,
           sessionVars
  <2>3. QED
    BY <2>1, <2>2
<1>5. ClosedInOrder' /\ NoStrandedSession'
  BY <1>1
     DEF CloseClientHandle, DestroyClientPort, DestroyServerPort, CloseParent, PortInv,
         ClosedInOrder, NoStrandedSession, TypeOK
<1>6. CountMatches' /\ Finite' /\ OnTheWay' /\ NoMissedNotification'
  BY <1>1 DEF PortInv, CountMatches, Finite, OnTheWay, NoMissedNotification, HasRoom, sessionVars
<1>7. QED
  BY <1>2, <1>3, <1>4, <1>5, <1>6 DEF PortInv
-----------------------------------------------------------------------------
\* A port in every state of every behaviour, for any limit: KPort counts its sessions and
\* keeps the limit although the check and the count are not one step, the ends of sessions
\* find the port alive, the end of the server port empties the list, and no notification
\* is missed.
THEOREM PortIsSound == ASSUME MaxSessionsAssumption PROVE Spec => []PortInvariant
<1>1. Init => TypeOK /\ PortInv
  <2> SUFFICES ASSUME Init PROVE TypeOK /\ PortInv
    OBVIOUS
  <2>1. Connecting = {} /\ Listed = {} /\ live = {} /\ Len(list) = 0
    BY DEF Init, Connecting, Listed
  <2>2. Cardinality({}) = 0 /\ IsFiniteSet({})
    BY FS_EmptySet
  <2>3. TypeOK
    BY EmptySeq DEF Init, TypeOK, MaxSessionsAssumption
  <2>4. CountMatches /\ Finite /\ RefsCounted
    BY <2>1, <2>2 DEF Init, CountMatches, Finite, RefsCounted
  <2>5. QED
    BY <2>1, <2>3, <2>4
       DEF Init, PortInv, OnTheWay, ClosedInOrder, PortOutlivesSessions, NoStrandedSession,
           NoMissedNotification
<1>2. TypeOK /\ PortInv /\ [Next]_vars => (TypeOK /\ PortInv)'
  <2> SUFFICES ASSUME TypeOK, PortInv, [Next]_vars PROVE (TypeOK /\ PortInv)'
    OBVIOUS
  <2>1. CASE Next
    BY <2>1, CallSteps, SessionSteps, ListSteps, WaitSteps, EndSteps DEF Next, CallStep
  <2>2. CASE UNCHANGED vars
    BY <2>2
       DEF vars, portVars, sessionVars, TypeOK, PortInv, CountMatches, Finite, Connecting,
           RefsCounted, OnTheWay, Listed, ClosedInOrder, PortOutlivesSessions,
           NoStrandedSession, NoMissedNotification, HasRoom
  <2>3. QED
    BY <2>1, <2>2
<1>3. TypeOK /\ PortInv => PortInvariant
  BY DEF PortInv, PortInvariant
<1>4. QED
  BY <1>1, <1>2, <1>3, PTL DEF Spec
-----------------------------------------------------------------------------
(***************************************************************************)
(* The loop of the service threads.                                        *)
(***************************************************************************)

LoopPCs == {"loop", "lock", "wait", "clear", "process", "handle", "defer", "reply", "take",
            "link", "signal", "done"}

Linked(t) == {links[t][i] : i \in DOMAIN links[t]}

\* What a thread has in its hands (InHand of ServerManager).
Hand(t) == ({mine[t]} \ {None}) \cup Linked(t) \cup retry[t]

\* What a thread has in its hands where it stands: a holder to handle, deferred sessions to
\* try again, or holders to link, each once.
Shape(T, S) ==
    \A t \in T :
        /\ loop[t] \in {"loop", "lock", "wait", "clear", "done"} => mine[t] = None
        /\ loop[t] \in {"process", "take"} => mine[t] # None
        /\ loop[t] \in {"handle", "defer", "reply"} => mine[t] \in S
        /\ loop[t] \in {"link", "signal"} => mine[t] = None
        /\ loop[t] \notin {"link", "signal"} => links[t] = <<>>
        /\ loop[t] \notin {"link", "signal", "handle", "defer", "reply"} => retry[t] = {}
        /\ loop[t] = "link" => links[t] # <<>>
        /\ loop[t] = "take" => mine[t] = "deferral"
        /\ loop[t] = "process" /\ mine[t] = "port" => queue # <<>>
        /\ mine[t] \notin retry[t] /\ \A h \in Linked(t) : h \notin retry[t]
        /\ \A i, j \in 1 .. Len(links[t]) : links[t][i] = links[t][j] => i = j

\* No holder is in two places.
NoTwo(T) ==
    \A h :
        /\ ~(h \in multiWait /\ h \in deferredList)
        /\ ~(h \in multiWait /\ h \in deferred) /\ ~(h \in deferredList /\ h \in deferred)
        /\ \A t \in T : h \in Hand(t) =>
               /\ h \notin multiWait /\ h \notin deferredList /\ h \notin deferred
               /\ \A u \in T : h \in Hand(u) => u = t

Placed(T, h) ==
    h \in multiWait \/ h \in deferredList \/ h \in deferred \/ \E t \in T : h \in Hand(t)

\* The holders that exist.
Existing(D) == open \cup {"port", "wakeup"} \cup (IF D THEN {"deferral"} ELSE {})

\* They are somewhere, and nothing else is, until the destructor has waited for the threads.
Somewhere(T, D) ==
    IF stop = "deleted" THEN \A t \in T : loop[t] = "done"
    ELSE \A h : Placed(T, h) <=> h \in Existing(D)

\* A session is in the list of the port once, or open.
QueueOK(S) ==
    /\ \A i, j \in 1 .. Len(queue) : queue[i] = queue[j] => i = j
    /\ \A i \in 1 .. Len(queue) : queue[i] \notin open

LoopInv(T, S, D) ==
    /\ Loop(T, S, D)!TypeOK /\ Shape(T, S) /\ NoTwo(T)
    /\ Somewhere(T, D) /\ QueueOK(S)
    /\ Loop(T, S, D)!NoForgottenHolder

\* The things waited for are distinct.
LEMMA HoldersDistinct ==
    ASSUME NEW T, NEW S, NEW D, Loop(T, S, D)!HoldersAssumption
    PROVE  /\ Loop(T, S, D)!Holders =
                  S \cup {"port", "wakeup"} \cup (IF D THEN {"deferral"} ELSE {})
           /\ None \notin Loop(T, S, D)!Holders
           /\ None \notin S /\ "port" \notin S /\ "wakeup" \notin S
           /\ "deferral" \notin S
BY DEF Loop!HoldersAssumption, Loop!Holders

\* A thread goes on with the deferred sessions it has left, or goes round.
LEMMA Goes ==
    ASSUME NEW T, NEW S, NEW D,
           Loop(T, S, D)!HoldersAssumption, LoopInv(T, S, D),
           NEW t \in T, NEW rest \in SUBSET S, Loop(T, S, D)!Continue(t, rest),
           links'[t] = <<>>
    PROVE  /\ loop' \in [T -> LoopPCs] /\ mine' \in [T -> Loop(T, S, D)!Holders \cup {None}]
           /\ retry' \in [T -> SUBSET S]
           /\ loop'[t] \in {"loop", "handle"} /\ (loop'[t] = "handle" => mine'[t] \in S)
           /\ (loop'[t] = "loop" => mine'[t] = None /\ retry'[t] = {})
           /\ mine'[t] \notin retry'[t] /\ Hand(t)' = rest
           /\ \A u \in T : u # t =>
                  loop'[u] = loop[u] /\ mine'[u] = mine[u] /\ retry'[u] = retry[u]
<1>1. /\ loop \in [T -> LoopPCs] /\ mine \in [T -> Loop(T, S, D)!Holders \cup {None}]
      /\ retry \in [T -> SUBSET S] /\ S \subseteq Loop(T, S, D)!Holders
      /\ None \notin S
  BY HoldersDistinct DEF LoopInv, Loop!TypeOK, LoopPCs
<1>2. Linked(t)' = {}
  BY DEF Linked
<1>3. CASE rest = {}
  <2>1. /\ loop' = [loop EXCEPT ![t] = "loop"] /\ mine' = [mine EXCEPT ![t] = None]
        /\ retry' = [retry EXCEPT ![t] = {}]
    BY <1>3 DEF Loop!Continue
  <2>2. Hand(t)' = rest
    BY <1>1, <1>2, <1>3, <2>1 DEF Hand
  <2>3. QED
    BY <1>1, <2>1, <2>2 DEF LoopPCs
<1>4. CASE rest # {}
  <2>1. PICK s \in rest : /\ loop' = [loop EXCEPT ![t] = "handle"] /\ mine' = [mine EXCEPT ![t] = s]
                          /\ retry' = [retry EXCEPT ![t] = rest \ {s}]
    BY <1>4 DEF Loop!Continue
  <2>2. s \in S /\ s # None
    BY <1>1
  <2>3. mine'[t] = s /\ retry'[t] = rest \ {s}
    BY <1>1, <2>1
  <2>4. Hand(t)' = rest
    BY <1>2, <2>2, <2>3 DEF Hand
  <2>5. QED
    BY <1>1, <2>1, <2>2, <2>3, <2>4 DEF LoopPCs
<1>5. QED
  BY <1>3, <1>4

\* A session that is not open is nowhere.
LEMMA NotThere ==
    ASSUME NEW T, NEW S, NEW D,
           Loop(T, S, D)!HoldersAssumption, LoopInv(T, S, D),
           NEW t \in T, loop[t] # "done", NEW s \in S, s \notin open
    PROVE  /\ \A u \in T : s \notin Hand(u)
           /\ s \notin multiWait /\ s \notin deferredList /\ s \notin deferred
<1>1. s \notin Existing(D)
  BY HoldersDistinct DEF Existing
<1>2. ~Placed(T, s)
  BY <1>1 DEF LoopInv, Somewhere
<1>3. QED
  BY <1>2 DEF Placed

\* A thread goes round, or stops.
LEMMA KeptByLoopProcess ==
    ASSUME NEW T, NEW S, NEW D,
           Loop(T, S, D)!HoldersAssumption, LoopInv(T, S, D),
           NEW t \in T, Loop(T, S, D)!LoopProcessImpl(t)
    PROVE  LoopInv(T, S, D)'
<1> USE DEF Loop!LoopProcessImpl, Loop!threadVars, Loop!listVars, Loop!clientVars
<1>1. \A u : Hand(u)' = Hand(u) /\ Linked(u)' = Linked(u)
  BY DEF Hand, Linked
<1>2. /\ loop[t] = "loop" /\ loop'[t] = IF stop = "no" THEN "lock" ELSE "done"
      /\ \A u \in T : u # t => loop'[u] = loop[u]
  BY DEF LoopInv, Loop!TypeOK
<1>3. Loop(T, S, D)!TypeOK'
  <2>1. loop' \in [T -> LoopPCs]
    BY <1>1, <1>2 DEF LoopInv, Loop!TypeOK, LoopPCs
  <2>2. mine' \in [T -> Loop(T, S, D)!Holders \cup {None}]
    BY <1>1, <1>2 DEF LoopInv, Loop!TypeOK, LoopPCs
  <2>3. links' \in [T -> Seq(Loop(T, S, D)!Holders)]
    BY <1>1, <1>2 DEF LoopInv, Loop!TypeOK, LoopPCs
  <2>4. retry' \in [T -> SUBSET S]
    BY <1>1, <1>2 DEF LoopInv, Loop!TypeOK, LoopPCs
  <2>5. /\ selection' \in T \cup {None} /\ multiWait' \subseteq Loop(T, S, D)!Holders
        /\ deferredList' \subseteq Loop(T, S, D)!Holders /\ deferred' \subseteq S
    BY <1>1, <1>2 DEF LoopInv, Loop!TypeOK, LoopPCs
  <2>6. /\ wakeup' \in BOOLEAN /\ deferral' \in BOOLEAN /\ available' \in BOOLEAN
        /\ stop' \in {"no", "requested", "signaled", "deleted"}
    BY <1>1, <1>2 DEF LoopInv, Loop!TypeOK, LoopPCs
  <2>7. /\ queue' \in Seq(S) /\ open' \subseteq S
        /\ asked' \in [S -> {"none", "pending", "received"}] /\ closed' \subseteq S
    BY <1>1, <1>2 DEF LoopInv, Loop!TypeOK, LoopPCs
  <2>8. QED
    BY <2>1, <2>2, <2>3, <2>4, <2>5, <2>6, <2>7 DEF Loop!TypeOK, LoopPCs
<1>4. Shape(T, S)'
  BY <1>1, <1>2 DEF LoopInv, Shape
<1>5. NoTwo(T)'
  BY <1>1, <1>2 DEF LoopInv, NoTwo
<1>6. Somewhere(T, D)'
  BY <1>1, <1>2 DEF LoopInv, Somewhere, Placed, Existing
<1>7. QueueOK(S)'
  BY <1>1, <1>2 DEF LoopInv, QueueOK
<1>8. Loop(T, S, D)!NoForgottenHolder'
  BY <1>1, <1>2 DEF LoopInv, Loop!NoForgottenHolder
<1>9. QED
  BY <1>3, <1>4, <1>5, <1>6, <1>7, <1>8 DEF LoopInv

\* What was linked is waited for.
LEMMA KeptByLinkDeferred ==
    ASSUME NEW T, NEW S, NEW D,
           Loop(T, S, D)!HoldersAssumption, LoopInv(T, S, D),
           NEW t \in T, loop[t] \in {"lock", "clear"},
           Loop(T, S, D)!LinkDeferred(t), wakeup' \in BOOLEAN
    PROVE  LoopInv(T, S, D)'
<1> USE DEF Loop!LinkDeferred, Loop!threadVars, Loop!listVars, Loop!clientVars
<1>1. \A u : Hand(u)' = Hand(u) /\ Linked(u)' = Linked(u)
  BY DEF Hand, Linked
<1>2. /\ loop'[t] = IF stop = "no" THEN "wait" ELSE "loop"
      /\ \A u \in T : u # t => loop'[u] = loop[u]
  BY DEF LoopInv, Loop!TypeOK
<1>3. Loop(T, S, D)!TypeOK'
  <2>1. loop' \in [T -> LoopPCs]
    BY <1>1, <1>2 DEF LoopInv, Loop!TypeOK, LoopPCs
  <2>2. mine' \in [T -> Loop(T, S, D)!Holders \cup {None}]
    BY <1>1, <1>2 DEF LoopInv, Loop!TypeOK, LoopPCs
  <2>3. links' \in [T -> Seq(Loop(T, S, D)!Holders)]
    BY <1>1, <1>2 DEF LoopInv, Loop!TypeOK, LoopPCs
  <2>4. retry' \in [T -> SUBSET S]
    BY <1>1, <1>2 DEF LoopInv, Loop!TypeOK, LoopPCs
  <2>5. /\ selection' \in T \cup {None} /\ multiWait' \subseteq Loop(T, S, D)!Holders
        /\ deferredList' \subseteq Loop(T, S, D)!Holders /\ deferred' \subseteq S
    BY <1>1, <1>2 DEF LoopInv, Loop!TypeOK, LoopPCs
  <2>6. /\ wakeup' \in BOOLEAN /\ deferral' \in BOOLEAN /\ available' \in BOOLEAN
        /\ stop' \in {"no", "requested", "signaled", "deleted"}
    BY <1>1, <1>2 DEF LoopInv, Loop!TypeOK, LoopPCs
  <2>7. /\ queue' \in Seq(S) /\ open' \subseteq S
        /\ asked' \in [S -> {"none", "pending", "received"}] /\ closed' \subseteq S
    BY <1>1, <1>2 DEF LoopInv, Loop!TypeOK, LoopPCs
  <2>8. QED
    BY <2>1, <2>2, <2>3, <2>4, <2>5, <2>6, <2>7 DEF Loop!TypeOK, LoopPCs
<1>4. Shape(T, S)'
  BY <1>1, <1>2 DEF LoopInv, Shape
<1>5. NoTwo(T)'
  BY <1>1, <1>2 DEF LoopInv, NoTwo
<1>6. Somewhere(T, D)'
  BY <1>1, <1>2 DEF LoopInv, Somewhere, Placed, Existing
<1>7. QueueOK(S)'
  BY <1>1, <1>2 DEF LoopInv, QueueOK
<1>8. Loop(T, S, D)!NoForgottenHolder'
  BY <1>1, <1>2 DEF LoopInv, Loop!NoForgottenHolder
<1>9. QED
  BY <1>3, <1>4, <1>5, <1>6, <1>7, <1>8 DEF LoopInv

\* A signaled holder is taken, unless it is the wake-up event.
LEMMA Taken ==
    ASSUME NEW T, NEW S, NEW D,
           Loop(T, S, D)!HoldersAssumption, LoopInv(T, S, D),
           NEW t \in T, NEW h \in Loop(T, S, D)!Holders, Loop(T, S, D)!WaitAny(t, h)
    PROVE  \/ /\ h = "wakeup" /\ loop' = [loop EXCEPT ![t] = "clear"]
              /\ UNCHANGED <<mine, multiWait, selection>>
           \/ /\ h # "wakeup" /\ loop' = [loop EXCEPT ![t] = "process"]
              /\ mine' = [mine EXCEPT ![t] = h] /\ multiWait' = multiWait \ {h} /\ selection' = None
BY DEF Loop!WaitAny, Loop!UnlinkFromMultiWait

\* The wake-up event.
LEMMA KeptByWaitWakeup ==
    ASSUME NEW T, NEW S, NEW D,
           Loop(T, S, D)!HoldersAssumption, LoopInv(T, S, D),
           NEW t \in T, NEW h \in Loop(T, S, D)!Holders, Loop(T, S, D)!WaitAny(t, h), h = "wakeup"
    PROVE  LoopInv(T, S, D)'
<1> USE DEF Loop!WaitAny, Loop!threadVars, Loop!listVars, Loop!clientVars
<1>1. \A u : Hand(u)' = Hand(u) /\ Linked(u)' = Linked(u)
  BY DEF Hand, Linked
<1>2. /\ loop[t] = "wait" /\ loop'[t] = "clear"
      /\ \A u \in T : u # t => loop'[u] = loop[u]
  BY DEF LoopInv, Loop!TypeOK
<1>3. Loop(T, S, D)!TypeOK'
  <2>1. loop' \in [T -> LoopPCs]
    BY <1>1, <1>2 DEF LoopInv, Loop!TypeOK, LoopPCs
  <2>2. mine' \in [T -> Loop(T, S, D)!Holders \cup {None}]
    BY <1>1, <1>2 DEF LoopInv, Loop!TypeOK, LoopPCs
  <2>3. links' \in [T -> Seq(Loop(T, S, D)!Holders)]
    BY <1>1, <1>2 DEF LoopInv, Loop!TypeOK, LoopPCs
  <2>4. retry' \in [T -> SUBSET S]
    BY <1>1, <1>2 DEF LoopInv, Loop!TypeOK, LoopPCs
  <2>5. /\ selection' \in T \cup {None} /\ multiWait' \subseteq Loop(T, S, D)!Holders
        /\ deferredList' \subseteq Loop(T, S, D)!Holders /\ deferred' \subseteq S
    BY <1>1, <1>2 DEF LoopInv, Loop!TypeOK, LoopPCs
  <2>6. /\ wakeup' \in BOOLEAN /\ deferral' \in BOOLEAN /\ available' \in BOOLEAN
        /\ stop' \in {"no", "requested", "signaled", "deleted"}
    BY <1>1, <1>2 DEF LoopInv, Loop!TypeOK, LoopPCs
  <2>7. /\ queue' \in Seq(S) /\ open' \subseteq S
        /\ asked' \in [S -> {"none", "pending", "received"}] /\ closed' \subseteq S
    BY <1>1, <1>2 DEF LoopInv, Loop!TypeOK, LoopPCs
  <2>8. QED
    BY <2>1, <2>2, <2>3, <2>4, <2>5, <2>6, <2>7 DEF Loop!TypeOK, LoopPCs
<1>4. Shape(T, S)'
  BY <1>1, <1>2 DEF LoopInv, Shape
<1>5. NoTwo(T)'
  BY <1>1, <1>2 DEF LoopInv, NoTwo
<1>6. Somewhere(T, D)'
  BY <1>1, <1>2 DEF LoopInv, Somewhere, Placed, Existing
<1>7. QueueOK(S)'
  BY <1>1, <1>2 DEF LoopInv, QueueOK
<1>8. Loop(T, S, D)!NoForgottenHolder'
  BY <1>1, <1>2 DEF LoopInv, Loop!NoForgottenHolder
<1>9. QED
  BY <1>3, <1>4, <1>5, <1>6, <1>7, <1>8 DEF LoopInv

\* A signaled holder is taken.
LEMMA KeptByWaitAny ==
    ASSUME NEW T, NEW S, NEW D,
           Loop(T, S, D)!HoldersAssumption, LoopInv(T, S, D),
           NEW t \in T, NEW h \in Loop(T, S, D)!Holders, Loop(T, S, D)!WaitAny(t, h), h # "wakeup"
    PROVE  LoopInv(T, S, D)'
<1> USE DEF Loop!WaitAny, Loop!UnlinkFromMultiWait, Loop!threadVars, Loop!listVars, Loop!clientVars
<1>1. /\ loop[t] = "wait" /\ loop'[t] = "process" /\ mine'[t] = h /\ mine[t] = None
      /\ links[t] = <<>> /\ retry[t] = {} /\ links' = links /\ retry' = retry /\ h # None
      /\ \A u \in T : u # t => loop'[u] = loop[u] /\ mine'[u] = mine[u]
  <2>1. h # None
    BY HoldersDistinct
  <2>2. loop[t] = "wait" /\ mine[t] = None /\ links[t] = <<>> /\ retry[t] = {}
    BY DEF LoopInv, Shape
  <2>3. loop \in [T -> LoopPCs] /\ mine \in [T -> Loop(T, S, D)!Holders \cup {None}]
    BY DEF LoopInv, Loop!TypeOK, LoopPCs
  <2>4. QED
    BY <2>1, <2>2, <2>3
<1>2. /\ Linked(t)' = {} /\ Hand(t)' = {h} /\ Hand(t) = {}
      /\ \A u \in T : u # t => Hand(u)' = Hand(u)
  BY <1>1 DEF Hand, Linked
<1>3. h = "port" => queue # <<>>
  <2>1. "port" # "wakeup" /\ "port" # "deferral"
    OBVIOUS
  <2>2. QED
    BY <2>1 DEF Loop!IsSignaled
<1>4. /\ h \in multiWait /\ multiWait' = multiWait \ {h}
      /\ UNCHANGED <<deferredList, deferred, open, stop, queue, wakeup>>
  OBVIOUS
<1>5. Loop(T, S, D)!TypeOK'
  <2>1. loop' \in [T -> LoopPCs]
    BY DEF LoopInv, Loop!TypeOK, LoopPCs
  <2>2. mine' \in [T -> Loop(T, S, D)!Holders \cup {None}]
    BY DEF LoopInv, Loop!TypeOK
  <2>3. links' \in [T -> Seq(Loop(T, S, D)!Holders)]
    BY <1>1, <1>2, <1>3, <1>4 DEF LoopInv, Loop!TypeOK, LoopPCs
  <2>4. retry' \in [T -> SUBSET S]
    BY <1>1, <1>2, <1>3, <1>4 DEF LoopInv, Loop!TypeOK, LoopPCs
  <2>5. /\ selection' \in T \cup {None} /\ multiWait' \subseteq Loop(T, S, D)!Holders
        /\ deferredList' \subseteq Loop(T, S, D)!Holders /\ deferred' \subseteq S
    BY <1>1, <1>2, <1>3, <1>4 DEF LoopInv, Loop!TypeOK, LoopPCs
  <2>6. /\ wakeup' \in BOOLEAN /\ deferral' \in BOOLEAN /\ available' \in BOOLEAN
        /\ stop' \in {"no", "requested", "signaled", "deleted"}
    BY <1>1, <1>2, <1>3, <1>4 DEF LoopInv, Loop!TypeOK, LoopPCs
  <2>7. /\ queue' \in Seq(S) /\ open' \subseteq S
        /\ asked' \in [S -> {"none", "pending", "received"}] /\ closed' \subseteq S
    BY <1>1, <1>2, <1>3, <1>4 DEF LoopInv, Loop!TypeOK, LoopPCs
  <2>8. QED
    BY <2>1, <2>2, <2>3, <2>4, <2>5, <2>6, <2>7 DEF Loop!TypeOK, LoopPCs
<1>6. Shape(T, S)'
  BY <1>1, <1>2, <1>3, <1>4 DEF LoopInv, Shape, Linked
<1>7. NoTwo(T)'
  BY <1>1, <1>2, <1>3, <1>4 DEF LoopInv, NoTwo
<1>8. Somewhere(T, D)'
  BY <1>1, <1>2, <1>3, <1>4 DEF LoopInv, Somewhere, Placed, Existing
<1>9. QueueOK(S)'
  BY <1>1, <1>2, <1>3, <1>4 DEF LoopInv, QueueOK
<1>10. Loop(T, S, D)!NoForgottenHolder'
  BY <1>1, <1>2, <1>3, <1>4 DEF LoopInv, Loop!NoForgottenHolder
<1>11. QED
  BY <1>5, <1>6, <1>7, <1>8, <1>9, <1>10 DEF LoopInv

LEMMA KeptByClearWakeup ==
    ASSUME NEW T, NEW S, NEW D,
           Loop(T, S, D)!HoldersAssumption, LoopInv(T, S, D),
           NEW t \in T, Loop(T, S, D)!LockSelection(t) \/ Loop(T, S, D)!ClearWakeup(t)
    PROVE  LoopInv(T, S, D)'
<1>1. loop[t] \in {"lock", "clear"} /\ Loop(T, S, D)!LinkDeferred(t)
  BY DEF Loop!LockSelection, Loop!ClearWakeup
<1>2. wakeup' \in BOOLEAN
  BY DEF Loop!LockSelection, Loop!ClearWakeup, LoopInv, Loop!TypeOK
<1>3. QED
  BY <1>1, <1>2, KeptByLinkDeferred

\* A holder is linked.
LEMMA KeptByLink ==
    ASSUME NEW T, NEW S, NEW D,
           Loop(T, S, D)!HoldersAssumption, LoopInv(T, S, D),
           NEW t \in T, Loop(T, S, D)!Link(t)
    PROVE  LoopInv(T, S, D)'
<1> USE DEF Loop!Link, Loop!threadVars, Loop!listVars, Loop!clientVars
<1>1. /\ links[t] \in Seq(Loop(T, S, D)!Holders) /\ links[t] # <<>>
      /\ \A i, j \in 1 .. Len(links[t]) : links[t][i] = links[t][j] => i = j
      /\ mine[t] = None /\ \A h \in Linked(t) : h \notin retry[t]
  BY DEF LoopInv, Loop!TypeOK, Shape
<1>2. /\ Head(links[t]) \in Linked(t) /\ Linked(t) \subseteq Loop(T, S, D)!Holders
      /\ Tail(links[t]) \in Seq(Loop(T, S, D)!Holders)
      /\ \A i, j \in 1 .. Len(Tail(links[t])) : Tail(links[t])[i] = Tail(links[t])[j] => i = j
      /\ {Tail(links[t])[i] : i \in 1 .. Len(Tail(links[t]))} = Linked(t) \ {Head(links[t])}
  <2>1. /\ DOMAIN links[t] = 1 .. Len(links[t])
        /\ \A i \in 1 .. Len(links[t]) : links[t][i] \in Loop(T, S, D)!Holders
    BY <1>1, LenProperties, ElementOfSeq
  <2>2. Linked(t) = {links[t][i] : i \in 1 .. Len(links[t])}
    BY <2>1 DEF Linked
  <2>3. /\ Head(links[t]) \in {links[t][i] : i \in 1 .. Len(links[t])}
        /\ Tail(links[t]) \in Seq(Loop(T, S, D)!Holders)
        /\ {Tail(links[t])[i] : i \in 1 .. Len(Tail(links[t]))} =
               {links[t][i] : i \in 1 .. Len(links[t])} \ {Head(links[t])}
        /\ \A i, j \in 1 .. Len(Tail(links[t])) : Tail(links[t])[i] = Tail(links[t])[j] => i = j
    BY <1>1, TailOfList
  <2>4. \A h \in Linked(t) : h \in Loop(T, S, D)!Holders
    BY <2>1, <2>2
  <2>5. QED
    BY <2>2, <2>3, <2>4
<1>3. /\ loop[t] = "link" /\ loop'[t] = "signal" /\ links'[t] = Tail(links[t])
      /\ \A u \in T : u # t => loop'[u] = loop[u] /\ links'[u] = links[u]
  BY DEF LoopInv, Loop!TypeOK
<1>4. /\ Linked(t)' = Linked(t) \ {Head(links[t])} /\ Hand(t)' = Hand(t) \ {Head(links[t])}
      /\ Head(links[t]) \in Hand(t) /\ Head(links[t]) \in Loop(T, S, D)!Holders
      /\ \A u \in T : u # t => Hand(u)' = Hand(u) /\ Linked(u)' = Linked(u)
  <2>1. DOMAIN Tail(links[t]) = 1 .. Len(Tail(links[t]))
    BY <1>2, LenProperties
  <2>2. Linked(t)' = {Tail(links[t])[i] : i \in 1 .. Len(Tail(links[t]))}
    BY <1>3, <2>1 DEF Linked
  <2>3. Linked(t)' = Linked(t) \ {Head(links[t])}
    BY <1>2, <2>2
  <2>4. \A u \in T : u # t => Hand(u)' = Hand(u) /\ Linked(u)' = Linked(u)
    BY <1>3 DEF Hand, Linked
  <2>5. mine[t] = None /\ mine' = mine /\ retry' = retry /\ Head(links[t]) \notin retry[t]
    BY <1>1, <1>2
  <2>6. Hand(t)' = Hand(t) \ {Head(links[t])} /\ Head(links[t]) \in Hand(t)
    BY <1>2, <2>3, <2>5 DEF Hand
  <2>7. QED
    BY <1>2, <2>3, <2>4, <2>6
<1>5. /\ deferredList' = deferredList \cup {Head(links[t])}
      /\ UNCHANGED <<mine, retry, multiWait, deferred, open, stop, queue, wakeup>>
  OBVIOUS
<1>6. Loop(T, S, D)!TypeOK'
  <2>1. loop' \in [T -> LoopPCs]
    BY <1>1, <1>2, <1>3, <1>4, <1>5 DEF LoopInv, Loop!TypeOK, LoopPCs
  <2>2. mine' \in [T -> Loop(T, S, D)!Holders \cup {None}]
    BY <1>1, <1>2, <1>3, <1>4, <1>5 DEF LoopInv, Loop!TypeOK, LoopPCs
  <2>3. links' \in [T -> Seq(Loop(T, S, D)!Holders)]
    BY <1>2, <1>3 DEF LoopInv, Loop!TypeOK
  <2>4. retry' \in [T -> SUBSET S]
    BY <1>1, <1>2, <1>3, <1>4, <1>5 DEF LoopInv, Loop!TypeOK, LoopPCs
  <2>5. /\ selection' \in T \cup {None} /\ multiWait' \subseteq Loop(T, S, D)!Holders
        /\ deferredList' \subseteq Loop(T, S, D)!Holders /\ deferred' \subseteq S
    BY <1>1, <1>2, <1>3, <1>4, <1>5 DEF LoopInv, Loop!TypeOK, LoopPCs
  <2>6. /\ wakeup' \in BOOLEAN /\ deferral' \in BOOLEAN /\ available' \in BOOLEAN
        /\ stop' \in {"no", "requested", "signaled", "deleted"}
    BY <1>1, <1>2, <1>3, <1>4, <1>5 DEF LoopInv, Loop!TypeOK, LoopPCs
  <2>7. /\ queue' \in Seq(S) /\ open' \subseteq S
        /\ asked' \in [S -> {"none", "pending", "received"}] /\ closed' \subseteq S
    BY <1>1, <1>2, <1>3, <1>4, <1>5 DEF LoopInv, Loop!TypeOK, LoopPCs
  <2>8. QED
    BY <2>1, <2>2, <2>3, <2>4, <2>5, <2>6, <2>7 DEF Loop!TypeOK, LoopPCs
<1>7. Shape(T, S)'
  BY <1>1, <1>2, <1>3, <1>4, <1>5 DEF LoopInv, Shape
<1>8. NoTwo(T)'
  BY <1>1, <1>2, <1>3, <1>4, <1>5 DEF LoopInv, NoTwo
<1>9. Somewhere(T, D)'
  BY <1>1, <1>2, <1>3, <1>4, <1>5 DEF LoopInv, Somewhere, Placed, Existing
<1>10. QueueOK(S)'
  BY <1>1, <1>2, <1>3, <1>4, <1>5 DEF LoopInv, QueueOK
<1>11. Loop(T, S, D)!NoForgottenHolder'
  BY <1>1, <1>2, <1>3, <1>4, <1>5 DEF LoopInv, Loop!NoForgottenHolder
<1>12. QED
  BY <1>6, <1>7, <1>8, <1>9, <1>10, <1>11 DEF LoopInv

\* The wake-up event is signaled and the thread goes on.
LEMMA KeptBySignalWakeup ==
    ASSUME NEW T, NEW S, NEW D,
           Loop(T, S, D)!HoldersAssumption, LoopInv(T, S, D),
           NEW t \in T, Loop(T, S, D)!SignalWakeup(t)
    PROVE  LoopInv(T, S, D)'
<1> USE DEF Loop!SignalWakeup, Loop!threadVars, Loop!listVars, Loop!clientVars
<1>1. /\ loop[t] = "signal" /\ mine[t] = None /\ links' = links
      /\ UNCHANGED <<multiWait, deferredList, deferred, open, stop, queue>> /\ wakeup' = TRUE
  BY DEF LoopInv, Shape
<1>2. links[t] # <<>> => /\ loop' = [loop EXCEPT ![t] = "link"] /\ mine' = mine /\ retry' = retry
  OBVIOUS
<1>3. retry[t] \in SUBSET S /\ (links[t] = <<>> => Loop(T, S, D)!Continue(t, retry[t]))
  BY DEF LoopInv, Loop!TypeOK
<1>4. links[t] = <<>> =>
         /\ loop' \in [T -> LoopPCs] /\ mine' \in [T -> Loop(T, S, D)!Holders \cup {None}]
         /\ retry' \in [T -> SUBSET S]
         /\ loop'[t] \in {"loop", "handle"} /\ (loop'[t] = "handle" => mine'[t] \in S)
         /\ (loop'[t] = "loop" => mine'[t] = None /\ retry'[t] = {})
         /\ mine'[t] \notin retry'[t] /\ Hand(t)' = retry[t]
         /\ \A u \in T : u # t =>
                loop'[u] = loop[u] /\ mine'[u] = mine[u] /\ retry'[u] = retry[u]
  BY <1>1, <1>3, Goes
<1>5. /\ \A u : Linked(u)' = Linked(u)
      /\ \A u \in T : Hand(u)' = Hand(u)
  <2>1. \A u : Linked(u)' = Linked(u)
    BY <1>1 DEF Linked
  <2>2. CASE links[t] # <<>>
    BY <1>1, <1>2, <2>2 DEF Hand, Linked
  <2>3. CASE links[t] = <<>>
    <3>1. Linked(t) = {}
      BY <2>3 DEF Linked
    <3>2. Hand(t) = retry[t]
      BY <1>1, <3>1 DEF Hand
    <3>3. QED
      BY <1>4, <2>1, <2>3, <3>2 DEF Hand
  <2>4. QED
    BY <2>1, <2>2, <2>3
<1>6. Loop(T, S, D)!TypeOK'
  <2>1. loop' \in [T -> LoopPCs]
    BY <1>2, <1>4 DEF LoopInv, Loop!TypeOK, LoopPCs
  <2>2. mine' \in [T -> Loop(T, S, D)!Holders \cup {None}]
    BY <1>2, <1>4 DEF LoopInv, Loop!TypeOK
  <2>3. links' \in [T -> Seq(Loop(T, S, D)!Holders)]
    BY <1>1, <1>2, <1>3, <1>4, <1>5 DEF LoopInv, Loop!TypeOK, LoopPCs
  <2>4. retry' \in [T -> SUBSET S]
    BY <1>2, <1>4 DEF LoopInv, Loop!TypeOK
  <2>5. /\ selection' \in T \cup {None} /\ multiWait' \subseteq Loop(T, S, D)!Holders
        /\ deferredList' \subseteq Loop(T, S, D)!Holders /\ deferred' \subseteq S
    BY <1>1, <1>2, <1>3, <1>4, <1>5 DEF LoopInv, Loop!TypeOK, LoopPCs
  <2>6. /\ wakeup' \in BOOLEAN /\ deferral' \in BOOLEAN /\ available' \in BOOLEAN
        /\ stop' \in {"no", "requested", "signaled", "deleted"}
    BY <1>1, <1>2, <1>3, <1>4, <1>5 DEF LoopInv, Loop!TypeOK, LoopPCs
  <2>7. /\ queue' \in Seq(S) /\ open' \subseteq S
        /\ asked' \in [S -> {"none", "pending", "received"}] /\ closed' \subseteq S
    BY <1>1, <1>2, <1>3, <1>4, <1>5 DEF LoopInv, Loop!TypeOK, LoopPCs
  <2>8. QED
    BY <2>1, <2>2, <2>3, <2>4, <2>5, <2>6, <2>7 DEF Loop!TypeOK, LoopPCs
<1>7. Shape(T, S)'
  <2>1. CASE links[t] # <<>>
    <3>1. loop'[t] = "link" /\ \A u \in T : u # t => loop'[u] = loop[u]
      BY <1>2, <2>1 DEF LoopInv, Loop!TypeOK
    <3>2. QED
      BY <1>1, <1>2, <1>5, <2>1, <3>1 DEF LoopInv, Shape
  <2>2. CASE links[t] = <<>>
    <3>1. Linked(t) = {}
      BY <2>2 DEF Linked
    <3>2. None \notin S /\ "port" \notin S
      BY HoldersDistinct
    <3>3. QED
      BY <1>1, <1>4, <1>5, <2>2, <3>1, <3>2 DEF LoopInv, Shape
  <2>3. QED
    BY <2>1, <2>2
<1>8. NoTwo(T)'
  BY <1>1, <1>2, <1>3, <1>4, <1>5 DEF LoopInv, NoTwo
<1>9. Somewhere(T, D)'
  BY <1>1, <1>2, <1>3, <1>4, <1>5 DEF LoopInv, Somewhere, Placed, Existing
<1>10. QueueOK(S)'
  BY <1>1, <1>2, <1>3, <1>4, <1>5 DEF LoopInv, QueueOK
<1>11. Loop(T, S, D)!NoForgottenHolder'
  BY <1>1, <1>2, <1>3, <1>4, <1>5 DEF LoopInv, Loop!NoForgottenHolder
<1>12. QED
  BY <1>6, <1>7, <1>8, <1>9, <1>10, <1>11 DEF LoopInv

\* A session is accepted and linked with the port.
LEMMA KeptByPort ==
    ASSUME NEW T, NEW S, NEW D,
           Loop(T, S, D)!HoldersAssumption, LoopInv(T, S, D),
           NEW t \in T, Loop(T, S, D)!OnPortEvent(t)
    PROVE  LoopInv(T, S, D)'
<1> USE DEF Loop!OnPortEvent, Loop!threadVars, Loop!listVars, Loop!clientVars
<1>1. /\ loop[t] = "process" /\ mine[t] = "port" /\ links[t] = <<>> /\ retry[t] = {}
      /\ queue # <<>> /\ queue \in Seq(S) /\ DOMAIN queue = 1 .. Len(queue)
      /\ \A i, j \in 1 .. Len(queue) : queue[i] = queue[j] => i = j
      /\ \A i \in 1 .. Len(queue) : queue[i] \notin open
      /\ \A i \in 1 .. Len(queue) : queue[i] \in S
  <2>1. loop[t] = "process" /\ mine[t] = "port" /\ links[t] = <<>> /\ retry[t] = {} /\ queue # <<>>
    BY DEF LoopInv, Shape
  <2>2. queue \in Seq(S)
    BY DEF LoopInv, Loop!TypeOK
  <2>3. DOMAIN queue = 1 .. Len(queue) /\ \A i \in 1 .. Len(queue) : queue[i] \in S
    BY <2>2, LenProperties, ElementOfSeq
  <2>4. /\ \A i, j \in 1 .. Len(queue) : queue[i] = queue[j] => i = j
        /\ \A i \in 1 .. Len(queue) : queue[i] \notin open
    BY DEF LoopInv, QueueOK
  <2>5. QED
    BY <2>1, <2>2, <2>3, <2>4
<1>2. /\ Head(queue) \in {queue[i] : i \in 1 .. Len(queue)}
      /\ Tail(queue) \in Seq(S)
      /\ {Tail(queue)[i] : i \in 1 .. Len(Tail(queue))} =
             {queue[i] : i \in 1 .. Len(queue)} \ {Head(queue)}
      /\ \A i, j \in 1 .. Len(Tail(queue)) : Tail(queue)[i] = Tail(queue)[j] => i = j
  <2>1. /\ queue \in Seq(S) /\ queue # <<>>
        /\ \A i, j \in 1 .. Len(queue) : queue[i] = queue[j] => i = j
    BY <1>1
  <2>2. QED
    BY <2>1, TailOfList
<1>3. Head(queue) \in S /\ Head(queue) \notin open /\ Head(queue) \in Loop(T, S, D)!Holders
      /\ "port" \in Loop(T, S, D)!Holders /\ Head(queue) # "port" /\ Head(queue) # None
  BY <1>1, <1>2, HoldersDistinct
<1>4. /\ links'[t] = <<Head(queue), "port">> /\ loop'[t] = "link" /\ mine'[t] = None
      /\ retry' = retry
      /\ \A u \in T : u # t => loop'[u] = loop[u] /\ mine'[u] = mine[u] /\ links'[u] = links[u]
  BY DEF LoopInv, Loop!TypeOK
<1>5. /\ Linked(t)' = {Head(queue), "port"} /\ Hand(t)' = {Head(queue), "port"}
      /\ Hand(t) = {"port"}
      /\ \A u \in T : u # t => Hand(u)' = Hand(u) /\ Linked(u)' = Linked(u)
  <2>1. Linked(t) = {}
    BY <1>1 DEF Linked
  <2>2. Linked(t)' = {Head(queue), "port"}
    BY <1>4 DEF Linked
  <2>3. Hand(t)' = {Head(queue), "port"}
    BY <1>1, <1>4, <2>2 DEF Hand
  <2>4. Hand(t) = {"port"}
    <3>1. None # "port"
      BY DEF Loop!HoldersAssumption
    <3>2. QED
      BY <1>1, <2>1, <3>1 DEF Hand
  <2>5. \A u \in T : u # t => Hand(u)' = Hand(u) /\ Linked(u)' = Linked(u)
    BY <1>4 DEF Hand, Linked
  <2>6. QED
    BY <2>2, <2>3, <2>4, <2>5
<1>6. /\ queue' = Tail(queue) /\ open' = open \cup {Head(queue)}
      /\ UNCHANGED <<multiWait, deferredList, deferred, stop, wakeup>>
  OBVIOUS
<1>7. Loop(T, S, D)!TypeOK'
  <2>1. loop' \in [T -> LoopPCs]
    BY <1>1, <1>2, <1>3, <1>4, <1>5, <1>6 DEF LoopInv, Loop!TypeOK, LoopPCs
  <2>2. mine' \in [T -> Loop(T, S, D)!Holders \cup {None}]
    BY <1>1, <1>2, <1>3, <1>4, <1>5, <1>6 DEF LoopInv, Loop!TypeOK, LoopPCs
  <2>3. links' \in [T -> Seq(Loop(T, S, D)!Holders)]
    BY <1>3 DEF LoopInv, Loop!TypeOK
  <2>4. retry' \in [T -> SUBSET S]
    BY <1>1, <1>2, <1>3, <1>4, <1>5, <1>6 DEF LoopInv, Loop!TypeOK, LoopPCs
  <2>5. /\ selection' \in T \cup {None} /\ multiWait' \subseteq Loop(T, S, D)!Holders
        /\ deferredList' \subseteq Loop(T, S, D)!Holders /\ deferred' \subseteq S
    BY <1>1, <1>2, <1>3, <1>4, <1>5, <1>6 DEF LoopInv, Loop!TypeOK, LoopPCs
  <2>6. /\ wakeup' \in BOOLEAN /\ deferral' \in BOOLEAN /\ available' \in BOOLEAN
        /\ stop' \in {"no", "requested", "signaled", "deleted"}
    BY <1>1, <1>2, <1>3, <1>4, <1>5, <1>6 DEF LoopInv, Loop!TypeOK, LoopPCs
  <2>7. /\ queue' \in Seq(S) /\ open' \subseteq S
        /\ asked' \in [S -> {"none", "pending", "received"}] /\ closed' \subseteq S
    BY <1>2, <1>3, <1>6 DEF LoopInv, Loop!TypeOK
  <2>8. QED
    BY <2>1, <2>2, <2>3, <2>4, <2>5, <2>6, <2>7 DEF Loop!TypeOK, LoopPCs
<1>8. Shape(T, S)'
  <2>1. ASSUME NEW u \in T, u # t, loop[u] = "process", mine[u] = "port" PROVE FALSE
    <3>1. None # "port"
      BY DEF Loop!HoldersAssumption
    <3>2. "port" \in Hand(u) /\ "port" \in Hand(t)
      BY <1>5, <2>1, <3>1 DEF Hand
    <3>3. QED
      BY <2>1, <3>2 DEF LoopInv, NoTwo
  <2>2. \A i, j \in 1 .. Len(links'[t]) : links'[t][i] = links'[t][j] => i = j
    BY <1>3, <1>4
  <2>3. \A u \in T : u # t => \A i, j \in 1 .. Len(links'[u]) : links'[u][i] = links'[u][j] => i = j
    BY <1>4 DEF LoopInv, Shape
  <2>4. /\ mine'[t] \notin retry'[t] /\ \A h \in Linked(t)' : h \notin retry'[t]
        /\ retry'[t] = {} /\ links'[t] # <<>>
    <3>1. retry'[t] = {}
      BY <1>1, <1>4
    <3>2. links'[t] # <<>>
      <4>1. Len(links'[t]) = 2 /\ Len(<<>>) = 0
        BY <1>4
      <4>2. QED
        BY <4>1
    <3>3. QED
      BY <3>1, <3>2
  <2>5. \A u \in T : u # t => /\ loop'[u] = "process" => mine'[u] # "port"
                              /\ mine'[u] \notin retry'[u]
                              /\ \A h \in Linked(u)' : h \notin retry'[u]
    BY <1>4, <1>5, <2>1 DEF LoopInv, Shape
  <2>6. QED
    BY <1>4, <2>2, <2>3, <2>4, <2>5 DEF LoopInv, Shape
<1>9. NoTwo(T)'
  <2>1. \A u \in T : Head(queue) \notin Hand(u)
    BY <1>1, <1>3, NotThere
  <2>2. /\ Head(queue) \notin multiWait /\ Head(queue) \notin deferredList
        /\ Head(queue) \notin deferred
    BY <1>1, <1>3, NotThere
  <2>3. QED
    BY <1>5, <1>6, <2>1, <2>2 DEF LoopInv, NoTwo
<1>10. Somewhere(T, D)'
  BY <1>1, <1>2, <1>3, <1>4, <1>5, <1>6 DEF LoopInv, Somewhere, Placed, Existing
<1>11. QueueOK(S)'
  <2>1. \A i \in 1 .. Len(queue') : queue'[i] \in {queue[j] : j \in 1 .. Len(queue)} \ {Head(queue)}
    BY <1>2, <1>6
  <2>2. QED
    BY <1>1, <1>2, <1>6, <2>1 DEF QueueOK
<1>12. Loop(T, S, D)!NoForgottenHolder'
  BY <1>1, <1>2, <1>3, <1>4, <1>5, <1>6 DEF LoopInv, Loop!NoForgottenHolder
<1>13. QED
  BY <1>7, <1>8, <1>9, <1>10, <1>11, <1>12 DEF LoopInv

\* The session of a client that has closed it is destroyed.
LEMMA KeptByClosed ==
    ASSUME NEW T, NEW S, NEW D,
           Loop(T, S, D)!HoldersAssumption, LoopInv(T, S, D),
           NEW t \in T, Loop(T, S, D)!OnSessionEvent(t), mine[t] \in closed
    PROVE  LoopInv(T, S, D)'
<1> USE DEF Loop!OnSessionEvent, Loop!DestroySession, Loop!threadVars,
           Loop!listVars, Loop!clientVars
<1>1. /\ loop[t] = "process" /\ mine[t] \in S /\ links[t] = <<>> /\ retry[t] \in SUBSET S
      /\ mine[t] \notin retry[t] /\ mine[t] # None /\ mine[t] # "port"
      /\ mine[t] \in Loop(T, S, D)!Holders
  BY HoldersDistinct DEF LoopInv, Loop!TypeOK, Shape
<1>2. /\ loop' \in [T -> LoopPCs] /\ mine' \in [T -> Loop(T, S, D)!Holders \cup {None}]
      /\ retry' \in [T -> SUBSET S]
      /\ loop'[t] \in {"loop", "handle"} /\ (loop'[t] = "handle" => mine'[t] \in S)
      /\ (loop'[t] = "loop" => mine'[t] = None /\ retry'[t] = {})
      /\ mine'[t] \notin retry'[t] /\ Hand(t)' = {}
      /\ \A u \in T : u # t =>
                loop'[u] = loop[u] /\ mine'[u] = mine[u] /\ retry'[u] = retry[u]
  <2>1. Loop(T, S, D)!Continue(t, {}) /\ links'[t] = <<>>
    BY <1>1
  <2>2. QED
    BY <2>1, Goes
<1>3. /\ \A u : Linked(u)' = Linked(u)
      /\ Linked(t) = {} /\ Hand(t) = {mine[t]} \cup retry[t] /\ Hand(t)' = {}
      /\ \A u \in T : u # t => Hand(u)' = Hand(u)
  <2>1. /\ \A u : Linked(u)' = Linked(u)
        /\ Linked(t) = {}
    BY <1>1 DEF Linked
  <2>2. QED
    BY <1>1, <1>2, <2>1 DEF Hand
<1>4. /\ retry[t] = {} /\ open' = open \ {mine[t]}
      /\ UNCHANGED <<links, multiWait, deferredList, deferred, stop, wakeup, queue>>
  BY <1>1 DEF LoopInv, Shape
<1>5. Loop(T, S, D)!TypeOK'
  <2>1. loop' \in [T -> LoopPCs]
    BY <1>2
  <2>2. mine' \in [T -> Loop(T, S, D)!Holders \cup {None}]
    BY <1>2
  <2>3. links' \in [T -> Seq(Loop(T, S, D)!Holders)]
    BY <1>1, <1>2, <1>3, <1>4 DEF LoopInv, Loop!TypeOK, LoopPCs
  <2>4. retry' \in [T -> SUBSET S]
    BY <1>2
  <2>5. /\ selection' \in T \cup {None} /\ multiWait' \subseteq Loop(T, S, D)!Holders
        /\ deferredList' \subseteq Loop(T, S, D)!Holders /\ deferred' \subseteq S
    BY <1>1, <1>2, <1>3, <1>4 DEF LoopInv, Loop!TypeOK, LoopPCs
  <2>6. /\ wakeup' \in BOOLEAN /\ deferral' \in BOOLEAN /\ available' \in BOOLEAN
        /\ stop' \in {"no", "requested", "signaled", "deleted"}
    BY <1>1, <1>2, <1>3, <1>4 DEF LoopInv, Loop!TypeOK, LoopPCs
  <2>7. /\ queue' \in Seq(S) /\ open' \subseteq S
        /\ asked' \in [S -> {"none", "pending", "received"}] /\ closed' \subseteq S
    BY <1>1, <1>2, <1>3, <1>4 DEF LoopInv, Loop!TypeOK, LoopPCs
  <2>8. QED
    BY <2>1, <2>2, <2>3, <2>4, <2>5, <2>6, <2>7 DEF Loop!TypeOK, LoopPCs
<1>6. Shape(T, S)'
  <2>1. "port" \notin S /\ None \notin S
    BY HoldersDistinct
  <2>2. QED
    BY <1>1, <1>2, <1>3, <2>1 DEF LoopInv, Shape
<1>7. NoTwo(T)'
  BY <1>1, <1>2, <1>3, <1>4 DEF LoopInv, NoTwo
<1>8. Somewhere(T, D)'
  <2>1. stop # "deleted" /\ \A h : Placed(T, h) <=> h \in Existing(D)
    BY <1>1 DEF LoopInv, Somewhere
  <2>2. mine[t] \in Hand(t) /\ \A h : h = mine[t] => h \notin Hand(t)'
    BY <1>1, <1>3
  <2>3. \A h : Placed(T, h)' <=> Placed(T, h) /\ h # mine[t]
    <3>1. /\ mine[t] \notin multiWait /\ mine[t] \notin deferredList /\ mine[t] \notin deferred
          /\ \A u \in T : u # t => mine[t] \notin Hand(u)
      BY <2>2 DEF LoopInv, NoTwo
    <3>2. \A h : h # mine[t] => (h \in Hand(t)' <=> h \in Hand(t))
      BY <1>3, <1>4
    <3>3. ASSUME NEW h, h # mine[t] PROVE Placed(T, h)' <=> Placed(T, h)
      BY <1>3, <1>4, <3>2, <3>3 DEF Placed
    <3>4. ASSUME NEW h, h = mine[t] PROVE ~Placed(T, h)'
      BY <1>3, <1>4, <2>2, <3>1, <3>4 DEF Placed
    <3>5. QED
      BY <3>3, <3>4
  <2>4. \A h : h \in Existing(D)' <=> h \in Existing(D) /\ h # mine[t]
    BY <1>1, <1>4, HoldersDistinct DEF Existing
  <2>5. QED
    BY <1>4, <2>1, <2>3, <2>4 DEF Somewhere
<1>9. QueueOK(S)'
  BY <1>1, <1>2, <1>3, <1>4 DEF LoopInv, QueueOK
<1>10. Loop(T, S, D)!NoForgottenHolder'
  BY <1>1, <1>2, <1>3, <1>4 DEF LoopInv, Loop!NoForgottenHolder
<1>11. QED
  BY <1>5, <1>6, <1>7, <1>8, <1>9, <1>10 DEF LoopInv

\* A request is received.
LEMMA KeptByReceive ==
    ASSUME NEW T, NEW S, NEW D,
           Loop(T, S, D)!HoldersAssumption, LoopInv(T, S, D),
           NEW t \in T, Loop(T, S, D)!OnSessionEvent(t), mine[t] \notin closed
    PROVE  LoopInv(T, S, D)'
<1> USE DEF Loop!OnSessionEvent, Loop!threadVars, Loop!listVars, Loop!clientVars
<1>1. /\ loop[t] = "process" /\ mine[t] \in S /\ links[t] = <<>> /\ retry[t] \in SUBSET S
      /\ mine[t] \notin retry[t] /\ mine[t] # None /\ mine[t] # "port"
      /\ mine[t] \in Loop(T, S, D)!Holders
  BY HoldersDistinct DEF LoopInv, Loop!TypeOK, Shape
<1>2. \A u : Hand(u)' = Hand(u) /\ Linked(u)' = Linked(u)
  BY DEF Hand, Linked
<1>3. /\ loop[t] = "process" /\ loop'[t] = "handle"
      /\ \A u \in T : u # t => loop'[u] = loop[u]
  BY DEF LoopInv, Loop!TypeOK
<1>4. Loop(T, S, D)!TypeOK'
  <2>1. loop' \in [T -> LoopPCs]
    BY <1>1, <1>2, <1>3 DEF LoopInv, Loop!TypeOK, LoopPCs
  <2>2. mine' \in [T -> Loop(T, S, D)!Holders \cup {None}]
    BY <1>1, <1>2, <1>3 DEF LoopInv, Loop!TypeOK, LoopPCs
  <2>3. links' \in [T -> Seq(Loop(T, S, D)!Holders)]
    BY <1>1, <1>2, <1>3 DEF LoopInv, Loop!TypeOK, LoopPCs
  <2>4. retry' \in [T -> SUBSET S]
    BY <1>1, <1>2, <1>3 DEF LoopInv, Loop!TypeOK, LoopPCs
  <2>5. /\ selection' \in T \cup {None} /\ multiWait' \subseteq Loop(T, S, D)!Holders
        /\ deferredList' \subseteq Loop(T, S, D)!Holders /\ deferred' \subseteq S
    BY <1>1, <1>2, <1>3 DEF LoopInv, Loop!TypeOK, LoopPCs
  <2>6. /\ wakeup' \in BOOLEAN /\ deferral' \in BOOLEAN /\ available' \in BOOLEAN
        /\ stop' \in {"no", "requested", "signaled", "deleted"}
    BY <1>1, <1>2, <1>3 DEF LoopInv, Loop!TypeOK, LoopPCs
  <2>7. /\ queue' \in Seq(S) /\ open' \subseteq S
        /\ asked' \in [S -> {"none", "pending", "received"}] /\ closed' \subseteq S
    BY <1>1, <1>2, <1>3 DEF LoopInv, Loop!TypeOK, LoopPCs
  <2>8. QED
    BY <2>1, <2>2, <2>3, <2>4, <2>5, <2>6, <2>7 DEF Loop!TypeOK, LoopPCs
<1>5. Shape(T, S)'
  BY <1>1, <1>2, <1>3 DEF LoopInv, Shape
<1>6. NoTwo(T)'
  BY <1>1, <1>2, <1>3 DEF LoopInv, NoTwo
<1>7. Somewhere(T, D)'
  BY <1>1, <1>2, <1>3 DEF LoopInv, Somewhere, Placed, Existing
<1>8. QueueOK(S)'
  BY <1>1, <1>2, <1>3 DEF LoopInv, QueueOK
<1>9. Loop(T, S, D)!NoForgottenHolder'
  BY <1>1, <1>2, <1>3 DEF LoopInv, Loop!NoForgottenHolder
<1>10. QED
  BY <1>4, <1>5, <1>6, <1>7, <1>8, <1>9 DEF LoopInv

\* A request is handled.
LEMMA KeptByHandle ==
    ASSUME NEW T, NEW S, NEW D,
           Loop(T, S, D)!HoldersAssumption, LoopInv(T, S, D),
           NEW t \in T, Loop(T, S, D)!Handle(t)
    PROVE  LoopInv(T, S, D)'
<1> USE DEF Loop!Handle, Loop!threadVars, Loop!listVars, Loop!clientVars
<1>1. /\ loop[t] = "handle" /\ mine[t] \in S /\ links[t] = <<>> /\ retry[t] \in SUBSET S
      /\ mine[t] \notin retry[t] /\ mine[t] # None /\ mine[t] # "port"
      /\ mine[t] \in Loop(T, S, D)!Holders
  BY HoldersDistinct DEF LoopInv, Loop!TypeOK, Shape
<1>2. \A u : Hand(u)' = Hand(u) /\ Linked(u)' = Linked(u)
  BY DEF Hand, Linked
<1>3. /\ loop[t] = "handle" /\ loop'[t] = IF available THEN "reply" ELSE "defer"
      /\ \A u \in T : u # t => loop'[u] = loop[u]
  BY DEF LoopInv, Loop!TypeOK
<1>4. Loop(T, S, D)!TypeOK'
  <2>1. loop' \in [T -> LoopPCs]
    BY <1>1, <1>2, <1>3 DEF LoopInv, Loop!TypeOK, LoopPCs
  <2>2. mine' \in [T -> Loop(T, S, D)!Holders \cup {None}]
    BY <1>1, <1>2, <1>3 DEF LoopInv, Loop!TypeOK, LoopPCs
  <2>3. links' \in [T -> Seq(Loop(T, S, D)!Holders)]
    BY <1>1, <1>2, <1>3 DEF LoopInv, Loop!TypeOK, LoopPCs
  <2>4. retry' \in [T -> SUBSET S]
    BY <1>1, <1>2, <1>3 DEF LoopInv, Loop!TypeOK, LoopPCs
  <2>5. /\ selection' \in T \cup {None} /\ multiWait' \subseteq Loop(T, S, D)!Holders
        /\ deferredList' \subseteq Loop(T, S, D)!Holders /\ deferred' \subseteq S
    BY <1>1, <1>2, <1>3 DEF LoopInv, Loop!TypeOK, LoopPCs
  <2>6. /\ wakeup' \in BOOLEAN /\ deferral' \in BOOLEAN /\ available' \in BOOLEAN
        /\ stop' \in {"no", "requested", "signaled", "deleted"}
    BY <1>1, <1>2, <1>3 DEF LoopInv, Loop!TypeOK, LoopPCs
  <2>7. /\ queue' \in Seq(S) /\ open' \subseteq S
        /\ asked' \in [S -> {"none", "pending", "received"}] /\ closed' \subseteq S
    BY <1>1, <1>2, <1>3 DEF LoopInv, Loop!TypeOK, LoopPCs
  <2>8. QED
    BY <2>1, <2>2, <2>3, <2>4, <2>5, <2>6, <2>7 DEF Loop!TypeOK, LoopPCs
<1>5. Shape(T, S)'
  BY <1>1, <1>2, <1>3 DEF LoopInv, Shape
<1>6. NoTwo(T)'
  BY <1>1, <1>2, <1>3 DEF LoopInv, NoTwo
<1>7. Somewhere(T, D)'
  BY <1>1, <1>2, <1>3 DEF LoopInv, Somewhere, Placed, Existing
<1>8. QueueOK(S)'
  BY <1>1, <1>2, <1>3 DEF LoopInv, QueueOK
<1>9. Loop(T, S, D)!NoForgottenHolder'
  BY <1>1, <1>2, <1>3 DEF LoopInv, Loop!NoForgottenHolder
<1>10. QED
  BY <1>4, <1>5, <1>6, <1>7, <1>8, <1>9 DEF LoopInv

\* A request is deferred.
LEMMA KeptByDefer ==
    ASSUME NEW T, NEW S, NEW D,
           Loop(T, S, D)!HoldersAssumption, LoopInv(T, S, D),
           NEW t \in T, Loop(T, S, D)!Defer(t)
    PROVE  LoopInv(T, S, D)'
<1> USE DEF Loop!Defer, Loop!threadVars, Loop!listVars, Loop!clientVars
<1>1. /\ loop[t] = "defer" /\ mine[t] \in S /\ links[t] = <<>> /\ retry[t] \in SUBSET S
      /\ mine[t] \notin retry[t] /\ mine[t] # None /\ mine[t] # "port"
      /\ mine[t] \in Loop(T, S, D)!Holders
  BY HoldersDistinct DEF LoopInv, Loop!TypeOK, Shape
<1>2. /\ loop' \in [T -> LoopPCs] /\ mine' \in [T -> Loop(T, S, D)!Holders \cup {None}]
      /\ retry' \in [T -> SUBSET S]
      /\ loop'[t] \in {"loop", "handle"} /\ (loop'[t] = "handle" => mine'[t] \in S)
      /\ (loop'[t] = "loop" => mine'[t] = None /\ retry'[t] = {})
      /\ mine'[t] \notin retry'[t] /\ Hand(t)' = retry[t]
      /\ \A u \in T : u # t =>
                loop'[u] = loop[u] /\ mine'[u] = mine[u] /\ retry'[u] = retry[u]
  <2>1. Loop(T, S, D)!Continue(t, retry[t]) /\ links'[t] = <<>>
    BY <1>1
  <2>2. QED
    BY <1>1, <2>1, Goes
<1>3. /\ \A u : Linked(u)' = Linked(u)
      /\ Linked(t) = {} /\ Hand(t) = {mine[t]} \cup retry[t] /\ Hand(t)' = retry[t]
      /\ \A u \in T : u # t => Hand(u)' = Hand(u)
  <2>1. /\ \A u : Linked(u)' = Linked(u)
        /\ Linked(t) = {}
    BY <1>1 DEF Linked
  <2>2. QED
    BY <1>1, <1>2, <2>1 DEF Hand
<1>4. /\ deferred' = deferred \cup {mine[t]}
      /\ UNCHANGED <<links, multiWait, deferredList, open, stop, wakeup, queue>>
  OBVIOUS
<1>5. Loop(T, S, D)!TypeOK'
  <2>1. loop' \in [T -> LoopPCs]
    BY <1>2
  <2>2. mine' \in [T -> Loop(T, S, D)!Holders \cup {None}]
    BY <1>2
  <2>3. links' \in [T -> Seq(Loop(T, S, D)!Holders)]
    BY <1>1, <1>2, <1>3, <1>4 DEF LoopInv, Loop!TypeOK, LoopPCs
  <2>4. retry' \in [T -> SUBSET S]
    BY <1>2
  <2>5. /\ selection' \in T \cup {None} /\ multiWait' \subseteq Loop(T, S, D)!Holders
        /\ deferredList' \subseteq Loop(T, S, D)!Holders /\ deferred' \subseteq S
    BY <1>1, <1>2, <1>3, <1>4 DEF LoopInv, Loop!TypeOK, LoopPCs
  <2>6. /\ wakeup' \in BOOLEAN /\ deferral' \in BOOLEAN /\ available' \in BOOLEAN
        /\ stop' \in {"no", "requested", "signaled", "deleted"}
    BY <1>1, <1>2, <1>3, <1>4 DEF LoopInv, Loop!TypeOK, LoopPCs
  <2>7. /\ queue' \in Seq(S) /\ open' \subseteq S
        /\ asked' \in [S -> {"none", "pending", "received"}] /\ closed' \subseteq S
    BY <1>1, <1>2, <1>3, <1>4 DEF LoopInv, Loop!TypeOK, LoopPCs
  <2>8. QED
    BY <2>1, <2>2, <2>3, <2>4, <2>5, <2>6, <2>7 DEF Loop!TypeOK, LoopPCs
<1>6. Shape(T, S)'
  <2>1. "port" \notin S /\ None \notin S
    BY HoldersDistinct
  <2>2. QED
    BY <1>1, <1>2, <1>3, <2>1 DEF LoopInv, Shape
<1>7. NoTwo(T)'
  <2>1. /\ mine[t] \notin multiWait /\ mine[t] \notin deferredList /\ mine[t] \notin deferred
        /\ \A u \in T : u # t => mine[t] \notin Hand(u)
    BY <1>3 DEF LoopInv, NoTwo
  <2>2. \A h : h \in Hand(t)' => h \in Hand(t) /\ h # mine[t]
    BY <1>1, <1>3
  <2>3. QED
    BY <1>3, <1>4, <2>1, <2>2 DEF LoopInv, NoTwo
<1>8. Somewhere(T, D)'
  BY <1>1, <1>2, <1>3, <1>4 DEF LoopInv, Somewhere, Placed, Existing
<1>9. QueueOK(S)'
  BY <1>1, <1>2, <1>3, <1>4 DEF LoopInv, QueueOK
<1>10. Loop(T, S, D)!NoForgottenHolder'
  BY <1>1, <1>2, <1>3, <1>4 DEF LoopInv, Loop!NoForgottenHolder
<1>11. QED
  BY <1>5, <1>6, <1>7, <1>8, <1>9, <1>10 DEF LoopInv

\* The answer that ends the session.
LEMMA KeptByLast ==
    ASSUME NEW T, NEW S, NEW D,
           Loop(T, S, D)!HoldersAssumption, LoopInv(T, S, D),
           NEW t \in T, NEW ends \in BOOLEAN, Loop(T, S, D)!SendReply(t, ends),
           ends \/ mine[t] \in closed
    PROVE  LoopInv(T, S, D)'
<1> USE DEF Loop!SendReply, Loop!DestroySession, Loop!threadVars, Loop!listVars, Loop!clientVars
<1>1. /\ loop[t] = "reply" /\ mine[t] \in S /\ links[t] = <<>> /\ retry[t] \in SUBSET S
      /\ mine[t] \notin retry[t] /\ mine[t] # None /\ mine[t] # "port"
      /\ mine[t] \in Loop(T, S, D)!Holders
  BY HoldersDistinct DEF LoopInv, Loop!TypeOK, Shape
<1>2. /\ loop' \in [T -> LoopPCs] /\ mine' \in [T -> Loop(T, S, D)!Holders \cup {None}]
      /\ retry' \in [T -> SUBSET S]
      /\ loop'[t] \in {"loop", "handle"} /\ (loop'[t] = "handle" => mine'[t] \in S)
      /\ (loop'[t] = "loop" => mine'[t] = None /\ retry'[t] = {})
      /\ mine'[t] \notin retry'[t] /\ Hand(t)' = retry[t]
      /\ \A u \in T : u # t =>
                loop'[u] = loop[u] /\ mine'[u] = mine[u] /\ retry'[u] = retry[u]
  <2>1. Loop(T, S, D)!Continue(t, retry[t]) /\ links'[t] = <<>>
    BY <1>1
  <2>2. QED
    BY <1>1, <2>1, Goes
<1>3. /\ \A u : Linked(u)' = Linked(u)
      /\ Linked(t) = {} /\ Hand(t) = {mine[t]} \cup retry[t] /\ Hand(t)' = retry[t]
      /\ \A u \in T : u # t => Hand(u)' = Hand(u)
  <2>1. /\ \A u : Linked(u)' = Linked(u)
        /\ Linked(t) = {}
    BY <1>1 DEF Linked
  <2>2. QED
    BY <1>1, <1>2, <2>1 DEF Hand
<1>4. /\ open' = open \ {mine[t]}
      /\ UNCHANGED <<links, multiWait, deferredList, deferred, stop, wakeup, queue>>
  OBVIOUS
<1>5. Loop(T, S, D)!TypeOK'
  <2>1. loop' \in [T -> LoopPCs]
    BY <1>2
  <2>2. mine' \in [T -> Loop(T, S, D)!Holders \cup {None}]
    BY <1>2
  <2>3. links' \in [T -> Seq(Loop(T, S, D)!Holders)]
    BY <1>1, <1>2, <1>3, <1>4 DEF LoopInv, Loop!TypeOK, LoopPCs
  <2>4. retry' \in [T -> SUBSET S]
    BY <1>2
  <2>5. /\ selection' \in T \cup {None} /\ multiWait' \subseteq Loop(T, S, D)!Holders
        /\ deferredList' \subseteq Loop(T, S, D)!Holders /\ deferred' \subseteq S
    BY <1>1, <1>2, <1>3, <1>4 DEF LoopInv, Loop!TypeOK, LoopPCs
  <2>6. /\ wakeup' \in BOOLEAN /\ deferral' \in BOOLEAN /\ available' \in BOOLEAN
        /\ stop' \in {"no", "requested", "signaled", "deleted"}
    BY <1>1, <1>2, <1>3, <1>4 DEF LoopInv, Loop!TypeOK, LoopPCs
  <2>7. /\ queue' \in Seq(S) /\ open' \subseteq S
        /\ asked' \in [S -> {"none", "pending", "received"}] /\ closed' \subseteq S
    BY <1>1, <1>2, <1>3, <1>4 DEF LoopInv, Loop!TypeOK, LoopPCs
  <2>8. QED
    BY <2>1, <2>2, <2>3, <2>4, <2>5, <2>6, <2>7 DEF Loop!TypeOK, LoopPCs
<1>6. Shape(T, S)'
  <2>1. "port" \notin S /\ None \notin S
    BY HoldersDistinct
  <2>2. QED
    BY <1>1, <1>2, <1>3, <2>1 DEF LoopInv, Shape
<1>7. NoTwo(T)'
  BY <1>1, <1>2, <1>3, <1>4 DEF LoopInv, NoTwo
<1>8. Somewhere(T, D)'
  <2>1. stop # "deleted" /\ \A h : Placed(T, h) <=> h \in Existing(D)
    BY <1>1 DEF LoopInv, Somewhere
  <2>2. mine[t] \in Hand(t) /\ \A h : h = mine[t] => h \notin Hand(t)'
    BY <1>1, <1>3
  <2>3. \A h : Placed(T, h)' <=> Placed(T, h) /\ h # mine[t]
    <3>1. /\ mine[t] \notin multiWait /\ mine[t] \notin deferredList /\ mine[t] \notin deferred
          /\ \A u \in T : u # t => mine[t] \notin Hand(u)
      BY <2>2 DEF LoopInv, NoTwo
    <3>2. \A h : h # mine[t] => (h \in Hand(t)' <=> h \in Hand(t))
      BY <1>3, <1>4
    <3>3. ASSUME NEW h, h # mine[t] PROVE Placed(T, h)' <=> Placed(T, h)
      BY <1>3, <1>4, <3>2, <3>3 DEF Placed
    <3>4. ASSUME NEW h, h = mine[t] PROVE ~Placed(T, h)'
      BY <1>3, <1>4, <2>2, <3>1, <3>4 DEF Placed
    <3>5. QED
      BY <3>3, <3>4
  <2>4. \A h : h \in Existing(D)' <=> h \in Existing(D) /\ h # mine[t]
    BY <1>1, <1>4, HoldersDistinct DEF Existing
  <2>5. QED
    BY <1>4, <2>1, <2>3, <2>4 DEF Somewhere
<1>9. QueueOK(S)'
  BY <1>1, <1>2, <1>3, <1>4 DEF LoopInv, QueueOK
<1>10. Loop(T, S, D)!NoForgottenHolder'
  BY <1>1, <1>2, <1>3, <1>4 DEF LoopInv, Loop!NoForgottenHolder
<1>11. QED
  BY <1>5, <1>6, <1>7, <1>8, <1>9, <1>10 DEF LoopInv

\* The session is linked again.
LEMMA KeptByReply ==
    ASSUME NEW T, NEW S, NEW D,
           Loop(T, S, D)!HoldersAssumption, LoopInv(T, S, D),
           NEW t \in T, NEW ends \in BOOLEAN, Loop(T, S, D)!SendReply(t, ends),
           ~(ends \/ mine[t] \in closed)
    PROVE  LoopInv(T, S, D)'
<1> USE DEF Loop!SendReply, Loop!Relink, Loop!threadVars, Loop!listVars, Loop!clientVars
<1>1. /\ loop[t] = "reply" /\ mine[t] \in S /\ links[t] = <<>> /\ retry[t] \in SUBSET S
      /\ mine[t] \notin retry[t] /\ mine[t] # None /\ mine[t] # "port"
      /\ mine[t] \in Loop(T, S, D)!Holders
  BY HoldersDistinct DEF LoopInv, Loop!TypeOK, Shape
<1>2. /\ links'[t] = <<mine[t]>> /\ loop'[t] = "link" /\ mine'[t] = None /\ retry' = retry
      /\ \A u \in T : u # t => loop'[u] = loop[u] /\ mine'[u] = mine[u] /\ links'[u] = links[u]
  BY DEF LoopInv, Loop!TypeOK
<1>3. /\ Linked(t)' = {mine[t]}
      /\ \A u \in T : Hand(u)' = Hand(u) /\ (u # t => Linked(u)' = Linked(u))
  <2>1. Linked(t)' = {mine[t]} /\ Linked(t) = {}
    BY <1>1, <1>2 DEF Linked
  <2>2. Hand(t)' = Hand(t)
    BY <1>1, <1>2, <2>1 DEF Hand
  <2>3. \A u \in T : u # t => Hand(u)' = Hand(u) /\ Linked(u)' = Linked(u)
    BY <1>2 DEF Hand, Linked
  <2>4. QED
    BY <2>1, <2>2, <2>3
<1>4. UNCHANGED <<multiWait, deferredList, deferred, open, stop, queue, wakeup>>
  OBVIOUS
<1>5. Loop(T, S, D)!TypeOK'
  <2>1. loop' \in [T -> LoopPCs]
    BY DEF LoopInv, Loop!TypeOK, LoopPCs
  <2>2. mine' \in [T -> Loop(T, S, D)!Holders \cup {None}]
    <3>1. mine' = [mine EXCEPT ![t] = None]
      OBVIOUS
    <3>2. QED
      BY <3>1 DEF LoopInv, Loop!TypeOK
  <2>3. links' \in [T -> Seq(Loop(T, S, D)!Holders)]
    <3>1. <<mine[t]>> \in Seq(Loop(T, S, D)!Holders)
      BY <1>1
    <3>2. links' = [links EXCEPT ![t] = <<mine[t]>>]
      OBVIOUS
    <3>3. QED
      BY <3>1, <3>2 DEF LoopInv, Loop!TypeOK
  <2>4. retry' \in [T -> SUBSET S]
    BY <1>1, <1>2, <1>3, <1>4 DEF LoopInv, Loop!TypeOK, LoopPCs
  <2>5. /\ selection' \in T \cup {None} /\ multiWait' \subseteq Loop(T, S, D)!Holders
        /\ deferredList' \subseteq Loop(T, S, D)!Holders /\ deferred' \subseteq S
    BY <1>1, <1>2, <1>3, <1>4 DEF LoopInv, Loop!TypeOK, LoopPCs
  <2>6. /\ wakeup' \in BOOLEAN /\ deferral' \in BOOLEAN /\ available' \in BOOLEAN
        /\ stop' \in {"no", "requested", "signaled", "deleted"}
    BY <1>1, <1>2, <1>3, <1>4 DEF LoopInv, Loop!TypeOK, LoopPCs
  <2>7. /\ queue' \in Seq(S) /\ open' \subseteq S
        /\ asked' \in [S -> {"none", "pending", "received"}] /\ closed' \subseteq S
    BY <1>1, <1>2, <1>3, <1>4 DEF LoopInv, Loop!TypeOK, LoopPCs
  <2>8. QED
    BY <2>1, <2>2, <2>3, <2>4, <2>5, <2>6, <2>7 DEF Loop!TypeOK, LoopPCs
<1>6. Shape(T, S)'
  <2>1. \A i, j \in 1 .. Len(links'[t]) : links'[t][i] = links'[t][j] => i = j
    BY <1>2
  <2>2. None \notin retry[t] /\ links'[t] # <<>>
    BY <1>1, <1>2, HoldersDistinct
  <2>3. mine'[t] \notin retry'[t] /\ \A h \in Linked(t)' : h \notin retry'[t]
    BY <1>1, <1>2, <1>3, <2>2
  <2>4. \A u \in T : u # t => /\ mine'[u] \notin retry'[u]
                              /\ \A h \in Linked(u)' : h \notin retry'[u]
    BY <1>2, <1>3 DEF LoopInv, Shape
  <2>5. \A u \in T : u # t =>
            \A i, j \in 1 .. Len(links'[u]) : links'[u][i] = links'[u][j] => i = j
    BY <1>2 DEF LoopInv, Shape
  <2>6. queue' = queue /\ retry' = retry
    BY <1>2, <1>4
  <2>7. QED
    BY <1>2, <2>1, <2>2, <2>3, <2>4, <2>5, <2>6 DEF LoopInv, Shape
<1>7. NoTwo(T)'
  BY <1>1, <1>2, <1>3, <1>4 DEF LoopInv, NoTwo
<1>8. Somewhere(T, D)'
  BY <1>1, <1>2, <1>3, <1>4 DEF LoopInv, Somewhere, Placed, Existing
<1>9. QueueOK(S)'
  BY <1>1, <1>2, <1>3, <1>4 DEF LoopInv, QueueOK
<1>10. Loop(T, S, D)!NoForgottenHolder'
  BY <1>1, <1>2, <1>3, <1>4 DEF LoopInv, Loop!NoForgottenHolder
<1>11. QED
  BY <1>5, <1>6, <1>7, <1>8, <1>9, <1>10 DEF LoopInv

\* The deferral event is cleared.
LEMMA KeptByDeferralEvent ==
    ASSUME NEW T, NEW S, NEW D,
           Loop(T, S, D)!HoldersAssumption, LoopInv(T, S, D),
           NEW t \in T, Loop(T, S, D)!OnDeferralEvent(t)
    PROVE  LoopInv(T, S, D)'
<1> USE DEF Loop!OnDeferralEvent, Loop!threadVars, Loop!listVars, Loop!clientVars
<1>1. \A u : Hand(u)' = Hand(u) /\ Linked(u)' = Linked(u)
  BY DEF Hand, Linked
<1>2. /\ loop[t] = "process" /\ loop'[t] = "take"
      /\ \A u \in T : u # t => loop'[u] = loop[u]
  BY DEF LoopInv, Loop!TypeOK
<1>3. Loop(T, S, D)!TypeOK'
  <2>1. loop' \in [T -> LoopPCs]
    BY <1>1, <1>2 DEF LoopInv, Loop!TypeOK, LoopPCs
  <2>2. mine' \in [T -> Loop(T, S, D)!Holders \cup {None}]
    BY <1>1, <1>2 DEF LoopInv, Loop!TypeOK, LoopPCs
  <2>3. links' \in [T -> Seq(Loop(T, S, D)!Holders)]
    BY <1>1, <1>2 DEF LoopInv, Loop!TypeOK, LoopPCs
  <2>4. retry' \in [T -> SUBSET S]
    BY <1>1, <1>2 DEF LoopInv, Loop!TypeOK, LoopPCs
  <2>5. /\ selection' \in T \cup {None} /\ multiWait' \subseteq Loop(T, S, D)!Holders
        /\ deferredList' \subseteq Loop(T, S, D)!Holders /\ deferred' \subseteq S
    BY <1>1, <1>2 DEF LoopInv, Loop!TypeOK, LoopPCs
  <2>6. /\ wakeup' \in BOOLEAN /\ deferral' \in BOOLEAN /\ available' \in BOOLEAN
        /\ stop' \in {"no", "requested", "signaled", "deleted"}
    BY <1>1, <1>2 DEF LoopInv, Loop!TypeOK, LoopPCs
  <2>7. /\ queue' \in Seq(S) /\ open' \subseteq S
        /\ asked' \in [S -> {"none", "pending", "received"}] /\ closed' \subseteq S
    BY <1>1, <1>2 DEF LoopInv, Loop!TypeOK, LoopPCs
  <2>8. QED
    BY <2>1, <2>2, <2>3, <2>4, <2>5, <2>6, <2>7 DEF Loop!TypeOK, LoopPCs
<1>4. Shape(T, S)'
  BY <1>1, <1>2 DEF LoopInv, Shape
<1>5. NoTwo(T)'
  BY <1>1, <1>2 DEF LoopInv, NoTwo
<1>6. Somewhere(T, D)'
  BY <1>1, <1>2 DEF LoopInv, Somewhere, Placed, Existing
<1>7. QueueOK(S)'
  BY <1>1, <1>2 DEF LoopInv, QueueOK
<1>8. Loop(T, S, D)!NoForgottenHolder'
  BY <1>1, <1>2 DEF LoopInv, Loop!NoForgottenHolder
<1>9. QED
  BY <1>3, <1>4, <1>5, <1>6, <1>7, <1>8 DEF LoopInv

\* The deferred sessions are taken.
LEMMA KeptByTake ==
    ASSUME NEW T, NEW S, NEW D,
           Loop(T, S, D)!HoldersAssumption, LoopInv(T, S, D),
           NEW t \in T, Loop(T, S, D)!TakeDeferred(t)
    PROVE  LoopInv(T, S, D)'
<1> USE DEF Loop!TakeDeferred, Loop!threadVars, Loop!listVars, Loop!clientVars
<1>1. /\ loop[t] = "take" /\ mine[t] = "deferral" /\ links[t] = <<>> /\ retry[t] = {}
      /\ mine[t] \in Loop(T, S, D)!Holders /\ mine[t] # None /\ "deferral" \notin deferred
      /\ deferred \in SUBSET S
  BY HoldersDistinct DEF LoopInv, Loop!TypeOK, Shape
<1>2. /\ links'[t] = <<"deferral">> /\ loop'[t] = "link" /\ mine'[t] = None /\ retry'[t] = deferred
      /\ \A u \in T : u # t => /\ loop'[u] = loop[u] /\ mine'[u] = mine[u]
                               /\ links'[u] = links[u] /\ retry'[u] = retry[u]
  BY DEF LoopInv, Loop!TypeOK
<1>3. /\ Linked(t)' = {"deferral"} /\ Hand(t)' = {"deferral"} \cup deferred
      /\ Hand(t) = {"deferral"}
      /\ \A u \in T : u # t => Hand(u)' = Hand(u) /\ Linked(u)' = Linked(u)
  <2>1. Linked(t)' = {"deferral"} /\ Linked(t) = {}
    BY <1>1, <1>2 DEF Linked
  <2>2. QED
    BY <1>1, <1>2, <2>1 DEF Hand, Linked
<1>4. deferred' = {} /\ UNCHANGED <<multiWait, deferredList, open, stop, queue, wakeup>>
  OBVIOUS
<1>5. Loop(T, S, D)!TypeOK'
  <2>1. loop' \in [T -> LoopPCs]
    BY <1>1, <1>2, <1>3, <1>4 DEF LoopInv, Loop!TypeOK, LoopPCs
  <2>2. mine' \in [T -> Loop(T, S, D)!Holders \cup {None}]
    BY <1>1 DEF LoopInv, Loop!TypeOK
  <2>3. links' \in [T -> Seq(Loop(T, S, D)!Holders)]
    <3>1. <<"deferral">> \in Seq(Loop(T, S, D)!Holders)
      BY <1>1
    <3>2. QED
      BY <3>1 DEF LoopInv, Loop!TypeOK
  <2>4. retry' \in [T -> SUBSET S]
    BY <1>1, <1>2, <1>3, <1>4 DEF LoopInv, Loop!TypeOK, LoopPCs
  <2>5. /\ selection' \in T \cup {None} /\ multiWait' \subseteq Loop(T, S, D)!Holders
        /\ deferredList' \subseteq Loop(T, S, D)!Holders /\ deferred' \subseteq S
    BY <1>1, <1>2, <1>3, <1>4 DEF LoopInv, Loop!TypeOK, LoopPCs
  <2>6. /\ wakeup' \in BOOLEAN /\ deferral' \in BOOLEAN /\ available' \in BOOLEAN
        /\ stop' \in {"no", "requested", "signaled", "deleted"}
    BY <1>1, <1>2, <1>3, <1>4 DEF LoopInv, Loop!TypeOK, LoopPCs
  <2>7. /\ queue' \in Seq(S) /\ open' \subseteq S
        /\ asked' \in [S -> {"none", "pending", "received"}] /\ closed' \subseteq S
    BY <1>1, <1>2, <1>3, <1>4 DEF LoopInv, Loop!TypeOK, LoopPCs
  <2>8. QED
    BY <2>1, <2>2, <2>3, <2>4, <2>5, <2>6, <2>7 DEF Loop!TypeOK, LoopPCs
<1>6. Shape(T, S)'
  <2>1. \A i, j \in 1 .. Len(links'[t]) : links'[t][i] = links'[t][j] => i = j
    BY <1>2
  <2>2. None \notin deferred
    BY <1>1, HoldersDistinct
  <2>3. mine'[t] \notin retry'[t] /\ \A h \in Linked(t)' : h \notin retry'[t]
    BY <1>1, <1>2, <1>3, <2>2
  <2>4. links'[t] # <<>>
    BY <1>2
  <2>5. QED
    BY <1>2, <1>3, <1>4, <2>1, <2>3, <2>4 DEF LoopInv, Shape
<1>7. NoTwo(T)'
  <2>1. "deferral" \in Hand(t)
    BY <1>3
  <2>2. \A h : h \in deferred => /\ h \notin multiWait /\ h \notin deferredList
                               /\ \A u \in T : h \notin Hand(u)
    BY DEF LoopInv, NoTwo
  <2>3. \A h : h \in Hand(t)' <=> h \in Hand(t) \/ h \in deferred
    BY <1>3
  <2>4. QED
    BY <1>3, <1>4, <2>2, <2>3 DEF LoopInv, NoTwo
<1>8. Somewhere(T, D)'
  BY <1>1, <1>2, <1>3, <1>4 DEF LoopInv, Somewhere, Placed, Existing
<1>9. QueueOK(S)'
  BY <1>1, <1>2, <1>3, <1>4 DEF LoopInv, QueueOK
<1>10. Loop(T, S, D)!NoForgottenHolder'
  BY <1>1, <1>2, <1>3, <1>4 DEF LoopInv, Loop!NoForgottenHolder
<1>11. QED
  BY <1>5, <1>6, <1>7, <1>8, <1>9, <1>10 DEF LoopInv

\* A client connects.
LEMMA KeptByConnect ==
    ASSUME NEW T, NEW S, NEW D,
           Loop(T, S, D)!HoldersAssumption, LoopInv(T, S, D),
           NEW s \in S, Loop(T, S, D)!Connect(s)
    PROVE  LoopInv(T, S, D)'
<1> USE DEF Loop!Connect, Loop!threadVars, Loop!listVars, Loop!clientVars
<1>1. \A u : Hand(u)' = Hand(u) /\ Linked(u)' = Linked(u)
  BY DEF Hand, Linked
<1>2. /\ s \notin open /\ queue \in Seq(S) /\ Len(queue) \in Nat
      /\ \A i \in 1 .. Len(queue) : queue[i] # s
      /\ Append(queue, s) \in Seq(S) /\ Append(queue, s) # <<>>
      /\ Len(Append(queue, s)) = Len(queue) + 1
      /\ \A i \in 1 .. Len(queue) + 1 :
             Append(queue, s)[i] = IF i <= Len(queue) THEN queue[i] ELSE s
  <2>1. queue \in Seq(S) /\ Len(queue) \in Nat /\ DOMAIN queue = 1 .. Len(queue)
    BY LenProperties DEF LoopInv, Loop!TypeOK
  <2>2. QED
    BY <2>1, AppendProperties, EmptySeq DEF Loop!Connected
<1>3. /\ queue' = Append(queue, s)
      /\ UNCHANGED <<loop, mine, links, retry, multiWait, deferredList, deferred, open, stop,
                     wakeup>>
  OBVIOUS
<1>4. Loop(T, S, D)!TypeOK'
  <2>1. loop' \in [T -> LoopPCs]
    BY <1>1, <1>2, <1>3 DEF LoopInv, Loop!TypeOK, LoopPCs
  <2>2. mine' \in [T -> Loop(T, S, D)!Holders \cup {None}]
    BY <1>1, <1>2, <1>3 DEF LoopInv, Loop!TypeOK, LoopPCs
  <2>3. links' \in [T -> Seq(Loop(T, S, D)!Holders)]
    BY <1>1, <1>2, <1>3 DEF LoopInv, Loop!TypeOK, LoopPCs
  <2>4. retry' \in [T -> SUBSET S]
    BY <1>1, <1>2, <1>3 DEF LoopInv, Loop!TypeOK, LoopPCs
  <2>5. /\ selection' \in T \cup {None} /\ multiWait' \subseteq Loop(T, S, D)!Holders
        /\ deferredList' \subseteq Loop(T, S, D)!Holders /\ deferred' \subseteq S
    BY <1>1, <1>2, <1>3 DEF LoopInv, Loop!TypeOK, LoopPCs
  <2>6. /\ wakeup' \in BOOLEAN /\ deferral' \in BOOLEAN /\ available' \in BOOLEAN
        /\ stop' \in {"no", "requested", "signaled", "deleted"}
    BY <1>1, <1>2, <1>3 DEF LoopInv, Loop!TypeOK, LoopPCs
  <2>7. /\ queue' \in Seq(S) /\ open' \subseteq S
        /\ asked' \in [S -> {"none", "pending", "received"}] /\ closed' \subseteq S
    BY <1>1, <1>2, <1>3 DEF LoopInv, Loop!TypeOK, LoopPCs
  <2>8. QED
    BY <2>1, <2>2, <2>3, <2>4, <2>5, <2>6, <2>7 DEF Loop!TypeOK, LoopPCs
<1>5. Shape(T, S)'
  BY <1>1, <1>2, <1>3 DEF LoopInv, Shape
<1>6. NoTwo(T)'
  BY <1>1, <1>2, <1>3 DEF LoopInv, NoTwo
<1>7. Somewhere(T, D)'
  BY <1>1, <1>2, <1>3 DEF LoopInv, Somewhere, Placed, Existing
<1>8. QueueOK(S)'
  <2>1. \A i, j \in 1 .. Len(queue) : queue[i] = queue[j] => i = j
    BY DEF LoopInv, QueueOK
  <2>2. \A i \in 1 .. Len(queue) : queue[i] \notin open
    BY DEF LoopInv, QueueOK
  <2>3. QED
    BY <1>2, <1>3, <2>1, <2>2 DEF QueueOK
<1>9. Loop(T, S, D)!NoForgottenHolder'
  BY <1>1, <1>2, <1>3 DEF LoopInv, Loop!NoForgottenHolder
<1>10. QED
  BY <1>4, <1>5, <1>6, <1>7, <1>8, <1>9 DEF LoopInv

\* A client sends a request or closes.
LEMMA KeptBySend ==
    ASSUME NEW T, NEW S, NEW D,
           Loop(T, S, D)!HoldersAssumption, LoopInv(T, S, D),
           NEW s \in S, Loop(T, S, D)!SendRequest(s) \/ Loop(T, S, D)!CloseClient(s)
    PROVE  LoopInv(T, S, D)'
<1> USE DEF Loop!SendRequest, Loop!CloseClient, Loop!threadVars, Loop!listVars, Loop!clientVars
<1>1. /\ \A u : Hand(u)' = Hand(u) /\ Linked(u)' = Linked(u)
      /\ UNCHANGED <<loop, mine, links, retry, multiWait, deferredList, deferred, open, queue>>
  BY DEF Hand, Linked
<1>2. Loop(T, S, D)!TypeOK'
  <2>1. loop' \in [T -> LoopPCs]
    BY <1>1 DEF LoopInv, Loop!TypeOK, LoopPCs
  <2>2. mine' \in [T -> Loop(T, S, D)!Holders \cup {None}]
    BY <1>1 DEF LoopInv, Loop!TypeOK, LoopPCs
  <2>3. links' \in [T -> Seq(Loop(T, S, D)!Holders)]
    BY <1>1 DEF LoopInv, Loop!TypeOK, LoopPCs
  <2>4. retry' \in [T -> SUBSET S]
    BY <1>1 DEF LoopInv, Loop!TypeOK, LoopPCs
  <2>5. /\ selection' \in T \cup {None} /\ multiWait' \subseteq Loop(T, S, D)!Holders
        /\ deferredList' \subseteq Loop(T, S, D)!Holders /\ deferred' \subseteq S
    BY <1>1 DEF LoopInv, Loop!TypeOK, LoopPCs
  <2>6. /\ wakeup' \in BOOLEAN /\ deferral' \in BOOLEAN /\ available' \in BOOLEAN
        /\ stop' \in {"no", "requested", "signaled", "deleted"}
    BY <1>1 DEF LoopInv, Loop!TypeOK, LoopPCs
  <2>7. /\ queue' \in Seq(S) /\ open' \subseteq S
        /\ asked' \in [S -> {"none", "pending", "received"}] /\ closed' \subseteq S
    BY <1>1 DEF LoopInv, Loop!TypeOK, LoopPCs
  <2>8. QED
    BY <2>1, <2>2, <2>3, <2>4, <2>5, <2>6, <2>7 DEF Loop!TypeOK, LoopPCs
<1>3. Shape(T, S)'
  BY <1>1 DEF LoopInv, Shape
<1>4. NoTwo(T)'
  BY <1>1 DEF LoopInv, NoTwo
<1>5. Somewhere(T, D)'
  BY <1>1 DEF LoopInv, Somewhere, Placed, Existing
<1>6. QueueOK(S)'
  BY <1>1 DEF LoopInv, QueueOK
<1>7. Loop(T, S, D)!NoForgottenHolder'
  BY <1>1 DEF LoopInv, Loop!NoForgottenHolder
<1>8. QED
  BY <1>2, <1>3, <1>4, <1>5, <1>6, <1>7 DEF LoopInv

\* The service that is asked for comes and goes.
LEMMA KeptByServices ==
    ASSUME NEW T, NEW S, NEW D,
           Loop(T, S, D)!HoldersAssumption, LoopInv(T, S, D),
           Loop(T, S, D)!RegisterService \/ Loop(T, S, D)!UnregisterService
    PROVE  LoopInv(T, S, D)'
<1> USE DEF Loop!RegisterService, Loop!UnregisterService, Loop!threadVars,
           Loop!listVars, Loop!clientVars
<1>1. /\ \A u : Hand(u)' = Hand(u) /\ Linked(u)' = Linked(u)
      /\ UNCHANGED <<loop, mine, links, retry, multiWait, deferredList, deferred, open, queue>>
  BY DEF Hand, Linked
<1>2. Loop(T, S, D)!TypeOK'
  <2>1. loop' \in [T -> LoopPCs]
    BY <1>1 DEF LoopInv, Loop!TypeOK, LoopPCs
  <2>2. mine' \in [T -> Loop(T, S, D)!Holders \cup {None}]
    BY <1>1 DEF LoopInv, Loop!TypeOK, LoopPCs
  <2>3. links' \in [T -> Seq(Loop(T, S, D)!Holders)]
    BY <1>1 DEF LoopInv, Loop!TypeOK, LoopPCs
  <2>4. retry' \in [T -> SUBSET S]
    BY <1>1 DEF LoopInv, Loop!TypeOK, LoopPCs
  <2>5. /\ selection' \in T \cup {None} /\ multiWait' \subseteq Loop(T, S, D)!Holders
        /\ deferredList' \subseteq Loop(T, S, D)!Holders /\ deferred' \subseteq S
    BY <1>1 DEF LoopInv, Loop!TypeOK, LoopPCs
  <2>6. /\ wakeup' \in BOOLEAN /\ deferral' \in BOOLEAN /\ available' \in BOOLEAN
        /\ stop' \in {"no", "requested", "signaled", "deleted"}
    BY <1>1 DEF LoopInv, Loop!TypeOK, LoopPCs
  <2>7. /\ queue' \in Seq(S) /\ open' \subseteq S
        /\ asked' \in [S -> {"none", "pending", "received"}] /\ closed' \subseteq S
    BY <1>1 DEF LoopInv, Loop!TypeOK, LoopPCs
  <2>8. QED
    BY <2>1, <2>2, <2>3, <2>4, <2>5, <2>6, <2>7 DEF Loop!TypeOK, LoopPCs
<1>3. Shape(T, S)'
  BY <1>1 DEF LoopInv, Shape
<1>4. NoTwo(T)'
  BY <1>1 DEF LoopInv, NoTwo
<1>5. Somewhere(T, D)'
  BY <1>1 DEF LoopInv, Somewhere, Placed, Existing
<1>6. QueueOK(S)'
  BY <1>1 DEF LoopInv, QueueOK
<1>7. Loop(T, S, D)!NoForgottenHolder'
  BY <1>1 DEF LoopInv, Loop!NoForgottenHolder
<1>8. QED
  BY <1>2, <1>3, <1>4, <1>5, <1>6, <1>7 DEF LoopInv

\* The destructor begins.
LEMMA KeptByStop ==
    ASSUME NEW T, NEW S, NEW D,
           Loop(T, S, D)!HoldersAssumption, LoopInv(T, S, D),
           Loop(T, S, D)!RequestStop \/ Loop(T, S, D)!SignalStop
    PROVE  LoopInv(T, S, D)'
<1> USE DEF Loop!RequestStop, Loop!SignalStop, Loop!threadVars, Loop!listVars, Loop!clientVars
<1>1. /\ \A u : Hand(u)' = Hand(u) /\ Linked(u)' = Linked(u)
      /\ UNCHANGED <<loop, mine, links, retry, multiWait, deferredList, deferred, open, queue>>
  BY DEF Hand, Linked
<1>2. Loop(T, S, D)!TypeOK'
  <2>1. loop' \in [T -> LoopPCs]
    BY <1>1 DEF LoopInv, Loop!TypeOK, LoopPCs
  <2>2. mine' \in [T -> Loop(T, S, D)!Holders \cup {None}]
    BY <1>1 DEF LoopInv, Loop!TypeOK, LoopPCs
  <2>3. links' \in [T -> Seq(Loop(T, S, D)!Holders)]
    BY <1>1 DEF LoopInv, Loop!TypeOK, LoopPCs
  <2>4. retry' \in [T -> SUBSET S]
    BY <1>1 DEF LoopInv, Loop!TypeOK, LoopPCs
  <2>5. /\ selection' \in T \cup {None} /\ multiWait' \subseteq Loop(T, S, D)!Holders
        /\ deferredList' \subseteq Loop(T, S, D)!Holders /\ deferred' \subseteq S
    BY <1>1 DEF LoopInv, Loop!TypeOK, LoopPCs
  <2>6. /\ wakeup' \in BOOLEAN /\ deferral' \in BOOLEAN /\ available' \in BOOLEAN
        /\ stop' \in {"no", "requested", "signaled", "deleted"}
    BY <1>1 DEF LoopInv, Loop!TypeOK, LoopPCs
  <2>7. /\ queue' \in Seq(S) /\ open' \subseteq S
        /\ asked' \in [S -> {"none", "pending", "received"}] /\ closed' \subseteq S
    BY <1>1 DEF LoopInv, Loop!TypeOK, LoopPCs
  <2>8. QED
    BY <2>1, <2>2, <2>3, <2>4, <2>5, <2>6, <2>7 DEF Loop!TypeOK, LoopPCs
<1>3. Shape(T, S)'
  BY <1>1 DEF LoopInv, Shape
<1>4. NoTwo(T)'
  BY <1>1 DEF LoopInv, NoTwo
<1>5. Somewhere(T, D)'
  BY <1>1 DEF LoopInv, Somewhere, Placed, Existing
<1>6. QueueOK(S)'
  BY <1>1 DEF LoopInv, QueueOK
<1>7. Loop(T, S, D)!NoForgottenHolder'
  BY <1>1 DEF LoopInv, Loop!NoForgottenHolder
<1>8. QED
  BY <1>2, <1>3, <1>4, <1>5, <1>6, <1>7 DEF LoopInv

\* It deletes what is left.
LEMMA KeptByDelete ==
    ASSUME NEW T, NEW S, NEW D,
           Loop(T, S, D)!HoldersAssumption, LoopInv(T, S, D),
           Loop(T, S, D)!Delete
    PROVE  LoopInv(T, S, D)'
<1> USE DEF Loop!Delete, Loop!threadVars, Loop!listVars, Loop!clientVars
<1>1. /\ \A u : Hand(u)' = Hand(u) /\ Linked(u)' = Linked(u)
      /\ \A u \in T : loop[u] = "done" /\ Hand(u) = {}
      /\ UNCHANGED <<loop, mine, links, retry>>
  <2>1. \A u \in T : loop[u] = "done"
    OBVIOUS
  <2>2. \A u \in T : mine[u] = None /\ links[u] = <<>> /\ retry[u] = {}
    BY <2>1 DEF LoopInv, Shape
  <2>3. \A u \in T : Linked(u) = {}
    BY <2>2 DEF Linked
  <2>4. QED
    BY <2>1, <2>2, <2>3 DEF Hand, Linked
<1>2. queue' = <<>> /\ queue' \in Seq(S)
  BY EmptySeq
<1>3. Loop(T, S, D)!TypeOK'
  <2>1. loop' \in [T -> LoopPCs]
    BY <1>1, <1>2 DEF LoopInv, Loop!TypeOK, LoopPCs
  <2>2. mine' \in [T -> Loop(T, S, D)!Holders \cup {None}]
    BY <1>1, <1>2 DEF LoopInv, Loop!TypeOK, LoopPCs
  <2>3. links' \in [T -> Seq(Loop(T, S, D)!Holders)]
    BY <1>1, <1>2 DEF LoopInv, Loop!TypeOK, LoopPCs
  <2>4. retry' \in [T -> SUBSET S]
    BY <1>1, <1>2 DEF LoopInv, Loop!TypeOK, LoopPCs
  <2>5. /\ selection' \in T \cup {None} /\ multiWait' \subseteq Loop(T, S, D)!Holders
        /\ deferredList' \subseteq Loop(T, S, D)!Holders /\ deferred' \subseteq S
    BY <1>1, <1>2 DEF LoopInv, Loop!TypeOK, LoopPCs
  <2>6. /\ wakeup' \in BOOLEAN /\ deferral' \in BOOLEAN /\ available' \in BOOLEAN
        /\ stop' \in {"no", "requested", "signaled", "deleted"}
    BY <1>1, <1>2 DEF LoopInv, Loop!TypeOK, LoopPCs
  <2>7. /\ queue' \in Seq(S) /\ open' \subseteq S
        /\ asked' \in [S -> {"none", "pending", "received"}] /\ closed' \subseteq S
    BY <1>1, <1>2 DEF LoopInv, Loop!TypeOK, LoopPCs
  <2>8. QED
    BY <2>1, <2>2, <2>3, <2>4, <2>5, <2>6, <2>7 DEF Loop!TypeOK, LoopPCs
<1>4. Shape(T, S)'
  BY <1>1, <1>2 DEF LoopInv, Shape
<1>5. NoTwo(T)'
  BY <1>1, <1>2 DEF LoopInv, NoTwo
<1>6. Somewhere(T, D)'
  BY <1>1, <1>2 DEF LoopInv, Somewhere, Placed, Existing
<1>7. QueueOK(S)'
  BY <1>2 DEF QueueOK
<1>8. Loop(T, S, D)!NoForgottenHolder'
  BY <1>1, <1>2 DEF LoopInv, Loop!NoForgottenHolder
<1>9. QED
  BY <1>3, <1>4, <1>5, <1>6, <1>7, <1>8 DEF LoopInv

\* The constructor puts the port and the events into the list to link.
LEMMA LoopInvInit ==
    ASSUME NEW T, NEW S, NEW D, Loop(T, S, D)!HoldersAssumption, Loop(T, S, D)!Init
    PROVE  LoopInv(T, S, D)
<1> USE DEF Loop!Init
<1>1. Loop(T, S, D)!TypeOK
  <2>1. D \in BOOLEAN
    BY DEF Loop!HoldersAssumption
  <2>2. <<>> \in Seq(Loop(T, S, D)!Holders) /\ <<>> \in Seq(S)
    BY EmptySeq
  <2>3. QED
    BY <2>1, <2>2 DEF Loop!TypeOK
<1>2. \A t \in T : /\ loop[t] = "loop" /\ mine[t] = None /\ links[t] = <<>> /\ retry[t] = {}
                   /\ Linked(t) = {} /\ Hand(t) = {}
  BY DEF Linked, Hand
<1>3. Shape(T, S)
  BY <1>2 DEF Shape
<1>4. NoTwo(T)
  BY <1>2 DEF NoTwo
<1>5. \A h : h \in Loop(T, S, D)!Holders \ S <=> h \in Existing(D)
  BY HoldersDistinct DEF Existing
<1>6. Somewhere(T, D)
  BY <1>2, <1>5 DEF Somewhere, Placed
<1>7. QueueOK(S)
  BY DEF QueueOK
<1>8. Loop(T, S, D)!NoForgottenHolder
  BY <1>2 DEF Loop!NoForgottenHolder
<1>9. QED
  BY <1>1, <1>3, <1>4, <1>6, <1>7, <1>8 DEF LoopInv

\* The invariant depends on the variables of the loop only.
LEMMA LoopInvUnchanged ==
    ASSUME NEW T, NEW S, NEW D,
           Loop(T, S, D)!HoldersAssumption, LoopInv(T, S, D),
           UNCHANGED managerVars
    PROVE  LoopInv(T, S, D)'
<1>1. \A u : Hand(u)' = Hand(u) /\ Linked(u)' = Linked(u)
  BY DEF managerVars, Hand, Linked
<1>2. Loop(T, S, D)!TypeOK' /\ Loop(T, S, D)!NoForgottenHolder'
  BY DEF managerVars, LoopInv, Loop!TypeOK, Loop!NoForgottenHolder
<1>3. Shape(T, S)'
  BY <1>1 DEF managerVars, LoopInv, Shape
<1>4. NoTwo(T)'
  BY <1>1 DEF managerVars, LoopInv, NoTwo
<1>5. Somewhere(T, D)' /\ QueueOK(S)'
  BY <1>1 DEF managerVars, LoopInv, Somewhere, Placed, Existing, QueueOK
<1>6. QED
  BY <1>2, <1>3, <1>4, <1>5 DEF LoopInv

\* Every step of the threads, the clients, the services and the destructor keeps it.
LEMMA LoopInvNext ==
    ASSUME NEW T, NEW S, NEW D,
           Loop(T, S, D)!HoldersAssumption, LoopInv(T, S, D),
           Loop(T, S, D)!Next
    PROVE  LoopInv(T, S, D)'
<1>1. ASSUME NEW t \in T, Loop(T, S, D)!ThreadStep(t) PROVE LoopInv(T, S, D)'
  <2>1. CASE Loop(T, S, D)!LoopProcessImpl(t)
    BY <2>1, KeptByLoopProcess
  <2>2. CASE Loop(T, S, D)!LockSelection(t) \/ Loop(T, S, D)!ClearWakeup(t)
    BY <2>2, KeptByClearWakeup
  <2>3. CASE \E h \in Loop(T, S, D)!Holders : Loop(T, S, D)!WaitAny(t, h)
    BY <2>3, KeptByWaitWakeup, KeptByWaitAny
  <2>4. CASE Loop(T, S, D)!Link(t)
    BY <2>4, KeptByLink
  <2>5. CASE Loop(T, S, D)!SignalWakeup(t)
    BY <2>5, KeptBySignalWakeup
  <2>6. CASE Loop(T, S, D)!OnPortEvent(t)
    BY <2>6, KeptByPort
  <2>7. CASE Loop(T, S, D)!OnSessionEvent(t)
    BY <2>7, KeptByClosed, KeptByReceive
  <2>8. CASE Loop(T, S, D)!Handle(t)
    BY <2>8, KeptByHandle
  <2>9. CASE Loop(T, S, D)!Defer(t)
    BY <2>9, KeptByDefer
  <2>10. CASE \E ends \in BOOLEAN : Loop(T, S, D)!SendReply(t, ends)
    BY <2>10, KeptByLast, KeptByReply
  <2>11. CASE Loop(T, S, D)!OnDeferralEvent(t)
    BY <2>11, KeptByDeferralEvent
  <2>12. CASE Loop(T, S, D)!TakeDeferred(t)
    BY <2>12, KeptByTake
  <2>13. QED
    BY <1>1, <2>1, <2>2, <2>3, <2>4, <2>5, <2>6, <2>7, <2>8, <2>9, <2>10, <2>11, <2>12
       DEF Loop!ThreadStep
<1>2. ASSUME NEW s \in S, \/ Loop(T, S, D)!Connect(s) \/ Loop(T, S, D)!SendRequest(s)
                          \/ Loop(T, S, D)!CloseClient(s)
      PROVE  LoopInv(T, S, D)'
  BY <1>2, KeptByConnect, KeptBySend
<1>3. CASE Loop(T, S, D)!RegisterService \/ Loop(T, S, D)!UnregisterService
  BY <1>3, KeptByServices
<1>4. CASE Loop(T, S, D)!Destructor
  BY <1>4, KeptByStop, KeptByDelete DEF Loop!Destructor
<1>5. QED
  BY <1>1, <1>2, <1>3, <1>4 DEF Loop!Next

\* The lists and the hands of the threads, counted.
LEMMA OnePlace ==
    ASSUME NEW T, NEW S, NEW D,
           Loop(T, S, D)!HoldersAssumption, LoopInv(T, S, D)
    PROVE  Loop(T, S, D)!HolderInOnePlace
<1>a. \A set : Loop(T, S, D)!Cardinality(set) = Cardinality(set)
  BY DEF Loop!Cardinality, Cardinality
<1> SUFFICES ASSUME stop # "deleted", NEW h \in Loop(T, S, D)!Holders
             PROVE  Cardinality({l \in 1 .. 3 : h \in <<multiWait, deferredList, deferred>>[l]})
                    + Cardinality({t \in T : h \in Loop(T, S, D)!InHand(t)}) =
                        IF h \in S => h \in open THEN 1 ELSE 0
  BY <1>a DEF Loop!HolderInOnePlace
<1> DEFINE places == {l \in 1 .. 3 : h \in <<multiWait, deferredList, deferred>>[l]}
           hands == {t \in T : h \in Hand(t)}
<1>1. {t \in T : h \in Loop(T, S, D)!InHand(t)} = hands
  BY DEF Loop!InHand, Hand, Linked
<1>2. Placed(T, h) <=> (h \in S => h \in open)
  <2>1. Placed(T, h) <=> h \in Existing(D)
    BY DEF LoopInv, Somewhere
  <2>2. QED
    BY <2>1, HoldersDistinct DEF Existing
<1>3. \A l : l \in places <=> \/ l = 1 /\ h \in multiWait
                              \/ l = 2 /\ h \in deferredList
                              \/ l = 3 /\ h \in deferred
  OBVIOUS
<1>4. Cardinality({}) = 0 /\ \A x : Cardinality({x}) = 1
  BY FS_EmptySet, FS_Singleton
<1>5. /\ ~(h \in multiWait /\ h \in deferredList)
      /\ ~(h \in multiWait /\ h \in deferred) /\ ~(h \in deferredList /\ h \in deferred)
      /\ \A t \in hands : /\ h \notin multiWait /\ h \notin deferredList /\ h \notin deferred
                          /\ \A u \in hands : u = t
  BY DEF LoopInv, NoTwo
<1> HIDE DEF places, hands
<1>6. Cardinality(places) + Cardinality(hands) = IF h \in S => h \in open THEN 1 ELSE 0
  <2>1. CASE ~Placed(T, h)
    <3>1. places = {} /\ hands = {}
      BY <1>3, <2>1 DEF Placed, hands
    <3>2. QED
      BY <1>2, <1>4, <2>1, <3>1
  <2>2. CASE hands # {}
    <3>1. PICK t \in hands : TRUE
      BY <2>2
    <3>2. places = {} /\ hands = {t}
      BY <1>3, <1>5, <3>1
    <3>3. Placed(T, h)
      BY <3>1 DEF Placed, hands
    <3>4. QED
      <4>1. Cardinality(places) = 0 /\ Cardinality(hands) = 1
        BY <1>4, <3>2
      <4>2. QED
        BY <1>2, <3>3, <4>1
  <2>3. CASE hands = {} /\ Placed(T, h)
    <3>1. h \in multiWait \/ h \in deferredList \/ h \in deferred
      BY <2>3 DEF Placed, hands
    <3>2. \E l : places = {l}
      <4>1. CASE h \in multiWait
        <5>1. places = {1}
          BY <1>3, <1>5, <4>1
        <5>2. QED
          BY <5>1
      <4>2. CASE h \in deferredList
        <5>1. places = {2}
          BY <1>3, <1>5, <4>2
        <5>2. QED
          BY <5>1
      <4>3. CASE h \in deferred
        <5>1. places = {3}
          BY <1>3, <1>5, <4>3
        <5>2. QED
          BY <5>1
      <4>4. QED
        BY <3>1, <4>1, <4>2, <4>3
    <3>3. Cardinality(places) = 1 /\ Cardinality(hands) = 0
      BY <1>4, <2>3, <3>2
    <3>4. QED
      BY <1>2, <2>3, <3>3
  <2>4. QED
    BY <2>1, <2>2, <2>3
<1>7. QED
  BY <1>1, <1>6 DEF places, hands

\* Of a single thread: a request it is about to defer has been refused, and if the service has
\* come since, the event is set.
Refused(t) == loop[t] = "defer" /\ available => deferral

LEMMA RefusedNext ==
    ASSUME NEW t, NEW S, Loop({t}, S, TRUE)!HoldersAssumption,
           LoopInv({t}, S, TRUE), Refused(t), Loop({t}, S, TRUE)!NoLostDeferral,
           Loop({t}, S, TRUE)!Next
    PROVE  Refused(t)' /\ Loop({t}, S, TRUE)!NoLostDeferral'
<1> DEFINE L == Loop({t}, S, TRUE)!Holders
<1> USE DEF Refused, Loop!NoLostDeferral, Loop!threadVars, Loop!listVars, Loop!clientVars
<1>1. loop \in [{t} -> LoopPCs] /\ DOMAIN loop = {t}
  BY DEF LoopInv, Loop!TypeOK, LoopPCs
<1>2. CASE Loop({t}, S, TRUE)!ThreadStep(t)
  <2>1. ASSUME NEW rest, Loop({t}, S, TRUE)!Continue(t, rest)
        PROVE  loop'[t] \in {"loop", "handle"}
    BY <1>1, <2>1 DEF Loop!Continue
  <2>2. CASE Loop({t}, S, TRUE)!LoopProcessImpl(t)
    BY <1>1, <2>2 DEF Loop!LoopProcessImpl
  <2>3. CASE Loop({t}, S, TRUE)!LockSelection(t) \/ Loop({t}, S, TRUE)!ClearWakeup(t)
    BY <1>1, <2>3 DEF Loop!LockSelection, Loop!ClearWakeup, Loop!LinkDeferred
  <2>4. CASE \E h \in L : Loop({t}, S, TRUE)!WaitAny(t, h)
    <3>1. PICK h \in L : Loop({t}, S, TRUE)!WaitAny(t, h)
      BY <2>4
    <3>2. loop'[t] \in {"clear", "process"}
      BY <1>1, <3>1 DEF Loop!WaitAny
    <3>3. deferred' = deferred /\ available' = available /\ deferral' = deferral
      BY <3>1 DEF Loop!WaitAny
    <3>4. loop[t] # "take"
      BY <3>1 DEF Loop!WaitAny
    <3>5. QED
      BY <3>2, <3>3, <3>4
  <2>5. CASE Loop({t}, S, TRUE)!Link(t)
    BY <1>1, <2>5 DEF Loop!Link
  <2>6. CASE Loop({t}, S, TRUE)!SignalWakeup(t)
    BY <1>1, <2>1, <2>6 DEF Loop!SignalWakeup
  <2>7. CASE Loop({t}, S, TRUE)!OnPortEvent(t)
    BY <1>1, <2>7 DEF Loop!OnPortEvent
  <2>8. CASE Loop({t}, S, TRUE)!OnSessionEvent(t)
    BY <1>1, <2>1, <2>8 DEF Loop!OnSessionEvent
  <2>9. CASE Loop({t}, S, TRUE)!Handle(t)
    BY <1>1, <2>9 DEF Loop!Handle
  <2>10. CASE Loop({t}, S, TRUE)!Defer(t)
    BY <1>1, <2>1, <2>10 DEF Loop!Defer
  <2>11. CASE \E ends \in BOOLEAN : Loop({t}, S, TRUE)!SendReply(t, ends)
    <3>1. PICK ends \in BOOLEAN : Loop({t}, S, TRUE)!SendReply(t, ends)
      BY <2>11
    <3>2. loop'[t] \in {"loop", "handle", "link"} /\ loop[t] # "take"
      BY <1>1, <2>1, <3>1 DEF Loop!SendReply
    <3>3. deferred' = deferred /\ available' = available /\ deferral' = deferral
      BY <3>1 DEF Loop!SendReply
    <3>4. QED
      BY <3>2, <3>3
  <2>12. CASE Loop({t}, S, TRUE)!OnDeferralEvent(t)
    BY <1>1, <2>12 DEF Loop!OnDeferralEvent
  <2>13. CASE Loop({t}, S, TRUE)!TakeDeferred(t)
    BY <1>1, <2>13 DEF Loop!TakeDeferred
  <2>14. QED
    BY <1>2, <2>2, <2>3, <2>4, <2>5, <2>6, <2>7, <2>8, <2>9, <2>10, <2>11, <2>12, <2>13
       DEF Loop!ThreadStep
<1>3. CASE \E s \in S : \/ Loop({t}, S, TRUE)!Connect(s)
                        \/ Loop({t}, S, TRUE)!SendRequest(s)
                        \/ Loop({t}, S, TRUE)!CloseClient(s)
  <2>1. loop' = loop /\ deferred' = deferred /\ available' = available /\ deferral' = deferral
    BY <1>3 DEF Loop!Connect, Loop!SendRequest, Loop!CloseClient
  <2>2. QED
    BY <2>1
<1>4. CASE Loop({t}, S, TRUE)!RegisterService \/ Loop({t}, S, TRUE)!UnregisterService
  BY <1>4 DEF Loop!RegisterService, Loop!UnregisterService
<1>5. CASE Loop({t}, S, TRUE)!Destructor
  BY <1>5 DEF Loop!Destructor, Loop!RequestStop, Loop!SignalStop, Loop!Delete
<1>6. QED
  BY <1>2, <1>3, <1>4, <1>5 DEF Loop!Next

\* What holds of both services.
ServicesInv ==
    /\ explored = "Manager" => LoopInv(LoopThreads, LoopSessions, FALSE)
    /\ explored = "Deferral" => /\ LoopInv({DeferThread}, DeferSessions, TRUE)
                                /\ Refused(DeferThread)
                                /\ Loop({DeferThread}, DeferSessions, TRUE)!NoLostDeferral

\* Of any service, with any threads and sessions: what its threads wait for is in one list or
\* in one thread's hands, a thread sleeps only if all that was linked is being waited for,
\* and a deferred request that could be answered is tried again.
THEOREM ServiceLoopsAreSound == IpcSpec => []ManagerInvariant
<1>1. IpcInit => ServicesInv
  <2>1. ASSUME IpcInit, explored = "Manager" PROVE LoopInv(LoopThreads, LoopSessions, FALSE)
    BY <2>1, LoopsAssumption, LoopInvInit DEF IpcInit
  <2>2. ASSUME IpcInit, explored = "Deferral"
        PROVE  /\ LoopInv({DeferThread}, DeferSessions, TRUE) /\ Refused(DeferThread)
               /\ Loop({DeferThread}, DeferSessions, TRUE)!NoLostDeferral
    <3>1. Loop({DeferThread}, DeferSessions, TRUE)!Init
      BY <2>2 DEF IpcInit
    <3>2. LoopInv({DeferThread}, DeferSessions, TRUE)
      BY <3>1, LoopsAssumption, LoopInvInit
    <3>3. Refused(DeferThread) /\ Loop({DeferThread}, DeferSessions, TRUE)!NoLostDeferral
      BY <3>1 DEF Loop!Init, Refused, Loop!NoLostDeferral
    <3>4. QED
      BY <3>2, <3>3
  <2>3. QED
    BY <2>1, <2>2 DEF ServicesInv
<1>2. ServicesInv /\ [IpcNext]_allVars => ServicesInv'
  <2> SUFFICES ASSUME ServicesInv, [IpcNext]_allVars PROVE ServicesInv'
    OBVIOUS
  <2>1. explored' = explored
    BY DEF IpcNext, allVars
  <2>2. ASSUME explored = "Manager" PROVE LoopInv(LoopThreads, LoopSessions, FALSE)'
    <3>1. Loop(LoopThreads, LoopSessions, FALSE)!Next \/ UNCHANGED managerVars
      BY <2>2 DEF IpcNext, allVars, managerVars
    <3>2. QED
      BY <2>2, <3>1, LoopsAssumption, LoopInvNext, LoopInvUnchanged DEF ServicesInv
  <2>3. ASSUME explored = "Deferral"
        PROVE  /\ LoopInv({DeferThread}, DeferSessions, TRUE)' /\ Refused(DeferThread)'
               /\ Loop({DeferThread}, DeferSessions, TRUE)!NoLostDeferral'
    <3>1. Loop({DeferThread}, DeferSessions, TRUE)!Next \/ UNCHANGED managerVars
      BY <2>3 DEF IpcNext, allVars, managerVars
    <3>2. LoopInv({DeferThread}, DeferSessions, TRUE)'
      BY <2>3, <3>1, LoopsAssumption, LoopInvNext, LoopInvUnchanged DEF ServicesInv
    <3>3. CASE UNCHANGED managerVars
      <4>1. Refused(DeferThread)' /\ Loop({DeferThread}, DeferSessions, TRUE)!NoLostDeferral'
        BY <2>3, <3>3 DEF ServicesInv, Refused, Loop!NoLostDeferral, managerVars
      <4>2. QED
        BY <3>2, <4>1
    <3>4. CASE Loop({DeferThread}, DeferSessions, TRUE)!Next
      BY <2>3, <3>2, <3>4, LoopsAssumption, RefusedNext DEF ServicesInv
    <3>5. QED
      BY <3>1, <3>3, <3>4
  <2>4. QED
    BY <2>1, <2>2, <2>3 DEF ServicesInv
<1>3. ServicesInv => ManagerInvariant
  BY LoopsAssumption, OnePlace DEF ServicesInv, ManagerInvariant, LoopInv
<1>4. QED
  BY <1>1, <1>2, <1>3, PTL DEF IpcSpec
-----------------------------------------------------------------------------
(***************************************************************************)
(* Sessions.                                                               *)
(***************************************************************************)

SessionPCs == {"Idle", "Waiting", "Popped", "Failed", "Serving", "Reply", "Store", "Lock", "Loop",
               "Done"}

\* The contents of m_request_list; a request that is there, current, or in the hands of an
\* actor (OnItsWay of KServerSession); and one whose call has not returned.
InList == {requests[i] : i \in 1 .. Len(requests)}
Way(r) == r \in InList \/ r = current \/ \E a \in Session!Actors : req[a] = r
Called(r) == \E t \in Clients : request[t] = r

\* What an actor has where it stands: m_lock, a request, the current one.
ActorsOK ==
    \A a \in Session!Actors :
        /\ call[a] \in {"Popped", "Failed", "Reply", "Loop"} <=> lock = a
        /\ call[a] \in {"Popped", "Failed", "Reply"} <=> req[a] # None
        /\ a \in Servers => call[a] \notin {"Lock", "Loop", "Store", "Done"}
        /\ a \in Session!Ends => call[a] \notin {"Waiting", "Popped", "Failed", "Serving"}
        /\ call[a] = "Popped" => current = None
        /\ call[a] = "Failed" => current = req[a]

\* An end that is destroyed has no calls on it.
EndsOK ==
    /\ call["server"] # "Idle" => \A s \in Servers : call[s] \in {"Idle", "Serving"}
    /\ call["client"] # "Idle" => \A t \in Clients : client[t] = "Idle"
    /\ call["client"] \in {"Lock", "Loop"} => session # "Normal"
    /\ call["client"] # "Reply"

\* A request is in one place, except while its receipt fails.
KeptOnce ==
    /\ \A i, j \in 1 .. Len(requests) : requests[i] = requests[j] => i = j
    /\ \A r \in InList : r # current /\ \A a \in Session!Actors : req[a] # r
    /\ \A a \in Session!Actors : req[a] # None /\ req[a] = current => call[a] = "Failed"

\* A client is in one call, and waits only for a request that somebody has and that names it.
CallersOK ==
    \A t \in Clients :
        /\ client[t] = "Idle" <=> request[t] = None
        /\ client[t] = "Waiting" => /\ t \notin terminating /\ thread[request[t]] = t
                                    /\ request[t] \notin event /\ Way(request[t])
        /\ \A u \in Clients : request[t] # None /\ request[t] = request[u] => t = u

\* A synchronous request on its way that names a thread is the one this thread waits for,
\* unless the thread is terminating.
ThreadsOK ==
    \A r \in Requests :
        thread[r] # None /\ r \notin event /\ thread[r] \notin terminating /\ Way(r) =>
            request[thread[r]] = r /\ client[thread[r]] = "Waiting"

RefsOK ==
    \A r \in Requests :
        /\ refs[r] = (IF Way(r) THEN 1 ELSE 0) + (IF Called(r) THEN 1 ELSE 0)
        /\ refs[r] = 0 => r \notin event

PendingOK == \A r \in pending : Way(r)

SessInv ==
    /\ Session!TypeOK /\ ActorsOK /\ EndsOK /\ KeptOnce /\ CallersOK /\ ThreadsOK /\ RefsOK
    /\ PendingOK /\ Session!NoMissedRequest

\* The actors are server threads and the two ends, and null is none of them.
LEMMA ActorsDistinct ==
    /\ Session!Actors = Servers \cup {"client", "server"} /\ Session!Ends = {"client", "server"}
    /\ None \notin Session!Actors /\ None \notin Requests /\ None \notin Clients
    /\ "client" \notin Servers /\ "server" \notin Servers
BY SessionAssumption
   DEF Session!NoneAssumption, Session!ActorsAssumption, Session!Actors, Session!Ends

\* NotifyAvailable.
LEMMA Notifies ==
    ASSUME NEW l, NEW c, NEW places \in [Session!Actors -> SessionPCs]
    PROVE  /\ Session!Notified(l, c, places) \in [Session!Actors -> SessionPCs]
           /\ \A a \in Session!Actors :
                  \/ Session!Notified(l, c, places)[a] = places[a]
                  \/ places[a] = "Waiting" /\ Session!Notified(l, c, places)[a] = "Idle"
           /\ Session!Signaled(l, c) =>
                  \A a \in Session!Actors : Session!Notified(l, c, places)[a] # "Waiting"
BY DEF Session!Notified, SessionPCs

\* Steps that leave requests and clients alone and lose no request on its way.
LEMMA SameWay ==
    ASSUME SessInv, UNCHANGED <<refs, thread, event, pending, client, request, terminating>>,
           \A r \in Requests : Way(r)' <=> Way(r)
    PROVE  CallersOK' /\ ThreadsOK' /\ RefsOK' /\ PendingOK'
<1>1. /\ \A t \in Clients : request[t] \in Requests \cup {None}
      /\ pending \subseteq Requests
  BY DEF SessInv, Session!TypeOK
<1>2. \A r \in Requests : Called(r)' <=> Called(r)
  BY DEF Called
<1>3. CallersOK'
  <2>1. \A t \in Clients : client[t] = "Waiting" => request[t] \in Requests
    BY <1>1 DEF SessInv, CallersOK
  <2>2. \A t \in Clients : client[t] = "Waiting" => Way(request[t])'
    BY <2>1 DEF SessInv, CallersOK
  <2>3. QED
    BY <2>2 DEF SessInv, CallersOK
<1>4. ThreadsOK'
  BY DEF SessInv, ThreadsOK
<1>5. RefsOK'
  BY <1>2 DEF SessInv, RefsOK
<1>6. PendingOK'
  BY <1>1 DEF SessInv, PendingOK
<1>7. QED
  BY <1>3, <1>4, <1>5, <1>6

\* A server sleeps on a session that is not signaled.
LEMMA KeptByWait ==
    ASSUME SessInv, NEW s \in Servers, Session!Wait(s)
    PROVE  SessInv'
<1> USE DEF Session!Wait, Session!Open, Session!reqVars, Session!clientVars
<1>1. /\ call \in [Session!Actors -> SessionPCs] /\ req \in [Session!Actors -> Requests \cup {None}]
      /\ requests \in Seq(Requests) /\ current \in Requests \cup {None}
  BY DEF SessInv, Session!TypeOK, SessionPCs
<1>2. /\ Session!Actors = Servers \cup {"client", "server"} /\ Session!Ends = {"client", "server"}
      /\ None \notin Session!Actors /\ None \notin Requests /\ None \notin Clients
      /\ "client" \notin Servers /\ "server" \notin Servers
  BY ActorsDistinct
<1>3. /\ call' \in [Session!Actors -> SessionPCs] /\ call'[s] = "Waiting"
      /\ \A a \in Session!Actors : a # s => call'[a] = call[a]
  BY <1>1, <1>2 DEF SessionPCs
<1>4. /\ InList' = InList /\ \A r : Way(r)' <=> Way(r)
      /\ UNCHANGED <<requests, current, req>>
  BY DEF Way, InList
<1>5. Session!TypeOK'
  BY <1>1, <1>2, <1>3, <1>4 DEF SessInv, Session!TypeOK
<1>6. ActorsOK'
  BY <1>1, <1>2, <1>3, <1>4 DEF SessInv, ActorsOK
<1>7. EndsOK'
  BY <1>1, <1>2, <1>3, <1>4 DEF SessInv, EndsOK
<1>8. KeptOnce'
  BY <1>1, <1>2, <1>3, <1>4 DEF SessInv, KeptOnce, ActorsOK
<1>9. CallersOK' /\ ThreadsOK' /\ RefsOK' /\ PendingOK'
  BY <1>4, SameWay
<1>10. Session!NoMissedRequest'
  BY <1>1, <1>2, <1>3, <1>4
     DEF SessInv, Session!NoMissedRequest, Session!Signaled, Session!Open, EndsOK
<1>11. QED
  BY <1>5, <1>6, <1>7, <1>8, <1>9, <1>10 DEF SessInv

\* An end without calls begins to close.
LEMMA KeptByDestroy ==
    ASSUME SessInv, NEW end \in {"client", "server"}, Session!Destroy(end)
    PROVE  SessInv'
<1> USE DEF Session!Destroy, Session!Open, Session!Unused, Session!reqVars, Session!clientVars
<1>1. /\ call \in [Session!Actors -> SessionPCs] /\ req \in [Session!Actors -> Requests \cup {None}]
      /\ requests \in Seq(Requests) /\ current \in Requests \cup {None}
  BY DEF SessInv, Session!TypeOK, SessionPCs
<1>2. /\ Session!Actors = Servers \cup {"client", "server"} /\ Session!Ends = {"client", "server"}
      /\ None \notin Session!Actors /\ None \notin Requests /\ None \notin Clients
      /\ "client" \notin Servers /\ "server" \notin Servers
  BY ActorsDistinct
<1>3. /\ call' \in [Session!Actors -> SessionPCs] /\ call'[end] = IF session = "Normal" THEN "Store"
                      ELSE IF end = "client" THEN "Done" ELSE "Lock"
      /\ \A a \in Session!Actors : a # end => call'[a] = call[a]
  BY <1>1, <1>2 DEF SessionPCs
<1>4. /\ InList' = InList /\ \A r : Way(r)' <=> Way(r)
      /\ UNCHANGED <<requests, current, req>>
  BY DEF Way, InList
<1>5. Session!TypeOK'
  BY <1>1, <1>2, <1>3, <1>4 DEF SessInv, Session!TypeOK
<1>6. ActorsOK'
  BY <1>1, <1>2, <1>3, <1>4 DEF SessInv, ActorsOK
<1>7. EndsOK'
  BY <1>1, <1>2, <1>3, <1>4 DEF SessInv, EndsOK
<1>8. KeptOnce'
  BY <1>1, <1>2, <1>3, <1>4 DEF SessInv, KeptOnce, ActorsOK
<1>9. CallersOK' /\ ThreadsOK' /\ RefsOK' /\ PendingOK'
  BY <1>4, SameWay
<1>10. Session!NoMissedRequest'
  BY <1>1, <1>2, <1>3, <1>4
     DEF SessInv, Session!NoMissedRequest, Session!Signaled, Session!Open, EndsOK
<1>11. QED
  BY <1>5, <1>6, <1>7, <1>8, <1>9, <1>10 DEF SessInv

\* The state of the session.
LEMMA KeptBySetState ==
    ASSUME SessInv, NEW end \in {"client", "server"}, Session!SetState(end)
    PROVE  SessInv'
<1> USE DEF Session!SetState, Session!reqVars, Session!clientVars
<1>1. /\ call \in [Session!Actors -> SessionPCs] /\ req \in [Session!Actors -> Requests \cup {None}]
      /\ requests \in Seq(Requests) /\ current \in Requests \cup {None}
  BY DEF SessInv, Session!TypeOK, SessionPCs
<1>2. /\ Session!Actors = Servers \cup {"client", "server"} /\ Session!Ends = {"client", "server"}
      /\ None \notin Session!Actors /\ None \notin Requests /\ None \notin Clients
      /\ "client" \notin Servers /\ "server" \notin Servers
  BY ActorsDistinct
<1>3. /\ call' \in [Session!Actors -> SessionPCs] /\ call'[end] = "Lock"
      /\ \A a \in Session!Actors : a # end => call'[a] = call[a]
  BY <1>1, <1>2 DEF SessionPCs
<1>4. /\ InList' = InList /\ \A r : Way(r)' <=> Way(r)
      /\ UNCHANGED <<requests, current, req>>
  BY DEF Way, InList
<1>5. Session!TypeOK'
  BY <1>1, <1>2, <1>3, <1>4 DEF SessInv, Session!TypeOK
<1>6. ActorsOK'
  BY <1>1, <1>2, <1>3, <1>4 DEF SessInv, ActorsOK
<1>7. EndsOK'
  BY <1>1, <1>2, <1>3, <1>4 DEF SessInv, EndsOK
<1>8. KeptOnce'
  BY <1>1, <1>2, <1>3, <1>4 DEF SessInv, KeptOnce, ActorsOK
<1>9. CallersOK' /\ ThreadsOK' /\ RefsOK' /\ PendingOK'
  BY <1>4, SameWay
<1>10. Session!NoMissedRequest'
  BY <1>1, <1>2, <1>3, <1>4
     DEF SessInv, Session!NoMissedRequest, Session!Signaled, Session!Open, EndsOK
<1>11. QED
  BY <1>5, <1>6, <1>7, <1>8, <1>9, <1>10 DEF SessInv

\* An end takes m_lock.
LEMMA KeptByLock ==
    ASSUME SessInv, NEW end \in {"client", "server"}, Session!LockSession(end)
    PROVE  SessInv'
<1> USE DEF Session!LockSession, Session!reqVars, Session!clientVars
<1>1. /\ call \in [Session!Actors -> SessionPCs] /\ req \in [Session!Actors -> Requests \cup {None}]
      /\ requests \in Seq(Requests) /\ current \in Requests \cup {None}
  BY DEF SessInv, Session!TypeOK, SessionPCs
<1>2. /\ Session!Actors = Servers \cup {"client", "server"} /\ Session!Ends = {"client", "server"}
      /\ None \notin Session!Actors /\ None \notin Requests /\ None \notin Clients
      /\ "client" \notin Servers /\ "server" \notin Servers
  BY ActorsDistinct
<1>3. /\ call' \in [Session!Actors -> SessionPCs] /\ call'[end] = "Loop"
      /\ \A a \in Session!Actors : a # end => call'[a] = call[a]
  BY <1>1, <1>2 DEF SessionPCs
<1>4. /\ InList' = InList /\ \A r : Way(r)' <=> Way(r)
      /\ UNCHANGED <<requests, current, req>>
  BY DEF Way, InList
<1>5. Session!TypeOK'
  BY <1>1, <1>2, <1>3, <1>4 DEF SessInv, Session!TypeOK
<1>6. ActorsOK'
  BY <1>1, <1>2, <1>3, <1>4 DEF SessInv, ActorsOK
<1>7. EndsOK'
  BY <1>1, <1>2, <1>3, <1>4 DEF SessInv, EndsOK
<1>8. KeptOnce'
  BY <1>1, <1>2, <1>3, <1>4 DEF SessInv, KeptOnce, ActorsOK
<1>9. CallersOK' /\ ThreadsOK' /\ RefsOK' /\ PendingOK'
  BY <1>4, SameWay
<1>10. Session!NoMissedRequest'
  BY <1>1, <1>2, <1>3, <1>4
     DEF SessInv, Session!NoMissedRequest, Session!Signaled, Session!Open, EndsOK
<1>11. QED
  BY <1>5, <1>6, <1>7, <1>8, <1>9, <1>10 DEF SessInv

\* The server end is done.
LEMMA KeptByCleanupEnds ==
    ASSUME SessInv, Session!CleanupEnds
    PROVE  SessInv'
<1> USE DEF Session!CleanupEnds, Session!reqVars, Session!clientVars
<1>1. /\ call \in [Session!Actors -> SessionPCs] /\ req \in [Session!Actors -> Requests \cup {None}]
      /\ requests \in Seq(Requests) /\ current \in Requests \cup {None}
  BY DEF SessInv, Session!TypeOK, SessionPCs
<1>2. /\ Session!Actors = Servers \cup {"client", "server"} /\ Session!Ends = {"client", "server"}
      /\ None \notin Session!Actors /\ None \notin Requests /\ None \notin Clients
      /\ "client" \notin Servers /\ "server" \notin Servers
  BY ActorsDistinct
<1>3. /\ call' \in [Session!Actors -> SessionPCs] /\ call'["server"] = "Done"
      /\ \A a \in Session!Actors : a # "server" => call'[a] = call[a]
  BY <1>1, <1>2 DEF SessionPCs
<1>4. /\ InList' = InList /\ \A r : Way(r)' <=> Way(r)
      /\ UNCHANGED <<requests, current, req>>
  BY DEF Way, InList
<1>5. Session!TypeOK'
  BY <1>1, <1>2, <1>3, <1>4 DEF SessInv, Session!TypeOK
<1>6. ActorsOK'
  BY <1>1, <1>2, <1>3, <1>4 DEF SessInv, ActorsOK
<1>7. EndsOK'
  BY <1>1, <1>2, <1>3, <1>4 DEF SessInv, EndsOK
<1>8. KeptOnce'
  BY <1>1, <1>2, <1>3, <1>4 DEF SessInv, KeptOnce, ActorsOK
<1>9. CallersOK' /\ ThreadsOK' /\ RefsOK' /\ PendingOK'
  BY <1>4, SameWay
<1>10. Session!NoMissedRequest'
  BY <1>1, <1>2, <1>3, <1>4
     DEF SessInv, Session!NoMissedRequest, Session!Signaled, Session!Open, EndsOK
<1>11. QED
  BY <1>5, <1>6, <1>7, <1>8, <1>9, <1>10 DEF SessInv

\* The client end is done and notifies.
LEMMA KeptByClientEnds ==
    ASSUME SessInv, Session!ClientClosedEnds
    PROVE  SessInv'
<1> USE DEF Session!ClientClosedEnds, Session!reqVars, Session!clientVars
<1>1. /\ call \in [Session!Actors -> SessionPCs] /\ req \in [Session!Actors -> Requests \cup {None}]
      /\ requests \in Seq(Requests) /\ current \in Requests \cup {None}
  BY DEF SessInv, Session!TypeOK, SessionPCs
<1>2. /\ Session!Actors = Servers \cup {"client", "server"} /\ Session!Ends = {"client", "server"}
      /\ None \notin Session!Actors /\ None \notin Requests /\ None \notin Clients
      /\ "client" \notin Servers /\ "server" \notin Servers
  BY ActorsDistinct
<1>3. [call EXCEPT !["client"] = "Done"] \in [Session!Actors -> SessionPCs]
  BY <1>1 DEF SessionPCs
<1>4. /\ call' \in [Session!Actors -> SessionPCs] /\ call'["client"] = "Done"
      /\ \A a \in Session!Actors : a # "client" =>
             call'[a] = call[a] \/ (call[a] = "Waiting" /\ call'[a] = "Idle")
      /\ Session!Signaled(requests, current) => \A a \in Session!Actors : call'[a] # "Waiting"
  <2>1. PICK places : places = [call EXCEPT !["client"] = "Done"]
    OBVIOUS
  <2>2. /\ places \in [Session!Actors -> SessionPCs] /\ places["client"] = "Done"
        /\ \A a \in Session!Actors : a # "client" => places[a] = call[a]
    BY <1>1, <1>2, <1>3, <2>1
  <2>3. call' = Session!Notified(requests, current, places)
    BY <2>1
  <2> HIDE DEF Session!ClientClosedEnds
  <2>4. QED
    BY <1>2, <2>2, <2>3, Notifies
<1>5. /\ InList' = InList /\ \A r : Way(r)' <=> Way(r)
      /\ UNCHANGED <<requests, current, req>>
  BY DEF Way, InList
<1>6. Session!Signaled(requests, current)
  BY DEF SessInv, EndsOK, Session!Signaled
<1>7. /\ call["client"] = "Loop" /\ lock' = None /\ previous' = None
      /\ UNCHANGED <<session, pending, refs, thread, event, client, request, terminating>>
  OBVIOUS
<1> HIDE DEF Session!ClientClosedEnds
<1>8. Session!TypeOK'
  BY <1>1, <1>2, <1>3, <1>4, <1>5, <1>6, <1>7 DEF SessInv, Session!TypeOK
<1>9. ActorsOK'
  BY <1>1, <1>2, <1>3, <1>4, <1>5, <1>6, <1>7 DEF SessInv, ActorsOK
<1>10. EndsOK'
  BY <1>1, <1>2, <1>3, <1>4, <1>5, <1>6, <1>7 DEF SessInv, EndsOK
<1>11. KeptOnce'
  BY <1>1, <1>2, <1>3, <1>4, <1>5, <1>6, <1>7 DEF SessInv, KeptOnce, ActorsOK
<1>12. CallersOK' /\ ThreadsOK' /\ RefsOK' /\ PendingOK'
  BY <1>5, <1>7, SameWay
<1>13. Session!NoMissedRequest'
  BY <1>1, <1>2, <1>3, <1>4, <1>5, <1>6, <1>7
     DEF SessInv, Session!NoMissedRequest, Session!Signaled, Session!Open, EndsOK
<1>14. QED
  BY <1>8, <1>9, <1>10, <1>11, <1>12, <1>13 DEF SessInv

\* A request is taken from the list.
LEMMA KeptByReceiveRequest ==
    ASSUME SessInv, NEW s \in Servers, Session!ReceiveRequest(s)
    PROVE  SessInv'
<1> USE DEF Session!ReceiveRequest, Session!Open, Session!reqVars, Session!clientVars
<1>1. /\ call \in [Session!Actors -> SessionPCs] /\ req \in [Session!Actors -> Requests \cup {None}]
      /\ requests \in Seq(Requests) /\ current \in Requests \cup {None}
  BY DEF SessInv, Session!TypeOK, SessionPCs
<1>2. /\ Session!Actors = Servers \cup {"client", "server"} /\ Session!Ends = {"client", "server"}
      /\ None \notin Session!Actors /\ None \notin Requests /\ None \notin Clients
      /\ "client" \notin Servers /\ "server" \notin Servers
  BY ActorsDistinct
<1>3. /\ call' \in [Session!Actors -> SessionPCs] /\ call'[s] = "Popped"
      /\ \A a \in Session!Actors : a # s => call'[a] = call[a]
  BY <1>1, <1>2 DEF SessionPCs
<1>4. /\ Head(requests) \in InList /\ Head(requests) \in Requests /\ requests' \in Seq(Requests)
      /\ InList' = InList \ {Head(requests)}
      /\ \A i, j \in 1 .. Len(requests') : requests'[i] = requests'[j] => i = j
  <2>1. /\ requests \in Seq(Requests) /\ requests # <<>>
        /\ \A i, j \in 1 .. Len(requests) : requests[i] = requests[j] => i = j
    BY <1>1 DEF SessInv, KeptOnce
  <2>2. /\ Head(requests) \in {requests[i] : i \in 1 .. Len(requests)}
        /\ Tail(requests) \in Seq(Requests)
        /\ {Tail(requests)[i] : i \in 1 .. Len(Tail(requests))} =
               {requests[i] : i \in 1 .. Len(requests)} \ {Head(requests)}
        /\ \A i, j \in 1 .. Len(Tail(requests)) : Tail(requests)[i] = Tail(requests)[j] => i = j
    BY <2>1, TailOfList
  <2>3. \A i \in 1 .. Len(requests) : requests[i] \in Requests
    BY <2>1, ElementOfSeq
  <2>4. requests' = Tail(requests)
    OBVIOUS
  <2>5. InList = {requests[i] : i \in 1 .. Len(requests)}
    BY DEF InList
  <2>6. InList' = {Tail(requests)[i] : i \in 1 .. Len(Tail(requests))}
    BY <2>4 DEF InList
  <2>7. \A r \in InList : r \in Requests
    BY <2>3, <2>5
  <2>8. QED
    BY <2>2, <2>4, <2>5, <2>6, <2>7
<1>5. /\ req' \in [Session!Actors -> Requests \cup {None}] /\ req'[s] = Head(requests)
      /\ \A a \in Session!Actors : a # s => req'[a] = req[a]
  BY <1>1, <1>2, <1>4
<1>6. req[s] = None
  BY <1>2 DEF SessInv, ActorsOK
<1>7. \A r \in Requests : Way(r)' <=> Way(r)
  BY <1>2, <1>4, <1>5, <1>6 DEF Way
<1>8. Session!TypeOK'
  BY <1>1, <1>2, <1>3, <1>4, <1>5, <1>6, <1>7 DEF SessInv, Session!TypeOK
<1>9. ActorsOK'
  BY <1>1, <1>2, <1>3, <1>4, <1>5, <1>6, <1>7 DEF SessInv, ActorsOK
<1>10. EndsOK'
  BY <1>1, <1>2, <1>3, <1>4, <1>5, <1>6, <1>7 DEF SessInv, EndsOK
<1>11. KeptOnce'
  BY <1>1, <1>2, <1>3, <1>4, <1>5, <1>6, <1>7 DEF SessInv, KeptOnce, ActorsOK
<1>12. CallersOK' /\ ThreadsOK' /\ RefsOK' /\ PendingOK'
  BY <1>7, SameWay
<1>13. Session!NoMissedRequest'
  BY <1>1, <1>2, <1>3, <1>4, <1>5, <1>6, <1>7
     DEF SessInv, Session!NoMissedRequest, Session!Signaled, Session!Open, EndsOK
<1>14. QED
  BY <1>8, <1>9, <1>10, <1>11, <1>12, <1>13 DEF SessInv

\* It becomes the current request.
LEMMA KeptBySetCurrent ==
    ASSUME SessInv, NEW s \in Servers, Session!SetCurrentRequest(s, TRUE)
    PROVE  SessInv'
<1> USE DEF Session!SetCurrentRequest, Session!reqVars, Session!clientVars
<1>1. /\ call \in [Session!Actors -> SessionPCs] /\ req \in [Session!Actors -> Requests \cup {None}]
      /\ requests \in Seq(Requests) /\ current \in Requests \cup {None}
  BY DEF SessInv, Session!TypeOK, SessionPCs
<1>2. /\ Session!Actors = Servers \cup {"client", "server"} /\ Session!Ends = {"client", "server"}
      /\ None \notin Session!Actors /\ None \notin Requests /\ None \notin Clients
      /\ "client" \notin Servers /\ "server" \notin Servers
  BY ActorsDistinct
<1>3. /\ call' \in [Session!Actors -> SessionPCs] /\ call'[s] = "Serving"
      /\ \A a \in Session!Actors : a # s => call'[a] = call[a]
  BY <1>1, <1>2 DEF SessionPCs
<1>4. /\ req' \in [Session!Actors -> Requests \cup {None}] /\ req'[s] = None
      /\ \A a \in Session!Actors : a # s => req'[a] = req[a]
  BY <1>1, <1>2, <1>2
<1>5. current = None /\ req[s] # None /\ req[s] \in Requests /\ lock = s
  BY <1>1, <1>2 DEF SessInv, ActorsOK
<1>6. InList' = InList /\ requests' = requests
  BY DEF InList
<1>7. \A r \in Requests : Way(r)' <=> Way(r)
  BY <1>2, <1>4, <1>5, <1>6 DEF Way
<1>8. Session!TypeOK'
  BY <1>1, <1>2, <1>3, <1>4, <1>5, <1>6, <1>7 DEF SessInv, Session!TypeOK
<1>9. ActorsOK'
  BY <1>1, <1>2, <1>3, <1>4, <1>5, <1>6, <1>7 DEF SessInv, ActorsOK
<1>10. EndsOK'
  BY <1>1, <1>2, <1>3, <1>4, <1>5, <1>6, <1>7 DEF SessInv, EndsOK
<1>11. KeptOnce'
  BY <1>1, <1>2, <1>3, <1>4, <1>5, <1>6, <1>7 DEF SessInv, KeptOnce, ActorsOK
<1>12. CallersOK' /\ ThreadsOK' /\ RefsOK' /\ PendingOK'
  BY <1>7, SameWay
<1>13. Session!NoMissedRequest'
  BY <1>1, <1>2, <1>3, <1>4, <1>5, <1>6, <1>7
     DEF SessInv, Session!NoMissedRequest, Session!Signaled, Session!Open, EndsOK
<1>14. QED
  BY <1>8, <1>9, <1>10, <1>11, <1>12, <1>13 DEF SessInv

\* It becomes the current request of a receipt that fails.
LEMMA KeptByFailing ==
    ASSUME SessInv, NEW s \in Servers, Session!SetCurrentRequest(s, FALSE)
    PROVE  SessInv'
<1> USE DEF Session!SetCurrentRequest, Session!reqVars, Session!clientVars
<1>1. /\ call \in [Session!Actors -> SessionPCs] /\ req \in [Session!Actors -> Requests \cup {None}]
      /\ requests \in Seq(Requests) /\ current \in Requests \cup {None}
  BY DEF SessInv, Session!TypeOK, SessionPCs
<1>2. /\ Session!Actors = Servers \cup {"client", "server"} /\ Session!Ends = {"client", "server"}
      /\ None \notin Session!Actors /\ None \notin Requests /\ None \notin Clients
      /\ "client" \notin Servers /\ "server" \notin Servers
  BY ActorsDistinct
<1>3. /\ call' \in [Session!Actors -> SessionPCs] /\ call'[s] = "Failed"
      /\ \A a \in Session!Actors : a # s => call'[a] = call[a]
  BY <1>1, <1>2 DEF SessionPCs
<1>4. current = None /\ req[s] # None /\ req[s] \in Requests /\ lock = s
  BY <1>1, <1>2 DEF SessInv, ActorsOK
<1>5. InList' = InList /\ requests' = requests
  BY DEF InList
<1>6. \A r \in Requests : Way(r)' <=> Way(r)
  BY <1>2, <1>4, <1>5 DEF Way
<1>7. Session!TypeOK'
  BY <1>1, <1>2, <1>3, <1>4, <1>5, <1>6 DEF SessInv, Session!TypeOK
<1>8. ActorsOK'
  BY <1>1, <1>2, <1>3, <1>4, <1>5, <1>6 DEF SessInv, ActorsOK
<1>9. EndsOK'
  BY <1>1, <1>2, <1>3, <1>4, <1>5, <1>6 DEF SessInv, EndsOK
<1>10. KeptOnce'
  BY <1>1, <1>2, <1>3, <1>4, <1>5, <1>6 DEF SessInv, KeptOnce, ActorsOK
<1>11. CallersOK' /\ ThreadsOK' /\ RefsOK' /\ PendingOK'
  BY <1>6, SameWay
<1>12. Session!NoMissedRequest'
  BY <1>1, <1>2, <1>3, <1>4, <1>5, <1>6
     DEF SessInv, Session!NoMissedRequest, Session!Signaled, Session!Open, EndsOK
<1>13. QED
  BY <1>7, <1>8, <1>9, <1>10, <1>11, <1>12 DEF SessInv

\* The receipt has failed.
LEMMA KeptByFailed ==
    ASSUME SessInv, NEW s \in Servers, Session!ReceiveFailed(s)
    PROVE  SessInv'
<1> USE DEF Session!ReceiveFailed, Session!reqVars, Session!clientVars
<1>1. /\ call \in [Session!Actors -> SessionPCs] /\ req \in [Session!Actors -> Requests \cup {None}]
      /\ requests \in Seq(Requests) /\ current \in Requests \cup {None}
  BY DEF SessInv, Session!TypeOK, SessionPCs
<1>2. /\ Session!Actors = Servers \cup {"client", "server"} /\ Session!Ends = {"client", "server"}
      /\ None \notin Session!Actors /\ None \notin Requests /\ None \notin Clients
      /\ "client" \notin Servers /\ "server" \notin Servers
  BY ActorsDistinct
<1>3. [call EXCEPT ![s] = "Reply"] \in [Session!Actors -> SessionPCs]
  BY <1>1 DEF SessionPCs
<1>4. /\ call' \in [Session!Actors -> SessionPCs] /\ call'[s] = "Reply"
      /\ \A a \in Session!Actors : a # s =>
             call'[a] = call[a] \/ (call[a] = "Waiting" /\ call'[a] = "Idle")
      /\ requests # <<>> /\ Session!Signaled(requests, None) =>
             \A a \in Session!Actors : call'[a] # "Waiting"
  <2>1. CASE requests # <<>>
    <3>1. PICK places : places = [call EXCEPT ![s] = "Reply"]
      OBVIOUS
    <3>2. /\ places \in [Session!Actors -> SessionPCs] /\ places[s] = "Reply"
          /\ \A a \in Session!Actors : a # s => places[a] = call[a]
      BY <1>1, <1>2, <1>3, <3>1
    <3>3. call' = Session!Notified(requests, None, places)
      BY <2>1, <3>1
    <3> HIDE DEF Session!ReceiveFailed
    <3>4. /\ call' \in [Session!Actors -> SessionPCs]
          /\ \A a \in Session!Actors :
                 call'[a] = places[a] \/ (places[a] = "Waiting" /\ call'[a] = "Idle")
          /\ Session!Signaled(requests, None) => \A a \in Session!Actors : call'[a] # "Waiting"
      BY <3>2, <3>3, Notifies
    <3>5. s \in Session!Actors
      BY <1>2
    <3>6. QED
      BY <3>2, <3>4, <3>5
  <2>2. CASE requests = <<>>
    BY <1>1, <1>2, <1>3, <2>2
  <2>3. QED
    BY <2>1, <2>2
<1>5. current = req[s] /\ req[s] # None /\ req[s] \in Requests /\ lock = s
  BY <1>1, <1>2 DEF SessInv, ActorsOK
<1>6. InList' = InList /\ requests' = requests
  BY DEF InList
<1>7. \A r \in Requests : Way(r)' <=> Way(r)
  BY <1>2, <1>5, <1>6 DEF Way
<1>8. /\ call[s] = "Failed" /\ current' = None
      /\ UNCHANGED <<session, requests, pending, lock, req, previous, refs, thread, event, client,
                     request, terminating>>
  OBVIOUS
<1>9. \A r \in InList : r \in Requests
  BY <1>1, LenProperties, ElementOfSeq DEF InList
<1> HIDE DEF Session!ReceiveFailed
<1>10. Session!TypeOK'
  BY <1>1, <1>2, <1>3, <1>4, <1>5, <1>6, <1>7, <1>8, <1>9 DEF SessInv, Session!TypeOK
<1>11. ActorsOK'
  BY <1>1, <1>2, <1>3, <1>4, <1>5, <1>6, <1>7, <1>8, <1>9 DEF SessInv, ActorsOK
<1>12. EndsOK'
  BY <1>1, <1>2, <1>3, <1>4, <1>5, <1>6, <1>7, <1>8, <1>9 DEF SessInv, EndsOK
<1>13. KeptOnce'
  BY <1>1, <1>2, <1>3, <1>4, <1>5, <1>6, <1>7, <1>8, <1>9 DEF SessInv, KeptOnce, ActorsOK
<1>14. CallersOK' /\ ThreadsOK' /\ RefsOK' /\ PendingOK'
  BY <1>7, <1>8, SameWay
<1>15. Session!NoMissedRequest'
  BY <1>1, <1>2, <1>3, <1>4, <1>5, <1>6, <1>7, <1>8, <1>9
     DEF SessInv, Session!NoMissedRequest, Session!Signaled, Session!Open, EndsOK
<1>16. QED
  BY <1>10, <1>11, <1>12, <1>13, <1>14, <1>15 DEF SessInv

\* The current request is taken to be answered.
LEMMA KeptBySendReply ==
    ASSUME SessInv, NEW s \in Servers, Session!SendReply(s)
    PROVE  SessInv'
<1> USE DEF Session!SendReply, Session!Open, Session!reqVars, Session!clientVars
<1>1. /\ call \in [Session!Actors -> SessionPCs] /\ req \in [Session!Actors -> Requests \cup {None}]
      /\ requests \in Seq(Requests) /\ current \in Requests \cup {None}
  BY DEF SessInv, Session!TypeOK, SessionPCs
<1>2. /\ Session!Actors = Servers \cup {"client", "server"} /\ Session!Ends = {"client", "server"}
      /\ None \notin Session!Actors /\ None \notin Requests /\ None \notin Clients
      /\ "client" \notin Servers /\ "server" \notin Servers
  BY ActorsDistinct
<1>3. [call EXCEPT ![s] = "Reply"] \in [Session!Actors -> SessionPCs]
  BY <1>1 DEF SessionPCs
<1>4. /\ call' \in [Session!Actors -> SessionPCs] /\ call'[s] = "Reply"
      /\ \A a \in Session!Actors : a # s =>
             call'[a] = call[a] \/ (call[a] = "Waiting" /\ call'[a] = "Idle")
      /\ requests # <<>> /\ Session!Signaled(requests, None) =>
             \A a \in Session!Actors : call'[a] # "Waiting"
  <2>1. CASE requests # <<>>
    <3>1. PICK places : places = [call EXCEPT ![s] = "Reply"]
      OBVIOUS
    <3>2. /\ places \in [Session!Actors -> SessionPCs] /\ places[s] = "Reply"
          /\ \A a \in Session!Actors : a # s => places[a] = call[a]
      BY <1>1, <1>2, <1>3, <3>1
    <3>3. call' = Session!Notified(requests, None, places)
      BY <2>1, <3>1
    <3> HIDE DEF Session!SendReply
    <3>4. /\ call' \in [Session!Actors -> SessionPCs]
          /\ \A a \in Session!Actors :
                 call'[a] = places[a] \/ (places[a] = "Waiting" /\ call'[a] = "Idle")
          /\ Session!Signaled(requests, None) => \A a \in Session!Actors : call'[a] # "Waiting"
      BY <3>2, <3>3, Notifies
    <3>5. s \in Session!Actors
      BY <1>2
    <3>6. QED
      BY <3>2, <3>4, <3>5
  <2>2. CASE requests = <<>>
    BY <1>1, <1>2, <1>3, <2>2
  <2>3. QED
    BY <2>1, <2>2
<1>5. /\ req' \in [Session!Actors -> Requests \cup {None}] /\ req'[s] = current
      /\ \A a \in Session!Actors : a # s => req'[a] = req[a]
  BY <1>1, <1>2, <1>2
<1>6. current \in Requests /\ current # None /\ req[s] = None
  BY <1>1, <1>2 DEF SessInv, ActorsOK
<1>7. InList' = InList /\ requests' = requests
  BY DEF InList
<1>8. \A r \in Requests : Way(r)' <=> Way(r)
  BY <1>2, <1>5, <1>6, <1>7 DEF Way
<1>9. /\ call[s] = "Serving" /\ lock = None /\ lock' = s /\ current' = None
      /\ call["server"] = "Idle"
      /\ UNCHANGED <<session, requests, pending, previous, refs, thread, event, client, request,
                     terminating>>
  OBVIOUS
<1>10. \A r \in InList : r \in Requests
  BY <1>1, LenProperties, ElementOfSeq DEF InList
<1> HIDE DEF Session!SendReply, Session!Open
<1>11. Session!TypeOK'
  BY <1>1, <1>2, <1>3, <1>4, <1>5, <1>6, <1>7, <1>8, <1>9, <1>10 DEF SessInv, Session!TypeOK
<1>12. ActorsOK'
  BY <1>1, <1>2, <1>3, <1>4, <1>5, <1>6, <1>7, <1>8, <1>9, <1>10 DEF SessInv, ActorsOK
<1>13. EndsOK'
  BY <1>1, <1>2, <1>3, <1>4, <1>5, <1>6, <1>7, <1>8, <1>9, <1>10 DEF SessInv, EndsOK
<1>14. KeptOnce'
  BY <1>1, <1>2, <1>3, <1>4, <1>5, <1>6, <1>7, <1>8, <1>9, <1>10 DEF SessInv, KeptOnce, ActorsOK
<1>15. CallersOK' /\ ThreadsOK' /\ RefsOK' /\ PendingOK'
  BY <1>8, <1>9, SameWay
<1>16. Session!NoMissedRequest'
  BY <1>1, <1>2, <1>3, <1>4, <1>5, <1>6, <1>7, <1>8, <1>9, <1>10
     DEF SessInv, Session!NoMissedRequest, Session!Signaled, Session!Open, EndsOK
<1>17. QED
  BY <1>11, <1>12, <1>13, <1>14, <1>15, <1>16 DEF SessInv

\* The server end takes the current request.
LEMMA KeptByCleanupCurrent ==
    ASSUME SessInv, Session!CleanupRequest, current # None
    PROVE  SessInv'
<1> USE DEF Session!CleanupRequest, Session!reqVars, Session!clientVars
<1>1. /\ call \in [Session!Actors -> SessionPCs] /\ req \in [Session!Actors -> Requests \cup {None}]
      /\ requests \in Seq(Requests) /\ current \in Requests \cup {None}
  BY DEF SessInv, Session!TypeOK, SessionPCs
<1>2. /\ Session!Actors = Servers \cup {"client", "server"} /\ Session!Ends = {"client", "server"}
      /\ None \notin Session!Actors /\ None \notin Requests /\ None \notin Clients
      /\ "client" \notin Servers /\ "server" \notin Servers
  BY ActorsDistinct
<1>3. /\ call' \in [Session!Actors -> SessionPCs] /\ call'["server"] = "Reply"
      /\ \A a \in Session!Actors : a # "server" => call'[a] = call[a]
  BY <1>1, <1>2 DEF SessionPCs
<1>4. /\ req' \in [Session!Actors -> Requests \cup {None}] /\ req'["server"] = current
      /\ \A a \in Session!Actors : a # "server" => req'[a] = req[a]
  BY <1>1, <1>2, <1>2
<1>5. current \in Requests /\ req["server"] = None
  BY <1>1, <1>2 DEF SessInv, ActorsOK
<1>6. InList' = InList /\ requests' = requests
  BY DEF InList
<1>7. \A r \in Requests : Way(r)' <=> Way(r)
  BY <1>2, <1>4, <1>5, <1>6 DEF Way
<1>8. Session!TypeOK'
  BY <1>1, <1>2, <1>3, <1>4, <1>5, <1>6, <1>7 DEF SessInv, Session!TypeOK
<1>9. ActorsOK'
  BY <1>1, <1>2, <1>3, <1>4, <1>5, <1>6, <1>7 DEF SessInv, ActorsOK
<1>10. EndsOK'
  BY <1>1, <1>2, <1>3, <1>4, <1>5, <1>6, <1>7 DEF SessInv, EndsOK
<1>11. KeptOnce'
  BY <1>1, <1>2, <1>3, <1>4, <1>5, <1>6, <1>7 DEF SessInv, KeptOnce, ActorsOK
<1>12. CallersOK' /\ ThreadsOK' /\ RefsOK' /\ PendingOK'
  BY <1>7, SameWay
<1>13. Session!NoMissedRequest'
  BY <1>1, <1>2, <1>3, <1>4, <1>5, <1>6, <1>7
     DEF SessInv, Session!NoMissedRequest, Session!Signaled, Session!Open, EndsOK
<1>14. QED
  BY <1>8, <1>9, <1>10, <1>11, <1>12, <1>13 DEF SessInv

\* It takes the first of the list.
LEMMA KeptByCleanupList ==
    ASSUME SessInv, Session!CleanupRequest, current = None
    PROVE  SessInv'
<1> USE DEF Session!CleanupRequest, Session!reqVars, Session!clientVars
<1>1. /\ call \in [Session!Actors -> SessionPCs] /\ req \in [Session!Actors -> Requests \cup {None}]
      /\ requests \in Seq(Requests) /\ current \in Requests \cup {None}
  BY DEF SessInv, Session!TypeOK, SessionPCs
<1>2. /\ Session!Actors = Servers \cup {"client", "server"} /\ Session!Ends = {"client", "server"}
      /\ None \notin Session!Actors /\ None \notin Requests /\ None \notin Clients
      /\ "client" \notin Servers /\ "server" \notin Servers
  BY ActorsDistinct
<1>3. /\ call' \in [Session!Actors -> SessionPCs] /\ call'["server"] = "Reply"
      /\ \A a \in Session!Actors : a # "server" => call'[a] = call[a]
  BY <1>1, <1>2 DEF SessionPCs
<1>4. /\ Head(requests) \in InList /\ Head(requests) \in Requests /\ requests' \in Seq(Requests)
      /\ InList' = InList \ {Head(requests)}
      /\ \A i, j \in 1 .. Len(requests') : requests'[i] = requests'[j] => i = j
  <2>1. /\ requests \in Seq(Requests) /\ requests # <<>>
        /\ \A i, j \in 1 .. Len(requests) : requests[i] = requests[j] => i = j
    BY <1>1 DEF SessInv, KeptOnce
  <2>2. /\ Head(requests) \in {requests[i] : i \in 1 .. Len(requests)}
        /\ Tail(requests) \in Seq(Requests)
        /\ {Tail(requests)[i] : i \in 1 .. Len(Tail(requests))} =
               {requests[i] : i \in 1 .. Len(requests)} \ {Head(requests)}
        /\ \A i, j \in 1 .. Len(Tail(requests)) : Tail(requests)[i] = Tail(requests)[j] => i = j
    BY <2>1, TailOfList
  <2>3. \A i \in 1 .. Len(requests) : requests[i] \in Requests
    BY <2>1, ElementOfSeq
  <2>4. requests' = Tail(requests)
    OBVIOUS
  <2>5. InList = {requests[i] : i \in 1 .. Len(requests)}
    BY DEF InList
  <2>6. InList' = {Tail(requests)[i] : i \in 1 .. Len(Tail(requests))}
    BY <2>4 DEF InList
  <2>7. \A r \in InList : r \in Requests
    BY <2>3, <2>5
  <2>8. QED
    BY <2>2, <2>4, <2>5, <2>6, <2>7
<1>5. /\ req' \in [Session!Actors -> Requests \cup {None}] /\ req'["server"] = Head(requests)
      /\ \A a \in Session!Actors : a # "server" => req'[a] = req[a]
  BY <1>1, <1>2, <1>4
<1>6. req["server"] = None
  BY <1>2 DEF SessInv, ActorsOK
<1>7. \A r \in Requests : Way(r)' <=> Way(r)
  BY <1>2, <1>4, <1>5, <1>6 DEF Way
<1>8. Session!TypeOK'
  BY <1>1, <1>2, <1>3, <1>4, <1>5, <1>6, <1>7 DEF SessInv, Session!TypeOK
<1>9. ActorsOK'
  BY <1>1, <1>2, <1>3, <1>4, <1>5, <1>6, <1>7 DEF SessInv, ActorsOK
<1>10. EndsOK'
  BY <1>1, <1>2, <1>3, <1>4, <1>5, <1>6, <1>7 DEF SessInv, EndsOK
<1>11. KeptOnce'
  BY <1>1, <1>2, <1>3, <1>4, <1>5, <1>6, <1>7 DEF SessInv, KeptOnce, ActorsOK
<1>12. CallersOK' /\ ThreadsOK' /\ RefsOK' /\ PendingOK'
  BY <1>7, SameWay
<1>13. Session!NoMissedRequest'
  BY <1>1, <1>2, <1>3, <1>4, <1>5, <1>6, <1>7
     DEF SessInv, Session!NoMissedRequest, Session!Signaled, Session!Open, EndsOK
<1>14. QED
  BY <1>8, <1>9, <1>10, <1>11, <1>12, <1>13 DEF SessInv

\* A client is asked to terminate: its wait is cancelled.
LEMMA KeptByTerminate ==
    ASSUME SessInv, NEW t \in Clients, Session!RequestTerminate(t)
    PROVE  SessInv'
<1> USE DEF Session!RequestTerminate, Session!reqVars, Session!clientVars
<1>1. /\ call \in [Session!Actors -> SessionPCs] /\ req \in [Session!Actors -> Requests \cup {None}]
      /\ requests \in Seq(Requests) /\ current \in Requests \cup {None}
  BY DEF SessInv, Session!TypeOK, SessionPCs
<1>2. /\ Session!Actors = Servers \cup {"client", "server"} /\ Session!Ends = {"client", "server"}
      /\ None \notin Session!Actors /\ None \notin Requests /\ None \notin Clients
      /\ "client" \notin Servers /\ "server" \notin Servers
  BY ActorsDistinct
<1>3. /\ client \in [Clients -> {"Idle", "Waiting", "Return"}]
      /\ request \in [Clients -> Requests \cup {None}]
      /\ refs \in [Requests -> 0 .. 2] /\ thread \in [Requests -> Clients \cup {None}]
      /\ event \subseteq Requests /\ pending \subseteq Requests
  BY DEF SessInv, Session!TypeOK
<1>4. /\ client' \in [Clients -> {"Idle", "Waiting", "Return"}]
      /\ client'[t] = IF client[t] = "Waiting" THEN "Return" ELSE client[t]
      /\ \A u \in Clients : u # t => client'[u] = client[u]
  BY <1>3
<1>5. /\ InList' = InList /\ \A r : Way(r)' <=> Way(r)
      /\ UNCHANGED <<requests, current, req>>
  BY DEF Way, InList
<1>6. \A r : Called(r)' <=> Called(r)
  BY DEF Called
<1>7. /\ t \notin terminating /\ terminating' = terminating \cup {t}
      /\ UNCHANGED <<session, requests, current, pending, lock, call, req, previous, refs, thread,
                     event, request>>
  OBVIOUS
<1> HIDE DEF Session!RequestTerminate
<1>8. Session!TypeOK'
  BY <1>1, <1>2, <1>3, <1>4, <1>5, <1>6, <1>7 DEF SessInv, Session!TypeOK
<1>9. ActorsOK'
  BY <1>1, <1>2, <1>3, <1>4, <1>5, <1>6, <1>7 DEF SessInv, ActorsOK
<1>10. EndsOK'
  BY <1>1, <1>2, <1>3, <1>4, <1>5, <1>6, <1>7 DEF SessInv, EndsOK
<1>11. KeptOnce'
  BY <1>1, <1>2, <1>3, <1>4, <1>5, <1>6, <1>7 DEF SessInv, KeptOnce, ActorsOK
<1>12. CallersOK'
  <2>1. \A u \in Clients : client'[u] = "Idle" <=> request'[u] = None
    BY <1>4, <1>7 DEF SessInv, CallersOK
  <2>2. \A u \in Clients : client'[u] = "Waiting" =>
            client[u] = "Waiting" /\ u # t
    BY <1>4
  <2>3. \A u \in Clients : client'[u] = "Waiting" =>
            /\ u \notin terminating' /\ thread[request[u]] = u
            /\ request[u] \notin event /\ Way(request[u])
    BY <1>7, <2>2 DEF SessInv, CallersOK
  <2>4. \A u \in Clients : Way(request[u]) => Way(request[u])'
    BY <1>5, <1>7
  <2>5. QED
    BY <1>7, <2>1, <2>3, <2>4 DEF SessInv, CallersOK
<1>13. ThreadsOK'
  BY <1>1, <1>2, <1>3, <1>4, <1>5, <1>6, <1>7 DEF SessInv, ThreadsOK
<1>14. RefsOK'
  BY <1>1, <1>2, <1>3, <1>4, <1>5, <1>6, <1>7 DEF SessInv, RefsOK
<1>15. PendingOK'
  BY <1>1, <1>2, <1>3, <1>4, <1>5, <1>6, <1>7 DEF SessInv, PendingOK
<1>16. Session!NoMissedRequest'
  BY <1>1, <1>2, <1>3, <1>4, <1>5, <1>6, <1>7
     DEF SessInv, Session!NoMissedRequest, Session!Signaled, Session!Open, EndsOK
<1>17. QED
  BY <1>8, <1>9, <1>10, <1>11, <1>12, <1>13, <1>14, <1>15, <1>16 DEF SessInv

\* What Close does to the request it is called for, and to no other.
LEMMA CloseEffect ==
    ASSUME SessInv, NEW r \in Requests, Session!Close(r)
    PROVE  /\ thread' \in [Requests -> Clients \cup {None}] /\ event' \subseteq Requests
           /\ DOMAIN refs' = Requests /\ refs' = [q \in Requests |-> refs'[q]]
           /\ refs'[r] = refs[r] - 1
           /\ thread'[r] = IF refs[r] = 1 THEN None ELSE thread[r]
           /\ \A q \in Requests : q # r => refs'[q] = refs[q] /\ thread'[q] = thread[q]
           /\ event' = IF refs[r] = 1 THEN event \ {r} ELSE event
<1>1. /\ refs \in [Requests -> 0 .. 2] /\ thread \in [Requests -> Clients \cup {None}]
      /\ event \subseteq Requests
  BY DEF SessInv, Session!TypeOK
<1>2. QED
  BY <1>1 DEF Session!Close

\* The references follow if a request leaves its way or its call returns.
LEMMA RefsFollow ==
    ASSUME SessInv, NEW r \in Requests, Session!Close(r),
           \/ /\ Way(r) /\ ~Way(r)' /\ \A q \in Requests : Called(q)' <=> Called(q)
              /\ \A q \in Requests : q # r => (Way(q)' <=> Way(q))
           \/ /\ Called(r) /\ ~Called(r)' /\ \A q \in Requests : Way(q)' <=> Way(q)
              /\ \A q \in Requests : q # r => (Called(q)' <=> Called(q))
    PROVE  RefsOK' /\ refs' \in [Requests -> 0 .. 2]
<1>1. \A q \in Requests : refs[q] = (IF Way(q) THEN 1 ELSE 0) + (IF Called(q) THEN 1 ELSE 0)
  BY DEF SessInv, RefsOK
<1>2. \A q \in Requests : refs'[q] = (IF Way(q)' THEN 1 ELSE 0) + (IF Called(q)' THEN 1 ELSE 0)
  <2>1. ASSUME NEW q \in Requests, q # r
        PROVE  refs'[q] = (IF Way(q)' THEN 1 ELSE 0) + (IF Called(q)' THEN 1 ELSE 0)
    BY <1>1, <2>1, CloseEffect
  <2>2. refs'[r] = refs[r] - 1
    BY CloseEffect
  <2>3. refs'[r] = (IF Way(r)' THEN 1 ELSE 0) + (IF Called(r)' THEN 1 ELSE 0)
    BY <1>1, <2>2
  <2>4. QED
    BY <2>1, <2>3
<1>3. \A q \in Requests : refs'[q] \in 0 .. 2
  BY <1>2
<1>4. refs' = [q \in Requests |-> refs'[q]]
  BY CloseEffect
<1>5. \A q \in Requests : refs'[q] = 0 => q \notin event'
  <2>1. \A q \in Requests : refs[q] = 0 => q \notin event
    BY DEF SessInv, RefsOK
  <2>2. \A q \in Requests : refs[q] \in 0 .. 2
    BY DEF SessInv, Session!TypeOK
  <2>3. QED
    BY <2>1, <2>2, CloseEffect
<1>6. QED
  BY <1>2, <1>3, <1>4, <1>5 DEF RefsOK

\* A request is answered.
LEMMA KeptByAnswer ==
    ASSUME SessInv, NEW a \in Session!Actors, Session!Reply(a)
    PROVE  SessInv'
<1> USE DEF Session!Reply, Session!EndRequest, Session!reqVars, Session!clientVars
<1>1. /\ call \in [Session!Actors -> SessionPCs] /\ req \in [Session!Actors -> Requests \cup {None}]
      /\ requests \in Seq(Requests) /\ current \in Requests \cup {None}
  BY DEF SessInv, Session!TypeOK, SessionPCs
<1>2. /\ Session!Actors = Servers \cup {"client", "server"} /\ Session!Ends = {"client", "server"}
      /\ None \notin Session!Actors /\ None \notin Requests /\ None \notin Clients
      /\ "client" \notin Servers /\ "server" \notin Servers
  BY ActorsDistinct
<1>3. /\ client \in [Clients -> {"Idle", "Waiting", "Return"}]
      /\ request \in [Clients -> Requests \cup {None}]
      /\ refs \in [Requests -> 0 .. 2] /\ thread \in [Requests -> Clients \cup {None}]
      /\ event \subseteq Requests /\ pending \subseteq Requests
  BY DEF SessInv, Session!TypeOK
<1>4. PICK r \in Requests : req[a] = r
  BY <1>1, <1>2 DEF SessInv, ActorsOK
<1>5. /\ lock = a /\ call[a] = "Reply" /\ a # "client"
      /\ \A b \in Session!Actors : b # a => req[b] = None /\ lock # b
  BY <1>2 DEF SessInv, ActorsOK, EndsOK
<1>6. /\ call' \in [Session!Actors -> SessionPCs]
      /\ call'[a] = (IF a \in Servers THEN "Idle" ELSE "Loop")
      /\ \A b \in Session!Actors : b # a => call'[b] = call[b]
      /\ lock' = IF a \in Servers THEN None ELSE lock
  BY <1>1, <1>2 DEF SessionPCs
<1>7. /\ req' \in [Session!Actors -> Requests \cup {None}] /\ req'[a] = None
      /\ \A b \in Session!Actors : b # a => req'[b] = req[b]
  BY <1>1
<1>8. /\ thread' \in [Requests -> Clients \cup {None}] /\ event' \subseteq Requests
      /\ thread'[r] = (IF refs[r] = 1 THEN None ELSE thread[r])
      /\ \A q \in Requests : q # r => refs'[q] = refs[q] /\ thread'[q] = thread[q]
      /\ event' = (IF refs[r] = 1 THEN event \ {r} ELSE event) /\ Session!Close(r)
  <2>1. Session!Close(r)
    BY <1>4
  <2>2. QED
    BY <2>1, CloseEffect
<1>9. /\ client' \in [Clients -> {"Idle", "Waiting", "Return"}]
      /\ \A t \in Clients : client'[t] =
             IF t = thread[r] /\ r \notin event /\ t \notin terminating /\ client[t] = "Waiting"
             THEN "Return" ELSE client[t]
  BY <1>3, <1>4
<1>10. /\ InList' = InList /\ pending' = pending \ {r}
       /\ UNCHANGED <<session, requests, current, previous, request, terminating>>
  BY <1>4 DEF InList
<1>11. r \notin InList /\ r # current
  BY <1>1, <1>2, <1>4, <1>5 DEF SessInv, KeptOnce
<1>12. \A q \in Requests : Way(q)' <=> Way(q) /\ q # r
  BY <1>2, <1>4, <1>5, <1>7, <1>10, <1>11 DEF Way
<1>13. \A q : Called(q)' <=> Called(q)
  BY <1>10 DEF Called
<1>14. RefsOK' /\ refs' \in [Requests -> 0 .. 2]
  <2>1. Way(r)
    BY <1>4 DEF Way
  <2>2. QED
    BY <1>8, <1>12, <1>13, <2>1, RefsFollow
<1> HIDE DEF Session!Reply, Session!EndRequest
<1>15. Session!TypeOK'
  BY <1>1, <1>2, <1>3, <1>4, <1>5, <1>6, <1>7, <1>8, <1>9, <1>10, <1>11, <1>12, <1>13, <1>14
     DEF SessInv, Session!TypeOK
<1>16. ActorsOK'
  BY <1>1, <1>2, <1>3, <1>4, <1>5, <1>6, <1>7, <1>8, <1>9, <1>10, <1>11, <1>12, <1>13, <1>14
     DEF SessInv, ActorsOK
<1>17. EndsOK'
  BY <1>1, <1>2, <1>3, <1>4, <1>5, <1>6, <1>7, <1>8, <1>9, <1>10, <1>11, <1>12, <1>13, <1>14
     DEF SessInv, EndsOK
<1>18. KeptOnce'
  BY <1>1, <1>2, <1>3, <1>4, <1>5, <1>6, <1>7, <1>8, <1>9, <1>10, <1>11, <1>12, <1>13, <1>14
     DEF SessInv, KeptOnce, ActorsOK
<1>19. CallersOK'
  <2>1. \A t \in Clients : client'[t] = "Idle" <=> client[t] = "Idle"
    BY <1>9
  <2>2. ASSUME NEW t \in Clients, client'[t] = "Waiting"
        PROVE  /\ t \notin terminating /\ thread'[request[t]] = t
               /\ request[t] \notin event' /\ request[t] \in Requests /\ request[t] # r
               /\ Way(request[t])
    <3>1. client[t] = "Waiting"
      BY <1>9, <2>2
    <3>2. /\ t \notin terminating /\ thread[request[t]] = t /\ request[t] \notin event
          /\ request[t] \in Requests /\ Way(request[t])
      BY <1>3, <3>1 DEF SessInv, CallersOK
    <3>3. request[t] # r
      BY <1>9, <2>2, <3>1, <3>2
    <3>4. QED
      BY <1>8, <3>2, <3>3
  <2>3. \A t \in Clients : client'[t] = "Waiting" => Way(request[t])'
    BY <1>10, <1>12, <2>2
  <2>4. QED
    BY <1>10, <2>1, <2>2, <2>3 DEF SessInv, CallersOK
<1>20. ThreadsOK'
  <2>1. SUFFICES ASSUME NEW q \in Requests, thread'[q] # None, q \notin event',
                        thread'[q] \notin terminating, Way(q)'
                 PROVE  request[thread'[q]] = q /\ client'[thread'[q]] = "Waiting"
    BY <1>10 DEF ThreadsOK
  <2>2. q # r /\ Way(q) /\ thread'[q] = thread[q] /\ q \notin event /\ thread[q] \in Clients
    BY <1>3, <1>8, <1>12, <2>1
  <2>3. request[thread[q]] = q /\ client[thread[q]] = "Waiting"
    BY <2>1, <2>2 DEF SessInv, ThreadsOK
  <2>4. ~(thread[q] = thread[r] /\ r \notin event /\ thread[q] \notin terminating)
    <3>1. Way(r)
      BY <1>4 DEF Way
    <3>2. thread[r] # None /\ r \notin event /\ thread[r] \notin terminating =>
              request[thread[r]] = r
      BY <3>1 DEF SessInv, ThreadsOK
    <3>3. QED
      BY <1>2, <2>2, <2>3, <3>2
  <2>5. thread[q] # None
    BY <1>2, <2>2
  <2>6. client'[thread[q]] = client[thread[q]]
    <3>1. CASE thread[q] = thread[r]
      BY <1>9, <2>1, <2>2, <2>4, <3>1
    <3>2. CASE thread[q] # thread[r]
      BY <1>9, <2>2, <3>2
    <3>3. QED
      BY <3>1, <3>2
  <2>7. QED
    BY <2>2, <2>3, <2>6
<1>21. RefsOK'
  BY <1>14
<1>22. PendingOK'
  BY <1>3, <1>10, <1>12 DEF SessInv, PendingOK
<1>23. Session!NoMissedRequest'
  BY <1>1, <1>2, <1>3, <1>4, <1>5, <1>6, <1>7, <1>8, <1>9, <1>10, <1>11, <1>12, <1>13, <1>14
     DEF SessInv, Session!NoMissedRequest, Session!Signaled, Session!Open, EndsOK
<1>24. QED
  BY <1>15, <1>16, <1>17, <1>18, <1>19, <1>20, <1>21, <1>22, <1>23 DEF SessInv

\* The call of a client returns.
LEMMA KeptByReturn ==
    ASSUME SessInv, NEW t \in Clients, Session!ReturnFromRequest(t)
    PROVE  SessInv'
<1> USE DEF Session!ReturnFromRequest, Session!reqVars, Session!clientVars
<1>1. /\ call \in [Session!Actors -> SessionPCs] /\ req \in [Session!Actors -> Requests \cup {None}]
      /\ requests \in Seq(Requests) /\ current \in Requests \cup {None}
  BY DEF SessInv, Session!TypeOK, SessionPCs
<1>2. /\ Session!Actors = Servers \cup {"client", "server"} /\ Session!Ends = {"client", "server"}
      /\ None \notin Session!Actors /\ None \notin Requests /\ None \notin Clients
      /\ "client" \notin Servers /\ "server" \notin Servers
  BY ActorsDistinct
<1>3. /\ client \in [Clients -> {"Idle", "Waiting", "Return"}]
      /\ request \in [Clients -> Requests \cup {None}]
      /\ refs \in [Requests -> 0 .. 2] /\ thread \in [Requests -> Clients \cup {None}]
      /\ event \subseteq Requests /\ pending \subseteq Requests
  BY DEF SessInv, Session!TypeOK
<1>4. PICK r \in Requests : request[t] = r
  BY <1>3 DEF SessInv, CallersOK
<1>5. /\ thread' \in [Requests -> Clients \cup {None}] /\ event' \subseteq Requests
      /\ thread'[r] = (IF refs[r] = 1 THEN None ELSE thread[r])
      /\ \A q \in Requests : q # r => refs'[q] = refs[q] /\ thread'[q] = thread[q]
      /\ event' = (IF refs[r] = 1 THEN event \ {r} ELSE event) /\ Session!Close(r)
  <2>1. Session!Close(r)
    BY <1>4
  <2>2. QED
    BY <2>1, CloseEffect
<1>6. /\ client[t] = "Return" /\ client'[t] = "Idle" /\ request'[t] = None
      /\ client' \in [Clients -> {"Idle", "Waiting", "Return"}]
      /\ request' \in [Clients -> Requests \cup {None}]
      /\ \A u \in Clients : u # t => client'[u] = client[u] /\ request'[u] = request[u]
  BY <1>3
<1>7. /\ InList' = InList /\ \A q : Way(q)' <=> Way(q)
      /\ UNCHANGED <<session, requests, current, pending, lock, call, req, previous, terminating>>
  BY DEF InList, Way
<1>8. \A u \in Clients : u # t => request[u] # r
  BY <1>2, <1>4 DEF SessInv, CallersOK
<1>9. \A q \in Requests : Called(q)' <=> Called(q) /\ q # r
  BY <1>2, <1>4, <1>6, <1>8 DEF Called
<1>10. RefsOK' /\ refs' \in [Requests -> 0 .. 2]
  <2>1. Called(r)
    BY <1>4 DEF Called
  <2>2. QED
    BY <1>5, <1>7, <1>9, <2>1, RefsFollow
<1> HIDE DEF Session!ReturnFromRequest
<1>11. Session!TypeOK'
  BY <1>1, <1>2, <1>3, <1>4, <1>5, <1>6, <1>7, <1>8, <1>9, <1>10 DEF SessInv, Session!TypeOK
<1>12. ActorsOK'
  BY <1>1, <1>2, <1>3, <1>4, <1>5, <1>6, <1>7, <1>8, <1>9, <1>10 DEF SessInv, ActorsOK
<1>13. EndsOK'
  BY <1>1, <1>2, <1>3, <1>4, <1>5, <1>6, <1>7, <1>8, <1>9, <1>10 DEF SessInv, EndsOK
<1>14. KeptOnce'
  BY <1>1, <1>2, <1>3, <1>4, <1>5, <1>6, <1>7, <1>8, <1>9, <1>10 DEF SessInv, KeptOnce, ActorsOK
<1>15. CallersOK'
  <2>1. ASSUME NEW u \in Clients, u # t, client'[u] = "Waiting"
        PROVE  /\ u \notin terminating /\ thread'[request[u]] = u
               /\ request[u] \notin event' /\ Way(request[u])
    <3>1. client[u] = "Waiting"
      BY <1>6, <2>1
    <3>2. /\ u \notin terminating /\ thread[request[u]] = u /\ request[u] \notin event
          /\ request[u] \in Requests /\ Way(request[u])
      BY <1>3, <3>1 DEF SessInv, CallersOK
    <3>3. QED
      BY <1>5, <1>8, <2>1, <3>2
  <2>2. \A u \in Clients : u # t /\ client'[u] = "Waiting" => Way(request[u])'
    BY <1>6, <1>7, <2>1 DEF Way, InList
  <2>3. QED
    BY <1>6, <1>7, <2>1, <2>2 DEF SessInv, CallersOK
<1>16. ThreadsOK'
  <2>1. SUFFICES ASSUME NEW q \in Requests, thread'[q] # None, q \notin event',
                        thread'[q] \notin terminating, Way(q)
                 PROVE  request'[thread'[q]] = q /\ client'[thread'[q]] = "Waiting"
    BY <1>7 DEF ThreadsOK
  <2>2. thread'[q] = thread[q] /\ q \notin event /\ thread[q] \in Clients
    BY <1>3, <1>5, <2>1
  <2>3. request[thread[q]] = q /\ client[thread[q]] = "Waiting"
    BY <2>1, <2>2 DEF SessInv, ThreadsOK
  <2>4. QED
    BY <1>6, <2>2, <2>3
<1>17. RefsOK'
  BY <1>10
<1>18. PendingOK'
  BY <1>1, <1>2, <1>3, <1>4, <1>5, <1>6, <1>7, <1>8, <1>9, <1>10 DEF SessInv, PendingOK
<1>19. Session!NoMissedRequest'
  BY <1>1, <1>2, <1>3, <1>4, <1>5, <1>6, <1>7, <1>8, <1>9, <1>10
     DEF SessInv, Session!NoMissedRequest, Session!Signaled, Session!Open, EndsOK
<1>20. QED
  BY <1>11, <1>12, <1>13, <1>14, <1>15, <1>16, <1>17, <1>18, <1>19 DEF SessInv

\* A client sends a request and waits, or goes on.
LEMMA KeptByOnRequest ==
    ASSUME SessInv, NEW t \in Clients, NEW r \in Requests, NEW async \in BOOLEAN,
           Session!OnRequest(t, r, async)
    PROVE  SessInv'
<1> USE DEF Session!OnRequest, Session!Open, Session!reqVars, Session!clientVars
<1>1. /\ call \in [Session!Actors -> SessionPCs] /\ req \in [Session!Actors -> Requests \cup {None}]
      /\ requests \in Seq(Requests) /\ current \in Requests \cup {None}
  BY DEF SessInv, Session!TypeOK, SessionPCs
<1>2. /\ Session!Actors = Servers \cup {"client", "server"} /\ Session!Ends = {"client", "server"}
      /\ None \notin Session!Actors /\ None \notin Requests /\ None \notin Clients
      /\ "client" \notin Servers /\ "server" \notin Servers
  BY ActorsDistinct
<1>3. /\ client \in [Clients -> {"Idle", "Waiting", "Return"}]
      /\ request \in [Clients -> Requests \cup {None}]
      /\ refs \in [Requests -> 0 .. 2] /\ thread \in [Requests -> Clients \cup {None}]
      /\ event \subseteq Requests /\ pending \subseteq Requests
  BY DEF SessInv, Session!TypeOK
<1>4. /\ ~Way(r) /\ ~Called(r) /\ r \notin event
  BY DEF SessInv, RefsOK
<1>5. /\ r \notin InList /\ r # current /\ \A a \in Session!Actors : req[a] # r
      /\ \A u \in Clients : request[u] # r
      /\ request[t] = None /\ client[t] = "Idle" /\ t \notin terminating /\ session = "Normal"
      /\ call["client"] = "Idle"
  BY <1>4 DEF Way, Called, SessInv, CallersOK
<1>6. /\ requests' \in Seq(Requests) /\ requests' # <<>> /\ InList' = InList \cup {r}
      /\ \A i, j \in 1 .. Len(requests') : requests'[i] = requests'[j] => i = j
  <2>1. /\ requests \in Seq(Requests) /\ r \notin {requests[i] : i \in 1 .. Len(requests)}
        /\ \A i, j \in 1 .. Len(requests) : requests[i] = requests[j] => i = j
    BY <1>1, <1>5 DEF SessInv, KeptOnce, InList
  <2>2. requests' = Append(requests, r)
    OBVIOUS
  <2>3. QED
    BY <2>1, <2>2, AppendToList DEF InList
<1>7. /\ call' \in [Session!Actors -> SessionPCs]
      /\ \A a \in Session!Actors :
             call'[a] = call[a] \/ (call[a] = "Waiting" /\ call'[a] = "Idle")
      /\ requests = <<>> /\ Session!Signaled(requests', current) =>
             \A a \in Session!Actors : call'[a] # "Waiting"
      /\ requests # <<>> => call' = call
  <2>1. requests = <<>> => call' = Session!Notified(requests', current, call)
    OBVIOUS
  <2>2. requests # <<>> => call' = call
    OBVIOUS
  <2> HIDE DEF Session!OnRequest
  <2>3. CASE requests = <<>>
    BY <1>1, <2>1, <2>3, Notifies
  <2>4. CASE requests # <<>>
    BY <1>1, <2>2, <2>4
  <2>5. QED
    BY <2>3, <2>4
<1>8. /\ refs' \in [Requests -> 0 .. 2] /\ refs'[r] = 2
      /\ thread' \in [Requests -> Clients \cup {None}] /\ thread'[r] = t
      /\ \A q \in Requests : q # r => refs'[q] = refs[q] /\ thread'[q] = thread[q]
  BY <1>3
<1>9. /\ event' = (IF async THEN event \cup {r} ELSE event)
      /\ pending' = (IF async THEN pending \cup {r} ELSE pending)
      /\ event' \subseteq Requests /\ pending' \subseteq Requests
      /\ UNCHANGED <<session, current, lock, req, previous, terminating>>
  BY <1>3
<1>10. /\ client' \in [Clients -> {"Idle", "Waiting", "Return"}]
       /\ client'[t] = (IF async THEN "Return" ELSE "Waiting")
       /\ request' \in [Clients -> Requests \cup {None}] /\ request'[t] = r
       /\ \A u \in Clients : u # t => client'[u] = client[u] /\ request'[u] = request[u]
  BY <1>3
<1>11. Way(r)' /\ \A q : q # r => (Way(q)' <=> Way(q))
  BY <1>6, <1>9 DEF Way
<1>12. Called(r)' /\ \A q \in Requests : q # r => (Called(q)' <=> Called(q))
  BY <1>2, <1>5, <1>10 DEF Called
<1> HIDE DEF Session!OnRequest, Session!Open
<1>13. Session!TypeOK'
  BY <1>1, <1>2, <1>3, <1>4, <1>5, <1>6, <1>7, <1>8, <1>9, <1>10, <1>11, <1>12
     DEF SessInv, Session!TypeOK
<1>14. ActorsOK'
  BY <1>1, <1>2, <1>3, <1>4, <1>5, <1>6, <1>7, <1>8, <1>9, <1>10, <1>11, <1>12 DEF SessInv, ActorsOK
<1>15. EndsOK'
  BY <1>1, <1>2, <1>3, <1>4, <1>5, <1>6, <1>7, <1>8, <1>9, <1>10, <1>11, <1>12 DEF SessInv, EndsOK
<1>16. KeptOnce'
  BY <1>1, <1>2, <1>3, <1>4, <1>5, <1>6, <1>7, <1>8, <1>9, <1>10, <1>11, <1>12
     DEF SessInv, KeptOnce, ActorsOK
<1>17. CallersOK'
  <2>1. ASSUME NEW u \in Clients, u # t, client'[u] = "Waiting"
        PROVE  /\ u \notin terminating' /\ thread'[request'[u]] = u
               /\ request'[u] \notin event'
    <3>1. client[u] = "Waiting"
      BY <1>10, <2>1
    <3>2. /\ u \notin terminating /\ thread[request[u]] = u /\ request[u] \notin event
          /\ request[u] \in Requests
      BY <1>3, <3>1 DEF SessInv, CallersOK
    <3>3. request[u] # r
      BY <1>5
    <3>4. QED
      BY <1>8, <1>9, <1>10, <2>1, <3>2, <3>3
  <2>2. \A u \in Clients : u # t /\ client'[u] = "Waiting" => Way(request[u])'
    <3>1. SUFFICES ASSUME NEW u \in Clients, u # t, client'[u] = "Waiting"
                   PROVE  Way(request[u])'
      OBVIOUS
    <3>2. client[u] = "Waiting" /\ request'[u] = request[u] /\ request[u] # r
      BY <1>5, <1>10, <3>1
    <3>3. Way(request[u])
      BY <3>2 DEF SessInv, CallersOK
    <3>4. QED
      BY <1>6, <1>9, <3>2, <3>3 DEF Way
  <2>3. Way(request[t])'
    BY <1>6, <1>10 DEF Way
  <2>4. client'[t] = "Waiting" => /\ t \notin terminating' /\ thread'[request'[t]] = t
                                  /\ request'[t] \notin event'
    BY <1>4, <1>5, <1>8, <1>9, <1>10
  <2>5. \A u \in Clients : client'[u] = "Idle" <=> request'[u] = None
    BY <1>2, <1>10 DEF SessInv, CallersOK
  <2>6. \A u, v \in Clients : request'[u] # None /\ request'[u] = request'[v] => u = v
    BY <1>5, <1>10 DEF SessInv, CallersOK
  <2>7. QED
    BY <2>1, <2>2, <2>3, <2>4, <2>5, <2>6 DEF CallersOK
<1>18. ThreadsOK'
  <2>1. SUFFICES ASSUME NEW q \in Requests, thread'[q] # None, q \notin event',
                        thread'[q] \notin terminating, Way(q)'
                 PROVE  request'[thread'[q]] = q /\ client'[thread'[q]] = "Waiting"
    BY <1>9 DEF ThreadsOK
  <2>2. CASE q = r
    BY <1>8, <1>9, <1>10, <2>1, <2>2
  <2>3. CASE q # r
    <3>1. thread'[q] = thread[q] /\ q \notin event /\ thread[q] \in Clients /\ Way(q)
      BY <1>3, <1>8, <1>9, <1>11, <2>1, <2>3
    <3>2. request[thread[q]] = q /\ client[thread[q]] = "Waiting"
      BY <2>1, <3>1 DEF SessInv, ThreadsOK
    <3>3. QED
      BY <1>5, <1>10, <3>1, <3>2
  <2>4. QED
    BY <2>2, <2>3
<1>19. RefsOK'
  <2>1. \A q \in Requests : refs'[q] = (IF Way(q)' THEN 1 ELSE 0) + (IF Called(q)' THEN 1 ELSE 0)
    BY <1>8, <1>11, <1>12 DEF SessInv, RefsOK
  <2>2. \A q \in Requests : refs'[q] = 0 => q \notin event'
    BY <1>8, <1>9 DEF SessInv, RefsOK
  <2>3. QED
    BY <2>1, <2>2 DEF RefsOK
<1>20. PendingOK'
  BY <1>9, <1>11 DEF SessInv, PendingOK
<1>21. Session!NoMissedRequest'
  <2>1. SUFFICES ASSUME NEW s \in Servers, call'[s] = "Waiting"
                 PROVE  ~Session!Signaled(requests', current')
    BY <1>9 DEF Session!NoMissedRequest, Session!Signaled
  <2>2. s \in Session!Actors
    BY <1>2
  <2>3. requests = <<>> => ~Session!Signaled(requests', current)
    BY <1>7, <2>1, <2>2
  <2>4. requests # <<>> => ~Session!Signaled(requests, current)
    BY <1>5, <1>7, <2>1 DEF SessInv, Session!NoMissedRequest
  <2>5. QED
    BY <1>5, <1>6, <1>9, <2>3, <2>4 DEF Session!Signaled
<1>22. QED
  BY <1>13, <1>14, <1>15, <1>16, <1>17, <1>18, <1>19, <1>20, <1>21 DEF SessInv

\* The client end looks at the current request.
LEMMA KeptByClosedCurrent ==
    ASSUME SessInv, Session!ClientClosedCurrent
    PROVE  SessInv'
<1> USE DEF Session!ClientClosedCurrent, Session!reqVars, Session!clientVars
<1>1. /\ call \in [Session!Actors -> SessionPCs] /\ req \in [Session!Actors -> Requests \cup {None}]
      /\ requests \in Seq(Requests) /\ current \in Requests \cup {None}
  BY DEF SessInv, Session!TypeOK, SessionPCs
<1>2. /\ Session!Actors = Servers \cup {"client", "server"} /\ Session!Ends = {"client", "server"}
      /\ None \notin Session!Actors /\ None \notin Requests /\ None \notin Clients
      /\ "client" \notin Servers /\ "server" \notin Servers
  BY ActorsDistinct
<1>3. /\ client \in [Clients -> {"Idle", "Waiting", "Return"}]
      /\ request \in [Clients -> Requests \cup {None}]
      /\ refs \in [Requests -> 0 .. 2] /\ thread \in [Requests -> Clients \cup {None}]
      /\ event \subseteq Requests /\ pending \subseteq Requests
  BY DEF SessInv, Session!TypeOK
<1>4. /\ call["client"] = "Loop" /\ \A t \in Clients : client[t] = "Idle" /\ request[t] = None
  BY <1>2 DEF SessInv, EndsOK, CallersOK
<1>5. \A q \in Requests :
           ~(thread[q] # None /\ q \notin event /\ thread[q] \notin terminating /\ Way(q))
  <2>1. \A q \in Requests : thread[q] # None => thread[q] \in Clients
    BY <1>3
  <2>2. QED
    BY <1>4, <2>1 DEF SessInv, ThreadsOK
<1>6. /\ thread' \in [Requests -> Clients \cup {None}] /\ event' \subseteq event
      /\ pending' \subseteq pending
      /\ \A q \in Requests :
             thread'[q] # None => thread'[q] = thread[q] /\ (q \notin event' => q \notin event)
  <2>1. CASE thread[current] \in terminating
    BY <1>1, <1>3, <2>1
  <2>2. CASE thread[current] \notin terminating
    BY <1>3, <2>2
  <2>3. QED
    BY <2>1, <2>2
<1>7. /\ InList' = InList /\ (\A q : Way(q)' <=> Way(q))
      /\ \A q : Called(q)' <=> Called(q)
      /\ previous' = current
      /\ UNCHANGED <<session, requests, current, lock, call, req, refs, client, request,
                     terminating>>
  BY DEF InList, Way, Called
<1> HIDE DEF Session!ClientClosedCurrent
<1>8. Session!TypeOK'
  BY <1>1, <1>2, <1>3, <1>4, <1>5, <1>6, <1>7 DEF SessInv, Session!TypeOK
<1>9. ActorsOK'
  BY <1>1, <1>2, <1>3, <1>4, <1>5, <1>6, <1>7 DEF SessInv, ActorsOK
<1>10. EndsOK'
  BY <1>1, <1>2, <1>3, <1>4, <1>5, <1>6, <1>7 DEF SessInv, EndsOK
<1>11. KeptOnce'
  BY <1>1, <1>2, <1>3, <1>4, <1>5, <1>6, <1>7 DEF SessInv, KeptOnce, ActorsOK
<1>12. CallersOK'
  <2>1. \A t \in Clients : client'[t] = "Idle" /\ request'[t] = None
    BY <1>4, <1>7
  <2>2. QED
    BY <2>1 DEF CallersOK
<1>13. ThreadsOK'
  BY <1>1, <1>2, <1>3, <1>4, <1>5, <1>6, <1>7 DEF SessInv, ThreadsOK
<1>14. RefsOK'
  BY <1>1, <1>2, <1>3, <1>4, <1>5, <1>6, <1>7 DEF SessInv, RefsOK
<1>15. PendingOK'
  BY <1>1, <1>2, <1>3, <1>4, <1>5, <1>6, <1>7 DEF SessInv, PendingOK
<1>16. Session!NoMissedRequest'
  BY <1>1, <1>2, <1>3, <1>4, <1>5, <1>6, <1>7
     DEF SessInv, Session!NoMissedRequest, Session!Signaled, Session!Open, EndsOK
<1>17. QED
  BY <1>8, <1>9, <1>10, <1>11, <1>12, <1>13, <1>14, <1>15, <1>16 DEF SessInv

\* The client end drops a request.
LEMMA KeptByClosedRequest ==
    ASSUME SessInv, Session!ClientClosedRequest
    PROVE  SessInv'
<1> USE DEF Session!ClientClosedRequest, Session!reqVars, Session!clientVars
<1>1. /\ call \in [Session!Actors -> SessionPCs] /\ req \in [Session!Actors -> Requests \cup {None}]
      /\ requests \in Seq(Requests) /\ current \in Requests \cup {None}
  BY DEF SessInv, Session!TypeOK, SessionPCs
<1>2. /\ Session!Actors = Servers \cup {"client", "server"} /\ Session!Ends = {"client", "server"}
      /\ None \notin Session!Actors /\ None \notin Requests /\ None \notin Clients
      /\ "client" \notin Servers /\ "server" \notin Servers
  BY ActorsDistinct
<1>3. /\ client \in [Clients -> {"Idle", "Waiting", "Return"}]
      /\ request \in [Clients -> Requests \cup {None}]
      /\ refs \in [Requests -> 0 .. 2] /\ thread \in [Requests -> Clients \cup {None}]
      /\ event \subseteq Requests /\ pending \subseteq Requests
  BY DEF SessInv, Session!TypeOK
<1>4. /\ call["client"] = "Loop" /\ \A t \in Clients : client[t] = "Idle" /\ request[t] = None
  BY <1>2 DEF SessInv, EndsOK, CallersOK
<1>5. \A q \in Requests :
           ~(thread[q] # None /\ q \notin event /\ thread[q] \notin terminating /\ Way(q))
  <2>1. \A q \in Requests : thread[q] # None => thread[q] \in Clients
    BY <1>3
  <2>2. QED
    BY <1>4, <2>1 DEF SessInv, ThreadsOK
<1>6. /\ Head(requests) \in InList /\ Head(requests) \in Requests /\ requests' \in Seq(Requests)
      /\ InList' = InList \ {Head(requests)}
      /\ \A i, j \in 1 .. Len(requests') : requests'[i] = requests'[j] => i = j
  <2>1. /\ requests \in Seq(Requests) /\ requests # <<>>
        /\ \A i, j \in 1 .. Len(requests) : requests[i] = requests[j] => i = j
    BY <1>1 DEF SessInv, KeptOnce
  <2>2. /\ Head(requests) \in {requests[i] : i \in 1 .. Len(requests)}
        /\ Tail(requests) \in Seq(Requests)
        /\ {Tail(requests)[i] : i \in 1 .. Len(Tail(requests))} =
               {requests[i] : i \in 1 .. Len(requests)} \ {Head(requests)}
        /\ \A i, j \in 1 .. Len(Tail(requests)) : Tail(requests)[i] = Tail(requests)[j] => i = j
    BY <2>1, TailOfList
  <2>3. \A i \in 1 .. Len(requests) : requests[i] \in Requests
    BY <2>1, ElementOfSeq
  <2>4. requests' = Tail(requests)
    OBVIOUS
  <2>5. InList = {requests[i] : i \in 1 .. Len(requests)}
    BY DEF InList
  <2>6. InList' = {Tail(requests)[i] : i \in 1 .. Len(Tail(requests))}
    BY <2>4 DEF InList
  <2>7. \A r \in InList : r \in Requests
    BY <2>3, <2>5
  <2>8. QED
    BY <2>2, <2>4, <2>5, <2>6, <2>7
<1>7. PICK r \in Requests : r = Head(requests)
  BY <1>6
<1>8. /\ thread' \in [Requests -> Clients \cup {None}] /\ event' \subseteq Requests
      /\ thread'[r] = (IF refs[r] = 1 THEN None ELSE thread[r])
      /\ \A q \in Requests : q # r => refs'[q] = refs[q] /\ thread'[q] = thread[q]
      /\ event' = (IF refs[r] = 1 THEN event \ {r} ELSE event) /\ Session!Close(r)
  <2>1. Session!Close(r)
    BY <1>7
  <2>2. QED
    BY <2>1, CloseEffect
<1>9. r \in InList /\ r # current /\ \A a \in Session!Actors : req[a] # r
  BY <1>6, <1>7 DEF SessInv, KeptOnce
<1>10. /\ pending' = pending \ {r} /\ InList' = InList \ {r}
       /\ UNCHANGED <<session, current, lock, call, req, previous, client, request, terminating>>
  BY <1>6, <1>7
<1>11. \A q \in Requests : Way(q)' <=> Way(q) /\ q # r
  BY <1>9, <1>10 DEF Way
<1>12. \A q \in Requests : Called(q)' <=> Called(q)
  BY <1>10 DEF Called
<1>13. RefsOK' /\ refs' \in [Requests -> 0 .. 2]
  <2>1. Way(r)
    BY <1>9 DEF Way
  <2>2. QED
    BY <1>8, <1>11, <1>12, <2>1, RefsFollow
<1> HIDE DEF Session!ClientClosedRequest
<1>14. Session!TypeOK'
  BY <1>1, <1>2, <1>3, <1>4, <1>5, <1>6, <1>7, <1>8, <1>9, <1>10, <1>11, <1>12, <1>13
     DEF SessInv, Session!TypeOK
<1>15. ActorsOK'
  BY <1>1, <1>2, <1>3, <1>4, <1>5, <1>6, <1>7, <1>8, <1>9, <1>10, <1>11, <1>12, <1>13
     DEF SessInv, ActorsOK
<1>16. EndsOK'
  BY <1>1, <1>2, <1>3, <1>4, <1>5, <1>6, <1>7, <1>8, <1>9, <1>10, <1>11, <1>12, <1>13
     DEF SessInv, EndsOK
<1>17. KeptOnce'
  BY <1>1, <1>2, <1>3, <1>4, <1>5, <1>6, <1>7, <1>8, <1>9, <1>10, <1>11, <1>12, <1>13
     DEF SessInv, KeptOnce, ActorsOK
<1>18. CallersOK'
  <2>1. \A t \in Clients : client'[t] = "Idle" /\ request'[t] = None
    BY <1>4, <1>10
  <2>2. QED
    BY <2>1 DEF CallersOK
<1>19. ThreadsOK'
  <2>1. SUFFICES ASSUME NEW q \in Requests, thread'[q] # None, q \notin event',
                        thread'[q] \notin terminating, Way(q)'
                 PROVE  FALSE
    BY <1>10 DEF ThreadsOK
  <2>2. q # r /\ Way(q) /\ thread'[q] = thread[q] /\ q \notin event
    BY <1>8, <1>11, <2>1
  <2>3. QED
    BY <1>5, <2>1, <2>2
<1>20. RefsOK'
  BY <1>13
<1>21. PendingOK'
  BY <1>1, <1>2, <1>3, <1>4, <1>5, <1>6, <1>7, <1>8, <1>9, <1>10, <1>11, <1>12, <1>13
     DEF SessInv, PendingOK
<1>22. Session!NoMissedRequest'
  BY <1>1, <1>2, <1>3, <1>4, <1>5, <1>6, <1>7, <1>8, <1>9, <1>10, <1>11, <1>12, <1>13
     DEF SessInv, Session!NoMissedRequest, Session!Signaled, Session!Open, EndsOK
<1>23. QED
  BY <1>14, <1>15, <1>16, <1>17, <1>18, <1>19, <1>20, <1>21, <1>22 DEF SessInv

LEMMA SessInvInit ==
    ASSUME Session!Init
    PROVE  SessInv
<1> USE DEF Session!Init
<1>1. /\ Session!Actors = Servers \cup {"client", "server"} /\ Session!Ends = {"client", "server"}
      /\ None \notin Session!Actors /\ None \notin Requests /\ None \notin Clients
      /\ "client" \notin Servers /\ "server" \notin Servers
  BY ActorsDistinct
<1>2. Len(requests) = 0 /\ requests \in Seq(Requests) /\ InList = {}
  <2>1. requests = <<>>
    OBVIOUS
  <2>2. QED
    BY <2>1, EmptySeq DEF InList
<1>3. (\A r \in Requests : ~Way(r)) /\ \A r \in Requests : ~Called(r)
  BY <1>1, <1>2 DEF Way, Called
<1>4. Session!TypeOK
  BY <1>2 DEF Session!TypeOK
<1>5. ActorsOK /\ EndsOK
  BY <1>1 DEF ActorsOK, EndsOK
<1>6. KeptOnce
  BY <1>2 DEF KeptOnce
<1>7. CallersOK
  BY DEF CallersOK
<1>8. ThreadsOK /\ RefsOK /\ PendingOK
  BY <1>3 DEF ThreadsOK, RefsOK, PendingOK
<1>9. Session!NoMissedRequest
  BY <1>1 DEF Session!NoMissedRequest
<1>10. QED
  BY <1>4, <1>5, <1>6, <1>7, <1>8, <1>9 DEF SessInv

LEMMA SessInvUnchanged ==
    ASSUME SessInv, UNCHANGED requestVars
    PROVE  SessInv'
<1> USE DEF requestVars
<1>1. (\A r : Way(r)' <=> Way(r)) /\ (\A r : Called(r)' <=> Called(r)) /\ InList' = InList
  BY DEF Way, Called, InList
<1>2. Session!TypeOK' /\ Session!NoMissedRequest'
  BY DEF SessInv, Session!TypeOK, Session!NoMissedRequest, Session!Signaled
<1>3. ActorsOK' /\ EndsOK' /\ KeptOnce'
  BY <1>1 DEF SessInv, ActorsOK, EndsOK, KeptOnce
<1>4. CallersOK' /\ ThreadsOK' /\ RefsOK' /\ PendingOK'
  BY <1>1, SameWay DEF SessInv
<1>5. QED
  BY <1>2, <1>3, <1>4 DEF SessInv

LEMMA SessInvNext ==
    ASSUME SessInv, Session!Next
    PROVE  SessInv'
<1>1. CASE Session!ServerSteps
  <2>1. ASSUME NEW s \in Servers, NEW ok \in BOOLEAN, Session!SetCurrentRequest(s, ok)
        PROVE  SessInv'
    <3>1. CASE ok = TRUE
      BY <2>1, <3>1, KeptBySetCurrent
    <3>2. CASE ok = FALSE
      BY <2>1, <3>2, KeptByFailing
    <3>3. QED
      BY <3>1, <3>2
  <2>2. QED
    BY <1>1, <2>1, KeptByReceiveRequest, KeptByFailed, KeptBySendReply DEF Session!ServerSteps
<1>2. CASE Session!EndSteps
  <2>1. CASE \E end \in {"client", "server"} : Session!SetState(end) \/ Session!LockSession(end)
    BY <2>1, KeptBySetState, KeptByLock
  <2>2. CASE Session!CleanupRequest
    BY <2>2, KeptByCleanupCurrent, KeptByCleanupList
  <2>3. QED
    BY <1>2, <2>1, <2>2, ActorsDistinct, KeptByCleanupEnds, KeptByClosedCurrent,
       KeptByClosedRequest, KeptByClientEnds
       DEF Session!EndSteps
<1>3. CASE Session!Replies
  BY <1>3, KeptByAnswer DEF Session!Replies
<1>4. CASE \E s \in Servers : Session!Wait(s)
  BY <1>4, KeptByWait
<1>5. CASE \E end \in Session!Ends : Session!Destroy(end)
  BY <1>5, ActorsDistinct, KeptByDestroy
<1>6. CASE \E t \in Clients :
             \/ \E r \in Requests, async \in BOOLEAN : Session!OnRequest(t, r, async)
             \/ Session!ReturnFromRequest(t)
             \/ Session!RequestTerminate(t)
  BY <1>6, KeptByOnRequest, KeptByReturn, KeptByTerminate
<1>7. QED
  BY <1>1, <1>2, <1>3, <1>4, <1>5, <1>6 DEF Session!Next

\* What a session promises at any time, from where its requests are.
LEMMA Promised ==
    ASSUME SessInv
    PROVE  Session!NoOrphanedClient
<1>1. \A r : Session!OnItsWay(r) <=> Way(r)
  <2>1. requests \in Seq(Requests)
    BY DEF SessInv, Session!TypeOK
  <2>2. DOMAIN requests = 1 .. Len(requests)
    BY <2>1, LenProperties
  <2>3. QED
    BY <2>2 DEF Session!OnItsWay, Session!ToSet, Way, InList
<1>2. QED
  BY <1>1 DEF SessInv, CallersOK, PendingOK, Session!NoOrphanedClient

\* A set with at most one element is counted by whether it has one.
LEMMA AtMostOne ==
    ASSUME NEW S, \A x, y \in S : x = y
    PROVE  Cardinality(S) = IF S = {} THEN 0 ELSE 1
<1>1. CASE S = {}
  BY <1>1, FS_EmptySet
<1>2. CASE S # {}
  <2>1. PICK x \in S : TRUE
    BY <1>2
  <2>2. S = {x}
    BY <2>1
  <2>3. QED
    BY <1>2, <2>2, FS_Singleton
<1>3. QED
  BY <1>1, <1>2

\* The instance of KServerSession counts as this module does.
LEMMA SessionCardinality == ASSUME NEW S PROVE Session!Cardinality(S) = Cardinality(S)
BY DEF Session!Cardinality, Cardinality

\* The holders of a request are counted one by one: it is in one place, and one client has
\* created it.
LEMMA HoldersCounted ==
    ASSUME SessInv
    PROVE  Session!RefsMatchHolders
<1>1. SUFFICES ASSUME NEW r \in Requests
               PROVE  refs[r] = Cardinality({i \in DOMAIN requests : requests[i] = r})
                  + (IF r = current /\ \A s \in Servers : call[s] = "Failed" => req[s] # r
                     THEN 1 ELSE 0)
                  + Cardinality({a \in Session!Actors : req[a] = r})
                  + Cardinality({t \in Clients : request[t] = r})
  BY SessionCardinality DEF Session!RefsMatchHolders
<1>2. /\ Session!Actors = Servers \cup {"client", "server"} /\ Session!Ends = {"client", "server"}
      /\ None \notin Requests /\ r # None
  BY ActorsDistinct
<1>3. /\ requests \in Seq(Requests) /\ DOMAIN requests = 1 .. Len(requests)
  BY LenProperties DEF SessInv, Session!TypeOK
<1>4. Cardinality({i \in DOMAIN requests : requests[i] = r}) = IF r \in InList THEN 1 ELSE 0
  <2>1. \A i, j \in {k \in DOMAIN requests : requests[k] = r} : i = j
    BY <1>3 DEF SessInv, KeptOnce
  <2>2. {k \in DOMAIN requests : requests[k] = r} = {} <=> r \notin InList
    BY <1>3 DEF InList
  <2>3. QED
    BY <2>1, <2>2, AtMostOne
<1>5. Cardinality({a \in Session!Actors : req[a] = r}) =
          IF \E a \in Session!Actors : req[a] = r THEN 1 ELSE 0
  <2>1. \A a, b \in {x \in Session!Actors : req[x] = r} : a = b
    BY <1>2 DEF SessInv, ActorsOK
  <2>2. QED
    BY <2>1, AtMostOne
<1>6. Cardinality({t \in Clients : request[t] = r}) = IF Called(r) THEN 1 ELSE 0
  <2>1. \A t, u \in {x \in Clients : request[x] = r} : t = u
    BY <1>2 DEF SessInv, CallersOK
  <2>2. {t \in Clients : request[t] = r} = {} <=> ~Called(r)
    BY DEF Called
  <2>3. QED
    BY <2>1, <2>2, AtMostOne
<1>7. r \in InList => r # current /\ ~\E a \in Session!Actors : req[a] = r
  BY DEF SessInv, KeptOnce
<1>8. r = current => \A a \in Session!Actors : req[a] = r => a \in Servers /\ call[a] = "Failed"
  BY <1>2 DEF SessInv, KeptOnce, ActorsOK
<1>9. (IF r \in InList THEN 1 ELSE 0)
      + (IF r = current /\ \A s \in Servers : call[s] = "Failed" => req[s] # r THEN 1 ELSE 0)
      + (IF \E a \in Session!Actors : req[a] = r THEN 1 ELSE 0) = IF Way(r) THEN 1 ELSE 0
  <2>1. CASE r \in InList
    BY <1>7, <2>1 DEF Way
  <2>2. CASE r \notin InList /\ \E a \in Session!Actors : req[a] = r
    <3>1. ~(r = current /\ \A s \in Servers : call[s] = "Failed" => req[s] # r)
      BY <1>8, <2>2
    <3>2. QED
      BY <2>2, <3>1 DEF Way
  <2>3. CASE r \notin InList /\ ~\E a \in Session!Actors : req[a] = r
    <3>1. (r = current /\ \A s \in Servers : call[s] = "Failed" => req[s] # r) <=> r = current
      BY <1>2, <2>3
    <3>2. QED
      BY <2>3, <3>1 DEF Way
  <2>4. QED
    BY <2>1, <2>2, <2>3
<1>10. refs[r] = (IF Way(r) THEN 1 ELSE 0) + (IF Called(r) THEN 1 ELSE 0)
  BY DEF SessInv, RefsOK
<1>11. QED
  BY <1>4, <1>5, <1>6, <1>9, <1>10

\* Only the answer to a request ends a wait while somebody is answering, and its thread
\* waits for it.
LEMMA AnswersItsRequest ==
    ASSUME SessInv, Session!Next
    PROVE  Session!ReplyIsForRequest
<1>1. SUFFICES ASSUME NEW a \in Session!Actors, NEW t \in Clients, call[a] = "Reply",
                      call'[a] # "Reply", client[t] = "Waiting", client'[t] = "Return"
               PROVE  request[t] = req[a]
  BY DEF Session!ReplyIsForRequest
<1>2. client \in [Clients -> {"Idle", "Waiting", "Return"}]
  BY DEF SessInv, Session!TypeOK
<1>3. \E b \in Session!Actors : Session!Reply(b)
  <2>1. ~Session!ServerSteps
    BY <1>1 DEF Session!ServerSteps, Session!ReceiveRequest, Session!SetCurrentRequest,
                Session!ReceiveFailed, Session!SendReply, Session!clientVars
  <2>2. ~Session!EndSteps
    BY <1>1 DEF Session!EndSteps, Session!SetState, Session!LockSession, Session!CleanupRequest,
                Session!CleanupEnds, Session!ClientClosedCurrent, Session!ClientClosedRequest,
                Session!ClientClosedEnds, Session!clientVars
  <2>3. ~\E s \in Servers : Session!Wait(s)
    BY <1>1 DEF Session!Wait, Session!clientVars
  <2>4. ~\E end \in Session!Ends : Session!Destroy(end)
    BY <1>1 DEF Session!Destroy, Session!clientVars
  <2>5. ASSUME NEW u \in Clients, NEW r \in Requests, NEW async \in BOOLEAN
        PROVE  ~Session!OnRequest(u, r, async)
    <3>1. SUFFICES ASSUME Session!OnRequest(u, r, async) PROVE FALSE
      OBVIOUS
    <3>2. client[u] = "Idle" /\ \A v \in Clients : v # u => client'[v] = client[v]
      BY <1>2, <3>1 DEF Session!OnRequest
    <3>3. QED
      BY <1>1, <3>2
  <2>6. \A u \in Clients : ~Session!RequestTerminate(u)
    BY <1>1 DEF Session!RequestTerminate
  <2>7. \A u \in Clients : ~Session!ReturnFromRequest(u)
    BY <1>1 DEF Session!ReturnFromRequest
  <2>8. QED
    BY <2>1, <2>2, <2>3, <2>4, <2>5, <2>6, <2>7 DEF Session!Next, Session!Replies
<1>4. Session!Reply(a)
  <2>1. PICK b \in Session!Actors : Session!Reply(b)
    BY <1>3
  <2>2. call[b] = "Reply"
    BY <2>1 DEF Session!Reply
  <2>3. a = b
    BY <1>1, <2>2 DEF SessInv, ActorsOK
  <2>4. QED
    BY <2>1, <2>3
<1>5. t = thread[req[a]] /\ req[a] \notin event /\ t \notin terminating
  BY <1>1, <1>4 DEF Session!Reply, Session!EndRequest
<1>6. req[a] # None /\ req[a] \in Requests /\ Way(req[a])
  BY <1>1 DEF SessInv, Session!TypeOK, ActorsOK, Way
<1>7. thread[req[a]] # None
  BY <1>5, ActorsDistinct
<1>8. QED
  BY <1>5, <1>6, <1>7 DEF SessInv, ThreadsOK

\* Of any session, with any clients and servers: a client that waits has a request that somebody
\* has and will answer, a request has the references of its holders and no more, a server does
\* not sleep on a session with something to do, and an answer ends the wait for its own request.
THEOREM SessionsAreSound == IpcSpec => SessionSound
<1>1. IpcInit => (explored = "Session" => SessInv)
  BY SessInvInit DEF IpcInit
<1>2. (explored = "Session" => SessInv) /\ [IpcNext]_allVars => (explored = "Session" => SessInv)'
  <2> SUFFICES ASSUME explored = "Session" => SessInv, [IpcNext]_allVars, explored' = "Session"
               PROVE  SessInv'
    OBVIOUS
  <2>1. explored = "Session" /\ (Session!Next \/ UNCHANGED requestVars)
    BY DEF IpcNext, allVars
  <2>2. QED
    BY <2>1, SessInvNext, SessInvUnchanged
<1>3. (explored = "Session" => SessInv) =>
          (explored = "Session" =>
            /\ Session!TypeOK
            /\ Session!NoOrphanedClient /\ Session!RefsMatchHolders /\ Session!NoMissedRequest)
  BY Promised, HoldersCounted DEF SessInv
<1>4. (explored = "Session" => SessInv) /\ IpcNext =>
          (explored = "Session" => Session!ReplyIsForRequest)
  BY AnswersItsRequest DEF IpcNext
<1>5. QED
  BY <1>1, <1>2, <1>3, <1>4, PTL DEF IpcSpec, SessionSound
=============================================================================
