------------------------------- MODULE KPort -------------------------------
(***************************************************************************)
(* KPort, KClientPort, KServerPort: clients make sessions, the server      *)
(* accepts them, and either side goes away at any moment.                  *)
(*                                                                         *)
(* Light sessions are made, queued and accepted by copies of the same      *)
(* code.  A session is followed from its creation to its end; what happens *)
(* on it is in KServerSession.  One thread waits at each end of the port.  *)
(***************************************************************************)
EXTENDS Integers, Sequences, FiniteSets

CONSTANTS Sessions, MaxSessions

MaxSessionsAssumption == MaxSessions \in Nat \ {0}

VARIABLES
    state,          \* m_state of the port
    serverPort,     \* "open", "cleanup" (in Destroy), "closed"
    clientPort,     \* "open" (a handle is left), "dropped", "destroyed"
    numSessions, list,  \* m_num_sessions, m_session_list
    pc,             \* pc[s]: the call that makes the session
    live,           \* initialized sessions
    clientEnd, serverEnd, accepted, \* sessions with that end open; those the server has
    clientRefs, portRefs,   \* reference counts of the client port and of the port
    sleepers        \* ends of the port where a thread sleeps

portVars == <<state, serverPort, clientPort, portRefs>>
sessionVars == <<pc, live, clientEnd, serverEnd, accepted>>
vars == <<portVars, sessionVars, numSessions, list, clientRefs, sleepers>>

TypeOK ==
    /\ state \in {"Normal", "ClientClosed", "ServerClosed"}
    /\ serverPort \in {"open", "cleanup", "closed"}
    /\ clientPort \in {"open", "dropped", "destroyed"}
    /\ numSessions \in 0 .. MaxSessions /\ list \in Seq(Sessions)
    /\ pc \in [Sessions -> {"idle", "begin", "enqueue", "fail", "failed", "return"}]
    /\ live \subseteq Sessions /\ accepted \subseteq serverEnd
    /\ clientEnd \subseteq live /\ serverEnd \subseteq live
    /\ clientRefs \in Nat /\ portRefs \in 0 .. 2
    /\ sleepers \subseteq {"client", "server"}

Init ==
    /\ state = "Normal" /\ serverPort = "open" /\ clientPort = "open"
    /\ numSessions = 0 /\ list = <<>>
    /\ pc = [s \in Sessions |-> "idle"]
    /\ live = {} /\ clientEnd = {} /\ serverEnd = {} /\ accepted = {}
    /\ clientRefs = 1 /\ portRefs = 2 /\ sleepers = {}
-----------------------------------------------------------------------------
(***************************************************************************)
(* CreateSession, for a client that holds a reference to its port.         *)
(***************************************************************************)

ConnectToPort(s) ==
    /\ pc[s] = "idle" /\ s \notin live /\ clientPort = "open"
    /\ pc' = [pc EXCEPT ![s] = "begin"]
    /\ clientRefs' = clientRefs + 1
    /\ UNCHANGED <<portVars, live, clientEnd, serverEnd, accepted, numSessions, list, sleepers>>

HasRoom == numSessions < MaxSessions

WithSession(n) == n + 1

\* The session is counted and initialized, with a reference to the client port.
CreateSession(s) ==
    /\ pc[s] = "begin"
    /\ IF HasRoom
       THEN /\ numSessions' = numSessions + 1
            /\ live' = live \cup {s}
            /\ clientEnd' = clientEnd \cup {s} /\ serverEnd' = serverEnd \cup {s}
            /\ clientRefs' = WithSession(clientRefs)
            /\ pc' = [pc EXCEPT ![s] = "enqueue"]
       ELSE /\ pc' = [pc EXCEPT ![s] = "return"]
            /\ UNCHANGED <<numSessions, live, clientEnd, serverEnd, clientRefs>>
    /\ UNCHANGED <<portVars, accepted, list, sleepers>>

\* EnqueueSession of the server port notifies when the list was empty.
NotifyServer(n) == IF n = 1 THEN sleepers \ {"server"} ELSE sleepers

\* Mutant: the state of the port is not looked at.
EnqueueAnyway == TRUE

MayEnqueue == state = "Normal"

EnqueueSession(s) ==
    /\ pc[s] = "enqueue"
    /\ IF MayEnqueue
       THEN /\ list' = Append(list, s)
            /\ sleepers' = NotifyServer(Len(list'))
            /\ pc' = [pc EXCEPT ![s] = "return"]
       ELSE /\ pc' = [pc EXCEPT ![s] = "fail"]
            /\ UNCHANGED <<list, sleepers>>
    /\ UNCHANGED <<portVars, live, clientEnd, serverEnd, accepted, numSessions, clientRefs>>

\* If the port is closed both ends are.
CloseFailed(s) ==
    /\ \/ /\ pc[s] = "fail"
          /\ pc' = [pc EXCEPT ![s] = "failed"]
          /\ clientEnd' = clientEnd \ {s} /\ UNCHANGED serverEnd
       \/ /\ pc[s] = "failed"
          /\ pc' = [pc EXCEPT ![s] = "return"]
          /\ serverEnd' = serverEnd \ {s} /\ UNCHANGED clientEnd
    /\ UNCHANGED <<portVars, live, accepted, numSessions, list, clientRefs, sleepers>>

Return(s) ==
    /\ pc[s] = "return"
    /\ pc' = [pc EXCEPT ![s] = "idle"]
    /\ clientRefs' = clientRefs - 1
    /\ UNCHANGED <<portVars, live, clientEnd, serverEnd, accepted, numSessions, list, sleepers>>
-----------------------------------------------------------------------------
(***************************************************************************)
(* The life of a session.                                                  *)
(***************************************************************************)

AcceptSession ==
    /\ serverPort = "open" /\ list # <<>>
    /\ list' = Tail(list)
    /\ accepted' = accepted \cup {Head(list)}
    /\ UNCHANGED <<portVars, pc, live, clientEnd, serverEnd, numSessions, clientRefs, sleepers>>

CloseClientSession(s) ==
    /\ pc[s] = "idle" /\ s \in clientEnd
    /\ clientEnd' = clientEnd \ {s}
    /\ UNCHANGED <<portVars, pc, live, serverEnd, accepted, numSessions, list, clientRefs, sleepers>>

CloseServerSession(s) ==
    /\ s \in accepted
    /\ accepted' = accepted \ {s} /\ serverEnd' = serverEnd \ {s}
    /\ UNCHANGED <<portVars, pc, live, clientEnd, numSessions, list, clientRefs, sleepers>>

\* OnSessionFinalized notifies when the port was full; n is the old count.
NotifyClient(n) == IF n = MaxSessions THEN sleepers \ {"client"} ELSE sleepers

\* Finalize, once both ends are closed.
FinalizeSession(s) ==
    /\ s \in live \ (clientEnd \cup serverEnd)
    /\ live' = live \ {s}
    /\ numSessions' = numSessions - 1
    /\ sleepers' = NotifyClient(numSessions)
    /\ clientRefs' = clientRefs - 1
    /\ UNCHANGED <<portVars, pc, clientEnd, serverEnd, accepted, list>>
-----------------------------------------------------------------------------
(***************************************************************************)
(* The ends of the port.  A waiting thread holds a reference to its end.   *)
(***************************************************************************)

WaitClientPort ==
    /\ clientPort = "open" /\ "client" \notin sleepers /\ ~HasRoom
    /\ sleepers' = sleepers \cup {"client"}
    /\ UNCHANGED <<portVars, sessionVars, numSessions, list, clientRefs>>

WaitServerPort ==
    /\ serverPort = "open" /\ "server" \notin sleepers /\ list = <<>>
    /\ sleepers' = sleepers \cup {"server"}
    /\ UNCHANGED <<portVars, sessionVars, numSessions, list, clientRefs>>

CloseClientHandle ==
    /\ clientPort = "open" /\ "client" \notin sleepers
    /\ clientPort' = "dropped"
    /\ clientRefs' = clientRefs - 1
    /\ UNCHANGED <<state, serverPort, portRefs, sessionVars, numSessions, list, sleepers>>

\* Destroy of the client port, when its last reference is gone.
DestroyClientPort ==
    /\ clientPort # "destroyed" /\ clientRefs = 0
    /\ clientPort' = "destroyed"
    /\ state' = IF state = "Normal" THEN "ClientClosed" ELSE state
    /\ portRefs' = portRefs - 1
    /\ UNCHANGED <<serverPort, sessionVars, numSessions, list, clientRefs, sleepers>>

\* Destroy of the server port: the state first, ...
DestroyServerPort ==
    /\ serverPort = "open" /\ "server" \notin sleepers
    /\ serverPort' = "cleanup"
    /\ state' = IF state = "Normal" THEN "ServerClosed" ELSE state
    /\ UNCHANGED <<clientPort, portRefs, sessionVars, numSessions, list, clientRefs, sleepers>>

MayCleanup == serverPort = "cleanup" /\ list # <<>>

\* ... then the sessions nobody has accepted, ...
CleanupSessions ==
    /\ MayCleanup
    /\ list' = Tail(list)
    /\ serverEnd' = serverEnd \ {Head(list)}
    /\ UNCHANGED <<portVars, pc, live, clientEnd, accepted, numSessions, clientRefs, sleepers>>

\* ... and the reference to the port.
CloseParent ==
    /\ serverPort = "cleanup" /\ list = <<>>
    /\ serverPort' = "closed"
    /\ portRefs' = portRefs - 1
    /\ UNCHANGED <<state, clientPort, sessionVars, numSessions, list, clientRefs, sleepers>>
-----------------------------------------------------------------------------
CallStep(s) ==
    CreateSession(s) \/ EnqueueSession(s) \/ CloseFailed(s) \/ Return(s) \/ FinalizeSession(s)

Next ==
    \/ \E s \in Sessions :
          ConnectToPort(s) \/ CallStep(s) \/ CloseClientSession(s) \/ CloseServerSession(s)
    \/ AcceptSession \/ WaitClientPort \/ WaitServerPort
    \/ CloseClientHandle \/ DestroyClientPort
    \/ DestroyServerPort \/ CleanupSessions \/ CloseParent

\* Calls that have started go on; nobody has to accept, connect or close.
Fairness ==
    /\ \A s \in Sessions : WF_vars(CallStep(s))
    /\ WF_vars(DestroyClientPort) /\ WF_vars(CleanupSessions \/ CloseParent)

Spec == Init /\ [][Next]_vars /\ Fairness
-----------------------------------------------------------------------------
\* The count of the port is the number of its sessions, through failures and ends in any
\* order; the limit is kept although it is not checked under the lock.
CountMatches == numSessions = Cardinality(live)

\* The port and its client end exist as long as a session or a call needs them: the end of
\* a session uses them.
PortOutlivesSessions ==
    clientPort = "destroyed" => live = {} /\ list = <<>> /\ \A s \in Sessions : pc[s] = "idle"

\* No session is left in the list of a server port that is gone: its client would wait for
\* ever.
NoStrandedSession == serverPort = "closed" => list = <<>>

\* Nobody sleeps at the client end while there is room, or at the server end while there is
\* a session to accept.
NoMissedNotification ==
    /\ "client" \in sleepers => ~HasRoom
    /\ "server" \in sleepers => list = <<>>

\* What holds of a port in every state.
PortInvariant ==
    TypeOK /\ CountMatches /\ PortOutlivesSessions /\ NoStrandedSession /\ NoMissedNotification

\* Once the server port is being destroyed, every session the server does not have ends at
\* the server, one that was on its way to the list too.
UnacceptedEnd ==
    \A s \in Sessions :
        (serverPort # "open" /\ s \in serverEnd \ accepted) ~> (s \notin serverEnd)
-----------------------------------------------------------------------------
(***************************************************************************)
(* The inductive invariant behind PortInvariant.                           *)
(***************************************************************************)

\* Sessions whose CreateSession is in progress.
Connecting == {s \in Sessions : pc[s] # "idle"}

Listed == {list[i] : i \in 1 .. Len(list)}

\* Only finitely many sessions exist at a time, each listed at most once.
Finite ==
    /\ IsFiniteSet(live) /\ IsFiniteSet(Connecting)
    /\ \A i, j \in 1 .. Len(list) : list[i] = list[j] => i = j

\* Every handle, call and session holds one reference to the client port, the two ends one
\* each to the port.
RefsCounted ==
    /\ clientRefs = (IF clientPort = "open" THEN 1 ELSE 0)
                      + Cardinality(Connecting) + Cardinality(live)
    /\ portRefs = (IF clientPort = "destroyed" THEN 0 ELSE 1)
                    + (IF serverPort = "closed" THEN 0 ELSE 1)

\* A session on its way to the list is alive and the server's, without being accepted.
OnTheWay ==
    /\ Listed \subseteq serverEnd \ accepted
    /\ \A s \in Sessions :
        /\ pc[s] = "begin" => s \notin live
        /\ pc[s] \in {"enqueue", "fail", "failed"} => s \in serverEnd /\ s \notin accepted \cup Listed

\* The server port changes the state before it empties the list.
ClosedInOrder == serverPort # "open" => state # "Normal"

PortInv ==
    /\ CountMatches /\ Finite /\ RefsCounted /\ OnTheWay /\ ClosedInOrder
    /\ PortOutlivesSessions /\ NoStrandedSession /\ NoMissedNotification
=============================================================================
