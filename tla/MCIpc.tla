-------------------------------- MODULE MCIpc --------------------------------
(***************************************************************************)
(* Inter-process calls: ports (KPort), sessions (KServerSession) and the   *)
(* loop of the service threads that serve them (ServerManager).  Each is   *)
(* specified with the others' part in it left open, so they share no       *)
(* variable and are explored one at a time: `explored' names the one that  *)
(* takes steps.                                                            *)
(***************************************************************************)
EXTENDS KPort

CONSTANTS
    None,                           \* nullptr
    Clients, Servers, Requests,     \* of KServerSession
    LoopThreads, LoopSessions,      \* of a service that never defers
    DeferThread, DeferSessions      \* of one that does

VARIABLES explored,
    session, requests, current, refs, thread, event, pending, lock, call, req, client,
    request, terminating, previous,
    loop, mine, links, retry, selection, multiWait, deferredList, deferred, wakeup,
    deferral, stop, queue, open, asked, closed, available

requestVars == <<session, requests, current, refs, thread, event, pending, lock, call, req,
                 client, request, terminating, previous>>
managerVars == <<loop, mine, links, retry, selection, multiWait, deferredList, deferred,
                 wakeup, deferral, stop, queue, open, asked, closed, available>>
allVars == <<explored, vars, requestVars, managerVars>>

\* Two clients and two servers, with as many requests as clients so that the slab runs out.
Session == INSTANCE KServerSession WITH list <- requests, pc <- call

\* A service whose requests are answered at once, and one with a single thread (as in sm, the
\* one service that defers) whose requests may have to wait for another service.
Loop(threads, sessions, defers) == INSTANCE ServerManager WITH
    Threads <- threads, Sessions <- sessions, CanDefer <- defers, HandleMax <- 64,
    Port <- "port", Wakeup <- "wakeup", Deferral <- "deferral",
    pc <- loop, request <- asked

ASSUME MaxSessionsAssumption
ASSUME SessionAssumption == Session!NoneAssumption /\ Session!ActorsAssumption
ASSUME LoopsAssumption ==
    /\ Loop(LoopThreads, LoopSessions, FALSE)!HoldersAssumption
    /\ Loop({DeferThread}, DeferSessions, TRUE)!HoldersAssumption

IpcInit ==
    /\ Init /\ Session!Init
    /\ \/ /\ explored \in {"Port", "Session", "Manager"}
          /\ Loop(LoopThreads, LoopSessions, FALSE)!Init
       \/ explored = "Deferral" /\ Loop({DeferThread}, DeferSessions, TRUE)!Init

IpcNext ==
    /\ UNCHANGED explored
    /\ \/ explored = "Port" /\ Next /\ UNCHANGED <<requestVars, managerVars>>
       \/ explored = "Session" /\ Session!Next /\ UNCHANGED <<vars, managerVars>>
       \/ /\ explored = "Manager" /\ Loop(LoopThreads, LoopSessions, FALSE)!Next
          /\ UNCHANGED <<vars, requestVars>>
       \/ /\ explored = "Deferral" /\ Loop({DeferThread}, DeferSessions, TRUE)!Next
          /\ UNCHANGED <<vars, requestVars>>

IpcFairness ==
    \/ explored = "Port" /\ Fairness
    \/ explored = "Session" /\ Session!Fairness
    \/ explored = "Manager"
    \/ explored = "Deferral" /\ Loop({DeferThread}, DeferSessions, TRUE)!Fairness

IpcSpec == IpcInit /\ [][IpcNext]_allVars /\ IpcFairness
-----------------------------------------------------------------------------
\* A session: no client waits for a request that nobody has, references match their
\* holders, no server sleeps on a request, and an answer ends the wait for its own
\* request, never a later one.
SessionSound ==
    /\ [](explored = "Session" =>
            /\ Session!TypeOK
            /\ Session!NoOrphanedClient /\ Session!RefsMatchHolders /\ Session!NoMissedRequest)
    /\ [][explored = "Session" => Session!ReplyIsForRequest]_allVars

\* The loop of the service threads: each holder is in one list or in the hands of
\* one thread, a thread sleeps only if all holders are waited for, and a deferred
\* request that could be answered is tried again.
ManagerInvariant ==
    /\ explored = "Manager" =>
          /\ Loop(LoopThreads, LoopSessions, FALSE)!TypeOK
          /\ Loop(LoopThreads, LoopSessions, FALSE)!HolderInOnePlace
          /\ Loop(LoopThreads, LoopSessions, FALSE)!NoForgottenHolder
    /\ explored = "Deferral" =>
          /\ Loop({DeferThread}, DeferSessions, TRUE)!TypeOK
          /\ Loop({DeferThread}, DeferSessions, TRUE)!HolderInOnePlace
          /\ Loop({DeferThread}, DeferSessions, TRUE)!NoLostDeferral

\* Unaccepted sessions of a closing port end, every call in a session and every
\* request to a service thread is answered or its session closed, and the destructor
\* of ServerManager ends.
CallsEnd ==
    /\ explored = "Port" => UnacceptedEnd
    /\ explored = "Session" => Session!ClientsReturn
    /\ explored = "Deferral" =>
          /\ Loop({DeferThread}, DeferSessions, TRUE)!RequestsEnd
          /\ Loop({DeferThread}, DeferSessions, TRUE)!DestructorEnds
=============================================================================
