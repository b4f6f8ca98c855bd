--------------------------- MODULE KServerSession ---------------------------
(***************************************************************************)
(* A session: requests from client threads (KClientSession), their receipt *)
(* and reply by server threads (KServerSession), and the end of either     *)
(* side (KSession), with the reference counts of the request objects.      *)
(*                                                                         *)
(* The light lock m_lock is held over whole operations of the server side; *)
(* KLightLock shows that it excludes them from one another, as long as no  *)
(* termination request reaches a thread that waits for it.  Inside, the    *)
(* scheduler lock is taken for single steps, which are the steps here; the *)
(* client side takes that lock only.  KSession's state is read and written *)
(* without either.  Message contents, mappings and results are left out.   *)
(***************************************************************************)
EXTENDS Integers, Sequences, FiniteSets, SequencesExt

CONSTANTS
    Clients,        \* client threads
    Servers,        \* server threads
    Requests,       \* KSessionRequest objects of the slab
    None            \* null

\* Who may hold m_lock: server threads, and the two ends when they are destroyed.
Ends == {"client", "server"}
Actors == Servers \cup Ends

NoneAssumption == None \notin Clients \cup Actors \cup Requests
ActorsAssumption == Servers \cap Ends = {}

VARIABLES
    session,        \* KSession's state: "Normal", "ServerClosed", "ClientClosed"
    list, current,  \* m_request_list and m_current_request
    refs,           \* refs[r]: reference count of the request, 0 if it is free
    thread,         \* thread[r]: m_thread
    event,          \* the requests with an event (asynchronous ones)
    pending,        \* asynchronous requests whose event has not been signaled
    lock,           \* the holder of m_lock
    pc, req,        \* pc[a], req[a]: place and local request of an actor
    client,         \* client[t]: "Idle", "Waiting" or "Return" (still in the call)
    request,        \* request[t]: the request of the call in progress
    terminating,    \* client threads with m_termination_requested
    previous        \* prev_request of OnClientClosed

reqVars == <<refs, thread, event>>
clientVars == <<client, request, terminating>>
vars == <<session, list, current, pending, lock, pc, req, previous, reqVars, clientVars>>

TypeOK ==
    /\ session \in {"Normal", "ServerClosed", "ClientClosed"}
    /\ list \in Seq(Requests) /\ current \in Requests \cup {None}
    /\ refs \in [Requests -> 0 .. 2] /\ thread \in [Requests -> Clients \cup {None}]
    /\ event \subseteq Requests /\ pending \subseteq Requests
    /\ lock \in Actors \cup {None} /\ previous \in Requests \cup {None}
    /\ pc \in [Actors -> {"Idle", "Waiting", "Popped", "Failed", "Serving", "Reply", "Store",
                          "Lock", "Loop", "Done"}]
    /\ req \in [Actors -> Requests \cup {None}]
    /\ client \in [Clients -> {"Idle", "Waiting", "Return"}]
    /\ request \in [Clients -> Requests \cup {None}]
    /\ terminating \subseteq Clients

Init ==
    /\ session = "Normal" /\ list = <<>> /\ current = None /\ lock = None /\ previous = None
    /\ refs = [r \in Requests |-> 0] /\ thread = [r \in Requests |-> None]
    /\ event = {} /\ pending = {} /\ terminating = {}
    /\ pc = [a \in Actors |-> "Idle"] /\ req = [a \in Actors |-> None]
    /\ client = [t \in Clients |-> "Idle"] /\ request = [t \in Clients |-> None]

\* The handles: an end that is being destroyed has no more calls on it.
Open(end) == pc[end] = "Idle"
-----------------------------------------------------------------------------
(***************************************************************************)
(* Common parts.                                                           *)
(***************************************************************************)

\* IsSignaled, for given contents of the session.
Signaled(l, c) == session # "Normal" \/ (l # <<>> /\ c = None)

\* NotifyAvailable: every server that waits for the session runs again.
Notified(l, c, places) ==
    [a \in Actors |-> IF places[a] = "Waiting" /\ Signaled(l, c) THEN "Idle" ELSE places[a]]

\* KSessionRequest's Close, with Destroy and Finalize.
Close(r) ==
    /\ refs' = [refs EXCEPT ![r] = @ - 1]
    /\ thread' = [thread EXCEPT ![r] = IF refs[r] = 1 THEN None ELSE @]
    /\ event' = IF refs[r] = 1 THEN event \ {r} ELSE event

\* Mutant: a client's wait ends also if the request has an event.
EndAnyWait(r) ==
    /\ pending' = pending \ {r}
    /\ client' = [t \in Clients |->
           IF t = thread[r] /\ t \notin terminating /\ client[t] = "Waiting"
           THEN "Return" ELSE client[t]]

\* The answer to the client: its event, or the end of its wait.
EndRequest(r) ==
    /\ pending' = pending \ {r}
    /\ client' = [t \in Clients |->
           IF t = thread[r] /\ r \notin event /\ t \notin terminating /\ client[t] = "Waiting"
           THEN "Return" ELSE client[t]]
-----------------------------------------------------------------------------
(***************************************************************************)
(* Client threads.                                                         *)
(***************************************************************************)

\* SendSyncRequest and SendAsyncRequest, up to the wait or the return of OnRequest.
\* The request has the reference of its creator and that of the list.
OnRequest(t, r, async) ==
    /\ Open("client")
    /\ client[t] = "Idle" /\ t \notin terminating
    /\ refs[r] = 0
    /\ session = "Normal"
    /\ refs' = [refs EXCEPT ![r] = 2]
    /\ thread' = [thread EXCEPT ![r] = t]
    /\ event' = IF async THEN event \cup {r} ELSE event
    /\ pending' = IF async THEN pending \cup {r} ELSE pending
    /\ list' = Append(list, r)
    /\ pc' = IF list = <<>> THEN Notified(list', current, pc) ELSE pc
    /\ client' = [client EXCEPT ![t] = IF async THEN "Return" ELSE "Waiting"]
    /\ request' = [request EXCEPT ![t] = r]
    /\ UNCHANGED <<session, current, lock, req, previous, terminating>>

\* The creator's reference is closed when the call returns.
ReturnFromRequest(t) ==
    /\ client[t] = "Return"
    /\ Close(request[t])
    /\ client' = [client EXCEPT ![t] = "Idle"]
    /\ request' = [request EXCEPT ![t] = None]
    /\ UNCHANGED <<session, list, current, pending, lock, pc, req, previous, terminating>>

\* A termination request cancels the wait; the request stays where it is.
RequestTerminate(t) ==
    /\ t \notin terminating
    /\ terminating' = terminating \cup {t}
    /\ client' = [client EXCEPT ![t] = IF @ = "Waiting" THEN "Return" ELSE @]
    /\ UNCHANGED <<session, list, current, pending, lock, pc, req, previous, reqVars, request>>
-----------------------------------------------------------------------------
(***************************************************************************)
(* Server threads.                                                         *)
(***************************************************************************)

\* KSynchronizationObject::Wait on a session that is not signaled.
Wait(s) ==
    /\ Open("server") /\ pc[s] = "Idle"
    /\ ~Signaled(list, current)
    /\ pc' = [pc EXCEPT ![s] = "Waiting"]
    /\ UNCHANGED <<session, list, current, pending, lock, req, previous, reqVars, clientVars>>

\* ReceiveRequest takes the lock and the first request (or returns an error).
ReceiveRequest(s) ==
    /\ Open("server") /\ pc[s] = "Idle" /\ lock = None
    /\ session = "Normal" /\ current = None /\ list # <<>>
    /\ lock' = s
    /\ list' = Tail(list)
    /\ req' = [req EXCEPT ![s] = Head(list)]
    /\ pc' = [pc EXCEPT ![s] = "Popped"]
    /\ UNCHANGED <<session, current, pending, previous, reqVars, clientVars>>

\* It sets the current request, without the scheduler lock.  Then the message is
\* received, or that fails.
SetCurrentRequest(s, ok) ==
    /\ pc[s] = "Popped"
    /\ current' = req[s]
    /\ \/ /\ ok /\ pc' = [pc EXCEPT ![s] = "Serving"] /\ req' = [req EXCEPT ![s] = None]
          /\ lock' = None
       \/ ~ok /\ pc' = [pc EXCEPT ![s] = "Failed"] /\ UNCHANGED <<req, lock>>
    /\ UNCHANGED <<session, list, pending, previous, reqVars, clientVars>>

\* The failure clears the current request; Reply answers the client.
ReceiveFailed(s) ==
    /\ pc[s] = "Failed"
    /\ current' = None
    /\ pc' = LET places == [pc EXCEPT ![s] = "Reply"]
             IN  IF list # <<>> THEN Notified(list, None, places) ELSE places
    /\ UNCHANGED <<session, list, pending, lock, req, previous, reqVars, clientVars>>

\* SendReply, by the server that received the request, takes the current request.
SendReply(s) ==
    /\ Open("server") /\ pc[s] = "Serving" /\ lock = None
    /\ current # None
    /\ lock' = s
    /\ req' = [req EXCEPT ![s] = current]
    /\ current' = None
    /\ pc' = LET places == [pc EXCEPT ![s] = "Reply"]
             IN  IF list # <<>> THEN Notified(list, None, places) ELSE places
    /\ UNCHANGED <<session, list, pending, previous, reqVars, clientVars>>

\* The end of SendReply, of a failed ReceiveRequest, and of a round of CleanupRequests,
\* which keeps the lock.
Reply(a) ==
    /\ pc[a] = "Reply"
    /\ EndRequest(req[a])
    /\ Close(req[a])
    /\ req' = [req EXCEPT ![a] = None]
    /\ \/ a \in Servers /\ pc' = [pc EXCEPT ![a] = "Idle"] /\ lock' = None
       \/ a \in Ends /\ pc' = [pc EXCEPT ![a] = "Loop"] /\ UNCHANGED lock
    /\ UNCHANGED <<session, list, current, previous, request, terminating>>
-----------------------------------------------------------------------------
(***************************************************************************)
(* The ends are destroyed: their last reference is closed, so no thread is *)
(* inside a call of that end, nor will be.                                 *)
(***************************************************************************)

Unused(end) == IF end = "client" THEN \A t \in Clients : client[t] = "Idle"
               ELSE \A s \in Servers : pc[s] \in {"Idle", "Serving"}

\* Destroy reads KSession's state; a client end that is not the first to close is done,
\* a server end cleans up in any case.
Destroy(end) ==
    /\ Open(end) /\ Unused(end)
    /\ pc' = [pc EXCEPT ![end] = IF session = "Normal" THEN "Store"
                                 ELSE IF end = "client" THEN "Done" ELSE "Lock"]
    /\ UNCHANGED <<session, list, current, pending, lock, req, previous, reqVars, clientVars>>

SetState(end) ==
    /\ pc[end] = "Store"
    /\ session' = IF end = "client" THEN "ClientClosed" ELSE "ServerClosed"
    /\ pc' = [pc EXCEPT ![end] = "Lock"]
    /\ UNCHANGED <<list, current, pending, lock, req, previous, reqVars, clientVars>>

LockSession(end) ==
    /\ pc[end] = "Lock" /\ lock = None
    /\ lock' = end
    /\ pc' = [pc EXCEPT ![end] = "Loop"]
    /\ UNCHANGED <<session, list, current, pending, req, previous, reqVars, clientVars>>

\* Mutant: the request being served is forgotten.
CleanupQueued ==
    /\ pc["server"] = "Loop" /\ list # <<>>
    /\ req' = [req EXCEPT !["server"] = Head(list)]
    /\ list' = Tail(list)
    /\ pc' = [pc EXCEPT !["server"] = "Reply"]
    /\ UNCHANGED <<session, current, pending, lock, previous, reqVars, clientVars>>

\* CleanupRequests takes the current request or the first of the list.
CleanupRequest ==
    /\ pc["server"] = "Loop"
    /\ \/ /\ current # None
          /\ req' = [req EXCEPT !["server"] = current]
          /\ current' = None /\ UNCHANGED list
       \/ /\ current = None /\ list # <<>>
          /\ req' = [req EXCEPT !["server"] = Head(list)]
          /\ list' = Tail(list) /\ UNCHANGED current
    /\ pc' = [pc EXCEPT !["server"] = "Reply"]
    /\ UNCHANGED <<session, pending, lock, previous, reqVars, clientVars>>

CleanupEnds ==
    /\ pc["server"] = "Loop"
    /\ current = None /\ list = <<>>
    /\ lock' = None
    /\ pc' = [pc EXCEPT !["server"] = "Done"]
    /\ UNCHANGED <<session, list, current, pending, req, previous, reqVars, clientVars>>

\* OnClientClosed looks at the current request once: if its thread is terminating it
\* takes thread and event out of the request.
ClientClosedCurrent ==
    /\ pc["client"] = "Loop"
    /\ current # None /\ current # previous
    /\ previous' = current
    /\ IF thread[current] \in terminating
       THEN /\ thread' = [thread EXCEPT ![current] = None]
            /\ event' = event \ {current} /\ pending' = pending \ {current}
       ELSE UNCHANGED <<thread, event, pending>>
    /\ UNCHANGED <<session, list, current, lock, pc, req, refs, clientVars>>

\* A request that was not received is dropped; an asynchronous one is answered.
ClientClosedRequest ==
    /\ pc["client"] = "Loop"
    /\ current = None \/ current = previous
    /\ list # <<>>
    /\ list' = Tail(list)
    /\ pending' = pending \ {Head(list)}
    /\ Close(Head(list))
    /\ UNCHANGED <<session, current, lock, pc, req, previous, clientVars>>

ClientClosedEnds ==
    /\ pc["client"] = "Loop"
    /\ current = None \/ current = previous
    /\ list = <<>>
    /\ lock' = None
    /\ previous' = None
    /\ pc' = Notified(list, current, [pc EXCEPT !["client"] = "Done"])
    /\ UNCHANGED <<session, list, current, pending, req, reqVars, clientVars>>
-----------------------------------------------------------------------------
ServerSteps ==
    \E s \in Servers : \/ ReceiveRequest(s)
                       \/ \E ok \in BOOLEAN : SetCurrentRequest(s, ok)
                       \/ ReceiveFailed(s)
                       \/ SendReply(s)

EndSteps ==
    \/ \E end \in Ends : SetState(end) \/ LockSession(end)
    \/ CleanupRequest \/ CleanupEnds
    \/ ClientClosedCurrent \/ ClientClosedRequest \/ ClientClosedEnds

Replies == \E a \in Actors : Reply(a)

Next ==
    \/ ServerSteps \/ EndSteps \/ Replies
    \/ \E s \in Servers : Wait(s)
    \/ \E end \in Ends : Destroy(end)
    \/ \E t \in Clients : \/ \E r \in Requests, async \in BOOLEAN : OnRequest(t, r, async)
                          \/ ReturnFromRequest(t)
                          \/ RequestTerminate(t)

Spec == Init /\ [][Next]_vars

\* Servers receive requests and answer them, and what has begun goes on.
Fairness == WF_vars(ServerSteps) /\ WF_vars(EndSteps) /\ WF_vars(Replies)
-----------------------------------------------------------------------------
\* r is where somebody will answer it.
OnItsWay(r) ==
    \/ r \in ToSet(list) \/ r = current
    \/ \E a \in Actors : req[a] = r

\* No client waits for a request that nobody has, and no event is forgotten: not when
\* a receipt fails, nor when an end closes around a request in any stage.
NoOrphanedClient ==
    /\ \A t \in Clients : client[t] = "Waiting" => OnItsWay(request[t])
    /\ \A r \in pending : OnItsWay(r)

\* The wait that an answer ends is the wait for that very request, never a later one.
ReplyIsForRequest ==
    \A a \in Actors, t \in Clients :
        pc[a] = "Reply" /\ pc'[a] # "Reply" /\ client[t] = "Waiting" /\ client'[t] = "Return"
            => request[t] = req[a]

\* The references of a request are those of its holders: the list, m_current_request
\* or whoever took it from there, and the call that created it.
RefsMatchHolders ==
    \A r \in Requests :
        refs[r] = Cardinality({i \in DOMAIN list : list[i] = r})
                  + (IF r = current /\ \A s \in Servers : pc[s] = "Failed" => req[s] # r
                     THEN 1 ELSE 0)
                  + Cardinality({a \in Actors : req[a] = r})
                  + Cardinality({t \in Clients : request[t] = r})

\* A server does not sleep on a session with something to do, unless the client's end
\* is still closing and will notify it.
NoMissedRequest ==
    \A s \in Servers : pc[s] = "Waiting" =>
        ~Signaled(list, current) \/ pc["client"] \in {"Lock", "Loop"}

\* Every request is answered, or its client terminates.
ClientsReturn == \A t \in Clients : client[t] = "Waiting" ~> client[t] # "Waiting"
=============================================================================
