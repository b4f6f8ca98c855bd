--------------------------- MODULE ServerManager ---------------------------
(***************************************************************************)
(* ServerManager: the threads of an HLE service wait for its port, its     *)
(* sessions and its events, serve what is signaled, and defer requests     *)
(* that cannot be answered yet (sm: waits for services to be registered).  *)
(*                                                                         *)
(* A holder is the thing it waits for: a session, Port, Wakeup, Deferral.  *)
(* A MultiWait is a set: which signaled holder a wait returns is left open.*)
(* Sessions are those of KServerSession, with one client thread each.      *)
(***************************************************************************)
EXTENDS Naturals, Sequences, FiniteSets

CONSTANTS
    Threads,        \* the threads of the loop
    Sessions,       \* as many as the port admits
    CanDefer,       \* whether ManageDeferral was called
    HandleMax,      \* ArgumentHandleCountMax
    Port, Wakeup, Deferral, None

Holders == Sessions \cup {Port, Wakeup} \cup (IF CanDefer THEN {Deferral} ELSE {})

HoldersAssumption ==
    /\ Sessions \cap {Port, Wakeup, Deferral, None} = {}
    /\ Port \notin {Wakeup, Deferral, None} /\ Wakeup \notin {Deferral, None} /\ Deferral # None
    /\ CanDefer \in BOOLEAN /\ HandleMax \in Nat

VARIABLES
    pc, mine,       \* where each thread is, and the holder it handles
    links,          \* links[t]: holders it has still to link
    retry,          \* retry[t]: deferred sessions it has still to try again
    selection,      \* the owner of m_selection_mutex
    multiWait, deferredList, deferred,  \* m_multi_wait, m_deferred_list, m_deferred_sessions
    wakeup, deferral,   \* the two events
    stop,           \* "no", "requested" (m_stop_source), "signaled", "deleted"
    queue,          \* the m_session_list of the port
    open,           \* the sessions in m_sessions
    request,        \* request[s]: "none", "pending", or "received"
    closed,         \* sessions whose client is closed
    available       \* whether the service that clients ask for is registered

threadVars == <<pc, mine, links, retry>>
listVars == <<selection, multiWait, deferredList, deferred>>
clientVars == <<queue, open, request, closed, available>>
vars == <<threadVars, listVars, wakeup, deferral, stop, clientVars>>

TypeOK ==
    /\ pc \in [Threads -> {"loop", "lock", "wait", "clear", "process", "handle",
                           "defer", "reply", "take", "link", "signal", "done"}]
    /\ mine \in [Threads -> Holders \cup {None}]
    /\ links \in [Threads -> Seq(Holders)] /\ retry \in [Threads -> SUBSET Sessions]
    /\ selection \in Threads \cup {None}
    /\ multiWait \subseteq Holders /\ deferredList \subseteq Holders /\ deferred \subseteq Sessions
    /\ wakeup \in BOOLEAN /\ deferral \in BOOLEAN /\ available \in BOOLEAN
    /\ stop \in {"no", "requested", "signaled", "deleted"}
    /\ queue \in Seq(Sessions) /\ open \subseteq Sessions
    /\ request \in [Sessions -> {"none", "pending", "received"}] /\ closed \subseteq Sessions

\* The constructor, ManageNamedPort and ManageDeferral.
Init ==
    /\ pc = [t \in Threads |-> "loop"] /\ mine = [t \in Threads |-> None]
    /\ links = [t \in Threads |-> <<>>] /\ retry = [t \in Threads |-> {}]
    /\ selection = None /\ multiWait = {} /\ deferredList = Holders \ Sessions /\ deferred = {}
    /\ wakeup = TRUE /\ deferral = FALSE /\ stop = "no"
    /\ queue = <<>> /\ open = {} /\ request = [s \in Sessions |-> "none"]
    /\ closed = {} /\ available = ~CanDefer
-----------------------------------------------------------------------------
(***************************************************************************)
(* LoopProcessImpl and WaitSignaled.                                       *)
(***************************************************************************)

IsSignaled(h) ==
    CASE h = Wakeup -> wakeup
      [] h = Deferral -> deferral
      [] h = Port -> queue # <<>>
      [] OTHER -> h \in closed \/ request[h] = "pending"

LoopProcessImpl(t) ==
    /\ pc[t] = "loop"
    /\ pc' = [pc EXCEPT ![t] = IF stop = "no" THEN "lock" ELSE "done"]
    /\ UNCHANGED <<mine, links, retry, listVars, wakeup, deferral, stop, clientVars>>

\* LinkDeferred, and the test whether to stop.
LinkDeferred(t) ==
    /\ multiWait' = multiWait \cup deferredList
    /\ deferredList' = {}
    /\ selection' = IF stop = "no" THEN t ELSE None
    /\ pc' = [pc EXCEPT ![t] = IF stop = "no" THEN "wait" ELSE "loop"]
    /\ UNCHANGED <<mine, links, retry, deferred, deferral, stop, clientVars>>

LockSelection(t) ==
    /\ pc[t] = "lock" /\ selection = None
    /\ LinkDeferred(t)
    /\ UNCHANGED wakeup

UnlinkFromMultiWait(h) == multiWait \ {h}

WaitAny(t, h) ==
    /\ pc[t] = "wait" /\ h \in multiWait /\ IsSignaled(h)
    /\ IF h = Wakeup
       THEN /\ pc' = [pc EXCEPT ![t] = "clear"]
            /\ UNCHANGED <<mine, multiWait, selection>>
       ELSE /\ pc' = [pc EXCEPT ![t] = "process"]
            /\ mine' = [mine EXCEPT ![t] = h]
            /\ multiWait' = UnlinkFromMultiWait(h)
            /\ selection' = None
    /\ UNCHANGED <<links, retry, deferredList, deferred, wakeup, deferral, stop, clientVars>>

\* The wake-up event is cleared, then the loop goes round.
ClearWakeup(t) ==
    /\ pc[t] = "clear"
    /\ wakeup' = FALSE
    /\ LinkDeferred(t)
-----------------------------------------------------------------------------
(***************************************************************************)
(* LinkToDeferredList, in two steps, and where a thread goes from there.   *)
(***************************************************************************)

\* A thread is done with its holder and has these deferred sessions left to try.
Continue(t, rest) ==
    IF rest = {}
    THEN /\ pc' = [pc EXCEPT ![t] = "loop"] /\ mine' = [mine EXCEPT ![t] = None]
         /\ retry' = [retry EXCEPT ![t] = {}]
    ELSE \E s \in rest :
            /\ pc' = [pc EXCEPT ![t] = "handle"] /\ mine' = [mine EXCEPT ![t] = s]
            /\ retry' = [retry EXCEPT ![t] = rest \ {s}]

Link(t) ==
    /\ pc[t] = "link"
    /\ deferredList' = deferredList \cup {Head(links[t])}
    /\ links' = [links EXCEPT ![t] = Tail(@)]
    /\ pc' = [pc EXCEPT ![t] = "signal"]
    /\ UNCHANGED <<mine, retry, selection, multiWait, deferred, wakeup, deferral, stop, clientVars>>

SignalWakeup(t) ==
    /\ pc[t] = "signal"
    /\ wakeup' = TRUE
    /\ IF links[t] # <<>>
       THEN pc' = [pc EXCEPT ![t] = "link"] /\ UNCHANGED <<mine, retry>>
       ELSE Continue(t, retry[t])
    /\ UNCHANGED <<links, listVars, deferral, stop, clientVars>>
-----------------------------------------------------------------------------
(***************************************************************************)
(* Process.                                                                *)
(***************************************************************************)

\* OnPortEvent: AcceptSession, RegisterSession, and the port again.
OnPortEvent(t) ==
    /\ pc[t] = "process" /\ mine[t] = Port
    /\ queue' = Tail(queue)
    /\ open' = open \cup {Head(queue)}
    /\ links' = [links EXCEPT ![t] = <<Head(queue), Port>>]
    /\ pc' = [pc EXCEPT ![t] = "link"]
    /\ mine' = [mine EXCEPT ![t] = None]
    /\ UNCHANGED <<retry, listVars, wakeup, deferral, stop, request, closed, available>>

DestroySession(s) ==
    /\ open' = open \ {s}
    /\ request' = [request EXCEPT ![s] = "none"]
    /\ closed' = closed \ {s}

\* OnSessionEvent: ReceiveRequestHLE fails once the client is closed.
OnSessionEvent(t) ==
    /\ pc[t] = "process" /\ mine[t] \in Sessions
    /\ IF mine[t] \in closed
       THEN DestroySession(mine[t]) /\ Continue(t, {})
       ELSE /\ pc' = [pc EXCEPT ![t] = "handle"]
            /\ request' = [request EXCEPT ![mine[t]] = "received"]
            /\ UNCHANGED <<mine, retry, open, closed>>
    /\ UNCHANGED <<links, listVars, wakeup, deferral, stop, queue, available>>

\* CompleteSyncRequest up to the answer of the service, which for sm: depends on
\* GetServicePort.
Handle(t) ==
    /\ pc[t] = "handle"
    /\ pc' = [pc EXCEPT ![t] = IF available THEN "reply" ELSE "defer"]
    /\ UNCHANGED <<mine, links, retry, listVars, wakeup, deferral, stop, clientVars>>

Defer(t) ==
    /\ pc[t] = "defer"
    /\ deferred' = deferred \cup {mine[t]}
    /\ Continue(t, retry[t])
    /\ UNCHANGED <<links, selection, multiWait, deferredList, wakeup, deferral, stop, clientVars>>

Relink(t) == <<mine[t]>>

\* SendReplyHLE.  The session ends if the client has closed it, or the service does.
SendReply(t, ends) ==
    /\ pc[t] = "reply"
    /\ IF ends \/ mine[t] \in closed
       THEN DestroySession(mine[t]) /\ Continue(t, retry[t]) /\ UNCHANGED links
       ELSE /\ request' = [request EXCEPT ![mine[t]] = "none"]
            /\ links' = [links EXCEPT ![t] = Relink(t)]
            /\ pc' = [pc EXCEPT ![t] = "link"] /\ mine' = [mine EXCEPT ![t] = None]
            /\ UNCHANGED <<retry, open, closed>>
    /\ UNCHANGED <<listVars, wakeup, deferral, stop, queue, available>>

\* OnDeferralEvent clears the event, ...
OnDeferralEvent(t) ==
    /\ pc[t] = "process" /\ mine[t] = Deferral
    /\ deferral' = FALSE
    /\ pc' = [pc EXCEPT ![t] = "take"]
    /\ UNCHANGED <<mine, links, retry, listVars, wakeup, stop, clientVars>>

\* ... then takes the list, links the event again, and tries the sessions.
TakeDeferred(t) ==
    /\ pc[t] = "take"
    /\ retry' = [retry EXCEPT ![t] = deferred]
    /\ deferred' = {}
    /\ links' = [links EXCEPT ![t] = <<Deferral>>]
    /\ pc' = [pc EXCEPT ![t] = "link"] /\ mine' = [mine EXCEPT ![t] = None]
    /\ UNCHANGED <<selection, multiWait, deferredList, wakeup, deferral, stop, clientVars>>
-----------------------------------------------------------------------------
(***************************************************************************)
(* Clients, other services, and the destructor.                            *)
(***************************************************************************)

Connected == open \cup {queue[i] : i \in DOMAIN queue}

\* CreateSession on the port.
Connect(s) ==
    /\ s \notin Connected /\ stop # "deleted"
    /\ queue' = Append(queue, s)
    /\ UNCHANGED <<threadVars, listVars, wakeup, deferral, stop, open, request, closed, available>>

SendRequest(s) ==
    /\ s \in Connected /\ s \notin closed /\ request[s] = "none"
    /\ request' = [request EXCEPT ![s] = "pending"]
    /\ UNCHANGED <<threadVars, listVars, wakeup, deferral, stop, queue, open, closed, available>>

CloseClient(s) ==
    /\ s \in Connected /\ s \notin closed
    /\ closed' = closed \cup {s}
    /\ request' = [request EXCEPT ![s] = IF @ = "pending" THEN "none" ELSE @]
    /\ UNCHANGED <<threadVars, listVars, wakeup, deferral, stop, queue, open, available>>

\* Mutant: registration does not tell the server.
RegisterQuietly ==
    /\ ~available /\ available' = TRUE
    /\ UNCHANGED <<threadVars, listVars, wakeup, deferral, stop, queue, open, request, closed>>

RegisterService ==
    /\ ~available
    /\ available' = TRUE
    /\ deferral' = TRUE
    /\ UNCHANGED <<threadVars, listVars, wakeup, stop, queue, open, request, closed>>

UnregisterService ==
    /\ CanDefer /\ available
    /\ available' = FALSE
    /\ UNCHANGED <<threadVars, listVars, wakeup, deferral, stop, queue, open, request, closed>>

\* The destructor requests the stop, ...
RequestStop ==
    /\ stop = "no"
    /\ stop' = "requested"
    /\ UNCHANGED <<threadVars, listVars, wakeup, deferral, clientVars>>

\* ... wakes the waiting thread, ...
SignalStop ==
    /\ stop = "requested"
    /\ stop' = "signaled"
    /\ wakeup' = TRUE
    /\ UNCHANGED <<threadVars, listVars, deferral, clientVars>>

\* ... waits for the threads, and deletes the ports and the sessions.
Delete ==
    /\ stop = "signaled" /\ \A t \in Threads : pc[t] = "done"
    /\ stop' = "deleted"
    /\ queue' = <<>> /\ open' = {} /\ request' = [s \in Sessions |-> "none"]
    /\ closed' = {} /\ multiWait' = {} /\ deferredList' = {} /\ deferred' = {}
    /\ UNCHANGED <<threadVars, selection, wakeup, deferral, available>>
-----------------------------------------------------------------------------
ThreadStep(t) ==
    \/ LoopProcessImpl(t) \/ LockSelection(t) \/ ClearWakeup(t)
    \/ \E h \in Holders : WaitAny(t, h)
    \/ Link(t) \/ SignalWakeup(t)
    \/ OnPortEvent(t) \/ OnSessionEvent(t) \/ Handle(t) \/ Defer(t)
    \/ \E ends \in BOOLEAN : SendReply(t, ends)
    \/ OnDeferralEvent(t) \/ TakeDeferred(t)

Destructor == RequestStop \/ SignalStop \/ Delete

Next ==
    \/ \E t \in Threads : ThreadStep(t)
    \/ \E s \in Sessions : Connect(s) \/ SendRequest(s) \/ CloseClient(s)
    \/ RegisterService \/ UnregisterService \/ Destructor

\* Threads run; a wait takes what was linked first, and what was served is linked last, so
\* a holder that stays signaled gets its turn, as does a thread that wants the mutex.  The
\* destructor goes on once it has started.
Fairness ==
    /\ \A t \in Threads : WF_vars(ThreadStep(t)) /\ SF_vars(LockSelection(t))
    /\ \A h \in Holders : SF_vars(\E t \in Threads : WaitAny(t, h))
    /\ WF_vars(SignalStop) /\ WF_vars(Delete)

Spec == Init /\ [][Next]_vars /\ Fairness
-----------------------------------------------------------------------------
\* What a thread holds in its hands.
InHand(t) == ({mine[t]} \ {None}) \cup {links[t][i] : i \in DOMAIN links[t]} \cup retry[t]

\* A holder that exists is in one list or in the hands of one thread: it is never forgotten,
\* linked twice, or freed while somebody uses it, and a session is served by one thread.
HolderInOnePlace ==
    stop # "deleted" => \A h \in Holders :
        LET places == {l \in 1 .. 3 : h \in <<multiWait, deferredList, deferred>>[l]}
            hands == {t \in Threads : h \in InHand(t)}
        IN  Cardinality(places) + Cardinality(hands) =
                IF h \in Sessions => h \in open THEN 1 ELSE 0

\* A thread sleeps in WaitAny only if all that was linked is being waited for: otherwise the
\* wake-up event is set, or about to be.
NoForgottenHolder ==
    (\E t \in Threads : pc[t] = "wait") /\ deferredList # {} =>
        wakeup \/ \E t \in Threads : pc[t] = "signal"

\* A deferred request that could be answered is tried again: the event is set until the
\* list is taken.
NoLostDeferral ==
    deferred # {} /\ available => deferral \/ \E t \in Threads : pc[t] = "take"

\* TimedWaitImpl asserts that the holders fit the array it builds.
WaitListFits == Cardinality(multiWait) <= HandleMax

\* Every request is answered or its session closed, provided that in the end the service it
\* asks for stays registered.
RequestsEnd ==
    <>[]available => \A s \in Sessions : request[s] # "none" ~> request[s] = "none"

\* The destructor ends: every thread leaves the loop, wherever the stop finds it.
DestructorEnds == stop = "requested" ~> stop = "deleted"
=============================================================================
