----------------------------- MODULE NvHostCtrl -----------------------------
(***************************************************************************)
(* nvhost_ctrl and host1x's SyncpointManager: the guest waits for a value  *)
(* of a syncpoint with an NvEvent, cancels, registers and frees events,    *)
(* while other threads increment the syncpoint and run the actions that    *)
(* have become due.                                                        *)
(*                                                                         *)
(* The nvdrv service has one thread, Svc, and runs one ioctl at a time;    *)
(* the threads that increment (the GPU thread, the fence thread, nvdec)    *)
(* never take events_mutex.  One syncpoint is followed, on the host side.  *)
(* Guest calls name an event that is registered when they cancel.          *)
(***************************************************************************)
EXTENDS Integers, Sequences, SequencesExt

CONSTANTS Incs, Svc, NumSlots, FailLimit, MaxValue, Width

NoThread == "none"

SvcAssumption == Svc \notin Incs /\ NoThread \notin Incs \cup {Svc}
BoundsAssumption ==
    /\ NumSlots \in Nat \ {0} /\ FailLimit \in Nat /\ MaxValue \in Nat
    /\ Width \in Nat /\ Width > 2 * MaxValue

Slots == 0 .. NumSlots - 1

VARIABLES
    value,          \* syncpoints_host
    counterMin, counterMax,     \* nvdrv's cached counters of the syncpoint
    actions,        \* host_action_storage: value, slot and list node of each
    guard,          \* the thread that holds SyncpointManager::guard
    pc,             \* pc[t]: where the call of thread t stands
    newValue,       \* newValue[t]: the value thread t has incremented to
    slot, target,   \* of the ioctl in progress
    status, registered, kevent, assigned, fails, handle,    \* of each NvEvent
    overtaken       \* (history) events cancelled while they were signalled

syncVars == <<value, counterMin, counterMax, actions, guard>>
threadVars == <<pc, newValue, slot, target>>
eventVars == <<status, registered, kevent, assigned, fails, handle, overtaken>>
vars == <<syncVars, threadVars, eventVars>>

\* Addresses of list nodes; 0 is the end of the list, which no action has.
Nodes == Nat \ {0}

Actions == [value : 1 .. MaxValue, slot : Slots, node : Nodes]

IncPCs == {"idle", "lock", "exchange", "signal", "store"}
SvcPCs == {"idle", "slot", "poll", "register", "reglock", "exchange", "signal", "store",
           "waithost", "sleep", "dereg", "cancelled", "clear"}

TypeOK ==
    /\ value \in 0 .. counterMax /\ counterMin \in 0 .. value /\ counterMax \in 0 .. MaxValue
    /\ actions \in Seq(Actions)
    /\ guard \in Incs \cup {Svc, NoThread}
    /\ pc \in [Incs \cup {Svc} -> IncPCs \cup SvcPCs]
    /\ pc[Svc] \in SvcPCs /\ \A t \in Incs : pc[t] \in IncPCs
    /\ newValue \in [Incs -> 0 .. MaxValue]
    /\ slot \in Slots /\ target \in 0 .. MaxValue
    /\ status \in [Slots -> {"Available", "Waiting", "Cancelling", "Signalling",
                             "Signalled", "Cancelled"}]
    /\ registered \subseteq Slots /\ kevent \subseteq registered
    /\ assigned \subseteq Slots /\ overtaken \subseteq Slots
    /\ fails \in [Slots -> 0 .. FailLimit + 1]
    /\ handle \in [Slots -> Nodes \cup {0}]

Init ==
    /\ value = 0 /\ counterMin = 0 /\ counterMax = 0
    /\ actions = <<>> /\ guard = NoThread
    /\ pc = [t \in Incs \cup {Svc} |-> "idle"]
    /\ newValue = [t \in Incs |-> 0] /\ slot = 0 /\ target = 0
    /\ status = [s \in Slots |-> "Available"]
    /\ registered = {} /\ kevent = {} /\ assigned = {} /\ overtaken = {}
    /\ fails = [s \in Slots |-> 0] /\ handle = [s \in Slots |-> 0]

Goto(t, l) == pc' = [pc EXCEPT ![t] = l]
-----------------------------------------------------------------------------
(***************************************************************************)
(* Increment: the counter first, then the guard, then the actions due.     *)
(***************************************************************************)

\* The guest has submitted work that increments the syncpoint once.
IncrementSyncpointMaxExt ==
    /\ counterMax < MaxValue
    /\ counterMax' = counterMax + 1
    /\ UNCHANGED <<value, counterMin, actions, guard, threadVars, eventVars>>

FetchAdd(t) ==
    /\ pc[t] = "idle" /\ value < counterMax
    /\ value' = value + 1
    /\ newValue' = [newValue EXCEPT ![t] = value + 1]
    /\ Goto(t, "lock")
    /\ UNCHANGED <<counterMin, counterMax, actions, guard, slot, target, eventVars>>

\* notify_all: a waiter looks at its condition again.
Woken(l) == IF l = "sleep" THEN "waithost" ELSE l

\* The head of the list is due: run it.  Else wake the waiters and return.
RunDue(t, list) ==
    IF list # <<>> /\ Head(list).value <= newValue[t]
    THEN /\ guard' = t
         /\ Goto(t, "exchange")
         /\ UNCHANGED newValue
    ELSE /\ guard' = NoThread
         /\ pc' = [pc EXCEPT ![t] = "idle", ![Svc] = Woken(@)]
         /\ newValue' = [newValue EXCEPT ![t] = 0]

Increment(t) ==
    /\ pc[t] = "lock" /\ guard = NoThread
    /\ RunDue(t, actions)
    /\ UNCHANGED <<value, counterMin, counterMax, actions, slot, target, eventVars>>

(***************************************************************************)
(* The action of an event, run by the thread that increments or, at once,  *)
(* by the one that registers it.                                           *)
(***************************************************************************)

SlotOf(t) == IF t = Svc THEN slot ELSE Head(actions).slot

\* Mutant: the event is marked before it is signalled.
MarkSignalled(s) == status' = [status EXCEPT ![s] = "Signalled"]

MarkSignalling(s) == status' = [status EXCEPT ![s] = "Signalling"]

Exchange(t) ==
    /\ pc[t] = "exchange"
    /\ MarkSignalling(SlotOf(t))
    /\ Goto(t, IF status[SlotOf(t)] = "Waiting" THEN "signal" ELSE "store")
    /\ UNCHANGED <<syncVars, newValue, slot, target, registered, kevent, assigned, fails,
                   handle, overtaken>>

\* The event may have been freed meanwhile: kevent is null then, and nothing
\* is known of the call; the model lets it do nothing.
Signal(t) ==
    /\ pc[t] = "signal"
    /\ kevent' = kevent \cup ({SlotOf(t)} \cap registered)
    /\ Goto(t, "store")
    /\ UNCHANGED <<syncVars, newValue, slot, target, status, registered, assigned, fails,
                   handle, overtaken>>

\* Back in Increment the action is erased and the next one looked at.
Store(t) ==
    /\ pc[t] = "store" /\ t \in Incs
    /\ status' = [status EXCEPT ![SlotOf(t)] = "Signalled"]
    /\ actions' = Tail(actions)
    /\ RunDue(t, Tail(actions))
    /\ UNCHANGED <<value, counterMin, counterMax, slot, target, registered, kevent, assigned,
                   fails, handle, overtaken>>

Return == Goto(Svc, "idle") /\ slot' = 0 /\ target' = 0

\* Back in RegisterAction no handle is returned.
StoreAtOnce ==
    /\ pc[Svc] = "store"
    /\ status' = [status EXCEPT ![slot] = "Signalled"]
    /\ handle' = [handle EXCEPT ![slot] = 0]
    /\ guard' = IF guard = Svc THEN NoThread ELSE guard
    /\ Return
    /\ UNCHANGED <<value, counterMin, counterMax, actions, newValue, registered, kevent,
                   assigned, fails, overtaken>>
-----------------------------------------------------------------------------
(***************************************************************************)
(* IocCtrlEventWait                                                        *)
(***************************************************************************)

HasSyncpointExpired(min, threshold) ==
    ((counterMax - threshold) % Width) >= ((min - threshold) % Width)

IsBeingUsed(s) == status[s] \in {"Waiting", "Cancelling", "Signalling"}

Created(s) ==
    /\ registered' = registered \cup {s}
    /\ kevent' = kevent \ {s}
    /\ status' = [status EXCEPT ![s] = "Available"]
    /\ fails' = [fails EXCEPT ![s] = 0]
    /\ assigned' = assigned \ {s}

Lowest(S) == CHOOSE s \in S : \A u \in S : s <= u
Highest(S) == CHOOSE s \in S : \A u \in S : s >= u

NoneFree == 0

\* An idle event of this syncpoint, a new one, any idle one, or the first.
FindFreeNvEvent ==
    LET idle == {s \in registered : ~IsBeingUsed(s)}
        new == Slots \ registered
    IN  CASE idle \cap assigned # {} -> slot' = Lowest(idle \cap assigned) /\
                                       UNCHANGED <<registered, kevent, status, fails, assigned>>
          [] idle \cap assigned = {} /\ new # {} -> slot' = Lowest(new) /\ Created(Lowest(new))
          [] OTHER -> /\ slot' = IF idle # {} THEN Highest(idle) ELSE NoneFree
                      /\ UNCHANGED <<registered, kevent, status, fails, assigned>>

\* Already reached, by the cached value or by the syncpoint's own.
WaitReached(s, allocate, thr) ==
    /\ HasSyncpointExpired(counterMin, thr) \/ HasSyncpointExpired(value, thr)
    /\ counterMin' = IF HasSyncpointExpired(counterMin, thr) THEN counterMin ELSE value
    /\ fails' = IF allocate THEN fails ELSE [fails EXCEPT ![s] = 0]
    /\ UNCHANGED <<value, counterMax, actions, guard, threadVars, status, registered, kevent,
                   assigned, handle, overtaken>>

\* The event is chosen; `later' is "poll" for a time-out of zero.
WaitLater(s, allocate, thr, later) ==
    /\ ~HasSyncpointExpired(counterMin, thr) /\ ~HasSyncpointExpired(value, thr)
    /\ counterMin' = value
    /\ target' = thr
    /\ Goto(Svc, later)
    /\ IF allocate
       THEN FindFreeNvEvent
       ELSE slot' = s /\ UNCHANGED <<registered, kevent, status, fails, assigned>>
    /\ UNCHANGED <<value, counterMax, actions, guard, newValue, handle, overtaken>>

IocCtrlEventWait(s, allocate, thr) ==
    /\ pc[Svc] = "idle"
    /\ \/ WaitReached(s, allocate, thr)
       \/ \E later \in {"slot", "poll"} : WaitLater(s, allocate, thr, later)

\* An event that failed too often waits for the syncpoint itself; the event
\* is armed otherwise.
CheckEvent ==
    /\ pc[Svc] \in {"slot", "poll"}
    /\ \/ /\ fails[slot] > FailLimit
          /\ pc[Svc] = "slot" => slot \in registered /\ ~IsBeingUsed(slot)
          /\ Goto(Svc, "waithost")
          /\ UNCHANGED <<slot, target, status, assigned>>
       \/ /\ pc[Svc] = "slot" /\ fails[slot] <= FailLimit
          /\ slot \in registered /\ ~IsBeingUsed(slot)
          /\ Goto(Svc, "register")
          /\ status' = [status EXCEPT ![slot] = "Waiting"]
          /\ assigned' = assigned \cup {slot}
          /\ UNCHANGED <<slot, target>>
       \/ /\ IF pc[Svc] = "poll" THEN fails[slot] <= FailLimit
             ELSE slot \notin registered \/ IsBeingUsed(slot)
          /\ Return
          /\ UNCHANGED <<status, assigned>>
    /\ UNCHANGED <<syncVars, newValue, registered, kevent, fails, handle, overtaken>>

(***************************************************************************)
(* SyncpointManager::RegisterAction, DeregisterAction, Wait                *)
(***************************************************************************)

\* The look at the counter without the guard.
RegisterAction ==
    /\ pc[Svc] = "register"
    /\ Goto(Svc, IF value >= target THEN "exchange" ELSE "reglock")
    /\ UNCHANGED <<syncVars, newValue, slot, target, eventVars>>

StillEarly == value < target

\* The place before the first action of this value or more.
Place(thr) ==
    LET later == {i \in DOMAIN actions : actions[i].value >= thr}
    IN  IF later = {} THEN Len(actions) + 1 ELSE Lowest(later)

\* Nodes of the list are allocated at the lowest free address.
FreeNode == Lowest((1 .. Len(actions) + 1) \ {actions[i].node : i \in DOMAIN actions})

RegisterLocked ==
    /\ pc[Svc] = "reglock" /\ guard = NoThread
    /\ IF StillEarly
       THEN /\ actions' = InsertAt(actions, Place(target),
                                   [value |-> target, slot |-> slot, node |-> FreeNode])
            /\ handle' = [handle EXCEPT ![slot] = FreeNode]
            /\ Return
            /\ UNCHANGED guard
       ELSE /\ guard' = Svc
            /\ Goto(Svc, "exchange")
            /\ UNCHANGED <<actions, handle, slot, target>>
    /\ UNCHANGED <<value, counterMin, counterMax, newValue, status, registered, kevent,
                   assigned, fails, overtaken>>

WaitHost ==
    /\ pc[Svc] = "waithost"
    /\ IF value >= target
       THEN fails' = [fails EXCEPT ![slot] = 0] /\ Return
       ELSE guard = NoThread /\ Goto(Svc, "sleep") /\ UNCHANGED <<fails, slot, target>>
    /\ UNCHANGED <<syncVars, newValue, status, registered, kevent, assigned, handle, overtaken>>
-----------------------------------------------------------------------------
(***************************************************************************)
(* IocCtrlClearEventWait, IocCtrlEventRegister, IocCtrlEventUnregister     *)
(***************************************************************************)

MarkCancelling(s) == status' = [status EXCEPT ![s] = "Cancelling"]

IocCtrlClearEventWait(s) ==
    /\ pc[Svc] = "idle" /\ s \in registered
    /\ MarkCancelling(s)
    /\ slot' = s
    /\ Goto(Svc, IF status[s] = "Waiting" THEN "dereg" ELSE "cancelled")
    /\ overtaken' = overtaken \cup (IF status[s] = "Signalling" THEN {s} ELSE {})
    /\ UNCHANGED <<syncVars, newValue, target, registered, kevent, assigned, fails, handle>>

\* The action is erased if its node is still in the list.
DeregisterHostAction ==
    /\ pc[Svc] = "dereg" /\ guard = NoThread
    /\ LET found == {i \in DOMAIN actions : actions[i].node = handle[slot]}
       IN  actions' = IF found = {} THEN actions ELSE RemoveAt(actions, Lowest(found))
    /\ counterMin' = value
    /\ handle' = [handle EXCEPT ![slot] = 0]
    /\ Goto(Svc, "cancelled")
    /\ UNCHANGED <<value, counterMax, guard, newValue, slot, target, status, registered,
                   kevent, assigned, fails, overtaken>>

StoreCancelled ==
    /\ pc[Svc] = "cancelled"
    /\ fails' = [fails EXCEPT ![slot] = IF @ > FailLimit THEN @ ELSE @ + 1]
    /\ status' = [status EXCEPT ![slot] = "Cancelled"]
    /\ Goto(Svc, "clear")
    /\ UNCHANGED <<syncVars, newValue, slot, target, registered, kevent, assigned, handle,
                   overtaken>>

ClearEvent ==
    /\ pc[Svc] = "clear"
    /\ kevent' = kevent \ {slot}
    /\ Return
    /\ UNCHANGED <<syncVars, newValue, status, registered, assigned, fails, handle, overtaken>>

\* Register frees the event it replaces, unless it is in use.
IocCtrlEventRegister(s) ==
    /\ pc[Svc] = "idle" /\ ~(s \in registered /\ IsBeingUsed(s))
    /\ Created(s)
    /\ UNCHANGED <<syncVars, threadVars, handle, overtaken>>

\* A batch is a sequence of these that ends at the first one in use.
IocCtrlEventUnregister(s) ==
    /\ pc[Svc] = "idle" /\ s \in registered /\ ~IsBeingUsed(s)
    /\ registered' = registered \ {s}
    /\ kevent' = kevent \ {s}
    /\ status' = [status EXCEPT ![s] = "Available"]
    /\ UNCHANGED <<syncVars, threadVars, assigned, fails, handle, overtaken>>
-----------------------------------------------------------------------------
IncStep(t) == Increment(t) \/ Exchange(t) \/ Signal(t) \/ Store(t)

SvcStep ==
    \/ CheckEvent \/ RegisterAction \/ RegisterLocked \/ WaitHost
    \/ Exchange(Svc) \/ Signal(Svc) \/ StoreAtOnce
    \/ DeregisterHostAction \/ StoreCancelled \/ ClearEvent

Ioctl ==
    \E s \in Slots :
        \/ \E allocate \in BOOLEAN, thr \in 0 .. MaxValue : IocCtrlEventWait(s, allocate, thr)
        \/ IocCtrlClearEventWait(s)
        \/ IocCtrlEventRegister(s)
        \/ IocCtrlEventUnregister(s)

Next ==
    \/ IncrementSyncpointMaxExt
    \/ \E t \in Incs : FetchAdd(t) \/ IncStep(t)
    \/ SvcStep
    \/ Ioctl

Spec == Init /\ [][Next]_vars

\* The GPU executes what was submitted; threads inside a call go on.
Fairness ==
    /\ WF_vars(\E t \in Incs : FetchAdd(t))
    /\ \A t \in Incs : SF_vars(Increment(t)) /\ WF_vars(Exchange(t) \/ Signal(t) \/ Store(t))
    /\ WF_vars(CheckEvent \/ RegisterAction \/ Exchange(Svc) \/ Signal(Svc) \/ StoreAtOnce
               \/ StoreCancelled \/ ClearEvent)
    /\ SF_vars(RegisterLocked) /\ SF_vars(WaitHost) /\ SF_vars(DeregisterHostAction)
-----------------------------------------------------------------------------
\* No action is missed: one whose value the syncpoint has reached is about to
\* be run by a thread that has incremented that far (Increment, RegisterAction).
NoMissedAction ==
    \A i \in DOMAIN actions : actions[i].value <= value =>
        \E t \in Incs : pc[t] # "idle" /\ newValue[t] >= actions[i].value

\* An event that says Waiting has its own action in the list, or the call that
\* puts it there is not finished (IocCtrlEventWait).
WaitingIsArmed ==
    \A s \in Slots : status[s] = "Waiting" =>
        \/ pc[Svc] \in {"register", "reglock", "exchange"} /\ slot = s
        \/ \E i \in DOMAIN actions : actions[i].slot = s /\ actions[i].node = handle[s]

\* An event that says Signalled has its kernel event signalled, unless it was
\* cancelled in the middle of an earlier signal (the action in IocCtrlEventWait).
SignalledIsTold ==
    \A s \in registered \ overtaken :
        status[s] = "Signalled" /\ ~(pc[Svc] \in {"dereg", "cancelled", "clear"} /\ slot = s)
        => s \in kevent

\* A wait ends: the syncpoint reaches its value and the event is signalled, or
\* the guest cancels (Increment, IocCtrlClearEventWait).
WaitsEnd == \A s \in Slots : status[s] = "Waiting" ~> status[s] # "Waiting"

\* The nvdrv thread returns from every ioctl, also from the wait for a syncpoint
\* (check_failing) and from the guard it shares with the threads that increment.
IoctlsReturn == pc[Svc] # "idle" ~> pc[Svc] = "idle"

\* `Used for waiting on a syncpoint & canceling it': a cancelled event has no
\* action left in the list, beside one that is being run, to mark it later.
CancelledIsDisarmed ==
    \A s \in Slots : status[s] = "Cancelled" /\ pc[Svc] = "idle" =>
        \A i \in DOMAIN actions : actions[i].slot = s => i = 1 /\ guard \in Incs

\* ASSERT(!event.IsBeingUsed()) in FreeNvEvent: a thread about to signal an
\* event finds it registered.
FreedIsUnused ==
    \A t \in Incs \cup {Svc} : pc[t] = "signal" => SlotOf(t) \in registered
=============================================================================
