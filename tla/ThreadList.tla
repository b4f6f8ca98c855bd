----------------------------- MODULE ThreadList -----------------------------
(***************************************************************************)
(* The waiter lists of KSynchronizationObject, pointer by pointer.         *)
(*                                                                         *)
(* Each object has a singly linked list (m_thread_list_head, _tail) of     *)
(* ThreadListNodes.  The nodes are on the stack of the waiting thread, one *)
(* for each position of its object array, so the same thread is in the     *)
(* list twice if it names the object twice.  NotifyAvailable walks a list  *)
(* while the threads it meets unlink their nodes from it, and goes on from *)
(* the node it stands on after that node has been unlinked.                *)
(*                                                                         *)
(* The scheduler lock is held throughout an operation: op is the operation *)
(* in progress, and its steps are the iterations of the loops.             *)
(***************************************************************************)
EXTENDS Integers, Sequences, FiniteSets, SequencesExt

CONSTANTS
    Threads,        \* KThread objects
    Objects,        \* KSynchronizationObject objects
    WaitLists,      \* the object arrays passed to Wait
    None            \* nullptr

NoneAssumption == None \notin Threads
WaitListsAssumption == WaitLists \subseteq Seq(Objects) \ {<<>>}

Nodes == Threads \X (1 .. Max({Len(l) : l \in WaitLists}))

VARIABLES
    head,       \* head[o]: m_thread_list_head
    tail,       \* tail[o]: m_thread_list_tail
    next,       \* next[n]: ThreadListNode::next
    objects,    \* objects[t]: the array of the Wait that t sleeps in, or <<>>
    op          \* the operation in progress: kind, thread and position of its
                \* node loop, and the object and node of NotifyAvailable's walk

vars == <<head, tail, next, objects, op>>

Idle == [kind |-> "Idle", thread |-> None, i |-> 0, walk |-> None, cur |-> None]

TypeOK ==
    /\ head \in [Objects -> Nodes \cup {None}]
    /\ tail \in [Objects -> Nodes \cup {None}]
    /\ next \in [Nodes -> Nodes \cup {None}]
    /\ objects \in [Threads -> WaitLists \cup {<<>>}]
    /\ op \in [kind : {"Idle", "Link", "Unlink", "Notify", "Return"},
               thread : Threads \cup {None}, i : Nat,
               walk : Objects \cup {None}, cur : Nodes \cup {None}]
    /\ op.kind \in {"Link", "Unlink"} => op.i \in DOMAIN objects[op.thread]

Init ==
    /\ head = [o \in Objects |-> None]
    /\ tail = [o \in Objects |-> None]
    /\ next = [n \in Nodes |-> None]
    /\ objects = [t \in Threads |-> <<>>]
    /\ op = Idle
-----------------------------------------------------------------------------
\* The nodes that a search from n meets.
RECURSIVE Walk(_)
Walk(n) == IF n = None THEN <<>> ELSE <<n>> \o Walk(next[n])

NodesOf(o) == Walk(head[o])

LinkNode(o, n) ==
    /\ IF tail[o] = None
       THEN /\ head' = [head EXCEPT ![o] = n]
            /\ next' = [next EXCEPT ![n] = None]
       ELSE /\ next' = [next EXCEPT ![n] = None, ![tail[o]] = n]
            /\ UNCHANGED head
    /\ tail' = [tail EXCEPT ![o] = n]

\* The search for n's predecessor starts at the head pointer itself: the first
\* node has a link to change but no predecessor node (tail_prev is null).  The
\* unlinked node keeps its next pointer.
UnlinkNode(o, n) ==
    LET at == SelectInSeq(NodesOf(o), LAMBDA m : m = n)
        prev == IF at = 1 THEN None ELSE NodesOf(o)[at - 1]
    IN  /\ at # 0
        /\ IF at = 1
           THEN head' = [head EXCEPT ![o] = next[n]] /\ UNCHANGED next
           ELSE next' = [next EXCEPT ![prev] = next[n]] /\ UNCHANGED head
        /\ tail' = IF tail[o] = n THEN [tail EXCEPT ![o] = prev] ELSE tail
-----------------------------------------------------------------------------
\* Wait adds the waiters.
BeginWait(t, objs) ==
    /\ op = Idle
    /\ objects[t] = <<>>
    /\ objects' = [objects EXCEPT ![t] = objs]
    /\ op' = [Idle EXCEPT !.kind = "Link", !.thread = t, !.i = 1]
    /\ UNCHANGED <<head, tail, next>>

\* Mutant: the last object of the array is left out.
LinkAllButLast ==
    /\ op.kind = "Link"
    /\ LinkNode(objects[op.thread][op.i], <<op.thread, op.i>>)
    /\ op' = IF op.i + 1 >= Len(objects[op.thread]) THEN Idle ELSE [op EXCEPT !.i = @ + 1]
    /\ UNCHANGED objects

LinkStep ==
    /\ op.kind = "Link"
    /\ LinkNode(objects[op.thread][op.i], <<op.thread, op.i>>)
    /\ op' = IF op.i = Len(objects[op.thread]) THEN Idle ELSE [op EXCEPT !.i = @ + 1]
    /\ UNCHANGED objects

\* CancelWait of the wait queue: a time-out, a cancellation or a termination.
BeginCancel(t) ==
    /\ op = Idle
    /\ objects[t] # <<>>
    /\ op' = [Idle EXCEPT !.kind = "Unlink", !.thread = t, !.i = 1]
    /\ UNCHANGED <<head, tail, next, objects>>

\* The loops over the nodes in the queue's CancelWait and NotifyAvailable.  With
\* the last one the wait ends; NotifyAvailable's walk takes the next node.
UnlinkStep ==
    /\ op.kind = "Unlink"
    /\ UnlinkNode(objects[op.thread][op.i], <<op.thread, op.i>>)
    /\ IF op.i < Len(objects[op.thread])
       THEN /\ op' = [op EXCEPT !.i = @ + 1]
            /\ UNCHANGED objects
       ELSE /\ objects' = [objects EXCEPT ![op.thread] = <<>>]
            /\ op' = IF op.walk = None THEN [Idle EXCEPT !.kind = "Return"]
                     ELSE [op EXCEPT !.kind = "Notify", !.thread = None, !.i = 0,
                                     !.cur = next'[@]]

\* NotifyAvailable of an object that is signaled.
BeginNotify(o) ==
    /\ op = Idle
    /\ op' = [Idle EXCEPT !.kind = "Notify", !.walk = o, !.cur = head[o]]
    /\ UNCHANGED <<head, tail, next, objects>>

\* One node of the walk: KThread::NotifyAvailable does nothing to a thread that
\* no longer waits.
NotifyStep ==
    /\ op.kind = "Notify"
    /\ op' = IF op.cur = None THEN [Idle EXCEPT !.kind = "Return"]
             ELSE IF objects[op.cur[1]] = <<>> THEN [op EXCEPT !.cur = next[@]]
             ELSE [op EXCEPT !.kind = "Unlink", !.thread = op.cur[1], !.i = 1]
    /\ UNCHANGED <<head, tail, next, objects>>

\* The scheduler lock is released: the woken threads return from Wait, and the
\* nodes on their stacks are gone.
Return ==
    /\ op.kind = "Return"
    /\ next' = [n \in Nodes |-> IF objects[n[1]] = <<>> THEN None ELSE next[n]]
    /\ op' = Idle
    /\ UNCHANGED <<head, tail, objects>>

Step == LinkStep \/ UnlinkStep \/ NotifyStep \/ Return

Next ==
    \/ \E t \in Threads, objs \in WaitLists : BeginWait(t, objs)
    \/ \E t \in Threads : BeginCancel(t)
    \/ \E o \in Objects : BeginNotify(o)
    \/ Step

\* A loop under the scheduler lock keeps going.
Fairness == WF_vars(Step)

Spec == Init /\ [][Next]_vars /\ Fairness
-----------------------------------------------------------------------------
\* Between operations, each object's list holds exactly the nodes of the threads
\* now waiting for it, once each, and its last node is the tail: no node of a
\* thread that has returned from Wait (its stack frame is gone) is left in any
\* list, even when Wait was given the same object twice.
ListsWellFormed ==
    op = Idle =>
        \A o \in Objects :
            LET path == NodesOf(o)
            IN  /\ ToSet(path) = {n \in Nodes : n[2] \in DOMAIN objects[n[1]]
                                                /\ objects[n[1]][n[2]] = o}
                /\ Len(path) = Cardinality(ToSet(path))
                /\ tail[o] = IF path = <<>> THEN None ELSE path[Len(path)]

\* UnlinkNode's search, which has no end test, always meets the node it looks
\* for (it would follow a null pointer otherwise).
UnlinkFindsNode ==
    op.kind = "Unlink" =>
        <<op.thread, op.i>> \in ToSet(NodesOf(objects[op.thread][op.i]))

\* When NotifyAvailable ends, no thread waits for the object any more: the walk
\* over a list that shrinks under it skips nobody.
NotifyReachesAll ==
    [][op.walk # None /\ op'.walk = None =>
          \A t \in Threads : op.walk \notin ToSet(objects'[t])]_vars

\* Every operation on the lists ends.
OperationsEnd == op # Idle ~> op = Idle
=============================================================================
