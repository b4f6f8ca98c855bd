---------------------------- MODULE KHandleTable ----------------------------
(***************************************************************************)
(* KHandleTable and the reference counts of KAutoObject: threads create    *)
(* objects and add them, reserve entries and register them later, look     *)
(* handles up and remove them, while the process finalizes its table.      *)
(*                                                                         *)
(* A handle is its index and linear id; the entry of the index holds the   *)
(* linear id or, in the same field (a union), the next free index.  Open   *)
(* and Close are atomic: they retry until their exchange succeeds.         *)
(***************************************************************************)
EXTENDS Integers, Sequences, FiniteSets

CONSTANTS Threads, Objects, TableSize, MinLinearId, MaxLinearId, MaxHandles

TableAssumption ==
    /\ TableSize \in Nat \ {0} /\ MaxHandles \in Nat
    /\ MinLinearId = 1 /\ MaxLinearId \in Nat \ {0}

Null == "none"
Indices == 0 .. TableSize - 1
Ids == 0 .. MaxLinearId
NoHandle == [index |-> 0, id |-> 0]

VARIABLES
    size, count, freeHead, nextLinearId,    \* m_table_size, m_count, ...
    entryInfo, objects,     \* m_entry_infos, m_objects
    refs, made,     \* m_ref_count; the objects created so far
    pc, obj, handle,    \* the call of each thread, its object and handle
    closing,        \* the entries Finalize has closed; TableSize + 1 before it
    given,          \* (history) handles returned, with their objects
    handles         \* (history) number of handles made

tableVars == <<size, count, freeHead, nextLinearId, entryInfo, objects>>
callVars == <<pc, obj, handle>>
historyVars == <<given, handles>>
vars == <<tableVars, refs, made, callVars, closing, historyVars>>

NotFinal == TableSize + 1

TypeOK ==
    /\ size \in {0, TableSize} /\ count \in 0 .. TableSize
    /\ freeHead \in Indices \cup {-1} /\ nextLinearId \in 1 .. MaxLinearId
    /\ entryInfo \in [Indices -> -1 .. MaxLinearId + TableSize]
    /\ objects \in [Indices -> Objects \cup {Null}]
    /\ refs \in [Objects -> 0 .. Cardinality(Threads) + TableSize + 1] /\ made \subseteq Objects
    /\ pc \in [Threads -> {"idle", "created", "reserved", "register", "close"}]
    /\ obj \in [Threads -> Objects \cup {Null}]
    /\ handle \in [Threads -> [index : Indices, id : Ids]]
    /\ closing \in 0 .. NotFinal /\ handles \in 0 .. MaxHandles
    /\ given \subseteq [index : Indices, id : Ids, obj : Objects]

Init ==
    /\ size = TableSize /\ count = 0 /\ freeHead = TableSize - 1 /\ nextLinearId = MinLinearId
    /\ entryInfo = [i \in Indices |-> i - 1] /\ objects = [i \in Indices |-> Null]
    /\ refs = [o \in Objects |-> 0] /\ made = {}
    /\ pc = [t \in Threads |-> "idle"] /\ obj = [t \in Threads |-> Null]
    /\ handle = [t \in Threads |-> NoHandle]
    /\ closing = NotFinal /\ given = {} /\ handles = 0
-----------------------------------------------------------------------------
(***************************************************************************)
(* The parts, each under m_lock.                                           *)
(***************************************************************************)

NextId(id) == IF id + 1 > MaxLinearId THEN MinLinearId ELSE id + 1

HasEntry == count < size

AllocateEntry ==
    /\ freeHead' = entryInfo[freeHead]
    /\ count' = count + 1
    /\ nextLinearId' = NextId(nextLinearId)
    /\ handles' = handles + 1

FreeEntry(i) ==
    /\ objects' = [objects EXCEPT ![i] = Null]
    /\ entryInfo' = [entryInfo EXCEPT ![i] = freeHead]
    /\ freeHead' = i
    /\ count' = count - 1

\* Mutant: the linear id is not compared.
IsValidIndex(h) == h.id # 0 /\ h.index < size /\ objects[h.index] # Null

IsValidHandle(h) ==
    /\ h.id # 0 /\ h.index < size
    /\ objects[h.index] # Null
    /\ entryInfo[h.index] = h.id

SetEntry(h, o) ==
    /\ entryInfo' = [entryInfo EXCEPT ![h.index] = h.id]
    /\ objects' = [objects EXCEPT ![h.index] = o]
    /\ given' = {g \in given : g.index # h.index \/ g.id # h.id}
                    \cup {[index |-> h.index, id |-> h.id, obj |-> o]}

\* Only a positive count is raised.
Opened(o) == refs' = IF refs[o] = 0 THEN refs ELSE [refs EXCEPT ![o] = @ + 1]

Goto(t, l, o, h) ==
    /\ pc' = [pc EXCEPT ![t] = l]
    /\ obj' = [obj EXCEPT ![t] = o]
    /\ handle' = [handle EXCEPT ![t] = h]
-----------------------------------------------------------------------------
(***************************************************************************)
(* A call creates an object and adds it, or reserves a handle, creates the *)
(* object, and registers it; the creator's own reference is closed last.   *)
(***************************************************************************)

NewObject(o) == made' = made \cup {o} /\ refs' = [refs EXCEPT ![o] = 1]

Create(t, o) ==
    /\ pc[t] = "idle" /\ o \notin made
    /\ NewObject(o)
    /\ Goto(t, "created", o, NoHandle)
    /\ UNCHANGED <<tableVars, closing, historyVars>>

Added(o) == Opened(o)

Add(t) ==
    /\ pc[t] = "created"
    /\ IF HasEntry
       THEN /\ handles < MaxHandles
            /\ AllocateEntry
            /\ SetEntry([index |-> freeHead, id |-> nextLinearId], obj[t])
            /\ Added(obj[t])
       ELSE UNCHANGED <<count, freeHead, nextLinearId, entryInfo, objects, refs, historyVars>>
    /\ Goto(t, "close", obj[t], NoHandle)
    /\ UNCHANGED <<size, made, closing>>

\* The entry keeps what it held: an index, until the object is registered.
Reserve(t) ==
    /\ pc[t] = "idle" /\ HasEntry /\ handles < MaxHandles
    /\ AllocateEntry
    /\ Goto(t, "reserved", Null, [index |-> freeHead, id |-> nextLinearId])
    /\ UNCHANGED <<size, entryInfo, objects, refs, made, closing, given>>

CreateReserved(t, o) ==
    /\ pc[t] = "reserved" /\ o \notin made
    /\ NewObject(o)
    /\ Goto(t, "register", o, handle[t])
    /\ UNCHANGED <<tableVars, closing, historyVars>>

\* The object could not be made.
Unreserve(t) ==
    /\ pc[t] = "reserved"
    /\ IF handle[t].index < size THEN FreeEntry(handle[t].index)
       ELSE UNCHANGED <<count, freeHead, entryInfo, objects>>
    /\ Goto(t, "idle", Null, NoHandle)
    /\ UNCHANGED <<size, nextLinearId, refs, made, closing, historyVars>>

Register(t) ==
    /\ pc[t] = "register"
    /\ IF handle[t].index < size
       THEN SetEntry(handle[t], obj[t]) /\ Opened(obj[t])
       ELSE UNCHANGED <<entryInfo, objects, refs, given>>
    /\ Goto(t, "close", obj[t], NoHandle)
    /\ UNCHANGED <<size, count, freeHead, nextLinearId, made, closing, handles>>

(***************************************************************************)
(* Handles from the guest, of any value.                                   *)
(***************************************************************************)

\* The reference of the table passes to the thread, which closes it without
\* the lock.
Remove(t, h) ==
    /\ pc[t] = "idle" /\ IsValidHandle(h)
    /\ FreeEntry(h.index)
    /\ Goto(t, "close", objects[h.index], NoHandle)
    /\ UNCHANGED <<size, nextLinearId, refs, made, closing, historyVars>>

GetObject(t, h) ==
    /\ pc[t] = "idle" /\ IsValidHandle(h)
    /\ Opened(objects[h.index])
    /\ Goto(t, "close", objects[h.index], NoHandle)
    /\ UNCHANGED <<tableVars, made, closing, historyVars>>

\* The end of a call: the last reference destroys the object.
Close(t) ==
    /\ pc[t] = "close"
    /\ refs' = [refs EXCEPT ![obj[t]] = @ - 1]
    /\ Goto(t, "idle", Null, NoHandle)
    /\ UNCHANGED <<tableVars, made, closing, historyVars>>

(***************************************************************************)
(* Finalize takes the size away first and closes the entries unlocked.     *)
(***************************************************************************)

FinalSize == 0

Finalize ==
    /\ closing = NotFinal
    /\ closing' = 0 /\ size' = FinalSize
    /\ UNCHANGED <<count, freeHead, nextLinearId, entryInfo, objects, refs, made, callVars,
                   historyVars>>

FinalizeEntry ==
    /\ closing < TableSize
    /\ refs' = IF objects[closing] = Null THEN refs
               ELSE [refs EXCEPT ![objects[closing]] = @ - 1]
    /\ closing' = closing + 1
    /\ UNCHANGED <<tableVars, made, callVars, historyVars>>
-----------------------------------------------------------------------------
Next ==
    \/ \E t \in Threads :
        \/ \E o \in Objects : Create(t, o) \/ CreateReserved(t, o)
        \/ Add(t) \/ Reserve(t) \/ Unreserve(t) \/ Register(t) \/ Close(t)
        \/ \E h \in [index : Indices, id : Ids] : Remove(t, h) \/ GetObject(t, h)
    \/ Finalize \/ FinalizeEntry

Spec == Init /\ [][Next]_vars
-----------------------------------------------------------------------------
Reserved == {handle[t].index : t \in {u \in Threads : pc[u] \in {"reserved", "register"}}}

\* The free list, kept in the field of the linear ids, holds exactly the entries
\* that no object and no reservation has, each once (AllocateEntry, FreeEntry).
FreeListSound ==
    size > 0 =>
        LET free == {i \in Indices : objects[i] = Null} \ Reserved
            n == Cardinality(free)
            list[k \in 0 .. TableSize] ==
                IF k = 0 THEN freeHead
                ELSE LET i == list[k - 1] IN IF i \in Indices THEN entryInfo[i] ELSE -1
        IN  /\ {list[k] : k \in 0 .. n - 1} = free /\ list[n] = -1
            /\ count = TableSize - n

\* An object has as many references as entries and calls have it; after Finalize
\* and the calls there are none (Add, Register, Remove, Finalize, Close).
RefsMatch ==
    \A o \in Objects : refs[o] =
        Cardinality({i \in Indices : objects[i] = o /\ (closing = NotFinal \/ i >= closing)})
        + Cardinality({t \in Threads : obj[t] = o})

\* A handle that resolves gives the object it was returned for, not one that
\* has its entry now (the linear id in IsValidHandle).
ResolvesToOwn ==
    \A g \in given : IsValidHandle(g) => objects[g.index] = g.obj

\* An entry with an object can be reached through its handle, also when the
\* linear ids start again (AllocateLinearId).
EntryReachable ==
    size > 0 => \A i \in Indices : objects[i] # Null =>
        IsValidHandle([index |-> i, id |-> entryInfo[i]])
=============================================================================
