------------------------------- MODULE PageMap -------------------------------
(***************************************************************************)
(* What a page table promises about its pages, whatever the blocks it      *)
(* keeps them in: an operation changes each page of its range and no       *)
(* other, and is allowed by what those pages are.                          *)
(***************************************************************************)
EXTENDS Integers, FiniteSets, Bags, BagsExt

CONSTANTS FirstPage, EndPage, MaxLocks

VARIABLES pages, locks      \* each page; the locks that are held, a bag

Attrs == {"Locked", "IpcLocked", "DeviceShared", "Uncached"}
Pages == FirstPage .. EndPage - 1
FreePage == [state |-> "Free", perm |-> "None", orig |-> "None", attr |-> {}, ipc |-> 0, dev |-> 0]

\* The first page is the program's, below every other region.
CodePage == [FreePage EXCEPT !.state = "Code", !.perm = "R"]

Init == pages = [x \in Pages |-> IF x = FirstPage THEN CodePage ELSE FreePage] /\ locks = EmptyBag

Each(r, Becomes(_)) ==
    LET p == pages IN pages' = [x \in Pages |-> IF x \in r THEN Becomes(p[x]) ELSE p[x]]

\* Every page of the range is mapped with one permission.
Uniform(r) ==
    LET p == pages IN \A x, y \in r : p[x].state = "Normal" /\ p[x].perm = p[y].perm
Without(r, attrs) == LET p == pages IN \A x \in r : p[x].attr \cap attrs = {}

Map(r) ==
    /\ UNCHANGED locks
    /\ Each(r, LAMBDA p : IF p.state # "Free" THEN p
                          ELSE [p EXCEPT !.state = "Normal", !.perm = "RW"])

Unmap(r) ==
    /\ UNCHANGED locks /\ Without(r, Attrs)
    /\ Each(r, LAMBDA p : FreePage)

Protect(r, perm) ==
    /\ UNCHANGED locks /\ Uniform(r) /\ Without(r, Attrs)
    /\ Each(r, LAMBDA p : [p EXCEPT !.perm = perm])

Cache(r, attr) ==
    /\ UNCHANGED locks /\ Uniform(r) /\ Without(r, {"Locked", "IpcLocked"})
    /\ Each(r, LAMBDA p : [p EXCEPT !.attr = (@ \ {"Uncached"}) \cup attr])

Locked(p, l) ==
    CASE l.kind = "transfer" -> [p EXCEPT !.perm = l.perm, !.attr = {"Locked"}]
      [] l.kind = "device" -> [p EXCEPT !.dev = @ + 1, !.attr = @ \cup {"DeviceShared"}]
      [] l.kind = "ipc" -> [p EXCEPT !.ipc = @ + 1, !.attr = @ \cup {"IpcLocked"},
                                     !.orig = IF p.ipc = 0 THEN p.perm ELSE @,
                                     !.perm = IF p.ipc > 0 THEN @
                                              ELSE IF l.perm = "RW" THEN "KernelRW" ELSE "R"]

Unlocked(p, l) ==
    CASE l.kind = "transfer" -> [p EXCEPT !.perm = "RW", !.attr = {}]
      [] l.kind = "device" -> [p EXCEPT !.dev = @ - 1,
                                        !.attr = IF p.dev = 1 THEN @ \ {"DeviceShared"} ELSE @]
      [] l.kind = "ipc" -> IF p.ipc > 1 THEN [p EXCEPT !.ipc = @ - 1]
                           ELSE [p EXCEPT !.ipc = 0, !.attr = @ \ {"IpcLocked"},
                                          !.perm = p.orig, !.orig = "None"]

Lock(r, l) ==
    /\ BagCardinality(locks) < MaxLocks /\ locks' = BagAdd(locks, l)
    /\ Each(r, LAMBDA p : Locked(p, l))

Unlock(r, l) ==
    /\ locks' = BagRemove(locks, l)
    /\ Each(r, LAMBDA p : Unlocked(p, l))

Next ==
    \/ \E lo \in Pages \ {FirstPage} : \E hi \in lo + 1 .. EndPage : LET r == lo .. hi - 1 IN
        \/ Map(r) \/ Unmap(r)
        \/ \E perm \in {"RW", "R", "NotMapped"} : Protect(r, perm)
        \/ \E attr \in {{}, {"Uncached"}} : Cache(r, attr)
        \/ \E l \in [kind : {"transfer", "device", "ipc"}, lo : {lo}, hi : {hi},
                     perm : {"RW", "R", "NotMapped"},
                     mask : SUBSET {"Uncached", "DeviceShared", "Locked"}] :
            Lock(r, l)
    \/ \E l \in BagToSet(locks) : Unlock(l.lo .. l.hi - 1, l)

Spec == Init /\ [][Next]_<<pages, locks>>
=============================================================================
