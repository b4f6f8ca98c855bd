------------------------- MODULE KMemoryBlockManager -------------------------
(***************************************************************************)
(* KMemoryBlockManager: the pages of a process as a sequence of blocks of  *)
(* equal pages, which updates split and coalesce, with the operations of   *)
(* KPageTableBase that change it.  Each operation holds the lock of the    *)
(* table, a light lock that excludes the others as long as no termination  *)
(* request reaches a thread that waits for it: it checks the blocks of its *)
(* range, reserves the blocks it will need and updates.                    *)
(*                                                                         *)
(* Addresses count pages.  Flags of a block's field `dis' forbid merging   *)
(* at its left or right edge; the update loop, which handles one block at  *)
(* a time and depends on no other, is written as a map over the blocks.    *)
(***************************************************************************)
EXTENDS Integers, Sequences, SequencesExt, Bags, BagsExt

CONSTANTS FirstPage, EndPage, MaxLocks,
          Calls     \* the kinds of operations a run has

VARIABLES blocks,       \* m_memory_block_tree, in the order of addresses
          locks,        \* the locks callers hold, a bag
          overdraft     \* whether the last update needed more blocks than it had reserved

vars == <<blocks, locks, overdraft>>

AllLeft == {"Normal", "DeviceLeft", "IpcLeft", "Locked"}
AllRight == {"DeviceRight"}
Perms == {"None", "RW", "R", "NotMapped", "KernelRW"}
Attrs == {"Locked", "IpcLocked", "DeviceShared", "Uncached"}
EndOf(b) == b.addr + b.n

TypeOK ==
    /\ \A i \in DOMAIN blocks : LET b == blocks[i] IN
        /\ b.addr \in FirstPage .. EndPage - 1 /\ b.n \in 1 .. EndPage - FirstPage
        /\ b.state \in {"Code", "Free", "Normal"} /\ b.perm \in Perms /\ b.orig \in Perms
        /\ b.attr \subseteq Attrs /\ b.dis \subseteq AllLeft \cup AllRight
        /\ {b.ipc, b.dev, b.ipcMerge, b.devL, b.devR} \subseteq 0 .. MaxLocks
    /\ IsABag(locks) /\ BagCardinality(locks) <= MaxLocks
    /\ overdraft \in BOOLEAN

NewBlock(addr, n, s, p) ==
    [addr |-> addr, n |-> n, state |-> s, perm |-> p, orig |-> "None", attr |-> {}, ipc |-> 0,
     dev |-> 0, ipcMerge |-> 0, devL |-> 0, devR |-> 0, dis |-> {}]

\* The program is mapped at the first page before it runs; the region of the
\* operations follows.
RegionStart == FirstPage + 1

Init ==
    /\ blocks = <<NewBlock(FirstPage, 1, "Code", "R"),
                  NewBlock(RegionStart, EndPage - RegionStart, "Free", "None")>>
    /\ locks = EmptyBag /\ overdraft = FALSE
-----------------------------------------------------------------------------
(***************************************************************************)
(* KMemoryBlock.                                                           *)
(***************************************************************************)

Ignored == {"IpcLocked", "DeviceShared"}

HasProperties(b, s, p, a) == b.state = s /\ b.perm = p /\ b.attr \cup Ignored = a \cup Ignored

Properties(b) == <<b.state, b.perm, b.orig, b.attr, b.ipc, b.dev>>

CanMergeWith(b, c) ==
    Properties(b) = Properties(c) /\ b.dis \cap AllRight = {} /\ c.dis \cap AllLeft = {}

Merged(b, c) == [b EXCEPT !.n = @ + c.n, !.dis = @ \cup c.dis, !.devR = c.devR]

Split(b, a) ==
    << [b EXCEPT !.n = a - b.addr, !.dis = @ \cap AllLeft, !.devR = 0],
       [b EXCEPT !.addr = a, !.n = EndOf(b) - a, !.ipcMerge = 0, !.devL = 0,
                 !.dis = @ \cap AllRight] >>

\* Update of a block; the flags are set in the first block of the range only.
BlockUpdate(b, s, p, a, set, clear) ==
    [b EXCEPT !.state = s, !.perm = p, !.attr = a \cup (@ \cap Ignored),
              !.dis = (@ \cup set) \ clear]

LockForIpc(b, perm, left, right) ==
    [b EXCEPT !.ipc = @ + 1,
              !.orig = IF b.ipc = 0 THEN b.perm ELSE @,
              !.perm = IF b.ipc = 0 THEN perm ELSE @,
              !.attr = @ \cup {"IpcLocked"},
              !.dis = IF left THEN @ \cup {"IpcLeft"} ELSE @,
              !.ipcMerge = IF left THEN @ + 1 ELSE @]

\* Mutant: the first unlock gives the permission back.
UnlockForIpcAtOnce(b, left, right) ==
    [b EXCEPT !.ipc = @ - 1, !.perm = b.orig, !.orig = "None", !.attr = @ \ {"IpcLocked"},
              !.dis = IF left /\ b.ipcMerge = 1 THEN @ \ {"IpcLeft"} ELSE @,
              !.ipcMerge = IF left THEN @ - 1 ELSE @]

UnlockForIpc(b, left, right) ==
    LET last == b.ipc = 1 IN
    [b EXCEPT !.ipc = @ - 1,
              !.perm = IF last THEN b.orig ELSE @,
              !.orig = IF last THEN "None" ELSE @,
              !.attr = IF last THEN @ \ {"IpcLocked"} ELSE @,
              !.dis = IF left /\ b.ipcMerge = 1 THEN @ \ {"IpcLeft"} ELSE @,
              !.ipcMerge = IF left THEN @ - 1 ELSE @]

ShareToDevice(b, left, right) ==
    [b EXCEPT !.dev = @ + 1, !.attr = @ \cup {"DeviceShared"},
              !.devL = IF left THEN @ + 1 ELSE @, !.devR = IF right THEN @ + 1 ELSE @,
              !.dis = @ \cup (IF left THEN {"DeviceLeft"} ELSE {})
                        \cup (IF right THEN {"DeviceRight"} ELSE {})]

UnshareToDevice(b, left, right) ==
    LET dev == b.dev - 1
        stays == left /\ b.devL = 0
        l == b.devL - IF left THEN 1 ELSE 0
        devL == IF stays THEN b.devL ELSE IF l < dev THEN l ELSE dev
    IN  [b EXCEPT !.dev = dev, !.attr = IF dev = 0 THEN @ \ {"DeviceShared"} ELSE @,
                  !.devL = devL, !.devR = IF right THEN @ - 1 ELSE @,
                  !.dis = @ \ ((IF ~stays /\ devL = 0 THEN {"DeviceLeft"} ELSE {})
                               \cup (IF right /\ b.devR = 1 THEN {"DeviceRight"} ELSE {}))]
-----------------------------------------------------------------------------
(***************************************************************************)
(* KMemoryBlockManager.                                                    *)
(***************************************************************************)

\* One block of the loop: what is before and after the range is split off.
Cut(b, lo, hi, Change(_)) ==
    LET front == IF b.addr < lo THEN Split(b, lo) ELSE <<b>>
        back == IF EndOf(Last(front)) > hi THEN Split(Last(front), hi) ELSE <<Last(front)>>
    IN  Front(front) \o <<Change(Head(back))>> \o Tail(back)

Walk(lo, hi, Needs(_), Change(_)) ==
    FlattenSeq([i \in DOMAIN blocks |->
        IF blocks[i].addr < hi /\ lo < EndOf(blocks[i]) /\ Needs(blocks[i])
        THEN Cut(blocks[i], lo, hi, Change) ELSE <<blocks[i]>>])

FirstToMerge(bs, lo) ==
    LET i == SelectInSeq(bs, LAMBDA b : lo < EndOf(b)) IN IF lo = FirstPage THEN i ELSE i - 1

RECURSIVE MergeFrom(_, _, _)
MergeFrom(bs, i, hi) ==
    IF i = Len(bs) THEN bs
    ELSE LET merge == CanMergeWith(bs[i], bs[i + 1])
             next == IF merge THEN [RemoveAt(bs, i + 1) EXCEPT ![i] = Merged(bs[i], bs[i + 1])]
                     ELSE bs
             j == IF merge THEN i ELSE i + 1
         IN  IF hi < EndOf(next[j]) THEN next ELSE MergeFrom(next, j, hi)

CoalesceForUpdate(bs, lo, hi) == MergeFrom(bs, FirstToMerge(bs, lo), hi)

\* The blocks after the loop, with as many reserved as the caller had found needed.
Updated(lo, hi, walked, reserved) ==
    /\ blocks' = CoalesceForUpdate(walked, lo, hi)
    /\ overdraft' = (Len(walked) - Len(blocks) > reserved)

Update(lo, hi, s, p, a, set, clear, reserved) ==
    Updated(lo, hi, Walk(lo, hi, LAMBDA b : ~HasProperties(b, s, p, a),
        LAMBDA b : BlockUpdate(b, s, p, a, IF b.addr = lo THEN set ELSE {}, clear)), reserved)

UpdateIfMatch(lo, hi, ts, tp, ta, s, p, a, reserved) ==
    Updated(lo, hi, Walk(lo, hi,
        LAMBDA b : HasProperties(b, ts, tp, ta) /\ ~HasProperties(b, s, p, a),
        LAMBDA b : BlockUpdate(b, s, p, a, {}, {})), reserved)

BlockUpdateAttribute(b, mask, attr) == [b EXCEPT !.attr = (@ \ mask) \cup attr]

UpdateAttribute(lo, hi, mask, attr, reserved) ==
    Updated(lo, hi, Walk(lo, hi, LAMBDA b : b.attr \cap mask # attr,
        LAMBDA b : BlockUpdateAttribute(b, mask, attr)), reserved)

UpdateLock(lo, hi, Func(_, _, _), reserved) ==
    Updated(lo, hi, Walk(lo, hi, LAMBDA b : TRUE,
        LAMBDA b : Func(b, b.addr = lo, EndOf(b) = hi)), reserved)

AlignFrom(from, align, offset) ==
    LET aligned == (from \div align) * align + offset
    IN  IF from <= aligned THEN aligned ELSE aligned + align

\* The first free area of n pages with `guard' more on both sides, at a
\* multiple of `align' plus `offset'; 0 when there is none.
FindFreeArea(start, end, n, align, offset, guard) ==
    LET Area(b) == AlignFrom((IF b.addr <= start THEN start ELSE b.addr) + guard, align, offset)
        Fits(b) == /\ b.state = "Free" /\ start < EndOf(b) /\ b.addr < end
                   /\ b.addr <= Area(b) /\ Area(b) + n + guard <= end /\ Area(b) + n + guard <= EndOf(b)
        i == SelectInSeq(blocks, Fits)
    IN  IF n = 0 \/ i = 0 THEN 0 ELSE Area(blocks[i])
-----------------------------------------------------------------------------
(***************************************************************************)
(* KPageTableBase.  In the range of pages lo .. hi - 1:                    *)
(***************************************************************************)

In(lo, hi) == {blocks[i] : i \in {j \in DOMAIN blocks : blocks[j].addr < hi /\ lo < EndOf(blocks[j])}}

\* CheckMemoryState: mapped, with the attributes `attr' of `mask', and all
\* alike but for the attributes to ignore.
CheckMemoryState(lo, hi, mask, attr, ignore) ==
    /\ \A b \in In(lo, hi) : b.state = "Normal" /\ b.attr \cap mask = attr
    /\ \A b, c \in In(lo, hi) : b.perm = c.perm /\ b.attr \cup ignore = c.attr \cup ignore

\* CheckMemoryStateContiguous.
CheckMemoryStateContiguous(lo, hi, mask, attr) ==
    \A b \in In(lo, hi) : b.state = "Normal" /\ b.attr \cap mask = attr

\* Mutant: no block for the end of the range.
NeededAtStart(lo, hi) == IF \E b \in In(lo, hi) : b.addr < lo THEN 1 ELSE 0

NeededBlocks(lo, hi) ==
    (IF \E b \in In(lo, hi) : b.addr < lo THEN 1 ELSE 0)
    + (IF \E b \in In(lo, hi) : EndOf(b) > hi THEN 1 ELSE 0)

\* The same, of blocks in one state only.
NeededOfState(lo, hi, s) ==
    (IF \E b \in In(lo, hi) : b.state = s /\ b.addr < lo THEN 1 ELSE 0)
    + (IF \E b \in In(lo, hi) : b.state = s /\ EndOf(b) > hi THEN 1 ELSE 0)

MapPhysicalMemory(lo, hi) ==
    /\ "map" \in Calls /\ \E b \in In(lo, hi) : b.state = "Free"
    /\ UpdateIfMatch(lo, hi, "Free", "None", {}, "Normal", "RW", {}, NeededOfState(lo, hi, "Free"))
    /\ UNCHANGED locks

UnmapPhysicalMemory(lo, hi) ==
    /\ "map" \in Calls /\ \E b \in In(lo, hi) : b.state = "Normal"
    /\ \A b \in In(lo, hi) : b.state = "Normal" => b.attr = {}
    /\ Update(lo, hi, "Free", "None", {}, {},
              IF lo = RegionStart /\ blocks[2].state = "Normal" THEN {"Normal"} ELSE {},
              NeededOfState(lo, hi, "Normal"))
    /\ UNCHANGED locks

SetMemoryPermission(lo, hi, perm) ==
    /\ "permission" \in Calls
    /\ CheckMemoryState(lo, hi, Attrs, {}, Ignored) /\ \A b \in In(lo, hi) : b.perm # perm
    /\ Update(lo, hi, "Normal", perm, {}, {}, {}, NeededBlocks(lo, hi))
    /\ UNCHANGED locks

SetMemoryAttribute(lo, hi, attr) ==
    /\ "attribute" \in Calls
    /\ CheckMemoryState(lo, hi, {"Locked", "IpcLocked"}, {}, {"Uncached", "DeviceShared"})
    /\ UpdateAttribute(lo, hi, {"Uncached"}, attr, NeededBlocks(lo, hi))
    /\ UNCHANGED locks

NewLock(l) == BagCardinality(locks) < MaxLocks /\ locks' = BagAdd(locks, l)

LockForTransferMemory(l) ==
    /\ CheckMemoryState(l.lo, l.hi, Attrs, {}, Ignored) /\ \A b \in In(l.lo, l.hi) : b.perm = "RW"
    /\ Update(l.lo, l.hi, "Normal", l.perm, {"Locked"}, {"Locked"}, {}, NeededBlocks(l.lo, l.hi))
    /\ NewLock(l)

LockForMapDeviceAddressSpace(l) ==
    /\ CheckMemoryState(l.lo, l.hi, {"IpcLocked", "Locked"}, {}, {"DeviceShared"})
    /\ UpdateLock(l.lo, l.hi, ShareToDevice, NeededBlocks(l.lo, l.hi))
    /\ NewLock(l)

TestIpc(b, l) == b.state = "Normal" /\ b.perm \in {"RW", l.perm} /\ b.attr \cap l.mask = {}

SetupForIpc(l) ==
    /\ \A b \in In(l.lo, l.hi) : TestIpc(b, l)
    /\ UpdateLock(l.lo, l.hi,
            LAMBDA b, left, right :
                LockForIpc(b, IF l.perm = "RW" THEN "KernelRW" ELSE "R", left, right),
            NeededBlocks(l.lo, l.hi))
    /\ NewLock(l)

\* What the three unlocks check.
CanUnlock(l) ==
    CASE l.kind = "transfer" -> CheckMemoryState(l.lo, l.hi, Attrs, {"Locked"}, Ignored)
      [] l.kind = "device" ->
            CheckMemoryStateContiguous(l.lo, l.hi, {"DeviceShared", "Locked"}, {"DeviceShared"})
      [] l.kind = "ipc" ->
            CheckMemoryStateContiguous(l.lo, l.hi, l.mask \cup {"IpcLocked"}, {"IpcLocked"})

UnlockForTransferMemory(l) ==
    /\ CanUnlock(l)
    /\ Update(l.lo, l.hi, "Normal", "RW", {}, {}, {"Locked"}, NeededBlocks(l.lo, l.hi))
    /\ locks' = BagRemove(locks, l)

UnlockForDeviceAddressSpace(l) ==
    /\ CanUnlock(l)
    /\ UpdateLock(l.lo, l.hi, UnshareToDevice, NeededBlocks(l.lo, l.hi))
    /\ locks' = BagRemove(locks, l)

\* No block is reserved.
CleanupForIpcClient(l) ==
    /\ CanUnlock(l)
    /\ UpdateLock(l.lo, l.hi, UnlockForIpc, 0)
    /\ locks' = BagRemove(locks, l)
-----------------------------------------------------------------------------
\* NonSecureIpc and NonDeviceIpc forbid the same attributes, Ipc one more.
IpcMasks == {{"Uncached", "Locked"}, {"Uncached", "Locked", "DeviceShared"}}

NewLocks(kind, lo, hi, perms, masks) ==
    IF kind \in Calls THEN [kind : {kind}, lo : {lo}, hi : {hi}, perm : perms, mask : masks] ELSE {}

Held(kind) == {l \in BagToSet(locks) : l.kind = kind}

Next ==
    \/ \E lo \in RegionStart .. EndPage - 1 : \E hi \in lo + 1 .. EndPage :
        \/ MapPhysicalMemory(lo, hi) \/ UnmapPhysicalMemory(lo, hi)
        \/ \E perm \in {"RW", "R", "NotMapped"} : SetMemoryPermission(lo, hi, perm)
        \/ \E attr \in {{}, {"Uncached"}} : SetMemoryAttribute(lo, hi, attr)
        \/ \E l \in NewLocks("transfer", lo, hi, {"RW", "R", "NotMapped"}, {{}}) :
            LockForTransferMemory(l)
        \/ \E l \in NewLocks("device", lo, hi, {"RW"}, {{}}) : LockForMapDeviceAddressSpace(l)
        \/ \E l \in NewLocks("ipc", lo, hi, {"RW", "R"}, IpcMasks) : SetupForIpc(l)
    \/ \E l \in Held("transfer") : UnlockForTransferMemory(l)
    \/ \E l \in Held("device") : UnlockForDeviceAddressSpace(l)
    \/ \E l \in Held("ipc") : CleanupForIpcClient(l)

Spec == Init /\ [][Next]_vars
-----------------------------------------------------------------------------
\* The pages the blocks stand for.
PagesOf ==
    [x \in FirstPage .. EndPage - 1 |->
        LET b == blocks[SelectInSeq(blocks, LAMBDA c : x < EndOf(c))]
        IN  [state |-> b.state, perm |-> b.perm, orig |-> b.orig, attr |-> b.attr,
             ipc |-> b.ipc, dev |-> b.dev]]

Abstract == INSTANCE PageMap WITH pages <- PagesOf

\* Every operation changes the pages of its range as one page would change,
\* and no other page, however the blocks are split and merged (Update,
\* UpdateIfMatch, UpdateLock, UpdateAttribute, CoalesceForUpdate).
RefinesPages == Abstract!Next \/ UNCHANGED <<PagesOf, locks>>

\* What CheckState tests: blocks follow each other, none could be merged with
\* its neighbour, and locked ones have a count.
CheckState ==
    /\ blocks[1].addr = FirstPage /\ EndOf(Last(blocks)) = EndPage
    /\ \A i \in 1 .. Len(blocks) - 1 :
        EndOf(blocks[i]) = blocks[i + 1].addr /\ ~CanMergeWith(blocks[i], blocks[i + 1])
    /\ \A i \in DOMAIN blocks :
        /\ "IpcLocked" \in blocks[i].attr <=> blocks[i].ipc > 0
        /\ "DeviceShared" \in blocks[i].attr <=> blocks[i].dev > 0

\* An update never needs more blocks than its caller reserved: none, for the
\* end of an IPC (CleanupForIpcClient), though locks overlap.
EnoughBlocks == ~overdraft

\* What is locked can be unlocked: no other operation changes the pages so that
\* the check of the unlock fails (UnlockMemory, UnlockForDeviceAddressSpace,
\* CleanupForIpcClient).
UnlockNeverFails == \A l \in BagToSet(locks) : CanUnlock(l)

CountOf(Test(_)) == BagCardinality([l \in {k \in BagToSet(locks) : Test(k)} |-> locks[l]])

\* The merge counts and flags of a block are those of the locks that begin or
\* end at its edges, so that its pages merge again when the locks are gone
\* (Split, Add, LockForIpc, ShareToDevice and their opposites).
EdgesMatchLocks ==
    \A i \in DOMAIN blocks :
        LET b == blocks[i] IN
        /\ b.ipcMerge = CountOf(LAMBDA l : l.kind = "ipc" /\ l.lo = b.addr)
        /\ b.devL = CountOf(LAMBDA l : l.kind = "device" /\ l.lo = b.addr)
        /\ b.devR = CountOf(LAMBDA l : l.kind = "device" /\ l.hi = EndOf(b))
        /\ "IpcLeft" \in b.dis <=> b.ipcMerge > 0
        /\ "DeviceLeft" \in b.dis <=> b.devL > 0
        /\ "DeviceRight" \in b.dis <=> b.devR > 0
        /\ "Locked" \in b.dis <=> \E l \in Held("transfer") : l.lo = b.addr

\* FindFreeArea returns the first place where the pages and their guards are
\* free, and none only when there is none.
FindFreeAreaIsFirst ==
    LET free == {x \in FirstPage .. EndPage - 1 : PagesOf[x].state = "Free"} IN
    \A start \in FirstPage .. EndPage - 1, n \in 1 .. EndPage - FirstPage, guard \in 0 .. 1,
       align \in 1 .. 2 :
        LET places == {a \in start + guard .. EndPage - 1 :
                        /\ a % align = 0 /\ a + n + guard <= EndPage
                        /\ a - guard .. a + n + guard - 1 \subseteq free}
        IN  FindFreeArea(start, EndPage, n, align, 0, guard) =
                IF places = {} THEN 0 ELSE CHOOSE a \in places : \A c \in places : a <= c
=============================================================================
