---------------------------- MODULE FlatAllocator ----------------------------
(***************************************************************************)
(* Common::FlatAllocator, which gives out ranges of the SMMU's and the     *)
(* GPU's address spaces, on top of FlatAddressSpaceMap: a vector of blocks *)
(* sorted by address, each reaching to the next one.  Addresses are in     *)
(* pages.  The lock makes every operation one step; ASSERT_MSG only logs,  *)
(* so that what follows a failed one is modelled too.                      *)
(*                                                                         *)
(* Callers free what they have allocated.  UnmapBuffer of nvhost_as_gpu    *)
(* rounds the size of a mapping down where the allocation had rounded it   *)
(* up, and frees a page too few.                                           *)
(***************************************************************************)
EXTENDS Integers, Sequences, FiniteSets, FiniteSetsExt

CONSTANTS
    VirtStart, VaLimit,     \* virt_start and va_limit
    Sizes,                  \* sizes that are asked for
    MaxLive,                \* bound on the number of live allocations
    FixedRanges,            \* where AllocateFixed is used: "behind" the linear end or "anywhere"
    WithTruncated           \* mappings whose size is not a multiple of the page size

RangeAssumption ==
    VirtStart \in Nat \ {0} /\ VaLimit \in Nat /\ VirtStart < VaLimit
SizesAssumption == Sizes \subseteq Nat \ {0} /\ MaxLive \in Nat
UseAssumption == FixedRanges \in {"behind", "anywhere"} /\ WithTruncated \in BOOLEAN

VARIABLES
    blocks,     \* the vector: address and phys of each block
    linear,     \* current_linear_alloc_end
    live        \* ranges <<virt, size>> that callers hold

vars == <<blocks, linear, live>>

Pages == 0 .. VaLimit - 1

Block(virt, mapped) == [virt |-> virt, mapped |-> mapped]

TypeOK ==
    /\ \A i \in DOMAIN blocks : blocks[i] \in [virt : 0 .. VaLimit, mapped : BOOLEAN]
    /\ linear \in VirtStart .. VaLimit
    /\ live \subseteq (VirtStart .. VaLimit) \X Sizes

Init ==
    /\ blocks = <<Block(0, FALSE)>>
    /\ linear = VirtStart
    /\ live = {}

-----------------------------------------------------------------------------
(* FlatAddressSpaceMap.                                                     *)

\* std::lower_bound: the first block at or after virt, or the end of the vector.
LowerBound(bs, virt) ==
    Min({i \in DOMAIN bs : bs[i].virt >= virt} \cup {Len(bs) + 1})

\* The walk back from block i to the last block before virt.
WalkBack(bs, i, virt) == Max({j \in 1 .. i : bs[j].virt < virt})

\* Without the blocks first to last.
EraseBlocks(bs, first, last) ==
    SubSeq(bs, 1, first - 1) \o SubSeq(bs, last + 1, Len(bs))

InsertBlocks(bs, i, new) == SubSeq(bs, 1, i - 1) \o new \o SubSeq(bs, i, Len(bs))

\* The phys of the tail of block p (PaContigSplit is false).
TailPhys(bs, p) == bs[p].mapped

\* The part of MapLocked after the end of the range has its block, number e.
MapStart(bs, e, virt, end) ==
    LET q == WalkBack(bs, e, virt) + 1 IN
    IF bs[q].virt = end
    THEN InsertBlocks(bs, q, <<Block(virt, TRUE)>>)
    ELSE [EraseBlocks(bs, q + 1, e - 1) EXCEPT ![q] = Block(virt, TRUE)]

MapLocked(bs, virt, size) ==
    LET end == virt + size
        e == LowerBound(bs, end)
        p == e - 1
        tail == IF e <= Len(bs) THEN TailPhys(bs, p) ELSE FALSE
    IN
    IF e <= Len(bs) /\ bs[e].virt = end
    THEN MapStart(bs, e, virt, end)
    ELSE IF p # 1 /\ bs[p].virt >= virt
         THEN MapStart([bs EXCEPT ![p] = Block(end, tail)], p, virt, end)
         ELSE InsertBlocks(bs, e, <<Block(virt, TRUE), Block(end, tail)>>)

\* erase_blocks_with_end_unmapped, for the unmapped block u.
EraseWithEndUnmapped(bs, u, virt) ==
    LET j == WalkBack(bs, u, virt) IN
    IF ~bs[j].mapped
    THEN EraseBlocks(bs, j + 1, u)
    ELSE EraseBlocks([bs EXCEPT ![u].virt = virt], j + 1, u - 1)

\* The blocks before block p, from first on; p itself stays.
EraseInRange(bs, first, p) == EraseBlocks(bs, first, p - 1)

\* The part of UnmapLocked after the end of the range has its block, number e;
\* p is block_end_predecessor.
UnmapStart(bs, e, p, virt, end) ==
    LET j == WalkBack(bs, e, virt) IN
    IF bs[j + 1].virt = end
    THEN IF bs[j].mapped THEN InsertBlocks(bs, j + 1, <<Block(virt, FALSE)>>) ELSE bs
    ELSE IF ~bs[j].mapped
         THEN EraseInRange(bs, j + 1, p)
         ELSE [EraseBlocks(bs, j + 2, e - 1) EXCEPT ![j + 1] = Block(virt, FALSE)]

UnmapLocked(bs, virt, size) ==
    LET end == virt + size
        e == LowerBound(bs, end)
        p == e - 1
    IN
    IF ~bs[p].mapped
    THEN IF bs[p].virt > virt THEN EraseWithEndUnmapped(bs, p, virt) ELSE bs
    ELSE IF bs[e].virt = end
    THEN IF ~bs[e].mapped THEN EraseWithEndUnmapped(bs, e, virt)
                          ELSE UnmapStart(bs, e, p, virt, end)
    ELSE IF bs[p].virt >= virt
    THEN UnmapStart([bs EXCEPT ![p] = Block(end, TailPhys(bs, p))], p, p - 1, virt, end)
    ELSE InsertBlocks(bs, e, <<Block(virt, FALSE), Block(end, TailPhys(bs, p))>>)

-----------------------------------------------------------------------------
(* FlatAllocator.  0 stands for no address (UnmappedVa).                    *)

\* The loop over fixed mappings in front of the linear end, from block p on.
SkipFixed(p, size) ==
    LET stops == {i \in p .. Len(blocks) - 1 :
                    blocks[i + 1].virt - blocks[i].virt < size \/ blocks[i].mapped}
        last == blocks[Len(blocks)].virt
    IN
    IF p = Len(blocks) THEN 0
    ELSE IF stops # {} THEN blocks[Min(stops)].virt
    ELSE IF last + size <= VaLimit THEN last ELSE 0

\* The linear pass.
LinearStart(size) ==
    LET p == LowerBound(blocks, linear + size) - 1 IN
    IF linear + size > VaLimit THEN 0
    ELSE IF blocks[p].virt <= linear THEN linear
    ELSE SkipFixed(p, size)

Fits(i, size) == blocks[i + 1].virt - blocks[i].virt >= size /\ ~blocks[i].mapped

\* The gap search, from the second block to the last but one.
GapStart(size) ==
    LET gaps == {i \in 2 .. Len(blocks) - 1 : Fits(i, size)} IN
    IF gaps = {} THEN 0 ELSE blocks[Min(gaps)].virt

AllocationStart(size) ==
    IF LinearStart(size) # 0 THEN LinearStart(size) ELSE GapStart(size)

\* With a single block the gap search starts at the end of the vector: undefined,
\* and no next state.
Allocate(size) ==
    LET start == AllocationStart(size) IN
    /\ LinearStart(size) # 0 \/ Len(blocks) > 1
    /\ linear' = IF LinearStart(size) # 0 THEN start + size ELSE linear
    /\ IF start # 0
       THEN blocks' = MapLocked(blocks, start, size) /\ live' = live \cup {<<start, size>>}
       ELSE UNCHANGED <<blocks, live>>

PagesOf(a) == a[1] .. a[1] + a[2] - 1

\* Guest code asks for a fixed range that is free.
AllocateFixed(virt, size) ==
    /\ virt + size <= IF FixedRanges = "behind" THEN linear ELSE VaLimit
    /\ \A a \in live : PagesOf(a) \cap PagesOf(<<virt, size>>) = {}
    /\ blocks' = MapLocked(blocks, virt, size)
    /\ live' = live \cup {<<virt, size>>}
    /\ UNCHANGED linear

Free(a, size) ==
    /\ blocks' = UnmapLocked(blocks, a[1], size)
    /\ live' = live \ {a}
    /\ UNCHANGED linear

Next ==
    \/ \E n \in Sizes :
         /\ Cardinality(live) < MaxLive
         /\ Allocate(n) \/ \E v \in VirtStart .. VaLimit : AllocateFixed(v, n)
    \/ \E a \in live : Free(a, a[2]) \/ (WithTruncated /\ Free(a, a[2] - 1))

Spec == Init /\ [][Next]_vars

-----------------------------------------------------------------------------
(* What the blocks stand for.                                               *)
MappedIn(bs) ==
    {v \in Pages : bs[Max({i \in DOMAIN bs : bs[i].virt <= v})].mapped}

(* The vector starts at address 0 with an unmapped block, is sorted, and "has
   to be terminated by an unmapped chunk" (address_space.inc:97), after any
   sequence of allocations and frees; the loops that walk it and UnmapLocked's
   use of block_end_successor depend on it. *)
BlocksSorted ==
    /\ blocks[1] = Block(0, FALSE)
    /\ \A i \in 1 .. Len(blocks) - 1 : blocks[i].virt <= blocks[i + 1].virt
    /\ ~blocks[Len(blocks)].mapped

(* No free takes away pages of another allocation (address_space.inc:148). *)
LiveIsMapped == \A a \in live : PagesOf(a) \subseteq MappedIn(blocks)

(* Two allocations that are alive together never overlap, and lie within the
   address space (address_space.inc:291); linear allocation "skip[s] over fixed
   any mappings in front of us" (address_space.inc:309). *)
AllocationsDisjoint ==
    /\ \A a, b \in live : a # b => PagesOf(a) \cap PagesOf(b) = {}
    /\ \A a \in live : PagesOf(a) \subseteq VirtStart .. VaLimit - 1

(* MapLocked and UnmapLocked change nothing outside their range: an allocation
   adds exactly its pages, a free only removes pages of the freed range. *)
OnlyRangeChanges ==
    LET before == MappedIn(blocks) after == MappedIn(blocks')
        added == UNION {PagesOf(a) : a \in live' \ live}
        gone == UNION {PagesOf(a) : a \in live \ live'}
    IN  IF live' \ live # {} THEN after = before \cup added
        ELSE after \subseteq before /\ before \ after \subseteq gone

(* Free "Frees an AS region so it can be used again" (address_space.h:133). *)
FreedIsUnmapped == MappedIn(blocks) = UNION {PagesOf(a) : a \in live}

(* Allocation falls back on "a subsequent slower pass that iterates until it
   finds a free block" (address_space.h:110): it fails only if there is none. *)
FreeBlockFound ==
    \A n \in Sizes : AllocationStart(n) = 0 =>
        \A v \in VirtStart .. VaLimit - n :
            \E w \in v .. v + n - 1 : w \in MappedIn(blocks)

(* The gap search expects more than two blocks: "Unexpected allocator state!"
   (address_space.inc:336). *)
SearchHasBlocks == \A n \in Sizes : LinearStart(n) = 0 => Len(blocks) > 2
=============================================================================
