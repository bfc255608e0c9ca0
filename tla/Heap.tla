-------------------------------- MODULE Heap --------------------------------
(***************************************************************************)
(* The memory allocators of FreeRTOS (src/c_test/FreeRTOS/Source/portable/ *)
(* MemMang): heap_4, which merges neighbouring free blocks, heap_5, which  *)
(* does so over several regions of memory, heap_2, which looks for the     *)
(* best fit and never merges, and heap_1, which never frees.               *)
(*                                                                         *)
(* A heap h is a record.  Its free list is the sequence h.free of the      *)
(* addresses of its blocks, from xStart to before pxEnd; xBlockSize is a   *)
(* function of the address, and the top bit that marks a block in use is   *)
(* the set h.taken.  Each call runs with the scheduler suspended and is    *)
(* one step.  h.wanted, the bytes each block in use was asked for, is kept *)
(* for the properties.  A behaviour is of the allocator part, one of the   *)
(* four: a program is linked with one.                                     *)
(***************************************************************************)
EXTENDS Integers, Sequences, FiniteSets, SequencesExt

CONSTANTS
    portBYTE_ALIGNMENT,
    xHeapStructSize,        \* of a BlockLink_t, rounded up to the alignment
    ucHeap,                 \* the address of the array
    configTOTAL_HEAP_SIZE,
    xBlockAllocatedBit,     \* the value of the top bit of a size_t
    HeapRegions,            \* what heap_5 is given: a sequence of [start, size]
    Requests,               \* the sizes that are asked for
    NoBlock,
    MaxAllocations          \* bounds the calls of pvPortMalloc

VARIABLES part, heap

heapMINIMUM_BLOCK_SIZE   == 2 * xHeapStructSize
configADJUSTED_HEAP_SIZE == configTOTAL_HEAP_SIZE - portBYTE_ALIGNMENT

AlignDown(a) == a - (a % portBYTE_ALIGNMENT)
AlignUp(a)   == AlignDown(a + portBYTE_ALIGNMENT - 1)

\* The values of a size_t, whose arithmetic wraps.
SizeT == 2 * xBlockAllocatedBit

\* The first block of a region of heap_5, and its end marker.
RegionStart(region) == AlignUp(region.start)
RegionEnd(region)   == AlignDown(region.start + region.size - xHeapStructSize)

\* A link fits in a unit of the alignment, as in this port (16 bytes and 8,
\* portmacro.h:85), and all memory lies below the end of the address space.  The
\* array has room for a block, and the regions are given in the order of their
\* addresses, as heap_5.c:50-69 asks, each with room for a block.
ASSUME HeapAssumption ==
    /\ portBYTE_ALIGNMENT \in Nat \ {0}
    /\ xHeapStructSize \in Nat /\ xHeapStructSize <= portBYTE_ALIGNMENT
    /\ ucHeap \in Nat /\ configTOTAL_HEAP_SIZE \in Nat
    /\ configTOTAL_HEAP_SIZE >= xHeapStructSize + 2 * portBYTE_ALIGNMENT
    /\ xBlockAllocatedBit \in Nat /\ SizeT % portBYTE_ALIGNMENT = 0
    /\ 2 * portBYTE_ALIGNMENT <= xBlockAllocatedBit /\ ucHeap + configTOTAL_HEAP_SIZE <= SizeT
    /\ Requests \subseteq 0 .. SizeT - 1 /\ NoBlock \notin Nat
    /\ HeapRegions \in Seq([start : Nat, size : Nat]) /\ HeapRegions # <<>>
    /\ \A i \in DOMAIN HeapRegions : RegionStart(HeapRegions[i]) < RegionEnd(HeapRegions[i])
    /\ \A i \in 2 .. Len(HeapRegions) : RegionEnd(HeapRegions[i - 1]) < RegionStart(HeapRegions[i])

Uninitialised ==
    [pxEnd |-> NoBlock, free |-> <<>>, size |-> <<>>, taken |-> {}, wanted |-> <<>>,
     regions |-> {}, xFreeBytesRemaining |-> 0, xMinimumEverFreeBytesRemaining |-> 0,
     xNumberOfSuccessfulAllocations |-> 0, xNumberOfSuccessfulFrees |-> 0, failed |-> {}]

Claim(h, holds, what) == IF holds THEN h ELSE [h EXCEPT !.failed = @ \cup {what}]

\* f with the value v at b, and f without b.
With(f, b, v) == [a \in DOMAIN f \cup {b} |-> IF a = b THEN v ELSE f[a]]
Drop(f, b)    == [a \in DOMAIN f \ {b} |-> f[a]]

\* The size of block b becomes n; block b becomes a part of block a.
Sized(h, b, n)  == [h EXCEPT !.size = With(@, b, n)]
Absorb(h, a, b) == [h EXCEPT !.size = Drop(With(@, a, h.size[a] + h.size[b]), b)]

\* The first of some positions in the list, 0 if there is none.
FirstOf(positions) == IF positions = {} THEN 0 ELSE Min(positions)

-----------------------------------------------------------------------------
(* heap_4 *)

prvHeapInit ==
    LET lo  == AlignUp(ucHeap)
        end == AlignDown(lo + configTOTAL_HEAP_SIZE - (lo - ucHeap) - xHeapStructSize)
    IN  [Uninitialised EXCEPT
            !.pxEnd = end, !.free = <<lo>>, !.size = With([b \in {lo} |-> end - lo], end, 0),
            !.regions = {<<lo, end>>},
            !.xFreeBytesRemaining = end - lo, !.xMinimumEverFreeBytesRemaining = end - lo]

\* The list is in the order of the addresses.  A block that touches the one
\* before or the one after becomes one with it; pxEnd is merged with nothing.
prvInsertBlockIntoFreeList(h, b) ==
    LET next   == FirstOf({i \in DOMAIN h.free : h.free[i] >= b})
        before == IF next = 0 THEN h.free ELSE SubSeq(h.free, 1, next - 1)
        after  == IF next = 0 THEN <<>> ELSE SubSeq(h.free, next, Len(h.free))
        joins  == before # <<>> /\ Last(before) + h.size[Last(before)] = b
        start  == IF joins THEN Last(before) ELSE b
        h1     == IF joins THEN Absorb(h, start, b) ELSE h
        merges == after # <<>> /\ start + h1.size[start] = Head(after)
        h2     == IF merges THEN Absorb(h1, start, Head(after)) ELSE h1
    IN  [h2 EXCEPT !.free = before \o (IF joins THEN <<>> ELSE <<b>>)
                                   \o (IF merges THEN Tail(after) ELSE after)]

\* The bytes a request takes, with the link and rounded up; 0 stays 0.  Both
\* additions wrap: heap_4 and heap_5 have refused a request that could.
Rounded(n) == IF n = 0 THEN 0 ELSE AlignUp((n + xHeapStructSize) % SizeT) % SizeT

\* What is left of block b beyond n bytes, if that is enough for a block.
Split(h, b, n, Insert(_, _)) ==
    IF h.size[b] - n > heapMINIMUM_BLOCK_SIZE
    THEN Insert(Sized(Sized(h, b + n, h.size[b] - n), b, n), b + n)
    ELSE h

\* Seeded fault: the free count loses only what was asked.
UsedOnlyAsked(h, b, n) ==
    LET left == h.xFreeBytesRemaining - Rounded(n)
    IN  [h EXCEPT !.xFreeBytesRemaining = left,
                  !.xMinimumEverFreeBytesRemaining = IF left < @ THEN left ELSE @,
                  !.taken = @ \cup {b}, !.wanted = With(@, b, n),
                  !.xNumberOfSuccessfulAllocations = @ + 1]
Used(h, b, n) ==
    LET left == h.xFreeBytesRemaining - h.size[b]
    IN  [h EXCEPT !.xFreeBytesRemaining = left,
                  !.xMinimumEverFreeBytesRemaining = IF left < @ THEN left ELSE @,
                  !.taken = @ \cup {b}, !.wanted = With(@, b, n),
                  !.xNumberOfSuccessfulAllocations = @ + 1]

\* Seeded fault: a block that fits exactly is passed over.
FittingLarger(h, size) == FirstOf({j \in DOMAIN h.free : h.size[h.free[j]] > size})
\* The position of the first block of the list that fits, 0 if there is none.
Fitting(h, size) == FirstOf({j \in DOMAIN h.free : h.size[h.free[j]] >= size})

\* The first block that is large enough, split when it is much larger.
Allocate(h, n) ==
    LET size == Rounded(n)
        i    == Fitting(h, size)
    IN  IF n >= xBlockAllocatedBit \/ size = 0 \/ size > h.xFreeBytesRemaining \/ i = 0 THEN h
        ELSE LET b == h.free[i]
             IN  Used(Split([h EXCEPT !.free = RemoveAt(@, i)], b, size, prvInsertBlockIntoFreeList), b, n)

pvPortMalloc(h, n) == Allocate(IF h.pxEnd = NoBlock THEN prvHeapInit ELSE h, n)

vPortFree(h, b) ==
    IF b \notin h.taken THEN Claim(h, FALSE, "vPortFree")
    ELSE prvInsertBlockIntoFreeList(
            [h EXCEPT !.taken = @ \ {b}, !.wanted = Drop(@, b),
                      !.xFreeBytesRemaining = @ + h.size[b],
                      !.xNumberOfSuccessfulFrees = @ + 1], b)

\* The walk starts at the first block before it looks for pxEnd: when no
\* block is free it takes pxEnd for one and runs on through its NULL.
vPortGetHeapStats(h) ==
    LET sizes == {h.size[h.free[i]] : i \in DOMAIN h.free}
    IN  [walked |-> h.pxEnd = NoBlock \/ h.free # <<>>,
         blocks |-> Len(h.free),
         largest |-> Max({0} \cup sizes), smallest |-> sizes \ {s \in sizes : \E r \in sizes : r < s},
         available |-> h.xFreeBytesRemaining]

-----------------------------------------------------------------------------
(* heap_5 *)

\* A region is one free block and an end marker.  The marker of the region
\* before stays in the list, in front of the new block.
DefineRegion(h, region) ==
    LET lo  == RegionStart(region)
        end == RegionEnd(region)
        h1  == Claim(h, h.pxEnd = NoBlock \/ lo > h.pxEnd, "vPortDefineHeapRegions")
    IN  [Sized(Sized(h1, lo, end - lo), end, 0) EXCEPT
            !.pxEnd = end,
            !.free = (IF h.pxEnd = NoBlock THEN @ ELSE Append(@, h.pxEnd)) \o <<lo>>,
            !.regions = @ \cup {<<lo, end>>},
            !.xFreeBytesRemaining = @ + end - lo,
            !.xMinimumEverFreeBytesRemaining = @ + end - lo]

vPortDefineHeapRegions(h, regions) ==
    LET h1 == Claim(h, h.pxEnd = NoBlock, "vPortDefineHeapRegions: twice")
        defined[i \in 0 .. Len(regions)] ==
            IF i = 0 THEN h1 ELSE DefineRegion(defined[i - 1], regions[i])
        h2 == defined[Len(regions)]
    IN  Claim(h2, h2.xFreeBytesRemaining # 0, "vPortDefineHeapRegions: none")

\* As in heap_4, but the regions must have been defined.
pvPortMalloc_5(h, n) ==
    IF h.pxEnd = NoBlock THEN Claim(h, FALSE, "pvPortMalloc") ELSE Allocate(h, n)

\* The end markers count as free blocks, but not as the smallest.
vPortGetHeapStats_5(h) ==
    LET sizes == {h.size[h.free[i]] : i \in DOMAIN h.free} \ {0}
    IN  [vPortGetHeapStats(h) EXCEPT !.smallest = sizes \ {s \in sizes : \E r \in sizes : r < s}]

-----------------------------------------------------------------------------
(* heap_2 *)

prvHeapInit_2 ==
    LET lo == AlignDown(ucHeap + portBYTE_ALIGNMENT)
    IN  [Uninitialised EXCEPT
            !.pxEnd = NoBlock, !.free = <<lo>>, !.size = [b \in {lo} |-> configADJUSTED_HEAP_SIZE],
            !.regions = {<<lo, lo + configADJUSTED_HEAP_SIZE>>},
            !.xFreeBytesRemaining = configADJUSTED_HEAP_SIZE,
            !.xMinimumEverFreeBytesRemaining = configADJUSTED_HEAP_SIZE]

\* The list is in the order of the sizes, the new block first among equals.
prvInsertBlockIntoFreeList_2(h, b) ==
    LET next == FirstOf({i \in DOMAIN h.free : h.size[h.free[i]] >= h.size[b]})
    IN  [h EXCEPT !.free = IF next = 0 THEN Append(@, b) ELSE InsertAt(@, next, b)]

\* The smallest block that is large enough.  Nothing tests that the size of a
\* request near the limit of a size_t has wrapped.
pvPortMalloc_2(h0, n) ==
    LET h    == IF h0.regions = {} THEN prvHeapInit_2 ELSE h0
        size == Rounded(n)
        i    == Fitting(h, size)
    IN  IF size = 0 \/ size >= configADJUSTED_HEAP_SIZE \/ i = 0 THEN h
        ELSE LET b == h.free[i]
             IN  Used(Split([h EXCEPT !.free = RemoveAt(@, i)], b, size, prvInsertBlockIntoFreeList_2), b, n)

\* Nothing tells whether the block is in use.
vPortFree_2(h, b) ==
    prvInsertBlockIntoFreeList_2(
        [h EXCEPT !.taken = @ \ {b}, !.wanted = Drop(@, b),
                  !.xFreeBytesRemaining = @ + h.size[b],
                  !.xNumberOfSuccessfulFrees = @ + 1], b)

-----------------------------------------------------------------------------
(* heap_1: xNextFreeByte only grows; the blocks have no links. *)

pvPortMalloc_1(h, n) ==
    LET lo   == AlignDown(ucHeap + portBYTE_ALIGNMENT)
        next == configADJUSTED_HEAP_SIZE - h.xFreeBytesRemaining
        size == AlignUp(n) % SizeT
        end  == (next + size) % SizeT
    IN  IF end >= configADJUSTED_HEAP_SIZE \/ end <= next THEN h
        ELSE [Used(Sized(h, lo + next, size), lo + next, n)
                EXCEPT !.regions = {<<lo, lo + configADJUSTED_HEAP_SIZE>>}]

-----------------------------------------------------------------------------
(* A program and its allocator. *)

Allocators == {"heap_1", "heap_2", "heap_4", "heap_5"}
heapVars == <<part, heap>>

\* heap_5 is given its regions before the first call.
HeapInit ==
    /\ part \in Allocators
    /\ heap = IF part = "heap_5" THEN vPortDefineHeapRegions(Uninitialised, HeapRegions)
              ELSE IF part = "heap_1"
              THEN [Uninitialised EXCEPT !.xFreeBytesRemaining = configADJUSTED_HEAP_SIZE]
              ELSE Uninitialised

Malloc(h, n) ==
    CASE part = "heap_1" -> pvPortMalloc_1(h, n)
      [] part = "heap_2" -> pvPortMalloc_2(h, n)
      [] part = "heap_4" -> pvPortMalloc(h, n)
      [] part = "heap_5" -> pvPortMalloc_5(h, n)

MallocStep ==
    /\ part \in Allocators
    /\ heap.xNumberOfSuccessfulAllocations < MaxAllocations
    /\ \E n \in Requests : heap' = Malloc(heap, n)
    /\ UNCHANGED part

\* A program frees what it was given; with heap_1 it never may.
FreeStep ==
    /\ part \in Allocators \ {"heap_1"}
    /\ \E b \in heap.taken : heap' = IF part = "heap_2" THEN vPortFree_2(heap, b) ELSE vPortFree(heap, b)
    /\ UNCHANGED part

HeapNext == MallocStep \/ FreeStep

HeapSpec == HeapInit /\ [][HeapNext]_heapVars

-----------------------------------------------------------------------------
(* Properties. *)

FreeBlocks == {heap.free[i] : i \in DOMAIN heap.free}
InRegion(region) == {b \in DOMAIN heap.size : region[1] <= b /\ b < region[2]}
SumOf(f, S) == MapThenSumSet(LAMBDA b : f[b], S)
SizesOf(S) == SumOf(heap.size, S)

\* The size of a request of n bytes, with its link, is no longer a size_t.
Wraps(n) == n + xHeapStructSize + portBYTE_ALIGNMENT > SizeT
HasRoom(b) == heap.size[b] >= heap.wanted[b] + IF part = "heap_1" THEN 0 ELSE xHeapStructSize

\* The blocks in use and the free blocks cover each region once, the counts of
\* free bytes are right, every block in use is aligned and has room for what
\* was asked - with heap_2, unless the size wrapped, see RoomForRequest - and
\* with heap_4 and heap_5 no two free blocks touch (heap_1.c, heap_2.c,
\* heap_4.c, heap_5.c).
BlocksTile ==
    part \in Allocators =>
    /\ \A region \in heap.regions :
        LET blocks == InRegion(region)
        IN  /\ \A a, b \in blocks : a # b => a + heap.size[a] <= b \/ b + heap.size[b] <= a
            /\ blocks \subseteq FreeBlocks \cup heap.taken
            /\ part # "heap_1" => SizesOf(blocks) = region[2] - region[1]
            /\ \A b \in blocks : b + heap.size[b] <= region[2]
    /\ FreeBlocks \cap heap.taken = {}
    /\ Cardinality(FreeBlocks) = Len(heap.free)
    /\ heap.regions # {} => heap.xFreeBytesRemaining =
            IF part = "heap_1" THEN configADJUSTED_HEAP_SIZE - SizesOf(heap.taken) ELSE SizesOf(FreeBlocks)
    /\ heap.xMinimumEverFreeBytesRemaining <= heap.xFreeBytesRemaining
    /\ \A b \in heap.taken : /\ b % portBYTE_ALIGNMENT = 0
                             /\ HasRoom(b) \/ (part = "heap_2" /\ Wraps(heap.wanted[b]))
    /\ part \in {"heap_4", "heap_5"} => \A a, b \in FreeBlocks : a + heap.size[a] = b => heap.size[b] = 0
    /\ heap.failed = {}

\* What heap_2.c:134-135 says of the size it looks for: "The wanted size is
\* increased so it can contain a BlockLink_t structure in addition to the
\* requested amount of bytes."  It does not hold of a request so large that
\* the sum wraps (heap_2.c:138): a few bytes are looked for, and granted.
RoomForRequest == part \in Allocators => \A b \in heap.taken : HasRoom(b)

\* A request is met exactly when the largest free block, as vPortGetHeapStats
\* tells it, has room for it (heap_4.c, heap_5.c).
RequestsMet ==
    part \in {"heap_4", "heap_5"} /\ heap.regions # {} =>
        LET stats == IF part = "heap_4" THEN vPortGetHeapStats(heap) ELSE vPortGetHeapStats_5(heap)
        IN  /\ \A n \in Requests \ {0} :
                 Malloc(heap, n).taken # heap.taken <=> n < xBlockAllocatedBit /\ Rounded(n) <= stats.largest
            /\ stats.largest > 0 => stats.walked /\ stats.available >= stats.largest

=============================================================================
