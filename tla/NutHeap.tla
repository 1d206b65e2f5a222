------------------------------- MODULE NutHeap ------------------------------
(***************************************************************************)
(* The heap of the firmware, utils/nutheap.c (built without NUTDEBUG_HEAP  *)
(* and NUTMEM_GUARD): a singly linked list of free nodes, allocation by    *)
(* best fit with splitting, release with coalescing.  Addresses and sizes  *)
(* are in bytes; WORD is sizeof(size_t), which is also the size of a       *)
(* pointer, of the header that stays in front of an allocated block        *)
(* (NUT_HEAP_OVERHEAD) and of the alignment (NUTMEM_ALIGNMENT).            *)
(***************************************************************************)
EXTENDS Integers, Sequences, FiniteSets, SequencesExt

CONSTANTS WORD,     \* sizeof(size_t): 4 on the target
          SIZE_T,   \* modulus of size_t: 2^32 on the target
          Regions,  \* memory given to the heap: addr and size of each
          Sizes     \* sizes clients ask for

ASSUME HeapAssumption ==
  /\ WORD \in Nat \ {0}
  /\ SIZE_T \in Nat \ {0} /\ SIZE_T % WORD = 0 /\ 4 * WORD < SIZE_T
  /\ Regions \subseteq [addr : Nat \ {0}, size : Nat]
  /\ Sizes \subseteq 0 .. SIZE_T - 1

NUT_HEAP_OVERHEAD   == WORD
NUTMEM_HEAPNODE_MIN == 2 * WORD    \* sizeof(HEAPNODE)

VARIABLES free,    \* heapFreeList, in list order
          live,    \* allocated nodes, with the size the client asked for
          added    \* regions given to the heap so far

vars == <<free, live, added>>

End(n) == n.addr + n.size
BottomAlign(s) == (s \div WORD) * WORD
TopAlign(s)    == BottomAlign((s + WORD - 1) % SIZE_T)

Init == free = <<>> /\ live = {} /\ added = {}

\* Mutant: the sum of size and overhead is not rounded up.
NodeSizeUnaligned(size) ==
  LET need == (size + NUT_HEAP_OVERHEAD) % SIZE_T
  IN BottomAlign(IF need < NUTMEM_HEAPNODE_MIN THEN NUTMEM_HEAPNODE_MIN ELSE need)

\* The size of the node for a request, computed in size_t.
NodeSize(size) ==
  LET need == (size + NUT_HEAP_OVERHEAD) % SIZE_T
  IN TopAlign(IF need < NUTMEM_HEAPNODE_MIN THEN NUTMEM_HEAPNODE_MIN ELSE need)
-----------------------------------------------------------------------------
(***************************************************************************)
(* NutHeapRootAlloc.                                                       *)
(***************************************************************************)
\* The place of the best fit: the first of the smallest nodes that are large
\* enough.
BestFits(list, need) ==
  LET fits     == {i \in DOMAIN list : list[i].size >= need}
      smallest == {i \in fits : \A j \in fits : list[i].size <= list[j].size}
  IN IF fits = {} THEN {} ELSE {Min(smallest)}

\* Mutant: the node is split however small the rest is.
SplitAlways(list, i, need) ==
  IF list[i].size > need
  THEN [list |-> [list EXCEPT ![i] = [addr |-> @.addr + need, size |-> @.size - need]],
        node |-> [addr |-> list[i].addr, size |-> need]]
  ELSE [list |-> RemoveAt(list, i), node |-> list[i]]

\* Take need bytes from node i: the front of it if the rest can be a node.
Split(list, i, need) ==
  IF list[i].size - need >= NUTMEM_HEAPNODE_MIN
  THEN [list |-> [list EXCEPT ![i] = [addr |-> @.addr + need, size |-> @.size - need]],
        node |-> [addr |-> list[i].addr, size |-> need]]
  ELSE [list |-> RemoveAt(list, i), node |-> list[i]]

Block(node, want) == [addr |-> node.addr, size |-> node.size, want |-> want]

\* Nothing changes when no node is large enough.
Alloc(size) ==
  /\ \E i \in BestFits(free, NodeSize(size)) :
       LET cut == Split(free, i, NodeSize(size))
       IN /\ free' = cut.list
          /\ live' = live \cup {Block(cut.node, size)}
  /\ UNCHANGED added
-----------------------------------------------------------------------------
(***************************************************************************)
(* NutHeapRootFree.                                                        *)
(***************************************************************************)
\* Mutant: a node in front takes in the released one but not its successor.
ReleaseMergesFrontOnly(list, f) ==
  LET stops == {i \in DOMAIN list : End(list[i]) >= f.addr}
      i     == Min(stops)
      n     == list[i]
  IN CASE stops = {} -> Append(list, f)
       [] stops # {} /\ End(n) = f.addr ->
            [list EXCEPT ![i].size = @ + f.size]
       [] stops # {} /\ n.addr > f.addr ->
            IF End(f) = n.addr
            THEN [list EXCEPT ![i] = [addr |-> f.addr, size |-> f.size + n.size]]
            ELSE InsertAt(list, i, f)
       [] OTHER -> list

\* Mutant: a node that contains the released one is not noticed.
ReleaseUnchecked(list, f) ==
  LET stops == {i \in DOMAIN list : End(list[i]) = f.addr \/ list[i].addr > f.addr}
      i     == Min(stops)
      n     == list[i]
  IN CASE stops = {} -> Append(list, f)
       [] stops # {} /\ End(n) = f.addr ->
            IF i < Len(list) /\ End(f) = list[i + 1].addr
            THEN [RemoveAt(list, i + 1) EXCEPT ![i].size = @ + f.size + list[i + 1].size]
            ELSE [list EXCEPT ![i].size = @ + f.size]
       [] OTHER ->
            IF End(f) = n.addr
            THEN [list EXCEPT ![i] = [addr |-> f.addr, size |-> f.size + n.size]]
            ELSE InsertAt(list, i, f)

\* The free list after node f was released.  The walk stops at the first node
\* that ends at f, begins behind f or contains f; the last is an error that
\* changes nothing.
Release(list, f) ==
  LET stops == {i \in DOMAIN list : End(list[i]) >= f.addr}
      i     == Min(stops)
      n     == list[i]
  IN CASE stops = {} -> Append(list, f)
       [] stops # {} /\ End(n) = f.addr ->
            IF i < Len(list) /\ End(f) = list[i + 1].addr
            THEN [RemoveAt(list, i + 1) EXCEPT ![i].size = @ + f.size + list[i + 1].size]
            ELSE [list EXCEPT ![i].size = @ + f.size]
       [] stops # {} /\ n.addr > f.addr ->
            IF End(f) = n.addr
            THEN [list EXCEPT ![i] = [addr |-> f.addr, size |-> f.size + n.size]]
            ELSE InsertAt(list, i, f)
       [] OTHER -> list

Node(b) == [addr |-> b.addr, size |-> b.size]

Free(b) ==
  /\ b \in live
  /\ free' = Release(free, Node(b))
  /\ live' = live \ {b}
  /\ UNCHANGED added

\* NutHeapRootAdd: the aligned part of a region is released into the heap.
AlignedRegion(r) ==
  LET addr == TopAlign(r.addr)
  IN [addr |-> addr, size |-> BottomAlign(r.size - (addr - r.addr))]

\* The memory given to the heap: regions below the top of the address space that
\* do not overlap and have room for a node.
ASSUME RegionsAssumption ==
  \A r \in Regions :
    /\ r.addr + r.size < SIZE_T
    /\ r.size >= NUTMEM_HEAPNODE_MIN /\ AlignedRegion(r).size >= NUTMEM_HEAPNODE_MIN
    /\ \A q \in Regions : r = q \/ r.addr + r.size <= q.addr \/ q.addr + q.size <= r.addr

Add(r) ==
  /\ r \in Regions \ added
  /\ free' = Release(free, AlignedRegion(r))
  /\ added' = added \cup {r}
  /\ UNCHANGED live
-----------------------------------------------------------------------------
(***************************************************************************)
(* NutHeapRootRealloc of a block, with a size that is not zero.            *)
(***************************************************************************)
\* The place of the free node that follows b without a gap and has room for
\* what is missing.
Adjoining(b, need) ==
  {i \in DOMAIN free : /\ free[i].addr = End(b)
                       /\ free[i].size >= need - b.size}

\* Expansion in place.  (NutHeapRootRealloc of NULL is Alloc, to size 0 is Free.)
Grow(b, size) ==
  LET need == NodeSize(size) IN
  /\ b \in live /\ need > b.size
  /\ \E i \in Adjoining(b, need) :
       LET cut == Split(free, i, need - b.size)
       IN /\ free' = cut.list
          /\ live' = (live \ {b}) \cup
                       {[addr |-> b.addr, size |-> b.size + cut.node.size, want |-> size]}
  /\ UNCHANGED added

\* Expansion by moving: the new block is asked for with the overhead already
\* in the size, and the old one is released after the copy.
Move(b, size) ==
  LET need == NodeSize(size) IN
  /\ b \in live /\ need > b.size
  /\ Adjoining(b, need) = {}
  /\ \E i \in BestFits(free, NodeSize(need)) :
       LET cut == Split(free, i, NodeSize(need))
       IN /\ free' = Release(cut.list, Node(b))
          /\ live' = (live \ {b}) \cup {Block(cut.node, size)}
  /\ UNCHANGED added

\* Reduction: the rest of the block is released if it is more than a node.
Shrink(b, size) ==
  LET need == NodeSize(size)
      cut  == need < (b.size - NUTMEM_HEAPNODE_MIN) % SIZE_T
  IN /\ b \in live /\ size # 0 /\ need <= b.size
     /\ free' = IF cut THEN Release(free, [addr |-> b.addr + need, size |-> b.size - need])
                ELSE free
     /\ live' = (live \ {b}) \cup
                  {[addr |-> b.addr, size |-> IF cut THEN need ELSE b.size, want |-> size]}
     /\ UNCHANGED added
-----------------------------------------------------------------------------
(***************************************************************************)
(* Reports on the free list, and aligned blocks.                           *)
(***************************************************************************)
\* NutHeapRootAvailable, with rc after each turn of its loop, and
\* NutHeapRootRegionAvailable of the largest node; both subtract in size_t.
AvailableWalk(list) ==
  LET rc[k \in 0 .. Len(list)] ==
        IF k = 0 THEN 0 ELSE (rc[k - 1] + list[k].size - NUT_HEAP_OVERHEAD) % SIZE_T
  IN  rc

Available == AvailableWalk(free)[Len(free)]

\* Mutant: the overhead is not taken off.
RegionAvailableGross(list) == Max({0} \cup {n.size : n \in ToSet(list)})

RegionAvailable(list) ==
  (Max({0} \cup {n.size : n \in ToSet(list)}) - NUT_HEAP_OVERHEAD) % SIZE_T

UserArea(b) == b.addr + NUT_HEAP_OVERHEAD

\* Mutant: no room is made for the pointer to the block.
AlignedExtraNoLink(alignment) == alignment - 1

\* NutHeapAllocAligned asks for alignment - 1 + sizeof(void *) bytes more, and
\* keeps the address of the block in front of the aligned pointer, where
\* NutHeapFreeAligned finds it.
AlignedExtra(alignment) == alignment - 1 + WORD
AlignedPointer(p1, alignment) ==
  ((p1 + AlignedExtra(alignment)) \div alignment) * alignment
-----------------------------------------------------------------------------
Next ==
  \/ \E s \in Sizes : Alloc(s)
  \/ \E b \in live : Free(b)
  \/ \E b \in live, s \in Sizes : Grow(b, s) \/ Move(b, s) \/ Shrink(b, s)
  \/ \E r \in Regions : Add(r)

Spec == Init /\ [][Next]_vars
-----------------------------------------------------------------------------
Bytes(n) == n.addr .. End(n) - 1
Nodes    == ToSet(free) \cup {Node(b) : b \in live}

\* No byte of the heap is lost or handed out twice: the free nodes and the
\* allocated ones are disjoint, none is smaller than a node header and link,
\* and together they are the regions that were added.
HeapPartitioned ==
  /\ \A m, n \in Nodes : m # n => Bytes(m) \cap Bytes(n) = {}
  /\ \A n \in Nodes : n.size >= NUTMEM_HEAPNODE_MIN /\ n.addr % WORD = 0
  /\ UNION {Bytes(n) : n \in Nodes} = UNION {Bytes(AlignedRegion(r)) : r \in added}
  /\ Cardinality(Nodes) = Len(free) + Cardinality(live)

\* The free list is in the order of addresses and no two free nodes touch:
\* NutHeapRootFree has joined "the adjacent free regions".
Coalesced == \A i \in 1 .. Len(free) - 1 : End(free[i]) < free[i + 1].addr

\* A block has room for what the client asked for, also after it was resized.
\* Only a request so close to the top of size_t that the overhead and the
\* rounding wrap gets a block that is too small.
RoomForRequest ==
  \A b \in live : b.want + NUT_HEAP_OVERHEAD + WORD <= SIZE_T =>
                    b.size >= b.want + NUT_HEAP_OVERHEAD

\* What NutHeapRegionAvailable reports can be had: a request of that size finds a
\* node and a larger one does not, and it is never more than the total that
\* NutHeapAvailable reports.  An empty free list is the exception: the overhead
\* is subtracted from zero and almost the whole address space is reported.
ReportHonest ==
  free # <<>> =>
    /\ BestFits(free, NodeSize(RegionAvailable(free))) # {}
    /\ BestFits(free, NodeSize(RegionAvailable(free) + 1)) = {}
    /\ RegionAvailable(free) <= Available

\* A block allocated for an aligned area holds it, behind the pointer that leads
\* back to the block.
AlignedInside ==
  \A b \in live, alignment \in {1, WORD, 2 * WORD} :
    LET size == b.want - AlignedExtra(alignment)
        p    == AlignedPointer(UserArea(b), alignment)
    IN  (size >= 0 /\ b.want + 2 * WORD <= SIZE_T) =>
          /\ p % alignment = 0
          /\ p - WORD >= UserArea(b) /\ p + size <= End(b)

\* Releasing a block again while its memory is still free changes nothing,
\* wherever it was merged into and whatever its old header says.
DoubleFreeHarmless ==
  \A n \in ToSet(free) : \A a \in Bytes(n), k \in 2 .. 4 :
    a % WORD = 0 => Release(free, [addr |-> a, size |-> k * WORD]) = free

\* The heap keeps its promises over every sequence of calls: nothing is lost,
\* overlaps or stays split, blocks hold their requests, reports are true, and a
\* second free does no harm.
HeapSound ==
  /\ HeapPartitioned /\ Coalesced /\ DoubleFreeHarmless
  /\ RoomForRequest /\ AlignedInside /\ ReportHonest
=============================================================================
