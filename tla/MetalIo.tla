------------------------------- MODULE MetalIo ------------------------------
(***************************************************************************)
(* libmetal I/O regions (include/metal/io.h, libmetal/io.c): translation   *)
(* between offsets, virtual and physical addresses through a page table,   *)
(* and block transfers, which copy bytes up to the first place where both  *)
(* sides are aligned, then words, then the rest.  The default operations   *)
(* are modelled (io->ops is empty).  Addresses are unsigned long.          *)
(***************************************************************************)
EXTENDS Integers, Sequences, FiniteSets

CONSTANTS ULONG,     \* 2^32, the number of addresses
          INT,       \* sizeof(int)
          IoRegions, \* regions: [virt, physmap, size, page_size]; page_size = ULONG for one page
          MaxLen     \* bound on the length of a transfer

METAL_BAD == ULONG - 1   \* METAL_BAD_OFFSET, METAL_BAD_PHYS and METAL_BAD_VA
NULL_VA == ULONG         \* NULL, which no region contains

\* A region is one page, or has the pages it needs, each aligned to their size
\* and none mapped twice; METAL_BAD is not the address of one of its bytes.
PagesFit(io) ==
  /\ IF io.page_size = ULONG THEN Len(io.physmap) = 1
     ELSE io.size <= io.page_size * Len(io.physmap)
  /\ \A j \in DOMAIN io.physmap :
       /\ io.page_size = ULONG \/ io.physmap[j] % io.page_size = 0
       /\ \A k \in DOMAIN io.physmap : j # k => io.physmap[j] # io.physmap[k]
  /\ \A o \in 0 .. io.size - 1 :
       io.physmap[(o \div io.page_size) + 1] + (o % io.page_size) < METAL_BAD

ASSUME IoAssumption ==
  /\ ULONG \in Nat \ {0} /\ INT \in Nat \ {0} /\ MaxLen \in Nat
  /\ IoRegions \subseteq [virt : Nat, physmap : Seq(Nat), size : Nat, page_size : Nat \ {0}]
  /\ \A io \in IoRegions : io.virt + io.size < ULONG /\ PagesFit(io)

VARIABLES ioRegion,  \* the region in use
          transfer,  \* the block call: [kind, offset, len, ret, buf], or no record
          ptrAt,     \* ptr - io->virt
          bufAt,     \* dest - dst or source - src
          lenLeft,   \* len
          moved,     \* pairs <<offset in the region, index in the buffer>>
          wide       \* addresses of the last word access

ioVars == <<ioRegion, transfer, ptrAt, bufAt, lenLeft, moved, wide>>

NoTransfer == [kind |-> "none", offset |-> 0, len |-> 0, ret |-> 0, buf |-> 0]

\* What memset leaves of a region.
Closed == [virt |-> 0, physmap |-> <<>>, size |-> 0, page_size |-> 1]

IoInit ==
  /\ ioRegion = Closed
  /\ transfer = NoTransfer /\ ptrAt = 0 /\ bufAt = 0 /\ lenLeft = 0 /\ moved = {} /\ wide = {}

\* metal_io_init and metal_io_finish.
IoOpen(io) ==
  /\ ioRegion = Closed /\ ioRegion' = io
  /\ UNCHANGED <<transfer, ptrAt, bufAt, lenLeft, moved, wide>>

IoFinish ==
  /\ ioRegion # Closed /\ transfer = NoTransfer /\ ioRegion' = Closed
  /\ UNCHANGED <<transfer, ptrAt, bufAt, lenLeft, moved, wide>>
-----------------------------------------------------------------------------
InPage(io, a) == a % io.page_size
Page(io, offset) == offset \div io.page_size

\* metal_io_virt.
IoVirt(io, offset) == IF offset < io.size THEN io.virt + offset ELSE NULL_VA

\* metal_io_virt_to_offset.
IoVirtToOffset(io, virt) ==
  LET offset == (virt - io.virt) % ULONG IN IF offset < io.size THEN offset ELSE METAL_BAD

\* metal_io_phys.
IoPhys(io, offset) ==
  IF offset < io.size THEN io.physmap[Page(io, offset) + 1] + InPage(io, offset) ELSE METAL_BAD

\* Mutant: the search begins with the page after the first.
IoPhysToOffsetSkips(io, phys) ==
  LET start == IF io.page_size = ULONG THEN (phys - io.physmap[1]) % ULONG ELSE InPage(io, phys)
      tried == {start} \cup {start + k * io.page_size : k \in 1 .. Len(io.physmap) - 1}
      found == {o \in tried \ {start} : IoPhys(io, o) = phys}
  IN  IF found = {} THEN METAL_BAD ELSE CHOOSE o \in found : \A p \in found : o <= p

\* metal_io_phys_to_offset: the offset in the page is tried in every page; the
\* first attempt is made whether or not it is inside the region.
IoPhysToOffset(io, phys) ==
  LET start == IF io.page_size = ULONG THEN (phys - io.physmap[1]) % ULONG ELSE InPage(io, phys)
      tried == {start} \cup {start + k * io.page_size : k \in 1 .. Len(io.physmap) - 1}
      found == {o \in tried : (o = start \/ o < io.size) /\ IoPhys(io, o) = phys}
  IN  IF found = {} THEN METAL_BAD ELSE CHOOSE o \in found : \A p \in found : o <= p

IoPhysToVirt(io, phys) == IoVirt(io, IoPhysToOffset(io, phys))
IoVirtToPhys(io, virt) == IoPhys(io, IoVirtToOffset(io, virt))
-----------------------------------------------------------------------------
\* Mutant: a transfer that ends behind the region is not cut.
ClippedNot(io, offset, len) == len

Clipped(io, offset, len) == IF offset + len > io.size THEN io.size - offset ELSE len

\* metal_io_block_read, metal_io_block_write and metal_io_block_set up to
\* their loops; buf is the alignment of the caller's buffer.  A call with an
\* offset outside the region returns -ERANGE.
BlockCall(kind, offset, len, buf) ==
  /\ transfer.kind = "none" /\ IoVirt(ioRegion, offset) # NULL_VA
  /\ LET n == Clipped(ioRegion, offset, len)
     IN  /\ transfer' = [kind |-> kind, offset |-> offset, len |-> len, ret |-> n, buf |-> buf]
         /\ lenLeft' = n
  /\ ptrAt' = offset /\ bufAt' = 0 /\ moved' = {} /\ wide' = {}
  /\ UNCHANGED ioRegion

PtrAddr == ioRegion.virt + ptrAt
BufAddr == transfer.buf + bufAt

\* Mutant: the byte loop ends as soon as one side is aligned.
InHeadOneSide == PtrAddr % INT # 0 /\ (transfer.kind = "set" \/ BufAddr % INT # 0)

\* The condition of the first loop; block_set has no buffer.
InHead == PtrAddr % INT # 0 \/ (transfer.kind # "set" /\ BufAddr % INT # 0)

IoMove(n) ==
  /\ moved' = moved \cup {<<ptrAt + k, bufAt + k>> : k \in 0 .. n - 1}
  /\ ptrAt' = ptrAt + n /\ bufAt' = bufAt + n /\ lenLeft' = lenLeft - n
  /\ UNCHANGED <<ioRegion, transfer>>

\* A byte in front of the words, or behind them.
MoveByte == transfer.kind # "none" /\ lenLeft # 0 /\ (InHead \/ lenLeft < INT) /\ IoMove(1) /\ UNCHANGED wide

MoveWord ==
  /\ transfer.kind # "none" /\ ~InHead /\ lenLeft >= INT
  /\ wide' = {PtrAddr} \cup (IF transfer.kind = "set" THEN {} ELSE {BufAddr})
  /\ IoMove(INT)

BlockReturn ==
  /\ transfer.kind # "none" /\ lenLeft = 0
  /\ transfer' = NoTransfer /\ ptrAt' = 0 /\ bufAt' = 0 /\ moved' = {} /\ wide' = {}
  /\ UNCHANGED <<ioRegion, lenLeft>>

IoNext ==
  \/ \E kind \in {"read", "write", "set"}, offset \in 0 .. ioRegion.size, len \in 0 .. MaxLen, buf \in 0 .. INT - 1 :
       (kind = "set" => buf = 0) /\ BlockCall(kind, offset, len, buf)
  \/ \E io \in IoRegions : IoOpen(io)
  \/ IoFinish \/ MoveByte \/ MoveWord \/ BlockReturn

IoSpec == IoInit /\ [][IoNext]_ioVars
-----------------------------------------------------------------------------
Addresses == 0 .. ULONG - 1

\* Translations are inverse to each other inside a region with aligned pages,
\* in one page or in several, and refuse every address outside it; an address
\* that is in no page never comes back as an offset of the region.
TranslationExact ==
  LET io == ioRegion
  IN  io # Closed =>
      /\ \A o \in 0 .. io.size - 1 : /\ IoVirtToOffset(io, IoVirt(io, o)) = o
                                     /\ IoPhysToOffset(io, IoPhys(io, o)) = o
      /\ \A a \in Addresses : IoVirtToPhys(io, a) # METAL_BAD => a \in io.virt .. io.virt + io.size - 1
      /\ \A a \in Addresses : LET v == IoPhysToVirt(io, a) IN v # NULL_VA => IoVirtToPhys(io, v) = a

\* A block call has moved, when it returns, exactly the bytes it reports, each
\* to its place, and none outside the region.
BlockExact ==
  /\ transfer.kind # "none" /\ lenLeft = 0
       => moved = {<<transfer.offset + k, k>> : k \in 0 .. transfer.ret - 1}
  /\ \A m \in moved : m[1] < ioRegion.size /\ m[2] < transfer.len

\* No word is read or written at an address that is not a multiple of its size.
WordsAligned == \A a \in wide : a % INT = 0

\* A region's addresses and block transfers are exact: inverse translations,
\* every byte moved once and to its place, no unaligned word.
IoExact == TranslationExact /\ BlockExact /\ WordsAligned
=============================================================================
