----------------------------- MODULE ElfLoader -----------------------------
(***************************************************************************)
(* remoteproc_load (remoteproc.c) with the ELF loader it drives            *)
(* (elf_loader.c).  The loader never reads the image: each call gets a     *)
(* window of it and says which bytes it wants next, and the image store    *)
(* may be unable to go back.  The headers come in up to four parts, the    *)
(* section headers possibly only after the segments.                       *)
(*                                                                         *)
(* A byte of the file is its offset; an entry of a header table counts as  *)
(* one byte.  Stores may return less than they were asked for, and every   *)
(* allocation may fail.                                                    *)
(***************************************************************************)
EXTENDS Integers, Sequences, SequencesExt, FiniteSetsExt

CONSTANTS EHDR,       \* size of the ELF header
          SEGS,       \* ELF_NEXT_SEGMENT_MASK + 1: 256
          Images,     \* firmware images, see ImageOK
          Mems,       \* rproc->mems: a sequence of [da, pa, size]
          MemTop      \* memory addresses are 0 .. MemTop - 1

\* The segments of an image are [load, off, fsz, da, msz]; rsc is the section
\* .resource_table, [off, da, len], with len = 0 for an image without one;
\* strOk says whether e_shstrndx is the index of a section; first is what the
\* store has read when it opens the image.  As ELF has it, segments that are
\* loaded do not overlap and a table of section names is not empty.
ImageOK(i) ==
  /\ i \in [phoff : Nat, shoff : Nat, stroff : Nat, shnum : Nat, strlen : Nat \ {0},
            strOk : BOOLEAN, seek : BOOLEAN, first : Nat, size : Nat,
            rsc : [off : Nat, da : Nat, len : Nat],
            phdrs : Seq([load : BOOLEAN, off : Nat, fsz : Nat, da : Nat, msz : Nat])]
  /\ Len(i.phdrs) \in 1 .. SEGS
  /\ \A k \in 1 .. Len(i.phdrs) : i.phdrs[k].fsz <= i.phdrs[k].msz
  /\ \A j, k \in 1 .. Len(i.phdrs) :
       j < k /\ i.phdrs[j].load /\ i.phdrs[k].load =>
         \/ i.phdrs[j].da + i.phdrs[j].msz <= i.phdrs[k].da
         \/ i.phdrs[k].da + i.phdrs[k].msz <= i.phdrs[j].da

ASSUME ElfAssumption ==
  /\ EHDR \in Nat \ {0} /\ SEGS \in Nat \ {0} /\ MemTop \in Nat
  /\ \A i \in Images : ImageOK(i)
  /\ Mems \in Seq([da : Nat, pa : Nat, size : Nat])
  /\ \A k \in 1 .. Len(Mems) : Mems[k].pa + Mems[k].size <= MemTop
  /\ \A j, k \in 1 .. Len(Mems) : j # k => \/ Mems[j].pa + Mems[j].size <= Mems[k].pa
                                          \/ Mems[k].pa + Mems[k].size <= Mems[j].pa

JUNK == -1   \* memory as it was
PAD  == -2   \* memory set to the padding value
RSC  == -3   \* memory that holds the updated resource table

VARIABLES ldPc,      \* where remoteproc_load is; "off" outside of it
          ldImg,     \* the image that is loaded
          ldInfo,    \* load_state of the image: [hdr, phase, seg]
          ldLast,    \* last_load_state
          ldWin,     \* the window of the image at hand: [off, len]
          ldHeap,    \* what is allocated
          ldOpen,    \* the store is open
          ldMem,     \* target memory, by physical address
          ldSize,    \* rsc_size
          ldRet,     \* the result: "none", "ok", "error", or "count"
          ldKeep,    \* the caller wants img_info
          ldFault    \* a store call fell short or an allocation failed

elfVars == <<ldPc, ldImg, ldInfo, ldLast, ldWin, ldHeap, ldOpen, ldMem, ldSize,
             ldRet, ldKeep, ldFault>>

Unparsed == [hdr |-> "INIT", phase |-> "NOT_READY", seg |-> 0]
Segment(k) == ldImg.phdrs[k]
Phnum == Len(ldImg.phdrs)

ElfInit ==
  /\ ldPc = "off" /\ ldImg \in Images
  /\ ldInfo = Unparsed /\ ldLast = Unparsed /\ ldWin = [off |-> 0, len |-> 0]
  /\ ldHeap = {} /\ ldOpen = FALSE /\ ldMem = [a \in 0 .. MemTop - 1 |-> JUNK]
  /\ ldSize = 0 /\ ldRet = "none" /\ ldKeep = FALSE /\ ldFault = FALSE
-----------------------------------------------------------------------------
(***************************************************************************)
(* elf_load_header.  Its four parts follow each other in one call as long  *)
(* as the window holds what they need; each maps the state of the call,    *)
(* [st, heap, ret, noff, nlen], to the next.  nomem is the part whose      *)
(* allocation fails.                                                       *)
(***************************************************************************)
InWindow(w, off, size) == w.off <= off /\ off + size <= w.off + w.len

Want(h, off, size) == [h EXCEPT !.ret = "state", !.noff = off, !.nlen = size]
Fails(h) == [h EXCEPT !.ret = "error"]

ElfHeader(h, w, nomem) ==
  IF h.st.hdr # "INIT" THEN h
  ELSE IF w.len < EHDR THEN Want(h, 0, EHDR)
  ELSE IF nomem = "info" THEN Fails(h)
  ELSE [h EXCEPT !.st.hdr = "PHDRS", !.heap = @ \cup {"info"}]

ProgramHeaders(h, w, nomem) ==
  IF h.ret # "none" \/ h.st.hdr # "PHDRS" THEN h
  ELSE IF ~InWindow(w, ldImg.phoff, Phnum) THEN Want(h, ldImg.phoff, Phnum)
  ELSE IF nomem = "phdrs" THEN Fails(h)
  ELSE [h EXCEPT !.st.hdr = "SHDRS", !.st.phase = "READY", !.heap = @ \cup {"phdrs"}]

SectionHeaders(h, w, nomem) ==
  IF h.ret # "none" \/ h.st.hdr # "SHDRS" THEN h
  ELSE IF ldImg.shnum = 0 THEN Want([h EXCEPT !.st.hdr = "COMPLETE"], h.noff, 0)
  ELSE IF ~InWindow(w, ldImg.shoff, ldImg.shnum) THEN Want(h, ldImg.shoff, ldImg.shnum)
  ELSE IF nomem = "shdrs" THEN Fails(h)
  ELSE [h EXCEPT !.st.hdr = "SHSTRTAB", !.heap = @ \cup {"shdrs"}]

SectionNames(h, w, nomem) ==
  IF h.ret # "none" \/ h.st.hdr # "SHSTRTAB" THEN h
  ELSE IF ~ldImg.strOk THEN Fails(h)
  ELSE IF ~InWindow(w, ldImg.stroff, ldImg.strlen) THEN Want(h, ldImg.stroff, ldImg.strlen)
  ELSE IF nomem = "shstrtab" THEN Fails(h)
  ELSE Want([h EXCEPT !.st.hdr = "COMPLETE", !.heap = @ \cup {"shstrtab"}], h.noff, 0)

\* Mutant: the section headers are only looked for before the segments.
LoadHeaderEarly(w, nomem) ==
  LET start == [st |-> ldInfo, heap |-> ldHeap, ret |-> "none", noff |-> 0, nlen |-> 0]
  IN  IF ldInfo.phase = "POST" THEN Want(start, 0, 0)
      ELSE SectionNames(SectionHeaders(ProgramHeaders(ElfHeader(start, w, nomem), w, nomem), w, nomem), w, nomem)

\* Only the load state that the last call returned is accepted.
LoadHeader(w, nomem) ==
  LET start == [st |-> ldInfo, heap |-> ldHeap, ret |-> "none", noff |-> 0, nlen |-> 0]
      read  == ElfHeader(start, w, nomem)
  IN  IF ldInfo.hdr # "INIT" /\ ldLast # ldInfo THEN Fails(start)
      ELSE SectionNames(SectionHeaders(ProgramHeaders(read, w, nomem), w, nomem), w, nomem)

HeaderParts == {"info", "phdrs", "shdrs", "shstrtab"}
NoMem == HeaderParts \cup {"none"}

\* Mutant: the string table is forgotten.
ElfReleaseNames(heap) == heap \ {"info", "phdrs", "shdrs"}

ElfRelease(heap) == IF "info" \in heap THEN heap \ HeaderParts ELSE heap
-----------------------------------------------------------------------------
(***************************************************************************)
(* remoteproc_load: opening, the header loop.                              *)
(***************************************************************************)
\* The store opens the image, and the ELF magic picks the loader; an image
\* without it, or a store that fails, changes nothing.
LoadCall(keep) ==
  /\ ldPc = "off"
  /\ ldPc' = "header" /\ ldOpen' = TRUE /\ ldKeep' = keep
  /\ ldInfo' = Unparsed /\ ldLast' = Unparsed
  /\ ldWin' = [off |-> 0, len |-> ldImg.first]
  /\ ldHeap' = {} /\ ldMem' = [a \in DOMAIN ldMem |-> JUNK]
  /\ ldSize' = 0 /\ ldRet' = "none" /\ ldFault' = FALSE
  /\ UNCHANGED ldImg

\* Labels error3 and error2: what was allocated is given back, and the store
\* is closed.
LoadAborts(heap, ret) ==
  /\ ldHeap' = ElfRelease(heap \ {"table"})
  /\ ldOpen' = FALSE /\ ldPc' = "off" /\ ldRet' = ret

StoreServes(off, len) == off + len <= ldImg.size

\* Enough headers to begin: none is missing, or the rest is further on in an
\* image that cannot be sought.
HeadersSuffice(h) ==
  /\ h.st.phase = "READY"
  /\ h.nlen = 0 \/ (h.noff > ldWin.off + ldWin.len /\ ~ldImg.seek)

HeaderFails ==
  /\ ldPc = "header"
  /\ \E nomem \in NoMem :
       LET h == LoadHeader(ldWin, nomem)
       IN  /\ h.ret = "error"
           /\ LoadAborts(h.heap, "error")
           /\ ldInfo' = h.st /\ ldFault' = (ldFault \/ nomem # "none")
  /\ UNCHANGED <<ldImg, ldLast, ldWin, ldMem, ldSize, ldKeep>>

HeadersLoaded ==
  /\ ldPc = "header"
  /\ LET h == LoadHeader(ldWin, "none")
     IN  /\ h.ret # "error" /\ HeadersSuffice(h)
         /\ ldInfo' = h.st /\ ldLast' = h.st /\ ldHeap' = h.heap
  /\ ldPc' = "table"
  /\ UNCHANGED <<ldImg, ldWin, ldOpen, ldMem, ldSize, ldRet, ldKeep, ldFault>>

\* The store is asked for what is missing.  When it falls short the load ends,
\* with the count it returned for a result.
HeaderMore(served) ==
  /\ ldPc = "header"
  /\ LET h == LoadHeader(ldWin, "none")
     IN  /\ h.ret # "error" /\ ~HeadersSuffice(h)
         /\ served => StoreServes(h.noff, h.nlen)
         /\ ldInfo' = h.st /\ ldLast' = h.st
         /\ IF served THEN /\ ldWin' = [off |-> h.noff, len |-> h.nlen]
                           /\ ldHeap' = h.heap
                           /\ UNCHANGED <<ldPc, ldOpen, ldRet, ldFault>>
            ELSE LoadAborts(h.heap, "count") /\ ldFault' = TRUE /\ UNCHANGED ldWin
  /\ UNCHANGED <<ldImg, ldMem, ldSize, ldKeep>>
-----------------------------------------------------------------------------
(***************************************************************************)
(* The resource table, before and after the segments.                      *)
(***************************************************************************)
\* elf_locate_rsc_table; it fails, or finds nothing, without the headers.
LocatedSize ==
  IF ldInfo.hdr = "COMPLETE" /\ {"shdrs", "shstrtab"} \subseteq ldHeap THEN ldImg.rsc.len ELSE 0

\* remoteproc_get_rsc_table; without a copy rsc_size stays.
LocateTable(copied) ==
  /\ ldPc \in {"table", "table again"}
  /\ ldSize' = IF ldSize = 0 THEN LocatedSize ELSE ldSize
  /\ copied => ldSize = 0 /\ LocatedSize > 0 /\ StoreServes(ldImg.rsc.off, ldImg.rsc.len)
  /\ ldHeap' = IF copied THEN ldHeap \cup {"table"} ELSE ldHeap
  /\ IF ldPc = "table" THEN ldPc' = "data" /\ ldWin' = [off |-> 0, len |-> 0]
     ELSE ldPc' = "adopt" /\ UNCHANGED ldWin
  /\ UNCHANGED <<ldImg, ldInfo, ldLast, ldOpen, ldMem, ldRet, ldKeep, ldFault>>
-----------------------------------------------------------------------------
(***************************************************************************)
(* Memory of the remote processor.                                         *)
(***************************************************************************)
\* remoteproc_get_mem for a device address: the first region that holds it all.
MemsWith(da, size) ==
  {k \in DOMAIN Mems : /\ Mems[k].da <= da /\ da < Mems[k].da + Mems[k].size
                       /\ da + size <= Mems[k].da + Mems[k].size}

\* remoteproc_mmap of nothing, or without a region, gives no mapping.
Mapped(da, size) == size > 0 /\ MemsWith(da, size) # {}

DaToPa(da, size) == LET m == Mems[Min(MemsWith(da, size))] IN m.pa + da - m.da
-----------------------------------------------------------------------------
(***************************************************************************)
(* The loop over the segments: elf_load.  (Its own call of elf_load_header *)
(* for an image that is not ready is not reached from remoteproc_load.)    *)
(***************************************************************************)
\* elf_next_load_segment: the first loadable one from seg on.
LoadableFrom(seg) == {k \in seg + 1 .. Phnum : Segment(k).load}

\* Mutant: the number of the next segment is cut one bit too soon.
SegmentTakenShort(k) ==
  [ldInfo EXCEPT !.phase = IF k = Phnum THEN "POST" ELSE @, !.seg = k % (SEGS - 1)]

\* The state after segment k: the last one of the table ends the loading.
SegmentTaken(k) ==
  [ldInfo EXCEPT !.phase = IF k = Phnum THEN "POST" ELSE @, !.seg = k % SEGS]

NextSegment == Min(LoadableFrom(ldInfo.seg))

\* Mutant: padding from the beginning of the segment.
PlacedPadFirst(mem, s) ==
  LET pa == DaToPa(s.da, s.msz)
  IN  [a \in DOMAIN mem |-> IF a \in pa .. pa + s.msz - s.fsz - 1 THEN PAD
                            ELSE IF a \in pa .. pa + s.fsz - 1 THEN s.off + a - pa ELSE mem[a]]

\* What the store's load and metal_io_block_set leave in memory.
Placed(mem, s) ==
  LET pa == DaToPa(s.da, s.msz)
  IN  [a \in DOMAIN mem |-> IF a \in pa .. pa + s.fsz - 1 THEN s.off + a - pa
                            ELSE IF a \in pa + s.fsz .. pa + s.msz - 1 THEN PAD ELSE mem[a]]

LoadSegment(served) ==
  /\ ldPc = "data" /\ ldInfo.phase = "READY" /\ LoadableFrom(ldInfo.seg) # {}
  /\ LET s == Segment(NextSegment)
     IN  /\ ldInfo' = SegmentTaken(NextSegment) /\ ldLast' = ldInfo'
         /\ served => StoreServes(s.off, s.fsz)
         /\ ldFault' = (ldFault \/ (Mapped(s.da, s.msz) /\ s.fsz > 0 /\ ~served))
         /\ IF Mapped(s.da, s.msz) /\ (s.fsz = 0 \/ served)
            THEN ldMem' = Placed(ldMem, s) /\ UNCHANGED <<ldHeap, ldOpen, ldPc, ldRet>>
            ELSE LoadAborts(ldHeap, "error") /\ UNCHANGED ldMem
  /\ UNCHANGED <<ldImg, ldWin, ldSize, ldKeep>>

\* The program headers end with one that is not loaded: nothing is done after.
NoMoreSegments ==
  /\ ldPc = "data" /\ ldInfo.phase = "READY" /\ LoadableFrom(ldInfo.seg) = {}
  /\ ldInfo' = [ldInfo EXCEPT !.phase = "COMPLETE", !.seg = Phnum % SEGS]
  /\ ldLast' = ldInfo'
  /\ ldPc' = "table again"
  /\ UNCHANGED <<ldImg, ldWin, ldHeap, ldOpen, ldMem, ldSize, ldRet, ldKeep, ldFault>>

\* After the segments: the headers that are missing, or an end.
PostHeaderFails ==
  /\ ldPc = "data" /\ ldInfo.phase = "POST" /\ ldInfo.hdr # "COMPLETE"
  /\ \E nomem \in NoMem :
       LET h == LoadHeader(ldWin, nomem)
       IN  /\ h.ret = "error"
           /\ LoadAborts(h.heap, "error")
           /\ ldInfo' = h.st /\ ldFault' = (ldFault \/ nomem # "none")
  /\ UNCHANGED <<ldImg, ldLast, ldWin, ldMem, ldSize, ldKeep>>

PostHeader(served) ==
  /\ ldPc = "data" /\ ldInfo.phase = "POST" /\ ldInfo.hdr # "COMPLETE"
  /\ LET h == LoadHeader(ldWin, "none")
     IN  /\ h.ret # "error"
         /\ ldInfo' = IF h.st.hdr = "COMPLETE" THEN [h.st EXCEPT !.phase = "COMPLETE"] ELSE h.st
         /\ ldHeap' = h.heap
         /\ served => h.nlen > 0 /\ StoreServes(h.noff, h.nlen)
         /\ ldFault' = (ldFault \/ (h.nlen > 0 /\ ~served))
         /\ IF served THEN ldWin' = [off |-> h.noff, len |-> h.nlen] /\ UNCHANGED ldPc
            ELSE ldPc' = "table again" /\ UNCHANGED ldWin
  /\ ldLast' = ldInfo'
  /\ UNCHANGED <<ldImg, ldOpen, ldMem, ldSize, ldRet, ldKeep>>

PostDone ==
  /\ ldPc = "data" /\ ldInfo.phase = "POST" /\ ldInfo.hdr = "COMPLETE"
  /\ ldInfo' = [ldInfo EXCEPT !.phase = "COMPLETE"] /\ ldLast' = ldInfo'
  /\ ldPc' = "table again"
  /\ UNCHANGED <<ldImg, ldWin, ldHeap, ldOpen, ldMem, ldSize, ldRet, ldKeep, ldFault>>

\* The updated table goes to its place in memory, if that is mapped.
TableMem(mem) ==
  IF "table" \notin ldHeap \/ ~Mapped(ldImg.rsc.da, ldSize) THEN mem
  ELSE LET pa == DaToPa(ldImg.rsc.da, ldSize)
       IN  [a \in DOMAIN mem |-> IF a \in pa .. pa + ldSize - 1 THEN RSC ELSE mem[a]]

LoadReturns ==
  /\ ldPc = "adopt"
  /\ ldMem' = TableMem(ldMem)
  /\ ldHeap' = IF ldKeep THEN ldHeap \ {"table"} ELSE ElfRelease(ldHeap \ {"table"})
  /\ ldOpen' = FALSE /\ ldPc' = "off" /\ ldRet' = "ok"
  /\ UNCHANGED <<ldImg, ldInfo, ldLast, ldWin, ldSize, ldKeep, ldFault>>

LoaderStep ==
  \/ HeaderFails \/ HeadersLoaded \/ NoMoreSegments
  \/ PostHeaderFails \/ PostDone \/ LoadReturns
  \/ \E b \in BOOLEAN : HeaderMore(b) \/ LocateTable(b) \/ LoadSegment(b) \/ PostHeader(b)

ElfNext == LoaderStep \/ \E keep \in BOOLEAN : LoadCall(keep)

ElfSpec == ElfInit /\ [][ElfNext]_elfVars
-----------------------------------------------------------------------------
\* When remoteproc_load has succeeded, every loadable segment is where its
\* header wants it: the bytes of the file, then padding up to its size in
\* memory (but for the resource table, which is written there at the end).
SegmentsPlaced ==
  ldRet = "ok" =>
    \A k \in 1 .. Phnum :
      LET s == Segment(k)
      IN  s.load => \A b \in 0 .. s.msz - 1 :
            LET m == Mems[Min(MemsWith(s.da, s.msz))]
            IN  ldMem[m.pa + (s.da - m.da) + b] \in {RSC, IF b < s.fsz THEN s.off + b ELSE PAD}

\* However a load ends, nothing of it stays allocated and the store is closed;
\* only a successful one leaves the image information, if it was asked for.
NothingLeaked ==
  ldPc = "off" => /\ ~ldOpen
                  /\ ldHeap # {} => ldRet = "ok" /\ ldKeep /\ ldHeap \subseteq HeaderParts

\* An image's resource table is found when the store can seek, or when the last
\* program header is one that is loaded: then the section headers are fetched
\* after the segments.  (Any other image that cannot be sought starts without
\* its table.)
TableFound ==
  /\ ldRet = "ok" /\ ~ldFault /\ ldImg.shnum > 0
  /\ ldImg.seek \/ Segment(Phnum).load
  => ldSize = ldImg.rsc.len

\* remoteproc_load returns: neither of its loops goes on for ever.
LoadEnds == ldPc # "off" ~> ldPc = "off"

\* What remoteproc_load leaves behind: the segments in place and the table found
\* when it succeeds, and nothing allocated or open when it fails.
LoadExact == SegmentsPlaced /\ TableFound /\ NothingLeaked
=============================================================================
