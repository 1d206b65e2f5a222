------------------------------- MODULE DCache -------------------------------
(***************************************************************************)
(* The cache maintenance calls of core_rv32.h, on a write-back data cache  *)
(* (external: lines that hold memory, written back when dirty and evicted  *)
(* whenever the hardware likes).  A range call is a loop over lines, one   *)
(* cache instruction each; an interrupt handler or the other core may      *)
(* touch the memory between two of them.                                   *)
(***************************************************************************)
EXTENDS Integers

CONSTANTS LINESIZE,  \* 32
          Lines,     \* number of lines of memory
          MaxSize    \* bound on dsize

ASSUME CacheAssumption == LINESIZE \in {1, 2, 4, 8, 16, 32, 64} /\ Lines \in Nat \ {0} /\ MaxSize \in Nat

Line == 0 .. Lines - 1
Kinds == {"invalid", "clean", "clean_invalid"}

VARIABLES dcacheOn,   \* MHCR.DE
          icacheOn,   \* MHCR.IE
          lineState,  \* "invalid", "clean", "dirty"; "lost": not in the cache,
                      \* and its last store has not reached memory
          rangeOp,    \* the kind of the range call under way, or "none"
          opRange,    \* its arguments <<addr, dsize>>
          opAddr, opSize,
          excused     \* lines lost before the call or accessed since it began

dcacheVars == <<dcacheOn, icacheOn, lineState, rangeOp, opRange, opAddr, opSize, excused>>

\* After reset.
DCacheInit ==
  /\ dcacheOn = FALSE /\ icacheOn = FALSE
  /\ lineState = [l \in Line |-> "invalid"]
  /\ rangeOp = "none" /\ opRange = <<0, 0>> /\ opAddr = 0 /\ opSize = 0 /\ excused = {}

AtRest == rangeOp = "none"
NoRange == UNCHANGED <<rangeOp, opRange, opAddr, opSize, excused>>
Present(state) == state \in {"clean", "dirty"}
Dropped(state) == IF state = "dirty" THEN "lost" ELSE IF state = "clean" THEN "invalid" ELSE state
Cleaned(state) == IF state = "dirty" THEN "clean" ELSE state
OnAll(Op(_)) == lineState' = [l \in Line |-> Op(lineState[l])]
CleanDropped(state) == Dropped(Cleaned(state))
-----------------------------------------------------------------------------
(***************************************************************************)
(* The hardware, and accesses of the program or of an interrupt handler.   *)
(***************************************************************************)
Access(l, store) ==
  /\ dcacheOn
  /\ lineState' = [lineState EXCEPT ![l] = IF store \/ @ = "dirty" THEN "dirty" ELSE "clean"]
  /\ excused' = IF AtRest THEN excused ELSE excused \cup {l}
  /\ UNCHANGED <<dcacheOn, icacheOn, rangeOp, opRange, opAddr, opSize>>

Evict(l) ==
  /\ Present(lineState[l])
  /\ lineState' = [lineState EXCEPT ![l] = "invalid"]
  /\ NoRange /\ UNCHANGED <<dcacheOn, icacheOn>>
-----------------------------------------------------------------------------
\* csi_icache_enable, csi_icache_disable; csi_icache_invalid changes no data.
IcacheSet(on) ==
  /\ AtRest /\ icacheOn # on /\ icacheOn' = on
  /\ NoRange /\ UNCHANGED <<dcacheOn, lineState>>

\* Everything in the cache is dropped, then the cache is on.
DcacheEnable ==
  /\ AtRest /\ dcacheOn' = TRUE /\ OnAll(Dropped)
  /\ NoRange /\ UNCHANGED icacheOn

\* The cache is switched off first, and then dropped: what was dirty is lost.
DcacheDisable ==
  /\ AtRest /\ dcacheOn' = FALSE /\ OnAll(Dropped)
  /\ NoRange /\ UNCHANGED icacheOn

DcacheInvalid ==
  /\ AtRest /\ OnAll(Dropped)
  /\ NoRange /\ UNCHANGED <<dcacheOn, icacheOn>>

DcacheClean ==
  /\ AtRest /\ OnAll(Cleaned)
  /\ NoRange /\ UNCHANGED <<dcacheOn, icacheOn>>

DcacheCleanInvalid ==
  /\ AtRest /\ OnAll(CleanDropped)
  /\ NoRange /\ UNCHANGED <<dcacheOn, icacheOn>>
-----------------------------------------------------------------------------
\* Mutant: the bytes in front of a misaligned address are not counted.
OpSizeOfBlock(addr, dsize) == dsize

\* Mutant: the size is rounded up to one more line.
OpSizeRoundedUp(addr, dsize) == dsize + LINESIZE

\* op_size of the three range calls.
OpSize(addr, dsize) == dsize + (addr % LINESIZE)

\* clean_range aligns the address; the others leave that to the instruction.
OpStart(kind, addr) == IF kind = "clean" THEN addr - (addr % LINESIZE) ELSE addr

RangeCall(kind, addr, dsize) ==
  /\ AtRest
  /\ rangeOp' = kind /\ opRange' = <<addr, dsize>>
  /\ opAddr' = OpStart(kind, addr) /\ opSize' = OpSize(addr, dsize)
  /\ excused' = {l \in Line : lineState[l] = "lost"}
  /\ UNCHANGED <<dcacheOn, icacheOn, lineState>>

\* Mutant: clean-and-invalidate does not write back.
CacheOpDrops(kind, state) == IF kind = "clean" THEN Cleaned(state) ELSE Dropped(state)

\* __DCACHE_IPA, __DCACHE_CPA and __DCACHE_CIPA on one line.
CacheOp(kind, state) ==
  CASE kind = "invalid" -> Dropped(state) [] kind = "clean" -> Cleaned(state)
    [] kind = "clean_invalid" -> CleanDropped(state)

\* One turn of the loop; addresses past the modelled memory touch nothing.
RangeStep ==
  /\ ~AtRest /\ opSize > 0
  /\ LET l == opAddr \div LINESIZE
     IN  /\ lineState' = IF l \in Line THEN [lineState EXCEPT ![l] = CacheOp(rangeOp, @)] ELSE lineState
         /\ excused' = {k \in excused : k # l \/ lineState[k] = "lost"}
  /\ opAddr' = opAddr + LINESIZE /\ opSize' = opSize - LINESIZE
  /\ UNCHANGED <<dcacheOn, icacheOn, rangeOp, opRange>>

RangeReturn ==
  /\ ~AtRest /\ opSize <= 0
  /\ rangeOp' = "none" /\ opRange' = <<0, 0>> /\ opAddr' = 0 /\ opSize' = 0 /\ excused' = {}
  /\ UNCHANGED <<dcacheOn, icacheOn, lineState>>

DCacheNext ==
  \/ \E l \in Line : Access(l, TRUE) \/ Access(l, FALSE) \/ Evict(l)
  \/ \E on \in BOOLEAN : IcacheSet(on)
  \/ DcacheEnable \/ DcacheDisable \/ DcacheInvalid \/ DcacheClean \/ DcacheCleanInvalid
  \/ \E kind \in Kinds, addr \in 0 .. Lines * LINESIZE - 1, dsize \in 0 .. MaxSize : RangeCall(kind, addr, dsize)
  \/ RangeStep \/ RangeReturn

DCacheSpec == DCacheInit /\ [][DCacheNext]_dcacheVars
-----------------------------------------------------------------------------
\* The lines with a byte of the range.
InRange == {l \in Line : \E b \in opRange[1] .. opRange[1] + opRange[2] - 1 : b \div LINESIZE = l}

AtReturn == ~AtRest /\ opSize <= 0

\* When csi_dcache_clean_range or csi_dcache_clean_invalid_range is about to
\* return, every store to its range has reached memory, except in lines that
\* were stored to meanwhile: the other core sees the data.
RangeWrittenBack ==
  AtReturn /\ rangeOp # "invalid" => \A l \in InRange \ excused : lineState[l] \notin {"dirty", "lost"}

\* When csi_dcache_invalid_range or csi_dcache_clean_invalid_range is about to
\* return, the next load of any byte of its range comes from memory, except in
\* lines that were accessed meanwhile.
RangeDropped ==
  AtReturn /\ rangeOp # "clean" => \A l \in InRange \ excused : ~Present(lineState[l])

\* A range call leaves the lines outside its range as they are: stores next to
\* a buffer are not thrown away with it.  (A call with size 0 and a misaligned
\* address does operate on one line.)
NeighboursKept ==
  opRange[2] > 0 /\ opSize' < opSize /\ ~AtRest
  => \A l \in Line \ InRange : lineState'[l] = lineState[l]

\* A range call reaches every line of its range and none outside it.
RangeExact ==
  [][RangeWrittenBack' /\ RangeDropped' /\ NeighboursKept]_dcacheVars
=============================================================================
