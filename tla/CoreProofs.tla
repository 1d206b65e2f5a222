----------------------------- MODULE CoreProofs -----------------------------
(***************************************************************************)
(* Theorems about the parts that the core itself needs: the range calls on *)
(* the data cache reach every line of their range and no other, the        *)
(* interrupt controller serves the drivers as they asked, a protected      *)
(* region is the one that was configured, and the intrinsics compute what  *)
(* their arithmetic definitions say.                                       *)
(***************************************************************************)
EXTENDS DCache, Clic, Pmp, Simd, SequenceLemmas

(***************************************************************************)
(* The data cache.                                                         *)
(***************************************************************************)
\* Division of an address by the size of a line.
LEMMA LineOf ==
  ASSUME NEW x \in Nat
  PROVE  /\ LINESIZE \in Nat \ {0}
         /\ x \div LINESIZE \in Nat
         /\ x % LINESIZE \in 0 .. LINESIZE - 1
         /\ (x \div LINESIZE) * LINESIZE + (x % LINESIZE) = x
  BY CacheAssumption, SMT DEF CacheAssumption

\* The line of an address is the one whose bytes hold it.
LEMMA LineIs ==
  ASSUME NEW x \in Nat, NEW q \in Nat
  PROVE  q * LINESIZE <= x /\ x < q * LINESIZE + LINESIZE => x \div LINESIZE = q
  BY CacheAssumption, SMT DEF CacheAssumption

\* The first byte of a line.
LEMMA LineStart ==
  ASSUME NEW q \in Nat
  PROVE  q * LINESIZE \in Nat
  BY CacheAssumption, SMT DEF CacheAssumption

\* The bytes of the line of an address, with the line named.
LEMMA LineSpan ==
  ASSUME NEW x \in Nat, NEW q \in Nat, q = x \div LINESIZE
  PROVE  /\ q * LINESIZE <= x
         /\ x < q * LINESIZE + LINESIZE
         /\ q * LINESIZE + (x % LINESIZE) = x
         /\ x % LINESIZE \in Nat
  BY CacheAssumption, SMT DEF CacheAssumption

\* The next turn of the loop is at the next line.
LEMMA NextLine ==
  ASSUME NEW x \in Nat
  PROVE  /\ x + LINESIZE \in Nat
         /\ (x + LINESIZE) \div LINESIZE = (x \div LINESIZE) + 1
         /\ ((x + LINESIZE) \div LINESIZE) * LINESIZE = (x \div LINESIZE) * LINESIZE + LINESIZE
  BY CacheAssumption, SMT DEF CacheAssumption

\* An address, aligned.
LEMMA Aligned ==
  ASSUME NEW x \in Nat
  PROVE  x - (x % LINESIZE) \in Nat /\ (x - (x % LINESIZE)) \div LINESIZE = x \div LINESIZE
  BY CacheAssumption, SMT DEF CacheAssumption

\* Lines in front of another begin in front of it.
LEMMA LineOrder ==
  ASSUME NEW q \in Nat, NEW r \in Nat
  PROVE  /\ q < r => q * LINESIZE + LINESIZE <= r * LINESIZE
         /\ q * LINESIZE < r * LINESIZE => q < r
  BY CacheAssumption, SMT DEF CacheAssumption

LineStates == {"invalid", "clean", "dirty", "lost"}

CacheTypes ==
  /\ dcacheOn \in BOOLEAN /\ icacheOn \in BOOLEAN
  /\ lineState \in [Line -> LineStates]
  /\ rangeOp \in Kinds \cup {"none"}
  /\ opRange \in Nat \X Nat
  /\ opAddr \in Nat /\ opSize \in Int
  /\ excused \subseteq Line

\* The line that the loop is at.
AtLine == opAddr \div LINESIZE

\* Where the loop is and how many bytes are left add up to the end of the
\* range, whether or not the address was aligned first.
LoopInv ==
  ~AtRest => /\ AtLine >= opRange[1] \div LINESIZE
             /\ AtLine * LINESIZE + opSize = opRange[1] + opRange[2]

\* The lines that the loop has left behind.
Done == {l \in Line : opRange[1] \div LINESIZE <= l /\ l < AtLine}

\* They are as the call promises, except where they were accessed meanwhile;
\* a call that writes back loses nothing itself.
DoneInv ==
  ~AtRest =>
    /\ rangeOp # "invalid" => /\ \A l \in Line : lineState[l] = "lost" => l \in excused
                              /\ \A l \in Done \ excused : lineState[l] # "dirty"
    /\ rangeOp # "clean" => \A l \in Done \ excused : ~Present(lineState[l])

CacheInv == CacheTypes /\ LoopInv /\ DoneInv

\* What a cache instruction makes of a line.
LEMMA CacheOpFacts ==
  ASSUME NEW st \in LineStates, NEW kind \in Kinds
  PROVE  /\ CacheOp(kind, st) \in LineStates
         /\ kind # "invalid" => CacheOp(kind, st) # "dirty" /\ (CacheOp(kind, st) = "lost" => st = "lost")
         /\ kind # "clean" => ~Present(CacheOp(kind, st))
  BY DEF LineStates, Kinds, CacheOp, Dropped, Cleaned, CleanDropped, Present

\* Whole-cache maintenance keeps the types of the lines.
LEMMA WholeFacts ==
  ASSUME NEW st \in LineStates
  PROVE  Dropped(st) \in LineStates /\ Cleaned(st) \in LineStates /\ CleanDropped(st) \in LineStates
  BY DEF LineStates, Dropped, Cleaned, CleanDropped

\* After reset the invariant holds.
LEMMA CacheInvInit == DCacheInit => CacheInv
<1> SUFFICES ASSUME DCacheInit PROVE CacheInv
  OBVIOUS
<1>1. lineState \in [Line -> LineStates]
  BY DEF DCacheInit, LineStates
<1>2. opRange \in Nat \X Nat
  BY DEF DCacheInit
<1>3. /\ dcacheOn \in BOOLEAN /\ icacheOn \in BOOLEAN
      /\ rangeOp \in Kinds \cup {"none"}
      /\ excused \subseteq Line
  BY Zenon DEF DCacheInit
<1>4. opAddr \in Nat /\ opSize \in Int
  BY DEF DCacheInit
<1>5. CacheTypes
  BY <1>1, <1>2, <1>3, <1>4 DEF CacheTypes
<1> QED
  BY <1>5 DEF DCacheInit, CacheInv, LoopInv, DoneInv, AtRest

\* A turn of the loop leaves one more line behind.
LEMMA CacheStep ==
  ASSUME CacheInv, RangeStep
  PROVE  CacheInv'
<1> USE DEF CacheInv
<1>1. PICK q \in Nat : q = AtLine
  BY LineOf DEF CacheTypes, AtLine
<1>2. AtLine' = q + 1 /\ opAddr' \in Nat /\ AtLine' * LINESIZE = q * LINESIZE + LINESIZE
  BY <1>1, NextLine DEF RangeStep, CacheTypes, AtLine
<1>3. /\ rangeOp' = rangeOp /\ opRange' = opRange /\ opSize' = opSize - LINESIZE /\ ~AtRest /\ ~AtRest'
      /\ dcacheOn' = dcacheOn /\ icacheOn' = icacheOn
      /\ rangeOp \in Kinds
  BY DEF RangeStep, AtRest, CacheTypes
<1>4. /\ lineState' = IF q \in Line THEN [lineState EXCEPT ![q] = CacheOp(rangeOp, @)] ELSE lineState
      /\ excused' = {k \in excused : k # q \/ lineState[k] = "lost"}
  BY <1>1 DEF RangeStep, AtLine
<1>5. \A l \in Line : lineState'[l] = IF l = q THEN CacheOp(rangeOp, lineState[l]) ELSE lineState[l]
  BY <1>4 DEF CacheTypes
<1>6. CacheTypes'
  <2>1. lineState' \in [Line -> LineStates]
    BY <1>3, <1>4, CacheOpFacts DEF CacheTypes
  <2>2. opSize' \in Int
    BY <1>3, LineOf DEF CacheTypes
  <2> QED
    BY <1>2, <1>3, <1>4, <2>1, <2>2 DEF CacheTypes
<1>7. LoopInv'
  <2>1. q >= opRange[1] \div LINESIZE /\ q * LINESIZE + opSize = opRange[1] + opRange[2]
    BY <1>1, <1>3 DEF LoopInv
  <2>2. opRange[1] \in Nat /\ opRange[2] \in Nat /\ opSize \in Int
    BY DEF CacheTypes
  <2>3. opRange[1] \div LINESIZE \in Nat /\ LINESIZE \in Nat \ {0}
    BY <2>2, LineOf
  <2>4. q * LINESIZE \in Nat
    BY <2>3
  <2>5. q + 1 >= opRange[1] \div LINESIZE
    BY <2>1, <2>3
  <2>6. (q * LINESIZE + LINESIZE) + (opSize - LINESIZE) = opRange[1] + opRange[2]
    BY <2>1, <2>2, <2>3, <2>4
  <2> QED
    BY <1>2, <1>3, <2>5, <2>6 DEF LoopInv
<1>8. DoneInv'
  <2>1. \A l \in Done' : l \in Line /\ (l = q \/ l \in Done)
    <3> SUFFICES ASSUME NEW l \in Line, opRange[1] \div LINESIZE <= l, l < q + 1, l # q PROVE l < q
      BY <1>1, <1>2, <1>3 DEF Done
    <3> QED
      BY DEF Line
  <2>2. \A l \in Line : lineState[l] \in LineStates
    BY DEF CacheTypes
  <2>3. ASSUME rangeOp # "invalid", NEW l \in Line, lineState'[l] = "lost" PROVE l \in excused'
    <3>1. lineState[l] = "lost"
      BY <1>3, <1>5, <2>2, <2>3, CacheOpFacts
    <3> QED
      BY <1>3, <1>4, <2>3, <3>1 DEF DoneInv
  <2>4. ASSUME rangeOp # "invalid", NEW l \in Done' \ excused' PROVE lineState'[l] # "dirty"
    <3>1. CASE l = q
      BY <1>3, <1>5, <2>1, <2>2, <2>4, <3>1, CacheOpFacts
    <3>2. CASE l # q
      <4>1. l \in Done \ excused
        BY <1>4, <2>1, <3>2
      <4> QED
        BY <1>3, <1>5, <2>1, <2>4, <3>2, <4>1 DEF DoneInv
    <3> QED
      BY <3>1, <3>2
  <2>5. ASSUME rangeOp # "clean", NEW l \in Done' \ excused' PROVE ~Present(lineState'[l])
    <3>1. CASE l = q
      BY <1>3, <1>5, <2>1, <2>2, <2>5, <3>1, CacheOpFacts
    <3>2. CASE l # q
      <4>1. l \in Done \ excused
        BY <1>4, <2>1, <3>2
      <4> QED
        BY <1>3, <1>5, <2>1, <2>5, <3>2, <4>1 DEF DoneInv
    <3> QED
      BY <3>1, <3>2
  <2> QED
    BY <1>3, <2>3, <2>4, <2>5 DEF DoneInv
<1> QED
  BY <1>6, <1>7, <1>8

\* A call begins with no line behind it.
LEMMA CacheCall ==
  ASSUME CacheInv, NEW kind \in Kinds, NEW addr \in Nat, NEW dsize \in Nat, RangeCall(kind, addr, dsize)
  PROVE  CacheInv'
<1>1. opAddr' \in Nat /\ AtLine' = addr \div LINESIZE
  BY LineOf, Aligned DEF RangeCall, OpStart, AtLine
<1>2. PICK q \in Nat : q = addr \div LINESIZE
  BY LineOf
<1>3. opRange' = <<addr, dsize>> /\ opSize' = dsize + (addr % LINESIZE) /\ rangeOp' = kind /\ lineState' = lineState
      /\ excused' = {l \in Line : lineState[l] = "lost"} /\ UNCHANGED <<dcacheOn, icacheOn>>
  BY DEF RangeCall, OpSize
<1>4. q * LINESIZE + (addr % LINESIZE) = addr /\ q * LINESIZE \in Nat /\ addr % LINESIZE \in Nat
  BY <1>2, LineSpan, LineStart
<1>5. CacheTypes'
  <2>1. opSize' \in Int /\ opRange' \in Nat \X Nat
    BY <1>3, <1>4
  <2>2. excused' \subseteq Line /\ rangeOp' \in Kinds \cup {"none"}
    BY <1>3
  <2> QED
    BY <1>1, <1>3, <2>1, <2>2 DEF CacheInv, CacheTypes
<1>6. LoopInv'
  <2>1. q * LINESIZE + (dsize + (addr % LINESIZE)) = addr + dsize
    BY <1>4
  <2> QED
    BY <1>1, <1>2, <1>3, <2>1 DEF LoopInv
<1>7. Done' = {}
  <2> SUFFICES ASSUME NEW l \in Line, q <= l, l < q PROVE FALSE
    BY <1>1, <1>2, <1>3 DEF Done
  <2> QED
    BY DEF Line
<1> QED
  BY <1>3, <1>5, <1>6, <1>7 DEF CacheInv, DoneInv

\* The state of the cache itself changes, outside of any call.
LEMMA CacheWhole ==
  ASSUME CacheInv, DcacheEnable \/ DcacheDisable \/ DcacheInvalid \/ DcacheClean \/ DcacheCleanInvalid
  PROVE  CacheInv'
<1>1. UNCHANGED <<rangeOp, opRange, opAddr, opSize, excused, icacheOn>> /\ AtRest /\ dcacheOn' \in BOOLEAN
  BY DEF DcacheEnable, DcacheDisable, DcacheInvalid, DcacheClean, DcacheCleanInvalid, NoRange, CacheInv, CacheTypes
<1>2. lineState' \in [Line -> LineStates]
  BY WholeFacts DEF DcacheEnable, DcacheDisable, DcacheInvalid, DcacheClean, DcacheCleanInvalid, OnAll, CacheInv, CacheTypes
<1>3. AtRest'
  BY <1>1 DEF AtRest
<1> QED
  BY <1>1, <1>2, <1>3 DEF CacheInv, CacheTypes, LoopInv, DoneInv

\* An access between two turns of the loop is excused; an eviction loses nothing.
LEMMA CacheTouch ==
  ASSUME CacheInv, NEW l \in Line, Access(l, TRUE) \/ Access(l, FALSE) \/ Evict(l)
  PROVE  CacheInv'
<1>1. UNCHANGED <<rangeOp, opRange, opAddr, opSize, icacheOn, dcacheOn>>
  BY DEF Access, Evict, NoRange
<1>2. /\ AtRest' = AtRest
      /\ Done' = Done
      /\ LoopInv'
  BY <1>1 DEF AtRest, Done, AtLine, LoopInv, CacheInv
<1>3. PICK st \in LineStates \ {"lost"} : /\ lineState' = [lineState EXCEPT ![l] = st]
                                          /\ st = "invalid" \/ AtRest \/ l \in excused'
  <2>1. ASSUME NEW store \in BOOLEAN, Access(l, store)
        PROVE  \E st \in {"clean", "dirty"} : /\ lineState' = [lineState EXCEPT ![l] = st]
                                              /\ AtRest \/ l \in excused'
    <3>1. AtRest \/ l \in excused'
      BY <2>1 DEF Access
    <3>2. CASE store \/ lineState[l] = "dirty"
      <4>1. lineState' = [lineState EXCEPT ![l] = "dirty"]
        BY <2>1, <3>2 DEF Access
      <4> QED
        BY <3>1, <4>1
    <3>3. CASE ~(store \/ lineState[l] = "dirty")
      <4>1. lineState' = [lineState EXCEPT ![l] = "clean"]
        BY <2>1, <3>3 DEF Access
      <4> QED
        BY <3>1, <4>1
    <3> QED
      BY <3>2, <3>3
  <2>2. {"clean", "dirty"} \subseteq LineStates \ {"lost"} /\ "invalid" \in LineStates \ {"lost"}
    BY DEF LineStates
  <2>3. ASSUME Evict(l) PROVE lineState' = [lineState EXCEPT ![l] = "invalid"]
    BY <2>3 DEF Evict
  <2> QED
    BY <2>1, <2>2, <2>3
<1>4. excused' \subseteq Line /\ excused \subseteq excused'
  BY DEF Access, Evict, NoRange, CacheInv, CacheTypes
<1>5. lineState \in [Line -> LineStates] /\ lineState' = [lineState EXCEPT ![l] = st]
  BY <1>3 DEF CacheInv, CacheTypes
<1>6. /\ lineState' \in [Line -> LineStates]
      /\ \A k \in Line : lineState'[k] = IF k = l THEN st ELSE lineState[k]
  BY <1>5
<1>7. CacheTypes'
  BY <1>1, <1>4, <1>6 DEF CacheInv, CacheTypes
<1>8. DoneInv'
  <2> SUFFICES ASSUME ~AtRest PROVE DoneInv'
    BY <1>2 DEF DoneInv
  <2>1. ASSUME rangeOp # "invalid", NEW k \in Line, lineState'[k] = "lost" PROVE k \in excused'
    BY <1>3, <1>4, <1>6, <2>1 DEF CacheInv, DoneInv
  <2>2. \A k \in Done : k \in Line
    BY DEF Done
  <2>3. ASSUME rangeOp # "invalid", NEW k \in Done \ excused' PROVE lineState'[k] # "dirty"
    <3>1. k \in Line /\ k \in Done \ excused
      BY <1>4, <2>2, <2>3
    <3> QED
      BY <1>3, <1>6, <2>3, <3>1 DEF CacheInv, DoneInv
  <2>4. ASSUME rangeOp # "clean", NEW k \in Done \ excused' PROVE ~Present(lineState'[k])
    <3>1. k \in Line /\ k \in Done \ excused
      BY <1>4, <2>2, <2>4
    <3> QED
      BY <1>3, <1>6, <2>4, <3>1 DEF CacheInv, DoneInv, Present
  <2> QED
    BY <1>1, <1>2, <2>1, <2>3, <2>4 DEF DoneInv
<1> QED
  BY <1>2, <1>7, <1>8 DEF CacheInv

\* The invariant is inductive.
LEMMA CacheInductive == CacheInv /\ [DCacheNext]_dcacheVars => CacheInv'
<1> SUFFICES ASSUME CacheInv, [DCacheNext]_dcacheVars PROVE CacheInv'
  OBVIOUS
<1>1. ASSUME NEW on \in BOOLEAN, IcacheSet(on) PROVE CacheInv'
  <2>1. UNCHANGED <<lineState, rangeOp, opRange, opAddr, opSize, excused, dcacheOn>> /\ AtRest /\ icacheOn' = on
    BY <1>1 DEF IcacheSet, NoRange
  <2> QED
    BY <2>1 DEF CacheInv, CacheTypes, LoopInv, DoneInv, AtRest
<1>2. ASSUME NEW kind \in Kinds, NEW addr \in 0 .. Lines * LINESIZE - 1, NEW dsize \in 0 .. MaxSize,
             RangeCall(kind, addr, dsize) PROVE CacheInv'
  <2>1. addr \in Nat /\ dsize \in Nat
    BY CacheAssumption, SMT DEF CacheAssumption
  <2> QED
    BY <1>2, <2>1, CacheCall
<1>3. CASE RangeReturn
  <2>1. /\ rangeOp' = "none" /\ opAddr' = 0 /\ opSize' = 0 /\ excused' = {} /\ opRange' = <<0, 0>>
        /\ UNCHANGED <<dcacheOn, icacheOn, lineState>>
    BY <1>3 DEF RangeReturn
  <2>2. opRange' \in Nat \X Nat
    BY <2>1
  <2>3. CacheTypes'
    BY <2>1, <2>2 DEF CacheInv, CacheTypes
  <2> QED
    BY <2>1, <2>3 DEF CacheInv, LoopInv, DoneInv, AtRest
<1>4. CASE UNCHANGED dcacheVars
  BY <1>4 DEF dcacheVars, CacheInv, CacheTypes, LoopInv, DoneInv, Done, AtLine, AtRest
<1> QED
  BY <1>1, <1>2, <1>3, <1>4, CacheStep, CacheWhole, CacheTouch DEF DCacheNext

\* When the loop ends it has left every line of the range behind.
LEMMA AllDone ==
  ASSUME CacheInv, AtReturn
  PROVE  InRange \subseteq Done
<1>1. opRange[1] \in Nat /\ opRange[2] \in Nat /\ opSize \in Int /\ opSize <= 0
  BY DEF CacheInv, CacheTypes, AtReturn
<1>2. PICK q \in Nat : q = AtLine
  BY LineOf DEF CacheInv, CacheTypes, AtLine
<1>3. q * LINESIZE + opSize = opRange[1] + opRange[2] /\ q * LINESIZE \in Nat
  BY <1>2, LineStart DEF CacheInv, LoopInv, AtReturn
<1> SUFFICES ASSUME NEW l \in Line, NEW b \in opRange[1] .. opRange[1] + opRange[2] - 1, b \div LINESIZE = l
             PROVE  opRange[1] \div LINESIZE <= l /\ l < q
  BY <1>2 DEF InRange, Done
<1>4. b \in Nat /\ b < q * LINESIZE /\ opRange[1] <= b
  BY <1>1, <1>3
<1>5. l \in Nat /\ l * LINESIZE \in Nat /\ l * LINESIZE <= b /\ b < l * LINESIZE + LINESIZE
  BY <1>4, LineStart, LineSpan DEF Line
<1>6. l < q
  BY <1>3, <1>4, <1>5, LineOrder
<1>7. PICK r \in Nat : r = opRange[1] \div LINESIZE
  BY <1>1, LineOf
<1>8. r * LINESIZE \in Nat /\ r * LINESIZE <= opRange[1]
  BY <1>1, <1>7, LineSpan, LineStart
<1>9. r <= l
  <2>1. LINESIZE \in Nat
    BY CacheAssumption DEF CacheAssumption
  <2>2. ~(l < r)
    BY <1>1, <1>4, <1>5, <1>8, <2>1, LineOrder
  <2> QED
    BY <1>5, <2>2
<1> QED
  BY <1>6, <1>7, <1>9

\* The loop never is at a line outside of its range.
LEMMA LineInRange ==
  ASSUME CacheInv, RangeStep, opRange[2] > 0, AtLine \in Line
  PROVE  AtLine \in InRange
<1>1. opRange[1] \in Nat /\ opRange[2] \in Nat /\ opSize \in Int /\ opSize > 0 /\ ~AtRest
  BY DEF CacheInv, CacheTypes, RangeStep
<1>2. PICK q \in Nat : q = AtLine
  BY LineOf DEF CacheInv, CacheTypes, AtLine
<1>3. PICK r \in Nat : r = opRange[1] \div LINESIZE
  BY <1>1, LineOf
<1>4. q * LINESIZE + opSize = opRange[1] + opRange[2] /\ q >= r /\ q * LINESIZE \in Nat
  BY <1>1, <1>2, <1>3, LineStart DEF CacheInv, LoopInv
<1>5. \E b \in opRange[1] .. opRange[1] + opRange[2] - 1 : b \div LINESIZE = q
  <2>1. CASE q = r
    <3>1. opRange[1] \in opRange[1] .. opRange[1] + opRange[2] - 1
      BY <1>1
    <3> QED
      BY <1>3, <2>1, <3>1
  <2>2. CASE q > r
    <3>1. LINESIZE \in Nat \ {0} /\ r * LINESIZE \in Nat /\ opRange[1] < r * LINESIZE + LINESIZE
      BY <1>1, <1>3, LineOf, LineStart, LineSpan
    <3>2. r * LINESIZE + LINESIZE <= q * LINESIZE
      BY <2>2, LineOrder
    <3>3. q * LINESIZE \in opRange[1] .. opRange[1] + opRange[2] - 1
      BY <1>1, <1>4, <3>1, <3>2
    <3>4. (q * LINESIZE) \div LINESIZE = q
      BY <1>4, <3>1, LineIs
    <3> QED
      BY <3>3, <3>4
  <2> QED
    BY <1>4, <2>1, <2>2
<1> QED
  BY <1>2, <1>5 DEF InRange

\* Only a turn of the loop moves it on, and it changes the line it is at.
LEMMA NeighboursStay ==
  ASSUME CacheInv, [DCacheNext]_dcacheVars
  PROVE  NeighboursKept
<1> SUFFICES ASSUME opRange[2] > 0, opSize' < opSize, ~AtRest, NEW l \in Line \ InRange
             PROVE  lineState'[l] = lineState[l]
  BY DEF NeighboursKept
<1>1. opSize \in Int /\ ~(opSize < opSize)
  BY DEF CacheInv, CacheTypes
<1>2. RangeStep
  <2>1. opSize' # opSize
    BY <1>1
  <2>2. ~RangeReturn
    BY <1>1 DEF RangeReturn
  <2> QED
    BY <2>1, <2>2 DEF DCacheNext, dcacheVars, Access, Evict, NoRange, IcacheSet, DcacheEnable, DcacheDisable,
                      DcacheInvalid, DcacheClean, DcacheCleanInvalid, RangeCall
<1>3. AtLine \in Line => l # AtLine
  BY <1>2, LineInRange
<1> QED
  BY <1>2, <1>3 DEF RangeStep, AtLine, CacheInv, CacheTypes

\* The range calls of core_rv32.h write back and drop every line of their range
\* and touch no other, for every line size, address and size, however the other
\* core and the handlers access memory between two cache instructions.
THEOREM RangeCallsExact == DCacheSpec => RangeExact
<1>1. CacheInv => RangeWrittenBack /\ RangeDropped
  <2> SUFFICES ASSUME CacheInv, AtReturn
               PROVE  /\ rangeOp # "invalid" => \A l \in InRange \ excused : lineState[l] \notin {"dirty", "lost"}
                      /\ rangeOp # "clean" => \A l \in InRange \ excused : ~Present(lineState[l])
    BY DEF RangeWrittenBack, RangeDropped
  <2>1. \A l \in InRange \ excused : l \in Done \ excused /\ l \in Line
    BY AllDone DEF InRange
  <2> QED
    BY <2>1 DEF CacheInv, DoneInv, AtReturn
<1>2. CacheInv /\ [DCacheNext]_dcacheVars => [NeighboursKept]_dcacheVars
  BY NeighboursStay
<1>3. DCacheSpec => []CacheInv
  BY CacheInvInit, CacheInductive, PTL DEF DCacheSpec
<1> QED
  BY <1>1, <1>2, <1>3, PTL DEF DCacheSpec, RangeExact

(***************************************************************************)
(* The interrupt controller.                                               *)
(***************************************************************************)
\* Interrupt numbers and descriptors.
LEMMA IrqFacts ==
  /\ CLIC_PERIPH_IRQ_OFFSET \in Nat /\ E907_SUNXI_IRQ_MAX \in Nat \ {0} /\ CLIC_IRQ_NUM \in Nat
  /\ \A i \in Irqs : i \in Nat /\ (i >= CLIC_PERIPH_IRQ_OFFSET => i - CLIC_PERIPH_IRQ_OFFSET \in Descs)
  /\ \A d \in Descs : d + CLIC_PERIPH_IRQ_OFFSET \in Irqs /\ d + CLIC_PERIPH_IRQ_OFFSET >= CLIC_PERIPH_IRQ_OFFSET
                      /\ (d + CLIC_PERIPH_IRQ_OFFSET) - CLIC_PERIPH_IRQ_OFFSET = d
  BY ClicAssumption DEF ClicAssumption, Irqs, Descs, CLIC_IRQ_NUM

\* The shift of a priority, and the bits below it.
LEMMA PrioShift ==
  /\ 2^(8 - PRIO_BITS) = 32
  /\ 2^(8 - NLBITS) \in {32, 64, 128}
<1>1. 2^(8 - PRIO_BITS) = 32
  BY DEF PRIO_BITS
<1>2. NLBITS \in {1, 2, 3}
  BY ClicAssumption DEF ClicAssumption, PRIO_BITS
<1>3. CASE NLBITS = 1
  BY <1>1, <1>3
<1>4. CASE NLBITS = 2
  BY <1>1, <1>4
<1>5. CASE NLBITS = 3
  BY <1>1, <1>5
<1> QED
  BY <1>2, <1>3, <1>4, <1>5

\* A priority reads back, whatever the other bits of the register hold.
LEMMA PrioFacts ==
  ASSUME NEW ctl \in Nat, NEW p \in Nat
  PROVE  SetPrio(ctl, p) \in Nat /\ SetPrio(ctl, p) \div 2^(8 - NLBITS) = p
<1>1. PICK m \in {32, 64, 128} : m = 2^(8 - NLBITS)
  BY PrioShift
<1>2. SetPrio(ctl, p) = (ctl % 32) + p * m
  BY <1>1, PrioShift DEF SetPrio
<1>3. (ctl % 32) + p * m \in Nat /\ ((ctl % 32) + p * m) \div m = p
  BY SMT
<1> QED
  BY <1>1, <1>2, <1>3

\* What csi_vic_get_prio reads.
PrioInv ==
  /\ clicCtl \in [Irqs -> Nat]
  /\ wanted \in [Irqs -> Nat]
  /\ PrioReadsBack

\* A critical section is closed as long as something is saved, and only the
\* outermost one has saved an enabled state.
MaskInv ==
  /\ mie \in BOOLEAN
  /\ savedMie \in Seq(BOOLEAN)
  /\ savedMie # <<>> => ~mie
  /\ \A k \in 1 .. Len(savedMie) : k > 1 => ~savedMie[k]
  /\ SectionUninterrupted

VectorNames == ClicHandlers \cup {"SysTick_Handler", "clic_common_handler", "NULL", "Default_Handler"}
Arguments == {<<>>} \cup (Irqs \X ClicHandlers)
Descriptors == [handle_irq : ClicHandlers \cup {"clic_null_handler"}, data : Arguments]

\* Peripherals keep the common handler.
VectorInv ==
  /\ gVector \in [Irqs -> VectorNames]
  /\ \A i \in Irqs : i >= CLIC_PERIPH_IRQ_OFFSET => gVector[i] = "clic_common_handler"

\* A request under way has stored its handler, and has found its interrupt
\* disabled or is recorded as exposed.
RequestInv ==
  request # <<>> =>
    \E i \in Irqs, h \in ClicHandlers :
      /\ request = <<i, h, <<i, h>> >>
      /\ i >= CLIC_PERIPH_IRQ_OFFSET
      /\ irqDesc[i - CLIC_PERIPH_IRQ_OFFSET].handle_irq = h
      /\ i \in clicIE => i \in exposed

\* Every other descriptor in use holds its own argument.
DataInv ==
  \A d \in Descs :
    irqDesc[d].handle_irq \in ClicHandlers
    => \/ irqDesc[d].data = <<d + CLIC_PERIPH_IRQ_OFFSET, irqDesc[d].handle_irq>>
       \/ request # <<>> /\ request[1] = d + CLIC_PERIPH_IRQ_OFFSET

DescInv ==
  /\ irqDesc \in [Descs -> Descriptors]
  /\ VectorInv /\ RequestInv /\ DataInv
  /\ HandlerGetsItsData

ClicInv == PrioInv /\ MaskInv /\ DescInv

\* After irq_vectors_init.
LEMMA ClicInvInit == ClicInit => ClicInv
<1> SUFFICES ASSUME ClicInit PROVE ClicInv
  OBVIOUS
<1>1. PrioInv
  <2>1. \A i \in Irqs : clicCtl[i] = 31 /\ wanted[i] = 0
    BY PrioShift DEF ClicInit
  <2>2. 31 \div 2^(8 - NLBITS) = 0
    <3>1. PICK m \in {32, 64, 128} : m = 2^(8 - NLBITS)
      BY PrioShift
    <3>2. 31 \div m = 0
      BY SMT
    <3> QED
      BY <3>1, <3>2
  <2>3. clicCtl = [i \in Irqs |-> 31] /\ wanted = [i \in Irqs |-> 0]
    BY PrioShift DEF ClicInit
  <2> QED
    BY <2>1, <2>2, <2>3 DEF PrioInv, PrioReadsBack, VicGetPrio
<1>2. MaskInv
  BY DEF ClicInit, MaskInv, SectionUninterrupted
<1>3. irqDesc \in [Descs -> Descriptors]
  <2>1. <<>> \in Arguments
    BY Zenon DEF Arguments
  <2> HIDE DEF Arguments
  <2> QED
    BY <2>1 DEF ClicInit, Descriptors
<1>4. VectorInv
  BY ClicAssumption DEF ClicInit, VectorInv, VectorNames, ClicAssumption
<1>5. DataInv
  <2>1. \A d \in Descs : irqDesc[d].handle_irq = "clic_null_handler"
    BY DEF ClicInit
  <2> QED
    BY <2>1, ClicAssumption DEF DataInv, ClicAssumption
<1>6. RequestInv /\ HandlerGetsItsData
  BY Zenon DEF ClicInit, RequestInv, HandlerGetsItsData
<1> QED
  BY <1>1, <1>2, <1>3, <1>4, <1>5, <1>6 DEF ClicInv, DescInv

\* Priorities change by csi_vic_set_prio only.
LEMMA PrioInductive ==
  ASSUME PrioInv, [ClicNext]_clicVars
  PROVE  PrioInv'
<1>1. ASSUME NEW i \in Irqs, NEW p \in 0 .. 2^NLBITS - 1, VicSetPrio(i, p) PROVE PrioInv'
  <2>1. p \in Nat
    <3>1. 2^NLBITS \in Int => p \in Nat
      OBVIOUS
    <3>2. NLBITS \in {1, 2, 3}
      BY ClicAssumption DEF ClicAssumption, PRIO_BITS
    <3>3. 2^NLBITS \in Int
      <4>1. CASE NLBITS = 1
        BY <4>1
      <4>2. CASE NLBITS = 2
        BY <4>2
      <4>3. CASE NLBITS = 3
        BY <4>3
      <4> QED
        BY <3>2, <4>1, <4>2, <4>3
    <3> QED
      BY <3>1, <3>3
  <2>2. clicCtl' = [clicCtl EXCEPT ![i] = SetPrio(clicCtl[i], p)] /\ wanted' = [wanted EXCEPT ![i] = p]
    BY <1>1 DEF VicSetPrio
  <2>3. PICK v \in Nat : v = SetPrio(clicCtl[i], p) /\ v \div 2^(8 - NLBITS) = p
    BY <2>1, PrioFacts DEF PrioInv
  <2>4. clicCtl' \in [Irqs -> Nat] /\ wanted' \in [Irqs -> Nat]
    BY <2>1, <2>2, <2>3 DEF PrioInv
  <2>5. \A k \in Irqs : clicCtl'[k] = (IF k = i THEN v ELSE clicCtl[k]) /\ wanted'[k] = (IF k = i THEN p ELSE wanted[k])
    BY <2>2, <2>3 DEF PrioInv
  <2>6. \A k \in Irqs : clicCtl[k] \div 2^(8 - NLBITS) = wanted[k]
    BY DEF PrioInv, PrioReadsBack, VicGetPrio
  <2>7. \A k \in Irqs : clicCtl'[k] \div 2^(8 - NLBITS) = wanted'[k]
    BY <2>3, <2>5, <2>6, Zenon
  <2> QED
    BY <2>4, <2>7 DEF PrioInv, PrioReadsBack, VicGetPrio
<1>2. CASE ~ClicPrio
  <2>1. clicCtl' = clicCtl /\ wanted' = wanted
    BY <1>2 DEF ClicNext, ClicIrq, clicVars, EnableIrq, DisableIrq, SetPending, ClearPending, Interrupt, FreeIrq,
                RequestVector, RequestHandler, RequestData, HandlerReturns, IrqSave, IrqRestore
  <2> QED
    BY <2>1 DEF PrioInv, PrioReadsBack, VicGetPrio
<1> QED
  BY <1>1, <1>2 DEF ClicPrio

\* csi_irq_save and csi_irq_restore nest.
LEMMA MaskInductive ==
  ASSUME MaskInv, [ClicNext]_clicVars
  PROVE  MaskInv'
<1> USE DEF MaskInv
<1>1. CASE IrqSave
  <2>1. savedMie' = Append(savedMie, mie) /\ mie' = FALSE /\ inHandler' = inHandler /\ inHandler = <<>>
    BY <1>1 DEF IrqSave, Idle
  <2>2. savedMie' \in Seq(BOOLEAN) /\ Len(savedMie') = Len(savedMie) + 1
        /\ \A k \in 1 .. Len(savedMie') : savedMie'[k] = IF k = Len(savedMie) + 1 THEN mie ELSE savedMie[k]
    BY <2>1
  <2>3. \A k \in 1 .. Len(savedMie') : k > 1 => ~savedMie'[k]
    BY <2>2
  <2> QED
    BY <2>1, <2>2, <2>3 DEF SectionUninterrupted
<1>2. CASE IrqRestore
  <2>1. /\ savedMie # <<>> /\ inHandler' = inHandler /\ inHandler = <<>>
        /\ mie' = savedMie[Len(savedMie)]
        /\ savedMie' = SubSeq(savedMie, 1, Len(savedMie) - 1)
    BY <1>2 DEF IrqRestore, Idle
  <2>2. Len(savedMie) \in Nat \ {0}
    BY <2>1
  <2>3. savedMie' \in Seq(BOOLEAN) /\ Len(savedMie') = Len(savedMie) - 1
        /\ \A k \in 1 .. Len(savedMie') : savedMie'[k] = savedMie[k]
    <3>1. PICK m \in Nat : m = Len(savedMie) - 1
      BY <2>2
    <3>2. SubSeq(savedMie, 1, m) = [k \in 1 .. m |-> savedMie[k]]
      BY <3>1
    <3>3. \A k \in 1 .. m : savedMie[k] \in BOOLEAN
      BY <2>2, <3>1
    <3>4. SubSeq(savedMie, 1, m) \in Seq(BOOLEAN) /\ Len(SubSeq(savedMie, 1, m)) = m
      BY <3>2, <3>3
    <3> QED
      BY <2>1, <3>1, <3>2, <3>4
  <2>4. mie' \in BOOLEAN
    BY <2>1, <2>2
  <2>5. savedMie' # <<>> => ~mie'
    <3> SUFFICES ASSUME savedMie' # <<>> PROVE ~savedMie[Len(savedMie)]
      BY <2>1
    <3>1. Len(savedMie') # 0
      BY <2>3
    <3>2. Len(savedMie) > 1
      BY <2>2, <2>3, <3>1
    <3> QED
      BY <2>2, <3>2
  <2>6. \A k \in 1 .. Len(savedMie') : k > 1 => ~savedMie'[k]
    BY <2>2, <2>3
  <2> QED
    BY <2>1, <2>3, <2>4, <2>5, <2>6 DEF SectionUninterrupted
<1>3. CASE ~IrqSave /\ ~IrqRestore
  <2>1. mie' = mie /\ savedMie' = savedMie
    BY <1>3 DEF ClicNext, ClicIrq, ClicPrio, clicVars, EnableIrq, DisableIrq, SetPending, ClearPending, Interrupt, FreeIrq,
                RequestVector, RequestHandler, RequestData, HandlerReturns, VicSetPrio
  <2>2. savedMie # <<>> => inHandler' = inHandler \/ inHandler' = <<>>
    BY <1>3 DEF ClicNext, ClicIrq, ClicPrio, clicVars, EnableIrq, DisableIrq, SetPending, ClearPending, Interrupt, FreeIrq,
                RequestVector, RequestHandler, RequestData, HandlerReturns, VicSetPrio
  <2> QED
    BY <2>1, <2>2 DEF SectionUninterrupted
<1> QED
  BY <1>1, <1>2, <1>3

\* Interrupts that are neither requested nor taken nor freed.
LEMMA DescKept ==
  ASSUME DescInv, UNCHANGED <<gVector, irqDesc, request, exposed>>,
         clicIE' = clicIE \/ request = <<>>,
         inHandler' = inHandler \/ inHandler' = <<>>
  PROVE  DescInv'
<1>1. (irqDesc \in [Descs -> Descriptors] /\ VectorInv /\ DataInv)'
  BY DEF DescInv, VectorInv, DataInv
<1>2. RequestInv'
  BY DEF DescInv, RequestInv
<1>3. HandlerGetsItsData'
  BY DEF DescInv, HandlerGetsItsData
<1> QED
  BY <1>1, <1>2, <1>3 DEF DescInv

\* A handler runs with its argument, or its interrupt was exposed.
LEMMA DescInterrupt ==
  ASSUME DescInv, NEW i \in Irqs, Interrupt(i)
  PROVE  DescInv'
<1>1. UNCHANGED <<gVector, irqDesc, request, exposed, clicIE>> /\ i \in clicIE /\ inHandler' = Served(i)
  BY DEF Interrupt
<1>2. (irqDesc \in [Descs -> Descriptors] /\ VectorInv /\ DataInv)'
  BY <1>1 DEF DescInv, VectorInv, DataInv
<1>3. RequestInv'
  BY <1>1 DEF DescInv, RequestInv
<1>4. HandlerGetsItsData'
  <2>1. inHandler'[1] = i
    BY <1>1 DEF Served
  <2> SUFFICES ASSUME inHandler'[2] \in ClicHandlers, i >= CLIC_PERIPH_IRQ_OFFSET, i \notin exposed
               PROVE  inHandler'[3] = <<i, inHandler'[2]>>
    BY <1>1, <2>1 DEF HandlerGetsItsData
  <2>2. PICK d \in Descs : d = i - CLIC_PERIPH_IRQ_OFFSET
    BY IrqFacts
  <2>3. gVector[i] = "clic_common_handler"
    BY DEF DescInv, VectorInv
  <2>4. inHandler' = <<i, irqDesc[d].handle_irq, irqDesc[d].data>>
    BY <1>1, <2>2, <2>3 DEF Served
  <2>5. ~(request # <<>> /\ request[1] = i)
    BY <1>1 DEF DescInv, RequestInv
  <2>6. d + CLIC_PERIPH_IRQ_OFFSET = i
    BY <2>2, IrqFacts
  <2> QED
    BY <2>4, <2>5, <2>6 DEF DescInv, DataInv
<1> QED
  BY <1>2, <1>3, <1>4 DEF DescInv

\* A request takes a free descriptor.
LEMMA DescRequest ==
  ASSUME DescInv, NEW i \in Irqs, NEW h \in ClicHandlers, RequestHandler(i, h, <<i, h>>)
  PROVE  DescInv'
<1>1. /\ request = <<>> /\ inHandler = <<>> /\ i >= CLIC_PERIPH_IRQ_OFFSET
      /\ request' = <<i, h, <<i, h>> >>
      /\ UNCHANGED <<gVector, clicIE, inHandler>>
  BY DEF RequestHandler, Call, Idle
<1>2. PICK d \in Descs : d = i - CLIC_PERIPH_IRQ_OFFSET
  BY <1>1, IrqFacts
<1>3. irqDesc' = [irqDesc EXCEPT ![d].handle_irq = h] /\ (i \in clicIE => i \in exposed')
  BY <1>2 DEF RequestHandler
<1>4. irqDesc' \in [Descs -> Descriptors]
  BY <1>3 DEF DescInv, Descriptors
<1>5. \A e \in Descs : e # d => irqDesc'[e] = irqDesc[e]
  BY <1>3 DEF DescInv
<1>6. irqDesc'[d].handle_irq = h
  BY <1>3 DEF DescInv, Descriptors
<1>7. VectorInv'
  BY <1>1 DEF DescInv, VectorInv
<1>8. RequestInv'
  BY <1>1, <1>2, <1>3, <1>6 DEF RequestInv
<1>9. DataInv'
  <2> SUFFICES ASSUME NEW e \in Descs, irqDesc'[e].handle_irq \in ClicHandlers
               PROVE  \/ irqDesc'[e].data = <<e + CLIC_PERIPH_IRQ_OFFSET, irqDesc'[e].handle_irq>>
                      \/ request' # <<>> /\ request'[1] = e + CLIC_PERIPH_IRQ_OFFSET
    BY DEF DataInv
  <2>1. CASE e = d
    BY <1>1, <1>2, <2>1, IrqFacts
  <2>2. CASE e # d
    BY <1>1, <1>5, <2>2 DEF DescInv, DataInv
  <2> QED
    BY <2>1, <2>2
<1>10. HandlerGetsItsData'
  BY <1>1 DEF HandlerGetsItsData
<1> QED
  BY <1>4, <1>7, <1>8, <1>9, <1>10 DEF DescInv

\* The argument is stored where the handler was.
LEMMA DescData ==
  ASSUME DescInv, RequestData
  PROVE  DescInv'
<1>1. request # <<>> /\ inHandler = <<>> /\ request' = <<>> /\ UNCHANGED <<gVector, clicIE, inHandler, exposed>>
  BY DEF RequestData
<1>2. PICK i \in Irqs, h \in ClicHandlers : /\ request = <<i, h, <<i, h>> >>
                                            /\ i >= CLIC_PERIPH_IRQ_OFFSET
                                            /\ irqDesc[i - CLIC_PERIPH_IRQ_OFFSET].handle_irq = h
  BY <1>1 DEF DescInv, RequestInv
<1>3. PICK d \in Descs : d = i - CLIC_PERIPH_IRQ_OFFSET
  BY <1>2, IrqFacts
<1>4. irqDesc' = [irqDesc EXCEPT ![d].data = <<i, h>>] /\ d + CLIC_PERIPH_IRQ_OFFSET = i /\ irqDesc[d].handle_irq = h
  BY <1>2, <1>3, IrqFacts DEF RequestData
<1>5. <<i, h>> \in Arguments
  BY DEF Arguments
<1>6. irqDesc' \in [Descs -> Descriptors]
  <2> HIDE DEF Arguments
  <2> QED
    BY <1>4, <1>5 DEF DescInv, Descriptors
<1>7. \A e \in Descs : e # d => irqDesc'[e] = irqDesc[e]
  BY <1>4 DEF DescInv
<1>8. irqDesc'[d].handle_irq = h /\ irqDesc'[d].data = <<i, h>>
  BY <1>4 DEF DescInv, Descriptors
<1>9. DataInv'
  <2> SUFFICES ASSUME NEW e \in Descs, irqDesc'[e].handle_irq \in ClicHandlers
               PROVE  irqDesc'[e].data = <<e + CLIC_PERIPH_IRQ_OFFSET, irqDesc'[e].handle_irq>>
    BY DEF DataInv
  <2>1. CASE e = d
    BY <1>4, <1>8, <2>1
  <2>2. CASE e # d
    <3>1. request[1] = i /\ i # e + CLIC_PERIPH_IRQ_OFFSET
      BY <1>2, <1>3, <2>2, IrqFacts
    <3> QED
      BY <1>7, <2>2, <3>1 DEF DescInv, DataInv
  <2> QED
    BY <2>1, <2>2
<1>10. VectorInv' /\ RequestInv' /\ HandlerGetsItsData'
  BY <1>1 DEF DescInv, VectorInv, RequestInv, HandlerGetsItsData
<1> QED
  BY <1>6, <1>9, <1>10 DEF DescInv

\* A vector of its own, and a descriptor that is let go.
LEMMA DescFree ==
  ASSUME DescInv, NEW i \in Irqs, FreeIrq(i) \/ (\E h \in ClicHandlers : RequestVector(i, h))
  PROVE  DescInv'
<1>1. request = <<>> /\ inHandler = <<>> /\ UNCHANGED <<request, inHandler, clicIE, exposed>>
  BY DEF FreeIrq, RequestVector, Call, Idle
<1>2. VectorInv'
  <2>1. CASE gVector' = gVector
    BY <2>1 DEF DescInv, VectorInv
  <2>2. CASE gVector' # gVector
    <3>1. PICK v \in VectorNames : gVector' = [gVector EXCEPT ![i] = v] /\ i < CLIC_PERIPH_IRQ_OFFSET
      BY <2>2 DEF FreeIrq, RequestVector, VectorNames
    <3>2. i \in Nat /\ CLIC_PERIPH_IRQ_OFFSET \in Nat
      BY IrqFacts
    <3> QED
      BY <3>1, <3>2 DEF DescInv, VectorInv
  <2> QED
    BY <2>1, <2>2
<1>3. irqDesc' \in [Descs -> Descriptors] /\ \A d \in Descs : irqDesc'[d] = irqDesc[d] \/ irqDesc'[d].handle_irq = "clic_null_handler"
  <2>1. CASE irqDesc' = irqDesc
    BY <2>1 DEF DescInv
  <2>2. CASE irqDesc' # irqDesc
    <3>1. i >= CLIC_PERIPH_IRQ_OFFSET /\ irqDesc' = [irqDesc EXCEPT ![i - CLIC_PERIPH_IRQ_OFFSET].handle_irq = "clic_null_handler"]
      BY <2>2 DEF FreeIrq, RequestVector
    <3>2. PICK e \in Descs : e = i - CLIC_PERIPH_IRQ_OFFSET
      BY <3>1, IrqFacts
    <3> QED
      BY <3>1, <3>2 DEF DescInv, Descriptors
  <2> QED
    BY <2>1, <2>2
<1>4. DataInv'
  BY <1>1, <1>3, ClicAssumption DEF DescInv, DataInv, ClicAssumption
<1>5. RequestInv' /\ HandlerGetsItsData'
  BY <1>1 DEF RequestInv, HandlerGetsItsData
<1> QED
  BY <1>2, <1>3, <1>4, <1>5 DEF DescInv

\* The invariant is inductive.
LEMMA ClicInductive == ClicInv /\ [ClicNext]_clicVars => ClicInv'
<1> SUFFICES ASSUME ClicInv, [ClicNext]_clicVars PROVE ClicInv'
  OBVIOUS
<1> USE DEF ClicInv
<1>1. PrioInv' /\ MaskInv'
  BY PrioInductive, MaskInductive
<1>2. ASSUME NEW i \in Irqs, EnableIrq(i) \/ DisableIrq(i) \/ SetPending(i) \/ ClearPending(i) PROVE DescInv'
  BY <1>2, DescKept DEF EnableIrq, DisableIrq, SetPending, ClearPending, Idle
<1>3. ASSUME HandlerReturns \/ IrqSave \/ IrqRestore \/ ClicPrio \/ UNCHANGED clicVars PROVE DescInv'
  <2>1. UNCHANGED <<gVector, irqDesc, request, exposed, clicIE>> /\ (inHandler' = inHandler \/ inHandler' = <<>>)
    BY <1>3 DEF HandlerReturns, IrqSave, IrqRestore, ClicPrio, VicSetPrio, clicVars
  <2>2. UNCHANGED <<gVector, irqDesc, request, exposed>>
    BY <2>1
  <2>3. clicIE' = clicIE \/ request = <<>>
    BY <2>1
  <2>4. inHandler' = inHandler \/ inHandler' = <<>>
    BY <2>1
  <2> QED
    BY <2>2, <2>3, <2>4, DescKept
<1>4. DescInv'
  BY <1>2, <1>3, DescInterrupt, DescRequest, DescData, DescFree DEF ClicNext, ClicIrq
<1> QED
  BY <1>1, <1>4

\* Nobody but its owner changes a descriptor in use.
LEMMA OwnersStay ==
  ASSUME ClicInv, [ClicNext]_clicVars
  PROVE  OwnerKept
<1> SUFFICES ASSUME NEW d \in Descs, irqDesc[d].handle_irq # "clic_null_handler",
                    request = <<>> \/ request[1] # d + CLIC_PERIPH_IRQ_OFFSET
             PROVE  irqDesc'[d].data = irqDesc[d].data
                    /\ irqDesc'[d].handle_irq \in {irqDesc[d].handle_irq, "clic_null_handler"}
  BY DEF OwnerKept
<1>1. irqDesc \in [Descs -> Descriptors]
  BY DEF ClicInv, DescInv
<1>2. ASSUME NEW i \in Irqs, NEW h \in ClicHandlers, RequestHandler(i, h, <<i, h>>) PROVE irqDesc'[d] = irqDesc[d]
  BY <1>1, <1>2 DEF RequestHandler, FreeSlot
<1>3. CASE RequestData
  <2>1. request # <<>> /\ irqDesc' = [irqDesc EXCEPT ![request[1] - CLIC_PERIPH_IRQ_OFFSET].data = request[3]]
    BY <1>3 DEF RequestData
  <2>2. PICK i \in Irqs, h \in ClicHandlers : request = <<i, h, <<i, h>> >>
    BY <2>1 DEF ClicInv, DescInv, RequestInv
  <2>3. request[1] - CLIC_PERIPH_IRQ_OFFSET # d
    BY <2>1, <2>2, IrqFacts DEF Descs
  <2> QED
    BY <1>1, <2>1, <2>3
<1>4. ASSUME NEW i \in Irqs, FreeIrq(i)
      PROVE  irqDesc'[d].data = irqDesc[d].data
             /\ irqDesc'[d].handle_irq \in {irqDesc[d].handle_irq, "clic_null_handler"}
  <2>1. CASE irqDesc' = irqDesc
    BY <2>1
  <2>2. CASE irqDesc' # irqDesc
    <3>1. irqDesc' = [irqDesc EXCEPT ![i - CLIC_PERIPH_IRQ_OFFSET].handle_irq = "clic_null_handler"]
      BY <1>4, <2>2 DEF FreeIrq
    <3> QED
      BY <1>1, <3>1 DEF Descriptors
  <2> QED
    BY <2>1, <2>2
<1>5. CASE irqDesc' = irqDesc
  BY <1>5
<1> QED
  BY <1>2, <1>3, <1>4, <1>5 DEF ClicNext, ClicIrq, ClicPrio, clicVars, EnableIrq, DisableIrq, SetPending, ClearPending,
                                Interrupt, RequestVector, HandlerReturns, IrqSave, IrqRestore, VicSetPrio

\* arch_request_irq, clic_common_handler, csi_irq_save and csi_vic_set_prio serve
\* drivers as they ask, for every number of interrupts, handlers and priority
\* bits: the right argument also while a request is half done, no interrupt in
\* a section, priorities as set, and no owner displaced.
THEOREM DriversAreServed == ClicSpec => DriversServed
<1>1. ClicInv => HandlerGetsItsData /\ SectionUninterrupted /\ PrioReadsBack
  BY DEF ClicInv, DescInv, MaskInv, PrioInv
<1>2. ClicInv /\ [ClicNext]_clicVars => [OwnerKept]_clicVars
  BY OwnersStay
<1>3. ClicSpec => []ClicInv
  BY ClicInvInit, ClicInductive, PTL DEF ClicSpec
<1> QED
  BY <1>1, <1>2, <1>3, PTL DEF ClicSpec, DriversServed
-----------------------------------------------------------------------------
(***************************************************************************)
(* Powers of two.                                                          *)
(***************************************************************************)
\* A power of two counts subsets.
LEMMA PowCounts ==
  ASSUME NEW n \in Nat
  PROVE  /\ IsFiniteSet(SUBSET (1 .. n)) /\ 2^n = Cardinality(SUBSET (1 .. n))
         /\ 2^n \in Nat \ {0}
<1>1. IsFiniteSet(1 .. n) /\ Cardinality(1 .. n) = n
  <2>1. IsFiniteSet(1 .. n) /\ Cardinality(1 .. n) = IF 1 > n THEN 0 ELSE n - 1 + 1
    BY FS_Interval
  <2> QED
    BY <2>1
<1>2. IsFiniteSet(SUBSET (1 .. n)) /\ Cardinality(SUBSET (1 .. n)) = 2^Cardinality(1 .. n)
  BY <1>1, FS_SUBSET
<1>3. 2^Cardinality(1 .. n) = 2^n
  BY <1>1, Zenon
<1>4. Cardinality(SUBSET (1 .. n)) \in Nat
  BY <1>2, FS_CardinalityType
<1>5. SUBSET (1 .. n) # {}
  <2>1. {} \in SUBSET (1 .. n)
    OBVIOUS
  <2> QED
    BY <2>1, Zenon
<1>6. Cardinality(SUBSET (1 .. n)) # 0
  BY <1>2, <1>5, FS_EmptySet
<1> QED
  BY <1>2, <1>3, <1>4, <1>6

\* The next power is twice as large: a subset has the new element or not.
LEMMA PowNext ==
  ASSUME NEW n \in Nat
  PROVE  2^(n + 1) = 2 * 2^n
<1> DEFINE S == SUBSET (1 .. n)
           W == {A \cup {n + 1} : A \in S}
           f == [A \in S |-> A \cup {n + 1}]
<1>1. n + 1 \in Nat /\ n + 1 \notin 1 .. n /\ 1 .. n + 1 = (1 .. n) \cup {n + 1}
  OBVIOUS
<1>2. IsFiniteSet(S) /\ 2^n = Cardinality(S) /\ 2^n \in Nat
  BY PowCounts
<1>3. IsFiniteSet(W) /\ Cardinality(W) = Cardinality(S)
  <2>1. f \in [S -> W]
    OBVIOUS
  <2>2. ASSUME NEW A \in S, NEW B \in S, f[A] = f[B] PROVE A = B
    <3>1. A \cup {n + 1} = B \cup {n + 1} /\ n + 1 \notin A /\ n + 1 \notin B
      BY <2>2, <1>1
    <3> HIDE DEF f, W
    <3> QED
      BY <3>1, SMT
  <2>3. \A w \in W : \E A \in S : f[A] = w
    OBVIOUS
  <2>4. f \in Bijection(S, W)
    BY <2>1, <2>2, <2>3, Zenon DEF Bijection, Injection, IsInjective, Surjection
  <2>5. ExistsBijection(S, W)
    BY <2>4, Zenon DEF ExistsBijection
  <2> QED
    BY <2>5, <1>2, FS_Bijection
<1>4. S \cap W = {}
  <2>1. ASSUME NEW A \in S, NEW B \in S, A = B \cup {n + 1} PROVE FALSE
    <3>1. n + 1 \in A /\ A \subseteq 1 .. n
      BY <2>1, Zenon
    <3> QED
      BY <3>1, <1>1, Zenon
  <2> QED
    BY <2>1, Zenon
<1>5. SUBSET (1 .. n + 1) = S \cup W
  <2>1. ASSUME NEW A \in SUBSET (1 .. n + 1) PROVE A \in S \cup W
    <3>1. CASE n + 1 \in A
      <4>1. A \ {n + 1} \in S
        BY <1>1
      <4>2. A = (A \ {n + 1}) \cup {n + 1}
        BY <3>1
      <4> QED
        BY <4>1, <4>2, Zenon
    <3>2. CASE n + 1 \notin A
      BY <3>2, <1>1
    <3> QED
      BY <3>1, <3>2
  <2>2. ASSUME NEW A \in S PROVE A \in SUBSET (1 .. n + 1)
    BY <1>1
  <2>3. ASSUME NEW w \in W PROVE w \in SUBSET (1 .. n + 1)
    <3>1. PICK A \in S : w = A \cup {n + 1}
      OBVIOUS
    <3> QED
      BY <3>1, <1>1
  <2> QED
    BY <2>1, <2>2, <2>3, Zenon
<1>6. Cardinality(S \cup W) = Cardinality(S) + Cardinality(W)
  BY <1>2, <1>3, <1>4, DisjointCard
<1>7. 2^(n + 1) = Cardinality(SUBSET (1 .. n + 1))
  BY <1>1, PowCounts
<1>8. 2^(n + 1) = Cardinality(S) + Cardinality(S)
  BY <1>3, <1>5, <1>6, <1>7, Zenon
<1>9. PICK p \in Nat : p = 2^n
  BY <1>2
<1>10. 2^(n + 1) = p + p
  BY <1>2, <1>8, <1>9, Zenon
<1> QED
  BY <1>9, <1>10

\* A smaller power divides a larger one.
LEMMA PowDivides ==
  ASSUME NEW a \in Nat, NEW b \in Nat, a <= b
  PROVE  \E t \in Nat \ {0} : 2^b = 2^a * t
<1> DEFINE n == b - a
           T == {d \in 0 .. n : \E t \in Nat \ {0} : 2^(a + d) = 2^a * t}
<1>0. n \in Nat
  OBVIOUS
<1>1. 2^a \in Nat \ {0}
  BY PowCounts
<1>2. 0 \in T
  <2>1. 2^(a + 0) = 2^a
    <3>1. a + 0 = a
      OBVIOUS
    <3> QED
      BY <3>1, Zenon
  <2>2. 2^a = 2^a * 1
    BY <1>1
  <2> QED
    BY <2>1, <2>2, <1>0
<1>3. ASSUME NEW d \in 1 .. n, d - 1 \in T PROVE d \in T
  <2>1. PICK t \in Nat \ {0} : 2^(a + (d - 1)) = 2^a * t
    BY <1>3
  <2>2. a + (d - 1) \in Nat /\ (a + (d - 1)) + 1 = a + d
    BY <1>0
  <2>3. 2^((a + (d - 1)) + 1) = 2 * 2^(a + (d - 1))
    BY <2>2, PowNext
  <2>4. 2^(a + d) = 2 * (2^a * t)
    BY <2>1, <2>2, <2>3, Zenon
  <2>5. 2 * (2^a * t) = 2^a * (2 * t) /\ 2 * t \in Nat \ {0}
    <3>1. PICK p \in Nat : p = 2^a
      BY <1>1
    <3>2. 2 * (p * t) = p * (2 * t)
      BY SMT
    <3> QED
      BY <3>1, <3>2
  <2>6. 2^(a + d) = 2^a * (2 * t)
    BY <2>4, <2>5, Zenon
  <2>7. d \in 0 .. n
    BY <1>0, <1>3
  <2> QED
    BY <2>5, <2>6, <2>7, Zenon
<1>4. T = 0 .. n
  <2> HIDE DEF T
  <2>1. T \in SUBSET (0 .. n)
    BY DEF T
  <2> QED
    BY <1>0, <1>2, <1>3, <2>1, Along
<1>5. n \in 0 .. n /\ a + n = b
  BY <1>0
<1>6. n \in T
  BY <1>4, <1>5, Zenon
<1> QED
  BY <1>5, <1>6, Zenon

(***************************************************************************)
(* Protected regions: the address of a naturally aligned region.           *)
(***************************************************************************)
\* What a number with k ones at its end looks like.
LEMMA EndingOnes ==
  ASSUME NEW n \in Nat, NEW k \in Nat, n % 2^(k + 1) = 2^k - 1
  PROVE  \E m \in Int : n + 1 = 2^k * (2 * m + 1)
<1>1. PICK p \in Nat \ {0} : p = 2^k
  BY PowCounts
<1>2. 2^(k + 1) = 2 * p
  BY <1>1, PowNext
<1>3. n % (2 * p) = p - 1
  BY <1>1, <1>2, Zenon
<1>4. PICK m \in Int : n = (2 * p) * m + (n % (2 * p))
  <2>1. 2 * p \in Nat \ {0}
    OBVIOUS
  <2> QED
    BY <2>1, DivMod, Zenon
<1>5. n + 1 = p * (2 * m + 1)
  BY <1>3, <1>4, SMT
<1> QED
  BY <1>1, <1>5, Zenon

\* A number is not twice an integer and one more.
LEMMA OddOnce ==
  ASSUME NEW x \in Int, NEW y \in Int
  PROVE  2 * x # 2 * y + 1
  BY SMT

\* A power of two times an odd number determines both.
LEMMA OneOddPart ==
  ASSUME NEW j \in Nat, NEW k \in Nat, j < k, NEW m \in Int, NEW q \in Int,
         2^j * (2 * m + 1) = 2^k * (2 * q + 1)
  PROVE  FALSE
<1>1. PICK t \in Nat \ {0} : 2^k = 2^(j + 1) * t
  BY PowDivides
<1>2. PICK p \in Nat \ {0} : p = 2^j
  BY PowCounts
<1>3. 2^(j + 1) = 2 * p
  BY <1>2, PowNext
<1>4. 2^k = (2 * p) * t
  BY <1>1, <1>3, Zenon
<1>5. p * (2 * m + 1) = ((2 * p) * t) * (2 * q + 1)
  BY <1>2, <1>4, Zenon
<1>6. PICK z \in Int : z = t * (2 * q + 1)
  OBVIOUS
<1>7. ((2 * p) * t) * (2 * q + 1) = p * (2 * z)
  BY <1>6, SMT
<1>8. 2 * m + 1 = 2 * z
  BY <1>5, <1>7, SMT
<1> QED
  BY <1>8, OddOnce

\* What the hardware reads off the address of a naturally aligned region.
LEMMA OnesCounted ==
  ASSUME ADDR_BITS \in Nat, NEW s \in 0 .. ADDR_BITS, NEW q \in Nat, NEW n \in Nat,
         n = 2^(s + 1) * q + (2^s - 1)
  PROVE  TrailingOnes(n) = s
<1>0. s \in Nat
  OBVIOUS
<1>1. PICK p \in Nat \ {0} : p = 2^s
  BY <1>0, PowCounts
<1>2. 2^(s + 1) = 2 * p
  BY <1>0, <1>1, PowNext
<1>3. n = (2 * p) * q + (p - 1)
  BY <1>1, <1>2, Zenon
<1>4. n % (2 * p) = p - 1
  <2>0. 2 * p \in Nat \ {0} /\ p - 1 \in 0 .. 2 * p - 1 /\ q \in Int
    OBVIOUS
  <2>1. PICK x \in Int : n = (2 * p) * x + (n % (2 * p))
    BY <2>0, DivMod, Zenon
  <2>2. n % (2 * p) \in 0 .. 2 * p - 1
    BY <2>0, DivMod, Zenon
  <2>3. (2 * p) * x + (n % (2 * p)) = (2 * p) * q + (p - 1)
    BY <1>3, <2>1, Zenon
  <2> QED
    BY <2>0, <2>2, <2>3, RemainderUnique, Zenon
<1>5. n % 2^(s + 1) = 2^s - 1
  BY <1>1, <1>2, <1>4, Zenon
<1>6. ASSUME NEW k \in 0 .. ADDR_BITS, n % 2^(k + 1) = 2^k - 1 PROVE k = s
  <2>0. k \in Nat
    OBVIOUS
  <2>1. PICK m \in Int : n + 1 = 2^k * (2 * m + 1)
    BY <1>6, <2>0, EndingOnes, Zenon
  <2>2. PICK r \in Int : n + 1 = 2^s * (2 * r + 1)
    BY <1>0, <1>5, EndingOnes, Zenon
  <2>3. ~(k < s)
    BY <1>0, <2>0, <2>1, <2>2, OneOddPart, Zenon
  <2>4. ~(s < k)
    BY <1>0, <2>0, <2>1, <2>2, OneOddPart, Zenon
  <2> QED
    BY <2>3, <2>4
<1>7. \A k \in 0 .. ADDR_BITS : n % 2^(k + 1) = 2^k - 1 <=> k = s
  BY <1>5, <1>6, Zenon
<1> QED
  BY <1>7, Zenon DEF TrailingOnes

\* The address register of a naturally aligned region, and back.
LEMMA NapotExact ==
  ASSUME ADDR_BITS \in Nat, NEW s \in 0 .. ADDR_BITS - 3, NEW base \in Nat, base % 2^(s + 3) = 0
  PROVE  LET addr == NapotAddr(base, s)
         IN  /\ addr \in Nat /\ TrailingOnes(addr) = s
             /\ 4 * (addr - (2^s - 1)) = base
<1>0. s \in Nat /\ s + 1 \in Nat /\ s + 2 \in Nat /\ s \in 0 .. ADDR_BITS
  OBVIOUS
<1>1. PICK p \in Nat \ {0} : p = 2^s
  BY <1>0, PowCounts
<1>2. 2^(s + 1) = 2 * p
  BY <1>0, <1>1, PowNext
<1>3. 2^(s + 3) = 8 * p
  <2>1. 2^((s + 1) + 1) = 2 * 2^(s + 1)
    BY <1>0, PowNext, Zenon
  <2>2. 2^((s + 2) + 1) = 2 * 2^(s + 2)
    BY <1>0, PowNext, Zenon
  <2>3. (s + 1) + 1 = s + 2 /\ (s + 2) + 1 = s + 3
    OBVIOUS
  <2>4. 2^(s + 3) = 2 * (2 * (2 * p))
    BY <2>1, <2>2, <2>3, <1>2, Zenon
  <2> QED
    BY <2>4
<1>4. base % (8 * p) = 0
  BY <1>3, Zenon
<1>5. PICK q \in Int : base = (8 * p) * q
  <2>0. 8 * p \in Nat \ {0}
    OBVIOUS
  <2>1. PICK x \in Int : base = (8 * p) * x + (base % (8 * p))
    BY <2>0, DivMod, Zenon
  <2>2. base = (8 * p) * x + 0
    BY <2>1, <1>4, Zenon
  <2>3. base = (8 * p) * x
    BY <2>2
  <2> QED
    BY <2>3, Zenon
<1>6. PICK w \in Int : w = p * q
  OBVIOUS
<1>7. base = 8 * w
  BY <1>5, <1>6, SMT
<1>8. base \div 4 = 2 * w /\ 2 * w \in Nat
  BY <1>7
<1>9. 2 * w = (2 * p) * q
  BY <1>6, SMT
<1>10. (2 * w) % (2 * p) = 0
  <2>0. 2 * p \in Nat \ {0} /\ 0 \in 0 .. 2 * p - 1
    OBVIOUS
  <2>1. PICK x \in Int : 2 * w = (2 * p) * x + ((2 * w) % (2 * p))
    BY <1>8, <2>0, DivMod, Zenon
  <2>2. (2 * w) % (2 * p) \in 0 .. 2 * p - 1
    BY <1>8, <2>0, DivMod, Zenon
  <2>3. (2 * p) * q + 0 = (2 * p) * q
    BY <1>9
  <2>4. (2 * p) * x + ((2 * w) % (2 * p)) = (2 * p) * q + 0
    BY <1>9, <2>1, <2>3, Zenon
  <2> QED
    BY <2>0, <2>2, <2>4, RemainderUnique, Zenon
<1>11. NapotAddr(base, s) = 2 * w + (p - 1)
  <2>1. NapotAddr(base, s) = 2 * w - ((2 * w) % (2 * p)) + p - 1
    BY <1>1, <1>2, <1>8, Zenon DEF NapotAddr
  <2> QED
    BY <2>1, <1>10
<1>12. q \in Nat
  BY <1>5, SMT
<1>13. 2 * w + (p - 1) \in Nat
  BY <1>8
<1>14. 2 * w + (p - 1) = 2^(s + 1) * q + (2^s - 1)
  BY <1>1, <1>2, <1>9, Zenon
<1>15. TrailingOnes(2 * w + (p - 1)) = s
  BY <1>0, <1>12, <1>13, <1>14, OnesCounted, Zenon
<1>16. 4 * ((2 * w + (p - 1)) - (p - 1)) = base
  BY <1>7
<1> QED
  BY <1>1, <1>11, <1>13, <1>15, <1>16, Zenon

(***************************************************************************)
(* The inductive invariant of the protected regions.                       *)
(***************************************************************************)
\* What is recorded of a call.
PmpConfig == [base : Nat, size : Int, a : {OFF, TOR, NAPOT}, enable : BOOLEAN, half : BOOLEAN]

\* pmpcfg0 .. pmpcfg3, each four bytes.
CfgRegisters == [0 .. 3 -> [0 .. 3 -> 0 .. 255]]

\* The registers have their sizes.
PmpTypeOK ==
  /\ pmpcfg \in CfgRegisters /\ pmpaddr \in [Regions16 -> Nat]
  /\ config \in [Regions16 -> PmpConfig] /\ pmpCalls \in Nat

\* What csi_mpu_config_region writes into the address register.
RegionAddr(base, size, mode) ==
  IF mode = TOR \/ size = -1 THEN base \div 4 ELSE NapotAddr(base, size)

\* The registers of a region are what its last call asked for, but for an address
\* that was locked then.
Recorded(c, cfg, addr) ==
  /\ ABits(cfg) = Mode(c.a, c.size, c.enable)
  /\ c.a # OFF => /\ c.size \in -1 .. ADDR_BITS - 3 /\ c.base % 2^(c.size + 3) = 0
                  /\ c.half \/ addr = RegionAddr(c.base, c.size, Mode(c.a, c.size, c.enable))

PmpInv ==
  /\ PmpTypeOK
  /\ \A i \in Regions16 : Recorded(config[i], GetPMPxCFG(pmpcfg, i), pmpaddr[i])

\* Modes are different numbers.
LEMMA PmpModes == OFF = 0 /\ TOR = 1 /\ NA4 = 2 /\ NAPOT = 3
  BY DEF OFF, TOR, NA4, NAPOT

\* Two regions share a register, or a place in theirs, but not both.
LEMMA RegionPlace ==
  ASSUME NEW i \in Regions16, NEW j \in Regions16
  PROVE  /\ i \div 4 \in 0 .. 3 /\ i % 4 \in 0 .. 3
         /\ i \div 4 = j \div 4 /\ i % 4 = j % 4 => i = j
  BY DEF Regions16

\* __set_PMPxCFG replaces the byte of its region, unless it is locked, and no
\* The byte of region idx is cfg, unless it was locked, and the others are as before.
OneByteSet(cfgs, idx, cfg, new) ==
  /\ new \in CfgRegisters
  /\ Locked(GetPMPxCFG(cfgs, idx)) => new = cfgs
  /\ ~Locked(GetPMPxCFG(cfgs, idx)) => GetPMPxCFG(new, idx) = cfg
  /\ \A i \in Regions16 : i # idx => GetPMPxCFG(new, i) = GetPMPxCFG(cfgs, i)

\* other.
LEMMA SetByte ==
  ASSUME NEW cfgs \in CfgRegisters, NEW idx \in Regions16, NEW cfg \in 0 .. 255,
         NEW new, new = SetPMPxCFG(cfgs, idx, cfg)
  PROVE  OneByteSet(cfgs, idx, cfg, new)
<1> DEFINE k == idx \div 4
           j == idx % 4
<1>0. cfgs \in [0 .. 3 -> [0 .. 3 -> 0 .. 255]]
  BY DEF CfgRegisters
<1>1. k \in 0 .. 3 /\ j \in 0 .. 3
  BY RegionPlace
<1>2. GetPMPxCFG(cfgs, idx) = cfgs[k][j]
  BY DEF GetPMPxCFG
<1>3. new = IF Locked(cfgs[k][j]) THEN cfgs ELSE [cfgs EXCEPT ![k][j] = cfg]
  BY DEF SetPMPxCFG, Written
<1>4. CASE Locked(cfgs[k][j])
  <2>1. new = cfgs
    BY <1>3, <1>4, Zenon
  <2> QED
    BY <1>2, <1>4, <2>1, Zenon DEF OneByteSet
<1>5. CASE ~Locked(cfgs[k][j])
  <2>1. new = [cfgs EXCEPT ![k] = [cfgs[k] EXCEPT ![j] = cfg]]
    BY <1>0, <1>3, <1>5, <1>1
  <2>2. [cfgs[k] EXCEPT ![j] = cfg] \in [0 .. 3 -> 0 .. 255]
    BY <1>0, <1>1
  <2>3. new \in CfgRegisters
    <3>1. PICK x, z : x = k /\ z = [cfgs[k] EXCEPT ![j] = cfg]
      OBVIOUS
    <3>2. x \in 0 .. 3 /\ z \in [0 .. 3 -> 0 .. 255] /\ new = [cfgs EXCEPT ![x] = z]
      BY <1>1, <2>1, <2>2, <3>1, Zenon
    <3> HIDE DEF k, j
    <3>3. [cfgs EXCEPT ![x] = z] \in [0 .. 3 -> [0 .. 3 -> 0 .. 255]]
      BY <1>0, <3>2
    <3> QED
      BY <3>2, <3>3, Zenon DEF CfgRegisters
  <2>4. new[k][j] = cfg
    BY <1>0, <1>1, <2>1
  <2>5. GetPMPxCFG(new, idx) = cfg
    BY <2>4 DEF GetPMPxCFG
  <2>6. ASSUME NEW i \in Regions16, i # idx
        PROVE  GetPMPxCFG(new, i) = GetPMPxCFG(cfgs, i)
    <3>1. PICK x \in 0 .. 3, y \in 0 .. 3 : x = i \div 4 /\ y = i % 4 /\ ~(x = k /\ y = j)
      BY <2>6, RegionPlace
    <3>2. new[x][y] = cfgs[x][y]
      <4>1. CASE x = k
        <5>1. y # j
          BY <3>1, <4>1
        <5>2. new[k] = [cfgs[k] EXCEPT ![j] = cfg]
          BY <1>0, <1>1, <2>1
        <5> QED
          BY <1>0, <1>1, <4>1, <5>1, <5>2
      <4>2. CASE x # k
        BY <1>0, <1>1, <2>1, <4>2
      <4> QED
        BY <4>1, <4>2
    <3> QED
      BY <3>1, <3>2 DEF GetPMPxCFG
  <2> QED
    BY <1>2, <1>5, <2>3, <2>5, <2>6, Zenon DEF OneByteSet
<1> QED
  BY <1>4, <1>5

\* The fields of a byte.
LEMMA ByteFields ==
  ASSUME NEW r \in {0, 1}, NEW m \in 0 .. 3, NEW l \in {0, 1}
  PROVE  /\ 7 * r + 8 * m + 128 * l \in 0 .. 255
         /\ ABits(7 * r + 8 * m + 128 * l) = m
  BY DEF ABits

\* Without its mode a byte has mode OFF.
LEMMA ByteCleared ==
  ASSUME NEW b \in 0 .. 255
  PROVE  b - 8 * ABits(b) \in 0 .. 255 /\ ABits(b - 8 * ABits(b)) = OFF
<1>1. PICK q \in 0 .. 31, x \in 0 .. 7 : b = 8 * q + x /\ b \div 8 = q
  BY SMT
<1>2. PICK h \in 0 .. 7, m \in 0 .. 3 : q = 4 * h + m /\ q % 4 = m
  BY SMT
<1>3. ABits(b) = m
  BY <1>1, <1>2 DEF ABits
<1>4. (32 * h + x) \div 8 = 4 * h /\ (4 * h) % 4 = 0
  BY SMT
<1>5. b - 8 * m = 32 * h + x
  BY <1>1, <1>2
<1> QED
  BY <1>3, <1>4, <1>5, PmpModes DEF ABits

\* Every region has a byte.
LEMMA GetByte ==
  ASSUME NEW cfgs \in CfgRegisters, NEW i \in Regions16
  PROVE  GetPMPxCFG(cfgs, i) \in 0 .. 255
<1>1. PICK k \in 0 .. 3, j \in 0 .. 3 : k = i \div 4 /\ j = i % 4
  BY RegionPlace
<1>2. GetPMPxCFG(cfgs, i) = cfgs[k][j]
  BY <1>1, Zenon DEF GetPMPxCFG
<1>3. cfgs[k] \in [0 .. 3 -> 0 .. 255]
  BY DEF CfgRegisters
<1> QED
  BY <1>2, <1>3

\* A byte that is zero.
LEMMA ByteZero == ABits(0) = 0
  BY DEF ABits

\* What an entry protects depends on its mode and address, and on the address
\* below it when it is the top of a range.
LEMMA ProtectedSame ==
  ASSUME NEW c1, NEW a1, NEW c2, NEW a2, NEW i \in Regions16,
         ABits(GetPMPxCFG(c1, i)) = ABits(GetPMPxCFG(c2, i)), a1[i] = a2[i],
         ABits(GetPMPxCFG(c1, i)) \in {OFF, TOR, NA4, NAPOT},
         ABits(GetPMPxCFG(c1, i)) = TOR /\ i # 0 => a1[i - 1] = a2[i - 1]
  PROVE  Protected(c1, a1, i) = Protected(c2, a2, i)
<1>1. GetPMPADDRx(a1, i) = GetPMPADDRx(a2, i)
  BY DEF GetPMPADDRx
<1>2. PICK mode : mode = ABits(GetPMPxCFG(c1, i)) /\ mode = ABits(GetPMPxCFG(c2, i))
  OBVIOUS
<1>3. CASE mode = TOR
  <2>1. (IF i = 0 THEN 0 ELSE a1[i - 1]) = (IF i = 0 THEN 0 ELSE a2[i - 1])
    BY <1>2, <1>3
  <2> QED
    BY <1>1, <1>2, <1>3, <2>1, PmpModes, Zenon DEF Protected
<1>4. CASE mode = OFF
  BY <1>1, <1>2, <1>4, PmpModes DEF Protected
<1>5. CASE mode = NA4
  BY <1>1, <1>2, <1>5, PmpModes DEF Protected
<1>6. CASE mode = NAPOT
  BY <1>1, <1>2, <1>6, PmpModes DEF Protected
<1> QED
  BY <1>2, <1>3, <1>4, <1>5, <1>6

\* Every entry is off at the start.
LEMMA PmpInvInit == PmpInit => PmpInv
<1> SUFFICES ASSUME PmpInit PROVE PmpInv
  OBVIOUS
<1>1. PmpTypeOK
  BY PmpModes DEF PmpInit, PmpTypeOK, CfgRegisters, PmpConfig, NoConfig
<1>2. ASSUME NEW i \in Regions16 PROVE Recorded(config[i], GetPMPxCFG(pmpcfg, i), pmpaddr[i])
  <2>1. config[i] = NoConfig
    BY DEF PmpInit
  <2>2. GetPMPxCFG(pmpcfg, i) = 0
    BY RegionPlace DEF PmpInit, GetPMPxCFG
  <2> QED
    BY <2>1, <2>2, ByteZero, PmpModes DEF Recorded, NoConfig, Mode
<1> QED
  BY <1>1, <1>2 DEF PmpInv

\* A mode has two bits.
LEMMA ModeType ==
  ASSUME NEW a \in {OFF, TOR, NAPOT}, NEW size, NEW enable \in BOOLEAN
  PROVE  Mode(a, size, enable) \in {OFF, TOR, NA4, NAPOT} /\ Mode(a, size, enable) \in 0 .. 3
  BY PmpModes DEF Mode

\* The address that is written is a number.
LEMMA RegionAddrType ==
  ASSUME NEW base \in Nat, NEW size \in -1 .. ADDR_BITS - 3, base % 2^(size + 3) = 0, NEW mode
  PROVE  RegionAddr(base, size, mode) \in Nat
<1>1. CASE mode = TOR \/ size = -1
  <2>1. base \div 4 \in Nat
    BY SMT
  <2> QED
    BY <1>1, <2>1, Zenon DEF RegionAddr
<1>2. CASE ~(mode = TOR \/ size = -1)
  <2>1. size \in 0 .. ADDR_BITS - 3 /\ ADDR_BITS \in Nat
    BY <1>2, PmpAssumption DEF PmpAssumption
  <2>2. NapotAddr(base, size) \in Nat
    BY <2>1, NapotExact
  <2> QED
    BY <1>2, <2>2, Zenon DEF RegionAddr
<1> QED
  BY <1>1, <1>2

\* A write that leaves the modes of the other regions alone, and the addresses,
\* changes no region but its own, apart from a range that ends above it: where
\* that one is locked, the address is.
LEMMA OthersStay ==
  ASSUME PmpInv, NEW idx \in Regions16, NEW cfgs, NEW addr \in Nat,
         \A i \in Regions16 : i # idx => GetPMPxCFG(cfgs, i) = GetPMPxCFG(pmpcfg, i),
         NEW i \in Regions16, i # idx,
         ~(ABits(GetPMPxCFG(pmpcfg, i)) = TOR /\ ~Locked(GetPMPxCFG(pmpcfg, i)))
  PROVE  Protected(cfgs, SetPMPADDRx(pmpaddr, idx, addr), i) = Protected(pmpcfg, pmpaddr, i)
<1> DEFINE new == SetPMPADDRx(pmpaddr, idx, addr)
<1>1. pmpaddr \in [Regions16 -> Nat]
  BY DEF PmpInv, PmpTypeOK
<1>2. \A j \in Regions16 : j # idx => new[j] = pmpaddr[j]
  BY <1>1 DEF SetPMPADDRx
<1>3. AddrLocked(pmpcfg, idx) => new = pmpaddr
  BY DEF SetPMPADDRx
<1>4. ABits(GetPMPxCFG(pmpcfg, i)) \in {OFF, TOR, NA4, NAPOT}
  BY ModeType DEF PmpInv, PmpTypeOK, PmpConfig, Recorded
<1>5. ASSUME ABits(GetPMPxCFG(pmpcfg, i)) = TOR, i # 0 PROVE new[i - 1] = pmpaddr[i - 1]
  <2>1. CASE i - 1 = idx
    <3>1. i = idx + 1 /\ Locked(GetPMPxCFG(pmpcfg, i))
      BY <1>5, <2>1 DEF Regions16
    <3>2. AddrLocked(pmpcfg, idx)
      BY <1>5, <3>1, Zenon DEF AddrLocked
    <3> QED
      BY <1>3, <3>2, Zenon
  <2>2. CASE i - 1 # idx
    <3>1. i - 1 \in Regions16
      BY <1>5 DEF Regions16
    <3> QED
      BY <1>2, <2>2, <3>1, Zenon
  <2> QED
    BY <2>1, <2>2
<1>6. GetPMPxCFG(cfgs, i) = GetPMPxCFG(pmpcfg, i)
  OBVIOUS
<1>7. new[i] = pmpaddr[i]
  BY <1>2
<1> HIDE DEF new
<1>8. Protected(cfgs, new, i) = Protected(pmpcfg, pmpaddr, i)
  BY <1>4, <1>5, <1>6, <1>7, ProtectedSame
<1> QED
  BY <1>8 DEF new

\* csi_mpu_config_region.
LEMMA ConfigKeeps ==
  ASSUME PmpInv, NEW idx, NEW size \in Sizes_e, NEW a \in {TOR, NAPOT}, NEW r \in {0, 1}, NEW l \in {0, 1},
         NEW enable \in BOOLEAN, NEW base \in Nat, base % 2^(size + 3) = 0,
         ConfigRegion(idx, base, size, r, a, l, enable)
  PROVE  PmpInv' /\ OthersKept
<1>0. /\ idx \in Regions16 /\ size \in -1 .. ADDR_BITS - 3 /\ size \in Int /\ a # OFF /\ a \in {OFF, TOR, NAPOT}
      /\ pmpCalls' \in Nat
  BY PmpAssumption, PmpModes DEF PmpAssumption, ConfigRegion, PmpInv, PmpTypeOK
<1>1. PICK mode : mode = Mode(a, size, enable)
  OBVIOUS
<1>2. mode \in {OFF, TOR, NA4, NAPOT} /\ mode \in 0 .. 3
  BY <1>0, <1>1, ModeType
<1>3. PICK addr \in Nat : addr = RegionAddr(base, size, mode)
  BY <1>0, RegionAddrType
<1>4. PICK cfg : cfg \in 0 .. 255 /\ cfg = 7 * r + 8 * mode + 128 * l /\ ABits(cfg) = mode
  BY <1>2, ByteFields
<1>5. PICK half \in BOOLEAN : half = AddrLocked(pmpcfg, idx)
  BY Zenon DEF AddrLocked
<1>6. PICK c \in PmpConfig : c = [base |-> base, size |-> size, a |-> a, enable |-> enable, half |-> half]
  BY <1>0 DEF PmpConfig
<1>7. pmpcfg' = SetPMPxCFG(pmpcfg, idx, cfg) /\ pmpaddr' = SetPMPADDRx(pmpaddr, idx, addr)
  <2>1. pmpaddr' = SetPMPADDRx(pmpaddr, idx, RegionAddr(base, size, mode))
    BY <1>1, Zenon DEF ConfigRegion, RegionAddr
  <2>2. pmpcfg' = SetPMPxCFG(pmpcfg, idx, 7 * r + 8 * mode + 128 * l)
    BY <1>1, Zenon DEF ConfigRegion
  <2> QED
    BY <1>3, <1>4, <2>1, <2>2, Zenon
<1>8. config' = [config EXCEPT ![idx] = IF Locked(GetPMPxCFG(pmpcfg, idx)) THEN config[idx] ELSE c]
  BY <1>0, <1>5, <1>6 DEF ConfigRegion
<1>9. /\ pmpcfg \in CfgRegisters /\ pmpaddr \in [Regions16 -> Nat]
      /\ config \in [Regions16 -> PmpConfig]
      /\ \A i \in Regions16 : Recorded(config[i], GetPMPxCFG(pmpcfg, i), pmpaddr[i])
  BY DEF PmpInv, PmpTypeOK
<1>10. /\ pmpcfg' \in CfgRegisters
       /\ Locked(GetPMPxCFG(pmpcfg, idx)) => pmpcfg' = pmpcfg
       /\ ~Locked(GetPMPxCFG(pmpcfg, idx)) => GetPMPxCFG(pmpcfg', idx) = cfg
       /\ \A i \in Regions16 : i # idx => GetPMPxCFG(pmpcfg', i) = GetPMPxCFG(pmpcfg, i)
  <2>1. PICK new : new = pmpcfg'
    OBVIOUS
  <2>2. pmpcfg \in CfgRegisters /\ cfg \in 0 .. 255 /\ new = SetPMPxCFG(pmpcfg, idx, cfg)
    BY <1>4, <1>7, <1>9, <2>1, Zenon
  <2>3. OneByteSet(pmpcfg, idx, cfg, new)
    BY <1>0, <2>2, SetByte
  <2> QED
    BY <2>1, <2>3, Zenon DEF OneByteSet
<1>11. /\ pmpaddr' \in [Regions16 -> Nat] /\ (half => pmpaddr' = pmpaddr) /\ (~half => pmpaddr'[idx] = addr)
       /\ \A i \in Regions16 : i # idx => pmpaddr'[i] = pmpaddr[i]
  BY <1>0, <1>5, <1>7, <1>9 DEF SetPMPADDRx
<1>12. /\ config' \in [Regions16 -> PmpConfig]
       /\ config'[idx] = IF Locked(GetPMPxCFG(pmpcfg, idx)) THEN config[idx] ELSE c
       /\ \A i \in Regions16 : i # idx => config'[i] = config[i]
  <2>1. PICK new \in PmpConfig : new = IF Locked(GetPMPxCFG(pmpcfg, idx)) THEN config[idx] ELSE c
    BY <1>0, <1>9
  <2>2. config' = [config EXCEPT ![idx] = new]
    BY <1>8, <2>1, Zenon
  <2> QED
    BY <1>0, <1>9, <2>1, <2>2
<1>13. Locked(GetPMPxCFG(pmpcfg, idx)) => half
  BY <1>5, Zenon DEF AddrLocked
<1>14. PmpInv'
  <2>1. PmpTypeOK'
    BY <1>0, <1>10, <1>11, <1>12 DEF PmpTypeOK
  <2>2. ASSUME NEW i \in Regions16
        PROVE  Recorded(config'[i], GetPMPxCFG(pmpcfg', i), pmpaddr'[i])
    <3>1. CASE i # idx
      BY <1>9, <1>10, <1>11, <1>12, <3>1, Zenon
    <3>2. CASE i = idx /\ Locked(GetPMPxCFG(pmpcfg, idx))
      BY <1>9, <1>10, <1>11, <1>12, <1>13, <3>2, Zenon
    <3>3. CASE i = idx /\ ~Locked(GetPMPxCFG(pmpcfg, idx))
      <4>1. config'[i] = c /\ GetPMPxCFG(pmpcfg', i) = cfg /\ (half \/ pmpaddr'[i] = addr)
        BY <1>10, <1>11, <1>12, <3>3, Zenon
      <4>2. c.base = base /\ c.size = size /\ c.a = a /\ c.enable = enable /\ c.half = half
        BY <1>6
      <4>3. Mode(c.a, c.size, c.enable) = mode
        BY <1>1, <4>2, Zenon
      <4>4. ABits(GetPMPxCFG(pmpcfg', i)) = Mode(c.a, c.size, c.enable)
        BY <1>4, <4>1, <4>3, Zenon
      <4>5. c.half \/ pmpaddr'[i] = RegionAddr(c.base, c.size, Mode(c.a, c.size, c.enable))
        BY <1>3, <4>1, <4>2, <4>3, Zenon
      <4>6. c.size \in -1 .. ADDR_BITS - 3 /\ c.base % 2^(c.size + 3) = 0
        BY <1>0, <4>2, Zenon
      <4> QED
        BY <4>1, <4>4, <4>5, <4>6, Zenon DEF Recorded
    <3> QED
      BY <3>1, <3>2, <3>3
  <2> QED
    BY <2>1, <2>2 DEF PmpInv
<1>15. OthersKept
  <2> SUFFICES ASSUME NEW i \in Regions16, config'[i] = config[i],
                      ~(ABits(GetPMPxCFG(pmpcfg, i)) = TOR /\ ~Locked(GetPMPxCFG(pmpcfg, i)))
               PROVE  Protected(pmpcfg, pmpaddr, i)' = Protected(pmpcfg, pmpaddr, i)
    BY Zenon DEF OthersKept
  <2>1. Protected(pmpcfg', pmpaddr', i) = Protected(pmpcfg, pmpaddr, i)
    <3>1. CASE i # idx
      BY <1>0, <1>7, <1>10, <3>1, OthersStay
    <3>2. CASE i = idx /\ Locked(GetPMPxCFG(pmpcfg, idx))
      BY <1>10, <1>11, <1>13, <3>2, Zenon
    <3>3. CASE i = idx /\ ~Locked(GetPMPxCFG(pmpcfg, idx))
      <4>1. config[i] = c /\ GetPMPxCFG(pmpcfg', i) = cfg /\ (half \/ pmpaddr'[i] = addr)
        BY <1>10, <1>11, <1>12, <3>3, Zenon
      <4>2. c.base = base /\ c.size = size /\ c.a = a /\ c.enable = enable /\ c.half = half
        BY <1>6
      <4>3. Recorded(c, GetPMPxCFG(pmpcfg, i), pmpaddr[i])
        BY <1>9, <4>1, Zenon
      <4>4. ABits(GetPMPxCFG(pmpcfg, i)) = mode /\ ABits(GetPMPxCFG(pmpcfg', i)) = mode
        BY <1>1, <1>4, <4>1, <4>2, <4>3, Zenon DEF Recorded
      <4>5. ~half => pmpaddr[i] = addr
        BY <1>0, <1>1, <1>3, <4>2, <4>3, Zenon DEF Recorded
      <4>6. pmpaddr'[i] = pmpaddr[i]
        BY <1>11, <4>1, <4>5, Zenon
      <4>7. i # 0 => pmpaddr'[i - 1] = pmpaddr[i - 1]
        <5>1. i # 0 => i - 1 \in Regions16 /\ i - 1 # idx
          BY <3>3 DEF Regions16
        <5> QED
          BY <1>11, <5>1, Zenon
      <4>8. ABits(GetPMPxCFG(pmpcfg', i)) \in {OFF, TOR, NA4, NAPOT}
        BY <1>2, <4>4, Zenon
      <4>9. ABits(GetPMPxCFG(pmpcfg', i)) = ABits(GetPMPxCFG(pmpcfg, i))
        BY <4>4, Zenon
      <4>10. ABits(GetPMPxCFG(pmpcfg', i)) = TOR /\ i # 0 => pmpaddr'[i - 1] = pmpaddr[i - 1]
        BY <4>7, Zenon
      <4>11. PICK c1, a1 : c1 = pmpcfg' /\ a1 = pmpaddr'
        OBVIOUS
      <4>12. Protected(c1, a1, i) = Protected(pmpcfg, pmpaddr, i)
        BY <4>6, <4>8, <4>9, <4>10, <4>11, ProtectedSame
      <4> QED
        BY <4>11, <4>12, Zenon
    <3> QED
      BY <3>1, <3>2, <3>3
  <2> QED
    BY <2>1
<1> QED
  BY <1>14, <1>15

\* csi_mpu_disable_region.
LEMMA DisableKeeps ==
  ASSUME PmpInv, NEW idx \in Nat, DisableRegion(idx)
  PROVE  PmpInv' /\ OthersKept
<1>1. /\ pmpcfg \in CfgRegisters /\ pmpaddr \in [Regions16 -> Nat]
      /\ config \in [Regions16 -> PmpConfig]
      /\ \A i \in Regions16 : Recorded(config[i], GetPMPxCFG(pmpcfg, i), pmpaddr[i])
      /\ pmpCalls' \in Nat /\ pmpaddr' = pmpaddr
  BY DEF PmpInv, PmpTypeOK, DisableRegion
<1>2. CASE idx \notin Regions16
  <2>1. pmpcfg' = pmpcfg /\ config' = config
    BY <1>2, Zenon DEF DisableRegion, SetPMPxCFG
  <2>2. PmpInv'
    BY <1>1, <2>1 DEF PmpInv, PmpTypeOK
  <2>3. OthersKept
    BY <1>1, <2>1, Zenon DEF OthersKept
  <2> QED
    BY <2>2, <2>3
<1>3. CASE idx \in Regions16
  <2>1. PICK b \in 0 .. 255 : b = GetPMPxCFG(pmpcfg, idx)
    BY <1>1, <1>3, GetByte
  <2>2. PICK cfg : cfg \in 0 .. 255 /\ cfg = b - 8 * ABits(b) /\ ABits(cfg) = OFF
    BY ByteCleared
  <2>3. pmpcfg' = SetPMPxCFG(pmpcfg, idx, cfg)
    BY <2>1, <2>2, Zenon DEF DisableRegion
  <2>4. /\ pmpcfg' \in CfgRegisters
        /\ Locked(GetPMPxCFG(pmpcfg, idx)) => pmpcfg' = pmpcfg
        /\ ~Locked(GetPMPxCFG(pmpcfg, idx)) => GetPMPxCFG(pmpcfg', idx) = cfg
        /\ \A i \in Regions16 : i # idx => GetPMPxCFG(pmpcfg', i) = GetPMPxCFG(pmpcfg, i)
    <3>1. PICK new : new = pmpcfg'
      OBVIOUS
    <3>2. pmpcfg \in CfgRegisters /\ cfg \in 0 .. 255 /\ new = SetPMPxCFG(pmpcfg, idx, cfg)
      BY <1>1, <2>2, <2>3, <3>1, Zenon
    <3>3. OneByteSet(pmpcfg, idx, cfg, new)
      BY <1>3, <3>2, SetByte
    <3> QED
      BY <3>1, <3>3, Zenon DEF OneByteSet
  <2>5. NoConfig \in PmpConfig /\ NoConfig.a = OFF /\ Mode(NoConfig.a, NoConfig.size, NoConfig.enable) = OFF
    BY PmpModes DEF NoConfig, PmpConfig, Mode
  <2>6. /\ config' \in [Regions16 -> PmpConfig]
        /\ Locked(GetPMPxCFG(pmpcfg, idx)) => config' = config
        /\ ~Locked(GetPMPxCFG(pmpcfg, idx)) => config'[idx] = NoConfig
        /\ \A i \in Regions16 : i # idx => config'[i] = config[i]
    <3>1. CASE Locked(GetPMPxCFG(pmpcfg, idx))
      <4>1. config' = config
        BY <3>1, Zenon DEF DisableRegion
      <4> QED
        BY <1>1, <3>1, <4>1, Zenon
    <3>2. CASE ~Locked(GetPMPxCFG(pmpcfg, idx))
      <4>1. config' = [config EXCEPT ![idx] = NoConfig]
        BY <1>3, <3>2, Zenon DEF DisableRegion
      <4>2. PICK new \in PmpConfig : new = NoConfig
        BY <2>5, Zenon
      <4>3. config' = [config EXCEPT ![idx] = new]
        BY <4>1, <4>2, Zenon
      <4> QED
        BY <1>1, <1>3, <3>2, <4>2, <4>3
    <3> QED
      BY <3>1, <3>2
  <2>7. PmpInv'
    <3>1. PmpTypeOK'
      BY <1>1, <2>4, <2>6 DEF PmpTypeOK
    <3>2. ASSUME NEW i \in Regions16
          PROVE  Recorded(config'[i], GetPMPxCFG(pmpcfg', i), pmpaddr'[i])
      <4>1. CASE i # idx
        BY <1>1, <2>4, <2>6, <4>1, Zenon
      <4>2. CASE i = idx /\ Locked(GetPMPxCFG(pmpcfg, idx))
        BY <1>1, <2>4, <2>6, <4>2, Zenon
      <4>3. CASE i = idx /\ ~Locked(GetPMPxCFG(pmpcfg, idx))
        BY <2>2, <2>4, <2>5, <2>6, <4>3, Zenon DEF Recorded
      <4> QED
        BY <4>1, <4>2, <4>3
    <3> QED
      BY <3>1, <3>2 DEF PmpInv
  <2>8. OthersKept
    <3> SUFFICES ASSUME NEW i \in Regions16, config'[i] = config[i]
                 PROVE  Protected(pmpcfg, pmpaddr, i)' = Protected(pmpcfg, pmpaddr, i)
      BY Zenon DEF OthersKept
    <3>1. ABits(GetPMPxCFG(pmpcfg', i)) = ABits(GetPMPxCFG(pmpcfg, i))
      <4>1. CASE i # idx
        BY <2>4, <4>1, Zenon
      <4>2. CASE i = idx /\ Locked(GetPMPxCFG(pmpcfg, idx))
        BY <2>4, <4>2, Zenon
      <4>3. CASE i = idx /\ ~Locked(GetPMPxCFG(pmpcfg, idx))
        BY <1>1, <2>2, <2>4, <2>5, <2>6, <4>3, Zenon DEF Recorded
      <4> QED
        BY <4>1, <4>2, <4>3
    <3>2. ABits(GetPMPxCFG(pmpcfg', i)) \in {OFF, TOR, NA4, NAPOT}
      BY <1>1, <3>1, ModeType DEF Recorded, PmpConfig
    <3> QED
      BY <1>1, <3>1, <3>2, ProtectedSame
  <2> QED
    BY <2>7, <2>8
<1> QED
  BY <1>2, <1>3

\* After a reset every entry is off.
LEMMA ResetKeeps ==
  ASSUME PmpReset
  PROVE  PmpInv'
<1>1. PmpTypeOK'
  BY PmpModes DEF PmpReset, PmpTypeOK, CfgRegisters, PmpConfig, NoConfig
<1>2. ASSUME NEW i \in Regions16 PROVE Recorded(config'[i], GetPMPxCFG(pmpcfg', i), pmpaddr'[i])
  <2>1. config'[i] = NoConfig
    BY DEF PmpReset
  <2>2. GetPMPxCFG(pmpcfg', i) = 0
    BY RegionPlace DEF PmpReset, GetPMPxCFG
  <2> QED
    BY <2>1, <2>2, ByteZero, PmpModes DEF Recorded, NoConfig, Mode
<1> QED
  BY <1>1, <1>2 DEF PmpInv

\* What is recorded is what is protected.
LEMMA PmpInvExact == PmpInv => RegionExact
<1> SUFFICES ASSUME PmpInv, NEW i \in Regions16
             PROVE  LET c == config[i]
                    IN  /\ c.enable /\ c.a = NAPOT /\ ~c.half
                             => Protected(pmpcfg, pmpaddr, i) = c.base .. c.base + 2^(c.size + 3) - 1
                        /\ ~c.enable /\ c.size # -1 => Protected(pmpcfg, pmpaddr, i) = {}
  BY DEF RegionExact
<1>1. PICK c \in PmpConfig : c = config[i]
  BY DEF PmpInv, PmpTypeOK
<1>2. PICK base \in Nat, size \in Int : base = c.base /\ size = c.size
  BY DEF PmpConfig
<1>3. PICK mode : mode = Mode(c.a, c.size, c.enable) /\ mode = ABits(GetPMPxCFG(pmpcfg, i))
  BY <1>1 DEF PmpInv, Recorded
<1>4. PICK addr \in Nat : addr = pmpaddr[i] /\ GetPMPADDRx(pmpaddr, i) = addr
  BY DEF PmpInv, PmpTypeOK, GetPMPADDRx
<1>5. ASSUME c.enable, c.a = NAPOT, ~c.half
      PROVE  Protected(pmpcfg, pmpaddr, i) = base .. base + 2^(size + 3) - 1
  <2>1. size \in -1 .. ADDR_BITS - 3 /\ base % 2^(size + 3) = 0 /\ addr = RegionAddr(base, size, mode)
    BY <1>1, <1>2, <1>3, <1>4, <1>5, PmpModes DEF PmpInv, Recorded
  <2>2. CASE size = -1
    <3>1. mode = NA4
      BY <1>2, <1>3, <1>5, <2>2, PmpModes DEF Mode
    <3>2. size + 3 = 2
      BY <2>2
    <3>3. 2^(size + 3) = 2^2
      BY <3>2, Zenon
    <3>4. 2^(size + 3) = 4
      BY <3>3
    <3>5. base % 4 = 0
      BY <2>1, <3>4, Zenon
    <3>6. addr = base \div 4
      BY <2>1, <2>2 DEF RegionAddr
    <3>7. 4 * addr = base
      BY <3>5, <3>6
    <3>8. Protected(pmpcfg, pmpaddr, i) = 4 * addr .. 4 * addr + 3
      BY <1>3, <1>4, <3>1, PmpModes DEF Protected
    <3>9. base + 4 - 1 = 4 * addr + 3
      BY <3>7
    <3> QED
      BY <3>4, <3>7, <3>8, <3>9, Zenon
  <2>3. CASE size # -1
    <3>0. size \in 0 .. ADDR_BITS - 3 /\ ADDR_BITS \in Nat
      BY <2>1, <2>3, PmpAssumption DEF PmpAssumption
    <3>1. mode = NAPOT
      BY <1>2, <1>3, <1>5, <2>3, PmpModes DEF Mode
    <3>2. addr = NapotAddr(base, size)
      BY <2>1, <2>3, <3>1, PmpModes DEF RegionAddr
    <3>3. TrailingOnes(addr) = size /\ 4 * (addr - (2^size - 1)) = base
      BY <2>1, <3>0, <3>2, NapotExact
    <3>4. Protected(pmpcfg, pmpaddr, i)
            = 4 * (addr - (2^size - 1)) .. 4 * (addr - (2^size - 1)) + 2^(size + 3) - 1
      <4>1. Protected(pmpcfg, pmpaddr, i)
              = 4 * (addr - (2^TrailingOnes(addr) - 1)) ..
                  4 * (addr - (2^TrailingOnes(addr) - 1)) + 2^(TrailingOnes(addr) + 3) - 1
        BY <1>3, <1>4, <3>1, PmpModes DEF Protected
      <4> QED
        BY <3>3, <4>1, Zenon
    <3> QED
      BY <3>3, <3>4, Zenon
  <2> QED
    BY <2>2, <2>3
<1>6. ASSUME ~c.enable, c.size # -1 PROVE Protected(pmpcfg, pmpaddr, i) = {}
  <2>1. mode = OFF
    BY <1>3, <1>6, PmpModes DEF Mode
  <2> QED
    BY <1>3, <1>4, <2>1, PmpModes DEF Protected
<1> QED
  BY <1>1, <1>2, <1>5, <1>6, Zenon

\* Every call keeps PmpInv and the other regions.
LEMMA PmpInductive ==
  PmpInv /\ [PmpNext]_pmpVars => PmpInv' /\ (pmpCalls' > pmpCalls => OthersKept)
<1> SUFFICES ASSUME PmpInv, [PmpNext]_pmpVars
             PROVE  PmpInv' /\ (pmpCalls' > pmpCalls => OthersKept)
  OBVIOUS
<1>1. ASSUME NEW idx \in PmpIdx, NEW size \in Sizes_e, NEW a \in {TOR, NAPOT}, NEW rl \in {<<1, 0>>, <<0, 1>>},
             NEW enable \in BOOLEAN, NEW base \in {b \in 0 .. 2^ADDR_BITS - 1 : b % 2^(size + 3) = 0},
             ConfigRegion(idx, base, size, rl[1], a, rl[2], enable)
      PROVE  PmpInv' /\ OthersKept
  <2>1. rl[1] \in {0, 1} /\ rl[2] \in {0, 1} /\ base \in Nat /\ base % 2^(size + 3) = 0
    OBVIOUS
  <2> QED
    BY <1>1, <2>1, ConfigKeeps
<1>2. ASSUME NEW idx \in PmpIdx, DisableRegion(idx) PROVE PmpInv' /\ OthersKept
  <2>1. idx \in Nat
    BY PmpAssumption DEF PmpAssumption
  <2> QED
    BY <1>2, <2>1, DisableKeeps
<1>3. CASE PmpReset
  <2>1. ~(pmpCalls' > pmpCalls)
    BY <1>3, PmpAssumption DEF PmpReset, PmpAssumption
  <2> QED
    BY <1>3, <2>1, ResetKeeps
<1>4. CASE UNCHANGED pmpVars
  <2>1. ~(pmpCalls' > pmpCalls)
    BY <1>4 DEF pmpVars, PmpInv, PmpTypeOK
  <2>2. PmpInv'
    BY <1>4 DEF pmpVars, PmpInv, PmpTypeOK
  <2> QED
    BY <2>1, <2>2
<1> QED
  BY <1>1, <1>2, <1>3, <1>4 DEF PmpNext, PmpCall

\* A region protects exactly the bytes it was configured for, and no call for one
\* region changes another, for every address width and every number of calls
\* (csi_mpu_config_region, csi_mpu_disable_region).
THEOREM RegionsAreExact == PmpSpec => RegionsExact
<1>1. PmpInit => PmpInv
  BY PmpInvInit
<1>2. PmpInv /\ [PmpNext]_pmpVars => PmpInv' /\ (pmpCalls' > pmpCalls => OthersKept)
  BY PmpInductive
<1>3. PmpInv' => RegionExact'
  BY PmpInvExact, PTL
<1>4. PmpInv /\ [PmpNext]_pmpVars => [pmpCalls' > pmpCalls => RegionExact' /\ OthersKept]_pmpVars
  BY <1>2, <1>3, Zenon
<1> QED
  BY <1>1, <1>2, <1>4, PTL DEF PmpSpec, RegionsExact

(***************************************************************************)
(* The intrinsics: quotients and remainders of integers.                   *)
(***************************************************************************)
\* An integer is its quotient and its remainder.
LEMMA DivParts ==
  ASSUME NEW n \in Nat \ {0}, NEW x \in Int
  PROVE  x \div n \in Int /\ x % n \in 0 .. n - 1 /\ x = (x \div n) * n + (x % n)
  BY SMT

\* They are the only ones.
LEMMA DivUnique ==
  ASSUME NEW n \in Nat \ {0}, NEW q \in Int, NEW r \in 0 .. n - 1, NEW x, x = q * n + r
  PROVE  x % n = r /\ x \div n = q
  BY SMT

\* Products of integers.
LEMMA Products ==
  ASSUME NEW a \in Int, NEW b \in Int, NEW c \in Int
  PROVE  /\ a * b \in Int /\ a * b = b * a /\ a * (b * c) = (a * b) * c
         /\ a * (b + c) = a * b + a * c /\ a * (b - c) = a * b - a * c
         /\ (b + c) * a = b * a + c * a /\ (b - c) * a = b * a - c * a
  BY SMT

\* And of natural numbers.
LEMMA NatProducts ==
  ASSUME NEW a \in Nat, NEW b \in Nat, NEW c \in Nat
  PROVE  /\ a * b \in Nat /\ (a > 0 /\ b > 0 => a * b > 0)
         /\ (b <= c => a * b <= a * c) /\ (a > 0 /\ b < c => a * b < a * c)
         /\ (a > 0 => b <= a * b)
  BY SMT

\* A digit below another one.
LEMMA TwoDigits ==
  ASSUME NEW n \in Nat \ {0}, NEW m \in Nat, NEW h \in 0 .. m - 1, NEW l \in 0 .. n - 1
  PROVE  h * n + l \in 0 .. m * n - 1
<1>1. h * n \in Nat /\ m * n \in Nat
  BY SMT
<1>2. (h + 1) * n <= m * n
  BY SMT
<1>3. (h + 1) * n = h * n + n
  BY SMT
<1> QED
  BY <1>1, <1>2, <1>3

\* Dividing by a product is dividing twice.
LEMMA DivTwice ==
  ASSUME NEW m \in Nat \ {0}, NEW n \in Nat \ {0}, NEW x \in Int
  PROVE  /\ x \div (m * n) = (x \div n) \div m
         /\ x % (m * n) = ((x \div n) % m) * n + (x % n)
         /\ (x % (m * n)) \div n = (x \div n) % m
         /\ (x % (m * n)) % n = x % n
<1>1. PICK q \in Int, r \in 0 .. n - 1 : q = x \div n /\ r = x % n /\ x = q * n + r
  BY DivParts
<1>2. PICK p \in Int, s \in 0 .. m - 1 : p = q \div m /\ s = q % m /\ q = p * m + s
  BY DivParts
<1>3. m * n \in Nat \ {0}
  BY SMT
<1>4. x = p * (m * n) + (s * n + r)
  <2>1. q * n = (p * m) * n + s * n
    BY <1>2, Products
  <2>2. (p * m) * n = p * (m * n)
    BY Products
  <2>3. (p * m) * n \in Int /\ s * n \in Int
    BY SMT
  <2> QED
    BY <1>1, <2>1, <2>2, <2>3
<1>5. s * n + r \in 0 .. m * n - 1
  BY TwoDigits
<1>6. x % (m * n) = s * n + r /\ x \div (m * n) = p
  <2>1. PICK w \in Nat \ {0} : w = m * n
    BY <1>3
  <2>2. PICK e \in 0 .. w - 1 : e = s * n + r
    BY <1>5, <2>1
  <2>3. x = p * w + e
    BY <1>4, <2>1, <2>2
  <2>4. x % w = e /\ x \div w = p
    BY <2>3, DivUnique
  <2> QED
    BY <2>1, <2>2, <2>4
<1>7. (s * n + r) \div n = s /\ (s * n + r) % n = r
  BY DivUnique
<1> QED
  BY <1>1, <1>2, <1>6, <1>7

\* A quotient of a quotient.
LEMMA DivOfDiv ==
  ASSUME NEW m \in Nat \ {0}, NEW n \in Nat \ {0}, NEW x \in Int
  PROVE  x \div (m * n) = (x \div n) \div m
  BY DivTwice

\* A quotient of a remainder.
LEMMA DivOfMod ==
  ASSUME NEW m \in Nat \ {0}, NEW n \in Nat \ {0}, NEW x \in Int
  PROVE  (x % (m * n)) \div n = (x \div n) % m
  BY DivTwice

\* A factor in front of both.
LEMMA ModFactor ==
  ASSUME NEW m \in Nat \ {0}, NEW n \in Nat \ {0}, NEW x \in Int
  PROVE  (x * n) % (m * n) = (x % m) * n
<1>1. PICK y \in Int : y = x * n
  BY Products
<1>2. y % n = 0 /\ y \div n = x
  BY <1>1, DivUnique
<1>3. y % (m * n) = ((y \div n) % m) * n + (y % n)
  BY DivTwice
<1>4. (x % m) * n \in Int
  <2>1. x % m \in Int
    BY DivParts
  <2> QED
    BY <2>1, Products
<1> QED
  BY <1>1, <1>2, <1>3, <1>4

\* The field of x at factor r, of length d: shifted up by p and then down by r * p.
FieldIs(p, r, d, x) ==
  /\ ((x * p) % (d * (r * p))) \div (r * p) = (x \div r) % d
  /\ (x * p) % (d * (r * p)) = ((x \div r) % d) * (r * p) + (x % r) * p
  /\ (x % r) * p \in 0 .. r * p - 1

\* The bits of a field, shifted up.
LEMMA Field ==
  ASSUME NEW p \in Nat \ {0}, NEW r \in Nat \ {0}, NEW d \in Nat \ {0}, NEW x \in Int
  PROVE  FieldIs(p, r, d, x)
<1>1. PICK y \in Int : y = x * p
  BY Products
<1>2. r * p \in Nat \ {0}
  BY NatProducts
<1>3. y \div p = x /\ y % p = 0
  BY <1>1, DivUnique
<1>4. y \div (r * p) = x \div r
  BY <1>3, DivTwice
<1>5. y % (r * p) = (x % r) * p
  BY <1>1, ModFactor
<1>6. PICK rp \in Nat \ {0} : rp = r * p
  BY <1>2
<1>7. (y % (d * rp)) \div rp = (y \div rp) % d /\ y % (d * rp) = ((y \div rp) % d) * rp + (y % rp)
  BY DivTwice
<1>8. y % rp \in 0 .. rp - 1
  BY DivParts
<1> QED
  BY <1>1, <1>4, <1>5, <1>6, <1>7, <1>8 DEF FieldIs

(***************************************************************************)
(* The lanes of a word.                                                    *)
(***************************************************************************)
\* The first powers.
LEMMA PowZero == 2^0 = 1 /\ 2^1 = 2
<1>1. 2^0 = Cardinality(SUBSET (1 .. 0))
  BY PowCounts
<1>2. SUBSET (1 .. 0) = {{}}
  OBVIOUS
<1>3. 2^0 = 1
  BY <1>1, <1>2, FS_Singleton
<1>4. 2^(0 + 1) = 2 * 2^0
  BY PowNext
<1>5. 0 + 1 = 1 /\ 2 * 1 = 2
  OBVIOUS
<1> QED
  BY <1>3, <1>4, <1>5, Zenon

\* Powers of sums.
LEMMA PowAdd ==
  ASSUME NEW a \in Nat, NEW b \in Nat
  PROVE  2^(a + b) = 2^b * 2^a
<1> DEFINE T == {k \in 0 .. b : 2^(a + k) = 2^k * 2^a}
<1>0. 2^a \in Nat
  BY PowCounts
<1>1. 0 \in T
  <2>1. a + 0 = a /\ 2^0 = 1
    BY PowZero
  <2>2. 2^a = 1 * 2^a
    BY <1>0
  <2>3. 0 \in 0 .. b
    OBVIOUS
  <2> QED
    BY <2>1, <2>2, <2>3, Zenon
<1>2. ASSUME NEW k \in 1 .. b, k - 1 \in T PROVE k \in T
  <2>1. a + (k - 1) \in Nat /\ (a + (k - 1)) + 1 = a + k /\ k - 1 \in Nat /\ (k - 1) + 1 = k
    OBVIOUS
  <2>2. 2^(a + k) = 2 * 2^(a + (k - 1))
    BY <2>1, PowNext
  <2>3. 2^k = 2 * 2^(k - 1)
    BY <2>1, PowNext
  <2>4. 2^(a + (k - 1)) = 2^(k - 1) * 2^a
    BY <1>2
  <2>5. PICK p \in Nat, q \in Nat : p = 2^(k - 1) /\ q = 2^a
    BY <2>1, PowCounts
  <2>6. 2 * (p * q) = (2 * p) * q
    BY SMT
  <2>7. 2^(a + k) = 2^k * 2^a
    BY <2>2, <2>3, <2>4, <2>5, <2>6, Zenon
  <2> QED
    BY <2>7, <2>1
<1>3. T = 0 .. b
  <2>1. T \in SUBSET (0 .. b)
    OBVIOUS
  <2> HIDE DEF T
  <2> QED
    BY <1>1, <1>2, <2>1, Along
<1>4. b \in 0 .. b
  OBVIOUS
<1> QED
  BY <1>3, <1>4

\* Half of a power.
LEMMA PowHalf ==
  ASSUME NEW n \in Nat \ {0}
  PROVE  2^(n - 1) \in Nat \ {0} /\ 2^n = 2 * 2^(n - 1) /\ 2^n \in Nat \ {0}
<1>1. n - 1 \in Nat /\ (n - 1) + 1 = n
  OBVIOUS
<1> QED
  BY <1>1, PowCounts, PowNext

\* The widths.
LEMMA Widths == /\ BYTE \in Nat \ {0} /\ HALF \in Nat \ {0} /\ WORD32 \in Nat \ {0}
                /\ HALF = 2 * BYTE /\ WORD32 = 4 * BYTE /\ WORD32 = 2 * HALF
  BY SimdAssumption DEF HALF, WORD32, SimdAssumption

\* The n bits of x from place low on, shifted to the top of the word and down again.
LEMMA ShiftedField ==
  ASSUME NEW n \in Nat \ {0}, NEW low \in Nat, NEW up \in Nat, up + low + n = WORD32, NEW x \in Int
  PROVE  /\ UShift(x, up, up + low) = (x \div 2^low) % 2^n
         /\ SShift(x, up, up + low) = Signed((x \div 2^low) % 2^n, n)
<1>1. PICK p \in Nat \ {0}, r \in Nat \ {0}, d \in Nat \ {0}, h \in Nat \ {0} :
        p = 2^up /\ r = 2^low /\ d = 2^n /\ h = 2^(n - 1) /\ d = 2 * h
  BY PowCounts, PowHalf
<1>2. 2^(up + low) = r * p
  BY <1>1, PowAdd
<1>3. 2^WORD32 = d * (r * p)
  <2>1. up + low \in Nat /\ WORD32 = (up + low) + n
    OBVIOUS
  <2>2. 2^((up + low) + n) = 2^n * 2^(up + low)
    BY <2>1, PowAdd
  <2> QED
    BY <2>1, <2>2, <1>1, <1>2, Zenon
<1>4. 2^(WORD32 - 1) = h * (r * p)
  <2>1. up + low \in Nat /\ WORD32 - 1 = (up + low) + (n - 1) /\ n - 1 \in Nat
    OBVIOUS
  <2>2. 2^((up + low) + (n - 1)) = 2^(n - 1) * 2^(up + low)
    BY <2>1, PowAdd
  <2> QED
    BY <2>1, <2>2, <1>1, <1>2, Zenon
<1>5. PICK rp \in Nat \ {0} : rp = r * p
  BY NatProducts
<1>6. PICK e \in 0 .. d - 1 : e = (x \div r) % d
  <2>1. x \div r \in Int
    BY DivParts
  <2> QED
    BY <2>1, DivParts
<1>f. FieldIs(p, r, d, x)
  BY Field
<1>7. PICK l \in 0 .. rp - 1 : l = (x % r) * p
  BY <1>5, <1>f DEF FieldIs
<1>8. U32(x * 2^up) = e * rp + l /\ U32(x * 2^up) \div rp = e
  <2>1. U32(x * 2^up) = (x * p) % (d * (r * p))
    BY <1>1, <1>3, Zenon DEF U32
  <2>2. /\ ((x * p) % (d * (r * p))) \div (r * p) = (x \div r) % d
        /\ (x * p) % (d * (r * p)) = ((x \div r) % d) * (r * p) + (x % r) * p
    BY <1>f, Zenon DEF FieldIs
  <2> QED
    BY <1>5, <1>6, <1>7, <2>1, <2>2, Zenon
<1>9. UShift(x, up, up + low) = e
  BY <1>2, <1>5, <1>8, Zenon DEF UShift
<1>10. SShift(x, up, up + low) = Signed(e, n)
  <2>1. SShift(x, up, up + low) = Signed(e * rp + l, WORD32) \div rp
    BY <1>2, <1>5, <1>8, Zenon DEF SShift, S32
  <2>2. CASE e >= h
    <3>1. e * rp + l >= h * rp
      <4>1. h * rp <= e * rp /\ e * rp \in Nat /\ h * rp \in Nat
        BY <2>2, SMT
      <4> QED
        BY <4>1
    <3>2. Signed(e * rp + l, WORD32) = (e * rp + l) - d * rp
      BY <3>1, <1>3, <1>4, <1>5, Zenon DEF Signed
    <3>3. e - d \in Int
      OBVIOUS
    <3>4. (e * rp + l) - d * rp = (e - d) * rp + l
      <4>1. (e - d) * rp = e * rp - d * rp /\ e * rp \in Int /\ d * rp \in Int
        BY Products
      <4> QED
        BY <4>1
    <3>5. PICK f \in Int : f = e - d
      BY <3>3
    <3>6. PICK y : y = (e * rp + l) - d * rp
      OBVIOUS
    <3>7. y \div rp = f
      <4>1. y = f * rp + l
        BY <3>4, <3>5, <3>6, Zenon
      <4> QED
        BY <4>1, DivUnique
    <3>8. Signed(e, n) = e - d
      BY <2>2, <1>1, Zenon DEF Signed
    <3> QED
      BY <2>1, <3>2, <3>5, <3>6, <3>7, <3>8, Zenon
  <2>3. CASE ~(e >= h)
    <3>1. e \in 0 .. h - 1
      BY <2>3
    <3>2. e * rp + l \in 0 .. h * rp - 1
      BY <3>1, TwoDigits
    <3>3. h * rp \in Nat
      BY NatProducts
    <3>4. ~(e * rp + l >= h * rp)
      BY <3>2, <3>3
    <3>5. Signed(e * rp + l, WORD32) = e * rp + l
      BY <3>4, <1>3, <1>4, <1>5, Zenon DEF Signed
    <3>6. (e * rp + l) \div rp = e
      BY <1>8, Zenon
    <3>7. Signed(e, n) = e
      BY <2>3, <1>1, Zenon DEF Signed
    <3> QED
      BY <2>1, <3>5, <3>6, <3>7, Zenon
  <2> QED
    BY <2>2, <2>3
<1>11. (x \div 2^low) % 2^n = e
  BY <1>1, <1>6, Zenon
<1> QED
  BY <1>9, <1>10, <1>11, Zenon

\* The operands are the digits of the words.
LEMMA Operands8 ==
  ASSUME NEW x \in Int, NEW i \in 0 .. 3
  PROVE  UByte(x, i) = Digit(x, BYTE, i) /\ SByte(x, i) = SDigit(x, BYTE, i)
<1>1. PICK low \in Nat, up \in Nat :
        low = BYTE * i /\ up = (3 - i) * BYTE /\ up + low + BYTE = WORD32 /\ up + low = 3 * BYTE
  <2>1. CASE i = 0
    BY <2>1, Widths
  <2>2. CASE i = 1
    BY <2>2, Widths
  <2>3. CASE i = 2
    BY <2>3, Widths
  <2>4. CASE i = 3
    BY <2>4, Widths
  <2> QED
    BY <2>1, <2>2, <2>3, <2>4
<1>2. BYTE \in Nat \ {0}
  BY Widths
<1>3. /\ UShift(x, up, up + low) = (x \div 2^low) % 2^BYTE
      /\ SShift(x, up, up + low) = Signed((x \div 2^low) % 2^BYTE, BYTE)
  BY <1>1, <1>2, ShiftedField, Zenon
<1> QED
  BY <1>1, <1>3, Zenon DEF UByte, SByte, Digit, SDigit

\* The operands of the halfword operations are the halfwords.
LEMMA Operands16 ==
  ASSUME NEW x \in Int, NEW i \in 0 .. 1
  PROVE  UHalf(x, i) = Digit(x, HALF, i) /\ SHalf(x, i) = SDigit(x, HALF, i)
<1>1. PICK low \in Nat, up \in Nat :
        low = HALF * i /\ up = (1 - i) * HALF /\ up + low + HALF = WORD32 /\ up + low = HALF
  <2>1. CASE i = 0
    BY <2>1, Widths
  <2>2. CASE i = 1
    BY <2>2, Widths
  <2> QED
    BY <2>1, <2>2
<1>2. HALF \in Nat \ {0} /\ up + low + HALF = WORD32
  BY <1>1, Widths
<1>3. /\ UShift(x, up, up + low) = (x \div 2^low) % 2^HALF
      /\ SShift(x, up, up + low) = Signed((x \div 2^low) % 2^HALF, HALF)
  BY <1>2, ShiftedField, Zenon
<1> QED
  BY <1>1, <1>3, Zenon DEF UHalf, SHalf, Digit, SDigit

\* The places of the lanes.
LEMMA Places ==
  \E b \in Nat \ {0} :
    /\ b = 2^BYTE /\ b >= 2
    /\ 2^(BYTE * 0) = 1 /\ 2^(BYTE * 1) = b /\ 2^(BYTE * 2) = b * b /\ 2^(BYTE * 3) = b * (b * b)
    /\ 2^(2 * BYTE) = b * b /\ 2^(3 * BYTE) = b * (b * b)
    /\ 2^HALF = b * b /\ 2^(HALF * 0) = 1 /\ 2^(HALF * 1) = b * b
    /\ 2^WORD32 = (b * b) * (b * b)
<1>1. PICK b \in Nat \ {0} : b = 2^BYTE /\ b >= 2
  <2>1. PICK b \in Nat \ {0}, h \in Nat \ {0} : b = 2^BYTE /\ h = 2^(BYTE - 1) /\ b = 2 * h
    BY Widths, PowHalf
  <2>2. b >= 2
    BY <2>1
  <2> QED
    BY <2>1, <2>2
<1>2. /\ BYTE * 0 = 0 /\ BYTE * 1 = BYTE /\ BYTE * 2 = BYTE + BYTE /\ BYTE * 3 = (BYTE + BYTE) + BYTE
      /\ 2 * BYTE = BYTE + BYTE /\ 3 * BYTE = (BYTE + BYTE) + BYTE
      /\ HALF = BYTE + BYTE /\ HALF * 0 = 0 /\ HALF * 1 = HALF /\ WORD32 = HALF + HALF
      /\ BYTE \in Nat /\ BYTE + BYTE \in Nat /\ HALF \in Nat
  BY Widths
<1>3. 2^(BYTE + BYTE) = b * b
  BY <1>1, <1>2, PowAdd, Zenon
<1>4. 2^((BYTE + BYTE) + BYTE) = b * (b * b)
  <2>1. 2^((BYTE + BYTE) + BYTE) = 2^BYTE * 2^(BYTE + BYTE)
    BY <1>2, PowAdd, Zenon
  <2> QED
    BY <2>1, <1>1, <1>3, Zenon
<1>5. 2^(HALF + HALF) = (b * b) * (b * b)
  <2>1. 2^(HALF + HALF) = 2^HALF * 2^HALF
    BY <1>2, PowAdd, Zenon
  <2>2. 2^HALF = b * b
    BY <1>2, <1>3, Zenon
  <2> QED
    BY <2>1, <2>2, Zenon
<1> QED
  BY <1>1, <1>2, <1>3, <1>4, <1>5, PowZero, Zenon

\* A lane is a number of its width.
LEMMA DigitType ==
  ASSUME NEW x \in Int, NEW n \in Nat \ {0}, NEW i \in Nat
  PROVE  Digit(x, n, i) \in 0 .. 2^n - 1
<1>1. n * i \in Nat
  BY NatProducts
<1>2. PICK p \in Nat \ {0}, d \in Nat \ {0} : p = 2^(n * i) /\ d = 2^n
  BY <1>1, PowCounts
<1>3. PICK y \in Int : y = x \div p
  BY DivParts
<1>4. y % d \in 0 .. d - 1
  BY DivParts
<1> QED
  BY <1>2, <1>3, <1>4, Zenon DEF Digit

\* Its signed value.
LEMMA SignedType ==
  ASSUME NEW n \in Nat \ {0}, NEW v \in 0 .. 2^n - 1
  PROVE  /\ Signed(v, n) \in -2^(n - 1) .. 2^(n - 1) - 1
         /\ Signed(v, n) % 2^n = v
         /\ \E k \in {0, 1} : Signed(v, n) = v - k * 2^n
<1>1. PICK h \in Nat \ {0}, m \in Nat \ {0} : h = 2^(n - 1) /\ m = 2^n /\ m = 2 * h
  BY PowHalf
<1>2. v \in 0 .. m - 1
  BY <1>1
<1>3. CASE v >= h
  <2>1. Signed(v, n) = v - m
    BY <1>1, <1>3, Zenon DEF Signed
  <2>2. v - m \in -h .. h - 1 /\ v - m = (-1) * m + v /\ v - m = v - 1 * m /\ -1 \in Int
    BY <1>1, <1>2, <1>3
  <2>3. (v - m) % m = v
    BY <1>2, <2>2, DivUnique
  <2> QED
    BY <2>1, <2>2, <2>3, <1>1
<1>4. CASE ~(v >= h)
  <2>1. Signed(v, n) = v
    BY <1>1, <1>4, Zenon DEF Signed
  <2>2. v \in -h .. h - 1 /\ v = 0 * m + v /\ v = v - 0 * m
    BY <1>1, <1>2, <1>4
  <2>3. v % m = v
    BY <1>2, <2>2, DivUnique
  <2> QED
    BY <2>1, <2>2, <2>3, <1>1
<1> QED
  BY <1>3, <1>4

\* A number that is given by its digits in base b.
HornerIs(u, t, s, r, b) ==
  ((u * b + t) * b + s) * b + r = u * (b * (b * b)) + t * (b * b) + s * b + r

\* The places of four digits.
LEMMA Horner ==
  ASSUME NEW u \in Int, NEW t \in Int, NEW s \in Int, NEW r \in Int, NEW b \in Int
  PROVE  HornerIs(u, t, s, r, b)
  BY SMT DEF HornerIs

\* A digit more.
LEMMA NatStep ==
  ASSUME NEW h \in Nat, NEW b \in Nat, NEW l \in Nat
  PROVE  h * b + l \in Nat
  BY SMT

\* Four bytes in a word.
LEMMA FourLanes ==
  ASSUME NEW u \in Int, NEW t \in Int, NEW s \in Int, NEW r \in Int
  PROVE  /\ Four(u, t, s, r) \in 0 .. 2^WORD32 - 1
         /\ Digit(Four(u, t, s, r), BYTE, 0) = r % 2^BYTE
         /\ Digit(Four(u, t, s, r), BYTE, 1) = s % 2^BYTE
         /\ Digit(Four(u, t, s, r), BYTE, 2) = t % 2^BYTE
         /\ Digit(Four(u, t, s, r), BYTE, 3) = u % 2^BYTE
<1>1. PICK b \in Nat \ {0} :
        /\ b = 2^BYTE /\ b >= 2
        /\ 2^(BYTE * 0) = 1 /\ 2^(BYTE * 1) = b /\ 2^(BYTE * 2) = b * b /\ 2^(BYTE * 3) = b * (b * b)
        /\ 2^(2 * BYTE) = b * b /\ 2^(3 * BYTE) = b * (b * b)
        /\ 2^WORD32 = (b * b) * (b * b)
  BY Places
<1>2. PICK u0 \in 0 .. b - 1, t0 \in 0 .. b - 1, s0 \in 0 .. b - 1, r0 \in 0 .. b - 1 :
        u0 = u % b /\ t0 = t % b /\ s0 = s % b /\ r0 = r % b
  BY DivParts
<1>3. PICK y2 \in Nat : y2 = u0 * b + t0
  <2>1. u0 \in Nat /\ b \in Nat /\ t0 \in Nat
    OBVIOUS
  <2> QED
    BY <2>1, NatStep, Zenon
<1>4. PICK y1 \in Nat : y1 = y2 * b + s0
  <2>1. y2 \in Nat /\ b \in Nat /\ s0 \in Nat
    OBVIOUS
  <2> QED
    BY <2>1, NatStep, Zenon
<1>5. PICK x \in Nat : x = y1 * b + r0
  <2>1. y1 \in Nat /\ b \in Nat /\ r0 \in Nat
    OBVIOUS
  <2> QED
    BY <2>1, NatStep, Zenon
<1>6. Four(u, t, s, r) = x
  <2>1. Four(u, t, s, r) = u0 * (b * (b * b)) + t0 * (b * b) + s0 * b + r0
    BY <1>1, <1>2, Zenon DEF Four
  <2>2. x = ((u0 * b + t0) * b + s0) * b + r0
    BY <1>3, <1>4, <1>5, Zenon
  <2>3. u0 \in Int /\ t0 \in Int /\ s0 \in Int /\ r0 \in Int /\ b \in Int
    OBVIOUS
  <2>4. ((u0 * b + t0) * b + s0) * b + r0 = u0 * (b * (b * b)) + t0 * (b * b) + s0 * b + r0
    <3>1. HornerIs(u0, t0, s0, r0, b)
      BY <2>3, Horner, Zenon
    <3> QED
      BY <3>1, Zenon DEF HornerIs
  <2> QED
    BY <2>1, <2>2, <2>4, Zenon
<1>7. x % b = r0 /\ x \div b = y1 /\ y1 % b = s0 /\ y1 \div b = y2 /\ y2 % b = t0 /\ y2 \div b = u0
  <2>0. y1 \in Int /\ y2 \in Int /\ u0 \in Int
    OBVIOUS
  <2>1. x % b = r0 /\ x \div b = y1
    BY <1>5, <2>0, DivUnique, Zenon
  <2>2. y1 % b = s0 /\ y1 \div b = y2
    BY <1>4, <2>0, DivUnique, Zenon
  <2>3. y2 % b = t0 /\ y2 \div b = u0
    BY <1>3, <2>0, DivUnique, Zenon
  <2> QED
    BY <2>1, <2>2, <2>3
<1>8. PICK bb \in Nat \ {0} : bb = b * b
  <2>1. b * b \in Nat \ {0}
    BY SMT
  <2> QED
    BY <2>1, Zenon
<1>9. x \div bb = y2 /\ x \div (b * bb) = u0
  <2>0. x \in Int
    OBVIOUS
  <2>1. x \div (b * b) = (x \div b) \div b
    BY <2>0, DivOfDiv, Zenon
  <2>2. x \div (b * bb) = (x \div bb) \div b
    BY <2>0, DivOfDiv, Zenon
  <2> QED
    BY <1>7, <1>8, <2>1, <2>2, Zenon
<1>10. u0 % b = u0 /\ x \div 1 = x
  <2>1. u0 = 0 * b + u0 /\ x = x * 1 + 0 /\ 0 \in 0 .. 1 - 1
    OBVIOUS
  <2> QED
    BY <2>1, DivUnique
<1>11. x \in 0 .. bb * bb - 1
  <2>1. y2 \in 0 .. b * b - 1
    BY <1>3, TwoDigits
  <2>2. s0 * b + r0 \in 0 .. b * b - 1
    BY TwoDigits
  <2>3. y2 * bb + (s0 * b + r0) \in 0 .. bb * bb - 1
    BY <1>8, <2>1, <2>2, TwoDigits
  <2>4. x = y2 * bb + (s0 * b + r0)
    <3>1. (y2 * b + s0) * b = y2 * (b * b) + s0 * b
      BY SMT
    <3>2. y2 * (b * b) \in Int /\ s0 * b \in Int
      BY SMT
    <3> QED
      BY <1>4, <1>5, <1>8, <3>1, <3>2
  <2> QED
    BY <2>3, <2>4
<1>12. Four(u, t, s, r) \in 0 .. 2^WORD32 - 1
  BY <1>1, <1>6, <1>8, <1>11, Zenon
<1> QED
  BY <1>1, <1>2, <1>6, <1>7, <1>8, <1>9, <1>10, <1>12, Zenon DEF Digit

\* Two halfwords.
LEMMA TwoLanes ==
  ASSUME NEW s \in Int, NEW r \in Int
  PROVE  /\ Two(s, r) \in 0 .. 2^WORD32 - 1
         /\ Digit(Two(s, r), HALF, 0) = r % 2^HALF
         /\ Digit(Two(s, r), HALF, 1) = s % 2^HALF
<1>1. PICK m \in Nat \ {0} :
        m = 2^HALF /\ 2^(HALF * 0) = 1 /\ 2^(HALF * 1) = m /\ 2^WORD32 = m * m
  <2>1. PICK b \in Nat \ {0} :
          2^HALF = b * b /\ 2^(HALF * 0) = 1 /\ 2^(HALF * 1) = b * b /\ 2^WORD32 = (b * b) * (b * b)
    BY Places
  <2>2. b * b \in Nat \ {0}
    BY NatProducts
  <2> QED
    BY <2>1, <2>2, Zenon
<1>2. PICK s0 \in 0 .. m - 1, r0 \in 0 .. m - 1 : s0 = s % m /\ r0 = r % m
  BY DivParts
<1>3. PICK x \in Nat : x = s0 * m + r0
  BY NatProducts
<1>4. x % m = r0 /\ x \div m = s0 /\ x \in 0 .. m * m - 1
  BY <1>3, DivUnique, TwoDigits
<1>5. s0 % m = s0 /\ x \div 1 = x
  <2>1. s0 = 0 * m + s0 /\ x = x * 1 + 0 /\ 0 \in 0 .. 1 - 1
    OBVIOUS
  <2> QED
    BY <2>1, DivUnique
<1>6. Two(s, r) = x
  BY <1>1, <1>2, <1>3, Zenon DEF Two
<1> QED
  BY <1>1, <1>2, <1>4, <1>5, <1>6, Zenon DEF Digit

(***************************************************************************)
(* Saturation.                                                             *)
(***************************************************************************)
\* The smaller and the larger of two integers.
LEMMA MinTwo ==
  ASSUME NEW a \in Int, NEW b \in Int
  PROVE  Min({a, b}) = IF a <= b THEN a ELSE b
<1>1. PICK m \in Int : m \in {a, b} /\ m <= a /\ m <= b /\ m = IF a <= b THEN a ELSE b
  OBVIOUS
<1>2. \A x \in {a, b} : (\A y \in {a, b} : x <= y) => x = m
  BY <1>1
<1>3. \A y \in {a, b} : m <= y
  BY <1>1
<1>4. Min({a, b}) \in {a, b} /\ \A y \in {a, b} : Min({a, b}) <= y
  BY <1>1, <1>3, Zenon DEF Min
<1> QED
  BY <1>1, <1>2, <1>4

\* The greater of two numbers.
LEMMA MaxTwo ==
  ASSUME NEW a \in Int, NEW b \in Int
  PROVE  Max({a, b}) = IF a >= b THEN a ELSE b
<1>1. PICK m \in Int : m \in {a, b} /\ m >= a /\ m >= b /\ m = IF a >= b THEN a ELSE b
  OBVIOUS
<1>2. \A x \in {a, b} : (\A y \in {a, b} : x >= y) => x = m
  BY <1>1
<1>3. \A y \in {a, b} : m >= y
  BY <1>1
<1>4. Max({a, b}) \in {a, b} /\ \A y \in {a, b} : Max({a, b}) >= y
  BY <1>1, <1>3, Zenon DEF Max
<1> QED
  BY <1>1, <1>2, <1>4

\* The representable value that is nearest.
LEMMA NearestIs ==
  ASSUME NEW v \in Int, NEW lo \in Int, NEW hi \in Int, lo <= hi
  PROVE  /\ Nearest(v, lo, hi) \in lo .. hi
         /\ Nearest(v, lo, hi) = IF v < lo THEN lo ELSE IF v > hi THEN hi ELSE v
<1>1. PICK m \in Int : m = Min({v, hi}) /\ m = IF v <= hi THEN v ELSE hi
  BY MinTwo
<1>2. Max({lo, m}) = IF lo >= m THEN lo ELSE m
  BY MaxTwo
<1>3. Nearest(v, lo, hi) = IF lo >= m THEN lo ELSE m
  BY <1>1, <1>2, Zenon DEF Nearest
<1> QED
  BY <1>1, <1>3

\* __SSAT yields it.
LEMMA SSATNearest ==
  ASSUME NEW n \in Nat \ {0}, NEW v \in Int
  PROVE  SSAT(v, n) = NearestS(v, n) /\ NearestS(v, n) \in -2^(n - 1) .. 2^(n - 1) - 1
<1>1. PICK h \in Nat \ {0} : h = 2^(n - 1)
  BY PowHalf
<1>2. -h \in Int /\ h - 1 \in Int /\ -h <= h - 1
  OBVIOUS
<1>3. PICK w : w = Nearest(v, -h, h - 1)
  OBVIOUS
<1>4. w \in -h .. h - 1 /\ w = IF v < -h THEN -h ELSE IF v > h - 1 THEN h - 1 ELSE v
  BY <1>2, <1>3, NearestIs
<1>5. NearestS(v, n) = w
  BY <1>1, <1>3, Zenon DEF NearestS
<1>6. SSAT(v, n) = IF v > 0 THEN Min({v, h - 1}) ELSE Max({v, -h})
  BY <1>1, Zenon DEF SSAT
<1>7. Min({v, h - 1}) = IF v <= h - 1 THEN v ELSE h - 1
  BY <1>2, MinTwo, Zenon
<1>8. Max({v, -h}) = IF v >= -h THEN v ELSE -h
  BY <1>2, MaxTwo, Zenon
<1>9. SSAT(v, n) = w
  BY <1>4, <1>6, <1>7, <1>8
<1> QED
  BY <1>1, <1>4, <1>5, <1>9

\* Larger exponents, larger powers.
LEMMA PowLe ==
  ASSUME NEW a \in Nat, NEW b \in Nat, a <= b
  PROVE  2^a <= 2^b
<1>1. PICK p \in Nat \ {0}, t \in Nat \ {0} : p = 2^a /\ 2^b = p * t
  BY PowDivides, PowCounts
<1>2. p <= p * t
  BY SMT
<1> QED
  BY <1>1, <1>2

\* The unsigned conversion of a small number.
LEMMA U32Small ==
  ASSUME NEW v \in Int
  PROVE  /\ v \in 0 .. 2^WORD32 - 1 => U32(v) = v
         /\ v + 2^WORD32 \in 0 .. 2^WORD32 - 1 => U32(v) = v + 2^WORD32
         /\ U32(v) \in 0 .. 2^WORD32 - 1
<1>1. PICK m \in Nat \ {0} : m = 2^WORD32
  BY Widths, PowHalf
<1>2. v % m \in 0 .. m - 1
  BY DivParts
<1>3. ASSUME v \in 0 .. m - 1 PROVE v % m = v
  <2>1. PICK q \in Int, r \in 0 .. m - 1 : q = 0 /\ r = v
    BY <1>3
  <2>2. v = q * m + r
    BY <2>1
  <2>3. v % m = r
    BY <2>2, DivUnique, Zenon
  <2> QED
    BY <2>1, <2>3
<1>4. ASSUME v + m \in 0 .. m - 1 PROVE v % m = v + m
  <2>1. PICK q \in Int, r \in 0 .. m - 1 : q = -1 /\ r = v + m
    BY <1>4
  <2>2. v = q * m + r
    BY <2>1
  <2>3. v % m = r
    BY <2>2, DivUnique, Zenon
  <2> QED
    BY <2>1, <2>3
<1> QED
  BY <1>1, <1>2, <1>3, <1>4, Zenon DEF U32

\* A lane has at most half of the bits of a word.
LEMMA LaneRoom ==
  ASSUME NEW n \in 1 .. HALF
  PROVE  \E d \in Nat \ {0}, m \in Nat \ {0}, h \in Nat \ {0} :
           /\ d = 2^n /\ m = 2^WORD32 /\ h = 2^(WORD32 - 1) /\ m = 2 * h /\ 2 * d <= h
<1>1. n \in Nat \ {0} /\ n + 1 \in Nat /\ WORD32 - 1 \in Nat /\ n + 1 <= WORD32 - 1
  BY Widths
<1>2. PICK d \in Nat \ {0}, m \in Nat \ {0}, h \in Nat \ {0} :
        d = 2^n /\ m = 2^WORD32 /\ h = 2^(WORD32 - 1) /\ m = 2 * h
  BY <1>1, Widths, PowHalf, PowCounts
<1>3. 2^(n + 1) = 2 * d
  BY <1>1, <1>2, PowNext
<1>4. 2^(n + 1) <= h
  BY <1>1, <1>2, PowLe
<1> QED
  BY <1>2, <1>3, <1>4

\* __IUSAT yields the nearest one too, of a sum or difference of two lanes.
LEMMA IUSATNearest ==
  ASSUME NEW n \in 1 .. HALF, NEW v \in -(2^n - 1) .. 2 * (2^n - 1)
  PROVE  IUSAT(U32(v), n) = NearestU(v, n) /\ NearestU(v, n) \in 0 .. 2^n - 1
<1>1. PICK d \in Nat \ {0}, m \in Nat \ {0}, h \in Nat \ {0} :
        d = 2^n /\ m = 2^WORD32 /\ h = 2^(WORD32 - 1) /\ m = 2 * h /\ 2 * d <= h
  BY LaneRoom
<1>2. v \in Int /\ -(d - 1) <= v /\ v <= 2 * (d - 1)
  BY <1>1
<1>3. PICK w : w = Nearest(v, 0, d - 1)
  OBVIOUS
<1>4. w \in 0 .. d - 1 /\ w = IF v < 0 THEN 0 ELSE IF v > d - 1 THEN d - 1 ELSE v
  <2>1. 0 \in Int /\ d - 1 \in Int /\ 0 <= d - 1
    OBVIOUS
  <2> QED
    BY <1>2, <1>3, <2>1, NearestIs
<1>5. NearestU(v, n) = w
  BY <1>1, <1>3, Zenon DEF NearestU
<1>6. PICK z \in Int : z = U32(v) /\ z = IF v < 0 THEN v + m ELSE v
  <2>1. /\ v \in 0 .. m - 1 => U32(v) = v
        /\ v + m \in 0 .. m - 1 => U32(v) = v + m
    BY <1>1, <1>2, U32Small
  <2> QED
    BY <1>1, <1>2, <2>1
<1>7. IUSAT(U32(v), n) = IF z >= h THEN 0 ELSE IF z >= d THEN d - 1 ELSE z
  BY <1>1, <1>6, Zenon DEF IUSAT, USAT
<1>8. IUSAT(U32(v), n) = w
  BY <1>1, <1>2, <1>4, <1>6, <1>7
<1> QED
  BY <1>1, <1>4, <1>5, <1>8

\* And __IUSAT of a lane, for any number of bits.
LEMMA IUSATLane ==
  ASSUME NEW n \in 1 .. HALF, NEW v \in 0 .. 2^HALF - 1
  PROVE  IUSAT(v, n) = NearestU(v, n) /\ NearestU(v, n) \in 0 .. 2^n - 1
<1>0. HALF \in 1 .. HALF
  BY Widths
<1>1. PICK d \in Nat \ {0}, m \in Nat \ {0}, h \in Nat \ {0} :
        d = 2^n /\ m = 2^WORD32 /\ h = 2^(WORD32 - 1) /\ m = 2 * h /\ 2 * d <= h
  BY LaneRoom
<1>2. PICK e \in Nat \ {0} : e = 2^HALF /\ 2 * e <= h
  BY <1>0, <1>1, LaneRoom
<1>3. v \in Int /\ 0 <= v /\ v < h
  BY <1>1, <1>2
<1>4. PICK w : w = Nearest(v, 0, d - 1)
  OBVIOUS
<1>5. w \in 0 .. d - 1 /\ w = IF v < 0 THEN 0 ELSE IF v > d - 1 THEN d - 1 ELSE v
  <2>1. 0 \in Int /\ d - 1 \in Int /\ 0 <= d - 1
    OBVIOUS
  <2> QED
    BY <1>3, <1>4, <2>1, NearestIs
<1>6. NearestU(v, n) = w
  BY <1>1, <1>4, Zenon DEF NearestU
<1>7. IUSAT(v, n) = IF v >= h THEN 0 ELSE IF v >= d THEN d - 1 ELSE v
  BY <1>1, Zenon DEF IUSAT, USAT
<1>8. IUSAT(v, n) = w
  BY <1>3, <1>5, <1>7
<1> QED
  BY <1>1, <1>5, <1>6, <1>8

\* __QADD and __QSUB saturate whole words.
LEMMA WordsSaturate ==
  ASSUME NEW x \in -2^(WORD32 - 1) .. 2^(WORD32 - 1) - 1,
         NEW y \in -2^(WORD32 - 1) .. 2^(WORD32 - 1) - 1
  PROVE  QADD(x, y) = NearestS(x + y, WORD32) /\ QSUB(x, y) = NearestS(x - y, WORD32)
<1>1. PICK h \in Nat \ {0}, m \in Nat \ {0} : h = 2^(WORD32 - 1) /\ m = 2^WORD32 /\ m = 2 * h
  BY Widths, PowHalf
<1>2. x \in -h .. h - 1 /\ y \in -h .. h - 1
  BY <1>1
<1>3. x \in Int /\ y \in Int /\ x + y \in Int /\ x - y \in Int /\ -h \in Int /\ h - 1 \in Int /\ -h <= h - 1
  BY <1>2
<1>4. PICK a, s : a = Nearest(x + y, -h, h - 1) /\ s = Nearest(x - y, -h, h - 1)
  OBVIOUS
<1>5. /\ a = IF x + y < -h THEN -h ELSE IF x + y > h - 1 THEN h - 1 ELSE x + y
      /\ s = IF x - y < -h THEN -h ELSE IF x - y > h - 1 THEN h - 1 ELSE x - y
  BY <1>3, <1>4, NearestIs, Zenon
<1>6. NearestS(x + y, WORD32) = a /\ NearestS(x - y, WORD32) = s
  BY <1>1, <1>4, Zenon DEF NearestS
<1>7. PICK z \in Int : /\ z = S32(x + y)
                       /\ z = IF x + y < -h THEN x + y + m ELSE IF x + y >= h THEN x + y - m ELSE x + y
  <2>1. /\ x + y \in 0 .. m - 1 => U32(x + y) = x + y
        /\ x + y + m \in 0 .. m - 1 => U32(x + y) = x + y + m
    BY <1>1, <1>3, U32Small
  <2>2. PICK w \in Int : w = U32(x + y) /\ w = IF x + y < 0 THEN x + y + m ELSE x + y
    BY <1>1, <1>2, <2>1
  <2>3. S32(x + y) = IF w >= h THEN w - m ELSE w
    BY <1>1, <2>2, Zenon DEF S32, Signed
  <2> QED
    BY <1>1, <1>2, <2>2, <2>3
<1>8. QADD(x, y) = IF y >= 0 THEN IF z >= x THEN x + y ELSE h - 1
                              ELSE IF z < x THEN x + y ELSE -h
  BY <1>1, <1>7, Zenon DEF QADD
<1>9. QADD(x, y) = a
  BY <1>1, <1>2, <1>5, <1>7, <1>8
<1>10. PICK k \in Int : k = Min({x - y, h - 1}) /\ k = IF x - y <= h - 1 THEN x - y ELSE h - 1
  BY <1>3, MinTwo
<1>11. Max({-h, k}) = IF -h >= k THEN -h ELSE k
  BY <1>3, MaxTwo
<1>12. QSUB(x, y) = IF -h >= k THEN -h ELSE k
  BY <1>1, <1>10, <1>11, Zenon DEF QSUB
<1>13. QSUB(x, y) = s
  BY <1>2, <1>5, <1>10, <1>12
<1> QED
  BY <1>6, <1>9, <1>13

(***************************************************************************)
(* Words from lanes.                                                       *)
(***************************************************************************)
Words == 0 .. 2^WORD32 - 1
UVal(n) == 0 .. 2^n - 1
SVal(n) == -2^(n - 1) .. 2^(n - 1) - 1

\* The value of a lane that holds e.
LEMMA LaneValue ==
  ASSUME NEW n \in Nat \ {0}, NEW e \in Int
  PROVE  /\ e % 2^n \in UVal(n)
         /\ e \in UVal(n) => e % 2^n = e
         /\ e \in SVal(n) => Signed(e % 2^n, n) = e
<1>1. PICK h \in Nat \ {0}, m \in Nat \ {0} : h = 2^(n - 1) /\ m = 2^n /\ m = 2 * h
  BY PowHalf
<1>2. e % m \in 0 .. m - 1
  BY DivParts
<1>3. ASSUME e \in 0 .. m - 1 PROVE e % m = e
  <2>1. PICK q \in Int, r \in 0 .. m - 1 : q = 0 /\ r = e
    BY <1>3
  <2>2. e = q * m + r
    BY <2>1
  <2>3. e % m = r
    BY <2>2, DivUnique, Zenon
  <2> QED
    BY <2>1, <2>3
<1>4. ASSUME e \in -h .. -1 PROVE e % m = e + m
  <2>1. PICK q \in Int, r \in 0 .. m - 1 : q = -1 /\ r = e + m
    BY <1>1, <1>4
  <2>2. e = q * m + r
    BY <2>1
  <2>3. e % m = r
    BY <2>2, DivUnique, Zenon
  <2> QED
    BY <2>1, <2>3
<1>5. PICK r \in 0 .. m - 1 : r = e % m
  BY <1>2
<1>6. Signed(e % m, n) = IF r >= h THEN r - m ELSE r
  BY <1>1, <1>5, Zenon DEF Signed
<1>7. e \in -h .. h - 1 => Signed(e % m, n) = e
  BY <1>1, <1>3, <1>4, <1>5, <1>6
<1> QED
  BY <1>1, <1>2, <1>3, <1>7 DEF UVal, SVal

\* The lanes of w are the values of E.
ULanes(w, n, E) == \A i \in 0 .. WORD32 \div n - 1 : Digit(w, n, i) = E[i]
SLanes(w, n, E) == \A i \in 0 .. WORD32 \div n - 1 : SDigit(w, n, i) = E[i]

\* The numbers of the lanes.
LEMMA LaneNumbers == 0 .. WORD32 \div BYTE - 1 = 0 .. 3 /\ 0 .. WORD32 \div HALF - 1 = 0 .. 1
<1>1. PICK b \in Nat \ {0}, h \in Nat \ {0}, w \in Nat \ {0} :
        b = BYTE /\ h = HALF /\ w = WORD32 /\ w = 4 * b /\ w = 2 * h
  BY Widths
<1>2. w \div b = 4 /\ w \div h = 2
  BY <1>1
<1> QED
  BY <1>1, <1>2

\* A word that is put together from four bytes has them as its lanes.
LEMMA FourOf ==
  ASSUME NEW E \in [0 .. 3 -> Int], NEW w, w = Four(E[3], E[2], E[1], E[0])
  PROVE  /\ w \in Words
         /\ (\A i \in 0 .. 3 : E[i] \in UVal(BYTE)) => ULanes(w, BYTE, E)
         /\ (\A i \in 0 .. 3 : E[i] \in SVal(BYTE)) => SLanes(w, BYTE, E)
<1>1. E[3] \in Int /\ E[2] \in Int /\ E[1] \in Int /\ E[0] \in Int
  OBVIOUS
<1>2. /\ w \in 0 .. 2^WORD32 - 1
      /\ Digit(w, BYTE, 0) = E[0] % 2^BYTE /\ Digit(w, BYTE, 1) = E[1] % 2^BYTE
      /\ Digit(w, BYTE, 2) = E[2] % 2^BYTE /\ Digit(w, BYTE, 3) = E[3] % 2^BYTE
  <2>1. PICK u \in Int, t \in Int, s \in Int, r \in Int : u = E[3] /\ t = E[2] /\ s = E[1] /\ r = E[0]
    BY <1>1, Zenon
  <2>2. w = Four(u, t, s, r)
    BY <2>1, Zenon
  <2>3. /\ w \in 0 .. 2^WORD32 - 1
        /\ Digit(w, BYTE, 0) = r % 2^BYTE /\ Digit(w, BYTE, 1) = s % 2^BYTE
        /\ Digit(w, BYTE, 2) = t % 2^BYTE /\ Digit(w, BYTE, 3) = u % 2^BYTE
    BY <2>2, FourLanes
  <2> QED
    BY <2>1, <2>3, Zenon
<1>3. ASSUME NEW i \in 0 .. 3
      PROVE  /\ Digit(w, BYTE, i) = E[i] % 2^BYTE
             /\ E[i] \in UVal(BYTE) => Digit(w, BYTE, i) = E[i]
             /\ E[i] \in SVal(BYTE) => SDigit(w, BYTE, i) = E[i]
  <2>1. i = 0 \/ i = 1 \/ i = 2 \/ i = 3
    OBVIOUS
  <2>2. Digit(w, BYTE, i) = E[i] % 2^BYTE
    BY <1>2, <2>1, Zenon
  <2>3. E[i] \in Int /\ BYTE \in Nat \ {0}
    BY Widths
  <2> QED
    BY <2>2, <2>3, LaneValue, Zenon DEF SDigit
<1> QED
  BY <1>2, <1>3, LaneNumbers, Zenon DEF ULanes, SLanes, Words

\* And one that is put together from two halfwords.
LEMMA TwoOf ==
  ASSUME NEW E \in [0 .. 1 -> Int], NEW w, w = Two(E[1], E[0])
  PROVE  /\ w \in Words
         /\ (\A i \in 0 .. 1 : E[i] \in UVal(HALF)) => ULanes(w, HALF, E)
         /\ (\A i \in 0 .. 1 : E[i] \in SVal(HALF)) => SLanes(w, HALF, E)
<1>1. E[1] \in Int /\ E[0] \in Int
  OBVIOUS
<1>2. /\ w \in 0 .. 2^WORD32 - 1
      /\ Digit(w, HALF, 0) = E[0] % 2^HALF /\ Digit(w, HALF, 1) = E[1] % 2^HALF
  BY <1>1, TwoLanes, Zenon
<1>3. ASSUME NEW i \in 0 .. 1
      PROVE  /\ Digit(w, HALF, i) = E[i] % 2^HALF
             /\ E[i] \in UVal(HALF) => Digit(w, HALF, i) = E[i]
             /\ E[i] \in SVal(HALF) => SDigit(w, HALF, i) = E[i]
  <2>1. i = 0 \/ i = 1
    OBVIOUS
  <2>2. Digit(w, HALF, i) = E[i] % 2^HALF
    BY <1>2, <2>1, Zenon
  <2>3. E[i] \in Int /\ HALF \in Nat \ {0}
    BY Widths
  <2> QED
    BY <2>2, <2>3, LaneValue, Zenon DEF SDigit
<1> QED
  BY <1>2, <1>3, LaneNumbers, Zenon DEF ULanes, SLanes, Words

\* The lanes of a word.
LEMMA Lanes ==
  ASSUME NEW x \in Words, NEW n \in Nat \ {0}, NEW i \in Nat
  PROVE  /\ Digit(x, n, i) \in UVal(n) /\ SDigit(x, n, i) \in SVal(n)
         /\ \E k \in {0, 1} : SDigit(x, n, i) = Digit(x, n, i) - k * 2^n
<1>1. x \in Int
  <2>1. 2^WORD32 \in Nat \ {0}
    BY Widths, PowHalf
  <2> QED
    BY <2>1 DEF Words
<1>2. Digit(x, n, i) \in 0 .. 2^n - 1
  BY <1>1, DigitType
<1> QED
  BY <1>2, SignedType, Zenon DEF UVal, SVal, SDigit

\* Words and lanes are integers.
LEMMA WordsAreInts == Words \subseteq Int
<1>1. 2^WORD32 \in Nat \ {0}
  BY Widths, PowHalf
<1> QED
  BY <1>1 DEF Words

\* The operands of the operations.
LEMMA LaneOperands ==
  ASSUME NEW x \in Words
  PROVE  /\ \A i \in 0 .. 3 : UByte(x, i) = Digit(x, BYTE, i) /\ SByte(x, i) = SDigit(x, BYTE, i)
         /\ \A i \in 0 .. 1 : UHalf(x, i) = Digit(x, HALF, i) /\ SHalf(x, i) = SDigit(x, HALF, i)
  BY WordsAreInts, Operands8, Operands16

\* The values of the lanes are integers.
LEMMA LaneInts == /\ UVal(BYTE) \subseteq Int /\ SVal(BYTE) \subseteq Int
                  /\ UVal(HALF) \subseteq Int /\ SVal(HALF) \subseteq Int
  BY Widths, PowHalf DEF UVal, SVal

\* Sums and differences of two lanes.
LEMMA LaneSums ==
  ASSUME NEW n \in {BYTE, HALF}, NEW a \in SVal(n), NEW b \in SVal(n), NEW c \in UVal(n), NEW d \in UVal(n)
  PROVE  /\ a + b \in Int /\ a - b \in Int /\ (a + b) \div 2 \in SVal(n) /\ (a - b) \div 2 \in SVal(n)
         /\ c + d \in -(2^n - 1) .. 2 * (2^n - 1) /\ c - d \in -(2^n - 1) .. 2 * (2^n - 1)
         /\ (c + d) \div 2 \in UVal(n)
<1>1. n \in Nat \ {0}
  BY Widths
<1>2. PICK h \in Nat \ {0}, m \in Nat \ {0} : h = 2^(n - 1) /\ m = 2^n /\ m = 2 * h
  BY <1>1, PowHalf
<1>3. a \in -h .. h - 1 /\ b \in -h .. h - 1 /\ c \in 0 .. m - 1 /\ d \in 0 .. m - 1
  BY <1>2 DEF UVal, SVal
<1>4. (a + b) \div 2 \in -h .. h - 1 /\ (a - b) \div 2 \in -h .. h - 1
  BY <1>3
<1>5. (c + d) \div 2 \in 0 .. m - 1
  BY <1>3
<1> QED
  BY <1>2, <1>3, <1>4, <1>5 DEF UVal, SVal

\* Congruent numbers.
LEMMA ModEqual ==
  ASSUME NEW m \in Nat \ {0}, NEW x \in Int, NEW y \in Int, NEW k \in Int, x = y + k * m
  PROVE  x % m = y % m
<1>1. PICK q \in Int, r \in 0 .. m - 1 : q = y \div m /\ r = y % m /\ y = q * m + r
  BY DivParts
<1>2. PICK p \in Int : p = q + k
  OBVIOUS
<1>3. x = p * m + r
  <2>1. (q + k) * m = q * m + k * m /\ q * m \in Int /\ k * m \in Int
    BY Products
  <2>2. PICK u \in Int, w \in Int : u = q * m /\ w = k * m
    BY <2>1
  <2>3. p * m = u + w
    BY <1>2, <2>1, <2>2, Zenon
  <2>4. y = u + r /\ x = y + w
    BY <1>1, <2>2, Zenon
  <2> QED
    BY <2>3, <2>4
<1>4. x % m = r
  BY <1>3, DivUnique, Zenon
<1> QED
  BY <1>1, <1>4

\* A residue of a residue.
LEMMA ModOfMod ==
  ASSUME NEW d \in Nat \ {0}, NEW t \in Nat \ {0}, NEW y \in Int
  PROVE  (y % (t * d)) % d = y % d /\ (y % d) % d = y % d
<1>1. (y % (t * d)) % d = y % d
  BY DivTwice
<1>2. y % d \in 0 .. d - 1
  BY DivParts
<1> QED
  BY <1>1, <1>2, DivSmall, Zenon

\* Halving after the conversion to uint32_t.
LEMMA HalfOfU32 ==
  ASSUME NEW n \in 1 .. HALF, NEW v \in Int
  PROVE  (U32(v) \div 2) % 2^n = (v \div 2) % 2^n
<1>1. n \in Nat \ {0} /\ n \in Nat /\ WORD32 - 1 \in Nat /\ n <= WORD32 - 1
  BY Widths
<1>2. PICK d \in Nat \ {0}, m \in Nat \ {0}, h \in Nat \ {0} :
        d = 2^n /\ m = 2^WORD32 /\ h = 2^(WORD32 - 1) /\ m = h * 2
  BY LaneRoom
<1>3. PICK t \in Nat \ {0} : h = t * d
  <2>1. PICK t \in Nat \ {0} : 2^(WORD32 - 1) = 2^n * t
    BY <1>1, PowDivides
  <2>2. d * t = t * d
    BY SMT
  <2> QED
    BY <1>2, <2>1, <2>2
<1>4. (v % (h * 2)) \div 2 = (v \div 2) % h
  <2>1. PICK two \in Nat \ {0} : two = 2
    OBVIOUS
  <2>2. (v % (h * two)) \div two = (v \div two) % h
    BY DivOfMod, Zenon
  <2> QED
    BY <2>1, <2>2, Zenon
<1>5. PICK y \in Int : y = v \div 2
  BY DivParts
<1>6. (y % (t * d)) % d = y % d
  BY ModOfMod
<1>7. U32(v) \div 2 = y % h
  BY <1>2, <1>4, <1>5, Zenon DEF U32
<1> QED
  BY <1>2, <1>3, <1>5, <1>6, <1>7, Zenon

\* What the operations make of two lanes of n bits: a and b with sign, c and d
\* without.
LaneFacts(n, a, b, c, d) ==
  /\ SSAT(a + b, n) = NearestS(a + b, n) /\ NearestS(a + b, n) \in SVal(n)
  /\ SSAT(a - b, n) = NearestS(a - b, n) /\ NearestS(a - b, n) \in SVal(n)
  /\ IUSAT(U32(c + d), n) = NearestU(c + d, n) /\ NearestU(c + d, n) \in UVal(n)
  /\ IUSAT(U32(c - d), n) = NearestU(c - d, n) /\ NearestU(c - d, n) \in UVal(n)
  /\ (a + b) % 2^n = (c + d) % 2^n /\ (a - b) % 2^n = (c - d) % 2^n
  /\ (c + d) % 2^n \in UVal(n) /\ ((c + d) % 2^n) % 2^n = (c + d) % 2^n
  /\ (c - d) % 2^n \in UVal(n) /\ ((c - d) % 2^n) % 2^n = (c - d) % 2^n
  /\ (a + b) \div 2 \in SVal(n) /\ (a - b) \div 2 \in SVal(n)
  /\ (c + d) \div 2 \in UVal(n) /\ U32(c + d) \div 2 = (c + d) \div 2
  /\ ((c + d) \div 2) % 2^n = (c + d) \div 2
  /\ ((c - d) \div 2) % 2^n \in UVal(n) /\ (((c - d) \div 2) % 2^n) % 2^n = ((c - d) \div 2) % 2^n
  /\ (U32(c - d) \div 2) % 2^n = ((c - d) \div 2) % 2^n

\* They hold for any two lanes.
LEMMA LaneWise ==
  ASSUME NEW n \in {BYTE, HALF}, NEW c \in UVal(n), NEW d \in UVal(n)
  PROVE  LaneFacts(n, Signed(c, n), Signed(d, n), c, d)
<1>1. n \in Nat \ {0} /\ n \in 1 .. HALF
  BY Widths
<1>2. PICK m \in Nat \ {0} : m = 2^n
  BY <1>1, PowHalf
<1>3. c \in 0 .. 2^n - 1 /\ d \in 0 .. 2^n - 1
  BY DEF UVal
<1>4. PICK a, b : a = Signed(c, n) /\ b = Signed(d, n)
  OBVIOUS
<1>5. a \in SVal(n) /\ b \in SVal(n)
  BY <1>1, <1>3, <1>4, SignedType, Zenon DEF SVal
<1>6. PICK k \in {0, 1}, l \in {0, 1} : a = c - k * m /\ b = d - l * m
  BY <1>1, <1>2, <1>3, <1>4, SignedType
<1>7. /\ a + b \in Int /\ a - b \in Int /\ (a + b) \div 2 \in SVal(n) /\ (a - b) \div 2 \in SVal(n)
      /\ c + d \in -(2^n - 1) .. 2 * (2^n - 1) /\ c - d \in -(2^n - 1) .. 2 * (2^n - 1)
      /\ (c + d) \div 2 \in UVal(n)
  BY <1>5, LaneSums, Zenon
<1>8. c \in Int /\ d \in Int /\ c + d \in Int /\ c - d \in Int
  BY <1>2, <1>3
<1>9. /\ SSAT(a + b, n) = NearestS(a + b, n) /\ NearestS(a + b, n) \in SVal(n)
      /\ SSAT(a - b, n) = NearestS(a - b, n) /\ NearestS(a - b, n) \in SVal(n)
  BY <1>1, <1>7, SSATNearest, Zenon DEF SVal
<1>10. /\ IUSAT(U32(c + d), n) = NearestU(c + d, n) /\ NearestU(c + d, n) \in UVal(n)
       /\ IUSAT(U32(c - d), n) = NearestU(c - d, n) /\ NearestU(c - d, n) \in UVal(n)
  BY <1>1, <1>7, IUSATNearest, Zenon DEF UVal
<1>11. PICK p \in Int, q \in Int : p = c + d /\ q = c - d
  BY <1>8
<1>12. (a + b) % m = p % m
  <2>1. PICK x \in Int, j \in Int : x = a + b /\ j = -(k + l)
    BY <1>7
  <2>2. x = p + j * m
    <3>1. CASE k = 0 /\ l = 0
      BY <1>6, <1>8, <1>11, <2>1, <3>1
    <3>2. CASE k = 1 /\ l = 0
      BY <1>6, <1>8, <1>11, <2>1, <3>2
    <3>3. CASE k = 0 /\ l = 1
      BY <1>6, <1>8, <1>11, <2>1, <3>3
    <3>4. CASE k = 1 /\ l = 1
      BY <1>6, <1>8, <1>11, <2>1, <3>4
    <3> QED
      BY <3>1, <3>2, <3>3, <3>4
  <2> QED
    BY <2>1, <2>2, ModEqual, Zenon
<1>13. (a - b) % m = q % m
  <2>1. PICK x \in Int, j \in Int : x = a - b /\ j = l - k
    BY <1>7
  <2>2. x = q + j * m
    <3>1. CASE k = 0 /\ l = 0
      BY <1>6, <1>8, <1>11, <2>1, <3>1
    <3>2. CASE k = 1 /\ l = 0
      BY <1>6, <1>8, <1>11, <2>1, <3>2
    <3>3. CASE k = 0 /\ l = 1
      BY <1>6, <1>8, <1>11, <2>1, <3>3
    <3>4. CASE k = 1 /\ l = 1
      BY <1>6, <1>8, <1>11, <2>1, <3>4
    <3> QED
      BY <3>1, <3>2, <3>3, <3>4
  <2> QED
    BY <2>1, <2>2, ModEqual, Zenon
<1>14. p % m \in UVal(n) /\ q % m \in UVal(n) /\ (p % m) % m = p % m /\ (q % m) % m = q % m
  <2>1. p % 2^n \in UVal(n) /\ q % 2^n \in UVal(n)
    BY <1>1, LaneValue, Zenon
  <2>2. (p % m) % m = p % m /\ (q % m) % m = q % m
    BY ModOfMod, Zenon
  <2> QED
    BY <1>2, <2>1, <2>2, Zenon
<1>15. PICK p2 \in Int, q2 \in Int : p2 = p \div 2 /\ q2 = q \div 2
  BY DivParts
<1>16. p2 \in UVal(n) /\ p2 % 2^n = p2
  <2>1. p2 \in UVal(n)
    BY <1>7, <1>11, <1>15, Zenon
  <2> QED
    BY <1>1, <2>1, LaneValue, Zenon
<1>17. U32(p) = p
  <2>1. PICK w \in Nat \ {0}, h \in Nat \ {0} : w = 2^WORD32 /\ w = 2 * h /\ 2 * m <= h
    BY <1>1, <1>2, LaneRoom
  <2>2. p \in 0 .. w - 1
    BY <1>2, <1>3, <1>11, <2>1
  <2> QED
    BY <2>1, <2>2, U32Small
<1>18. (U32(q) \div 2) % m = q2 % m
  BY <1>1, <1>2, <1>15, HalfOfU32, Zenon
<1>19. q2 % m \in UVal(n) /\ (q2 % m) % m = q2 % m
  <2>1. q2 % 2^n \in UVal(n)
    BY <1>1, LaneValue, Zenon
  <2>2. (q2 % m) % m = q2 % m
    BY ModOfMod, Zenon
  <2> QED
    BY <1>2, <2>1, <2>2, Zenon
<1>20. LaneFacts(n, a, b, c, d)
  BY <1>2, <1>7, <1>9, <1>10, <1>11, <1>12, <1>13, <1>14, <1>15, <1>16, <1>17, <1>18, <1>19, Zenon DEF LaneFacts
<1> QED
  BY <1>4, <1>20, Zenon

\* The bytes of two words.
LEMMA ByteFacts ==
  ASSUME NEW x \in Words, NEW y \in Words, NEW i \in 0 .. 3
  PROVE  /\ UByte(x, i) = Digit(x, BYTE, i) /\ SByte(x, i) = SDigit(x, BYTE, i)
         /\ UByte(y, i) = Digit(y, BYTE, i) /\ SByte(y, i) = SDigit(y, BYTE, i)
         /\ LaneFacts(BYTE, SByte(x, i), SByte(y, i), UByte(x, i), UByte(y, i))
<1>1. PICK c, d : c = UByte(x, i) /\ d = UByte(y, i)
  OBVIOUS
<1>2. c = Digit(x, BYTE, i) /\ SByte(x, i) = SDigit(x, BYTE, i) /\ d = Digit(y, BYTE, i) /\ SByte(y, i) = SDigit(y, BYTE, i)
  BY <1>1, LaneOperands, Zenon
<1>3. c \in UVal(BYTE) /\ d \in UVal(BYTE)
  BY <1>2, Widths, Lanes
<1>4. LaneFacts(BYTE, Signed(c, BYTE), Signed(d, BYTE), c, d)
  BY <1>3, LaneWise
<1> QED
  BY <1>1, <1>2, <1>4, Zenon DEF SDigit

\* Any two halfwords of two words.
LEMMA HalfFacts ==
  ASSUME NEW x \in Words, NEW y \in Words, NEW i \in 0 .. 1, NEW j \in 0 .. 1
  PROVE  /\ UHalf(x, i) = Digit(x, HALF, i) /\ SHalf(x, i) = SDigit(x, HALF, i)
         /\ UHalf(y, j) = Digit(y, HALF, j) /\ SHalf(y, j) = SDigit(y, HALF, j)
         /\ LaneFacts(HALF, SHalf(x, i), SHalf(y, j), UHalf(x, i), UHalf(y, j))
<1>1. PICK c, d : c = UHalf(x, i) /\ d = UHalf(y, j)
  OBVIOUS
<1>2. c = Digit(x, HALF, i) /\ SHalf(x, i) = SDigit(x, HALF, i) /\ d = Digit(y, HALF, j) /\ SHalf(y, j) = SDigit(y, HALF, j)
  BY <1>1, LaneOperands, Zenon
<1>3. c \in UVal(HALF) /\ d \in UVal(HALF)
  BY <1>2, Widths, Lanes
<1>4. LaneFacts(HALF, Signed(c, HALF), Signed(d, HALF), c, d)
  BY <1>3, LaneWise
<1> QED
  BY <1>1, <1>2, <1>4, Zenon DEF SDigit

\* The lanes of a word whose parts G leave the values E in them.
LEMMA SignedBytes ==
  ASSUME NEW E, NEW G, NEW w, w = Four(G[3], G[2], G[1], G[0]),
         \A i \in 0 .. 3 : E[i] \in SVal(BYTE) /\ E[i] % 2^BYTE = G[i] % 2^BYTE
  PROVE  \A i \in 0 .. WORD32 \div BYTE - 1 : SDigit(w, BYTE, i) = E[i]
<1>1. PICK D : D = [i \in 0 .. 3 |-> E[i]]
  OBVIOUS
<1>2. D \in [0 .. 3 -> Int] /\ (\A i \in 0 .. 3 : D[i] = E[i] /\ D[i] \in SVal(BYTE))
  BY <1>1, LaneInts
<1>3. E[0] % 2^BYTE = G[0] % 2^BYTE /\ E[1] % 2^BYTE = G[1] % 2^BYTE /\ E[2] % 2^BYTE = G[2] % 2^BYTE /\ E[3] % 2^BYTE = G[3] % 2^BYTE
  OBVIOUS
<1>4. w = Four(E[3], E[2], E[1], E[0])
  BY <1>3, Zenon DEF Four
<1>5. w = Four(D[3], D[2], D[1], D[0])
  BY <1>2, <1>4
<1>6. SLanes(w, BYTE, D)
  BY <1>2, <1>5, FourOf, Zenon
<1> QED
  BY <1>2, <1>6, LaneNumbers, Zenon DEF SLanes

\* The lanes of a word whose parts G leave the values E in them.
LEMMA UnsignedBytes ==
  ASSUME NEW E, NEW G, NEW w, w = Four(G[3], G[2], G[1], G[0]),
         \A i \in 0 .. 3 : E[i] \in UVal(BYTE) /\ E[i] % 2^BYTE = G[i] % 2^BYTE
  PROVE  \A i \in 0 .. WORD32 \div BYTE - 1 : Digit(w, BYTE, i) = E[i]
<1>1. PICK D : D = [i \in 0 .. 3 |-> E[i]]
  OBVIOUS
<1>2. D \in [0 .. 3 -> Int] /\ (\A i \in 0 .. 3 : D[i] = E[i] /\ D[i] \in UVal(BYTE))
  BY <1>1, LaneInts
<1>3. E[0] % 2^BYTE = G[0] % 2^BYTE /\ E[1] % 2^BYTE = G[1] % 2^BYTE /\ E[2] % 2^BYTE = G[2] % 2^BYTE /\ E[3] % 2^BYTE = G[3] % 2^BYTE
  OBVIOUS
<1>4. w = Four(E[3], E[2], E[1], E[0])
  BY <1>3, Zenon DEF Four
<1>5. w = Four(D[3], D[2], D[1], D[0])
  BY <1>2, <1>4
<1>6. ULanes(w, BYTE, D)
  BY <1>2, <1>5, FourOf, Zenon
<1> QED
  BY <1>2, <1>6, LaneNumbers, Zenon DEF ULanes

\* Words of the same residues.
LEMMA SameBytes ==
  ASSUME NEW E, NEW G, \A i \in 0 .. 3 : E[i] % 2^BYTE = G[i] % 2^BYTE
  PROVE  Four(E[3], E[2], E[1], E[0]) = Four(G[3], G[2], G[1], G[0])
<1>1. E[0] % 2^BYTE = G[0] % 2^BYTE /\ E[1] % 2^BYTE = G[1] % 2^BYTE /\ E[2] % 2^BYTE = G[2] % 2^BYTE /\ E[3] % 2^BYTE = G[3] % 2^BYTE
  OBVIOUS
<1> QED
  BY <1>1, Zenon DEF Four

\* The lanes of a word whose parts G leave the values E in them.
LEMMA SignedHalves ==
  ASSUME NEW E, NEW G, NEW w, w = Two(G[1], G[0]),
         \A i \in 0 .. 1 : E[i] \in SVal(HALF) /\ E[i] % 2^HALF = G[i] % 2^HALF
  PROVE  \A i \in 0 .. WORD32 \div HALF - 1 : SDigit(w, HALF, i) = E[i]
<1>1. PICK D : D = [i \in 0 .. 1 |-> E[i]]
  OBVIOUS
<1>2. D \in [0 .. 1 -> Int] /\ (\A i \in 0 .. 1 : D[i] = E[i] /\ D[i] \in SVal(HALF))
  BY <1>1, LaneInts
<1>3. E[0] % 2^HALF = G[0] % 2^HALF /\ E[1] % 2^HALF = G[1] % 2^HALF
  OBVIOUS
<1>4. w = Two(E[1], E[0])
  BY <1>3, Zenon DEF Two
<1>5. w = Two(D[1], D[0])
  BY <1>2, <1>4
<1>6. SLanes(w, HALF, D)
  BY <1>2, <1>5, TwoOf, Zenon
<1> QED
  BY <1>2, <1>6, LaneNumbers, Zenon DEF SLanes

\* The lanes of a word whose parts G leave the values E in them.
LEMMA UnsignedHalves ==
  ASSUME NEW E, NEW G, NEW w, w = Two(G[1], G[0]),
         \A i \in 0 .. 1 : E[i] \in UVal(HALF) /\ E[i] % 2^HALF = G[i] % 2^HALF
  PROVE  \A i \in 0 .. WORD32 \div HALF - 1 : Digit(w, HALF, i) = E[i]
<1>1. PICK D : D = [i \in 0 .. 1 |-> E[i]]
  OBVIOUS
<1>2. D \in [0 .. 1 -> Int] /\ (\A i \in 0 .. 1 : D[i] = E[i] /\ D[i] \in UVal(HALF))
  BY <1>1, LaneInts
<1>3. E[0] % 2^HALF = G[0] % 2^HALF /\ E[1] % 2^HALF = G[1] % 2^HALF
  OBVIOUS
<1>4. w = Two(E[1], E[0])
  BY <1>3, Zenon DEF Two
<1>5. w = Two(D[1], D[0])
  BY <1>2, <1>4
<1>6. ULanes(w, HALF, D)
  BY <1>2, <1>5, TwoOf, Zenon
<1> QED
  BY <1>2, <1>6, LaneNumbers, Zenon DEF ULanes

\* Words of the same residues.
LEMMA SameHalves ==
  ASSUME NEW E, NEW G, \A i \in 0 .. 1 : E[i] % 2^HALF = G[i] % 2^HALF
  PROVE  Two(E[1], E[0]) = Two(G[1], G[0])
<1>1. E[0] % 2^HALF = G[0] % 2^HALF /\ E[1] % 2^HALF = G[1] % 2^HALF
  OBVIOUS
<1> QED
  BY <1>1, Zenon DEF Two

\* Four saturating bytes.
LEMMA Saturate8 ==
  ASSUME opX \in Words, opY \in Words
  PROVE  /\ SLanesAre(QADD8(opX, opY), BYTE, LAMBDA i : NearestS(SAdd(BYTE, i), BYTE))
         /\ SLanesAre(QSUB8(opX, opY), BYTE, LAMBDA i : NearestS(SSub(BYTE, i), BYTE))
         /\ ULanesAre(UQADD8(opX, opY), BYTE, LAMBDA i : NearestU(UAdd(BYTE, i), BYTE))
         /\ ULanesAre(UQSUB8(opX, opY), BYTE, LAMBDA i : NearestU(USub(BYTE, i), BYTE))
<1>1. ASSUME NEW i \in 0 .. 3
      PROVE  /\ LaneFacts(BYTE, SByte(opX, i), SByte(opY, i), UByte(opX, i), UByte(opY, i))
             /\ SAdd(BYTE, i) = SByte(opX, i) + SByte(opY, i) /\ SSub(BYTE, i) = SByte(opX, i) - SByte(opY, i)
             /\ UAdd(BYTE, i) = UByte(opX, i) + UByte(opY, i) /\ USub(BYTE, i) = UByte(opX, i) - UByte(opY, i)
  BY ByteFacts, Zenon DEF SAdd, SSub, UAdd, USub
<1>2. SLanesAre(QADD8(opX, opY), BYTE, LAMBDA i : NearestS(SAdd(BYTE, i), BYTE))
  <2> DEFINE E == [i \in 0 .. 3 |-> NearestS(SAdd(BYTE, i), BYTE)]
             G == [i \in 0 .. 3 |-> SSAT(SByte(opX, i) + SByte(opY, i), BYTE)]
  <2>1. \A i \in 0 .. 3 : E[i] \in SVal(BYTE) /\ E[i] % 2^BYTE = G[i] % 2^BYTE
    BY <1>1, Zenon DEF LaneFacts
  <2>2. QADD8(opX, opY) = Four(G[3], G[2], G[1], G[0])
    BY DEF QADD8, Pack8
  <2>3. \A i \in 0 .. 3 : E[i] = NearestS(SAdd(BYTE, i), BYTE)
    OBVIOUS
  <2> HIDE DEF E, G
  <2>4. \A i \in 0 .. WORD32 \div BYTE - 1 : SDigit(QADD8(opX, opY), BYTE, i) = E[i]
    BY <2>1, <2>2, SignedBytes, Zenon
  <2> QED
    BY <2>3, <2>4, LaneNumbers, Zenon DEF SLanesAre
<1>3. SLanesAre(QSUB8(opX, opY), BYTE, LAMBDA i : NearestS(SSub(BYTE, i), BYTE))
  <2> DEFINE E == [i \in 0 .. 3 |-> NearestS(SSub(BYTE, i), BYTE)]
             G == [i \in 0 .. 3 |-> SSAT(SByte(opX, i) - SByte(opY, i), BYTE)]
  <2>1. \A i \in 0 .. 3 : E[i] \in SVal(BYTE) /\ E[i] % 2^BYTE = G[i] % 2^BYTE
    BY <1>1, Zenon DEF LaneFacts
  <2>2. QSUB8(opX, opY) = Four(G[3], G[2], G[1], G[0])
    BY DEF QSUB8, Pack8
  <2>3. \A i \in 0 .. 3 : E[i] = NearestS(SSub(BYTE, i), BYTE)
    OBVIOUS
  <2> HIDE DEF E, G
  <2>4. \A i \in 0 .. WORD32 \div BYTE - 1 : SDigit(QSUB8(opX, opY), BYTE, i) = E[i]
    BY <2>1, <2>2, SignedBytes, Zenon
  <2> QED
    BY <2>3, <2>4, LaneNumbers, Zenon DEF SLanesAre
<1>4. ULanesAre(UQADD8(opX, opY), BYTE, LAMBDA i : NearestU(UAdd(BYTE, i), BYTE))
  <2> DEFINE E == [i \in 0 .. 3 |-> NearestU(UAdd(BYTE, i), BYTE)]
             G == [i \in 0 .. 3 |-> IUSAT(U32(UByte(opX, i) + UByte(opY, i)), BYTE)]
  <2>1. \A i \in 0 .. 3 : E[i] \in UVal(BYTE) /\ E[i] % 2^BYTE = G[i] % 2^BYTE
    BY <1>1, Zenon DEF LaneFacts
  <2>2. UQADD8(opX, opY) = Four(G[3], G[2], G[1], G[0])
    BY DEF UQADD8, Pack8
  <2>3. \A i \in 0 .. 3 : E[i] = NearestU(UAdd(BYTE, i), BYTE)
    OBVIOUS
  <2> HIDE DEF E, G
  <2>4. \A i \in 0 .. WORD32 \div BYTE - 1 : Digit(UQADD8(opX, opY), BYTE, i) = E[i]
    BY <2>1, <2>2, UnsignedBytes, Zenon
  <2> QED
    BY <2>3, <2>4, LaneNumbers, Zenon DEF ULanesAre
<1>5. ULanesAre(UQSUB8(opX, opY), BYTE, LAMBDA i : NearestU(USub(BYTE, i), BYTE))
  <2> DEFINE E == [i \in 0 .. 3 |-> NearestU(USub(BYTE, i), BYTE)]
             G == [i \in 0 .. 3 |-> IUSAT(U32(UByte(opX, i) - UByte(opY, i)), BYTE)]
  <2>1. \A i \in 0 .. 3 : E[i] \in UVal(BYTE) /\ E[i] % 2^BYTE = G[i] % 2^BYTE
    BY <1>1, Zenon DEF LaneFacts
  <2>2. UQSUB8(opX, opY) = Four(G[3], G[2], G[1], G[0])
    BY DEF UQSUB8, Pack8
  <2>3. \A i \in 0 .. 3 : E[i] = NearestU(USub(BYTE, i), BYTE)
    OBVIOUS
  <2> HIDE DEF E, G
  <2>4. \A i \in 0 .. WORD32 \div BYTE - 1 : Digit(UQSUB8(opX, opY), BYTE, i) = E[i]
    BY <2>1, <2>2, UnsignedBytes, Zenon
  <2> QED
    BY <2>3, <2>4, LaneNumbers, Zenon DEF ULanesAre
<1> QED
  BY <1>2, <1>3, <1>4, <1>5

\* Four modular or halved bytes.
LEMMA Exact8 ==
  ASSUME opX \in Words, opY \in Words
  PROVE  /\ ULanesAre(UADD8(opX, opY), BYTE, LAMBDA i : UAdd(BYTE, i) % 2^BYTE)
         /\ ULanesAre(USUB8(opX, opY), BYTE, LAMBDA i : USub(BYTE, i) % 2^BYTE)
         /\ SLanesAre(SHADD8(opX, opY), BYTE, LAMBDA i : SAdd(BYTE, i) \div 2)
         /\ SLanesAre(SHSUB8(opX, opY), BYTE, LAMBDA i : SSub(BYTE, i) \div 2)
         /\ ULanesAre(UHADD8(opX, opY), BYTE, LAMBDA i : UAdd(BYTE, i) \div 2)
         /\ ULanesAre(UHSUB8(opX, opY), BYTE, LAMBDA i : (USub(BYTE, i) \div 2) % 2^BYTE)
         /\ SADD8(opX, opY) = UADD8(opX, opY)
         /\ SSUB8(opX, opY) = USUB8(opX, opY)
<1>1. ASSUME NEW i \in 0 .. 3
      PROVE  /\ LaneFacts(BYTE, SByte(opX, i), SByte(opY, i), UByte(opX, i), UByte(opY, i))
             /\ SAdd(BYTE, i) = SByte(opX, i) + SByte(opY, i) /\ SSub(BYTE, i) = SByte(opX, i) - SByte(opY, i)
             /\ UAdd(BYTE, i) = UByte(opX, i) + UByte(opY, i) /\ USub(BYTE, i) = UByte(opX, i) - UByte(opY, i)
  BY ByteFacts, Zenon DEF SAdd, SSub, UAdd, USub
<1>2. ULanesAre(UADD8(opX, opY), BYTE, LAMBDA i : UAdd(BYTE, i) % 2^BYTE)
  <2> DEFINE E == [i \in 0 .. 3 |-> UAdd(BYTE, i) % 2^BYTE]
             G == [i \in 0 .. 3 |-> UByte(opX, i) + UByte(opY, i)]
  <2>1. \A i \in 0 .. 3 : E[i] \in UVal(BYTE) /\ E[i] % 2^BYTE = G[i] % 2^BYTE
    BY <1>1, Zenon DEF LaneFacts
  <2>2. UADD8(opX, opY) = Four(G[3], G[2], G[1], G[0])
    BY DEF UADD8, Pack8
  <2>3. \A i \in 0 .. 3 : E[i] = UAdd(BYTE, i) % 2^BYTE
    OBVIOUS
  <2> HIDE DEF E, G
  <2>4. \A i \in 0 .. WORD32 \div BYTE - 1 : Digit(UADD8(opX, opY), BYTE, i) = E[i]
    BY <2>1, <2>2, UnsignedBytes, Zenon
  <2> QED
    BY <2>3, <2>4, LaneNumbers, Zenon DEF ULanesAre
<1>3. ULanesAre(USUB8(opX, opY), BYTE, LAMBDA i : USub(BYTE, i) % 2^BYTE)
  <2> DEFINE E == [i \in 0 .. 3 |-> USub(BYTE, i) % 2^BYTE]
             G == [i \in 0 .. 3 |-> UByte(opX, i) - UByte(opY, i)]
  <2>1. \A i \in 0 .. 3 : E[i] \in UVal(BYTE) /\ E[i] % 2^BYTE = G[i] % 2^BYTE
    BY <1>1, Zenon DEF LaneFacts
  <2>2. USUB8(opX, opY) = Four(G[3], G[2], G[1], G[0])
    BY DEF USUB8, Pack8
  <2>3. \A i \in 0 .. 3 : E[i] = USub(BYTE, i) % 2^BYTE
    OBVIOUS
  <2> HIDE DEF E, G
  <2>4. \A i \in 0 .. WORD32 \div BYTE - 1 : Digit(USUB8(opX, opY), BYTE, i) = E[i]
    BY <2>1, <2>2, UnsignedBytes, Zenon
  <2> QED
    BY <2>3, <2>4, LaneNumbers, Zenon DEF ULanesAre
<1>4. SLanesAre(SHADD8(opX, opY), BYTE, LAMBDA i : SAdd(BYTE, i) \div 2)
  <2> DEFINE E == [i \in 0 .. 3 |-> SAdd(BYTE, i) \div 2]
             G == [i \in 0 .. 3 |-> (SByte(opX, i) + SByte(opY, i)) \div 2]
  <2>1. \A i \in 0 .. 3 : E[i] \in SVal(BYTE) /\ E[i] % 2^BYTE = G[i] % 2^BYTE
    BY <1>1, Zenon DEF LaneFacts
  <2>2. SHADD8(opX, opY) = Four(G[3], G[2], G[1], G[0])
    BY DEF SHADD8, Pack8
  <2>3. \A i \in 0 .. 3 : E[i] = SAdd(BYTE, i) \div 2
    OBVIOUS
  <2> HIDE DEF E, G
  <2>4. \A i \in 0 .. WORD32 \div BYTE - 1 : SDigit(SHADD8(opX, opY), BYTE, i) = E[i]
    BY <2>1, <2>2, SignedBytes, Zenon
  <2> QED
    BY <2>3, <2>4, LaneNumbers, Zenon DEF SLanesAre
<1>5. SLanesAre(SHSUB8(opX, opY), BYTE, LAMBDA i : SSub(BYTE, i) \div 2)
  <2> DEFINE E == [i \in 0 .. 3 |-> SSub(BYTE, i) \div 2]
             G == [i \in 0 .. 3 |-> (SByte(opX, i) - SByte(opY, i)) \div 2]
  <2>1. \A i \in 0 .. 3 : E[i] \in SVal(BYTE) /\ E[i] % 2^BYTE = G[i] % 2^BYTE
    BY <1>1, Zenon DEF LaneFacts
  <2>2. SHSUB8(opX, opY) = Four(G[3], G[2], G[1], G[0])
    BY DEF SHSUB8, Pack8
  <2>3. \A i \in 0 .. 3 : E[i] = SSub(BYTE, i) \div 2
    OBVIOUS
  <2> HIDE DEF E, G
  <2>4. \A i \in 0 .. WORD32 \div BYTE - 1 : SDigit(SHSUB8(opX, opY), BYTE, i) = E[i]
    BY <2>1, <2>2, SignedBytes, Zenon
  <2> QED
    BY <2>3, <2>4, LaneNumbers, Zenon DEF SLanesAre
<1>6. ULanesAre(UHADD8(opX, opY), BYTE, LAMBDA i : UAdd(BYTE, i) \div 2)
  <2> DEFINE E == [i \in 0 .. 3 |-> UAdd(BYTE, i) \div 2]
             G == [i \in 0 .. 3 |-> U32(UByte(opX, i) + UByte(opY, i)) \div 2]
  <2>1. \A i \in 0 .. 3 : E[i] \in UVal(BYTE) /\ E[i] % 2^BYTE = G[i] % 2^BYTE
    BY <1>1, Zenon DEF LaneFacts
  <2>2. UHADD8(opX, opY) = Four(G[3], G[2], G[1], G[0])
    BY DEF UHADD8, Pack8
  <2>3. \A i \in 0 .. 3 : E[i] = UAdd(BYTE, i) \div 2
    OBVIOUS
  <2> HIDE DEF E, G
  <2>4. \A i \in 0 .. WORD32 \div BYTE - 1 : Digit(UHADD8(opX, opY), BYTE, i) = E[i]
    BY <2>1, <2>2, UnsignedBytes, Zenon
  <2> QED
    BY <2>3, <2>4, LaneNumbers, Zenon DEF ULanesAre
<1>7. ULanesAre(UHSUB8(opX, opY), BYTE, LAMBDA i : (USub(BYTE, i) \div 2) % 2^BYTE)
  <2> DEFINE E == [i \in 0 .. 3 |-> (USub(BYTE, i) \div 2) % 2^BYTE]
             G == [i \in 0 .. 3 |-> U32(UByte(opX, i) - UByte(opY, i)) \div 2]
  <2>1. \A i \in 0 .. 3 : E[i] \in UVal(BYTE) /\ E[i] % 2^BYTE = G[i] % 2^BYTE
    BY <1>1, Zenon DEF LaneFacts
  <2>2. UHSUB8(opX, opY) = Four(G[3], G[2], G[1], G[0])
    BY DEF UHSUB8, Pack8
  <2>3. \A i \in 0 .. 3 : E[i] = (USub(BYTE, i) \div 2) % 2^BYTE
    OBVIOUS
  <2> HIDE DEF E, G
  <2>4. \A i \in 0 .. WORD32 \div BYTE - 1 : Digit(UHSUB8(opX, opY), BYTE, i) = E[i]
    BY <2>1, <2>2, UnsignedBytes, Zenon
  <2> QED
    BY <2>3, <2>4, LaneNumbers, Zenon DEF ULanesAre
<1>8. SADD8(opX, opY) = UADD8(opX, opY)
  <2> DEFINE E == [i \in 0 .. 3 |-> SByte(opX, i) + SByte(opY, i)]
             G == [i \in 0 .. 3 |-> UByte(opX, i) + UByte(opY, i)]
  <2>1. \A i \in 0 .. 3 : E[i] % 2^BYTE = G[i] % 2^BYTE
    BY <1>1, Zenon DEF LaneFacts
  <2>2. SADD8(opX, opY) = Four(E[3], E[2], E[1], E[0]) /\ UADD8(opX, opY) = Four(G[3], G[2], G[1], G[0])
    BY DEF SADD8, UADD8, Pack8
  <2> HIDE DEF E, G
  <2> QED
    BY <2>1, <2>2, SameBytes, Zenon
<1>9. SSUB8(opX, opY) = USUB8(opX, opY)
  <2> DEFINE E == [i \in 0 .. 3 |-> SByte(opX, i) - SByte(opY, i)]
             G == [i \in 0 .. 3 |-> UByte(opX, i) - UByte(opY, i)]
  <2>1. \A i \in 0 .. 3 : E[i] % 2^BYTE = G[i] % 2^BYTE
    BY <1>1, Zenon DEF LaneFacts
  <2>2. SSUB8(opX, opY) = Four(E[3], E[2], E[1], E[0]) /\ USUB8(opX, opY) = Four(G[3], G[2], G[1], G[0])
    BY DEF SSUB8, USUB8, Pack8
  <2> HIDE DEF E, G
  <2> QED
    BY <2>1, <2>2, SameBytes, Zenon
<1> QED
  BY <1>2, <1>3, <1>4, <1>5, <1>6, <1>7, <1>8, <1>9

\* Two saturating halfwords.
LEMMA Saturate16 ==
  ASSUME opX \in Words, opY \in Words
  PROVE  /\ SLanesAre(QADD16(opX, opY), HALF, LAMBDA i : NearestS(SAdd(HALF, i), HALF))
         /\ SLanesAre(QSUB16(opX, opY), HALF, LAMBDA i : NearestS(SSub(HALF, i), HALF))
         /\ ULanesAre(UQADD16(opX, opY), HALF, LAMBDA i : NearestU(UAdd(HALF, i), HALF))
         /\ ULanesAre(UQSUB16(opX, opY), HALF, LAMBDA i : NearestU(USub(HALF, i), HALF))
<1>1. ASSUME NEW i \in 0 .. 1
      PROVE  /\ LaneFacts(HALF, SHalf(opX, i), SHalf(opY, i), UHalf(opX, i), UHalf(opY, i))
             /\ SAdd(HALF, i) = SHalf(opX, i) + SHalf(opY, i) /\ SSub(HALF, i) = SHalf(opX, i) - SHalf(opY, i)
             /\ UAdd(HALF, i) = UHalf(opX, i) + UHalf(opY, i) /\ USub(HALF, i) = UHalf(opX, i) - UHalf(opY, i)
  BY HalfFacts, Zenon DEF SAdd, SSub, UAdd, USub
<1>2. SLanesAre(QADD16(opX, opY), HALF, LAMBDA i : NearestS(SAdd(HALF, i), HALF))
  <2> DEFINE E == [i \in 0 .. 1 |-> NearestS(SAdd(HALF, i), HALF)]
             G == [i \in 0 .. 1 |-> SSAT(SHalf(opX, i) + SHalf(opY, i), HALF)]
  <2>1. \A i \in 0 .. 1 : E[i] \in SVal(HALF) /\ E[i] % 2^HALF = G[i] % 2^HALF
    BY <1>1, Zenon DEF LaneFacts
  <2>2. QADD16(opX, opY) = Two(G[1], G[0])
    BY DEF QADD16, Pack16
  <2>3. \A i \in 0 .. 1 : E[i] = NearestS(SAdd(HALF, i), HALF)
    OBVIOUS
  <2> HIDE DEF E, G
  <2>4. \A i \in 0 .. WORD32 \div HALF - 1 : SDigit(QADD16(opX, opY), HALF, i) = E[i]
    BY <2>1, <2>2, SignedHalves, Zenon
  <2> QED
    BY <2>3, <2>4, LaneNumbers, Zenon DEF SLanesAre
<1>3. SLanesAre(QSUB16(opX, opY), HALF, LAMBDA i : NearestS(SSub(HALF, i), HALF))
  <2> DEFINE E == [i \in 0 .. 1 |-> NearestS(SSub(HALF, i), HALF)]
             G == [i \in 0 .. 1 |-> SSAT(SHalf(opX, i) - SHalf(opY, i), HALF)]
  <2>1. \A i \in 0 .. 1 : E[i] \in SVal(HALF) /\ E[i] % 2^HALF = G[i] % 2^HALF
    BY <1>1, Zenon DEF LaneFacts
  <2>2. QSUB16(opX, opY) = Two(G[1], G[0])
    BY DEF QSUB16, Pack16
  <2>3. \A i \in 0 .. 1 : E[i] = NearestS(SSub(HALF, i), HALF)
    OBVIOUS
  <2> HIDE DEF E, G
  <2>4. \A i \in 0 .. WORD32 \div HALF - 1 : SDigit(QSUB16(opX, opY), HALF, i) = E[i]
    BY <2>1, <2>2, SignedHalves, Zenon
  <2> QED
    BY <2>3, <2>4, LaneNumbers, Zenon DEF SLanesAre
<1>4. ULanesAre(UQADD16(opX, opY), HALF, LAMBDA i : NearestU(UAdd(HALF, i), HALF))
  <2> DEFINE E == [i \in 0 .. 1 |-> NearestU(UAdd(HALF, i), HALF)]
             G == [i \in 0 .. 1 |-> IUSAT(U32(UHalf(opX, i) + UHalf(opY, i)), HALF)]
  <2>1. \A i \in 0 .. 1 : E[i] \in UVal(HALF) /\ E[i] % 2^HALF = G[i] % 2^HALF
    BY <1>1, Zenon DEF LaneFacts
  <2>2. UQADD16(opX, opY) = Two(G[1], G[0])
    BY DEF UQADD16, Pack16
  <2>3. \A i \in 0 .. 1 : E[i] = NearestU(UAdd(HALF, i), HALF)
    OBVIOUS
  <2> HIDE DEF E, G
  <2>4. \A i \in 0 .. WORD32 \div HALF - 1 : Digit(UQADD16(opX, opY), HALF, i) = E[i]
    BY <2>1, <2>2, UnsignedHalves, Zenon
  <2> QED
    BY <2>3, <2>4, LaneNumbers, Zenon DEF ULanesAre
<1>5. ULanesAre(UQSUB16(opX, opY), HALF, LAMBDA i : NearestU(USub(HALF, i), HALF))
  <2> DEFINE E == [i \in 0 .. 1 |-> NearestU(USub(HALF, i), HALF)]
             G == [i \in 0 .. 1 |-> IUSAT(U32(UHalf(opX, i) - UHalf(opY, i)), HALF)]
  <2>1. \A i \in 0 .. 1 : E[i] \in UVal(HALF) /\ E[i] % 2^HALF = G[i] % 2^HALF
    BY <1>1, Zenon DEF LaneFacts
  <2>2. UQSUB16(opX, opY) = Two(G[1], G[0])
    BY DEF UQSUB16, Pack16
  <2>3. \A i \in 0 .. 1 : E[i] = NearestU(USub(HALF, i), HALF)
    OBVIOUS
  <2> HIDE DEF E, G
  <2>4. \A i \in 0 .. WORD32 \div HALF - 1 : Digit(UQSUB16(opX, opY), HALF, i) = E[i]
    BY <2>1, <2>2, UnsignedHalves, Zenon
  <2> QED
    BY <2>3, <2>4, LaneNumbers, Zenon DEF ULanesAre
<1> QED
  BY <1>2, <1>3, <1>4, <1>5

\* Two modular or halved halfwords.
LEMMA Exact16 ==
  ASSUME opX \in Words, opY \in Words
  PROVE  /\ ULanesAre(UADD16(opX, opY), HALF, LAMBDA i : UAdd(HALF, i) % 2^HALF)
         /\ ULanesAre(USUB16(opX, opY), HALF, LAMBDA i : USub(HALF, i) % 2^HALF)
         /\ SLanesAre(SHADD16(opX, opY), HALF, LAMBDA i : SAdd(HALF, i) \div 2)
         /\ SLanesAre(SHSUB16(opX, opY), HALF, LAMBDA i : SSub(HALF, i) \div 2)
         /\ ULanesAre(UHADD16(opX, opY), HALF, LAMBDA i : UAdd(HALF, i) \div 2)
         /\ ULanesAre(UHSUB16(opX, opY), HALF, LAMBDA i : (USub(HALF, i) \div 2) % 2^HALF)
         /\ SADD16(opX, opY) = UADD16(opX, opY)
         /\ SSUB16(opX, opY) = USUB16(opX, opY)
<1>1. ASSUME NEW i \in 0 .. 1
      PROVE  /\ LaneFacts(HALF, SHalf(opX, i), SHalf(opY, i), UHalf(opX, i), UHalf(opY, i))
             /\ SAdd(HALF, i) = SHalf(opX, i) + SHalf(opY, i) /\ SSub(HALF, i) = SHalf(opX, i) - SHalf(opY, i)
             /\ UAdd(HALF, i) = UHalf(opX, i) + UHalf(opY, i) /\ USub(HALF, i) = UHalf(opX, i) - UHalf(opY, i)
  BY HalfFacts, Zenon DEF SAdd, SSub, UAdd, USub
<1>2. ULanesAre(UADD16(opX, opY), HALF, LAMBDA i : UAdd(HALF, i) % 2^HALF)
  <2> DEFINE E == [i \in 0 .. 1 |-> UAdd(HALF, i) % 2^HALF]
             G == [i \in 0 .. 1 |-> UHalf(opX, i) + UHalf(opY, i)]
  <2>1. \A i \in 0 .. 1 : E[i] \in UVal(HALF) /\ E[i] % 2^HALF = G[i] % 2^HALF
    BY <1>1, Zenon DEF LaneFacts
  <2>2. UADD16(opX, opY) = Two(G[1], G[0])
    BY DEF UADD16, Pack16
  <2>3. \A i \in 0 .. 1 : E[i] = UAdd(HALF, i) % 2^HALF
    OBVIOUS
  <2> HIDE DEF E, G
  <2>4. \A i \in 0 .. WORD32 \div HALF - 1 : Digit(UADD16(opX, opY), HALF, i) = E[i]
    BY <2>1, <2>2, UnsignedHalves, Zenon
  <2> QED
    BY <2>3, <2>4, LaneNumbers, Zenon DEF ULanesAre
<1>3. ULanesAre(USUB16(opX, opY), HALF, LAMBDA i : USub(HALF, i) % 2^HALF)
  <2> DEFINE E == [i \in 0 .. 1 |-> USub(HALF, i) % 2^HALF]
             G == [i \in 0 .. 1 |-> UHalf(opX, i) - UHalf(opY, i)]
  <2>1. \A i \in 0 .. 1 : E[i] \in UVal(HALF) /\ E[i] % 2^HALF = G[i] % 2^HALF
    BY <1>1, Zenon DEF LaneFacts
  <2>2. USUB16(opX, opY) = Two(G[1], G[0])
    BY DEF USUB16, Pack16
  <2>3. \A i \in 0 .. 1 : E[i] = USub(HALF, i) % 2^HALF
    OBVIOUS
  <2> HIDE DEF E, G
  <2>4. \A i \in 0 .. WORD32 \div HALF - 1 : Digit(USUB16(opX, opY), HALF, i) = E[i]
    BY <2>1, <2>2, UnsignedHalves, Zenon
  <2> QED
    BY <2>3, <2>4, LaneNumbers, Zenon DEF ULanesAre
<1>4. SLanesAre(SHADD16(opX, opY), HALF, LAMBDA i : SAdd(HALF, i) \div 2)
  <2> DEFINE E == [i \in 0 .. 1 |-> SAdd(HALF, i) \div 2]
             G == [i \in 0 .. 1 |-> (SHalf(opX, i) + SHalf(opY, i)) \div 2]
  <2>1. \A i \in 0 .. 1 : E[i] \in SVal(HALF) /\ E[i] % 2^HALF = G[i] % 2^HALF
    BY <1>1, Zenon DEF LaneFacts
  <2>2. SHADD16(opX, opY) = Two(G[1], G[0])
    BY DEF SHADD16, Pack16
  <2>3. \A i \in 0 .. 1 : E[i] = SAdd(HALF, i) \div 2
    OBVIOUS
  <2> HIDE DEF E, G
  <2>4. \A i \in 0 .. WORD32 \div HALF - 1 : SDigit(SHADD16(opX, opY), HALF, i) = E[i]
    BY <2>1, <2>2, SignedHalves, Zenon
  <2> QED
    BY <2>3, <2>4, LaneNumbers, Zenon DEF SLanesAre
<1>5. SLanesAre(SHSUB16(opX, opY), HALF, LAMBDA i : SSub(HALF, i) \div 2)
  <2> DEFINE E == [i \in 0 .. 1 |-> SSub(HALF, i) \div 2]
             G == [i \in 0 .. 1 |-> (SHalf(opX, i) - SHalf(opY, i)) \div 2]
  <2>1. \A i \in 0 .. 1 : E[i] \in SVal(HALF) /\ E[i] % 2^HALF = G[i] % 2^HALF
    BY <1>1, Zenon DEF LaneFacts
  <2>2. SHSUB16(opX, opY) = Two(G[1], G[0])
    BY DEF SHSUB16, Pack16
  <2>3. \A i \in 0 .. 1 : E[i] = SSub(HALF, i) \div 2
    OBVIOUS
  <2> HIDE DEF E, G
  <2>4. \A i \in 0 .. WORD32 \div HALF - 1 : SDigit(SHSUB16(opX, opY), HALF, i) = E[i]
    BY <2>1, <2>2, SignedHalves, Zenon
  <2> QED
    BY <2>3, <2>4, LaneNumbers, Zenon DEF SLanesAre
<1>6. ULanesAre(UHADD16(opX, opY), HALF, LAMBDA i : UAdd(HALF, i) \div 2)
  <2> DEFINE E == [i \in 0 .. 1 |-> UAdd(HALF, i) \div 2]
             G == [i \in 0 .. 1 |-> U32(UHalf(opX, i) + UHalf(opY, i)) \div 2]
  <2>1. \A i \in 0 .. 1 : E[i] \in UVal(HALF) /\ E[i] % 2^HALF = G[i] % 2^HALF
    BY <1>1, Zenon DEF LaneFacts
  <2>2. UHADD16(opX, opY) = Two(G[1], G[0])
    BY DEF UHADD16, Pack16
  <2>3. \A i \in 0 .. 1 : E[i] = UAdd(HALF, i) \div 2
    OBVIOUS
  <2> HIDE DEF E, G
  <2>4. \A i \in 0 .. WORD32 \div HALF - 1 : Digit(UHADD16(opX, opY), HALF, i) = E[i]
    BY <2>1, <2>2, UnsignedHalves, Zenon
  <2> QED
    BY <2>3, <2>4, LaneNumbers, Zenon DEF ULanesAre
<1>7. ULanesAre(UHSUB16(opX, opY), HALF, LAMBDA i : (USub(HALF, i) \div 2) % 2^HALF)
  <2> DEFINE E == [i \in 0 .. 1 |-> (USub(HALF, i) \div 2) % 2^HALF]
             G == [i \in 0 .. 1 |-> U32(UHalf(opX, i) - UHalf(opY, i)) \div 2]
  <2>1. \A i \in 0 .. 1 : E[i] \in UVal(HALF) /\ E[i] % 2^HALF = G[i] % 2^HALF
    BY <1>1, Zenon DEF LaneFacts
  <2>2. UHSUB16(opX, opY) = Two(G[1], G[0])
    BY DEF UHSUB16, Pack16
  <2>3. \A i \in 0 .. 1 : E[i] = (USub(HALF, i) \div 2) % 2^HALF
    OBVIOUS
  <2> HIDE DEF E, G
  <2>4. \A i \in 0 .. WORD32 \div HALF - 1 : Digit(UHSUB16(opX, opY), HALF, i) = E[i]
    BY <2>1, <2>2, UnsignedHalves, Zenon
  <2> QED
    BY <2>3, <2>4, LaneNumbers, Zenon DEF ULanesAre
<1>8. SADD16(opX, opY) = UADD16(opX, opY)
  <2> DEFINE E == [i \in 0 .. 1 |-> SHalf(opX, i) + SHalf(opY, i)]
             G == [i \in 0 .. 1 |-> UHalf(opX, i) + UHalf(opY, i)]
  <2>1. \A i \in 0 .. 1 : E[i] % 2^HALF = G[i] % 2^HALF
    BY <1>1, Zenon DEF LaneFacts
  <2>2. SADD16(opX, opY) = Two(E[1], E[0]) /\ UADD16(opX, opY) = Two(G[1], G[0])
    BY DEF SADD16, UADD16, Pack16
  <2> HIDE DEF E, G
  <2> QED
    BY <2>1, <2>2, SameHalves, Zenon
<1>9. SSUB16(opX, opY) = USUB16(opX, opY)
  <2> DEFINE E == [i \in 0 .. 1 |-> SHalf(opX, i) - SHalf(opY, i)]
             G == [i \in 0 .. 1 |-> UHalf(opX, i) - UHalf(opY, i)]
  <2>1. \A i \in 0 .. 1 : E[i] % 2^HALF = G[i] % 2^HALF
    BY <1>1, Zenon DEF LaneFacts
  <2>2. SSUB16(opX, opY) = Two(E[1], E[0]) /\ USUB16(opX, opY) = Two(G[1], G[0])
    BY DEF SSUB16, USUB16, Pack16
  <2> HIDE DEF E, G
  <2> QED
    BY <2>1, <2>2, SameHalves, Zenon
<1> QED
  BY <1>2, <1>3, <1>4, <1>5, <1>6, <1>7, <1>8, <1>9

\* What the exchanging operations make of a sum or difference s of two signed
\* halfwords that is u without the signs.
CrossFacts(s, u) ==
  /\ SSAT(s, HALF) = NearestS(s, HALF) /\ NearestS(s, HALF) \in SVal(HALF)
  /\ IUSAT(U32(u), HALF) = NearestU(u, HALF) /\ NearestU(u, HALF) \in UVal(HALF)
  /\ s % 2^HALF = u % 2^HALF
  /\ u % 2^HALF \in UVal(HALF) /\ (u % 2^HALF) % 2^HALF = u % 2^HALF
  /\ s \div 2 \in SVal(HALF)
  /\ (u \div 2) % 2^HALF \in UVal(HALF) /\ ((u \div 2) % 2^HALF) % 2^HALF = (u \div 2) % 2^HALF
  /\ (U32(u) \div 2) % 2^HALF = (u \div 2) % 2^HALF

\* They follow from what is known of two lanes.
LEMMA FactsCross ==
  ASSUME NEW a, NEW b, NEW c, NEW d, LaneFacts(HALF, a, b, c, d)
  PROVE  CrossFacts(a + b, c + d) /\ CrossFacts(a - b, c - d)
<1>1. CrossFacts(a - b, c - d)
  BY Zenon DEF LaneFacts, CrossFacts
<1>2. (c + d) \div 2 \in UVal(HALF) /\ U32(c + d) \div 2 = (c + d) \div 2 /\ ((c + d) \div 2) % 2^HALF = (c + d) \div 2
  BY Zenon DEF LaneFacts
<1>3. CrossFacts(a + b, c + d)
  BY <1>2, Zenon DEF LaneFacts, CrossFacts
<1> QED
  BY <1>1, <1>3

\* The exchanged halfwords of the operands.
LEMMA CrossLanes ==
  ASSUME NEW i \in 0 .. 1, NEW h \in {0, 1}, opX \in Words, opY \in Words
  PROVE  /\ SX(i, h) = SCross(opX, opY, i, h) /\ UX(i, h) = UCross(opX, opY, i, h)
         /\ CrossFacts(SCross(opX, opY, i, h), UCross(opX, opY, i, h))
<1>1. PICK j \in 0 .. 1 : j = 1 - i
  OBVIOUS
<1>2. /\ UHalf(opX, i) = Digit(opX, HALF, i) /\ SHalf(opX, i) = SDigit(opX, HALF, i)
      /\ UHalf(opY, j) = Digit(opY, HALF, j) /\ SHalf(opY, j) = SDigit(opY, HALF, j)
      /\ LaneFacts(HALF, SHalf(opX, i), SHalf(opY, j), UHalf(opX, i), UHalf(opY, j))
  BY HalfFacts, Zenon
<1>3. PICK a, b, c, d : /\ a = SHalf(opX, i) /\ b = SHalf(opY, j) /\ c = UHalf(opX, i) /\ d = UHalf(opY, j)
  OBVIOUS
<1>4. CrossFacts(a + b, c + d) /\ CrossFacts(a - b, c - d)
  BY <1>2, <1>3, FactsCross, Zenon
<1>5. a \in Int /\ b \in Int /\ c \in Int /\ d \in Int
  <2>1. HALF \in Nat \ {0} /\ i \in Nat /\ j \in Nat
    BY Widths
  <2>2. Digit(opX, HALF, i) \in UVal(HALF) /\ SDigit(opX, HALF, i) \in SVal(HALF)
    BY <2>1, Lanes
  <2>3. Digit(opY, HALF, j) \in UVal(HALF) /\ SDigit(opY, HALF, j) \in SVal(HALF)
    BY <2>1, Lanes
  <2>4. c = Digit(opX, HALF, i) /\ a = SDigit(opX, HALF, i) /\ d = Digit(opY, HALF, j) /\ b = SDigit(opY, HALF, j)
    BY <1>2, <1>3, Zenon
  <2> QED
    BY <2>2, <2>3, <2>4, LaneInts
<1>6. CASE i = h
  <2>1. SCross(opX, opY, i, h) = a + b /\ UCross(opX, opY, i, h) = c + d
    BY <1>1, <1>3, <1>6, Zenon DEF SCross, UCross
  <2>2. SX(i, h) = a + 1 * b /\ UX(i, h) = c + 1 * d
    BY <1>1, <1>2, <1>3, <1>6, Zenon DEF SX, UX
  <2> QED
    BY <1>4, <1>5, <2>1, <2>2
<1>7. CASE i # h
  <2>1. SCross(opX, opY, i, h) = a - b /\ UCross(opX, opY, i, h) = c - d
    BY <1>1, <1>3, <1>7, Zenon DEF SCross, UCross
  <2>2. SX(i, h) = a + (-1) * b /\ UX(i, h) = c + (-1) * d
    BY <1>1, <1>2, <1>3, <1>7, Zenon DEF SX, UX
  <2> QED
    BY <1>4, <1>5, <2>1, <2>2
<1> QED
  BY <1>6, <1>7

\* Saturating halfwords, exchanged.
LEMMA SaturateX ==
  ASSUME opX \in Words, opY \in Words
  PROVE  /\ SLanesAre(QASX(opX, opY), HALF, LAMBDA i : NearestS(SX(i, 1), HALF))
         /\ SLanesAre(QSAX(opX, opY), HALF, LAMBDA i : NearestS(SX(i, 0), HALF))
         /\ ULanesAre(UQASX(opX, opY), HALF, LAMBDA i : NearestU(UX(i, 1), HALF))
         /\ ULanesAre(UQSAX(opX, opY), HALF, LAMBDA i : NearestU(UX(i, 0), HALF))
<1>1. ASSUME NEW i \in 0 .. 1
      PROVE  /\ SX(i, 1) = SCross(opX, opY, i, 1) /\ UX(i, 1) = UCross(opX, opY, i, 1)
             /\ SX(i, 0) = SCross(opX, opY, i, 0) /\ UX(i, 0) = UCross(opX, opY, i, 0)
             /\ CrossFacts(SCross(opX, opY, i, 1), UCross(opX, opY, i, 1))
             /\ CrossFacts(SCross(opX, opY, i, 0), UCross(opX, opY, i, 0))
  <2>1. 1 \in {0, 1} /\ 0 \in {0, 1}
    OBVIOUS
  <2> QED
    BY <2>1, CrossLanes, Zenon
<1>2. SLanesAre(QASX(opX, opY), HALF, LAMBDA i : NearestS(SX(i, 1), HALF))
  <2> DEFINE E == [i \in 0 .. 1 |-> NearestS(SX(i, 1), HALF)]
             G == [i \in 0 .. 1 |-> SSAT(SCross(opX, opY, i, 1), HALF)]
  <2>1. \A i \in 0 .. 1 : E[i] \in SVal(HALF) /\ E[i] % 2^HALF = G[i] % 2^HALF
    BY <1>1, Zenon DEF CrossFacts
  <2>2. QASX(opX, opY) = Two(G[1], G[0])
    BY DEF QASX, Pack16
  <2>3. \A i \in 0 .. 1 : E[i] = NearestS(SX(i, 1), HALF)
    OBVIOUS
  <2> HIDE DEF E, G
  <2>4. \A i \in 0 .. WORD32 \div HALF - 1 : SDigit(QASX(opX, opY), HALF, i) = E[i]
    BY <2>1, <2>2, SignedHalves, Zenon
  <2> QED
    BY <2>3, <2>4, LaneNumbers, Zenon DEF SLanesAre
<1>3. SLanesAre(QSAX(opX, opY), HALF, LAMBDA i : NearestS(SX(i, 0), HALF))
  <2> DEFINE E == [i \in 0 .. 1 |-> NearestS(SX(i, 0), HALF)]
             G == [i \in 0 .. 1 |-> SSAT(SCross(opX, opY, i, 0), HALF)]
  <2>1. \A i \in 0 .. 1 : E[i] \in SVal(HALF) /\ E[i] % 2^HALF = G[i] % 2^HALF
    BY <1>1, Zenon DEF CrossFacts
  <2>2. QSAX(opX, opY) = Two(G[1], G[0])
    BY DEF QSAX, Pack16
  <2>3. \A i \in 0 .. 1 : E[i] = NearestS(SX(i, 0), HALF)
    OBVIOUS
  <2> HIDE DEF E, G
  <2>4. \A i \in 0 .. WORD32 \div HALF - 1 : SDigit(QSAX(opX, opY), HALF, i) = E[i]
    BY <2>1, <2>2, SignedHalves, Zenon
  <2> QED
    BY <2>3, <2>4, LaneNumbers, Zenon DEF SLanesAre
<1>4. ULanesAre(UQASX(opX, opY), HALF, LAMBDA i : NearestU(UX(i, 1), HALF))
  <2> DEFINE E == [i \in 0 .. 1 |-> NearestU(UX(i, 1), HALF)]
             G == [i \in 0 .. 1 |-> IUSAT(U32(UCross(opX, opY, i, 1)), HALF)]
  <2>1. \A i \in 0 .. 1 : E[i] \in UVal(HALF) /\ E[i] % 2^HALF = G[i] % 2^HALF
    BY <1>1, Zenon DEF CrossFacts
  <2>2. UQASX(opX, opY) = Two(G[1], G[0])
    BY DEF UQASX, Pack16
  <2>3. \A i \in 0 .. 1 : E[i] = NearestU(UX(i, 1), HALF)
    OBVIOUS
  <2> HIDE DEF E, G
  <2>4. \A i \in 0 .. WORD32 \div HALF - 1 : Digit(UQASX(opX, opY), HALF, i) = E[i]
    BY <2>1, <2>2, UnsignedHalves, Zenon
  <2> QED
    BY <2>3, <2>4, LaneNumbers, Zenon DEF ULanesAre
<1>5. ULanesAre(UQSAX(opX, opY), HALF, LAMBDA i : NearestU(UX(i, 0), HALF))
  <2> DEFINE E == [i \in 0 .. 1 |-> NearestU(UX(i, 0), HALF)]
             G == [i \in 0 .. 1 |-> IUSAT(U32(UCross(opX, opY, i, 0)), HALF)]
  <2>1. \A i \in 0 .. 1 : E[i] \in UVal(HALF) /\ E[i] % 2^HALF = G[i] % 2^HALF
    BY <1>1, Zenon DEF CrossFacts
  <2>2. UQSAX(opX, opY) = Two(G[1], G[0])
    BY DEF UQSAX, Pack16
  <2>3. \A i \in 0 .. 1 : E[i] = NearestU(UX(i, 0), HALF)
    OBVIOUS
  <2> HIDE DEF E, G
  <2>4. \A i \in 0 .. WORD32 \div HALF - 1 : Digit(UQSAX(opX, opY), HALF, i) = E[i]
    BY <2>1, <2>2, UnsignedHalves, Zenon
  <2> QED
    BY <2>3, <2>4, LaneNumbers, Zenon DEF ULanesAre
<1> QED
  BY <1>2, <1>3, <1>4, <1>5

\* Modular and halved halfwords, exchanged.
LEMMA ExactX ==
  ASSUME opX \in Words, opY \in Words
  PROVE  /\ ULanesAre(UASX(opX, opY), HALF, LAMBDA i : UX(i, 1) % 2^HALF)
         /\ ULanesAre(USAX(opX, opY), HALF, LAMBDA i : UX(i, 0) % 2^HALF)
         /\ SLanesAre(SHASX(opX, opY), HALF, LAMBDA i : SX(i, 1) \div 2)
         /\ SLanesAre(SHSAX(opX, opY), HALF, LAMBDA i : SX(i, 0) \div 2)
         /\ ULanesAre(UHASX(opX, opY), HALF, LAMBDA i : (UX(i, 1) \div 2) % 2^HALF)
         /\ ULanesAre(UHSAX(opX, opY), HALF, LAMBDA i : (UX(i, 0) \div 2) % 2^HALF)
         /\ SASX(opX, opY) = UASX(opX, opY)
         /\ SSAX(opX, opY) = USAX(opX, opY)
<1>1. ASSUME NEW i \in 0 .. 1
      PROVE  /\ SX(i, 1) = SCross(opX, opY, i, 1) /\ UX(i, 1) = UCross(opX, opY, i, 1)
             /\ SX(i, 0) = SCross(opX, opY, i, 0) /\ UX(i, 0) = UCross(opX, opY, i, 0)
             /\ CrossFacts(SCross(opX, opY, i, 1), UCross(opX, opY, i, 1))
             /\ CrossFacts(SCross(opX, opY, i, 0), UCross(opX, opY, i, 0))
  <2>1. 1 \in {0, 1} /\ 0 \in {0, 1}
    OBVIOUS
  <2> QED
    BY <2>1, CrossLanes, Zenon
<1>2. ULanesAre(UASX(opX, opY), HALF, LAMBDA i : UX(i, 1) % 2^HALF)
  <2> DEFINE E == [i \in 0 .. 1 |-> UX(i, 1) % 2^HALF]
             G == [i \in 0 .. 1 |-> UCross(opX, opY, i, 1)]
  <2>1. \A i \in 0 .. 1 : E[i] \in UVal(HALF) /\ E[i] % 2^HALF = G[i] % 2^HALF
    BY <1>1, Zenon DEF CrossFacts
  <2>2. UASX(opX, opY) = Two(G[1], G[0])
    BY DEF UASX, Pack16
  <2>3. \A i \in 0 .. 1 : E[i] = UX(i, 1) % 2^HALF
    OBVIOUS
  <2> HIDE DEF E, G
  <2>4. \A i \in 0 .. WORD32 \div HALF - 1 : Digit(UASX(opX, opY), HALF, i) = E[i]
    BY <2>1, <2>2, UnsignedHalves, Zenon
  <2> QED
    BY <2>3, <2>4, LaneNumbers, Zenon DEF ULanesAre
<1>3. ULanesAre(USAX(opX, opY), HALF, LAMBDA i : UX(i, 0) % 2^HALF)
  <2> DEFINE E == [i \in 0 .. 1 |-> UX(i, 0) % 2^HALF]
             G == [i \in 0 .. 1 |-> UCross(opX, opY, i, 0)]
  <2>1. \A i \in 0 .. 1 : E[i] \in UVal(HALF) /\ E[i] % 2^HALF = G[i] % 2^HALF
    BY <1>1, Zenon DEF CrossFacts
  <2>2. USAX(opX, opY) = Two(G[1], G[0])
    BY DEF USAX, Pack16
  <2>3. \A i \in 0 .. 1 : E[i] = UX(i, 0) % 2^HALF
    OBVIOUS
  <2> HIDE DEF E, G
  <2>4. \A i \in 0 .. WORD32 \div HALF - 1 : Digit(USAX(opX, opY), HALF, i) = E[i]
    BY <2>1, <2>2, UnsignedHalves, Zenon
  <2> QED
    BY <2>3, <2>4, LaneNumbers, Zenon DEF ULanesAre
<1>4. SLanesAre(SHASX(opX, opY), HALF, LAMBDA i : SX(i, 1) \div 2)
  <2> DEFINE E == [i \in 0 .. 1 |-> SX(i, 1) \div 2]
             G == [i \in 0 .. 1 |-> SCross(opX, opY, i, 1) \div 2]
  <2>1. \A i \in 0 .. 1 : E[i] \in SVal(HALF) /\ E[i] % 2^HALF = G[i] % 2^HALF
    BY <1>1, Zenon DEF CrossFacts
  <2>2. SHASX(opX, opY) = Two(G[1], G[0])
    BY DEF SHASX, Pack16
  <2>3. \A i \in 0 .. 1 : E[i] = SX(i, 1) \div 2
    OBVIOUS
  <2> HIDE DEF E, G
  <2>4. \A i \in 0 .. WORD32 \div HALF - 1 : SDigit(SHASX(opX, opY), HALF, i) = E[i]
    BY <2>1, <2>2, SignedHalves, Zenon
  <2> QED
    BY <2>3, <2>4, LaneNumbers, Zenon DEF SLanesAre
<1>5. SLanesAre(SHSAX(opX, opY), HALF, LAMBDA i : SX(i, 0) \div 2)
  <2> DEFINE E == [i \in 0 .. 1 |-> SX(i, 0) \div 2]
             G == [i \in 0 .. 1 |-> SCross(opX, opY, i, 0) \div 2]
  <2>1. \A i \in 0 .. 1 : E[i] \in SVal(HALF) /\ E[i] % 2^HALF = G[i] % 2^HALF
    BY <1>1, Zenon DEF CrossFacts
  <2>2. SHSAX(opX, opY) = Two(G[1], G[0])
    BY DEF SHSAX, Pack16
  <2>3. \A i \in 0 .. 1 : E[i] = SX(i, 0) \div 2
    OBVIOUS
  <2> HIDE DEF E, G
  <2>4. \A i \in 0 .. WORD32 \div HALF - 1 : SDigit(SHSAX(opX, opY), HALF, i) = E[i]
    BY <2>1, <2>2, SignedHalves, Zenon
  <2> QED
    BY <2>3, <2>4, LaneNumbers, Zenon DEF SLanesAre
<1>6. ULanesAre(UHASX(opX, opY), HALF, LAMBDA i : (UX(i, 1) \div 2) % 2^HALF)
  <2> DEFINE E == [i \in 0 .. 1 |-> (UX(i, 1) \div 2) % 2^HALF]
             G == [i \in 0 .. 1 |-> U32(UCross(opX, opY, i, 1)) \div 2]
  <2>1. \A i \in 0 .. 1 : E[i] \in UVal(HALF) /\ E[i] % 2^HALF = G[i] % 2^HALF
    BY <1>1, Zenon DEF CrossFacts
  <2>2. UHASX(opX, opY) = Two(G[1], G[0])
    BY DEF UHASX, Pack16
  <2>3. \A i \in 0 .. 1 : E[i] = (UX(i, 1) \div 2) % 2^HALF
    OBVIOUS
  <2> HIDE DEF E, G
  <2>4. \A i \in 0 .. WORD32 \div HALF - 1 : Digit(UHASX(opX, opY), HALF, i) = E[i]
    BY <2>1, <2>2, UnsignedHalves, Zenon
  <2> QED
    BY <2>3, <2>4, LaneNumbers, Zenon DEF ULanesAre
<1>7. ULanesAre(UHSAX(opX, opY), HALF, LAMBDA i : (UX(i, 0) \div 2) % 2^HALF)
  <2> DEFINE E == [i \in 0 .. 1 |-> (UX(i, 0) \div 2) % 2^HALF]
             G == [i \in 0 .. 1 |-> U32(UCross(opX, opY, i, 0)) \div 2]
  <2>1. \A i \in 0 .. 1 : E[i] \in UVal(HALF) /\ E[i] % 2^HALF = G[i] % 2^HALF
    BY <1>1, Zenon DEF CrossFacts
  <2>2. UHSAX(opX, opY) = Two(G[1], G[0])
    BY DEF UHSAX, Pack16
  <2>3. \A i \in 0 .. 1 : E[i] = (UX(i, 0) \div 2) % 2^HALF
    OBVIOUS
  <2> HIDE DEF E, G
  <2>4. \A i \in 0 .. WORD32 \div HALF - 1 : Digit(UHSAX(opX, opY), HALF, i) = E[i]
    BY <2>1, <2>2, UnsignedHalves, Zenon
  <2> QED
    BY <2>3, <2>4, LaneNumbers, Zenon DEF ULanesAre
<1>8. SASX(opX, opY) = UASX(opX, opY)
  <2> DEFINE E == [i \in 0 .. 1 |-> SCross(opX, opY, i, 1)]
             G == [i \in 0 .. 1 |-> UCross(opX, opY, i, 1)]
  <2>1. \A i \in 0 .. 1 : E[i] % 2^HALF = G[i] % 2^HALF
    BY <1>1, Zenon DEF CrossFacts
  <2>2. SASX(opX, opY) = Two(E[1], E[0]) /\ UASX(opX, opY) = Two(G[1], G[0])
    BY DEF SASX, UASX, Pack16
  <2> HIDE DEF E, G
  <2> QED
    BY <2>1, <2>2, SameHalves, Zenon
<1>9. SSAX(opX, opY) = USAX(opX, opY)
  <2> DEFINE E == [i \in 0 .. 1 |-> SCross(opX, opY, i, 0)]
             G == [i \in 0 .. 1 |-> UCross(opX, opY, i, 0)]
  <2>1. \A i \in 0 .. 1 : E[i] % 2^HALF = G[i] % 2^HALF
    BY <1>1, Zenon DEF CrossFacts
  <2>2. SSAX(opX, opY) = Two(E[1], E[0]) /\ USAX(opX, opY) = Two(G[1], G[0])
    BY DEF SSAX, USAX, Pack16
  <2> HIDE DEF E, G
  <2> QED
    BY <2>1, <2>2, SameHalves, Zenon
<1> QED
  BY <1>2, <1>3, <1>4, <1>5, <1>6, <1>7, <1>8, <1>9

\* A halfword saturated to n bits still is a halfword.
LEMMA NarrowVals ==
  ASSUME NEW n \in 1 .. HALF
  PROVE  /\ n \in Nat \ {0}
         /\ -2^(n - 1) .. 2^(n - 1) - 1 \subseteq SVal(HALF) /\ 0 .. 2^n - 1 \subseteq UVal(HALF)
<1>1. n \in Nat \ {0} /\ n \in Nat /\ HALF \in Nat /\ HALF - 1 \in Nat /\ n - 1 \in Nat
      /\ n <= HALF /\ n - 1 <= HALF - 1 /\ HALF \in Nat \ {0}
  BY Widths
<1>2. 2^n <= 2^HALF /\ 2^(n - 1) <= 2^(HALF - 1)
  BY <1>1, PowLe, Zenon
<1>3. PICK a \in Nat \ {0}, b \in Nat \ {0}, c \in Nat \ {0}, d \in Nat \ {0} :
        a = 2^n /\ b = 2^(n - 1) /\ c = 2^HALF /\ d = 2^(HALF - 1)
  <2>1. 2^n \in Nat \ {0} /\ 2^(n - 1) \in Nat \ {0}
    BY <1>1, PowHalf
  <2>2. 2^HALF \in Nat \ {0} /\ 2^(HALF - 1) \in Nat \ {0}
    BY <1>1, PowHalf
  <2> QED
    BY <2>1, <2>2, Zenon
<1>4. -b .. b - 1 \subseteq -d .. d - 1 /\ 0 .. a - 1 \subseteq 0 .. c - 1
  BY <1>2, <1>3
<1> QED
  BY <1>1, <1>3, <1>4, Zenon DEF UVal, SVal

\* SSAT16 and USAT16, halfword by halfword.
LEMMA Narrow16 ==
  ASSUME opX \in Words, NEW n \in 1 .. HALF
  PROVE  /\ SLanesAre(SSAT16(opX, n), HALF, LAMBDA i : NearestS(SDigit(opX, HALF, i), n))
         /\ ULanesAre(USAT16(opX, n), HALF, LAMBDA i : NearestU(Digit(opX, HALF, i), n))
<1>1. ASSUME NEW i \in 0 .. 1
      PROVE  /\ UHalf(opX, i) = Digit(opX, HALF, i) /\ SHalf(opX, i) = SDigit(opX, HALF, i)
             /\ UHalf(opX, i) \in UVal(HALF) /\ SHalf(opX, i) \in SVal(HALF)
  <2>1. HALF \in Nat \ {0} /\ i \in Nat
    BY Widths
  <2>2. Digit(opX, HALF, i) \in UVal(HALF) /\ SDigit(opX, HALF, i) \in SVal(HALF)
    BY <2>1, Lanes
  <2>3. UHalf(opX, i) = Digit(opX, HALF, i) /\ SHalf(opX, i) = SDigit(opX, HALF, i)
    BY LaneOperands, Zenon
  <2> QED
    BY <2>2, <2>3, Zenon
<1>2. SLanesAre(SSAT16(opX, n), HALF, LAMBDA i : NearestS(SDigit(opX, HALF, i), n))
  <2> DEFINE E == [i \in 0 .. 1 |-> NearestS(SDigit(opX, HALF, i), n)]
             G == [i \in 0 .. 1 |-> SSAT(SHalf(opX, i), n)]
  <2>1. \A i \in 0 .. 1 : E[i] \in SVal(HALF) /\ E[i] % 2^HALF = G[i] % 2^HALF
    <3>1. ASSUME NEW i \in 0 .. 1
          PROVE  SSAT(SHalf(opX, i), n) = NearestS(SDigit(opX, HALF, i), n) /\ NearestS(SDigit(opX, HALF, i), n) \in SVal(HALF)
      <4>1. PICK v \in Int : v = SHalf(opX, i) /\ v = SDigit(opX, HALF, i)
        BY <1>1, LaneInts
      <4>2. SSAT(v, n) = NearestS(v, n) /\ NearestS(v, n) \in -2^(n - 1) .. 2^(n - 1) - 1
        BY NarrowVals, SSATNearest, Zenon
      <4>3. NearestS(v, n) \in SVal(HALF)
        BY <4>2, NarrowVals
      <4> QED
        BY <4>1, <4>2, <4>3, Zenon
    <3> QED
      BY <3>1, Zenon
  <2>2. SSAT16(opX, n) = Two(G[1], G[0])
    BY DEF SSAT16, Pack16
  <2>3. \A i \in 0 .. 1 : E[i] = NearestS(SDigit(opX, HALF, i), n)
    OBVIOUS
  <2> HIDE DEF E, G
  <2>4. \A i \in 0 .. WORD32 \div HALF - 1 : SDigit(SSAT16(opX, n), HALF, i) = E[i]
    BY <2>1, <2>2, SignedHalves, Zenon
  <2> QED
    BY <2>3, <2>4, LaneNumbers, Zenon DEF SLanesAre
<1>3. ULanesAre(USAT16(opX, n), HALF, LAMBDA i : NearestU(Digit(opX, HALF, i), n))
  <2> DEFINE E == [j \in 0 .. 1 |-> NearestU(Digit(opX, HALF, j), n)]
             G == [j \in 0 .. 1 |-> IUSAT(UHalf(opX, j), n)]
  <2>1. \A j \in 0 .. 1 : E[j] \in UVal(HALF) /\ E[j] % 2^HALF = G[j] % 2^HALF
    <3>1. ASSUME NEW j \in 0 .. 1
          PROVE  IUSAT(UHalf(opX, j), n) = NearestU(Digit(opX, HALF, j), n) /\ NearestU(Digit(opX, HALF, j), n) \in UVal(HALF)
      <4>1. PICK v \in 0 .. 2^HALF - 1 : v = UHalf(opX, j) /\ v = Digit(opX, HALF, j)
        BY <1>1, Zenon DEF UVal
      <4>2. IUSAT(v, n) = NearestU(v, n) /\ NearestU(v, n) \in 0 .. 2^n - 1
        BY NarrowVals, IUSATLane, Zenon
      <4>3. NearestU(v, n) \in UVal(HALF)
        BY <4>2, NarrowVals
      <4> QED
        BY <4>1, <4>2, <4>3, Zenon
    <3> QED
      BY <3>1, Zenon
  <2>2. USAT16(opX, n) = Two(G[1], G[0])
    BY DEF USAT16, Pack16
  <2>3. \A i \in 0 .. 1 : E[i] = NearestU(Digit(opX, HALF, i), n)
    OBVIOUS
  <2> HIDE DEF E, G
  <2>4. \A i \in 0 .. WORD32 \div HALF - 1 : Digit(USAT16(opX, n), HALF, i) = E[i]
    BY <2>1, <2>2, UnsignedHalves, Zenon
  <2> QED
    BY <2>3, <2>4, LaneNumbers, Zenon DEF ULanesAre
<1> QED
  BY <1>2, <1>3

\* The signed value of a word.
LEMMA S32Type ==
  ASSUME NEW v \in Int
  PROVE  /\ S32(v) \in -2^(WORD32 - 1) .. 2^(WORD32 - 1) - 1
         /\ v \in -2^(WORD32 - 1) .. 2^(WORD32 - 1) - 1 => S32(v) = v
         /\ \E k \in Int : S32(v) = v + k * 2^WORD32
<1>1. PICK h \in Nat \ {0}, m \in Nat \ {0} : h = 2^(WORD32 - 1) /\ m = 2^WORD32 /\ m = 2 * h
  BY Widths, PowHalf
<1>2. WORD32 \in Nat \ {0}
  BY Widths
<1>3. PICK q \in Int, r \in 0 .. m - 1 : q = v \div m /\ r = v % m /\ v = q * m + r
  BY DivParts
<1>4. S32(v) = Signed(r, WORD32)
  BY <1>1, <1>3, Zenon DEF S32, U32
<1>5. r \in 0 .. 2^WORD32 - 1
  BY <1>1
<1>6. S32(v) \in -2^(WORD32 - 1) .. 2^(WORD32 - 1) - 1 /\ \E j \in {0, 1} : S32(v) = r - j * 2^WORD32
  BY <1>2, <1>4, <1>5, SignedType, Zenon
<1>7. v \in SVal(WORD32) => S32(v) = v
  BY <1>2, LaneValue, Zenon DEF S32, U32
<1>8. PICK j \in {0, 1} : S32(v) = r - j * m
  BY <1>1, <1>6
<1>9. PICK i \in Int : i = j /\ S32(v) = r - i * m
  BY <1>8
<1>10. PICK k \in Int : k = -(i + q)
  OBVIOUS
<1>11. S32(v) = v + k * m
  <2>1. (i + q) * m = i * m + q * m /\ i * m \in Int /\ q * m \in Int
    BY Products
  <2>2. PICK u \in Int, w \in Int, z \in Int : u = q * m /\ w = i * m /\ z = i + q
    BY <2>1
  <2>3. z * m = w + u
    BY <2>1, <2>2, Zenon
  <2>4. (-z) * m = -(z * m)
    BY SMT
  <2>5. k * m = -(w + u)
    BY <1>10, <2>2, <2>3, <2>4, Zenon
  <2>6. v = u + r /\ S32(v) = r - w
    BY <1>3, <1>9, <2>2, Zenon
  <2> QED
    BY <2>5, <2>6
<1> QED
  BY <1>1, <1>6, <1>7, <1>11, Zenon DEF SVal

\* SSAT and USAT of a whole word.
LEMMA NarrowWords ==
  ASSUME NEW x \in Words, NEW n \in 1 .. WORD32 - 1
  PROVE  SSAT(S32(x), n) = NearestS(S32(x), n) /\ USAT(x, n) = NearestU(x, n)
<1>1. n \in Nat \ {0} /\ x \in Int
  BY WordsAreInts, Widths
<1>2. SSAT(S32(x), n) = NearestS(S32(x), n)
  <2>1. S32(x) \in -2^(WORD32 - 1) .. 2^(WORD32 - 1) - 1
    BY <1>1, S32Type
  <2>2. PICK h \in Nat \ {0} : h = 2^(WORD32 - 1)
    BY Widths, PowHalf
  <2>3. S32(x) \in Int
    BY <2>1, <2>2
  <2> QED
    BY <1>1, <2>3, SSATNearest, Zenon
<1>3. USAT(x, n) = NearestU(x, n)
  <2>1. PICK d \in Nat \ {0} : d = 2^n
    BY <1>1, PowHalf
  <2>2. PICK m \in Nat \ {0} : m = 2^WORD32
    BY Widths, PowHalf
  <2>3. x \in 0 .. m - 1
    BY <2>2 DEF Words
  <2>4. 0 \in Int /\ d - 1 \in Int /\ 0 <= d - 1
    OBVIOUS
  <2>5. PICK w : w = Nearest(x, 0, d - 1)
    OBVIOUS
  <2>6. w = IF x < 0 THEN 0 ELSE IF x > d - 1 THEN d - 1 ELSE x
    BY <1>1, <2>4, <2>5, NearestIs, Zenon
  <2>7. w = IF x >= d THEN d - 1 ELSE x
    BY <2>3, <2>6
  <2> QED
    BY <2>1, <2>5, <2>7, Zenon DEF USAT, NearestU
<1> QED
  BY <1>2, <1>3

\* The first part of IntrinsicsExact.
LEMMA Saturates ==
  ASSUME opX \in Words, opY \in Words
  PROVE  SaturatesToNearest
<1>1. QADD(S32(opX), S32(opY)) = NearestS(S32(opX) + S32(opY), WORD32)
      /\ QSUB(S32(opX), S32(opY)) = NearestS(S32(opX) - S32(opY), WORD32)
  <2>1. opX \in Int /\ opY \in Int
    BY WordsAreInts
  <2>2. S32(opX) \in -2^(WORD32 - 1) .. 2^(WORD32 - 1) - 1 /\ S32(opY) \in -2^(WORD32 - 1) .. 2^(WORD32 - 1) - 1
    BY <2>1, S32Type
  <2> QED
    BY <2>2, WordsSaturate, Zenon
<1>2. \A n \in 1 .. HALF :
       /\ SLanesAre(SSAT16(opX, n), HALF, LAMBDA i : NearestS(SDigit(opX, HALF, i), n))
       /\ ULanesAre(USAT16(opX, n), HALF, LAMBDA i : NearestU(Digit(opX, HALF, i), n))
  BY Narrow16
<1>3. \A n \in 1 .. WORD32 - 1 : SSAT(S32(opX), n) = NearestS(S32(opX), n) /\ USAT(opX, n) = NearestU(opX, n)
  BY NarrowWords, Zenon
<1> QED
  BY <1>1, <1>2, <1>3, Saturate8, Saturate16, SaturateX DEF SaturatesToNearest

\* The difference of two bytes, masked.
LEMMA ByteDifference ==
  ASSUME opX \in Words, opY \in Words, NEW i \in 0 .. 3
  PROVE  /\ USub(BYTE, i) = UByte(opX, i) - UByte(opY, i)
         /\ Abs(UByte(opX, i) - UByte(opY, i)) % 2^BYTE = Abs(USub(BYTE, i))
         /\ (UByte(opX, i) - UByte(opY, i)) % 2^BYTE
              = USub(BYTE, i) + (IF USub(BYTE, i) < 0 THEN 2^BYTE ELSE 0)
<1>1. PICK c, d : c = UByte(opX, i) /\ d = UByte(opY, i)
  OBVIOUS
<1>2. c = Digit(opX, BYTE, i) /\ d = Digit(opY, BYTE, i)
  BY <1>1, LaneOperands, Zenon
<1>3. Digit(opX, BYTE, i) \in UVal(BYTE) /\ Digit(opY, BYTE, i) \in UVal(BYTE)
  BY Lanes, Widths
<1>4. PICK m \in Nat \ {0} : m = 2^BYTE
  BY Widths, PowHalf
<1>5. c \in 0 .. m - 1 /\ d \in 0 .. m - 1
  BY <1>2, <1>3, <1>4 DEF UVal
<1>6. PICK v \in Int, a \in Int : v = c - d /\ a = Abs(c - d) /\ a = IF v < 0 THEN -v ELSE v
  BY <1>5 DEF Abs
<1>7. a \in 0 .. m - 1
  BY <1>5, <1>6
<1>8. a % m = a
  BY <1>7, DivSmall, Zenon
<1>9. PICK w \in 0 .. m - 1 : w = v + (IF v < 0 THEN m ELSE 0)
  BY <1>5, <1>6
<1>10. v % m = w
  <2>1. PICK q \in {-1, 0} : v = q * m + w
    BY <1>9
  <2>2. q \in Int
    OBVIOUS
  <2> QED
    BY <2>1, <2>2, DivUnique, Zenon
<1>11. USub(BYTE, i) = c - d
  BY <1>2, Zenon DEF USub
<1> QED
  BY <1>1, <1>4, <1>6, <1>8, <1>9, <1>10, <1>11, Zenon

\* The sums of differences.
LEMMA Differences ==
  ASSUME opX \in Words, opY \in Words
  PROVE  /\ USADA8(opX, opY, opX) = U32(opX + Sum4(LAMBDA i : Abs(USub(BYTE, i))))
         /\ USAD8(opX, opY) = U32(Sum4(LAMBDA i : USub(BYTE, i) + (IF USub(BYTE, i) < 0 THEN 2^BYTE ELSE 0)))
<1>1. /\ 0 \in 0 .. 3 /\ 1 \in 0 .. 3 /\ 2 \in 0 .. 3 /\ 3 \in 0 .. 3
  OBVIOUS
<1>2. /\ Abs(UByte(opX, 0) - UByte(opY, 0)) % 2^BYTE = Abs(USub(BYTE, 0))
      /\ Abs(UByte(opX, 1) - UByte(opY, 1)) % 2^BYTE = Abs(USub(BYTE, 1))
      /\ Abs(UByte(opX, 2) - UByte(opY, 2)) % 2^BYTE = Abs(USub(BYTE, 2))
      /\ Abs(UByte(opX, 3) - UByte(opY, 3)) % 2^BYTE = Abs(USub(BYTE, 3))
  BY <1>1, ByteDifference, Zenon
<1>3. USADA8(opX, opY, opX) = U32(opX + Sum4(LAMBDA i : Abs(USub(BYTE, i))))
  <2>1. USADA8(opX, opY, opX) = U32(opX + (Abs(USub(BYTE, 3)) + Abs(USub(BYTE, 2)) + Abs(USub(BYTE, 1)) + Abs(USub(BYTE, 0))))
    BY <1>2, Zenon DEF USADA8, Sum4
  <2> QED
    BY <2>1 DEF Sum4
<1>4. USAD8(opX, opY) = U32(Sum4(LAMBDA i : USub(BYTE, i) + (IF USub(BYTE, i) < 0 THEN 2^BYTE ELSE 0)))
  <2> DEFINE W(i) == USub(BYTE, i) + (IF USub(BYTE, i) < 0 THEN 2^BYTE ELSE 0)
  <2>1. /\ (UByte(opX, 0) - UByte(opY, 0)) % 2^BYTE = W(0) /\ (UByte(opX, 1) - UByte(opY, 1)) % 2^BYTE = W(1)
        /\ (UByte(opX, 2) - UByte(opY, 2)) % 2^BYTE = W(2) /\ (UByte(opX, 3) - UByte(opY, 3)) % 2^BYTE = W(3)
    BY <1>1, ByteDifference, Zenon
  <2>2. USAD8(opX, opY) = U32(W(3) + W(2) + W(1) + W(0))
    <3> HIDE DEF W
    <3> QED
      BY <2>1, Zenon DEF USAD8, Sum4
  <2> QED
    BY <2>2, Zenon DEF Sum4
<1> QED
  BY <1>3, <1>4

\* The second part of IntrinsicsExact.
LEMMA LanesExactly ==
  ASSUME opX \in Words, opY \in Words
  PROVE  LanesExact
  BY Exact8, Exact16, ExactX, Differences DEF LanesExact

(***************************************************************************)
(* Products of halfwords.                                                  *)
(***************************************************************************)
\* The product of two signed numbers of the same width.
LEMMA ProductBound ==
  ASSUME NEW h \in Nat \ {0}, NEW a \in -h .. h - 1, NEW b \in -h .. h - 1
  PROVE  a * b \in -(h * h) + 1 .. h * h
<1>1. h * h \in Nat \ {0}
  BY NatProducts
<1>2. ASSUME NEW u \in 0 .. h, NEW v \in 0 .. h PROVE u * v \in Nat /\ u * v <= h * h
  <2>1. u * v \in Nat /\ u * v <= u * h
    BY NatProducts
  <2>2. h * u <= h * h
    BY NatProducts
  <2>3. u * h = h * u /\ u * h \in Int /\ h * h \in Int
    BY Products
  <2> QED
    BY <2>1, <2>2, <2>3
<1>3. ASSUME NEW u \in 0 .. h - 1, NEW v \in 0 .. h PROVE u * v \in Nat /\ u * v <= h * h - 1
  <2>1. u * v \in Nat /\ u * v <= u * h
    BY NatProducts
  <2>2. h * u < h * h
    BY NatProducts
  <2>3. u * h = h * u /\ u * h \in Int /\ h * h \in Int
    BY Products
  <2> QED
    BY <2>1, <2>2, <2>3
<1>4. CASE a >= 0 /\ b >= 0
  <2>1. a \in 0 .. h /\ b \in 0 .. h
    BY <1>4
  <2> QED
    BY <1>1, <1>2, <2>1
<1>5. CASE a < 0 /\ b < 0
  <2>1. PICK u \in 0 .. h, v \in 0 .. h : u = -a /\ v = -b
    BY <1>5
  <2>2. a * b = u * v
    BY <2>1
  <2> QED
    BY <1>1, <1>2, <2>2
<1>6. CASE a >= 0 /\ b < 0
  <2>1. PICK u \in 0 .. h - 1, v \in 0 .. h : u = a /\ v = -b
    BY <1>6
  <2>2. a * b = -(u * v)
    BY <2>1
  <2> QED
    BY <1>1, <1>3, <2>2
<1>7. CASE a < 0 /\ b >= 0
  <2>1. PICK u \in 0 .. h - 1, v \in 0 .. h : u = b /\ v = -a
    BY <1>7
  <2>2. a * b = -(u * v)
    BY <2>1
  <2> QED
    BY <1>1, <1>3, <2>2
<1> QED
  BY <1>4, <1>5, <1>6, <1>7

\* The products of halfwords, and the sums and differences of two of them.
LEMMA HalfProduct ==
  ASSUME NEW a \in SVal(HALF), NEW b \in SVal(HALF), NEW c \in SVal(HALF), NEW d \in SVal(HALF)
  PROVE  /\ a * b \in Int /\ c * d \in Int
         /\ a * b + c * d \in -2^(WORD32 - 1) .. 2^(WORD32 - 1)
         /\ a * b - c * d \in -2^(WORD32 - 1) .. 2^(WORD32 - 1)
<1>1. PICK h \in Nat \ {0} : h = 2^(HALF - 1)
  BY Widths, PowHalf
<1>2. a \in -h .. h - 1 /\ b \in -h .. h - 1 /\ c \in -h .. h - 1 /\ d \in -h .. h - 1
  BY <1>1 DEF SVal
<1>3. a * b \in -(h * h) + 1 .. h * h /\ c * d \in -(h * h) + 1 .. h * h
  BY <1>2, ProductBound
<1>4. PICK s \in Nat : s = h * h
  BY NatProducts
<1>5. 2^(WORD32 - 1) = 2 * s
  <2>1. HALF - 1 \in Nat /\ WORD32 - 1 = HALF + (HALF - 1) /\ HALF \in Nat /\ HALF \in Nat \ {0}
    BY Widths
  <2>2. 2^(HALF + (HALF - 1)) = 2^HALF * 2^(HALF - 1)
    BY <2>1, PowAdd
  <2>3. 2^HALF = 2 * h
    BY <1>1, <2>1, PowHalf
  <2>4. (2 * h) * h = 2 * (h * h)
    BY SMT
  <2> QED
    BY <1>1, <1>4, <2>1, <2>2, <2>3, <2>4, Zenon
<1>6. PICK p \in Int, q \in Int : p = a * b /\ q = c * d
  BY <1>3, <1>4
<1>7. p + q \in -(2 * s) .. 2 * s /\ p - q \in -(2 * s) .. 2 * s
  <2>1. p \in -s + 1 .. s /\ q \in -s + 1 .. s
    BY <1>3, <1>4, <1>6
  <2> QED
    BY <2>1
<1> QED
  BY <1>5, <1>6, <1>7, Zenon

\* A sum that was widened from 32 bits is the sum modulo 32 bits.
LEMMA Accumulate ==
  ASSUME NEW e \in Int, NEW y \in Int
  PROVE  U32(S32(e) + S32(y)) = U32(e + y)
<1>1. PICK m \in Nat \ {0} : m = 2^WORD32
  BY Widths, PowHalf
<1>2. PICK k \in Int : S32(e) = e + k * m
  BY <1>1, S32Type
<1>3. PICK l \in Int : S32(y) = y + l * m
  BY <1>1, S32Type
<1>4. PICK j \in Int, u \in Int, w \in Int : j = k + l /\ u = e + y /\ w = S32(e) + S32(y)
  <2>1. k * m \in Int /\ l * m \in Int
    BY Products
  <2> QED
    BY <1>2, <1>3, <2>1
<1>5. w = u + j * m
  <2>1. (k + l) * m = k * m + l * m /\ k * m \in Int /\ l * m \in Int
    BY Products
  <2>2. PICK a \in Int, b \in Int : a = k * m /\ b = l * m
    BY <2>1
  <2>3. j * m = a + b
    BY <1>4, <2>1, <2>2, Zenon
  <2>4. S32(e) = e + a /\ S32(y) = y + b
    BY <1>2, <1>3, <2>2, Zenon
  <2> QED
    BY <1>4, <2>3, <2>4
<1>6. w % m = u % m
  BY <1>5, ModEqual, Zenon
<1> QED
  BY <1>1, <1>4, <1>6, Zenon DEF U32

\* The most significant word of a product.
LEMMA HighWord ==
  ASSUME NEW x \in Int, NEW y \in Int
  PROVE  S32(SMMLA(x, y, 0)) * 2^WORD32 \in (S32(x) * S32(y) - 2^WORD32 + 1) .. (S32(x) * S32(y))
<1>1. PICK h \in Nat \ {0}, m \in Nat \ {0} : h = 2^(WORD32 - 1) /\ m = 2^WORD32 /\ m = 2 * h
  BY Widths, PowHalf
<1>2. PICK a \in -h .. h - 1, b \in -h .. h - 1 : a = S32(x) /\ b = S32(y)
  BY <1>1, S32Type
<1>3. PICK p \in Int : p = a * b
  BY Products
<1>4. PICK q \in Int, r \in 0 .. m - 1 : q = p \div m /\ r = p % m /\ p = q * m + r
  BY DivParts
<1>5. PICK s \in Nat \ {0} : s = h * h
  BY NatProducts
<1>6. p \in -s + 1 .. s
  BY <1>3, <1>5, ProductBound, Zenon
<1>7. h * m = 2 * s /\ m * h = 2 * s
  BY <1>1, <1>5
<1>8. q <= h - 1
  <2> SUFFICES ASSUME q >= h PROVE FALSE
    OBVIOUS
  <2>1. q \in Nat /\ h <= q
    OBVIOUS
  <2>2. m * h <= m * q
    BY <2>1, NatProducts
  <2>3. PICK z \in Int : z = q * m /\ z = m * q
    BY Products
  <2>4. 2 * s <= z
    BY <1>7, <2>2, <2>3, Zenon
  <2>5. p = z + r
    BY <1>4, <2>3, Zenon
  <2> QED
    BY <1>6, <2>4, <2>5
<1>9. q >= -h
  <2> SUFFICES ASSUME q < -h PROVE FALSE
    OBVIOUS
  <2>1. PICK t \in Nat : t = -q /\ h + 1 <= t
    OBVIOUS
  <2>2. m * (h + 1) <= m * t
    BY <2>1, NatProducts
  <2>3. m * (h + 1) = 2 * s + m
    <3>1. m * (h + 1) = m * h + m
      BY SMT
    <3> QED
      BY <1>7, <3>1, Zenon
  <2>4. PICK z \in Int : z = m * t
    BY Products
  <2>5. q * m = -z
    BY <2>1, <2>4
  <2>6. 2 * s + m <= z
    BY <2>2, <2>3, <2>4, Zenon
  <2>7. p = (-z) + r
    BY <1>4, <2>5, Zenon
  <2> QED
    BY <1>6, <2>6, <2>7
<1>10. S32(0) = 0
  <2>1. 0 \in -h .. h - 1 /\ 0 \in Int
    OBVIOUS
  <2> QED
    BY <1>1, <2>1, S32Type, Zenon
<1>11. SMMLA(x, y, 0) = U32(q)
  <2>1. SMMLA(x, y, 0) = U32(q + 0)
    BY <1>1, <1>2, <1>3, <1>4, <1>10, Zenon DEF SMMLA
  <2>2. q + 0 = q
    OBVIOUS
  <2> QED
    BY <2>1, <2>2, Zenon
<1>12. U32(U32(q)) = U32(q)
  BY <1>1, ModOfMod, Zenon DEF U32
<1>13. S32(q) = q
  <2>1. q \in -h .. h - 1
    BY <1>8, <1>9
  <2> QED
    BY <1>1, <2>1, S32Type, Zenon
<1>14. S32(SMMLA(x, y, 0)) = q
  BY <1>11, <1>12, <1>13, Zenon DEF S32
<1>15. q * m \in (p - m + 1) .. p
  <2>1. PICK z \in Int : z = q * m
    BY Products
  <2>2. p = z + r
    BY <1>4, <2>1, Zenon
  <2>3. z \in (p - m + 1) .. p
    BY <2>2
  <2> QED
    BY <2>1, <2>3, Zenon
<1> QED
  BY <1>1, <1>2, <1>3, <1>14, <1>15, Zenon

\* The two products of the halfwords, straight and crossed.
LEMMA ProductValues ==
  ASSUME opX \in Words, opY \in Words
  PROVE  \E a \in SVal(HALF), b \in SVal(HALF), c \in SVal(HALF), d \in SVal(HALF) :
           /\ a = SDigit(opX, HALF, 0) /\ b = SDigit(opX, HALF, 1)
           /\ c = SDigit(opY, HALF, 0) /\ d = SDigit(opY, HALF, 1)
           /\ Straight(opX, opY, 0) = a * c /\ Straight(opX, opY, 1) = b * d
           /\ Crossed(opX, opY, 0) = a * d /\ Crossed(opX, opY, 1) = b * c
<1>1. HALF \in Nat \ {0} /\ 0 \in Nat /\ 1 \in Nat /\ 0 \in 0 .. 1 /\ 1 \in 0 .. 1 /\ 1 - 0 = 1 /\ 1 - 1 = 0
  BY Widths
<1>2. SDigit(opX, HALF, 0) \in SVal(HALF) /\ SDigit(opX, HALF, 1) \in SVal(HALF)
  BY <1>1, Lanes
<1>3. SDigit(opY, HALF, 0) \in SVal(HALF) /\ SDigit(opY, HALF, 1) \in SVal(HALF)
  BY <1>1, Lanes
<1>4. SHalf(opX, 0) = SDigit(opX, HALF, 0) /\ SHalf(opX, 1) = SDigit(opX, HALF, 1)
      /\ SHalf(opY, 0) = SDigit(opY, HALF, 0) /\ SHalf(opY, 1) = SDigit(opY, HALF, 1)
  BY <1>1, LaneOperands, Zenon
<1>5. /\ Straight(opX, opY, 0) = SDigit(opX, HALF, 0) * SDigit(opY, HALF, 0)
      /\ Straight(opX, opY, 1) = SDigit(opX, HALF, 1) * SDigit(opY, HALF, 1)
      /\ Crossed(opX, opY, 0) = SDigit(opX, HALF, 0) * SDigit(opY, HALF, 1)
      /\ Crossed(opX, opY, 1) = SDigit(opX, HALF, 1) * SDigit(opY, HALF, 0)
  BY <1>1, <1>4, Zenon DEF Straight, Crossed
<1> QED
  BY <1>2, <1>3, <1>5, Zenon

\* The third part of IntrinsicsExact.
LEMMA ProductsExactly ==
  ASSUME opX \in Words, opY \in Words
  PROVE  ProductsExact
<1>1. PICK a \in SVal(HALF), b \in SVal(HALF), c \in SVal(HALF), d \in SVal(HALF) :
        /\ a = SDigit(opX, HALF, 0) /\ b = SDigit(opX, HALF, 1)
        /\ c = SDigit(opY, HALF, 0) /\ d = SDigit(opY, HALF, 1)
        /\ Straight(opX, opY, 0) = a * c /\ Straight(opX, opY, 1) = b * d
        /\ Crossed(opX, opY, 0) = a * d /\ Crossed(opX, opY, 1) = b * c
  BY ProductValues
<1> DEFINE P(i) == SDigit(opX, HALF, i) * SDigit(opY, HALF, i)
           C(i) == SDigit(opX, HALF, i) * SDigit(opY, HALF, 1 - i)
<1>2. PICK p \in Int, q \in Int, s \in Int, t \in Int : p = a * c /\ q = b * d /\ s = a * d /\ t = b * c
  BY <1>1, HalfProduct
<1>3. /\ Straight(opX, opY, 0) = p /\ Straight(opX, opY, 1) = q
      /\ Crossed(opX, opY, 0) = s /\ Crossed(opX, opY, 1) = t
  BY <1>1, <1>2, Zenon
<1>4. 1 - 0 = 1 /\ 1 - 1 = 0
  OBVIOUS
<1>5. P(0) = p /\ P(1) = q /\ C(0) = s /\ C(1) = t
  BY <1>1, <1>2, <1>4, Zenon
<1>6. opX \in Int /\ opY \in Int
  BY WordsAreInts
<1>7. PICK e \in Int, f \in Int, g \in Int, k \in Int : e = p + q /\ f = p - q /\ g = s + t /\ k = s - t
  OBVIOUS
<1>8. PICK n \in Nat \ {0} : n = 2^(WORD32 - 1)
  BY Widths, PowHalf
<1>9. e \in -n .. n /\ f \in -n .. n
  BY <1>2, <1>7, <1>8, HalfProduct, Zenon
<1>10. g \in -n .. n /\ k \in -n .. n
  BY <1>2, <1>7, <1>8, HalfProduct, Zenon
<1> DEFINE Lost(v) == IF v = n THEN 2^WORD32 ELSE 0
<1>11. ASSUME NEW v \in -n .. n PROVE S32(v) + opX = v + opX - Lost(v)
  <2>1. v \in Int
    BY <1>11
  <2>2. CASE v # n
    <3>1. v \in -n .. n - 1
      BY <1>11, <2>2
    <3>2. S32(v) = v
      BY <1>8, <2>1, <3>1, S32Type, Zenon
    <3>3. v + opX = v + opX - 0
      BY <1>6, <2>1
    <3> QED
      BY <2>2, <3>2, <3>3, Zenon
  <2>3. CASE v = n
    <3>1. PICK m \in Nat \ {0} : m = 2^WORD32 /\ m = 2 * n
      BY <1>8, Widths, PowHalf
    <3>2. v % m = v
      <4>1. v \in 0 .. m - 1
        BY <2>3, <3>1
      <4> QED
        BY <4>1, DivSmall, Zenon
    <3>3. S32(v) = v - m
      <4>1. v >= n
        BY <2>3
      <4> QED
        BY <1>8, <3>1, <3>2, <4>1, Zenon DEF S32, U32, Signed
    <3>4. (v - m) + opX = v + opX - m
      BY <1>6, <2>1, <3>1
    <3> QED
      BY <2>3, <3>1, <3>3, <3>4, Zenon
  <2> QED
    BY <2>2, <2>3
<1>12. /\ SMUAD(opX, opY) = U32(e) /\ SMUSD(opX, opY) = U32(f)
       /\ SMUADX(opX, opY) = U32(g) /\ SMUSDX(opX, opY) = U32(k)
  BY <1>3, <1>7, Zenon DEF SMUAD, SMUSD, SMUADX, SMUSDX
<1>13. /\ SMLAD(opX, opY, opY) = U32(e + opY) /\ SMLSD(opX, opY, opY) = U32(f + opY)
       /\ SMLADX(opX, opY, opY) = U32(g + opY) /\ SMLSDX(opX, opY, opY) = U32(k + opY)
  <2>1. \A v \in Int : U32(S32(v) + S32(opY)) = U32(v + opY)
    BY <1>6, Accumulate, Zenon
  <2>2. SMLAD(opX, opY, opY) = U32(e + opY)
    BY <1>3, <1>7, <2>1, Zenon DEF SMLAD
  <2>3. SMLSD(opX, opY, opY) = U32(f + opY)
    BY <1>3, <1>7, <2>1, Zenon DEF SMLSD
  <2>4. SMLADX(opX, opY, opY) = U32(g + opY)
    BY <1>3, <1>7, <2>1, Zenon DEF SMLADX
  <2>5. SMLSDX(opX, opY, opY) = U32(k + opY)
    BY <1>3, <1>7, <2>1, Zenon DEF SMLSDX
  <2> QED
    BY <2>2, <2>3, <2>4, <2>5
<1>14. /\ SMLALD(opX, opY, opX) = U64(e + opX - Lost(e))
       /\ SMLSLD(opX, opY, opX) = U64(f + opX - Lost(f))
       /\ SMLALDX(opX, opY, opX) = U64(g + opX - Lost(g))
       /\ SMLSLDX(opX, opY, opX) = U64(k + opX - Lost(k))
  <2> HIDE DEF Lost
  <2> QED
    BY <1>3, <1>7, <1>9, <1>10, <1>11, Zenon DEF SMLALD, SMLSLD, SMLALDX, SMLSLDX
<1>15. S32(SMMLA(opX, opY, 0)) * 2^WORD32 \in
         (S32(opX) * S32(opY) - 2^WORD32 + 1) .. (S32(opX) * S32(opY))
  BY <1>6, HighWord, Zenon
<1>16. /\ P(0) + P(1) = e /\ P(0) - P(1) = f /\ C(0) + C(1) = g /\ C(0) - C(1) = k
  BY <1>5, <1>7, Zenon
<1> QED
  BY <1>8, <1>12, <1>13, <1>14, <1>15, <1>16, Zenon DEF ProductsExact

(***************************************************************************)
(* Moves of bytes and halfwords.                                           *)
(***************************************************************************)
\* A word and its halfwords.
LEMMA WordOfHalves ==
  ASSUME NEW x \in Words, NEW m \in Nat \ {0}, m = 2^HALF
  PROVE  /\ Digit(x, HALF, 0) = x % m /\ Digit(x, HALF, 1) = x \div m
         /\ x % m \in 0 .. m - 1 /\ x \div m \in 0 .. m - 1
         /\ x = (x \div m) * m + (x % m) /\ 2^WORD32 = m * m
         /\ x = Two(x \div m, x % m)
<1>1. 2^(HALF * 0) = 1 /\ 2^(HALF * 1) = m /\ 2^WORD32 = m * m
  BY Places
<1>2. x \in 0 .. m * m - 1 /\ x \in Int
  BY <1>1, WordsAreInts DEF Words
<1>3. PICK q \in Int, r \in 0 .. m - 1 : q = x \div m /\ r = x % m /\ x = q * m + r
  BY <1>2, DivParts
<1>4. q \in 0 .. m - 1
  <2>1. m * m \in Nat \ {0}
    BY NatProducts
  <2>2. x % (m * m) = x
    BY <1>2, <2>1, DivSmall, Zenon
  <2>3. (x % (m * m)) \div m = (x \div m) % m
    BY <1>2, DivOfMod, Zenon
  <2>4. q = q % m
    BY <1>3, <2>2, <2>3, Zenon
  <2>5. q % m \in 0 .. m - 1
    BY DivParts
  <2> QED
    BY <2>4, <2>5, Zenon
<1>5. q % m = q /\ r % m = r
  <2>1. q % m = q
    BY <1>4, DivSmall, Zenon
  <2>2. r % m = r
    BY DivSmall, Zenon
  <2> QED
    BY <2>1, <2>2
<1>6. x \div 1 = x
  BY <1>2
<1>7. Digit(x, HALF, 0) = r /\ Digit(x, HALF, 1) = q
  BY <1>1, <1>3, <1>5, <1>6, Zenon DEF Digit
<1>8. Two(q, r) = q * m + r
  BY <1>5, Zenon DEF Two
<1> QED
  BY <1>1, <1>3, <1>4, <1>7, <1>8, Zenon

\* A word and its bytes.
LEMMA WordOfBytes ==
  ASSUME NEW x \in Words
  PROVE  \E u \in UVal(BYTE), t \in UVal(BYTE), s \in UVal(BYTE), r \in UVal(BYTE) :
           /\ x = Four(u, t, s, r)
           /\ Digit(x, BYTE, 3) = u /\ Digit(x, BYTE, 2) = t /\ Digit(x, BYTE, 1) = s /\ Digit(x, BYTE, 0) = r
<1>1. PICK b \in Nat \ {0} :
        /\ b = 2^BYTE
        /\ 2^(BYTE * 0) = 1 /\ 2^(BYTE * 1) = b /\ 2^(BYTE * 2) = b * b /\ 2^(BYTE * 3) = b * (b * b)
        /\ 2^(2 * BYTE) = b * b /\ 2^(3 * BYTE) = b * (b * b)
        /\ 2^WORD32 = (b * b) * (b * b)
  BY Places
<1>2. PICK c \in Nat \ {0} : c = b * b
  BY NatProducts
<1>3. PICK d \in Nat \ {0} : d = b * c
  BY NatProducts
<1>4. PICK w \in Nat \ {0} : w = b * d
  BY NatProducts
<1>5. c * c = w
  BY <1>2, <1>3, <1>4, Products
<1>6. x \in 0 .. w - 1 /\ x \in Int
  BY <1>1, <1>2, <1>5, WordsAreInts DEF Words
<1>7. PICK r \in 0 .. b - 1, s \in 0 .. b - 1, t \in 0 .. b - 1, u \in 0 .. b - 1 :
        r = x % b /\ s = (x \div b) % b /\ t = (x \div c) % b /\ u = (x \div d) % b
  <2>1. x % b \in 0 .. b - 1 /\ x \div b \in Int /\ x \div c \in Int /\ x \div d \in Int
    BY <1>6, DivParts
  <2>2. (x \div b) % b \in 0 .. b - 1 /\ (x \div c) % b \in 0 .. b - 1 /\ (x \div d) % b \in 0 .. b - 1
    BY <2>1, DivParts
  <2> QED
    BY <2>1, <2>2, Zenon
<1>8. x % (b * b) = s * b + r
  BY <1>6, <1>7, DivTwice, Zenon
<1>9. x % (b * c) = t * c + (x % c)
  BY <1>6, <1>7, DivTwice, Zenon
<1>10. x % (b * d) = u * d + (x % d)
  BY <1>6, <1>7, DivTwice, Zenon
<1>11. x % w = x
  BY <1>6, DivSmall, Zenon
<1>12. x = u * d + (t * c + (s * b + r))
  BY <1>2, <1>3, <1>4, <1>8, <1>9, <1>10, <1>11, Zenon
<1>13. u % b = u /\ t % b = t /\ s % b = s /\ r % b = r
  <2>1. u % b = u /\ t % b = t
    BY DivSmall, Zenon
  <2>2. s % b = s /\ r % b = r
    BY DivSmall, Zenon
  <2> QED
    BY <2>1, <2>2
<1>14. Four(u, t, s, r) = u * d + t * c + s * b + r
  BY <1>1, <1>2, <1>3, <1>13, Zenon DEF Four
<1>15. x = Four(u, t, s, r)
  <2>1. u * d \in Int /\ t * c \in Int /\ s * b \in Int
    BY Products
  <2>2. PICK y \in Int, z \in Int, v \in Int : y = u * d /\ z = t * c /\ v = s * b
    BY <2>1
  <2>3. x = y + (z + (v + r))
    BY <1>12, <2>2, Zenon
  <2>4. Four(u, t, s, r) = y + z + v + r
    BY <1>14, <2>2, Zenon
  <2> QED
    BY <2>3, <2>4
<1>16. x \div 1 = x
  BY <1>6
<1>17. Digit(x, BYTE, 3) = u /\ Digit(x, BYTE, 2) = t /\ Digit(x, BYTE, 1) = s /\ Digit(x, BYTE, 0) = r
  BY <1>1, <1>2, <1>3, <1>7, <1>16, Zenon DEF Digit
<1>18. u \in UVal(BYTE) /\ t \in UVal(BYTE) /\ s \in UVal(BYTE) /\ r \in UVal(BYTE)
  BY <1>1 DEF UVal
<1> QED
  BY <1>15, <1>17, <1>18, Zenon

\* Bytes in pairs.
LEMMA TwoOfFour ==
  ASSUME NEW u \in UVal(BYTE), NEW t \in UVal(BYTE), NEW s \in UVal(BYTE), NEW r \in UVal(BYTE)
  PROVE  /\ Four(u, t, s, r) = Two(u * 2^BYTE + t, s * 2^BYTE + r)
         /\ u * 2^BYTE + t \in 0 .. 2^HALF - 1 /\ s * 2^BYTE + r \in 0 .. 2^HALF - 1
<1>1. PICK b \in Nat \ {0} : /\ b = 2^BYTE /\ 2^(2 * BYTE) = b * b /\ 2^(3 * BYTE) = b * (b * b) /\ 2^HALF = b * b
  BY Places
<1>2. PICK m \in Nat \ {0} : m = b * b
  BY NatProducts
<1>3. u \in 0 .. b - 1 /\ t \in 0 .. b - 1 /\ s \in 0 .. b - 1 /\ r \in 0 .. b - 1
  BY <1>1 DEF UVal
<1>4. PICK h \in 0 .. m - 1 : h = u * b + t
  BY <1>2, <1>3, TwoDigits
<1>5. PICK l \in 0 .. m - 1 : l = s * b + r
  BY <1>2, <1>3, TwoDigits
<1>6. h % m = h /\ l % m = l
  <2>1. h % m = h
    BY DivSmall, Zenon
  <2>2. l % m = l
    BY DivSmall, Zenon
  <2> QED
    BY <2>1, <2>2
<1>7. u % b = u /\ t % b = t /\ s % b = s /\ r % b = r
  <2>1. u % b = u /\ t % b = t
    BY <1>3, DivSmall, Zenon
  <2>2. s % b = s /\ r % b = r
    BY <1>3, DivSmall, Zenon
  <2> QED
    BY <2>1, <2>2
<1>8. Two(h, l) = h * m + l
  BY <1>1, <1>2, <1>6, Zenon DEF Two
<1>9. Four(u, t, s, r) = u * (b * m) + t * m + s * b + r
  BY <1>1, <1>2, <1>7, Zenon DEF Four
<1>10. h * m = u * (b * m) + t * m
  <2>1. u \in Int /\ t \in Int /\ u * b \in Int
    BY <1>3, Products
  <2>2. (u * b + t) * m = (u * b) * m + t * m /\ u * (b * m) = (u * b) * m
    BY <2>1, Products
  <2> QED
    BY <1>4, <2>2, Zenon
<1>11. Two(h, l) = Four(u, t, s, r)
  <2>1. u \in Int /\ t \in Int /\ s \in Int /\ r \in Int
    BY <1>3
  <2>2. b * m \in Int /\ t * m \in Int /\ s * b \in Int
    BY <2>1, Products
  <2>3. u * (b * m) \in Int
    BY <2>1, <2>2, Products
  <2>4. PICK y \in Int, z \in Int, v \in Int : y = u * (b * m) /\ z = t * m /\ v = s * b
    BY <2>2, <2>3
  <2>5. Two(h, l) = (y + z) + (v + r)
    BY <1>5, <1>8, <1>10, <2>4, Zenon
  <2>6. Four(u, t, s, r) = y + z + v + r
    BY <1>9, <2>4, Zenon
  <2> QED
    BY <2>1, <2>5, <2>6
<1> QED
  BY <1>1, <1>2, <1>4, <1>5, <1>11, Zenon

\* The bytes of a word that is put together from bytes.
LEMMA FourDigits ==
  ASSUME NEW u \in UVal(BYTE), NEW t \in UVal(BYTE), NEW s \in UVal(BYTE), NEW r \in UVal(BYTE),
         NEW w, w = Four(u, t, s, r)
  PROVE  /\ w \in Words
         /\ Digit(w, BYTE, 0) = r /\ Digit(w, BYTE, 1) = s /\ Digit(w, BYTE, 2) = t /\ Digit(w, BYTE, 3) = u
<1>1. u \in Int /\ t \in Int /\ s \in Int /\ r \in Int /\ BYTE \in Nat \ {0}
  BY LaneInts, Widths
<1>2. u % 2^BYTE = u /\ t % 2^BYTE = t /\ s % 2^BYTE = s /\ r % 2^BYTE = r
  BY <1>1, LaneValue, Zenon
<1>3. /\ w \in 0 .. 2^WORD32 - 1
      /\ Digit(w, BYTE, 0) = r % 2^BYTE /\ Digit(w, BYTE, 1) = s % 2^BYTE
      /\ Digit(w, BYTE, 2) = t % 2^BYTE /\ Digit(w, BYTE, 3) = u % 2^BYTE
  <2>1. PICK a \in Int, b \in Int, c \in Int, d \in Int : u = a /\ t = b /\ s = c /\ r = d
    BY <1>1, Zenon
  <2>2. w = Four(a, b, c, d)
    BY <2>1, Zenon
  <2>3. /\ w \in 0 .. 2^WORD32 - 1
        /\ Digit(w, BYTE, 0) = d % 2^BYTE /\ Digit(w, BYTE, 1) = c % 2^BYTE
        /\ Digit(w, BYTE, 2) = b % 2^BYTE /\ Digit(w, BYTE, 3) = a % 2^BYTE
    BY <2>2, FourLanes
  <2> QED
    BY <2>1, <2>3, Zenon
<1> QED
  BY <1>2, <1>3, Zenon DEF Words

\* A rotation exchanges the two parts of a word.
LEMMA RorIs ==
  ASSUME NEW x \in Int, NEW n \in 1 .. WORD32 - 1
  PROVE  ROR(x, n) = (x \div 2^n) + (x % 2^n) * 2^(WORD32 - n)
<1>1. n \in Nat /\ WORD32 - n \in Nat /\ (WORD32 - n) + n = WORD32
  BY Widths
<1>2. PICK p \in Nat \ {0} : p = 2^n
  BY <1>1, PowCounts
<1>3. PICK r \in Nat \ {0} : r = 2^(WORD32 - n)
  BY <1>1, PowCounts
<1>4. 2^WORD32 = p * r
  <2>1. 2^((WORD32 - n) + n) = 2^n * 2^(WORD32 - n)
    BY <1>1, PowAdd
  <2> QED
    BY <1>1, <1>2, <1>3, <2>1, Zenon
<1>5. (x * r) % (p * r) = (x % p) * r
  BY ModFactor, Zenon
<1> QED
  BY <1>2, <1>3, <1>4, <1>5, Zenon DEF ROR, U32

\* The two parts of a word.
LEMMA PartsOf ==
  ASSUME NEW x \in Words, NEW n \in 1 .. WORD32 - 1
  PROVE  \E p \in Nat \ {0}, r \in Nat \ {0} : /\ p = 2^n /\ r = 2^(WORD32 - n)
           /\ \E q \in 0 .. r - 1, s \in 0 .. p - 1 : x = q * p + s /\ q = x \div p /\ s = x % p
<1>1. n \in Nat /\ WORD32 - n \in Nat /\ (WORD32 - n) + n = WORD32
  BY Widths
<1>2. PICK p \in Nat \ {0} : p = 2^n
  BY <1>1, PowCounts
<1>3. PICK r \in Nat \ {0} : r = 2^(WORD32 - n)
  BY <1>1, PowCounts
<1>4. 2^WORD32 = r * p
  <2>1. 2^((WORD32 - n) + n) = 2^n * 2^(WORD32 - n)
    BY <1>1, PowAdd
  <2>2. p * r = r * p
    BY Products
  <2> QED
    BY <1>1, <1>2, <1>3, <2>1, <2>2, Zenon
<1>5. x \in 0 .. r * p - 1 /\ x \in Int
  BY <1>4, WordsAreInts DEF Words
<1>6. PICK q \in Int, s \in 0 .. p - 1 : q = x \div p /\ s = x % p /\ x = q * p + s
  BY <1>5, DivParts
<1>7. q \in 0 .. r - 1
  <2>1. r * p \in Nat \ {0}
    BY NatProducts
  <2>2. x % (r * p) = x
    BY <1>5, <2>1, DivSmall, Zenon
  <2>3. (x % (r * p)) \div p = (x \div p) % r
    BY <1>5, DivOfMod, Zenon
  <2>4. q = q % r
    BY <1>6, <2>2, <2>3, Zenon
  <2>5. q % r \in 0 .. r - 1
    BY DivParts
  <2> QED
    BY <2>4, <2>5, Zenon
<1> QED
  BY <1>2, <1>3, <1>6, <1>7, Zenon

\* Two rotations that add up to a full turn.
LEMMA Rotations ==
  ASSUME NEW x \in Words, NEW n \in 1 .. WORD32 - 1
  PROVE  ROR(ROR(x, n), WORD32 - n) = x
<1>1. PICK p \in Nat \ {0}, r \in Nat \ {0} : /\ p = 2^n /\ r = 2^(WORD32 - n)
           /\ \E q \in 0 .. r - 1, s \in 0 .. p - 1 : x = q * p + s /\ q = x \div p /\ s = x % p
  BY PartsOf
<1>2. PICK q \in 0 .. r - 1, s \in 0 .. p - 1 : x = q * p + s /\ q = x \div p /\ s = x % p
  BY <1>1
<1>3. x \in Int
  BY WordsAreInts
<1>4. ROR(x, n) = q + s * r
  BY <1>1, <1>2, <1>3, RorIs, Zenon
<1>5. PICK y \in Int : y = s * r + q /\ y = q + s * r
  <2>1. s * r \in Int
    BY Products
  <2> QED
    BY <2>1
<1>6. y % r = q /\ y \div r = s
  <2>1. s \in Int
    OBVIOUS
  <2> QED
    BY <1>5, <2>1, DivUnique
<1>7. PICK k \in 1 .. WORD32 - 1 : k = WORD32 - n /\ WORD32 - k = n
  BY Widths
<1>8. ROR(y, k) = s + q * p
  BY <1>1, <1>6, <1>7, RorIs, Zenon
<1>9. s + q * p = q * p + s
  <2>1. q * p \in Int
    BY Products
  <2> QED
    BY <2>1
<1> QED
  BY <1>2, <1>4, <1>5, <1>7, <1>8, <1>9, Zenon

\* The byte reversals of a word.
LEMMA ReversalsOf ==
  ASSUME NEW w \in Words
  PROVE  /\ REV(w) = Four(Digit(w, BYTE, 0), Digit(w, BYTE, 1), Digit(w, BYTE, 2), Digit(w, BYTE, 3))
         /\ REV16(w) = Four(Digit(w, BYTE, 2), Digit(w, BYTE, 3), Digit(w, BYTE, 0), Digit(w, BYTE, 1))
         /\ REVSH(w) = Signed(Digit(w, BYTE, 0) * 2^BYTE + Digit(w, BYTE, 1), HALF)
<1>1. /\ 0 \in 0 .. 3 /\ 1 \in 0 .. 3 /\ 2 \in 0 .. 3 /\ 3 \in 0 .. 3
      /\ 3 - 3 = 0 /\ 3 - 2 = 1 /\ 3 - 1 = 2 /\ 3 - 0 = 3
      /\ 3 % 2 # 0 /\ 2 % 2 = 0 /\ 1 % 2 # 0 /\ 0 % 2 = 0
      /\ 2 + 1 = 3 /\ 1 - 1 = 0 /\ 0 + 1 = 1
  OBVIOUS
<1>2. /\ UByte(w, 3) = Digit(w, BYTE, 3) /\ UByte(w, 2) = Digit(w, BYTE, 2)
      /\ UByte(w, 1) = Digit(w, BYTE, 1) /\ UByte(w, 0) = Digit(w, BYTE, 0)
  BY <1>1, LaneOperands, Zenon
<1>3. REV(w) = Four(UByte(w, 0), UByte(w, 1), UByte(w, 2), UByte(w, 3))
  BY <1>1 DEF REV, Pack8
<1>4. REV16(w) = Four(UByte(w, 2), UByte(w, 3), UByte(w, 0), UByte(w, 1))
  BY <1>1 DEF REV16, Pack8
<1>5. REVSH(w) = Signed(Digit(w, BYTE, 0) * 2^BYTE + Digit(w, BYTE, 1), HALF)
  BY <1>2, Zenon DEF REVSH
<1> QED
  BY <1>2, <1>3, <1>4, <1>5, Zenon

\* The byte reversals, of bytes, of pairs and of signed halfwords.
LEMMA Reversals ==
  ASSUME opX \in Words
  PROVE  /\ ULanesAre(REV(opX), BYTE, LAMBDA i : Digit(opX, BYTE, 3 - i))
         /\ REV16(REV16(opX)) = opX /\ REV16(REV(opX)) = ROR(opX, HALF)
         /\ REVSH(opX) = SDigit(REV16(opX), HALF, 0)
<1>1. PICK u \in UVal(BYTE), t \in UVal(BYTE), s \in UVal(BYTE), r \in UVal(BYTE) :
           /\ opX = Four(u, t, s, r)
           /\ Digit(opX, BYTE, 3) = u /\ Digit(opX, BYTE, 2) = t /\ Digit(opX, BYTE, 1) = s /\ Digit(opX, BYTE, 0) = r
  BY WordOfBytes
<1>2. /\ REV(opX) = Four(r, s, t, u) /\ REV16(opX) = Four(t, u, r, s)
      /\ REVSH(opX) = Signed(r * 2^BYTE + s, HALF)
  BY <1>1, ReversalsOf, Zenon
<1>3. PICK w : w = REV(opX)
  OBVIOUS
<1>4. w \in Words /\ Digit(w, BYTE, 0) = u /\ Digit(w, BYTE, 1) = t /\ Digit(w, BYTE, 2) = s /\ Digit(w, BYTE, 3) = r
  BY <1>2, <1>3, FourDigits
<1>5. PICK v : v = REV16(opX)
  OBVIOUS
<1>6. v \in Words /\ Digit(v, BYTE, 0) = s /\ Digit(v, BYTE, 1) = r /\ Digit(v, BYTE, 2) = u /\ Digit(v, BYTE, 3) = t
  BY <1>2, <1>5, FourDigits
<1>7. ULanesAre(REV(opX), BYTE, LAMBDA i : Digit(opX, BYTE, 3 - i))
  <2>1. ASSUME NEW i \in 0 .. 3 PROVE Digit(w, BYTE, i) = Digit(opX, BYTE, 3 - i)
    <3>1. i = 0 \/ i = 1 \/ i = 2 \/ i = 3
      OBVIOUS
    <3>2. 3 - 3 = 0 /\ 3 - 2 = 1 /\ 3 - 1 = 2 /\ 3 - 0 = 3
      OBVIOUS
    <3> QED
      BY <1>1, <1>4, <3>1, <3>2, Zenon
  <2> QED
    BY <1>3, <2>1, LaneNumbers, Zenon DEF ULanesAre
<1>8. REV16(v) = opX
  <2>1. REV16(v) = Four(u, t, s, r)
    BY <1>6, ReversalsOf, Zenon
  <2> QED
    BY <1>1, <2>1, Zenon
<1>9. REV16(w) = Four(s, r, u, t)
  BY <1>4, ReversalsOf, Zenon
<1>10. PICK m \in Nat \ {0} : m = 2^HALF
  BY Widths, PowHalf
<1>11. PICK h \in 0 .. m - 1, l \in 0 .. m - 1 : h = u * 2^BYTE + t /\ l = s * 2^BYTE + r
  BY <1>10, TwoOfFour
<1>12. opX = Two(h, l) /\ REV16(w) = Two(l, h)
  BY <1>1, <1>9, <1>11, TwoOfFour
<1>13. h % m = h /\ l % m = l
  <2>1. h % m = h
    BY DivSmall, Zenon
  <2>2. l % m = l
    BY DivSmall, Zenon
  <2> QED
    BY <2>1, <2>2
<1>14. opX = h * m + l /\ REV16(w) = l * m + h
  BY <1>10, <1>12, <1>13, Zenon DEF Two
<1>15. h \in Int /\ l \in Int /\ l * m \in Int
  BY Products
<1>16. opX % m = l /\ opX \div m = h
  BY <1>14, <1>15, DivUnique
<1>17. ROR(opX, HALF) = h + l * m
  <2>1. HALF \in 1 .. WORD32 - 1 /\ WORD32 - HALF = HALF /\ opX \in Int
    BY Widths, WordsAreInts
  <2>2. ROR(opX, HALF) = (opX \div 2^HALF) + (opX % 2^HALF) * 2^(WORD32 - HALF)
    BY <2>1, RorIs
  <2> QED
    BY <1>10, <1>16, <2>1, <2>2, Zenon
<1>18. ROR(opX, HALF) = REV16(w)
  BY <1>14, <1>15, <1>17
<1>19. REVSH(opX) = SDigit(v, HALF, 0)
  <2>1. PICK a \in 0 .. m - 1, c \in 0 .. m - 1 : a = t * 2^BYTE + u /\ c = r * 2^BYTE + s
    BY <1>10, TwoOfFour
  <2>2. v = Two(a, c)
    BY <1>2, <1>5, <2>1, TwoOfFour
  <2>3. a \in Int /\ c \in Int
    OBVIOUS
  <2>4. Digit(Two(a, c), HALF, 0) = c % m
    BY <1>10, <2>3, TwoLanes
  <2>5. c % m = c
    BY DivSmall, Zenon
  <2> QED
    BY <1>2, <2>1, <2>2, <2>4, <2>5, Zenon DEF SDigit
<1> QED
  BY <1>3, <1>5, <1>7, <1>8, <1>18, <1>19, Zenon

\* The upper half of a number.
LEMMA HighIs ==
  ASSUME NEW z \in Int, NEW m \in Nat \ {0}, m = 2^HALF
  PROVE  /\ HighPart(z) = (z \div m) * m /\ z \div m \in Int
         /\ U32(HighPart(z)) = ((z \div m) % m) * m
<1>1. PICK q \in Int, r \in 0 .. m - 1 : q = z \div m /\ r = z % m /\ z = q * m + r
  BY DivParts
<1>2. PICK y \in Int : y = q * m
  BY Products
<1>3. z = y + r
  BY <1>1, <1>2, Zenon
<1>4. HighPart(z) = z - r
  BY <1>1, Zenon DEF HighPart
<1>5. HighPart(z) = y
  BY <1>3, <1>4
<1>6. 2^WORD32 = m * m
  BY Places
<1>7. (q * m) % (m * m) = (q % m) * m
  BY ModFactor, Zenon
<1> QED
  BY <1>1, <1>2, <1>5, <1>6, <1>7, Zenon DEF U32

\* The shifts of the extending moves, and the upper half of what they leave.
LEMMA ExtensionShifts ==
  ASSUME NEW x \in Words
  PROVE  /\ SShift(x, 3 * BYTE, 3 * BYTE) = SDigit(x, BYTE, 0) /\ UShift(x, 3 * BYTE, 3 * BYTE) = Digit(x, BYTE, 0)
         /\ SShift(x, BYTE, BYTE) \in Int /\ SShift(x, BYTE, BYTE) \div 2^HALF = SDigit(x, BYTE, 2)
         /\ UShift(x, BYTE, BYTE) \in Int /\ UShift(x, BYTE, BYTE) \div 2^HALF = Digit(x, BYTE, 2)
<1>1. x \in Int
  BY WordsAreInts
<1>2. SShift(x, 3 * BYTE, 3 * BYTE) = SDigit(x, BYTE, 0) /\ UShift(x, 3 * BYTE, 3 * BYTE) = Digit(x, BYTE, 0)
  <2>1. 0 \in 0 .. 3 /\ (3 - 0) * BYTE = 3 * BYTE
    BY Widths
  <2>2. UByte(x, 0) = Digit(x, BYTE, 0) /\ SByte(x, 0) = SDigit(x, BYTE, 0)
    BY <2>1, LaneOperands, Zenon
  <2> QED
    BY <2>1, <2>2, Zenon DEF UByte, SByte
<1>3. PICK b \in Nat \ {0}, m \in Nat \ {0}, h \in Nat \ {0} :
        /\ b = 2^BYTE /\ m = 2^HALF /\ m = 2^(BYTE * 2) /\ 2^(3 * BYTE) = b * m
        /\ h = 2^(BYTE - 1) /\ b = 2 * h
  <2>1. PICK b \in Nat \ {0} : b = 2^BYTE /\ 2^HALF = b * b /\ 2^(BYTE * 2) = b * b /\ 2^(3 * BYTE) = b * (b * b)
    BY Places
  <2>2. PICK m \in Nat \ {0} : m = b * b
    BY NatProducts
  <2>3. PICK h \in Nat \ {0} : h = 2^(BYTE - 1) /\ b = 2 * h
    BY <2>1, Widths, PowHalf
  <2> QED
    BY <2>1, <2>2, <2>3, Zenon
<1>4. 2^(3 * BYTE - 1) = h * m
  <2>1. HALF \in Nat /\ BYTE - 1 \in Nat /\ 3 * BYTE - 1 = HALF + (BYTE - 1)
    BY Widths
  <2>2. 2^(HALF + (BYTE - 1)) = 2^(BYTE - 1) * 2^HALF
    BY <2>1, PowAdd
  <2> QED
    BY <1>3, <2>1, <2>2, Zenon
<1>5. PICK f \in Int : f = x % (b * m)
  <2>1. b * m \in Nat \ {0}
    BY NatProducts
  <2> QED
    BY <1>1, <2>1, DivParts
<1>6. UShift(x, BYTE, BYTE) = f /\ SShift(x, BYTE, BYTE) = Signed(f, 3 * BYTE)
  <2>1. PICK n \in Nat \ {0}, low \in Nat, up \in Nat : n = 3 * BYTE /\ low = 0 /\ up = BYTE
    BY Widths
  <2>2. up + low + n = WORD32
    BY <2>1, Widths
  <2>3. up + low = BYTE
    BY <2>1, Widths
  <2>4. UShift(x, up, up + low) = (x \div 2^low) % 2^n /\ SShift(x, up, up + low) = Signed((x \div 2^low) % 2^n, n)
    BY <1>1, <2>2, ShiftedField, Zenon
  <2>5. 2^0 = 1 /\ x \div 1 = x
    BY <1>1, PowZero
  <2> QED
    BY <1>3, <1>5, <2>1, <2>3, <2>4, <2>5, Zenon
<1>7. PICK g \in Int, e \in 0 .. m - 1 : g = f \div m /\ e = f % m /\ f = g * m + e
  BY DivParts
<1>8. g = Digit(x, BYTE, 2)
  <2>1. (x % (b * m)) \div m = (x \div m) % b
    BY <1>1, DivOfMod, Zenon
  <2> QED
    BY <1>3, <1>5, <1>7, <2>1, Zenon DEF Digit
<1>9. PICK z : z = Signed(f, 3 * BYTE)
  OBVIOUS
<1>10. z = IF f >= h * m THEN f - b * m ELSE f
  BY <1>3, <1>4, <1>9, Zenon DEF Signed
<1>11. f >= h * m <=> g >= h
  <2>1. CASE g >= h
    <3>1. PICK d \in Nat : d = g - h
      BY <2>1
    <3>2. d * m \in Nat
      BY NatProducts
    <3>3. (g - h) * m = g * m - h * m /\ g * m \in Int /\ h * m \in Int
      BY Products
    <3>4. PICK y \in Int, w \in Int : y = g * m /\ w = h * m
      BY <3>3
    <3>5. y - w \in Nat
      BY <3>1, <3>2, <3>3, <3>4, Zenon
    <3>6. f = y + e
      BY <1>7, <3>4, Zenon
    <3>7. f >= w
      BY <3>5, <3>6
    <3> QED
      BY <2>1, <3>4, <3>7
  <2>2. CASE ~ g >= h
    <3>1. PICK d \in Nat : d = h - g - 1
      BY <2>2
    <3>2. d * m \in Nat
      BY NatProducts
    <3>3. PICK i \in Int : i = g + 1
      OBVIOUS
    <3>4. (h - i) * m = h * m - i * m /\ i * m \in Int /\ h * m \in Int /\ i * m = g * m + m /\ g * m \in Int
      <4>1. (h - i) * m = h * m - i * m /\ i * m \in Int /\ h * m \in Int /\ g * m \in Int
        BY Products
      <4>2. (g + 1) * m = g * m + 1 * m
        BY Products
      <4> QED
        BY <3>3, <4>1, <4>2
    <3>5. PICK y \in Int, w \in Int : y = g * m /\ w = h * m
      BY <3>4
    <3>6. d = h - i
      BY <3>1, <3>3
    <3>7. w - (y + m) \in Nat
      BY <3>2, <3>4, <3>5, <3>6, Zenon
    <3>8. f = y + e
      BY <1>7, <3>5, Zenon
    <3>9. ~ f >= w
      BY <3>7, <3>8
    <3> QED
      BY <2>2, <3>5, <3>9
  <2> QED
    BY <2>1, <2>2
<1>12. z \in Int /\ z \div m = IF g >= h THEN g - b ELSE g
  <2>1. CASE g >= h
    <3>1. PICK k \in Int : k = g - b
      OBVIOUS
    <3>2. (g - b) * m = g * m - b * m /\ g * m \in Int /\ b * m \in Int
      BY Products
    <3>3. PICK y \in Int, w \in Int : y = g * m /\ w = b * m
      BY <3>2
    <3>4. k * m = y - w
      BY <3>1, <3>2, <3>3, Zenon
    <3>5. z = f - w /\ f = y + e
      BY <1>7, <1>10, <1>11, <2>1, <3>3, Zenon
    <3>6. z \in Int /\ z = k * m + e
      BY <3>4, <3>5
    <3>7. z \div m = k
      BY <3>6, DivUnique, Zenon
    <3> QED
      BY <2>1, <3>1, <3>6, <3>7, Zenon
  <2>2. CASE ~ g >= h
    <3>1. z = f
      BY <1>10, <1>11, <2>2, Zenon
    <3> QED
      BY <1>7, <2>2, <3>1, Zenon
  <2> QED
    BY <2>1, <2>2
<1>13. Signed(g, BYTE) = IF g >= h THEN g - b ELSE g
  BY <1>3, Zenon DEF Signed
<1> QED
  BY <1>2, <1>3, <1>6, <1>7, <1>8, <1>9, <1>12, <1>13, Zenon DEF SDigit

\* The bytes of a word are halfwords.
LEMMA ByteLanes ==
  ASSUME NEW x \in Words, NEW i \in {0, 2}
  PROVE  /\ Digit(x, BYTE, i) \in UVal(HALF) /\ Digit(x, BYTE, i) \in Int
         /\ SDigit(x, BYTE, i) \in SVal(HALF) /\ SDigit(x, BYTE, i) \in Int
<1>1. BYTE \in 1 .. HALF /\ BYTE \in Nat \ {0} /\ i \in Nat
  BY Widths
<1>2. Digit(x, BYTE, i) \in UVal(BYTE) /\ SDigit(x, BYTE, i) \in SVal(BYTE)
  BY <1>1, Lanes
<1>3. UVal(BYTE) \subseteq UVal(HALF) /\ SVal(BYTE) \subseteq SVal(HALF)
  <2>1. -2^(BYTE - 1) .. 2^(BYTE - 1) - 1 \subseteq SVal(HALF) /\ 0 .. 2^BYTE - 1 \subseteq UVal(HALF)
    BY <1>1, NarrowVals
  <2> QED
    BY <2>1, Zenon DEF UVal, SVal
<1> QED
  BY <1>2, <1>3, LaneInts

\* The extending moves put two bytes into the halfwords.
LEMMA ExtensionsAre ==
  ASSUME NEW x \in Words
  PROVE  /\ SXTB16(x) = Two(SDigit(x, BYTE, 2), SDigit(x, BYTE, 0))
         /\ UXTB16(x) = Two(Digit(x, BYTE, 2), Digit(x, BYTE, 0))
<1>1. PICK m \in Nat \ {0} : m = 2^HALF
  BY Widths, PowHalf
<1>2. PICK z \in Int, f \in Int : z = SShift(x, BYTE, BYTE) /\ f = UShift(x, BYTE, BYTE)
  BY ExtensionShifts
<1>3. z \div m = SDigit(x, BYTE, 2) /\ f \div m = Digit(x, BYTE, 2)
  BY <1>1, <1>2, ExtensionShifts, Zenon
<1>4. U32(HighPart(z)) = ((z \div m) % m) * m
  BY <1>1, HighIs, Zenon
<1>5. HighPart(f) = (f \div m) * m
  BY <1>1, HighIs, Zenon
<1>6. PICK d \in 0 .. m - 1 : d = Digit(x, BYTE, 2)
  <2>1. 2 \in {0, 2}
    OBVIOUS
  <2> QED
    BY <1>1, <2>1, ByteLanes, Zenon DEF UVal
<1>7. d % m = d
  BY DivSmall, Zenon
<1>8. PICK u \in Int, v \in Int : /\ u = SDigit(x, BYTE, 0) % m /\ v = (SDigit(x, BYTE, 2) % m) * m
  <2>1. SDigit(x, BYTE, 0) \in Int /\ SDigit(x, BYTE, 2) \in Int
    BY ByteLanes
  <2>2. PICK y \in Int, w \in Int : y = SDigit(x, BYTE, 0) /\ w = SDigit(x, BYTE, 2)
    BY <2>1
  <2>3. y % m \in Int /\ w % m \in Int
    BY DivParts
  <2>4. (w % m) * m \in Int
    BY <2>3, Products
  <2> QED
    BY <2>2, <2>3, <2>4, Zenon
<1>9. SXTB16(x) = u + v /\ Two(SDigit(x, BYTE, 2), SDigit(x, BYTE, 0)) = v + u
  <2>1. SXTB16(x) = u + v
    BY <1>1, <1>2, <1>3, <1>4, <1>8, ExtensionShifts, Zenon DEF SXTB16
  <2>2. Two(SDigit(x, BYTE, 2), SDigit(x, BYTE, 0)) = v + u
    BY <1>1, <1>8, Zenon DEF Two
  <2> QED
    BY <2>1, <2>2
<1>10. PICK a \in Int, c \in Int : a = Digit(x, BYTE, 0) % m /\ c = d * m
  <2>1. Digit(x, BYTE, 0) \in Int
    BY ByteLanes
  <2>2. Digit(x, BYTE, 0) % m \in Int /\ d * m \in Int
    BY <2>1, DivParts, Products
  <2> QED
    BY <2>2
<1>11. UXTB16(x) = a + c /\ Two(Digit(x, BYTE, 2), Digit(x, BYTE, 0)) = c + a
  <2>1. UXTB16(x) = a + c
    BY <1>1, <1>2, <1>3, <1>5, <1>6, <1>10, ExtensionShifts, Zenon DEF UXTB16
  <2>2. Two(Digit(x, BYTE, 2), Digit(x, BYTE, 0)) = c + a
    BY <1>1, <1>6, <1>7, <1>10, Zenon DEF Two
  <2> QED
    BY <2>1, <2>2
<1> QED
  BY <1>9, <1>11

\* The halfwords of an extended word.
LEMMA ExtendedHalves ==
  ASSUME NEW x \in Words
  PROVE  /\ SXTB16(x) \in Words /\ UXTB16(x) \in Words
         /\ SDigit(SXTB16(x), HALF, 0) = SDigit(x, BYTE, 0) /\ SDigit(SXTB16(x), HALF, 1) = SDigit(x, BYTE, 2)
         /\ Digit(UXTB16(x), HALF, 0) = Digit(x, BYTE, 0) /\ Digit(UXTB16(x), HALF, 1) = Digit(x, BYTE, 2)
<1>1. PICK a \in SVal(HALF), b \in SVal(HALF), c \in UVal(HALF), d \in UVal(HALF) :
        a = SDigit(x, BYTE, 0) /\ b = SDigit(x, BYTE, 2) /\ c = Digit(x, BYTE, 0) /\ d = Digit(x, BYTE, 2)
  <2>1. SDigit(x, BYTE, 0) \in SVal(HALF) /\ Digit(x, BYTE, 0) \in UVal(HALF)
    BY ByteLanes
  <2>2. SDigit(x, BYTE, 2) \in SVal(HALF) /\ Digit(x, BYTE, 2) \in UVal(HALF)
    BY ByteLanes
  <2> QED
    BY <2>1, <2>2, Zenon
<1>2. a \in Int /\ b \in Int /\ c \in Int /\ d \in Int /\ HALF \in Nat \ {0}
  BY LaneInts, Widths
<1>3. PICK s, u : s = Two(b, a) /\ u = Two(d, c)
  OBVIOUS
<1>4. s \in 0 .. 2^WORD32 - 1 /\ Digit(s, HALF, 0) = a % 2^HALF /\ Digit(s, HALF, 1) = b % 2^HALF
  BY <1>2, <1>3, TwoLanes
<1>5. u \in 0 .. 2^WORD32 - 1 /\ Digit(u, HALF, 0) = c % 2^HALF /\ Digit(u, HALF, 1) = d % 2^HALF
  BY <1>2, <1>3, TwoLanes
<1>6. Signed(a % 2^HALF, HALF) = a /\ Signed(b % 2^HALF, HALF) = b
  BY <1>2, LaneValue, Zenon
<1>7. c % 2^HALF = c /\ d % 2^HALF = d
  BY <1>2, LaneValue, Zenon
<1>8. s = SXTB16(x) /\ u = UXTB16(x)
  BY <1>1, <1>3, ExtensionsAre, Zenon
<1>9. SDigit(s, HALF, 0) = a /\ SDigit(s, HALF, 1) = b /\ Digit(u, HALF, 0) = c /\ Digit(u, HALF, 1) = d
  BY <1>4, <1>5, <1>6, <1>7, Zenon DEF SDigit
<1> QED
  BY <1>1, <1>4, <1>5, <1>8, <1>9, Zenon DEF Words

\* Adding whole upper halves to the shifted byte.
LEMMA HighSum ==
  ASSUME NEW z \in Int, NEW k \in Int, NEW m \in Nat \ {0}, m = 2^HALF
  PROVE  U32(HighPart(z + k * m)) = (((z \div m) + k) % m) * m
<1>1. PICK q \in Int, r \in 0 .. m - 1 : q = z \div m /\ r = z % m /\ z = q * m + r
  BY DivParts
<1>2. PICK y \in Int, w \in Int : y = q * m /\ w = k * m
  BY Products
<1>3. PICK v \in Int : v = z + k * m /\ v = z + w
  BY <1>2
<1>4. PICK j \in Int : j = q + k
  OBVIOUS
<1>5. j * m = y + w
  <2>1. (q + k) * m = q * m + k * m
    BY Products
  <2> QED
    BY <1>2, <1>4, <2>1, Zenon
<1>6. z = y + r
  BY <1>1, <1>2, Zenon
<1>7. v = j * m + r
  <2>1. v = z + w
    BY <1>3
  <2>2. v = (y + w) + r
    BY <1>6, <2>1
  <2> QED
    BY <1>5, <2>2, Zenon
<1>8. v \div m = j
  BY <1>7, DivUnique, Zenon
<1>9. U32(HighPart(v)) = ((v \div m) % m) * m
  BY HighIs, Zenon
<1> QED
  BY <1>1, <1>3, <1>4, <1>8, <1>9, Zenon

\* The accumulating extensions are an extension and an addition.
LEMMA Accumulates ==
  ASSUME NEW x \in Words, NEW y \in Words
  PROVE  SXTAB16(y, x) = SADD16(y, SXTB16(x)) /\ UXTAB16(y, x) = UADD16(y, UXTB16(x))
<1>1. PICK m \in Nat \ {0} : m = 2^HALF
  BY Widths, PowHalf
<1>2. PICK z \in Int, f \in Int : z = SShift(x, BYTE, BYTE) /\ f = UShift(x, BYTE, BYTE)
  BY ExtensionShifts
<1>3. z \div m = SDigit(x, BYTE, 2) /\ f \div m = Digit(x, BYTE, 2)
  BY <1>1, <1>2, ExtensionShifts, Zenon
<1>4. PICK k \in Int : k = y \div m /\ k = Digit(y, HALF, 1)
  BY <1>1, WordOfHalves
<1>5. y \in Int
  BY WordsAreInts
<1>6. HighPart(y) = k * m
  BY <1>1, <1>4, <1>5, HighIs, Zenon
<1>7. U32(HighPart(z + k * m)) = (((z \div m) + k) % m) * m
  BY <1>1, HighSum, Zenon
<1>8. U32(HighPart(f + k * m)) = (((f \div m) + k) % m) * m
  BY <1>1, HighSum, Zenon
<1>9. 0 \in 0 .. 1 /\ 1 \in 0 .. 1 /\ 0 \in 0 .. 3 /\ HALF \in Nat \ {0} /\ 0 \in Nat /\ 1 \in Nat
  BY Widths
<1>10. /\ SByte(x, 0) = SDigit(x, BYTE, 0) /\ UByte(x, 0) = Digit(x, BYTE, 0)
       /\ SHalf(y, 0) = SDigit(y, HALF, 0) /\ UHalf(y, 0) = Digit(y, HALF, 0)
       /\ SHalf(y, 1) = SDigit(y, HALF, 1) /\ UHalf(y, 1) = Digit(y, HALF, 1)
  BY <1>9, LaneOperands, Zenon
<1>11. SXTB16(x) \in Words /\ UXTB16(x) \in Words
  BY ExtendedHalves
<1>12. /\ SHalf(SXTB16(x), 0) = SDigit(x, BYTE, 0) /\ SHalf(SXTB16(x), 1) = SDigit(x, BYTE, 2)
  BY <1>9, <1>11, ExtendedHalves, LaneOperands, Zenon
<1>13. /\ UHalf(UXTB16(x), 0) = Digit(x, BYTE, 0) /\ UHalf(UXTB16(x), 1) = Digit(x, BYTE, 2)
  BY <1>9, <1>11, ExtendedHalves, LaneOperands, Zenon
<1>14. PICK a \in Int, b \in Int, c \in Int, d \in Int :
         a = SDigit(x, BYTE, 0) /\ b = SDigit(x, BYTE, 2) /\ c = Digit(x, BYTE, 0) /\ d = Digit(x, BYTE, 2)
  <2>1. SDigit(x, BYTE, 0) \in Int /\ Digit(x, BYTE, 0) \in Int
    BY ByteLanes
  <2>2. SDigit(x, BYTE, 2) \in Int /\ Digit(x, BYTE, 2) \in Int
    BY ByteLanes
  <2> QED
    BY <2>1, <2>2, Zenon
<1>15. PICK e \in Int, g \in Int, h \in Int : e = SDigit(y, HALF, 0) /\ g = Digit(y, HALF, 0) /\ h = SDigit(y, HALF, 1)
  <2>1. SDigit(y, HALF, 0) \in SVal(HALF) /\ Digit(y, HALF, 0) \in UVal(HALF)
    BY <1>9, Lanes
  <2>2. SDigit(y, HALF, 1) \in SVal(HALF)
    BY <1>9, Lanes
  <2> QED
    BY <2>1, <2>2, LaneInts
<1>16. (h + b) % m = (b + k) % m
  <2>1. PICK j \in {0, 1} : h = k - j * m
    BY <1>1, <1>4, <1>9, <1>15, Lanes
  <2>2. PICK i \in Int, v \in Int, w \in Int : i = -j /\ v = h + b /\ w = b + k
    OBVIOUS
  <2>3. v = w + i * m
    <3>1. CASE j = 0
      BY <2>1, <2>2, <3>1
    <3>2. CASE j = 1
      BY <2>1, <2>2, <3>2
    <3> QED
      BY <3>1, <3>2
  <2>4. v % m = w % m
    BY <2>3, ModEqual, Zenon
  <2> QED
    BY <2>2, <2>4, Zenon
<1>17. PICK v \in Int, w \in Int : v = ((b + k) % m) * m /\ w = (a + e) % m
  <2>1. PICK i \in Int, j \in Int : i = b + k /\ j = a + e
    OBVIOUS
  <2>2. i % m \in Int /\ j % m \in Int
    BY DivParts
  <2>3. (i % m) * m \in Int
    BY <2>2, Products
  <2> QED
    BY <2>1, <2>2, <2>3, Zenon
<1>18. SXTAB16(y, x) = w + v
  BY <1>1, <1>2, <1>3, <1>6, <1>7, <1>10, <1>14, <1>15, <1>17, Zenon DEF SXTAB16
<1>19. e + a = a + e
  OBVIOUS
<1>20. SADD16(y, SXTB16(x)) = v + w
  <2>1. SADD16(y, SXTB16(x)) = Two(SHalf(y, 1) + SHalf(SXTB16(x), 1), SHalf(y, 0) + SHalf(SXTB16(x), 0))
    BY DEF SADD16, Pack16
  <2>2. SADD16(y, SXTB16(x)) = Two(h + b, e + a)
    BY <1>10, <1>12, <1>14, <1>15, <2>1, Zenon
  <2> QED
    BY <1>1, <1>16, <1>17, <1>19, <2>2, Zenon DEF Two
<1>21. PICK p \in Int, q \in Int : p = ((d + k) % m) * m /\ q = (c + g) % m
  <2>1. PICK i \in Int, j \in Int : i = d + k /\ j = c + g
    OBVIOUS
  <2>2. i % m \in Int /\ j % m \in Int
    BY DivParts
  <2>3. (i % m) * m \in Int
    BY <2>2, Products
  <2> QED
    BY <2>1, <2>2, <2>3, Zenon
<1>22. UXTAB16(y, x) = q + p
  BY <1>1, <1>2, <1>3, <1>6, <1>8, <1>10, <1>14, <1>15, <1>21, Zenon DEF UXTAB16
<1>23. k + d = d + k /\ g + c = c + g
  OBVIOUS
<1>24. UADD16(y, UXTB16(x)) = p + q
  <2>1. UADD16(y, UXTB16(x)) = Two(UHalf(y, 1) + UHalf(UXTB16(x), 1), UHalf(y, 0) + UHalf(UXTB16(x), 0))
    BY DEF UADD16, Pack16
  <2>2. UADD16(y, UXTB16(x)) = Two(k + d, g + c)
    BY <1>4, <1>10, <1>13, <1>14, <1>15, <2>1, Zenon
  <2> QED
    BY <1>1, <1>21, <1>23, <2>2, Zenon DEF Two
<1> QED
  BY <1>18, <1>20, <1>22, <1>24

\* The lanes of the extended words.
LEMMA Extensions ==
  ASSUME opX \in Words
  PROVE  /\ SLanesAre(SXTB16(opX), HALF, LAMBDA i : SDigit(opX, BYTE, 2 * i))
         /\ ULanesAre(UXTB16(opX), HALF, LAMBDA i : Digit(opX, BYTE, 2 * i))
<1>1. /\ SDigit(SXTB16(opX), HALF, 0) = SDigit(opX, BYTE, 0) /\ SDigit(SXTB16(opX), HALF, 1) = SDigit(opX, BYTE, 2)
      /\ Digit(UXTB16(opX), HALF, 0) = Digit(opX, BYTE, 0) /\ Digit(UXTB16(opX), HALF, 1) = Digit(opX, BYTE, 2)
  BY ExtendedHalves
<1>2. ASSUME NEW i \in 0 .. 1
      PROVE  /\ SDigit(SXTB16(opX), HALF, i) = SDigit(opX, BYTE, 2 * i)
             /\ Digit(UXTB16(opX), HALF, i) = Digit(opX, BYTE, 2 * i)
  <2>1. (i = 0 \/ i = 1) /\ 2 * 0 = 0 /\ 2 * 1 = 2
    OBVIOUS
  <2> QED
    BY <1>1, <2>1, Zenon
<1>3. SLanesAre(SXTB16(opX), HALF, LAMBDA i : SDigit(opX, BYTE, 2 * i))
  BY <1>2, LaneNumbers, Zenon DEF SLanesAre
<1>4. ULanesAre(UXTB16(opX), HALF, LAMBDA i : Digit(opX, BYTE, 2 * i))
  BY <1>2, LaneNumbers, Zenon DEF ULanesAre
<1> QED
  BY <1>3, <1>4

(***************************************************************************)
(* The bits of a number.                                                   *)
(***************************************************************************)
Bit(x, i) == (x \div 2^i) % 2

\* A bit is a digit of one bit.
LEMMA BitIsDigit ==
  ASSUME NEW x, NEW i \in Nat
  PROVE  Digit(x, 1, i) = Bit(x, i)
<1>1. 1 * i = i
  OBVIOUS
<1>2. 2^1 = 2
  <2>1. 0 \in Nat /\ 0 + 1 = 1 /\ 2 * 1 = 2
    OBVIOUS
  <2> QED
    BY <2>1, PowNext, PowZero, Zenon
<1> QED
  BY <1>1, <1>2, Zenon DEF Digit, Bit

\* It is zero or one.
LEMMA BitType ==
  ASSUME NEW x \in Int, NEW i \in Nat
  PROVE  Bit(x, i) \in 0 .. 1
<1>1. PICK p \in Nat \ {0} : p = 2^i
  BY PowCounts
<1>2. PICK y \in Int : y = x \div p
  BY DivParts
<1>3. y % 2 \in 0 .. 1
  BY <1>2
<1> QED
  BY <1>1, <1>2, <1>3, Zenon DEF Bit

\* A mask of n bits leaves the bits below n.
LEMMA BitBelow ==
  ASSUME NEW y \in Int, NEW n \in Nat, NEW i \in Nat, i < n
  PROVE  Bit(y % 2^n, i) = Bit(y, i)
<1>1. PICK p \in Nat \ {0} : p = 2^i
  BY PowCounts
<1>2. PICK c \in Nat \ {0} : 2^n = (c * 2) * p
  <2>1. i + 1 \in Nat /\ i + 1 <= n
    OBVIOUS
  <2>2. PICK c \in Nat \ {0} : 2^n = 2^(i + 1) * c
    BY <2>1, PowDivides
  <2>3. 2^(i + 1) = 2 * p
    BY <1>1, PowNext
  <2>4. (2 * p) * c = (c * 2) * p
    BY SMT
  <2> QED
    BY <2>2, <2>3, <2>4, Zenon
<1>3. PICK d \in Nat \ {0}, two \in Nat \ {0} : d = c * 2 /\ two = 2
  OBVIOUS
<1>4. (y % (d * p)) \div p = (y \div p) % d
  BY DivOfMod, Zenon
<1>5. PICK w \in Int : w = y \div p
  BY DivParts
<1>6. (w % (c * two)) % two = w % two
  BY ModOfMod, Zenon
<1> QED
  BY <1>1, <1>2, <1>3, <1>4, <1>5, <1>6, Zenon DEF Bit

\* A shift to the left moves the bits up and leaves zeros.
LEMMA BitUp ==
  ASSUME NEW y \in Int, NEW s \in Nat, NEW i \in Nat
  PROVE  /\ i < s => Bit(y * 2^s, i) = 0
         /\ i >= s => Bit(y * 2^s, i) = Bit(y, i - s)
<1>1. PICK p \in Nat \ {0}, r \in Nat \ {0} : p = 2^i /\ r = 2^s
  BY PowCounts
<1>2. PICK z \in Int : z = y * r
  BY Products
<1>3. ASSUME i < s PROVE Bit(y * 2^s, i) = 0
  <2>1. i + 1 \in Nat /\ i + 1 <= s
    BY <1>3
  <2>2. PICK c \in Nat \ {0} : r = 2^(i + 1) * c
    BY <1>1, <2>1, PowDivides
  <2>3. 2^(i + 1) = 2 * p
    BY <1>1, PowNext
  <2>4. PICK e \in Int : e = y * c
    BY Products
  <2>5. PICK d \in Int : d = 2 * e
    OBVIOUS
  <2>6. z = d * p
    <3>1. r = (2 * p) * c
      BY <2>2, <2>3, Zenon
    <3>2. y * ((2 * p) * c) = (2 * (y * c)) * p
      BY SMT
    <3> QED
      BY <1>2, <2>4, <2>5, <3>1, <3>2, Zenon
  <2>7. PICK o \in 0 .. p - 1 : o = 0
    OBVIOUS
  <2>8. z = d * p + o
    <3>1. PICK f \in Int : f = d * p
      BY Products
    <3>2. f = f + o
      BY <2>7
    <3> QED
      BY <2>6, <3>1, <3>2, Zenon
  <2>9. z \div p = d
    BY <2>8, DivUnique, Zenon
  <2>10. d % 2 = 0
    BY <2>5
  <2> QED
    BY <1>1, <1>2, <2>9, <2>10, Zenon DEF Bit
<1>4. ASSUME i >= s PROVE Bit(y * 2^s, i) = Bit(y, i - s)
  <2>1. PICK j \in Nat : j = i - s /\ s + j = i
    BY <1>4
  <2>2. PICK q \in Nat \ {0} : q = 2^j
    BY PowCounts
  <2>3. p = q * r
    <3>1. 2^(s + j) = 2^j * 2^s
      BY PowAdd
    <3> QED
      BY <1>1, <2>1, <2>2, <3>1, Zenon
  <2>4. z \div (q * r) = (z \div r) \div q
    BY DivOfDiv, Zenon
  <2>5. PICK o \in 0 .. r - 1 : o = 0
    OBVIOUS
  <2>6. z = y * r + o
    BY <1>2, <2>5
  <2>7. z \div r = y
    BY <2>6, DivUnique, Zenon
  <2> QED
    BY <1>1, <1>2, <2>1, <2>2, <2>3, <2>4, <2>7, Zenon DEF Bit
<1> QED
  BY <1>3, <1>4

\* A bit at or above a digit is a bit of the quotient.
LEMMA BitAbove ==
  ASSUME NEW y \in Int, NEW n \in Nat, NEW i \in Nat
  PROVE  Bit(y, n + i) = Bit(y \div 2^n, i)
<1>1. PICK p \in Nat \ {0}, q \in Nat \ {0} : p = 2^n /\ q = 2^i
  BY PowCounts
<1>2. 2^(n + i) = q * p
  BY <1>1, PowAdd, Zenon
<1>3. y \div (q * p) = (y \div p) \div q
  BY DivOfDiv, Zenon
<1> QED
  BY <1>1, <1>2, <1>3, Zenon DEF Bit

\* A shift to the right moves the bits down.
LEMMA BitDown ==
  ASSUME NEW y \in Int, NEW n \in Nat, NEW i \in Nat
  PROVE  Bit(y \div 2^n, i) = Bit(y, i + n)
<1>1. i + n = n + i
  OBVIOUS
<1> QED
  BY <1>1, BitAbove, Zenon

\* The bits of the signed value of a word: the top bit goes on for ever.
LEMMA SignBits ==
  ASSUME NEW y \in Words, NEW j \in Nat
  PROVE  Bit(S32(y), j) = Bit(y, Min({j, WORD32 - 1}))
<1>1. PICK h \in Nat \ {0}, m \in Nat \ {0} : h = 2^(WORD32 - 1) /\ m = 2^WORD32 /\ m = 2 * h
  BY Widths, PowHalf
<1>2. WORD32 \in Nat /\ WORD32 - 1 \in Nat /\ WORD32 \in Int /\ WORD32 - 1 \in Int /\ j \in Int
  BY Widths
<1>3. y \in 0 .. m - 1 /\ y \in Int
  BY <1>1 DEF Words
<1>4. y % m = y
  BY <1>3, DivSmall, Zenon
<1>5. S32(y) = IF y >= h THEN y - m ELSE y
  BY <1>1, <1>4, Zenon DEF S32, U32, Signed
<1>6. PICK z \in Int : z = S32(y)
  BY <1>1, <1>3, <1>5
<1>7. CASE j < WORD32
  <2>1. Min({j, WORD32 - 1}) = j
    BY <1>2, <1>7, MinTwo
  <2>2. z % m = y % m
    <3>1. PICK k \in {-1, 0} : z = y + k * m
      BY <1>1, <1>3, <1>5, <1>6
    <3>2. k \in Int
      OBVIOUS
    <3> QED
      BY <1>3, <3>1, <3>2, ModEqual, Zenon
  <2>3. Bit(z % 2^WORD32, j) = Bit(z, j) /\ Bit(y % 2^WORD32, j) = Bit(y, j)
    BY <1>2, <1>3, <1>7, BitBelow, Zenon
  <2> QED
    BY <1>1, <1>6, <2>1, <2>2, <2>3, Zenon
<1>8. CASE ~(j < WORD32)
  <2>1. Min({j, WORD32 - 1}) = WORD32 - 1
    BY <1>2, <1>8, MinTwo
  <2>2. PICK p \in Nat \ {0} : p = 2^j /\ h <= p
    <3>1. WORD32 - 1 <= j
      BY <1>2, <1>8
    <3>2. 2^(WORD32 - 1) <= 2^j
      BY <1>2, <3>1, PowLe, Zenon
    <3>3. 2^j \in Nat \ {0}
      BY PowCounts
    <3> QED
      BY <1>1, <3>2, <3>3
  <2>3. CASE y >= h
    <3>1. PICK r \in 0 .. p - 1 : r = z + p
      BY <1>1, <1>3, <1>5, <1>6, <2>2, <2>3
    <3>2. z = (-1) * p + r /\ -1 \in Int
      BY <3>1
    <3>3. z \div p = -1
      BY <3>2, DivUnique, Zenon
    <3>4. PICK s \in 0 .. h - 1, one \in Int : one = 1 /\ y = h + s
      BY <1>1, <1>3, <2>3
    <3>5. y = one * h + s
      <4>1. one * h = h
        BY <3>4
      <4> QED
        BY <3>4, <4>1, Zenon
    <3>6. y \div h = 1
      BY <3>4, <3>5, DivUnique, Zenon
    <3>7. PICK u \in Int : u = -1 /\ u % 2 = 1
      <4>1. PICK u \in Int, two \in Nat \ {0} : u = -1 /\ two = 2 /\ u = u * two + 1
        <5>1. -1 \in Int /\ 2 \in Nat \ {0} /\ -1 = (-1) * 2 + 1
          OBVIOUS
        <5> QED
          BY <5>1
      <4>2. PICK rest \in 0 .. two - 1 : rest = 1
        BY <4>1
      <4>3. u = u * two + rest
        BY <4>1, <4>2, Zenon
      <4>4. u % two = rest
        BY <4>3, DivUnique, Zenon
      <4> QED
        BY <4>1, <4>2, <4>4, Zenon
    <3>8. 1 % 2 = 1
      BY SMT
    <3> QED
      BY <1>1, <1>6, <2>1, <2>2, <3>3, <3>6, <3>7, <3>8, Zenon DEF Bit
  <2>4. CASE ~(y >= h)
    <3>1. z \in 0 .. p - 1 /\ y \in 0 .. h - 1
      BY <1>3, <1>5, <1>6, <2>2, <2>4
    <3>2. z \div p = 0
      BY <3>1, DivSmall, Zenon
    <3>3. y \div h = 0
      BY <3>1, DivSmall, Zenon
    <3> QED
      BY <1>1, <1>6, <2>1, <2>2, <3>2, <3>3, Zenon DEF Bit
  <2> QED
    BY <2>3, <2>4
<1> QED
  BY <1>7, <1>8

\* Packing takes the named halves.
LEMMA Packing ==
  ASSUME NEW x \in Words, NEW y \in Words, NEW n \in 0 .. WORD32 - 1
  PROVE  /\ Digit(PKHBT(x, y, n), HALF, 0) = Digit(x, HALF, 0)
         /\ Digit(PKHTB(x, y, n), HALF, 1) = Digit(x, HALF, 1)
         /\ \A i \in HALF .. WORD32 - 1 :
              Digit(PKHBT(x, y, n), 1, i) = IF i < n THEN 0 ELSE Digit(y, 1, i - n)
         /\ \A i \in 0 .. HALF - 1 :
              Digit(PKHTB(x, y, n), 1, i) = Digit(y, 1, Min({i + n, WORD32 - 1}))
<1>1. PICK m \in Nat \ {0} : m = 2^HALF
  BY Widths, PowHalf
<1>2. PICK p \in Nat \ {0} : p = 2^n
  <2>1. n \in Nat
    BY Widths
  <2> QED
    BY <2>1, PowCounts
<1>3. x \in Int /\ y \in Int
  BY WordsAreInts
<1>4. PICK v \in Words : v = U32(y * p)
  <2>1. PICK z \in Int : z = y * p
    BY <1>3, Products
  <2>2. PICK w \in Nat \ {0} : w = 2^WORD32
    BY Widths, PowHalf
  <2>3. z % w \in 0 .. w - 1
    BY DivParts
  <2> QED
    BY <2>1, <2>2, <2>3, Zenon DEF U32, Words
<1>5. /\ Digit(v, HALF, 1) = v \div m /\ v \div m \in 0 .. m - 1
  BY <1>1, WordOfHalves
<1>6. /\ Digit(x, HALF, 0) = x % m /\ Digit(x, HALF, 1) = x \div m /\ x % m \in 0 .. m - 1 /\ x \div m \in 0 .. m - 1
  BY <1>1, WordOfHalves
<1>7. PICK h \in 0 .. m - 1, l \in 0 .. m - 1, k \in 0 .. m - 1 : h = x \div m /\ l = x % m /\ k = v \div m
  BY <1>5, <1>6
<1>8. h % m = h /\ l % m = l /\ k % m = k
  <2>1. h % m = h
    BY DivSmall, Zenon
  <2>2. l % m = l
    BY DivSmall, Zenon
  <2>3. k % m = k
    BY DivSmall, Zenon
  <2> QED
    BY <2>1, <2>2, <2>3
<1>9. HighPart(v) = k * m
  <2>1. v \in Int
    BY WordsAreInts
  <2> QED
    BY <1>1, <1>7, <2>1, HighIs, Zenon
<1>10. HighPart(x) = h * m
  BY <1>1, <1>3, <1>7, HighIs, Zenon
<1>11. PKHBT(x, y, n) = Two(k, l)
  <2>1. PKHBT(x, y, n) = l + k * m
    BY <1>1, <1>2, <1>4, <1>7, <1>9, Zenon DEF PKHBT
  <2>2. Two(k, l) = k * m + l
    BY <1>1, <1>8, Zenon DEF Two
  <2>3. k * m \in Int /\ l \in Int
    BY Products
  <2> QED
    BY <2>1, <2>2, <2>3
<1>12. PICK e \in Int : e = S32(y) \div p
  <2>1. PICK h2 \in Nat \ {0} : h2 = 2^(WORD32 - 1)
    BY Widths, PowHalf
  <2>2. S32(y) \in -h2 .. h2 - 1
    BY <1>3, <2>1, S32Type
  <2>3. PICK z \in Int : z = S32(y)
    BY <2>2
  <2> QED
    BY <2>3, DivParts
<1>13. PKHTB(x, y, n) = Two(h, e)
  BY <1>1, <1>2, <1>8, <1>10, <1>12, Zenon DEF PKHTB, Two
<1>14. k \in Int /\ l \in Int /\ h \in Int
  OBVIOUS
<1>15. Digit(Two(k, l), HALF, 0) = l % m /\ Digit(Two(k, l), HALF, 1) = k % m
  BY <1>1, <1>14, TwoLanes
<1>16. Digit(Two(h, e), HALF, 1) = h % m
  BY <1>1, <1>14, TwoLanes
<1>17. ASSUME NEW i \in HALF .. WORD32 - 1
       PROVE  Digit(PKHBT(x, y, n), 1, i) = IF i < n THEN 0 ELSE Digit(y, 1, i - n)
  <2>1. n \in Nat /\ i \in Nat /\ WORD32 \in Nat /\ i < WORD32
    BY Widths
  <2>2. PICK j \in Nat : i = HALF + j
    BY Widths
  <2>3. PICK w \in Int : w = PKHBT(x, y, n)
    <3>1. k * m \in Int
      BY Products
    <3>2. Two(k, l) = k * m + l
      BY <1>1, <1>8, Zenon DEF Two
    <3>3. Two(k, l) \in Int
      BY <3>1, <3>2
    <3> QED
      BY <1>11, <3>3
  <2>4. Bit(w, i) = Bit(v, i)
    <3>1. w \div m = k /\ v \div m = k
      <4>1. w = k * m + l
        BY <1>1, <1>8, <1>11, <2>3, Zenon DEF Two
      <4> QED
        BY <1>7, <1>14, <4>1, DivUnique, Zenon
    <3>2. v \in Int /\ HALF \in Nat
      BY WordsAreInts, Widths
    <3>3. Bit(w, HALF + j) = Bit(w \div 2^HALF, j)
      BY <3>2, BitAbove, Zenon
    <3>4. Bit(v, HALF + j) = Bit(v \div 2^HALF, j)
      BY <3>2, BitAbove, Zenon
    <3> QED
      BY <1>1, <2>2, <3>1, <3>3, <3>4, Zenon
  <2>5. Bit(v, i) = Bit(y * p, i)
    <3>1. y * p \in Int
      BY <1>3, Products
    <3> QED
      BY <1>4, <2>1, <3>1, BitBelow, Zenon DEF U32
  <2>6. CASE i < n
    <3>1. Bit(y * p, i) = 0
      BY <1>2, <1>3, <2>1, <2>6, BitUp, Zenon
    <3> QED
      BY <2>1, <2>3, <2>4, <2>5, <2>6, <3>1, BitIsDigit, Zenon
  <2>7. CASE ~(i < n)
    <3>1. i >= n /\ i - n \in Nat
      BY <2>1, <2>7
    <3>2. Bit(y * p, i) = Bit(y, i - n)
      BY <1>2, <1>3, <2>1, <3>1, BitUp, Zenon
    <3> QED
      BY <2>1, <2>3, <2>4, <2>5, <2>7, <3>1, <3>2, BitIsDigit, Zenon
  <2> QED
    BY <2>6, <2>7
<1>18. ASSUME NEW i \in 0 .. HALF - 1
       PROVE  Digit(PKHTB(x, y, n), 1, i) = Digit(y, 1, Min({i + n, WORD32 - 1}))
  <2>1. n \in Nat /\ i \in Nat /\ HALF \in Nat /\ i < HALF /\ i + n \in Nat
    BY Widths
  <2>2. PICK j \in Nat : j = Min({i + n, WORD32 - 1})
    <3>1. WORD32 - 1 \in Nat
      BY Widths
    <3>2. Min({i + n, WORD32 - 1}) \in {i + n, WORD32 - 1}
      BY <2>1, <3>1, MinTwo
    <3> QED
      BY <2>1, <3>1, <3>2
  <2>3. PICK w \in Int : w = PKHTB(x, y, n) /\ w = h * m + (e % m)
    <3>1. e % m \in 0 .. m - 1 /\ h * m \in Int
      BY DivParts, Products
    <3>2. Two(h, e) = h * m + (e % m)
      BY <1>1, <1>8, Zenon DEF Two
    <3>3. h * m + (e % m) \in Int
      BY <3>1
    <3> QED
      BY <1>13, <3>2, <3>3
  <2>4. w % m = e % m
    <3>1. e % m \in 0 .. m - 1
      BY DivParts
    <3>2. PICK r \in 0 .. m - 1 : r = e % m
      BY <3>1
    <3>3. w = h * m + r
      BY <2>3, <3>2, Zenon
    <3>4. w % m = r
      BY <1>14, <3>3, DivUnique, Zenon
    <3> QED
      BY <3>2, <3>4, Zenon
  <2>5. Bit(w, i) = Bit(e, i)
    <3>1. Bit(w % 2^HALF, i) = Bit(w, i)
      BY <2>1, BitBelow, Zenon
    <3>2. Bit(e % 2^HALF, i) = Bit(e, i)
      BY <2>1, BitBelow, Zenon
    <3> QED
      BY <1>1, <2>4, <3>1, <3>2, Zenon
  <2>6. Bit(e, i) = Bit(S32(y), i + n)
    <3>1. PICK z \in Int : z = S32(y)
      <4>1. PICK h2 \in Nat \ {0} : h2 = 2^(WORD32 - 1)
        BY Widths, PowHalf
      <4>2. S32(y) \in -h2 .. h2 - 1
        BY <1>3, <4>1, S32Type
      <4> QED
        BY <4>2
    <3>2. Bit(z \div 2^n, i) = Bit(z, i + n)
      BY <2>1, BitDown, Zenon
    <3> QED
      BY <1>2, <1>12, <3>1, <3>2, Zenon
  <2>7. Bit(S32(y), i + n) = Bit(y, Min({i + n, WORD32 - 1}))
    BY <2>1, SignBits, Zenon
  <2>8. Digit(w, 1, i) = Bit(w, i)
    BY <2>1, BitIsDigit, Zenon
  <2>9. Digit(y, 1, j) = Bit(y, j)
    BY BitIsDigit, Zenon
  <2> QED
    BY <2>2, <2>3, <2>5, <2>6, <2>7, <2>8, <2>9, Zenon
<1> QED
  BY <1>6, <1>7, <1>8, <1>11, <1>13, <1>15, <1>16, <1>17, <1>18, Zenon

\* The rounds of the loop of __RBIT.
LEMMA ReversedSteps ==
  ASSUME NEW v \in Int
  PROVE  /\ Reversed(v)[0] = v
         /\ \A k \in 1 .. WORD32 : Reversed(v)[k] = U32(2 * Reversed(v)[k - 1]) + ((v \div 2^k) % 2)
         /\ \A k \in 0 .. WORD32 : Reversed(v)[k] \in Int
<1> DEFINE n == WORD32
           Step(x, k) == U32(2 * x) + ((v \div 2^k) % 2)
           F == [p \in (1 .. n) \X Int |-> Step(p[2], p[1])]
<1>0. n \in Nat
  BY Widths
<1>1. ASSUME NEW k \in 1 .. n, NEW x \in Int PROVE Step(x, k) \in Int
  <2>1. PICK m \in Nat \ {0} : m = 2^WORD32
    BY Widths, PowHalf
  <2>2. PICK y \in Int : y = 2 * x
    OBVIOUS
  <2>3. y % m \in Int
    BY DivParts
  <2>4. k \in Nat
    BY <1>0
  <2>5. Bit(v, k) \in 0 .. 1
    BY <2>4, BitType
  <2>6. Step(x, k) = (y % m) + Bit(v, k)
    BY <2>1, <2>2, Zenon DEF U32, Bit
  <2> QED
    BY <2>3, <2>5, <2>6
<1> HIDE DEF Step
<1>2. F \in [(1 .. n) \X Int -> Int]
  BY <1>1
<1>3. \A k \in 1 .. n, x \in Int : F[<<k, x>>] = Step(x, k)
  OBVIOUS
<1> HIDE DEF F
<1>4. PICK g \in [0 .. n -> Int] : g[0] = v /\ \A k \in 1 .. n : g[k] = F[<<k, g[k - 1]>>]
  <2> HIDE DEF n
  <2>1. PICK m \in Nat : m = n
    BY <1>0
  <2>2. PICK G \in [(1 .. m) \X Int -> Int] : G = F
    BY <1>2, <2>1
  <2>3. \E g \in [0 .. m -> Int] : StepByStep(g, m, v, G)
    BY Recursion
  <2> QED
    BY <2>1, <2>2, <2>3 DEF StepByStep
<1> HIDE DEF n
<1>5. \A k \in 1 .. n : g[k - 1] \in Int /\ g[k] = Step(g[k - 1], k)
  <2> TAKE k \in 1 .. n
  <2>1. k - 1 \in 0 .. n
    BY <1>0
  <2>2. g[k - 1] \in Int
    BY <2>1
  <2> QED
    BY <2>2, <1>3, <1>4
<1>6. g = [k \in 0 .. n |-> IF k = 0 THEN v ELSE Step(g[k - 1], k)]
  <2>1. \A k \in 0 .. n : g[k] = IF k = 0 THEN v ELSE Step(g[k - 1], k)
    BY <1>0, <1>4, <1>5
  <2> QED
    BY <2>1
<1> DEFINE w == Reversed(v)
<1>7. w = [k \in 0 .. n |-> IF k = 0 THEN v ELSE Step(w[k - 1], k)]
  BY <1>6 DEF Reversed, Step, n
<1>8. w[0] = v /\ \A k \in 1 .. n : w[k] = Step(w[k - 1], k)
  <2> HIDE DEF w
  <2> QED
    BY <1>0, <1>7
<1>9. \A k \in 0 .. n : w[k] \in Int
  <2> HIDE DEF w
  <2> DEFINE T == {k \in 0 .. n : w[k] \in Int}
  <2>1. T \in SUBSET (0 .. n)
    OBVIOUS
  <2>2. 0 \in T
    BY <1>0, <1>8
  <2>3. ASSUME NEW k \in 1 .. n, k - 1 \in T PROVE k \in T
    <3>1. w[k - 1] \in Int
      BY <2>3
    <3>2. Step(w[k - 1], k) \in Int
      BY <1>1, <3>1
    <3>3. w[k] = Step(w[k - 1], k)
      BY <1>8
    <3> QED
      BY <1>0, <3>2, <3>3
  <2> HIDE DEF T
  <2>4. T = 0 .. n
    BY <1>0, <2>1, <2>2, <2>3, Along
  <2> QED
    BY <2>4 DEF T
<1> QED
  BY <1>8, <1>9 DEF Step, n

\* After k rounds the low k + 1 bits are the bits 0 to k in reverse.
Mirrored(v, k) == \A i \in 0 .. k : Bit(Reversed(v)[k], i) = Bit(v, k - i)

\* It holds after every round.
LEMMA MirrorSteps ==
  ASSUME NEW v \in Int, NEW n \in 0 .. WORD32 - 1
  PROVE  Mirrored(v, n)
<1> DEFINE T == {k \in 0 .. n : Mirrored(v, k)}
<1>0. n \in Nat /\ n <= WORD32 - 1 /\ WORD32 \in Nat \ {0}
  BY Widths
<1>1. T \in SUBSET (0 .. n)
  OBVIOUS
<1>2. 0 \in T
  <2>1. ASSUME NEW i \in 0 .. 0 PROVE Bit(Reversed(v)[0], i) = Bit(v, 0 - i)
    <3>1. i = 0 /\ 0 - 0 = 0
      OBVIOUS
    <3> QED
      BY <3>1, ReversedSteps
  <2>2. Mirrored(v, 0)
    BY <2>1 DEF Mirrored
  <2> QED
    BY <1>0, <2>2
<1>3. ASSUME NEW k \in 1 .. n, k - 1 \in T PROVE k \in T
  <2>1. k \in 1 .. WORD32 /\ k - 1 \in 0 .. WORD32 /\ k \in Nat /\ k <= WORD32 - 1
    BY <1>0
  <2>2. PICK y \in Int : y = Reversed(v)[k - 1]
    BY <2>1, ReversedSteps
  <2>3. PICK b \in 0 .. 1 : b = Bit(v, k)
    BY <2>1, BitType
  <2>4. Reversed(v)[k] = U32(2 * y) + b
    BY <2>1, <2>2, <2>3, ReversedSteps DEF Bit
  <2>5. PICK h \in Nat \ {0}, m \in Nat \ {0} : h = 2^(WORD32 - 1) /\ m = 2^WORD32 /\ m = 2 * h
    BY <1>0, PowHalf
  <2>6. PICK e \in Int : e = y % h
    <3>1. y % h \in 0 .. h - 1
      BY DivParts
    <3> QED
      BY <3>1
  <2>7. U32(2 * y) = e * 2
    <3>1. PICK two \in Nat \ {0} : two = 2
      OBVIOUS
    <3>2. (y * two) % (h * two) = (y % h) * two
      BY ModFactor, Zenon
    <3>3. 2 * y = y * two /\ m = h * two
      BY <2>5, <3>1
    <3> QED
      BY <2>5, <2>6, <3>1, <3>2, <3>3, Zenon DEF U32
  <2>8. PICK x \in Int : x = Reversed(v)[k] /\ x = e * 2 + b
    BY <2>4, <2>7
  <2>9. x % 2 = b /\ x \div 2 = e
    BY <2>8
  <2>10. ASSUME NEW i \in 0 .. k PROVE Bit(x, i) = Bit(v, k - i)
    <3>1. CASE i = 0
      <4>1. x \div 1 = x /\ k - 0 = k
        BY <2>1
      <4> QED
        BY <2>3, <2>9, <3>1, <4>1, PowZero, Zenon DEF Bit
    <3>2. CASE i # 0
      <4>1. PICK j \in Nat : j = i - 1 /\ i = j + 1 /\ j \in 0 .. k - 1 /\ j < WORD32 - 1 /\ (k - 1) - j = k - i
        BY <1>0, <2>1, <3>2
      <4>2. PICK p \in Nat \ {0}, two \in Nat \ {0} : p = 2^j /\ two = 2
        <5>1. 2^j \in Nat \ {0}
          BY PowCounts
        <5>2. 2 \in Nat \ {0}
          OBVIOUS
        <5> QED
          BY <5>1, <5>2, Zenon
      <4>3. 2^i = p * two
        <5>1. 2^(j + 1) = 2 * 2^j
          BY PowNext
        <5>2. 2 * p = p * two
          BY <4>2
        <5> QED
          BY <4>1, <4>2, <5>1, <5>2, Zenon
      <4>4. x \div (p * two) = (x \div two) \div p
        BY DivOfDiv, Zenon
      <4>5. Bit(x, i) = Bit(e, j)
        BY <2>9, <4>2, <4>3, <4>4, Zenon DEF Bit
      <4>6. Bit(e, j) = Bit(y, j)
        <5>1. WORD32 - 1 \in Nat
          BY <1>0
        <5>2. Bit(y % 2^(WORD32 - 1), j) = Bit(y, j)
          BY <4>1, <5>1, BitBelow, Zenon
        <5> QED
          BY <2>5, <2>6, <5>2, Zenon
      <4>7. Bit(y, j) = Bit(v, (k - 1) - j)
        BY <1>3, <2>2, <4>1, Zenon DEF Mirrored
      <4> QED
        BY <4>1, <4>5, <4>6, <4>7, Zenon
    <3> QED
      BY <3>1, <3>2
  <2>11. Mirrored(v, k)
    BY <2>8, <2>10, Zenon DEF Mirrored
  <2> QED
    BY <1>0, <2>11
<1> HIDE DEF T
<1>4. T = 0 .. n
  BY <1>0, <1>1, <1>2, <1>3, Along
<1>5. n \in T
  BY <1>0, <1>4
<1> QED
  BY <1>5 DEF T

\* The bits above the last round are zeros.
LEMMA RoundsIs ==
  ASSUME NEW x \in Words
  PROVE  /\ Rounds(x) \in 0 .. WORD32 - 1
         /\ \A i \in Nat : i > Rounds(x) => Bit(x, i) = 0
<1> DEFINE S == {k \in 0 .. WORD32 - 1 : x \div 2^(k + 1) = 0}
<1>0. WORD32 \in Nat \ {0} /\ WORD32 - 1 \in 0 .. WORD32 - 1 /\ (WORD32 - 1) + 1 = WORD32 /\ x \in Int
  BY Widths, WordsAreInts
<1>1. S \in SUBSET Nat
  BY <1>0
<1>2. WORD32 - 1 \in S
  <2>1. PICK m \in Nat \ {0} : m = 2^WORD32
    BY <1>0, PowHalf
  <2>2. x \in 0 .. m - 1
    BY <2>1 DEF Words
  <2>3. x \div m = 0
    BY <2>2, DivSmall, Zenon
  <2> QED
    BY <1>0, <2>1, <2>3, Zenon
<1>3. Rounds(x) = Min(S)
  BY DEF Rounds
<1> HIDE DEF S
<1>4. Rounds(x) \in S
  BY <1>1, <1>2, <1>3, MinIsLeast
<1>5. PICK n \in 0 .. WORD32 - 1 : n = Rounds(x) /\ x \div 2^(n + 1) = 0
  BY <1>4 DEF S
<1>6. ASSUME NEW i \in Nat, i > n PROVE Bit(x, i) = 0
  <2>1. n + 1 \in Nat /\ n + 1 <= i
    BY <1>0, <1>6
  <2>2. PICK p \in Nat \ {0} : p = 2^(n + 1)
    BY <2>1, PowCounts
  <2>3. PICK t \in Nat \ {0} : 2^i = p * t
    BY <2>1, <2>2, PowDivides
  <2>4. p * t = t * p
    BY SMT
  <2>5. x \div (t * p) = (x \div p) \div t
    BY <1>0, DivOfDiv, Zenon
  <2>6. 0 \div t = 0 /\ 0 % 2 = 0
    BY SMT
  <2> QED
    BY <1>5, <2>2, <2>3, <2>4, <2>5, <2>6, Zenon DEF Bit
<1> QED
  BY <1>5, <1>6

\* __RBIT sends every bit to its mirror place.
LEMMA BitsReversed ==
  ASSUME NEW x \in Words, NEW i \in 0 .. WORD32 - 1
  PROVE  Digit(RBIT(x), 1, i) = Digit(x, 1, WORD32 - 1 - i)
<1>0. WORD32 \in Nat \ {0} /\ x \in Int /\ WORD32 \in Nat
  BY Widths, WordsAreInts
<1>1. PICK n \in 0 .. WORD32 - 1 : n = Rounds(x)
  BY RoundsIs
<1>2. n \in 0 .. WORD32
  BY <1>0
<1>3. PICK y \in Int : y = Reversed(x)[n]
  BY <1>0, <1>2, ReversedSteps
<1>4. PICK s \in Nat : s = WORD32 - 1 - n
  BY <1>0
<1>5. PICK p \in Nat \ {0} : p = 2^s
  BY PowCounts
<1>6. PICK z \in Int : z = y * p
  BY Products
<1>7. RBIT(x) = z % 2^WORD32
  BY <1>1, <1>3, <1>4, <1>5, <1>6, Zenon DEF RBIT, U32
<1>8. PICK j \in Nat : j = WORD32 - 1 - i
  BY <1>0
<1>9. i \in Nat /\ i < WORD32
  BY <1>0
<1>10. Bit(RBIT(x), i) = Bit(z, i)
  <2>1. WORD32 \in Nat
    BY <1>0
  <2>2. Bit(z % 2^WORD32, i) = Bit(z, i)
    BY <1>9, <2>1, BitBelow, Zenon
  <2> QED
    BY <1>7, <2>2, Zenon
<1>11. Bit(z, i) = Bit(x, j)
  <2>1. CASE i < s
    <3>1. Bit(y * 2^s, i) = 0
      BY <1>9, <2>1, BitUp, Zenon
    <3>2. j > n
      BY <1>0, <1>4, <1>8, <1>9, <2>1
    <3>3. Bit(x, j) = 0
      BY <1>1, <3>2, RoundsIs
    <3> QED
      BY <1>5, <1>6, <3>1, <3>3, Zenon
  <2>2. CASE ~ i < s
    <3>1. i >= s
      BY <1>9, <2>2
    <3>2. Bit(y * 2^s, i) = Bit(y, i - s)
      BY <1>9, <3>1, BitUp, Zenon
    <3>3. PICK k \in 0 .. n : k = i - s /\ n - k = j
      BY <1>0, <1>4, <1>8, <1>9, <3>1
    <3>4. Mirrored(x, n)
      BY <1>0, MirrorSteps
    <3>5. Bit(y, k) = Bit(x, n - k)
      BY <1>3, <3>4, Zenon DEF Mirrored
    <3> QED
      BY <1>5, <1>6, <3>2, <3>3, <3>5, Zenon
  <2> QED
    BY <2>1, <2>2
<1> QED
  BY <1>8, <1>9, <1>10, <1>11, BitIsDigit, Zenon

\* The last part of IntrinsicsExact.
LEMMA MovesExactly ==
  ASSUME opX \in Words, opY \in Words
  PROVE  MovesExact
<1>1. \A i \in 0 .. WORD32 - 1 : Digit(RBIT(opX), 1, i) = Digit(opX, 1, WORD32 - 1 - i)
  BY BitsReversed
<1>2. \A n \in 1 .. WORD32 - 1 : ROR(ROR(opX, n), WORD32 - n) = opX
  BY Rotations
<1>3. \A n \in 0 .. WORD32 - 1 :
       /\ Digit(PKHBT(opX, opY, n), HALF, 0) = Digit(opX, HALF, 0)
       /\ Digit(PKHTB(opX, opY, n), HALF, 1) = Digit(opX, HALF, 1)
       /\ \A i \in HALF .. WORD32 - 1 :
            Digit(PKHBT(opX, opY, n), 1, i) = IF i < n THEN 0 ELSE Digit(opY, 1, i - n)
       /\ \A i \in 0 .. HALF - 1 :
            Digit(PKHTB(opX, opY, n), 1, i) = Digit(opY, 1, Min({i + n, WORD32 - 1}))
  BY Packing
<1>4. SXTAB16(opY, opX) = SADD16(opY, SXTB16(opX)) /\ UXTAB16(opY, opX) = UADD16(opY, UXTB16(opX))
  BY Accumulates
<1> QED
  BY <1>1, <1>2, <1>3, <1>4, Reversals, Extensions DEF MovesExact, RRX

\* The operands are words, in every state.
SimdTypeOK == opX \in Words /\ opY \in Words

\* Every operand of an evaluation is a word.
LEMMA OperandsAreWords == SimdSpec => []SimdTypeOK
<1>0. 0 \in Words
  <2>1. PICK m \in Nat \ {0} : m = 2^WORD32
    BY Widths, PowHalf
  <2>2. 0 \in 0 .. m - 1
    OBVIOUS
  <2> QED
    BY <2>1, <2>2, Zenon DEF Words
<1>1. XWords \subseteq Words /\ YWords \subseteq Words
  BY SimdAssumption DEF SimdAssumption, Words, WORD32
<1>2. SimdInit => SimdTypeOK
  BY <1>0 DEF SimdInit, SimdTypeOK
<1>3. SimdTypeOK /\ [SimdNext]_simdVars => SimdTypeOK'
  BY <1>0, <1>1 DEF SimdTypeOK, SimdNext, Operands, Again, simdVars
<1> QED
  BY <1>2, <1>3, PTL DEF SimdSpec

\* csi_rv32_gcc.h: whatever the two operands, and whatever the width of a byte,
\* the saturating operations yield the nearest value, the modular and halving
\* ones and the products the exact one, and the moves put every bit where it
\* belongs, for each operand and shift that C defines; what USAT16, USAD8, the
\* 64-bit products and RRX yield where their comments say otherwise is part of it.
THEOREM IntrinsicsAreExact == SimdSpec => []IntrinsicsExact
<1>1. SimdTypeOK => IntrinsicsExact
  <2> SUFFICES ASSUME opX \in Words, opY \in Words PROVE IntrinsicsExact
    BY DEF SimdTypeOK
  <2>1. SaturatesToNearest /\ LanesExact
    BY Saturates, LanesExactly
  <2>2. ProductsExact /\ MovesExact
    BY ProductsExactly, MovesExactly
  <2> QED
    BY <2>1, <2>2, Zenon DEF IntrinsicsExact
<1> QED
  BY <1>1, OperandsAreWords, PTL
=============================================================================
