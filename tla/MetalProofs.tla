---------------------------- MODULE MetalProofs -----------------------------
(***************************************************************************)
(* Proofs about libmetal's interrupt numbers, the remote system calls,     *)
(* libmetal's I/O regions and the heap, for every set of controllers,      *)
(* calls, regions and sizes.                                               *)
(***************************************************************************)
EXTENDS Rpc, MetalIrq, MetalIo, NutHeap, SequenceLemmas

(***************************************************************************)
(* Interrupt numbers.                                                      *)
(***************************************************************************)
ListInv ==
  /\ irqCntrs \in Seq(AllControllers)
  /\ \A j, k \in 1 .. Len(irqCntrs) : irqCntrs[j] = irqCntrs[k] => j = k
  /\ irqBase \in [AllControllers -> Nat \cup {METAL_IRQ_ANY}]
  /\ \A k \in 1 .. Len(irqCntrs) : irqBase[irqCntrs[k]] \in Nat /\ Num(irqCntrs[k]) > 0

\* A list in the order of its bases leaves no two ranges overlapping.
RangesInOrder ==
  SortedByBase => \A j, k \in 1 .. Len(irqCntrs) :
                    j < k => irqBase[irqCntrs[j]] + Num(irqCntrs[j]) <= irqBase[irqCntrs[k]]

\* What metal_softirq_allocate has handed out lies below softAvail.
BlocksInv ==
  /\ softAvail \in Nat /\ (softAvail = 0 \/ softAvail < SOFTIRQ_NUM)
  /\ blocks # {} => SoftReady
  /\ \A b \in blocks : /\ b \subseteq irqBase[SoftCntr] .. irqBase[SoftCntr] + softAvail - 1
                       /\ \A c \in blocks : b = c \/ b \cap c = {}

IrqInv == ListInv /\ RangesInOrder /\ BlocksInv

\* Every controller, the software one included, has a number of interrupts.
LEMMA NumType == ASSUME NEW c \in AllControllers PROVE Num(c) \in Nat
  BY IrqAssumption DEF IrqAssumption, Num, AllControllers

\* A controller is on the list when it is at some place of it.
LEMMA ListedIs ==
  ASSUME NEW s, NEW c
  PROVE  Contains(s, c) <=> \E k \in 1 .. Len(s) : s[k] = c
  BY DEF Contains

\* Nothing is registered at the start.
LEMMA IrqInvInit == IrqInit => IrqInv
<1> SUFFICES ASSUME IrqInit PROVE IrqInv
  OBVIOUS
<1>1. irqCntrs = <<>> /\ Len(irqCntrs) = 0
  BY DEF IrqInit
<1>2. irqBase \in [AllControllers -> Nat \cup {METAL_IRQ_ANY}]
  BY IrqAssumption DEF IrqInit, IrqAssumption, AllControllers
<1>3. ListInv
  BY <1>1, <1>2 DEF ListInv
<1>4. RangesInOrder
  BY <1>1 DEF RangesInOrder
<1>5. BlocksInv
  BY DEF IrqInit, BlocksInv
<1> QED
  BY <1>3, <1>4, <1>5 DEF IrqInv

\* The walk is what its turns make it.
LEMMA WalkFacts ==
  ASSUME ListInv, NEW base \in Nat \cup {METAL_IRQ_ANY}, NEW num \in Nat
  PROVE  LET w == AllocateWalk(base, num)
         IN  /\ w[0] = IF base = METAL_IRQ_ANY THEN 0 ELSE base
             /\ \A k \in 1 .. Len(irqCntrs) : w[k] = AllocateStep(w[k - 1], base, num, irqCntrs[k])
             /\ \A k \in 0 .. Len(irqCntrs) : w[k] \in Nat \cup {METAL_IRQ_ANY}
<1> DEFINE V == Nat \cup {METAL_IRQ_ANY}
           n == Len(irqCntrs)
           x0 == IF base = METAL_IRQ_ANY THEN 0 ELSE base
           Step(v, k) == AllocateStep(v, base, num, irqCntrs[k])
           F == [p \in (1 .. n) \X V |-> Step(p[2], p[1])]
<1>0. n \in Nat
  BY DEF ListInv
<1>1. x0 \in V
  OBVIOUS
<1>2. \A k \in 1 .. n, v \in V : Step(v, k) \in V
  <2> TAKE k \in 1 .. n, v \in V
  <2>1. irqBase[irqCntrs[k]] \in Nat /\ irqCntrs[k] \in AllControllers
    BY DEF ListInv
  <2>2. irqBase[irqCntrs[k]] + Num(irqCntrs[k]) \in Nat
    BY <2>1, NumType
  <2> QED
    BY <2>2 DEF AllocateStep
<1> HIDE DEF Step
<1>3. F \in [(1 .. n) \X V -> V]
  BY <1>2
<1>4. \A k \in 1 .. n, v \in V : F[<<k, v>>] = Step(v, k)
  OBVIOUS
<1> HIDE DEF F
<1>5. PICK g \in [0 .. n -> V] : g[0] = x0 /\ \A k \in 1 .. n : g[k] = F[<<k, g[k - 1]>>]
  <2> HIDE DEF V, n, x0
  <2>1. PICK m \in Nat : m = n
    BY <1>0
  <2>2. PICK G \in [(1 .. m) \X V -> V] : G = F
    BY <1>3, <2>1
  <2>3. PICK y \in V : y = x0
    BY <1>1
  <2>4. \E g \in [0 .. m -> V] : StepByStep(g, m, y, G)
    BY Recursion
  <2> QED
    BY <2>1, <2>2, <2>3, <2>4 DEF StepByStep
<1>6. \A k \in 1 .. n : g[k - 1] \in V /\ g[k] = Step(g[k - 1], k)
  <2> TAKE k \in 1 .. n
  <2> HIDE DEF V
  <2>1. g[k - 1] \in V
    BY <1>0, <1>5
  <2> QED
    BY <2>1, <1>4, <1>5
<1>7. g = [k \in 0 .. n |-> IF k = 0 THEN x0 ELSE Step(g[k - 1], k)]
  BY <1>0, <1>5, <1>6
<1> DEFINE w == AllocateWalk(base, num)
<1>8. w = [k \in 0 .. n |-> IF k = 0 THEN x0 ELSE Step(w[k - 1], k)]
  BY <1>7 DEF AllocateWalk, Step
<1>9. w[0] = x0 /\ \A k \in 1 .. n : w[k] = Step(w[k - 1], k)
  <2> HIDE DEF w
  <2> QED
    BY <1>0, <1>8
<1>10. \A k \in 0 .. n : w[k] \in V
  <2> DEFINE T == {k \in 0 .. n : w[k] \in V}
  <2>1. T \in SUBSET (0 .. n)
    OBVIOUS
  <2> HIDE DEF w
  <2>2. 0 \in T
    BY <1>0, <1>1, <1>9
  <2>3. ASSUME NEW k \in 1 .. n, k - 1 \in T
        PROVE  k \in T
    <3>1. w[k - 1] \in V
      BY <2>3
    <3>2. Step(w[k - 1], k) \in V
      <4> HIDE DEF V
      <4> QED
        BY <3>1, <1>2
    <3>3. w[k] = Step(w[k - 1], k)
      BY <1>9
    <3> QED
      BY <3>2, <3>3, <1>0
  <2> HIDE DEF T
  <2>4. T = 0 .. n
    BY <1>0, <2>1, <2>2, <2>3, Along
  <2> QED
    BY <2>4 DEF T
<1> QED
  BY <1>9, <1>10 DEF Step

\* A range that metal_irq_allocate returns overlaps no controller of the list,
\* if it was declared or the list is in the order of its numbers.
LEMMA Allocated ==
  ASSUME ListInv, RangesInOrder, NEW base \in Nat \cup {METAL_IRQ_ANY}, NEW num \in Nat,
         NEW x, x = IrqAllocate(base, num), x # METAL_IRQ_ANY
  PROVE  /\ x \in Nat /\ num > 0
         /\ base # METAL_IRQ_ANY \/ SortedByBase
              => \A k \in 1 .. Len(irqCntrs) : ~Overlaps(x, num, irqCntrs[k])
<1> DEFINE n == Len(irqCntrs)
           w == AllocateWalk(base, num)
           B(k) == irqBase[irqCntrs[k]]
           E(k) == irqBase[irqCntrs[k]] + Num(irqCntrs[k])
           Off(at, k) == E(k) <= at \/ at + num <= B(k)
<1>0. n \in Nat /\ METAL_IRQ_ANY = -1
  BY DEF ListInv, METAL_IRQ_ANY
<1>1. num > 0 /\ x = w[n]
  BY DEF IrqAllocate
<1>2. /\ w[0] = IF base = METAL_IRQ_ANY THEN 0 ELSE base
      /\ \A k \in 1 .. n : w[k] = AllocateStep(w[k - 1], base, num, irqCntrs[k])
      /\ \A k \in 0 .. n : w[k] \in Nat \cup {METAL_IRQ_ANY}
  BY WalkFacts
<1>3. \A k \in 1 .. n : B(k) \in Nat /\ E(k) \in Nat /\ B(k) < E(k)
  <2> TAKE k \in 1 .. n
  <2>1. irqBase[irqCntrs[k]] \in Nat /\ irqCntrs[k] \in AllControllers /\ Num(irqCntrs[k]) > 0
    BY DEF ListInv
  <2>2. Num(irqCntrs[k]) \in Nat
    BY <2>1, NumType
  <2> QED
    BY <2>1, <2>2
<1>4. \A k \in 1 .. n, at \in Nat : ~Overlaps(at, num, irqCntrs[k]) <=> Off(at, k)
  <2> TAKE k \in 1 .. n, at \in Nat
  <2>1. Overlaps(at, num, irqCntrs[k]) <=> at < E(k) /\ at + num > B(k)
    BY DEF Overlaps
  <2> HIDE DEF B, E
  <2> QED
    BY <2>1, <1>3
<1>5. SortedByBase => \A j, k \in 1 .. n : j <= k => E(j) <= E(k)
  <2> SUFFICES ASSUME SortedByBase, NEW j \in 1 .. n, NEW k \in 1 .. n, j <= k
               PROVE  E(j) <= E(k)
    OBVIOUS
  <2>1. j < k => E(j) <= B(k)
    BY DEF RangesInOrder
  <2> HIDE DEF B, E
  <2> QED
    BY <2>1, <1>3, <1>0
<1>6. \A k \in 1 .. n : LET at == w[k - 1] IN
        /\ at = METAL_IRQ_ANY => w[k] = METAL_IRQ_ANY
        /\ at \in Nat /\ Off(at, k) => w[k] = at
        /\ at \in Nat /\ ~Off(at, k) => w[k] = IF base # METAL_IRQ_ANY THEN METAL_IRQ_ANY ELSE E(k)
  <2> TAKE k \in 1 .. n
  <2>1. w[k] = AllocateStep(w[k - 1], base, num, irqCntrs[k])
    BY <1>2
  <2>2. w[k - 1] \in Nat => w[k - 1] # METAL_IRQ_ANY
    BY <1>0
  <2> HIDE DEF w, Off
  <2> QED
    BY <2>1, <2>2, <1>4 DEF AllocateStep
<1>7. x \in Nat
  BY <1>0, <1>1, <1>2
<1> HIDE DEF w, B, E, n
<1>8. CASE base # METAL_IRQ_ANY
  <2> DEFINE T == {k \in 0 .. n : w[k] = METAL_IRQ_ANY \/ (w[k] = base /\ \A j \in 1 .. k : Off(base, j))}
  <2>0. base \in Nat
    BY <1>8
  <2>1. T \in SUBSET (0 .. n)
    OBVIOUS
  <2>2. 0 \in T
    BY <1>0, <1>2, <1>8
  <2>3. ASSUME NEW k \in 1 .. n, k - 1 \in T
        PROVE  k \in T
    <3>1. CASE w[k - 1] = METAL_IRQ_ANY
      BY <3>1, <1>6, <1>0
    <3>2. CASE w[k - 1] = base /\ \A j \in 1 .. k - 1 : Off(base, j)
      <4>1. CASE Off(base, k)
        <5>1. w[k] = base
          BY <3>2, <4>1, <1>6, <2>0
        <5>2. \A j \in 1 .. k : Off(base, j)
          <6> TAKE j \in 1 .. k
          <6>1. j = k \/ j \in 1 .. k - 1
            BY <1>0
          <6> HIDE DEF Off
          <6> QED
            BY <6>1, <4>1, <3>2
        <5> QED
          BY <5>1, <5>2, <1>0
      <4>2. CASE ~Off(base, k)
        <5>1. w[k] = METAL_IRQ_ANY
          BY <3>2, <4>2, <1>6, <2>0, <1>8
        <5> QED
          BY <5>1, <1>0
      <4> QED
        BY <4>1, <4>2
    <3> QED
      BY <3>1, <3>2, <2>3
  <2> HIDE DEF T
  <2>4. T = 0 .. n
    BY <1>0, <2>1, <2>2, <2>3, Along
  <2>5. n \in T
    BY <2>4, <1>0
  <2>6. \A j \in 1 .. n : Off(x, j)
    BY <2>5, <1>1 DEF T
  <2> HIDE DEF Off
  <2> QED
    BY <2>6, <1>1, <1>4, <1>7 DEF n
<1>9. CASE base = METAL_IRQ_ANY /\ SortedByBase
  <2> DEFINE T == {k \in 0 .. n : w[k] \in Nat /\ \A j \in 1 .. k : Off(w[k], j)}
  <2>1. T \in SUBSET (0 .. n)
    OBVIOUS
  <2>2. 0 \in T
    BY <1>0, <1>2, <1>9
  <2>3. ASSUME NEW k \in 1 .. n, k - 1 \in T
        PROVE  k \in T
    <3>1. PICK at \in Nat : at = w[k - 1] /\ \A j \in 1 .. k - 1 : Off(at, j)
      BY <2>3
    <3>2. CASE Off(at, k)
      <4>1. w[k] = at
        BY <3>1, <3>2, <1>6
      <4>2. \A j \in 1 .. k : Off(at, j)
        <5> TAKE j \in 1 .. k
        <5>1. j = k \/ j \in 1 .. k - 1
          BY <1>0
        <5> HIDE DEF Off
        <5> QED
          BY <5>1, <3>1, <3>2
      <4> QED
        BY <4>1, <4>2, <1>0
    <3>3. CASE ~Off(at, k)
      <4>1. w[k] = E(k) /\ E(k) \in Nat
        BY <3>1, <3>3, <1>6, <1>9, <1>3
      <4>2. \A j \in 1 .. k : E(j) <= E(k)
        BY <1>5, <1>9, <1>0
      <4> QED
        BY <4>1, <4>2, <1>0
    <3> QED
      BY <3>2, <3>3
  <2> HIDE DEF T
  <2>4. T = 0 .. n
    BY <1>0, <2>1, <2>2, <2>3, Along
  <2>5. n \in T
    BY <2>4, <1>0
  <2>6. \A j \in 1 .. n : Off(x, j)
    BY <2>5, <1>1 DEF T
  <2> HIDE DEF Off
  <2> QED
    BY <2>6, <1>1, <1>4, <1>7 DEF n
<1> QED
  BY <1>1, <1>7, <1>8, <1>9

\* A step that registers no controller and hands out no interrupt.
LEMMA IrqQuiet ==
  ASSUME IrqInv, UNCHANGED <<irqCntrs, irqBase, softAvail, blocks>>
  PROVE  IrqInv' /\ RangesDisjoint
<1>1. irqCntrs' = irqCntrs /\ irqBase' = irqBase /\ softAvail' = softAvail /\ blocks' = blocks
  OBVIOUS
<1>2. ListInv'
  BY <1>1 DEF IrqInv, ListInv, Num
<1>3. RangesInOrder'
  BY <1>1 DEF IrqInv, RangesInOrder, SortedByBase, Num
<1>4. BlocksInv'
  BY <1>1 DEF IrqInv, BlocksInv, SoftReady
<1>5. RangesDisjoint
  BY <1>1 DEF RangesDisjoint
<1> QED
  BY <1>2, <1>3, <1>4, <1>5 DEF IrqInv

\* A controller is registered.
LEMMA RegisterStep ==
  ASSUME IrqInv, NEW c \in AllControllers, RegisterController(c)
  PROVE  IrqInv' /\ RangesDisjoint
<1> DEFINE n == Len(irqCntrs)
<1>0. ListInv /\ RangesInOrder /\ BlocksInv /\ n \in Nat /\ irqCntrs \in Seq(AllControllers)
  BY DEF IrqInv, ListInv
<1>1. softAvail' = softAvail /\ blocks' = blocks
  BY DEF RegisterController, softVars
<1>2. PICK x : x = IrqAllocate(irqBase[c], Num(c))
  OBVIOUS
<1>3. CASE Contains(irqCntrs, c) \/ x = METAL_IRQ_ANY
  <2>1. irqCntrs' = irqCntrs /\ irqBase' = irqBase
    BY <1>2, <1>3 DEF RegisterController
  <2> QED
    BY <2>1, <1>1, IrqQuiet
<1>4. CASE ~Contains(irqCntrs, c) /\ x # METAL_IRQ_ANY
  <2>1. irqBase' = [irqBase EXCEPT ![c] = x] /\ irqCntrs' = Append(irqCntrs, c)
    BY <1>2, <1>4 DEF RegisterController
  <2>2. irqBase \in [AllControllers -> Nat \cup {METAL_IRQ_ANY}] /\ irqBase[c] \in Nat \cup {METAL_IRQ_ANY}
    BY <1>0 DEF ListInv
  <2>3. Num(c) \in Nat
    BY NumType
  <2>4. /\ x \in Nat /\ Num(c) > 0
        /\ irqBase[c] # METAL_IRQ_ANY \/ SortedByBase
             => \A k \in 1 .. n : ~Overlaps(x, Num(c), irqCntrs[k])
    <3>1. PICK base \in Nat \cup {METAL_IRQ_ANY} : base = irqBase[c]
      BY <2>2
    <3>2. PICK num \in Nat : num = Num(c)
      BY <2>3
    <3>3. x = IrqAllocate(base, num)
      BY <1>2, <3>1, <3>2
    <3>4. /\ x \in Nat /\ num > 0
          /\ base # METAL_IRQ_ANY \/ SortedByBase
               => \A k \in 1 .. n : ~Overlaps(x, num, irqCntrs[k])
      BY <1>0, <1>4, <3>3, Allocated
    <3> QED
      BY <3>1, <3>2, <3>4
  <2>5. /\ Len(irqCntrs') = n + 1 /\ irqCntrs' \in Seq(AllControllers)
        /\ \A k \in 1 .. n : irqCntrs'[k] = irqCntrs[k]
        /\ irqCntrs'[n + 1] = c
    BY <1>0, <2>1, AppendProperties
  <2>6. \A k \in 1 .. n : irqCntrs[k] # c /\ irqCntrs[k] \in AllControllers
    BY <1>0, <1>4, ListedIs
  <2>7. /\ irqBase' \in [AllControllers -> Nat \cup {METAL_IRQ_ANY}]
        /\ irqBase'[c] = x
        /\ \A k \in 1 .. n : irqBase'[irqCntrs[k]] = irqBase[irqCntrs[k]]
    BY <2>1, <2>2, <2>4, <2>6
  <2>8. \A k \in 1 .. n + 1 : k \in 1 .. n \/ k = n + 1
    BY <1>0
  <2>9. \A k \in 1 .. n : irqBase[irqCntrs[k]] \in Nat /\ Num(irqCntrs[k]) > 0 /\ Num(irqCntrs[k]) \in Nat
    BY <1>0, <2>6, NumType DEF ListInv
  <2>10. ListInv'
    <3>1. \A j, k \in 1 .. Len(irqCntrs') : irqCntrs'[j] = irqCntrs'[k] => j = k
      <4> SUFFICES ASSUME NEW j \in 1 .. n + 1, NEW k \in 1 .. n + 1, irqCntrs'[j] = irqCntrs'[k]
                   PROVE  j = k
        BY <2>5
      <4>1. \A i, l \in 1 .. n : irqCntrs[i] = irqCntrs[l] => i = l
        BY <1>0 DEF ListInv
      <4> QED
        BY <4>1, <2>5, <2>6, <2>8
    <3>2. \A k \in 1 .. Len(irqCntrs') : irqBase'[irqCntrs'[k]] \in Nat /\ Num(irqCntrs'[k]) > 0
      <4> SUFFICES ASSUME NEW k \in 1 .. n + 1
                   PROVE  irqBase'[irqCntrs'[k]] \in Nat /\ Num(irqCntrs'[k]) > 0
        BY <2>5
      <4> QED
        BY <2>4, <2>5, <2>7, <2>8, <2>9
    <3> QED
      BY <3>1, <3>2, <2>5, <2>7 DEF ListInv, Num
  <2>11. RangesInOrder'
    <3> SUFFICES ASSUME SortedByBase', NEW j \in 1 .. n + 1, NEW k \in 1 .. n + 1, j < k
                 PROVE  irqBase'[irqCntrs'[j]] + Num(irqCntrs'[j]) <= irqBase'[irqCntrs'[k]]
      BY <2>5 DEF RangesInOrder, Num
    <3>0. DOMAIN irqCntrs = 1 .. n /\ DOMAIN irqCntrs' = 1 .. n + 1
      BY <1>0, <2>5
    <3>1. \A i, l \in 1 .. n + 1 : i < l => irqBase'[irqCntrs'[i]] < irqBase'[irqCntrs'[l]]
      BY <3>0 DEF SortedByBase
    <3>2. SortedByBase
      <4> SUFFICES ASSUME NEW i \in 1 .. n, NEW l \in 1 .. n, i < l
                   PROVE  irqBase[irqCntrs[i]] < irqBase[irqCntrs[l]]
        BY <3>0 DEF SortedByBase
      <4>1. i \in 1 .. n + 1 /\ l \in 1 .. n + 1
        BY <1>0
      <4>2. irqBase'[irqCntrs'[i]] < irqBase'[irqCntrs'[l]]
        BY <4>1, <3>1
      <4> QED
        BY <4>2, <2>5, <2>7
    <3>3. j \in 1 .. n
      BY <1>0
    <3>4. irqBase'[irqCntrs'[j]] = irqBase[irqCntrs[j]] /\ irqCntrs'[j] = irqCntrs[j]
      BY <3>3, <2>5, <2>7
    <3>5. CASE k \in 1 .. n
      <4>1. irqBase'[irqCntrs'[k]] = irqBase[irqCntrs[k]]
        BY <3>5, <2>5, <2>7
      <4> QED
        BY <4>1, <3>4, <3>3, <3>5, <3>2, <1>0 DEF RangesInOrder
    <3>6. CASE k = n + 1
      <4>1. irqBase'[irqCntrs'[k]] = x
        BY <3>6, <2>5, <2>7
      <4>2. irqBase[irqCntrs[j]] < x
        <5>1. n + 1 \in 1 .. n + 1
          BY <1>0
        <5> QED
          BY <5>1, <4>1, <3>4, <3>1, <3>6
      <4>3. ~Overlaps(x, Num(c), irqCntrs[j])
        BY <2>4, <3>2, <3>3
      <4>4. ~(x < irqBase[irqCntrs[j]] + Num(irqCntrs[j]) /\ x + Num(c) > irqBase[irqCntrs[j]])
        BY <4>3 DEF Overlaps
      <4>5. irqBase[irqCntrs[j]] + Num(irqCntrs[j]) <= x
        BY <4>2, <4>4, <2>3, <2>4, <2>9, <3>3
      <4> QED
        BY <4>1, <4>5, <3>4
    <3> QED
      BY <3>5, <3>6, <2>8
  <2>12. BlocksInv'
    <3>1. CASE blocks = {}
      BY <3>1, <1>1, <1>0 DEF BlocksInv
    <3>2. CASE blocks # {}
      <4>1. Contains(irqCntrs, SoftCntr)
        BY <3>2, <1>0 DEF BlocksInv, SoftReady
      <4>2. c # SoftCntr
        BY <4>1, <1>4
      <4>3. irqBase'[SoftCntr] = irqBase[SoftCntr]
        BY <4>2, <2>1, <2>2
      <4>4. SoftReady'
        <5>1. PICK k \in 1 .. n : irqCntrs[k] = SoftCntr
          BY <4>1, ListedIs
        <5>2. k \in 1 .. Len(irqCntrs') /\ irqCntrs'[k] = SoftCntr
          BY <5>1, <2>5, <1>0
        <5> QED
          BY <5>2, ListedIs DEF SoftReady
      <4> QED
        BY <4>3, <4>4, <1>1, <1>0 DEF BlocksInv
    <3> QED
      BY <3>1, <3>2
  <2>13. RangesDisjoint
    <3> SUFFICES ASSUME NEW d \in AllControllers,
                        ~Contains(irqCntrs, d), Contains(irqCntrs', d),
                        irqBase[d] # METAL_IRQ_ANY \/ SortedByBase,
                        NEW e \in ToSet(irqCntrs)
                 PROVE  (Numbers(d))' \cap Numbers(e) = {}
      BY DEF RangesDisjoint
    <3>1. d = c
      <4>1. PICK k \in 1 .. Len(irqCntrs') : irqCntrs'[k] = d
        BY ListedIs
      <4>2. k \notin 1 .. n
        <5>1. \A l \in 1 .. n : irqCntrs[l] # d
          BY ListedIs
        <5> QED
          BY <4>1, <5>1, <2>5
      <4> QED
        BY <4>1, <4>2, <2>5, <2>8
    <3>2. PICK k \in 1 .. n : irqCntrs[k] = e
      BY <1>0 DEF ToSet
    <3>3. ~(x < irqBase[e] + Num(e) /\ x + Num(c) > irqBase[e])
      BY <2>4, <3>1, <3>2 DEF Overlaps
    <3>4. (Numbers(d))' = x .. x + Num(c) - 1
      BY <3>1, <2>7 DEF Numbers, Num
    <3>5. Numbers(e) = irqBase[e] .. irqBase[e] + Num(e) - 1
      BY DEF Numbers
    <3>6. irqBase[e] \in Nat /\ Num(e) \in Nat
      BY <2>9, <3>2
    <3> QED
      BY <3>3, <3>4, <3>5, <3>6, <2>3, <2>4
  <2> QED
    BY <2>10, <2>11, <2>12, <2>13 DEF IrqInv
<1> QED
  BY <1>3, <1>4

\* Software interrupts are handed out.
LEMMA AllocateStepInv ==
  ASSUME IrqInv, NEW num \in 1 .. 2, SoftReady, SoftirqAllocate(num)
  PROVE  IrqInv' /\ RangesDisjoint
<1>0. ListInv /\ RangesInOrder /\ BlocksInv
  BY DEF IrqInv
<1>1. /\ softAvail + num < SOFTIRQ_NUM /\ softAvail' = softAvail + num
      /\ blocks' = blocks \cup {irqBase[SoftCntr] + softAvail .. irqBase[SoftCntr] + softAvail + num - 1}
      /\ irqCntrs' = irqCntrs /\ irqBase' = irqBase
  BY DEF SoftirqAllocate
<1>2. ListInv' /\ RangesInOrder'
  BY <1>0, <1>1 DEF ListInv, RangesInOrder, SortedByBase, Num
<1>3. RangesDisjoint
  BY <1>1 DEF RangesDisjoint
<1>4. PICK base \in Nat : base = irqBase[SoftCntr]
  <2>1. PICK k \in 1 .. Len(irqCntrs) : irqCntrs[k] = SoftCntr
    BY ListedIs DEF SoftReady
  <2> QED
    BY <2>1, <1>0 DEF ListInv
<1>5. BlocksInv'
  <2> DEFINE new == base + softAvail .. base + softAvail + num - 1
  <2>0. softAvail \in Nat /\ SOFTIRQ_NUM \in Nat
    BY <1>0, IrqAssumption DEF BlocksInv, IrqAssumption
  <2>1. \A b \in blocks : /\ b \subseteq base .. base + softAvail - 1
                          /\ \A c \in blocks : b = c \/ b \cap c = {}
    BY <1>0, <1>4 DEF BlocksInv
  <2>2. blocks' = blocks \cup {new}
    BY <1>1, <1>4
  <2>3. \A b \in blocks : b \subseteq base .. base + (softAvail + num) - 1 /\ b \cap new = {}
    <3> TAKE b \in blocks
    <3>1. b \subseteq base .. base + softAvail - 1
      BY <2>1
    <3>2. base .. base + softAvail - 1 \subseteq base .. base + (softAvail + num) - 1
      BY <2>0
    <3>3. (base .. base + softAvail - 1) \cap new = {}
      BY <2>0
    <3> QED
      BY <3>1, <3>2, <3>3
  <2>4. new \subseteq base .. base + (softAvail + num) - 1
    BY <2>0
  <2> HIDE DEF new
  <2>5. \A b \in blocks' : /\ b \subseteq base .. base + softAvail' - 1
                           /\ \A c \in blocks' : b = c \/ b \cap c = {}
    <3>1. \A b \in blocks' : b \subseteq base .. base + softAvail' - 1
      BY <2>2, <2>3, <2>4, <1>1
    <3>2. \A b, c \in blocks' : b = c \/ b \cap c = {}
      <4> SUFFICES ASSUME NEW b \in blocks', NEW c \in blocks' PROVE b = c \/ b \cap c = {}
        OBVIOUS
      <4>1. (b \in blocks \/ b = new) /\ (c \in blocks \/ c = new)
        BY <2>2
      <4>2. \A d \in blocks : d \cap new = {} /\ new \cap d = {}
        BY <2>3
      <4> QED
        BY <4>1, <4>2, <2>1
    <3> QED
      BY <3>1, <3>2
  <2>6. softAvail' \in Nat /\ softAvail' < SOFTIRQ_NUM
    BY <1>1, <2>0
  <2>7. SoftReady'
    BY <1>1 DEF SoftReady
  <2> QED
    BY <2>5, <2>6, <2>7, <1>1, <1>4 DEF BlocksInv
<1> QED
  BY <1>2, <1>3, <1>5 DEF IrqInv

\* Registrations keep the list in shape and append a range that is free of the
\* others; the other calls leave the list alone, and softirq blocks follow each
\* other below softAvail.
LEMMA IrqInductive == IrqInv /\ [IrqConfigure \/ IrqUse]_irqVars => IrqInv' /\ RangesDisjoint
<1> SUFFICES ASSUME IrqInv, [IrqConfigure \/ IrqUse]_irqVars PROVE IrqInv' /\ RangesDisjoint
  OBVIOUS
<1>1. CASE IrqConfigure
  BY <1>1, RegisterStep DEF IrqConfigure
<1>2. CASE RegisterController(SoftCntr)
  BY <1>2, RegisterStep DEF AllControllers
<1>3. ASSUME NEW irq, NEW set, IrqRegister(irq, set) \/ SetEnable(irq, set) \/ SoftirqSet(irq)
      PROVE  IrqInv' /\ RangesDisjoint
  <2>1. UNCHANGED <<irqCntrs, irqBase, softAvail, blocks>>
    BY <1>3 DEF IrqRegister, SetEnable, SoftirqSet
  <2> QED
    BY <2>1, IrqQuiet
<1>4. ASSUME NEW num \in 1 .. 2, SoftReady /\ SoftirqAllocate(num)
      PROVE  IrqInv' /\ RangesDisjoint
  BY <1>4, AllocateStepInv
<1>5. CASE DispatchCall \/ Dispatch \/ UNCHANGED irqVars
  <2>1. UNCHANGED <<irqCntrs, irqBase, softAvail, blocks>>
    BY <1>5 DEF DispatchCall, Dispatch, LoadEnabled, TakePending, HandlerBegins, HandlerEnds, irqVars, softVars
  <2> QED
    BY <2>1, IrqQuiet
<1> QED
  BY <1>1, <1>2, <1>3, <1>4, <1>5 DEF IrqUse

\* However controllers are registered and software interrupts allocated, no
\* interrupt number gets a second owner.
THEOREM NumbersAreDisjoint == IrqSpec => NumbersDisjoint
<1>1. IrqInit => IrqInv
  BY IrqInvInit
<1>2. IrqInv /\ [IrqConfigure \/ IrqUse]_irqVars => IrqInv'
  BY IrqInductive
<1>3. IrqInv /\ [IrqConfigure \/ IrqUse]_irqVars => [RangesDisjoint]_irqVars
  BY IrqInductive
<1>4. IrqInv => BlocksDisjoint
  <2> SUFFICES ASSUME IrqInv, NEW b \in blocks PROVE b \subseteq Numbers(SoftCntr)
    BY DEF IrqInv, BlocksInv, BlocksDisjoint
  <2>1. PICK base \in Nat : base = irqBase[SoftCntr]
    <3>1. PICK k \in 1 .. Len(irqCntrs) : irqCntrs[k] = SoftCntr
      BY ListedIs DEF IrqInv, BlocksInv, SoftReady
    <3> QED
      BY <3>1 DEF IrqInv, ListInv
  <2>2. b \subseteq base .. base + softAvail - 1 /\ softAvail \in Nat /\ softAvail <= SOFTIRQ_NUM
    BY <2>1, IrqAssumption DEF IrqInv, BlocksInv, IrqAssumption
  <2>3. SOFTIRQ_NUM \in Nat /\ Numbers(SoftCntr) = base .. base + SOFTIRQ_NUM - 1
    BY <2>1, IrqAssumption DEF IrqAssumption, Numbers, Num
  <2> QED
    BY <2>2, <2>3
<1> QED
  BY <1>1, <1>2, <1>3, <1>4, PTL DEF IrqSpec, NumbersDisjoint
-----------------------------------------------------------------------------
(***************************************************************************)
(* Remote system calls.                                                    *)
(***************************************************************************)
Bind  == [kind |-> "bind"]
Leave == {[kind |-> "term"], [kind |-> "unbind"]}

\* The request of the last call, and its answer on the way.
Own       == [ser |-> rpcCall.ser, id |-> rpcCall.id]
OwnAnswer == [kind |-> "answer", ser |-> rpcCall.ser, id |-> rpcCall.id]

Answers == [ser : Nat, id : Syscalls \cup {NoCall}]

(***************************************************************************)
(* The inductive invariant.  Where the answer to a call is at any time:    *)
(* requested, on its way, copied by rpmsg_rpc_ept_cb, or acknowledged; and *)
(* nothing but the host's farewell may be behind it.                       *)
(***************************************************************************)
RpcTypeOK ==
  /\ rpcPc \in {"off", "init", "idle", "flag", "send", "wait"}
  /\ rpcCall \in [ser : Nat, id : Syscalls \cup {NoCall}, ret : Answers]
  /\ respGot \in Answers
  /\ eptState \in {"none", "unbound", "bound"}
  /\ cbPc \in {"none", "copied"}
  /\ rpcPc \in {"flag", "send", "wait"} => respbuf = rpcCall.ser
  /\ rpcPc = "off" => eptState = "none"

Calm == \/ fromHost = <<>>
        \/ ~hostUp /\ \E m \in Leave : fromHost = <<m>>
Due  == \/ fromHost = <<OwnAnswer>>
        \/ ~hostUp /\ \E m \in Leave : fromHost = <<OwnAnswer, m>>

Asked   == nacked /\ cbPc = "none" /\ Calm /\ (hostUp => toHost = <<Own>>)
OnWay   == nacked /\ cbPc = "none" /\ Due /\ (hostUp => toHost = <<>>)
Copied  == nacked /\ cbPc = "copied" /\ Calm /\ respGot = Own /\ (hostUp => toHost = <<>>)
Settled == ~nacked /\ cbPc = "none" /\ Calm /\ respGot = Own /\ (hostUp => toHost = <<>>)

BoundInv == eptState = "bound" =>
  /\ ~eptDestroyed
  /\ rpcPc # "wait" => Calm /\ cbPc = "none" /\ (hostUp => toHost = <<>>)
  /\ rpcPc = "send" => nacked
  /\ rpcPc = "wait" => Asked \/ OnWay \/ Copied \/ Settled

\* A farewell of the session before may come first: it ends the new one.
UnboundInv == eptState = "unbound" =>
  /\ rpcPc = "init" /\ hostUp /\ ~eptDestroyed
  /\ toHost = <<>> /\ cbPc = "none"
  /\ fromHost = <<Bind>> \/ \E m \in Leave : fromHost = <<m, Bind>>

NoneInv == eptState = "none" =>
  /\ ~hostUp /\ cbPc = "none"
  /\ \/ fromHost = <<>>
     \/ rpcPc = "init" /\ fromHost = <<Bind>>
     \/ rpcPc = "off" /\ \E m \in Leave : fromHost = <<m>>
  /\ rpcPc = "wait" /\ ~nacked => eptDestroyed \/ respGot = Own

RpcInv == RpcTypeOK /\ BoundInv /\ UnboundInv /\ NoneInv
-----------------------------------------------------------------------------
\* Messages are told apart by their kind.
LEMMA Kinds ==
  /\ Bind.kind = "bind" /\ OwnAnswer.kind = "answer"
  /\ OwnAnswer.ser = rpcCall.ser /\ OwnAnswer.id = rpcCall.id
  /\ \A m \in Leave : m.kind \in {"term", "unbind"}
  BY DEF Bind, OwnAnswer, Leave

\* The invariant holds before the first session.
LEMMA RpcInvInit == RpcInit => RpcInv
  BY DEF RpcInit, RpcInv, RpcTypeOK, BoundInv, UnboundInv, NoneInv, NoAnswer, NoCall, Answers

\* rpmsg_rpc_init and rpmsg_rpc_release.
LEMMA SessionKeeps ==
  ASSUME RpcInv,
         (\E b \in BOOLEAN : RpcSessionInit(b)) \/ RpcSessionReady \/ RpcRelease
  PROVE  RpcInv'
<1>1. ASSUME NEW b \in BOOLEAN, RpcSessionInit(b) PROVE RpcInv'
  <2>0. rpcPc = "off" /\ eptState = "none" /\ ~hostUp /\ cbPc = "none"
    BY <1>1 DEF RpcInv, RpcTypeOK, NoneInv, RpcSessionInit
  <2>1. fromHost = <<>> \/ \E m \in Leave : fromHost = <<m>>
    BY <2>0 DEF RpcInv, NoneInv
  <2>2. RpcTypeOK'
    BY <1>1, <2>0 DEF RpcInv, RpcTypeOK, RpcSessionInit
  <2>3. CASE b
    <3>1. /\ eptState' = "unbound" /\ hostUp' /\ rpcPc' = "init" /\ toHost' = <<>>
          /\ fromHost' = Append(fromHost, Bind) /\ ~eptDestroyed' /\ UNCHANGED cbPc
      BY <1>1, <2>3 DEF RpcSessionInit, Bind
    <3>2. fromHost' = <<Bind>> \/ \E m \in Leave : fromHost' = <<m, Bind>>
      BY <2>1, <3>1, ShortSeqs
    <3> QED
      BY <2>0, <2>2, <3>1, <3>2 DEF RpcInv, BoundInv, UnboundInv, NoneInv
  <2>4. CASE ~b
    <3>1. eptState' = "none" /\ ~hostUp' /\ rpcPc' = "off" /\ UNCHANGED <<fromHost, cbPc>>
      BY <1>1, <2>4 DEF RpcSessionInit
    <3> QED
      BY <2>0, <2>1, <2>2, <3>1 DEF RpcInv, BoundInv, UnboundInv, NoneInv
  <2> QED
    BY <2>3, <2>4
<1>2. CASE RpcSessionReady
  BY <1>2 DEF RpcInv, RpcTypeOK, BoundInv, UnboundInv, NoneInv, RpcSessionReady, EptReady, Calm, Due
<1>3. CASE RpcRelease
  <2>1. eptState' = "none" /\ ~hostUp' /\ rpcPc' = "off" /\ cbPc' = "none" /\ UNCHANGED fromHost
    BY <1>3 DEF RpcInv, RpcTypeOK, BoundInv, UnboundInv, NoneInv, RpcRelease, DestroyEndpoint
  <2>2. fromHost = <<>> \/ \E m \in Leave : fromHost = <<m>>
    BY <1>3 DEF RpcInv, RpcTypeOK, BoundInv, UnboundInv, NoneInv, RpcRelease, Calm
  <2>3. RpcTypeOK'
    BY <1>3, <2>1 DEF RpcInv, RpcTypeOK, RpcRelease
  <2> QED
    BY <2>1, <2>2, <2>3 DEF RpcInv, BoundInv, UnboundInv, NoneInv
<1> QED
  BY <1>1, <1>2, <1>3

\* _open, _read, _write and _close around rpmsg_rpc_send.
LEMMA CallerKeeps ==
  ASSUME RpcInv,
         (\E id \in Syscalls : Syscall(id)) \/ SetNacked \/ (\E b \in BOOLEAN : SendRequest(b)) \/ Acked
  PROVE  RpcInv'
<1>1. ASSUME NEW id \in Syscalls, Syscall(id) PROVE RpcInv'
  <2>1. (rpcCall.ser % Serials) + 1 \in Nat
    BY RpcAssumption DEF RpcInv, RpcTypeOK
  <2>2. NoAnswer \in Answers
    BY DEF NoAnswer, Answers, NoCall
  <2>3. RpcTypeOK'
    BY <1>1, <2>1, <2>2 DEF RpcInv, RpcTypeOK, Syscall
  <2> QED
    BY <1>1, <2>3 DEF RpcInv, RpcTypeOK, BoundInv, UnboundInv, NoneInv, Syscall, Calm
<1>2. CASE SetNacked
  BY <1>2 DEF RpcInv, RpcTypeOK, BoundInv, UnboundInv, NoneInv, SetNacked, Calm
<1>3. ASSUME NEW b \in BOOLEAN, SendRequest(b) PROVE RpcInv'
  <2>1. RpcTypeOK'
    BY <1>3 DEF RpcInv, RpcTypeOK, SendRequest
  <2>2. CASE b
    <3>1. /\ rpcPc = "send" /\ rpcPc' = "wait" /\ eptState = "bound"
          /\ toHost' = Append(toHost, Own)
          /\ UNCHANGED <<rpcCall, eptState, nacked, cbPc, fromHost, hostUp, eptDestroyed>>
      BY <1>3, <2>2 DEF SendRequest, EptReady, Own
    <3>2. Asked'
      BY <3>1, ShortSeqs DEF RpcInv, BoundInv, Asked, Calm, Own
    <3> QED
      BY <2>1, <3>1, <3>2 DEF RpcInv, BoundInv, UnboundInv, NoneInv
  <2>3. CASE ~b
    BY <1>3, <2>1, <2>3 DEF RpcInv, BoundInv, UnboundInv, NoneInv, SendRequest, Calm
  <2> QED
    BY <2>2, <2>3
<1>4. CASE Acked
  <2>1. NoAnswer \in Answers
    BY DEF NoAnswer, Answers, NoCall
  <2>2. RpcTypeOK'
    BY <1>4, <2>1 DEF RpcInv, RpcTypeOK, Acked
  <2> QED
    BY <1>4, <2>2 DEF RpcInv, RpcTypeOK, BoundInv, UnboundInv, NoneInv, Acked, Calm, Asked, OnWay, Copied, Settled
<1> QED
  BY <1>1, <1>2, <1>3, <1>4

\* What the next message from the host can be, and what is behind it.
LEMMA NextMessage ==
  ASSUME RpcInv, NEW kind, Arrived(kind)
  PROVE  /\ kind = "bind" => /\ eptState \in {"unbound", "none"} /\ rpcPc = "init" /\ fromHost' = <<>>
         /\ kind = "answer" => /\ eptState = "bound" /\ rpcPc = "wait" /\ OnWay
                               /\ Head(fromHost) = OwnAnswer
                               /\ UNCHANGED hostUp => Calm'
         /\ kind \in {"term", "unbind"} =>
              /\ eptState = "bound" => ~hostUp /\ fromHost' = <<>>
              /\ eptState = "unbound" => fromHost' = <<Bind>>
              /\ eptState = "none" => rpcPc = "off" /\ fromHost' = <<>>
<1>1. fromHost # <<>> /\ Head(fromHost).kind = kind /\ fromHost' = Tail(fromHost)
  BY DEF Arrived
<1>2. \/ eptState \in {"unbound", "none"} /\ rpcPc = "init" /\ fromHost = <<Bind>>
      \/ eptState = "unbound" /\ \E m \in Leave : fromHost = <<m, Bind>>
      \/ eptState = "bound" /\ ~hostUp /\ \E m \in Leave : fromHost = <<m>>
      \/ eptState = "none" /\ rpcPc = "off" /\ \E m \in Leave : fromHost = <<m>>
      \/ eptState = "bound" /\ rpcPc = "wait" /\ OnWay
  BY <1>1 DEF RpcInv, RpcTypeOK, BoundInv, UnboundInv, NoneInv, Calm, Asked, OnWay, Copied, Settled
<1>3. ASSUME OnWay, UNCHANGED hostUp
      PROVE  Head(fromHost) = OwnAnswer /\ Calm'
  <2>1. CASE fromHost = <<OwnAnswer>>
    BY <1>1, <2>1, ShortSeqs DEF Calm
  <2>2. ASSUME ~hostUp, NEW m \in Leave, fromHost = <<OwnAnswer, m>>
        PROVE  Head(fromHost) = OwnAnswer /\ Calm'
    <3>1. fromHost' = <<m>> /\ Head(fromHost) = OwnAnswer
      BY <1>1, <2>2, ShortSeqs
    <3> QED
      BY <1>3, <2>2, <3>1 DEF Calm
  <2> QED
    BY <1>3, <2>1, <2>2 DEF OnWay, Due
<1>4. OnWay => Head(fromHost) = OwnAnswer
  BY ShortSeqs DEF OnWay, Due
<1>5. CASE eptState \in {"unbound", "none"} /\ rpcPc = "init" /\ fromHost = <<Bind>>
  BY <1>1, <1>5, ShortSeqs, Kinds
<1>6. ASSUME eptState = "unbound", NEW m \in Leave, fromHost = <<m, Bind>>
      PROVE  kind \in {"term", "unbind"} /\ fromHost' = <<Bind>>
  BY <1>1, <1>6, ShortSeqs, Kinds
<1>7. ASSUME NEW m \in Leave, fromHost = <<m>>
      PROVE  kind \in {"term", "unbind"} /\ fromHost' = <<>>
  BY <1>1, <1>7, ShortSeqs, Kinds
<1>8. CASE eptState = "bound" /\ rpcPc = "wait" /\ OnWay
  <2>1. kind = "answer"
    BY <1>1, <1>4, <1>8, Kinds
  <2> QED
    BY <1>3, <1>4, <1>8, <2>1
<1> QED
  BY <1>2, <1>5, <1>6, <1>7, <1>8

\* rpmsg_rpc_ept_cb and the name service.
LEMMA CallbackKeeps ==
  ASSUME RpcInv, FromHost
  PROVE  RpcInv'
<1>1. CASE BindCb
  <2>1. eptState \in {"unbound", "none"} /\ rpcPc = "init" /\ fromHost' = <<>> /\ cbPc = "none"
    BY <1>1, NextMessage DEF BindCb, Arrived
  <2>2. RpcTypeOK'
    BY <1>1 DEF RpcInv, RpcTypeOK, BindCb
  <2> QED
    BY <1>1, <2>1, <2>2 DEF RpcInv, BoundInv, UnboundInv, NoneInv, Calm, BindCb
<1>2. CASE EptCbCopy
  <2>1. /\ eptState = "bound" /\ rpcPc = "wait" /\ OnWay /\ Head(fromHost) = OwnAnswer
        /\ UNCHANGED hostUp => Calm'
    BY <1>2, NextMessage DEF EptCbCopy
  <2>2. /\ Calm' /\ UNCHANGED <<rpcPc, rpcCall, respbuf, nacked, eptState, eptDestroyed, toHost, hostUp>>
        /\ cbPc' = "copied" /\ respbuf = rpcCall.ser
    BY <1>2, <2>1 DEF EptCbCopy, RpcInv, RpcTypeOK
  <2>3. respGot' = Own
    BY <1>2, <2>1, <2>2, Kinds DEF EptCbCopy, Own
  <2>4. Own \in Answers /\ Own' = Own
    BY <2>2 DEF RpcInv, RpcTypeOK, Own, Answers
  <2>5. RpcTypeOK'
    BY <2>2, <2>3, <2>4 DEF RpcInv, RpcTypeOK
  <2>6. Copied'
    BY <2>1, <2>2, <2>3, <2>4 DEF OnWay, Copied
  <2> QED
    BY <2>1, <2>2, <2>5, <2>6 DEF RpcInv, BoundInv, UnboundInv, NoneInv
<1>3. CASE EptCbAck
  <2>1. RpcTypeOK'
    BY <1>3 DEF RpcInv, RpcTypeOK, EptCbAck
  <2>2. eptState = "bound" /\ rpcPc = "wait" /\ Copied
    BY <1>3 DEF RpcInv, RpcTypeOK, BoundInv, UnboundInv, NoneInv, Asked, OnWay, Settled, EptCbAck
  <2>3. Settled'
    BY <1>3, <2>2 DEF EptCbAck, Copied, Settled, Calm, Own
  <2> QED
    BY <1>3, <2>1, <2>2, <2>3 DEF RpcInv, BoundInv, UnboundInv, NoneInv, EptCbAck
<1>4. CASE TermCb \/ UnbindCb
  <2>1. /\ eptState = "bound" => ~hostUp /\ fromHost' = <<>>
        /\ eptState = "unbound" => fromHost' = <<Bind>>
        /\ eptState = "none" => rpcPc = "off" /\ fromHost' = <<>>
        /\ cbPc = "none"
    BY <1>4, NextMessage DEF TermCb, UnbindCb, Arrived
  <2>2. UNCHANGED <<rpcPc, rpcCall, respbuf, respGot, cbPc, toHost>> /\ eptState' = "none" /\ ~hostUp'
    BY <1>4 DEF TermCb, UnbindCb, DestroyEndpoint, RpcInv, NoneInv
  <2>3. RpcTypeOK'
    BY <2>2 DEF RpcInv, RpcTypeOK
  <2>4. eptState # "none" => eptDestroyed' \/ UNCHANGED <<nacked, eptDestroyed>>
    BY <1>4 DEF TermCb, UnbindCb
  <2>5. rpcPc = "wait" /\ ~nacked' => eptDestroyed' \/ respGot = Own
    BY <2>1, <2>4 DEF RpcInv, RpcTypeOK, BoundInv, UnboundInv, Asked, OnWay, Copied, Settled
  <2>6. Own' = Own
    BY <2>2 DEF Own
  <2>7. eptState = "unbound" => rpcPc = "init"
    BY DEF RpcInv, UnboundInv
  <2>8. eptState \in {"bound", "unbound", "none"}
    BY DEF RpcInv, RpcTypeOK
  <2> QED
    BY <2>1, <2>2, <2>3, <2>5, <2>6, <2>7, <2>8 DEF RpcInv, BoundInv, UnboundInv, NoneInv
<1> QED
  BY <1>1, <1>2, <1>3, <1>4 DEF FromHost

\* The host answers or leaves.
LEMMA HostKeeps ==
  ASSUME RpcInv, HostAnswers \/ (\E kind \in {"term", "unbind"} : HostLeaves(kind))
  PROVE  RpcInv'
<1>1. CASE HostAnswers
  <2>0. UNCHANGED <<rpcPc, rpcCall, respbuf, respGot, nacked, eptState, eptDestroyed, cbPc, hostUp>>
    BY <1>1 DEF HostAnswers
  <2>1. RpcTypeOK'
    BY <2>0 DEF RpcInv, RpcTypeOK
  <2>2. CASE hostUp
    <3>1. eptState = "bound" /\ rpcPc = "wait" /\ Asked
      BY <1>1, <2>2 DEF RpcInv, RpcTypeOK, BoundInv, UnboundInv, NoneInv, OnWay, Copied, Settled, HostAnswers
    <3>2. toHost = <<Own>> /\ fromHost = <<>>
      BY <2>2, <3>1 DEF Asked, Calm
    <3>3. /\ toHost' = Tail(toHost)
          /\ fromHost' = Append(fromHost, [kind |-> "answer", ser |-> Head(toHost).ser, id |-> Head(toHost).id])
      BY <1>1, <2>2 DEF HostAnswers
    <3>4. Head(toHost) = Own /\ Own.ser = rpcCall.ser /\ Own.id = rpcCall.id
      BY <3>2, ShortSeqs DEF Own
    <3>5. toHost' = <<>> /\ fromHost' = <<OwnAnswer>>
      BY <3>2, <3>3, <3>4, ShortSeqs DEF OwnAnswer
    <3>6. OnWay'
      BY <2>0, <3>1, <3>5 DEF Asked, OnWay, Due, OwnAnswer
    <3> QED
      BY <2>0, <2>1, <3>1, <3>6 DEF RpcInv, BoundInv, UnboundInv, NoneInv
  <2>3. CASE ~hostUp
    <3>1. UNCHANGED fromHost
      BY <1>1, <2>3 DEF HostAnswers
    <3>2. BoundInv'
      BY <2>0, <2>3, <3>1 DEF RpcInv, BoundInv, Calm, Due, Asked, OnWay, Copied, Settled, Own, OwnAnswer
    <3> QED
      BY <2>0, <2>1, <2>3, <3>1, <3>2 DEF RpcInv, UnboundInv, NoneInv, Own
  <2> QED
    BY <2>2, <2>3
<1>2. ASSUME NEW kind \in {"term", "unbind"}, HostLeaves(kind) PROVE RpcInv'
  <2>0. /\ hostUp /\ eptState = "bound" /\ ~hostUp' /\ fromHost' = Append(fromHost, [kind |-> kind])
        /\ UNCHANGED <<rpcPc, rpcCall, respbuf, respGot, nacked, eptState, eptDestroyed, cbPc, toHost>>
    BY <1>2 DEF HostLeaves
  <2>1. RpcTypeOK'
    BY <2>0 DEF RpcInv, RpcTypeOK
  <2>2. [kind |-> kind] \in Leave
    BY DEF Leave
  <2>3. Calm => Calm'
    BY <2>0, <2>2, ShortSeqs DEF Calm
  <2>4. Due => Due'
    <3>1. OwnAnswer' = OwnAnswer
      BY <2>0 DEF OwnAnswer
    <3>2. PICK m \in Leave : m = [kind |-> kind]
      BY <2>2
    <3>3. PICK o : o = OwnAnswer
      OBVIOUS
    <3>4. ASSUME Due PROVE Due'
      <4>1. fromHost = <<o>> /\ ~hostUp'
        BY <2>0, <3>3, <3>4 DEF Due
      <4>2. fromHost' = Append(<<o>>, m)
        BY <2>0, <3>2, <4>1
      <4>3. fromHost' = <<o, m>>
        BY <4>2, ShortSeqs
      <4> QED
        BY <3>1, <3>2, <3>3, <4>1, <4>3 DEF Due
    <3> QED
      BY <3>4
  <2>5. Own' = Own
    BY <2>0 DEF Own
  <2>6. BoundInv'
    BY <2>0, <2>3, <2>4, <2>5 DEF RpcInv, BoundInv, Asked, OnWay, Copied, Settled
  <2> QED
    BY <2>0, <2>1, <2>6 DEF RpcInv, UnboundInv, NoneInv
<1> QED
  BY <1>1, <1>2

\* Every step of the caller, its callback and the host keeps the invariant.
LEMMA RpcInductive == RpcInv /\ [RpcNext]_rpcVars => RpcInv'
<1> SUFFICES ASSUME RpcInv, [RpcNext]_rpcVars PROVE RpcInv'
  OBVIOUS
<1>1. CASE UNCHANGED rpcVars
  BY <1>1 DEF rpcVars, RpcInv, RpcTypeOK, BoundInv, UnboundInv, NoneInv, Calm, Due,
       Asked, OnWay, Copied, Settled, Own, OwnAnswer
<1>2. CASE RpcNext
  BY <1>1, <1>2, SessionKeeps, CallerKeeps, CallbackKeeps, HostKeeps
     DEF RpcNext, CallerStep, StillNacked, StillNotReady
<1> QED
  BY <1>1, <1>2

\* Whenever an answer may still come, its caller's frame is there.
LEMMA FrameIsLive == RpcInv => FrameLive
<1> SUFFICES ASSUME RpcInv, eptState # "none" PROVE FrameLive
  BY DEF FrameLive
<1>1. CASE eptState = "unbound"
  <2>1. cbPc = "none" /\ \A k \in DOMAIN fromHost : fromHost[k].kind # "answer"
    BY <1>1, Kinds DEF RpcInv, UnboundInv
  <2> QED
    BY <2>1 DEF FrameLive
<1>2. CASE eptState = "bound"
  <2>1. cbPc = "copied" => rpcPc = "wait"
    BY <1>2 DEF RpcInv, BoundInv
  <2>2. Calm => \A k \in DOMAIN fromHost : fromHost[k].kind # "answer"
    BY Kinds DEF Calm
  <2>3. Due => \A k \in DOMAIN fromHost : fromHost[k].kind = "answer" => fromHost[k] = OwnAnswer
    BY Kinds DEF Due
  <2>4. rpcPc # "wait" => Calm
    BY <1>2 DEF RpcInv, BoundInv
  <2>5. rpcPc = "wait" => (Calm \/ Due) /\ respbuf = rpcCall.ser
    BY <1>2 DEF RpcInv, RpcTypeOK, BoundInv, Asked, OnWay, Copied, Settled
  <2> QED
    BY <2>1, <2>2, <2>3, <2>4, <2>5, Kinds DEF FrameLive
<1> QED
  BY <1>1, <1>2 DEF RpcInv, RpcTypeOK

\* _open, _read, _write and _close return the answer to their own request, and
\* rpmsg_rpc_ept_cb writes into no frame that is gone.
THEOREM AnswersAreOwn == RpcSpec => AnswerIsOwn
<1> DEFINE Returns == rpcPc = "wait" /\ rpcPc' = "idle" /\ ~eptDestroyed
                      => rpcCall'.ret.ser = rpcCall.ser /\ rpcCall'.ret.id = rpcCall.id
<1>1. RpcInv /\ [RpcNext]_rpcVars => [FrameLive' /\ Returns]_rpcVars
  <2> SUFFICES ASSUME RpcInv, RpcNext PROVE FrameLive' /\ Returns
    OBVIOUS
  <2>1. FrameLive'
    <3>1. RpcInv'
      BY RpcInductive
    <3>2. RpcInv' => FrameLive'
      BY FrameIsLive, PTL
    <3> QED
      BY <3>1, <3>2
  <2>2. Returns
    <3> SUFFICES ASSUME rpcPc = "wait", rpcPc' = "idle", ~eptDestroyed
                 PROVE  rpcCall'.ret.ser = rpcCall.ser /\ rpcCall'.ret.id = rpcCall.id
      OBVIOUS
    <3>1. Acked
      BY DEF RpcNext, RpcSessionInit, Syscall, CallerStep, SetNacked, SendRequest, StillNacked,
           StillNotReady, RpcSessionReady, RpcRelease, FromHost, BindCb, EptCbCopy, EptCbAck,
           TermCb, UnbindCb, HostAnswers, HostLeaves, rpcVars
    <3>2. respGot = Own
      BY <3>1 DEF Acked, RpcInv, RpcTypeOK, BoundInv, UnboundInv, NoneInv, Asked, OnWay, Copied, Settled
    <3>3. rpcCall'.ret = respGot
      BY <3>1, <3>2 DEF Acked, Own, RpcInv, RpcTypeOK
    <3> QED
      BY <3>2, <3>3 DEF Own
  <2> QED
    BY <2>1, <2>2
<1>2. RpcSpec => []RpcInv
  BY RpcInvInit, RpcInductive, PTL DEF RpcSpec
<1> QED
  BY <1>1, <1>2, PTL DEF RpcSpec, AnswerIsOwn
-----------------------------------------------------------------------------
(***************************************************************************)
(* I/O regions.                                                            *)
(***************************************************************************)
LEMMA PageArith ==
  ASSUME NEW ps \in Nat \ {0}, NEW o \in Nat
  PROVE  /\ o \div ps \in Nat /\ o % ps \in 0 .. ps - 1
         /\ o = (o \div ps) * ps + (o % ps)
  BY SMT

\* Quotient and remainder of an address that is given by its page and the place in
\* it.
LEMMA PageModSum ==
  ASSUME NEW ps \in Nat \ {0}, NEW q \in Nat, NEW r \in 0 .. ps - 1, NEW x \in Nat, x = q * ps + r
  PROVE  x % ps = r /\ x \div ps = q
  BY SMT

\* An offset below the end of n pages lies in one of them.
LEMMA PageBound ==
  ASSUME NEW ps \in Nat \ {0}, NEW q \in Nat, NEW n \in Nat, q * ps < ps * n
  PROVE  q < n
  BY SMT

\* Remainders of numbers at most one modulus away.
LEMMA ModSmall ==
  ASSUME NEW n \in Nat \ {0}, NEW x \in Int
  PROVE  /\ x \in 0 .. n - 1 => x % n = x
         /\ x + n \in 0 .. n - 1 => x % n = x + n
  BY SMT

\* A number and a multiple of another.
LEMMA SumOfMultiple ==
  ASSUME NEW s \in Nat, NEW k \in Nat, NEW n \in Nat
  PROVE  s + k * n \in Nat
  BY SMT

\* What is assumed of one region.
LEMMA RegionFacts ==
  ASSUME NEW io \in IoRegions
  PROVE  /\ io.virt \in Nat /\ io.size \in Nat /\ io.page_size \in Nat \ {0}
         /\ io.physmap \in Seq(Nat)
         /\ io.virt + io.size < ULONG
         /\ PagesFit(io)
         /\ ULONG \in Nat \ {0} /\ METAL_BAD \in Nat /\ io.size <= METAL_BAD
  BY IoAssumption DEF IoAssumption, METAL_BAD

\* Virtual addresses and offsets.
LEMMA VirtExact ==
  ASSUME NEW io \in IoRegions
  PROVE  /\ \A o \in 0 .. io.size - 1 : IoVirtToOffset(io, IoVirt(io, o)) = o
         /\ \A a \in Addresses : IoVirtToOffset(io, a) < io.size
                                   => a \in io.virt .. io.virt + io.size - 1
         /\ \A a \in Addresses : IoVirtToOffset(io, a) \in Nat
<1>0. /\ io.virt \in Nat /\ io.size \in Nat /\ io.virt + io.size < ULONG
      /\ ULONG \in Nat \ {0} /\ METAL_BAD = ULONG - 1
  BY RegionFacts DEF METAL_BAD
<1> DEFINE v == io.virt
           n == io.size
<1>1. v \in Nat /\ n \in Nat /\ v + n < ULONG
  BY <1>0
<1> HIDE DEF v, n
<1>2. ASSUME NEW o \in 0 .. n - 1
      PROVE  ((v + o) - v) % ULONG = o
  BY <1>0, <1>1, <1>2
<1>3. ASSUME NEW a \in 0 .. ULONG - 1, (a - v) % ULONG < n
      PROVE  a \in v .. v + n - 1
  <2>1. CASE a >= v
    <3>1. a - v \in 0 .. ULONG - 1
      BY <1>1, <1>0, <2>1
    <3>2. (a - v) % ULONG = a - v
      BY <3>1, <1>0, <1>1, ModSmall
    <3> QED
      BY <3>2, <1>3, <1>1, <1>0, <2>1
  <2>2. CASE a < v
    <3>1. a - v + ULONG \in 0 .. ULONG - 1
      BY <1>1, <1>0, <2>2
    <3>2. (a - v) % ULONG = a - v + ULONG
      <4>1. PICK x \in Int : x = a - v
        BY <1>0, <1>1
      <4>2. x + ULONG \in 0 .. ULONG - 1
        BY <3>1, <4>1
      <4>3. x % ULONG = x + ULONG
        BY <4>2, <1>0, ModSmall
      <4> QED
        BY <4>1, <4>3
    <3> QED
      BY <3>2, <1>3, <1>1, <1>0, <2>2
  <2> QED
    BY <2>1, <2>2, <1>1
<1>4. ASSUME NEW a \in 0 .. ULONG - 1
      PROVE  (a - v) % ULONG \in Nat
  BY <1>0, <1>1
<1> QED
  BY <1>0, <1>1, <1>2, <1>3, <1>4 DEF IoVirtToOffset, IoVirt, Addresses, v, n

\* The physical address of an offset is in an aligned page, and no other offset
\* has it.
LEMMA PhysOfOffset ==
  ASSUME NEW io \in IoRegions, NEW o \in 0 .. io.size - 1
  PROVE  /\ IoPhys(io, o) \in Nat /\ IoPhys(io, o) # METAL_BAD
         /\ io.page_size # ULONG =>
              /\ Page(io, o) \in 0 .. Len(io.physmap) - 1
              /\ IoPhys(io, o) % io.page_size = o % io.page_size
              /\ o = (o % io.page_size) + Page(io, o) * io.page_size
              /\ \A p \in 0 .. io.size - 1 : IoPhys(io, p) = IoPhys(io, o) => p = o
<1>0. /\ io.size \in Nat /\ io.page_size \in Nat \ {0} /\ io.physmap \in Seq(Nat)
      /\ PagesFit(io) /\ METAL_BAD \in Nat /\ io.size < ULONG /\ ULONG \in Nat \ {0}
  BY RegionFacts DEF METAL_BAD
<1> DEFINE ps == io.page_size
           m == io.physmap
           n == Len(m)
           D(p) == p \div ps
           R(p) == p % ps
           ph(p) == m[D(p) + 1] + R(p)
<1>1. \A p \in 0 .. io.size - 1 : IoPhys(io, p) = ph(p)
  BY <1>0 DEF IoPhys, Page, InPage
<1>2. ps \in Nat \ {0} /\ m \in Seq(Nat) /\ n \in Nat /\ DOMAIN m = 1 .. n
  BY <1>0
<1>3. \A p \in 0 .. io.size - 1 : ph(p) < METAL_BAD
  BY <1>0 DEF PagesFit
<1>4. ps = ULONG => n = 1
  BY <1>0 DEF PagesFit
<1>5. ps # ULONG => io.size <= ps * n
  BY <1>0 DEF PagesFit
<1>6. ps # ULONG => \A j \in 1 .. n : m[j] % ps = 0
  BY <1>0, <1>2 DEF PagesFit
<1>7. \A j, k \in 1 .. n : m[j] = m[k] => j = k
  BY <1>0, <1>2 DEF PagesFit
<1>8. ASSUME NEW p \in 0 .. io.size - 1
      PROVE  /\ D(p) \in 0 .. n - 1 /\ R(p) \in 0 .. ps - 1
             /\ p = D(p) * ps + R(p) /\ D(p) * ps \in Nat
             /\ R(p) % ps = R(p)
  <2>0. p \in Nat /\ p < io.size
    BY <1>0
  <2>1. D(p) \in Nat /\ R(p) \in 0 .. ps - 1 /\ p = D(p) * ps + R(p)
    BY <2>0, <1>2, PageArith
  <2>2. PICK q \in Nat : q = D(p)
    BY <2>1
  <2>3. PICK r \in 0 .. ps - 1 : r = R(p)
    BY <2>1
  <2>4. p = q * ps + r
    BY <2>1, <2>2, <2>3
  <2> HIDE DEF D, R
  <2>5. q * ps \in Nat /\ q * ps <= p
    BY <2>4, <1>2
  <2>6. q < n
    <3>1. CASE ps = ULONG
      <4>1. q * ps < ps * 1
        BY <2>5, <3>1, <2>0, <1>0
      <4>2. q < 1
        BY <4>1, <1>2, PageBound
      <4> QED
        BY <4>2, <1>4, <3>1
    <3>2. CASE ps # ULONG
      <4>1. q * ps < ps * n
        <5>1. ps * n \in Nat
          BY <1>2
        <5> QED
          BY <2>5, <3>2, <2>0, <1>5, <5>1, <1>0
      <4> QED
        BY <4>1, <1>2, PageBound
    <3> QED
      BY <3>1, <3>2
  <2>7. r % ps = r
    BY <1>2, ModSmall
  <2> QED
    BY <2>2, <2>3, <2>4, <2>5, <2>6, <2>7, <1>2
<1>9. ASSUME NEW p \in 0 .. io.size - 1
      PROVE  D(p) + 1 \in 1 .. n /\ m[D(p) + 1] \in Nat
  <2>1. D(p) \in 0 .. n - 1
    BY <1>8
  <2> HIDE DEF D, n
  <2>2. D(p) + 1 \in 1 .. n
    BY <2>1, <1>2
  <2> QED
    BY <1>2, <2>2
<1> HIDE DEF D, R, ps, n, m
<1>10. ASSUME ps # ULONG, NEW p \in 0 .. io.size - 1
       PROVE  ph(p) % ps = R(p)
  <2>1. PICK j \in 1 .. n : j = D(p) + 1
    BY <1>9
  <2>2. m[j] \in Nat /\ m[j] % ps = 0
    BY <1>9, <2>1, <1>6, <1>10
  <2>3. PICK r \in Nat : r = R(p) /\ r % ps = r
    <3>1. R(p) \in 0 .. ps - 1 /\ R(p) % ps = R(p)
      BY <1>8, Zenon
    <3>2. R(p) \in Nat
      BY <3>1, <1>2
    <3> QED
      BY <3>1, <3>2, Zenon
  <2>4. (r + m[j]) % ps = r % ps
    <3>1. PICK k \in Nat \ {0} : k = ps
      BY <1>2
    <3>2. PICK y \in Nat : y = m[j] /\ y % k = 0
      BY <2>2, <3>1
    <3>3. (r + y) % k = r % k
      BY <3>2, ModWrap
    <3> QED
      BY <3>1, <3>2, <3>3
  <2>5. ph(p) = r + m[j]
    BY <2>1, <2>2, <2>3
  <2> QED
    BY <2>3, <2>4, <2>5
<1>11. ASSUME ps # ULONG, NEW p \in 0 .. io.size - 1, ph(p) = ph(o)
       PROVE  p = o
  <2>1. R(p) = R(o)
    BY <1>10, <1>11
  <2>2. m[D(p) + 1] = m[D(o) + 1]
    <3>1. m[D(p) + 1] \in Nat /\ m[D(o) + 1] \in Nat
      BY <1>9
    <3>2. R(p) \in Nat
      BY <1>8, <1>2
    <3> QED
      BY <2>1, <1>11, <3>1, <3>2
  <2>3. D(p) + 1 = D(o) + 1
    BY <1>9, <2>2, <1>7
  <2>4. D(p) = D(o)
    <3>1. D(p) \in Int /\ D(o) \in Int
      BY <1>8, <1>2
    <3> QED
      BY <2>3, <3>1
  <2> QED
    BY <2>4, <2>1, <1>8
<1>12. ph(o) \in Nat
  <2>1. R(o) \in Nat
    BY <1>8, <1>2
  <2> QED
    BY <2>1, <1>9
<1>13. ph(o) # METAL_BAD
  BY <1>3, <1>12, <1>0
<1>14. ps # ULONG => D(o) \in 0 .. n - 1 /\ ph(o) % ps = R(o) /\ o = R(o) + D(o) * ps
  <2>1. R(o) \in Nat
    BY <1>8, <1>2
  <2> QED
    BY <1>8, <1>10, <2>1
<1> HIDE DEF ph
<1> QED
  BY <1>1, <1>11, <1>12, <1>13, <1>14 DEF Page, D, R, ps, n, m

\* Where metal_io_phys_to_offset looks, named.
Start(io, phys) == IF io.page_size = ULONG THEN (phys - io.physmap[1]) % ULONG ELSE InPage(io, phys)
Tried(io, phys) == {Start(io, phys)} \cup {Start(io, phys) + k * io.page_size : k \in 1 .. Len(io.physmap) - 1}
Found(io, phys) == {o \in Tried(io, phys) : (o = Start(io, phys) \/ o < io.size) /\ IoPhys(io, o) = phys}

\* It returns an offset it has found, if there is one.
LEMMA SearchResult ==
  ASSUME NEW io \in IoRegions, NEW phys \in Nat
  PROVE  /\ Found(io, phys) = {} => IoPhysToOffset(io, phys) = METAL_BAD
         /\ Found(io, phys) # {} => IoPhysToOffset(io, phys) \in Found(io, phys)
         /\ Found(io, phys) \subseteq Nat
<1>0. io.page_size \in Nat \ {0} /\ io.physmap \in Seq(Nat) /\ PagesFit(io) /\ ULONG \in Nat \ {0}
  BY RegionFacts
<1>1. Start(io, phys) \in Nat
  <2>1. CASE io.page_size = ULONG
    <3>1. io.physmap[1] \in Nat
      BY <1>0, <2>1 DEF PagesFit
    <3> QED
      BY <1>0, <2>1, <3>1 DEF Start
  <2>2. CASE io.page_size # ULONG
    <3>1. PICK ps \in Nat \ {0} : ps = io.page_size
      BY <1>0
    <3>2. phys % ps \in Nat
      BY SMT
    <3>3. Start(io, phys) = phys % ps
      BY <2>2, <3>1, Zenon DEF Start, InPage
    <3> QED
      BY <3>2, <3>3
  <2> QED
    BY <2>1, <2>2
<1>2. Tried(io, phys) \subseteq Nat
  <2>1. ASSUME NEW k \in 1 .. Len(io.physmap) - 1
        PROVE  Start(io, phys) + k * io.page_size \in Nat
    <3>1. k \in Nat
      OBVIOUS
    <3>2. io.page_size \in Nat
      BY <1>0
    <3> QED
      BY <1>1, <3>1, <3>2, SumOfMultiple, Zenon
  <2> QED
    BY <1>1, <2>1 DEF Tried
<1>3. Found(io, phys) \subseteq Nat
  BY <1>2 DEF Found
<1>4. IoPhysToOffset(io, phys) = IF Found(io, phys) = {} THEN METAL_BAD
                                 ELSE CHOOSE o \in Found(io, phys) : \A p \in Found(io, phys) : o <= p
  BY Zenon DEF IoPhysToOffset, Found, Tried, Start
<1>5. Found(io, phys) # {} => \E o \in Found(io, phys) : \A p \in Found(io, phys) : o <= p
  BY <1>3, LeastNat
<1> HIDE DEF Found
<1> QED
  BY <1>3, <1>4, <1>5

\* Physical addresses and offsets.
LEMMA PhysExact ==
  ASSUME NEW io \in IoRegions
  PROVE  /\ \A o \in 0 .. io.size - 1 : IoPhysToOffset(io, IoPhys(io, o)) = o
         /\ \A a \in Addresses : LET o == IoPhysToOffset(io, a)
                                 IN  o \in Nat /\ (o < io.size => IoPhys(io, o) = a)
<1>0. /\ io.page_size \in Nat \ {0} /\ io.physmap \in Seq(Nat) /\ PagesFit(io) /\ io.size \in Nat
      /\ ULONG \in Nat \ {0} /\ METAL_BAD \in Nat /\ io.size <= METAL_BAD /\ io.size < ULONG
  BY RegionFacts
<1>1. ASSUME NEW o \in 0 .. io.size - 1
      PROVE  IoPhysToOffset(io, IoPhys(io, o)) = o
  <2> DEFINE a == IoPhys(io, o)
  <2>1. a \in Nat /\ a # METAL_BAD
    BY PhysOfOffset
  <2>2. o \in Found(io, a)
    <3>1. CASE io.page_size = ULONG
      <4>1. io.physmap[1] \in Nat
        BY <1>0, <3>1 DEF PagesFit
      <4>2. o \div ULONG = 0 /\ o % ULONG = o
        <5>1. PICK u \in Nat \ {0} : u = ULONG
          BY <1>0
        <5>2. o \in 0 .. u - 1
          BY <1>0, <5>1
        <5>3. o % u = o /\ o \div u = 0
          BY <5>2, DivSmall, Zenon
        <5> QED
          BY <5>1, <5>3, Zenon
      <4>3. a = io.physmap[1] + o
        BY <4>2, <3>1, <1>0 DEF IoPhys, Page, InPage
      <4>4. (a - io.physmap[1]) % ULONG = o
        <5>1. a - io.physmap[1] = o
          BY <4>1, <4>3
        <5> QED
          BY <4>2, <5>1
      <4> QED
        BY <3>1, <4>4 DEF Found, Tried, Start
    <3>2. CASE io.page_size # ULONG
      <4>1. /\ Page(io, o) \in 0 .. Len(io.physmap) - 1
            /\ Start(io, a) = o % io.page_size
            /\ o = (o % io.page_size) + Page(io, o) * io.page_size
        BY <3>2, PhysOfOffset DEF Start, InPage
      <4>2. o = Start(io, a) + Page(io, o) * io.page_size
        BY <4>1
      <4>3. CASE Page(io, o) = 0
        <5>1. o = Start(io, a)
          BY <4>1, <4>3, <1>0
        <5> QED
          BY <5>1 DEF Found, Tried
      <4>4. CASE Page(io, o) # 0
        <5>1. Page(io, o) \in 1 .. Len(io.physmap) - 1
          BY <4>1, <4>4, <1>0
        <5>2. o \in Tried(io, a)
          BY <5>1, <4>2 DEF Tried
        <5> QED
          BY <5>2, <1>0 DEF Found
      <4> QED
        BY <4>3, <4>4
    <3> QED
      BY <3>1, <3>2
  <2>3. ASSUME NEW p \in Found(io, a)
        PROVE  p = o
    <3>1. p \in Nat /\ IoPhys(io, p) = a
      BY <2>1, SearchResult DEF Found
    <3>2. p < io.size
      BY <3>1, <2>1, <1>0 DEF IoPhys
    <3>3. p \in 0 .. io.size - 1
      BY <3>1, <3>2, <1>0
    <3>4. CASE io.page_size # ULONG
      BY <3>3, <3>1, <3>4, PhysOfOffset
    <3>5. CASE io.page_size = ULONG
      <4>1. Len(io.physmap) = 1
        BY <1>0, <3>5 DEF PagesFit
      <4>2. Tried(io, a) = {Start(io, a)}
        BY <4>1 DEF Tried
      <4> QED
        BY <4>2, <2>2 DEF Found
    <3> QED
      BY <3>4, <3>5
  <2>4. IoPhysToOffset(io, a) \in Found(io, a)
    BY <2>1, <2>2, SearchResult
  <2> QED
    BY <2>3, <2>4
<1>2. ASSUME NEW a \in Addresses
      PROVE  LET o == IoPhysToOffset(io, a)
             IN  o \in Nat /\ (o < io.size => IoPhys(io, o) = a)
  <2>0. a \in Nat
    BY <1>0 DEF Addresses
  <2>1. CASE Found(io, a) = {}
    <3>1. IoPhysToOffset(io, a) = METAL_BAD
      BY <2>0, <2>1, SearchResult
    <3> QED
      BY <3>1, <1>0
  <2>2. CASE Found(io, a) # {}
    <3>1. IoPhysToOffset(io, a) \in Found(io, a) /\ Found(io, a) \subseteq Nat
      BY <2>0, <2>2, SearchResult
    <3> QED
      BY <3>1 DEF Found
  <2> QED
    BY <2>1, <2>2
<1> QED
  BY <1>1, <1>2

\* What TranslationExact says of the region in use holds of every region.
LEMMA RegionTranslates ==
  ASSUME NEW io \in IoRegions
  PROVE  /\ \A o \in 0 .. io.size - 1 : /\ IoVirtToOffset(io, IoVirt(io, o)) = o
                                        /\ IoPhysToOffset(io, IoPhys(io, o)) = o
         /\ \A a \in Addresses : IoVirtToPhys(io, a) # METAL_BAD => a \in io.virt .. io.virt + io.size - 1
         /\ \A a \in Addresses : LET v == IoPhysToVirt(io, a) IN v # NULL_VA => IoVirtToPhys(io, v) = a
<1>1. ASSUME NEW a \in Addresses, IoVirtToPhys(io, a) # METAL_BAD
      PROVE  a \in io.virt .. io.virt + io.size - 1
  BY <1>1, VirtExact DEF IoVirtToPhys, IoPhys
<1>2. ASSUME NEW a \in Addresses, IoPhysToVirt(io, a) # NULL_VA
      PROVE  IoVirtToPhys(io, IoPhysToVirt(io, a)) = a
  <2>1. PICK o : o = IoPhysToOffset(io, a)
    OBVIOUS
  <2>2. o \in Nat /\ (o < io.size => IoPhys(io, o) = a)
    BY <2>1, PhysExact
  <2>3. o < io.size /\ IoPhysToVirt(io, a) = IoVirt(io, o)
    BY <1>2, <2>1 DEF IoPhysToVirt, IoVirt
  <2>4. o \in 0 .. io.size - 1
    BY <2>2, <2>3, RegionFacts
  <2>5. IoVirtToOffset(io, IoVirt(io, o)) = o
    BY <2>4, VirtExact
  <2> QED
    BY <2>2, <2>3, <2>5 DEF IoVirtToPhys
<1> QED
  BY <1>1, <1>2, VirtExact, PhysExact

-----------------------------------------------------------------------------
\* The state of a block call between two turns of its loops: pointer and buffer
\* move together, what is left ends inside the region and the buffer, and the
\* bytes in front of the pointer are the ones that were moved.
TransferKinds == {"read", "write", "set", "none"}

IoTypeOK ==
  /\ ioRegion \in IoRegions \cup {Closed}
  /\ transfer \in [kind : TransferKinds, offset : Nat, len : Nat, ret : Nat, buf : Nat]
  /\ ptrAt \in Nat /\ bufAt \in Nat /\ lenLeft \in Nat

BlockInv ==
  /\ transfer.kind = "none" => bufAt = 0
  /\ transfer.kind # "none" =>
       /\ ptrAt = transfer.offset + bufAt /\ bufAt + lenLeft = transfer.ret
       /\ transfer.ret <= transfer.len
       /\ transfer.offset < ioRegion.size
       /\ transfer.offset + transfer.ret <= ioRegion.size
  /\ moved = {<<transfer.offset + k, k>> : k \in 0 .. bufAt - 1}

IoInv == IoTypeOK /\ BlockInv /\ WordsAligned

\* No region is open and nothing was transferred at the start.
LEMMA IoInvInit == IoInit => IoInv
<1> SUFFICES ASSUME IoInit PROVE IoInv
  OBVIOUS
<1>1. IoTypeOK
  BY DEF IoInit, IoTypeOK, NoTransfer, TransferKinds
<1>2. BlockInv
  BY DEF IoInit, BlockInv, NoTransfer
<1>3. WordsAligned
  BY DEF IoInit, WordsAligned
<1> QED
  BY <1>1, <1>2, <1>3 DEF IoInv

\* The size of the region in use.
LEMMA SizeType == IoTypeOK => ioRegion.size \in Nat /\ ioRegion.virt \in Nat
  BY RegionFacts DEF IoTypeOK, Closed

\* A turn of a loop moves n bytes.
LEMMA MoveStep ==
  ASSUME NEW n \in Nat, IoInv, transfer.kind # "none", n <= lenLeft, IoMove(n)
  PROVE  IoTypeOK' /\ BlockInv'
<1>0. IoTypeOK /\ BlockInv /\ ptrAt \in Nat /\ bufAt \in Nat /\ lenLeft \in Nat /\ transfer.offset \in Nat
  BY DEF IoInv, IoTypeOK
<1>1. /\ ptrAt' = ptrAt + n /\ bufAt' = bufAt + n /\ lenLeft' = lenLeft - n
      /\ ioRegion' = ioRegion /\ transfer' = transfer
      /\ moved' = moved \cup {<<ptrAt + k, bufAt + k>> : k \in 0 .. n - 1}
  BY DEF IoMove
<1>2. IoTypeOK'
  BY <1>0, <1>1 DEF IoTypeOK
<1>3. /\ ptrAt = transfer.offset + bufAt /\ bufAt + lenLeft = transfer.ret
      /\ transfer.ret <= transfer.len
      /\ transfer.offset < ioRegion.size /\ transfer.offset + transfer.ret <= ioRegion.size
      /\ moved = {<<transfer.offset + k, k>> : k \in 0 .. bufAt - 1}
  BY <1>0 DEF BlockInv
<1>4. moved' = {<<transfer.offset + k, k>> : k \in 0 .. bufAt + n - 1}
  <2> DEFINE o == transfer.offset
             b == bufAt
             New == {<<o + k, k>> : k \in 0 .. b + n - 1}
  <2>1. ASSUME NEW k \in 0 .. n - 1
        PROVE  <<ptrAt + k, b + k>> \in New
    <3>1. ptrAt + k = o + (b + k) /\ b + k \in 0 .. b + n - 1
      BY <1>0, <1>3
    <3> QED
      BY <3>1
  <2>2. ASSUME NEW k \in 0 .. b - 1
        PROVE  <<o + k, k>> \in New
    BY <1>0
  <2>3. ASSUME NEW k \in 0 .. b + n - 1
        PROVE  <<o + k, k>> \in moved'
    <3>1. CASE k < b
      BY <3>1, <1>0, <1>1, <1>3
    <3>2. CASE k >= b
      <4>1. PICK j \in 0 .. n - 1 : k = b + j
        BY <3>2, <1>0
      <4>2. o + k = ptrAt + j
        BY <4>1, <1>0, <1>3
      <4> QED
        BY <4>1, <4>2, <1>1
    <3> QED
      BY <3>1, <3>2, <1>0
  <2> QED
    BY <2>1, <2>2, <2>3, <1>1, <1>3
<1>5. BlockInv'
  <2>1. transfer.kind' # "none" /\ bufAt' - 1 = bufAt + n - 1
    BY <1>0, <1>1
  <2>2. /\ ptrAt' = transfer'.offset + bufAt' /\ bufAt' + lenLeft' = transfer'.ret
    BY <1>0, <1>1, <1>3
  <2> QED
    BY <2>1, <2>2, <1>1, <1>3, <1>4 DEF BlockInv
<1> QED
  BY <1>2, <1>5

\* Opening a region, each turn of a transfer and its return keep IoInv.
LEMMA IoInductive == IoInv /\ [IoNext]_ioVars => IoInv'
<1> SUFFICES ASSUME IoInv, [IoNext]_ioVars PROVE IoInv'
  OBVIOUS
<1>0. /\ IoTypeOK /\ BlockInv /\ WordsAligned
      /\ ULONG \in Nat \ {0} /\ INT \in Nat \ {0} /\ MaxLen \in Nat
  BY IoAssumption DEF IoInv, IoAssumption
<1>1. ASSUME NEW kind \in {"read", "write", "set"}, NEW offset \in 0 .. ioRegion.size,
             NEW len \in 0 .. MaxLen, NEW buf \in 0 .. INT - 1, BlockCall(kind, offset, len, buf)
      PROVE  IoInv'
  <2>1. ioRegion.size \in Nat /\ offset \in Nat /\ len \in Nat /\ buf \in Nat
    BY <1>0, SizeType
  <2>2. offset < ioRegion.size
    BY <1>1 DEF BlockCall, IoVirt
  <2>3. PICK n \in Nat : /\ n = Clipped(ioRegion, offset, len)
                         /\ n <= len /\ offset + n <= ioRegion.size
    BY <2>1, <2>2 DEF Clipped
  <2>4. /\ transfer' = [kind |-> kind, offset |-> offset, len |-> len, ret |-> n, buf |-> buf]
        /\ lenLeft' = n /\ ptrAt' = offset /\ bufAt' = 0 /\ moved' = {} /\ wide' = {}
        /\ ioRegion' = ioRegion
    BY <1>1, <2>3 DEF BlockCall
  <2>5. IoTypeOK'
    BY <2>1, <2>4, <1>0 DEF IoTypeOK, TransferKinds
  <2>6. BlockInv'
    BY <2>1, <2>2, <2>3, <2>4 DEF BlockInv
  <2>7. WordsAligned'
    BY <2>4 DEF WordsAligned
  <2> QED
    BY <2>5, <2>6, <2>7 DEF IoInv
<1>2. ASSUME NEW io \in IoRegions, IoOpen(io)
      PROVE  IoInv'
  <2>1. /\ ioRegion = Closed /\ ioRegion' = io
        /\ UNCHANGED <<transfer, ptrAt, bufAt, lenLeft, moved, wide>>
    BY <1>2 DEF IoOpen
  <2>2. transfer.kind = "none"
    <3>1. ioRegion.size = 0 /\ transfer.offset \in Nat
      BY <2>1, <1>0 DEF Closed, IoTypeOK
    <3> QED
      BY <3>1, <1>0 DEF BlockInv
  <2>3. IoTypeOK'
    BY <2>1, <1>0 DEF IoTypeOK
  <2>4. BlockInv'
    BY <2>1, <2>2, <1>0 DEF BlockInv
  <2>5. WordsAligned'
    BY <2>1, <1>0 DEF WordsAligned
  <2> QED
    BY <2>3, <2>4, <2>5 DEF IoInv
<1>3. ASSUME IoFinish
      PROVE  IoInv'
  <2>1. /\ transfer = NoTransfer /\ ioRegion' = Closed
        /\ UNCHANGED <<transfer, ptrAt, bufAt, lenLeft, moved, wide>>
    BY <1>3 DEF IoFinish
  <2>2. transfer.kind = "none"
    BY <2>1 DEF NoTransfer
  <2>3. IoTypeOK'
    BY <2>1, <1>0 DEF IoTypeOK
  <2>4. BlockInv'
    BY <2>1, <2>2, <1>0 DEF BlockInv
  <2>5. WordsAligned'
    BY <2>1, <1>0 DEF WordsAligned
  <2> QED
    BY <2>3, <2>4, <2>5 DEF IoInv
<1>4. ASSUME MoveByte
      PROVE  IoInv'
  <2>1. transfer.kind # "none" /\ lenLeft # 0 /\ IoMove(1) /\ wide' = wide
    BY <1>4 DEF MoveByte
  <2>2. 1 \in Nat /\ 1 <= lenLeft
    BY <2>1, <1>0 DEF IoTypeOK
  <2>3. IoTypeOK' /\ BlockInv'
    BY <2>1, <2>2, MoveStep
  <2>4. WordsAligned'
    BY <2>1, <1>0 DEF WordsAligned
  <2> QED
    BY <2>3, <2>4 DEF IoInv
<1>5. ASSUME MoveWord
      PROVE  IoInv'
  <2>1. /\ transfer.kind # "none" /\ ~InHead /\ lenLeft >= INT /\ IoMove(INT)
        /\ wide' = {PtrAddr} \cup (IF transfer.kind = "set" THEN {} ELSE {BufAddr})
    BY <1>5 DEF MoveWord
  <2>2. INT \in Nat /\ INT <= lenLeft
    BY <2>1, <1>0 DEF IoTypeOK
  <2>3. IoTypeOK' /\ BlockInv'
    BY <2>1, <2>2, MoveStep
  <2>4. PtrAddr % INT = 0 /\ (transfer.kind # "set" => BufAddr % INT = 0)
    BY <2>1 DEF InHead
  <2>5. WordsAligned'
    BY <2>1, <2>4 DEF WordsAligned
  <2> QED
    BY <2>3, <2>5 DEF IoInv
<1>6. ASSUME BlockReturn
      PROVE  IoInv'
  <2>1. /\ transfer' = NoTransfer /\ ptrAt' = 0 /\ bufAt' = 0 /\ moved' = {} /\ wide' = {}
        /\ ioRegion' = ioRegion /\ lenLeft' = lenLeft
    BY <1>6 DEF BlockReturn
  <2>2. IoTypeOK'
    BY <2>1, <1>0 DEF IoTypeOK, NoTransfer, TransferKinds
  <2>3. BlockInv'
    BY <2>1 DEF BlockInv, NoTransfer
  <2>4. WordsAligned'
    BY <2>1 DEF WordsAligned
  <2> QED
    BY <2>2, <2>3, <2>4 DEF IoInv
<1>7. ASSUME UNCHANGED ioVars
      PROVE  IoInv'
  <2>1. UNCHANGED <<ioRegion, transfer, ptrAt, bufAt, lenLeft, moved, wide>>
    BY <1>7 DEF ioVars
  <2>2. IoTypeOK'
    BY <2>1, <1>0 DEF IoTypeOK
  <2>3. BlockInv'
    BY <2>1, <1>0 DEF BlockInv
  <2>4. WordsAligned'
    BY <2>1, <1>0 DEF WordsAligned
  <2> QED
    BY <2>2, <2>3, <2>4 DEF IoInv
<1> QED
  BY <1>1, <1>2, <1>3, <1>4, <1>5, <1>6, <1>7 DEF IoNext

\* IoInv is what IoExact asks for; the translations need only the regions.
LEMMA IoInvExact == IoInv => IoExact
<1> SUFFICES ASSUME IoInv PROVE IoExact
  OBVIOUS
<1>0. IoTypeOK /\ BlockInv /\ WordsAligned
  BY DEF IoInv
<1>1. TranslationExact
  <2>1. ioRegion # Closed => ioRegion \in IoRegions
    BY <1>0 DEF IoTypeOK
  <2> QED
    BY <2>1, RegionTranslates DEF TranslationExact
<1>2. BlockExact
  <2>0. /\ transfer.offset \in Nat /\ transfer.ret \in Nat /\ transfer.len \in Nat
        /\ bufAt \in Nat /\ lenLeft \in Nat /\ ioRegion.size \in Nat
    BY <1>0, SizeType DEF IoTypeOK
  <2>1. transfer.kind # "none" /\ lenLeft = 0
          => moved = {<<transfer.offset + k, k>> : k \in 0 .. transfer.ret - 1}
    <3>1. transfer.kind # "none" /\ lenLeft = 0 => bufAt = transfer.ret
      BY <1>0, <2>0 DEF BlockInv
    <3> QED
      BY <3>1, <1>0 DEF BlockInv
  <2>2. ASSUME NEW m \in moved
        PROVE  m[1] < ioRegion.size /\ m[2] < transfer.len
    <3>1. PICK k \in 0 .. bufAt - 1 : m = <<transfer.offset + k, k>>
      BY <1>0 DEF BlockInv
    <3>2. transfer.kind # "none"
      BY <3>1, <1>0 DEF BlockInv
    <3>3. k < transfer.ret
      BY <3>2, <1>0, <2>0 DEF BlockInv
    <3>4. transfer.offset + transfer.ret <= ioRegion.size /\ transfer.ret <= transfer.len
      BY <3>2, <1>0 DEF BlockInv
    <3>5. transfer.offset + k < ioRegion.size /\ k < transfer.len
      BY <3>3, <3>4, <2>0
    <3> QED
      BY <3>1, <3>5
  <2> QED
    BY <2>1, <2>2 DEF BlockExact
<1> QED
  BY <1>0, <1>1, <1>2 DEF IoExact

\* Whatever the regions and the lengths, translations are inverse to each other
\* and block transfers move exactly the bytes they report.
THEOREM IoIsExact == IoSpec => []IoExact
<1>1. IoInit => IoInv
  BY IoInvInit
<1>2. IoInv /\ [IoNext]_ioVars => IoInv'
  BY IoInductive
<1>3. IoInv => IoExact
  BY IoInvExact
<1> QED
  BY <1>1, <1>2, <1>3, PTL DEF IoSpec

-----------------------------------------------------------------------------
(***************************************************************************)
(* The heap.  HeapInv says that free nodes and blocks in use partition the *)
(* regions that were added.                                                *)
(***************************************************************************)

(***************************************************************************)
(* Addresses and sizes that are multiples of the word.                     *)
(***************************************************************************)
AlignedWord(x) == x \in Nat /\ x % WORD = 0

\* The word and the modulus of size_t.
LEMMA WordType == WORD \in Nat \ {0} /\ SIZE_T \in Nat \ {0} /\ SIZE_T % WORD = 0 /\ 4 * WORD < SIZE_T
  BY HeapAssumption DEF HeapAssumption

\* A multiple of the word, with its factor named.
LEMMA AlignedFactor ==
  ASSUME NEW x \in Nat
  PROVE  AlignedWord(x) <=> \E q \in Nat : x = q * WORD
<1>1. ASSUME AlignedWord(x)
      PROVE  \E q \in Nat : x = q * WORD
  <2>1. x \div WORD \in Nat /\ x = (x \div WORD) * WORD + (x % WORD)
    BY WordType, SMT
  <2>2. PICK q \in Nat : q = x \div WORD
    BY <2>1
  <2>3. x = q * WORD + 0
    BY <1>1, <2>1, <2>2 DEF AlignedWord
  <2> QED
    BY <2>3, WordType
<1>2. ASSUME NEW q \in Nat, x = q * WORD
      PROVE  AlignedWord(x)
  BY <1>2, WordType, SMT DEF AlignedWord
<1> QED
  BY <1>1, <1>2

\* Sums and differences of multiples, and the first multiples.
LEMMA AlignedSums ==
  ASSUME NEW x \in Nat, NEW y \in Nat, AlignedWord(x), AlignedWord(y)
  PROVE  /\ AlignedWord(x + y)
         /\ x <= y => AlignedWord(y - x)
         /\ x < y => x + WORD <= y
<1>0. WORD \in Nat \ {0}
  BY WordType
<1>1. PICK p \in Nat : x = p * WORD
  BY AlignedFactor
<1>2. PICK q \in Nat : y = q * WORD
  BY AlignedFactor
<1>3. x + y = (p + q) * WORD /\ p + q \in Nat /\ x + y \in Nat
  BY <1>0, <1>1, <1>2, SMT
<1>4. ASSUME x <= y
      PROVE  y - x \in Nat /\ q - p \in Nat /\ y - x = (q - p) * WORD
  <2>1. p <= q
    <3> SUFFICES ASSUME q < p PROVE FALSE
      OBVIOUS
    <3>1. q * WORD < p * WORD
      BY <1>0, SMT
    <3> QED
      BY <3>1, <1>1, <1>2, <1>4
  <2>2. q - p \in Nat
    BY <2>1
  <2>3. y - x = (q - p) * WORD
    BY <1>0, <1>1, <1>2, SMT
  <2> QED
    BY <2>2, <2>3, <1>4
<1>5. ASSUME x < y
      PROVE  x + WORD <= y
  <2>1. p < q
    <3> SUFFICES ASSUME q <= p PROVE FALSE
      OBVIOUS
    <3>1. q * WORD <= p * WORD
      BY <1>0, SMT
    <3> QED
      BY <3>1, <1>1, <1>2, <1>5
  <2>2. (p + 1) * WORD <= q * WORD
    BY <2>1, <1>0, SMT
  <2>3. (p + 1) * WORD = p * WORD + WORD
    BY <1>0, SMT
  <2> QED
    BY <2>2, <2>3, <1>1, <1>2
<1>6. AlignedWord(x + y)
  BY <1>3, AlignedFactor
<1>7. x <= y => AlignedWord(y - x)
  BY <1>4, AlignedFactor
<1> QED
  BY <1>5, <1>6, <1>7

\* The multiples of the word that the code names.
LEMMA FewWords ==
  /\ AlignedWord(0) /\ AlignedWord(WORD) /\ AlignedWord(2 * WORD) /\ AlignedWord(SIZE_T)
  /\ 2 * WORD \in Nat
  BY WordType, SMT DEF AlignedWord

\* Rounding down and up.
LEMMA BottomFacts ==
  ASSUME NEW x \in Nat
  PROVE  AlignedWord(BottomAlign(x)) /\ BottomAlign(x) <= x /\ x < BottomAlign(x) + WORD
<1>1. PICK q \in Nat : q = x \div WORD
  BY WordType, SMT
<1>2. q * WORD <= x /\ x < q * WORD + WORD /\ q * WORD \in Nat
  BY <1>1, WordType, SMT
<1>3. BottomAlign(x) = q * WORD
  BY <1>1 DEF BottomAlign
<1>4. AlignedWord(q * WORD)
  BY <1>2, AlignedFactor
<1> QED
  BY <1>2, <1>3, <1>4

\* Rounding down finds the multiple of the word that is less than a word below.
LEMMA BottomExact ==
  ASSUME NEW x \in Nat, NEW y \in Nat, AlignedWord(y), y <= x, x < y + WORD
  PROVE  BottomAlign(x) = y
<1>1. AlignedWord(BottomAlign(x)) /\ BottomAlign(x) <= x /\ x < BottomAlign(x) + WORD
  BY BottomFacts
<1>2. PICK b \in Nat : b = BottomAlign(x)
  BY <1>1 DEF AlignedWord
<1>3. AlignedWord(b) /\ b <= x /\ x < b + WORD
  BY <1>1, <1>2
<1>4. ~(b < y)
  <2>1. b < y => b + WORD <= y
    BY <1>3, AlignedSums
  <2> QED
    BY <2>1, <1>3, WordType
<1>5. ~(y < b)
  <2>1. y < b => y + WORD <= b
    BY <1>3, AlignedSums
  <2> QED
    BY <2>1, <1>3, WordType
<1> QED
  BY <1>2, <1>4, <1>5

\* Rounding up, where the sum does not wrap in size_t.
LEMMA TopFacts ==
  ASSUME NEW x \in Nat, x <= SIZE_T - WORD
  PROVE  AlignedWord(TopAlign(x)) /\ x <= TopAlign(x) /\ TopAlign(x) < x + WORD /\ TopAlign(x) <= SIZE_T - WORD
<1>0. WORD \in Nat \ {0} /\ SIZE_T \in Nat \ {0}
  BY WordType
<1>1. PICK y \in Nat : y = x + WORD - 1 /\ y < SIZE_T
  BY <1>0
<1>2. y % SIZE_T = y
  BY <1>0, <1>1, SMT
<1>3. TopAlign(x) = BottomAlign(y)
  BY <1>1, <1>2 DEF TopAlign
<1>4. PICK b \in Nat : b = BottomAlign(y) /\ AlignedWord(b) /\ b <= y /\ y < b + WORD
  BY BottomFacts DEF AlignedWord
<1>5. b + WORD <= SIZE_T
  <2>1. b < SIZE_T
    BY <1>0, <1>1, <1>4
  <2> QED
    BY <2>1, <1>0, <1>4, FewWords, AlignedSums
<1> QED
  BY <1>0, <1>1, <1>3, <1>4, <1>5

\* A multiple of the word is not moved by rounding up, even close to the top.
LEMMA TopExact ==
  ASSUME NEW x \in Nat, AlignedWord(x), x < SIZE_T
  PROVE  TopAlign(x) = x
<1>1. x + WORD <= SIZE_T
  BY FewWords, AlignedSums, WordType
<1>2. x \in Nat /\ x <= SIZE_T - WORD
  BY <1>1, WordType
<1>3. PICK t \in Nat : t = TopAlign(x) /\ AlignedWord(t) /\ x <= t /\ t < x + WORD
  BY <1>2, TopFacts DEF AlignedWord
<1>4. ~(x < t)
  BY <1>3, AlignedSums, WordType
<1> QED
  BY <1>3, <1>4

\* The requests whose node has the right size.  From SIZE_T - WORD on the overhead
\* wraps, which gives the smallest node, too small but in order; in between the
\* rounding wraps, or the overhead that a moved block is asked for with.
SizeFits(s) == s <= SIZE_T - 3 * WORD \/ s >= SIZE_T - WORD

\* The node for a request: aligned, large enough for a free node, and for the
\* request with its overhead wherever that fits in size_t.
LEMMA NodeSizeFacts ==
  ASSUME NEW s \in 0 .. SIZE_T - 1, SizeFits(s) \/ AlignedWord(s)
  PROVE  /\ AlignedWord(NodeSize(s)) /\ NodeSize(s) >= 2 * WORD /\ NodeSize(s) <= SIZE_T - WORD
         /\ s + 2 * WORD <= SIZE_T => NodeSize(s) >= s + WORD
         /\ s <= SIZE_T - 3 * WORD => NodeSize(s) <= SIZE_T - 2 * WORD
         /\ s <= SIZE_T - 2 * WORD /\ AlignedWord(s) /\ s >= WORD => NodeSize(s) = s + WORD
<1>0. WORD \in Nat \ {0} /\ SIZE_T \in Nat \ {0} /\ 4 * WORD < SIZE_T
  BY WordType
<1> DEFINE need == (s + WORD) % SIZE_T
           x == IF need < 2 * WORD THEN 2 * WORD ELSE need
<1>1. NodeSize(s) = TopAlign(x)
  BY DEF NodeSize, NUT_HEAP_OVERHEAD, NUTMEM_HEAPNODE_MIN
<1>2. CASE s <= SIZE_T - 2 * WORD
  <2>1. s + WORD < SIZE_T /\ s + WORD \in Nat
    BY <1>0, <1>2
  <2>2. need = s + WORD
    BY <2>1, <1>0, SMT
  <2>3. x \in Nat /\ x <= SIZE_T - WORD /\ x >= 2 * WORD /\ x >= s + WORD
    BY <2>2, <1>0, <1>2
  <2>4. PICK t \in Nat : t = TopAlign(x) /\ AlignedWord(t) /\ x <= t /\ t < x + WORD /\ t <= SIZE_T - WORD
    BY <2>3, TopFacts DEF AlignedWord
  <2>5. s <= SIZE_T - 3 * WORD => t <= SIZE_T - 2 * WORD
    <3> SUFFICES ASSUME s <= SIZE_T - 3 * WORD, SIZE_T - 2 * WORD < t PROVE FALSE
      BY <1>0
    <3>1. x <= SIZE_T - 2 * WORD
      BY <2>2, <1>0
    <3>2. SIZE_T - 2 * WORD \in Nat /\ AlignedWord(SIZE_T - 2 * WORD)
      BY <1>0, FewWords, AlignedSums
    <3>3. PICK z \in Nat : z = SIZE_T - 2 * WORD
      BY <3>2
    <3>4. z + WORD <= t
      BY <3>2, <3>3, <2>4, AlignedSums
    <3> QED
      BY <3>1, <3>3, <3>4, <2>4, <1>0
  <2>6. AlignedWord(s) /\ s >= WORD => t = s + WORD
    <3> SUFFICES ASSUME AlignedWord(s), s >= WORD PROVE t = s + WORD
      OBVIOUS
    <3>1. x = s + WORD
      BY <2>2, <1>0
    <3>2. AlignedWord(s + WORD)
      BY FewWords, AlignedSums, <1>0
    <3> QED
      BY <3>1, <3>2, <2>1, <2>4, TopExact
  <2> QED
    BY <1>0, <1>1, <2>3, <2>4, <2>5, <2>6
<1>3. CASE s > SIZE_T - 2 * WORD
  <2>1. s >= SIZE_T - WORD
    <3>1. CASE AlignedWord(s)
      <4>1. SIZE_T - 2 * WORD \in Nat /\ AlignedWord(SIZE_T - 2 * WORD)
        BY <1>0, FewWords, AlignedSums
      <4>2. PICK z \in Nat : z = SIZE_T - 2 * WORD /\ AlignedWord(z)
        BY <4>1
      <4>3. s \in Nat /\ z < s
        BY <4>2, <1>3, <1>0
      <4>4. z + WORD <= s
        BY <4>2, <4>3, <3>1, AlignedSums
      <4> QED
        BY <4>2, <4>4, <1>0
    <3>2. CASE SizeFits(s)
      BY <3>2, <1>0, <1>3 DEF SizeFits
    <3> QED
      BY <3>1, <3>2
  <2>2. PICK y \in 0 .. WORD - 1 : s + WORD = SIZE_T + y
    BY <2>1, <1>0
  <2>3. y < SIZE_T
    BY <1>0
  <2>4. need = y
    BY <2>2, <2>3, <1>0, SMT
  <2>5. x = 2 * WORD
    BY <2>4, <1>0
  <2>6. TopAlign(2 * WORD) = 2 * WORD
    BY <1>0, FewWords, TopExact
  <2> QED
    BY <1>0, <1>1, <1>3, <2>5, <2>6, FewWords
<1> QED
  BY <1>2, <1>3, <1>0

(***************************************************************************)
(* Nodes and lists of free nodes.                                          *)
(***************************************************************************)
HeapNode == [addr : Nat, size : Nat]

GoodNode(n) ==
  /\ AlignedWord(n.addr) /\ n.addr > 0
  /\ AlignedWord(n.size) /\ n.size >= 2 * WORD
  /\ End(n) < SIZE_T

\* A free list: in the order of addresses, with a gap between two nodes.
GoodList(list) ==
  /\ list \in Seq(HeapNode)
  /\ \A i \in 1 .. Len(list) : GoodNode(list[i])
  /\ \A i, j \in 1 .. Len(list) : i < j => End(list[i]) < list[j].addr

\* The bytes of a list.
FreeBytes(list) == UNION {Bytes(list[i]) : i \in 1 .. Len(list)}

\* A good node in numbers: it has bytes, and none behind the address space.
LEMMA GoodNumbers ==
  ASSUME NEW n, GoodNode(n)
  PROVE  /\ n.addr \in Nat /\ n.size \in Nat /\ n.addr > 0 /\ n.size > 0 /\ n.size >= 2 * WORD
         /\ End(n) = n.addr + n.size /\ End(n) \in Nat /\ End(n) < SIZE_T
         /\ n.addr \in Bytes(n)
<1>1. n.addr \in Nat /\ n.size \in Nat /\ n.addr > 0 /\ n.size >= 2 * WORD /\ End(n) < SIZE_T
  BY DEF GoodNode, AlignedWord
<1>2. n.size > 0
  BY <1>1, WordType
<1> QED
  BY <1>1, <1>2 DEF End, Bytes

\* The bytes of a node, by address.
LEMMA InBytes ==
  ASSUME NEW n, n.addr \in Nat, n.size \in Nat, NEW a
  PROVE  a \in Bytes(n) <=> a \in Nat /\ n.addr <= a /\ a < n.addr + n.size
  BY DEF Bytes, End

\* The bytes of a node as an interval.
LEMMA BytesOf ==
  ASSUME NEW n, n.addr \in Nat, n.size \in Nat
  PROVE  Bytes(n) = n.addr .. n.addr + n.size - 1
  BY DEF Bytes, End

\* The bytes of all nodes but one.
Rest(list, i) == UNION {Bytes(list[k]) : k \in (1 .. Len(list)) \ {i}}

\* A byte of the other nodes.
LEMMA InRest ==
  ASSUME NEW list, NEW i, NEW a
  PROVE  a \in Rest(list, i) <=> \E k \in (1 .. Len(list)) \ {i} : a \in Bytes(list[k])
  BY DEF Rest

\* A byte of the free list is one of some node.
LEMMA InFree ==
  ASSUME NEW list, NEW a
  PROVE  a \in FreeBytes(list) <=> \E i \in 1 .. Len(list) : a \in Bytes(list[i])
  BY DEF FreeBytes

\* Two nodes that share no byte lie one behind the other.
LEMMA Apart ==
  ASSUME NEW m, NEW n, m.addr \in Nat, m.size \in Nat \ {0}, n.addr \in Nat, n.size \in Nat \ {0}
  PROVE  Bytes(m) \cap Bytes(n) = {} <=> m.addr + m.size <= n.addr \/ n.addr + n.size <= m.addr
<1>1. ASSUME m.addr + m.size <= n.addr \/ n.addr + n.size <= m.addr
      PROVE  Bytes(m) \cap Bytes(n) = {}
  BY <1>1 DEF Bytes, End
<1>2. ASSUME ~(m.addr + m.size <= n.addr \/ n.addr + n.size <= m.addr)
      PROVE  Bytes(m) \cap Bytes(n) # {}
  <2>1. CASE m.addr <= n.addr
    <3>1. n.addr \in Bytes(m) /\ n.addr \in Bytes(n)
      BY <2>1, <1>2 DEF Bytes, End
    <3> QED
      BY <3>1
  <2>2. CASE n.addr < m.addr
    <3>1. m.addr \in Bytes(m) /\ m.addr \in Bytes(n)
      BY <2>2, <1>2 DEF Bytes, End
    <3> QED
      BY <3>1
  <2> QED
    BY <2>1, <2>2
<1> QED
  BY <1>1, <1>2

\* What is apart from the bytes of a list is apart from each of its nodes.
LEMMA ApartFromList ==
  ASSUME NEW list, GoodList(list), NEW f, f.addr \in Nat, f.size \in Nat \ {0},
         Bytes(f) \cap FreeBytes(list) = {}, NEW i \in 1 .. Len(list)
  PROVE  End(list[i]) <= f.addr \/ f.addr + f.size <= list[i].addr
<1>1. Bytes(f) \cap Bytes(list[i]) = {}
  BY InFree
<1>2. GoodNode(list[i])
  BY DEF GoodList
<1> QED
  BY <1>1, <1>2, Apart, GoodNumbers

\* A node with its first bytes taken, or more behind it.
LEMMA NodeMade ==
  ASSUME NEW a \in Nat, NEW z \in Nat, AlignedWord(a), AlignedWord(z), a > 0, z >= 2 * WORD, a + z < SIZE_T
  PROVE  GoodNode([addr |-> a, size |-> z]) /\ [addr |-> a, size |-> z] \in HeapNode
  BY DEF GoodNode, HeapNode, End

\* Inserting into a sequence.
LEMMA InsertAtFacts ==
  ASSUME NEW S, NEW s \in Seq(S), NEW i \in 1 .. Len(s), NEW e \in S
  PROVE  /\ InsertAt(s, i, e) \in Seq(S) /\ Len(InsertAt(s, i, e)) = Len(s) + 1
         /\ \A k \in 1 .. Len(s) + 1 :
              InsertAt(s, i, e)[k] = IF k < i THEN s[k] ELSE IF k = i THEN e ELSE s[k - 1]
<1> DEFINE a == SubSeq(s, 1, i - 1)
           b == SubSeq(s, i, Len(s))
           c == a \o <<e>>
<1>0. Len(s) \in Nat /\ i \in Nat /\ 1 <= i /\ i <= Len(s) /\ \A k \in 1 .. Len(s) : s[k] \in S
  BY LenProperties, ElementOfSeq
<1>1. a \in Seq(S) /\ Len(a) = i - 1 /\ \A k \in 1 .. i - 1 : a[k] = s[k]
  <2>1. \A k \in 1 .. i - 1 : s[k] \in S
    BY <1>0
  <2>2. /\ a \in Seq(S) /\ Len(a) = IF 1 <= i - 1 THEN (i - 1) - 1 + 1 ELSE 0
        /\ \A k \in 1 .. (i - 1) - 1 + 1 : a[k] = s[1 + k - 1]
    BY <1>0, <2>1, SubSeqProperties
  <2> QED
    BY <1>0, <2>2
<1>2. b \in Seq(S) /\ Len(b) = Len(s) - i + 1 /\ \A k \in 1 .. Len(s) - i + 1 : b[k] = s[i + k - 1]
  <2>1. \A k \in i .. Len(s) : s[k] \in S
    BY <1>0
  <2>2. /\ b \in Seq(S) /\ Len(b) = IF i <= Len(s) THEN Len(s) - i + 1 ELSE 0
        /\ \A k \in 1 .. Len(s) - i + 1 : b[k] = s[i + k - 1]
    BY <1>0, <2>1, SubSeqProperties
  <2> QED
    BY <1>0, <2>2
<1> HIDE DEF a, b
<1>3. c \in Seq(S) /\ Len(c) = i /\ \A k \in 1 .. i : c[k] = IF k < i THEN s[k] ELSE e
  <2>1. <<e>> \in Seq(S) /\ Len(<<e>>) = 1 /\ <<e>>[1] = e
    OBVIOUS
  <2>2. /\ c \in Seq(S) /\ Len(c) = Len(a) + 1
        /\ \A k \in 1 .. Len(a) + 1 : c[k] = IF k <= Len(a) THEN a[k] ELSE <<e>>[k - Len(a)]
    BY <1>1, <2>1, ConcatProperties
  <2> HIDE DEF c
  <2>3. Len(c) = i
    BY <2>2, <1>1, <1>0
  <2>4. \A k \in 1 .. i : c[k] = IF k < i THEN s[k] ELSE e
    <3> TAKE k \in 1 .. i
    <3>1. k \in 1 .. Len(a) + 1
      BY <1>1, <1>0
    <3>2. c[k] = IF k <= i - 1 THEN a[k] ELSE <<e>>[k - (i - 1)]
      BY <2>2, <3>1, <1>1
    <3>3. CASE k < i
      BY <3>3, <3>2, <1>1, <1>0
    <3>4. CASE k = i
      <4>1. k - (i - 1) = 1 /\ ~(k <= i - 1)
        BY <3>4, <1>0
      <4> QED
        BY <4>1, <3>2, <2>1, <3>4
    <3> QED
      BY <3>3, <3>4, <1>0
  <2> QED
    BY <2>2, <2>3, <2>4
<1> HIDE DEF c
<1>4. InsertAt(s, i, e) = c \o b
  BY DEF InsertAt, a, b, c
<1> DEFINE t == c \o b
<1>5. /\ t \in Seq(S) /\ Len(t) = Len(c) + Len(b)
      /\ \A k \in 1 .. Len(c) + Len(b) : t[k] = IF k <= Len(c) THEN c[k] ELSE b[k - Len(c)]
  BY <1>2, <1>3, ConcatProperties
<1> HIDE DEF t
<1>6. Len(t) = Len(s) + 1
  BY <1>0, <1>2, <1>3, <1>5
<1>7. \A k \in 1 .. Len(s) + 1 : t[k] = IF k < i THEN s[k] ELSE IF k = i THEN e ELSE s[k - 1]
  <2> TAKE k \in 1 .. Len(s) + 1
  <2>1. t[k] = IF k <= i THEN c[k] ELSE b[k - i]
    BY <1>0, <1>2, <1>3, <1>5
  <2>2. CASE k <= i
    BY <2>1, <2>2, <1>3, <1>0
  <2>3. CASE k > i
    <3>1. k - i \in 1 .. Len(s) - i + 1 /\ i + (k - i) - 1 = k - 1
      BY <2>3, <1>0
    <3> QED
      BY <2>1, <2>3, <3>1, <1>2, <1>0
  <2> QED
    BY <2>2, <2>3, <1>0
<1> QED
  BY <1>4, <1>5, <1>6, <1>7 DEF t

(***************************************************************************)
(* Taking bytes from a free list.                                          *)
(***************************************************************************)
\* A free list keeps its shape when node i is replaced by one that stays
\* between its neighbours.
LEMMA ReplaceNode ==
  ASSUME NEW list, GoodList(list), NEW i \in 1 .. Len(list), NEW r \in HeapNode, GoodNode(r),
         \A k \in 1 .. Len(list) : /\ k < i => End(list[k]) < r.addr
                                   /\ i < k => End(r) < list[k].addr
  PROVE  LET G == [list EXCEPT ![i] = r]
         IN  /\ GoodList(G)
             /\ FreeBytes(G) = Rest(list, i) \cup Bytes(r)
<1> DEFINE G == [list EXCEPT ![i] = r]
           n == Len(list)
<1>0. n \in Nat /\ list \in Seq(HeapNode) /\ DOMAIN list = 1 .. n
  BY DEF GoodList
<1>1. G \in Seq(HeapNode) /\ Len(G) = n /\ \A k \in 1 .. n : G[k] = IF k = i THEN r ELSE list[k]
  BY <1>0
<1> HIDE DEF G, n
<1>2. \A k \in 1 .. n : GoodNode(G[k])
  BY <1>1 DEF GoodList, n
<1>3. \A j, k \in 1 .. n : j < k => End(G[j]) < G[k].addr
  <2> TAKE j, k \in 1 .. n
  <2>1. CASE j = i
    BY <2>1, <1>0, <1>1 DEF n
  <2>2. CASE k = i
    BY <2>2, <1>0, <1>1 DEF n
  <2>3. CASE j # i /\ k # i
    BY <2>3, <1>1 DEF GoodList, n
  <2> QED
    BY <2>1, <2>2, <2>3
<1>4. GoodList(G)
  BY <1>1, <1>2, <1>3 DEF GoodList
<1>5. FreeBytes(G) = Rest(list, i) \cup Bytes(r)
  <2>1. ASSUME NEW a \in FreeBytes(G)
        PROVE  a \in Rest(list, i) \cup Bytes(r)
    <3>1. PICK k \in 1 .. n : a \in Bytes(G[k])
      BY <1>1, InFree
    <3>2. CASE k = i
      BY <3>1, <3>2, <1>1
    <3>3. CASE k # i
      BY <3>1, <3>3, <1>1, InRest DEF n
    <3> QED
      BY <3>2, <3>3
  <2>2. ASSUME NEW a \in Rest(list, i)
        PROVE  a \in FreeBytes(G)
    <3>0. PICK k \in (1 .. n) \ {i} : a \in Bytes(list[k])
      BY InRest DEF n
    <3>1. a \in Bytes(G[k]) /\ k \in 1 .. Len(G)
      BY <3>0, <1>1
    <3> QED
      BY <3>1, InFree
  <2>3. ASSUME NEW a \in Bytes(r)
        PROVE  a \in FreeBytes(G)
    <3>1. a \in Bytes(G[i]) /\ i \in 1 .. Len(G)
      BY <1>1 DEF n
    <3> QED
      BY <3>1, InFree
  <2> QED
    BY <2>1, <2>2, <2>3
<1> QED
  BY <1>4, <1>5 DEF G, n

\* The same with node i taken out.
LEMMA DropNode ==
  ASSUME NEW list, GoodList(list), NEW i \in 1 .. Len(list)
  PROVE  LET G == RemoveAt(list, i)
         IN  /\ GoodList(G)
             /\ Len(G) = Len(list) - 1
             /\ \A k \in 1 .. Len(list) - 1 : G[k] = list[IF k < i THEN k ELSE k + 1]
             /\ FreeBytes(G) = Rest(list, i)
<1> DEFINE G == RemoveAt(list, i)
           n == Len(list)
<1>0. n \in Nat /\ list \in Seq(HeapNode) /\ i \in 1 .. n
  BY DEF GoodList
<1>1. G \in Seq(HeapNode) /\ Len(G) = n - 1 /\ \A k \in 1 .. n - 1 : G[k] = list[IF k < i THEN k ELSE k + 1]
  BY <1>0, RemoveAtFacts
<1> HIDE DEF G, n
<1>2. GoodList(G)
  <2>1. \A k \in 1 .. n - 1 : (IF k < i THEN k ELSE k + 1) \in 1 .. n
    BY <1>0
  <2>2. \A j, k \in 1 .. n - 1 : j < k => (IF j < i THEN j ELSE j + 1) < (IF k < i THEN k ELSE k + 1)
    BY <1>0
  <2>3. \A k \in 1 .. n - 1 : GoodNode(G[k])
    BY <1>1, <2>1 DEF GoodList, n
  <2>4. \A j, k \in 1 .. n - 1 : j < k => End(G[j]) < G[k].addr
    <3> TAKE j, k \in 1 .. n - 1
    <3>1. PICK x \in 1 .. n : x = IF j < i THEN j ELSE j + 1
      BY <2>1
    <3>2. PICK y \in 1 .. n : y = IF k < i THEN k ELSE k + 1
      BY <2>1
    <3>3. j < k => x < y
      BY <2>2, <3>1, <3>2
    <3>4. G[j] = list[x] /\ G[k] = list[y]
      BY <1>1, <3>1, <3>2
    <3> QED
      BY <3>3, <3>4 DEF GoodList, n
  <2> QED
    BY <1>1, <2>3, <2>4 DEF GoodList
<1>3. FreeBytes(G) = Rest(list, i)
  <2>1. ASSUME NEW a \in FreeBytes(G)
        PROVE  a \in Rest(list, i)
    <3>1. PICK k \in 1 .. n - 1 : a \in Bytes(G[k])
      BY <1>1, InFree
    <3>2. PICK j \in (1 .. n) \ {i} : j = IF k < i THEN k ELSE k + 1
      BY <1>0
    <3>3. a \in Bytes(list[j])
      BY <3>1, <3>2, <1>1
    <3> QED
      BY <3>3, InRest DEF n
  <2>2. ASSUME NEW a \in Rest(list, i)
        PROVE  a \in FreeBytes(G)
    <3>0. PICK k \in (1 .. n) \ {i} : a \in Bytes(list[k])
      BY InRest DEF n
    <3>1. PICK j \in 1 .. n - 1 : k = IF j < i THEN j ELSE j + 1
      <4>0. k \in 1 .. n /\ k # i
        BY <3>0
      <4>1. CASE k < i
        <5>1. k \in 1 .. n - 1
          BY <4>0, <4>1, <1>0
        <5> QED
          BY <5>1, <4>1
      <4>2. CASE k > i
        <5>1. k - 1 \in 1 .. n - 1 /\ ~(k - 1 < i) /\ k = (k - 1) + 1
          BY <4>0, <4>2, <1>0
        <5> QED
          BY <5>1
      <4> QED
        BY <4>0, <4>1, <4>2, <1>0
    <3>2. a \in Bytes(G[j]) /\ j \in 1 .. Len(G)
      BY <3>0, <3>1, <1>1
    <3> QED
      BY <3>2, InFree
  <2> QED
    BY <2>1, <2>2
<1> QED
  BY <1>1, <1>2, <1>3 DEF G, n

\* Node i and the others.
LEMMA ListOfNode ==
  ASSUME NEW list, GoodList(list), NEW i \in 1 .. Len(list)
  PROVE  /\ FreeBytes(list) = Rest(list, i) \cup Bytes(list[i])
         /\ Rest(list, i) \cap Bytes(list[i]) = {}
<1> DEFINE rest == Rest(list, i)
<1>0. Len(list) \in Nat
  BY DEF GoodList
<1>1. FreeBytes(list) = rest \cup Bytes(list[i])
  BY DEF FreeBytes, Rest
<1>2. ASSUME NEW k \in (1 .. Len(list)) \ {i}
      PROVE  Bytes(list[k]) \cap Bytes(list[i]) = {}
  <2>1. GoodNode(list[k]) /\ GoodNode(list[i])
    BY DEF GoodList
  <2>2. (k < i => End(list[k]) < list[i].addr) /\ (i < k => End(list[i]) < list[k].addr)
    BY DEF GoodList
  <2>3. PICK m, q : m = list[k] /\ q = list[i]
    OBVIOUS
  <2>4. /\ m.addr \in Nat /\ m.size \in Nat \ {0} /\ End(m) = m.addr + m.size
        /\ q.addr \in Nat /\ q.size \in Nat \ {0} /\ End(q) = q.addr + q.size
    <3>1. GoodNode(m) /\ GoodNode(q)
      BY <2>1, <2>3
    <3> QED
      BY <3>1, GoodNumbers
  <2>5. End(m) < q.addr \/ End(q) < m.addr
    <3>1. k < i \/ i < k
      BY <1>0
    <3> QED
      BY <2>2, <2>3, <3>1
  <2>6. m.addr + m.size <= q.addr \/ q.addr + q.size <= m.addr
    BY <2>4, <2>5
  <2>7. Bytes(m) \cap Bytes(q) = {}
    BY <2>4, <2>6, Apart, Zenon
  <2> QED
    BY <2>3, <2>7
<1> QED
  BY <1>1, <1>2, InRest

\* An interval in two parts.
LEMMA IntervalSplit ==
  ASSUME NEW a \in Nat, NEW s \in Nat, NEW n \in Nat, n <= s
  PROVE  /\ (a + n .. a + s - 1) \cap (a .. a + n - 1) = {}
         /\ (a + n .. a + s - 1) \cup (a .. a + n - 1) = a .. a + s - 1
  OBVIOUS

\* Split gives an aligned node from the front of a free one and leaves a good list
\* of the other free bytes.
LEMMA SplitFacts ==
  ASSUME NEW list, GoodList(list), NEW i \in 1 .. Len(list),
         NEW need \in Nat, AlignedWord(need), need > 0, need <= list[i].size
  PROVE  LET cut == Split(list, i, need)
         IN  /\ GoodList(cut.list)
             /\ cut.node \in HeapNode /\ cut.node.addr = list[i].addr
             /\ AlignedWord(cut.node.size) /\ need <= cut.node.size /\ cut.node.size <= list[i].size
             /\ Bytes(cut.node) \cap FreeBytes(cut.list) = {}
             /\ Bytes(cut.node) \cup FreeBytes(cut.list) = FreeBytes(list)
<1> DEFINE rest == Rest(list, i)
           m == list[i]
<1>0. GoodNode(m) /\ m \in HeapNode /\ m.addr \in Nat /\ m.size \in Nat /\ WORD \in Nat \ {0}
  <2>1. GoodNode(m) /\ list \in Seq(HeapNode)
    BY DEF GoodList
  <2>2. m \in HeapNode
    BY <2>1, ElementOfSeq
  <2> HIDE DEF m
  <2> QED
    BY <2>1, <2>2, WordType DEF HeapNode
<1>1. FreeBytes(list) = rest \cup Bytes(m) /\ rest \cap Bytes(m) = {}
  BY ListOfNode
<1>2. CASE m.size - need >= NUTMEM_HEAPNODE_MIN
  <2> DEFINE r == [addr |-> m.addr + need, size |-> m.size - need]
             g == [addr |-> m.addr, size |-> need]
  <2>1. Split(list, i, need) = [list |-> [list EXCEPT ![i] = r], node |-> g]
    <3>1. list \in Seq(HeapNode)
      BY DEF GoodList
    <3>2. [list EXCEPT ![i] = [addr |-> @.addr + need, size |-> @.size - need]] = [list EXCEPT ![i] = r]
      BY <3>1
    <3> QED
      BY <1>2, <3>2 DEF Split
  <2>2. m.size - need >= 2 * WORD
    BY <1>2 DEF NUTMEM_HEAPNODE_MIN
  <2>3. /\ m.addr + need \in Nat /\ m.size - need \in Nat /\ m.addr + need > 0
        /\ (m.addr + need) + (m.size - need) < SIZE_T
    <3>1. m.addr > 0 /\ m.addr + m.size < SIZE_T
      BY <1>0, GoodNumbers
    <3> HIDE DEF m
    <3>2. PICK a \in Nat, s \in Nat : a = m.addr /\ s = m.size
      BY <1>0
    <3>3. a > 0 /\ a + s < SIZE_T /\ s - need >= 2 * WORD
      BY <3>1, <3>2, <2>2
    <3>4. a + need \in Nat /\ s - need \in Nat /\ a + need > 0 /\ (a + need) + (s - need) < SIZE_T
      BY <3>3, WordType
    <3> QED
      BY <3>2, <3>4
  <2>4. AlignedWord(m.addr + need) /\ AlignedWord(m.size - need)
    BY <1>0, AlignedSums DEF GoodNode
  <2>5. GoodNode(r) /\ r \in HeapNode
    <3>1. PICK a \in Nat : a = m.addr + need
      BY <2>3
    <3>2. PICK z \in Nat : z = m.size - need
      BY <2>3
    <3> QED
      BY <3>1, <3>2, <2>2, <2>3, <2>4, NodeMade
  <2>6. End(r) = End(m) /\ r.addr > m.addr
    BY <1>0 DEF End
  <2>7. \A k \in 1 .. Len(list) : /\ k < i => End(list[k]) < r.addr
                                  /\ i < k => End(r) < list[k].addr
    <3> TAKE k \in 1 .. Len(list)
    <3>1. k < i => End(list[k]) < m.addr
      BY DEF GoodList
    <3>2. i < k => End(m) < list[k].addr
      BY DEF GoodList
    <3>3. End(list[k]) \in Nat
      BY GoodNumbers DEF GoodList
    <3>4. r.addr \in Nat
      BY <2>3
    <3> QED
      BY <3>1, <3>2, <3>3, <3>4, <2>6, <1>0
  <2>8. Bytes(r) \cap Bytes(g) = {} /\ Bytes(r) \cup Bytes(g) = Bytes(m)
    <3>1. Bytes(r) = m.addr + need .. m.addr + m.size - 1
      BY <1>0 DEF Bytes, End
    <3>2. Bytes(g) = m.addr .. m.addr + need - 1
      BY <1>0 DEF Bytes, End
    <3>3. Bytes(m) = m.addr .. m.addr + m.size - 1
      BY <1>0, BytesOf
    <3>4. PICK a, s : a = m.addr /\ s = m.size
      OBVIOUS
    <3>5. a \in Nat /\ s \in Nat /\ need <= s
      BY <1>0, <3>4, Zenon
    <3>6. /\ (a + need .. a + s - 1) \cap (a .. a + need - 1) = {}
          /\ (a + need .. a + s - 1) \cup (a .. a + need - 1) = a .. a + s - 1
      BY <3>5, IntervalSplit, Zenon
    <3> QED
      BY <3>1, <3>2, <3>3, <3>4, <3>6, Zenon
  <2>9. g \in HeapNode /\ g.addr = m.addr /\ g.size = need
    BY <1>0 DEF HeapNode
  <2> HIDE DEF r, g, m, rest
  <2>10. GoodList([list EXCEPT ![i] = r]) /\ FreeBytes([list EXCEPT ![i] = r]) = rest \cup Bytes(r)
    BY <2>5, <2>7, ReplaceNode DEF rest, m
  <2>11. Split(list, i, need).list = [list EXCEPT ![i] = r] /\ Split(list, i, need).node = g
    BY <2>1
  <2>12. Bytes(g) \cap (rest \cup Bytes(r)) = {} /\ Bytes(g) \cup (rest \cup Bytes(r)) = FreeBytes(list)
    BY <1>1, <2>8
  <2>13. g.addr = list[i].addr /\ need <= list[i].size
    BY <2>9 DEF m
  <2>14. PICK G, x : G = Split(list, i, need).list /\ x = Split(list, i, need).node
    OBVIOUS
  <2>15. G = [list EXCEPT ![i] = r] /\ x = g
    BY <2>11, <2>14
  <2>16. /\ GoodList(G) /\ x \in HeapNode /\ x.addr = list[i].addr
         /\ AlignedWord(x.size) /\ need <= x.size /\ x.size <= list[i].size
         /\ Bytes(x) \cap FreeBytes(G) = {} /\ Bytes(x) \cup FreeBytes(G) = FreeBytes(list)
    <3>1. GoodList(G) /\ x \in HeapNode /\ x.addr = list[i].addr
      BY <2>9, <2>10, <2>13, <2>15
    <3>2. AlignedWord(x.size) /\ need <= x.size /\ x.size <= list[i].size
      <4>1. x.size = need
        BY <2>9, <2>15
      <4> QED
        BY <4>1
    <3>3. Bytes(x) \cap FreeBytes(G) = {} /\ Bytes(x) \cup FreeBytes(G) = FreeBytes(list)
      <4>1. FreeBytes(G) = rest \cup Bytes(r)
        BY <2>10, <2>15
      <4> QED
        BY <4>1, <2>12, <2>15
    <3> QED
      BY <3>1, <3>2, <3>3
  <2> QED
    BY <2>14, <2>16
<1>3. CASE ~(m.size - need >= NUTMEM_HEAPNODE_MIN)
  <2>1. Split(list, i, need) = [list |-> RemoveAt(list, i), node |-> m]
    BY <1>3 DEF Split
  <2>2. GoodList(RemoveAt(list, i)) /\ FreeBytes(RemoveAt(list, i)) = rest
    BY DropNode
  <2>3. AlignedWord(m.size) /\ need <= m.size /\ m.size <= m.size
    BY <1>0 DEF GoodNode
  <2>4. Split(list, i, need).list = RemoveAt(list, i) /\ Split(list, i, need).node = m
    BY <2>1
  <2> QED
    BY <1>0, <1>1, <2>2, <2>3, <2>4
<1> QED
  BY <1>2, <1>3

(***************************************************************************)
(* Releasing a node into a free list.                                      *)
(***************************************************************************)
LEMMA InsertNode ==
  ASSUME NEW list, GoodList(list), NEW i \in 1 .. Len(list), NEW f \in HeapNode, GoodNode(f),
         \A k \in 1 .. Len(list) : /\ k < i => End(list[k]) < f.addr
                                   /\ i <= k => End(f) < list[k].addr
  PROVE  LET G == InsertAt(list, i, f)
         IN  GoodList(G) /\ FreeBytes(G) = FreeBytes(list) \cup Bytes(f)
<1> DEFINE G == InsertAt(list, i, f)
           n == Len(list)
<1>0. n \in Nat /\ list \in Seq(HeapNode) /\ i \in 1 .. n
  BY DEF GoodList
<1>1. /\ G \in Seq(HeapNode) /\ Len(G) = n + 1
      /\ \A k \in 1 .. n + 1 : G[k] = IF k < i THEN list[k] ELSE IF k = i THEN f ELSE list[k - 1]
  BY <1>0, InsertAtFacts
<1> HIDE DEF G, n
\* An element of the new list is the new node, or one of the old ones.
<1>2. ASSUME NEW k \in 1 .. n + 1
      PROVE  \/ k = i /\ G[k] = f
             \/ \E x \in 1 .. n : G[k] = list[x] /\ (k < i => x = k) /\ (k > i => x = k - 1) /\ k # i
  <2>1. CASE k < i
    <3>1. k \in 1 .. n /\ G[k] = list[k]
      BY <2>1, <1>0, <1>1
    <3> QED
      BY <2>1, <3>1, <1>0
  <2>2. CASE k = i
    BY <2>2, <1>0, <1>1
  <2>3. CASE k > i
    <3>1. k - 1 \in 1 .. n /\ G[k] = list[k - 1]
      BY <2>3, <1>0, <1>1
    <3> QED
      BY <2>3, <3>1, <1>0
  <2> QED
    BY <2>1, <2>2, <2>3, <1>0
<1>3. \A k \in 1 .. n + 1 : GoodNode(G[k])
  BY <1>2 DEF GoodList, n
<1>4. \A j, k \in 1 .. n + 1 : j < k => End(G[j]) < G[k].addr
  <2> SUFFICES ASSUME NEW j \in 1 .. n + 1, NEW k \in 1 .. n + 1, j < k
               PROVE  End(G[j]) < G[k].addr
    OBVIOUS
  <2>0. /\ \A x, y \in 1 .. n : x < y => End(list[x]) < list[y].addr
        /\ \A x \in 1 .. n : (x < i => End(list[x]) < f.addr) /\ (i <= x => End(f) < list[x].addr)
    BY DEF GoodList, n
  <2>1. CASE j = i
    <3>0. k > i /\ k # i
      BY <2>1, <1>0
    <3>1. PICK y \in 1 .. n : G[k] = list[y] /\ y = k - 1
      BY <1>2, <3>0
    <3>2. i <= y /\ G[j] = f
      BY <3>1, <2>1, <1>2, <1>0
    <3> QED
      BY <3>1, <3>2, <2>0
  <2>2. CASE k = i
    <3>1. PICK x \in 1 .. n : G[j] = list[x] /\ x = j
      BY <1>2, <2>2, <1>0
    <3>2. x < i /\ G[k] = f
      BY <3>1, <2>2, <1>2, <1>0
    <3> QED
      BY <3>1, <3>2, <2>0
  <2>3. CASE j # i /\ k # i
    <3>1. PICK x \in 1 .. n : G[j] = list[x] /\ (j < i => x = j) /\ (j > i => x = j - 1)
      BY <1>2, <2>3
    <3>2. PICK y \in 1 .. n : G[k] = list[y] /\ (k < i => y = k) /\ (k > i => y = k - 1)
      BY <1>2, <2>3
    <3>3. x < y
      BY <3>1, <3>2, <2>3, <1>0
    <3> QED
      BY <3>1, <3>2, <3>3, <2>0
  <2> QED
    BY <2>1, <2>2, <2>3
<1>5. GoodList(G)
  BY <1>1, <1>3, <1>4 DEF GoodList
<1>6. FreeBytes(G) = FreeBytes(list) \cup Bytes(f)
  <2>1. ASSUME NEW a \in FreeBytes(G)
        PROVE  a \in FreeBytes(list) \cup Bytes(f)
    <3>1. PICK k \in 1 .. n + 1 : a \in Bytes(G[k])
      BY <1>1, InFree
    <3> QED
      BY <3>1, <1>2, InFree DEF n
  <2>2. ASSUME NEW a \in FreeBytes(list)
        PROVE  a \in FreeBytes(G)
    <3>1. PICK x \in 1 .. n : a \in Bytes(list[x])
      BY <2>2, InFree DEF n
    <3>2. CASE x < i
      <4>1. x \in 1 .. Len(G) /\ G[x] = list[x]
        BY <3>2, <1>0, <1>1
      <4> QED
        BY <3>1, <4>1, InFree
    <3>3. CASE x >= i
      <4>1. x + 1 \in 1 .. n + 1 /\ ~(x + 1 < i) /\ x + 1 # i /\ (x + 1) - 1 = x
        BY <3>3, <1>0
      <4>2. x + 1 \in 1 .. Len(G) /\ G[x + 1] = list[x]
        BY <4>1, <1>1
      <4> QED
        BY <3>1, <4>2, InFree
    <3> QED
      BY <3>2, <3>3, <1>0
  <2>3. ASSUME NEW a \in Bytes(f)
        PROVE  a \in FreeBytes(G)
    <3>1. i \in 1 .. Len(G) /\ G[i] = f
      BY <1>0, <1>1
    <3> QED
      BY <3>1, InFree
  <2> QED
    BY <2>1, <2>2, <2>3
<1> QED
  BY <1>5, <1>6 DEF G

\* A node behind all others is appended (the end of the walk in NutHeapRootFree).
LEMMA AppendNode ==
  ASSUME NEW list, GoodList(list), NEW f \in HeapNode, GoodNode(f),
         \A k \in 1 .. Len(list) : End(list[k]) < f.addr
  PROVE  LET G == Append(list, f)
         IN  GoodList(G) /\ FreeBytes(G) = FreeBytes(list) \cup Bytes(f)
<1> DEFINE G == Append(list, f)
           n == Len(list)
<1>0. n \in Nat /\ list \in Seq(HeapNode)
  BY DEF GoodList
<1>1. /\ G \in Seq(HeapNode) /\ Len(G) = n + 1
      /\ \A k \in 1 .. n : G[k] = list[k]
      /\ G[n + 1] = f
  BY <1>0, AppendProperties
<1> HIDE DEF G, n
<1>2. \A k \in 1 .. n + 1 : k \in 1 .. n \/ k = n + 1
  BY <1>0
<1>3. \A k \in 1 .. n + 1 : GoodNode(G[k])
  BY <1>1, <1>2 DEF GoodList, n
<1>4. \A j, k \in 1 .. n + 1 : j < k => End(G[j]) < G[k].addr
  <2> SUFFICES ASSUME NEW j \in 1 .. n + 1, NEW k \in 1 .. n + 1, j < k
               PROVE  End(G[j]) < G[k].addr
    OBVIOUS
  <2>1. j \in 1 .. n /\ G[j] = list[j]
    BY <1>0, <1>1
  <2>2. CASE k = n + 1
    BY <2>1, <2>2, <1>1 DEF n
  <2>3. CASE k \in 1 .. n
    BY <2>1, <2>3, <1>1 DEF GoodList, n
  <2> QED
    BY <2>2, <2>3, <1>2
<1>5. GoodList(G)
  BY <1>1, <1>3, <1>4 DEF GoodList
<1>6. FreeBytes(G) = FreeBytes(list) \cup Bytes(f)
  <2>1. ASSUME NEW a \in FreeBytes(G)
        PROVE  a \in FreeBytes(list) \cup Bytes(f)
    <3>1. PICK k \in 1 .. n + 1 : a \in Bytes(G[k])
      BY <1>1, InFree
    <3> QED
      BY <3>1, <1>1, <1>2, InFree DEF n
  <2>2. ASSUME NEW a \in FreeBytes(list)
        PROVE  a \in FreeBytes(G)
    <3>1. PICK x \in 1 .. n : a \in Bytes(list[x])
      BY <2>2, InFree DEF n
    <3>2. x \in 1 .. Len(G) /\ G[x] = list[x]
      BY <1>0, <1>1
    <3> QED
      BY <3>1, <3>2, InFree
  <2>3. ASSUME NEW a \in Bytes(f)
        PROVE  a \in FreeBytes(G)
    <3>1. n + 1 \in 1 .. Len(G) /\ G[n + 1] = f
      BY <1>0, <1>1
    <3> QED
      BY <3>1, InFree
  <2> QED
    BY <2>1, <2>2, <2>3
<1> QED
  BY <1>5, <1>6 DEF G

\* Two nodes without a gap between them make one.
LEMMA Joined ==
  ASSUME NEW m, GoodNode(m), NEW f, GoodNode(f), End(m) = f.addr
  PROVE  LET r == [addr |-> m.addr, size |-> m.size + f.size]
         IN  /\ GoodNode(r) /\ r \in HeapNode /\ End(r) = End(f) /\ r.addr = m.addr
             /\ Bytes(r) = Bytes(m) \cup Bytes(f)
<1> DEFINE r == [addr |-> m.addr, size |-> m.size + f.size]
<1>0. /\ m.addr \in Nat /\ m.size \in Nat /\ f.addr \in Nat /\ f.size \in Nat
      /\ m.addr + m.size = f.addr /\ m.addr > 0 /\ m.size >= 2 * WORD /\ f.size >= 2 * WORD
      /\ f.addr + f.size < SIZE_T
  BY GoodNumbers DEF End
<1>1. AlignedWord(m.addr) /\ AlignedWord(m.size + f.size)
  BY <1>0, AlignedSums DEF GoodNode
<1>2. /\ m.size + f.size \in Nat /\ m.size + f.size >= 2 * WORD
      /\ m.addr + (m.size + f.size) = f.addr + f.size
  BY <1>0, WordType
<1>3. GoodNode(r) /\ r \in HeapNode
  BY <1>0, <1>1, <1>2, NodeMade
<1>4. End(r) = End(f) /\ r.addr = m.addr
  BY <1>2 DEF End
<1>5. Bytes(r) = Bytes(m) \cup Bytes(f)
  <2>1. Bytes(r) = m.addr .. m.addr + (m.size + f.size) - 1
    BY <1>0, <1>2 DEF Bytes, End
  <2>2. Bytes(m) = m.addr .. m.addr + m.size - 1 /\ Bytes(f) = f.addr .. f.addr + f.size - 1
    BY <1>0, BytesOf
  <2>3. /\ (m.addr + m.size .. m.addr + (m.size + f.size) - 1) \cup (m.addr .. m.addr + m.size - 1)
             = m.addr .. m.addr + (m.size + f.size) - 1
    <3>1. PICK a \in Nat : a = m.addr
      BY <1>0
    <3>2. PICK s \in Nat : s = m.size + f.size
      BY <1>2
    <3>3. PICK x \in Nat : x = m.size
      BY <1>0
    <3>4. x <= s
      BY <3>2, <3>3, <1>0
    <3> QED
      BY <3>1, <3>2, <3>3, <3>4, IntervalSplit
  <2>4. Bytes(f) = m.addr + m.size .. m.addr + (m.size + f.size) - 1
    <3>1. f.addr = m.addr + m.size /\ f.addr + f.size - 1 = m.addr + (m.size + f.size) - 1
      BY <1>0
    <3> QED
      BY <2>2, <3>1
  <2> HIDE DEF r
  <2> QED
    BY <2>1, <2>2, <2>3, <2>4
<1> QED
  BY <1>3, <1>4, <1>5

\* NutHeapRootFree of a node that shares no byte with the list: the list stays
\* sorted and joined, and has the node's bytes and its own.
LEMMA ReleaseFacts ==
  ASSUME NEW list, GoodList(list), NEW f \in HeapNode, GoodNode(f), Bytes(f) \cap FreeBytes(list) = {}
  PROVE  GoodList(Release(list, f)) /\ FreeBytes(Release(list, f)) = FreeBytes(list) \cup Bytes(f)
<1> DEFINE n == Len(list)
           stops == {i \in DOMAIN list : End(list[i]) >= f.addr}
<1>0. n \in Nat /\ list \in Seq(HeapNode) /\ DOMAIN list = 1 .. n
  BY DEF GoodList
<1>1. f.addr \in Nat /\ f.size \in Nat \ {0} /\ End(f) = f.addr + f.size /\ End(f) \in Nat
  BY GoodNumbers
<1>2. \A k \in 1 .. n : /\ GoodNode(list[k]) /\ list[k].addr \in Nat /\ End(list[k]) \in Nat
                        /\ list[k].addr < End(list[k])
                        /\ End(list[k]) <= f.addr \/ End(f) <= list[k].addr
  <2> TAKE k \in 1 .. n
  <2>1. GoodNode(list[k])
    BY DEF GoodList
  <2>2. End(list[k]) <= f.addr \/ End(f) <= list[k].addr
    BY <1>1, ApartFromList
  <2>3. list[k].addr < End(list[k])
    BY <2>1, GoodNumbers
  <2> QED
    BY <2>1, <2>2, <2>3, GoodNumbers
<1>3. \A j, k \in 1 .. n : j < k => End(list[j]) < list[k].addr
  BY DEF GoodList
<1>4. CASE stops = {}
  <2>1. Release(list, f) = Append(list, f)
    BY <1>4 DEF Release
  <2>2. \A k \in 1 .. n : End(list[k]) < f.addr
    BY <1>0, <1>1, <1>2, <1>4
  <2> QED
    BY <2>1, <2>2, AppendNode
<1>5. CASE stops # {}
  <2>0. stops \in SUBSET Nat
    BY <1>0
  <2>1. PICK i \in stops : i = Min(stops) /\ \A k \in stops : i <= k
    BY <2>0, <1>5, MinIsLeast
  <2>2. i \in 1 .. n /\ End(list[i]) >= f.addr
    BY <1>0
  <2>3. \A k \in 1 .. n : k < i => End(list[k]) < f.addr
    <3> SUFFICES ASSUME NEW k \in 1 .. n, k < i PROVE End(list[k]) < f.addr
      OBVIOUS
    <3>1. k \notin stops
      <4>1. \A x \in stops : i <= x
        BY <2>1
      <4>2. ~(i <= k)
        BY <2>2, <1>0
      <4> HIDE DEF stops
      <4> QED
        BY <4>1, <4>2
    <3>2. End(list[k]) \in Nat /\ k \in DOMAIN list
      BY <1>0, <1>2
    <3> QED
      BY <3>1, <3>2, <1>1
  <2> DEFINE m == list[i]
             joined == [RemoveAt(list, i + 1) EXCEPT ![i].size = @ + f.size + list[i + 1].size]
             grown == [list EXCEPT ![i].size = @ + f.size]
             front == [list EXCEPT ![i] = [addr |-> f.addr, size |-> f.size + m.size]]
  <2>4. Release(list, f) =
          CASE End(m) = f.addr -> IF i < n /\ End(f) = list[i + 1].addr THEN joined ELSE grown
            [] m.addr > f.addr -> IF End(f) = m.addr THEN front ELSE InsertAt(list, i, f)
            [] OTHER -> list
    BY <1>5, <2>1 DEF Release
  <2>5. m.addr \in Nat /\ m.size \in Nat /\ GoodNode(m) /\ m \in HeapNode
    <3>1. m \in HeapNode /\ GoodNode(m)
      BY <1>0, <1>2, <2>2, ElementOfSeq
    <3> QED
      BY <3>1, GoodNumbers
  <2>6. CASE End(m) = f.addr
    <3> DEFINE r == [addr |-> m.addr, size |-> m.size + f.size]
    <3>0. ~(m.addr > f.addr)
      BY <2>2, <2>5, <2>6, <1>1, <1>2
    <3>1. /\ GoodNode(r) /\ r \in HeapNode /\ End(r) = End(f) /\ r.addr = m.addr
          /\ Bytes(r) = Bytes(m) \cup Bytes(f)
      BY <2>5, <2>6, Joined
    <3>2. CASE i < n /\ End(f) = list[i + 1].addr
      <4> DEFINE H == RemoveAt(list, i + 1)
                 g == list[i + 1]
                 q == [addr |-> m.addr, size |-> r.size + g.size]
      <4>0. i + 1 \in 1 .. n /\ GoodNode(g)
        BY <1>0, <1>2, <2>2, <3>2
      <4>1. /\ GoodList(H) /\ Len(H) = n - 1
            /\ \A k \in 1 .. n - 1 : H[k] = list[IF k < i + 1 THEN k ELSE k + 1]
            /\ FreeBytes(H) = Rest(list, i + 1)
        BY <4>0, DropNode
      <4>2. i \in 1 .. Len(H) /\ H[i] = m
        <5>1. i \in 1 .. n - 1 /\ i < i + 1
          BY <1>0, <2>2, <3>2
        <5> HIDE DEF H
        <5> QED
          BY <5>1, <4>1
      <4>3. /\ GoodNode(q) /\ q \in HeapNode /\ End(q) = End(g) /\ q.addr = m.addr
            /\ Bytes(q) = Bytes(r) \cup Bytes(g)
        <5>1. PICK u : u = r
          OBVIOUS
        <5>2. PICK v : v = g
          OBVIOUS
        <5>3. GoodNode(u) /\ GoodNode(v) /\ End(u) = v.addr /\ u.addr = m.addr
          BY <5>1, <5>2, <3>1, <3>2, <4>0, Zenon
        <5>4. LET w == [addr |-> u.addr, size |-> u.size + v.size]
              IN  /\ GoodNode(w) /\ w \in HeapNode /\ End(w) = End(v) /\ w.addr = u.addr
                  /\ Bytes(w) = Bytes(u) \cup Bytes(v)
          BY <5>3, Joined
        <5>5. q = [addr |-> u.addr, size |-> u.size + v.size]
          BY <5>1, <5>2, <5>3
        <5> HIDE DEF q, r, g
        <5> QED
          BY <5>1, <5>2, <5>3, <5>4, <5>5
      <4>4. joined = [H EXCEPT ![i] = q]
        <5>1. H \in Seq(HeapNode)
          BY <4>1 DEF GoodList
        <5>2. [H[i] EXCEPT !.size = @ + f.size + g.size] = q
          <6>1. g.size \in Nat
            BY <4>0, GoodNumbers
          <6>2. m = [addr |-> m.addr, size |-> m.size]
            BY <2>5 DEF HeapNode
          <6> HIDE DEF g
          <6>3. [m EXCEPT !.size = @ + f.size + g.size] = [addr |-> m.addr, size |-> m.size + f.size + g.size]
            BY <6>2, <2>5 DEF HeapNode
          <6> QED
            BY <6>3, <4>2
        <5>3. joined = [H EXCEPT ![i] = [H[i] EXCEPT !.size = @ + f.size + g.size]]
          OBVIOUS
        <5> HIDE DEF joined, q, H
        <5> QED
          BY <5>2, <5>3
      <4>5. \A k \in 1 .. Len(H) : /\ k < i => End(H[k]) < q.addr
                                   /\ i < k => End(q) < H[k].addr
        <5> TAKE k \in 1 .. Len(H)
        <5>1. CASE k < i
          <6>1. H[k] = list[k] /\ k \in 1 .. n
            BY <5>1, <4>1, <1>0, <2>2
          <6> QED
            BY <6>1, <5>1, <1>3, <2>2, <4>3
        <5>2. CASE i < k
          <6>1. H[k] = list[k + 1] /\ k + 1 \in 1 .. n /\ i + 1 < k + 1
            BY <5>2, <4>1, <1>0, <2>2
          <6> HIDE DEF H, q
          <6> QED
            BY <6>1, <5>2, <1>3, <4>0, <4>3
        <5> QED
          BY <5>1, <5>2, <1>0, <2>2
      <4>6. GoodList([H EXCEPT ![i] = q]) /\ FreeBytes([H EXCEPT ![i] = q]) = Rest(H, i) \cup Bytes(q)
        <5>1. PICK u \in HeapNode : u = q
          BY <4>3
        <5>2. PICK h : h = H
          OBVIOUS
        <5>3. GoodNode(u) /\ GoodList(h) /\ i \in 1 .. Len(h)
          BY <4>1, <4>2, <4>3, <5>1, <5>2, Zenon
        <5>4. \A k \in 1 .. Len(h) : /\ k < i => End(h[k]) < u.addr
                                     /\ i < k => End(u) < h[k].addr
          BY <4>5, <5>1, <5>2, Zenon
        <5>5. GoodList([h EXCEPT ![i] = u]) /\ FreeBytes([h EXCEPT ![i] = u]) = Rest(h, i) \cup Bytes(u)
          BY <5>3, <5>4, ReplaceNode
        <5> HIDE DEF H, q
        <5> QED
          BY <5>1, <5>2, <5>5
      <4>7. FreeBytes(H) = Rest(H, i) \cup Bytes(m)
        BY <4>1, <4>2, ListOfNode
      <4>8. FreeBytes(list) = Rest(list, i + 1) \cup Bytes(g)
        BY <4>0, ListOfNode
      <4>9. Release(list, f) = [H EXCEPT ![i] = q]
        <5>1. Release(list, f) = joined
          <6> HIDE DEF joined, grown, front, m
          <6> QED
            BY <2>4, <2>6, <3>0, <3>2, SMT
        <5> QED
          BY <4>4, <5>1, Zenon
      <4>10. GoodList(Release(list, f)) /\ FreeBytes(Release(list, f)) = Rest(H, i) \cup Bytes(q)
        <5> HIDE DEF H, q
        <5> QED
          BY <4>6, <4>9
      <4>11. FreeBytes(list) = (Rest(H, i) \cup Bytes(m)) \cup Bytes(g)
        <5>1. FreeBytes(H) = Rest(list, i + 1)
          BY <4>1
        <5> HIDE DEF H, m, g
        <5> QED
          BY <5>1, <4>7, <4>8
      <4>12. Bytes(q) = (Bytes(m) \cup Bytes(f)) \cup Bytes(g)
        <5> HIDE DEF q, r, m, g
        <5> QED
          BY <3>1, <4>3
      <4> HIDE DEF H, q, g, r, m
      <4> QED
        BY <4>10, <4>11, <4>12
    <3>3. CASE ~(i < n /\ End(f) = list[i + 1].addr)
      <4>1. grown = [list EXCEPT ![i] = r]
        <5>1. [m EXCEPT !.size = @ + f.size] = r
          <6>1. m = [addr |-> m.addr, size |-> m.size]
            BY <2>5 DEF HeapNode
          <6> QED
            BY <6>1, <2>5 DEF HeapNode
        <5>2. grown = [list EXCEPT ![i] = [m EXCEPT !.size = @ + f.size]]
          OBVIOUS
        <5> HIDE DEF grown, r
        <5> QED
          BY <5>1, <5>2
      <4>2. \A k \in 1 .. n : /\ k < i => End(list[k]) < r.addr
                              /\ i < k => End(r) < list[k].addr
        <5> TAKE k \in 1 .. n
        <5>1. CASE k < i
          BY <5>1, <1>3, <2>2, <3>1
        <5>2. CASE i < k
          <6>1. i + 1 \in 1 .. n /\ i < i + 1 /\ i < n
            BY <5>2, <1>0, <2>2
          <6>2. End(m) < list[i + 1].addr
            BY <6>1, <1>3, <2>2
          <6>3. End(f) <= list[i + 1].addr
            BY <6>1, <6>2, <2>6, <1>1, <1>2
          <6>4. End(f) < list[i + 1].addr
            BY <6>1, <6>3, <3>3, <1>1, <1>2
          <6>5. k = i + 1 \/ list[i + 1].addr < list[k].addr
            <7>1. i + 1 < k => End(list[i + 1]) < list[k].addr
              BY <6>1, <1>3
            <7>2. list[i + 1].addr < End(list[i + 1]) /\ list[i + 1].addr \in Nat
                  /\ End(list[i + 1]) \in Nat /\ list[k].addr \in Nat
              BY <6>1, <1>2
            <7> QED
              BY <7>1, <7>2, <5>2, <1>0, <2>2
          <6> QED
            BY <6>1, <6>4, <6>5, <3>1, <1>1, <1>2, <5>2
        <5> QED
          BY <5>1, <5>2, <1>0, <2>2
      <4>3. GoodList([list EXCEPT ![i] = r]) /\ FreeBytes([list EXCEPT ![i] = r]) = Rest(list, i) \cup Bytes(r)
        <5> HIDE DEF r
        <5> QED
          BY <2>2, <3>1, <4>2, ReplaceNode
      <4>4. FreeBytes(list) = Rest(list, i) \cup Bytes(m)
        BY <2>2, ListOfNode
      <4>5. Release(list, f) = [list EXCEPT ![i] = r]
        <5>1. Release(list, f) = grown
          <6> HIDE DEF joined, grown, front, m
          <6> QED
            BY <2>4, <2>6, <3>0, <3>3, SMT
        <5> QED
          BY <4>1, <5>1, Zenon
      <4> HIDE DEF r, m
      <4> QED
        BY <3>1, <4>3, <4>4, <4>5
    <3> QED
      BY <3>2, <3>3
  <2>7. CASE End(m) # f.addr /\ m.addr > f.addr
    <3>1. End(f) <= m.addr
      BY <2>2, <2>7, <1>1, <1>2
    <3>2. \A k \in 1 .. n : i < k => End(m) < list[k].addr
      BY <1>3, <2>2
    <3>3. CASE End(f) = m.addr
      <4> DEFINE r == [addr |-> f.addr, size |-> f.size + m.size]
      <4>1. /\ GoodNode(r) /\ r \in HeapNode /\ End(r) = End(m) /\ r.addr = f.addr
            /\ Bytes(r) = Bytes(f) \cup Bytes(m)
        BY <2>5, <3>3, Joined
      <4>2. \A k \in 1 .. n : /\ k < i => End(list[k]) < r.addr
                              /\ i < k => End(r) < list[k].addr
        <5> HIDE DEF r
        <5> QED
          BY <2>3, <3>2, <4>1
      <4>3. GoodList([list EXCEPT ![i] = r]) /\ FreeBytes([list EXCEPT ![i] = r]) = Rest(list, i) \cup Bytes(r)
        <5> HIDE DEF r
        <5> QED
          BY <2>2, <4>1, <4>2, ReplaceNode
      <4>4. FreeBytes(list) = Rest(list, i) \cup Bytes(m)
        BY <2>2, ListOfNode
      <4>5. Release(list, f) = [list EXCEPT ![i] = r]
        BY <2>4, <2>7, <3>3
      <4> HIDE DEF r, m
      <4> QED
        BY <4>1, <4>3, <4>4, <4>5
    <3>4. CASE End(f) # m.addr
      <4>1. Release(list, f) = InsertAt(list, i, f)
        BY <2>4, <2>7, <3>4
      <4>2. \A k \in 1 .. n : /\ k < i => End(list[k]) < f.addr
                              /\ i <= k => End(f) < list[k].addr
        <5> TAKE k \in 1 .. n
        <5>1. k < i => End(list[k]) < f.addr
          BY <2>3
        <5>2. i <= k => End(f) < list[k].addr
          <6>1. End(f) < m.addr
            BY <3>1, <3>4, <1>1, <2>5
          <6>2. i < k => m.addr < list[k].addr
            <7>1. m.addr < End(m) /\ End(m) \in Nat /\ list[k].addr \in Nat
              BY <1>2, <2>2
            <7> QED
              BY <7>1, <3>2, <2>5
          <6>3. list[k].addr \in Nat
            BY <1>2
          <6> QED
            BY <6>1, <6>2, <6>3, <1>0, <1>1, <2>2, <2>5
        <5> QED
          BY <5>1, <5>2
      <4> QED
        BY <4>1, <4>2, <2>2, InsertNode
    <3> QED
      BY <3>3, <3>4
  <2>8. CASE End(m) # f.addr /\ ~(m.addr > f.addr)
    <3>1. m.addr <= f.addr /\ f.addr < End(m)
      BY <2>2, <2>8, <1>1, <1>2, <2>5
    <3>2. End(m) <= f.addr \/ End(f) <= m.addr
      BY <2>2, <1>2
    <3>3. f.addr < End(f)
      BY <1>1
    <3>4. End(m) \in Nat
      BY <2>2, <1>2
    <3> QED
      BY <3>1, <3>2, <3>3, <3>4, <1>1, <2>5
  <2> QED
    BY <2>6, <2>7, <2>8
<1> QED
  BY <1>4, <1>5

(***************************************************************************)
(* The heap: the free list and the allocated blocks share out the memory.  *)
(***************************************************************************)
GoodBlock(b) ==
  /\ b \in [addr : Nat, size : Nat, want : Nat] /\ GoodNode(b)
  /\ b.want + WORD + WORD <= SIZE_T => b.size >= b.want + WORD

BlockBytes(L) == UNION {Bytes(b) : b \in L}

\* Free list F and blocks L share out the bytes M.
Sound(F, L, M) ==
  /\ GoodList(F)
  /\ IsFiniteSet(L)
  /\ \A b \in L : GoodBlock(b) /\ Bytes(b) \cap FreeBytes(F) = {}
  /\ \A b, c \in L : b = c \/ Bytes(b) \cap Bytes(c) = {}
  /\ FreeBytes(F) \cup BlockBytes(L) = M

\* A byte of some blocks.
LEMMA InBlocks ==
  ASSUME NEW L, NEW a
  PROVE  a \in BlockBytes(L) <=> \E b \in L : a \in Bytes(b)
  BY DEF BlockBytes

\* The blocks K become free, and what was free and K become the free list G and
\* the blocks N, of which there is at most one.
LEMMA Exchange ==
  ASSUME NEW F, NEW L, NEW M, Sound(F, L, M), NEW K \in SUBSET L,
         NEW G, GoodList(G), NEW N, IsFiniteSet(N),
         \A n \in N : GoodBlock(n) /\ Bytes(n) \cap FreeBytes(G) = {},
         \A m, n \in N : m = n,
         FreeBytes(G) \cup BlockBytes(N) = FreeBytes(F) \cup BlockBytes(K)
  PROVE  Sound(G, (L \ K) \cup N, M)
<1> DEFINE R == (L \ K) \cup N
<1>1. IsFiniteSet(R)
  <2>1. IsFiniteSet(L)
    BY DEF Sound
  <2>2. IsFiniteSet(L \ K)
    BY <2>1, FS_Difference
  <2> QED
    BY <2>2, FS_Union
<1>2. ASSUME NEW b \in L \ K, NEW a \in Bytes(b)
      PROVE  a \notin FreeBytes(F) \cup BlockBytes(K)
  <2>1. a \notin FreeBytes(F)
    BY <1>2 DEF Sound
  <2>2. ASSUME NEW c \in K
        PROVE  a \notin Bytes(c)
    <3>1. b \in L /\ c \in L /\ b # c
      OBVIOUS
    <3>2. Bytes(b) \cap Bytes(c) = {}
      BY <3>1 DEF Sound
    <3> QED
      BY <3>2, <1>2
  <2> QED
    BY <2>1, <2>2, InBlocks
<1>3. ASSUME NEW b \in L \ K
      PROVE  GoodBlock(b) /\ Bytes(b) \cap FreeBytes(G) = {} /\ Bytes(b) \cap BlockBytes(N) = {}
  <2>1. GoodBlock(b)
    BY DEF Sound
  <2>2. \A a \in Bytes(b) : a \notin FreeBytes(G) /\ a \notin BlockBytes(N)
    BY <1>2
  <2> QED
    BY <2>1, <2>2
<1>4. \A b \in R : GoodBlock(b) /\ Bytes(b) \cap FreeBytes(G) = {}
  BY <1>3
<1>5. ASSUME NEW b \in L \ K, NEW c \in N
      PROVE  Bytes(b) \cap Bytes(c) = {}
  BY <1>3, InBlocks
<1>6. \A b, c \in R : b = c \/ Bytes(b) \cap Bytes(c) = {}
  <2>1. \A b, c \in L \ K : b = c \/ Bytes(b) \cap Bytes(c) = {}
    BY DEF Sound
  <2> QED
    BY <2>1, <1>5
<1>7. FreeBytes(G) \cup BlockBytes(R) = M
  <2>1. BlockBytes(R) = BlockBytes(L \ K) \cup BlockBytes(N)
    BY DEF BlockBytes
  <2>2. BlockBytes(L) = BlockBytes(L \ K) \cup BlockBytes(K)
    BY DEF BlockBytes
  <2>3. FreeBytes(F) \cup BlockBytes(L) = M
    BY DEF Sound
  <2> HIDE DEF R
  <2> QED
    BY <2>1, <2>2, <2>3
<1> QED
  BY <1>1, <1>4, <1>6, <1>7 DEF Sound

\* A block and its node.
LEMMA NodeOfBlock ==
  ASSUME NEW b, GoodBlock(b)
  PROVE  /\ b.addr \in Nat /\ b.size \in Nat /\ b.want \in Nat
         /\ Node(b) \in HeapNode /\ GoodNode(Node(b)) /\ Bytes(Node(b)) = Bytes(b)
         /\ Node(b).addr = b.addr /\ Node(b).size = b.size
  BY DEF GoodBlock, Node, HeapNode, GoodNode, Bytes, End

\* A block from its parts.
LEMMA BlockMade ==
  ASSUME NEW a \in Nat, NEW z \in Nat, NEW w \in Nat,
         AlignedWord(a), AlignedWord(z), a > 0, z >= 2 * WORD, a + z < SIZE_T,
         w + WORD + WORD <= SIZE_T => z >= w + WORD
  PROVE  /\ GoodBlock([addr |-> a, size |-> z, want |-> w])
         /\ Bytes([addr |-> a, size |-> z, want |-> w]) = Bytes([addr |-> a, size |-> z])
  BY DEF GoodBlock, GoodNode, End, Bytes

\* One block.
LEMMA OneBlock ==
  ASSUME NEW b
  PROVE  BlockBytes({b}) = Bytes(b) /\ BlockBytes({}) = {} /\ IsFiniteSet({b}) /\ IsFiniteSet({})
  BY FS_Singleton, FS_EmptySet DEF BlockBytes

\* A best fit is a node that is large enough; there is one if there is such a node.
LEMMA BestFitFacts ==
  ASSUME NEW F, GoodList(F), NEW need
  PROVE  /\ \A i \in BestFits(F, need) : i \in 1 .. Len(F) /\ F[i].size >= need
         /\ BestFits(F, need) = {} <=> \A i \in 1 .. Len(F) : ~(F[i].size >= need)
<1> DEFINE fits == {i \in DOMAIN F : F[i].size >= need}
           smallest == {i \in fits : \A j \in fits : F[i].size <= F[j].size}
<1>0. F \in Seq(HeapNode) /\ DOMAIN F = 1 .. Len(F) /\ Len(F) \in Nat
  BY DEF GoodList
<1>1. BestFits(F, need) = IF fits = {} THEN {} ELSE {Min(smallest)}
  BY DEF BestFits
<1>2. ASSUME fits # {}
      PROVE  Min(smallest) \in smallest
  <2>1. \A i \in fits : F[i].size \in Nat
    BY <1>0 DEF GoodList, GoodNode, AlignedWord
  <2>2. PICK T : T = {F[i].size : i \in fits}
    OBVIOUS
  <2>3. T \in SUBSET Nat /\ T # {}
    BY <1>2, <2>1, <2>2
  <2>4. PICK x \in T : \A y \in T : x <= y
    BY <2>3, LeastNat
  <2>5. PICK i \in fits : F[i].size = x
    BY <2>2, <2>4
  <2>6. i \in smallest
    BY <2>2, <2>4, <2>5
  <2>7. smallest \in SUBSET Nat /\ smallest # {}
    BY <1>0, <2>6
  <2> HIDE DEF smallest
  <2> QED
    BY <2>7, MinIsLeast
<1>3. \A i \in fits : i \in 1 .. Len(F) /\ F[i].size >= need
  BY <1>0
<1>4. smallest \subseteq fits
  OBVIOUS
<1>5. fits = {} <=> \A i \in 1 .. Len(F) : ~(F[i].size >= need)
  BY <1>0
<1> HIDE DEF fits, smallest
<1> QED
  BY <1>1, <1>2, <1>3, <1>4, <1>5

\* What cutting need bytes off node i leaves and gives.
CutWell(F, i, need, cut) ==
  /\ GoodList(cut.list)
  /\ \E a \in Nat, z \in Nat :
       /\ cut.node = [addr |-> a, size |-> z] /\ a = F[i].addr
       /\ AlignedWord(a) /\ AlignedWord(z) /\ a > 0 /\ z >= need /\ a + z < SIZE_T
  /\ Bytes(cut.node) \cap FreeBytes(cut.list) = {}
  /\ Bytes(cut.node) \cup FreeBytes(cut.list) = FreeBytes(F)

\* What Split does to the list and the node, as one predicate.
LEMMA CutFacts ==
  ASSUME NEW F, GoodList(F), NEW i \in 1 .. Len(F),
         NEW need \in Nat, AlignedWord(need), need > 0, need <= F[i].size,
         NEW cut, cut = Split(F, i, need)
  PROVE  CutWell(F, i, need, cut)
<1>1. LET c == Split(F, i, need)
      IN  /\ GoodList(c.list)
          /\ c.node \in HeapNode /\ c.node.addr = F[i].addr
          /\ AlignedWord(c.node.size) /\ need <= c.node.size /\ c.node.size <= F[i].size
          /\ Bytes(c.node) \cap FreeBytes(c.list) = {}
          /\ Bytes(c.node) \cup FreeBytes(c.list) = FreeBytes(F)
  BY SplitFacts
<1>2. PICK a, z : a = cut.node.addr /\ z = cut.node.size
  OBVIOUS
<1>3. a \in Nat /\ z \in Nat /\ cut.node = [addr |-> a, size |-> z]
  BY <1>1, <1>2 DEF HeapNode
<1>4. GoodNode(F[i])
  BY DEF GoodList
<1>5. /\ F[i].addr \in Nat /\ F[i].size \in Nat /\ F[i].addr > 0 /\ F[i].addr + F[i].size < SIZE_T
      /\ AlignedWord(F[i].addr)
  BY <1>4, GoodNumbers DEF GoodNode
<1>6. a = F[i].addr /\ AlignedWord(z) /\ need <= z /\ z <= F[i].size
  BY <1>1, <1>2
<1>7. AlignedWord(a) /\ a > 0 /\ z >= need /\ a + z < SIZE_T
  <2>1. AlignedWord(a)
    BY <1>5, <1>6, Zenon
  <2>2. PICK b, s, t \in Nat : b = F[i].addr /\ s = F[i].size /\ t = SIZE_T
    BY <1>5, WordType
  <2>3. a = b /\ b > 0 /\ b + s < t /\ need <= z /\ z <= s
    BY <1>5, <1>6, <2>2
  <2>4. a > 0 /\ z >= need /\ a + z < t
    BY <1>3, <2>3
  <2> QED
    BY <2>1, <2>2, <2>4
<1> QED
  BY <1>1, <1>3, <1>6, <1>7 DEF CutWell

(***************************************************************************)
(* Each call keeps the heap sound.                                         *)
(***************************************************************************)
\* NutHeapRootAlloc.
LEMMA AllocSound ==
  ASSUME NEW F, NEW L, NEW M, Sound(F, L, M), NEW s \in 0 .. SIZE_T - 1, SizeFits(s),
         NEW i \in BestFits(F, NodeSize(s))
  PROVE  LET cut == Split(F, i, NodeSize(s))
         IN  Sound(cut.list, L \cup {Block(cut.node, s)}, M)
<1>0. GoodList(F) /\ WORD \in Nat \ {0} /\ SIZE_T \in Nat
  BY WordType DEF Sound
<1>1. PICK need \in Nat : need = NodeSize(s)
  BY NodeSizeFacts DEF AlignedWord
<1>2. /\ AlignedWord(need) /\ need >= 2 * WORD
      /\ s + 2 * WORD <= SIZE_T => need >= s + WORD
  BY <1>1, NodeSizeFacts
<1>3. i \in 1 .. Len(F) /\ F[i].size >= need
  BY <1>0, <1>1, BestFitFacts
<1>4. GoodNode(F[i])
  BY <1>0, <1>3 DEF GoodList
<1>5. PICK cut : cut = Split(F, i, need)
  OBVIOUS
<1>6. need > 0 /\ need <= F[i].size
  BY <1>0, <1>2, <1>3, <1>4, GoodNumbers
<1>7. CutWell(F, i, need, cut)
  BY <1>0, <1>2, <1>3, <1>5, <1>6, CutFacts
<1>8. PICK a \in Nat, z \in Nat :
        /\ cut.node = [addr |-> a, size |-> z]
        /\ AlignedWord(a) /\ AlignedWord(z) /\ a > 0 /\ z >= need /\ a + z < SIZE_T
  BY <1>7 DEF CutWell
<1>9. /\ z >= 2 * WORD
      /\ s + WORD + WORD <= SIZE_T => z >= s + WORD
  BY <1>0, <1>2, <1>8
<1>10. cut.node.addr = a /\ cut.node.size = z
  BY <1>8
<1>11. PICK n : n = Block(cut.node, s)
  OBVIOUS
<1>12. n = [addr |-> a, size |-> z, want |-> s]
  BY <1>11, <1>10 DEF Block
<1>13. GoodBlock(n) /\ Bytes(n) = Bytes(cut.node)
  BY <1>8, <1>9, <1>12, BlockMade
<1>14. FreeBytes(cut.list) \cup BlockBytes({n}) = FreeBytes(F) \cup BlockBytes({})
  BY <1>7, <1>13, OneBlock DEF CutWell
<1>15. PICK G : G = cut.list
  OBVIOUS
<1>16. Sound(G, (L \ {}) \cup {n}, M)
  <2>1. \A x \in {n} : GoodBlock(x) /\ Bytes(x) \cap FreeBytes(G) = {}
    BY <1>7, <1>13, <1>15 DEF CutWell
  <2>2. GoodList(G) /\ FreeBytes(G) \cup BlockBytes({n}) = FreeBytes(F) \cup BlockBytes({})
    BY <1>7, <1>14, <1>15 DEF CutWell
  <2>3. IsFiniteSet({n}) /\ {} \in SUBSET L /\ \A x, y \in {n} : x = y
    BY OneBlock
  <2> QED
    BY <2>1, <2>2, <2>3, Exchange
<1>17. (L \ {}) \cup {n} = L \cup {n}
  OBVIOUS
<1> QED
  BY <1>1, <1>5, <1>11, <1>15, <1>16, <1>17

\* NutHeapRootFree.
LEMMA FreeSound ==
  ASSUME NEW F, NEW L, NEW M, Sound(F, L, M), NEW b \in L
  PROVE  Sound(Release(F, Node(b)), L \ {b}, M)
<1>1. GoodBlock(b) /\ Bytes(b) \cap FreeBytes(F) = {} /\ GoodList(F)
  BY DEF Sound
<1>2. PICK f \in HeapNode : f = Node(b)
  BY <1>1, NodeOfBlock
<1>3. GoodNode(f) /\ Bytes(f) = Bytes(b)
  BY <1>1, <1>2, NodeOfBlock
<1>4. PICK G : G = Release(F, f)
  OBVIOUS
<1>5. GoodList(G) /\ FreeBytes(G) = FreeBytes(F) \cup Bytes(b)
  BY <1>1, <1>3, <1>4, ReleaseFacts
<1>6. FreeBytes(G) \cup BlockBytes({}) = FreeBytes(F) \cup BlockBytes({b})
  BY <1>5, OneBlock
<1>7. Sound(G, (L \ {b}) \cup {}, M)
  BY <1>5, <1>6, OneBlock, Exchange
<1>8. (L \ {b}) \cup {} = L \ {b}
  OBVIOUS
<1> QED
  BY <1>2, <1>4, <1>7, <1>8

\* The bytes of two nodes without a gap between them.
LEMMA BytesJoined ==
  ASSUME NEW a \in Nat, NEW y \in Nat, NEW z \in Nat
  PROVE  Bytes([addr |-> a, size |-> y + z]) =
           Bytes([addr |-> a, size |-> y]) \cup Bytes([addr |-> a + y, size |-> z])
<1>1. (a + y .. a + (y + z) - 1) \cup (a .. a + y - 1) = a .. a + (y + z) - 1
  <2>1. PICK s \in Nat : s = y + z
    OBVIOUS
  <2> QED
    BY <2>1, IntervalSplit
<1>2. (a + y) + z - 1 = a + (y + z) - 1
  OBVIOUS
<1>3. /\ Bytes([addr |-> a, size |-> y + z]) = a .. a + (y + z) - 1
      /\ Bytes([addr |-> a, size |-> y]) = a .. a + y - 1
      /\ Bytes([addr |-> a + y, size |-> z]) = a + y .. (a + y) + z - 1
  BY DEF Bytes, End
<1> QED
  BY <1>1, <1>2, <1>3

\* NutHeapRootRealloc in place.
LEMMA GrowSound ==
  ASSUME NEW F, NEW L, NEW M, Sound(F, L, M), NEW s \in 0 .. SIZE_T - 1, SizeFits(s),
         NEW b \in L, NodeSize(s) > b.size,
         NEW i \in 1 .. Len(F), F[i].addr = End(b), F[i].size >= NodeSize(s) - b.size
  PROVE  LET cut == Split(F, i, NodeSize(s) - b.size)
         IN  Sound(cut.list,
                   (L \ {b}) \cup {[addr |-> b.addr, size |-> b.size + cut.node.size, want |-> s]}, M)
<1>0. GoodList(F) /\ WORD \in Nat \ {0} /\ SIZE_T \in Nat /\ GoodBlock(b) /\ Bytes(b) \cap FreeBytes(F) = {}
  BY WordType DEF Sound
<1>1. PICK need \in Nat : need = NodeSize(s)
  BY NodeSizeFacts DEF AlignedWord
<1>2. /\ AlignedWord(need) /\ need >= 2 * WORD
      /\ s + 2 * WORD <= SIZE_T => need >= s + WORD
  BY <1>1, NodeSizeFacts
<1>3. PICK ba \in Nat, bs \in Nat : ba = b.addr /\ bs = b.size
  BY <1>0, NodeOfBlock
<1>4. AlignedWord(ba) /\ AlignedWord(bs) /\ ba > 0 /\ bs >= 2 * WORD /\ End(b) = ba + bs
  BY <1>0, <1>3 DEF GoodBlock, GoodNode, End
<1>5. PICK more \in Nat : more = need - bs
  BY <1>1, <1>3
<1>6. AlignedWord(more) /\ more > 0 /\ more <= F[i].size
  <2>1. bs <= need /\ bs < need
    BY <1>1, <1>3
  <2>2. AlignedWord(need - bs)
    BY <2>1, <1>2, <1>4, AlignedSums
  <2>3. more > 0
    BY <1>5, <2>1
  <2>4. GoodNode(F[i])
    BY <1>0 DEF GoodList
  <2>5. F[i].size \in Nat /\ F[i].size >= more
    BY <2>4, <1>1, <1>3, <1>5, GoodNumbers
  <2> QED
    BY <1>5, <2>2, <2>3, <2>5
<1>7. PICK cut : cut = Split(F, i, more)
  OBVIOUS
<1>8. CutWell(F, i, more, cut)
  BY <1>0, <1>6, <1>7, CutFacts
<1>9. PICK a \in Nat, z \in Nat :
        /\ cut.node = [addr |-> a, size |-> z] /\ a = F[i].addr
        /\ AlignedWord(a) /\ AlignedWord(z) /\ a > 0 /\ z >= more /\ a + z < SIZE_T
  BY <1>8 DEF CutWell
<1>10. a = ba + bs
  BY <1>4, <1>9
<1>11. PICK n : n = [addr |-> ba, size |-> bs + z, want |-> s]
  OBVIOUS
<1>12. GoodBlock(n) /\ Bytes(n) = Bytes(b) \cup Bytes(cut.node)
  <2>1. /\ AlignedWord(bs + z) /\ bs + z \in Nat /\ bs + z >= 2 * WORD /\ ba + (bs + z) < SIZE_T
        /\ s + WORD + WORD <= SIZE_T => bs + z >= s + WORD
    <3>1. AlignedWord(bs + z)
      BY <1>4, <1>9, AlignedSums
    <3>2. bs + z \in Nat /\ bs + z >= 2 * WORD /\ ba + (bs + z) < SIZE_T
      BY <1>0, <1>4, <1>9, <1>10
    <3>3. s + WORD + WORD <= SIZE_T => bs + z >= s + WORD
      <4>1. bs + z >= need
        BY <1>5, <1>9
      <4>2. s + WORD + WORD = s + 2 * WORD
        BY <1>0
      <4>3. s + 2 * WORD <= SIZE_T => need >= s + WORD
        BY <1>2
      <4> QED
        BY <4>1, <4>2, <4>3, <1>0
    <3> QED
      BY <3>1, <3>2, <3>3
  <2>2. PICK t \in Nat : t = bs + z
    BY <2>1
  <2>3. GoodBlock(n) /\ Bytes(n) = Bytes([addr |-> ba, size |-> t])
    BY <1>4, <1>11, <2>1, <2>2, BlockMade
  <2>4. Bytes([addr |-> ba, size |-> t]) = Bytes([addr |-> ba, size |-> bs]) \cup Bytes(cut.node)
    <3>1. Bytes([addr |-> ba, size |-> bs + z]) =
            Bytes([addr |-> ba, size |-> bs]) \cup Bytes([addr |-> ba + bs, size |-> z])
      BY BytesJoined
    <3>2. cut.node = [addr |-> ba + bs, size |-> z]
      BY <1>9, <1>10
    <3> QED
      BY <3>1, <3>2, <2>2
  <2>5. Bytes([addr |-> ba, size |-> bs]) = Bytes(b)
    BY <1>3 DEF Bytes, End
  <2> QED
    BY <2>3, <2>4, <2>5
<1>13. PICK G : G = cut.list
  OBVIOUS
<1>14. Sound(G, (L \ {b}) \cup {n}, M)
  <2>1. \A x \in {n} : GoodBlock(x) /\ Bytes(x) \cap FreeBytes(G) = {}
    BY <1>0, <1>8, <1>12, <1>13 DEF CutWell
  <2>2. GoodList(G) /\ FreeBytes(G) \cup BlockBytes({n}) = FreeBytes(F) \cup BlockBytes({b})
    BY <1>8, <1>12, <1>13, OneBlock DEF CutWell
  <2>3. IsFiniteSet({n}) /\ {b} \in SUBSET L /\ \A x, y \in {n} : x = y
    BY OneBlock
  <2> QED
    BY <2>1, <2>2, <2>3, Exchange
<1>15. more = NodeSize(s) - b.size /\ n = [addr |-> b.addr, size |-> b.size + cut.node.size, want |-> s]
  <2>1. cut.node.size = z
    BY <1>9
  <2> QED
    BY <2>1, <1>1, <1>3, <1>5, <1>11
<1> QED
  BY <1>7, <1>13, <1>14, <1>15

\* NutHeapRootRealloc into another node.
LEMMA MoveSound ==
  ASSUME NEW F, NEW L, NEW M, Sound(F, L, M), NEW s \in 0 .. SIZE_T - 1, SizeFits(s),
         NEW b \in L, NEW i \in BestFits(F, NodeSize(NodeSize(s)))
  PROVE  LET cut == Split(F, i, NodeSize(NodeSize(s)))
         IN  Sound(Release(cut.list, Node(b)), (L \ {b}) \cup {Block(cut.node, s)}, M)
<1>0. GoodList(F) /\ WORD \in Nat \ {0} /\ SIZE_T \in Nat /\ GoodBlock(b) /\ Bytes(b) \cap FreeBytes(F) = {}
  BY WordType DEF Sound
<1>1. PICK asked \in Nat : asked = NodeSize(s)
  BY NodeSizeFacts DEF AlignedWord
<1>2. /\ AlignedWord(asked) /\ asked >= 2 * WORD /\ asked <= SIZE_T - WORD
      /\ s + 2 * WORD <= SIZE_T => asked >= s + WORD
      /\ s <= SIZE_T - 3 * WORD => asked <= SIZE_T - 2 * WORD
  BY <1>1, NodeSizeFacts
<1>3. asked \in 0 .. SIZE_T - 1
  BY <1>0, <1>2
<1>4. PICK need \in Nat : need = NodeSize(asked)
  BY <1>2, <1>3, NodeSizeFacts DEF AlignedWord
<1>5. /\ AlignedWord(need) /\ need >= 2 * WORD
      /\ s + 2 * WORD <= SIZE_T => need >= s + WORD
  <2>1. /\ AlignedWord(need) /\ need >= 2 * WORD
        /\ asked + 2 * WORD <= SIZE_T => need >= asked + WORD
    BY <1>2, <1>3, <1>4, NodeSizeFacts
  <2>2. s + 2 * WORD <= SIZE_T => s <= SIZE_T - 3 * WORD
    BY <1>0 DEF SizeFits
  <2> QED
    BY <2>1, <2>2, <1>0, <1>2
<1>6. i \in 1 .. Len(F) /\ F[i].size >= need
  BY <1>0, <1>1, <1>4, BestFitFacts
<1>7. GoodNode(F[i])
  BY <1>0, <1>6 DEF GoodList
<1>8. need > 0 /\ need <= F[i].size
  BY <1>0, <1>5, <1>6, <1>7, GoodNumbers
<1>9. PICK cut : cut = Split(F, i, need)
  OBVIOUS
<1>10. CutWell(F, i, need, cut)
  BY <1>0, <1>5, <1>6, <1>8, <1>9, CutFacts
<1>11. PICK a \in Nat, z \in Nat :
         /\ cut.node = [addr |-> a, size |-> z]
         /\ AlignedWord(a) /\ AlignedWord(z) /\ a > 0 /\ z >= need /\ a + z < SIZE_T
  BY <1>10 DEF CutWell
<1>12. z >= 2 * WORD /\ (s + WORD + WORD <= SIZE_T => z >= s + WORD)
  BY <1>0, <1>5, <1>11
<1>13. PICK n : n = Block(cut.node, s)
  OBVIOUS
<1>14. n = [addr |-> a, size |-> z, want |-> s]
  <2>1. cut.node.addr = a /\ cut.node.size = z
    BY <1>11
  <2> QED
    BY <2>1, <1>13 DEF Block
<1>15. GoodBlock(n) /\ Bytes(n) = Bytes(cut.node)
  BY <1>11, <1>12, <1>14, BlockMade
<1>16. PICK H : H = cut.list
  OBVIOUS
<1>17. PICK f \in HeapNode : f = Node(b)
  BY <1>0, NodeOfBlock
<1>18. GoodNode(f) /\ Bytes(f) = Bytes(b)
  BY <1>0, <1>17, NodeOfBlock
<1>19. PICK G : G = Release(H, f)
  OBVIOUS
<1>20. GoodList(G) /\ FreeBytes(G) = FreeBytes(H) \cup Bytes(b)
  <2>1. Bytes(f) \cap FreeBytes(H) = {} /\ GoodList(H)
    BY <1>0, <1>10, <1>16, <1>18 DEF CutWell
  <2> QED
    BY <2>1, <1>18, <1>19, ReleaseFacts
<1>21. Sound(G, (L \ {b}) \cup {n}, M)
  <2>1. \A x \in {n} : GoodBlock(x) /\ Bytes(x) \cap FreeBytes(G) = {}
    BY <1>0, <1>10, <1>15, <1>16, <1>20 DEF CutWell
  <2>2. GoodList(G) /\ FreeBytes(G) \cup BlockBytes({n}) = FreeBytes(F) \cup BlockBytes({b})
    BY <1>10, <1>15, <1>16, <1>20, OneBlock DEF CutWell
  <2>3. IsFiniteSet({n}) /\ {b} \in SUBSET L /\ \A x, y \in {n} : x = y
    BY OneBlock
  <2> QED
    BY <2>1, <2>2, <2>3, Exchange
<1> QED
  BY <1>1, <1>4, <1>9, <1>13, <1>16, <1>17, <1>19, <1>21

\* NutHeapRootRealloc with the rest of the block given back.
LEMMA CutSound ==
  ASSUME NEW F, NEW L, NEW M, Sound(F, L, M), NEW s \in 0 .. SIZE_T - 1, SizeFits(s),
         NEW b \in L, NodeSize(s) < b.size - 2 * WORD
  PROVE  Sound(Release(F, [addr |-> b.addr + NodeSize(s), size |-> b.size - NodeSize(s)]),
               (L \ {b}) \cup {[addr |-> b.addr, size |-> NodeSize(s), want |-> s]}, M)
<1>0. GoodList(F) /\ WORD \in Nat \ {0} /\ SIZE_T \in Nat /\ GoodBlock(b) /\ Bytes(b) \cap FreeBytes(F) = {}
  BY WordType DEF Sound
<1>1. PICK need \in Nat : need = NodeSize(s)
  BY NodeSizeFacts DEF AlignedWord
<1>2. /\ AlignedWord(need) /\ need >= 2 * WORD
      /\ s + 2 * WORD <= SIZE_T => need >= s + WORD
  BY <1>1, NodeSizeFacts
<1>3. PICK ba \in Nat, bs \in Nat : ba = b.addr /\ bs = b.size
  BY <1>0, NodeOfBlock
<1>4. AlignedWord(ba) /\ AlignedWord(bs) /\ ba > 0 /\ bs >= 2 * WORD /\ ba + bs < SIZE_T
  BY <1>0, <1>3 DEF GoodBlock, GoodNode, End
<1>5. PICK rest \in Nat : rest = bs - need /\ rest > 2 * WORD /\ bs = need + rest
  BY <1>0, <1>1, <1>3
<1>6. AlignedWord(rest) /\ AlignedWord(ba + need)
  <2>1. need <= bs
    BY <1>5
  <2> QED
    BY <2>1, <1>2, <1>4, <1>5, AlignedSums
<1>7. PICK f : f = [addr |-> ba + need, size |-> rest]
  OBVIOUS
<1>8. PICK n : n = [addr |-> ba, size |-> need, want |-> s]
  OBVIOUS
<1>9. f \in HeapNode /\ GoodNode(f)
  <2>1. PICK a \in Nat : a = ba + need
    OBVIOUS
  <2>2. a > 0 /\ rest >= 2 * WORD /\ a + rest < SIZE_T
    BY <2>1, <1>0, <1>4, <1>5
  <2> QED
    BY <2>1, <2>2, <1>6, <1>7, NodeMade
<1>10. GoodBlock(n) /\ Bytes(n) = Bytes([addr |-> ba, size |-> need])
  <2>1. ba + need < SIZE_T /\ s + WORD + WORD = s + 2 * WORD
    BY <1>0, <1>4, <1>5
  <2> QED
    BY <2>1, <1>2, <1>4, <1>8, BlockMade
<1>11. Bytes(b) = Bytes(n) \cup Bytes(f) /\ Bytes(n) \cap Bytes(f) = {}
  <2>1. Bytes([addr |-> ba, size |-> need + rest]) =
          Bytes([addr |-> ba, size |-> need]) \cup Bytes([addr |-> ba + need, size |-> rest])
    BY BytesJoined
  <2>2. Bytes([addr |-> ba, size |-> need + rest]) = Bytes(b)
    BY <1>3, <1>5 DEF Bytes, End
  <2>3. Bytes([addr |-> ba, size |-> need]) \cap Bytes([addr |-> ba + need, size |-> rest]) = {}
    BY DEF Bytes, End
  <2> QED
    BY <2>1, <2>2, <2>3, <1>7, <1>10
<1>12. PICK G : G = Release(F, f)
  OBVIOUS
<1>13. GoodList(G) /\ FreeBytes(G) = FreeBytes(F) \cup Bytes(f)
  <2>1. Bytes(f) \cap FreeBytes(F) = {}
    BY <1>0, <1>11
  <2> QED
    BY <2>1, <1>0, <1>9, <1>12, ReleaseFacts
<1>14. Sound(G, (L \ {b}) \cup {n}, M)
  <2>1. \A x \in {n} : GoodBlock(x) /\ Bytes(x) \cap FreeBytes(G) = {}
    BY <1>0, <1>10, <1>11, <1>13
  <2>2. GoodList(G) /\ FreeBytes(G) \cup BlockBytes({n}) = FreeBytes(F) \cup BlockBytes({b})
    BY <1>11, <1>13, OneBlock
  <2>3. IsFiniteSet({n}) /\ {b} \in SUBSET L /\ \A x, y \in {n} : x = y
    BY OneBlock
  <2> QED
    BY <2>1, <2>2, <2>3, Exchange
<1> QED
  BY <1>1, <1>3, <1>5, <1>7, <1>8, <1>12, <1>14

\* NutHeapRootRealloc when the rest of the block is too small to give back.
LEMMA KeepSound ==
  ASSUME NEW F, NEW L, NEW M, Sound(F, L, M), NEW s \in 0 .. SIZE_T - 1, SizeFits(s),
         NEW b \in L, NodeSize(s) <= b.size
  PROVE  Sound(F, (L \ {b}) \cup {[addr |-> b.addr, size |-> b.size, want |-> s]}, M)
<1>0. GoodList(F) /\ WORD \in Nat \ {0} /\ SIZE_T \in Nat /\ GoodBlock(b) /\ Bytes(b) \cap FreeBytes(F) = {}
  BY WordType DEF Sound
<1>1. PICK need \in Nat : need = NodeSize(s)
  BY NodeSizeFacts DEF AlignedWord
<1>2. s + 2 * WORD <= SIZE_T => need >= s + WORD
  BY <1>1, NodeSizeFacts
<1>3. PICK ba \in Nat, bs \in Nat : ba = b.addr /\ bs = b.size
  BY <1>0, NodeOfBlock
<1>4. AlignedWord(ba) /\ AlignedWord(bs) /\ ba > 0 /\ bs >= 2 * WORD /\ ba + bs < SIZE_T
  BY <1>0, <1>3 DEF GoodBlock, GoodNode, End
<1>5. PICK n : n = [addr |-> ba, size |-> bs, want |-> s]
  OBVIOUS
<1>6. GoodBlock(n) /\ Bytes(n) = Bytes(b)
  <2>1. s + WORD + WORD <= SIZE_T => bs >= s + WORD
    <3>1. s + WORD + WORD = s + 2 * WORD /\ need <= bs
      BY <1>0, <1>1, <1>3
    <3> QED
      BY <3>1, <1>0, <1>2
  <2>2. GoodBlock(n) /\ Bytes(n) = Bytes([addr |-> ba, size |-> bs])
    BY <2>1, <1>4, <1>5, BlockMade
  <2>3. Bytes([addr |-> ba, size |-> bs]) = Bytes(b)
    BY <1>3 DEF Bytes, End
  <2> QED
    BY <2>2, <2>3
<1>7. Sound(F, (L \ {b}) \cup {n}, M)
  <2>1. \A x \in {n} : GoodBlock(x) /\ Bytes(x) \cap FreeBytes(F) = {}
    BY <1>0, <1>6
  <2>2. FreeBytes(F) \cup BlockBytes({n}) = FreeBytes(F) \cup BlockBytes({b})
    BY <1>6, OneBlock
  <2>3. IsFiniteSet({n}) /\ {b} \in SUBSET L /\ \A x, y \in {n} : x = y
    BY OneBlock
  <2> QED
    BY <2>1, <2>2, <2>3, <1>0, Exchange
<1> QED
  BY <1>3, <1>5, <1>7

\* The aligned part of a region is a node inside the region.
LEMMA HeapRegionFacts ==
  ASSUME NEW r \in Regions
  PROVE  /\ AlignedRegion(r) \in HeapNode /\ GoodNode(AlignedRegion(r))
         /\ r.addr \in Nat /\ r.size \in Nat
         /\ r.addr <= AlignedRegion(r).addr /\ End(AlignedRegion(r)) <= r.addr + r.size
<1>0. WORD \in Nat \ {0} /\ SIZE_T \in Nat
  BY WordType
<1>1. PICK a \in Nat, z \in Nat : a = r.addr /\ z = r.size /\ a > 0
  BY HeapAssumption DEF HeapAssumption
<1>2. a + z < SIZE_T /\ z >= 2 * WORD /\ AlignedRegion(r).size >= 2 * WORD
  BY <1>1, RegionsAssumption DEF RegionsAssumption, NUTMEM_HEAPNODE_MIN
<1>3. a <= SIZE_T - WORD
  BY <1>0, <1>2
<1>4. PICK t \in Nat : t = TopAlign(a) /\ AlignedWord(t) /\ a <= t /\ t < a + WORD
  BY <1>3, TopFacts DEF AlignedWord
<1>5. PICK x \in Nat : x = z - (t - a)
  <2>1. z - (t - a) \in Nat
    BY <1>0, <1>2, <1>4
  <2> QED
    BY <2>1
<1>6. PICK y \in Nat : y = BottomAlign(x) /\ AlignedWord(y) /\ y <= x
  BY BottomFacts DEF AlignedWord
<1>7. AlignedRegion(r) = [addr |-> t, size |-> y]
  BY <1>1, <1>4, <1>5, <1>6 DEF AlignedRegion
<1>8. t > 0 /\ y >= 2 * WORD /\ t + y < SIZE_T /\ t + y <= a + z
  <2>1. y >= 2 * WORD
    BY <1>2, <1>7
  <2> QED
    BY <2>1, <1>0, <1>1, <1>2, <1>4, <1>5, <1>6
<1>9. AlignedRegion(r) \in HeapNode /\ GoodNode(AlignedRegion(r))
  BY <1>4, <1>6, <1>7, <1>8, NodeMade
<1>10. End(AlignedRegion(r)) = t + y /\ AlignedRegion(r).addr = t
  BY <1>7 DEF End
<1> QED
  BY <1>1, <1>4, <1>8, <1>9, <1>10

\* The aligned parts of two regions are apart.
LEMMA RegionsApart ==
  ASSUME NEW r \in Regions, NEW q \in Regions, r # q
  PROVE  Bytes(AlignedRegion(r)) \cap Bytes(AlignedRegion(q)) = {}
<1>1. PICK m \in HeapNode : m = AlignedRegion(r)
  BY HeapRegionFacts
<1>2. PICK n \in HeapNode : n = AlignedRegion(q)
  BY HeapRegionFacts
<1>3. GoodNode(m) /\ GoodNode(n)
  BY <1>1, <1>2, HeapRegionFacts
<1>4. /\ m.addr \in Nat /\ m.size \in Nat \ {0} /\ n.addr \in Nat /\ n.size \in Nat \ {0}
      /\ End(m) = m.addr + m.size /\ End(n) = n.addr + n.size
  BY <1>3, GoodNumbers
<1>5. /\ r.addr \in Nat /\ r.size \in Nat /\ r.addr <= m.addr /\ End(m) <= r.addr + r.size
      /\ q.addr \in Nat /\ q.size \in Nat /\ q.addr <= n.addr /\ End(n) <= q.addr + q.size
  BY <1>1, <1>2, HeapRegionFacts
<1>6. r.addr + r.size <= q.addr \/ q.addr + q.size <= r.addr
  BY RegionsAssumption DEF RegionsAssumption
<1>7. m.addr + m.size <= n.addr \/ n.addr + n.size <= m.addr
  BY <1>4, <1>5, <1>6
<1> QED
  BY <1>1, <1>2, <1>4, <1>7, Apart

\* The bytes of the regions in A.
Given(A) == UNION {Bytes(AlignedRegion(r)) : r \in A}

\* NutHeapRootAdd.
LEMMA AddSound ==
  ASSUME NEW F, NEW L, NEW A \in SUBSET Regions, Sound(F, L, Given(A)), NEW r \in Regions \ A
  PROVE  Sound(Release(F, AlignedRegion(r)), L, Given(A \cup {r}))
<1>0. GoodList(F) /\ FreeBytes(F) \cup BlockBytes(L) = Given(A)
  BY DEF Sound
<1>1. PICK f \in HeapNode : f = AlignedRegion(r)
  BY HeapRegionFacts
<1>2. GoodNode(f)
  BY <1>1, HeapRegionFacts
<1>3. Bytes(f) \cap Given(A) = {}
  <2>1. \A q \in A : Bytes(f) \cap Bytes(AlignedRegion(q)) = {}
    BY <1>1, RegionsApart
  <2> QED
    BY <2>1 DEF Given
<1>4. Given(A \cup {r}) = Given(A) \cup Bytes(f)
  BY <1>1 DEF Given
<1>5. PICK G : G = Release(F, f)
  OBVIOUS
<1>6. GoodList(G) /\ FreeBytes(G) = FreeBytes(F) \cup Bytes(f)
  <2>1. Bytes(f) \cap FreeBytes(F) = {}
    BY <1>0, <1>3
  <2> QED
    BY <2>1, <1>0, <1>2, <1>5, ReleaseFacts
<1>7. \A b \in L : GoodBlock(b) /\ Bytes(b) \cap FreeBytes(G) = {}
  <2>1. \A b \in L : GoodBlock(b) /\ Bytes(b) \cap FreeBytes(F) = {}
    BY DEF Sound
  <2>2. BlockBytes(L) \cap Bytes(f) = {}
    BY <1>0, <1>3
  <2>3. \A b \in L : Bytes(b) \subseteq BlockBytes(L)
    BY InBlocks
  <2> QED
    BY <2>1, <2>2, <2>3, <1>6
<1>8. FreeBytes(G) \cup BlockBytes(L) = Given(A \cup {r})
  BY <1>0, <1>4, <1>6
<1>9. Sound(G, L, Given(A \cup {r}))
  BY <1>6, <1>7, <1>8 DEF Sound
<1> QED
  BY <1>1, <1>5, <1>9

(***************************************************************************)
(* The inductive invariant.                                                *)
(***************************************************************************)
HeapInv ==
  /\ added \in SUBSET Regions
  /\ Sound(free, live, Given(added))

\* All sizes that are asked for can be rounded in size_t.
SizesFit == \A s \in Sizes : SizeFits(s)

\* The empty heap.
LEMMA HeapInvInit == Init => HeapInv
<1> SUFFICES ASSUME Init PROVE HeapInv
  OBVIOUS
<1>1. free = <<>> /\ live = {} /\ added = {}
  BY DEF Init
<1>2. Sound(<<>>, {}, Given({}))
  <2>1. GoodList(<<>>) /\ FreeBytes(<<>>) = {}
    BY DEF GoodList, FreeBytes
  <2>2. BlockBytes({}) = {} /\ IsFiniteSet({})
    BY OneBlock
  <2>3. Given({}) = {}
    BY DEF Given
  <2> QED
    BY <2>1, <2>2, <2>3 DEF Sound
<1> QED
  BY <1>1, <1>2 DEF HeapInv

\* Each step keeps the heap sound.
LEMMA HeapInductive ==
  ASSUME SizesFit, HeapInv, [Next]_vars
  PROVE  HeapInv'
<1>1. PICK F, L, A : F = free /\ L = live /\ A = added
  OBVIOUS
<1>2. A \in SUBSET Regions /\ Sound(F, L, Given(A))
  BY <1>1 DEF HeapInv
<1>3. PICK M : M = Given(A)
  OBVIOUS
<1>4. Sound(F, L, M)
  BY <1>2, <1>3
<1>5. GoodList(F) /\ DOMAIN F = 1 .. Len(F) /\ \A b \in L : GoodBlock(b)
  BY <1>4 DEF Sound, GoodList
<1>6. \A s \in Sizes : s \in 0 .. SIZE_T - 1 /\ SizeFits(s)
  BY HeapAssumption DEF HeapAssumption, SizesFit
\* The new state, with the regions as they were.
<1>7. ASSUME added' = added, NEW G, NEW N, free' = G, live' = N, Sound(G, N, M)
      PROVE  HeapInv'
  BY <1>1, <1>3, <1>7 DEF HeapInv
<1>8. ASSUME NEW s \in Sizes, Alloc(s)
      PROVE  HeapInv'
  <2>1. PICK i \in BestFits(F, NodeSize(s)) :
          LET cut == Split(F, i, NodeSize(s))
          IN free' = cut.list /\ live' = L \cup {Block(cut.node, s)}
    BY <1>1, <1>8 DEF Alloc
  <2>2. PICK G, N : G = Split(F, i, NodeSize(s)).list /\ N = L \cup {Block(Split(F, i, NodeSize(s)).node, s)}
    OBVIOUS
  <2>3. Sound(G, N, M)
    BY <1>4, <1>6, <2>2, AllocSound
  <2>4. free' = G /\ live' = N /\ added' = added
    BY <1>8, <2>1, <2>2 DEF Alloc
  <2> QED
    BY <2>3, <2>4, <1>7
<1>9. ASSUME NEW b \in L, Free(b)
      PROVE  HeapInv'
  <2>1. PICK G, N : G = Release(F, Node(b)) /\ N = L \ {b}
    OBVIOUS
  <2>2. Sound(G, N, M)
    BY <1>4, <2>1, FreeSound
  <2>3. free' = G /\ live' = N /\ added' = added
    BY <1>1, <1>9, <2>1 DEF Free
  <2> QED
    BY <2>2, <2>3, <1>7
<1>10. ASSUME NEW b \in L, NEW s \in Sizes, Grow(b, s)
       PROVE  HeapInv'
  <2>1. PICK i \in 1 .. Len(F) :
          /\ F[i].addr = End(b) /\ F[i].size >= NodeSize(s) - b.size
          /\ LET cut == Split(F, i, NodeSize(s) - b.size)
             IN /\ free' = cut.list
                /\ live' = (L \ {b}) \cup {[addr |-> b.addr, size |-> b.size + cut.node.size, want |-> s]}
    BY <1>1, <1>5, <1>10 DEF Grow, Adjoining
  <2>2. NodeSize(s) > b.size
    BY <1>10 DEF Grow
  <2>3. PICK cut : cut = Split(F, i, NodeSize(s) - b.size)
    OBVIOUS
  <2>4. PICK G, N : G = cut.list /\ N = (L \ {b}) \cup {[addr |-> b.addr, size |-> b.size + cut.node.size, want |-> s]}
    OBVIOUS
  <2>5. Sound(G, N, M)
    BY <1>4, <1>6, <2>1, <2>2, <2>3, <2>4, GrowSound
  <2>6. free' = G /\ live' = N /\ added' = added
    BY <1>10, <2>1, <2>3, <2>4 DEF Grow
  <2> QED
    BY <2>5, <2>6, <1>7
<1>11. ASSUME NEW b \in L, NEW s \in Sizes, Move(b, s)
       PROVE  HeapInv'
  <2>1. PICK i \in BestFits(F, NodeSize(NodeSize(s))) :
          LET cut == Split(F, i, NodeSize(NodeSize(s)))
          IN free' = Release(cut.list, Node(b)) /\ live' = (L \ {b}) \cup {Block(cut.node, s)}
    BY <1>1, <1>11 DEF Move
  <2>2. PICK cut : cut = Split(F, i, NodeSize(NodeSize(s)))
    OBVIOUS
  <2>3. PICK G, N : G = Release(cut.list, Node(b)) /\ N = (L \ {b}) \cup {Block(cut.node, s)}
    OBVIOUS
  <2>4. Sound(G, N, M)
    BY <1>4, <1>6, <2>2, <2>3, MoveSound
  <2>5. free' = G /\ live' = N /\ added' = added
    BY <1>11, <2>1, <2>2, <2>3 DEF Move
  <2> QED
    BY <2>4, <2>5, <1>7
<1>12. ASSUME NEW b \in L, NEW s \in Sizes, Shrink(b, s)
       PROVE  HeapInv'
  <2>0. b.size \in Nat /\ b.size >= 2 * WORD /\ b.size < SIZE_T /\ WORD \in Nat \ {0} /\ SIZE_T \in Nat \ {0}
    <3>1. GoodNode(b)
      BY <1>5 DEF GoodBlock
    <3> QED
      BY <3>1, WordType, GoodNumbers
  <2>1. (b.size - NUTMEM_HEAPNODE_MIN) % SIZE_T = b.size - 2 * WORD
    <3>1. PICK x \in Nat : x = b.size - 2 * WORD
      BY <2>0
    <3>2. x < SIZE_T
      BY <2>0, <3>1
    <3>3. x % SIZE_T = x
      BY <2>0, <3>2, SMT
    <3> QED
      BY <3>1, <3>3 DEF NUTMEM_HEAPNODE_MIN
  <2>2. NodeSize(s) <= b.size
    BY <1>12 DEF Shrink
  <2>3. CASE NodeSize(s) < b.size - 2 * WORD
    <3>1. PICK G, N : /\ G = Release(F, [addr |-> b.addr + NodeSize(s), size |-> b.size - NodeSize(s)])
                      /\ N = (L \ {b}) \cup {[addr |-> b.addr, size |-> NodeSize(s), want |-> s]}
      OBVIOUS
    <3>2. Sound(G, N, M)
      BY <1>4, <1>6, <2>3, <3>1, CutSound
    <3>3. free' = G /\ live' = N /\ added' = added
      BY <1>1, <1>12, <2>1, <2>3, <3>1 DEF Shrink
    <3> QED
      BY <3>2, <3>3, <1>7
  <2>4. CASE ~(NodeSize(s) < b.size - 2 * WORD)
    <3>1. PICK N : N = (L \ {b}) \cup {[addr |-> b.addr, size |-> b.size, want |-> s]}
      OBVIOUS
    <3>2. Sound(F, N, M)
      BY <1>4, <1>6, <2>2, <3>1, KeepSound
    <3>3. free' = F /\ live' = N /\ added' = added
      BY <1>1, <1>12, <2>1, <2>4, <3>1 DEF Shrink
    <3> QED
      BY <3>2, <3>3, <1>7
  <2> QED
    BY <2>3, <2>4
<1>13. ASSUME NEW r \in Regions, Add(r)
       PROVE  HeapInv'
  <2>1. r \in Regions \ A
    BY <1>1, <1>13 DEF Add
  <2>2. PICK G, B : G = Release(F, AlignedRegion(r)) /\ B = A \cup {r}
    OBVIOUS
  <2>3. Sound(G, L, Given(B)) /\ B \in SUBSET Regions
    BY <1>2, <2>1, <2>2, AddSound
  <2>4. free' = G /\ live' = L /\ added' = B
    BY <1>1, <1>13, <2>2 DEF Add
  <2> QED
    BY <2>3, <2>4 DEF HeapInv
<1>14. CASE UNCHANGED vars
  BY <1>14 DEF vars, HeapInv
<1>15. CASE Next
  <2>1. \/ \E s \in Sizes : Alloc(s)
        \/ \E b \in L : Free(b)
        \/ \E b \in L, s \in Sizes : Grow(b, s) \/ Move(b, s) \/ Shrink(b, s)
        \/ \E r \in Regions : Add(r)
    BY <1>1, <1>15 DEF Next
  <2> QED
    BY <2>1, <1>8, <1>9, <1>10, <1>11, <1>12, <1>13
<1> QED
  BY <1>14, <1>15

(***************************************************************************)
(* What the invariant says of the properties.                              *)
(***************************************************************************)
\* Blocks and their nodes are as many.
LEMMA NodesCount ==
  ASSUME NEW F, NEW L, NEW M, Sound(F, L, M)
  PROVE  LET N == {Node(b) : b \in L}
         IN  IsFiniteSet(N) /\ Cardinality(N) = Cardinality(L)
<1> DEFINE N == {Node(b) : b \in L}
           f == [b \in L |-> Node(b)]
<1>0. IsFiniteSet(L)
  BY DEF Sound
<1>1. \A b, c \in L : Node(b) = Node(c) => b = c
  <2> SUFFICES ASSUME NEW b \in L, NEW c \in L, Node(b) = Node(c), b # c
               PROVE  FALSE
    OBVIOUS
  <2>1. GoodBlock(b) /\ GoodBlock(c) /\ Bytes(b) \cap Bytes(c) = {}
    BY DEF Sound
  <2>2. Bytes(b) = Bytes(c)
    BY <2>1, NodeOfBlock
  <2>3. b.addr \in Bytes(b)
    BY <2>1, GoodNumbers DEF GoodBlock
  <2> QED
    BY <2>1, <2>2, <2>3
<1>2. f \in [L -> N] /\ \A y \in N : \E b \in L : f[b] = y
  OBVIOUS
<1>3. \A b, c \in L : f[b] = f[c] => b = c
  BY <1>1
<1>4. f \in Bijection(L, N)
  <2> HIDE DEF f, N
  <2> QED
    BY <1>2, <1>3 DEF Bijection, Injection, Surjection, IsInjective
<1>5. ExistsBijection(L, N)
  BY <1>4 DEF ExistsBijection
<1> HIDE DEF f, N
<1>6. IsFiniteSet(N) /\ Cardinality(N) = Cardinality(L)
  BY <1>0, <1>5, FS_Bijection
<1> QED
  BY <1>6 DEF N

\* The free list has no node twice.
LEMMA ListCount ==
  ASSUME NEW F, GoodList(F)
  PROVE  IsFiniteSet(ToSet(F)) /\ Cardinality(ToSet(F)) = Len(F)
<1>0. F \in Seq(HeapNode) /\ Len(F) \in Nat
  BY DEF GoodList
<1>1. Distinct(F)
  <2> SUFFICES ASSUME NEW i \in 1 .. Len(F), NEW j \in 1 .. Len(F), F[i] = F[j], i < j
               PROVE  FALSE
    BY <1>0 DEF Distinct
  <2>1. End(F[i]) < F[j].addr /\ GoodNode(F[i])
    BY DEF GoodList
  <2> QED
    BY <2>1, GoodNumbers
<1> QED
  BY <1>0, <1>1, DistinctCard

\* The nodes N of a free list and of blocks share out the bytes M.
SharedOut(N, F, L, M) ==
  /\ \A m, n \in N : m # n => Bytes(m) \cap Bytes(n) = {}
  /\ \A n \in N : n.size >= NUTMEM_HEAPNODE_MIN /\ n.addr % WORD = 0
  /\ UNION {Bytes(n) : n \in N} = M
  /\ Cardinality(N) = Len(F) + Cardinality(L)

\* The nodes of a sound heap share its memory out among themselves.
LEMMA Partitioned ==
  ASSUME NEW F, NEW L, NEW M, Sound(F, L, M), NEW N, N = ToSet(F) \cup {Node(b) : b \in L}
  PROVE  SharedOut(N, F, L, M)
<1> DEFINE A == ToSet(F)
           B == {Node(b) : b \in L}
<1>0. GoodList(F) /\ DOMAIN F = 1 .. Len(F) /\ Len(F) \in Nat
  BY DEF Sound, GoodList
<1>1. \A n \in A : GoodNode(n) /\ Bytes(n) \subseteq FreeBytes(F)
  <2> TAKE n \in A
  <2>1. PICK i \in 1 .. Len(F) : n = F[i]
    BY <1>0 DEF ToSet
  <2> QED
    BY <2>1, <1>0, InFree DEF GoodList
<1>2. \A b \in L : /\ GoodBlock(b) /\ GoodNode(Node(b)) /\ Bytes(Node(b)) = Bytes(b)
                   /\ Bytes(b) \cap FreeBytes(F) = {}
  BY NodeOfBlock DEF Sound
<1>3. \A n \in B : \E b \in L : n = Node(b)
  OBVIOUS
<1>4. \A n \in N : n \in A \/ n \in B
  OBVIOUS
<1>5. \A n \in B : GoodNode(n) /\ Bytes(n) \cap FreeBytes(F) = {}
  BY <1>2, <1>3
<1> HIDE DEF A, B
<1>6. ASSUME NEW m \in A, NEW n \in B
      PROVE  Bytes(m) \cap Bytes(n) = {} /\ m # n
  <2>1. Bytes(m) \cap Bytes(n) = {}
    BY <1>1, <1>5
  <2>2. m.addr \in Bytes(m)
    BY <1>1, GoodNumbers
  <2> QED
    BY <2>1, <2>2
<1>7. ASSUME NEW m \in A, NEW n \in A, m # n
      PROVE  Bytes(m) \cap Bytes(n) = {}
  <2>1. PICK i \in 1 .. Len(F) : m = F[i]
    BY <1>0 DEF A, ToSet
  <2>2. PICK j \in 1 .. Len(F) : n = F[j]
    BY <1>0 DEF A, ToSet
  <2>3. i < j \/ j < i
    BY <1>0, <1>7, <2>1, <2>2
  <2>4. End(m) < n.addr \/ End(n) < m.addr
    BY <1>0, <2>1, <2>2, <2>3 DEF GoodList
  <2>5. /\ m.addr \in Nat /\ m.size \in Nat \ {0} /\ End(m) = m.addr + m.size
        /\ n.addr \in Nat /\ n.size \in Nat \ {0} /\ End(n) = n.addr + n.size
    BY <1>1, GoodNumbers
  <2>6. m.addr + m.size <= n.addr \/ n.addr + n.size <= m.addr
    BY <2>4, <2>5
  <2> QED
    BY <2>5, <2>6, Apart
<1>8. ASSUME NEW m \in B, NEW n \in B, m # n
      PROVE  Bytes(m) \cap Bytes(n) = {}
  <2>1. PICK b \in L : m = Node(b)
    BY <1>3
  <2>2. PICK c \in L : n = Node(c)
    BY <1>3
  <2>3. b = c \/ Bytes(b) \cap Bytes(c) = {}
    BY DEF Sound
  <2> QED
    BY <2>1, <2>2, <2>3, <1>2, <1>8
<1>9. \A m, n \in N : m # n => Bytes(m) \cap Bytes(n) = {}
  <2> SUFFICES ASSUME NEW m \in N, NEW n \in N, m # n PROVE Bytes(m) \cap Bytes(n) = {}
    OBVIOUS
  <2>1. CASE m \in A /\ n \in A
    BY <2>1, <1>7
  <2>2. CASE m \in A /\ n \in B
    BY <2>2, <1>6
  <2>3. CASE m \in B /\ n \in A
    BY <2>3, <1>6
  <2>4. CASE m \in B /\ n \in B
    BY <2>4, <1>8
  <2> QED
    BY <2>1, <2>2, <2>3, <2>4, <1>4
<1>10. \A n \in N : n.size >= NUTMEM_HEAPNODE_MIN /\ n.addr % WORD = 0
  <2> SUFFICES ASSUME NEW n \in N PROVE n.size >= NUTMEM_HEAPNODE_MIN /\ n.addr % WORD = 0
    OBVIOUS
  <2>1. GoodNode(n)
    BY <1>1, <1>4, <1>5
  <2> QED
    BY <2>1 DEF GoodNode, AlignedWord, NUTMEM_HEAPNODE_MIN
<1>11. UNION {Bytes(n) : n \in N} = M
  <2>1. FreeBytes(F) \cup BlockBytes(L) = M
    BY DEF Sound
  <2>2. ASSUME NEW a \in M
        PROVE  \E n \in N : a \in Bytes(n)
    <3>1. CASE a \in FreeBytes(F)
      <4>1. PICK i \in 1 .. Len(F) : a \in Bytes(F[i])
        BY <3>1, InFree
      <4>2. F[i] \in N
        BY <1>0 DEF ToSet
      <4> QED
        BY <4>1, <4>2
    <3>2. CASE a \in BlockBytes(L)
      <4>1. PICK b \in L : a \in Bytes(b)
        BY <3>2, InBlocks
      <4>2. Node(b) \in N
        OBVIOUS
      <4> QED
        BY <4>1, <4>2, <1>2
    <3> QED
      BY <2>1, <3>1, <3>2
  <2>3. ASSUME NEW n \in N, NEW a \in Bytes(n)
        PROVE  a \in M
    <3>1. CASE n \in A
      BY <3>1, <1>1, <2>1, <2>3
    <3>2. CASE n \in B
      <4>1. PICK b \in L : n = Node(b)
        BY <3>2, <1>3
      <4> QED
        BY <4>1, <1>2, <2>1, <2>3, InBlocks
    <3> QED
      BY <3>1, <3>2, <1>4
  <2> QED
    BY <2>2, <2>3
<1>12. Cardinality(N) = Len(F) + Cardinality(L)
  <2>1. IsFiniteSet(A) /\ Cardinality(A) = Len(F)
    BY <1>0, ListCount DEF A
  <2>2. IsFiniteSet(B) /\ Cardinality(B) = Cardinality(L)
    BY NodesCount DEF B
  <2>3. A \cap B = {}
    BY <1>6
  <2>4. N = A \cup B
    BY DEF A, B
  <2> QED
    BY <2>1, <2>2, <2>3, <2>4, DisjointCard
<1> QED
  BY <1>9, <1>10, <1>11, <1>12 DEF SharedOut

\* A node inside free node i is not taken a second time.
LEMMA ReleasedTwice ==
  ASSUME NEW F, GoodList(F), NEW i \in 1 .. Len(F), NEW f, f.addr \in Bytes(F[i])
  PROVE  Release(F, f) = F
<1> DEFINE n == Len(F)
           stops == {j \in DOMAIN F : End(F[j]) >= f.addr}
<1>0. n \in Nat /\ DOMAIN F = 1 .. n
  BY DEF GoodList
<1>1. \A j \in 1 .. n : GoodNode(F[j]) /\ F[j].addr \in Nat /\ F[j].size \in Nat /\ End(F[j]) \in Nat
                        /\ End(F[j]) = F[j].addr + F[j].size
  <2> TAKE j \in 1 .. n
  <2>1. GoodNode(F[j])
    BY DEF GoodList
  <2> QED
    BY <2>1, GoodNumbers
<1>2. f.addr \in Nat /\ F[i].addr <= f.addr /\ f.addr < End(F[i])
  BY <1>1, InBytes
<1>3. i \in stops
  BY <1>0, <1>1, <1>2
<1>4. \A j \in stops : i <= j
  <2> SUFFICES ASSUME NEW j \in stops, j < i PROVE FALSE
    BY <1>0
  <2>1. End(F[j]) < F[i].addr
    BY <1>0 DEF GoodList
  <2>2. j \in 1 .. n /\ End(F[j]) >= f.addr
    BY <1>0
  <2> QED
    BY <2>1, <2>2, <1>1, <1>2
<1>5. Min(stops) = i
  <2>1. stops \in SUBSET Nat /\ stops # {}
    BY <1>0, <1>3
  <2>2. PICK m \in stops : m = Min(stops) /\ \A y \in stops : m <= y
    BY <2>1, MinIsLeast
  <2>3. m <= i /\ i <= m
    BY <2>2, <1>3, <1>4
  <2>4. m \in Nat /\ i \in Nat
    BY <2>1
  <2> HIDE DEF stops
  <2> QED
    BY <2>2, <2>3, <2>4
<1>6. End(F[i]) # f.addr /\ ~(F[i].addr > f.addr)
  BY <1>1, <1>2
<1>7. stops # {}
  BY <1>3
<1> QED
  BY <1>5, <1>6, <1>7 DEF Release

\* The area of an aligned allocation.
LEMMA AlignedArea ==
  ASSUME NEW al \in Nat \ {0}, NEW u \in Nat, NEW w \in Nat, AlignedExtra(al) <= w
  PROVE  LET p == AlignedPointer(u, al)
             s == w - AlignedExtra(al)
         IN  p % al = 0 /\ p - WORD >= u /\ p + s <= u + w
<1>0. WORD \in Nat \ {0}
  BY WordType
<1>1. PICK x \in Nat : x = u + AlignedExtra(al) /\ AlignedExtra(al) = al - 1 + WORD
  BY <1>0 DEF AlignedExtra
<1>2. PICK q \in Nat : q = x \div al
  BY SMT
<1>3. q * al \in Nat /\ q * al <= x /\ x < q * al + al
  BY <1>2, SMT
<1>4. (q * al) % al = 0
  BY SMT
<1>5. PICK p \in Nat : p = q * al
  BY <1>3
<1>6. AlignedPointer(u, al) = p
  BY <1>1, <1>2, <1>5 DEF AlignedPointer
<1>7. p - WORD >= u /\ p + (w - (al - 1 + WORD)) <= u + w
  BY <1>0, <1>1, <1>3, <1>5
<1> QED
  BY <1>1, <1>4, <1>5, <1>6, <1>7

\* The greatest element of a bounded set of numbers.
LEMMA MaxIsGreatest ==
  ASSUME NEW T \in SUBSET Nat, T # {}, NEW B \in Nat, \A y \in T : y <= B
  PROVE  Max(T) \in T /\ \A y \in T : y <= Max(T)
<1> DEFINE U == {u \in Nat : \A y \in T : y <= u}
<1>1. U \in SUBSET Nat /\ B \in U
  OBVIOUS
<1>2. PICK u \in U : \A v \in U : u <= v
  BY <1>1, LeastNat
<1>3. u \in Nat /\ \A y \in T : y <= u
  BY <1>2
<1>4. u \in T
  <2> SUFFICES ASSUME u \notin T PROVE FALSE
    OBVIOUS
  <2>1. PICK y \in T : TRUE
    OBVIOUS
  <2>2. \A z \in T : z \in Nat /\ z < u
    BY <1>3
  <2>3. u - 1 \in Nat /\ \A z \in T : z <= u - 1
    BY <1>3, <2>1, <2>2
  <2>4. u - 1 \in U
    BY <2>3
  <2> HIDE DEF U
  <2> QED
    BY <1>2, <1>3, <2>4
<1>5. \E x \in T : \A y \in T : x >= y
  BY <1>3, <1>4
<1>6. Max(T) \in T /\ \A y \in T : Max(T) >= y
  BY <1>5, Zenon DEF Max
<1> QED
  BY <1>6

\* The largest node of a free list that is not empty.
LEMMA LargestNode ==
  ASSUME NEW F, GoodList(F), F # <<>>
  PROVE  \E j \in 1 .. Len(F) :
           /\ \A i \in 1 .. Len(F) : F[i].size <= F[j].size
           /\ RegionAvailable(F) = F[j].size - WORD
<1> DEFINE T == {0} \cup {n.size : n \in ToSet(F)}
<1>0. /\ F \in Seq(HeapNode) /\ Len(F) \in Nat /\ Len(F) > 0 /\ DOMAIN F = 1 .. Len(F)
      /\ WORD \in Nat \ {0} /\ SIZE_T \in Nat \ {0}
  BY WordType DEF GoodList
<1>1. \A i \in 1 .. Len(F) : /\ F[i].size \in Nat /\ F[i].size >= 2 * WORD /\ F[i].size < SIZE_T
                             /\ F[i].size \in T
  <2> TAKE i \in 1 .. Len(F)
  <2>1. GoodNode(F[i])
    BY DEF GoodList
  <2>2. F[i] \in ToSet(F)
    BY <1>0 DEF ToSet
  <2>3. F[i].size < SIZE_T
    BY <2>1, <1>0, GoodNumbers
  <2> QED
    BY <2>1, <2>2, <2>3, GoodNumbers
<1>2. \A x \in T : x = 0 \/ \E i \in 1 .. Len(F) : x = F[i].size
  BY <1>0 DEF ToSet
<1> HIDE DEF T
<1>3. T \in SUBSET Nat /\ T # {} /\ \A y \in T : y <= SIZE_T
  <2>1. T # {}
    BY <1>0, <1>1
  <2>2. \A x \in T : x \in Nat /\ x <= SIZE_T
    <3> TAKE x \in T
    <3>1. CASE x = 0
      BY <3>1, <1>0
    <3>2. CASE x # 0
      <4>1. PICK i \in 1 .. Len(F) : x = F[i].size
        BY <1>2, <3>2
      <4>2. F[i].size \in Nat /\ F[i].size < SIZE_T
        BY <1>1
      <4> QED
        BY <4>1, <4>2, <1>0
    <3> QED
      BY <3>1, <3>2
  <2> QED
    BY <2>1, <2>2
<1>4. PICK m \in T : m = Max(T) /\ \A y \in T : y <= m
  BY <1>0, <1>3, MaxIsGreatest
<1>5. F[1].size <= m /\ m \in Nat
  BY <1>0, <1>1, <1>3, <1>4
<1>6. PICK j \in 1 .. Len(F) : m = F[j].size
  <2>1. m # 0
    BY <1>0, <1>1, <1>5
  <2> QED
    BY <2>1, <1>2
<1>7. PICK x \in Nat : x = m - WORD /\ x < SIZE_T
  BY <1>0, <1>1, <1>6
<1>8. x % SIZE_T = x
  BY <1>0, <1>7, SMT
<1>9. RegionAvailable(F) = (m - WORD) % SIZE_T
  BY <1>4 DEF RegionAvailable, NUT_HEAP_OVERHEAD, T
<1> QED
  BY <1>1, <1>4, <1>6, <1>7, <1>8, <1>9

\* The numbers of a free node leave room for a word at both ends of the memory.
LEMMA NodeLimit ==
  ASSUME NEW n, GoodNode(n)
  PROVE  n.size <= SIZE_T - 2 * WORD
<1>0. WORD \in Nat \ {0} /\ SIZE_T \in Nat \ {0}
  BY WordType
<1>1. PICK a \in Nat, z \in Nat : a = n.addr /\ z = n.size
  BY GoodNumbers
<1>2. AlignedWord(a) /\ AlignedWord(z) /\ a > 0 /\ a + z < SIZE_T
  BY <1>1, GoodNumbers DEF GoodNode
<1>3. WORD <= a
  <2>1. 0 + WORD <= a
    BY <1>2, FewWords, AlignedSums
  <2> QED
    BY <2>1, <1>0
<1>4. PICK y \in Nat : y = a + z /\ AlignedWord(y)
  BY <1>2, AlignedSums
<1>5. y + WORD <= SIZE_T
  BY <1>0, <1>2, <1>4, FewWords, AlignedSums
<1> QED
  BY <1>0, <1>1, <1>3, <1>4, <1>5

\* A request for what a node of m bytes holds asks for m bytes, a larger one for more.
LEMMA NodeSizeStep ==
  ASSUME NEW m \in Nat, AlignedWord(m), m >= 2 * WORD, m <= SIZE_T - 2 * WORD
  PROVE  NodeSize(m - WORD) = m /\ NodeSize(m - WORD + 1) \in Nat /\ NodeSize(m - WORD + 1) > m
<1>0. WORD \in Nat \ {0} /\ SIZE_T \in Nat \ {0} /\ 4 * WORD < SIZE_T
  BY WordType
<1>1. PICK s \in Nat : s = m - WORD
  BY <1>0
<1>2. AlignedWord(s)
  BY <1>0, <1>1, FewWords, AlignedSums
<1>3. s \in 0 .. SIZE_T - 1 /\ s <= SIZE_T - 2 * WORD /\ s >= WORD
  BY <1>0, <1>1
<1>4. NodeSize(s) = s + WORD
  BY <1>2, <1>3, NodeSizeFacts
<1>5. PICK y \in Nat : y = m + 1 /\ y < SIZE_T /\ y <= SIZE_T - WORD /\ y >= 2 * WORD
  BY <1>0
<1>6. y % SIZE_T = y
  BY <1>0, <1>5, SMT
<1>7. NodeSize(s + 1) = TopAlign(y)
  <2>1. (s + 1) + WORD = y
    BY <1>0, <1>1, <1>5
  <2>2. ~(y < 2 * WORD)
    BY <1>0, <1>5
  <2> QED
    BY <2>1, <2>2, <1>6 DEF NodeSize, NUT_HEAP_OVERHEAD, NUTMEM_HEAPNODE_MIN
<1>8. TopAlign(y) \in Nat /\ y <= TopAlign(y)
  BY <1>5, TopFacts DEF AlignedWord
<1> QED
  BY <1>0, <1>1, <1>4, <1>5, <1>7, <1>8

\* The turns of the loop of NutHeapRootAvailable.
LEMMA AvailableSteps ==
  ASSUME NEW F, GoodList(F)
  PROVE  LET rc == AvailableWalk(F)
         IN  /\ rc[0] = 0
             /\ \A k \in 1 .. Len(F) : rc[k] = (rc[k - 1] + F[k].size - WORD) % SIZE_T
<1> DEFINE V == 0 .. SIZE_T - 1
           n == Len(F)
           Step(v, k) == (v + F[k].size - WORD) % SIZE_T
           H == [p \in (1 .. n) \X V |-> Step(p[2], p[1])]
<1>0. n \in Nat /\ WORD \in Nat \ {0} /\ SIZE_T \in Nat \ {0} /\ 0 \in V
  BY WordType DEF GoodList
<1>1. \A k \in 1 .. n, v \in V : Step(v, k) \in V
  <2> TAKE k \in 1 .. n, v \in V
  <2>1. GoodNode(F[k])
    BY DEF GoodList
  <2>2. PICK x \in Int : x = v + F[k].size - WORD
    BY <2>1, <1>0, GoodNumbers
  <2>3. x % SIZE_T \in V
    BY <1>0, SMT
  <2> QED
    BY <2>2, <2>3
<1> HIDE DEF Step, V
<1>2. H \in [(1 .. n) \X V -> V]
  BY <1>1
<1>3. \A k \in 1 .. n, v \in V : H[<<k, v>>] = Step(v, k)
  OBVIOUS
<1> HIDE DEF H
<1>4. PICK g \in [0 .. n -> V] : g[0] = 0 /\ \A k \in 1 .. n : g[k] = H[<<k, g[k - 1]>>]
  <2> HIDE DEF n
  <2>1. PICK m \in Nat : m = n
    BY <1>0
  <2>2. PICK G \in [(1 .. m) \X V -> V] : G = H
    BY <1>2, <2>1
  <2>3. PICK y \in V : y = 0
    BY <1>0
  <2>4. \E g \in [0 .. m -> V] : StepByStep(g, m, y, G)
    BY Recursion
  <2> QED
    BY <2>1, <2>2, <2>3, <2>4 DEF StepByStep
<1>5. \A k \in 1 .. n : g[k - 1] \in V /\ g[k] = Step(g[k - 1], k)
  <2> TAKE k \in 1 .. n
  <2>1. k - 1 \in 0 .. n
    BY <1>0
  <2>2. g[k - 1] \in V
    BY <2>1
  <2> QED
    BY <2>2, <1>3, <1>4
<1>6. g = [k \in 0 .. n |-> IF k = 0 THEN 0 ELSE Step(g[k - 1], k)]
  <2>1. \A k \in 0 .. n : g[k] = IF k = 0 THEN 0 ELSE Step(g[k - 1], k)
    BY <1>0, <1>4, <1>5
  <2> QED
    BY <2>1
<1> DEFINE rc == AvailableWalk(F)
<1>7. rc = [k \in 0 .. n |-> IF k = 0 THEN 0 ELSE Step(rc[k - 1], k)]
  BY <1>6 DEF AvailableWalk, Step, NUT_HEAP_OVERHEAD
<1>8. rc[0] = 0 /\ \A k \in 1 .. n : rc[k] = Step(rc[k - 1], k)
  <2> HIDE DEF rc
  <2> QED
    BY <1>0, <1>7
<1> QED
  BY <1>8 DEF Step

\* The total is not less than what any node holds: the sum stays below the address
\* of the next node and does not wrap.
LEMMA TotalCovers ==
  ASSUME NEW F, GoodList(F), NEW j \in 1 .. Len(F)
  PROVE  AvailableWalk(F)[Len(F)] \in Nat /\ F[j].size - WORD <= AvailableWalk(F)[Len(F)]
<1> DEFINE n == Len(F)
           rc == AvailableWalk(F)
           P(k) == /\ rc[k] \in Nat
                   /\ \A i \in 1 .. n : k < i => rc[k] < F[i].addr
                   /\ \A i \in 1 .. n : i <= k => F[i].size - WORD <= rc[k]
           T == {k \in 0 .. n : P(k)}
<1>0. n \in Nat /\ WORD \in Nat \ {0} /\ SIZE_T \in Nat \ {0}
  BY WordType DEF GoodList
<1>1. \A i \in 1 .. n : /\ F[i].addr \in Nat /\ F[i].size \in Nat /\ F[i].addr > 0 /\ F[i].size >= 2 * WORD
                        /\ End(F[i]) = F[i].addr + F[i].size /\ End(F[i]) < SIZE_T
  <2> TAKE i \in 1 .. n
  <2>1. GoodNode(F[i])
    BY DEF GoodList
  <2> QED
    BY <2>1, GoodNumbers
<1>2. rc[0] = 0 /\ \A k \in 1 .. n : rc[k] = (rc[k - 1] + F[k].size - WORD) % SIZE_T
  BY AvailableSteps
<1>3. \A i, k \in 1 .. n : k < i => End(F[k]) < F[i].addr
  BY DEF GoodList
<1> HIDE DEF rc, n
<1>4. P(0)
  BY <1>0, <1>1, <1>2
<1>5. ASSUME NEW k \in 1 .. n, P(k - 1)
      PROVE  P(k)
  <2>1. PICK v \in Nat : v = rc[k - 1]
    BY <1>5
  <2>2. PICK a \in Nat, z \in Nat : a = F[k].addr /\ z = F[k].size /\ z >= 2 * WORD /\ a + z < SIZE_T
    BY <1>1
  <2>3. v < a
    <3>1. k - 1 < k
      BY <1>0
    <3> QED
      BY <3>1, <1>5, <2>1, <2>2
  <2>4. PICK x \in Nat : x = v + z - WORD /\ x < a + z /\ x < SIZE_T /\ v <= x /\ z - WORD <= x
    <3>0. PICK d \in Nat : d = z - WORD /\ d < z
      <4>1. PICK w \in Nat \ {0} : w = WORD
        BY <1>0
      <4>2. z >= w + w
        BY <2>2, <4>1
      <4>3. z - w \in Nat /\ z - w < z
        BY <4>2
      <4> QED
        BY <4>1, <4>3
    <3>1. PICK x \in Nat : x = v + d
      OBVIOUS
    <3>2. x < a + z /\ v <= x /\ d <= x
      BY <3>0, <3>1, <2>3
    <3>3. x < SIZE_T
      BY <3>2, <1>0, <2>2
    <3> QED
      BY <3>0, <3>1, <3>2, <3>3
  <2>5. x % SIZE_T = x
    BY <1>0, <2>4, SMT
  <2>6. rc[k] = x
    BY <1>2, <2>1, <2>2, <2>4, <2>5
  <2>7. ASSUME NEW i \in 1 .. n, k < i
        PROVE  rc[k] < F[i].addr
    <3>1. a + z < F[i].addr
      BY <1>1, <1>3, <2>2, <2>7
    <3> QED
      BY <3>1, <1>1, <2>4, <2>6
  <2>8. ASSUME NEW i \in 1 .. n, i <= k
        PROVE  F[i].size - WORD <= rc[k]
    <3>1. CASE i = k
      BY <3>1, <2>2, <2>4, <2>6
    <3>2. CASE i # k
      <4>1. i <= k - 1
        BY <3>2, <2>8, <1>0
      <4>2. F[i].size - WORD <= v
        BY <4>1, <1>5, <2>1
      <4> QED
        BY <4>2, <1>0, <1>1, <2>4, <2>6
    <3> QED
      BY <3>1, <3>2
  <2> QED
    BY <2>4, <2>6, <2>7, <2>8
<1>6. T = 0 .. n
  <2>1. T \in SUBSET (0 .. n) /\ 0 \in T
    BY <1>0, <1>4
  <2>2. ASSUME NEW k \in 1 .. n, k - 1 \in T
        PROVE  k \in T
    <3>1. P(k - 1)
      BY <2>2
    <3>2. P(k)
      <4> HIDE DEF P
      <4> QED
        BY <3>1, <1>5
    <3> QED
      BY <3>2, <1>0
  <2> HIDE DEF T
  <2> QED
    BY <1>0, <2>1, <2>2, Along
<1>7. P(n)
  BY <1>0, <1>6
<1>8. j \in 1 .. n /\ j <= n
  BY <1>0 DEF n
<1> QED
  BY <1>7, <1>8 DEF n, rc

\* The reports about a free list.
LEMMA Honest ==
  ASSUME NEW F, GoodList(F), F # <<>>
  PROVE  /\ BestFits(F, NodeSize(RegionAvailable(F))) # {}
         /\ BestFits(F, NodeSize(RegionAvailable(F) + 1)) = {}
         /\ RegionAvailable(F) <= AvailableWalk(F)[Len(F)]
<1>1. PICK j \in 1 .. Len(F) :
        /\ \A i \in 1 .. Len(F) : F[i].size <= F[j].size
        /\ RegionAvailable(F) = F[j].size - WORD
  BY LargestNode
<1>2. \A i \in 1 .. Len(F) : GoodNode(F[i]) /\ F[i].size \in Nat
  <2> TAKE i \in 1 .. Len(F)
  <2>1. GoodNode(F[i])
    BY DEF GoodList
  <2> QED
    BY <2>1, GoodNumbers
<1>3. PICK m \in Nat : m = F[j].size
  BY <1>2
<1>4. AlignedWord(m) /\ m >= 2 * WORD /\ m <= SIZE_T - 2 * WORD
  <2>1. m <= SIZE_T - 2 * WORD
    BY <1>2, <1>3, NodeLimit
  <2> QED
    BY <2>1, <1>2, <1>3 DEF GoodNode
<1>5. NodeSize(m - WORD) = m /\ NodeSize(m - WORD + 1) \in Nat /\ NodeSize(m - WORD + 1) > m
  BY <1>4, NodeSizeStep
<1>6. BestFits(F, m) # {}
  <2>1. F[j].size >= m
    BY <1>3
  <2> QED
    BY <2>1, BestFitFacts
<1>7. PICK y \in Nat : y = NodeSize(m - WORD + 1) /\ y > m
  BY <1>5
<1>8. BestFits(F, y) = {}
  <2>1. \A i \in 1 .. Len(F) : ~(F[i].size >= y)
    BY <1>1, <1>2, <1>3, <1>7
  <2> QED
    BY <2>1, BestFitFacts
<1>9. F[j].size - WORD <= AvailableWalk(F)[Len(F)]
  BY TotalCovers
<1> QED
  BY <1>1, <1>3, <1>5, <1>6, <1>7, <1>8, <1>9

\* The invariant implies what HeapSound states.
LEMMA HeapInvSound == HeapInv => HeapSound
<1> SUFFICES ASSUME HeapInv PROVE HeapSound
  OBVIOUS
<1>0. WORD \in Nat \ {0} /\ SIZE_T \in Nat \ {0}
  BY WordType
<1>1. PICK F, L, A : F = free /\ L = live /\ A = added
  OBVIOUS
<1>2. PICK M : M = Given(A)
  OBVIOUS
<1>3. Sound(F, L, M) /\ GoodList(F) /\ \A b \in L : GoodBlock(b)
  BY <1>1, <1>2 DEF HeapInv, Sound
<1>4. HeapPartitioned
  <2>1. PICK N : N = ToSet(F) \cup {Node(b) : b \in L}
    OBVIOUS
  <2>2. /\ \A m, n \in N : m # n => Bytes(m) \cap Bytes(n) = {}
        /\ \A n \in N : n.size >= NUTMEM_HEAPNODE_MIN /\ n.addr % WORD = 0
        /\ UNION {Bytes(n) : n \in N} = M
        /\ Cardinality(N) = Len(F) + Cardinality(L)
    <3>1. SharedOut(N, F, L, M)
      BY <1>3, <2>1, Partitioned
    <3> QED
      BY <3>1 DEF SharedOut
  <2>3. Nodes = N
    BY <1>1, <2>1 DEF Nodes
  <2>4. UNION {Bytes(AlignedRegion(r)) : r \in added} = M
    BY <1>1, <1>2 DEF Given
  <2> QED
    BY <1>1, <2>2, <2>3, <2>4 DEF HeapPartitioned
<1>5. Coalesced
  <2>1. \A i, j \in 1 .. Len(F) : i < j => End(F[i]) < F[j].addr
    BY <1>3 DEF GoodList
  <2>2. Len(F) \in Nat
    BY <1>3 DEF GoodList
  <2>3. \A i \in 1 .. Len(F) - 1 : i \in 1 .. Len(F) /\ i + 1 \in 1 .. Len(F) /\ i < i + 1
    BY <2>2
  <2> QED
    BY <1>1, <2>1, <2>3 DEF Coalesced
<1>6. DoubleFreeHarmless
  <2>1. ASSUME NEW n \in ToSet(F), NEW a \in Bytes(n), NEW k \in 2 .. 4
        PROVE  Release(F, [addr |-> a, size |-> k * WORD]) = F
    <3>1. PICK i \in 1 .. Len(F) : n = F[i]
      BY <1>3 DEF ToSet, GoodList
    <3>2. PICK f : f = [addr |-> a, size |-> k * WORD]
      OBVIOUS
    <3>3. f.addr \in Bytes(F[i])
      BY <2>1, <3>1, <3>2
    <3> QED
      BY <1>3, <3>2, <3>3, ReleasedTwice
  <2> QED
    BY <1>1, <2>1 DEF DoubleFreeHarmless
<1>7. RoomForRequest
  BY <1>1, <1>3 DEF RoomForRequest, GoodBlock, NUT_HEAP_OVERHEAD
<1>8. AlignedInside
  <2>1. ASSUME NEW b \in L, NEW al \in {1, WORD, 2 * WORD},
               b.want - AlignedExtra(al) >= 0, b.want + 2 * WORD <= SIZE_T
        PROVE  LET size == b.want - AlignedExtra(al)
                   p    == AlignedPointer(UserArea(b), al)
               IN  p % al = 0 /\ p - WORD >= UserArea(b) /\ p + size <= End(b)
    <3>1. GoodBlock(b)
      BY <1>3
    <3>2. PICK w \in Nat, z \in Nat, a \in Nat : w = b.want /\ z = b.size /\ a = b.addr
      BY <3>1 DEF GoodBlock
    <3>3. z >= w + WORD
      <4>1. w + WORD + WORD <= SIZE_T
        BY <1>0, <2>1, <3>2
      <4> QED
        BY <3>1, <3>2, <4>1 DEF GoodBlock
    <3>4. PICK u \in Nat : u = a + WORD
      BY <1>0
    <3>5. al \in Nat \ {0}
      BY <1>0
    <3>6. AlignedExtra(al) \in Int /\ AlignedExtra(al) <= w
      <4>1. AlignedExtra(al) \in Int
        BY <1>0, <3>5 DEF AlignedExtra
      <4> QED
        BY <4>1, <2>1, <3>2
    <3>7. LET p == AlignedPointer(u, al)
              s == w - AlignedExtra(al)
          IN  p % al = 0 /\ p - WORD >= u /\ p + s <= u + w
      BY <3>5, <3>6, AlignedArea
    <3>8. UserArea(b) = u /\ End(b) = a + z
      BY <3>2, <3>4 DEF UserArea, End, NUT_HEAP_OVERHEAD
    <3>9. PICK p : p = AlignedPointer(u, al)
      OBVIOUS
    <3>10. p \in Int
      <4>1. u + AlignedExtra(al) \in Int
        BY <3>6
      <4>2. (u + AlignedExtra(al)) \div al \in Int
        BY <4>1, <3>5, SMT
      <4> QED
        BY <4>2, <3>5, <3>9, SMT DEF AlignedPointer
    <3>11. PICK s \in Int : s = w - AlignedExtra(al)
      BY <3>6
    <3>12. p % al = 0 /\ p - WORD >= u /\ p + s <= u + w
      BY <3>7, <3>9, <3>11
    <3>13. p + s <= a + z
      BY <1>0, <3>3, <3>4, <3>10, <3>11, <3>12
    <3> QED
      BY <3>2, <3>8, <3>9, <3>11, <3>12, <3>13
  <2> QED
    BY <1>1, <2>1 DEF AlignedInside
<1>9. ReportHonest
  <2>1. F # <<>> => /\ BestFits(F, NodeSize(RegionAvailable(F))) # {}
                    /\ BestFits(F, NodeSize(RegionAvailable(F) + 1)) = {}
                    /\ RegionAvailable(F) <= AvailableWalk(F)[Len(F)]
    BY <1>3, Honest
  <2>2. Available = AvailableWalk(F)[Len(F)]
    BY <1>1 DEF Available
  <2> QED
    BY <1>1, <2>1, <2>2 DEF ReportHonest
<1> QED
  BY <1>4, <1>5, <1>6, <1>7, <1>8, <1>9 DEF HeapSound

\* The heap keeps its promises over every sequence of calls, whatever memory it
\* was given, when no client asks for a size in the two windows below the top of
\* size_t: there the size of the node (NutHeapRootAlloc, NUTMEM_TOP_ALIGN) or that
\* of a moved block (NutHeapRootRealloc adds the overhead twice) wraps, and the
\* block has no bytes or too few.
THEOREM HeapIsSound == SizesFit => (Spec => []HeapSound)
<1> SUFFICES ASSUME SizesFit PROVE Spec => []HeapSound
  OBVIOUS
<1>1. Init => HeapInv
  BY HeapInvInit
<1>2. HeapInv /\ [Next]_vars => HeapInv'
  BY HeapInductive
<1>3. HeapInv => HeapSound
  BY HeapInvSound
<1> QED
  BY <1>1, <1>2, <1>3, PTL DEF Spec
=============================================================================
