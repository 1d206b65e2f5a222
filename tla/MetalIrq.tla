------------------------------ MODULE MetalIrq ------------------------------
(***************************************************************************)
(* libmetal's interrupt numbers and software interrupts: controllers claim *)
(* ranges of numbers (irq.c), and the software controller (softirq.c)      *)
(* keeps its interrupts pending until metal_softirq_dispatch, which the    *)
(* main loop calls, runs their handlers.  Any context may set a software   *)
(* interrupt, also while they are dispatched.                              *)
(***************************************************************************)
EXTENDS Integers, Sequences, SequencesExt

CONSTANTS Controllers,  \* controllers besides the software one
          DeclaredBase, \* irq_base each is declared with, or METAL_IRQ_ANY
          IrqNum,       \* irq_num of each
          SOFTIRQ_NUM   \* METAL_SOFTIRQ_NUM

SoftCntr == "softirq"
AllControllers == Controllers \cup {SoftCntr}
METAL_IRQ_ANY == -1
Soft == 0 .. SOFTIRQ_NUM - 1

ASSUME IrqAssumption ==
  /\ SOFTIRQ_NUM \in Nat \ {0}
  /\ DeclaredBase \in [Controllers -> Nat \cup {METAL_IRQ_ANY}]
  /\ IrqNum \in [Controllers -> Nat]

VARIABLES irqCntrs,    \* the list irq_cntrs
          irqBase,     \* irq_base of every controller
          softHd,      \* metal_softirqs[i].hd is set
          softEnabled, softPending,
          softAvail,   \* metal_softirq_avail
          dispAt,      \* the loop of metal_softirq_dispatch, or SOFTIRQ_NUM
          dispPc,      \* "load", "cas", "handle" or "running" in the loop
          owed,        \* set, with a handler, and not handled since
          blocks       \* what metal_softirq_allocate has returned

softVars == <<softHd, softEnabled, softPending, softAvail, dispAt, dispPc, owed, blocks>>
irqVars == <<irqCntrs, irqBase, softVars>>

Num(c) == IF c = SoftCntr THEN SOFTIRQ_NUM ELSE IrqNum[c]
Numbers(c) == irqBase[c] .. irqBase[c] + Num(c) - 1

IrqInit ==
  /\ irqCntrs = <<>>
  /\ irqBase = [c \in AllControllers |-> IF c = SoftCntr THEN METAL_IRQ_ANY ELSE DeclaredBase[c]]
  /\ softHd = [i \in Soft |-> FALSE]
  /\ softEnabled = [i \in Soft |-> FALSE] /\ softPending = [i \in Soft |-> FALSE]
  /\ softAvail = 0 /\ dispAt = SOFTIRQ_NUM /\ dispPc = "load"
  /\ owed = [i \in Soft |-> FALSE] /\ blocks = {}
-----------------------------------------------------------------------------
\* Mutant: the end of the range is compared as if it were the last number.
OverlapsInclusive(from, num, c) ==
  from < irqBase[c] + Num(c) - 1 /\ from + num > irqBase[c]

Overlaps(from, num, c) == from < irqBase[c] + Num(c) /\ from + num > irqBase[c]

\* One turn of the walk in metal_irq_allocate, at controller c: a declared range
\* that overlaps is refused, one left to the allocator is moved behind c.
AllocateStep(at, base, num, c) ==
  IF at = METAL_IRQ_ANY \/ ~Overlaps(at, num, c) THEN at
  ELSE IF base # METAL_IRQ_ANY THEN METAL_IRQ_ANY
  ELSE irqBase[c] + Num(c)

\* Where the range is after each controller of the list; it is not compared
\* again with the ones it has passed.
AllocateWalk(base, num) ==
  LET at[k \in 0 .. Len(irqCntrs)] ==
        IF k = 0 THEN IF base = METAL_IRQ_ANY THEN 0 ELSE base
        ELSE AllocateStep(at[k - 1], base, num, irqCntrs[k])
  IN  at

\* metal_irq_allocate.
IrqAllocate(base, num) ==
  IF num = 0 THEN METAL_IRQ_ANY ELSE AllocateWalk(base, num)[Len(irqCntrs)]

\* A controller that is listed, or finds no range, changes nothing.
RegisterController(c) ==
  /\ LET base == IrqAllocate(irqBase[c], Num(c))
     IN  IF Contains(irqCntrs, c) \/ base = METAL_IRQ_ANY THEN UNCHANGED <<irqBase, irqCntrs>>
         ELSE /\ irqBase' = [irqBase EXCEPT ![c] = base]
              /\ irqCntrs' = Append(irqCntrs, c)
  /\ UNCHANGED softVars

\* metal_irq_get_controller: the first in the list.
ControllerOf(irq) ==
  LET having == {k \in DOMAIN irqCntrs : irq \in Numbers(irqCntrs[k])}
  IN  IF having = {} THEN {} ELSE {irqCntrs[CHOOSE k \in having : \A j \in having : k <= j]}

\* The interrupt of the software controller that a number reaches.
SoftIndex(irq) == {irq - irqBase[SoftCntr] : c \in ControllerOf(irq) \cap {SoftCntr}}

IrqNumbers == UNION {Numbers(c) : c \in ToSet(irqCntrs)}
-----------------------------------------------------------------------------
\* metal_irq_register; handlers of other controllers are not followed.
IrqRegister(irq, set) ==
  /\ \E i \in SoftIndex(irq) :
       /\ softHd' = [softHd EXCEPT ![i] = set]
       /\ owed' = [owed EXCEPT ![i] = @ /\ set]
  /\ UNCHANGED <<irqCntrs, irqBase, softEnabled, softPending, softAvail, dispAt, dispPc, blocks>>

\* metal_irq_enable and metal_irq_disable.
SetEnable(irq, state) ==
  /\ \E i \in SoftIndex(irq) : softEnabled' = [softEnabled EXCEPT ![i] = state]
  /\ UNCHANGED <<irqCntrs, irqBase, softHd, softPending, softAvail, dispAt, dispPc, owed, blocks>>

SoftirqSet(irq) ==
  /\ irq \in Numbers(SoftCntr)
  /\ LET i == irq - irqBase[SoftCntr]
     IN  /\ softPending' = [softPending EXCEPT ![i] = TRUE]
         /\ owed' = [owed EXCEPT ![i] = softHd[i]]
  /\ UNCHANGED <<irqCntrs, irqBase, softHd, softEnabled, softAvail, dispAt, dispPc, blocks>>

\* Mutant: the numbers handed out before are not counted.
SoftirqAllocateAgain(num) ==
  /\ num < SOFTIRQ_NUM
  /\ blocks' = blocks \cup {irqBase[SoftCntr] .. irqBase[SoftCntr] + num - 1}
  /\ softAvail' = num
  /\ UNCHANGED <<irqCntrs, irqBase, softHd, softEnabled, softPending, dispAt, dispPc, owed>>

\* The last software interrupt is never handed out (>=).
SoftirqAllocate(num) ==
  /\ softAvail + num < SOFTIRQ_NUM
  /\ LET base == irqBase[SoftCntr] + softAvail
     IN  blocks' = blocks \cup {base .. base + num - 1}
  /\ softAvail' = softAvail + num
  /\ UNCHANGED <<irqCntrs, irqBase, softHd, softEnabled, softPending, dispAt, dispPc, owed>>
-----------------------------------------------------------------------------
(***************************************************************************)
(* metal_softirq_dispatch.                                                 *)
(***************************************************************************)
\* Mutant: the loop leaves out the first interrupt.
DispatchCallFromOne ==
  /\ dispAt = SOFTIRQ_NUM
  /\ dispAt' = 1 /\ dispPc' = "load"
  /\ UNCHANGED <<irqCntrs, irqBase, softHd, softEnabled, softPending, softAvail, owed, blocks>>

DispatchCall ==
  /\ dispAt = SOFTIRQ_NUM
  /\ dispAt' = 0 /\ dispPc' = "load"
  /\ UNCHANGED <<irqCntrs, irqBase, softHd, softEnabled, softPending, softAvail, owed, blocks>>

NextSoftirq == dispAt' = dispAt + 1 /\ dispPc' = "load"

LoadEnabled ==
  /\ dispAt < SOFTIRQ_NUM /\ dispPc = "load"
  /\ IF softEnabled[dispAt] THEN dispPc' = "cas" /\ UNCHANGED dispAt ELSE NextSoftirq
  /\ UNCHANGED <<irqCntrs, irqBase, softHd, softEnabled, softPending, softAvail, owed, blocks>>

TakePending ==
  /\ dispAt < SOFTIRQ_NUM /\ dispPc = "cas"
  /\ IF softPending[dispAt] THEN dispPc' = "handle" /\ UNCHANGED dispAt ELSE NextSoftirq
  /\ softPending' = [softPending EXCEPT ![dispAt] = FALSE]
  /\ UNCHANGED <<irqCntrs, irqBase, softHd, softEnabled, softAvail, owed, blocks>>

\* metal_irq_handle: the handler begins, or there is none.
HandlerBegins ==
  /\ dispAt < SOFTIRQ_NUM /\ dispPc = "handle"
  /\ owed' = [owed EXCEPT ![dispAt] = FALSE]
  /\ dispPc' = "running"
  /\ UNCHANGED <<irqCntrs, irqBase, softHd, softEnabled, softPending, softAvail, dispAt, blocks>>

\* Mutant: the interrupt is acknowledged once its handler has returned.
HandlerEndsAcks ==
  /\ dispAt < SOFTIRQ_NUM /\ dispPc = "running"
  /\ softPending' = [softPending EXCEPT ![dispAt] = FALSE]
  /\ NextSoftirq
  /\ UNCHANGED <<irqCntrs, irqBase, softHd, softEnabled, softAvail, owed, blocks>>

HandlerEnds ==
  /\ dispAt < SOFTIRQ_NUM /\ dispPc = "running"
  /\ NextSoftirq
  /\ UNCHANGED <<irqCntrs, irqBase, softHd, softEnabled, softPending, softAvail, owed, blocks>>

Dispatch == LoadEnabled \/ TakePending \/ HandlerBegins \/ HandlerEnds
SoftReady == Contains(irqCntrs, SoftCntr)

IrqConfigure == \E c \in AllControllers : RegisterController(c)

IrqUse ==
  \/ RegisterController(SoftCntr)
  \/ \E irq \in IrqNumbers : \/ IrqRegister(irq, TRUE) \/ IrqRegister(irq, FALSE)
                             \/ SetEnable(irq, TRUE) \/ SetEnable(irq, FALSE)
                             \/ SoftReady /\ SoftirqSet(irq)
  \/ \E num \in 1 .. 2 : SoftReady /\ SoftirqAllocate(num)
  \/ DispatchCall \/ Dispatch

IrqSpec == IrqInit /\ [][IrqConfigure \/ IrqUse]_irqVars
-----------------------------------------------------------------------------
SortedByBase == \A j, k \in DOMAIN irqCntrs : j < k => irqBase[irqCntrs[j]] < irqBase[irqCntrs[k]]

\* metal_irq_register_controller gives a controller numbers that no other
\* controller uses, when its range is declared or the list is in the order of
\* the numbers.  (An undeclared range is compared with each controller once:
\* moved behind one it may run into another that it has passed.)
RangesDisjoint ==
  \A c \in AllControllers :
    /\ ~Contains(irqCntrs, c) /\ Contains(irqCntrs', c)
    /\ irqBase[c] # METAL_IRQ_ANY \/ SortedByBase
    => \A d \in ToSet(irqCntrs) : (Numbers(c))' \cap Numbers(d) = {}

\* Two metal_softirq_allocate calls get different interrupts, all of which the
\* software controller serves.
BlocksDisjoint ==
  \A b \in blocks :
    /\ b \subseteq Numbers(SoftCntr)
    /\ \A c \in blocks : b = c \/ b \cap c = {}

\* No interrupt number has two owners, among controllers or among the blocks
\* of software interrupts.
NumbersDisjoint == [][BlocksDisjoint' /\ RangesDisjoint]_irqVars

\* With metal_softirq_dispatch called again and again, a software interrupt
\* that was set and stays enabled reaches its handler, also one that is set
\* again while its handler runs.
SoftirqServed ==
  \A i \in Soft : owed[i] /\ softEnabled[i] ~> ~owed[i] \/ ~softEnabled[i]
=============================================================================
