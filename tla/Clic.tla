-------------------------------- MODULE Clic --------------------------------
(***************************************************************************)
(* The interrupt side of the core: the vector table and the descriptors of *)
(* sunxi_irq.c over the CLIC registers of core_rv32.h.  Numbers below      *)
(* CLIC_PERIPH_IRQ_OFFSET have a vector of their own; the others share     *)
(* clic_common_handler, which finds handler and argument in a descriptor.  *)
(* The controller itself (which interrupt the core takes) is external.     *)
(***************************************************************************)
EXTENDS Integers, Sequences, FiniteSets

CONSTANTS CLIC_PERIPH_IRQ_OFFSET,
          E907_SUNXI_IRQ_MAX,
          CORET_IRQn,
          NLBITS,        \* CLICINTCTLBITS of this implementation
          ClicHandlers,  \* handlers that drivers request
          MaxClicCalls   \* bound on the requests and priorities set

CLIC_IRQ_NUM == E907_SUNXI_IRQ_MAX + CLIC_PERIPH_IRQ_OFFSET
Irqs == 0 .. CLIC_IRQ_NUM - 1
Descs == 0 .. E907_SUNXI_IRQ_MAX - 1
PRIO_BITS == 3           \* CLIC_INTCFG_PRIO_Msk covers the top 3 bits of CTL

ASSUME ClicAssumption ==
  /\ CLIC_PERIPH_IRQ_OFFSET \in Nat /\ E907_SUNXI_IRQ_MAX \in Nat \ {0}
  /\ CORET_IRQn \in 0 .. CLIC_PERIPH_IRQ_OFFSET - 1
  /\ NLBITS \in 1 .. PRIO_BITS
  /\ "clic_null_handler" \notin ClicHandlers

VARIABLES gVector,     \* g_irqvector
          irqDesc,     \* arch_irqs_desc
          clicIE, clicIP, clicCtl,
          mie,         \* MSTATUS.MIE
          savedMie,    \* what nested csi_irq_save calls have returned
          request,     \* the arch_request_irq under way: <<>> or <<irq, handler, data>>
          inHandler,   \* the interrupt being served: <<>> or <<irq, handler, data>>
          exposed,     \* interrupts requested while they were enabled
          wanted,      \* the priority last set for each interrupt
          clicCalls

clicVars == <<gVector, irqDesc, clicIE, clicIP, clicCtl, mie, savedMie, request, inHandler, exposed, wanted, clicCalls>>

\* After irq_vectors_init.  Interrupts that an earlier program left enabled
\* are disabled, but the loop disables i - OFFSET: the last ones keep their state.
ClicInit ==
  /\ gVector = [i \in Irqs |-> IF i = CORET_IRQn THEN "SysTick_Handler"
                               ELSE IF i >= CLIC_PERIPH_IRQ_OFFSET THEN "clic_common_handler" ELSE "NULL"]
  /\ irqDesc = [d \in Descs |-> [handle_irq |-> "clic_null_handler", data |-> <<>>]]
  /\ clicIE = {} /\ clicIP = {} /\ clicCtl = [i \in Irqs |-> 2^(8 - PRIO_BITS) - 1]
  /\ mie = TRUE /\ savedMie = <<>> /\ request = <<>> /\ inHandler = <<>>
  /\ exposed = {} /\ wanted = [i \in Irqs |-> 0] /\ clicCalls = 0

Idle == request = <<>> /\ inHandler = <<>>
Call == Idle /\ clicCalls < MaxClicCalls /\ clicCalls' = clicCalls + 1
-----------------------------------------------------------------------------
\* enable_irq and disable_irq (csi_vic_enable_irq, csi_vic_disable_irq).
EnableIrq(i) ==
  /\ Idle /\ clicIE' = clicIE \cup {i}
  /\ UNCHANGED <<gVector, irqDesc, clicIP, clicCtl, mie, savedMie, request, inHandler, exposed, wanted, clicCalls>>

DisableIrq(i) ==
  /\ Idle /\ clicIE' = clicIE \ {i}
  /\ UNCHANGED <<gVector, irqDesc, clicIP, clicCtl, mie, savedMie, request, inHandler, exposed, wanted, clicCalls>>

\* Mutant: a descriptor in use is taken over.
FreeSlotUnchecked(d) == d \in Descs

\* The descriptor holds the null handler.
FreeSlot(d) == irqDesc[d].handle_irq = "clic_null_handler"

\* arch_request_irq below the offset: the vector itself; no argument is kept.
RequestVector(i, h) ==
  /\ Call /\ i < CLIC_PERIPH_IRQ_OFFSET
  /\ gVector' = [gVector EXCEPT ![i] = h]
  /\ UNCHANGED <<irqDesc, clicIE, clicIP, clicCtl, mie, savedMie, request, inHandler, exposed, wanted>>

\* arch_request_irq: handle_irq is stored, and data after it.  A number of the
\* last OFFSET ones is refused; an owned descriptor is left alone, and the
\* number is returned all the same.
RequestHandler(i, h, data) ==
  /\ Call /\ i >= CLIC_PERIPH_IRQ_OFFSET /\ i + CLIC_PERIPH_IRQ_OFFSET < CLIC_IRQ_NUM
  /\ LET d == i - CLIC_PERIPH_IRQ_OFFSET
     IN  /\ FreeSlot(d)
         /\ irqDesc' = [irqDesc EXCEPT ![d].handle_irq = h]
         /\ exposed' = IF i \in clicIE THEN exposed \cup {i} ELSE exposed \ {i}
  /\ request' = <<i, h, data>>
  /\ UNCHANGED <<gVector, clicIE, clicIP, clicCtl, mie, savedMie, inHandler, wanted>>

\* Mutant: the argument is stored for the number, not for its descriptor.
RequestDataShifted ==
  /\ request # <<>> /\ inHandler = <<>>
  /\ irqDesc' = [irqDesc EXCEPT ![request[1] % E907_SUNXI_IRQ_MAX].data = request[3]]
  /\ request' = <<>>
  /\ UNCHANGED <<gVector, clicIE, clicIP, clicCtl, mie, savedMie, inHandler, exposed, wanted, clicCalls>>

RequestData ==
  /\ request # <<>> /\ inHandler = <<>>
  /\ irqDesc' = [irqDesc EXCEPT ![request[1] - CLIC_PERIPH_IRQ_OFFSET].data = request[3]]
  /\ request' = <<>>
  /\ UNCHANGED <<gVector, clicIE, clicIP, clicCtl, mie, savedMie, inHandler, exposed, wanted, clicCalls>>

\* arch_free_irq: the argument stays behind.
FreeIrq(i) ==
  /\ Call
  /\ gVector' = IF i < CLIC_PERIPH_IRQ_OFFSET THEN [gVector EXCEPT ![i] = "Default_Handler"] ELSE gVector
  /\ irqDesc' = IF i >= CLIC_PERIPH_IRQ_OFFSET /\ i + CLIC_PERIPH_IRQ_OFFSET < CLIC_IRQ_NUM
                THEN [irqDesc EXCEPT ![i - CLIC_PERIPH_IRQ_OFFSET].handle_irq = "clic_null_handler"] ELSE irqDesc
  /\ UNCHANGED <<clicIE, clicIP, clicCtl, mie, savedMie, request, inHandler, exposed, wanted>>

\* Mutant: the shift is one short.
SetPrioShort(ctl, p) == (ctl % 2^(8 - PRIO_BITS)) + p * 2^(7 - NLBITS)

\* csi_vic_set_prio: the bits of PRIO_Msk are replaced.
SetPrio(ctl, p) == (ctl % 2^(8 - PRIO_BITS)) + p * 2^(8 - NLBITS)

VicSetPrio(i, p) ==
  /\ Call
  /\ clicCtl' = [clicCtl EXCEPT ![i] = SetPrio(@, p)]
  /\ wanted' = [wanted EXCEPT ![i] = p]
  /\ UNCHANGED <<gVector, irqDesc, clicIE, clicIP, mie, savedMie, request, inHandler, exposed>>

VicGetPrio(i) == clicCtl[i] \div 2^(8 - NLBITS)
-----------------------------------------------------------------------------
\* csi_vic_set_pending_irq, or the device; csi_vic_clear_pending_irq.
SetPending(i) ==
  /\ clicIP' = clicIP \cup {i}
  /\ UNCHANGED <<gVector, irqDesc, clicIE, clicCtl, mie, savedMie, request, inHandler, exposed, wanted, clicCalls>>

ClearPending(i) ==
  /\ Idle /\ clicIP' = clicIP \ {i}
  /\ UNCHANGED <<gVector, irqDesc, clicIE, clicCtl, mie, savedMie, request, inHandler, exposed, wanted, clicCalls>>

\* What the vector of i runs: clic_common_handler reads the descriptor.
Served(i) ==
  IF gVector[i] # "clic_common_handler" THEN <<i, gVector[i], <<>> >>
  ELSE LET d == irqDesc[i - CLIC_PERIPH_IRQ_OFFSET] IN <<i, d.handle_irq, d.data>>

\* The core takes an interrupt; handlers do not nest.
Interrupt(i) ==
  /\ mie /\ inHandler = <<>> /\ i \in clicIE \cap clicIP
  /\ clicIP' = clicIP \ {i}
  /\ inHandler' = Served(i)
  /\ UNCHANGED <<gVector, irqDesc, clicIE, clicCtl, mie, savedMie, request, exposed, wanted, clicCalls>>

HandlerReturns ==
  /\ inHandler # <<>> /\ inHandler' = <<>>
  /\ UNCHANGED <<gVector, irqDesc, clicIE, clicIP, clicCtl, mie, savedMie, request, exposed, wanted, clicCalls>>

\* csi_irq_save and csi_irq_restore, nested.
IrqSave ==
  /\ Idle /\ Len(savedMie) < 2
  /\ savedMie' = Append(savedMie, mie) /\ mie' = FALSE
  /\ UNCHANGED <<gVector, irqDesc, clicIE, clicIP, clicCtl, request, inHandler, exposed, wanted, clicCalls>>

\* Mutant: the end of any section enables interrupts.
IrqRestoreAlways ==
  /\ Idle /\ savedMie # <<>>
  /\ savedMie' = SubSeq(savedMie, 1, Len(savedMie) - 1) /\ mie' = TRUE
  /\ UNCHANGED <<gVector, irqDesc, clicIE, clicIP, clicCtl, request, inHandler, exposed, wanted, clicCalls>>

IrqRestore ==
  /\ Idle /\ savedMie # <<>>
  /\ mie' = savedMie[Len(savedMie)]
  /\ savedMie' = SubSeq(savedMie, 1, Len(savedMie) - 1)
  /\ UNCHANGED <<gVector, irqDesc, clicIE, clicIP, clicCtl, request, inHandler, exposed, wanted, clicCalls>>

ClicIrq ==
  \/ \E i \in Irqs :
       \/ EnableIrq(i) \/ DisableIrq(i) \/ SetPending(i) \/ ClearPending(i) \/ Interrupt(i) \/ FreeIrq(i)
       \/ \E h \in ClicHandlers : RequestVector(i, h) \/ RequestHandler(i, h, <<i, h>>)
  \/ RequestData \/ HandlerReturns \/ IrqSave \/ IrqRestore

ClicPrio == \E i \in Irqs : \E p \in 0 .. 2^NLBITS - 1 : VicSetPrio(i, p)

ClicNext == ClicIrq \/ ClicPrio

ClicSpec == ClicInit /\ [][ClicNext]_clicVars
-----------------------------------------------------------------------------
\* A peripheral's handler runs with the argument it was requested with, also
\* when the descriptor was freed and requested again and while a request is
\* half done; not when the interrupt was already enabled at its request.
HandlerGetsItsData ==
  /\ inHandler # <<>> /\ inHandler[2] \in ClicHandlers
  /\ inHandler[1] >= CLIC_PERIPH_IRQ_OFFSET /\ inHandler[1] \notin exposed
  => inHandler[3] = <<inHandler[1], inHandler[2]>>

\* A driver that owns an interrupt keeps it, handler and argument, until
\* arch_free_irq: requests of others return without effect.
OwnerKept ==
  \A d \in Descs :
    LET old == irqDesc[d] new == irqDesc'[d]
    IN  old.handle_irq # "clic_null_handler" /\ (request = <<>> \/ request[1] # d + CLIC_PERIPH_IRQ_OFFSET)
        => new.data = old.data /\ new.handle_irq \in {old.handle_irq, "clic_null_handler"}

\* No interrupt is taken between the outer csi_irq_save and its
\* csi_irq_restore, however often sections are nested in it.
SectionUninterrupted == savedMie # <<>> => inHandler = <<>>

\* csi_vic_get_prio returns what csi_vic_set_prio has set.
PrioReadsBack == \A i \in Irqs : VicGetPrio(i) = wanted[i]

\* Drivers and the controller agree at every step: the right argument, sections
\* that stay closed, priorities as set, and owners that are not displaced.
DriversServed ==
  [][HandlerGetsItsData' /\ SectionUninterrupted' /\ PrioReadsBack' /\ OwnerKept]_clicVars
=============================================================================
