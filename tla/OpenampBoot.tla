----------------------------- MODULE OpenampBoot ----------------------------
(***************************************************************************)
(* The start of the firmware: main (main.c), sunxi_openamp_init            *)
(* (sunxi_openamp.c), rpmsg_init_vdev_with_config (rpmsg_virtio.c) and the *)
(* virtual UARTs (sunxi_virt_uart.c), with the mailbox interrupt live from *)
(* the first of these steps on.  The interrupt handler walks through the   *)
(* structures that main is still building.                                 *)
(*                                                                         *)
(* Main is the straight line Program; up holds what it has built so far.   *)
(* Reading through a pointer that is still NULL has undefined behaviour:   *)
(* it faults, or it finds a zero and comes back.  Writing through one, when*)
(* an endpoint is added to a list that is still zero, is taken as a fault. *)
(***************************************************************************)
EXTENDS Mailbox, Sequences

CONSTANTS Uarts,       \* the virtual UARTs, in the order main sets them up
          MaxRing      \* bound: messages waiting in the receive ring

UartSet == {Uarts[i] : i \in DOMAIN Uarts}

ASSUME BootAssumption ==
  /\ MaxRing \in Nat \ {0}
  /\ Uarts \in Seq(UartSet) /\ Uarts # <<>>

VARIABLES
  pc,         \* where main is in Program
  up,         \* what main has initialised
  bound,      \* UARTs with a receive callback (vuart->cb)
  driver_ok,  \* the host has set VIRTIO_CONFIG_STATUS_DRIVER_OK
  ring,       \* the UARTs that the waiting messages are for
  handler,    \* sunxi_openamp_receive: "idle", "rx" (its loop), "reply", "done"
  fault,      \* the core has followed a bad pointer
  told,       \* UARTs announced to the host
  known,      \* UARTs whose announcement the host has read
  eager,      \* the host kicks as soon as it has set DRIVER_OK
  starved     \* metal_allocate_memory has returned NULL

bootVars == <<pc, up, bound, driver_ok, ring, handler, fault, told, known,
              eager, starved>>
vars == <<mailVars, bootVars>>

Step(op) == [op |-> op, uart |-> "none"]
UartSteps(op) == [i \in DOMAIN Uarts |-> [op |-> op, uart |-> Uarts[i]]]
Setup(i) == IF i % 2 = 1 THEN [op |-> "create", uart |-> Uarts[(i + 1) \div 2]]
            ELSE [op |-> "announce", uart |-> Uarts[i \div 2]]
SetupUarts == [i \in 1 .. 2 * Len(Uarts) |-> Setup(i)]

\* Mutant: the list of endpoints is initialised behind the virtual UARTs.
ProgramListLate ==
  <<Step("msgbox"), Step("vdev"), Step("wait"), Step("rvdev"), Step("txq"), Step("rxq"),
    Step("callback"), Step("rvq"), Step("shm_io")>>
  \o SetupUarts \o <<Step("endpoints")>> \o UartSteps("register") \o <<Step("loop")>>

\* Mutant: the receive queue gets its callback when everything else is ready.
ProgramCallbackLate ==
  <<Step("msgbox"), Step("vdev"), Step("wait"), Step("rvdev"), Step("txq"), Step("rxq"),
    Step("rvq"), Step("shm_io"), Step("endpoints")>>
  \o SetupUarts \o UartSteps("register") \o <<Step("callback"), Step("loop")>>

\* Mutant: rpmsg_create_ept announces an endpoint and then registers it.
ProgramAnnounceFirst ==
  <<Step("msgbox"), Step("vdev"), Step("wait"), Step("rvdev"), Step("txq"), Step("rxq"),
    Step("callback"), Step("rvq"), Step("shm_io"), Step("endpoints")>>
  \o UartSteps("announce") \o UartSteps("create") \o UartSteps("register") \o <<Step("loop")>>

\* What main does, in order.
Program ==
  <<Step("msgbox"), Step("vdev"), Step("wait"), Step("rvdev"), Step("txq"), Step("rxq"),
    Step("callback"), Step("rvq"), Step("shm_io"), Step("endpoints")>>
  \o SetupUarts \o UartSteps("register") \o <<Step("loop")>>

\* Where main goes on when sunxi_openamp_init has returned.
FirstUart == CHOOSE i \in DOMAIN Program :
               Program[i].op = "create" /\ Program[i].uart = Uarts[1]

Init ==
  /\ MailInit
  /\ pc = 1 /\ up = {} /\ bound = {}
  /\ driver_ok = FALSE /\ ring = <<>>
  /\ handler = "idle" /\ fault = FALSE
  /\ told = {} /\ known = {}
  /\ eager \in BOOLEAN /\ starved = FALSE
-----------------------------------------------------------------------------
(***************************************************************************)
(* Main.                                                                   *)
(***************************************************************************)
At(op) == ~fault /\ MainRuns /\ sending["main"] = "no" /\ Program[pc].op = op

\* The next thing is built.
Build(op) ==
  /\ At(op)
  /\ up' = up \cup {op}
  /\ pc' = pc + 1

Quiet == UNCHANGED <<mailVars, bound, driver_ok, ring, handler, fault, told, known, eager, starved>>

\* hal_msgbox_init, hal_msgbox_alloc_channel.
InitMsgbox ==
  /\ Build("msgbox")
  /\ EnableReceive
  /\ UNCHANGED <<bound, driver_ok, ring, handler, fault, told, known, eager, starved>>

CreateVdev == Build("vdev") /\ Quiet

\* sunxi_openamp_init returns -1; main goes on all the same.
CreateVdevFails ==
  /\ At("vdev")
  /\ starved' = TRUE
  /\ pc' = FirstUart
  /\ UNCHANGED <<mailVars, up, bound, driver_ok, ring, handler, fault, told, known, eager>>

\* The wait for the host, and rproc_virtio_init_vring of both rings.
WaitRemoteReady == Build("wait") /\ driver_ok /\ Quiet

\* rvdev->vdev: from here on rproc_virtio_notified has a device.
SetDevice      == Build("rvdev") /\ Quiet
\* Both rings of virtio_create_virtqueues; the second one in two steps,
\* vring_info->vq and then vq->callback.
CreateTxQueue  == Build("txq") /\ Quiet
AllocRxQueue   == Build("rxq") /\ Quiet
CreateRxQueue  == Build("callback") /\ Quiet
\* rvdev->rvq and rvdev->svq, vq->shm_io, then the list of endpoints.
AssignQueues   == Build("rvq") /\ Quiet
SetShmIo       == Build("shm_io") /\ Quiet
InitEndpoints  == Build("endpoints") /\ Quiet

\* virtqueue_allocate returns NULL: rpmsg_init_vdev returns an error, which
\* sunxi_openamp_init does not look at.
AllocQueueFails ==
  /\ At("txq") \/ At("rxq")
  /\ starved' = TRUE
  /\ pc' = FirstUart
  /\ UNCHANGED <<mailVars, up, bound, driver_ok, ring, handler, fault, told, known, eager>>

\* virt_uart_init: rpmsg_create_ept puts the endpoint on the list ...
CreateEndpoint ==
  /\ At("create")
  /\ IF "endpoints" \in up
     THEN up' = up \cup {Program[pc].uart} /\ pc' = pc + 1 /\ UNCHANGED fault
     ELSE fault' = TRUE /\ UNCHANGED <<up, pc>>
  /\ UNCHANGED <<mailVars, bound, driver_ok, ring, handler, told, known, eager, starved>>

\* ... and sends its announcement, which ends in a kick.
Announce ==
  /\ At("announce")
  /\ SendStart("main")
  /\ told' = told \cup {Program[pc].uart}
  /\ pc' = pc + 1
  /\ UNCHANGED <<up, bound, driver_ok, ring, handler, fault, known, eager, starved>>

\* virt_uart_register_cb.
RegisterCallback ==
  /\ At("register")
  /\ bound' = bound \cup {Program[pc].uart}
  /\ pc' = pc + 1
  /\ UNCHANGED <<mailVars, up, driver_ok, ring, handler, fault, told, known, eager, starved>>
-----------------------------------------------------------------------------
(***************************************************************************)
(* The interrupt handler's receive callback, sunxi_openamp_receive.        *)
(***************************************************************************)
InReceive(h) == ~fault /\ isr = "receive" /\ handler = h

\* A step that may go wrong: it faults or it returns.
MayFault ==
  \/ fault' = TRUE /\ UNCHANGED handler
  \/ handler' = "done" /\ UNCHANGED fault

HandlerOnly == UNCHANGED <<mailVars, pc, up, bound, driver_ok, told, known, eager, starved>>

\* rproc_virtio_notified and virtqueue_notification.
Notified ==
  /\ InReceive("idle")
  /\ CASE "rvdev" \notin up -> handler' = "done" /\ UNCHANGED fault
       [] "rvdev" \in up /\ "rxq" \notin up -> MayFault
       [] "rxq" \in up /\ "callback" \notin up -> handler' = "done" /\ UNCHANGED fault
       [] OTHER -> handler' = "rx" /\ UNCHANGED fault
  /\ UNCHANGED ring /\ HandlerOnly

\* Mutant: the message stays in the ring.
RxCallbackKeeps ==
  /\ InReceive("rx")
  /\ CASE "rvq" \notin up -> MayFault /\ UNCHANGED ring
       [] "rvq" \in up /\ ring = <<>> -> handler' = "done" /\ UNCHANGED <<fault, ring>>
       [] OTHER -> handler' = "reply" /\ UNCHANGED <<fault, ring>>
  /\ HandlerOnly

\* One turn of rpmsg_virtio_rx_callback.  A message for an endpoint that is
\* not there, or for a UART without callback, is consumed without an answer.
RxCallback ==
  /\ InReceive("rx")
  /\ CASE "rvq" \notin up -> MayFault /\ UNCHANGED ring
       [] "rvq" \in up /\ ring = <<>> -> handler' = "done" /\ UNCHANGED <<fault, ring>>
       [] "rvq" \in up /\ ring # <<>> /\ ~({"shm_io", "endpoints"} \subseteq up) ->
            MayFault /\ UNCHANGED ring
       [] OTHER ->
            /\ ring' = Tail(ring)
            /\ handler' = IF Head(ring) \in up \cap bound THEN "reply" ELSE "rx"
            /\ UNCHANGED fault
  /\ HandlerOnly

\* vuart0_rx_cb, vuart1_rx_cb: virt_uart_transmit, which ends in a kick.
Reply ==
  /\ InReceive("reply")
  /\ SendStart("isr")
  /\ handler' = "rx"
  /\ UNCHANGED <<pc, up, bound, driver_ok, ring, fault, told, known, eager, starved>>

Received ==
  /\ InReceive("done")
  /\ IsrReceived
  /\ handler' = "idle"
  /\ UNCHANGED <<pc, up, bound, driver_ok, ring, fault, told, known, eager, starved>>
-----------------------------------------------------------------------------
(***************************************************************************)
(* The host, outside this repository: it sets DRIVER_OK, kicks once it has *)
(* filled the rings, and sends to a UART once it has read its announcement.*)
(***************************************************************************)
HostReady ==
  /\ ~driver_ok /\ driver_ok' = TRUE
  /\ UNCHANGED <<mailVars, pc, up, bound, ring, handler, fault, told, known, eager, starved>>

HostKick ==
  /\ driver_ok /\ (eager \/ known # {})
  /\ HostPost
  /\ UNCHANGED bootVars

HostReads ==
  /\ HostFetch
  /\ known' = told
  /\ UNCHANGED <<pc, up, bound, driver_ok, ring, handler, fault, told, eager, starved>>

HostSend(u) ==
  /\ u \in known /\ Len(ring) < MaxRing
  /\ ring' = Append(ring, u)
  /\ HostPost
  /\ UNCHANGED <<pc, up, bound, driver_ok, handler, fault, told, known, eager, starved>>

\* The mailbox steps of this core that leave everything else alone.
MailStep ==
  /\ ~fault
  /\ \/ \E c \in Sender : (SendPoll(c) \/ SendWrite(c))
     \/ IsrEnter \/ IsrRead \/ IsrEmpty \/ IsrClear
  /\ UNCHANGED bootVars
-----------------------------------------------------------------------------
MainStep ==
  \/ InitMsgbox \/ CreateVdev \/ CreateVdevFails \/ WaitRemoteReady \/ SetDevice
  \/ CreateTxQueue \/ AllocRxQueue \/ CreateRxQueue \/ AllocQueueFails
  \/ AssignQueues \/ SetShmIo \/ InitEndpoints
  \/ CreateEndpoint \/ Announce \/ RegisterCallback

HandlerStep == Notified \/ RxCallback \/ Reply \/ Received

Next ==
  \/ MainStep \/ HandlerStep \/ MailStep
  \/ HostReady \/ HostKick \/ HostReads \/ \E u \in UartSet : HostSend(u)

Spec == Init /\ [][Next]_vars

\* The core runs, and the host comes up and serves its FIFO.  SF for main,
\* which every interrupt puts to rest.
FairSpec ==
  /\ Spec
  /\ SF_vars(MainStep) /\ WF_vars(HandlerStep)
  /\ WF_vars(MailStep) /\ SF_vars(MailStep /\ sending' # sending)
  /\ WF_vars(HostReady) /\ WF_vars(HostReads)
-----------------------------------------------------------------------------
\* Interrupts are on from the start, and yet neither the handler nor main ever
\* meets a structure that is not built yet, with two exceptions: a host that
\* kicks as soon as it has set DRIVER_OK, which is what main waits for, can
\* hit the handler between the moment rpmsg_init_vdev sets rvdev->vdev and the
\* moment it sets rvdev->rvq; and main goes on after it ran out of memory.
FaultExplained ==
  fault => /\ "rvq" \notin up
           /\ starved \/ (eager /\ "rvdev" \in up)

\* A UART is on the list of endpoints before the host can hear of it: a
\* message for an announced UART always finds its endpoint, also when memory
\* ran short during the start.
AnnouncedReachable ==
  /\ told \cup {ring[i] : i \in DOMAIN ring} \subseteq up
  /\ told # {} => {"callback", "rvq", "shm_io", "endpoints"} \subseteq up

\* No message is left in the receive ring with neither a word in the mailbox
\* nor a handler that will still look into the ring, whatever notifications
\* were dropped during the start.
NoStrandedMessage ==
  ring # <<>> /\ ~fault =>
    inbox > 0 \/ (isr = "receive" /\ handler \in {"idle", "rx", "reply"})

\* The start does not hang: once the host is ready main gets to its loop, and
\* no message or kick on the way keeps it in the handler for good, as long as
\* the host does not go on posting for ever (the handler's loop of reads has no
\* bound of its own).
BootCompletes ==
  <>[][inbox' <= inbox]_vars => (driver_ok ~> fault \/ Program[pc].op = "loop")

\* The host is never kept waiting for good by a full mailbox: no send of this
\* core, in the handler or interrupted by it, and no message holds up the
\* handler's reads for good.
FullInboxDrains ==
  irq_en /\ inbox = MSGBOX_MAX_QUEUE ~> fault \/ inbox < MSGBOX_MAX_QUEUE
=============================================================================
