------------------------------- MODULE Mailbox ------------------------------
(***************************************************************************)
(* The message box between the two cores,                                  *)
(* arch/riscv/sun8i-v85x/sunxi_mailbox.c, seen from the RISC-V core: a     *)
(* FIFO from the host that raises an interrupt, a FIFO to the host, and    *)
(* the contexts "main" and "isr" of the one core.  While the interrupt     *)
(* handler runs, main stands still, at any point of its own send.          *)
(*                                                                         *)
(* Every word is a bare notification (sunxi_openamp_receive ignores the    *)
(* value, sunxi_openamp_notify always sends VRING0_ID), so a FIFO is its   *)
(* fill level.  The FIFO hardware is outside this repository: a read       *)
(* interrupt can be cleared only while its FIFO is empty, and a word       *)
(* written to a full FIFO is dropped.                                      *)
(***************************************************************************)
EXTENDS Integers

CONSTANT MSGBOX_MAX_QUEUE   \* depth of a FIFO: 8 on the target

ASSUME DepthAssumption == MSGBOX_MAX_QUEUE \in Nat \ {0}

Sender == {"main", "isr"}

VARIABLES
  inbox,    \* words from the host
  outbox,   \* words to the host
  irq_en,   \* the receive interrupt is enabled
  irq_sta,  \* the receive interrupt is pending
  isr,      \* the handler: "off", "read" (status), "receive", "clear"
  sending,  \* per context: "no", "poll" (status register), "write"
  news      \* there is something the host was not notified of yet

mailVars == <<inbox, outbox, irq_en, irq_sta, isr, sending, news>>

MailInit ==
  /\ inbox = 0 /\ outbox = 0
  /\ irq_en = FALSE /\ irq_sta = FALSE
  /\ isr = "off"
  /\ sending = [c \in Sender |-> "no"]
  /\ news = FALSE

MainRuns == isr = "off"
Runs(c)  == IF c = "main" THEN MainRuns ELSE isr = "receive"
-----------------------------------------------------------------------------
(***************************************************************************)
(* hal_msgbox_channel_send of one word.                                    *)
(***************************************************************************)
\* A kick: what it announces has been published.
SendStart(c) ==
  /\ Runs(c) /\ sending[c] = "no"
  /\ sending' = [sending EXCEPT ![c] = "poll"]
  /\ news' = TRUE
  /\ UNCHANGED <<inbox, outbox, irq_en, irq_sta, isr>>

\* The busy wait of msgbox_channel_send_data ends.
SendPoll(c) ==
  /\ Runs(c) /\ sending[c] = "poll"
  /\ outbox # MSGBOX_MAX_QUEUE
  /\ sending' = [sending EXCEPT ![c] = "write"]
  /\ UNCHANGED <<inbox, outbox, irq_en, irq_sta, isr, news>>

\* Mutant: calculte_n takes the other channel, the host never sees the word.
SendWriteElsewhere(c) ==
  /\ Runs(c) /\ sending[c] = "write"
  /\ sending' = [sending EXCEPT ![c] = "no"]
  /\ UNCHANGED <<inbox, outbox, irq_en, irq_sta, isr, news>>

SendWrite(c) ==
  /\ Runs(c) /\ sending[c] = "write"
  /\ outbox' = IF outbox = MSGBOX_MAX_QUEUE THEN outbox ELSE outbox + 1
  /\ sending' = [sending EXCEPT ![c] = "no"]
  /\ UNCHANGED <<inbox, irq_en, irq_sta, isr, news>>
-----------------------------------------------------------------------------
(***************************************************************************)
(* irq_msgbox_channel_handler.                                             *)
(***************************************************************************)
IsrEnter ==
  /\ isr = "off" /\ irq_en /\ irq_sta
  /\ isr' = "read"
  /\ UNCHANGED <<inbox, outbox, irq_en, irq_sta, sending, news>>

\* Mutant: the handler reads before it looks at the fill level (do ... while).
IsrReadFirst ==
  /\ isr = "read"
  /\ inbox' = inbox - 1
  /\ isr' = "receive"
  /\ UNCHANGED <<outbox, irq_en, irq_sta, sending, news>>

\* Mutant: the status register is read in place of the message register, so
\* that no word leaves the FIFO.
IsrReadsStatus ==
  /\ isr = "read" /\ inbox > 0
  /\ isr' = "receive"
  /\ UNCHANGED <<inbox, outbox, irq_en, irq_sta, sending, news>>

IsrRead ==
  /\ isr = "read" /\ inbox > 0
  /\ inbox' = inbox - 1
  /\ isr' = "receive"
  /\ UNCHANGED <<outbox, irq_en, irq_sta, sending, news>>

\* medp->receive has returned.
IsrReceived ==
  /\ isr = "receive" /\ sending["isr"] = "no"
  /\ isr' = "read"
  /\ UNCHANGED <<inbox, outbox, irq_en, irq_sta, sending, news>>

IsrEmpty ==
  /\ isr = "read" /\ inbox = 0
  /\ isr' = "clear"
  /\ UNCHANGED <<inbox, outbox, irq_en, irq_sta, sending, news>>

\* The pending bit is written; it stays set if a word has come in since.
IsrClear ==
  /\ isr = "clear"
  /\ irq_sta' = (inbox > 0)
  /\ isr' = "off"
  /\ UNCHANGED <<inbox, outbox, irq_en, sending, news>>

\* hal_msgbox_init and hal_msgbox_alloc_channel.
EnableReceive ==
  /\ MainRuns
  /\ irq_en' = TRUE
  /\ UNCHANGED <<inbox, outbox, irq_sta, isr, sending, news>>
-----------------------------------------------------------------------------
(***************************************************************************)
(* The host core, outside this repository.                                 *)
(***************************************************************************)
HostPost ==
  /\ inbox < MSGBOX_MAX_QUEUE
  /\ inbox' = inbox + 1
  /\ irq_sta' = TRUE
  /\ UNCHANGED <<outbox, irq_en, isr, sending, news>>

\* The host takes a word and then looks at everything published so far.
HostFetch ==
  /\ outbox > 0
  /\ outbox' = outbox - 1
  /\ news' = FALSE
  /\ UNCHANGED <<inbox, irq_en, irq_sta, isr, sending>>
-----------------------------------------------------------------------------
IsrStep == IsrEnter \/ IsrRead \/ IsrReceived \/ IsrEmpty \/ IsrClear

MailNext ==
  \/ \E c \in Sender : SendStart(c) \/ SendPoll(c) \/ SendWrite(c)
  \/ IsrStep \/ EnableReceive
  \/ HostPost \/ HostFetch

MailSpec == MailInit /\ [][MailNext]_mailVars
-----------------------------------------------------------------------------
\* The type invariant: no FIFO is read when empty (irq_msgbox_channel_handler
\* looks at the fill level before every read) or filled beyond its depth.
MailTypeOK ==
  /\ inbox \in 0 .. MSGBOX_MAX_QUEUE /\ outbox \in 0 .. MSGBOX_MAX_QUEUE
  /\ irq_en \in BOOLEAN /\ irq_sta \in BOOLEAN /\ news \in BOOLEAN
  /\ isr \in {"off", "read", "receive", "clear"}
  /\ sending \in [Sender -> {"no", "poll", "write"}]

\* A notification is never lost although the handler may fill the FIFO
\* between main's look at the fill level and its write, which is then
\* dropped: while the host has news to learn there is a word for it, or a
\* context that is about to write one.  Nor is a word read that is not there.
NotificationKept ==
  MailTypeOK /\ (news => outbox > 0 \/ \E c \in Sender : sending[c] # "no")
=============================================================================
