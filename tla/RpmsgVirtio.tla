----------------------------- MODULE RpmsgVirtio ----------------------------
(***************************************************************************)
(* The message buffers of rpmsg_virtio.c in the device role, the role of   *)
(* this firmware.  The host lends empty buffers on svq and filled ones on  *)
(* rvq; the device hands both back through the used rings.  A client can   *)
(* keep a received buffer beyond its callback by holding it, and can take  *)
(* a transmit buffer and give it back unsent, in which case it is kept on  *)
(* the reclaimer list.  The index and the hold count of a buffer live in   *)
(* the reserved field of its own header.                                   *)
(*                                                                         *)
(* Callers are the contexts of the application and the virtqueue           *)
(* dispatcher, which runs rpmsg_virtio_rx_callback and whose endpoint      *)
(* callbacks may call back into the library.  A critical section of        *)
(* rdev->lock is one step; what the code does outside the lock is a step   *)
(* of its own.  Module MetalMutex is about the lock.                       *)
(***************************************************************************)
EXTENDS Integers, Sequences, FiniteSets, SequencesExt

CONSTANTS Threads,   \* application contexts
          Rx,        \* the context that runs the rvq callback
          Desc,      \* descriptor indices of each virtqueue
          TxBufs,    \* the host's buffers for svq
          RxBufs,    \* the host's buffers for rvq
          MaxTicks,  \* bound: attempts of a call that waits (15000 in the code)
          MaxHolds,  \* bound: holds a client has on one buffer
          WaitStatuses, \* what rpmsg_virtio_notify_wait can return
          NoBuf      \* the NULL buffer

ASSUME SetAssumption ==
  /\ Rx \notin Threads
  /\ TxBufs \cap RxBufs = {} /\ NoBuf \notin TxBufs \cup RxBufs
  /\ Desc \subseteq Nat /\ 0 \in Desc /\ IsFiniteSet(Desc)
  /\ MaxTicks \in Nat /\ MaxHolds \in Nat
  /\ WaitStatuses \subseteq {"EOPNOTSUPP", "SUCCESS", "other"}

Contexts == Threads \cup {Rx}
Queue    == {"svq", "rvq"}
Buffers  == TxBufs \cup RxBufs
Bufs(q)  == IF q = "svq" THEN TxBufs ELSE RxBufs

VARIABLES
  pool, offered, here, used, \* per queue: descriptors free at the host, in the
                             \* avail ring, at the device, in the used ring
  addr,       \* per queue: the buffer a descriptor points to
  hdr,        \* per buffer: index and hold count of the reserved field
  reclaimer,  \* rvdev->reclaimer
  driver_ok,  \* VIRTIO_CONFIG_STATUS_DRIVER_OK in the vdev status
  kick,       \* "no", "due" (host has added, not notified), "sent" (to Rx)
  pc,         \* per context: where it is in a library call
  op,         \* per context: the call that wants a transmit buffer
  ticks,      \* per context: tick_count
  buf, idx,   \* per context: rp_hdr and idx of the call
  owned,      \* transmit buffers in the hands of clients
  holds,      \* per receive buffer: holds clients have on it
  rx          \* the dispatcher: position, rp_hdr and idx

queueVars == <<pool, offered, here, used, addr>>
callVars  == <<pc, op, ticks, buf, idx>>
vars == <<queueVars, hdr, reclaimer, driver_ok, kick, callVars, owned, holds, rx>>

\* rpmsg_virtio_init_vdev is done, the host has not lent anything yet.
Init ==
  /\ pool    = [q \in Queue |-> Desc]
  /\ offered = [q \in Queue |-> <<>>]
  /\ here    = [q \in Queue |-> {}]
  /\ used    = [q \in Queue |-> <<>>]
  /\ addr    = [q \in Queue |-> [d \in Desc |-> NoBuf]]
  /\ hdr     = [b \in Buffers |-> [idx |-> 0, held |-> 0]]
  /\ reclaimer = <<>>
  /\ driver_ok = TRUE
  /\ kick  = "no"
  /\ pc    = [c \in Contexts |-> "idle"]
  /\ op    = [c \in Contexts |-> "none"]
  /\ ticks = [c \in Contexts |-> 0]
  /\ buf   = [c \in Contexts |-> NoBuf]
  /\ idx   = [c \in Contexts |-> 0]
  /\ owned = {}
  /\ holds = [b \in RxBufs |-> 0]
  /\ rx    = [at |-> "idle", buf |-> NoBuf, idx |-> 0]
-----------------------------------------------------------------------------
(***************************************************************************)
(* What the library does to a virtqueue.  The ring code tests neither that *)
(* a descriptor is lent nor that it is returned only once.                 *)
(***************************************************************************)
\* virtqueue_get_available_buffer, when there is one.
Take(q) ==
  /\ offered[q] # <<>>
  /\ offered' = [offered EXCEPT ![q] = Tail(@)]
  /\ here' = [here EXCEPT ![q] = @ \cup {Head(offered[q])}]
  /\ UNCHANGED <<pool, used, addr>>

\* virtqueue_add_consumed_buffer, then virtqueue_kick.
HandBack(q, d) ==
  /\ used' = [used EXCEPT ![q] = Append(@, d)]
  /\ here' = [here EXCEPT ![q] = @ \ {d}]
  /\ UNCHANGED <<pool, offered, addr>>

\* The call of context c is over and its locals are gone.
Return(c) ==
  /\ pc' = [pc EXCEPT ![c] = "idle"]
  /\ op' = [op EXCEPT ![c] = "none"]
  /\ ticks' = [ticks EXCEPT ![c] = 0]
  /\ buf' = [buf EXCEPT ![c] = NoBuf]
  /\ idx' = [idx EXCEPT ![c] = 0]

\* A context can call the library; the dispatcher only from a callback.
CanCall(c) == pc[c] = "idle" /\ (c = Rx => rx.at = "callback")
-----------------------------------------------------------------------------
(***************************************************************************)
(* Sending.                                                                *)
(***************************************************************************)
\* rpmsg_virtio_get_tx_payload_buffer, called for itself or by a send, finds
\* DRIVER_OK set; t is 0 for a call that does not wait.
CallTx(c, call, t) ==
  /\ CanCall(c)
  /\ driver_ok                            \* else NULL, RPMSG_ERR_NO_BUFF
  /\ pc' = [pc EXCEPT ![c] = "get"]
  /\ op' = [op EXCEPT ![c] = call]
  /\ ticks' = [ticks EXCEPT ![c] = t]
  /\ UNCHANGED <<queueVars, hdr, reclaimer, driver_ok, kick, buf, idx, owned, holds, rx>>

\* rpmsg_virtio_send_offchannel_raw: the buffer it gets is sent by the same call.
CallSend(c, t) == CallTx(c, "send", t)

\* rpmsg_get_tx_payload_buffer: the buffer it gets is left with the client.
CallPayload(c, t) == CallTx(c, "payload", t)

\* Mutant: the node stays on the reclaimer list.
GetReclaimedKeepsNode(c) ==
  /\ pc[c] = "get"
  /\ reclaimer # <<>>
  /\ buf' = [buf EXCEPT ![c] = Head(reclaimer)]
  /\ idx' = [idx EXCEPT ![c] = hdr[Head(reclaimer)].idx]
  /\ pc' = [pc EXCEPT ![c] = "stamp"]
  /\ UNCHANGED <<queueVars, hdr, reclaimer, driver_ok, kick, op, ticks, owned, holds, rx>>

\* rpmsg_virtio_get_tx_buffer: a buffer released unsent is used first.
GetReclaimed(c) ==
  /\ pc[c] = "get"
  /\ reclaimer # <<>>
  /\ reclaimer' = Tail(reclaimer)
  /\ buf' = [buf EXCEPT ![c] = Head(reclaimer)]
  /\ idx' = [idx EXCEPT ![c] = hdr[Head(reclaimer)].idx]
  /\ pc' = [pc EXCEPT ![c] = "stamp"]
  /\ UNCHANGED <<queueVars, hdr, driver_ok, kick, op, ticks, owned, holds, rx>>

GetAvailable(c) ==
  /\ pc[c] = "get"
  /\ reclaimer = <<>>
  /\ Take("svq")
  /\ buf' = [buf EXCEPT ![c] = addr["svq"][Head(offered["svq"])]]
  /\ idx' = [idx EXCEPT ![c] = Head(offered["svq"])]
  /\ pc' = [pc EXCEPT ![c] = "stamp"]
  /\ UNCHANGED <<hdr, reclaimer, driver_ok, kick, op, ticks, owned, holds, rx>>

\* Mutant: the tick count is not decremented.
GetNothingForever(c) ==
  /\ pc[c] = "get"
  /\ reclaimer = <<>> /\ offered["svq"] = <<>>
  /\ \/ ticks[c] = 0 /\ Return(c)
     \/ ticks[c] > 0 /\ UNCHANGED callVars
  /\ UNCHANGED <<queueVars, hdr, reclaimer, driver_ok, kick, owned, holds, rx>>

\* Mutant: the tick count is not tested.
GetNothingNoLimit(c) ==
  /\ pc[c] = "get"
  /\ reclaimer = <<>> /\ offered["svq"] = <<>>
  /\ ticks' = [ticks EXCEPT ![c] = @ - 1]
  /\ UNCHANGED <<queueVars, hdr, reclaimer, driver_ok, kick, pc, op, buf, idx, owned, holds, rx>>

\* No buffer: give up on the last tick, else wait.  Without a wait callback
\* (EOPNOTSUPP, as in this firmware) that is a sleep and one tick less.  A
\* callback that succeeds ends the call without another look for a buffer, and
\* any other answer of it repeats the attempt with the ticks unchanged.
GetNothing(c) ==
  /\ pc[c] = "get"
  /\ reclaimer = <<>> /\ offered["svq"] = <<>>
  /\ \/ ticks[c] = 0 /\ Return(c)
     \/ /\ ticks[c] > 0
        /\ \E status \in WaitStatuses :
             \/ /\ status = "EOPNOTSUPP"
                /\ ticks' = [ticks EXCEPT ![c] = @ - 1]
                /\ UNCHANGED <<pc, op, buf, idx>>
             \/ status = "SUCCESS" /\ Return(c)
             \/ status = "other" /\ UNCHANGED callVars
  /\ UNCHANGED <<queueVars, hdr, reclaimer, driver_ok, kick, owned, holds, rx>>

\* The end of rpmsg_virtio_get_tx_payload_buffer: index and one hold go into
\* the header.  The buffer is the client's, or the copying send goes on.
Stamp(c) ==
  /\ pc[c] = "stamp"
  /\ hdr' = [hdr EXCEPT ![buf[c]] = [idx |-> idx[c], held |-> 1]]
  /\ \/ /\ op[c] = "payload"
        /\ owned' = owned \cup {buf[c]}
        /\ Return(c)
     \/ /\ op[c] = "send"
        /\ pc' = [pc EXCEPT ![c] = "header"]
        /\ UNCHANGED <<op, ticks, buf, idx, owned>>
  /\ UNCHANGED <<queueVars, reclaimer, driver_ok, kick, holds, rx>>

\* A client sends a buffer it owns with rpmsg_send_offchannel_nocopy.
CallNocopy(c, b) ==
  /\ CanCall(c)
  /\ b \in owned
  /\ owned' = owned \ {b}
  /\ buf' = [buf EXCEPT ![c] = b]
  /\ pc' = [pc EXCEPT ![c] = "header"]
  /\ UNCHANGED <<queueVars, hdr, reclaimer, driver_ok, kick, op, ticks, idx, holds, rx>>

\* Mutant: the header is overwritten before the index is read from it.
WriteHeaderFirst(c) ==
  /\ pc[c] = "header"
  /\ idx' = [idx EXCEPT ![c] = 0]
  /\ hdr' = [hdr EXCEPT ![buf[c]] = [idx |-> 0, held |-> 0]]
  /\ pc' = [pc EXCEPT ![c] = "enqueue"]
  /\ UNCHANGED <<queueVars, reclaimer, driver_ok, kick, op, ticks, buf, owned, holds, rx>>

\* The index is read, then the message header overwrites it.
WriteHeader(c) ==
  /\ pc[c] = "header"
  /\ idx' = [idx EXCEPT ![c] = hdr[buf[c]].idx]
  /\ hdr' = [hdr EXCEPT ![buf[c]] = [idx |-> 0, held |-> 0]]
  /\ pc' = [pc EXCEPT ![c] = "enqueue"]
  /\ UNCHANGED <<queueVars, reclaimer, driver_ok, kick, op, ticks, buf, owned, holds, rx>>

\* rpmsg_virtio_enqueue_buffer and the kick.
Enqueue(c) ==
  /\ pc[c] = "enqueue"
  /\ HandBack("svq", idx[c])
  /\ Return(c)
  /\ UNCHANGED <<hdr, reclaimer, driver_ok, kick, owned, holds, rx>>

\* Mutant: every release is taken for the last one.
HeldDecTestAlways(b, last) ==
  /\ last
  /\ hdr' = [hdr EXCEPT ![b].held = IF @ <= 0 THEN @ ELSE @ - 1]

\* rpmsg_virtio_buf_held_dec_test: last tells whether no hold is left.
HeldDecTest(b, last) ==
  /\ last <=> hdr[b].held = 1
  /\ hdr' = [hdr EXCEPT ![b].held = IF @ <= 0 THEN @ ELSE @ - 1]

\* rpmsg_virtio_release_tx_buffer: a client gives back a buffer unsent.
ReleaseTx(c, b) ==
  /\ CanCall(c)
  /\ b \in owned
  /\ owned' = owned \ {b}
  /\ \E last \in BOOLEAN :
       /\ HeldDecTest(b, last)
       /\ reclaimer' = IF last THEN Append(reclaimer, b) ELSE reclaimer
  /\ UNCHANGED <<queueVars, driver_ok, kick, callVars, holds, rx>>
-----------------------------------------------------------------------------
(***************************************************************************)
(* Receiving: rpmsg_virtio_rx_callback.                                    *)
(***************************************************************************)
RxNotified ==
  /\ rx.at = "idle" /\ kick = "sent"
  /\ kick' = "no"
  /\ rx' = [rx EXCEPT !.at = "loop"]
  /\ UNCHANGED <<queueVars, hdr, reclaimer, driver_ok, callVars, owned, holds>>

RxGet ==
  /\ rx.at = "loop"
  /\ Take("rvq")
  /\ rx' = [at |-> "got", idx |-> Head(offered["rvq"]),
            buf |-> addr["rvq"][Head(offered["rvq"])]]
  /\ UNCHANGED <<hdr, reclaimer, driver_ok, kick, callVars, owned, holds>>

RxDone ==
  /\ rx.at = "loop" /\ offered["rvq"] = <<>>
  /\ rx' = [at |-> "idle", buf |-> NoBuf, idx |-> 0]
  /\ UNCHANGED <<queueVars, hdr, reclaimer, driver_ok, kick, callVars, owned, holds>>

\* Mutant: the dispatcher takes no hold of its own.
RxDispatchNoHold ==
  /\ rx.at = "got"
  /\ hdr' = [hdr EXCEPT ![rx.buf] = [idx |-> rx.idx, held |-> 0]]
  /\ \E found \in {"callback", "finish"} : rx' = [rx EXCEPT !.at = found]
  /\ UNCHANGED <<queueVars, reclaimer, driver_ok, kick, callVars, owned, holds>>

\* Index and one hold go into the header.  With an endpoint at the message's
\* destination the callback runs, without one the loop body ends.
RxDispatch ==
  /\ rx.at = "got"
  /\ hdr' = [hdr EXCEPT ![rx.buf] = [idx |-> rx.idx, held |-> 1]]
  /\ \E found \in {"callback", "finish"} : rx' = [rx EXCEPT !.at = found]
  /\ UNCHANGED <<queueVars, reclaimer, driver_ok, kick, callVars, owned, holds>>

RxReturn ==
  /\ rx.at = "callback" /\ pc[Rx] = "idle"
  /\ rx' = [rx EXCEPT !.at = "finish"]
  /\ UNCHANGED <<queueVars, hdr, reclaimer, driver_ok, kick, callVars, owned, holds>>

\* rpmsg_virtio_release_rx_buffer(_nolock): one hold less, and with the last
\* one the buffer goes back under the index in its header.
ReleaseHold(b) ==
  \E last \in BOOLEAN :
    /\ HeldDecTest(b, last)
    /\ IF last THEN HandBack("rvq", hdr[b].idx) ELSE UNCHANGED queueVars

\* Mutant: one message per notification.
RxFinishNoLoop ==
  /\ rx.at = "finish"
  /\ ReleaseHold(rx.buf)
  /\ rx' = [at |-> "idle", buf |-> NoBuf, idx |-> 0]
  /\ UNCHANGED <<reclaimer, driver_ok, kick, callVars, owned, holds>>

RxFinish ==
  /\ rx.at = "finish"
  /\ ReleaseHold(rx.buf)
  /\ rx' = [at |-> "loop", buf |-> NoBuf, idx |-> 0]
  /\ UNCHANGED <<reclaimer, driver_ok, kick, callVars, owned, holds>>

\* rpmsg_hold_rx_buffer, on the buffer of the running callback or on one the
\* client already holds.
HoldRx(c, b) ==
  /\ CanCall(c)
  /\ holds[b] > 0 \/ (c = Rx /\ b = rx.buf)
  /\ holds[b] < MaxHolds
  /\ holds' = [holds EXCEPT ![b] = @ + 1]
  /\ hdr' = [hdr EXCEPT ![b].held = @ + 1]
  /\ UNCHANGED <<queueVars, reclaimer, driver_ok, kick, callVars, owned, rx>>

\* rpmsg_release_rx_buffer, by a client that holds the buffer.
ReleaseRx(c, b) ==
  /\ CanCall(c)
  /\ holds[b] > 0
  /\ holds' = [holds EXCEPT ![b] = @ - 1]
  /\ ReleaseHold(b)
  /\ UNCHANGED <<reclaimer, driver_ok, kick, callVars, owned, rx>>
-----------------------------------------------------------------------------
(***************************************************************************)
(* The host, which is outside this repository.                             *)
(***************************************************************************)
\* The host lends a buffer of its own under a free descriptor; on rvq it has
\* written a message into it.
HostLend(q, d, b) ==
  /\ driver_ok
  /\ d \in pool[q]
  /\ b \in Bufs(q) /\ \A e \in Desc \ pool[q] : addr[q][e] # b
  /\ pool' = [pool EXCEPT ![q] = @ \ {d}]
  /\ offered' = [offered EXCEPT ![q] = Append(@, d)]
  /\ addr' = [addr EXCEPT ![q][d] = b]
  /\ hdr' = IF q = "rvq" THEN [hdr EXCEPT ![b] = [idx |-> 0, held |-> 0]] ELSE hdr
  /\ kick' = IF q = "rvq" THEN "due" ELSE kick
  /\ UNCHANGED <<here, used, reclaimer, driver_ok, callVars, owned, holds, rx>>

HostKick ==
  /\ kick = "due"
  /\ kick' = "sent"
  /\ UNCHANGED <<queueVars, hdr, reclaimer, driver_ok, callVars, owned, holds, rx>>

HostReclaim(q) ==
  /\ driver_ok
  /\ used[q] # <<>>
  /\ used' = [used EXCEPT ![q] = Tail(@)]
  /\ pool' = [pool EXCEPT ![q] = @ \cup {Head(used[q])}]
  /\ addr' = [addr EXCEPT ![q][Head(used[q])] = NoBuf]
  /\ UNCHANGED <<offered, here, hdr, reclaimer, driver_ok, kick, callVars, owned, holds, rx>>

HostStops ==
  /\ driver_ok
  /\ driver_ok' = FALSE
  /\ UNCHANGED <<queueVars, hdr, reclaimer, kick, callVars, owned, holds, rx>>
-----------------------------------------------------------------------------
ContextStep(c) ==
  GetReclaimed(c) \/ GetAvailable(c) \/ GetNothing(c) \/ Stamp(c)
    \/ WriteHeader(c) \/ Enqueue(c)

Next ==
  \/ \E c \in Contexts :
       \/ ContextStep(c)
       \/ \E t \in {0, MaxTicks} : CallSend(c, t) \/ CallPayload(c, t)
       \/ \E b \in TxBufs : CallNocopy(c, b) \/ ReleaseTx(c, b)
       \/ \E b \in RxBufs : HoldRx(c, b) \/ ReleaseRx(c, b)
  \/ RxNotified \/ RxGet \/ RxDone \/ RxDispatch \/ RxReturn \/ RxFinish
  \/ \E q \in Queue, d \in Desc : \E b \in Bufs(q) : HostLend(q, d, b)
  \/ \E q \in Queue : HostReclaim(q)
  \/ HostKick \/ HostStops

Spec == Init /\ [][Next]_vars

\* Contexts and the dispatcher run, callbacks return however often they call
\* the library, and the host notifies what it added.  Nothing makes a client
\* release or send what it has, and the host need not lend or reclaim.
FairSpec ==
  /\ Spec
  /\ \A c \in Contexts : WF_vars(ContextStep(c))
  /\ WF_vars(HostKick)
  /\ WF_vars(RxNotified) /\ WF_vars(RxGet) /\ WF_vars(RxDone)
  /\ WF_vars(RxDispatch) /\ SF_vars(RxReturn) /\ WF_vars(RxFinish)
-----------------------------------------------------------------------------
(***************************************************************************)
(* Properties.                                                             *)
(***************************************************************************)
\* Every variable of the device structure, the headers and the calls keeps
\* its type; a hold count never leaves the range of its 16-bit field.
TypeOK ==
  /\ pool \in [Queue -> SUBSET Desc] /\ here \in [Queue -> SUBSET Desc]
  /\ offered \in [Queue -> Seq(Desc)] /\ used \in [Queue -> Seq(Desc)]
  /\ addr \in [Queue -> [Desc -> Buffers \cup {NoBuf}]]
  /\ hdr \in [Buffers -> [idx : Desc, held : 0 .. MaxHolds + 1]]
  /\ reclaimer \in Seq(TxBufs)
  /\ driver_ok \in BOOLEAN /\ kick \in {"no", "due", "sent"}
  /\ pc \in [Contexts -> {"idle", "get", "stamp", "header", "enqueue"}]
  /\ op \in [Contexts -> {"none", "send", "payload"}]
  /\ ticks \in [Contexts -> 0 .. MaxTicks]
  /\ buf \in [Contexts -> TxBufs \cup {NoBuf}] /\ idx \in [Contexts -> Desc]
  /\ owned \in SUBSET TxBufs
  /\ holds \in [RxBufs -> 0 .. MaxHolds]
  /\ rx \in [at : {"idle", "loop", "got", "callback", "finish"},
             buf : RxBufs \cup {NoBuf}, idx : Desc]

\* The contexts between getting a transmit buffer and giving it away, and the
\* descriptor index each of them is going to use.
Carrying   == {c \in Contexts : pc[c] \in {"stamp", "header", "enqueue"}}
Carried(c) == IF pc[c] = "header" THEN hdr[buf[c]].idx ELSE idx[c]
Parked     == owned \cup ToSet(reclaimer)

\* A transmit buffer that was taken from svq is in one pair of hands: one
\* call, one client or one node of the reclaimer list; and wherever it is,
\* the index stored for it is the one of the descriptor that points to it.  (The
\* type invariant is a part: calls stay within their bounds and states.)
TxAccounted ==
  /\ TypeOK
  /\ \A c, d \in Carrying : c # d => buf[c] # buf[d]
  /\ \A c \in Carrying : /\ buf[c] \notin Parked
                         /\ addr["svq"][Carried(c)] = buf[c]
  /\ IsInjective(reclaimer)
  /\ owned \cap ToSet(reclaimer) = {}
  /\ \A b \in Parked : addr["svq"][hdr[b].idx] = b
  /\ {addr["svq"][d] : d \in here["svq"]} = Parked \cup {buf[c] : c \in Carrying}

Dispatching(b) == rx.buf = b /\ rx.at \in {"callback", "finish"}

\* The hold count in a received buffer is the number of holds of its clients,
\* plus one while its callback runs: a client's buffer is never given back to
\* the host under it, and one nobody holds does not stay behind.
HeldMatches ==
  /\ \A b \in RxBufs : holds[b] > 0 => \E d \in here["rvq"] : addr["rvq"][d] = b
  /\ \A d \in here["rvq"] :
       LET b == addr["rvq"][d] IN
       \/ rx.at = "got" /\ rx.buf = b
       \/ /\ hdr[b].idx = d
          /\ hdr[b].held > 0
          /\ hdr[b].held = holds[b] + (IF Dispatching(b) THEN 1 ELSE 0)

\* A message the host put on rvq is taken off it, however its notification
\* falls into a running rpmsg_virtio_rx_callback.
RxDrained ==
  \A d \in Desc : d \in ToSet(offered["rvq"]) ~> d \notin ToSet(offered["rvq"])

\* A send or a request for a payload buffer returns although the host may
\* never lend another buffer: the wait is bounded by the tick count or ended by
\* a wait callback that succeeds.  A callback that answers neither SUCCESS nor
\* EOPNOTSUPP is not bounded by the ticks: the property is about WaitStatuses
\* without "other".
CallsReturn == \A c \in Contexts : pc[c] # "idle" ~> pc[c] = "idle"

TxVirtqueue == INSTANCE BufferExchange WITH
  Buffers <- Desc, Capacity <- Cardinality(Desc), pool <- pool["svq"],
  offered <- offered["svq"], atDevice <- here["svq"], returned <- used["svq"]

RxVirtqueue == INSTANCE BufferExchange WITH
  Buffers <- Desc, Capacity <- Cardinality(Desc), pool <- pool["rvq"],
  offered <- offered["rvq"], atDevice <- here["rvq"], returned <- used["rvq"]

\* The device keeps the contract of svq: it hands back only descriptors it
\* has taken, each once, whichever of the two send paths a buffer goes.
UsesTxVirtqueue == TxVirtqueue!ExchangeSpec

\* The same for rvq, where the last of several holders hands back.
UsesRxVirtqueue == RxVirtqueue!ExchangeSpec
=============================================================================
