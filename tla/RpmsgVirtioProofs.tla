------------------------- MODULE RpmsgVirtioProofs --------------------------
(***************************************************************************)
(* Theorems about the buffers of rpmsg_virtio.c, for every number of       *)
(* contexts, descriptors and buffers, and every bound on ticks and holds.  *)
(***************************************************************************)
EXTENDS RpmsgVirtio, SequenceLemmas

\* A virtqueue whose descriptors are P free, O in the avail ring, H at the
\* device and U in the used ring: each is in one place, and the lent ones point
\* to different buffers of B.
QueueAt(P, O, H, U, A, B) ==
  /\ P \in SUBSET Desc /\ H \in SUBSET Desc /\ O \in Seq(Desc) /\ U \in Seq(Desc)
  /\ A \in [Desc -> Buffers \cup {NoBuf}]
  /\ Distinct(O) /\ Distinct(U)
  /\ P \cap ToSet(O) = {} /\ P \cap H = {} /\ P \cap ToSet(U) = {}
  /\ ToSet(O) \cap H = {} /\ ToSet(O) \cap ToSet(U) = {} /\ H \cap ToSet(U) = {}
  /\ \A d \in Desc \ P : A[d] \in B
  /\ \A d, e \in Desc \ P : A[d] = A[e] => d = e

QueueInv ==
  \A q \in Queue : QueueAt(pool[q], offered[q], here[q], used[q], addr[q], Bufs(q))

\* Context c has a transmit buffer between getting it and giving it away.
InHand(c) == pc[c] \in {"stamp", "header", "enqueue"}

\* Where transmit buffer b is parked, its header has the index of a descriptor
\* at the device that points to it.
IndexKept(b) == hdr[b].idx \in here["svq"] /\ addr["svq"][hdr[b].idx] = b

\* What TxAccounted needs to be inductive: the stored indices are of
\* descriptors at the device, and a client's unsent buffer has one hold, so
\* that releasing it puts it on the reclaimer list.
TxInv ==
  /\ \A c \in Contexts : InHand(c) =>
       /\ buf[c] \in TxBufs /\ buf[c] \notin owned /\ buf[c] \notin ToSet(reclaimer)
       /\ Carried(c) \in here["svq"] /\ addr["svq"][Carried(c)] = buf[c]
  /\ \A c, d \in Contexts : InHand(c) /\ InHand(d) /\ buf[c] = buf[d] => c = d
  /\ \A b \in owned : b \notin ToSet(reclaimer) /\ IndexKept(b) /\ hdr[b].held = 1
  /\ \A b \in ToSet(reclaimer) : IndexKept(b)
  /\ Distinct(reclaimer)
  /\ \A d \in here["svq"] :
       \/ addr["svq"][d] \in owned \/ addr["svq"][d] \in ToSet(reclaimer)
       \/ \E c \in Contexts : InHand(c) /\ buf[c] = addr["svq"][d]

\* The descriptor under which received buffer b is at the device.
HeldUnder(b, d) == d \in here["rvq"] /\ addr["rvq"][d] = b

\* The hold count of the buffer at the device under descriptor d is right, or
\* its header is not written yet.
CountAt(d) ==
  LET b == addr["rvq"][d] IN
  \/ rx.at = "got" /\ rx.buf = b
  \/ /\ hdr[b].idx = d
     /\ hdr[b].held > 0
     /\ hdr[b].held = holds[b] + (IF Dispatching(b) THEN 1 ELSE 0)

\* What HeldMatches needs to be inductive: the dispatcher's buffer is at the
\* device, and nobody holds it before its header is written.
RxInv ==
  /\ rx.at \in {"idle", "loop"} => rx.buf = NoBuf
  /\ rx.at \in {"got", "callback", "finish"} => rx.buf \in RxBufs
  /\ rx.at = "got" => HeldUnder(rx.buf, rx.idx) /\ holds[rx.buf] = 0
  /\ rx.at \in {"callback", "finish"} => \E d \in Desc : HeldUnder(rx.buf, d)
  /\ \A b \in RxBufs : holds[b] > 0 => \E d \in here["rvq"] : addr["rvq"][d] = b
  /\ \A d \in here["rvq"] : CountAt(d)

RvInv == TypeOK /\ QueueInv /\ TxInv /\ RxInv

-----------------------------------------------------------------------------
(***************************************************************************)
(* What the operations do to one virtqueue.                                *)
(***************************************************************************)
\* The device takes the oldest offer.
LEMMA QueueTake ==
  ASSUME NEW P, NEW O, NEW H, NEW U, NEW A, NEW B, QueueAt(P, O, H, U, A, B), O # <<>>
  PROVE  /\ QueueAt(P, Tail(O), H \cup {Head(O)}, U, A, B)
         /\ Head(O) \in Desc /\ Head(O) \notin H /\ Head(O) \notin P
<1>1. O \in Seq(Desc) /\ Distinct(O)
  BY DEF QueueAt
<1>2. /\ Head(O) \in Desc /\ Head(O) \in ToSet(O) /\ Tail(O) \in Seq(Desc) /\ Distinct(Tail(O))
      /\ ToSet(Tail(O)) = ToSet(O) \ {Head(O)}
  BY <1>1, TailFacts
<1> QED
  BY <1>2 DEF QueueAt

\* The device hands back what it has.
LEMMA QueueHandBack ==
  ASSUME NEW P, NEW O, NEW H, NEW U, NEW A, NEW B, QueueAt(P, O, H, U, A, B), NEW d \in H
  PROVE  QueueAt(P, O, H \ {d}, Append(U, d), A, B)
<1>1. U \in Seq(Desc) /\ Distinct(U) /\ d \in Desc /\ d \notin ToSet(U)
  BY DEF QueueAt
<1>2. /\ Append(U, d) \in Seq(Desc) /\ Distinct(Append(U, d))
      /\ ToSet(Append(U, d)) = ToSet(U) \cup {d}
  BY <1>1, AppendFacts
<1> QED
  BY <1>2 DEF QueueAt

\* The host lends a buffer that is not lent.
LEMMA QueueLend ==
  ASSUME NEW P, NEW O, NEW H, NEW U, NEW A, NEW B, QueueAt(P, O, H, U, A, B),
         NEW d \in P, NEW b \in B, B \subseteq Buffers, \A e \in Desc \ P : A[e] # b
  PROVE  QueueAt(P \ {d}, Append(O, d), H, U, [A EXCEPT ![d] = b], B)
<1>1. O \in Seq(Desc) /\ Distinct(O) /\ d \in Desc /\ d \notin ToSet(O)
  BY DEF QueueAt
<1>2. /\ Append(O, d) \in Seq(Desc) /\ Distinct(Append(O, d))
      /\ ToSet(Append(O, d)) = ToSet(O) \cup {d}
  BY <1>1, AppendFacts
<1> QED
  BY <1>2 DEF QueueAt

\* The host takes back what the device returned first.
LEMMA QueueReclaim ==
  ASSUME NEW P, NEW O, NEW H, NEW U, NEW A, NEW B, QueueAt(P, O, H, U, A, B), U # <<>>
  PROVE  /\ QueueAt(P \cup {Head(U)}, O, H, Tail(U), [A EXCEPT ![Head(U)] = NoBuf], B)
         /\ Head(U) \in Desc /\ Head(U) \notin H
<1>1. U \in Seq(Desc) /\ Distinct(U)
  BY DEF QueueAt
<1>2. /\ Head(U) \in Desc /\ Head(U) \in ToSet(U) /\ Tail(U) \in Seq(Desc) /\ Distinct(Tail(U))
      /\ ToSet(Tail(U)) = ToSet(U) \ {Head(U)}
  BY <1>1, TailFacts
<1> QED
  BY <1>2 DEF QueueAt

\* The queue part of the type invariant.
QueueTypes ==
  /\ pool \in [Queue -> SUBSET Desc] /\ here \in [Queue -> SUBSET Desc]
  /\ offered \in [Queue -> Seq(Desc)] /\ used \in [Queue -> Seq(Desc)]
  /\ addr \in [Queue -> [Desc -> Buffers \cup {NoBuf}]]

\* A step that changes one queue, to something sound, keeps both sound.
LEMMA QueueStep ==
  ASSUME QueueTypes, QueueInv, NEW q \in Queue, NEW P, NEW O, NEW H, NEW U, NEW A,
         QueueAt(P, O, H, U, A, Bufs(q)),
         pool' = [pool EXCEPT ![q] = P], offered' = [offered EXCEPT ![q] = O],
         here' = [here EXCEPT ![q] = H], used' = [used EXCEPT ![q] = U],
         addr' = [addr EXCEPT ![q] = A]
  PROVE  QueueTypes' /\ QueueInv'
<1>1. /\ P \in SUBSET Desc /\ H \in SUBSET Desc /\ O \in Seq(Desc) /\ U \in Seq(Desc)
      /\ A \in [Desc -> Buffers \cup {NoBuf}]
  BY DEF QueueAt
<1>2. QueueTypes'
  BY <1>1 DEF QueueTypes
<1>3. ASSUME NEW r \in Queue
      PROVE  QueueAt(pool[r], offered[r], here[r], used[r], addr[r], Bufs(r))'
  <2>1. CASE r = q
    <3>1. pool'[r] = P /\ offered'[r] = O /\ here'[r] = H /\ used'[r] = U /\ addr'[r] = A
      BY <2>1 DEF QueueTypes
    <3> QED
      BY <2>1, <3>1
  <2>2. CASE r # q
    <3>1. /\ pool'[r] = pool[r] /\ offered'[r] = offered[r] /\ here'[r] = here[r]
          /\ used'[r] = used[r] /\ addr'[r] = addr[r]
      BY <2>2 DEF QueueTypes
    <3>2. QueueAt(pool[r], offered[r], here[r], used[r], addr[r], Bufs(r))
      BY DEF QueueInv
    <3> QED
      BY <3>1, <3>2
  <2> QED
    BY <2>1, <2>2
<1> QED
  BY <1>2, <1>3 DEF QueueInv

\* The device takes from queue q.
LEMMA TakeStep ==
  ASSUME QueueTypes, QueueInv, NEW q \in Queue, Take(q)
  PROVE  /\ QueueTypes' /\ QueueInv'
         /\ Head(offered[q]) \in Desc /\ Head(offered[q]) \notin here[q]
         /\ Head(offered[q]) \notin pool[q]
         /\ here' = [here EXCEPT ![q] = here[q] \cup {Head(offered[q])}]
<1>1. QueueAt(pool[q], offered[q], here[q], used[q], addr[q], Bufs(q)) /\ offered[q] # <<>>
  BY DEF QueueInv, Take
<1>2. /\ QueueAt(pool[q], Tail(offered[q]), here[q] \cup {Head(offered[q])}, used[q], addr[q], Bufs(q))
      /\ Head(offered[q]) \in Desc /\ Head(offered[q]) \notin here[q]
      /\ Head(offered[q]) \notin pool[q]
  BY <1>1, QueueTake
<1>3. /\ pool' = [pool EXCEPT ![q] = pool[q]]
      /\ used' = [used EXCEPT ![q] = used[q]]
      /\ addr' = [addr EXCEPT ![q] = addr[q]]
      /\ offered' = [offered EXCEPT ![q] = Tail(offered[q])]
      /\ here' = [here EXCEPT ![q] = here[q] \cup {Head(offered[q])}]
  BY DEF Take, QueueTypes
<1> QED
  BY <1>2, <1>3, QueueStep

\* The device hands descriptor d of queue q back.
LEMMA HandBackStep ==
  ASSUME QueueTypes, QueueInv, NEW q \in Queue, NEW d \in here[q], HandBack(q, d)
  PROVE  /\ QueueTypes' /\ QueueInv'
         /\ here' = [here EXCEPT ![q] = here[q] \ {d}]
<1>1. QueueAt(pool[q], offered[q], here[q], used[q], addr[q], Bufs(q))
  BY DEF QueueInv
<1>2. QueueAt(pool[q], offered[q], here[q] \ {d}, Append(used[q], d), addr[q], Bufs(q))
  BY <1>1, QueueHandBack
<1>3. /\ pool' = [pool EXCEPT ![q] = pool[q]]
      /\ offered' = [offered EXCEPT ![q] = offered[q]]
      /\ addr' = [addr EXCEPT ![q] = addr[q]]
      /\ used' = [used EXCEPT ![q] = Append(used[q], d)]
      /\ here' = [here EXCEPT ![q] = here[q] \ {d}]
  BY DEF HandBack, QueueTypes
<1> QED
  BY <1>2, <1>3, QueueStep

\* The queues are as they were.
LEMMA QueueUnchanged ==
  ASSUME QueueTypes, QueueInv, UNCHANGED queueVars
  PROVE  QueueTypes' /\ QueueInv'
  BY DEF QueueTypes, QueueInv, queueVars

\* The host lends b under descriptor d of queue q.
LEMMA LendStep ==
  ASSUME QueueTypes, QueueInv, NEW q \in Queue, NEW d \in Desc, NEW b \in Bufs(q),
         HostLend(q, d, b)
  PROVE  /\ QueueTypes' /\ QueueInv' /\ here' = here /\ d \notin here[q]
         /\ addr' = [addr EXCEPT ![q] = [addr[q] EXCEPT ![d] = b]]
<1>1. QueueAt(pool[q], offered[q], here[q], used[q], addr[q], Bufs(q))
  BY DEF QueueInv
<1>2. d \in pool[q] /\ (\A e \in Desc \ pool[q] : addr[q][e] # b) /\ Bufs(q) \subseteq Buffers
  BY DEF HostLend, Bufs, Buffers
<1>3. QueueAt(pool[q] \ {d}, Append(offered[q], d), here[q], used[q], [addr[q] EXCEPT ![d] = b], Bufs(q))
  BY <1>1, <1>2, QueueLend
<1>4. /\ pool' = [pool EXCEPT ![q] = pool[q] \ {d}]
      /\ offered' = [offered EXCEPT ![q] = Append(offered[q], d)]
      /\ addr' = [addr EXCEPT ![q] = [addr[q] EXCEPT ![d] = b]]
      /\ used' = [used EXCEPT ![q] = used[q]]
      /\ here' = [here EXCEPT ![q] = here[q]]
      /\ here' = here
  BY DEF HostLend, QueueTypes
<1>5. d \notin here[q]
  BY <1>1, <1>2 DEF QueueAt
<1>6. QueueTypes' /\ QueueInv'
  BY <1>3, <1>4, QueueStep
<1> QED
  BY <1>4, <1>5, <1>6

\* The host takes a descriptor of queue q back.
LEMMA ReclaimStep ==
  ASSUME QueueTypes, QueueInv, NEW q \in Queue, HostReclaim(q)
  PROVE  /\ QueueTypes' /\ QueueInv' /\ here' = here /\ Head(used[q]) \notin here[q]
         /\ addr' = [addr EXCEPT ![q] = [addr[q] EXCEPT ![Head(used[q])] = NoBuf]]
<1>1. QueueAt(pool[q], offered[q], here[q], used[q], addr[q], Bufs(q)) /\ used[q] # <<>>
  BY DEF QueueInv, HostReclaim
<1>3. /\ QueueAt(pool[q] \cup {Head(used[q])}, offered[q], here[q], Tail(used[q]),
                 [addr[q] EXCEPT ![Head(used[q])] = NoBuf], Bufs(q))
      /\ Head(used[q]) \notin here[q]
  BY <1>1, QueueReclaim
<1>4. /\ pool' = [pool EXCEPT ![q] = pool[q] \cup {Head(used[q])}]
      /\ offered' = [offered EXCEPT ![q] = offered[q]]
      /\ addr' = [addr EXCEPT ![q] = [addr[q] EXCEPT ![Head(used[q])] = NoBuf]]
      /\ used' = [used EXCEPT ![q] = Tail(used[q])]
      /\ here' = [here EXCEPT ![q] = here[q]]
      /\ here' = here
  BY DEF HostReclaim, QueueTypes
<1>6. QueueTypes' /\ QueueInv'
  BY <1>3, <1>4, QueueStep
<1> QED
  BY <1>3, <1>4, <1>6

-----------------------------------------------------------------------------
(***************************************************************************)
(* What a step leaves alone.                                               *)
(***************************************************************************)
\* The types of the variables outside the queues, but for the Boolean one.
CallTypes ==
  /\ hdr \in [Buffers -> [idx : Desc, held : 0 .. MaxHolds + 1]]
  /\ reclaimer \in Seq(TxBufs)
  /\ kick \in {"no", "due", "sent"}
  /\ pc \in [Contexts -> {"idle", "get", "stamp", "header", "enqueue"}]
  /\ op \in [Contexts -> {"none", "send", "payload"}]
  /\ ticks \in [Contexts -> 0 .. MaxTicks]
  /\ buf \in [Contexts -> TxBufs \cup {NoBuf}] /\ idx \in [Contexts -> Desc]
  /\ owned \in SUBSET TxBufs
  /\ holds \in [RxBufs -> 0 .. MaxHolds]
  /\ rx \in [at : {"idle", "loop", "got", "callback", "finish"},
             buf : RxBufs \cup {NoBuf}, idx : Desc]

\* The type invariant is the two parts and a Boolean.
LEMMA TypeParts == TypeOK <=> QueueTypes /\ CallTypes /\ driver_ok \in BOOLEAN
  BY DEF TypeOK, QueueTypes, CallTypes

\* The sizes and the sets of buffers.
LEMMA Sizes ==
  /\ MaxTicks \in Nat /\ MaxHolds \in Nat /\ Desc \subseteq Nat /\ 0 \in Desc
  /\ NoBuf \notin TxBufs /\ NoBuf \notin RxBufs
  /\ \A b \in TxBufs : b \notin RxBufs
  /\ TxBufs \subseteq Buffers /\ RxBufs \subseteq Buffers
  /\ Bufs("svq") = TxBufs /\ Bufs("rvq") = RxBufs
  /\ "svq" \in Queue /\ "rvq" \in Queue
  BY SetAssumption DEF Buffers, Bufs, Queue

\* The descriptors at the device are lent and point to different buffers.
LEMMA HereFacts ==
  ASSUME QueueInv, NEW q \in Queue
  PROVE  /\ here[q] \subseteq Desc
         /\ \A d \in here[q] : d \notin pool[q] /\ addr[q][d] \in Bufs(q)
         /\ \A d, e \in Desc \ pool[q] : addr[q][d] = addr[q][e] => d = e
  BY DEF QueueInv, QueueAt

\* The elements of the reclaimer list are transmit buffers.
LEMMA Reclaimed ==
  ASSUME CallTypes
  PROVE  \A b \in ToSet(reclaimer) : b \in TxBufs
<1>1. /\ Len(reclaimer) \in Nat /\ DOMAIN reclaimer = 1 .. Len(reclaimer)
      /\ \A i \in 1 .. Len(reclaimer) : reclaimer[i] \in TxBufs
  BY LenProperties, ElementOfSeq DEF CallTypes
<1> QED
  BY <1>1 DEF ToSet

\* A step that leaves the transmit side alone.
LEMMA TxFrame ==
  ASSUME CallTypes, TxInv, UNCHANGED <<pc, buf, idx, owned, reclaimer>>,
         here'["svq"] = here["svq"],
         \A d \in here["svq"] : addr'["svq"][d] = addr["svq"][d],
         \A b \in TxBufs : hdr'[b] = hdr[b]
  PROVE  TxInv'
<1>1. \A c \in Contexts : InHand(c)' <=> InHand(c)
  BY DEF InHand
<1>2. \A c \in Contexts : InHand(c) => Carried(c)' = Carried(c)
  BY DEF TxInv, Carried
<1>3. \A b \in ToSet(reclaimer) : b \in TxBufs
  BY Reclaimed
<1>4. \A b \in owned \cup ToSet(reclaimer) : IndexKept(b) => IndexKept(b)'
  BY <1>3 DEF IndexKept, CallTypes
<1>5. \A b \in owned : hdr'[b] = hdr[b]
  BY DEF CallTypes
<1> HIDE DEF InHand, Carried, IndexKept
<1> QED
  BY <1>1, <1>2, <1>4, <1>5 DEF TxInv

\* A step that leaves the receive side alone.
LEMMA RxFrame ==
  ASSUME QueueInv, CallTypes, RxInv, UNCHANGED <<rx, holds>>,
         here'["rvq"] = here["rvq"],
         \A d \in here["rvq"] : addr'["rvq"][d] = addr["rvq"][d],
         \A b \in RxBufs : hdr'[b] = hdr[b]
  PROVE  RxInv'
<1>1. \A d \in here["rvq"] : addr["rvq"][d] \in RxBufs
  BY Sizes, HereFacts
<1>2. \A b \in RxBufs : \A d \in Desc : HeldUnder(b, d)' <=> HeldUnder(b, d)
  BY DEF HeldUnder
<1>3. \A d \in here["rvq"] : CountAt(d)'
  BY <1>1 DEF RxInv, CountAt, Dispatching
<1> QED
  BY <1>2, <1>3 DEF RxInv, HeldUnder

-----------------------------------------------------------------------------
(***************************************************************************)
(* The transmit side.                                                      *)
(***************************************************************************)
\* A context that has no transmit buffer goes to another place without one.
LEMMA TxNoBuffer ==
  ASSUME CallTypes, TxInv, NEW c \in Contexts, ~InHand(c), ~InHand(c)',
         \A e \in Contexts \ {c} : pc'[e] = pc[e] /\ buf'[e] = buf[e] /\ idx'[e] = idx[e],
         UNCHANGED <<owned, reclaimer, hdr, here, addr>>
  PROVE  TxInv'
<1>1. \A e \in Contexts \ {c} : (InHand(e)' <=> InHand(e)) /\ Carried(e)' = Carried(e)
  BY DEF InHand, Carried
<1>2. \A b : IndexKept(b)' <=> IndexKept(b)
  BY DEF IndexKept
<1> HIDE DEF InHand, Carried, IndexKept
<1> QED
  BY <1>1, <1>2 DEF TxInv

\* rpmsg_virtio_get_tx_buffer takes the first node of the reclaimer list.
LEMMA GetReclaimedTx ==
  ASSUME CallTypes, TxInv, NEW c \in Contexts, GetReclaimed(c)
  PROVE  TxInv' /\ CallTypes'
<1> DEFINE b == Head(reclaimer)
<1>1. /\ b \in TxBufs /\ b \in ToSet(reclaimer)
      /\ reclaimer' \in Seq(TxBufs) /\ Distinct(reclaimer')
      /\ ToSet(reclaimer)' = ToSet(reclaimer) \ {b}
  <2>1. reclaimer \in Seq(TxBufs) /\ Distinct(reclaimer) /\ reclaimer # <<>>
    BY DEF CallTypes, TxInv, GetReclaimed
  <2>2. /\ b \in TxBufs /\ b \in ToSet(reclaimer)
        /\ Tail(reclaimer) \in Seq(TxBufs) /\ Distinct(Tail(reclaimer))
        /\ ToSet(Tail(reclaimer)) = ToSet(reclaimer) \ {b}
    BY <2>1, TailFacts
  <2>3. reclaimer' = Tail(reclaimer)
    BY DEF GetReclaimed
  <2> QED
    BY <2>2, <2>3
<1>2. /\ pc[c] = "get" /\ pc' = [pc EXCEPT ![c] = "stamp"]
      /\ buf' = [buf EXCEPT ![c] = b] /\ idx' = [idx EXCEPT ![c] = hdr[b].idx]
      /\ UNCHANGED <<hdr, here, addr, kick, op, ticks, owned, holds, rx>>
  BY DEF GetReclaimed, queueVars
<1>3. b \in Buffers /\ b \notin owned /\ IndexKept(b) /\ hdr[b].idx \in Desc
  BY <1>1, Sizes DEF TxInv, CallTypes
<1> HIDE DEF b
<1>4. CallTypes'
  BY <1>1, <1>2, <1>3 DEF CallTypes
<1>5. /\ ~InHand(c) /\ InHand(c)' /\ buf'[c] = b /\ Carried(c)' = hdr[b].idx
      /\ \A e \in Contexts \ {c} : /\ InHand(e)' <=> InHand(e)
                                   /\ buf'[e] = buf[e] /\ Carried(e)' = Carried(e)
  BY <1>2 DEF CallTypes, InHand, Carried
<1>6. \A x : IndexKept(x)' <=> IndexKept(x)
  BY <1>2 DEF IndexKept
<1>7. hdr[b].idx \in here["svq"] /\ addr["svq"][hdr[b].idx] = b
  BY <1>3 DEF IndexKept
<1>8. TxInv'
  BY <1>1, <1>2, <1>3, <1>5, <1>6, <1>7 DEF TxInv
<1> QED
  BY <1>4, <1>8

\* rpmsg_virtio_get_tx_buffer takes a buffer from svq.
LEMMA GetAvailableTx ==
  ASSUME QueueTypes, QueueInv, CallTypes, TxInv, NEW c \in Contexts, GetAvailable(c)
  PROVE  TxInv' /\ CallTypes'
<1> DEFINE d == Head(offered["svq"])
           b == addr["svq"][d]
<1>1. /\ d \in Desc /\ d \notin here["svq"] /\ d \notin pool["svq"]
      /\ here' = [here EXCEPT !["svq"] = here["svq"] \cup {d}]
      /\ addr' = addr
  BY Sizes, TakeStep DEF GetAvailable, Take
<1>2. b \in TxBufs /\ \A e \in here["svq"] : addr["svq"][e] # b
  <2>1. b \in TxBufs
    BY <1>1, Sizes DEF QueueInv, QueueAt
  <2> QED
    BY <1>1, <2>1, Sizes, HereFacts
<1>3. /\ pc[c] = "get" /\ pc' = [pc EXCEPT ![c] = "stamp"]
      /\ buf' = [buf EXCEPT ![c] = b] /\ idx' = [idx EXCEPT ![c] = d]
      /\ UNCHANGED <<hdr, reclaimer, kick, op, ticks, owned, holds, rx>>
  BY DEF GetAvailable
<1> HIDE DEF d, b
<1>4. CallTypes'
  BY <1>1, <1>2, <1>3 DEF CallTypes
<1>5. /\ ~InHand(c) /\ InHand(c)' /\ buf'[c] = b /\ Carried(c)' = d
      /\ \A e \in Contexts \ {c} : /\ InHand(e)' <=> InHand(e)
                                   /\ buf'[e] = buf[e] /\ Carried(e)' = Carried(e)
  BY <1>3 DEF CallTypes, InHand, Carried
<1>6. here'["svq"] = here["svq"] \cup {d}
  BY <1>1, Sizes DEF QueueTypes
<1>7. \A x : IndexKept(x) => IndexKept(x)'
  BY <1>1, <1>3, <1>6 DEF IndexKept
<1>8. /\ b \notin owned /\ b \notin ToSet(reclaimer)
      /\ \A e \in Contexts : InHand(e) => buf[e] # b
  BY <1>2 DEF TxInv, IndexKept
<1>9. addr["svq"][d] = b
  BY DEF b
<1>10. TxInv'
  BY <1>1, <1>2, <1>3, <1>5, <1>6, <1>7, <1>8, <1>9 DEF TxInv
<1> QED
  BY <1>4, <1>10

\* Writing the header of the buffer that a context has in its hands leaves the
\* indices of all others alone.
LEMMA OtherIndices ==
  ASSUME CallTypes, TxInv, NEW c \in Contexts, InHand(c), NEW v,
         hdr' = [hdr EXCEPT ![buf[c]] = v], UNCHANGED <<here, addr, buf>>,
         \A e \in Contexts \ {c} : pc'[e] = pc[e] /\ idx'[e] = idx[e]
  PROVE  /\ \A x \in owned \cup ToSet(reclaimer) :
              (IndexKept(x)' <=> IndexKept(x)) /\ hdr'[x] = hdr[x]
         /\ \A e \in Contexts \ {c} : /\ InHand(e)' <=> InHand(e)
                                      /\ InHand(e) => Carried(e)' = Carried(e)
         /\ hdr'[buf[c]] = v
<1>1. buf[c] \in TxBufs /\ buf[c] \in Buffers /\ buf[c] \notin owned \cup ToSet(reclaimer)
  BY Sizes DEF TxInv
<1>2. \A x \in Buffers : x # buf[c] => hdr'[x] = hdr[x]
  BY <1>1 DEF CallTypes
<1>3. hdr'[buf[c]] = v
  BY <1>1 DEF CallTypes
<1>4. \A x \in owned \cup ToSet(reclaimer) : x \in Buffers /\ x # buf[c]
  BY <1>1, Sizes, Reclaimed DEF CallTypes
<1>5. \A x \in owned \cup ToSet(reclaimer) : (IndexKept(x)' <=> IndexKept(x)) /\ hdr'[x] = hdr[x]
  BY <1>2, <1>4 DEF IndexKept
<1>6. \A e \in Contexts \ {c} : InHand(e) => buf[e] \in Buffers /\ buf[e] # buf[c]
  BY Sizes DEF TxInv
<1>7. \A e \in Contexts \ {c} : /\ InHand(e)' <=> InHand(e)
                                /\ InHand(e) => Carried(e)' = Carried(e)
  BY <1>2, <1>6 DEF InHand, Carried
<1> QED
  BY <1>3, <1>5, <1>7

\* The end of rpmsg_virtio_get_tx_payload_buffer.
LEMMA StampTx ==
  ASSUME CallTypes, TxInv, NEW c \in Contexts, Stamp(c)
  PROVE  TxInv' /\ CallTypes'
<1> DEFINE v == [idx |-> idx[c], held |-> 1]
<1>0. InHand(c) /\ Carried(c) = idx[c]
  BY DEF Stamp, InHand, Carried
<1>1. /\ buf[c] \in TxBufs /\ buf[c] \in Buffers
      /\ idx[c] \in here["svq"] /\ addr["svq"][idx[c]] = buf[c]
      /\ buf[c] \notin owned /\ buf[c] \notin ToSet(reclaimer)
  BY <1>0, Sizes DEF TxInv
<1>2. /\ hdr' = [hdr EXCEPT ![buf[c]] = v]
      /\ UNCHANGED <<here, addr, reclaimer, kick, holds, rx>>
  BY DEF Stamp, queueVars
<1>3. v \in [idx : Desc, held : 0 .. MaxHolds + 1] /\ v.idx = idx[c] /\ v.held = 1
  BY Sizes DEF CallTypes
<1> HIDE DEF v
<1>4. CASE op[c] = "payload"
  <2>1. /\ owned' = owned \cup {buf[c]} /\ pc' = [pc EXCEPT ![c] = "idle"]
        /\ op' = [op EXCEPT ![c] = "none"] /\ ticks' = [ticks EXCEPT ![c] = 0]
        /\ buf' = [buf EXCEPT ![c] = NoBuf] /\ idx' = [idx EXCEPT ![c] = 0]
    BY <1>4 DEF Stamp, Return
  <2>b. PICK b \in TxBufs : b = buf[c]
    BY <1>1
  <2>2. CallTypes'
    BY <1>1, <1>2, <1>3, <2>1, Sizes DEF CallTypes
  <2>3. \A x \in Buffers : hdr'[x] = IF x = buf[c] THEN v ELSE hdr[x]
    BY <1>2 DEF CallTypes
  <2>4. \A x \in owned \cup ToSet(reclaimer) : x \in Buffers /\ x # buf[c]
    BY <1>1, Sizes, Reclaimed DEF CallTypes
  <2>5. /\ \A x \in owned \cup ToSet(reclaimer) : IndexKept(x)' /\ hdr'[x] = hdr[x]
        /\ IndexKept(b)' /\ hdr'[b].held = 1
    BY <1>1, <1>2, <1>3, <2>b, <2>3, <2>4 DEF TxInv, IndexKept
  <2>6. \A e \in Contexts \ {c} : InHand(e) => buf[e] \in Buffers /\ buf[e] # buf[c]
    BY <1>0, Sizes DEF TxInv
  <2>7. \A e \in Contexts \ {c} : /\ InHand(e)' <=> InHand(e)
                                  /\ buf'[e] = buf[e]
                                  /\ InHand(e) => Carried(e)' = Carried(e)
    BY <2>1, <2>3, <2>6 DEF CallTypes, InHand, Carried
  <2>8. ~InHand(c)'
    BY <2>1 DEF CallTypes, InHand
  <2> HIDE DEF InHand, Carried, IndexKept
  <2>9. TxInv'
    BY <1>1, <1>2, <2>b, <2>1, <2>5, <2>6, <2>7, <2>8 DEF TxInv
  <2> QED
    BY <2>2, <2>9
<1>5. CASE op[c] # "payload"
  <2>1. pc' = [pc EXCEPT ![c] = "header"] /\ UNCHANGED <<op, ticks, buf, idx, owned>>
    BY <1>5 DEF Stamp
  <2>2. CallTypes'
    BY <1>1, <1>2, <1>3, <2>1 DEF CallTypes
  <2>3. \A e \in Contexts \ {c} : pc'[e] = pc[e] /\ idx'[e] = idx[e]
    BY <2>1 DEF CallTypes
  <2>4. /\ \A x \in owned \cup ToSet(reclaimer) :
              (IndexKept(x)' <=> IndexKept(x)) /\ hdr'[x] = hdr[x]
        /\ \A e \in Contexts \ {c} : /\ InHand(e)' <=> InHand(e)
                                     /\ InHand(e) => Carried(e)' = Carried(e)
        /\ hdr'[buf[c]] = v
    BY <1>0, <1>2, <2>1, <2>3, OtherIndices
  <2>5. InHand(c)' /\ Carried(c)' = idx[c]
    BY <1>3, <2>1, <2>4 DEF CallTypes, InHand, Carried
  <2> HIDE DEF InHand, Carried, IndexKept
  <2>9. TxInv'
    BY <1>0, <1>1, <1>2, <2>1, <2>4, <2>5 DEF TxInv
  <2> QED
    BY <2>2, <2>9
<1> QED
  BY <1>4, <1>5

\* The send reads the index before its header overwrites it.
LEMMA WriteHeaderTx ==
  ASSUME CallTypes, TxInv, NEW c \in Contexts, WriteHeader(c)
  PROVE  TxInv' /\ CallTypes'
<1> DEFINE v == [idx |-> 0, held |-> 0]
<1>0. InHand(c) /\ Carried(c) = hdr[buf[c]].idx
  BY DEF WriteHeader, InHand, Carried
<1>1. /\ buf[c] \in TxBufs /\ buf[c] \in Buffers /\ hdr[buf[c]].idx \in Desc
      /\ hdr[buf[c]].idx \in here["svq"] /\ addr["svq"][hdr[buf[c]].idx] = buf[c]
  BY <1>0, Sizes DEF TxInv, CallTypes
<1>2. /\ hdr' = [hdr EXCEPT ![buf[c]] = v]
      /\ pc' = [pc EXCEPT ![c] = "enqueue"]
      /\ idx' = [idx EXCEPT ![c] = hdr[buf[c]].idx]
      /\ UNCHANGED <<here, addr, reclaimer, kick, holds, rx, op, ticks, buf, owned>>
  BY DEF WriteHeader, queueVars
<1>3. v \in [idx : Desc, held : 0 .. MaxHolds + 1]
  BY Sizes
<1> HIDE DEF v
<1>4. CallTypes'
  BY <1>1, <1>2, <1>3 DEF CallTypes
<1>5. \A e \in Contexts \ {c} : pc'[e] = pc[e] /\ idx'[e] = idx[e]
  BY <1>2 DEF CallTypes
<1>6. /\ \A x \in owned \cup ToSet(reclaimer) :
            (IndexKept(x)' <=> IndexKept(x)) /\ hdr'[x] = hdr[x]
      /\ \A e \in Contexts \ {c} : /\ InHand(e)' <=> InHand(e)
                                   /\ InHand(e) => Carried(e)' = Carried(e)
  BY <1>0, <1>2, <1>5, OtherIndices
<1>7. InHand(c)' /\ Carried(c)' = hdr[buf[c]].idx
  BY <1>2 DEF CallTypes, InHand, Carried
<1> HIDE DEF InHand, Carried, IndexKept
<1>8. TxInv'
  BY <1>0, <1>1, <1>2, <1>6, <1>7 DEF TxInv
<1> QED
  BY <1>4, <1>8

\* The send returns the descriptor that points to its buffer.
LEMMA EnqueueTx ==
  ASSUME QueueTypes, QueueInv, CallTypes, TxInv, NEW c \in Contexts, Enqueue(c)
  PROVE  TxInv' /\ CallTypes' /\ idx[c] \in here["svq"]
<1>0. InHand(c) /\ Carried(c) = idx[c]
  BY DEF Enqueue, InHand, Carried
<1>1. PICK d \in here["svq"] : d = idx[c] /\ addr["svq"][d] = buf[c]
  BY <1>0 DEF TxInv
<1>2. here' = [here EXCEPT !["svq"] = here["svq"] \ {d}] /\ addr' = addr
  BY <1>1 DEF Enqueue, HandBack
<1>3. /\ pc' = [pc EXCEPT ![c] = "idle"]
      /\ op' = [op EXCEPT ![c] = "none"] /\ ticks' = [ticks EXCEPT ![c] = 0]
      /\ buf' = [buf EXCEPT ![c] = NoBuf] /\ idx' = [idx EXCEPT ![c] = 0]
      /\ UNCHANGED <<hdr, reclaimer, kick, owned, holds, rx>>
  BY DEF Enqueue, Return
<1>4. CallTypes'
  BY <1>3, Sizes DEF CallTypes
<1>5. here'["svq"] = here["svq"] \ {d}
  BY <1>2, Sizes DEF QueueTypes
<1>6. \A e \in Contexts \ {c} : /\ InHand(e)' <=> InHand(e)
                                /\ buf'[e] = buf[e] /\ Carried(e)' = Carried(e)
  BY <1>3 DEF CallTypes, InHand, Carried
<1>7. ~InHand(c)'
  BY <1>3 DEF CallTypes, InHand
<1>8. \A x : IndexKept(x) /\ x # buf[c] => IndexKept(x)'
  BY <1>1, <1>2, <1>3, <1>5 DEF IndexKept
<1>9. \A e \in Contexts \ {c} : InHand(e) => buf[e] # buf[c] /\ Carried(e) # d
  BY <1>0, <1>1 DEF TxInv
<1>10. \A e \in here["svq"] : addr["svq"][e] = buf[c] => e = d
  BY <1>1, Sizes, HereFacts
<1>11. buf[c] \notin owned /\ buf[c] \notin ToSet(reclaimer)
  BY <1>0 DEF TxInv
<1> HIDE DEF InHand, Carried, IndexKept
<1>12. TxInv'
  BY <1>0, <1>1, <1>2, <1>3, <1>5, <1>6, <1>7, <1>8, <1>9, <1>10, <1>11 DEF TxInv
<1> QED
  BY <1>1, <1>4, <1>12

\* A client passes a buffer it owns to a send.
LEMMA CallNocopyTx ==
  ASSUME CallTypes, TxInv, NEW c \in Contexts, NEW b \in TxBufs, CallNocopy(c, b)
  PROVE  TxInv' /\ CallTypes'
<1>1. /\ pc[c] = "idle" /\ b \in owned /\ owned' = owned \ {b}
      /\ buf' = [buf EXCEPT ![c] = b] /\ pc' = [pc EXCEPT ![c] = "header"]
      /\ UNCHANGED <<here, addr, hdr, reclaimer, kick, op, ticks, idx, holds, rx>>
  BY DEF CallNocopy, CanCall, queueVars
<1>2. CallTypes'
  BY <1>1 DEF CallTypes
<1>3. IndexKept(b) /\ b \notin ToSet(reclaimer)
  BY <1>1 DEF TxInv
<1>4. /\ ~InHand(c) /\ InHand(c)' /\ buf'[c] = b /\ Carried(c)' = hdr[b].idx
      /\ \A e \in Contexts \ {c} : /\ InHand(e)' <=> InHand(e)
                                   /\ buf'[e] = buf[e] /\ Carried(e)' = Carried(e)
  BY <1>1 DEF CallTypes, InHand, Carried
<1>5. \A x : IndexKept(x)' <=> IndexKept(x)
  BY <1>1 DEF IndexKept
<1>6. hdr[b].idx \in here["svq"] /\ addr["svq"][hdr[b].idx] = b
  BY <1>3 DEF IndexKept
<1> HIDE DEF InHand, Carried, IndexKept
<1>7. TxInv'
  BY <1>1, <1>3, <1>4, <1>5, <1>6 DEF TxInv
<1> QED
  BY <1>2, <1>7

\* One hold less: the index stays, and the count does not go below 0.
LEMMA HeldDec ==
  ASSUME CallTypes, NEW b \in Buffers, NEW last \in BOOLEAN, HeldDecTest(b, last)
  PROVE  /\ hdr' \in [Buffers -> [idx : Desc, held : 0 .. MaxHolds + 1]]
         /\ last <=> hdr[b].held = 1
         /\ \A x \in Buffers : x # b => hdr'[x] = hdr[x]
         /\ hdr'[b].idx = hdr[b].idx
         /\ hdr'[b].held = IF hdr[b].held = 0 THEN 0 ELSE hdr[b].held - 1
<1>1. hdr[b] \in [idx : Desc, held : 0 .. MaxHolds + 1] /\ hdr[b].held \in 0 .. MaxHolds + 1
  BY DEF CallTypes
<1>2. PICK n : n = IF hdr[b].held <= 0 THEN hdr[b].held ELSE hdr[b].held - 1
  OBVIOUS
<1>3. n \in 0 .. MaxHolds + 1 /\ n = IF hdr[b].held = 0 THEN 0 ELSE hdr[b].held - 1
  BY <1>1, <1>2, Sizes
<1>4. hdr' = [hdr EXCEPT ![b] = [hdr[b] EXCEPT !.held = n]]
  BY <1>2 DEF HeldDecTest
<1>5. last <=> hdr[b].held = 1
  BY DEF HeldDecTest
<1> QED
  BY <1>1, <1>3, <1>4, <1>5 DEF CallTypes

\* A client gives a transmit buffer back unsent.
LEMMA ReleaseTxTx ==
  ASSUME CallTypes, TxInv, NEW c \in Contexts, NEW b \in TxBufs, ReleaseTx(c, b)
  PROVE  TxInv' /\ CallTypes' /\ \A x \in RxBufs : hdr'[x] = hdr[x]
<1>1. /\ b \in owned /\ owned' = owned \ {b} /\ b \in Buffers
      /\ UNCHANGED <<here, addr, pc, buf, idx, kick, op, ticks, holds, rx>>
  BY Sizes DEF ReleaseTx, queueVars, callVars
<1>2. hdr[b].held = 1 /\ IndexKept(b) /\ b \notin ToSet(reclaimer)
  BY <1>1 DEF TxInv
<1>3. PICK last \in BOOLEAN :
        /\ HeldDecTest(b, last)
        /\ reclaimer' = IF last THEN Append(reclaimer, b) ELSE reclaimer
  BY DEF ReleaseTx
<1>4. /\ hdr' \in [Buffers -> [idx : Desc, held : 0 .. MaxHolds + 1]]
      /\ \A x \in Buffers : x # b => hdr'[x] = hdr[x]
      /\ hdr'[b].idx = hdr[b].idx
      /\ last <=> hdr[b].held = 1
  BY <1>1, <1>3, HeldDec
<1>5. reclaimer' = Append(reclaimer, b)
  BY <1>2, <1>3, <1>4
<1>6. /\ reclaimer' \in Seq(TxBufs) /\ Distinct(reclaimer')
      /\ ToSet(reclaimer)' = ToSet(reclaimer) \cup {b}
  <2>1. reclaimer \in Seq(TxBufs) /\ Distinct(reclaimer)
    BY DEF CallTypes, TxInv
  <2>2. /\ Append(reclaimer, b) \in Seq(TxBufs) /\ Distinct(Append(reclaimer, b))
        /\ ToSet(Append(reclaimer, b)) = ToSet(reclaimer) \cup {b}
    BY <1>2, <2>1, AppendFacts
  <2> QED
    BY <1>5, <2>2
<1>7. CallTypes'
  BY <1>1, <1>4, <1>6 DEF CallTypes
<1>8. \A x \in owned \cup ToSet(reclaimer) : x \in Buffers
  BY Sizes, Reclaimed DEF CallTypes
<1>9. \A x \in owned \cup ToSet(reclaimer) : IndexKept(x)'
  BY <1>1, <1>4, <1>8 DEF TxInv, IndexKept
<1>10. \A e \in Contexts : /\ InHand(e)' <=> InHand(e)
                           /\ InHand(e) => Carried(e)' = Carried(e) /\ buf[e] # b
  <2>1. \A e \in Contexts : InHand(e) => buf[e] \in Buffers /\ buf[e] # b
    BY <1>1, Sizes DEF TxInv
  <2> QED
    BY <1>1, <1>4, <2>1 DEF InHand, Carried
<1>11. \A x \in owned \ {b} : hdr'[x] = hdr[x]
  BY <1>4, <1>8
<1>12. \A x \in RxBufs : hdr'[x] = hdr[x]
  BY <1>4, Sizes
<1> HIDE DEF InHand, Carried, IndexKept
<1>13. TxInv'
  BY <1>1, <1>2, <1>6, <1>9, <1>10, <1>11 DEF TxInv
<1> QED
  BY <1>7, <1>12, <1>13

\* A call begins, or ends without a buffer.
LEMMA NoBufferTx ==
  ASSUME CallTypes, TxInv, NEW c \in Contexts,
         GetNothing(c) \/ \E t \in {0, MaxTicks} : CallSend(c, t) \/ CallPayload(c, t)
  PROVE  /\ TxInv' /\ CallTypes' /\ UNCHANGED <<queueVars, hdr, rx, holds>>
<1>1. UNCHANGED <<queueVars, hdr, rx, holds, kick, owned, reclaimer>>
  BY DEF GetNothing, CallSend, CallPayload, CallTx
<1>2. CASE GetNothing(c) /\ Return(c)
  <2>1. /\ pc[c] = "get" /\ pc' = [pc EXCEPT ![c] = "idle"]
        /\ op' = [op EXCEPT ![c] = "none"] /\ ticks' = [ticks EXCEPT ![c] = 0]
        /\ buf' = [buf EXCEPT ![c] = NoBuf] /\ idx' = [idx EXCEPT ![c] = 0]
    BY <1>2 DEF GetNothing, Return
  <2>2. CallTypes'
    BY <1>1, <2>1, Sizes DEF CallTypes
  <2>3. /\ ~InHand(c) /\ ~InHand(c)'
        /\ \A e \in Contexts \ {c} : pc'[e] = pc[e] /\ buf'[e] = buf[e] /\ idx'[e] = idx[e]
    BY <2>1 DEF CallTypes, InHand
  <2>4. UNCHANGED <<owned, reclaimer, hdr, here, addr>>
    BY <1>1 DEF queueVars
  <2> QED
    BY <1>1, <2>2, <2>3, <2>4, TxNoBuffer
<1>3. CASE GetNothing(c) /\ ~Return(c)
  <2>1. /\ pc[c] = "get" /\ UNCHANGED <<pc, op, buf, idx>>
        /\ \/ ticks' = [ticks EXCEPT ![c] = ticks[c] - 1] /\ ticks[c] > 0
           \/ UNCHANGED ticks
    BY <1>3 DEF GetNothing, callVars
  <2>2. CallTypes'
    BY <1>1, <2>1, Sizes DEF CallTypes
  <2>3. TxInv'
    BY <1>1, <2>1, TxFrame DEF queueVars
  <2> QED
    BY <1>1, <2>2, <2>3
<1>4. CASE \E t \in {0, MaxTicks} : CallSend(c, t) \/ CallPayload(c, t)
  <2>0. PICK t \in {0, MaxTicks}, call \in {"send", "payload"} : CallTx(c, call, t)
    BY <1>4 DEF CallSend, CallPayload
  <2>1. /\ pc[c] = "idle" /\ pc' = [pc EXCEPT ![c] = "get"]
        /\ op' = [op EXCEPT ![c] = call] /\ ticks' = [ticks EXCEPT ![c] = t]
        /\ UNCHANGED <<buf, idx>>
    BY <2>0 DEF CallTx, CanCall
  <2>2. CallTypes'
    BY <1>1, <2>1, Sizes DEF CallTypes
  <2>3. /\ ~InHand(c) /\ ~InHand(c)'
        /\ \A e \in Contexts \ {c} : pc'[e] = pc[e] /\ buf'[e] = buf[e] /\ idx'[e] = idx[e]
    BY <2>1 DEF CallTypes, InHand
  <2>4. UNCHANGED <<owned, reclaimer, hdr, here, addr>>
    BY <1>1 DEF queueVars
  <2> QED
    BY <1>1, <2>2, <2>3, <2>4, TxNoBuffer
<1> QED
  BY <1>2, <1>3, <1>4

-----------------------------------------------------------------------------
(***************************************************************************)
(* The receive side.                                                       *)
(***************************************************************************)
\* A buffer that a client or a running callback holds is at the device under
\* one descriptor, and its header tells which.
LEMMA HeldIndex ==
  ASSUME QueueInv, CallTypes, RxInv, NEW b \in RxBufs,
         holds[b] > 0 \/ Dispatching(b)
  PROVE  /\ HeldUnder(b, hdr[b].idx)
         /\ hdr[b].held > 0
         /\ hdr[b].held = holds[b] + (IF Dispatching(b) THEN 1 ELSE 0)
         /\ \A e \in here["rvq"] : addr["rvq"][e] = b => e = hdr[b].idx
<1>1. PICK d \in here["rvq"] : addr["rvq"][d] = b
  BY DEF RxInv, Dispatching, HeldUnder
<1>2. ~(rx.at = "got" /\ rx.buf = b)
  BY Sizes DEF RxInv, CallTypes, Dispatching
<1>3. /\ hdr[b].idx = d /\ hdr[b].held > 0
      /\ hdr[b].held = holds[b] + (IF Dispatching(b) THEN 1 ELSE 0)
  BY <1>1, <1>2 DEF RxInv, CountAt
<1>4. \A e \in here["rvq"] : addr["rvq"][e] = b => e = d
  BY <1>1, Sizes, HereFacts
<1> QED
  BY <1>1, <1>3, <1>4 DEF HeldUnder

\* rpmsg_virtio_release_rx_buffer on a buffer at the device.
LEMMA ReleaseHoldStep ==
  ASSUME QueueTypes, QueueInv, CallTypes, NEW b \in RxBufs,
         HeldUnder(b, hdr[b].idx), hdr[b].held > 0, ReleaseHold(b)
  PROVE  /\ QueueTypes' /\ QueueInv' /\ addr' = addr /\ here'["svq"] = here["svq"]
         /\ hdr' \in [Buffers -> [idx : Desc, held : 0 .. MaxHolds + 1]]
         /\ \A x \in Buffers : x # b => hdr'[x] = hdr[x]
         /\ hdr'[b].idx = hdr[b].idx /\ hdr'[b].held = hdr[b].held - 1
         /\ here'["rvq"] = IF hdr[b].held = 1 THEN here["rvq"] \ {hdr[b].idx} ELSE here["rvq"]
<1>0. PICK last \in BOOLEAN :
        /\ HeldDecTest(b, last)
        /\ IF last THEN HandBack("rvq", hdr[b].idx) ELSE UNCHANGED queueVars
  BY DEF ReleaseHold
<1>1. b \in Buffers /\ hdr[b].held \in 0 .. MaxHolds + 1
  BY Sizes DEF CallTypes
<1>2. /\ hdr' \in [Buffers -> [idx : Desc, held : 0 .. MaxHolds + 1]]
      /\ last <=> hdr[b].held = 1
      /\ \A x \in Buffers : x # b => hdr'[x] = hdr[x]
      /\ hdr'[b].idx = hdr[b].idx
      /\ hdr'[b].held = IF hdr[b].held = 0 THEN 0 ELSE hdr[b].held - 1
  BY <1>0, <1>1, HeldDec
<1>3. hdr'[b].held = hdr[b].held - 1
  BY <1>1, <1>2, Sizes
<1>4. CASE last
  <2>1. HandBack("rvq", hdr[b].idx) /\ hdr[b].idx \in here["rvq"]
    BY <1>0, <1>4 DEF HeldUnder
  <2>2. /\ QueueTypes' /\ QueueInv'
        /\ here' = [here EXCEPT !["rvq"] = here["rvq"] \ {hdr[b].idx}]
    BY <2>1, Sizes, HandBackStep
  <2>3. addr' = addr /\ here'["svq"] = here["svq"] /\ here'["rvq"] = here["rvq"] \ {hdr[b].idx}
    BY <2>1, <2>2, Sizes DEF HandBack, QueueTypes
  <2> QED
    BY <1>2, <1>3, <1>4, <2>2, <2>3
<1>5. CASE ~last
  <2>1. UNCHANGED queueVars
    BY <1>0, <1>5
  <2>2. QueueTypes' /\ QueueInv'
    BY <2>1, QueueUnchanged
  <2> QED
    BY <1>2, <1>3, <1>5, <2>1, <2>2 DEF queueVars
<1> QED
  BY <1>4, <1>5

\* rpmsg_virtio_rx_callback begins, finds the ring empty, or is back from an
\* endpoint's callback.
LEMMA RxMoves ==
  ASSUME QueueInv, CallTypes, RxInv, RxNotified \/ RxDone \/ RxReturn
  PROVE  RxInv' /\ CallTypes' /\ UNCHANGED <<queueVars, hdr, pc, buf, idx, owned, reclaimer>>
<1>1. UNCHANGED <<queueVars, hdr, reclaimer, pc, op, ticks, buf, idx, owned, holds>>
  BY DEF RxNotified, RxDone, RxReturn, callVars
<1>2. CallTypes'
  <2>1. kick' \in {"no", "due", "sent"}
    BY DEF RxNotified, RxDone, RxReturn, CallTypes
  <2>2. rx' \in [at : {"idle", "loop", "got", "callback", "finish"},
                 buf : RxBufs \cup {NoBuf}, idx : Desc]
    <3>1. CASE RxNotified
      BY <3>1 DEF RxNotified, CallTypes
    <3>2. CASE RxDone
      BY <3>2, Sizes DEF RxDone
    <3>3. CASE RxReturn
      BY <3>3 DEF RxReturn, CallTypes
    <3> QED
      BY <3>1, <3>2, <3>3
  <2> QED
    BY <1>1, <2>1, <2>2 DEF CallTypes
<1>3. UNCHANGED <<here, addr>>
  BY <1>1 DEF queueVars
<1>4. /\ rx'.at \in {"idle", "loop"} => rx'.buf = NoBuf
      /\ rx'.at \in {"got", "callback", "finish"} => rx'.buf \in RxBufs
      /\ rx'.at # "got" /\ rx.at # "got"
      /\ rx'.at \in {"callback", "finish"} => rx.at \in {"callback", "finish"} /\ rx'.buf = rx.buf
      /\ rx.at \in {"callback", "finish"} <=> rx'.at \in {"callback", "finish"}
  BY DEF RxNotified, RxDone, RxReturn, CallTypes, RxInv
<1>5. \A b \in RxBufs : Dispatching(b)' <=> Dispatching(b)
  BY <1>4 DEF Dispatching
<1>6. \A d \in here["rvq"] : addr["rvq"][d] \in RxBufs
  BY Sizes, HereFacts
<1>7. \A d \in here["rvq"] : CountAt(d) => CountAt(d)'
  BY <1>1, <1>3, <1>4, <1>5, <1>6 DEF CountAt
<1>8. \A d \in Desc : HeldUnder(rx.buf, d) => d \in here["rvq"] /\ addr["rvq"][d] = rx.buf
  BY DEF HeldUnder
<1>9. \A d \in Desc : rx'.buf = rx.buf /\ HeldUnder(rx.buf, d) => HeldUnder(rx.buf, d)'
  BY <1>3 DEF HeldUnder
<1> HIDE DEF HeldUnder, CountAt
<1>10. RxInv'
  BY <1>1, <1>3, <1>4, <1>7, <1>9 DEF RxInv
<1> QED
  BY <1>1, <1>2, <1>10

\* rpmsg_virtio_rx_callback takes a message from rvq.
LEMMA RxGetRx ==
  ASSUME QueueTypes, QueueInv, CallTypes, RxInv, RxGet
  PROVE  RxInv' /\ CallTypes' /\ here'["svq"] = here["svq"]
<1>0. PICK d \in Desc : d = Head(offered["rvq"])
  BY Sizes, TakeStep DEF RxGet
<1>1. /\ d \notin here["rvq"] /\ d \notin pool["rvq"] /\ addr' = addr
      /\ here' = [here EXCEPT !["rvq"] = here["rvq"] \cup {d}]
  BY <1>0, Sizes, TakeStep DEF RxGet, Take
<1>2. PICK b \in RxBufs : b = addr["rvq"][d]
  BY <1>1, Sizes DEF QueueInv, QueueAt
<1>3. \A e \in here["rvq"] : addr["rvq"][e] # b
  BY <1>1, <1>2, Sizes, HereFacts
<1>4. /\ rx.at = "loop" /\ rx'.at = "got" /\ rx'.buf = b /\ rx'.idx = d
      /\ rx' \in [at : {"idle", "loop", "got", "callback", "finish"},
                  buf : RxBufs \cup {NoBuf}, idx : Desc]
      /\ UNCHANGED <<hdr, reclaimer, kick, pc, op, ticks, buf, idx, owned, holds>>
  BY <1>0, <1>2 DEF RxGet, callVars
<1>5. CallTypes'
  BY <1>4 DEF CallTypes
<1>6. here'["svq"] = here["svq"] /\ here'["rvq"] = here["rvq"] \cup {d}
  BY <1>1, Sizes DEF QueueTypes
<1>7. holds[b] = 0
  <2>1. holds[b] \in 0 .. MaxHolds
    BY DEF CallTypes
  <2>2. ~(holds[b] > 0)
    BY <1>3 DEF RxInv
  <2> QED
    BY <2>1, <2>2, Sizes
<1>8. HeldUnder(b, d)'
  BY <1>1, <1>2, <1>6 DEF HeldUnder
<1>a. \A x : ~Dispatching(x) /\ ~Dispatching(x)'
  BY <1>4 DEF Dispatching
<1>9. ASSUME NEW e \in here["rvq"], CountAt(e)
      PROVE  CountAt(e)'
  <2>1. CountAt(e)
    BY <1>9
  <2>2. PICK x : x = addr["rvq"][e] /\ addr'["rvq"][e] = x /\ hdr'[x] = hdr[x] /\ holds'[x] = holds[x]
    BY <1>1, <1>4
  <2>3. hdr[x].idx = e /\ hdr[x].held > 0 /\ hdr[x].held = holds[x] + 0
    BY <1>4, <1>a, <2>1, <2>2 DEF CountAt
  <2> QED
    BY <1>a, <2>2, <2>3 DEF CountAt
<1>10. CountAt(d)'
  BY <1>1, <1>2, <1>4 DEF CountAt
<1> HIDE DEF CountAt, HeldUnder
<1>11. RxInv'
  BY <1>1, <1>2, <1>4, <1>6, <1>7, <1>8, <1>9, <1>10 DEF RxInv
<1> QED
  BY <1>5, <1>6, <1>11

\* Index and one hold go into the header of the message.
LEMMA RxDispatchRx ==
  ASSUME QueueInv, CallTypes, RxInv, RxDispatch
  PROVE  RxInv' /\ CallTypes' /\ \A x \in TxBufs : hdr'[x] = hdr[x]
<1>1. PICK b \in RxBufs : b = rx.buf
  BY DEF RxInv, RxDispatch
<1>2. PICK d \in Desc : d = rx.idx
  BY DEF CallTypes
<1>3. /\ rx.at = "got" /\ HeldUnder(b, d) /\ holds[b] = 0 /\ b \in Buffers
  BY <1>1, <1>2, Sizes DEF RxInv, RxDispatch
<1>4. PICK found \in {"callback", "finish"} : rx' = [rx EXCEPT !.at = found]
  BY DEF RxDispatch
<1>5. /\ hdr' = [hdr EXCEPT ![b] = [idx |-> d, held |-> 1]]
      /\ UNCHANGED <<here, addr, reclaimer, kick, pc, op, ticks, buf, idx, owned, holds>>
  BY <1>1, <1>2 DEF RxDispatch, queueVars, callVars
<1>6. /\ rx'.at = found /\ rx'.buf = b
      /\ rx' \in [at : {"idle", "loop", "got", "callback", "finish"},
                  buf : RxBufs \cup {NoBuf}, idx : Desc]
  BY <1>1, <1>4 DEF CallTypes
<1>7. /\ hdr' \in [Buffers -> [idx : Desc, held : 0 .. MaxHolds + 1]]
      /\ hdr'[b].idx = d /\ hdr'[b].held = 1
      /\ \A x \in Buffers : x # b => hdr'[x] = hdr[x]
  BY <1>3, <1>5, Sizes DEF CallTypes
<1>8. CallTypes'
  BY <1>5, <1>6, <1>7 DEF CallTypes
<1>9. \A e \in here["rvq"] : /\ addr["rvq"][e] \in RxBufs
                             /\ addr["rvq"][e] = b <=> e = d
  BY <1>3, Sizes, HereFacts DEF HeldUnder
<1>10. \A x \in RxBufs : Dispatching(x)' <=> x = b
  BY <1>6 DEF Dispatching
<1>11. \A x \in RxBufs : ~Dispatching(x)
  BY <1>3 DEF Dispatching
<1>12. \A e \in here["rvq"] : e # d => CountAt(e)'
  <2> SUFFICES ASSUME NEW e \in here["rvq"], e # d PROVE CountAt(e)'
    OBVIOUS
  <2>1. CountAt(e) /\ addr["rvq"][e] \in RxBufs /\ addr["rvq"][e] # b
    BY <1>9 DEF RxInv
  <2> QED
    BY <1>1, <1>5, <1>7, <1>10, <1>11, <2>1, Sizes DEF CountAt
<1>13. CountAt(d)'
  <2>1. addr'["rvq"][d] = b /\ holds'[b] + 1 = 1
    BY <1>3, <1>5, <1>9 DEF HeldUnder
  <2> QED
    BY <1>7, <1>10, <2>1 DEF CountAt
<1>14. HeldUnder(b, d)'
  BY <1>3, <1>5 DEF HeldUnder
<1>15. \A x \in TxBufs : hdr'[x] = hdr[x]
  BY <1>7, Sizes
<1> HIDE DEF CountAt, HeldUnder
<1>16. RxInv'
  BY <1>1, <1>5, <1>6, <1>12, <1>13, <1>14 DEF RxInv
<1> QED
  BY <1>8, <1>15, <1>16

\* The dispatcher gives up its own hold.
LEMMA RxFinishRx ==
  ASSUME QueueTypes, QueueInv, CallTypes, RxInv, RxFinish
  PROVE  /\ RxInv' /\ CallTypes' /\ QueueTypes' /\ QueueInv'
         /\ addr' = addr /\ here'["svq"] = here["svq"]
         /\ \A x \in TxBufs : hdr'[x] = hdr[x]
<1>1. PICK b \in RxBufs : b = rx.buf
  BY DEF RxInv, RxFinish
<1>2. rx.at = "finish" /\ ReleaseHold(b) /\ Dispatching(b)
  BY <1>1 DEF RxFinish, Dispatching
<1>3. PICK d \in Desc : d = hdr[b].idx
  BY Sizes DEF CallTypes
<1>4. /\ HeldUnder(b, d) /\ hdr[b].held > 0 /\ hdr[b].held = holds[b] + 1
      /\ \A e \in here["rvq"] : addr["rvq"][e] = b => e = d
  BY <1>2, <1>3, HeldIndex
<1>5. /\ QueueTypes' /\ QueueInv' /\ addr' = addr /\ here'["svq"] = here["svq"]
      /\ hdr' \in [Buffers -> [idx : Desc, held : 0 .. MaxHolds + 1]]
      /\ \A x \in Buffers : x # b => hdr'[x] = hdr[x]
      /\ hdr'[b].idx = d /\ hdr'[b].held = hdr[b].held - 1
      /\ here'["rvq"] = IF hdr[b].held = 1 THEN here["rvq"] \ {d} ELSE here["rvq"]
  BY <1>2, <1>3, <1>4, ReleaseHoldStep
<1>6. /\ rx'.at = "loop" /\ rx'.buf = NoBuf
      /\ rx' \in [at : {"idle", "loop", "got", "callback", "finish"},
                  buf : RxBufs \cup {NoBuf}, idx : Desc]
      /\ UNCHANGED <<reclaimer, kick, pc, op, ticks, buf, idx, owned, holds>>
  BY Sizes DEF RxFinish, callVars
<1>7. CallTypes'
  BY <1>5, <1>6 DEF CallTypes
<1>8. \A x \in RxBufs : ~Dispatching(x)' /\ (Dispatching(x) <=> x = b)
  BY <1>1, <1>2, <1>6 DEF Dispatching
<1>9. \A e \in here["rvq"] : addr["rvq"][e] \in RxBufs
  BY Sizes, HereFacts
<1>10. holds[b] \in Nat /\ \A x \in RxBufs : holds[x] \in Nat
  BY Sizes DEF CallTypes
<1>11. \A e \in here["rvq"] : e # d => CountAt(e)'
  <2> SUFFICES ASSUME NEW e \in here["rvq"], e # d PROVE CountAt(e)'
    OBVIOUS
  <2>1. CountAt(e) /\ addr["rvq"][e] \in RxBufs /\ addr["rvq"][e] # b
    BY <1>4, <1>9 DEF RxInv
  <2> QED
    BY <1>2, <1>5, <1>6, <1>8, <2>1, Sizes DEF CountAt
<1>12. hdr[b].held # 1 => CountAt(d)'
  BY <1>4, <1>5, <1>6, <1>8, <1>10 DEF CountAt, HeldUnder
<1>13. \A x \in RxBufs : holds[x] > 0 => \E e \in here'["rvq"] : addr["rvq"][e] = x
  <2> SUFFICES ASSUME NEW x \in RxBufs, holds[x] > 0 PROVE \E e \in here'["rvq"] : addr["rvq"][e] = x
    OBVIOUS
  <2>1. PICK e \in here["rvq"] : addr["rvq"][e] = x
    BY DEF RxInv
  <2>2. CASE x = b
    BY <1>4, <1>5, <1>10, <2>1, <2>2
  <2>3. CASE x # b
    BY <1>4, <1>5, <2>1, <2>3 DEF HeldUnder
  <2> QED
    BY <2>2, <2>3
<1>14. \A x \in TxBufs : hdr'[x] = hdr[x]
  BY <1>5, Sizes
<1> HIDE DEF CountAt, HeldUnder
<1>15. RxInv'
  BY <1>5, <1>6, <1>11, <1>12, <1>13 DEF RxInv
<1> QED
  BY <1>5, <1>7, <1>14, <1>15

\* rpmsg_hold_rx_buffer.
LEMMA HoldRxRx ==
  ASSUME QueueInv, CallTypes, RxInv, NEW c \in Contexts, NEW b \in RxBufs, HoldRx(c, b)
  PROVE  /\ RxInv' /\ CallTypes' /\ UNCHANGED <<queueVars, pc, buf, idx, owned, reclaimer>>
         /\ \A x \in TxBufs : hdr'[x] = hdr[x]
<1>1. holds[b] > 0 \/ Dispatching(b)
  BY DEF HoldRx, CanCall, Dispatching
<1>2. PICK d \in Desc : d = hdr[b].idx
  BY Sizes DEF CallTypes
<1>3. /\ HeldUnder(b, d) /\ hdr[b].held > 0
      /\ hdr[b].held = holds[b] + (IF Dispatching(b) THEN 1 ELSE 0)
      /\ \A e \in here["rvq"] : addr["rvq"][e] = b => e = d
  BY <1>1, <1>2, HeldIndex
<1>4. /\ holds[b] < MaxHolds /\ holds' = [holds EXCEPT ![b] = holds[b] + 1]
      /\ hdr' = [hdr EXCEPT ![b] = [hdr[b] EXCEPT !.held = hdr[b].held + 1]]
      /\ UNCHANGED <<queueVars, here, addr, reclaimer, kick, pc, op, ticks, buf, idx, owned, rx>>
  BY DEF HoldRx, callVars, queueVars
<1>5. /\ holds[b] \in 0 .. MaxHolds /\ hdr[b].held \in Nat /\ b \in Buffers
      /\ hdr[b] \in [idx : Desc, held : 0 .. MaxHolds + 1]
  BY Sizes DEF CallTypes
<1>6. hdr[b].held + 1 \in 0 .. MaxHolds + 1 /\ holds[b] + 1 \in 0 .. MaxHolds
  BY <1>3, <1>4, <1>5, Sizes
<1>7. /\ hdr' \in [Buffers -> [idx : Desc, held : 0 .. MaxHolds + 1]]
      /\ hdr'[b].idx = d /\ hdr'[b].held = hdr[b].held + 1
      /\ \A x \in Buffers : x # b => hdr'[x] = hdr[x]
  BY <1>2, <1>4, <1>5, <1>6 DEF CallTypes
<1>8. /\ holds' \in [RxBufs -> 0 .. MaxHolds] /\ holds'[b] = holds[b] + 1
      /\ \A x \in RxBufs : x # b => holds'[x] = holds[x]
  BY <1>4, <1>6 DEF CallTypes
<1>9. CallTypes'
  BY <1>4, <1>7, <1>8 DEF CallTypes
<1>10. \A x : Dispatching(x)' <=> Dispatching(x)
  BY <1>4 DEF Dispatching
<1>11. \A e \in here["rvq"] : addr["rvq"][e] \in RxBufs
  BY Sizes, HereFacts
<1>12. ASSUME NEW e \in here["rvq"], e # d PROVE CountAt(e)'
  <2>1. CountAt(e)
    BY DEF RxInv
  <2>2. PICK x \in RxBufs : x = addr["rvq"][e]
    BY <1>11
  <2>3. x # b /\ addr'["rvq"][e] = x /\ hdr'[x] = hdr[x] /\ holds'[x] = holds[x]
    BY <1>3, <1>4, <1>7, <1>8, <1>12, <2>2, Sizes
  <2> QED
    BY <1>4, <1>10, <2>1, <2>2, <2>3 DEF CountAt
<1>13. CountAt(d)'
  <2>1. addr'["rvq"][d] = b
    BY <1>3, <1>4 DEF HeldUnder
  <2>2. hdr'[b].held > 0 /\ hdr'[b].held = holds'[b] + (IF Dispatching(b) THEN 1 ELSE 0)
    BY <1>3, <1>5, <1>7, <1>8
  <2> QED
    BY <1>7, <1>10, <2>1, <2>2 DEF CountAt
<1>14. \A x \in RxBufs : holds'[x] > 0 => \E e \in here["rvq"] : addr["rvq"][e] = x
  BY <1>3, <1>8 DEF RxInv, HeldUnder
<1>15. rx.at = "got" => rx.buf # b
  BY <1>1, <1>5 DEF RxInv, Dispatching
<1>16. \A x : \A e \in Desc : HeldUnder(x, e)' <=> HeldUnder(x, e)
  BY <1>4 DEF HeldUnder
<1>17. \A x \in TxBufs : hdr'[x] = hdr[x]
  BY <1>7, Sizes
<1>18. \A e \in here["rvq"] : CountAt(e)'
  BY <1>12, <1>13
<1>19. rx.at = "got" => rx.idx \in Desc
  BY DEF CallTypes
<1> HIDE DEF CountAt, HeldUnder
<1>20. RxInv'
  <2>1. rx' = rx /\ here' = here /\ addr' = addr
    BY <1>4
  <2>2. rx.at = "got" => rx.buf \in RxBufs /\ HeldUnder(rx.buf, rx.idx) /\ holds'[rx.buf] = 0
    BY <1>8, <1>15 DEF RxInv
  <2> QED
    BY <1>14, <1>16, <1>18, <1>19, <2>1, <2>2 DEF RxInv
<1> QED
  BY <1>4, <1>9, <1>17, <1>20

\* rpmsg_release_rx_buffer.
LEMMA ReleaseRxRx ==
  ASSUME QueueTypes, QueueInv, CallTypes, RxInv, NEW c \in Contexts, NEW b \in RxBufs,
         ReleaseRx(c, b)
  PROVE  /\ RxInv' /\ CallTypes' /\ QueueTypes' /\ QueueInv'
         /\ addr' = addr /\ here'["svq"] = here["svq"]
         /\ \A x \in TxBufs : hdr'[x] = hdr[x]
<1>1. holds[b] > 0 /\ ReleaseHold(b)
  BY DEF ReleaseRx
<1>2. PICK d \in Desc : d = hdr[b].idx
  BY Sizes DEF CallTypes
<1>3. /\ HeldUnder(b, d) /\ hdr[b].held > 0
      /\ hdr[b].held = holds[b] + (IF Dispatching(b) THEN 1 ELSE 0)
      /\ \A e \in here["rvq"] : addr["rvq"][e] = b => e = d
  BY <1>1, <1>2, HeldIndex
<1>4. /\ QueueTypes' /\ QueueInv' /\ addr' = addr /\ here'["svq"] = here["svq"]
      /\ hdr' \in [Buffers -> [idx : Desc, held : 0 .. MaxHolds + 1]]
      /\ \A x \in Buffers : x # b => hdr'[x] = hdr[x]
      /\ hdr'[b].idx = d /\ hdr'[b].held = hdr[b].held - 1
      /\ here'["rvq"] = IF hdr[b].held = 1 THEN here["rvq"] \ {d} ELSE here["rvq"]
  BY <1>1, <1>2, <1>3, ReleaseHoldStep
<1>5. /\ holds' = [holds EXCEPT ![b] = holds[b] - 1]
      /\ UNCHANGED <<reclaimer, kick, pc, op, ticks, buf, idx, owned, rx>>
  BY DEF ReleaseRx, callVars
<1>6. holds[b] \in 0 .. MaxHolds /\ holds[b] - 1 \in 0 .. MaxHolds
  BY <1>1, Sizes DEF CallTypes
<1>7. /\ holds' \in [RxBufs -> 0 .. MaxHolds] /\ holds'[b] = holds[b] - 1
      /\ \A x \in RxBufs : x # b => holds'[x] = holds[x]
  BY <1>5, <1>6 DEF CallTypes
<1>8. CallTypes'
  BY <1>4, <1>5, <1>7 DEF CallTypes
<1>10. \A x : Dispatching(x)' <=> Dispatching(x)
  BY <1>5 DEF Dispatching
<1>11. \A e \in here["rvq"] : addr["rvq"][e] \in RxBufs
  BY Sizes, HereFacts
<1>12. ASSUME NEW e \in here["rvq"], e # d PROVE CountAt(e)'
  <2>1. CountAt(e)
    BY DEF RxInv
  <2>2. PICK x \in RxBufs : x = addr["rvq"][e]
    BY <1>11
  <2>3. x # b /\ addr'["rvq"][e] = x /\ hdr'[x] = hdr[x] /\ holds'[x] = holds[x]
    BY <1>3, <1>4, <1>7, <1>12, <2>2, Sizes
  <2> QED
    BY <1>5, <1>10, <2>1, <2>2, <2>3 DEF CountAt
<1>13. hdr[b].held # 1 => CountAt(d)'
  <2>0. ASSUME hdr[b].held # 1 PROVE CountAt(d)'
    <3>1. addr'["rvq"][d] = b
      BY <1>3, <1>4 DEF HeldUnder
    <3>2. hdr'[b].held > 0 /\ hdr'[b].held = holds'[b] + (IF Dispatching(b) THEN 1 ELSE 0)
      BY <1>3, <1>4, <1>6, <1>7, <2>0
    <3> QED
      BY <1>4, <1>10, <3>1, <3>2 DEF CountAt
  <2> QED
    BY <2>0
<1>14. hdr[b].held = 1 => holds'[b] = 0 /\ ~Dispatching(b)
  BY <1>1, <1>3, <1>6, <1>7
<1>15. \A x \in RxBufs : holds'[x] > 0 => \E e \in here'["rvq"] : addr["rvq"][e] = x
  <2> SUFFICES ASSUME NEW x \in RxBufs, holds'[x] > 0
               PROVE  \E e \in here'["rvq"] : addr["rvq"][e] = x
    OBVIOUS
  <2>1. holds[x] > 0
    BY <1>1, <1>7
  <2>2. PICK e \in here["rvq"] : addr["rvq"][e] = x
    BY <2>1 DEF RxInv
  <2>3. CASE x = b
    BY <1>4, <1>14, <2>2, <2>3
  <2>4. CASE x # b
    BY <1>3, <1>4, <2>2, <2>4 DEF HeldUnder
  <2> QED
    BY <2>3, <2>4
<1>16. rx.at = "got" => rx.buf # b
  BY <1>1, <1>6 DEF RxInv
<1>17. \A x \in RxBufs : \A e \in Desc : HeldUnder(x, e) /\ (x # b \/ hdr[b].held # 1) => HeldUnder(x, e)'
  BY <1>3, <1>4 DEF HeldUnder
<1>18. \A e \in here'["rvq"] : CountAt(e)'
  BY <1>4, <1>12, <1>13
<1>19. \A x \in TxBufs : hdr'[x] = hdr[x]
  BY <1>4, Sizes
<1>20. RxInv'
  <2>1. rx' = rx /\ addr' = addr /\ rx.idx \in Desc
    BY <1>4, <1>5 DEF CallTypes
  <2>2. rx.at = "got" => rx.buf \in RxBufs /\ HeldUnder(rx.buf, rx.idx)' /\ holds'[rx.buf] = 0
    <3>1. rx.at = "got" => rx.buf \in RxBufs /\ HeldUnder(rx.buf, rx.idx) /\ holds'[rx.buf] = 0
      BY <1>7, <1>16 DEF RxInv
    <3> QED
      BY <1>3, <1>4, <1>5, <1>16, <2>1, <3>1 DEF HeldUnder
  <2>3. rx.at \in {"callback", "finish"} => rx.buf \in RxBufs /\ \E e \in Desc : HeldUnder(rx.buf, e)'
    <3>1. ASSUME rx.at \in {"callback", "finish"}
          PROVE  rx.buf \in RxBufs /\ \E e \in Desc : HeldUnder(rx.buf, e)'
      <4>1. PICK x \in RxBufs, e \in Desc : x = rx.buf /\ HeldUnder(x, e)
        BY <3>1 DEF RxInv
      <4>2. x # b \/ hdr[b].held # 1
        BY <1>14, <3>1, <4>1 DEF Dispatching
      <4>3. HeldUnder(x, e)'
        BY <1>17, <4>1, <4>2
      <4> QED
        BY <2>1, <4>1, <4>3 DEF HeldUnder
    <3> QED
      BY <3>1
  <2> HIDE DEF CountAt
  <2> QED
    BY <1>15, <1>18, <2>1, <2>2, <2>3 DEF RxInv, HeldUnder
<1> QED
  BY <1>4, <1>8, <1>19, <1>20

-----------------------------------------------------------------------------
(***************************************************************************)
(* The host, and the invariant.                                            *)
(***************************************************************************)
\* The host lends a buffer: nothing at the device changes, and the header it
\* clears is of a buffer that nobody has.
LEMMA HostLendStep ==
  ASSUME QueueTypes, QueueInv, CallTypes, TxInv, RxInv,
         NEW q \in Queue, NEW d \in Desc, NEW b \in Bufs(q), HostLend(q, d, b)
  PROVE  QueueTypes' /\ QueueInv' /\ CallTypes' /\ TxInv' /\ RxInv'
<1>1. /\ QueueTypes' /\ QueueInv' /\ here' = here /\ d \notin here[q]
      /\ addr' = [addr EXCEPT ![q] = [addr[q] EXCEPT ![d] = b]]
  BY LendStep
<1>2. /\ UNCHANGED <<reclaimer, pc, op, ticks, buf, idx, owned, holds, rx>>
      /\ hdr' = IF q = "rvq" THEN [hdr EXCEPT ![b] = [idx |-> 0, held |-> 0]] ELSE hdr
      /\ kick' \in {kick, "due"} /\ \A e \in Desc \ pool[q] : addr[q][e] # b
  BY DEF HostLend, callVars
<1>3. b \in Buffers
  BY Sizes DEF Bufs, Buffers
<1>4. hdr' \in [Buffers -> [idx : Desc, held : 0 .. MaxHolds + 1]]
  BY <1>2, <1>3, Sizes DEF CallTypes
<1>5. CallTypes'
  BY <1>2, <1>4 DEF CallTypes
<1>6. \A r \in Queue : \A e \in here[r] : addr'[r][e] = addr[r][e]
  BY <1>1 DEF QueueTypes
<1>7. \A x \in TxBufs : hdr'[x] = hdr[x]
  BY <1>2, Sizes DEF CallTypes
<1>8. TxInv'
  BY <1>1, <1>2, <1>6, <1>7, Sizes, TxFrame
<1>9. RxInv'
  <2>1. CASE q = "svq"
    BY <1>1, <1>2, <1>6, <2>1, Sizes, RxFrame
  <2>2. CASE q = "rvq"
    <3>1. \A e \in here["rvq"] : addr["rvq"][e] \in RxBufs /\ addr["rvq"][e] # b
      BY <1>2, <2>2, Sizes, HereFacts
    <3>2. \A x \in Buffers : x # b => hdr'[x] = hdr[x]
      BY <1>2, <1>3 DEF CallTypes
    <3>3. ASSUME NEW e \in here["rvq"] PROVE CountAt(e)'
      <4>1. CountAt(e) /\ addr'["rvq"][e] = addr["rvq"][e]
        BY <1>6, Sizes DEF RxInv
      <4>2. PICK x \in RxBufs : x = addr["rvq"][e] /\ hdr'[x] = hdr[x]
        BY <3>1, <3>2, Sizes
      <4> QED
        BY <1>2, <4>1, <4>2 DEF CountAt, Dispatching
    <3>4. \A x : \A e : HeldUnder(x, e)' <=> HeldUnder(x, e)
      BY <1>1, <1>6, Sizes DEF HeldUnder
    <3>5. \A e \in here["rvq"] : addr'["rvq"][e] = addr["rvq"][e]
      BY <1>6, Sizes
    <3>6. here' = here /\ rx' = rx /\ holds' = holds
      BY <1>1, <1>2
    <3> HIDE DEF CountAt, HeldUnder
    <3> QED
      BY <3>3, <3>4, <3>5, <3>6 DEF RxInv
  <2> QED
    BY <2>1, <2>2 DEF Queue
<1> QED
  BY <1>1, <1>5, <1>8, <1>9

\* Every step keeps the invariant.
LEMMA RvStep ==
  ASSUME QueueTypes, QueueInv, CallTypes, TxInv, RxInv, [Next]_vars
  PROVE  QueueTypes' /\ QueueInv' /\ CallTypes' /\ TxInv' /\ RxInv'
<1>1. ASSUME NEW c \in Contexts, ContextStep(c)
      PROVE  QueueTypes' /\ QueueInv' /\ CallTypes' /\ TxInv' /\ RxInv'
  <2>1. CASE GetReclaimed(c)
    <3>1. UNCHANGED <<queueVars, here, addr, hdr, rx, holds>>
      BY <2>1 DEF GetReclaimed, queueVars
    <3>2. QueueTypes' /\ QueueInv'
      BY <3>1, QueueUnchanged
    <3>3. RxInv'
      BY <3>1, RxFrame
    <3> QED
      BY <2>1, <3>2, <3>3, GetReclaimedTx
  <2>2. CASE GetAvailable(c)
    <3>1. Take("svq") /\ UNCHANGED <<addr, hdr, rx, holds>>
      BY <2>2 DEF GetAvailable, Take
    <3>2. /\ QueueTypes' /\ QueueInv'
          /\ here' = [here EXCEPT !["svq"] = here["svq"] \cup {Head(offered["svq"])}]
      BY <3>1, Sizes, TakeStep
    <3>3. here'["rvq"] = here["rvq"]
      BY <3>2 DEF QueueTypes
    <3>4. RxInv'
      BY <3>1, <3>3, RxFrame
    <3> QED
      BY <2>2, <3>2, <3>4, GetAvailableTx
  <2>3. CASE GetNothing(c)
    <3>1. TxInv' /\ CallTypes' /\ UNCHANGED <<queueVars, hdr, rx, holds>>
      BY <2>3, NoBufferTx
    <3>2. UNCHANGED <<here, addr>>
      BY <3>1 DEF queueVars
    <3>3. QueueTypes' /\ QueueInv'
      BY <3>1, QueueUnchanged
    <3>4. RxInv'
      BY <3>1, <3>2, RxFrame
    <3> QED
      BY <3>1, <3>3, <3>4
  <2>4. CASE Stamp(c) \/ WriteHeader(c)
    <3>1. UNCHANGED <<queueVars, here, addr, rx, holds>>
      BY <2>4 DEF Stamp, WriteHeader, queueVars
    <3>2. buf[c] \in TxBufs
      BY <2>4 DEF TxInv, InHand, Stamp, WriteHeader
    <3>3. \A x \in RxBufs : hdr'[x] = hdr[x]
      BY <2>4, <3>2, Sizes DEF Stamp, WriteHeader, CallTypes
    <3>4. QueueTypes' /\ QueueInv'
      BY <3>1, QueueUnchanged
    <3>5. RxInv'
      BY <3>1, <3>3, RxFrame
    <3> QED
      BY <2>4, <3>4, <3>5, StampTx, WriteHeaderTx
  <2>5. CASE Enqueue(c)
    <3>1. TxInv' /\ CallTypes' /\ idx[c] \in here["svq"]
      BY <2>5, EnqueueTx
    <3>2. HandBack("svq", idx[c]) /\ UNCHANGED <<addr, hdr, rx, holds>>
      BY <2>5 DEF Enqueue, HandBack
    <3>3. /\ QueueTypes' /\ QueueInv'
          /\ here' = [here EXCEPT !["svq"] = here["svq"] \ {idx[c]}]
      BY <3>1, <3>2, Sizes, HandBackStep
    <3>4. here'["rvq"] = here["rvq"]
      BY <3>3 DEF QueueTypes
    <3>5. RxInv'
      BY <3>2, <3>4, RxFrame
    <3> QED
      BY <3>1, <3>3, <3>5
  <2> QED
    BY <1>1, <2>1, <2>2, <2>3, <2>4, <2>5 DEF ContextStep
<1>2. ASSUME NEW c \in Contexts, NEW t \in {0, MaxTicks}, CallSend(c, t) \/ CallPayload(c, t)
      PROVE  QueueTypes' /\ QueueInv' /\ CallTypes' /\ TxInv' /\ RxInv'
  <2>1. TxInv' /\ CallTypes' /\ UNCHANGED <<queueVars, hdr, rx, holds>>
    BY <1>2, NoBufferTx
  <2>2. UNCHANGED <<here, addr>>
    BY <2>1 DEF queueVars
  <2>3. QueueTypes' /\ QueueInv'
    BY <2>1, QueueUnchanged
  <2>4. RxInv'
    BY <2>1, <2>2, RxFrame
  <2> QED
    BY <2>1, <2>3, <2>4
<1>3. ASSUME NEW c \in Contexts, NEW b \in TxBufs, CallNocopy(c, b) \/ ReleaseTx(c, b)
      PROVE  QueueTypes' /\ QueueInv' /\ CallTypes' /\ TxInv' /\ RxInv'
  <2>1. UNCHANGED <<queueVars, here, addr, rx, holds>>
    BY <1>3 DEF CallNocopy, ReleaseTx, queueVars
  <2>2. TxInv' /\ CallTypes' /\ \A x \in RxBufs : hdr'[x] = hdr[x]
    <3>1. CASE CallNocopy(c, b)
      BY <3>1, CallNocopyTx DEF CallNocopy
    <3>2. CASE ReleaseTx(c, b)
      BY <3>2, ReleaseTxTx
    <3> QED
      BY <1>3, <3>1, <3>2
  <2>3. QueueTypes' /\ QueueInv'
    BY <2>1, QueueUnchanged
  <2>4. RxInv'
    BY <2>1, <2>2, RxFrame
  <2> QED
    BY <2>2, <2>3, <2>4
<1>4. ASSUME NEW c \in Contexts, NEW b \in RxBufs, HoldRx(c, b)
      PROVE  QueueTypes' /\ QueueInv' /\ CallTypes' /\ TxInv' /\ RxInv'
  <2>1. /\ RxInv' /\ CallTypes' /\ UNCHANGED <<queueVars, pc, buf, idx, owned, reclaimer>>
        /\ \A x \in TxBufs : hdr'[x] = hdr[x]
    BY <1>4, HoldRxRx
  <2>2. UNCHANGED <<here, addr>>
    BY <2>1 DEF queueVars
  <2>3. QueueTypes' /\ QueueInv'
    BY <2>1, QueueUnchanged
  <2>4. TxInv'
    BY <2>1, <2>2, TxFrame
  <2> QED
    BY <2>1, <2>3, <2>4
<1>5. ASSUME NEW c \in Contexts, NEW b \in RxBufs, ReleaseRx(c, b)
      PROVE  QueueTypes' /\ QueueInv' /\ CallTypes' /\ TxInv' /\ RxInv'
  <2>1. /\ RxInv' /\ CallTypes' /\ QueueTypes' /\ QueueInv'
        /\ addr' = addr /\ here'["svq"] = here["svq"]
        /\ \A x \in TxBufs : hdr'[x] = hdr[x]
    BY <1>5, ReleaseRxRx
  <2>2. UNCHANGED <<pc, buf, idx, owned, reclaimer>>
    BY <1>5 DEF ReleaseRx, callVars
  <2>3. TxInv'
    BY <2>1, <2>2, TxFrame
  <2> QED
    BY <2>1, <2>3
<1>6. CASE RxNotified \/ RxDone \/ RxReturn
  <2>1. RxInv' /\ CallTypes' /\ UNCHANGED <<queueVars, hdr, pc, buf, idx, owned, reclaimer>>
    BY <1>6, RxMoves
  <2>2. UNCHANGED <<here, addr>>
    BY <2>1 DEF queueVars
  <2>3. QueueTypes' /\ QueueInv'
    BY <2>1, QueueUnchanged
  <2>4. TxInv'
    BY <2>1, <2>2, TxFrame
  <2> QED
    BY <2>1, <2>3, <2>4
<1>7. CASE RxGet
  <2>1. RxInv' /\ CallTypes' /\ here'["svq"] = here["svq"]
    BY <1>7, RxGetRx
  <2>2. Take("rvq") /\ UNCHANGED <<addr, hdr, pc, buf, idx, owned, reclaimer>>
    BY <1>7 DEF RxGet, Take, callVars
  <2>3. QueueTypes' /\ QueueInv'
    BY <2>2, Sizes, TakeStep
  <2>4. TxInv'
    BY <2>1, <2>2, TxFrame
  <2> QED
    BY <2>1, <2>3, <2>4
<1>8. CASE RxDispatch
  <2>1. RxInv' /\ CallTypes' /\ \A x \in TxBufs : hdr'[x] = hdr[x]
    BY <1>8, RxDispatchRx
  <2>2. UNCHANGED <<queueVars, here, addr, pc, buf, idx, owned, reclaimer>>
    BY <1>8 DEF RxDispatch, callVars, queueVars
  <2>3. QueueTypes' /\ QueueInv'
    BY <2>2, QueueUnchanged
  <2>4. TxInv'
    BY <2>1, <2>2, TxFrame
  <2> QED
    BY <2>1, <2>3, <2>4
<1>9. CASE RxFinish
  <2>1. /\ RxInv' /\ CallTypes' /\ QueueTypes' /\ QueueInv'
        /\ addr' = addr /\ here'["svq"] = here["svq"]
        /\ \A x \in TxBufs : hdr'[x] = hdr[x]
    BY <1>9, RxFinishRx
  <2>2. UNCHANGED <<pc, buf, idx, owned, reclaimer>>
    BY <1>9 DEF RxFinish, callVars
  <2>3. TxInv'
    BY <2>1, <2>2, TxFrame
  <2> QED
    BY <2>1, <2>3
<1>10. ASSUME NEW q \in Queue, NEW d \in Desc, NEW b \in Bufs(q), HostLend(q, d, b)
       PROVE  QueueTypes' /\ QueueInv' /\ CallTypes' /\ TxInv' /\ RxInv'
  BY <1>10, HostLendStep
<1>11. ASSUME NEW q \in Queue, HostReclaim(q)
       PROVE  QueueTypes' /\ QueueInv' /\ CallTypes' /\ TxInv' /\ RxInv'
  <2>1. /\ QueueTypes' /\ QueueInv' /\ here' = here /\ Head(used[q]) \notin here[q]
        /\ addr' = [addr EXCEPT ![q] = [addr[q] EXCEPT ![Head(used[q])] = NoBuf]]
    BY <1>11, ReclaimStep
  <2>2. UNCHANGED <<hdr, reclaimer, kick, pc, op, ticks, buf, idx, owned, holds, rx>>
    BY <1>11 DEF HostReclaim, callVars
  <2>3. \A r \in Queue : \A e \in here[r] : addr'[r][e] = addr[r][e]
    BY <2>1 DEF QueueTypes
  <2>4. TxInv'
    BY <2>1, <2>2, <2>3, Sizes, TxFrame
  <2>5. RxInv'
    BY <2>1, <2>2, <2>3, Sizes, RxFrame
  <2>6. CallTypes'
    BY <2>2 DEF CallTypes
  <2> QED
    BY <2>1, <2>4, <2>5, <2>6
<1>12. CASE HostKick \/ HostStops \/ UNCHANGED vars
  <2>1. /\ UNCHANGED <<queueVars, hdr, reclaimer, pc, op, ticks, buf, idx, owned, holds, rx>>
        /\ kick' \in {kick, "sent"}
    BY <1>12 DEF HostKick, HostStops, vars, callVars
  <2>2. UNCHANGED <<here, addr>>
    BY <2>1 DEF queueVars
  <2>3. QueueTypes' /\ QueueInv'
    BY <2>1, QueueUnchanged
  <2>4. TxInv'
    BY <2>1, <2>2, TxFrame
  <2>5. RxInv'
    BY <2>1, <2>2, RxFrame
  <2>6. CallTypes'
    BY <2>1 DEF CallTypes
  <2> QED
    BY <2>3, <2>4, <2>5, <2>6
<1> QED
  BY <1>1, <1>2, <1>3, <1>4, <1>5, <1>6, <1>7, <1>8, <1>9, <1>10, <1>11, <1>12 DEF Next

\* rpmsg_virtio_init_vdev leaves everything with the host.
LEMMA RvInit == Init => RvInv
<1> SUFFICES ASSUME Init PROVE RvInv
  OBVIOUS
<1>1. \A q \in Queue : pool[q] = Desc /\ offered[q] = <<>> /\ here[q] = {} /\ used[q] = <<>>
                       /\ addr[q] = [d \in Desc |-> NoBuf]
  BY DEF Init
<1>2. <<>> \in Seq(Desc) /\ <<>> \in Seq(TxBufs) /\ Len(<<>>) = 0 /\ DOMAIN <<>> = {}
  OBVIOUS
<1>3. Distinct(<<>>) /\ ToSet(<<>>) = {}
  BY <1>2 DEF Distinct, ToSet
<1>4. \A q \in Queue : QueueAt(pool[q], offered[q], here[q], used[q], addr[q], Bufs(q))
  BY <1>1, <1>2, <1>3 DEF QueueAt
<1>5. QueueTypes
  BY <1>2 DEF Init, QueueTypes
<1>6. CallTypes
  BY <1>2, Sizes DEF Init, CallTypes
<1>7. driver_ok \in BOOLEAN
  BY DEF Init
<1>8. TxInv
  BY <1>1, <1>3, Sizes DEF Init, TxInv, InHand
<1>9. RxInv
  BY <1>1, Sizes DEF Init, RxInv
<1> QED
  BY <1>4, <1>5, <1>6, <1>7, <1>8, <1>9, TypeParts DEF RvInv, QueueInv

\* The inductive invariant holds in every reachable state.
THEOREM BuffersInvariant == Spec => []RvInv
<1>1. RvInv /\ [Next]_vars => RvInv'
  <2> SUFFICES ASSUME RvInv, [Next]_vars PROVE RvInv'
    OBVIOUS
  <2>1. QueueTypes /\ QueueInv /\ CallTypes /\ TxInv /\ RxInv /\ driver_ok \in BOOLEAN
    BY TypeParts DEF RvInv
  <2>2. QueueTypes' /\ QueueInv' /\ CallTypes' /\ TxInv' /\ RxInv'
    BY <2>1, RvStep
  <2>3. driver_ok' \in BOOLEAN
    BY <2>1, Zenon DEF Next, vars, ContextStep, GetReclaimed, GetAvailable, GetNothing, Stamp,
         WriteHeader, Enqueue, CallSend, CallPayload, CallTx, CallNocopy, ReleaseTx, HoldRx,
         ReleaseRx, RxNotified, RxGet, RxDone, RxDispatch, RxReturn, RxFinish, HostLend,
         HostReclaim, HostKick, HostStops
  <2>4. TypeOK'
    BY <2>2, <2>3 DEF TypeOK, QueueTypes, CallTypes
  <2> QED
    BY <2>2, <2>4 DEF RvInv
<1> QED
  BY RvInit, <1>1, PTL DEF Spec

\* However sends, payload requests, releases and the host interleave, each
\* transmit buffer of svq is in one pair of hands and is returned under the
\* descriptor that points to it.
THEOREM TransmitAccounted == Spec => []TxAccounted
<1>1. RvInv => TxAccounted
  <2> SUFFICES ASSUME RvInv PROVE TxAccounted
    OBVIOUS
  <2>1. TypeOK /\ QueueInv /\ TxInv /\ CallTypes
    BY TypeParts DEF RvInv
  <2>2. Carrying = {c \in Contexts : InHand(c)}
    BY DEF Carrying, InHand
  <2>3. /\ \A c, d \in Carrying : c # d => buf[c] # buf[d]
        /\ \A c \in Carrying : buf[c] \notin Parked /\ addr["svq"][Carried(c)] = buf[c]
        /\ owned \cap ToSet(reclaimer) = {}
    BY <2>1, <2>2 DEF TxInv, Parked
  <2>4. \A b \in Parked : addr["svq"][hdr[b].idx] = b
    BY <2>1 DEF TxInv, Parked, IndexKept
  <2>5. IsInjective(reclaimer)
    <3>1. DOMAIN reclaimer = 1 .. Len(reclaimer)
      BY <2>1, LenProperties DEF CallTypes
    <3> QED
      BY <2>1, <3>1 DEF TxInv, Distinct, IsInjective
  <2>6. {addr["svq"][d] : d \in here["svq"]} \subseteq Parked \cup {buf[c] : c \in Carrying}
    BY <2>1, <2>2 DEF TxInv, Parked
  <2>7. Parked \cup {buf[c] : c \in Carrying} \subseteq {addr["svq"][d] : d \in here["svq"]}
    <3>1. \A b \in Parked : \E d \in here["svq"] : addr["svq"][d] = b
      BY <2>1 DEF TxInv, Parked, IndexKept
    <3>2. \A c \in Carrying : \E d \in here["svq"] : addr["svq"][d] = buf[c]
      BY <2>1, <2>2 DEF TxInv
    <3> QED
      BY <3>1, <3>2
  <2> QED
    BY <2>1, <2>3, <2>4, <2>5, <2>6, <2>7 DEF TxAccounted
<1> QED
  BY BuffersInvariant, <1>1, PTL

\* However holds and releases of clients fall into the dispatcher's own, the
\* count in a received buffer is right: it goes back to the host with the last
\* hold and no earlier.
THEOREM HoldsMatch == Spec => []HeldMatches
<1>1. RvInv => HeldMatches
  BY DEF RvInv, RxInv, HeldMatches, CountAt
<1> QED
  BY BuffersInvariant, <1>1, PTL

-----------------------------------------------------------------------------
(***************************************************************************)
(* The contract of the virtqueues.                                         *)
(***************************************************************************)
\* While a descriptor is free, fewer than all of them are lent.
LEMMA QueueRoom ==
  ASSUME NEW P, NEW O, NEW H, NEW U, NEW A, NEW B, QueueAt(P, O, H, U, A, B), NEW d \in P
  PROVE  Len(O) + Cardinality(H) + Len(U) < Cardinality(Desc)
<1>1. /\ O \in Seq(Desc) /\ Distinct(O) /\ U \in Seq(Desc) /\ Distinct(U)
      /\ H \in SUBSET Desc /\ IsFiniteSet(Desc) /\ d \in Desc
  BY SetAssumption DEF QueueAt
<1>2. IsFiniteSet(ToSet(O)) /\ Cardinality(ToSet(O)) = Len(O) /\ Len(O) \in Nat
  BY <1>1, DistinctCard
<1>3. IsFiniteSet(ToSet(U)) /\ Cardinality(ToSet(U)) = Len(U) /\ Len(U) \in Nat
  BY <1>1, DistinctCard
<1>4. IsFiniteSet(H)
  BY <1>1, FS_Subset
<1>5. ToSet(O) \cap H = {} /\ (ToSet(O) \cup H) \cap ToSet(U) = {}
  BY DEF QueueAt
<1>6. /\ IsFiniteSet(ToSet(O) \cup H) /\ Cardinality(H) \in Nat
      /\ Cardinality(ToSet(O) \cup H) = Len(O) + Cardinality(H)
  BY <1>2, <1>4, <1>5, DisjointCard
<1>7. /\ IsFiniteSet((ToSet(O) \cup H) \cup ToSet(U))
      /\ Cardinality((ToSet(O) \cup H) \cup ToSet(U)) = Len(O) + Cardinality(H) + Len(U)
  <2>1. /\ IsFiniteSet((ToSet(O) \cup H) \cup ToSet(U))
        /\ Cardinality((ToSet(O) \cup H) \cup ToSet(U))
             = Cardinality(ToSet(O) \cup H) + Cardinality(ToSet(U))
    BY <1>3, <1>5, <1>6, DisjointCard
  <2> QED
    BY <1>2, <1>3, <1>6, <2>1
<1>8. ToSet(O) \subseteq Desc /\ ToSet(U) \subseteq Desc
  <2>1. /\ DOMAIN O = 1 .. Len(O) /\ \A i \in 1 .. Len(O) : O[i] \in Desc
        /\ DOMAIN U = 1 .. Len(U) /\ \A i \in 1 .. Len(U) : U[i] \in Desc
    BY <1>1, LenProperties, ElementOfSeq
  <2> QED
    BY <2>1 DEF ToSet
<1>9. (ToSet(O) \cup H) \cup ToSet(U) \in SUBSET (Desc \ {d})
  BY <1>1, <1>8 DEF QueueAt
<1>10. /\ IsFiniteSet(Desc \ {d}) /\ Cardinality(Desc \ {d}) = Cardinality(Desc) - 1
       /\ Cardinality(Desc) \in Nat
  BY <1>1, FS_RemoveElement, FS_CardinalityType
<1>11. Cardinality((ToSet(O) \cup H) \cup ToSet(U)) <= Cardinality(Desc \ {d})
  BY <1>9, <1>10, FS_Subset
<1> QED
  BY <1>2, <1>3, <1>6, <1>7, <1>10, <1>11

\* What a step can do to queue q: the four operations of a virtqueue.
QueueMove(q) ==
  \/ UNCHANGED <<pool[q], offered[q], here[q], used[q]>>
  \/ \E d \in Desc :
       /\ d \in pool[q] /\ pool'[q] = pool[q] \ {d} /\ offered'[q] = Append(offered[q], d)
       /\ Len(offered[q]) + Cardinality(here[q]) + Len(used[q]) < Cardinality(Desc)
       /\ UNCHANGED <<here[q], used[q]>>
  \/ \E d \in Desc :
       /\ d \in here[q] /\ here'[q] = here[q] \ {d} /\ used'[q] = Append(used[q], d)
       /\ UNCHANGED <<pool[q], offered[q]>>
  \/ /\ offered[q] # <<>> /\ here'[q] = here[q] \cup {Head(offered[q])}
     /\ offered'[q] = Tail(offered[q]) /\ UNCHANGED <<pool[q], used[q]>>
  \/ /\ used[q] # <<>> /\ pool'[q] = pool[q] \cup {Head(used[q])}
     /\ used'[q] = Tail(used[q]) /\ UNCHANGED <<offered[q], here[q]>>

\* The operations on one queue, seen from either.
LEMMA QueueMoves ==
  ASSUME QueueTypes, QueueInv, NEW q \in Queue, NEW r \in Queue
  PROVE  /\ UNCHANGED queueVars => QueueMove(q)
         /\ Take(r) => QueueMove(q)
         /\ \A d \in here[r] : HandBack(r, d) => QueueMove(q)
         /\ HostReclaim(r) => QueueMove(q)
         /\ \A d \in Desc : \A b \in Bufs(r) : HostLend(r, d, b) => QueueMove(q)
<1>1. UNCHANGED queueVars => QueueMove(q)
  BY DEF queueVars, QueueMove
<1>2. ASSUME Take(r) PROVE QueueMove(q)
  <2>1. CASE q = r
    BY <1>2, <2>1 DEF Take, QueueMove, QueueTypes
  <2>2. CASE q # r
    BY <1>2, <2>2 DEF Take, QueueMove, QueueTypes
  <2> QED
    BY <2>1, <2>2
<1>3. ASSUME NEW d \in here[r], HandBack(r, d) PROVE QueueMove(q)
  <2>0. d \in Desc
    BY HereFacts
  <2>1. CASE q = r
    <3>1. /\ d \in here[q] /\ here'[q] = here[q] \ {d} /\ used'[q] = Append(used[q], d)
          /\ UNCHANGED <<pool[q], offered[q]>>
      BY <1>3, <2>1 DEF HandBack, QueueTypes
    <3> QED
      BY <2>0, <3>1 DEF QueueMove
  <2>2. CASE q # r
    BY <1>3, <2>2 DEF HandBack, QueueMove, QueueTypes
  <2> QED
    BY <2>1, <2>2
<1>4. ASSUME HostReclaim(r) PROVE QueueMove(q)
  <2>1. CASE q = r
    BY <1>4, <2>1 DEF HostReclaim, QueueMove, QueueTypes
  <2>2. CASE q # r
    BY <1>4, <2>2 DEF HostReclaim, QueueMove, QueueTypes
  <2> QED
    BY <2>1, <2>2
<1>5. ASSUME NEW d \in Desc, NEW b \in Bufs(r), HostLend(r, d, b) PROVE QueueMove(q)
  <2>1. CASE q = r
    <3>1. /\ d \in pool[q] /\ pool'[q] = pool[q] \ {d} /\ offered'[q] = Append(offered[q], d)
          /\ UNCHANGED <<here[q], used[q]>>
      BY <1>5, <2>1 DEF HostLend, QueueTypes
    <3>2. Len(offered[q]) + Cardinality(here[q]) + Len(used[q]) < Cardinality(Desc)
      BY <3>1, QueueRoom DEF QueueInv
    <3> QED
      BY <3>1, <3>2 DEF QueueMove
  <2>2. CASE q # r
    BY <1>5, <2>2 DEF HostLend, QueueMove, QueueTypes
  <2> QED
    BY <2>1, <2>2
<1> QED
  BY <1>1, <1>2, <1>3, <1>4, <1>5

\* No step does anything else to either queue.
LEMMA EveryMove ==
  ASSUME QueueTypes, QueueInv, CallTypes, TxInv, RxInv, [Next]_vars, NEW q \in Queue
  PROVE  QueueMove(q)
<1> USE Sizes, QueueMoves
<1>1. ASSUME NEW b \in RxBufs, ReleaseHold(b), holds[b] > 0 \/ Dispatching(b)
      PROVE  QueueMove(q)
  <2>1. hdr[b].idx \in here["rvq"]
    BY <1>1, HeldIndex DEF HeldUnder
  <2>2. UNCHANGED queueVars \/ HandBack("rvq", hdr[b].idx)
    BY <1>1 DEF ReleaseHold
  <2> QED
    BY <2>1, <2>2
<1>2. ASSUME NEW c \in Contexts, ContextStep(c) PROVE QueueMove(q)
  <2>1. CASE GetAvailable(c)
    BY <2>1 DEF GetAvailable
  <2>2. CASE Enqueue(c)
    <3>1. idx[c] \in here["svq"] /\ HandBack("svq", idx[c])
      BY <2>2, EnqueueTx DEF Enqueue
    <3> QED
      BY <3>1
  <2>3. CASE GetReclaimed(c) \/ GetNothing(c) \/ Stamp(c) \/ WriteHeader(c)
    <3>1. UNCHANGED queueVars
      BY <2>3 DEF GetReclaimed, GetNothing, Stamp, WriteHeader
    <3> QED
      BY <3>1
  <2> QED
    BY <1>2, <2>1, <2>2, <2>3 DEF ContextStep
<1>3. ASSUME NEW c \in Contexts,
             \/ \E t \in {0, MaxTicks} : CallSend(c, t) \/ CallPayload(c, t)
             \/ \E b \in TxBufs : CallNocopy(c, b) \/ ReleaseTx(c, b)
             \/ \E b \in RxBufs : HoldRx(c, b)
      PROVE  QueueMove(q)
  <2>1. UNCHANGED queueVars
    BY <1>3 DEF CallSend, CallPayload, CallTx, CallNocopy, ReleaseTx, HoldRx
  <2> QED
    BY <2>1
<1>4. ASSUME NEW c \in Contexts, NEW b \in RxBufs, ReleaseRx(c, b) PROVE QueueMove(q)
  BY <1>1, <1>4 DEF ReleaseRx
<1>5. CASE RxFinish
  <2>1. rx.buf \in RxBufs /\ ReleaseHold(rx.buf) /\ Dispatching(rx.buf)
    BY <1>5 DEF RxFinish, RxInv, Dispatching
  <2> QED
    BY <1>1, <2>1
<1>6. CASE RxGet
  BY <1>6 DEF RxGet
<1>7. CASE RxNotified \/ RxDone \/ RxDispatch \/ RxReturn \/ HostKick \/ HostStops \/ UNCHANGED vars
  <2>1. UNCHANGED queueVars
    BY <1>7 DEF RxNotified, RxDone, RxDispatch, RxReturn, HostKick, HostStops, vars
  <2> QED
    BY <2>1
<1>8. ASSUME NEW r \in Queue, HostReclaim(r) PROVE QueueMove(q)
  BY <1>8
<1>9. ASSUME NEW r \in Queue, NEW d \in Desc, NEW b \in Bufs(r), HostLend(r, d, b)
      PROVE  QueueMove(q)
  BY <1>9
<1> HIDE DEF QueueMove
<1> QED
  BY <1>2, <1>3, <1>4, <1>5, <1>6, <1>7, <1>8, <1>9 DEF Next

\* rpmsg_virtio.c keeps the contract of svq: it returns only what it has taken,
\* each descriptor once.
THEOREM KeepsTxContract == Spec => UsesTxVirtqueue
<1>1. Init => TxVirtqueue!ExchangeInit
  BY Sizes DEF Init, TxVirtqueue!ExchangeInit
<1>2. RvInv /\ [Next]_vars => [TxVirtqueue!ExchangeNext]_TxVirtqueue!exchangeVars
  <2> SUFFICES ASSUME RvInv, [Next]_vars
               PROVE  [TxVirtqueue!ExchangeNext]_TxVirtqueue!exchangeVars
    OBVIOUS
  <2>1. QueueMove("svq")
    BY Sizes, TypeParts, EveryMove DEF RvInv
  <2>2. CASE UNCHANGED <<pool["svq"], offered["svq"], here["svq"], used["svq"]>>
    BY <2>2 DEF TxVirtqueue!exchangeVars
  <2>3. ASSUME NEW d \in Desc, d \in pool["svq"], pool'["svq"] = pool["svq"] \ {d},
               offered'["svq"] = Append(offered["svq"], d),
               Len(offered["svq"]) + Cardinality(here["svq"]) + Len(used["svq"]) < Cardinality(Desc),
               UNCHANGED <<here["svq"], used["svq"]>>
        PROVE  TxVirtqueue!ExchangeNext
    <3>1. TxVirtqueue!Lend(d)
      <4>1. \A S : TxVirtqueue!Cardinality(S) = Cardinality(S)
        BY Zenon DEF TxVirtqueue!Cardinality, Cardinality
      <4> QED
        BY <2>3, <4>1, Zenon DEF TxVirtqueue!Lend
    <3> QED
      BY <3>1 DEF TxVirtqueue!ExchangeNext
  <2>4. ASSUME NEW d \in Desc, d \in here["svq"], here'["svq"] = here["svq"] \ {d},
               used'["svq"] = Append(used["svq"], d), UNCHANGED <<pool["svq"], offered["svq"]>>
        PROVE  TxVirtqueue!ExchangeNext
    BY <2>4 DEF TxVirtqueue!ExchangeNext, TxVirtqueue!HandBack
  <2>5. ASSUME offered["svq"] # <<>>, here'["svq"] = here["svq"] \cup {Head(offered["svq"])},
               offered'["svq"] = Tail(offered["svq"]), UNCHANGED <<pool["svq"], used["svq"]>>
        PROVE  TxVirtqueue!ExchangeNext
    BY <2>5 DEF TxVirtqueue!ExchangeNext, TxVirtqueue!Take
  <2>6. ASSUME used["svq"] # <<>>, pool'["svq"] = pool["svq"] \cup {Head(used["svq"])},
               used'["svq"] = Tail(used["svq"]), UNCHANGED <<offered["svq"], here["svq"]>>
        PROVE  TxVirtqueue!ExchangeNext
    BY <2>6 DEF TxVirtqueue!ExchangeNext, TxVirtqueue!Reclaim
  <2> QED
    BY <2>1, <2>2, <2>3, <2>4, <2>5, <2>6 DEF QueueMove
<1> QED
  BY BuffersInvariant, <1>1, <1>2, PTL DEF Spec, UsesTxVirtqueue, TxVirtqueue!ExchangeSpec

\* The same for rvq, where the last of several holders returns the buffer.
THEOREM KeepsRxContract == Spec => UsesRxVirtqueue
<1>1. Init => RxVirtqueue!ExchangeInit
  BY Sizes DEF Init, RxVirtqueue!ExchangeInit
<1>2. RvInv /\ [Next]_vars => [RxVirtqueue!ExchangeNext]_RxVirtqueue!exchangeVars
  <2> SUFFICES ASSUME RvInv, [Next]_vars
               PROVE  [RxVirtqueue!ExchangeNext]_RxVirtqueue!exchangeVars
    OBVIOUS
  <2>1. QueueMove("rvq")
    BY Sizes, TypeParts, EveryMove DEF RvInv
  <2>2. CASE UNCHANGED <<pool["rvq"], offered["rvq"], here["rvq"], used["rvq"]>>
    BY <2>2 DEF RxVirtqueue!exchangeVars
  <2>3. ASSUME NEW d \in Desc, d \in pool["rvq"], pool'["rvq"] = pool["rvq"] \ {d},
               offered'["rvq"] = Append(offered["rvq"], d),
               Len(offered["rvq"]) + Cardinality(here["rvq"]) + Len(used["rvq"]) < Cardinality(Desc),
               UNCHANGED <<here["rvq"], used["rvq"]>>
        PROVE  RxVirtqueue!ExchangeNext
    <3>1. RxVirtqueue!Lend(d)
      <4>1. \A S : RxVirtqueue!Cardinality(S) = Cardinality(S)
        BY Zenon DEF RxVirtqueue!Cardinality, Cardinality
      <4> QED
        BY <2>3, <4>1, Zenon DEF RxVirtqueue!Lend
    <3> QED
      BY <3>1 DEF RxVirtqueue!ExchangeNext
  <2>4. ASSUME NEW d \in Desc, d \in here["rvq"], here'["rvq"] = here["rvq"] \ {d},
               used'["rvq"] = Append(used["rvq"], d), UNCHANGED <<pool["rvq"], offered["rvq"]>>
        PROVE  RxVirtqueue!ExchangeNext
    BY <2>4 DEF RxVirtqueue!ExchangeNext, RxVirtqueue!HandBack
  <2>5. ASSUME offered["rvq"] # <<>>, here'["rvq"] = here["rvq"] \cup {Head(offered["rvq"])},
               offered'["rvq"] = Tail(offered["rvq"]), UNCHANGED <<pool["rvq"], used["rvq"]>>
        PROVE  RxVirtqueue!ExchangeNext
    BY <2>5 DEF RxVirtqueue!ExchangeNext, RxVirtqueue!Take
  <2>6. ASSUME used["rvq"] # <<>>, pool'["rvq"] = pool["rvq"] \cup {Head(used["rvq"])},
               used'["rvq"] = Tail(used["rvq"]), UNCHANGED <<offered["rvq"], here["rvq"]>>
        PROVE  RxVirtqueue!ExchangeNext
    BY <2>6 DEF RxVirtqueue!ExchangeNext, RxVirtqueue!Reclaim
  <2> QED
    BY <2>1, <2>2, <2>3, <2>4, <2>5, <2>6 DEF QueueMove
<1> QED
  BY BuffersInvariant, <1>1, <1>2, PTL DEF Spec, UsesRxVirtqueue, RxVirtqueue!ExchangeSpec
=============================================================================
