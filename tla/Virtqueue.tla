----------------------------- MODULE Virtqueue ------------------------------
(***************************************************************************)
(* One virtqueue (openamp/openamp/virtio/virtqueue.c) shared by a driver   *)
(* and a device that run concurrently.  The driver owns the descriptor     *)
(* table and lends chains of descriptors through the avail ring; the       *)
(* device hands them back through the used ring.  Both roles are the same  *)
(* C code with VIRTIO_ROLE_IS_DRIVER/DEVICE branches, so the ring indices, *)
(* the notification flags and the counters are functions of the side.      *)
(*                                                                         *)
(* Every access to memory the other side writes is a step of its own: a    *)
(* ring slot is written before the index that publishes it, and an index   *)
(* is read before the slot it uncovers.                                    *)
(***************************************************************************)
EXTENDS Integers, Sequences, FiniteSets, Functions

CONSTANTS N,          \* vq_nentries, the number of descriptors
          W,          \* modulus of the free-running indices (2^16 in the code)
          MaxChain,   \* bound: longest chain a client lends
          MaxQueued,  \* bound: additions a client makes before it must kick
          EventIdx,   \* VIRTIO_RING_F_EVENT_IDX is negotiated
          Buffers,    \* buffers the driver's client can lend
          NoBuf       \* the NULL cookie

ASSUME SizeAssumption ==
  /\ N \in Nat \ {0}
  /\ W \in Nat /\ W > N /\ W % N = 0
  /\ MaxChain \in Nat \ {0}
  /\ MaxQueued \in Nat \ {0} /\ MaxQueued < W
  /\ EventIdx \in BOOLEAN
  /\ NoBuf \notin Buffers

DescIdx   == 0 .. N - 1
CHAIN_END == N            \* VQ_RING_DESC_CHAIN_END: no descriptor index
Index     == 0 .. W - 1
Side      == {"drv", "dev"}
Peer(s)   == IF s = "drv" THEN "dev" ELSE "drv"

VARIABLES
  desc,      \* vring_desc table: buffer, next, flags
  descx,     \* vq_descx, private to the driver: cookie and chain length
  head_idx,  \* vq_desc_head_idx: first free descriptor
  free_cnt,  \* vq_free_cnt
  ring,      \* avail->ring (written by drv) and used->ring (written by dev)
  idx,       \* avail->idx and used->idx
  cons,      \* vq_used_cons_idx (drv) and vq_available_idx (dev)
  queued,    \* vq_queued_cnt of each side
  no_notify, \* sides whose flag asks for silence: NO_INTERRUPT in
             \* avail->flags (drv), NO_NOTIFY in used->flags (dev)
  event,     \* used_event (written by drv), avail_event (written by dev)
  signal,    \* sides with a notification pending
  pc,        \* where each side is inside or between library calls
  reg,       \* the slot or the chain head a side's call works on
  pool,      \* buffers in the hands of the driver's client
  held       \* chain heads in the hands of the device's client

tableVars  == <<desc, descx, head_idx, free_cnt, pool>>
notifyVars == <<no_notify, event, signal>>
vars == <<desc, descx, head_idx, free_cnt, ring, idx, cons, queued,
          no_notify, event, signal, pc, reg, pool, held>>

(***************************************************************************)
(* uint16_t arithmetic and ring slots (idx & (vq_nentries - 1)).           *)
(***************************************************************************)
\* Mutant: the increment does not wrap.
IncUnwrapped(i) == i + 1
\* Mutant: the slot mask is one short.
SlotShortMask(i) == IF N = 1 THEN 0 ELSE i % (N - 1)

Inc(i)    == IF i + 1 = W THEN 0 ELSE i + 1
Sub(a, b) == IF a >= b THEN a - b ELSE a - b + W
Slot(i)   == i % N

\* The first k descriptors reached from h by following next.
Chains(h, k) ==
  {p \in [1 .. k -> DescIdx] :
     p[1] = h /\ \A i \in 2 .. k : p[i] = desc[p[i-1]].next}

\* The k descriptors from h up to the first one without VRING_DESC_F_NEXT.
LentChains(h, k) ==
  {p \in Chains(h, k) : /\ \A i \in 1 .. k - 1 : "NEXT" \in desc[p[i]].flags
                        /\ "NEXT" \notin desc[p[k]].flags}
-----------------------------------------------------------------------------
(***************************************************************************)
(* virtqueue_create, with the ring memory zeroed by the driver role.       *)
(***************************************************************************)
\* vq_ring_init links every descriptor into the free chain.
InitialDesc ==
  [d \in DescIdx |-> [addr |-> NoBuf, flags |-> {},
                      next |-> IF d = N - 1 THEN CHAIN_END ELSE d + 1]]

Init ==
  /\ desc = InitialDesc
  /\ descx = [d \in DescIdx |-> [cookie |-> NoBuf, ndescs |-> 0]]
  /\ head_idx = 0
  /\ free_cnt = N
  /\ ring = [s \in Side |-> [i \in DescIdx |-> 0]]
  /\ idx = [s \in Side |-> 0]
  /\ cons = [s \in Side |-> 0]
  /\ queued = [s \in Side |-> 0]
  /\ no_notify = {}
  /\ event = [s \in Side |-> 0]
  /\ signal = {}
  /\ pc = [s \in Side |-> "run"]
  /\ reg = [s \in Side |-> 0]
  /\ pool = Buffers
  /\ held = {}

Goto(s, to) == pc' = [pc EXCEPT ![s] = to]

\* The call is over and its local variables are gone.
Return(s) == Goto(s, "run") /\ reg' = [reg EXCEPT ![s] = 0]

\* Side s writes head h into the next slot of its ring; the index follows.
WriteSlot(s, h) ==
  /\ ring' = [ring EXCEPT ![s] = [@ EXCEPT ![Slot(idx[s])] = h]]
  /\ reg' = [reg EXCEPT ![s] = h]
  /\ Goto(s, "publish")

\* The first k descriptors of the free chain carry buffer b, and the head goes
\* to the avail slot.
LendChain(b, k) ==
  /\ \E p \in Chains(head_idx, k) :
       /\ desc' = [d \in DescIdx |->
                     IF \E i \in 1 .. k : p[i] = d
                     THEN [addr |-> b, next |-> desc[d].next,
                           flags |-> IF d = p[k] THEN {} ELSE {"NEXT"}]
                     ELSE desc[d]]
       /\ head_idx' = desc[p[k]].next
  /\ descx' = [descx EXCEPT ![head_idx] = [cookie |-> b, ndescs |-> k]]
  /\ free_cnt' = free_cnt - k
  /\ pool' = pool \ {b}
  /\ WriteSlot("drv", head_idx)
  /\ UNCHANGED <<idx, cons, queued, notifyVars, held>>

\* virtqueue_add_buffer up to the avail slot.  The build compiles the test for
\* vq_free_cnt < needed out (VQ_PARAM_CHK without VQUEUE_DEBUG): when the free
\* chain is too short the walk leaves the table through CHAIN_END, and nothing
\* is known of what the driver does from there.
AddBuffer(b, k) ==
  /\ pc["drv"] = "run"
  /\ queued["drv"] < MaxQueued
  /\ b \in pool
  /\ IF Chains(head_idx, k) = {}
     THEN /\ Goto("drv", "overrun")
          /\ UNCHANGED <<tableVars, ring, idx, cons, queued, notifyVars, reg, held>>
     ELSE LendChain(b, k)

\* The descriptors the driver's client has asked for and not got back.
Outstanding ==
  {e \in DescIdx \X (1 .. MaxChain) :
     descx[e[1]].cookie # NoBuf /\ e[2] <= descx[e[1]].ndescs}

\* Mutant: the client lends whatever the table has room for.
ClientUnchecked(b, k) == AddBuffer(b, k)

\* Nothing but the client keeps virtqueue_add_buffer inside the table: it asks
\* for no more descriptors than there are.  rpmsg fills a receive virtqueue
\* with at most vq_nentries buffers and then returns one for each it got, and
\* takes a new transmit buffer only while vq_free_cnt is not zero.
ClientLends(b, k) ==
  /\ Cardinality(Outstanding) + k <= N
  /\ AddBuffer(b, k)

\* virtqueue_add_consumed_buffer up to the used slot.
AddConsumed(h) ==
  /\ pc["dev"] = "run"
  /\ queued["dev"] < MaxQueued
  /\ h \in held
  /\ h < N                               \* else ERROR_VRING_NO_BUFF
  /\ held' = held \ {h}
  /\ WriteSlot("dev", h)
  /\ UNCHANGED <<tableVars, idx, cons, queued, notifyVars>>

\* The end of both: the fence, then avail->idx++ or used->idx++.
Publish(s) ==
  /\ pc[s] = "publish"
  /\ idx' = [idx EXCEPT ![s] = Inc(@)]
  /\ queued' = [queued EXCEPT ![s] = @ + 1]
  /\ Return(s)
  /\ UNCHANGED <<tableVars, ring, cons, notifyVars, held>>

\* Mutant: the test for an empty ring is missing.
ClaimUnchecked(s) ==
  /\ pc[s] = "run"
  /\ reg' = [reg EXCEPT ![s] = Slot(cons[s])]
  /\ cons' = [cons EXCEPT ![s] = Inc(@)]
  /\ Goto(s, "take")
  /\ UNCHANGED <<tableVars, ring, idx, queued, notifyVars, held>>

\* Mutant: the index is incremented before it selects the slot.
ClaimPreIncrement(s) ==
  /\ pc[s] = "run"
  /\ cons[s] # idx[Peer(s)]
  /\ reg' = [reg EXCEPT ![s] = Slot(Inc(cons[s]))]
  /\ cons' = [cons EXCEPT ![s] = Inc(@)]
  /\ Goto(s, "take")
  /\ UNCHANGED <<tableVars, ring, idx, queued, notifyVars, held>>

\* virtqueue_get_buffer and virtqueue_get_available_buffer read the peer's
\* index and claim the next slot; a NULL result changes nothing.
Claim(s) ==
  /\ pc[s] = "run"
  /\ cons[s] # idx[Peer(s)]
  /\ reg' = [reg EXCEPT ![s] = Slot(cons[s])]
  /\ cons' = [cons EXCEPT ![s] = Inc(@)]
  /\ Goto(s, "take")
  /\ UNCHANGED <<tableVars, ring, idx, queued, notifyVars, held>>

\* The rest of virtqueue_get_available_buffer: read the head from the slot.
TakeAvailable ==
  /\ pc["dev"] = "take"
  /\ held' = held \cup {ring["drv"][reg["dev"]]}
  /\ Return("dev")
  /\ UNCHANGED <<tableVars, ring, idx, cons, queued, notifyVars>>

\* Mutant: the first descriptor of the chain, not the last, is linked to the
\* old free list.
FreeChainLinksFirst(h) ==
  /\ \E k \in 1 .. MaxChain : \E p \in LentChains(h, k) :
       /\ desc' = [desc EXCEPT ![h] = [@ EXCEPT !.next = head_idx]]
       /\ descx' = [descx EXCEPT ![h] = [cookie |-> NoBuf,
                                         ndescs |-> @.ndescs - k]]
  /\ free_cnt' = free_cnt + descx[h].ndescs
  /\ head_idx' = h

\* vq_ring_free_chain: the chain that starts at h goes in front of the free
\* list, its last descriptor linked to the old head.
FreeChain(h) ==
  /\ \E k \in 1 .. MaxChain : \E p \in LentChains(h, k) :
       /\ desc' = [desc EXCEPT ![p[k]] = [@ EXCEPT !.next = head_idx]]
       /\ descx' = [descx EXCEPT ![h] = [cookie |-> NoBuf,
                                         ndescs |-> @.ndescs - k]]
  /\ free_cnt' = free_cnt + descx[h].ndescs
  /\ head_idx' = h

\* The rest of virtqueue_get_buffer: free the chain, return its cookie.
TakeUsed ==
  LET h == ring["dev"][reg["drv"]] IN
  /\ pc["drv"] = "take"
  /\ FreeChain(h)
  /\ pool' = pool \cup {descx[h].cookie}
  /\ Return("drv")
  /\ UNCHANGED <<ring, idx, cons, queued, notifyVars, held>>
-----------------------------------------------------------------------------
(***************************************************************************)
(* Notifications.                                                          *)
(***************************************************************************)
\* Mutant: the event index itself does not count as passed.
NeedEventLate(event_idx, new_idx, prev_idx) ==
  Sub(new_idx, event_idx) < Sub(new_idx, prev_idx)

\* vring_need_event: has new_idx passed event_idx since prev_idx?
NeedEvent(event_idx, new_idx, prev_idx) ==
  Sub(Sub(new_idx, event_idx), 1) < Sub(new_idx, prev_idx)

\* vq_ring_must_notify on side s reads what the peer last asked for.
MustNotify(s) ==
  IF EventIdx
  THEN NeedEvent(event[Peer(s)], idx[s], Sub(idx[s], queued[s]))
  ELSE Peer(s) \notin no_notify

Kick(s) ==
  /\ pc[s] = "run"
  /\ signal' = IF MustNotify(s) THEN signal \cup {Peer(s)} ELSE signal
  /\ queued' = [queued EXCEPT ![s] = 0]
  /\ UNCHANGED <<tableVars, ring, idx, cons, no_notify, event, pc, reg, held>>

DisableCb(s) ==
  /\ pc[s] = "run"
  /\ IF EventIdx
     THEN /\ event' = [event EXCEPT ![s] = Sub(Sub(cons[s], N), 1)]
          /\ UNCHANGED no_notify
     ELSE /\ no_notify' = no_notify \cup {s}
          /\ UNCHANGED event
  /\ UNCHANGED <<tableVars, ring, idx, cons, queued, signal, pc, reg, held>>

\* Mutant: the event index asks for the entry after the next one.
EnableCbOneLate(s) ==
  /\ pc[s] = "run"
  /\ queued[s] = 0
  /\ event' = [event EXCEPT ![s] = Inc(cons[s])]
  /\ Goto(s, "enable")
  /\ UNCHANGED <<tableVars, ring, idx, cons, queued, no_notify, signal, reg, held>>

\* virtqueue_enable_cb up to its fence.  The client calls it when everything
\* it added has been kicked, usually after a get that returned NULL; the ring
\* may have been filled since.
EnableCb(s) ==
  /\ pc[s] = "run"
  /\ queued[s] = 0
  /\ IF EventIdx
     THEN /\ event' = [event EXCEPT ![s] = cons[s]]
          /\ UNCHANGED no_notify
     ELSE /\ no_notify' = no_notify \ {s}
          /\ UNCHANGED event
  /\ Goto(s, "enable")
  /\ UNCHANGED <<tableVars, ring, idx, cons, queued, signal, reg, held>>

\* virtqueue_nused and virtqueue_navail.
Pending(s) == Sub(idx[Peer(s)], cons[s])

\* Mutant: the ring is not looked at again after callbacks are enabled.
NoRecheckAfterEnable(s) ==
  /\ pc[s] = "enable"
  /\ Goto(s, "wait")
  /\ UNCHANGED <<tableVars, ring, idx, cons, queued, notifyVars, reg, held>>

\* The rest of virtqueue_enable_cb: on 1 the client goes on, on 0 it waits.
RecheckAfterEnable(s) ==
  /\ pc[s] = "enable"
  /\ Goto(s, IF Pending(s) > 0 THEN "run" ELSE "wait")
  /\ UNCHANGED <<tableVars, ring, idx, cons, queued, notifyVars, reg, held>>

\* virtqueue_notification calls the client back.
Notified(s) ==
  /\ pc[s] = "wait"
  /\ s \in signal
  /\ signal' = signal \ {s}
  /\ Goto(s, "run")
  /\ UNCHANGED <<tableVars, ring, idx, cons, queued, no_notify, event, reg, held>>
\* A waiting client has work of its own: a buffer to lend or to hand back.
Resume(s) ==
  /\ pc[s] = "wait"
  /\ Goto(s, "run")
  /\ UNCHANGED <<tableVars, ring, idx, cons, queued, notifyVars, reg, held>>
-----------------------------------------------------------------------------
SideStep(s) ==
  \/ Publish(s)
  \/ Claim(s)
  \/ Kick(s)
  \/ DisableCb(s)
  \/ EnableCb(s)
  \/ RecheckAfterEnable(s)
  \/ Notified(s)
  \/ Resume(s)

Next ==
  \/ \E b \in Buffers, k \in 1 .. MaxChain : ClientLends(b, k)
  \/ \E h \in DescIdx : AddConsumed(h)
  \/ TakeAvailable
  \/ TakeUsed
  \/ \E s \in Side : SideStep(s)

Spec == Init /\ [][Next]_vars

(***************************************************************************)
(* Each side finishes a library call it has begun, the clients consume     *)
(* what is there and kick what they added, and a pending interrupt is      *)
(* taken.  Nobody has to lend, to hand back, to wait or to resume.         *)
(***************************************************************************)
Fairness ==
  /\ \A s \in Side : /\ WF_vars(Publish(s))
                     /\ WF_vars(RecheckAfterEnable(s))
                     /\ WF_vars(Notified(s))
                     /\ SF_vars(Claim(s))
                     /\ SF_vars(queued[s] > 0 /\ Kick(s))
  /\ WF_vars(TakeAvailable)
  /\ WF_vars(TakeUsed)

FairSpec == Spec /\ Fairness
-----------------------------------------------------------------------------
(***************************************************************************)
(* Properties.                                                             *)
(***************************************************************************)
Descriptor ==
  [addr  : Buffers \cup {NoBuf},
   flags : SUBSET {"NEXT"},
   next  : DescIdx \cup {CHAIN_END}]

\* Every variable of the two virtqueue structures and of the shared ring
\* memory keeps its C type; uint16_t indices stay below the modulus.
TypeOK ==
  /\ desc \in [DescIdx -> Descriptor]
  /\ descx \in [DescIdx -> [cookie : Buffers \cup {NoBuf}, ndescs : Int]]
  /\ head_idx \in DescIdx \cup {CHAIN_END}
  /\ free_cnt \in Int
  /\ ring \in [Side -> [DescIdx -> DescIdx]]
  /\ idx \in [Side -> Index]
  /\ cons \in [Side -> Index]
  /\ queued \in [Side -> 0 .. MaxQueued]
  /\ no_notify \in SUBSET Side
  /\ event \in [Side -> Index]
  /\ signal \in SUBSET Side
  /\ pc \in [Side -> {"run", "publish", "take", "enable", "wait"}]
  /\ reg \in [Side -> DescIdx]
  /\ pool \in SUBSET (Buffers \cup {NoBuf})
  /\ held \in SUBSET DescIdx

\* The descriptors of the free list, found by walking next from the head.
FreeLists ==
  IF free_cnt = 0 THEN {<<>>} ELSE Chains(head_idx, free_cnt)

\* The free list has exactly vq_free_cnt different descriptors and ends in
\* VQ_RING_DESC_CHAIN_END, none of them carries a cookie or belongs to a lent
\* chain, every lent chain has the length recorded when it was added, no
\* descriptor is lost to both, and no virtqueue_add_buffer ran past the table
\* (the VQ_PARAM_CHK for ERROR_VRING_FULL and the VQASSERTs of
\* virtqueue_add_buffer and vq_ring_free_chain, all of which the build compiles
\* out).
FreeListSound ==
  /\ pc["drv"] # "overrun"
  /\ free_cnt \in 0 .. N
  /\ \E p \in FreeLists :
       LET free == {p[i] : i \in 1 .. free_cnt}
           lent == {h \in DescIdx : descx[h].cookie # NoBuf}
           body(h) == UNION {Range(q) : q \in LentChains(h, descx[h].ndescs)}
       IN /\ Cardinality(free) = free_cnt
          /\ free_cnt > 0 => desc[p[free_cnt]].next = CHAIN_END
          /\ free_cnt = 0 => head_idx = CHAIN_END
          /\ \A d \in free : descx[d] = [cookie |-> NoBuf, ndescs |-> 0]
          /\ \A h \in lent : /\ Cardinality(body(h)) = descx[h].ndescs
                             /\ body(h) \cap free = {}
          /\ \A h, g \in lent : h # g => body(h) \cap body(g) = {}
          /\ DescIdx = free \cup UNION {body(h) : h \in lent}

\* The indices of a ring that one side has published and the other has not
\* consumed, oldest first.
Unread(s) == [i \in 1 .. Pending(s) |-> ring[Peer(s)][Slot(cons[s] + i - 1)]]

\* The chain heads in each place a lent buffer can be.
Places ==
  LET inCall(s, at, h) == IF pc[s] = at THEN {h} ELSE {}
  IN << inCall("drv", "publish", reg["drv"]),
        Range(Unread("dev")),
        inCall("dev", "take", ring["drv"][reg["dev"]]),
        held,
        inCall("dev", "publish", reg["dev"]),
        Range(Unread("drv")),
        inCall("drv", "take", ring["dev"][reg["drv"]]) >>

\* A lent chain is in exactly one place: no slot of either ring is overwritten
\* before it was read, not even between the step that claims a slot and the
\* step that reads it, and no head is handed out twice.
OneOwner ==
  LET places == Places
      lent   == {h \in DescIdx : descx[h].cookie # NoBuf}
  IN /\ \A s \in Side : Cardinality(Range(Unread(s))) = Pending(s)
     /\ \A i, j \in DOMAIN places : i < j => places[i] \cap places[j] = {}
     /\ UNION Range(places) = lent

\* The four free-running 16-bit indices never overtake one another, across
\* the wrap: used_cons <= used->idx <= available_idx <= avail->idx, at most
\* one ring apart (the VQASSERTs of virtqueue_nused and virtqueue_navail).
IndicesInOrder ==
  Sub(idx["dev"], cons["drv"]) + Sub(cons["dev"], idx["dev"])
    + Sub(idx["drv"], cons["dev"]) <= N

\* No notification is lost between publishing an index, reading the peer's
\* flag or event index, and the peer's re-check after enabling callbacks: a
\* side waits while its ring has entries only if it has a notification
\* pending or the peer has still to kick what it added.
NoLostWakeup ==
  \A s \in Side :
    pc[s] = "wait" /\ cons[s] # idx[Peer(s)] => s \in signal \/ queued[Peer(s)] > 0

\* b is on its way: being published, in a ring, or claimed but not yet read.
InTransit(b) == b \notin pool /\ \A h \in held : desc[h].addr # b

\* A buffer lent with virtqueue_add_buffer or handed back with
\* virtqueue_add_consumed_buffer reaches the other client, whatever callbacks
\* the two sides switched off in between.
EveryBufferArrives == \A b \in Buffers : InTransit(b) ~> ~InTransit(b)

(***************************************************************************)
(* The virtqueue implements BufferExchange.                                *)
(***************************************************************************)
\* The heads a side is going to get, the one its running get has claimed first.
OnTheWay(s) ==
  IF pc[s] = "take" THEN <<ring[Peer(s)][reg[s]]>> \o Unread(s) ELSE Unread(s)

Cookies(q) == [i \in DOMAIN q |-> desc[q[i]].addr]

\* A buffer changes hands when the index that announces it is published.
WithDriver ==
  pool \cup (IF pc["drv"] = "publish" THEN {desc[reg["drv"]].addr} ELSE {})

WithDevice ==
  {desc[h].addr : h \in held \cup (IF pc["dev"] = "publish" THEN {reg["dev"]} ELSE {})}

Exchange == INSTANCE BufferExchange WITH
  Capacity <- N,
  pool     <- WithDriver,
  offered  <- Cookies(OnTheWay("dev")),
  atDevice <- WithDevice,
  returned <- Cookies(OnTheWay("drv"))

\* Buffers reach the device in the order virtqueue_add_buffer published them,
\* come back in the order the device handed them back, and each get returns
\* the cookie of the buffer at the head of that order.
ExchangesBuffers == Exchange!ExchangeSpec
=============================================================================
