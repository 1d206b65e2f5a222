-------------------------- MODULE VirtqueueProofs ---------------------------
(***************************************************************************)
(* Theorems about Virtqueue for every ring size, index width and set of    *)
(* buffers: the invariant VqInv, what it gives, and at the end that the    *)
(* virtqueue implements BufferExchange.                                    *)
(***************************************************************************)
EXTENDS Virtqueue, SequenceLemmas

\* A side that is waiting, or about to, has asked for a notification.
Armed(s) == IF EventIdx THEN event[s] = cons[s] ELSE s \notin no_notify

\* The strengthening of NoLostWakeup that every step preserves: whatever the
\* peer published since this side armed its callback is either announced by a
\* pending notification or covered by the peer's vq_queued_cnt.
WakeupAt(s) ==
  /\ pc[s] = "publish" => queued[s] < MaxQueued
  /\ pc[s] \in {"enable", "wait"} => Armed(s)
  /\ pc[s] = "wait" => s \in signal \/ Pending(s) <= queued[Peer(s)]

WakeupInv == \A s \in Side : WakeupAt(s)

IInv == TypeOK /\ WakeupInv

\* virtqueue_add_buffer when the free chain is long enough.
Lends(b, k) ==
  /\ pc["drv"] = "run"
  /\ queued["drv"] < MaxQueued
  /\ b \in pool
  /\ k <= free_cnt
  /\ LendChain(b, k)

\* What the two sides do as long as no addition leaves the table.  That none
\* ever does is lemma NextIsInside.
InsideNext ==
  \/ \E b \in Buffers, k \in 1 .. MaxChain : Lends(b, k)
  \/ \E h \in DescIdx : AddConsumed(h)
  \/ TakeAvailable
  \/ TakeUsed
  \/ \E s \in Side : SideStep(s)

-----------------------------------------------------------------------------
\* The linear part of the assumption on the sizes.
LEMMA Sizes ==
  /\ N \in Nat /\ N > 0
  /\ W \in Nat /\ W > N
  /\ MaxChain \in Nat
  /\ MaxQueued \in Nat /\ MaxQueued < W
  BY SizeAssumption

\* A ring slot is a descriptor index, whatever free-running index it is for.
LEMMA SlotType == ASSUME NEW i \in Nat PROVE Slot(i) \in DescIdx
  BY Sizes, SMT DEF Slot, DescIdx

\* uint16_t increment and subtraction stay below the modulus.
LEMMA IndexArithmetic ==
  /\ \A i \in Index : Inc(i) \in Index
  /\ \A a, b \in Index : Sub(a, b) \in Index
  /\ \A a, b \in Index : Sub(a, b) = 0 <=> a = b
  /\ \A a, b \in Index : Sub(a, b) < W - 1 => Sub(Inc(a), b) = Sub(a, b) + 1
  BY Sizes, SMT DEF Inc, Sub, Index

\* vring_need_event answers yes when the entries added since the event index
\* are at least one and all of them are unannounced.
LEMMA NeedEventComplete ==
  ASSUME NEW e \in Index, NEW n \in Index, NEW q \in 0 .. W - 1,
         n # e, Sub(n, e) <= q
  PROVE  NeedEvent(e, n, Sub(n, q))
  BY Sizes, SMT DEF NeedEvent, Sub, Index

\* Relinking a descriptor leaves a descriptor.
LEMMA Relink ==
  ASSUME NEW r \in Descriptor, NEW n \in DescIdx \cup {CHAIN_END}
  PROVE  [r EXCEPT !.next = n] \in Descriptor
  BY DEF Descriptor

\* The two sides are each other's peer.
LEMMA Sides ==
  /\ "drv" \in Side /\ "dev" \in Side
  /\ \A s \in Side : Peer(s) \in Side /\ Peer(Peer(s)) = s /\ Peer(s) # s
  BY DEF Side, Peer

-----------------------------------------------------------------------------
\* virtqueue_create leaves both sides well typed, running and unarmed.
LEMMA InitIInv == Init => IInv
<1> SUFFICES ASSUME Init PROVE IInv
  OBVIOUS
<1>1. TypeOK
  BY Sizes, SMT DEF Init, InitialDesc, TypeOK, Descriptor, DescIdx, Index, Side, CHAIN_END
<1>2. WakeupInv
  BY DEF Init, WakeupInv, WakeupAt, Side
<1> QED
  BY <1>1, <1>2 DEF IInv

\* Every library call keeps the C types.
LEMMA TypeStep == IInv /\ [InsideNext]_vars => TypeOK'
<1> SUFFICES ASSUME IInv, [InsideNext]_vars PROVE TypeOK'
  OBVIOUS
<1> USE Sizes, Sides DEF IInv, TypeOK, Goto, Return, notifyVars, tableVars
<1>1. ASSUME NEW b \in Buffers, NEW k \in 1 .. MaxChain, Lends(b, k)
      PROVE  TypeOK'
  <2>1. PICK p \in Chains(head_idx, k) :
          /\ desc' = [d \in DescIdx |->
                        IF \E i \in 1 .. k : p[i] = d
                        THEN [addr |-> b, next |-> desc[d].next,
                              flags |-> IF d = p[k] THEN {} ELSE {"NEXT"}]
                        ELSE desc[d]]
          /\ head_idx' = desc[p[k]].next
    BY <1>1 DEF Lends, LendChain
  <2>2. p \in [1 .. k -> DescIdx] /\ p[1] = head_idx
    BY <2>1 DEF Chains
  <2>3. head_idx \in DescIdx /\ p[k] \in DescIdx
    BY <2>2
  <2>4. desc' \in [DescIdx -> Descriptor]
    BY <2>1 DEF Descriptor
  <2>5. head_idx' \in DescIdx \cup {CHAIN_END}
    BY <2>1, <2>3 DEF Descriptor
  <2>6. descx' \in [DescIdx -> [cookie : Buffers \cup {NoBuf}, ndescs : Int]]
    BY <1>1, <2>3 DEF Lends, LendChain
  <2>7. ring' \in [Side -> [DescIdx -> DescIdx]] /\ reg' \in [Side -> DescIdx]
    BY <1>1, <2>3, SlotType DEF Lends, LendChain, WriteSlot, Index
  <2> QED
    BY <1>1, <2>4, <2>5, <2>6, <2>7 DEF Lends, LendChain, WriteSlot
<1>2. ASSUME NEW h \in DescIdx, AddConsumed(h)
      PROVE  TypeOK'
  <2>1. ring' \in [Side -> [DescIdx -> DescIdx]] /\ reg' \in [Side -> DescIdx]
    BY <1>2, SlotType DEF AddConsumed, WriteSlot, Index
  <2> QED
    BY <1>2, <2>1 DEF AddConsumed, WriteSlot
<1>z. 0 \in DescIdx
  BY DEF DescIdx
<1>3. CASE TakeAvailable
  <2>1. ring["drv"][reg["dev"]] \in DescIdx
    OBVIOUS
  <2>2. held' \in SUBSET DescIdx
    BY <1>3, <2>1 DEF TakeAvailable
  <2> QED
    BY <1>3, <1>z, <2>2 DEF TakeAvailable
<1>4. CASE TakeUsed
  <2> DEFINE h == ring["dev"][reg["drv"]]
  <2>1. h \in DescIdx
    OBVIOUS
  <2>a. PICK k \in 1 .. MaxChain : \E p \in LentChains(h, k) :
          /\ desc' = [desc EXCEPT ![p[k]] = [@ EXCEPT !.next = head_idx]]
          /\ descx' = [descx EXCEPT ![h] = [cookie |-> NoBuf,
                                            ndescs |-> @.ndescs - k]]
    BY <1>4 DEF TakeUsed, FreeChain
  <2>2. PICK p \in LentChains(h, k) :
          /\ desc' = [desc EXCEPT ![p[k]] = [@ EXCEPT !.next = head_idx]]
          /\ descx' = [descx EXCEPT ![h] = [cookie |-> NoBuf,
                                            ndescs |-> @.ndescs - k]]
    BY <2>a
  <2>3. desc' \in [DescIdx -> Descriptor]
    <3>1. p[k] \in DescIdx
      BY DEF LentChains, Chains
    <3>2. [desc[p[k]] EXCEPT !.next = head_idx] \in Descriptor
      BY <3>1, Relink
    <3> QED
      BY <2>2, <3>1, <3>2
  <2>4. descx' \in [DescIdx -> [cookie : Buffers \cup {NoBuf}, ndescs : Int]]
    BY <2>1, <2>2
  <2>5. /\ free_cnt' \in Int
        /\ head_idx' \in DescIdx
        /\ pool' \in SUBSET (Buffers \cup {NoBuf})
    BY <1>4, <2>1 DEF TakeUsed, FreeChain
  <2> QED
    BY <1>4, <1>z, <2>3, <2>4, <2>5 DEF TakeUsed
<1>5. ASSUME NEW s \in Side, SideStep(s)
      PROVE  TypeOK'
  <2>1. CASE Publish(s)
    <3>1. Inc(idx[s]) \in Index
      BY IndexArithmetic
    <3>2. queued[s] + 1 \in 0 .. MaxQueued
      BY <2>1 DEF Publish, WakeupInv, WakeupAt
    <3> QED
      BY <2>1, <1>z, <3>1, <3>2 DEF Publish
  <2>2. CASE Claim(s)
    <3>1. Inc(cons[s]) \in Index
      BY IndexArithmetic
    <3>2. Slot(cons[s]) \in DescIdx
      BY SlotType DEF Index
    <3> QED
      BY <2>2, <3>1, <3>2 DEF Claim
  <2>3. CASE Kick(s)
    <3>1. signal' \in SUBSET Side
      BY <2>3 DEF Kick
    <3>2. queued' \in [Side -> 0 .. MaxQueued]
      BY <2>3 DEF Kick
    <3> QED
      BY <2>3, <3>1, <3>2 DEF Kick
  <2>4. CASE DisableCb(s)
    <3>1. Sub(Sub(cons[s], N), 1) \in Index
      <4>1. N \in Index /\ 1 \in Index
        BY DEF Index
      <4> QED
        BY <4>1, IndexArithmetic
    <3> QED
      BY <2>4, <3>1 DEF DisableCb
  <2>5. CASE EnableCb(s)
    <3>1. event' \in [Side -> Index]
      BY <2>5 DEF EnableCb
    <3>2. no_notify' \in SUBSET Side
      BY <2>5 DEF EnableCb
    <3> QED
      BY <2>5, <3>1, <3>2 DEF EnableCb
  <2>6. CASE RecheckAfterEnable(s)
    BY <2>6 DEF RecheckAfterEnable
  <2>7. CASE Notified(s)
    BY <2>7 DEF Notified
  <2>8. CASE Resume(s)
    BY <2>8 DEF Resume
  <2> QED
    BY <1>5, <2>1, <2>2, <2>3, <2>4, <2>5, <2>6, <2>7, <2>8 DEF SideStep
<1>6. CASE UNCHANGED vars
  BY <1>6 DEF vars
<1> QED
  BY <1>1, <1>2, <1>3, <1>4, <1>5, <1>6 DEF InsideNext

\* No library call of either side loses a wakeup.
LEMMA WakeupStep == IInv /\ [InsideNext]_vars => WakeupInv'
<1> SUFFICES ASSUME IInv, [InsideNext]_vars, NEW t \in Side
             PROVE  WakeupAt(t)'
  BY DEF WakeupInv
<1> USE Sizes, Sides DEF Goto, Return, notifyVars, Armed, Pending
<1>0. TypeOK /\ WakeupAt(t)
  BY DEF IInv, WakeupInv
<1> USE <1>0 DEF TypeOK, WakeupAt
<1>1. ASSUME NEW b \in Buffers, NEW k \in 1 .. MaxChain, Lends(b, k)
      PROVE  WakeupAt(t)'
  BY <1>1 DEF Lends, LendChain, WriteSlot
<1>2. ASSUME NEW h \in DescIdx, AddConsumed(h)
      PROVE  WakeupAt(t)'
  BY <1>2 DEF AddConsumed, WriteSlot
<1>3. CASE TakeAvailable
  BY <1>3 DEF TakeAvailable
<1>4. CASE TakeUsed
  BY <1>4 DEF TakeUsed
<1>5. ASSUME NEW s \in Side, SideStep(s)
      PROVE  WakeupAt(t)'
  <2>1. CASE Publish(s)
    <3>1. CASE t = s
      BY <2>1, <3>1 DEF Publish
    <3>2. CASE t = Peer(s) /\ pc[t] = "wait" /\ t \notin signal
      <4>1. Sub(idx[s], cons[t]) <= queued[s] /\ queued[s] < MaxQueued
        BY <2>1, <3>2 DEF Publish, IInv, WakeupInv
      <4>2. Sub(idx[s], cons[t]) \in Index
        BY IndexArithmetic
      <4>3. Sub(Inc(idx[s]), cons[t]) = Sub(idx[s], cons[t]) + 1
        <5>1. PICK x \in Index, y \in Index : x = idx[s] /\ y = cons[t]
          OBVIOUS
        <5>2. Sub(x, y) < W - 1
          BY <4>1, <4>2, <5>1 DEF Index
        <5> QED
          BY <5>1, <5>2, IndexArithmetic, Zenon
      <4>4. idx'[s] = Inc(idx[s]) /\ queued'[s] = queued[s] + 1 /\ cons' = cons
        BY <2>1 DEF Publish
      <4>5. Pending(t)' <= queued'[s]
        BY <3>2, <4>1, <4>2, <4>3, <4>4 DEF Index
      <4> QED
        BY <2>1, <3>2, <4>5 DEF Publish
    <3>3. CASE t = Peer(s) /\ ~(pc[t] = "wait" /\ t \notin signal)
      BY <2>1, <3>3 DEF Publish
    <3> QED
      BY <3>1, <3>2, <3>3 DEF Side, Peer
  <2>2. CASE Claim(s)
    BY <2>2 DEF Claim
  <2>3. CASE Kick(s)
    <3>1. CASE t = s
      BY <2>3, <3>1 DEF Kick
    <3>2. CASE t = Peer(s) /\ pc[t] = "wait" /\ t \notin signal /\ idx[s] # cons[t]
      <4>1. MustNotify(s)
        <5>1. CASE EventIdx
          <6>1. event[t] = cons[t] /\ Sub(idx[s], cons[t]) <= queued[s]
            BY <3>2, <5>1
          <6>2. queued[s] \in 0 .. W - 1
            OBVIOUS
          <6>3. NeedEvent(event[t], idx[s], Sub(idx[s], queued[s]))
            BY <3>2, <6>1, <6>2, NeedEventComplete
          <6> QED
            BY <3>2, <5>1, <6>3 DEF MustNotify
        <5>2. CASE ~EventIdx
          BY <3>2, <5>2 DEF MustNotify
        <5> QED
          BY <5>1, <5>2
      <4> QED
        BY <2>3, <3>2, <4>1 DEF Kick
    <3>3. CASE t = Peer(s) /\ pc[t] = "wait" /\ t \notin signal /\ idx[s] = cons[t]
      <4>1. Sub(idx[s], cons[t]) = 0
        BY <3>3, IndexArithmetic
      <4>2. idx' = idx /\ cons' = cons /\ queued'[s] = 0
        BY <2>3 DEF Kick
      <4> QED
        BY <2>3, <3>3, <4>1, <4>2 DEF Kick
    <3>4. CASE t = Peer(s) /\ ~(pc[t] = "wait" /\ t \notin signal)
      BY <2>3, <3>4 DEF Kick
    <3> QED
      BY <3>1, <3>2, <3>3, <3>4 DEF Side, Peer
  <2>4. CASE DisableCb(s)
    BY <2>4 DEF DisableCb
  <2>5. CASE EnableCb(s)
    BY <2>5 DEF EnableCb
  <2>6. CASE RecheckAfterEnable(s)
    <3>0. idx[Peer(s)] \in Index /\ cons[s] \in Index
      OBVIOUS
    <3>1. Pending(s) \in Index
      BY <3>0, IndexArithmetic
    <3>2. CASE Pending(s) > 0
      BY <2>6, <3>2 DEF RecheckAfterEnable
    <3>3. CASE Pending(s) = 0
      BY <2>6, <3>1, <3>3 DEF RecheckAfterEnable
    <3> QED
      BY <3>1, <3>2, <3>3 DEF Index
  <2>7. CASE Notified(s)
    BY <2>7 DEF Notified
  <2>8. CASE Resume(s)
    BY <2>8 DEF Resume
  <2> QED
    BY <1>5, <2>1, <2>2, <2>3, <2>4, <2>5, <2>6, <2>7, <2>8 DEF SideStep
<1>6. CASE UNCHANGED vars
  BY <1>6 DEF vars
<1> QED
  BY <1>1, <1>2, <1>3, <1>4, <1>5, <1>6 DEF InsideNext

-----------------------------------------------------------------------------
(***************************************************************************)
(* Where the lent chains are: the invariant behind OneOwner and            *)
(* IndicesInOrder.                                                         *)
(***************************************************************************)
\* The heads of the chains that are lent.
Lent == {h \in DescIdx : descx[h].cookie # NoBuf}

\* The chain head that side s has between two steps of a library call.
InCall(s) ==
  IF pc[s] = "publish" THEN {reg[s]}
  ELSE IF pc[s] = "take" THEN {ring[Peer(s)][reg[s]]}
  ELSE {}

\* The chain heads that side s has not read yet.
Coming(s) == Range(Unread(s))

\* The slot a side works on is the one its index says, although another step
\* comes in between.
RegInv ==
  \A s \in Side :
    /\ pc[s] = "publish" => ring[s][Slot(idx[s])] = reg[s]
    /\ pc[s] = "take" => reg[s] = Slot(cons[s] + W - 1)

\* The unread entries of a ring are different heads.
UnreadInv ==
  \A s \in Side : \A i, j \in 1 .. Pending(s) : Unread(s)[i] = Unread(s)[j] => i = j

\* Each lent chain is in one of five places.
PlaceInv ==
  /\ \A s \in Side : InCall(s) \cap held = {} /\ Coming(s) \cap held = {}
  /\ \A s, t \in Side : Coming(s) \cap InCall(t) = {}
  /\ InCall("drv") \cap InCall("dev") = {} /\ Coming("drv") \cap Coming("dev") = {}
  /\ Lent = InCall("drv") \cup InCall("dev") \cup Coming("drv") \cup Coming("dev") \cup held

\* What the device has taken and not returned are the chains of its client and
\* of its running call.
CountInv ==
  Sub(cons["dev"], idx["dev"])
    = Cardinality(held) + (IF pc["dev"] \in {"publish", "take"} THEN 1 ELSE 0)

RingInv == RegInv /\ UnreadInv /\ PlaceInv /\ CountInv

-----------------------------------------------------------------------------
(***************************************************************************)
(* The descriptor table: the invariant behind FreeListSound.               *)
(***************************************************************************)
\* p lists the free descriptors in the order of the free list.
IsFreeList(p) ==
  /\ p \in [1 .. free_cnt -> DescIdx]
  /\ \A i, j \in 1 .. free_cnt : p[i] = p[j] => i = j
  /\ head_idx = IF free_cnt = 0 THEN CHAIN_END ELSE p[1]
  /\ \A i \in 1 .. free_cnt :
       /\ desc[p[i]].next = IF i = free_cnt THEN CHAIN_END ELSE p[i + 1]
       /\ descx[p[i]].cookie = NoBuf

\* q lists the descriptors of the chain lent at h.
IsLentChain(h, q) ==
  /\ descx[h].ndescs \in 1 .. MaxChain
  /\ q \in LentChains(h, descx[h].ndescs)
  /\ \A i, j \in 1 .. descx[h].ndescs : q[i] = q[j] => i = j

\* Free list p and lent chains C share no descriptor.
Layout(p, C) ==
  /\ IsFreeList(p)
  /\ \A h \in Lent : /\ IsLentChain(h, C[h])
                     /\ \A i \in 1 .. descx[h].ndescs, j \in 1 .. free_cnt : C[h][i] # p[j]
  /\ \A h, g \in Lent : h # g =>
       \A i \in 1 .. descx[h].ndescs, j \in 1 .. descx[g].ndescs : C[h][i] # C[g][j]

\* Every descriptor is free or part of a lent chain.
Covered(p, C) ==
  \A d \in DescIdx : \/ \E j \in 1 .. free_cnt : p[j] = d
                     \/ \E h \in Lent : \E i \in 1 .. descx[h].ndescs : C[h][i] = d

ChainLists == UNION {[1 .. k -> DescIdx] : k \in 1 .. MaxChain}

TableInv ==
  /\ free_cnt \in Nat
  /\ \A d \in DescIdx \ Lent : descx[d].ndescs = 0
  /\ \E p \in [1 .. free_cnt -> DescIdx] : \E C \in [Lent -> ChainLists] :
       Layout(p, C) /\ Covered(p, C)

\* Every buffer is with the driver's client or the cookie of one lent chain.
CookieInv ==
  /\ pool \subseteq Buffers
  /\ \A h \in Lent : desc[h].addr = descx[h].cookie /\ descx[h].cookie \notin pool
  /\ \A h, g \in Lent : descx[h].cookie = descx[g].cookie => h = g

VqInv == IInv /\ RingInv /\ TableInv /\ CookieInv

-----------------------------------------------------------------------------
(***************************************************************************)
(* A ring as the side that reads it sees it.                               *)
(***************************************************************************)
\* More uint16_t arithmetic.
LEMMA IndexMoves ==
  /\ \A a, b \in Index : a # b => Sub(a, Inc(b)) = Sub(a, b) - 1
  /\ \A a, b \in Index : b + Sub(a, b) \in {a, a + W}
  /\ \A a \in Index : Inc(a) + W - 1 \in {a, a + W}
  BY Sizes, SMT DEF Inc, Sub, Index

\* The slot of an index does not change when the index wraps, and indices less
\* than a ring apart have different slots.
LEMMA SlotFacts ==
  /\ \A x \in Nat : Slot(x + W) = Slot(x)
  /\ \A x \in Nat : \A j \in 1 .. N - 1 : Slot(x + j) # Slot(x)
<1>0. N \in Nat \ {0} /\ W \in Nat /\ W % N = 0
  BY SizeAssumption
<1>1. \A x \in Nat : Slot(x + W) = Slot(x)
  BY <1>0, ModWrap DEF Slot
<1>2. \A x \in Nat : \A j \in 1 .. N - 1 : Slot(x + j) # Slot(x)
  BY <1>0, ModDistinct DEF Slot
<1> QED
  BY <1>1, <1>2

\* The types of what belongs to one side.
LEMMA SideTypes ==
  ASSUME TypeOK, NEW s \in Side
  PROVE  /\ idx[s] \in Index /\ idx[s] \in Nat /\ cons[s] \in Index /\ cons[s] \in Nat
         /\ ring[s] \in [DescIdx -> DescIdx] /\ reg[s] \in DescIdx
         /\ pc[s] \in {"run", "publish", "take", "enable", "wait"}
<1>1. idx[s] \in Index /\ cons[s] \in Index
  BY DEF TypeOK
<1>2. /\ ring[s] \in [DescIdx -> DescIdx] /\ reg[s] \in DescIdx
      /\ pc[s] \in {"run", "publish", "take", "enable", "wait"}
  BY DEF TypeOK
<1>3. \A i \in Index : i \in Nat
  BY Sizes DEF Index
<1> QED
  BY <1>1, <1>2, <1>3

\* The unread entries of a ring are descriptor indices.
LEMMA UnreadType ==
  ASSUME TypeOK, NEW s \in Side
  PROVE  /\ Pending(s) \in Index /\ Pending(s) \in Nat
         /\ Unread(s) \in [1 .. Pending(s) -> DescIdx]
         /\ \A i \in 1 .. Pending(s) : Unread(s)[i] = ring[Peer(s)][Slot(cons[s] + i - 1)]
         /\ Coming(s) \subseteq DescIdx
         /\ \A i \in 1 .. Pending(s) : Unread(s)[i] \in Coming(s)
         /\ \A d \in Coming(s) : \E i \in 1 .. Pending(s) : Unread(s)[i] = d
<1>1. Pending(s) \in Index /\ Pending(s) \in Nat
  <2>1. idx[Peer(s)] \in Index /\ cons[s] \in Index
    BY Sides, SideTypes
  <2>2. Pending(s) \in Index
    BY <2>1, IndexArithmetic DEF Pending
  <2> QED
    BY <2>2, Sizes DEF Index
<1>2. \A i \in 1 .. Pending(s) : Slot(cons[s] + i - 1) \in DescIdx
  <2> SUFFICES ASSUME NEW i \in 1 .. Pending(s) PROVE Slot(cons[s] + i - 1) \in DescIdx
    OBVIOUS
  <2>1. cons[s] + i - 1 \in Nat
    BY <1>1, SideTypes
  <2> QED
    BY <2>1, SlotType
<1>3. ring[Peer(s)] \in [DescIdx -> DescIdx]
  BY Sides, SideTypes
<1>4. Unread(s) \in [1 .. Pending(s) -> DescIdx]
  BY <1>2, <1>3 DEF Unread
<1>5. \A i \in 1 .. Pending(s) : Unread(s)[i] = ring[Peer(s)][Slot(cons[s] + i - 1)]
  BY DEF Unread
<1>6. DOMAIN Unread(s) = 1 .. Pending(s)
  BY <1>4
<1> HIDE DEF Unread
<1> QED
  BY <1>1, <1>4, <1>5, <1>6 DEF Coming, Range

\* The entries that follow in a ring: those of another state are equal when the
\* values in their slots are.
LEMMA UnreadSame ==
  ASSUME NEW s \in Side, Pending(s)' = Pending(s),
         \A i \in 1 .. Pending(s) : (ring[Peer(s)][Slot(cons[s] + i - 1)])'
                                      = ring[Peer(s)][Slot(cons[s] + i - 1)]
  PROVE  Unread(s)' = Unread(s) /\ Coming(s)' = Coming(s)
<1>1. Unread(s)' = Unread(s)
  BY DEF Unread
<1> QED
  BY <1>1 DEF Coming

\* If one descriptor is neither unread nor in the reader's call, the ring has a
\* slot that the reader does not need.
LEMMA RingRoom ==
  ASSUME TypeOK, UnreadInv, NEW s \in Side, Coming(s) \cap InCall(s) = {},
         NEW d \in DescIdx, d \notin Coming(s), d \notin InCall(s)
  PROVE  Pending(s) + (IF pc[s] = "take" THEN 1 ELSE 0) < N
<1>1. /\ Pending(s) \in Nat /\ Coming(s) \subseteq DescIdx
      /\ Unread(s) \in [1 .. Pending(s) -> Coming(s)]
      /\ \A v \in Coming(s) : \E i \in 1 .. Pending(s) : Unread(s)[i] = v
  BY UnreadType
<1>2. IsFiniteSet(Coming(s)) /\ Cardinality(Coming(s)) = Pending(s)
  BY <1>1, DistinctValues DEF UnreadInv
<1>3. IsFiniteSet(DescIdx) /\ Cardinality(DescIdx) = N
  <2>1. IsFiniteSet(0 .. N - 1) /\ Cardinality(0 .. N - 1) = IF 0 > N - 1 THEN 0 ELSE N - 1 - 0 + 1
    BY Sizes, FS_Interval
  <2> QED
    BY <2>1, Sizes DEF DescIdx
<1>4. IsFiniteSet(DescIdx \ {d}) /\ Cardinality(DescIdx \ {d}) = N - 1
  BY <1>3, FS_RemoveElement
<1>5. CASE pc[s] = "take"
  <2>1. PICK h \in DescIdx : InCall(s) = {h}
    <3>1. ring[Peer(s)][reg[s]] \in DescIdx
      BY Sides, SideTypes
    <3> QED
      BY <1>5, <3>1 DEF InCall
  <2>2. IsFiniteSet(Coming(s) \cup {h}) /\ Cardinality(Coming(s) \cup {h}) = Pending(s) + 1
    BY <1>2, <2>1, FS_AddElement
  <2>3. Coming(s) \cup {h} \in SUBSET (DescIdx \ {d})
    BY <1>1, <2>1
  <2>4. Cardinality(Coming(s) \cup {h}) <= Cardinality(DescIdx \ {d})
    BY <1>4, <2>3, FS_Subset
  <2> QED
    BY <1>1, <1>4, <1>5, <2>2, <2>4, Sizes
<1>6. CASE pc[s] # "take"
  <2>1. Coming(s) \in SUBSET (DescIdx \ {d})
    BY <1>1
  <2>2. Cardinality(Coming(s)) <= Cardinality(DescIdx \ {d})
    BY <1>4, <2>1, FS_Subset
  <2> QED
    BY <1>1, <1>2, <1>4, <1>6, <2>2, Sizes
<1> QED
  BY <1>5, <1>6

\* The slot that a side writes is not one the other side has still to read.
LEMMA SlotFree ==
  ASSUME TypeOK, NEW s \in Side, Pending(s) + (IF pc[s] = "take" THEN 1 ELSE 0) < N
  PROVE  /\ \A i \in 1 .. Pending(s) : Slot(cons[s] + i - 1) # Slot(idx[Peer(s)])
         /\ pc[s] = "take" => Slot(cons[s] + W - 1) # Slot(idx[Peer(s)])
         /\ Slot(cons[s] + Pending(s)) = Slot(idx[Peer(s)])
<1>0. /\ Pending(s) \in Nat /\ cons[s] \in Index /\ cons[s] \in Nat
      /\ idx[Peer(s)] \in Index /\ idx[Peer(s)] \in Nat
  BY UnreadType, Sides, SideTypes
<1>1. Slot(cons[s] + Pending(s)) = Slot(idx[Peer(s)])
  <2>1. cons[s] + Pending(s) \in {idx[Peer(s)], idx[Peer(s)] + W}
    BY <1>0, IndexMoves DEF Pending
  <2> QED
    BY <1>0, <2>1, SlotFacts
<1>2. ASSUME NEW i \in 1 .. Pending(s)
      PROVE  Slot(cons[s] + i - 1) # Slot(idx[Peer(s)])
  <2>1. PICK x \in Nat : x = cons[s] + i - 1
    BY <1>0
  <2>2. PICK j \in 1 .. N - 1 : j = Pending(s) - i + 1
    BY <1>0, Sizes
  <2>3. x + j = cons[s] + Pending(s)
    BY <1>0, <2>1, <2>2
  <2>4. Slot(x + j) # Slot(x)
    BY SlotFacts
  <2> QED
    BY <1>1, <2>1, <2>3, <2>4
<1>3. ASSUME pc[s] = "take"
      PROVE  Slot(cons[s] + W - 1) # Slot(idx[Peer(s)])
  <2>1. PICK x \in Nat : x = cons[s] + W - 1
    BY <1>0, Sizes
  <2>2. PICK j \in 1 .. N - 1 : j = Pending(s) + 1
    BY <1>0, <1>3, Sizes
  <2>3. x + j = (cons[s] + Pending(s)) + W
    BY <1>0, <2>1, <2>2, Sizes
  <2>4. Slot(x + j) # Slot(x)
    BY SlotFacts
  <2>5. Slot((cons[s] + Pending(s)) + W) = Slot(cons[s] + Pending(s))
    <3>1. cons[s] + Pending(s) \in Nat
      BY <1>0
    <3> QED
      BY <3>1, SlotFacts
  <2> QED
    BY <1>1, <2>1, <2>3, <2>4, <2>5
<1> QED
  BY <1>1, <1>2, <1>3

\* The n entries of ring r from index c on.
Window(r, c, n) == [i \in 1 .. n |-> r[Slot(c + i - 1)]]

Injective(f, n) == \A i, j \in 1 .. n : f[i] = f[j] => i = j

\* A window is a list of descriptor indices.
LEMMA WindowType ==
  ASSUME NEW r \in [DescIdx -> DescIdx], NEW c \in Nat, NEW n \in Nat
  PROVE  /\ Window(r, c, n) \in [1 .. n -> DescIdx]
         /\ \A i \in 1 .. n : Window(r, c, n)[i] = r[Slot(c + i - 1)]
         /\ \A d \in Range(Window(r, c, n)) : \E i \in 1 .. n : d = r[Slot(c + i - 1)]
         /\ \A i \in 1 .. n : r[Slot(c + i - 1)] \in Range(Window(r, c, n))
<1>1. \A i \in 1 .. n : c + i - 1 \in Nat
  OBVIOUS
<1>2. \A i \in 1 .. n : r[Slot(c + i - 1)] \in DescIdx
  BY <1>1, SlotType
<1>3. Window(r, c, n) \in [1 .. n -> DescIdx] /\ DOMAIN Window(r, c, n) = 1 .. n
  BY <1>2 DEF Window
<1>4. \A i \in 1 .. n : Window(r, c, n)[i] = r[Slot(c + i - 1)]
  BY DEF Window
<1> HIDE DEF Window
<1> QED
  BY <1>3, <1>4 DEF Range

\* A window grows by the entry that is published.
LEMMA WindowGrows ==
  ASSUME NEW r \in [DescIdx -> DescIdx], NEW c \in Nat, NEW n \in Nat
  PROVE  /\ Range(Window(r, c, n + 1)) = Range(Window(r, c, n)) \cup {r[Slot(c + n)]}
         /\ Injective(Window(r, c, n), n) /\ r[Slot(c + n)] \notin Range(Window(r, c, n))
              => Injective(Window(r, c, n + 1), n + 1)
<1> DEFINE f == Window(r, c, n)
           g == Window(r, c, n + 1)
<1>0. n + 1 \in Nat /\ c + (n + 1) - 1 = c + n
  OBVIOUS
<1>1. /\ \A i \in 1 .. n : f[i] = r[Slot(c + i - 1)]
      /\ \A d \in Range(f) : \E i \in 1 .. n : d = r[Slot(c + i - 1)]
      /\ \A i \in 1 .. n : r[Slot(c + i - 1)] \in Range(f)
  BY WindowType
<1>2. /\ \A i \in 1 .. n + 1 : g[i] = r[Slot(c + i - 1)]
      /\ \A d \in Range(g) : \E i \in 1 .. n + 1 : d = r[Slot(c + i - 1)]
      /\ \A i \in 1 .. n + 1 : r[Slot(c + i - 1)] \in Range(g)
  BY <1>0, WindowType
<1> HIDE DEF f, g
<1>3. \A i \in 1 .. n + 1 : i \in 1 .. n \/ i = n + 1
  OBVIOUS
<1>4. \A i \in 1 .. n : i \in 1 .. n + 1 /\ n + 1 \in 1 .. n + 1
  OBVIOUS
<1>5. r[Slot(c + n)] = r[Slot(c + (n + 1) - 1)] /\ n + 1 \in 1 .. n + 1
  BY <1>0
<1>6. Range(g) = Range(f) \cup {r[Slot(c + n)]}
  <2>1. \A d \in Range(g) : d \in Range(f) \/ d = r[Slot(c + n)]
    BY <1>1, <1>2, <1>3, <1>5
  <2>2. \A d \in Range(f) : d \in Range(g)
    BY <1>1, <1>2, <1>4
  <2>3. r[Slot(c + n)] \in Range(g)
    BY <1>2, <1>5
  <2> QED
    BY <2>1, <2>2, <2>3
<1>7. ASSUME Injective(f, n), r[Slot(c + n)] \notin Range(f)
      PROVE  Injective(g, n + 1)
  <2>1. \A i \in 1 .. n : g[i] = f[i] /\ g[i] \in Range(f)
    BY <1>1, <1>2, <1>4
  <2>2. g[n + 1] = r[Slot(c + n)]
    BY <1>2, <1>5
  <2> QED
    BY <1>3, <1>7, <2>1, <2>2 DEF Injective
<1> QED
  BY <1>6, <1>7 DEF f, g

\* A window shrinks by the entry that is claimed.
LEMMA WindowShrinks ==
  ASSUME NEW r \in [DescIdx -> DescIdx], NEW c \in Index, NEW n \in Nat \ {0}
  PROVE  /\ r[Slot(c)] \in Range(Window(r, c, n))
         /\ Injective(Window(r, c, n), n) =>
              /\ Range(Window(r, Inc(c), n - 1)) = Range(Window(r, c, n)) \ {r[Slot(c)]}
              /\ Injective(Window(r, Inc(c), n - 1), n - 1)
<1> DEFINE f == Window(r, c, n)
           g == Window(r, Inc(c), n - 1)
<1>0. /\ c \in Nat /\ Inc(c) \in Nat /\ n - 1 \in Nat /\ n \in Nat
      /\ Inc(c) \in {c + 1, c + 1 - W} /\ W \in Nat
  BY Sizes DEF Index, Inc
<1>1. /\ \A i \in 1 .. n : f[i] = r[Slot(c + i - 1)]
      /\ \A d \in Range(f) : \E i \in 1 .. n : d = r[Slot(c + i - 1)]
      /\ \A i \in 1 .. n : r[Slot(c + i - 1)] \in Range(f)
  BY <1>0, WindowType
<1>2. /\ \A i \in 1 .. n - 1 : g[i] = r[Slot(Inc(c) + i - 1)]
      /\ \A d \in Range(g) : \E i \in 1 .. n - 1 : d = r[Slot(Inc(c) + i - 1)]
      /\ \A i \in 1 .. n - 1 : r[Slot(Inc(c) + i - 1)] \in Range(g)
  BY <1>0, WindowType
<1> HIDE DEF f, g
<1>3. \A i \in 1 .. n - 1 : Slot(Inc(c) + i - 1) = Slot(c + (i + 1) - 1) /\ i + 1 \in 1 .. n
  <2> SUFFICES ASSUME NEW i \in 1 .. n - 1
               PROVE  Slot(Inc(c) + i - 1) = Slot(c + (i + 1) - 1) /\ i + 1 \in 1 .. n
    OBVIOUS
  <2>1. i + 1 \in 1 .. n /\ Inc(c) + i - 1 \in Nat
    BY <1>0
  <2>2. CASE Inc(c) = c + 1
    BY <1>0, <2>1, <2>2
  <2>3. CASE Inc(c) = c + 1 - W
    <3>1. c + (i + 1) - 1 = (Inc(c) + i - 1) + W
      BY <1>0, <2>3
    <3>2. Slot((Inc(c) + i - 1) + W) = Slot(Inc(c) + i - 1)
      BY <2>1, SlotFacts
    <3> QED
      BY <2>1, <3>1, <3>2
  <2> QED
    BY <1>0, <2>2, <2>3
<1>4. 1 \in 1 .. n /\ c + 1 - 1 = c
  BY <1>0
<1>5. r[Slot(c)] \in Range(f) /\ f[1] = r[Slot(c)]
  BY <1>1, <1>4
<1>6. \A i \in 1 .. n - 1 : g[i] = f[i + 1]
  BY <1>1, <1>2, <1>3
<1>7. ASSUME Injective(f, n)
      PROVE  Range(g) = Range(f) \ {r[Slot(c)]} /\ Injective(g, n - 1)
  <2>1. Injective(g, n - 1)
    <3> SUFFICES ASSUME NEW i \in 1 .. n - 1, NEW j \in 1 .. n - 1, g[i] = g[j] PROVE i = j
      BY DEF Injective
    <3>1. f[i + 1] = f[j + 1] /\ i + 1 \in 1 .. n /\ j + 1 \in 1 .. n
      BY <1>3, <1>6
    <3>2. i + 1 = j + 1
      BY <1>7, <3>1 DEF Injective
    <3> QED
      BY <3>2
  <2>2. ASSUME NEW d \in Range(g) PROVE d \in Range(f) /\ d # r[Slot(c)]
    <3>1. PICK i \in 1 .. n - 1 : d = r[Slot(Inc(c) + i - 1)]
      BY <1>2
    <3>2. d = f[i + 1] /\ d \in Range(f) /\ i + 1 \in 1 .. n /\ i + 1 # 1
      BY <1>1, <1>3, <3>1
    <3> QED
      BY <1>4, <1>5, <1>7, <3>2 DEF Injective
  <2>3. ASSUME NEW d \in Range(f), d # r[Slot(c)] PROVE d \in Range(g)
    <3>1. PICK i \in 1 .. n : d = r[Slot(c + i - 1)]
      BY <1>1
    <3>2. i - 1 \in 1 .. n - 1 /\ c + ((i - 1) + 1) - 1 = c + i - 1
      BY <1>0, <1>4, <2>3, <3>1
    <3>3. d = r[Slot(Inc(c) + (i - 1) - 1)]
      BY <1>3, <3>1, <3>2
    <3> QED
      BY <1>2, <3>2, <3>3
  <2> QED
    BY <2>1, <2>2, <2>3
<1> QED
  BY <1>5, <1>7 DEF f, g

-----------------------------------------------------------------------------
(***************************************************************************)
(* What one step of a library call does to the two rings.                  *)
(***************************************************************************)
\* A window of a ring as it is in one state, or in the next.
LEMMA UnreadIsWindow ==
  ASSUME NEW s \in Side
  PROVE  /\ Unread(s) = Window(ring[Peer(s)], cons[s], Pending(s))
         /\ Unread(s)' = Window((ring[Peer(s)])', (cons[s])', Pending(s)')
  BY DEF Unread, Window

\* A step that moves no index and leaves both rings and the calls alone.
LEMMA RingQuiet ==
  ASSUME TypeOK, RegInv, UnreadInv,
         UNCHANGED <<ring, idx, cons, reg>>,
         \A s \in Side : pc[s]' # pc[s] => /\ pc[s] \notin {"publish", "take"}
                                           /\ pc[s]' \notin {"publish", "take"}
  PROVE  /\ \A s \in Side : /\ Pending(s)' = Pending(s)
                            /\ Unread(s)' = Unread(s)
                            /\ Coming(s)' = Coming(s)
                            /\ InCall(s)' = InCall(s)
         /\ RegInv' /\ UnreadInv'
<1>1. \A s \in Side : Pending(s)' = Pending(s) /\ Unread(s)' = Unread(s)
  BY DEF Pending, Unread
<1>2. \A s \in Side : Coming(s)' = Coming(s)
  BY <1>1 DEF Coming
<1>3. \A s \in Side : InCall(s)' = InCall(s)
  BY DEF InCall
<1>4. RegInv'
  BY DEF RegInv
<1>5. UnreadInv'
  BY <1>1 DEF UnreadInv
<1> QED
  BY <1>1, <1>2, <1>3, <1>4, <1>5

\* A side writes the slot behind its index: the other side sees nothing of it.
LEMMA RingWrite ==
  ASSUME TypeOK, RegInv, UnreadInv,
         NEW s \in Side, NEW h \in DescIdx, WriteSlot(s, h), pc[s] = "run",
         UNCHANGED <<idx, cons>>,
         Pending(Peer(s)) + (IF pc[Peer(s)] = "take" THEN 1 ELSE 0) < N
  PROVE  /\ \A u \in Side : /\ Pending(u)' = Pending(u)
                            /\ Unread(u)' = Unread(u)
                            /\ Coming(u)' = Coming(u)
         /\ InCall(s) = {} /\ InCall(s)' = {h}
         /\ InCall(Peer(s))' = InCall(Peer(s))
         /\ RegInv' /\ UnreadInv'
<1>0. PICK t \in Side : t = Peer(s) /\ s = Peer(t) /\ s # t
  BY Sides
<1>1. /\ ring' = [ring EXCEPT ![s] = [@ EXCEPT ![Slot(idx[s])] = h]]
      /\ reg' = [reg EXCEPT ![s] = h]
      /\ pc' = [pc EXCEPT ![s] = "publish"]
      /\ idx' = idx /\ cons' = cons
  BY DEF WriteSlot, Goto
<1>2. /\ ring'[t] = ring[t] /\ reg'[t] = reg[t] /\ pc'[t] = pc[t]
      /\ reg'[s] = h /\ pc'[s] = "publish"
      /\ ring'[s] = [ring[s] EXCEPT ![Slot(idx[s])] = h]
  BY <1>0, <1>1 DEF TypeOK
<1>3. \A u \in Side : u = s \/ u = t
  BY <1>0 DEF Side, Peer
<1>4. \A u \in Side : Pending(u)' = Pending(u)
  BY <1>1 DEF Pending
<1>5. /\ \A i \in 1 .. Pending(t) : Slot(cons[t] + i - 1) # Slot(idx[s])
      /\ pc[t] = "take" => Slot(cons[t] + W - 1) # Slot(idx[s])
  BY <1>0, SlotFree
<1>6. ring[s] \in [DescIdx -> DescIdx] /\ Slot(idx[s]) \in DescIdx /\ idx[s] \in Nat
  BY SideTypes, SlotType
<1>7. \A i \in 1 .. Pending(t) : ring'[s][Slot(cons[t] + i - 1)] = ring[s][Slot(cons[t] + i - 1)]
  <2> SUFFICES ASSUME NEW i \in 1 .. Pending(t)
               PROVE  ring'[s][Slot(cons[t] + i - 1)] = ring[s][Slot(cons[t] + i - 1)]
    OBVIOUS
  <2>1. cons[t] + i - 1 \in Nat
    BY SideTypes, UnreadType
  <2>2. Slot(cons[t] + i - 1) \in DescIdx
    BY <2>1, SlotType
  <2> QED
    BY <1>2, <1>5, <1>6, <2>2
<1>8. Unread(t)' = Unread(t) /\ Coming(t)' = Coming(t)
  BY <1>0, <1>1, <1>4, <1>7, UnreadSame
<1>9. Unread(s)' = Unread(s) /\ Coming(s)' = Coming(s)
  BY <1>0, <1>1, <1>2, <1>4, UnreadSame
<1>10. InCall(s) = {} /\ InCall(s)' = {h}
  BY <1>2 DEF InCall
<1>11. InCall(t)' = InCall(t)
  <2>1. CASE pc[t] = "take"
    <3>1. reg[t] = Slot(cons[t] + W - 1) /\ reg[t] \in DescIdx
      BY <2>1, SideTypes DEF RegInv
    <3>2. ring'[s][reg[t]] = ring[s][reg[t]]
      BY <1>2, <1>5, <1>6, <2>1, <3>1
    <3> QED
      BY <1>0, <1>2, <2>1, <3>2 DEF InCall
  <2>2. CASE pc[t] # "take"
    BY <1>0, <1>2, <2>2 DEF InCall
  <2> QED
    BY <2>1, <2>2
<1>12. RegInv'
  <2>1. (pc[s] = "publish" => ring[s][Slot(idx[s])] = reg[s])'
    BY <1>1, <1>2, <1>6
  <2>2. (pc[s] = "take" => reg[s] = Slot(cons[s] + W - 1))'
    BY <1>2
  <2>3. (pc[t] = "publish" => ring[t][Slot(idx[t])] = reg[t])'
    BY <1>1, <1>2 DEF RegInv
  <2>4. (pc[t] = "take" => reg[t] = Slot(cons[t] + W - 1))'
    BY <1>1, <1>2 DEF RegInv
  <2> QED
    BY <1>3, <2>1, <2>2, <2>3, <2>4 DEF RegInv
<1>13. UnreadInv'
  BY <1>3, <1>4, <1>8, <1>9 DEF UnreadInv
<1> QED
  BY <1>0, <1>3, <1>4, <1>8, <1>9, <1>10, <1>11, <1>12, <1>13

\* The index is published: the other side has one more entry to read.
LEMMA RingPublish ==
  ASSUME TypeOK, RegInv, UnreadInv, NEW s \in Side, Publish(s),
         Coming(Peer(s)) \cap InCall(Peer(s)) = {},
         Coming(Peer(s)) \cap InCall(s) = {},
         InCall(s) \cap InCall(Peer(s)) = {}
  PROVE  /\ InCall(s) = {reg[s]} /\ InCall(s)' = {}
         /\ InCall(Peer(s))' = InCall(Peer(s))
         /\ Pending(Peer(s)) < N /\ Pending(Peer(s))' = Pending(Peer(s)) + 1
         /\ Coming(Peer(s))' = Coming(Peer(s)) \cup {reg[s]}
         /\ Unread(Peer(s))' = [i \in 1 .. Pending(Peer(s)) + 1 |->
                                  IF i = Pending(Peer(s)) + 1 THEN reg[s] ELSE Unread(Peer(s))[i]]
         /\ Pending(s)' = Pending(s) /\ Unread(s)' = Unread(s) /\ Coming(s)' = Coming(s)
         /\ RegInv' /\ UnreadInv'
<1>0. PICK t \in Side : t = Peer(s) /\ s = Peer(t) /\ s # t
  BY Sides
<1>1. /\ pc[s] = "publish"
      /\ idx' = [idx EXCEPT ![s] = Inc(idx[s])]
      /\ reg' = [reg EXCEPT ![s] = 0]
      /\ pc' = [pc EXCEPT ![s] = "run"]
      /\ ring' = ring /\ cons' = cons
  BY DEF Publish, Return, Goto
<1>2. /\ idx'[t] = idx[t] /\ reg'[t] = reg[t] /\ pc'[t] = pc[t]
      /\ idx'[s] = Inc(idx[s]) /\ pc'[s] = "run"
  BY <1>0, <1>1 DEF TypeOK
<1>3. \A u \in Side : u = s \/ u = t
  BY <1>0 DEF Side, Peer
<1>4. InCall(s) = {reg[s]} /\ InCall(s)' = {}
  BY <1>1, <1>2 DEF InCall
<1>5. InCall(t)' = InCall(t)
  BY <1>0, <1>1, <1>2 DEF InCall
<1>6. Pending(s)' = Pending(s) /\ Unread(s)' = Unread(s) /\ Coming(s)' = Coming(s)
  <2>1. Pending(s)' = Pending(s)
    BY <1>0, <1>1, <1>2 DEF Pending
  <2> QED
    BY <1>1, <2>1, UnreadSame
<1>7. Pending(t) + (IF pc[t] = "take" THEN 1 ELSE 0) < N
  <2>1. reg[s] \in DescIdx /\ reg[s] \notin Coming(t) /\ reg[s] \notin InCall(t)
    BY <1>0, <1>4, SideTypes
  <2> QED
    BY <1>0, <2>1, RingRoom
<1>8. /\ Pending(t) \in Nat /\ Pending(t) < N
      /\ ring[s] \in [DescIdx -> DescIdx] /\ cons[t] \in Nat /\ cons[t] \in Index
      /\ idx[s] \in Index
  <2>1. Pending(t) \in Nat
    BY UnreadType
  <2>2. Pending(t) < N
    BY <1>7, <2>1, Sizes
  <2> QED
    BY <2>1, <2>2, SideTypes
<1>9. Pending(t)' = Pending(t) + 1
  <2>1. Pending(t) = Sub(idx[s], cons[t]) /\ Pending(t)' = Sub(Inc(idx[s]), cons[t])
    BY <1>0, <1>1, <1>2 DEF Pending
  <2>2. Pending(t) < W - 1
    BY <1>8, Sizes
  <2> QED
    BY <1>8, <2>1, <2>2, IndexArithmetic
<1>10. ring[s][Slot(cons[t] + Pending(t))] = reg[s]
  <2>1. Slot(cons[t] + Pending(t)) = Slot(idx[s])
    BY <1>0, <1>7, SlotFree
  <2> QED
    BY <1>1, <2>1 DEF RegInv
<1>11. PICK r \in [DescIdx -> DescIdx], c \in Nat, n \in Nat :
         r = ring[s] /\ c = cons[t] /\ n = Pending(t)
  BY <1>8
<1>12. Unread(t) = Window(r, c, n) /\ Unread(t)' = Window(r, c, n + 1)
  BY <1>0, <1>1, <1>9, <1>11, UnreadIsWindow
<1>13. Injective(Window(r, c, n), n)
  BY <1>11, <1>12 DEF UnreadInv, Injective
<1>14. Coming(t) = Range(Window(r, c, n)) /\ Coming(t)' = Range(Window(r, c, n + 1))
  BY <1>12 DEF Coming
<1>w. /\ Range(Window(r, c, n + 1)) = Range(Window(r, c, n)) \cup {r[Slot(c + n)]}
      /\ Injective(Window(r, c, n), n) /\ r[Slot(c + n)] \notin Range(Window(r, c, n))
           => Injective(Window(r, c, n + 1), n + 1)
  BY WindowGrows
<1>v. r[Slot(c + n)] = reg[s]
  BY <1>10, <1>11
<1>15. Coming(t)' = Coming(t) \cup {reg[s]}
  BY <1>14, <1>v, <1>w
<1>16. Injective(Unread(t)', n + 1)
  BY <1>0, <1>4, <1>12, <1>13, <1>14, <1>v, <1>w
<1>17. Unread(t)' = [i \in 1 .. Pending(t) + 1 |->
                       IF i = Pending(t) + 1 THEN reg[s] ELSE Unread(t)[i]]
  <2>1. ASSUME NEW i \in 1 .. n + 1
        PROVE  r[Slot(c + i - 1)] = IF i = n + 1 THEN reg[s] ELSE Window(r, c, n)[i]
    <3>1. CASE i = n + 1
      <4>1. c + i - 1 = c + n
        BY <3>1
      <4> QED
        BY <1>10, <1>11, <3>1, <4>1
    <3>2. CASE i # n + 1
      <4>1. i \in 1 .. n
        BY <3>2
      <4> QED
        BY <3>2, <4>1 DEF Window
    <3> QED
      BY <3>1, <3>2
  <2>2. Unread(t)' = [i \in 1 .. n + 1 |-> r[Slot(c + i - 1)]]
    BY <1>12 DEF Window
  <2> QED
    BY <1>11, <1>12, <2>1, <2>2
<1>18. RegInv'
  <2>1. (pc[s] = "publish" => ring[s][Slot(idx[s])] = reg[s])'
    BY <1>2
  <2>2. (pc[s] = "take" => reg[s] = Slot(cons[s] + W - 1))'
    BY <1>2
  <2>3. (pc[t] = "publish" => ring[t][Slot(idx[t])] = reg[t])'
    BY <1>1, <1>2 DEF RegInv
  <2>4. (pc[t] = "take" => reg[t] = Slot(cons[t] + W - 1))'
    BY <1>1, <1>2 DEF RegInv
  <2> QED
    BY <1>3, <2>1, <2>2, <2>3, <2>4 DEF RegInv
<1>19. UnreadInv'
  <2>1. \A i, j \in 1 .. Pending(t)' : Unread(t)'[i] = Unread(t)'[j] => i = j
    BY <1>9, <1>11, <1>16 DEF Injective
  <2>2. \A i, j \in 1 .. Pending(s)' : Unread(s)'[i] = Unread(s)'[j] => i = j
    BY <1>6 DEF UnreadInv
  <2> QED
    BY <1>3, <2>1, <2>2 DEF UnreadInv
<1> HIDE DEF Unread, Pending
<1> QED
  BY <1>0, <1>4, <1>5, <1>6, <1>8, <1>9, <1>15, <1>17, <1>18, <1>19

\* A get claims the oldest entry: it moves from the ring into the call.
LEMMA RingClaim ==
  ASSUME TypeOK, RegInv, UnreadInv, NEW s \in Side, Claim(s)
  PROVE  /\ Pending(s) > 0 /\ Pending(s)' = Pending(s) - 1
         /\ InCall(s) = {} /\ InCall(s)' = {Unread(s)[1]}
         /\ Unread(s)[1] \in Coming(s) /\ Coming(s)' = Coming(s) \ {Unread(s)[1]}
         /\ Unread(s)' = [i \in 1 .. Pending(s) - 1 |-> Unread(s)[i + 1]]
         /\ InCall(Peer(s))' = InCall(Peer(s))
         /\ Pending(Peer(s))' = Pending(Peer(s))
         /\ Unread(Peer(s))' = Unread(Peer(s))
         /\ Coming(Peer(s))' = Coming(Peer(s))
         /\ RegInv' /\ UnreadInv'
<1>0. PICK t \in Side : t = Peer(s) /\ s = Peer(t) /\ s # t
  BY Sides
<1>1. /\ pc[s] = "run" /\ cons[s] # idx[t]
      /\ cons' = [cons EXCEPT ![s] = Inc(cons[s])]
      /\ reg' = [reg EXCEPT ![s] = Slot(cons[s])]
      /\ pc' = [pc EXCEPT ![s] = "take"]
      /\ ring' = ring /\ idx' = idx
  BY <1>0 DEF Claim, Goto
<1>2. /\ cons'[t] = cons[t] /\ reg'[t] = reg[t] /\ pc'[t] = pc[t]
      /\ cons'[s] = Inc(cons[s]) /\ pc'[s] = "take" /\ reg'[s] = Slot(cons[s])
  BY <1>0, <1>1 DEF TypeOK
<1>3. \A u \in Side : u = s \/ u = t
  BY <1>0 DEF Side, Peer
<1>4. /\ Pending(t)' = Pending(t) /\ Unread(t)' = Unread(t) /\ Coming(t)' = Coming(t)
  <2>1. Pending(t)' = Pending(t)
    BY <1>0, <1>1, <1>2 DEF Pending
  <2> QED
    BY <1>1, <1>2, <2>1, UnreadSame
<1>5. InCall(t)' = InCall(t)
  BY <1>0, <1>1, <1>2 DEF InCall
<1>6. /\ Pending(s) \in Nat /\ ring[t] \in [DescIdx -> DescIdx]
      /\ cons[s] \in Index /\ idx[t] \in Index /\ cons[s] \in Nat
  BY UnreadType, SideTypes
<1>7. Pending(s) > 0 /\ Pending(s)' = Pending(s) - 1
  <2>1. Pending(s) = Sub(idx[t], cons[s]) /\ Pending(s)' = Sub(idx[t], Inc(cons[s]))
    BY <1>0, <1>1, <1>2 DEF Pending
  <2>2. Sub(idx[t], cons[s]) # 0 /\ Sub(idx[t], Inc(cons[s])) = Sub(idx[t], cons[s]) - 1
    BY <1>1, <1>6, IndexArithmetic, IndexMoves
  <2> QED
    BY <1>6, <2>1, <2>2
<1>8. PICK r \in [DescIdx -> DescIdx], c \in Index, n \in Nat \ {0} :
         r = ring[t] /\ c = cons[s] /\ n = Pending(s)
  BY <1>6, <1>7
<1>9. Unread(s) = Window(r, c, n) /\ Unread(s)' = Window(r, Inc(c), n - 1)
  BY <1>0, <1>1, <1>2, <1>7, <1>8, UnreadIsWindow
<1>10. Coming(s) = Range(Window(r, c, n)) /\ Coming(s)' = Range(Window(r, Inc(c), n - 1))
  BY <1>9 DEF Coming
<1>11. Injective(Window(r, c, n), n)
  BY <1>8, <1>9 DEF UnreadInv, Injective
<1>12. Unread(s)[1] = r[Slot(c)]
  <2>1. c \in Nat /\ c + 1 - 1 = c /\ 1 \in 1 .. n
    BY <1>8, <1>6
  <2> QED
    BY <1>9, <2>1 DEF Window
<1>13. InCall(s) = {} /\ InCall(s)' = {Unread(s)[1]}
  BY <1>0, <1>1, <1>2, <1>8, <1>12 DEF InCall
<1>14. Unread(s)[1] \in Coming(s) /\ Coming(s)' = Coming(s) \ {Unread(s)[1]}
  BY <1>10, <1>11, <1>12, WindowShrinks
<1>15. Injective(Unread(s)', n - 1)
  BY <1>9, <1>11, WindowShrinks
<1>16. Unread(s)' = [i \in 1 .. Pending(s) - 1 |-> Unread(s)[i + 1]]
  <2>0. c \in Nat /\ Inc(c) \in Nat /\ n \in Nat /\ Inc(c) \in {c + 1, c + 1 - W} /\ W \in Nat
    BY Sizes DEF Index, Inc
  <2>1. ASSUME NEW i \in 1 .. n - 1
        PROVE  r[Slot(Inc(c) + i - 1)] = Window(r, c, n)[i + 1]
    <3>1. i + 1 \in 1 .. n /\ Inc(c) + i - 1 \in Nat
      BY <2>0
    <3>2. Slot(Inc(c) + i - 1) = Slot(c + (i + 1) - 1)
      <4>2. CASE Inc(c) = c + 1
        BY <2>0, <3>1, <4>2
      <4>3. CASE Inc(c) = c + 1 - W
        <5>1. c + (i + 1) - 1 = (Inc(c) + i - 1) + W
          BY <2>0, <4>3
        <5>2. Slot((Inc(c) + i - 1) + W) = Slot(Inc(c) + i - 1)
          BY <3>1, SlotFacts
        <5> QED
          BY <3>1, <5>1, <5>2
      <4> QED
        BY <2>0, <4>2, <4>3
    <3>3. Window(r, c, n)[i + 1] = r[Slot(c + (i + 1) - 1)]
      BY <3>1 DEF Window
    <3> QED
      BY <3>2, <3>3
  <2>2. Unread(s)' = [i \in 1 .. n - 1 |-> r[Slot(Inc(c) + i - 1)]]
    BY <1>9 DEF Window
  <2> QED
    BY <1>8, <1>9, <2>1, <2>2
<1>17. RegInv'
  <2>1. (pc[s] = "publish" => ring[s][Slot(idx[s])] = reg[s])'
    BY <1>2
  <2>2. (pc[s] = "take" => reg[s] = Slot(cons[s] + W - 1))'
    <3>1. Inc(cons[s]) + W - 1 \in {cons[s], cons[s] + W}
      BY <1>6, IndexMoves
    <3>2. Slot(Inc(cons[s]) + W - 1) = Slot(cons[s])
      BY <1>6, <3>1, SlotFacts
    <3> QED
      BY <1>2, <3>2
  <2>3. (pc[t] = "publish" => ring[t][Slot(idx[t])] = reg[t])'
    BY <1>1, <1>2 DEF RegInv
  <2>4. (pc[t] = "take" => reg[t] = Slot(cons[t] + W - 1))'
    BY <1>1, <1>2 DEF RegInv
  <2> QED
    BY <1>3, <2>1, <2>2, <2>3, <2>4 DEF RegInv
<1>18. UnreadInv'
  <2>1. \A i, j \in 1 .. Pending(s)' : Unread(s)'[i] = Unread(s)'[j] => i = j
    BY <1>7, <1>8, <1>15 DEF Injective
  <2>2. \A i, j \in 1 .. Pending(t)' : Unread(t)'[i] = Unread(t)'[j] => i = j
    BY <1>4 DEF UnreadInv
  <2> QED
    BY <1>3, <2>1, <2>2 DEF UnreadInv
<1> HIDE DEF Unread, Pending
<1> QED
  BY <1>0, <1>4, <1>5, <1>7, <1>13, <1>14, <1>16, <1>17, <1>18

\* The get reads the slot it claimed and returns.
LEMMA RingReturn ==
  ASSUME TypeOK, RegInv, UnreadInv, NEW s \in Side, pc[s] = "take", Return(s),
         UNCHANGED <<ring, idx, cons>>
  PROVE  /\ InCall(s) = {ring[Peer(s)][reg[s]]} /\ InCall(s)' = {}
         /\ InCall(Peer(s))' = InCall(Peer(s))
         /\ \A u \in Side : /\ Pending(u)' = Pending(u)
                            /\ Unread(u)' = Unread(u)
                            /\ Coming(u)' = Coming(u)
         /\ RegInv' /\ UnreadInv'
<1>0. PICK t \in Side : t = Peer(s) /\ s = Peer(t) /\ s # t
  BY Sides
<1>1. /\ reg' = [reg EXCEPT ![s] = 0]
      /\ pc' = [pc EXCEPT ![s] = "run"]
      /\ ring' = ring /\ cons' = cons /\ idx' = idx
  BY DEF Return, Goto
<1>2. reg'[t] = reg[t] /\ pc'[t] = pc[t] /\ pc'[s] = "run"
  BY <1>0, <1>1 DEF TypeOK
<1>3. \A u \in Side : u = s \/ u = t
  BY <1>0 DEF Side, Peer
<1>4. \A u \in Side : Pending(u)' = Pending(u) /\ Unread(u)' = Unread(u)
  BY <1>1 DEF Pending, Unread
<1>5. \A u \in Side : Coming(u)' = Coming(u)
  BY <1>4 DEF Coming
<1>6. InCall(s) = {ring[Peer(s)][reg[s]]} /\ InCall(s)' = {}
  BY <1>2 DEF InCall
<1>7. InCall(t)' = InCall(t)
  BY <1>0, <1>1, <1>2 DEF InCall
<1>8. RegInv'
  <2>1. (pc[s] = "publish" => ring[s][Slot(idx[s])] = reg[s])'
    BY <1>2
  <2>2. (pc[s] = "take" => reg[s] = Slot(cons[s] + W - 1))'
    BY <1>2
  <2>3. (pc[t] = "publish" => ring[t][Slot(idx[t])] = reg[t])'
    BY <1>1, <1>2 DEF RegInv
  <2>4. (pc[t] = "take" => reg[t] = Slot(cons[t] + W - 1))'
    BY <1>1, <1>2 DEF RegInv
  <2> QED
    BY <1>3, <2>1, <2>2, <2>3, <2>4 DEF RegInv
<1>9. UnreadInv'
  BY <1>4 DEF UnreadInv
<1> QED
  BY <1>0, <1>4, <1>5, <1>6, <1>7, <1>8, <1>9

-----------------------------------------------------------------------------
(***************************************************************************)
(* A lent chain stays in one place.                                        *)
(***************************************************************************)
\* virtqueue_add_buffer lends a chain that starts at a free descriptor.
LEMMA AddLends ==
  ASSUME TypeOK, TableInv, NEW b \in Buffers, NEW k \in 1 .. MaxChain, Lends(b, k)
  PROVE  /\ head_idx \in DescIdx /\ head_idx \notin Lent
         /\ Lent' = Lent \cup {head_idx}
<1>1. PICK p \in [1 .. free_cnt -> DescIdx] : IsFreeList(p)
  BY DEF TableInv, Layout
<1>2. free_cnt \in Nat /\ k <= free_cnt /\ 1 \in 1 .. free_cnt
  BY Sizes DEF TableInv, Lends, LendChain
<1>3. head_idx = p[1] /\ descx[p[1]].cookie = NoBuf /\ p[1] \in DescIdx
  BY <1>1, <1>2 DEF IsFreeList
<1>4. descx \in [DescIdx -> [cookie : Buffers \cup {NoBuf}, ndescs : Int]]
  BY DEF TypeOK
<1>5. descx' = [descx EXCEPT ![head_idx] = [cookie |-> b, ndescs |-> k]]
  BY DEF Lends, LendChain
<1>6. b # NoBuf
  BY SizeAssumption
<1>7. \A d \in DescIdx : (descx'[d].cookie # NoBuf) <=> (d = head_idx \/ descx[d].cookie # NoBuf)
  BY <1>3, <1>4, <1>5, <1>6
<1> QED
  BY <1>3, <1>7 DEF Lent

\* vq_ring_free_chain takes back the chain that starts at h.
LEMMA TakeReclaims ==
  ASSUME TypeOK, NEW h \in DescIdx, FreeChain(h)
  PROVE  Lent' = Lent \ {h}
<1>1. descx \in [DescIdx -> [cookie : Buffers \cup {NoBuf}, ndescs : Int]]
  BY DEF TypeOK
<1>2. PICK k \in 1 .. MaxChain :
        descx' = [descx EXCEPT ![h] = [cookie |-> NoBuf, ndescs |-> @.ndescs - k]]
  BY DEF FreeChain
<1>3. \A d \in DescIdx : (descx'[d].cookie # NoBuf) <=> (d # h /\ descx[d].cookie # NoBuf)
  BY <1>1, <1>2
<1> QED
  BY <1>3 DEF Lent

\* PlaceInv with one conjunct per pair of places.
LEMMA PlaceParts ==
  PlaceInv <=>
    /\ InCall("drv") \cap held = {} /\ InCall("dev") \cap held = {}
    /\ Coming("drv") \cap held = {} /\ Coming("dev") \cap held = {}
    /\ Coming("drv") \cap InCall("drv") = {} /\ Coming("drv") \cap InCall("dev") = {}
    /\ Coming("dev") \cap InCall("drv") = {} /\ Coming("dev") \cap InCall("dev") = {}
    /\ InCall("drv") \cap InCall("dev") = {} /\ Coming("drv") \cap Coming("dev") = {}
    /\ Lent = InCall("drv") \cup InCall("dev") \cup Coming("drv") \cup Coming("dev") \cup held
  BY DEF PlaceInv, Side

\* Every step keeps the slots, the unread entries and the places apart.
LEMMA PlaceStep ==
  ASSUME TypeOK, RegInv, UnreadInv, PlaceInv, TableInv, [InsideNext]_vars
  PROVE  RegInv' /\ UnreadInv' /\ PlaceInv'
<1>0. /\ "drv" \in Side /\ "dev" \in Side
      /\ Peer("drv") = "dev" /\ Peer("dev") = "drv"
      /\ \A s \in Side : s = "drv" \/ s = "dev"
  BY DEF Side, Peer
<1>p. /\ InCall("drv") \cap held = {} /\ InCall("dev") \cap held = {}
      /\ Coming("drv") \cap held = {} /\ Coming("dev") \cap held = {}
      /\ Coming("drv") \cap InCall("drv") = {} /\ Coming("drv") \cap InCall("dev") = {}
      /\ Coming("dev") \cap InCall("drv") = {} /\ Coming("dev") \cap InCall("dev") = {}
      /\ InCall("drv") \cap InCall("dev") = {} /\ Coming("drv") \cap Coming("dev") = {}
      /\ Lent = InCall("drv") \cup InCall("dev") \cup Coming("drv") \cup Coming("dev") \cup held
  BY PlaceParts
<1>q. ASSUME /\ InCall("drv")' \cap held' = {} /\ InCall("dev")' \cap held' = {}
             /\ Coming("drv")' \cap held' = {} /\ Coming("dev")' \cap held' = {}
             /\ Coming("drv")' \cap InCall("drv")' = {} /\ Coming("drv")' \cap InCall("dev")' = {}
             /\ Coming("dev")' \cap InCall("drv")' = {} /\ Coming("dev")' \cap InCall("dev")' = {}
             /\ InCall("drv")' \cap InCall("dev")' = {} /\ Coming("drv")' \cap Coming("dev")' = {}
             /\ Lent' = InCall("drv")' \cup InCall("dev")' \cup Coming("drv")'
                          \cup Coming("dev")' \cup held'
      PROVE  PlaceInv'
  BY <1>q, <1>0 DEF PlaceInv
<1>r. ASSUME UNCHANGED <<ring, idx, cons, reg>>, UNCHANGED <<descx, held>>,
             \A s \in Side : pc[s]' # pc[s] => /\ pc[s] \notin {"publish", "take"}
                                               /\ pc[s]' \notin {"publish", "take"}
      PROVE  RegInv' /\ UnreadInv' /\ PlaceInv'
  <2>1. \A s \in Side : Coming(s)' = Coming(s) /\ InCall(s)' = InCall(s)
    BY <1>r, RingQuiet
  <2>2. RegInv' /\ UnreadInv'
    BY <1>r, RingQuiet
  <2>3. Lent' = Lent /\ held' = held
    BY <1>r DEF Lent
  <2> QED
    BY <1>0, <1>p, <1>q, <2>1, <2>2, <2>3
<1>1. ASSUME NEW b \in Buffers, NEW k \in 1 .. MaxChain, Lends(b, k)
      PROVE  RegInv' /\ UnreadInv' /\ PlaceInv'
  <2>1. PICK h \in DescIdx : h = head_idx
    BY <1>1, AddLends
  <2>2. h \notin Lent /\ Lent' = Lent \cup {h}
    BY <1>1, <2>1, AddLends
  <2>3. WriteSlot("drv", h) /\ pc["drv"] = "run" /\ UNCHANGED <<idx, cons>> /\ held' = held
    BY <1>1, <2>1 DEF Lends, LendChain
  <2>4. Pending("dev") + (IF pc["dev"] = "take" THEN 1 ELSE 0) < N
    BY <1>0, <1>p, <2>2, RingRoom
  <2>5. /\ Coming("drv")' = Coming("drv") /\ Coming("dev")' = Coming("dev")
        /\ InCall("drv") = {} /\ InCall("drv")' = {h} /\ InCall("dev")' = InCall("dev")
        /\ RegInv' /\ UnreadInv'
    <3>1. Pending(Peer("drv")) + (IF pc[Peer("drv")] = "take" THEN 1 ELSE 0) < N
      BY <1>0, <2>4
    <3> QED
      BY <1>0, <2>3, <3>1, RingWrite
  <2> QED
    BY <1>p, <1>q, <2>2, <2>3, <2>5
<1>2. ASSUME NEW h \in DescIdx, AddConsumed(h)
      PROVE  RegInv' /\ UnreadInv' /\ PlaceInv'
  <2>1. h \in held /\ held' = held \ {h} /\ descx' = descx
    BY <1>2 DEF AddConsumed, tableVars
  <2>2. Lent' = Lent
    BY <2>1 DEF Lent
  <2>3. WriteSlot("dev", h) /\ pc["dev"] = "run" /\ UNCHANGED <<idx, cons>>
    BY <1>2 DEF AddConsumed
  <2>4. Pending("drv") + (IF pc["drv"] = "take" THEN 1 ELSE 0) < N
    BY <1>0, <1>p, <2>1, RingRoom
  <2>5. /\ Coming("drv")' = Coming("drv") /\ Coming("dev")' = Coming("dev")
        /\ InCall("dev") = {} /\ InCall("dev")' = {h} /\ InCall("drv")' = InCall("drv")
        /\ RegInv' /\ UnreadInv'
    <3>1. Pending(Peer("dev")) + (IF pc[Peer("dev")] = "take" THEN 1 ELSE 0) < N
      BY <1>0, <2>4
    <3> QED
      BY <1>0, <2>3, <3>1, RingWrite
  <2> QED
    BY <1>p, <1>q, <2>1, <2>2, <2>5
<1>3. CASE TakeAvailable
  <2>1. /\ pc["dev"] = "take" /\ Return("dev") /\ UNCHANGED <<ring, idx, cons>>
        /\ held' = held \cup {ring["drv"][reg["dev"]]} /\ descx' = descx
    BY <1>3 DEF TakeAvailable, tableVars
  <2>2. Lent' = Lent
    BY <2>1 DEF Lent
  <2>3. /\ Coming("drv")' = Coming("drv") /\ Coming("dev")' = Coming("dev")
        /\ InCall("dev") = {ring["drv"][reg["dev"]]} /\ InCall("dev")' = {}
        /\ InCall("drv")' = InCall("drv")
        /\ RegInv' /\ UnreadInv'
    BY <1>0, <2>1, RingReturn
  <2> QED
    BY <1>p, <1>q, <2>1, <2>2, <2>3
<1>4. CASE TakeUsed
  <2>0. PICK h \in DescIdx : h = ring["dev"][reg["drv"]]
    BY <1>0, SideTypes
  <2>1. /\ pc["drv"] = "take" /\ Return("drv") /\ UNCHANGED <<ring, idx, cons>>
        /\ held' = held /\ FreeChain(h)
    BY <1>4, <2>0 DEF TakeUsed
  <2>2. Lent' = Lent \ {h}
    BY <2>1, TakeReclaims
  <2>3. /\ Coming("drv")' = Coming("drv") /\ Coming("dev")' = Coming("dev")
        /\ InCall("drv") = {h} /\ InCall("drv")' = {}
        /\ InCall("dev")' = InCall("dev")
        /\ RegInv' /\ UnreadInv'
    BY <1>0, <2>0, <2>1, RingReturn
  <2> QED
    BY <1>p, <1>q, <2>1, <2>2, <2>3
<1>5. ASSUME NEW s \in Side, Publish(s)
      PROVE  RegInv' /\ UnreadInv' /\ PlaceInv'
  <2>1. held' = held /\ descx' = descx
    BY <1>5 DEF Publish, tableVars
  <2>2. Lent' = Lent
    BY <2>1 DEF Lent
  <2>3. /\ Coming(Peer(s)) \cap InCall(Peer(s)) = {}
        /\ Coming(Peer(s)) \cap InCall(s) = {}
        /\ InCall(s) \cap InCall(Peer(s)) = {}
    BY <1>0, <1>p
  <2>4. /\ InCall(s) = {reg[s]} /\ InCall(s)' = {} /\ InCall(Peer(s))' = InCall(Peer(s))
        /\ Coming(Peer(s))' = Coming(Peer(s)) \cup {reg[s]} /\ Coming(s)' = Coming(s)
        /\ RegInv' /\ UnreadInv'
    BY <1>5, <2>3, RingPublish
  <2>5. CASE s = "drv"
    BY <1>0, <1>p, <1>q, <2>1, <2>2, <2>4, <2>5
  <2>6. CASE s = "dev"
    BY <1>0, <1>p, <1>q, <2>1, <2>2, <2>4, <2>6
  <2> QED
    BY <1>0, <2>5, <2>6
<1>6. ASSUME NEW s \in Side, Claim(s)
      PROVE  RegInv' /\ UnreadInv' /\ PlaceInv'
  <2>1. held' = held /\ descx' = descx
    BY <1>6 DEF Claim, tableVars
  <2>2. Lent' = Lent
    BY <2>1 DEF Lent
  <2>4. /\ InCall(s) = {} /\ InCall(s)' = {Unread(s)[1]}
        /\ Unread(s)[1] \in Coming(s) /\ Coming(s)' = Coming(s) \ {Unread(s)[1]}
        /\ InCall(Peer(s))' = InCall(Peer(s))
        /\ Coming(Peer(s))' = Coming(Peer(s))
        /\ RegInv' /\ UnreadInv'
    BY <1>6, RingClaim
  <2>5. CASE s = "drv"
    BY <1>0, <1>p, <1>q, <2>1, <2>2, <2>4, <2>5
  <2>6. CASE s = "dev"
    BY <1>0, <1>p, <1>q, <2>1, <2>2, <2>4, <2>6
  <2> QED
    BY <1>0, <2>5, <2>6
<1>7. ASSUME NEW s \in Side, Kick(s) \/ DisableCb(s) \/ EnableCb(s)
                               \/ RecheckAfterEnable(s) \/ Notified(s) \/ Resume(s)
      PROVE  RegInv' /\ UnreadInv' /\ PlaceInv'
  <2>1. UNCHANGED <<ring, idx, cons, reg>> /\ UNCHANGED <<descx, held>>
    BY <1>7 DEF Kick, DisableCb, EnableCb, RecheckAfterEnable, Notified, Resume, tableVars
  <2>2. \/ pc' = pc
        \/ /\ pc[s] \in {"run", "enable", "wait"}
           /\ \E to \in {"run", "enable", "wait"} : pc' = [pc EXCEPT ![s] = to]
    BY <1>7 DEF Kick, DisableCb, EnableCb, RecheckAfterEnable, Notified, Resume, Goto
  <2>3. \A u \in Side : pc[u]' # pc[u] => /\ pc[u] \notin {"publish", "take"}
                                          /\ pc[u]' \notin {"publish", "take"}
    BY <2>2 DEF TypeOK
  <2> QED
    BY <1>r, <2>1, <2>3
<1>8. CASE UNCHANGED vars
  BY <1>8, <1>r DEF vars
<1> QED
  BY <1>1, <1>2, <1>3, <1>4, <1>5, <1>6, <1>7, <1>8 DEF InsideNext, SideStep

\* The descriptor table has N entries; any set of descriptors is finite.
LEMMA TableSize ==
  /\ IsFiniteSet(DescIdx) /\ Cardinality(DescIdx) = N
  /\ \A S \in SUBSET DescIdx : /\ IsFiniteSet(S) /\ Cardinality(S) \in Nat
                               /\ Cardinality(S) <= N
<1>1. IsFiniteSet(0 .. N - 1) /\ Cardinality(0 .. N - 1) = IF 0 > N - 1 THEN 0 ELSE N - 1 - 0 + 1
  BY Sizes, FS_Interval
<1>2. IsFiniteSet(DescIdx) /\ Cardinality(DescIdx) = N
  BY <1>1, Sizes DEF DescIdx
<1>3. ASSUME NEW S \in SUBSET DescIdx
      PROVE  IsFiniteSet(S) /\ Cardinality(S) \in Nat /\ Cardinality(S) <= N
  <2>1. IsFiniteSet(S) /\ Cardinality(S) <= Cardinality(DescIdx)
    BY <1>2, FS_Subset
  <2> QED
    BY <1>2, <2>1, FS_CardinalityType
<1> QED
  BY <1>2, <1>3

\* A side has as many unread entries as there are heads in them.
LEMMA ComingCard ==
  ASSUME TypeOK, UnreadInv, NEW s \in Side
  PROVE  IsFiniteSet(Coming(s)) /\ Cardinality(Coming(s)) = Pending(s)
<1>1. /\ Pending(s) \in Nat
      /\ Unread(s) \in [1 .. Pending(s) -> Coming(s)]
      /\ \A v \in Coming(s) : \E i \in 1 .. Pending(s) : Unread(s)[i] = v
  BY UnreadType
<1> QED
  BY <1>1, DistinctValues DEF UnreadInv

\* Every step keeps the count of what the device has taken and not returned.
LEMMA CountStep ==
  ASSUME TypeOK, RegInv, UnreadInv, PlaceInv, CountInv, [InsideNext]_vars
  PROVE  CountInv'
<1> DEFINE M == Sub(cons["dev"], idx["dev"])
<1>0. /\ "drv" \in Side /\ "dev" \in Side
      /\ Peer("drv") = "dev" /\ Peer("dev") = "drv"
      /\ \A s \in Side : s = "drv" \/ s = "dev"
  BY DEF Side, Peer
<1>h. /\ held \in SUBSET DescIdx /\ IsFiniteSet(held)
      /\ Cardinality(held) \in Nat /\ Cardinality(held) <= N
  <2>1. held \in SUBSET DescIdx
    BY DEF TypeOK
  <2> QED
    BY <2>1, TableSize
<1>i. /\ cons["dev"] \in Index /\ idx["dev"] \in Index
      /\ cons["dev"] \in Nat /\ idx["dev"] \in Nat /\ M \in Index
  BY <1>0, SideTypes, IndexArithmetic
<1>c. M = Cardinality(held) + (IF pc["dev"] \in {"publish", "take"} THEN 1 ELSE 0)
  BY DEF CountInv
<1>r. ASSUME cons'["dev"] = cons["dev"], idx'["dev"] = idx["dev"], held' = held,
             pc'["dev"] \in {"publish", "take"} <=> pc["dev"] \in {"publish", "take"}
      PROVE  CountInv'
  BY <1>r DEF CountInv
<1> HIDE DEF M
<1>1. ASSUME NEW b \in Buffers, NEW k \in 1 .. MaxChain, Lends(b, k)
      PROVE  CountInv'
  <2>1. pc' = [pc EXCEPT !["drv"] = "publish"] /\ UNCHANGED <<idx, cons, held>>
    BY <1>1 DEF Lends, LendChain, WriteSlot, Goto
  <2>2. pc'["dev"] = pc["dev"]
    BY <2>1 DEF TypeOK
  <2> QED
    BY <1>r, <2>1, <2>2
<1>2. ASSUME NEW h \in DescIdx, AddConsumed(h)
      PROVE  CountInv'
  <2>1. /\ pc["dev"] = "run" /\ pc' = [pc EXCEPT !["dev"] = "publish"]
        /\ UNCHANGED <<idx, cons>> /\ h \in held /\ held' = held \ {h}
    BY <1>2 DEF AddConsumed, WriteSlot, Goto
  <2>2. pc'["dev"] = "publish"
    BY <1>0, <2>1 DEF TypeOK
  <2>3. Cardinality(held \ {h}) = Cardinality(held) - 1
    BY <1>h, <2>1, FS_RemoveElement
  <2>4. M = Cardinality(held)
    BY <1>c, <1>h, <2>1
  <2>5. M = Cardinality(held') + 1
    BY <1>h, <2>1, <2>3, <2>4
  <2> QED
    BY <2>1, <2>2, <2>5 DEF CountInv, M
<1>3. CASE TakeAvailable
  <2>1. /\ pc["dev"] = "take" /\ pc' = [pc EXCEPT !["dev"] = "run"] /\ Return("dev")
        /\ UNCHANGED <<ring, idx, cons>> /\ held' = held \cup {ring["drv"][reg["dev"]]}
    BY <1>3 DEF TakeAvailable, Return, Goto
  <2>2. pc'["dev"] = "run"
    BY <1>0, <2>1 DEF TypeOK
  <2>3. PICK h \in DescIdx : h = ring["drv"][reg["dev"]]
    BY <1>0, SideTypes
  <2>4. InCall("dev") = {h}
    BY <1>0, <2>1, <2>3 DEF InCall
  <2>5. h \notin held
    BY <1>0, <2>4 DEF PlaceInv
  <2>6. Cardinality(held \cup {h}) = Cardinality(held) + 1
    BY <1>h, <2>5, FS_AddElement
  <2>7. M = Cardinality(held) + 1
    BY <1>c, <1>h, <2>1
  <2>8. M = Cardinality(held') + 0
    BY <1>h, <2>1, <2>3, <2>6, <2>7
  <2> QED
    BY <2>1, <2>2, <2>8 DEF CountInv, M
<1>4. CASE TakeUsed
  <2>1. pc' = [pc EXCEPT !["drv"] = "run"] /\ UNCHANGED <<idx, cons, held>>
    BY <1>4 DEF TakeUsed, Return, Goto
  <2>2. pc'["dev"] = pc["dev"]
    BY <2>1 DEF TypeOK
  <2> QED
    BY <1>r, <2>1, <2>2
<1>5. ASSUME NEW s \in Side, Publish(s)
      PROVE  CountInv'
  <2>1. /\ pc[s] = "publish" /\ pc' = [pc EXCEPT ![s] = "run"]
        /\ UNCHANGED <<cons, held>> /\ idx' = [idx EXCEPT ![s] = Inc(idx[s])]
    BY <1>5 DEF Publish, Return, Goto
  <2>2. CASE s = "drv"
    <3>1. pc'["dev"] = pc["dev"] /\ idx'["dev"] = idx["dev"]
      BY <1>0, <2>1, <2>2 DEF TypeOK
    <3> QED
      BY <1>r, <2>1, <3>1
  <2>3. CASE s = "dev"
    <3>1. pc'["dev"] = "run" /\ idx'["dev"] = Inc(idx["dev"]) /\ pc["dev"] = "publish"
      BY <1>0, <2>1, <2>3 DEF TypeOK
    <3>2. M = Cardinality(held) + 1 /\ M # 0
      BY <1>c, <1>h, <3>1
    <3>3. cons["dev"] # idx["dev"]
      BY <1>i, <3>2, IndexArithmetic DEF M
    <3>4. Sub(cons["dev"], Inc(idx["dev"])) = M - 1
      BY <1>i, <3>3, IndexMoves DEF M
    <3>5. Sub(cons["dev"], Inc(idx["dev"])) = Cardinality(held) + 0
      BY <1>h, <3>2, <3>4
    <3> QED
      BY <2>1, <3>1, <3>5 DEF CountInv
  <2> QED
    BY <1>0, <2>2, <2>3
<1>6. ASSUME NEW s \in Side, Claim(s)
      PROVE  CountInv'
  <2>1. /\ pc[s] = "run" /\ pc' = [pc EXCEPT ![s] = "take"]
        /\ UNCHANGED <<idx, held>> /\ cons' = [cons EXCEPT ![s] = Inc(cons[s])]
    BY <1>6 DEF Claim, Goto
  <2>2. CASE s = "drv"
    <3>1. pc'["dev"] = pc["dev"] /\ cons'["dev"] = cons["dev"]
      BY <1>0, <2>1, <2>2 DEF TypeOK
    <3> QED
      BY <1>r, <2>1, <3>1
  <2>3. CASE s = "dev"
    <3>1. pc'["dev"] = "take" /\ cons'["dev"] = Inc(cons["dev"]) /\ pc["dev"] = "run"
      BY <1>0, <2>1, <2>3 DEF TypeOK
    <3>2. M = Cardinality(held)
      BY <1>c, <1>h, <3>1
    <3>3. PICK h \in Coming("dev") : h \notin held
      BY <1>6, <2>3, <1>0, RingClaim DEF PlaceInv
    <3>4. h \in DescIdx
      BY <1>0, UnreadType
    <3>5. Cardinality(held \cup {h}) = Cardinality(held) + 1
      BY <1>h, <3>3, FS_AddElement
    <3>6. Cardinality(held \cup {h}) <= N
      BY <1>h, <3>4, TableSize
    <3>7. M < W - 1
      BY <1>h, <3>2, <3>5, <3>6, Sizes
    <3>8. Sub(Inc(cons["dev"]), idx["dev"]) = M + 1
      BY <1>i, <3>7, IndexArithmetic DEF M
    <3>9. Sub(Inc(cons["dev"]), idx["dev"]) = Cardinality(held) + 1
      BY <3>2, <3>8
    <3> QED
      BY <2>1, <3>1, <3>9 DEF CountInv
  <2> QED
    BY <1>0, <2>2, <2>3
<1>7. ASSUME NEW s \in Side, Kick(s) \/ DisableCb(s) \/ EnableCb(s)
                               \/ RecheckAfterEnable(s) \/ Notified(s) \/ Resume(s)
      PROVE  CountInv'
  <2>1. UNCHANGED <<idx, cons, held>>
    BY <1>7 DEF Kick, DisableCb, EnableCb, RecheckAfterEnable, Notified, Resume
  <2>2. \/ pc' = pc
        \/ /\ pc[s] \in {"run", "enable", "wait"}
           /\ \E to \in {"run", "enable", "wait"} : pc' = [pc EXCEPT ![s] = to]
    BY <1>7 DEF Kick, DisableCb, EnableCb, RecheckAfterEnable, Notified, Resume, Goto
  <2>3. pc'["dev"] \in {"publish", "take"} <=> pc["dev"] \in {"publish", "take"}
    BY <1>0, <2>2 DEF TypeOK
  <2> QED
    BY <1>r, <2>1, <2>3
<1>8. CASE UNCHANGED vars
  BY <1>8, <1>r DEF vars
<1> QED
  BY <1>1, <1>2, <1>3, <1>4, <1>5, <1>6, <1>7, <1>8 DEF InsideNext, SideStep

\* The heads between the oldest and the newest of the four indices.
Passed == (Coming("drv") \cup (held \cup InCall("dev"))) \cup Coming("dev")

\* The distances between the indices count them.
LEMMA PassedCount ==
  ASSUME TypeOK, UnreadInv, PlaceInv, CountInv
  PROVE  /\ Passed \subseteq DescIdx /\ Cardinality(Passed) \in Nat
         /\ Cardinality(Passed)
              = Pending("drv") + Sub(cons["dev"], idx["dev"]) + Pending("dev")
<1>0. /\ "drv" \in Side /\ "dev" \in Side
      /\ Peer("drv") = "dev" /\ Peer("dev") = "drv"
  BY DEF Side, Peer
<1>1. /\ IsFiniteSet(Coming("drv")) /\ Cardinality(Coming("drv")) = Pending("drv")
      /\ IsFiniteSet(Coming("dev")) /\ Cardinality(Coming("dev")) = Pending("dev")
  BY <1>0, ComingCard
<1>2. Coming("drv") \subseteq DescIdx /\ Coming("dev") \subseteq DescIdx /\ held \subseteq DescIdx
  BY <1>0, UnreadType DEF TypeOK
<1> DEFINE H == held \cup InCall("dev")
<1>3. H \subseteq DescIdx /\ H \cap Coming("drv") = {} /\ H \cap Coming("dev") = {}
  <2>1. InCall("dev") \subseteq DescIdx
    BY <1>0, SideTypes DEF InCall
  <2> QED
    BY <1>0, <1>2, <2>1 DEF PlaceInv
<1>4. IsFiniteSet(H) /\ Cardinality(H) = Sub(cons["dev"], idx["dev"])
  <2>1. IsFiniteSet(held) /\ Cardinality(held) \in Nat
    BY <1>2, TableSize
  <2>2. CASE pc["dev"] \in {"publish", "take"}
    <3>1. PICK h \in DescIdx : InCall("dev") = {h}
      BY <1>0, <2>2, SideTypes DEF InCall
    <3>2. h \notin held
      BY <1>0, <3>1 DEF PlaceInv
    <3>3. IsFiniteSet(held \cup {h}) /\ Cardinality(held \cup {h}) = Cardinality(held) + 1
      BY <2>1, <3>2, FS_AddElement
    <3> QED
      BY <2>2, <3>1, <3>3 DEF CountInv
  <2>3. CASE pc["dev"] \notin {"publish", "take"}
    <3>1. InCall("dev") = {}
      BY <2>3 DEF InCall
    <3>2. H = held
      BY <3>1, Zenon
    <3>3. Sub(cons["dev"], idx["dev"]) = Cardinality(held)
      BY <2>1, <2>3 DEF CountInv
    <3> QED
      BY <2>1, <3>2, <3>3, Zenon
  <2> QED
    BY <2>2, <2>3
<1> HIDE DEF H
<1>5. /\ IsFiniteSet(Coming("drv") \cup H)
      /\ Cardinality(Coming("drv") \cup H) = Cardinality(Coming("drv")) + Cardinality(H)
      /\ Cardinality(Coming("drv")) \in Nat /\ Cardinality(H) \in Nat
  BY <1>1, <1>3, <1>4, DisjointCard
<1>6. (Coming("drv") \cup H) \cap Coming("dev") = {}
  BY <1>3 DEF PlaceInv
<1>7. /\ Cardinality((Coming("drv") \cup H) \cup Coming("dev"))
           = Cardinality(Coming("drv") \cup H) + Cardinality(Coming("dev"))
      /\ Cardinality(Coming("dev")) \in Nat
  BY <1>1, <1>5, <1>6, DisjointCard
<1>8. Passed = (Coming("drv") \cup H) \cup Coming("dev")
  BY DEF Passed, H
<1>9. Passed \subseteq DescIdx
  BY <1>2, <1>3, <1>8
<1> QED
  BY <1>1, <1>4, <1>5, <1>7, <1>8, <1>9

\* The four indices follow one another because the heads between them are
\* different descriptors.
LEMMA PlacesOrderIndices ==
  ASSUME TypeOK, UnreadInv, PlaceInv, CountInv
  PROVE  IndicesInOrder
<1>1. Peer("drv") = "dev" /\ Peer("dev") = "drv"
  BY DEF Peer
<1>2. Cardinality(Passed) <= N
  BY PassedCount, TableSize
<1>3. /\ Sub(idx["dev"], cons["drv"]) = Pending("drv")
      /\ Sub(idx["drv"], cons["dev"]) = Pending("dev")
  BY <1>1 DEF Pending
<1> QED
  BY <1>2, <1>3, PassedCount DEF IndicesInOrder

\* The places of the invariant are those of OneOwner.
LEMMA PlacesGiveOneOwner ==
  ASSUME TypeOK, UnreadInv, PlaceInv
  PROVE  OneOwner
<1>0. /\ "drv" \in Side /\ "dev" \in Side
      /\ Peer("drv") = "dev" /\ Peer("dev") = "drv"
  BY DEF Side, Peer
<1> DEFINE P(s) == IF pc[s] = "publish" THEN {reg[s]} ELSE {}
           T(s) == IF pc[s] = "take" THEN {ring[Peer(s)][reg[s]]} ELSE {}
<1>1. \A s \in Side : Cardinality(Range(Unread(s))) = Pending(s)
  BY ComingCard DEF Coming
<1>2. Places = <<P("drv"), Coming("dev"), T("dev"), held, P("dev"), Coming("drv"), T("drv")>>
  BY <1>0 DEF Places, Coming
<1>3. \A s \in Side : InCall(s) = P(s) \cup T(s) /\ P(s) \cap T(s) = {}
  BY DEF InCall
<1> HIDE DEF P, T
<1>p. /\ InCall("drv") \cap held = {} /\ InCall("dev") \cap held = {}
      /\ Coming("drv") \cap held = {} /\ Coming("dev") \cap held = {}
      /\ Coming("drv") \cap InCall("drv") = {} /\ Coming("drv") \cap InCall("dev") = {}
      /\ Coming("dev") \cap InCall("drv") = {} /\ Coming("dev") \cap InCall("dev") = {}
      /\ InCall("drv") \cap InCall("dev") = {} /\ Coming("drv") \cap Coming("dev") = {}
      /\ Lent = InCall("drv") \cup InCall("dev") \cup Coming("drv") \cup Coming("dev") \cup held
  BY PlaceParts
<1>4. PICK A, B, C, D, E, F, G :
        /\ A = P("drv") /\ B = Coming("dev") /\ C = T("dev") /\ D = held
        /\ E = P("dev") /\ F = Coming("drv") /\ G = T("drv")
  OBVIOUS
<1>5. /\ A \cap B = {} /\ A \cap C = {} /\ A \cap D = {} /\ A \cap E = {} /\ A \cap F = {} /\ A \cap G = {}
      /\ B \cap C = {} /\ B \cap D = {} /\ B \cap E = {} /\ B \cap F = {} /\ B \cap G = {}
      /\ C \cap D = {} /\ C \cap E = {} /\ C \cap F = {} /\ C \cap G = {}
      /\ D \cap E = {} /\ D \cap F = {} /\ D \cap G = {}
      /\ E \cap F = {} /\ E \cap G = {} /\ F \cap G = {}
  BY <1>0, <1>3, <1>4, <1>p
<1>6. Lent = A \cup B \cup C \cup D \cup E \cup F \cup G
  BY <1>0, <1>3, <1>4, <1>p
<1>7. Places = <<A, B, C, D, E, F, G>>
  BY <1>2, <1>4
<1>8. \A i, j \in 1 .. 7 : i < j => Places[i] \cap Places[j] = {}
  BY <1>5, <1>7
<1>9. DOMAIN Places = 1 .. 7
  BY <1>7
<1>10. UNION Range(Places) = Lent
  <2>1. Range(Places) = {A, B, C, D, E, F, G}
    BY <1>7, <1>9 DEF Range
  <2> QED
    BY <1>6, <2>1
<1> QED
  BY <1>1, <1>8, <1>9, <1>10 DEF OneOwner, Lent

-----------------------------------------------------------------------------
(***************************************************************************)
(* The descriptor table keeps its layout.                                  *)
(***************************************************************************)
\* Following next from one descriptor gives one list.
LEMMA ChainUnique ==
  ASSUME NEW h, NEW k \in Nat, NEW m \in Nat, k <= m,
         NEW p \in Chains(h, k), NEW q \in Chains(h, m)
  PROVE  \A i \in 1 .. k : p[i] = q[i]
<1> DEFINE Bad == {i \in Nat : i \in 1 .. k /\ p[i] # q[i]}
<1> SUFFICES ASSUME Bad # {} PROVE FALSE
  OBVIOUS
<1>1. PICK i \in Bad : \A j \in Bad : i <= j
  <2>1. Bad \in SUBSET Nat
    OBVIOUS
  <2> HIDE DEF Bad
  <2> QED
    BY <2>1, LeastNat
<1>2. i \in 1 .. k /\ i \in 1 .. m /\ p[i] # q[i]
  OBVIOUS
<1>3. /\ p[1] = h /\ \A j \in 2 .. k : p[j] = desc[p[j-1]].next
      /\ q[1] = h /\ \A j \in 2 .. m : q[j] = desc[q[j-1]].next
  BY DEF Chains
<1>4. i # 1
  BY <1>2, <1>3
<1>5. i \in 2 .. k /\ i \in 2 .. m /\ i - 1 \in 1 .. k /\ i - 1 \in Nat /\ ~(i <= i - 1)
  BY <1>2, <1>4
<1>6. p[i-1] = q[i-1]
  BY <1>1, <1>5
<1> QED
  BY <1>2, <1>3, <1>5, <1>6

\* A lent chain has one length and one list of descriptors.
LEMMA LentChainUnique ==
  ASSUME NEW h, NEW k \in Nat \ {0}, NEW m \in Nat \ {0},
         NEW p \in LentChains(h, k), NEW q \in LentChains(h, m)
  PROVE  k = m /\ \A i \in 1 .. k : p[i] = q[i]
<1>1. /\ p \in Chains(h, k) /\ \A i \in 1 .. k - 1 : "NEXT" \in desc[p[i]].flags
      /\ "NEXT" \notin desc[p[k]].flags
      /\ q \in Chains(h, m) /\ \A i \in 1 .. m - 1 : "NEXT" \in desc[q[i]].flags
      /\ "NEXT" \notin desc[q[m]].flags
  BY DEF LentChains
<1>2. ~(k < m)
  <2> SUFFICES ASSUME k < m PROVE FALSE
    OBVIOUS
  <2>1. k <= m /\ k \in 1 .. k /\ k \in 1 .. m - 1
    OBVIOUS
  <2>2. p[k] = q[k]
    BY <1>1, <2>1, ChainUnique
  <2> QED
    BY <1>1, <2>1, <2>2
<1>3. ~(m < k)
  <2> SUFFICES ASSUME m < k PROVE FALSE
    OBVIOUS
  <2>1. m <= k /\ m \in 1 .. m /\ m \in 1 .. k - 1
    OBVIOUS
  <2>2. q[m] = p[m]
    BY <1>1, <2>1, ChainUnique
  <2> QED
    BY <1>1, <2>1, <2>2
<1>4. k = m
  BY <1>2, <1>3
<1> QED
  BY <1>1, <1>4, ChainUnique

\* The layout of one state, spelled out for fixed lists.
LEMMA LayoutParts ==
  ASSUME NEW p, NEW C, NEW f \in Nat, f = free_cnt, Layout(p, C)
  PROVE  /\ p \in [1 .. f -> DescIdx]
         /\ \A i, j \in 1 .. f : p[i] = p[j] => i = j
         /\ head_idx = IF f = 0 THEN CHAIN_END ELSE p[1]
         /\ \A i \in 1 .. f : desc[p[i]].next = IF i = f THEN CHAIN_END ELSE p[i + 1]
         /\ \A i \in 1 .. f : descx[p[i]].cookie = NoBuf
         /\ \A h \in Lent :
              /\ descx[h].ndescs \in 1 .. MaxChain
              /\ C[h] \in LentChains(h, descx[h].ndescs)
              /\ C[h][1] = h /\ 1 \in 1 .. descx[h].ndescs
              /\ \A i, j \in 1 .. descx[h].ndescs : C[h][i] = C[h][j] => i = j
              /\ \A i \in 1 .. descx[h].ndescs, j \in 1 .. f : C[h][i] # p[j]
         /\ \A h, g \in Lent : h # g =>
              \A i \in 1 .. descx[h].ndescs, j \in 1 .. descx[g].ndescs : C[h][i] # C[g][j]
<1>1. /\ p \in [1 .. f -> DescIdx]
      /\ \A i, j \in 1 .. f : p[i] = p[j] => i = j
      /\ head_idx = IF f = 0 THEN CHAIN_END ELSE p[1]
      /\ \A i \in 1 .. f : desc[p[i]].next = IF i = f THEN CHAIN_END ELSE p[i + 1]
      /\ \A i \in 1 .. f : descx[p[i]].cookie = NoBuf
  BY DEF Layout, IsFreeList
<1>2. ASSUME NEW h \in Lent
      PROVE  /\ descx[h].ndescs \in 1 .. MaxChain
             /\ C[h] \in LentChains(h, descx[h].ndescs)
             /\ C[h][1] = h /\ 1 \in 1 .. descx[h].ndescs
             /\ \A i, j \in 1 .. descx[h].ndescs : C[h][i] = C[h][j] => i = j
             /\ \A i \in 1 .. descx[h].ndescs, j \in 1 .. f : C[h][i] # p[j]
  <2>1. /\ descx[h].ndescs \in 1 .. MaxChain
        /\ C[h] \in LentChains(h, descx[h].ndescs)
        /\ \A i, j \in 1 .. descx[h].ndescs : C[h][i] = C[h][j] => i = j
    BY DEF Layout, IsLentChain
  <2>2. C[h][1] = h
    BY <2>1 DEF LentChains, Chains
  <2>3. \A i \in 1 .. descx[h].ndescs, j \in 1 .. f : C[h][i] # p[j]
    BY DEF Layout
  <2>4. 1 \in 1 .. descx[h].ndescs
    BY <2>1, Sizes
  <2> QED
    BY <2>1, <2>2, <2>3, <2>4
<1>3. \A h, g \in Lent : h # g =>
        \A i \in 1 .. descx[h].ndescs, j \in 1 .. descx[g].ndescs : C[h][i] # C[g][j]
  BY DEF Layout
<1> QED
  BY <1>1, <1>2, <1>3

\* The descriptors outside the free list are at most those the client has asked
\* for.
LEMMA FreeCount ==
  ASSUME TypeOK, TableInv
  PROVE  /\ free_cnt \in Nat /\ Cardinality(Outstanding) \in Nat
         /\ N <= free_cnt + Cardinality(Outstanding)
<1>0. PICK f \in Nat : f = free_cnt
  BY DEF TableInv
<1>1. PICK p \in [1 .. f -> DescIdx], C \in [Lent -> ChainLists] : Layout(p, C) /\ Covered(p, C)
  BY <1>0 DEF TableInv
<1> DEFINE free == {p[j] : j \in 1 .. f}
           lent == DescIdx \ free
<1>2. IsFiniteSet(DescIdx) /\ Cardinality(DescIdx) = N
  BY TableSize
<1>3. IsFiniteSet(free) /\ Cardinality(free) \in Nat /\ Cardinality(free) = f
  <2>1. p \in [1 .. f -> free] /\ \A v \in free : \E i \in 1 .. f : p[i] = v
    OBVIOUS
  <2>2. \A i, j \in 1 .. f : p[i] = p[j] => i = j
    BY <1>0, <1>1, LayoutParts
  <2> HIDE DEF free
  <2>3. IsFiniteSet(free) /\ Cardinality(free) = f
    BY <2>1, <2>2, DistinctValues
  <2> QED
    BY <2>3
<1>4. IsFiniteSet(Outstanding) /\ Cardinality(Outstanding) \in Nat
  <2>1. IsFiniteSet(1 .. MaxChain)
    BY Sizes, FS_Interval
  <2>2. IsFiniteSet(DescIdx \X (1 .. MaxChain))
    BY <1>2, <2>1, FS_Product
  <2>3. Outstanding \subseteq DescIdx \X (1 .. MaxChain)
    BY DEF Outstanding
  <2> QED
    BY <2>2, <2>3, FS_Subset, FS_CardinalityType
\* Every other descriptor is one of those the client asked for.
<1>5. \A d \in lent : \E e \in Outstanding : C[e[1]][e[2]] = d
  <2> SUFFICES ASSUME NEW d \in lent PROVE \E e \in Outstanding : C[e[1]][e[2]] = d
    OBVIOUS
  <2>1. d \in DescIdx /\ ~(\E j \in 1 .. f : p[j] = d)
    OBVIOUS
  <2>2. PICK h \in Lent : \E i \in 1 .. descx[h].ndescs : C[h][i] = d
    BY <1>0, <1>1, <2>1 DEF Covered
  <2>3. PICK n \in 1 .. MaxChain : n = descx[h].ndescs
    BY <1>0, <1>1, LayoutParts
  <2>4. PICK i \in 1 .. n : C[h][i] = d
    BY <2>2, <2>3
  <2>5. i \in 1 .. MaxChain /\ i <= descx[h].ndescs
    BY <2>3, Sizes
  <2>6. <<h, i>> \in Outstanding
    BY <2>5 DEF Outstanding, Lent
  <2> QED
    BY <2>4, <2>6
<1>6. Cardinality(lent) <= Cardinality(Outstanding)
  <2> DEFINE Taken == {e \in Outstanding : C[e[1]][e[2]] \in lent}
             g == [e \in Taken |-> C[e[1]][e[2]]]
  <2>1. IsFiniteSet(Taken) /\ Cardinality(Taken) <= Cardinality(Outstanding)
    BY <1>4, FS_Subset
  <2>2. g \in [Taken -> lent] /\ \A d \in lent : \E e \in Taken : g[e] = d
    BY <1>5
  <2> HIDE DEF Taken, g, lent
  <2>3. g \in Surjection(Taken, lent)
    BY <2>2 DEF Surjection
  <2>4. IsFiniteSet(lent) /\ Cardinality(lent) <= Cardinality(Taken)
    BY <2>1, <2>3, FS_Surjection
  <2>5. Cardinality(lent) \in Nat /\ Cardinality(Taken) \in Nat
    BY <2>1, <2>4, FS_CardinalityType
  <2> QED
    BY <1>4, <2>1, <2>4, <2>5
<1>7. Cardinality(lent) = N - f
  <2>1. free \subseteq DescIdx
    OBVIOUS
  <2>2. DescIdx \cap free = free
    BY <2>1
  <2> HIDE DEF free
  <2> QED
    BY <1>2, <1>3, <2>2, FS_Difference
<1> QED
  BY <1>0, <1>4, <1>6, <1>7, Sizes

\* A client that asks for no more descriptors than the table has finds enough
\* of them in the free chain.
LEMMA ClientStaysInside ==
  ASSUME TypeOK, TableInv, NEW b \in Buffers, NEW k \in 1 .. MaxChain, ClientLends(b, k)
  PROVE  Lends(b, k)
<1>0. PICK f \in Nat : f = free_cnt
  BY DEF TableInv
<1>1. PICK p \in [1 .. f -> DescIdx], C \in [Lent -> ChainLists] : Layout(p, C)
  BY <1>0 DEF TableInv
<1>p. /\ head_idx = IF f = 0 THEN CHAIN_END ELSE p[1]
      /\ \A i \in 1 .. f : desc[p[i]].next = IF i = f THEN CHAIN_END ELSE p[i + 1]
  BY <1>0, <1>1, LayoutParts
<1>2. k \in Nat /\ k >= 1 /\ k <= f
  BY <1>0, FreeCount, Sizes DEF ClientLends
<1>3. Chains(head_idx, k) # {}
  <2> DEFINE c == [i \in 1 .. k |-> p[i]]
  <2>1. \A i \in 1 .. k : i \in 1 .. f /\ c[i] = p[i] /\ p[i] \in DescIdx
    BY <1>2
  <2>2. c \in [1 .. k -> DescIdx]
    BY <2>1
  <2> HIDE DEF c
  <2>3. c[1] = head_idx
    <3>1. 1 \in 1 .. k /\ f # 0
      BY <1>2
    <3> QED
      BY <1>p, <2>1, <3>1
  <2>4. ASSUME NEW i \in 2 .. k PROVE c[i] = desc[c[i-1]].next
    <3>1. i \in 1 .. k /\ i - 1 \in 1 .. k /\ i - 1 \in 1 .. f /\ i - 1 # f /\ (i - 1) + 1 = i
      BY <1>2
    <3> QED
      BY <1>p, <2>1, <3>1
  <2>5. c \in Chains(head_idx, k)
    BY <2>2, <2>3, <2>4 DEF Chains
  <2> QED
    BY <2>5
<1> QED
  BY <1>0, <1>2, <1>3 DEF ClientLends, AddBuffer, Lends

\* No step leaves the table.
LEMMA NextIsInside == TypeOK /\ TableInv /\ [Next]_vars => [InsideNext]_vars
  BY ClientStaysInside DEF Next, InsideNext

\* virtqueue_add_buffer cuts the new chain from the front of the free list.
LEMMA AddTable ==
  ASSUME TypeOK, TableInv, CookieInv,
         NEW b \in Buffers, NEW k \in 1 .. MaxChain, Lends(b, k)
  PROVE  TableInv' /\ CookieInv'
<1>0. PICK f \in Nat : f = free_cnt
  BY DEF TableInv
<1>1. PICK p \in [1 .. f -> DescIdx], C \in [Lent -> ChainLists] : Layout(p, C) /\ Covered(p, C)
  BY <1>0 DEF TableInv
<1>p. /\ \A i, j \in 1 .. f : p[i] = p[j] => i = j
      /\ head_idx = IF f = 0 THEN CHAIN_END ELSE p[1]
      /\ \A i \in 1 .. f : desc[p[i]].next = IF i = f THEN CHAIN_END ELSE p[i + 1]
      /\ \A i \in 1 .. f : descx[p[i]].cookie = NoBuf
  BY <1>0, <1>1, LayoutParts
<1>c. ASSUME NEW g \in Lent
      PROVE  /\ descx[g].ndescs \in 1 .. MaxChain
             /\ C[g] \in LentChains(g, descx[g].ndescs)
             /\ C[g][1] = g /\ 1 \in 1 .. descx[g].ndescs
             /\ \A i, j \in 1 .. descx[g].ndescs : C[g][i] = C[g][j] => i = j
             /\ \A i \in 1 .. descx[g].ndescs, j \in 1 .. f : C[g][i] # p[j]
  BY <1>0, <1>1, LayoutParts
<1>d. \A h, g \in Lent : h # g =>
        \A i \in 1 .. descx[h].ndescs, j \in 1 .. descx[g].ndescs : C[h][i] # C[g][j]
  BY <1>0, <1>1, LayoutParts
<1>2. k \in Nat /\ k >= 1 /\ k <= f /\ f - k \in Nat
  BY <1>0, Sizes DEF Lends
<1>3. PICK h \in DescIdx : h = head_idx
  BY AddLends
<1>4. h \notin Lent /\ Lent' = Lent \cup {h} /\ h = p[1] /\ 1 \in 1 .. f
  BY <1>2, <1>3, <1>p, AddLends
<1>5. PICK q \in Chains(h, k) :
        /\ desc' = [d \in DescIdx |->
                      IF \E i \in 1 .. k : q[i] = d
                      THEN [addr |-> b, next |-> desc[d].next,
                            flags |-> IF d = q[k] THEN {} ELSE {"NEXT"}]
                      ELSE desc[d]]
        /\ head_idx' = desc[q[k]].next
  BY <1>3 DEF Lends, LendChain
<1>6. \A i \in 1 .. k : q[i] = p[i]
  <2>1. p \in Chains(h, f)
    <3>1. ASSUME NEW i \in 2 .. f PROVE p[i] = desc[p[i-1]].next
      <4>1. i - 1 \in 1 .. f /\ i - 1 # f /\ (i - 1) + 1 = i
        OBVIOUS
      <4> QED
        BY <1>p, <4>1
    <3> QED
      BY <1>4, <3>1 DEF Chains
  <2> QED
    BY <1>2, <2>1, ChainUnique
<1>7. /\ descx' = [descx EXCEPT ![h] = [cookie |-> b, ndescs |-> k]]
      /\ free_cnt' = f - k
      /\ pool' = pool \ {b} /\ b \in pool
  BY <1>0, <1>3 DEF Lends, LendChain
<1>8. /\ descx \in [DescIdx -> [cookie : Buffers \cup {NoBuf}, ndescs : Int]]
      /\ desc \in [DescIdx -> Descriptor]
  BY DEF TypeOK
<1>9. /\ descx'[h] = [cookie |-> b, ndescs |-> k]
      /\ \A d \in DescIdx : d # h => descx'[d] = descx[d]
  BY <1>7, <1>8
<1>10. /\ \A d \in DescIdx : desc'[d].next = desc[d].next
       /\ \A d \in DescIdx : (\A i \in 1 .. k : p[i] # d) => desc'[d] = desc[d]
  BY <1>5, <1>6
<1>11. \A i \in 1 .. k : /\ desc'[p[i]].addr = b
                         /\ desc'[p[i]].flags = IF i = k THEN {} ELSE {"NEXT"}
  <2> SUFFICES ASSUME NEW i \in 1 .. k
               PROVE  /\ desc'[p[i]].addr = b
                      /\ desc'[p[i]].flags = IF i = k THEN {} ELSE {"NEXT"}
    OBVIOUS
  <2>1. i \in 1 .. f /\ k \in 1 .. f /\ k \in 1 .. k /\ p[i] \in DescIdx /\ p[k] \in DescIdx
    BY <1>2
  <2>2. desc'[p[i]] = [addr |-> b, next |-> desc[p[i]].next,
                       flags |-> IF p[i] = q[k] THEN {} ELSE {"NEXT"}]
    BY <1>5, <1>6, <2>1
  <2>3. p[i] = q[k] <=> i = k
    BY <1>6, <1>p, <2>1
  <2> QED
    BY <2>2, <2>3
<1>12. head_idx' = IF k = f THEN CHAIN_END ELSE p[k + 1]
  <2>1. k \in 1 .. f /\ k \in 1 .. k
    BY <1>2
  <2> QED
    BY <1>5, <1>6, <1>p, <2>1
<1>13. \A g \in Lent : /\ g \in DescIdx /\ g # h /\ descx'[g] = descx[g]
                       /\ \A i \in 1 .. descx[g].ndescs : desc'[C[g][i]] = desc[C[g][i]]
  <2> SUFFICES ASSUME NEW g \in Lent
               PROVE  /\ g \in DescIdx /\ g # h /\ descx'[g] = descx[g]
                      /\ \A i \in 1 .. descx[g].ndescs : desc'[C[g][i]] = desc[C[g][i]]
    OBVIOUS
  <2>1. g \in DescIdx /\ g # h /\ descx'[g] = descx[g]
    BY <1>4, <1>9 DEF Lent
  <2>2. ASSUME NEW i \in 1 .. descx[g].ndescs PROVE desc'[C[g][i]] = desc[C[g][i]]
    <3>1. C[g][i] \in DescIdx
      <4>1. PICK m : m = descx[g].ndescs
        OBVIOUS
      <4>2. C[g] \in LentChains(g, m)
        BY <1>c, <4>1, Zenon
      <4>3. C[g] \in [1 .. m -> DescIdx]
        BY <4>2 DEF LentChains, Chains
      <4> QED
        BY <2>2, <4>1, <4>3
    <3>2. \A j \in 1 .. k : j \in 1 .. f
      BY <1>2
    <3>3. \A j \in 1 .. k : p[j] # C[g][i]
      BY <1>c, <3>2
    <3> QED
      BY <1>10, <3>1, <3>3
  <2> QED
    BY <2>1, <2>2
<1>L. PICK L : L = Lent'
  OBVIOUS
<1> DEFINE p2 == [i \in 1 .. f - k |-> p[k + i]]
           c  == [i \in 1 .. k |-> p[i]]
           C2 == [g \in L |-> IF g = h THEN c ELSE C[g]]
<1>14. /\ \A i \in 1 .. f - k : k + i \in 1 .. f /\ p2[i] = p[k + i]
       /\ p2 \in [1 .. f - k -> DescIdx]
  BY <1>2
<1>15. /\ \A i \in 1 .. k : i \in 1 .. f /\ c[i] = p[i]
       /\ c \in [1 .. k -> DescIdx] /\ c \in ChainLists
  BY <1>2 DEF ChainLists
<1>16. C2[h] = c /\ \A g \in Lent : C2[g] = C[g]
  BY <1>4, <1>L
<1>17. C2 \in [Lent' -> ChainLists]
  BY <1>4, <1>15, <1>L
<1> HIDE DEF p2, c, C2
<1>18. IsFreeList(p2)'
  <2>1. p2 \in [1 .. free_cnt' -> DescIdx]
    BY <1>7, <1>14
  <2>2. \A i, j \in 1 .. free_cnt' : p2[i] = p2[j] => i = j
    <3> SUFFICES ASSUME NEW i \in 1 .. f - k, NEW j \in 1 .. f - k, p2[i] = p2[j] PROVE i = j
      BY <1>7
    <3>1. k + i = k + j
      BY <1>14, <1>p
    <3> QED
      BY <1>2, <3>1
  <2>3. head_idx' = IF free_cnt' = 0 THEN CHAIN_END ELSE p2[1]
    <3>1. CASE f - k = 0
      BY <1>2, <1>7, <1>12, <3>1
    <3>2. CASE f - k # 0
      <4>1. 1 \in 1 .. f - k /\ k # f
        BY <1>2, <3>2
      <4> QED
        BY <1>7, <1>12, <1>14, <3>2, <4>1
    <3> QED
      BY <3>1, <3>2
  <2>4. ASSUME NEW i \in 1 .. f - k
        PROVE  /\ desc'[p2[i]].next = IF i = f - k THEN CHAIN_END ELSE p2[i + 1]
               /\ descx'[p2[i]].cookie = NoBuf
    <3>1. k + i \in 1 .. f /\ p2[i] = p[k + i] /\ p[k + i] \in DescIdx /\ k + i # 1
      BY <1>2, <1>14
    <3>2. desc'[p2[i]].next = IF k + i = f THEN CHAIN_END ELSE p[(k + i) + 1]
      BY <1>10, <1>p, <3>1
    <3>5. descx'[p2[i]].cookie = NoBuf
      <4>1. p[k + i] # h
        BY <1>4, <1>p, <3>1
      <4>2. descx'[p2[i]] = descx[p[k + i]]
        BY <1>9, <3>1, <4>1, Zenon
      <4>3. descx[p[k + i]].cookie = NoBuf
        BY <1>p, <3>1, Zenon
      <4> QED
        BY <4>2, <4>3
    <3>3. CASE i = f - k
      <4>1. k + i = f
        BY <1>2, <3>3
      <4>2. desc'[p2[i]].next = CHAIN_END
        BY <3>2, <4>1, Zenon
      <4> QED
        BY <3>3, <3>5, <4>2, Zenon
    <3>4. CASE i # f - k
      <4>1. k + i # f /\ i + 1 \in 1 .. f - k /\ k + (i + 1) = (k + i) + 1
        BY <1>2, <3>4
      <4>2. p2[i + 1] = p[(k + i) + 1]
        BY <1>14, <4>1
      <4> QED
        BY <3>2, <3>4, <3>5, <4>1, <4>2
    <3> QED
      BY <3>3, <3>4
  <2> QED
    BY <1>7, <2>1, <2>2, <2>3, <2>4 DEF IsFreeList
<1>19. IsLentChain(h, c)'
  <2>1. descx'[h].ndescs = k
    BY <1>9
  <2>2. c \in Chains(h, k)'
    <3>1. c[1] = h
      BY <1>2, <1>4, <1>15
    <3>2. ASSUME NEW i \in 2 .. k PROVE c[i] = desc'[c[i-1]].next
      <4>1. i \in 1 .. k /\ i - 1 \in 1 .. k /\ i - 1 \in 1 .. f /\ i - 1 # f /\ (i - 1) + 1 = i
        BY <1>2
      <4>2. c[i] = p[i] /\ c[i-1] = p[i-1] /\ p[i-1] \in DescIdx
        BY <1>15, <4>1
      <4> QED
        BY <1>10, <1>p, <4>1, <4>2
    <3> QED
      BY <1>15, <3>1, <3>2 DEF Chains
  <2>3. \A i \in 1 .. k - 1 : "NEXT" \in desc'[c[i]].flags
    <3> SUFFICES ASSUME NEW i \in 1 .. k - 1 PROVE "NEXT" \in desc'[c[i]].flags
      OBVIOUS
    <3>1. i \in 1 .. k /\ i # k
      BY <1>2
    <3> QED
      BY <1>11, <1>15, <3>1
  <2>4. "NEXT" \notin desc'[c[k]].flags
    <3>1. k \in 1 .. k
      BY <1>2
    <3> QED
      BY <1>11, <1>15, <3>1
  <2>5. c \in LentChains(h, k)'
    BY <2>2, <2>3, <2>4 DEF LentChains
  <2>6. \A i, j \in 1 .. k : c[i] = c[j] => i = j
    BY <1>15, <1>p
  <2> QED
    BY <2>1, <2>5, <2>6 DEF IsLentChain, LentChains, Chains
<1>20. ASSUME NEW g \in Lent PROVE IsLentChain(g, C[g])'
  <2>1. PICK m \in 1 .. MaxChain : m = descx[g].ndescs
    BY <1>c
  <2>2. descx'[g].ndescs = m /\ \A i \in 1 .. m : desc'[C[g][i]] = desc[C[g][i]]
    BY <1>13, <2>1
  <2>3. /\ C[g] \in [1 .. m -> DescIdx] /\ C[g][1] = g
        /\ \A i \in 2 .. m : C[g][i] = desc[C[g][i-1]].next
        /\ \A i \in 1 .. m - 1 : "NEXT" \in desc[C[g][i]].flags
        /\ "NEXT" \notin desc[C[g][m]].flags
    BY <1>c, <2>1 DEF LentChains, Chains
  <2>4. PICK e : e = C[g]
    OBVIOUS
  <2>5. /\ m \in 1 .. m
        /\ \A i \in 2 .. m : i - 1 \in 1 .. m
        /\ \A i \in 1 .. m - 1 : i \in 1 .. m
    BY Sizes
  <2>6. /\ \A i \in 2 .. m : e[i] = desc'[e[i-1]].next
        /\ \A i \in 1 .. m - 1 : "NEXT" \in desc'[e[i]].flags
        /\ "NEXT" \notin desc'[e[m]].flags
    BY <2>2, <2>3, <2>4, <2>5
  <2>7. e \in LentChains(g, m)'
    BY <2>3, <2>4, <2>6 DEF LentChains, Chains
  <2>8. IsLentChain(g, e)'
    BY <1>c, <2>1, <2>2, <2>4, <2>7 DEF IsLentChain, LentChains, Chains
  <2> QED
    BY <2>4, <2>8
<1>21. /\ descx'[h].ndescs = k
       /\ \A g \in Lent : descx'[g].ndescs = descx[g].ndescs
  BY <1>9, <1>13
<1>22. ASSUME NEW g \in Lent'
       PROVE  /\ IsLentChain(g, C2[g])'
              /\ \A i \in 1 .. descx'[g].ndescs, j \in 1 .. free_cnt' : C2[g][i] # p2[j]
  <2>0. \A j \in 1 .. f - k : p2[j] = p[k + j] /\ k + j \in 1 .. f /\ \A i \in 1 .. k : i # k + j
    BY <1>2, <1>14
  <2>1. CASE g = h
    <3>1. IsLentChain(h, C2[h])'
      BY <1>16, <1>19
    <3>2. \A i \in 1 .. k, j \in 1 .. f - k : C2[h][i] # p2[j]
      BY <1>15, <1>16, <1>p, <2>0
    <3> QED
      BY <1>7, <1>21, <2>1, <3>1, <3>2
  <2>2. CASE g \in Lent
    <3>1. IsLentChain(g, C2[g])'
      BY <1>16, <1>20, <2>2
    <3>2. \A i \in 1 .. descx[g].ndescs, j \in 1 .. f - k : C[g][i] # p2[j]
      BY <1>c, <2>0, <2>2
    <3> QED
      BY <1>7, <1>16, <1>21, <2>2, <3>1, <3>2
  <2> QED
    BY <1>4, <2>1, <2>2
<1>23. ASSUME NEW g1 \in Lent', NEW g2 \in Lent', g1 # g2,
              NEW i \in 1 .. descx'[g1].ndescs, NEW j \in 1 .. descx'[g2].ndescs
       PROVE  C2[g1][i] # C2[g2][j]
  <2>1. CASE g1 = h
    <3>1. g2 \in Lent /\ j \in 1 .. descx[g2].ndescs /\ i \in 1 .. k
      BY <1>4, <1>21, <1>23, <2>1
    <3> QED
      BY <1>15, <1>16, <1>c, <2>1, <3>1
  <2>2. CASE g2 = h
    <3>1. g1 \in Lent /\ i \in 1 .. descx[g1].ndescs /\ j \in 1 .. k
      BY <1>4, <1>21, <1>23, <2>2
    <3> QED
      BY <1>15, <1>16, <1>c, <2>2, <3>1
  <2>3. CASE g1 # h /\ g2 # h
    <3>1. g1 \in Lent /\ g2 \in Lent /\ i \in 1 .. descx[g1].ndescs /\ j \in 1 .. descx[g2].ndescs
      BY <1>4, <1>21, <2>3
    <3> QED
      BY <1>16, <1>23, <1>d, <3>1
  <2> QED
    BY <2>1, <2>2, <2>3
<1>24. Layout(p2, C2)'
  BY <1>18, <1>22, <1>23 DEF Layout
<1>K. Covered(p2, C2)'
  <2> SUFFICES ASSUME NEW d \in DescIdx
               PROVE  \/ \E j \in 1 .. f - k : p2[j] = d
                      \/ \E g \in Lent' : \E i \in 1 .. descx'[g].ndescs : C2[g][i] = d
    BY <1>7 DEF Covered
  <2>1. CASE \E j \in 1 .. f : p[j] = d
    <3>1. PICK j \in 1 .. f : p[j] = d
      BY <2>1
    <3>2. CASE j \in 1 .. k
      <4>1. C2[h][j] = d /\ h \in Lent' /\ j \in 1 .. descx'[h].ndescs
        BY <1>4, <1>15, <1>16, <1>21, <3>1, <3>2
      <4> QED
        BY <4>1
    <3>3. CASE j \notin 1 .. k
      <4>1. j - k \in 1 .. f - k /\ k + (j - k) = j
        BY <1>2, <3>3
      <4>2. p2[j - k] = d
        BY <1>14, <3>1, <4>1
      <4> QED
        BY <4>1, <4>2
    <3> QED
      BY <3>2, <3>3
  <2>2. CASE \E g \in Lent : \E i \in 1 .. descx[g].ndescs : C[g][i] = d
    <3>1. PICK g \in Lent : \E i \in 1 .. descx[g].ndescs : C[g][i] = d
      BY <2>2
    <3>2. g \in Lent' /\ C2[g] = C[g] /\ descx'[g].ndescs = descx[g].ndescs
      BY <1>4, <1>16, <1>21
    <3> QED
      BY <3>1, <3>2
  <2> QED
    BY <1>0, <1>1, <2>1, <2>2 DEF Covered
<1>25. \A d \in DescIdx \ Lent' : descx'[d].ndescs = 0
  BY <1>4, <1>9 DEF TableInv
<1>26. TableInv'
  <2>1. p2 \in [1 .. free_cnt' -> DescIdx] /\ free_cnt' \in Nat
    BY <1>2, <1>7, <1>14
  <2> QED
    BY <1>17, <1>24, <1>K, <1>25, <2>1 DEF TableInv
<1>27. CookieInv'
  <2>1. pool' \subseteq Buffers
    BY <1>7 DEF CookieInv
  <2>2. desc'[h].addr = b /\ descx'[h].cookie = b /\ b \notin pool'
    <3>1. 1 \in 1 .. k
      BY <1>2
    <3> QED
      BY <1>4, <1>7, <1>9, <1>11, <3>1
  <2>3. \A g \in Lent : /\ desc'[g].addr = descx'[g].cookie /\ descx'[g].cookie \notin pool'
                        /\ descx'[g].cookie = descx[g].cookie /\ descx[g].cookie # b
    <3> SUFFICES ASSUME NEW g \in Lent
                 PROVE  /\ desc'[g].addr = descx'[g].cookie /\ descx'[g].cookie \notin pool'
                        /\ descx'[g].cookie = descx[g].cookie /\ descx[g].cookie # b
      OBVIOUS
    <3>1. desc'[g] = desc[g] /\ descx'[g] = descx[g]
      BY <1>13, <1>c
    <3> QED
      BY <1>7, <3>1 DEF CookieInv
  <2>4. \A g \in Lent' : desc'[g].addr = descx'[g].cookie /\ descx'[g].cookie \notin pool'
    BY <1>4, <2>2, <2>3
  <2>5. \A g1, g2 \in Lent' : descx'[g1].cookie = descx'[g2].cookie => g1 = g2
    BY <1>4, <2>2, <2>3 DEF CookieInv
  <2> QED
    BY <2>1, <2>4, <2>5 DEF CookieInv
<1> QED
  BY <1>26, <1>27

\* vq_ring_free_chain puts a lent chain in front of the free list.
LEMMA TakeTable ==
  ASSUME TypeOK, TableInv, CookieInv, NEW h \in Lent, FreeChain(h),
         pool' = pool \cup {descx[h].cookie}
  PROVE  TableInv' /\ CookieInv'
<1>0. PICK f \in Nat : f = free_cnt
  BY DEF TableInv
<1>1. PICK p \in [1 .. f -> DescIdx], C \in [Lent -> ChainLists] : Layout(p, C) /\ Covered(p, C)
  BY <1>0 DEF TableInv
<1>p. /\ \A i, j \in 1 .. f : p[i] = p[j] => i = j
      /\ head_idx = IF f = 0 THEN CHAIN_END ELSE p[1]
      /\ \A i \in 1 .. f : desc[p[i]].next = IF i = f THEN CHAIN_END ELSE p[i + 1]
      /\ \A i \in 1 .. f : descx[p[i]].cookie = NoBuf
  <2>1. IsFreeList(p)
    BY <1>1, Zenon DEF Layout
  <2>2. /\ \A i, j \in 1 .. f : p[i] = p[j] => i = j
        /\ head_idx = IF f = 0 THEN CHAIN_END ELSE p[1]
        /\ \A i \in 1 .. f : /\ desc[p[i]].next = IF i = f THEN CHAIN_END ELSE p[i + 1]
                           /\ descx[p[i]].cookie = NoBuf
    BY <1>0, <2>1, Zenon DEF IsFreeList
  <2> QED
    BY <2>2, Zenon
<1>c. ASSUME NEW g \in Lent
      PROVE  /\ descx[g].ndescs \in 1 .. MaxChain
             /\ C[g] \in LentChains(g, descx[g].ndescs)
             /\ C[g][1] = g /\ 1 \in 1 .. descx[g].ndescs
             /\ \A i, j \in 1 .. descx[g].ndescs : C[g][i] = C[g][j] => i = j
             /\ \A i \in 1 .. descx[g].ndescs, j \in 1 .. f : C[g][i] # p[j]
  BY <1>0, <1>1, LayoutParts
<1>d. \A g1, g2 \in Lent : g1 # g2 =>
        \A i \in 1 .. descx[g1].ndescs, j \in 1 .. descx[g2].ndescs : C[g1][i] # C[g2][j]
  BY <1>0, <1>1, LayoutParts
<1>2. h \in DescIdx /\ descx[h].cookie # NoBuf
  BY DEF Lent
<1>3. PICK m \in 1 .. MaxChain : m = descx[h].ndescs
  BY <1>c
<1>4. PICK c : c = C[h]
  OBVIOUS
<1>5. /\ c \in LentChains(h, m) /\ c \in [1 .. m -> DescIdx] /\ c[1] = h
      /\ \A i \in 2 .. m : c[i] = desc[c[i-1]].next
  BY <1>3, <1>4, <1>c DEF LentChains, Chains
<1>6. /\ \A i, j \in 1 .. m : c[i] = c[j] => i = j
      /\ \A i \in 1 .. m, j \in 1 .. f : c[i] # p[j]
  BY <1>3, <1>4, <1>c
<1>7. m \in Nat \ {0} /\ 1 \in 1 .. m /\ m \in 1 .. m /\ c[m] \in DescIdx
  BY <1>5, Sizes
<1>8. /\ desc' = [desc EXCEPT ![c[m]] = [desc[c[m]] EXCEPT !.next = head_idx]]
      /\ descx' = [descx EXCEPT ![h] = [cookie |-> NoBuf, ndescs |-> 0]]
      /\ free_cnt' = f + m
      /\ head_idx' = h
  <2>0. PICK k \in 1 .. MaxChain : \E q \in LentChains(h, k) :
          /\ desc' = [desc EXCEPT ![q[k]] = [@ EXCEPT !.next = head_idx]]
          /\ descx' = [descx EXCEPT ![h] = [cookie |-> NoBuf, ndescs |-> @.ndescs - k]]
    BY DEF FreeChain
  <2>1. PICK q \in LentChains(h, k) :
          /\ desc' = [desc EXCEPT ![q[k]] = [@ EXCEPT !.next = head_idx]]
          /\ descx' = [descx EXCEPT ![h] = [cookie |-> NoBuf, ndescs |-> @.ndescs - k]]
    BY <2>0
  <2>2. k \in Nat \ {0}
    BY Sizes
  <2>3. k = m /\ q[k] = c[m]
    BY <1>5, <1>7, <2>2, LentChainUnique
  <2>4. descx[h].ndescs - k = 0
    BY <1>3, <1>7, <2>3
  <2>5. free_cnt' = f + m /\ head_idx' = h
    BY <1>0, <1>3 DEF FreeChain
  <2> QED
    BY <2>1, <2>3, <2>4, <2>5
<1>9. /\ descx \in [DescIdx -> [cookie : Buffers \cup {NoBuf}, ndescs : Int]]
      /\ desc \in [DescIdx -> Descriptor]
  BY DEF TypeOK
<1>10. /\ descx'[h] = [cookie |-> NoBuf, ndescs |-> 0]
       /\ \A d \in DescIdx : d # h => descx'[d] = descx[d]
  BY <1>2, <1>8, <1>9
<1>11. /\ desc'[c[m]].next = head_idx
       /\ \A d \in DescIdx : d # c[m] => desc'[d] = desc[d]
       /\ \A d \in DescIdx : desc'[d].addr = desc[d].addr
  BY <1>7, <1>8, <1>9 DEF Descriptor
<1>12. Lent' = Lent \ {h}
  BY <1>2, TakeReclaims
<1>13. \A g \in Lent' : /\ g \in Lent /\ g \in DescIdx /\ g # h /\ descx'[g] = descx[g]
                        /\ \A i \in 1 .. descx[g].ndescs : desc'[C[g][i]] = desc[C[g][i]]
  <2> SUFFICES ASSUME NEW g \in Lent'
               PROVE  /\ g \in Lent /\ g \in DescIdx /\ g # h /\ descx'[g] = descx[g]
                      /\ \A i \in 1 .. descx[g].ndescs : desc'[C[g][i]] = desc[C[g][i]]
    OBVIOUS
  <2>1. g \in Lent /\ g \in DescIdx /\ g # h /\ descx'[g] = descx[g]
    BY <1>10, <1>12 DEF Lent
  <2>2. ASSUME NEW i \in 1 .. descx[g].ndescs PROVE desc'[C[g][i]] = desc[C[g][i]]
    <3>1. C[g][i] \in DescIdx
      BY <1>c, <2>1 DEF LentChains, Chains
    <3>2. C[g][i] # c[m]
      BY <1>3, <1>4, <1>7, <1>d, <2>1
    <3> QED
      BY <1>11, <3>1, <3>2
  <2> QED
    BY <2>1, <2>2
\* Only the first descriptor of the chain carries a cookie.
<1>14. \A i \in 1 .. m : descx'[c[i]].cookie = NoBuf
  <2> SUFFICES ASSUME NEW i \in 1 .. m PROVE descx'[c[i]].cookie = NoBuf
    OBVIOUS
  <2>1. CASE c[i] = h
    BY <1>10, <2>1
  <2>2. CASE c[i] # h
    <3>1. c[i] \in DescIdx
      BY <1>5
    <3>2. c[i] \notin Lent
      <4> SUFFICES ASSUME c[i] \in Lent PROVE FALSE
        OBVIOUS
      <4>1. PICK g \in Lent : g = c[i]
        OBVIOUS
      <4>2. C[g][1] = c[i] /\ 1 \in 1 .. descx[g].ndescs /\ g # h
        BY <1>c, <2>2, <4>1
      <4> QED
        BY <1>3, <1>4, <1>d, <4>2
    <3> QED
      BY <1>10, <2>2, <3>1, <3>2 DEF Lent
  <2> QED
    BY <2>1, <2>2
<1>L. PICK L : L = Lent'
  OBVIOUS
<1> DEFINE p2 == [i \in 1 .. f + m |-> IF i <= m THEN c[i] ELSE p[i - m]]
           C2 == [g \in L |-> C[g]]
<1>15. \A i \in 1 .. f + m : \/ i \in 1 .. m /\ p2[i] = c[i]
                             \/ i > m /\ i - m \in 1 .. f /\ p2[i] = p[i - m]
  BY <1>7
<1>16. p2 \in [1 .. f + m -> DescIdx]
  BY <1>5, <1>7
<1>17. /\ \A g \in Lent' : C2[g] = C[g]
       /\ C2 \in [Lent' -> ChainLists]
  BY <1>12, <1>L
<1> HIDE DEF p2, C2
<1>18. IsFreeList(p2)'
  <2>1. \A i, j \in 1 .. f + m : p2[i] = p2[j] => i = j
    <3> SUFFICES ASSUME NEW i \in 1 .. f + m, NEW j \in 1 .. f + m, p2[i] = p2[j] PROVE i = j
      OBVIOUS
    <3>1. CASE i \in 1 .. m /\ j \in 1 .. m
      BY <1>6, <1>7, <1>15, <3>1
    <3>2. CASE i > m /\ j > m
      <4>1. i - m \in 1 .. f /\ j - m \in 1 .. f /\ p[i - m] = p[j - m]
        BY <1>7, <1>15, <3>2
      <4>2. i - m = j - m
        BY <1>p, <4>1
      <4> QED
        BY <1>7, <4>2
    <3>3. CASE i \in 1 .. m /\ j > m
      BY <1>6, <1>7, <1>15, <3>3
    <3>4. CASE i > m /\ j \in 1 .. m
      BY <1>6, <1>7, <1>15, <3>4
    <3> QED
      BY <1>7, <3>1, <3>2, <3>3, <3>4
  <2>2. p2[1] = h /\ f + m # 0 /\ f + m \in Nat
    <3>1. 1 \in 1 .. f + m /\ ~(1 > m) /\ f + m # 0 /\ f + m \in Nat
      BY <1>7
    <3> QED
      BY <1>5, <1>15, <3>1
  <2>3. ASSUME NEW i \in 1 .. f + m
        PROVE  desc'[p2[i]].next = IF i = f + m THEN CHAIN_END ELSE p2[i + 1]
    <3>1. CASE i < m
      <4>1. i \in 1 .. m /\ i + 1 \in 1 .. m /\ i + 1 \in 2 .. m /\ (i + 1) - 1 = i
            /\ i + 1 \in 1 .. f + m /\ i # m /\ i # f + m /\ ~(i > m) /\ ~(i + 1 > m)
        BY <1>7, <3>1
      <4>2. p2[i] = c[i] /\ p2[i + 1] = c[i + 1]
        BY <1>15, <4>1
      <4>3. c[i] \in DescIdx /\ c[i] # c[m]
        BY <1>5, <1>6, <1>7, <4>1
      <4>4. c[i + 1] = desc[c[i]].next
        BY <1>5, <4>1
      <4> QED
        BY <1>11, <4>1, <4>2, <4>3, <4>4
    <3>2. CASE i = m
      <4>1. p2[i] = c[m]
        BY <1>7, <1>15, <3>2
      <4>2. CASE f = 0
        BY <1>7, <1>11, <1>p, <3>2, <4>1, <4>2
      <4>3. CASE f # 0
        <5>1. m + 1 \in 1 .. f + m /\ (m + 1) - m = 1 /\ m # f + m /\ ~(m + 1 \in 1 .. m)
          BY <1>7, <4>3
        <5>2. p2[m + 1] = p[1]
          BY <1>15, <5>1
        <5> QED
          BY <1>11, <1>p, <3>2, <4>1, <4>3, <5>1, <5>2
      <4> QED
        BY <4>2, <4>3
    <3>3. CASE i > m
      <4>1. /\ i - m \in 1 .. f /\ p2[i] = p[i - m] /\ p[i - m] \in DescIdx
            /\ i - m = f <=> i = f + m
        BY <1>7, <1>15, <3>3
      <4>2. p[i - m] # c[m]
        BY <1>6, <1>7, <4>1
      <4>3. desc'[p2[i]].next = IF i - m = f THEN CHAIN_END ELSE p[(i - m) + 1]
        BY <1>11, <1>p, <4>1, <4>2
      <4>4. CASE i = f + m
        BY <4>1, <4>3, <4>4
      <4>5. CASE i # f + m
        <5>1. i + 1 \in 1 .. f + m /\ (i + 1) - m = (i - m) + 1 /\ ~(i + 1 \in 1 .. m)
          BY <1>7, <3>3, <4>5
        <5>2. p2[i + 1] = p[(i - m) + 1]
          BY <1>15, <5>1
        <5> QED
          BY <4>1, <4>3, <4>5, <5>2
      <4> QED
        BY <4>4, <4>5
    <3> QED
      BY <1>7, <3>1, <3>2, <3>3
  <2>4. ASSUME NEW i \in 1 .. f + m
        PROVE  descx'[p2[i]].cookie = NoBuf
    <3>1. CASE i \in 1 .. m /\ p2[i] = c[i]
      BY <1>14, <3>1
    <3>2. CASE i > m /\ i - m \in 1 .. f /\ p2[i] = p[i - m]
      <4>1. p[i - m] \in DescIdx /\ p[i - m] # h
        BY <1>5, <1>6, <1>7, <3>2
      <4> QED
        BY <1>10, <1>p, <3>2, <4>1
    <3> QED
      BY <1>15, <3>1, <3>2
  <2> QED
    BY <1>8, <1>16, <2>1, <2>2, <2>3, <2>4 DEF IsFreeList
<1>19. ASSUME NEW g \in Lent' PROVE IsLentChain(g, C2[g])'
  <2>0. g \in Lent
    BY <1>13
  <2>1. PICK n \in 1 .. MaxChain : n = descx[g].ndescs
    BY <1>c, <2>0
  <2>2. descx'[g].ndescs = n /\ \A i \in 1 .. n : desc'[C[g][i]] = desc[C[g][i]]
    BY <1>13, <2>1
  <2>3. /\ C[g] \in [1 .. n -> DescIdx] /\ C[g][1] = g
        /\ \A i \in 2 .. n : C[g][i] = desc[C[g][i-1]].next
        /\ \A i \in 1 .. n - 1 : "NEXT" \in desc[C[g][i]].flags
        /\ "NEXT" \notin desc[C[g][n]].flags
    BY <1>c, <2>0, <2>1 DEF LentChains, Chains
  <2>4. PICK e : e = C[g]
    OBVIOUS
  <2>5. /\ n \in 1 .. n
        /\ \A i \in 2 .. n : i - 1 \in 1 .. n
        /\ \A i \in 1 .. n - 1 : i \in 1 .. n
    BY Sizes
  <2>6. /\ \A i \in 2 .. n : e[i] = desc'[e[i-1]].next
        /\ \A i \in 1 .. n - 1 : "NEXT" \in desc'[e[i]].flags
        /\ "NEXT" \notin desc'[e[n]].flags
    BY <2>2, <2>3, <2>4, <2>5
  <2>7. e \in LentChains(g, n)'
    BY <2>3, <2>4, <2>6 DEF LentChains, Chains
  <2>8. \A i, j \in 1 .. n : e[i] = e[j] => i = j
    BY <1>c, <2>0, <2>1, <2>4
  <2>9. IsLentChain(g, e)'
    BY <2>2, <2>7, <2>8 DEF IsLentChain, LentChains, Chains
  <2> QED
    BY <1>17, <2>4, <2>9
<1>20. \A g \in Lent' : \A i \in 1 .. descx'[g].ndescs, j \in 1 .. free_cnt' : C2[g][i] # p2[j]
  <2> SUFFICES ASSUME NEW g \in Lent', NEW i \in 1 .. descx[g].ndescs, NEW j \in 1 .. f + m
               PROVE  C[g][i] # p2[j]
    BY <1>8, <1>13, <1>17
  <2>1. g \in Lent /\ g # h
    BY <1>13
  <2>2. CASE j \in 1 .. m /\ p2[j] = c[j]
    BY <1>3, <1>4, <1>d, <2>1, <2>2
  <2>3. CASE j > m /\ j - m \in 1 .. f /\ p2[j] = p[j - m]
    BY <1>c, <2>1, <2>3
  <2> QED
    BY <1>15, <2>2, <2>3
<1>21. \A g1, g2 \in Lent' : g1 # g2 =>
         \A i \in 1 .. descx'[g1].ndescs, j \in 1 .. descx'[g2].ndescs : C2[g1][i] # C2[g2][j]
  BY <1>13, <1>17, <1>d
<1>22. Layout(p2, C2)'
  BY <1>18, <1>19, <1>20, <1>21 DEF Layout
<1>K. Covered(p2, C2)'
  <2> SUFFICES ASSUME NEW d \in DescIdx
               PROVE  \/ \E j \in 1 .. f + m : p2[j] = d
                      \/ \E g \in Lent' : \E i \in 1 .. descx'[g].ndescs : C2[g][i] = d
    BY <1>8 DEF Covered
  <2>1. CASE \E j \in 1 .. f : p[j] = d
    <3>1. PICK j \in 1 .. f : p[j] = d
      BY <2>1
    <3>2. m + j \in 1 .. f + m /\ (m + j) - m = j /\ ~(m + j \in 1 .. m)
      BY <1>7
    <3>3. p2[m + j] = d
      BY <1>15, <3>1, <3>2
    <3> QED
      BY <3>2, <3>3
  <2>2. CASE \E g \in Lent : \E i \in 1 .. descx[g].ndescs : C[g][i] = d
    <3>1. PICK g \in Lent : \E i \in 1 .. descx[g].ndescs : C[g][i] = d
      BY <2>2
    <3>2. CASE g = h
      <4>1. PICK i \in 1 .. m : c[i] = d
        BY <1>3, <1>4, <3>1, <3>2
      <4>2. i \in 1 .. f + m /\ ~(i > m)
        BY <1>7
      <4>3. p2[i] = d
        BY <1>15, <4>1, <4>2
      <4> QED
        BY <4>2, <4>3
    <3>3. CASE g # h
      <4>1. g \in Lent' /\ C2[g] = C[g] /\ descx'[g].ndescs = descx[g].ndescs
        BY <1>12, <1>13, <1>17, <3>3
      <4> QED
        BY <3>1, <4>1
    <3> QED
      BY <3>2, <3>3
  <2> QED
    BY <1>0, <1>1, <2>1, <2>2 DEF Covered
<1>23. \A d \in DescIdx \ Lent' : descx'[d].ndescs = 0
  BY <1>10, <1>12 DEF TableInv
<1>24. TableInv'
  <2>1. p2 \in [1 .. free_cnt' -> DescIdx] /\ free_cnt' \in Nat
    BY <1>7, <1>8, <1>16
  <2> QED
    BY <1>17, <1>22, <1>K, <1>23, <2>1 DEF TableInv
<1>25. CookieInv'
  <2>1. descx[h].cookie \in Buffers
    BY <1>2, <1>9
  <2>2. pool' \subseteq Buffers
    BY <2>1 DEF CookieInv
  <2>3. \A g \in Lent' : desc'[g].addr = descx'[g].cookie /\ descx'[g].cookie \notin pool'
    <3> SUFFICES ASSUME NEW g \in Lent'
                 PROVE  desc'[g].addr = descx'[g].cookie /\ descx'[g].cookie \notin pool'
      OBVIOUS
    <3>1. /\ g \in Lent /\ g \in DescIdx /\ g # h
          /\ descx'[g] = descx[g] /\ desc'[g].addr = desc[g].addr
      BY <1>11, <1>13
    <3>2. /\ desc[g].addr = descx[g].cookie /\ descx[g].cookie \notin pool
          /\ descx[g].cookie # descx[h].cookie
      BY <3>1 DEF CookieInv
    <3> QED
      BY <3>1, <3>2
  <2>4. \A g1, g2 \in Lent' : descx'[g1].cookie = descx'[g2].cookie => g1 = g2
    BY <1>13 DEF CookieInv
  <2> QED
    BY <2>2, <2>3, <2>4 DEF CookieInv
<1> QED
  BY <1>24, <1>25

\* The other steps do not touch the table.
LEMMA TableSame ==
  ASSUME UNCHANGED tableVars
  PROVE  /\ TableInv => TableInv'
         /\ CookieInv => CookieInv'
<1>0. desc' = desc /\ descx' = descx /\ head_idx' = head_idx /\ free_cnt' = free_cnt /\ pool' = pool
  BY DEF tableVars
<1>1. Lent' = Lent
  BY <1>0 DEF Lent
<1>2. ASSUME TableInv PROVE TableInv'
  <2>1. PICK p \in [1 .. free_cnt -> DescIdx], C \in [Lent -> ChainLists] :
          Layout(p, C) /\ Covered(p, C)
    BY <1>2 DEF TableInv
  <2>2. IsFreeList(p)'
    BY <1>0, <2>1 DEF Layout, IsFreeList
  <2>3. ASSUME NEW h \in Lent, NEW q, IsLentChain(h, q) PROVE IsLentChain(h, q)'
    BY <1>0, <2>3 DEF IsLentChain, LentChains, Chains
  <2>4. \A h \in Lent : IsLentChain(h, C[h])'
    <3> SUFFICES ASSUME NEW h \in Lent PROVE IsLentChain(h, C[h])'
      OBVIOUS
    <3>1. PICK q : q = C[h]
      OBVIOUS
    <3>2. IsLentChain(h, q)
      BY <2>1, <3>1 DEF Layout
    <3> QED
      BY <2>3, <3>1, <3>2
  <2>5. /\ \A h \in Lent : \A i \in 1 .. descx[h].ndescs, j \in 1 .. free_cnt : C[h][i] # p[j]
        /\ \A h, g \in Lent : h # g =>
             \A i \in 1 .. descx[h].ndescs, j \in 1 .. descx[g].ndescs : C[h][i] # C[g][j]
    BY <2>1 DEF Layout
  <2>6. Layout(p, C)'
    BY <1>0, <1>1, <2>2, <2>4, <2>5 DEF Layout
  <2>8. Covered(p, C)'
    BY <1>0, <1>1, <2>1 DEF Covered
  <2>7. free_cnt \in Nat /\ \A d \in DescIdx \ Lent : descx[d].ndescs = 0
    BY <1>2 DEF TableInv
  <2> QED
    BY <1>0, <1>1, <2>6, <2>7, <2>8 DEF TableInv
<1>3. CookieInv => CookieInv'
  BY <1>0, <1>1 DEF CookieInv
<1> QED
  BY <1>2, <1>3

\* Every step keeps the table's layout and the cookies.
LEMMA TableStep ==
  ASSUME TypeOK, PlaceInv, TableInv, CookieInv, [InsideNext]_vars
  PROVE  TableInv' /\ CookieInv'
<1>1. ASSUME NEW b \in Buffers, NEW k \in 1 .. MaxChain, Lends(b, k)
      PROVE  TableInv' /\ CookieInv'
  BY <1>1, AddTable
<1>2. ASSUME NEW h \in DescIdx, AddConsumed(h)
      PROVE  TableInv' /\ CookieInv'
  BY <1>2, TableSame DEF AddConsumed
<1>3. CASE TakeAvailable
  BY <1>3, TableSame DEF TakeAvailable
<1>4. CASE TakeUsed
  <2>0. "drv" \in Side /\ Peer("drv") = "dev"
    BY DEF Side, Peer
  <2>1. /\ pc["drv"] = "take" /\ FreeChain(ring["dev"][reg["drv"]])
        /\ pool' = pool \cup {descx[ring["dev"][reg["drv"]]].cookie}
    BY <1>4 DEF TakeUsed
  <2>2. InCall("drv") = {ring["dev"][reg["drv"]]}
    BY <2>0, <2>1 DEF InCall
  <2>3. PICK h \in Lent : h = ring["dev"][reg["drv"]]
    BY <2>2 DEF PlaceInv
  <2>4. FreeChain(h)
    BY <2>1, <2>3
  <2> QED
    BY <2>1, <2>3, <2>4, TakeTable
<1>5. ASSUME NEW s \in Side, SideStep(s)
      PROVE  TableInv' /\ CookieInv'
  <2>1. UNCHANGED tableVars
    BY <1>5 DEF SideStep, Publish, Claim, Kick, DisableCb, EnableCb, RecheckAfterEnable,
                Notified, Resume
  <2> QED
    BY <2>1, TableSame
<1>6. CASE UNCHANGED vars
  <2>1. UNCHANGED tableVars
    BY <1>6 DEF vars, tableVars
  <2> QED
    BY <2>1, TableSame
<1> QED
  BY <1>1, <1>2, <1>3, <1>4, <1>5, <1>6 DEF InsideNext

\* The layout is what FreeListSound asks for.
LEMMA LayoutGivesFreeListSound ==
  ASSUME TypeOK, TableInv
  PROVE  FreeListSound
<1>0. PICK f \in Nat : f = free_cnt
  BY DEF TableInv
<1>1. PICK p \in [1 .. f -> DescIdx], C \in [Lent -> ChainLists] : Layout(p, C) /\ Covered(p, C)
  BY <1>0 DEF TableInv
<1>p. /\ \A i, j \in 1 .. f : p[i] = p[j] => i = j
      /\ head_idx = IF f = 0 THEN CHAIN_END ELSE p[1]
      /\ \A i \in 1 .. f : desc[p[i]].next = IF i = f THEN CHAIN_END ELSE p[i + 1]
      /\ \A i \in 1 .. f : descx[p[i]].cookie = NoBuf
  BY <1>0, <1>1, LayoutParts
<1>c. ASSUME NEW g \in Lent
      PROVE  /\ descx[g].ndescs \in 1 .. MaxChain
             /\ C[g] \in LentChains(g, descx[g].ndescs)
             /\ \A i, j \in 1 .. descx[g].ndescs : C[g][i] = C[g][j] => i = j
             /\ \A i \in 1 .. descx[g].ndescs, j \in 1 .. f : C[g][i] # p[j]
  BY <1>0, <1>1, LayoutParts
<1>d. \A h, g \in Lent : h # g =>
        \A i \in 1 .. descx[h].ndescs, j \in 1 .. descx[g].ndescs : C[h][i] # C[g][j]
  BY <1>0, <1>1, LayoutParts
<1> DEFINE free == {p[i] : i \in 1 .. free_cnt}
           body(h) == UNION {Range(q) : q \in LentChains(h, descx[h].ndescs)}
<1>2. /\ free \in SUBSET DescIdx
      /\ p \in [1 .. f -> free]
      /\ \A v \in free : \E i \in 1 .. f : p[i] = v
  BY <1>0
<1>3. \A v \in free : \E j \in 1 .. f : v = p[j]
  BY <1>2
<1>4. Cardinality(free) = f
  <2> HIDE DEF free
  <2> QED
    BY <1>2, <1>p, DistinctValues
<1>5. f \in 0 .. N
  <2> HIDE DEF free
  <2>1. Cardinality(free) <= N
    BY <1>2, TableSize
  <2> QED
    BY <1>4, <2>1, Sizes
<1>6. p \in FreeLists
  <2>1. CASE f = 0
    <3>1. p = <<>>
      BY <2>1
    <3> QED
      BY <1>0, <2>1, <3>1 DEF FreeLists
  <2>2. CASE f # 0
    <3>1. ASSUME NEW i \in 2 .. f PROVE p[i] = desc[p[i-1]].next
      <4>1. i - 1 \in 1 .. f /\ i - 1 # f /\ (i - 1) + 1 = i
        OBVIOUS
      <4> QED
        BY <1>p, <4>1
    <3>2. p \in Chains(head_idx, f)
      BY <1>p, <2>2, <3>1 DEF Chains
    <3> QED
      BY <1>0, <2>2, <3>2 DEF FreeLists
  <2> QED
    BY <2>1, <2>2
<1>7. ASSUME NEW h \in Lent
      PROVE  /\ Cardinality(body(h)) = descx[h].ndescs
             /\ \A d \in body(h) : \E i \in 1 .. descx[h].ndescs : d = C[h][i]
             /\ \A i \in 1 .. descx[h].ndescs : C[h][i] \in body(h)
             /\ body(h) \in SUBSET DescIdx
  <2>1. PICK n \in 1 .. MaxChain : n = descx[h].ndescs
    BY <1>c
  <2>2. PICK c \in LentChains(h, n) : c = C[h]
    BY <1>c, <2>1
  <2>3. c \in [1 .. n -> DescIdx] /\ n \in Nat \ {0} /\ DOMAIN c = 1 .. n
    BY Sizes DEF LentChains, Chains
  <2>4. \A q \in LentChains(h, n) : q = c
    <3> SUFFICES ASSUME NEW q \in LentChains(h, n) PROVE q = c
      OBVIOUS
    <3>1. q \in [1 .. n -> DescIdx]
      BY DEF LentChains, Chains
    <3>2. \A i \in 1 .. n : q[i] = c[i]
      BY <2>3, LentChainUnique
    <3> QED
      BY <2>3, <3>1, <3>2
  <2>5. body(h) = Range(c)
    BY <2>1, <2>4
  <2> HIDE DEF body
  <2>6. /\ c \in [1 .. n -> body(h)]
        /\ \A v \in body(h) : \E i \in 1 .. n : c[i] = v
    BY <2>3, <2>5 DEF Range
  <2>7. \A i, j \in 1 .. n : c[i] = c[j] => i = j
    BY <1>c, <2>1, <2>2
  <2>8. Cardinality(body(h)) = n
    BY <2>3, <2>6, <2>7, DistinctValues
  <2>9. /\ \A i \in 1 .. n : c[i] \in body(h)
        /\ body(h) \in SUBSET DescIdx
    BY <2>3, <2>6
  <2> QED
    BY <2>1, <2>2, <2>6, <2>8, <2>9
<1>8. free_cnt > 0 => desc[p[free_cnt]].next = CHAIN_END
  BY <1>0, <1>p
<1>9. free_cnt = 0 => head_idx = CHAIN_END
  BY <1>0, <1>p
<1>10. \A d \in free : descx[d] = [cookie |-> NoBuf, ndescs |-> 0]
  <2> SUFFICES ASSUME NEW d \in free PROVE descx[d] = [cookie |-> NoBuf, ndescs |-> 0]
    OBVIOUS
  <2> HIDE DEF free
  <2>0. PICK j \in 1 .. f : d = p[j]
    BY <1>3
  <2>1. d \in DescIdx /\ descx[d].cookie = NoBuf
    BY <1>p, <2>0
  <2>2. d \notin Lent
    BY <2>1 DEF Lent
  <2>3. descx[d].ndescs = 0
    BY <2>1, <2>2 DEF TableInv
  <2>4. descx[d] \in [cookie : Buffers \cup {NoBuf}, ndescs : Int]
    BY <2>1 DEF TypeOK
  <2> QED
    BY <2>1, <2>3, <2>4
<1>11. \A h \in Lent : Cardinality(body(h)) = descx[h].ndescs
  BY <1>7
<1>12. \A h \in Lent : body(h) \cap free = {}
  <2> SUFFICES ASSUME NEW h \in Lent, NEW d, d \in body(h), d \in free PROVE FALSE
    OBVIOUS
  <2> HIDE DEF body, free
  <2>1. PICK i \in 1 .. descx[h].ndescs : d = C[h][i]
    BY <1>7
  <2>2. PICK j \in 1 .. f : d = p[j]
    BY <1>3
  <2> QED
    BY <1>c, <2>1, <2>2
<1>13. \A h, g \in Lent : h # g => body(h) \cap body(g) = {}
  <2> SUFFICES ASSUME NEW h \in Lent, NEW g \in Lent, h # g, NEW d, d \in body(h), d \in body(g)
               PROVE FALSE
    OBVIOUS
  <2> HIDE DEF body, free
  <2>1. PICK i \in 1 .. descx[h].ndescs : d = C[h][i]
    BY <1>7
  <2>2. PICK j \in 1 .. descx[g].ndescs : d = C[g][j]
    BY <1>7
  <2> QED
    BY <1>d, <2>1, <2>2
<1>K. DescIdx = free \cup UNION {body(h) : h \in Lent}
  <2> HIDE DEF body
  <2>1. ASSUME NEW d \in DescIdx PROVE d \in free \/ \E h \in Lent : d \in body(h)
    <3>1. CASE \E j \in 1 .. f : p[j] = d
      BY <1>0, <3>1
    <3>2. CASE \E h \in Lent : \E i \in 1 .. descx[h].ndescs : C[h][i] = d
      BY <1>7, <3>2
    <3> QED
      BY <1>0, <1>1, <3>1, <3>2 DEF Covered
  <2> HIDE DEF free
  <2> QED
    BY <1>2, <1>7, <2>1
<1> HIDE DEF body, free
<1>14. /\ Cardinality(free) = free_cnt
       /\ free_cnt > 0 => desc[p[free_cnt]].next = CHAIN_END
       /\ free_cnt = 0 => head_idx = CHAIN_END
       /\ \A d \in free : descx[d] = [cookie |-> NoBuf, ndescs |-> 0]
       /\ \A h \in Lent : /\ Cardinality(body(h)) = descx[h].ndescs
                          /\ body(h) \cap free = {}
       /\ \A h, g \in Lent : h # g => body(h) \cap body(g) = {}
       /\ DescIdx = free \cup UNION {body(h) : h \in Lent}
  BY <1>K, <1>0, <1>4, <1>8, <1>9, <1>10, <1>11, <1>12, <1>13
<1>15. pc["drv"] # "overrun"
  BY DEF TypeOK, Side
<1> QED
  BY <1>0, <1>5, <1>6, <1>14, <1>15 DEF FreeListSound, Lent, free, body

-----------------------------------------------------------------------------
\* virtqueue_create leaves nothing lent and every descriptor free.
LEMMA InitVqInv == Init => VqInv
<1> SUFFICES ASSUME Init PROVE VqInv
  OBVIOUS
<1>1. IInv /\ TypeOK
  BY InitIInv DEF IInv
<1>0. /\ \A s \in Side : Pending(s) = 0 /\ pc[s] = "run"
      /\ \A s \in Side : idx[s] = 0 /\ cons[s] = 0
      /\ held = {} /\ free_cnt = N /\ head_idx = 0 /\ pool = Buffers
      /\ desc = InitialDesc
      /\ descx = [d \in DescIdx |-> [cookie |-> NoBuf, ndescs |-> 0]]
  BY Sides DEF Init, Pending, Sub
<1>2. Lent = {}
  BY <1>0 DEF Lent
<1>3. \A s \in Side : InCall(s) = {} /\ Coming(s) = {}
  <2> SUFFICES ASSUME NEW s \in Side PROVE InCall(s) = {} /\ Coming(s) = {}
    OBVIOUS
  <2>1. InCall(s) = {}
    BY <1>0 DEF InCall
  <2>2. \A d \in Coming(s) : \E i \in 1 .. Pending(s) : Unread(s)[i] = d
    BY <1>1, UnreadType
  <2> QED
    BY <1>0, <2>1, <2>2
<1>4. RegInv /\ UnreadInv
  BY <1>0 DEF RegInv, UnreadInv
<1>5. PlaceInv
  BY <1>0, <1>2, <1>3, Sides DEF PlaceInv
<1>6. CountInv
  <2>1. Cardinality(held) = 0
    BY <1>0, FS_EmptySet
  <2>2. pc["dev"] = "run" /\ cons["dev"] = 0 /\ idx["dev"] = 0
    BY <1>0, Sides
  <2> QED
    BY <2>1, <2>2 DEF CountInv, Sub
<1>7. TableInv
  <2> DEFINE p == [i \in 1 .. N |-> i - 1]
             C == [h \in {} |-> <<>>]
  <2>1. p \in [1 .. N -> DescIdx] /\ \A i \in 1 .. N : p[i] = i - 1
    BY Sizes DEF DescIdx
  <2>2. C \in [Lent -> ChainLists]
    BY <1>2
  <2> HIDE DEF p, C
  <2>3. \A i, j \in 1 .. N : p[i] = p[j] => i = j
    BY <2>1, Sizes
  <2>4. head_idx = IF N = 0 THEN CHAIN_END ELSE p[1]
    BY <1>0, <2>1, Sizes
  <2>5. ASSUME NEW i \in 1 .. N
        PROVE  /\ desc[p[i]].next = IF i = N THEN CHAIN_END ELSE p[i + 1]
               /\ descx[p[i]].cookie = NoBuf
    <3>1. p[i] = i - 1 /\ p[i] \in DescIdx
      BY <2>1
    <3>2. desc[p[i]].next = IF p[i] = N - 1 THEN CHAIN_END ELSE p[i] + 1
      BY <1>0, <3>1 DEF InitialDesc
    <3>3. descx[p[i]].cookie = NoBuf
      BY <1>0, <3>1
    <3>4. CASE i = N
      BY <3>1, <3>2, <3>3, <3>4
    <3>5. CASE i # N
      <4>1. i + 1 \in 1 .. N /\ p[i] # N - 1
        BY <3>1, <3>5, Sizes
      <4>2. p[i + 1] = p[i] + 1
        BY <2>1, <3>1, <4>1
      <4> QED
        BY <3>2, <3>3, <3>5, <4>1, <4>2
    <3> QED
      BY <3>4, <3>5
  <2>6. IsFreeList(p)
    BY <1>0, <2>1, <2>3, <2>4, <2>5 DEF IsFreeList
  <2>7. Layout(p, C)
    BY <1>2, <2>6 DEF Layout
  <2>8. free_cnt \in Nat /\ p \in [1 .. free_cnt -> DescIdx]
    BY <1>0, <2>1, Sizes
  <2>10. Covered(p, C)
    <3> SUFFICES ASSUME NEW d \in DescIdx PROVE \E j \in 1 .. N : p[j] = d
      BY <1>0 DEF Covered
    <3>1. d + 1 \in 1 .. N /\ (d + 1) - 1 = d
      BY Sizes DEF DescIdx
    <3>2. p[d + 1] = d
      BY <2>1, <3>1
    <3> QED
      BY <3>1, <3>2
  <2>9. \A d \in DescIdx \ Lent : descx[d].ndescs = 0
    BY <1>0
  <2> QED
    BY <2>2, <2>7, <2>8, <2>9, <2>10 DEF TableInv
<1>8. CookieInv
  BY <1>0, <1>2 DEF CookieInv
<1> QED
  BY <1>1, <1>4, <1>5, <1>6, <1>7, <1>8 DEF VqInv, RingInv

\* The virtqueue keeps the invariant that ties its rings, its descriptor table
\* and the two clients' buffers together, whatever the interleaving.
THEOREM VqInvariant == Spec => []VqInv
<1>1. VqInv /\ [Next]_vars => VqInv'
  <2> SUFFICES ASSUME VqInv, [Next]_vars PROVE VqInv'
    OBVIOUS
  <2>0. IInv /\ TypeOK /\ RegInv /\ UnreadInv /\ PlaceInv /\ CountInv /\ TableInv /\ CookieInv
    BY DEF VqInv, RingInv, IInv
  <2>1. /\ IInv /\ TypeOK /\ RegInv /\ UnreadInv /\ PlaceInv /\ CountInv /\ TableInv /\ CookieInv
        /\ [InsideNext]_vars
    BY <2>0, NextIsInside
  <2>2. IInv'
    BY <2>1, TypeStep, WakeupStep DEF IInv
  <2>3. RegInv' /\ UnreadInv' /\ PlaceInv'
    BY <2>1, PlaceStep
  <2>4. CountInv'
    BY <2>1, CountStep
  <2>5. TableInv' /\ CookieInv'
    BY <2>1, TableStep
  <2> QED
    BY <2>2, <2>3, <2>4, <2>5 DEF VqInv, RingInv
<1> QED
  BY InitVqInv, <1>1, PTL DEF Spec

\* The two virtqueue structures and the shared ring memory keep their C types
\* whatever the two sides do, for every ring size and index width.
THEOREM TypeCorrect == Spec => []TypeOK
<1>1. VqInv => TypeOK
  BY DEF VqInv, IInv
<1> QED
  BY VqInvariant, <1>1, PTL

\* virtqueue_kick and virtqueue_enable_cb never lose a wakeup between them,
\* with flags and with event indices, for every ring size and index width: a
\* side that waits while its ring has entries has a notification pending or a
\* peer that has still to kick.
THEOREM WakeupNeverLost == Spec => []NoLostWakeup
<1>1. IInv => NoLostWakeup
  <2> SUFFICES ASSUME IInv, NEW s \in Side, pc[s] = "wait", cons[s] # idx[Peer(s)],
                      s \notin signal
               PROVE  queued[Peer(s)] > 0
    BY DEF NoLostWakeup
  <2>1. Pending(s) <= queued[Peer(s)]
    BY DEF IInv, WakeupInv, WakeupAt
  <2>2. Pending(s) \in Index /\ Pending(s) # 0
    BY Sides, IndexArithmetic DEF Pending, IInv, TypeOK
  <2>3. queued[Peer(s)] \in 0 .. MaxQueued
    BY Sides DEF IInv, TypeOK
  <2> QED
    BY Sizes, <2>1, <2>2, <2>3 DEF Index
<1>2. VqInv => IInv
  BY DEF VqInv
<1> QED
  BY VqInvariant, <1>1, <1>2, PTL

\* virtqueue_add_buffer and vq_ring_free_chain keep the free list sound for
\* every ring size and chain length: it has vq_free_cnt different descriptors
\* and shares none with a lent chain, whose recorded length is its real one, and
\* every descriptor is in one of the two.  A client that asks for no more
\* descriptors than there are never runs past the table, although the test for
\* a full one is compiled out.
THEOREM FreeListIsSound == Spec => []FreeListSound
<1>1. VqInv => FreeListSound
  BY LayoutGivesFreeListSound DEF VqInv, IInv
<1> QED
  BY VqInvariant, <1>1, PTL

\* A lent chain is in exactly one place, for every ring size and index width:
\* no slot of avail->ring or used->ring is overwritten before it was read, not
\* even between claiming a slot and reading it.
THEOREM ChainHasOneOwner == Spec => []OneOwner
<1>1. VqInv => OneOwner
  BY PlacesGiveOneOwner DEF VqInv, RingInv, IInv
<1> QED
  BY VqInvariant, <1>1, PTL

\* The free-running uint16_t indices of the two sides never overtake one another
\* and are never more than a ring apart, across every wrap: the VQASSERTs of
\* virtqueue_nused and virtqueue_navail hold.
THEOREM IndicesStayInOrder == Spec => []IndicesInOrder
<1>1. VqInv => IndicesInOrder
  BY PlacesOrderIndices DEF VqInv, RingInv, IInv
<1> QED
  BY VqInvariant, <1>1, PTL

-----------------------------------------------------------------------------
(***************************************************************************)
(* The virtqueue implements BufferExchange, for every ring size, index     *)
(* width and chain length: the invariant VqInv makes every step a step of  *)
(* the exchange or a stuttering step.                                      *)
(***************************************************************************)

\* The buffers that the descriptors in q carry in table D.
Addresses(D, q) == [i \in DOMAIN q |-> D[q[i]].addr]

-----------------------------------------------------------------------------
(***************************************************************************)
(* Lists of heads and lists of buffers.                                    *)
(***************************************************************************)
\* One element in front of a list.
LEMMA ConsFacts ==
  ASSUME NEW S, NEW x \in S, NEW q \in Seq(S)
  PROVE  /\ <<x>> \o q \in Seq(S) /\ Len(<<x>> \o q) = Len(q) + 1
         /\ <<x>> \o q # <<>>
         /\ Head(<<x>> \o q) = x /\ (<<x>> \o q)[1] = x
         /\ \A i \in 1 .. Len(q) : (<<x>> \o q)[i + 1] = q[i]
         /\ Tail(<<x>> \o q) = q
<1> DEFINE z == <<x>> \o q
<1>0. <<x>> \in Seq(S) /\ Len(<<x>>) = 1 /\ <<x>>[1] = x /\ Len(q) \in Nat
  BY LenProperties
<1>1. /\ z \in Seq(S) /\ Len(z) = 1 + Len(q)
      /\ \A i \in 1 .. 1 + Len(q) : z[i] = IF i <= 1 THEN <<x>>[i] ELSE q[i - 1]
  BY <1>0, ConcatProperties
<1> HIDE DEF z
<1>2. z[1] = x
  BY <1>0, <1>1
<1>3. \A i \in 1 .. Len(q) : z[i + 1] = q[i]
  <2> SUFFICES ASSUME NEW i \in 1 .. Len(q) PROVE z[i + 1] = q[i]
    OBVIOUS
  <2>1. i + 1 \in 1 .. 1 + Len(q) /\ ~(i + 1 <= 1) /\ (i + 1) - 1 = i
    BY <1>0
  <2> QED
    BY <1>1, <2>1
<1>4. z # <<>>
  <2>1. Len(<<>>) = 0
    OBVIOUS
  <2> QED
    BY <1>0, <1>1, <2>1
<1>5. Head(z) = x
  BY <1>2
<1>6. /\ Tail(z) \in Seq(S) /\ Len(Tail(z)) = Len(z) - 1
      /\ \A i \in 1 .. Len(Tail(z)) : Tail(z)[i] = z[i + 1]
  BY <1>1, <1>4, HeadTailProperties
<1>7. Len(Tail(z)) = Len(q)
  BY <1>0, <1>1, <1>6
<1>8. Tail(z) = q
  BY <1>3, <1>6, <1>7, SeqEqual
<1>9. Len(z) = Len(q) + 1
  BY <1>0, <1>1
<1> QED
  BY <1>1, <1>2, <1>3, <1>4, <1>5, <1>8, <1>9 DEF z

\* The buffers of a list: one for each head.
LEMMA AddressType ==
  ASSUME NEW D, NEW q \in Seq(DescIdx)
  PROVE  /\ Addresses(D, q) \in Seq({D[d].addr : d \in DescIdx})
         /\ Len(Addresses(D, q)) = Len(q) /\ Len(q) \in Nat
         /\ \A i \in 1 .. Len(q) : Addresses(D, q)[i] = D[q[i]].addr
<1>1. Len(q) \in Nat /\ DOMAIN q = 1 .. Len(q) /\ \A i \in 1 .. Len(q) : q[i] \in DescIdx
  BY LenProperties, ElementOfSeq
<1> DEFINE V == {D[d].addr : d \in DescIdx}
           f == Addresses(D, q)
<1>2. \A i \in 1 .. Len(q) : D[q[i]].addr \in V
  BY <1>1
<1>3. f = [i \in 1 .. Len(q) |-> D[q[i]].addr]
  BY <1>1 DEF Addresses
<1> HIDE DEF V
<1>4. f \in [1 .. Len(q) -> V]
  BY <1>2, <1>3
<1>5. \A i \in 1 .. Len(q) : f[i] = D[q[i]].addr
  BY <1>3
<1> HIDE DEF f
<1>6. f \in Seq(V) /\ Len(f) = Len(q)
  BY <1>1, <1>4, FunctionIsSeq
<1> QED
  BY <1>1, <1>5, <1>6 DEF V, f

\* A list whose descriptors carry the same buffers in two tables.
LEMMA AddressSame ==
  ASSUME NEW D, NEW E, NEW q \in Seq(DescIdx),
         \A i \in 1 .. Len(q) : D[q[i]].addr = E[q[i]].addr
  PROVE  Addresses(D, q) = Addresses(E, q)
<1>1. DOMAIN q = 1 .. Len(q)
  BY LenProperties
<1> QED
  BY <1>1 DEF Addresses

\* The buffers of a list that grows at its end.
LEMMA AddressAppend ==
  ASSUME NEW D, NEW q \in Seq(DescIdx), NEW x \in DescIdx
  PROVE  Addresses(D, Append(q, x)) = Append(Addresses(D, q), D[x].addr)
<1> DEFINE V == {D[d].addr : d \in DescIdx}
           a == Addresses(D, q)
           r == Append(q, x)
           b == Addresses(D, r)
<1>1. D[x].addr \in V
  OBVIOUS
<1>2. /\ r \in Seq(DescIdx) /\ Len(r) = Len(q) + 1
      /\ \A i \in 1 .. Len(q) : r[i] = q[i]
      /\ r[Len(q) + 1] = x
  BY AppendProperties
<1>3. /\ a \in Seq(V) /\ Len(a) = Len(q) /\ Len(q) \in Nat
      /\ \A i \in 1 .. Len(q) : a[i] = D[q[i]].addr
  BY AddressType
<1> HIDE DEF r
<1>4. /\ b \in Seq(V) /\ Len(b) = Len(r)
      /\ \A i \in 1 .. Len(r) : b[i] = D[r[i]].addr
  BY <1>2, AddressType
<1> HIDE DEF V, a, b
<1>5. /\ Append(a, D[x].addr) \in Seq(V) /\ Len(Append(a, D[x].addr)) = Len(a) + 1
      /\ \A i \in 1 .. Len(a) : Append(a, D[x].addr)[i] = a[i]
      /\ Append(a, D[x].addr)[Len(a) + 1] = D[x].addr
  BY <1>1, <1>3, AppendProperties
<1>6. ASSUME NEW i \in 1 .. Len(r) PROVE b[i] = Append(a, D[x].addr)[i]
  <2>1. CASE i = Len(q) + 1
    BY <1>2, <1>3, <1>4, <1>5, <2>1
  <2>2. CASE i # Len(q) + 1
    <3>1. i \in 1 .. Len(q)
      BY <1>2, <1>3, <2>2
    <3> QED
      BY <1>2, <1>3, <1>4, <1>5, <3>1
  <2> QED
    BY <2>1, <2>2
<1>7. Len(b) = Len(Append(a, D[x].addr))
  BY <1>2, <1>3, <1>4, <1>5
<1>8. b = Append(a, D[x].addr)
  BY <1>4, <1>5, <1>6, <1>7, SeqEqual
<1> QED
  BY <1>8 DEF a, b, r

\* The buffers of a list that loses its first element.
LEMMA AddressTail ==
  ASSUME NEW D, NEW x \in DescIdx, NEW q \in Seq(DescIdx)
  PROVE  /\ Addresses(D, <<x>> \o q) # <<>>
         /\ Head(Addresses(D, <<x>> \o q)) = D[x].addr
         /\ Tail(Addresses(D, <<x>> \o q)) = Addresses(D, q)
<1> DEFINE V == {D[d].addr : d \in DescIdx}
           z == <<x>> \o q
           a == Addresses(D, z)
           b == Addresses(D, q)
<1>1. /\ z \in Seq(DescIdx) /\ Len(z) = Len(q) + 1 /\ z[1] = x
      /\ \A i \in 1 .. Len(q) : z[i + 1] = q[i]
  BY ConsFacts
<1>2. /\ b \in Seq(V) /\ Len(b) = Len(q) /\ Len(q) \in Nat
      /\ \A i \in 1 .. Len(q) : b[i] = D[q[i]].addr
  BY AddressType
<1> HIDE DEF z
<1>3. /\ a \in Seq(V) /\ Len(a) = Len(z)
      /\ \A i \in 1 .. Len(z) : a[i] = D[z[i]].addr
  BY <1>1, AddressType
<1> HIDE DEF V, a, b
<1>4. a # <<>>
  <2>1. Len(<<>>) = 0
    OBVIOUS
  <2> QED
    BY <1>1, <1>2, <1>3, <2>1
<1>5. a[1] = D[x].addr
  <2>1. 1 \in 1 .. Len(z)
    BY <1>1, <1>2
  <2> QED
    BY <1>1, <1>3, <2>1
<1>6. Head(a) = D[x].addr
  BY <1>5
<1>7. /\ Tail(a) \in Seq(V) /\ Len(Tail(a)) = Len(a) - 1
      /\ \A i \in 1 .. Len(Tail(a)) : Tail(a)[i] = a[i + 1]
  BY <1>3, <1>4, HeadTailProperties
<1>8. Len(Tail(a)) = Len(b)
  BY <1>1, <1>2, <1>3, <1>7
<1>9. ASSUME NEW i \in 1 .. Len(Tail(a)) PROVE Tail(a)[i] = b[i]
  <2>1. i \in 1 .. Len(q) /\ i + 1 \in 1 .. Len(z)
    BY <1>1, <1>2, <1>8
  <2> QED
    BY <1>1, <1>2, <1>3, <1>7, <2>1
<1>10. Tail(a) = b
  BY <1>2, <1>7, <1>8, <1>9, SeqEqual
<1> QED
  BY <1>4, <1>6, <1>10 DEF a, b, z

-----------------------------------------------------------------------------
(***************************************************************************)
(* What each step does to the heads on their way to one side.              *)
(***************************************************************************)
\* The types of OnTheWay, and where its elements are.
LEMMA WayType ==
  ASSUME TypeOK, NEW s \in Side
  PROVE  /\ Unread(s) \in Seq(DescIdx) /\ Len(Unread(s)) = Pending(s)
         /\ ring[Peer(s)][reg[s]] \in DescIdx
         /\ OnTheWay(s) \in Seq(DescIdx)
         /\ Len(OnTheWay(s)) = Pending(s) + (IF pc[s] = "take" THEN 1 ELSE 0)
         /\ \A i \in 1 .. Len(OnTheWay(s)) : OnTheWay(s)[i] \in Coming(s) \cup InCall(s)
<1>1. /\ Pending(s) \in Nat /\ Unread(s) \in [1 .. Pending(s) -> DescIdx]
      /\ \A i \in 1 .. Pending(s) : Unread(s)[i] \in Coming(s)
  BY UnreadType
<1>2. Unread(s) \in Seq(DescIdx) /\ Len(Unread(s)) = Pending(s)
  BY <1>1, FunctionIsSeq
<1>3. PICK h \in DescIdx : h = ring[Peer(s)][reg[s]]
  BY Sides, SideTypes
<1>4. CASE pc[s] = "take"
  <2>1. OnTheWay(s) = <<h>> \o Unread(s) /\ InCall(s) = {h}
    BY <1>3, <1>4 DEF OnTheWay, InCall
  <2>2. /\ OnTheWay(s) \in Seq(DescIdx) /\ Len(OnTheWay(s)) = Pending(s) + 1
        /\ OnTheWay(s)[1] = h /\ \A i \in 1 .. Pending(s) : OnTheWay(s)[i + 1] = Unread(s)[i]
    BY <1>2, <2>1, ConsFacts
  <2>3. ASSUME NEW i \in 1 .. Pending(s) + 1 PROVE OnTheWay(s)[i] \in Coming(s) \cup InCall(s)
    <3>1. CASE i = 1
      BY <2>1, <2>2, <3>1
    <3>2. CASE i # 1
      <4>1. i - 1 \in 1 .. Pending(s) /\ (i - 1) + 1 = i
        BY <1>1, <3>2
      <4>2. OnTheWay(s)[i] = Unread(s)[i - 1]
        BY <2>2, <4>1
      <4> QED
        BY <1>1, <4>1, <4>2
    <3> QED
      BY <3>1, <3>2
  <2> QED
    BY <1>2, <1>3, <1>4, <2>2, <2>3
<1>5. CASE pc[s] # "take"
  <2>1. OnTheWay(s) = Unread(s)
    BY <1>5 DEF OnTheWay
  <2> QED
    BY <1>1, <1>2, <1>3, <1>5, <2>1
<1> QED
  BY <1>4, <1>5

\* Nothing happens to what is on its way to side s.
LEMMA WaySame ==
  ASSUME NEW s \in Side, Unread(s)' = Unread(s), InCall(s)' = InCall(s),
         (pc[s] = "take")' <=> pc[s] = "take"
  PROVE  OnTheWay(s)' = OnTheWay(s)
<1>1. CASE pc[s] = "take"
  <2>1. {(ring[Peer(s)][reg[s]])'} = {ring[Peer(s)][reg[s]]}
    BY <1>1 DEF InCall
  <2>2. (ring[Peer(s)][reg[s]])' = ring[Peer(s)][reg[s]]
    BY <2>1
  <2> QED
    BY <1>1, <2>2 DEF OnTheWay
<1>2. CASE pc[s] # "take"
  BY <1>2 DEF OnTheWay
<1> QED
  BY <1>1, <1>2

\* A side that is not in a call of get changes nothing by a step of another kind.
LEMMA WayIdle ==
  ASSUME NEW s \in Side, Unread(s)' = Unread(s), pc[s] # "take", pc'[s] # "take"
  PROVE  OnTheWay(s)' = OnTheWay(s)
  BY DEF OnTheWay

\* The other side publishes an entry: it comes last.
LEMMA WayGrows ==
  ASSUME TypeOK, RegInv, UnreadInv, NEW s \in Side, NEW t \in Side, t = Peer(s), Publish(s),
         Coming(t) \cap InCall(t) = {}, Coming(t) \cap InCall(s) = {}, InCall(s) \cap InCall(t) = {}
  PROVE  OnTheWay(t)' = Append(OnTheWay(t), reg[s])
<1>0. s = Peer(t) /\ s # t
  BY Sides
<1>1. PICK n \in Nat : n = Pending(t)
  BY UnreadType
<1>2. /\ Pending(t)' = n + 1 /\ InCall(t)' = InCall(t)
      /\ Unread(t)' = [i \in 1 .. n + 1 |-> IF i = n + 1 THEN reg[s] ELSE Unread(t)[i]]
  BY <1>1, RingPublish
<1>3. PICK h \in DescIdx : h = reg[s]
  BY SideTypes
<1>4. PICK u \in Seq(DescIdx) : u = Unread(t) /\ Len(u) = n
  BY <1>1, WayType
<1>5. Unread(t)' = Append(u, h)
  <2> DEFINE v == [i \in 1 .. n + 1 |-> IF i = n + 1 THEN h ELSE u[i]]
  <2>1. /\ Append(u, h) \in Seq(DescIdx) /\ Len(Append(u, h)) = n + 1
        /\ \A i \in 1 .. n : Append(u, h)[i] = u[i]
        /\ Append(u, h)[n + 1] = h
    BY <1>4, AppendProperties
  <2>2. v \in [1 .. n + 1 -> DescIdx] /\ n + 1 \in Nat
    <3>1. \A i \in 1 .. n : u[i] \in DescIdx
      BY <1>4, ElementOfSeq
    <3> QED
      BY <3>1
  <2>3. v \in Seq(DescIdx) /\ Len(v) = n + 1
    BY <2>2, FunctionIsSeq
  <2>4. \A i \in 1 .. n + 1 : v[i] = Append(u, h)[i]
    BY <2>1
  <2>5. Unread(t)' = v
    BY <1>2, <1>3, <1>4
  <2> HIDE DEF v
  <2>6. v = Append(u, h)
    BY <2>1, <2>3, <2>4, SeqEqual
  <2> QED
    BY <2>5, <2>6
<1>6. pc'[t] = pc[t]
  BY <1>0 DEF Publish, Return, Goto, TypeOK
<1>7. CASE pc[t] = "take"
  <2>1. PICK g \in DescIdx : g = ring[Peer(t)][reg[t]]
    BY Sides, SideTypes
  <2>2. (ring[Peer(t)][reg[t]])' = g
    BY <1>2, <1>6, <1>7, <2>1 DEF InCall
  <2>3. OnTheWay(t) = <<g>> \o u /\ OnTheWay(t)' = <<g>> \o Append(u, h)
    BY <1>4, <1>5, <1>6, <1>7, <2>1, <2>2 DEF OnTheWay
  <2>4. <<g>> \o Append(u, h) = Append(<<g>> \o u, h)
    <3>1. /\ <<g>> \o u \in Seq(DescIdx) /\ Len(<<g>> \o u) = n + 1 /\ (<<g>> \o u)[1] = g
          /\ \A i \in 1 .. n : (<<g>> \o u)[i + 1] = u[i]
      BY <1>4, ConsFacts
    <3>2. /\ Append(u, h) \in Seq(DescIdx) /\ Len(Append(u, h)) = n + 1
          /\ \A i \in 1 .. n : Append(u, h)[i] = u[i]
          /\ Append(u, h)[n + 1] = h
      BY <1>4, AppendProperties
    <3>3. PICK a \in Seq(DescIdx) : a = Append(u, h)
      BY <3>2
    <3>4. PICK b \in Seq(DescIdx) : b = <<g>> \o u
      BY <3>1
    <3>5. /\ <<g>> \o a \in Seq(DescIdx) /\ Len(<<g>> \o a) = n + 1 + 1 /\ (<<g>> \o a)[1] = g
          /\ \A i \in 1 .. n + 1 : (<<g>> \o a)[i + 1] = a[i]
      BY <3>2, <3>3, ConsFacts
    <3>6. /\ Append(b, h) \in Seq(DescIdx) /\ Len(Append(b, h)) = n + 1 + 1
          /\ \A i \in 1 .. n + 1 : Append(b, h)[i] = b[i]
          /\ Append(b, h)[n + 1 + 1] = h
      BY <3>1, <3>4, AppendProperties
    <3>7. ASSUME NEW i \in 1 .. n + 1 + 1 PROVE (<<g>> \o a)[i] = Append(b, h)[i]
      <4>1. CASE i = 1
        <5>1. 1 \in 1 .. n + 1
          OBVIOUS
        <5> QED
          BY <3>1, <3>4, <3>5, <3>6, <4>1, <5>1
      <4>2. CASE i = n + 1 + 1
        <5>1. n + 1 \in 1 .. n + 1
          OBVIOUS
        <5> QED
          BY <3>2, <3>3, <3>5, <3>6, <4>2, <5>1
      <4>3. CASE i # 1 /\ i # n + 1 + 1
        <5>1. i - 1 \in 1 .. n /\ i - 1 \in 1 .. n + 1 /\ i \in 1 .. n + 1 /\ (i - 1) + 1 = i
          BY <4>3
        <5>2. (<<g>> \o a)[i] = u[i - 1]
          BY <3>2, <3>3, <3>5, <5>1
        <5>3. Append(b, h)[i] = u[i - 1]
          BY <3>1, <3>4, <3>6, <5>1
        <5> QED
          BY <5>2, <5>3
      <4> QED
        BY <4>1, <4>2, <4>3
    <3>8. <<g>> \o a = Append(b, h)
      BY <3>5, <3>6, <3>7, SeqEqual
    <3> QED
      BY <3>3, <3>4, <3>8
  <2> QED
    BY <1>3, <2>3, <2>4
<1>8. CASE pc[t] # "take"
  BY <1>3, <1>4, <1>5, <1>6, <1>8 DEF OnTheWay
<1> QED
  BY <1>7, <1>8

\* A get claims the first entry: it is still the first one on its way.
LEMMA WayClaim ==
  ASSUME TypeOK, RegInv, UnreadInv, NEW s \in Side, Claim(s)
  PROVE  OnTheWay(s)' = OnTheWay(s)
<1>1. PICK n \in Nat \ {0} : n = Pending(s)
  BY UnreadType, RingClaim
<1>2. PICK u \in Seq(DescIdx) : u = Unread(s) /\ Len(u) = n
  BY <1>1, WayType
<1>3. /\ InCall(s)' = {u[1]}
      /\ Unread(s)' = [i \in 1 .. n - 1 |-> u[i + 1]]
  BY <1>1, <1>2, RingClaim
<1>4. pc[s] = "run" /\ pc'[s] = "take"
  BY DEF Claim, Goto, TypeOK
<1>5. (ring[Peer(s)][reg[s]])' = u[1]
  BY <1>3, <1>4 DEF InCall
<1>6. \A i \in 1 .. n : u[i] \in DescIdx
  BY <1>2, ElementOfSeq
<1>7. PICK g \in DescIdx : g = u[1]
  BY <1>6
<1>8. PICK v \in [1 .. n - 1 -> DescIdx] : v = Unread(s)'
  <2>1. \A i \in 1 .. n - 1 : u[i + 1] \in DescIdx
    BY <1>6
  <2> QED
    BY <1>3, <2>1
<1>9. v \in Seq(DescIdx) /\ Len(v) = n - 1
  <2>1. n - 1 \in Nat
    OBVIOUS
  <2> QED
    BY <2>1, FunctionIsSeq
<1>10. /\ <<g>> \o v \in Seq(DescIdx) /\ Len(<<g>> \o v) = (n - 1) + 1 /\ (<<g>> \o v)[1] = g
       /\ \A i \in 1 .. n - 1 : (<<g>> \o v)[i + 1] = v[i]
  BY <1>9, ConsFacts
<1>11. \A i \in 1 .. n - 1 : v[i] = u[i + 1]
  BY <1>3, <1>8
<1>12. ASSUME NEW i \in 1 .. n PROVE (<<g>> \o v)[i] = u[i]
  <2>1. CASE i = 1
    BY <1>7, <1>10, <2>1
  <2>2. CASE i # 1
    <3>1. i - 1 \in 1 .. n - 1 /\ (i - 1) + 1 = i
      BY <2>2
    <3> QED
      BY <1>10, <1>11, <3>1
  <2> QED
    BY <2>1, <2>2
<1>13. <<g>> \o v = u
  <2>1. Len(<<g>> \o v) = n
    BY <1>10
  <2> QED
    BY <1>2, <1>10, <1>12, <2>1, SeqEqual
<1> QED
  BY <1>2, <1>4, <1>5, <1>7, <1>8, <1>13 DEF OnTheWay

\* A get returns: the first entry has arrived.
LEMMA WayTake ==
  ASSUME TypeOK, NEW s \in Side, pc[s] = "take", pc'[s] = "run", Unread(s)' = Unread(s)
  PROVE  /\ OnTheWay(s) = <<ring[Peer(s)][reg[s]]>> \o Unread(s)
         /\ OnTheWay(s)' = Unread(s)
  BY DEF OnTheWay

-----------------------------------------------------------------------------
(***************************************************************************)
(* What each step does to the four places of BufferExchange.               *)
(***************************************************************************)
Offered  == Cookies(OnTheWay("dev"))
Returned == Cookies(OnTheWay("drv"))

\* The chains the device's client has, or is handing back.
DeviceHeads == held \cup (IF pc["dev"] = "publish" THEN {reg["dev"]} ELSE {})

\* A step of BufferExchange or a stuttering step, in terms of the virtqueue.
ExchangeMove ==
  \/ UNCHANGED <<WithDriver, Offered, WithDevice, Returned>>
  \/ \E b \in Buffers :
       /\ b \in WithDriver /\ WithDriver' = WithDriver \ {b}
       /\ Len(Offered) + Cardinality(WithDevice) + Len(Returned) < N
       /\ Offered' = Append(Offered, b)
       /\ UNCHANGED <<WithDevice, Returned>>
  \/ \E b \in Buffers :
       /\ b \in WithDevice /\ WithDevice' = WithDevice \ {b}
       /\ Returned' = Append(Returned, b)
       /\ UNCHANGED <<WithDriver, Offered>>
  \/ /\ Offered # <<>> /\ WithDevice' = WithDevice \cup {Head(Offered)}
     /\ Offered' = Tail(Offered)
     /\ UNCHANGED <<WithDriver, Returned>>
  \/ /\ Returned # <<>> /\ WithDriver' = WithDriver \cup {Head(Returned)}
     /\ Returned' = Tail(Returned)
     /\ UNCHANGED <<Offered, WithDevice>>

\* The cookies of a list of heads are their buffers in the table.
LEMMA CookiesAre ==
  ASSUME NEW s \in Side
  PROVE  /\ Cookies(OnTheWay(s)) = Addresses(desc, OnTheWay(s))
         /\ Cookies(OnTheWay(s))' = Addresses(desc', OnTheWay(s)')
  BY DEF Cookies, Addresses

\* A lent chain carries the buffer of its cookie, and no other chain does.
LEMMA LentBuffer ==
  ASSUME TypeOK, CookieInv
  PROVE  /\ \A g \in Lent : desc[g].addr \in Buffers /\ desc[g].addr \notin pool
         /\ \A g, h \in Lent : desc[g].addr = desc[h].addr => g = h
<1>1. ASSUME NEW g \in Lent PROVE descx[g].cookie \in Buffers
  <2>1. g \in DescIdx /\ descx[g].cookie # NoBuf
    BY DEF Lent
  <2>2. descx[g] \in [cookie : Buffers \cup {NoBuf}, ndescs : Int]
    BY <2>1 DEF TypeOK
  <2> QED
    BY <2>1, <2>2
<1> QED
  BY <1>1 DEF CookieInv

\* What is on its way, and what the device has, is lent.
LEMMA OnTheWayIsLent ==
  ASSUME TypeOK, PlaceInv
  PROVE  /\ \A s \in Side : \A i \in 1 .. Len(OnTheWay(s)) : OnTheWay(s)[i] \in Lent
         /\ DeviceHeads \subseteq Lent
<1>0. "dev" \in Side /\ \A s \in Side : s = "drv" \/ s = "dev"
  BY DEF Side
<1>1. \A s \in Side : Coming(s) \cup InCall(s) \subseteq Lent
  BY <1>0 DEF PlaceInv
<1>2. ASSUME NEW s \in Side, NEW i \in 1 .. Len(OnTheWay(s)) PROVE OnTheWay(s)[i] \in Lent
  BY <1>1, WayType
<1>3. held \subseteq Lent
  BY DEF PlaceInv
<1>4. pc["dev"] = "publish" => InCall("dev") = {reg["dev"]}
  BY DEF InCall
<1>5. DeviceHeads \subseteq Lent
  BY <1>0, <1>1, <1>3, <1>4 DEF DeviceHeads
<1> QED
  BY <1>2, <1>5

\* Lists and sets of buffers stay when heads and addresses do.
LEMMA CookiesKept ==
  ASSUME TypeOK, PlaceInv, \A g \in Lent : desc'[g].addr = desc[g].addr
  PROVE  /\ \A s \in Side : OnTheWay(s)' = OnTheWay(s)
                              => Cookies(OnTheWay(s))' = Cookies(OnTheWay(s))
         /\ DeviceHeads' = DeviceHeads => WithDevice' = WithDevice
<1>1. ASSUME NEW s \in Side, OnTheWay(s)' = OnTheWay(s)
      PROVE  Cookies(OnTheWay(s))' = Cookies(OnTheWay(s))
  <2>1. PICK q \in Seq(DescIdx) : q = OnTheWay(s)
    BY WayType
  <2>2. \A i \in 1 .. Len(q) : desc'[q[i]].addr = desc[q[i]].addr
    BY <2>1, OnTheWayIsLent
  <2>3. Addresses(desc', q) = Addresses(desc, q)
    BY <2>2, AddressSame
  <2> QED
    BY <1>1, <2>1, <2>3, CookiesAre
<1>2. ASSUME DeviceHeads' = DeviceHeads PROVE WithDevice' = WithDevice
  <2>1. WithDevice = {desc[h].addr : h \in DeviceHeads}
    BY DEF WithDevice, DeviceHeads
  <2>2. WithDevice' = {desc'[h].addr : h \in DeviceHeads'}
    BY DEF WithDevice, DeviceHeads
  <2>3. \A h \in DeviceHeads : desc'[h].addr = desc[h].addr
    BY OnTheWayIsLent
  <2> QED
    BY <1>2, <2>1, <2>2, <2>3
<1> QED
  BY <1>1, <1>2

\* While the driver publishes a head, there is room for it in the exchange.
LEMMA ExchangeRoom ==
  ASSUME TypeOK, UnreadInv, PlaceInv, CountInv, pc["drv"] = "publish"
  PROVE  Len(Offered) + Cardinality(WithDevice) + Len(Returned) < N
<1>0. /\ "drv" \in Side /\ "dev" \in Side
      /\ Peer("drv") = "dev" /\ Peer("dev") = "drv"
  BY DEF Side, Peer
<1>1. PICK d \in DescIdx : d = reg["drv"]
  BY <1>0, SideTypes
<1>2. InCall("drv") = {d}
  BY <1>1 DEF InCall
<1>3. d \notin Passed
  BY <1>0, <1>2 DEF Passed, PlaceInv
<1>4. /\ Passed \subseteq DescIdx /\ Cardinality(Passed) \in Nat /\ IsFiniteSet(Passed)
      /\ Cardinality(Passed) = Pending("drv") + Sub(cons["dev"], idx["dev"]) + Pending("dev")
  BY PassedCount, TableSize
<1>5. Cardinality(Passed) < N
  <2>1. Cardinality(Passed \cup {d}) = Cardinality(Passed) + 1
    BY <1>3, <1>4, FS_AddElement
  <2>2. Cardinality(Passed \cup {d}) <= N
    BY <1>4, TableSize
  <2> QED
    BY <1>4, <2>1, <2>2, Sizes
<1>6. /\ Len(Offered) = Pending("dev") + (IF pc["dev"] = "take" THEN 1 ELSE 0)
      /\ Len(Returned) = Pending("drv")
      /\ Pending("drv") \in Nat /\ Pending("dev") \in Nat
  <2>1. /\ OnTheWay("dev") \in Seq(DescIdx) /\ OnTheWay("drv") \in Seq(DescIdx)
        /\ Len(OnTheWay("dev")) = Pending("dev") + (IF pc["dev"] = "take" THEN 1 ELSE 0)
        /\ Len(OnTheWay("drv")) = Pending("drv") + (IF pc["drv"] = "take" THEN 1 ELSE 0)
    BY <1>0, WayType
  <2>2. Pending("drv") \in Nat /\ Pending("dev") \in Nat
    BY <1>0, UnreadType
  <2>3. /\ Len(Addresses(desc, OnTheWay("dev"))) = Len(OnTheWay("dev"))
        /\ Len(Addresses(desc, OnTheWay("drv"))) = Len(OnTheWay("drv"))
    BY <2>1, AddressType
  <2> QED
    BY <1>0, <2>1, <2>2, <2>3, CookiesAre DEF Offered, Returned
<1>7. /\ IsFiniteSet(held) /\ Cardinality(held) \in Nat
      /\ Sub(cons["dev"], idx["dev"])
           = Cardinality(held) + (IF pc["dev"] \in {"publish", "take"} THEN 1 ELSE 0)
  <2>1. held \in SUBSET DescIdx
    BY DEF TypeOK
  <2> QED
    BY <2>1, TableSize DEF CountInv
<1>8. /\ IsFiniteSet(DeviceHeads)
      /\ Cardinality(DeviceHeads)
           = Cardinality(held) + (IF pc["dev"] = "publish" THEN 1 ELSE 0)
  <2>1. CASE pc["dev"] = "publish"
    <3>1. reg["dev"] \notin held
      BY <1>0, <2>1 DEF PlaceInv, InCall
    <3>2. /\ IsFiniteSet(held \cup {reg["dev"]})
          /\ Cardinality(held \cup {reg["dev"]}) = Cardinality(held) + 1
      BY <1>7, <3>1, FS_AddElement
    <3> QED
      BY <2>1, <3>2 DEF DeviceHeads
  <2>2. CASE pc["dev"] # "publish"
    BY <1>7, <2>2 DEF DeviceHeads
  <2> QED
    BY <2>1, <2>2
<1>9. Cardinality(WithDevice) <= Cardinality(DeviceHeads) /\ Cardinality(WithDevice) \in Nat
  <2> DEFINE f == [h \in DeviceHeads |-> desc[h].addr]
  <2>1. WithDevice = {desc[h].addr : h \in DeviceHeads}
    BY DEF WithDevice, DeviceHeads
  <2>2. f \in Surjection(DeviceHeads, WithDevice)
    BY <2>1 DEF Surjection
  <2> QED
    BY <1>8, <2>2, FS_Surjection, FS_CardinalityType
<1>10. pc["dev"] \in {"run", "publish", "take", "enable", "wait"}
  BY <1>0, SideTypes
<1>11. Cardinality(DeviceHeads) + (IF pc["dev"] = "take" THEN 1 ELSE 0) = Sub(cons["dev"], idx["dev"])
  <2>1. CASE pc["dev"] = "publish"
    BY <1>7, <1>8, <2>1
  <2>2. CASE pc["dev"] = "take"
    BY <1>7, <1>8, <2>2
  <2>3. CASE pc["dev"] \notin {"publish", "take"}
    BY <1>7, <1>8, <2>3
  <2> QED
    BY <2>1, <2>2, <2>3
<1>12. PICK toDrv, toDev, heads, with, taking \in Nat :
         /\ toDrv = Pending("drv") /\ toDev = Pending("dev")
         /\ heads = Cardinality(DeviceHeads) /\ with = Cardinality(WithDevice)
         /\ taking = IF pc["dev"] = "take" THEN 1 ELSE 0
  <2>1. Cardinality(DeviceHeads) \in Nat
    BY <1>8, FS_CardinalityType
  <2>2. (IF pc["dev"] = "take" THEN 1 ELSE 0) \in Nat
    OBVIOUS
  <2> QED
    BY <1>6, <1>9, <2>1, <2>2, Zenon
<1>13. Cardinality(Passed) = toDrv + (heads + taking) + toDev
  BY <1>4, <1>11, <1>12, Zenon
<1>14. Len(Offered) = toDev + taking /\ Len(Returned) = toDrv /\ with <= heads
  BY <1>6, <1>9, <1>12
<1>15. toDrv + (heads + taking) + toDev < N
  BY <1>5, <1>13
<1>16. (toDev + taking) + with + toDrv < N
  BY <1>14, <1>15, Sizes
<1> QED
  BY <1>12, <1>14, <1>16, Zenon

\* Every step of the virtqueue is a move of the exchange.
LEMMA EveryExchange ==
  ASSUME TypeOK, RegInv, UnreadInv, PlaceInv, CountInv, TableInv, CookieInv,
         CookieInv', [InsideNext]_vars
  PROVE  ExchangeMove
<1>0. /\ "drv" \in Side /\ "dev" \in Side
      /\ Peer("drv") = "dev" /\ Peer("dev") = "drv"
      /\ \A s \in Side : s = "drv" \/ s = "dev"
  BY DEF Side, Peer
<1>p. /\ InCall("drv") \cap held = {} /\ InCall("dev") \cap held = {}
      /\ Coming("drv") \cap held = {} /\ Coming("dev") \cap held = {}
      /\ Coming("drv") \cap InCall("drv") = {} /\ Coming("drv") \cap InCall("dev") = {}
      /\ Coming("dev") \cap InCall("drv") = {} /\ Coming("dev") \cap InCall("dev") = {}
      /\ InCall("drv") \cap InCall("dev") = {} /\ Coming("drv") \cap Coming("dev") = {}
      /\ Lent = InCall("drv") \cup InCall("dev") \cup Coming("drv") \cup Coming("dev") \cup held
  BY PlaceParts
<1>t. pc \in [Side -> {"run", "publish", "take", "enable", "wait"}] /\ reg \in [Side -> DescIdx]
  BY DEF TypeOK
\* A step that changes neither lists nor addresses.
<1>s. ASSUME \A g \in Lent : desc'[g].addr = desc[g].addr, WithDriver' = WithDriver,
             OnTheWay("drv")' = OnTheWay("drv"), OnTheWay("dev")' = OnTheWay("dev"),
             DeviceHeads' = DeviceHeads
      PROVE  ExchangeMove
  BY <1>0, <1>s, CookiesKept DEF ExchangeMove, Offered, Returned
<1>1. ASSUME NEW b \in Buffers, NEW k \in 1 .. MaxChain, Lends(b, k)
      PROVE  ExchangeMove
  <2>1. PICK h \in DescIdx : h = head_idx
    BY <1>1, AddLends
  <2>2. h \notin Lent /\ Lent' = Lent \cup {h}
    BY <1>1, <2>1, AddLends
  <2>3. /\ WriteSlot("drv", h) /\ pc["drv"] = "run" /\ UNCHANGED <<idx, cons>> /\ held' = held
        /\ descx' = [descx EXCEPT ![h] = [cookie |-> b, ndescs |-> k]]
        /\ pool' = pool \ {b} /\ b \in pool
    BY <1>1, <2>1 DEF Lends, LendChain
  <2>4. Pending(Peer("drv")) + (IF pc[Peer("drv")] = "take" THEN 1 ELSE 0) < N
    BY <1>0, <1>p, <2>2, RingRoom
  <2>5. /\ Unread("drv")' = Unread("drv") /\ Unread("dev")' = Unread("dev")
        /\ InCall("dev")' = InCall("dev")
    BY <1>0, <2>3, <2>4, RingWrite
  <2>6. /\ pc' = [pc EXCEPT !["drv"] = "publish"] /\ reg' = [reg EXCEPT !["drv"] = h]
    BY <2>3 DEF WriteSlot, Goto
  <2>7. /\ pc'["drv"] = "publish" /\ reg'["drv"] = h
        /\ pc'["dev"] = pc["dev"] /\ reg'["dev"] = reg["dev"]
    BY <1>0, <1>t, <2>6
  <2>8. OnTheWay("drv")' = OnTheWay("drv")
    BY <1>0, <2>3, <2>5, <2>7, WayIdle
  <2>9. OnTheWay("dev")' = OnTheWay("dev")
    BY <1>0, <2>5, <2>7, WaySame
  <2>10. \A g \in Lent : desc'[g].addr = desc[g].addr
    <3> SUFFICES ASSUME NEW g \in Lent PROVE desc'[g].addr = desc[g].addr
      OBVIOUS
    <3>1. g \in DescIdx /\ g # h /\ g \in Lent'
      BY <2>2 DEF Lent
    <3>2. descx'[g] = descx[g]
      BY <2>3, <3>1 DEF TypeOK
    <3>3. desc[g].addr = descx[g].cookie /\ desc'[g].addr = descx'[g].cookie
      BY <3>1 DEF CookieInv
    <3> QED
      BY <3>2, <3>3
  <2>11. desc'[h].addr = b
    <3>1. h \in Lent'
      BY <2>2
    <3>2. desc'[h].addr = descx'[h].cookie
      BY <3>1 DEF CookieInv
    <3>3. descx'[h].cookie = b
      BY <2>3 DEF TypeOK
    <3> QED
      BY <3>2, <3>3
  <2>12. WithDriver' = WithDriver
    <3>1. WithDriver = pool
      BY <2>3 DEF WithDriver
    <3>2. WithDriver' = pool' \cup {desc'[h].addr}
      BY <2>7 DEF WithDriver
    <3> QED
      BY <2>3, <2>11, <3>1, <3>2
  <2>13. DeviceHeads' = DeviceHeads
    BY <2>3, <2>7 DEF DeviceHeads
  <2> QED
    BY <1>s, <2>8, <2>9, <2>10, <2>12, <2>13
<1>2. ASSUME NEW h \in DescIdx, AddConsumed(h)
      PROVE  ExchangeMove
  <2>1. /\ h \in held /\ held' = held \ {h} /\ desc' = desc /\ pool' = pool
        /\ WriteSlot("dev", h) /\ pc["dev"] = "run" /\ UNCHANGED <<idx, cons>>
    BY <1>2 DEF AddConsumed, tableVars
  <2>2. Pending(Peer("dev")) + (IF pc[Peer("dev")] = "take" THEN 1 ELSE 0) < N
    BY <1>0, <1>p, <2>1, RingRoom
  <2>3. /\ Unread("drv")' = Unread("drv") /\ Unread("dev")' = Unread("dev")
        /\ InCall("drv")' = InCall("drv")
    BY <1>0, <2>1, <2>2, RingWrite
  <2>4. /\ pc' = [pc EXCEPT !["dev"] = "publish"] /\ reg' = [reg EXCEPT !["dev"] = h]
    BY <2>1 DEF WriteSlot, Goto
  <2>5. /\ pc'["dev"] = "publish" /\ reg'["dev"] = h
        /\ pc'["drv"] = pc["drv"] /\ reg'["drv"] = reg["drv"]
    BY <1>0, <1>t, <2>4
  <2>6. OnTheWay("dev")' = OnTheWay("dev")
    BY <1>0, <2>1, <2>3, <2>5, WayIdle
  <2>7. OnTheWay("drv")' = OnTheWay("drv")
    BY <1>0, <2>3, <2>5, WaySame
  <2>8. WithDriver' = WithDriver
    BY <2>1, <2>5 DEF WithDriver
  <2>9. DeviceHeads' = DeviceHeads
    <3>1. DeviceHeads = held
      BY <2>1 DEF DeviceHeads
    <3>2. DeviceHeads' = held' \cup {h}
      BY <2>5 DEF DeviceHeads
    <3> QED
      BY <2>1, <3>1, <3>2
  <2> QED
    BY <1>s, <2>1, <2>6, <2>7, <2>8, <2>9
<1>3. CASE TakeAvailable
  <2>0. PICK h \in DescIdx : h = ring["drv"][reg["dev"]]
    BY <1>0, SideTypes
  <2>1. /\ pc["dev"] = "take" /\ Return("dev") /\ UNCHANGED <<ring, idx, cons>>
        /\ held' = held \cup {h} /\ desc' = desc /\ pool' = pool
    BY <1>3, <2>0 DEF TakeAvailable, tableVars
  <2>2. /\ Unread("drv")' = Unread("drv") /\ Unread("dev")' = Unread("dev")
        /\ InCall("drv")' = InCall("drv")
    BY <1>0, <2>1, RingReturn
  <2>3. /\ pc'["dev"] = "run" /\ pc'["drv"] = pc["drv"] /\ reg'["drv"] = reg["drv"]
    BY <1>0, <1>t, <2>1 DEF Return, Goto
  <2>4. PICK u \in Seq(DescIdx) : u = Unread("dev")
    BY <1>0, WayType
  <2>5. OnTheWay("dev") = <<h>> \o u /\ OnTheWay("dev")' = u
    BY <1>0, <2>0, <2>1, <2>2, <2>3, <2>4, WayTake
  <2>6. OnTheWay("drv")' = OnTheWay("drv")
    BY <1>0, <2>2, <2>3, WaySame
  <2>7. Offered = Addresses(desc, <<h>> \o u) /\ Offered' = Addresses(desc, u)
    BY <1>0, <2>1, <2>5, CookiesAre DEF Offered
  <2>8. Offered # <<>> /\ Head(Offered) = desc[h].addr /\ Offered' = Tail(Offered)
    BY <2>7, AddressTail
  <2>9. Returned' = Returned
    BY <1>0, <2>1, <2>6, CookiesKept DEF Returned
  <2>10. WithDriver' = WithDriver
    BY <2>1, <2>3 DEF WithDriver
  <2>11. WithDevice' = WithDevice \cup {desc[h].addr}
    <3>1. WithDevice = {desc[g].addr : g \in held}
      BY <2>1 DEF WithDevice
    <3>2. WithDevice' = {desc[g].addr : g \in held \cup {h}}
      BY <2>1, <2>3 DEF WithDevice
    <3> QED
      BY <3>1, <3>2
  <2> QED
    BY <2>8, <2>9, <2>10, <2>11 DEF ExchangeMove
<1>4. CASE TakeUsed
  <2>0. PICK h \in DescIdx : h = ring["dev"][reg["drv"]]
    BY <1>0, SideTypes
  <2>1. /\ pc["drv"] = "take" /\ Return("drv") /\ UNCHANGED <<ring, idx, cons>>
        /\ held' = held /\ FreeChain(h) /\ pool' = pool \cup {descx[h].cookie}
    BY <1>4, <2>0 DEF TakeUsed
  <2>2. /\ Unread("drv")' = Unread("drv") /\ Unread("dev")' = Unread("dev")
        /\ InCall("dev")' = InCall("dev") /\ InCall("drv") = {h}
    BY <1>0, <2>0, <2>1, RingReturn
  <2>3. /\ pc'["drv"] = "run" /\ pc'["dev"] = pc["dev"] /\ reg'["dev"] = reg["dev"]
    BY <1>0, <1>t, <2>1 DEF Return, Goto
  <2>4. PICK u \in Seq(DescIdx) : u = Unread("drv")
    BY <1>0, WayType
  <2>5. OnTheWay("drv") = <<h>> \o u /\ OnTheWay("drv")' = u
    BY <1>0, <2>0, <2>1, <2>2, <2>3, <2>4, WayTake
  <2>6. OnTheWay("dev")' = OnTheWay("dev")
    BY <1>0, <2>2, <2>3, WaySame
  \* vq_ring_free_chain changes no address.
  <2>7. \A d \in DescIdx : desc'[d].addr = desc[d].addr
    <3>1. PICK d \in DescIdx : desc' = [desc EXCEPT ![d] = [@ EXCEPT !.next = head_idx]]
      <4>1. PICK k \in 1 .. MaxChain : \E p \in LentChains(h, k) :
              desc' = [desc EXCEPT ![p[k]] = [@ EXCEPT !.next = head_idx]]
        BY <2>1 DEF FreeChain
      <4>2. PICK p \in LentChains(h, k) :
              desc' = [desc EXCEPT ![p[k]] = [@ EXCEPT !.next = head_idx]]
        BY <4>1
      <4>3. p[k] \in DescIdx
        BY Sizes DEF LentChains, Chains
      <4> QED
        BY <4>2, <4>3
    <3>2. desc \in [DescIdx -> Descriptor]
      BY DEF TypeOK
    <3> QED
      BY <3>1, <3>2 DEF Descriptor
  <2>8. Returned = Addresses(desc, <<h>> \o u) /\ Returned' = Addresses(desc, u)
    <3>1. Returned = Addresses(desc, <<h>> \o u) /\ Returned' = Addresses(desc', u)
      BY <1>0, <2>5, CookiesAre DEF Returned
    <3>2. \A i \in 1 .. Len(u) : u[i] \in DescIdx
      BY ElementOfSeq
    <3>3. Addresses(desc', u) = Addresses(desc, u)
      BY <2>7, <3>2, AddressSame
    <3> QED
      BY <3>1, <3>3
  <2>9. Returned # <<>> /\ Head(Returned) = desc[h].addr /\ Returned' = Tail(Returned)
    BY <2>8, AddressTail
  <2>10. \A g \in Lent : desc'[g].addr = desc[g].addr
    BY <2>7 DEF Lent
  <2>11. DeviceHeads' = DeviceHeads
    BY <2>1, <2>3 DEF DeviceHeads
  <2>12. Offered' = Offered /\ WithDevice' = WithDevice
    BY <1>0, <2>6, <2>10, <2>11, CookiesKept DEF Offered
  <2>13. desc[h].addr = descx[h].cookie
    BY <1>p, <2>2 DEF CookieInv
  <2>14. WithDriver' = WithDriver \cup {desc[h].addr}
    BY <2>1, <2>3, <2>13 DEF WithDriver
  <2> QED
    BY <2>9, <2>12, <2>14 DEF ExchangeMove
<1>5. ASSUME NEW s \in Side, Publish(s)
      PROVE  ExchangeMove
  <2>1. /\ pc[s] = "publish" /\ held' = held /\ desc' = desc /\ pool' = pool
        /\ pc' = [pc EXCEPT ![s] = "run"] /\ reg' = [reg EXCEPT ![s] = 0]
    BY <1>5 DEF Publish, tableVars, Return, Goto
  <2>2. PICK t \in Side : t = Peer(s) /\ s = Peer(t) /\ s # t
    BY Sides
  <2>3. /\ Coming(t) \cap InCall(t) = {}
        /\ Coming(t) \cap InCall(s) = {}
        /\ InCall(s) \cap InCall(t) = {}
    BY <1>0, <1>p, <2>2
  <2>4. OnTheWay(t)' = Append(OnTheWay(t), reg[s])
    BY <1>5, <2>2, <2>3, WayGrows
  <2>5. Unread(s)' = Unread(s) /\ InCall(s) = {reg[s]}
    BY <1>5, <2>2, <2>3, RingPublish
  <2>6. pc'[s] = "run" /\ pc'[t] = pc[t] /\ reg'[t] = reg[t]
    BY <1>t, <2>1, <2>2
  <2>7. OnTheWay(s)' = OnTheWay(s)
    BY <2>1, <2>5, <2>6, WayIdle
  <2>8. Cookies(OnTheWay(s))' = Cookies(OnTheWay(s))
    BY <2>1, <2>7, CookiesKept
  <2>9. PICK h \in DescIdx : h = reg[s]
    BY SideTypes
  <2>10. h \in Lent /\ h \notin held
    BY <1>0, <1>p, <2>5, <2>9
  <2>11. Cookies(OnTheWay(t))' = Append(Cookies(OnTheWay(t)), desc[h].addr)
    <3>1. PICK q \in Seq(DescIdx) : q = OnTheWay(t)
      BY WayType
    <3>2. Cookies(OnTheWay(t))' = Addresses(desc, Append(q, h))
      BY <2>1, <2>4, <2>9, <3>1, CookiesAre
    <3>3. Cookies(OnTheWay(t)) = Addresses(desc, q)
      BY <3>1, CookiesAre
    <3> QED
      BY <3>2, <3>3, AddressAppend
  <2>12. desc[h].addr \in Buffers /\ desc[h].addr \notin pool
    BY <2>10, LentBuffer
  <2>13. CASE s = "drv"
    <3>1. t = "dev"
      BY <1>0, <2>2, <2>13
    <3>2. WithDriver = pool \cup {desc[h].addr} /\ WithDriver' = pool
      BY <2>1, <2>6, <2>9, <2>13 DEF WithDriver
    <3>3. WithDriver' = WithDriver \ {desc[h].addr} /\ desc[h].addr \in WithDriver
      BY <2>12, <3>2
    <3>4. DeviceHeads' = DeviceHeads
      BY <2>1, <2>6, <3>1 DEF DeviceHeads
    <3>5. WithDevice' = WithDevice
      BY <2>1, <3>4, CookiesKept
    <3>6. Len(Offered) + Cardinality(WithDevice) + Len(Returned) < N
      BY <2>1, <2>13, ExchangeRoom
    <3>7. Offered' = Append(Offered, desc[h].addr) /\ Returned' = Returned
      BY <2>8, <2>11, <2>13, <3>1 DEF Offered, Returned
    <3> QED
      BY <2>12, <3>3, <3>5, <3>6, <3>7 DEF ExchangeMove
  <2>14. CASE s = "dev"
    <3>1. t = "drv"
      BY <1>0, <2>2, <2>14
    <3>2. /\ WithDevice = {desc[g].addr : g \in held \cup {h}}
          /\ WithDevice' = {desc[g].addr : g \in held}
      BY <2>1, <2>6, <2>9, <2>14 DEF WithDevice
    <3>3. \A g \in held : desc[g].addr # desc[h].addr
      BY <1>p, <2>10, LentBuffer
    <3>4. WithDevice' = WithDevice \ {desc[h].addr} /\ desc[h].addr \in WithDevice
      BY <3>2, <3>3
    <3>5. WithDriver' = WithDriver
      BY <2>1, <2>6, <3>1 DEF WithDriver
    <3>6. Returned' = Append(Returned, desc[h].addr) /\ Offered' = Offered
      BY <2>8, <2>11, <2>14, <3>1 DEF Offered, Returned
    <3> QED
      BY <2>12, <3>4, <3>5, <3>6 DEF ExchangeMove
  <2> QED
    BY <1>0, <2>13, <2>14
<1>6. ASSUME NEW s \in Side, Claim(s)
      PROVE  ExchangeMove
  <2>1. /\ pc[s] = "run" /\ held' = held /\ desc' = desc /\ pool' = pool
        /\ pc' = [pc EXCEPT ![s] = "take"] /\ reg' = [reg EXCEPT ![s] = Slot(cons[s])]
    BY <1>6 DEF Claim, tableVars, Goto
  <2>2. PICK t \in Side : t = Peer(s) /\ s = Peer(t) /\ s # t
    BY Sides
  <2>3. Unread(t)' = Unread(t) /\ InCall(t)' = InCall(t)
    BY <1>6, <2>2, RingClaim
  <2>4. pc'[s] = "take" /\ pc'[t] = pc[t] /\ reg'[t] = reg[t]
    BY <1>t, <2>1, <2>2
  <2>5. OnTheWay(s)' = OnTheWay(s)
    BY <1>6, WayClaim
  <2>6. OnTheWay(t)' = OnTheWay(t)
    BY <2>3, <2>4, WaySame
  <2>7. WithDriver' = WithDriver
    <3>1. CASE s = "drv"
      BY <2>1, <2>4, <3>1 DEF WithDriver
    <3>2. CASE s = "dev"
      BY <1>0, <2>1, <2>2, <2>4, <3>2 DEF WithDriver
    <3> QED
      BY <1>0, <3>1, <3>2
  <2>8. DeviceHeads' = DeviceHeads
    <3>1. CASE s = "dev"
      BY <2>1, <2>4, <3>1 DEF DeviceHeads
    <3>2. CASE s = "drv"
      BY <1>0, <2>1, <2>2, <2>4, <3>2 DEF DeviceHeads
    <3> QED
      BY <1>0, <3>1, <3>2
  <2>9. OnTheWay("drv")' = OnTheWay("drv") /\ OnTheWay("dev")' = OnTheWay("dev")
    BY <1>0, <2>2, <2>5, <2>6
  <2> QED
    BY <1>s, <2>1, <2>7, <2>8, <2>9
<1>7. ASSUME UNCHANGED <<ring, idx, cons, reg>>, UNCHANGED <<desc, pool, held>>,
             \A s \in Side : pc[s]' # pc[s] => /\ pc[s] \notin {"publish", "take"}
                                               /\ pc[s]' \notin {"publish", "take"}
      PROVE  ExchangeMove
  <2>1. \A s \in Side : Unread(s)' = Unread(s) /\ InCall(s)' = InCall(s)
    BY <1>7, RingQuiet
  <2>2. \A s \in Side : /\ pc'[s] = "take" <=> pc[s] = "take"
                        /\ pc'[s] = "publish" <=> pc[s] = "publish"
    BY <1>7
  <2>3. OnTheWay("drv")' = OnTheWay("drv") /\ OnTheWay("dev")' = OnTheWay("dev")
    BY <1>0, <2>1, <2>2, WaySame
  <2>4. WithDriver' = WithDriver
    BY <1>0, <1>7, <2>2 DEF WithDriver
  <2>5. DeviceHeads' = DeviceHeads
    BY <1>0, <1>7, <2>2 DEF DeviceHeads
  <2> QED
    BY <1>7, <1>s, <2>3, <2>4, <2>5
<1>8. ASSUME NEW s \in Side, Kick(s) \/ DisableCb(s) \/ EnableCb(s)
                               \/ RecheckAfterEnable(s) \/ Notified(s) \/ Resume(s)
      PROVE  ExchangeMove
  <2>1. UNCHANGED <<ring, idx, cons, reg>> /\ UNCHANGED <<desc, pool, held>>
    BY <1>8 DEF Kick, DisableCb, EnableCb, RecheckAfterEnable, Notified, Resume, tableVars
  <2>2. \/ pc' = pc
        \/ /\ pc[s] \in {"run", "enable", "wait"}
           /\ \E to \in {"run", "enable", "wait"} : pc' = [pc EXCEPT ![s] = to]
    BY <1>8 DEF Kick, DisableCb, EnableCb, RecheckAfterEnable, Notified, Resume, Goto
  <2>3. \A u \in Side : pc[u]' # pc[u] => /\ pc[u] \notin {"publish", "take"}
                                          /\ pc[u]' \notin {"publish", "take"}
    BY <1>t, <2>2
  <2> QED
    BY <1>7, <2>1, <2>3
<1>9. CASE UNCHANGED vars
  BY <1>7, <1>9 DEF vars
<1> QED
  BY <1>1, <1>2, <1>3, <1>4, <1>5, <1>6, <1>8, <1>9 DEF InsideNext, SideStep

\* The virtqueue implements BufferExchange for every ring size, index width and
\* chain length: buffers reach the device in the order virtqueue_add_buffer
\* published them, come back in the order virtqueue_add_consumed_buffer handed
\* them back, never more than N at a time, and every get returns the cookie of
\* the buffer at the head of that order.
THEOREM ImplementsExchange == Spec => ExchangesBuffers
<1>1. Init => Exchange!ExchangeInit
  <2> SUFFICES ASSUME Init PROVE Exchange!ExchangeInit
    OBVIOUS
  <2>1. TypeOK
    BY InitIInv DEF IInv
  <2>2. \A s \in Side : Pending(s) = 0 /\ pc[s] = "run"
    BY Sides DEF Init, Pending, Sub
  <2>3. \A s \in Side : OnTheWay(s) = <<>>
    <3> SUFFICES ASSUME NEW s \in Side PROVE OnTheWay(s) = <<>>
      OBVIOUS
    <3>1. OnTheWay(s) \in Seq(DescIdx) /\ Len(OnTheWay(s)) = 0
      BY <2>1, <2>2, WayType
    <3> QED
      BY <3>1, EmptySeq
  <2>4. \A s \in Side : Cookies(OnTheWay(s)) = <<>>
    BY <2>3 DEF Cookies
  <2>5. WithDriver = Buffers
    BY <2>2, Sides DEF Init, WithDriver
  <2>6. WithDevice = {}
    BY <2>2, Sides DEF Init, WithDevice
  <2> QED
    BY <2>4, <2>5, <2>6, Sides DEF Exchange!ExchangeInit
<1>2. VqInv /\ VqInv' /\ [Next]_vars => [Exchange!ExchangeNext]_Exchange!exchangeVars
  <2> SUFFICES ASSUME VqInv, VqInv', [Next]_vars
               PROVE  [Exchange!ExchangeNext]_Exchange!exchangeVars
    OBVIOUS
  <2>0. /\ TypeOK /\ RegInv /\ UnreadInv /\ PlaceInv /\ CountInv /\ TableInv /\ CookieInv
        /\ [InsideNext]_vars
    BY NextIsInside DEF VqInv, RingInv, IInv
  <2>1. ExchangeMove
    BY <2>0, EveryExchange DEF VqInv, RingInv, IInv
  <2>2. CASE UNCHANGED <<WithDriver, Offered, WithDevice, Returned>>
    BY <2>2 DEF Exchange!exchangeVars, Offered, Returned
  <2>3. ASSUME NEW b \in Buffers, b \in WithDriver, WithDriver' = WithDriver \ {b},
               Len(Offered) + Cardinality(WithDevice) + Len(Returned) < N,
               Offered' = Append(Offered, b), UNCHANGED <<WithDevice, Returned>>
        PROVE  Exchange!ExchangeNext
    <3>1. Exchange!Lend(b)
      <4>1. \A S : Exchange!Cardinality(S) = Cardinality(S)
        BY Zenon DEF Exchange!Cardinality, Cardinality
      <4> QED
        BY <2>3, <4>1, Zenon DEF Exchange!Lend, Offered, Returned
    <3> QED
      BY <3>1 DEF Exchange!ExchangeNext
  <2>4. ASSUME NEW b \in Buffers, b \in WithDevice, WithDevice' = WithDevice \ {b},
               Returned' = Append(Returned, b), UNCHANGED <<WithDriver, Offered>>
        PROVE  Exchange!ExchangeNext
    BY <2>4 DEF Exchange!ExchangeNext, Exchange!HandBack, Offered, Returned
  <2>5. ASSUME Offered # <<>>, WithDevice' = WithDevice \cup {Head(Offered)},
               Offered' = Tail(Offered), UNCHANGED <<WithDriver, Returned>>
        PROVE  Exchange!ExchangeNext
    BY <2>5 DEF Exchange!ExchangeNext, Exchange!Take, Offered, Returned
  <2>6. ASSUME Returned # <<>>, WithDriver' = WithDriver \cup {Head(Returned)},
               Returned' = Tail(Returned), UNCHANGED <<Offered, WithDevice>>
        PROVE  Exchange!ExchangeNext
    BY <2>6 DEF Exchange!ExchangeNext, Exchange!Reclaim, Offered, Returned
  <2> QED
    BY <2>1, <2>2, <2>3, <2>4, <2>5, <2>6 DEF ExchangeMove
<1> QED
  BY VqInvariant, <1>1, <1>2, PTL DEF Spec, ExchangesBuffers, Exchange!ExchangeSpec
=============================================================================
