------------------------ MODULE RpmsgEndpointsProofs ------------------------
(***************************************************************************)
(* Theorems about the endpoints of an rpmsg device, for every number of    *)
(* endpoints, contexts and addresses.                                      *)
(***************************************************************************)
EXTENDS RpmsgEndpoints, SequenceLemmas, FiniteSetTheorems

EptRec == [name : Names \cup {NULL}, addr : Int, dest : Int, refcnt : Nat, rdev : BOOLEAN]

(***************************************************************************)
(* The inductive invariant.  An endpoint is on the list at most once; a    *)
(* call that is between its two critical sections has an endpoint of its   *)
(* own, on the list and not usable by anybody else.                        *)
(***************************************************************************)
UseInv ==
  /\ Distinct(endpoints)
  /\ usable \subseteq Registered
  /\ \A c \in Contexts : pc[c].at = "out" => pc[c] = Out
  /\ \A c \in Contexts : pc[c] # Out => pc[c].ept \in Registered \ usable
  /\ \A c, d \in Contexts : pc[c] # Out /\ pc[c].ept = pc[d].ept => c = d
  /\ rx.at \in {"deliver", "callback"} => rx.ept \in Epts
  /\ rx.at \in {"idle", "bind"} => rx.ept = NULL

EptInv == RefcntExact /\ UseInv
-----------------------------------------------------------------------------
\* What the address part of rpmsg_create_ept leaves behind.
LEMMA AddressTypes ==
  ASSUME TypeOK, NEW src \in Sources, NEW addr \in 0 .. RESERVED + BMP_SIZE, TakeAddress(src, addr)
  PROVE  bitmap' \in SUBSET (0 .. BMP_SIZE - 1) /\ bitnext' \in 0 .. BMP_SIZE - 1
<1>0. /\ bitmap \in SUBSET (0 .. BMP_SIZE - 1) /\ bitnext \in 0 .. BMP_SIZE - 1
      /\ BMP_SIZE \in Nat \ {0} /\ RESERVED \in Nat
  BY EndpointAssumption DEF TypeOK
<1>1. \A x \in Nat : x % BMP_SIZE \in 0 .. BMP_SIZE - 1
  BY <1>0
<1>2. NextClearBit(bitnext) \in 0 .. BMP_SIZE - 1
  <2> DEFINE clear == {k \in 0 .. BMP_SIZE - 1 : (bitnext + k) % BMP_SIZE \notin bitmap}
  <2>1. clear # {} => bitnext + Min(clear) \in Nat
    <3>0. \A x \in clear : x \in 0 .. BMP_SIZE - 1
      OBVIOUS
    <3> HIDE DEF clear
    <3>1. clear \in SUBSET Nat
      BY <1>0, <3>0
    <3>2. clear # {} => Min(clear) \in Nat
      BY <3>1, MinIsLeast
    <3> QED
      BY <1>0, <3>2
  <2>2. bitnext \in Nat
    BY <1>0
  <2>3. NextClearBit(bitnext) = IF clear = {} THEN bitnext % BMP_SIZE ELSE (bitnext + Min(clear)) % BMP_SIZE
    BY DEF NextClearBit
  <2> HIDE DEF clear
  <2> QED
    BY <1>1, <2>1, <2>2, <2>3
<1>3. CASE src = RPMSG_ADDR_ANY /\ GetAddress(addr)
  <2>1. addr + 1 \in Nat
    BY <1>0
  <2> QED
    BY <1>0, <1>1, <1>2, <1>3, <2>1 DEF GetAddress
<1>4. CASE src >= RESERVED /\ addr = src /\ SetAddress(src)
  BY <1>0, <1>4 DEF SetAddress, InBitmap
<1>5. CASE UNCHANGED <<bitmap, bitnext>>
  BY <1>0, <1>5
<1> QED
  BY <1>3, <1>4, <1>5 DEF TakeAddress

\* rpmsg_get_endpoint finds endpoints of the list.
LEMMA FoundRegistered ==
  ASSUME TypeOK, NEW name, NEW addr, NEW dest, NEW e \in GetEndpoint(name, addr, dest)
  PROVE  e \in Registered /\ e \in Epts /\ Matches(e, name, addr, dest)
<1> DEFINE found == {i \in DOMAIN endpoints : Matches(endpoints[i], name, addr, dest)}
<1>0. endpoints \in Seq(Epts) /\ DOMAIN endpoints = 1 .. Len(endpoints) /\ Len(endpoints) \in Nat
  BY LenProperties DEF TypeOK
<1>1. found # {} /\ e = endpoints[Min(found)]
  BY DEF GetEndpoint
<1>2. found \in SUBSET Nat
  BY <1>0
<1>3. Min(found) \in found
  BY <1>1, <1>2, MinIsLeast
<1> QED
  BY <1>0, <1>1, <1>3, ElementOfSeq DEF Registered, ToSet

\* Taking and giving back a reference.
LEMMA CountFacts ==
  ASSUME NEW r \in EptRec
  PROVE  /\ Incref(r) \in EptRec /\ Incref(r).refcnt = r.refcnt + 1
         /\ Incref(r).rdev = r.rdev /\ Incref(r).addr = r.addr
         /\ r.refcnt > 0 => Decref(r) \in EptRec
         /\ Decref(r).refcnt = r.refcnt - 1 /\ (Decref(r).rdev <=> r.refcnt # 1) /\ Decref(r).addr = r.addr
<1> DEFINE b == r.refcnt # 1
<1>1. b \in BOOLEAN /\ (b <=> r.refcnt # 1)
  OBVIOUS
<1>2. /\ Incref(r) \in EptRec /\ Incref(r).refcnt = r.refcnt + 1
      /\ Incref(r).rdev = r.rdev /\ Incref(r).addr = r.addr
  BY DEF EptRec, Incref
<1>3. Decref(r) = [r EXCEPT !.refcnt = @ - 1, !.rdev = b]
  BY Zenon DEF Decref
<1> HIDE DEF b
<1>4. r.refcnt > 0 => r.refcnt - 1 \in Nat
  BY DEF EptRec
<1>5. r.name \in Names \cup {NULL} /\ r.addr \in Int /\ r.dest \in Int
  BY DEF EptRec
<1>6. r.refcnt > 0 => Decref(r) \in EptRec
  BY <1>1, <1>3, <1>4, <1>5 DEF EptRec
<1>7. Decref(r).refcnt = r.refcnt - 1 /\ Decref(r).rdev = b /\ Decref(r).addr = r.addr
  BY <1>3 DEF EptRec
<1> QED
  BY <1>1, <1>2, <1>6, <1>7

\* The types of everything but the endpoint structures.
RestOK ==
  /\ bitmap \in SUBSET (0 .. BMP_SIZE - 1)
  /\ bitnext \in 0 .. BMP_SIZE - 1
  /\ endpoints \in Seq(Epts)
  /\ usable \in SUBSET Epts
  /\ pc \in [Contexts -> [at : {"out", "announce", "unregister"}, ept : Epts \cup {NULL}]]
  /\ rx \in [at : {"idle", "deliver", "callback", "bind", "unbind"},
             ept : Epts \cup {NULL}, src : Remotes \cup {RPMSG_ADDR_ANY}]

\* The types of the variables, one by one.
LEMMA TypeParts ==
  /\ TypeOK <=> RestOK /\ ept \in [Epts -> EptRec]
  /\ TypeOK' <=> RestOK' /\ ept' \in [Epts -> EptRec]
  BY DEF TypeOK, RestOK, EptRec

\* How many references there are on an endpoint.
Counted(e) == (IF e \in Registered THEN 1 ELSE 0) + (IF Pinned(e) THEN 1 ELSE 0)

\* A step that changes one structure keeps the counts exact if that one's is.
LEMMA CountsKept ==
  ASSUME RefcntExact, RestOK', NEW e \in Epts, NEW r \in EptRec,
         ept' = [ept EXCEPT ![e] = r],
         \A f \in Epts \ {e} : (f \in Registered' <=> f \in Registered) /\ (Pinned(f)' <=> Pinned(f)),
         r.refcnt = Counted(e)', r.rdev <=> r.refcnt > 0
  PROVE  RefcntExact'
<1>1. ept \in [Epts -> EptRec]
  BY TypeParts DEF RefcntExact
<1>2. ept' \in [Epts -> EptRec] /\ ept'[e] = r /\ \A f \in Epts \ {e} : ept'[f] = ept[f]
  BY <1>1
<1>3. TypeOK'
  BY <1>2, TypeParts
<1>4. ASSUME NEW f \in Epts
      PROVE  ept'[f].refcnt = Counted(f)' /\ (ept'[f].rdev <=> ept'[f].refcnt > 0)
  <2>1. CASE f = e
    BY <1>2, <2>1
  <2>2. CASE f # e
    <3>1. ept[f].refcnt = Counted(f) /\ (ept[f].rdev <=> ept[f].refcnt > 0)
      BY DEF RefcntExact, Counted
    <3>2. Counted(f)' = Counted(f)
      BY <2>2 DEF Counted
    <3> QED
      BY <1>2, <2>2, <3>1, <3>2
  <2> QED
    BY <2>1, <2>2
<1> QED
  BY <1>3, <1>4 DEF RefcntExact, Counted

\* A step that changes no structure keeps the counts exact if it changes no reference.
LEMMA CountsSame ==
  ASSUME RefcntExact, RestOK', UNCHANGED <<ept, endpoints>>,
         \A f \in Epts : Pinned(f)' <=> Pinned(f)
  PROVE  RefcntExact'
<1>1. TypeOK'
  BY TypeParts DEF RefcntExact
<1>2. Registered' = Registered
  BY DEF Registered
<1> QED
  BY <1>1, <1>2 DEF RefcntExact

\* What is known of an endpoint in a state of the invariant.
LEMMA StateFacts ==
  ASSUME EptInv
  PROVE  /\ TypeOK /\ RestOK /\ ept \in [Epts -> EptRec]
         /\ Registered \subseteq Epts
         /\ \A e \in Epts : /\ ept[e].refcnt = Counted(e)
                            /\ ept[e].rdev <=> ept[e].refcnt > 0
                            /\ ept[e].rdev <=> e \in Registered \/ Pinned(e)
<1>1. TypeOK /\ RestOK /\ ept \in [Epts -> EptRec]
  BY TypeParts DEF EptInv, RefcntExact
<1>2. Registered \subseteq Epts
  BY <1>1, ElementOfSeq, LenProperties DEF RestOK, Registered, ToSet
<1>3. ASSUME NEW e \in Epts
      PROVE  /\ ept[e].refcnt = Counted(e)
             /\ ept[e].rdev <=> ept[e].refcnt > 0
             /\ ept[e].rdev <=> e \in Registered \/ Pinned(e)
  <2>1. ept[e].refcnt = Counted(e) /\ (ept[e].rdev <=> ept[e].refcnt > 0)
    BY DEF EptInv, RefcntExact, Counted
  <2>2. Counted(e) > 0 <=> e \in Registered \/ Pinned(e)
    BY DEF Counted
  <2> QED
    BY <2>1, <2>2
<1> QED
  BY <1>1, <1>2, <1>3

\* The invariant holds in a new device.
LEMMA EptInvInit == Init => EptInv
<1> SUFFICES ASSUME Init PROVE EptInv
  OBVIOUS
<1>1. Registered = {} /\ \A e \in Epts : ~Pinned(e)
  BY EndpointAssumption DEF Init, Registered, ToSet, Pinned, Idle
<1>2. RestOK
  BY EndpointAssumption DEF Init, RestOK, Idle, Out, Contexts
<1>3. ept \in [Epts -> EptRec] /\ \A e \in Epts : ept[e].refcnt = 0 /\ ept[e].rdev = FALSE
  BY DEF Init, EptRec, RPMSG_ADDR_ANY
<1>4. RefcntExact
  BY <1>1, <1>2, <1>3, TypeParts DEF RefcntExact
<1>5. UseInv
  BY <1>1 DEF Init, UseInv, Distinct, Idle, Out
<1> QED
  BY <1>4, <1>5 DEF EptInv

\* The first critical section of rpmsg_create_ept.
LEMMA CreateKeeps ==
  ASSUME EptInv, NEW c \in Contexts, NEW e \in Epts, NEW n \in Names \cup {NULL},
         NEW s \in Sources, NEW d \in Remotes \cup {RPMSG_ADDR_ANY}, CreateEpt(c, e, n, s, d)
  PROVE  EptInv' /\ e \notin Registered
<1>0. /\ TypeOK /\ RestOK /\ ept \in [Epts -> EptRec] /\ RefcntExact /\ UseInv
      /\ Registered \subseteq Epts
  BY StateFacts DEF EptInv
<1>1. e \notin Registered /\ ~Pinned(e)
  BY StateFacts DEF CreateEpt
<1>2. PICK addr \in 0 .. RESERVED + BMP_SIZE :
        /\ TakeAddress(s, addr)
        /\ ept' = [ept EXCEPT ![e] = [name |-> n, addr |-> addr, dest |-> d, refcnt |-> 1, rdev |-> TRUE]]
  BY DEF CreateEpt
<1> DEFINE r == [name |-> n, addr |-> addr, dest |-> d, refcnt |-> 1, rdev |-> TRUE]
<1>3. r \in EptRec /\ r.refcnt = 1 /\ r.rdev
  BY EndpointAssumption DEF EptRec, RPMSG_ADDR_ANY
<1>4. endpoints' \in Seq(Epts) /\ Distinct(endpoints') /\ Registered' = Registered \cup {e}
  <2>1. endpoints \in Seq(Epts) /\ Distinct(endpoints) /\ endpoints' = Append(endpoints, e)
    BY <1>0 DEF RestOK, UseInv, CreateEpt
  <2> QED
    BY <1>1, <2>1, AppendFacts DEF Registered
<1>5. pc' = [pc EXCEPT ![c] = [at |-> "announce", ept |-> e]] /\ UNCHANGED <<usable, rx>>
  BY DEF CreateEpt
<1>6. RestOK'
  BY <1>0, <1>2, <1>4, <1>5, AddressTypes DEF RestOK
<1>7. \A f \in Epts : Pinned(f)' <=> Pinned(f)
  BY <1>5 DEF Pinned
<1>8. RefcntExact'
  <2>1. r.refcnt = Counted(e)'
    BY <1>1, <1>3, <1>4, <1>7 DEF Counted
  <2>2. \A f \in Epts \ {e} : (f \in Registered' <=> f \in Registered) /\ (Pinned(f)' <=> Pinned(f))
    BY <1>4, <1>7
  <2>0. r \in EptRec /\ (r.rdev <=> r.refcnt > 0)
    BY <1>3
  <2> HIDE DEF r
  <2>3. ept' = [ept EXCEPT ![e] = r]
    BY <1>2 DEF r
  <2> QED
    BY <1>0, <1>6, <2>0, <2>1, <2>2, <2>3, CountsKept
<1>9. UseInv'
  <2>1. /\ pc'[c].at = "announce" /\ pc'[c].ept = e /\ pc'[c] # Out
        /\ \A x \in Contexts \ {c} : pc'[x] = pc[x]
        /\ \A x \in Contexts : pc[x].ept # e
    BY <1>0, <1>5 DEF RestOK, Out, CreateEpt
  <2>2. e \in Registered' \ usable'
    BY <1>0, <1>1, <1>4, <1>5 DEF UseInv
  <2>3. \A x \in Contexts : /\ pc'[x].at = "out" => pc'[x] = Out
                            /\ pc'[x] # Out => pc'[x].ept \in Registered' \ usable'
    BY <1>0, <1>4, <1>5, <2>1, <2>2 DEF UseInv
  <2>4. \A x, y \in Contexts : pc'[x] # Out /\ pc'[x].ept = pc'[y].ept => x = y
    BY <1>0, <2>1 DEF UseInv
  <2>5. usable' \subseteq Registered'
    BY <1>0, <1>4, <1>5 DEF UseInv
  <2>6. /\ rx'.at \in {"deliver", "callback"} => rx'.ept \in Epts
        /\ rx'.at \in {"idle", "bind"} => rx'.ept = NULL
    BY <1>0, <1>5 DEF UseInv
  <2> QED
    BY <1>4, <2>3, <2>4, <2>5, <2>6 DEF UseInv, Out
<1> QED
  BY <1>1, <1>8, <1>9 DEF EptInv

\* What a call that is between its two critical sections holds.
LEMMA CallFacts ==
  ASSUME EptInv, NEW c \in Contexts, pc[c].at # "out"
  PROVE  /\ pc[c] # Out /\ pc[c].ept \in Registered /\ pc[c].ept \notin usable
         /\ \A x \in Contexts \ {c} : pc[x].ept # pc[c].ept
<1>1. pc[c] # Out
  BY DEF Out
<1> QED
  BY <1>1 DEF EptInv, UseInv

\* The second critical section of rpmsg_destroy_ept, or of a creation that fails.
LEMMA UnregisterKeeps ==
  ASSUME EptInv, NEW c \in Contexts, pc[c].at # "out",
         Unregister(pc[c].ept), Return(c), UNCHANGED <<bitnext, usable, rx>>
  PROVE  EptInv'
<1>0. /\ RestOK /\ ept \in [Epts -> EptRec] /\ RefcntExact /\ UseInv
      /\ Registered \subseteq Epts
  BY StateFacts DEF EptInv
<1>1. PICK e \in Epts :
        e = pc[c].ept /\ e \in Registered /\ e \notin usable /\ \A x \in Contexts \ {c} : pc[x].ept # e
  BY <1>0, CallFacts
<1>2. ept[e] \in EptRec /\ ept[e].refcnt = Counted(e) /\ ept[e].refcnt > 0
  BY <1>0, <1>1, StateFacts
<1>3. PICK r \in EptRec : r = Decref(ept[e])
  BY <1>2, CountFacts
<1>3a. /\ bitmap' \in SUBSET (0 .. BMP_SIZE - 1)
      /\ endpoints' = RemoveFirst(endpoints, e)
      /\ ept' = [ept EXCEPT ![e] = r] /\ pc' = [pc EXCEPT ![c] = Out]
  BY <1>0, <1>1, <1>3 DEF Unregister, ReleaseAddress, Return, RestOK
<1>4. endpoints' \in Seq(Epts) /\ Distinct(endpoints') /\ Registered' = Registered \ {e}
  <2>1. endpoints \in Seq(Epts) /\ Distinct(endpoints) /\ e \in ToSet(endpoints)
    BY <1>0, <1>1 DEF RestOK, UseInv, Registered
  <2> QED
    BY <1>3a, <2>1, RemoveFirstFacts DEF Registered
<1>5. RestOK'
  <2>1. pc' \in [Contexts -> [at : {"out", "announce", "unregister"}, ept : Epts \cup {NULL}]]
    BY <1>0, <1>3a DEF RestOK, Out
  <2> QED
    BY <1>0, <1>3a, <1>4, <2>1 DEF RestOK
<1>6. \A f \in Epts : Pinned(f)' <=> Pinned(f)
  BY DEF Pinned
<1>7. RefcntExact'
  <2>1. r \in EptRec /\ r.refcnt = ept[e].refcnt - 1 /\ (r.rdev <=> ept[e].refcnt # 1)
    BY <1>2, <1>3, CountFacts
  <2>2. r.refcnt = Counted(e)' /\ (r.rdev <=> r.refcnt > 0)
    <3>1. Counted(e) = 1 + (IF Pinned(e) THEN 1 ELSE 0) /\ Counted(e)' = 0 + (IF Pinned(e) THEN 1 ELSE 0)
      BY <1>1, <1>4, <1>6 DEF Counted
    <3>2. Counted(e) \in {1, 2} /\ Counted(e)' = Counted(e) - 1
      BY <3>1
    <3>3. Counted(e) # 1 <=> Counted(e) - 1 > 0
      BY <3>2
    <3> QED
      BY <1>2, <2>1, <3>2, <3>3
  <2>3. \A f \in Epts \ {e} : (f \in Registered' <=> f \in Registered) /\ (Pinned(f)' <=> Pinned(f))
    BY <1>4, <1>6
  <2> QED
    BY <1>0, <1>1, <1>3a, <1>5, <2>1, <2>2, <2>3, CountsKept
<1>8. UseInv'
  <2>1. pc'[c] = Out /\ \A x \in Contexts \ {c} : pc'[x] = pc[x]
    BY <1>0, <1>3a DEF RestOK
  <2>2. \A x \in Contexts : /\ pc'[x].at = "out" => pc'[x] = Out
                            /\ pc'[x] # Out => pc'[x].ept \in Registered' \ usable'
    BY <1>0, <1>1, <1>4, <2>1 DEF UseInv
  <2>3. \A x, y \in Contexts : pc'[x] # Out /\ pc'[x].ept = pc'[y].ept => x = y
    <3> SUFFICES ASSUME NEW x \in Contexts, NEW y \in Contexts, pc'[x] # Out, pc'[x].ept = pc'[y].ept
                 PROVE  x = y
      OBVIOUS
    <3>1. x # c /\ pc'[x] = pc[x] /\ pc[x].ept \in Epts
      BY <1>0, <2>1 DEF UseInv
    <3>2. y # c
      BY <2>1, <3>1, EndpointAssumption DEF Out
    <3> QED
      BY <1>0, <2>1, <3>1, <3>2 DEF UseInv
  <2>4. usable' \subseteq Registered'
    BY <1>0, <1>1, <1>4 DEF UseInv
  <2> QED
    BY <1>0, <1>4, <2>2, <2>3, <2>4 DEF UseInv, Out
<1> QED
  BY <1>7, <1>8 DEF EptInv

\* A creation that succeeds, and the first part of rpmsg_destroy_ept.
LEMMA CallKeeps ==
  ASSUME EptInv, NEW c \in Contexts, CreateDone(c) \/ \E e \in Epts : DestroyEpt(c, e)
  PROVE  EptInv'
<1>0. /\ RestOK /\ ept \in [Epts -> EptRec] /\ RefcntExact /\ UseInv
      /\ Registered \subseteq Epts
  BY StateFacts DEF EptInv
<1>1. UNCHANGED <<bitmap, bitnext, endpoints, ept, rx>>
  BY DEF CreateDone, DestroyEpt
<1>2. Registered' = Registered /\ \A f \in Epts : Pinned(f)' <=> Pinned(f)
  BY <1>1 DEF Registered, Pinned
<1>3. CASE CreateDone(c)
  <2>1. /\ pc[c].ept \in Registered /\ \A x \in Contexts \ {c} : pc[x].ept # pc[c].ept
        /\ usable' = usable \cup {pc[c].ept} /\ pc' = [pc EXCEPT ![c] = Out]
    BY <1>3, CallFacts DEF CreateDone, Return
  <2>2. pc'[c] = Out /\ \A x \in Contexts \ {c} : pc'[x] = pc[x]
    BY <1>0, <2>1 DEF RestOK
  <2>3. RestOK'
    <3>1. pc' \in [Contexts -> [at : {"out", "announce", "unregister"}, ept : Epts \cup {NULL}]]
      BY <1>0, <2>1 DEF RestOK, Out
    <3> QED
      BY <1>0, <1>1, <2>1, <3>1 DEF RestOK
  <2>4. \A x \in Contexts : /\ pc'[x].at = "out" => pc'[x] = Out
                            /\ pc'[x] # Out => pc'[x].ept \in Registered' \ usable'
    BY <1>0, <1>2, <2>1, <2>2 DEF UseInv
  <2>5. \A x, y \in Contexts : pc'[x] # Out /\ pc'[x].ept = pc'[y].ept => x = y
    <3> SUFFICES ASSUME NEW x \in Contexts, NEW y \in Contexts, pc'[x] # Out, pc'[x].ept = pc'[y].ept
                 PROVE  x = y
      OBVIOUS
    <3>1. x # c /\ pc'[x] = pc[x] /\ pc[x].ept \in Epts
      BY <1>0, <2>2 DEF UseInv
    <3>2. y # c
      BY <2>2, <3>1, EndpointAssumption DEF Out
    <3> QED
      BY <1>0, <2>2, <3>1, <3>2 DEF UseInv
  <2>6. UseInv'
    BY <1>0, <1>1, <1>2, <2>1, <2>4, <2>5 DEF UseInv, Out
  <2> QED
    BY <1>0, <1>1, <1>2, <2>3, <2>6, CountsSame DEF EptInv
<1>4. ASSUME NEW e \in Epts, DestroyEpt(c, e) PROVE EptInv'
  <2>1. /\ pc[c] = Out /\ e \in usable /\ usable' = usable \ {e}
        /\ pc' = [pc EXCEPT ![c] = [at |-> "unregister", ept |-> e]]
    BY <1>4 DEF DestroyEpt, CanCall
  <2>2. /\ pc'[c].at = "unregister" /\ pc'[c].ept = e
        /\ \A x \in Contexts \ {c} : pc'[x] = pc[x]
    BY <1>0, <2>1 DEF RestOK
  <2>3. RestOK'
    BY <1>0, <1>1, <2>1 DEF RestOK
  <2>4. \A x \in Contexts : pc[x].ept # e
    BY <1>0, <2>1, EndpointAssumption DEF UseInv, Out
  <2>5. \A x \in Contexts : /\ pc'[x].at = "out" => pc'[x] = Out
                            /\ pc'[x] # Out => pc'[x].ept \in Registered' \ usable'
    BY <1>0, <1>2, <2>1, <2>2 DEF UseInv
  <2>6. \A x, y \in Contexts : pc'[x] # Out /\ pc'[x].ept = pc'[y].ept => x = y
    BY <1>0, <2>2, <2>4 DEF UseInv
  <2>7. UseInv'
    BY <1>0, <1>1, <1>2, <2>1, <2>5, <2>6 DEF UseInv, Out
  <2> QED
    BY <1>0, <1>1, <1>2, <2>3, <2>7, CountsSame DEF EptInv
<1> QED
  BY <1>3, <1>4

\* Only the dispatcher and what it refers to changes.
LEMMA DispatcherKeeps ==
  ASSUME EptInv, NEW e \in Epts, NEW r \in EptRec,
         UNCHANGED <<bitmap, bitnext, endpoints, usable, pc>>,
         ept' = [ept EXCEPT ![e] = r],
         rx' \in [at : {"idle", "deliver", "callback", "bind", "unbind"},
                  ept : Epts \cup {NULL}, src : Remotes \cup {RPMSG_ADDR_ANY}],
         rx'.at \in {"deliver", "callback"} => rx'.ept \in Epts,
         rx'.at \in {"idle", "bind"} => rx'.ept = NULL,
         \A f \in Epts \ {e} : Pinned(f)' <=> Pinned(f),
         r.refcnt = Counted(e)', r.rdev <=> r.refcnt > 0
  PROVE  EptInv'
<1>1. RestOK /\ RefcntExact /\ UseInv
  BY StateFacts DEF EptInv
<1>2. RestOK'
  BY <1>1 DEF RestOK
<1>3. Registered' = Registered
  BY DEF Registered
<1>4. \A f \in Epts \ {e} : (f \in Registered' <=> f \in Registered) /\ (Pinned(f)' <=> Pinned(f))
  BY <1>3
<1>5. RefcntExact'
  BY <1>1, <1>2, <1>4, CountsKept
<1>6. UseInv'
  BY <1>1, <1>3 DEF UseInv, Out
<1> QED
  BY <1>5, <1>6 DEF EptInv

\* Changing the remote address leaves the count alone.
LEMMA DestFacts ==
  ASSUME NEW r \in EptRec, NEW d \in Int
  PROVE  /\ [r EXCEPT !.dest = d] \in EptRec /\ [r EXCEPT !.dest = d].refcnt = r.refcnt
         /\ [r EXCEPT !.dest = d].rdev = r.rdev /\ [r EXCEPT !.dest = d].addr = r.addr
  BY DEF EptRec

\* rpmsg_virtio_rx_callback and the endpoint callback.
LEMMA ReceiveKeeps ==
  ASSUME EptInv,
         (\E a \in 0 .. RESERVED + BMP_SIZE - 1, d \in Remotes : RxLookup(a, d)) \/ RxDeliver \/ RxReturn
  PROVE  EptInv'
<1>0. /\ TypeOK /\ RestOK /\ ept \in [Epts -> EptRec] /\ UseInv /\ Registered \subseteq Epts
      /\ NULL \notin Epts /\ Remotes \subseteq Int /\ RPMSG_ADDR_ANY \in Int
  BY StateFacts, EndpointAssumption DEF EptInv, RPMSG_ADDR_ANY
<1>1. UNCHANGED <<bitmap, bitnext, endpoints, usable, pc>> /\ Registered' = Registered
  BY DEF RxLookup, RxDeliver, RxReturn, Registered
<1>2. ASSUME NEW a, NEW d \in Remotes, RxLookup(a, d) PROVE EptInv'
  <2>1. PICK e \in GetEndpoint(NULL, a, RPMSG_ADDR_ANY) :
          ept' = [ept EXCEPT ![e] = Incref(ept[e])] /\ rx' = [at |-> "deliver", ept |-> e, src |-> d]
    BY <1>2 DEF RxLookup
  <2>2. e \in Epts /\ e \in Registered
    BY <1>0, FoundRegistered
  <2>3. PICK r \in EptRec : /\ r = Incref(ept[e]) /\ r.refcnt = ept[e].refcnt + 1
                            /\ r.rdev = ept[e].rdev
    BY <1>0, <2>2, CountFacts
  <2>4. rx.ept = NULL
    BY <1>0, <1>2 DEF UseInv, RxLookup
  <2>5. /\ \A f \in Epts : ~Pinned(f)
        /\ \A f \in Epts : Pinned(f)' <=> f = e
    BY <1>0, <2>1, <2>4 DEF Pinned
  <2>6. Counted(e) = 1 /\ Counted(e)' = 2
    BY <1>1, <2>2, <2>5 DEF Counted
  <2>7. ept[e].refcnt = 1 /\ ept[e].rdev
    BY <2>2, <2>6, StateFacts
  <2>8. r.refcnt = Counted(e)' /\ (r.rdev <=> r.refcnt > 0)
    BY <2>3, <2>6, <2>7
  <2>9. ept' = [ept EXCEPT ![e] = r] /\ rx'.at = "deliver" /\ rx'.ept = e
        /\ rx' \in [at : {"idle", "deliver", "callback", "bind", "unbind"},
                    ept : Epts \cup {NULL}, src : Remotes \cup {RPMSG_ADDR_ANY}]
    BY <2>1, <2>2, <2>3
  <2>10. \A f \in Epts \ {e} : Pinned(f)' <=> Pinned(f)
    BY <2>5
  <2> QED
    BY <1>1, <2>2, <2>8, <2>9, <2>10, DispatcherKeeps
<1>3. CASE RxDeliver
  <2>1. PICK e \in Epts : e = rx.ept /\ rx.at = "deliver"
    BY <1>0, <1>3 DEF UseInv, RxDeliver
  <2>2. rx' = [rx EXCEPT !.at = "callback"]
    BY <1>3 DEF RxDeliver
  <2>3. /\ rx'.at = "callback" /\ rx'.ept = e
        /\ rx' \in [at : {"idle", "deliver", "callback", "bind", "unbind"},
                    ept : Epts \cup {NULL}, src : Remotes \cup {RPMSG_ADDR_ANY}]
    BY <1>0, <2>1, <2>2 DEF RestOK
  <2>4. PICK d \in Int : ept' = [ept EXCEPT ![e] = [ept[e] EXCEPT !.dest = d]]
    <3>1. rx.src \in Int /\ ept[e].dest \in Int
      BY <1>0, <2>1 DEF RestOK, EptRec
    <3>2. ept' = [ept EXCEPT ![e] = [ept[e] EXCEPT
                    !.dest = IF ept[e].dest = RPMSG_ADDR_ANY THEN rx.src ELSE ept[e].dest]]
      BY <1>0, <1>3, <2>1 DEF RxDeliver
    <3> QED
      BY <3>1, <3>2
  <2>5. PICK r \in EptRec : /\ r = [ept[e] EXCEPT !.dest = d]
                            /\ r.refcnt = ept[e].refcnt /\ r.rdev = ept[e].rdev
    BY <1>0, DestFacts
  <2>6. \A f \in Epts : Pinned(f)' <=> Pinned(f)
    BY <2>1, <2>3 DEF Pinned
  <2>7. r.refcnt = Counted(e)' /\ (r.rdev <=> r.refcnt > 0)
    <3>1. Counted(e)' = Counted(e)
      BY <1>1, <2>6 DEF Counted
    <3>2. ept[e].refcnt = Counted(e) /\ (ept[e].rdev <=> ept[e].refcnt > 0)
      BY StateFacts
    <3> QED
      BY <2>5, <3>1, <3>2
  <2>8. ept' = [ept EXCEPT ![e] = r]
    BY <2>4, <2>5
  <2> QED
    BY <1>1, <2>3, <2>6, <2>7, <2>8, DispatcherKeeps
<1>4. CASE RxReturn
  <2>1. PICK e \in Epts : e = rx.ept /\ rx.at = "callback"
    BY <1>0, <1>4 DEF UseInv, RxReturn
  <2>2. /\ rx' = Idle /\ rx'.at = "idle" /\ rx'.ept = NULL
        /\ rx' \in [at : {"idle", "deliver", "callback", "bind", "unbind"},
                    ept : Epts \cup {NULL}, src : Remotes \cup {RPMSG_ADDR_ANY}]
    BY <1>4 DEF RxReturn, Idle
  <2>3. /\ \A f \in Epts : Pinned(f) => f = e
        /\ Pinned(e)
        /\ \A f \in Epts : ~Pinned(f)'
    BY <1>0, <2>1, <2>2 DEF Pinned
  <2>4. Counted(e)' = Counted(e) - 1 /\ Counted(e) \in {1, 2}
    BY <1>1, <2>3 DEF Counted
  <2>5. ept[e] \in EptRec /\ ept[e].refcnt = Counted(e) /\ ept[e].refcnt > 0
    BY <1>0, <2>4, StateFacts
  <2>6. PICK r \in EptRec : /\ r = Decref(ept[e]) /\ r.refcnt = ept[e].refcnt - 1
                            /\ (r.rdev <=> ept[e].refcnt # 1)
    BY <2>5, CountFacts
  <2>7. r.refcnt = Counted(e)' /\ (r.rdev <=> r.refcnt > 0)
    BY <2>4, <2>5, <2>6
  <2>8. ept' = [ept EXCEPT ![e] = r]
    BY <1>4, <2>1, <2>6 DEF RxReturn
  <2>9. \A f \in Epts \ {e} : Pinned(f)' <=> Pinned(f)
    BY <2>3
  <2> QED
    BY <1>1, <2>2, <2>7, <2>8, <2>9, DispatcherKeeps
<1> QED
  BY <1>2, <1>3, <1>4

\* The dispatcher enters or leaves a callback without a reference.
LEMMA UncountedKeeps ==
  ASSUME EptInv, UNCHANGED <<bitmap, bitnext, endpoints, ept, usable, pc>>,
         rx' \in [at : {"idle", "deliver", "callback", "bind", "unbind"},
                  ept : Epts \cup {NULL}, src : Remotes \cup {RPMSG_ADDR_ANY}],
         rx'.ept = NULL, rx'.at \notin {"deliver", "callback"},
         \A f \in Epts : ~Pinned(f)
  PROVE  EptInv'
<1>1. RestOK /\ RefcntExact /\ UseInv
  BY StateFacts DEF EptInv
<1>2. RestOK'
  BY <1>1 DEF RestOK
<1>3. Registered' = Registered
  BY DEF Registered
<1>4. \A f \in Epts : Pinned(f)' <=> Pinned(f)
  BY EndpointAssumption DEF Pinned
<1>5. RefcntExact'
  BY <1>1, <1>2, <1>4, CountsSame
<1>6. UseInv'
  BY <1>1, <1>3 DEF UseInv, Out
<1> QED
  BY <1>5, <1>6 DEF EptInv

\* rpmsg_virtio_ns_callback and the callbacks it calls.
LEMMA NameServiceKeeps ==
  ASSUME EptInv,
         \/ \E n \in Names, d \in Remotes : NsCreate(n, d) \/ NsDestroy(n, d)
         \/ NsBindReturn \/ NsUnbindReturn
  PROVE  EptInv'
<1> DEFINE RxTypes == [at : {"idle", "deliver", "callback", "bind", "unbind"},
                       ept : Epts \cup {NULL}, src : Remotes \cup {RPMSG_ADDR_ANY}]
<1>0. /\ TypeOK /\ RestOK /\ ept \in [Epts -> EptRec] /\ UseInv /\ Registered \subseteq Epts
      /\ NULL \notin Epts /\ Releasable \subseteq Epts /\ Remotes \subseteq Int /\ RPMSG_ADDR_ANY \in Int
  BY StateFacts, EndpointAssumption DEF EptInv, RPMSG_ADDR_ANY
<1>1. UNCHANGED <<bitmap, bitnext, endpoints, usable, pc>> /\ Registered' = Registered
  BY DEF NsCreate, NsDestroy, NsBindReturn, NsUnbindReturn, Registered
<1>2. rx.ept = NULL => \A f \in Epts : ~Pinned(f)
  BY <1>0 DEF Pinned
<1>3. rx.at \in {"idle", "bind"} => rx.ept = NULL
  BY <1>0 DEF UseInv
<1>4. Idle \in RxTypes /\ Idle.ept = NULL /\ Idle.at = "idle"
  BY DEF Idle
<1>5. ASSUME NEW n \in Names, NEW d \in Remotes, NsCreate(n, d) PROVE EptInv'
  <2>0. rx.at = "idle" /\ rx.ept = NULL
    BY <1>3, <1>5 DEF NsCreate
  <2>1. ASSUME NEW e \in GetEndpoint(n, RPMSG_ADDR_ANY, d), ept' = [ept EXCEPT ![e].dest = d], UNCHANGED rx
        PROVE  EptInv'
    <3>1. e \in Epts /\ e \in Registered
      BY <1>0, FoundRegistered
    <3>2. PICK r \in EptRec : r = [ept[e] EXCEPT !.dest = d] /\ r.refcnt = ept[e].refcnt /\ r.rdev = ept[e].rdev
      BY <1>0, <3>1, DestFacts
    <3>3. ept' = [ept EXCEPT ![e] = r]
      BY <1>0, <2>1, <3>1, <3>2
    <3>4. \A f \in Epts : Pinned(f)' <=> Pinned(f)
      BY <2>1 DEF Pinned
    <3>5. Counted(e)' = Counted(e)
      BY <1>1, <3>1, <3>4 DEF Counted
    <3>6. r.refcnt = Counted(e)' /\ (r.rdev <=> r.refcnt > 0)
      BY <3>1, <3>2, <3>5, StateFacts
    <3>7. rx' \in RxTypes /\ rx'.at = "idle" /\ rx'.ept = NULL
      BY <1>0, <2>0, <2>1 DEF RestOK
    <3> QED
      BY <1>1, <3>1, <3>3, <3>4, <3>6, <3>7, DispatcherKeeps
  <2>2. CASE rx' = [Idle EXCEPT !.at = "bind"] /\ UNCHANGED ept
    <3>1. rx' \in RxTypes /\ rx'.at = "bind" /\ rx'.ept = NULL
      BY <2>2 DEF Idle
    <3> QED
      BY <1>1, <1>2, <2>0, <2>2, <3>1, UncountedKeeps
  <2> QED
    BY <1>5, <2>1, <2>2 DEF NsCreate
<1>6. ASSUME NEW n \in Names, NEW d \in Remotes, NsDestroy(n, d) PROVE EptInv'
  <2>0. rx.at = "idle" /\ rx.ept = NULL
    BY <1>3, <1>6 DEF NsDestroy
  <2>1. ASSUME NEW e \in GetEndpoint(n, RPMSG_ADDR_ANY, d),
               ept' = [ept EXCEPT ![e] = [IF e \in Releasable THEN Incref(ept[e]) ELSE ept[e]
                                            EXCEPT !.dest = RPMSG_ADDR_ANY]],
               rx' = [at |-> "unbind", ept |-> e, src |-> d]
        PROVE  EptInv'
    <3>1. e \in Epts /\ e \in Registered
      BY <1>0, FoundRegistered
    <3>2. PICK q \in EptRec : /\ q = (IF e \in Releasable THEN Incref(ept[e]) ELSE ept[e])
                              /\ q.refcnt = (IF e \in Releasable THEN ept[e].refcnt + 1 ELSE ept[e].refcnt)
                              /\ q.rdev = ept[e].rdev
      <4>1. ept[e] \in EptRec
        BY <1>0, <3>1
      <4> QED
        BY <4>1, CountFacts
    <3>3. PICK r \in EptRec : r = [q EXCEPT !.dest = RPMSG_ADDR_ANY] /\ r.refcnt = q.refcnt /\ r.rdev = q.rdev
      BY <1>0, DestFacts
    <3>4. ept' = [ept EXCEPT ![e] = r]
      BY <2>1, <3>2, <3>3
    <3>5. rx' \in RxTypes /\ rx'.at = "unbind" /\ rx'.ept = e
      BY <2>1, <3>1
    <3>6. /\ \A f \in Epts : ~Pinned(f)
          /\ \A f \in Epts : Pinned(f)' <=> f = e /\ e \in Releasable
      BY <1>0, <2>0, <3>5 DEF Pinned
    <3>7. Counted(e) = 1 /\ Counted(e)' = IF e \in Releasable THEN 2 ELSE 1
      BY <1>1, <3>1, <3>6 DEF Counted
    <3>8. ept[e].refcnt = 1 /\ ept[e].rdev
      BY <3>1, <3>7, StateFacts
    <3>9. r.refcnt = Counted(e)' /\ (r.rdev <=> r.refcnt > 0)
      <4>1. r.refcnt = Counted(e)' /\ r.refcnt > 0
        BY <3>2, <3>3, <3>7, <3>8
      <4>2. r.rdev
        BY <3>2, <3>3, <3>8, Zenon
      <4> QED
        BY <4>1, <4>2
    <3>10. \A f \in Epts \ {e} : Pinned(f)' <=> Pinned(f)
      BY <3>6
    <3> QED
      BY <1>1, <3>1, <3>4, <3>5, <3>9, <3>10, DispatcherKeeps
  <2>2. CASE rx' = [Idle EXCEPT !.at = "unbind"] /\ UNCHANGED ept
    <3>1. rx' \in RxTypes /\ rx'.at = "unbind" /\ rx'.ept = NULL
      BY <2>2 DEF Idle
    <3> QED
      BY <1>1, <1>2, <2>0, <2>2, <3>1, UncountedKeeps
  <2> QED
    BY <1>6, <2>1, <2>2 DEF NsDestroy
<1>7. CASE NsBindReturn
  BY <1>1, <1>2, <1>3, <1>4, <1>7, UncountedKeeps DEF NsBindReturn
<1>8. CASE NsUnbindReturn
  <2>1. rx.at = "unbind" /\ rx' = Idle
    BY <1>8 DEF NsUnbindReturn
  <2>2. CASE rx.ept \notin Releasable
    <3>1. \A f \in Epts : ~Pinned(f)
      BY <2>1, <2>2 DEF Pinned
    <3>2. UNCHANGED ept
      BY <1>8, <2>2 DEF NsUnbindReturn
    <3> QED
      BY <1>1, <1>4, <2>1, <3>1, <3>2, UncountedKeeps
  <2>3. CASE rx.ept \in Releasable
    <3>1. PICK e \in Epts : e = rx.ept /\ e \in Releasable
      BY <1>0, <2>3
    <3>2. /\ \A f \in Epts : Pinned(f) => f = e
          /\ Pinned(e)
          /\ \A f \in Epts : ~Pinned(f)'
      BY <1>0, <1>4, <2>1, <3>1 DEF Pinned
    <3>3. Counted(e)' = Counted(e) - 1 /\ Counted(e) \in {1, 2}
      BY <1>1, <3>2 DEF Counted
    <3>4. ept[e] \in EptRec /\ ept[e].refcnt = Counted(e) /\ ept[e].refcnt > 0
      BY <1>0, <3>3, StateFacts
    <3>5. PICK r \in EptRec : /\ r = Decref(ept[e]) /\ r.refcnt = ept[e].refcnt - 1
                              /\ (r.rdev <=> ept[e].refcnt # 1)
      BY <3>4, CountFacts
    <3>6. r.refcnt = Counted(e)' /\ (r.rdev <=> r.refcnt > 0)
      BY <3>3, <3>4, <3>5
    <3>7. ept' = [ept EXCEPT ![e] = r]
      BY <1>8, <2>3, <3>1, <3>5 DEF NsUnbindReturn
    <3>8. \A f \in Epts \ {e} : Pinned(f)' <=> Pinned(f)
      BY <3>2
    <3>9. rx' \in RxTypes /\ rx'.at = "idle" /\ rx'.ept = NULL
      BY <1>4, <2>1
    <3> QED
      BY <1>1, <3>1, <3>6, <3>7, <3>8, <3>9, DispatcherKeeps
  <2> QED
    BY <2>2, <2>3
<1> QED
  BY <1>5, <1>6, <1>7, <1>8

\* Every step of every context keeps the invariant.
LEMMA EptInductive == EptInv /\ [Next]_vars => EptInv'
<1> SUFFICES ASSUME EptInv, [Next]_vars PROVE EptInv'
  OBVIOUS
<1>1. ASSUME NEW c \in Contexts, ContextStep(c) PROVE EptInv'
  <2>1. CASE CreateDone(c)
    BY <2>1, CallKeeps
  <2>2. CASE CreateFails(c) \/ DestroyDone(c)
    BY <2>2, UnregisterKeeps DEF CreateFails, DestroyDone
  <2> QED
    BY <1>1, <2>1, <2>2 DEF ContextStep
<1>2. CASE UNCHANGED vars
  BY <1>2 DEF vars, EptInv, RefcntExact, TypeOK, UseInv, Registered, Pinned, Out
<1> QED
  BY <1>1, <1>2, CallKeeps, CreateKeeps, ReceiveKeeps, NameServiceKeeps DEF Next, DispatcherStep

\* The invariant holds, whatever the contexts and the host do.
THEOREM EptInvariant == Spec => []EptInv
  BY EptInvInit, EptInductive, PTL DEF Spec

\* rpmsg_ept_decref lets an endpoint go exactly when the list and the dispatcher
\* are done with it, whichever of rpmsg_destroy_ept and the callback ends first.
THEOREM CountsExact == Spec => []RefcntExact
<1>1. EptInv => RefcntExact
  BY DEF EptInv
<1> QED
  BY <1>1, EptInvariant, PTL

\* No message is delivered to an endpoint that was let go, and no rpmsg_destroy_ept
\* or failing rpmsg_create_ept unregisters one twice.
THEOREM NothingUsedAfterRelease == Spec => []NoUseAfterRelease
<1>1. EptInv => NoUseAfterRelease
  <2> SUFFICES ASSUME EptInv PROVE NoUseAfterRelease
    OBVIOUS
  <2>1. \A e \in Epts : Pinned(e) => ept[e].rdev
    BY StateFacts
  <2>2. \A c \in Contexts : pc[c] # Out => ept[pc[c].ept].rdev
    BY StateFacts DEF EptInv, UseInv
  <2> QED
    BY <2>1, <2>2 DEF NoUseAfterRelease
<1> QED
  BY <1>1, EptInvariant, PTL
-----------------------------------------------------------------------------
(***************************************************************************)
(* Addresses.                                                              *)
(***************************************************************************)
Bits == 0 .. BMP_SIZE - 1

\* As long as a bit is clear, metal_bitmap_next_clear_bit finds a clear bit.
LEMMA ClearBitFound ==
  ASSUME NEW start \in Bits, bitmap \in SUBSET Bits, bitmap # Bits
  PROVE  NextClearBit(start) \in Bits \ bitmap
<1> DEFINE clear == {k \in 0 .. BMP_SIZE - 1 : (start + k) % BMP_SIZE \notin bitmap}
<1>0. BMP_SIZE \in Nat \ {0}
  BY EndpointAssumption
<1>1. PICK b \in Bits : b \notin bitmap
  OBVIOUS
<1>2. \E k \in 0 .. BMP_SIZE - 1 : (start + k) % BMP_SIZE = b
  <2>1. CASE b >= start
    <3>1. b - start \in 0 .. BMP_SIZE - 1 /\ start + (b - start) = b /\ b % BMP_SIZE = b
      BY <1>0, <2>1 DEF Bits
    <3> QED
      BY <3>1
  <2>2. CASE b < start
    <3>1. b - start + BMP_SIZE \in 0 .. BMP_SIZE - 1 /\ start + (b - start + BMP_SIZE) = b + BMP_SIZE
      BY <1>0, <2>2 DEF Bits
    <3>2. (b + BMP_SIZE) % BMP_SIZE = b
      BY <1>0 DEF Bits
    <3> QED
      BY <3>1, <3>2
  <2> QED
    BY <1>0, <2>1, <2>2 DEF Bits
<1>3. clear # {}
  BY <1>1, <1>2
<1>4. \A k \in clear : k \in 0 .. BMP_SIZE - 1 /\ (start + k) % BMP_SIZE \notin bitmap
  OBVIOUS
<1>5. NextClearBit(start) = (start + Min(clear)) % BMP_SIZE
  BY <1>3 DEF NextClearBit
<1> HIDE DEF clear
<1>6. Min(clear) \in clear
  <2>1. clear \in SUBSET Nat
    BY <1>0, <1>4
  <2> QED
    BY <1>3, <2>1, MinIsLeast
<1>7. start + Min(clear) \in Nat
  BY <1>0, <1>4, <1>6 DEF Bits
<1>8. \A x \in Nat : x % BMP_SIZE \in Bits
  BY <1>0 DEF Bits
<1> QED
  BY <1>4, <1>5, <1>6, <1>7, <1>8

\* The bits that registered endpoints stand for.
UsedBits == {ept[e].addr - RESERVED : e \in {f \in Registered : ept[f].addr >= RESERVED}}

\* The inductive invariant of the addresses.
AddrInv ==
  /\ \A e \in Registered : ept[e].addr \in 0 .. RESERVED + BMP_SIZE - 1
  /\ BitmapExact

\* rpmsg_get_address is called only while there is a free address.
AddressLeft ==
  \A c \in Contexts, e \in Epts, n \in Names \cup {NULL}, d \in Remotes \cup {RPMSG_ADDR_ANY} :
    CreateEpt(c, e, n, RPMSG_ADDR_ANY, d) => bitmap # Bits

\* The address part of rpmsg_create_ept takes a bit that was clear, or none.
LEMMA AddressTaken ==
  ASSUME TypeOK, NEW src \in Sources, NEW addr \in 0 .. RESERVED + BMP_SIZE, TakeAddress(src, addr),
         src = RPMSG_ADDR_ANY => bitmap # Bits
  PROVE  /\ addr \in 0 .. RESERVED + BMP_SIZE - 1
         /\ \/ addr >= RESERVED /\ addr - RESERVED \notin bitmap /\ bitmap' = bitmap \cup {addr - RESERVED}
            \/ addr < RESERVED /\ bitmap' = bitmap
<1>0. /\ bitmap \in SUBSET Bits /\ bitnext \in Bits
      /\ BMP_SIZE \in Nat \ {0} /\ RESERVED \in Nat
  BY EndpointAssumption DEF TypeOK, Bits
<1>1. CASE src = RPMSG_ADDR_ANY /\ GetAddress(addr)
  <2>1. NextClearBit(bitnext) \in Bits \ bitmap
    BY <1>0, <1>1, ClearBitFound
  <2>2. addr = RESERVED + NextClearBit(bitnext) /\ bitmap' = bitmap \cup {NextClearBit(bitnext)}
    BY <1>1 DEF GetAddress
  <2>3. PICK b \in Bits : b = NextClearBit(bitnext)
    BY <2>1
  <2>4. addr - RESERVED = b /\ addr >= RESERVED /\ addr \in 0 .. RESERVED + BMP_SIZE - 1
    BY <1>0, <2>2, <2>3 DEF Bits
  <2> QED
    BY <2>1, <2>2, <2>3, <2>4
<1>2. CASE src >= RESERVED /\ addr = src /\ SetAddress(src)
  BY <1>0, <1>2 DEF SetAddress, InBitmap
<1>3. CASE src \in 0 .. RESERVED - 1 /\ addr = src /\ UNCHANGED <<bitmap, bitnext>>
  BY <1>0, <1>3
<1> QED
  BY <1>1, <1>2, <1>3 DEF TakeAddress

\* A step that changes no address.
LEMMA AddrSame ==
  ASSUME AddrInv, UNCHANGED <<bitmap, endpoints>>, EptInv,
         \A f \in Registered : ept'[f].addr = ept[f].addr
  PROVE  AddrInv'
<1>1. Registered' = Registered
  BY DEF Registered
<1>2. bitmap = UsedBits
  BY DEF AddrInv, BitmapExact, UsedBits
<1>3. UsedBits' = UsedBits
  BY <1>1 DEF UsedBits
<1>4. AddressesUnique'
  BY <1>1 DEF AddrInv, BitmapExact, AddressesUnique
<1>5. \A e \in Registered' : ept'[e].addr \in 0 .. RESERVED + BMP_SIZE - 1
  BY <1>1 DEF AddrInv
<1>6. bitmap' = UsedBits'
  BY <1>2, <1>3
<1> QED
  BY <1>4, <1>5, <1>6 DEF AddrInv, BitmapExact, UsedBits

\* A new endpoint gets an address that no other has.
LEMMA AddrCreate ==
  ASSUME AddrInv, EptInv, NEW c \in Contexts, NEW e \in Epts, NEW n \in Names \cup {NULL},
         NEW s \in Sources, NEW d \in Remotes \cup {RPMSG_ADDR_ANY}, CreateEpt(c, e, n, s, d),
         AddressLeft
  PROVE  AddrInv'
<1>0. TypeOK /\ Registered \subseteq Epts /\ e \notin Registered /\ ept \in [Epts -> EptRec]
      /\ RESERVED \in Nat /\ BMP_SIZE \in Nat
  BY StateFacts, CreateKeeps, EndpointAssumption
<1>1. PICK addr \in 0 .. RESERVED + BMP_SIZE :
        /\ TakeAddress(s, addr)
        /\ ept' = [ept EXCEPT ![e] = [name |-> n, addr |-> addr, dest |-> d, refcnt |-> 1, rdev |-> TRUE]]
  BY DEF CreateEpt
<1>2. ept'[e].addr = addr /\ \A f \in Registered : ept'[f].addr = ept[f].addr /\ ept[f].addr \in Int
  BY <1>0, <1>1 DEF EptRec
<1>3. Registered' = Registered \cup {e}
  <2>1. endpoints \in Seq(Epts) /\ Distinct(endpoints) /\ endpoints' = Append(endpoints, e)
    BY DEF EptInv, RefcntExact, TypeOK, UseInv, CreateEpt
  <2> QED
    BY <1>0, <2>1, AppendFacts DEF Registered
<1>4. /\ addr \in 0 .. RESERVED + BMP_SIZE - 1
      /\ \/ addr >= RESERVED /\ addr - RESERVED \notin bitmap /\ bitmap' = bitmap \cup {addr - RESERVED}
         \/ addr < RESERVED /\ bitmap' = bitmap
  <2>1. s = RPMSG_ADDR_ANY => bitmap # Bits
    BY DEF AddressLeft
  <2> QED
    BY <1>0, <1>1, <2>1, AddressTaken
<1>5. bitmap = UsedBits
  BY DEF AddrInv, BitmapExact, UsedBits
<1>6. \A f \in Registered' : ept'[f].addr \in 0 .. RESERVED + BMP_SIZE - 1
  BY <1>2, <1>3, <1>4 DEF AddrInv
<1>7. AddressesUnique'
  <2>1. ASSUME NEW f \in Registered, ept[f].addr = addr PROVE addr < RESERVED
    <3>1. CASE addr >= RESERVED
      <4>1. addr - RESERVED \in UsedBits
        BY <2>1, <3>1 DEF UsedBits
      <4> QED
        BY <1>0, <1>4, <1>5, <3>1, <4>1
    <3> QED
      BY <1>0, <3>1
  <2>2. ASSUME NEW f \in Registered', NEW g \in Registered', f # g, ept'[f].addr = ept'[g].addr
        PROVE  ept'[f].addr < RESERVED
    <3>1. CASE f = e
      <4>1. g \in Registered /\ ept[g].addr = addr
        BY <1>2, <1>3, <2>2, <3>1
      <4> QED
        BY <1>2, <2>1, <3>1, <4>1
    <3>2. CASE g = e
      <4>1. f \in Registered /\ ept[f].addr = addr
        BY <1>2, <1>3, <2>2, <3>2
      <4> QED
        BY <1>2, <2>1, <4>1
    <3>3. CASE f # e /\ g # e
      BY <1>2, <1>3, <2>2, <3>3 DEF AddrInv, BitmapExact, AddressesUnique
    <3> QED
      BY <3>1, <3>2, <3>3
  <2> QED
    BY <2>2 DEF AddressesUnique
<1>8. bitmap' = UsedBits'
  <2>1. UsedBits' = {ept'[f].addr - RESERVED : f \in {g \in Registered' : ept'[g].addr >= RESERVED}}
    BY DEF UsedBits
  <2>2. CASE addr >= RESERVED
    <3>1. UsedBits' = UsedBits \cup {addr - RESERVED}
      BY <1>0, <1>2, <1>3, <2>1, <2>2 DEF UsedBits
    <3>2. bitmap' = bitmap \cup {addr - RESERVED}
      BY <1>0, <1>4, <2>2
    <3> QED
      BY <1>5, <3>1, <3>2
  <2>3. CASE ~(addr >= RESERVED)
    <3>1. UsedBits' = UsedBits
      BY <1>0, <1>2, <1>3, <2>1, <2>3 DEF UsedBits
    <3>2. bitmap' = bitmap
      BY <1>0, <1>4, <2>3
    <3> QED
      BY <1>5, <3>1, <3>2
  <2> QED
    BY <2>2, <2>3
<1> QED
  BY <1>6, <1>7, <1>8 DEF AddrInv, BitmapExact, UsedBits

\* An endpoint that is unregistered gives its own bit back.
LEMMA AddrUnregister ==
  ASSUME AddrInv, EptInv, NEW c \in Contexts, pc[c].at # "out", Unregister(pc[c].ept)
  PROVE  AddrInv'
<1>0. Registered \subseteq Epts /\ ept \in [Epts -> EptRec] /\ RESERVED \in Nat /\ BMP_SIZE \in Nat
  BY StateFacts, EndpointAssumption
<1>1. PICK e \in Registered : e = pc[c].ept
  BY CallFacts
<1>2. Registered' = Registered \ {e}
  <2>1. /\ endpoints \in Seq(Epts) /\ Distinct(endpoints) /\ endpoints' = RemoveFirst(endpoints, e)
        /\ e \in ToSet(endpoints)
    BY <1>1 DEF EptInv, RefcntExact, TypeOK, UseInv, Unregister, Registered
  <2> QED
    BY <2>1, RemoveFirstFacts DEF Registered
<1>3. \A f \in Registered' : ept'[f].addr = ept[f].addr /\ ept[f].addr \in Int
  BY <1>0, <1>1, <1>2 DEF Unregister, EptRec
<1>4. ept[e].addr \in 0 .. RESERVED + BMP_SIZE - 1
  BY DEF AddrInv
<1>5. bitmap' = IF ept[e].addr >= RESERVED THEN bitmap \ {ept[e].addr - RESERVED} ELSE bitmap
  <2>1. InBitmap(ept[e].addr) <=> ept[e].addr >= RESERVED
    BY <1>0, <1>4 DEF InBitmap
  <2> QED
    BY <1>1, <2>1 DEF Unregister, ReleaseAddress
<1>6. bitmap = UsedBits
  BY DEF AddrInv, BitmapExact, UsedBits
<1>7. AddressesUnique'
  BY <1>2, <1>3 DEF AddrInv, BitmapExact, AddressesUnique
<1>8. \A f \in Registered' : ept'[f].addr \in 0 .. RESERVED + BMP_SIZE - 1
  BY <1>2, <1>3 DEF AddrInv
<1>9. bitmap' = UsedBits'
  <2>1. UsedBits' = {ept[f].addr - RESERVED : f \in {g \in Registered \ {e} : ept[g].addr >= RESERVED}}
    BY <1>2, <1>3 DEF UsedBits
  <2>2. CASE ept[e].addr >= RESERVED
    <3>1. \A f \in Registered \ {e} : ept[f].addr >= RESERVED => ept[f].addr # ept[e].addr
      BY <1>0, <1>4, <2>2 DEF AddrInv, BitmapExact, AddressesUnique
    <3>2. \A f \in Registered \ {e} :
            ept[f].addr >= RESERVED => ept[f].addr - RESERVED # ept[e].addr - RESERVED
      BY <1>0, <1>2, <1>3, <1>4, <3>1
    <3>3. bitmap' = UsedBits \ {ept[e].addr - RESERVED}
      BY <1>5, <1>6, <2>2
    <3> QED
      BY <2>1, <3>2, <3>3 DEF UsedBits
  <2>3. CASE ~(ept[e].addr >= RESERVED)
    BY <1>5, <1>6, <2>1, <2>3 DEF UsedBits
  <2> QED
    BY <2>2, <2>3
<1> QED
  BY <1>7, <1>8, <1>9 DEF AddrInv, BitmapExact, UsedBits

\* Every step keeps the addresses unique and the bitmap exact.
LEMMA AddrInductive == AddrInv /\ EptInv /\ [Next]_vars /\ [AddressLeft]_vars => AddrInv'
<1> SUFFICES ASSUME AddrInv, EptInv, [Next]_vars, [AddressLeft]_vars PROVE AddrInv'
  OBVIOUS
<1>0. /\ TypeOK /\ ept \in [Epts -> EptRec] /\ Registered \subseteq Epts /\ UseInv
      /\ Remotes \subseteq Int /\ RPMSG_ADDR_ANY \in Int /\ Releasable \subseteq Epts
  BY StateFacts, EndpointAssumption DEF EptInv, RPMSG_ADDR_ANY
<1>1. ASSUME NEW c \in Contexts, NEW e \in Epts, NEW n \in Names \cup {NULL}, NEW s \in Sources,
             NEW d \in Remotes \cup {RPMSG_ADDR_ANY}, CreateEpt(c, e, n, s, d)
      PROVE  AddrInv'
  <2>1. AddressLeft
    <3>1. endpoints' # endpoints
      <4>1. Registered' = Registered \cup {e} /\ e \notin Registered
        <5>1. /\ endpoints \in Seq(Epts) /\ Distinct(endpoints) /\ endpoints' = Append(endpoints, e)
              /\ e \notin Registered
          BY <1>1, CreateKeeps DEF EptInv, RefcntExact, TypeOK, UseInv, CreateEpt
        <5> QED
          BY <5>1, AppendFacts DEF Registered
      <4> QED
        BY <4>1 DEF Registered
    <3> QED
      BY <3>1 DEF vars
  <2> QED
    BY <1>1, <2>1, AddrCreate
<1>2. ASSUME NEW c \in Contexts, CreateFails(c) \/ DestroyDone(c) PROVE AddrInv'
  BY <1>2, AddrUnregister DEF CreateFails, DestroyDone
<1>3. ASSUME NEW c \in Contexts, CreateDone(c) \/ \E e \in Epts : DestroyEpt(c, e) PROVE AddrInv'
  BY <1>3, AddrSame DEF CreateDone, DestroyEpt
<1>4. ASSUME UNCHANGED <<bitmap, endpoints>>, NEW e \in Epts, NEW r, r.addr = ept[e].addr,
             ept' = [ept EXCEPT ![e] = r]
      PROVE  AddrInv'
  <2>1. \A f \in Registered : ept'[f].addr = ept[f].addr
    BY <1>0, <1>4
  <2> QED
    BY <1>4, <2>1, AddrSame
<1>5. ASSUME NEW a, NEW d \in Remotes, RxLookup(a, d) PROVE AddrInv'
  <2>1. PICK e \in GetEndpoint(NULL, a, RPMSG_ADDR_ANY) : ept' = [ept EXCEPT ![e] = Incref(ept[e])]
    BY <1>5 DEF RxLookup
  <2>2. e \in Epts
    BY <1>0, FoundRegistered
  <2>3. PICK r : r = Incref(ept[e]) /\ r.addr = ept[e].addr
    BY <1>0, <2>2, CountFacts
  <2> QED
    BY <1>4, <1>5, <2>1, <2>2, <2>3 DEF RxLookup
<1>6. CASE RxDeliver
  <2>1. PICK e \in Epts : e = rx.ept
    BY <1>0, <1>6 DEF UseInv, RxDeliver
  <2>2. PICK r : /\ r = [ept[e] EXCEPT !.dest = IF ept[e].dest = RPMSG_ADDR_ANY THEN rx.src ELSE ept[e].dest]
                 /\ r.addr = ept[e].addr
    <3>1. rx.src \in Int /\ ept[e] \in EptRec /\ ept[e].dest \in Int
      BY <1>0, <2>1 DEF TypeOK, EptRec
    <3>2. PICK d \in Int : d = IF ept[e].dest = RPMSG_ADDR_ANY THEN rx.src ELSE ept[e].dest
      BY <3>1
    <3>3. PICK x \in EptRec : x = ept[e]
      BY <3>1
    <3>4. [x EXCEPT !.dest = d].addr = x.addr
      BY DestFacts
    <3> QED
      BY <3>2, <3>3, <3>4, Zenon
  <2>3. ept' = [ept EXCEPT ![e] = r]
    BY <1>0, <1>6, <2>1, <2>2 DEF RxDeliver
  <2>4. UNCHANGED <<bitmap, endpoints>>
    BY <1>6 DEF RxDeliver
  <2> QED
    BY <1>4, <2>2, <2>3, <2>4
<1>7. CASE RxReturn
  <2>1. PICK e \in Epts : e = rx.ept
    BY <1>0, <1>7 DEF UseInv, RxReturn
  <2>2. PICK r : r = Decref(ept[e]) /\ r.addr = ept[e].addr
    BY <1>0, <2>1, CountFacts
  <2>3. ept' = [ept EXCEPT ![e] = r]
    BY <1>7, <2>1, <2>2 DEF RxReturn
  <2> QED
    BY <1>4, <1>7, <2>2, <2>3 DEF RxReturn
<1>8. ASSUME NEW n \in Names, NEW d \in Remotes, NsCreate(n, d) PROVE AddrInv'
  <2>1. ASSUME NEW e \in GetEndpoint(n, RPMSG_ADDR_ANY, d), ept' = [ept EXCEPT ![e].dest = d]
        PROVE  AddrInv'
    <3>1. e \in Epts
      BY <1>0, FoundRegistered
    <3>2. PICK r : r = [ept[e] EXCEPT !.dest = d] /\ r.addr = ept[e].addr
      BY <1>0, <3>1, DestFacts
    <3>3. ept' = [ept EXCEPT ![e] = r]
      BY <1>0, <2>1, <3>1, <3>2
    <3> QED
      BY <1>4, <1>8, <3>1, <3>2, <3>3 DEF NsCreate
  <2>2. CASE UNCHANGED ept
    BY <1>8, <2>2, AddrSame DEF NsCreate
  <2> QED
    BY <1>8, <2>1, <2>2 DEF NsCreate
<1>9. ASSUME NEW n \in Names, NEW d \in Remotes, NsDestroy(n, d) PROVE AddrInv'
  <2>1. ASSUME NEW e \in GetEndpoint(n, RPMSG_ADDR_ANY, d),
               ept' = [ept EXCEPT ![e] = [IF e \in Releasable THEN Incref(ept[e]) ELSE ept[e]
                                            EXCEPT !.dest = RPMSG_ADDR_ANY]]
        PROVE  AddrInv'
    <3>1. e \in Epts /\ ept[e] \in EptRec
      BY <1>0, FoundRegistered
    <3>2. PICK q \in EptRec : q = (IF e \in Releasable THEN Incref(ept[e]) ELSE ept[e]) /\ q.addr = ept[e].addr
      BY <3>1, CountFacts
    <3>3. PICK r : r = [q EXCEPT !.dest = RPMSG_ADDR_ANY] /\ r.addr = ept[e].addr
      <4>1. [q EXCEPT !.dest = RPMSG_ADDR_ANY].addr = q.addr
        BY <1>0, DestFacts
      <4> QED
        BY <3>2, <4>1
    <3>4. ept' = [ept EXCEPT ![e] = r]
      BY <2>1, <3>2, <3>3
    <3> QED
      BY <1>4, <1>9, <3>1, <3>3, <3>4 DEF NsDestroy
  <2>2. CASE UNCHANGED ept
    BY <1>9, <2>2, AddrSame DEF NsDestroy
  <2> QED
    BY <1>9, <2>1, <2>2 DEF NsDestroy
<1>10. CASE NsUnbindReturn
  <2>1. CASE rx.ept \in Releasable
    <3>1. PICK e \in Epts : e = rx.ept
      BY <1>0, <2>1
    <3>2. PICK r : r = Decref(ept[e]) /\ r.addr = ept[e].addr
      BY <1>0, <3>1, CountFacts
    <3>3. ept' = [ept EXCEPT ![e] = r]
      BY <1>10, <2>1, <3>1, <3>2 DEF NsUnbindReturn
    <3> QED
      BY <1>4, <1>10, <3>2, <3>3 DEF NsUnbindReturn
  <2>2. CASE rx.ept \notin Releasable
    BY <1>10, <2>2, AddrSame DEF NsUnbindReturn
  <2> QED
    BY <2>1, <2>2
<1>11. CASE NsBindReturn \/ UNCHANGED vars
  BY <1>11, AddrSame DEF NsBindReturn, vars
<1> QED
  BY <1>1, <1>2, <1>3, <1>5, <1>6, <1>7, <1>8, <1>9, <1>10, <1>11
     DEF Next, ContextStep, DispatcherStep

\* The invariant of the addresses holds in a new device.
LEMMA AddrInvInit == Init => AddrInv
  BY DEF Init, AddrInv, BitmapExact, AddressesUnique, Registered, ToSet

\* As long as rpmsg_get_address is not called on a full bitmap, no two endpoints
\* get the same address and none leaks: the bits set are those of the endpoints
\* on the list.  (On a full bitmap it gives out an address that is in use.)
THEOREM BitmapIsExact == Spec /\ [][AddressLeft]_vars => []BitmapExact
<1>1. AddrInv => BitmapExact
  BY DEF AddrInv
<1> QED
  BY <1>1, AddrInvInit, AddrInductive, EptInvariant, PTL DEF Spec

\* With no more endpoints than addresses there is always an address left.
LEMMA FewLeaveAddress ==
  ASSUME IsFiniteSet(Epts), Cardinality(Epts) <= BMP_SIZE, AddrInv, EptInv
  PROVE  AddressLeft
<1> SUFFICES ASSUME NEW c \in Contexts, NEW e \in Epts, NEW n, NEW d,
                    CreateEpt(c, e, n, RPMSG_ADDR_ANY, d), bitmap = Bits
             PROVE  FALSE
  BY DEF AddressLeft
<1>0. /\ BMP_SIZE \in Nat \ {0} /\ RESERVED \in Nat /\ Registered \subseteq Epts
      /\ e \notin Registered
  BY StateFacts, EndpointAssumption DEF CreateEpt
<1> DEFINE T == Epts \ {e}
           owner == [b \in Bits |-> CHOOSE f \in Registered : ept[f].addr - RESERVED = b]
<1>1. \A b \in Bits : \E f \in Registered : ept[f].addr - RESERVED = b
  BY DEF AddrInv, BitmapExact
<1>2. \A b \in Bits : owner[b] \in Registered /\ ept[owner[b]].addr - RESERVED = b
  BY <1>1
<1>3. owner \in [Bits -> T]
  BY <1>0, <1>2
<1> HIDE DEF owner
<1>4. owner \in Injection(Bits, T)
  <2>1. \A a, b \in Bits : owner[a] = owner[b] => a = b
    BY <1>2
  <2> QED
    BY <1>3, <2>1 DEF Injection, IsInjective
<1>5. IsFiniteSet(T) /\ Cardinality(T) = Cardinality(Epts) - 1 /\ Cardinality(Epts) \in Nat
  BY FS_RemoveElement, FS_CardinalityType
<1> HIDE DEF T
<1>6. Cardinality(Bits) <= Cardinality(T)
  BY <1>4, <1>5, FS_Injection
<1>7. Cardinality(Bits) = BMP_SIZE
  <2>1. 0 \in Int /\ BMP_SIZE - 1 \in Int /\ ~(0 > BMP_SIZE - 1)
    BY <1>0
  <2>2. Cardinality(0 .. BMP_SIZE - 1) = (BMP_SIZE - 1) - 0 + 1
    BY <2>1, FS_Interval
  <2> QED
    BY <1>0, <2>2 DEF Bits
<1> QED
  BY <1>0, <1>5, <1>6, <1>7

\* An application with at most RPMSG_ADDR_BMP_SIZE endpoint structures, as in this
\* firmware, never sees rpmsg_get_address fail: its addresses are always unique.
THEOREM FewEndpointsBitmapExact ==
  ASSUME IsFiniteSet(Epts), Cardinality(Epts) <= BMP_SIZE
  PROVE  Spec => []BitmapExact
<1>1. AddrInv /\ EptInv /\ [Next]_vars => AddrInv'
  BY AddrInductive, FewLeaveAddress
<1>2. AddrInv => BitmapExact
  BY DEF AddrInv
<1> QED
  BY <1>1, <1>2, AddrInvInit, EptInvariant, PTL DEF Spec
=============================================================================
