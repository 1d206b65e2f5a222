--------------------------- MODULE RpmsgEndpoints ---------------------------
(***************************************************************************)
(* The endpoints of an rpmsg device: rpmsg.c, and the parts of             *)
(* rpmsg_virtio_rx_callback and rpmsg_virtio_ns_callback that look         *)
(* endpoints up and keep them alive.  rpmsg_create_ept and                 *)
(* rpmsg_destroy_ept send a name service message outside rdev->lock, so    *)
(* each is two steps, and so is the delivery of a message.  A critical     *)
(* section of rdev->lock is one step.                                      *)
(*                                                                         *)
(* Left to the application, as the API leaves it: a struct rpmsg_endpoint  *)
(* is created again only after it was let go, and destroyed once, after    *)
(* its creation succeeded.  The endpoint of the name service itself is     *)
(* registered for good and not shown.                                      *)
(***************************************************************************)
EXTENDS Integers, Sequences, FiniteSets, SequencesExt

CONSTANTS Epts,         \* endpoint structures of the application
          Releasable,   \* those with a release_cb
          Names,        \* names of services
          Remotes,      \* addresses of the host's endpoints
          Sources,      \* addresses the application asks for
          Apps, Rx,     \* application contexts, and the virtqueue dispatcher
          BMP_SIZE,     \* RPMSG_ADDR_BMP_SIZE
          RESERVED,     \* RPMSG_RESERVED_ADDRESSES
          support_ns    \* VIRTIO_RPMSG_F_NS is negotiated

RPMSG_ADDR_ANY == -1
NULL     == "null"
Contexts == Apps \cup {Rx}

ASSUME EndpointAssumption ==
  /\ Releasable \subseteq Epts /\ NULL \notin Epts
  /\ Rx \notin Apps
  /\ BMP_SIZE \in Nat \ {0} /\ RESERVED \in Nat
  /\ Remotes \subseteq Nat /\ Sources \subseteq Int
  /\ support_ns \in BOOLEAN

VARIABLES
  bitmap, bitnext,  \* rdev->bitmap, rdev->bitnext
  endpoints,        \* rdev->endpoints, in list order
  ept,              \* name, addr, dest, refcnt and rdev of each structure
  usable,           \* endpoints created and not yet destroyed
  pc,               \* per context: the call it is in and on which endpoint
  rx                \* the message being handled and the endpoint looked up

vars == <<bitmap, bitnext, endpoints, ept, usable, pc, rx>>

Idle == [at |-> "idle", ept |-> NULL, src |-> RPMSG_ADDR_ANY]
Out  == [at |-> "out", ept |-> NULL]

Init ==
  /\ bitmap = {}
  /\ bitnext = 0
  /\ endpoints = <<>>
  /\ ept = [e \in Epts |-> [name |-> NULL, addr |-> RPMSG_ADDR_ANY,
                            dest |-> RPMSG_ADDR_ANY, refcnt |-> 0, rdev |-> FALSE]]
  /\ usable = {}
  /\ pc = [c \in Contexts |-> Out]
  /\ rx = Idle

Registered == ToSet(endpoints)
Return(c)  == pc' = [pc EXCEPT ![c] = Out]

\* The dispatcher calls the library only from within a callback.
CanCall(c) == pc[c] = Out /\ (c = Rx => rx.at \in {"callback", "bind", "unbind"})
-----------------------------------------------------------------------------
(***************************************************************************)
(* Addresses.                                                              *)
(***************************************************************************)
\* metal_bitmap_next_clear_bit: the first clear bit from start on, cyclically;
\* with none clear the search ends where it began.
NextClearBit(start) ==
  LET clear == {k \in 0 .. BMP_SIZE - 1 : (start + k) % BMP_SIZE \notin bitmap}
  IN IF clear = {} THEN start % BMP_SIZE ELSE (start + Min(clear)) % BMP_SIZE

\* Mutant: the place where the next search starts does not wrap.
GetAddressNoWrap(addr) ==
  /\ addr = RESERVED + NextClearBit(bitnext)
  /\ bitmap' = bitmap \cup {NextClearBit(bitnext)}
  /\ bitnext' = addr + 1 - RESERVED

\* rpmsg_get_address: no result is RPMSG_ADDR_ANY.
GetAddress(addr) ==
  /\ addr = RESERVED + NextClearBit(bitnext)
  /\ bitmap' = bitmap \cup {NextClearBit(bitnext)}
  /\ bitnext' = (addr + 1) % BMP_SIZE

InBitmap(addr) == addr - RESERVED \in 0 .. BMP_SIZE - 1

\* Mutant: the bitmap is not consulted.
SetAddressUnchecked(addr) ==
  /\ InBitmap(addr)
  /\ bitmap' = bitmap \cup {addr - RESERVED}
  /\ UNCHANGED bitnext

\* rpmsg_is_address_set, then rpmsg_set_address.
SetAddress(addr) ==
  /\ InBitmap(addr)                          \* else RPMSG_ERR_PARAM
  /\ addr - RESERVED \notin bitmap           \* else RPMSG_ERR_ADDR
  /\ bitmap' = bitmap \cup {addr - RESERVED}
  /\ UNCHANGED bitnext

\* Mutant: the first bit of the map is taken for a reserved address.
ReleaseAddressOffByOne(addr) ==
  bitmap' = IF InBitmap(addr) /\ addr # RESERVED
            THEN bitmap \ {addr - RESERVED} ELSE bitmap

ReleaseAddress(addr) ==
  bitmap' = IF InBitmap(addr) THEN bitmap \ {addr - RESERVED} ELSE bitmap

\* The address part of rpmsg_create_ept for requested address src.
TakeAddress(src, addr) ==
  \/ src = RPMSG_ADDR_ANY /\ GetAddress(addr)
  \/ src >= RESERVED /\ addr = src /\ SetAddress(src)
  \/ src \in 0 .. RESERVED - 1 /\ addr = src /\ UNCHANGED <<bitmap, bitnext>>
-----------------------------------------------------------------------------
(***************************************************************************)
(* Look-up and reference counts.                                           *)
(***************************************************************************)
\* The test of rpmsg_get_endpoint on one endpoint.
Matches(e, name, addr, dest) ==
  \/ addr # RPMSG_ADDR_ANY /\ ept[e].addr = addr
  \/ /\ name # NULL /\ ept[e].name = name
     /\ \/ dest # RPMSG_ADDR_ANY /\ ept[e].dest = dest
        \/ addr = RPMSG_ADDR_ANY /\ ept[e].dest = RPMSG_ADDR_ANY

\* rpmsg_get_endpoint: the first endpoint of the list that matches, or none.
GetEndpoint(name, addr, dest) ==
  LET found == {i \in DOMAIN endpoints : Matches(endpoints[i], name, addr, dest)}
  IN IF found = {} THEN {} ELSE {endpoints[Min(found)]}

Incref(r) == [r EXCEPT !.refcnt = @ + 1]

\* rpmsg_ept_decref: the last reference calls release_cb or detaches the
\* endpoint from the device.
Decref(r) == [r EXCEPT !.refcnt = @ - 1, !.rdev = r.refcnt # 1]

\* rpmsg_unregister_endpoint.
Unregister(e) ==
  /\ ReleaseAddress(ept[e].addr)
  /\ endpoints' = RemoveFirst(endpoints, e)
  /\ ept' = [ept EXCEPT ![e] = Decref(@)]
-----------------------------------------------------------------------------
(***************************************************************************)
(* rpmsg_create_ept and rpmsg_destroy_ept.                                 *)
(***************************************************************************)
\* Under the lock: an address, then rpmsg_register_endpoint.
CreateEpt(c, e, name, src, dest) ==
  /\ CanCall(c)
  /\ ~ept[e].rdev /\ rx.ept # e /\ \A d \in Contexts : pc[d].ept # e
  /\ \E addr \in 0 .. RESERVED + BMP_SIZE :
       /\ TakeAddress(src, addr)
       /\ ept' = [ept EXCEPT ![e] = [name |-> name, addr |-> addr, dest |-> dest,
                                     refcnt |-> 1, rdev |-> TRUE]]
  /\ endpoints' = Append(endpoints, e)
  /\ pc' = [pc EXCEPT ![c] = [at |-> "announce", ept |-> e]]
  /\ UNCHANGED <<usable, rx>>

NeedsAnnouncement(e) ==
  ept[e].name # NULL /\ support_ns /\ ept[e].dest = RPMSG_ADDR_ANY

\* The announcement was sent or there is none to send: RPMSG_SUCCESS.
CreateDone(c) ==
  /\ pc[c].at = "announce"
  /\ usable' = usable \cup {pc[c].ept}
  /\ Return(c)
  /\ UNCHANGED <<bitmap, bitnext, endpoints, ept, rx>>

\* rpmsg_send_ns_message found no buffer: the endpoint is taken back.
CreateFails(c) ==
  /\ pc[c].at = "announce"
  /\ NeedsAnnouncement(pc[c].ept)
  /\ Unregister(pc[c].ept)
  /\ Return(c)
  /\ UNCHANGED <<bitnext, usable, rx>>

\* rpmsg_destroy_ept up to the name service message, which may fail unseen.
DestroyEpt(c, e) ==
  /\ CanCall(c)
  /\ e \in usable
  /\ usable' = usable \ {e}
  /\ pc' = [pc EXCEPT ![c] = [at |-> "unregister", ept |-> e]]
  /\ UNCHANGED <<bitmap, bitnext, endpoints, ept, rx>>

DestroyDone(c) ==
  /\ pc[c].at = "unregister"
  /\ Unregister(pc[c].ept)
  /\ Return(c)
  /\ UNCHANGED <<bitnext, usable, rx>>
-----------------------------------------------------------------------------
(***************************************************************************)
(* The dispatcher: messages and name service messages.                     *)
(***************************************************************************)
\* Mutant: the dispatcher takes no reference.
RxLookupNoRef(dst, src) ==
  /\ rx.at = "idle"
  /\ \E e \in GetEndpoint(NULL, dst, RPMSG_ADDR_ANY) :
       rx' = [at |-> "deliver", ept |-> e, src |-> src]
  /\ UNCHANGED <<bitmap, bitnext, endpoints, ept, usable, pc>>

\* A message from src for local address dst: the look-up under the lock.
\* Nothing happens when no endpoint has the address.
RxLookup(dst, src) ==
  /\ rx.at = "idle"
  /\ \E e \in GetEndpoint(NULL, dst, RPMSG_ADDR_ANY) :
       /\ ept' = [ept EXCEPT ![e] = Incref(@)]
       /\ rx' = [at |-> "deliver", ept |-> e, src |-> src]
  /\ UNCHANGED <<bitmap, bitnext, endpoints, usable, pc>>

\* Outside the lock: the first message tells the remote address.
RxDeliver ==
  /\ rx.at = "deliver"
  /\ ept' = [ept EXCEPT ![rx.ept].dest = IF @ = RPMSG_ADDR_ANY THEN rx.src ELSE @]
  /\ rx' = [rx EXCEPT !.at = "callback"]
  /\ UNCHANGED <<bitmap, bitnext, endpoints, usable, pc>>

\* Mutant: the reference of the dispatcher is not given back.
RxReturnKeepsRef ==
  /\ rx.at = "callback" /\ pc[Rx] = Out
  /\ rx' = Idle
  /\ UNCHANGED <<bitmap, bitnext, endpoints, ept, usable, pc>>

\* The endpoint callback has returned.
RxReturn ==
  /\ rx.at = "callback" /\ pc[Rx] = Out
  /\ ept' = [ept EXCEPT ![rx.ept] = Decref(@)]
  /\ rx' = Idle
  /\ UNCHANGED <<bitmap, bitnext, endpoints, usable, pc>>

\* RPMSG_NS_CREATE: bind an endpoint of that name, or call rdev->ns_bind_cb.
NsCreate(name, dest) ==
  LET found == GetEndpoint(name, RPMSG_ADDR_ANY, dest) IN
  /\ rx.at = "idle"
  /\ \/ \E e \in found : /\ ept' = [ept EXCEPT ![e].dest = dest]
                         /\ UNCHANGED rx
     \/ found = {} /\ rx' = [Idle EXCEPT !.at = "bind"] /\ UNCHANGED ept
  /\ UNCHANGED <<bitmap, bitnext, endpoints, usable, pc>>

NsBindReturn ==
  /\ rx.at = "bind" /\ pc[Rx] = Out
  /\ rx' = Idle
  /\ UNCHANGED <<bitmap, bitnext, endpoints, ept, usable, pc>>

\* RPMSG_NS_DESTROY: unbind the endpoint and call the ns_unbind_cb of the
\* endpoint and of the device.  Only an endpoint with a release_cb is kept
\* alive meanwhile.
NsDestroy(name, dest) ==
  LET found == GetEndpoint(name, RPMSG_ADDR_ANY, dest) IN
  /\ rx.at = "idle"
  /\ \/ \E e \in found :
          /\ ept' = [ept EXCEPT ![e] =
                       [IF e \in Releasable THEN Incref(@) ELSE @
                          EXCEPT !.dest = RPMSG_ADDR_ANY]]
          /\ rx' = [at |-> "unbind", ept |-> e, src |-> dest]
     \/ found = {} /\ rx' = [Idle EXCEPT !.at = "unbind"] /\ UNCHANGED ept
  /\ UNCHANGED <<bitmap, bitnext, endpoints, usable, pc>>

NsUnbindReturn ==
  /\ rx.at = "unbind" /\ pc[Rx] = Out
  /\ ept' = IF rx.ept \in Releasable
            THEN [ept EXCEPT ![rx.ept] = Decref(@)] ELSE ept
  /\ rx' = Idle
  /\ UNCHANGED <<bitmap, bitnext, endpoints, usable, pc>>
-----------------------------------------------------------------------------
ContextStep(c) == CreateDone(c) \/ CreateFails(c) \/ DestroyDone(c)

DispatcherStep == RxDeliver \/ RxReturn \/ NsBindReturn \/ NsUnbindReturn

Next ==
  \/ \E c \in Contexts :
       \/ ContextStep(c)
       \/ \E e \in Epts : DestroyEpt(c, e)
       \/ \E e \in Epts, n \in Names \cup {NULL}, s \in Sources,
             d \in Remotes \cup {RPMSG_ADDR_ANY} : CreateEpt(c, e, n, s, d)
  \/ \E a \in 0 .. RESERVED + BMP_SIZE - 1, d \in Remotes : RxLookup(a, d)
  \/ \E n \in Names, d \in Remotes : NsCreate(n, d) \/ NsDestroy(n, d)
  \/ DispatcherStep

Spec == Init /\ [][Next]_vars

\* A call once begun goes on, and callbacks return even if they call the
\* library again and again.
FairSpec ==
  /\ Spec
  /\ \A c \in Contexts : WF_vars(ContextStep(c))
  /\ WF_vars(RxDeliver)
  /\ SF_vars(RxReturn) /\ SF_vars(NsBindReturn) /\ SF_vars(NsUnbindReturn)
-----------------------------------------------------------------------------
(***************************************************************************)
(* Properties.                                                             *)
(***************************************************************************)
\* The reference counts, the address map and the dispatcher keep their types.
TypeOK ==
  /\ bitmap \in SUBSET (0 .. BMP_SIZE - 1)
  /\ bitnext \in 0 .. BMP_SIZE - 1
  /\ endpoints \in Seq(Epts)
  /\ ept \in [Epts -> [name : Names \cup {NULL}, addr : Int, dest : Int,
                       refcnt : Nat, rdev : BOOLEAN]]
  /\ usable \in SUBSET Epts
  /\ pc \in [Contexts -> [at : {"out", "announce", "unregister"}, ept : Epts \cup {NULL}]]
  /\ rx \in [at : {"idle", "deliver", "callback", "bind", "unbind"},
             ept : Epts \cup {NULL}, src : Remotes \cup {RPMSG_ADDR_ANY}]

\* The dispatcher has taken a reference on e.
Pinned(e) ==
  rx.ept = e /\ (rx.at \in {"deliver", "callback"} \/ e \in Releasable)

\* The count of an endpoint is one for the device's list and one for the
\* dispatcher: it is let go exactly when both are done with it, in whichever
\* order rpmsg_destroy_ept and the callback end, and never falls below zero.
RefcntExact ==
  TypeOK /\ \A e \in Epts :
    /\ ept[e].refcnt = (IF e \in Registered THEN 1 ELSE 0)
                       + (IF Pinned(e) THEN 1 ELSE 0)
    /\ ept[e].rdev <=> ept[e].refcnt > 0

\* The dispatcher never delivers a message to an endpoint that was let go, and
\* no context is about to unregister one.
NoUseAfterRelease ==
  /\ \A e \in Epts : Pinned(e) => ept[e].rdev
  /\ \A c \in Contexts : pc[c] # Out => ept[pc[c].ept].rdev

\* No two registered endpoints share an address that rpmsg_get_address or
\* rpmsg_set_address gave out ("A unique address", rpmsg.c:25).
AddressesUnique ==
  \A e, f \in Registered : e # f /\ ept[e].addr = ept[f].addr => ept[e].addr < RESERVED

\* The bits set are those of registered endpoints: no address leaks on the
\* error path of rpmsg_create_ept or when an endpoint is let go late, and none
\* stands for two endpoints.
BitmapExact ==
  /\ AddressesUnique
  /\ bitmap = {ept[e].addr - RESERVED : e \in {f \in Registered : ept[f].addr >= RESERVED}}

\* An endpoint that is being destroyed is let go in the end: release_cb runs
\* although a callback or an unbind may be using it.
DestroyedIsReleased ==
  \A e \in Epts :
    (\E c \in Contexts : pc[c] = [at |-> "unregister", ept |-> e]) ~> ~ept[e].rdev

\* After the host's endpoint dest of service name is gone, no endpoint of
\* that name stays bound to it (ns_unbind_cb is "called when remote ept is
\* destroyed", include/openamp/rpmsg.h).
UnboundOnDestroy ==
  [][\A n \in Names, d \in Remotes :
       NsDestroy(n, d) =>
         \A e \in Registered : ept[e].name = n => ept'[e].dest # d]_vars
=============================================================================
