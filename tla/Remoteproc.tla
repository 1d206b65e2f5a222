----------------------------- MODULE Remoteproc -----------------------------
(***************************************************************************)
(* The life cycle of a remote processor, remoteproc.c, with the parser of  *)
(* its resource table, rsc_table_parser.c: states, firmware loading, the   *)
(* notification ids that the parser hands out to virtio devices and their  *)
(* vrings, and the devices made from the table.                            *)
(*                                                                         *)
(* A call is one action.  Most hold rproc->lock from their first step to   *)
(* their last; remoteproc_set_rsc_table, remoteproc_remove_virtio and      *)
(* remoteproc_get_notification take no lock, so for these a client is      *)
(* meant that does not run them against another call.  The operations of   *)
(* the processor driver (ops->config, ->start, ...), the image store and   *)
(* the loader are outside this code and succeed or fail.                   *)
(***************************************************************************)
EXTENDS Integers, Sequences, SequencesExt, FiniteSetsExt

CONSTANTS BITS,       \* bits of rproc->bitmap: 32 on the target
          Tables,     \* resource tables of images: sequences of entries
          Places,     \* memory in which clients keep tables of their own
          Own,        \* [Places -> table]: what the client put there
          MaxTables   \* bound: tables parsed between two calls of stop

ANY == -1            \* RSC_NOTIFY_ID_ANY

\* The memory that a load copies the table of an image to.  The data of a later
\* image is taken to leave it alone until the table of that image goes there.
LOADED == "loaded"

\* An entry: a virtio device with the ids asked for (its own and one per
\* vring); one that leaves the bitmap alone and the parse going (a carveout
\* that maps, a trace buffer, a type without a handler); one that is rejected.
Entry == [type : {"vdev", "ignored", "bad"}, ids : Seq(Nat \cup {ANY})]

TableOK(t) == t \in Seq(Entry) /\ \A i \in 1 .. Len(t) : t[i].type = "vdev" => t[i].ids # <<>>

ASSUME RprocAssumption ==
  /\ BITS \in Nat \ {0} /\ MaxTables \in Nat \ {0}
  /\ \A t \in Tables : TableOK(t)
  /\ LOADED \notin Places /\ DOMAIN Own = Places
  /\ \A p \in Places : TableOK(Own[p])

VARIABLES
  state,    \* rproc->state
  bitmap,   \* the ids that are taken
  rscMem,   \* the tables in memory, with the ids that parsing has written
  rsc,      \* rproc->rsc_table: a place; LOADED also when there is none
  vdevs,    \* rproc->vdevs
  parsed,   \* tables parsed since the bitmap was last cleared
  current,  \* rsc was set since the bitmap was last cleared
  shared    \* an id was handed out that was taken, since then

lifeVars == <<state, bitmap, rscMem, rsc, vdevs, parsed, current, shared>>

LifeInit ==
  /\ state = "OFFLINE" /\ bitmap = {}
  /\ rscMem = [p \in Places \cup {LOADED} |-> IF p \in Places THEN Own[p] ELSE <<>>]
  /\ rsc = LOADED /\ vdevs = <<>>
  /\ parsed = 0 /\ current = FALSE /\ shared = FALSE
-----------------------------------------------------------------------------
(***************************************************************************)
(* Notification ids.                                                       *)
(***************************************************************************)
\* metal_bitmap_next_clear_bit: the search wraps at max and comes back to
\* start, taken or not, when there is no clear bit.
NextClearBit(bm, start, max) ==
  (start + Min({d \in 0 .. max - 1 : (start + d) % max \notin bm} \cup {max})) % max

\* remoteproc_allocate_id, which also sets the bit (TakeId).  It compares the
\* bit found with end, which it never is, so it gives an id that is taken when
\* there is no other; an id by its number is looked for in start .. start + 1,
\* which wraps to the lower numbers when that one is taken.
AllocateId(bm, start, end) ==
  LET s == IF start = ANY THEN 0 ELSE start
      e == IF end = ANY THEN BITS ELSE end
  IN IF s < BITS /\ e <= BITS THEN NextClearBit(bm, s, e) ELSE ANY

\* Mutant: giving back stops before the id of the device itself.
TakeIdKeepsFirst(acc, req) ==
  LET id == AllocateId(acc.bm, req, IF req = ANY THEN ANY ELSE req + 1)
  IN CASE ~acc.ok -> acc
       [] acc.ok /\ id = ANY ->
            [acc EXCEPT !.ok = FALSE, !.bm = @ \ {acc.ids[i] : i \in 2 .. Len(acc.ids)}]
       [] OTHER -> [bm |-> acc.bm \cup {id}, ids |-> Append(acc.ids, id), ok |-> TRUE,
                    shared |-> acc.shared \/ id \in acc.bm]

\* The next id for a device; when there is none, those that it has are given
\* back.
TakeId(acc, req) ==
  LET id == AllocateId(acc.bm, req, IF req = ANY THEN ANY ELSE req + 1)
  IN CASE ~acc.ok -> acc
       [] acc.ok /\ id = ANY -> [acc EXCEPT !.ok = FALSE, !.bm = @ \ ToSet(acc.ids)]
       [] OTHER -> [bm |-> acc.bm \cup {id}, ids |-> Append(acc.ids, id), ok |-> TRUE,
                    shared |-> acc.shared \/ id \in acc.bm]

\* What a device has got after each of the ids it asks for.
TakeWalk(bm, ids) ==
  LET took[n \in 0 .. Len(ids)] ==
        IF n = 0 THEN [bm |-> bm, ids |-> <<>>, ok |-> TRUE, shared |-> FALSE]
        ELSE TakeId(took[n - 1], ids[n])
  IN  took

\* handle_vdev_rsc.
HandleVdev(bm, ids) == TakeWalk(bm, ids)[Len(ids)]

\* The ids that were got stand in the entry from then on, also if they were
\* given back; a later parse of the same memory asks for them by number.
WriteIds(entry, got) ==
  [entry EXCEPT !.ids = [i \in DOMAIN @ |-> IF i \in DOMAIN got THEN got[i] ELSE @[i]]]

\* Mutant: the ids are looked for in the bitmap as it was before the table.
HandleEntryStale(acc, entry) ==
  LET r == HandleVdev(bitmap, entry.ids)
  IN CASE ~acc.ok \/ entry.type = "ignored" -> [acc EXCEPT !.table = Append(@, entry)]
       [] acc.ok /\ entry.type = "bad" -> [acc EXCEPT !.ok = FALSE, !.table = Append(@, entry)]
       [] OTHER -> [bm |-> r.bm, ok |-> r.ok, shared |-> acc.shared \/ r.shared,
                    table |-> Append(acc.table, WriteIds(entry, r.ids))]

\* One turn of the loop in handle_rsc_table, which ends at the first error.
HandleEntry(acc, entry) ==
  LET r == HandleVdev(acc.bm, entry.ids)
  IN CASE ~acc.ok \/ entry.type = "ignored" -> [acc EXCEPT !.table = Append(@, entry)]
       [] acc.ok /\ entry.type = "bad" -> [acc EXCEPT !.ok = FALSE, !.table = Append(@, entry)]
       [] OTHER -> [bm |-> r.bm, ok |-> r.ok, shared |-> acc.shared \/ r.shared,
                    table |-> Append(acc.table, WriteIds(entry, r.ids))]

\* The turns of that loop: bitmap and table after each of them.
TableWalk(table) ==
  LET turn[n \in 0 .. Len(table)] ==
        IF n = 0 THEN [bm |-> bitmap, table |-> <<>>, ok |-> TRUE, shared |-> FALSE]
        ELSE HandleEntry(turn[n - 1], table[n])
  IN  turn

HandleTable(table) == TableWalk(table)[Len(table)]
-----------------------------------------------------------------------------
(***************************************************************************)
(* States.                                                                 *)
(***************************************************************************)
Config ==
  /\ state = "OFFLINE"
  /\ state' = "READY"
  /\ UNCHANGED <<bitmap, rscMem, rsc, vdevs, parsed, current, shared>>

Start ==
  /\ state = "READY"
  /\ state' = "RUNNING"
  /\ UNCHANGED <<bitmap, rscMem, rsc, vdevs, parsed, current, shared>>

\* The code stops the processor under its virtio devices too; a client must
\* have removed them, for their ids are handed out again from here.
DevicesRemoved == vdevs = <<>>

Stop ==
  /\ state \notin {"STOPPED", "OFFLINE"} /\ DevicesRemoved
  /\ state' = "STOPPED"
  /\ bitmap' = {} /\ parsed' = 0 /\ current' = FALSE /\ shared' = FALSE
  /\ UNCHANGED <<rscMem, rsc, vdevs>>

\* Unlike stop, shutdown of a processor that was not stopped keeps the bitmap.
\* Where one of the driver's operations fails, the state stays as it is, here
\* and in the three calls above.
Shutdown ==
  /\ state # "OFFLINE"
  /\ state' = "OFFLINE"
  /\ UNCHANGED <<bitmap, rscMem, rsc, vdevs, parsed, current, shared>>
-----------------------------------------------------------------------------
(***************************************************************************)
(* The resource table: set directly, found in an image, or found in a      *)
(* streamed image.                                                         *)
(***************************************************************************)
\* Parse a table; ids taken for a table that is not adopted stay taken.
ParseTable(r) ==
  /\ parsed < MaxTables
  /\ parsed' = parsed + 1
  /\ bitmap' = r.bm /\ shared' = (shared \/ r.shared)
  /\ UNCHANGED <<state, vdevs>>

Adopt(p) == rsc' = p /\ current' = TRUE

\* Mutant: a rejected table is adopted, too.
SetRscTableAlways(p) ==
  LET r == HandleTable(rscMem[p]) IN
  /\ rscMem[p] # <<>>
  /\ ParseTable(r)
  /\ rscMem' = [rscMem EXCEPT ![p] = r.table]
  /\ Adopt(p)

\* remoteproc_set_rsc_table looks at no state.  It parses the table where it
\* is, and what was written there stays when the table is rejected.
SetRscTable(p) ==
  LET r == HandleTable(rscMem[p]) IN
  /\ rscMem[p] # <<>>
  /\ ParseTable(r)
  /\ rscMem' = [rscMem EXCEPT ![p] = r.table]
  /\ IF r.ok THEN Adopt(p) ELSE UNCHANGED <<rsc, current>>

\* A load parses a copy of the image's table.  Only if it is accepted does it
\* go to memory.
LoadTable(table) ==
  LET r == HandleTable(table) IN
  /\ state = "READY"
  /\ ParseTable(r)
  /\ IF r.ok THEN Adopt(LOADED) /\ rscMem' = [rscMem EXCEPT ![LOADED] = r.table]
     ELSE UNCHANGED <<rscMem, rsc, current>>

\* remoteproc_load of an image up to the end.  It returns 0 also when its
\* table was rejected; the old one stays in force.
Load(table) == LoadTable(table)

\* The image's data cannot be loaded, or its table cannot be mapped, after the
\* table was parsed.
LoadFails(table) ==
  /\ state = "READY"
  /\ ParseTable(HandleTable(table))
  /\ UNCHANGED <<rscMem, rsc, current>>

\* The last call of remoteproc_load_noblock for an image.
LoadNoblock(table) == LoadTable(table)
-----------------------------------------------------------------------------
(***************************************************************************)
(* Virtio devices.                                                         *)
(***************************************************************************)
Dev(ids) == [notifyid |-> Head(ids), vrings |-> Tail(ids)]

\* The entries of the table in force that are virtio devices (find_rsc).
InForce == rscMem[rsc]
VdevRsc == {i \in DOMAIN InForce : InForce[i].type = "vdev"}

\* Mutant: the list is not searched for a device that exists already.
CreateVirtioAgain(i) ==
  /\ current /\ i \in VdevRsc
  /\ vdevs' = Append(vdevs, Dev(InForce[i].ids))
  /\ UNCHANGED <<state, bitmap, rscMem, rsc, parsed, current, shared>>

\* remoteproc_create_virtio of a device of the table.  A client calls it when
\* its own table is in force.  Nothing changes if the device is there, or if a
\* vring of it cannot be mapped.
CreateVirtio(i) ==
  /\ current /\ i \in VdevRsc
  /\ \A k \in DOMAIN vdevs : vdevs[k].notifyid # Head(InForce[i].ids)
  /\ vdevs' = Append(vdevs, Dev(InForce[i].ids))
  /\ UNCHANGED <<state, bitmap, rscMem, rsc, parsed, current, shared>>

RemoveVirtio(k) ==
  /\ k \in DOMAIN vdevs
  /\ vdevs' = RemoveAt(vdevs, k)
  /\ UNCHANGED <<state, bitmap, rscMem, rsc, parsed, current, shared>>

\* remoteproc_get_notification: the vrings whose virtqueue is notified of id.
\* A device takes an id that is its own as a change of its status.
Notified(id) ==
  {kv \in (1 .. Len(vdevs)) \X (1 .. BITS) :
     /\ vdevs[kv[1]].notifyid # id
     /\ kv[2] \in DOMAIN vdevs[kv[1]].vrings
     /\ id \in {vdevs[kv[1]].vrings[kv[2]], ANY}}
-----------------------------------------------------------------------------
LifeNext ==
  \/ Config \/ Start \/ Stop \/ Shutdown
  \/ \E p \in Places \cup {LOADED} : SetRscTable(p)
  \/ \E t \in Tables : Load(t) \/ LoadFails(t) \/ LoadNoblock(t)
  \/ \E i \in VdevRsc : CreateVirtio(i)
  \/ \E k \in DOMAIN vdevs : RemoveVirtio(k)

LifeSpec == LifeInit /\ [][LifeNext]_lifeVars
-----------------------------------------------------------------------------
TableIds  == UNION {ToSet(InForce[i].ids) : i \in VdevRsc}
DevIds(d) == {d.notifyid} \cup ToSet(d.vrings)

\* "A unique rproc-wide notify index" (remoteproc.h): the virtio devices of the
\* table in force have no id in common, and neither have those that exist.
IdsUnique ==
  /\ current => \A i, j \in VdevRsc :
       i # j => ToSet(InForce[i].ids) \cap ToSet(InForce[j].ids) = {}
  /\ \A j, k \in DOMAIN vdevs : j # k => DevIds(vdevs[j]) \cap DevIds(vdevs[k]) = {}

\* A notification reaches one vring: as long as every id that was handed out
\* was free, then however tables of clients and of images, accepted, rejected
\* half-way, parsed again with the ids of an earlier time, loaded or shut down,
\* are mixed, no id belongs to two vrings, or to a vring and to a device.
OneListener ==
  ~shared => /\ IdsUnique
             /\ \A id \in 0 .. BITS - 1 : Cardinality(Notified(id)) <= 1

\* The ids in use stay taken until the processor is stopped: a table that is
\* parsed later, and given up half-way, does not free them.
IdsReserved ==
  ~shared => /\ current => TableIds \subseteq bitmap
             /\ \A k \in DOMAIN vdevs : DevIds(vdevs[k]) \subseteq bitmap

\* A virtio device whose last vring asks for an id that does not exist gives
\* back what it got before, and nothing else, whatever ids are taken when it is
\* parsed (handle_vdev_rsc, label err), if what it got was free.
RollbackExact ==
  parsed < MaxTables =>
    \A t \in Tables \cup {rscMem[p] : p \in Places} :
      LET r == HandleTable(t) IN Len(t) = 1 /\ ~r.ok /\ ~r.shared => r.bm = bitmap

\* The id bitmap is exact: what is in use is reserved, what a failed device took
\* is given back.
IdsExact == IdsReserved /\ RollbackExact
=============================================================================
