-------------------------- MODULE RemoteprocProofs --------------------------
(***************************************************************************)
(* Theorems about the remote processor: its notification ids, for every    *)
(* set of resource tables, and the loading of its firmware, for all images *)
(* and regions of memory.                                                  *)
(***************************************************************************)
EXTENDS Remoteproc, ElfLoader, SequenceLemmas

(***************************************************************************)
(* The inductive invariant.                                                *)
(***************************************************************************)
Ids == 0 .. BITS - 1
Memories == Places \cup {LOADED}

\* What a virtio device of a table has got: its own id and one for each vring,
\* all different.
Granted(s) == s \in Seq(Ids) /\ s # <<>> /\ Distinct(s)

Devices(t) == {i \in 1 .. Len(t) : t[i].type = "vdev"}

\* The devices of a table have ids of their own, apart from the ids in old.
TableGranted(t, bm, old) ==
  /\ \A i \in 1 .. Len(t) : t[i].type # "bad"
  /\ \A i \in Devices(t) : /\ Granted(t[i].ids) /\ ToSet(t[i].ids) \subseteq bm
                           /\ ToSet(t[i].ids) \cap old = {}
  /\ \A i, j \in Devices(t) : i # j => ToSet(t[i].ids) \cap ToSet(t[j].ids) = {}

DevType == [notifyid : Ids, vrings : Seq(Ids)]

\* So do the devices that exist.
VdevsInv(vs, bm) ==
  /\ vs \in Seq(DevType)
  /\ \A k \in 1 .. Len(vs) : /\ Distinct(vs[k].vrings) /\ vs[k].notifyid \notin ToSet(vs[k].vrings)
                             /\ DevIds(vs[k]) \subseteq bm
  /\ \A j, k \in 1 .. Len(vs) : j # k => DevIds(vs[j]) \cap DevIds(vs[k]) = {}

\* A device that exists was made from the table in force or has nothing of it.
OldOrNew(vs, t) ==
  \A k \in 1 .. Len(vs), i \in Devices(t) :
    \/ DevIds(vs[k]) \cap ToSet(t[i].ids) = {}
    \/ vs[k].notifyid = Head(t[i].ids) /\ DevIds(vs[k]) = ToSet(t[i].ids)

MemoryInv ==
  /\ bitmap \in SUBSET Ids /\ current \in BOOLEAN /\ shared \in BOOLEAN
  /\ rscMem \in [Memories -> Seq(Entry)] /\ rsc \in Memories
  /\ \A p \in Memories : TableOK(rscMem[p])

\* As long as no id was handed out twice.
RprocInv ==
  /\ MemoryInv
  /\ ~shared => /\ VdevsInv(vdevs, bitmap)
                /\ current => TableGranted(rscMem[rsc], bitmap, {}) /\ OldOrNew(vdevs, rscMem[rsc])

-----------------------------------------------------------------------------
(***************************************************************************)
(* Searching the bitmap.                                                   *)
(***************************************************************************)
\* The search ends at a bit below its end, whatever the bitmap.
LEMMA SearchType ==
  ASSUME NEW bm, NEW s \in Nat, NEW e \in Nat \ {0}
  PROVE  NextClearBit(bm, s, e) \in 0 .. e - 1
<1>1. PICK T : T = {d \in 0 .. e - 1 : (s + d) % e \notin bm} \cup {e}
  OBVIOUS
<1>2. T \in SUBSET Nat /\ T # {}
  BY <1>1
<1>3. Min(T) \in Nat
  BY <1>2, MinIsLeast
<1>4. NextClearBit(bm, s, e) = (s + Min(T)) % e
  BY <1>1 DEF NextClearBit
<1>5. PICK a \in Nat : a = s + Min(T)
  BY <1>3
<1>6. a % e \in 0 .. e - 1
  BY DivMod
<1> QED
  BY <1>4, <1>5, <1>6

Request == Nat \cup {ANY}

\* The id of a request; any number below the end of the bitmap gets one.
IdFor(bm, req) == AllocateId(bm, req, IF req = ANY THEN ANY ELSE req + 1)

LEMMA AllocateType ==
  ASSUME NEW bm, NEW req \in Request
  PROVE  /\ IdFor(bm, req) \in Ids \cup {ANY} /\ ANY \notin Ids
         /\ req \in Ids \cup {ANY} => IdFor(bm, req) \in Ids
<1>0. BITS \in Nat \ {0} /\ ANY = -1
  BY RprocAssumption DEF RprocAssumption, ANY
<1>1. CASE req = ANY
  <2>1. NextClearBit(bm, 0, BITS) \in Ids
    BY <1>0, SearchType DEF Ids
  <2> QED
    BY <1>0, <1>1, <2>1 DEF IdFor, AllocateId, Ids
<1>2. CASE req # ANY
  <2>1. req \in Nat /\ req + 1 \in Nat \ {0} /\ req + 1 # ANY
    BY <1>0, <1>2 DEF Request
  <2>2. NextClearBit(bm, req, req + 1) \in 0 .. (req + 1) - 1
    BY <2>1, SearchType
  <2>3. req < BITS => NextClearBit(bm, req, req + 1) \in Ids
    BY <1>0, <2>1, <2>2 DEF Ids
  <2> QED
    BY <1>0, <1>2, <2>1, <2>3 DEF IdFor, AllocateId, Ids
<1> QED
  BY <1>1, <1>2

-----------------------------------------------------------------------------
(***************************************************************************)
(* The ids of one device.                                                  *)
(***************************************************************************)
Acc == [bm : SUBSET Ids, ids : Seq(Ids), ok : BOOLEAN, shared : BOOLEAN]

\* The cases of TakeId.
LEMMA TakeIdCases ==
  ASSUME NEW acc \in Acc, NEW req \in Request, NEW id, id = IdFor(acc.bm, req)
  PROVE  LET new == TakeId(acc, req)
         IN  /\ new \in Acc
             /\ ~acc.ok => new = acc
             /\ acc.ok /\ id = ANY => /\ ~new.ok /\ new.bm = acc.bm \ ToSet(acc.ids)
                                      /\ new.ids = acc.ids /\ new.shared = acc.shared
             /\ acc.ok /\ id # ANY => /\ id \in Ids /\ new.ok /\ new.bm = acc.bm \cup {id}
                                      /\ new.ids = Append(acc.ids, id)
                                      /\ new.shared = (acc.shared \/ id \in acc.bm)
<1>1. id \in Ids \cup {ANY}
  BY AllocateType
<1>2. CASE ~acc.ok
  BY <1>2 DEF TakeId
<1>3. CASE acc.ok /\ id = ANY
  <2>1. TakeId(acc, req) = [acc EXCEPT !.ok = FALSE, !.bm = @ \ ToSet(acc.ids)]
    BY <1>3 DEF TakeId, IdFor
  <2> QED
    BY <1>3, <2>1 DEF Acc
<1>4. CASE acc.ok /\ id # ANY
  <2>1. TakeId(acc, req) = [bm |-> acc.bm \cup {id}, ids |-> Append(acc.ids, id), ok |-> TRUE,
                            shared |-> acc.shared \/ id \in acc.bm]
    <3>1. acc.ok /\ IdFor(acc.bm, req) # ANY =>
            TakeId(acc, req) =
              [bm |-> acc.bm \cup {IdFor(acc.bm, req)}, ids |-> Append(acc.ids, IdFor(acc.bm, req)),
               ok |-> TRUE, shared |-> acc.shared \/ IdFor(acc.bm, req) \in acc.bm]
      BY DEF TakeId, IdFor
    <3> QED
      BY <1>4, <3>1
  <2>2. id \in Ids /\ Append(acc.ids, id) \in Seq(Ids) /\ acc.bm \cup {id} \in SUBSET Ids
    BY <1>1, <1>4 DEF Acc
  <2>3. (acc.shared \/ id \in acc.bm) \in BOOLEAN
    BY DEF Acc
  <2> QED
    BY <1>4, <2>1, <2>2, <2>3 DEF Acc
<1> QED
  BY <1>2, <1>3, <1>4

\* The walk over the requests is what its steps make it.
LEMMA TakeWalkFacts ==
  ASSUME NEW bm \in SUBSET Ids, NEW ids \in Seq(Request)
  PROVE  LET w == TakeWalk(bm, ids)
         IN  /\ w[0] = [bm |-> bm, ids |-> <<>>, ok |-> TRUE, shared |-> FALSE]
             /\ \A k \in 0 .. Len(ids) : w[k] \in Acc
             /\ \A k \in 1 .. Len(ids) : w[k] = TakeId(w[k - 1], ids[k])
<1> DEFINE n == Len(ids)
           x0 == [bm |-> bm, ids |-> <<>>, ok |-> TRUE, shared |-> FALSE]
           F == [p \in (1 .. n) \X Acc |-> TakeId(p[2], ids[p[1]])]
<1>0. n \in Nat
  OBVIOUS
<1>1. x0 \in Acc
  BY DEF Acc
<1>2. \A k \in 1 .. n, v \in Acc : TakeId(v, ids[k]) \in Acc
  <2> TAKE k \in 1 .. n, v \in Acc
  <2>1. ids[k] \in Request
    BY ElementOfSeq
  <2> QED
    BY <2>1, TakeIdCases
<1>3. F \in [(1 .. n) \X Acc -> Acc]
  BY <1>2
<1>4. \A k \in 1 .. n, v \in Acc : F[<<k, v>>] = TakeId(v, ids[k])
  OBVIOUS
<1> HIDE DEF F
<1>5. PICK g \in [0 .. n -> Acc] : g[0] = x0 /\ \A k \in 1 .. n : g[k] = F[<<k, g[k - 1]>>]
  <2> HIDE DEF n, x0
  <2>1. \E g \in [0 .. n -> Acc] : StepByStep(g, n, x0, F)
    BY <1>0, <1>1, <1>3, Recursion
  <2> QED
    BY <2>1 DEF StepByStep
<1>6. \A k \in 1 .. n : g[k - 1] \in Acc /\ g[k] = TakeId(g[k - 1], ids[k])
  <2> TAKE k \in 1 .. n
  <2>1. g[k - 1] \in Acc
    BY <1>0, <1>5
  <2> QED
    BY <2>1, <1>4, <1>5
<1>7. g = [k \in 0 .. n |-> IF k = 0 THEN x0 ELSE TakeId(g[k - 1], ids[k])]
  BY <1>0, <1>5, <1>6
<1> DEFINE w == TakeWalk(bm, ids)
<1>8. w = [k \in 0 .. n |-> IF k = 0 THEN x0 ELSE TakeId(w[k - 1], ids[k])]
  BY <1>7 DEF TakeWalk
<1>9. w[0] = x0 /\ \A k \in 1 .. n : w[k] = TakeId(w[k - 1], ids[k])
  <2> HIDE DEF w, n, x0
  <2> QED
    BY <1>0, <1>8
<1> DEFINE T == {k \in 0 .. n : w[k] \in Acc}
<1>10. 0 \in T
  BY <1>0, <1>1, <1>9
<1>11. ASSUME NEW k \in 1 .. n, k - 1 \in T
       PROVE  k \in T
  BY <1>0, <1>2, <1>9, <1>11
<1>12. T = 0 .. n
  <2>1. T \in SUBSET (0 .. n)
    OBVIOUS
  <2> HIDE DEF T, w, n
  <2> QED
    BY <1>0, <1>10, <1>11, <2>1, Along
<1>13. \A k \in 0 .. n : w[k] \in Acc
  BY <1>12
<1> QED
  BY <1>9, <1>13

\* What a device has after its first n requests, when bm was taken before it.
Took(acc, bm, n) ==
  /\ acc \in Acc /\ (acc.ok => Len(acc.ids) = n)
  /\ ~acc.shared =>
       IF acc.ok THEN /\ Distinct(acc.ids) /\ ToSet(acc.ids) \cap bm = {}
                      /\ acc.bm = bm \cup ToSet(acc.ids)
       ELSE acc.bm = bm

\* One more request.
LEMMA TookMore ==
  ASSUME NEW bm \in SUBSET Ids, NEW n \in Nat, NEW acc, Took(acc, bm, n), NEW req \in Request
  PROVE  /\ Took(TakeId(acc, req), bm, n + 1)
         /\ acc.ok /\ req \in Ids \cup {ANY} => TakeId(acc, req).ok
<1>1. PICK id : id = IdFor(acc.bm, req)
  OBVIOUS
<1>2. acc \in Acc /\ (req \in Ids \cup {ANY} => id # ANY)
  BY <1>1, AllocateType DEF Took
<1>3. PICK new : new = TakeId(acc, req)
  OBVIOUS
<1>4. /\ new \in Acc
      /\ ~acc.ok => new = acc
      /\ acc.ok /\ id = ANY => /\ ~new.ok /\ new.bm = acc.bm \ ToSet(acc.ids)
                               /\ new.ids = acc.ids /\ new.shared = acc.shared
      /\ acc.ok /\ id # ANY => /\ id \in Ids /\ new.ok /\ new.bm = acc.bm \cup {id}
                               /\ new.ids = Append(acc.ids, id)
                               /\ new.shared = (acc.shared \/ id \in acc.bm)
  BY <1>1, <1>2, <1>3, TakeIdCases
<1>5. CASE ~acc.ok
  BY <1>3, <1>4, <1>5 DEF Took
<1>6. CASE acc.ok
  <2>1. PICK s, b : s = acc.ids /\ b = acc.bm
    OBVIOUS
  <2>2. s \in Seq(Ids) /\ b \in SUBSET Ids /\ Len(s) = n
    BY <1>2, <1>6, <2>1 DEF Took, Acc
  <2>3. ~acc.shared => Distinct(s) /\ ToSet(s) \cap bm = {} /\ b = bm \cup ToSet(s)
    BY <1>6, <2>1 DEF Took
  <2>4. CASE id = ANY
    <3>1. ~new.ok /\ new.bm = b \ ToSet(s) /\ new.shared = acc.shared
      BY <1>4, <1>6, <2>1, <2>4
    <3>2. ~new.shared => new.bm = bm
      BY <2>3, <3>1
    <3> QED
      BY <1>2, <1>3, <1>4, <2>4, <3>1, <3>2 DEF Took
  <2>5. CASE id # ANY
    <3>1. /\ id \in Ids /\ new.ok /\ new.bm = b \cup {id} /\ new.ids = Append(s, id)
          /\ new.shared = (acc.shared \/ id \in b)
      BY <1>4, <1>6, <2>1, <2>5
    <3>2. PICK a : a = Append(s, id)
      OBVIOUS
    <3>3. a \in Seq(Ids) /\ Len(a) = n + 1
      BY <2>2, <3>1, <3>2
    <3>4. ASSUME ~new.shared
          PROVE  Distinct(a) /\ ToSet(a) \cap bm = {} /\ new.bm = bm \cup ToSet(a)
      <4>1. ~acc.shared /\ id \notin b
        BY <3>1, <3>4
      <4>2. Distinct(s) /\ ToSet(s) \cap bm = {} /\ b = bm \cup ToSet(s) /\ id \notin ToSet(s) /\ id \notin bm
        BY <2>3, <4>1
      <4>3. Distinct(a) /\ ToSet(a) = ToSet(s) \cup {id}
        BY <2>2, <3>1, <3>2, <4>2, AppendFacts
      <4> QED
        BY <3>1, <4>2, <4>3
    <3>5. Took(new, bm, n + 1)
      BY <1>4, <3>1, <3>2, <3>3, <3>4 DEF Took
    <3> QED
      BY <1>3, <3>1, <3>5
  <2> QED
    BY <2>4, <2>5
<1> QED
  BY <1>5, <1>6

\* Requests that each have an id.
Fitting(ids) == \A k \in 1 .. Len(ids) : ids[k] \in Ids \cup {ANY}

\* handle_vdev_rsc: if no id was handed out twice, a device gets one for each
\* request, all different and free before, or nothing.
LEMMA HandleVdevOK ==
  ASSUME NEW bm \in SUBSET Ids, NEW ids \in Seq(Request)
  PROVE  /\ Took(HandleVdev(bm, ids), bm, Len(ids))
         /\ Fitting(ids) => HandleVdev(bm, ids).ok
<1>1. PICK n, w : n = Len(ids) /\ w = TakeWalk(bm, ids)
  OBVIOUS
<1>2. n \in Nat
  BY <1>1
<1>3. /\ w[0] = [bm |-> bm, ids |-> <<>>, ok |-> TRUE, shared |-> FALSE]
      /\ \A k \in 1 .. n : w[k] = TakeId(w[k - 1], ids[k])
  BY <1>1, TakeWalkFacts
<1> DEFINE T == {k \in 0 .. n : Took(w[k], bm, k) /\ (Fitting(ids) => w[k].ok)}
<1>4. T \in SUBSET (0 .. n)
  OBVIOUS
<1>5. 0 \in T
  <2>1. PICK e : e = <<>>
    OBVIOUS
  <2>2. e \in Seq(Ids) /\ Distinct(e) /\ Len(e) = 0 /\ ToSet(e) = {}
    BY <2>1 DEF Distinct, ToSet
  <2>3. PICK a : a = [bm |-> bm, ids |-> e, ok |-> TRUE, shared |-> FALSE]
    OBVIOUS
  <2>4. a \in Acc /\ a.ok /\ a.bm = bm /\ a.ids = e
    BY <2>2, <2>3 DEF Acc
  <2>5. Took(a, bm, 0) /\ a.ok
    BY <2>2, <2>4 DEF Took
  <2>6. w[0] = a /\ 0 \in 0 .. n
    BY <1>2, <1>3, <2>1, <2>3
  <2> QED
    BY <2>5, <2>6
<1>6. ASSUME NEW k \in 1 .. n, k - 1 \in T
      PROVE  k \in T
  <2>1. k - 1 \in Nat /\ (k - 1) + 1 = k /\ k \in 1 .. Len(ids) /\ k \in 0 .. n
    BY <1>1, <1>2
  <2>2. PICK a : a = w[k - 1]
    OBVIOUS
  <2>3. Took(a, bm, k - 1) /\ (Fitting(ids) => a.ok)
    BY <1>6, <2>2
  <2>4. ids[k] \in Request
    BY <2>1, ElementOfSeq
  <2>5. PICK q \in Request : q = ids[k]
    BY <2>4
  <2>6. /\ Took(TakeId(a, q), bm, (k - 1) + 1)
        /\ a.ok /\ q \in Ids \cup {ANY} => TakeId(a, q).ok
    BY <2>1, <2>3, TookMore
  <2>7. w[k] = TakeId(a, q)
    BY <1>3, <2>2, <2>5
  <2>8. Fitting(ids) => q \in Ids \cup {ANY}
    BY <2>1, <2>5 DEF Fitting
  <2>9. Took(w[k], bm, k) /\ (Fitting(ids) => w[k].ok)
    BY <2>1, <2>3, <2>6, <2>7, <2>8
  <2> QED
    BY <2>1, <2>9
<1> HIDE DEF T
<1>7. T = 0 .. n
  BY <1>2, <1>4, <1>5, <1>6, Along
<1>8. Took(w[n], bm, n) /\ (Fitting(ids) => w[n].ok)
  BY <1>2, <1>7 DEF T
<1> QED
  BY <1>1, <1>8 DEF HandleVdev

-----------------------------------------------------------------------------
(***************************************************************************)
(* The devices of one table.                                               *)
(***************************************************************************)
EntryOK(e) == e \in Entry /\ (e.type = "vdev" => e.ids # <<>>)

\* An entry stays one when ids are written to it, and has what was written when
\* that are as many.
LEMMA WriteIdsFacts ==
  ASSUME NEW e, EntryOK(e), NEW got \in Seq(Ids)
  PROVE  LET new == WriteIds(e, got)
         IN  EntryOK(new) /\ new.type = e.type /\ (Len(got) = Len(e.ids) => new.ids = got)
<1>0. BITS \in Nat \ {0}
  BY RprocAssumption DEF RprocAssumption
<1>1. PICK ids : ids = e.ids
  OBVIOUS
<1>2. ids \in Seq(Request) /\ e \in Entry
  BY <1>1 DEF EntryOK, Entry, Request
<1>3. PICK n : n = Len(ids)
  OBVIOUS
<1>4. n \in Nat /\ DOMAIN ids = 1 .. n
  BY <1>2, <1>3
<1>5. PICK f : f = [i \in 1 .. n |-> IF i \in DOMAIN got THEN got[i] ELSE ids[i]]
  OBVIOUS
<1>6. \A i \in 1 .. n : (IF i \in DOMAIN got THEN got[i] ELSE ids[i]) \in Request
  <2> TAKE i \in 1 .. n
  <2>1. ids[i] \in Request
    BY <1>2, <1>3, ElementOfSeq
  <2>2. i \in DOMAIN got => got[i] \in Ids
    OBVIOUS
  <2>3. i \in DOMAIN got => got[i] \in Request
    BY <1>0, <2>2 DEF Ids, Request
  <2> QED
    BY <2>1, <2>3
<1>7. f \in [1 .. n -> Request]
  BY <1>5, <1>6
<1>8. f \in Seq(Request) /\ Len(f) = n
  BY <1>4, <1>7, FunctionIsSeq
<1>9. WriteIds(e, got) = [e EXCEPT !.ids = f]
  BY <1>1, <1>4, <1>5 DEF WriteIds
<1>10. PICK new : new = WriteIds(e, got)
  OBVIOUS
<1>11. new \in Entry /\ new.type = e.type /\ new.ids = f
  BY <1>2, <1>8, <1>9, <1>10 DEF Entry, Request
<1>12. ids # <<>> => f # <<>>
  BY <1>2, <1>3, <1>8
<1>13. ASSUME Len(got) = n
       PROVE  f = got
  <2>1. DOMAIN got = 1 .. n
    BY <1>13
  <2>2. f = [i \in 1 .. n |-> got[i]]
    BY <1>5, <2>1
  <2> QED
    BY <2>1, <2>2
<1> QED
  BY <1>1, <1>3, <1>10, <1>11, <1>12, <1>13 DEF EntryOK

TableAcc == [bm : SUBSET Ids, table : Seq(Entry), ok : BOOLEAN, shared : BOOLEAN]

\* The cases of HandleEntry.
LEMMA HandleEntryCases ==
  ASSUME NEW acc \in TableAcc, NEW e, EntryOK(e), NEW r, r = HandleVdev(acc.bm, e.ids)
  PROVE  LET new == HandleEntry(acc, e)
         IN  /\ r \in Acc /\ Took(r, acc.bm, Len(e.ids)) /\ (Fitting(e.ids) => r.ok)
             /\ new \in TableAcc
             /\ ~acc.ok \/ e.type # "vdev" =>
                  /\ new.bm = acc.bm /\ new.table = Append(acc.table, e)
                  /\ new.ok = (acc.ok /\ e.type # "bad") /\ new.shared = acc.shared
             /\ acc.ok /\ e.type = "vdev" =>
                  /\ new.bm = r.bm /\ new.table = Append(acc.table, WriteIds(e, r.ids))
                  /\ new.ok = r.ok /\ new.shared = (acc.shared \/ r.shared)
<1>1. e \in Entry /\ e.ids \in Seq(Request) /\ acc.bm \in SUBSET Ids
  BY DEF EntryOK, Entry, Request, TableAcc
<1>2. PICK ids \in Seq(Request), b \in SUBSET Ids : ids = e.ids /\ b = acc.bm
  BY <1>1
<1>3. Took(r, b, Len(ids)) /\ (Fitting(ids) => r.ok)
  <2>1. r = HandleVdev(b, ids)
    BY <1>2
  <2> QED
    BY <2>1, HandleVdevOK
<1>4. r \in Acc
  BY <1>3 DEF Took
<1>5. PICK new : new = HandleEntry(acc, e)
  OBVIOUS
<1>6. CASE ~acc.ok \/ e.type = "ignored"
  <2>1. PICK t : t = Append(acc.table, e)
    OBVIOUS
  <2>2. t \in Seq(Entry)
    BY <1>1, <2>1 DEF TableAcc
  <2>3. new = [acc EXCEPT !.table = t]
    BY <1>5, <1>6, <2>1 DEF HandleEntry
  <2>4. new \in TableAcc /\ new.bm = acc.bm /\ new.table = t /\ new.ok = acc.ok /\ new.shared = acc.shared
    BY <2>2, <2>3 DEF TableAcc
  <2>5. ~(acc.ok /\ e.type = "vdev") /\ (acc.ok => e.type # "bad") /\ acc.ok \in BOOLEAN
    BY <1>6 DEF TableAcc
  <2> QED
    BY <1>2, <1>3, <1>4, <1>5, <2>1, <2>4, <2>5
<1>7. CASE acc.ok /\ e.type = "bad"
  <2>1. PICK t : t = Append(acc.table, e)
    OBVIOUS
  <2>2. t \in Seq(Entry)
    BY <1>1, <2>1 DEF TableAcc
  <2>3. new = [acc EXCEPT !.ok = FALSE, !.table = t]
    BY <1>5, <1>7, <2>1 DEF HandleEntry
  <2>4. new \in TableAcc /\ new.bm = acc.bm /\ new.table = t /\ new.ok = FALSE /\ new.shared = acc.shared
    BY <2>2, <2>3 DEF TableAcc
  <2> QED
    BY <1>2, <1>3, <1>4, <1>5, <1>7, <2>1, <2>4
<1>8. CASE acc.ok /\ e.type = "vdev"
  <2>1. PICK got, x : got = r.ids /\ x = WriteIds(e, got)
    OBVIOUS
  <2>2. got \in Seq(Ids)
    BY <1>4, <2>1 DEF Acc
  <2>3. x \in Entry
    BY <2>1, <2>2, WriteIdsFacts DEF EntryOK
  <2>4. PICK t : t = Append(acc.table, x)
    OBVIOUS
  <2>5. t \in Seq(Entry)
    BY <2>3, <2>4 DEF TableAcc
  <2>6. new = [bm |-> r.bm, ok |-> r.ok, shared |-> acc.shared \/ r.shared, table |-> t]
    BY <1>5, <1>8, <2>1, <2>4 DEF HandleEntry
  <2>7. (acc.shared \/ r.shared) \in BOOLEAN /\ r.bm \in SUBSET Ids /\ r.ok \in BOOLEAN
    BY <1>4 DEF Acc
  <2>8. /\ new \in TableAcc /\ new.bm = r.bm /\ new.table = t /\ new.ok = r.ok
        /\ new.shared = (acc.shared \/ r.shared)
    BY <2>5, <2>6, <2>7 DEF TableAcc
  <2> QED
    BY <1>2, <1>3, <1>4, <1>5, <1>8, <2>1, <2>4, <2>8
<1> QED
  BY <1>1, <1>6, <1>7, <1>8 DEF Entry

\* The walk over a table is what its turns make it.
LEMMA TableWalkFacts ==
  ASSUME bitmap \in SUBSET Ids, NEW table, TableOK(table)
  PROVE  LET w == TableWalk(table)
         IN  /\ w[0] = [bm |-> bitmap, table |-> <<>>, ok |-> TRUE, shared |-> FALSE]
             /\ \A k \in 1 .. Len(table) : w[k] = HandleEntry(w[k - 1], table[k])
<1> DEFINE n == Len(table)
           x0 == [bm |-> bitmap, table |-> <<>>, ok |-> TRUE, shared |-> FALSE]
           F == [p \in (1 .. n) \X TableAcc |-> HandleEntry(p[2], table[p[1]])]
<1>0. n \in Nat /\ table \in Seq(Entry)
  BY DEF TableOK
<1>1. x0 \in TableAcc
  BY DEF TableAcc
<1>2. \A k \in 1 .. n, v \in TableAcc : HandleEntry(v, table[k]) \in TableAcc
  <2> TAKE k \in 1 .. n, v \in TableAcc
  <2>1. EntryOK(table[k])
    BY <1>0, ElementOfSeq DEF TableOK, EntryOK
  <2> QED
    BY <2>1, HandleEntryCases
<1>3. F \in [(1 .. n) \X TableAcc -> TableAcc]
  BY <1>2
<1>4. \A k \in 1 .. n, v \in TableAcc : F[<<k, v>>] = HandleEntry(v, table[k])
  OBVIOUS
<1> HIDE DEF F
<1>5. PICK g \in [0 .. n -> TableAcc] : g[0] = x0 /\ \A k \in 1 .. n : g[k] = F[<<k, g[k - 1]>>]
  <2> HIDE DEF n, x0
  <2>1. PICK m \in Nat : m = n
    BY <1>0
  <2>2. PICK G \in [(1 .. m) \X TableAcc -> TableAcc] : G = F
    BY <1>3, <2>1
  <2>3. PICK y \in TableAcc : y = x0
    BY <1>1
  <2>4. \E g \in [0 .. m -> TableAcc] : StepByStep(g, m, y, G)
    BY Recursion
  <2> QED
    BY <2>1, <2>2, <2>3, <2>4 DEF StepByStep
<1>6. \A k \in 1 .. n : g[k - 1] \in TableAcc /\ g[k] = HandleEntry(g[k - 1], table[k])
  <2> TAKE k \in 1 .. n
  <2>1. g[k - 1] \in TableAcc
    BY <1>0, <1>5
  <2> QED
    BY <2>1, <1>4, <1>5
<1>7. g = [k \in 0 .. n |-> IF k = 0 THEN x0 ELSE HandleEntry(g[k - 1], table[k])]
  BY <1>0, <1>5, <1>6
<1> DEFINE w == TableWalk(table)
<1>8. w = [k \in 0 .. n |-> IF k = 0 THEN x0 ELSE HandleEntry(w[k - 1], table[k])]
  BY <1>7 DEF TableWalk
<1>9. w[0] = x0 /\ \A k \in 1 .. n : w[k] = HandleEntry(w[k - 1], table[k])
  <2> HIDE DEF w, n, x0
  <2> QED
    BY <1>0, <1>8
<1> QED
  BY <1>9

\* A table grows by an entry, of which a device got ids that were free.
LEMMA TableGrows ==
  ASSUME NEW t \in Seq(Entry), NEW bm, NEW b, NEW new, bm \subseteq b, b \subseteq new,
         TableGranted(t, b, bm), NEW e \in Entry, e.type # "bad",
         e.type = "vdev" => Granted(e.ids) /\ ToSet(e.ids) \cap b = {} /\ ToSet(e.ids) \subseteq new
  PROVE  TableGranted(Append(t, e), new, bm)
<1>1. PICK a, n : a = Append(t, e) /\ n = Len(t)
  OBVIOUS
<1>2. /\ Len(a) = n + 1 /\ n \in Nat
      /\ \A i \in 1 .. n : a[i] = t[i]
      /\ a[n + 1] = e
  BY <1>1
<1>3. \A i \in 1 .. n + 1 : (i \in 1 .. n /\ a[i] = t[i]) \/ (i = n + 1 /\ a[i] = e)
  BY <1>2
<1>4. /\ \A i \in 1 .. n : t[i].type # "bad"
      /\ \A i \in 1 .. n : t[i].type = "vdev" =>
           Granted(t[i].ids) /\ ToSet(t[i].ids) \subseteq b /\ ToSet(t[i].ids) \cap bm = {}
  BY <1>1 DEF TableGranted, Devices
<1>5. \A i, j \in 1 .. n : t[i].type = "vdev" /\ t[j].type = "vdev" /\ i # j =>
        ToSet(t[i].ids) \cap ToSet(t[j].ids) = {}
  BY <1>1 DEF TableGranted, Devices
<1>6. \A i \in 1 .. n + 1 : a[i].type # "bad"
  BY <1>3, <1>4
<1>7. ASSUME NEW i \in 1 .. n + 1, a[i].type = "vdev"
      PROVE  Granted(a[i].ids) /\ ToSet(a[i].ids) \subseteq new /\ ToSet(a[i].ids) \cap bm = {}
  <2>1. CASE i \in 1 .. n
    <3>1. PICK ids : ids = t[i].ids
      OBVIOUS
    <3>2. a[i] = t[i]
      BY <1>2, <2>1
    <3>3. Granted(ids) /\ ToSet(ids) \subseteq b /\ ToSet(ids) \cap bm = {}
      BY <1>4, <1>7, <2>1, <3>1, <3>2
    <3> QED
      BY <3>1, <3>2, <3>3
  <2>2. CASE i = n + 1
    <3>1. PICK ids : ids = e.ids
      OBVIOUS
    <3>2. a[i] = e
      BY <1>2, <2>2
    <3> QED
      BY <1>7, <3>1, <3>2
  <2> QED
    BY <1>3, <2>1, <2>2
<1>8. ASSUME NEW i \in 1 .. n + 1, NEW j \in 1 .. n + 1, a[i].type = "vdev", a[j].type = "vdev", i # j
      PROVE  ToSet(a[i].ids) \cap ToSet(a[j].ids) = {}
  <2>1. CASE i \in 1 .. n /\ j \in 1 .. n
    <3>1. a[i] = t[i] /\ a[j] = t[j]
      BY <1>2, <2>1
    <3> QED
      BY <2>1, <1>5, <1>8, <3>1
  <2>2. CASE i = n + 1 /\ j \in 1 .. n
    <3>1. a[i] = e /\ a[j] = t[j]
      BY <1>2, <2>2
    <3>2. ToSet(e.ids) \cap b = {} /\ ToSet(t[j].ids) \subseteq b
      BY <1>4, <1>8, <2>2, <3>1
    <3> QED
      BY <3>1, <3>2
  <2>3. CASE j = n + 1 /\ i \in 1 .. n
    <3>1. a[j] = e /\ a[i] = t[i]
      BY <1>2, <2>3
    <3>2. ToSet(e.ids) \cap b = {} /\ ToSet(t[i].ids) \subseteq b
      BY <1>4, <1>8, <2>3, <3>1
    <3> QED
      BY <3>1, <3>2
  <2> QED
    BY <1>2, <1>8, <2>1, <2>2, <2>3
<1> QED
  BY <1>1, <1>2, <1>6, <1>7, <1>8 DEF TableGranted, Devices

\* What has been made of a table after n entries, when bm was taken before it.
Turned(acc, bm, n) ==
  /\ acc \in TableAcc /\ TableOK(acc.table) /\ Len(acc.table) = n
  /\ ~acc.shared => /\ bm \subseteq acc.bm
                    /\ acc.ok => TableGranted(acc.table, acc.bm, bm)

\* An entry that is accepted whatever ids are taken.
Accepted(e) == e.type # "bad" /\ (e.type = "vdev" => Fitting(e.ids))

\* One turn of the loop in handle_rsc_table.
LEMMA TurnMore ==
  ASSUME NEW bm \in SUBSET Ids, NEW n \in Nat, NEW acc, Turned(acc, bm, n), NEW e, EntryOK(e)
  PROVE  /\ Turned(HandleEntry(acc, e), bm, n + 1)
         /\ acc.ok /\ Accepted(e) => HandleEntry(acc, e).ok
<1>1. PICK r : r = HandleVdev(acc.bm, e.ids)
  OBVIOUS
<1>2. PICK new, b, t : new = HandleEntry(acc, e) /\ b = acc.bm /\ t = acc.table
  OBVIOUS
<1>3. acc \in TableAcc /\ t \in Seq(Entry) /\ b \in SUBSET Ids /\ Len(t) = n /\ TableOK(t)
  BY <1>2 DEF Turned, TableAcc
<1>4. /\ r \in Acc /\ Took(r, b, Len(e.ids)) /\ (Fitting(e.ids) => r.ok)
      /\ new \in TableAcc
      /\ ~acc.ok \/ e.type # "vdev" =>
           /\ new.bm = b /\ new.table = Append(t, e)
           /\ new.ok = (acc.ok /\ e.type # "bad") /\ new.shared = acc.shared
      /\ acc.ok /\ e.type = "vdev" =>
           /\ new.bm = r.bm /\ new.table = Append(t, WriteIds(e, r.ids))
           /\ new.ok = r.ok /\ new.shared = (acc.shared \/ r.shared)
  BY <1>1, <1>2, <1>3, HandleEntryCases
<1>5. ~acc.shared => bm \subseteq b /\ (acc.ok => TableGranted(t, b, bm))
  BY <1>2 DEF Turned
<1>6. acc.ok /\ Accepted(e) => new.ok
  BY <1>4 DEF Accepted
<1>7. ASSUME NEW x, EntryOK(x)
      PROVE  TableOK(Append(t, x)) /\ Len(Append(t, x)) = n + 1
  <2>1. x \in Entry
    BY <1>7 DEF EntryOK
  <2>2. PICK a : a = Append(t, x)
    OBVIOUS
  <2>3. /\ a \in Seq(Entry) /\ Len(a) = n + 1
        /\ \A i \in 1 .. n + 1 : (i \in 1 .. n /\ a[i] = t[i]) \/ a[i] = x
    BY <1>3, <2>1, <2>2
  <2>4. \A i \in 1 .. n : t[i].type = "vdev" => t[i].ids # <<>>
    BY <1>3 DEF TableOK
  <2>5. \A i \in 1 .. n + 1 : a[i].type = "vdev" => a[i].ids # <<>>
    BY <1>7, <2>3, <2>4 DEF EntryOK
  <2> QED
    BY <2>2, <2>3, <2>5 DEF TableOK
<1>8. CASE ~acc.ok \/ e.type # "vdev"
  <2>1. /\ new.bm = b /\ new.table = Append(t, e)
        /\ new.ok = (acc.ok /\ e.type # "bad") /\ new.shared = acc.shared
    BY <1>4, <1>8
  <2>2. ASSUME ~new.shared, new.ok
        PROVE  TableGranted(Append(t, e), b, bm)
    <3>1. bm \subseteq b /\ TableGranted(t, b, bm) /\ e.type # "bad" /\ e.type # "vdev" /\ e \in Entry
      BY <1>5, <1>8, <2>1, <2>2 DEF EntryOK
    <3> QED
      BY <1>3, <3>1, TableGrows
  <2>3. Turned(new, bm, n + 1)
    BY <1>4, <1>5, <1>7, <2>1, <2>2 DEF Turned
  <2> QED
    BY <1>2, <1>6, <2>3
<1>9. CASE acc.ok /\ e.type = "vdev"
  <2>1. PICK got, x : got = r.ids /\ x = WriteIds(e, got)
    OBVIOUS
  <2>2. got \in Seq(Ids)
    BY <1>4, <2>1 DEF Acc
  <2>3. EntryOK(x) /\ x.type = e.type /\ (Len(got) = Len(e.ids) => x.ids = got)
    BY <2>1, <2>2, WriteIdsFacts
  <2>4. PICK b2, a : b2 = r.bm /\ a = Append(t, x)
    OBVIOUS
  <2>5. new.bm = b2 /\ new.table = a /\ new.ok = r.ok /\ new.shared = (acc.shared \/ r.shared)
    BY <1>4, <1>9, <2>1, <2>4
  <2>6. ASSUME ~new.shared
        PROVE  bm \subseteq b2 /\ (new.ok => TableGranted(a, b2, bm))
    <3>1. bm \subseteq b /\ TableGranted(t, b, bm) /\ ~r.shared
      BY <1>5, <1>9, <2>5, <2>6
    <3>2. CASE ~r.ok
      <4>1. b2 = b
        BY <1>4, <2>4, <3>1, <3>2 DEF Took
      <4> QED
        BY <2>5, <3>1, <3>2, <4>1
    <3>3. CASE r.ok
      <4>1. Len(got) = Len(e.ids) /\ Distinct(got) /\ ToSet(got) \cap b = {} /\ b2 = b \cup ToSet(got)
        BY <1>4, <2>1, <2>4, <3>1, <3>3 DEF Took
      <4>2. x.ids = got /\ x \in Entry /\ x.type = "vdev" /\ got # <<>>
        BY <1>9, <2>3, <4>1 DEF EntryOK
      <4>3. Granted(got) /\ ToSet(got) \subseteq b2
        BY <2>2, <4>1, <4>2 DEF Granted
      <4>4. TableGranted(Append(t, x), b2, bm)
        <5>1. /\ bm \subseteq b /\ b \subseteq b2 /\ x.type # "bad"
              /\ Granted(x.ids) /\ ToSet(x.ids) \cap b = {} /\ ToSet(x.ids) \subseteq b2
          BY <3>1, <4>1, <4>2, <4>3
        <5> QED
          BY <1>3, <3>1, <4>2, <5>1, TableGrows
      <4> QED
        BY <2>4, <3>1, <4>1, <4>4
    <3> QED
      BY <3>2, <3>3
  <2>7. TableOK(a) /\ Len(a) = n + 1
    BY <1>7, <2>3, <2>4
  <2>8. Turned(new, bm, n + 1)
    BY <1>4, <2>5, <2>6, <2>7 DEF Turned
  <2> QED
    BY <1>2, <1>6, <2>8
<1> QED
  BY <1>8, <1>9

\* A table that is parsed.  One whose entries are all accepted is accepted, and a
\* table of one device that fails leaves the bitmap as it was.
LEMMA HandleTableOK ==
  ASSUME bitmap \in SUBSET Ids, NEW t, TableOK(t)
  PROVE  LET r == HandleTable(t)
         IN  /\ Turned(r, bitmap, Len(t))
             /\ (\A k \in 1 .. Len(t) : Accepted(t[k])) => r.ok
             /\ Len(t) = 1 /\ ~r.ok /\ ~r.shared => r.bm = bitmap
<1>1. PICK n, w, bm : n = Len(t) /\ w = TableWalk(t) /\ bm = bitmap
  OBVIOUS
<1>2. n \in Nat /\ t \in Seq(Entry) /\ bm \in SUBSET Ids
  BY <1>1 DEF TableOK
<1>3. /\ w[0] = [bm |-> bm, table |-> <<>>, ok |-> TRUE, shared |-> FALSE]
      /\ \A k \in 1 .. n : w[k] = HandleEntry(w[k - 1], t[k])
  BY <1>1, TableWalkFacts
<1>4. \A k \in 1 .. n : EntryOK(t[k])
  BY <1>1, <1>2, ElementOfSeq DEF TableOK, EntryOK
<1>5. PICK all \in BOOLEAN : all = \A k \in 1 .. n : Accepted(t[k])
  OBVIOUS
<1> DEFINE T == {k \in 0 .. n : Turned(w[k], bm, k) /\ (all => w[k].ok)}
<1>6. T \in SUBSET (0 .. n)
  OBVIOUS
<1>7. 0 \in T
  <2>1. PICK e : e = <<>>
    OBVIOUS
  <2>2. e \in Seq(Entry) /\ Len(e) = 0 /\ TableOK(e) /\ TableGranted(e, bm, bm)
    BY <2>1 DEF TableOK, TableGranted, Devices
  <2>3. PICK a : a = [bm |-> bm, table |-> e, ok |-> TRUE, shared |-> FALSE]
    OBVIOUS
  <2>4. a \in TableAcc /\ a.bm = bm /\ a.table = e /\ a.ok
    BY <1>2, <2>2, <2>3 DEF TableAcc
  <2>5. Turned(a, bm, 0)
    BY <2>2, <2>4 DEF Turned
  <2>6. w[0] = a /\ 0 \in 0 .. n
    BY <1>2, <1>3, <2>1, <2>3
  <2> QED
    BY <2>4, <2>5, <2>6
<1>8. ASSUME NEW k \in 1 .. n, k - 1 \in T
      PROVE  k \in T
  <2>1. k - 1 \in Nat /\ (k - 1) + 1 = k /\ k \in 0 .. n
    BY <1>2
  <2>2. PICK a, e : a = w[k - 1] /\ e = t[k]
    OBVIOUS
  <2>3. Turned(a, bm, k - 1) /\ (all => a.ok) /\ EntryOK(e)
    BY <1>4, <1>8, <2>2
  <2>4. /\ Turned(HandleEntry(a, e), bm, (k - 1) + 1)
        /\ a.ok /\ Accepted(e) => HandleEntry(a, e).ok
    BY <1>2, <2>1, <2>3, TurnMore
  <2>5. w[k] = HandleEntry(a, e) /\ (all => Accepted(e))
    BY <1>3, <1>5, <2>2
  <2>6. Turned(w[k], bm, k) /\ (all => w[k].ok)
    BY <2>1, <2>3, <2>4, <2>5
  <2> QED
    BY <2>1, <2>6
<1> HIDE DEF T
<1>9. T = 0 .. n
  BY <1>2, <1>6, <1>7, <1>8, Along
<1>10. Turned(w[n], bm, n) /\ (all => w[n].ok)
  BY <1>2, <1>9 DEF T
<1>11. ASSUME n = 1, ~w[n].ok, ~w[n].shared
       PROVE  w[n].bm = bm
  <2>1. PICK a, e, f : a = w[0] /\ e = t[1] /\ f = w[1]
    OBVIOUS
  <2>2. PICK x : x = <<>>
    OBVIOUS
  <2>3. x \in Seq(Entry)
    BY <2>2
  <2>4. a = [bm |-> bm, table |-> x, ok |-> TRUE, shared |-> FALSE]
    BY <1>3, <2>1, <2>2
  <2>5. a \in TableAcc /\ a.bm = bm /\ a.ok /\ ~a.shared
    BY <1>2, <2>3, <2>4 DEF TableAcc
  <2>6. EntryOK(e) /\ f = HandleEntry(a, e) /\ ~f.ok /\ ~f.shared
    BY <1>3, <1>4, <1>11, <2>1
  <2>7. PICK r : r = HandleVdev(a.bm, e.ids)
    OBVIOUS
  <2>8. /\ Took(r, a.bm, Len(e.ids))
        /\ ~a.ok \/ e.type # "vdev" => f.bm = a.bm
        /\ a.ok /\ e.type = "vdev" => f.bm = r.bm /\ f.ok = r.ok /\ f.shared = (a.shared \/ r.shared)
    BY <2>5, <2>6, <2>7, HandleEntryCases
  <2>9. f.bm = bm
    BY <2>5, <2>6, <2>8 DEF Took
  <2> QED
    BY <1>11, <2>1, <2>9
<1>12. HandleTable(t) = w[n]
  BY <1>1 DEF HandleTable
<1> QED
  BY <1>1, <1>5, <1>10, <1>11, <1>12

-----------------------------------------------------------------------------
(***************************************************************************)
(* The actions.                                                            *)
(***************************************************************************)
\* More ids are taken.
LEMMA MoreTaken ==
  ASSUME NEW bm, NEW new, bm \subseteq new, NEW vs, NEW t
  PROVE  /\ VdevsInv(vs, bm) => VdevsInv(vs, new)
         /\ TableGranted(t, bm, {}) => TableGranted(t, new, {})
<1>1. VdevsInv(vs, bm) => VdevsInv(vs, new)
  <2> SUFFICES ASSUME VdevsInv(vs, bm) PROVE VdevsInv(vs, new)
    OBVIOUS
  <2>1. \A k \in 1 .. Len(vs) : DevIds(vs[k]) \subseteq new
    BY DEF VdevsInv
  <2> QED
    BY <2>1 DEF VdevsInv
<1>2. TableGranted(t, bm, {}) => TableGranted(t, new, {})
  <2> SUFFICES ASSUME TableGranted(t, bm, {}) PROVE TableGranted(t, new, {})
    OBVIOUS
  <2>1. \A i \in Devices(t) : ToSet(t[i].ids) \subseteq new
    BY DEF TableGranted
  <2> QED
    BY <2>1 DEF TableGranted
<1> QED
  BY <1>1, <1>2

\* The device that is made of what a table has granted.
LEMMA DevFacts ==
  ASSUME NEW s, Granted(s)
  PROVE  /\ Dev(s) \in DevType /\ Dev(s).notifyid = Head(s)
         /\ Distinct(Dev(s).vrings) /\ Dev(s).notifyid \notin ToSet(Dev(s).vrings)
         /\ DevIds(Dev(s)) = ToSet(s)
<1>1. /\ Head(s) \in Ids /\ Head(s) \in ToSet(s)
      /\ Tail(s) \in Seq(Ids) /\ Distinct(Tail(s)) /\ ToSet(Tail(s)) = ToSet(s) \ {Head(s)}
  BY TailFacts DEF Granted
<1>2. Dev(s).notifyid = Head(s) /\ Dev(s).vrings = Tail(s) /\ Dev(s) \in DevType
  BY <1>1 DEF Dev, DevType
<1> QED
  BY <1>1, <1>2 DEF DevIds

\* No id is taken at the start.
LEMMA RprocInvInit == LifeInit => RprocInv
<1> SUFFICES ASSUME LifeInit PROVE RprocInv
  OBVIOUS
<1>1. LOADED \in Memories /\ (\A p \in Places : TableOK(Own[p])) /\ TableOK(<<>>)
  BY RprocAssumption DEF RprocAssumption, Memories, TableOK
<1>2. rscMem = [p \in Memories |-> IF p \in Places THEN Own[p] ELSE <<>>]
  BY DEF LifeInit, Memories
<1>3. \A p \in Memories : TableOK(rscMem[p])
  BY <1>1, <1>2
<1>4. rscMem \in [Memories -> Seq(Entry)]
  BY <1>1, <1>2 DEF TableOK
<1>5. MemoryInv
  BY <1>1, <1>3, <1>4 DEF MemoryInv, LifeInit
<1>6. VdevsInv(<<>>, {})
  BY DEF VdevsInv
<1> QED
  BY <1>5, <1>6 DEF LifeInit, RprocInv

\* The table in force would be accepted again.
LEMMA AcceptedAgain ==
  ASSUME NEW t, NEW bm, TableGranted(t, bm, {})
  PROVE  \A k \in 1 .. Len(t) : Accepted(t[k])
<1> SUFFICES ASSUME NEW k \in 1 .. Len(t) PROVE Accepted(t[k])
  OBVIOUS
<1>1. t[k].type # "bad"
  BY DEF TableGranted
<1>2. ASSUME t[k].type = "vdev"
      PROVE  Fitting(t[k].ids)
  <2>1. PICK ids : ids = t[k].ids
    OBVIOUS
  <2>2. ids \in Seq(Ids)
    BY <1>2, <2>1 DEF TableGranted, Devices, Granted
  <2>3. \A i \in 1 .. Len(ids) : ids[i] \in Ids
    BY <2>2, ElementOfSeq
  <2> QED
    BY <2>1, <2>3 DEF Fitting
<1> QED
  BY <1>1, <1>2 DEF Accepted

\* A table that was accepted is in force.
LEMMA AdoptKeeps ==
  ASSUME RprocInv, NEW t, TableOK(t), NEW r, r = HandleTable(t), ParseTable(r), r.ok,
         NEW p \in Memories, rscMem' = [rscMem EXCEPT ![p] = r.table], Adopt(p)
  PROVE  RprocInv'
<1>1. PICK bm, vs, new, devs : bm = bitmap /\ vs = vdevs /\ new = r.bm /\ devs = r.table
  OBVIOUS
<1>2. /\ bitmap' = new /\ shared' = (shared \/ r.shared) /\ vdevs' = vs
      /\ rsc' = p /\ current' = TRUE /\ rscMem' = [rscMem EXCEPT ![p] = devs]
  BY <1>1 DEF ParseTable, Adopt
<1>3. MemoryInv /\ bm \in SUBSET Ids /\ (~shared => VdevsInv(vs, bm))
  BY <1>1 DEF RprocInv, MemoryInv
<1>4. Turned(r, bm, Len(t))
  BY <1>1, <1>3, HandleTableOK
<1>5. /\ r \in TableAcc /\ TableOK(devs) /\ devs \in Seq(Entry) /\ new \in SUBSET Ids
      /\ r.shared \in BOOLEAN
      /\ ~r.shared => bm \subseteq new /\ TableGranted(devs, new, bm)
  BY <1>1, <1>4 DEF Turned, TableOK, TableAcc
<1>6. rscMem'[p] = devs /\ \A q \in Memories : rscMem'[q] = IF q = p THEN devs ELSE rscMem[q]
  BY <1>2, <1>3 DEF MemoryInv
<1>7. MemoryInv'
  <2>1. rscMem' \in [Memories -> Seq(Entry)]
    BY <1>2, <1>3, <1>5 DEF MemoryInv
  <2>2. \A q \in Memories : TableOK(rscMem'[q])
    BY <1>3, <1>5, <1>6 DEF MemoryInv
  <2>3. shared' \in BOOLEAN
    BY <1>2, <1>3, <1>5 DEF MemoryInv
  <2> QED
    BY <1>2, <1>5, <2>1, <2>2, <2>3 DEF MemoryInv
<1>8. ASSUME ~shared'
      PROVE  VdevsInv(vs, new) /\ TableGranted(devs, new, {}) /\ OldOrNew(vs, devs)
  <2>1. VdevsInv(vs, bm) /\ bm \subseteq new /\ TableGranted(devs, new, bm)
    BY <1>2, <1>3, <1>5, <1>8
  <2>2. VdevsInv(vs, new)
    BY <2>1, MoreTaken
  <2>3. TableGranted(devs, new, {})
    BY <2>1 DEF TableGranted
  <2>4. \A k \in 1 .. Len(vs) : DevIds(vs[k]) \subseteq bm
    BY <2>1 DEF VdevsInv
  <2>5. \A i \in Devices(devs) : ToSet(devs[i].ids) \cap bm = {}
    BY <2>1 DEF TableGranted
  <2>6. OldOrNew(vs, devs)
    BY <2>4, <2>5 DEF OldOrNew
  <2> QED
    BY <2>2, <2>3, <2>6
<1> QED
  BY <1>2, <1>6, <1>7, <1>8 DEF RprocInv

\* A table that was parsed and is not in force.
LEMMA ParseKeeps ==
  ASSUME RprocInv, NEW t, TableOK(t), ParseTable(HandleTable(t)), UNCHANGED <<rsc, current>>,
         NEW memory, rscMem' = memory,
         memory \in [Memories -> Seq(Entry)], \A p \in Memories : TableOK(memory[p]),
         ~shared /\ current => memory[rsc] = rscMem[rsc]
  PROVE  RprocInv'
<1>1. PICK bm, vs, r, new, devs : /\ bm = bitmap /\ vs = vdevs /\ r = HandleTable(t) /\ new = r.bm
                                  /\ devs = rscMem[rsc]
  OBVIOUS
<1>2. /\ bitmap' = new /\ shared' = (shared \/ r.shared) /\ vdevs' = vs
      /\ rsc' = rsc /\ current' = current
  BY <1>1 DEF ParseTable
<1>3. MemoryInv /\ bm \in SUBSET Ids
  BY <1>1 DEF RprocInv, MemoryInv
<1>4. Turned(r, bm, Len(t))
  BY <1>1, <1>3, HandleTableOK
<1>5. new \in SUBSET Ids /\ r.shared \in BOOLEAN /\ (~r.shared => bm \subseteq new)
  BY <1>1, <1>4 DEF Turned, TableAcc
<1>6. MemoryInv'
  <2>1. shared' \in BOOLEAN
    BY <1>2, <1>3, <1>5 DEF MemoryInv
  <2> QED
    BY <1>2, <1>3, <1>5, <2>1 DEF MemoryInv
<1>7. ASSUME ~shared'
      PROVE  VdevsInv(vs, new) /\ (current => TableGranted(devs, new, {}) /\ OldOrNew(vs, devs))
  <2>1. ~shared /\ bm \subseteq new
    BY <1>2, <1>5, <1>7
  <2>2. VdevsInv(vs, bm) /\ (current => TableGranted(devs, bm, {}) /\ OldOrNew(vs, devs))
    BY <1>1, <2>1 DEF RprocInv
  <2> QED
    BY <2>1, <2>2, MoreTaken
<1>8. ~shared' /\ current => rscMem'[rsc'] = devs
  BY <1>1, <1>2
<1> QED
  BY <1>2, <1>6, <1>7, <1>8 DEF RprocInv

\* remoteproc_set_rsc_table: the table in force, which it may rewrite, is not
\* rejected when it is set once more.
LEMMA SetRscTableKeeps ==
  ASSUME RprocInv, NEW p \in Memories, SetRscTable(p)
  PROVE  RprocInv'
<1>1. PICK t, r : t = rscMem[p] /\ r = HandleTable(t)
  OBVIOUS
<1>2. /\ ParseTable(r) /\ rscMem' = [rscMem EXCEPT ![p] = r.table]
      /\ IF r.ok THEN Adopt(p) ELSE UNCHANGED <<rsc, current>>
  BY <1>1 DEF SetRscTable
<1>3. MemoryInv /\ TableOK(t)
  BY <1>1 DEF RprocInv, MemoryInv
<1>4. CASE r.ok
  BY <1>1, <1>2, <1>3, <1>4, AdoptKeeps
<1>5. CASE ~r.ok
  <2>1. bitmap \in SUBSET Ids
    BY <1>3 DEF MemoryInv
  <2>2. Turned(r, bitmap, Len(t)) /\ ((\A k \in 1 .. Len(t) : Accepted(t[k])) => r.ok)
    BY <1>1, <1>3, <2>1, HandleTableOK
  <2>3. TableOK(r.table) /\ r.table \in Seq(Entry)
    BY <2>2 DEF Turned, TableOK
  <2>4. PICK memory : memory = [rscMem EXCEPT ![p] = r.table]
    OBVIOUS
  <2>5. memory \in [Memories -> Seq(Entry)] /\ \A q \in Memories : TableOK(memory[q])
    BY <1>3, <2>3, <2>4 DEF MemoryInv
  <2>6. ~shared /\ current => memory[rsc] = rscMem[rsc]
    <3>1. ASSUME ~shared, current
          PROVE  rsc # p
      <4>1. TableGranted(rscMem[rsc], bitmap, {})
        BY <3>1 DEF RprocInv
      <4>2. \A k \in 1 .. Len(rscMem[rsc]) : Accepted(rscMem[rsc][k])
        BY <4>1, AcceptedAgain
      <4> QED
        BY <1>1, <1>5, <2>2, <4>2
    <3> QED
      BY <1>3, <2>4, <3>1 DEF MemoryInv
  <2> QED
    BY <1>1, <1>2, <1>3, <1>5, <2>4, <2>5, <2>6, ParseKeeps
<1> QED
  BY <1>4, <1>5

\* A load, with the table adopted or not.
LEMMA LoadKeeps ==
  ASSUME RprocInv, NEW t \in Tables, LoadTable(t) \/ LoadFails(t)
  PROVE  RprocInv'
<1>1. PICK r : r = HandleTable(t)
  OBVIOUS
<1>2. TableOK(t) /\ MemoryInv /\ LOADED \in Memories
  BY RprocAssumption DEF RprocAssumption, RprocInv, Memories
<1>3. ParseTable(r)
  BY <1>1 DEF LoadTable, LoadFails
<1>4. CASE r.ok /\ Adopt(LOADED) /\ rscMem' = [rscMem EXCEPT ![LOADED] = r.table]
  BY <1>1, <1>2, <1>3, <1>4, AdoptKeeps
<1>5. CASE UNCHANGED <<rscMem, rsc, current>>
  <2>1. PICK memory : memory = rscMem
    OBVIOUS
  <2>2. /\ rscMem' = memory /\ memory \in [Memories -> Seq(Entry)]
        /\ (\A p \in Memories : TableOK(memory[p])) /\ memory[rsc] = rscMem[rsc]
    BY <1>2, <1>5, <2>1 DEF MemoryInv
  <2> QED
    BY <1>1, <1>2, <1>3, <1>5, <2>2, ParseKeeps
<1> QED
  BY <1>1, <1>4, <1>5 DEF LoadTable, LoadFails

\* Stopping the processor frees every id.
LEMMA StopKeeps ==
  ASSUME RprocInv, Stop
  PROVE  RprocInv'
<1>1. /\ bitmap' = {} /\ current' = FALSE /\ shared' = FALSE /\ vdevs' = <<>>
      /\ rscMem' = rscMem /\ rsc' = rsc
  BY DEF Stop, DevicesRemoved
<1>2. MemoryInv'
  BY <1>1 DEF RprocInv, MemoryInv
<1>3. VdevsInv(<<>>, {})
  BY DEF VdevsInv
<1> QED
  BY <1>1, <1>2, <1>3 DEF RprocInv

\* One more device, made of what the table in force was granted.
LEMMA CreateVirtioKeeps ==
  ASSUME RprocInv, NEW i \in VdevRsc, CreateVirtio(i)
  PROVE  RprocInv'
<1>0. PICK bm, vs, devs, n : bm = bitmap /\ vs = vdevs /\ devs = rscMem[rsc] /\ n = Len(vdevs)
  OBVIOUS
<1>1. /\ current /\ vdevs' = Append(vs, Dev(devs[i].ids))
      /\ \A k \in DOMAIN vs : vs[k].notifyid # Head(devs[i].ids)
      /\ UNCHANGED <<bitmap, rscMem, rsc, current, shared>>
  BY <1>0 DEF CreateVirtio, InForce
<1>2. MemoryInv'
  BY <1>1 DEF RprocInv, MemoryInv
<1> SUFFICES ASSUME ~shared
             PROVE  VdevsInv(vdevs', bm) /\ OldOrNew(vdevs', devs)
  BY <1>0, <1>1, <1>2 DEF RprocInv
<1>3. VdevsInv(vs, bm) /\ TableGranted(devs, bm, {}) /\ OldOrNew(vs, devs)
  BY <1>0, <1>1 DEF RprocInv
<1>4. /\ vs \in Seq(DevType) /\ n = Len(vs) /\ n \in Nat /\ DOMAIN vs = 1 .. n
      /\ i \in Devices(devs)
  <2>1. devs \in Seq(Entry)
    BY <1>0 DEF RprocInv, MemoryInv
  <2> QED
    BY <1>0, <1>3, <2>1 DEF VdevsInv, VdevRsc, InForce, Devices
<1>5. PICK s, d : s = devs[i].ids /\ d = Dev(s)
  OBVIOUS
<1>6. Granted(s) /\ ToSet(s) \subseteq bm /\ \A j \in Devices(devs) : i # j => ToSet(s) \cap ToSet(devs[j].ids) = {}
  BY <1>3, <1>4, <1>5 DEF TableGranted
<1>7. /\ d \in DevType /\ d.notifyid = Head(s) /\ Distinct(d.vrings)
      /\ d.notifyid \notin ToSet(d.vrings) /\ DevIds(d) = ToSet(s)
  BY <1>5, <1>6, DevFacts
<1>8. \A k \in 1 .. n : DevIds(vs[k]) \cap ToSet(s) = {}
  BY <1>1, <1>3, <1>4, <1>5 DEF OldOrNew
<1>9. PICK a : a = Append(vs, d)
  OBVIOUS
<1>10. /\ a \in Seq(DevType) /\ Len(a) = n + 1
       /\ \A k \in 1 .. n + 1 : (k \in 1 .. n /\ a[k] = vs[k]) \/ (k = n + 1 /\ a[k] = d)
  BY <1>4, <1>7, <1>9
<1>11. VdevsInv(a, bm)
  <2>1. \A k \in 1 .. n : /\ Distinct(vs[k].vrings) /\ vs[k].notifyid \notin ToSet(vs[k].vrings)
                          /\ DevIds(vs[k]) \subseteq bm
    BY <1>3, <1>4 DEF VdevsInv
  <2>2. \A j, k \in 1 .. n : j # k => DevIds(vs[j]) \cap DevIds(vs[k]) = {}
    BY <1>3, <1>4 DEF VdevsInv
  <2>3. \A k \in 1 .. n + 1 : /\ Distinct(a[k].vrings) /\ a[k].notifyid \notin ToSet(a[k].vrings)
                              /\ DevIds(a[k]) \subseteq bm
    BY <1>6, <1>7, <1>10, <2>1
  <2>4. ASSUME NEW j \in 1 .. n + 1, NEW k \in 1 .. n + 1, j # k
        PROVE  DevIds(a[j]) \cap DevIds(a[k]) = {}
    <3>1. CASE j \in 1 .. n /\ k \in 1 .. n
      <4>1. a[j] = vs[j] /\ a[k] = vs[k]
        BY <1>4, <1>10, <3>1
      <4> QED
        BY <2>2, <2>4, <3>1, <4>1
    <3>2. CASE j = n + 1 /\ k \in 1 .. n
      <4>1. a[j] = d /\ a[k] = vs[k]
        BY <1>4, <1>10, <3>2
      <4> QED
        BY <1>7, <1>8, <3>2, <4>1
    <3>3. CASE k = n + 1 /\ j \in 1 .. n
      <4>1. a[k] = d /\ a[j] = vs[j]
        BY <1>4, <1>10, <3>3
      <4> QED
        BY <1>7, <1>8, <3>3, <4>1
    <3> QED
      BY <1>4, <2>4, <3>1, <3>2, <3>3
  <2> QED
    BY <1>10, <2>3, <2>4 DEF VdevsInv
<1>12. OldOrNew(a, devs)
  <2>1. ASSUME NEW k \in 1 .. n + 1, NEW j \in Devices(devs)
        PROVE  \/ DevIds(a[k]) \cap ToSet(devs[j].ids) = {}
               \/ a[k].notifyid = Head(devs[j].ids) /\ DevIds(a[k]) = ToSet(devs[j].ids)
    <3>1. CASE k \in 1 .. n
      <4>1. a[k] = vs[k]
        BY <1>4, <1>10, <3>1
      <4> QED
        BY <1>3, <1>4, <3>1, <4>1 DEF OldOrNew
    <3>2. CASE k = n + 1
      <4>1. a[k] = d
        BY <1>4, <1>10, <3>2
      <4> QED
        BY <1>5, <1>6, <1>7, <4>1
    <3> QED
      BY <1>4, <3>1, <3>2
  <2> QED
    BY <1>10, <2>1 DEF OldOrNew
<1> QED
  BY <1>1, <1>5, <1>9, <1>11, <1>12

\* One device fewer.
LEMMA RemoveVirtioKeeps ==
  ASSUME RprocInv, NEW m \in DOMAIN vdevs, RemoveVirtio(m)
  PROVE  RprocInv'
<1>0. PICK bm, vs, devs, n : bm = bitmap /\ vs = vdevs /\ devs = rscMem[rsc] /\ n = Len(vdevs)
  OBVIOUS
<1>1. vdevs' = RemoveAt(vs, m) /\ UNCHANGED <<bitmap, rscMem, rsc, current, shared>>
  BY <1>0 DEF RemoveVirtio
<1>2. MemoryInv'
  BY <1>1 DEF RprocInv, MemoryInv
<1> SUFFICES ASSUME ~shared
             PROVE  VdevsInv(vdevs', bm) /\ (current => OldOrNew(vdevs', devs))
  BY <1>0, <1>1, <1>2 DEF RprocInv
<1>11. VdevsInv(vs, bm) /\ (current => OldOrNew(vs, devs))
  BY <1>0 DEF RprocInv
<1>3. vs \in Seq(DevType) /\ n = Len(vs) /\ n \in Nat /\ m \in 1 .. n
  BY <1>0, <1>11 DEF VdevsInv
<1>4. PICK a : a = RemoveAt(vs, m)
  OBVIOUS
<1>5. /\ a \in Seq(DevType) /\ Len(a) = n - 1
      /\ \A k \in 1 .. n - 1 : a[k] = vs[IF k < m THEN k ELSE k + 1]
  BY <1>3, <1>4, RemoveAtFacts
<1> DEFINE g(k) == IF k < m THEN k ELSE k + 1
<1>6. /\ \A k \in 1 .. n - 1 : g(k) \in 1 .. n /\ a[k] = vs[g(k)]
      /\ \A j, k \in 1 .. n - 1 : j # k => g(j) # g(k)
  BY <1>3, <1>5
<1> HIDE DEF g
<1>7. VdevsInv(a, bm)
  <2>1. \A k \in 1 .. n : /\ Distinct(vs[k].vrings) /\ vs[k].notifyid \notin ToSet(vs[k].vrings)
                          /\ DevIds(vs[k]) \subseteq bm
    BY <1>3, <1>11 DEF VdevsInv
  <2>2. \A j, k \in 1 .. n : j # k => DevIds(vs[j]) \cap DevIds(vs[k]) = {}
    BY <1>3, <1>11 DEF VdevsInv
  <2>3. \A k \in 1 .. n - 1 : /\ Distinct(a[k].vrings) /\ a[k].notifyid \notin ToSet(a[k].vrings)
                              /\ DevIds(a[k]) \subseteq bm
    BY <1>6, <2>1
  <2>4. \A j, k \in 1 .. n - 1 : j # k => DevIds(a[j]) \cap DevIds(a[k]) = {}
    BY <1>6, <2>2
  <2> QED
    BY <1>5, <2>3, <2>4 DEF VdevsInv
<1>8. current => OldOrNew(a, devs)
  <2> SUFFICES ASSUME current PROVE OldOrNew(a, devs)
    OBVIOUS
  <2>1. \A k \in 1 .. n, i \in Devices(devs) :
          \/ DevIds(vs[k]) \cap ToSet(devs[i].ids) = {}
          \/ vs[k].notifyid = Head(devs[i].ids) /\ DevIds(vs[k]) = ToSet(devs[i].ids)
    BY <1>3, <1>11 DEF OldOrNew
  <2>2. ASSUME NEW k \in 1 .. n - 1, NEW i \in Devices(devs)
        PROVE  \/ DevIds(a[k]) \cap ToSet(devs[i].ids) = {}
               \/ a[k].notifyid = Head(devs[i].ids) /\ DevIds(a[k]) = ToSet(devs[i].ids)
    <3>1. g(k) \in 1 .. n /\ a[k] = vs[g(k)]
      BY <1>6
    <3> QED
      BY <2>1, <3>1
  <2> QED
    BY <1>5, <2>2 DEF OldOrNew
<1> QED
  BY <1>1, <1>4, <1>7, <1>8

\* Every call keeps RprocInv.
LEMMA RprocInductive == RprocInv /\ [LifeNext]_lifeVars => RprocInv'
<1> SUFFICES ASSUME RprocInv, [LifeNext]_lifeVars PROVE RprocInv'
  OBVIOUS
<1>1. CASE Config \/ Start \/ Shutdown \/ UNCHANGED lifeVars
  <2>1. UNCHANGED <<bitmap, rscMem, rsc, vdevs, current, shared>>
    BY <1>1 DEF Config, Start, Shutdown, lifeVars
  <2> QED
    BY <2>1 DEF RprocInv, MemoryInv
<1>2. CASE Stop
  BY <1>2, StopKeeps
<1>3. CASE \E p \in Places \cup {LOADED} : SetRscTable(p)
  BY <1>3, SetRscTableKeeps DEF Memories
<1>4. CASE \E t \in Tables : Load(t) \/ LoadFails(t) \/ LoadNoblock(t)
  BY <1>4, LoadKeeps DEF Load, LoadNoblock
<1>5. CASE \E i \in VdevRsc : CreateVirtio(i)
  BY <1>5, CreateVirtioKeeps
<1>6. CASE \E k \in DOMAIN vdevs : RemoveVirtio(k)
  BY <1>6, RemoveVirtioKeeps
<1> QED
  BY <1>1, <1>2, <1>3, <1>4, <1>5, <1>6 DEF LifeNext

-----------------------------------------------------------------------------
(***************************************************************************)
(* What the invariant gives.                                               *)
(***************************************************************************)
\* A set without two elements.
LEMMA AtMostOne ==
  ASSUME NEW S, \A x, y \in S : x = y
  PROVE  Cardinality(S) <= 1
<1>1. CASE S = {}
  BY <1>1, FS_EmptySet
<1>2. CASE S # {}
  <2>1. PICK x \in S : TRUE
    BY <1>2
  <2>2. S = {x}
    BY <2>1
  <2>3. Cardinality({x}) = 1
    BY FS_Singleton
  <2> QED
    BY <2>2, <2>3
<1> QED
  BY <1>1, <1>2

\* Different ids within a device and between devices leave each id one listener.
LEMMA RprocInvListener == RprocInv => OneListener
<1> SUFFICES ASSUME RprocInv, ~shared
             PROVE  IdsUnique /\ \A id \in 0 .. BITS - 1 : Cardinality(Notified(id)) <= 1
  BY DEF OneListener
<1>1. PICK bm, vs, devs : bm = bitmap /\ vs = vdevs /\ devs = rscMem[rsc]
  OBVIOUS
<1>2. VdevsInv(vs, bm) /\ (current => TableGranted(devs, bm, {}))
  BY <1>1 DEF RprocInv
<1>3. /\ vs \in Seq(DevType) /\ Len(vs) \in Nat /\ DOMAIN vs = 1 .. Len(vs)
      /\ \A k \in 1 .. Len(vs) : Distinct(vs[k].vrings) /\ vs[k].notifyid \notin ToSet(vs[k].vrings)
      /\ \A j, k \in 1 .. Len(vs) : j # k => DevIds(vs[j]) \cap DevIds(vs[k]) = {}
  <2>1. vs \in Seq(DevType)
    BY <1>2 DEF VdevsInv
  <2>2. /\ \A k \in 1 .. Len(vs) : Distinct(vs[k].vrings) /\ vs[k].notifyid \notin ToSet(vs[k].vrings)
        /\ \A j, k \in 1 .. Len(vs) : j # k => DevIds(vs[j]) \cap DevIds(vs[k]) = {}
    BY <1>2, Zenon DEF VdevsInv
  <2>3. Len(vs) \in Nat /\ DOMAIN vs = 1 .. Len(vs)
    BY <2>1
  <2> QED
    BY <2>1, <2>2, <2>3, Zenon
<1>4. ASSUME NEW id \in 0 .. BITS - 1
      PROVE  Cardinality(Notified(id)) <= 1
  <2>1. PICK S : S = Notified(id)
    OBVIOUS
  <2>2. ASSUME NEW x \in S
        PROVE  \E k \in 1 .. Len(vs), v \in 1 .. BITS :
                 x = <<k, v>> /\ v \in 1 .. Len(vs[k].vrings) /\ id = vs[k].vrings[v]
    <3>1. PICK k \in 1 .. Len(vs), v \in 1 .. BITS :
            /\ x = <<k, v>> /\ v \in DOMAIN vs[k].vrings /\ id \in {vs[k].vrings[v], ANY}
      BY <1>1, <2>1, <2>2 DEF Notified
    <3>2. vs[k] \in DevType
      BY <1>3, ElementOfSeq
    <3>3. vs[k].vrings \in Seq(Ids)
      BY <3>2 DEF DevType
    <3>4. DOMAIN vs[k].vrings = 1 .. Len(vs[k].vrings)
      BY <3>3
    <3>5. id # ANY
      BY DEF ANY
    <3> QED
      BY <3>1, <3>4, <3>5
  <2>3. ASSUME NEW x \in S, NEW y \in S
        PROVE  x = y
    <3>1. PICK k \in 1 .. Len(vs), v \in 1 .. BITS :
            x = <<k, v>> /\ v \in 1 .. Len(vs[k].vrings) /\ id = vs[k].vrings[v]
      BY <2>2
    <3>2. PICK j \in 1 .. Len(vs), u \in 1 .. BITS :
            y = <<j, u>> /\ u \in 1 .. Len(vs[j].vrings) /\ id = vs[j].vrings[u]
      BY <2>2
    <3>3. ASSUME NEW i \in 1 .. Len(vs), NEW q \in 1 .. Len(vs[i].vrings), id = vs[i].vrings[q]
          PROVE  id \in DevIds(vs[i])
      <4>1. vs[i] \in DevType
        BY <1>3, ElementOfSeq
      <4>2. vs[i].vrings \in Seq(Ids)
        BY <4>1 DEF DevType
      <4>3. id \in ToSet(vs[i].vrings)
        BY <3>3, <4>2 DEF ToSet
      <4> QED
        BY <4>3 DEF DevIds
    <3>4. id \in DevIds(vs[k]) /\ id \in DevIds(vs[j])
      BY <3>1, <3>2, <3>3
    <3>5. k = j
      BY <1>3, <3>4
    <3>6. v = u
      BY <1>3, <3>1, <3>2, <3>5 DEF Distinct
    <3> QED
      BY <3>1, <3>2, <3>5, <3>6
  <2>4. Cardinality(S) <= 1
    BY <2>3, AtMostOne
  <2> QED
    BY <2>1, <2>4
<1>5. IdsUnique
  <2>1. devs \in Seq(Entry)
    BY <1>1 DEF RprocInv, MemoryInv
  <2>2. VdevRsc = Devices(devs)
    BY <1>1, <2>1 DEF VdevRsc, InForce, Devices
  <2>3. current => \A i, j \in Devices(devs) : i # j => ToSet(devs[i].ids) \cap ToSet(devs[j].ids) = {}
    BY <1>2 DEF TableGranted
  <2> QED
    BY <1>1, <1>3, <2>2, <2>3 DEF IdsUnique, InForce
<1> QED
  BY <1>4, <1>5

\* The ids in use are taken, and a failed device leaves the bitmap as it was.
LEMMA RprocInvIds == RprocInv => IdsExact
<1> SUFFICES ASSUME RprocInv PROVE IdsReserved /\ RollbackExact
  BY DEF IdsExact
<1>1. PICK bm, vs, devs : bm = bitmap /\ vs = vdevs /\ devs = rscMem[rsc]
  OBVIOUS
<1>2. ASSUME ~shared
      PROVE  /\ current => TableIds \subseteq bm
             /\ \A k \in DOMAIN vs : DevIds(vs[k]) \subseteq bm
  <2>1. VdevsInv(vs, bm) /\ (current => TableGranted(devs, bm, {}))
    BY <1>1, <1>2 DEF RprocInv
  <2>2. \A k \in DOMAIN vs : DevIds(vs[k]) \subseteq bm
    <3>1. DOMAIN vs = 1 .. Len(vs)
      BY <2>1 DEF VdevsInv
    <3> QED
      BY <2>1, <3>1 DEF VdevsInv
  <2>3. devs \in Seq(Entry)
    BY <1>1 DEF RprocInv, MemoryInv
  <2>4. VdevRsc = Devices(devs)
    BY <1>1, <2>3 DEF VdevRsc, InForce, Devices
  <2>5. current => \A i \in Devices(devs) : ToSet(devs[i].ids) \subseteq bm
    BY <2>1 DEF TableGranted
  <2>6. current => TableIds \subseteq bm
    BY <1>1, <2>4, <2>5 DEF TableIds, InForce
  <2> QED
    BY <2>2, <2>6
<1>3. IdsReserved
  BY <1>1, <1>2 DEF IdsReserved
<1>4. RollbackExact
  <2> SUFFICES ASSUME NEW t \in Tables \cup {rscMem[p] : p \in Places}, NEW r, r = HandleTable(t),
                      Len(t) = 1, ~r.ok, ~r.shared
               PROVE  r.bm = bitmap
    BY DEF RollbackExact
  <2>1. bitmap \in SUBSET Ids /\ TableOK(t)
    BY RprocAssumption DEF RprocAssumption, RprocInv, MemoryInv, Memories
  <2> QED
    BY <2>1, HandleTableOK
<1> QED
  BY <1>3, <1>4

\* Whatever tables are parsed, anew or once more, adopted or given up, and
\* whatever devices come and go, as long as no id was handed out that was taken: a
\* notification id reaches one vring, no two devices share an id, in the table in
\* force or among those that exist (rproc_virtio_notified,
\* remoteproc_get_notification).
THEOREM NotificationsHaveOneListener == LifeSpec => []OneListener
  BY RprocInvInit, RprocInductive, RprocInvListener, PTL DEF LifeSpec

\* Under the same condition the bitmap is exact: what the table in force or a
\* device uses is taken, and a device that gets less than it asks for gives all of
\* it back (handle_vdev_rsc, label err).
THEOREM IdsAreExact == LifeSpec => []IdsExact
  BY RprocInvInit, RprocInductive, RprocInvIds, PTL DEF LifeSpec

-----------------------------------------------------------------------------
(***************************************************************************)
(* When no id is handed out that is taken.                                 *)
(***************************************************************************)
\* W ids are enough for the table, and each id that it asks for by its number
\* lies above the R - 1 lowest: with fewer than R taken every search finds one.
FitsIn(t, W, R) ==
  /\ \E d \in [0 .. Len(t) -> 0 .. W] :
       d[0] = 0 /\ \A k \in 1 .. Len(t) : d[k] = d[k - 1] + Len(t[k].ids)
  /\ \A k \in 1 .. Len(t) : \A j \in 1 .. Len(t[k].ids) :
       t[k].ids[j] # ANY => t[k].ids[j] + 1 >= R

\* There are W ids for each table that is parsed between two calls of stop.
IdsFitIn(W) ==
  /\ W * MaxTables <= BITS
  /\ \A t \in Tables \cup {Own[p] : p \in Places} : FitsIn(t, W, W * MaxTables)

IdsFit == \E W \in Nat : IdsFitIn(W)

\* A client sets a table only as it put it there, not as a parse has left it.
TablesAnew == \A p \in Memories : SetRscTable(p) => p \in Places /\ rscMem[p] = Own[p]

CountInv(W) ==
  ~shared /\ parsed \in 0 .. MaxTables /\ Cardinality(bitmap) <= parsed * W

\* A bitmap can be counted.
LEMMA IdsFinite ==
  ASSUME NEW bm \in SUBSET Ids
  PROVE  IsFiniteSet(bm) /\ Cardinality(bm) \in Nat
<1>1. BITS \in Nat \ {0}
  BY RprocAssumption DEF RprocAssumption
<1>2. IsFiniteSet(Ids)
  BY <1>1, FS_Interval DEF Ids
<1>3. IsFiniteSet(bm)
  BY <1>2, FS_Subset
<1> QED
  BY <1>3, FS_CardinalityType

\* A set with fewer than e elements leaves one of the first e numbers out.
LEMMA FreeBelow ==
  ASSUME NEW bm, IsFiniteSet(bm), NEW e \in Nat, Cardinality(bm) < e
  PROVE  \E x \in 0 .. e - 1 : x \notin bm
<1> SUFFICES ASSUME 0 .. e - 1 \subseteq bm PROVE FALSE
  OBVIOUS
<1>1. Cardinality(0 .. e - 1) <= Cardinality(bm)
  BY FS_Subset
<1>2. Cardinality(0 .. e - 1) = IF 0 > e - 1 THEN 0 ELSE (e - 1) - 0 + 1
  BY FS_Interval
<1>3. Cardinality(bm) \in Nat
  BY FS_CardinalityType
<1> QED
  BY <1>1, <1>2, <1>3

\* The search finds a clear bit below its end if there is one.
LEMMA FindsClear ==
  ASSUME NEW bm, NEW s \in Nat, NEW e \in Nat, s < e, NEW x \in 0 .. e - 1, x \notin bm
  PROVE  NextClearBit(bm, s, e) \in 0 .. e - 1 /\ NextClearBit(bm, s, e) \notin bm
<1> DEFINE S == {d \in 0 .. e - 1 : (s + d) % e \notin bm}
           T == S \cup {e}
<1>1. \E d \in S : TRUE
  <2>1. CASE x >= s
    <3>1. PICK d \in 0 .. e - 1 : s + d = x
      <4>1. x - s \in 0 .. e - 1 /\ s + (x - s) = x
        BY <2>1
      <4> QED
        BY <4>1
    <3>2. x % e = x
      OBVIOUS
    <3>3. (s + d) % e = x
      BY <3>1, <3>2
    <3> QED
      BY <3>3
  <2>2. CASE x < s
    <3>1. PICK d \in 0 .. e - 1 : s + d = x + e
      <4>1. x + e - s \in 0 .. e - 1 /\ s + (x + e - s) = x + e
        BY <2>2
      <4> QED
        BY <4>1
    <3>2. (x + e) % e = x
      <4>1. e \in Nat \ {0} /\ x \in Nat /\ x % e = x
        OBVIOUS
      <4>2. e % e = 0
        <5>1. e % e \in 0 .. e - 1 /\ \E q \in Int : e = e * q + (e % e)
          BY <4>1, DivMod
        <5>2. PICK q \in Int : e = e * q + (e % e)
          BY <5>1
        <5>3. PICK r \in 0 .. e - 1 : r = e % e
          BY <5>1
        <5>4. e * 1 + 0 = e * q + r /\ 0 \in 0 .. e - 1
          BY <4>1, <5>2, <5>3
        <5>5. 0 = r
          BY <4>1, <5>4, RemainderUnique
        <5> QED
          BY <5>3, <5>5
      <4> QED
        BY <4>1, <4>2, ModWrap
    <3>3. (s + d) % e = x
      BY <3>1, <3>2
    <3> QED
      BY <3>3
  <2> QED
    BY <2>1, <2>2
<1>2. S \in SUBSET (0 .. e - 1)
  OBVIOUS
<1>3. \A d \in S : (s + d) % e \notin bm
  OBVIOUS
<1>4. NextClearBit(bm, s, e) = (s + Min(T)) % e
  BY DEF NextClearBit
<1> HIDE DEF S
<1>5. T \in SUBSET Nat /\ T # {}
  BY <1>2
<1>6. Min(T) \in T /\ \A y \in T : Min(T) <= y
  <2> HIDE DEF T
  <2> QED
    BY <1>5, MinIsLeast
<1>7. PICK m : m = Min(T)
  OBVIOUS
<1>8. m \in T /\ \A y \in T : m <= y
  BY <1>6, <1>7
<1>9. m \in S
  <2>1. PICK d \in S : TRUE
    BY <1>1
  <2>2. m <= d /\ d < e
    BY <1>2, <1>8, <2>1
  <2>3. m # e
    BY <1>2, <2>1, <2>2
  <2> QED
    BY <1>8, <2>3
<1>10. (s + m) % e \notin bm
  BY <1>3, <1>9
<1>11. s + m \in Nat /\ e \in Nat \ {0}
  BY <1>2, <1>9
<1>12. (s + m) % e \in 0 .. e - 1
  BY <1>11, DivMod
<1> QED
  BY <1>4, <1>7, <1>10, <1>12

\* With fewer than R ids taken, all requests for a number being at least R - 1,
\* an allocation gives an id that was free, or nothing.
LEMMA AllocateFree ==
  ASSUME NEW bm \in SUBSET Ids, NEW R \in Nat, R <= BITS, Cardinality(bm) < R,
         NEW req \in Nat \cup {ANY}, req # ANY => req + 1 >= R
  PROVE  LET id == IdFor(bm, req)
         IN  id # ANY => id \in Ids /\ id \notin bm
<1>0. BITS \in Nat \ {0} /\ ANY = -1
  BY RprocAssumption DEF RprocAssumption, ANY
<1>1. IsFiniteSet(bm) /\ Cardinality(bm) \in Nat
  BY IdsFinite
<1>2. CASE req = ANY
  <2>1. PICK x \in 0 .. BITS - 1 : x \notin bm
    <3>1. Cardinality(bm) < BITS
      BY <1>0, <1>1
    <3> QED
      BY <1>0, <1>1, <3>1, FreeBelow
  <2>2. NextClearBit(bm, 0, BITS) \in 0 .. BITS - 1 /\ NextClearBit(bm, 0, BITS) \notin bm
    BY <1>0, <2>1, FindsClear
  <2> QED
    BY <1>0, <1>2, <2>2 DEF IdFor, AllocateId, Ids
<1>3. CASE req # ANY
  <2>1. req \in Nat /\ req + 1 \in Nat /\ req < req + 1 /\ req + 1 # ANY /\ Cardinality(bm) < req + 1
    BY <1>0, <1>1, <1>3
  <2>2. PICK x \in 0 .. (req + 1) - 1 : x \notin bm
    BY <1>1, <2>1, FreeBelow
  <2>3. NextClearBit(bm, req, req + 1) \in 0 .. (req + 1) - 1 /\ NextClearBit(bm, req, req + 1) \notin bm
    BY <2>1, <2>2, FindsClear
  <2>4. req < BITS => NextClearBit(bm, req, req + 1) \in Ids
    BY <1>0, <2>1, <2>3 DEF Ids
  <2> QED
    BY <1>0, <1>3, <2>1, <2>3, <2>4 DEF IdFor, AllocateId
<1> QED
  BY <1>2, <1>3

\* What a device has after n requests, when bm was taken before it.
Counted(acc, bm, n) ==
  ~acc.shared /\ acc.bm \in SUBSET Ids /\ Cardinality(acc.bm) <= Cardinality(bm) + n

\* One more request, with fewer than R ids taken.
LEMMA CountMore ==
  ASSUME NEW bm \in SUBSET Ids, NEW n \in Nat, NEW acc \in Acc, Counted(acc, bm, n), NEW req \in Request,
         NEW R \in Nat, R <= BITS, Cardinality(bm) + n < R, req # ANY => req + 1 >= R
  PROVE  Counted(TakeId(acc, req), bm, n + 1)
<1>1. PICK b, id, new : b = acc.bm /\ id = IdFor(acc.bm, req) /\ new = TakeId(acc, req)
  OBVIOUS
<1>2. /\ b \in SUBSET Ids /\ Cardinality(b) <= Cardinality(bm) + n /\ ~acc.shared
      /\ IsFiniteSet(b) /\ Cardinality(b) \in Nat /\ Cardinality(bm) \in Nat
  BY <1>1, IdsFinite DEF Counted
<1>3. /\ new \in Acc
      /\ ~acc.ok => new = acc
      /\ acc.ok /\ id = ANY => new.bm = b \ ToSet(acc.ids) /\ new.shared = acc.shared
      /\ acc.ok /\ id # ANY => id \in Ids /\ new.bm = b \cup {id} /\ new.shared = (acc.shared \/ id \in b)
  BY <1>1, TakeIdCases
<1>4. id # ANY => id \notin b
  <2>1. Cardinality(b) < R /\ req \in Nat \cup {ANY} /\ id = IdFor(b, req)
    BY <1>1, <1>2 DEF Request
  <2> QED
    BY <1>2, <2>1, AllocateFree
<1>5. CASE ~acc.ok
  BY <1>1, <1>2, <1>3, <1>5 DEF Counted
<1>6. CASE acc.ok /\ id = ANY
  <2>1. PICK b2 : b2 = b \ ToSet(acc.ids)
    OBVIOUS
  <2>2. b2 \subseteq b
    BY <2>1
  <2>3. Cardinality(b2) <= Cardinality(b) /\ b2 \in SUBSET Ids
    BY <1>2, <2>2, FS_Subset
  <2>4. Cardinality(b2) \in Nat
    BY <2>3, IdsFinite
  <2>5. Cardinality(b2) <= Cardinality(bm) + (n + 1)
    BY <1>2, <2>3, <2>4
  <2> QED
    BY <1>1, <1>2, <1>3, <1>6, <2>1, <2>3, <2>5 DEF Counted
<1>7. CASE acc.ok /\ id # ANY
  <2>1. Cardinality(b \cup {id}) = Cardinality(b) + 1
    BY <1>2, <1>4, <1>7, FS_AddElement
  <2>2. b \cup {id} \in SUBSET Ids
    BY <1>2, <1>3, <1>7
  <2>3. Cardinality(b \cup {id}) <= Cardinality(bm) + (n + 1)
    BY <1>2, <2>1
  <2> QED
    BY <1>1, <1>2, <1>3, <1>4, <1>7, <2>2, <2>3 DEF Counted
<1> QED
  BY <1>5, <1>6, <1>7

\* The requests of a device.
Requests(ids, R) ==
  /\ ids \in Seq(Request)
  /\ \A j \in 1 .. Len(ids) : ids[j] # ANY => ids[j] + 1 >= R

LEMMA HandleVdevCount ==
  ASSUME NEW bm \in SUBSET Ids, NEW ids, NEW R \in Nat, R <= BITS, Requests(ids, R),
         Cardinality(bm) + Len(ids) <= R
  PROVE  Counted(HandleVdev(bm, ids), bm, Len(ids))
<1>0. ids \in Seq(Request) /\ Len(ids) \in Nat /\ Cardinality(bm) \in Nat
  BY IdsFinite DEF Requests
<1>1. PICK n, w : n = Len(ids) /\ w = TakeWalk(bm, ids)
  OBVIOUS
<1>2. /\ w[0] = [bm |-> bm, ids |-> <<>>, ok |-> TRUE, shared |-> FALSE]
      /\ \A k \in 0 .. n : w[k] \in Acc
      /\ \A k \in 1 .. n : w[k] = TakeId(w[k - 1], ids[k])
  BY <1>0, <1>1, TakeWalkFacts
<1> DEFINE T == {k \in 0 .. n : Counted(w[k], bm, k)}
<1>3. T \in SUBSET (0 .. n)
  OBVIOUS
<1>4. 0 \in T
  <2>1. w[0].bm = bm /\ w[0].shared = FALSE
    BY <1>2
  <2>2. Counted(w[0], bm, 0) /\ 0 \in 0 .. n
    BY <1>0, <1>1, <2>1 DEF Counted
  <2> QED
    BY <2>2
<1>5. ASSUME NEW k \in 1 .. n, k - 1 \in T
      PROVE  k \in T
  <2>1. k - 1 \in Nat /\ (k - 1) + 1 = k /\ k \in 1 .. Len(ids) /\ k \in 0 .. n /\ k - 1 \in 0 .. n
    BY <1>0, <1>1
  <2>2. PICK a, q : a = w[k - 1] /\ q = ids[k]
    OBVIOUS
  <2>3. Counted(a, bm, k - 1) /\ a \in Acc
    BY <1>2, <1>5, <2>1, <2>2
  <2>4. q \in Request /\ (q # ANY => q + 1 >= R)
    BY <1>0, <2>1, <2>2, ElementOfSeq DEF Requests
  <2>5. Cardinality(bm) + (k - 1) < R
    BY <1>0, <1>1, <2>1
  <2>6. Counted(TakeId(a, q), bm, (k - 1) + 1)
    BY <2>1, <2>3, <2>4, <2>5, CountMore
  <2>7. Counted(w[k], bm, k)
    BY <1>2, <2>1, <2>2, <2>6
  <2> QED
    BY <2>1, <2>7
<1> HIDE DEF T
<1>6. T = 0 .. n
  BY <1>0, <1>1, <1>3, <1>4, <1>5, Along
<1>7. Counted(w[n], bm, n)
  BY <1>0, <1>1, <1>6 DEF T
<1> QED
  BY <1>1, <1>7 DEF HandleVdev

\* A table that fits is parsed without an id that is taken.
LEMMA HandleTableCount ==
  ASSUME bitmap \in SUBSET Ids, NEW t, TableOK(t), NEW W \in Nat, NEW R \in Nat, R <= BITS, FitsIn(t, W, R),
         Cardinality(bitmap) + W <= R
  PROVE  Counted(HandleTable(t), bitmap, W)
<1>1. PICK n, w, bm : n = Len(t) /\ w = TableWalk(t) /\ bm = bitmap
  OBVIOUS
<1>2. /\ n \in Nat /\ t \in Seq(Entry) /\ bm \in SUBSET Ids /\ Cardinality(bm) \in Nat
      /\ Cardinality(bm) + W <= R
  BY <1>1, IdsFinite DEF TableOK
<1>3. /\ w[0] = [bm |-> bm, table |-> <<>>, ok |-> TRUE, shared |-> FALSE]
      /\ \A k \in 1 .. n : w[k] = HandleEntry(w[k - 1], t[k])
  BY <1>1, TableWalkFacts
<1>4. PICK d \in [0 .. n -> 0 .. W] : d[0] = 0 /\ \A k \in 1 .. n : d[k] = d[k - 1] + Len(t[k].ids)
  BY <1>1 DEF FitsIn
<1>5. \A k \in 1 .. n : EntryOK(t[k]) /\ Requests(t[k].ids, R)
  <2> TAKE k \in 1 .. n
  <2>1. EntryOK(t[k])
    BY <1>1, <1>2, ElementOfSeq DEF TableOK, EntryOK
  <2>2. t[k].ids \in Seq(Request)
    BY <2>1 DEF EntryOK, Entry, Request
  <2> QED
    BY <1>1, <2>1, <2>2 DEF FitsIn, Requests
<1> DEFINE T == {k \in 0 .. n : w[k] \in TableAcc /\ Counted(w[k], bm, d[k])}
<1>6. T \in SUBSET (0 .. n)
  OBVIOUS
<1>7. 0 \in T
  <2>1. w[0] \in TableAcc /\ w[0].bm = bm /\ w[0].shared = FALSE
    BY <1>2, <1>3 DEF TableAcc
  <2>2. Counted(w[0], bm, d[0]) /\ 0 \in 0 .. n
    BY <1>2, <1>4, <2>1 DEF Counted
  <2> QED
    BY <2>1, <2>2
<1>8. ASSUME NEW k \in 1 .. n, k - 1 \in T
      PROVE  k \in T
  <2>1. k - 1 \in 0 .. n /\ k \in 0 .. n
    BY <1>2
  <2>2. PICK a, e, c : a = w[k - 1] /\ e = t[k] /\ c = d[k - 1]
    OBVIOUS
  <2>3. a \in TableAcc /\ Counted(a, bm, c) /\ EntryOK(e) /\ Requests(e.ids, R)
    BY <1>5, <1>8, <2>2
  <2>4. PICK b, ids, r : b = a.bm /\ ids = e.ids /\ r = HandleVdev(b, ids)
    OBVIOUS
  <2>5. b \in SUBSET Ids /\ Cardinality(b) \in Nat /\ Cardinality(b) <= Cardinality(bm) + c /\ ~a.shared
    BY <2>3, <2>4, IdsFinite DEF Counted
  <2>6. c \in Nat /\ Len(ids) \in Nat /\ d[k] = c + Len(ids) /\ c + Len(ids) <= W
    <3>1. c \in 0 .. W /\ d[k] \in 0 .. W
      BY <1>4, <2>1, <2>2
    <3>2. d[k] = c + Len(ids)
      BY <1>4, <2>2, <2>4
    <3>3. Len(ids) \in Nat
      BY <2>3, <2>4 DEF Requests
    <3> QED
      BY <3>1, <3>2, <3>3
  <2>7. Cardinality(b) + Len(ids) <= R
    BY <1>2, <2>5, <2>6
  <2>8. Counted(r, b, Len(ids))
    BY <2>3, <2>4, <2>5, <2>7, HandleVdevCount
  <2>9. PICK new : new = HandleEntry(a, e)
    OBVIOUS
  <2>10. /\ new \in TableAcc
         /\ ~a.ok \/ e.type # "vdev" => new.bm = b /\ new.shared = a.shared
         /\ a.ok /\ e.type = "vdev" => new.bm = r.bm /\ new.shared = (a.shared \/ r.shared)
    BY <2>3, <2>4, <2>9, HandleEntryCases
  <2>11. Cardinality(b) <= Cardinality(bm) + d[k] /\ ~a.shared
    BY <1>2, <2>5, <2>6
  <2>12. r.bm \in SUBSET Ids /\ ~r.shared /\ Cardinality(r.bm) <= Cardinality(bm) + d[k]
    <3>1. r.bm \in SUBSET Ids /\ ~r.shared /\ Cardinality(r.bm) <= Cardinality(b) + Len(ids)
      BY <2>8 DEF Counted
    <3>2. Cardinality(r.bm) \in Nat
      BY <3>1, IdsFinite
    <3>3. Cardinality(r.bm) <= Cardinality(bm) + d[k]
      <4>1. PICK now \in Nat, old \in Nat, all \in Nat, len \in Nat :
              now = Cardinality(r.bm) /\ old = Cardinality(b) /\ all = Cardinality(bm) /\ len = Len(ids)
        BY <1>2, <2>5, <2>6, <3>2, Zenon
      <4>2. now <= old + len /\ old <= all + c /\ d[k] = c + len /\ c \in Nat
        BY <2>5, <2>6, <3>1, <4>1, Zenon
      <4>3. PICK dk : dk = d[k]
        OBVIOUS
      <4>4. dk = c + len
        BY <4>2, <4>3, Zenon
      <4>5. now <= all + dk
        BY <4>2, <4>4
      <4> QED
        BY <4>1, <4>3, <4>5, Zenon
    <3> QED
      BY <3>1, <3>3
  <2>13. Counted(new, bm, d[k])
    BY <2>5, <2>10, <2>11, <2>12 DEF Counted
  <2>14. w[k] = new
    BY <1>3, <2>2, <2>9
  <2> QED
    BY <2>1, <2>10, <2>13, <2>14
<1> HIDE DEF T
<1>9. T = 0 .. n
  BY <1>2, <1>6, <1>7, <1>8, Along
<1>10. PICK v, c : v = w[n] /\ c = d[n]
  OBVIOUS
<1>11. Counted(v, bm, c) /\ c \in 0 .. W
  <2>1. n \in T /\ n \in 0 .. n
    BY <1>2, <1>9
  <2>2. Counted(w[n], bm, d[n])
    BY <2>1 DEF T
  <2>3. d[n] \in 0 .. W
    BY <1>4, <2>1
  <2> QED
    BY <1>10, <2>2, <2>3
<1>12. v.bm \in SUBSET Ids /\ Cardinality(v.bm) \in Nat
  BY <1>11, IdsFinite DEF Counted
<1>13. Counted(v, bm, W)
  BY <1>2, <1>11, <1>12 DEF Counted
<1> QED
  BY <1>1, <1>10, <1>13 DEF HandleTable

\* The count of the ids grows by W with each table.
LEMMA CountInductive ==
  ASSUME NEW W \in Nat, IdsFitIn(W)
  PROVE  RprocInv /\ CountInv(W) /\ [LifeNext]_lifeVars /\ [TablesAnew]_lifeVars => CountInv(W)'
<1> SUFFICES ASSUME RprocInv, CountInv(W), [LifeNext]_lifeVars, [TablesAnew]_lifeVars PROVE CountInv(W)'
  OBVIOUS
<1>0. MaxTables \in Nat /\ BITS \in Nat
  BY RprocAssumption DEF RprocAssumption
<1>1. CASE \/ Config \/ Start \/ Shutdown \/ UNCHANGED lifeVars
           \/ (\E i \in VdevRsc : CreateVirtio(i)) \/ \E k \in DOMAIN vdevs : RemoveVirtio(k)
  <2>1. UNCHANGED <<bitmap, parsed, shared>>
    BY <1>1 DEF Config, Start, Shutdown, lifeVars, CreateVirtio, RemoveVirtio
  <2> QED
    BY <2>1 DEF CountInv
<1>2. CASE Stop
  <2>1. bitmap' = {} /\ parsed' = 0 /\ shared' = FALSE
    BY <1>2 DEF Stop
  <2>2. Cardinality({}) = 0 /\ 0 <= 0 * W
    BY FS_EmptySet
  <2> QED
    BY <1>0, <2>1, <2>2 DEF CountInv
<1>3. ASSUME NEW t \in Tables \cup {Own[p] : p \in Places}, ParseTable(HandleTable(t))
      PROVE  CountInv(W)'
  <2>1. PICK bm, p, r, R : bm = bitmap /\ p = parsed /\ r = HandleTable(t) /\ R = W * MaxTables
    OBVIOUS
  <2>2. p < MaxTables /\ parsed' = p + 1 /\ bitmap' = r.bm /\ shared' = (shared \/ r.shared)
    BY <1>3, <2>1 DEF ParseTable
  <2>3. /\ bm \in SUBSET Ids /\ Cardinality(bm) \in Nat /\ p \in Nat /\ Cardinality(bm) <= p * W /\ ~shared
    BY <1>0, <2>1, IdsFinite DEF RprocInv, MemoryInv, CountInv
  <2>4. R \in Nat /\ R <= BITS /\ FitsIn(t, W, R) /\ TableOK(t)
    BY <1>0, <2>1, RprocAssumption DEF IdsFitIn, RprocAssumption
  <2>5. PICK c \in Nat : c = p * W
    BY <2>3
  <2>6. (p + 1) * W = c + W
    BY <2>3, <2>5
  <2>7. Cardinality(bm) + W <= R
    <3>1. (p + 1) * W <= MaxTables * W /\ MaxTables * W = R
      BY <1>0, <2>1, <2>2, <2>3
    <3> QED
      BY <2>3, <2>4, <2>5, <2>6, <3>1
  <2>8. Counted(r, bm, W)
    BY <2>1, <2>3, <2>4, <2>7, HandleTableCount
  <2>9. ~r.shared /\ Cardinality(r.bm) <= Cardinality(bm) + W /\ Cardinality(r.bm) \in Nat
    BY <2>8, IdsFinite DEF Counted
  <2>10. Cardinality(r.bm) <= (p + 1) * W
    BY <2>3, <2>5, <2>6, <2>9
  <2>11. p + 1 \in 0 .. MaxTables
    BY <1>0, <2>2, <2>3
  <2> QED
    BY <2>2, <2>3, <2>9, <2>10, <2>11 DEF CountInv
<1>4. CASE \E t \in Tables : Load(t) \/ LoadFails(t) \/ LoadNoblock(t)
  BY <1>3, <1>4 DEF Load, LoadNoblock, LoadTable, LoadFails
<1>5. CASE \E p \in Places \cup {LOADED} : SetRscTable(p)
  <2>1. PICK p \in Memories : SetRscTable(p)
    BY <1>5 DEF Memories
  <2>2. CASE TablesAnew
    BY <1>3, <2>1, <2>2 DEF TablesAnew, SetRscTable
  <2>3. CASE UNCHANGED lifeVars
    BY <1>1, <2>3
  <2> QED
    BY <2>2, <2>3
<1> QED
  BY <1>1, <1>2, <1>4, <1>5 DEF LifeNext

\* An id that is taken is never handed out while images are loaded and clients set
\* tables as they put them there, if the ids suffice for the tables between two
\* stops: then NotificationsHaveOneListener and IdsAreExact hold without a
\* condition.  A table that was parsed before asks for its ids by number, and
\* remoteproc_allocate_id hands them out again.
THEOREM NoIdIsShared == IdsFit => (LifeSpec /\ [][TablesAnew]_lifeVars => []~shared)
<1> SUFFICES ASSUME NEW W \in Nat, IdsFitIn(W)
             PROVE  LifeSpec /\ [][TablesAnew]_lifeVars => []~shared
  BY DEF IdsFit
<1>1. LifeInit => CountInv(W)
  <2>1. Cardinality({}) = 0 /\ MaxTables \in Nat /\ 0 <= 0 * W
    BY FS_EmptySet, RprocAssumption DEF RprocAssumption
  <2> QED
    BY <2>1 DEF LifeInit, CountInv
<1>2. RprocInv /\ CountInv(W) /\ [LifeNext]_lifeVars /\ [TablesAnew]_lifeVars => CountInv(W)'
  BY CountInductive
<1>3. CountInv(W) => ~shared
  BY DEF CountInv
<1> QED
  BY <1>1, <1>2, <1>3, RprocInvInit, RprocInductive, PTL DEF LifeSpec

-----------------------------------------------------------------------------
(***************************************************************************)
(* remoteproc_load.  The invariant LoadInv ties what is allocated to the   *)
(* headers read so far, the segments in memory to the place the loop over  *)
(* them has reached, and what is known of the resource table to the point  *)
(* from which the section headers can no longer be missed.                 *)
(***************************************************************************)

(***************************************************************************)
(* The state of the headers.                                               *)
(***************************************************************************)
Parts  == HeaderParts \cup {"table"}
Hdrs   == {"INIT", "PHDRS", "SHDRS", "SHSTRTAB", "COMPLETE"}
Phases == {"NOT_READY", "READY", "POST", "COMPLETE"}
LoadState == [hdr : Hdrs, phase : Phases, seg : Nat]

\* What is allocated is what the headers read so far need.
HeadersIn(st, heap, img) ==
  /\ st \in LoadState /\ heap \in SUBSET Parts
  /\ st.hdr = "INIT" => heap \subseteq {"table"}
  /\ st.hdr # "INIT" => "info" \in heap
  /\ st.phase = "NOT_READY" <=> st.hdr \in {"INIT", "PHDRS"}
  /\ st.hdr \in {"SHSTRTAB", "COMPLETE"} /\ img.shnum > 0 => "shdrs" \in heap
  /\ st.hdr = "COMPLETE" /\ img.shnum > 0 => "shstrtab" \in heap

(***************************************************************************)
(* Segments in memory.                                                     *)
(***************************************************************************)
Memory == [0 .. MemTop - 1 -> Int]

SegmentAt(s) == DaToPa(s.da, s.msz)

\* Segment s is where its header wants it.
PlacedIn(mem, s) ==
  s.load =>
    /\ Mapped(s.da, s.msz)
    /\ \A b \in 0 .. s.msz - 1 :
         mem[SegmentAt(s) + b] \in {RSC, IF b < s.fsz THEN s.off + b ELSE PAD}

\* So are the first n segments.
AllPlaced(mem, img, n) == \A k \in 1 .. n : PlacedIn(mem, img.phdrs[k])

-----------------------------------------------------------------------------
(***************************************************************************)
(* The inductive invariant.                                                *)
(***************************************************************************)
Busy == {"header", "table", "data", "table again", "adopt"}

LdTypeOK ==
  /\ ldPc \in Busy \cup {"off"} /\ ldImg \in Images
  /\ ldMem \in Memory
  /\ ldKeep \in BOOLEAN /\ ldFault \in BOOLEAN /\ ldOpen \in BOOLEAN
  /\ ldRet \in {"none", "ok", "error", "count"}

\* The headers while a load is under way.
HeaderInv ==
  ldPc # "off" => HeadersIn(ldInfo, ldHeap, ldImg) /\ ldRet = "none"

\* The segments that have been loaded.
SegmentInv ==
  /\ ldPc = "header" => ldInfo.seg = 0 /\ ldInfo.phase \in {"NOT_READY", "READY"}
  /\ ldPc = "table" => ldInfo.seg = 0 /\ ldInfo.phase = "READY"
  /\ ldPc = "data" =>
       \/ ldInfo.phase = "READY" /\ ldInfo.seg \in 0 .. Phnum - 1 /\ AllPlaced(ldMem, ldImg, ldInfo.seg)
       \/ ldInfo.phase = "POST" /\ AllPlaced(ldMem, ldImg, Phnum)
  /\ ldPc \in {"table again", "adopt"} \/ ldRet = "ok" => AllPlaced(ldMem, ldImg, Phnum)

\* The table can be found at the end.
Findable == ldImg.seek \/ Segment(Phnum).load

TableInv ==
  /\ ldSize \in {0, ldImg.rsc.len}
  /\ ldPc \in {"table", "data", "table again"} /\ ldImg.seek => ldInfo.hdr = "COMPLETE"
  /\ ldPc = "table again" /\ ~ldFault /\ Findable => ldInfo.hdr = "COMPLETE"
  /\ ldPc = "adopt" \/ ldRet = "ok" =>
       (~ldFault /\ Findable /\ ldImg.shnum > 0 => ldSize = ldImg.rsc.len)

LoadInv == LdTypeOK /\ HeaderInv /\ SegmentInv /\ TableInv /\ NothingLeaked

-----------------------------------------------------------------------------
\* The numbers of an image.
LEMMA ImageFacts ==
  ASSUME NEW img \in Images
  PROVE  /\ img.phdrs \in Seq([load : BOOLEAN, off : Nat, fsz : Nat, da : Nat, msz : Nat])
         /\ Len(img.phdrs) \in Nat /\ Len(img.phdrs) >= 1 /\ Len(img.phdrs) <= SEGS
         /\ img.phoff \in Nat /\ img.shoff \in Nat /\ img.stroff \in Nat /\ img.shnum \in Nat
         /\ img.strlen \in Nat \ {0} /\ img.rsc.len \in Nat /\ img.rsc.da \in Nat
         /\ SEGS \in Nat \ {0} /\ EHDR \in Nat \ {0} /\ MemTop \in Nat
<1>1. /\ SEGS \in Nat \ {0} /\ EHDR \in Nat \ {0} /\ MemTop \in Nat
      /\ ImageOK(img)
  BY ElfAssumption DEF ElfAssumption
<1>2. /\ img.phdrs \in Seq([load : BOOLEAN, off : Nat, fsz : Nat, da : Nat, msz : Nat])
      /\ img.phoff \in Nat /\ img.shoff \in Nat /\ img.stroff \in Nat /\ img.shnum \in Nat
      /\ img.strlen \in Nat \ {0} /\ img.rsc.len \in Nat /\ img.rsc.da \in Nat
  BY <1>1 DEF ImageOK
<1>3. Len(img.phdrs) \in 1 .. SEGS
  BY <1>1 DEF ImageOK
<1> QED
  BY <1>1, <1>2, <1>3

\* The state of a call of elf_load_header that began with info and heap.
Call == [st : LoadState, heap : SUBSET Parts, ret : {"none", "state", "error"}, noff : Nat, nlen : Nat]

CallOK(h, img, info, heap) ==
  /\ h \in Call
  /\ HeadersIn(h.st, h.heap, img)
  /\ h.st.seg = info.seg
  /\ h.st.phase = info.phase \/ (info.phase = "NOT_READY" /\ h.st.phase = "READY")
  /\ "table" \in h.heap <=> "table" \in heap
  /\ h.ret = "none" => h.nlen = 0
  /\ h.ret = "state" => (h.nlen = 0 <=> h.st.hdr = "COMPLETE")

\* A part that goes on, asks for more or fails.
LEMMA WantOK ==
  ASSUME NEW h, NEW img, NEW info, NEW heap, CallOK(h, img, info, heap),
         NEW off \in Nat, NEW size \in Nat, size = 0 <=> h.st.hdr = "COMPLETE"
  PROVE  CallOK(Want(h, off, size), img, info, heap)
<1>1. /\ Want(h, off, size) \in Call /\ Want(h, off, size).st = h.st /\ Want(h, off, size).heap = h.heap
      /\ Want(h, off, size).ret = "state" /\ Want(h, off, size).nlen = size
  BY DEF CallOK, Want, Call
<1> QED
  BY <1>1 DEF CallOK

\* Giving up with an error keeps a header call in order.
LEMMA FailsOK ==
  ASSUME NEW h, NEW img, NEW info, NEW heap, CallOK(h, img, info, heap)
  PROVE  CallOK(Fails(h), img, info, heap) /\ Fails(h).ret = "error"
<1>1. /\ Fails(h) \in Call /\ Fails(h).st = h.st /\ Fails(h).heap = h.heap
      /\ Fails(h).ret = "error"
  BY DEF CallOK, Fails, Call
<1> QED
  BY <1>1 DEF CallOK

\* elf_load_header at the ELF header.
LEMMA ElfHeaderOK ==
  ASSUME NEW h, NEW info, NEW heap, NEW w, NEW nomem,
         ldImg \in Images, CallOK(h, ldImg, info, heap), h.ret = "none"
  PROVE  LET g == ElfHeader(h, w, nomem)
         IN  CallOK(g, ldImg, info, heap) /\ (g.ret = "none" => g.st.hdr # "INIT")
<1>1. CASE h.st.hdr # "INIT"
  BY <1>1 DEF ElfHeader
<1>2. CASE h.st.hdr = "INIT"
  <2>1. PICK img \in Images : img = ldImg
    OBVIOUS
  <2>2. EHDR \in Nat \ {0} /\ 0 \in Nat
    BY <2>1, ImageFacts
  <2>3. CASE w.len < EHDR
    <3>1. ElfHeader(h, w, nomem) = Want(h, 0, EHDR)
      BY <1>2, <2>3 DEF ElfHeader
    <3>2. CallOK(Want(h, 0, EHDR), img, info, heap) /\ Want(h, 0, EHDR).ret = "state"
      <4>1. EHDR = 0 <=> h.st.hdr = "COMPLETE"
        BY <1>2, <2>2
      <4>2. CallOK(Want(h, 0, EHDR), img, info, heap)
        BY <2>1, <2>2, <4>1, WantOK
      <4> QED
        BY <4>2 DEF Want, CallOK, Call
    <3> QED
      BY <2>1, <3>1, <3>2
  <2>4. CASE ~(w.len < EHDR) /\ nomem = "info"
    <3>1. ElfHeader(h, w, nomem) = Fails(h)
      BY <1>2, <2>4 DEF ElfHeader
    <3>2. CallOK(Fails(h), img, info, heap) /\ Fails(h).ret = "error"
      BY <2>1, FailsOK
    <3> QED
      BY <2>1, <3>1, <3>2
  <2>5. CASE ~(w.len < EHDR) /\ nomem # "info"
    <3>1. PICK g : g = [h EXCEPT !.st.hdr = "PHDRS", !.heap = @ \cup {"info"}]
      OBVIOUS
    <3>2. ElfHeader(h, w, nomem) = g
      BY <1>2, <2>5, <3>1 DEF ElfHeader
    <3>3. h \in Call /\ h.st \in LoadState
      BY DEF CallOK, Call
    <3>4. /\ g \in Call /\ g.st.hdr = "PHDRS" /\ g.st.phase = h.st.phase /\ g.st.seg = h.st.seg
          /\ g.heap = h.heap \cup {"info"} /\ g.ret = h.ret /\ g.nlen = h.nlen /\ g.st \in LoadState
      BY <3>1, <3>3 DEF Call, LoadState, Hdrs, Parts, HeaderParts
    <3>5. HeadersIn(g.st, g.heap, img)
      <4>1. HeadersIn(h.st, h.heap, img)
        BY <2>1 DEF CallOK
      <4> QED
        BY <4>1, <3>4, <1>2 DEF HeadersIn, Parts, HeaderParts
    <3>6. CallOK(g, img, info, heap)
      BY <2>1, <3>4, <3>5 DEF CallOK
    <3> QED
      BY <2>1, <3>2, <3>4, <3>6
  <2> QED
    BY <2>3, <2>4, <2>5
<1> QED
  BY <1>1, <1>2

\* elf_load_header at the program headers.
LEMMA ProgramHeadersOK ==
  ASSUME NEW h, NEW info, NEW heap, NEW w, NEW nomem,
         ldImg \in Images, CallOK(h, ldImg, info, heap), h.ret = "none" => h.st.hdr # "INIT"
  PROVE  LET g == ProgramHeaders(h, w, nomem)
         IN  CallOK(g, ldImg, info, heap) /\ (g.ret = "none" => g.st.hdr \notin {"INIT", "PHDRS"})
<1>1. CASE h.ret # "none" \/ h.st.hdr # "PHDRS"
  BY <1>1 DEF ProgramHeaders
<1>2. CASE h.ret = "none" /\ h.st.hdr = "PHDRS"
  <2>1. PICK img \in Images : img = ldImg
    OBVIOUS
  <2>2. /\ img.phoff \in Nat /\ Len(img.phdrs) \in Nat
        /\ Len(img.phdrs) = 0 <=> h.st.hdr = "COMPLETE"
    BY <1>2, ImageFacts
  <2>3. CASE ~InWindow(w, img.phoff, Len(img.phdrs))
    <3>1. ProgramHeaders(h, w, nomem) = Want(h, img.phoff, Len(img.phdrs))
      BY <1>2, <2>1, <2>3 DEF ProgramHeaders, Phnum
    <3>2. CallOK(Want(h, img.phoff, Len(img.phdrs)), img, info, heap)
      BY <1>2, <2>1, <2>2, WantOK
    <3>3. Want(h, img.phoff, Len(img.phdrs)).ret = "state"
      BY DEF Want, CallOK, Call
    <3> QED
      BY <2>1, <3>1, <3>2, <3>3
  <2>4. CASE InWindow(w, img.phoff, Len(img.phdrs)) /\ nomem = "phdrs"
    <3>1. ProgramHeaders(h, w, nomem) = Fails(h)
      BY <1>2, <2>1, <2>4 DEF ProgramHeaders, Phnum
    <3>2. CallOK(Fails(h), img, info, heap) /\ Fails(h).ret = "error"
      BY <2>1, FailsOK
    <3> QED
      BY <2>1, <3>1, <3>2
  <2>5. CASE InWindow(w, img.phoff, Len(img.phdrs)) /\ nomem # "phdrs"
    <3>1. PICK g : g = [h EXCEPT !.st.hdr = "SHDRS", !.st.phase = "READY", !.heap = @ \cup {"phdrs"}]
      OBVIOUS
    <3>2. ProgramHeaders(h, w, nomem) = g
      BY <1>2, <2>1, <2>5, <3>1 DEF ProgramHeaders, Phnum
    <3>3. h \in Call /\ h.st \in LoadState /\ HeadersIn(h.st, h.heap, img)
      BY <2>1 DEF CallOK, Call
    <3>4. /\ g \in Call /\ g.st.hdr = "SHDRS" /\ g.st.phase = "READY" /\ g.st.seg = h.st.seg
          /\ g.heap = h.heap \cup {"phdrs"} /\ g.ret = h.ret /\ g.nlen = h.nlen /\ g.st \in LoadState
      BY <3>1, <3>3 DEF Call, LoadState, Hdrs, Phases, Parts, HeaderParts
    <3>5. HeadersIn(g.st, g.heap, img)
      BY <3>3, <3>4, <1>2 DEF HeadersIn, Parts, HeaderParts
    <3>6. info.phase = "NOT_READY"
      BY <3>3, <1>2 DEF HeadersIn, CallOK
    <3>7. CallOK(g, img, info, heap)
      BY <1>2, <2>1, <3>4, <3>5, <3>6 DEF CallOK
    <3> QED
      BY <2>1, <3>2, <3>4, <3>7
  <2> QED
    BY <2>3, <2>4, <2>5
<1> QED
  BY <1>1, <1>2

\* elf_load_header at the section headers.
LEMMA SectionHeadersOK ==
  ASSUME NEW h, NEW info, NEW heap, NEW w, NEW nomem,
         ldImg \in Images, CallOK(h, ldImg, info, heap), h.ret = "none" => h.st.hdr \notin {"INIT", "PHDRS"}
  PROVE  LET g == SectionHeaders(h, w, nomem)
         IN  CallOK(g, ldImg, info, heap) /\ (g.ret = "none" => g.st.hdr \notin {"INIT", "PHDRS", "SHDRS"})
<1>1. CASE h.ret # "none" \/ h.st.hdr # "SHDRS"
  BY <1>1 DEF SectionHeaders
<1>2. CASE h.ret = "none" /\ h.st.hdr = "SHDRS"
  <2>1. PICK img \in Images : img = ldImg
    OBVIOUS
  <2>2. img.shoff \in Nat /\ img.shnum \in Nat
    BY ImageFacts
  <2>3. h \in Call /\ h.st \in LoadState /\ HeadersIn(h.st, h.heap, img)
    BY <2>1 DEF CallOK, Call
  <2>4. CASE img.shnum = 0
    <3>1. PICK g : g = [h EXCEPT !.st.hdr = "COMPLETE"]
      OBVIOUS
    <3>2. SectionHeaders(h, w, nomem) = Want(g, h.noff, 0)
      BY <1>2, <2>1, <2>4, <3>1 DEF SectionHeaders
    <3>3. /\ g \in Call /\ g.st.hdr = "COMPLETE" /\ g.st.phase = h.st.phase /\ g.st.seg = h.st.seg
          /\ g.heap = h.heap /\ g.ret = h.ret /\ g.nlen = h.nlen /\ g.st \in LoadState
      BY <3>1, <2>3 DEF Call, LoadState, Hdrs
    <3>4. HeadersIn(g.st, g.heap, img)
      BY <2>3, <2>4, <3>3, <1>2 DEF HeadersIn
    <3>5. CallOK(g, img, info, heap)
      BY <1>2, <2>1, <3>3, <3>4 DEF CallOK
    <3>6. h.noff \in Nat
      BY <2>3 DEF Call
    <3>7. CallOK(Want(g, h.noff, 0), img, info, heap)
      BY <3>3, <3>5, <3>6, WantOK
    <3>8. Want(g, h.noff, 0).ret = "state"
      BY <3>3 DEF Want, Call
    <3> QED
      BY <2>1, <3>2, <3>7, <3>8
  <2>5. CASE img.shnum # 0 /\ ~InWindow(w, img.shoff, img.shnum)
    <3>1. SectionHeaders(h, w, nomem) = Want(h, img.shoff, img.shnum)
      BY <1>2, <2>1, <2>5 DEF SectionHeaders, Phnum
    <3>2. CallOK(Want(h, img.shoff, img.shnum), img, info, heap)
      <4>1. img.shnum = 0 <=> h.st.hdr = "COMPLETE"
        BY <1>2, <2>5
      <4> QED
        BY <4>1, <2>1, <2>2, WantOK
    <3>3. Want(h, img.shoff, img.shnum).ret = "state"
      BY DEF Want, CallOK, Call
    <3> QED
      BY <2>1, <3>1, <3>2, <3>3
  <2>6. CASE img.shnum # 0 /\ InWindow(w, img.shoff, img.shnum) /\ nomem = "shdrs"
    <3>1. SectionHeaders(h, w, nomem) = Fails(h)
      BY <1>2, <2>1, <2>6 DEF SectionHeaders
    <3>2. CallOK(Fails(h), img, info, heap) /\ Fails(h).ret = "error"
      BY <2>1, FailsOK
    <3> QED
      BY <2>1, <3>1, <3>2
  <2>7. CASE img.shnum # 0 /\ InWindow(w, img.shoff, img.shnum) /\ nomem # "shdrs"
    <3>1. PICK g : g = [h EXCEPT !.st.hdr = "SHSTRTAB", !.heap = @ \cup {"shdrs"}]
      OBVIOUS
    <3>2. SectionHeaders(h, w, nomem) = g
      BY <1>2, <2>1, <2>7, <3>1 DEF SectionHeaders
    <3>3. /\ g \in Call /\ g.st.hdr = "SHSTRTAB" /\ g.st.phase = h.st.phase /\ g.st.seg = h.st.seg
          /\ g.heap = h.heap \cup {"shdrs"} /\ g.ret = h.ret /\ g.nlen = h.nlen /\ g.st \in LoadState
      BY <3>1, <2>3 DEF Call, LoadState, Hdrs, Parts, HeaderParts
    <3>4. HeadersIn(g.st, g.heap, img)
      BY <2>3, <3>3, <1>2 DEF HeadersIn, Parts, HeaderParts
    <3>5. CallOK(g, img, info, heap)
      BY <1>2, <2>1, <3>3, <3>4 DEF CallOK
    <3> QED
      BY <2>1, <3>2, <3>3, <3>5
  <2> QED
    BY <2>4, <2>5, <2>6, <2>7
<1> QED
  BY <1>1, <1>2

\* elf_load_header at the section names; what comes through has all headers.
LEMMA SectionNamesOK ==
  ASSUME NEW h, NEW info, NEW heap, NEW w, NEW nomem, ldImg \in Images, CallOK(h, ldImg, info, heap),
         h.ret = "none" => h.st.hdr \notin {"INIT", "PHDRS", "SHDRS"}
  PROVE  LET g == SectionNames(h, w, nomem)
         IN  CallOK(g, ldImg, info, heap) /\ (g.ret = "none" => g.st.hdr = "COMPLETE")
<1>0. h.st.hdr \in Hdrs
  BY DEF CallOK, Call, LoadState
<1>1. CASE h.ret # "none" \/ h.st.hdr # "SHSTRTAB"
  BY <1>0, <1>1 DEF SectionNames, Hdrs
<1>2. CASE h.ret = "none" /\ h.st.hdr = "SHSTRTAB"
  <2>1. PICK img \in Images : img = ldImg
    OBVIOUS
  <2>2. /\ img.stroff \in Nat /\ img.strlen \in Nat
        /\ img.strlen = 0 <=> h.st.hdr = "COMPLETE"
    BY <1>2, ImageFacts
  <2>3. h \in Call /\ h.st \in LoadState /\ HeadersIn(h.st, h.heap, img)
    BY <2>1 DEF CallOK, Call
  <2>4. CASE ~img.strOk
    <3>1. SectionNames(h, w, nomem) = Fails(h)
      BY <1>2, <2>1, <2>4 DEF SectionNames
    <3>2. CallOK(Fails(h), img, info, heap) /\ Fails(h).ret = "error"
      BY <2>1, FailsOK
    <3> QED
      BY <2>1, <3>1, <3>2
  <2>5. CASE img.strOk /\ ~InWindow(w, img.stroff, img.strlen)
    <3>1. SectionNames(h, w, nomem) = Want(h, img.stroff, img.strlen)
      BY <1>2, <2>1, <2>5 DEF SectionNames, Phnum
    <3>2. CallOK(Want(h, img.stroff, img.strlen), img, info, heap)
      BY <1>2, <2>1, <2>2, WantOK
    <3>3. Want(h, img.stroff, img.strlen).ret = "state"
      BY DEF Want, CallOK, Call
    <3> QED
      BY <2>1, <3>1, <3>2, <3>3
  <2>6. CASE img.strOk /\ InWindow(w, img.stroff, img.strlen) /\ nomem = "shstrtab"
    <3>1. SectionNames(h, w, nomem) = Fails(h)
      BY <1>2, <2>1, <2>6 DEF SectionNames
    <3>2. CallOK(Fails(h), img, info, heap) /\ Fails(h).ret = "error"
      BY <2>1, FailsOK
    <3> QED
      BY <2>1, <3>1, <3>2
  <2>7. CASE img.strOk /\ InWindow(w, img.stroff, img.strlen) /\ nomem # "shstrtab"
    <3>1. PICK g : g = [h EXCEPT !.st.hdr = "COMPLETE", !.heap = @ \cup {"shstrtab"}]
      OBVIOUS
    <3>2. SectionNames(h, w, nomem) = Want(g, h.noff, 0)
      BY <1>2, <2>1, <2>7, <3>1 DEF SectionNames
    <3>3. /\ g \in Call /\ g.st.hdr = "COMPLETE" /\ g.st.phase = h.st.phase /\ g.st.seg = h.st.seg
          /\ g.heap = h.heap \cup {"shstrtab"} /\ g.ret = h.ret /\ g.nlen = h.nlen /\ g.st \in LoadState
      BY <3>1, <2>3 DEF Call, LoadState, Hdrs, Parts, HeaderParts
    <3>4. HeadersIn(g.st, g.heap, img)
      BY <2>3, <3>3, <1>2 DEF HeadersIn, Parts, HeaderParts
    <3>5. CallOK(g, img, info, heap)
      BY <1>2, <2>1, <3>3, <3>4 DEF CallOK
    <3>6. h.noff \in Nat
      BY <2>3 DEF Call
    <3>7. CallOK(Want(g, h.noff, 0), img, info, heap)
      BY <3>3, <3>5, <3>6, WantOK
    <3>8. Want(g, h.noff, 0).ret = "state"
      BY <3>3 DEF Want, Call
    <3> QED
      BY <2>1, <3>2, <3>7, <3>8
  <2> QED
    BY <2>4, <2>5, <2>6, <2>7
<1> QED
  BY <1>1, <1>2

\* A call of elf_load_header that does not fail has found all headers or asks for more.
LEMMA LoadHeaderOK ==
  ASSUME NEW w, NEW nomem, ldImg \in Images, HeadersIn(ldInfo, ldHeap, ldImg),
         NEW h, h = LoadHeader(w, nomem)
  PROVE  /\ CallOK(h, ldImg, ldInfo, ldHeap)
         /\ h.ret # "error" => (h.nlen = 0 <=> h.st.hdr = "COMPLETE")
<1>1. PICK info, heap : info = ldInfo /\ heap = ldHeap
  OBVIOUS
<1>2. PICK s : s = [st |-> info, heap |-> heap, ret |-> "none", noff |-> 0, nlen |-> 0]
  OBVIOUS
<1>3. CallOK(s, ldImg, info, heap) /\ s.ret = "none"
  BY <1>1, <1>2 DEF CallOK, Call, HeadersIn
<1>4. CASE info.hdr # "INIT" /\ ldLast # info
  <2>1. h = Fails(s)
    BY <1>1, <1>2, <1>4 DEF LoadHeader
  <2>2. PICK img : img = ldImg
    OBVIOUS
  <2>3. CallOK(Fails(s), img, info, heap) /\ Fails(s).ret = "error"
    BY <1>3, <2>2, FailsOK
  <2> QED
    BY <1>1, <2>1, <2>2, <2>3
<1>5. CASE ~(info.hdr # "INIT" /\ ldLast # info)
  <2>1. PICK a : a = ElfHeader(s, w, nomem)
    OBVIOUS
  <2>2. CallOK(a, ldImg, info, heap) /\ (a.ret = "none" => a.st.hdr # "INIT")
    BY <1>3, <2>1, ElfHeaderOK
  <2>3. PICK b : b = ProgramHeaders(a, w, nomem)
    OBVIOUS
  <2>4. CallOK(b, ldImg, info, heap) /\ (b.ret = "none" => b.st.hdr \notin {"INIT", "PHDRS"})
    BY <2>2, <2>3, ProgramHeadersOK
  <2>5. PICK c : c = SectionHeaders(b, w, nomem)
    OBVIOUS
  <2>6. CallOK(c, ldImg, info, heap) /\ (c.ret = "none" => c.st.hdr \notin {"INIT", "PHDRS", "SHDRS"})
    BY <2>4, <2>5, SectionHeadersOK
  <2>7. h = SectionNames(c, w, nomem)
    BY <1>1, <1>2, <1>5, <2>1, <2>3, <2>5 DEF LoadHeader
  <2>8. CallOK(h, ldImg, info, heap) /\ (h.ret = "none" => h.st.hdr = "COMPLETE")
    BY <2>6, <2>7, SectionNamesOK
  <2>9. h.ret # "error" => (h.nlen = 0 <=> h.st.hdr = "COMPLETE")
    BY <2>8 DEF CallOK, Call
  <2> QED
    BY <1>1, <2>8, <2>9
<1> QED
  BY <1>4, <1>5

-----------------------------------------------------------------------------
\* A program header of an image.
LEMMA SegmentFacts ==
  ASSUME NEW img \in Images, NEW k \in 1 .. Len(img.phdrs)
  PROVE  LET s == img.phdrs[k]
         IN  /\ s.load \in BOOLEAN /\ s.off \in Nat /\ s.fsz \in Nat /\ s.da \in Nat /\ s.msz \in Nat
             /\ s.fsz <= s.msz
<1>1. ImageOK(img) /\ img.phdrs \in Seq([load : BOOLEAN, off : Nat, fsz : Nat, da : Nat, msz : Nat])
  BY ImageFacts, ElfAssumption DEF ElfAssumption
<1>2. img.phdrs[k] \in [load : BOOLEAN, off : Nat, fsz : Nat, da : Nat, msz : Nat]
  BY <1>1, ElementOfSeq
<1>3. img.phdrs[k].fsz <= img.phdrs[k].msz
  BY <1>1 DEF ImageOK
<1> QED
  BY <1>2, <1>3

\* Loaded segments do not overlap, in whatever order.
LEMMA SegmentsApart ==
  ASSUME NEW img \in Images, NEW j \in 1 .. Len(img.phdrs), NEW k \in 1 .. Len(img.phdrs),
         j # k, img.phdrs[j].load, img.phdrs[k].load
  PROVE  \/ img.phdrs[j].da + img.phdrs[j].msz <= img.phdrs[k].da
         \/ img.phdrs[k].da + img.phdrs[k].msz <= img.phdrs[j].da
<1>1. \A a, b \in 1 .. Len(img.phdrs) :
       a < b /\ img.phdrs[a].load /\ img.phdrs[b].load =>
         \/ img.phdrs[a].da + img.phdrs[a].msz <= img.phdrs[b].da
         \/ img.phdrs[b].da + img.phdrs[b].msz <= img.phdrs[a].da
  BY ElfAssumption DEF ElfAssumption, ImageOK
<1>2. Len(img.phdrs) \in Nat
  BY ImageFacts
<1>3. CASE j < k
  BY <1>1, <1>3
<1>4. CASE k < j
  BY <1>1, <1>4
<1> QED
  BY <1>2, <1>3, <1>4

\* Where a mapped range lies: inside one region.
LEMMA MappedFacts ==
  ASSUME NEW da \in Nat, NEW size \in Nat, Mapped(da, size)
  PROVE  \E k \in 1 .. Len(Mems) :
           /\ Mems[k].da \in Nat /\ Mems[k].pa \in Nat /\ Mems[k].size \in Nat
           /\ Mems[k].da <= da /\ da + size <= Mems[k].da + Mems[k].size
           /\ DaToPa(da, size) = Mems[k].pa + (da - Mems[k].da)
<1>1. Mems \in Seq([da : Nat, pa : Nat, size : Nat]) /\ Len(Mems) \in Nat
  BY ElfAssumption DEF ElfAssumption
<1>2. MemsWith(da, size) \in SUBSET (1 .. Len(Mems)) /\ MemsWith(da, size) # {}
  <2>1. DOMAIN Mems = 1 .. Len(Mems)
    BY <1>1
  <2>2. MemsWith(da, size) \in SUBSET DOMAIN Mems /\ MemsWith(da, size) # {}
    BY Zenon DEF Mapped, MemsWith
  <2> QED
    BY <2>1, <2>2
<1>3. MemsWith(da, size) \in SUBSET Nat
  BY <1>1, <1>2
<1>4. PICK S : S = MemsWith(da, size)
  OBVIOUS
<1>5. Min(S) \in S
  BY <1>2, <1>3, <1>4, MinIsLeast
<1>6. PICK k : k = Min(S)
  OBVIOUS
<1>7. k \in 1 .. Len(Mems) /\ k \in MemsWith(da, size)
  BY <1>2, <1>4, <1>5, <1>6
<1>8. Mems[k] \in [da : Nat, pa : Nat, size : Nat]
  BY <1>1, <1>7, ElementOfSeq
<1>9. Mems[k].da <= da /\ da + size <= Mems[k].da + Mems[k].size
  BY <1>7 DEF MemsWith
<1>10. DaToPa(da, size) = Mems[k].pa + (da - Mems[k].da)
  <2>1. DaToPa(da, size) = Mems[k].pa + da - Mems[k].da
    BY <1>4, <1>6 DEF DaToPa
  <2> QED
    BY <2>1, <1>8
<1> QED
  BY <1>7, <1>8, <1>9, <1>10

\* A mapped range lies in memory.
LEMMA MappedInside ==
  ASSUME NEW da \in Nat, NEW size \in Nat, Mapped(da, size)
  PROVE  DaToPa(da, size) \in Nat /\ DaToPa(da, size) + size <= MemTop
<1>1. PICK k \in 1 .. Len(Mems) :
           /\ Mems[k].da \in Nat /\ Mems[k].pa \in Nat /\ Mems[k].size \in Nat
           /\ Mems[k].da <= da /\ da + size <= Mems[k].da + Mems[k].size
           /\ DaToPa(da, size) = Mems[k].pa + (da - Mems[k].da)
  BY MappedFacts
<1>2. Mems[k].pa + Mems[k].size <= MemTop /\ MemTop \in Nat
  BY ElfAssumption DEF ElfAssumption
<1>3. PICK p \in Nat, d \in Nat, z \in Nat : p = Mems[k].pa /\ d = Mems[k].da /\ z = Mems[k].size
  BY <1>1, Zenon
<1>4. d <= da /\ da + size <= d + z /\ DaToPa(da, size) = p + (da - d) /\ p + z <= MemTop
  BY <1>1, <1>2, <1>3, Zenon
<1>5. p + (da - d) \in Nat /\ p + (da - d) + size <= MemTop
  BY <1>2, <1>4
<1> QED
  BY <1>4, <1>5, Zenon

\* Ranges of device memory that do not overlap are apart in memory as well.
LEMMA MappedApart ==
  ASSUME NEW da \in Nat, NEW size \in Nat, Mapped(da, size),
         NEW da2 \in Nat, NEW size2 \in Nat, Mapped(da2, size2),
         da + size <= da2 \/ da2 + size2 <= da
  PROVE  \/ DaToPa(da, size) + size <= DaToPa(da2, size2)
         \/ DaToPa(da2, size2) + size2 <= DaToPa(da, size)
<1>1. PICK k \in 1 .. Len(Mems) :
           /\ Mems[k].da \in Nat /\ Mems[k].pa \in Nat /\ Mems[k].size \in Nat
           /\ Mems[k].da <= da /\ da + size <= Mems[k].da + Mems[k].size
           /\ DaToPa(da, size) = Mems[k].pa + (da - Mems[k].da)
  BY MappedFacts
<1>2. PICK j \in 1 .. Len(Mems) :
           /\ Mems[j].da \in Nat /\ Mems[j].pa \in Nat /\ Mems[j].size \in Nat
           /\ Mems[j].da <= da2 /\ da2 + size2 <= Mems[j].da + Mems[j].size
           /\ DaToPa(da2, size2) = Mems[j].pa + (da2 - Mems[j].da)
  BY MappedFacts
<1>3. PICK p \in Nat, d \in Nat, z \in Nat : p = Mems[k].pa /\ d = Mems[k].da /\ z = Mems[k].size
  BY <1>1, Zenon
<1>4. PICK q \in Nat, e \in Nat, y \in Nat : q = Mems[j].pa /\ e = Mems[j].da /\ y = Mems[j].size
  BY <1>2, Zenon
<1>5. d <= da /\ da + size <= d + z /\ DaToPa(da, size) = p + (da - d)
  BY <1>1, <1>3, Zenon
<1>6. e <= da2 /\ da2 + size2 <= e + y /\ DaToPa(da2, size2) = q + (da2 - e)
  BY <1>2, <1>4, Zenon
<1>7. CASE j = k
  <2>1. q = p /\ e = d
    BY <1>3, <1>4, <1>7, Zenon
  <2>2. p + (da - d) + size <= q + (da2 - e) \/ q + (da2 - e) + size2 <= p + (da - d)
    BY <2>1
  <2> QED
    BY <1>5, <1>6, <2>2, Zenon
<1>8. CASE j # k
  <2>1. \/ Mems[j].pa + Mems[j].size <= Mems[k].pa
        \/ Mems[k].pa + Mems[k].size <= Mems[j].pa
    BY <1>8, ElfAssumption DEF ElfAssumption
  <2>2. q + y <= p \/ p + z <= q
    BY <1>3, <1>4, <2>1, Zenon
  <2>3. p + (da - d) + size <= q + (da2 - e) \/ q + (da2 - e) + size2 <= p + (da - d)
    BY <1>5, <1>6, <2>2
  <2> QED
    BY <1>5, <1>6, <2>3, Zenon
<1> QED
  BY <1>7, <1>8

\* A loaded segment is where its header wants it, and the others stay there.
LEMMA PlacedFacts ==
  ASSUME NEW img \in Images, NEW k \in 1 .. Len(img.phdrs), NEW s, s = img.phdrs[k], s.load,
         Mapped(s.da, s.msz), NEW mem \in Memory
  PROVE  /\ Placed(mem, s) \in Memory
         /\ PlacedIn(Placed(mem, s), s)
         /\ \A j \in 1 .. Len(img.phdrs) :
              j # k /\ PlacedIn(mem, img.phdrs[j]) => PlacedIn(Placed(mem, s), img.phdrs[j])
<1>1. /\ s.load \in BOOLEAN /\ s.off \in Nat /\ s.fsz \in Nat /\ s.da \in Nat /\ s.msz \in Nat
      /\ s.fsz <= s.msz /\ MemTop \in Nat
  BY SegmentFacts, ImageFacts
<1>2. PICK pa : pa = DaToPa(s.da, s.msz)
  OBVIOUS
<1>3. pa \in Nat /\ pa + s.msz <= MemTop
  BY <1>1, <1>2, MappedInside
<1>4. PICK new : new = Placed(mem, s)
  OBVIOUS
<1>5. new = [a \in 0 .. MemTop - 1 |-> IF a \in pa .. pa + s.fsz - 1 THEN s.off + a - pa
                            ELSE IF a \in pa + s.fsz .. pa + s.msz - 1 THEN PAD ELSE mem[a]]
  <2>1. DOMAIN mem = 0 .. MemTop - 1
    BY DEF Memory
  <2> QED
    BY <2>1, <1>2, <1>4 DEF Placed
<1>6. new \in Memory
  <2>1. ASSUME NEW a \in 0 .. MemTop - 1
        PROVE  (IF a \in pa .. pa + s.fsz - 1 THEN s.off + a - pa
                            ELSE IF a \in pa + s.fsz .. pa + s.msz - 1 THEN PAD ELSE mem[a]) \in Int
    <3>0. mem[a] \in Int /\ PAD \in Int
      BY DEF Memory, PAD
    <3>1. mem[a] \in Int /\ PAD \in Int /\ s.off + a - pa \in Int
      <4>1. PICK off \in Nat : off = s.off
        BY <1>1, Zenon
      <4>2. PICK top \in Nat : top = MemTop
        BY <1>1, Zenon
      <4>3. a \in 0 .. top - 1
        BY <4>2, Zenon
      <4>4. off + a - pa \in Int
        BY <1>3, <4>3
      <4> QED
        BY <3>0, <4>1, <4>4, Zenon
    <3> QED
      BY <3>1
  <2> QED
    BY <1>5, <2>1 DEF Memory
<1>7. \A b \in 0 .. s.msz - 1 : new[pa + b] = IF b < s.fsz THEN s.off + b ELSE PAD
  <2> SUFFICES ASSUME NEW b \in 0 .. s.msz - 1
               PROVE  new[pa + b] = IF b < s.fsz THEN s.off + b ELSE PAD
    OBVIOUS
  <2>1. pa + b \in 0 .. MemTop - 1
    BY <1>1, <1>3
  <2>2. new[pa + b] = IF pa + b \in pa .. pa + s.fsz - 1 THEN s.off + (pa + b) - pa
                      ELSE IF pa + b \in pa + s.fsz .. pa + s.msz - 1 THEN PAD ELSE mem[pa + b]
    BY <1>5, <2>1
  <2>3. CASE b < s.fsz
    <3>1. pa + b \in pa .. pa + s.fsz - 1 /\ s.off + (pa + b) - pa = s.off + b
      <4>1. PICK f \in Nat, off \in Nat, m \in Nat : f = s.fsz /\ off = s.off /\ m = s.msz
        BY <1>1, Zenon
      <4>2. b \in 0 .. m - 1 /\ b < f
        BY <2>3, <4>1, Zenon
      <4>3. pa + b \in pa .. pa + f - 1 /\ off + (pa + b) - pa = off + b
        BY <1>3, <4>2
      <4> QED
        BY <4>1, <4>3, Zenon
    <3> QED
      BY <2>2, <2>3, <3>1
  <2>4. CASE ~(b < s.fsz)
    <3>0. b \in Nat /\ b >= s.fsz /\ b <= s.msz - 1
      BY <1>1, <2>4
    <3>1. pa + b \notin pa .. pa + s.fsz - 1 /\ pa + b \in pa + s.fsz .. pa + s.msz - 1
      <4>1. PICK f, m : f = s.fsz /\ m = s.msz
        OBVIOUS
      <4>2. f \in Nat /\ m \in Nat /\ b >= f /\ b <= m - 1
        BY <1>1, <3>0, <4>1
      <4>3. pa + b \notin pa .. pa + f - 1 /\ pa + b \in pa + f .. pa + m - 1
        BY <1>3, <3>0, <4>2
      <4> QED
        BY <4>1, <4>3
    <3> QED
      BY <2>2, <2>4, <3>1
  <2> QED
    BY <2>3, <2>4
<1>8. PlacedIn(new, s)
  BY <1>2, <1>7 DEF PlacedIn, SegmentAt
<1>9. ASSUME NEW j \in 1 .. Len(img.phdrs), j # k, PlacedIn(mem, img.phdrs[j])
      PROVE  PlacedIn(new, img.phdrs[j])
  <2>1. PICK r : r = img.phdrs[j]
    OBVIOUS
  <2>2. CASE ~r.load
    BY <2>1, <2>2 DEF PlacedIn
  <2>3. CASE r.load
    <3>1. /\ r.off \in Nat /\ r.fsz \in Nat /\ r.da \in Nat /\ r.msz \in Nat
      BY <2>1, SegmentFacts
    <3>2. PICK qa : qa = DaToPa(r.da, r.msz)
      OBVIOUS
    <3>3. /\ Mapped(r.da, r.msz)
          /\ \A b \in 0 .. r.msz - 1 : mem[qa + b] \in {RSC, IF b < r.fsz THEN r.off + b ELSE PAD}
      BY <1>9, <2>1, <2>3, <3>2 DEF PlacedIn, SegmentAt
    <3>4. s.da + s.msz <= r.da \/ r.da + r.msz <= s.da
      BY <1>9, <2>1, <2>3, SegmentsApart
    <3>5. pa + s.msz <= qa \/ qa + r.msz <= pa
      BY <1>1, <1>2, <3>1, <3>2, <3>3, <3>4, MappedApart
    <3>6. qa \in Nat /\ qa + r.msz <= MemTop
      BY <3>1, <3>2, <3>3, MappedInside
    <3>7. ASSUME NEW b \in 0 .. r.msz - 1
          PROVE  new[qa + b] = mem[qa + b]
      <4>0. b \in Nat /\ b < r.msz
        BY <3>1
      <4>3. PICK f, m, z : f = s.fsz /\ m = s.msz /\ z = r.msz
        OBVIOUS
      <4>4. f \in Nat /\ m \in Nat /\ z \in Nat /\ f <= m /\ b < z
        BY <1>1, <3>1, <4>0, <4>3
      <4>5. pa + m <= qa \/ qa + z <= pa
        BY <3>5, <4>3
      <4>6. qa + b < pa \/ qa + b >= pa + m
        BY <1>3, <3>6, <4>0, <4>4, <4>5
      <4>1. qa + b \in 0 .. MemTop - 1
        BY <1>1, <3>6, <4>0, <4>3, <4>4
      <4>2. qa + b \notin pa .. pa + s.fsz - 1 /\ qa + b \notin pa + s.fsz .. pa + s.msz - 1
        <5>1. qa + b \notin pa .. pa + f - 1 /\ qa + b \notin pa + f .. pa + m - 1
          BY <1>3, <3>6, <4>0, <4>4, <4>6
        <5> QED
          BY <5>1, <4>3
      <4> QED
        BY <4>1, <4>2, <1>5
    <3>8. \A b \in 0 .. r.msz - 1 : new[qa + b] \in {RSC, IF b < r.fsz THEN r.off + b ELSE PAD}
      BY <3>3, <3>7
    <3> QED
      BY <2>1, <3>2, <3>3, <3>8 DEF PlacedIn, SegmentAt
  <2> QED
    BY <2>2, <2>3
<1> QED
  BY <1>4, <1>6, <1>8, <1>9

\* The memory after the resource table has been written.
WithTable(mem, pa, n) == [a \in 0 .. MemTop - 1 |-> IF a \in pa .. pa + n - 1 THEN RSC ELSE mem[a]]

\* Writing the table spares the segments, wherever it goes.
LEMMA WithTableFacts ==
  ASSUME NEW img \in Images, NEW mem \in Memory, NEW pa, NEW n,
         AllPlaced(mem, img, Len(img.phdrs))
  PROVE  WithTable(mem, pa, n) \in Memory /\ AllPlaced(WithTable(mem, pa, n), img, Len(img.phdrs))
<1>1. PICK new : new = WithTable(mem, pa, n)
  OBVIOUS
<1>2. new = [a \in 0 .. MemTop - 1 |-> IF a \in pa .. pa + n - 1 THEN RSC ELSE mem[a]]
  BY <1>1 DEF WithTable
<1>3. new \in Memory
  <2>1. ASSUME NEW a \in 0 .. MemTop - 1
        PROVE  (IF a \in pa .. pa + n - 1 THEN RSC ELSE mem[a]) \in Int
    <3>1. mem[a] \in Int /\ RSC \in Int
      BY DEF Memory, RSC
    <3> QED
      BY <3>1
  <2> QED
    BY <1>2, <2>1 DEF Memory
<1>4. ASSUME NEW j \in 1 .. Len(img.phdrs)
      PROVE  PlacedIn(new, img.phdrs[j])
  <2>0. PICK r : r = img.phdrs[j]
    OBVIOUS
  <2>1. PlacedIn(mem, r)
    BY <1>4, <2>0 DEF AllPlaced
  <2>2. CASE ~r.load
    BY <2>0, <2>2 DEF PlacedIn
  <2>3. CASE r.load
    <3>1. /\ r.off \in Nat /\ r.fsz \in Nat /\ r.da \in Nat /\ r.msz \in Nat /\ MemTop \in Nat
      BY <2>0, SegmentFacts, ImageFacts
    <3>2. PICK qa : qa = DaToPa(r.da, r.msz)
      OBVIOUS
    <3>3. /\ Mapped(r.da, r.msz)
          /\ \A b \in 0 .. r.msz - 1 : mem[qa + b] \in {RSC, IF b < r.fsz THEN r.off + b ELSE PAD}
      BY <2>1, <2>3, <3>2 DEF PlacedIn, SegmentAt
    <3>6. qa \in Nat /\ qa + r.msz <= MemTop
      BY <3>1, <3>2, <3>3, MappedInside
    <3>7. ASSUME NEW b \in 0 .. r.msz - 1
          PROVE  new[qa + b] \in {RSC, mem[qa + b]}
      <4>1. qa + b \in 0 .. MemTop - 1
        BY <3>1, <3>6
      <4> QED
        BY <4>1, <1>2
    <3>8. \A b \in 0 .. r.msz - 1 : new[qa + b] \in {RSC, IF b < r.fsz THEN r.off + b ELSE PAD}
      BY <3>3, <3>7
    <3> QED
      BY <2>0, <3>2, <3>3, <3>8 DEF PlacedIn, SegmentAt
  <2> QED
    BY <2>2, <2>3
<1> QED
  BY <1>1, <1>3, <1>4 DEF AllPlaced

-----------------------------------------------------------------------------
\* Giving back the headers leaves nothing: image information is there whenever
\* any other part is.
LEMMA ReleasesAll ==
  ASSUME NEW st, NEW heap, NEW img, HeadersIn(st, heap, img)
  PROVE  ElfRelease(heap \ {"table"}) = {} /\ heap \ {"table"} \subseteq HeaderParts
<1>1. heap \in SUBSET Parts
  BY DEF HeadersIn
<1>2. heap \ {"table"} \subseteq HeaderParts
  BY <1>1 DEF Parts
<1>3. "info" \in heap \/ heap \subseteq {"table"}
  BY DEF HeadersIn
<1>4. CASE "info" \in heap
  <2>1. ElfRelease(heap \ {"table"}) = (heap \ {"table"}) \ HeaderParts
    BY <1>4 DEF ElfRelease
  <2> QED
    BY <1>2, <2>1
<1>5. CASE "info" \notin heap
  <2>1. heap \ {"table"} = {}
    BY <1>3, <1>5
  <2>2. ElfRelease(heap \ {"table"}) = heap \ {"table"}
    BY <1>5 DEF ElfRelease
  <2> QED
    BY <1>2, <2>1, <2>2
<1> QED
  BY <1>4, <1>5

\* The copy of the table, and a new phase, keep the headers.
LEMMA HeadersKept ==
  ASSUME NEW st, NEW heap, NEW img, HeadersIn(st, heap, img)
  PROVE  /\ HeadersIn(st, heap \cup {"table"}, img)
         /\ \A new \in LoadState : new.hdr = st.hdr /\ new.phase # "NOT_READY" /\ st.phase # "NOT_READY"
              => HeadersIn(new, heap, img)
<1>1. heap \cup {"table"} \in SUBSET Parts
  BY DEF HeadersIn, Parts
<1> QED
  BY <1>1 DEF HeadersIn

\* A load that is given up.
LEMMA AbortKeeps ==
  ASSUME LoadInv, NEW st, NEW heap, HeadersIn(st, heap, ldImg), NEW ret \in {"error", "count"},
         LoadAborts(heap, ret), ldFault' \in BOOLEAN, UNCHANGED <<ldImg, ldMem, ldSize, ldKeep>>
  PROVE  LoadInv'
<1>1. ldHeap' = {} /\ ldOpen' = FALSE /\ ldPc' = "off" /\ ldRet' = ret
  <2>1. PICK img : img = ldImg
    OBVIOUS
  <2>2. ElfRelease(heap \ {"table"}) = {}
    BY <2>1, ReleasesAll
  <2> QED
    BY <2>2 DEF LoadAborts
<1>2. LdTypeOK'
  BY <1>1 DEF LoadInv, LdTypeOK, Busy
<1>3. HeaderInv' /\ SegmentInv' /\ NothingLeaked'
  BY <1>1 DEF HeaderInv, SegmentInv, NothingLeaked
<1>4. TableInv'
  BY <1>1 DEF LoadInv, TableInv
<1> QED
  BY <1>2, <1>3, <1>4 DEF LoadInv

\* No load is under way at the start.
LEMMA LoadInvInit == ElfInit => LoadInv
<1> SUFFICES ASSUME ElfInit PROVE LoadInv
  OBVIOUS
<1>1. LdTypeOK
  <2>1. [a \in 0 .. MemTop - 1 |-> JUNK] \in Memory
    BY DEF Memory, JUNK
  <2> QED
    BY <2>1 DEF ElfInit, LdTypeOK
<1>2. HeaderInv /\ SegmentInv /\ NothingLeaked
  BY DEF ElfInit, HeaderInv, SegmentInv, NothingLeaked
<1>3. TableInv
  BY DEF ElfInit, TableInv
<1> QED
  BY <1>1, <1>2, <1>3 DEF LoadInv

\* remoteproc_load is called: the store is opened, or is not.
LEMMA LoadCallKeeps ==
  ASSUME LoadInv, NEW keep \in BOOLEAN, LoadCall(keep)
  PROVE  LoadInv'
<1>1. LdTypeOK'
  <2>1. DOMAIN ldMem = 0 .. MemTop - 1
    BY DEF LoadInv, LdTypeOK, Memory
  <2>2. ldMem' \in Memory
    BY <2>1 DEF LoadCall, Memory, JUNK
  <2> QED
    BY <2>2 DEF LoadInv, LoadCall, LdTypeOK, Busy
<1>2. HeaderInv'
  <2>1. HeadersIn(Unparsed, {}, ldImg)
    BY DEF HeadersIn, Unparsed, LoadState, Hdrs, Phases, Parts
  <2> QED
    BY <2>1 DEF LoadCall, HeaderInv
<1>3. SegmentInv' /\ NothingLeaked'
  BY DEF LoadCall, SegmentInv, NothingLeaked, Unparsed
<1>4. TableInv'
  BY DEF LoadCall, TableInv
<1> QED
  BY <1>1, <1>2, <1>3, <1>4 DEF LoadInv

\* elf_load_header fails, before or after the segments.
LEMMA HeaderFailsKeeps ==
  ASSUME LoadInv, HeaderFails \/ PostHeaderFails
  PROVE  LoadInv'
<1>1. PICK nomem \in NoMem :
        LET h == LoadHeader(ldWin, nomem)
        IN  LoadAborts(h.heap, "error") /\ ldFault' = (ldFault \/ nomem # "none")
  BY DEF HeaderFails, PostHeaderFails
<1>2. PICK h : h = LoadHeader(ldWin, nomem)
  OBVIOUS
<1>3. ldImg \in Images /\ HeadersIn(ldInfo, ldHeap, ldImg)
  BY DEF LoadInv, LdTypeOK, HeaderInv, HeaderFails, PostHeaderFails
<1>4. CallOK(h, ldImg, ldInfo, ldHeap)
  BY <1>2, <1>3, LoadHeaderOK
<1>5. HeadersIn(h.st, h.heap, ldImg)
  BY <1>4 DEF CallOK
<1>6. LoadAborts(h.heap, "error")
  BY <1>1, <1>2
<1>7. ldFault' \in BOOLEAN
  BY <1>1
<1>8. UNCHANGED <<ldImg, ldMem, ldSize, ldKeep>>
  BY DEF HeaderFails, PostHeaderFails
<1> QED
  BY <1>5, <1>6, <1>7, <1>8, AbortKeeps

\* The headers that are needed first are read.
LEMMA HeadersLoadedKeeps ==
  ASSUME LoadInv, HeadersLoaded
  PROVE  LoadInv'
<1>1. PICK h : h = LoadHeader(ldWin, "none")
  OBVIOUS
<1>2. /\ ldPc = "header" /\ h.ret # "error" /\ HeadersSuffice(h)
      /\ ldInfo' = h.st /\ ldHeap' = h.heap /\ ldPc' = "table"
      /\ UNCHANGED <<ldImg, ldWin, ldOpen, ldMem, ldSize, ldRet, ldKeep, ldFault>>
  BY <1>1 DEF HeadersLoaded
<1>3. ldImg \in Images /\ HeadersIn(ldInfo, ldHeap, ldImg)
  BY <1>2 DEF LoadInv, LdTypeOK, HeaderInv
<1>4. CallOK(h, ldImg, ldInfo, ldHeap) /\ (h.nlen = 0 <=> h.st.hdr = "COMPLETE")
  BY <1>1, <1>2, <1>3, LoadHeaderOK
<1>5. LdTypeOK'
  BY <1>2 DEF LoadInv, LdTypeOK, Busy
<1>6. HeaderInv'
  BY <1>2, <1>4 DEF LoadInv, HeaderInv, CallOK
<1>7. SegmentInv'
  <2>1. h.st.phase = "READY" /\ h.st.seg = ldInfo.seg
    BY <1>2, <1>4 DEF HeadersSuffice, CallOK
  <2>2. ldInfo.seg = 0 /\ ldRet = "none"
    BY <1>2 DEF LoadInv, SegmentInv, HeaderInv
  <2> QED
    BY <1>2, <2>1, <2>2 DEF SegmentInv
<1>8. TableInv'
  <2>1. ldImg.seek => h.st.hdr = "COMPLETE"
    BY <1>2, <1>4 DEF HeadersSuffice
  <2>2. ldRet = "none" /\ ldSize \in {0, ldImg.rsc.len}
    BY <1>2 DEF LoadInv, TableInv, HeaderInv
  <2> QED
    BY <1>2, <2>1, <2>2 DEF TableInv
<1>9. NothingLeaked'
  BY <1>2 DEF NothingLeaked
<1> QED
  BY <1>5, <1>6, <1>7, <1>8, <1>9 DEF LoadInv

\* More of the headers is fetched from the store.
LEMMA HeaderMoreKeeps ==
  ASSUME LoadInv, NEW served \in BOOLEAN, HeaderMore(served)
  PROVE  LoadInv'
<1>1. PICK h : h = LoadHeader(ldWin, "none")
  OBVIOUS
<1>2. /\ ldPc = "header" /\ h.ret # "error"
      /\ ldInfo' = h.st
      /\ IF served THEN /\ ldHeap' = h.heap /\ UNCHANGED <<ldPc, ldOpen, ldRet, ldFault>>
         ELSE LoadAborts(h.heap, "count") /\ ldFault' = TRUE
      /\ UNCHANGED <<ldImg, ldMem, ldSize, ldKeep>>
  BY <1>1 DEF HeaderMore
<1>3. ldImg \in Images /\ HeadersIn(ldInfo, ldHeap, ldImg)
  BY <1>2 DEF LoadInv, LdTypeOK, HeaderInv
<1>4. CallOK(h, ldImg, ldInfo, ldHeap)
  BY <1>1, <1>3, LoadHeaderOK
<1>5. HeadersIn(h.st, h.heap, ldImg)
  BY <1>4 DEF CallOK
<1>6. CASE ~served
  <2>1. LoadAborts(h.heap, "count") /\ ldFault' \in BOOLEAN
    BY <1>2, <1>6
  <2>2. UNCHANGED <<ldImg, ldMem, ldSize, ldKeep>>
    BY <1>2
  <2> QED
    BY <1>5, <2>1, <2>2, AbortKeeps
<1>7. CASE served
  <2>0. ldHeap' = h.heap /\ UNCHANGED <<ldPc, ldOpen, ldRet, ldFault>>
    BY <1>2, <1>7
  <2>1. LdTypeOK'
    BY <1>2, <2>0 DEF LoadInv, LdTypeOK
  <2>2. HeaderInv'
    BY <1>2, <2>0, <1>5 DEF LoadInv, HeaderInv
  <2>3. SegmentInv'
    <3>1. h.st.seg = ldInfo.seg
          /\ (h.st.phase = ldInfo.phase \/ (ldInfo.phase = "NOT_READY" /\ h.st.phase = "READY"))
      BY <1>4 DEF CallOK
    <3>2. ldInfo.seg = 0 /\ ldRet = "none" /\ ldInfo.phase \in {"NOT_READY", "READY"}
      BY <1>2 DEF LoadInv, SegmentInv, HeaderInv
    <3> QED
      BY <1>2, <2>0, <3>1, <3>2 DEF SegmentInv
  <2>4. TableInv'
    <3>1. ldRet = "none" /\ ldSize \in {0, ldImg.rsc.len}
      BY <1>2 DEF LoadInv, TableInv, HeaderInv
    <3> QED
      BY <1>2, <2>0, <3>1 DEF TableInv
  <2>5. NothingLeaked'
    BY <1>2, <2>0 DEF NothingLeaked
  <2> QED
    BY <2>1, <2>2, <2>3, <2>4, <2>5 DEF LoadInv
<1> QED
  BY <1>6, <1>7

\* The resource table is located and parsed, or the load is given up.
LEMMA LocateTableKeeps ==
  ASSUME LoadInv, NEW copied \in BOOLEAN, LocateTable(copied)
  PROVE  LoadInv'
<1>1. /\ ldPc \in {"table", "table again"}
      /\ ldSize' = IF ldSize = 0 THEN LocatedSize ELSE ldSize
      /\ ldHeap' = IF copied THEN ldHeap \cup {"table"} ELSE ldHeap
      /\ ldPc' = IF ldPc = "table" THEN "data" ELSE "adopt"
      /\ UNCHANGED <<ldImg, ldInfo, ldLast, ldOpen, ldMem, ldRet, ldKeep, ldFault>>
  BY DEF LocateTable
<1>2. ldImg \in Images /\ HeadersIn(ldInfo, ldHeap, ldImg) /\ ldRet = "none"
  BY <1>1 DEF LoadInv, LdTypeOK, HeaderInv
<1>3. LdTypeOK'
  BY <1>1 DEF LoadInv, LdTypeOK, Busy
<1>4. HeaderInv'
  <2>1. PICK st, heap, img : st = ldInfo /\ heap = ldHeap /\ img = ldImg
    OBVIOUS
  <2>2. HeadersIn(st, heap, img) /\ HeadersIn(st, heap \cup {"table"}, img)
    BY <1>2, <2>1, HeadersKept
  <2>3. HeadersIn(ldInfo, ldHeap', ldImg)
    BY <1>1, <2>1, <2>2
  <2> QED
    BY <1>1, <1>2, <2>3 DEF HeaderInv
<1>5. SegmentInv'
  <2>1. CASE ldPc = "table"
    <3>1. ldInfo.phase = "READY" /\ ldInfo.seg = 0
      BY <2>1 DEF LoadInv, SegmentInv
    <3>2. AllPlaced(ldMem, ldImg, 0)
      BY DEF AllPlaced
    <3>3. Len(ldImg.phdrs) \in Nat /\ Len(ldImg.phdrs) >= 1
      BY <1>2, ImageFacts
    <3>4. 0 \in 0 .. Len(ldImg.phdrs) - 1
      BY <3>3
    <3> QED
      BY <1>1, <1>2, <2>1, <3>1, <3>2, <3>4 DEF SegmentInv, Phnum
  <2>2. CASE ldPc = "table again"
    <3>1. AllPlaced(ldMem, ldImg, Len(ldImg.phdrs))
      BY <2>2 DEF LoadInv, SegmentInv, Phnum
    <3> QED
      BY <1>1, <2>2, <3>1 DEF SegmentInv, Phnum
  <2> QED
    BY <1>1, <2>1, <2>2
<1>6. TableInv'
  <2>1. ldSize \in {0, ldImg.rsc.len} /\ LocatedSize \in {0, ldImg.rsc.len}
    BY DEF LoadInv, TableInv, LocatedSize
  <2>2. ldSize' \in {0, ldImg.rsc.len}
    BY <1>1, <2>1
  <2>3. CASE ldPc = "table"
    BY <1>1, <1>2, <2>2, <2>3 DEF LoadInv, TableInv
  <2>4. CASE ldPc = "table again"
    <3>1. ASSUME ~ldFault, Findable, ldImg.shnum > 0
          PROVE  ldSize' = ldImg.rsc.len
      <4>1. ldInfo.hdr = "COMPLETE"
        BY <2>4, <3>1 DEF LoadInv, TableInv
      <4>2. {"shdrs", "shstrtab"} \subseteq ldHeap
        BY <1>2, <3>1, <4>1 DEF HeadersIn
      <4>3. LocatedSize = ldImg.rsc.len
        BY <4>1, <4>2 DEF LocatedSize
      <4> QED
        BY <1>1, <2>1, <4>3
    <3>2. Findable' = Findable
      BY <1>1 DEF Findable, Segment, Phnum
    <3> QED
      BY <1>1, <2>2, <2>4, <3>1, <3>2 DEF TableInv
  <2> QED
    BY <1>1, <2>3, <2>4
<1>7. NothingLeaked'
  BY <1>1 DEF NothingLeaked
<1> QED
  BY <1>3, <1>4, <1>5, <1>6, <1>7 DEF LoadInv

\* A number below another is its own remainder.
LEMMA SmallRemainder ==
  ASSUME NEW n \in Nat, NEW m \in Nat \ {0}
  PROVE  n % m \in Nat /\ (n < m => n % m = n)
  OBVIOUS

\* The segment that is loaded next: those before it are loaded, or need not be.
LEMMA NextSegmentFacts ==
  ASSUME ldImg \in Images, ldInfo.seg \in 0 .. Phnum - 1, LoadableFrom(ldInfo.seg) # {}
  PROVE  /\ NextSegment \in 1 .. Phnum /\ NextSegment > ldInfo.seg
         /\ Segment(NextSegment).load
         /\ \A j \in 1 .. Phnum : j > ldInfo.seg /\ j < NextSegment => ~Segment(j).load
<1>1. PICK T, g, n : T = LoadableFrom(ldInfo.seg) /\ g = ldInfo.seg /\ n = Phnum
  OBVIOUS
<1>2. n \in Nat /\ g \in 0 .. n - 1
  BY <1>1, ImageFacts DEF Phnum
<1>3. T = {k \in g + 1 .. n : Segment(k).load}
  BY <1>1 DEF LoadableFrom
<1>4. T \in SUBSET Nat /\ T # {}
  BY <1>1, <1>2, <1>3
<1>5. PICK k : k = Min(T)
  OBVIOUS
<1>6. k \in T /\ \A y \in T : k <= y
  BY <1>4, <1>5, MinIsLeast
<1>7. k = NextSegment
  BY <1>1, <1>5 DEF NextSegment
<1>8. k \in g + 1 .. n /\ Segment(k).load
  BY <1>3, <1>6
<1>9. k \in 1 .. n /\ k > g
  BY <1>2, <1>8
<1>10. ASSUME NEW j \in 1 .. n, j > g, j < k
       PROVE  ~Segment(j).load
  <2>1. j \in g + 1 .. n
    BY <1>2, <1>10
  <2>2. j \notin T
    BY <1>2, <1>6, <1>9, <1>10
  <2> QED
    BY <1>3, <2>1, <2>2
<1> QED
  BY <1>1, <1>7, <1>8, <1>9, <1>10

\* Loading segment k after the first g, when none in between is loaded.
LEMMA PlacedUpTo ==
  ASSUME NEW img \in Images, NEW mem \in Memory, NEW g \in Nat, NEW k \in 1 .. Len(img.phdrs), k > g,
         AllPlaced(mem, img, g), img.phdrs[k].load,
         \A j \in 1 .. Len(img.phdrs) : j > g /\ j < k => ~img.phdrs[j].load,
         NEW s, s = img.phdrs[k], Mapped(s.da, s.msz)
  PROVE  Placed(mem, s) \in Memory /\ AllPlaced(Placed(mem, s), img, k)
<1>1. /\ Placed(mem, s) \in Memory /\ PlacedIn(Placed(mem, s), s)
      /\ \A j \in 1 .. Len(img.phdrs) :
           j # k /\ PlacedIn(mem, img.phdrs[j]) => PlacedIn(Placed(mem, s), img.phdrs[j])
  BY PlacedFacts
<1>2. Len(img.phdrs) \in Nat
  BY ImageFacts
<1>3. ASSUME NEW j \in 1 .. k
      PROVE  PlacedIn(Placed(mem, s), img.phdrs[j])
  <2>1. j \in 1 .. Len(img.phdrs)
    BY <1>2, <1>3
  <2>2. CASE j = k
    BY <1>1, <2>2
  <2>3. CASE j <= g
    <3>1. PlacedIn(mem, img.phdrs[j])
      <4>1. j \in 1 .. g
        BY <1>2, <2>1, <2>3
      <4> QED
        BY <4>1 DEF AllPlaced
    <3>2. j # k
      BY <1>2, <2>1, <2>3
    <3> QED
      BY <1>1, <2>1, <3>1, <3>2
  <2>4. CASE j > g /\ j < k
    <3>1. ~img.phdrs[j].load
      BY <2>1, <2>4
    <3> QED
      BY <3>1 DEF PlacedIn
  <2> QED
    BY <1>2, <1>3, <2>1, <2>2, <2>3, <2>4
<1> QED
  BY <1>1, <1>3 DEF AllPlaced

\* The next segment is loaded: it lands on no other one's place.
LEMMA LoadSegmentKeeps ==
  ASSUME LoadInv, NEW served \in BOOLEAN, LoadSegment(served)
  PROVE  LoadInv'
<1>0. PICK img, mem, info, n, k, s : /\ img = ldImg /\ mem = ldMem /\ info = ldInfo /\ n = Phnum
                                     /\ k = NextSegment /\ s = Segment(NextSegment)
  OBVIOUS
<1>1. /\ ldPc = "data" /\ info.phase = "READY" /\ LoadableFrom(info.seg) # {}
      /\ ldInfo' = SegmentTaken(k)
      /\ ldFault' = (ldFault \/ (Mapped(s.da, s.msz) /\ s.fsz > 0 /\ ~served))
      /\ IF Mapped(s.da, s.msz) /\ (s.fsz = 0 \/ served)
         THEN ldMem' = Placed(mem, s) /\ UNCHANGED <<ldHeap, ldOpen, ldPc, ldRet>>
         ELSE LoadAborts(ldHeap, "error") /\ UNCHANGED ldMem
      /\ UNCHANGED <<ldImg, ldWin, ldSize, ldKeep>>
  BY <1>0 DEF LoadSegment
<1>2. img \in Images /\ HeadersIn(info, ldHeap, img) /\ ldRet = "none" /\ mem \in Memory
  BY <1>0, <1>1 DEF LoadInv, LdTypeOK, HeaderInv
<1>3. info.seg \in 0 .. n - 1 /\ AllPlaced(mem, img, info.seg)
  BY <1>0, <1>1 DEF LoadInv, SegmentInv
<1>4. ldFault' \in BOOLEAN
  BY <1>1
<1>5. CASE ~(Mapped(s.da, s.msz) /\ (s.fsz = 0 \/ served))
  <2>1. LoadAborts(ldHeap, "error") /\ UNCHANGED ldMem
    BY <1>1, <1>5
  <2>2. UNCHANGED <<ldImg, ldMem, ldSize, ldKeep>>
    BY <1>1, <2>1
  <2>3. PICK heap : heap = ldHeap
    OBVIOUS
  <2>4. HeadersIn(info, heap, ldImg) /\ LoadAborts(heap, "error")
    BY <1>0, <1>2, <2>1, <2>3
  <2> QED
    BY <1>4, <2>2, <2>4, AbortKeeps
<1>6. CASE Mapped(s.da, s.msz) /\ (s.fsz = 0 \/ served)
  <2>1. ldMem' = Placed(mem, s) /\ UNCHANGED <<ldHeap, ldOpen, ldPc, ldRet>>
    BY <1>1, <1>6
  <2>2. /\ n = Len(img.phdrs) /\ n \in Nat /\ n <= SEGS /\ SEGS \in Nat \ {0}
    BY <1>0, <1>2, ImageFacts DEF Phnum
  <2>3. /\ k \in 1 .. n /\ k > info.seg /\ img.phdrs[k].load /\ s = img.phdrs[k]
        /\ \A j \in 1 .. n : j > info.seg /\ j < k => ~img.phdrs[j].load
    BY <1>0, <1>1, <1>2, <1>3, NextSegmentFacts DEF Segment
  <2>4. info.seg \in Nat
    BY <1>3, <2>2
  <2>5. ldMem' \in Memory /\ AllPlaced(ldMem', img, k)
    <3>1. Placed(mem, s) \in Memory /\ AllPlaced(Placed(mem, s), img, k)
      BY <1>2, <1>3, <1>6, <2>2, <2>3, <2>4, PlacedUpTo
    <3> QED
      BY <2>1, <3>1
  <2>6. PICK st : st = SegmentTaken(k)
    OBVIOUS
  <2>7. k \in Nat /\ k % SEGS \in Nat /\ (k < SEGS => k % SEGS = k)
    BY <2>2, <2>3, SmallRemainder
  <2>8. info \in LoadState
    BY <1>2 DEF HeadersIn
  <2>9. /\ st \in LoadState /\ st.hdr = info.hdr /\ st.seg = k % SEGS
        /\ st.phase = IF k = n THEN "POST" ELSE info.phase
    BY <1>0, <2>6, <2>7, <2>8 DEF SegmentTaken, LoadState, Phases
  <2>10. HeadersIn(st, ldHeap, img)
    <3>1. PICK heap : heap = ldHeap
      OBVIOUS
    <3>2. HeadersIn(info, heap, img) /\ st.phase # "NOT_READY"
      BY <1>1, <1>2, <2>9, <3>1
    <3>3. HeadersIn(st, heap, img)
      BY <1>1, <2>9, <3>2, HeadersKept
    <3> QED
      BY <3>1, <3>3
  <2>11. LdTypeOK'
    BY <1>1, <1>4, <2>1, <2>5 DEF LoadInv, LdTypeOK
  <2>12. HeaderInv'
    BY <1>0, <1>1, <1>2, <2>1, <2>6, <2>10 DEF HeaderInv
  <2>13. SegmentInv'
    <3>1. ldPc' = "data" /\ ldRet' = "none" /\ ldImg' = img /\ ldInfo' = st /\ Phnum' = n
      BY <1>0, <1>1, <1>2, <2>1, <2>6 DEF Phnum
    <3>2. CASE k = n
      <4>1. st.phase = "POST" /\ AllPlaced(ldMem', img, n)
        BY <2>5, <2>9, <3>2
      <4> QED
        BY <3>1, <4>1 DEF SegmentInv
    <3>3. CASE k # n
      <4>1. st.phase = "READY" /\ st.seg = k /\ k \in 0 .. n - 1
        BY <1>1, <2>2, <2>3, <2>7, <2>9, <3>3
      <4> QED
        BY <2>5, <3>1, <4>1 DEF SegmentInv
    <3> QED
      BY <3>2, <3>3
  <2>14. TableInv'
    <3>1. ldSize \in {0, ldImg.rsc.len} /\ (ldImg.seek => ldInfo.hdr = "COMPLETE")
      BY <1>1 DEF LoadInv, TableInv
    <3> QED
      BY <1>0, <1>1, <1>2, <2>1, <2>6, <2>9, <3>1 DEF TableInv
  <2>15. NothingLeaked'
    BY <1>1, <2>1 DEF NothingLeaked
  <2> QED
    BY <2>11, <2>12, <2>13, <2>14, <2>15 DEF LoadInv
<1> QED
  BY <1>5, <1>6

\* The loading ends: after the last program header, or after the headers that
\* were missing.
LEMMA NoMoreSegmentsKeeps ==
  ASSUME LoadInv, NoMoreSegments
  PROVE  LoadInv'
<1>0. PICK img, mem, info, n : img = ldImg /\ mem = ldMem /\ info = ldInfo /\ n = Phnum
  OBVIOUS
<1>1. /\ ldPc = "data" /\ info.phase = "READY" /\ LoadableFrom(info.seg) = {}
      /\ ldInfo' = [info EXCEPT !.phase = "COMPLETE", !.seg = n % SEGS] /\ ldPc' = "table again"
      /\ UNCHANGED <<ldImg, ldWin, ldHeap, ldOpen, ldMem, ldSize, ldRet, ldKeep, ldFault>>
  BY <1>0 DEF NoMoreSegments
<1>2. img \in Images /\ HeadersIn(info, ldHeap, img) /\ ldRet = "none"
  BY <1>0, <1>1 DEF LoadInv, LdTypeOK, HeaderInv
<1>3. info.seg \in 0 .. n - 1 /\ AllPlaced(mem, img, info.seg)
  BY <1>0, <1>1 DEF LoadInv, SegmentInv
<1>4. /\ n = Len(img.phdrs) /\ n \in Nat /\ n >= 1 /\ SEGS \in Nat \ {0} /\ n % SEGS \in Nat
  BY <1>0, <1>2, ImageFacts, SmallRemainder DEF Phnum
<1>5. \A j \in info.seg + 1 .. n : ~img.phdrs[j].load
  BY <1>0, <1>1 DEF LoadableFrom, Segment
<1>6. AllPlaced(mem, img, n)
  <2>1. ASSUME NEW j \in 1 .. n
        PROVE  PlacedIn(mem, img.phdrs[j])
    <3>1. CASE j <= info.seg
      <4>1. j \in 1 .. info.seg
        BY <1>3, <1>4, <3>1
      <4> QED
        BY <1>3, <4>1 DEF AllPlaced
    <3>2. CASE j > info.seg
      <4>1. j \in info.seg + 1 .. n
        BY <1>3, <1>4, <3>2
      <4> QED
        BY <1>5, <4>1 DEF PlacedIn
    <3> QED
      BY <1>3, <1>4, <3>1, <3>2
  <2> QED
    BY <2>1 DEF AllPlaced
<1>7. ~img.phdrs[n].load
  <2>1. n \in info.seg + 1 .. n
    BY <1>3, <1>4
  <2> QED
    BY <1>5, <2>1
<1>8. LdTypeOK'
  BY <1>1 DEF LoadInv, LdTypeOK, Busy
<1>9. HeaderInv'
  <2>1. PICK st, heap : st = [info EXCEPT !.phase = "COMPLETE", !.seg = n % SEGS] /\ heap = ldHeap
    OBVIOUS
  <2>2. info \in LoadState
    BY <1>2 DEF HeadersIn
  <2>3. st \in LoadState /\ st.hdr = info.hdr /\ st.phase # "NOT_READY"
    BY <1>4, <2>1, <2>2 DEF LoadState, Phases
  <2>4. HeadersIn(st, heap, img)
    BY <1>1, <1>2, <2>1, <2>3, HeadersKept
  <2> QED
    BY <1>0, <1>1, <1>2, <2>1, <2>4 DEF HeaderInv
<1>10. SegmentInv'
  BY <1>0, <1>1, <1>4, <1>6 DEF SegmentInv, Phnum
<1>11. TableInv'
  <2>1. ldSize \in {0, ldImg.rsc.len} /\ (ldImg.seek => info.hdr = "COMPLETE")
    BY <1>0, <1>1 DEF LoadInv, TableInv
  <2>2. ldInfo'.hdr = info.hdr
    BY <1>1, <1>2 DEF HeadersIn, LoadState
  <2>3. Findable' => ldImg.seek
    BY <1>0, <1>1, <1>4, <1>7 DEF Findable, Segment, Phnum
  <2> QED
    BY <1>1, <1>2, <2>1, <2>2, <2>3 DEF TableInv
<1>12. NothingLeaked'
  BY <1>1 DEF NothingLeaked
<1> QED
  BY <1>8, <1>9, <1>10, <1>11, <1>12 DEF LoadInv

\* All segments are loaded and no header is missing.
LEMMA PostDoneKeeps ==
  ASSUME LoadInv, PostDone
  PROVE  LoadInv'
<1>0. PICK img, info, heap : img = ldImg /\ info = ldInfo /\ heap = ldHeap
  OBVIOUS
<1>1. /\ ldPc = "data" /\ info.phase = "POST" /\ info.hdr = "COMPLETE"
      /\ ldInfo' = [info EXCEPT !.phase = "COMPLETE"] /\ ldPc' = "table again"
      /\ UNCHANGED <<ldImg, ldWin, ldHeap, ldOpen, ldMem, ldSize, ldRet, ldKeep, ldFault>>
  BY <1>0 DEF PostDone
<1>2. HeadersIn(info, heap, img) /\ ldRet = "none"
  BY <1>0, <1>1 DEF LoadInv, HeaderInv
<1>3. PICK st : st = [info EXCEPT !.phase = "COMPLETE"]
  OBVIOUS
<1>4. st \in LoadState /\ st.hdr = info.hdr /\ st.phase = "COMPLETE"
  BY <1>2, <1>3 DEF HeadersIn, LoadState, Phases
<1>5. HeadersIn(st, heap, img)
  BY <1>1, <1>2, <1>4, HeadersKept
<1>6. LdTypeOK'
  BY <1>1 DEF LoadInv, LdTypeOK, Busy
<1>7. HeaderInv'
  BY <1>0, <1>1, <1>2, <1>3, <1>5 DEF HeaderInv
<1>8. SegmentInv'
  <2>1. AllPlaced(ldMem, ldImg, Phnum)
    BY <1>0, <1>1 DEF LoadInv, SegmentInv
  <2> QED
    BY <1>1, <2>1 DEF SegmentInv, Phnum
<1>9. TableInv'
  <2>1. ldSize \in {0, ldImg.rsc.len}
    BY DEF LoadInv, TableInv
  <2> QED
    BY <1>1, <1>2, <1>3, <1>4, <2>1 DEF TableInv
<1>10. NothingLeaked'
  BY <1>1 DEF NothingLeaked
<1> QED
  BY <1>6, <1>7, <1>8, <1>9, <1>10 DEF LoadInv

\* A header behind the segments is fetched.
LEMMA PostHeaderKeeps ==
  ASSUME LoadInv, NEW served \in BOOLEAN, PostHeader(served)
  PROVE  LoadInv'
<1>0. PICK img, info, heap : img = ldImg /\ info = ldInfo /\ heap = ldHeap
  OBVIOUS
<1>1. PICK h : h = LoadHeader(ldWin, "none")
  OBVIOUS
<1>2. /\ ldPc = "data" /\ info.phase = "POST" /\ info.hdr # "COMPLETE" /\ h.ret # "error"
      /\ ldInfo' = IF h.st.hdr = "COMPLETE" THEN [h.st EXCEPT !.phase = "COMPLETE"] ELSE h.st
      /\ ldHeap' = h.heap /\ (served => h.nlen > 0)
      /\ ldFault' = (ldFault \/ (h.nlen > 0 /\ ~served))
      /\ ldPc' = IF served THEN ldPc ELSE "table again"
      /\ UNCHANGED <<ldImg, ldOpen, ldMem, ldSize, ldRet, ldKeep>>
  BY <1>0, <1>1 DEF PostHeader
<1>3. img \in Images /\ HeadersIn(info, heap, img) /\ ldRet = "none"
  BY <1>0, <1>2 DEF LoadInv, LdTypeOK, HeaderInv
<1>4. CallOK(h, img, info, heap) /\ (h.nlen = 0 <=> h.st.hdr = "COMPLETE")
  BY <1>0, <1>1, <1>2, <1>3, LoadHeaderOK
<1>5. /\ h.nlen \in Nat /\ h.st \in LoadState /\ HeadersIn(h.st, h.heap, img) /\ h.st.phase = "POST"
  BY <1>2, <1>4 DEF CallOK, Call
<1>6. PICK st : st = IF h.st.hdr = "COMPLETE" THEN [h.st EXCEPT !.phase = "COMPLETE"] ELSE h.st
  OBVIOUS
<1>7. /\ st \in LoadState /\ st.hdr = h.st.hdr /\ st.phase # "NOT_READY"
      /\ h.st.hdr # "COMPLETE" => st.phase = "POST"
  BY <1>5, <1>6 DEF LoadState, Phases
<1>8. HeadersIn(st, h.heap, img)
  <2>1. PICK a, b : a = h.st /\ b = h.heap
    OBVIOUS
  <2>2. HeadersIn(a, b, img) /\ st.hdr = a.hdr /\ a.phase # "NOT_READY"
    BY <1>5, <1>7, <2>1
  <2>3. HeadersIn(st, b, img)
    BY <1>7, <2>2, HeadersKept
  <2> QED
    BY <2>1, <2>3
<1>9. LdTypeOK'
  BY <1>2 DEF LoadInv, LdTypeOK, Busy
<1>10. HeaderInv'
  BY <1>0, <1>2, <1>3, <1>6, <1>8 DEF HeaderInv
<1>11. AllPlaced(ldMem, ldImg, Phnum)
  BY <1>0, <1>2 DEF LoadInv, SegmentInv
<1>12. SegmentInv'
  <2>1. served => st.phase = "POST"
    BY <1>2, <1>4, <1>5, <1>7
  <2>2. AllPlaced(ldMem, ldImg, Phnum)'
    BY <1>2, <1>11 DEF Phnum
  <2> QED
    BY <1>2, <1>3, <1>6, <2>1, <2>2 DEF SegmentInv
<1>13. TableInv'
  <2>1. ldSize \in {0, ldImg.rsc.len} /\ ~ldImg.seek
    BY <1>0, <1>2 DEF LoadInv, TableInv
  <2>2. ldPc' = "table again" /\ ~ldFault' => st.hdr = "COMPLETE"
    <3>1. ldPc' = "table again" => ~served
      BY <1>2
    <3>2. ~ldFault' /\ ~served => ~(h.nlen > 0)
      BY <1>2, Zenon
    <3>3. ~(h.nlen > 0) => h.nlen = 0
      BY <1>5
    <3> QED
      BY <1>4, <1>7, <3>1, <3>2, <3>3, Zenon
  <2> QED
    BY <1>2, <1>3, <1>6, <2>1, <2>2 DEF TableInv
<1>14. NothingLeaked'
  BY <1>2 DEF NothingLeaked
<1> QED
  BY <1>9, <1>10, <1>12, <1>13, <1>14 DEF LoadInv

\* remoteproc_load writes the table back and returns.
LEMMA LoadReturnsKeeps ==
  ASSUME LoadInv, LoadReturns
  PROVE  LoadInv'
<1>0. PICK img, info, heap, mem : img = ldImg /\ info = ldInfo /\ heap = ldHeap /\ mem = ldMem
  OBVIOUS
<1>1. /\ ldPc = "adopt" /\ ldMem' = TableMem(mem)
      /\ ldHeap' = IF ldKeep THEN heap \ {"table"} ELSE ElfRelease(heap \ {"table"})
      /\ ldOpen' = FALSE /\ ldPc' = "off" /\ ldRet' = "ok"
      /\ UNCHANGED <<ldImg, ldInfo, ldLast, ldWin, ldSize, ldKeep, ldFault>>
  BY <1>0 DEF LoadReturns
<1>2. img \in Images /\ HeadersIn(info, heap, img) /\ mem \in Memory
  BY <1>0, <1>1 DEF LoadInv, LdTypeOK, HeaderInv
<1>3. AllPlaced(mem, img, Len(img.phdrs))
  BY <1>0, <1>1 DEF LoadInv, SegmentInv, Phnum
<1>4. ldMem' \in Memory /\ AllPlaced(ldMem', img, Len(img.phdrs))
  <2>1. DOMAIN mem = 0 .. MemTop - 1
    BY <1>2 DEF Memory
  <2>2. CASE "table" \notin ldHeap \/ ~Mapped(ldImg.rsc.da, ldSize)
    <3>1. TableMem(mem) = mem
      BY <2>2 DEF TableMem
    <3> QED
      BY <1>1, <1>2, <1>3, <3>1
  <2>3. CASE ~("table" \notin ldHeap \/ ~Mapped(ldImg.rsc.da, ldSize))
    <3>1. PICK pa, n : pa = DaToPa(ldImg.rsc.da, ldSize) /\ n = ldSize
      OBVIOUS
    <3>2. TableMem(mem) = WithTable(mem, pa, n)
      BY <2>1, <2>3, <3>1 DEF TableMem, WithTable
    <3>3. WithTable(mem, pa, n) \in Memory /\ AllPlaced(WithTable(mem, pa, n), img, Len(img.phdrs))
      BY <1>2, <1>3, WithTableFacts
    <3> QED
      BY <1>1, <3>2, <3>3
  <2> QED
    BY <2>2, <2>3
<1>5. LdTypeOK'
  BY <1>1, <1>4 DEF LoadInv, LdTypeOK
<1>6. HeaderInv'
  BY <1>1 DEF HeaderInv
<1>7. SegmentInv'
  BY <1>0, <1>1, <1>4 DEF SegmentInv, Phnum
<1>8. TableInv'
  <2>1. Findable' = Findable
    BY <1>1 DEF Findable, Segment, Phnum
  <2> QED
    BY <1>1, <2>1 DEF LoadInv, TableInv
<1>9. NothingLeaked'
  <2>1. ElfRelease(heap \ {"table"}) = {} /\ heap \ {"table"} \subseteq HeaderParts
    BY <1>2, ReleasesAll
  <2> QED
    BY <1>1, <2>1 DEF NothingLeaked
<1> QED
  BY <1>5, <1>6, <1>7, <1>8, <1>9 DEF LoadInv

\* Every step of the loader keeps LoadInv.
LEMMA LoadInductive == LoadInv /\ [ElfNext]_elfVars => LoadInv'
<1> SUFFICES ASSUME LoadInv, [ElfNext]_elfVars PROVE LoadInv'
  OBVIOUS
<1>1. CASE \E keep \in BOOLEAN : LoadCall(keep)
  BY <1>1, LoadCallKeeps
<1>2. CASE HeaderFails \/ PostHeaderFails
  BY <1>2, HeaderFailsKeeps
<1>3. CASE HeadersLoaded
  BY <1>3, HeadersLoadedKeeps
<1>4. CASE NoMoreSegments
  BY <1>4, NoMoreSegmentsKeeps
<1>5. CASE PostDone
  BY <1>5, PostDoneKeeps
<1>6. CASE LoadReturns
  BY <1>6, LoadReturnsKeeps
<1>7. CASE \E b \in BOOLEAN : HeaderMore(b)
  BY <1>7, HeaderMoreKeeps
<1>8. CASE \E b \in BOOLEAN : LocateTable(b)
  BY <1>8, LocateTableKeeps
<1>9. CASE \E b \in BOOLEAN : LoadSegment(b)
  BY <1>9, LoadSegmentKeeps
<1>10. CASE \E b \in BOOLEAN : PostHeader(b)
  BY <1>10, PostHeaderKeeps
<1>11. CASE UNCHANGED elfVars
  <2>1. /\ ldPc' = ldPc /\ ldImg' = ldImg /\ ldInfo' = ldInfo /\ ldHeap' = ldHeap /\ ldOpen' = ldOpen
        /\ ldMem' = ldMem /\ ldSize' = ldSize /\ ldRet' = ldRet /\ ldKeep' = ldKeep /\ ldFault' = ldFault
    BY <1>11 DEF elfVars
  <2>2. LdTypeOK' /\ HeaderInv' /\ NothingLeaked'
    BY <2>1 DEF LoadInv, LdTypeOK, HeaderInv, NothingLeaked
  <2>3. SegmentInv'
    BY <2>1 DEF LoadInv, SegmentInv, Phnum
  <2>4. TableInv'
    BY <2>1 DEF LoadInv, TableInv, Findable, Segment, Phnum
  <2> QED
    BY <2>2, <2>3, <2>4 DEF LoadInv
<1> QED
  BY <1>1, <1>2, <1>3, <1>4, <1>5, <1>6, <1>7, <1>8, <1>9, <1>10, <1>11, Zenon DEF ElfNext, LoaderStep

\* LoadInv at the end of a load is what LoadExact asks for.
LEMMA LoadInvExact == LoadInv => LoadExact
<1> SUFFICES ASSUME LoadInv PROVE LoadExact
  OBVIOUS
<1>1. SegmentsPlaced
  <2> SUFFICES ASSUME ldRet = "ok", NEW k \in 1 .. Phnum, Segment(k).load,
                      NEW b \in 0 .. Segment(k).msz - 1
               PROVE  LET s == Segment(k)
                          m == Mems[Min(MemsWith(s.da, s.msz))]
                      IN  ldMem[m.pa + (s.da - m.da) + b] \in {RSC, IF b < s.fsz THEN s.off + b ELSE PAD}
    BY DEF SegmentsPlaced
  <2>1. PICK s, img : s = Segment(k) /\ img = ldImg
    OBVIOUS
  <2>2. img \in Images /\ k \in 1 .. Len(img.phdrs) /\ s = img.phdrs[k]
    BY <2>1 DEF LoadInv, LdTypeOK, Segment, Phnum
  <2>3. AllPlaced(ldMem, img, Len(img.phdrs))
    BY <2>1 DEF LoadInv, SegmentInv, Phnum
  <2>4. PlacedIn(ldMem, s)
    BY <2>2, <2>3 DEF AllPlaced
  <2>5. Mapped(s.da, s.msz) /\ ldMem[SegmentAt(s) + b] \in {RSC, IF b < s.fsz THEN s.off + b ELSE PAD}
    BY <2>1, <2>4 DEF PlacedIn
  <2>6. PICK m : m = Mems[Min(MemsWith(s.da, s.msz))]
    OBVIOUS
  <2>7. s.da \in Nat /\ s.msz \in Nat
    BY <2>2, SegmentFacts
  <2>8. m.pa \in Nat /\ m.da \in Nat
    <3>1. Mems \in Seq([da : Nat, pa : Nat, size : Nat]) /\ DOMAIN Mems = 1 .. Len(Mems) /\ Len(Mems) \in Nat
      BY ElfAssumption DEF ElfAssumption
    <3>2. PICK S : S = MemsWith(s.da, s.msz)
      OBVIOUS
    <3>3. S \in SUBSET DOMAIN Mems /\ S # {}
      BY <2>5, <3>2, Zenon DEF Mapped, MemsWith
    <3>4. S \in SUBSET Nat
      BY <3>1, <3>3
    <3>5. Min(S) \in 1 .. Len(Mems)
      BY <3>1, <3>3, <3>4, MinIsLeast
    <3>6. m \in [da : Nat, pa : Nat, size : Nat]
      BY <2>6, <3>1, <3>2, <3>5, ElementOfSeq
    <3> QED
      BY <3>6
  <2>9. SegmentAt(s) = m.pa + (s.da - m.da)
    <3>1. SegmentAt(s) = m.pa + s.da - m.da
      BY <2>6 DEF SegmentAt, DaToPa
    <3> QED
      BY <3>1, <2>7, <2>8
  <2>10. ldMem[m.pa + (s.da - m.da) + b] \in {RSC, IF b < s.fsz THEN s.off + b ELSE PAD}
    BY <2>5, <2>9
  <2> QED
    BY <2>1, <2>6, <2>10, Zenon
<1>2. TableFound
  BY DEF LoadInv, TableInv, TableFound, Findable
<1> QED
  BY <1>1, <1>2 DEF LoadInv, LoadExact

\* Whatever the image, the store and the allocations do, for any images whose
\* loaded segments do not overlap and any regions of memory: when remoteproc_load
\* succeeds each loadable segment is in place and the resource table of an image
\* was found, and when it fails nothing of it stays allocated or open.
THEOREM LoadIsExact == ElfSpec => []LoadExact
<1>1. ElfInit => LoadInv
  BY LoadInvInit
<1>2. LoadInv /\ [ElfNext]_elfVars => LoadInv'
  BY LoadInductive
<1>3. LoadInv => LoadExact
  BY LoadInvExact
<1> QED
  BY <1>1, <1>2, <1>3, PTL DEF ElfSpec
=============================================================================
