---------------------------- MODULE ArchiveProofs ----------------------------
(***************************************************************************)
(* ManifestMatchesObject, ObjectsAreFinal, CrashesLoseNothing and          *)
(* ArchiveTypeOK for any number of workers, messages, failures,            *)
(* redeliveries and crashes, with and without an outbox, whether or not a  *)
(* restarted process keeps its WriterID.                                   *)
(*                                                                         *)
(* The invariant: a key and an incarnation stand for one body, the open    *)
(* segment's key is new to the present incarnation, what waits in the      *)
(* outbox is not older than the object under its key, and an object is     *)
(* stored before its row.                                                  *)
(***************************************************************************)
EXTENDS Archive, FiniteSetTheorems, TLAPS

UploadType == {NoUpload} \cup [step : {"put", "manifest", "remove"}, entry : Entries]

ArchiveTypes ==
    /\ mode \in ModeType
    /\ pending \in [Workers -> Seq(Messages)]
    /\ part \in [Workers -> Nat] /\ restarts \in [Workers -> Nat]
    /\ flush \in [Workers -> {"no", "store", "manifest"}]
    /\ upload \in [Workers -> UploadType]
    /\ objects \subseteq Entries /\ manifests \subseteq Entries /\ outbox \subseteq Entries

Written(e) == e \in objects \/ e \in outbox

\* An entry of the worker's present incarnation, or an earlier one, under a key of it.
Past(e) ==
    \/ e.run < restarts[e.key.worker]
    \/ e.run = restarts[e.key.worker] /\ e.key.part <= part[e.key.worker]
Named(e) == e.key.writer = IF mode.fixedID THEN 0 ELSE e.run

\* The open segment's key is new to the incarnation until its object is stored; key and
\* incarnation stand for one body.
KeysAreFresh ==
    /\ \A e \in Entries : Written(e) => Past(e) /\ Named(e)
    /\ \A w \in Workers : flush[w] # "no" => pending[w] # <<>>
    /\ \A w \in Workers : pending[w] # <<>> /\ flush[w] # "manifest" =>
          \A e \in Entries : Written(e) /\ e.key = Key(w) => e.run < restarts[w]
    /\ \A e, f \in Entries : Written(e) /\ Written(f) /\ e.key = f.key /\ e.run = f.run => e = f

\* An entry is uploaded from the outbox, and is not older than the object under its key.
OutboxInOrder ==
    /\ ~mode.outbox => outbox = {}
    /\ \A w \in Workers : flush[w] = "manifest" => ~mode.outbox
    /\ \A e, f \in outbox : e.key = f.key => e = f
    /\ \A e \in outbox : \A o \in objects : e.key = o.key => o.run <= e.run
    /\ \A w \in Workers : upload[w] # NoUpload => upload[w].entry \in OutboxOf(w)

\* A manifest row is written for an object that is there, and a file removed after both.
ObjectFirst ==
    /\ \A w \in Workers : flush[w] = "manifest" => Segment(w) \in objects
    /\ \A w \in Workers : upload[w] # NoUpload /\ upload[w].step # "put" => upload[w].entry \in objects
    /\ \A w \in Workers : upload[w] # NoUpload /\ upload[w].step = "remove" => upload[w].entry \in manifests
    /\ \A o, p \in objects : o.key = p.key => o = p
    /\ ManifestMatchesObject

AInv == ArchiveTypes /\ KeysAreFresh /\ OutboxInOrder /\ ObjectFirst

\* The archive starts empty.
LEMMA AInvInit == ArchiveInit => AInv
<1> SUFFICES ASSUME ArchiveInit PROVE AInv
  BY Zenon
<1>1. ArchiveTypes
  BY ArchiveAssumption DEF ArchiveInit, ArchiveTypes, UploadType
<1>2. \A e : ~Written(e)
  BY Zenon DEF ArchiveInit, Written
<1>3. KeysAreFresh
  BY Zenon, <1>2 DEF ArchiveInit, KeysAreFresh
<1>4. OutboxInOrder /\ ObjectFirst
  BY Zenon DEF ArchiveInit, OutboxInOrder, ObjectFirst, ManifestMatchesObject
<1> QED
  BY Zenon, <1>1, <1>3, <1>4 DEF AInv

\* The entry a worker would write, and its key.
LEMMA SegmentIs ==
    ASSUME ArchiveTypes, NEW w \in Workers
    PROVE  /\ Segment(w) \in Entries /\ Segment(w).key = Key(w) /\ Segment(w).key.worker = w
           /\ Segment(w).run = restarts[w] /\ Segment(w).body = pending[w]
           /\ Named(Segment(w)) /\ Past(Segment(w))
           /\ Segment(w).key.part = part[w]
<1>1. restarts[w] \in Nat /\ part[w] \in Nat /\ pending[w] \in Seq(Messages) /\ WriterID(w) \in Nat
  BY ZenonT(60) DEF ArchiveTypes, WriterID
<1>2. Segment(w) \in Entries
  BY Zenon, <1>1 DEF Segment, Key, Keys, Entries
<1>3. /\ Segment(w).key = Key(w) /\ Segment(w).key.worker = w /\ Segment(w).run = restarts[w]
      /\ Segment(w).body = pending[w] /\ Segment(w).key.part = part[w] /\ Segment(w).key.writer = WriterID(w)
  BY Zenon DEF Segment, Key
<1>4. Named(Segment(w))
  BY Zenon, <1>3 DEF Named, WriterID
<1>5. Past(Segment(w))
  BY SMTT(30), <1>1, <1>3 DEF Past
<1> QED
  BY Zenon, <1>2, <1>3, <1>4, <1>5

\* An entry's parts.
LEMMA EntryType ==
    ASSUME NEW e \in Entries
    PROVE  e.key.worker \in Workers /\ e.key.part \in Nat /\ e.run \in Nat /\ e.key \in Keys
           /\ e.body \in Seq(Messages)
BY Zenon DEF Entries, Keys

\* What Put leaves and adds.
LEMMA PutIs == \A S, e, f : f \in Put(S, e) <=> (f \in S /\ f.key # e.key) \/ f = e
BY Zenon DEF Put

\* Of the entries of one name, two of different incarnations have a fixed WriterID.
LEMMA NamesTell ==
    ASSUME NEW e, NEW f, Named(e), Named(f), e.key = f.key, e.run # f.run
    PROVE  mode.fixedID
BY Zenon DEF Named

\* Steps that write no entry and hand out no key.
LEMMA AFrame ==
    ASSUME AInv, UNCHANGED <<mode, pending, part, restarts, flush, upload, objects, manifests, outbox>>
    PROVE  AInv'
<1>1. ArchiveTypes'
  BY Zenon DEF AInv, ArchiveTypes
<1>2. KeysAreFresh'
  BY ZenonT(60) DEF AInv, KeysAreFresh, Written, Past, Named, Key, WriterID
<1>3. OutboxInOrder' /\ ObjectFirst'
  BY ZenonT(60) DEF AInv, OutboxInOrder, ObjectFirst, OutboxOf, Segment, Key, WriterID, ManifestMatchesObject, Succeeds
<1> QED
  BY Zenon, <1>1, <1>2, <1>3 DEF AInv

\* Steps that leave store, manifest and outbox alone, and hand out no key.
Quiet == UNCHANGED <<mode, part, restarts, objects, manifests, outbox>>

LEMMA QuietIs ==
    ASSUME Quiet
    PROVE  /\ \A w : Key(w)' = Key(w) /\ WriterID(w)' = WriterID(w) /\ OutboxOf(w)' = OutboxOf(w)
           /\ \A e : Written(e)' = Written(e) /\ Past(e)' = Past(e) /\ Named(e)' = Named(e)
           /\ ManifestMatchesObject' = ManifestMatchesObject
<1>1. \A w : Key(w)' = Key(w) /\ WriterID(w)' = WriterID(w) /\ OutboxOf(w)' = OutboxOf(w)
  BY Zenon DEF Quiet, Key, WriterID, OutboxOf
<1>2. \A e : Written(e)' = Written(e) /\ Past(e)' = Past(e) /\ Named(e)' = Named(e)
  BY Zenon DEF Quiet, Written, Past, Named
<1>3. ManifestMatchesObject' = ManifestMatchesObject
  BY Zenon DEF Quiet, ManifestMatchesObject, Succeeds
<1> QED
  BY Zenon, <1>1, <1>2, <1>3

\* A worker's segment ends, by a crash, a failure or a flush, with nothing written.
LEMMA SegmentEnds ==
    ASSUME AInv, NEW w \in Workers, Quiet, UNCHANGED upload, FlushEnds(w)
    PROVE  AInv'
<1>1. ArchiveTypes'
  BY DEF AInv, ArchiveTypes, FlushEnds, Quiet
<1>2. \A v \in Workers : /\ v # w => pending'[v] = pending[v] /\ flush'[v] = flush[v]
                         /\ v = w => pending'[v] = <<>> /\ flush'[v] = "no"
  BY Zenon DEF AInv, ArchiveTypes, FlushEnds
<1>3. \A v \in Workers : v # w => Segment(v)' = Segment(v)
  BY Zenon, <1>2, QuietIs DEF Segment, Quiet
<1>4. KeysAreFresh'
  BY ZenonT(60), <1>2, QuietIs DEF AInv, KeysAreFresh, Quiet
<1>5. OutboxInOrder'
  BY ZenonT(60), <1>2, QuietIs DEF AInv, OutboxInOrder, Quiet
<1>6. ObjectFirst'
  BY ZenonT(60), <1>2, <1>3, QuietIs DEF AInv, ObjectFirst, Quiet
<1> QED
  BY Zenon, <1>1, <1>4, <1>5, <1>6 DEF AInv

\* A segment that is written under its key: its key and incarnation stay one of a kind,
\* and the worker either goes on to the manifest row or ends the segment.
LEMMA SegmentWritten ==
    ASSUME AInv, NEW w \in Workers, flush[w] = "store", UNCHANGED <<mode, part, restarts>>,
           \A e \in Entries : Written(e)' => Written(e) \/ e = Segment(w),
           \A v \in Workers : v # w => pending'[v] = pending[v] /\ flush'[v] = flush[v],
           \/ pending'[w] = <<>> /\ flush'[w] = "no"
           \/ pending'[w] = pending[w] /\ flush'[w] = "manifest"
    PROVE  KeysAreFresh'
<1> DEFINE new == Segment(w)
<1>1. /\ new \in Entries /\ new.key = Key(w) /\ new.key.worker = w /\ new.run = restarts[w]
      /\ Named(new) /\ Past(new)
  BY Zenon, SegmentIs DEF AInv
<1>2. /\ \A v \in Workers : Key(v)' = Key(v) /\ Key(v).worker = v
      /\ \A e : Past(e)' = Past(e) /\ Named(e)' = Named(e)
  BY Zenon DEF Past, Named, Key, WriterID
<1>3. restarts[w] \in Nat /\ pending[w] # <<>>
      /\ \A e \in Entries : Written(e) /\ e.key = Key(w) => e.run < restarts[w]
  BY Zenon DEF AInv, ArchiveTypes, KeysAreFresh
<1>4. ~(restarts[w] < restarts[w])
  BY SMTT(30), <1>3
<1> HIDE DEF new
<1>5. \A e \in Entries : Written(e)' => Written(e) \/ e = new
  BY Zenon DEF new
<1>6. \A e \in Entries : Written(e)' => Past(e)' /\ Named(e)'
  BY Zenon, <1>1, <1>2, <1>5 DEF AInv, KeysAreFresh
<1>7. \A v \in Workers : flush'[v] # "no" => pending'[v] # <<>>
  BY Zenon, <1>3 DEF AInv, KeysAreFresh
<1>8. \A v \in Workers : pending'[v] # <<>> /\ flush'[v] # "manifest" =>
         \A e \in Entries : Written(e)' /\ e.key = Key(v)' => e.run < restarts'[v]
  <2> SUFFICES ASSUME NEW v \in Workers, pending'[v] # <<>>, flush'[v] # "manifest",
                      NEW e \in Entries, Written(e)', e.key = Key(v)
               PROVE e.run < restarts[v]
    BY Zenon, <1>2
  <2>1. v # w /\ pending[v] # <<>> /\ flush[v] # "manifest"
    BY Zenon
  <2>2. CASE Written(e)
    BY Zenon, <2>1, <2>2 DEF AInv, KeysAreFresh
  <2>3. e # new
    BY Zenon, <1>1, <1>2, <2>1
  <2> QED
    BY Zenon, <1>5, <2>2, <2>3
<1>9. \A e, f \in Entries : Written(e)' /\ Written(f)' /\ e.key = f.key /\ e.run = f.run => e = f
  <2>1. \A e \in Entries : ~(Written(e) /\ e.key = new.key /\ e.run = new.run)
    BY Zenon, <1>1, <1>3, <1>4
  <2>2. \A e, f \in Entries : Written(e) /\ Written(f) /\ e.key = f.key /\ e.run = f.run => e = f
    BY Zenon DEF AInv, KeysAreFresh
  <2> SUFFICES ASSUME NEW e \in Entries, NEW f \in Entries, Written(e)', Written(f)', e.key = f.key, e.run = f.run
               PROVE  e = f
    BY Zenon
  <2>3. (Written(e) \/ e = new) /\ (Written(f) \/ f = new)
    BY Zenon, <1>5
  <2> QED
    BY Zenon, <2>1, <2>2, <2>3
<1> QED
  BY ZenonT(60), <1>6, <1>7, <1>8, <1>9 DEF KeysAreFresh

\* Every object that is there stays or is succeeded.
Final == \A o \in objects : \E p \in objects' : Succeeds(p, o)

\* Enqueue keeps the invariant.
LEMMA EnqueueStep == ASSUME AInv, NEW w \in Workers, Enqueue(w) PROVE AInv'
<1>1. /\ FlushEnds(w) /\ flush[w] = "store" /\ mode.outbox
      /\ UNCHANGED <<mode, part, restarts, upload, objects, manifests>>
  BY ZenonT(60) DEF Enqueue, FlushSucceeds, FlushFails
<1>2. CASE UNCHANGED outbox
  BY Zenon, <1>1, <1>2, SegmentEnds DEF Quiet
<1>3. CASE OutboxAccepts(w) /\ outbox' = Put(outbox, Segment(w))
  <2> DEFINE new == Segment(w)
  <2>0. new \in Entries /\ new.key = Key(w) /\ new.run = restarts[w]
    BY Zenon, SegmentIs DEF AInv
  <2>1. \A e : e \in outbox' <=> e \in outbox \/ e = new
    <3>1. \A e \in outbox : e.key # Key(w)
      BY Zenon, <1>3 DEF OutboxAccepts, Has
    <3> QED
      BY Zenon, <1>3, <2>0, <3>1, PutIs
  <2>2. /\ \A v \in Workers : v # w => pending'[v] = pending[v] /\ flush'[v] = flush[v]
        /\ pending'[w] = <<>> /\ flush'[w] = "no"
    BY Zenon, <1>1 DEF FlushEnds, AInv, ArchiveTypes
  <2>3. KeysAreFresh'
    <3>1. \A e \in Entries : Written(e)' => Written(e) \/ e = Segment(w)
      BY Zenon, <1>1, <2>1 DEF Written
    <3> QED
      BY Zenon, <1>1, <2>2, <3>1, SegmentWritten
  <2> HIDE DEF new
  <2>4. ArchiveTypes'
    <3>1. outbox' \subseteq Entries
      BY Zenon, <2>0, <2>1 DEF AInv, ArchiveTypes
    <3> QED
      BY <1>1, <3>1 DEF AInv, ArchiveTypes, FlushEnds
  <2>5. OutboxInOrder'
    <3>1. \A e, f \in outbox' : e.key = f.key => e = f
      <4>1. \A e \in outbox : e.key # new.key
        BY Zenon, <1>3, <2>0 DEF OutboxAccepts, Has
      <4>2. \A e, f \in outbox : e.key = f.key => e = f
        BY Zenon DEF AInv, OutboxInOrder
      <4> SUFFICES ASSUME NEW e \in outbox', NEW f \in outbox', e.key = f.key PROVE e = f
        BY Zenon
      <4>3. (e \in outbox \/ e = new) /\ (f \in outbox \/ f = new)
        BY Zenon, <2>1
      <4> QED
        BY Zenon, <4>1, <4>2, <4>3
    <3>2. \A o \in objects : o.key = new.key => o.run < new.run /\ o.run \in Nat /\ new.run \in Nat
      <4>1. pending[w] # <<>> /\ flush[w] # "manifest"
        BY Zenon, <1>1 DEF AInv, KeysAreFresh
      <4>2. \A o \in objects : o \in Entries /\ Written(o)
        BY Zenon DEF AInv, ArchiveTypes, Written
      <4> QED
        BY ZenonT(60), <2>0, <4>1, <4>2, EntryType DEF AInv, KeysAreFresh
    <3>3. \A o \in objects : o.key = new.key => o.run <= new.run
      BY SMTT(30), <3>2
    <3>4. \A e \in outbox' : \A o \in objects' : e.key = o.key => o.run <= e.run
      BY ZenonT(60), <1>1, <2>1, <3>3 DEF AInv, OutboxInOrder
    <3>5. \A v \in Workers : OutboxOf(v) \subseteq OutboxOf(v)'
      BY Zenon, <2>1 DEF OutboxOf
    <3> QED
      BY ZenonT(60), <1>1, <2>2, <3>1, <3>4, <3>5 DEF AInv, OutboxInOrder
  <2>6. ObjectFirst'
    <3>1. \A v \in Workers : v # w => Segment(v)' = Segment(v)
      BY Zenon, <1>1, <2>2 DEF Segment, Key, WriterID
    <3>2. ManifestMatchesObject'
      BY Zenon, <1>1 DEF AInv, ObjectFirst, ManifestMatchesObject, Succeeds
    <3> QED
      BY ZenonT(60), <1>1, <2>2, <3>1, <3>2 DEF AInv, ObjectFirst
  <2> QED
    BY Zenon, <2>3, <2>4, <2>5, <2>6 DEF AInv
<1> QED
  BY ZenonT(60), <1>2, <1>3 DEF Enqueue

\* What PutObject does to the store: the object takes the place of older ones only.
LEMMA PutSucceeds ==
    ASSUME AInv, NEW e \in Entries, UNCHANGED mode, objects' = Put(objects, e),
           \A o \in objects : o.key = e.key => o = e \/ (mode.fixedID /\ o.run < e.run)
    PROVE  /\ Final /\ objects' \subseteq Entries
           /\ e \in objects' /\ \A o \in objects : o.key # e.key => o \in objects'
           /\ \A o \in objects' : o \in objects \/ o = e
           /\ \A o, p \in objects' : o.key = p.key => o = p
           /\ \A r \in manifests : \E p \in objects' : Succeeds(p, r)
<1>1. \A o : o \in objects' <=> (o \in objects /\ o.key # e.key) \/ o = e
  BY Zenon, PutIs
<1>2. /\ objects \subseteq Entries /\ manifests \subseteq Entries
      /\ \A o, p \in objects : o.key = p.key => o = p
      /\ \A r \in manifests : \E o \in objects : Succeeds(o, r)
  BY Zenon DEF AInv, ArchiveTypes, ObjectFirst, ManifestMatchesObject
<1>3. ASSUME NEW o \in objects PROVE \E p \in objects' : Succeeds(p, o) /\ p.key = o.key /\ p.run >= o.run
  <2>1. o.run \in Nat /\ e.run \in Nat
    BY Zenon, <1>2, EntryType
  <2>2. CASE o.key # e.key \/ o = e
    <3>1. o \in objects' /\ Succeeds(o, o)
      BY Zenon, <1>1, <2>2 DEF Succeeds
    <3>2. o.run >= o.run
      BY SMTT(30), <2>1
    <3> QED
      BY Zenon, <3>1, <3>2
  <2>3. CASE o.key = e.key /\ o # e
    <3>1. mode.fixedID /\ o.run < e.run
      BY Zenon, <2>3
    <3>2. e.run > o.run /\ e.run >= o.run
      BY SMTT(30), <2>1, <3>1
    <3> QED
      BY Zenon, <1>1, <2>3, <3>1, <3>2 DEF Succeeds
  <2> QED
    BY Zenon, <2>2, <2>3
<1>4. ASSUME NEW r \in manifests PROVE \E p \in objects' : Succeeds(p, r)
  <2>1. PICK o \in objects : Succeeds(o, r)
    BY Zenon, <1>2
  <2>2. PICK p \in objects' : Succeeds(p, o) /\ p.key = o.key /\ p.run >= o.run
    BY Zenon, <1>3
  <2>3. CASE o = r
    BY Zenon, <2>2, <2>3
  <2>4. CASE mode.fixedID /\ o.key = r.key /\ o.run > r.run
    <3>1. p \in Entries
      BY Zenon, <1>1, <1>2
    <3>2. p.run \in Nat /\ o.run \in Nat /\ r.run \in Nat
      BY Zenon, <1>2, <3>1, EntryType
    <3>3. p.run > r.run
      BY SMTT(30), <2>2, <2>4, <3>2
    <3> QED
      BY Zenon, <2>2, <2>4, <3>3 DEF Succeeds
  <2> QED
    BY Zenon, <2>1, <2>3, <2>4 DEF Succeeds
<1>5. \A o, p \in objects' : o.key = p.key => o = p
  BY Zenon, <1>1, <1>2
<1>6. /\ objects' \subseteq Entries /\ e \in objects'
      /\ \A o \in objects : o.key # e.key => o \in objects'
      /\ \A o \in objects' : o \in objects \/ o = e
  BY Zenon, <1>1, <1>2
<1>7. Final
  BY Zenon, <1>3 DEF Final
<1> QED
  BY Zenon, <1>4, <1>5, <1>6, <1>7

\* Nothing happens to the objects.
LEMMA FinalFrame == ASSUME UNCHANGED objects PROVE Final
BY Zenon DEF Final, Succeeds

\* PutObject keeps the invariant; every object stays or is succeeded.
LEMMA PutObjectStep == ASSUME AInv, NEW w \in Workers, PutObject(w) PROVE AInv' /\ Final
<1>1. flush[w] = "store" /\ ~mode.outbox /\ UNCHANGED <<mode, part, restarts, upload, manifests, outbox>>
  BY ZenonT(60) DEF PutObject
<1>2. CASE UNCHANGED objects /\ FlushEnds(w)
  BY Zenon, <1>1, <1>2, SegmentEnds, FinalFrame DEF Quiet
<1>3. CASE /\ objects' = Put(objects, Segment(w))
           /\ \/ FlushEnds(w)
              \/ flush' = [flush EXCEPT ![w] = "manifest"] /\ UNCHANGED pending
  <2> DEFINE new == Segment(w)
  <2>0. /\ new \in Entries /\ new.key = Key(w) /\ new.run = restarts[w] /\ Named(new)
        /\ \A v \in Workers : Segment(v).key.worker = v
    BY Zenon, SegmentIs DEF AInv
  <2>1. \A o \in objects : o.key = new.key => o = new \/ (mode.fixedID /\ o.run < new.run)
    <3> SUFFICES ASSUME NEW o \in objects, o.key = new.key PROVE mode.fixedID /\ o.run < new.run
      BY Zenon
    <3>1. pending[w] # <<>> /\ flush[w] # "manifest" /\ o \in Entries /\ Written(o)
      BY Zenon, <1>1 DEF AInv, ArchiveTypes, KeysAreFresh, Written
    <3>2. o.run < restarts[w] /\ Named(o)
      BY Zenon, <2>0, <3>1 DEF AInv, KeysAreFresh
    <3>3. o.run # restarts[w]
      <4>1. o.run \in Nat
        BY Zenon, <3>1, EntryType
      <4> QED
        BY SMTT(30), <3>2, <4>1
    <3> QED
      BY Zenon, <2>0, <3>2, <3>3, NamesTell
  <2>2. /\ Final /\ objects' \subseteq Entries
        /\ new \in objects' /\ \A o \in objects : o.key # new.key => o \in objects'
        /\ \A o \in objects' : o \in objects \/ o = new
        /\ \A o, p \in objects' : o.key = p.key => o = p
        /\ \A r \in manifests : \E p \in objects' : Succeeds(p, r)
    BY ZenonT(60), <1>1, <1>3, <2>0, <2>1, PutSucceeds
  <2>3. /\ \A v \in Workers : v # w => pending'[v] = pending[v] /\ flush'[v] = flush[v]
        /\ \/ pending'[w] = <<>> /\ flush'[w] = "no"
           \/ pending'[w] = pending[w] /\ flush'[w] = "manifest"
    BY Zenon, <1>3 DEF FlushEnds, AInv, ArchiveTypes
  <2>4. KeysAreFresh'
    <3>1. \A e \in Entries : Written(e)' => Written(e) \/ e = Segment(w)
      BY Zenon, <1>1, <2>2 DEF Written
    <3> QED
      BY ZenonT(60), <1>1, <2>3, <3>1, SegmentWritten
  <2> HIDE DEF new
  <2>5. ArchiveTypes'
    <3>1. pending' \in [Workers -> Seq(Messages)]
          /\ flush' \in [Workers -> {"no", "store", "manifest"}]
      <4>1. CASE FlushEnds(w)
        BY <4>1 DEF AInv, ArchiveTypes, FlushEnds
      <4>2. CASE flush' = [flush EXCEPT ![w] = "manifest"] /\ UNCHANGED pending
        BY Zenon, <4>2 DEF AInv, ArchiveTypes
      <4> QED
        BY Zenon, <1>3, <4>1, <4>2
    <3> QED
      BY Zenon, <1>1, <2>2, <3>1 DEF AInv, ArchiveTypes
  <2>6. outbox = {} /\ \A v \in Workers : upload[v] = NoUpload
    BY Zenon, <1>1 DEF AInv, OutboxInOrder, OutboxOf
  <2>7. OutboxInOrder'
    BY ZenonT(60), <1>1, <2>6 DEF OutboxInOrder
  <2>8. ObjectFirst'
    <3>1. \A v \in Workers : v # w => Segment(v)' = Segment(v)
      BY Zenon, <1>1, <2>3 DEF Segment, Key, WriterID
    <3>2. pending'[w] = pending[w] => Segment(w)' = Segment(w)
      BY Zenon, <1>1 DEF Segment, Key, WriterID
    <3>3. \A v \in Workers : flush'[v] = "manifest" => Segment(v)' \in objects'
      <4>1. ASSUME flush'[w] = "manifest" PROVE Segment(w)' \in objects'
        <5>1. pending'[w] = pending[w]
          BY Zenon, <2>3, <4>1
        <5> QED
          BY Zenon, <2>2, <3>2, <5>1 DEF new
      <4>2. ASSUME NEW v \in Workers, v # w, flush'[v] = "manifest" PROVE Segment(v)' \in objects'
        <5>1. Segment(v) \in objects
          BY Zenon, <2>3, <4>2 DEF AInv, ObjectFirst
        <5>2. Segment(v).key # new.key
          BY Zenon, <2>0, <4>2 DEF new
        <5> QED
          BY Zenon, <2>2, <3>1, <4>2, <5>1, <5>2
      <4> QED
        BY Zenon, <4>1, <4>2
    <3>4. ManifestMatchesObject'
      <4>1. manifests' = manifests /\ \A p, r : Succeeds(p, r)' = Succeeds(p, r)
        BY Zenon, <1>1 DEF Succeeds
      <4> QED
        BY Zenon, <2>2, <4>1 DEF ManifestMatchesObject
    <3> QED
      BY ZenonT(60), <1>1, <2>2, <2>6, <3>3, <3>4 DEF ObjectFirst
  <2> QED
    BY Zenon, <2>2, <2>4, <2>5, <2>7, <2>8 DEF AInv
<1> QED
  BY ZenonT(60), <1>2, <1>3 DEF PutObject, FlushFails, PutInStore

\* A row for an object that is there: every row still has its object.
LEMMA RowWritten ==
    ASSUME AInv, NEW e \in objects, UNCHANGED <<mode, objects>>, manifests' = Put(manifests, e)
    PROVE  /\ manifests' \subseteq Entries /\ ManifestMatchesObject' /\ e \in manifests'
           /\ \A r \in manifests : r.key # e.key => r \in manifests'
           /\ \A o \in objects : o \in manifests => o \in manifests'
<1>1. \A r : r \in manifests' <=> (r \in manifests /\ r.key # e.key) \/ r = e
  BY Zenon, PutIs
<1>2. /\ objects \subseteq Entries /\ manifests \subseteq Entries
      /\ \A o, p \in objects : o.key = p.key => o = p
      /\ \A r \in manifests : \E o \in objects : Succeeds(o, r)
  BY Zenon DEF AInv, ArchiveTypes, ObjectFirst, ManifestMatchesObject
<1>3. \A r \in manifests' : \E o \in objects : Succeeds(o, r)
  <2>1. Succeeds(e, e)
    BY Zenon DEF Succeeds
  <2> QED
    BY Zenon, <1>1, <1>2, <2>1
<1>4. ManifestMatchesObject'
  BY Zenon, <1>3 DEF ManifestMatchesObject, Succeeds
<1> QED
  BY ZenonT(60), <1>1, <1>2, <1>4

\* UpsertManifest keeps the invariant: the row is that of the object just stored.
LEMMA UpsertManifestStep == ASSUME AInv, NEW w \in Workers, UpsertManifest(w) PROVE AInv' /\ Final
<1>1. /\ flush[w] = "manifest" /\ FlushEnds(w)
      /\ UNCHANGED <<mode, part, restarts, upload, objects, outbox>>
      /\ manifests' = Put(manifests, Segment(w)) \/ UNCHANGED manifests
  BY ZenonT(60) DEF UpsertManifest, FlushSucceeds, FlushFails
<1>2. CASE UNCHANGED manifests
  BY Zenon, <1>1, <1>2, SegmentEnds, FinalFrame DEF Quiet
<1>3. CASE manifests' = Put(manifests, Segment(w))
  <2>1. Segment(w) \in objects /\ ~mode.outbox
    BY Zenon, <1>1 DEF AInv, ObjectFirst, OutboxInOrder
  <2>2. manifests' \subseteq Entries /\ ManifestMatchesObject'
    BY Zenon, <1>1, <1>3, <2>1, RowWritten
  <2>3. /\ \A v \in Workers : v # w => pending'[v] = pending[v] /\ flush'[v] = flush[v]
        /\ pending'[w] = <<>> /\ flush'[w] = "no"
    BY Zenon, <1>1 DEF FlushEnds, AInv, ArchiveTypes
  <2>4. \A v \in Workers : upload[v] = NoUpload
    BY Zenon, <2>1 DEF AInv, OutboxInOrder, OutboxOf
  <2>5. /\ \A v \in Workers : Key(v)' = Key(v) /\ (v # w => Segment(v)' = Segment(v))
        /\ \A e : Written(e)' = Written(e) /\ Past(e)' = Past(e) /\ Named(e)' = Named(e)
    BY Zenon, <1>1, <2>3 DEF Key, WriterID, Segment, Written, Past, Named
  <2>6. ArchiveTypes'
    BY SMTT(30), <1>1, <2>2 DEF AInv, ArchiveTypes, FlushEnds
  <2>7. KeysAreFresh'
    BY ZenonT(60), <1>1, <2>3, <2>5 DEF AInv, KeysAreFresh
  <2>8. OutboxInOrder'
    BY ZenonT(60), <1>1, <2>3, <2>4 DEF AInv, OutboxInOrder
  <2>9. ObjectFirst'
    BY ZenonT(60), <1>1, <2>2, <2>3, <2>4, <2>5 DEF AInv, ObjectFirst
  <2> QED
    BY Zenon, <1>1, <2>6, <2>7, <2>8, <2>9, FinalFrame DEF AInv
<1> QED
  BY Zenon, <1>1, <1>2, <1>3

\* A new segment gets a key its process has not handed out before.
LEMMA ReceiveStep == ASSUME AInv, NEW w \in Workers, NEW m \in Messages, Receive(w, m) PROVE AInv'
<1>1. /\ flush[w] = "no" /\ UNCHANGED <<mode, restarts, upload, objects, manifests, outbox>>
      /\ part' = [part EXCEPT ![w] = NextPart(w)]
      /\ pending' = [pending EXCEPT ![w] = Append(@, m)] \/ pending' = [pending EXCEPT ![w] = <<>>]
      /\ \/ UNCHANGED flush
         \/ flush' = [flush EXCEPT ![w] = "store"] /\ pending' = [pending EXCEPT ![w] = Append(@, m)]
  <2>1. CASE pending' = [pending EXCEPT ![w] = <<>>] /\ UNCHANGED flush
    BY Zenon, <2>1 DEF Receive
  <2>2. CASE /\ pending' = [pending EXCEPT ![w] = Append(@, m)]
             /\ flush' = [flush EXCEPT ![w] = IF Len(pending[w]) + 1 >= MaxRecords THEN "store" ELSE "no"]
    <3>1. flush' = flush \/ flush' = [flush EXCEPT ![w] = "store"]
      BY Zenon, <2>2 DEF Receive, AInv, ArchiveTypes
    <3> QED
      BY Zenon, <2>2, <3>1 DEF Receive
  <2> QED
    BY Zenon, <2>1, <2>2 DEF Receive
<1>2. NextPart(w) \in Nat /\ NextPart(w) >= part[w] /\ Append(pending[w], m) \in Seq(Messages)
      /\ Append(pending[w], m) # <<>>
  <2>1. part[w] \in Nat /\ pending[w] \in Seq(Messages)
    BY Zenon DEF AInv, ArchiveTypes
  <2>2. NextPart(w) \in Nat /\ NextPart(w) >= part[w]
    BY <2>1 DEF NextPart
  <2>3. Append(pending[w], m) \in Seq(Messages) /\ Append(pending[w], m) # <<>>
    BY <2>1
  <2> QED
    BY Zenon, <2>2, <2>3
<1>3. ArchiveTypes'
  <2>1. pending' \in [Workers -> Seq(Messages)]
    <3>1. CASE pending' = [pending EXCEPT ![w] = Append(@, m)]
      BY Zenon, <1>2, <3>1 DEF AInv, ArchiveTypes
    <3>2. CASE pending' = [pending EXCEPT ![w] = <<>>]
      BY <3>2 DEF AInv, ArchiveTypes
    <3> QED
      BY Zenon, <1>1, <3>1, <3>2
  <2>2. flush' \in [Workers -> {"no", "store", "manifest"}]
    BY Zenon, <1>1 DEF AInv, ArchiveTypes
  <2>3. part' \in [Workers -> Nat]
    BY Zenon, <1>1, <1>2 DEF AInv, ArchiveTypes
  <2> QED
    BY Zenon, <1>1, <2>1, <2>2, <2>3 DEF AInv, ArchiveTypes
<1>4. /\ part'[w] = NextPart(w)
      /\ \A v \in Workers : v # w => /\ pending'[v] = pending[v] /\ flush'[v] = flush[v]
                                     /\ part'[v] = part[v] /\ Key(v)' = Key(v) /\ Segment(v)' = Segment(v)
  BY Zenon, <1>1 DEF AInv, ArchiveTypes, Key, WriterID, Segment
<1>5. flush'[w] \in {"no", "store"} /\ (flush'[w] = "store" => pending'[w] # <<>>)
  BY Zenon, <1>1, <1>2 DEF AInv, ArchiveTypes
<1>6. /\ \A e : Written(e)' = Written(e) /\ Named(e)' = Named(e)
      /\ \A v : OutboxOf(v)' = OutboxOf(v)
      /\ ManifestMatchesObject'
  BY Zenon, <1>1 DEF Written, Named, OutboxOf, AInv, ObjectFirst, ManifestMatchesObject, Succeeds
<1>7. ASSUME NEW e \in Entries, Written(e) PROVE Past(e)'
  <2>1. Past(e) /\ e.key.worker \in Workers /\ e.key.part \in Nat
    BY Zenon, <1>7, EntryType DEF AInv, KeysAreFresh
  <2>2. part'[e.key.worker] \in Nat /\ part[e.key.worker] \in Nat
    BY Zenon, <1>3, <2>1 DEF AInv, ArchiveTypes
  <2>3. part'[e.key.worker] >= part[e.key.worker]
    BY <1>2, <1>4, <2>1, <2>2
  <2> QED
    BY SMTT(30), <1>1, <2>1, <2>2, <2>3 DEF Past
<1>8. ASSUME NEW e \in Entries, Written(e), e.key = Key(w)' PROVE e.run < restarts[w]
  <2>1. CASE pending[w] = <<>>
    <3>1. e.key.worker = w /\ e.key.part = part[w] + 1
      <4>1. part'[w] = part[w] + 1
        BY Zenon, <1>4, <2>1 DEF NextPart
      <4>2. Key(w)'.worker = w /\ Key(w)'.part = part'[w]
        BY DEF Key
      <4> QED
        BY Zenon, <1>8, <4>1, <4>2
    <3>2. Past(e) /\ part[w] \in Nat
      BY Zenon, <1>8 DEF AInv, ArchiveTypes, KeysAreFresh
    <3> QED
      BY SMTT(30), <3>1, <3>2 DEF Past
  <2>2. CASE pending[w] # <<>>
    <3>1. Key(w)' = Key(w)
      BY ZenonT(60), <1>1, <1>4, <2>2 DEF Key, NextPart, WriterID
    <3> QED
      BY Zenon, <1>1, <1>8, <2>2, <3>1 DEF AInv, KeysAreFresh
  <2> QED
    BY Zenon, <2>1, <2>2
<1>9. KeysAreFresh'
  <2>1. \A v \in Workers : flush'[v] # "no" => pending'[v] # <<>>
    BY SMTT(30), <1>4, <1>5 DEF AInv, KeysAreFresh
  <2>2. \A v \in Workers : pending'[v] # <<>> /\ flush'[v] # "manifest" =>
           \A e \in Entries : Written(e)' /\ e.key = Key(v)' => e.run < restarts'[v]
    BY ZenonT(60), <1>1, <1>4, <1>6, <1>8 DEF AInv, KeysAreFresh
  <2>3. \A e, f \in Entries : Written(e)' /\ Written(f)' /\ e.key = f.key /\ e.run = f.run => e = f
    BY ZenonT(60), <1>6 DEF AInv, KeysAreFresh
  <2>4. \A e \in Entries : Written(e)' => Past(e)' /\ Named(e)'
    BY ZenonT(60), <1>6, <1>7 DEF AInv, KeysAreFresh
  <2> QED
    BY ZenonT(60), <2>1, <2>2, <2>3, <2>4 DEF KeysAreFresh
<1>10. OutboxInOrder'
  BY ZenonT(60), <1>1, <1>4, <1>5, <1>6 DEF AInv, OutboxInOrder
<1>11. ObjectFirst'
  BY ZenonT(60), <1>1, <1>4, <1>5, <1>6 DEF AInv, ObjectFirst
<1> QED
  BY ZenonT(60), <1>3, <1>9, <1>10, <1>11 DEF AInv

\* A segment whose flush is due.
LEMMA FlushDueStep == ASSUME AInv, NEW w \in Workers, FlushDue(w) PROVE AInv'
<1>1. /\ flush[w] = "no" /\ pending[w] # <<>> /\ flush' = [flush EXCEPT ![w] = "store"]
      /\ UNCHANGED <<pending, upload>> /\ Quiet
  BY Zenon DEF FlushDue, Quiet
<1>2. ArchiveTypes'
  BY ZenonT(60), <1>1 DEF AInv, ArchiveTypes, Quiet
<1>3. \A v \in Workers : /\ (v # w => flush'[v] = flush[v]) /\ flush'[w] = "store"
                         /\ Segment(v)' = Segment(v)
  BY Zenon, <1>1, QuietIs DEF AInv, ArchiveTypes, Segment, Quiet
<1>4. KeysAreFresh'
  BY ZenonT(60), <1>1, <1>3, QuietIs DEF AInv, KeysAreFresh, Quiet
<1>5. OutboxInOrder'
  BY ZenonT(60), <1>1, <1>3, QuietIs DEF AInv, OutboxInOrder, Quiet
<1>6. ObjectFirst'
  BY ZenonT(60), <1>1, <1>3, QuietIs DEF AInv, ObjectFirst, Quiet
<1> QED
  BY ZenonT(60), <1>2, <1>4, <1>5, <1>6 DEF AInv

\* After a restart every key handed out before belongs to an earlier incarnation.
LEMMA CrashStep == ASSUME AInv, NEW w \in Workers, Crash(w) PROVE AInv'
<1>1. UNCHANGED <<mode, objects, manifests, outbox>>
  BY Zenon DEF Crash
<1>2. /\ \A v \in Workers : v # w => /\ pending'[v] = pending[v] /\ flush'[v] = flush[v]
                                     /\ upload'[v] = upload[v] /\ part'[v] = part[v]
                                     /\ restarts'[v] = restarts[v]
      /\ pending'[w] = <<>> /\ flush'[w] = "no" /\ upload'[w] = NoUpload
      /\ restarts'[w] = restarts[w] + 1 /\ restarts[w] \in Nat
  BY Zenon DEF Crash, SetUpload, AInv, ArchiveTypes
<1>3. ArchiveTypes'
  <2>1. <<>> \in Seq(Messages) /\ 0 \in Nat /\ restarts[w] + 1 \in Nat
    BY SMTT(30), <1>2
  <2> QED
    BY ZenonT(60), <2>1 DEF AInv, ArchiveTypes, Crash, SetUpload, UploadType
<1>4. \A v \in Workers : v # w => Key(v)' = Key(v) /\ Segment(v)' = Segment(v)
  BY Zenon, <1>1, <1>2 DEF Key, WriterID, Segment
<1>5. /\ \A e : Written(e)' = Written(e) /\ Named(e)' = Named(e)
      /\ \A v : OutboxOf(v)' = OutboxOf(v)
      /\ ManifestMatchesObject'
  BY Zenon, <1>1 DEF Written, Named, OutboxOf, AInv, ObjectFirst, ManifestMatchesObject, Succeeds
<1>6. ASSUME NEW e \in Entries, Written(e) PROVE Past(e)'
  <2>1. Past(e) /\ e.key.worker \in Workers /\ e.run \in Nat
    BY Zenon, <1>6, EntryType DEF AInv, KeysAreFresh
  <2>2. CASE e.key.worker # w
    BY Zenon, <1>2, <2>1, <2>2 DEF Past
  <2>3. CASE e.key.worker = w
    <3>1. e.run < restarts[w] + 1
      BY SMTT(30), <1>2, <2>1, <2>3 DEF Past
    <3> QED
      BY Zenon, <1>2, <2>3, <3>1 DEF Past
  <2> QED
    BY Zenon, <2>2, <2>3
<1>7. KeysAreFresh'
  <2>1. \A v \in Workers : flush'[v] # "no" => pending'[v] # <<>>
    BY Zenon, <1>2 DEF AInv, KeysAreFresh
  <2>2. \A v \in Workers : pending'[v] # <<>> /\ flush'[v] # "manifest" =>
           \A e \in Entries : Written(e)' /\ e.key = Key(v)' => e.run < restarts'[v]
    BY ZenonT(60), <1>2, <1>4, <1>5 DEF AInv, KeysAreFresh
  <2>3. \A e, f \in Entries : Written(e)' /\ Written(f)' /\ e.key = f.key /\ e.run = f.run => e = f
    BY ZenonT(60), <1>5 DEF AInv, KeysAreFresh
  <2>4. \A e \in Entries : Written(e)' => Past(e)' /\ Named(e)'
    BY ZenonT(60), <1>5, <1>6 DEF AInv, KeysAreFresh
  <2> QED
    BY ZenonT(60), <2>1, <2>2, <2>3, <2>4 DEF KeysAreFresh
<1>8. OutboxInOrder'
  BY ZenonT(60), <1>1, <1>2, <1>5 DEF AInv, OutboxInOrder
<1>9. ObjectFirst'
  BY ZenonT(60), <1>1, <1>2, <1>4, <1>5 DEF AInv, ObjectFirst
<1> QED
  BY ZenonT(60), <1>3, <1>7, <1>8, <1>9 DEF AInv

\* The outbox upload reads an entry, or gives up.
LEMMA UploadReadsStep ==
    ASSUME AInv, NEW w \in Workers,
           (\E e \in outbox : UploadReads(w, e)) \/ UploadFails(w)
    PROVE  AInv'
<1>1. PICK u : /\ upload' = [upload EXCEPT ![w] = u]
               /\ \/ u = NoUpload
                  \/ \E e \in OutboxOf(w) : u = [step |-> "put", entry |-> e]
               /\ UNCHANGED <<pending, flush>> /\ Quiet
  BY ZenonT(60) DEF UploadReads, UploadFails, SetUpload, Quiet
<1>2. u \in UploadType
  BY <1>1 DEF AInv, ArchiveTypes, UploadType, OutboxOf
<1>3. ArchiveTypes'
  BY ZenonT(60), <1>1, <1>2 DEF AInv, ArchiveTypes, Quiet
<1>4. \A v \in Workers : Segment(v)' = Segment(v) /\ (v # w => upload'[v] = upload[v]) /\ upload'[w] = u
  BY Zenon, <1>1, QuietIs DEF AInv, ArchiveTypes, Segment, Quiet
<1>5. u # NoUpload => u.step = "put" /\ u.entry \in OutboxOf(w)
  <2>1. \A e : [step |-> "put", entry |-> e].step = "put" /\ [step |-> "put", entry |-> e].entry = e
    OBVIOUS
  <2> QED
    BY Zenon, <1>1, <2>1
<1>6. KeysAreFresh'
  BY ZenonT(60), <1>1, QuietIs DEF AInv, KeysAreFresh, Quiet
<1>7. OutboxInOrder'
  BY ZenonT(60), <1>1, <1>4, <1>5, QuietIs DEF AInv, OutboxInOrder, Quiet
<1>8. ObjectFirst'
  <2>1. "put" # "remove"
    OBVIOUS
  <2>2. objects' = objects /\ manifests' = manifests /\ flush' = flush /\ ManifestMatchesObject'
    BY Zenon, <1>1, QuietIs DEF AInv, ObjectFirst, Quiet
  <2>3. \A v \in Workers : flush'[v] = "manifest" => Segment(v)' \in objects'
    BY Zenon, <1>4, <2>2 DEF AInv, ObjectFirst
  <2>4. ASSUME NEW v \in Workers, upload'[v] # NoUpload
        PROVE  /\ upload'[v].step # "put" => upload'[v].entry \in objects'
               /\ upload'[v].step = "remove" => upload'[v].entry \in manifests'
    <3>1. CASE v = w
      <4>1. upload'[v].step = "put"
        BY Zenon, <1>4, <1>5, <2>4, <3>1
      <4> QED
        BY Zenon, <2>1, <4>1
    <3>2. CASE v # w
      BY Zenon, <1>4, <2>2, <2>4, <3>2 DEF AInv, ObjectFirst
    <3> QED
      BY Zenon, <3>1, <3>2
  <2>5. \A o, p \in objects' : o.key = p.key => o = p
    BY Zenon, <2>2 DEF AInv, ObjectFirst
  <2> QED
    BY Zenon, <2>2, <2>3, <2>4, <2>5 DEF ObjectFirst
<1> QED
  BY ZenonT(60), <1>3, <1>6, <1>7, <1>8 DEF AInv

\* The upload stores the entry, writes its row and removes its file.
LEMMA UploadStepStep == ASSUME AInv, NEW w \in Workers, UploadStep(w) PROVE AInv' /\ Final
<1> DEFINE e0 == upload[w].entry
<1>1. /\ upload[w] # NoUpload /\ e0 \in Entries /\ e0 \in outbox /\ e0.key.worker = w
      /\ upload[w] = [step |-> upload[w].step, entry |-> e0]
      /\ upload[w] \in [step : {"put", "manifest", "remove"}, entry : Entries]
  BY ZenonT(60) DEF UploadStep, AInv, ArchiveTypes, UploadType, OutboxInOrder, OutboxOf
<1>2. /\ UNCHANGED <<mode, pending, part, restarts, flush>>
      /\ \A v \in Workers : Key(v)' = Key(v) /\ Segment(v)' = Segment(v)
      /\ \A e : Past(e)' = Past(e) /\ Named(e)' = Named(e)
  BY Zenon DEF UploadStep, Key, WriterID, Segment, Past, Named
<1>3. mode.outbox /\ \A v \in Workers : flush[v] # "manifest"
  BY Zenon, <1>1 DEF AInv, OutboxInOrder
<1>4. ASSUME \A e \in Entries : Written(e)' => Written(e) PROVE KeysAreFresh'
  BY ZenonT(60), <1>2, <1>4 DEF AInv, KeysAreFresh
<1>5. \A v \in Workers : v # w /\ upload[v] # NoUpload =>
         upload[v].entry \in outbox /\ upload[v].entry.key # e0.key /\ upload[v].entry.key.worker = v
  BY Zenon, <1>1 DEF AInv, OutboxInOrder, OutboxOf
<1>6. CASE upload[w].step = "put"
  <2>1. /\ objects' = Put(objects, e0) /\ UNCHANGED <<manifests, outbox>>
        /\ upload' = [upload EXCEPT ![w] = [step |-> "manifest", entry |-> e0]]
    BY ZenonT(60), <1>1, <1>6 DEF UploadStep, SetUpload, PutInStore
  <2>2. \A o \in objects : o.key = e0.key => o = e0 \/ (mode.fixedID /\ o.run < e0.run)
    <3> SUFFICES ASSUME NEW o \in objects, o.key = e0.key, o # e0
                 PROVE  mode.fixedID /\ o.run < e0.run
      BY Zenon
    <3>1. o \in Entries /\ Written(o) /\ Written(e0)
      BY Zenon, <1>1 DEF AInv, ArchiveTypes, Written
    <3>2. o.run # e0.run /\ Named(o) /\ Named(e0)
      BY Zenon, <1>1, <3>1 DEF AInv, KeysAreFresh
    <3>3. o.run <= e0.run /\ o.run \in Nat /\ e0.run \in Nat
      BY Zenon, <1>1, <3>1, EntryType DEF AInv, OutboxInOrder
    <3>4. o.run < e0.run
      BY SMTT(30), <3>2, <3>3
    <3> QED
      BY Zenon, <3>2, <3>4, NamesTell
  <2>3. /\ Final /\ objects' \subseteq Entries
        /\ e0 \in objects' /\ \A o \in objects : o.key # e0.key => o \in objects'
        /\ \A o \in objects' : o \in objects \/ o = e0
        /\ \A o, p \in objects' : o.key = p.key => o = p
        /\ \A r \in manifests : \E p \in objects' : Succeeds(p, r)
    BY ZenonT(60), <1>1, <1>2, <2>1, <2>2, PutSucceeds
  <2>4. /\ upload'[w] # NoUpload /\ upload'[w].entry = e0 /\ upload'[w].step # "remove"
        /\ upload'[w] \in UploadType
        /\ \A v \in Workers : v # w => upload'[v] = upload[v]
    <3>1. [step |-> "manifest", entry |-> e0] \in UploadType
      BY Zenon, <1>1 DEF UploadType
    <3>2. [step |-> "manifest", entry |-> e0] # NoUpload
      BY SMTT(30) DEF NoUpload
    <3>3. upload'[w] = [step |-> "manifest", entry |-> e0] /\ \A v \in Workers : v # w => upload'[v] = upload[v]
      BY Zenon, <2>1 DEF AInv, ArchiveTypes
    <3>4. upload'[w].entry = e0 /\ upload'[w].step = "manifest"
      <4>1. \A e : [step |-> "manifest", entry |-> e].entry = e /\ [step |-> "manifest", entry |-> e].step = "manifest"
        OBVIOUS
      <4> QED
        BY Zenon, <3>3, <4>1
    <3>5. "manifest" # "remove"
      OBVIOUS
    <3> HIDE DEF e0
    <3> QED
      BY Zenon, <3>1, <3>2, <3>3, <3>4, <3>5
  <2> HIDE DEF e0
  <2>5. ArchiveTypes'
    <3>1. upload' \in [Workers -> UploadType]
      BY Zenon, <2>1, <2>4 DEF AInv, ArchiveTypes
    <3> QED
      BY ZenonT(60), <1>2, <2>1, <2>3, <3>1 DEF AInv, ArchiveTypes
  <2>6. KeysAreFresh'
    <3>1. \A e \in Entries : Written(e)' => Written(e)
      BY ZenonT(60), <1>1, <2>1, <2>3 DEF Written
    <3> QED
      BY Zenon, <1>4, <3>1
  <2>7. OutboxInOrder'
    <3>1. \A e \in outbox' : \A o \in objects' : e.key = o.key => o.run <= e.run
      <4> SUFFICES ASSUME NEW e \in outbox, NEW o \in objects', e.key = o.key PROVE o.run <= e.run
        BY Zenon, <2>1
      <4>1. CASE o \in objects
        BY Zenon, <4>1 DEF AInv, OutboxInOrder
      <4>2. CASE o = e0
        <5>1. e = o
          BY Zenon, <1>1, <4>2 DEF AInv, OutboxInOrder
        <5>2. e.run \in Nat
          BY Zenon, EntryType DEF AInv, ArchiveTypes
        <5> QED
          BY SMTT(30), <5>1, <5>2
      <4> QED
        BY Zenon, <2>3, <4>1, <4>2
    <3>2. \A v \in Workers : upload'[v] # NoUpload => upload'[v].entry \in OutboxOf(v)'
      <4> SUFFICES ASSUME NEW v \in Workers, upload'[v] # NoUpload PROVE upload'[v].entry \in OutboxOf(v)'
        BY Zenon
      <4>1. upload'[v].entry \in outbox /\ upload'[v].entry.key.worker = v
        <5>1. CASE v = w
          BY Zenon, <1>1, <2>4, <5>1 DEF e0
        <5>2. CASE v # w
          BY Zenon, <1>5, <2>4, <5>2
        <5> QED
          BY Zenon, <5>1, <5>2
      <4> QED
        BY Zenon, <2>1, <4>1 DEF OutboxOf
    <3> QED
      BY ZenonT(60), <1>2, <2>1, <3>1, <3>2 DEF AInv, OutboxInOrder
  <2>8. ObjectFirst'
    <3>1. ManifestMatchesObject'
      BY Zenon, <1>2, <2>1, <2>3 DEF ManifestMatchesObject, Succeeds
    <3>2. \A v \in Workers : upload'[v] # NoUpload /\ upload'[v].step # "put" => upload'[v].entry \in objects'
      BY ZenonT(60), <1>5, <2>3, <2>4 DEF AInv, ObjectFirst
    <3>3. \A v \in Workers : upload'[v] # NoUpload /\ upload'[v].step = "remove" => upload'[v].entry \in manifests'
      <4> SUFFICES ASSUME NEW v \in Workers, upload'[v] # NoUpload, upload'[v].step = "remove"
                   PROVE  upload'[v].entry \in manifests
        BY Zenon, <2>1
      <4>1. v # w
        BY Zenon, <2>4
      <4>2. upload'[v] = upload[v]
        BY Zenon, <2>4, <4>1
      <4> QED
        BY Zenon, <4>2 DEF AInv, ObjectFirst
    <3> QED
      BY ZenonT(60), <1>2, <1>3, <2>3, <3>1, <3>2, <3>3 DEF ObjectFirst
  <2> QED
    BY ZenonT(60), <2>3, <2>5, <2>6, <2>7, <2>8 DEF AInv
<1>7. CASE upload[w].step = "manifest"
  <2>1. /\ manifests' = Put(manifests, e0) /\ UNCHANGED <<objects, outbox>>
        /\ upload' = [upload EXCEPT ![w] = [step |-> "remove", entry |-> e0]]
    BY ZenonT(60), <1>1, <1>7 DEF UploadStep, SetUpload
  <2>2. e0 \in objects
    BY Zenon, <1>1, <1>7 DEF AInv, ObjectFirst
  <2>3. /\ manifests' \subseteq Entries /\ ManifestMatchesObject' /\ e0 \in manifests'
        /\ \A r \in manifests : r.key # e0.key => r \in manifests'
    BY Zenon, <1>2, <2>1, <2>2, RowWritten
  <2>4. /\ upload'[w] # NoUpload /\ upload'[w].entry = e0 /\ upload'[w] \in UploadType
        /\ \A v \in Workers : v # w => upload'[v] = upload[v]
    <3>1. [step |-> "remove", entry |-> e0] \in UploadType
      BY Zenon, <1>1 DEF UploadType
    <3>2. [step |-> "remove", entry |-> e0] # NoUpload
      BY SMTT(30) DEF NoUpload
    <3>3. upload'[w] = [step |-> "remove", entry |-> e0] /\ \A v \in Workers : v # w => upload'[v] = upload[v]
      BY Zenon, <2>1 DEF AInv, ArchiveTypes
    <3>4. upload'[w].entry = e0
      <4>1. \A e : [step |-> "remove", entry |-> e].entry = e /\ [step |-> "remove", entry |-> e].step = "remove"
        OBVIOUS
      <4> QED
        BY Zenon, <3>3, <4>1
    <3> HIDE DEF e0
    <3> QED
      BY Zenon, <3>1, <3>2, <3>3, <3>4
  <2> HIDE DEF e0
  <2>5. ArchiveTypes'
    <3>1. upload' \in [Workers -> UploadType]
      BY Zenon, <2>1, <2>4 DEF AInv, ArchiveTypes
    <3> QED
      BY ZenonT(60), <1>2, <2>1, <2>3, <3>1 DEF AInv, ArchiveTypes
  <2>6. KeysAreFresh'
    BY Zenon, <1>4, <2>1 DEF Written
  <2>7. OutboxInOrder'
    <3>1. \A v \in Workers : upload'[v] # NoUpload => upload'[v].entry \in OutboxOf(v)'
      <4> SUFFICES ASSUME NEW v \in Workers, upload'[v] # NoUpload PROVE upload'[v].entry \in OutboxOf(v)'
        BY Zenon
      <4>1. upload'[v].entry \in outbox /\ upload'[v].entry.key.worker = v
        <5>1. CASE v = w
          BY Zenon, <1>1, <2>4, <5>1 DEF e0
        <5>2. CASE v # w
          BY Zenon, <1>5, <2>4, <5>2
        <5> QED
          BY Zenon, <5>1, <5>2
      <4> QED
        BY Zenon, <2>1, <4>1 DEF OutboxOf
    <3> QED
      BY ZenonT(60), <1>2, <2>1, <3>1 DEF AInv, OutboxInOrder
  <2>8. ObjectFirst'
    <3>1. \A v \in Workers : upload'[v] # NoUpload /\ upload'[v].step # "put" => upload'[v].entry \in objects'
      <4> SUFFICES ASSUME NEW v \in Workers, upload'[v] # NoUpload, upload'[v].step # "put"
                   PROVE  upload'[v].entry \in objects
        BY Zenon, <2>1
      <4>1. CASE v = w
        BY Zenon, <2>2, <2>4, <4>1
      <4>2. CASE v # w
        <5>1. upload'[v] = upload[v]
          BY Zenon, <2>4, <4>2
        <5> QED
          BY Zenon, <5>1 DEF AInv, ObjectFirst
      <4> QED
        BY Zenon, <4>1, <4>2
    <3>2. \A v \in Workers : upload'[v] # NoUpload /\ upload'[v].step = "remove" => upload'[v].entry \in manifests'
      BY ZenonT(60), <1>5, <2>3, <2>4 DEF AInv, ObjectFirst
    <3> QED
      BY ZenonT(60), <1>2, <1>3, <2>1, <2>3, <3>1, <3>2 DEF AInv, ObjectFirst
  <2> QED
    BY ZenonT(60), <2>1, <2>5, <2>6, <2>7, <2>8, FinalFrame DEF AInv
<1>8. CASE upload[w].step = "remove"
  <2>1. /\ outbox' = {f \in outbox : f.key # e0.key} /\ UNCHANGED <<objects, manifests>>
        /\ upload' = [upload EXCEPT ![w] = NoUpload]
    BY ZenonT(60), <1>8 DEF UploadStep, SetUpload
  <2>2. upload'[w] = NoUpload /\ \A v \in Workers : v # w => upload'[v] = upload[v]
    BY Zenon, <2>1 DEF AInv, ArchiveTypes
  <2> HIDE DEF e0
  <2>3. ArchiveTypes'
    <3>1. upload' \in [Workers -> UploadType] /\ outbox' \subseteq Entries
      BY Zenon, <2>1 DEF AInv, ArchiveTypes, UploadType
    <3> QED
      BY ZenonT(60), <1>2, <2>1, <3>1 DEF AInv, ArchiveTypes
  <2>4. KeysAreFresh'
    <3>1. \A e \in Entries : Written(e)' => Written(e)
      BY ZenonT(60), <2>1 DEF Written
    <3> QED
      BY Zenon, <1>4, <3>1
  <2>5. OutboxInOrder'
    <3>1. \A v \in Workers : upload'[v] # NoUpload => upload'[v].entry \in OutboxOf(v)'
      <4> SUFFICES ASSUME NEW v \in Workers, upload'[v] # NoUpload PROVE upload'[v].entry \in OutboxOf(v)'
        BY Zenon
      <4>1. v # w
        BY Zenon, <2>2
      <4>2. upload'[v] = upload[v]
        BY Zenon, <2>2, <4>1
      <4>3. upload[v].entry \in outbox /\ upload[v].entry.key # e0.key /\ upload[v].entry.key.worker = v
        BY Zenon, <1>5, <4>1, <4>2
      <4>4. upload[v].entry \in outbox'
        BY Zenon, <2>1, <4>3
      <4> QED
        BY Zenon, <4>2, <4>3, <4>4 DEF OutboxOf
    <3>2. outbox' \subseteq outbox
      BY Zenon, <2>1
    <3> QED
      BY ZenonT(60), <1>2, <1>3, <2>1, <3>1, <3>2 DEF AInv, OutboxInOrder
  <2>6. ObjectFirst'
    <3>1. ManifestMatchesObject'
      BY Zenon, <1>2, <2>1 DEF AInv, ObjectFirst, ManifestMatchesObject, Succeeds
    <3> QED
      <4>1. \A v \in Workers : upload'[v] # NoUpload => upload'[v] = upload[v]
        BY Zenon, <2>2
      <4>2. \A v \in Workers : /\ upload'[v] # NoUpload /\ upload'[v].step # "put" => upload'[v].entry \in objects
                               /\ upload'[v] # NoUpload /\ upload'[v].step = "remove" => upload'[v].entry \in manifests
        BY Zenon, <4>1 DEF AInv, ObjectFirst
      <4>3. /\ \A v \in Workers : flush'[v] = "manifest" => Segment(v)' \in objects'
            /\ \A o, p \in objects' : o.key = p.key => o = p
        BY Zenon, <1>2, <2>1 DEF AInv, ObjectFirst
      <4> QED
        BY Zenon, <2>1, <3>1, <4>2, <4>3 DEF ObjectFirst
  <2> QED
    BY ZenonT(60), <2>1, <2>3, <2>4, <2>5, <2>6, FinalFrame DEF AInv
<1> QED
  BY ZenonT(60), <1>1, <1>6, <1>7, <1>8

\* Every step keeps the invariant and every object.
LEMMA AInvStep == ASSUME AInv, [ArchiveNext]_archiveVars PROVE AInv' /\ Final
<1>1. mode.workers \subseteq Workers
  BY Zenon DEF AInv, ArchiveTypes, ModeType
<1>2. CASE UNCHANGED <<mode, pending, part, restarts, flush, upload, objects, manifests, outbox>>
  BY Zenon, <1>2, AFrame, FinalFrame
<1>3. CASE UNCHANGED archiveVars
  BY Zenon, <1>2, <1>3 DEF archiveVars
<1>4. ASSUME NEW m \in Messages, AckWaitPasses(m) PROVE AInv' /\ Final
  BY Zenon, <1>2, <1>4 DEF AckWaitPasses
<1>5. ASSUME NEW w \in Workers, NEW m \in Messages, Receive(w, m) PROVE AInv' /\ Final
  BY Zenon, <1>5, ReceiveStep, FinalFrame DEF Receive
<1>6. ASSUME NEW w \in Workers, NEW m \in Messages, ReceiveDuplicate(w, m) PROVE AInv' /\ Final
  BY Zenon, <1>2, <1>6 DEF ReceiveDuplicate
<1>7. ASSUME NEW w \in Workers, DedupExpires(w) PROVE AInv' /\ Final
  BY ZenonT(60), <1>2, <1>7 DEF DedupExpires
<1>8. ASSUME NEW w \in Workers, FlushDue(w) \/ Enqueue(w) PROVE AInv' /\ Final
  BY Zenon, <1>8, FlushDueStep, EnqueueStep, FinalFrame DEF FlushDue, Enqueue
<1>9. ASSUME NEW w \in Workers, PutObject(w) \/ UpsertManifest(w) PROVE AInv' /\ Final
  BY Zenon, <1>9, PutObjectStep, UpsertManifestStep
<1>10. ASSUME NEW w \in Workers, (\E e \in outbox : UploadReads(w, e)) \/ UploadFails(w)
       PROVE AInv' /\ Final
  BY Zenon, <1>10, UploadReadsStep, FinalFrame DEF UploadReads, UploadFails
<1>11. ASSUME NEW w \in Workers, UploadStep(w) PROVE AInv' /\ Final
  BY Zenon, <1>11, UploadStepStep
<1>12. ASSUME NEW w \in Workers, Crash(w) PROVE AInv' /\ Final
  BY Zenon, <1>12, CrashStep, FinalFrame DEF Crash
<1> QED
  BY ZenonT(60), <1>1, <1>3, <1>4, <1>5, <1>6, <1>7, <1>8, <1>9, <1>10, <1>11, <1>12
     DEF ArchiveNext, Flush, Upload

\* The archive keeps the invariant.
LEMMA AInvHolds == ArchiveSpec => []AInv
<1>1. AInv /\ [ArchiveNext]_archiveVars => AInv'
  BY Zenon, AInvStep
<1> QED
  BY <1>1, AInvInit, PTL DEF ArchiveSpec

\* A manifest row always describes the object under its key, or one that a restarted
\* process with the same WriterID has overwritten, for any number of workers and messages
\* and whatever fails or crashes.
THEOREM ManifestsMatch == ArchiveSpec => []ManifestMatchesObject
<1>1. AInv => ManifestMatchesObject
  BY Zenon DEF AInv, ObjectFirst
<1> QED
  BY <1>1, AInvHolds, PTL

\* No object is ever replaced by another one under its key, but by that of a later
\* incarnation of a process that keeps its WriterID.
THEOREM ObjectsStay == ArchiveSpec => ObjectsAreFinal
<1>1. AInv /\ [ArchiveNext]_archiveVars
        => [\A o \in objects : \E p \in objects' : Succeeds(p, o)]_archiveVars
  BY Zenon, AInvStep DEF Final
<1> QED
  BY <1>1, AInvHolds, PTL DEF ArchiveSpec, ObjectsAreFinal

------------------------------------------------------------------------------
(* CrashesLoseNothing.                                                     *)

Counters == /\ StreamTypeOK /\ seen \in [Workers -> Seq(Messages)]
            /\ failures \in Nat /\ timeouts \in Nat /\ crashes \in Nat

\* Stored, or lost with an object that was overwritten.
Kept(m) == Stored(m) \/ m \in overwritten

\* What the deduper drops as a duplicate is in the open segment or stored.
Remembered ==
    \A w \in Workers : \A m \in Range(seen[w]) : m \in Range(pending[w]) \/ Kept(m)

\* Only a timeout makes the consumer deliver what a worker still buffers.
QueuedOnce == timeouts = 0 => \A m \in Messages : stream[m] = "queued" => ~Buffered(m)

Safe(m) == Kept(m) \/ (timeouts > 0 /\ (Buffered(m) \/ crashes > 0))
AckedSafe == \A m \in Messages : stream[m] = "acked" => Safe(m)

LInv == /\ Counters
        /\ failures = 0 => Remembered /\ QueuedOnce /\ AckedSafe

\* Appending, removing the oldest, and what Remember does to the keys known.
LEMMA RangeFacts ==
    ASSUME NEW s \in Seq(Messages), NEW m \in Messages
    PROVE  /\ Range(Append(s, m)) = Range(s) \cup {m}
           /\ s # <<>> => Tail(s) \in Seq(Messages) /\ Range(Tail(s)) \subseteq Range(s)
           /\ Remember(s, m) \in Seq(Messages) /\ Range(Remember(s, m)) \subseteq Range(s) \cup {m}
<1>1. \A t \in Seq(Messages) : t # <<>> => Tail(t) \in Seq(Messages) /\ Range(Tail(t)) \subseteq Range(t)
  BY DEF Range
<1>2. Append(s, m) \in Seq(Messages) /\ Append(s, m) # <<>> /\ Range(Append(s, m)) = Range(s) \cup {m}
  <2>1. /\ Append(s, m) \in Seq(Messages) /\ DOMAIN Append(s, m) = 1..(Len(s) + 1)
        /\ DOMAIN s = 1..Len(s) /\ Len(s) \in Nat
        /\ \A i \in 1..Len(s) : Append(s, m)[i] = s[i]
        /\ Append(s, m)[Len(s) + 1] = m
    OBVIOUS
  <2>2. \A x : x \in Range(Append(s, m)) <=> x \in Range(s) \/ x = m
    BY <2>1 DEF Range
  <2> QED
    BY <2>1, <2>2
<1>3. Remember(s, m) \in Seq(Messages) /\ Range(Remember(s, m)) \subseteq Range(s) \cup {m}
  BY Zenon, <1>1, <1>2 DEF Remember
<1> QED
  BY ZenonT(60), <1>1, <1>2, <1>3

\* Nothing is remembered or acknowledged at first.
LEMMA LInvInit == ArchiveInit => LInv
<1> SUFFICES ASSUME ArchiveInit PROVE LInv
  BY Zenon
<1>1. Counters
  BY DEF ArchiveInit, StreamInit, StreamTypeOK, Counters
<1>3. \A w \in Workers : Range(seen[w]) = {} /\ Range(pending[w]) = {}
  BY DEF ArchiveInit, Range
<1>4. \A m \in Messages : stream[m] = "queued"
  BY Zenon DEF ArchiveInit, StreamInit
<1> QED
  BY Zenon, <1>1, <1>3, <1>4 DEF LInv, Remembered, QueuedOnce, AckedSafe, Buffered

\* An object goes only when another one takes its place, and the row of an object that
\* stays does too; an outbox file goes once object and row are there.  So what is stored
\* stays stored or is overwritten.
LEMMA KeptStays ==
    ASSUME AInv, [ArchiveNext]_archiveVars
    PROVE  \A m : Kept(m) => Kept(m)'
<1>1. mode.workers \subseteq Workers
  BY Zenon DEF AInv, ArchiveTypes, ModeType
<1>2. /\ overwritten \subseteq overwritten'
      /\ \A o \in objects : o \in objects' \/ Range(o.body) \subseteq overwritten'
  <2>1. CASE UNCHANGED <<objects, overwritten>>
    BY Zenon, <2>1
  <2>2. ASSUME NEW e, PutInStore(e)
        PROVE  /\ overwritten \subseteq overwritten'
               /\ \A o \in objects : o \in objects' \/ Range(o.body) \subseteq overwritten'
    BY Zenon, <2>2 DEF PutInStore
  <2> QED
    BY ZenonT(60), <1>1, <2>1, <2>2 DEF ArchiveNext, archiveVars, AckWaitPasses, Receive, ReceiveDuplicate,
       DedupExpires, Flush, FlushDue, Enqueue, PutObject, UpsertManifest, Upload, UploadReads, UploadStep,
       UploadFails, Crash
<1>3. \A o \in objects : o \in manifests => o \in manifests'
  <2>1. CASE UNCHANGED manifests
    BY Zenon, <2>1
  <2>2. ASSUME NEW w \in Workers, UpsertManifest(w)
        PROVE  \A o \in objects : o \in manifests => o \in manifests'
    <3>1. Segment(w) \in objects /\ UNCHANGED <<mode, objects>>
      BY Zenon, <2>2 DEF UpsertManifest, AInv, ObjectFirst
    <3>2. manifests' = Put(manifests, Segment(w)) \/ UNCHANGED manifests
      BY Zenon, <2>2 DEF UpsertManifest
    <3> QED
      BY Zenon, <2>1, <3>1, <3>2, RowWritten
  <2>3. ASSUME NEW w \in Workers, UploadStep(w)
        PROVE  \A o \in objects : o \in manifests => o \in manifests'
    <3>1. CASE upload[w].step = "manifest"
      <4>1. upload[w].entry \in objects
        BY Zenon, <2>3, <3>1 DEF UploadStep, AInv, ObjectFirst
      <4>2. UNCHANGED <<mode, objects>> /\ manifests' = Put(manifests, upload[w].entry)
        BY Zenon, <2>3, <3>1 DEF UploadStep
      <4> QED
        BY Zenon, <4>1, <4>2, RowWritten
    <3> QED
      BY Zenon, <2>1, <2>3, <3>1 DEF UploadStep
  <2> QED
    BY ZenonT(60), <1>1, <2>1, <2>2, <2>3 DEF ArchiveNext, archiveVars, AckWaitPasses, Receive, ReceiveDuplicate,
       DedupExpires, Flush, FlushDue, Enqueue, PutObject, Upload, UploadReads, UploadFails, Crash
<1>4. \A e \in outbox : e \in outbox' \/ (e \in objects /\ e \in manifests)
  <2>1. ASSUME NEW w \in Workers, Enqueue(w) PROVE outbox \subseteq outbox'
    <3>1. \/ outbox' = outbox
          \/ outbox' = Put(outbox, Segment(w)) /\ ~Has(outbox, Key(w))
      BY Zenon, <2>1 DEF Enqueue, OutboxAccepts
    <3>2. Segment(w).key = Key(w)
      BY Zenon DEF Segment
    <3>3. ASSUME ~Has(outbox, Key(w)) PROVE outbox \subseteq Put(outbox, Segment(w))
      BY Zenon, <3>2, <3>3, PutIs DEF Has
    <3> QED
      BY Zenon, <3>1, <3>3
  <2>2. ASSUME NEW w \in Workers, UploadStep(w), NEW e \in outbox, e \notin outbox'
        PROVE  e \in objects /\ e \in manifests
    <3>1. upload[w] # NoUpload /\ upload[w].step = "remove" /\ e.key = upload[w].entry.key
      BY Zenon, <2>2 DEF UploadStep
    <3>2. upload[w].entry \in objects /\ upload[w].entry \in manifests /\ upload[w].entry \in outbox
      <4>1. "remove" # "put"
        OBVIOUS
      <4> QED
        BY Zenon, <3>1, <4>1 DEF AInv, ObjectFirst, OutboxInOrder, OutboxOf
    <3>3. e = upload[w].entry
      BY Zenon, <3>1, <3>2 DEF AInv, OutboxInOrder
    <3> QED
      BY Zenon, <3>2, <3>3
  <2> QED
    BY ZenonT(60), <1>1, <2>1, <2>2 DEF ArchiveNext, archiveVars, AckWaitPasses, Receive, ReceiveDuplicate,
       DedupExpires, Flush, FlushDue, UpsertManifest, PutObject, Upload, UploadReads, UploadFails,
       Crash
<1>5. ASSUME NEW m, NEW o \in objects, o \in manifests, m \in Range(o.body) PROVE Kept(m)'
  BY Zenon, <1>2, <1>3, <1>5 DEF Stored, Kept
<1>6. ASSUME NEW m, NEW e \in outbox, m \in Range(e.body) PROVE Kept(m)'
  <2>1. CASE e \in outbox'
    BY Zenon, <1>6, <2>1 DEF Stored, Kept
  <2> QED
    BY Zenon, <1>4, <1>5, <1>6, <2>1
<1> QED
  BY Zenon, <1>2, <1>5, <1>6 DEF Stored, Kept

\* The bookkeeping of the second invariant.
LEMMA CountersStep ==
    ASSUME AInv, LInv, [ArchiveNext]_archiveVars
    PROVE  Counters' /\ failures' >= failures
<1>1. mode.workers \subseteq Workers
  BY Zenon DEF AInv, ArchiveTypes, ModeType
<1>2. stream' \in [Messages -> {"queued", "delivered", "acked"}]
  <2>1. \A S : Ack(S) \/ Nak(S) => stream' \in [Messages -> {"queued", "delivered", "acked"}]
    BY Zenon DEF Ack, Nak, LInv, Counters, StreamTypeOK
  <2>2. \A m \in Messages : Deliver(m) => stream' \in [Messages -> {"queued", "delivered", "acked"}]
    BY Zenon DEF Deliver, LInv, Counters, StreamTypeOK
  <2>3. \/ UNCHANGED stream
        \/ \E m \in Messages : Deliver(m)
        \/ \E S : Ack(S) \/ Nak(S)
    BY ZenonT(60), <1>1 DEF ArchiveNext, archiveVars, AckWaitPasses, Receive, ReceiveDuplicate,
       DedupExpires, Flush, FlushDue, Enqueue, UpsertManifest, PutObject, FlushSucceeds, FlushFails,
       Upload, UploadReads, UploadStep, UploadFails, Crash
  <2> QED
    BY Zenon, <2>1, <2>2, <2>3 DEF LInv, Counters, StreamTypeOK
<1>3. seen' \in [Workers -> Seq(Messages)]
  <2>1. \/ UNCHANGED seen
        \/ \E w \in Workers : \/ seen' = [seen EXCEPT ![w] = <<>>]
                              \/ seen[w] # <<>> /\ seen' = [seen EXCEPT ![w] = Tail(@)]
                              \/ \E m \in Messages : seen' = [seen EXCEPT ![w] = Remember(@, m)]
    BY ZenonT(60), <1>1 DEF ArchiveNext, archiveVars, AckWaitPasses, Receive, ReceiveDuplicate,
       DedupExpires, Flush, FlushDue, Enqueue, UpsertManifest, PutObject,
       Upload, UploadReads, UploadStep, UploadFails, Crash
  <2>2. ASSUME NEW w \in Workers, NEW t \in Seq(Messages), seen' = [seen EXCEPT ![w] = t]
        PROVE  seen' \in [Workers -> Seq(Messages)]
    BY Zenon, <2>2 DEF LInv, Counters
  <2>3. \A w \in Workers : seen[w] \in Seq(Messages)
    BY Zenon DEF LInv, Counters
  <2>4. \A w \in Workers, m \in Messages : Remember(seen[w], m) \in Seq(Messages)
    BY Zenon, <2>3, RangeFacts
  <2>5. \A w \in Workers : seen[w] # <<>> => Tail(seen[w]) \in Seq(Messages)
    BY <2>3
  <2>6. <<>> \in Seq(Messages)
    OBVIOUS
  <2> QED
    BY Zenon, <2>1, <2>2, <2>4, <2>5, <2>6 DEF LInv, Counters
<1>4. /\ failures' = failures \/ failures' = failures + 1
      /\ timeouts' = timeouts \/ timeouts' = timeouts + 1
      /\ crashes' = crashes \/ crashes' = crashes + 1
  BY ZenonT(60), <1>1 DEF ArchiveNext, archiveVars, AckWaitPasses, Receive, ReceiveDuplicate, Fails,
     DedupExpires, Flush, FlushDue, Enqueue, UpsertManifest, PutObject, FlushSucceeds,
     Upload, UploadReads, UploadStep, UploadFails, Crash
<1> QED
  BY <1>2, <1>3, <1>4 DEF LInv, Counters, StreamTypeOK

\* Flushing stores what is in the segment before it acknowledges.
LEMMA FlushStores ==
    ASSUME AInv, LInv, NEW w \in Workers, Enqueue(w) \/ UpsertManifest(w), failures' = failures
    PROVE  /\ \A m \in Range(pending[w]) : Kept(m)'
           /\ stream' = [m \in Messages |-> IF m \in Range(pending[w]) THEN "acked" ELSE stream[m]]
           /\ FlushEnds(w) /\ UNCHANGED <<seen, timeouts, crashes>>
<1>1. failures # failures + 1
  BY SMTT(30) DEF LInv, Counters
<1>2. /\ FlushSucceeds(w) /\ Ack(Range(pending[w])) /\ FlushEnds(w)
      /\ \/ outbox' = Put(outbox, Segment(w))
         \/ /\ flush[w] = "manifest" /\ UNCHANGED objects
            /\ manifests' = Put(manifests, Segment(w))
  BY Zenon, <1>1 DEF Enqueue, UpsertManifest, FlushSucceeds, Fails
<1> DEFINE new == Segment(w)
<1>3. new.body = pending[w]
  BY Zenon DEF Segment
<1>4. new \in outbox' \/ (new \in objects' /\ new \in manifests')
  <2>1. \A S : new \in Put(S, new)
    BY Zenon, PutIs
  <2>2. flush[w] = "manifest" => new \in objects
    BY Zenon DEF AInv, ObjectFirst
  <2>3. \/ outbox' = Put(outbox, new)
        \/ flush[w] = "manifest" /\ objects' = objects /\ manifests' = Put(manifests, new)
    BY Zenon, <1>2
  <2> HIDE DEF new
  <2> QED
    BY Zenon, <2>1, <2>2, <2>3
<1> HIDE DEF new
<1>5. \A m \in Range(pending[w]) : Kept(m)'
  <2>1. \A m : m \in Range(pending[w]) => m \in Range(new.body)
    BY Zenon, <1>3
  <2> QED
    BY Zenon, <1>4, <2>1 DEF Stored, Kept
<1>6. UNCHANGED <<seen, timeouts, crashes>>
  BY ZenonT(60) DEF Enqueue, UpsertManifest
<1> QED
  BY Zenon, <1>2, <1>5, <1>6 DEF Ack

\* No step without a failure loses what was acknowledged.
LEMMA NoLossStep ==
    ASSUME AInv, LInv, [ArchiveNext]_archiveVars, failures' = 0
    PROVE  Remembered' /\ QueuedOnce' /\ AckedSafe'
<1>1. failures = 0 /\ failures' = failures /\ failures + 1 # failures
      /\ mode.workers \subseteq Workers
  BY CountersStep DEF LInv, Counters, AInv, ArchiveTypes, ModeType
<1>2. \A m : Kept(m) => Kept(m)'
  BY ZenonT(60), KeptStays
<1>3. Remembered /\ QueuedOnce /\ AckedSafe
  BY Zenon, <1>1 DEF LInv
<1>4. timeouts \in Nat /\ crashes \in Nat
  BY ZenonT(60) DEF LInv, Counters
\* The segments, the deduper and the consumer are left alone.
<1>5. CASE UNCHANGED <<stream, seen, pending, timeouts, crashes>>
  BY ZenonT(60), <1>2, <1>3, <1>5 DEF Remembered, QueuedOnce, AckedSafe, Safe, Buffered
<1>6. ASSUME NEW m \in Messages, AckWaitPasses(m) PROVE Remembered' /\ QueuedOnce' /\ AckedSafe'
  <2>1. /\ UNCHANGED <<seen, pending, crashes>>
        /\ \A e \in Messages : /\ stream'[e] = "acked" => stream[e] = "acked"
                               /\ stream'[e] = "queued" => stream[e] = "queued" \/ e = m
        /\ timeouts' = timeouts \/ timeouts' = timeouts + 1
        /\ Buffered(m) => timeouts' = timeouts + 1
    BY ZenonT(60), <1>6 DEF AckWaitPasses, Nak
  <2> QED
    BY <1>2, <1>3, <1>4, <2>1 DEF Remembered, QueuedOnce, AckedSafe, Safe, Buffered
<1>7. ASSUME NEW w \in Workers, NEW m \in Messages, ReceiveDuplicate(w, m)
      PROVE  Remembered' /\ QueuedOnce' /\ AckedSafe'
  <2>1. /\ UNCHANGED <<seen, pending, timeouts, crashes>>
        /\ stream[m] = "queued" /\ m \in Range(seen[w])
        /\ \A e \in Messages : stream'[e] = IF e = m THEN "acked" ELSE stream[e]
    BY ZenonT(60), <1>7 DEF ReceiveDuplicate, Ack
  <2>2. Kept(m) \/ (timeouts > 0 /\ Buffered(m))
    BY <1>3, <1>4, <2>1 DEF Remembered, QueuedOnce, Buffered
  <2> QED
    BY ZenonT(60), <1>2, <1>3, <2>1, <2>2 DEF Remembered, QueuedOnce, AckedSafe, Safe, Buffered
<1>8. ASSUME NEW w \in Workers, NEW m \in Messages, Receive(w, m)
      PROVE  Remembered' /\ QueuedOnce' /\ AckedSafe'
  <2>1. /\ UNCHANGED <<timeouts, crashes>> /\ Deliver(m)
        /\ seen' = [seen EXCEPT ![w] = Remember(@, m)]
        /\ pending' = [pending EXCEPT ![w] = Append(@, m)]
    BY Zenon, <1>1, <1>8 DEF Receive, Fails
  <2>2. \A v \in Workers : /\ v # w => seen'[v] = seen[v] /\ pending'[v] = pending[v]
                           /\ seen[v] \in Seq(Messages) /\ pending[v] \in Seq(Messages)
    BY ZenonT(60), <2>1 DEF LInv, Counters, AInv, ArchiveTypes
  <2>3. /\ Range(seen'[w]) \subseteq Range(seen[w]) \cup {m}
        /\ Range(pending'[w]) = Range(pending[w]) \cup {m}
    BY ZenonT(60), <2>1, <2>2, RangeFacts DEF LInv, Counters, AInv, ArchiveTypes
  <2>4. /\ \A e \in Messages : stream'[e] = IF e = m THEN "delivered" ELSE stream[e]
        /\ \A e : Buffered(e) => Buffered(e)'
        /\ \A e : Buffered(e)' => Buffered(e) \/ e = m
    BY ZenonT(60), <2>1, <2>2, <2>3 DEF Deliver, LInv, Counters, StreamTypeOK, Buffered
  <2>5. Remembered'
    BY ZenonT(60), <1>2, <1>3, <2>2, <2>3 DEF Remembered
  <2>6. QueuedOnce' /\ AckedSafe'
    BY ZenonT(60), <1>2, <1>3, <2>1, <2>4 DEF QueuedOnce, AckedSafe, Safe
  <2> QED
    BY ZenonT(60), <2>5, <2>6
<1>9. ASSUME NEW w \in Workers, DedupExpires(w) PROVE Remembered' /\ QueuedOnce' /\ AckedSafe'
  <2>1. UNCHANGED <<stream, pending, timeouts, crashes>>
        /\ \A v \in Workers : Range(seen'[v]) \subseteq Range(seen[v])
    <3>1. seen[w] \in Seq(Messages) /\ seen[w] # <<>> /\ seen' = [seen EXCEPT ![w] = Tail(@)]
      BY Zenon, <1>9 DEF DedupExpires, LInv, Counters
    <3>2. Range(Tail(seen[w])) \subseteq Range(seen[w])
      BY <3>1 DEF Range
    <3> QED
      BY Zenon, <1>9, <3>1, <3>2 DEF DedupExpires, LInv, Counters
  <2> QED
    BY ZenonT(60), <1>2, <1>3, <2>1 DEF Remembered, QueuedOnce, AckedSafe, Safe, Buffered
<1>10. ASSUME NEW w \in Workers, Enqueue(w) \/ UpsertManifest(w)
       PROVE  Remembered' /\ QueuedOnce' /\ AckedSafe'
  <2>1. /\ \A m \in Range(pending[w]) : Kept(m)'
        /\ stream' = [m \in Messages |-> IF m \in Range(pending[w]) THEN "acked" ELSE stream[m]]
        /\ FlushEnds(w) /\ UNCHANGED <<seen, timeouts, crashes>>
    BY Zenon, <1>1, <1>10, FlushStores
  <2>2. /\ \A v \in Workers : v # w => pending'[v] = pending[v]
        /\ Range(pending'[w]) = {}
    BY SMTT(30), <2>1 DEF FlushEnds, AInv, ArchiveTypes, Range
  <2>3. /\ \A m : Buffered(m)' => Buffered(m)
        /\ \A m : Buffered(m) => Buffered(m)' \/ Kept(m)'
    BY ZenonT(60), <2>1, <2>2 DEF Buffered
  <2>4. Remembered'
    BY Zenon, <1>2, <1>3, <2>1, <2>2 DEF Remembered
  <2>5. QueuedOnce'
    BY Zenon, <1>3, <2>1, <2>3 DEF QueuedOnce
  <2>6. AckedSafe'
    BY ZenonT(60), <1>2, <1>3, <2>1, <2>3 DEF AckedSafe, Safe
  <2> QED
    BY ZenonT(60), <2>4, <2>5, <2>6
<1>11. ASSUME NEW w \in Workers, Crash(w) PROVE Remembered' /\ QueuedOnce' /\ AckedSafe'
  <2>1. /\ UNCHANGED <<stream, timeouts>> /\ crashes' = crashes + 1
        /\ \A v \in Workers : v # w => seen'[v] = seen[v] /\ pending'[v] = pending[v]
        /\ Range(seen'[w]) = {} /\ Range(pending'[w]) = {}
    BY SMTT(30), <1>11 DEF Crash, LInv, Counters, AInv, ArchiveTypes, Range
  <2>2. \A m : Buffered(m)' => Buffered(m)
    BY ZenonT(60), <2>1 DEF Buffered
  <2>3. crashes' > 0
    BY SMTT(30), <1>4, <2>1
  <2> QED
    BY ZenonT(60), <1>2, <1>3, <2>1, <2>2, <2>3 DEF Remembered, QueuedOnce, AckedSafe, Safe
<1>12. ASSUME NEW w \in Workers, PutObject(w) PROVE Remembered' /\ QueuedOnce' /\ AckedSafe'
  BY Zenon, <1>1, <1>5, <1>12 DEF PutObject, Fails
<1> QED
  BY Zenon, <1>1, <1>5, <1>6, <1>7, <1>8, <1>9, <1>10, <1>11, <1>12
     DEF ArchiveNext, archiveVars, Flush, FlushDue, Upload, UploadReads, UploadStep, UploadFails

\* Crashes alone lose no acknowledged envelope, and neither do redeliveries of buffered
\* messages alone: what the deduper drops is in the segment or stored, and what is stored
\* goes only with an object that is overwritten.
THEOREM NothingIsLost == ArchiveSpec => []CrashesLoseNothing
<1>1. AInv /\ LInv /\ [ArchiveNext]_archiveVars => LInv'
  BY Zenon, CountersStep, NoLossStep DEF LInv
<1>2. LInv => CrashesLoseNothing
  BY ZenonT(60) DEF LInv, CrashesLoseNothing, AckedSafe, Safe, Kept
<1> QED
  BY <1>1, <1>2, AInvHolds, LInvInit, PTL DEF ArchiveSpec

------------------------------------------------------------------------------
(* Types and the bounds of deduper and outbox, whatever the writer ids.    *)

\* What the bound on a worker's outbox directory needs: it is a finite one.
ATypes ==
    /\ ArchiveTypeOK
    /\ mode \in ModeType
    /\ \A w \in Workers : IsFiniteSet(OutboxOf(w))

\* The deduper never remembers more than DedupMaxEntries keys.
LEMMA RememberIs ==
    ASSUME NEW s \in Seq(Messages), Len(s) <= DedupMax, NEW m \in Messages
    PROVE  Remember(s, m) \in Seq(Messages) /\ Len(Remember(s, m)) <= DedupMax
BY ArchiveAssumption DEF Remember

\* A key that is forgotten makes the deduper shorter.
LEMMA ForgetIs ==
    ASSUME NEW s \in Seq(Messages), s # <<>>
    PROVE  Tail(s) \in Seq(Messages) /\ Len(Tail(s)) <= Len(s)
OBVIOUS

\* An accepted entry leaves its worker's directory within its bound, and the others as
\* they are.
LEMMA OutboxGrows ==
    ASSUME ATypes, NEW w \in Workers, OutboxAccepts(w),
           outbox' = Put(outbox, Segment(w))
    PROVE  /\ outbox' \subseteq Entries
           /\ \A v \in Workers : IsFiniteSet(OutboxOf(v)') /\ Cardinality(OutboxOf(v)') <= OutboxMax
<1> DEFINE new == Segment(w)
<1>1. new \in Entries /\ new.key.worker = w
  BY ZenonT(60), SegmentIs DEF ATypes, ArchiveTypeOK, ArchiveTypes, UploadType
<1>2. \A e : e \in outbox' => e \in outbox \/ e = new
  BY Zenon, PutIs
<1> HIDE DEF new
<1>3. outbox' \subseteq Entries
  BY Zenon, <1>1, <1>2 DEF ATypes, ArchiveTypeOK
<1>4. ASSUME NEW v \in Workers
      PROVE  IsFiniteSet(OutboxOf(v)') /\ Cardinality(OutboxOf(v)') <= OutboxMax
  <2>1. IsFiniteSet(OutboxOf(v)) /\ Cardinality(OutboxOf(v)) \in Nat
        /\ Cardinality(OutboxOf(v)) <= OutboxMax /\ OutboxMax \in Nat
    BY ZenonT(60), FS_CardinalityType, ArchiveAssumption DEF ATypes, ArchiveTypeOK, OutboxOf
  <2>2. CASE v # w
    <3>1. OutboxOf(v)' \subseteq OutboxOf(v)
      BY ZenonT(60), <1>1, <1>2, <2>2 DEF OutboxOf
    <3> QED
      BY <2>1, <3>1, FS_Subset, FS_CardinalityType
  <2>3. CASE v = w
    <3>1. OutboxOf(v)' \subseteq OutboxOf(v) \cup {new}
      BY Zenon, <1>2 DEF OutboxOf
    <3>2. /\ IsFiniteSet(OutboxOf(v) \cup {new})
          /\ Cardinality(OutboxOf(v) \cup {new}) \in Nat
          /\ Cardinality(OutboxOf(v) \cup {new}) <= Cardinality(OutboxOf(v)) + 1
      <4>1. /\ IsFiniteSet(OutboxOf(v) \cup {new})
            /\ \/ Cardinality(OutboxOf(v) \cup {new}) = Cardinality(OutboxOf(v))
               \/ Cardinality(OutboxOf(v) \cup {new}) = Cardinality(OutboxOf(v)) + 1
        BY Zenon, <2>1, FS_AddElement
      <4> QED
        BY <2>1, <4>1
    <3>3. IsFiniteSet(OutboxOf(v)') /\ Cardinality(OutboxOf(v)') <= Cardinality(OutboxOf(v) \cup {new})
          /\ Cardinality(OutboxOf(v)') \in Nat
      BY Zenon, <3>1, <3>2, FS_Subset, FS_CardinalityType
    <3>4. Cardinality(OutboxOf(v)) < OutboxMax
      BY Zenon, <2>3 DEF OutboxAccepts
    <3> QED
      BY SMTT(30), <2>1, <3>2, <3>3, <3>4
  <2> QED
    BY ZenonT(60), <2>2, <2>3
<1> QED
  BY ZenonT(60), <1>3, <1>4

\* An outbox that loses entries stays within its bound.
LEMMA OutboxShrinks ==
    ASSUME ATypes, outbox' \subseteq outbox
    PROVE  /\ outbox' \subseteq Entries
           /\ \A v \in Workers : IsFiniteSet(OutboxOf(v)') /\ Cardinality(OutboxOf(v)') <= OutboxMax
<1> SUFFICES ASSUME NEW v \in Workers
             PROVE  IsFiniteSet(OutboxOf(v)') /\ Cardinality(OutboxOf(v)') <= OutboxMax
  BY ZenonT(60) DEF ATypes, ArchiveTypeOK
<1>1. IsFiniteSet(OutboxOf(v)) /\ Cardinality(OutboxOf(v)) \in Nat
      /\ Cardinality(OutboxOf(v)) <= OutboxMax /\ OutboxMax \in Nat
  BY Zenon, FS_CardinalityType, ArchiveAssumption DEF ATypes, ArchiveTypeOK, OutboxOf
<1>2. OutboxOf(v)' \subseteq OutboxOf(v)
  BY Zenon DEF OutboxOf
<1> QED
  BY SMTT(30), <1>1, <1>2, FS_Subset, FS_CardinalityType

\* The worker's steps keep the types and the bounds.
LEMMA ATypesStep == ATypes /\ [ArchiveNext]_archiveVars => ATypes'
<1> SUFFICES ASSUME ATypes, [ArchiveNext]_archiveVars PROVE ATypes'
  BY ZenonT(60)
<1>1. /\ stream \in [Messages -> {"queued", "delivered", "acked"}]
      /\ seen \in [Workers -> Seq(Messages)] /\ \A w \in Workers : Len(seen[w]) <= DedupMax
      /\ pending \in [Workers -> Seq(Messages)]
      /\ part \in [Workers -> Nat] /\ restarts \in [Workers -> Nat]
      /\ flush \in [Workers -> {"no", "store", "manifest"}]
      /\ upload \in [Workers -> UploadType]
      /\ objects \subseteq Entries /\ manifests \subseteq Entries /\ outbox \subseteq Entries
      /\ overwritten \subseteq Messages
      /\ failures \in 0..mode.failures /\ timeouts \in 0..mode.timeouts /\ crashes \in 0..mode.crashes
      /\ mode \in ModeType /\ mode.workers \subseteq Workers
      /\ mode.failures \in Nat /\ mode.timeouts \in Nat /\ mode.crashes \in Nat
  BY ZenonT(60) DEF ATypes, ArchiveTypeOK, StreamTypeOK, UploadType, ModeType
<1> DEFINE SeenOK == seen \in [Workers -> Seq(Messages)] /\ \A w \in Workers : Len(seen[w]) <= DedupMax
           RestOK == /\ StreamTypeOK
                     /\ pending \in [Workers -> Seq(Messages)]
                     /\ part \in [Workers -> Nat] /\ restarts \in [Workers -> Nat]
                     /\ flush \in [Workers -> {"no", "store", "manifest"}]
           UploadOK == upload \in [Workers -> UploadType]
           StoresOK == /\ objects \subseteq Entries /\ manifests \subseteq Entries
                       /\ overwritten \subseteq Messages
           OutboxOK == /\ outbox \subseteq Entries
                       /\ \A v \in Workers : IsFiniteSet(OutboxOf(v)) /\ Cardinality(OutboxOf(v)) <= OutboxMax
           CountsOK == /\ failures \in 0..mode.failures /\ timeouts \in 0..mode.timeouts
                       /\ crashes \in 0..mode.crashes
           ModeOK == mode \in ModeType
<1>2. ATypes <=> SeenOK /\ RestOK /\ UploadOK /\ StoresOK /\ OutboxOK /\ CountsOK /\ ModeOK
  BY Zenon DEF ATypes, ArchiveTypeOK, UploadType, OutboxOf
<1>3. ATypes' <=> (SeenOK /\ RestOK /\ UploadOK /\ StoresOK /\ OutboxOK /\ CountsOK /\ ModeOK)'
  BY Zenon DEF ATypes, ArchiveTypeOK, UploadType, OutboxOf
<1>4. /\ UNCHANGED seen => SeenOK'
      /\ UNCHANGED <<stream, pending, part, restarts, flush>> => RestOK'
      /\ UNCHANGED upload => UploadOK'
      /\ UNCHANGED <<objects, overwritten, manifests>> => StoresOK'
      /\ UNCHANGED outbox => OutboxOK'
      /\ UNCHANGED <<mode, failures, timeouts, crashes>> => CountsOK'
      /\ UNCHANGED mode => ModeOK'
  <2>1. UNCHANGED outbox => OutboxOK'
    BY ZenonT(60), <1>2 DEF OutboxOf
  <2> QED
    BY Zenon, <1>2, <2>1 DEF StreamTypeOK
<1>5. \A w \in Workers : Segment(w) \in Entries
  BY ZenonT(60), <1>1, SegmentIs DEF ArchiveTypes
<1>6. /\ \A S \in SUBSET Entries, e \in Entries : Put(S, e) \subseteq Entries
      /\ \A e \in Entries : PutInStore(e) => objects' \subseteq Entries /\ overwritten' \subseteq Messages
  <2>1. \A S \in SUBSET Entries, e \in Entries : Put(S, e) \subseteq Entries
    BY Zenon, PutIs
  <2>2. \A o \in objects : Range(o.body) \subseteq Messages
    <3>1. \A s \in Seq(Messages) : Range(s) \subseteq Messages
      BY DEF Range
    <3> QED
      BY Zenon, <1>1, <3>1, EntryType
  <2>3. ASSUME NEW e \in Entries, PutInStore(e) PROVE objects' \subseteq Entries /\ overwritten' \subseteq Messages
    <3>1. objects' \subseteq Entries
      BY Zenon, <1>1, <2>1, <2>3 DEF PutInStore
    <3>2. UNION {Range(o.body) : o \in objects \ objects'} \subseteq Messages
      BY Zenon, <2>2
    <3> QED
      BY Zenon, <1>1, <2>3, <3>1, <3>2 DEF PutInStore
  <2> QED
    BY Zenon, <2>1, <2>3
<1>7. UNCHANGED mode /\ UNCHANGED timeouts /\ UNCHANGED crashes /\ (UNCHANGED failures \/ Fails) => CountsOK'
  BY SMTT(30), <1>1 DEF Fails
<1>8. \A S : (Ack(S) \/ Nak(S) \/ \E m \in Messages : Deliver(m)) => StreamTypeOK'
  BY Zenon, <1>1 DEF StreamTypeOK, Ack, Nak, Deliver
<1> HIDE DEF SeenOK, RestOK, UploadOK, StoresOK, OutboxOK, CountsOK, ModeOK
<1>10. ASSUME NEW m \in Messages, AckWaitPasses(m) PROVE ATypes'
  <2>1. RestOK'
    BY ZenonT(60), <1>1, <1>8, <1>10 DEF AckWaitPasses, RestOK
  <2>2. CountsOK'
    BY <1>1, <1>10 DEF AckWaitPasses, CountsOK
  <2> QED
    BY <1>3, <1>4, <1>10, <2>1, <2>2, ZenonT(60) DEF AckWaitPasses
<1>11. ASSUME NEW w \in Workers, NEW m \in Messages, Receive(w, m) PROVE ATypes'
  <2>1. SeenOK'
    <3>1. Remember(seen[w], m) \in Seq(Messages) /\ Len(Remember(seen[w], m)) <= DedupMax
      BY Zenon, <1>1, RememberIs
    <3> QED
      BY ZenonT(60), <1>1, <1>11, <3>1 DEF Receive, SeenOK
  <2>2. RestOK'
    <3>1. StreamTypeOK'
      BY Zenon, <1>1, <1>8, <1>11 DEF Receive, StreamTypeOK
    <3>2. part' \in [Workers -> Nat] /\ restarts' \in [Workers -> Nat]
      BY SMTT(30), <1>1, <1>11 DEF Receive, NextPart
    <3>3. pending' \in [Workers -> Seq(Messages)]
      <4>1. <<>> \in Seq(Messages) /\ Append(pending[w], m) \in Seq(Messages)
        BY SMTT(30), <1>1
      <4> QED
        BY <1>1, <1>11, <4>1, ZenonT(60) DEF Receive
    <3>4. flush' \in [Workers -> {"no", "store", "manifest"}]
      BY ZenonT(60), <1>1, <1>11 DEF Receive
    <3> QED
      BY Zenon, <3>1, <3>2, <3>3, <3>4 DEF RestOK
  <2>3. CountsOK'
    BY Zenon, <1>7, <1>11 DEF Receive
  <2> QED
    BY <1>3, <1>4, <1>11, <2>1, <2>2, <2>3, ZenonT(60) DEF Receive
<1>12. ASSUME NEW w \in Workers, NEW m \in Messages, ReceiveDuplicate(w, m) PROVE ATypes'
  <2>1. RestOK'
    BY Zenon, <1>1, <1>8, <1>12 DEF ReceiveDuplicate, RestOK
  <2> QED
    BY <1>3, <1>4, <1>12, <2>1, ZenonT(60) DEF ReceiveDuplicate
<1>13. ASSUME NEW w \in Workers, DedupExpires(w) PROVE ATypes'
  <2>1. Tail(seen[w]) \in Seq(Messages) /\ Len(Tail(seen[w])) <= Len(seen[w])
    BY ZenonT(60), <1>1, <1>13, ForgetIs DEF DedupExpires
  <2>2. \A v \in Workers : Len(seen[v]) \in Nat /\ DedupMax \in Nat
    BY <1>1, ArchiveAssumption
  <2>3. Len(Tail(seen[w])) \in Nat
    BY SMTT(30), <2>1
  <2>4. SeenOK'
    BY SMTT(30), <1>1, <1>13, <2>1, <2>2, <2>3 DEF DedupExpires, SeenOK
  <2> QED
    BY <1>3, <1>4, <1>13, <2>4, ZenonT(60) DEF DedupExpires
<1>14. ASSUME NEW w \in Workers, FlushDue(w) PROVE ATypes'
  <2>1. RestOK'
    BY ZenonT(60), <1>1, <1>14 DEF FlushDue, RestOK, StreamTypeOK
  <2> QED
    BY <1>3, <1>4, <1>14, <2>1, ZenonT(60) DEF FlushDue
<1>15. ASSUME NEW w \in Workers, FlushSucceeds(w) \/ FlushFails(w), UNCHANGED <<part, restarts>> PROVE RestOK'
  <2>1. StreamTypeOK'
    BY Zenon, <1>1, <1>8, <1>15 DEF FlushSucceeds, FlushFails, StreamTypeOK
  <2>2. <<>> \in Seq(Messages) /\ FlushEnds(w)
    BY SMTT(30), <1>15 DEF FlushSucceeds, FlushFails
  <2>3. pending' \in [Workers -> Seq(Messages)] /\ flush' \in [Workers -> {"no", "store", "manifest"}]
    BY ZenonT(60), <1>1, <2>2 DEF FlushEnds
  <2> QED
    BY ZenonT(60), <1>1, <1>15, <2>1, <2>3 DEF RestOK
<1>16. ASSUME NEW w \in Workers, Enqueue(w) PROVE ATypes'
  <2>1. RestOK'
    BY ZenonT(60), <1>15, <1>16 DEF Enqueue
  <2>2. OutboxOK'
    <3>1. CASE UNCHANGED outbox
      BY Zenon, <1>4, <3>1
    <3>2. CASE OutboxAccepts(w) /\ outbox' = Put(outbox, Segment(w))
      BY ZenonT(60), <3>2, OutboxGrows DEF OutboxOK
    <3> QED
      BY Zenon, <1>16, <3>1, <3>2 DEF Enqueue
  <2>3. CountsOK'
    BY Zenon, <1>7, <1>16 DEF Enqueue, FlushSucceeds
  <2> QED
    BY <1>3, <1>4, <1>16, <2>1, <2>2, <2>3, ZenonT(60) DEF Enqueue
<1>17. ASSUME NEW w \in Workers, PutObject(w) PROVE ATypes'
  <2>1. RestOK'
    <3>1. CASE FlushFails(w)
      BY ZenonT(60), <1>15, <1>17, <3>1 DEF PutObject
    <3>2. CASE UNCHANGED <<stream, pending>> /\ flush' = [flush EXCEPT ![w] = "manifest"]
      BY ZenonT(60), <1>1, <1>17, <3>2 DEF PutObject, RestOK, StreamTypeOK
    <3> QED
      BY ZenonT(60), <1>17, <3>1, <3>2 DEF PutObject
  <2>2. StoresOK'
    BY ZenonT(60), <1>1, <1>5, <1>6, <1>17 DEF PutObject, StoresOK
  <2>3. CountsOK'
    BY Zenon, <1>7, <1>17 DEF PutObject
  <2> QED
    BY <1>3, <1>4, <1>17, <2>1, <2>2, <2>3, ZenonT(60) DEF PutObject
<1>18. ASSUME NEW w \in Workers, UpsertManifest(w) PROVE ATypes'
  <2>1. RestOK'
    BY ZenonT(60), <1>15, <1>18 DEF UpsertManifest
  <2>2. StoresOK'
    BY ZenonT(60), <1>1, <1>5, <1>6, <1>18 DEF UpsertManifest, StoresOK
  <2>3. CountsOK'
    BY ZenonT(60), <1>7, <1>18 DEF UpsertManifest, FlushSucceeds
  <2> QED
    BY <1>3, <1>4, <1>18, <2>1, <2>2, <2>3, ZenonT(60) DEF UpsertManifest
<1>19. ASSUME NEW w \in Workers, NEW e \in outbox, UploadReads(w, e) PROVE ATypes'
  <2>1. UploadOK'
    BY Zenon, <1>1, <1>19 DEF UploadReads, SetUpload, UploadType, UploadOK
  <2> QED
    BY <1>3, <1>4, <1>19, <2>1, ZenonT(60) DEF UploadReads
<1>20. ASSUME NEW w \in Workers, UploadFails(w) PROVE ATypes'
  <2>1. UploadOK'
    BY Zenon, <1>1, <1>20 DEF UploadFails, SetUpload, UploadType, UploadOK
  <2>2. CountsOK'
    BY Zenon, <1>7, <1>20 DEF UploadFails
  <2> QED
    BY <1>3, <1>4, <1>20, <2>1, <2>2, ZenonT(60) DEF UploadFails
<1>21. ASSUME NEW w \in Workers, UploadStep(w) PROVE ATypes'
  <2>1. /\ upload[w] \in [step : {"put", "manifest", "remove"}, entry : Entries]
        /\ upload[w].entry \in Entries
        /\ NoUpload \in UploadType
        /\ \A s \in {"put", "manifest", "remove"} : [upload[w] EXCEPT !.step = s] \in UploadType
    BY SMTT(30), <1>1, <1>21 DEF UploadStep, UploadType, Entries
  <2>2. UploadOK'
    BY ZenonT(60), <1>1, <1>21, <2>1 DEF UploadStep, SetUpload, UploadOK
  <2>3. StoresOK'
    BY ZenonT(60), <1>1, <1>6, <1>21, <2>1 DEF UploadStep, StoresOK
  <2>4. OutboxOK'
    <3>1. outbox' \subseteq outbox
      BY Zenon, <1>21 DEF UploadStep
    <3> QED
      BY Zenon, <3>1, OutboxShrinks DEF OutboxOK
  <2> QED
    BY <1>3, <1>4, <1>21, <2>2, <2>3, <2>4, ZenonT(60) DEF UploadStep
<1>22. ASSUME NEW w \in Workers, Crash(w) PROVE ATypes'
  <2>1. SeenOK'
    BY SMTT(30), <1>1, <1>22, ArchiveAssumption DEF Crash, SeenOK
  <2>2. RestOK'
    <3>1. \A n \in Nat : n + 1 \in Nat
      OBVIOUS
    <3>2. << >> \in Seq(Messages) /\ 0 \in Nat
      OBVIOUS
    <3> QED
      BY ZenonT(60), <1>1, <1>22, <3>1, <3>2 DEF Crash, RestOK, StreamTypeOK
  <2>3. UploadOK'
    BY Zenon, <1>1, <1>22 DEF Crash, SetUpload, UploadType, UploadOK
  <2>4. CountsOK'
    BY <1>1, <1>22 DEF Crash, CountsOK
  <2> QED
    BY <1>3, <1>4, <1>22, <2>1, <2>2, <2>3, <2>4, ZenonT(60) DEF Crash
<1>23. CASE UNCHANGED archiveVars
  BY <1>3, <1>4, <1>23, ZenonT(60) DEF archiveVars
<1> QED
  BY ZenonT(60), <1>1, <1>10, <1>11, <1>12, <1>13, <1>14, <1>16, <1>17, <1>18, <1>19, <1>20, <1>21, <1>22, <1>23
     DEF ArchiveNext, Flush, Upload

\* Every variable keeps its type, the deduper never has more than DedupMaxEntries keys and
\* no worker's outbox directory more entries than it has room for, restarts that keep
\* their WriterID included.
THEOREM ArchiveIsBounded == ArchiveSpec => []ArchiveTypeOK
<1>1. ArchiveInit => ATypes
  <2> SUFFICES ASSUME ArchiveInit PROVE ATypes
    BY Zenon
  <2>1. \A w \in Workers : OutboxOf(w) = {} /\ {e \in outbox : e.key.worker = w} = {}
    BY Zenon DEF ArchiveInit, OutboxOf
  <2>2. mode \in ModeType /\ mode.failures \in Nat /\ mode.timeouts \in Nat /\ mode.crashes \in Nat
    BY Zenon, ArchiveAssumption DEF ArchiveInit, ModeType
  <2>3. IsFiniteSet({}) /\ Cardinality({}) = 0
    BY Zenon, FS_EmptySet
  <2>4. seen \in [Workers -> Seq(Messages)] /\ \A w \in Workers : Len(seen[w]) <= DedupMax
    BY ArchiveAssumption DEF ArchiveInit
  <2>5. /\ StreamTypeOK /\ pending \in [Workers -> Seq(Messages)]
        /\ part \in [Workers -> Nat] /\ restarts \in [Workers -> Nat]
        /\ flush \in [Workers -> {"no", "store", "manifest"}]
        /\ upload \in [Workers -> {NoUpload} \cup [step : {"put", "manifest", "remove"}, entry : Entries]]
        /\ objects \subseteq Entries /\ manifests \subseteq Entries /\ outbox \subseteq Entries
        /\ overwritten \subseteq Messages
        /\ failures \in 0..mode.failures /\ timeouts \in 0..mode.timeouts /\ crashes \in 0..mode.crashes
    BY <2>2 DEF ArchiveInit, StreamInit, StreamTypeOK
  <2>6. \A w \in Workers : Cardinality({e \in outbox : e.key.worker = w}) <= OutboxMax
    <3>1. 0 <= OutboxMax
      BY ArchiveAssumption
    <3> QED
      BY Zenon, <2>1, <2>3, <3>1
  <2> QED
    BY Zenon, <2>1, <2>2, <2>3, <2>4, <2>5, <2>6 DEF ATypes, ArchiveTypeOK
<1>2. ATypes => ArchiveTypeOK
  BY Zenon DEF ATypes
<1> QED
  BY <1>1, <1>2, ATypesStep, PTL DEF ArchiveSpec
==============================================================================
