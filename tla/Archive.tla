------------------------------- MODULE Archive -------------------------------
(***************************************************************************)
(* The archive worker (internal/archiveworker): telemetry envelopes from a *)
(* JetStream queue group are buffered into a segment, written as one       *)
(* object with a manifest row, and only then acknowledged.  In appliance   *)
(* mode the object goes to an outbox directory first and is uploaded later.*)
(*                                                                         *)
(* Segments of different partition hours and shards share nothing but the  *)
(* deduper, so one hour and one shard are modelled.  The worker mutex is   *)
(* held for a whole delivery or flush; a flush is still several steps here *)
(* because the process can die between them.                               *)
(***************************************************************************)
EXTENDS JetStream, Integers, Sequences, FiniteSets, Functions

CONSTANTS Workers,      \* members of the queue group
          MaxRecords,   \* MaxRecordsPerPart
          DedupMax,     \* DedupMaxEntries
          OutboxMax,    \* entries the outbox has room for
          Modes         \* configurations, with bounds, of ModeType

\* outbox: WithArchiveUploadOutbox; fixedID: a restarted process keeps its WriterID, as
\* with ARCHIVE_WRITER_ID or a container that is restarted in its pod; workers: those that
\* run, each with a WriterID of its own; failures: bound on failed stores, appends and
\* acks and on refused enqueues; timeouts: bound on redeliveries of a message a worker
\* still buffers.
ModeType == [outbox : BOOLEAN, fixedID : BOOLEAN, workers : SUBSET Workers,
             failures : Nat, timeouts : Nat, crashes : Nat]

ASSUME ArchiveAssumption ==
    /\ MaxRecords \in Nat \ {0} /\ DedupMax \in Nat \ {0} /\ OutboxMax \in Nat
    /\ Modes \subseteq ModeType

VARIABLES
    seen,       \* deduper.order: dedup keys, oldest first
    pending,    \* the messages of the open segment, in order
    part,       \* partCounts
    restarts,   \* how often the worker's process was restarted
    flush,      \* the next step of the flush in progress, or "no"
    upload,     \* the step of the outbox flush in progress
    objects,    \* the object store
    manifests,  \* archive_object_manifest
    outbox,     \* the outbox directories
    overwritten,    \* history: the messages of objects that others have replaced
    mode,
    failures, timeouts, crashes

archiveVars == <<stream, seen, pending, part, restarts, flush, upload, objects, manifests,
                 outbox, overwritten, mode, failures, timeouts, crashes>>

Keys == [worker : Workers, writer : Nat, part : Nat]
\* `run': history, the incarnation of the process that wrote the entry.
Entries == [key : Keys, run : Nat, body : Seq(Messages)]
NoUpload == [step |-> "no"]

\* defaultWriterID is host name and process id.
WriterID(w) == IF mode.fixedID THEN 0 ELSE restarts[w]

\* buildArchiveObjectKey
Key(w) == [worker |-> w, writer |-> WriterID(w), part |-> part[w]]
Segment(w) == [key |-> Key(w), run |-> restarts[w], body |-> pending[w]]

\* Writing an object, a manifest row or a file under an existing key replaces it.
Put(store, e) == {f \in store : f.key # e.key} \cup {e}
Has(store, k) == \E e \in store : e.key = k

PutInStore(e) ==
    /\ objects' = Put(objects, e)
    /\ overwritten' = overwritten \cup UNION {Range(o.body) : o \in objects \ objects'}

\* The types, and the bounds of deduper and outbox directory.
ArchiveTypeOK ==
    /\ StreamTypeOK
    /\ seen \in [Workers -> Seq(Messages)] /\ \A w \in Workers : Len(seen[w]) <= DedupMax
    /\ pending \in [Workers -> Seq(Messages)]
    /\ part \in [Workers -> Nat] /\ restarts \in [Workers -> Nat]
    /\ flush \in [Workers -> {"no", "store", "manifest"}]
    /\ upload \in [Workers -> {NoUpload} \cup [step : {"put", "manifest", "remove"}, entry : Entries]]
    /\ objects \subseteq Entries /\ manifests \subseteq Entries /\ outbox \subseteq Entries
    /\ overwritten \subseteq Messages
    /\ \A w \in Workers : Cardinality({e \in outbox : e.key.worker = w}) <= OutboxMax
    /\ failures \in 0..mode.failures /\ timeouts \in 0..mode.timeouts /\ crashes \in 0..mode.crashes

ArchiveInit ==
    /\ StreamInit
    /\ seen = [w \in Workers |-> <<>>]
    /\ pending = [w \in Workers |-> <<>>]
    /\ part = [w \in Workers |-> 0]
    /\ restarts = [w \in Workers |-> 0]
    /\ flush = [w \in Workers |-> "no"]
    /\ upload = [w \in Workers |-> NoUpload]
    /\ objects = {} /\ manifests = {} /\ outbox = {} /\ overwritten = {}
    /\ mode \in Modes
    /\ failures = 0 /\ timeouts = 0 /\ crashes = 0

Fails == failures < mode.failures /\ failures' = failures + 1

------------------------------------------------------------------------------
(* Redelivery.                                                             *)

Buffered(m) == \E w \in Workers : m \in Range(pending[w])

\* AckWait passes without an ack.  For a message no process works on any more that
\* happens sooner or later.
AckWaitPasses(m) ==
    /\ stream[m] = "delivered"
    /\ IF Buffered(m) THEN timeouts < mode.timeouts /\ timeouts' = timeouts + 1
                      ELSE UNCHANGED timeouts
    /\ Nak({m})
    /\ UNCHANGED <<mode, seen, pending, part, restarts, flush, upload, objects, overwritten,
                   manifests, outbox, failures, crashes>>

------------------------------------------------------------------------------
(* processDelivery.                                                        *)

\* Mutant: the deduper keeps every key until its window has passed.
RememberUnbounded(s, m) == Append(s, m)

\* deduper.Add: the oldest key makes room for a new one.
Remember(s, m) ==
    LET t == Append(s, m) IN IF Len(t) > DedupMax THEN Tail(t) ELSE t

\* A duplicate of a remembered envelope is acknowledged at once.
ReceiveDuplicate(w, m) ==
    /\ flush[w] = "no" /\ stream[m] = "queued" /\ m \in Range(seen[w])
    /\ Ack({m})
    /\ UNCHANGED <<mode, seen, pending, part, restarts, flush, upload, objects, overwritten,
                   manifests, outbox, failures, timeouts, crashes>>

\* Mutant: the part number is taken from the number of records, not of segments.
NextPartByRecords(w) == Len(pending[w]) + 1

\* segmentForKeyLocked: a new segment gets the next part number.
NextPart(w) == IF pending[w] = <<>> THEN part[w] + 1 ELSE part[w]

\* A new envelope is appended to the open segment, or to a new one with the next
\* part number; a full segment is flushed within the same call.
Receive(w, m) ==
    /\ flush[w] = "no" /\ stream[m] = "queued" /\ m \notin Range(seen[w])
    /\ seen' = [seen EXCEPT ![w] = Remember(@, m)]
    /\ part' = [part EXCEPT ![w] = NextPart(w)]
    /\ \/ /\ Deliver(m)
          /\ pending' = [pending EXCEPT ![w] = Append(@, m)]
          /\ flush' = [flush EXCEPT ![w] =
                         IF Len(pending[w]) + 1 >= MaxRecords THEN "store" ELSE "no"]
          /\ UNCHANGED failures
       \/ \* append fails: this message is nak'd, the segment dropped with the others
          /\ Fails
          /\ pending' = [pending EXCEPT ![w] = <<>>]
          /\ UNCHANGED <<stream, flush>>
    /\ UNCHANGED <<mode, restarts, upload, objects, overwritten, manifests, outbox,
                   timeouts, crashes>>

\* The deduper forgets its oldest key once its window has passed.
DedupExpires(w) ==
    /\ seen[w] # <<>>
    /\ seen' = [seen EXCEPT ![w] = Tail(@)]
    /\ UNCHANGED <<mode, stream, pending, part, restarts, flush, upload, objects,
                   overwritten, manifests, outbox, failures, timeouts, crashes>>

------------------------------------------------------------------------------
(* flushSegmentLocked.                                                     *)

\* The flush interval has passed for the open segment, or the worker shuts down.
FlushDue(w) ==
    /\ flush[w] = "no" /\ pending[w] # <<>>
    /\ flush' = [flush EXCEPT ![w] = "store"]
    /\ UNCHANGED <<mode, stream, seen, pending, part, restarts, upload, objects,
                   overwritten, manifests, outbox, failures, timeouts, crashes>>

\* The segment is deleted whatever the outcome; its messages are acknowledged when
\* everything was written (an ack can get lost), and nak'd otherwise.
FlushEnds(w) ==
    /\ pending' = [pending EXCEPT ![w] = <<>>]
    /\ flush' = [flush EXCEPT ![w] = "no"]

FlushSucceeds(w) ==
    /\ FlushEnds(w)
    /\ \/ Ack(Range(pending[w])) /\ UNCHANGED failures
       \/ Fails /\ UNCHANGED stream

FlushFails(w) ==
    /\ FlushEnds(w)
    /\ Nak(Range(pending[w]))

OutboxOf(w) == {e \in outbox : e.key.worker = w}

\* Enqueue refuses a full directory and a key that is still waiting.
OutboxAccepts(w) == Cardinality(OutboxOf(w)) < OutboxMax /\ ~Has(outbox, Key(w))

\* Mutant: the messages are acknowledged before the entry is on disk.
EnqueueAcksFirst(w) ==
    /\ flush[w] = "store" /\ mode.outbox
    /\ FlushSucceeds(w)
    /\ \/ OutboxAccepts(w) /\ outbox' = Put(outbox, Segment(w))
       \/ UNCHANGED outbox
    /\ UNCHANGED <<mode, seen, part, restarts, upload, objects, overwritten, manifests,
                   timeouts, crashes>>

\* The entry is linked under its name before the directory is synced: Enqueue may fail
\* with the entry in place.
Enqueue(w) ==
    LET written == OutboxAccepts(w) /\ outbox' = Put(outbox, Segment(w)) IN
    /\ flush[w] = "store" /\ mode.outbox
    /\ \/ written /\ FlushSucceeds(w)
       \/ FlushFails(w) /\ Fails /\ (written \/ UNCHANGED outbox)
    /\ UNCHANGED <<mode, seen, part, restarts, upload, objects, overwritten, manifests,
                   timeouts, crashes>>

\* Mutant: the manifest row is written even when the object could not be.
PutObjectIgnoresError(w) ==
    /\ flush[w] = "store" /\ ~mode.outbox
    /\ flush' = [flush EXCEPT ![w] = "manifest"]
    /\ \/ PutInStore(Segment(w)) /\ UNCHANGED failures
       \/ Fails /\ UNCHANGED <<objects, overwritten>>
    /\ UNCHANGED <<mode, stream, pending, seen, part, restarts, upload, manifests, outbox,
                   timeouts, crashes>>

\* A call to the store or the database that fails may have taken effect.
PutObject(w) ==
    /\ flush[w] = "store" /\ ~mode.outbox
    /\ \/ /\ PutInStore(Segment(w))
          /\ flush' = [flush EXCEPT ![w] = "manifest"]
          /\ UNCHANGED <<stream, pending, failures>>
       \/ FlushFails(w) /\ Fails /\ (PutInStore(Segment(w)) \/ UNCHANGED <<objects, overwritten>>)
    /\ UNCHANGED <<mode, seen, part, restarts, upload, manifests, outbox, timeouts,
                   crashes>>

UpsertManifest(w) ==
    LET written == manifests' = Put(manifests, Segment(w)) IN
    /\ flush[w] = "manifest"
    /\ \/ FlushSucceeds(w) /\ written
       \/ FlushFails(w) /\ Fails /\ (written \/ UNCHANGED manifests)
    /\ UNCHANGED <<mode, seen, part, restarts, upload, objects, overwritten, outbox,
                   timeouts, crashes>>

------------------------------------------------------------------------------
(* The outbox upload, on the ticker goroutine and at start and shutdown.   *)

SetUpload(w, u) == upload' = [upload EXCEPT ![w] = u]

\* Flush reads the next entry.
UploadReads(w, e) ==
    /\ upload[w] = NoUpload /\ e \in OutboxOf(w)
    /\ SetUpload(w, [step |-> "put", entry |-> e])
    /\ UNCHANGED <<mode, stream, seen, pending, part, restarts, flush, objects, overwritten,
                   manifests, outbox, failures, timeouts, crashes>>

\* The store or the database does not answer: Flush stops until the next tick.
UploadFails(w) ==
    /\ upload[w] # NoUpload /\ Fails
    /\ SetUpload(w, NoUpload)
    /\ UNCHANGED <<mode, stream, seen, pending, part, restarts, flush, objects, overwritten,
                   manifests, outbox, timeouts, crashes>>

\* Mutant: an uploaded entry whose key is known to the manifest is left where it is.
UploadStepKeepsFile(w) ==
    /\ upload[w] # NoUpload
    /\ LET e == upload[w].entry IN
       \/ /\ upload[w].step = "put"
          /\ PutInStore(e)
          /\ SetUpload(w, [upload[w] EXCEPT !.step = "manifest"])
          /\ UNCHANGED manifests
       \/ /\ upload[w].step = "manifest"
          /\ manifests' = Put(manifests, e)
          /\ SetUpload(w, NoUpload)
          /\ UNCHANGED <<objects, overwritten>>
    /\ UNCHANGED <<mode, stream, seen, pending, part, restarts, flush, outbox, failures,
                   timeouts, crashes>>

\* The entry is uploaded, its manifest row written and its file removed, in this order.
UploadStep(w) ==
    /\ upload[w] # NoUpload
    /\ LET e == upload[w].entry IN
       \/ /\ upload[w].step = "put"
          /\ PutInStore(e)
          /\ SetUpload(w, [upload[w] EXCEPT !.step = "manifest"])
          /\ UNCHANGED <<manifests, outbox>>
       \/ /\ upload[w].step = "manifest"
          /\ manifests' = Put(manifests, e)
          /\ SetUpload(w, [upload[w] EXCEPT !.step = "remove"])
          /\ UNCHANGED <<objects, overwritten, outbox>>
       \/ /\ upload[w].step = "remove"
          /\ outbox' = {f \in outbox : f.key # e.key}
          /\ SetUpload(w, NoUpload)
          /\ UNCHANGED <<objects, overwritten, manifests>>
    /\ UNCHANGED <<mode, stream, seen, pending, part, restarts, flush, failures, timeouts,
                   crashes>>

------------------------------------------------------------------------------
\* The process dies and is restarted: its memory is empty, the part counter back at
\* zero.
Crash(w) ==
    /\ crashes < mode.crashes /\ crashes' = crashes + 1
    /\ seen' = [seen EXCEPT ![w] = <<>>]
    /\ pending' = [pending EXCEPT ![w] = <<>>]
    /\ part' = [part EXCEPT ![w] = 0]
    /\ flush' = [flush EXCEPT ![w] = "no"]
    /\ SetUpload(w, NoUpload)
    /\ restarts' = [restarts EXCEPT ![w] = @ + 1]
    /\ UNCHANGED <<mode, stream, objects, overwritten, manifests, outbox, failures,
                   timeouts>>

Upload(w) == UploadStep(w) \/ \E e \in outbox : UploadReads(w, e)
Flush(w) == FlushDue(w) \/ Enqueue(w) \/ PutObject(w) \/ UpsertManifest(w)

ArchiveNext ==
    \/ \E m \in Messages : AckWaitPasses(m)
    \/ \E w \in mode.workers :
          \/ \E m \in Messages : Receive(w, m) \/ ReceiveDuplicate(w, m)
          \/ DedupExpires(w) \/ Flush(w) \/ Upload(w) \/ UploadFails(w) \/ Crash(w)

ArchiveSpec == ArchiveInit /\ [][ArchiveNext]_archiveVars

\* The consumer delivers and redelivers, the tickers fire, flushes and uploads take their
\* steps; what fails is bounded.
ArchiveFairness ==
    /\ \A m \in Messages :
         /\ WF_archiveVars(AckWaitPasses(m) /\ ~Buffered(m))
         /\ WF_archiveVars(\E w \in mode.workers : Receive(w, m) \/ ReceiveDuplicate(w, m))
    /\ \A w \in Workers :
         WF_archiveVars(Flush(w)) /\ WF_archiveVars(Upload(w))

ArchiveFairSpec == ArchiveSpec /\ ArchiveFairness

------------------------------------------------------------------------------
(* Properties.                                                             *)

\* The envelope is in an object that has its manifest row, or in the outbox.
Stored(m) ==
    \/ \E o \in objects : o \in manifests /\ m \in Range(o.body)
    \/ \E e \in outbox : m \in Range(e.body)

\* An acknowledged envelope survives any crash from then on: object and manifest row,
\* or the outbox file, are written before the messages of a segment are acknowledged.
AckedIsStored == \A m \in Messages : stream[m] = "acked" => Stored(m)

\* As long as no write or ack failed, nothing acknowledged is lost but with an object that
\* is overwritten (ObjectsAreFinal says by whom): not by crashes alone, and not by
\* redeliveries of messages that are still buffered alone, for then the envelope is in an
\* open segment.
CrashesLoseNothing ==
    failures = 0 =>
       \A m \in Messages : stream[m] = "acked" =>
          \/ Stored(m) \/ m \in overwritten
          \/ timeouts > 0 /\ (Buffered(m) \/ crashes > 0)

\* The entry is this one, or has taken its place under a key that a restarted process with
\* the same WriterID handed out again, its part counter being back at zero.
Succeeds(e, f) == e = f \/ (mode.fixedID /\ e.key = f.key /\ e.run > f.run)

\* A manifest row describes the object under its key, whatever write failed or process
\* died between the two, or an earlier one that a restarted process has overwritten; never
\* a later one, and never none.
ManifestMatchesObject == \A r \in manifests : \E o \in objects : Succeeds(o, r)

\* An archived object is never replaced by another one under the same key: neither by
\* the next segment, nor by a late upload, nor by what a failed call is repeated with; and
\* after a restart only where the process keeps its WriterID.
ObjectsAreFinal ==
    [][\A o \in objects : \E p \in objects' : Succeeds(p, o)]_archiveVars

\* Every envelope is acknowledged in the end, and everything in the outbox uploaded.
Settles ==
    <>[]((\A m \in Messages : stream[m] = "acked") /\ outbox = {})
==============================================================================
