# Pulse: TLA+ models, checks and proofs

Pulse takes telemetry from power stations over MQTT, or from a Raspberry Pi with a
Bluetooth probe, puts it on a NATS JetStream stream and lets independent workers archive
it, project it into a live snapshot and roll it up into minutes, hours and days. The
modules here model the parts whose correctness depends on several processes, on failures
between two steps, or on the order in which things arrive. Everything is written from the
Go code; `PROJECT.json` maps every definition to its lines, and lists every part of the
system, modelled or not, and the hazards the properties are about.

    tlc -workers 4 -config MCArchive.cfg MCArchive     # any run: cfg and MC module
    tlapm ArchiveProofs.tla                            # any module of proofs

## The system

| Part | State | Operations | What makes it hard |
|---|---|---|---|
| Ingest lease, `internal/ingestlease` | lease hash, session hash and fence counter in Valkey; a heartbeat per session start | three Lua scripts; `Acquire`, `Renew`, `Release`, `RunHeartbeat` | expiry against renewal, lost answers, late requests, retries with the same token |
| Ingest worker, `internal/ingestworker/loop.go` | `running`, `termCh`, cooldowns; heartbeat and session goroutines | poll and reconcile, start, stop, termination events, shutdown | goroutines ending in any order; tokens reused by a restarted worker; a session that writes to the row it is controlled by |
| Session, `internal/ingestworker`, `telemetrybus/publisher.go` | connection, refresh goroutine, bounded queue, publish workers | connect, read, refresh, `Publish`, `Close`, publish with retries | closing a queue others may be writing to; workers that outlive their session; a hanging NATS |
| Edge collector, `cmd/pulse-edge-collector`, and its service | outbox directory and its accounting; collector row, device source | enroll, heartbeat, tail, enqueue, flush, upload, approve | two goroutines sending and rewriting the same file; crashes; a token spent by a lost answer |
| Stream consumers, `internal/telemetrybus` | delivered and acknowledged messages | deliver, ack, nak, AckWait | redelivery while the first delivery is still being handled |
| Consumer supervisor, `internal/telemetrybus` | subscription, durable, handler count, idle token | subscribe, monitor, unsubscribe, wait for idle | old idle tokens, handlers entered after the unsubscribe, a durable that disappears |
| Archive worker, `internal/archiveworker` | open segments, deduper, part counter, outbox directory; objects, manifest rows | receive, flush, enqueue, upload | one of several writes fails; crash between them; duplicates of what is buffered; keys that a restarted process hands out again |
| Projection worker, `internal/projectionworker` | snapshot and sequence key in Valkey | GET, INCR, SET per envelope | three calls without a lock; late and repeated envelopes |
| Rollup worker, `internal/rollupworker` | applied envelopes, rollup rows; integration state in memory | claim, upsert, commit, ack | memory and database diverge at a lost commit or a crash |
| Rollup rebuild, `internal/rolluprebuild` | aggregator rows and state | merge of archived envelopes, `ApplySample` | a second implementation of the same arithmetic, over fewer envelopes |
| Gap repair, `internal/gaprepair`, `internal/replaycli` | request stream, jobs, connection | detect, plan, publish, replay, ack | clock, coverage and cursor read at different times; frames that are lost while the ack arrives; requests dropped as duplicates |

How they interact: the lease elects the worker that runs a device's session; the session
publishes envelopes; the three kinds of workers are queue groups on the stream and share
nothing but it; the gap detector compares what the archive has with the cursor of the
projection and has archived envelopes sent through the stream again; the rebuild replays
the archive into the rollup tables; the edge collector uploads to a service that publishes
to the same stream.

## The modules

    FencedLock <== IngestLease ==> LeaseClient <- IngestLoop        (==> implements)
    JetStream <- Archive, Projection, Rollup                        (<- is extended by)
    RollupMath <- Rollup, RollupRebuild
    EdgeIngest <- EdgeCollector
    ConsumerSupervisor <- GapRepair
    Session

Every component `C` has an instance for TLC in `MCC`, and some have proofs in `CProofs`.

**FencedLock** is what the lease promises, in terms of a holder, a counter and what each
client believes: the lock is granted only when vacant, every grant has a new number, and
a client learns the number of a grant only while it is its holder.

**IngestLease** is the lease itself. `AcquireScript`, `RenewScript` and `ReleaseScript`
are the Lua scripts. A client is `AcquireCall`/`AcquireReply`, then the loop of
`RunHeartbeat`: `Tick`, `RenewReply`, the self-healing `ReacquireReply`, `SeeCancel`,
`DrainReply`, `ReleaseReply`. A failed call (`CallFails`, `CancelAborts`) leaves its
request in `stray`, to be executed at any later moment or never, and is retried as
`execScript` does.

**LeaseClient** is the lease as the loop sees it: free or held, and for each token
whether `Acquire` is pending, the heartbeat running or everything over. `IngestLease` is
shown to implement it, and **IngestLoop** is composed with it. There `pc` is the place of
`Run`; `ReconcileList`, `ReconcileStop`, `StartSession`, `SpawnSession`, `StartFails` are
a reconcile pass with its calls to database and lease apart; `HandleTermination` reads
`termCh`; `SessionEnds` is the session goroutine; `publishQuotaSnapshot` the one place
where a session writes its own row; `StopAll`, `Stopped`, `Crash`, `Restart` the life of
the process.

**Session** is the inside of one session goroutine of the loop, for the three runners
(EcoFlow, also for Pulse MQTT devices; Pecron; Anker Solix). `pc` is the place of `Run`
and `runSessionOnce`, `rpc` that of the refresh goroutine. `Connect`, `Backoff`, `Read`
and `Snapshot` are the runner's steps; `CancelRefresh`, `JoinRefresh` and `Close` its
deferred function. `Publish` is the bounded queue of `asyncEnvelopePublisher`; `TakeJob`,
`Send`, `Result`, `Retry` its workers inside `PublishEnvelope`. `pub` and `worker` keep
the publishers of all sessions, since a worker that hangs is left behind by `Close`;
`heard` says whether the broker has sent anything on the current connection, and so can
send its last message again on the next.

**EdgeIngest** is the platform's side of an edge collector, one action per request;
**EdgeCollector** the process on the Pi: `Enroll`, `Start`, `Heartbeat`, the probe and
the tail of its output, and the outbox. What the outbox does under its mutex `mu` is one
step (`Enqueue`, `List`, `Remove`); `flushMu` is the variable `lock`, held over the
network calls (`Read`, `Send`, `Remove`). Memory (`used`, `loaded`, `nextPrune`) is lost
by a crash, the directory (`disk`, `corrupt`) is not. After a crash systemd restarts the
process; after a signal or an authentication error it does not (`Stopped`), and only
`UnitStarts`, which nobody promises, brings the collector back.

**JetStream** is the consumer of the workers (external): queued, delivered,
acknowledged, with redelivery after a nak or after AckWait.

**Archive**: `Receive` and `ReceiveDuplicate` are `processDelivery`; `PutObject`,
`UpsertManifest` or `Enqueue` the steps of `flushSegmentLocked`, between which the
process may die; `UploadReads`, `UploadStep`, `UploadFails` the outbox upload. `WriterID`
is part of every key. Each process has its own, or a restarted one keeps that of its
predecessor (`mode.fixedID`), as with `ARCHIVE_WRITER_ID`, which the Pi appliance sets, or
in a container that is restarted in its pod, where host name and process id are the same
again. `Crash` sets the part counter back to zero in either case. `run` and `overwritten`
are history: which incarnation wrote an entry, and what was in objects that were replaced.
Workers that run at the same time have different writer ids.

**Projection**: `Read`, `Incr`, `Set`, `Finish` are `ApplyEnvelope` and the message
handler, one action for each call to Valkey; `Merge` and `ChangedAt` compute the new
snapshot.

**RollupMath** has the pure part of the rollups as operators: the cut of a window into
buckets (`IntegratePowerWindow`), the carry limit, the upserts of a row, the integration
state. **Rollup** is the transaction around it (`Claim`, `Commit`, `Finish`);
**RollupRebuild** has an archive `log` of envelopes, each with a key and a sample or
without, and applies it with the aggregator's own code next to the live worker. `Kept` is
`shouldPreferLatestEnvelope`: of the envelopes with one `rebuildEnvelopeKey` the rebuild
applies the last to be ingested, while the live worker has counted all. Assumed are
different ingest times (the code breaks ties by other fields), a live claim that tells the
envelopes of the archive apart (its key is the envelope's id first), and one
`processObjectGroup` over all objects of the device.

**ConsumerSupervisor** is `RunConsumerSupervisor` with `MsgHandlerTracker`. nats.go takes
a message from its queue before the wrapped handler counts it, so a handler can be entered
after the unsubscribe: `Take` and `Enter` are apart. **GapRepair** runs the gap repair
worker under it. `BeginCycle`, `LoadCoverage`, `Evaluate` and `PublishGapRepair` are a
detector cycle, apart because clock, archive and snapshot go on meanwhile; envelopes are
stamped by a clock that is `Skew` ahead of the detector's; `PlanRepair` is `planRepair`;
`ReplayDevices` and `Answer` the handler; `wire` what its connection has yet to send,
frames and acknowledgement in one order, of which `Disconnect` loses the first ones: what
the client has not written yet is sent after the reconnect. Ingest, projection and archive
are reduced to what gap repair sees of them: the cursor and the objects.

Data is abstracted to what the properties tell apart: an envelope is a model value with
a time and a few values, an object's body the sequence of its envelopes, an outbox file
its entry and creation time, time counts units of the smallest bucket, energy is power
times units (watt-hours are a division by a constant). One device, or one partition hour
and shard, is modelled where the code keeps devices or segments apart by key.

## The runs

| Run | Instance | Result |
|---|---|---|
| `lease` | 2 session starts, 2 attempts per call, 2 failed calls, 3 grants | fences are distinct and ordered; no step and no late request of a client that is not the holder changes the lease; every step is one of `FencedLock` and one of `LeaseClient`; a cancelled session gives the device up |
| `loop` | 2 workers with 2 tokens each, 2 credentials; a user's change, or a change and a fault, or a fault and a lost lease | a session not told to stop is the registered one; at most one exists while no lease lapses; a session without heartbeat is stopped; the workers settle on serving the row |
| `loop_disable` | as above, the row is switched off | **violated**, see below |
| `archive` | 1 or 2 workers, 2 envelopes, a deduper of one key, new or fixed writer ids, with and without an outbox of one entry; failures, a crash, a redelivery of a buffered message | manifest rows match objects, and no object is replaced, but by a restarted process with the writer id of its predecessor; crashes alone, or redeliveries alone, lose nothing acknowledged but with a replaced object; everything is acknowledged and uploaded in the end |
| `archive_nak` | 1 worker, 2 envelopes, a failure | **violated**, see below |
| `projection` | 2 workers, 3 envelopes, two of the same millisecond, 2 faults | shown values were reported at the times shown; until a write is lost the cursor advances, no metric goes back, each envelope takes effect once and the newest wins |
| `rollup` | 2 workers, 3 samples and an empty envelope, 2 faults | each claimed envelope is counted once in each width; widths agree; no interval is integrated twice; everything is counted in the end |
| `rollup_crash` | 1 worker, 3 samples, 2 faults | **violated**, see below |
| `rebuild` | every archive of 4 envelopes at 3 times, with and without key, power and metrics, 3 widths, a carry limit of 2 units | live rows count all, rebuilt rows all but the merged; energies agree without merged and late envelopes; widths agree; energy is bounded by the power and the carry limit in both |
| `session` | each provider, 2 messages, a queue of one, a retry, a reconnect, 1 or 2 publish workers, 1 or 2 failed calls | nobody publishes into a closed queue; a clean `Close` loses nothing silently; one worker keeps the order; neither a session's end nor a cancellation gets stuck behind a hanging NATS |
| `edge` | 2 records, an outbox of three entries, two collector rows; two lines, or one line and two ticks of the clock; a failure, crash, signal or damaged file | the secret stays valid; what was queued is kept until acknowledged; the directory stays within its bound; the outbox is empty in the end unless the collector was stopped for good |
| `repair` | 2 objects that overlap, 3 envelopes, 6 instants, a clock that is 1 ahead, 2 subscriptions, a fault of any kind | requests cover the lag up to the cycle's time; a request is acknowledged after its frames unless the connection is lost in between; the supervisor waits for its handlers; the snapshot catches up |

The bounds. Two competitors are enough for every race between a holder and another
client; in `lease` the third grant lets a lease come back to a client that lost it, and
two failed calls let one be late while another is retried. The loop's two tokens for a
worker let a session be replaced while its predecessor is ending. Three envelopes allow
one to come between two others, late or again; a deduper, an outbox, a queue and a segment
of one or two entries reach their limits with them. The widths 1, 2 and 4 nest as minutes,
hours and days do, and the windows cross the boundaries of each; in `rebuild` the times 0,
1 and 3 with the carry limit 2 make windows that the limit cuts short and others that it
does not. A second session lets the
workers left by the first go on beside its own. The outbox of three cannot take the four
entries of two records, and an age of one tick lets entries expire while others are sent.
In `repair` the longest window is shorter than the coverage, so that it is clamped, and
requests of one bucket of message ids have different windows; the newest object has the
smallest key, and is stamped ahead of the detector's clock. The fault budgets are shared
by crashes, failed calls, lost answers and acks, and premature redeliveries, so any of
them, and where the budget is two any pair, is tried. In `Archive` the refusal of a full
outbox counts as a failure, so it happens a bounded number of times.

Where a property holds only under a condition, a history variable says so instead of a
smaller instance: `raced` in `Projection` (a worker overwrote a snapshot it had not
read), `crashed` and `lost` in `Rollup`, `late` in `RollupRebuild`, the failure counters
and `overwritten` in `CrashesLoseNothing`, `run` in `ManifestMatchesObject` and
`ObjectsAreFinal`, `whole` in `AckedIsReplayed` (no connection was lost between the replay
and the ack), `lapses` in `AtMostOneLive` (a lease call that failed for good,
or a lease that expired although it was renewed: with one of them two sessions can run,
and the fence is what tells them apart), `abandoned` in `StreamInOrder` (`Close` left a
worker behind), `drift` in `OutboxWithinBounds` (a file put in place by an enqueue whose
directory sync then failed, which the code does not count).

Fairness. A goroutine of a live process goes on, a server call is answered or fails, the
consumer keeps delivering and redelivering, tickers fire, an abandoned lease expires,
systemd restarts a collector that crashed, not one that was stopped. Strong fairness
stands for two things only: a `select` with timer and context ready does not choose the
timer for ever, and a message that is queued again and again is at last delivered to a
worker. Nothing is assumed of the publish workers of a session, which may hang on NATS,
nor of `DrainTimeout`. No ingest worker has to come back after a crash, and nothing makes
a fault or a user's change happen. Runs with `CHECK_DEADLOCK FALSE` are over finite sets
of envelopes, samples, sessions or records and end when these are used up; the loop never
stops, so there deadlock is checked.

## What is proved

Every theorem holds for any sets of workers, tokens, envelopes or records and any bounds
that satisfy the named assumptions of the modules (bounds are naturals, the value that
stands for nothing is not an element, and the like). Each proof has one step per action.

* `IngestLeaseProofs`. `LeaseTypeCorrect`, `LeaseImplementsFencedLock`,
  `FencesAreDistinct`, `OwnerIsNewest`, `StaleClientsAreHarmless`,
  `LeaseImplementsLeaseClient`. The fencing properties are not inductive for the lease,
  since a renewal tells its client the fence of the hash, whatever that is. The argument
  therefore goes through the lock: there `LockInv` (grants distinct, the holder's the
  newest, none beyond the counter) is inductive in a few lines. For the lease,
  `FenceIsCurrent` (the hash has the counter's value) is inductive script by script and
  makes a renewal's answer a `Learn` step of the lock; the refinement follows action by
  action, and the lease inherits `LockInv`. The refinement of `LeaseClient`, the interface
  the loop is composed with, needs `DrainingIsCancelled`: a lease is given back by a
  cancelled client only.
* `IngestLoopProofs`. `SessionsAreRegistered`, and `SessionsAreExclusive` while no lease
  lapsed. `LoopInv` adds that a worker draws tokens of its own only, and that, unless
  something lapsed, a heartbeat or session that is not cancelled has the lease; with one
  holder, one session remains.
* `SessionProofs`. `CloseIsQuiet`: the strengthening, `Protocol`, follows the refresh
  goroutine from its start to its join, before which the queue cannot be closed.
  `DrainIsGraceful`: every accepted envelope is queued, in a worker's hand or settled
  (`Kept`), a worker leaves an empty closed queue (`LeftEmpty`), and so after the last
  worker has left all are settled (`DrainedSettled`). `SessionIsBounded` has the bounds of
  queue and retries. `StreamStaysInOrder`: with one worker what is stored, in the worker's
  hand, queued and about to be queued is in one order (`Flow`), also when the broker
  sends the last message of a connection again on the next; the publishers of earlier
  sessions are done, unless `Close` left a worker behind (`OthersGone`).
* `ArchiveProofs`. `ArchiveIsBounded`: types, and the limits of deduper and outbox
  directory. `ManifestsMatch` and `ObjectsStay`, for new and fixed writer ids: they rest
  on `KeysAreFresh` (the open segment's key is new to the present incarnation of its
  process, and key and incarnation stand for one body), `OutboxInOrder` (what waits in the
  outbox is not older than the object under its key) and `ObjectFirst` (a row only after
  its object). `NothingIsLost` adds what is true of an acknowledged envelope at
  every step of a flush: rows before acks, what the deduper remembers is buffered, stored
  or overwritten, and only a timeout makes the consumer deliver what a worker still
  buffers.
* `ProjectionProofs`. `MetricsStayTruthful`, `SnapshotsAdvance`, `EnvelopesApplyOnce`.
  The invariant speaks of the snapshots workers hold in memory too: each is sound (its
  metrics were reported by applied envelopes at their times), its holder's envelope is not
  stale for it, and until `raced` the stored one is that of a newest applied envelope.
  `OneWorkerNeverRaces` shows what `raced` takes: with a single worker (`OneWorker`) a
  handler's snapshot is the stored one until its SET (`Fresh`), whatever crashes, fails or
  is redelivered. So there the sequence number is monotonic without exception
  (`OneWorkerIsMonotonic`), as `read_model.go` says.
* `RollupProofs`. `EnvelopesCountOnce`: rows count exactly the claims, and a worker in a
  transaction has an unclaimed envelope that no other transaction has. The others are
  about energy, for any widths that nest (`WidthsNest`: a width is a multiple of every
  smaller one, as the day is of the hour and the hour of the minute). Neither a sum over a
  finite set nor the recursion of `IntegratePowerWindow` can be unfolded by the provers,
  and the library's induction theorems cannot be used. Instead a closed form is shown to
  satisfy the recursive equation and every solution to equal it, by a smallest
  counterexample (`SumIs`, `WindowIs`). It follows that a sample adds to a bucket the power
  known before it for each unit of its window in the bucket (`EnergyIs`), and that upserts
  and aggregator both do that (`SampleIs`). Then: `WidthsStayConsistent`, since the finer
  buckets within a bucket tile it (`TiledSum`); `RebuildMatchesLive`, since each of the
  two tables has exactly its envelopes (`TableOK`, the rebuilt one those that are not
  merged), and the two integration states are the same until a sample is late or an
  envelope merged (`RebuildInv`); `EnergyStaysBounded` and `EnergyIsCountedOnce` from
  `Fits`, which is the strengthening: the energy of a bucket is at most a reported power
  times the units of the bucket *before the last envelope* that lie within the carry limit
  after a report (`Earned`), so that the next window starts where it ends; and the power
  in memory is one reported at its time (`Known`), so that the window is within the limit
  too. In
  `Rollup` it is tied to the one worker that remembers anything (`OneMemory`).
  `OneWorkerAddsNoEnergy` delimits the run `rollup_crash`: with a single worker that has
  not died and has learnt of every commit, what that run refutes is true.
* `EdgeCollectorProofs`. `SecretsStayValid` from the state of an enrolled row, and
  `QueuedStaysKept`. There the invariant is that a file is as young as the last enqueue
  of its entry, and that whoever is about to remove a file it read has had that entry
  acknowledged. `OutboxStaysWithinBounds`: what enqueue, prune and removal do to the size
  of the directory, they do to `usedBytes`, but for failed syncs. `EdgeIsTyped`:
  tail and heartbeat are inside a flush only while they hold `flushMu`.
* `GapRepairProofs`. `PlanCoversTheLag`: the arithmetic of `planRepair`, with padding,
  clamping and the bounds of the coverage, keeps every envelope newer than the cursor in
  the window, up to the time of the cycle and as far back as the longest window reaches;
  `RequestsCover` says so of every request of a running detector, whose coverage may be
  ahead of its clock.
  `AcksAreEarned`: `AcksFollow`, of every acknowledgement in a handler's hand or on the
  connection with no loss since its replay, says that the frames it stands for were sent or
  come before it; `Frames`
  misses none, because the places of a finite set's frames are a permutation.
  `DrainsWaitForHandlers` is `DrainedIsIdle`: the supervisor believes in idleness only
  when no handler is counted.

So every invariant, action property and refinement that a passing run checks is also
proved. Only model-checked is liveness, which the prover does not handle:
`CancelledGivesUp`, `LostHeartbeatStopsSession`, `Converges`, `Settles`, `NewestWins`,
`AllCounted`, `NeverWedged`, `Replayed`, `Repaired`.

## Where code and documents disagree

Three runs end with a counterexample to a sentence of the repository (quoted in
`PROJECT.json`):

* `loop_disable`: the quota refresh writes back the desired state of the time the session
  was started. After a user's deactivation it can switch the device on again, and the
  session is not drained (`session_runner.go`).
* `archive_nak`: the dedup key is remembered before the segment is stored. When the store
  fails and the messages are nak'd, their redelivery counts as a duplicate and is
  acknowledged; the envelope is archived nowhere (`worker.go`).
* `rollup_crash`: after a restart a redelivered, already counted envelope sets the empty
  integration state to its own time, and the next one adds energy a second time
  (`store_postgres.go`).

The conditions of the passing properties mark further limits that the models show:

* a context cancelled during a renewal ends the heartbeat without a release
  (`manager.go`); `CancelledGivesUp` therefore speaks of release or expiry;
* a session told to stop may still be connected when the next one starts (`loop.go`);
  `AtMostOneLive` counts sessions not told to stop;
* a worker that `Close` leaves behind may publish after its session, beside the next one;
  a failed publish is only offered to the errors channel, which drops it when it is full
  (`async_publish.go`); `GracefulDrain` counts it as settled;
* when the answer to an enrollment is lost the token is spent, and the owner has to
  create another collector (`store_postgres_edge.go`);
* a duplicate of a buffered message is acknowledged before the segment is stored, and a
  crash then loses it (`worker.go`); see `CrashesLoseNothing`;
* with a configured writer id, or in a container restarted in its pod, the part numbers of
  a restarted archive worker start again under the old id (`worker.go`), and a segment of
  the same hour replaces an object whose envelopes were acknowledged. The Pi appliance
  ships this way (`create-runtime-secret.sh` sets `ARCHIVE_WRITER_ID`); a crash is all it
  takes. `ObjectsAreFinal` and `ManifestMatchesObject` say that nobody else replaces an
  object and that a row is never newer than its object, `CrashesLoseNothing` that nothing
  but the replaced object is lost. While the old entry still waits in the outbox the new
  one is refused, and its messages come back;
* with two workers the sequence number of a snapshot, "monotonic per projected device
  stream" in `read_model.go`, can go back when one overwrites what it has not read;
* for late samples the rebuild computes other energies than the live worker
  (`aggregator.go`); `RebuildEqualsLive` requires equal energies only without them;
* the rebuild merges envelopes that the live worker has counted one by one, those of one
  device, time, source and kind of payload or of one message id (`runner.go`; its tests
  want it so), and the last of them decides even when it has no metrics: rebuilt rows can
  count less than the live rows they replace;
* frames are published without an acknowledgement, so a connection lost after the replay
  can lose them while the request's ack arrives (`replaycli/publisher_nats.go`); the next
  cycle of the detector makes up for it (`Repaired`);
* a collector that ended with an authentication error or a signal stays down, with what
  is in its outbox, until somebody starts it (`Restart=on-failure`,
  `RestartPreventExitStatus=10` in its unit file);
* gap repair looks only at the lag of the cursor: envelopes missing below it, coverage of
  a single instant, and what is older than the longest window are never asked for
  (`detector.go`), while `docs/architecture/config-04-data-retention-replay.md:47` says
  "detect holes"; `RequestsCoverTheLag` and `Repaired` speak of the lag alone;
* the coverage of an object counts the envelopes of all its devices, so a device can seem
  to lag for ever and be replayed in every cycle;
* objects are replayed in the order of their keys, so older frames can follow newer ones
  and are stale for the projection; replayed frames are archived once more;
* a handler entered after the unsubscribe is not waited for, and can overlap with those
  of the next subscription; `DrainedIsIdle` speaks of counted handlers.

## Not modelled

* Session: vendor protocols (a connect works or fails, a message is accepted or ignored),
  lengths of back-offs, alert trackers.
* Edge: rejection, listing and deletion of sources; the names of quarantined files and
  the temporary files a crash leaves, which `usedBytes` does not count.
* Archive: outbox files damaged on disk, at which every `Flush` would end; alerts.
* Projection: the expiry of metrics on the read side.
* Rollups: averages, minima and maxima (the average is weighted with all samples of the
  row, those without the metric included) and PV port tables, none of which the worker
  reads back; the order of row locks, where an aborted transaction is a failed commit.
* Rebuild: reading the archive and writing the rows, a batch without concurrency; a
  rebuild with missing objects, which replaces nothing.
* Gap repair: the order and the limit of a cycle's jobs (one device is modelled), the dry
  run, the object limit, which is off by default, and the refusal of malformed requests.
* Realtime gateway: the handover from a snapshot to the deltas after it.

The other parts are listed in `PROJECT.json` with the reason for each: parsing of vendor
formats, forecasts and inference are data or numerics without control state; query
services and the API's handlers are single statements over the stores; scheduler and
migrations rely on one transaction or one advisory lock of the database; cache and
weather client hold nothing that is not fetched again; the rest is generated code, user
interfaces and development tools. These are most of the repository's lines, which is why
the map covers the smaller part of them.
