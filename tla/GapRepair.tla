------------------------------- MODULE GapRepair ------------------------------
(***************************************************************************)
(* Gap repair (internal/gaprepair, internal/replaycli): a detector compares *)
(* what the archive has of a device with the cursor of its live snapshot   *)
(* and asks for the missing window through a work queue; a supervised      *)
(* worker replays the archived envelopes of the window into ingest, from   *)
(* where the projection gets them once more.                               *)
(*                                                                         *)
(* Projection and archive are reduced to what gap repair sees of them: the *)
(* cursor and the objects in the manifest.  One device is modelled.        *)
(***************************************************************************)
EXTENDS ConsumerSupervisor, Sequences, FiniteSetsExt, Functions

CONSTANTS Objects,          \* the archive's objects in the order of their keys, with the
                            \* times of the device's envelopes and those of all envelopes
          LastTime,         \* bound on the clock
          Skew,             \* how far the clock that stamps envelopes is ahead of the detector's
          SafeDelay, Lookback, LagThreshold, WindowPadding, MaxReplayWindow, MsgIDBucket,
          MaxFaults         \* bound on failures, losses, crashes and stops

ASSUME ObjectsAssumption == Objects \in Seq([recs : Seq(Nat), min : Nat, max : Nat])

ASSUME RepairAssumption ==
    /\ \A i \in DOMAIN Objects :
         LET o == Objects[i] IN
         /\ o.min \in Nat \ {0} /\ o.max \in o.min..(LastTime + Skew)
         /\ Range(o.recs) # {} /\ Range(o.recs) \subseteq o.min..o.max
    /\ Skew \in Int
    /\ {LastTime, SafeDelay, Lookback, LagThreshold, WindowPadding, MaxFaults} \subseteq Nat
    /\ {MaxReplayWindow, MsgIDBucket} \subseteq Nat \ {0}

VARIABLES
    now,        \* the detector's clock
    ingest,     \* times of the envelopes on their way to the projection
    cursor,     \* cursor of the live snapshot, 0 without one
    archived,   \* the objects in the manifest
    detector,   \* what the detector's cycle has found out
    queued,     \* requests the consumer has to deliver
    delivered,  \* requests delivered and not answered
    seen,       \* message ids within the stream's duplicate window
    job,        \* the request each handler works on
    wire,       \* what the worker's connection has yet to send
    sent,       \* history: times of the frames that reached ingest since the worker was idle
    faults

worldVars == <<now, ingest, cursor, archived>>
queueVars == <<queued, delivered, seen>>
repairVars == <<supervisorVars, worldVars, detector, queueVars, job, wire, sent, faults>>

NoJob == [step |-> "none"]
\* `whole': history, no connection was lost since the replay.
Job(step, r, objs) == [step |-> step, req |-> r, objs |-> objs, whole |-> TRUE]
Resting == [step |-> "rest"]

\* The projection comes up at some time, without a snapshot.
RepairInit ==
    /\ SupervisorInit
    /\ now \in 0..LastTime /\ ingest = {} /\ cursor = 0 /\ archived = {}
    /\ detector = Resting
    /\ queued = {} /\ delivered = {} /\ seen = {}
    /\ job = [s \in Subs |-> NoJob] /\ wire = << >>
    /\ sent = {}
    /\ faults = 0

Fails == faults < MaxFaults /\ faults' = faults + 1

Times(i) == Range(Objects[i].recs)

------------------------------------------------------------------------------
(* Ingest, projection and archive.                                         *)

\* The device's envelopes of the next instant are ingested; they are stamped by the ingest
\* workers' hosts.
Tick ==
    /\ now < LastTime /\ now' = now + 1
    /\ ingest' = ingest \cup ({now' + Skew} \cap UNION {Times(i) : i \in DOMAIN Objects})
    /\ UNCHANGED <<supervisorVars, cursor, archived, detector, queueVars, job, wire,
                   sent, faults>>

\* The projection applies an envelope unless it has a newer one, or never gets it: its
\* durable was recreated with DeliverNew.
Project(t) ==
    /\ t \in ingest /\ ingest' = ingest \ {t}
    /\ \/ cursor' = Max({cursor, t}) /\ UNCHANGED faults
       \/ Fails /\ UNCHANGED cursor
    /\ UNCHANGED <<supervisorVars, now, archived, detector, queueVars, job, wire, sent>>

\* The snapshot is lost.
Forget ==
    /\ cursor # 0 /\ cursor' = 0 /\ Fails
    /\ UNCHANGED <<supervisorVars, now, ingest, archived, detector, queueVars, job, wire,
                   sent>>

\* A segment whose envelopes have all been ingested is uploaded and entered in the manifest,
\* at any time after that.
Archive(i) ==
    /\ i \notin archived /\ Objects[i].max <= now + Skew
    /\ archived' = archived \cup {i}
    /\ UNCHANGED <<supervisorVars, now, ingest, cursor, detector, queueVars, job, wire,
                   sent, faults>>

------------------------------------------------------------------------------
(* Detector.DetectAndEnqueue.                                              *)

Overlaps(i, from, to) == Objects[i].max >= from /\ Objects[i].min <= to

\* The objects CoverageByProviderDevices finds at time t, those of the lookback window.
Covered(objs, t) ==
    LET to == IF SafeDelay < t THEN t - SafeDelay ELSE t
        from == IF Lookback < to THEN to - Lookback ELSE 1
    IN {i \in objs : Overlaps(i, from, to)}

CoverageMin(objs) == Min({Objects[i].min : i \in objs})
CoverageMax(objs) == Max({Objects[i].max : i \in objs})

\* The cycle reads the clock, before it lists the assignments.
BeginCycle ==
    /\ detector = Resting
    /\ detector' = [step |-> "load", at |-> now]
    /\ UNCHANGED <<supervisorVars, worldVars, queueVars, job, wire, sent, faults>>

\* The coverage of the window before that time is read, as the archive has it by now; an
\* error, there or in listing the assignments, ends the cycle.
LoadCoverage ==
    /\ detector.step = "load"
    /\ LET objs == Covered(archived, detector.at) IN
       \/ /\ detector' = IF objs = {} THEN Resting
                         ELSE [step |-> "evaluate", at |-> detector.at, objs |-> objs]
          /\ UNCHANGED faults
       \/ detector' = Resting /\ Fails
    /\ UNCHANGED <<supervisorVars, worldVars, queueVars, job, wire, sent>>

\* Where the window begins: at the cursor and some padding before it.
PlanFrom(objs, cur) ==
    LET padded == IF WindowPadding < cur THEN cur - WindowPadding ELSE 0
    IN IF cur = 0 THEN CoverageMin(objs) ELSE Max({padded, CoverageMin(objs)})

\* Mutant: too long a window loses its end.
ClampedAtEnd(from, to, objs) ==
    [from |-> from, to |-> Min({to, from + MaxReplayWindow})]

\* Too long a window loses its beginning.
Clamped(from, to, objs) ==
    [from |-> IF to > from + MaxReplayWindow
              THEN Max({to - MaxReplayWindow, CoverageMin(objs)}) ELSE from,
     to |-> to]

\* The window planRepair asks for; without a lag, or when coverage is a single instant,
\* there is none.
PlanRepair(objs, cur, t) ==
    LET to == Min({CoverageMax(objs), t})
        from == PlanFrom(objs, cur)
    IN IF \/ cur > 0 /\ CoverageMax(objs) <= cur + LagThreshold
          \/ to <= from
       THEN {} ELSE {Clamped(from, to, objs)}

\* The snapshot is read, after the coverage; an error skips the device.  Coverage may be
\* newer than the time the cycle began, and the window ends at that time then.
Evaluate ==
    /\ detector.step = "evaluate"
    /\ \/ \E r \in PlanRepair(detector.objs, cursor, detector.at) :
             detector' = [step |-> "publish", req |-> r] /\ UNCHANGED faults
       \/ /\ PlanRepair(detector.objs, cursor, detector.at) = {}
          /\ detector' = Resting /\ UNCHANGED faults
       \/ detector' = Resting /\ Fails
    /\ UNCHANGED <<supervisorVars, worldVars, queueVars, job, wire, sent>>

MsgID(r) == <<r.from \div MsgIDBucket, r.to \div MsgIDBucket>>

\* The stream stores a request unless it has seen its id, and the same window is not
\* queued twice.  Nobody acts on the answer.  A publish may fail with nothing stored.
PublishGapRepair ==
    /\ detector.step = "publish"
    /\ detector' = Resting
    /\ LET r == detector.req IN
       \/ /\ seen' = seen \cup {MsgID(r)}
          /\ queued' = IF MsgID(r) \in seen \/ r \in delivered THEN queued ELSE queued \cup {r}
          /\ UNCHANGED faults
       \/ Fails /\ UNCHANGED <<queued, seen>>
    /\ UNCHANGED <<supervisorVars, worldVars, delivered, job, wire, sent>>

DuplicateWindowPasses(id) ==
    /\ id \in seen /\ seen' = seen \ {id}
    /\ UNCHANGED <<supervisorVars, worldVars, detector, queued, delivered, job, wire,
                   sent, faults>>

Detect == BeginCycle \/ LoadCoverage \/ Evaluate \/ PublishGapRepair

------------------------------------------------------------------------------
(* Worker.handleDelivery under the supervisor.                             *)

SetJob(s, j) == job' = [job EXCEPT ![s] = j]

\* Whatever the durable had delivered comes again from its successor.
Requeue ==
    IF consumer /\ ~consumer'
    THEN queued' = queued \cup delivered /\ delivered' = {}
    ELSE UNCHANGED <<queued, delivered>>

TakeRequest(s, r) ==
    /\ Take(s)
    /\ r \in queued /\ queued' = queued \ {r} /\ delivered' = delivered \cup {r}
    /\ SetJob(s, Job("replay", r, {}))
    /\ UNCHANGED <<worldVars, detector, seen, wire, sent, faults>>

EnterHandler(s) ==
    /\ Enter(s)
    /\ UNCHANGED <<worldVars, detector, queueVars, job, wire, sent, faults>>

InWindow(t, r) == r.from <= t /\ t <= r.to

\* The device's frames ReplayDevices publishes for a request, each as an object and a place
\* in it.  ListByDevices need not be told which objects overlap the window: no other has a
\* frame in it.  There is no limit on their number (MaxObjects is 0 by default).
FrameTime(f) == Objects[f[1]].recs[f[2]]
FramesOf(objs) == UNION {{i} \X DOMAIN Objects[i].recs : i \in objs}
FrameSet(r, objs) == {f \in FramesOf(objs) : InWindow(FrameTime(f), r)}

\* They are published object after object: a frame has its place after those before it.
Before(f, g) == f[1] < g[1] \/ (f[1] = g[1] /\ f[2] < g[2])
Place(f, S) == Cardinality({g \in S : Before(g, f)}) + 1
Frames(r, objs) ==
    LET S == FrameSet(r, objs)
    IN [n \in 1..Cardinality(S) |-> CHOOSE f \in S : Place(f, S) = n]

\* The first k of them on their way to ingest.
FrameMsgs(frames, k) == [n \in 1..k |-> [kind |-> "frame", time |-> FrameTime(frames[n])]]

\* Mutant: an error in the middle of the replay is not reported.
ReplayDevicesSilently(s) ==
    LET r == job[s].req
        frames == Frames(r, archived)
    IN
    /\ callback[s] = "counted" /\ job[s].step = "replay"
    /\ \E k \in 0..Len(frames) :
          /\ wire' = wire \o FrameMsgs(frames, k)
          /\ IF k = Len(frames) THEN UNCHANGED faults ELSE Fails
          /\ SetJob(s, Job("ack", r, archived))
    /\ UNCHANGED <<supervisorVars, worldVars, detector, queueVars, sent>>

\* ReplayDevices: the manifest is queried and the frames handed to the connection one
\* after the other.  An unreadable object, a failed query or publish, or ProcessTimeout
\* ends it early.
ReplayDevices(s) ==
    LET r == job[s].req
        frames == Frames(r, archived)
    IN
    /\ callback[s] = "counted" /\ job[s].step = "replay"
    /\ \E k \in 0..Len(frames) :
          /\ wire' = wire \o FrameMsgs(frames, k)
          /\ \/ k = Len(frames) /\ SetJob(s, Job("ack", r, archived)) /\ UNCHANGED faults
             \/ Fails /\ SetJob(s, Job("nak", r, archived))
    /\ UNCHANGED <<supervisorVars, worldVars, detector, queueVars, sent>>

\* The request is acknowledged, or nak'd, on the connection of the frames.
Answer(s) ==
    /\ job[s].step \in {"ack", "nak"}
    /\ Leaves(s)
    /\ wire' = Append(wire, [kind |-> job[s].step, req |-> job[s].req, objs |-> job[s].objs,
                             whole |-> job[s].whole])
    /\ SetJob(s, NoJob)
    /\ UNCHANGED <<worldVars, detector, queueVars, sent, faults>>

Handle(s) == EnterHandler(s) \/ ReplayDevices(s) \/ Answer(s)

Requests == queued \cup delivered

\* What was sent since the worker was idle, once it is left with these messages.
SentSince(times, left) ==
    IF left = << >> /\ \A s \in Subs : job[s] = NoJob THEN {} ELSE times

\* What the connection sends arrives in order.  An answer to a durable that is gone has no
\* effect, and an ack may have none once the request is to be delivered again.
Transmit ==
    /\ wire # << >> /\ wire' = Tail(wire)
    /\ LET m == Head(wire) IN
       \/ /\ m.kind = "frame"
          /\ ingest' = ingest \cup {m.time} /\ sent' = sent \cup {m.time}
          /\ UNCHANGED <<queued, delivered>>
       \/ /\ m.kind = "ack" /\ m.req \in Requests /\ consumer
          /\ delivered' = delivered \ {m.req} /\ queued' = queued \ {m.req}
          /\ sent' = SentSince(sent, wire') /\ UNCHANGED ingest
       \/ /\ m.kind = "nak" /\ m.req \in delivered
          /\ delivered' = delivered \ {m.req} /\ queued' = queued \cup {m.req}
          /\ sent' = SentSince(sent, wire') /\ UNCHANGED ingest
       \/ /\ m.kind # "frame" /\ m.req \notin delivered
          /\ sent' = SentSince(sent, wire') /\ UNCHANGED <<ingest, queued, delivered>>
    /\ UNCHANGED <<supervisorVars, now, cursor, archived, detector, seen, job, faults>>

InHand(r) ==
    \/ \E s \in Subs : job[s] # NoJob /\ job[s].req = r
    \/ \E n \in DOMAIN wire : wire[n].kind # "frame" /\ wire[n].req = r

\* AckWait passes for a request nobody answers any more, or for one in hand.
AckWaitPasses(r) ==
    /\ r \in delivered
    /\ IF InHand(r) THEN Fails ELSE UNCHANGED faults
    /\ delivered' = delivered \ {r} /\ queued' = queued \cup {r}
    /\ UNCHANGED <<supervisorVars, worldVars, detector, seen, job, wire, sent>>

SuperviseWorker ==
    /\ Supervise /\ Requeue
    /\ UNCHANGED <<worldVars, detector, seen, job, wire, sent, faults>>

\* What goes wrong around the supervisor, and the request to stop.
Disturb ==
    /\ Break \/ DrainTimesOut \/ Cancel
    /\ Fails /\ Requeue
    /\ UNCHANGED <<worldVars, detector, seen, job, wire, sent>>

Torn(m) == IF m.kind = "frame" THEN m ELSE [m EXCEPT !.whole = FALSE]

\* The connection is lost, and with it what was written and not received.  The client
\* reconnects and sends what it still holds: an ack may arrive that was written after
\* frames which did not.
Disconnect ==
    /\ wire # << >> /\ Fails
    /\ \E k \in 1..Len(wire) : wire' = [n \in 1..(Len(wire) - k) |-> Torn(wire[n + k])]
    /\ job' = [s \in Subs |-> IF job[s].step \in {"ack", "nak"}
                              THEN [job[s] EXCEPT !.whole = FALSE] ELSE job[s]]
    /\ sent' = SentSince(sent, wire')
    /\ UNCHANGED <<supervisorVars, worldVars, detector, queueVars>>

\* The process is replaced: it returned and flushed its connection, or it died.
Replace ==
    /\ Restart
    /\ \/ sup = "returned" /\ wire = << >> /\ UNCHANGED faults
       \/ Fails
    /\ wire' = << >> /\ job' = [s \in Subs |-> NoJob] /\ sent' = {}
    /\ UNCHANGED <<worldVars, detector, queueVars>>

------------------------------------------------------------------------------
RepairNext ==
    \/ Tick \/ Forget \/ Detect \/ Transmit \/ SuperviseWorker \/ Disturb \/ Disconnect \/ Replace
    \/ \E t \in ingest : Project(t)
    \/ \E i \in DOMAIN Objects : Archive(i)
    \/ \E id \in seen : DuplicateWindowPasses(id)
    \/ \E r \in delivered : AckWaitPasses(r)
    \/ \E s \in Subs : (\E r \in queued : TakeRequest(s, r)) \/ Handle(s)

RepairSpec == RepairInit /\ [][RepairNext]_repairVars

\* The clock runs and the projection goes on, the detector polls, the worker process and
\* its connection do not stand still, and the server delivers and forgets message ids.
\* Nothing is assumed of DrainTimeout.
RepairFairness ==
    /\ WF_repairVars(Tick)
    /\ WF_repairVars(\E t \in ingest : Project(t))
    /\ WF_repairVars(Detect)
    /\ WF_repairVars(\/ Transmit \/ SuperviseWorker \/ (sup = "returned" /\ Replace)
                     \/ \E s \in Subs : Handle(s))
    /\ WF_repairVars(\E id \in seen : DuplicateWindowPasses(id))
    /\ WF_repairVars(\E r \in delivered : AckWaitPasses(r))
    /\ SF_repairVars(\E s \in Subs, r \in queued : TakeRequest(s, r))

RepairFairSpec == RepairSpec /\ RepairFairness

------------------------------------------------------------------------------
(* Properties.                                                             *)

\* A request is a window of some length within the bound, and asks for every envelope of
\* the objects covered that the snapshot lacks, except those before the bound and those
\* stamped after the cycle began (planRepair cuts the window there): they are left to a
\* later cycle, which Repaired is about.
RequestsCoverTheLag ==
    [][detector.step = "evaluate" /\ detector'.step = "publish" =>
         LET r == detector'.req
             newest == Min({CoverageMax(detector.objs), detector.at})
         IN
         /\ r.from < r.to /\ r.to - r.from <= MaxReplayWindow
         /\ \A i \in detector.objs : \A t \in Times(i) :
               t > cursor /\ t <= detector.at /\ t >= newest - MaxReplayWindow
                  => r.from <= t /\ t <= r.to]_repairVars

\* A request leaves the queue only after all the envelopes that were archived in its
\* window have been replayed and have reached ingest, as long as the connection holds from
\* the replay to the ack: a replay that failed half-way is not acknowledged, and the ack
\* cannot overtake the frames.  (Publishes are not acknowledged: a lost connection can lose
\* frames and keep the ack.  Only the detector's next cycle makes up for them; Repaired is
\* about that.)
AckedIsReplayed ==
    [][\A r \in Requests \ Requests' :
         Head(wire).whole =>
            \A i \in Head(wire).objs : \A t \in Times(i) :
               r.from <= t /\ t <= r.to => t \in sent]_repairVars

\* Before DrainTimeout the supervisor goes on only when no handler is counted, whatever
\* tokens earlier handlers have left in the tracker.
DrainedIsIdle ==
    [][Active # {} /\ sup \in {"check", "wait"} /\ sup' = "subscribe"
          => faults' > faults]_repairVars

\* In the end the snapshot has caught up, to the lag threshold, with what the archive has
\* of the lookback window up to the present: through lost requests, dropped duplicates,
\* frames lost with their connection, coverage newer than the cycle, broken durables and
\* replaced workers.  Coverage of a single instant is never repaired, nor is what lies
\* before the longest window.
Repaired ==
    <>[](LET objs == Covered(archived, now)
             newest == Min({CoverageMax(objs), now})
         IN \/ objs = {} \/ newest <= CoverageMin(objs)
            \/ \A i \in objs : \A t \in Times(i) :
                  \/ t > now \/ t < newest - MaxReplayWindow
                  \/ cursor > 0 /\ t <= cursor + LagThreshold)
==============================================================================
