----------------------------- MODULE Projection ------------------------------
(***************************************************************************)
(* The projection worker (internal/projectionworker): every envelope of a  *)
(* device is merged into the live snapshot kept under one Valkey key, with *)
(* a cursor sequence number counted under another.                         *)
(*                                                                         *)
(* ApplyEnvelope is three calls to Valkey (GET, INCR, SET) with nothing to *)
(* keep another member of the queue group from coming in between.  Devices *)
(* have keys of their own, so one device is modelled.                      *)
(***************************************************************************)
EXTENDS JetStream, Integers, FiniteSets

CONSTANTS Workers,
          Metrics,      \* names of numeric metrics
          Time,         \* the ingest time of each envelope
          Value,        \* the metrics of each envelope, a function on some of Metrics
          NoMessage,
          MaxFaults     \* bound on crashes, failed Valkey calls, lost acks, and redeliveries
                        \* of a message a worker is busy with

ASSUME ProjectionAssumption ==
    /\ NoMessage \notin Messages
    /\ Time \in [Messages -> Nat \ {0}]
    /\ \A m \in Messages : DOMAIN Value[m] \subseteq Metrics
    /\ MaxFaults \in Nat

VARIABLES
    snapshot,   \* the snapshot key
    seqKey,     \* the sequence key
    job,        \* what each worker's message handler is doing
    applied,    \* history: the envelopes a snapshot was written for
    raced,      \* history: a snapshot was overwritten that had not been read
    faults      \* how many there have been

projectionVars == <<stream, snapshot, seqKey, job, applied, raced, faults>>

\* A missing snapshot: no envelope has its id, and no time is older than its cursor.
NoSnapshot == [seq |-> 0, ts |-> 0, env |-> NoMessage, metrics |-> << >>]
Idle == [step |-> "idle"]
Job(step, m, existing, seq) == [step |-> step, msg |-> m, existing |-> existing, seq |-> seq]

ProjectionInit ==
    /\ StreamInit
    /\ snapshot = NoSnapshot
    /\ seqKey = 0
    /\ job = [w \in Workers |-> Idle]
    /\ applied = {} /\ raced = FALSE
    /\ faults = 0

Fails == faults < MaxFaults /\ faults' = faults + 1

SetJob(w, j) == job' = [job EXCEPT ![w] = j]

\* handleMessage naks when ApplyEnvelope returns an error.
GivesUp(w) ==
    /\ Fails
    /\ SetJob(w, Idle)
    /\ Nak({job[w].msg})

------------------------------------------------------------------------------
(* ApplyEnvelope.                                                          *)

\* Mutant: only the envelope id is compared.
IsStaleById(s, m) == s.env = m

\* The snapshot has the envelope already, or a newer one.
IsStale(s, m) == s.env = m \/ s.ts > Time[m]

\* Mutant: a metric that changes keeps the time of its first report.
ChangedAtFirst(old, k, m) == IF k \in DOMAIN old THEN old[k].changed ELSE Time[m]

\* A metric that is new or has another value changed with this envelope.
ChangedAt(old, k, m) ==
    IF k \in DOMAIN old /\ old[k].value = Value[m][k] THEN old[k].changed ELSE Time[m]

\* Metrics the envelope does not carry stay as they are.
Merge(old, m) ==
    [k \in DOMAIN old \cup DOMAIN Value[m] |->
        IF k \in DOMAIN Value[m]
        THEN [value |-> Value[m][k], observed |-> Time[m], changed |-> ChangedAt(old, k, m)]
        ELSE old[k]]

\* A message is delivered and the snapshot read.
Read(w, m) ==
    /\ job[w] = Idle
    /\ \/ /\ Deliver(m)
          /\ SetJob(w, Job(IF IsStale(snapshot, m) THEN "ack" ELSE "incr", m, snapshot, 0))
          /\ UNCHANGED faults
       \/ stream[m] = "queued" /\ Fails /\ UNCHANGED <<stream, job>>
    /\ UNCHANGED <<snapshot, seqKey, applied, raced>>

\* INCR.  Its answer may be an error although the counter was incremented.
Incr(w) ==
    /\ job[w].step = "incr"
    /\ \/ /\ seqKey' = seqKey + 1
          /\ SetJob(w, Job("set", job[w].msg, job[w].existing, seqKey'))
          /\ UNCHANGED <<stream, faults>>
       \/ GivesUp(w) /\ seqKey' \in {seqKey, seqKey + 1}
    /\ UNCHANGED <<snapshot, applied, raced>>

\* SET of the snapshot merged from what was read.  Its answer may be an error although
\* the snapshot was written.
Set(w) ==
    LET j == job[w]
        written == /\ snapshot' = [seq |-> j.seq, ts |-> Time[j.msg], env |-> j.msg,
                                   metrics |-> Merge(j.existing.metrics, j.msg)]
                   /\ applied' = applied \cup {j.msg}
                   /\ raced' = (raced \/ snapshot # j.existing)
    IN
    /\ j.step = "set"
    /\ \/ /\ written
          /\ SetJob(w, Job("ack", j.msg, j.existing, j.seq))
          /\ UNCHANGED <<stream, faults>>
       \/ /\ GivesUp(w)
          /\ written \/ UNCHANGED <<snapshot, applied, raced>>
    /\ UNCHANGED <<seqKey>>

\* handleMessage acknowledges; the ack may get lost.
Finish(w) ==
    /\ job[w].step = "ack"
    /\ SetJob(w, Idle)
    /\ \/ Ack({job[w].msg}) /\ UNCHANGED faults
       \/ Fails /\ UNCHANGED stream
    /\ UNCHANGED <<snapshot, seqKey, applied, raced>>

------------------------------------------------------------------------------
Busy(m) == \E w \in Workers : job[w] # Idle /\ job[w].msg = m

\* AckWait passes for a message that nobody works on any more, or, with a slow worker,
\* for one that somebody does.
AckWaitPasses(m) ==
    /\ stream[m] = "delivered"
    /\ IF Busy(m) THEN Fails ELSE UNCHANGED faults
    /\ Nak({m})
    /\ UNCHANGED <<snapshot, seqKey, job, applied, raced>>

\* A worker dies and is restarted.
Crash(w) ==
    /\ Fails
    /\ SetJob(w, Idle)
    /\ UNCHANGED <<stream, snapshot, seqKey, applied, raced>>

Handle(w) == Incr(w) \/ Set(w) \/ Finish(w)

ProjectionNext ==
    \/ \E m \in Messages : AckWaitPasses(m)
    \/ \E w \in Workers : (\E m \in Messages : Read(w, m)) \/ Handle(w) \/ Crash(w)

ProjectionSpec == ProjectionInit /\ [][ProjectionNext]_projectionVars

\* JetStream keeps delivering, and a handler that was called goes on to its end.
ProjectionFairness ==
    /\ \A m \in Messages :
         /\ WF_projectionVars(AckWaitPasses(m))
         /\ SF_projectionVars(\E w \in Workers : Read(w, m))
    /\ \A w \in Workers : WF_projectionVars(Handle(w))

ProjectionFairSpec == ProjectionSpec /\ ProjectionFairness

------------------------------------------------------------------------------
(* Properties.                                                             *)

\* Whatever order the envelopes come in, and whoever reads them, a metric shows a value
\* reported at its observation time and reported, already, at its change time.
MetricsAreTruthful ==
    \A k \in DOMAIN snapshot.metrics :
       LET r == snapshot.metrics[k]
           Reported(t) == \E m \in applied : /\ Time[m] = t /\ k \in DOMAIN Value[m]
                                             /\ Value[m][k] = r.value
       IN r.changed <= r.observed /\ Reported(r.observed) /\ Reported(r.changed)

\* Readers who compare cursors see every change, and no metric is taken back: a snapshot
\* has a larger sequence number, never an older ingest time, and every metric of the one it
\* replaces at no older observation.  This ends when a worker overwrites a snapshot it has
\* not read: then even the sequence number, "monotonic per projected device stream" in
\* read_model.go, may go back.
SnapshotAdvances ==
    [][snapshot' # snapshot /\ ~raced' =>
         /\ snapshot'.seq > snapshot.seq /\ snapshot'.ts >= snapshot.ts
         /\ \A k \in DOMAIN snapshot.metrics :
               /\ k \in DOMAIN snapshot'.metrics
               /\ snapshot'.metrics[k].observed >= snapshot.metrics[k].observed]_projectionVars

\* Redelivered or retried, an envelope takes effect once, also when the answer to its
\* SET was lost: id and ingest time of the snapshot are enough to recognise it, unless
\* another envelope has the same time or a write was lost.
AppliedOnce ==
    [][snapshot' # snapshot /\ ~raced'
          => \/ snapshot'.env \notin applied
             \/ \E m \in Messages \ {snapshot'.env} : Time[m] = snapshot'.ts]_projectionVars

\* In the end everything is acknowledged and the snapshot is that of the newest envelope,
\* unless a write was lost.
NewestWins ==
    <>[](/\ \A m \in Messages : stream[m] = "acked"
         /\ raced \/ \A m \in Messages : snapshot.ts >= Time[m])
==============================================================================
