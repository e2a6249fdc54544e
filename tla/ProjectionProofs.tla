--------------------------- MODULE ProjectionProofs --------------------------
(***************************************************************************)
(* MetricsAreTruthful, SnapshotAdvances and AppliedOnce for any number of  *)
(* workers, envelopes, metrics and faults; and that it takes two workers   *)
(* to overwrite a snapshot that was not read.                              *)
(***************************************************************************)
EXTENDS Projection, TLAPS

\* An envelope of A reported value v of metric k at time t.
Reported(A, k, v, t) ==
    \E m \in A : Time[m] = t /\ k \in DOMAIN Value[m] /\ Value[m][k] = v

\* Every metric of a snapshot was reported, at its observation and at its change time,
\* by envelopes of A; its sequence number is at most n.
Sound(s, n, A) ==
    /\ s.seq \in Nat /\ s.seq <= n /\ s.ts \in Nat
    /\ \A k \in DOMAIN s.metrics :
          /\ s.metrics[k].changed \in Nat /\ s.metrics[k].observed \in Nat
          /\ s.metrics[k].changed <= s.metrics[k].observed
          /\ s.metrics[k].observed <= s.ts
          /\ Reported(A, k, s.metrics[k].value, s.metrics[k].observed)
          /\ Reported(A, k, s.metrics[k].value, s.metrics[k].changed)

\* A handler holds a sound snapshot that its envelope is not stale for, and a sequence
\* number above that snapshot's.
JobOK(j, n, A) ==
    /\ j = Job(j.step, j.msg, j.existing, j.seq) /\ j.step \in {"incr", "set", "ack"}
    /\ j.msg \in Messages /\ Sound(j.existing, n, A)
    /\ j.step # "ack" => ~IsStale(j.existing, j.msg)
    /\ j.step = "set" => j.seq \in Nat /\ j.existing.seq < j.seq /\ j.seq <= n

\* As long as no write was lost the snapshot is that of a newest applied envelope.
NewestApplied ==
    ~raced => /\ \A m \in applied : Time[m] <= snapshot.ts
              /\ applied # {} => snapshot.env \in Messages /\ snapshot.ts = Time[snapshot.env]

PInv ==
    /\ seqKey \in Nat /\ raced \in BOOLEAN /\ applied \subseteq Messages
    /\ Sound(snapshot, seqKey, applied)
    /\ job = [w \in Workers |-> job[w]]
    /\ \A w \in Workers : job[w] = Idle \/ JobOK(job[w], seqKey, applied)
    /\ NewestApplied

\* The projection starts without a snapshot.
LEMMA PInvInit == ProjectionInit => PInv
<1> SUFFICES ASSUME ProjectionInit PROVE PInv
  OBVIOUS
<1>1. seqKey = 0 /\ snapshot.seq = 0 /\ snapshot.ts = 0 /\ DOMAIN snapshot.metrics = {}
  BY DEF ProjectionInit, NoSnapshot
<1>2. Sound(snapshot, seqKey, applied)
  BY <1>1 DEF Sound
<1>3. job = [w \in Workers |-> job[w]] /\ \A w \in Workers : job[w] = Idle
  BY DEF ProjectionInit
<1>4. applied = {} /\ raced = FALSE
  BY DEF ProjectionInit
<1>5. NewestApplied
  BY <1>4 DEF NewestApplied
<1> QED
  BY Zenon, <1>1, <1>2, <1>3, <1>4, <1>5 DEF PInv

\* What was sound stays sound: nothing applied is forgotten and the counter grows.
LEMMA SoundStays ==
    \A s, j : \A n, o \in Nat : \A A, B : n <= o /\ A \subseteq B =>
       /\ Sound(s, n, A) => Sound(s, o, B)
       /\ JobOK(j, n, A) => JobOK(j, o, B)
<1> SUFFICES ASSUME NEW n \in Nat, NEW o \in Nat, NEW A, NEW B, n <= o, A \subseteq B
             PROVE \A s, j : /\ Sound(s, n, A) => Sound(s, o, B)
                             /\ JobOK(j, n, A) => JobOK(j, o, B)
  OBVIOUS
<1>1. \A k, v, t : Reported(A, k, v, t) => Reported(B, k, v, t)
  BY DEF Reported
<1>2. \A s : Sound(s, n, A) => Sound(s, o, B)
  BY <1>1 DEF Sound
<1>3. \A j : JobOK(j, n, A) => JobOK(j, o, B)
  BY <1>2 DEF JobOK
<1> QED
  BY <1>2, <1>3

\* A worker's step keeps every job sound but for its own, which it sets to j.
LEMMA JobsStay ==
    ASSUME PInv, NEW w \in Workers, NEW j, job' = [job EXCEPT ![w] = j],
           j = Idle \/ JobOK(j, seqKey', applied'),
           seqKey' \in Nat, seqKey <= seqKey', applied \subseteq applied'
    PROVE  /\ job' = [v \in Workers |-> job'[v]]
           /\ \A v \in Workers : job'[v] = Idle \/ JobOK(job'[v], seqKey', applied')
<1>1. \A i : JobOK(i, seqKey, applied) => JobOK(i, seqKey', applied')
  BY SoundStays DEF PInv
<1>2. \A v \in Workers : job'[v] = IF v = w THEN j ELSE job[v]
  BY DEF PInv
<1>3. job' = [v \in Workers |-> job'[v]]
  BY DEF PInv
<1> QED
  BY <1>1, <1>2, <1>3 DEF PInv

\* A worker's step that writes no snapshot.
LEMMA PFrame ==
    ASSUME PInv, NEW w \in Workers, NEW j, job' = [job EXCEPT ![w] = j],
           j = Idle \/ JobOK(j, seqKey', applied),
           seqKey' \in Nat, seqKey <= seqKey', UNCHANGED <<snapshot, applied, raced>>
    PROVE  PInv'
<1>1. Sound(snapshot, seqKey', applied)
  BY SoundStays DEF PInv
<1>2. /\ job' = [v \in Workers |-> job'[v]]
      /\ \A v \in Workers : job'[v] = Idle \/ JobOK(job'[v], seqKey', applied')
  BY Zenon, JobsStay
<1> QED
  BY <1>1, <1>2 DEF PInv, NewestApplied

\* A delivered message is stale, or its handler has just read the snapshot.
LEMMA ReadStep == ASSUME PInv, NEW w \in Workers, NEW m \in Messages, Read(w, m) PROVE PInv'
<1>1. CASE UNCHANGED job
  BY <1>1 DEF Read, PInv, NewestApplied
<1>2. CASE job' = [job EXCEPT ![w] =
             Job(IF IsStale(snapshot, m) THEN "ack" ELSE "incr", m, snapshot, 0)]
  <2> DEFINE j == Job(IF IsStale(snapshot, m) THEN "ack" ELSE "incr", m, snapshot, 0)
  <2>1. UNCHANGED <<snapshot, seqKey, applied, raced>>
    BY DEF Read
  <2>2. JobOK(j, seqKey, applied)
    BY DEF JobOK, Job, PInv
  <2> QED
    BY <1>2, <2>1, <2>2, PFrame DEF PInv
<1> QED
  BY <1>1, <1>2 DEF Read, SetJob

\* INCR gives the handler a number above all that were given.
LEMMA IncrStep == ASSUME PInv, NEW w \in Workers, Incr(w) PROVE PInv'
<1>1. UNCHANGED <<snapshot, applied, raced>> /\ job[w].step = "incr"
  BY DEF Incr
<1>2. JobOK(job[w], seqKey, applied)
  BY <1>1 DEF PInv, Idle
<1>3. seqKey' \in Nat /\ seqKey <= seqKey'
  BY DEF Incr, PInv
<1>4. CASE job' = [job EXCEPT ![w] = Idle]
  BY Zenon, <1>1, <1>3, <1>4, PFrame
<1>5. CASE /\ seqKey' = seqKey + 1
           /\ job' = [job EXCEPT ![w] = Job("set", job[w].msg, job[w].existing, seqKey')]
  <2> DEFINE j == Job("set", job[w].msg, job[w].existing, seqKey + 1)
  <2>2. JobOK(job[w], seqKey', applied)
    BY <1>2, <1>3, SoundStays DEF PInv
  <2>3. JobOK(j, seqKey', applied)
    <3>1. /\ j.step = "set" /\ j.msg = job[w].msg /\ j.existing = job[w].existing
          /\ j.seq = seqKey + 1 /\ j = Job(j.step, j.msg, j.existing, j.seq)
      BY DEF Job
    <3>2. /\ j.msg \in Messages /\ Sound(j.existing, seqKey', applied)
          /\ ~IsStale(j.existing, j.msg)
      BY SMTT(30), <1>1, <2>2, <3>1 DEF JobOK
    <3>3. j.existing.seq < j.seq /\ j.seq \in Nat /\ j.seq <= seqKey'
      <4>1. job[w].existing.seq \in Nat /\ job[w].existing.seq <= seqKey /\ seqKey \in Nat
        BY SMTT(30), <1>2 DEF JobOK, Sound, PInv
      <4> HIDE DEF j
      <4> QED
        BY SMTT(30), <1>5, <3>1, <4>1
    <3> HIDE DEF j
    <3> QED
      BY <3>1, <3>2, <3>3 DEF JobOK
  <2> QED
    BY Zenon, <1>1, <1>3, <1>5, <2>3, PFrame
<1> QED
  BY <1>4, <1>5 DEF Incr, SetJob, GivesUp

\* What a worker may do to the snapshot: nothing, or the SET of its job.
Writes(j) ==
    /\ snapshot' = [seq |-> j.seq, ts |-> Time[j.msg], env |-> j.msg,
                    metrics |-> Merge(j.existing.metrics, j.msg)]
    /\ applied' = applied \cup {j.msg}
    /\ raced' = (raced \/ snapshot # j.existing)

\* A merged snapshot is sound, and has every metric of the one it was merged from.
LEMMA MergeIsSound ==
    ASSUME PInv, NEW j, JobOK(j, seqKey, applied), j.step = "set", Writes(j)
    PROVE  /\ Sound(snapshot', seqKey, applied')
           /\ \A k \in DOMAIN j.existing.metrics :
                 /\ k \in DOMAIN snapshot'.metrics
                 /\ snapshot'.metrics[k].observed >= j.existing.metrics[k].observed
<1> DEFINE old == j.existing.metrics
           new == Merge(old, j.msg)
           t == Time[j.msg]
<1>1. t \in Nat /\ j.existing.ts <= t /\ j.existing.ts \in Nat
  BY ProjectionAssumption DEF JobOK, IsStale, Sound
<1>2. snapshot'.seq = j.seq /\ snapshot'.ts = t /\ snapshot'.metrics = new
  BY DEF Writes
<1>3. DOMAIN new = DOMAIN old \cup DOMAIN Value[j.msg]
  BY DEF Merge
<1>4. Sound(j.existing, seqKey, applied')
  BY SMTT(30), SoundStays DEF JobOK, PInv, Writes
<1>5. ASSUME NEW k \in DOMAIN Value[j.msg]
      PROVE  /\ new[k].changed \in Nat /\ new[k].observed \in Nat
             /\ new[k].changed <= new[k].observed /\ new[k].observed = t
             /\ Reported(applied', k, new[k].value, new[k].observed)
             /\ Reported(applied', k, new[k].value, new[k].changed)
  <2>1. /\ new[k].value = Value[j.msg][k] /\ new[k].observed = t
        /\ new[k].changed = ChangedAt(old, k, j.msg)
    BY <1>3, <1>5 DEF Merge
  <2>2. Reported(applied', k, Value[j.msg][k], t)
    BY SMTT(30), <1>5 DEF Reported, Writes
  <2>3. CASE k \in DOMAIN old /\ old[k].value = Value[j.msg][k]
    <3>1. new[k].changed = old[k].changed
      BY SMTT(30), <2>1, <2>3 DEF ChangedAt
    <3>2. /\ old[k].changed \in Nat /\ old[k].observed \in Nat
          /\ old[k].changed <= old[k].observed /\ old[k].observed <= j.existing.ts
          /\ Reported(applied', k, old[k].value, old[k].changed)
      BY <1>4, <2>3 DEF Sound
    <3> QED
      BY <1>1, <2>1, <2>2, <2>3, <3>1, <3>2
  <2>4. CASE ~(k \in DOMAIN old /\ old[k].value = Value[j.msg][k])
    <3>1. new[k].changed = t
      BY <2>1, <2>4 DEF ChangedAt
    <3> QED
      BY <1>1, <2>1, <2>2, <3>1
  <2> QED
    BY <2>3, <2>4
<1>6. ASSUME NEW k \in DOMAIN old \ DOMAIN Value[j.msg]
      PROVE  new[k] = old[k]
  BY SMTT(30), <1>3, <1>6 DEF Merge
<1>7. Sound(snapshot', seqKey, applied')
  <2>1. j.seq \in Nat /\ j.seq <= seqKey
    BY SMTT(30) DEF JobOK
  <2>2. ASSUME NEW k \in DOMAIN old \ DOMAIN Value[j.msg]
        PROVE  /\ new[k].changed \in Nat /\ new[k].observed \in Nat
               /\ new[k].changed <= new[k].observed /\ new[k].observed <= t
               /\ Reported(applied', k, new[k].value, new[k].observed)
               /\ Reported(applied', k, new[k].value, new[k].changed)
    <3>1. /\ old[k].changed \in Nat /\ old[k].observed \in Nat
          /\ old[k].changed <= old[k].observed /\ old[k].observed <= j.existing.ts
          /\ Reported(applied', k, old[k].value, old[k].observed)
          /\ Reported(applied', k, old[k].value, old[k].changed)
      BY <1>4, <2>2 DEF Sound
    <3> QED
      BY SMTT(30), <1>1, <1>6, <2>2, <3>1
  <2> HIDE DEF new
  <2> QED
    BY <1>1, <1>2, <1>3, <1>5, <2>1, <2>2 DEF Sound
<1>8. \A k \in DOMAIN old : k \in DOMAIN new /\ new[k].observed >= old[k].observed
  <2> SUFFICES ASSUME NEW k \in DOMAIN old PROVE k \in DOMAIN new /\ new[k].observed >= old[k].observed
    OBVIOUS
  <2>1. old[k].observed \in Nat /\ old[k].observed <= j.existing.ts
    BY DEF JobOK, Sound
  <2> HIDE DEF new
  <2> QED
    BY <1>1, <1>3, <1>5, <1>6, <2>1
<1> QED
  BY <1>2, <1>7, <1>8

\* The SET keeps the invariant, also when its answer is lost.
LEMMA SetStep == ASSUME PInv, NEW w \in Workers, Set(w) PROVE PInv'
<1> DEFINE j == job[w]
<1>1. j.step = "set" /\ seqKey' = seqKey /\ JobOK(j, seqKey, applied)
  BY DEF Set, PInv, Idle
<1>2. CASE UNCHANGED <<snapshot, applied, raced>> /\ job' = [job EXCEPT ![w] = Idle]
  BY <1>1, <1>2, PFrame DEF PInv
<1>3. CASE Writes(j) /\ (\/ job' = [job EXCEPT ![w] = Idle]
                         \/ job' = [job EXCEPT ![w] = Job("ack", j.msg, j.existing, j.seq)])
  <2>1. Sound(snapshot', seqKey, applied')
    BY <1>1, <1>3, MergeIsSound
  <2>2. applied \subseteq applied' /\ applied' \subseteq Messages /\ raced' \in BOOLEAN
    BY <1>1, <1>3 DEF Writes, JobOK, PInv
  <2>3. JobOK(Job("ack", j.msg, j.existing, j.seq), seqKey, applied')
    <3>1. JobOK(j, seqKey, applied')
      BY <1>1, <2>2, SoundStays DEF PInv
    <3> QED
      BY <3>1 DEF JobOK, Job
  <2>4. /\ job' = [v \in Workers |-> job'[v]]
        /\ \A v \in Workers : job'[v] = Idle \/ JobOK(job'[v], seqKey', applied')
    BY <1>1, <1>3, <2>2, <2>3, JobsStay DEF PInv
  <2>5. NewestApplied'
    <3> SUFFICES ASSUME ~raced'
                 PROVE /\ \A m \in applied' : Time[m] <= snapshot'.ts
                       /\ snapshot'.env \in Messages /\ snapshot'.ts = Time[snapshot'.env]
      BY DEF NewestApplied
    <3>1. ~raced /\ snapshot = j.existing
      BY Zenon, <1>3 DEF Writes
    <3>2. /\ snapshot'.ts = Time[j.msg] /\ snapshot'.env = j.msg /\ j.msg \in Messages
          /\ applied' = applied \cup {j.msg}
      BY SMTT(30), <1>1, <1>3 DEF Writes, JobOK
    <3>3. snapshot.ts <= Time[j.msg] /\ snapshot.ts \in Nat
      BY <1>1, <3>1, ProjectionAssumption DEF JobOK, IsStale, Sound
    <3>4. \A m \in applied : Time[m] <= snapshot.ts /\ Time[m] \in Nat
      BY <3>1, ProjectionAssumption DEF PInv, NewestApplied
    <3>5. Time[j.msg] \in Nat
      BY <3>2, ProjectionAssumption
    <3> QED
      BY <3>2, <3>3, <3>4, <3>5
  <2> QED
    BY <1>1, <2>1, <2>2, <2>4, <2>5 DEF PInv
<1> QED
  BY <1>2, <1>3 DEF Set, SetJob, GivesUp, Writes

\* The end of a handler, and its crash.
LEMMA EndStep == ASSUME PInv, NEW w \in Workers, Finish(w) \/ Crash(w) PROVE PInv'
<1>1. job' = [job EXCEPT ![w] = Idle] /\ UNCHANGED <<snapshot, seqKey, applied, raced>>
  BY DEF Finish, Crash, SetJob
<1> QED
  BY <1>1, PFrame DEF PInv

\* Every step keeps the invariant.
LEMMA PInvStep == PInv /\ [ProjectionNext]_projectionVars => PInv'
<1> SUFFICES ASSUME PInv, [ProjectionNext]_projectionVars PROVE PInv'
  OBVIOUS
<1>1. CASE UNCHANGED <<snapshot, seqKey, job, applied, raced>>
  BY <1>1 DEF PInv, NewestApplied
<1>2. CASE UNCHANGED projectionVars \/ \E m \in Messages : AckWaitPasses(m)
  BY Zenon, <1>1, <1>2 DEF projectionVars, AckWaitPasses
<1> QED
  BY <1>2, ReadStep, IncrStep, SetStep, EndStep DEF ProjectionNext, Handle

\* The projection keeps the invariant.
LEMMA PInvHolds == ProjectionSpec => []PInv
BY PInvInit, PInvStep, PTL DEF ProjectionSpec

\* A metric shows what was reported, however many workers race on the snapshot.
THEOREM MetricsStayTruthful == ProjectionSpec => []MetricsAreTruthful
<1>1. PInv => MetricsAreTruthful
  BY DEF PInv, Sound, Reported, MetricsAreTruthful
<1> QED
  BY <1>1, PInvHolds, PTL

\* Who changes the snapshot is a SET.
LEMMA OnlySetWrites ==
    ASSUME PInv, [ProjectionNext]_projectionVars, snapshot' # snapshot
    PROVE  \E w \in Workers : /\ JobOK(job[w], seqKey, applied) /\ job[w].step = "set"
                              /\ Writes(job[w])
<1>1. PICK w \in Workers : Set(w)
  BY Zenon DEF ProjectionNext, projectionVars, AckWaitPasses, Read, Handle, Incr, Finish, Crash
<1>2. Writes(job[w])
  BY <1>1 DEF Set, Writes
<1>3. job[w].step = "set" /\ JobOK(job[w], seqKey, applied)
  BY <1>1 DEF Set, PInv, Idle
<1> QED
  BY <1>2, <1>3

\* Until a write is lost the snapshot only moves forward, for any number of workers.
THEOREM SnapshotsAdvance == ProjectionSpec => SnapshotAdvances
<1>1. ASSUME PInv, [ProjectionNext]_projectionVars, snapshot' # snapshot, ~raced'
      PROVE  /\ snapshot'.seq > snapshot.seq /\ snapshot'.ts >= snapshot.ts
             /\ \A k \in DOMAIN snapshot.metrics :
                   /\ k \in DOMAIN snapshot'.metrics
                   /\ snapshot'.metrics[k].observed >= snapshot.metrics[k].observed
  <2>1. PICK w \in Workers : /\ JobOK(job[w], seqKey, applied) /\ job[w].step = "set"
                             /\ Writes(job[w])
    BY <1>1, OnlySetWrites
  <2>2. snapshot = job[w].existing
    BY Zenon, <1>1, <2>1 DEF Writes
  <2>3. \A k \in DOMAIN snapshot.metrics :
           /\ k \in DOMAIN snapshot'.metrics
           /\ snapshot'.metrics[k].observed >= snapshot.metrics[k].observed
    BY <1>1, <2>1, <2>2, MergeIsSound
  <2>4. snapshot'.seq = job[w].seq /\ snapshot'.ts = Time[job[w].msg]
    BY SMTT(30), <2>1 DEF Writes
  <2>5. /\ snapshot.seq < job[w].seq /\ job[w].seq \in Nat /\ snapshot.seq \in Nat
        /\ ~(snapshot.ts > Time[job[w].msg]) /\ snapshot.ts \in Nat /\ Time[job[w].msg] \in Nat
    BY <2>1, <2>2, ProjectionAssumption DEF JobOK, IsStale, Sound
  <2> QED
    BY <2>3, <2>4, <2>5
<1>2. PInv /\ [ProjectionNext]_projectionVars =>
        [snapshot' # snapshot /\ ~raced' =>
           /\ snapshot'.seq > snapshot.seq /\ snapshot'.ts >= snapshot.ts
           /\ \A k \in DOMAIN snapshot.metrics :
                 /\ k \in DOMAIN snapshot'.metrics
                 /\ snapshot'.metrics[k].observed >= snapshot.metrics[k].observed]_projectionVars
  BY <1>1
<1> QED
  BY <1>2, PInvHolds, PTL DEF ProjectionSpec, SnapshotAdvances

\* A redelivered envelope takes effect once, for any number of workers and redeliveries.
THEOREM EnvelopesApplyOnce == ProjectionSpec => AppliedOnce
<1>1. ASSUME PInv, [ProjectionNext]_projectionVars, snapshot' # snapshot, ~raced',
             snapshot'.env \in applied
      PROVE  \E m \in Messages \ {snapshot'.env} : Time[m] = snapshot'.ts
  <2>1. PICK w \in Workers : /\ JobOK(job[w], seqKey, applied) /\ job[w].step = "set"
                             /\ Writes(job[w])
    BY <1>1, OnlySetWrites
  <2>2. ~raced /\ snapshot = job[w].existing /\ snapshot'.env = job[w].msg
        /\ snapshot'.ts = Time[job[w].msg]
    BY Zenon, <1>1, <2>1 DEF Writes
  <2>3. /\ snapshot.env # job[w].msg /\ ~(snapshot.ts > Time[job[w].msg])
        /\ snapshot.ts \in Nat /\ Time[job[w].msg] \in Nat
    BY <2>1, <2>2, ProjectionAssumption DEF JobOK, IsStale, Sound
  <2>4. /\ Time[job[w].msg] <= snapshot.ts
        /\ snapshot.env \in Messages /\ snapshot.ts = Time[snapshot.env]
    BY <1>1, <2>2 DEF PInv, NewestApplied
  <2> QED
    BY <2>2, <2>3, <2>4
<1>2. PInv /\ [ProjectionNext]_projectionVars =>
        [snapshot' # snapshot /\ ~raced' =>
           \/ snapshot'.env \notin applied
           \/ \E m \in Messages \ {snapshot'.env} : Time[m] = snapshot'.ts]_projectionVars
  BY <1>1
<1> QED
  BY <1>2, PInvHolds, PTL DEF ProjectionSpec, AppliedOnce

------------------------------------------------------------------------------
(* A single worker.                                                        *)

OneWorker == \A v, w \in Workers : v = w

\* The snapshot is the one that the handler under way has read, and no write was lost.
Fresh ==
    /\ ~raced
    /\ \A w \in Workers : job[w].step \in {"incr", "set"} => job[w].existing = snapshot

\* A worker's step keeps the snapshot fresh if it writes none, and goes on with a job that has
\* read it.
LEMMA FreshFrame ==
    ASSUME PInv, Fresh, NEW w \in Workers, NEW j, job' = [job EXCEPT ![w] = j],
           j.step \in {"incr", "set"} => j.existing = snapshot, UNCHANGED <<snapshot, raced>>
    PROVE  Fresh'
<1>1. \A v \in Workers : job'[v] = job[v] \/ job'[v] = j
  BY DEF PInv
<1> QED
  BY <1>1 DEF Fresh

\* With one worker nobody writes between a handler's GET and its SET.
LEMMA FreshStep == OneWorker /\ PInv /\ Fresh /\ [ProjectionNext]_projectionVars => Fresh'
<1> SUFFICES ASSUME OneWorker, PInv, Fresh, [ProjectionNext]_projectionVars PROVE Fresh'
  OBVIOUS
<1>1. CASE UNCHANGED <<snapshot, job, raced>>
  BY <1>1 DEF Fresh
<1>2. CASE UNCHANGED projectionVars \/ \E m \in Messages : AckWaitPasses(m)
  BY Zenon, <1>1, <1>2 DEF projectionVars, AckWaitPasses
<1>3. ASSUME NEW w \in Workers, NEW m \in Messages, Read(w, m) PROVE Fresh'
  <2> DEFINE j == Job(IF IsStale(snapshot, m) THEN "ack" ELSE "incr", m, snapshot, 0)
  <2>1. UNCHANGED <<snapshot, raced>> /\ (UNCHANGED job \/ job' = [job EXCEPT ![w] = j])
    BY Zenon, <1>3 DEF Read, SetJob
  <2>2. j.existing = snapshot
    BY DEF Job
  <2> HIDE DEF j
  <2> QED
    BY <1>1, <2>1, <2>2, FreshFrame
<1>4. ASSUME NEW w \in Workers, Incr(w) PROVE Fresh'
  <2> DEFINE j == Job("set", job[w].msg, job[w].existing, seqKey')
  <2>1. /\ UNCHANGED <<snapshot, raced>> /\ job[w].step = "incr"
        /\ job' = [job EXCEPT ![w] = j] \/ job' = [job EXCEPT ![w] = Idle]
    BY Zenon, <1>4 DEF Incr, SetJob, GivesUp
  <2>2. j.existing = job[w].existing /\ Idle.step = "idle"
    BY DEF Job, Idle
  <2>3. job[w].existing = snapshot
    BY <2>1 DEF Fresh
  <2> HIDE DEF j
  <2> QED
    BY <2>1, <2>2, <2>3, FreshFrame
<1>5. ASSUME NEW w \in Workers, Finish(w) \/ Crash(w) PROVE Fresh'
  <2>1. UNCHANGED <<snapshot, raced>> /\ job' = [job EXCEPT ![w] = Idle] /\ Idle.step = "idle"
    BY <1>5 DEF Finish, Crash, SetJob, Idle
  <2>2. Idle.step \notin {"incr", "set"}
    BY <2>1
  <2> QED
    BY Zenon, <2>1, <2>2, FreshFrame
<1>6. ASSUME NEW w \in Workers, Set(w) PROVE Fresh'
  <2> DEFINE j == Job("ack", job[w].msg, job[w].existing, job[w].seq)
  <2>1. /\ job[w].step = "set" /\ raced' \in {raced, raced \/ snapshot # job[w].existing}
        /\ job' = [job EXCEPT ![w] = j] \/ job' = [job EXCEPT ![w] = Idle]
    BY Zenon, <1>6 DEF Set, SetJob, GivesUp
  <2>2. ~raced'
    BY Zenon, <2>1 DEF Fresh
  <2>3. j.step = "ack" /\ Idle.step = "idle"
    BY DEF Job, Idle
  <2> HIDE DEF j
  <2>4. \A v \in Workers : v = w /\ (job'[v] = j \/ job'[v] = Idle)
    BY <2>1 DEF OneWorker, PInv
  <2>5. \A v \in Workers : job'[v].step \notin {"incr", "set"}
    BY <2>3, <2>4
  <2> QED
    BY Zenon, <2>2, <2>5 DEF Fresh
<1> QED
  BY Zenon, <1>2, <1>3, <1>4, <1>5, <1>6 DEF ProjectionNext, Handle

\* With a single worker no write is ever lost, whatever crashes, fails or is redelivered: the
\* exception of SnapshotAdvances, AppliedOnce and NewestWins takes a second member of the
\* queue group, between the GET and the SET of ApplyEnvelope.
THEOREM OneWorkerNeverRaces == OneWorker => (ProjectionSpec => []~raced)
<1> SUFFICES ASSUME OneWorker PROVE ProjectionSpec => []~raced
  OBVIOUS
<1>1. ProjectionInit => Fresh
  BY DEF ProjectionInit, Fresh, Idle
<1>2. PInv /\ Fresh /\ [ProjectionNext]_projectionVars => Fresh'
  BY FreshStep
<1>3. Fresh => ~raced
  BY DEF Fresh
<1> QED
  BY <1>1, <1>2, <1>3, PInvHolds, PTL DEF ProjectionSpec

\* A new snapshot has a larger sequence number and no older time.
Monotonic == snapshot' # snapshot => snapshot'.seq > snapshot.seq /\ snapshot'.ts >= snapshot.ts

\* With a single worker the cursor of read_model.go is what its comment says, "monotonic per
\* projected device stream": a reader never sees the sequence number or the time go back.
THEOREM OneWorkerIsMonotonic == OneWorker => (ProjectionSpec => [][Monotonic]_projectionVars)
<1> SUFFICES ASSUME OneWorker PROVE ProjectionSpec => [][Monotonic]_projectionVars
  OBVIOUS
<1>1. ProjectionSpec => []~raced
  BY OneWorkerNeverRaces
<1>2. ~raced' /\ [snapshot' # snapshot /\ ~raced' =>
         /\ snapshot'.seq > snapshot.seq /\ snapshot'.ts >= snapshot.ts
         /\ \A k \in DOMAIN snapshot.metrics :
               /\ k \in DOMAIN snapshot'.metrics
               /\ snapshot'.metrics[k].observed >= snapshot.metrics[k].observed]_projectionVars
      => [Monotonic]_projectionVars
  BY Zenon DEF Monotonic
<1> QED
  BY <1>1, <1>2, SnapshotsAdvance, PTL DEF SnapshotAdvances
==============================================================================
