------------------------------ MODULE Session ------------------------------
(***************************************************************************)
(* One device's MQTT session, from the broker to the telemetry stream:     *)
(* the reconnect loop of the three session runners (EcoFlow, Pecron, Anker *)
(* Solix), their refresh goroutine, the bounded queue in front of the      *)
(* publisher (asyncEnvelopePublisher) with its worker goroutines, and the  *)
(* NATS publisher's retries.  Goroutines: "main" (Run / runSessionOnce),   *)
(* "refresh" (quota, snapshot or trigger loop), and the publish workers of *)
(* every session opened so far: a worker may outlive its session, since    *)
(* Close waits for it only twice a bounded time.                           *)
(*                                                                         *)
(* An envelope is <<kind, n, id>>: MQTT message n ("m") or the n-th        *)
(* refreshed snapshot ("q"); id is what distinguishes the envelope ids.    *)
(***************************************************************************)
EXTENDS Integers, Sequences, Functions

CONSTANTS Messages,     \* MQTT messages the broker has for the device
          QueueSize,    \* PublishQueueSize
          MaxRetries,   \* PublishMaxRetries
          Configs,      \* <<provider, PublishWorkers, bound on failures>> to try
          MaxSessions,  \* bound: sessions opened
          MaxFrames     \* bound: snapshots built

ASSUME SessionAssumption ==
  /\ {Messages, QueueSize, MaxRetries, MaxSessions, MaxFrames} \subseteq Nat
  /\ Configs \subseteq {"ecoflow", "pulsemqtt", "pecron", "anker"} \X (Nat \ {0}) \X Nat

VARIABLES
  provider,   \* which runner
  workers,    \* number of publish workers
  cancelled,  \* the session context, cancelled by the ingest loop
  pc,         \* where Run is
  outcome,    \* error runSessionOnce is returning with
  gen,        \* sessions opened so far; the current one
  read,       \* MQTT messages read
  heard,      \* the broker has sent a message on the current connection
  held,       \* envelope a goroutine is putting into the queue
  rpc,        \* where the refresh goroutine is
  joining,    \* the refresh context, cancelled by the deferred function
  frames,     \* snapshots built
  pub,        \* the asyncEnvelopePublisher of every session
  worker,     \* its goroutines
  stream,     \* the JetStream stream
  failed,     \* envelopes whose publish returned an error
  faults      \* bound: failures, of calls that leave the process, still to come

session == <<provider, workers, pc, outcome, gen, read, heard, held, rpc, joining, frames>>
vars == <<session, cancelled, pub, worker, stream, failed, faults>>

None == <<"none", 0, 0>>
Sessions == 1..MaxSessions
Workers == 1..workers
Envelopes == {"m", "q"} \X (1..(Messages + MaxFrames)) \X (0..MaxSessions)
Fault == faults > 0 /\ faults' = faults - 1

EcoFlow == provider \in {"ecoflow", "pulsemqtt"}
RefreshCtxDone == cancelled \/ joining
PublishCtxDone(g) == cancelled \/ pub[g].cancelled

\* newEnvelopeID: a random id, but for Pulse MQTT devices, whose message id
\* determines it: a redelivered message keeps its envelope id there.
Build(n) == <<"m", n, IF provider = "pulsemqtt" THEN 0 ELSE gen>>

NewPublisher == [queue |-> <<>>, closed |-> FALSE, cancelled |-> FALSE,
                 accepted |-> {}, drained |-> FALSE, abandoned |-> FALSE]

Idle == [at |-> "idle", env |-> None, try |-> 0]

Init ==
  /\ \E c \in Configs : provider = c[1] /\ workers = c[2] /\ faults = c[3]
  /\ cancelled = FALSE /\ pc = "idle" /\ outcome = "nil"
  /\ gen = 0 /\ read = 0 /\ heard = FALSE /\ frames = 0
  /\ held = [p \in {"main", "refresh"} |-> None]
  /\ rpc = "off" /\ joining = FALSE
  /\ pub = [g \in Sessions |-> NewPublisher]
  /\ worker = [g \in Sessions |-> [w \in Workers |-> [Idle EXCEPT !.at = "off"]]]
  /\ stream = <<>> /\ failed = {}

-----------------------------------------------------------------------------
(* Connecting *)

\* Run between two sessions: the return that runSessionOnce's error leads to.
RunReturns(err) == IF err = "nil" \/ cancelled THEN "done" ELSE "backoff"

Fails ==
  /\ Fault
  /\ pc' = RunReturns("error")
  /\ UNCHANGED <<provider, workers, outcome, gen, read, heard, held, rpc, joining, frames, worker>>

\* newAsyncEnvelopePublisher, and the refresh goroutine unless a snapshot is
\* published first.  The broker may send again the last message of the
\* connection that broke.
Open(next) ==
  /\ gen < MaxSessions
  /\ gen' = gen + 1
  /\ worker' = [worker EXCEPT ![gen + 1] = [w \in Workers |-> Idle]]
  /\ \/ read' = read /\ UNCHANGED faults
     \/ heard /\ Fault /\ read' = read - 1
  /\ heard' = FALSE
  /\ pc' = next
  /\ rpc' = IF next = "bootstrap" THEN "off" ELSE "sleep"
  /\ joining' = FALSE
  /\ UNCHANGED <<provider, workers, outcome, held, frames>>

\* A rejected access key ends the runner for good: the ingest loop has to
\* resolve the credential again.
CredentialRejected ==
  /\ Fault
  /\ pc' = "rejected"
  /\ UNCHANGED <<provider, workers, outcome, gen, read, heard, held, rpc, joining, frames, worker>>

ConnectEcoFlow == EcoFlow /\ (Fails \/ CredentialRejected \/ Open("bootstrap"))

ConnectPecron == provider = "pecron" /\ (Fails \/ Open("bootstrap") \/ Open("read"))

ConnectAnker == provider = "anker" /\ (Fails \/ Open("read"))

Connect ==
  /\ pc = "idle" /\ ~cancelled
  /\ ConnectEcoFlow \/ ConnectPecron \/ ConnectAnker
  /\ UNCHANGED <<cancelled, pub, stream, failed>>

\* The loop head with a cancelled context, and the sleep between two sessions.
Backoff ==
  /\ \/ pc = "idle" /\ cancelled /\ pc' = "done"
     \/ pc = "backoff" /\ pc' = IF cancelled THEN "done" ELSE "idle"
  /\ UNCHANGED <<provider, workers, outcome, gen, read, heard, held, rpc, joining, frames,
                 cancelled, pub, worker, stream, failed, faults>>

-----------------------------------------------------------------------------
(* Goroutines putting envelopes into the queue *)

Leave(p) ==
  IF p = "refresh"
  THEN rpc' = "sleep" /\ UNCHANGED pc
  ELSE /\ pc' = IF pc \in {"bootstrap", "publish"} THEN "read" ELSE "join"
       /\ rpc' = IF pc = "bootstrap" THEN "sleep" ELSE rpc

\* Mutant: Publish does not watch its context while the queue is full.
PutIgnoresCtx(p) == FALSE

PutCtxDone(p) == IF pc = "publish" /\ p = "main" THEN cancelled ELSE RefreshCtxDone

\* The error of Publish: the envelope is dropped and the session goes on,
\* unless the context is done, when runSessionOnce returns without an error.
Dropped(p) ==
  IF p = "main" /\ pc = "publish" /\ cancelled
  THEN pc' = "join" /\ outcome' = "nil" /\ UNCHANGED rpc
  ELSE Leave(p) /\ UNCHANGED outcome

\* asyncEnvelopePublisher.Publish: the queue is tried before the context, and
\* a full queue is waited for until the context or the enqueue timer is done.
Publish(p) ==
  /\ held[p] # None
  /\ held' = [held EXCEPT ![p] = None]
  /\ \/ /\ ~pub[gen].closed /\ Len(pub[gen].queue) < QueueSize
        /\ pub' = [pub EXCEPT ![gen].queue = Append(@, held[p]),
                              ![gen].accepted = @ \cup {held[p]}]
        /\ Leave(p) /\ UNCHANGED <<outcome, failed, faults>>
     \/ /\ pub[gen].closed \/ Len(pub[gen].queue) = QueueSize
        /\ pub[gen].closed \/ PutCtxDone(p)
        /\ Dropped(p) /\ UNCHANGED <<pub, failed, faults>>
     \/ /\ Len(pub[gen].queue) = QueueSize
        /\ Fault
        /\ failed' = failed \cup {held[p]}
        /\ Dropped(p) /\ UNCHANGED pub
  /\ UNCHANGED <<provider, workers, gen, read, heard, joining, frames, cancelled, worker, stream>>

\* publishQuotaSnapshot / publishSnapshot up to its Publish: fetch, store the
\* device's metadata, and build a frame unless the snapshot has no parameters.
\* What the upsert does to the device's row is IngestLoop's publishQuotaSnapshot;
\* its failure is only logged.
Snapshot(p) ==
  /\ held[p] = None
  /\ IF p = "main" THEN pc \in {"bootstrap", "stale"} ELSE rpc = "fetch"
  /\ \/ /\ (RefreshCtxDone /\ UNCHANGED faults) \/ Fault
        /\ Leave(p) /\ UNCHANGED <<held, frames>>
     \/ Leave(p) /\ UNCHANGED <<held, frames, faults>>
     \/ /\ frames < MaxFrames
        /\ frames' = frames + 1
        /\ held' = [held EXCEPT ![p] = <<"q", frames + 1, gen>>]
        /\ UNCHANGED <<pc, rpc, faults>>
  /\ UNCHANGED <<provider, workers, outcome, gen, read, heard, joining, cancelled, pub, worker,
                 stream, failed>>

\* runQuotaRefreshLoop, runSnapshotRefreshLoop, and runRealtimeTriggerRefreshLoop,
\* whose trigger goes to the broker and never into the queue.
RefreshWakes ==
  /\ rpc = "sleep"
  /\ \/ RefreshCtxDone /\ rpc' = "gone"
     \/ ~RefreshCtxDone /\ provider # "anker" /\ rpc' = "fetch"
  /\ UNCHANGED <<provider, workers, pc, outcome, gen, read, heard, held, joining, frames,
                 cancelled, pub, worker, stream, failed, faults>>

-----------------------------------------------------------------------------
(* Reading MQTT messages *)

Accept ==
  /\ read < Messages
  /\ read' = read + 1 /\ heard' = TRUE
  /\ held' = [held EXCEPT !["main"] = Build(read + 1)]
  /\ pc' = "publish" /\ UNCHANGED <<outcome, faults>>

\* A message of another topic or device, or without parameters.
Skip ==
  /\ read < Messages
  /\ read' = read + 1 /\ heard' = TRUE
  /\ UNCHANGED <<held, pc, outcome, faults>>

EndSession(next, err) ==
  /\ pc' = next /\ outcome' = err
  /\ UNCHANGED <<read, heard, held>>

ReadCancelled == cancelled /\ EndSession("join", "nil") /\ UNCHANGED faults

\* A read error, or a message that cannot be decoded, ends the session.
ReadFails(next) == ~cancelled /\ Fault /\ EndSession(next, "error")

ReadEcoFlow == EcoFlow /\ (Accept \/ ReadCancelled \/ ReadFails("stale"))

ReadPecron == provider = "pecron" /\ (Accept \/ Skip \/ ReadCancelled \/ ReadFails("join"))

ReadAnker == provider = "anker" /\ (Accept \/ Skip \/ ReadCancelled \/ ReadFails("join"))

Read ==
  /\ pc = "read"
  /\ ReadEcoFlow \/ ReadPecron \/ ReadAnker
  /\ UNCHANGED <<provider, workers, gen, rpc, joining, frames, cancelled, pub, worker,
                 stream, failed>>

-----------------------------------------------------------------------------
(* The deferred function: cancel the refresh goroutine, wait for it, Close *)

CancelRefresh ==
  /\ pc = "join" /\ ~joining
  /\ joining' = TRUE
  /\ UNCHANGED <<provider, workers, pc, outcome, gen, read, heard, held, rpc, frames,
                 cancelled, pub, worker, stream, failed, faults>>

Drained == \A w \in Workers : worker[gen][w].at = "gone"

\* Mutant: the deferred function closes without waiting on quotaDone.
JoinNotWaited ==
  /\ pc = "join" /\ joining
  /\ pc' = "drain"
  /\ pub' = [pub EXCEPT ![gen].closed = TRUE]

JoinRefresh ==
  /\ pc = "join" /\ joining /\ rpc = "gone"
  /\ pc' = "drain"
  /\ pub' = [pub EXCEPT ![gen].closed = TRUE]

\* asyncEnvelopePublisher.Close: the workers get closeTimeout to empty the
\* queue, then their context is cancelled and they get closeTimeout again.
Close ==
  /\ \/ JoinRefresh
     \/ /\ pc = "drain" /\ Drained
        /\ pub' = [pub EXCEPT ![gen].cancelled = TRUE, ![gen].drained = ~cancelled]
        /\ pc' = RunReturns(outcome)
     \/ /\ pc = "drain"
        /\ pub' = [pub EXCEPT ![gen].cancelled = TRUE]
        /\ pc' = "drain2"
     \/ /\ pc = "drain2"
        /\ pub' = [pub EXCEPT ![gen].abandoned = ~Drained]
        /\ pc' = RunReturns(outcome)
  /\ UNCHANGED <<provider, workers, outcome, gen, read, heard, held, rpc, joining, frames,
                 cancelled, worker, stream, failed, faults>>

-----------------------------------------------------------------------------
(* Publish workers and the NATS publisher *)

SetWorker(g, w, at, env, try) ==
  worker' = [worker EXCEPT ![g][w] = [at |-> at, env |-> env, try |-> try]]

\* Mutant: a worker leaves as soon as the publisher is closed.
TakeJobLeavesEarly(g, w) ==
  /\ worker[g][w].at = "idle"
  /\ \/ /\ PublishCtxDone(g) \/ pub[g].closed
        /\ SetWorker(g, w, "gone", None, 0)
        /\ UNCHANGED pub
     \/ /\ pub[g].queue # <<>>
        /\ pub' = [pub EXCEPT ![g].queue = Tail(@)]
        /\ SetWorker(g, w, "write", Head(pub[g].queue), 0)
  /\ UNCHANGED <<stream, failed, faults>>

\* select of the worker: PublishEnvelope returns at once on a done context.
TakeJob(g, w) ==
  /\ worker[g][w].at = "idle"
  /\ \/ /\ PublishCtxDone(g) \/ (pub[g].closed /\ pub[g].queue = <<>>)
        /\ SetWorker(g, w, "gone", None, 0)
        /\ UNCHANGED pub
     \/ /\ pub[g].queue # <<>>
        /\ pub' = [pub EXCEPT ![g].queue = Tail(@)]
        /\ IF PublishCtxDone(g)
           THEN SetWorker(g, w, "gone", None, 0)
           ELSE SetWorker(g, w, "write", Head(pub[g].queue), 0)
  /\ UNCHANGED <<stream, failed, faults>>

\* The server stores a message unless it has its Nats-Msg-Id already; the
\* message may be lost on the way.
Deliver(env) == IF env \in Range(stream) THEN stream ELSE Append(stream, env)

Send(g, w) ==
  LET k == worker[g][w] IN
  /\ k.at = "write"
  /\ \/ stream' = Deliver(k.env) /\ UNCHANGED faults
     \/ Fault /\ UNCHANGED stream
  /\ SetWorker(g, w, "await", k.env, k.try)
  /\ UNCHANGED <<pub, failed>>

\* Mutant: the retry loop runs once more.
RetryOnceMore(g, w) ==
  LET k == worker[g][w] IN
  IF k.try <= MaxRetries /\ ~PublishCtxDone(g)
  THEN SetWorker(g, w, "retry", k.env, k.try) /\ UNCHANGED failed
  ELSE SetWorker(g, w, "idle", None, 0) /\ failed' = failed \cup {k.env}

\* publishWithRetry on an error that is neither a cancellation nor a deadline.
RetryOrReport(g, w) ==
  LET k == worker[g][w] IN
  IF k.try < MaxRetries /\ ~PublishCtxDone(g)
  THEN SetWorker(g, w, "retry", k.env, k.try) /\ UNCHANGED failed
  ELSE SetWorker(g, w, "idle", None, 0) /\ failed' = failed \cup {k.env}

Result(g, w) ==
  LET k == worker[g][w] IN
  /\ k.at = "await"
  /\ \/ /\ k.env \in Range(stream)
        /\ SetWorker(g, w, "idle", None, 0) /\ UNCHANGED <<failed, faults>>
     \/ /\ IF k.env \in Range(stream) THEN Fault ELSE UNCHANGED faults
        /\ RetryOrReport(g, w)
     \/ /\ IF k.env \in Range(stream) THEN Fault ELSE UNCHANGED faults
        /\ SetWorker(g, w, "idle", None, 0) /\ failed' = failed \cup {k.env}
     \/ /\ PublishCtxDone(g)
        /\ SetWorker(g, w, "gone", None, 0) /\ UNCHANGED <<failed, faults>>
  /\ UNCHANGED <<pub, stream>>

\* Mutant: a failed publish goes to the end of the queue.
RetryRequeues(g, w) ==
  LET k == worker[g][w] IN
  /\ k.at = "retry"
  /\ pub' = [pub EXCEPT ![g].queue = Append(@, k.env)]
  /\ SetWorker(g, w, "idle", None, 0)
  /\ UNCHANGED <<stream, failed, faults>>

Retry(g, w) ==
  LET k == worker[g][w] IN
  /\ k.at = "retry"
  /\ \/ SetWorker(g, w, "write", k.env, k.try + 1)
     \/ PublishCtxDone(g) /\ SetWorker(g, w, "gone", None, 0)
  /\ UNCHANGED <<pub, stream, failed, faults>>

Publisher ==
  /\ \E g \in Sessions, w \in Workers :
        TakeJob(g, w) \/ Send(g, w) \/ Result(g, w) \/ Retry(g, w)
  /\ UNCHANGED <<session, cancelled>>

-----------------------------------------------------------------------------
(* The ingest loop *)

Cancel ==
  /\ ~cancelled /\ cancelled' = TRUE
  /\ UNCHANGED <<session, pub, worker, stream, failed, faults>>

Main == Connect \/ Backoff \/ Snapshot("main") \/ Publish("main") \/ Read \/ CancelRefresh \/ Close
Refresh == RefreshWakes \/ Snapshot("refresh") \/ Publish("refresh")

Next == Main \/ Refresh \/ Publisher \/ Cancel

Spec == Init /\ [][Next]_vars

\* The Go scheduler runs main and the refresh goroutine, whose every wait has a
\* timer or a context; nothing is assumed of the publish workers, which may
\* hang on NATS.
FairSpec == Spec /\ WF_vars(Main) /\ WF_vars(Refresh)

-----------------------------------------------------------------------------
(* Properties *)

\* The types, and the bounds of queue and retries (PublishQueueSize, publishWithRetry).
SessionTypeOK ==
  /\ pc \in {"idle", "bootstrap", "read", "publish", "stale", "join", "drain", "drain2",
             "backoff", "done", "rejected"}
  /\ outcome \in {"nil", "error"} /\ rpc \in {"off", "sleep", "fetch", "gone"}
  /\ gen \in 0..MaxSessions /\ read \in 0..Messages /\ frames \in 0..MaxFrames
  /\ \A p \in DOMAIN held : held[p] \in Envelopes \cup {None}
  /\ \A g \in Sessions : /\ Range(pub[g].queue) \subseteq pub[g].accepted
                         /\ Len(pub[g].queue) <= QueueSize
  /\ \A g \in Sessions, w \in Workers :
        worker[g][w].try <= MaxRetries /\ worker[g][w].env \in Envelopes \cup {None}
  /\ Range(stream) \cup failed \subseteq Envelopes

\* Nobody is inside, or can still enter, Publish of a publisher that Close has
\* closed: main is the closer, and the refresh goroutine of the session is gone
\* (session_runner.go, the deferred quotaCancel / <-quotaDone / Close).
ClosedIsQuiet ==
  gen > 0 /\ pub[gen].closed => rpc = "gone" /\ \A p \in DOMAIN held : held[p] = None

\* A Close whose workers left before the first timeout, with the session still
\* wanted, has lost nothing silently: every envelope Publish accepted is in the
\* stream or its publish returned an error, which the worker offers to the errors
\* channel (async_publish.go Close).
GracefulDrain ==
  \A g \in Sessions : pub[g].drained => pub[g].accepted \subseteq Range(stream) \cup failed

\* With one worker the device's MQTT messages reach the stream in the order the
\* broker sent them, over retries and reconnects, and a Pulse MQTT message that
\* the broker sends twice is stored once, unless Close had to leave a worker
\* behind (publishWithRetry, newEnvelopeID).
StreamInOrder ==
  workers = 1 /\ (\A g \in Sessions : ~pub[g].abandoned) =>
    \A i, j \in 1..Len(stream) :
      i < j /\ stream[i][1] = "m" /\ stream[j][1] = "m" =>
        \/ stream[i][2] < stream[j][2]
        \/ stream[i][2] = stream[j][2] /\ provider # "pulsemqtt"

\* A session that ends comes back to Run, and a cancelled runner returns, even
\* when the queue is full and every publish worker hangs on NATS.
NeverWedged ==
  /\ (pc = "join") ~> (pc \in {"backoff", "done"})
  /\ cancelled ~> (pc \in {"done", "rejected"})
=============================================================================
