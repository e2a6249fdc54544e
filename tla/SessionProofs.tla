---------------------------- MODULE SessionProofs ----------------------------
(***************************************************************************)
(* The safety of a session for every queue size, number of workers,        *)
(* retries, sessions and failures, and for every provider.                 *)
(*                                                                         *)
(* Protocol, which follows the refresh goroutine to its join, gives        *)
(* ClosedIsQuiet; Kept, which follows an envelope through queue and        *)
(* workers, GracefulDrain; SBounds the bounds of SessionTypeOK.  For       *)
(* StreamInOrder, Flow puts what is stored, in the worker's hand, queued   *)
(* and about to be queued into one order, as long as no worker was left    *)
(* behind.                                                                 *)
(***************************************************************************)
EXTENDS Session, SequenceTheorems, TLAPS

Procs == {"main", "refresh"}
Env == {"none", "m", "q"} \X Nat \X Nat
PubType == [queue : Seq(Env), closed : BOOLEAN, cancelled : BOOLEAN,
            accepted : SUBSET Env, drained : BOOLEAN, abandoned : BOOLEAN]
WorkerType == [at : {"off", "idle", "write", "await", "retry", "gone"}, env : Env, try : Nat]

\* Where Run is while a session is open.
InSession == {"bootstrap", "read", "publish", "stale", "join"}

SessionTypes ==
  /\ provider \in {"ecoflow", "pulsemqtt", "pecron", "anker"}
  /\ workers \in Nat \ {0} /\ cancelled \in BOOLEAN /\ joining \in BOOLEAN /\ heard \in BOOLEAN
  /\ pc \in InSession \cup {"idle", "drain", "drain2", "backoff", "done", "rejected"}
  /\ outcome \in {"nil", "error"} /\ rpc \in {"off", "sleep", "fetch", "gone"}
  /\ gen \in 0..MaxSessions /\ read \in Nat /\ frames \in Nat /\ faults \in Nat
  /\ held \in [Procs -> Env]
  /\ pub \in [Sessions -> PubType]
  /\ worker \in [Sessions -> [Workers -> WorkerType]]
  /\ stream \in Seq(Env) /\ failed \in SUBSET Env

\* Who may be where: the publisher of an open session takes envelopes, an envelope is
\* held only on its way into the queue, the refresh goroutine lives inside its session,
\* and the publishers of sessions to come are untouched.
Protocol ==
  /\ pc \in InSession => gen > 0 /\ ~pub[gen].closed /\ ~pub[gen].cancelled
  /\ pc = "drain" => gen > 0 /\ pub[gen].closed /\ ~pub[gen].cancelled
  /\ pc = "drain2" => gen > 0 /\ pub[gen].closed
  /\ pc = "bootstrap" => rpc = "off"
  /\ rpc \in {"sleep", "fetch"} => pc \in InSession \ {"bootstrap"}
  /\ held["main"] # None => pc \in {"bootstrap", "stale", "publish"}
  /\ held["refresh"] # None => rpc = "fetch"
  /\ \A g \in Sessions : g > gen => /\ ~pub[g].closed /\ ~pub[g].cancelled /\ ~pub[g].drained
                                    /\ pub[g].accepted = {}
  /\ gen > 0 /\ pub[gen].closed => rpc = "gone"
  /\ heard => read > 0

IInv == SessionTypes /\ Protocol

\* The current session, once there is one, is a session.
LEMMA GenIsSession == SessionTypes /\ gen > 0 => gen \in Sessions
BY SessionAssumption DEF SessionTypes, Sessions

\* Run starts with every publisher empty and nobody holding an envelope.
LEMMA IInvInit == Init => IInv
<1> SUFFICES ASSUME Init PROVE IInv
  BY Zenon
<1>1. PICK c \in Configs : provider = c[1] /\ workers = c[2] /\ faults = c[3]
  BY Zenon DEF Init
<1>2. /\ provider \in {"ecoflow", "pulsemqtt", "pecron", "anker"}
      /\ workers \in Nat \ {0} /\ faults \in Nat
  BY Zenon, <1>1, SessionAssumption
<1>3. None \in Env /\ NewPublisher \in PubType
  BY DEF None, Env, NewPublisher, PubType
<1>4. [Idle EXCEPT !.at = "off"] \in WorkerType
  BY Zenon, <1>3 DEF Idle, WorkerType
<1>5. held \in [Procs -> Env] /\ pub \in [Sessions -> PubType]
  BY Zenon, <1>3 DEF Init, Procs
<1>6. worker \in [Sessions -> [Workers -> WorkerType]]
  BY Zenon, <1>4 DEF Init
<1>7. stream \in Seq(Env) /\ failed \in SUBSET Env /\ 0 \in 0..MaxSessions
  BY SessionAssumption DEF Init
<1>8. SessionTypes
  BY Zenon, <1>2, <1>5, <1>6, <1>7 DEF Init, SessionTypes, InSession
<1>9. Protocol
  BY DEF Init, Protocol, InSession, NewPublisher
<1> QED
  BY Zenon, <1>8, <1>9 DEF IInv

\* A failed call is one of the failures still to come.
LEMMA FaultTypes == SessionTypes /\ (Fault \/ faults' = faults) => faults' \in Nat
BY DEF SessionTypes, Fault

\* Connecting and the sleep between two sessions keep the invariant: the session that
\* opens is the next one, untouched so far.
LEMMA ConnectStep == IInv /\ (Connect \/ Backoff) => IInv'
<1> SUFFICES ASSUME IInv, Connect \/ Backoff PROVE IInv'
  BY Zenon
<1> USE DEF IInv
<1>1. CASE Backoff
  BY <1>1 DEF Backoff, SessionTypes, Protocol, InSession, Workers
<1>2. CASE Connect /\ (Fails \/ CredentialRejected)
  <2>1. faults' \in Nat
    BY Zenon, <1>2, FaultTypes DEF Fails, CredentialRejected
  <2> QED
    BY <1>2, <2>1 DEF Connect, Fails, CredentialRejected, RunReturns, SessionTypes, Protocol,
       InSession, Workers
<1>3. ASSUME NEW next \in {"bootstrap", "read"}, Connect, Open(next) PROVE IInv'
  <2>1. faults' \in Nat /\ read' \in Nat
    BY SMTT(30), <1>3, FaultTypes DEF Open, SessionTypes, Protocol, Fault
  <2>2. gen' = gen + 1 /\ gen' \in Sessions /\ gen' \in 0..MaxSessions /\ gen \in Nat
    BY SMTT(30), <1>3, SessionAssumption DEF Open, SessionTypes, Sessions
  <2>3. Idle \in WorkerType
    BY Zenon DEF Idle, WorkerType, None, Env
  <2>4. worker' \in [Sessions -> [Workers -> WorkerType]]
    BY Zenon, <1>3, <2>2, <2>3 DEF Open, SessionTypes
  <2>5. SessionTypes'
    BY Zenon, <1>3, <2>1, <2>2, <2>4 DEF Connect, Open, SessionTypes, InSession, Workers
  <2>6. held["main"] = None /\ held["refresh"] = None
    BY Zenon, <1>3 DEF Connect, Protocol, InSession
  <2>7. ~pub[gen + 1].closed /\ ~pub[gen + 1].cancelled
    BY <2>2 DEF Protocol
  <2>8. \A g \in Sessions : g > gen + 1 => g > gen
    BY <2>2 DEF Sessions
  <2> QED
    BY <1>3, <2>2, <2>5, <2>6, <2>7, <2>8 DEF Connect, Open, Protocol, InSession
<1> QED
  BY Zenon, <1>1, <1>2, <1>3 DEF Connect, ConnectEcoFlow, ConnectPecron, ConnectAnker

\* Reading and fetching keep the invariant: the envelope built goes straight to Publish.
LEMMA ReadStep ==
  IInv /\ (Read \/ RefreshWakes \/ CancelRefresh \/ \E p \in Procs : Snapshot(p)) => IInv'
<1> SUFFICES ASSUME IInv,
                    Read \/ RefreshWakes \/ CancelRefresh \/ \E p \in Procs : Snapshot(p)
             PROVE IInv'
  BY ZenonT(60)
<1> USE DEF IInv
<1>1. CASE Read
  <2>1. /\ \/ Accept \/ Skip
           \/ cancelled /\ EndSession("join", "nil") /\ UNCHANGED faults
           \/ Fault /\ EndSession("join", "error")
           \/ Fault /\ EndSession("stale", "error")
        /\ pc = "read"
        /\ UNCHANGED <<provider, workers, gen, rpc, joining, frames, cancelled, pub, worker,
                       stream, failed>>
    BY Zenon, <1>1 DEF Read, ReadEcoFlow, ReadPecron, ReadAnker, ReadCancelled, ReadFails
  <2>2. faults' \in Nat
    BY Zenon, <2>1, FaultTypes DEF Accept, Skip
  <2>3. CASE Accept
    <3>1. Build(read + 1) \in Env
      BY SMTT(30), SessionAssumption DEF Build, Env, SessionTypes
    <3>2. held' \in [Procs -> Env] /\ held'["refresh"] = held["refresh"] /\ read' \in Nat
      BY <2>3, <3>1 DEF Accept, SessionTypes, Procs
    <3> QED
      BY <2>1, <2>2, <2>3, <3>2 DEF Accept, SessionTypes, Protocol, InSession, Workers
  <2>4. CASE Skip
    BY SMTT(30), <2>1, <2>2, <2>4 DEF Skip, SessionTypes, Protocol, InSession, Workers
  <2> QED
    BY <2>1, <2>2, <2>3, <2>4 DEF EndSession, SessionTypes, Protocol, InSession, Workers
<1>2. CASE RefreshWakes
  BY SMTT(30), <1>2 DEF RefreshWakes, SessionTypes, Protocol, InSession, Workers
<1>3. CASE CancelRefresh
  BY ZenonT(60), <1>3 DEF CancelRefresh, SessionTypes, Protocol, InSession, Workers
<1>4. ASSUME NEW p \in Procs, Snapshot(p) PROVE IInv'
  <2>1. faults' \in Nat
    BY ZenonT(60), <1>4, FaultTypes DEF Snapshot
  <2>2. CASE held' = held /\ frames' = frames /\ Leave(p)
    BY SMTT(30), <1>4, <2>1, <2>2 DEF Snapshot, Leave, Procs, SessionTypes, Protocol, InSession, Workers
  <2>3. CASE frames' = frames + 1 /\ held' = [held EXCEPT ![p] = <<"q", frames + 1, gen>>]
             /\ UNCHANGED <<pc, rpc>>
    <3>1. <<"q", frames + 1, gen>> \in Env /\ frames' \in Nat
      BY SMTT(30), <2>3, SessionAssumption DEF Env, SessionTypes
    <3>2. held' \in [Procs -> Env] /\ \A q \in Procs \ {p} : held'[q] = held[q]
      BY Zenon, <2>3, <3>1 DEF SessionTypes
    <3>3. SessionTypes'
      BY <1>4, <2>1, <2>3, <3>1, <3>2 DEF Snapshot, SessionTypes, Workers
    <3> QED
      BY Zenon, <1>4, <2>3, <3>2, <3>3 DEF Snapshot, Protocol, InSession, Procs
  <2> QED
    BY Zenon, <1>4, <2>2, <2>3 DEF Snapshot
<1> QED
  BY Zenon, <1>1, <1>2, <1>3, <1>4

\* Publish keeps the invariant: it is called only while the session is open.
LEMMA PublishStep == \A p \in Procs : IInv /\ Publish(p) => IInv'
<1> SUFFICES ASSUME NEW p \in Procs, IInv, Publish(p) PROVE IInv'
  BY Zenon
<1> USE DEF IInv
<1>1. gen > 0 /\ gen \in Sessions /\ ~pub[gen].closed /\ pc \in InSession
  BY Zenon, GenIsSession DEF Publish, Protocol, InSession, Procs
<1>2. faults' \in Nat
  BY Zenon, FaultTypes DEF Publish
<1>3. held' \in [Procs -> Env] /\ held'[p] = None /\ held[p] \in Env
      /\ \A q \in Procs \ {p} : held'[q] = held[q]
  BY ZenonT(60) DEF Publish, SessionTypes, None, Env
<1>4. failed' \in SUBSET Env
  BY Zenon, <1>3 DEF Publish, SessionTypes
<1>5. /\ pub' \in [Sessions -> PubType]
      /\ \A g \in Sessions : g # gen => pub'[g] = pub[g]
      /\ pub'[gen].closed = pub[gen].closed /\ pub'[gen].cancelled = pub[gen].cancelled
  <2>1. CASE pub' = pub
    BY Zenon, <2>1 DEF SessionTypes
  <2>2. CASE pub' = [pub EXCEPT ![gen].queue = Append(@, held[p]),
                                ![gen].accepted = @ \cup {held[p]}]
    <3>1. pub[gen] \in PubType
      BY Zenon, <1>1 DEF SessionTypes
    <3>2. Append(pub[gen].queue, held[p]) \in Seq(Env)
      BY <1>3, <3>1 DEF PubType
    <3> QED
      BY Zenon, <1>1, <1>3, <2>2, <3>1, <3>2 DEF SessionTypes, PubType
  <2> QED
    BY ZenonT(60), <2>1, <2>2 DEF Publish
<1>6. \/ Leave(p) /\ outcome' = outcome
      \/ p = "main" /\ pc = "publish" /\ pc' = "join" /\ outcome' = "nil" /\ rpc' = rpc
  BY Zenon DEF Publish, Dropped
<1>7. /\ pc' \in InSession \ {"bootstrap"} /\ outcome' \in {"nil", "error"}
      /\ rpc' \in {"off", "sleep", "fetch", "gone"}
      /\ p = "main" => pc' \in {"read", "join"} /\ (rpc' = "fetch" <=> rpc = "fetch")
      /\ p = "refresh" => pc' = pc
  BY Zenon, <1>1, <1>6 DEF Leave, Protocol, InSession, SessionTypes, Procs, Publish
<1>8. SessionTypes'
  BY Zenon, <1>2, <1>3, <1>4, <1>5, <1>7 DEF Publish, SessionTypes, Workers, InSession
<1>9. Protocol'
  <2>1. gen' = gen /\ gen' > 0 /\ ~pub'[gen].closed /\ ~pub'[gen].cancelled
    <3>1. gen' = gen
      BY Zenon DEF Publish
    <3>2. ~pub[gen].cancelled
      BY Zenon, <1>1 DEF Protocol
    <3> QED
      BY Zenon, <1>1, <1>5, <3>1, <3>2
  <2>2. \A g \in Sessions : g > gen => pub'[g] = pub[g]
    BY <1>1, <1>5 DEF Sessions
  <2>3. /\ held'["main"] # None => pc' \in {"bootstrap", "stale", "publish"}
        /\ held'["refresh"] # None => rpc' = "fetch"
    BY Zenon, <1>3, <1>7 DEF Protocol, Procs
  <2>4. heard' => read' > 0
    BY Zenon DEF Publish, Protocol
  <2> QED
    BY Zenon, <1>7, <2>1, <2>2, <2>3, <2>4 DEF Protocol, InSession
<1> QED
  BY Zenon, <1>8, <1>9

\* Close keeps the invariant: it closes only after the refresh goroutine has gone.
LEMMA CloseStep == IInv /\ Close => IInv'
<1> SUFFICES ASSUME IInv, Close PROVE IInv'
  BY Zenon
<1> USE DEF IInv
<1>1. gen > 0 /\ gen \in Sessions /\ pub[gen] \in PubType
  BY Zenon, GenIsSession DEF Close, JoinRefresh, Protocol, InSession, SessionTypes
<1>2. Drained \in BOOLEAN
  BY Zenon DEF Drained
<1>3. pub' \in [Sessions -> PubType] /\ \A g \in Sessions : g # gen => pub'[g] = pub[g]
  <2>1. \A b, c \in BOOLEAN : [pub[gen] EXCEPT !.cancelled = b, !.drained = c] \in PubType
    BY Zenon, <1>1 DEF PubType
  <2>2. \A b \in BOOLEAN : [pub[gen] EXCEPT !.abandoned = b] \in PubType
    BY Zenon, <1>1 DEF PubType
  <2>3. [pub[gen] EXCEPT !.closed = TRUE] \in PubType /\ [pub[gen] EXCEPT !.cancelled = TRUE] \in PubType
    BY Zenon, <1>1 DEF PubType
  <2>4. \E r \in PubType : pub' = [pub EXCEPT ![gen] = r]
    <3>1. CASE JoinRefresh
      BY Zenon, <2>3, <3>1 DEF JoinRefresh
    <3>2. CASE pub' = [pub EXCEPT ![gen].cancelled = TRUE, ![gen].drained = ~cancelled]
      <4>1. pub' = [pub EXCEPT ![gen] = [pub[gen] EXCEPT !.cancelled = TRUE, !.drained = ~cancelled]]
        BY Zenon, <1>1, <3>2 DEF SessionTypes
      <4> QED
        BY Zenon, <2>1, <4>1
    <3>3. CASE pub' = [pub EXCEPT ![gen].cancelled = TRUE]
      BY Zenon, <2>3, <3>3
    <3>4. CASE pub' = [pub EXCEPT ![gen].abandoned = ~Drained]
      BY Zenon, <1>2, <2>2, <3>4
    <3> QED
      BY Zenon, <3>1, <3>2, <3>3, <3>4 DEF Close
  <2> QED
    BY Zenon, <1>1, <2>4 DEF SessionTypes
<1>4. /\ pc = "join" => rpc = "gone" /\ pub'[gen].closed /\ pc' = "drain"
                        /\ pub'[gen].cancelled = pub[gen].cancelled
      /\ pc = "drain" => pub'[gen].closed = pub[gen].closed
      /\ pc = "drain2" => pub'[gen].closed = pub[gen].closed
      /\ pc # "join" => pc' \in {"drain2", "done", "backoff"}
      /\ pc' = "drain2" => pc = "drain"
      /\ pc \in {"join", "drain", "drain2"}
  BY <1>1 DEF Close, JoinRefresh, SessionTypes, PubType, RunReturns
<1>5. SessionTypes'
  BY <1>3, <1>4 DEF Close, SessionTypes, Workers, InSession
<1>6. held["main"] = None /\ held["refresh"] = None
  BY Zenon, <1>4 DEF Protocol, InSession
<1>7. rpc = "gone"
  BY Zenon, <1>1, <1>4 DEF Protocol, InSession
<1> QED
  BY SMTT(30), <1>1, <1>3, <1>4, <1>5, <1>6, <1>7 DEF Close, Protocol, InSession, SessionTypes

\* What a publish worker does to the publishers: it takes envelopes out of a queue.
PubKept ==
  \A g \in Sessions : /\ pub'[g].closed = pub[g].closed /\ pub'[g].cancelled = pub[g].cancelled
                      /\ pub'[g].drained = pub[g].drained /\ pub'[g].accepted = pub[g].accepted

\* The publish workers keep the invariant: they leave the session alone.
LEMMA PublisherStep == IInv /\ Publisher => IInv' /\ PubKept
<1> SUFFICES ASSUME IInv, Publisher PROVE IInv' /\ PubKept
  BY Zenon
<1> USE DEF IInv
<1>1. PICK g \in Sessions, w \in Workers :
        TakeJob(g, w) \/ Send(g, w) \/ Result(g, w) \/ Retry(g, w)
  BY Zenon DEF Publisher
<1>2. worker[g][w] \in WorkerType /\ pub[g] \in PubType
  BY Zenon DEF SessionTypes
<1> DEFINE k == worker[g][w]
<1>3. faults' \in Nat
  BY Zenon, <1>1, FaultTypes DEF TakeJob, Send, Result, Retry
<1>4. stream' \in Seq(Env)
  <2>1. Deliver(k.env) \in Seq(Env)
    BY <1>2 DEF Deliver, SessionTypes, WorkerType
  <2> QED
    BY Zenon, <1>1, <2>1 DEF TakeJob, Send, Result, Retry, SessionTypes
<1>5. failed' \in SUBSET Env
  BY Zenon, <1>1, <1>2 DEF TakeJob, Send, Result, RetryOrReport, Retry, SessionTypes, WorkerType
<1>6. PubKept /\ pub' \in [Sessions -> PubType]
  <2>1. pub[g].queue # <<>> => Tail(pub[g].queue) \in Seq(Env)
    BY <1>2 DEF PubType
  <2>2. pub' = pub \/ (pub[g].queue # <<>> /\ pub' = [pub EXCEPT ![g].queue = Tail(@)])
    BY Zenon, <1>1 DEF TakeJob, Send, Result, Retry
  <2>3. CASE pub' = pub
    BY Zenon, <2>3 DEF SessionTypes, PubKept
  <2>4. CASE pub[g].queue # <<>> /\ pub' = [pub EXCEPT ![g].queue = Tail(@)]
    <3> DEFINE r == [pub[g] EXCEPT !.queue = Tail(pub[g].queue)]
    <3>1. r \in PubType
      BY Zenon, <1>2, <2>1, <2>4 DEF PubType
    <3>2. /\ r.closed = pub[g].closed /\ r.cancelled = pub[g].cancelled
          /\ r.drained = pub[g].drained /\ r.accepted = pub[g].accepted
      BY Zenon, <1>2 DEF PubType
    <3>3. pub' = [pub EXCEPT ![g] = r]
      BY Zenon, <2>4
    <3> HIDE DEF r
    <3> QED
      BY Zenon, <3>1, <3>2, <3>3 DEF SessionTypes, PubKept
  <2> QED
    BY Zenon, <2>2, <2>3, <2>4
<1>7. worker' \in [Sessions -> [Workers -> WorkerType]]
  <2>1. \A at \in {"gone", "idle"} : SetWorker(g, w, at, None, 0) =>
           worker' \in [Sessions -> [Workers -> WorkerType]]
    BY DEF SetWorker, SessionTypes, WorkerType, None, Env
  <2>2. \A at \in {"await", "retry", "write"} : \A t \in Nat : \A v \in Env :
           SetWorker(g, w, at, v, t) => worker' \in [Sessions -> [Workers -> WorkerType]]
    BY DEF SetWorker, SessionTypes, WorkerType
  <2>3. k.env \in Env /\ k.try \in Nat /\ k.try + 1 \in Nat
    BY <1>2 DEF WorkerType
  <2>4. pub[g].queue # <<>> => Head(pub[g].queue) \in Env
    BY <1>2 DEF PubType
  <2> QED
    BY Zenon, <1>1, <2>1, <2>2, <2>3, <2>4 DEF TakeJob, Send, Result, RetryOrReport, Retry
<1>8. UNCHANGED <<session, cancelled>>
  BY Zenon DEF Publisher
<1>9. SessionTypes'
  BY <1>3, <1>4, <1>5, <1>6, <1>7, <1>8 DEF session, SessionTypes, Workers
<1>10. gen > 0 => gen \in Sessions
  BY Zenon, GenIsSession
<1>11. Protocol'
  BY Zenon, <1>6, <1>8, <1>10 DEF session, Protocol, PubKept, InSession
<1> QED
  BY Zenon, <1>6, <1>9, <1>11

\* The invariant is inductive.
LEMMA IInvStep == IInv /\ [Next]_vars => IInv'
<1> SUFFICES ASSUME IInv, [Next]_vars PROVE IInv'
  BY ZenonT(60)
<1>1. CASE UNCHANGED vars
  BY SMTT(30), <1>1 DEF vars, session, IInv, SessionTypes, Protocol, Workers
<1>2. CASE Cancel
  BY <1>2 DEF Cancel, session, IInv, SessionTypes, Protocol, Workers
<1>3. CASE Main
  BY Zenon, <1>3, ConnectStep, ReadStep, PublishStep, CloseStep DEF Main, Procs
<1>4. CASE Refresh
  BY Zenon, <1>4, ReadStep, PublishStep DEF Refresh, Procs
<1> QED
  BY Zenon, <1>1, <1>2, <1>3, <1>4, PublisherStep DEF Next

\* Spec keeps the invariant.
LEMMA Inductive == Spec => []IInv
<1>1. Init => IInv
  BY Zenon, IInvInit
<1>2. IInv /\ [Next]_vars => IInv'
  BY Zenon, IInvStep
<1> QED
  BY <1>1, <1>2, PTL DEF Spec

\* In every session of every runner nobody is inside, or can still enter, Publish of a
\* publisher that Close has closed.
THEOREM CloseIsQuiet == Spec => []ClosedIsQuiet
<1>1. IInv => ClosedIsQuiet
  BY Zenon DEF IInv, SessionTypes, Protocol, ClosedIsQuiet, InSession, Procs
<1> QED
  BY <1>1, Inductive, PTL

-----------------------------------------------------------------------------
(* GracefulDrain: an accepted envelope is in the queue, with a worker, in the stream or
   reported, as long as the publisher's context is not done. *)

Busy(k) == k.at \in {"write", "await", "retry"}
Queued(g, v) == \E i \in 1..Len(pub[g].queue) : pub[g].queue[i] = v
InHand(g, v) == \E w \in Workers : Busy(worker[g][w]) /\ worker[g][w].env = v
Settled(v) == v \in Range(stream) \/ v \in failed

Kept(g) ==
  ~PublishCtxDone(g) =>
    \A v \in pub[g].accepted : Queued(g, v) \/ InHand(g, v) \/ Settled(v)

\* A worker leaves a publisher that is still wanted only when it is closed and empty.
LeftEmpty(g) ==
  ~PublishCtxDone(g) =>
    \A w \in Workers : worker[g][w].at = "gone" => pub[g].closed /\ pub[g].queue = <<>>

DrainedSettled(g) ==
  pub[g].drained => pub[g].closed /\ \A v \in pub[g].accepted : Settled(v)

DrainInv(g) == Kept(g) /\ LeftEmpty(g) /\ DrainedSettled(g)
AllDrain == \A g \in Sessions : DrainInv(g)

\* What the session does leaves what is settled settled.
LEMMA SettledStays ==
  ASSUME IInv, NEW v, Settled(v),
         \/ UNCHANGED stream
         \/ \E u \in Env : stream' = Deliver(u),
         failed \subseteq failed'
  PROVE  Settled(v)'
<1>1. CASE v \in failed
  BY Zenon, <1>1 DEF Settled
<1>2. CASE v \in Range(stream) /\ UNCHANGED stream
  BY Zenon, <1>2 DEF Settled, Range
<1>3. ASSUME NEW u \in Env, v \in Range(stream), stream' = Deliver(u) PROVE Settled(v)'
  <2>1. stream \in Seq(Env)
    BY Zenon DEF IInv, SessionTypes
  <2> QED
    BY <1>3, <2>1 DEF Settled, Deliver, Range
<1> QED
  BY Zenon, <1>1, <1>2, <1>3 DEF Settled

\* A step that leaves one publisher, its workers and the stream alone leaves its drain alone.
LEMMA DrainFrame ==
  ASSUME IInv, NEW g \in Sessions, DrainInv(g),
         pub'[g] = pub[g], worker'[g] = worker[g], workers' = workers,
         cancelled => cancelled', stream' = stream, failed \subseteq failed'
  PROVE  DrainInv(g)'
<1>1. \A v : Settled(v) => Settled(v)'
  BY Zenon, SettledStays
<1>2. PublishCtxDone(g) => PublishCtxDone(g)'
  BY ZenonT(60) DEF PublishCtxDone
<1>3. \A v : Queued(g, v) = Queued(g, v)' /\ InHand(g, v) = InHand(g, v)'
  BY ZenonT(60) DEF Queued, InHand, Workers
<1>4. Kept(g)'
  BY ZenonT(60), <1>1, <1>2, <1>3 DEF DrainInv, Kept
<1>5. LeftEmpty(g)'
  BY Zenon, <1>2 DEF DrainInv, LeftEmpty, Workers
<1>6. DrainedSettled(g)'
  BY Zenon, <1>1 DEF DrainInv, DrainedSettled
<1> QED
  BY Zenon, <1>4, <1>5, <1>6 DEF DrainInv

\* Publish adds to the queue what it adds to the accepted envelopes.
LEMMA DrainPublish == \A p \in Procs : IInv /\ AllDrain /\ Publish(p) => AllDrain'
<1> SUFFICES ASSUME NEW p \in Procs, IInv, AllDrain, Publish(p), NEW g \in Sessions
             PROVE DrainInv(g)'
  BY Zenon DEF AllDrain, Sessions
<1>1. gen \in Sessions /\ ~pub[gen].closed
  BY Zenon, GenIsSession DEF IInv, Publish, Protocol, InSession, Procs
<1>2. /\ UNCHANGED <<worker, workers, cancelled, stream>>
      /\ failed \subseteq failed'
  BY Zenon DEF Publish
<1>3. CASE pub'[g] = pub[g]
  BY Zenon, <1>2, <1>3, DrainFrame DEF AllDrain
<1>4. CASE /\ g = gen
           /\ pub' = [pub EXCEPT ![gen].queue = Append(@, held[p]),
                                 ![gen].accepted = @ \cup {held[p]}]
  <2> DEFINE q == pub[g].queue
  <2>1. pub[g] \in PubType /\ held[p] \in Env /\ q \in Seq(Env)
    BY Zenon DEF IInv, SessionTypes, PubType
  <2>2. /\ pub'[g].queue = Append(q, held[p]) /\ pub'[g].accepted = pub[g].accepted \cup {held[p]}
        /\ pub'[g].drained = pub[g].drained /\ pub'[g].cancelled = pub[g].cancelled
    BY Zenon, <1>4, <2>1 DEF IInv, SessionTypes, PubType
  <2>3. /\ Len(Append(q, held[p])) = Len(q) + 1 /\ Append(q, held[p])[Len(q) + 1] = held[p]
        /\ \A i \in 1..Len(q) : Append(q, held[p])[i] = q[i]
        /\ Len(q) \in Nat
    BY SMTT(30), <2>1
  <2>4. \A v : (Queued(g, v) \/ v = held[p]) => Queued(g, v)'
    BY SMTT(30), <2>2, <2>3 DEF Queued
  <2>5. \A v : InHand(g, v) => InHand(g, v)'
    BY Zenon, <1>2 DEF InHand, Workers
  <2>6. \A v : Settled(v) => Settled(v)'
    BY Zenon, <1>2, SettledStays
  <2>7. PublishCtxDone(g)' = PublishCtxDone(g)
    BY ZenonT(60), <1>2, <2>2 DEF PublishCtxDone
  <2>8. Kept(g)'
    BY Zenon, <2>2, <2>4, <2>5, <2>6, <2>7 DEF AllDrain, DrainInv, Kept
  <2>9. LeftEmpty(g)'
    BY Zenon, <1>1, <1>2, <1>4, <2>7 DEF AllDrain, DrainInv, LeftEmpty, Workers
  <2>10. ~pub[g].drained
    BY Zenon, <1>1, <1>4 DEF AllDrain, DrainInv, DrainedSettled
  <2> QED
    BY Zenon, <2>2, <2>8, <2>9, <2>10 DEF DrainInv, DrainedSettled
<1>5. \/ pub' = pub
      \/ pub' = [pub EXCEPT ![gen].queue = Append(@, held[p]),
                            ![gen].accepted = @ \cup {held[p]}]
  BY ZenonT(60) DEF Publish
<1> QED
  BY Zenon, <1>1, <1>3, <1>4, <1>5 DEF IInv, SessionTypes

\* Close reports a drain only when every worker has left, so that the queue is empty and
\* no worker has an envelope.
LEMMA DrainClose == IInv /\ AllDrain /\ Close => AllDrain'
<1> SUFFICES ASSUME IInv, AllDrain, Close, NEW g \in Sessions PROVE DrainInv(g)'
  BY Zenon DEF AllDrain, Sessions
<1>1. gen \in Sessions /\ pub[gen] \in PubType
  BY Zenon, GenIsSession DEF IInv, Close, JoinRefresh, Protocol, InSession, SessionTypes
<1>2. UNCHANGED <<worker, workers, cancelled, stream, failed>>
  BY Zenon DEF Close
<1>3. CASE g # gen
  <2>1. pub'[g] = pub[g]
    BY Zenon, <1>1, <1>3 DEF Close, JoinRefresh, IInv, SessionTypes
  <2> QED
    BY Zenon, <1>2, <2>1, DrainFrame DEF AllDrain
<1>4. CASE g = gen
  <2>1. /\ pub'[g].queue = pub[g].queue /\ pub'[g].accepted = pub[g].accepted
        /\ pub[g].cancelled => pub'[g].cancelled
        /\ pub[g].closed => pub'[g].closed
        /\ pub'[g].drained # pub[g].drained =>
             pc = "drain" /\ Drained /\ pub'[g].drained = ~cancelled
    <3>1. CASE JoinRefresh
      BY Zenon, <1>1, <1>4, <3>1 DEF JoinRefresh, IInv, SessionTypes, PubType
    <3>2. CASE /\ pc = "drain" /\ Drained
               /\ pub' = [pub EXCEPT ![gen].cancelled = TRUE, ![gen].drained = ~cancelled]
      BY Zenon, <1>1, <1>4, <3>2 DEF IInv, SessionTypes, PubType
    <3>3. CASE pub' = [pub EXCEPT ![gen].cancelled = TRUE]
      BY Zenon, <1>1, <1>4, <3>3 DEF IInv, SessionTypes, PubType
    <3>4. CASE pub' = [pub EXCEPT ![gen].abandoned = ~Drained]
      BY Zenon, <1>1, <1>4, <3>4 DEF IInv, SessionTypes, PubType
    <3> QED
      BY Zenon, <3>1, <3>2, <3>3, <3>4 DEF Close
  <2>2. \A v : /\ Queued(g, v)' = Queued(g, v) /\ InHand(g, v)' = InHand(g, v)
               /\ Settled(v)' = Settled(v)
    BY Zenon, <1>2, <2>1 DEF Queued, InHand, Workers, Settled, Range
  <2>3. PublishCtxDone(g) => PublishCtxDone(g)'
    BY ZenonT(60), <1>2, <2>1 DEF PublishCtxDone
  <2>4. Kept(g)'
    BY ZenonT(60), <2>1, <2>2, <2>3 DEF AllDrain, DrainInv, Kept
  <2>5. LeftEmpty(g)'
    BY ZenonT(60), <1>2, <2>1, <2>3 DEF AllDrain, DrainInv, LeftEmpty, Workers
  <2>6. CASE pub'[g].drained = pub[g].drained
    BY Zenon, <2>1, <2>2, <2>4, <2>5, <2>6 DEF AllDrain, DrainInv, DrainedSettled
  <2>7. CASE pc = "drain" /\ Drained /\ pub'[g].drained = ~cancelled
    <3>1. pub[g].closed /\ ~pub[g].cancelled
      BY Zenon, <1>4, <2>7 DEF IInv, Protocol
    <3>2. CASE cancelled
      BY Zenon, <2>4, <2>5, <2>7, <3>2 DEF DrainInv, DrainedSettled
    <3>3. CASE ~cancelled
      <4>1. ~PublishCtxDone(g)
        BY Zenon, <3>1, <3>3 DEF PublishCtxDone
      <4>2. \A v : ~InHand(g, v)
        BY Zenon, <1>4, <2>7 DEF InHand, Drained, Busy
      <4>3. pub[g].queue = <<>>
        <5>1. 1 \in Workers
          BY DEF IInv, SessionTypes, Workers
        <5> QED
          BY Zenon, <1>4, <2>7, <4>1, <5>1 DEF Drained, AllDrain, DrainInv, LeftEmpty
      <4>4. \A v : ~Queued(g, v)
        BY <4>3 DEF Queued
      <4>5. \A v \in pub[g].accepted : Settled(v)
        BY Zenon, <4>1, <4>2, <4>4 DEF AllDrain, DrainInv, Kept
      <4> QED
        BY Zenon, <2>1, <2>2, <2>4, <2>5, <3>1, <4>5 DEF DrainInv, DrainedSettled
    <3> QED
      BY Zenon, <3>2, <3>3 DEF IInv, SessionTypes
  <2> QED
    BY Zenon, <2>1, <2>6, <2>7
<1> QED
  BY Zenon, <1>3, <1>4

\* Opening a session starts its workers on a publisher that has accepted nothing yet.
LEMMA DrainOpen == IInv /\ AllDrain /\ (Connect \/ Backoff) => AllDrain'
<1> SUFFICES ASSUME IInv, AllDrain, Connect \/ Backoff, NEW g \in Sessions
             PROVE DrainInv(g)'
  BY ZenonT(60) DEF AllDrain, Sessions
<1>1. UNCHANGED <<pub, workers, cancelled, stream, failed>>
  BY Zenon DEF Connect, Backoff, ConnectEcoFlow, ConnectPecron, ConnectAnker, Fails,
         CredentialRejected, Open
<1>2. CASE worker'[g] = worker[g]
  BY ZenonT(60), <1>1, <1>2, DrainFrame DEF AllDrain
<1>3. CASE g = gen + 1 /\ worker' = [worker EXCEPT ![gen + 1] = [w \in Workers |-> Idle]]
  <2>1. pub[g].accepted = {} /\ ~pub[g].drained
    BY <1>3 DEF IInv, SessionTypes, Protocol
  <2>2. \A w \in Workers : worker'[g][w].at = "idle"
    BY ZenonT(60), <1>3 DEF IInv, SessionTypes, Idle
  <2> QED
    BY ZenonT(60), <1>1, <2>1, <2>2 DEF DrainInv, Kept, LeftEmpty, DrainedSettled, Workers
<1>4. \/ worker' = worker
      \/ worker' = [worker EXCEPT ![gen + 1] = [w \in Workers |-> Idle]]
  BY Zenon DEF Connect, Backoff, ConnectEcoFlow, ConnectPecron, ConnectAnker, Fails,
         CredentialRejected, Open
<1>5. g # gen + 1 /\ worker' = [worker EXCEPT ![gen + 1] = [w \in Workers |-> Idle]]
        => worker'[g] = worker[g]
  BY Zenon DEF IInv, SessionTypes
<1> QED
  BY Zenon, <1>2, <1>3, <1>4, <1>5

\* A worker takes an envelope from the queue into its hand, and lets go of it only when
\* the server has it, when its loss is reported, or when the context is done.
LEMMA DrainWorker == IInv /\ AllDrain /\ Publisher => AllDrain'
<1> SUFFICES ASSUME IInv, AllDrain, Publisher PROVE AllDrain'
  BY Zenon
<1>1. PICK g \in Sessions, w \in Workers :
        TakeJob(g, w) \/ Send(g, w) \/ Result(g, w) \/ Retry(g, w)
  BY Zenon DEF Publisher
<1>2. worker[g][w] \in WorkerType /\ pub[g] \in PubType /\ worker[g] \in [Workers -> WorkerType]
  BY ZenonT(60) DEF IInv, SessionTypes
<1> DEFINE k == worker[g][w]
<1>3. /\ UNCHANGED <<workers, cancelled>>
      /\ failed \subseteq failed'
      /\ stream' = stream \/ stream' = Deliver(k.env)
  BY <1>1 DEF Publisher, session, TakeJob, Send, Result, RetryOrReport, Retry
<1>4. \A v : Settled(v) => Settled(v)'
  <2>1. k.env \in Env
    BY Zenon, <1>2 DEF WorkerType
  <2> QED
    BY ZenonT(60), <1>3, <2>1, SettledStays
<1>5. PubKept
  BY ZenonT(60), PublisherStep
<1>6. \A h \in Sessions : PublishCtxDone(h)' = PublishCtxDone(h)
  BY ZenonT(60), <1>3, <1>5 DEF PubKept, PublishCtxDone
<1>7. \A h \in Sessions : DrainedSettled(h)'
  BY ZenonT(60), <1>4, <1>5 DEF PubKept, DrainedSettled, AllDrain, DrainInv
<1>8. \A h \in Sessions : h # g => pub'[h] = pub[h] /\ worker'[h] = worker[h]
  BY Zenon, <1>1 DEF TakeJob, Send, Result, RetryOrReport, Retry, SetWorker, IInv, SessionTypes
<1>9. \A h \in Sessions : h # g => Kept(h)' /\ LeftEmpty(h)'
  <2> SUFFICES ASSUME NEW h \in Sessions, h # g PROVE Kept(h)' /\ LeftEmpty(h)'
    BY Zenon
  <2>1. pub'[h] = pub[h] /\ worker'[h] = worker[h]
    BY Zenon, <1>8
  <2>2. \A v : Queued(h, v)' = Queued(h, v) /\ InHand(h, v)' = InHand(h, v)
    BY Zenon, <1>3, <2>1 DEF Queued, InHand, Workers
  <2>3. Kept(h) /\ LeftEmpty(h)
    BY ZenonT(60) DEF AllDrain, DrainInv
  <2>4. Kept(h)'
    BY Zenon, <1>4, <1>6, <2>1, <2>2, <2>3 DEF Kept
  <2>5. LeftEmpty(h)'
    BY Zenon, <1>3, <1>6, <2>1, <2>3 DEF LeftEmpty, Workers
  <2> QED
    BY Zenon, <2>4, <2>5
<1>10. Kept(g)' /\ LeftEmpty(g)'
  <2>1. CASE PublishCtxDone(g)
    BY Zenon, <1>6, <2>1 DEF Kept, LeftEmpty
  <2>2. CASE ~PublishCtxDone(g)
    <3>1. /\ \A v \in pub[g].accepted : Queued(g, v) \/ InHand(g, v) \/ Settled(v)
          /\ \A u \in Workers : worker[g][u].at = "gone" => pub[g].closed /\ pub[g].queue = <<>>
      BY ZenonT(60), <2>2 DEF AllDrain, DrainInv, Kept, LeftEmpty
    <3>2. \A u \in Workers : u # w => worker'[g][u] = worker[g][u]
      BY <1>1, <1>2 DEF TakeJob, Send, Result, RetryOrReport, Retry, SetWorker, IInv, SessionTypes
    <3>3. pub[g].queue = <<>> => pub'[g].queue = <<>>
      BY ZenonT(60), <1>1, <1>2 DEF TakeJob, Send, Result, Retry
    <3>4. worker'[g][w].at = "gone" => pub[g].closed /\ pub[g].queue = <<>>
      BY SMTT(30), <1>1, <1>2, <2>2 DEF TakeJob, Send, Result, RetryOrReport, Retry, SetWorker, IInv,
         SessionTypes
    <3>5. LeftEmpty(g)'
      BY ZenonT(60), <1>3, <1>5, <3>1, <3>2, <3>3, <3>4 DEF LeftEmpty, Workers, PubKept
    <3>6. \A v : Queued(g, v) => Queued(g, v)' \/ (Busy(worker'[g][w]) /\ worker'[g][w].env = v)
      <4> SUFFICES ASSUME NEW v, Queued(g, v)
                   PROVE Queued(g, v)' \/ (Busy(worker'[g][w]) /\ worker'[g][w].env = v)
        BY Zenon
      <4>1. CASE pub' = pub
        BY Zenon, <4>1 DEF Queued
      <4>2. CASE /\ pub[g].queue # <<>> /\ pub' = [pub EXCEPT ![g].queue = Tail(@)]
                 /\ SetWorker(g, w, "write", Head(pub[g].queue), 0)
        <5> DEFINE q == pub[g].queue
        <5>1. q \in Seq(Env) /\ q # <<>>
          BY Zenon, <1>2, <4>2 DEF PubType
        <5>2. pub'[g].queue = Tail(q)
          BY Zenon, <1>2, <4>2 DEF PubType, IInv, SessionTypes
        <5>3. Busy(worker'[g][w]) /\ worker'[g][w].env = Head(q)
          BY Zenon, <1>2, <4>2 DEF SetWorker, Busy, IInv, SessionTypes
        <5>4. PICK i \in 1..Len(q) : q[i] = v
          BY Zenon DEF Queued
        <5>5. CASE i = 1
          BY <5>1, <5>3, <5>4, <5>5
        <5>6. CASE i # 1
          <6>1. i - 1 \in 1..Len(Tail(q)) /\ Tail(q)[i - 1] = v
            BY SMTT(30), <5>1, <5>4, <5>6
          <6> QED
            BY Zenon, <5>2, <6>1 DEF Queued
        <5> QED
          BY Zenon, <5>5, <5>6
      <4> QED
        BY Zenon, <1>1, <2>2, <4>1, <4>2 DEF TakeJob, Send, Result, Retry
    <3>7. \A v : Busy(k) /\ k.env = v =>
                   (Busy(worker'[g][w]) /\ worker'[g][w].env = v) \/ Settled(v)'
      <4> SUFFICES ASSUME NEW v, Busy(k), k.env = v
                   PROVE (Busy(worker'[g][w]) /\ worker'[g][w].env = v) \/ Settled(v)'
        BY Zenon
      <4>1. CASE TakeJob(g, w)
        BY Zenon, <4>1 DEF TakeJob, Busy
      <4>2. CASE Send(g, w)
        BY ZenonT(60), <1>2, <4>2 DEF Send, SetWorker, Busy, IInv, SessionTypes
      <4>3. CASE Retry(g, w)
        BY SMTT(30), <1>2, <2>2, <4>3 DEF Retry, SetWorker, Busy, IInv, SessionTypes
      <4>4. CASE Result(g, w)
        <5>1. CASE v \in Range(stream)
          BY Zenon, <1>4, <5>1 DEF Settled
        <5>2. CASE failed' = failed \cup {v}
          BY Zenon, <5>2 DEF Settled
        <5>3. CASE SetWorker(g, w, "retry", v, k.try)
          BY Zenon, <1>2, <5>3 DEF SetWorker, Busy, IInv, SessionTypes
        <5> QED
          BY Zenon, <2>2, <4>4, <5>1, <5>2, <5>3 DEF Result, RetryOrReport
      <4> QED
        BY Zenon, <1>1, <4>1, <4>2, <4>3, <4>4
    <3>8. \A v : InHand(g, v) => InHand(g, v)' \/ Settled(v)'
      <4> SUFFICES ASSUME NEW v, NEW u \in Workers, Busy(worker[g][u]), worker[g][u].env = v
                   PROVE InHand(g, v)' \/ Settled(v)'
        BY Zenon DEF InHand
      <4>1. Workers' = Workers
        BY Zenon, <1>3 DEF Workers
      <4>2. CASE u = w
        BY Zenon, <3>7, <4>1, <4>2 DEF InHand
      <4>3. CASE u # w
        BY ZenonT(60), <3>2, <4>1, <4>3 DEF InHand
      <4> QED
        BY ZenonT(60), <4>2, <4>3
    <3>9. \A v : Queued(g, v) => Queued(g, v)' \/ InHand(g, v)'
      BY SMTT(30), <1>3, <3>6 DEF InHand, Workers
    <3>10. Kept(g)'
      BY ZenonT(60), <1>4, <1>5, <3>1, <3>8, <3>9 DEF Kept, PubKept
    <3> QED
      BY ZenonT(60), <3>5, <3>10
  <2> QED
    BY Zenon, <2>1, <2>2
<1> QED
  BY Zenon, <1>7, <1>9, <1>10 DEF AllDrain, DrainInv, Sessions

\* Every step keeps the drains.
LEMMA DrainStep == IInv /\ AllDrain /\ [Next]_vars => AllDrain'
<1> SUFFICES ASSUME IInv, AllDrain, [Next]_vars PROVE AllDrain'
  BY Zenon
<1>1. CASE UNCHANGED <<pub, worker, workers, stream, failed>> /\ (cancelled => cancelled')
  BY Zenon, <1>1, DrainFrame DEF AllDrain, Sessions
<1>2. CASE Publisher
  BY Zenon, <1>2, DrainWorker
<1>3. CASE Connect \/ Backoff
  BY Zenon, <1>3, DrainOpen
<1>4. CASE Close
  BY Zenon, <1>4, DrainClose
<1>5. CASE Publish("main") \/ Publish("refresh")
  BY ZenonT(60), <1>5, DrainPublish DEF Procs
<1>6. CASE Snapshot("main") \/ Snapshot("refresh") \/ Read \/ RefreshWakes \/ CancelRefresh
           \/ Cancel \/ UNCHANGED vars
  BY <1>1, <1>6 DEF Snapshot, Read, RefreshWakes, CancelRefresh, Cancel, vars, session
<1> QED
  BY Zenon, <1>2, <1>3, <1>4, <1>5, <1>6 DEF Next, Main, Refresh

\* A Close whose workers left in time has lost no envelope silently, for every queue
\* size, number of workers, retries and sessions.
THEOREM DrainIsGraceful == Spec => []GracefulDrain
<1>1. Init => AllDrain
  <2> SUFFICES ASSUME Init, NEW g \in Sessions PROVE DrainInv(g)
    BY Zenon DEF AllDrain
  <2>1. pub[g] = NewPublisher /\ \A w \in Workers : worker[g][w].at = "off"
    BY ZenonT(60) DEF Init, Idle
  <2>2. pub[g].accepted = {} /\ ~pub[g].drained
    BY <2>1 DEF NewPublisher
  <2> QED
    BY Zenon, <2>1, <2>2 DEF DrainInv, Kept, LeftEmpty, DrainedSettled
<1>2. IInv /\ AllDrain /\ [Next]_vars => AllDrain'
  BY ZenonT(60), DrainStep
<1>3. IInv /\ AllDrain => GracefulDrain
  <2> SUFFICES ASSUME IInv, AllDrain, NEW g \in Sessions, pub[g].drained,
                      NEW v \in pub[g].accepted, v \notin failed
               PROVE v \in Range(stream)
    BY ZenonT(60) DEF GracefulDrain
  <2> QED
    BY Zenon DEF AllDrain, DrainInv, DrainedSettled, Settled
<1> QED
  BY <1>1, <1>2, <1>3, Inductive, PTL DEF Spec

-----------------------------------------------------------------------------
(* StreamInOrder: with one worker the messages that are on their way (with the worker,
   in the queue, held by main) are in the order the broker sent them, and none of them
   comes before one that is in the stream. *)

\* An MQTT message, and the worker carries one.
IsM(v) == v[1] = "m"
Carries(k) == Busy(k) /\ IsM(k.env)

\* The numbers of the envelopes in a sequence.
Numbered(q) == Len(q) \in Nat /\ \A i \in 1..Len(q) : q[i][2] \in Nat

\* Messages of the provider via in the stream: none is newer than top, and they are in order.
StreamOK(via, s, top) ==
  /\ \A i \in 1..Len(s) : IsM(s[i]) => s[i][2] <= top
  /\ \A i, j \in 1..Len(s) : i < j /\ IsM(s[i]) /\ IsM(s[j]) =>
        \/ s[i][2] < s[j][2]
        \/ s[i][2] = s[j][2] /\ via # "pulsemqtt"
  /\ via = "pulsemqtt" => \A i \in 1..Len(s) : IsM(s[i]) => s[i][3] = 0

\* Messages in the queue q, with r messages read.
QueueOK(via, q, r) ==
  /\ \A i, j \in 1..Len(q) : i < j /\ IsM(q[i]) /\ IsM(q[j]) => q[i][2] < q[j][2]
  /\ \A i \in 1..Len(q) : IsM(q[i]) => q[i][2] <= r
  /\ via = "pulsemqtt" => \A i \in 1..Len(q) : IsM(q[i]) => q[i][3] = 0

\* The message the worker k carries.
HandOK(via, q, k, r) ==
  Carries(k) => /\ k.env[2] <= r
                /\ \A i \in 1..Len(q) : IsM(q[i]) => k.env[2] < q[i][2]
                /\ via = "pulsemqtt" => k.env[3] = 0

\* The message h that main is putting into the queue.
HeldOK(via, q, k, h, r) ==
  IsM(h) => /\ h[2] = r
            /\ \A i \in 1..Len(q) : IsM(q[i]) => q[i][2] < r
            /\ Carries(k) => k.env[2] < r
            /\ via = "pulsemqtt" => h[3] = 0

\* What is in the stream is not newer than what is on its way.
BehindOK(s, q, k) ==
  \A i \in 1..Len(s) : IsM(s[i]) =>
     /\ Carries(k) => s[i][2] <= k.env[2]
     /\ \A j \in 1..Len(q) : IsM(q[j]) => s[i][2] <= q[j][2]

Flow(via, s, q, k, h, r) == QueueOK(via, q, r) /\ HandOK(via, q, k, r) /\ HeldOK(via, q, k, h, r) /\ BehindOK(s, q, k)

\* The places of a sequence that has grown by one.
LEMMA OneMore ==
  ASSUME NEW n \in Nat
  PROVE  /\ \A i \in 1..n + 1 : i \in 1..n \/ i = n + 1
         /\ \A i, j \in 1..n + 1 : i < j => i \in 1..n
OBVIOUS

\* The order of the numbers of envelopes.
LEMMA Smaller == \A a, b \in Nat : (a < b => a <= b) /\ (a <= b => a < b \/ a = b)
OBVIOUS

\* An older number stays older.
LEMMA Transitive == \A a, b, c \in Nat : a <= b /\ b <= c => a <= c
OBVIOUS

\* A number read is below the next one.
LEMMA NextNumber == \A a, b \in Nat : b + 1 \in Nat /\ a <= a /\ (a <= b => a < b + 1 /\ a <= b + 1)
OBVIOUS

\* Main's Publish puts the newest message behind the others; a snapshot is no message.
LEMMA FlowPut ==
  ASSUME NEW via, NEW s, NEW q, NEW k, NEW h, NEW r \in Nat, NEW q2, NEW v, NEW h2,
         Flow(via, s, q, k, h, r), StreamOK(via, s, r) \/ ~IsM(v),
         Numbered(q), v[2] \in Nat,
         Len(q2) = Len(q) + 1, q2[Len(q) + 1] = v, \A i \in 1..Len(q) : q2[i] = q[i],
         \/ v = h /\ ~IsM(h2)
         \/ ~IsM(v) /\ h2 = h
  PROVE  Flow(via, s, q2, k, h2, r)
<1>1. \A i \in 1..Len(q2) : i \in 1..Len(q) \/ (i = Len(q) + 1 /\ q2[i] = v)
  BY ZenonT(60), OneMore DEF Numbered
<1>2. IsM(v) => v[2] = r /\ (\A i \in 1..Len(q) : IsM(q[i]) => q[i][2] < r) /\ (Carries(k) => k.env[2] < r)
                /\ (via = "pulsemqtt" => v[3] = 0)
  BY ZenonT(60) DEF Flow, HeldOK
<1>3. QueueOK(via, q2, r)
  <2>1. \A i \in 1..Len(q2) : IsM(q2[i]) => q2[i][2] <= r /\ (via = "pulsemqtt" => q2[i][3] = 0)
    <3>1. IsM(v) => v[2] <= r
      BY ZenonT(60), <1>2, NextNumber
    <3> QED
      BY ZenonT(60), <1>1, <1>2, <3>1 DEF Flow, QueueOK
  <2>2. \A i, j \in 1..Len(q2) : i < j => i \in 1..Len(q)
    BY ZenonT(60), OneMore DEF Numbered
  <2>3. \A i, j \in 1..Len(q2) : i < j /\ IsM(q2[i]) /\ IsM(q2[j]) => q2[i][2] < q2[j][2]
    BY ZenonT(60), <1>1, <1>2, <2>2 DEF Flow, QueueOK
  <2> QED
    BY ZenonT(60), <2>1, <2>3 DEF QueueOK
<1>4. HandOK(via, q2, k, r)
  BY ZenonT(60), <1>1, <1>2 DEF Flow, HandOK
<1>5. HeldOK(via, q2, k, h2, r)
  BY ZenonT(60), <1>1 DEF Flow, HeldOK
<1>6. BehindOK(s, q2, k)
  BY ZenonT(60), <1>1, <1>2 DEF Flow, BehindOK, StreamOK
<1> QED
  BY ZenonT(60), <1>3, <1>4, <1>5, <1>6 DEF Flow

\* The worker takes the oldest message.
LEMMA FlowTake ==
  ASSUME NEW via, NEW s, NEW q, NEW k, NEW h, NEW r \in Nat, NEW q2, NEW k2,
         Flow(via, s, q, k, h, r), Numbered(q), Len(q) > 0,
         Len(q2) = Len(q) - 1, \A i \in 1..Len(q2) : q2[i] = q[i + 1],
         ~Busy(k2) \/ k2.env = q[1]
  PROVE  Flow(via, s, q2, k2, h, r)
<1>1. Len(q2) \in Nat /\ 1 \in 1..Len(q)
      /\ \A i \in 1..Len(q2) : i + 1 \in 1..Len(q) /\ 1 < i + 1 /\ q2[i] = q[i + 1]
  BY SMTT(30) DEF Numbered
<1>2. QueueOK(via, q2, r)
  <2>1. \A i, j \in 1..Len(q2) : i < j => i + 1 < j + 1
    BY <1>1
  <2> QED
    BY ZenonT(60), <1>1, <2>1 DEF Flow, QueueOK
<1>3. HandOK(via, q2, k2, r)
  BY Zenon, <1>1 DEF Flow, HandOK, QueueOK, Carries
<1>4. HeldOK(via, q2, k2, h, r)
  BY Zenon, <1>1 DEF Flow, HeldOK, Carries
<1>5. BehindOK(s, q2, k2)
  BY ZenonT(60), <1>1 DEF Flow, BehindOK, Carries
<1> QED
  BY ZenonT(60), <1>2, <1>3, <1>4, <1>5 DEF Flow

\* The worker goes on with the message it has, or lets go of it.
LEMMA FlowHand ==
  ASSUME NEW via, NEW s, NEW q, NEW k, NEW h, NEW r, NEW k2, Flow(via, s, q, k, h, r),
         Busy(k2) => Busy(k) /\ k2.env = k.env
  PROVE  Flow(via, s, q, k2, h, r)
BY Zenon DEF Flow, HandOK, HeldOK, BehindOK, Carries

\* The message the worker carries is stored behind the others.
LEMMA FlowDeliver ==
  ASSUME NEW via, NEW s, NEW q, NEW k, NEW h, NEW r \in Nat, NEW top \in Nat, NEW s2,
         Flow(via, s, q, k, h, r), StreamOK(via, s, top), r <= top, Numbered(s), Numbered(q), Busy(k),
         k.env[2] \in Nat,
         Len(s2) = Len(s) + 1, s2[Len(s) + 1] = k.env, \A i \in 1..Len(s) : s2[i] = s[i],
         \A i \in 1..Len(s) : ~(s[i][1] = k.env[1] /\ s[i][2] = k.env[2] /\ s[i][3] = k.env[3])
  PROVE  Flow(via, s2, q, k, h, r) /\ StreamOK(via, s2, top)
<1>1. \A i \in 1..Len(s2) : i \in 1..Len(s) \/ (i = Len(s) + 1 /\ s2[i] = k.env)
  BY ZenonT(60), OneMore DEF Numbered
<1>2. IsM(k.env) => /\ k.env[2] <= r /\ (\A i \in 1..Len(q) : IsM(q[i]) => k.env[2] < q[i][2])
                    /\ (\A i \in 1..Len(s) : IsM(s[i]) => s[i][2] <= k.env[2])
                    /\ (via = "pulsemqtt" => k.env[3] = 0)
  BY ZenonT(60) DEF Flow, HandOK, BehindOK, Carries
<1>3. BehindOK(s2, q, k)
  <2>1. k.env[2] <= k.env[2]
    BY ZenonT(60), NextNumber
  <2>2. IsM(k.env) => \A j \in 1..Len(q) : IsM(q[j]) => k.env[2] <= q[j][2]
    BY ZenonT(60), <1>2, Smaller DEF Numbered
  <2> QED
    BY ZenonT(60), <1>1, <1>2, <2>1, <2>2 DEF Flow, BehindOK, Carries
<1>4. \A i \in 1..Len(s) : IsM(s[i]) /\ IsM(k.env) =>
        s[i][2] < k.env[2] \/ (s[i][2] = k.env[2] /\ via # "pulsemqtt")
  <2> SUFFICES ASSUME NEW i \in 1..Len(s), IsM(s[i]), IsM(k.env), s[i][2] = k.env[2], via = "pulsemqtt"
               PROVE FALSE
    BY ZenonT(60), <1>2, Smaller DEF Numbered
  <2>1. s[i][3] = 0 /\ k.env[3] = 0 /\ s[i][1] = k.env[1]
    BY ZenonT(60), <1>2 DEF StreamOK, IsM
  <2> QED
    BY ZenonT(60), <2>1
<1>5. StreamOK(via, s2, top)
  <2>1. \A i \in 1..Len(s2) : IsM(s2[i]) => s2[i][2] <= top /\ (via = "pulsemqtt" => s2[i][3] = 0)
    <3>1. IsM(k.env) => k.env[2] <= top
      BY ZenonT(60), <1>2, Transitive
    <3> QED
      BY ZenonT(60), <1>1, <1>2, <3>1 DEF StreamOK
  <2>2. \A i, j \in 1..Len(s2) : i < j => i \in 1..Len(s)
    BY ZenonT(60), OneMore DEF Numbered
  <2>3. \A i, j \in 1..Len(s2) : i < j /\ IsM(s2[i]) /\ IsM(s2[j]) =>
          s2[i][2] < s2[j][2] \/ (s2[i][2] = s2[j][2] /\ via # "pulsemqtt")
    <3> SUFFICES ASSUME NEW i \in 1..Len(s2), NEW j \in 1..Len(s2), i < j, IsM(s2[i]), IsM(s2[j])
                 PROVE  s2[i][2] < s2[j][2] \/ (s2[i][2] = s2[j][2] /\ via # "pulsemqtt")
      BY Zenon
    <3>1. i \in 1..Len(s) /\ s2[i] = s[i]
      BY ZenonT(60), <2>2
    <3>2. CASE j \in 1..Len(s)
      BY ZenonT(60), <3>1, <3>2 DEF StreamOK
    <3>3. CASE s2[j] = k.env
      BY ZenonT(60), <1>4, <3>1, <3>3
    <3> QED
      BY ZenonT(60), <1>1, <3>2, <3>3
  <2> QED
    BY ZenonT(60), <2>1, <2>3 DEF StreamOK
<1> QED
  BY Zenon, <1>3, <1>5 DEF Flow

\* A stream below a number is below a greater one.
LEMMA StreamRaised ==
  ASSUME NEW via, NEW s, NEW t \in Nat, NEW u \in Nat, t <= u, Numbered(s), StreamOK(via, s, t)
  PROVE  StreamOK(via, s, u)
<1>1. \A i \in 1..Len(s) : IsM(s[i]) => s[i][2] <= u
  BY ZenonT(60), Transitive DEF StreamOK, Numbered
<1> QED
  BY Zenon, <1>1 DEF StreamOK

\* Main accepts the next message.
LEMMA FlowAccept ==
  ASSUME NEW via, NEW s, NEW q, NEW k, NEW h, NEW r \in Nat, NEW h2, Numbered(q), k.env[2] \in Nat,
         Flow(via, s, q, k, h, r), ~IsM(h2) \/ (h2[2] = r + 1 /\ (via = "pulsemqtt" => h2[3] = 0))
  PROVE  Flow(via, s, q, k, h2, r + 1)
<1>1. QueueOK(via, q, r + 1)
  BY ZenonT(60), NextNumber DEF Flow, QueueOK, Numbered
<1>2. HandOK(via, q, k, r + 1)
  BY ZenonT(60), NextNumber DEF Flow, HandOK
<1>3. HeldOK(via, q, k, h2, r + 1)
  BY DEF Flow, HeldOK, HandOK, QueueOK, Numbered
<1> QED
  BY ZenonT(60), <1>1, <1>2, <1>3 DEF Flow

-----------------------------------------------------------------------------
(* SessionTypeOK: the bounds of queue and retries, and where envelopes come from *)

CountsOK ==
  /\ read <= Messages /\ frames <= MaxFrames
  /\ \A p \in Procs : held[p] \in Envelopes \cup {None}
QueueBound(b) ==
  Range(b.queue) \subseteq b.accepted /\ b.accepted \subseteq Envelopes /\ Len(b.queue) <= QueueSize
WorkerBound(k) ==
  /\ k.try <= MaxRetries /\ k.env \in Envelopes \cup {None}
  /\ Busy(k) => k.env \in Envelopes
  /\ k.at = "retry" => k.try < MaxRetries
StoredOK == Range(stream) \cup failed \subseteq Envelopes

SBounds ==
  /\ CountsOK /\ StoredOK
  /\ \A g \in Sessions : QueueBound(pub[g])
  /\ \A g \in Sessions, w \in Workers : WorkerBound(worker[g][w])

\* Every runner starts with empty publishers.
LEMMA SBoundsInit == Init => SBounds
<1> SUFFICES ASSUME Init PROVE SBounds
  BY Zenon
<1>1. CountsOK
  BY SessionAssumption DEF Init, CountsOK, Procs
<1>2. Range(<<>>) = {} /\ Len(<<>>) = 0
  BY DEF Range
<1>3. StoredOK
  BY Zenon, <1>2 DEF Init, StoredOK
<1>4. QueueBound(NewPublisher)
  <2>1. NewPublisher.queue = <<>> /\ NewPublisher.accepted = {}
    BY Zenon DEF NewPublisher
  <2> QED
    BY <1>2, <2>1, SessionAssumption DEF QueueBound
<1>5. WorkerBound([Idle EXCEPT !.at = "off"])
  BY SessionAssumption DEF WorkerBound, Idle, Busy
<1>6. (\A g \in Sessions : pub[g] = NewPublisher)
      /\ \A g \in Sessions, w \in Workers : worker[g][w] = [Idle EXCEPT !.at = "off"]
  BY Zenon DEF Init
<1> QED
  BY Zenon, <1>1, <1>3, <1>4, <1>5, <1>6 DEF SBounds

\* Main and the refresh goroutine build envelopes within the bounds.
LEMMA CountsStep == IInv /\ SBounds /\ [Next]_vars => CountsOK'
<1> SUFFICES ASSUME IInv, SBounds, [Next]_vars PROVE CountsOK'
  BY Zenon
<1>0. /\ read \in Nat /\ frames \in Nat /\ read <= Messages /\ frames <= MaxFrames
      /\ held \in [Procs -> Env] /\ gen \in 0..MaxSessions
      /\ \A p \in Procs : held[p] \in Envelopes \cup {None}
      /\ {Messages, MaxFrames, MaxSessions} \subseteq Nat
  BY Zenon, SessionAssumption DEF IInv, SessionTypes, SBounds, CountsOK
<1>1. ASSUME UNCHANGED <<read, frames, held>> PROVE CountsOK'
  BY Zenon, <1>0, <1>1 DEF CountsOK, Envelopes
<1>2. CASE Backoff \/ RefreshWakes \/ CancelRefresh \/ Close \/ Publisher \/ Cancel \/ UNCHANGED vars
  BY Zenon, <1>1, <1>2 DEF Backoff, RefreshWakes, CancelRefresh, Close, Publisher, Cancel, session, vars
<1>3. CASE Connect
  <2>1. frames' = frames /\ held' = held /\ (read' = read \/ (heard /\ read' = read - 1))
    BY Zenon, <1>3 DEF Connect, ConnectEcoFlow, ConnectPecron, ConnectAnker, Fails, CredentialRejected, Open
  <2> QED
    BY <1>0, <2>1 DEF CountsOK, Envelopes
<1>4. ASSUME NEW p \in Procs, Publish(p) PROVE CountsOK'
  <2>1. UNCHANGED <<read, frames>> /\ held' = [held EXCEPT ![p] = None]
    BY Zenon, <1>4 DEF Publish
  <2> HIDE DEF Envelopes
  <2> QED
    BY Zenon, <1>0, <2>1 DEF CountsOK
<1>5. ASSUME NEW p \in Procs, Snapshot(p) PROVE CountsOK'
  <2>1. CASE UNCHANGED <<held, frames>>
    BY Zenon, <1>1, <1>5, <2>1 DEF Snapshot
  <2>2. CASE frames < MaxFrames /\ frames' = frames + 1
             /\ held' = [held EXCEPT ![p] = <<"q", frames + 1, gen>>]
    <3>1. <<"q", frames + 1, gen>> \in Envelopes
      BY <1>0, <2>2 DEF Envelopes
    <3>2. read' = read
      BY Zenon, <1>5 DEF Snapshot
    <3> HIDE DEF Envelopes
    <3> QED
      BY SMTT(30), <1>0, <2>2, <3>1, <3>2 DEF CountsOK
  <2> QED
    BY Zenon, <1>5, <2>1, <2>2 DEF Snapshot
<1>6. CASE Read
  <2>1. frames' = frames
    BY Zenon, <1>6 DEF Read
  <2>2. CASE Accept
    <3>1. Build(read + 1) \in Envelopes
      BY <1>0, <2>2 DEF Accept, Build, Envelopes
    <3>2. read' = read + 1 /\ read < Messages /\ held' = [held EXCEPT !["main"] = Build(read + 1)]
      BY Zenon, <2>2 DEF Accept
    <3> HIDE DEF Envelopes
    <3> QED
      BY SMTT(30), <1>0, <2>1, <3>1, <3>2 DEF CountsOK, Procs
  <2>3. CASE Skip
    BY <1>0, <2>1, <2>3 DEF Skip, CountsOK
  <2>4. CASE UNCHANGED <<read, held>>
    BY Zenon, <1>1, <2>1, <2>4
  <2> QED
    BY Zenon, <1>6, <2>2, <2>3, <2>4 DEF Read, ReadEcoFlow, ReadPecron, ReadAnker, ReadCancelled, ReadFails, EndSession
<1> QED
  BY Zenon, <1>2, <1>3, <1>4, <1>5, <1>6 DEF Next, Main, Refresh, Procs

\* Close leaves what was accepted and queued alone, and says when it leaves a worker behind.
LEMMA CloseIs ==
  ASSUME IInv, Close
  PROVE  /\ gen \in Sessions
         /\ \A g \in Sessions : /\ pub'[g].queue = pub[g].queue /\ pub'[g].accepted = pub[g].accepted
                                /\ g # gen => pub'[g] = pub[g]
         /\ \/ pc = "join" /\ pc' = "drain" /\ pub'[gen].abandoned = pub[gen].abandoned
            \/ pc = "drain" /\ pc' = "drain2" /\ pub'[gen].abandoned = pub[gen].abandoned
            \/ /\ pc = "drain" /\ pc' \in {"done", "backoff"} /\ Drained
               /\ pub'[gen].abandoned = pub[gen].abandoned
            \/ pc = "drain2" /\ pc' \in {"done", "backoff"} /\ pub'[gen].abandoned = ~Drained
<1>1. gen \in Sessions /\ pub[gen] \in PubType /\ pub \in [Sessions -> PubType]
  BY Zenon, GenIsSession DEF IInv, Close, JoinRefresh, Protocol, InSession, SessionTypes
<1>2. RunReturns(outcome) \in {"done", "backoff"}
  BY Zenon DEF RunReturns
<1>3. CASE JoinRefresh
  <2>1. pc = "join" /\ pc' = "drain" /\ pub' = [pub EXCEPT ![gen].closed = TRUE]
    BY Zenon, <1>3 DEF JoinRefresh
  <2> QED
    BY Zenon, <1>1, <2>1 DEF PubType
<1>4. CASE /\ pc = "drain" /\ Drained /\ pc' = RunReturns(outcome)
           /\ pub' = [pub EXCEPT ![gen].cancelled = TRUE, ![gen].drained = ~cancelled]
  BY Zenon, <1>1, <1>2, <1>4 DEF PubType
<1>5. CASE pc = "drain" /\ pc' = "drain2" /\ pub' = [pub EXCEPT ![gen].cancelled = TRUE]
  BY Zenon, <1>1, <1>5 DEF PubType
<1>6. CASE pc = "drain2" /\ pc' = RunReturns(outcome) /\ pub' = [pub EXCEPT ![gen].abandoned = ~Drained]
  <2>1. \A g \in Sessions : g # gen => pub'[g] = pub[g]
    BY Zenon, <1>1, <1>6
  <2>2. pub'[gen] = [pub[gen] EXCEPT !.abandoned = ~Drained]
    BY Zenon, <1>1, <1>6
  <2>3. /\ pub'[gen].queue = pub[gen].queue /\ pub'[gen].accepted = pub[gen].accepted
        /\ pub'[gen].abandoned = ~Drained
    BY Zenon, <1>1, <2>2 DEF PubType
  <2> QED
    BY Zenon, <1>1, <1>2, <1>6, <2>1, <2>3
<1> QED
  BY Zenon, <1>3, <1>4, <1>5, <1>6 DEF Close

\* The queues hold accepted envelopes only, and no more than QueueSize.
LEMMA QueuesStep == IInv /\ SBounds /\ [Next]_vars => \A g \in Sessions : QueueBound(pub'[g])
<1> SUFFICES ASSUME IInv, SBounds, [Next]_vars, NEW g \in Sessions PROVE QueueBound(pub'[g])
  BY Zenon
<1>0. pub[g] \in PubType /\ QueueBound(pub[g])
  BY Zenon DEF IInv, SessionTypes, SBounds
<1>1. ASSUME pub'[g].queue = pub[g].queue, pub'[g].accepted = pub[g].accepted PROVE QueueBound(pub'[g])
  BY Zenon, <1>0, <1>1 DEF QueueBound
<1>2. CASE UNCHANGED pub
  BY Zenon, <1>0, <1>2
<1>3. ASSUME NEW p \in Procs, Publish(p) PROVE QueueBound(pub'[g])
  <2>1. gen \in Sessions
    BY Zenon, <1>3, GenIsSession DEF IInv, Publish, Protocol, InSession, Procs
  <2>2. held[p] \in Envelopes
    BY Zenon, <1>3 DEF Publish, SBounds, CountsOK
  <2>3. CASE /\ g = gen /\ Len(pub[gen].queue) < QueueSize
             /\ pub' = [pub EXCEPT ![gen].queue = Append(@, held[p]),
                                   ![gen].accepted = @ \cup {held[p]}]
    <3> DEFINE q == pub[g].queue
    <3>1. q \in Seq(Env) /\ held[p] \in Env /\ QueueSize \in Nat
      BY Zenon, <1>0, SessionAssumption DEF PubType, IInv, SessionTypes
    <3>2. pub'[g].queue = Append(q, held[p]) /\ pub'[g].accepted = pub[g].accepted \cup {held[p]}
      BY Zenon, <1>0, <2>1, <2>3 DEF IInv, SessionTypes, PubType
    <3>3. Len(Append(q, held[p])) <= QueueSize
      BY SMTT(30), <2>3, <3>1
    <3>4. Range(Append(q, held[p])) \subseteq Range(q) \cup {held[p]}
      <4> HIDE DEF q
      <4> QED
        BY <3>1 DEF Range
    <3> QED
      BY ZenonT(60), <1>0, <2>2, <3>2, <3>3, <3>4 DEF QueueBound
  <2>4. CASE pub'[g] = pub[g]
    BY Zenon, <1>0, <2>4
  <2>5. \/ pub' = pub
        \/ /\ Len(pub[gen].queue) < QueueSize
           /\ pub' = [pub EXCEPT ![gen].queue = Append(@, held[p]), ![gen].accepted = @ \cup {held[p]}]
    BY Zenon, <1>3 DEF Publish
  <2> QED
    BY Zenon, <2>1, <2>3, <2>4, <2>5 DEF IInv, SessionTypes
<1>4. CASE Close
  BY Zenon, <1>1, <1>4, CloseIs
<1>5. CASE Publisher
  <2>1. PICK h \in Sessions, w \in Workers : TakeJob(h, w) \/ Send(h, w) \/ Result(h, w) \/ Retry(h, w)
    BY Zenon, <1>5 DEF Publisher
  <2>2. pub' = pub \/ (pub[h].queue # <<>> /\ pub' = [pub EXCEPT ![h].queue = Tail(@)])
    BY Zenon, <2>1 DEF TakeJob, Send, Result, Retry
  <2>3. CASE h = g /\ pub[g].queue # <<>> /\ pub' = [pub EXCEPT ![g].queue = Tail(@)]
    <3> DEFINE q == pub[g].queue
    <3>1. q \in Seq(Env) /\ q # <<>> /\ QueueSize \in Nat
      BY Zenon, <1>0, <2>3, SessionAssumption DEF PubType
    <3>2. pub'[g].queue = Tail(q) /\ pub'[g].accepted = pub[g].accepted
      BY Zenon, <1>0, <2>3 DEF IInv, SessionTypes, PubType
    <3>3. Len(Tail(q)) <= Len(q) /\ Range(Tail(q)) \subseteq Range(q)
      <4> HIDE DEF q
      <4> QED
        BY <3>1 DEF Range
    <3>4. Len(Tail(q)) <= QueueSize
      <4>1. Len(q) <= QueueSize /\ Len(q) \in Nat /\ Len(Tail(q)) \in Nat
        BY <1>0, <3>1 DEF QueueBound
      <4> QED
        BY SMTT(30), <3>1, <3>3, <4>1
    <3> QED
      BY Zenon, <1>0, <3>2, <3>3, <3>4 DEF QueueBound
  <2> QED
    BY Zenon, <1>0, <2>2, <2>3 DEF IInv, SessionTypes
<1>6. CASE Connect \/ Backoff \/ Snapshot("main") \/ Snapshot("refresh") \/ Read \/ RefreshWakes
           \/ CancelRefresh \/ Cancel \/ UNCHANGED vars
  BY Zenon, <1>2, <1>6 DEF Connect, Backoff, Snapshot, Read, RefreshWakes, CancelRefresh, Cancel, vars
<1> QED
  BY Zenon, <1>3, <1>4, <1>5, <1>6 DEF Next, Main, Refresh, Procs

\* The worker's record becomes another one, and those of the other workers stay.
Becomes(g, w, at, env, try) ==
  /\ worker'[g][w] = [at |-> at, env |-> env, try |-> try]
  /\ \A h \in Sessions, v \in Workers : ~(h = g /\ v = w) => worker'[h][v] = worker[h][v]

\* SetWorker is such a change.
LEMMA SetWorkerIs ==
  ASSUME IInv, NEW g \in Sessions, NEW w \in Workers
  PROVE  \A at, env, try : SetWorker(g, w, at, env, try) => Becomes(g, w, at, env, try)
<1> SUFFICES ASSUME NEW at, NEW env, NEW try, SetWorker(g, w, at, env, try)
             PROVE Becomes(g, w, at, env, try)
  BY Zenon
<1> DEFINE r == [at |-> at, env |-> env, try |-> try]
<1>1. worker' = [worker EXCEPT ![g][w] = r]
  BY Zenon DEF SetWorker
<1>2. DOMAIN worker = Sessions /\ \A h \in Sessions : DOMAIN worker[h] = Workers
  BY Zenon DEF IInv, SessionTypes
<1> HIDE DEF r
<1>3. worker'[g][w] = r /\ \A h \in Sessions, v \in Workers : ~(h = g /\ v = w) => worker'[h][v] = worker[h][v]
  BY Zenon, <1>1, <1>2
<1> QED
  BY Zenon, <1>3 DEF r, Becomes

\* A worker's step changes its own record, and what it reports is an envelope it had.
LEMMA WorkerIs ==
  ASSUME IInv, NEW g \in Sessions, NEW w \in Workers,
         TakeJob(g, w) \/ Send(g, w) \/ Result(g, w) \/ Retry(g, w)
  PROVE  LET k == worker[g][w] IN
         /\ \/ Becomes(g, w, "gone", None, 0)
            \/ Becomes(g, w, "idle", None, 0)
            \/ /\ k.at = "idle" /\ pub[g].queue # <<>> /\ pub' = [pub EXCEPT ![g].queue = Tail(@)]
               /\ Becomes(g, w, "write", Head(pub[g].queue), 0)
            \/ k.at = "write" /\ Becomes(g, w, "await", k.env, k.try)
            \/ k.at = "await" /\ k.try < MaxRetries /\ Becomes(g, w, "retry", k.env, k.try)
            \/ k.at = "retry" /\ Becomes(g, w, "write", k.env, k.try + 1)
         /\ failed' = failed \/ (Busy(k) /\ failed' = failed \cup {k.env})
         /\ \/ stream' = stream
            \/ /\ Busy(k) /\ stream' = Deliver(k.env) /\ pub' = pub
               /\ Becomes(g, w, "await", k.env, k.try)
<1> DEFINE k == worker[g][w]
<1>1. \A at, env, try : SetWorker(g, w, at, env, try) => Becomes(g, w, at, env, try)
  BY Zenon, SetWorkerIs
<1>2. CASE TakeJob(g, w)
  <2>1. /\ k.at = "idle" /\ failed' = failed /\ stream' = stream
        /\ \/ SetWorker(g, w, "gone", None, 0)
           \/ /\ pub[g].queue # <<>> /\ pub' = [pub EXCEPT ![g].queue = Tail(@)]
              /\ SetWorker(g, w, "write", Head(pub[g].queue), 0)
    BY Zenon, <1>2 DEF TakeJob
  <2> QED
    BY Zenon, <1>1, <2>1
<1>3. CASE Send(g, w)
  <2>1. /\ k.at = "write" /\ SetWorker(g, w, "await", k.env, k.try) /\ failed' = failed /\ pub' = pub
        /\ stream' = Deliver(k.env) \/ stream' = stream
    BY Zenon, <1>3 DEF Send
  <2>2. Busy(k)
    BY Zenon, <2>1 DEF Busy
  <2> QED
    BY Zenon, <1>1, <2>1, <2>2
<1>4. CASE Result(g, w)
  <2>1. /\ k.at = "await" /\ stream' = stream
        /\ failed' = failed \/ failed' = failed \cup {k.env}
        /\ \/ SetWorker(g, w, "idle", None, 0)
           \/ SetWorker(g, w, "gone", None, 0)
           \/ SetWorker(g, w, "retry", k.env, k.try) /\ k.try < MaxRetries
    BY Zenon, <1>4 DEF Result, RetryOrReport
  <2>2. Busy(k)
    BY Zenon, <2>1 DEF Busy
  <2> QED
    BY Zenon, <1>1, <2>1, <2>2
<1>5. CASE Retry(g, w)
  <2>1. /\ k.at = "retry" /\ stream' = stream /\ failed' = failed
        /\ \/ SetWorker(g, w, "write", k.env, k.try + 1)
           \/ SetWorker(g, w, "gone", None, 0)
    BY Zenon, <1>5 DEF Retry
  <2> QED
    BY Zenon, <1>1, <2>1
<1> QED
  BY Zenon, <1>2, <1>3, <1>4, <1>5

\* A retry is counted, and a worker only ever has envelopes of its queue.
LEMMA WorkersStep ==
  IInv /\ SBounds /\ [Next]_vars => \A g \in Sessions, w \in Workers : WorkerBound(worker'[g][w])
<1> SUFFICES ASSUME IInv, SBounds, [Next]_vars, NEW h \in Sessions, NEW v \in Workers
             PROVE WorkerBound(worker'[h][v])
  BY Zenon
<1>0. WorkerBound(worker[h][v]) /\ WorkerBound(Idle)
  <2>1. WorkerBound(Idle)
    BY SessionAssumption DEF WorkerBound, Idle, Busy
  <2> QED
    BY Zenon, <2>1 DEF SBounds
<1>1. CASE Publisher
  <2>1. PICK g \in Sessions, w \in Workers : TakeJob(g, w) \/ Send(g, w) \/ Result(g, w) \/ Retry(g, w)
    BY Zenon, <1>1 DEF Publisher
  <2> DEFINE k == worker[g][w]
  <2>2. k \in WorkerType /\ WorkerBound(k) /\ pub[g] \in PubType /\ QueueBound(pub[g])
    BY Zenon DEF IInv, SessionTypes, SBounds
  <2>3. pub[g].queue # <<>> => Head(pub[g].queue) \in Envelopes
    <3> SUFFICES ASSUME pub[g].queue # <<>> PROVE Head(pub[g].queue) \in Envelopes
      BY ZenonT(60)
    <3>1. pub[g].queue \in Seq(Env)
      BY Zenon, <2>2 DEF PubType
    <3>2. Head(pub[g].queue) = pub[g].queue[1] /\ 1 \in DOMAIN pub[g].queue
      BY SMTT(30), <3>1
    <3>3. Head(pub[g].queue) \in Range(pub[g].queue)
      BY Zenon, <3>2 DEF Range
    <3> QED
      BY Zenon, <2>2, <3>3 DEF QueueBound
  <2>4. \A at, env, try : Becomes(g, w, at, env, try) =>
           \/ worker'[h][v] = worker[h][v]
           \/ h = g /\ v = w /\ worker'[h][v] = [at |-> at, env |-> env, try |-> try]
    BY ZenonT(60) DEF Becomes
  <2>5. CASE h = g /\ v = w
    <3>1. \A at, env, try : Becomes(g, w, at, env, try) =>
             worker'[h][v].at = at /\ worker'[h][v].env = env /\ worker'[h][v].try = try
      BY SMTT(30), <2>5 DEF Becomes
    <3>2. /\ MaxRetries \in Nat /\ k.try \in Nat
          /\ k.try <= MaxRetries /\ (k.at = "retry" => k.try < MaxRetries)
          /\ (k.at \in {"write", "await", "retry"} => k.env \in Envelopes)
      BY Zenon, <2>2, SessionAssumption DEF WorkerBound, WorkerType, Busy
    <3>3. \/ worker'[h][v].at \in {"gone", "idle"} /\ worker'[h][v].env = None /\ worker'[h][v].try = 0
          \/ worker'[h][v].at = "write" /\ worker'[h][v].env \in Envelopes /\ worker'[h][v].try = 0
          \/ worker'[h][v].at = "await" /\ worker'[h][v].env \in Envelopes /\ worker'[h][v].try = k.try
          \/ /\ worker'[h][v].at = "retry" /\ worker'[h][v].env \in Envelopes /\ worker'[h][v].try = k.try
             /\ k.try < MaxRetries
          \/ /\ worker'[h][v].at = "write" /\ worker'[h][v].env \in Envelopes
             /\ worker'[h][v].try = k.try + 1 /\ k.try < MaxRetries
      <4> HIDE DEF k
      <4>1. \/ Becomes(g, w, "gone", None, 0)
            \/ Becomes(g, w, "idle", None, 0)
            \/ pub[g].queue # <<>> /\ Becomes(g, w, "write", Head(pub[g].queue), 0)
            \/ k.at = "write" /\ Becomes(g, w, "await", k.env, k.try)
            \/ k.at = "await" /\ k.try < MaxRetries /\ Becomes(g, w, "retry", k.env, k.try)
            \/ k.at = "retry" /\ Becomes(g, w, "write", k.env, k.try + 1)
        BY Zenon, <2>1, WorkerIs DEF k
      <4> HIDE DEF Envelopes
      <4> QED
        BY Zenon, <2>3, <3>1, <3>2, <4>1
    <3> QED
      BY SMTT(30), <3>2, <3>3 DEF WorkerBound, Busy
  <2>6. CASE ~(h = g /\ v = w)
    BY Zenon, <1>0, <2>1, <2>4, <2>6, WorkerIs
  <2> QED
    BY Zenon, <2>5, <2>6
<1>2. CASE Connect
  <2>1. worker' = worker \/ worker' = [worker EXCEPT ![gen + 1] = [w \in Workers |-> Idle]]
    BY Zenon, <1>2 DEF Connect, ConnectEcoFlow, ConnectPecron, ConnectAnker, Fails, CredentialRejected, Open
  <2>2. worker'[h][v] = worker[h][v] \/ worker'[h][v] = Idle
    BY Zenon, <2>1 DEF IInv, SessionTypes
  <2> QED
    BY Zenon, <1>0, <2>2
<1>3. CASE UNCHANGED worker
  BY Zenon, <1>0, <1>3
<1> QED
  BY Zenon, <1>1, <1>2, <1>3 DEF Next, Main, Refresh, Backoff, Snapshot, Publish, Read, CancelRefresh, Close,
     RefreshWakes, Cancel, vars

\* Only envelopes that were built reach the stream and the errors channel.
LEMMA StoredStep == IInv /\ SBounds /\ [Next]_vars => StoredOK'
<1> SUFFICES ASSUME IInv, SBounds, [Next]_vars PROVE StoredOK'
  BY Zenon
<1>0. StoredOK /\ stream \in Seq(Env)
  BY Zenon DEF SBounds, IInv, SessionTypes
<1>1. ASSUME NEW u \in Envelopes, stream' = stream \/ (u \in Env /\ stream' = Deliver(u)),
             failed' = failed \/ failed' = failed \cup {u}
      PROVE StoredOK'
  <2>1. Range(stream') \subseteq Range(stream) \cup {u}
    <3>1. CASE stream' = stream
      BY Zenon, <3>1
    <3>2. CASE u \in Env /\ stream' = Append(stream, u)
      <4>1. \A i \in DOMAIN stream' : stream'[i] \in Range(stream) \cup {u}
        BY <1>0, <3>2 DEF Range
      <4> QED
        BY Zenon, <4>1 DEF Range
    <3> QED
      BY Zenon, <1>1, <3>1, <3>2 DEF Deliver
  <2> QED
    BY Zenon, <1>0, <1>1, <2>1 DEF StoredOK, Envelopes
<1>2. CASE UNCHANGED <<stream, failed>>
  BY Zenon, <1>0, <1>2 DEF StoredOK, Envelopes
<1>3. CASE Publisher
  <2>1. PICK g \in Sessions, w \in Workers : TakeJob(g, w) \/ Send(g, w) \/ Result(g, w) \/ Retry(g, w)
    BY Zenon, <1>3 DEF Publisher
  <2> DEFINE k == worker[g][w]
  <2>2. WorkerBound(k) /\ k \in WorkerType
    BY Zenon DEF SBounds, IInv, SessionTypes
  <2>3. k.env \in Env
    BY Zenon, <2>2 DEF WorkerType
  <2> HIDE DEF k
  <2>4. /\ failed' = failed \/ (Busy(k) /\ failed' = failed \cup {k.env})
        /\ stream' = stream \/ (Busy(k) /\ stream' = Deliver(k.env))
    BY Zenon, <2>1, WorkerIs DEF k
  <2>5. Busy(k) => k.env \in Envelopes
    BY Zenon, <2>2 DEF WorkerBound
  <2> QED
    BY Zenon, <1>1, <1>2, <2>3, <2>4, <2>5
<1>4. ASSUME NEW p \in Procs, Publish(p) PROVE StoredOK'
  <2>1. held[p] \in Envelopes
    BY Zenon, <1>4 DEF Publish, SBounds, CountsOK
  <2>2. stream' = stream /\ (failed' = failed \/ failed' = failed \cup {held[p]})
    BY Zenon, <1>4 DEF Publish
  <2> QED
    BY Zenon, <1>1, <2>1, <2>2
<1> QED
  BY Zenon, <1>2, <1>3, <1>4 DEF Next, Main, Refresh, Connect, Backoff, Snapshot, Read, CancelRefresh, Close,
     RefreshWakes, Cancel, vars, Procs

\* Every step keeps the bounds.
LEMMA SBoundsStep == IInv /\ SBounds /\ [Next]_vars => SBounds'
<1> SUFFICES ASSUME IInv, SBounds, [Next]_vars PROVE SBounds'
  BY Zenon
<1>1. workers' = workers
  BY Zenon DEF Next, Main, Refresh, Connect, ConnectEcoFlow, ConnectPecron, ConnectAnker, Fails,
     CredentialRejected, Open, Backoff, Snapshot, Publish, Read, CancelRefresh, Close, RefreshWakes, Publisher,
     Cancel, session, vars
<1>2. Workers' = Workers
  BY Zenon, <1>1 DEF Workers
<1>3. (\A g \in Sessions : QueueBound(pub[g]))'
  BY Zenon, QueuesStep DEF QueueBound, Envelopes, Sessions
<1>4. (\A g \in Sessions, w \in Workers : WorkerBound(worker[g][w]))'
  BY Zenon, <1>2, WorkersStep DEF WorkerBound, Envelopes, Sessions
<1> QED
  BY Zenon, <1>3, <1>4, CountsStep, StoredStep DEF SBounds

\* The queue never holds more than QueueSize envelopes, all of them accepted; no publish is
\* tried more than MaxRetries times again; and only envelopes that were built are stored
\* (newAsyncEnvelopePublisher, publishWithRetry).
THEOREM SessionIsBounded == Spec => []SessionTypeOK
<1>1. IInv /\ SBounds => SessionTypeOK
  <2> SUFFICES ASSUME IInv, SBounds PROVE SessionTypeOK
    BY Zenon
  <2>1. /\ pc \in {"idle", "bootstrap", "read", "publish", "stale", "join", "drain", "drain2",
                   "backoff", "done", "rejected"}
        /\ outcome \in {"nil", "error"} /\ rpc \in {"off", "sleep", "fetch", "gone"}
        /\ gen \in 0..MaxSessions /\ DOMAIN held = Procs
    BY ZenonT(60) DEF IInv, SessionTypes, InSession
  <2>2. read \in 0..Messages /\ frames \in 0..MaxFrames
    BY SessionAssumption DEF IInv, SessionTypes, SBounds, CountsOK
  <2> QED
    BY Zenon, <2>1, <2>2 DEF SessionTypeOK, SBounds, CountsOK, QueueBound, WorkerBound, StoredOK
<1> QED
  BY <1>1, SBoundsInit, SBoundsStep, Inductive, PTL DEF Spec

-----------------------------------------------------------------------------
(* StreamInOrder: the invariant *)

Ended == {"idle", "backoff", "done", "rejected"}

\* Close marks a publisher as abandoned at its very end, and the publishers of sessions to
\* come are empty.
Unleft ==
  /\ pc \in InSession \cup {"drain", "drain2"} => ~pub[gen].abandoned
  /\ \A g \in Sessions : g > gen => ~pub[g].abandoned /\ pub[g].queue = <<>>

Alone == workers = 1 /\ \A g \in Sessions : ~pub[g].abandoned
Hand(g) == worker[g][1]

\* The newest message that can be in the stream: the broker may be about to send it again.
Top == IF heard THEN read ELSE read + 1

\* Only the current session's worker is there, and only while the session is.
OthersGone ==
  /\ \A g \in Sessions : (g < gen => Hand(g).at = "gone") /\ (g > gen => Hand(g).at = "off")
  /\ gen > 0 /\ pc \in Ended => Hand(gen).at = "gone"

OrderInv ==
  /\ ~IsM(held["refresh"]) /\ (IsM(held["main"]) => heard)
  /\ Alone => /\ OthersGone /\ StreamOK(provider, stream, Top)
              /\ gen > 0 => Flow(provider, stream, pub[gen].queue, Hand(gen), held["main"], read)

\* Nothing but Close touches what Unleft is about, other than Publish and the workers, which
\* move envelopes through the queue of a session that was opened.
LEMMA UnleftStep == IInv /\ SBounds /\ Unleft /\ [Next]_vars => Unleft' /\ (Alone' => Alone)
<1> SUFFICES ASSUME IInv, SBounds, Unleft, [Next]_vars PROVE Unleft' /\ (Alone' => Alone)
  BY ZenonT(60)
<1>0. gen \in 0..MaxSessions /\ gen \in Nat /\ workers' = workers /\ IInv'
  <2>1. workers' = workers
    BY Zenon DEF Next, Main, Refresh, Connect, ConnectEcoFlow, ConnectPecron, ConnectAnker, Fails,
       CredentialRejected, Open, Backoff, Snapshot, Publish, Read, CancelRefresh, Close, RefreshWakes, Publisher,
       Cancel, session, vars
  <2> QED
    BY SMTT(30), <2>1, IInvStep, SessionAssumption DEF IInv, SessionTypes
<1>1. ASSUME \A g \in Sessions : pub'[g].abandoned = pub[g].abandoned PROVE Alone' => Alone
  BY Zenon, <1>0, <1>1 DEF Alone, Sessions
<1>2. \A g \in Sessions : g > gen' => pub'[g].accepted = {} /\ pub'[g] \in PubType /\ QueueBound(pub'[g])
  BY Zenon, <1>0, QueuesStep DEF IInv, Protocol, SessionTypes
<1>3. \A g \in Sessions : g > gen' => pub'[g].queue = <<>>
  <2> SUFFICES ASSUME NEW g \in Sessions, g > gen' PROVE pub'[g].queue = <<>>
    BY Zenon
  <2>1. pub'[g].queue \in Seq(Env)
    BY Zenon, <1>2 DEF PubType
  <2>2. Range(pub'[g].queue) = {}
    BY Zenon, <1>2 DEF QueueBound
  <2>3. pub'[g].queue # <<>> => 1 \in DOMAIN pub'[g].queue
    BY <2>1
  <2> QED
    BY Zenon, <2>2, <2>3 DEF Range
<1>4. CASE UNCHANGED pub /\ gen' = gen
           /\ (pc' \in InSession \cup {"drain", "drain2"} => pc \in InSession \cup {"drain", "drain2"})
  <2>1. Unleft'
    BY Zenon, <1>3, <1>4 DEF Unleft
  <2> QED
    BY Zenon, <1>1, <1>4, <2>1
<1>5. CASE Backoff \/ RefreshWakes \/ CancelRefresh \/ Cancel \/ UNCHANGED vars
  <2>1. UNCHANGED <<pub, gen>> /\ (pc' = pc \/ pc' \in {"done", "idle"})
    BY Zenon, <1>5 DEF Backoff, RefreshWakes, CancelRefresh, Cancel, session, vars
  <2> QED
    BY Zenon, <1>4, <2>1 DEF InSession
<1>6. ASSUME NEW p \in Procs, Snapshot(p) PROVE Unleft' /\ (Alone' => Alone)
  <2>1. UNCHANGED <<pub, gen>> /\ (pc' = pc \/ pc \in {"bootstrap", "stale"})
    BY Zenon, <1>6 DEF Snapshot, Leave, Procs
  <2> QED
    BY Zenon, <1>4, <2>1 DEF InSession
<1>7. CASE Read
  <2>1. UNCHANGED <<pub, gen>> /\ pc = "read"
    BY Zenon, <1>7 DEF Read
  <2> QED
    BY Zenon, <1>4, <2>1 DEF InSession
<1>8. CASE Connect
  <2>1. /\ pub' = pub
        /\ \/ gen' = gen /\ pc' \in {"rejected", "done", "backoff"}
           \/ gen' = gen + 1 /\ gen < MaxSessions
    BY Zenon, <1>8 DEF Connect, ConnectEcoFlow, ConnectPecron, ConnectAnker, Fails, CredentialRejected, Open,
       RunReturns
  <2>2. CASE gen' = gen /\ pc' \in {"rejected", "done", "backoff"}
    BY Zenon, <1>4, <2>1, <2>2 DEF InSession
  <2>3. CASE gen' = gen + 1 /\ gen < MaxSessions
    <3>1. gen' \in Sessions /\ gen' > gen /\ \A g \in Sessions : g > gen' => g > gen
      BY <1>0, <2>3, SessionAssumption DEF Sessions
    <3>2. Unleft'
      BY Zenon, <1>3, <2>1, <3>1 DEF Unleft
    <3> QED
      BY Zenon, <1>1, <2>1, <3>2
  <2> QED
    BY Zenon, <2>1, <2>2, <2>3
<1>9. CASE Close
  <2>1. \A g \in Sessions : g # gen => pub'[g] = pub[g]
    BY ZenonT(60), <1>9, CloseIs
  <2>2. gen' = gen /\ gen \in Sessions /\ ~pub[gen].abandoned
    <3>1. pc \in {"join", "drain", "drain2"} /\ gen' = gen
      BY Zenon, <1>9 DEF Close, JoinRefresh
    <3> QED
      BY Zenon, <1>9, <3>1, CloseIs DEF Unleft, InSession
  <2>3. Alone' => Alone
    BY Zenon, <1>0, <2>1, <2>2 DEF Alone, Sessions
  <2>4. pc' \in InSession \cup {"drain", "drain2"} => ~pub'[gen].abandoned
    BY Zenon, <1>9, <2>2, CloseIs DEF InSession
  <2>5. \A g \in Sessions : g > gen => g # gen
    BY <1>0 DEF Sessions
  <2>6. Unleft'
    BY Zenon, <1>3, <2>1, <2>2, <2>4, <2>5 DEF Unleft
  <2> QED
    BY Zenon, <2>3, <2>6
<1>10. ASSUME gen' = gen, \A g \in Sessions : pub'[g].abandoned = pub[g].abandoned,
              gen \in Sessions,
              pc' \in InSession \cup {"drain", "drain2"} => pc \in InSession \cup {"drain", "drain2"}
       PROVE Unleft' /\ (Alone' => Alone)
  BY Zenon, <1>1, <1>3, <1>10 DEF Unleft
<1>11. ASSUME NEW p \in Procs, Publish(p) PROVE Unleft' /\ (Alone' => Alone)
  <2>1. gen > 0 /\ gen \in Sessions /\ pc \in InSession
    BY Zenon, <1>11, GenIsSession DEF IInv, Publish, Protocol, InSession, Procs
  <2>2. \/ pub' = pub
        \/ pub' = [pub EXCEPT ![gen].queue = Append(@, held[p]), ![gen].accepted = @ \cup {held[p]}]
    BY Zenon, <1>11 DEF Publish
  <2>3. \A g \in Sessions : pub'[g].abandoned = pub[g].abandoned
    <3> SUFFICES ASSUME NEW g \in Sessions PROVE pub'[g].abandoned = pub[g].abandoned
      BY Zenon
    <3>1. pub[g] \in PubType /\ DOMAIN pub = Sessions
      BY Zenon DEF IInv, SessionTypes
    <3>2. pub'[g] = pub[g] \/ pub'[g] = [pub[g] EXCEPT !.queue = Append(@, held[p]), !.accepted = @ \cup {held[p]}]
      BY Zenon, <2>1, <2>2, <3>1
    <3> QED
      BY Zenon, <3>1, <3>2 DEF PubType
  <2>4. gen' = gen
    BY Zenon, <1>11 DEF Publish
  <2> QED
    BY Zenon, <1>10, <2>1, <2>3, <2>4
<1>12. CASE Publisher
  <2>1. PICK h \in Sessions, w \in Workers : TakeJob(h, w) \/ Send(h, w) \/ Result(h, w) \/ Retry(h, w)
    BY Zenon, <1>12 DEF Publisher
  <2>2. pub' = pub \/ pub' = [pub EXCEPT ![h].queue = Tail(@)]
    BY Zenon, <2>1 DEF TakeJob, Send, Result, Retry
  <2>3. \A g \in Sessions : pub'[g].abandoned = pub[g].abandoned
    <3> SUFFICES ASSUME NEW g \in Sessions PROVE pub'[g].abandoned = pub[g].abandoned
      BY Zenon
    <3>1. pub[g] \in PubType /\ DOMAIN pub = Sessions
      BY Zenon DEF IInv, SessionTypes
    <3>2. pub'[g] = pub[g] \/ pub'[g] = [pub[g] EXCEPT !.queue = Tail(@)]
      BY Zenon, <2>2, <3>1
    <3> QED
      BY Zenon, <3>1, <3>2 DEF PubType
  <2>4. gen' = gen /\ pc' = pc
    BY Zenon, <1>12 DEF Publisher, session
  <2>5. Unleft'
    <3>1. CASE gen \in Sessions
      BY Zenon, <1>10, <2>3, <2>4, <3>1
    <3>2. CASE gen = 0
      <4>1. pc \notin InSession \cup {"drain", "drain2"}
        BY <3>2 DEF IInv, Protocol
      <4> QED
        BY Zenon, <1>3, <2>3, <2>4, <4>1 DEF Unleft
    <3> QED
      BY <1>0, <3>1, <3>2 DEF Sessions
  <2> QED
    BY Zenon, <1>1, <2>3, <2>5
<1> QED
  BY Zenon, <1>5, <1>6, <1>7, <1>8, <1>9, <1>11, <1>12 DEF Next, Main, Refresh, Procs

\* Envelopes have numbers.
LEMMA AllNumbered ==
  ASSUME IInv
  PROVE  /\ Numbered(stream)
         /\ \A g \in Sessions : Numbered(pub[g].queue) /\ pub[g].queue \in Seq(Env)
         /\ \A g \in Sessions, w \in Workers : worker[g][w].env[2] \in Nat /\ worker[g][w].env \in Env
         /\ \A p \in Procs : held[p][2] \in Nat
<1>1. \A v \in Env : v[2] \in Nat
  BY Zenon DEF Env
<1>2. \A q \in Seq(Env) : Numbered(q)
  <2> HIDE DEF Env
  <2> QED
    BY <1>1 DEF Numbered
<1>3. /\ stream \in Seq(Env) /\ \A p \in Procs : held[p] \in Env
      /\ \A g \in Sessions : pub[g] \in PubType
      /\ \A g \in Sessions, w \in Workers : worker[g][w] \in WorkerType
  BY Zenon DEF IInv, SessionTypes
<1>4. \A g \in Sessions : pub[g].queue \in Seq(Env)
  BY Zenon, <1>3 DEF PubType
<1>5. \A g \in Sessions, w \in Workers : worker[g][w].env \in Env
  BY Zenon, <1>3 DEF WorkerType
<1> QED
  BY Zenon, <1>1, <1>2, <1>3, <1>4, <1>5

\* What does not touch the messages on their way keeps the order.
LEMMA OrderFrame ==
  ASSUME IInv, OrderInv, Alone' => Alone,
         UNCHANGED <<provider, gen, read, heard, stream, worker>>,
         gen > 0 => pub'[gen].queue = pub[gen].queue,
         held'["main"] = held["main"] \/ ~IsM(held'["main"]), ~IsM(held'["refresh"]),
         Alone' /\ pc' \in Ended => pc \in Ended \/ Hand(gen).at = "gone"
  PROVE  OrderInv'
<1>1. (~IsM(held["refresh"]) /\ (IsM(held["main"]) => heard))'
  BY Zenon DEF OrderInv, IsM
<1> SUFFICES ASSUME Alone'
             PROVE /\ OthersGone' /\ StreamOK(provider', stream', Top')
                   /\ gen' > 0 => Flow(provider', stream', pub'[gen'].queue, Hand(gen)', held'["main"], read')
  BY Zenon, <1>1 DEF OrderInv
<1>2. Alone /\ OthersGone /\ StreamOK(provider, stream, Top)
      /\ (gen > 0 => Flow(provider, stream, pub[gen].queue, Hand(gen), held["main"], read))
  BY Zenon DEF OrderInv
<1>3. OthersGone'
  BY Zenon, <1>2 DEF OthersGone, Hand
<1>4. StreamOK(provider', stream', Top')
  BY Zenon, <1>2 DEF Top
<1>5. gen > 0 /\ ~IsM(held'["main"]) =>
        Flow(provider, stream, pub[gen].queue, Hand(gen), held'["main"], read)
  BY Zenon, <1>2 DEF Flow, HeldOK
<1> QED
  BY Zenon, <1>2, <1>3, <1>4, <1>5 DEF Hand

\* A session that opens finds the stream behind what it will read first.
LEMMA OrderConnect == ASSUME IInv, Unleft, OrderInv, Connect, Alone' => Alone PROVE OrderInv'
<1>0. pc = "idle" /\ held["main"] = None /\ held["refresh"] = None /\ ~IsM(None) /\ pub' = pub /\ stream' = stream
  BY Zenon DEF Connect, IInv, Protocol, InSession, IsM, None
<1>1. CASE Fails \/ CredentialRejected
  <2>1. UNCHANGED <<provider, gen, read, heard, held, worker>>
    BY Zenon, <1>1 DEF Fails, CredentialRejected
  <2>2. pc \in Ended
    BY Zenon, <1>0 DEF Ended
  <2> QED
    BY Zenon, <1>0, <2>1, <2>2, OrderFrame
<1>2. ASSUME NEW next \in {"bootstrap", "read"}, Open(next) PROVE OrderInv'
  <2>1. /\ gen < MaxSessions /\ gen' = gen + 1 /\ worker' = [worker EXCEPT ![gen + 1] = [w \in Workers |-> Idle]]
        /\ read' = read \/ (heard /\ read' = read - 1)
        /\ heard' = FALSE /\ pc' = next /\ provider' = provider /\ held' = held
    BY ZenonT(60), <1>2 DEF Open
  <2>2. gen \in Nat /\ gen' \in Sessions /\ read \in Nat /\ (heard => read > 0) /\ heard \in BOOLEAN
    BY <2>1, SessionAssumption DEF IInv, SessionTypes, Protocol, Sessions
  <2> SUFFICES ASSUME Alone'
               PROVE /\ OthersGone' /\ StreamOK(provider', stream', Top')
                     /\ Flow(provider', stream', pub'[gen'].queue, Hand(gen)', held'["main"], read')
    BY Zenon, <1>0, <2>1 DEF OrderInv
  <2>3. Alone /\ OthersGone /\ StreamOK(provider, stream, Top)
    BY Zenon DEF OrderInv
  <2>4. 1 \in Workers
    BY <2>3 DEF Alone, Workers
  <2>5. /\ \A g \in Sessions : g # gen + 1 => Hand(g)' = Hand(g)
        /\ worker'[gen'][1] = Idle
    BY Zenon, <2>1, <2>2, <2>4 DEF Hand, IInv, SessionTypes
  <2>6. OthersGone'
    <3>1. pc' \notin Ended
      BY Zenon, <2>1 DEF Ended
    <3>2. gen > 0 => Hand(gen).at = "gone"
      BY Zenon, <1>0, <2>3 DEF OthersGone, Ended
    <3>3. \A g \in Sessions : /\ g < gen' => g # gen + 1 /\ (g < gen \/ (g = gen /\ gen > 0))
                              /\ g > gen' => g # gen + 1 /\ g > gen
      BY <2>1, <2>2 DEF Sessions
    <3>4. \A g \in Sessions : (g < gen' => Hand(g)'.at = "gone") /\ (g > gen' => Hand(g)'.at = "off")
      BY Zenon, <2>3, <2>5, <3>2, <3>3 DEF OthersGone
    <3> QED
      BY Zenon, <3>1, <3>4 DEF OthersGone, Hand
  <2>7. StreamOK(provider', stream', Top')
    <3>1. Top \in Nat /\ Top' \in Nat /\ Top <= Top'
      BY <2>1, <2>2 DEF Top
    <3>2. Numbered(stream)
      BY Zenon, AllNumbered
    <3>3. StreamOK(provider, stream, Top')
      BY Zenon, <2>3, <3>1, <3>2, StreamRaised
    <3> QED
      BY Zenon, <1>0, <2>1, <3>3
  <2>8. pub'[gen'].queue = <<>>
    BY <1>0, <2>1, <2>2 DEF Unleft
  <2>9. Flow(provider', stream', <<>>, Idle, None, read')
    <3>1. ~Busy(Idle) /\ 1..Len(<<>>) = {}
      BY DEF Busy, Idle
    <3> QED
      BY Zenon, <1>0, <3>1 DEF Flow, QueueOK, HandOK, HeldOK, BehindOK, Carries
  <2> QED
    BY Zenon, <1>0, <2>1, <2>5, <2>6, <2>7, <2>8, <2>9 DEF Hand
<1> QED
  BY ZenonT(60), <1>1, <1>2 DEF Connect, ConnectEcoFlow, ConnectPecron, ConnectAnker

\* Main reads in the order the broker sends.
LEMMA OrderRead == ASSUME IInv, OrderInv, Read, Alone' => Alone PROVE OrderInv'
<1>0. /\ pc = "read" /\ gen > 0 /\ gen \in Sessions /\ read \in Nat /\ heard \in BOOLEAN
      /\ held["main"] = None /\ ~IsM(None)
      /\ UNCHANGED <<provider, workers, gen, pub, worker, stream>>
  BY ZenonT(60), GenIsSession DEF Read, IInv, SessionTypes, Protocol, InSession, IsM, None
<1>1. CASE pc' \in {"join", "stale"} /\ UNCHANGED <<read, heard, held>>
  <2>1. pc' \notin Ended
    BY Zenon, <1>1 DEF Ended
  <2>2. ~IsM(held["refresh"])
    BY Zenon DEF OrderInv
  <2> QED
    BY Zenon, <1>0, <1>1, <2>1, <2>2, OrderFrame
<1>2. ASSUME NEW h2, held'["main"] = h2, held'["refresh"] = held["refresh"], read' = read + 1, heard' = TRUE,
             pc' \in {"read", "publish"},
             ~IsM(h2) \/ (h2[2] = read + 1 /\ (provider = "pulsemqtt" => h2[3] = 0))
      PROVE OrderInv'
  <2>1. ~IsM(held'["refresh"]) /\ pc' \notin Ended
    BY Zenon, <1>2 DEF OrderInv, Ended
  <2> SUFFICES ASSUME Alone'
               PROVE /\ OthersGone' /\ StreamOK(provider', stream', Top')
                     /\ Flow(provider', stream', pub'[gen'].queue, Hand(gen)', held'["main"], read')
    BY Zenon, <1>2, <2>1 DEF OrderInv
  <2>2. Alone /\ OthersGone /\ StreamOK(provider, stream, Top)
        /\ Flow(provider, stream, pub[gen].queue, Hand(gen), held["main"], read)
    BY Zenon, <1>0 DEF OrderInv
  <2>3. OthersGone'
    BY Zenon, <1>0, <2>1, <2>2 DEF OthersGone, Hand
  <2>4. Numbered(stream) /\ Numbered(pub[gen].queue) /\ Hand(gen).env[2] \in Nat
    <3>1. 1 \in Workers
      BY <2>2 DEF Alone, Workers
    <3> QED
      BY ZenonT(60), <1>0, <3>1, AllNumbered DEF Hand
  <2>5. StreamOK(provider, stream, read + 1)
    <3>1. Top \in Nat /\ read + 1 \in Nat /\ Top <= read + 1
      BY <1>0 DEF Top
    <3> QED
      BY Zenon, <2>2, <2>4, <3>1, StreamRaised
  <2>6. Flow(provider, stream, pub[gen].queue, Hand(gen), h2, read + 1)
    BY Zenon, <1>0, <1>2, <2>2, <2>4, FlowAccept
  <2>7. Top' = read + 1
    BY Zenon, <1>2 DEF Top
  <2> QED
    BY ZenonT(60), <1>0, <1>2, <2>3, <2>5, <2>6, <2>7 DEF Hand
<1>3. CASE Accept
  <2>1. held' = [held EXCEPT !["main"] = Build(read + 1)] /\ read' = read + 1 /\ heard' = TRUE /\ pc' = "publish"
    BY Zenon, <1>3 DEF Accept
  <2>2. held'["main"] = Build(read + 1) /\ held'["refresh"] = held["refresh"]
    BY Zenon, <2>1 DEF IInv, SessionTypes, Procs
  <2>3. Build(read + 1)[2] = read + 1 /\ (provider = "pulsemqtt" => Build(read + 1)[3] = 0)
    BY ZenonT(60) DEF Build
  <2> QED
    BY Zenon, <1>2, <2>1, <2>2, <2>3
<1>4. CASE Skip
  <2>1. held' = held /\ read' = read + 1 /\ heard' = TRUE /\ pc' = pc
    BY Zenon, <1>4 DEF Skip
  <2> QED
    BY Zenon, <1>0, <1>2, <2>1
<1> QED
  BY ZenonT(60), <1>0, <1>1, <1>3, <1>4 DEF Read, ReadEcoFlow, ReadPecron, ReadAnker, ReadCancelled, ReadFails, EndSession

\* Publish puts the message main holds behind those in the queue.
LEMMA OrderPublish ==
  ASSUME IInv, OrderInv, NEW p \in Procs, Publish(p), Alone' => Alone PROVE OrderInv'
<1>0. /\ gen > 0 /\ gen \in Sessions /\ pc \in InSession /\ read \in Nat /\ held[p] # None
      /\ UNCHANGED <<provider, workers, gen, read, heard, worker, stream>>
      /\ held' = [held EXCEPT ![p] = None]
  BY ZenonT(60), GenIsSession DEF IInv, SessionTypes, Publish, Protocol, InSession, Procs
<1>1. /\ held'[p] = None /\ \A q \in Procs : q # p => held'[q] = held[q]
      /\ ~IsM(None)
  BY ZenonT(60), <1>0 DEF IInv, SessionTypes, IsM, None
<1>2. ~IsM(held'["refresh"]) /\ (held'["main"] = held["main"] \/ ~IsM(held'["main"]))
  BY ZenonT(60), <1>1 DEF OrderInv, Procs
<1>3. pc' \notin Ended
  <2>1. \/ Leave(p)
        \/ pc' = "join"
    BY Zenon DEF Publish, Dropped
  <2> QED
    BY Zenon, <1>0, <2>1 DEF Leave, InSession, Ended
<1>4. CASE pub' = pub
  BY Zenon, <1>0, <1>2, <1>3, <1>4, OrderFrame
<1>5. CASE pub' = [pub EXCEPT ![gen].queue = Append(@, held[p]), ![gen].accepted = @ \cup {held[p]}]
  <2> DEFINE q == pub[gen].queue
  <2> SUFFICES ASSUME Alone'
               PROVE /\ OthersGone' /\ StreamOK(provider', stream', Top')
                     /\ Flow(provider', stream', pub'[gen'].queue, Hand(gen)', held'["main"], read')
    BY Zenon, <1>0, <1>2 DEF OrderInv
  <2>1. /\ Alone /\ OthersGone /\ StreamOK(provider, stream, Top) /\ (IsM(held["main"]) => heard)
        /\ Flow(provider, stream, q, Hand(gen), held["main"], read) /\ ~IsM(held["refresh"])
    BY Zenon, <1>0 DEF OrderInv
  <2>2. OthersGone'
    BY Zenon, <1>0, <1>3, <2>1 DEF OthersGone, Hand
  <2>3. Numbered(q) /\ q \in Seq(Env) /\ held[p][2] \in Nat /\ held[p] \in Env
    BY Zenon, <1>0, AllNumbered DEF IInv, SessionTypes
  <2>4. pub'[gen].queue = Append(q, held[p])
    <3>1. pub[gen] \in PubType /\ DOMAIN pub = Sessions
      BY Zenon, <1>0 DEF IInv, SessionTypes
    <3>2. pub'[gen] = [pub[gen] EXCEPT !.queue = Append(@, held[p]), !.accepted = @ \cup {held[p]}]
      BY Zenon, <1>0, <1>5, <3>1
    <3> QED
      BY Zenon, <3>1, <3>2 DEF PubType
  <2> HIDE DEF q
  <2>5. /\ Len(Append(q, held[p])) = Len(q) + 1 /\ Append(q, held[p])[Len(q) + 1] = held[p]
        /\ \A i \in 1..Len(q) : Append(q, held[p])[i] = q[i]
    BY <2>3
  <2>6. IsM(held["main"]) => StreamOK(provider, stream, read)
    BY ZenonT(60), <2>1 DEF Top
  <2>7. \/ held[p] = held["main"] /\ ~IsM(held'["main"])
        \/ ~IsM(held[p]) /\ held'["main"] = held["main"]
    BY Zenon, <1>1, <2>1 DEF Procs
  <2>8. StreamOK(provider, stream, read) \/ ~IsM(held[p])
    BY Zenon, <2>6, <2>7
  <2>9. Flow(provider, stream, Append(q, held[p]), Hand(gen), held'["main"], read)
    BY Zenon, <1>0, <2>1, <2>3, <2>5, <2>7, <2>8, FlowPut
  <2>10. StreamOK(provider', stream', Top')
    BY Zenon, <1>0, <2>1 DEF Top
  <2> QED
    BY Zenon, <1>0, <2>2, <2>4, <2>9, <2>10 DEF Hand
<1> QED
  BY Zenon, <1>4, <1>5 DEF Publish

\* Close ends the session with its worker gone, or leaves it behind.
LEMMA OrderClose == ASSUME IInv, OrderInv, Close, Alone' => Alone PROVE OrderInv'
<1>1. UNCHANGED <<provider, workers, gen, read, heard, held, stream, worker>>
  BY Zenon DEF Close
<1>2. gen \in Sessions /\ pub'[gen].queue = pub[gen].queue /\ ~IsM(held["refresh"])
  BY Zenon, CloseIs DEF OrderInv
<1>3. Alone' /\ pc' \in Ended => Hand(gen).at = "gone"
  <2> SUFFICES ASSUME Alone', pc' \in Ended PROVE Hand(gen).at = "gone"
    BY Zenon
  <2>1. workers = 1 /\ ~pub'[gen].abandoned
    BY Zenon, <1>1, <1>2 DEF Alone, Sessions
  <2>2. pc' \notin {"drain", "drain2"}
    BY Zenon DEF Ended
  <2>3. Drained
    BY Zenon, <2>1, <2>2, CloseIs
  <2>4. 1 \in Workers
    BY <2>1 DEF Workers
  <2> QED
    BY Zenon, <2>3, <2>4 DEF Drained, Hand
<1> QED
  BY Zenon, <1>1, <1>2, <1>3, OrderFrame

\* The only worker takes from the front of the queue, and stores what it carries behind
\* everything stored before.
LEMMA OrderWorker == ASSUME IInv, OrderInv, Publisher, Alone' => Alone PROVE OrderInv'
<1>0. UNCHANGED <<provider, workers, gen, read, heard, held, pc>>
  BY Zenon DEF Publisher, session
<1>1. PICK g \in Sessions, w \in Workers : TakeJob(g, w) \/ Send(g, w) \/ Result(g, w) \/ Retry(g, w)
  BY Zenon DEF Publisher
<1> SUFFICES ASSUME Alone'
             PROVE /\ OthersGone' /\ StreamOK(provider', stream', Top')
                   /\ gen' > 0 => Flow(provider', stream', pub'[gen'].queue, Hand(gen)', held'["main"], read')
  BY Zenon, <1>0 DEF OrderInv
<1>2. /\ Alone /\ OthersGone /\ StreamOK(provider, stream, Top)
      /\ gen > 0 => Flow(provider, stream, pub[gen].queue, Hand(gen), held["main"], read)
  BY Zenon DEF OrderInv
<1>3. w = 1
  BY <1>2 DEF Alone, Workers
<1>4. Hand(g).at \notin {"gone", "off"}
  <2>1. worker[g][w].at \in {"idle", "write", "await", "retry"}
    BY ZenonT(60), <1>1 DEF TakeJob, Send, Result, Retry
  <2> QED
    BY ZenonT(60), <1>3, <2>1 DEF Hand
<1>5. gen \in Nat /\ g = gen /\ gen > 0 /\ pc \notin Ended
  <2>1. gen \in Nat /\ g \in Nat /\ g > 0
    BY SessionAssumption DEF IInv, SessionTypes, Sessions
  <2>2. ~(g < gen) /\ ~(g > gen)
    BY Zenon, <1>2, <1>4 DEF OthersGone
  <2> QED
    BY SMTT(30), <1>2, <1>4, <2>1, <2>2 DEF OthersGone
<1> DEFINE k == worker[gen][1]
           q == pub[gen].queue
<1>6. /\ Flow(provider, stream, q, k, held["main"], read) /\ Numbered(q) /\ q \in Seq(Env) /\ read \in Nat
      /\ k.env[2] \in Nat /\ Numbered(stream) /\ k.env \in Env /\ stream \in Seq(Env) /\ Top \in Nat /\ read <= Top
  <2>1. read \in Nat /\ heard \in BOOLEAN /\ stream \in Seq(Env)
    BY Zenon DEF IInv, SessionTypes
  <2>2. Top \in Nat /\ read <= Top
    BY <2>1 DEF Top
  <2> QED
    BY Zenon, <1>1, <1>2, <1>3, <1>5, <2>1, <2>2, AllNumbered DEF Hand
<1>7. \A h \in Sessions : h # gen => worker'[h][1] = worker[h][1]
  <2>1. \A at, env, try : Becomes(g, w, at, env, try) =>
           \A h \in Sessions : h # gen => worker'[h][1] = worker[h][1]
    BY Zenon, <1>3, <1>5 DEF Becomes
  <2> QED
    BY Zenon, <1>1, <2>1, WorkerIs
<1>8. OthersGone'
  <2>1. \A h \in Sessions : (h < gen \/ h > gen) => h # gen
    BY <1>5
  <2> QED
    BY Zenon, <1>0, <1>2, <1>5, <1>7, <2>1 DEF OthersGone, Hand
<1> HIDE DEF k, q
<1>9. ASSUME NEW k2, worker'[gen][1] = k2, stream' = stream, pub' = pub,
             Busy(k2) => Busy(k) /\ k2.env = k.env
      PROVE  /\ StreamOK(provider', stream', Top')
             /\ Flow(provider', stream', pub'[gen'].queue, Hand(gen)', held'["main"], read')
  <2>1. Flow(provider, stream, q, k2, held["main"], read)
    BY Zenon, <1>6, <1>9, FlowHand
  <2> QED
    BY Zenon, <1>0, <1>2, <1>9, <2>1 DEF Top, Hand, q
<1>10. CASE TakeJob(g, w)
  <2>1. stream' = stream
    BY Zenon, <1>10 DEF TakeJob
  <2>2. \A at, env, try : SetWorker(g, w, at, env, try) => Becomes(g, w, at, env, try)
    BY Zenon, <1>1, SetWorkerIs
  <2>5. \A at, env, try : Becomes(g, w, at, env, try) => worker'[gen][1] = [at |-> at, env |-> env, try |-> try]
    BY Zenon, <1>3, <1>5 DEF Becomes
  <2>3. CASE pub' = pub /\ SetWorker(g, w, "gone", None, 0)
    <3>1. worker'[gen][1] = [at |-> "gone", env |-> None, try |-> 0]
      <4>1. Becomes(g, w, "gone", None, 0)
        BY Zenon, <2>2, <2>3
      <4> QED
        BY Zenon, <2>5, <4>1
    <3>2. ~Busy([at |-> "gone", env |-> None, try |-> 0])
      BY Zenon DEF Busy
    <3> QED
      BY Zenon, <1>8, <1>9, <2>1, <2>3, <3>1, <3>2
  <2>4. CASE /\ pub[g].queue # <<>> /\ pub' = [pub EXCEPT ![g].queue = Tail(@)]
             /\ \/ SetWorker(g, w, "gone", None, 0)
                \/ SetWorker(g, w, "write", Head(pub[g].queue), 0)
    <3>1. q # <<>> /\ pub'[gen].queue = Tail(q)
      <4>1. pub[gen] \in PubType /\ DOMAIN pub = Sessions
        BY Zenon, <1>1, <1>5 DEF IInv, SessionTypes
      <4>2. pub'[gen] = [pub[gen] EXCEPT !.queue = Tail(@)]
        BY ZenonT(60), <1>1, <1>5, <2>4, <4>1
      <4> QED
        BY Zenon, <1>5, <2>4, <4>1, <4>2 DEF PubType, q
    <3>2. /\ Len(q) > 0 /\ Len(Tail(q)) = Len(q) - 1 /\ Head(q) = q[1]
          /\ \A i \in 1..Len(Tail(q)) : Tail(q)[i] = q[i + 1]
      BY SMTT(30), <1>6, <3>1
    <3> DEFINE k2 == worker'[gen][1]
    <3>3. k2 = [at |-> "gone", env |-> None, try |-> 0] \/ k2 = [at |-> "write", env |-> q[1], try |-> 0]
      <4>1. Becomes(g, w, "gone", None, 0) \/ Becomes(g, w, "write", Head(pub[g].queue), 0)
        BY Zenon, <2>2, <2>4
      <4>2. Head(pub[g].queue) = q[1]
        BY Zenon, <1>5, <3>2 DEF q
      <4>3. \/ k2 = [at |-> "gone", env |-> None, try |-> 0]
            \/ k2 = [at |-> "write", env |-> Head(pub[g].queue), try |-> 0]
        BY Zenon, <1>3, <1>5, <4>1 DEF Becomes
      <4> HIDE DEF k2
      <4> QED
        BY Zenon, <4>2, <4>3
    <3>4. ~Busy(k2) \/ k2.env = q[1]
      <4> HIDE DEF k2
      <4> QED
        BY <3>3 DEF Busy
    <3> HIDE DEF k2
    <3>5. Flow(provider, stream, Tail(q), k2, held["main"], read)
      BY Zenon, <1>6, <3>2, <3>4, FlowTake
    <3> QED
      BY Zenon, <1>0, <1>2, <1>8, <2>1, <3>1, <3>5 DEF Top, Hand, k2
  <2> QED
    BY Zenon, <1>10, <2>3, <2>4 DEF TakeJob
<1>11. CASE Send(g, w) \/ Result(g, w) \/ Retry(g, w)
  <2>0. pub' = pub
    BY Zenon, <1>11 DEF Send, Result, Retry
  <2> DEFINE k2 == worker'[gen][1]
  <2>1. Busy(k2) => Busy(k) /\ k2.env = k.env
    <3>1. \A at, env, try : Becomes(g, w, at, env, try) => k2 = [at |-> at, env |-> env, try |-> try]
      BY Zenon, <1>3, <1>5 DEF Becomes
    <3>2. \/ Becomes(g, w, "gone", None, 0)
          \/ Becomes(g, w, "idle", None, 0)
          \/ k.at = "idle"
          \/ k.at = "write" /\ Becomes(g, w, "await", k.env, k.try)
          \/ k.at = "await" /\ Becomes(g, w, "retry", k.env, k.try)
          \/ k.at = "retry" /\ Becomes(g, w, "write", k.env, k.try + 1)
      BY ZenonT(60), <1>1, <1>3, <1>5, WorkerIs DEF k
    <3>3. k.at # "idle"
      BY ZenonT(60), <1>3, <1>5, <1>11 DEF Send, Result, Retry, k
    <3> HIDE DEF k2
    <3>4. \/ k2 = [at |-> "gone", env |-> None, try |-> 0]
          \/ k2 = [at |-> "idle", env |-> None, try |-> 0]
          \/ k.at = "write" /\ k2 = [at |-> "await", env |-> k.env, try |-> k.try]
          \/ k.at = "await" /\ k2 = [at |-> "retry", env |-> k.env, try |-> k.try]
          \/ k.at = "retry" /\ k2 = [at |-> "write", env |-> k.env, try |-> k.try + 1]
      BY Zenon, <3>1, <3>2, <3>3
    <3> QED
      BY <3>4 DEF Busy
  <2>2. CASE stream' = stream
    BY Zenon, <1>8, <1>9, <2>0, <2>1, <2>2
  <2>3. CASE Busy(k) /\ stream' = Append(stream, k.env) /\ k.env \notin Range(stream)
    <3> DEFINE s2 == Append(stream, k.env)
    <3>1. /\ Len(s2) = Len(stream) + 1 /\ s2[Len(stream) + 1] = k.env
          /\ \A i \in 1..Len(stream) : s2[i] = stream[i]
      BY SMTT(30), <1>6
    <3>2. \A i \in 1..Len(stream) :
            ~(stream[i][1] = k.env[1] /\ stream[i][2] = k.env[2] /\ stream[i][3] = k.env[3])
      <4> SUFFICES ASSUME NEW i \in 1..Len(stream),
                          stream[i][1] = k.env[1], stream[i][2] = k.env[2], stream[i][3] = k.env[3]
                   PROVE FALSE
        BY ZenonT(60)
      <4>1. i \in DOMAIN stream /\ stream[i] \in Env
        BY SMTT(30), <1>6
      <4>2. \A u, v \in Env : u[1] = v[1] /\ u[2] = v[2] /\ u[3] = v[3] => u = v
        BY DEF Env
      <4>3. stream[i] = k.env
        BY Zenon, <1>6, <4>1, <4>2
      <4> QED
        BY ZenonT(60), <2>3, <4>1, <4>3 DEF Range
    <3> HIDE DEF s2
    <3>3. Flow(provider, s2, q, k, held["main"], read) /\ StreamOK(provider, s2, Top)
      BY Zenon, <1>2, <1>6, <2>3, <3>1, <3>2, FlowDeliver
    <3>4. Flow(provider, s2, q, k2, held["main"], read)
      <4> HIDE DEF k2
      <4> QED
        BY Zenon, <2>1, <3>3, FlowHand
    <3>5. stream' = s2
      BY Zenon, <2>3 DEF s2
    <3> QED
      BY ZenonT(60), <1>0, <1>8, <2>0, <3>3, <3>4, <3>5 DEF Top, Hand, q
  <2>4. stream' = stream \/ (Busy(k) /\ stream' = Deliver(k.env))
    BY Zenon, <1>1, <1>3, <1>5, WorkerIs DEF k
  <2> QED
    BY Zenon, <2>2, <2>3, <2>4 DEF Deliver
<1> QED
  BY Zenon, <1>1, <1>10, <1>11

\* Every step keeps the order.
LEMMA OrderStep == IInv /\ SBounds /\ Unleft /\ OrderInv /\ [Next]_vars => OrderInv'
<1> SUFFICES ASSUME IInv, SBounds, Unleft, OrderInv, [Next]_vars PROVE OrderInv'
  BY Zenon
<1>0. (Alone' => Alone) /\ ~IsM(held["refresh"])
  BY Zenon, UnleftStep DEF OrderInv
<1>1. CASE Backoff \/ RefreshWakes \/ CancelRefresh \/ Cancel \/ UNCHANGED vars
  <2>1. /\ UNCHANGED <<provider, gen, read, heard, stream, worker, held, pub>>
        /\ pc' = pc \/ pc \in {"idle", "backoff"}
    BY Zenon, <1>1 DEF Backoff, RefreshWakes, CancelRefresh, Cancel, session, vars
  <2>2. pc' \in Ended => pc \in Ended
    BY Zenon, <2>1 DEF Ended
  <2> QED
    BY Zenon, <1>0, <2>1, <2>2, OrderFrame
<1>2. ASSUME NEW p \in Procs, Snapshot(p) PROVE OrderInv'
  <2>1. /\ UNCHANGED <<provider, gen, read, heard, stream, worker, pub>>
        /\ held' = held \/ held' = [held EXCEPT ![p] = <<"q", frames + 1, gen>>]
        /\ pc' = pc \/ Leave(p)
    BY Zenon, <1>2 DEF Snapshot
  <2>2. \A q \in Procs : held'[q] = held[q] \/ ~IsM(held'[q])
    <3>1. ~IsM(<<"q", frames + 1, gen>>)
      BY Zenon DEF IsM
    <3>2. \A q \in Procs : held'[q] = held[q] \/ held'[q] = <<"q", frames + 1, gen>>
      BY Zenon, <2>1 DEF IInv, SessionTypes
    <3> QED
      BY Zenon, <3>1, <3>2
  <2>3. pc' \in Ended => pc \in Ended
    BY Zenon, <2>1 DEF Leave, Ended
  <2>4. (held'["main"] = held["main"] \/ ~IsM(held'["main"])) /\ ~IsM(held'["refresh"])
    BY Zenon, <1>0, <2>2 DEF Procs
  <2> QED
    BY Zenon, <1>0, <2>1, <2>3, <2>4, OrderFrame
<1> QED
  BY Zenon, <1>0, <1>1, <1>2, OrderConnect, OrderRead, OrderPublish, OrderClose, OrderWorker
     DEF Next, Main, Refresh, Procs

\* With one publish worker the messages of a device reach the stream in the order the broker
\* sent them, and a Pulse MQTT message is stored once, whatever is retried, dropped, sent
\* again or cut off by a reconnect, for any number of sessions, unless Close had to leave a
\* worker behind (publishWithRetry, newEnvelopeID).
THEOREM StreamStaysInOrder == Spec => []StreamInOrder
<1>1. Init => Unleft /\ OrderInv
  <2> SUFFICES ASSUME Init PROVE Unleft /\ OrderInv
    BY Zenon
  <2>1. pc = "idle" /\ gen = 0 /\ stream = <<>> /\ \A g \in Sessions : pub[g] = NewPublisher
    BY Zenon DEF Init
  <2>2. ~NewPublisher.abandoned /\ NewPublisher.queue = <<>>
    BY Zenon DEF NewPublisher
  <2>3. Unleft
    BY Zenon, <2>1, <2>2 DEF Unleft, InSession
  <2>4. ~IsM(held["main"]) /\ ~IsM(held["refresh"])
    BY Zenon DEF Init, IsM, None
  <2>5. StreamOK(provider, stream, Top)
    <3>1. 1..Len(<<>>) = {}
      BY SMTT(30)
    <3> QED
      BY Zenon, <2>1, <3>1 DEF StreamOK
  <2>6. workers = 1 => OthersGone
    <3> SUFFICES ASSUME workers = 1 PROVE OthersGone
      BY Zenon
    <3>1. \A g \in Sessions, w \in Workers : worker[g][w] = [Idle EXCEPT !.at = "off"]
      BY Zenon DEF Init
    <3>2. 1 \in Workers /\ [Idle EXCEPT !.at = "off"].at = "off"
      BY DEF Workers, Idle
    <3>3. \A g \in Sessions : worker[g][1].at = "off" /\ ~(g < gen) /\ ~(gen > 0)
      <4>1. \A g \in Sessions : worker[g][1].at = "off"
        BY Zenon, <3>1, <3>2
      <4>2. \A g \in Sessions : ~(g < gen) /\ ~(gen > 0)
        BY <2>1 DEF Sessions
      <4> QED
        BY Zenon, <4>1, <4>2
    <3> QED
      BY <2>1, <3>3 DEF OthersGone, Hand
  <2> QED
    BY <2>1, <2>3, <2>4, <2>5, <2>6 DEF OrderInv, Alone
<1>2. OrderInv => StreamInOrder
  BY Zenon DEF OrderInv, Alone, StreamOK, IsM, StreamInOrder
<1>3. IInv /\ SBounds /\ Unleft /\ OrderInv /\ [Next]_vars => Unleft' /\ OrderInv'
  BY Zenon, UnleftStep, OrderStep
<1> QED
  BY <1>1, <1>2, <1>3, SBoundsInit, SBoundsStep, Inductive, PTL DEF Spec
==============================================================================
