----------------------------- MODULE IngestLoop ------------------------------
(***************************************************************************)
(* Ingest workers competing for one provider device: the reconcile loop    *)
(* (internal/ingestworker/loop.go) on top of the lease as LeaseClient      *)
(* describes it.                                                           *)
(*                                                                         *)
(* Each worker process has one Run goroutine, and for every session it     *)
(* starts a heartbeat goroutine (the client of the lease) and a session    *)
(* goroutine (the MQTT session runner), all named by the lease token.      *)
(* Goroutines that end report to Run through termCh.                       *)
(*                                                                         *)
(* Devices have keys of their own in every map of the loop, so one device  *)
(* is modelled.  `row' is its provider_devices row: the credential it uses *)
(* when active, or Off.                                                    *)
(***************************************************************************)
EXTENDS LeaseClient, Integers, Sequences, FiniteSetsExt

CONSTANTS Workers,
          Starts,      \* bound: tokens one worker can have in use at a time
          Configs,     \* values of the row when it is active
          Off,         \* the row when inactive, draining or paused, or missing
          Scenarios    \* what happens to the workers, of ScenarioType

\* row: the row at first; rows: what users make of it; changes: bound on their changes;
\* faults: bound on crashes, shutdowns and rejected credentials; lapses: bound on failed
\* lease calls and expiries of a renewed lease.
ScenarioType == [row : Configs, rows : SUBSET (Configs \cup {Off}),
                 changes : Nat, faults : Nat, lapses : Nat]

ASSUME LoopAssumption ==
    /\ NoToken \notin Tokens
    /\ Tokens = Workers \X (1..Starts)
    /\ Off \notin Configs
    /\ Scenarios \subseteq ScenarioType

VARIABLES
    row,       \* the provider_devices row
    pc,        \* where Run is
    view,      \* the row as ListIngestAssignments returned it to the worker
    drawn,     \* the token of the Acquire call in progress
    running,   \* Loop.running: the token of the registered session, or NoToken
    sess,      \* the session goroutine of the token
    config,    \* the assignment the session was started with
    termCh,    \* Loop.termCh
    cooldown,  \* workers with a pending credentialRejectUntil
    shutdown,  \* workers whose root context is done
    scenario,
    changes, faults, lapses  \* how many there have been

loopVars == <<row, pc, view, drawn, running, sess, config, termCh, cooldown,
              shutdown, scenario, changes, faults, lapses>>
vars == <<clientVars, loopVars>>

Owner(t) == t[1]
TokensOf(w) == {t \in Tokens : Owner(t) = w}
InUse(w) == {t \in TokensOf(w) : phase[t] # "unused"}

LoopInit ==
    /\ ClientInit
    /\ scenario \in Scenarios
    /\ row = scenario.row
    /\ pc = [w \in Workers |-> "idle"]
    /\ view = [w \in Workers |-> Off]
    /\ drawn = [w \in Workers |-> NoToken]
    /\ running = [w \in Workers |-> NoToken]
    /\ sess = [t \in Tokens |-> "none"]
    /\ config = [t \in Tokens |-> Off]
    /\ termCh = [w \in Workers |-> <<>>]
    /\ cooldown = {}
    /\ shutdown = {}
    /\ changes = 0
    /\ faults = 0
    /\ lapses = 0

------------------------------------------------------------------------------
(* The control plane.                                                      *)

\* A user activates, deactivates, pauses or re-credentials the device.
UserChanges(c) ==
    /\ changes < scenario.changes
    /\ c # row /\ c \in scenario.rows
    /\ changes' = changes + 1
    /\ row' = c
    /\ UNCHANGED <<scenario, clientVars, pc, view, drawn, running, sess, config, termCh, cooldown,
                   shutdown, faults, lapses>>

\* Quota refresh of a running session: the upsert writes back the credential and
\* the desired state of the assignment the session was started with.
publishQuotaSnapshot(t) ==
    /\ sess[t] = "running" /\ t \notin cancelled
    /\ row # config[t]
    /\ row' = config[t]
    /\ UNCHANGED <<scenario, clientVars, pc, view, drawn, running, sess, config, termCh,
                   cooldown, shutdown, changes, faults, lapses>>

------------------------------------------------------------------------------
(* Run.                                                                    *)

\* Mutant: only events with a rejected credential are acted upon.
DrainTerminatedKeepsOthers(w, r) ==
    LET hits == {k \in DOMAIN termCh[w] : termCh[w][k] = [token |-> r, err |-> "rejected"]} IN
    /\ running' = [running EXCEPT ![w] = IF hits = {} THEN r ELSE NoToken]
    /\ cancelled' = cancelled \cup IF hits = {} THEN {} ELSE {r}
    /\ cooldown' = IF hits # {} THEN cooldown \cup {w} ELSE cooldown
    /\ termCh' = [termCh EXCEPT ![w] = <<>>]

\* drainTerminated with session r registered: the first event of r cancels and
\* deregisters it, and starts the cooldown when its error is a rejected
\* credential.  Every other event is dropped.
DrainTerminated(w, r) ==
    LET hits == {k \in DOMAIN termCh[w] : termCh[w][k].token = r} IN
    /\ running' = [running EXCEPT ![w] = IF hits = {} THEN r ELSE NoToken]
    /\ cancelled' = cancelled \cup IF hits = {} THEN {} ELSE {r}
    /\ cooldown' = IF hits # {} /\ termCh[w][Min(hits)].err = "rejected"
                   THEN cooldown \cup {w} ELSE cooldown
    /\ termCh' = [termCh EXCEPT ![w] = <<>>]

\* Run receives an event and drains the rest.  A reconcile whose list call fails
\* does the same.
HandleTermination(w) ==
    /\ pc[w] = "idle" /\ termCh[w] # <<>>
    /\ DrainTerminated(w, running[w])
    /\ UNCHANGED <<scenario, holder, phase, row, pc, view,
                   drawn, sess, config, shutdown, changes, faults, lapses>>

\* The poll timer fires: drain, then list the assignments.
ReconcileList(w) ==
    /\ pc[w] = "idle" /\ w \notin shutdown
    /\ DrainTerminated(w, running[w])
    /\ view' = [view EXCEPT ![w] = row]
    /\ pc' = [pc EXCEPT ![w] = "listed"]
    /\ UNCHANGED <<scenario, holder, phase, row, drawn,
                   sess, config, shutdown, changes, faults, lapses>>

\* The registered session is one reconcile keeps: shouldRun and
\* sameRuntimeAssignment.
Keeps(w) == running[w] # NoToken /\ view[w] = config[running[w]]

\* Mutant: the session is forgotten, but its context is left alone.
StopsNothing(w) == {}

\* The session stopSessionLocked cancels when reconcile does not keep it.
Stops(w) == {running[w]} \ {NoToken}

\* Reconcile finds nothing to start (the session is kept, the row is off, or the
\* credential is cooling down); it stops a session it does not keep.
ReconcileStop(w) ==
    /\ pc[w] = "listed"
    /\ Keeps(w) \/ view[w] = Off \/ w \in cooldown
    /\ pc' = [pc EXCEPT ![w] = "idle"]
    /\ IF Keeps(w)
       THEN DrainTerminated(w, running[w])
       ELSE /\ cancelled' = cancelled \cup Stops(w)
            /\ running' = [running EXCEPT ![w] = NoToken]
            /\ cooldown' = IF Stops(w) = {} THEN cooldown ELSE cooldown \ {w}
            /\ termCh' = [termCh EXCEPT ![w] = <<>>]
    /\ UNCHANGED <<scenario, holder, phase, row, view, drawn, sess, config, shutdown, changes,
                   faults, lapses>>

\* Both goroutines of the token have ended, if ever there were any, and the lease is
\* not its own.  An event of it that is left in termCh will be dropped unheeded.
Forgotten(t) ==
    phase[t] \in {"unused", "exited"} /\ sess[t] # "running" /\ holder # t

\* nextToken never repeats a token within a process: a forgotten token stands for
\* one that was never drawn, and the first such token for all of them.  A token left
\* by an earlier process of the same worker id, which may still hold the lease, can
\* be drawn again, because the counter restarts.
NextToken(w, t) ==
    /\ Owner(t) = w
    /\ \/ phase[t] = "unused" /\ holder = t
       \/ Forgotten(t) /\ \A u \in TokensOf(w) : u[2] < t[2] => ~Forgotten(u)

\* Reconcile stops a session it does not keep, and startSession draws a token and
\* calls Acquire.
StartSession(w, t) ==
    /\ pc[w] = "listed" /\ ~Keeps(w) /\ view[w] # Off /\ w \notin cooldown
    /\ NextToken(w, t)
    /\ running' = [running EXCEPT ![w] = NoToken]
    /\ cancelled' = (cancelled \ {t}) \cup Stops(w) \cup (IF w \in shutdown THEN {t} ELSE {})
    /\ To(t, "asking")
    /\ sess' = [sess EXCEPT ![t] = "none"]
    /\ config' = [config EXCEPT ![t] = Off]
    /\ termCh' = [termCh EXCEPT ![w] = SelectSeq(@, LAMBDA e : e.token # t)]
    /\ drawn' = [drawn EXCEPT ![w] = t]
    /\ pc' = [pc EXCEPT ![w] = "acquiring"]
    /\ UNCHANGED <<scenario, holder, row, view, cooldown, shutdown, changes, faults, lapses>>

\* Acquire succeeded: both goroutines are spawned, the session registered and the
\* queue drained.  No event of the new session can be handled before it is
\* registered, since Run is the goroutine that registers it.
SpawnSession(w) ==
    LET t == drawn[w] IN
    /\ pc[w] = "acquiring" /\ phase[t] = "beating"
    /\ sess' = [sess EXCEPT ![t] = "running"]
    /\ config' = [config EXCEPT ![t] = view[w]]
    /\ running' = [running EXCEPT ![w] = t]
    /\ cancelled' = cancelled \cup ({running[w]} \ {NoToken})
    /\ termCh' = [termCh EXCEPT ![w] = <<>>]
    /\ drawn' = [drawn EXCEPT ![w] = NoToken]
    /\ pc' = [pc EXCEPT ![w] = "idle"]
    /\ UNCHANGED <<scenario, holder, phase, row, view,
                   cooldown, shutdown, changes, faults, lapses>>

\* Acquire failed or was denied: nothing is started.
StartFails(w) ==
    /\ pc[w] = "acquiring" /\ phase[drawn[w]] = "exited"
    /\ termCh' = [termCh EXCEPT ![w] = <<>>]
    /\ drawn' = [drawn EXCEPT ![w] = NoToken]
    /\ pc' = [pc EXCEPT ![w] = "idle"]
    /\ UNCHANGED <<scenario, clientVars, row, view, running, sess, config, cooldown, shutdown,
                   changes, faults, lapses>>

CooldownPasses(w) ==
    /\ w \in cooldown
    /\ cooldown' = cooldown \ {w}
    /\ UNCHANGED <<scenario, clientVars, row, pc, view, drawn, running, sess, config, termCh,
                   shutdown, changes, faults, lapses>>

------------------------------------------------------------------------------
(* The goroutines of a session.                                            *)

\* The MQTT session runner returns: nil once its context is done, an error when
\* the provider rejects the credential.  Anything else it retries.
SessionEnds(t) ==
    /\ sess[t] = "running"
    /\ \/ /\ t \in cancelled
          /\ termCh' = [termCh EXCEPT ![Owner(t)] = Append(@, [token |-> t, err |-> "other"])]
          /\ UNCHANGED faults
       \/ /\ t \notin cancelled
          /\ faults < scenario.faults /\ faults' = faults + 1
          /\ termCh' = [termCh EXCEPT ![Owner(t)] = Append(@, [token |-> t, err |-> "rejected"])]
    /\ sess' = [sess EXCEPT ![t] = "ended"]
    /\ UNCHANGED <<scenario, clientVars, row, pc, view, drawn, running, config, cooldown,
                   shutdown, changes, lapses>>

\* The lease is held by a token no heartbeat renews.
Abandoned == holder # NoToken /\ phase[holder] \in {"unused", "exited"}

\* A lease step that takes no failure: Acquire is answered, a heartbeat that lost the
\* lease takes it again or returns, a cancelled one releases or, its call in flight
\* aborted, just returns.
Answered(t) ==
    \/ Granted(t)
    \/ /\ phase[t] = "asking" /\ (holder # NoToken \/ t \in cancelled)
       /\ GivesUp(t)
    \/ sess[t] # "none" /\ (Reacquires(t) \/ Releases(t))
    \/ /\ sess[t] # "none" /\ (holder \notin {t, NoToken} \/ t \in cancelled)
       /\ phase[t] = "beating"
       /\ GivesUp(t)

\* Mutant: the heartbeat goroutine ends without emitTermination.
HeartbeatEventNone(t) == <<>>

\* A heartbeat that returns reports it.
HeartbeatEvent(t) ==
    IF sess[t] # "none" /\ phase[t] = "beating" /\ phase'[t] = "exited"
    THEN <<[token |-> t, err |-> "other"]>>
    ELSE <<>>

LeaseStep(t) ==
    /\ Answered(t)
    /\ termCh' = [termCh EXCEPT ![Owner(t)] = @ \o HeartbeatEvent(t)]
    /\ UNCHANGED <<scenario, row, pc, view, drawn, running, sess, config, cooldown, shutdown,
                   changes, faults, lapses>>

LeaseExpires ==
    /\ Abandoned
    /\ Lapses
    /\ UNCHANGED loopVars

\* A call fails for good, a renewed lease expires, a late request arrives.
LeaseFails(t) ==
    /\ lapses < scenario.lapses /\ lapses' = lapses + 1
    /\ \/ /\ GivesUp(t)
          /\ phase[t] = "asking" \/ sess[t] # "none"
       \/ holder = t /\ Lapses
       \/ GrantedLate(t)
    /\ termCh' = [termCh EXCEPT ![Owner(t)] = @ \o HeartbeatEvent(t)]
    /\ UNCHANGED <<scenario, row, pc, view, drawn, running, sess, config, cooldown, shutdown,
                   changes, faults>>

------------------------------------------------------------------------------
(* Shutdown, crash and restart of a worker.                                *)

\* SIGTERM: the root context, the parent of every context of the process, is done.
Shutdown(w) ==
    /\ pc[w] \in {"idle", "listed", "acquiring"} /\ w \notin shutdown
    /\ faults < scenario.faults /\ faults' = faults + 1
    /\ shutdown' = shutdown \cup {w}
    /\ cancelled' = cancelled \cup InUse(w)
    /\ UNCHANGED <<scenario, holder, phase, row, pc, view,
                   drawn, running, sess, config, termCh, cooldown, changes, lapses>>

\* Run sees the root context done and starts to wait for the registered session.
StopAll(w) ==
    /\ pc[w] = "idle" /\ w \in shutdown
    /\ pc' = [pc EXCEPT ![w] = "stopping"]
    /\ UNCHANGED <<scenario, clientVars, row, view, drawn, running, sess, config, termCh,
                   cooldown, shutdown, changes, faults, lapses>>

\* The process is gone with everything in it.
Dies(w) ==
    LET T == TokensOf(w) IN
    /\ pc' = [pc EXCEPT ![w] = "down"]
    /\ phase' = [t \in Tokens |-> IF t \in T THEN "unused" ELSE phase[t]]
    /\ sess' = [t \in Tokens |-> IF t \in T THEN "none" ELSE sess[t]]
    /\ config' = [t \in Tokens |-> IF t \in T THEN Off ELSE config[t]]
    /\ cancelled' = cancelled \ T
    /\ view' = [view EXCEPT ![w] = Off]
    /\ drawn' = [drawn EXCEPT ![w] = NoToken]
    /\ running' = [running EXCEPT ![w] = NoToken]
    /\ termCh' = [termCh EXCEPT ![w] = <<>>]
    /\ cooldown' = cooldown \ {w}
    /\ shutdown' = shutdown \ {w}
    /\ UNCHANGED <<scenario, holder, row, changes, lapses>>

\* stopAll returns: the heartbeat and the session have ended, or StopTimeout has
\* passed.  Sessions deregistered earlier are not waited for.
Stopped(w) ==
    /\ pc[w] = "stopping"
    /\ \/ /\ running[w] # NoToken
             => phase[running[w]] = "exited" /\ sess[running[w]] = "ended"
          /\ UNCHANGED faults
       \/ faults < scenario.faults /\ faults' = faults + 1
    /\ Dies(w)

Crash(w) ==
    /\ pc[w] # "down"
    /\ faults < scenario.faults /\ faults' = faults + 1
    /\ Dies(w)

\* A process with the same worker id starts; its token counter starts anew.
Restart(w) ==
    /\ pc[w] = "down"
    /\ pc' = [pc EXCEPT ![w] = "idle"]
    /\ UNCHANGED <<scenario, clientVars, row, view, drawn, running, sess, config, termCh,
                   cooldown, shutdown, changes, faults, lapses>>

------------------------------------------------------------------------------
RunStep(w) ==
    \/ HandleTermination(w) \/ ReconcileList(w) \/ ReconcileStop(w)
    \/ \E t \in Tokens : StartSession(w, t)
    \/ SpawnSession(w) \/ StartFails(w) \/ StopAll(w) \/ Stopped(w)

LoopNext ==
    \/ \E c \in Configs \cup {Off} : UserChanges(c)
    \/ \E w \in Workers : RunStep(w) \/ CooldownPasses(w) \/ Shutdown(w) \/ Crash(w) \/ Restart(w)
    \/ \E t \in Tokens :
          \/ SessionEnds(t) \/ publishQuotaSnapshot(t) \/ LeaseStep(t) \/ LeaseFails(t)
    \/ LeaseExpires

LoopSpec == LoopInit /\ [][LoopNext]_vars

\* The goroutines of a live process keep running, the database answers again after
\* failing, a session whose context is done returns, a lease nobody renews expires.
\* No worker has to come back: a crashed one may stay down.
LoopFairness ==
    /\ WF_vars(LeaseExpires)
    /\ \A w \in Workers :
         WF_vars(RunStep(w) /\ pc'[w] # pc[w]) /\ WF_vars(CooldownPasses(w))
    /\ \A t \in Tokens :
         /\ WF_vars(SessionEnds(t) /\ t \in cancelled)
         /\ WF_vars(LeaseStep(t))

LoopFairSpec == LoopSpec /\ LoopFairness

------------------------------------------------------------------------------
(* Properties.                                                             *)

\* A session that is to keep running: its context is not done.
Live(t) == sess[t] = "running" /\ t \notin cancelled

\* No session leaks: whatever ends, restarts or is replaced, a session whose context
\* is not done is the one its worker has registered, so reconcile can still stop it.
LiveIsRegistered ==
    \A t \in Tokens : Live(t) => running[Owner(t)] = t

\* As long as no call failed for good and every lease outlived its renewals, the lease
\* keeps every other worker from running the device: of all workers, crashing,
\* restarting and being reconfigured, at most one has a session not told to stop.  (A
\* session told to stop can still be connected when the next one starts: the heartbeat
\* releases the lease without waiting for it.)
AtMostOneLive ==
    lapses = 0 => \A t, u \in Tokens : Live(t) /\ Live(u) => t = u

\* A session that loses its heartbeat does not go on: the loop reads the heartbeat's
\* event and cancels it, so that, while users leave the row alone, there is again and
\* again no session without a heartbeat.
LostHeartbeatStopsSession ==
    []<>(changes > 0 \/ \A t \in Tokens : ~(phase[t] = "exited" /\ sess[t] = "running"))

\* The row is served by a session that has the lease and the row's credential, or
\* nothing runs when it is off.
Served ==
    IF row = Off
    THEN \A t \in Tokens : sess[t] # "running"
    ELSE \E t \in Tokens : Live(t) /\ config[t] = row /\ holder = t

\* Once crashes and rejected credentials stop interfering, the workers settle on what
\* the row says, as long as one of them is up and no user has changed the row.  (After a
\* change the quota refreshes of two sessions can write their credentials over each
\* other's for ever.)
Converges == <>[](Served \/ changes > 0 \/ \A w \in Workers : pc[w] = "down")

\* ADR-0014: "Disable/deactivate transitions execute graceful drain."  When the last
\* thing users do is to disable the device, its session ends.
DisableDrains ==
    (row = Off /\ changes = scenario.changes) ~> (\A t \in Tokens : sess[t] # "running")
==============================================================================
