------------------------------- MODULE Rollup --------------------------------
(***************************************************************************)
(* The rollup worker (internal/rollupworker): every envelope of a device   *)
(* is claimed in telemetry_rollup_applied_envelopes and added to the       *)
(* minute, hour and day rows in one transaction; the power integrated by   *)
(* the next envelope is kept in the memory of the worker.                  *)
(*                                                                         *)
(* A transaction is two steps here: the claim, which makes another worker  *)
(* with the same envelope wait, and the commit.  The upserts add to the    *)
(* rows as they are at the commit, since each locks its row.  One device.  *)
(***************************************************************************)
EXTENDS JetStream, RollupMath

CONSTANTS Workers,
          Sample,       \* the sample of each envelope, or None for one without any
          MaxFaults     \* bound on crashes, failed database calls, lost acks, and
                        \* redeliveries of a message a worker is busy with

ASSUME RollupAssumption ==
    /\ \A m \in Messages : Sample[m] = None \/ Sample[m] \in Samples
    /\ MaxFaults \in Nat

VARIABLES
    claims,     \* telemetry_rollup_applied_envelopes
    rows,       \* the rollup tables
    state,      \* integrationStateByDevice of each worker
    job,        \* the message each worker is busy with
    faults,     \* how many there have been
    crashed,    \* history: has a worker died?
    lost        \* history: has a commit taken place and been answered with an error?

rollupVars == <<stream, claims, rows, state, job, faults, crashed, lost>>

Idle == [step |-> "idle"]
Useful == {m \in Messages : Sample[m] # None}

RollupInit ==
    /\ StreamInit
    /\ claims = {}
    /\ rows = [k \in Buckets |-> NoRow]
    /\ state = [w \in Workers |-> NoState]
    /\ job = [w \in Workers |-> Idle]
    /\ faults = 0 /\ crashed = FALSE /\ lost = FALSE

Fails == faults < MaxFaults /\ faults' = faults + 1
SetJob(w, j) == job' = [job EXCEPT ![w] = j]

\* processDelivery naks when the store returns an error; the transaction is rolled back.
GivesUp(w) ==
    /\ Fails
    /\ SetJob(w, Idle)
    /\ Nak({job[w].msg})

------------------------------------------------------------------------------
(* processDelivery and ApplyEnvelope.                                      *)

\* An envelope without metrics is acknowledged, an invalid one terminated.
SkipEnvelope(w, m) ==
    /\ job[w] = Idle /\ m \notin Useful /\ stream[m] = "queued"
    /\ Ack({m})
    /\ UNCHANGED <<claims, rows, state, job, faults, crashed, lost>>

Locked(m) == \E v \in Workers : job[v] = [step |-> "tx", msg |-> m]

\* Mutant: the claim is committed on its own, before the rows.
ClaimEarly(w, m) ==
    /\ job[w] = Idle /\ m \in Useful
    /\ Deliver(m)
    /\ claims' = claims \cup {m}
    /\ IF m \in claims
       THEN /\ state' = [state EXCEPT ![w] = advanceDuplicateIntegrationState(@, Sample[m])]
            /\ SetJob(w, [step |-> "ack", msg |-> m])
       ELSE SetJob(w, [step |-> "tx", msg |-> m]) /\ UNCHANGED state
    /\ UNCHANGED <<rows, faults, crashed, lost>>

\* Mutant: a duplicate is an error of the insert, and the message nak'd.
ClaimRefusesDuplicate(w, m) ==
    /\ job[w] = Idle /\ m \in Useful /\ m \notin claims
    /\ ~Locked(m)
    /\ Deliver(m)
    /\ SetJob(w, [step |-> "tx", msg |-> m])
    /\ UNCHANGED <<claims, rows, state, faults, crashed, lost>>

\* claimEnvelopeDedup.  A duplicate only moves the integration state forward.
Claim(w, m) ==
    /\ job[w] = Idle /\ m \in Useful
    /\ \/ /\ ~Locked(m)
          /\ Deliver(m)
          /\ IF m \in claims
             THEN /\ state' = [state EXCEPT ![w] = advanceDuplicateIntegrationState(@, Sample[m])]
                  /\ SetJob(w, [step |-> "ack", msg |-> m])
             ELSE SetJob(w, [step |-> "tx", msg |-> m]) /\ UNCHANGED state
          /\ UNCHANGED faults
       \/ stream[m] = "queued" /\ Fails /\ UNCHANGED <<stream, state, job>>
    /\ UNCHANGED <<claims, rows, crashed, lost>>

\* Mutant: the upserts are executed outside the transaction, on the pool.
CommitKeepsRows(w) ==
    LET m == job[w].msg IN
    /\ job[w].step = "tx"
    /\ rows' = UpsertSample(rows, state[w], Sample[m])
    /\ \/ /\ claims' = claims \cup {m}
          /\ state' = [state EXCEPT ![w] = advanceIntegrationState(@, Sample[m])]
          /\ SetJob(w, [step |-> "ack", msg |-> m])
          /\ UNCHANGED <<stream, faults>>
       \/ GivesUp(w) /\ UNCHANGED <<claims, state>>
    /\ UNCHANGED <<crashed, lost>>

\* The upserts and the commit.  The commit may be answered with an error although it
\* took place; the redelivery then finds a duplicate.
Commit(w) ==
    LET m == job[w].msg
        committed == /\ claims' = claims \cup {m}
                     /\ rows' = UpsertSample(rows, state[w], Sample[m])
    IN
    /\ job[w].step = "tx"
    /\ \/ /\ committed
          /\ state' = [state EXCEPT ![w] = advanceIntegrationState(@, Sample[m])]
          /\ SetJob(w, [step |-> "ack", msg |-> m])
          /\ UNCHANGED <<stream, faults, lost>>
       \/ GivesUp(w) /\ UNCHANGED <<claims, rows, state, lost>>
       \/ GivesUp(w) /\ committed /\ lost' = TRUE /\ UNCHANGED state
    /\ UNCHANGED crashed

\* The message is acknowledged; the ack may get lost.
Finish(w) ==
    /\ job[w].step = "ack"
    /\ SetJob(w, Idle)
    /\ \/ Ack({job[w].msg}) /\ UNCHANGED faults
       \/ Fails /\ UNCHANGED stream
    /\ UNCHANGED <<claims, rows, state, crashed, lost>>

------------------------------------------------------------------------------
Busy(m) == \E w \in Workers : job[w] # Idle /\ job[w].msg = m

AckWaitPasses(m) ==
    /\ stream[m] = "delivered"
    /\ IF Busy(m) THEN Fails ELSE UNCHANGED faults
    /\ Nak({m})
    /\ UNCHANGED <<claims, rows, state, job, crashed, lost>>

\* A worker dies and is restarted: its transaction is rolled back, and its integration
\* state forgotten.
Crash(w) ==
    /\ Fails /\ crashed' = TRUE
    /\ SetJob(w, Idle)
    /\ state' = [state EXCEPT ![w] = NoState]
    /\ UNCHANGED <<stream, claims, rows, lost>>

Handle(w) == Commit(w) \/ Finish(w)
Receive(w, m) == SkipEnvelope(w, m) \/ Claim(w, m)

RollupNext ==
    \/ \E m \in Messages : AckWaitPasses(m)
    \/ \E w \in Workers : (\E m \in Messages : Receive(w, m)) \/ Handle(w) \/ Crash(w)

RollupSpec == RollupInit /\ [][RollupNext]_rollupVars

\* JetStream keeps delivering, and a handler that was called goes on to its end.
RollupFairness ==
    /\ \A m \in Messages :
         /\ WF_rollupVars(AckWaitPasses(m))
         /\ SF_rollupVars(\E w \in Workers : Receive(w, m))
    /\ \A w \in Workers : WF_rollupVars(Handle(w))

RollupFairSpec == RollupSpec /\ RollupFairness

------------------------------------------------------------------------------
(* Properties.                                                             *)

\* Each claimed envelope is counted once, in one row of each width, a row's time range is
\* that of its envelopes, and nothing is acknowledged before: whatever is redelivered,
\* retried, rolled back or committed without an answer, by however many workers.
CountedOnce ==
    /\ \A m \in Useful : stream[m] = "acked" => m \in claims
    /\ CountsSamples(rows, Sample, claims)

\* The rows of different widths stay consistent through failures and crashes.
WidthsAgree == Consistent(rows)

\* Every envelope is counted and acknowledged in the end.
AllCounted == <>[](claims = Useful /\ \A m \in Messages : stream[m] = "acked")

EnergyFits == Bounded(rows, {Sample[m] : m \in Useful})

\* One worker has handled all envelopes, kept its memory and learnt of each commit.
OneMemory ==
    /\ ~crashed /\ ~lost
    /\ \A v, w \in Workers : state[v] # NoState /\ state[w] # NoState => v = w

\* No interval is integrated twice, whatever comes late, again or fails: no row has more
\* energy than the largest power reported, for the time within Gap after a report.  This
\* takes a worker that has handled all envelopes, keeps its memory and learns of each commit.
EnergyCountedOnce == OneMemory => EnergyFits

\* telemetry-model.md: "Replayed or redelivered envelopes must not increment
\* `sample_count`, `solar_generated_wh`, or other persisted energy buckets more than
\* once for the same canonical envelope/message identity."
RedeliveryAddsNoEnergy == ~lost => EnergyFits
==============================================================================
