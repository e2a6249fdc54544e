---------------------------- MODULE RollupRebuild ----------------------------
(***************************************************************************)
(* The archive-to-rollup rebuild (internal/rolluprebuild) next to the live *)
(* rollup of the same envelopes.                                           *)
(*                                                                         *)
(* The rebuild merges archived envelopes of one rebuildEnvelopeKey, and    *)
(* applies the others in ingest order, the order in which a single live    *)
(* worker that nothing disturbs has applied them, so one action stands for *)
(* both.  The rebuild's aggregator is code of its own; only                *)
(* IntegratePowerWindow is shared.  No two ingest times are equal, and the *)
(* live claim tells all envelopes of the log apart (envelopededup.Key has  *)
(* the envelope's id first, rebuildEnvelopeKey last).                      *)
(***************************************************************************)
EXTENDS RollupMath

CONSTANTS Envelopes,   \* the envelopes considered
          LogLength    \* how many there are in the archive

\* key: rebuildEnvelopeKey, None for the empty one; sample: None without metrics.
ASSUME RebuildAssumption ==
    /\ \A e \in Envelopes : e.sample = None \/ e.sample \in Samples
    /\ LogLength \in Nat

VARIABLES log,           \* the archived envelopes, in ingest order
          live,          \* the rows the live worker wrote
          liveState,
          rebuilt,       \* the rows of the rebuild
          rebuiltState,
          applied,       \* how many envelopes have been handled
          late           \* history: has a sample come after one with a later event time?

rebuildVars == <<log, live, liveState, rebuilt, rebuiltState, applied, late>>

RebuildInit ==
    /\ log \in [1..LogLength -> Envelopes]
    /\ live = [k \in Buckets |-> NoRow]
    /\ liveState = NoState
    /\ rebuilt = [k \in Buckets |-> NoRow]
    /\ rebuiltState = NoState
    /\ applied = 0 /\ late = FALSE

------------------------------------------------------------------------------
(* Aggregator.                                                             *)

\* advancePowerState takes every value, older or not.
advancePowerState(p, at, v) ==
    IF v = None THEN p ELSE [at |-> at, watts |-> Max({v, 0})]

AdvanceState(st, s) ==
    [last |-> LastAfter(st.last, s.at),
     ch |-> [c \in Channels |-> advancePowerState(st.ch[c], s.at, Input(s, c))]]

\* addPoint: counts the sample; a row made by integration alone has no time range yet.
AddPoint(row, at) ==
    IF row = NoRow THEN Row(1, at, at, NoEnergy)
    ELSE IF row.n = 0 THEN Row(1, at, at, row.wh)
    ELSE Row(row.n + 1, Min({row.first, at}), Max({row.last, at}), row.wh)

\* integrateSolar, integrateEnergy.
AddEnergy(row, st, s, k) ==
    IF \A c \in Channels : SegmentsIn(st, s, c, k) = {} THEN row
    ELSE IF row = NoRow THEN Row(0, None, None, [c \in Channels |-> EnergyIn(st, s, c, k)])
    ELSE [row EXCEPT !.wh = [c \in Channels |-> @[c] + EnergyIn(st, s, c, k)]]

\* Aggregator.ApplySample: energy first, then the point.
AddSample(rows, st, s) ==
    [k \in Buckets |->
        LET row == AddEnergy(rows[k], st, s, k)
        IN IF BucketOf(s.at, k[1]) = k THEN AddPoint(row, s.at) ELSE row]

------------------------------------------------------------------------------
(* processObjectGroup.                                                     *)

\* shouldPreferLatestEnvelope: of the envelopes with one key the last to be ingested
\* stays, whether it has metrics or not.
Kept(n) == log[n].key = None \/ \A j \in (n + 1)..LogLength : log[j].key # log[n].key

ApplyLive(s) ==
    /\ live' = UpsertSample(live, liveState, s)
    /\ liveState' = advanceIntegrationState(liveState, s)
    /\ late' = (late \/ (liveState.last # None /\ s.at < liveState.last))

ApplyRebuilt(s) ==
    /\ rebuilt' = AddSample(rebuilt, rebuiltState, s)
    /\ rebuiltState' = AdvanceState(rebuiltState, s)

\* Mutant: the rebuild applies every envelope.
ApplyEnvelopeUnmerged(n) ==
    LET s == log[n].sample IN
    /\ applied' = n
    /\ IF s = None
       THEN UNCHANGED <<live, liveState, late, rebuilt, rebuiltState>>
       ELSE ApplyLive(s) /\ ApplyRebuilt(s)
    /\ UNCHANGED log

\* An envelope without metrics is skipped by both (ErrNoRollupMetrics).
ApplyEnvelope(n) ==
    LET s == log[n].sample IN
    /\ applied' = n
    /\ IF s = None THEN UNCHANGED <<live, liveState, late>> ELSE ApplyLive(s)
    /\ IF s = None \/ ~Kept(n) THEN UNCHANGED <<rebuilt, rebuiltState>> ELSE ApplyRebuilt(s)
    /\ UNCHANGED log

RebuildNext == applied < LogLength /\ ApplyEnvelope(applied + 1)

RebuildSpec == RebuildInit /\ [][RebuildNext]_rebuildVars

------------------------------------------------------------------------------
(* Properties.                                                             *)

SampleOf == [n \in 1..LogLength |-> log[n].sample]
Counted == {n \in 1..applied : log[n].sample # None}
\* A later envelope has the same key.
Replaced(n) == \E j \in 1..LogLength : j > n /\ log[j].key = log[n].key /\ log[n].key # None
Merged == {n \in Counted : Replaced(n)}

SameEnergy ==
    \A k \in Buckets, c \in Channels : Energy(live, k, c) = Energy(rebuilt, k, c)

\* Two implementations, one result but for what the rebuild merges: the live rows count
\* every envelope with metrics, and the rebuild's those that no later one with the same
\* key replaces; the time ranges are those of the envelopes counted.  As long as none is
\* merged and the event times are in the order of ingestion, the energies are the same.  (A
\* late sample sets the rebuild's power state back, not the live worker's.)  Of either, an
\* hour's or a day's row says what its minutes' rows say together, late samples or not.
RebuildEqualsLive ==
    /\ CountsSamples(live, SampleOf, Counted)
    /\ CountsSamples(rebuilt, SampleOf, Counted \ Merged)
    /\ Merged = {} /\ ~late => SameEnergy
    /\ Consistent(live) /\ Consistent(rebuilt)

\* Neither table has more energy in a bucket than the largest power reported, for the time
\* within the carry limit after a report of power: windows of successive samples do not
\* overlap, late ones included, and no power is carried further than Gap.
EnergyIsBounded ==
    /\ Bounded(live, {log[n].sample : n \in Counted})
    /\ Bounded(rebuilt, {log[n].sample : n \in Counted \ Merged})
==============================================================================
