----------------------------- MODULE RollupMath ------------------------------
(***************************************************************************)
(* The arithmetic of the rollups (internal/rollupworker): which segments   *)
(* of time a sample's predecessor powers, which buckets they fall into,    *)
(* and how bucket rows add up.                                             *)
(*                                                                         *)
(* Times are integers, energy is power times time.  The channels stand for *)
(* the ones of the source: "pv" for PV, AC and DC channels, which ignore a *)
(* metric that is missing, and the battery's two directions, for which a   *)
(* missing metric counts as zero.                                          *)
(***************************************************************************)
EXTENDS Integers, FiniteSets, FiniteSetsExt

CONSTANTS None,     \* a missing value
          Gap,      \* DefaultSolarCarryForwardMaxGap
          Widths,   \* bucket widths: minute, hour, day
          Horizon   \* all event times are below it

ASSUME MathAssumption ==
    /\ None \notin Int
    /\ Gap \in Nat \ {0} /\ Horizon \in Nat \ {0}
    /\ Widths \subseteq Nat \ {0}

\* A day is so many hours, an hour so many minutes.
ASSUME WidthsNest == \A v, w \in Widths : v < w => w % v = 0

Channels == {"pv", "charge", "discharge"}
Samples == [at : 0..(Horizon - 1), pv : Int \cup {None}, battery : Int \cup {None}]

Truncate(t, width) == width * (t \div width)
BucketOf(t, width) == <<width, Truncate(t, width)>>
Buckets == {BucketOf(t, width) : t \in 0..(Horizon - 1), width \in Widths}

------------------------------------------------------------------------------
(* Integration state of a device.                                          *)

Positive(v) == IF v = None THEN 0 ELSE Max({v, 0})
Negative(v) == IF v = None THEN 0 ELSE Max({-v, 0})

Input(s, c) ==
    CASE c = "pv" -> s.pv
      [] c = "charge" -> Positive(s.battery)
      [] c = "discharge" -> Negative(s.battery)

NoState == [last |-> None, ch |-> [c \in Channels |-> [at |-> None, watts |-> 0]]]

\* lastEnvelopeAt only moves forward.
LastAfter(last, at) == IF last = None THEN at ELSE Max({last, at})

\* advancePowerChannelState: an older value than the one known is ignored.
advancePowerChannelState(p, at, v) ==
    IF v = None \/ (p.at # None /\ at < p.at) THEN p
    ELSE [at |-> at, watts |-> Max({v, 0})]

advanceIntegrationState(st, s) ==
    [last |-> LastAfter(st.last, s.at),
     ch |-> [c \in Channels |-> advancePowerChannelState(st.ch[c], s.at, Input(s, c))]]

advanceDuplicateIntegrationState(st, s) ==
    IF st.last # None /\ s.at <= st.last THEN st ELSE advanceIntegrationState(st, s)

------------------------------------------------------------------------------
(* Energy.                                                                 *)

\* Mutant: a segment always reaches to the end of its bucket.
SegmentEndUnclipped(b, width, end) == b + width

SegmentEnd(b, width, end) == Min({b + width, end})

\* Mutant: the last power is carried forward without limit.
CarryLimitUnbounded(end, lastPowerAt) == end

CarryLimit(end, lastPowerAt) == Min({end, lastPowerAt + Gap})

\* The window from start to end, no further than Gap beyond the last power value, cut
\* at the bucket boundaries.
IntegratePowerWindow(start, end, lastPowerAt, width) ==
    LET stop == CarryLimit(end, lastPowerAt)
        from[cursor \in 0..(2 * Horizon + Gap)] ==
            LET b == Truncate(cursor, width)
                to == SegmentEnd(b, width, stop)
            IN IF cursor >= stop THEN {}
               ELSE {[bucket |-> <<width, b>>, from |-> cursor, to |-> to]} \cup from[to]
    IN from[start]

\* What the sample adds on channel c: the power known before it, since the last envelope.
Segments(st, s, c, width) ==
    IF st.last = None \/ st.ch[c].watts = 0 THEN {}
    ELSE IntegratePowerWindow(st.last, s.at, st.ch[c].at, width)

SegmentsIn(st, s, c, k) == {g \in Segments(st, s, c, k[1]) : g.bucket = k}

EnergyIn(st, s, c, k) ==
    st.ch[c].watts * SumFunction([g \in SegmentsIn(st, s, c, k) |-> g.to - g.from])

------------------------------------------------------------------------------
(* Rows.                                                                   *)

NoRow == [n |-> None]
NoEnergy == [c \in Channels |-> 0]
Row(n, first, last, wh) == [n |-> n, first |-> first, last |-> last, wh |-> wh]

\* buildUpsertQuery: the time range of a row without samples is replaced.
UpsertPoint(row, at) ==
    IF row = NoRow THEN Row(1, at, at, NoEnergy)
    ELSE IF row.n = 0 THEN Row(1, at, at, row.wh)
    ELSE Row(row.n + 1, Min({row.first, at}), Max({row.last, at}), row.wh)

\* buildSolarUpsertQuery, buildEnergyUpsertQuery: energy is added, and the range of the
\* segments recorded in a row that has no samples.
UpsertEnergy(row, st, s, k) ==
    LET segments == UNION {SegmentsIn(st, s, c, k) : c \in Channels}
        first == Min({g.from : g \in segments})
        last == Max({g.to - 1 : g \in segments})
        wh(before) == [c \in Channels |-> before[c] + EnergyIn(st, s, c, k)]
    IN IF segments = {} THEN row
       ELSE IF row = NoRow THEN Row(0, first, last, wh(NoEnergy))
       ELSE IF row.n = 0
       THEN Row(0, Min({row.first, first}), Max({row.last, last}), wh(row.wh))
       ELSE Row(row.n, row.first, row.last, wh(row.wh))

\* The rows of all widths after a sample: its point, then the energy up to it.
UpsertSample(rows, st, s) ==
    [k \in Buckets |->
        UpsertEnergy(IF BucketOf(s.at, k[1]) = k THEN UpsertPoint(rows[k], s.at) ELSE rows[k],
                     st, s, k)]

------------------------------------------------------------------------------
(* What rows may be expected to say.                                       *)

Energy(rows, k, c) == IF rows[k] = NoRow THEN 0 ELSE rows[k].wh[c]

Count(rows, k) == IF rows[k] = NoRow THEN 0 ELSE rows[k].n

\* The buckets of width v inside bucket k.
Within(k, v) == {j \in Buckets : j[1] = v /\ k[2] <= j[2] /\ j[2] + v <= k[2] + k[1]}

\* A row says what the rows of a finer width say together.
Consistent(rows) ==
    \A k \in Buckets : \A v \in {v \in Widths : v < k[1]} :
       /\ Count(rows, k) = SumFunction([j \in Within(k, v) |-> Count(rows, j)])
       /\ \A c \in Channels :
            Energy(rows, k, c) = SumFunction([j \in Within(k, v) |-> Energy(rows, j, c)])

\* A row counts the samples F[x], x in C, of its bucket, and spans their times.
CountsSamples(rows, F, C) ==
    \A k \in Buckets :
       LET inRow == {x \in C : BucketOf(F[x].at, k[1]) = k}
           times == {F[x].at : x \in inRow}
       IN /\ Count(rows, k) = Cardinality(inRow)
          /\ times # {} => rows[k].first = Min(times) /\ rows[k].last = Max(times)

\* The powers the samples report on channel c.
Powers(S, c) == ({0} \cup {Input(s, c) : s \in S}) \ {None}

\* The units of time of bucket k for which a power on channel c may be carried forward.
Carried(S, c, k) ==
    {t \in 0..(Horizon - 1) :
        /\ BucketOf(t, k[1]) = k
        /\ \E s \in S : /\ Input(s, c) # None /\ Input(s, c) > 0
                       /\ s.at <= t /\ t < s.at + Gap}

\* No row has more energy than a power the samples report, for the time within Gap after
\* a report of power.
Bounded(rows, S) ==
    \A c \in Channels : \E most \in Powers(S, c) :
       \A k \in Buckets : Energy(rows, k, c) <= most * Cardinality(Carried(S, c, k))
==============================================================================
