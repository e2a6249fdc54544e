---------------------------- MODULE RollupProofs -----------------------------
(***************************************************************************)
(* The rollups for any number of workers, envelopes, faults and samples,   *)
(* and any bucket widths that nest.                                        *)
(*                                                                         *)
(* CountedOnce first, from the claims.  The energies need the arithmetic:  *)
(* sums over finite sets are what adds up one element at a time (SumIs),   *)
(* the recursion of IntegratePowerWindow is the cut of a window at the     *)
(* bucket boundaries (WindowIs), and so a sample adds to a bucket the      *)
(* power known before it, for each unit of time of its window that lies in *)
(* the bucket (EnergyIs).  Live worker and rebuild both do (SampleIs), so  *)
(* that the widths agree, and the two tables where none is merged; and the *)
(* windows of one memory do not overlap (Fits), so that no bucket has more *)
(* energy than a power reported, for the time it may be carried forward.   *)
(***************************************************************************)
EXTENDS Rollup, RollupRebuild, FiniteSetTheorems, TLAPS

IsLeast(x, T) == x \in T /\ \A t \in T : x <= t
IsGreatest(x, T) == x \in T /\ \A t \in T : x >= t

\* The row counts n samples, and spans the times T of those.
RowOK(row, n, T) ==
    IF row = NoRow THEN n = 0
    ELSE /\ row = Row(row.n, row.first, row.last, row.wh)
         /\ row.n \in Nat /\ row.n = n
         /\ n # 0 => IsLeast(row.first, T) /\ IsGreatest(row.last, T)

\* The envelopes of C whose sample belongs to bucket k, and their times.
InRow(F, C, k) == {m \in C : BucketOf(F[m].at, k[1]) = k}
TimesIn(F, C, k) == {F[m].at : m \in InRow(F, C, k)}

RowsOK(r, F, C) ==
    \A k \in Buckets : RowOK(r[k], Cardinality(InRow(F, C, k)), TimesIn(F, C, k))

TxJob(m) == [step |-> "tx", msg |-> m]
AckJob(m) == [step |-> "ack", msg |-> m]

\* A worker in a transaction has an envelope that is not claimed, and has it alone; one
\* about to acknowledge has a claimed one.
JobOK(j, C) ==
    \/ j = Idle
    \/ \E m \in Useful \ C : j = TxJob(m)
    \/ \E m \in C : j = AckJob(m)

RInv ==
    /\ claims \subseteq Useful /\ IsFiniteSet(claims)
    /\ StreamTypeOK
    /\ \A m \in Useful : stream[m] = "acked" => m \in claims
    /\ job = [w \in Workers |-> job[w]]
    /\ \A w \in Workers : JobOK(job[w], claims)
    /\ \A v, w \in Workers : \A m \in Useful : job[v] = TxJob(m) /\ job[w] = TxJob(m) => v = w
    /\ rows = [k \in Buckets |-> rows[k]]
    /\ RowsOK(rows, Sample, claims)

------------------------------------------------------------------------------
\* The smaller and the larger of two integers, as the upsert queries take them.
LEMMA OfTwo ==
    ASSUME NEW a \in Int, NEW b \in Int
    PROVE  /\ Min({a, b}) = IF a <= b THEN a ELSE b
           /\ Max({a, b}) = IF a >= b THEN a ELSE b
<1>1. \A x : (x \in {a, b} /\ \A y \in {a, b} : x =< y) <=> x = IF a <= b THEN a ELSE b
  OBVIOUS
<1>2. \A x : (x \in {a, b} /\ \A y \in {a, b} : x >= y) <=> x = IF a >= b THEN a ELSE b
  OBVIOUS
<1>3. Min({a, b}) = IF a <= b THEN a ELSE b
  <2>1. \E x \in {a, b} : \A y \in {a, b} : x =< y
    BY <1>1
  <2> QED
    BY <1>1, <2>1 DEF Min
<1>4. Max({a, b}) = IF a >= b THEN a ELSE b
  <2>1. \E x \in {a, b} : \A y \in {a, b} : x >= y
    BY <1>2
  <2> QED
    BY <1>2, <2>1 DEF Max
<1> QED
  BY <1>3, <1>4

\* A least and a greatest element are the minimum and the maximum.
LEMMA Extremes ==
    ASSUME NEW T \in SUBSET Int, NEW x
    PROVE  /\ IsLeast(x, T) => x = Min(T)
           /\ IsGreatest(x, T) => x = Max(T)
<1>1. ASSUME IsLeast(x, T) PROVE x = Min(T)
  <2>1. \A y : (y \in T /\ \A t \in T : y =< t) => y = x
    BY <1>1 DEF IsLeast
  <2>2. x \in T /\ \A t \in T : x =< t
    BY <1>1 DEF IsLeast
  <2> QED
    BY <2>1, <2>2 DEF Min
<1>2. ASSUME IsGreatest(x, T) PROVE x = Max(T)
  <2>1. \A y : (y \in T /\ \A t \in T : y >= t) => y = x
    BY <1>2 DEF IsGreatest
  <2>2. x \in T /\ \A t \in T : x >= t
    BY <1>2 DEF IsGreatest
  <2> QED
    BY <2>1, <2>2 DEF Max
<1> QED
  BY <1>1, <1>2

\* A row written by an upsert has the parts it was given, and is no missing row.
LEMMA RowParts ==
    ASSUME NEW n \in Nat, NEW first, NEW last, NEW wh
    PROVE  LET r == Row(n, first, last, wh)
           IN r # NoRow /\ r.n = n /\ r.first = first /\ r.last = last /\ r.wh = wh
<1>1. Row(n, first, last, wh).n = n
  BY DEF Row
<1>2. NoRow.n = None
  BY DEF NoRow
<1>3. Row(n, first, last, wh) # NoRow
  BY <1>1, <1>2, MathAssumption
<1> QED
  BY <1>1, <1>3 DEF Row

\* buildUpsertQuery counts the sample and widens the range to its time.
LEMMA PointCounts ==
    ASSUME NEW row, NEW n \in Nat, NEW T \in SUBSET Int, NEW at \in Int,
           RowOK(row, n, T), n = 0 => T = {}
    PROVE  RowOK(UpsertPoint(row, at), n + 1, T \cup {at})
<1>1. CASE row = NoRow \/ row.n = 0
  <2>1. n = 0 /\ T \cup {at} = {at}
    BY Zenon, <1>1 DEF RowOK
  <2>2. PICK wh : UpsertPoint(row, at) = Row(1, at, at, wh)
    BY <1>1 DEF UpsertPoint
  <2> QED
    BY <2>1, <2>2, RowParts DEF RowOK, IsLeast, IsGreatest
<1>2. CASE row # NoRow /\ row.n # 0
  <2>1. row.n = n /\ IsLeast(row.first, T) /\ IsGreatest(row.last, T)
    BY <1>2 DEF RowOK
  <2>2. row.first \in Int /\ row.last \in Int
    BY Zenon, <2>1 DEF IsLeast, IsGreatest
  <2> DEFINE lo == Min({row.first, at})
             hi == Max({row.last, at})
  <2>3. UpsertPoint(row, at) = Row(n + 1, lo, hi, row.wh)
    BY <1>2, <2>1 DEF UpsertPoint
  <2>4. IsLeast(lo, T \cup {at})
    BY <2>1, <2>2, OfTwo DEF IsLeast
  <2>5. IsGreatest(hi, T \cup {at})
    <3>1. hi = IF row.last >= at THEN row.last ELSE at
      BY Zenon, <2>2, OfTwo
    <3> HIDE DEF hi
    <3> QED
      BY <2>1, <2>2, <3>1 DEF IsGreatest
  <2> HIDE DEF lo, hi
  <2>6. n + 1 \in Nat
    OBVIOUS
  <2> DEFINE r == Row(n + 1, lo, hi, row.wh)
  <2>7. r # NoRow /\ r.n = n + 1 /\ r.first = lo /\ r.last = hi /\ r.wh = row.wh
    BY <2>6, RowParts
  <2>8. r = Row(r.n, r.first, r.last, r.wh)
    BY <2>7
  <2> HIDE DEF r
  <2>9. RowOK(r, n + 1, T \cup {at})
    BY <2>4, <2>5, <2>6, <2>7, <2>8 DEF RowOK
  <2> QED
    BY <2>3, <2>9 DEF r
<1> QED
  BY <1>1, <1>2

\* buildSolarUpsertQuery and buildEnergyUpsertQuery count no sample, and leave the range of
\* a row that has samples.
LEMMA EnergyKeepsCount ==
    ASSUME NEW row, NEW n \in Nat, NEW T, RowOK(row, n, T), NEW st, NEW s, NEW k
    PROVE  RowOK(UpsertEnergy(row, st, s, k), n, T)
<1> DEFINE up == UpsertEnergy(row, st, s, k)
<1>1. \/ up = row
      \/ n = 0 /\ \E first, last, wh : up = Row(0, first, last, wh)
      \/ n # 0 /\ row # NoRow /\ \E wh : up = Row(n, row.first, row.last, wh)
  BY Zenon DEF UpsertEnergy, RowOK
<1> HIDE DEF up
<1>2. CASE up = row
  BY <1>2 DEF up
<1>3. CASE n = 0 /\ \E first, last, wh : up = Row(0, first, last, wh)
  <2>1. PICK first, last, wh : up = Row(0, first, last, wh)
    BY <1>3
  <2> QED
    BY <1>3, <2>1, RowParts DEF RowOK, up
<1>4. CASE n # 0 /\ row # NoRow /\ \E wh : up = Row(n, row.first, row.last, wh)
  <2>1. PICK wh : up = Row(n, row.first, row.last, wh)
    BY <1>4
  <2> QED
    BY <1>4, <2>1, RowParts DEF RowOK, up
<1> QED
  BY <1>1, <1>2, <1>3, <1>4

\* Nor do integrateSolar and integrateEnergy of the rebuild.
LEMMA AddEnergyKeepsCount ==
    ASSUME NEW row, NEW n \in Nat, NEW T, RowOK(row, n, T), NEW st, NEW s, NEW k
    PROVE  RowOK(AddEnergy(row, st, s, k), n, T)
<1> DEFINE up == AddEnergy(row, st, s, k)
<1>1. \/ up = row
      \/ row = NoRow /\ \E wh : up = Row(0, None, None, wh)
      \/ row # NoRow /\ \E wh : up = [row EXCEPT !.wh = wh]
  BY Zenon DEF AddEnergy
<1> HIDE DEF up
<1>2. CASE up = row
  BY Zenon, <1>2 DEF up
<1>3. CASE row = NoRow /\ \E wh : up = Row(0, None, None, wh)
  <2>1. PICK wh : up = Row(0, None, None, wh)
    BY Zenon, <1>3
  <2>2. n = 0
    BY Zenon, <1>3 DEF RowOK
  <2> QED
    BY SMTT(30), <2>1, <2>2, RowParts DEF RowOK, up
<1>4. CASE row # NoRow /\ \E wh : up = [row EXCEPT !.wh = wh]
  <2>1. PICK wh : up = [row EXCEPT !.wh = wh]
    BY Zenon, <1>4
  <2>2. /\ row = Row(row.n, row.first, row.last, row.wh) /\ row.n = n
        /\ n # 0 => IsLeast(row.first, T) /\ IsGreatest(row.last, T)
    BY Zenon, <1>4 DEF RowOK
  <2>3. up = Row(n, row.first, row.last, wh)
    BY SMTT(30), <2>1, <2>2 DEF Row
  <2>4. up # NoRow /\ up.n = n /\ up.first = row.first /\ up.last = row.last /\ up.wh = wh
    BY <2>3, RowParts
  <2> QED
    BY Zenon, <2>2, <2>3, <2>4 DEF RowOK, up
<1> QED
  BY Zenon, <1>1, <1>2, <1>3, <1>4

\* The transaction of ApplyEnvelope adds its envelope, once, to the rows of each width, and
\* so does Aggregator.ApplySample, which adds the energy first.
LEMMA SampleCounts ==
    ASSUME NEW r, NEW F, NEW C, IsFiniteSet(C), RowsOK(r, F, C), NEW m, m \notin C,
           \A e \in C \cup {m} : F[e].at \in Int, NEW st, NEW r2,
           r2 = UpsertSample(r, st, F[m]) \/ r2 = AddSample(r, st, F[m])
    PROVE  RowsOK(r2, F, C \cup {m})
<1> SUFFICES ASSUME NEW k \in Buckets
             PROVE  RowOK(r2[k], Cardinality(InRow(F, C \cup {m}, k)), TimesIn(F, C \cup {m}, k))
  BY Zenon DEF RowsOK
<1> DEFINE s == F[m]
           n == Cardinality(InRow(F, C, k))
           T == TimesIn(F, C, k)
           n2 == Cardinality(InRow(F, C \cup {m}, k))
           T2 == TimesIn(F, C \cup {m}, k)
           mine == BucketOf(s.at, k[1]) = k
           point == IF mine THEN UpsertPoint(r[k], s.at) ELSE r[k]
           row == AddEnergy(r[k], st, s, k)
<1>1. s.at \in Int /\ T \subseteq Int
  BY Zenon DEF TimesIn, InRow
<1>2. IsFiniteSet(InRow(F, C, k)) /\ n \in Nat
  <2>1. InRow(F, C, k) \in SUBSET C
    BY Zenon DEF InRow
  <2> QED
    BY ZenonT(60), <2>1, FS_Subset, FS_CardinalityType
<1>3. n = 0 => T = {}
  <2>1. n = 0 => InRow(F, C, k) = {}
    BY Zenon, <1>2, FS_EmptySet
  <2> QED
    BY Zenon, <2>1 DEF TimesIn
<1>4. RowOK(r[k], n, T)
  BY Zenon DEF RowsOK
<1>5. ASSUME mine PROVE n2 = n + 1 /\ T2 = T \cup {s.at}
  <2>1. InRow(F, C \cup {m}, k) = InRow(F, C, k) \cup {m} /\ m \notin InRow(F, C, k)
    BY ZenonT(60), <1>5 DEF InRow
  <2>2. n2 = n + 1
    BY ZenonT(60), <1>2, <2>1, FS_AddElement
  <2>3. T2 = T \cup {s.at}
    BY ZenonT(60), <2>1 DEF TimesIn
  <2> QED
    BY Zenon, <2>2, <2>3
<1>6. ASSUME ~mine PROVE n2 = n /\ T2 = T
  <2>1. InRow(F, C \cup {m}, k) = InRow(F, C, k)
    BY ZenonT(60), <1>6 DEF InRow
  <2> QED
    BY Zenon, <2>1 DEF TimesIn
<1>7. n2 \in Nat
  <2>1. n + 1 \in Nat
    BY <1>2
  <2> HIDE DEF n, n2, T, T2, mine
  <2> QED
    BY Zenon, <1>2, <1>5, <1>6, <2>1
<1>8. \A x : RowOK(x, n, T) => RowOK(UpsertPoint(x, s.at), n + 1, T \cup {s.at})
  BY Zenon, <1>1, <1>2, <1>3, PointCounts
<1> HIDE DEF s, n, n2, T, T2
<1>9. CASE r2 = UpsertSample(r, st, F[m])
  <2>1. r2[k] = UpsertEnergy(point, st, s, k)
    BY Zenon, <1>9 DEF UpsertSample, s
  <2>2. RowOK(point, n2, T2)
    BY Zenon, <1>4, <1>5, <1>6, <1>8
  <2> HIDE DEF point
  <2>3. RowOK(r2[k], n2, T2)
    BY Zenon, <1>7, <2>1, <2>2, EnergyKeepsCount
  <2> QED
    BY Zenon, <2>3 DEF n2, T2
<1>10. CASE r2 = AddSample(r, st, F[m])
  <2>1. r2[k] = IF mine THEN UpsertPoint(row, s.at) ELSE row
    BY Zenon, <1>10 DEF AddSample, AddPoint, UpsertPoint, s
  <2>2. RowOK(row, n, T)
    BY Zenon, <1>2, <1>4, AddEnergyKeepsCount
  <2> HIDE DEF row
  <2>3. RowOK(r2[k], n2, T2)
    BY Zenon, <1>5, <1>6, <1>8, <2>1, <2>2
  <2> QED
    BY Zenon, <2>3 DEF n2, T2
<1> QED
  BY Zenon, <1>9, <1>10

\* Rows without samples.
LEMMA NoneCounted ==
    ASSUME NEW r, NEW F, \A k \in Buckets : r[k] = NoRow
    PROVE  RowsOK(r, F, {})
<1>1. \A k \in Buckets : InRow(F, {}, k) = {}
  BY Zenon DEF InRow
<1>2. \A k \in Buckets : Cardinality(InRow(F, {}, k)) = 0
  BY Zenon, <1>1, FS_EmptySet
<1> QED
  BY Zenon, <1>2 DEF RowsOK, RowOK

\* What such rows say.
LEMMA RowsCount ==
    ASSUME NEW r, NEW F, NEW C, IsFiniteSet(C), \A e \in C : F[e].at \in Int, RowsOK(r, F, C)
    PROVE  CountsSamples(r, F, C)
<1>1. ASSUME NEW k \in Buckets
      PROVE  /\ Count(r, k) = Cardinality(InRow(F, C, k))
             /\ TimesIn(F, C, k) # {} => /\ r[k].first = Min(TimesIn(F, C, k))
                                         /\ r[k].last = Max(TimesIn(F, C, k))
  <2> DEFINE n == Cardinality(InRow(F, C, k))
             T == TimesIn(F, C, k)
  <2>1. RowOK(r[k], n, T)
    BY Zenon DEF RowsOK
  <2>2. IsFiniteSet(InRow(F, C, k))
    <3>1. InRow(F, C, k) \in SUBSET C
      BY Zenon DEF InRow
    <3> QED
      BY Zenon, <3>1, FS_Subset
  <2>3. T # {} => n # 0
    <3>1. T # {} => InRow(F, C, k) # {}
      BY Zenon DEF TimesIn
    <3> QED
      BY Zenon, <2>2, <3>1, FS_EmptySet
  <2>4. T \in SUBSET Int
    BY Zenon DEF TimesIn, InRow
  <2> HIDE DEF n, T
  <2>5. Count(r, k) = n
    BY Zenon, <2>1 DEF RowOK, Count
  <2>6. T # {} => r[k] # NoRow /\ IsLeast(r[k].first, T) /\ IsGreatest(r[k].last, T)
    BY Zenon, <2>1, <2>3 DEF RowOK
  <2>7. T # {} => r[k].first = Min(T) /\ r[k].last = Max(T)
    BY Zenon, <2>4, <2>6, Extremes
  <2> QED
    BY Zenon, <2>5, <2>7 DEF n, T
<1> QED
  BY Zenon, <1>1 DEF CountsSamples, InRow, TimesIn

------------------------------------------------------------------------------
\* Nothing is claimed at first.
LEMMA RInvInit == RollupInit => RInv
<1> SUFFICES ASSUME RollupInit PROVE RInv
  OBVIOUS
<1>1. claims = {} /\ IsFiniteSet(claims)
  BY FS_EmptySet DEF RollupInit
<1>2. \A m \in Messages : stream[m] = "queued"
  BY Zenon DEF RollupInit, StreamInit
<1>3. StreamTypeOK
  BY DEF RollupInit, StreamInit, StreamTypeOK
<1>4. \A w \in Workers : job[w] = Idle
  BY DEF RollupInit
<1>5. \A w \in Workers, m \in Useful : job[w] # TxJob(m)
  BY <1>4 DEF Idle, TxJob
<1>6. RowsOK(rows, Sample, claims)
  BY Zenon, <1>1, NoneCounted DEF RollupInit
<1>7. job = [w \in Workers |-> job[w]] /\ rows = [k \in Buckets |-> rows[k]]
  BY DEF RollupInit
<1> QED
  BY <1>1, <1>2, <1>3, <1>4, <1>5, <1>6, <1>7 DEF RInv, JobOK, Useful

\* The three kinds of job are told apart by their step.
LEMMA JobKinds ==
    /\ Idle.step = "idle"
    /\ \A m : TxJob(m).step = "tx" /\ TxJob(m).msg = m
    /\ \A m : AckJob(m).step = "ack" /\ AckJob(m).msg = m
BY DEF Idle, TxJob, AckJob

\* What the workers do keeps the invariant: an envelope is claimed with its rows, by the
\* one worker that has it in a transaction, and acknowledged after that.
LEMMA RInvStep == RInv /\ [RollupNext]_rollupVars => RInv'
<1> SUFFICES ASSUME RInv, [RollupNext]_rollupVars PROVE RInv'
  OBVIOUS
<1> DEFINE StreamOK == /\ StreamTypeOK'
                       /\ \A m \in Useful : stream'[m] = "acked" => stream[m] = "acked" \/ m \in claims
           \* Worker w gets job j, and nothing else changes that the invariant speaks of.
           Turns(w, j) == /\ job' = [job EXCEPT ![w] = j]
                          /\ UNCHANGED <<claims, rows>>
           \* A transaction of worker w becomes visible.
           Applied(w, m, j) == /\ job[w] = TxJob(m) /\ m \in Useful /\ m \notin claims
                               /\ job' = [job EXCEPT ![w] = j]
                               /\ claims' = claims \cup {m}
                               /\ rows' = UpsertSample(rows, state[w], Sample[m])
                               /\ j \in {Idle, AckJob(m)}
<1>0. Useful \subseteq Messages
  BY DEF Useful
<1>1. \/ StreamOK /\ UNCHANGED <<claims, rows, job>>
      \/ StreamOK /\ \E w \in Workers :
           \/ Turns(w, Idle)
           \/ \E m \in Useful : m \notin claims /\ ~Locked(m) /\ Turns(w, TxJob(m))
           \/ \E m \in claims : Turns(w, AckJob(m))
           \/ \E m \in Useful : \E j : Applied(w, m, j)
  <2>1. ASSUME NEW w \in Workers, NEW m \in Messages, SkipEnvelope(w, m)
        PROVE  StreamOK /\ UNCHANGED <<claims, rows, job>>
    BY ZenonT(60), <1>0, <2>1 DEF SkipEnvelope, Ack, RInv, StreamTypeOK
  <2>2. ASSUME NEW w \in Workers, NEW m \in Messages, Claim(w, m)
        PROVE  StreamOK /\ \/ UNCHANGED <<claims, rows, job>>
                           \/ m \in Useful /\ m \notin claims /\ ~Locked(m) /\ Turns(w, TxJob(m))
                           \/ m \in claims /\ Turns(w, AckJob(m))
    <3>1. StreamOK
      BY ZenonT(60), <1>0, <2>2 DEF Claim, Deliver, RInv, StreamTypeOK
    <3>2. UNCHANGED <<claims, rows>>
      BY <2>2 DEF Claim
    <3>3. m \in Useful
      BY ZenonT(60), <2>2 DEF Claim
    <3> QED
      BY SMTT(30), <2>2, <3>1, <3>2, <3>3 DEF Claim, SetJob, TxJob, AckJob
  <2>3. ASSUME NEW w \in Workers, Commit(w)
        PROVE  StreamOK /\ (Turns(w, Idle) \/ \E m \in Useful : \E j : Applied(w, m, j))
    <3>1. PICK m \in Useful \ claims : job[w] = TxJob(m)
      BY <2>3, JobKinds DEF Commit, RInv, JobOK
    <3>2. job[w].msg = m
      BY SMTT(30), <3>1, JobKinds
    <3>3. StreamOK
      BY SMTT(30), <1>0, <2>3 DEF Commit, GivesUp, Nak, RInv, StreamTypeOK
    <3>4. CASE UNCHANGED <<claims, rows>>
      BY SMTT(30), <2>3, <3>1, <3>2, <3>3, <3>4 DEF Commit, GivesUp, SetJob, AckJob
    <3>5. CASE /\ claims' = claims \cup {m}
               /\ rows' = UpsertSample(rows, state[w], Sample[m])
      <4>1. \E j \in {Idle, AckJob(m)} : job' = [job EXCEPT ![w] = j]
        BY <2>3, <3>2 DEF Commit, GivesUp, SetJob, AckJob
      <4> QED
        BY Zenon, <3>1, <3>3, <3>5, <4>1
    <3> QED
      BY SMTT(30), <2>3, <3>2, <3>4, <3>5 DEF Commit
  <2>4. ASSUME NEW w \in Workers, Finish(w) PROVE StreamOK /\ Turns(w, Idle)
    <3>1. job[w].msg \in claims
      BY <2>4, JobKinds DEF Finish, RInv, JobOK
    <3> QED
      BY <1>0, <2>4, <3>1 DEF Finish, SetJob, Ack, RInv, StreamTypeOK
  <2>5. ASSUME NEW m \in Messages, AckWaitPasses(m)
        PROVE  StreamOK /\ UNCHANGED <<claims, rows, job>>
    BY <1>0, <2>5 DEF AckWaitPasses, Nak, RInv, StreamTypeOK
  <2>6. ASSUME NEW w \in Workers, Crash(w) PROVE StreamOK /\ Turns(w, Idle)
    BY ZenonT(60), <2>6 DEF Crash, SetJob, RInv, StreamTypeOK
  <2>7. CASE UNCHANGED rollupVars
    BY <2>7 DEF rollupVars, RInv, StreamTypeOK
  <2> HIDE DEF StreamOK, Turns, Applied
  <2> QED
    BY SMTT(30), <2>1, <2>2, <2>3, <2>4, <2>5, <2>6, <2>7 DEF RollupNext, Receive, Handle
<1>2. CASE StreamOK /\ UNCHANGED <<claims, rows, job>>
  BY <1>2 DEF RInv
<1>3. ASSUME StreamOK, NEW w \in Workers, NEW j, Turns(w, j), JobOK(j, claims),
             \A m \in Useful : j = TxJob(m) => ~Locked(m)
      PROVE  RInv'
  <2>1. job' = [v \in Workers |-> job'[v]]
    BY <1>3 DEF RInv
  <2>2. \A v \in Workers : job'[v] = IF v = w THEN j ELSE job[v]
    BY <1>3 DEF RInv
  <2>3. \A m \in Useful, v \in Workers : j = TxJob(m) => job[v] # TxJob(m)
    BY <1>3 DEF Locked, TxJob
  <2>4. \A u, v \in Workers : \A m \in Useful : job'[u] = TxJob(m) /\ job'[v] = TxJob(m) => u = v
    BY <2>2, <2>3 DEF RInv
  <2>5. \A v \in Workers : JobOK(job'[v], claims)
    BY <1>3, <2>2 DEF RInv
  <2> QED
    BY <1>3, <2>1, <2>4, <2>5 DEF RInv
<1>4. ASSUME StreamOK, NEW w \in Workers, NEW m \in Useful, NEW j, Applied(w, m, j)
      PROVE  RInv'
  <2>1. claims' = claims \cup {m} /\ claims' \subseteq Useful /\ IsFiniteSet(claims')
    BY <1>4, FS_AddElement DEF RInv
  <2>2. job' = [v \in Workers |-> job'[v]]
    BY <1>4 DEF RInv
  <2>3. \A v \in Workers : job'[v] = IF v = w THEN j ELSE job[v]
    BY <1>4 DEF RInv
  <2>4. \A e : j # TxJob(e)
    BY <1>4, JobKinds
  <2>5. \A u, v \in Workers : \A e \in Useful : job'[u] = TxJob(e) /\ job'[v] = TxJob(e) => u = v
    BY <2>3, <2>4 DEF RInv
  <2>6. \A v \in Workers : JobOK(job'[v], claims')
    <3> SUFFICES ASSUME NEW v \in Workers PROVE JobOK(job'[v], claims')
      OBVIOUS
    <3>1. CASE v = w
      BY SMTT(30), <1>4, <2>1, <2>3, <3>1 DEF JobOK
    <3>2. CASE v # w
      <4>1. job'[v] = job[v] /\ JobOK(job[v], claims) /\ job[v] # TxJob(m)
        BY <1>4, <2>3, <3>2 DEF RInv
      <4> QED
        BY <2>1, <4>1 DEF JobOK
    <3> QED
      BY <3>1, <3>2
  <2>7. RowsOK(rows', Sample, claims')
    <3>1. /\ claims \in SUBSET Useful /\ IsFiniteSet(claims) /\ RowsOK(rows, Sample, claims)
          /\ m \notin claims
      BY <1>4 DEF RInv
    <3>2. \A e \in claims \cup {m} : Sample[e].at \in Int
      <4>1. \A e \in Useful : Sample[e].at \in Int
        BY RollupAssumption DEF Useful, Samples
      <4> QED
        BY Zenon, <3>1, <4>1
    <3> DEFINE r2 == UpsertSample(rows, state[w], Sample[m])
    <3>3. rows' = r2
      BY <1>4
    <3>4. RowsOK(r2, Sample, claims \cup {m})
      BY Zenon, <3>1, <3>2, SampleCounts
    <3> QED
      BY Zenon, <2>1, <3>3, <3>4
  <2>8. rows' = [k \in Buckets |-> rows'[k]]
    BY <1>4 DEF UpsertSample
  <2> QED
    BY Zenon, <1>4, <2>1, <2>2, <2>5, <2>6, <2>7, <2>8 DEF RInv
<1>5. ASSUME NEW w \in Workers, StreamOK, Turns(w, Idle) PROVE RInv'
  <2>1. JobOK(Idle, claims) /\ \A m : Idle # TxJob(m)
    BY JobKinds DEF JobOK
  <2> QED
    BY Zenon, <1>3, <1>5, <2>1
<1>6. ASSUME NEW w \in Workers, StreamOK, NEW m \in Useful,
             m \notin claims, ~Locked(m), Turns(w, TxJob(m))
      PROVE  RInv'
  <2>1. JobOK(TxJob(m), claims) /\ \A e : TxJob(m) = TxJob(e) => e = m
    BY <1>6, JobKinds DEF JobOK
  <2> QED
    BY Zenon, <1>3, <1>6, <2>1
<1>7. ASSUME NEW w \in Workers, StreamOK, NEW m \in claims, Turns(w, AckJob(m)) PROVE RInv'
  <2>1. JobOK(AckJob(m), claims) /\ \A e : AckJob(m) # TxJob(e)
    BY JobKinds DEF JobOK
  <2> QED
    BY Zenon, <1>3, <1>7, <2>1
<1> HIDE DEF StreamOK, Turns, Applied
<1> QED
  BY <1>1, <1>2, <1>4, <1>5, <1>6, <1>7

\* The invariant says what a reader of the rollup tables sees.
LEMMA RInvCounts == RInv => CountedOnce
<1> SUFFICES ASSUME RInv PROVE CountedOnce
  BY Zenon
<1>1. \A e \in Useful : Sample[e].at \in Int
  BY RollupAssumption DEF Useful, Samples
<1>2. CountsSamples(rows, Sample, claims)
  BY Zenon, <1>1, RowsCount DEF RInv
<1> QED
  BY Zenon, <1>2 DEF CountedOnce, RInv

\* The rollup tables count every claimed envelope once in each width, over exactly its
\* envelopes' times, and nothing is acknowledged unclaimed: ApplyEnvelope's claim and upserts
\* are one transaction, with any workers, redeliveries, crashes and unanswered commits.
THEOREM EnvelopesCountOnce == RollupSpec => []CountedOnce
<1> QED
  BY RInvInit, RInvStep, RInvCounts, PTL DEF RollupSpec

------------------------------------------------------------------------------
(* Sums over finite sets.                                                  *)

HasSmallest(T) == \E U \in T : \A V \in T : V \subseteq U => V = U

\* A set of subsets of a finite set has a smallest one.
LEMMA Smallest ==
    ASSUME NEW S, IsFiniteSet(S), NEW T \in SUBSET (SUBSET S), T # {}
    PROVE  HasSmallest(T)
<1>1. T \subseteq FiniteSubsetsOf(S)
  BY FS_Subset DEF FiniteSubsetsOf
<1>2. PICK U \in T : \A V \in T : ~(<<V, U>> \in StrictSubsetOrdering(S))
  BY Zenon, <1>1, FS_StrictSubsetOrderingWellFounded, WFMin
<1>3. \A V \in T : V \subseteq U => V = U
  BY Zenon, <1>2 DEF StrictSubsetOrdering
<1> QED
  BY Zenon, <1>3 DEF HasSmallest

\* G adds up F over the subsets of S.
AddsUp(G, F, S) ==
    /\ G[{}] = 0
    /\ \A U \in SUBSET S : \A x \in U : G[U] = F[x] + G[U \ {x}]

\* A sum is any function of the sets that grows by the element's value.
LEMMA SumIs ==
    ASSUME NEW S, IsFiniteSet(S), NEW F, NEW G, AddsUp(G, F, S)
    PROVE  SumFunctionOnSet(F, S) = G[S]
<1> DEFINE P(s) == CHOOSE x \in s : TRUE
           Body(h) == [s \in SUBSET S |-> IF s = {} THEN 0 ELSE F[P(s)] + h[s \ {P(s)}]]
           f == CHOOSE h : h = Body(h)
           g == [s \in SUBSET S |-> G[s]]
<1>1. SumFunctionOnSet(F, S) = f[S]
  BY DEF SumFunctionOnSet, FoldFunctionOnSet, MapThenFoldSet
<1>2. \A s \in SUBSET S : s # {} => P(s) \in s /\ s \ {P(s)} \in SUBSET S
  OBVIOUS
<1> HIDE DEF P
<1>3. g = Body(g)
  BY Zenon, <1>2 DEF AddsUp
<1>4. f = Body(f)
  <2>1. \E h : h = Body(h)
    BY Zenon, <1>3
  <2> QED
    BY Zenon, <2>1
<1> HIDE DEF f
<1>5. f[{}] = 0 /\ \A s \in SUBSET S : s # {} => f[s] = F[P(s)] + f[s \ {P(s)}]
  BY ZenonT(60), <1>4
<1>6. \A s \in SUBSET S : f[s] = G[s]
  <2> DEFINE T == {s \in SUBSET S : f[s] # G[s]}
  <2> SUFFICES ASSUME T # {} PROVE FALSE
    OBVIOUS
  <2>1. PICK U \in T : \A V \in T : V \subseteq U => V = U
    <3>1. T \in SUBSET (SUBSET S)
      OBVIOUS
    <3> HIDE DEF T
    <3>2. HasSmallest(T)
      BY Zenon, <3>1, Smallest
    <3> QED
      BY Zenon, <3>2 DEF HasSmallest
  <2>2. U # {} /\ U \in SUBSET S
    BY Zenon, <1>5, <2>1 DEF AddsUp
  <2>3. U \ {P(U)} \in SUBSET S /\ P(U) \in U
    BY <1>2, <2>2
  <2>4. f[U \ {P(U)}] = G[U \ {P(U)}]
    BY <2>1, <2>3
  <2> QED
    BY ZenonT(60), <1>5, <2>1, <2>2, <2>3, <2>4 DEF AddsUp
<1> QED
  BY <1>1, <1>6

Growing(F, S) ==
    \A U \in SUBSET S :
       /\ SumFunctionOnSet(F, U) \in Nat
       /\ \A x \in U : SumFunctionOnSet(F, U) = F[x] + SumFunctionOnSet(F, U \ {x})

Counts(F, S) == \A x \in S : F[x] \in Nat

\* Every element of S as often as F says.
Copies(F, S) == UNION {{x} \X (1..F[x]) : x \in S}

\* A sum of naturals is a natural, and grows by the value of each element.
LEMMA SumGrows ==
    ASSUME NEW S, IsFiniteSet(S), NEW F, Counts(F, S)
    PROVE  /\ SumFunctionOnSet(F, {}) = 0
           /\ Growing(F, S)
<1>1. \A U \in SUBSET S : \A x \in U : Copies(F, U) = Copies(F, U \ {x}) \cup ({x} \X (1..F[x]))
  BY DEF Copies
<1>2. \A U \in SUBSET S : \A x \in U : Copies(F, U \ {x}) \cap ({x} \X (1..F[x])) = {}
  BY DEF Copies
<1>3. \A x \in S : IsFiniteSet({x} \X (1..F[x])) /\ Cardinality({x} \X (1..F[x])) = F[x]
  <2> SUFFICES ASSUME NEW x \in S
               PROVE  IsFiniteSet({x} \X (1..F[x])) /\ Cardinality({x} \X (1..F[x])) = F[x]
    OBVIOUS
  <2>1. IsFiniteSet(1..F[x]) /\ Cardinality(1..F[x]) = F[x]
    BY FS_Interval DEF Counts
  <2>2. IsFiniteSet({x}) /\ Cardinality({x}) = 1
    BY Zenon, FS_Singleton
  <2>3. /\ IsFiniteSet({x} \X (1..F[x]))
        /\ Cardinality({x} \X (1..F[x])) = Cardinality({x}) * Cardinality(1..F[x])
    BY Zenon, <2>1, <2>2, FS_Product
  <2> QED
    BY <2>1, <2>2, <2>3 DEF Counts
<1>4. Copies(F, {}) = {}
  BY DEF Copies
<1>5. \A U \in SUBSET S : IsFiniteSet(Copies(F, U))
  <2> DEFINE T == {U \in SUBSET S : ~IsFiniteSet(Copies(F, U))}
  <2> SUFFICES ASSUME T # {} PROVE FALSE
    OBVIOUS
  <2>1. PICK U \in T : \A V \in T : V \subseteq U => V = U
    <3>1. T \in SUBSET (SUBSET S)
      OBVIOUS
    <3> HIDE DEF T
    <3>2. HasSmallest(T)
      BY Zenon, <3>1, Smallest
    <3> QED
      BY Zenon, <3>2 DEF HasSmallest
  <2>2. PICK x : x \in U
    BY ZenonT(60), <1>4, <2>1, FS_EmptySet
  <2>3. x \in S /\ IsFiniteSet(Copies(F, U \ {x}))
    BY <2>1, <2>2
  <2>4. U \in SUBSET S /\ ~IsFiniteSet(Copies(F, U)) /\ IsFiniteSet({x} \X (1..F[x]))
    BY <1>3, <2>1, <2>3
  <2>5. Copies(F, U) = Copies(F, U \ {x}) \cup ({x} \X (1..F[x]))
    BY Zenon, <1>1, <2>2, <2>4
  <2> DEFINE A == Copies(F, U \ {x})
             B == {x} \X (1..F[x])
  <2>6. IsFiniteSet(A) /\ IsFiniteSet(B) /\ ~IsFiniteSet(A \cup B)
    BY Zenon, <2>3, <2>4, <2>5
  <2> HIDE DEF A, B
  <2> QED
    BY Zenon, <2>6, FS_Union
<1>6. \A U \in SUBSET S : \A x \in U : Cardinality(Copies(F, U)) = F[x] + Cardinality(Copies(F, U \ {x}))
  <2> SUFFICES ASSUME NEW U \in SUBSET S, NEW x \in U
               PROVE  Cardinality(Copies(F, U)) = F[x] + Cardinality(Copies(F, U \ {x}))
    BY Zenon
  <2> DEFINE A == Copies(F, U \ {x})
             B == {x} \X (1..F[x])
  <2>1. Copies(F, U) = A \cup B /\ A \cap B = {} /\ x \in S
    BY Zenon, <1>1, <1>2
  <2>2. IsFiniteSet(A) /\ IsFiniteSet(B) /\ Cardinality(B) = F[x]
    <3>1. U \ {x} \in SUBSET S
      OBVIOUS
    <3> QED
      BY Zenon, <1>3, <1>5, <2>1, <3>1
  <2> HIDE DEF A, B
  <2>3. Cardinality(A \cup B) = Cardinality(A) + Cardinality(B) - Cardinality(A \cap B)
    BY Zenon, <2>2, FS_Union
  <2>4. Cardinality(A \cap B) = 0 /\ Cardinality(A) \in Nat /\ F[x] \in Nat
    BY Zenon, <2>1, <2>2, FS_EmptySet, FS_CardinalityType DEF Counts
  <2> QED
    BY <2>1, <2>2, <2>3, <2>4 DEF A
<1>7. \A U \in SUBSET S : SumFunctionOnSet(F, U) = Cardinality(Copies(F, U))
  <2> SUFFICES ASSUME NEW U \in SUBSET S PROVE SumFunctionOnSet(F, U) = Cardinality(Copies(F, U))
    OBVIOUS
  <2> DEFINE G == [V \in SUBSET U |-> Cardinality(Copies(F, V))]
  <2>1. IsFiniteSet(U)
    BY FS_Subset
  <2>2. G[{}] = 0
    BY <1>4, FS_EmptySet
  <2>3. AddsUp(G, F, U)
    BY <1>6, <2>2 DEF AddsUp
  <2>4. G[U] = Cardinality(Copies(F, U))
    OBVIOUS
  <2> HIDE DEF G
  <2> QED
    BY Zenon, <2>1, <2>3, <2>4, SumIs
<1>8. \A U \in SUBSET S : Cardinality(Copies(F, U)) \in Nat
  BY Zenon, <1>5, FS_CardinalityType
<1>9. Cardinality(Copies(F, {})) = 0 /\ {} \in SUBSET S
  BY <1>4, FS_EmptySet
<1>10. \A U \in SUBSET S : \A x \in U : U \ {x} \in SUBSET S
  OBVIOUS
<1> QED
  BY Zenon, <1>6, <1>7, <1>8, <1>9, <1>10 DEF Growing

\* The sum of two functions is the two sums together.
LEMMA SumAdds ==
    ASSUME NEW S, IsFiniteSet(S), NEW F, NEW D, NEW H,
           \A x \in S : F[x] \in Nat /\ D[x] \in Nat /\ H[x] = F[x] + D[x]
    PROVE  SumFunctionOnSet(H, S) = SumFunctionOnSet(F, S) + SumFunctionOnSet(D, S)
<1> DEFINE a(U) == SumFunctionOnSet(F, U)
           b(U) == SumFunctionOnSet(D, U)
           G == [U \in SUBSET S |-> a(U) + b(U)]
<1>1. /\ a({}) = 0 /\ b({}) = 0
      /\ \A U \in SUBSET S : a(U) \in Nat /\ b(U) \in Nat
      /\ \A U \in SUBSET S : \A x \in U : a(U) = F[x] + a(U \ {x}) /\ b(U) = D[x] + b(U \ {x})
  <2>1. Counts(F, S) /\ Counts(D, S)
    BY Zenon DEF Counts
  <2>2. Growing(F, S) /\ Growing(D, S) /\ a({}) = 0 /\ b({}) = 0
    BY Zenon, <2>1, SumGrows
  <2> QED
    BY Zenon, <2>2 DEF Growing
<1> HIDE DEF a, b
<1>2. G[{}] = 0
  BY SMTT(30), <1>1
<1>3. \A U \in SUBSET S : \A x \in U : G[U] = H[x] + G[U \ {x}]
  <2> SUFFICES ASSUME NEW U \in SUBSET S, NEW x \in U PROVE G[U] = H[x] + G[U \ {x}]
    BY Zenon
  <2>1. U \ {x} \in SUBSET S /\ x \in S
    OBVIOUS
  <2>2. /\ a(U) = F[x] + a(U \ {x}) /\ b(U) = D[x] + b(U \ {x})
        /\ a(U \ {x}) \in Nat /\ b(U \ {x}) \in Nat
    BY Zenon, <1>1, <2>1
  <2> QED
    BY SMTT(30), <2>1, <2>2
<1>4. G[S] = a(S) + b(S)
  OBVIOUS
<1> HIDE DEF G
<1> QED
  <2>1. AddsUp(G, H, S)
    BY Zenon, <1>2, <1>3 DEF AddsUp
  <2> QED
    BY Zenon, <1>4, <2>1, SumIs DEF a, b

\* F gives every x in S the number of elements of X that B makes x, n for each.
Sorted(F, S, X, B, n) == \A x \in S : F[x] = n * Cardinality({t \in X : B[t] = x})

SortedSum(F, S, X, B, n) ==
    SumFunctionOnSet(F, S) = n * Cardinality({t \in X : B[t] \in S})

\* Counting by what B makes of the elements of X, n for each.
LEMMA SumCounts ==
    ASSUME NEW S, IsFiniteSet(S), NEW X, IsFiniteSet(X), NEW B, NEW n \in Nat, NEW F, Sorted(F, S, X, B, n)
    PROVE  SortedSum(F, S, X, B, n)
<1> DEFINE Of(U) == {t \in X : B[t] \in U}
           At(x) == {t \in X : B[t] = x}
           G == [U \in SUBSET S |-> n * Cardinality(Of(U))]
<1>1. \A U : IsFiniteSet(Of(U)) /\ Cardinality(Of(U)) \in Nat
  BY SMTT(30), FS_Subset, FS_CardinalityType
<1>2. \A x : IsFiniteSet(At(x)) /\ Cardinality(At(x)) \in Nat
  BY FS_Subset, FS_CardinalityType
<1>3. G[{}] = 0
  <2>1. Of({}) = {}
    OBVIOUS
  <2>2. Cardinality(Of({})) = 0
    BY Zenon, <2>1, FS_EmptySet
  <2> HIDE DEF Of
  <2> QED
    BY <2>2
<1>4. \A U \in SUBSET S : \A x \in U : G[U] = F[x] + G[U \ {x}]
  <2> SUFFICES ASSUME NEW U \in SUBSET S, NEW x \in U PROVE G[U] = F[x] + G[U \ {x}]
    BY ZenonT(60)
  <2> DEFINE V == U \ {x}
  <2>1. Of(U) = At(x) \cup Of(V) /\ At(x) \cap Of(V) = {}
    OBVIOUS
  <2>2. V \in SUBSET S /\ F[x] = n * Cardinality(At(x))
    BY DEF Sorted
  <2> HIDE DEF Of, At, V
  <2>3. Cardinality(At(x) \cup Of(V)) = Cardinality(At(x)) + Cardinality(Of(V)) - Cardinality(At(x) \cap Of(V))
    BY Zenon, <1>1, <1>2, FS_Union
  <2>4. Cardinality(At(x) \cap Of(V)) = 0
    BY Zenon, <2>1, FS_EmptySet
  <2> DEFINE p == Cardinality(At(x))
             q == Cardinality(Of(V))
  <2>5. Cardinality(Of(U)) = p + q /\ p \in Nat /\ q \in Nat
    BY SMTT(30), <1>1, <1>2, <2>1, <2>3, <2>4
  <2> HIDE DEF p, q
  <2>6. n * (p + q) = n * p + n * q
    BY SMTT(30), <2>5
  <2>7. G[U] = n * (p + q) /\ G[V] = n * q /\ F[x] = n * p
    BY SMTT(30), <2>2, <2>5 DEF p, q
  <2> QED
    BY SMTT(30), <2>6, <2>7 DEF V
<1>5. G[S] = n * Cardinality(Of(S))
  OBVIOUS
<1> HIDE DEF G
<1> QED
  <2>1. AddsUp(G, F, S)
    BY Zenon, <1>3, <1>4 DEF AddsUp
  <2> QED
    BY Zenon, <1>5, <2>1, SumIs DEF SortedSum

------------------------------------------------------------------------------
(* Buckets and windows.                                                    *)

Times == 0..(Horizon - 1)

\* Multiples of a width are a width apart.
LEMMA Multiples ==
    ASSUME NEW w \in Nat \ {0}, NEW q \in Int, NEW r \in Int
    PROVE  /\ w * q \in Int
           /\ w * q < w * r => w * q + w <= w * r
           /\ q < r => w * q + w <= w * r
<1>1. ASSUME NEW a \in Int, NEW b \in Int, a < b PROVE w * a + w <= w * b
  <2>1. PICK d \in Nat : b = a + 1 + d
    <3>1. b - a - 1 \in Nat /\ b = a + 1 + (b - a - 1)
      BY <1>1
    <3> QED
      BY <3>1
  <2>2. w * b = w * a + w + w * d /\ w * d \in Nat
    BY <2>1
  <2> QED
    BY <2>2
<1>2. w * q < w * r => q < r
  <2>1. r < q => w * r + w <= w * q
    BY <1>1
  <2> QED
    BY <2>1
<1> QED
  BY <1>1, <1>2

\* Truncate gives the last multiple of the width that is not later.
LEMMA TruncateIs ==
    ASSUME NEW w \in Nat \ {0}, NEW t \in Nat
    PROVE  /\ Truncate(t, w) \in Nat /\ Truncate(t, w) <= t /\ t < Truncate(t, w) + w
           /\ \A q \in Int : w * q <= t => w * q <= Truncate(t, w)
           /\ \A q \in Int : t < w * q => Truncate(t, w) + w <= w * q
           /\ \A q \in Int : w * q <= t /\ t < w * q + w => Truncate(t, w) = w * q
<1> DEFINE d == t \div w
<1>1. d \in Nat /\ w * d \in Nat /\ w * d <= t /\ t < w * d + w
  OBVIOUS
<1>2. Truncate(t, w) = w * d
  BY DEF Truncate
<1> HIDE DEF d
<1>3. \A q \in Int : w * q <= t => w * q <= w * d
  <2> SUFFICES ASSUME NEW q \in Int, w * q <= t PROVE w * q <= w * d
    OBVIOUS
  <2>1. w * q \in Int /\ (w * d < w * q => w * d + w <= w * q)
    BY <1>1, Multiples
  <2> QED
    BY <1>1, <2>1
<1>4. \A q \in Int : t < w * q => w * d + w <= w * q
  <2> SUFFICES ASSUME NEW q \in Int, t < w * q PROVE w * d + w <= w * q
    OBVIOUS
  <2>1. w * q \in Int /\ (w * d < w * q => w * d + w <= w * q)
    BY <1>1, Multiples
  <2> QED
    BY <1>1, <2>1
<1>5. \A q \in Int : w * q <= t /\ t < w * q + w => w * d = w * q
  <2> SUFFICES ASSUME NEW q \in Int, w * q <= t, t < w * q + w PROVE w * d = w * q
    OBVIOUS
  <2>1. w * q \in Int /\ (w * q < w * d => w * q + w <= w * d)
    BY SMTT(30), <1>1, Multiples
  <2> QED
    BY SMTT(30), <1>1, <1>3, <2>1
<1> QED
  BY SMTT(30), <1>1, <1>2, <1>3, <1>4, <1>5

\* A bucket starts at a multiple of its width and holds the times of one width from there.
LEMMA BucketIs ==
    ASSUME NEW k \in Buckets
    PROVE  /\ k[1] \in Widths /\ k[1] \in Nat \ {0} /\ k[2] \in Nat
           /\ \E q \in Nat : k[2] = k[1] * q
           /\ \A t \in Nat : BucketOf(t, k[1]) = k <=> k[2] <= t /\ t < k[2] + k[1]
<1>1. PICK u \in Times, w \in Widths : k = <<w, Truncate(u, w)>>
  BY DEF Buckets, BucketOf, Times
<1>2. w \in Nat \ {0} /\ u \in Nat /\ k[1] = w /\ k[2] = Truncate(u, w)
  BY <1>1, MathAssumption DEF Times
<1>3. u \div w \in Nat /\ k[2] = w * (u \div w)
  BY SMTT(30), <1>2 DEF Truncate
<1>4. k[2] \in Nat
  BY SMTT(30), <1>2, TruncateIs
<1>5. ASSUME NEW t \in Nat PROVE BucketOf(t, w) = k <=> k[2] <= t /\ t < k[2] + w
  <2>1. BucketOf(t, w) = k <=> Truncate(t, w) = k[2]
    BY SMTT(30), <1>1, <1>2 DEF BucketOf
  <2>2. Truncate(t, w) <= t /\ t < Truncate(t, w) + w
    BY ZenonT(60), <1>2, TruncateIs
  <2>3. w * (u \div w) <= t /\ t < w * (u \div w) + w => Truncate(t, w) = w * (u \div w)
    <3>1. \A q \in Int : w * q <= t /\ t < w * q + w => Truncate(t, w) = w * q
      BY Zenon, <1>2, TruncateIs
    <3>2. u \div w \in Int
      BY <1>3
    <3> QED
      BY Zenon, <3>1, <3>2
  <2> QED
    BY SMTT(30), <1>3, <2>1, <2>2, <2>3
<1> QED
  BY SMTT(30), <1>1, <1>2, <1>3, <1>4, <1>5

\* Minutes tile an hour, hours a day: a time is in a bucket when its finer bucket is within.
LEMMA WithinIs ==
    ASSUME NEW k \in Buckets, NEW v \in Widths, v < k[1], NEW t \in Times
    PROVE  BucketOf(t, v) \in Within(k, v) <=> BucketOf(t, k[1]) = k
<1>1. v \in Nat \ {0} /\ t \in Nat /\ k[1] \in Widths /\ k[1] \in Nat \ {0} /\ k[2] \in Nat
  BY SMTT(30), BucketIs, MathAssumption DEF Times
<1>2. PICK q \in Nat : k[2] = k[1] * q
  BY SMTT(30), BucketIs
<1>3. PICK n \in Nat : k[1] = v * n
  <2>1. k[1] % v = 0
    BY Zenon, <1>1, WidthsNest
  <2>2. k[1] \div v \in Nat /\ k[1] = v * (k[1] \div v) + (k[1] % v)
    BY SMTT(30), <1>1
  <2>3. k[1] = v * (k[1] \div v)
    BY SMTT(30), <1>1, <2>1, <2>2
  <2> QED
    BY SMTT(30), <2>2, <2>3
<1>4. k[2] = v * (n * q) /\ k[2] + k[1] = v * (n * q + n) /\ n * q \in Int /\ n * q + n \in Int
  BY <1>1, <1>2, <1>3
<1> DEFINE b == Truncate(t, v)
<1>5. BucketOf(t, v) \in Buckets /\ BucketOf(t, v) = <<v, b>>
  BY DEF Buckets, BucketOf, Times
<1>6. BucketOf(t, v) \in Within(k, v) <=> k[2] <= b /\ b + v <= k[2] + k[1]
  BY SMTT(30), <1>5 DEF Within
<1>7. BucketOf(t, k[1]) = k <=> k[2] <= t /\ t < k[2] + k[1]
  BY SMTT(30), <1>1, BucketIs
<1>8. b \in Nat /\ b <= t /\ t < b + v
  BY <1>1, TruncateIs
<1>9. /\ \A m \in Int : v * m <= t => v * m <= b
      /\ \A m \in Int : t < v * m => b + v <= v * m
  BY Zenon, <1>1, TruncateIs
<1> HIDE DEF b
<1>10. (k[2] <= t => k[2] <= b) /\ (t < k[2] + k[1] => b + v <= k[2] + k[1])
  BY Zenon, <1>4, <1>9
<1> QED
  BY <1>1, <1>6, <1>7, <1>8, <1>9, <1>10

\* There are finitely many buckets of a width.
LEMMA WithinIsFinite ==
    ASSUME NEW k, NEW v \in Widths
    PROVE  IsFiniteSet(Within(k, v))
<1> DEFINE B == {BucketOf(t, v) : t \in Times}
           f == [t \in Times |-> BucketOf(t, v)]
<1>1. IsFiniteSet(Times)
  BY FS_Interval, MathAssumption DEF Times
<1>2. f \in Surjection(Times, B)
  BY DEF Surjection
<1>3. IsFiniteSet(B)
  BY Zenon, <1>1, <1>2, FS_Surjection
<1>4. Within(k, v) \in SUBSET B
  BY DEF Within, Buckets, BucketOf, Times
<1> HIDE DEF B
<1> QED
  BY Zenon, <1>3, <1>4, FS_Subset

\* The segment of the window from a to stop that contains time t, and all of them.
SegmentAt(a, stop, t, w) ==
    LET b == Truncate(t, w)
    IN [bucket |-> <<w, b>>, from |-> IF a >= b THEN a ELSE b,
        to |-> IF b + w <= stop THEN b + w ELSE stop]
Cut(a, stop, w) == {SegmentAt(a, stop, t, w) : t \in a..(stop - 1)}

HasLeast(T) == \E n \in T : \A m \in T : ~(m < n)

\* A set of naturals has a least one.
LEMMA LeastOf == ASSUME NEW T \in SUBSET Nat, T # {} PROVE HasLeast(T)
<1> DEFINE R == OpToRel(<, Nat)
<1>1. \A m, n \in Nat : m < n => <<m, n>> \in R
  BY DEF OpToRel
<1>2. IsWellFoundedOn(R, Nat)
  BY Zenon, NatLessThanWellFounded
<1> HIDE DEF R
<1>3. PICK n \in T : \A m \in T : ~(<<m, n>> \in R)
  BY Zenon, <1>2, WFMin
<1> QED
  BY Zenon, <1>1, <1>3 DEF HasLeast

\* The first segment of a window, and the rest.
LEMMA CutFrom ==
    ASSUME NEW w \in Nat \ {0}, NEW a \in Nat, NEW stop \in Nat, a < stop
    PROVE  LET b == Truncate(a, w)
               to == SegmentEnd(b, w, stop)
           IN /\ to \in Nat /\ a < to /\ to <= stop
              /\ Cut(a, stop, w) = {[bucket |-> <<w, b>>, from |-> a, to |-> to]} \cup Cut(to, stop, w)
<1> DEFINE b == Truncate(a, w)
           to == SegmentEnd(b, w, stop)
           first == [bucket |-> <<w, b>>, from |-> a, to |-> to]
<1>1. b \in Nat /\ b <= a /\ a < b + w /\ b = w * (a \div w) /\ a \div w \in Nat
  BY TruncateIs DEF Truncate
<1>2. to = IF b + w <= stop THEN b + w ELSE stop
  <2>1. b + w \in Int /\ stop \in Int
    BY SMTT(30), <1>1
  <2> QED
    BY Zenon, <2>1, OfTwo DEF SegmentEnd
<1>3. to \in Nat /\ a < to /\ to <= stop
  BY SMTT(30), <1>1, <1>2
<1>4. ASSUME NEW t \in a..(stop - 1)
      PROVE  IF t < to THEN SegmentAt(a, stop, t, w) = first
             ELSE t \in to..(stop - 1) /\ SegmentAt(a, stop, t, w) = SegmentAt(to, stop, t, w)
  <2> DEFINE d == Truncate(t, w)
  <2>0. t \in Nat /\ d \in Nat /\ d <= t /\ t < d + w
    BY TruncateIs
  <2>1. CASE t < to
    <3>1. b <= t /\ t < b + w
      BY <1>1, <1>2, <2>1
    <3>2. \A q \in Int : w * q <= t /\ t < w * q + w => d = w * q
      BY Zenon, <2>0, TruncateIs
    <3>3. a \div w \in Int /\ b = w * (a \div w)
      BY <1>1
    <3>5. d = b
      BY Zenon, <3>1, <3>2, <3>3
    <3> HIDE DEF d
    <3>4. (IF a >= d THEN a ELSE d) = a /\ (IF d + w <= stop THEN d + w ELSE stop) = to
      BY SMTT(30), <1>1, <1>2, <3>5
    <3> QED
      BY Zenon, <2>1, <3>4, <3>5 DEF SegmentAt, d
  <2>2. CASE ~(t < to)
    <3>1. to = b + w /\ b + w <= t /\ b + w = w * ((a \div w) + 1) /\ (a \div w) + 1 \in Int
      BY SMTT(30), <1>1, <1>2, <2>2
    <3>2. \A q \in Int : w * q <= t => w * q <= d
      BY Zenon, <2>0, TruncateIs
    <3>3. to <= d
      BY ZenonT(60), <3>1, <3>2
    <3> HIDE DEF d
    <3>4. (IF a >= d THEN a ELSE d) = d /\ (IF to >= d THEN to ELSE d) = d
      BY SMTT(30), <1>3, <2>0, <3>3
    <3>5. t \in to..(stop - 1)
      BY SMTT(30), <1>3, <2>2
    <3> QED
      BY ZenonT(60), <2>2, <3>4, <3>5 DEF SegmentAt, d
  <2> QED
    BY SMTT(30), <2>1, <2>2
<1>5. a \in a..(stop - 1) /\ \A t \in to..(stop - 1) : t \in a..(stop - 1) /\ ~(t < to)
  BY <1>3
<1> HIDE DEF to, b
<1>6. Cut(a, stop, w) \subseteq {first} \cup Cut(to, stop, w)
  BY Zenon, <1>4 DEF Cut
<1>7. first \in Cut(a, stop, w) /\ Cut(to, stop, w) \subseteq Cut(a, stop, w)
  BY Zenon, <1>3, <1>4, <1>5 DEF Cut
<1>8. Cut(a, stop, w) = {first} \cup Cut(to, stop, w)
  BY Zenon, <1>6, <1>7
<1> QED
  BY Zenon, <1>3, <1>8 DEF to, b

\* IntegratePowerWindow's loop cuts the window at the bucket boundaries.
LEMMA WindowIs ==
    ASSUME NEW w \in Nat \ {0}, NEW start \in Times, NEW end \in Times, NEW at \in Times
    PROVE  IntegratePowerWindow(start, end, at, w) =
             Cut(start, IF end <= at + Gap THEN end ELSE at + Gap, w)
<1> DEFINE M == 2 * Horizon + Gap
           stop == Min({end, at + Gap})
           To(c) == SegmentEnd(Truncate(c, w), w, stop)
           Body(h) == [c \in 0..M |->
                         IF c >= stop THEN {}
                         ELSE {[bucket |-> <<w, Truncate(c, w)>>, from |-> c, to |-> To(c)]} \cup h[To(c)]]
           f == CHOOSE h : h = Body(h)
           g == [c \in 0..M |-> Cut(c, stop, w)]
<1>1. IntegratePowerWindow(start, end, at, w) = f[start]
  BY DEF IntegratePowerWindow, CarryLimit
<1>2. /\ end \in Nat /\ at + Gap \in Nat /\ M \in Nat /\ start \in 0..M /\ end < M
  BY MathAssumption DEF Times
<1>3. stop = IF end <= at + Gap THEN end ELSE at + Gap
  <2>1. end \in Int /\ at + Gap \in Int
    BY SMTT(30), <1>2
  <2> QED
    BY Zenon, <2>1, OfTwo
<1>4. stop \in Nat /\ stop < M
  BY SMTT(30), <1>2, <1>3
<1> HIDE DEF stop, M
<1>5. \A c \in 0..M : c < stop =>
        /\ To(c) \in Nat /\ c < To(c) /\ To(c) <= stop
        /\ Cut(c, stop, w) = {[bucket |-> <<w, Truncate(c, w)>>, from |-> c, to |-> To(c)]} \cup Cut(To(c), stop, w)
  <2>1. \A c \in 0..M : c \in Nat
    OBVIOUS
  <2> QED
    BY Zenon, <1>4, <2>1, CutFrom
<1> HIDE DEF To
<1>6. \A c \in 0..M : c < stop => To(c) \in 0..M
  <2> SUFFICES ASSUME NEW c \in 0..M, c < stop PROVE To(c) \in 0..M
    OBVIOUS
  <2>1. To(c) \in Nat /\ To(c) <= stop
    BY Zenon, <1>5
  <2> QED
    BY SMTT(30), <1>2, <1>4, <2>1
<1>7. \A c \in 0..M : c >= stop => Cut(c, stop, w) = {}
  <2>1. \A c \in 0..M : c >= stop => c..(stop - 1) = {}
    BY <1>4
  <2> QED
    BY Zenon, <2>1 DEF Cut
<1>8. g = Body(g)
  <2>1. \A c \in 0..M : ~(c >= stop) => c < stop
    BY SMTT(30), <1>4
  <2>2. \A c \in 0..M : g[c] = Body(g)[c]
    BY SMTT(30), <1>5, <1>6, <1>7, <2>1
  <2> QED
    BY Zenon, <2>2
<1>9. f = Body(f)
  <2>1. \E h : h = Body(h)
    BY ZenonT(60), <1>8
  <2> QED
    BY Zenon, <2>1
<1> HIDE DEF f
<1>10. /\ \A c \in 0..M : c >= stop => f[c] = {}
       /\ \A c \in 0..M : c < stop =>
            f[c] = {[bucket |-> <<w, Truncate(c, w)>>, from |-> c, to |-> To(c)]} \cup f[To(c)]
  <2>1. \A c \in 0..M : c < stop => ~(c >= stop)
    BY <1>2, <1>4
  <2>2. \A c \in 0..M : f[c] = Body(f)[c]
    BY Zenon, <1>9
  <2> QED
    BY Zenon, <2>1, <2>2
<1>11. \A c \in 0..M : f[c] = Cut(c, stop, w)
  <2> DEFINE T == {n \in 0..M : f[M - n] # Cut(M - n, stop, w)}
  <2>0. M \in Nat
    BY <1>2
  <2> SUFFICES ASSUME T # {} PROVE FALSE
    <3>1. ASSUME NEW c \in 0..M, T = {} PROVE f[c] = Cut(c, stop, w)
      <4>1. M - c \in 0..M /\ M - (M - c) = c
        BY SMTT(30), <2>0
      <4> QED
        BY SMTT(30), <3>1, <4>1
    <3> QED
      BY <3>1
  <2>1. PICK n \in T : \A m \in T : ~(m < n)
    <3>1. T \in SUBSET Nat
      BY SMTT(30)
    <3> HIDE DEF T
    <3> QED
      BY ZenonT(60), <3>1, LeastOf DEF HasLeast
  <2> DEFINE c == M - n
  <2>3. c \in 0..M /\ f[c] # Cut(c, stop, w)
    BY SMTT(30), <2>0, <2>1
  <2>4. c < stop
    <3>1. ~(c >= stop)
      BY Zenon, <1>7, <1>10, <2>3
    <3>2. c \in Nat /\ stop \in Nat
      BY SMTT(30), <1>4, <2>3
    <3> HIDE DEF c
    <3> QED
      BY SMTT(30), <3>1, <3>2
  <2>5. To(c) \in 0..M /\ c < To(c)
    BY SMTT(30), <1>5, <1>6, <2>3, <2>4
  <2>6. M - To(c) \in 0..M /\ M - To(c) < n /\ M - (M - To(c)) = To(c)
    BY SMTT(30), <2>0, <2>1, <2>5
  <2>7. f[To(c)] = Cut(To(c), stop, w)
    BY SMTT(30), <2>1, <2>6
  <2> HIDE DEF c
  <2> QED
    BY ZenonT(60), <1>5, <1>10, <2>3, <2>4, <2>7
<1> QED
  BY SMTT(30), <1>1, <1>2, <1>3, <1>11

------------------------------------------------------------------------------
(* Energy.                                                                 *)

\* A channel with power has a time, no later than the last envelope's.
StateOK(st) ==
    /\ st.last \in Times \cup {None}
    /\ \A c \in Channels :
         /\ st.ch[c].watts \in Nat
         /\ st.ch[c].watts # 0 => st.ch[c].at # None
         /\ st.ch[c].at # None => /\ st.ch[c].at \in Times /\ st.last \in Times
                                  /\ st.ch[c].at <= st.last

\* The times for which sample s adds energy on channel c, and those of them in bucket k.
Powered(st, s, c) ==
    IF st.last = None \/ st.ch[c].watts = 0 THEN {}
    ELSE {t \in Times : st.last <= t /\ t < s.at /\ t < st.ch[c].at + Gap}
InBucket(X, k) == {t \in X : BucketOf(t, k[1]) = k}

\* A sum over no element, or one.
LEMMA SmallSums ==
    /\ \A F : DOMAIN F = {} => SumFunction(F) = 0
    /\ \A F, x : DOMAIN F = {x} /\ F[x] \in Nat => SumFunction(F) = F[x]
<1>1. ASSUME NEW F, DOMAIN F = {} PROVE SumFunction(F) = 0
  <2>1. Counts(F, {}) /\ IsFiniteSet({})
    BY FS_EmptySet DEF Counts
  <2>2. SumFunctionOnSet(F, {}) = 0
    BY Zenon, <2>1, SumGrows
  <2> QED
    BY Zenon, <1>1, <2>2 DEF SumFunction
<1>2. ASSUME NEW F, NEW x, DOMAIN F = {x}, F[x] \in Nat PROVE SumFunction(F) = F[x]
  <2>1. Counts(F, {x}) /\ IsFiniteSet({x})
    BY ZenonT(60), <1>2, FS_Singleton DEF Counts
  <2>2. SumFunctionOnSet(F, {}) = 0 /\ Growing(F, {x})
    BY Zenon, <2>1, SumGrows
  <2>3. {x} \in SUBSET {x} /\ x \in {x} /\ {x} \ {x} = {}
    OBVIOUS
  <2>4. SumFunctionOnSet(F, {x}) = F[x] + SumFunctionOnSet(F, {})
    BY Zenon, <2>2, <2>3 DEF Growing
  <2>5. SumFunctionOnSet(F, {x}) = F[x]
    BY SMTT(30), <1>2, <2>2, <2>4
  <2> QED
    BY ZenonT(60), <1>2, <2>5 DEF SumFunction
<1> QED
  BY Zenon, <1>1, <1>2

\* What a sample adds to a bucket: the power known before it, for each unit of time of the
\* window that is in the bucket.
LEMMA EnergyIs ==
    ASSUME NEW st, StateOK(st), NEW s, s.at \in Times, NEW c \in Channels, NEW k \in Buckets
    PROVE  /\ IsFiniteSet(Powered(st, s, c)) /\ Powered(st, s, c) \subseteq Times
           /\ EnergyIn(st, s, c, k) = st.ch[c].watts * Cardinality(InBucket(Powered(st, s, c), k))
           /\ EnergyIn(st, s, c, k) \in Nat
           /\ SegmentsIn(st, s, c, k) = {} => EnergyIn(st, s, c, k) = 0
<1> DEFINE p == st.ch[c].watts
           X == InBucket(Powered(st, s, c), k)
           G == SegmentsIn(st, s, c, k)
           F == [g \in G |-> g.to - g.from]
<1>1. IsFiniteSet(Powered(st, s, c)) /\ Powered(st, s, c) \subseteq Times
  <2>1. Powered(st, s, c) \in SUBSET Times
    BY SMTT(30) DEF Powered
  <2>2. IsFiniteSet(Times)
    BY FS_Interval, MathAssumption DEF Times
  <2> QED
    BY ZenonT(60), <2>1, <2>2, FS_Subset
<1>2. IsFiniteSet(X) /\ Cardinality(X) \in Nat
  <2>1. X \in SUBSET Powered(st, s, c)
    BY DEF InBucket
  <2> QED
    BY ZenonT(60), <1>1, <2>1, FS_Subset, FS_CardinalityType
<1>3. p \in Nat /\ EnergyIn(st, s, c, k) = p * SumFunction(F)
  BY Zenon DEF StateOK, EnergyIn
<1>4. G = {} => SumFunction(F) = 0
  <2>1. G = {} => DOMAIN F = {}
    BY SMTT(30)
  <2> QED
    BY ZenonT(60), <2>1, SmallSums
<1>5. SumFunction(F) = Cardinality(X)
  <2>1. CASE st.last = None \/ p = 0
    <3>1. G = {} /\ X = {}
      BY ZenonT(60), <2>1 DEF SegmentsIn, Segments, Powered, InBucket
    <3> QED
      BY ZenonT(60), <1>4, <3>1, FS_EmptySet
  <2>2. CASE ~(st.last = None \/ p = 0)
    <3> DEFINE a == st.last
               w == k[1]
               b == k[2]
               stop == IF s.at <= st.ch[c].at + Gap THEN s.at ELSE st.ch[c].at + Gap
               from == IF a >= b THEN a ELSE b
               to == IF b + w <= stop THEN b + w ELSE stop
               g == [bucket |-> k, from |-> from, to |-> to]
    <3>1. a \in Times /\ st.ch[c].at \in Times /\ s.at \in Times
      BY <2>2 DEF StateOK
    <3>2. w \in Nat \ {0} /\ b \in Nat /\ \A t \in Nat : BucketOf(t, w) = k <=> b <= t /\ t < b + w
      BY Zenon, BucketIs
    <3>3. Segments(st, s, c, w) = Cut(a, stop, w)
      BY ZenonT(60), <2>2, <3>1, <3>2, WindowIs DEF Segments
    <3>4. a \in Nat /\ stop \in Nat /\ stop < Horizon /\ Horizon \in Nat
      BY <3>1, MathAssumption DEF Times
    <3>5. Powered(st, s, c) = a..(stop - 1)
      <4>1. Powered(st, s, c) = {t \in Times : a <= t /\ t < s.at /\ t < st.ch[c].at + Gap}
        BY ZenonT(60), <2>2 DEF Powered
      <4> QED
        BY SMTT(30), <3>1, <3>4, <4>1, MathAssumption DEF Times
    <3> HIDE DEF stop
    <3>6. X = from..(to - 1)
      <4>1. X = {t \in a..(stop - 1) : b <= t /\ t < b + w}
        BY SMTT(30), <3>2, <3>4, <3>5 DEF InBucket
      <4> HIDE DEF X
      <4> QED
        BY SMTT(30), <3>2, <3>4, <4>1
    <3>7. from \in Nat /\ to \in Nat
      BY SMTT(30), <3>2, <3>4
    <3>8. Cardinality(X) = IF from > to - 1 THEN 0 ELSE to - from
      <4> HIDE DEF from, to
      <4>1. Cardinality(from..(to - 1)) = IF from > to - 1 THEN 0 ELSE (to - 1) - from + 1
        <5>1. from \in Int /\ to - 1 \in Int
          BY SMTT(30), <3>7
        <5> QED
          BY ZenonT(60), <5>1, FS_Interval
      <4> QED
        BY SMTT(30), <3>6, <3>7, <4>1
    <3>9. \A t \in a..(stop - 1) :
            /\ SegmentAt(a, stop, t, w).bucket = BucketOf(t, w)
            /\ BucketOf(t, w) = k => SegmentAt(a, stop, t, w) = g
      <4> SUFFICES ASSUME NEW t \in a..(stop - 1)
                   PROVE  /\ SegmentAt(a, stop, t, w).bucket = BucketOf(t, w)
                          /\ BucketOf(t, w) = k => SegmentAt(a, stop, t, w) = g
        BY SMTT(30)
      <4>1. BucketOf(t, w) = <<w, Truncate(t, w)>> /\ (BucketOf(t, w) = k => Truncate(t, w) = b)
        BY DEF BucketOf
      <4> QED
        BY ZenonT(60), <4>1 DEF SegmentAt
    <3>10. G = {h \in Cut(a, stop, w) : h.bucket = k}
      BY Zenon, <3>3 DEF SegmentsIn
    <3>11. X = {t \in a..(stop - 1) : BucketOf(t, w) = k}
      BY ZenonT(60), <3>5 DEF InBucket
    <3> HIDE DEF g, G, X
    <3>12. IF X = {} THEN G = {} ELSE G = {g}
      BY SMTT(30), <3>9, <3>10, <3>11 DEF Cut
    <3>13. CASE X = {}
      BY Zenon, <1>4, <3>12, <3>13, FS_EmptySet
    <3>14. CASE X # {}
      <4>1. from <= to - 1
        BY SMTT(30), <3>6, <3>7, <3>14
      <4>2. Cardinality(X) = to - from /\ to - from \in Nat
        BY SMTT(30), <3>7, <3>8, <4>1
      <4>3. DOMAIN F = {g} /\ F[g] = to - from
        BY SMTT(30), <3>12, <3>14 DEF g
      <4> HIDE DEF F, from, to
      <4> QED
        BY ZenonT(60), <4>2, <4>3, SmallSums
    <3> QED
      BY SMTT(30), <3>13, <3>14
  <2> QED
    BY ZenonT(60), <2>1, <2>2
<1> HIDE DEF F, p, X
<1>6. EnergyIn(st, s, c, k) = p * Cardinality(X) /\ p * Cardinality(X) \in Nat
  BY SMTT(30), <1>2, <1>3, <1>5
<1>7. G = {} => EnergyIn(st, s, c, k) = 0
  BY SMTT(30), <1>3, <1>4
<1> QED
  BY Zenon, <1>1, <1>6, <1>7 DEF p, X

------------------------------------------------------------------------------
(* Rows.                                                                   *)

\* A row counts samples, and has an energy on each channel.
RowTyped(row) ==
    row = NoRow \/ /\ row = Row(row.n, row.first, row.last, row.wh)
                   /\ row.n \in Nat /\ row.wh \in [Channels -> Nat]
RowsTyped(r) == \A k \in Buckets : RowTyped(r[k])

\* What a row says.
CountOf(row) == IF row = NoRow THEN 0 ELSE row.n
EnergyOf(row, c) == IF row = NoRow THEN 0 ELSE row.wh[c]

\* Table r2 is r with sample s counted, and the energy up to it added.
SampleAdded(r, r2, st, s) ==
    \A k \in Buckets :
       /\ Count(r2, k) = Count(r, k) + Cardinality(InBucket({s.at}, k))
       /\ \A c \in Channels : Energy(r2, k, c) = Energy(r, k, c) + EnergyIn(st, s, c, k)

\* The row says n and wh.
Made(row, n, first, last, wh) ==
    /\ RowTyped(row) /\ row # NoRow /\ CountOf(row) = n
    /\ \A c \in Channels : EnergyOf(row, c) = wh[c]
    /\ row.first = first /\ row.last = last

\* A row made with naturals is a row.
LEMMA RowMade ==
    ASSUME NEW n \in Nat, NEW first, NEW last, NEW wh \in [Channels -> Nat]
    PROVE  Made(Row(n, first, last, wh), n, first, last, wh)
<1> DEFINE row == Row(n, first, last, wh)
<1>1. row # NoRow /\ row.n = n /\ row.first = first /\ row.last = last /\ row.wh = wh
  BY RowParts
<1>2. row = Row(row.n, row.first, row.last, row.wh)
  BY Zenon, <1>1
<1> HIDE DEF row
<1>3. Made(row, n, first, last, wh)
  BY ZenonT(60), <1>1, <1>2 DEF Made, RowTyped, CountOf, EnergyOf
<1> QED
  BY ZenonT(60), <1>3 DEF row

\* Both addPoint and buildUpsertQuery count the sample and leave the energies.
LEMMA PointIs ==
    ASSUME NEW row, RowTyped(row), NEW at
    PROVE  /\ AddPoint(row, at) = UpsertPoint(row, at)
           /\ RowTyped(UpsertPoint(row, at)) /\ UpsertPoint(row, at) # NoRow
           /\ CountOf(UpsertPoint(row, at)) = CountOf(row) + 1
           /\ \A c \in Channels : EnergyOf(UpsertPoint(row, at), c) = EnergyOf(row, c)
<1> DEFINE up == UpsertPoint(row, at)
<1>1. AddPoint(row, at) = up
  BY Zenon DEF AddPoint, UpsertPoint
<1>2. NoEnergy \in [Channels -> Nat] /\ \A c \in Channels : NoEnergy[c] = 0
  BY SMTT(30) DEF NoEnergy
<1>3. CASE row = NoRow
  <2>1. up = Row(1, at, at, NoEnergy) /\ CountOf(row) = 0 /\ \A c \in Channels : EnergyOf(row, c) = 0
    BY Zenon, <1>3 DEF UpsertPoint, CountOf, EnergyOf
  <2>2. RowTyped(up) /\ up # NoRow /\ CountOf(up) = 1 /\ \A c \in Channels : EnergyOf(up, c) = NoEnergy[c]
    <3>1. 1 \in Nat
      OBVIOUS
    <3>2. Made(up, 1, at, at, NoEnergy)
      BY Zenon, <1>2, <2>1, <3>1, RowMade
    <3> QED
      BY Zenon, <3>2 DEF Made
  <2> HIDE DEF up
  <2> QED
    BY SMTT(30), <1>1, <1>2, <2>1, <2>2 DEF up
<1>4. CASE row # NoRow
  <2>1. row.n \in Nat /\ row.wh \in [Channels -> Nat] /\ CountOf(row) = row.n
    BY Zenon, <1>4 DEF RowTyped, CountOf
  <2>2. \E first, last : up = Row(row.n + 1, first, last, row.wh)
    <3>1. row.n = 0 => row.n + 1 = 1
      OBVIOUS
    <3>2. row.n = 0 => up = Row(1, at, at, row.wh)
      BY Zenon, <1>4 DEF UpsertPoint
    <3>3. row.n # 0 => up = Row(row.n + 1, Min({row.first, at}), Max({row.last, at}), row.wh)
      BY Zenon, <1>4 DEF UpsertPoint
    <3> QED
      BY Zenon, <3>1, <3>2, <3>3
  <2>3. PICK first, last : up = Row(row.n + 1, first, last, row.wh)
    BY Zenon, <2>2
  <2>4. row.n + 1 \in Nat
    BY <2>1
  <2>5. /\ RowTyped(up) /\ up # NoRow /\ CountOf(up) = row.n + 1
        /\ \A c \in Channels : EnergyOf(up, c) = row.wh[c]
    <3>1. Made(up, row.n + 1, first, last, row.wh)
      BY Zenon, <2>1, <2>3, <2>4, RowMade
    <3> QED
      BY Zenon, <3>1 DEF Made
  <2> QED
    BY Zenon, <1>1, <1>4, <2>1, <2>5 DEF EnergyOf
<1> QED
  BY SMTT(30), <1>3, <1>4

\* Energies are naturals.
LEMMA EnergyOfIs ==
    ASSUME NEW row, RowTyped(row)
    PROVE  CountOf(row) \in Nat /\ \A c \in Channels : EnergyOf(row, c) \in Nat
BY DEF RowTyped, CountOf, EnergyOf

\* The energy upserts, and those of the rebuild, add the energies of the segments and leave
\* the count; the range of a row with samples stays.
EnergyAdded(row, up, st, s, k) ==
    /\ RowTyped(up) /\ CountOf(up) = CountOf(row)
    /\ \A c \in Channels : EnergyOf(up, c) = EnergyOf(row, c) + EnergyIn(st, s, c, k)
    /\ CountOf(row) > 0 => up.first = row.first /\ up.last = row.last

\* A row with the old count and the energies added.
LEMMA EnergyAddedTo ==
    ASSUME NEW st, StateOK(st), NEW s, s.at \in Times, NEW k \in Buckets, NEW row, RowTyped(row),
           NEW first, NEW last, CountOf(row) > 0 => first = row.first /\ last = row.last
    PROVE  LET wh == [c \in Channels |-> EnergyOf(row, c) + EnergyIn(st, s, c, k)]
           IN EnergyAdded(row, Row(CountOf(row), first, last, wh), st, s, k)
<1> DEFINE wh == [c \in Channels |-> EnergyOf(row, c) + EnergyIn(st, s, c, k)]
<1>1. wh \in [Channels -> Nat] /\ \A c \in Channels : wh[c] = EnergyOf(row, c) + EnergyIn(st, s, c, k)
  <2>1. \A c \in Channels : EnergyIn(st, s, c, k) \in Nat
    BY Zenon, EnergyIs
  <2> QED
    BY SMTT(30), <2>1, EnergyOfIs
<1>2. CountOf(row) \in Nat
  BY Zenon, EnergyOfIs
<1> HIDE DEF wh
<1>3. Made(Row(CountOf(row), first, last, wh), CountOf(row), first, last, wh)
  BY ZenonT(60), <1>1, <1>2, RowMade
<1> QED
  BY ZenonT(60), <1>1, <1>3 DEF Made, EnergyAdded, wh

\* A row to which no segment belongs.
LEMMA NothingAdded ==
    ASSUME NEW st, StateOK(st), NEW s, s.at \in Times, NEW k \in Buckets, NEW row, RowTyped(row),
           \A c \in Channels : SegmentsIn(st, s, c, k) = {}
    PROVE  EnergyAdded(row, row, st, s, k)
<1>1. \A c \in Channels : EnergyIn(st, s, c, k) = 0
  BY ZenonT(60), EnergyIs
<1> QED
  BY <1>1, EnergyOfIs DEF EnergyAdded

\* buildSolarUpsertQuery, buildEnergyUpsertQuery.
LEMMA UpsertEnergyIs ==
    ASSUME NEW st, StateOK(st), NEW s, s.at \in Times, NEW k \in Buckets, NEW row, RowTyped(row)
    PROVE  EnergyAdded(row, UpsertEnergy(row, st, s, k), st, s, k)
<1> DEFINE segments == UNION {SegmentsIn(st, s, c, k) : c \in Channels}
           first == Min({g.from : g \in segments})
           last == Max({g.to - 1 : g \in segments})
           wh == [c \in Channels |-> EnergyOf(row, c) + EnergyIn(st, s, c, k)]
           up == UpsertEnergy(row, st, s, k)
<1>1. CASE segments = {}
  <2>1. \A c \in Channels : SegmentsIn(st, s, c, k) = {}
    BY Zenon, <1>1
  <2>2. up = row
    BY ZenonT(60), <1>1 DEF UpsertEnergy
  <2> QED
    BY Zenon, <2>1, <2>2, NothingAdded
<1>2. CASE segments # {}
  <2>1. CASE row = NoRow
    <3>1. \A c \in Channels : NoEnergy[c] = EnergyOf(row, c)
      BY <2>1 DEF NoEnergy, EnergyOf
    <3>2. wh = [c \in Channels |-> NoEnergy[c] + EnergyIn(st, s, c, k)]
      BY Zenon, <3>1
    <3>3. up = Row(CountOf(row), first, last, wh)
      <4>1. up = Row(0, first, last, [c \in Channels |-> NoEnergy[c] + EnergyIn(st, s, c, k)]) /\ CountOf(row) = 0
        BY Zenon, <1>2, <2>1 DEF UpsertEnergy, CountOf
      <4> HIDE DEF first, last, wh
      <4> QED
        BY Zenon, <3>2, <4>1
    <3>4. ~(CountOf(row) > 0)
      BY SMTT(30), <2>1 DEF CountOf
    <3> HIDE DEF first, last
    <3> QED
      BY ZenonT(60), <3>3, <3>4, EnergyAddedTo
  <2>2. CASE row # NoRow
    <3>1. CountOf(row) = row.n /\ wh = [c \in Channels |-> row.wh[c] + EnergyIn(st, s, c, k)] /\ row.n \in Nat
      BY Zenon, <2>2 DEF CountOf, EnergyOf, RowTyped
    <3>2. CASE row.n = 0
      <4> DEFINE lo == Min({row.first, first})
                 hi == Max({row.last, last})
      <4>1. up = Row(CountOf(row), lo, hi, wh)
        <5>1. up = Row(0, lo, hi, [c \in Channels |-> row.wh[c] + EnergyIn(st, s, c, k)])
          BY ZenonT(60), <1>2, <2>2, <3>2 DEF UpsertEnergy
        <5> HIDE DEF lo, hi, wh
        <5> QED
          BY Zenon, <3>1, <3>2, <5>1
      <4>2. ~(CountOf(row) > 0)
        BY SMTT(30), <3>1, <3>2
      <4> HIDE DEF lo, hi
      <4> QED
        BY Zenon, <4>1, <4>2, EnergyAddedTo
    <3>3. CASE row.n # 0
      <4>1. up = Row(CountOf(row), row.first, row.last, wh)
        <5>1. up = Row(row.n, row.first, row.last, [c \in Channels |-> row.wh[c] + EnergyIn(st, s, c, k)])
          BY ZenonT(60), <1>2, <2>2, <3>3 DEF UpsertEnergy
        <5> HIDE DEF wh
        <5> QED
          BY Zenon, <3>1, <5>1
      <4> QED
        BY Zenon, <4>1, EnergyAddedTo
    <3> QED
      BY SMTT(30), <3>2, <3>3
  <2> QED
    BY SMTT(30), <2>1, <2>2
<1> QED
  BY SMTT(30), <1>1, <1>2

\* integrateSolar and integrateEnergy of the rebuild.
LEMMA AddEnergyIs ==
    ASSUME NEW st, StateOK(st), NEW s, s.at \in Times, NEW k \in Buckets, NEW row, RowTyped(row)
    PROVE  EnergyAdded(row, AddEnergy(row, st, s, k), st, s, k)
<1> DEFINE wh == [c \in Channels |-> EnergyOf(row, c) + EnergyIn(st, s, c, k)]
           up == AddEnergy(row, st, s, k)
<1>1. CASE \A c \in Channels : SegmentsIn(st, s, c, k) = {}
  BY ZenonT(60), <1>1, NothingAdded DEF AddEnergy
<1>2. CASE ~\A c \in Channels : SegmentsIn(st, s, c, k) = {}
  <2>1. CASE row = NoRow
    <3>1. \A c \in Channels : EnergyOf(row, c) + EnergyIn(st, s, c, k) = EnergyIn(st, s, c, k)
      <4>1. \A c \in Channels : EnergyIn(st, s, c, k) \in Nat /\ EnergyOf(row, c) = 0
        BY Zenon, <2>1, EnergyIs DEF EnergyOf
      <4> QED
        BY <4>1
    <3>2. wh = [c \in Channels |-> EnergyIn(st, s, c, k)]
      BY Zenon, <3>1
    <3>3. up = Row(CountOf(row), None, None, wh)
      BY ZenonT(60), <1>2, <2>1, <3>2 DEF AddEnergy, CountOf
    <3>4. ~(CountOf(row) > 0)
      BY <2>1 DEF CountOf
    <3> QED
      BY ZenonT(60), <3>3, <3>4, EnergyAddedTo
  <2>2. CASE row # NoRow
    <3>1. /\ CountOf(row) = row.n /\ wh = [c \in Channels |-> row.wh[c] + EnergyIn(st, s, c, k)]
          /\ row = Row(row.n, row.first, row.last, row.wh)
      BY Zenon, <2>2 DEF CountOf, EnergyOf, RowTyped
    <3>2. up = [row EXCEPT !.wh = wh]
      BY Zenon, <1>2, <2>2, <3>1 DEF AddEnergy
    <3>3. \A x : [row EXCEPT !.wh = x] = Row(row.n, row.first, row.last, x)
      BY <3>1 DEF Row
    <3>4. up = Row(CountOf(row), row.first, row.last, wh)
      BY Zenon, <3>1, <3>2, <3>3
    <3> QED
      BY Zenon, <3>4, EnergyAddedTo
  <2> QED
    BY <2>1, <2>2
<1> QED
  BY SMTT(30), <1>1, <1>2

\* One sample is in a bucket, or not.
LEMMA OneIn ==
    ASSUME NEW at, NEW k
    PROVE  Cardinality(InBucket({at}, k)) = IF BucketOf(at, k[1]) = k THEN 1 ELSE 0
<1>1. BucketOf(at, k[1]) = k => InBucket({at}, k) = {at}
  BY SMTT(30) DEF InBucket
<1>2. BucketOf(at, k[1]) # k => InBucket({at}, k) = {}
  BY SMTT(30) DEF InBucket
<1> QED
  BY ZenonT(60), <1>1, <1>2, FS_Singleton, FS_EmptySet

\* The transaction of ApplyEnvelope, and Aggregator.ApplySample, do the same to the counts,
\* and to the energies what their states say.
LEMMA SampleIs ==
    ASSUME NEW r, RowsTyped(r), NEW st, StateOK(st), NEW s, s.at \in Times, NEW r2,
           r2 = UpsertSample(r, st, s) \/ r2 = AddSample(r, st, s)
    PROVE  RowsTyped(r2) /\ SampleAdded(r, r2, st, s)
<1> SUFFICES ASSUME NEW k \in Buckets
             PROVE  /\ RowTyped(r2[k])
                    /\ CountOf(r2[k]) = CountOf(r[k]) + Cardinality(InBucket({s.at}, k))
                    /\ \A c \in Channels : EnergyOf(r2[k], c) = EnergyOf(r[k], c) + EnergyIn(st, s, c, k)
  BY Zenon DEF RowsTyped, SampleAdded, Count, Energy, CountOf, EnergyOf
<1> DEFINE mine == BucketOf(s.at, k[1]) = k
           one == IF mine THEN 1 ELSE 0
           point == IF mine THEN UpsertPoint(r[k], s.at) ELSE r[k]
           row == AddEnergy(r[k], st, s, k)
<1>0. RowTyped(r[k]) /\ Cardinality(InBucket({s.at}, k)) = one
  BY ZenonT(60), OneIn DEF RowsTyped
<1>1. CountOf(r[k]) \in Nat /\ CountOf(r[k]) + 0 = CountOf(r[k])
  <2>1. CountOf(r[k]) \in Nat
    BY Zenon, <1>0, EnergyOfIs
  <2> QED
    BY SMTT(30), <2>1
<1>2. CASE r2 = UpsertSample(r, st, s)
  <2>1. r2[k] = UpsertEnergy(point, st, s, k)
    BY Zenon, <1>2 DEF UpsertSample
  <2>2. /\ RowTyped(point) /\ CountOf(point) = CountOf(r[k]) + one
        /\ \A c \in Channels : EnergyOf(point, c) = EnergyOf(r[k], c)
    BY Zenon, <1>0, <1>1, PointIs
  <2> HIDE DEF point
  <2>3. EnergyAdded(point, r2[k], st, s, k)
    BY Zenon, <2>1, <2>2, UpsertEnergyIs
  <2> QED
    BY Zenon, <1>0, <2>2, <2>3 DEF EnergyAdded
<1>3. CASE r2 = AddSample(r, st, s)
  <2>1. r2[k] = IF mine THEN AddPoint(row, s.at) ELSE row
    BY Zenon, <1>3 DEF AddSample
  <2>2. EnergyAdded(r[k], row, st, s, k)
    BY Zenon, <1>0, AddEnergyIs
  <2> HIDE DEF row
  <2>3. RowTyped(row)
    BY Zenon, <2>2 DEF EnergyAdded
  <2>4. /\ RowTyped(r2[k]) /\ (mine => CountOf(r2[k]) = CountOf(row) + 1) /\ (~mine => CountOf(r2[k]) = CountOf(row))
        /\ \A c \in Channels : EnergyOf(r2[k], c) = EnergyOf(row, c)
    <3>1. mine => r2[k] = UpsertPoint(row, s.at)
      BY Zenon, <2>1, <2>3, PointIs
    <3>2. ~mine => r2[k] = row
      BY Zenon, <2>1
    <3> HIDE DEF mine
    <3> QED
      BY Zenon, <2>3, <3>1, <3>2, PointIs
  <2> QED
    BY Zenon, <1>0, <1>1, <2>2, <2>4 DEF EnergyAdded
<1> QED
  BY ZenonT(60), <1>2, <1>3

------------------------------------------------------------------------------
(* Integration states.                                                     *)

\* What a channel is told: nothing, or a power.
LEMMA InputIs == ASSUME NEW s \in Samples, NEW c \in Channels PROVE Input(s, c) \in Int \cup {None}
<1>1. s.pv \in Int \cup {None} /\ s.battery \in Int \cup {None}
  BY SMTT(30) DEF Samples
<1>2. ASSUME NEW v \in Int \cup {None} PROVE Positive(v) \in Int /\ Negative(v) \in Int
  <2>1. v # None => v \in Int /\ -v \in Int /\ 0 \in Int
    BY SMTT(30), <1>2
  <2>2. v # None => /\ Max({v, 0}) = IF v >= 0 THEN v ELSE 0
                    /\ Max({-v, 0}) = IF -v >= 0 THEN -v ELSE 0
    BY Zenon, <2>1, OfTwo
  <2> QED
    BY SMTT(30), <2>1, <2>2 DEF Positive, Negative
<1>3. c = "pv" \/ c = "charge" \/ c = "discharge"
  BY SMTT(30) DEF Channels
<1> QED
  BY SMTT(30), <1>1, <1>2, <1>3 DEF Input

\* The last envelope's time moves forward to the sample's.
LEMMA LastIs ==
    ASSUME NEW last \in Times \cup {None}, NEW at \in Times
    PROVE  /\ LastAfter(last, at) \in Times /\ LastAfter(last, at) >= at
           /\ last # None => LastAfter(last, at) >= last
<1>1. at \in Int /\ Times \subseteq Int
  BY DEF Times
<1>2. last # None => last \in Int /\ Max({last, at}) = IF last >= at THEN last ELSE at
  BY Zenon, <1>1, OfTwo
<1> QED
  BY SMTT(30), <1>1, <1>2 DEF LastAfter

\* A channel keeps its power, or takes the sample's, if that says anything.
Told(p, q, s, c) ==
    \/ q = p
    \/ /\ Input(s, c) # None
       /\ q = [at |-> s.at, watts |-> IF Input(s, c) >= 0 THEN Input(s, c) ELSE 0]

\* advancePowerChannelState and advancePowerState.
LEMMA ToldIs ==
    ASSUME NEW s \in Samples, NEW c \in Channels, NEW p
    PROVE  /\ Told(p, advancePowerChannelState(p, s.at, Input(s, c)), s, c)
           /\ Told(p, advancePowerState(p, s.at, Input(s, c)), s, c)
<1> DEFINE v == Input(s, c)
<1>1. v # None => Max({v, 0}) = IF v >= 0 THEN v ELSE 0
  <2>1. v # None => v \in Int /\ 0 \in Int
    BY SMTT(30), InputIs
  <2> HIDE DEF v
  <2> QED
    BY Zenon, <2>1, OfTwo
<1> QED
  BY Zenon, <1>1 DEF Told, advancePowerChannelState, advancePowerState

\* st2 is st after sample s.
After(st, st2, s) ==
    /\ st2.last = LastAfter(st.last, s.at)
    /\ \A c \in Channels : Told(st.ch[c], st2.ch[c], s, c)

\* advanceIntegrationState, and the rebuild's advanceState.
LEMMA AfterIs ==
    ASSUME NEW st, NEW s \in Samples
    PROVE  After(st, advanceIntegrationState(st, s), s) /\ After(st, AdvanceState(st, s), s)
<1> DEFINE f == [c \in Channels |-> advancePowerChannelState(st.ch[c], s.at, Input(s, c))]
           g == [c \in Channels |-> advancePowerState(st.ch[c], s.at, Input(s, c))]
           u == [last |-> LastAfter(st.last, s.at), ch |-> f]
           v == [last |-> LastAfter(st.last, s.at), ch |-> g]
<1>1. \A c \in Channels : Told(st.ch[c], f[c], s, c) /\ Told(st.ch[c], g[c], s, c)
  BY ZenonT(60), ToldIs
<1> HIDE DEF f, g
<1>2. u.last = LastAfter(st.last, s.at) /\ u.ch = f /\ v.last = LastAfter(st.last, s.at) /\ v.ch = g
  OBVIOUS
<1>3. After(st, u, s) /\ After(st, v, s)
  BY Zenon, <1>1, <1>2 DEF After
<1> QED
  BY Zenon, <1>3 DEF advanceIntegrationState, AdvanceState, f, g

\* A state stays a state.
LEMMA StateStep ==
    ASSUME NEW st, NEW st2, StateOK(st), NEW s \in Samples, After(st, st2, s)
    PROVE  StateOK(st2) /\ st2.last \in Times /\ st2.last >= s.at /\ (st.last # None => st2.last >= st.last)
<1>1. s.at \in Times
  BY DEF Samples, Times
<1>2. st2.last \in Times /\ st2.last >= s.at /\ (st.last # None => st2.last >= st.last)
  BY ZenonT(60), <1>1, LastIs DEF StateOK, After
<1>3. ASSUME NEW c \in Channels
      PROVE  /\ st2.ch[c].watts \in Nat
             /\ st2.ch[c].watts # 0 => st2.ch[c].at # None
             /\ st2.ch[c].at # None => st2.ch[c].at \in Times /\ st2.ch[c].at <= st2.last
  <2> DEFINE p == st.ch[c]
             q == st2.ch[c]
             v == Input(s, c)
  <2>1. /\ p.watts \in Nat /\ (p.watts # 0 => p.at # None)
        /\ p.at # None => p.at \in Times /\ st.last \in Times /\ p.at <= st.last
    BY Zenon DEF StateOK
  <2>2. q = p \/ (v # None /\ q = [at |-> s.at, watts |-> IF v >= 0 THEN v ELSE 0])
    BY Zenon DEF After, Told
  <2>3. v \in Int \cup {None}
    BY Zenon, InputIs
  <2>4. \A t \in Times : t \in Int /\ t # None
    BY MathAssumption DEF Times
  <2> HIDE DEF p, q, v
  <2>5. CASE q = p
    <3>1. p.at # None => p.at <= st2.last
      <4>1. p.at # None => p.at \in Int /\ st.last \in Int /\ st2.last \in Int /\ p.at <= st.last /\ st.last <= st2.last
        BY SMTT(30), <1>2, <2>1, <2>4
      <4> QED
        BY SMTT(30), <4>1
    <3> QED
      BY ZenonT(60), <2>1, <2>5, <3>1 DEF q
  <2>6. CASE v # None /\ q = [at |-> s.at, watts |-> IF v >= 0 THEN v ELSE 0]
    <3>1. q.at = s.at /\ q.watts = IF v >= 0 THEN v ELSE 0
      BY ZenonT(60), <2>6
    <3>2. q.watts \in Nat /\ s.at <= st2.last
      BY SMTT(30), <1>1, <1>2, <2>3, <2>4, <2>6, <3>1
    <3> QED
      BY ZenonT(60), <1>1, <2>4, <3>1, <3>2 DEF q
  <2> QED
    BY ZenonT(60), <2>2, <2>5, <2>6
<1>4. StateOK(st2)
  BY ZenonT(60), <1>2, <1>3 DEF StateOK
<1> QED
  BY Zenon, <1>2, <1>4

\* Nothing is known at first.
LEMMA NoStateOK == StateOK(NoState) /\ NoState.last = None /\ \A c \in Channels : NoState.ch[c].watts = 0
BY SMTT(30), MathAssumption DEF StateOK, NoState

\* As long as no sample is late, the two ways to advance agree.
LEMMA SameAdvance ==
    ASSUME NEW st, StateOK(st), NEW s \in Samples, st.last = None \/ ~(s.at < st.last)
    PROVE  advanceIntegrationState(st, s) = AdvanceState(st, s)
<1>1. \A c \in Channels : ~(st.ch[c].at # None /\ s.at < st.ch[c].at)
  <2> SUFFICES ASSUME NEW c \in Channels, st.ch[c].at # None PROVE ~(s.at < st.ch[c].at)
    OBVIOUS
  <2>1. st.ch[c].at \in Times /\ st.last \in Times /\ st.ch[c].at <= st.last
    BY Zenon DEF StateOK
  <2>2. \A t \in Times : t \in Int /\ t # None
    BY SMTT(30), MathAssumption DEF Times
  <2>3. s.at \in Int
    BY DEF Samples
  <2> QED
    BY SMTT(30), <2>1, <2>2, <2>3
<1>2. \A c \in Channels : advancePowerChannelState(st.ch[c], s.at, Input(s, c)) = advancePowerState(st.ch[c], s.at, Input(s, c))
  BY Zenon, <1>1 DEF advancePowerChannelState, advancePowerState
<1> QED
  BY ZenonT(60), <1>2 DEF advanceIntegrationState, AdvanceState

------------------------------------------------------------------------------
(* Widths agree.                                                           *)

\* H is F, and n for each of the times X in a bucket.
Tiled(F, H, k, v, X, n) ==
    /\ DOMAIN F = Within(k, v) /\ DOMAIN H = Within(k, v)
    /\ \A j \in Within(k, v) : F[j] \in Nat /\ H[j] = F[j] + n * Cardinality(InBucket(X, j))

TiledTotal(F, H, k, X, n) ==
    SumFunction(H) = SumFunction(F) + n * Cardinality(InBucket(X, k))

\* What the times X add to the buckets of a finer width within k is what they add to k.
LEMMA TiledSum ==
    ASSUME NEW k \in Buckets, NEW v \in Widths, v < k[1], NEW X \in SUBSET Times, IsFiniteSet(X),
           NEW n \in Nat, NEW F, NEW H, Tiled(F, H, k, v, X, n)
    PROVE  TiledTotal(F, H, k, X, n)
<1> DEFINE S == Within(k, v)
           B == [t \in X |-> BucketOf(t, v)]
           D == [j \in S |-> n * Cardinality({t \in X : B[t] = j})]
<1>0. IsFiniteSet(S)
  BY ZenonT(60), WithinIsFinite
<1>1. \A j \in S : InBucket(X, j) = {t \in X : B[t] = j}
  BY SMTT(30) DEF Within, InBucket
<1>2. InBucket(X, k) = {t \in X : B[t] \in S}
  <2>1. \A t \in X : BucketOf(t, v) \in S <=> BucketOf(t, k[1]) = k
    BY ZenonT(60), WithinIs
  <2> HIDE DEF S
  <2> QED
    BY SMTT(30), <2>1 DEF InBucket
<1>3. \A j : Cardinality({t \in X : B[t] = j}) \in Nat
  BY ZenonT(60), FS_Subset, FS_CardinalityType
<1>5. Sorted(D, S, X, B, n) /\ \A j \in S : D[j] = n * Cardinality({t \in X : B[t] = j})
  BY Zenon DEF Sorted
<1> HIDE DEF B, D
<1>4. \A j \in S : F[j] \in Nat /\ D[j] \in Nat /\ H[j] = F[j] + D[j]
  <2> SUFFICES ASSUME NEW j \in S PROVE F[j] \in Nat /\ D[j] \in Nat /\ H[j] = F[j] + D[j]
    BY Zenon
  <2>1. /\ F[j] \in Nat /\ H[j] = F[j] + n * Cardinality(InBucket(X, j))
        /\ D[j] = n * Cardinality(InBucket(X, j)) /\ Cardinality(InBucket(X, j)) \in Nat
    BY ZenonT(60), <1>1, <1>3, <1>5 DEF Tiled
  <2> QED
    BY SMTT(30), <2>1
<1> HIDE DEF S
<1>6. SumFunctionOnSet(H, S) = SumFunctionOnSet(F, S) + SumFunctionOnSet(D, S)
  BY ZenonT(60), <1>0, <1>4, SumAdds
<1>7. SortedSum(D, S, X, B, n)
  BY ZenonT(60), <1>0, <1>5, SumCounts
<1>8. DOMAIN F = S /\ DOMAIN H = S
  BY Zenon DEF S, Tiled
<1> QED
  BY ZenonT(60), <1>2, <1>6, <1>7, <1>8 DEF SumFunction, SortedSum, TiledTotal

\* A row and the finer rows within it say the same.
Agree(r, k, v) ==
    /\ Count(r, k) = SumFunction([j \in Within(k, v) |-> Count(r, j)])
    /\ \A c \in Channels : Energy(r, k, c) = SumFunction([j \in Within(k, v) |-> Energy(r, j, c)])

\* Counts and energies of a table.
LEMMA RowsSay ==
    ASSUME NEW r, RowsTyped(r), NEW k \in Buckets
    PROVE  Count(r, k) \in Nat /\ \A c \in Channels : Energy(r, k, c) \in Nat
BY Zenon, EnergyOfIs DEF RowsTyped, Count, Energy, CountOf, EnergyOf

\* A sample is added to the rows of all widths alike.
LEMMA ConsistentStep ==
    ASSUME NEW r, NEW r2, RowsTyped(r), NEW st, StateOK(st), NEW s, s.at \in Times,
           SampleAdded(r, r2, st, s), Consistent(r)
    PROVE  Consistent(r2)
<1> SUFFICES ASSUME NEW k \in Buckets, NEW v \in Widths, v < k[1] PROVE Agree(r2, k, v)
  BY Zenon DEF Consistent, Agree
<1>0. Agree(r, k, v)
  BY Zenon DEF Consistent, Agree
<1>1. Within(k, v) \subseteq Buckets
  BY DEF Within
<1>2. Count(r2, k) = SumFunction([j \in Within(k, v) |-> Count(r2, j)])
  <2> DEFINE F == [j \in Within(k, v) |-> Count(r, j)]
             H == [j \in Within(k, v) |-> Count(r2, j)]
             X == {s.at}
  <2>1. IsFiniteSet(X) /\ X \in SUBSET Times /\ 1 \in Nat
    BY ZenonT(60), FS_Singleton
  <2>2. \A j \in Buckets : Cardinality(InBucket(X, j)) \in Nat
    <3>1. \A j \in Buckets : Cardinality(InBucket(X, j)) = 1 \/ Cardinality(InBucket(X, j)) = 0
      BY Zenon, OneIn
    <3> QED
      BY <3>1
  <2> HIDE DEF X
  <2>3. \A j \in Buckets : 1 * Cardinality(InBucket(X, j)) = Cardinality(InBucket(X, j))
    BY SMTT(30), <2>2
  <2>4. \A j \in Buckets : Count(r, j) \in Nat /\ Count(r2, j) = Count(r, j) + 1 * Cardinality(InBucket(X, j))
    BY ZenonT(60), <2>3, RowsSay DEF SampleAdded, X
  <2>5. \A j \in Within(k, v) : F[j] \in Nat /\ H[j] = F[j] + 1 * Cardinality(InBucket(X, j))
    BY Zenon, <1>1, <2>4
  <2>6. Tiled(F, H, k, v, X, 1)
    BY Zenon, <2>5 DEF Tiled
  <2> HIDE DEF F, H
  <2>7. TiledTotal(F, H, k, X, 1)
    BY ZenonT(60), <2>1, <2>6, TiledSum
  <2>8. SumFunction(F) = Count(r, k)
    BY Zenon, <1>0 DEF Agree, F
  <2> QED
    BY ZenonT(60), <2>4, <2>7, <2>8 DEF TiledTotal, H
<1>3. ASSUME NEW c \in Channels
      PROVE  Energy(r2, k, c) = SumFunction([j \in Within(k, v) |-> Energy(r2, j, c)])
  <2> DEFINE F == [j \in Within(k, v) |-> Energy(r, j, c)]
             H == [j \in Within(k, v) |-> Energy(r2, j, c)]
             X == Powered(st, s, c)
             n == st.ch[c].watts
  <2>1. IsFiniteSet(X) /\ X \in SUBSET Times /\ n \in Nat
    BY Zenon, EnergyIs DEF StateOK
  <2>2. \A j \in Buckets : Energy(r, j, c) \in Nat /\ Energy(r2, j, c) = Energy(r, j, c) + n * Cardinality(InBucket(X, j))
    BY ZenonT(60), EnergyIs, RowsSay DEF SampleAdded
  <2>3. \A j \in Within(k, v) : F[j] \in Nat /\ H[j] = F[j] + n * Cardinality(InBucket(X, j))
    BY Zenon, <1>1, <2>2
  <2>4. Tiled(F, H, k, v, X, n)
    BY Zenon, <2>3 DEF Tiled
  <2> HIDE DEF F, H, X, n
  <2>5. TiledTotal(F, H, k, X, n)
    BY ZenonT(60), <2>1, <2>4, TiledSum
  <2>6. SumFunction(F) = Energy(r, k, c)
    BY Zenon, <1>0 DEF Agree, F
  <2> QED
    BY ZenonT(60), <2>2, <2>5, <2>6 DEF TiledTotal, H
<1> QED
  BY Zenon, <1>2, <1>3 DEF Agree

\* Empty tables agree.
LEMMA ConsistentInit ==
    ASSUME NEW r, \A k \in Buckets : r[k] = NoRow
    PROVE  RowsTyped(r) /\ Consistent(r)
<1>1. \A k \in Buckets : Count(r, k) = 0 /\ \A c \in Channels : Energy(r, k, c) = 0
  BY Zenon DEF Count, Energy
<1>2. RowsTyped(r)
  BY Zenon DEF RowsTyped, RowTyped
<1>3. ASSUME NEW k \in Buckets, NEW v \in Widths, NEW F, DOMAIN F = Within(k, v),
             \A j \in Within(k, v) : F[j] = 0
      PROVE  SumFunction(F) = 0
  <2> DEFINE S == Within(k, v)
             G == [U \in SUBSET S |-> 0]
  <2>1. AddsUp(G, F, S)
    BY SMTT(30), <1>3 DEF AddsUp
  <2>2. IsFiniteSet(S) /\ G[S] = 0
    BY SMTT(30), WithinIsFinite
  <2>3. DOMAIN F = S
    BY SMTT(30), <1>3
  <2> HIDE DEF S, G
  <2>4. SumFunctionOnSet(F, S) = G[S]
    BY ZenonT(60), <2>1, <2>2, SumIs
  <2> QED
    BY ZenonT(60), <2>2, <2>3, <2>4 DEF SumFunction
<1>4. ASSUME NEW k \in Buckets, NEW v \in Widths PROVE Agree(r, k, v)
  <2>1. Within(k, v) \subseteq Buckets
    BY DEF Within
  <2>2. SumFunction([j \in Within(k, v) |-> Count(r, j)]) = 0
    <3> DEFINE F == [j \in Within(k, v) |-> Count(r, j)]
    <3>1. DOMAIN F = Within(k, v) /\ \A j \in Within(k, v) : F[j] = 0
      BY ZenonT(60), <1>1, <2>1
    <3> HIDE DEF F
    <3>2. SumFunction(F) = 0
      BY Zenon, <1>3, <3>1
    <3> QED
      BY Zenon, <3>2 DEF F
  <2>3. ASSUME NEW c \in Channels PROVE SumFunction([j \in Within(k, v) |-> Energy(r, j, c)]) = 0
    <3> DEFINE F == [j \in Within(k, v) |-> Energy(r, j, c)]
    <3>1. DOMAIN F = Within(k, v) /\ \A j \in Within(k, v) : F[j] = 0
      BY ZenonT(60), <1>1, <2>1
    <3> HIDE DEF F
    <3>2. SumFunction(F) = 0
      BY ZenonT(60), <1>3, <3>1
    <3> QED
      BY Zenon, <3>2 DEF F
  <2> QED
    BY ZenonT(60), <1>1, <2>2, <2>3 DEF Agree
<1> QED
  BY Zenon, <1>2, <1>4 DEF Consistent, Agree

------------------------------------------------------------------------------
(* No interval is integrated twice.                                        *)

\* The times before the last envelope's.
Elapsed(last) == IF last = None THEN {} ELSE {t \in Times : t < last}

\* Those of them within Gap after a report of power.
Earned(S, c, last) ==
    {t \in Elapsed(last) : \E s \in S : /\ Input(s, c) # None /\ Input(s, c) > 0
                                       /\ s.at <= t /\ t < s.at + Gap}

\* The channel's power is one that was reported.
Known(st, S, c) ==
    st.ch[c].watts # 0 => \E s \in S : s.at = st.ch[c].at /\ Input(s, c) = st.ch[c].watts

\* The energies of channel c are those of a power of the samples S, for no more than the
\* time that has passed within Gap of one, and the channel's own power is no larger.
FitsBy(r, st, S, c, most) ==
    /\ most \in Int /\ st.ch[c].watts <= most
    /\ \A k \in Buckets : Energy(r, k, c) <= most * Cardinality(InBucket(Earned(S, c, st.last), k))
Fits(r, st, S, c) == Known(st, S, c) /\ \E most \in Powers(S, c) : FitsBy(r, st, S, c, most)

\* Products of naturals grow with their factors.
LEMMA Products ==
    ASSUME NEW a \in Nat, NEW b \in Nat, NEW m \in Nat, NEW n \in Nat, NEW w \in Nat, NEW z \in Nat,
           m <= n, w <= n, a + b <= z
    PROVE  m * a + w * b <= n * z
<1>1. ASSUME NEW u \in Nat, NEW x \in Nat, NEW y \in Nat, x <= y PROVE x * u <= y * u /\ u * x <= u * y
  <2>1. PICK d \in Nat : y = x + d
    <3>1. y - x \in Nat /\ y = x + (y - x)
      BY SMTT(30), <1>1
    <3> QED
      BY SMTT(30), <3>1
  <2>2. y * u = x * u + d * u /\ u * y = u * x + u * d /\ d * u \in Nat /\ u * d \in Nat /\ x * u \in Nat /\ u * x \in Nat
    BY SMTT(30), <2>1
  <2> QED
    BY SMTT(30), <2>2
<1>2. m * a <= n * a /\ w * b <= n * b /\ n * (a + b) <= n * z
  BY SMTT(30), <1>1
<1>3. n * (a + b) = n * a + n * b /\ m * a \in Nat /\ w * b \in Nat /\ n * a \in Nat /\ n * b \in Nat /\ n * z \in Nat
  OBVIOUS
<1> QED
  BY SMTT(30), <1>2, <1>3

\* The window of a sample starts where the last one ended, ends at the sample at most, and
\* no later than Gap after the power was reported.
LEMMA WindowsApart ==
    ASSUME NEW st, NEW st2, StateOK(st), NEW S \in SUBSET Samples, NEW s \in Samples, After(st, st2, s),
           NEW c \in Channels, Known(st, S, c), NEW k \in Buckets
    PROVE  LET a == Cardinality(InBucket(Earned(S, c, st.last), k))
               b == Cardinality(InBucket(Powered(st, s, c), k))
               z == Cardinality(InBucket(Earned(S \cup {s}, c, st2.last), k))
           IN a \in Nat /\ b \in Nat /\ z \in Nat /\ a + b <= z
<1> DEFINE A == InBucket(Earned(S, c, st.last), k)
           B == InBucket(Powered(st, s, c), k)
           Z == InBucket(Earned(S \cup {s}, c, st2.last), k)
<1>0. \A t \in Times : t \in Int /\ t # None
  BY SMTT(30), MathAssumption DEF Times
<1>1. /\ st2.last \in Times /\ st2.last >= s.at /\ s.at \in Times /\ (st.last # None => st2.last >= st.last)
      /\ st.last # None => st.last \in Times
  <2>1. s.at \in Times
    BY ZenonT(60) DEF Samples, Times
  <2>2. st.last # None => st.last \in Times
    BY SMTT(30) DEF StateOK
  <2> QED
    BY ZenonT(60), <2>1, <2>2, StateStep
<1>2. Elapsed(st.last) \subseteq Elapsed(st2.last)
  BY SMTT(30), <1>0, <1>1 DEF Elapsed
<1>3. Earned(S, c, st.last) \subseteq Earned(S \cup {s}, c, st2.last)
  BY Zenon, <1>2 DEF Earned
<1>4. Powered(st, s, c) \subseteq Elapsed(st2.last) /\ Powered(st, s, c) \cap Elapsed(st.last) = {}
  <2>1. \A t \in Powered(st, s, c) : t \in Times /\ st.last # None /\ st.last <= t /\ t < s.at
    BY Zenon DEF Powered
  <2>2. \A t \in Powered(st, s, c) : t < st2.last /\ ~(t < st.last)
    BY SMTT(30), <1>0, <1>1, <2>1
  <2>3. st2.last # None
    BY Zenon, <1>0, <1>1
  <2> QED
    BY Zenon, <2>1, <2>2, <2>3 DEF Elapsed
<1>5. Powered(st, s, c) \subseteq Earned(S \cup {s}, c, st2.last)
  <2> SUFFICES ASSUME NEW t \in Powered(st, s, c)
               PROVE  \E p \in S : Input(p, c) # None /\ Input(p, c) > 0 /\ p.at <= t /\ t < p.at + Gap
    BY Zenon, <1>4 DEF Earned
  <2>1. /\ t \in Times /\ st.last # None /\ st.last <= t /\ t < st.ch[c].at + Gap
        /\ st.ch[c].watts # 0
    BY Zenon DEF Powered
  <2>2. PICK p \in S : p.at = st.ch[c].at /\ Input(p, c) = st.ch[c].watts
    BY Zenon, <2>1 DEF Known
  <2>3. /\ st.ch[c].watts \in Nat /\ st.ch[c].at \in Times /\ st.last \in Times
        /\ st.ch[c].at <= st.last
    BY Zenon, <2>1 DEF StateOK
  <2> DEFINE x == st.ch[c].watts
             y == st.ch[c].at
             l == st.last
  <2>4. x \in Nat /\ x # 0 /\ y \in Int /\ l \in Int /\ t \in Int /\ y <= l /\ l <= t
    BY Zenon, <1>0, <2>1, <2>3
  <2> HIDE DEF x, y, l
  <2>5. x # None /\ x > 0 /\ y <= t
    BY SMTT(30), <2>4, MathAssumption
  <2> QED
    BY Zenon, <2>1, <2>2, <2>5 DEF x, y
<1>6. Z \in SUBSET Times /\ A \cup B \in SUBSET Z /\ A \cap B = {} /\ A \in SUBSET Z /\ B \in SUBSET Z
  <2>1. Elapsed(st2.last) \subseteq Times
    BY SMTT(30) DEF Elapsed
  <2>2. Earned(S, c, st.last) \subseteq Elapsed(st.last) /\ Earned(S \cup {s}, c, st2.last) \subseteq Elapsed(st2.last)
    BY Zenon DEF Earned
  <2> QED
    BY Zenon, <1>3, <1>4, <1>5, <2>1, <2>2 DEF InBucket
<1>7. IsFiniteSet(Times)
  BY SMTT(30), FS_Interval, MathAssumption DEF Times
<1> HIDE DEF A, B, Z
<1>8. IsFiniteSet(Z)
  BY ZenonT(60), <1>6, <1>7, FS_Subset
<1>9. IsFiniteSet(A) /\ IsFiniteSet(B)
  BY ZenonT(60), <1>6, <1>8, FS_Subset
<1>10. Cardinality(A) \in Nat /\ Cardinality(B) \in Nat /\ Cardinality(Z) \in Nat
  BY ZenonT(60), <1>8, <1>9, FS_CardinalityType
<1>11. Cardinality(A \cup B) = Cardinality(A) + Cardinality(B) - Cardinality(A \cap B) /\ Cardinality(A \cap B) = 0
  BY ZenonT(60), <1>6, <1>9, FS_Union, FS_EmptySet
<1>12. Cardinality(A \cup B) <= Cardinality(Z)
  BY ZenonT(60), <1>6, <1>8, FS_Subset
<1>13. Cardinality(A) + Cardinality(B) <= Cardinality(Z)
  BY SMTT(30), <1>10, <1>11, <1>12
<1> QED
  BY ZenonT(60), <1>10, <1>13 DEF A, B, Z

\* The sample adds its window's energy at most.
AddsAtMost(r, r2, st, s, c) ==
    \A k \in Buckets : Energy(r2, k, c) <= Energy(r, k, c) + EnergyIn(st, s, c, k)

\* Then the energy fits the time passed; a power the sample reports itself may be larger.
LEMMA FitsStep ==
    ASSUME NEW r, NEW r2, NEW st, NEW st2, StateOK(st), NEW S \in SUBSET Samples, NEW s \in Samples,
           After(st, st2, s), NEW c \in Channels, Fits(r, st, S, c), RowsTyped(r), RowsTyped(r2),
           AddsAtMost(r, r2, st, s, c)
    PROVE  Fits(r2, st2, S \cup {s}, c)
<1>1. PICK most \in Powers(S, c) : FitsBy(r, st, S, c, most)
  BY Zenon DEF Fits
<1> DEFINE w == st.ch[c].watts
           w2 == st2.ch[c].watts
           v == Input(s, c)
           n == IF w2 <= most THEN most ELSE w2
<1>2. w \in Nat /\ w2 \in Nat /\ StateOK(st2)
  BY ZenonT(60), StateStep DEF StateOK
<1>3. most \in Nat /\ w <= most
  <2>1. most \in Int /\ w <= most
    BY Zenon, <1>1 DEF FitsBy
  <2> QED
    BY SMTT(30), <1>2, <2>1
<1>4. st2.ch[c] = st.ch[c] \/ (v # None /\ st2.ch[c].at = s.at /\ (w2 # 0 => w2 = v))
  <2>1. st2.ch[c] = st.ch[c] \/ (v # None /\ st2.ch[c] = [at |-> s.at, watts |-> IF v >= 0 THEN v ELSE 0])
    BY ZenonT(60) DEF After, Told
  <2> HIDE DEF v
  <2>2. \A x : [at |-> s.at, watts |-> x].at = s.at /\ [at |-> s.at, watts |-> x].watts = x
    OBVIOUS
  <2> QED
    BY Zenon, <2>1, <2>2
<1>5. Known(st2, S \cup {s}, c)
  BY Zenon, <1>4 DEF Known, Fits
<1>6. n \in Powers(S \cup {s}, c)
  <2>1. most \in Powers(S \cup {s}, c)
    BY Zenon, <1>1 DEF Powers
  <2> SUFFICES ASSUME ~(w2 <= most) PROVE w2 \in Powers(S \cup {s}, c)
    BY Zenon, <2>1
  <2>2. w2 # w /\ w2 # 0
    BY SMTT(30), <1>2, <1>3
  <2>3. v # None /\ w2 = v
    BY Zenon, <1>4, <2>2
  <2> QED
    BY ZenonT(60), <2>3 DEF Powers
<1>7. n \in Nat /\ n \in Int /\ most <= n /\ w <= n /\ w2 <= n
  BY SMTT(30), <1>2, <1>3
<1> HIDE DEF n
<1>8. ASSUME NEW k \in Buckets
      PROVE  Energy(r2, k, c) <= n * Cardinality(InBucket(Earned(S \cup {s}, c, st2.last), k))
  <2> DEFINE a == Cardinality(InBucket(Earned(S, c, st.last), k))
             b == Cardinality(InBucket(Powered(st, s, c), k))
             z == Cardinality(InBucket(Earned(S \cup {s}, c, st2.last), k))
  <2>1. a \in Nat /\ b \in Nat /\ z \in Nat /\ a + b <= z
    BY Zenon, WindowsApart DEF Fits
  <2>2. EnergyIn(st, s, c, k) = w * b
    <3>1. s.at \in Times
      BY DEF Samples, Times
    <3> QED
      BY ZenonT(60), <3>1, EnergyIs
  <2>3. Energy(r, k, c) <= most * a
    BY Zenon, <1>1 DEF FitsBy
  <2>4. Energy(r, k, c) \in Nat /\ Energy(r2, k, c) \in Nat
    BY Zenon, RowsSay
  <2> HIDE DEF a, b, z, w
  <2>5. most * a + w * b <= n * z
    BY ZenonT(60), <1>2, <1>3, <1>7, <2>1, Products
  <2>6. most * a \in Nat /\ w * b \in Nat /\ n * z \in Nat
    BY SMTT(30), <1>2, <1>3, <1>7, <2>1
  <2>7. Energy(r2, k, c) <= Energy(r, k, c) + w * b
    BY ZenonT(60), <2>2 DEF AddsAtMost
  <2>8. Energy(r2, k, c) <= n * z
    BY SMTT(30), <2>3, <2>4, <2>5, <2>6, <2>7
  <2> QED
    BY Zenon, <2>8 DEF z
<1> QED
  BY ZenonT(60), <1>5, <1>6, <1>7, <1>8 DEF Fits, FitsBy

\* No more time can have passed in a bucket than power was carried for.
LEMMA FitsIsBounded ==
    ASSUME NEW r, RowsTyped(r), NEW st, StateOK(st), NEW S, \A c \in Channels : Fits(r, st, S, c)
    PROVE  Bounded(r, S)
<1> SUFFICES ASSUME NEW c \in Channels
             PROVE  \E most \in Powers(S, c) : \A k \in Buckets :
                       Energy(r, k, c) <= most * Cardinality(Carried(S, c, k))
  BY Zenon DEF Bounded
<1>1. PICK most \in Powers(S, c) : FitsBy(r, st, S, c, most)
  BY ZenonT(60) DEF Fits
<1>2. most \in Nat
  <2>1. most \in Int /\ st.ch[c].watts <= most /\ st.ch[c].watts \in Nat
    BY Zenon, <1>1 DEF FitsBy, StateOK
  <2> QED
    BY SMTT(30), <2>1
<1>3. ASSUME NEW k \in Buckets PROVE Energy(r, k, c) <= most * Cardinality(Carried(S, c, k))
  <2> DEFINE A == InBucket(Earned(S, c, st.last), k)
             Z == Carried(S, c, k)
             e == Energy(r, k, c)
  <2>1. A \in SUBSET Z /\ Z \in SUBSET Times
    BY ZenonT(60) DEF InBucket, Earned, Elapsed, Carried, Times
  <2>2. IsFiniteSet(Times)
    BY SMTT(30), FS_Interval, MathAssumption DEF Times
  <2>3. e <= most * Cardinality(A) /\ e \in Nat
    BY ZenonT(60), <1>1, RowsSay DEF FitsBy
  <2> HIDE DEF A, Z, e
  <2>4. IsFiniteSet(Z)
    BY Zenon, <2>1, <2>2, FS_Subset
  <2>5. IsFiniteSet(A) /\ Cardinality(A) <= Cardinality(Z)
    BY ZenonT(60), <2>1, <2>4, FS_Subset
  <2> DEFINE a == Cardinality(A)
             z == Cardinality(Z)
  <2>6. a \in Nat /\ z \in Nat
    BY ZenonT(60), <2>4, <2>5, FS_CardinalityType
  <2>7. e <= most * a /\ a <= z
    BY Zenon, <2>3, <2>5
  <2> HIDE DEF a, z
  <2>8. most * a + most * 0 <= most * z
    <3>1. 0 \in Nat /\ a + 0 <= z /\ most <= most
      BY SMTT(30), <1>2, <2>6, <2>7
    <3> QED
      BY ZenonT(60), <1>2, <2>6, <3>1, Products
  <2>9. most * a \in Nat /\ most * z \in Nat /\ most * 0 = 0
    BY SMTT(30), <1>2, <2>6
  <2>10. e <= most * z
    BY SMTT(30), <2>3, <2>7, <2>8, <2>9
  <2> QED
    BY Zenon, <2>10 DEF e, z, Z
<1> QED
  BY Zenon, <1>3

\* Nothing fits anything.
LEMMA FitsInit ==
    ASSUME NEW r, \A k \in Buckets : r[k] = NoRow, NEW S, NEW c \in Channels
    PROVE  Fits(r, NoState, S, c)
<1>1. 0 \in Powers(S, c) /\ 0 \in Int
  BY SMTT(30), MathAssumption DEF Powers
<1>2. NoState.last = None /\ NoState.ch[c].watts <= 0 /\ NoState.ch[c].watts = 0
  BY SMTT(30), NoStateOK
<1>3. ASSUME NEW k \in Buckets PROVE Energy(r, k, c) <= 0 * Cardinality(InBucket(Earned(S, c, NoState.last), k))
  <2>1. InBucket(Earned(S, c, NoState.last), k) = {}
    BY Zenon, <1>2 DEF InBucket, Earned, Elapsed
  <2>2. Cardinality(InBucket(Earned(S, c, NoState.last), k)) = 0
    BY ZenonT(60), <2>1, FS_EmptySet
  <2>3. Energy(r, k, c) = 0
    BY Zenon DEF Energy
  <2> QED
    BY SMTT(30), <2>2, <2>3
<1>4. Known(NoState, S, c)
  BY Zenon, <1>2 DEF Known
<1> QED
  BY ZenonT(60), <1>1, <1>2, <1>3, <1>4 DEF Fits, FitsBy

------------------------------------------------------------------------------
(* The rebuild next to the live worker.                                    *)

\* Table r, and the memory that goes with it, after the samples F[n], n in C.
TableOK(r, st, F, C) ==
    /\ StateOK(st) /\ RowsTyped(r) /\ Consistent(r)
    /\ RowsOK(r, F, C)
    /\ \A c \in Channels : Fits(r, st, {F[n] : n \in C}, c)

\* It holds of empty tables.
LEMMA TableInit ==
    ASSUME NEW r, \A k \in Buckets : r[k] = NoRow, NEW F
    PROVE  TableOK(r, NoState, F, {})
<1>1. RowsTyped(r) /\ Consistent(r)
  BY Zenon, ConsistentInit
<1>2. RowsOK(r, F, {})
  BY Zenon, NoneCounted
<1>3. \A c \in Channels : Fits(r, NoState, {F[n] : n \in {}}, c)
  BY ZenonT(60), FitsInit
<1> QED
  BY Zenon, <1>1, <1>2, <1>3, NoStateOK DEF TableOK

\* A sample, applied by the live worker or by the rebuild, preserves it.
LEMMA TableStep ==
    ASSUME NEW r, NEW st, NEW F, NEW C, IsFiniteSet(C), NEW m, m \notin C,
           \A e \in C \cup {m} : F[e] \in Samples, TableOK(r, st, F, C), NEW r2, NEW st2,
           r2 = UpsertSample(r, st, F[m]) \/ r2 = AddSample(r, st, F[m]), After(st, st2, F[m])
    PROVE  TableOK(r2, st2, F, C \cup {m}) /\ SampleAdded(r, r2, st, F[m])
<1> DEFINE s == F[m]
           S == {F[n] : n \in C}
<1>1. s \in Samples /\ S \in SUBSET Samples
  BY Zenon
<1>2. s.at \in Times /\ \A e \in C \cup {m} : F[e].at \in Int
  <2>1. \A x \in Samples : x.at \in Times /\ x.at \in Int
    BY SMTT(30) DEF Samples, Times
  <2> QED
    BY Zenon, <1>1, <2>1
<1>3. {F[n] : n \in C \cup {m}} = S \cup {s}
  BY Zenon
<1>4. RowsOK(r2, F, C \cup {m})
  BY ZenonT(60), <1>2, SampleCounts DEF TableOK
<1>5. StateOK(st) /\ RowsTyped(r) /\ Consistent(r) /\ \A c \in Channels : Fits(r, st, S, c)
  BY Zenon DEF TableOK
<1> HIDE DEF s, S
<1>6. r2 = UpsertSample(r, st, s) \/ r2 = AddSample(r, st, s)
  BY Zenon DEF s
<1>7. RowsTyped(r2) /\ SampleAdded(r, r2, st, s)
  BY ZenonT(60), <1>2, <1>5, <1>6, SampleIs
<1>8. Consistent(r2)
  BY ZenonT(60), <1>2, <1>5, <1>7, ConsistentStep
<1>9. After(st, st2, s)
  BY Zenon DEF s
<1>10. StateOK(st2)
  BY ZenonT(60), <1>1, <1>5, <1>9, StateStep
<1>11. ASSUME NEW c \in Channels PROVE Fits(r2, st2, S \cup {s}, c)
  <2>1. \A k \in Buckets : /\ Energy(r2, k, c) = Energy(r, k, c) + EnergyIn(st, s, c, k)
                           /\ Energy(r2, k, c) \in Nat
    BY ZenonT(60), <1>7, RowsSay DEF SampleAdded
  <2>2. \A k \in Buckets : Energy(r2, k, c) <= Energy(r, k, c) + EnergyIn(st, s, c, k)
    BY SMTT(30), <2>1
  <2>3. AddsAtMost(r, r2, st, s, c)
    BY Zenon, <2>2 DEF AddsAtMost
  <2> QED
    BY ZenonT(60), <1>1, <1>5, <1>7, <1>9, <2>3, FitsStep
<1>12. SampleAdded(r, r2, st, F[m])
  BY Zenon, <1>7 DEF s
<1>13. \A c \in Channels : Fits(r2, st2, {F[n] : n \in C \cup {m}}, c)
  BY Zenon, <1>3, <1>11
<1> QED
  BY Zenon, <1>4, <1>7, <1>8, <1>10, <1>12, <1>13 DEF TableOK

\* The live table has every envelope that was counted, the rebuilt one those not merged;
\* memories and energies are the same until a sample is late or an envelope is merged.
RebuildInv ==
    /\ log \in [1..LogLength -> Envelopes] /\ applied \in 0..LogLength
    /\ TableOK(live, liveState, SampleOf, Counted)
    /\ TableOK(rebuilt, rebuiltState, SampleOf, Counted \ Merged)
    /\ Merged = {} /\ ~late => liveState = rebuiltState /\ SameEnergy

\* It holds of empty tables.
LEMMA RebuildInvInit == RebuildInit => RebuildInv
<1> SUFFICES ASSUME RebuildInit PROVE RebuildInv
  BY Zenon
<1>1. /\ \A k \in Buckets : live[k] = NoRow /\ rebuilt[k] = NoRow
      /\ liveState = NoState /\ rebuiltState = NoState
      /\ log \in [1..LogLength -> Envelopes] /\ applied = 0
  BY Zenon DEF RebuildInit
<1>2. 1..applied = {} /\ applied \in 0..LogLength
  BY SMTT(30), <1>1, RebuildAssumption
<1>3. Counted = {} /\ Counted \ Merged = {}
  BY Zenon, <1>2 DEF Counted
<1>4. SameEnergy
  BY Zenon, <1>1 DEF SameEnergy, Energy
<1>5. TableOK(live, NoState, SampleOf, {}) /\ TableOK(rebuilt, NoState, SampleOf, {})
  BY Zenon, <1>1, TableInit
<1> QED
  BY Zenon, <1>1, <1>2, <1>3, <1>4, <1>5 DEF RebuildInv

\* The envelopes counted have samples.
LEMMA CountedIs ==
    ASSUME RebuildInv
    PROVE  /\ IsFiniteSet(Counted) /\ IsFiniteSet(Counted \ Merged)
           /\ \A n \in Counted : SampleOf[n] \in Samples /\ SampleOf[n] = log[n].sample
<1>1. IsFiniteSet(1..applied) /\ 1..applied \subseteq 1..LogLength
  <2>1. applied \in Nat /\ applied <= LogLength /\ LogLength \in Nat
    BY SMTT(30), RebuildAssumption DEF RebuildInv
  <2>2. IsFiniteSet(1..applied)
    BY SMTT(30), <2>1, FS_Interval
  <2>3. 1..applied \subseteq 1..LogLength
    BY SMTT(30), <2>1
  <2> QED
    BY Zenon, <2>2, <2>3
<1>2. Counted \in SUBSET (1..applied) /\ Counted \ Merged \in SUBSET (1..applied)
  BY Zenon DEF Counted
<1>3. \A n \in Counted : SampleOf[n] = log[n].sample /\ log[n] \in Envelopes /\ log[n].sample # None
  BY Zenon, <1>1 DEF Counted, SampleOf, RebuildInv
<1> QED
  BY ZenonT(60), <1>1, <1>2, <1>3, RebuildAssumption, FS_Subset

\* shouldPreferLatestEnvelope keeps an envelope that no later one replaces.
LEMMA KeptIs ==
    ASSUME NEW n \in 1..LogLength
    PROVE  Kept(n) <=> ~Replaced(n)
<1>1. \A j : j \in (n + 1)..LogLength <=> j \in 1..LogLength /\ j > n
  BY SMTT(30), RebuildAssumption
<1> QED
  BY Zenon, <1>1 DEF Kept, Replaced

\* One more envelope is counted, and merged if a later one replaces it.
LEMMA CountedStep ==
    ASSUME RebuildInv, RebuildNext
    PROVE  LET n == applied + 1 IN
           /\ n \in 1..LogLength /\ n \notin Counted /\ log' = log /\ SampleOf' = SampleOf
           /\ applied' \in 0..LogLength
           /\ log[n].sample = None => Counted' = Counted /\ Merged' = Merged
           /\ log[n].sample # None => /\ SampleOf[n] = log[n].sample /\ SampleOf[n] \in Samples
                                      /\ Counted' = Counted \cup {n}
                                      /\ Merged' = IF Kept(n) THEN Merged ELSE Merged \cup {n}
<1> DEFINE n == applied + 1
<1>1. applied < LogLength /\ ApplyEnvelope(n)
  BY Zenon DEF RebuildNext
<1>2. log' = log /\ applied' = n
  BY Zenon, <1>1 DEF ApplyEnvelope
<1>3. /\ n \in 1..LogLength /\ n \notin 1..applied /\ n \in 0..LogLength
      /\ \A i : i \in 1..n <=> i \in 1..applied \/ i = n
  BY SMTT(30), <1>1, RebuildAssumption DEF RebuildInv
<1>4. SampleOf' = SampleOf /\ \A i : Replaced(i)' = Replaced(i)
  BY Zenon, <1>2 DEF SampleOf, Replaced
<1>5. Kept(n) <=> ~Replaced(n)
  BY Zenon, <1>3, KeptIs
<1>6. SampleOf[n] = log[n].sample /\ (log[n].sample # None => log[n].sample \in Samples)
  BY Zenon, <1>3, RebuildAssumption DEF SampleOf, RebuildInv
<1> HIDE DEF n
<1>7. \A i : i \in Counted' <=> i \in Counted \/ (i = n /\ log[n].sample # None)
  BY Zenon, <1>2, <1>3 DEF Counted
<1>8. \A i : i \in Merged' <=> i \in Merged \/ (i = n /\ log[n].sample # None /\ Replaced(n))
  BY Zenon, <1>4, <1>7 DEF Merged
<1>9. n \notin Counted
  BY Zenon, <1>3 DEF Counted
<1>10. log[n].sample = None => Counted' = Counted /\ Merged' = Merged
  BY Zenon, <1>7, <1>8
<1>11. log[n].sample # None => /\ Counted' = Counted \cup {n}
                              /\ Merged' = IF Kept(n) THEN Merged ELSE Merged \cup {n}
  BY Zenon, <1>5, <1>7, <1>8
<1> QED
  BY Zenon, <1>2, <1>3, <1>4, <1>6, <1>9, <1>10, <1>11 DEF n

\* An envelope, handled by the live worker and by the rebuild, preserves the invariant.
LEMMA RebuildInvStep == RebuildInv /\ [RebuildNext]_rebuildVars => RebuildInv'
<1> SUFFICES ASSUME RebuildInv, [RebuildNext]_rebuildVars PROVE RebuildInv'
  BY Zenon
<1>1. ASSUME RebuildNext PROVE RebuildInv'
  <2> DEFINE n == applied + 1
             s == log[n].sample
             F == SampleOf
             C == Counted
             D == Counted \ Merged
  <2>1. /\ n \in 1..LogLength /\ n \notin C /\ log' = log /\ SampleOf' = F /\ applied' \in 0..LogLength
        /\ s = None => Counted' = C /\ Merged' = Merged
        /\ s # None => /\ F[n] = s /\ s \in Samples /\ Counted' = C \cup {n}
                       /\ Merged' = IF Kept(n) THEN Merged ELSE Merged \cup {n}
    BY Zenon, <1>1, CountedStep
  <2>2. ApplyEnvelope(n)
    BY Zenon, <1>1 DEF RebuildNext
  <2>3. /\ TableOK(live, liveState, F, C) /\ TableOK(rebuilt, rebuiltState, F, D)
        /\ IsFiniteSet(C) /\ IsFiniteSet(D) /\ D \subseteq C /\ \A e \in C : F[e] \in Samples
    BY Zenon, CountedIs DEF RebuildInv
  <2>4. log' \in [1..LogLength -> Envelopes]
    BY Zenon, <2>1 DEF RebuildInv
  <2>5. CASE s = None
    <3>1. UNCHANGED <<live, liveState, late, rebuilt, rebuiltState>>
      BY Zenon, <2>2, <2>5 DEF ApplyEnvelope
    <3>2. SameEnergy' <=> SameEnergy
      BY Zenon, <3>1 DEF SameEnergy
    <3> QED
      BY Zenon, <2>1, <2>3, <2>4, <2>5, <3>1, <3>2 DEF RebuildInv
  <2>6. CASE s # None
    <3> DEFINE r2 == UpsertSample(live, liveState, s)
               st2 == advanceIntegrationState(liveState, s)
               q2 == AddSample(rebuilt, rebuiltState, s)
               su2 == AdvanceState(rebuiltState, s)
    <3>1. live' = r2 /\ liveState' = st2 /\ late' = (late \/ (liveState.last # None /\ s.at < liveState.last))
      BY Zenon, <2>2, <2>6 DEF ApplyEnvelope, ApplyLive
    <3>2. /\ Kept(n) => rebuilt' = q2 /\ rebuiltState' = su2
          /\ ~Kept(n) => rebuilt' = rebuilt /\ rebuiltState' = rebuiltState
      BY Zenon, <2>2, <2>6 DEF ApplyEnvelope, ApplyRebuilt
    <3>3. After(liveState, st2, s) /\ After(rebuiltState, su2, s)
      BY Zenon, <2>1, <2>6, AfterIs
    <3>4. StateOK(liveState)
      BY Zenon, <2>3 DEF TableOK
    <3>5. Kept(n) /\ Merged = {} /\ ~late' => /\ st2 = su2 /\ ~late /\ SameEnergy
                                              /\ liveState = rebuiltState
      BY Zenon, <2>1, <2>6, <3>1, <3>4, SameAdvance DEF RebuildInv
    <3>6. F[n] = s /\ \A e \in C \cup {n} : F[e] \in Samples
      BY Zenon, <2>1, <2>3, <2>6
    <3>7. n \notin D /\ \A e \in D \cup {n} : F[e] \in Samples
      BY Zenon, <2>1, <2>3, <3>6
    <3>8. /\ r2 = UpsertSample(live, liveState, F[n]) /\ After(liveState, st2, F[n])
          /\ q2 = AddSample(rebuilt, rebuiltState, F[n]) /\ After(rebuiltState, su2, F[n])
      BY Zenon, <3>3, <3>6
    <3> HIDE DEF n, s, F, C, D, r2, st2, q2, su2
    <3>9. TableOK(r2, st2, F, C \cup {n}) /\ SampleAdded(live, r2, liveState, F[n])
      BY ZenonT(60), <2>1, <2>3, <3>6, <3>8, TableStep
    <3>10. TableOK(q2, su2, F, D \cup {n}) /\ SampleAdded(rebuilt, q2, rebuiltState, F[n])
      BY ZenonT(60), <2>3, <3>7, <3>8, TableStep
    <3>11. Kept(n) /\ Merged = {} /\ ~late' =>
              \A k \in Buckets, c \in Channels : Energy(r2, k, c) = Energy(q2, k, c)
      BY ZenonT(60), <3>5, <3>9, <3>10 DEF SameEnergy, SampleAdded
    <3>12. CASE Kept(n)
      <4>1. Merged' = Merged /\ Counted' = C \cup {n} /\ (Counted \ Merged)' = D \cup {n}
        BY Zenon, <2>1, <2>6, <3>12 DEF C, D, Merged
      <4>2. rebuilt' = q2 /\ rebuiltState' = su2
        BY Zenon, <3>2, <3>12
      <4>3. Merged' = {} /\ ~late' => liveState' = rebuiltState' /\ SameEnergy'
        BY Zenon, <3>1, <3>5, <3>11, <3>12, <4>1, <4>2 DEF SameEnergy
      <4> QED
        BY Zenon, <2>1, <2>4, <3>1, <3>9, <3>10, <4>1, <4>2, <4>3 DEF RebuildInv
    <3>13. CASE ~Kept(n)
      <4>1. Merged' = Merged \cup {n} /\ Counted' = C \cup {n}
        BY Zenon, <2>1, <2>6, <3>13
      <4>2. (Counted \ Merged)' = D
        BY Zenon, <2>1, <4>1 DEF C, D
      <4>3. Merged' # {}
        BY Zenon, <4>1
      <4>4. rebuilt' = rebuilt /\ rebuiltState' = rebuiltState
        BY Zenon, <3>2, <3>13
      <4> QED
        BY Zenon, <2>1, <2>3, <2>4, <3>1, <3>9, <4>1, <4>2, <4>3, <4>4 DEF RebuildInv
    <3> QED
      BY Zenon, <3>12, <3>13
  <2> QED
    BY Zenon, <2>5, <2>6
<1>2. CASE UNCHANGED rebuildVars
  <2>1. /\ UNCHANGED <<log, live, liveState, rebuilt, rebuiltState, applied, late>>
        /\ SampleOf' = SampleOf /\ Counted' = Counted /\ Merged' = Merged /\ SameEnergy' = SameEnergy
    BY ZenonT(60), <1>2 DEF rebuildVars, SampleOf, Counted, Merged, Replaced, SameEnergy
  <2> QED
    BY Zenon, <2>1 DEF RebuildInv
<1> QED
  BY Zenon, <1>1, <1>2

\* It says what the properties say.
LEMMA RebuildInvSays == RebuildInv => RebuildEqualsLive /\ EnergyIsBounded
<1> SUFFICES ASSUME RebuildInv PROVE RebuildEqualsLive /\ EnergyIsBounded
  BY Zenon
<1>1. /\ IsFiniteSet(Counted) /\ IsFiniteSet(Counted \ Merged)
      /\ \A n \in Counted : SampleOf[n].at \in Int /\ SampleOf[n] = log[n].sample
  <2>1. \A x \in Samples : x.at \in Int
    BY SMTT(30) DEF Samples
  <2> QED
    BY Zenon, <2>1, CountedIs
<1>2. TableOK(live, liveState, SampleOf, Counted) /\ TableOK(rebuilt, rebuiltState, SampleOf, Counted \ Merged)
  BY Zenon DEF RebuildInv
<1>3. CountsSamples(live, SampleOf, Counted) /\ CountsSamples(rebuilt, SampleOf, Counted \ Merged)
  BY ZenonT(60), <1>1, <1>2, RowsCount DEF TableOK
<1>4. /\ Bounded(live, {SampleOf[n] : n \in Counted})
      /\ Bounded(rebuilt, {SampleOf[n] : n \in Counted \ Merged})
  BY ZenonT(60), <1>2, FitsIsBounded DEF TableOK
<1>5. /\ {SampleOf[n] : n \in Counted} = {log[n].sample : n \in Counted}
      /\ {SampleOf[n] : n \in Counted \ Merged} = {log[n].sample : n \in Counted \ Merged}
  BY Zenon, <1>1
<1>6. EnergyIsBounded
  BY Zenon, <1>4, <1>5 DEF EnergyIsBounded
<1>7. RebuildEqualsLive
  BY Zenon, <1>2, <1>3 DEF RebuildEqualsLive, RebuildInv, TableOK
<1> QED
  BY Zenon, <1>6, <1>7

\* Aggregator.ApplySample, the rebuild's own implementation, and the live worker's upserts
\* come to the same rows over any archive but for the envelopes that processObjectGroup
\* merges: each table counts, and spans the times of, exactly its envelopes; the energies
\* are the same while none is merged and event times are in the order of ingestion; and
\* the widths of either agree.
THEOREM RebuildMatchesLive == RebuildSpec => []RebuildEqualsLive
<1> QED
  BY RebuildInvInit, RebuildInvStep, RebuildInvSays, PTL DEF RebuildSpec

\* IntegratePowerWindow and the integration state never let two samples' windows overlap,
\* and carry no power further than Gap: no row of either table has more energy than a power
\* reported, for the time within Gap after a report, in whichever order the samples come.
THEOREM EnergyStaysBounded == RebuildSpec => []EnergyIsBounded
<1> QED
  BY RebuildInvInit, RebuildInvStep, RebuildInvSays, PTL DEF RebuildSpec

------------------------------------------------------------------------------
(* The rows of the workers.                                                *)

\* All that any worker remembers is st.
Alone(st) == \A w \in Workers : state[w] = NoState \/ state[w] = st
Memories == {NoState} \cup {state[w] : w \in Workers}
Reported == {Sample[m] : m \in Useful}

\* Rows of all widths agree; while there is one memory, the energy is that of the time
\* which it has seen pass.
EnergyInv ==
    /\ RowsTyped(rows) /\ Consistent(rows)
    /\ state = [w \in Workers |-> state[w]]
    /\ \A w \in Workers : StateOK(state[w])
    /\ OneMemory => \A st \in Memories : Alone(st) => \A c \in Channels : Fits(rows, st, Reported, c)

\* It holds of empty tables.
LEMMA EnergyInvInit == RollupInit => EnergyInv
<1> SUFFICES ASSUME RollupInit PROVE EnergyInv
  OBVIOUS
<1>1. (\A k \in Buckets : rows[k] = NoRow) /\ state = [w \in Workers |-> NoState]
  BY Zenon DEF RollupInit
<1>2. state = [w \in Workers |-> state[w]] /\ \A w \in Workers : state[w] = NoState
  BY SMTT(30), <1>1
<1>3. Memories = {NoState}
  BY Zenon, <1>2 DEF Memories
<1>4. \A c \in Channels : Fits(rows, NoState, Reported, c)
  BY ZenonT(60), <1>1, FitsInit
<1> QED
  BY ZenonT(60), <1>1, <1>2, <1>3, <1>4, ConsistentInit, NoStateOK DEF EnergyInv

\* Worker w has moved its memory on by envelope m, and added m to the rows or found it there.
Advances(w, m) ==
    /\ rows' = UpsertSample(rows, state[w], Sample[m]) \/ rows' = rows
    /\ state' = [state EXCEPT ![w] = advanceIntegrationState(@, Sample[m])]
    /\ UNCHANGED <<crashed, lost>>

\* What the actions do to rows and memories.
LEMMA RowSteps ==
    ASSUME RInv, EnergyInv, [RollupNext]_rollupVars
    PROVE  \/ UNCHANGED <<rows, state, crashed, lost>>
           \/ \E w \in Workers : \E m \in Useful : Advances(w, m)
           \/ /\ lost' /\ UNCHANGED state
              /\ \E w \in Workers : \E m \in Useful : rows' = UpsertSample(rows, state[w], Sample[m])
           \/ /\ crashed' /\ UNCHANGED rows
              /\ \E w \in Workers : state' = [state EXCEPT ![w] = NoState]
<1>1. ASSUME NEW w \in Workers, NEW m \in Messages, Claim(w, m)
      PROVE  UNCHANGED <<rows, state, crashed, lost>> \/ (m \in Useful /\ Advances(w, m))
  <2>1. m \in Useful /\ UNCHANGED <<rows, crashed, lost>>
    BY ZenonT(60), <1>1 DEF Claim
  <2>2. \/ UNCHANGED state
        \/ state' = [state EXCEPT ![w] = advanceDuplicateIntegrationState(@, Sample[m])]
    BY ZenonT(60), <1>1 DEF Claim
  <2>3. \/ advanceDuplicateIntegrationState(state[w], Sample[m]) = state[w]
        \/ advanceDuplicateIntegrationState(state[w], Sample[m]) = advanceIntegrationState(state[w], Sample[m])
    BY Zenon DEF advanceDuplicateIntegrationState
  <2>4. [state EXCEPT ![w] = state[w]] = state
    BY DEF EnergyInv
  <2> QED
    BY ZenonT(60), <2>1, <2>2, <2>3, <2>4 DEF Advances
<1>2. ASSUME NEW w \in Workers, Commit(w)
      PROVE  \E m \in Useful :
                \/ UNCHANGED <<rows, state, crashed, lost>>
                \/ Advances(w, m)
                \/ lost' /\ UNCHANGED state /\ rows' = UpsertSample(rows, state[w], Sample[m])
  <2>1. PICK m \in Useful \ claims : job[w] = TxJob(m)
    BY ZenonT(60), <1>2, JobKinds DEF Commit, RInv, JobOK
  <2>2. job[w].msg = m
    BY SMTT(30), <2>1, JobKinds
  <2> QED
    BY ZenonT(60), <1>2, <2>1, <2>2 DEF Commit, Advances
<1>3. ASSUME NEW w \in Workers, NEW m \in Messages, SkipEnvelope(w, m) PROVE UNCHANGED <<rows, state, crashed, lost>>
  BY Zenon, <1>3 DEF SkipEnvelope
<1>4. ASSUME NEW w \in Workers, Finish(w) PROVE UNCHANGED <<rows, state, crashed, lost>>
  BY Zenon, <1>4 DEF Finish
<1>5. ASSUME NEW m \in Messages, AckWaitPasses(m) PROVE UNCHANGED <<rows, state, crashed, lost>>
  BY Zenon, <1>5 DEF AckWaitPasses
<1>6. ASSUME NEW w \in Workers, Crash(w)
      PROVE  crashed' /\ UNCHANGED rows /\ state' = [state EXCEPT ![w] = NoState]
  BY Zenon, <1>6 DEF Crash
<1>7. CASE UNCHANGED rollupVars
  BY Zenon, <1>7 DEF rollupVars
<1> QED
  BY ZenonT(60), <1>1, <1>2, <1>3, <1>4, <1>5, <1>6, <1>7 DEF RollupNext, Receive, Handle

\* A commit leaves the widths in agreement.
LEMMA CommitAgrees ==
    ASSUME EnergyInv, NEW w \in Workers, NEW m \in Useful, rows' = UpsertSample(rows, state[w], Sample[m])
    PROVE  /\ RowsTyped(rows') /\ Consistent(rows')
           /\ \A k \in Buckets, c \in Channels :
                 Energy(rows', k, c) = Energy(rows, k, c) + EnergyIn(state[w], Sample[m], c, k)
<1> DEFINE s == Sample[m]
           r2 == UpsertSample(rows, state[w], s)
<1>1. s.at \in Times
  BY SMTT(30), RollupAssumption DEF Useful, Samples, Times
<1>2. RowsTyped(r2) /\ SampleAdded(rows, r2, state[w], s)
  BY ZenonT(60), <1>1, SampleIs DEF EnergyInv
<1> HIDE DEF r2
<1>3. Consistent(r2)
  BY ZenonT(60), <1>1, <1>2, ConsistentStep DEF EnergyInv
<1> QED
  BY ZenonT(60), <1>2, <1>3 DEF SampleAdded, r2

\* The memory of the worker goes with the rows.
LEMMA AdvanceFits ==
    ASSUME EnergyInv, NEW w \in Workers, NEW m \in Useful, Advances(w, m)
    PROVE  EnergyInv'
<1> DEFINE s == Sample[m]
           st == state[w]
           st2 == advanceIntegrationState(st, s)
<1>1. s \in Samples /\ s.at \in Times /\ s \in Reported /\ Reported \in SUBSET Samples
  BY ZenonT(60), RollupAssumption DEF Useful, Samples, Times, Reported
<1>2. After(st, st2, s)
  BY ZenonT(60), <1>1, AfterIs
<1>3. /\ state' = [v \in Workers |-> state'[v]]
      /\ \A v \in Workers : state'[v] = IF v = w THEN st2 ELSE state[v]
  <2>1. state' = [state EXCEPT ![w] = st2] /\ state = [v \in Workers |-> state[v]]
    BY Zenon DEF Advances, EnergyInv
  <2> HIDE DEF st2
  <2> QED
    BY SMTT(30), <2>1
<1> HIDE DEF st2
<1>4. StateOK(st) /\ StateOK(st2) /\ st2 # NoState
  <2>1. StateOK(st)
    BY Zenon DEF EnergyInv
  <2>2. StateOK(st2) /\ st2.last \in Times
    BY ZenonT(60), <1>1, <1>2, <2>1, StateStep
  <2>3. NoState.last \notin Times
    BY SMTT(30), NoStateOK, MathAssumption DEF Times
  <2> QED
    BY ZenonT(60), <2>1, <2>2, <2>3
<1>5. /\ RowsTyped(rows') /\ Consistent(rows')
      /\ \A k \in Buckets, c \in Channels : Energy(rows', k, c) <= Energy(rows, k, c) + EnergyIn(st, s, c, k)
  <2>1. \A k \in Buckets, c \in Channels : Energy(rows, k, c) \in Nat /\ EnergyIn(st, s, c, k) \in Nat
    BY ZenonT(60), <1>1, <1>4, RowsSay, EnergyIs DEF EnergyInv
  <2>2. CASE rows' = rows
    <3>1. \A k \in Buckets, c \in Channels : Energy(rows, k, c) <= Energy(rows, k, c) + EnergyIn(st, s, c, k)
      BY SMTT(30), <2>1
    <3> QED
      BY ZenonT(60), <2>2, <3>1 DEF EnergyInv
  <2>3. CASE rows' = UpsertSample(rows, st, s)
    <3>1. /\ RowsTyped(rows') /\ Consistent(rows')
          /\ \A k \in Buckets, c \in Channels : Energy(rows', k, c) = Energy(rows, k, c) + EnergyIn(st, s, c, k)
      BY ZenonT(60), <2>3, CommitAgrees
    <3>2. \A k \in Buckets, c \in Channels : Energy(rows', k, c) <= Energy(rows, k, c) + EnergyIn(st, s, c, k)
      BY SMTT(30), <2>1, <3>1
    <3> QED
      BY ZenonT(60), <3>1, <3>2
  <2> QED
    BY ZenonT(60), <2>2, <2>3 DEF Advances
<1>6. ASSUME OneMemory' PROVE \A c \in Channels : Fits(rows', st2, Reported, c)
  <2>1. \A v \in Workers : v # w => state[v] = NoState
    BY ZenonT(60), <1>3, <1>4, <1>6 DEF OneMemory
  <2>2. OneMemory /\ Alone(st) /\ st \in Memories
    BY ZenonT(60), <1>6, <2>1 DEF OneMemory, Advances, Alone, Memories
  <2>3. \A c \in Channels : Fits(rows, st, Reported, c)
    BY Zenon, <2>2 DEF EnergyInv
  <2> SUFFICES ASSUME NEW c \in Channels PROVE Fits(rows', st2, Reported, c)
    OBVIOUS
  <2> DEFINE r2 == rows'
  <2>4. /\ RowsTyped(r2) /\ RowsTyped(rows) /\ Fits(rows, st, Reported, c)
        /\ AddsAtMost(rows, r2, st, s, c)
    BY Zenon, <1>5, <2>3 DEF EnergyInv, AddsAtMost
  <2> HIDE DEF r2
  <2>5. Fits(r2, st2, Reported \cup {s}, c)
    BY ZenonT(60), <1>1, <1>2, <1>4, <2>4, FitsStep
  <2>6. Reported \cup {s} = Reported
    BY Zenon, <1>1
  <2> QED
    BY ZenonT(60), <2>5, <2>6 DEF r2
<1>7. \A x : Alone(x)' => x = st2
  BY ZenonT(60), <1>3, <1>4 DEF Alone
<1>8. \A v \in Workers : StateOK(state'[v])
  BY ZenonT(60), <1>3, <1>4 DEF EnergyInv
<1>9. OneMemory' => \A x \in Memories' : Alone(x)' => \A c \in Channels : Fits(rows', x, Reported, c)
  BY ZenonT(60), <1>6, <1>7
<1> QED
  BY ZenonT(60), <1>3, <1>5, <1>8, <1>9 DEF EnergyInv, Reported

\* Every step preserves it.
LEMMA EnergyInvStep == RInv /\ EnergyInv /\ [RollupNext]_rollupVars => EnergyInv'
<1> SUFFICES ASSUME RInv, EnergyInv, [RollupNext]_rollupVars PROVE EnergyInv'
  OBVIOUS
<1>1. CASE UNCHANGED <<rows, state, crashed, lost>>
  BY ZenonT(60), <1>1 DEF EnergyInv, OneMemory, Memories, Alone, Reported
<1>2. CASE \E w \in Workers : \E m \in Useful : Advances(w, m)
  BY Zenon, <1>2, AdvanceFits
<1>3. CASE /\ lost' /\ UNCHANGED state
           /\ \E w \in Workers : \E m \in Useful : rows' = UpsertSample(rows, state[w], Sample[m])
  <2>1. RowsTyped(rows') /\ Consistent(rows')
    BY ZenonT(60), <1>3, CommitAgrees
  <2>2. ~OneMemory'
    BY Zenon, <1>3 DEF OneMemory
  <2> QED
    BY ZenonT(60), <1>3, <2>1, <2>2 DEF EnergyInv
<1>4. CASE /\ crashed' /\ UNCHANGED rows
           /\ \E w \in Workers : state' = [state EXCEPT ![w] = NoState]
  <2>1. PICK w \in Workers : state' = [state EXCEPT ![w] = NoState]
    BY ZenonT(60), <1>4
  <2>2. /\ state' = [v \in Workers |-> state'[v]]
        /\ \A v \in Workers : state'[v] = IF v = w THEN NoState ELSE state[v]
    BY SMTT(30), <2>1 DEF EnergyInv
  <2>3. \A v \in Workers : StateOK(state'[v])
    BY ZenonT(60), <2>2, NoStateOK DEF EnergyInv
  <2>4. ~OneMemory'
    BY ZenonT(60), <1>4 DEF OneMemory
  <2> QED
    BY ZenonT(60), <1>4, <2>2, <2>3, <2>4 DEF EnergyInv
<1> QED
  BY ZenonT(60), <1>1, <1>2, <1>3, <1>4, RowSteps

\* It says what the properties say.
LEMMA EnergyInvSays == EnergyInv => WidthsAgree /\ EnergyCountedOnce
<1> SUFFICES ASSUME EnergyInv PROVE WidthsAgree /\ EnergyCountedOnce
  OBVIOUS
<1>1. WidthsAgree
  BY Zenon DEF EnergyInv, WidthsAgree
<1>2. ASSUME OneMemory PROVE EnergyFits
  <2>1. PICK st \in Memories : Alone(st)
    BY ZenonT(60), <1>2 DEF OneMemory, Memories, Alone
  <2>2. StateOK(st) /\ \A c \in Channels : Fits(rows, st, Reported, c)
    BY Zenon, <1>2, <2>1, NoStateOK DEF EnergyInv, Memories
  <2>3. Bounded(rows, Reported)
    BY Zenon, <2>2, FitsIsBounded DEF EnergyInv
  <2> QED
    BY Zenon, <2>3 DEF EnergyFits, Reported
<1> QED
  BY ZenonT(60), <1>1, <1>2 DEF EnergyCountedOnce

\* A row of the hour or the day always says what its minutes' rows say together: the upserts
\* of an envelope are one transaction, and add to all widths alike, whatever the workers
\* remember, fail at or redo.
THEOREM WidthsStayConsistent == RollupSpec => []WidthsAgree
<1> QED
  BY RInvInit, RInvStep, EnergyInvInit, EnergyInvStep, EnergyInvSays, PTL DEF RollupSpec

\* As long as one worker's memory has seen every envelope and learnt of every commit, no row
\* has more energy than a power reported for the time within Gap after a report: no
\* interval is integrated twice, whatever is late, redelivered, rolled back or nak'd.
THEOREM EnergyIsCountedOnce == RollupSpec => []EnergyCountedOnce
<1> QED
  BY RInvInit, RInvStep, EnergyInvInit, EnergyInvStep, EnergyInvSays, PTL DEF RollupSpec

\* With a single worker it takes a crash to count energy again: while none has died, a redelivered
\* or replayed envelope adds none, as telemetry-model.md asks, except after a commit that was
\* answered with an error.
THEOREM OneWorkerAddsNoEnergy ==
    (\A v, w \in Workers : v = w) => (RollupSpec => [](~crashed => RedeliveryAddsNoEnergy))
<1> SUFFICES ASSUME \A v, w \in Workers : v = w
             PROVE  RollupSpec => [](~crashed => RedeliveryAddsNoEnergy)
  OBVIOUS
<1>1. EnergyCountedOnce => (~crashed => RedeliveryAddsNoEnergy)
  BY Zenon DEF EnergyCountedOnce, OneMemory, RedeliveryAddsNoEnergy
<1> QED
  BY <1>1, EnergyIsCountedOnce, PTL
==============================================================================
