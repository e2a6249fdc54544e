--------------------------- MODULE GapRepairProofs ---------------------------
(***************************************************************************)
(* Gap repair for any archive, clock, bounds and number of subscriptions.  *)
(*                                                                         *)
(* The arithmetic of planRepair first, and DrainedIsIdle.  Then the        *)
(* replay: Frames has every frame of the window, in its place, since the   *)
(* frames of a finite set are counted by the order they are sent in; and   *)
(* AcksFollow, that whatever an acknowledgement in hand or on the          *)
(* connection stands for was sent or is on the connection before it.  From *)
(* these AckedIsReplayed and RequestsCoverTheLag.                          *)
(***************************************************************************)
EXTENDS GapRepair, FiniteSetTheorems, SequenceTheorems, WellFoundedInduction, NaturalsInduction, TLAPS

\* A set of naturals that is not empty has a minimum.
LEMMA MinIs ==
    ASSUME NEW S \in SUBSET Nat, S # {}
    PROVE  Min(S) \in S /\ \A y \in S : Min(S) <= y
<1> DEFINE Less == {p \in Nat \X Nat : p[1] < p[2]}
<1>1. IsWellFoundedOn(Less, Nat)
  BY Zenon, NatLessThanWellFounded DEF OpToRel
<1>2. \A x, y \in Nat : <<y, x>> \in Less <=> y < x
  BY Zenon
<1> HIDE DEF Less
<1>3. PICK x \in S : \A y \in S : ~(<<y, x>> \in Less)
  BY Zenon, <1>1, WFMin
<1>4. \A y \in S : x <= y
  <2> SUFFICES ASSUME NEW y \in S PROVE x <= y
    BY Zenon
  <2>1. ~(y < x)
    BY Zenon, <1>2, <1>3
  <2> QED
    BY SMTT(30), <2>1
<1> QED
  BY Zenon, <1>4 DEF Min

\* A bounded one has a maximum as well.
LEMMA MaxIs ==
    ASSUME NEW S \in SUBSET Nat, S # {}, NEW bound \in Nat, \A y \in S : y <= bound
    PROVE  Max(S) \in S /\ \A y \in S : Max(S) >= y
<1> DEFINE T == {bound - y : y \in S}
<1>1. T \in SUBSET Nat /\ T # {}
  <2>1. \A y \in S : bound - y \in Nat
    OBVIOUS
  <2> QED
    BY Zenon, <2>1
<1>2. Min(T) \in T /\ \A z \in T : Min(T) <= z
  BY Zenon, <1>1, MinIs
<1>3. PICK x \in S : Min(T) = bound - x
  BY Zenon, <1>2
<1>4. \A y \in S : x >= y
  <2> SUFFICES ASSUME NEW y \in S PROVE x >= y
    BY Zenon
  <2>1. bound - x <= bound - y
    BY Zenon, <1>2, <1>3
  <2> QED
    BY <2>1
<1>5. \E z \in S : \A y \in S : z >= y
  BY Zenon, <1>4
<1> QED
  BY Zenon, <1>5 DEF Max

\* The smaller and the larger of two naturals.
LEMMA OfTwo ==
    ASSUME NEW a \in Nat, NEW b \in Nat
    PROVE  /\ Min({a, b}) \in {a, b} /\ Min({a, b}) <= a /\ Min({a, b}) <= b
           /\ Max({a, b}) \in {a, b} /\ Max({a, b}) >= a /\ Max({a, b}) >= b
<1>1. {a, b} \in SUBSET Nat /\ {a, b} # {}
  BY Zenon
<1>2. \A y \in {a, b} : y <= a + b
  OBVIOUS
<1>3. Min({a, b}) \in {a, b} /\ \A y \in {a, b} : Min({a, b}) <= y
  BY Zenon, <1>1, MinIs
<1>4. Max({a, b}) \in {a, b} /\ \A y \in {a, b} : Max({a, b}) >= y
  BY SMTT(30), <1>1, <1>2, MaxIs
<1> QED
  BY Zenon, <1>3, <1>4

\* What CoverageByProviderDevices returns: the range of the objects' time ranges.
LEMMA CoverageIs ==
    ASSUME NEW objs \in SUBSET DOMAIN Objects, objs # {}
    PROVE  /\ CoverageMin(objs) \in Nat /\ CoverageMax(objs) \in Nat
           /\ CoverageMin(objs) <= CoverageMax(objs)
           /\ \A i \in objs : CoverageMin(objs) <= Objects[i].min /\ Objects[i].max <= CoverageMax(objs)
           /\ \E i \in objs : CoverageMax(objs) = Objects[i].max
<1> DEFINE mins == {Objects[i].min : i \in objs}
           maxs == {Objects[i].max : i \in objs}
<1>1. \A i \in objs : /\ Objects[i].min \in Nat /\ Objects[i].max \in Nat
                      /\ Objects[i].min <= Objects[i].max /\ Objects[i].max <= LastTime + Skew
                      /\ LastTime + Skew \in Nat
  BY RepairAssumption
<1>2. mins \in SUBSET Nat /\ mins # {} /\ maxs \in SUBSET Nat /\ maxs # {}
  BY Zenon, <1>1
<1>3. LastTime + Skew \in Nat /\ \A y \in maxs : y <= LastTime + Skew
  BY Zenon, <1>1
<1>4. Min(mins) \in mins /\ \A y \in mins : Min(mins) <= y
  BY Zenon, <1>2, MinIs
<1>5. Max(maxs) \in maxs /\ \A y \in maxs : Max(maxs) >= y
  BY Zenon, <1>2, <1>3, MaxIs
<1>6. CoverageMin(objs) = Min(mins) /\ CoverageMax(objs) = Max(maxs)
  BY Zenon DEF CoverageMin, CoverageMax
<1>7. \A i \in objs : Min(mins) <= Objects[i].min /\ Objects[i].max <= Max(maxs)
  BY Zenon, <1>1, <1>4, <1>5
<1>8. Min(mins) \in Nat /\ Max(maxs) \in Nat /\ \E i \in objs : Max(maxs) = Objects[i].max
  BY Zenon, <1>2, <1>4, <1>5
<1> HIDE DEF mins, maxs
<1>9. Min(mins) <= Max(maxs)
  BY SMTT(30), <1>1, <1>7, <1>8
<1> QED
  BY Zenon, <1>6, <1>7, <1>8, <1>9

\* The window planRepair asks for is never empty nor longer than MaxReplayWindow, and has
\* every envelope of the objects covered that is newer than the snapshot and not newer
\* than the time t of the cycle, except those that lie further back than the longest
\* window: for any objects, also some newer than t, and any cursor, padding, threshold
\* and bound.
THEOREM PlanCoversTheLag ==
    ASSUME NEW objs \in SUBSET DOMAIN Objects, objs # {}, NEW cur \in Nat, NEW t \in Nat,
           NEW r \in PlanRepair(objs, cur, t)
    PROVE  /\ r.from < r.to /\ r.to - r.from <= MaxReplayWindow
           /\ \A i \in objs : \A x \in Times(i) :
                 x > cur /\ x <= t /\ x >= Min({CoverageMax(objs), t}) - MaxReplayWindow
                    => InWindow(x, r)
<1> DEFINE lo == CoverageMin(objs)
           hi == CoverageMax(objs)
           to == Min({hi, t})
           from == PlanFrom(objs, cur)
<1>1. /\ lo \in Nat /\ hi \in Nat
      /\ \A i \in objs : lo <= Objects[i].min /\ Objects[i].max <= hi
  BY Zenon, CoverageIs
<1>2. to \in {hi, t} /\ to \in Nat
  BY Zenon, <1>1, OfTwo
<1>3. from \in Nat /\ lo <= from /\ (from <= lo \/ from <= cur)
  <2>1. /\ WindowPadding \in Nat
        /\ (IF WindowPadding < cur THEN cur - WindowPadding ELSE 0) \in Nat
        /\ (IF WindowPadding < cur THEN cur - WindowPadding ELSE 0) <= cur
    BY RepairAssumption
  <2> DEFINE padded == IF WindowPadding < cur THEN cur - WindowPadding ELSE 0
  <2>2. from = lo \/ from = Max({padded, lo})
    BY Zenon DEF PlanFrom
  <2> HIDE DEF padded, lo, from
  <2>3. padded \in Nat /\ padded <= cur
    BY Zenon, <2>1 DEF padded
  <2>4. Max({padded, lo}) \in {padded, lo} /\ Max({padded, lo}) >= lo
    BY Zenon, <1>1, <2>3, OfTwo
  <2> QED
    BY SMTT(30), <1>1, <2>2, <2>3, <2>4
<1>4. ~(to <= from) /\ r = Clamped(from, to, objs)
  BY Zenon DEF PlanRepair
<1>5. MaxReplayWindow \in Nat /\ MaxReplayWindow > 0
  BY SMTT(30), RepairAssumption
<1>6. \A i \in objs : \A x \in Times(i) : x \in Nat /\ lo <= x /\ x <= hi
  <2> SUFFICES ASSUME NEW i \in objs, NEW x \in Times(i) PROVE x \in Nat /\ lo <= x /\ x <= hi
    BY Zenon
  <2>1. /\ Objects[i].min \in Nat /\ Objects[i].max \in Objects[i].min..(LastTime + Skew)
        /\ LastTime \in Nat /\ Skew \in Int /\ x \in Objects[i].min..Objects[i].max
    BY Zenon, RepairAssumption DEF Times
  <2> HIDE DEF lo, hi
  <2> QED
    BY SMTT(30), <1>1, <2>1
<1> HIDE DEF lo, hi, from, to
<1>7. \A i \in objs : \A x \in Times(i) : x <= t => x \in Nat /\ lo <= x /\ x <= to
  BY SMTT(30), <1>2, <1>6
<1>8. CASE to > from + MaxReplayWindow
  <2>1. to - MaxReplayWindow \in Nat
    BY SMTT(30), <1>2, <1>3, <1>5, <1>8
  <2>2. r.from = Max({to - MaxReplayWindow, lo}) /\ r.to = to
    BY Zenon, <1>4, <1>8 DEF Clamped, lo
  <2>3. r.from \in {to - MaxReplayWindow, lo} /\ r.from >= to - MaxReplayWindow /\ r.from >= lo
    BY SMTT(30), <1>1, <2>1, <2>2, OfTwo
  <2>4. r.from < r.to /\ r.to - r.from <= MaxReplayWindow
    BY SMTT(30), <1>1, <1>2, <1>3, <1>4, <1>5, <2>1, <2>2, <2>3
  <2>5. \A i \in objs : \A x \in Times(i) : x <= t /\ x >= to - MaxReplayWindow => InWindow(x, r)
    BY Zenon, <1>7, <2>2, <2>3 DEF InWindow
  <2> QED
    BY Zenon, <2>4, <2>5 DEF hi, to
<1>9. CASE ~(to > from + MaxReplayWindow)
  <2>1. r.from = from /\ r.to = to
    BY Zenon, <1>4, <1>9 DEF Clamped
  <2>2. r.from < r.to /\ r.to - r.from <= MaxReplayWindow
    BY SMTT(30), <1>2, <1>3, <1>4, <1>5, <1>9, <2>1
  <2>3. \A i \in objs : \A x \in Times(i) : x > cur /\ x <= t => InWindow(x, r)
    BY SMTT(30), <1>1, <1>3, <1>7, <2>1 DEF InWindow
  <2> QED
    BY Zenon, <2>2, <2>3
<1> QED
  BY Zenon, <1>8, <1>9

------------------------------------------------------------------------------
\* cleanupSubscription leaves WaitForIdle with a handler still counted only through
\* DrainTimeout, for any number of subscriptions and whatever stale token the tracker has.
THEOREM DrainsWaitForHandlers == RepairSpec => DrainedIsIdle
<1> DEFINE Idles == Active # {} /\ sup \in {"check", "wait"} /\ sup' = "subscribe" => faults' > faults
           Counts == faults \in Nat
<1>1. Counts /\ [RepairNext]_repairVars => [Idles]_repairVars /\ Counts'
  <2> SUFFICES ASSUME faults \in Nat, RepairNext PROVE Idles /\ faults' \in Nat
    BY Zenon DEF repairVars
  <2>1. CASE UNCHANGED sup /\ (UNCHANGED faults \/ Fails)
    BY SMTT(30), <2>1 DEF Fails
  <2>2. CASE SuperviseWorker
    BY Zenon, <2>2 DEF SuperviseWorker, Supervise, Subscribe, GiveUp, Drain, WaitForIdle
  <2>3. CASE Disturb
    BY SMTT(30), <2>3 DEF Disturb, Fails
  <2>4. CASE Replace
    BY SMTT(30), <2>4 DEF Replace, Fails
  <2>5. ASSUME NEW s \in Subs, (\E r \in queued : TakeRequest(s, r)) \/ Handle(s)
        PROVE  UNCHANGED sup /\ (UNCHANGED faults \/ Fails)
    BY Zenon, <2>5 DEF TakeRequest, Take, Handle, EnterHandler, Enter, ReplayDevices, Answer, Leaves,
       supervisorVars
  <2>6. CASE Tick \/ Forget \/ Detect \/ Transmit \/ Disconnect
    BY ZenonT(60), <2>1, <2>6 DEF Tick, Forget, Detect, BeginCycle, LoadCoverage, Evaluate, PublishGapRepair,
       Transmit,
       Disconnect, supervisorVars
  <2>7. CASE \/ \E t \in ingest : Project(t)
             \/ \E i \in DOMAIN Objects : Archive(i)
             \/ \E id \in seen : DuplicateWindowPasses(id)
             \/ \E r \in delivered : AckWaitPasses(r)
    BY Zenon, <2>1, <2>7 DEF Project, Archive, DuplicateWindowPasses, AckWaitPasses, supervisorVars
  <2> HIDE DEF Idles
  <2> QED
    BY Zenon, <2>1, <2>2, <2>3, <2>4, <2>5, <2>6, <2>7 DEF RepairNext
<1>2. RepairInit => Counts
  BY DEF RepairInit
<1> HIDE DEF Counts
<1> QED
  BY <1>1, <1>2, PTL DEF RepairSpec, DrainedIsIdle

------------------------------------------------------------------------------
(* The frames of a replay.                                                 *)

\* An object is a sequence of records.
LEMMA ObjectType ==
    ASSUME NEW i \in DOMAIN Objects
    PROVE  /\ i \in Nat /\ Objects[i].recs \in Seq(Nat)
           /\ DOMAIN Objects[i].recs = 1..Len(Objects[i].recs) /\ Len(Objects[i].recs) \in Nat
           /\ \A k \in DOMAIN Objects[i].recs : k \in Nat /\ Objects[i].recs[k] \in Nat
<1> DEFINE R == [recs : Seq(Nat), min : Nat, max : Nat]
<1>1. Objects \in Seq(R)
  BY Zenon, ObjectsAssumption
<1> HIDE DEF R
<1>2. i \in Nat /\ Objects[i] \in R
  BY SMTT(30), <1>1
<1> USE DEF R
<1>3. Objects[i].recs \in Seq(Nat)
  BY Zenon, <1>2
<1> QED
  BY SMTT(30), <1>2, <1>3

\* There are finitely many frames.
LEMMA FramesAreFinite ==
    ASSUME NEW objs \in SUBSET DOMAIN Objects, NEW r
    PROVE  IsFiniteSet(FrameSet(r, objs))
<1> DEFINE Of(i) == {i} \X DOMAIN Objects[i].recs
           all == {Of(i) : i \in DOMAIN Objects}
           fn == [i \in DOMAIN Objects |-> Of(i)]
<1>1. DOMAIN Objects = 1..Len(Objects) /\ Len(Objects) \in Nat
  BY ObjectsAssumption
<1>2. IsFiniteSet(DOMAIN Objects)
  BY SMTT(30), <1>1, FS_Interval
<1>3. fn \in Surjection(DOMAIN Objects, all)
  BY Zenon DEF Surjection
<1>4. IsFiniteSet(all)
  BY Zenon, <1>2, <1>3, FS_Surjection
<1>5. \A i \in DOMAIN Objects : IsFiniteSet(Of(i))
  <2> SUFFICES ASSUME NEW i \in DOMAIN Objects PROVE IsFiniteSet(Of(i))
    BY Zenon
  <2>1. DOMAIN Objects[i].recs = 1..Len(Objects[i].recs) /\ Len(Objects[i].recs) \in Nat
    BY Zenon, ObjectType
  <2>2. IsFiniteSet(DOMAIN Objects[i].recs)
    BY SMTT(30), <2>1, FS_Interval
  <2>3. IsFiniteSet({i})
    BY Zenon, FS_Singleton
  <2> QED
    BY Zenon, <2>2, <2>3, FS_Product
<1>6. IsFiniteSet(UNION all)
  BY ZenonT(60), <1>4, <1>5, FS_UNION
<1>7. FrameSet(r, objs) \subseteq UNION all
  BY Zenon DEF FrameSet, FramesOf
<1> QED
  BY Zenon, <1>6, <1>7, FS_Subset

\* A frame is a place in an object.
LEMMA FrameType ==
    ASSUME NEW objs \in SUBSET DOMAIN Objects, NEW r, NEW f
    PROVE  f \in FrameSet(r, objs) <=>
             \E i \in objs : \E k \in DOMAIN Objects[i].recs : f = <<i, k>> /\ InWindow(Objects[i].recs[k], r)
<1>1. f \in FramesOf(objs) <=> \E i \in objs : \E k \in DOMAIN Objects[i].recs : f = <<i, k>>
  BY DEF FramesOf
<1>2. \A i, k : f = <<i, k>> => FrameTime(f) = Objects[i].recs[k]
  BY SMTT(30) DEF FrameTime
<1> QED
  BY Zenon, <1>1, <1>2 DEF FrameSet

\* Its place in the replay is one of as many as there are frames, and its own.
LEMMA PlacesDiffer ==
    ASSUME NEW objs \in SUBSET DOMAIN Objects, NEW r
    PROVE  LET S == FrameSet(r, objs) IN
           /\ Cardinality(S) \in Nat
           /\ \A f \in S : Place(f, S) \in 1..Cardinality(S)
           /\ \A f, g \in S : Place(f, S) = Place(g, S) => f = g
<1> DEFINE S == FrameSet(r, objs)
           Lower(f) == {g \in S : Before(g, f)}
<1>1. IsFiniteSet(S) /\ Cardinality(S) \in Nat
  BY Zenon, FramesAreFinite, FS_CardinalityType
<1>2. \A f \in S : \E i, k \in Nat : f = <<i, k>>
  <2> SUFFICES ASSUME NEW f \in S PROVE \E i, k \in Nat : f = <<i, k>>
    BY Zenon
  <2>1. PICK i \in objs : \E k \in DOMAIN Objects[i].recs : f = <<i, k>>
    BY FrameType
  <2>2. PICK k \in DOMAIN Objects[i].recs : f = <<i, k>>
    BY Zenon, <2>1
  <2>3. i \in Nat /\ k \in Nat
    BY Zenon, ObjectType
  <2> QED
    BY Zenon, <2>2, <2>3
<1>3. \A f, g \in S : f = g \/ Before(f, g) \/ Before(g, f)
  BY SMTT(30), <1>2 DEF Before
<1>4. \A f, g, h \in S : Before(f, g) /\ Before(g, h) => Before(f, h)
  BY SMTT(30), <1>2 DEF Before
<1>5. \A f \in S : ~Before(f, f)
  BY SMTT(30), <1>2 DEF Before
<1> HIDE DEF S
<1>6. \A f : IsFiniteSet(Lower(f)) /\ Cardinality(Lower(f)) \in Nat
  BY Zenon, <1>1, FS_Subset, FS_CardinalityType
<1>7. \A f : Place(f, S) = Cardinality(Lower(f)) + 1
  BY Zenon DEF Place
<1> HIDE DEF Lower
<1>8. ASSUME NEW f \in S, NEW T, IsFiniteSet(T), f \in T, f \notin Lower(f), Lower(f) \subseteq T
      PROVE  Cardinality(T) \in Nat /\ Cardinality(Lower(f)) < Cardinality(T)
  <2>1. Cardinality(T) \in Nat
    BY Zenon, <1>8, FS_CardinalityType
  <2>2. Cardinality(Lower(f)) <= Cardinality(T) /\ (Cardinality(T) = Cardinality(Lower(f)) => T = Lower(f))
    BY Zenon, <1>8, FS_Subset
  <2>3. Cardinality(T) # Cardinality(Lower(f))
    BY Zenon, <1>8, <2>2
  <2> QED
    BY SMTT(30), <1>6, <2>1, <2>2, <2>3
<1>9. ASSUME NEW f \in S PROVE Place(f, S) \in 1..Cardinality(S)
  <2>1. f \notin Lower(f) /\ Lower(f) \subseteq S
    BY Zenon, <1>5 DEF Lower
  <2>2. Cardinality(Lower(f)) < Cardinality(S)
    BY Zenon, <1>1, <1>8, <2>1
  <2> QED
    BY SMTT(30), <1>1, <1>6, <1>7, <2>2
<1>10. ASSUME NEW f \in S, NEW g \in S, Before(f, g) PROVE Place(f, S) < Place(g, S)
  <2>1. f \notin Lower(f) /\ f \in Lower(g) /\ Lower(f) \subseteq Lower(g)
    BY Zenon, <1>4, <1>5, <1>10 DEF Lower
  <2>2. Cardinality(Lower(f)) < Cardinality(Lower(g))
    BY Zenon, <1>6, <1>8, <2>1
  <2> QED
    BY SMTT(30), <1>6, <1>7, <2>2
<1>11. ASSUME NEW f \in S, NEW g \in S, Place(f, S) = Place(g, S) PROVE f = g
  <2>1. Place(f, S) \in Nat
    BY SMTT(30), <1>6, <1>7
  <2>2. ~(Place(f, S) < Place(g, S)) /\ ~(Place(g, S) < Place(f, S))
    BY SMTT(30), <1>11, <2>1
  <2> QED
    BY Zenon, <1>3, <1>10, <2>2
<1> QED
  BY Zenon, <1>1, <1>9, <1>11 DEF S

\* ReplayDevices publishes frames of the request only, and leaves none out.
LEMMA FramesAreAll ==
    ASSUME NEW objs \in SUBSET DOMAIN Objects, NEW r
    PROVE  LET frames == Frames(r, objs) IN
           /\ Len(frames) \in Nat /\ DOMAIN frames = 1..Len(frames)
           /\ \A n \in 1..Len(frames) : frames[n] \in FrameSet(r, objs)
           /\ \A f \in FrameSet(r, objs) : \E n \in 1..Len(frames) : frames[n] = f
<1> DEFINE S == FrameSet(r, objs)
           N == Cardinality(S)
           place == [f \in S |-> Place(f, S)]
           frames == [n \in 1..N |-> CHOOSE f \in S : Place(f, S) = n]
<1>0. Frames(r, objs) = frames
  BY Zenon DEF Frames
<1>1. /\ N \in Nat
      /\ \A f \in S : Place(f, S) \in 1..N
      /\ \A f, g \in S : Place(f, S) = Place(g, S) => f = g
  BY Zenon, PlacesDiffer
<1> HIDE DEF S
<1>2. place \in Injection(S, 1..N)
  BY Zenon, <1>1 DEF Injection, IsInjective
<1>3. IsFiniteSet(1..N) /\ Cardinality(1..N) = N
  BY SMTT(30), <1>1, FS_Interval
<1>4. place \in Surjection(S, 1..N)
  BY Zenon, <1>2, <1>3, FS_Injection
<1>5. \A n \in 1..N : \E f \in S : Place(f, S) = n
  BY ZenonT(60), <1>4 DEF Surjection
<1>6. \A n \in 1..N : frames[n] \in S /\ Place(frames[n], S) = n
  BY Zenon, <1>5
<1>7. \A f \in S : frames[Place(f, S)] = f
  BY Zenon, <1>1, <1>6
<1>8. Len(frames) = N /\ DOMAIN frames = 1..N
  BY <1>1
<1> HIDE DEF frames
<1> QED
  BY ZenonT(60), <1>0, <1>1, <1>6, <1>7, <1>8 DEF S

------------------------------------------------------------------------------
(* What detector, worker and connection hold.                              *)

Windows == [from : Nat, to : Nat]
Answers == [kind : {"ack", "nak"}, req : Windows, objs : SUBSET DOMAIN Objects,
            whole : BOOLEAN]
Messages == [kind : {"frame"}, time : Nat] \cup Answers
Jobs == {NoJob} \cup [step : {"replay", "ack", "nak"}, req : Windows, objs : SUBSET DOMAIN Objects,
                      whole : BOOLEAN]

\* The detector never evaluates an empty coverage.
DetectorOK ==
    \/ detector = Resting
    \/ detector \in [step : {"load"}, at : Nat]
    \/ /\ detector \in [step : {"evaluate"}, at : Nat, objs : SUBSET DOMAIN Objects]
       /\ detector.objs # {}
    \/ detector \in [step : {"publish"}, req : Windows]

RepairTypes ==
    /\ now \in Nat /\ cursor \in Nat /\ ingest \subseteq Nat
    /\ archived \subseteq DOMAIN Objects
    /\ DetectorOK
    /\ queued \subseteq Windows /\ delivered \subseteq Windows
    /\ wire \in Seq(Messages)
    /\ job \in [Subs -> Jobs]

\* The frames of a request that were archived when it was replayed have been sent, or are
\* among the first n messages of the connection.
Published(t, done, w, n) == t \in done \/ \E k \in 1..n : w[k].kind = "frame" /\ w[k].time = t
Replayed(r, objs, done, w, n) ==
    \A i \in objs : \A t \in Times(i) : InWindow(t, r) => Published(t, done, w, n)

\* An ack is on the connection behind the frames, or about to be, unless the connection
\* was lost in between.
WholeAck(m) == m.kind = "ack" /\ m.whole
ToAck(j) == j.step = "ack" /\ j.whole
AcksFollowIn(w, done, jobs) ==
    /\ \A n \in DOMAIN w : WholeAck(w[n]) => Replayed(w[n].req, w[n].objs, done, w, n - 1)
    /\ \A s \in Subs : ToAck(jobs[s]) =>
          Replayed(jobs[s].req, jobs[s].objs, done, w, Len(w))
AcksFollow == AcksFollowIn(wire, sent, job)

\* The inductive invariant.
RepairInv == RepairTypes /\ AcksFollow

\* The times of an object's records.
LEMMA TimesAre ==
    ASSUME NEW i \in DOMAIN Objects
    PROVE  /\ Times(i) \subseteq Nat /\ Objects[i].max \in Nat
           /\ \A t \in Times(i) : \E k \in DOMAIN Objects[i].recs : t = Objects[i].recs[k]
<1>1. Times(i) = {Objects[i].recs[k] : k \in DOMAIN Objects[i].recs}
  BY Zenon DEF Times, Range
<1>2. Objects[i].max \in Nat
  BY SMTT(30), RepairAssumption
<1> QED
  BY Zenon, <1>1, <1>2, ObjectType

\* The window of a request has natural bounds.
LEMMA PlanType ==
    ASSUME NEW objs \in SUBSET DOMAIN Objects, objs # {}, NEW cur \in Nat, NEW t \in Nat
    PROVE  PlanRepair(objs, cur, t) \subseteq Windows
<1> SUFFICES ASSUME NEW r \in PlanRepair(objs, cur, t) PROVE r \in Windows
  BY Zenon
<1> DEFINE lo == CoverageMin(objs)
           hi == CoverageMax(objs)
           from == PlanFrom(objs, cur)
           padded == IF WindowPadding < cur THEN cur - WindowPadding ELSE 0
<1>1. lo \in Nat /\ hi \in Nat
  BY Zenon, CoverageIs
<1>2. Min({hi, t}) \in Nat
  BY Zenon, <1>1, OfTwo
<1>3. padded \in Nat
  BY SMTT(30), RepairAssumption
<1>4. from = lo \/ from = Max({padded, lo})
  BY Zenon DEF PlanFrom
<1> HIDE DEF padded, lo, hi, from
<1>5. from \in Nat
  BY ZenonT(60), <1>1, <1>3, <1>4, OfTwo
<1>6. r = Clamped(from, Min({hi, t}), objs)
  BY Zenon DEF PlanRepair, hi, from
<1>7. MaxReplayWindow \in Nat
  BY Zenon, RepairAssumption
<1>8. CASE Min({hi, t}) > from + MaxReplayWindow
  <2>1. Min({hi, t}) - MaxReplayWindow \in Nat
    BY SMTT(30), <1>2, <1>5, <1>7, <1>8
  <2>2. Max({Min({hi, t}) - MaxReplayWindow, lo}) \in Nat
    BY ZenonT(60), <1>1, <2>1, OfTwo
  <2> QED
    BY Zenon, <1>2, <1>6, <1>8, <2>2 DEF Clamped, Windows, lo
<1>9. CASE ~(Min({hi, t}) > from + MaxReplayWindow)
  BY ZenonT(60), <1>2, <1>5, <1>6, <1>9 DEF Clamped, Windows
<1> QED
  BY Zenon, <1>8, <1>9

\* Nothing is on its way in the beginning.
LEMMA RepairInvInit == RepairInit => RepairInv
<1> SUFFICES ASSUME RepairInit PROVE RepairInv
  BY Zenon
<1>1. now \in Nat /\ cursor \in Nat /\ ingest \subseteq Nat /\ archived = {}
  BY RepairAssumption DEF RepairInit
<1>2. wire = << >> /\ wire \in Seq(Messages) /\ Len(wire) = 0 /\ DOMAIN wire = {}
  BY DEF RepairInit
<1>3. job \in [Subs -> Jobs] /\ \A s \in Subs : job[s].step = "none"
  BY Zenon DEF RepairInit, Jobs, NoJob
<1>4. queued = {} /\ delivered = {} /\ DetectorOK
  BY Zenon DEF RepairInit, DetectorOK
<1> QED
  BY Zenon, <1>1, <1>2, <1>3, <1>4 DEF RepairInv, RepairTypes, AcksFollow, AcksFollowIn,
     ToAck

------------------------------------------------------------------------------
(* The connection: what is on it stays in order and is not overtaken.      *)

\* Messages keep their places when more are added behind them, and with them what is
\* published before each.
AddedTo(v, w, more, done) ==
    /\ v \in Seq(Messages) /\ Len(v) = Len(w) + Len(more) /\ Len(w) \in Nat /\ Len(more) \in Nat
    /\ \A n \in 1..Len(more) : v[Len(w) + n] = more[n]
    /\ \A r, objs : Replayed(r, objs, done, w, Len(w)) =>
          Replayed(r, objs, done, v, Len(w)) /\ Replayed(r, objs, done, v, Len(v))
    /\ \A n \in 1..Len(w) : WholeAck(v[n]) => Replayed(v[n].req, v[n].objs, done, v, n - 1)

\* A connection keeps what it has when the handlers write to it.
LEMMA AddedBehind ==
    ASSUME NEW w \in Seq(Messages), NEW more \in Seq(Messages), NEW done, NEW jobs,
           AcksFollowIn(w, done, jobs), NEW v, v = w \o more
    PROVE  AddedTo(v, w, more, done)
<1>1. /\ v \in Seq(Messages) /\ Len(v) = Len(w) + Len(more) /\ Len(w) \in Nat /\ Len(more) \in Nat
      /\ \A n \in 1..Len(w) : v[n] = w[n]
      /\ \A n \in 1..Len(more) : v[Len(w) + n] = more[n]
  <2> HIDE DEF Messages
  <2>1. v \in Seq(Messages) /\ Len(v) = Len(w) + Len(more) /\ Len(w) \in Nat /\ Len(more) \in Nat
    OBVIOUS
  <2>2. \A n \in 1..Len(w) : v[n] = w[n]
    OBVIOUS
  <2>3. \A n \in 1..Len(more) : v[Len(w) + n] = more[n]
    OBVIOUS
  <2> QED
    BY Zenon, <2>1, <2>2, <2>3
<1>2. \A n \in 0..Len(w) : \A t : Published(t, done, w, n) => Published(t, done, v, n)
  <2>1. \A n \in 0..Len(w) : \A k \in 1..n : v[k] = w[k]
    BY SMTT(30), <1>1
  <2> QED
    BY Zenon, <2>1 DEF Published
<1>3. \A t : Published(t, done, v, Len(w)) => Published(t, done, v, Len(v))
  <2>1. \A k \in 1..Len(w) : k \in 1..Len(v)
    BY SMTT(30), <1>1
  <2> QED
    BY Zenon, <2>1 DEF Published
<1>4. \A r, objs : Replayed(r, objs, done, w, Len(w)) =>
         Replayed(r, objs, done, v, Len(w)) /\ Replayed(r, objs, done, v, Len(v))
  BY SMTT(30), <1>1, <1>2, <1>3 DEF Replayed
<1>5. ASSUME NEW n \in 1..Len(w), WholeAck(v[n])
      PROVE  Replayed(v[n].req, v[n].objs, done, v, n - 1)
  <2>1. n \in DOMAIN w /\ v[n] = w[n] /\ n - 1 \in 0..Len(w)
    BY SMTT(30), <1>1
  <2>2. Replayed(w[n].req, w[n].objs, done, w, n - 1)
    BY Zenon, <1>5, <2>1 DEF AcksFollowIn
  <2> QED
    BY Zenon, <1>2, <2>1, <2>2 DEF Replayed
<1> QED
  BY ZenonT(60), <1>1, <1>4, <1>5 DEF AddedTo

\* The frames of a replay: none but frames, and with the last of them none is missing.
Replaying(more, k, frames, r, objs) ==
    /\ more \in Seq(Messages) /\ Len(more) = k
    /\ \A n \in 1..k : more[n].kind = "frame"
    /\ k = Len(frames) =>
          \A i \in objs : \A t \in Times(i) : InWindow(t, r) => \E n \in 1..k : more[n].time = t

\* FrameMsgs are the frames of a replay, whichever objects it found.
LEMMA ReplayedFrames ==
    ASSUME NEW objs \in SUBSET DOMAIN Objects, NEW r, NEW frames, frames = Frames(r, objs),
           NEW k \in 0..Len(frames), NEW more, more = FrameMsgs(frames, k)
    PROVE  Replaying(more, k, frames, r, objs)
<1> DEFINE Msg(n) == [kind |-> "frame", time |-> FrameTime(frames[n])]
<1>1. /\ Len(frames) \in Nat
      /\ \A n \in 1..Len(frames) : frames[n] \in FrameSet(r, objs)
      /\ \A f \in FrameSet(r, objs) : \E n \in 1..Len(frames) : frames[n] = f
  BY ZenonT(60), FramesAreAll
<1>2. ASSUME NEW n \in 1..Len(frames) PROVE FrameTime(frames[n]) \in Nat
  <2>1. frames[n] \in FrameSet(r, objs)
    BY Zenon, <1>1
  <2>2. PICK i \in objs : \E j \in DOMAIN Objects[i].recs : frames[n] = <<i, j>>
    BY SMTT(30), <2>1, FrameType
  <2>3. PICK j \in DOMAIN Objects[i].recs : frames[n] = <<i, j>>
    BY Zenon, <2>2
  <2>4. i \in DOMAIN Objects /\ FrameTime(frames[n]) = Objects[i].recs[j]
    BY SMTT(30), <2>3 DEF FrameTime
  <2> QED
    BY Zenon, <2>4, ObjectType
<1>3. k \in Nat /\ k <= Len(frames)
  BY SMTT(30), <1>1
<1>4. \A n \in 1..k : Msg(n) \in Messages /\ Msg(n).kind = "frame" /\ Msg(n).time = FrameTime(frames[n])
  BY SMTT(30), <1>1, <1>2, <1>3 DEF Messages
<1>5. more = [n \in 1..k |-> Msg(n)]
  BY Zenon DEF FrameMsgs
<1> HIDE DEF Msg, Messages
<1>6. more \in [1..k -> Messages] /\ \A n \in 1..k : more[n] = Msg(n)
  BY Zenon, <1>4, <1>5
<1>7. more \in Seq(Messages) /\ Len(more) = k
  BY SMTT(30), <1>3, <1>6
<1>8. ASSUME k = Len(frames), NEW i \in objs, NEW t \in Times(i), InWindow(t, r)
      PROVE  \E n \in 1..k : more[n].time = t
  <2>1. PICK j \in DOMAIN Objects[i].recs : t = Objects[i].recs[j]
    BY Zenon, TimesAre
  <2>2. <<i, j>> \in FrameSet(r, objs)
    BY Zenon, <1>8, <2>1, FrameType
  <2>3. PICK n \in 1..Len(frames) : frames[n] = <<i, j>>
    BY ZenonT(60), <1>1, <2>2
  <2>4. FrameTime(frames[n]) = t
    BY SMTT(30), <2>1, <2>3 DEF FrameTime
  <2>5. n \in 1..k
    BY ZenonT(60), <1>8, <2>3
  <2> QED
    BY ZenonT(60), <1>4, <1>6, <2>4, <2>5
<1> QED
  BY Zenon, <1>4, <1>6, <1>7, <1>8 DEF Replaying

\* What RepairInv says of the connection and of the handlers.
Connection == wire \in Seq(Messages) /\ job \in [Subs -> Jobs] /\ AcksFollow

\* A replay adds frames; the request is to be acknowledged only if they are all of them.
LEMMA ReplayKeepsOrder ==
    ASSUME RepairInv, NEW s \in Subs, ReplayDevices(s)
    PROVE  Connection'
<1> DEFINE r == job[s].req
           frames == Frames(r, archived)
<1>1. /\ wire \in Seq(Messages) /\ job \in [Subs -> Jobs] /\ archived \subseteq DOMAIN Objects
      /\ r \in Windows /\ sent' = sent /\ AcksFollowIn(wire, sent, job)
  BY DEF RepairInv, RepairTypes, AcksFollow, ReplayDevices, Jobs, NoJob
<1>2. PICK k \in 0..Len(frames) :
        /\ wire' = wire \o FrameMsgs(frames, k)
        /\ \/ k = Len(frames) /\ SetJob(s, Job("ack", r, archived))
           \/ SetJob(s, Job("nak", r, archived))
  BY Zenon DEF ReplayDevices
<1> DEFINE more == FrameMsgs(frames, k)
<1>3. /\ more \in Seq(Messages) /\ Len(more) = k
      /\ \A n \in 1..k : more[n].kind = "frame"
      /\ k = Len(frames) =>
            \A i \in archived : \A t \in Times(i) : InWindow(t, r) => \E n \in 1..k : more[n].time = t
  <2>1. archived \in SUBSET DOMAIN Objects /\ k \in 0..Len(Frames(r, archived))
    BY Zenon, <1>1
  <2>2. Replaying(more, k, frames, r, archived)
    BY Zenon, <2>1, ReplayedFrames
  <2> QED
    BY Zenon, <2>2 DEF Replaying
<1>4. wire' = wire \o more
  BY Zenon, <1>2
<1> HIDE DEF frames, more
<1>5. /\ wire' \in Seq(Messages) /\ Len(wire') = Len(wire) + k /\ Len(wire) \in Nat /\ k \in Nat
      /\ \A n \in 1..k : wire'[Len(wire) + n] = more[n]
      /\ \A q, objs : Replayed(q, objs, sent, wire, Len(wire)) => Replayed(q, objs, sent, wire', Len(wire'))
      /\ \A n \in 1..Len(wire) : WholeAck(wire'[n]) => Replayed(wire'[n].req, wire'[n].objs, sent, wire', n - 1)
  <2>1. AddedTo(wire', wire, more, sent)
    BY ZenonT(60), <1>1, <1>3, <1>4, AddedBehind
  <2> QED
    BY Zenon, <1>3, <2>1 DEF AddedTo
<1>6. ASSUME NEW n \in DOMAIN wire', WholeAck(wire'[n])
      PROVE  Replayed(wire'[n].req, wire'[n].objs, sent, wire', n - 1)
  <2>1. n \in 1..(Len(wire) + k)
    BY SMTT(30), <1>5 DEF Messages
  <2>2. CASE n \in 1..Len(wire)
    BY ZenonT(60), <1>5, <1>6, <2>2
  <2>3. CASE n \notin 1..Len(wire)
    <3>1. n - Len(wire) \in 1..k /\ Len(wire) + (n - Len(wire)) = n
      BY SMTT(30), <1>5, <2>1, <2>3
    <3>2. wire'[n] = more[n - Len(wire)]
      BY ZenonT(60), <1>5, <3>1
    <3> QED
      BY ZenonT(60), <1>3, <1>6, <3>1, <3>2 DEF WholeAck
  <2> QED
    BY ZenonT(60), <2>2, <2>3
<1>7. /\ Job("ack", r, archived) \in Jobs /\ Job("nak", r, archived) \in Jobs
      /\ Job("ack", r, archived).req = r /\ Job("ack", r, archived).objs = archived
      /\ Job("nak", r, archived).step = "nak"
  BY Zenon, <1>1 DEF Job, Jobs
<1>8. job' \in [Subs -> Jobs]
  BY ZenonT(60), <1>1, <1>2, <1>7 DEF SetJob
<1>9. ASSUME NEW u \in Subs, ToAck(job'[u])
      PROVE  Replayed(job'[u].req, job'[u].objs, sent, wire', Len(wire'))
  <2>1. CASE u # s
    <3>1. job'[u] = job[u]
      BY ZenonT(60), <1>1, <1>2, <2>1 DEF SetJob
    <3>2. Replayed(job[u].req, job[u].objs, sent, wire, Len(wire))
      BY ZenonT(60), <1>1, <1>9, <3>1 DEF AcksFollowIn
    <3> QED
      BY Zenon, <1>5, <3>1, <3>2
  <2>2. CASE u = s
    <3>1. job'[u] = Job("ack", r, archived) /\ k = Len(frames)
      BY ZenonT(60), <1>1, <1>2, <1>7, <1>9, <2>2 DEF SetJob, ToAck
    <3>2. ASSUME NEW i \in archived, NEW t \in Times(i), InWindow(t, r)
          PROVE  Published(t, sent, wire', Len(wire'))
      <4>1. PICK n \in 1..k : more[n].time = t
        BY ZenonT(60), <1>3, <3>1, <3>2
      <4>2. Len(wire) + n \in 1..Len(wire') /\ wire'[Len(wire) + n].kind = "frame" /\ wire'[Len(wire) + n].time = t
        BY SMTT(30), <1>3, <1>5, <4>1
      <4> QED
        BY Zenon, <4>2 DEF Published
    <3> QED
      BY ZenonT(60), <1>7, <3>1, <3>2 DEF Replayed
  <2> QED
    BY Zenon, <2>1, <2>2
<1> QED
  BY ZenonT(60), <1>1, <1>5, <1>6, <1>8, <1>9 DEF Connection, AcksFollow, AcksFollowIn

\* The answer goes behind the frames.
LEMMA AnswerKeepsOrder ==
    ASSUME RepairInv, NEW s \in Subs, Answer(s)
    PROVE  Connection'
<1> DEFINE m == [kind |-> job[s].step, req |-> job[s].req, objs |-> job[s].objs, whole |-> job[s].whole]
<1>1. /\ wire \in Seq(Messages) /\ job \in [Subs -> Jobs] /\ sent' = sent /\ AcksFollowIn(wire, sent, job)
      /\ wire' = Append(wire, m) /\ job' = [job EXCEPT ![s] = NoJob]
  BY ZenonT(60) DEF RepairInv, RepairTypes, AcksFollow, Answer, SetJob
<1>2. m \in Messages
  BY SMTT(30), <1>1 DEF Answer, Jobs, NoJob, Messages, Answers
<1> HIDE DEF Messages, m
<1> DEFINE more == <<m>>
<1>3. more \in Seq(Messages) /\ Len(more) = 1 /\ more[1] = m /\ wire' = wire \o more
  BY SMTT(30), <1>1, <1>2
<1> HIDE DEF more
<1>4. /\ wire' \in Seq(Messages) /\ Len(wire') = Len(wire) + Len(more) /\ Len(wire) \in Nat
      /\ \A n \in 1..Len(more) : wire'[Len(wire) + n] = more[n]
      /\ \A q, objs : Replayed(q, objs, sent, wire, Len(wire)) =>
            Replayed(q, objs, sent, wire', Len(wire)) /\ Replayed(q, objs, sent, wire', Len(wire'))
      /\ \A n \in 1..Len(wire) : WholeAck(wire'[n]) => Replayed(wire'[n].req, wire'[n].objs, sent, wire', n - 1)
  <2>1. AddedTo(wire', wire, more, sent)
    BY ZenonT(60), <1>1, <1>3, AddedBehind
  <2> QED
    BY ZenonT(60), <1>3, <2>1 DEF AddedTo
<1>5. Len(wire') = Len(wire) + 1 /\ wire'[Len(wire) + 1] = m
  BY SMTT(30), <1>3, <1>4
<1>6. ASSUME NEW n \in DOMAIN wire', WholeAck(wire'[n])
      PROVE  Replayed(wire'[n].req, wire'[n].objs, sent, wire', n - 1)
  <2>1. n \in 1..(Len(wire) + 1)
    BY SMTT(30), <1>4, <1>5
  <2>2. CASE n \in 1..Len(wire)
    BY ZenonT(60), <1>4, <1>6, <2>2
  <2>3. CASE n = Len(wire) + 1
    <3>1. wire'[n] = m /\ n - 1 = Len(wire)
      BY SMTT(30), <1>4, <1>5, <2>3
    <3>2. m.req = job[s].req /\ m.objs = job[s].objs /\ m.kind = job[s].step
          /\ m.whole = job[s].whole
      BY ZenonT(60) DEF m
    <3>3. Replayed(job[s].req, job[s].objs, sent, wire, Len(wire))
      BY ZenonT(60), <1>1, <1>6, <3>1, <3>2 DEF AcksFollowIn, WholeAck, ToAck
    <3> QED
      BY ZenonT(60), <1>4, <3>1, <3>2, <3>3
  <2> QED
    BY SMTT(30), <1>4, <2>1, <2>2, <2>3
<1>7. job' \in [Subs -> Jobs]
  BY Zenon, <1>1 DEF Jobs
<1>8. ASSUME NEW u \in Subs, ToAck(job'[u])
      PROVE  Replayed(job'[u].req, job'[u].objs, sent, wire', Len(wire'))
  <2>1. job'[u] = job[u]
    BY ZenonT(60), <1>1, <1>8 DEF NoJob, ToAck
  <2>2. Replayed(job[u].req, job[u].objs, sent, wire, Len(wire))
    BY ZenonT(60), <1>1, <1>8, <2>1 DEF AcksFollowIn
  <2> QED
    BY ZenonT(60), <1>4, <2>1, <2>2
<1> QED
  BY ZenonT(60), <1>1, <1>4, <1>6, <1>7, <1>8 DEF Connection, AcksFollow, AcksFollowIn

\* What was sent first is not needed on the connection any more.
LEMMA SentFirst ==
    ASSUME NEW w \in Seq(Messages), w # << >>, NEW done, NEW done1, NEW jobs,
           AcksFollowIn(w, done, jobs), done \subseteq done1,
           Head(w).kind = "frame" => Head(w).time \in done1
    PROVE  Tail(w) \in Seq(Messages) /\ AcksFollowIn(Tail(w), done1, jobs)
<1> DEFINE v == Tail(w)
<1>1. /\ v \in Seq(Messages) /\ Len(v) = Len(w) - 1 /\ Len(w) \in Nat \ {0}
      /\ \A n \in 1..Len(v) : v[n] = w[n + 1]
      /\ Head(w) = w[1] /\ DOMAIN v = 1..Len(v) /\ DOMAIN w = 1..Len(w)
  <2> HIDE DEF Messages
  <2> QED
    BY SMTT(30)
<1> HIDE DEF v
<1>2. ASSUME NEW n \in 1..Len(w), NEW t, Published(t, done, w, n) PROVE Published(t, done1, v, n - 1)
  <2>1. CASE t \in done
    BY Zenon, <2>1 DEF Published
  <2>2. CASE t \notin done
    <3>1. PICK k \in 1..n : w[k].kind = "frame" /\ w[k].time = t
      BY ZenonT(60), <1>2, <2>2 DEF Published
    <3>2. CASE k = 1
      BY ZenonT(60), <1>1, <3>1, <3>2 DEF Published
    <3>3. CASE k # 1
      <4>1. k - 1 \in 1..(n - 1) /\ v[k - 1] = w[k]
        BY SMTT(30), <1>1, <3>3
      <4> QED
        BY Zenon, <3>1, <4>1 DEF Published
    <3> QED
      BY Zenon, <3>2, <3>3
  <2> QED
    BY Zenon, <2>1, <2>2
<1>3. \A n \in 1..Len(w) : \A r, objs : Replayed(r, objs, done, w, n) => Replayed(r, objs, done1, v, n - 1)
  BY Zenon, <1>2 DEF Replayed
<1>4. ASSUME NEW n \in DOMAIN v, WholeAck(v[n]) PROVE Replayed(v[n].req, v[n].objs, done1, v, n - 1)
  <2>1. n + 1 \in DOMAIN w /\ v[n] = w[n + 1] /\ (n + 1) - 1 = n /\ n \in 1..Len(w)
    BY SMTT(30), <1>1
  <2>2. Replayed(w[n + 1].req, w[n + 1].objs, done, w, n)
    BY Zenon, <1>4, <2>1 DEF AcksFollowIn
  <2> QED
    BY ZenonT(60), <1>3, <2>1, <2>2
<1>5. ASSUME NEW s \in Subs, ToAck(jobs[s]) PROVE Replayed(jobs[s].req, jobs[s].objs, done1, v, Len(v))
  <2>1. Replayed(jobs[s].req, jobs[s].objs, done, w, Len(w)) /\ Len(w) \in 1..Len(w) /\ Len(v) = Len(w) - 1
    BY SMTT(30), <1>1, <1>5 DEF AcksFollowIn
  <2> QED
    BY ZenonT(60), <1>3, <2>1
<1> QED
  BY Zenon, <1>1, <1>4, <1>5 DEF AcksFollowIn, v

\* A connection with no ack on it but torn ones, and no handler about to write another.
LEMMA NoWholeAck ==
    ASSUME wire' \in Seq(Messages), job' \in [Subs -> Jobs],
           \A n \in DOMAIN wire' : ~WholeAck(wire'[n]), \A s \in Subs : ~ToAck(job'[s])
    PROVE  Connection'
BY ZenonT(60) DEF Connection, AcksFollow, AcksFollowIn

\* The connection's own steps.
LEMMA TransmitKeepsOrder ==
    ASSUME RepairInv, Transmit
    PROVE  Connection'
<1>1. /\ wire \in Seq(Messages) /\ wire # << >> /\ job' = job /\ job \in [Subs -> Jobs]
      /\ AcksFollowIn(wire, sent, job) /\ wire' = Tail(wire)
  BY ZenonT(60) DEF RepairInv, RepairTypes, AcksFollow, Transmit
<1>2. CASE sent \subseteq sent' /\ (Head(wire).kind = "frame" => Head(wire).time \in sent')
  <2>1. wire' \in Seq(Messages) /\ AcksFollowIn(wire', sent', job)
    BY ZenonT(60), <1>1, <1>2, SentFirst
  <2> QED
    BY ZenonT(60), <1>1, <2>1 DEF Connection, AcksFollow
<1>3. CASE wire' = << >> /\ \A s \in Subs : job[s] = NoJob
  <2>1. wire' \in Seq(Messages) /\ DOMAIN wire' = {}
    BY SMTT(30), <1>3
  <2>2. ~ToAck(NoJob)
    BY Zenon DEF ToAck, NoJob
  <2>3. \A s \in Subs : ~ToAck(job'[s])
    BY Zenon, <1>1, <1>3, <2>2
  <2> QED
    BY ZenonT(60), <1>1, <2>1, <2>3, NoWholeAck
<1>4. \/ Head(wire).kind = "frame" /\ sent' = sent \cup {Head(wire).time}
      \/ Head(wire).kind # "frame" /\ sent' = SentSince(sent, wire')
  BY ZenonT(60) DEF Transmit
<1>5. SentSince(sent, wire') = sent \/ (wire' = << >> /\ \A s \in Subs : job[s] = NoJob)
  BY Zenon DEF SentSince
<1> QED
  BY ZenonT(60), <1>2, <1>3, <1>4, <1>5

\* A lost connection leaves torn acks only.
LEMMA DisconnectKeepsOrder ==
    ASSUME RepairInv, Disconnect
    PROVE  Connection'
<1>1. wire \in Seq(Messages) /\ job \in [Subs -> Jobs]
  BY Zenon DEF RepairInv, RepairTypes
<1>2. PICK k \in 1..Len(wire) : wire' = [n \in 1..(Len(wire) - k) |-> Torn(wire[n + k])]
  BY Zenon DEF Disconnect
<1>3. ASSUME NEW m \in Messages PROVE Torn(m) \in Messages /\ ~WholeAck(Torn(m))
  <2>1. CASE m \in [kind : {"frame"}, time : Nat]
    BY Zenon, <2>1 DEF Torn, WholeAck
  <2>2. CASE m \in Answers
    <3> DEFINE m1 == [m EXCEPT !.whole = FALSE]
    <3>1. m.kind # "frame" /\ m1 \in Answers
      BY Zenon, <2>2 DEF Answers
    <3>2. m1.whole = FALSE
      BY Zenon, <2>2 DEF Answers
    <3>3. Torn(m) = m1
      BY Zenon, <3>1 DEF Torn
    <3> QED
      BY Zenon, <3>1, <3>2, <3>3 DEF Messages, WholeAck
  <2> QED
    BY Zenon, <2>1, <2>2 DEF Messages
<1>4. /\ Len(wire) - k \in Nat
      /\ \A n \in 1..(Len(wire) - k) : wire[n + k] \in Messages
  <2> HIDE DEF Messages
  <2> QED
    BY SMTT(30), <1>1
<1>5. /\ wire' \in [1..(Len(wire) - k) -> Messages] /\ DOMAIN wire' = 1..(Len(wire) - k)
      /\ \A n \in DOMAIN wire' : ~WholeAck(wire'[n])
  BY ZenonT(60), <1>2, <1>3, <1>4
<1>6. wire' \in Seq(Messages)
  <2> HIDE DEF Messages
  <2> QED
    BY SMTT(30), <1>4, <1>5
<1>7. /\ DOMAIN job' = Subs
      /\ \A s \in Subs : job'[s] = IF job[s].step \in {"ack", "nak"} THEN [job[s] EXCEPT !.whole = FALSE] ELSE job[s]
      /\ job' = [s \in Subs |-> job'[s]]
  BY ZenonT(60) DEF Disconnect
<1>8. ASSUME NEW j \in Jobs, j.step \in {"ack", "nak"}
      PROVE  [j EXCEPT !.whole = FALSE] \in Jobs /\ ~ToAck([j EXCEPT !.whole = FALSE])
  <2> DEFINE All == [step : {"replay", "ack", "nak"}, req : Windows, objs : SUBSET DOMAIN Objects,
                     whole : BOOLEAN]
             j1 == [j EXCEPT !.whole = FALSE]
  <2>1. j # NoJob
    BY SMTT(30), <1>8 DEF NoJob
  <2>2. j \in All
    BY Zenon, <2>1 DEF Jobs
  <2>3. j1 \in All
    BY Zenon, <2>2
  <2>4. j1.whole = FALSE
    BY Zenon, <2>2
  <2> QED
    BY Zenon, <2>3, <2>4 DEF Jobs, ToAck
<1>9. ASSUME NEW s \in Subs PROVE job'[s] \in Jobs /\ ~ToAck(job'[s])
  <2>1. job[s] \in Jobs
    BY Zenon, <1>1
  <2>2. CASE job[s].step \in {"ack", "nak"}
    BY ZenonT(60), <1>7, <1>8, <2>1, <2>2
  <2>3. CASE job[s].step \notin {"ack", "nak"}
    BY ZenonT(60), <1>7, <2>1, <2>3 DEF ToAck
  <2> QED
    BY Zenon, <2>2, <2>3
<1>10. job' \in [Subs -> Jobs]
  BY ZenonT(60), <1>7, <1>9
<1> QED
  BY ZenonT(60), <1>5, <1>6, <1>9, <1>10, NoWholeAck

\* A new process begins with an empty connection and no handler.
LEMMA ReplaceKeepsOrder ==
    ASSUME RepairInv, Replace
    PROVE  Connection'
<1>1. wire' = << >> /\ job' = [s \in Subs |-> NoJob]
  BY Zenon DEF Replace
<1>2. wire' \in Seq(Messages) /\ DOMAIN wire' = {} /\ job' \in [Subs -> Jobs] /\ \A s \in Subs : job'[s].step = "none"
  BY SMTT(30), <1>1 DEF Jobs, NoJob
<1> QED
  BY Zenon, <1>2, NoWholeAck DEF ToAck

\* A request that is taken is not yet to be acknowledged.
LEMMA TakeKeepsOrder ==
    ASSUME RepairInv, NEW s \in Subs, NEW r \in queued, TakeRequest(s, r)
    PROVE  Connection'
<1>1. /\ wire \in Seq(Messages) /\ job \in [Subs -> Jobs] /\ r \in Windows
      /\ AcksFollowIn(wire, sent, job) /\ UNCHANGED <<wire, sent>>
      /\ job' = [job EXCEPT ![s] = Job("replay", r, {})]
  BY ZenonT(60) DEF RepairInv, RepairTypes, AcksFollow, TakeRequest, SetJob
<1>2. Job("replay", r, {}) \in Jobs /\ Job("replay", r, {}).step = "replay"
  BY Zenon, <1>1 DEF Job, Jobs
<1>3. job' \in [Subs -> Jobs] /\ \A u \in Subs : ToAck(job'[u]) => job'[u] = job[u]
  BY ZenonT(60), <1>1, <1>2 DEF ToAck
<1> QED
  BY ZenonT(60), <1>1, <1>3 DEF Connection, AcksFollow, AcksFollowIn

\* Steps that leave connection and handlers alone.
LEMMA ConnectionFrame ==
    ASSUME RepairInv, UNCHANGED <<wire, sent, job>>
    PROVE  Connection'
BY Zenon DEF RepairInv, RepairTypes, Connection, AcksFollow

------------------------------------------------------------------------------
(* The rest of the invariant.                                              *)

World ==
    /\ now \in Nat /\ cursor \in Nat /\ ingest \subseteq Nat
    /\ archived \subseteq DOMAIN Objects
    /\ DetectorOK
Queue == queued \subseteq Windows /\ delivered \subseteq Windows

\* The three parts are RepairInv.
LEMMA RepairInvIs == /\ RepairInv <=> World /\ Queue /\ Connection
                     /\ RepairInv' <=> World' /\ Queue' /\ Connection'
BY Zenon DEF RepairInv, RepairTypes, World, Queue, Connection

\* The clock, the projection and the archive.
LEMMA WorldSteps ==
    ASSUME World
    PROVE  /\ UNCHANGED <<worldVars, detector>> => World'
           /\ Tick \/ Forget => World'
           /\ \A t \in ingest : Project(t) => World'
           /\ \A i \in DOMAIN Objects : Archive(i) => World'
<1>1. UNCHANGED <<worldVars, detector>> => World'
  BY Zenon DEF World, worldVars, DetectorOK
<1>2. \A i \in DOMAIN Objects : Times(i) \subseteq Nat /\ Objects[i].max \in Nat
  BY Zenon, TimesAre
<1>3. ASSUME Tick PROVE World'
  <2>1. now \in Nat /\ now' = now + 1 /\ now' \in Nat
    BY SMTT(30), <1>3 DEF Tick, World
  <2>2. ingest' \subseteq ingest \cup UNION {Times(i) : i \in DOMAIN Objects} /\ UNCHANGED <<cursor, archived, detector>>
    BY ZenonT(60), <1>3 DEF Tick
  <2>3. ingest' \subseteq Nat
    BY ZenonT(60), <1>2, <2>2 DEF World
  <2> QED
    BY ZenonT(60), <2>1, <2>2, <2>3 DEF World, DetectorOK
<1>4. ASSUME Forget PROVE World'
  BY ZenonT(60), <1>4 DEF Forget, World, DetectorOK
<1>5. ASSUME NEW t \in ingest, Project(t) PROVE World'
  <2>1. cursor \in Nat /\ t \in Nat
    BY Zenon DEF World
  <2>2. Max({cursor, t}) \in Nat
    BY ZenonT(60), <2>1, OfTwo
  <2> QED
    BY ZenonT(60), <1>5, <2>1, <2>2 DEF Project, World, DetectorOK
<1>6. ASSUME NEW i \in DOMAIN Objects, Archive(i) PROVE World'
  BY Zenon, <1>6 DEF Archive, World, DetectorOK
<1> QED
  BY ZenonT(60), <1>1, <1>3, <1>4, <1>5, <1>6

\* The detector evaluates objects that are archived, and asks for a proper window.
LEMMA DetectSteps ==
    ASSUME World, Queue, Detect
    PROVE  World' /\ Queue'
<1>0. CASE BeginCycle
  <2>1. detector' \in [step : {"load"}, at : Nat] /\ UNCHANGED <<worldVars, queueVars>>
    BY ZenonT(60), <1>0 DEF BeginCycle, World
  <2> QED
    BY ZenonT(60), <2>1 DEF World, Queue, worldVars, queueVars, DetectorOK
<1>1. CASE LoadCoverage
  <2> DEFINE objs == Covered(archived, detector.at)
  <2>1. objs \subseteq archived
    BY ZenonT(60) DEF Covered
  <2>2. archived \subseteq DOMAIN Objects /\ UNCHANGED <<now, cursor, ingest, archived>>
    BY Zenon, <1>1 DEF LoadCoverage, World, worldVars
  <2>3. detector.at \in Nat
    BY SMTT(30), <1>1 DEF LoadCoverage, World, DetectorOK, Resting
  <2>4. \/ detector' = Resting
        \/ objs # {} /\ detector' = [step |-> "evaluate", at |-> detector.at, objs |-> objs]
    BY ZenonT(60), <1>1 DEF LoadCoverage
  <2> HIDE DEF objs
  <2>5. DetectorOK'
    BY SMTT(30), <2>1, <2>2, <2>3, <2>4 DEF DetectorOK
  <2> QED
    BY Zenon, <1>1, <2>5 DEF LoadCoverage, World, Queue, worldVars, queueVars
<1>2. CASE Evaluate
  <2>1. /\ detector.objs \in SUBSET DOMAIN Objects /\ detector.objs # {}
        /\ cursor \in Nat /\ detector.at \in Nat
    BY SMTT(30), <1>2 DEF Evaluate, World, DetectorOK, Resting
  <2>2. PlanRepair(detector.objs, cursor, detector.at) \subseteq Windows
    BY ZenonT(60), <2>1, PlanType
  <2>3. detector' = Resting \/ \E r \in Windows : detector' = [step |-> "publish", req |-> r]
    BY ZenonT(60), <1>2, <2>2 DEF Evaluate
  <2>4. DetectorOK'
    BY SMTT(30), <2>3 DEF DetectorOK
  <2> QED
    BY ZenonT(60), <1>2, <2>4 DEF Evaluate, World, Queue, worldVars, queueVars
<1>3. CASE PublishGapRepair
  <2>1. detector.req \in Windows
    BY SMTT(30), <1>3 DEF PublishGapRepair, World, DetectorOK, Resting
  <2>2. Queue'
    BY ZenonT(60), <1>3, <2>1 DEF PublishGapRepair, Queue
  <2>3. DetectorOK'
    BY ZenonT(60), <1>3 DEF PublishGapRepair, DetectorOK
  <2> QED
    BY ZenonT(60), <1>3, <2>2, <2>3 DEF PublishGapRepair, World, worldVars
<1> QED
  BY ZenonT(60), <1>0, <1>1, <1>2, <1>3 DEF Detect

\* What arrives over the connection.
LEMMA TransmitTypes ==
    ASSUME World, Queue, wire \in Seq(Messages), Transmit
    PROVE  World' /\ Queue'
<1>1. wire # << >> /\ Head(wire) \in Messages
  <2> HIDE DEF Messages
  <2> QED
    BY SMTT(30) DEF Transmit
<1>2. ingest' \subseteq Nat
  BY ZenonT(60), <1>1 DEF Transmit, World, Messages, Answers
<1>3. UNCHANGED <<now, cursor, archived, detector>>
  BY ZenonT(60) DEF Transmit
<1>4. Queue'
  BY Zenon DEF Transmit, Queue
<1> QED
  BY ZenonT(60), <1>2, <1>3, <1>4 DEF World, DetectorOK

\* The invariant is inductive.
LEMMA RepairInvStep == RepairInv /\ [RepairNext]_repairVars => RepairInv'
<1> SUFFICES ASSUME RepairInv, [RepairNext]_repairVars PROVE RepairInv'
  BY Zenon
<1>0. World /\ Queue /\ Connection /\ wire \in Seq(Messages)
  BY Zenon, RepairInvIs DEF Connection
<1>1. /\ UNCHANGED <<worldVars, detector>> => World'
      /\ UNCHANGED <<queued, delivered>> => Queue'
      /\ UNCHANGED <<wire, sent, job>> => Connection'
  BY ZenonT(60), <1>0, WorldSteps, ConnectionFrame DEF Queue
<1>2. CASE Tick \/ Forget
  <2>1. World'
    BY ZenonT(60), <1>0, <1>2, WorldSteps
  <2> QED
    BY ZenonT(60), <1>1, <1>2, <2>1, RepairInvIs DEF Tick, Forget, queueVars
<1>3. CASE Detect
  <2>1. World' /\ Queue'
    BY Zenon, <1>0, <1>3, DetectSteps
  <2>2. UNCHANGED <<wire, sent, job>>
    BY ZenonT(60), <1>3 DEF Detect, BeginCycle, LoadCoverage, Evaluate, PublishGapRepair
  <2> QED
    BY ZenonT(60), <1>1, <2>1, <2>2, RepairInvIs
<1>4. CASE Transmit
  BY ZenonT(60), <1>0, <1>4, TransmitTypes, TransmitKeepsOrder, RepairInvIs
<1>5. CASE SuperviseWorker \/ Disturb
  <2>1. Queue'
    BY Zenon, <1>0, <1>5 DEF SuperviseWorker, Disturb, Requeue, Queue
  <2>2. UNCHANGED <<worldVars, detector>> /\ UNCHANGED <<wire, sent, job>>
    BY ZenonT(60), <1>5 DEF SuperviseWorker, Disturb
  <2> QED
    BY ZenonT(60), <1>1, <2>1, <2>2, RepairInvIs
<1>6. CASE Disconnect
  BY ZenonT(60), <1>1, <1>6, DisconnectKeepsOrder, RepairInvIs DEF Disconnect, queueVars
<1>7. CASE Replace
  BY ZenonT(60), <1>1, <1>7, ReplaceKeepsOrder, RepairInvIs DEF Replace, queueVars
<1>8. ASSUME NEW t \in ingest, Project(t) PROVE RepairInv'
  <2>1. World'
    BY ZenonT(60), <1>0, <1>8, WorldSteps
  <2> QED
    BY ZenonT(60), <1>1, <1>8, <2>1, RepairInvIs DEF Project, queueVars
<1>9. ASSUME NEW i \in DOMAIN Objects, Archive(i) PROVE RepairInv'
  <2>1. World'
    BY ZenonT(60), <1>0, <1>9, WorldSteps
  <2> QED
    BY ZenonT(60), <1>1, <1>9, <2>1, RepairInvIs DEF Archive, queueVars
<1>10. ASSUME NEW id \in seen, DuplicateWindowPasses(id) PROVE RepairInv'
  BY ZenonT(60), <1>1, <1>10, RepairInvIs DEF DuplicateWindowPasses
<1>11. ASSUME NEW r \in delivered, AckWaitPasses(r) PROVE RepairInv'
  <2>1. Queue'
    BY ZenonT(60), <1>0, <1>11 DEF AckWaitPasses, Queue
  <2> QED
    BY ZenonT(60), <1>1, <1>11, <2>1, RepairInvIs DEF AckWaitPasses
<1>12. ASSUME NEW s \in Subs, NEW r \in queued, TakeRequest(s, r) PROVE RepairInv'
  <2>1. Queue'
    BY Zenon, <1>0, <1>12 DEF TakeRequest, Queue
  <2>2. Connection'
    BY ZenonT(60), <1>12, TakeKeepsOrder
  <2> QED
    BY ZenonT(60), <1>1, <1>12, <2>1, <2>2, RepairInvIs DEF TakeRequest
<1>13. ASSUME NEW s \in Subs, Handle(s) PROVE RepairInv'
  <2>1. UNCHANGED <<worldVars, detector>> /\ UNCHANGED <<queued, delivered>>
    BY ZenonT(60), <1>13 DEF Handle, EnterHandler, ReplayDevices, Answer, queueVars
  <2>2. Connection'
    <3>1. CASE EnterHandler(s)
      BY ZenonT(60), <1>1, <3>1 DEF EnterHandler
    <3> QED
      BY ZenonT(60), <1>13, <3>1, ReplayKeepsOrder, AnswerKeepsOrder DEF Handle
  <2> QED
    BY ZenonT(60), <1>1, <2>1, <2>2, RepairInvIs
<1>14. CASE UNCHANGED repairVars
  BY Zenon, <1>1, <1>14, RepairInvIs DEF repairVars, queueVars
<1> QED
  BY ZenonT(60), <1>2, <1>3, <1>4, <1>5, <1>6, <1>7, <1>8, <1>9, <1>10, <1>11, <1>12, <1>13, <1>14 DEF RepairNext

\* The detector asks for windows of a length within the bound that have every envelope
\* the snapshot lacks, up to the time the cycle began and as far back as the longest
\* window reaches: in every run, with any archive, clocks, padding, threshold and bounds.
THEOREM RequestsCover == RepairSpec => RequestsCoverTheLag
<1> DEFINE Covers ==
        detector.step = "evaluate" /\ detector'.step = "publish" =>
         LET r == detector'.req
             newest == Min({CoverageMax(detector.objs), detector.at})
         IN
         /\ r.from < r.to /\ r.to - r.from <= MaxReplayWindow
         /\ \A i \in detector.objs : \A t \in Times(i) :
               t > cursor /\ t <= detector.at /\ t >= newest - MaxReplayWindow
                  => r.from <= t /\ t <= r.to
<1>1. RepairInv /\ [RepairNext]_repairVars => [Covers]_repairVars
  <2> SUFFICES ASSUME RepairInv, RepairNext, detector.step = "evaluate", detector'.step = "publish"
               PROVE  Covers
    BY Zenon DEF repairVars
  <2>0. detector' # detector
    BY ZenonT(60)
  <2>1. Evaluate
    <3>1. Detect
      BY ZenonT(60), <2>0 DEF RepairNext, Tick, Forget, Transmit, SuperviseWorker, Disturb, Disconnect, Replace,
         Project, Archive, DuplicateWindowPasses, AckWaitPasses, TakeRequest, Handle, EnterHandler,
         ReplayDevices, Answer
    <3> QED
      BY SMTT(30), <3>1 DEF Detect, BeginCycle, LoadCoverage, PublishGapRepair, Resting
  <2>2. /\ detector.objs \in SUBSET DOMAIN Objects /\ detector.objs # {}
        /\ cursor \in Nat /\ detector.at \in Nat
    BY SMTT(30) DEF RepairInv, RepairTypes, DetectorOK, Resting
  <2>3. PICK r \in PlanRepair(detector.objs, cursor, detector.at) : detector' = [step |-> "publish", req |-> r]
    BY SMTT(30), <2>1 DEF Evaluate, Resting
  <2>4. detector'.req = r
    BY Zenon, <2>3
  <2>5. /\ r.from < r.to /\ r.to - r.from <= MaxReplayWindow
        /\ \A i \in detector.objs : \A x \in Times(i) :
              x > cursor /\ x <= detector.at
                 /\ x >= Min({CoverageMax(detector.objs), detector.at}) - MaxReplayWindow => InWindow(x, r)
    BY ZenonT(60), <2>2, PlanCoversTheLag
  <2> QED
    BY ZenonT(60), <2>4, <2>5 DEF InWindow
<1> QED
  BY <1>1, RepairInvInit, RepairInvStep, PTL DEF RepairSpec, RequestsCoverTheLag

\* A request leaves the queue only after every envelope archived in its window has reached
\* ingest, unless the connection was lost between the replay and the ack: with any number
\* of subscriptions and objects, replays that fail half-way, connections lost before,
\* replaced workers and redelivered requests.
THEOREM AcksAreEarned == RepairSpec => AckedIsReplayed
<1> DEFINE Earned ==
        \A r \in Requests \ Requests' :
         Head(wire).whole =>
            \A i \in Head(wire).objs : \A t \in Times(i) :
               r.from <= t /\ t <= r.to => t \in sent
<1>1. RepairInv /\ [RepairNext]_repairVars => [Earned]_repairVars
  <2> SUFFICES ASSUME RepairInv, RepairNext, NEW r \in Requests, r \notin Requests', Head(wire).whole
               PROVE  \A i \in Head(wire).objs : \A t \in Times(i) : InWindow(t, r) => t \in sent
    BY Zenon DEF repairVars, InWindow
  <2>1. Transmit
    <3>1. ~(UNCHANGED <<queued, delivered>>)
      BY Zenon DEF Requests
    <3>2. ~(SuperviseWorker \/ Disturb)
      BY Zenon DEF SuperviseWorker, Disturb, Requeue, Requests
    <3>3. \A q \in delivered : ~AckWaitPasses(q)
      BY Zenon DEF AckWaitPasses, Requests
    <3>4. \A s \in Subs : \A q \in queued : ~TakeRequest(s, q)
      BY Zenon DEF TakeRequest, Requests
    <3>5. ~PublishGapRepair
      BY ZenonT(60) DEF PublishGapRepair, Requests
    <3>6. ~Detect
      BY ZenonT(60), <3>1, <3>5 DEF Detect, BeginCycle, LoadCoverage, Evaluate, queueVars
    <3>7. ~(Tick \/ Forget \/ Disconnect \/ Replace)
      BY Zenon, <3>1 DEF Tick, Forget, Disconnect, Replace, queueVars
    <3>8. (\A t \in ingest : ~Project(t)) /\ (\A i \in DOMAIN Objects : ~Archive(i))
          /\ (\A id \in seen : ~DuplicateWindowPasses(id)) /\ (\A s \in Subs : ~Handle(s))
      BY ZenonT(60), <3>1 DEF Project, Archive, DuplicateWindowPasses, Handle, EnterHandler, ReplayDevices, Answer, queueVars
    <3> QED
      BY ZenonT(60), <3>2, <3>3, <3>4, <3>6, <3>7, <3>8 DEF RepairNext
  <2>2. Head(wire).kind = "ack" /\ Head(wire).req = r
    BY ZenonT(60), <2>1 DEF Transmit, Requests
  <2>3. wire \in Seq(Messages) /\ wire # << >>
    BY ZenonT(60), <2>1 DEF Transmit, RepairInv, RepairTypes
  <2>4. 1 \in DOMAIN wire /\ Head(wire) = wire[1] /\ 1 - 1 = 0
    BY SMTT(30), <2>3 DEF Messages
  <2>5. Replayed(r, Head(wire).objs, sent, wire, 0)
    BY Zenon, <2>2, <2>4 DEF RepairInv, AcksFollow, AcksFollowIn, WholeAck
  <2>6. \A t : Published(t, sent, wire, 0) => t \in sent
    BY DEF Published
  <2> QED
    BY ZenonT(60), <2>5, <2>6 DEF Replayed
<1> QED
  BY <1>1, RepairInvInit, RepairInvStep, PTL DEF RepairSpec, AckedIsReplayed

==============================================================================
