------------------------- MODULE EdgeCollectorProofs -------------------------
(***************************************************************************)
(* The safety of the edge collector for any records, size and age of the   *)
(* outbox, and any number of failures, crashes and restarts.               *)
(*                                                                         *)
(* SecretStaysValid and QueuedIsKept come first.  SizeInv then relates the *)
(* bytes counted in memory to the files on disk, over what an enqueue, a   *)
(* removal and a prune do to the size of a directory.  FlushOK says who    *)
(* may be inside a flush.  EdgeInv is the invariant of it all.             *)
(***************************************************************************)
EXTENDS EdgeCollector, FiniteSetTheorems, SequenceTheorems, TLAPS

\* Once the Pi has a secret its collector is enrolled and has no setup token left.
Enrolled == secret \in Nat /\ (mine # 0 => active /\ secret = mine /\ token = "none")

\* A file is at least as young as the last enqueue of its entry, only damaged files are
\* corrupt, and whoever is about to remove the file it read has had it acknowledged.
Kept(e) ==
  /\ disk[e] \in Int /\ disk[e] <= now /\ queued[e] \in Int /\ queued[e] <= now
  /\ disk[e] # Absent /\ queued[e] # Absent => queued[e] <= disk[e]
  /\ queued[e] # Absent =>
        disk[e] # Absent \/ e \in acked \cup damaged \/ now > queued[e] + MaxAge

EInv ==
  /\ now \in Nat
  /\ DOMAIN disk = Ids /\ DOMAIN queued = Ids /\ disk = [e \in Ids |-> disk[e]]
  /\ at = [p \in Procs |-> at[p]] /\ body = [p \in Procs |-> body[p]]
  /\ corrupt \subseteq damaged
  /\ \A e \in Ids : Kept(e)
  /\ \A p \in Procs : at[p] = "remove" /\ body[p][2] => body[p][1] \in acked

\* The owner, the enrollment and the uploads keep the secret.
LEMMA EnrolledStep == Enrolled /\ [Next]_vars => Enrolled'
<1> SUFFICES ASSUME Enrolled, [Next]_vars PROVE Enrolled'
  BY Zenon
<1>1. CASE Owner
  BY <1>1 DEF Owner, Enrolled, CreateCollector, RevokeCollectorSetupToken, SetupTokenExpires,
     ApproveDeviceSource, accountVars
<1>2. CASE Enroll
  BY <1>2 DEF Enroll, Enrolled, EnrollCollector, Enrollable
<1>3. CASE UNCHANGED <<mine, accountVars>>
  BY ZenonT(60), <1>3 DEF Enrolled, accountVars
<1>4. CASE Tick \/ Process \/ ProbeRuns \/ Signal \/ UnitStarts \/ Crash \/ UNCHANGED vars
           \/ \E e \in Ids : Corrupts(e)
  BY Zenon, <1>3, <1>4 DEF Tick, Process, Start, Started, StartProbe, Stopped, ProbeRuns, Signal, UnitStarts, Crash,
     Dies, Corrupts, procRest, outboxRest, vars, serverVars, accountVars
<1>5. ASSUME NEW p \in Procs, Send(p) PROVE Enrolled'
  BY ZenonT(60), <1>3, <1>5 DEF Send, UploadDiscovery, UploadTelemetry, serverVars, accountVars
<1>6. ASSUME NEW p \in Procs, Remove(p) \/ \E e \in Ids : Read(p, e) PROVE Enrolled'
  BY Zenon, <1>3, <1>6 DEF Remove, Read, outboxRest, serverVars, accountVars
<1>7. ASSUME TailReads \/ TailStops \/ Heartbeat \/ List \/ FlushEnds
             \/ \E e \in Ids : Enqueue(e) PROVE Enrolled'
  BY ZenonT(60), <1>3, <1>7 DEF TailReads, TailStops, Heartbeat, List, FlushEnds, Enqueue, procRest, outboxRest,
     serverVars, accountVars
<1> QED
  BY ZenonT(60), <1>1, <1>2, <1>4, <1>5, <1>6, <1>7 DEF Next, TailStep, HeartStep, Procs

\* The secret the Pi was given stays the one the platform knows.
THEOREM SecretsStayValid == Spec => []SecretStaysValid
<1>1. Init => Enrolled
  BY DEF Init, ServerInit, Enrolled
<1>2. Enrolled => SecretStaysValid
  BY ZenonT(60) DEF Enrolled, SecretStaysValid, Authenticated
<1> QED
  BY <1>1, <1>2, EnrolledStep, PTL DEF Spec

-----------------------------------------------------------------------------
\* The outbox starts empty.
LEMMA EInvInit == Init => EInv
<1> SUFFICES ASSUME Init PROVE EInv
  BY ZenonT(60)
<1>1. /\ now = 0 /\ DOMAIN disk = Ids /\ DOMAIN queued = Ids /\ disk = [e \in Ids |-> disk[e]]
      /\ \A e \in Ids : disk[e] = -1 /\ queued[e] = -1
  BY ZenonT(60) DEF Init, Absent
<1>2. \A e \in Ids : Kept(e)
  BY <1>1 DEF Kept, Absent
<1>3. at = [p \in Procs |-> at[p]] /\ body = [p \in Procs |-> body[p]] /\ corrupt = {}
      /\ \A p \in Procs : at[p] = "idle"
  BY Zenon DEF Init
<1> QED
  BY ZenonT(60), <1>1, <1>2, <1>3 DEF EInv

\* Steps that leave the directory and its histories alone; nobody gets to "remove".
LEMMA EFrame ==
  ASSUME EInv, UNCHANGED <<disk, corrupt, histVars>>, now' \in Nat, now <= now',
         at' = [p \in Procs |-> at'[p]], body' = [p \in Procs |-> body'[p]],
         \A p \in Procs : at'[p] = "remove" => at[p] = "remove" /\ body'[p] = body[p]
  PROVE  EInv'
<1>1. \A e \in Ids : Kept(e)'
  <2> SUFFICES ASSUME NEW e \in Ids PROVE Kept(e)'
    BY Zenon
  <2>1. Kept(e) /\ MaxAge \in Nat /\ now \in Nat
    BY Zenon, EdgeAssumption DEF EInv
  <2> QED
    BY <2>1 DEF Kept, histVars, Absent
<1> QED
  BY ZenonT(60), <1>1 DEF EInv, histVars

\* d is what is left of the directory when expired and damaged files are removed.
Thinned(d) ==
  /\ d = [e \in Ids |-> d[e]]
  /\ \A e \in Ids : \/ d[e] = disk[e]
                    \/ d[e] = Absent /\ (disk[e] < now - MaxAge \/ e \in corrupt)

\* Pruning once or twice only removes expired and damaged files.
LEMMA PrunedIsThinned == \A d : Thinned(d) => Thinned(Pruned(d))
<1> SUFFICES ASSUME NEW d, Thinned(d) PROVE Thinned(Pruned(d))
  BY ZenonT(60)
<1> DEFINE D == Pruned(d)
<1>1. D = [e \in Ids |-> D[e]]
  BY ZenonT(60) DEF Pruned
<1>2. \A e \in Ids : D[e] = IF d[e] < now - MaxAge \/ e \in corrupt THEN Absent ELSE d[e]
  BY ZenonT(60) DEF Pruned
<1> HIDE DEF D
<1> QED
  BY ZenonT(60), <1>1, <1>2 DEF Thinned, D

\* A removed file was older than MaxAge, damaged, or acknowledged, and stays accounted for.
LEMMA KeptRemoved ==
  ASSUME EInv, NEW e \in Ids, disk'[e] = disk[e] \/ disk'[e] = Absent,
         disk'[e] = Absent =>
            disk[e] = Absent \/ disk[e] < now - MaxAge \/ e \in corrupt \/ e \in acked,
         queued'[e] = queued[e], UNCHANGED <<damaged, now>>, e \in acked => e \in acked'
  PROVE  Kept(e)'
<1>1. Kept(e) /\ MaxAge \in Nat /\ now \in Nat /\ (e \in corrupt => e \in damaged)
  BY ZenonT(60), EdgeAssumption DEF EInv
<1>2. CASE disk'[e] = disk[e]
  BY ZenonT(60), <1>1, <1>2 DEF Kept
<1>3. CASE disk'[e] = Absent /\ disk[e] # Absent
  <2>1. queued[e] # Absent => e \in acked \cup damaged \/ now > queued[e] + MaxAge
    BY <1>1, <1>3 DEF Kept
  <2> QED
    BY <1>1, <1>3, <2>1 DEF Kept, Absent
<1> QED
  BY ZenonT(60), <1>2, <1>3

\* An enqueue writes the entry's file, or loses the entry; either way only expired and
\* damaged files go.
LEMMA EnqueueStep == ASSUME EInv, NEW e \in Ids, Enqueue(e) PROVE EInv'
<1>0. UNCHANGED <<now, damaged>>
  BY Zenon DEF Enqueue, outboxRest
<1>1. Thinned(disk) /\ Thinned(Pruned(disk)) /\ Thinned(Pruned(Pruned(disk)))
  BY ZenonT(60), PrunedIsThinned DEF Thinned, EInv
<1>2. PICK d : /\ Thinned(d) /\ corrupt' \subseteq corrupt
               /\ \/ /\ disk' = [d EXCEPT ![e] = now]
                     /\ queued' = [queued EXCEPT ![e] = now] /\ acked' = acked \ {e}
                     /\ To("tail", "lock") /\ body' = [Replaced(e) EXCEPT !["tail"] = <<e, FALSE>>]
                  \/ /\ disk' = [d EXCEPT ![e] = now] /\ body' = Replaced(e)
                     /\ UNCHANGED <<queued, acked, at>>
                  \/ disk' = d /\ UNCHANGED <<queued, acked, at, body>>
  <2> DEFINE due  == ~loaded \/ now >= nextPrune
             d1   == IF due THEN Pruned(disk) ELSE disk
             u1   == IF due THEN Size(d1) ELSE used
             full == u1 + 1 - Bytes(d1, e) > MaxBytes
             d2   == IF full THEN Pruned(d1) ELSE d1
  <2>1. Thinned(d2)
    BY ZenonT(60), <1>1
  <2>2. /\ corrupt' \subseteq corrupt
        /\ \/ /\ disk' = [d2 EXCEPT ![e] = now]
              /\ queued' = [queued EXCEPT ![e] = now] /\ acked' = acked \ {e}
              /\ To("tail", "lock") /\ body' = [Replaced(e) EXCEPT !["tail"] = <<e, FALSE>>]
           \/ /\ disk' = [d2 EXCEPT ![e] = now] /\ body' = Replaced(e)
              /\ UNCHANGED <<queued, acked, at>>
           \/ disk' = d2 /\ UNCHANGED <<queued, acked, at, body>>
    BY Zenon DEF Enqueue
  <2> HIDE DEF d2
  <2> QED
    BY Zenon, <2>1, <2>2
<1>3. DOMAIN disk' = Ids /\ disk' = [f \in Ids |-> disk'[f]] /\ DOMAIN queued' = Ids
  BY Zenon, <1>2 DEF Thinned, EInv
<1>4. at' = [p \in Procs |-> at'[p]] /\ body' = [p \in Procs |-> body'[p]]
  BY Zenon, <1>2 DEF To, Replaced, EInv
<1>5. \A p \in Procs : at'[p] = "remove" /\ body'[p][2] => body'[p][1] \in acked'
  <2> SUFFICES ASSUME NEW p \in Procs, at'[p] = "remove", body'[p][2] PROVE body'[p][1] \in acked'
    BY ZenonT(60)
  <2>1. \A q \in Procs : Replaced(e)[q] = IF body[q][1] = e THEN <<e, FALSE>> ELSE body[q]
    BY DEF Replaced
  <2>2. body'[p] # <<e, FALSE>>
    BY Zenon, <<e, FALSE>>[2] = FALSE
  <2>3. CASE /\ acked' = acked \ {e} /\ To("tail", "lock")
             /\ body' = [Replaced(e) EXCEPT !["tail"] = <<e, FALSE>>]
    <3>1. p # "tail" /\ at[p] = "remove"
      BY ZenonT(60), <2>3 DEF To, EInv, Procs
    <3>2. body'[p] = Replaced(e)[p]
      BY Zenon, <2>3, <3>1 DEF Replaced
    <3>3. body'[p] = body[p] /\ body[p][1] # e
      BY Zenon, <2>1, <2>2, <3>2
    <3> QED
      BY <2>3, <3>1, <3>3 DEF EInv
  <2>4. CASE body' = Replaced(e) /\ UNCHANGED <<acked, at>>
    <3>1. body'[p] = body[p]
      BY Zenon, <2>1, <2>4, <2>2
    <3> QED
      BY ZenonT(60), <2>4, <3>1 DEF EInv
  <2>5. CASE UNCHANGED <<acked, at, body>>
    BY ZenonT(60), <2>5 DEF EInv
  <2> QED
    BY Zenon, <1>2, <2>3, <2>4, <2>5
<1>6. \A f \in Ids : Kept(f)'
  <2> SUFFICES ASSUME NEW f \in Ids PROVE Kept(f)'
    OBVIOUS
  <2>1. CASE f # e \/ (disk' = d /\ UNCHANGED <<queued, acked>>)
    <3>1. disk'[f] = d[f] /\ queued'[f] = queued[f] /\ (f \in acked => f \in acked')
      BY Zenon, <1>2, <2>1 DEF Thinned, EInv
    <3>2. \/ disk'[f] = disk[f]
          \/ disk'[f] = Absent /\ (disk[f] < now - MaxAge \/ f \in corrupt)
      BY ZenonT(60), <1>2, <3>1 DEF Thinned
    <3> QED
      BY ZenonT(60), <1>0, <3>1, <3>2, KeptRemoved
  <2>2. CASE f = e /\ disk' = [d EXCEPT ![e] = now]
    <3>1. disk'[f] = now /\ (queued'[f] = queued[f] \/ queued'[f] = now)
      BY Zenon, <1>2, <2>2 DEF Thinned, EInv
    <3>2. Kept(f) /\ now \in Nat
      BY ZenonT(60) DEF EInv
    <3> QED
      BY <1>0, <3>1, <3>2 DEF Kept, Absent
  <2> QED
    BY Zenon, <1>2, <2>1, <2>2
<1> QED
  BY ZenonT(60), <1>0, <1>2, <1>3, <1>4, <1>5, <1>6 DEF EInv

\* The flush lists the files after pruning.
LEMMA ListStep == ASSUME EInv, List PROVE EInv'
<1>1. /\ disk' = Pruned(disk) /\ corrupt' = {} /\ To("heart", "next")
      /\ UNCHANGED <<now, body, queued, acked, damaged>>
  BY ZenonT(60) DEF List, outboxRest, histVars
<1>2. Thinned(Pruned(disk))
  BY ZenonT(60), PrunedIsThinned DEF Thinned, EInv
<1>3. DOMAIN disk' = Ids /\ disk' = [f \in Ids |-> disk'[f]]
  BY ZenonT(60), <1>1, <1>2 DEF Thinned
<1>4. \A f \in Ids : Kept(f)'
  BY ZenonT(60), <1>1, <1>2, KeptRemoved DEF Thinned
<1>5. at' = [p \in Procs |-> at'[p]] /\ \A p \in Procs : at'[p] = "remove" => at[p] = "remove"
  BY Zenon, <1>1 DEF To, EInv
<1> QED
  BY ZenonT(60), <1>1, <1>3, <1>4, <1>5 DEF EInv

\* A flush goes to the next path, sends, or gives up.
LEMMA ReadStep == ASSUME EInv, NEW p \in Procs, NEW e \in Ids, Read(p, e) PROVE EInv'
<1>1. /\ UNCHANGED <<now, queued, acked, damaged>>
      /\ \E x : at' = [at EXCEPT ![p] = x] /\ x # "remove"
      /\ \E y : body' = [body EXCEPT ![p] = y]
      /\ corrupt' \subseteq corrupt
      /\ disk' = disk \/ (e \in corrupt /\ disk' = [disk EXCEPT ![e] = Absent])
  BY Zenon DEF Read, Done, Unlock, To, Removed, outboxRest, outboxVars, histVars
<1>2. at' = [q \in Procs |-> at'[q]] /\ body' = [q \in Procs |-> body'[q]]
      /\ \A q \in Procs : at'[q] = "remove" => at[q] = "remove" /\ body'[q] = body[q]
  BY Zenon, <1>1 DEF EInv
<1>3. DOMAIN disk' = Ids /\ disk' = [f \in Ids |-> disk'[f]]
  BY ZenonT(60), <1>1 DEF EInv
<1>4. \A f \in Ids : Kept(f)'
  <2> SUFFICES ASSUME NEW f \in Ids PROVE Kept(f)'
    BY ZenonT(60)
  <2>1. disk'[f] = disk[f] \/ (disk'[f] = Absent /\ f \in corrupt)
    BY ZenonT(60), <1>1 DEF EInv
  <2> QED
    BY ZenonT(60), <1>1, <2>1, KeptRemoved
<1> QED
  BY ZenonT(60), <1>1, <1>2, <1>3, <1>4 DEF EInv

\* An entry that is sent and acknowledged may be removed.
LEMMA SendStep == ASSUME EInv, NEW p \in Procs, Send(p) PROVE EInv'
<1>1. /\ UNCHANGED <<now, disk, corrupt, queued, damaged>>
      /\ \/ /\ acked' = acked \cup {body[p][1]} /\ at' = [at EXCEPT ![p] = "remove"] /\ body' = body
         \/ /\ acked' = acked /\ at' = [at EXCEPT ![p] = "idle"]
            /\ body' = [body EXCEPT ![p] = <<None, FALSE>>]
  BY Zenon DEF Send, SendFails, Unlock, To, outboxVars
<1>2. at' = [q \in Procs |-> at'[q]] /\ body' = [q \in Procs |-> body'[q]] /\ acked \subseteq acked'
  BY Zenon, <1>1 DEF EInv
<1>3. \A q \in Procs : at'[q] = "remove" /\ body'[q][2] => body'[q][1] \in acked'
  BY ZenonT(60), <1>1 DEF EInv
<1>4. \A f \in Ids : Kept(f)'
  BY Zenon, <1>1, <1>2, KeptRemoved
<1> QED
  BY ZenonT(60), <1>1, <1>2, <1>3, <1>4 DEF EInv

\* The file that was read and acknowledged is removed, one that replaced it is not.
LEMMA RemoveStep == ASSUME EInv, NEW p \in Procs, Remove(p) PROVE EInv'
<1> DEFINE e == body[p][1]
<1>1. /\ UNCHANGED <<now, queued, acked, damaged, corrupt>> /\ at[p] = "remove"
      /\ \E x : at' = [at EXCEPT ![p] = x] /\ x # "remove"
      /\ body' = [body EXCEPT ![p] = <<None, FALSE>>]
      /\ disk' = disk \/ (body[p][2] /\ disk' = [disk EXCEPT ![e] = Absent])
  BY DEF Remove, Done, Unlock, To, Removed, StillSent, outboxRest, histVars
<1>2. at' = [q \in Procs |-> at'[q]] /\ body' = [q \in Procs |-> body'[q]]
      /\ \A q \in Procs : at'[q] = "remove" => at[q] = "remove" /\ body'[q] = body[q]
  BY ZenonT(60), <1>1 DEF EInv
<1>3. DOMAIN disk' = Ids /\ disk' = [f \in Ids |-> disk'[f]]
  BY ZenonT(60), <1>1 DEF EInv
<1>4. \A f \in Ids : Kept(f)'
  <2> SUFFICES ASSUME NEW f \in Ids PROVE Kept(f)'
    BY ZenonT(60)
  <2>1. disk'[f] = disk[f] \/ (disk'[f] = Absent /\ f \in acked)
    BY <1>1 DEF EInv
  <2> QED
    BY Zenon, <1>1, <2>1, KeptRemoved
<1> QED
  BY Zenon, <1>1, <1>2, <1>3, <1>4 DEF EInv

\* A damaged file is one that may be lost.
LEMMA CorruptsStep == ASSUME EInv, NEW e \in Ids, Corrupts(e) PROVE EInv'
<1>1. /\ corrupt' = corrupt \cup {e} /\ damaged' = damaged \cup {e}
      /\ UNCHANGED <<now, at, body, disk, queued, acked>>
  BY ZenonT(60) DEF Corrupts, outboxRest
<1>2. \A f \in Ids : Kept(f)'
  BY ZenonT(60), <1>1 DEF Kept, EInv
<1> QED
  BY <1>1, <1>2 DEF EInv

\* Every step keeps the invariant.
LEMMA EInvStep == EInv /\ [Next]_vars => EInv'
<1> SUFFICES ASSUME EInv, [Next]_vars PROVE EInv'
  BY ZenonT(60)
<1>1. ASSUME UNCHANGED <<disk, corrupt, histVars, now>>,
             \/ UNCHANGED <<at, body>>
             \/ \E p, x : x # "remove" /\ at' = [at EXCEPT ![p] = x] /\ UNCHANGED body
             \/ at' = [p \in Procs |-> "idle"] /\ body' = [p \in Procs |-> <<None, FALSE>>]
      PROVE EInv'
  <2>1. /\ at' = [p \in Procs |-> at'[p]] /\ body' = [p \in Procs |-> body'[p]]
        /\ \A p \in Procs : at'[p] = "remove" => at[p] = "remove" /\ body'[p] = body[p]
    BY Zenon, <1>1 DEF EInv
  <2> QED
    BY <1>1, <2>1, EFrame DEF EInv
<1>2. CASE Tick
  <2>1. now' \in Nat /\ now <= now' /\ UNCHANGED <<disk, corrupt, histVars, at, body>>
    BY <1>2 DEF Tick, EInv, procVars, outboxVars
  <2> QED
    BY <2>1, EFrame DEF EInv
<1>3. CASE UNCHANGED vars \/ Owner \/ Enroll
  BY Zenon, <1>1, <1>3 DEF vars, Owner, Enroll, procVars, outboxVars
<1>4. CASE Process
  BY Zenon, <1>1, <1>4 DEF Process, Start, Started, StartProbe, Stopped, Dies, To, procRest, outboxVars
<1>5. CASE ProbeRuns \/ Signal \/ UnitStarts \/ Crash
  BY Zenon, <1>1, <1>5 DEF ProbeRuns, Signal, UnitStarts, Crash, Dies, procRest, outboxVars
<1>6. CASE TailReads \/ TailStops \/ Heartbeat \/ FlushEnds
  BY Zenon, <1>1, <1>6 DEF TailReads, TailStops, Heartbeat, FlushEnds, Unlock, To, procRest, outboxRest,
     outboxVars
<1> QED
  BY ZenonT(60), <1>2, <1>3, <1>4, <1>5, <1>6, EnqueueStep, ListStep, ReadStep, SendStep, RemoveStep,
     CorruptsStep DEF Next, TailStep, HeartStep, Procs

\* What was enqueued is not lost before it is acknowledged, expired or damaged, whatever
\* fails, crashes and races.
THEOREM QueuedStaysKept == Spec => []QueuedIsKept
<1>1. EInv => QueuedIsKept
  BY DEF EInv, Kept, QueuedIsKept
<1> QED
  BY <1>1, EInvInit, EInvStep, PTL DEF Spec

-----------------------------------------------------------------------------
(* The size of the directory, and usedBytes *)

\* The directory and what the outbox believes it holds.
SizeInv ==
  /\ IsFiniteSet(Pending(disk)) /\ used \in Nat /\ drift \in Nat
  /\ OutboxWithinBounds

\* d is a directory with finitely many files.
Directory(d) == d = [e \in Ids |-> d[e]] /\ IsFiniteSet(Pending(d))

\* The size of a directory is a number.
LEMMA SizeType ==
  ASSUME NEW d, Directory(d), NEW e \in Ids
  PROVE  /\ Size(d) \in Nat /\ Bytes(d, e) \in {0, 1}
         /\ Bytes(d, e) = 1 => Size(d) > 0
<1>1. Cardinality(Pending(d)) \in Nat /\ (Cardinality(Pending(d)) = 0 <=> Pending(d) = {})
  BY Zenon, FS_CardinalityType, FS_EmptySet DEF Directory
<1>2. Bytes(d, e) = 1 => e \in Pending(d)
  BY DEF Bytes, Pending
<1> QED
  BY <1>1, <1>2 DEF Size, Bytes

\* Pruning leaves a smaller directory.
LEMMA PrunedSize ==
  ASSUME NEW d, Directory(d)
  PROVE  Directory(Pruned(d)) /\ Size(Pruned(d)) <= Size(d)
<1> DEFINE D == Pruned(d)
<1>1. D = [e \in Ids |-> D[e]] /\ \A e \in Ids : D[e] = d[e] \/ D[e] = Absent
  BY DEF Pruned
<1> HIDE DEF D
<1>2. Pending(D) \subseteq Pending(d)
  BY <1>1 DEF Pending
<1>3. IsFiniteSet(Pending(D)) /\ Cardinality(Pending(D)) <= Cardinality(Pending(d))
  BY Zenon, <1>2, FS_Subset DEF Directory
<1> QED
  BY <1>1, <1>3 DEF Directory, Size, D

\* A file that is written adds one entry, unless it replaces one.
LEMMA WrittenSize ==
  ASSUME NEW d, Directory(d), NEW e \in Ids, NEW t, t # Absent
  PROVE  /\ Directory([d EXCEPT ![e] = t])
         /\ Size([d EXCEPT ![e] = t]) = Size(d) + 1 - Bytes(d, e)
<1> DEFINE D == [d EXCEPT ![e] = t]
<1>1. D = [f \in Ids |-> D[f]] /\ \A f \in Ids : D[f] = IF f = e THEN t ELSE d[f]
  BY Zenon DEF Directory
<1> HIDE DEF D
<1>2. Pending(D) = Pending(d) \cup {e} /\ (e \in Pending(d) <=> d[e] # Absent)
  BY <1>1 DEF Pending
<1>3. IsFiniteSet(Pending(D))
      /\ Cardinality(Pending(D)) = IF e \in Pending(d) THEN Cardinality(Pending(d))
                                                       ELSE Cardinality(Pending(d)) + 1
  BY Zenon, <1>2, FS_AddElement DEF Directory
<1>4. Cardinality(Pending(d)) \in Nat
  BY Zenon, FS_CardinalityType DEF Directory
<1> QED
  BY <1>1, <1>2, <1>3, <1>4 DEF Directory, Size, Bytes, D

\* A file that is removed takes one entry away, if it was there.
LEMMA RemovedSize ==
  ASSUME NEW d, Directory(d), NEW e \in Ids
  PROVE  /\ Directory([d EXCEPT ![e] = Absent])
         /\ Size([d EXCEPT ![e] = Absent]) = Size(d) - Bytes(d, e)
<1> DEFINE D == [d EXCEPT ![e] = Absent]
<1>1. D = [f \in Ids |-> D[f]] /\ \A f \in Ids : D[f] = IF f = e THEN Absent ELSE d[f]
  BY Zenon DEF Directory
<1> HIDE DEF D
<1>2. Pending(D) = Pending(d) \ {e} /\ (e \in Pending(d) <=> d[e] # Absent)
  BY <1>1 DEF Pending
<1>3. IsFiniteSet(Pending(D))
      /\ Cardinality(Pending(D)) = IF e \in Pending(d) THEN Cardinality(Pending(d)) - 1
                                                       ELSE Cardinality(Pending(d))
  BY Zenon, <1>2, FS_RemoveElement DEF Directory
<1>4. Cardinality(Pending(d)) \in Nat
  BY Zenon, FS_CardinalityType DEF Directory
<1> QED
  BY <1>1, <1>2, <1>3, <1>4 DEF Directory, Size, Bytes, D

\* The outbox starts empty.
LEMMA SizeInvInit == Init => SizeInv
<1> SUFFICES ASSUME Init PROVE SizeInv
  OBVIOUS
<1>1. disk = [e \in Ids |-> Absent] /\ used = 0 /\ drift = 0 /\ loaded = FALSE
  BY Zenon DEF Init
<1>2. Pending(disk) = {}
  BY <1>1 DEF Pending
<1>3. IsFiniteSet(Pending(disk)) /\ Size(disk) = 0
  BY Zenon, <1>2, FS_EmptySet DEF Size
<1> QED
  BY <1>1, <1>3, EdgeAssumption DEF SizeInv, OutboxWithinBounds

\* The second prune of an enqueue removes a file the first one left only when the first
\* one did not happen.
LEMMA PrunedTwice ==
  ASSUME NEW d, NEW e \in Ids, Bytes(Pruned(d), e) = 1
  PROVE  Bytes(Pruned(Pruned(d)), e) = 1
<1>1. Pruned(d)[e] = IF d[e] < now - MaxAge \/ e \in corrupt THEN Absent ELSE d[e]
  BY DEF Pruned
<1>2. Pruned(d)[e] # Absent
  BY DEF Bytes
<1>3. Pruned(Pruned(d))[e] =
        IF Pruned(d)[e] < now - MaxAge \/ e \in corrupt THEN Absent ELSE Pruned(d)[e]
  BY DEF Pruned
<1> QED
  BY <1>1, <1>2, <1>3 DEF Bytes

\* An enqueue writes one file, into a directory it has made room in if need be; a file the
\* second prune removed is counted as replaced only when drift had filled the directory.
LEMMA EnqueueSize == ASSUME EInv, SizeInv, NEW e \in Ids, Enqueue(e) PROVE SizeInv'
<1> DEFINE due  == ~loaded \/ now >= nextPrune
           d1   == IF due THEN Pruned(disk) ELSE disk
           u1   == IF due THEN Size(d1) ELSE used
           replaced == Bytes(d1, e)
           full == u1 + 1 - replaced > MaxBytes
           d2   == IF full THEN Pruned(d1) ELSE d1
           u2   == IF full THEN Size(d2) ELSE u1
           fits == u2 + 1 - replaced <= MaxBytes
<1>0. now \in Nat /\ now # Absent /\ MaxBytes \in Nat /\ used \in Nat /\ drift \in Nat
  BY EdgeAssumption DEF EInv, SizeInv, Absent
<1>1. Directory(disk) /\ Directory(d1) /\ Directory(d2)
      /\ Size(d1) <= Size(disk) /\ Size(d2) <= Size(d1)
  <2>1. Directory(disk)
    BY DEF Directory, EInv, SizeInv
  <2>2. Directory(d1) /\ Size(d1) <= Size(disk)
    BY <2>1, PrunedSize, SizeType
  <2> HIDE DEF d1
  <2> QED
    BY <2>1, <2>2, PrunedSize, SizeType
<1>2. /\ Size(disk) \in Nat /\ Size(d1) \in Nat /\ Size(d2) \in Nat
      /\ replaced \in {0, 1} /\ Bytes(d2, e) \in {0, 1}
  BY Zenon, <1>1, SizeType
<1>3. Bytes(d2, e) <= replaced
  <2>1. d2[e] = d1[e] \/ d2[e] = Absent
    BY DEF Pruned
  <2> QED
    BY SMTT(30), <2>1 DEF Bytes
<1>4. replaced = 1 /\ Bytes(d2, e) = 0 => ~due /\ full
  BY SMTT(30), PrunedTwice
<1>5. /\ u2 \in Nat /\ u2 <= Size(d2) /\ Size(d2) <= u2 + drift
      /\ Size(d2) <= MaxBytes + drift
      /\ (replaced = 1 /\ Bytes(d2, e) = 0 => drift > 0 /\ u2 = Size(d2))
  BY SMTT(30), <1>0, <1>1, <1>2, <1>4 DEF SizeInv, OutboxWithinBounds
<1>6. LET D == [d2 EXCEPT ![e] = now] IN
      Directory(D) /\ Size(D) = Size(d2) + 1 - Bytes(d2, e) /\ Size(D) \in Nat
  BY SMTT(30), <1>0, <1>1, WrittenSize, SizeType
<1>7. /\ loaded' = TRUE
      /\ \/ /\ fits /\ disk' = [d2 EXCEPT ![e] = now]
            /\ used' = Grown(u2, replaced) /\ drift' = drift
         \/ disk' = [d2 EXCEPT ![e] = now] /\ used' = u2 /\ drift' = drift + 1
         \/ disk' = d2 /\ used' = u2 /\ drift' = drift
  BY Zenon DEF Enqueue, Memory
<1> HIDE DEF d2, u2, replaced, full, due
<1>8. IsFiniteSet(Pending(disk'))
  BY Zenon, <1>1, <1>6, <1>7 DEF Directory
<1>9. /\ used' \in Nat /\ drift' \in Nat
      /\ used' <= Size(disk') /\ Size(disk') <= used' + drift' /\ Size(disk') <= MaxBytes + drift'
  <2>1. CASE fits /\ disk' = [d2 EXCEPT ![e] = now] /\ used' = Grown(u2, replaced) /\ drift' = drift
    BY SMTT(30), <2>1, <1>0, <1>2, <1>3, <1>5, <1>6 DEF Grown, Positive
  <2>2. CASE disk' = [d2 EXCEPT ![e] = now] /\ used' = u2 /\ drift' = drift + 1
    BY SMTT(30), <2>2, <1>0, <1>2, <1>3, <1>5, <1>6
  <2>3. CASE disk' = d2 /\ used' = u2 /\ drift' = drift
    BY ZenonT(60), <2>3, <1>0, <1>2, <1>3, <1>5
  <2> QED
    BY ZenonT(60), <1>7, <2>1, <2>2, <2>3
<1> QED
  BY <1>7, <1>8, <1>9 DEF SizeInv, OutboxWithinBounds, Size, Pending

\* A file that is removed is taken off usedBytes.
LEMMA RemovedKeepsSize ==
  ASSUME EInv, SizeInv, NEW e \in Ids, Removed(e), drift' = drift PROVE SizeInv'
<1>1. Directory(disk)
  BY DEF Directory, EInv, SizeInv
<1> DEFINE D == [disk EXCEPT ![e] = Absent]
<1>2. /\ Directory(D) /\ Size(D) = Size(disk) - Bytes(disk, e) /\ Size(D) \in Nat
      /\ Size(disk) \in Nat /\ Bytes(disk, e) \in {0, 1} /\ (Bytes(disk, e) = 1 => Size(disk) > 0)
  BY <1>1, RemovedSize, SizeType
<1>3. /\ disk' = D /\ loaded' = loaded
      /\ used' = IF loaded THEN Positive(used - Bytes(disk, e)) ELSE used
  BY DEF Removed, Memory
<1> HIDE DEF D
<1>4. IsFiniteSet(Pending(disk')) /\ Size(disk') = Size(disk) - Bytes(disk, e)
  BY Zenon, <1>2, <1>3 DEF Directory
<1>5. /\ used' \in Nat /\ (loaded' => used' <= Size(disk') /\ Size(disk') <= used' + drift')
      /\ Size(disk') <= MaxBytes + drift'
  BY SMTT(30), <1>2, <1>3, <1>4, EdgeAssumption DEF SizeInv, OutboxWithinBounds, Positive
<1> QED
  BY <1>4, <1>5 DEF SizeInv, OutboxWithinBounds, Size, Pending

-----------------------------------------------------------------------------
(* Types, and who holds flushMu *)

\* The platform's rows.
ServerOK ==
  /\ token \in {"none", "issued"} /\ source \in {"none", "pending", "linked"}
  /\ stored \subseteq Records /\ mine \in Nat /\ secret \in Nat

\* The process and the probe.
ProcOK ==
  /\ collector \in {"down", "replay", "up", "stopping", "halted"}
  /\ probe \in {"off", "on", "exited"} /\ raw \in Seq(Records) /\ work \subseteq Ids

\* A process is inside a flush exactly while it holds flushMu, and sends or removes an entry.
FlushOK ==
  /\ at = [p \in Procs |-> at[p]] /\ body = [p \in Procs |-> body[p]]
  /\ \A p \in Procs : /\ at[p] \in {"idle", "lock", "next", "send", "remove"}
                      /\ at[p] \in {"next", "send", "remove"} <=> lock = p
                      /\ at[p] \in {"send", "remove"} => body[p][1] \in Ids
  /\ todo \subseteq Ids

\* Only files that are there are corrupt, and the next prune is at most one second away.
FilesOK == corrupt \subseteq Pending(disk) /\ nextPrune \in Int /\ nextPrune <= now + 1

\* Requests leave rows the schema allows, and only samples of known records are stored.
LEMMA ServerStep == ServerOK /\ FlushOK /\ [Next]_vars => ServerOK'
<1> SUFFICES ASSUME ServerOK, FlushOK, [Next]_vars PROVE ServerOK'
  OBVIOUS
<1>0. ASSUME UNCHANGED <<mine, serverVars>> PROVE ServerOK'
  BY <1>0 DEF ServerOK, serverVars
<1>1. CASE Owner
  BY <1>1 DEF Owner, ServerOK, CreateCollector, RevokeCollectorSetupToken, SetupTokenExpires,
     ApproveDeviceSource, accountVars
<1>2. CASE Enroll
  BY <1>2 DEF Enroll, ServerOK, EnrollCollector, Enrollable
<1>3. CASE Tick \/ Process \/ ProbeRuns \/ Signal \/ UnitStarts \/ Crash \/ UNCHANGED vars
           \/ \E e \in Ids : Corrupts(e)
  BY Zenon, <1>0, <1>3 DEF Tick, Process, Start, Started, StartProbe, Stopped, ProbeRuns, Signal, UnitStarts, Crash,
     Dies, Corrupts, procRest, outboxRest, vars
<1>4. ASSUME NEW p \in Procs, Send(p) PROVE ServerOK'
  <2>1. body[p][1] \in Ids
    BY <1>4 DEF Send, FlushOK
  <2>2. body[p][1][2] \in Records
    BY <2>1 DEF Ids
  <2>3. \/ UNCHANGED <<mine, serverVars>>
        \/ mine' = mine /\ UploadDiscovery
        \/ mine' = mine /\ UploadTelemetry(body[p][1][2])
    BY Zenon, <1>4 DEF Send
  <2> QED
    BY ZenonT(60), <1>0, <2>2, <2>3 DEF ServerOK, UploadDiscovery, UploadTelemetry, accountVars
<1>5. ASSUME NEW p \in Procs, Remove(p) \/ \E e \in Ids : Read(p, e) PROVE ServerOK'
  BY Zenon, <1>0, <1>5 DEF Remove, Read, outboxRest
<1>6. ASSUME TailReads \/ TailStops \/ Heartbeat \/ List \/ FlushEnds
             \/ \E e \in Ids : Enqueue(e) PROVE ServerOK'
  BY ZenonT(60), <1>0, <1>6 DEF TailReads, TailStops, Heartbeat, List, FlushEnds, Enqueue, procRest, outboxRest
<1> QED
  BY ZenonT(60), <1>1, <1>2, <1>3, <1>4, <1>5, <1>6 DEF Next, TailStep, HeartStep, Procs

\* The collector, the probe and its output.
LEMMA ProcStep == ProcOK /\ [Next]_vars => ProcOK'
<1> SUFFICES ASSUME ProcOK, [Next]_vars PROVE ProcOK'
  OBVIOUS
<1>0. ASSUME UNCHANGED <<collector, probe, raw, work>> PROVE ProcOK'
  BY <1>0 DEF ProcOK
<1>1. CASE Owner \/ Enroll \/ Tick \/ UNCHANGED vars \/ \E e \in Ids : Corrupts(e)
  BY Zenon, <1>0, <1>1 DEF Owner, Enroll, Tick, Corrupts, vars, procVars, outboxRest
<1>2. CASE Process \/ Signal \/ UnitStarts \/ Crash \/ Heartbeat \/ TailStops
  <2>1. <<>> \in Seq(Records)
    BY Zenon, EmptySeq
  <2> QED
    BY Zenon, <1>2, <2>1 DEF ProcOK, Process, Start, Started, StartProbe, Stopped, Stopping, Signal, UnitStarts, Crash, Dies,
       Heartbeat, TailStops
<1>3. CASE ProbeRuns
  BY <1>3 DEF ProbeRuns, ProcOK
<1>4. CASE TailReads
  <2>1. raw \in Seq(Records) /\ raw # <<>> /\ Head(raw) \in Records /\ Tail(raw) \in Seq(Records)
    BY <1>4 DEF TailReads, ProcOK
  <2>2. {<<"d", Head(raw)>>} \subseteq Ids /\ {<<"d", Head(raw)>>, <<"t", Head(raw)>>} \subseteq Ids
    BY <2>1 DEF Ids
  <2>3. /\ raw' = Tail(raw) \/ raw' = <<>>
        /\ work' \subseteq Ids
        /\ probe' \in {probe, "off"} /\ collector' \in {collector, "stopping"}
    <3> HIDE DEF Ids
    <3> QED
      BY Zenon, <1>4, <2>2 DEF TailReads, ProcOK
  <2>4. raw' \in Seq(Records)
    BY Zenon, EmptySeq, <2>1, <2>3
  <2> QED
    BY <2>3, <2>4 DEF ProcOK
<1>5. ASSUME NEW e \in Ids, Enqueue(e) PROVE ProcOK'
  <2>1. UNCHANGED <<collector, probe, raw>> /\ work' = work \ {e}
    BY Zenon, <1>5 DEF Enqueue, outboxRest
  <2> QED
    BY <2>1 DEF ProcOK
<1>6. ASSUME NEW p \in Procs, Send(p) \/ Remove(p) \/ \E e \in Ids : Read(p, e) PROVE ProcOK'
  BY Zenon, <1>0, <1>6 DEF Send, Remove, Read, outboxRest
<1>7. CASE List \/ FlushEnds
  BY Zenon, <1>0, <1>7 DEF List, FlushEnds, outboxRest
<1> QED
  BY ZenonT(60), <1>1, <1>2, <1>3, <1>4, <1>5, <1>6, <1>7 DEF Next, TailStep, HeartStep, Procs

\* No heartbeat goroutine outlives its process.
DownIsIdle == collector \in {"down", "halted"} => at["heart"] = "idle"

\* A process that ends leaves no heartbeat behind, and only a start makes a new one.
LEMMA DownStep == FlushOK /\ DownIsIdle /\ [Next]_vars => DownIsIdle'
<1> SUFFICES ASSUME FlushOK, DownIsIdle, [Next]_vars PROVE DownIsIdle'
  OBVIOUS
<1>0. ASSUME \/ UNCHANGED at
             \/ \E x : at' = [at EXCEPT !["tail"] = x]
             \/ at["heart"] # "idle",
             UNCHANGED collector \/ collector' \notin {"down", "halted"}
      PROVE DownIsIdle'
  BY <1>0 DEF DownIsIdle, FlushOK, Procs
<1>1. CASE Owner \/ Enroll \/ Tick \/ UNCHANGED vars \/ ProbeRuns
           \/ TailStops \/ StartProbe \/ \E e \in Ids : Corrupts(e)
  BY Zenon, <1>0, <1>1 DEF Owner, Enroll, Tick, ProbeRuns, TailStops, StartProbe,
     Corrupts, vars, procVars, outboxRest
<1>2. CASE Start \/ Started \/ Signal \/ Heartbeat \/ TailReads
  <2>1. collector' \notin {"down", "halted"} \/ (UNCHANGED <<at, collector>>)
    BY <1>2 DEF Start, Started, Signal, Heartbeat, TailReads
  <2> QED
    BY ZenonT(60), <2>1, <1>0 DEF DownIsIdle
<1>3. CASE Stopped \/ UnitStarts \/ Crash
  BY Zenon, <1>3 DEF Stopped, UnitStarts, Crash, Dies, DownIsIdle, Procs
<1>4. CASE List \/ FlushEnds
  BY ZenonT(60), <1>0, <1>4 DEF List, FlushEnds, outboxRest
<1>5. ASSUME NEW e \in Ids, Enqueue(e) PROVE DownIsIdle'
  BY Zenon, <1>0, <1>5 DEF Enqueue, To, outboxRest
<1>6. ASSUME NEW p \in Procs, (\E e \in Ids : Read(p, e)) \/ Send(p) \/ Remove(p) PROVE DownIsIdle'
  <2>1. UNCHANGED collector /\ (p = "heart" => at[p] # "idle") /\ \E x : at' = [at EXCEPT ![p] = x]
    BY Zenon, <1>6 DEF Read, NextPath, Done, Unlock, To, Send, SendFails, Remove, outboxRest
  <2> QED
    BY Zenon, <1>0, <2>1 DEF Procs
<1> QED
  BY Zenon, <1>1, <1>2, <1>3, <1>4, <1>5, <1>6 DEF Next, TailStep, HeartStep, Process, Procs

\* flushMu is taken and given back along the way of each process through a flush.
LEMMA FlushStep == FlushOK /\ DownIsIdle /\ [Next]_vars => FlushOK'
<1> SUFFICES ASSUME FlushOK, DownIsIdle, [Next]_vars PROVE FlushOK'
  OBVIOUS
<1>0. ASSUME UNCHANGED <<at, body, lock, todo>> PROVE FlushOK'
  BY <1>0 DEF FlushOK
<1>1. CASE Owner \/ Enroll \/ Tick \/ UNCHANGED vars \/ ProbeRuns \/ Signal \/ UnitStarts
           \/ TailReads \/ TailStops \/ Started \/ StartProbe \/ \E e \in Ids : Corrupts(e)
  BY Zenon, <1>0, <1>1 DEF Owner, Enroll, Tick, ProbeRuns, Signal, UnitStarts, TailReads, TailStops, Started, StartProbe,
     Corrupts, vars, procVars, outboxRest
<1>2. CASE Stopped \/ Crash
  <2>1. /\ at' = [p \in Procs |-> "idle"] /\ body' = [p \in Procs |-> <<None, FALSE>>]
        /\ todo' = {} /\ lock' = "free"
    BY Zenon, <1>2 DEF Stopped, Crash, Dies
  <2> QED
    BY <2>1 DEF FlushOK, Procs
<1>3. CASE Start \/ Heartbeat
  <2>1. at' = [at EXCEPT !["heart"] = "lock"] /\ UNCHANGED <<body, lock, todo>>
    BY Zenon, <1>3 DEF Start, Heartbeat, To
  <2>2. at["heart"] \notin {"next", "send", "remove"}
    <3>1. CASE Heartbeat
      BY <3>1 DEF Heartbeat
    <3>2. CASE Start
      BY SMTT(30), <3>2 DEF Start, DownIsIdle
    <3> QED
      BY <1>3, <3>1, <3>2
  <2> QED
    BY ZenonT(60), <2>1, <2>2 DEF FlushOK, Procs
<1>4. CASE List \/ FlushEnds
  <2>1. /\ UNCHANGED body /\ todo' \subseteq Ids
        /\ \/ lock = "free" /\ lock' = "heart" /\ at' = [at EXCEPT !["heart"] = "next"]
           \/ at["heart"] = "next" /\ lock' = "free" /\ at' = [at EXCEPT !["heart"] = "idle"]
    BY ZenonT(60), <1>4 DEF List, FlushEnds, Unlock, To, Pending, FlushOK
  <2> QED
    BY SMTT(30), <2>1 DEF FlushOK, Procs
<1>5. ASSUME NEW e \in Ids, Enqueue(e) PROVE FlushOK'
  <2>1. /\ UNCHANGED <<lock, todo>> /\ at["tail"] = "idle"
        /\ \/ at' = [at EXCEPT !["tail"] = "lock"]
           \/ UNCHANGED at
        /\ \/ body' = [Replaced(e) EXCEPT !["tail"] = <<e, FALSE>>]
           \/ body' = Replaced(e)
           \/ UNCHANGED body
    BY Zenon, <1>5 DEF Enqueue, To
  <2>2. /\ body' = [p \in Procs |-> body'[p]]
        /\ \A p \in Procs : body'[p][1] = body[p][1] \/ body'[p][1] = e
    <3>1. <<e, FALSE>>[1] = e
      OBVIOUS
    <3>2. Replaced(e) = [p \in Procs |-> Replaced(e)[p]]
          /\ \A p \in Procs : Replaced(e)[p] = <<e, FALSE>> \/ Replaced(e)[p] = body[p]
      BY Zenon DEF Replaced
    <3>3. body' = [p \in Procs |-> body'[p]]
          /\ \A p \in Procs : body'[p] = <<e, FALSE>> \/ body'[p] = body[p]
      BY Zenon, <2>1, <3>2 DEF FlushOK
    <3> QED
      BY Zenon, <3>1, <3>3
  <2>3. /\ at' = [p \in Procs |-> at'[p]]
        /\ \A p \in Procs : at'[p] = at[p] \/ (p = "tail" /\ at'[p] = "lock")
    BY ZenonT(60), <2>1 DEF FlushOK
  <2> QED
    BY <2>1, <2>2, <2>3 DEF FlushOK
<1>6. ASSUME NEW p \in Procs, NEW e \in Ids, Read(p, e) PROVE FlushOK'
  <2>1. /\ todo' \subseteq todo
        /\ (p = "tail" /\ lock = "free") \/ (p = "heart" /\ at[p] = "next")
    BY ZenonT(60), <1>6 DEF Read, NextPath, Procs
  <2>2. \/ body' = [body EXCEPT ![p] = <<e, TRUE>>] /\ at' = [at EXCEPT ![p] = "send"] /\ lock' = p
        \/ /\ body' = [body EXCEPT ![p] = <<None, FALSE>>]
           /\ \/ p = "heart" /\ at' = [at EXCEPT ![p] = "next"] /\ lock' = p
              \/ p # "heart" /\ at' = [at EXCEPT ![p] = "idle"] /\ lock' = "free"
    BY Zenon, <1>6 DEF Read, Done, To, Unlock
  <2>3. /\ at' = [q \in Procs |-> at'[q]] /\ body' = [q \in Procs |-> body'[q]]
        /\ \A q \in Procs : q # p => at'[q] = at[q] /\ body'[q] = body[q]
    BY Zenon, <2>2 DEF FlushOK
  <2>4. /\ at'[p] \in {"send", "next", "idle"} /\ (at'[p] = "idle" <=> lock' # p)
        /\ lock' \in {p, "free"} /\ (at'[p] = "send" => body'[p][1] = e)
    <3>1. <<e, TRUE>>[1] = e /\ p # "free"
      BY SMTT(30) DEF Procs
    <3>2. CASE /\ body' = [body EXCEPT ![p] = <<e, TRUE>>] /\ at' = [at EXCEPT ![p] = "send"]
               /\ lock' = p
      <4>1. at'[p] = "send" /\ body'[p] = <<e, TRUE>>
        BY Zenon, <3>2 DEF FlushOK
      <4> QED
        BY SMTT(30), <3>1, <3>2, <4>1
    <3>3. CASE \/ at' = [at EXCEPT ![p] = "next"] /\ lock' = p
               \/ at' = [at EXCEPT ![p] = "idle"] /\ lock' = "free"
      <4>1. (at'[p] = "next" /\ lock' = p) \/ (at'[p] = "idle" /\ lock' = "free")
        BY Zenon, <3>3 DEF FlushOK
      <4> QED
        BY SMTT(30), <3>1, <4>1
    <3> QED
      BY Zenon, <2>2, <3>2, <3>3
  <2>5. \A q \in Procs : q # p => lock # q /\ lock' # q
    BY SMTT(30), <2>1, <2>4 DEF FlushOK, Procs
  <2> QED
    BY ZenonT(60), <2>1, <2>3, <2>4, <2>5 DEF FlushOK
<1>7. ASSUME NEW p \in Procs, Send(p) \/ Remove(p) PROVE FlushOK'
  <2>1. /\ todo' \subseteq todo /\ at[p] \in {"send", "remove"}
        /\ \/ at' = [at EXCEPT ![p] = "remove"] /\ UNCHANGED <<body, lock>>
           \/ /\ body' = [body EXCEPT ![p] = <<None, FALSE>>]
              /\ \/ p = "heart" /\ at' = [at EXCEPT ![p] = "next"] /\ lock' = p
                 \/ at' = [at EXCEPT ![p] = "idle"] /\ lock' = "free"
    BY Zenon, <1>7 DEF Send, SendFails, Remove, Done, To, Unlock
  <2> QED
    BY ZenonT(60), <2>1 DEF FlushOK, Procs
<1> QED
  BY Zenon, <1>1, <1>2, <1>3, <1>4, <1>5, <1>6, <1>7 DEF Next, TailStep, HeartStep, Process, Procs

\* The directory's side: damaged files are there, and prunes are not put off.
LEMMA FilesStep == EInv /\ FilesOK /\ [Next]_vars => FilesOK'
<1> SUFFICES ASSUME EInv, FilesOK, [Next]_vars PROVE FilesOK'
  OBVIOUS
<1>a. now \in Nat /\ Absent = -1 /\ now # Absent
  BY SMTT(30) DEF EInv, Absent
<1>b. ASSUME UNCHANGED <<disk, corrupt, nextPrune, now>> PROVE FilesOK'
  BY SMTT(30), <1>b DEF FilesOK, Pending
<1>1. CASE Owner \/ Enroll \/ UNCHANGED vars \/ ProbeRuns \/ Signal \/ UnitStarts
           \/ TailReads \/ TailStops \/ Start \/ Started \/ StartProbe \/ Heartbeat \/ FlushEnds
  BY ZenonT(60), <1>b, <1>1 DEF Owner, Enroll, ProbeRuns, Signal, UnitStarts, TailReads, TailStops, Start, Started, StartProbe,
     Heartbeat, FlushEnds, vars, procRest, outboxRest, outboxVars
<1>2. CASE Tick
  <2>1. now' = now + 1 /\ UNCHANGED <<disk, corrupt, nextPrune>>
    BY SMTT(30), <1>2 DEF Tick, outboxVars
  <2> QED
    BY SMTT(30), <1>a, <2>1 DEF FilesOK, Pending
<1>3. CASE Stopped \/ Crash
  <2>1. nextPrune' = 0 /\ UNCHANGED <<disk, corrupt, now>>
    BY ZenonT(60), <1>3 DEF Stopped, Crash, Dies, Memory, procRest
  <2> QED
    BY SMTT(30), <1>a, <2>1 DEF FilesOK, Pending
<1>4. CASE List
  <2>1. corrupt' = {} /\ nextPrune' = now + 1 /\ now' = now
    BY SMTT(30), <1>4 DEF List, Memory, outboxRest
  <2> QED
    BY SMTT(30), <1>a, <2>1 DEF FilesOK
<1>5. ASSUME NEW e \in Ids, Enqueue(e) PROVE FilesOK'
  <2>1. /\ now' = now /\ nextPrune' \in {nextPrune, now + 1}
        /\ \E d : /\ d = disk \/ d = Pruned(disk) \/ d = Pruned(Pruned(disk))
                  /\ \/ disk' = [d EXCEPT ![e] = now] /\ corrupt' = (corrupt \cap Pending(d)) \ {e}
                     \/ disk' = d /\ corrupt' = corrupt \cap Pending(d)
    BY ZenonT(60), <1>5 DEF Enqueue, Memory, outboxRest
  <2>2. corrupt' \subseteq Pending(disk')
    <3>1. PICK d : /\ d = [f \in Ids |-> d[f]]
                   /\ \/ disk' = [d EXCEPT ![e] = now] /\ corrupt' = (corrupt \cap Pending(d)) \ {e}
                      \/ disk' = d /\ corrupt' = corrupt \cap Pending(d)
      BY ZenonT(60), <2>1 DEF Pruned, EInv
    <3> QED
      BY SMTT(30), <3>1 DEF Pending
  <2> QED
    BY SMTT(30), <1>a, <2>1, <2>2 DEF FilesOK, Pending
<1>6. ASSUME NEW p \in Procs, NEW e \in Ids, Read(p, e) PROVE FilesOK'
  <2>1. /\ UNCHANGED <<nextPrune, now>>
        /\ \/ UNCHANGED <<disk, corrupt>>
           \/ disk' = [disk EXCEPT ![e] = Absent] /\ corrupt' = corrupt \ {e}
    BY Zenon, <1>6 DEF Read, Removed, Memory, outboxVars, outboxRest
  <2> QED
    BY SMTT(30), <2>1 DEF FilesOK, Pending, EInv
<1>7. ASSUME NEW p \in Procs, Send(p) PROVE FilesOK'
  BY ZenonT(60), <1>b, <1>7 DEF Send, SendFails, outboxVars
<1>8. ASSUME NEW p \in Procs, Remove(p) PROVE FilesOK'
  <2>1. /\ UNCHANGED <<nextPrune, now, corrupt>>
        /\ \/ UNCHANGED disk
           \/ body[p][1] \notin corrupt /\ disk' = [disk EXCEPT ![body[p][1]] = Absent]
    BY Zenon, <1>8 DEF Remove, StillSent, Removed, Memory, outboxRest
  <2> QED
    BY ZenonT(60), <2>1 DEF FilesOK, Pending, EInv
<1>9. ASSUME NEW e \in Ids, Corrupts(e) PROVE FilesOK'
  <2>1. disk[e] # Absent /\ corrupt' = corrupt \cup {e} /\ UNCHANGED <<disk, nextPrune, now>>
    BY Zenon, <1>9 DEF Corrupts, outboxRest
  <2> QED
    BY <2>1 DEF FilesOK, Pending
<1> QED
  BY Zenon, <1>1, <1>2, <1>3, <1>4, <1>5, <1>6, <1>7, <1>8, <1>9 DEF Next, TailStep, HeartStep, Process, Procs

-----------------------------------------------------------------------------
\* What holds in every state.
EdgeInv == EInv /\ SizeInv /\ ServerOK /\ ProcOK /\ FlushOK /\ DownIsIdle /\ FilesOK

\* Every step keeps the size: an enqueue and a removal count, a prune counts anew, a
\* restart forgets the count.
LEMMA SizeInvStep == EInv /\ SizeInv /\ FlushOK /\ [Next]_vars => SizeInv'
<1> SUFFICES ASSUME EInv, SizeInv, FlushOK, [Next]_vars PROVE SizeInv'
  BY SMTT(30)
<1>0. ASSUME UNCHANGED <<disk, used, loaded, drift>> PROVE SizeInv'
  BY SMTT(30), <1>0 DEF SizeInv, OutboxWithinBounds, Size, Pending
<1>1. CASE Owner \/ Enroll \/ Tick \/ UNCHANGED vars \/ ProbeRuns \/ Signal \/ UnitStarts \/ \E e \in Ids : Corrupts(e)
  BY ZenonT(60), <1>0, <1>1 DEF Owner, Enroll, Tick, ProbeRuns, Signal, UnitStarts, Corrupts, vars, procRest, outboxRest,
     outboxVars, histVars
<1>2. CASE TailReads \/ TailStops \/ Start \/ Started \/ StartProbe \/ Heartbeat \/ FlushEnds
  BY ZenonT(60), <1>0, <1>2 DEF TailReads, TailStops, Start, Started, StartProbe, Heartbeat, FlushEnds, procRest,
     outboxRest, outboxVars, histVars
<1>3. CASE Stopped \/ Crash
  <2>1. used' = 0 /\ loaded' = FALSE /\ UNCHANGED <<disk, drift>>
    BY ZenonT(60), <1>3 DEF Stopped, Crash, Dies, Memory, procRest, histVars
  <2> QED
    BY SMTT(30), <2>1 DEF SizeInv, OutboxWithinBounds, Size, Pending
<1>4. CASE List
  <2>1. disk' = Pruned(disk) /\ used' = Size(Pruned(disk)) /\ drift' = drift
    BY ZenonT(60), <1>4 DEF List, Memory, histVars
  <2>2. Directory(disk)
    BY DEF Directory, EInv, SizeInv
  <2>3. Directory(Pruned(disk)) /\ Size(Pruned(disk)) <= Size(disk)
    BY ZenonT(60), <2>2, PrunedSize
  <2>4. Size(Pruned(disk)) \in Nat /\ Size(disk) \in Nat
    BY ZenonT(60), <2>2, <2>3, FS_CardinalityType DEF Directory, Size
  <2>5. used' \in Nat /\ used' <= Size(disk') /\ Size(disk') <= used' + drift'
        /\ Size(disk') <= MaxBytes + drift'
    BY SMTT(30), <2>1, <2>3, <2>4, EdgeAssumption DEF SizeInv, OutboxWithinBounds
  <2>6. IsFiniteSet(Pending(disk'))
    BY ZenonT(60), <2>1, <2>3 DEF Directory
  <2> QED
    BY SMTT(30), <2>1, <2>5, <2>6 DEF SizeInv, OutboxWithinBounds, Size, Pending
<1>5. ASSUME NEW p \in Procs, NEW e \in Ids, Read(p, e) PROVE SizeInv'
  <2>1. UNCHANGED <<disk, used, loaded, drift>> \/ (Removed(e) /\ drift' = drift)
    BY Zenon, <1>5 DEF Read, outboxVars, histVars
  <2> QED
    BY ZenonT(60), <1>0, <2>1, RemovedKeepsSize
<1>6. ASSUME NEW p \in Procs, Send(p) PROVE SizeInv'
  BY ZenonT(60), <1>0, <1>6 DEF Send, SendFails, outboxVars
<1>7. ASSUME NEW p \in Procs, Remove(p) PROVE SizeInv'
  <2>1. body[p][1] \in Ids
    BY <1>7 DEF Remove, FlushOK
  <2>2. UNCHANGED <<disk, used, loaded, drift>> \/ (Removed(body[p][1]) /\ drift' = drift)
    BY Zenon, <1>7 DEF Remove, histVars
  <2> QED
    BY ZenonT(60), <1>0, <2>1, <2>2, RemovedKeepsSize
<1> QED
  BY ZenonT(60), <1>1, <1>2, <1>3, <1>4, <1>5, <1>6, <1>7, EnqueueSize DEF Next, TailStep, HeartStep, Process, Procs

\* The invariant holds at the start.
LEMMA EdgeInvInit == Init => EdgeInv
<1> SUFFICES ASSUME Init PROVE EdgeInv
  OBVIOUS
<1>1. ServerOK
  BY DEF Init, ServerInit, ServerOK
<1>2. ProcOK
  <2>1. collector = "down" /\ probe = "off" /\ raw = <<>> /\ work = {}
    BY Zenon DEF Init
  <2>2. raw \in Seq(Records)
    BY ZenonT(60), <2>1, EmptySeq
  <2> QED
    BY SMTT(30), <2>1, <2>2 DEF ProcOK
<1>3. FlushOK /\ DownIsIdle
  <2>1. /\ at = [p \in Procs |-> "idle"] /\ body = [p \in Procs |-> <<None, FALSE>>]
        /\ todo = {} /\ lock = "free"
    BY ZenonT(60) DEF Init
  <2> QED
    BY SMTT(30), <2>1 DEF FlushOK, DownIsIdle, Procs
<1>4. FilesOK
  BY SMTT(30) DEF Init, FilesOK
<1> QED
  BY ZenonT(60), <1>1, <1>2, <1>3, <1>4, EInvInit, SizeInvInit DEF EdgeInv

\* Every step keeps it.
LEMMA EdgeInvStep == EdgeInv /\ [Next]_vars => EdgeInv'
  BY ZenonT(60), EInvStep, SizeInvStep, ServerStep, ProcStep, FlushStep, DownStep, FilesStep DEF EdgeInv

\* Every variable keeps its type; tail and heartbeat are inside a flush only while they hold
\* flushMu (flush, flushPathLocked), and only files that are there are marked corrupt.
THEOREM EdgeIsTyped == Spec => []EdgeTypeOK
<1>1. EdgeInv => EdgeTypeOK
  BY SMTT(30) DEF EdgeInv, ServerOK, ProcOK, FlushOK, FilesOK, SizeInv, EdgeTypeOK
<1> QED
  BY <1>1, EdgeInvInit, EdgeInvStep, PTL DEF Spec

\* usedBytes is the size of the directory and the directory holds at most MaxBytes, but for
\* what failed syncs left behind (enqueueLocked, removeEntryIfBodyMatchesLocked).
THEOREM OutboxStaysWithinBounds == Spec => []OutboxWithinBounds
<1>1. EdgeInv => OutboxWithinBounds
  BY DEF EdgeInv, SizeInv
<1> QED
  BY <1>1, EdgeInvInit, EdgeInvStep, PTL DEF Spec
==============================================================================
