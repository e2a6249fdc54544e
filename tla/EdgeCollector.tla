---------------------------- MODULE EdgeCollector ----------------------------
(***************************************************************************)
(* The edge collector (cmd/pulse-edge-collector) on top of EdgeIngest: it  *)
(* enrolls, runs the BLE probe and tails its output, writes a discovery    *)
(* and a telemetry entry for every record into a directory (the outbox),   *)
(* sends them, and sends again after every heartbeat what is still there.  *)
(*                                                                         *)
(* Processes: "tail", the goroutine that follows the probe's output, and   *)
(* "heart", the heartbeat goroutine (before it starts, the main goroutine  *)
(* doing the first replay).  flushMu is the mutex `lock'; what happens     *)
(* under mu is one step.  An entry <<kind, n>> is named by a hash of its   *)
(* content; its file also holds its creation time, and all have size 1.    *)
(***************************************************************************)
EXTENDS EdgeIngest, FiniteSets, Sequences

CONSTANTS Records,    \* records the probe can report
          MaxUnread,  \* bound: lines the tail lags behind
          MaxBytes,   \* PULSE_EDGE_OUTBOX_MAX_BYTES, in entries
          MaxAge,     \* PULSE_EDGE_OUTBOX_MAX_AGE
          Bounds      \* bounds: <<lines written, ticks of the clock, failures, crashes and signals>>

ASSUME EdgeAssumption ==
  {MaxUnread, MaxBytes, MaxAge} \subseteq Nat /\ Bounds \subseteq Nat \X Nat \X Nat

VARIABLES
  mine,        \* PULSE_EDGE_COLLECTOR_SECRET, 0 before the enrollment
  collector,   \* the process
  probe,       \* the child process, and the context of its run
  raw,         \* lines of the probe's output the tail has not read
  writes,      \* lines still to be written
  work,        \* entries of the line being handled that are not enqueued yet
  at, body,    \* where tail and heart are, the entry they read and whether its
               \* file is still the one they read
  todo,        \* paths the heart's flush still has to visit
  lock,        \* holder of flushMu
  disk,        \* the directory: creation time of every entry's file
  corrupt,     \* files that cannot be decoded
  used, loaded, nextPrune,  \* usedBytes, usageLoaded, nextPruneAt
  now, ticks,  \* time, and the ticks still to come
  faults,      \* failures still to come
  queued,      \* history: time an entry was last enqueued without error
  acked,       \* history: entries whose upload was acknowledged
  damaged,     \* history: entries whose file was corrupted
  drift        \* history: files put in place by an enqueue that then failed

outboxVars == <<disk, corrupt, used, loaded, nextPrune>>
histVars == <<queued, acked, damaged, drift>>
procVars == <<collector, probe, raw, writes, work, at, body, todo, lock>>
vars == <<serverVars, mine, procVars, outboxVars, histVars, now, ticks, faults>>

Procs == {"tail", "heart"}
Ids == {"d", "t"} \X Records
Absent == -1
None == <<"none", 0>>
Fault == faults > 0 /\ faults' = faults - 1

Pending(d) == {e \in Ids : d[e] # Absent}
To(p, where) == at' = [at EXCEPT ![p] = where]

Init ==
  /\ ServerInit
  /\ mine = 0 /\ collector = "down" /\ probe = "off" /\ raw = <<>> /\ work = {}
  /\ at = [p \in Procs |-> "idle"] /\ body = [p \in Procs |-> <<None, FALSE>>]
  /\ todo = {} /\ lock = "free"
  /\ disk = [e \in Ids |-> Absent] /\ corrupt = {}
  /\ used = 0 /\ loaded = FALSE /\ nextPrune = 0
  /\ now = 0 /\ \E b \in Bounds : writes = b[1] /\ ticks = b[2] /\ faults = b[3]
  /\ queued = [e \in Ids |-> Absent] /\ acked = {} /\ damaged = {} /\ drift = 0

-----------------------------------------------------------------------------
(* Owner, enrollment, time *)

\* The owner starts over while the Pi has no secret.
Owner ==
  /\ \/ mine = 0 /\ CreateCollector
     \/ RevokeCollectorSetupToken
     \/ SetupTokenExpires
     \/ ApproveDeviceSource
  /\ UNCHANGED <<mine, procVars, outboxVars, histVars, now, ticks, faults>>

\* The enroll command.  When the answer is lost the token is spent: the next
\* attempt, by postJSON or by the operator, is refused.
Enroll ==
  /\ EnrollCollector(secret + 1)
  /\ \/ mine' = secret + 1 /\ UNCHANGED faults
     \/ Fault /\ UNCHANGED mine
  /\ UNCHANGED <<procVars, outboxVars, histVars, now, ticks>>

Tick ==
  /\ ticks > 0 /\ ticks' = ticks - 1 /\ now' = now + 1
  /\ UNCHANGED <<serverVars, mine, procVars, outboxVars, histVars, faults>>

-----------------------------------------------------------------------------
(* The process: runCollector, runBLEProbeLoop, tailRawProbeEvents *)

procRest == <<serverVars, mine, histVars, now, ticks>>

\* waitForInitialHeartbeat retries until the API answers, then replays.
Start ==
  /\ collector = "down" /\ Authenticated(mine)
  /\ collector' = "replay" /\ To("heart", "lock")
  /\ UNCHANGED <<procRest, probe, raw, writes, work, body, todo, lock, outboxVars, faults>>

Started ==
  /\ collector = "replay" /\ at["heart"] = "idle"
  /\ collector' = "up"
  /\ UNCHANGED <<procRest, probe, raw, writes, work, at, body, todo, lock, outboxVars, faults>>

\* Mutant: the heartbeat goroutine no longer replays the outbox.
HeartbeatOnly ==
  /\ collector = "up" /\ at["heart"] = "idle" /\ Authenticated(mine)
  /\ UNCHANGED vars

\* A heartbeat that fails is only logged; after one that succeeds the outbox is
\* flushed.
Heartbeat ==
  /\ collector = "up" /\ at["heart"] = "idle" /\ Authenticated(mine)
  /\ To("heart", "lock")
  /\ UNCHANGED <<procRest, collector, probe, raw, writes, work, body, todo, lock, outboxVars, faults>>

\* runBLEProbeOnce empties the output file before it starts the child.
StartProbe ==
  /\ collector = "up" /\ probe = "off"
  /\ probe' = "on" /\ raw' = <<>>
  /\ UNCHANGED <<procRest, collector, writes, work, at, body, todo, lock, outboxVars, faults>>

ProbeRuns ==
  /\ probe = "on"
  /\ \/ \E n \in Records : writes > 0 /\ writes' = writes - 1 /\ Len(raw) < MaxUnread /\ raw' = Append(raw, n)
        /\ UNCHANGED probe
     \/ probe' = "exited" /\ UNCHANGED <<writes, raw>>
  /\ UNCHANGED <<procRest, collector, work, at, body, todo, lock, outboxVars, faults>>

Stopping == collector = "stopping"

\* A record asks for a discovery and, when it has metrics, a telemetry upload.
\* An error ends the run: an authentication error the collector too, a line that
\* cannot be decoded only costs the lines that were not handled.
TailReads ==
  /\ probe # "off" /\ at["tail"] = "idle" /\ work = {} /\ raw # <<>>
  /\ \/ /\ raw' = Tail(raw)
        /\ work' \in {{<<"d", Head(raw)>>}, {<<"d", Head(raw)>>, <<"t", Head(raw)>>}}
        /\ UNCHANGED <<probe, collector, faults>>
     \/ /\ Fault /\ probe' = "off" /\ raw' = <<>>
        /\ collector' \in {collector, IF collector = "up" THEN "stopping" ELSE collector}
        /\ UNCHANGED work
  /\ UNCHANGED <<procRest, writes, at, body, todo, lock, outboxVars>>

\* The tail returns after a pass with its context done; lines it has not read
\* are lost with the next run.
TailStops ==
  /\ probe # "off" /\ at["tail"] = "idle" /\ work = {}
  /\ probe = "exited" \/ Stopping
  /\ probe' = "off" /\ raw' = <<>>
  /\ UNCHANGED <<procRest, collector, writes, work, at, body, todo, lock, outboxVars, faults>>

Memory(u, l, n) == used' = u /\ loaded' = l /\ nextPrune' = n

Dies(next) ==
  /\ collector' = next /\ probe' = "off" /\ raw' = <<>> /\ work' = {}
  /\ at' = [p \in Procs |-> "idle"] /\ body' = [p \in Procs |-> <<None, FALSE>>]
  /\ todo' = {} /\ lock' = "free"
  /\ Memory(0, FALSE, 0)
  /\ UNCHANGED <<procRest, writes, disk, corrupt>>

\* SIGINT or SIGTERM, in waitForInitialHeartbeat or later.
Signal ==
  /\ collector \in {"down", "up", "replay"} /\ Fault
  /\ collector' = "stopping"
  /\ UNCHANGED <<procRest, probe, raw, writes, work, at, body, todo, lock, outboxVars>>

\* runCollector returns once the probe loop and the heartbeat goroutine have.  It
\* exits with 0 after a signal and with 10 after an authentication error: systemd
\* (Restart=on-failure, RestartPreventExitStatus=10) restarts it after neither.
Stopped ==
  /\ Stopping /\ probe = "off" /\ at["heart"] = "idle"
  /\ Dies("halted")
  /\ UNCHANGED faults

\* The unit is started by hand or at the next boot; nothing says that it will be.
UnitStarts ==
  /\ collector = "halted"
  /\ collector' = "down"
  /\ UNCHANGED <<procRest, probe, raw, writes, work, at, body, todo, lock, outboxVars, faults>>

\* Killed: a failure to systemd, which restarts the collector.
Crash ==
  /\ collector \notin {"down", "halted"} /\ Fault
  /\ Dies("down")

-----------------------------------------------------------------------------
(* edgeOutbox *)

outboxRest == <<serverVars, mine, collector, probe, raw, writes, now, ticks>>

\* pruneExpired: expired entries are removed, corrupt ones renamed away.
Pruned(d) ==
  [e \in Ids |-> IF d[e] < now - MaxAge \/ e \in corrupt THEN Absent ELSE d[e]]

Size(d) == Cardinality(Pending(d))
Bytes(d, e) == IF d[e] = Absent THEN 0 ELSE 1
Positive(n) == IF n < 0 THEN 0 ELSE n

\* Mutant: the size of the file an entry replaces is not taken off.
GrownAlways(u, replaced) == u + 1

\* usedBytes after an enqueue.
Grown(u, replaced) == Positive(u + 1 - replaced)

\* A file that is written again holds a later creation time.
Replaced(e) ==
  [p \in Procs |-> IF body[p][1] = e THEN <<e, FALSE>> ELSE body[p]]

\* enqueueLocked.  A refused or failed enqueue drops the entry.
Enqueue(e) ==
  LET due  == ~loaded \/ now >= nextPrune
      d1   == IF due THEN Pruned(disk) ELSE disk
      u1   == IF due THEN Size(d1) ELSE used
      replaced == Bytes(d1, e)
      full == u1 + 1 - replaced > MaxBytes
      d2   == IF full THEN Pruned(d1) ELSE d1
      u2   == IF full THEN Size(d2) ELSE u1
      fits == u2 + 1 - replaced <= MaxBytes
      prune == IF due \/ full THEN now + 1 ELSE nextPrune
      kept == corrupt \cap Pending(d2)
  IN
  /\ at["tail"] = "idle" /\ e \in work
  /\ e[1] = "t" => \A f \in work : f[1] = "t"
  /\ work' = work \ {e}
  /\ \/ /\ fits
        /\ disk' = [d2 EXCEPT ![e] = now] /\ corrupt' = kept \ {e}
        /\ Memory(Grown(u2, replaced), TRUE, prune)
        /\ queued' = [queued EXCEPT ![e] = now] /\ acked' = acked \ {e}
        /\ To("tail", "lock") /\ body' = [Replaced(e) EXCEPT !["tail"] = <<e, FALSE>>]
        /\ UNCHANGED <<drift, faults>>
     \/ /\ fits /\ Fault     \* the directory cannot be synced
        /\ disk' = [d2 EXCEPT ![e] = now] /\ corrupt' = kept \ {e}
        /\ Memory(u2, TRUE, prune)
        /\ drift' = drift + 1 /\ body' = Replaced(e)
        /\ UNCHANGED <<queued, acked, at>>
     \/ /\ \/ ~fits /\ UNCHANGED faults
           \/ fits /\ Fault
        /\ disk' = d2 /\ corrupt' = kept
        /\ Memory(u2, TRUE, prune)
        /\ UNCHANGED <<queued, acked, drift, at, body>>
  /\ UNCHANGED <<outboxRest, todo, lock, damaged>>

Unlock(p) == lock' = "free" /\ To(p, "idle")

\* flush takes flushMu, prunes, and lists the files.
List ==
  /\ at["heart"] = "lock" /\ lock = "free"
  /\ lock' = "heart"
  /\ disk' = Pruned(disk) /\ corrupt' = {}
  /\ Memory(Size(Pruned(disk)), TRUE, now + 1)
  /\ todo' = Pending(Pruned(disk))
  /\ To("heart", "next")
  /\ UNCHANGED <<outboxRest, work, body, histVars, faults>>

\* Paths are sorted: the names of discoveries come first, those of one kind are
\* in the order of their hashes.
NextPath(p, e) ==
  IF p = "tail"
  THEN at[p] = "lock" /\ lock = "free" /\ e = body[p][1] /\ UNCHANGED todo
  ELSE /\ at[p] = "next" /\ e \in todo
       /\ e[1] = "t" => \A f \in todo : f[1] = "t"
       /\ todo' = todo \ {e}

\* Mutant: a flush returns with flushMu held.
FlushKeepsLock ==
  /\ at["heart"] = "next" /\ todo = {}
  /\ To("heart", "idle")
  /\ UNCHANGED <<outboxRest, work, body, todo, lock, outboxVars, histVars, faults>>

\* flush has visited every path.
FlushEnds ==
  /\ at["heart"] = "next" /\ todo = {}
  /\ Unlock("heart")
  /\ UNCHANGED <<outboxRest, work, body, todo, outboxVars, histVars, faults>>

\* flushPathLocked returned without an error: the heart goes to the next path.
Done(p) == IF p = "heart" THEN To(p, "next") /\ lock' = p ELSE Unlock(p)

Removed(e) ==
  /\ disk' = [disk EXCEPT ![e] = Absent]
  /\ Memory(IF loaded THEN Positive(used - Bytes(disk, e)) ELSE used, loaded, nextPrune)

\* flushPathLocked reads the file; a corrupt one is renamed away.
Read(p, e) ==
  /\ NextPath(p, e)
  /\ \/ /\ e \in corrupt
        /\ Removed(e) /\ corrupt' = corrupt \ {e}
        /\ Done(p) /\ body' = [body EXCEPT ![p] = <<None, FALSE>>]
     \/ /\ disk[e] = Absent
        /\ Done(p) /\ body' = [body EXCEPT ![p] = <<None, FALSE>>]
        /\ UNCHANGED outboxVars
     \/ /\ disk[e] # Absent /\ e \notin corrupt
        /\ body' = [body EXCEPT ![p] = <<e, TRUE>>]
        /\ To(p, "send") /\ lock' = p /\ UNCHANGED outboxVars
  /\ UNCHANGED <<outboxRest, work, histVars, faults>>

CtxDone(p) == Stopping \/ (p = "tail" /\ probe # "on")

\* A call that fails: the context is done, or the connection breaks.
Breaks(p) == IF CtxDone(p) THEN UNCHANGED faults ELSE Fault

\* An error ends the flush with the file in place.
SendFails(p) ==
  /\ Unlock(p) /\ todo' = IF p = "heart" THEN {} ELSE todo
  /\ body' = [body EXCEPT ![p] = <<None, FALSE>>]
  /\ UNCHANGED <<acked, outboxVars>>

\* sendOutboxEntry, without mu: the request or its answer can be lost, postJSON
\* having tried several times, and a done context ends the call.
Send(p) ==
  LET e == body[p][1] IN
  /\ at[p] = "send"
  /\ \/ Breaks(p) /\ SendFails(p) /\ UNCHANGED serverVars
     \/ /\ Authenticated(mine)
        /\ IF e[1] = "d" THEN UploadDiscovery ELSE UploadTelemetry(e[2])
        /\ \/ /\ acked' = acked \cup {e}
              /\ To(p, "remove") /\ UNCHANGED <<body, lock, todo, outboxVars, faults>>
           \/ Breaks(p) /\ SendFails(p)
  /\ UNCHANGED <<mine, collector, probe, raw, writes, now, ticks, work, queued, damaged, drift>>

\* Mutant: the file is removed whatever it holds now.
StillThere(p, e) == disk[e] # Absent /\ e \notin corrupt

StillSent(p, e) == disk[e] # Absent /\ e \notin corrupt /\ body[p][2]

\* removeEntryIfBodyMatchesLocked: a file replaced since it was read stays.
Remove(p) ==
  LET e == body[p][1] IN
  /\ at[p] = "remove"
  /\ IF StillSent(p, e) THEN Removed(e) ELSE UNCHANGED <<disk, used, loaded, nextPrune>>
  /\ Done(p) /\ body' = [body EXCEPT ![p] = <<None, FALSE>>]
  /\ UNCHANGED <<outboxRest, work, todo, corrupt, histVars, faults>>

\* The file system damages a file.
Corrupts(e) ==
  /\ disk[e] # Absent /\ e \notin corrupt /\ Fault
  /\ corrupt' = corrupt \cup {e} /\ damaged' = damaged \cup {e}
  /\ UNCHANGED <<outboxRest, work, at, body, todo, lock, disk, used, loaded, nextPrune,
                 queued, acked, drift>>

-----------------------------------------------------------------------------
TailStep ==
  \/ TailReads \/ TailStops
  \/ \E e \in Ids : Enqueue(e) \/ Read("tail", e)
  \/ Send("tail") \/ Remove("tail")
HeartStep ==
  \/ Heartbeat \/ List \/ FlushEnds
  \/ \E e \in Ids : Read("heart", e)
  \/ Send("heart") \/ Remove("heart")
Process == Start \/ Started \/ StartProbe \/ Stopped

Next ==
  \/ Owner \/ Enroll \/ Tick
  \/ Process \/ ProbeRuns \/ Signal \/ UnitStarts \/ Crash
  \/ TailStep \/ HeartStep
  \/ \E e \in Ids : Corrupts(e)

Spec == Init /\ [][Next]_vars

\* systemd restarts the collector after a crash, the API answers again, and goroutines run: the
\* ticker of the heartbeat fires, the tail finishes what it began.
FairSpec ==
  Spec /\ WF_vars(Process) /\ WF_vars(TailStep) /\ WF_vars(HeartStep)

-----------------------------------------------------------------------------
(* Properties *)

\* The types, and who is inside a flush: the holder of flushMu.
EdgeTypeOK ==
  /\ token \in {"none", "issued"} /\ source \in {"none", "pending", "linked"}
  /\ stored \subseteq Records /\ mine \in Nat /\ secret \in Nat
  /\ collector \in {"down", "replay", "up", "stopping", "halted"}
  /\ probe \in {"off", "on", "exited"} /\ raw \in Seq(Records) /\ work \subseteq Ids
  /\ \A p \in Procs : /\ at[p] \in {"idle", "lock", "next", "send", "remove"}
                      /\ at[p] \in {"next", "send", "remove"} <=> lock = p
  /\ todo \subseteq Ids /\ corrupt \subseteq Pending(disk)
  /\ used \in Nat /\ nextPrune <= now + 1

\* The secret the Pi was given stays the one the platform knows, whoever tries the
\* setup token again, or revokes it, afterwards (EnrollEdgeCollector).
SecretStaysValid == mine # 0 => Authenticated(mine)

\* An upload whose enqueue succeeded is on disk until the API has acknowledged it since,
\* it is older than the maximal age, or the file system damaged its file: over
\* crashes, restarts, failed sends, and the tail and the heartbeat sending and
\* replacing the same entry (enqueueLocked, flushPathLocked).
QueuedIsKept ==
  \A e \in Ids : queued[e] # Absent =>
     disk[e] # Absent \/ e \in acked \cup damaged \/ now > queued[e] + MaxAge

\* usedBytes is what the directory holds, and the directory holds at most MaxBytes,
\* but for files put in place by an enqueue that failed to sync the directory.
OutboxWithinBounds ==
  /\ loaded => used <= Size(disk) /\ Size(disk) <= used + drift
  /\ Size(disk) <= MaxBytes + drift

\* Whatever was left in the outbox is uploaded or has expired in the end, over failed
\* sends and crashes, unless the collector is stopped and nobody starts it again: by a
\* signal or by an authentication error (flush, runMain).
Replayed == <>[](mine = 0 \/ collector = "halted" \/ Pending(disk) = {})
=============================================================================
