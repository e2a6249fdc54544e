-------------------------- MODULE IngestLoopProofs ---------------------------
(***************************************************************************)
(* LiveIsRegistered and AtMostOneLive for any number of workers, tokens    *)
(* and changes, and any scenario.                                          *)
(*                                                                         *)
(* A session not told to stop is the registered one because every          *)
(* operation that deregisters a session cancels it in the same step, and a *)
(* session is spawned only under a token of the worker that drew it.  It   *)
(* has the lease because, while nothing lapses, a heartbeat that is not    *)
(* cancelled never stops and is the one the lease was granted to.          *)
(***************************************************************************)
EXTENDS IngestLoop, TLAPS

\* The types the argument needs.
LoopTypes ==
    /\ phase \in [Tokens -> Phases]
    /\ pc \in [Workers -> {"idle", "listed", "acquiring", "stopping", "down"}]
    /\ drawn \in [Workers -> Tokens \cup {NoToken}]
    /\ running \in [Workers -> Tokens \cup {NoToken}]
    /\ sess \in [Tokens -> {"none", "running", "ended"}]
    /\ lapses \in Nat

\* A worker waits for the Acquire of a token of its own.
DrawnIsOwn == \A w \in Workers : pc[w] = "acquiring" => drawn[w] \in TokensOf(w)

\* Unless something lapsed, a heartbeat or session that is not cancelled has the lease,
\* and its heartbeat is running.
BeatingHolds ==
    lapses = 0 =>
       \A t \in Tokens :
          t \notin cancelled /\ (phase[t] = "beating" \/ sess[t] = "running")
             => phase[t] = "beating" /\ holder = t

LoopInv == LoopTypes /\ DrawnIsOwn /\ LiveIsRegistered /\ BeatingHolds

\* A token belongs to a worker.
LEMMA OwnerIsWorker == \A t \in Tokens : Owner(t) \in Workers
BY LoopAssumption DEF Owner

\* No session runs at first.
LEMMA LoopInvInit == LoopInit => LoopInv
BY OwnerIsWorker DEF LoopInit, ClientInit, LoopInv, LoopTypes, DrawnIsOwn, LiveIsRegistered,
   BeatingHolds, Live, Phases, ScenarioType

\* Steps that leave alone what the invariant is about, but cancel more.
LEMMA LoopInvFrame ==
    ASSUME LoopInv,
           UNCHANGED <<holder, phase, drawn, running, sess, lapses>>,
           cancelled \subseteq cancelled',
           pc' \in [Workers -> {"idle", "listed", "acquiring", "stopping", "down"}],
           \A w \in Workers : pc'[w] = "acquiring" => pc[w] = "acquiring"
    PROVE  LoopInv'
BY DEF LoopInv, LoopTypes, DrawnIsOwn, TokensOf, LiveIsRegistered, BeatingHolds, Live, Owner

\* Steps that deregister the session of a worker and cancel it.
LEMMA Deregisters ==
    ASSUME LoopInv, NEW w \in Workers,
           UNCHANGED <<holder, phase, drawn, sess, lapses>>,
           \/ running' = running
           \/ /\ running' = [running EXCEPT ![w] = NoToken]
              /\ running[w] \in Tokens => running[w] \in cancelled',
           cancelled \subseteq cancelled',
           pc' \in [Workers -> {"idle", "listed", "acquiring", "stopping", "down"}],
           \A v \in Workers : pc'[v] = "acquiring" => pc[v] = "acquiring"
    PROVE  LoopInv'
<1> USE DEF LoopInv
<1>1. LoopTypes' /\ DrawnIsOwn' /\ BeatingHolds'
  BY DEF LoopTypes, DrawnIsOwn, TokensOf, BeatingHolds, Owner
<1>2. LiveIsRegistered'
  BY SMTT(30), OwnerIsWorker DEF LoopTypes, LiveIsRegistered, Live
<1> QED BY <1>1, <1>2

\* Every step of workers, heartbeats, sessions and users keeps the invariant.
LEMMA LoopInvStep == LoopInv /\ [LoopNext]_vars => LoopInv'
<1> SUFFICES ASSUME LoopInv, [LoopNext]_vars PROVE LoopInv'
  OBVIOUS
<1> USE DEF LoopInv
<1>1. CASE UNCHANGED vars
  BY <1>1, LoopInvFrame DEF vars, clientVars, loopVars, LoopTypes
<1>2. ASSUME NEW c \in Configs \cup {Off}, UserChanges(c) PROVE LoopInv'
  BY ZenonT(60), ZenonT(60), <1>2, LoopInvFrame DEF UserChanges, clientVars, LoopTypes
<1>3. ASSUME NEW w \in Workers, HandleTermination(w) \/ ReconcileList(w) PROVE LoopInv'
  BY SMTT(30), <1>3, Deregisters DEF HandleTermination, ReconcileList, DrainTerminated, LoopTypes
<1>4. ASSUME NEW w \in Workers, ReconcileStop(w) PROVE LoopInv'
  <2>1. CASE Keeps(w)
    <3>1. DrainTerminated(w, running[w]) /\ pc' = [pc EXCEPT ![w] = "idle"]
          /\ UNCHANGED <<holder, phase, drawn, sess, lapses>>
      BY <1>4, <2>1 DEF ReconcileStop
    <3> QED BY Zenon, <3>1, Deregisters DEF DrainTerminated, LoopTypes
  <2>2. CASE ~Keeps(w)
    BY SMTT(30), <1>4, <2>2, Deregisters, LoopAssumption DEF ReconcileStop, Stops, LoopTypes
  <2> QED BY <2>1, <2>2
<1>5. ASSUME NEW w \in Workers, NEW t \in Tokens, StartSession(w, t) PROVE LoopInv'
  <2> USE <1>5 DEF StartSession, To, NextToken
  <2>1. LoopTypes'
    BY DEF LoopTypes, Phases
  <2>2. DrawnIsOwn'
    BY DEF LoopTypes, DrawnIsOwn, TokensOf, Owner
  <2>3. LiveIsRegistered'
    BY OwnerIsWorker, LoopAssumption DEF LoopTypes, LiveIsRegistered, Live, Stops
  <2>4. BeatingHolds'
    BY DEF LoopTypes, BeatingHolds
  <2> QED BY <2>1, <2>2, <2>3, <2>4
<1>6. ASSUME NEW w \in Workers, SpawnSession(w) PROVE LoopInv'
  <2> DEFINE t == drawn[w]
  <2> USE <1>6 DEF SpawnSession
  <2>0. t \in Tokens /\ Owner(t) = w
    BY DEF DrawnIsOwn, TokensOf
  <2>1. LoopTypes' /\ DrawnIsOwn'
    BY <2>0 DEF LoopTypes, DrawnIsOwn, TokensOf, Owner
  <2>2. LiveIsRegistered'
    BY <2>0, OwnerIsWorker, LoopAssumption DEF LoopTypes, LiveIsRegistered, Live
  <2>3. BeatingHolds'
    BY <2>0 DEF LoopTypes, BeatingHolds
  <2> QED BY <2>1, <2>2, <2>3
<1>7. ASSUME NEW w \in Workers, StartFails(w) PROVE LoopInv'
  BY SMTT(30), <1>7 DEF StartFails, clientVars, LoopTypes, DrawnIsOwn, TokensOf, Owner,
     LiveIsRegistered, BeatingHolds, Live
<1>8. ASSUME NEW w \in Workers, StopAll(w) \/ Restart(w) \/ CooldownPasses(w) \/ Shutdown(w)
      PROVE LoopInv'
  BY SMTT(30), <1>8, LoopInvFrame DEF StopAll, Restart, CooldownPasses, Shutdown, clientVars, LoopTypes
<1>9. ASSUME NEW w \in Workers, Dies(w) PROVE LoopInv'
  <2> USE <1>9 DEF Dies
  <2>1. LoopTypes' /\ DrawnIsOwn'
    BY DEF LoopTypes, DrawnIsOwn, TokensOf, Owner, Phases
  <2>2. LiveIsRegistered'
    BY OwnerIsWorker DEF LoopTypes, LiveIsRegistered, Live, TokensOf
  <2>3. BeatingHolds'
    BY DEF LoopTypes, BeatingHolds, TokensOf
  <2> QED BY <2>1, <2>2, <2>3
<1>10. ASSUME NEW t \in Tokens, SessionEnds(t) PROVE LoopInv'
  BY <1>10 DEF SessionEnds, clientVars, LoopTypes, DrawnIsOwn, TokensOf, Owner,
     LiveIsRegistered, BeatingHolds, Live
<1>11. ASSUME NEW t \in Tokens, publishQuotaSnapshot(t) PROVE LoopInv'
  BY <1>11, LoopInvFrame DEF publishQuotaSnapshot, clientVars, LoopTypes
<1>12. ASSUME NEW t \in Tokens, LeaseStep(t) PROVE LoopInv'
  <2> USE <1>12 DEF LeaseStep
  <2>1. LoopTypes' /\ DrawnIsOwn' /\ LiveIsRegistered'
    BY DEF Answered, Granted, GivesUp, Reacquires, Releases, To, Phases, LoopTypes, DrawnIsOwn,
       TokensOf, Owner, LiveIsRegistered, Live
  <2>2. BeatingHolds'
    BY LoopAssumption DEF Answered, Granted, GivesUp, Reacquires, Releases, To, LoopTypes,
       BeatingHolds
  <2> QED BY <2>1, <2>2
<1>13. ASSUME NEW t \in Tokens, LeaseFails(t) PROVE LoopInv'
  BY <1>13 DEF LeaseFails, GivesUp, Lapses, GrantedLate, To, Phases, LoopTypes, DrawnIsOwn,
     TokensOf, Owner, LiveIsRegistered, Live, BeatingHolds
<1>14. ASSUME LeaseExpires PROVE LoopInv'
  BY <1>14 DEF LeaseExpires, Abandoned, Lapses, loopVars, LoopTypes, DrawnIsOwn,
     TokensOf, Owner, LiveIsRegistered, Live, BeatingHolds
<1> QED
  BY <1>1, <1>2, <1>3, <1>4, <1>5, <1>6, <1>7, <1>8, <1>9, <1>10, <1>11, <1>12, <1>13, <1>14
     DEF LoopNext, RunStep, Stopped, Crash

\* As long as nothing lapsed at most one session of the device anywhere is not told to
\* stop: reconcile, termination events, shutdowns, crashes and restarts included.
THEOREM SessionsAreExclusive == LoopSpec => []AtMostOneLive
<1>1. LoopInv => AtMostOneLive
  BY DEF LoopInv, LoopTypes, BeatingHolds, AtMostOneLive, Live
<1> QED BY <1>1, LoopInvInit, LoopInvStep, PTL DEF LoopSpec

\* No session escapes its worker's books: whatever runs without having been told to stop
\* is the entry reconcile and the event handlers find in the map of sessions.
THEOREM SessionsAreRegistered == LoopSpec => []LiveIsRegistered
<1>1. LoopInv => LiveIsRegistered
  BY DEF LoopInv
<1> QED BY <1>1, LoopInvInit, LoopInvStep, PTL DEF LoopSpec
==============================================================================
