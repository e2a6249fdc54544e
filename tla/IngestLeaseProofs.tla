-------------------------- MODULE IngestLeaseProofs --------------------------
(***************************************************************************)
(* Proofs about the ingest lease, for any set of tokens, any number of     *)
(* attempts and any bound on acquisitions and failures.                    *)
(*                                                                         *)
(* The argument has two halves.  The lock that the lease implements keeps  *)
(* its grants distinct and ordered: LockInv is inductive for it.  Every    *)
(* step of the lease is a step of that lock or leaves it alone, because    *)
(* the fence in the lease hash is always the counter's current value       *)
(* (FenceIsCurrent), so that what a renewal teaches its client is the      *)
(* number of the grant it holds.  The fencing properties of the lease are  *)
(* those of the lock under the refinement mapping.                         *)
(***************************************************************************)
EXTENDS IngestLease, TLAPS

\* What the scripts keep between the lease hash and the counter.
FenceIsCurrent == lease # NoLease => lease.token \in Tokens /\ lease.fence = fence

LeaseInv == LeaseTypeOK /\ FenceIsCurrent

------------------------------------------------------------------------------
\* The lock starts with no grant.
LEMMA LockInitInv == Lock!LockInit => Lock!LockInv
BY DEF Lock!LockInit, Lock!LockInv, Lock!LockTypeOK, Lock!GrantsDistinct,
       Lock!HolderIsNewest, Lock!KnownIsIssued

\* Every step of the fenced lock keeps its grants distinct and ordered.
LEMMA LockStepInv == Lock!LockInv /\ [Lock!LockNext]_(Lock!lockVars) => Lock!LockInv'
<1> SUFFICES ASSUME Lock!LockInv, [Lock!LockNext]_(Lock!lockVars)
             PROVE  Lock!LockInv'
    OBVIOUS
<1> USE DEF Lock!LockInv, Lock!LockTypeOK, Lock!GrantsDistinct,
            Lock!HolderIsNewest, Lock!KnownIsIssued
<1>1. CASE Lock!Vacate
    BY <1>1 DEF Lock!Vacate
<1>2. ASSUME NEW t \in Tokens, Lock!Grant(t)
      PROVE  Lock!LockInv'
    BY <1>2 DEF Lock!Grant
<1>3. ASSUME NEW t \in Tokens, Lock!Learn(t)
      PROVE  Lock!LockInv'
    BY <1>3 DEF Lock!Learn
<1>4. ASSUME NEW S \in SUBSET Tokens, Lock!Forget(S)
      PROVE  Lock!LockInv'
    BY <1>4 DEF Lock!Forget
<1>5. CASE UNCHANGED Lock!lockVars
    BY <1>5 DEF Lock!lockVars
<1>6. QED
    BY <1>1, <1>2, <1>3, <1>4, <1>5 DEF Lock!LockNext

------------------------------------------------------------------------------
\* An absent lease has no owner, and a lease with an owner is not absent.
LEMMA NoLeaseFacts ==
    /\ NoLease.token = NoToken
    /\ LeaseInv => (lease = NoLease <=> lease.token = NoToken)
BY LeaseAssumption DEF NoLease, LeaseInv, LeaseTypeOK, FenceIsCurrent

\* The scripts, one by one: the lease stays well formed and its fence stays the
\* value of the counter.
LEMMA AcquireScriptInv ==
    ASSUME LeaseInv, NEW t \in Tokens, AcquireScript(t)
    PROVE  /\ lease' \in {NoLease} \cup [token : Tokens, fence : Nat, state : {"active", "draining"}]
           /\ fence' \in Nat
           /\ FenceIsCurrent'
BY LeaseAssumption DEF LeaseInv, LeaseTypeOK, FenceIsCurrent, AcquireScript, NoLease

\* So do renewals, the draining one included.
LEMMA RenewScriptInv ==
    ASSUME LeaseInv, NEW t \in Tokens, NEW s \in {"active", "draining"}, RenewScript(t, s)
    PROVE  /\ lease' \in {NoLease} \cup [token : Tokens, fence : Nat, state : {"active", "draining"}]
           /\ fence' \in Nat
           /\ FenceIsCurrent'
BY LeaseAssumption DEF LeaseInv, LeaseTypeOK, FenceIsCurrent, RenewScript, NoLease

\* So does the release.
LEMMA ReleaseScriptInv ==
    ASSUME LeaseInv, NEW t \in Tokens, ReleaseScript(t)
    PROVE  /\ lease' \in {NoLease} \cup [token : Tokens, fence : Nat, state : {"active", "draining"}]
           /\ fence' \in Nat
           /\ FenceIsCurrent'
BY LeaseAssumption DEF LeaseInv, LeaseTypeOK, FenceIsCurrent, ReleaseScript, NoLease

\* Every step of clients, stray requests and time preserves types and fence.
LEMMA LeaseStepInv == LeaseInv /\ [LeaseNext]_leaseVars => LeaseInv'
<1> SUFFICES ASSUME LeaseInv, [LeaseNext]_leaseVars
             PROVE  LeaseInv'
    OBVIOUS
<1> USE DEF LeaseTypeOK, HbStates, CallStates
<1>1. CASE Expire
    BY <1>1 DEF Expire, LeaseInv, FenceIsCurrent
<1>2. ASSUME NEW r \in stray, StrayArrives(r)
      PROVE  LeaseInv'
    <2>1. r \in Requests
        BY <1>2 DEF LeaseInv
    <2>2. /\ lease' \in {NoLease} \cup [token : Tokens, fence : Nat, state : {"active", "draining"}]
          /\ fence' \in Nat
          /\ FenceIsCurrent'
        BY Zenon, <1>2, <2>1, AcquireScriptInv, RenewScriptInv, ReleaseScriptInv
           DEF StrayArrives, Execute, Requests
    <2>3. QED
        BY <1>2, <2>2 DEF StrayArrives, LeaseInv
<1>3. ASSUME NEW t \in Tokens, AcquireCall(t) \/ Tick(t) \/ SeeCancel(t) \/ Cancel(t)
      PROVE  LeaseInv'
    BY <1>3 DEF AcquireCall, Tick, SeeCancel, Cancel, Goto, LeaseInv, FenceIsCurrent
<1>4. ASSUME NEW t \in Tokens, AcquireReply(t) \/ ReacquireReply(t)
      PROVE  LeaseInv'
    BY <1>4, AcquireScriptInv DEF AcquireReply, ReacquireReply, Goto, Return, LeaseInv
<1>5. ASSUME NEW t \in Tokens, RenewReply(t)
      PROVE  LeaseInv'
    BY <1>5, RenewScriptInv DEF RenewReply, Goto, Return, LeaseInv, NoLease
<1>6. ASSUME NEW t \in Tokens, DrainReply(t)
      PROVE  LeaseInv'
    BY <1>6, RenewScriptInv DEF DrainReply, Goto, LeaseInv
<1>7. ASSUME NEW t \in Tokens, ReleaseReply(t)
      PROVE  LeaseInv'
    BY <1>7, ReleaseScriptInv DEF ReleaseReply, Goto, Return, LeaseInv
<1>8. ASSUME NEW t \in Tokens, CallFails(t) \/ CancelAborts(t)
      PROVE  LeaseInv'
    <2>1. hb[t] \in CallStates => [op |-> Op(hb[t]), token |-> t] \in Requests
        BY DEF Op, Requests
    <2>2. QED
        BY <1>8, <2>1 DEF CallFails, CancelAborts, Goto, Return, LeaseInv, FenceIsCurrent
<1>9. CASE UNCHANGED leaseVars
    BY <1>9 DEF leaseVars, LeaseInv, FenceIsCurrent
<1>10. QED
    BY <1>1, <1>2, <1>3, <1>4, <1>5, <1>6, <1>7, <1>8, <1>9 DEF LeaseNext, RunHeartbeat

\* Every reachable state of the lease is well formed, and the fence stored in the
\* lease hash is the newest one the counter has issued.
THEOREM LeaseTypeCorrect == LeaseSpec => [](LeaseTypeOK /\ FenceIsCurrent)
<1>1. LeaseInit => LeaseInv
    BY DEF LeaseInit, LeaseInv, LeaseTypeOK, FenceIsCurrent, HbStates, CallStates
<1>2. LeaseInv => LeaseTypeOK /\ FenceIsCurrent
    BY DEF LeaseInv
<1>3. QED
    BY <1>1, <1>2, LeaseStepInv, PTL DEF LeaseSpec

------------------------------------------------------------------------------
\* What the scripts do to the lock, with a client that learns nothing.
LEMMA ScriptRefines ==
    ASSUME LeaseInv, NEW t \in Tokens, NEW s \in {"active", "draining"},
           AcquireScript(t) \/ RenewScript(t, s) \/ ReleaseScript(t), UNCHANGED held
    PROVE  [Lock!LockNext]_(Lock!lockVars)
<1>1. CASE AcquireScript(t)
    BY <1>1, NoLeaseFacts
       DEF AcquireScript, Lock!LockNext, Lock!Grant, Lock!lockVars
<1>2. CASE RenewScript(t, s)
    <2>1. lease'.token = lease.token
        BY <1>2 DEF RenewScript, LeaseInv, LeaseTypeOK, NoLease
    <2>2. QED
        BY <1>2, <2>1 DEF RenewScript, Lock!lockVars
<1>3. CASE ReleaseScript(t)
    BY <1>3, LeaseAssumption, NoLeaseFacts DEF ReleaseScript, Lock!LockNext, Lock!Vacate, Lock!lockVars
<1>4. QED
    BY <1>1, <1>2, <1>3

\* Every step of the lease is a step of the fenced lock or leaves it alone.
LEMMA LeaseStepRefines ==
    LeaseInv /\ [LeaseNext]_leaseVars => [Lock!LockNext]_(Lock!lockVars)
<1> SUFFICES ASSUME LeaseInv, [LeaseNext]_leaseVars
             PROVE  [Lock!LockNext]_(Lock!lockVars)
    OBVIOUS
<1>1. CASE Expire
    BY <1>1, NoLeaseFacts DEF Expire, Lock!LockNext, Lock!Vacate
<1>2. ASSUME NEW r \in stray, StrayArrives(r)
      PROVE  [Lock!LockNext]_(Lock!lockVars)
    <2>1. r \in Requests
        BY <1>2 DEF LeaseInv, LeaseTypeOK
    <2>2. QED
        BY Zenon, <1>2, <2>1, ScriptRefines DEF StrayArrives, Execute, Requests
<1>3. ASSUME NEW t \in Tokens,
             \/ AcquireCall(t) \/ Tick(t) \/ SeeCancel(t) \/ Cancel(t)
             \/ CallFails(t) \/ CancelAborts(t)
      PROVE  [Lock!LockNext]_(Lock!lockVars)
    BY <1>3 DEF AcquireCall, Tick, SeeCancel, Cancel, CallFails, CancelAborts, Lock!lockVars
<1>4. ASSUME NEW t \in Tokens, AcquireReply(t) \/ ReacquireReply(t)
      PROVE  [Lock!LockNext]_(Lock!lockVars)
    <2>1. CASE lease = NoLease
        BY <1>4, <2>1, NoLeaseFacts
           DEF AcquireReply, ReacquireReply, AcquireScript, Lock!LockNext, Lock!Grant
    <2>2. CASE lease # NoLease
        BY <1>4, <2>2 DEF AcquireReply, ReacquireReply, AcquireScript, Lock!lockVars
    <2>3. QED
        BY <2>1, <2>2
<1>5. ASSUME NEW t \in Tokens, RenewReply(t)
      PROVE  [Lock!LockNext]_(Lock!lockVars)
    <2>1. lease'.token = lease.token /\ fence' = fence
        BY <1>5 DEF RenewReply, RenewScript, LeaseInv, LeaseTypeOK, NoLease
    <2>2. CASE lease.token = t /\ held' = [held EXCEPT ![t] = lease.fence]
        <3>1. lease # NoLease /\ lease.token # NoToken /\ lease.fence = fence
            BY <2>2, NoLeaseFacts, LeaseAssumption DEF LeaseInv, FenceIsCurrent
        <3>2. Lock!Learn(t)
            BY <2>1, <2>2, <3>1 DEF Lock!Learn
        <3>3. QED
            BY <3>2 DEF Lock!LockNext
    <2>3. CASE UNCHANGED held
        BY <2>1, <2>3 DEF Lock!lockVars
    <2>4. QED
        BY <1>5, <2>2, <2>3 DEF RenewReply
<1>6. ASSUME NEW t \in Tokens, DrainReply(t) \/ ReleaseReply(t)
      PROVE  [Lock!LockNext]_(Lock!lockVars)
    BY <1>6, ScriptRefines DEF DrainReply, ReleaseReply
<1>7. CASE UNCHANGED leaseVars
    BY <1>7 DEF leaseVars, Lock!lockVars
<1>8. QED
    BY <1>1, <1>2, <1>3, <1>4, <1>5, <1>6, <1>7 DEF LeaseNext, RunHeartbeat

\* The scripts and the heartbeats, with every failure of their calls, implement
\* the fenced lock.
THEOREM LeaseImplementsFencedLock == LeaseSpec => ImplementsFencedLock
<1>1. LeaseInit => Lock!LockInit
    BY NoLeaseFacts DEF LeaseInit, Lock!LockInit
<1>2. LeaseSpec => []LeaseInv
    BY LeaseTypeCorrect, PTL DEF LeaseInv
<1>3. QED
    BY <1>1, <1>2, LeaseStepRefines, PTL DEF LeaseSpec, ImplementsFencedLock, Lock!LockSpec

\* The lock's own invariant holds of the lease, through the refinement.
LEMMA LockInvHolds == LeaseSpec => [](LeaseInv /\ Lock!LockInv)
<1>1. LeaseSpec => []Lock!LockInv
    BY LeaseImplementsFencedLock, LockInitInv, LockStepInv, PTL
       DEF ImplementsFencedLock, Lock!LockSpec
<1>2. LeaseSpec => []LeaseInv
    BY LeaseTypeCorrect, PTL DEF LeaseInv
<1>3. QED
    BY <1>1, <1>2, PTL

\* Fencing, one half: no two clients ever believe in the same fence, whatever calls
\* were lost, repeated or executed late.
THEOREM FencesAreDistinct == LeaseSpec => []FencesDistinct
<1>1. LeaseInv /\ Lock!LockInv => FencesDistinct
    BY DEF Lock!LockInv, Lock!GrantsDistinct, FencesDistinct
<1>2. QED
    BY <1>1, LockInvHolds, PTL

\* Fencing, the other half: the client that holds the lease carries a larger fence than
\* every client that lost it.
THEOREM OwnerIsNewest == LeaseSpec => []OwnerOutranksStale
<1>1. LeaseInv /\ Lock!LockInv => OwnerOutranksStale
    BY NoLeaseFacts
       DEF Lock!LockInv, Lock!HolderIsNewest, LeaseInv, FenceIsCurrent, OwnerOutranksStale
<1>2. QED
    BY <1>1, LockInvHolds, PTL

------------------------------------------------------------------------------
(* Action properties and the lease as the ingest loop sees it.             *)

\* While one token holds the lease, no call of another client changes it, answered or
\* executed after its caller gave up on it: acquire refuses an existing lease, and the other
\* scripts compare the token before they write.
THEOREM StaleClientsAreHarmless == LeaseSpec => NonOwnerIsHarmless
<1> DEFINE Harmless ==
        \A t \in Tokens :
          (hb'[t] # hb[t] \/ Arrives(t)) /\ lease.token \notin {t, NoToken} => lease' = lease
<1>1. LeaseInv /\ [LeaseNext]_leaseVars => [Harmless]_leaseVars
    <2> SUFFICES ASSUME LeaseInv, LeaseNext,
                        NEW t \in Tokens, hb'[t] # hb[t] \/ Arrives(t),
                        lease.token \notin {t, NoToken}
                 PROVE  lease' = lease
        BY DEF leaseVars
    <2>1. lease # NoLease
        BY NoLeaseFacts
    <2>2. hb \in [Tokens -> HbStates]
        BY DEF LeaseInv, LeaseTypeOK
    <2>3. ASSUME NEW r \in stray, StrayArrives(r) PROVE lease' = lease
        <3>1. r.token = t /\ r \in Requests
            BY <2>3 DEF StrayArrives, Arrives, LeaseInv, LeaseTypeOK
        <3>2. \/ AcquireScript(t) \/ RenewScript(t, "active") \/ RenewScript(t, "draining")
              \/ ReleaseScript(t)
            BY <2>3, <3>1 DEF StrayArrives, Execute, Requests
        <3>3. QED
            BY <2>1, <3>2 DEF AcquireScript, RenewScript, ReleaseScript
    <2>4. CASE Expire
        BY <2>4 DEF Expire, Arrives
    <2>5. ASSUME NEW u \in Tokens,
                 \/ AcquireCall(u) \/ Tick(u) \/ SeeCancel(u) \/ Cancel(u)
                 \/ CallFails(u) \/ CancelAborts(u)
          PROVE  lease' = lease
        BY <2>5 DEF AcquireCall, Tick, SeeCancel, Cancel, CallFails, CancelAborts
    <2>6. ASSUME NEW u \in Tokens, AcquireReply(u) \/ ReacquireReply(u)
          PROVE  lease' = lease
        BY <2>1, <2>6 DEF AcquireReply, ReacquireReply, AcquireScript
    <2>7. ASSUME NEW u \in Tokens, RenewReply(u) \/ DrainReply(u) \/ ReleaseReply(u)
          PROVE  lease' = lease
        <3>1. u = t
            BY <2>2, <2>7 DEF RenewReply, DrainReply, ReleaseReply, Goto, Return, Arrives
        <3>2. QED
            BY <2>7, <3>1 DEF RenewReply, DrainReply, ReleaseReply, RenewScript, ReleaseScript
    <2>8. QED
        BY <2>3, <2>4, <2>5, <2>6, <2>7 DEF LeaseNext, RunHeartbeat
<1>2. LeaseSpec => []LeaseInv
    BY LeaseTypeCorrect, PTL DEF LeaseInv
<1>3. QED
    BY <1>1, <1>2, PTL DEF LeaseSpec, NonOwnerIsHarmless

\* DrainAndRelease is entered from a done context only: a client that never was cancelled
\* never gives its lease back.
DrainingIsCancelled == \A t \in Tokens : hb[t] \in {"draining", "releasing"} => t \in cancelled

\* No step leads to the drain without a cancellation.
LEMMA DrainingStep ==
    LeaseInv /\ DrainingIsCancelled /\ [LeaseNext]_leaseVars => DrainingIsCancelled'
<1> SUFFICES ASSUME LeaseInv, DrainingIsCancelled, [LeaseNext]_leaseVars
             PROVE  DrainingIsCancelled'
    OBVIOUS
<1> USE DEF DrainingIsCancelled
<1>1. hb \in [Tokens -> HbStates]
    BY DEF LeaseInv, LeaseTypeOK
<1>2. CASE UNCHANGED <<hb, cancelled>>
    BY <1>2
<1>3. ASSUME NEW t \in Tokens,
             \/ AcquireCall(t) \/ Tick(t) \/ SeeCancel(t) \/ Cancel(t)
             \/ CallFails(t) \/ CancelAborts(t)
      PROVE  DrainingIsCancelled'
    BY <1>1, <1>3
       DEF AcquireCall, Tick, SeeCancel, Cancel, CallFails, CancelAborts, Goto, Return
<1>4. ASSUME NEW t \in Tokens, AcquireReply(t) \/ ReacquireReply(t) \/ RenewReply(t)
      PROVE  DrainingIsCancelled'
    BY <1>1, <1>4 DEF AcquireReply, ReacquireReply, RenewReply, Goto, Return
<1>5. ASSUME NEW t \in Tokens, DrainReply(t) \/ ReleaseReply(t)
      PROVE  DrainingIsCancelled'
    BY <1>1, <1>5 DEF DrainReply, ReleaseReply, Goto, Return
<1>6. QED
    BY <1>2, <1>3, <1>4, <1>5 DEF LeaseNext, RunHeartbeat, Expire, StrayArrives, leaseVars

\* The refinement mapping follows the program counter of one client.
LEMMA PhaseMoves ==
    ASSUME LeaseInv, NEW t \in Tokens, NEW s \in HbStates, Goto(t, s)
    PROVE  /\ Client!To(t, Phase(s))
           /\ Phase(s) = Phase(hb[t]) =>
                [u \in Tokens |-> Phase(hb[u])]' = [u \in Tokens |-> Phase(hb[u])]
<1>1. hb \in [Tokens -> HbStates] /\ hb' = [hb EXCEPT ![t] = s]
    BY DEF LeaseInv, LeaseTypeOK, Goto
<1>2. \A u \in Tokens : Phase(hb'[u]) = IF u = t THEN Phase(s) ELSE Phase(hb[u])
    BY <1>1
<1> HIDE DEF Phase
<1>3. QED
    BY Zenon, <1>2 DEF Client!To

\* What the scripts do to the lease as its clients see it, when no client moves.
LEMMA ScriptIsClientStep ==
    ASSUME LeaseInv, NEW t \in Tokens, NEW s \in {"active", "draining"},
           AcquireScript(t) \/ RenewScript(t, s) \/ ReleaseScript(t), UNCHANGED <<hb, cancelled>>
    PROVE  [Client!ClientNext]_(Client!clientVars)
<1> DEFINE phases == [u \in Tokens |-> Phase(hb[u])]
<1>1. phases' = phases
    BY DEF Phase
<1>2. CASE AcquireScript(t) /\ lease = NoLease
    <2>1. Client!GrantedLate(t)
        BY <1>1, <1>2, NoLeaseFacts DEF AcquireScript, Client!GrantedLate
    <2>2. QED
        BY <2>1 DEF Client!ClientNext
<1>3. CASE ReleaseScript(t) /\ lease.token = t
    <2>1. Client!Lapses
        BY <1>1, <1>3, NoLeaseFacts, LeaseAssumption DEF ReleaseScript, Client!Lapses
    <2>2. QED
        BY <2>1 DEF Client!ClientNext
<1>4. CASE lease'.token = lease.token
    BY <1>1, <1>4 DEF Client!clientVars
<1>5. RenewScript(t, s) => lease'.token = lease.token
    BY DEF RenewScript, LeaseInv, LeaseTypeOK, NoLease
<1>6. QED
    BY <1>2, <1>3, <1>4, <1>5 DEF AcquireScript, ReleaseScript

\* Every step of the lease is one that the ingest loop's view of it allows, or is not
\* visible to the loop.
LEMMA LeaseStepIsClientStep ==
    LeaseInv /\ DrainingIsCancelled /\ [LeaseNext]_leaseVars
      => [Client!ClientNext]_(Client!clientVars)
<1> SUFFICES ASSUME LeaseInv, DrainingIsCancelled, [LeaseNext]_leaseVars
             PROVE  [Client!ClientNext]_(Client!clientVars)
    OBVIOUS
<1> DEFINE phases == [u \in Tokens |-> Phase(hb[u])]
<1>0. hb \in [Tokens -> HbStates] /\ \A t \in Tokens : phases[t] = Phase(hb[t])
    BY DEF LeaseInv, LeaseTypeOK
<1>p. /\ Phase("unused") = "unused" /\ Phase("acquiring") = "asking" /\ Phase("exited") = "exited"
      /\ \A s \in {"beating", "renewing", "reacquiring", "draining", "releasing"} : Phase(s) = "beating"
    BY DEF Phase
<1>s. {"unused", "acquiring", "exited", "beating", "renewing", "reacquiring", "draining",
       "releasing"} = HbStates
    BY DEF HbStates, CallStates
<1> HIDE DEF phases
<1>1. CASE Expire
    <2>1. Client!Lapses
        BY <1>1, NoLeaseFacts DEF Expire, Client!Lapses
    <2>2. QED
        BY <2>1 DEF Client!ClientNext
<1>2. ASSUME NEW r \in stray, StrayArrives(r)
      PROVE  [Client!ClientNext]_(Client!clientVars)
    <2>1. r \in Requests
        BY <1>2 DEF LeaseInv, LeaseTypeOK
    <2>2. QED
        BY Zenon, <1>2, <2>1, ScriptIsClientStep DEF StrayArrives, Execute, Requests
<1>3. ASSUME NEW t \in Tokens, AcquireCall(t)
      PROVE  Client!Ask(t)
    <2>1. Client!To(t, "asking")
        BY <1>3, <1>p, <1>s, PhaseMoves DEF AcquireCall
    <2>2. QED
        BY <1>3, <1>0, <1>p, <2>1 DEF AcquireCall, Client!Ask, phases
<1>4. ASSUME NEW t \in Tokens, Tick(t) \/ SeeCancel(t)
      PROVE  UNCHANGED Client!clientVars
    <2>1. phases' = phases
        BY <1>4, <1>p, <1>s, PhaseMoves DEF Tick, SeeCancel, phases
    <2>2. QED
        BY <1>4, <2>1 DEF Tick, SeeCancel, Client!clientVars, phases
<1>5. ASSUME NEW t \in Tokens, Cancel(t)
      PROVE  Client!Cancels(t)
    BY <1>5 DEF Cancel, Client!Cancels
<1>6. ASSUME NEW t \in Tokens, Return(t, "error"), UNCHANGED <<lease, cancelled>>,
             hb[t] \in CallStates
      PROVE  Client!GivesUp(t)
    <2>1. Client!To(t, "exited")
        BY <1>6, <1>p, <1>s, PhaseMoves DEF Return
    <2>2. phases[t] \in {"asking", "beating"}
        BY <1>6, <1>0, <1>p DEF CallStates
    <2>3. QED
        BY <1>6, <2>1, <2>2 DEF Client!GivesUp, phases
<1>7. ASSUME NEW t \in Tokens, CallFails(t) \/ CancelAborts(t)
      PROVE  Client!GivesUp(t) \/ UNCHANGED Client!clientVars
    <2>1. CASE UNCHANGED hb
        BY <1>7, <2>1 DEF CallFails, CancelAborts, Client!clientVars
    <2>2. CASE Return(t, "error")
        BY <1>6, <1>7, <2>2 DEF CallFails, CancelAborts, CallStates
    <2>3. QED
        BY <1>7, <2>1, <2>2 DEF CallFails, CancelAborts
<1>8. ASSUME NEW t \in Tokens, AcquireReply(t)
      PROVE  Client!Granted(t) \/ Client!GivesUp(t)
    <2>1. phases[t] = "asking"
        BY <1>8, <1>0, <1>p DEF AcquireReply
    <2>2. CASE lease = NoLease
        <3>1. Client!To(t, "beating")
            BY <1>8, <2>2, <1>p, <1>s, PhaseMoves DEF AcquireReply
        <3>2. QED
            BY <1>8, <2>1, <2>2, <3>1, NoLeaseFacts
               DEF AcquireReply, AcquireScript, Client!Granted, phases
    <2>3. CASE lease # NoLease
        <3>1. Client!To(t, "exited")
            BY <1>8, <2>3, <1>p, <1>s, PhaseMoves DEF AcquireReply, Return
        <3>2. QED
            BY <1>8, <2>1, <2>3, <3>1 DEF AcquireReply, AcquireScript, Client!GivesUp, phases
    <2>4. QED
        BY <2>2, <2>3
<1>9. ASSUME NEW t \in Tokens, ReacquireReply(t)
      PROVE  Client!Reacquires(t) \/ Client!GivesUp(t)
    <2>1. phases[t] = "beating"
        BY <1>9, <1>0, <1>p DEF ReacquireReply
    <2>2. CASE lease = NoLease
        <3>1. phases' = phases
            BY <1>9, <2>2, <1>p, <1>s, PhaseMoves DEF ReacquireReply, phases
        <3>2. QED
            BY <1>9, <2>1, <2>2, <3>1, NoLeaseFacts
               DEF ReacquireReply, AcquireScript, Client!Reacquires, phases
    <2>3. CASE lease # NoLease
        <3>1. Client!To(t, "exited")
            BY <1>9, <2>3, <1>p, <1>s, PhaseMoves DEF ReacquireReply, Return
        <3>2. QED
            BY <1>9, <2>1, <2>3, <3>1 DEF ReacquireReply, AcquireScript, Client!GivesUp, phases
    <2>4. QED
        BY <2>2, <2>3
<1>10. ASSUME NEW t \in Tokens, RenewReply(t) \/ DrainReply(t)
       PROVE  Client!GivesUp(t) \/ UNCHANGED Client!clientVars
    <2>1. phases[t] = "beating" /\ Phase(hb[t]) = "beating"
        BY <1>10, <1>0, <1>p DEF RenewReply, DrainReply
    <2>2. lease'.token = lease.token /\ UNCHANGED cancelled
        BY <1>10 DEF RenewReply, DrainReply, RenewScript, LeaseInv, LeaseTypeOK, NoLease
    <2>3. CASE Goto(t, "exited")
        <3>1. Client!To(t, "exited")
            BY <2>3, <1>p, <1>s, PhaseMoves
        <3>2. QED
            BY <2>1, <2>2, <3>1 DEF Client!GivesUp, phases
    <2>4. ASSUME NEW s \in {"beating", "reacquiring", "releasing"}, Goto(t, s)
          PROVE  UNCHANGED Client!clientVars
        <3>1. phases' = phases
            BY <2>1, <2>4, <1>p, <1>s, PhaseMoves DEF phases
        <3>2. QED
            BY <2>2, <3>1 DEF Client!clientVars, phases
    <2>5. QED
        BY <1>10, <2>3, <2>4 DEF RenewReply, DrainReply, Return
<1>11. ASSUME NEW t \in Tokens, ReleaseReply(t)
       PROVE  Client!Releases(t)
    <2>1. phases[t] = "beating" /\ t \in cancelled
        BY <1>11, <1>0, <1>p DEF ReleaseReply, DrainingIsCancelled
    <2>2. Client!To(t, "exited")
        BY <1>11, <1>p, <1>s, PhaseMoves DEF ReleaseReply, Return
    <2>3. lease'.token = IF lease.token = t THEN NoToken ELSE lease.token
        BY <1>11, NoLeaseFacts DEF ReleaseReply, ReleaseScript
    <2>4. QED
        BY <1>11, <2>1, <2>2, <2>3 DEF ReleaseReply, Client!Releases, phases
<1>12. CASE UNCHANGED leaseVars
    BY <1>12 DEF leaseVars, Client!clientVars
<1>13. QED
    BY <1>1, <1>2, <1>3, <1>4, <1>5, <1>7, <1>8, <1>9, <1>10, <1>11, <1>12
       DEF LeaseNext, RunHeartbeat, Client!ClientNext

\* Scripts and heartbeats, with every failure of their calls, implement the lease that
\* the ingest loop is built on: a heartbeat runs only after a grant of a free lease, and
\* the lease changes hands only by release of its own token or by expiry.
THEOREM LeaseImplementsLeaseClient == LeaseSpec => ImplementsLeaseClient
<1>1. LeaseInit => Client!ClientInit /\ DrainingIsCancelled
    BY NoLeaseFacts DEF LeaseInit, Client!ClientInit, DrainingIsCancelled, Phase
<1>2. LeaseSpec => []LeaseInv
    BY LeaseTypeCorrect, PTL DEF LeaseInv
<1>3. QED
    BY <1>1, <1>2, DrainingStep, LeaseStepIsClientStep, PTL
       DEF LeaseSpec, ImplementsLeaseClient, Client!ClientSpec
==============================================================================
