----------------------------- MODULE IngestLease -----------------------------
(***************************************************************************)
(* The Valkey lease that decides which ingest worker may run the MQTT      *)
(* session of one provider device (internal/ingestlease).                  *)
(*                                                                         *)
(* The server side is three Lua scripts, each atomic, over a lease hash, a *)
(* session hash that is always written with it, and a fence counter that   *)
(* never expires.  The client side is one heartbeat process per token:     *)
(* Manager.Acquire, then Manager.RunHeartbeat until the token's context is *)
(* cancelled or ownership is lost.                                         *)
(*                                                                         *)
(* A script call is sent, executed and answered in one step unless it      *)
(* fails.  A failed call (connection reset, EOF, timeout, cancelled        *)
(* context) leaves its request in `stray': the server may execute it at    *)
(* any later moment, or never, and the client learns nothing of it.  The   *)
(* client then retries or gives up, as execScript does.                    *)
(*                                                                         *)
(* The keys of different devices never meet (one hash tag per device), so  *)
(* the module models one device.                                           *)
(***************************************************************************)
EXTENDS Integers, FiniteSets

CONSTANTS Tokens,        \* lease tokens: one per session start
          NoToken,       \* the token field of an absent lease
          MaxAttempts,   \* RetryPolicy.MaxAttempts
          MaxFence,      \* bound: a lease with this fence expires only when abandoned
          MaxStray       \* bound on failed calls; 0 is a network that never fails

ASSUME LeaseAssumption ==
    /\ NoToken \notin Tokens
    /\ MaxAttempts \in Nat \ {0}
    /\ MaxFence \in Nat
    /\ MaxStray \in Nat

VARIABLES
    lease,     \* the lease and session hashes, or NoLease once expired or deleted
    fence,     \* the fence counter
    stray,     \* requests whose call failed and that may still execute
    hb,        \* program counter of the token's client
    cancelled, \* tokens whose context (runCtx) is done
    attempt,   \* failed attempts of the token's current call
    held,      \* lease.Fence as the client of the token knows it, 0 before
    exit       \* what RunHeartbeat returned

leaseVars == <<lease, fence, stray, hb, cancelled, attempt, held, exit>>

NoLease == [token |-> NoToken, fence |-> 0, state |-> "none"]

\* The call a client in this state is waiting for.
Op(s) ==
    CASE s \in {"acquiring", "reacquiring"} -> "acquire"
      [] s = "renewing"  -> "renew"
      [] s = "draining"  -> "drain"
      [] s = "releasing" -> "release"

CallStates == {"acquiring", "renewing", "reacquiring", "draining", "releasing"}
HbStates == CallStates \cup {"unused", "beating", "exited"}
Requests == [op : {"acquire", "renew", "drain", "release"}, token : Tokens]

\* The types of what Redis holds and of what the clients believe.
LeaseTypeOK ==
    /\ lease \in {NoLease} \cup [token : Tokens, fence : Nat, state : {"active", "draining"}]
    /\ fence \in Nat
    /\ stray \subseteq Requests
    /\ hb \in [Tokens -> HbStates]
    /\ cancelled \subseteq Tokens
    /\ attempt \in [Tokens -> Nat]
    /\ held \in [Tokens -> Nat]
    /\ exit \in [Tokens -> {"none", "nil", "error", "rejected", "denied"}]

LeaseInit ==
    /\ lease = NoLease
    /\ fence = 0
    /\ stray = {}
    /\ hb = [t \in Tokens |-> "unused"]
    /\ cancelled = {}
    /\ attempt = [t \in Tokens |-> 0]
    /\ held = [t \in Tokens |-> 0]
    /\ exit = [t \in Tokens |-> "none"]

------------------------------------------------------------------------------
(* The Lua scripts.                                                        *)

\* Mutant: the fence counter is read but not incremented.
AcquireScriptWithoutIncr(t) ==
    /\ lease' = IF lease = NoLease
                THEN [token |-> t, fence |-> fence + 1, state |-> "active"]
                ELSE lease
    /\ UNCHANGED fence

\* Mutant: the lease hash is written without asking whether it exists.
AcquireScriptWithoutExists(t) ==
    /\ fence' = fence + 1
    /\ lease' = [token |-> t, fence |-> fence + 1, state |-> "active"]

\* leaseAcquireScript: an existing lease denies, whoever holds it; otherwise
\* the counter is incremented and the lease written with the new fence.
AcquireScript(t) ==
    IF lease = NoLease
    THEN /\ fence' = fence + 1
         /\ lease' = [token |-> t, fence |-> fence + 1, state |-> "active"]
    ELSE UNCHANGED <<lease, fence>>

\* Mutant: a missing lease hash is not noticed, and HSET creates one.
RenewScriptWithoutExists(t, state) ==
    /\ lease' = IF lease.token \in {t, NoToken} THEN [lease EXCEPT !.state = state] ELSE lease
    /\ UNCHANGED fence

\* leaseRenewScript: only the token that holds the lease rewrites it.
RenewScript(t, state) ==
    /\ lease' = IF lease.token = t THEN [lease EXCEPT !.state = state] ELSE lease
    /\ UNCHANGED fence

\* Mutant: release deletes the lease of any token.
ReleaseScriptUnchecked(t) ==
    /\ lease' = NoLease
    /\ UNCHANGED fence

\* Mutant: release deletes the fence key together with the other two.
ReleaseScriptDropsFence(t) ==
    /\ lease' = IF lease.token = t THEN NoLease ELSE lease
    /\ fence' = IF lease.token = t THEN 0 ELSE fence

\* leaseReleaseScript: only the token that holds the lease deletes it.
ReleaseScript(t) ==
    /\ lease' = IF lease.token = t THEN NoLease ELSE lease
    /\ UNCHANGED fence

\* The server side of a request.
Execute(r) ==
    CASE r.op = "acquire" -> AcquireScript(r.token)
      [] r.op = "renew"   -> RenewScript(r.token, "active")
      [] r.op = "drain"   -> RenewScript(r.token, "draining")
      [] r.op = "release" -> ReleaseScript(r.token)

\* The lease is held by a token no client renews any more.
Abandoned == lease # NoLease /\ hb[lease.token] \in {"unused", "exited"}

\* Mutant: the keys are written without a time to live.
ExpireNever ==
    /\ lease # NoLease
    /\ UNCHANGED leaseVars

\* PEXPIRE: both hashes carry the same deadline and vanish together.  Nothing
\* bounds how late a renewal may be (a stalled process, a partition), so the
\* deadline may pass whatever the client believes.  MaxFence bounds how often
\* that happens to a lease that is still being renewed.
Expire ==
    /\ lease # NoLease
    /\ fence < MaxFence \/ Abandoned
    /\ lease' = NoLease
    /\ UNCHANGED <<fence, stray, hb, cancelled, attempt, held, exit>>

\* A request whose caller has given up on it reaches the server after all.
StrayArrives(r) ==
    /\ r \in stray
    /\ stray' = stray \ {r}
    /\ Execute(r)
    /\ UNCHANGED <<hb, cancelled, attempt, held, exit>>

------------------------------------------------------------------------------
(* The client of one token.                                                *)

\* The client moves on; the next call starts with no failed attempt.
Goto(t, s) ==
    /\ hb' = [hb EXCEPT ![t] = s]
    /\ attempt' = [attempt EXCEPT ![t] = 0]

Return(t, result) ==
    /\ Goto(t, "exited")
    /\ exit' = [exit EXCEPT ![t] = result]

\* startSession draws a token that was never used and calls Acquire.
AcquireCall(t) ==
    /\ hb[t] = "unused"
    /\ Goto(t, "acquiring")
    /\ UNCHANGED <<lease, fence, stray, cancelled, held, exit>>

\* Acquire is answered: the heartbeat starts on success, otherwise the start
\* is abandoned.  A token that finds its own lease (the answer to an earlier
\* attempt was lost) is denied like any other.
AcquireReply(t) ==
    /\ hb[t] = "acquiring"
    /\ AcquireScript(t)
    /\ IF lease = NoLease
       THEN /\ held' = [held EXCEPT ![t] = fence + 1]
            /\ Goto(t, "beating")
            /\ UNCHANGED exit
       ELSE Return(t, "denied") /\ UNCHANGED held
    /\ UNCHANGED <<stray, cancelled>>

\* The heartbeat timer fires.  With the context done as well, select takes
\* either branch.
Tick(t) ==
    /\ hb[t] = "beating"
    /\ Goto(t, "renewing")
    /\ UNCHANGED <<lease, fence, stray, cancelled, held, exit>>

\* Renew is answered: renewed, or the lease is missing and is reacquired once
\* with the same token, or another token holds it.
RenewReply(t) ==
    /\ hb[t] = "renewing"
    /\ RenewScript(t, "active")
    /\ \/ /\ lease.token = t
          /\ held' = [held EXCEPT ![t] = lease.fence]
          /\ Goto(t, "beating")
          /\ UNCHANGED exit
       \/ /\ lease = NoLease
          /\ Goto(t, "reacquiring")
          /\ UNCHANGED <<held, exit>>
       \/ /\ lease # NoLease /\ lease.token # t
          /\ Return(t, "rejected")
          /\ UNCHANGED held
    /\ UNCHANGED <<stray, cancelled>>

\* The self-heal Acquire is answered.
ReacquireReply(t) ==
    /\ hb[t] = "reacquiring"
    /\ AcquireScript(t)
    /\ IF lease = NoLease
       THEN /\ held' = [held EXCEPT ![t] = fence + 1]
            /\ Goto(t, "beating")
            /\ UNCHANGED exit
       ELSE Return(t, "rejected") /\ UNCHANGED held
    /\ UNCHANGED <<stray, cancelled>>

\* The heartbeat sees its context done and begins DrainAndRelease.
SeeCancel(t) ==
    /\ hb[t] = "beating"
    /\ t \in cancelled
    /\ Goto(t, "draining")
    /\ UNCHANGED <<lease, fence, stray, cancelled, held, exit>>

\* The draining renewal is answered; its outcome is ignored.
DrainReply(t) ==
    /\ hb[t] = "draining"
    /\ RenewScript(t, "draining")
    /\ Goto(t, "releasing")
    /\ UNCHANGED <<stray, cancelled, held, exit>>

ReleaseReply(t) ==
    /\ hb[t] = "releasing"
    /\ ReleaseScript(t)
    /\ Return(t, "nil")
    /\ UNCHANGED <<stray, cancelled, held>>

\* A call fails.  execScript tries again while attempts are left and the error
\* is retryable; otherwise the error ends the client, from DrainAndRelease
\* before its release included.
CallFails(t) ==
    /\ hb[t] \in CallStates
    /\ LET r == [op |-> Op(hb[t]), token |-> t] IN
       /\ Cardinality(stray \cup {r}) <= MaxStray
       /\ stray' = stray \cup {r}
    /\ \/ /\ attempt[t] + 1 < MaxAttempts
          /\ attempt' = [attempt EXCEPT ![t] = @ + 1]
          /\ UNCHANGED <<hb, exit>>
       \/ Return(t, "error")
    /\ UNCHANGED <<lease, fence, cancelled, held>>

\* The calls that carry the session's own context (all but those of the drain,
\* which has a context of its own) are aborted when it is cancelled: a context
\* error is not retryable.
CancelAborts(t) ==
    /\ hb[t] \in {"acquiring", "renewing", "reacquiring"}
    /\ t \in cancelled
    /\ stray' = stray \cup {[op |-> Op(hb[t]), token |-> t]}
    /\ Return(t, "error")
    /\ UNCHANGED <<lease, fence, cancelled, held>>

\* The context of the token's session is cancelled, by the ingest loop.
Cancel(t) ==
    /\ hb[t] \notin {"unused", "exited"}
    /\ t \notin cancelled
    /\ cancelled' = cancelled \cup {t}
    /\ UNCHANGED <<lease, fence, stray, hb, attempt, held, exit>>

------------------------------------------------------------------------------
RunHeartbeat(t) ==
    \/ Tick(t) \/ RenewReply(t) \/ ReacquireReply(t)
    \/ SeeCancel(t) \/ DrainReply(t) \/ ReleaseReply(t)

LeaseNext ==
    \/ Expire
    \/ \E r \in stray : StrayArrives(r)
    \/ \E t \in Tokens :
          \/ AcquireCall(t) \/ AcquireReply(t) \/ RunHeartbeat(t)
          \/ CallFails(t) \/ CancelAborts(t) \/ Cancel(t)

LeaseSpec == LeaseInit /\ [][LeaseNext]_leaseVars

\* A client keeps taking its own steps, and a select that finds both the timer
\* and the done context ready does not pick the timer for ever.  The server
\* deletes a lease nobody renews any more.  Nothing makes the network fail or a
\* session be cancelled.
LeaseFairness ==
    /\ WF_leaseVars(Expire /\ Abandoned)
    /\ \A t \in Tokens :
         /\ WF_leaseVars(AcquireReply(t) \/ RunHeartbeat(t))
         /\ SF_leaseVars(SeeCancel(t))

LeaseFairSpec == LeaseSpec /\ LeaseFairness

------------------------------------------------------------------------------
(* What the lease promises.                                                *)

Lock == INSTANCE FencedLock WITH holder <- lease.token, epoch <- fence, known <- held

\* The lease implements the fenced lock: it is granted only when vacant, each
\* grant has a new fence, and a client learns the fence of its own grant only.
ImplementsFencedLock == Lock!LockSpec

\* What the ingest loop sees of a client.
Phase(s) ==
    CASE s = "acquiring" -> "asking"
      [] s \in {"beating", "renewing", "reacquiring", "draining", "releasing"} -> "beating"
      [] OTHER -> s

Client == INSTANCE LeaseClient
              WITH holder <- lease.token, phase <- [t \in Tokens |-> Phase(hb[t])]

\* The lease is the one the ingest loop relies on: whatever is lost, late or retried,
\* a heartbeat runs only after a grant, and the lease changes hands only through
\* a free lease, a release by its own token or an expiry.
ImplementsLeaseClient == Client!ClientSpec

\* The scripts give every acquisition its own fence: two clients that both
\* believe they hold the device never believe in the same fence.
FencesDistinct ==
    \A t, u \in Tokens : t # u /\ held[t] = held[u] => held[t] = 0

\* The client that really holds the lease outranks every other one: whoever lost
\* it (expired, crashed, partitioned) carries a smaller fence.
OwnerOutranksStale ==
    lease # NoLease => \A t \in Tokens \ {lease.token} : held[t] < lease.fence

\* A request of the token leaves `stray' and is executed.
Arrives(t) == \E r \in stray \ stray' : r.token = t

\* The scripts check the token: while another token holds the lease, nothing a client
\* does changes it, nor does any request of it that reaches the server late, a drain or a
\* release its caller gave up on included.
NonOwnerIsHarmless ==
    [][\A t \in Tokens :
         (hb'[t] # hb[t] \/ Arrives(t)) /\ lease.token \notin {t, NoToken}
            => lease' = lease]_leaseVars

\* A cancelled session gives its device up: sooner or later its token does not
\* hold the lease, released by its heartbeat or expired after it.
CancelledGivesUp ==
    \A t \in Tokens : t \in cancelled ~> (hb[t] = "exited" /\ lease.token # t)
==============================================================================
