----------------------------- MODULE LeaseClient -----------------------------
(***************************************************************************)
(* The ingest lease as the ingest loop sees it: who holds it, and for each *)
(* token whether Acquire is pending, RunHeartbeat is running, or the call  *)
(* has returned.  IngestLease implements this specification; IngestLoop is *)
(* built on it.                                                            *)
(***************************************************************************)
EXTENDS FiniteSets

CONSTANTS Tokens, NoToken

VARIABLES holder,    \* the token the lease is held by, or NoToken
          phase,     \* the token's client
          cancelled  \* tokens whose context is done

clientVars == <<holder, phase, cancelled>>

Phases == {"unused", "asking", "beating", "exited"}

ClientInit ==
    /\ holder = NoToken
    /\ phase = [t \in Tokens |-> "unused"]
    /\ cancelled = {}

To(t, p) == phase' = [phase EXCEPT ![t] = p]

\* Acquire is called.
Ask(t) ==
    /\ phase[t] = "unused"
    /\ To(t, "asking")
    /\ UNCHANGED <<holder, cancelled>>

\* Mutant: the lease is granted whether it is free or not.
GrantedAlways(t) ==
    /\ phase[t] = "asking"
    /\ holder' = t
    /\ To(t, "beating")
    /\ UNCHANGED cancelled

\* Acquire succeeds, only when the lease is free.
Granted(t) ==
    /\ phase[t] = "asking" /\ holder = NoToken
    /\ holder' = t
    /\ To(t, "beating")
    /\ UNCHANGED cancelled

\* Acquire is denied or fails, or RunHeartbeat gives up: the lease stays as it is,
\* held by the token perhaps.
GivesUp(t) ==
    /\ phase[t] \in {"asking", "beating"}
    /\ To(t, "exited")
    /\ UNCHANGED <<holder, cancelled>>

\* The heartbeat finds the lease missing and takes it again.
Reacquires(t) ==
    /\ phase[t] = "beating" /\ holder = NoToken
    /\ holder' = t
    /\ UNCHANGED <<phase, cancelled>>

\* The heartbeat of a cancelled session releases the lease, if it is its own.
Releases(t) ==
    /\ phase[t] = "beating" /\ t \in cancelled
    /\ holder' = IF holder = t THEN NoToken ELSE holder
    /\ To(t, "exited")
    /\ UNCHANGED cancelled

Cancels(t) ==
    /\ cancelled' = cancelled \cup {t}
    /\ UNCHANGED <<holder, phase>>

\* The lease expires, or a release whose caller gave up arrives.
Lapses ==
    /\ holder # NoToken
    /\ holder' = NoToken
    /\ UNCHANGED <<phase, cancelled>>

\* An Acquire whose caller gave up, or tries again, arrives.
GrantedLate(t) ==
    /\ holder = NoToken
    /\ holder' = t
    /\ UNCHANGED <<phase, cancelled>>

ClientNext ==
    \/ Lapses
    \/ \E t \in Tokens :
          \/ Ask(t) \/ Granted(t) \/ GivesUp(t) \/ Reacquires(t) \/ Releases(t)
          \/ Cancels(t) \/ GrantedLate(t)

ClientSpec == ClientInit /\ [][ClientNext]_clientVars
==============================================================================
