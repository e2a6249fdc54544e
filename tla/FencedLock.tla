----------------------------- MODULE FencedLock ------------------------------
(***************************************************************************)
(* What the ingest lease promises, without scripts, retries or networks: a *)
(* lock that is granted only when vacant, numbers its grants, and lets a   *)
(* client learn the number of a grant only while the grant is its own.     *)
(* The holder may lose the lock at any moment.                             *)
(***************************************************************************)
EXTENDS Integers

CONSTANTS Tokens, NoToken

VARIABLES holder,  \* the token the lock is granted to, or NoToken
          epoch,   \* number of grants so far
          known    \* the newest grant each client knows to have been its own

lockVars == <<holder, epoch, known>>

LockTypeOK ==
    /\ holder \in Tokens \cup {NoToken}
    /\ epoch \in Nat
    /\ known \in [Tokens -> Nat]

LockInit ==
    /\ holder = NoToken
    /\ epoch = 0
    /\ known = [t \in Tokens |-> 0]

\* The client may or may not hear of its grant.
Grant(t) ==
    /\ holder = NoToken
    /\ holder' = t
    /\ epoch' = epoch + 1
    /\ known' \in {known, [known EXCEPT ![t] = epoch + 1]}

Learn(t) ==
    /\ holder = t
    /\ holder # NoToken
    /\ known' = [known EXCEPT ![t] = epoch]
    /\ UNCHANGED <<holder, epoch>>

Vacate ==
    /\ holder # NoToken
    /\ holder' = NoToken
    /\ UNCHANGED <<epoch, known>>

\* Clients restart and forget.
Forget(S) ==
    /\ known' = [t \in Tokens |-> IF t \in S THEN 0 ELSE known[t]]
    /\ UNCHANGED <<holder, epoch>>

LockNext ==
    \/ Vacate
    \/ \E t \in Tokens : Grant(t) \/ Learn(t)
    \/ \E S \in SUBSET Tokens : Forget(S)

LockSpec == LockInit /\ [][LockNext]_lockVars

------------------------------------------------------------------------------
\* Grants are numbered once: two clients never know the same grant as their own.
GrantsDistinct ==
    \A t, u \in Tokens : t # u /\ known[t] = known[u] => known[t] = 0

\* Whoever holds the lock outranks every client that held it before.
HolderIsNewest ==
    holder # NoToken => \A t \in Tokens \ {holder} : known[t] < epoch

\* Nobody knows a grant that was not made.
KnownIsIssued == \A t \in Tokens : known[t] <= epoch

\* The inductive invariant.
LockInv == LockTypeOK /\ GrantsDistinct /\ HolderIsNewest /\ KnownIsIssued
==============================================================================
