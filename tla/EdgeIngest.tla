----------------------------- MODULE EdgeIngest -----------------------------
(***************************************************************************)
(* The platform's side of an edge collector: the collector row and the     *)
(* device sources of the control plane (store_postgres_edge.go), and the   *)
(* requests of EdgeIngestService on them.  One owner, one device; the      *)
(* owner creates collectors until one of them is enrolled.                 *)
(*                                                                         *)
(* Every request is one SQL statement, or one transaction that locks the   *)
(* row it read, hence one step.                                            *)
(***************************************************************************)
EXTENDS Integers

CONSTANT MaxCollectors   \* bound: collector rows the owner creates

VARIABLES
  token,    \* setup_token_hash of the newest collector row
  active,   \* its is_active
  secret,   \* its collector_secret_hash: a number, 0 when there is none
  rows,     \* collector rows created
  source,   \* status of the device's row in edge_device_sources
  stored    \* telemetry samples published to the stream

serverVars == <<token, active, secret, rows, source, stored>>
accountVars == <<token, active, secret, rows>>

ServerInit ==
  /\ token = "none" /\ active = FALSE /\ secret = 0 /\ rows = 0
  /\ source = "none" /\ stored = {}

CreateCollector ==
  /\ rows < MaxCollectors
  /\ rows' = rows + 1
  /\ token' = "issued" /\ active' = FALSE /\ secret' = 0
  /\ source' = "none" \* sources belong to a collector
  /\ UNCHANGED stored

\* An active collector keeps its (already empty) token.
RevokeCollectorSetupToken ==
  /\ token = "issued" /\ ~active
  /\ token' = "none"
  /\ UNCHANGED <<active, secret, rows, source, stored>>

SetupTokenExpires ==
  /\ token = "issued"
  /\ token' = "none"
  /\ UNCHANGED <<active, secret, rows, source, stored>>

\* The UPDATE of EnrollEdgeCollector finds the row by its token.
Enrollable == token = "issued" /\ ~active

\* Mutant: an enrolled collector's token stays good.
EnrollKeepsToken(s) ==
  /\ token = "issued"
  /\ active' = TRUE /\ secret' = s
  /\ UNCHANGED <<token, rows, source, stored>>

EnrollCollector(s) ==
  /\ Enrollable
  /\ token' = "none" /\ active' = TRUE /\ secret' = s
  /\ UNCHANGED <<rows, source, stored>>

Authenticated(s) == active /\ secret = s

\* UpsertEdgeDeviceSource: a new source is pending, a known one keeps its status.
UploadDiscovery ==
  /\ source' = IF source = "none" THEN "pending" ELSE source
  /\ UNCHANGED <<accountVars, stored>>

\* Only a pending source can be approved; the device is linked in the same
\* transaction.
ApproveDeviceSource ==
  /\ source = "pending"
  /\ source' = "linked"
  /\ UNCHANGED <<accountVars, stored>>

\* A sample of a device that is not linked is dropped, and the request succeeds.
\* The envelope id is derived from the sample, so the stream stores it once.
UploadTelemetry(n) ==
  /\ stored' = IF source = "linked" THEN stored \cup {n} ELSE stored
  /\ UNCHANGED <<accountVars, source>>
=============================================================================
