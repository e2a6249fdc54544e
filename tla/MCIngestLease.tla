---------------------------- MODULE MCIngestLease ----------------------------
(* Two session starts of one device contend for its lease.                 *)
EXTENDS IngestLease

CONSTANTS t1, t2

MCTokens == {t1, t2}
==============================================================================
