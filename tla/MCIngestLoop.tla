---------------------------- MODULE MCIngestLoop -----------------------------
(* Instances of IngestLoop for TLC. *)
EXTENDS IngestLoop

CONSTANTS w1, w2, c1, c2

MCWorkers == {w1, w2}
MCTokens == MCWorkers \X (1..Starts)
MCConfigs == {c1, c2}

Scenario(rs, c, f, l) == [row |-> c1, rows |-> rs, changes |-> c, faults |-> f, lapses |-> l]

\* The row changes to anything; it is switched off, with a fault; a fault and a lapse.
MCScenarios == {Scenario({c1, c2, Off}, 1, 0, 0), Scenario({Off}, 1, 1, 0), Scenario({}, 0, 1, 1)}
MCDisable == {Scenario({Off}, 1, 0, 0)}
==============================================================================
