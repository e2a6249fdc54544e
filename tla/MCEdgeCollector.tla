--------------------------- MODULE MCEdgeCollector ---------------------------
(* EdgeCollector on small instances. *)
EXTENDS EdgeCollector

MCBounds == {<<2, 0, 1>>, <<1, 2, 1>>}
==============================================================================
