----------------------------- MODULE MCSession -----------------------------
(***************************************************************************)
(* Session on small instances.  A configuration is a provider, its number  *)
(* of publish workers, and the number of failed calls.                     *)
(***************************************************************************)
EXTENDS Session

MCConfigs == {<<"pulsemqtt", 1, 2>>, <<"ecoflow", 1, 1>>, <<"pecron", 1, 1>>, <<"anker", 2, 1>>}
=============================================================================
