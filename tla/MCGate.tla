------------------------------- MODULE MCGate -------------------------------
(* Gate.tla on three callers that compete for two permits. *)
EXTENDS Gate
CONSTANTS c1, c2, c3
MCCallers == {c1, c2, c3}
=============================================================================
