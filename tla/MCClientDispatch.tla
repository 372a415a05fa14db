-------------------------- MODULE MCClientDispatch --------------------------
(* ClientDispatch.tla with the calls and configurations of MCClient.tla. *)
EXTENDS ClientDispatch, MCClient
=============================================================================
