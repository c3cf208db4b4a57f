-------------------------- MODULE MCEngineControl --------------------------
(* Two options and a few commands for TLC. *)
EXTENDS EngineControl

CONSTANTS hash, threads
=============================================================================
