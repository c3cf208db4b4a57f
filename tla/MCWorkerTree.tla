---------------------------- MODULE MCWorkerTree ----------------------------
(* A small instance of WorkerTree for TLC.                                  *)
EXTENDS WorkerTree
=============================================================================
