---------------------------- MODULE MCThreadPool ----------------------------
(* Small instances of ThreadPool for TLC; the configurations give the       *)
(* constants their values.                                                  *)
EXTENDS ThreadPool
=============================================================================
