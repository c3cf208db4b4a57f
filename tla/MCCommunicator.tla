--------------------------- MODULE MCCommunicator ---------------------------
(* A small tree of search threads for TLC. *)
EXTENDS Communicator, TLC

CONSTANTS main, w1, w2

\* main - w1 - w2: commands are forwarded, acknowledgements pass through w1.
Chain == (w1 :> main) @@ (w2 :> w1)

\* The jobs of each search.  The second search repeats a job number of the first.
TwoThenOne == <<2, 1>>
=============================================================================
