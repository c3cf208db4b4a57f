------------------------------- MODULE TaskBag -------------------------------
(***************************************************************************)
(* What a task pool promises its clients, with no threads, queues or       *)
(* condition variables: a bag of tasks whose outcomes are handed out in    *)
(* any order, each once, and a call that answers "nothing to wait for"     *)
(* only when every outcome has been handed out.                            *)
(***************************************************************************)
CONSTANTS Task, Clients

VARIABLES pending,   \* added, outcome not handed out
          finished,  \* outcome handed out
          calling,   \* the clients inside getResult
          ret,       \* what a client's last call gave
          closed     \* destroyed, or being destroyed

vars == <<pending, finished, calling, ret, closed>>

Init ==
    /\ pending = {} /\ finished = {} /\ calling = {}
    /\ ret = [c \in Clients |-> "none"]
    /\ closed = FALSE

Add ==
    /\ ~closed
    /\ \E t \in Task \ (pending \union finished) : pending' = pending \union {t}
    /\ UNCHANGED <<finished, calling, ret, closed>>

Call(c) ==
    /\ ~closed
    /\ c \notin calling
    /\ calling' = calling \union {c}
    /\ ret' = [ret EXCEPT ![c] = "none"]
    /\ UNCHANGED <<pending, finished, closed>>

HandOut(c) ==
    /\ c \in calling
    /\ \E t \in pending :
          pending' = pending \ {t} /\ finished' = finished \union {t}
    /\ \E r \in {"result", "exception"} : ret' = [ret EXCEPT ![c] = r]
    /\ calling' = calling \ {c}
    /\ UNCHANGED closed

Nothing(c) ==
    /\ c \in calling
    /\ pending = {}
    /\ ret' = [ret EXCEPT ![c] = "false"]
    /\ calling' = calling \ {c}
    /\ UNCHANGED <<pending, finished, closed>>

Close ==
    /\ ~closed /\ calling = {}
    /\ closed' = TRUE
    /\ UNCHANGED <<pending, finished, calling, ret>>

Next == Add \/ Close \/ \E c \in Clients : Call(c) \/ HandOut(c) \/ Nothing(c)

Spec == Init /\ [][Next]_vars

\* Every call is answered.
FairSpec == Spec /\ \A c \in Clients : WF_vars(HandOut(c) \/ Nothing(c))
==============================================================================
