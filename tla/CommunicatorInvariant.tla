----------------------- MODULE CommunicatorInvariant -----------------------
(***************************************************************************)
(* The inductive invariant of Communicator, from which CommunicatorProofs  *)
(* proves the module's safety properties for every tree and every sequence *)
(* of jobs.                                                                *)
(***************************************************************************)
EXTENDS Communicator

\* What the root is doing: a search runs, is being stopped, or neither.
Active   == pc[Root] \in {"between", "search", "searchPoll"}
Stopping == pc[Root] \in {"stopPoll", "stopWait"}
Quitting == pc[Root] \in {"quitPoll", "quitWait", "exited"}
Resting  == pc[Root] = "idle" \/ Quitting

Num(n, type) == Cardinality(Queued(n, type))
Has(n, type) == Queued(n, type) # {}

\* m and the nodes below it: what every set that has m and is closed under
\* children contains.
Subtree(m) == {n \in Nodes : \A S \in SUBSET Nodes :
                m \in S /\ (\A c \in Workers : Parent[c] \in S => c \in S) => n \in S}

\* A command of this type is queued at n or above it: it has yet to pass n.
Coming(n, type) == \E m \in Workers : n \in Subtree(m) /\ Has(m, type)

Places ==
    /\ pc[Root] \in {"between", "search", "searchPoll", "stopPoll", "stopWait",
                     "idle", "quitPoll", "quitWait", "exited"}
    /\ \A n \in Workers : pc[n] \in {"wait", "poll", "search", "searchPoll", "exited"}
    /\ Active => search[Root] # 0

\* What is sent to whom, and when: one start or stop command at most waits at a
\* worker, and what names a search names the root's.
Queues ==
    /\ \A i \in DOMAIN cmdQueue[Root] :
            cmdQueue[Root][i].type \in {"REPORT_RESULT", "STOP_ACK", "QUIT_ACK"}
    /\ pc[Root] = "idle" => cmdQueue[Root] = <<>>
    /\ \A n \in Workers : Num(n, "START_SEARCH") + Num(n, "STOP_SEARCH") <= 1
    /\ \A n \in Nodes : \A i \in DOMAIN cmdQueue[n] :
            /\ cmdQueue[n][i].type \in {"START_SEARCH", "REPORT_RESULT"} =>
                    cmdQueue[n][i].search = search[Root]
            /\ cmdQueue[n][i].type \in {"QUIT", "QUIT_ACK"} => Quitting
            /\ cmdQueue[n][i].type = "REPORT_RESULT" => Children(n) # {}

\* Acknowledgements balance, and a node with a start or stop command before it
\* has answered the last stop, so that none is answered twice or forgotten.
Acks ==
    /\ StopAcksBalance
    /\ ~stopAckWaitSelf[Root]
    /\ ~Stopping => stopAckWaitChildren[Root] = 0
    /\ \A n \in Workers :
        /\ Has(n, "STOP_SEARCH") \/ Has(n, "START_SEARCH") => hasStopAck(n)
        /\ stopAckWaitSelf[n] => pc[n] \in {"poll", "searchPoll"} /\ jobId[n] = -1
        /\ pc[n] = "search" => jobId[n] = handlerJob[n]
        /\ Searching(n) => handlerJob[n] # -1

\* The stop command travels down as a wave: behind it no node has a job or a
\* start command, a node that still searches owes an acknowledgement, and a
\* result is followed by the acknowledgement of the child that sent it.
PastStop(n) == (Stopping \/ Resting) /\ ~Coming(n, "STOP_SEARCH")
StopWave ==
    \A n \in Workers : PastStop(n) =>
        /\ jobId[n] = -1
        /\ Searching(n) => stopAckWaitSelf[n]
        /\ \A i \in DOMAIN cmdQueue[n] :
            /\ cmdQueue[n][i].type \in {"REPORT_RESULT", "STOP_ACK", "QUIT", "QUIT_ACK"}
            /\ cmdQueue[n][i].type = "REPORT_RESULT" =>
                \/ \E c \in Children(n) : OwesStopAck(c)
                \/ \E j \in DOMAIN cmdQueue[n] : j > i /\ cmdQueue[n][j].type = "STOP_ACK"

\* So does the init command of a search: before it the tree is still at rest.
\* It is the first command of a queue, and a start or stop command is all that
\* can have overtaken it.
InitWave ==
    \A n \in Workers :
        /\ Coming(n, "INIT_SEARCH") => jobId[n] = -1 /\ ~Searching(n) /\ hasStopAck(n)
        /\ Coming(Parent[n], "INIT_SEARCH") => cmdQueue[n] = <<>>
        /\ Has(n, "INIT_SEARCH") =>
            /\ cmdQueue[n][1].type = "INIT_SEARCH"
            /\ \A i \in DOMAIN cmdQueue[n] :
                    i # 1 => cmdQueue[n][i].type \in {"START_SEARCH", "STOP_SEARCH"}

\* Jobs, stop handlers, results and, behind the init command, node counts are of
\* the root's search.
Current ==
    /\ \A n \in Workers :
        /\ jobId[n] # -1 => search[n] = search[Root]
        /\ Searching(n) => handlerSearch[n] = search[Root]
    /\ ResultsAreCurrent
    /\ Active => /\ stats[Root] \subseteq {search[Root]}
                 /\ \A n \in Workers : ~Coming(n, "INIT_SEARCH") => stats[n] \subseteq {search[Root]}

\* The acknowledgements of a quit balance like those of a stop: a node that has
\* quit waits for the children that have not acknowledged, and a node that has
\* not is above none that has.
Quits ==
    /\ ~Quitting => quitAckWaitChildren[Root] = -1
    /\ \A n \in Nodes :
        IF quitAckWaitChildren[n] = -1
        THEN /\ ~Has(n, "QUIT_ACK")
             /\ \A c \in Children(n) : quitAckWaitChildren[c] = -1 /\ ~Has(c, "QUIT")
        ELSE quitAckWaitChildren[n] = Cardinality({c \in Children(n) : quitAckWaitChildren[c] # 0})
                                      + Cardinality(Queued(n, "QUIT_ACK"))
    /\ \A n \in Workers :
        /\ Has(n, "QUIT") => quitAckWaitChildren[n] = -1
        /\ Num(n, "QUIT") <= 1

\* A worker that polls while it searches leaves its flag alone, so the flag is
\* still there when it comes back to its main loop with something to do.
Notifications ==
    /\ NoLostNotification
    /\ \A n \in Workers :
        Searching(n) /\ (cmdQueue[n] # <<>> \/ jobId[n] # handlerJob[n]) => notified[n]

IInv ==
    /\ TypeOK /\ Places /\ Queues /\ Acks /\ StopWave /\ InitWave /\ Current /\ Quits
    /\ Notifications
=============================================================================
