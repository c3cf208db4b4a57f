---------------------------- MODULE Communicator ----------------------------
(***************************************************************************)
(* The tree of search threads of lib/texellib/parallel.cpp: every thread   *)
(* owns a Communicator with a command queue, a Notifier it sleeps on, and  *)
(* counters of the acknowledgements it waits for.  Commands travel from a  *)
(* node to its children, results and acknowledgements from a node to its   *)
(* parent.  The root is the engine's main thread (Search and the stop and  *)
(* quit loops of EngineMainThread); every other node runs                  *)
(* WorkerThread::mainLoop.                                                 *)
(*                                                                         *)
(* A handler runs on the thread of its node and touches that node's state, *)
(* which no other thread writes, and appends to queues of its neighbours.  *)
(* The appends of one handler go to different queues and their receivers   *)
(* meet again only in the queue of the sender, so a handler is one action. *)
(*                                                                         *)
(* Only the commands that threads of one process exchange are modelled:    *)
(* the others are sent to cluster children only.                           *)
(***************************************************************************)
EXTENDS Integers, Sequences, FiniteSets

CONSTANTS Nodes, Root,
          Parent,       \* the parent of every node but the root
          Jobs          \* bound: one search for each element, of so many jobs

Workers == Nodes \ {Root}

ASSUME TreeAssumption ==
    /\ IsFiniteSet(Nodes) /\ Root \in Nodes
    /\ Parent \in [Workers -> Nodes]
    /\ \A S \in SUBSET Workers : S # {} => \E n \in S : Parent[n] \notin S
    /\ Jobs \in Seq(Nat)

VARIABLES
    cmdQueue,             \* commands not yet polled, per node
    notified,             \* the flag of the node's Notifier
    stopAckWaitSelf, stopAckWaitChildren, quitAckWaitChildren,
    jobId,                \* a worker's job, -1 for none; the root's job counter
    hasResult,            \* a result of the job has been passed to the parent
    handlerJob,           \* the job for which the ThreadStopHandler was made
    pc,                   \* where the node's thread is
    search,               \* history: the search a node's job belongs to
    handlerSearch,        \* history: the search the worker is working for
    stats,                \* searches whose node counts are in the node's counters
    accepted              \* history: the search and job of the last result the root took

commVars   == <<cmdQueue, notified>>
ackVars    == <<stopAckWaitSelf, stopAckWaitChildren, quitAckWaitChildren>>
handlerVars == <<handlerJob, handlerSearch>>
vars == <<commVars, ackVars, handlerVars, jobId, hasResult, pc, search, stats, accepted>>

Children(n) == {c \in Workers : Parent[c] = n}

\* A command; "search" is history, no code reads it.
Cmd(type, job, s) == [type |-> type, job |-> job, search |-> s]
Plain(type) == Cmd(type, 0, 0)

Init ==
    /\ cmdQueue = [n \in Nodes |-> <<>>]
    /\ notified = [n \in Nodes |-> FALSE]
    /\ stopAckWaitSelf = [n \in Nodes |-> FALSE]
    /\ stopAckWaitChildren = [n \in Nodes |-> 0]
    /\ quitAckWaitChildren = [n \in Nodes |-> -1]
    /\ jobId = [n \in Nodes |-> IF n = Root THEN 0 ELSE -1]
    /\ hasResult = [n \in Workers |-> FALSE]
    /\ handlerJob = [n \in Workers |-> -1]
    /\ pc = [n \in Nodes |-> IF n = Root THEN "idle" ELSE "wait"]
    /\ search = [n \in Nodes |-> 0]
    /\ handlerSearch = [n \in Workers |-> 0]
    /\ stats = [n \in Nodes |-> {}]
    /\ accepted = Plain("none")

-----------------------------------------------------------------------------
(* Queues *)

\* doSend*: append to the queues of the nodes to, and notify their threads.
Push(q, to, cmd) == [n \in Nodes |-> IF n \in to THEN Append(q[n], cmd) ELSE q[n]]
Wake(to) == [n \in Nodes |-> n \in to \/ notified[n]]

\* doSendStartSearch and doSendStopSearch first erase what they supersede.
Superseded(cmd) == cmd.type \in {"START_SEARCH", "STOP_SEARCH", "REPORT_RESULT"}
\* The others stay, in their order.
Others(s) ==
    LET keep == {i \in DOMAIN s : ~Superseded(s[i])}
    IN  [k \in 1 .. Cardinality(keep) |->
            s[CHOOSE i \in keep : Cardinality({j \in keep : j < i}) = k - 1]]
PushOver(q, to, cmd) ==
    [n \in Nodes |-> IF n \in to THEN Append(Others(q[n]), cmd) ELSE q[n]]

Parents(n) == IF n = Root THEN {} ELSE {Parent[n]}

hasStopAck(n) == stopAckWaitChildren[n] = 0 /\ ~stopAckWaitSelf[n]
hasQuitAck(n) == quitAckWaitChildren[n] = 0

-----------------------------------------------------------------------------
(* The handlers of a node, given the queues q without the command handled *)

sendInitSearch(n, q) ==
    /\ stats' = [stats EXCEPT ![n] = {}]
    /\ cmdQueue' = Push(q, Children(n), Plain("INIT_SEARCH"))
    /\ notified' = Wake(Children(n))

InitSearch(n, q) ==
    /\ sendInitSearch(n, q)
    /\ jobId' = [jobId EXCEPT ![n] = -1]
    /\ UNCHANGED <<ackVars, handlerVars, hasResult, pc, search, accepted>>

sendStartSearch(n, q, job, s) ==
    /\ cmdQueue' = PushOver(q, Children(n), Cmd("START_SEARCH", job, s))
    /\ notified' = Wake(Children(n))

StartSearch(n, q, cmd) ==
    /\ sendStartSearch(n, q, cmd.job, cmd.search)
    /\ jobId' = [jobId EXCEPT ![n] = cmd.job]
    /\ search' = [search EXCEPT ![n] = cmd.search]
    /\ hasResult' = [hasResult EXCEPT ![n] = FALSE]
    /\ UNCHANGED <<ackVars, handlerVars, pc, stats, accepted>>

sendStopSearch(n, q) ==
    /\ stopAckWaitChildren' = [stopAckWaitChildren EXCEPT ![n] = Cardinality(Children(n))]
    /\ cmdQueue' = PushOver(q, Children(n), Plain("STOP_SEARCH"))
    /\ notified' = Wake(Children(n) \union {n})

StopSearch(n, q) ==
    /\ stopAckWaitSelf' = [stopAckWaitSelf EXCEPT ![n] = TRUE]
    /\ sendStopSearch(n, q)
    /\ jobId' = [jobId EXCEPT ![n] = -1]
    /\ UNCHANGED <<quitAckWaitChildren, handlerVars, hasResult, pc, search, stats, accepted>>

\* WorkerThread::sendReportResult, for a result the node itself or one of its
\* children has found: one result per job goes to the parent.
sendReportResult(n, q, job, s) ==
    IF ~hasResult[n] /\ jobId[n] = job
    THEN /\ cmdQueue' = Push(q, Parents(n), Cmd("REPORT_RESULT", job, s))
         /\ notified' = Wake(Parents(n))
         /\ hasResult' = [hasResult EXCEPT ![n] = TRUE]
    ELSE /\ cmdQueue' = q
         /\ UNCHANGED <<notified, hasResult>>

ReportResult(n, q, cmd) ==
    /\ sendReportResult(n, q, cmd.job, cmd.search)
    /\ UNCHANGED <<ackVars, handlerVars, jobId, pc, search, stats, accepted>>

\* sendStopAck(true): a child has acknowledged.
StopAck(n, q) ==
    LET last == stopAckWaitChildren[n] = 1 /\ ~stopAckWaitSelf[n]
        to   == IF last THEN Parents(n) ELSE {}
    IN  /\ stopAckWaitChildren' = [stopAckWaitChildren EXCEPT ![n] = @ - 1]
        /\ cmdQueue' = Push(q, to, Plain("STOP_ACK"))
        /\ notified' = Wake(to)
        /\ UNCHANGED <<stopAckWaitSelf, quitAckWaitChildren, handlerVars, jobId,
                       hasResult, pc, search, stats, accepted>>

\* sendQuitAck: one acknowledgement less to wait for, given how many there were.
sendQuitAck(n, q, waiting) ==
    LET to == IF waiting = 1 THEN Parents(n) ELSE {}
    IN  /\ quitAckWaitChildren' = [quitAckWaitChildren EXCEPT ![n] = waiting - 1]
        /\ cmdQueue' = Push(q, to, Plain("QUIT_ACK"))
        /\ notified' = Wake(to)

\* Mutant: a node without children waits for none, but does not say so.
sendQuitNoLeaf(n, q) ==
    /\ quitAckWaitChildren' = [quitAckWaitChildren EXCEPT ![n] = Cardinality(Children(n))]
    /\ cmdQueue' = Push(q, Children(n), Plain("QUIT"))
    /\ notified' = Wake(Children(n))

\* sendQuit: a node without children acknowledges at once.
sendQuit(n, q) ==
    IF Children(n) = {}
    THEN sendQuitAck(n, q, 1)
    ELSE /\ quitAckWaitChildren' = [quitAckWaitChildren EXCEPT ![n] = Cardinality(Children(n))]
         /\ cmdQueue' = Push(q, Children(n), Plain("QUIT"))
         /\ notified' = Wake(Children(n))

Quit(n, q) ==
    /\ sendQuit(n, q)
    /\ UNCHANGED <<stopAckWaitSelf, stopAckWaitChildren, handlerVars, jobId, hasResult,
                   pc, search, stats, accepted>>

QuitAck(n, q) ==
    /\ sendQuitAck(n, q, quitAckWaitChildren[n])
    /\ UNCHANGED <<stopAckWaitSelf, stopAckWaitChildren, handlerVars, jobId, hasResult,
                   pc, search, stats, accepted>>

Ignore(q) ==
    /\ cmdQueue' = q
    /\ UNCHANGED <<notified, ackVars, handlerVars, jobId, hasResult, pc, search, stats, accepted>>

-----------------------------------------------------------------------------
(* Worker threads *)

\* Communicator::poll takes commands until the queue is empty.
PollWorker(n) ==
    /\ pc[n] \in {"poll", "searchPoll"}
    /\ cmdQueue[n] # <<>>
    /\ LET cmd == Head(cmdQueue[n])
           q   == [cmdQueue EXCEPT ![n] = Tail(@)]
       IN  \/ cmd.type = "INIT_SEARCH"   /\ InitSearch(n, q)
           \/ cmd.type = "START_SEARCH"  /\ StartSearch(n, q, cmd)
           \/ cmd.type = "STOP_SEARCH"   /\ StopSearch(n, q)
           \/ cmd.type = "REPORT_RESULT" /\ ReportResult(n, q, cmd)
           \/ cmd.type = "STOP_ACK"      /\ StopAck(n, q)
           \/ cmd.type = "QUIT"          /\ Quit(n, q)
           \/ cmd.type = "QUIT_ACK"      /\ QuitAck(n, q)

\* threadNotifier.wait() returns and clears the flag.
WakeUp(n) ==
    /\ pc[n] = "wait"
    /\ notified[n]
    /\ notified' = [notified EXCEPT ![n] = FALSE]
    /\ pc' = [pc EXCEPT ![n] = "poll"]
    /\ UNCHANGED <<cmdQueue, ackVars, handlerVars, jobId, hasResult, search, stats, accepted>>

\* The thread leaves the main loop once all nodes below it have quit.
ExitThread(n) ==
    /\ pc[n] = "poll" /\ cmdQueue[n] = <<>>
    /\ hasQuitAck(n)
    /\ pc' = [pc EXCEPT ![n] = "exited"]
    /\ UNCHANGED <<commVars, ackVars, handlerVars, jobId, hasResult, search, stats, accepted>>

\* One iteration of doSearch: the stop handler remembers the job.
BeginSearch(n) ==
    /\ pc[n] = "poll" /\ cmdQueue[n] = <<>>
    /\ ~hasQuitAck(n) /\ jobId[n] # -1
    /\ pc' = [pc EXCEPT ![n] = "search"]
    /\ handlerJob' = [handlerJob EXCEPT ![n] = jobId[n]]
    /\ handlerSearch' = [handlerSearch EXCEPT ![n] = search[n]]
    /\ UNCHANGED <<commVars, ackVars, jobId, hasResult, search, stats, accepted>>

\* Mutant: the acknowledgement does not wait for the children's.
sendStopAckSelfEarly(n, q, f) ==
    LET to == IF stopAckWaitSelf[n] THEN Parents(n) ELSE {}
    IN  /\ stopAckWaitSelf' = [stopAckWaitSelf EXCEPT ![n] = FALSE]
        /\ cmdQueue' = Push(q, to, Plain("STOP_ACK"))
        /\ notified' = [m \in Nodes |-> m \in to \/ f[m]]
        /\ pc' = [pc EXCEPT ![n] = "wait"]
        /\ UNCHANGED <<stopAckWaitChildren, quitAckWaitChildren>>

\* Mutant: an acknowledgement is sent whether or not a stop was requested.
sendStopAckSelfAlways(n, q, f) ==
    LET to == IF stopAckWaitChildren[n] = 0 THEN Parents(n) ELSE {}
    IN  /\ stopAckWaitSelf' = [stopAckWaitSelf EXCEPT ![n] = FALSE]
        /\ cmdQueue' = Push(q, to, Plain("STOP_ACK"))
        /\ notified' = [m \in Nodes |-> m \in to \/ f[m]]
        /\ pc' = [pc EXCEPT ![n] = "wait"]
        /\ UNCHANGED <<stopAckWaitChildren, quitAckWaitChildren>>

\* Mutant: Notifier::wait clears the flag when it is entered.
sendStopAckSelfClears(n, q, f) ==
    LET ack == stopAckWaitSelf[n] /\ stopAckWaitChildren[n] = 0
        to  == IF ack THEN Parents(n) ELSE {}
    IN  /\ stopAckWaitSelf' = [stopAckWaitSelf EXCEPT ![n] = FALSE]
        /\ cmdQueue' = Push(q, to, Plain("STOP_ACK"))
        /\ notified' = [m \in Nodes |-> m \in to \/ (f[m] /\ m # n)]
        /\ pc' = [pc EXCEPT ![n] = "wait"]
        /\ UNCHANGED <<stopAckWaitChildren, quitAckWaitChildren>>

\* sendStopAck(false) at the end of the main loop's body, given the queues q
\* and the Notifier flags f; the thread then waits.
sendStopAckSelf(n, q, f) ==
    LET ack == stopAckWaitSelf[n] /\ stopAckWaitChildren[n] = 0
        to  == IF ack THEN Parents(n) ELSE {}
    IN  /\ stopAckWaitSelf' = [stopAckWaitSelf EXCEPT ![n] = FALSE]
        /\ cmdQueue' = Push(q, to, Plain("STOP_ACK"))
        /\ notified' = [m \in Nodes |-> m \in to \/ f[m]]
        /\ pc' = [pc EXCEPT ![n] = "wait"]
        /\ UNCHANGED <<stopAckWaitChildren, quitAckWaitChildren>>

NoJob(n) ==
    /\ pc[n] = "poll" /\ cmdQueue[n] = <<>>
    /\ ~hasQuitAck(n) /\ jobId[n] = -1
    /\ sendStopAckSelf(n, cmdQueue, notified)
    /\ UNCHANGED <<handlerVars, jobId, hasResult, search, stats, accepted>>

\* ThreadStopHandler::shouldStop starts to poll.
EnterPoll(n) ==
    /\ pc[n] = "search"
    /\ pc' = [pc EXCEPT ![n] = "searchPoll"]
    /\ UNCHANGED <<commVars, ackVars, handlerVars, jobId, hasResult, search, stats, accepted>>

ContinueSearch(n) ==
    /\ pc[n] = "searchPoll" /\ cmdQueue[n] = <<>>
    /\ jobId[n] = handlerJob[n]
    /\ pc' = [pc EXCEPT ![n] = "search"]
    /\ UNCHANGED <<commVars, ackVars, handlerVars, jobId, hasResult, search, stats, accepted>>

\* reportNodes: what the node and its children have counted goes up.
Reported(n) ==
    [stats EXCEPT ![n] = {}, ![Parent[n]] = @ \union stats[n] \union {handlerSearch[n]}]

ReportNodes(n) ==
    /\ pc[n] = "search"
    /\ stats' = Reported(n)
    /\ UNCHANGED <<commVars, ackVars, handlerVars, jobId, hasResult, pc, search, accepted>>

\* The job has changed: StopSearch is thrown, the stop handler is destroyed
\* (which reports the remaining nodes) and the main loop goes on.
AbortSearch(n) ==
    /\ pc[n] = "searchPoll" /\ cmdQueue[n] = <<>>
    /\ jobId[n] # handlerJob[n]
    /\ stats' = Reported(n)
    /\ sendStopAckSelf(n, cmdQueue, notified)
    /\ UNCHANGED <<handlerVars, jobId, hasResult, search, accepted>>

\* negaScout returns a score; the next iteration searches deeper.
CompleteIteration(n) ==
    /\ pc[n] = "search"
    /\ sendReportResult(n, cmdQueue, jobId[n], handlerSearch[n])
    /\ stats' = Reported(n)
    /\ handlerJob' = [handlerJob EXCEPT ![n] = jobId[n]]
    /\ handlerSearch' = [handlerSearch EXCEPT ![n] = search[n]]
    /\ UNCHANGED <<ackVars, jobId, pc, search, accepted>>

\* ... or there is no deeper iteration.
CompleteLastIteration(n) ==
    /\ pc[n] = "search"
    /\ LET first == ~hasResult[n]
           to    == IF first THEN Parents(n) ELSE {}
       IN  sendStopAckSelf(n, Push(cmdQueue, to, Cmd("REPORT_RESULT", jobId[n], handlerSearch[n])),
                           Wake(to))
    /\ hasResult' = [hasResult EXCEPT ![n] = TRUE]
    /\ stats' = Reported(n)
    /\ jobId' = [jobId EXCEPT ![n] = -1]
    /\ UNCHANGED <<handlerVars, search, accepted>>

-----------------------------------------------------------------------------
(* The root: Search on the engine's main thread *)

\* iterativeDeepening of a new Search object, whose job counter starts at 0.
RootInitSearch ==
    /\ pc[Root] = "idle"
    /\ search[Root] < Len(Jobs)
    /\ search' = [search EXCEPT ![Root] = @ + 1]
    /\ jobId' = [jobId EXCEPT ![Root] = 0]
    /\ sendInitSearch(Root, cmdQueue)
    /\ pc' = [pc EXCEPT ![Root] = "between"]
    /\ accepted' = Plain("none")
    /\ UNCHANGED <<ackVars, handlerVars, hasResult>>

\* negaScoutRoot
RootStartJob ==
    /\ pc[Root] = "between"
    /\ jobId[Root] < Jobs[search[Root]]
    /\ jobId' = [jobId EXCEPT ![Root] = @ + 1]
    /\ sendStartSearch(Root, cmdQueue, jobId[Root] + 1, search[Root])
    /\ pc' = [pc EXCEPT ![Root] = "search"]
    /\ UNCHANGED <<ackVars, handlerVars, hasResult, search, stats, accepted>>

\* The root's own negaScout returns.
RootCompletes ==
    /\ pc[Root] = "search"
    /\ pc' = [pc EXCEPT ![Root] = "between"]
    /\ UNCHANGED <<commVars, ackVars, handlerVars, jobId, hasResult, search, stats, accepted>>

RootEnterPoll ==
    /\ pc[Root] = "search"
    /\ pc' = [pc EXCEPT ![Root] = "searchPoll"]
    /\ UNCHANGED <<commVars, ackVars, handlerVars, jobId, hasResult, search, stats, accepted>>

\* A helper's result for the current job throws HelperThreadResult, which ends
\* the poll and the job; every other command is dropped.
RootTakeResult(q, cmd) ==
    /\ cmd.type = "REPORT_RESULT" /\ cmd.job = jobId[Root]
    /\ cmdQueue' = q
    /\ accepted' = cmd
    /\ pc' = [pc EXCEPT ![Root] = "between"]
    /\ UNCHANGED <<notified, ackVars, handlerVars, jobId, hasResult, search, stats>>

RootPoll ==
    /\ pc[Root] = "searchPoll"
    /\ cmdQueue[Root] # <<>>
    /\ LET cmd == Head(cmdQueue[Root])
           q   == [cmdQueue EXCEPT ![Root] = Tail(@)]
       IN  \/ RootTakeResult(q, cmd)
           \/ /\ ~(cmd.type = "REPORT_RESULT" /\ cmd.job = jobId[Root])
              /\ Ignore(q)

RootContinue ==
    /\ pc[Root] = "searchPoll" /\ cmdQueue[Root] = <<>>
    /\ pc' = [pc EXCEPT ![Root] = "search"]
    /\ UNCHANGED <<commVars, ackVars, handlerVars, jobId, hasResult, search, stats, accepted>>

\* Between jobs the search may be over; after a poll it may be out of time.
\* EngineMainThread::doSearch then sends the stop command and its own
\* acknowledgement, which leaves stopAckWaitSelf false.
RootStop ==
    /\ \/ pc[Root] = "between"
       \/ pc[Root] = "searchPoll" /\ cmdQueue[Root] = <<>>
    /\ sendStopSearch(Root, cmdQueue)
    /\ pc' = [pc EXCEPT ![Root] = "stopPoll"]
    /\ UNCHANGED <<stopAckWaitSelf, quitAckWaitChildren, handlerVars, jobId, hasResult,
                   search, stats, accepted>>

\* Without a legal move iterativeDeepening returns at once.
RootNoMoves ==
    /\ pc[Root] = "idle"
    /\ search[Root] < Len(Jobs)
    /\ search' = [search EXCEPT ![Root] = @ + 1]
    /\ jobId' = [jobId EXCEPT ![Root] = 0]
    /\ sendStopSearch(Root, cmdQueue)
    /\ pc' = [pc EXCEPT ![Root] = "stopPoll"]
    /\ accepted' = Plain("none")
    /\ UNCHANGED <<stopAckWaitSelf, quitAckWaitChildren, handlerVars, hasResult, stats>>

RootStopPoll ==
    /\ pc[Root] = "stopPoll"
    /\ cmdQueue[Root] # <<>>
    /\ LET cmd == Head(cmdQueue[Root])
           q   == [cmdQueue EXCEPT ![Root] = Tail(@)]
       IN  \/ cmd.type = "STOP_ACK" /\ StopAck(Root, q)
           \/ cmd.type # "STOP_ACK" /\ Ignore(q)

RootStopWait ==
    /\ pc[Root] = "stopPoll" /\ cmdQueue[Root] = <<>>
    /\ ~hasStopAck(Root)
    /\ pc' = [pc EXCEPT ![Root] = "stopWait"]
    /\ UNCHANGED <<commVars, ackVars, handlerVars, jobId, hasResult, search, stats, accepted>>

\* Mutant: the search counts as stopped before all workers have acknowledged.
RootStoppedEarly ==
    /\ pc[Root] = "stopPoll" /\ cmdQueue[Root] = <<>>
    /\ notified' = [notified EXCEPT ![Root] = TRUE]
    /\ pc' = [pc EXCEPT ![Root] = "idle"]
    /\ UNCHANGED <<cmdQueue, ackVars, handlerVars, jobId, hasResult, search, stats, accepted>>

RootStopped ==
    /\ pc[Root] = "stopPoll" /\ cmdQueue[Root] = <<>>
    /\ hasStopAck(Root)
    /\ notified' = [notified EXCEPT ![Root] = TRUE]
    /\ pc' = [pc EXCEPT ![Root] = "idle"]
    /\ UNCHANGED <<cmdQueue, ackVars, handlerVars, jobId, hasResult, search, stats, accepted>>

RootQuit ==
    /\ pc[Root] = "idle"
    /\ sendQuit(Root, cmdQueue)
    /\ pc' = [pc EXCEPT ![Root] = "quitPoll"]
    /\ UNCHANGED <<stopAckWaitSelf, stopAckWaitChildren, handlerVars, jobId, hasResult,
                   search, stats, accepted>>

RootQuitPoll ==
    /\ pc[Root] = "quitPoll"
    /\ cmdQueue[Root] # <<>>
    /\ LET cmd == Head(cmdQueue[Root])
           q   == [cmdQueue EXCEPT ![Root] = Tail(@)]
       IN  \/ cmd.type = "QUIT_ACK" /\ QuitAck(Root, q)
           \/ cmd.type # "QUIT_ACK" /\ Ignore(q)

RootQuitWait ==
    /\ pc[Root] = "quitPoll" /\ cmdQueue[Root] = <<>>
    /\ pc' = [pc EXCEPT ![Root] = IF hasQuitAck(Root) THEN "exited" ELSE "quitWait"]
    /\ UNCHANGED <<commVars, ackVars, handlerVars, jobId, hasResult, search, stats, accepted>>

RootWakeUp ==
    /\ pc[Root] \in {"stopWait", "quitWait"}
    /\ notified[Root]
    /\ notified' = [notified EXCEPT ![Root] = FALSE]
    /\ pc' = [pc EXCEPT ![Root] = IF @ = "stopWait" THEN "stopPoll" ELSE "quitPoll"]
    /\ UNCHANGED <<cmdQueue, ackVars, handlerVars, jobId, hasResult, search, stats, accepted>>

-----------------------------------------------------------------------------
\* What a worker's thread does by itself; searching is finite between polls.
WorkerLoop(n) == PollWorker(n) \/ WakeUp(n) \/ ExitThread(n) \/ BeginSearch(n) \/ NoJob(n)
                 \/ ContinueSearch(n) \/ AbortSearch(n)
WorkerSearch(n) == ReportNodes(n) \/ CompleteIteration(n) \/ CompleteLastIteration(n)

RootSearch == RootInitSearch \/ RootStartJob \/ RootCompletes \/ RootPoll \/ RootContinue \/ RootStop
              \/ RootEnterPoll \/ RootNoMoves
RootLoop   == RootStopPoll \/ RootStopWait \/ RootStopped \/ RootQuitPoll \/ RootQuitWait
              \/ RootWakeUp

Terminated == (\A n \in Nodes : pc[n] = "exited") /\ UNCHANGED vars

Next ==
    \/ \E n \in Workers : WorkerLoop(n) \/ EnterPoll(n) \/ WorkerSearch(n)
    \/ RootSearch \/ RootLoop \/ RootQuit
    \/ Terminated

Spec == Init /\ [][Next]_vars

\* The scheduler runs every thread, and a searching worker polls again and again
\* (negaScout calls shouldStop every nodesBetweenTimeCheck nodes).
Fairness ==
    /\ \A n \in Workers : WF_vars(WorkerLoop(n)) /\ WF_vars(EnterPoll(n))
    /\ WF_vars(RootLoop)

FairSpec == Spec /\ Fairness

-----------------------------------------------------------------------------
(* Properties *)

CmdTypes == {"INIT_SEARCH", "START_SEARCH", "STOP_SEARCH", "REPORT_RESULT",
             "STOP_ACK", "QUIT", "QUIT_ACK"}
JobIds == {0} \union UNION {0..Jobs[s] : s \in DOMAIN Jobs}
Searches == 0..Len(Jobs)
Cmds == [type : CmdTypes, job : JobIds, search : Searches]

\* Every variable has its type; the acknowledgement counters stay in range.
TypeOK ==
    /\ cmdQueue \in [Nodes -> Seq(Cmds)]
    /\ notified \in [Nodes -> BOOLEAN]
    /\ stopAckWaitSelf \in [Nodes -> BOOLEAN]
    /\ stopAckWaitChildren \in [Nodes -> 0..Cardinality(Nodes)]
    /\ quitAckWaitChildren \in [Nodes -> -1..Cardinality(Nodes)]
    /\ jobId \in [Nodes -> JobIds \union {-1}]
    /\ hasResult \in [Workers -> BOOLEAN]
    /\ handlerJob \in [Workers -> JobIds \union {-1}]
    /\ pc \in [Nodes -> {"wait", "poll", "search", "searchPoll", "exited", "idle", "between",
                         "stopPoll", "stopWait", "quitPoll", "quitWait"}]
    /\ search \in [Nodes -> Searches]
    /\ handlerSearch \in [Workers -> Searches]
    /\ stats \in [Nodes -> SUBSET Searches]
    /\ accepted \in Cmds \union {Plain("none")}

Queued(n, type) == {i \in DOMAIN cmdQueue[n] : cmdQueue[n][i].type = type}
Searching(n)    == pc[n] \in {"search", "searchPoll"}

\* What a node still owes its parent while a search is being stopped: the stop
\* command is queued, or polled and not yet acknowledged by the whole subtree.
OwesStopAck(n) == Queued(n, "STOP_SEARCH") # {} \/ ~hasStopAck(n)

\* A node waits for exactly as many children as still owe it an acknowledgement,
\* counting those whose acknowledgement lies in its queue: none is lost,
\* counted twice, or taken for the answer to another stop command.
StopAcksBalance ==
    \A n \in Nodes :
        stopAckWaitChildren[n] =
            Cardinality({c \in Children(n) : OwesStopAck(c)})
            + Cardinality(Queued(n, "STOP_ACK"))

\* When the root may begin a search, the tree is at rest: no worker searches or
\* has a job, no command of the last search is queued anywhere, no
\* acknowledgement is outstanding.  doSearch of EngineMainThread relies on it
\* (job numbers start again at 1, tables and options are changed).
QuietBetweenSearches ==
    pc[Root] = "idle" =>
        \A n \in Workers :
            /\ ~Searching(n) /\ jobId[n] = -1
            /\ hasStopAck(n)
            /\ \A i \in DOMAIN cmdQueue[n] : FALSE

\* Acknowledgements are exact: the waiting counts fit the messages under way, and
\* the root goes on to the next search only when the whole tree is at rest.
StopsAreExact == StopAcksBalance /\ QuietBetweenSearches

\* A sleeping thread with anything to do has been notified, although commands
\* are also taken from the queue by polls that leave the flag alone.
NoLostNotification ==
    \A n \in Nodes :
        /\ pc[n] = "wait" /\ ~notified[n] =>
              cmdQueue[n] = <<>> /\ jobId[n] = -1 /\ ~stopAckWaitSelf[n]
        /\ pc[n] \in {"stopWait", "quitWait"} /\ ~notified[n] => cmdQueue[n] = <<>>

\* A result the root takes was computed in the current search, for the job the
\* root is working on, though every search numbers its jobs from 1.
ResultsAreCurrent ==
    accepted.type = "REPORT_RESULT" => accepted.search = search[Root]

\* A worker whose job number agrees with its stop handler works on that job,
\* not on one of the same number in another search.
JobsAreCurrent ==
    \A n \in Workers :
        Searching(n) /\ jobId[n] = handlerJob[n] => search[n] = handlerSearch[n]

\* The node count the root reads while it searches (for the node limit, the nps
\* limit and the statistics) holds nodes of the current search only.
StatsAreCurrent ==
    pc[Root] \in {"between", "search", "searchPoll"} => stats[Root] \subseteq {search[Root]}

\* Nothing of one search reaches the next: neither results nor jobs nor counts.
SearchesAreSeparate == ResultsAreCurrent /\ JobsAreCurrent /\ StatsAreCurrent

\* A stopped search ends: the root comes back to its main loop.  After a quit
\* every thread leaves its loop.
StopAndQuitTerminate ==
    /\ pc[Root] \in {"stopPoll", "stopWait"} ~> pc[Root] = "idle"
    /\ pc[Root] = "quitPoll" ~> \A n \in Nodes : pc[n] = "exited"

\* A worker that has a job searches, gets another job, or loses it.
JobsAreSearched ==
    \A n \in Workers : pc[n] \in {"wait", "poll"} /\ jobId[n] # -1 ~> Searching(n) \/ jobId[n] = -1
=============================================================================
