----------------------------- MODULE WorkerTree -----------------------------
(* How the tree of search threads is built, changed and torn down           *)
(* (WorkerThread and the tree of Communicators in parallel.cpp), between    *)
(* searches.  Of a search only its end is seen: the stop and its            *)
(* acknowledgements, after which the tree may be changed.                   *)
EXTENDS Integers, FiniteSets, SequencesExt

CONSTANTS Ids,            \* memory for WorkerThread objects: natural numbers above 0
          MaxChildren,    \* 4
          Sizes,          \* numbers of worker threads that a go may ask for
          MaxGos          \* bound: go commands

ASSUME TreeAssumption ==
    /\ IsFiniteSet(Ids) /\ Ids \subseteq Nat \ {0}
    /\ MaxChildren \in Nat \ {0} /\ Sizes \subseteq Nat /\ MaxGos \in Nat

VARIABLES node,           \* the main thread's Communicator and the WorkerThread objects
          dying,          \* the objects whose destructors the UCI thread is in, innermost first
          phase,          \* "idle", "build", "search", "stop"
          threads,        \* worker threads that the last go asked for
          gos             \* counted up to the bound
vars == <<node, dying, phase, threads, gos>>

-----------------------------------------------------------------------------
Root == 0
Nodes == Ids \cup {Root}
NoWorker == 0
(* One record for a WorkerThread, its thread and its Communicator: pc is the *)
(* place of its thread, kids what it owns, list the children that have       *)
(* registered with its Communicator; i, first, left and fresh are            *)
(* createWorkers' variables.                                                 *)
Free == [pc |-> "free", no |-> 0, size |-> 0, parent |-> Root, kids |-> <<>>, list |-> {},
         i |-> 1, first |-> 0, left |-> 0, fresh |-> {}, initialized |-> FALSE,
         notified |-> FALSE, terminate |-> FALSE, queue |-> <<>>,
         waitSelf |-> FALSE, waitKids |-> 0]
WorkerThread(no, size, parent) ==
    [Free EXCEPT !.pc = "start", !.no = no, !.size = size, !.parent = parent]

Init ==
    /\ node = [w \in Nodes |-> IF w = Root THEN [Free EXCEPT !.pc = "idle"] ELSE Free]
    /\ dying = <<>> /\ phase = "idle" /\ threads = 0 /\ gos = 0

-----------------------------------------------------------------------------
(* createWorkers.  A worker runs it when its thread starts, for its own     *)
(* subtree, the UCI thread runs it in each go for the whole tree.           *)
NumChildren(n) == IF n < MaxChildren THEN n ELSE MaxChildren
(* resize: children past the end are destroyed, missing ones are null.      *)
Resized(p, n) == [j \in 1 .. NumChildren(n) |->
                     IF j <= Len(node[p].kids) THEN node[p].kids[j] ELSE NoWorker]
Surplus(p, n) == SubSeq(node[p].kids, NumChildren(n) + 1, Len(node[p].kids))
Starting(p, n, at) ==
    [node[p] EXCEPT !.kids = Resized(p, n), !.i = 1, !.first = at, !.left = n, !.fresh = {}]

Go(n) ==
    /\ phase = "idle" /\ gos < MaxGos
    /\ phase' = "build" /\ gos' = gos + 1 /\ threads' = n
    /\ node' = [node EXCEPT ![Root] = Starting(Root, n, 1)]
    /\ dying' = Surplus(Root, n)

(* A new thread makes its Communicator, which registers with its parent's,  *)
(* and goes on to its own children.                                         *)
StartThread(w) ==
    /\ node[w].pc = "start"
    /\ node' = [node EXCEPT ![w] = [Starting(w, node[w].size - 1, node[w].no + 1) EXCEPT !.pc = "build"],
                            ![node[w].parent].list = @ \cup {w}]
    /\ UNCHANGED <<dying, phase, threads, gos>>

Builds(p) ==
    IF p = Root THEN phase = "build" /\ dying = <<>> ELSE node[p].pc = "build"

(* The workers of a child, and whether the child there is can stay.         *)
Share(p) == LET rest == Len(node[p].kids) - node[p].i + 1
            IN  (node[p].left + rest - 1) \div rest
KeepsNumber(w, no, size) ==       \* mutant: the size of the subtree is not compared
    w # NoWorker /\ node[w].no = no
Keeps(w, no, size) ==
    w # NoWorker /\ node[w].no = no /\ node[w].size = size

(* One child: it is kept, or a new one takes its place; then the old one is *)
(* destroyed, while the thread of the new one already runs.                 *)
CreateChild(p) ==
    LET me == node[p]
        n == Share(p)
        old == me.kids[me.i]
        next == [me EXCEPT !.i = @ + 1, !.first = @ + n, !.left = @ - n]
    IN  /\ Builds(p) /\ me.i <= Len(me.kids)
        /\ IF Keeps(old, me.first, n)
           THEN node' = [node EXCEPT ![p] = next] /\ UNCHANGED dying
           ELSE \E w \in Ids :
                   /\ node[w].pc = "free" /\ w = CHOOSE v \in Ids : node[v].pc = "free"
                   /\ node' = [node EXCEPT ![p] = [next EXCEPT !.kids[me.i] = w, !.fresh = @ \cup {w}],
                                           ![w] = WorkerThread(me.first, n, p)]
                   /\ dying' = IF old = NoWorker THEN dying ELSE <<old>>
        /\ UNCHANGED <<phase, threads, gos>>

WaitInitializedNot(p) == TRUE     \* mutant: the new children are not waited for
WaitInitialized(p) == \A w \in node[p].fresh : node[w].initialized
EndCreate(p) ==
    /\ Builds(p) /\ node[p].i > Len(node[p].kids)
    /\ WaitInitialized(p)
    /\ IF p = Root
       THEN /\ phase' = "search" /\ node' = [node EXCEPT ![Root].fresh = {}]
       ELSE /\ node' = [node EXCEPT ![p].pc = "wait", ![p].fresh = {}, ![p].initialized = TRUE]
            /\ UNCHANGED phase
    /\ UNCHANGED <<dying, threads, gos>>

-----------------------------------------------------------------------------
(* ~WorkerThread, run by the UCI thread: the children first, then the own   *)
(* thread is told to end and joined, then its Communicator goes.            *)
ClearChildren ==
    /\ dying # <<>> /\ node[Head(dying)].kids # <<>>
    /\ dying' = node[Head(dying)].kids \o dying
    /\ node' = [node EXCEPT ![Head(dying)].kids = <<>>]
    /\ UNCHANGED <<phase, threads, gos>>

Ending(w) == node[w].kids = <<>> /\ ~node[w].terminate
TerminateSilently ==              \* mutant: the thread is not woken
    /\ dying # <<>> /\ Ending(Head(dying))
    /\ node' = [node EXCEPT ![Head(dying)].terminate = TRUE]
    /\ UNCHANGED <<dying, phase, threads, gos>>
Terminate ==
    /\ dying # <<>> /\ Ending(Head(dying))
    /\ node' = [node EXCEPT ![Head(dying)].terminate = TRUE, ![Head(dying)].notified = TRUE]
    /\ UNCHANGED <<dying, phase, threads, gos>>

Join ==
    /\ dying # <<>> /\ node[Head(dying)].pc = "exited" /\ node[Head(dying)].terminate
    /\ node' = [node EXCEPT ![node[Head(dying)].parent].list = @ \ {Head(dying)},
                            ![Head(dying)] = Free]
    /\ dying' = Tail(dying)
    /\ UNCHANGED <<phase, threads, gos>>

-----------------------------------------------------------------------------
(* The threads.  Commands are put in the queue and the thread is notified   *)
(* under the lock of the queue.                                             *)
HasStopAck(nd) == ~nd.waitSelf /\ nd.waitKids = 0
(* f with an acknowledgement to the parent of w, if w has all it waited for. *)
Acked(f, w) ==
    IF w # Root /\ HasStopAck(f[w])
    THEN [f EXCEPT ![f[w].parent].queue = Append(@, "STOP_ACK"), ![f[w].parent].notified = TRUE]
    ELSE f
(* f with a stop for all children of w.                                     *)
SendStopSearch(f, w) ==
    [v \in Nodes |->
        CASE v = w         -> [f[w] EXCEPT !.waitSelf = TRUE, !.waitKids = Cardinality(f[w].list),
                                           !.notified = TRUE]
          [] v \in f[w].list -> [f[v] EXCEPT !.queue = Append(SelectSeq(@, LAMBDA c : c # "STOP_SEARCH"),
                                                              "STOP_SEARCH"),
                                             !.notified = TRUE]
          [] OTHER         -> f[v]]

(* The main thread stops the search and waits for the acknowledgements.     *)
StopSearch ==
    /\ phase = "search" /\ phase' = "stop"
    /\ node' = [SendStopSearch(node, Root) EXCEPT ![Root].waitSelf = FALSE, ![Root].pc = "walk"]
    /\ UNCHANGED <<dying, threads, gos>>

Wait(w) ==
    /\ node[w].pc = "wait" /\ node[w].notified
    /\ node' = [node EXCEPT ![w].pc = "woken", ![w].notified = FALSE]
    /\ UNCHANGED <<dying, phase, threads, gos>>
Woken(w) ==
    /\ node[w].pc = "woken"
    /\ node' = [node EXCEPT ![w].pc = IF node[w].terminate THEN "exited" ELSE "walk"]
    /\ UNCHANGED <<dying, phase, threads, gos>>

(* poll calls doPoll of all children, which does nothing for a thread, then *)
(* handles the commands in the queue.                                       *)
Walk(w) ==
    /\ node[w].pc = "walk"
    /\ node' = [node EXCEPT ![w].pc = "poll"]
    /\ UNCHANGED <<dying, phase, threads, gos>>
HandleStop(w) ==
    /\ node[w].pc = "poll" /\ node[w].queue # <<>> /\ Head(node[w].queue) = "STOP_SEARCH"
    /\ node' = SendStopSearch([node EXCEPT ![w].queue = Tail(@)], w)
    /\ UNCHANGED <<dying, phase, threads, gos>>
HandleStopAck(w) ==
    /\ node[w].pc = "poll" /\ node[w].queue # <<>> /\ Head(node[w].queue) = "STOP_ACK"
    /\ node' = Acked([node EXCEPT ![w].queue = Tail(@), ![w].waitKids = @ - 1], w)
    /\ UNCHANGED <<dying, phase, threads, gos>>
EndPoll(w) ==
    /\ w # Root /\ node[w].pc = "poll" /\ node[w].queue = <<>>
    /\ LET waiting == [node EXCEPT ![w].pc = "wait"]
       IN  node' = IF node[w].waitSelf THEN Acked([waiting EXCEPT ![w].waitSelf = FALSE], w)
                                       ELSE waiting
    /\ UNCHANGED <<dying, phase, threads, gos>>
EndRootPoll ==
    /\ node[Root].pc = "poll" /\ node[Root].queue = <<>>
    /\ LET all == HasStopAck(node[Root])
       IN  /\ node' = [node EXCEPT ![Root].pc = IF all THEN "idle" ELSE "wait"]
           /\ phase' = IF all THEN "idle" ELSE phase
    /\ UNCHANGED <<dying, threads, gos>>

Uci == CreateChild(Root) \/ EndCreate(Root) \/ ClearChildren \/ Terminate \/ Join
Thread(w) ==
    \/ Wait(w) \/ Woken(w) \/ Walk(w) \/ HandleStop(w) \/ HandleStopAck(w)
    \/ w \in Ids /\ (StartThread(w) \/ CreateChild(w) \/ EndCreate(w) \/ EndPoll(w))
    \/ w = Root /\ (StopSearch \/ EndRootPoll)
Next == (\E n \in Sizes : Go(n)) \/ Uci \/ \E w \in Nodes : Thread(w)
Spec == Init /\ [][Next]_vars
(* Every thread that can run does, the search is stopped some time.         *)
FairSpec == Spec /\ WF_vars(Uci) /\ \A w \in Nodes : WF_vars(Thread(w))

(***************************************************************************)
(* What is checked.                                                        *)
(***************************************************************************)
Live == {w \in Ids : node[w].pc # "free"}

(* createWorkers leaves as many threads as were asked for, with the numbers *)
(* from 1 on, each registered with the parent that owns it, whatever tree   *)
(* there was before; none is left of the old one that was not kept.         *)
TreeComplete ==
    phase \in {"search", "stop"} =>
        /\ {node[w].no : w \in Live} = 1 .. threads /\ Cardinality(Live) = threads
        /\ \A w \in Live : node[w].initialized /\ ~node[w].terminate /\ w \in node[node[w].parent].list
        /\ \A p \in Live \cup {Root} : node[p].list = ToSet(node[p].kids)

(* A thread goes through the children of its Communicator without a lock;   *)
(* other threads add and remove children under a lock.  They do so while    *)
(* the thread is there only if its own WorkerThread is being destroyed (its *)
(* children go before it is told to end, and a notification left over from  *)
(* an acknowledgement may have woken it); never to a thread that stays.     *)
RacesOnlyIfDestroyed ==
    [][\A p \in Nodes : node[p].pc \in {"walk", "poll"} /\ node'[p].list # node[p].list
                            => p \in ToSet(dying)]_vars

(* Every go gets its tree, and every stop all its acknowledgements.         *)
GoAndStopReturn == phase # "idle" ~> phase = "idle"
=============================================================================
