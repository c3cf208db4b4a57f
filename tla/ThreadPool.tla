----------------------------- MODULE ThreadPool -----------------------------
(***************************************************************************)
(* ThreadPool<Result> of lib/texelutillib/threadpool.hpp: worker threads   *)
(* take tasks from a deque; client threads add tasks and wait for results. *)
(*                                                                         *)
(* Everything done while `mutex` is held is one action.  A condition       *)
(* variable is the set of threads in state "wait"; notify_all moves them   *)
(* to the state in which they contend for the mutex again, and a thread    *)
(* may leave the wait spuriously.  addTask and the destructor notify after *)
(* they have released the mutex, so there the notification is a step of    *)
(* its own; a worker notifies completeCv with the mutex held.              *)
(*                                                                         *)
(* Tasks are numbered in the order in which addTask appends them.          *)
(***************************************************************************)
EXTENDS Integers, Sequences, FiniteSets

CONSTANTS Workers,   \* the threads started by the constructor
          Clients,   \* the threads that call addTask and getResult
          Owner,     \* the client that destroys the pool
          MaxTasks,  \* bound on the number of addTask calls
          CopyMayThrow  \* whether copying a Result can throw (a vector's can)

ASSUME PoolAssumption ==
    /\ IsFiniteSet(Workers) /\ Workers # {}
    /\ Owner \in Clients
    /\ MaxTasks \in Nat
    /\ CopyMayThrow \in BOOLEAN

VARIABLES
    tasks,       \* added, not yet taken by a worker
    results,     \* tasks that returned, result not yet retrieved
    exceptions,  \* tasks that threw, exception not yet retrieved
    nActive,     \* the code's count of tasks being executed
    stopped,     \* set by the destructor
    wpc,         \* what each worker is doing
    job,         \* the task a worker has taken (0: none)
    cpc,         \* what each client is doing
    ret,         \* what a client's last call of getResult gave
    added,       \* how many tasks have been added
    delivered    \* history: the tasks whose outcome a client has received

poolVars   == <<tasks, results, exceptions, nActive, stopped>>
workerVars == <<wpc, job>>
clientVars == <<cpc, ret, added, delivered>>
vars       == <<poolVars, workerVars, clientVars>>

Task    == 1..MaxTasks
NoTask  == 0
Returns == {"none", "result", "exception", "false"}

Elems(s) == {s[i] : i \in DOMAIN s}
NoneDone == results = <<>> /\ exceptions = <<>>

Init ==
    /\ tasks = <<>> /\ results = <<>> /\ exceptions = <<>>
    /\ nActive = 0
    /\ stopped = FALSE
    /\ wpc = [w \in Workers |-> "loop"]
    /\ job = [w \in Workers |-> NoTask]
    /\ cpc = [c \in Clients |-> "idle"]
    /\ ret = [c \in Clients |-> "none"]
    /\ added = 0
    /\ delivered = {}

-----------------------------------------------------------------------------
(* Client threads *)

\* addTask: append under the mutex; the notification follows the unlock.
AddTask(c) ==
    /\ cpc[c] = "idle" /\ ~stopped
    /\ added < MaxTasks
    /\ added' = added + 1
    /\ tasks' = Append(tasks, added + 1)
    /\ cpc' = [cpc EXCEPT ![c] = "notify"]
    /\ UNCHANGED <<results, exceptions, nActive, stopped, workerVars, ret, delivered>>

NotifyWorkers ==
    wpc' = [w \in Workers |-> IF wpc[w] = "wait" THEN "loop" ELSE wpc[w]]

NotifyTask(c) ==
    /\ cpc[c] = "notify"
    /\ NotifyWorkers
    /\ cpc' = [cpc EXCEPT ![c] = "idle"]
    /\ UNCHANGED <<poolVars, job, ret, added, delivered>>

CallGetResult(c) ==
    /\ cpc[c] = "idle" /\ ~stopped
    /\ cpc' = [cpc EXCEPT ![c] = "get"]
    /\ ret' = [ret EXCEPT ![c] = "none"]
    /\ UNCHANGED <<poolVars, workerVars, added, delivered>>

Return(c, r) ==
    /\ cpc' = [cpc EXCEPT ![c] = "idle"]
    /\ ret' = [ret EXCEPT ![c] = r]

GetException(c) ==
    /\ cpc[c] = "get"
    /\ exceptions # <<>>
    /\ exceptions' = Tail(exceptions)
    /\ delivered' = delivered \union {Head(exceptions)}
    /\ Return(c, "exception")
    /\ UNCHANGED <<tasks, results, nActive, stopped, workerVars, added>>

GetValue(c) ==
    /\ cpc[c] = "get"
    /\ exceptions = <<>> /\ results # <<>>
    /\ results' = Tail(results)
    /\ delivered' = delivered \union {Head(results)}
    /\ Return(c, "result")
    /\ UNCHANGED <<tasks, exceptions, nActive, stopped, workerVars, added>>

\* Mutant: the tasks being executed are forgotten.
GetNothingIfQueueEmpty(c) ==
    /\ cpc[c] = "get"
    /\ NoneDone
    /\ tasks = <<>>
    /\ Return(c, "false")
    /\ UNCHANGED <<poolVars, workerVars, added, delivered>>

GetNothing(c) ==
    /\ cpc[c] = "get"
    /\ NoneDone
    /\ nActive = 0 /\ tasks = <<>>
    /\ Return(c, "false")
    /\ UNCHANGED <<poolVars, workerVars, added, delivered>>

WaitComplete(c) ==
    /\ cpc[c] = "get"
    /\ NoneDone
    /\ ~(nActive = 0 /\ tasks = <<>>)
    /\ cpc' = [cpc EXCEPT ![c] = "wait"]
    /\ UNCHANGED <<poolVars, workerVars, ret, added, delivered>>

GetResult(c) == GetException(c) \/ GetValue(c) \/ GetNothing(c) \/ WaitComplete(c)

SpuriousWakeClient(c) ==
    /\ cpc[c] = "wait"
    /\ cpc' = [cpc EXCEPT ![c] = "get"]
    /\ UNCHANGED <<poolVars, workerVars, ret, added, delivered>>

\* The destructor.  As for any C++ object, no call may be in progress.
Destroy ==
    /\ \A c \in Clients : cpc[c] = "idle"
    /\ ~stopped
    /\ stopped' = TRUE
    /\ cpc' = [cpc EXCEPT ![Owner] = "stop"]
    /\ UNCHANGED <<tasks, results, exceptions, nActive, workerVars, ret, added, delivered>>

\* Mutant: the destructor joins without waking the sleeping workers.
NotifyStopSilently ==
    /\ cpc[Owner] = "stop"
    /\ cpc' = [cpc EXCEPT ![Owner] = "join"]
    /\ UNCHANGED <<poolVars, workerVars, ret, added, delivered>>

NotifyStop ==
    /\ cpc[Owner] = "stop"
    /\ NotifyWorkers
    /\ cpc' = [cpc EXCEPT ![Owner] = "join"]
    /\ UNCHANGED <<poolVars, job, ret, added, delivered>>

Join ==
    /\ cpc[Owner] = "join"
    /\ \A w \in Workers : wpc[w] = "exited"
    /\ cpc' = [cpc EXCEPT ![Owner] = "destroyed"]
    /\ UNCHANGED <<poolVars, workerVars, ret, added, delivered>>

-----------------------------------------------------------------------------
(* Worker threads: workerLoop *)

WaitTask(w) ==
    /\ wpc[w] = "loop"
    /\ ~stopped /\ tasks = <<>>
    /\ wpc' = [wpc EXCEPT ![w] = "wait"]
    /\ UNCHANGED <<poolVars, job, clientVars>>

\* A stopped pool abandons the tasks nobody has taken.
Exit(w) ==
    /\ wpc[w] = "loop"
    /\ stopped
    /\ wpc' = [wpc EXCEPT ![w] = "exited"]
    /\ UNCHANGED <<poolVars, job, clientVars>>

TakeTask(w) ==
    /\ wpc[w] = "loop"
    /\ ~stopped /\ tasks # <<>>
    /\ job' = [job EXCEPT ![w] = Head(tasks)]
    /\ tasks' = Tail(tasks)
    /\ nActive' = nActive + 1
    /\ wpc' = [wpc EXCEPT ![w] = "taken"]
    /\ UNCHANGED <<results, exceptions, stopped, clientVars>>

\* The call of the task, after the mutex has been released.
StartTask(w) ==
    /\ wpc[w] = "taken"
    /\ wpc' = [wpc EXCEPT ![w] = "run"]
    /\ UNCHANGED <<poolVars, job, clientVars>>

\* Mutant: notify_one instead of notify_all.
NotifyOneClient ==
    \/ /\ NoneDone => \A c \in Clients : cpc[c] # "wait"
       /\ cpc' = cpc
    \/ /\ NoneDone
       /\ \E c \in Clients : cpc[c] = "wait" /\ cpc' = [cpc EXCEPT ![c] = "get"]

\* notify_all on completeCv, but only if there was nothing to retrieve.
NotifyClients ==
    cpc' = IF NoneDone
           THEN [c \in Clients |-> IF cpc[c] = "wait" THEN "get" ELSE cpc[c]]
           ELSE cpc

Complete(w) ==
    /\ nActive' = nActive - 1
    /\ NotifyClients
    /\ wpc' = [wpc EXCEPT ![w] = "loop"]
    /\ job' = [job EXCEPT ![w] = NoTask]
    /\ UNCHANGED <<tasks, stopped, ret, added, delivered>>

\* Mutant: the task is reset before its result is stored.
TaskReturnsNothing(w) ==
    /\ wpc[w] = "run"
    /\ Complete(w)
    /\ results' = Append(results, NoTask)
    /\ UNCHANGED exceptions

TaskReturns(w) ==
    /\ wpc[w] = "run"
    /\ Complete(w)
    /\ results' = Append(results, job[w])
    /\ UNCHANGED exceptions

\* Mutant: the handler swallows the exception.
CopyThrowsSwallowed(w) ==
    /\ CopyMayThrow
    /\ wpc[w] = "run"
    /\ nActive' = nActive - 1
    /\ wpc' = [wpc EXCEPT ![w] = "loop"]
    /\ job' = [job EXCEPT ![w] = NoTask]
    /\ UNCHANGED <<tasks, results, exceptions, stopped, clientVars>>

\* results.push_back copies the result inside the try block, after nActive has
\* been decremented; if the copy throws, the mutex is released and the handler
\* runs as it does for a task that threw.
CopyThrows(w) ==
    /\ CopyMayThrow
    /\ wpc[w] = "run"
    /\ nActive' = nActive - 1
    /\ wpc' = [wpc EXCEPT ![w] = "caught"]
    /\ UNCHANGED <<tasks, results, exceptions, stopped, job, clientVars>>

\* Mutant: no decrement of nActive in the handler.
TaskThrowsStaysActive(w) ==
    /\ wpc[w] \in {"run", "caught"}
    /\ NotifyClients
    /\ wpc' = [wpc EXCEPT ![w] = "loop"]
    /\ job' = [job EXCEPT ![w] = NoTask]
    /\ exceptions' = Append(exceptions, job[w])
    /\ UNCHANGED <<tasks, results, nActive, stopped, ret, added, delivered>>

TaskThrows(w) ==
    /\ wpc[w] \in {"run", "caught"}
    /\ Complete(w)
    /\ exceptions' = Append(exceptions, job[w])
    /\ UNCHANGED results

SpuriousWakeWorker(w) ==
    /\ wpc[w] = "wait"
    /\ wpc' = [wpc EXCEPT ![w] = "loop"]
    /\ UNCHANGED <<poolVars, job, clientVars>>

-----------------------------------------------------------------------------
ClientStep(c) == NotifyTask(c) \/ GetResult(c)
OwnerStep     == NotifyStop \/ Join
WorkerStep(w) == WaitTask(w) \/ Exit(w) \/ TakeTask(w) \/ StartTask(w)
                 \/ TaskReturns(w) \/ CopyThrows(w) \/ TaskThrows(w)

\* Steps the environment may take or leave: new calls and spurious wakeups.
ClientCall(c) == AddTask(c) \/ CallGetResult(c)
Spurious      == (\E c \in Clients : SpuriousWakeClient(c))
                 \/ (\E w \in Workers : SpuriousWakeWorker(w))

\* The pool has been destroyed: nothing happens any more.
Terminated == cpc[Owner] = "destroyed" /\ UNCHANGED vars

Next ==
    \/ \E c \in Clients : ClientStep(c) \/ ClientCall(c)
    \/ Destroy
    \/ OwnerStep
    \/ \E w \in Workers : WorkerStep(w)
    \/ Spurious
    \/ Terminated

Spec == Init /\ [][Next]_vars

\* The scheduler runs every thread that can run, and tasks end.
Fairness ==
    /\ \A c \in Clients : WF_vars(ClientStep(c))
    /\ WF_vars(OwnerStep)
    /\ \A w \in Workers : WF_vars(WorkerStep(w))

FairSpec == Spec /\ Fairness

-----------------------------------------------------------------------------
(* Properties *)

Active == {w \in Workers : wpc[w] \in {"taken", "run", "caught"}}

\* Every variable has its type.
TypeOK ==
    /\ tasks \in Seq(Task) /\ results \in Seq(Task) /\ exceptions \in Seq(Task)
    /\ nActive \in Int
    /\ stopped \in BOOLEAN
    /\ wpc \in [Workers -> {"loop", "wait", "taken", "run", "caught", "exited"}]
    /\ job \in [Workers -> Task \union {NoTask}]
    /\ \A w \in Active : job[w] \in Task
    /\ cpc \in [Clients -> {"idle", "notify", "get", "wait", "stop", "join", "destroyed"}]
    /\ ret \in [Clients -> Returns]
    /\ added \in 0..MaxTasks
    /\ delivered \in SUBSET Task

\* nActive is the number of workers that hold a task, whatever the tasks do
\* (getResult decides by it whether there is anything left to wait for).
ActiveCount == nActive = Cardinality(Active)

\* A client blocked in getResult has something to be woken by and nothing to
\* retrieve: although a worker notifies only on the empty to non-empty edge, no
\* client sleeps beside an outcome, and none sleeps when all work is done.
NoClientSleepsForever ==
    \A c \in Clients : cpc[c] = "wait" =>
        NoneDone /\ (nActive > 0 \/ tasks # <<>>)

\* A worker sleeps beside a queued task, or in a stopped pool, only while the
\* thread that queued the task (stopped the pool) is about to notify.
NoWorkerSleepsForever ==
    \A w \in Workers : wpc[w] = "wait" =>
        /\ tasks # <<>> => \E c \in Clients : cpc[c] \in {"notify", "stop"}
        /\ stopped => cpc[Owner] = "stop"

\* Nobody sleeps on either condition variable without someone left to wake it.
NoneSleepsForever == NoClientSleepsForever /\ NoWorkerSleepsForever

NoRepeat(s) == \A i, j \in DOMAIN s : s[i] = s[j] => i = j

Held == {job[w] : w \in Active}

\* No task is lost or duplicated: each added task is in exactly one of the task
\* queue, the hands of one worker, the results, the exceptions, or delivered.
TasksConserved ==
    /\ NoRepeat(tasks) /\ NoRepeat(results) /\ NoRepeat(exceptions)
    /\ \A v, w \in Active : job[v] = job[w] => v = w
    /\ LET places == <<Elems(tasks), Held, Elems(results), Elems(exceptions), delivered>>
       IN  /\ UNION {places[i] : i \in 1..5} = 1..added
           /\ \A i, j \in 1..5 : i # j => places[i] \intersect places[j] = {}

\* The pool seen by its clients: a bag of tasks.
Bag == INSTANCE TaskBag WITH
          pending  <- (1..added) \ delivered,
          finished <- delivered,
          calling  <- {c \in Clients : cpc[c] \in {"get", "wait"}},
          closed   <- stopped

\* The pool implements the bag: an outcome is handed out once, getResult
\* returns false only when every task added so far has been handed out to some
\* client ("Return false if there is no task to wait for").
ImplementsBag == Bag!Spec

\* ... and every call of getResult returns, whatever other clients retrieve
\* meanwhile and however often a wait ends spuriously.
ImplementsFairBag == Bag!FairSpec

\* The destructor returns, with tasks queued, running or not retrieved.
DestructorReturns == stopped ~> cpc[Owner] = "destroyed"
=============================================================================
