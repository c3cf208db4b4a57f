-------------------------- MODULE ThreadPoolProofs --------------------------
(***************************************************************************)
(* Proofs about ThreadPool for any number of workers, clients and tasks.   *)
(* Results that cannot throw when copied (~CopyMayThrow) are a hypothesis  *)
(* where nActive matters: CopyThrows decrements it once too often.         *)
(***************************************************************************)
EXTENDS ThreadPool, FiniteSetTheorems, TLAPS

-----------------------------------------------------------------------------
(* Sequences without repetition, used as queues *)

\* What push_back does to the elements of a deque.
LEMMA AppendElems ==
    ASSUME NEW S, NEW s \in Seq(S), NEW x \in S
    PROVE  /\ Elems(Append(s, x)) = Elems(s) \union {x}
           /\ NoRepeat(s) /\ x \notin Elems(s) => NoRepeat(Append(s, x))
<1>1. /\ Append(s, x) \in Seq(S)
      /\ Len(Append(s, x)) = Len(s) + 1
      /\ Append(s, x)[Len(s) + 1] = x
      /\ \A i \in 1..Len(s) : Append(s, x)[i] = s[i]
  OBVIOUS
<1>2. DOMAIN Append(s, x) = 1..(Len(s) + 1) /\ DOMAIN s = 1..Len(s)
  BY <1>1
<1>3. Elems(Append(s, x)) = Elems(s) \union {x}
  BY <1>1, <1>2 DEF Elems
<1>4. NoRepeat(s) /\ x \notin Elems(s) => NoRepeat(Append(s, x))
  BY <1>1, <1>2 DEF Elems, NoRepeat
<1> QED
  BY <1>3, <1>4

\* What front and pop_front do.
LEMMA TailElems ==
    ASSUME NEW S, NEW s \in Seq(S), s # <<>>
    PROVE  /\ Head(s) \in Elems(s) /\ Head(s) \in S
           /\ Tail(s) \in Seq(S)
           /\ NoRepeat(s) => /\ Elems(Tail(s)) = Elems(s) \ {Head(s)}
                             /\ NoRepeat(Tail(s))
<1>1. /\ Tail(s) \in Seq(S) /\ Head(s) = s[1] /\ Len(s) \in Nat /\ Len(s) >= 1
      /\ Len(Tail(s)) = Len(s) - 1
      /\ \A i \in 1..(Len(s) - 1) : Tail(s)[i] = s[i + 1]
  OBVIOUS
<1>2. DOMAIN Tail(s) = 1..(Len(s) - 1) /\ DOMAIN s = 1..Len(s)
  BY <1>1
<1>3. Head(s) \in Elems(s) /\ Head(s) \in S
  BY <1>1, <1>2 DEF Elems
<1>4. ASSUME NoRepeat(s)
      PROVE  Elems(Tail(s)) = Elems(s) \ {Head(s)}
  <2>1. ASSUME NEW y \in Elems(Tail(s))
        PROVE  y \in Elems(s) \ {Head(s)}
    <3>1. PICK i \in 1..(Len(s) - 1) : y = s[i + 1]
      BY <1>1, <1>2, <2>1 DEF Elems
    <3> QED
      BY <1>1, <1>2, <1>4, <3>1 DEF Elems, NoRepeat
  <2>2. ASSUME NEW y \in Elems(s) \ {Head(s)}
        PROVE  y \in Elems(Tail(s))
    <3>1. PICK i \in 1..Len(s) : y = s[i] /\ i # 1
      BY <1>1, <1>2, <2>2 DEF Elems
    <3>2. i - 1 \in 1..(Len(s) - 1) /\ Tail(s)[i - 1] = y
      BY <1>1, <3>1
    <3> QED
      BY <1>2, <3>2 DEF Elems
  <2> QED
    BY <2>1, <2>2
<1>5. NoRepeat(s) => NoRepeat(Tail(s))
  BY <1>1, <1>2 DEF NoRepeat
<1> QED
  BY <1>1, <1>3, <1>4, <1>5

LEMMA NoElems == Elems(<<>>) = {} /\ NoRepeat(<<>>)
  BY DEF Elems, NoRepeat

-----------------------------------------------------------------------------
(* Types *)

\* Every step, whether or not copies throw, keeps the variables in their types.
LEMMA TypeStep == TypeOK /\ [Next]_vars => TypeOK'
<1> SUFFICES ASSUME TypeOK, [Next]_vars PROVE TypeOK'
  OBVIOUS
<1> USE PoolAssumption
<1>1. ASSUME NEW c \in Clients, AddTask(c) PROVE TypeOK'
  <2>1. added + 1 \in Task /\ added' \in 0..MaxTasks
    BY <1>1 DEF AddTask, TypeOK, Task
  <2>2. tasks' \in Seq(Task)
    BY <1>1, <2>1 DEF AddTask, TypeOK
  <2> QED
    BY <1>1, <2>1, <2>2 DEF AddTask, TypeOK, Active, workerVars
<1>2. ASSUME NEW c \in Clients, NotifyTask(c) PROVE TypeOK'
  BY <1>2 DEF NotifyTask, NotifyWorkers, TypeOK, Active, poolVars
<1>3. ASSUME NEW c \in Clients, CallGetResult(c) PROVE TypeOK'
  BY <1>3 DEF CallGetResult, TypeOK, Active, poolVars, workerVars, Returns
<1>4. ASSUME NEW c \in Clients, GetResult(c) PROVE TypeOK'
  <2>1. CASE GetException(c)
    <3>1. Head(exceptions) \in Task /\ Tail(exceptions) \in Seq(Task)
      BY <2>1, TailElems DEF GetException, TypeOK
    <3> QED
      BY <2>1, <3>1 DEF GetException, Return, TypeOK, Active, workerVars, Returns
  <2>2. CASE GetValue(c)
    <3>1. Head(results) \in Task /\ Tail(results) \in Seq(Task)
      BY <2>2, TailElems DEF GetValue, TypeOK
    <3> QED
      BY <2>2, <3>1 DEF GetValue, Return, TypeOK, Active, workerVars, Returns
  <2>3. CASE GetNothing(c)
    BY <2>3 DEF GetNothing, Return, TypeOK, Active, poolVars, workerVars, Returns
  <2>4. CASE WaitComplete(c)
    BY <2>4 DEF WaitComplete, TypeOK, Active, poolVars, workerVars
  <2> QED
    BY <1>4, <2>1, <2>2, <2>3, <2>4 DEF GetResult
<1>5. ASSUME NEW c \in Clients, SpuriousWakeClient(c) PROVE TypeOK'
  BY <1>5 DEF SpuriousWakeClient, TypeOK, Active, poolVars, workerVars
<1>6. ASSUME Destroy \/ OwnerStep PROVE TypeOK'
  BY <1>6 DEF Destroy, OwnerStep, NotifyStop, NotifyWorkers, Join, TypeOK, Active,
              poolVars, workerVars
<1>7. ASSUME NEW w \in Workers, WaitTask(w) \/ Exit(w) \/ StartTask(w) \/ SpuriousWakeWorker(w)
      PROVE  TypeOK'
  BY <1>7 DEF WaitTask, Exit, StartTask, SpuriousWakeWorker, TypeOK, Active, poolVars, clientVars
<1>8. ASSUME NEW w \in Workers, TakeTask(w) PROVE TypeOK'
  <2>1. Head(tasks) \in Task /\ Tail(tasks) \in Seq(Task)
    BY <1>8, TailElems DEF TakeTask, TypeOK
  <2> QED
    BY <1>8, <2>1 DEF TakeTask, TypeOK, Active, clientVars
<1>9. ASSUME NEW w \in Workers, TaskReturns(w) \/ TaskThrows(w) PROVE TypeOK'
  <2>1. w \in Active /\ job[w] \in Task
    BY <1>9 DEF TaskReturns, TaskThrows, TypeOK, Active
  <2>2. results' \in Seq(Task) /\ exceptions' \in Seq(Task)
    <3>1. CASE TaskReturns(w)
      BY <2>1, <3>1 DEF TaskReturns, TypeOK
    <3>2. CASE TaskThrows(w)
      BY <2>1, <3>2 DEF TaskThrows, TypeOK
    <3> QED
      BY <1>9, <3>1, <3>2
  <2>3. cpc' \in [Clients -> {"idle", "notify", "get", "wait", "stop", "join", "destroyed"}]
    BY <1>9 DEF TaskReturns, TaskThrows, Complete, NotifyClients, TypeOK
  <2>4. /\ wpc' = [wpc EXCEPT ![w] = "loop"]
        /\ job' = [job EXCEPT ![w] = NoTask]
        /\ nActive' = nActive - 1
        /\ UNCHANGED <<tasks, stopped, ret, added, delivered>>
    BY <1>9 DEF TaskReturns, TaskThrows, Complete
  <2> QED
    BY <2>2, <2>3, <2>4 DEF TypeOK, Active
<1>10. ASSUME NEW w \in Workers, CopyThrows(w) PROVE TypeOK'
  BY <1>10 DEF CopyThrows, TypeOK, Active, clientVars
<1>11. CASE UNCHANGED vars
  BY <1>11 DEF vars, poolVars, workerVars, clientVars, TypeOK, Active
<1> QED
  BY <1>1, <1>2, <1>3, <1>4, <1>5, <1>6, <1>7, <1>8, <1>9, <1>10, <1>11
  DEF Next, ClientStep, ClientCall, WorkerStep, Spurious, Terminated

LEMMA TypeInit == Init => TypeOK
<1> SUFFICES ASSUME Init PROVE TypeOK
  OBVIOUS
<1>1. added \in 0..MaxTasks /\ Active = {}
  BY PoolAssumption DEF Init, Active
<1>2. tasks \in Seq(Task) /\ results \in Seq(Task) /\ exceptions \in Seq(Task)
  BY DEF Init
<1>3. /\ wpc \in [Workers -> {"loop", "wait", "taken", "run", "caught", "exited"}]
      /\ job \in [Workers -> Task \union {NoTask}]
      /\ cpc \in [Clients -> {"idle", "notify", "get", "wait", "stop", "join", "destroyed"}]
      /\ ret \in [Clients -> Returns]
  BY DEF Init, Returns
<1>4. nActive \in Int /\ delivered \in SUBSET Task
  BY DEF Init
<1>5. stopped \in BOOLEAN
  BY Zenon DEF Init
<1> QED
  BY <1>1, <1>2, <1>3, <1>4, <1>5 DEF TypeOK

\* The variables always have their types, whatever the tasks and copies do.
THEOREM Typing == Spec => []TypeOK
  BY TypeInit, TypeStep, PTL DEF Spec
-----------------------------------------------------------------------------
(* Condition variables *)

\* No step lets a worker fall asleep, or sleep on, beside a queued task.
LEMMA WorkerSleepStep ==
    TypeOK /\ NoWorkerSleepsForever /\ [Next]_vars => NoWorkerSleepsForever'
<1> SUFFICES ASSUME TypeOK, NoWorkerSleepsForever, [Next]_vars
             PROVE  NoWorkerSleepsForever'
  OBVIOUS
<1> USE PoolAssumption DEF NoWorkerSleepsForever
<1>1. ASSUME NEW c \in Clients, AddTask(c) PROVE NoWorkerSleepsForever'
  BY <1>1 DEF AddTask, TypeOK, workerVars
<1>2. ASSUME NEW c \in Clients, NotifyTask(c) PROVE NoWorkerSleepsForever'
  BY <1>2 DEF NotifyTask, NotifyWorkers, TypeOK
<1>3. ASSUME NEW c \in Clients, CallGetResult(c) PROVE NoWorkerSleepsForever'
  BY <1>3 DEF CallGetResult, TypeOK, poolVars, workerVars
<1>4. ASSUME NEW c \in Clients, GetResult(c) PROVE NoWorkerSleepsForever'
  BY <1>4 DEF GetResult, GetException, GetValue, GetNothing, WaitComplete, Return, TypeOK,
              poolVars, workerVars
<1>5. ASSUME NEW c \in Clients, SpuriousWakeClient(c) PROVE NoWorkerSleepsForever'
  BY <1>5 DEF SpuriousWakeClient, TypeOK, poolVars, workerVars
<1>6. CASE Destroy
  BY <1>6 DEF Destroy, TypeOK, workerVars
<1>7. CASE OwnerStep
  BY <1>7 DEF OwnerStep, NotifyStop, NotifyWorkers, Join, TypeOK, poolVars, workerVars
<1>8. ASSUME NEW w \in Workers, WaitTask(w) \/ Exit(w) \/ StartTask(w) \/ SpuriousWakeWorker(w)
      PROVE  NoWorkerSleepsForever'
  BY <1>8 DEF WaitTask, Exit, StartTask, SpuriousWakeWorker, TypeOK, poolVars, clientVars
<1>9. ASSUME NEW w \in Workers, TakeTask(w) PROVE NoWorkerSleepsForever'
  BY <1>9 DEF TakeTask, TypeOK, clientVars
<1>10. ASSUME NEW w \in Workers, TaskReturns(w) \/ TaskThrows(w) PROVE NoWorkerSleepsForever'
  <2>1. /\ wpc' = [wpc EXCEPT ![w] = "loop"]
        /\ UNCHANGED <<tasks, stopped>>
        /\ \A c \in Clients : cpc[c] \in {"notify", "stop"} => cpc'[c] = cpc[c]
    BY <1>10 DEF TaskReturns, TaskThrows, Complete, NotifyClients, TypeOK
  <2> QED
    BY <2>1 DEF TypeOK
<1>11. ASSUME NEW w \in Workers, CopyThrows(w) PROVE NoWorkerSleepsForever'
  BY <1>11 DEF CopyThrows, TypeOK, clientVars
<1>12. CASE UNCHANGED vars
  BY <1>12 DEF vars, poolVars, workerVars, clientVars
<1> QED
  BY <1>1, <1>2, <1>3, <1>4, <1>5, <1>6, <1>7, <1>8, <1>9, <1>10, <1>11, <1>12
  DEF Next, ClientStep, ClientCall, WorkerStep, Spurious, Terminated

\* A worker sleeps beside a queued task, or in a stopped pool, only while some
\* client is about to notify.
THEOREM WorkersWake == Spec => []NoWorkerSleepsForever
<1>1. Init => NoWorkerSleepsForever
  BY DEF Init, NoWorkerSleepsForever
<1> QED
  BY <1>1, TypeInit, TypeStep, WorkerSleepStep, PTL DEF Spec

-----------------------------------------------------------------------------
(* nActive, and the clients that decide by it *)

LEMMA ActiveFinite == IsFiniteSet(Active) /\ Cardinality(Active) \in Nat
  BY PoolAssumption, FS_Subset, FS_CardinalityType DEF Active

\* A worker that becomes active adds one, a worker that stops being active
\* takes one away, and nothing else touches the count.
LEMMA CountStep ==
    ~CopyMayThrow /\ TypeOK /\ ActiveCount /\ [Next]_vars => ActiveCount'
<1> SUFFICES ASSUME ~CopyMayThrow, TypeOK, ActiveCount, [Next]_vars
             PROVE  ActiveCount'
  OBVIOUS
<1> USE DEF ActiveCount
<1>1. ASSUME nActive' = nActive, Active' = Active PROVE ActiveCount'
  BY <1>1
<1>2. ASSUME NEW c \in Clients, ClientStep(c) \/ ClientCall(c) \/ SpuriousWakeClient(c)
      PROVE  nActive' = nActive /\ Active' = Active
  BY <1>2 DEF ClientStep, ClientCall, SpuriousWakeClient, AddTask, NotifyTask, NotifyWorkers,
              CallGetResult, GetResult, GetException, GetValue, GetNothing, WaitComplete,
              Return, Active, TypeOK, poolVars, workerVars
<1>3. ASSUME Destroy \/ OwnerStep PROVE nActive' = nActive /\ Active' = Active
  BY <1>3 DEF Destroy, OwnerStep, NotifyStop, NotifyWorkers, Join, Active, TypeOK,
              poolVars, workerVars
<1>4. ASSUME NEW w \in Workers, WaitTask(w) \/ Exit(w) \/ StartTask(w) \/ SpuriousWakeWorker(w)
      PROVE  nActive' = nActive /\ Active' = Active
  BY <1>4 DEF WaitTask, Exit, StartTask, SpuriousWakeWorker, Active, TypeOK, poolVars
<1>5. ASSUME NEW w \in Workers, TakeTask(w) PROVE ActiveCount'
  <2>1. Active' = Active \union {w} /\ w \notin Active /\ nActive' = nActive + 1
    BY <1>5 DEF TakeTask, Active, TypeOK
  <2> QED
    BY <2>1, ActiveFinite, FS_AddElement
<1>6. ASSUME NEW w \in Workers, TaskReturns(w) \/ TaskThrows(w) PROVE ActiveCount'
  <2>1. Active' = Active \ {w} /\ w \in Active /\ nActive' = nActive - 1
    BY <1>6 DEF TaskReturns, TaskThrows, Complete, Active, TypeOK
  <2> QED
    BY <2>1, ActiveFinite, FS_RemoveElement
<1>7. ASSUME NEW w \in Workers, CopyThrows(w) PROVE FALSE
  BY <1>7 DEF CopyThrows
<1>8. ASSUME UNCHANGED vars PROVE nActive' = nActive /\ Active' = Active
  BY <1>8 DEF vars, poolVars, workerVars, Active
<1> QED
  BY <1>1, <1>2, <1>3, <1>4, <1>5, <1>6, <1>7, <1>8
  DEF Next, WorkerStep, Spurious, Terminated

\* No step lets a client fall asleep, or sleep on, beside an outcome or when
\* there is nothing left to wait for.
LEMMA ClientSleepStep ==
    ~CopyMayThrow /\ TypeOK /\ ActiveCount /\ NoClientSleepsForever /\ [Next]_vars
      => NoClientSleepsForever'
<1> SUFFICES ASSUME ~CopyMayThrow, TypeOK, ActiveCount, NoClientSleepsForever, [Next]_vars
             PROVE  NoClientSleepsForever'
  OBVIOUS
<1> USE DEF NoClientSleepsForever, NoneDone
<1>0. nActive \in Nat
  BY ActiveFinite DEF ActiveCount
<1>1. ASSUME NEW c \in Clients, AddTask(c) PROVE NoClientSleepsForever'
  <2>1. tasks' # <<>>
    BY <1>1 DEF AddTask, TypeOK
  <2> QED
    BY <1>1, <2>1 DEF AddTask, TypeOK
<1>2. ASSUME NEW c \in Clients, NotifyTask(c) \/ CallGetResult(c) \/ SpuriousWakeClient(c)
      PROVE  NoClientSleepsForever'
  BY <1>2 DEF NotifyTask, CallGetResult, SpuriousWakeClient, TypeOK, poolVars
<1>3. ASSUME NEW c \in Clients, GetResult(c) PROVE NoClientSleepsForever'
  <2>1. CASE GetException(c) \/ GetValue(c)
    BY <2>1 DEF GetException, GetValue, Return, TypeOK
  <2>2. CASE GetNothing(c)
    BY <2>2 DEF GetNothing, Return, TypeOK, poolVars
  <2>3. CASE WaitComplete(c)
    BY <1>0, <2>3 DEF WaitComplete, TypeOK, poolVars
  <2> QED
    BY <1>3, <2>1, <2>2, <2>3 DEF GetResult
<1>4. ASSUME Destroy \/ OwnerStep PROVE NoClientSleepsForever'
  BY <1>4, PoolAssumption DEF Destroy, OwnerStep, NotifyStop, Join, TypeOK, poolVars
<1>5. ASSUME NEW w \in Workers, WaitTask(w) \/ Exit(w) \/ StartTask(w) \/ SpuriousWakeWorker(w)
      PROVE  NoClientSleepsForever'
  BY <1>5 DEF WaitTask, Exit, StartTask, SpuriousWakeWorker, poolVars, clientVars
<1>6. ASSUME NEW w \in Workers, TakeTask(w) PROVE NoClientSleepsForever'
  BY <1>0, <1>6 DEF TakeTask, clientVars
<1>7. ASSUME NEW w \in Workers, TaskReturns(w) \/ TaskThrows(w) PROVE NoClientSleepsForever'
  <2>1. \A c \in Clients : cpc'[c] # "wait"
    BY <1>7 DEF TaskReturns, TaskThrows, Complete, NotifyClients, TypeOK
  <2> QED
    BY <2>1
<1>8. ASSUME NEW w \in Workers, CopyThrows(w) PROVE FALSE
  BY <1>8 DEF CopyThrows
<1>9. CASE UNCHANGED vars
  BY <1>9 DEF vars, poolVars, clientVars
<1> QED
  BY <1>1, <1>2, <1>3, <1>4, <1>5, <1>6, <1>7, <1>8, <1>9
  DEF Next, ClientStep, ClientCall, WorkerStep, Spurious, Terminated

LEMMA CountInit == Init => ActiveCount /\ NoClientSleepsForever
<1> SUFFICES ASSUME Init PROVE ActiveCount /\ NoClientSleepsForever
  OBVIOUS
<1>1. Active = {}
  BY DEF Init, Active
<1> QED
  BY <1>1, FS_EmptySet DEF Init, ActiveCount, NoClientSleepsForever

\* Unless copies throw, nActive counts the workers that hold a task.
THEOREM Counting == ASSUME ~CopyMayThrow PROVE Spec => []ActiveCount
  BY CountInit, CountStep, TypeInit, TypeStep, PTL DEF Spec

\* Unless copies throw, no client sleeps beside an outcome, and none sleeps
\* when no task is left.
THEOREM ClientsWake == ASSUME ~CopyMayThrow PROVE Spec => []NoClientSleepsForever
  BY CountInit, CountStep, ClientSleepStep, TypeInit, TypeStep, PTL DEF Spec

\* Unless copies throw, no thread sleeps for ever on either condition variable.
THEOREM EveryoneWakes == ASSUME ~CopyMayThrow PROVE Spec => []NoneSleepsForever
  BY WorkersWake, ClientsWake, PTL DEF NoneSleepsForever

-----------------------------------------------------------------------------
(* Every task in exactly one place *)

\* The five places of TasksConserved, written out.
Split(Q, H, R, E, D, n) ==
    /\ Q \union H \union R \union E \union D = 1..n
    /\ Q \intersect H = {} /\ Q \intersect R = {} /\ Q \intersect E = {}
    /\ Q \intersect D = {} /\ H \intersect R = {} /\ H \intersect E = {}
    /\ H \intersect D = {} /\ R \intersect E = {} /\ R \intersect D = {}
    /\ E \intersect D = {}

Distinct ==
    /\ NoRepeat(tasks) /\ NoRepeat(results) /\ NoRepeat(exceptions)
    /\ \A v, w \in Active : job[v] = job[w] => v = w

Conserved ==
    Distinct /\ Split(Elems(tasks), Held, Elems(results), Elems(exceptions), delivered, added)

LEMMA ConservedIsTasksConserved == Conserved <=> TasksConserved
<1> DEFINE pl == <<Elems(tasks), Held, Elems(results), Elems(exceptions), delivered>>
<1>1. pl[1] = Elems(tasks) /\ pl[2] = Held /\ pl[3] = Elems(results)
      /\ pl[4] = Elems(exceptions) /\ pl[5] = delivered
  OBVIOUS
<1>2. TasksConserved <=>
        /\ Distinct
        /\ UNION {pl[i] : i \in 1..5} = 1..added
        /\ \A i, j \in 1..5 : i # j => pl[i] \intersect pl[j] = {}
  BY DEF TasksConserved, Distinct
<1> HIDE DEF pl
<1>3. UNION {pl[i] : i \in 1..5}
        = pl[1] \union pl[2] \union pl[3] \union pl[4] \union pl[5]
  <2>1. \A i : i \in 1..5 <=> i = 1 \/ i = 2 \/ i = 3 \/ i = 4 \/ i = 5
    OBVIOUS
  <2> QED
    BY <2>1, Zenon
<1>4. (\A i, j \in 1..5 : i # j => pl[i] \intersect pl[j] = {}) <=>
        /\ pl[1] \intersect pl[2] = {} /\ pl[1] \intersect pl[3] = {}
        /\ pl[1] \intersect pl[4] = {} /\ pl[1] \intersect pl[5] = {}
        /\ pl[2] \intersect pl[3] = {} /\ pl[2] \intersect pl[4] = {}
        /\ pl[2] \intersect pl[5] = {} /\ pl[3] \intersect pl[4] = {}
        /\ pl[3] \intersect pl[5] = {} /\ pl[4] \intersect pl[5] = {}
  <2>1. \A i : i \in 1..5 <=> i = 1 \/ i = 2 \/ i = 3 \/ i = 4 \/ i = 5
    OBVIOUS
  <2> QED
    BY <2>1
<1> QED
  BY <1>1, <1>2, <1>3, <1>4 DEF Conserved, Split

\* What taking a task does to the workers' hands.
LEMMA HeldTake ==
    ASSUME TypeOK, NEW w \in Workers, TakeTask(w)
    PROVE  /\ Held' = Held \union {Head(tasks)}
           /\ Distinct /\ Head(tasks) \notin Held
                => \A u, v \in Active' : job'[u] = job'[v] => u = v
<1>1. /\ Active' = Active \union {w} /\ w \notin Active
      /\ job'[w] = Head(tasks) /\ \A v \in Active : job'[v] = job[v]
  BY DEF TakeTask, TypeOK, Active
<1> QED
  BY <1>1 DEF Held, Distinct

\* What finishing a task does to them.
LEMMA HeldComplete ==
    ASSUME TypeOK, Distinct, NEW w \in Workers, TaskReturns(w) \/ TaskThrows(w)
    PROVE  /\ Held' = Held \ {job[w]} /\ job[w] \in Held /\ job[w] \in Task
           /\ \A u, v \in Active' : job'[u] = job'[v] => u = v
<1>1. /\ Active' = Active \ {w} /\ w \in Active
      /\ \A v \in Active \ {w} : job'[v] = job[v]
  BY DEF TaskReturns, TaskThrows, Complete, TypeOK, Active
<1>2. job[w] \in Held /\ job[w] \in Task
  BY <1>1 DEF Held, TypeOK
<1> QED
  BY <1>1, <1>2 DEF Held, Distinct

\* Every step moves a task from one place to the next, or moves none.
LEMMA ConservedStep == TypeOK /\ Conserved /\ [Next]_vars => Conserved'
<1> SUFFICES ASSUME TypeOK, Conserved, [Next]_vars PROVE Conserved'
  OBVIOUS
<1> DEFINE Q == Elems(tasks)
           R == Elems(results)
           E == Elems(exceptions)
<1>0. tasks \in Seq(Task) /\ results \in Seq(Task) /\ exceptions \in Seq(Task)
  BY DEF TypeOK
<1>1. ASSUME UNCHANGED <<tasks, results, exceptions, delivered, added>>,
             Active' = Active, \A w \in Active : job'[w] = job[w]
      PROVE  Conserved'
  <2>1. Held' = Held
    BY <1>1 DEF Held
  <2>2. Distinct'
    BY <1>1 DEF Conserved, Distinct
  <2> QED
    BY <1>1, <2>1, <2>2 DEF Conserved
<1>2. ASSUME NEW c \in Clients, AddTask(c) PROVE Conserved'
  <2>1. added + 1 \in Task /\ added \in Nat
    BY <1>2, PoolAssumption DEF AddTask, TypeOK, Task
  <2>2. Q' = Q \union {added + 1} /\ Held' = Held /\ R' = R /\ E' = E
        /\ delivered' = delivered /\ added' = added + 1
    BY <1>0, <1>2, <2>1, AppendElems DEF AddTask, Held, Active, workerVars
  <2>3. 1..(added + 1) = (1..added) \union {added + 1} /\ added + 1 \notin 1..added
    BY <2>1
  <2>4. added + 1 \notin Q /\ added + 1 \notin Held /\ added + 1 \notin R
        /\ added + 1 \notin E /\ added + 1 \notin delivered
    BY <2>3 DEF Conserved, Split
  <2>5. Distinct'
    BY <1>0, <1>2, <2>1, <2>4, AppendElems
    DEF AddTask, Conserved, Distinct, Active, workerVars
  <2>6. Split(Q \union {added + 1}, Held, R, E, delivered, added + 1)
    BY <2>3, <2>4 DEF Conserved, Split
  <2> QED
    BY <2>2, <2>5, <2>6 DEF Conserved
<1>3. ASSUME NEW c \in Clients, GetException(c) PROVE Conserved'
  <2> DEFINE t == Head(exceptions)
  <2>1. /\ exceptions # <<>> /\ exceptions' = Tail(exceptions)
        /\ delivered' = delivered \union {t}
        /\ UNCHANGED <<tasks, results, wpc, job, added>>
    BY <1>3 DEF GetException, workerVars
  <2>2. t \in E /\ E' = E \ {t} /\ NoRepeat(exceptions')
    BY <1>0, <2>1, TailElems DEF Conserved, Distinct
  <2>3. Held' = Held /\ Q' = Q /\ R' = R /\ Active' = Active
    BY <2>1 DEF Held, Active
  <2>4. Distinct'
    BY <2>1, <2>2, <2>3 DEF Conserved, Distinct
  <2>5. Split(Q, Held, R, E \ {t}, delivered \union {t}, added)
    BY <2>2 DEF Conserved, Split
  <2> QED
    BY <2>1, <2>2, <2>3, <2>4, <2>5 DEF Conserved
<1>4. ASSUME NEW c \in Clients, GetValue(c) PROVE Conserved'
  <2> DEFINE t == Head(results)
  <2>1. /\ results # <<>> /\ results' = Tail(results)
        /\ delivered' = delivered \union {t}
        /\ UNCHANGED <<tasks, exceptions, wpc, job, added>>
    BY <1>4 DEF GetValue, workerVars
  <2>2. t \in R /\ R' = R \ {t} /\ NoRepeat(results')
    BY <1>0, <2>1, TailElems DEF Conserved, Distinct
  <2>3. Held' = Held /\ Q' = Q /\ E' = E /\ Active' = Active
    BY <2>1 DEF Held, Active
  <2>4. Distinct'
    BY <2>1, <2>2, <2>3 DEF Conserved, Distinct
  <2>5. Split(Q, Held, R \ {t}, E, delivered \union {t}, added)
    BY <2>2 DEF Conserved, Split
  <2> QED
    BY <2>1, <2>2, <2>3, <2>4, <2>5 DEF Conserved
<1>5. ASSUME NEW w \in Workers, TakeTask(w) PROVE Conserved'
  <2> DEFINE t == Head(tasks)
  <2>1. /\ tasks # <<>> /\ tasks' = Tail(tasks)
        /\ UNCHANGED <<results, exceptions, added, delivered>>
    BY <1>5 DEF TakeTask, clientVars
  <2>2. t \in Q /\ Q' = Q \ {t} /\ NoRepeat(tasks')
    BY <1>0, <2>1, TailElems DEF Conserved, Distinct
  <2>3. t \notin Held
    BY <2>2 DEF Conserved, Split
  <2>4. Held' = Held \union {t} /\ \A u, v \in Active' : job'[u] = job'[v] => u = v
    BY <1>5, <2>3, HeldTake DEF Conserved
  <2>5. Distinct'
    BY <2>1, <2>2, <2>4 DEF Conserved, Distinct
  <2>6. Split(Q \ {t}, Held \union {t}, R, E, delivered, added)
    BY <2>2 DEF Conserved, Split
  <2> QED
    BY <2>1, <2>2, <2>4, <2>5, <2>6 DEF Conserved
<1>6. ASSUME NEW w \in Workers, TaskReturns(w) PROVE Conserved'
  <2> DEFINE t == job[w]
  <2>1. /\ results' = Append(results, t)
        /\ UNCHANGED <<tasks, exceptions, added, delivered>>
    BY <1>6 DEF TaskReturns, Complete
  <2>2. /\ Held' = Held \ {t} /\ t \in Held /\ t \in Task
        /\ \A u, v \in Active' : job'[u] = job'[v] => u = v
    BY <1>6, HeldComplete DEF Conserved
  <2>3. t \notin R
    BY <2>2 DEF Conserved, Split
  <2>4. R' = R \union {t} /\ NoRepeat(results')
    BY <1>0, <2>1, <2>2, <2>3, AppendElems DEF Conserved, Distinct
  <2>5. Distinct'
    BY <2>1, <2>2, <2>4 DEF Conserved, Distinct
  <2>6. Split(Q, Held \ {t}, R \union {t}, E, delivered, added)
    BY <2>2 DEF Conserved, Split
  <2> QED
    BY <2>1, <2>2, <2>4, <2>5, <2>6 DEF Conserved
<1>7. ASSUME NEW w \in Workers, TaskThrows(w) PROVE Conserved'
  <2> DEFINE t == job[w]
  <2>1. /\ exceptions' = Append(exceptions, t)
        /\ UNCHANGED <<tasks, results, added, delivered>>
    BY <1>7 DEF TaskThrows, Complete
  <2>2. /\ Held' = Held \ {t} /\ t \in Held /\ t \in Task
        /\ \A u, v \in Active' : job'[u] = job'[v] => u = v
    BY <1>7, HeldComplete DEF Conserved
  <2>3. t \notin E
    BY <2>2 DEF Conserved, Split
  <2>4. E' = E \union {t} /\ NoRepeat(exceptions')
    BY <1>0, <2>1, <2>2, <2>3, AppendElems DEF Conserved, Distinct
  <2>5. Distinct'
    BY <2>1, <2>2, <2>4 DEF Conserved, Distinct
  <2>6. Split(Q, Held \ {t}, R, E \union {t}, delivered, added)
    BY <2>2 DEF Conserved, Split
  <2> QED
    BY <2>1, <2>2, <2>4, <2>5, <2>6 DEF Conserved
<1>8. ASSUME \/ \E c \in Clients : \/ NotifyTask(c) \/ CallGetResult(c) \/ GetNothing(c)
                                  \/ WaitComplete(c) \/ SpuriousWakeClient(c)
             \/ Destroy \/ OwnerStep \/ UNCHANGED vars
      PROVE  Conserved'
  BY <1>1, <1>8 DEF NotifyTask, NotifyWorkers, CallGetResult, GetNothing, WaitComplete, Return,
     SpuriousWakeClient, Destroy, OwnerStep, NotifyStop, Join, Active, TypeOK,
     vars, poolVars, workerVars, clientVars
<1>9. ASSUME NEW w \in Workers, \/ WaitTask(w) \/ Exit(w) \/ StartTask(w)
                               \/ SpuriousWakeWorker(w) \/ CopyThrows(w)
      PROVE  Conserved'
  BY <1>1, <1>9 DEF WaitTask, Exit, StartTask, SpuriousWakeWorker, CopyThrows, Active, TypeOK,
     poolVars, clientVars
<1> QED
  BY <1>2, <1>3, <1>4, <1>5, <1>6, <1>7, <1>8, <1>9
  DEF Next, ClientStep, ClientCall, GetResult, WorkerStep, Spurious, Terminated

LEMMA ConservedInit == Init => Conserved
<1> SUFFICES ASSUME Init PROVE Conserved
  OBVIOUS
<1>1. Active = {} /\ Held = {}
  BY DEF Init, Active, Held
<1>2. 1..added = {}
  BY DEF Init
<1> QED
  BY <1>1, <1>2, NoElems DEF Init, Conserved, Distinct, Split

\* No task is lost or duplicated, even when copies of results throw.
THEOREM Conservation == Spec => []TasksConserved
<1>1. Spec => []Conserved
  BY ConservedInit, ConservedStep, TypeInit, TypeStep, PTL DEF Spec
<1> QED
  BY <1>1, ConservedIsTasksConserved, PTL

-----------------------------------------------------------------------------
(* The pool implements the bag of tasks *)

\* getResult returns false only when nothing is left anywhere.
LEMMA NothingLeft ==
    ASSUME TypeOK, ActiveCount, Conserved, NoneDone, nActive = 0, tasks = <<>>
    PROVE  (1..added) \ delivered = {}
<1>1. Active = {}
  BY ActiveFinite, FS_EmptySet DEF ActiveCount
<1>2. Held = {}
  BY <1>1 DEF Held
<1>3. Elems(tasks) = {} /\ Elems(results) = {} /\ Elems(exceptions) = {}
  BY NoElems DEF NoneDone
<1> QED
  BY <1>2, <1>3 DEF Conserved, Split

\* An outcome that is handed out has not been handed out before.
LEMMA HeadPending ==
    ASSUME TypeOK, Conserved, NEW s \in {results, exceptions}, s # <<>>
    PROVE  /\ Head(s) \in (1..added) \ delivered
           /\ (1..added) \ (delivered \union {Head(s)})
                = ((1..added) \ delivered) \ {Head(s)}
<1>1. Head(s) \in Elems(s)
  BY TailElems DEF TypeOK
<1>2. Elems(s) \subseteq 1..added /\ Elems(s) \intersect delivered = {}
  BY DEF Conserved, Split
<1> QED
  BY <1>1, <1>2

LEMMA BagStep ==
    TypeOK /\ ActiveCount /\ Conserved /\ [Next]_vars => [Bag!Next]_(Bag!vars)
<1> SUFFICES ASSUME TypeOK, ActiveCount, Conserved, [Next]_vars
             PROVE  Bag!Next \/ UNCHANGED Bag!vars
  OBVIOUS
<1> DEFINE calling == {c \in Clients : cpc[c] \in {"get", "wait"}}
<1>1. ASSUME NEW c \in Clients, AddTask(c) PROVE Bag!Next
  <2>1. added \in Nat /\ added + 1 \in Task /\ added' = added + 1
        /\ delivered' = delivered /\ ~stopped /\ stopped' = stopped /\ ret' = ret
    BY <1>1, PoolAssumption DEF AddTask, TypeOK, Task
  <2>2. calling' = calling
    BY <1>1 DEF AddTask, TypeOK
  <2>3. delivered \subseteq 1..added
    BY DEF Conserved, Split
  <2>4. /\ added + 1 \notin ((1..added) \ delivered) \union delivered
        /\ (1..(added + 1)) \ delivered = ((1..added) \ delivered) \union {added + 1}
    BY <2>1, <2>3
  <2>5. Bag!Add
    BY <2>1, <2>2, <2>4 DEF Bag!Add
  <2> QED
    BY <2>5 DEF Bag!Next
<1>2. ASSUME NEW c \in Clients, CallGetResult(c) PROVE Bag!Next
  <2>1. ~stopped /\ stopped' = stopped /\ added' = added /\ delivered' = delivered
        /\ ret' = [ret EXCEPT ![c] = "none"]
    BY <1>2 DEF CallGetResult, poolVars
  <2>2. c \notin calling /\ calling' = calling \union {c}
    BY <1>2 DEF CallGetResult, TypeOK
  <2>3. Bag!Call(c)
    BY <2>1, <2>2 DEF Bag!Call
  <2> QED
    BY <2>3 DEF Bag!Next
<1>3. ASSUME NEW c \in Clients, Return(c, "result") \/ Return(c, "exception"), cpc[c] = "get",
             NEW s \in {results, exceptions}, s # <<>>, delivered' = delivered \union {Head(s)},
             UNCHANGED <<added, stopped>>
      PROVE  Bag!Next
  <2>1. c \in calling /\ calling' = calling \ {c}
    BY <1>3 DEF Return, TypeOK
  <2>2. \E r \in {"result", "exception"} : ret' = [ret EXCEPT ![c] = r]
    BY <1>3 DEF Return
  <2>3. /\ Head(s) \in (1..added) \ delivered
        /\ (1..added) \ (delivered \union {Head(s)})
             = ((1..added) \ delivered) \ {Head(s)}
    BY <1>3, HeadPending
  <2>4. Bag!HandOut(c)
    BY <1>3, <2>1, <2>2, <2>3 DEF Bag!HandOut
  <2> QED
    BY <2>4 DEF Bag!Next
<1>4. ASSUME NEW c \in Clients, GetException(c) PROVE Bag!Next
  BY <1>3, <1>4 DEF GetException
<1>5. ASSUME NEW c \in Clients, GetValue(c) PROVE Bag!Next
  BY <1>3, <1>5 DEF GetValue
<1>6. ASSUME NEW c \in Clients, GetNothing(c) PROVE Bag!Next
  <2>1. (1..added) \ delivered = {}
    BY <1>6, NothingLeft DEF GetNothing
  <2>2. c \in calling /\ calling' = calling \ {c}
    BY <1>6 DEF GetNothing, Return, TypeOK
  <2>3. Bag!Nothing(c)
    BY <1>6, <2>1, <2>2 DEF GetNothing, Return, poolVars, Bag!Nothing
  <2> QED
    BY <2>3 DEF Bag!Next
<1>7. ASSUME Destroy PROVE Bag!Next
  <2>1. calling = {} /\ calling' = {}
    BY <1>7 DEF Destroy, TypeOK
  <2>2. Bag!Close
    BY <1>7, <2>1 DEF Destroy, Bag!Close
  <2> QED
    BY <2>2 DEF Bag!Next
<1>8. ASSUME UNCHANGED <<added, delivered, ret, stopped>>, calling' = calling
      PROVE  UNCHANGED Bag!vars
  BY <1>8 DEF Bag!vars
<1>9. ASSUME \/ \E c \in Clients : NotifyTask(c) \/ WaitComplete(c) \/ SpuriousWakeClient(c)
             \/ OwnerStep \/ UNCHANGED vars
      PROVE  UNCHANGED Bag!vars
  <2>1. UNCHANGED <<added, delivered, ret, stopped>>
    BY <1>9 DEF NotifyTask, WaitComplete, SpuriousWakeClient, OwnerStep, NotifyStop, Join,
                vars, poolVars, clientVars
  <2>2. calling' = calling
    BY <1>9, PoolAssumption DEF NotifyTask, WaitComplete, SpuriousWakeClient, OwnerStep,
                NotifyStop, Join, vars, clientVars, TypeOK
  <2> QED
    BY <1>8, <2>1, <2>2
<1>10. ASSUME NEW w \in Workers, WorkerStep(w) \/ SpuriousWakeWorker(w)
       PROVE  UNCHANGED Bag!vars
  <2>1. UNCHANGED <<added, delivered, ret, stopped>>
    BY <1>10 DEF WorkerStep, WaitTask, Exit, TakeTask, StartTask, TaskReturns, TaskThrows,
                 CopyThrows, Complete, SpuriousWakeWorker, poolVars, clientVars
  <2>2. calling' = calling
    BY <1>10 DEF WorkerStep, WaitTask, Exit, TakeTask, StartTask, TaskReturns, TaskThrows,
                 CopyThrows, Complete, NotifyClients, SpuriousWakeWorker, clientVars, TypeOK
  <2> QED
    BY <1>8, <2>1, <2>2
<1> QED
  BY <1>1, <1>2, <1>4, <1>5, <1>6, <1>7, <1>9, <1>10
  DEF Next, ClientStep, ClientCall, GetResult, Spurious, Terminated

LEMMA BagInit == Init => Bag!Init
<1> SUFFICES ASSUME Init PROVE Bag!Init
  OBVIOUS
<1>1. (1..added) \ delivered = {} /\ {c \in Clients : cpc[c] \in {"get", "wait"}} = {}
  BY DEF Init
<1> QED
  BY <1>1 DEF Init, Bag!Init

\* Unless copies throw, the pool is a bag of tasks: an outcome is handed out
\* once, and "false" is answered only when no outcome is left to wait for.
THEOREM Refinement == ASSUME ~CopyMayThrow PROVE Spec => ImplementsBag
<1>1. Spec => [](TypeOK /\ ActiveCount /\ Conserved)
  BY TypeInit, TypeStep, CountInit, CountStep, ConservedInit, ConservedStep, PTL DEF Spec
<1> QED
  BY <1>1, BagInit, BagStep, PTL DEF Spec, ImplementsBag, Bag!Spec
=============================================================================
