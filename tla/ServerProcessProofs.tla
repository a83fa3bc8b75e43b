------------------------ MODULE ServerProcessProofs ------------------------
(***************************************************************************)
(* Proofs about ServerProcess, for any finite set of ids, any limit on the *)
(* number of tasks and any number of requests.                             *)
(***************************************************************************)
EXTENDS ServerProcess, FiniteSetTheorems, TLAPS

(* m_executorMap_mutex is held by the thread whose code is inside the      *)
(* life of a unique_lock.                                                  *)
LockHeld ==
  /\ mutex = "server" <=> server \in Locked
  /\ mutex = "main" <=> main = "destroy"

(* The HTTP thread is made by the main thread's first step.                *)
ServerStarted == main = "start" => server = "none"

(* A handler on its way to the end of the scheduler's method has no result *)
(* yet, and addTask erases what it has inserted.                           *)
NotYetServed ==
  /\ server \in {"parse", "check", "lock", "locked", "erase"} => ~ret
  /\ server \in {"check", "erase"} => op = "add"
  /\ server = "erase" => task \in Tasks

(* RepliesTrue, from the moment the method has its result.                 *)
ResultTrue ==
  server \in {"unlock", "reply"} /\ ret
      /\ main \notin {"destroy", "delete", "return"} =>
    /\ op \in {"add", "start", "get_state"} => task \in Tasks
    /\ op = "pause" => executor[task] = "off"
    /\ op = "remove" => task \notin Tasks

(* The inductive invariant.                                                *)
IInv ==
  /\ TypeOK
  /\ LockHeld
  /\ ServerStarted
  /\ NotYetServed
  /\ ResultTrue
  /\ MapBound

---------------------------------------------------------------------------
(* The number of tasks.                                                    *)

(* The pool is as finite as the set of ids.                                *)
LEMMA TasksFinite == IsFiniteSet(Tasks) /\ Cardinality(Tasks) \in Nat
<1>1. Tasks \subseteq Id
  BY DEF Tasks
<1> QED BY <1>1, IdAssumption, FS_Subset, FS_CardinalityType

(* Keeping or losing tasks keeps the bound.                                *)
LEMMA ShrinkKeepsBound ==
  ASSUME MapBound, Tasks' \subseteq Tasks
  PROVE  MapBound'
<1>1. Cardinality(Tasks') <= Cardinality(Tasks) /\ Cardinality(Tasks') \in Nat
  BY TasksFinite, FS_Subset, FS_CardinalityType
<1> QED BY <1>1, TasksFinite, MaxNumAssumption DEF MapBound

(* Adding a task below the limit keeps the bound.                          *)
LEMMA GrowthKeepsBound ==
  ASSUME NEW i \in Id, ~AtLimit, Tasks' = Tasks \union {i}
  PROVE  MapBound'
<1>1. IsFiniteSet(Tasks') /\ Cardinality(Tasks') \in {Cardinality(Tasks), Cardinality(Tasks) + 1}
  BY TasksFinite, FS_AddElement
<1> QED BY <1>1, TasksFinite, MaxNumAssumption DEF MapBound, AtLimit

(* What a change of one entry does to the set of tasks.                    *)
LEMMA BecomesTasks ==
  ASSUME PoolTypeOK, NEW i \in Id, NEW s \in ExecutorState, Becomes(i, s)
  PROVE  /\ PoolTypeOK'
         /\ executor'[i] = s
         /\ \A j \in Id : j # i => executor'[j] = executor[j]
         /\ Tasks' = IF s = "absent" THEN Tasks \ {i} ELSE Tasks \union {i}
  BY DEF PoolTypeOK, Becomes, Tasks, ExecutorState

---------------------------------------------------------------------------
(* Everything but the bound, one thread after the other.                   *)

Sound == TypeOK /\ LockHeld /\ ServerStarted /\ NotYetServed /\ ResultTrue

USE DEF Sound

(* The main thread's steps, apart from those that delete an executor.      *)
LEMMA MainKeepsSound ==
  ASSUME Sound, MainStep, \A i \in Id : ~MainDestroysOne(i)
  PROVE  Sound'
<1> USE DEF TypeOK, PoolTypeOK, LockHeld, ServerStarted, NotYetServed,
           ResultTrue, Tasks, Locked
<1>1. ASSUME MainStartsServer, UNCHANGED <<op, task, ret, code, received>>
      PROVE  Sound'
  BY <1>1 DEF MainStartsServer, MainGoes
<1>2. ASSUME MainCreatesDeleter, UNCHANGED <<op, task, ret, code, received>>
      PROVE  Sound'
  BY <1>2 DEF MainCreatesDeleter, MainGoes
<1>3. ASSUME MainLeavesLoop, UNCHANGED <<op, task, ret, code, received>>
      PROVE  Sound'
  BY <1>3 DEF MainLeavesLoop, MainGoes, poolVars
<1>4. ASSUME MainNotifies, UNCHANGED <<op, task, ret, code, received>>
      PROVE  Sound'
  <2>1. m_state' \in BOOLEAN
    BY <1>4 DEF MainNotifies
  <2> QED BY <1>4, <2>1 DEF MainNotifies, MainGoes
<1>5. ASSUME MainJoins, UNCHANGED <<op, task, ret, code, received>>
      PROVE  Sound'
  BY <1>5 DEF MainJoins, MainGoes, poolVars
<1>6. ASSUME MainLocks, UNCHANGED <<op, task, ret, code, received>>
      PROVE  Sound'
  BY <1>6 DEF MainLocks, MainGoes, Acquire
<1>7. ASSUME MainUnlocks, UNCHANGED <<op, task, ret, code, received>>
      PROVE  Sound'
  BY <1>7 DEF MainUnlocks, MainGoes, Release
<1>8. ASSUME MainDeletes, UNCHANGED <<op, task, ret, code, received>>
      PROVE  Sound'
  BY <1>8 DEF MainDeletes, MainGoes
<1>9. ASSUME MainReturns, UNCHANGED <<op, task, ret, code, received>>
      PROVE  Sound'
  BY <1>9 DEF MainReturns
<1>10. ASSUME MainKeyPressed, UNCHANGED <<op, task, ret, code, received>>
      PROVE  Sound'
  <2>1. m_state' \in BOOLEAN
    BY <1>10 DEF MainKeyPressed
  <2> QED BY <1>10, <2>1 DEF MainKeyPressed, MainGoes
<1> QED BY <1>1, <1>2, <1>3, <1>4, <1>5, <1>6, <1>7, <1>8, <1>9, <1>10 DEF MainStep, MainRuns

(* The deletion of one executor by ~TaskScheduler.                         *)
LEMMA DestroyKeepsSound ==
  ASSUME Sound, NEW i \in Id, MainDestroysOne(i),
         UNCHANGED <<op, task, ret, code, received>>
  PROVE  Sound'
<1> USE DEF TypeOK, PoolTypeOK, LockHeld, ServerStarted, NotYetServed,
           ResultTrue, Tasks, Locked
<1>1. CASE Becomes(i, "absent")
  BY <1>1 DEF MainDestroysOne, Becomes, ExecutorState
<1>2. CASE Crash
  BY <1>2 DEF MainDestroysOne, Crash
<1> QED BY <1>1, <1>2 DEF MainDestroysOne

(* The steps of the HTTP thread around the scheduler's methods.            *)
LEMMA HandlerKeepsSound ==
  ASSUME Sound, ServerStep, ~ServerCalls
  PROVE  Sound'
<1> USE DEF TypeOK, PoolTypeOK, LockHeld, ServerStarted, NotYetServed,
           ResultTrue, Tasks, Locked
<1>1. ASSUME ServerBinds
      PROVE  Sound'
  BY <1>1 DEF ServerBinds, ServerGoto, ServerFaults, Crash, poolVars
<1>2. ASSUME ServerCloses
      PROVE  Sound'
  BY <1>2 DEF ServerCloses, ServerGoto, ServerFaults, Crash
<1>3. ASSUME Parse
      PROVE  Sound'
  BY <1>3 DEF Parse, ServerGoto, ServerFaults, Crash, poolVars
<1>4. ASSUME CheckAdd
      PROVE  Sound'
  BY <1>4 DEF CheckAdd, ServerGoto, poolVars
<1>5. ASSUME ServerLocks
      PROVE  Sound'
  BY <1>5 DEF ServerLocks, ServerGoto, ServerFaults, Crash, Acquire
<1>6. ASSUME CallFaults
      PROVE  Sound'
  BY <1>6 DEF CallFaults, ServerFaults, Crash
<1>7. ASSUME ServerErases
      PROVE  Sound'
  BY <1>7 DEF ServerErases, ServerGoto, ServerFaults, Crash, AddErases, Becomes, ExecutorState
<1>8. ASSUME ServerUnlocks
      PROVE  Sound'
  BY <1>8 DEF ServerUnlocks, ServerGoto, Release
<1>9. ASSUME Reply
      PROVE  Sound'
  BY <1>9 DEF Reply, ServerGoto, poolVars
<1> QED BY <1>1, <1>2, <1>3, <1>4, <1>5, <1>6, <1>7, <1>8, <1>9 DEF ServerStep

(* The arrival of a request.                                               *)
LEMMA ReceiveKeepsSound ==
  ASSUME Sound, NEW r \in Route, NEW i \in Id, Receive(r, i)
  PROVE  Sound'
<1>1. ret' \in BOOLEAN /\ received' \in 0 .. MaxRequests
  BY MaxRequestsAssumption DEF Receive, TypeOK
<1>2. \/ op' = "help" /\ ret' = TRUE /\ server' = "reply"
      \/ op' # "help" /\ ret' = FALSE /\ server' = "parse"
  BY DEF Receive, ServerGoto
<1>3. op' \in Route /\ task' \in Id /\ UNCHANGED <<poolVars, main, code>>
  BY DEF Receive, ServerGoto
<1>4. server = "dispatch"
  BY DEF Receive
<1> QED BY <1>1, <1>2, <1>3, <1>4 DEF poolVars, TypeOK, PoolTypeOK, LockHeld,
              ServerStarted, NotYetServed, ResultTrue, Tasks, Locked

(* The delete thread and the workers.                                      *)
LEMMA OthersKeepSound ==
  ASSUME Sound, DeleterStep \/ \E i \in Id : WorkerStep(i)
  PROVE  Sound'
<1> USE DEF TypeOK, PoolTypeOK, LockHeld, ServerStarted, NotYetServed,
           ResultTrue, Tasks, Locked, Unserved
<1>1. CASE DeleterStep
  BY <1>1 DEF DeleterStep, DeleterWaits, DeleterWakesSpuriously,
              DeleterReturns, DeleterGoes
<1>2. ASSUME NEW i \in Id, WorkerEnds(i), Unserved
      PROVE  Sound'
  BY <1>2 DEF WorkerEnds, ExecutorState
<1>3. ASSUME NEW i \in Id, WorkerEnded(i), Unserved
      PROVE  Sound'
  BY <1>3 DEF WorkerEnded, Crash
<1> QED BY <1>1, <1>2, <1>3 DEF WorkerStep

(* The methods of the scheduler.                                           *)
LEMMA CallKeepsSound ==
  ASSUME Sound, ServerCalls
  PROVE  Sound'
<1> USE DEF TypeOK, PoolTypeOK, LockHeld, ServerStarted, NotYetServed,
           ResultTrue, Tasks, Locked
<1> USE DEF Becomes, poolVars, Unknown, ExecutorState
<1> DEFINE Frame == UNCHANGED <<main, op, task, code, received>>
<1> DEFINE Returns == ret' \in BOOLEAN /\ server' = "unlock"
<1>1. server = "locked" /\ Frame
  BY DEF ServerCalls, ServerGoto
<1>2. CASE op = "add" /\ AddDeletes(task) /\ server' = "erase" /\ UNCHANGED ret
  BY <1>1, <1>2 DEF AddDeletes
<1>3. CASE Returns /\ op = "add" /\ AddRefused(task, ret')
  BY <1>1, <1>3 DEF AddRefused
<1>4. CASE Returns /\ op = "add" /\ AddLaunched(task, ret')
  BY <1>1, <1>4 DEF AddLaunched
<1>5. CASE Returns /\ op = "pause" /\ PauseTask(task, ret')
  BY <1>1, <1>5 DEF PauseTask
<1>6. CASE Returns /\ op = "start" /\ StartTask(task, ret')
  BY <1>1, <1>6 DEF StartTask
<1>7. CASE Returns /\ op = "remove" /\ RemoveTask(task, ret')
  BY <1>1, <1>7 DEF RemoveTask
<1>8. CASE Returns /\ op = "get_state" /\ GetTaskState(task, ret')
  BY <1>1, <1>8 DEF GetTaskState
<1> HIDE DEF TypeOK, PoolTypeOK, LockHeld, ServerStarted, NotYetServed,
            ResultTrue, Tasks, Locked, Becomes, poolVars, Unknown, Sound
<1> QED BY <1>2, <1>3, <1>4, <1>5, <1>6, <1>7, <1>8 DEF ServerCalls, ServerGoto

(* One step of the process, without the bound.                             *)
LEMMA NextKeepsSound == Sound /\ [Next]_vars => Sound'
<1> SUFFICES ASSUME Sound, [Next]_vars
             PROVE  Sound'
  OBVIOUS
<1>1. CASE MainStep
  <2>1. CASE \E i \in Id : MainDestroysOne(i) /\ UNCHANGED <<op, task, ret, code, received>>
    BY <2>1, DestroyKeepsSound
  <2>2. CASE \A i \in Id : ~MainDestroysOne(i)
    BY <1>1, <2>2, MainKeepsSound
  <2>3. UNCHANGED <<op, task, ret, code, received>>
    BY <1>1 DEF MainStep, MainRuns
  <2> QED BY <2>1, <2>2, <2>3
<1>2. CASE ServerStep
  BY <1>2, HandlerKeepsSound, CallKeepsSound
<1>3. CASE \E r \in Route, i \in Id : Receive(r, i)
  BY <1>3, ReceiveKeepsSound
<1>4. CASE DeleterStep \/ \E i \in Id : WorkerStep(i)
  BY <1>4, OthersKeepSound
<1>5. CASE UNCHANGED vars
  BY <1>5 DEF vars, poolVars, TypeOK, PoolTypeOK, LockHeld, ServerStarted,
              NotYetServed, ResultTrue, Tasks
<1> QED BY <1>1, <1>2, <1>3, <1>4, <1>5 DEF Next, Ended

---------------------------------------------------------------------------
(* How one step changes the set of tasks.                                  *)

(* No step adds a task but addTask below the limit.                        *)
LEMMA TasksGrowBelowLimit ==
  ASSUME Sound, [Next]_vars
  PROVE  \/ Tasks' \subseteq Tasks
         \/ /\ server = "locked" /\ ~AtLimit
            /\ task \in Id /\ Tasks' = Tasks \union {task}
<1> USE DEF Becomes, poolVars, Unknown, Tasks
<1>0. task \in Id /\ executor \in [Id -> ExecutorState]
  BY DEF TypeOK, PoolTypeOK
<1>1. CASE ServerCalls
  <2> DEFINE Ok == ret'
  <2>0. server = "locked"
    BY <1>1 DEF ServerCalls
  <2>1. CASE AddDeletes(task) \/ AddLaunched(task, Ok)
    BY <1>0, <2>0, <2>1 DEF AddDeletes, AddLaunched
  <2>2. CASE AddRefused(task, Ok) \/ GetTaskState(task, Ok)
    BY <2>2 DEF AddRefused, GetTaskState
  <2>3. CASE PauseTask(task, Ok)
    BY <1>0, <2>3 DEF PauseTask
  <2>4. CASE StartTask(task, Ok)
    BY <1>0, <2>4 DEF StartTask
  <2>5. CASE RemoveTask(task, Ok)
    BY <1>0, <2>5 DEF RemoveTask
  <2> QED BY <1>1, <2>1, <2>2, <2>3, <2>4, <2>5 DEF ServerCalls
<1>2. CASE ServerErases
  BY <1>0, <1>2 DEF ServerErases, AddErases, ServerFaults, Crash
<1>3. ASSUME NEW i \in Id, MainDestroysOne(i)
      PROVE  Tasks' \subseteq Tasks
  BY <1>0, <1>3 DEF MainDestroysOne, Crash
<1>4. ASSUME NEW i \in Id, WorkerEnds(i)
      PROVE  Tasks' \subseteq Tasks
  BY <1>0, <1>4 DEF WorkerEnds
<1>5. CASE UNCHANGED executor
  BY <1>5
<1>6. \/ ServerCalls \/ ServerErases \/ UNCHANGED executor
      \/ \E i \in Id : MainDestroysOne(i) \/ WorkerEnds(i)
  <2>1. CASE MainStep
    BY <2>1 DEF MainStep, MainRuns, MainStartsServer, MainCreatesDeleter,
                MainLeavesLoop, MainKeyPressed, MainNotifies, MainJoins,
                MainLocks, MainUnlocks, MainDeletes, MainReturns, Acquire, Release
  <2>2. CASE ServerStep
    BY <2>2 DEF ServerStep, ServerBinds, ServerCloses, Parse, CheckAdd,
                ServerLocks, CallFaults, ServerUnlocks, Reply, ServerFaults,
                Crash, Acquire, Release
  <2>3. CASE \E r \in Route, i \in Id : Receive(r, i)
    BY <2>3 DEF Receive
  <2>4. CASE DeleterStep
    BY <2>4 DEF DeleterStep, DeleterWaits, DeleterWakesSpuriously,
                DeleterReturns, DeleterGoes
  <2>5. CASE \E i \in Id : WorkerStep(i)
    BY <2>5 DEF WorkerStep, WorkerEnded, Crash
  <2>6. CASE UNCHANGED vars
    BY <2>6 DEF vars
  <2> QED BY <2>1, <2>2, <2>3, <2>4, <2>5, <2>6 DEF Next, Ended
<1> QED BY <1>1, <1>2, <1>3, <1>4, <1>5, <1>6

---------------------------------------------------------------------------
(* The inductive invariant holds of every reachable state.                 *)
LEMMA Invariance == Spec => []IInv
<1>1. Init => IInv
  <2> SUFFICES ASSUME Init PROVE IInv
    OBVIOUS
  <2>1. Tasks = {}
    BY DEF Init, PoolInit, Tasks
  <2>2. MapBound
    BY <2>1, FS_EmptySet, MaxNumAssumption DEF MapBound
  <2>3. PoolTypeOK
    BY DEF Init, PoolInit, PoolTypeOK, ExecutorState
  <2>4. TypeOK
    <3>1. received \in 0 .. MaxRequests
      BY MaxRequestsAssumption DEF Init
    <3>2. ret \in BOOLEAN /\ code \in {-1, 0, 2}
      BY DEF Init
    <3> QED BY <2>3, <3>1, <3>2 DEF Init, TypeOK, Route
  <2>5. LockHeld /\ ServerStarted /\ NotYetServed /\ ResultTrue
    BY DEF Init, PoolInit, LockHeld, ServerStarted, NotYetServed, ResultTrue, Locked
  <2> QED BY <2>2, <2>4, <2>5 DEF IInv
<1>2. IInv /\ [Next]_vars => IInv'
  <2> SUFFICES ASSUME IInv, [Next]_vars PROVE IInv'
    OBVIOUS
  <2>1. Sound'
    BY NextKeepsSound DEF IInv
  <2>2. MapBound'
    BY TasksGrowBelowLimit, ShrinkKeepsBound, GrowthKeepsBound DEF IInv
  <2> QED BY <2>1, <2>2 DEF IInv
<1> QED BY <1>1, <1>2, PTL DEF Spec

(* Every variable of the server process keeps its type.                    *)
THEOREM ProcessTypeCorrect == Spec => []TypeOK
<1>1. IInv => TypeOK
  BY DEF IInv
<1> QED BY Invariance, <1>1, PTL

(* Whatever the order of adds, failed adds, removals and shutdown, the     *)
(* pool never exceeds control_executor_maxNum (scheduler.cpp:150).         *)
THEOREM PoolStaysBounded == Spec => []MapBound
<1>1. IInv => MapBound
  BY DEF IInv
<1> QED BY Invariance, <1>1, PTL

(* ~TaskScheduler deletes executors only while no handler is in a method   *)
(* of the scheduler (scheduler.cpp:33).                                    *)
THEOREM DestroyerIsAlone == Spec => []DestroyerAlone
<1>1. IInv => DestroyerAlone
  BY DEF IInv, LockHeld, DestroyerAlone
<1> QED BY Invariance, <1>1, PTL

(* A reply of success is true when it is sent.                             *)
THEOREM RepliesStayTrue == Spec => []RepliesTrue
<1>1. IInv => RepliesTrue
  BY DEF IInv, ResultTrue, RepliesTrue
<1> QED BY Invariance, <1>1, PTL

---------------------------------------------------------------------------
(* The refinement.                                                         *)

(* Steps that change neither the pool nor what is known of the request.    *)
Invisible == UNCHANGED <<Visible, Answer>>

(* What the two mapped variables are where no task is half added.          *)
LEMMA VisibleIsTasks == server # "erase" => Visible = Tasks
  BY DEF Visible

(* A method of the scheduler is one operation of the registry.             *)
LEMMA CallIsOperation ==
  ASSUME IInv, ServerCalls
  PROVE  Registry!Next \/ Invisible
<1> USE DEF Becomes, poolVars, Unknown
<1>1. /\ server = "locked" /\ UNCHANGED <<op, task>>
      /\ Visible = Tasks /\ Answer = <<>> /\ task \in Id
      /\ executor \in [Id -> ExecutorState]
  BY DEF ServerCalls, ServerGoto, Visible, Answer, IInv, TypeOK, PoolTypeOK
<1>2. CASE op = "add" /\ AddDeletes(task) /\ server' = "erase"
  <2>1. Tasks' = Tasks \union {task} /\ task \notin Tasks
    BY <1>1, <1>2 DEF AddDeletes, Tasks
  <2> QED BY <1>1, <1>2, <2>1 DEF Visible, Answer, Invisible
<1> DEFINE Returns == ret' \in BOOLEAN /\ server' = "unlock"
<1>3. Returns => Visible' = Tasks'
  BY DEF Visible
<1>4. Returns /\ op # "help" => Answer' = <<op, task, ret'>>
  BY <1>1 DEF Answer
<1>5. CASE Returns /\ op = "add" /\ AddRefused(task, ret')
  <2>1. Tasks' = Tasks /\ (ret' => task \in Tasks)
    BY <1>5 DEF AddRefused, Tasks
  <2>2. CASE ret' = TRUE
    BY <1>1, <1>3, <1>4, <1>5, <2>1, <2>2 DEF Registry!Next, Registry!Add
  <2>3. CASE ret' = FALSE
    BY <1>1, <1>3, <1>4, <1>5, <2>1, <2>3 DEF Registry!Next, Registry!Refuse
  <2> QED BY <1>5, <2>2, <2>3
<1>6. CASE Returns /\ op = "add" /\ AddLaunched(task, ret')
  <2>1. Tasks' = Tasks \union {task} /\ ret' = TRUE
    BY <1>1, <1>6 DEF AddLaunched, Tasks
  <2>2. Tasks \union {task} \in Pool
    <3>1. ~AtLimit /\ task \notin Tasks /\ Tasks \subseteq Id
      BY <1>6 DEF AddLaunched, Tasks
    <3>2. Cardinality(Tasks \union {task}) = Cardinality(Tasks) + 1
      BY <3>1, TasksFinite, FS_AddElement
    <3> QED BY <1>1, <3>1, <3>2, TasksFinite, MaxNumAssumption DEF AtLimit, Pool
  <2> QED BY <1>1, <1>3, <1>4, <1>6, <2>1, <2>2 DEF Registry!Next, Registry!Add
<1>7. ASSUME Returns, op \in {"pause", "start", "get_state"},
             Tasks' = Tasks, ret' => task \in Tasks
      PROVE  Registry!Next
  <2>1. CASE ret' = TRUE
    BY <1>1, <1>3, <1>4, <1>7, <2>1 DEF Registry!Next, Registry!Operate
  <2>2. CASE ret' = FALSE
    BY <1>1, <1>3, <1>4, <1>7, <2>2 DEF Registry!Next, Registry!Refuse
  <2> QED BY <1>7, <2>1, <2>2
<1>8. CASE Returns /\ op = "pause" /\ PauseTask(task, ret')
  <2>1. Tasks' = Tasks /\ (ret' => task \in Tasks)
    BY <1>1, <1>8 DEF PauseTask, Tasks
  <2> QED BY <1>7, <1>8, <2>1
<1>9. CASE Returns /\ op = "start" /\ StartTask(task, ret')
  <2>1. Tasks' = Tasks /\ (ret' => task \in Tasks)
    BY <1>1, <1>9 DEF StartTask, Tasks
  <2> QED BY <1>7, <1>9, <2>1
<1>10. CASE Returns /\ op = "get_state" /\ GetTaskState(task, ret')
  <2>1. Tasks' = Tasks /\ (ret' => task \in Tasks)
    BY <1>1, <1>10 DEF GetTaskState, Tasks
  <2> QED BY <1>7, <1>10, <2>1
<1>11. CASE Returns /\ op = "remove" /\ RemoveTask(task, ret')
  <2>1. CASE ret' = TRUE
    <3>1. task \in Tasks /\ Tasks' = Tasks \ {task}
      BY <1>1, <1>11, <2>1 DEF RemoveTask, Tasks
    <3> QED BY <1>1, <1>3, <1>4, <1>11, <2>1, <3>1
            DEF Registry!Next, Registry!Remove
  <2>2. CASE ret' = FALSE
    <3>1. Tasks' = Tasks
      BY <1>11, <2>2 DEF RemoveTask, Tasks
    <3> QED BY <1>1, <1>3, <1>4, <1>11, <2>2, <3>1
            DEF Registry!Next, Registry!Refuse
  <2> QED BY <1>11, <2>1, <2>2
<1> QED BY <1>2, <1>5, <1>6, <1>8, <1>9, <1>10, <1>11, Zenon
        DEF ServerCalls, ServerGoto

(* The other steps of the HTTP thread.                                     *)
LEMMA HandlerIsOperation ==
  ASSUME IInv, ServerStep, ~ServerCalls
  PROVE  Registry!Next \/ Invisible
<1> USE DEF ServerGoto, ServerFaults, Crash, poolVars
<1>1. CASE ServerErases
  <2>1. CASE ServerFaults /\ UNCHANGED ret
    BY <1>1, <2>1 DEF ServerErases, Visible, Answer, Tasks, Invisible
  <2>2. CASE AddErases(task, ret') /\ server' = "unlock"
    <3>1. /\ server = "erase" /\ op = "add" /\ task \in Id /\ op' = op
          /\ task' = task /\ ret' = FALSE
      BY <1>1, <2>2 DEF ServerErases, AddErases, IInv, NotYetServed, TypeOK
    <3>2. Tasks' = Tasks \ {task}
      BY <2>2, <3>1 DEF AddErases, Becomes, Tasks, IInv, TypeOK, PoolTypeOK
    <3>3. Visible' = Visible /\ Answer = <<>> /\ Answer' = <<"add", task, FALSE>>
      BY <2>2, <3>1, <3>2 DEF Visible, Answer
    <3> QED BY <3>1, <3>3 DEF Registry!Next, Registry!Refuse
  <2> QED BY <1>1, <2>1, <2>2 DEF ServerErases
<1>2. CASE CheckAdd
  <2>1. CASE server' = "reply"
    <3>1. server = "check" /\ op = "add" /\ ret = FALSE /\ task \in Id
      BY <1>2 DEF CheckAdd, IInv, NotYetServed, TypeOK
    <3>2. Visible' = Visible /\ Answer = <<>> /\ Answer' = <<"add", task, FALSE>>
      BY <1>2, <2>1, <3>1 DEF CheckAdd, Visible, Answer, Tasks
    <3> QED BY <3>1, <3>2 DEF Registry!Next, Registry!Refuse
  <2>2. CASE server' = "lock"
    BY <1>2, <2>2 DEF CheckAdd, Visible, Answer, Tasks, Invisible
  <2> QED BY <1>2, <2>1, <2>2 DEF CheckAdd
<1>3. CASE Reply
  BY <1>3 DEF Reply, Visible, Answer, Tasks, Registry!Next, Registry!Reply
<1>4. CASE ServerBinds \/ ServerCloses \/ Parse
  BY <1>4 DEF ServerBinds, ServerCloses, Parse, Visible, Answer, Tasks, Invisible
<1>5. CASE ServerLocks \/ CallFaults \/ ServerUnlocks
  BY <1>5 DEF ServerLocks, CallFaults, ServerUnlocks, Acquire, Release,
              Visible, Answer, Tasks, Invisible
<1> QED BY <1>1, <1>2, <1>3, <1>4, <1>5 DEF ServerStep

(* The main thread takes tasks away and does nothing else to the registry. *)
LEMMA MainIsShutdown ==
  ASSUME IInv, MainStep
  PROVE  Registry!Next \/ Invisible
<1> USE DEF Visible, Answer, Tasks, Invisible
<1>1. ASSUME NEW i \in Id, MainDestroysOne(i),
             UNCHANGED <<op, task, ret, code, received>>
      PROVE  Registry!Next \/ Invisible
  <2>1. CASE Crash
    BY <1>1, <2>1 DEF MainDestroysOne, Crash
  <2>2. CASE Becomes(i, "absent")
    <3>1. server # "erase" /\ executor \in [Id -> ExecutorState]
      BY <1>1 DEF MainDestroysOne, IInv, LockHeld, Locked, TypeOK, PoolTypeOK
    <3>2. Tasks' = Tasks \ {i}
      BY <2>2, <3>1 DEF Becomes
    <3> HIDE DEF Tasks
    <3>3. Visible' = Visible \ {i} /\ UNCHANGED Answer
      BY <1>1, <3>1, <3>2 DEF MainDestroysOne
    <3> QED BY <3>3 DEF Registry!Next, Registry!Shutdown
  <2> QED BY <1>1, <2>1, <2>2 DEF MainDestroysOne
<1>2. CASE MainStartsServer
  BY <1>2 DEF MainStep, MainRuns, MainStartsServer, IInv, ServerStarted, MainGoes
<1>3. CASE /\ ~MainStartsServer
           /\ \A i \in Id : ~MainDestroysOne(i)
  BY <1>3 DEF MainStep, MainRuns, MainCreatesDeleter, MainLeavesLoop,
              MainKeyPressed, MainNotifies, MainJoins, MainLocks, MainUnlocks,
              MainDeletes, MainReturns, Acquire, Release, poolVars
<1> QED BY <1>1, <1>2, <1>3 DEF MainStep, MainRuns

(* Each step of the process is a step of the registry, or none.            *)
LEMMA NextRegistry == IInv /\ [Next]_vars => [Registry!Next]_(Registry!vars)
<1> SUFFICES ASSUME IInv, [Next]_vars
             PROVE  Registry!Next \/ Invisible
  BY DEF Registry!vars, Invisible
<1>1. CASE MainStep \/ ServerStep
  BY <1>1, MainIsShutdown, CallIsOperation, HandlerIsOperation
<1>2. ASSUME NEW r \in Route, NEW i \in Id, Receive(r, i)
      PROVE  Invisible
  BY <1>2 DEF Receive, ServerGoto, poolVars, Visible, Answer, Tasks, Invisible
<1>3. CASE DeleterStep
  BY <1>3 DEF DeleterStep, DeleterWaits, DeleterWakesSpuriously, Unserved,
              DeleterReturns, DeleterGoes, Visible, Answer, Tasks, Invisible
<1>4. ASSUME NEW i \in Id, WorkerStep(i)
      PROVE  Invisible
  <2>1. Tasks' = Tasks
    BY <1>4 DEF WorkerStep, WorkerEnds, WorkerEnded, Crash, Tasks, IInv,
                TypeOK, PoolTypeOK
  <2> QED BY <1>4, <2>1 DEF WorkerStep, Unserved, Visible, Answer, Invisible
<1>5. CASE UNCHANGED vars
  BY <1>5 DEF vars, poolVars, Visible, Answer, Tasks, Invisible
<1> QED BY <1>1, <1>2, <1>3, <1>4, <1>5 DEF Next, Ended

(* The server is a TaskRegistry for its clients: each request takes effect *)
(* at once and is answered truly, and a task that failed to start was      *)
(* never there.                                                            *)
THEOREM ImplementsRegistry == Spec => RegistrySpec
<1>1. Init => Registry!Init
  BY DEF Init, PoolInit, Registry!Init, Visible, Answer, Tasks
<1>2. IInv /\ [Next]_vars => [Registry!Next]_(Registry!vars)
  BY NextRegistry
<1> QED BY Invariance, <1>1, <1>2, PTL DEF Spec, RegistrySpec, Registry!Spec


---------------------------------------------------------------------------
(* Who can go on.  The guards of the fair actions, disjunct by disjunct;   *)
(* where two of them leave nothing out, as for a task that is in the pool  *)
(* or is not, they are one.  Every action assigns all the variables and    *)
(* changes one, so a thread is enabled when its guard holds.               *)
MainReady ==
  \/ main \in {"start", "loop", "stop", "destroy", "delete", "return"}
  \/ main = "run" /\ ~m_state
  \/ main = "join" /\ deleter = "done"
  \/ main = "lock" /\ mutex = "none"

CallReady ==
  \/ op = "add" /\ (Destructed => task \notin Tasks)
  \/ op \in {"pause", "start", "remove", "get_state"}

ServerReady ==
  \/ server \in {"bind", "closing", "parse", "check", "erase", "unlock", "reply"}
  \/ server = "lock" /\ mutex = "none"
  \/ server = "locked" /\ CallReady

DeleterReady == deleter \in {"started", "woken"}

(* What tlapm has no rule for: an action whose guard holds is ENABLED.     *)
GuardsEnable ==
  process = "up" =>
    /\ MainReady => ENABLED <<MainMoves>>_vars
    /\ ServerReady => ENABLED <<ServerMoves>>_vars
    /\ DeleterReady => ENABLED <<DeleterMoves>>_vars

(* "help" needs no method of the scheduler.                                *)
HandlerHasMethod == server \in {"parse", "check", "lock", "locked"} => op # "help"

(* The destructor leaves no task, and no handler can add one.              *)
Emptied == Destructed => Tasks = {}

(* A request for help goes from its arrival to its reply.                  *)
LEMMA HandlerHasMethodInvariance == Spec => []HandlerHasMethod
<1>1. Init => HandlerHasMethod
  BY DEF Init, HandlerHasMethod
<1>2. ASSUME HandlerHasMethod, [Next]_vars PROVE HandlerHasMethod'
  <2> USE DEF HandlerHasMethod
  <2>1. CASE MainStep
    BY <1>2, <2>1 DEF MainStep, MainRuns, MainStartsServer, MainCreatesDeleter, MainLeavesLoop,
                MainKeyPressed, MainNotifies, MainJoins, MainLocks, MainDestroysOne,
                MainUnlocks, MainDeletes, MainReturns
  <2>2. CASE ServerStep
    BY <1>2, <2>2 DEF ServerStep, ServerBinds, ServerCloses, Parse, CheckAdd, ServerLocks,
                ServerCalls, CallFaults, ServerErases, ServerUnlocks, Reply, ServerGoto,
                ServerFaults
  <2>3. ASSUME NEW r \in Route, NEW i \in Id, Receive(r, i) PROVE HandlerHasMethod'
    BY <1>2, <2>3 DEF Receive, ServerGoto
  <2>4. CASE DeleterStep \/ \E i \in Id : WorkerStep(i)
    BY <1>2, <2>4 DEF DeleterStep, WorkerStep, Unserved
  <2>5. CASE UNCHANGED vars
    BY <1>2, <2>5 DEF vars
  <2> QED BY <1>2, <2>1, <2>2, <2>3, <2>4, <2>5 DEF Next, Ended
<1> QED BY <1>1, <1>2, PTL DEF Spec

(* Only addTask makes the set of tasks grow, and not after the destructor. *)
LEMMA EmptiedInvariance == Spec => []Emptied
<1>1. Init => Emptied
  BY DEF Init, Emptied, Destructed
<1>2. ASSUME IInv, Emptied, [Next]_vars PROVE Emptied'
  <2>1. CASE MainStep
    <3>1. Destructed' => main \in {"delete", "return"} \/ (main = "destroy" /\ MainUnlocks)
      BY <2>1 DEF MainStep, MainRuns, MainStartsServer, MainCreatesDeleter, MainLeavesLoop,
                  MainKeyPressed, MainNotifies, MainJoins, MainLocks, MainDestroysOne,
                  MainUnlocks, MainDeletes, MainReturns, MainGoes, Destructed
    <3>2. main \in {"delete", "return"} => UNCHANGED executor
      BY <2>1 DEF MainStep, MainRuns, MainStartsServer, MainCreatesDeleter, MainLeavesLoop,
                  MainKeyPressed, MainNotifies, MainJoins, MainLocks, MainDestroysOne,
                  MainUnlocks, MainDeletes, MainReturns, MainGoes
    <3>3. MainUnlocks => Tasks' = {}
      BY DEF MainUnlocks, Release, Tasks
    <3> QED BY <1>2, <3>1, <3>2, <3>3 DEF Emptied, Destructed, Tasks
  <2>2. CASE ServerCalls
    <3>1. UNCHANGED main /\ task \in Id
      BY <1>2, <2>2 DEF ServerCalls, ServerGoto, IInv, TypeOK
    <3>2. Destructed => UNCHANGED executor
      BY <1>2, <2>2, <3>1 DEF Emptied, ServerCalls, PauseTask, StartTask, RemoveTask,
                              GetTaskState, Unknown, poolVars
    <3> QED BY <1>2, <3>1, <3>2 DEF Emptied, Destructed, Tasks
  <2>3. CASE ServerErases
    <3>1. UNCHANGED main /\ task \in Tasks
      BY <1>2, <2>3 DEF ServerErases, ServerGoto, ServerFaults, IInv, NotYetServed
    <3> QED BY <1>2, <3>1 DEF Emptied, Destructed
  <2>4. ASSUME NEW i \in Id, WorkerEnds(i), UNCHANGED main PROVE Emptied'
    BY <1>2, <2>4 DEF Emptied, Destructed, WorkerEnds, Tasks
  <2>5. CASE UNCHANGED <<main, executor>>
    BY <1>2, <2>5 DEF Emptied, Destructed, Tasks
  <2>6. \/ MainStep \/ ServerCalls \/ ServerErases
        \/ \E i \in Id : WorkerEnds(i) /\ UNCHANGED main
        \/ UNCHANGED <<main, executor>>
    <3>1. CASE ServerStep
      BY <3>1 DEF ServerStep, ServerBinds, ServerCloses, Parse, CheckAdd, ServerLocks,
                  CallFaults, ServerUnlocks, Reply, ServerGoto, ServerFaults, Crash,
                  Acquire, Release, poolVars
    <3>2. CASE \E r \in Route, i \in Id : Receive(r, i)
      BY <3>2 DEF Receive, ServerGoto, poolVars
    <3>3. CASE DeleterStep
      BY <3>3 DEF DeleterStep, DeleterWaits, DeleterWakesSpuriously, DeleterReturns,
                  DeleterGoes, Unserved
    <3>4. CASE \E i \in Id : WorkerStep(i)
      BY <3>4 DEF WorkerStep, WorkerEnded, Crash, Unserved
    <3>5. CASE UNCHANGED vars
      BY <3>5 DEF vars, poolVars
    <3> QED BY <1>2, <3>1, <3>2, <3>3, <3>4, <3>5 DEF Next, Ended
  <2> QED BY <2>1, <2>2, <2>3, <2>4, <2>5, <2>6
<1> QED BY <1>1, <1>2, Invariance, PTL DEF Spec

(* Every thread that nothing of MainHeldUp, ServerHeldUp and DeleterHeldUp *)
(* holds up finds a guard of its true: whoever is in a method of the       *)
(* scheduler has the mutex and gives it back, and no method is without an  *)
(* outcome for the task it is asked for.                                   *)
SomeGuardHolds ==
  /\ MainHeldUp \/ MainReady
  /\ ServerHeldUp \/ ServerReady
  /\ DeleterHeldUp \/ DeleterReady

THEOREM GuardsHold == Spec => []SomeGuardHolds
<1>1. ASSUME IInv, HandlerHasMethod, Emptied PROVE SomeGuardHolds
  <2>1. MainHeldUp \/ MainReady
    BY <1>1 DEF IInv, TypeOK, PoolTypeOK, LockHeld, MainHeldUp, MainReady, Tasks
  <2>2. ServerHeldUp \/ ServerReady
    <3>1. server = "lock" => main = "destroy" \/ mutex = "none"
      BY <1>1 DEF IInv, TypeOK, PoolTypeOK, LockHeld, Locked
    <3>2. server = "locked" => CallReady
      BY <1>1 DEF IInv, TypeOK, Route, HandlerHasMethod, Emptied, CallReady
    <3> QED BY <1>1, <3>1, <3>2 DEF IInv, TypeOK, Locked, ServerHeldUp, ServerReady
  <2>3. DeleterHeldUp \/ DeleterReady
    BY <1>1 DEF IInv, TypeOK, PoolTypeOK, DeleterHeldUp, DeleterReady
  <2> QED BY <2>1, <2>2, <2>3 DEF SomeGuardHolds
<1> QED BY <1>1, Invariance, HandlerHasMethodInvariance, EmptiedInvariance, PTL

(* No thread of the process waits for anything but what NobodyStuck names. *)
THEOREM NobodyIsStuck == Spec /\ []GuardsEnable => []NobodyStuck
<1>1. SomeGuardHolds /\ GuardsEnable => NobodyStuck
  BY DEF SomeGuardHolds, GuardsEnable, NobodyStuck
<1> QED BY <1>1, GuardsHold, PTL

---------------------------------------------------------------------------
(* Liveness.  What weak fairness needs to know of a thread, that it is     *)
(* ENABLED, is NobodyStuck; that the destructor's loop ends is             *)
(* DestructorEnds (DestructorReachesEnd): the theorems start from these.   *)

(* The server before its first request.                                    *)
Early == {"none", "bind", "closing", "ended"}

(* There is no task before the first request, so nothing that could end    *)
(* the process; a thread that has ended has said so in m_state.            *)
QuietBegin ==
  /\ server \in Early => Tasks = {} /\ ending = {}
  /\ server = "ended" => ~m_state
  /\ server \in Early /\ main \in {"start", "loop", "run"} => process = "up"
  /\ scheduler = "deleted" => main = "return"

(* The main thread never goes back to loop().                              *)
LInv == IInv /\ QuietBegin

(* A step of the main thread, and what it leaves alone.                    *)
LEMMA MainKeepsQuiet ==
  ASSUME LInv, MainStep
  PROVE  QuietBegin'
<1> USE DEF LInv, QuietBegin, Early
<1>0. /\ UNCHANGED <<op, task, ret, code, received>>
      /\ executor \in [Id -> ExecutorState] /\ (main = "start" => server = "none")
  BY DEF MainStep, MainRuns, IInv, TypeOK, PoolTypeOK, ServerStarted
<1>1. CASE MainStartsServer
  BY <1>0, <1>1 DEF MainStartsServer, MainGoes, Tasks
<1>2. CASE MainCreatesDeleter
  BY <1>2 DEF MainCreatesDeleter, MainGoes, Tasks
<1>3. CASE MainLeavesLoop \/ MainJoins
  BY <1>3 DEF MainLeavesLoop, MainJoins, MainGoes, Tasks, poolVars
<1>4. CASE MainNotifies
  BY <1>4 DEF MainNotifies, MainGoes, Tasks
<1>5. CASE MainLocks
  BY <1>5 DEF MainLocks, MainGoes, Acquire, Tasks
<1>6. ASSUME NEW i \in Id, MainDestroysOne(i) PROVE QuietBegin'
  BY <1>0, <1>6 DEF MainDestroysOne, Becomes, Crash, Tasks
<1>7. CASE MainUnlocks
  BY <1>7 DEF MainUnlocks, MainGoes, Release, Tasks
<1>8. CASE MainDeletes
  BY <1>8 DEF MainDeletes, MainGoes, Tasks
<1>9. CASE MainReturns
  BY <1>9 DEF MainReturns, Tasks
<1>10. CASE MainKeyPressed
  BY <1>10 DEF MainKeyPressed, MainGoes, Tasks
<1> QED BY <1>1, <1>2, <1>3, <1>4, <1>5, <1>6, <1>7, <1>8, <1>9, <1>10
        DEF MainStep, MainRuns

(* A step of the HTTP thread.                                              *)
LEMMA ServerKeepsQuiet ==
  ASSUME LInv, process = "up", ServerStep \/ \E r \in Route, i \in Id : Receive(r, i)
  PROVE  QuietBegin'
<1> USE DEF LInv, QuietBegin, Early, ServerGoto, ServerFaults, Crash, poolVars, Tasks
<1>1. CASE ServerBinds
  BY <1>1 DEF ServerBinds, Destructed
<1>2. CASE ServerCloses
  BY <1>2 DEF ServerCloses
<1>3. CASE Parse \/ CheckAdd \/ CallFaults \/ Reply
  BY <1>3 DEF Parse, CheckAdd, CallFaults, Reply, Locked
<1>4. CASE ServerLocks
  BY <1>4 DEF ServerLocks, Acquire
<1>5. CASE ServerCalls
  <2>1. server' \in {"unlock", "erase"} /\ UNCHANGED <<main, scheduler>>
    BY <1>5 DEF ServerCalls, AddRefused, AddLaunched, AddDeletes, PauseTask, StartTask,
                RemoveTask, GetTaskState, Unknown, Becomes
  <2> QED BY <2>1
<1>6. CASE ServerErases \/ ServerUnlocks
  BY <1>6 DEF ServerErases, ServerUnlocks, AddErases, Becomes, Release
<1>7. CASE \E r \in Route, i \in Id : Receive(r, i)
  BY <1>7 DEF Receive
<1> QED BY <1>1, <1>2, <1>3, <1>4, <1>5, <1>6, <1>7 DEF ServerStep

(* The other threads.                                                      *)
LEMMA OthersKeepQuiet ==
  ASSUME LInv, DeleterStep \/ \E i \in Id : WorkerStep(i)
  PROVE  QuietBegin'
<1> USE DEF LInv, QuietBegin, Early, Unserved, Tasks
<1>1. CASE DeleterStep
  BY <1>1 DEF DeleterStep, DeleterWaits, DeleterWakesSpuriously, DeleterReturns,
              DeleterGoes
<1>2. ASSUME NEW i \in Id, WorkerStep(i) PROVE QuietBegin'
  BY <1>2 DEF WorkerStep, WorkerEnds, WorkerEnded, Crash
<1> QED BY <1>1, <1>2

LEMMA QuietInvariance == Spec => []LInv
<1>1. Init => QuietBegin
  BY DEF Init, PoolInit, QuietBegin, Early, Tasks
<1>2. LInv /\ [Next]_vars => QuietBegin'
  <2>1. LInv /\ UNCHANGED vars => QuietBegin'
    BY DEF vars, poolVars, LInv, QuietBegin, Tasks
  <2> QED BY <2>1, MainKeepsQuiet, ServerKeepsQuiet, OthersKeepQuiet DEF Next, Ended
<1>3. Spec => []QuietBegin
  <2>1. IInv /\ QuietBegin /\ [Next]_vars => QuietBegin'
    BY <1>2 DEF LInv
  <2> QED BY <1>1, <2>1, Invariance, PTL DEF Spec
<1> QED BY <1>3, Invariance, PTL DEF LInv

(* How the main thread goes on; no other thread moves it.                  *)
MainCourse ==
  /\ main = "start" => server' = "bind"
  /\ main = "loop" => main' = "run"
  /\ main = "run" => main' = "stop"
  /\ main = "stop" => main' = "join" /\ deleter' = IF deleter = "waiting" THEN "woken" ELSE deleter
  /\ main = "join" => main' = "lock"
  /\ main = "lock" => main' = "destroy"
  /\ main = "destroy" => main' \in {"destroy", "delete"}
  /\ main = "delete" => main' = "return"
  /\ main = "return" => main' = "return" /\ process' # "up"
  /\ main # "start" => server' = server
  /\ main # "stop" => deleter' = deleter \/ main \in {"start", "loop"}

LEMMA MainAdvances == ASSUME MainStep PROVE MainCourse
<1> USE DEF MainCourse, MainGoes, poolVars
<1>1. CASE MainStartsServer \/ MainCreatesDeleter \/ MainKeyPressed \/ MainLeavesLoop
  BY <1>1 DEF MainStartsServer, MainCreatesDeleter, MainKeyPressed, MainLeavesLoop
<1>2. CASE MainNotifies \/ MainJoins
  BY <1>2 DEF MainNotifies, MainJoins
<1>3. CASE MainLocks \/ MainUnlocks
  BY <1>3 DEF MainLocks, MainUnlocks, Acquire, Release
<1>4. ASSUME NEW i \in Id, MainDestroysOne(i) PROVE MainCourse
  BY <1>4 DEF MainDestroysOne, Becomes, Crash
<1>5. CASE MainDeletes \/ MainReturns
  BY <1>5 DEF MainDeletes, MainReturns
<1> QED BY <1>1, <1>2, <1>3, <1>4, <1>5 DEF MainStep, MainRuns

(* How a handler goes on, unless its step ends the process.                *)
HandlerCourse ==
  /\ server \notin {"none", "dispatch", "ended"}
  /\ \/ process' # "up"
     \/ /\ server = "parse" => server' \in {"check", "lock"}
        /\ server = "check" => server' \in {"lock", "reply"}
        /\ server = "lock" => server' = "locked"
        /\ server = "locked" => server' \in {"erase", "unlock"}
        /\ server = "erase" => server' = "unlock"
        /\ server = "unlock" => server' = "reply"
        /\ server = "reply" => server' = "dispatch"
        /\ server = "bind" => server' \in {"dispatch", "closing"}
        /\ server = "closing" => server' = "ended"

LEMMA HandlerAdvances ==
  ASSUME ServerStep
  PROVE  HandlerCourse /\ main' = main /\ deleter' = deleter
<1> USE DEF HandlerCourse, ServerGoto, ServerFaults, Crash, poolVars
<1>1. CASE ServerBinds \/ ServerCloses \/ Parse \/ CheckAdd \/ Reply
  BY <1>1 DEF ServerBinds, ServerCloses, Parse, CheckAdd, Reply
<1>2. CASE ServerLocks \/ CallFaults \/ ServerUnlocks
  BY <1>2 DEF ServerLocks, CallFaults, ServerUnlocks, Acquire, Release
<1>3. CASE ServerCalls
  BY <1>3 DEF ServerCalls, AddRefused, AddLaunched, AddDeletes, PauseTask, StartTask,
              RemoveTask, GetTaskState, Unknown, Becomes
<1>4. CASE ServerErases
  BY <1>4 DEF ServerErases, AddErases, Becomes
<1> QED BY <1>1, <1>2, <1>3, <1>4 DEF ServerStep

(* What a step of the process may be, for the main thread, the HTTP thread *)
(* and the delete thread.                                                  *)
Arrival == \E r \in Route, i \in Id : Receive(r, i)
DeleterCourse ==
  \/ deleter = "started" /\ deleter' = "waiting"
  \/ deleter = "waiting" /\ deleter' = "woken"
  \/ deleter = "woken" /\ deleter' = "done"

LEMMA OneThreadMoves ==
  ASSUME [Next]_vars
  PROVE  \/ MainStep /\ MainCourse
         \/ ServerStep /\ HandlerCourse /\ UNCHANGED <<main, deleter>>
         \/ /\ Arrival /\ server = "dispatch" /\ server' \in {"reply", "parse"}
            /\ UNCHANGED <<main, deleter>>
         \/ DeleterCourse /\ UNCHANGED <<main, server>>
         \/ UNCHANGED <<main, server, deleter>>
<1>1. CASE Arrival
  BY <1>1 DEF Arrival, Receive, ServerGoto, poolVars
<1>2. CASE DeleterStep
  BY <1>2 DEF DeleterStep, DeleterWaits, DeleterWakesSpuriously, DeleterReturns,
              DeleterGoes, Unserved, DeleterCourse
<1>3. ASSUME NEW i \in Id, WorkerStep(i) PROVE UNCHANGED <<main, server, deleter>>
  BY <1>3 DEF WorkerStep, WorkerEnds, WorkerEnded, Crash, Unserved
<1>4. CASE UNCHANGED vars
  BY <1>4 DEF vars, poolVars
<1>5. CASE Ended
  BY <1>5, <1>4 DEF Ended
<1> QED BY <1>1, <1>2, <1>3, <1>4, <1>5, MainAdvances, HandlerAdvances
        DEF Next, Arrival

(* When the HTTP thread ends for want of an address the main thread leaves *)
(* loop(), even if the end comes before loop() begins: nothing sets        *)
(* m_state again, and nothing can end the process first.                   *)
THEOREM LoopNotices == FairSpec /\ []NobodyStuck => LoopNoticesServerEnd
<1> DEFINE Begins == server = "ended" /\ main = "loop"
           Loops == server = "ended" /\ main = "run"
           Left == main \notin {"start", "loop", "run"}
<1>1. LInv /\ server = "ended" => Begins \/ Loops \/ Left
  BY DEF LInv, IInv, TypeOK, ServerStarted
<1>2. Begins /\ [Next]_vars => Begins' \/ Loops'
  BY OneThreadMoves DEF MainCourse, HandlerCourse
<1>3. Begins /\ <<MainMoves>>_vars => Loops'
  BY MainAdvances DEF MainMoves, MainStep, MainCourse
<1>4. LInv /\ NobodyStuck /\ Begins => ENABLED <<MainMoves>>_vars
  BY DEF LInv, QuietBegin, Early, NobodyStuck, MainHeldUp
<1>5. Loops /\ [Next]_vars => Loops' \/ Left'
  BY OneThreadMoves DEF MainCourse, HandlerCourse
<1>6. Loops /\ <<MainMoves>>_vars => Left'
  BY MainAdvances DEF MainMoves, MainStep, MainCourse
<1>7. LInv /\ NobodyStuck /\ Loops => ENABLED <<MainMoves>>_vars
  BY DEF LInv, QuietBegin, Early, NobodyStuck, MainHeldUp
<1>8. FairSpec /\ []NobodyStuck => [](Begins => <>(Loops \/ Left))
  BY <1>2, <1>3, <1>4, QuietInvariance, PTL DEF FairSpec, Fairness, Spec
<1>9. FairSpec /\ []NobodyStuck => [](Loops => <>Left)
  BY <1>5, <1>6, <1>7, QuietInvariance, PTL DEF FairSpec, Fairness, Spec
<1> QED BY <1>1, <1>8, <1>9, QuietInvariance, PTL
        DEF LoopNoticesServerEnd, FairSpec

(* The steps of a handler, with the process still up or not.               *)
At(label) == process = "up" /\ server = label
Down == process # "up"

LEMMA HandlerMoves ==
  ASSUME NobodyStuck
  PROVE  \A label \in {"parse", "check", "locked", "erase", "unlock", "reply"} :
           At(label) => ENABLED <<ServerMoves>>_vars
  BY DEF NobodyStuck, ServerHeldUp, At

(* A handler that has the mutex, or needs none, is held up by nobody.      *)
LEMMA LockedReplies ==
  FairSpec /\ []NobodyStuck => (At("locked") ~> (server = "reply" \/ Down))
<1>1. LInv /\ At("locked") /\ [Next]_vars =>
        At("locked")' \/ At("erase")' \/ At("unlock")' \/ Down'
  BY OneThreadMoves DEF At, Down, HandlerCourse, MainCourse, LInv, IInv, ServerStarted
<1>2. At("locked") /\ <<ServerMoves>>_vars => At("erase")' \/ At("unlock")' \/ Down'
  BY HandlerAdvances DEF At, Down, HandlerCourse, ServerMoves
<1>3. LInv /\ At("erase") /\ [Next]_vars => At("erase")' \/ At("unlock")' \/ Down'
  BY OneThreadMoves DEF At, Down, HandlerCourse, MainCourse, LInv, IInv, ServerStarted
<1>4. At("erase") /\ <<ServerMoves>>_vars => At("unlock")' \/ Down'
  BY HandlerAdvances DEF At, Down, HandlerCourse, ServerMoves
<1>5. LInv /\ At("unlock") /\ [Next]_vars => At("unlock")' \/ At("reply")' \/ Down'
  BY OneThreadMoves DEF At, Down, HandlerCourse, MainCourse, LInv, IInv, ServerStarted
<1>6. At("unlock") /\ <<ServerMoves>>_vars => At("reply")' \/ Down'
  BY HandlerAdvances DEF At, Down, HandlerCourse, ServerMoves
<1>7. /\ NobodyStuck /\ At("locked") => ENABLED <<ServerMoves>>_vars
      /\ NobodyStuck /\ At("erase") => ENABLED <<ServerMoves>>_vars
      /\ NobodyStuck /\ At("unlock") => ENABLED <<ServerMoves>>_vars
  BY HandlerMoves
<1>8. FairSpec /\ []NobodyStuck => [](At("locked") => <>(At("erase") \/ At("unlock") \/ Down))
  BY <1>1, <1>2, <1>7, QuietInvariance, PTL DEF FairSpec, Fairness, Spec
<1>9. FairSpec /\ []NobodyStuck => [](At("erase") => <>(At("unlock") \/ Down))
  BY <1>3, <1>4, <1>7, QuietInvariance, PTL DEF FairSpec, Fairness, Spec
<1>10. FairSpec /\ []NobodyStuck => [](At("unlock") => <>(At("reply") \/ Down))
  BY <1>5, <1>6, <1>7, QuietInvariance, PTL DEF FairSpec, Fairness, Spec
<1>11. At("reply") => server = "reply"
  BY DEF At
<1> QED BY <1>8, <1>9, <1>10, <1>11, PTL

(* A handler that waits for the mutex may have to let the destructor pass. *)
LEMMA LockIsTaken ==
  FairSpec /\ []NobodyStuck /\ DestructorEnds => (At("lock") ~> (At("locked") \/ Down))
<1> DEFINE Before == At("lock") /\ main \notin {"destroy", "delete", "return"}
           Held == At("lock") /\ main = "destroy"
           After == At("lock") /\ main \in {"delete", "return"}
<1>1. LInv /\ Before /\ [Next]_vars => Before' \/ Held' \/ At("locked")' \/ Down'
  BY OneThreadMoves DEF At, Down, HandlerCourse, MainCourse, LInv, IInv, ServerStarted, TypeOK
<1>2. Before /\ <<ServerMoves>>_vars => At("locked")' \/ Down'
  BY HandlerAdvances DEF At, Down, HandlerCourse, ServerMoves
<1>3. Held /\ [Next]_vars => Held' \/ After' \/ At("locked")' \/ Down'
  BY OneThreadMoves DEF At, Down, HandlerCourse, MainCourse
<1>4. After /\ [Next]_vars => After' \/ At("locked")' \/ Down'
  BY OneThreadMoves DEF At, Down, HandlerCourse, MainCourse
<1>5. After /\ <<ServerMoves>>_vars => At("locked")' \/ Down'
  BY HandlerAdvances DEF At, Down, HandlerCourse, ServerMoves
<1>6. /\ NobodyStuck /\ Before => ENABLED <<ServerMoves>>_vars
      /\ NobodyStuck /\ After => ENABLED <<ServerMoves>>_vars
  BY DEF NobodyStuck, ServerHeldUp, At
<1>7. At("lock") => Before \/ Held \/ After
  OBVIOUS
<1>8. /\ Held => main = "destroy"
      /\ Held => ~(main # "destroy" \/ process # "up")
  BY DEF At
<1>9. FairSpec /\ []NobodyStuck => [](Before => <>(Held \/ At("locked") \/ Down))
  BY <1>1, <1>2, <1>6, QuietInvariance, PTL DEF FairSpec, Fairness, Spec
<1>10. FairSpec /\ DestructorEnds => [](Held => <>(After \/ At("locked") \/ Down))
  BY <1>3, <1>8, PTL DEF FairSpec, Spec, DestructorEnds
<1>11. FairSpec /\ []NobodyStuck => [](After => <>(At("locked") \/ Down))
  BY <1>4, <1>5, <1>6, PTL DEF FairSpec, Fairness, Spec
<1> HIDE DEF Before, Held, After
<1> QED BY <1>7, <1>9, <1>10, <1>11, PTL

(* Every handler gets to its reply.                                        *)
Busy == \/ At("parse") \/ At("check") \/ At("lock") \/ At("locked") \/ At("erase")
        \/ At("unlock")

LEMMA BusyReplies ==
  FairSpec /\ []NobodyStuck /\ DestructorEnds => (Busy ~> (server = "reply" \/ Down))
<1>1. LInv /\ At("parse") /\ [Next]_vars =>
        At("parse")' \/ At("check")' \/ At("lock")' \/ Down'
  BY OneThreadMoves DEF At, Down, HandlerCourse, MainCourse, LInv, IInv, ServerStarted
<1>2. At("parse") /\ <<ServerMoves>>_vars => At("check")' \/ At("lock")' \/ Down'
  BY HandlerAdvances DEF At, Down, HandlerCourse, ServerMoves
<1>3. LInv /\ At("check") /\ [Next]_vars =>
        At("check")' \/ At("lock")' \/ At("reply")' \/ Down'
  BY OneThreadMoves DEF At, Down, HandlerCourse, MainCourse, LInv, IInv, ServerStarted
<1>4. At("check") /\ <<ServerMoves>>_vars => At("lock")' \/ At("reply")' \/ Down'
  BY HandlerAdvances DEF At, Down, HandlerCourse, ServerMoves
<1>5. LInv /\ At("erase") /\ [Next]_vars => At("erase")' \/ At("unlock")' \/ Down'
  BY OneThreadMoves DEF At, Down, HandlerCourse, MainCourse, LInv, IInv, ServerStarted
<1>6. At("erase") /\ <<ServerMoves>>_vars => At("unlock")' \/ Down'
  BY HandlerAdvances DEF At, Down, HandlerCourse, ServerMoves
<1>7. LInv /\ At("unlock") /\ [Next]_vars => At("unlock")' \/ At("reply")' \/ Down'
  BY OneThreadMoves DEF At, Down, HandlerCourse, MainCourse, LInv, IInv, ServerStarted
<1>8. At("unlock") /\ <<ServerMoves>>_vars => At("reply")' \/ Down'
  BY HandlerAdvances DEF At, Down, HandlerCourse, ServerMoves
<1>9. /\ NobodyStuck /\ At("parse") => ENABLED <<ServerMoves>>_vars
      /\ NobodyStuck /\ At("check") => ENABLED <<ServerMoves>>_vars
      /\ NobodyStuck /\ At("erase") => ENABLED <<ServerMoves>>_vars
      /\ NobodyStuck /\ At("unlock") => ENABLED <<ServerMoves>>_vars
  BY HandlerMoves
<1>10. FairSpec /\ []NobodyStuck => [](At("parse") => <>(At("check") \/ At("lock") \/ Down))
  BY <1>1, <1>2, <1>9, QuietInvariance, PTL DEF FairSpec, Fairness, Spec
<1>11. FairSpec /\ []NobodyStuck => [](At("check") => <>(At("lock") \/ At("reply") \/ Down))
  BY <1>3, <1>4, <1>9, QuietInvariance, PTL DEF FairSpec, Fairness, Spec
<1>12. FairSpec /\ []NobodyStuck => [](At("erase") => <>(At("unlock") \/ Down))
  BY <1>5, <1>6, <1>9, QuietInvariance, PTL DEF FairSpec, Fairness, Spec
<1>13. FairSpec /\ []NobodyStuck => [](At("unlock") => <>(At("reply") \/ Down))
  BY <1>7, <1>8, <1>9, QuietInvariance, PTL DEF FairSpec, Fairness, Spec
<1>14. At("reply") => server = "reply"
  BY DEF At
<1> QED BY <1>10, <1>11, <1>12, <1>13, <1>14, LockIsTaken, LockedReplies, PTL DEF Busy

(* A request that reaches its handler is answered, unless the process ends *)
(* first: nothing between the handler's first line and its reply waits for *)
(* ever for the mutex, neither for an operation nor for the destructor.    *)
THEOREM RequestIsAnswered ==
  FairSpec /\ []NobodyStuck /\ DestructorEnds => RequestAnswered
<1>1. /\ server = "parse" => At("parse") \/ Down
      /\ Down <=> process # "up"
  BY DEF At, Down
<1> QED BY <1>1, BusyReplies, PTL DEF Busy, RequestAnswered

(* Requests stop arriving: no client asks for ever.                        *)
NoArrival == \A r \in Route, i \in Id : ~Receive(r, i)
RequestsStop == <>[][NoArrival]_vars

(* Then the HTTP thread comes to rest.                                     *)
AtRest == server \in {"none", "bind", "dispatch", "closing", "ended"} \/ Down

LEMMA ServerRests ==
  FairSpec /\ []NobodyStuck /\ DestructorEnds /\ RequestsStop => <>[]AtRest
<1>1. LInv /\ AtRest /\ [Next]_vars /\ [NoArrival]_vars => AtRest'
  <2>1. Down /\ [Next]_vars => Down'
    BY DEF Down, Next, Ended, vars, poolVars
  <2>2. ASSUME Arrival, [NoArrival]_vars PROVE UNCHANGED server
    BY <2>2 DEF Arrival, NoArrival, vars
  <2> QED BY <2>1, <2>2, OneThreadMoves
          DEF AtRest, Down, HandlerCourse, MainCourse, LInv, IInv, ServerStarted
<1>2. LInv /\ At("reply") /\ [Next]_vars => At("reply")' \/ AtRest'
  BY OneThreadMoves DEF At, AtRest, Down, HandlerCourse, MainCourse, LInv, IInv,
                        ServerStarted
<1>3. At("reply") /\ <<ServerMoves>>_vars => AtRest'
  BY HandlerAdvances DEF At, AtRest, Down, HandlerCourse, ServerMoves
<1>4. NobodyStuck /\ At("reply") => ENABLED <<ServerMoves>>_vars
  BY HandlerMoves
<1>5. LInv => Busy \/ At("reply") \/ AtRest
  BY DEF LInv, IInv, TypeOK, Locked, Busy, At, AtRest, Down
<1>6. /\ server = "reply" => At("reply") \/ AtRest
      /\ Down => AtRest
  BY DEF At, AtRest, Down
<1>7. FairSpec /\ []NobodyStuck => [](At("reply") => <>AtRest)
  BY <1>2, <1>3, <1>4, QuietInvariance, PTL DEF FairSpec, Fairness, Spec
<1>8. FairSpec /\ []NobodyStuck /\ DestructorEnds => []<>AtRest
  BY <1>5, <1>6, <1>7, BusyReplies, QuietInvariance, PTL DEF FairSpec
<1>9. FairSpec /\ RequestsStop => <>[](AtRest => []AtRest)
  BY <1>1, QuietInvariance, PTL DEF FairSpec, Spec, RequestsStop
<1> QED BY <1>8, <1>9, PTL

(* The way through ~TaskScheduler, from the notification to the end.       *)
MainAt(label) == process = "up" /\ main = label

LEMMA DeleterIsJoined ==
  FairSpec /\ []NobodyStuck =>
    ((MainAt("stop") /\ deleter = "waiting") ~> (MainAt("lock") \/ Down))
<1> DEFINE Stops == MainAt("stop") /\ deleter \in {"waiting", "woken", "done"}
           Woken == MainAt("join") /\ deleter = "woken"
           Joinable == MainAt("join") /\ deleter = "done"
<1>1. LInv /\ Stops /\ [Next]_vars => Stops' \/ Woken' \/ Joinable' \/ Down'
  BY OneThreadMoves DEF MainAt, Down, MainCourse, DeleterCourse, HandlerCourse
<1>2. Stops /\ <<MainMoves>>_vars => Woken' \/ Joinable' \/ Down'
  BY MainAdvances DEF MainAt, Down, MainCourse, MainMoves, MainStep
<1>3. Woken /\ [Next]_vars => Woken' \/ Joinable' \/ MainAt("lock")' \/ Down'
  BY OneThreadMoves DEF MainAt, Down, MainCourse, DeleterCourse, HandlerCourse
<1>4. Woken /\ <<DeleterMoves>>_vars => Joinable' \/ Down'
  BY DEF MainAt, Down, DeleterMoves, DeleterWaits, DeleterReturns, DeleterGoes, Unserved
<1>5. Joinable /\ [Next]_vars => Joinable' \/ MainAt("lock")' \/ Down'
  BY OneThreadMoves DEF MainAt, Down, MainCourse, DeleterCourse, HandlerCourse
<1>6. Joinable /\ <<MainMoves>>_vars => MainAt("lock")' \/ Down'
  BY MainAdvances DEF MainAt, Down, MainCourse, MainMoves, MainStep
<1>7. /\ NobodyStuck /\ Stops => ENABLED <<MainMoves>>_vars
      /\ NobodyStuck /\ Woken => ENABLED <<DeleterMoves>>_vars
      /\ NobodyStuck /\ Joinable => ENABLED <<MainMoves>>_vars
  BY DEF NobodyStuck, MainAt, MainHeldUp, DeleterHeldUp
<1>8. MainAt("stop") /\ deleter = "waiting" => Stops
  OBVIOUS
<1>9. FairSpec /\ []NobodyStuck => [](Stops => <>(Woken \/ Joinable \/ Down))
  BY <1>1, <1>2, <1>7, QuietInvariance, PTL DEF FairSpec, Fairness, Spec
<1>10. FairSpec /\ []NobodyStuck => [](Woken => <>(Joinable \/ MainAt("lock") \/ Down))
  BY <1>3, <1>4, <1>7, PTL DEF FairSpec, Fairness, Spec
<1>11. FairSpec /\ []NobodyStuck => [](Joinable => <>(MainAt("lock") \/ Down))
  BY <1>5, <1>6, <1>7, PTL DEF FairSpec, Fairness, Spec
<1> HIDE DEF Stops, Woken, Joinable
<1> QED BY <1>8, <1>9, <1>10, <1>11, PTL

(* A number of tasks that falls again and again and never grows.  It is a  *)
(* natural number (TasksFinite), so no behaviour falls without end; the    *)
(* temporal prover, which does not know of numbers, cannot say so.         *)
NoEndlessFall ==
  ~ (/\ <>[][Cardinality(Tasks') <= Cardinality(Tasks)]_vars
     /\ []<><<Cardinality(Tasks') < Cardinality(Tasks)>>_vars)

(* While the destructor is at work nobody adds a task.                     *)
LEMMA DestructorAddsNone ==
  ASSUME LInv, MainAt("destroy"), [Next]_vars
  PROVE  Cardinality(Tasks') <= Cardinality(Tasks)
<1>1. server # "locked"
  BY DEF LInv, IInv, LockHeld, Locked, MainAt
<1>2. Tasks' \subseteq Tasks
  BY <1>1, TasksGrowBelowLimit DEF LInv, IInv
<1> QED BY <1>2, TasksFinite, FS_Subset

(* And each of its rounds deletes one.                                     *)
LEMMA DestructorDeletesOne ==
  ASSUME LInv, MainAt("destroy"), MainMoves, MainAt("destroy")'
  PROVE  Cardinality(Tasks') < Cardinality(Tasks)
<1>1. PICK i \in Id : MainDestroysOne(i)
  BY DEF MainAt, MainMoves, MainRuns, MainStartsServer, MainCreatesDeleter, MainLeavesLoop,
         MainNotifies, MainJoins, MainLocks, MainUnlocks, MainDeletes, MainReturns, MainGoes
<1>2. i \in Tasks /\ Becomes(i, "absent")
  BY <1>1 DEF MainDestroysOne, Crash, MainAt
<1>3. Tasks' = Tasks \ {i}
  BY <1>2, BecomesTasks DEF LInv, IInv, TypeOK, ExecutorState
<1> QED BY <1>2, <1>3, TasksFinite, FS_RemoveElement

(* ~TaskScheduler comes to the end of its loop over m_executorMap.         *)
THEOREM DestructorReachesEnd ==
  FairSpec /\ []NobodyStuck /\ NoEndlessFall => DestructorEnds
<1> DEFINE Destroys == MainAt("destroy")
           Keeps == Cardinality(Tasks') <= Cardinality(Tasks)
           Loses == Cardinality(Tasks') < Cardinality(Tasks)
<1>1. LInv /\ Destroys /\ [Next]_vars => [Keeps]_vars
  BY DestructorAddsNone
<1>2. LInv /\ Destroys /\ Destroys' /\ <<MainMoves>>_vars => <<Loses>>_vars
  BY DestructorDeletesOne
<1>3. NobodyStuck /\ Destroys => ENABLED <<MainMoves>>_vars
  BY DEF NobodyStuck, MainAt, MainHeldUp
<1>4. /\ main = "destroy" => Destroys \/ process # "up"
      /\ ~Destroys => main # "destroy" \/ process # "up"
  BY DEF MainAt
<1>5. NoEndlessFall => ~(<>[][Keeps]_vars /\ []<><<Loses>>_vars)
  BY DEF NoEndlessFall
<1> HIDE DEF Destroys, Keeps, Loses
<1>6. FairSpec /\ []NobodyStuck /\ <>[]Destroys => <>[][Keeps]_vars /\ []<><<Loses>>_vars
  BY <1>1, <1>2, <1>3, QuietInvariance, PTL DEF FairSpec, Fairness, Spec
<1> QED BY <1>4, <1>5, <1>6, PTL DEF DestructorEnds

(* If the delete thread already waits when the destructor notifies it, the *)
(* shutdown completes, whatever request is being handled: the destructor   *)
(* joins the delete thread, gets the mutex once the handlers are done, and *)
(* the process ends.                                                       *)
THEOREM ShutdownEnds ==
  FairSpec /\ []NobodyStuck /\ DestructorEnds /\ RequestsStop => ShutdownCompletesIfWaiting
<1>1. MainAt("lock") /\ [Next]_vars => MainAt("lock")' \/ MainAt("destroy")' \/ Down'
  BY OneThreadMoves DEF MainAt, Down, MainCourse
<1>2. MainAt("lock") /\ <<MainMoves>>_vars => MainAt("destroy")' \/ Down'
  BY MainAdvances DEF MainAt, Down, MainCourse, MainMoves, MainStep
<1>3. NobodyStuck /\ AtRest /\ MainAt("lock") => ENABLED <<MainMoves>>_vars
  BY DEF NobodyStuck, MainAt, MainHeldUp, AtRest, Down, Locked
<1>4. FairSpec /\ []NobodyStuck /\ <>[]AtRest =>
        [](MainAt("lock") => <>(MainAt("destroy") \/ Down))
  BY <1>1, <1>2, <1>3, PTL DEF FairSpec, Fairness, Spec
<1>5. MainAt("destroy") /\ [Next]_vars => MainAt("destroy")' \/ MainAt("delete")' \/ Down'
  BY OneThreadMoves DEF MainAt, Down, MainCourse
<1>6. /\ MainAt("destroy") => main = "destroy"
      /\ MainAt("destroy") => ~(main # "destroy" \/ process # "up")
  BY DEF MainAt
<1>7. FairSpec /\ DestructorEnds => [](MainAt("destroy") => <>(MainAt("delete") \/ Down))
  BY <1>5, <1>6, PTL DEF FairSpec, Spec, DestructorEnds
<1>8. MainAt("delete") /\ [Next]_vars => MainAt("delete")' \/ MainAt("return")' \/ Down'
  BY OneThreadMoves DEF MainAt, Down, MainCourse
<1>9. MainAt("delete") /\ <<MainMoves>>_vars => MainAt("return")' \/ Down'
  BY MainAdvances DEF MainAt, Down, MainCourse, MainMoves, MainStep
<1>10. MainAt("return") /\ [Next]_vars => MainAt("return")' \/ Down'
  BY OneThreadMoves DEF MainAt, Down, MainCourse
<1>11. MainAt("return") /\ <<MainMoves>>_vars => Down'
  BY MainAdvances DEF MainAt, Down, MainCourse, MainMoves, MainStep
<1>12. /\ NobodyStuck /\ MainAt("delete") => ENABLED <<MainMoves>>_vars
       /\ NobodyStuck /\ MainAt("return") => ENABLED <<MainMoves>>_vars
  BY DEF NobodyStuck, MainAt, MainHeldUp
<1>13. FairSpec /\ []NobodyStuck => [](MainAt("delete") => <>(MainAt("return") \/ Down))
  BY <1>8, <1>9, <1>12, PTL DEF FairSpec, Fairness, Spec
<1>14. FairSpec /\ []NobodyStuck => [](MainAt("return") => <>Down)
  BY <1>10, <1>11, <1>12, PTL DEF FairSpec, Fairness, Spec
<1>15. /\ main = "stop" /\ deleter = "waiting" => (MainAt("stop") /\ deleter = "waiting") \/ Down
       /\ Down <=> process # "up"
  BY DEF MainAt, Down
<1> QED BY <1>4, <1>7, <1>13, <1>14, <1>15, ServerRests, DeleterIsJoined, PTL
        DEF ShutdownCompletesIfWaiting

(* All three from what holds of every behaviour: the guards are exact and  *)
(* a number of tasks does not fall without end.                            *)
THEOREM ServerGoesOn ==
  FairSpec /\ []GuardsEnable /\ NoEndlessFall =>
    /\ LoopNoticesServerEnd
    /\ RequestAnswered
    /\ RequestsStop => ShutdownCompletesIfWaiting
  BY NobodyIsStuck, DestructorReachesEnd, LoopNotices, RequestIsAnswered, ShutdownEnds, PTL
     DEF FairSpec

===========================================================================
