--------------------------- MODULE TaskScheduler ---------------------------
(***************************************************************************)
(* The task pool of Analyzer/src/scheduler.cpp: m_executorMap, the mutex   *)
(* that all its methods take, and the thread that waits to delete tasks.   *)
(* An operator here is the body of one method, between the construction    *)
(* and the destruction of its unique_lock; ServerProcess adds the threads  *)
(* that call them.                                                         *)
(*                                                                         *)
(* A TaskExecutor is abstracted to what the scheduler sees of it (module   *)
(* TaskExecutor has the rest):                                             *)
(*   running  m_state is true and workers run                              *)
(*   claimed  m_state is true and no worker runs: a start() that failed    *)
(*   off      m_state is false                                             *)
(***************************************************************************)
EXTENDS Integers, FiniteSets

CONSTANTS
  Id,        \* task ids
  MaxNum     \* control_executor_maxNum of config.json, an int

ASSUME IdAssumption == IsFiniteSet(Id)
ASSUME MaxNumAssumption == MaxNum \in Int

VARIABLES
  process,        \* the server process: "up", "exited" or "crashed"
  executor,       \* what m_executorMap holds for each id
  ending,         \* tasks one of whose workers has begun to end by itself
  m_state,        \* TaskScheduler::m_state
  scheduler,      \* the TaskScheduler object: "live" or "deleted"
  mutex,          \* holder of m_executorMap_mutex
  deleter         \* where deleteTaskThread is

poolVars == <<process, executor, ending, m_state, scheduler, mutex, deleter>>

ExecutorState == {"absent", "running", "claimed", "off"}

PoolTypeOK ==
  /\ process \in {"up", "exited", "crashed"}
  /\ executor \in [Id -> ExecutorState]
  /\ ending \subseteq Id
  /\ m_state \in BOOLEAN
  /\ scheduler \in {"live", "deleted"}
  /\ mutex \in {"none", "server", "main"}
  /\ deleter \in {"none", "started", "waiting", "woken", "done"}

PoolInit ==
  /\ process = "up"
  /\ executor = [i \in Id |-> "absent"]
  /\ ending = {}
  /\ m_state = FALSE
  /\ scheduler = "live"
  /\ mutex = "none"
  /\ deleter = "none"

(* The ids in m_executorMap.                                               *)
Tasks == {i \in Id : executor[i] # "absent"}

(* std::terminate or a fault, in any thread.                               *)
Crash ==
  /\ process' = "crashed"
  /\ UNCHANGED <<executor, ending, m_state, scheduler, mutex, deleter>>

Becomes(i, s) ==
  /\ executor' = [executor EXCEPT ![i] = s]
  /\ UNCHANGED <<process, ending, m_state, scheduler, mutex, deleter>>

Acquire(t) ==
  /\ mutex = "none"
  /\ mutex' = t
  /\ UNCHANGED <<process, executor, ending, m_state, scheduler, deleter>>

Release ==
  /\ mutex' = "none"
  /\ UNCHANGED <<process, executor, ending, m_state, scheduler, deleter>>

---------------------------------------------------------------------------
(* The methods.  Each is guarded by its caller's program counter; ret is   *)
(* the value it returns.                                                   *)

(* Variant: the limit is tested with > in place of >=.                     *)
AtLimit_OneMore == MaxNum >= 0 /\ Cardinality(Tasks) > MaxNum

(* size() >= maxNum compares a size_t with an int: a negative limit is     *)
(* converted to a huge one.                                                *)
AtLimit == MaxNum >= 0 /\ Cardinality(Tasks) >= MaxNum

(* addTask up to the insertion: a known id counts as success; if the       *)
(* insertion throws the executor is deleted again.                         *)
AddRefused(i, ok) ==
  /\ \/ i \in Tasks /\ ok = TRUE
     \/ i \notin Tasks /\ AtLimit /\ ok = FALSE
     \/ i \notin Tasks /\ ~AtLimit /\ ok = FALSE
  /\ UNCHANGED poolVars

(* new TaskExecutor, insert, start(): the task runs.                       *)
AddLaunched(i, ok) ==
  /\ i \notin Tasks /\ ~AtLimit
  /\ ok = TRUE
  /\ Becomes(i, "running")

(* start() fails, or getState() is false after it: the executor and with   *)
(* it taskConfig are deleted; the entry is still in the map.               *)
AddDeletes(i) ==
  /\ i \notin Tasks /\ ~AtLimit
  /\ Becomes(i, "off")

(* Variant: the entry of the failed task stays in the map.                 *)
AddErases_Keeps(i, ok) ==
  /\ ok = FALSE
  /\ UNCHANGED poolVars

(* erase(taskConfig->get_id()) reads the deleted taskConfig: a fault, which*)
(* the caller adds (ServerErases), or the entry goes.  The latter is more  *)
(* than the code can do, since the destructor has cleared the parameters   *)
(* (ErasesFailed of Configuration); the pool allows it, to say what a      *)
(* failed add does if the id is at hand.                                   *)
AddErases(i, ok) ==
  /\ ok = FALSE
  /\ Becomes(i, "absent")

(* The methods that look the id up first give up when it is unknown.       *)
Unknown(i, ok) ==
  /\ i \notin Tasks
  /\ ok = FALSE
  /\ UNCHANGED poolVars

(* pauseTask: pause() joins the workers of a running task, and finds       *)
(* nothing to do when m_state is false.                                    *)
PauseTask(i, ok) ==
  \/ Unknown(i, ok)
  \/ i \in Tasks /\ ok = TRUE /\ Becomes(i, "off")

(* startTask: start() sets m_state without looking whether the task runs,  *)
(* and leaves it set when it fails: with workers when the push stream did  *)
(* not connect, with those of an earlier start(), or with none.  A worker  *)
(* that ends meanwhile clears it again.                                    *)
StartTask(i, ok) ==
  \/ Unknown(i, ok)
  \/ /\ i \in Tasks
     /\ \/ ok = TRUE /\ Becomes(i, "running")
        \/ ok = FALSE /\ \/ Becomes(i, "running")
                         \/ executor[i] # "running" /\ Becomes(i, "claimed")
                         \/ Becomes(i, "off")

(* Variant: the executor is deleted and its entry stays.                   *)
RemoveTask_Keeps(i, ok) ==
  \/ Unknown(i, ok)
  \/ i \in Tasks /\ ok = TRUE /\ Becomes(i, "off")

(* removeTask: delete taskExecutor, erase.  ~TaskExecutor does not survive *)
(* a worker that has begun to end by itself.                               *)
RemoveTask(i, ok) ==
  \/ Unknown(i, ok)
  \/ i \in Tasks \ ending /\ ok = TRUE /\ Becomes(i, "absent")

(* getTaskState returns m_state, and false for an unknown id.              *)
GetTaskState(i, ok) ==
  /\ ok = (executor[i] \in {"running", "claimed"})
  /\ UNCHANGED poolVars

---------------------------------------------------------------------------
(* A worker of a running task whose stream ends calls pause() itself,      *)
(* without the mutex: m_state becomes false; then the worker joins itself, *)
(* which ends the process, unless m_threads has no handle yet.             *)
WorkerEnds(i) ==
  /\ executor[i] = "running"
  /\ executor' = [executor EXCEPT ![i] = "off"]
  /\ ending' = ending \union {i}
  /\ UNCHANGED <<process, m_state, scheduler, mutex, deleter>>

WorkerEnded(i) ==
  /\ i \in ending
  /\ \/ Crash
     \/ /\ ending' = ending \ {i}
        /\ UNCHANGED <<process, executor, m_state, scheduler, mutex, deleter>>

---------------------------------------------------------------------------
(* deleteTaskThread: one wait on the condition variable, without a         *)
(* predicate, then the queue, which nothing ever fills.                    *)
DeleterGoes(from, to) ==
  /\ deleter = from
  /\ deleter' = to
  /\ UNCHANGED <<process, executor, ending, m_state, scheduler, mutex>>

DeleterWaits == DeleterGoes("started", "waiting")
DeleterWakesSpuriously == DeleterGoes("waiting", "woken")
DeleterReturns == DeleterGoes("woken", "done")

===========================================================================
