-------------------------- MODULE PooledExecutor --------------------------
(***************************************************************************)
(* The executor as the task pool sees it.  TaskScheduler replaces a        *)
(* TaskExecutor by one word, and its methods by single steps on that word. *)
(* Here the executor of TaskExecutor, with all its threads, is mapped to   *)
(* that word, and every step of it must be a step that TaskScheduler has   *)
(* for one task, taken inside the call of scheduler.cpp that it models.    *)
(***************************************************************************)
EXTENDS Integers, TaskExecutor

Task == "task"

(* A worker that has cleared m_state itself and is now joining.            *)
SelfStopping == {w \in Worker : pc[w] \in {"iterate", "join"}}

(* Workers that end while addTask has not returned are of no concern to    *)
(* the pool: it has never said that the task runs.                         *)
Ending == IF op # "add" /\ SelfStopping # {} THEN {Task} ELSE {}

(* What m_executorMap holds for the task.                                  *)
(*   addTask puts the task there when start() has succeeded, or after the  *)
(*     destructor of a failed start(), just to erase it;                   *)
(*   removeTask takes it away when pause() has left nothing to destroy;    *)
(*   pause() by the scheduler stops the task at its end, unless a worker   *)
(*     has stopped it by then.                                             *)
View ==
  IF m_pullStream = 0 THEN "absent"
  ELSE IF op = "add" THEN (IF freed THEN "off" ELSE "absent")
  ELSE IF freed \/ (pc[Caller] = "destroy" /\ joinable = {}) THEN "absent"
  ELSE IF m_state \/ (pc[Caller] \in {"iterate", "join"} /\ Ending = {})
       THEN "running"
  ELSE "off"

(* One task, and no limit (-1) that could keep it out of the pool.         *)
Pool == INSTANCE TaskScheduler
          WITH Id <- {Task}, MaxNum <- -1,
               process <- IF alive THEN "up" ELSE "crashed",
               executor <- [i \in {Task} |-> View],
               ending <- Ending,
               m_state <- FALSE, scheduler <- "live",
               mutex <- "none", deleter <- "none"

(* The steps of the pool, each in the call that it stands for.  A process  *)
(* with a task in the pool goes down only after a worker has begun to end  *)
(* by itself, or when removeTask finds m_state already false and workers   *)
(* that nobody has joined; pauseTask and startTask alone never end it.     *)
PoolStep ==
  \/ op = "add" /\ ( \/ Pool!AddLaunched(Task, TRUE)
                     \/ Pool!AddDeletes(Task)
                     \/ Pool!AddErases(Task, FALSE)
                     \/ Pool!Crash )
  \/ op' = "start" /\ \E ok \in BOOLEAN : Pool!StartTask(Task, ok)
  \/ op = "pause" /\ Pool!PauseTask(Task, TRUE)
  \/ op = "remove" /\ ( \/ Pool!RemoveTask(Task, TRUE)
                        \/ View = "off" /\ Pool!Crash )
  \/ Pool!WorkerEnds(Task)
  \/ Pool!WorkerEnded(Task)

(* What a call reports is what the pool holds when it returns.             *)
Reported ==
  op # "none" /\ op' = "none"
    => \/ result' = "started" /\ View' = "running"
       \/ result' = "paused" /\ View' = "off"
       \/ result' = "removed" /\ View' = "absent"
       \/ result' = "launch_failed" /\ (op = "add" => View' = "absent")

(* TaskScheduler's abstraction of an executor is right: whatever start(),  *)
(* pause(), the destructor and the three workers do in whatever order, the *)
(* pool sees one of its own steps or nothing, and an answer that holds.    *)
ImplementsPool == [][[PoolStep]_(Pool!poolVars) /\ Reported]_vars

===========================================================================
