--------------------------- MODULE ServerProcess ---------------------------
(***************************************************************************)
(* The whole server process: the main thread (main.cpp), the HTTP thread   *)
(* that Server::start detaches and that runs every handler one after the   *)
(* other (server.cpp), the delete thread of the scheduler, and the workers *)
(* of the tasks, over the task pool of TaskScheduler.                      *)
(***************************************************************************)
EXTENDS TaskScheduler

CONSTANT MaxRequests    \* bound: how many HTTP requests arrive

ASSUME MaxRequestsAssumption == MaxRequests \in Nat

VARIABLES
  main,       \* where the main thread is
  server,     \* where the HTTP thread is
  op,         \* the route of the request being handled
  task,       \* its "id"
  ret,        \* what the scheduler's method returned for it
  code,       \* "code" of the last reply sent, -1 before the first
  received    \* requests received so far

vars == <<poolVars, main, server, op, task, ret, code, received>>

Route == {"help", "add", "pause", "start", "remove", "get_state"}
Locked == {"locked", "erase", "unlock"}

TypeOK ==
  /\ PoolTypeOK
  /\ main \in {"start", "loop", "run", "stop", "join", "lock", "destroy",
               "delete", "return"}
  /\ server \in {"none", "bind", "dispatch", "parse", "check", "lock", "reply",
                 "closing", "ended"} \union Locked
  /\ op \in Route
  /\ task \in Id
  /\ ret \in BOOLEAN
  /\ code \in {-1, 0, 2}
  /\ received \in 0 .. MaxRequests

Init ==
  /\ PoolInit
  /\ main = "start"
  /\ server = "none"
  /\ op = "help"
  /\ task \in Id
  /\ ret = FALSE
  /\ code = -1
  /\ received = 0

---------------------------------------------------------------------------
(* The main thread.                                                        *)

MainGoes(from, to) == main = from /\ main' = to

(* Server::start: setState(true), then a detached thread.                  *)
MainStartsServer ==
  /\ MainGoes("start", "loop")
  /\ m_state' = TRUE
  /\ server' = "bind"
  /\ UNCHANGED <<process, executor, ending, scheduler, mutex, deleter>>

(* Variant: with the line "m_state = true" of loop(), which is commented   *)
(* out in the source.                                                      *)
MainCreatesDeleter_Sets ==
  /\ MainGoes("loop", "run")
  /\ deleter' = "started"
  /\ m_state' = TRUE
  /\ UNCHANGED <<process, executor, ending, scheduler, mutex, server>>

(* loop(): new std::thread(&TaskScheduler::deleteTaskThread, this).        *)
MainCreatesDeleter ==
  /\ MainGoes("loop", "run")
  /\ deleter' = "started"
  /\ UNCHANGED <<process, executor, ending, m_state, scheduler, mutex, server>>

(* while (m_state), with a key that ends it.                               *)
MainLeavesLoop ==
  /\ MainGoes("run", "stop")
  /\ ~m_state
  /\ UNCHANGED <<poolVars, server>>

MainKeyPressed ==
  /\ MainGoes("run", "stop")
  /\ m_state
  /\ m_state' = FALSE
  /\ UNCHANGED <<process, executor, ending, scheduler, mutex, deleter, server>>

(* Variant: the destructor joins without notify_all.                       *)
MainNotifies_Not ==
  /\ MainGoes("stop", "join")
  /\ m_state' = FALSE
  /\ UNCHANGED <<process, executor, ending, scheduler, mutex, deleter, server>>

(* ~TaskScheduler: notify_all wakes the delete thread only if it waits.    *)
MainNotifies ==
  /\ MainGoes("stop", "join")
  /\ m_state' = FALSE
  /\ deleter' = IF deleter = "waiting" THEN "woken" ELSE deleter
  /\ UNCHANGED <<process, executor, ending, scheduler, mutex, server>>

MainJoins ==
  /\ MainGoes("join", "lock")
  /\ deleter = "done"
  /\ UNCHANGED <<poolVars, server>>

(* Variant: the destructor does not take m_executorMap_mutex.              *)
MainLocks_Not ==
  /\ MainGoes("lock", "destroy")
  /\ UNCHANGED <<poolVars, server>>

MainLocks ==
  /\ MainGoes("lock", "destroy")
  /\ Acquire("main")
  /\ UNCHANGED server

(* Variant: each executor is started in place of deleted.                  *)
MainDestroysOne_Starts(i) ==
  /\ main = "destroy"
  /\ i \in Tasks
  /\ i \notin ending /\ Becomes(i, "running")
  /\ UNCHANGED <<main, server>>

(* Each executor is deleted; its destructor may end the process.           *)
MainDestroysOne(i) ==
  /\ main = "destroy"
  /\ i \in Tasks
  /\ \/ i \notin ending /\ Becomes(i, "absent")
     \/ Crash
  /\ UNCHANGED <<main, server>>

(* The destructor's body ends: the map is empty, m_config a null pointer,  *)
(* the mutex free.                                                         *)
MainUnlocks ==
  /\ MainGoes("destroy", "delete")
  /\ Tasks = {}
  /\ Release
  /\ UNCHANGED server

(* The members are destroyed and the memory is given back.                 *)
MainDeletes ==
  /\ MainGoes("delete", "return")
  /\ scheduler' = "deleted"
  /\ UNCHANGED <<process, executor, ending, m_state, mutex, deleter, server>>

(* return 0 ends the process and the threads that are left.                *)
MainReturns ==
  /\ main = "return"
  /\ process' = "exited"
  /\ UNCHANGED <<executor, ending, m_state, scheduler, mutex, deleter, main,
                 server>>

(* The steps that the operating system and the loop's timer bring about.   *)
MainRuns ==
  /\ \/ MainStartsServer \/ MainCreatesDeleter \/ MainLeavesLoop
     \/ MainNotifies \/ MainJoins \/ MainLocks
     \/ \E i \in Id : MainDestroysOne(i)
     \/ MainUnlocks \/ MainDeletes \/ MainReturns
  /\ UNCHANGED <<op, task, ret, code, received>>

MainStep ==
  \/ MainRuns
  \/ MainKeyPressed /\ UNCHANGED <<op, task, ret, code, received>>

---------------------------------------------------------------------------
(* The HTTP thread.                                                        *)

(* ~TaskScheduler has run: m_config is null and the map is empty.          *)
Destructed == main \in {"delete", "return"}

ServerGoto(label) == server' = label /\ UNCHANGED main

(* Any access to the scheduler object when its memory has been given back, *)
(* and any access through its m_config once that is null, may fault.       *)
ServerFaults == Crash /\ UNCHANGED <<main, server>>

(* The address of m_config is bound and the event loop runs, or it has no  *)
(* event to wait for and returns.                                          *)
ServerBinds ==
  /\ server = "bind"
  /\ \/ ~Destructed /\ UNCHANGED poolVars /\ ServerGoto("dispatch")
     \/ ~Destructed /\ UNCHANGED poolVars /\ ServerGoto("closing")
     \/ Destructed /\ ServerFaults
  /\ UNCHANGED <<op, task, ret, code, received>>

(* The thread's last line: scheduler->setState(false).                     *)
ServerCloses ==
  /\ server = "closing"
  /\ \/ /\ m_state' = FALSE
        /\ UNCHANGED <<process, executor, ending, scheduler, mutex, deleter>>
        /\ ServerGoto("ended")
     \/ scheduler = "deleted" /\ ServerFaults
  /\ UNCHANGED <<op, task, ret, code, received>>

(* One handler runs at a time; "help" answers by itself.                   *)
Receive(r, i) ==
  /\ server = "dispatch"
  /\ received < MaxRequests
  /\ received' = received + 1
  /\ op' = r
  /\ task' = i
  /\ ret' = (r = "help")
  /\ ServerGoto(IF r = "help" THEN "reply" ELSE "parse")
  /\ UNCHANGED <<poolVars, code>>

(* parse_post, json::parse and the reads of its fields: an exception ends  *)
(* the process, nothing catches it above the callback.                     *)
Parse ==
  /\ server = "parse"
  /\ \/ ServerGoto(IF op = "add" THEN "check" ELSE "lock") /\ UNCHANGED poolVars
     \/ ServerFaults
  /\ UNCHANGED <<op, task, ret, code, received>>

(* checkAdd: an incomplete task is refused before the scheduler sees it.   *)
CheckAdd ==
  /\ server = "check"
  /\ ServerGoto("lock") \/ ServerGoto("reply")
  /\ UNCHANGED <<poolVars, op, task, ret, code, received>>

(* unique_lock lock(m_executorMap_mutex): a member of the scheduler.       *)
ServerLocks ==
  /\ server = "lock"
  /\ \/ Acquire("server") /\ ServerGoto("locked")
     \/ scheduler = "deleted" /\ ServerFaults
  /\ UNCHANGED <<op, task, ret, code, received>>

(* The body of the method that the handler calls.                          *)
ServerCalls ==
  /\ server = "locked"
  /\ op = "add" => ~Destructed
  /\ \/ /\ ret' \in BOOLEAN
        /\ \/ op = "add" /\ (AddRefused(task, ret') \/ AddLaunched(task, ret'))
           \/ op = "pause" /\ PauseTask(task, ret')
           \/ op = "start" /\ StartTask(task, ret')
           \/ op = "remove" /\ RemoveTask(task, ret')
           \/ op = "get_state" /\ GetTaskState(task, ret')
        /\ ServerGoto("unlock")
     \/ /\ op = "add" /\ AddDeletes(task)
        /\ ServerGoto("erase")
        /\ UNCHANGED ret
  /\ UNCHANGED <<op, task, code, received>>

(* The executor's start(), pause() and destructor may end the process      *)
(* (module TaskExecutor), and so may the accesses to a scheduler that has  *)
(* been destroyed; addTask needs its m_config.                             *)
CallFaults ==
  /\ server = "locked"
  /\ \/ op = "add" /\ task \notin Tasks
     \/ op \in {"pause", "start", "remove"} /\ task \in Tasks
     \/ scheduler = "deleted"
  /\ ServerFaults
  /\ UNCHANGED <<op, task, ret, code, received>>

ServerErases ==
  /\ server = "erase"
  /\ \/ ret' \in BOOLEAN /\ AddErases(task, ret') /\ ServerGoto("unlock")
     \/ ServerFaults /\ UNCHANGED ret
  /\ UNCHANGED <<op, task, code, received>>

(* Variant: a request that failed is tried again.                          *)
ServerUnlocks_Retries ==
  /\ server = "unlock"
  /\ Release
  /\ ServerGoto(IF ret THEN "reply" ELSE "lock")
  /\ UNCHANGED <<op, task, ret, code, received>>

(* Variant: the lock is not given back when the method returns.            *)
ServerUnlocks_Not ==
  /\ server = "unlock"
  /\ ServerGoto("reply")
  /\ UNCHANGED <<poolVars, op, task, ret, code, received>>

(* The method returns.                                                     *)
ServerUnlocks ==
  /\ server = "unlock"
  /\ Release
  /\ ServerGoto("reply")
  /\ UNCHANGED <<op, task, ret, code, received>>

(* Variant: the scheduler's own result_code reaches the client.            *)
Reply_Raw ==
  /\ server = "reply"
  /\ code' = IF ret THEN 0 ELSE 5
  /\ ServerGoto("dispatch")
  /\ UNCHANGED <<poolVars, op, task, ret, received>>

(* The handlers replace result_code by 0 or 2.                             *)
Reply ==
  /\ server = "reply"
  /\ code' = IF ret THEN 0 ELSE 2
  /\ ServerGoto("dispatch")
  /\ UNCHANGED <<poolVars, op, task, ret, received>>

ServerStep ==
  \/ ServerBinds \/ ServerCloses
  \/ Parse \/ CheckAdd \/ ServerLocks \/ ServerCalls \/ CallFaults
  \/ ServerErases \/ ServerUnlocks \/ Reply

---------------------------------------------------------------------------
Unserved == UNCHANGED <<main, server, op, task, ret, code, received>>

DeleterStep ==
  /\ DeleterWaits \/ DeleterWakesSpuriously \/ DeleterReturns
  /\ Unserved

WorkerStep(i) == (WorkerEnds(i) \/ WorkerEnded(i)) /\ Unserved

(* The process is gone.                                                    *)
Ended == process # "up" /\ UNCHANGED vars

Next ==
  \/ /\ process = "up"
     /\ \/ MainStep
        \/ ServerStep
        \/ \E r \in Route, i \in Id : Receive(r, i)
        \/ DeleterStep
        \/ \E i \in Id : WorkerStep(i)
  \/ Ended

Spec == Init /\ [][Next]_vars

(* The operating system runs every thread that can run; the loop of the    *)
(* main thread looks at m_state every second; what a method waits for      *)
(* while it holds the mutex ends (PauseTerminates of TaskExecutor).        *)
(* Requests, keys, spurious wake-ups and the end of a stream need not      *)
(* happen.                                                                 *)
MainMoves == process = "up" /\ MainRuns
ServerMoves == process = "up" /\ ServerStep
DeleterMoves == process = "up" /\ (DeleterWaits \/ DeleterReturns) /\ Unserved

Fairness == WF_vars(MainMoves) /\ WF_vars(ServerMoves) /\ WF_vars(DeleterMoves)

FairSpec == Spec /\ Fairness

---------------------------------------------------------------------------
(* Properties.                                                             *)

(* m_executorMap never holds more tasks than control_executor_maxNum, if   *)
(* that is not negative: adds, failed adds whose entry is still there,     *)
(* removals and the destructor may come in any order.                      *)
MapBound == MaxNum >= 0 => Cardinality(Tasks) <= MaxNum

(* While ~TaskScheduler deletes the executors no handler is inside a       *)
(* method of the scheduler: none can be given an executor that is being    *)
(* deleted, although the server thread is never joined.                    *)
DestroyerAlone == main = "destroy" => server \notin Locked

(* What a successful reply says is still so when it is sent, although the  *)
(* mutex has been given back and workers end on their own: an added or     *)
(* started task is in the pool, a paused one has not been revived, a       *)
(* removed one is gone.  Only the destructor makes it untrue.              *)
RepliesTrue ==
  server = "reply" /\ ret /\ main \notin {"destroy", "delete", "return"} =>
    /\ op \in {"add", "start", "get_state"} => task \in Tasks
    /\ op = "pause" => executor[task] = "off"
    /\ op = "remove" => task \notin Tasks

(* What clients can know of the pool and of the request being served.      *)
Visible == IF server = "erase" THEN Tasks \ {task} ELSE Tasks
Answer == IF server \in {"unlock", "reply"} /\ op # "help"
          THEN <<op, task, ret>> ELSE <<>>

Pool == {S \in SUBSET Id : MaxNum < 0 \/ Cardinality(S) <= MaxNum}

Registry == INSTANCE TaskRegistry WITH tasks <- Visible, answer <- Answer

(* The pool is a TaskRegistry for the clients: the entry of a task that    *)
(* fails to start is never seen, and each request has its one effect       *)
(* inside the method's lock.                                               *)
RegistrySpec == Registry!Spec

(* What a thread of the process may have to wait for: a key or the end of  *)
(* the server, the delete thread, the handler that is in a method of the   *)
(* scheduler; a request, the destructor; the notification.                 *)
MainHeldUp ==
  \/ main = "run" /\ m_state
  \/ main = "join" /\ deleter # "done"
  \/ main = "lock" /\ server \in Locked
ServerHeldUp ==
  \/ server \in {"none", "dispatch", "ended"}
  \/ server = "lock" /\ main = "destroy"
DeleterHeldUp == deleter \in {"none", "waiting", "done"}

(* And for nothing else: whatever the state of the pool and of the lock, a *)
(* thread that need not wait for one of these has a step to take.  Main    *)
(* and a handler in a method never wait for each other.                    *)
NobodyStuck ==
  process = "up" =>
    /\ MainHeldUp \/ ENABLED <<MainMoves>>_vars
    /\ ServerHeldUp \/ ENABLED <<ServerMoves>>_vars
    /\ DeleterHeldUp \/ ENABLED <<DeleterMoves>>_vars

(* ~TaskScheduler comes to the end of m_executorMap and gives the mutex    *)
(* back, or the process ends.                                              *)
DestructorEnds == (main = "destroy") ~> (main # "destroy" \/ process # "up")

(* A request that reaches its handler is answered, unless the process      *)
(* ends: no handler waits forever for the mutex that another operation,    *)
(* or the destructor, holds.                                               *)
RequestAnswered == (server = "parse") ~> (server = "reply" \/ process # "up")

(* When the server thread ends, for want of an address to listen on, the   *)
(* main thread leaves loop(), even if the server ends before loop begins.  *)
LoopNoticesServerEnd == (server = "ended") ~> (main \notin {"start", "loop", "run"})

(* If the delete thread already waits when the destructor notifies it, the *)
(* shutdown completes, whatever request is being handled.                  *)
ShutdownCompletesIfWaiting ==
  (main = "stop" /\ deleter = "waiting") ~> (process # "up")

---------------------------------------------------------------------------
(* What the source says and the code does not do.                          *)

(* scheduler.h:38 says the destructor stops the threads: a shutdown that   *)
(* has begun completes.                                                    *)
ShutdownCompletes == (main = "stop") ~> (process # "up")

(* server.cpp:130 says the scheduler's state is reset after the server     *)
(* thread has ended: the thread finds the scheduler alive until then.      *)
NoHandlerAfterDelete ==
  scheduler = "deleted" => server \notin {"bind", "lock", "closing"} \union Locked

(* server.cpp:182 reports to the client that adding a task has failed: a   *)
(* failed launch does not end the process instead.                         *)
AddFailureIsReported == ~(process = "crashed" /\ server = "erase")

===========================================================================
