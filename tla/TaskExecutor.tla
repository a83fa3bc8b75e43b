--------------------------- MODULE TaskExecutor ---------------------------
(***************************************************************************)
(* One TaskExecutor: the object that runs one task with three worker       *)
(* threads (pull, forward, push) and is driven by start(), pause() and its *)
(* destructor (Analyzer/src/executor.cpp).                                 *)
(*                                                                         *)
(* The threads of the model are the workers and the Caller, the one thread *)
(* that at a time calls the executor's methods from TaskScheduler while it *)
(* holds m_executorMap_mutex.  The workers do not take that mutex: they    *)
(* read m_state, and when they end they call executor->pause() themselves  *)
(* (stream.cpp:460, stream.cpp:909).                                       *)
(*                                                                         *)
(* A std::thread handle that is joined by its own thread, joined twice, or *)
(* destroyed while joinable raises in, or ends, the process: no exception  *)
(* handler is on any of those stacks, so all three are "alive becomes      *)
(* FALSE", after which no thread takes a step.                             *)
(***************************************************************************)
EXTENDS Naturals, Sequences, SequencesExt

CONSTANT MaxStarts    \* bound: how many times start() is called on the object

ASSUME MaxStartsAssumption == MaxStarts \in Nat

Gen == 1 .. MaxStarts
Kind == {"pull", "forward", "push"}

(* A worker is named by what it runs and by the start() call that made it. *)
Worker == Kind \X Gen
Caller == <<"caller", 0>>
Thread == Worker \union {Caller}

VARIABLES
  alive,         \* the server process has not been terminated
  freed,         \* the executor object has been destroyed
  m_state,       \* TaskExecutor::m_state
  m_threads,     \* TaskExecutor::m_threads, in push_back order
  m_pullStream,  \* the start() call that made the object pointed to, 0 if none yet
  m_pushStream,  \* likewise; 0 is the indeterminate pointer of the constructor
  joinable,      \* workers whose std::thread has been made and not joined
  pc,            \* where each thread is
  iter,          \* handles the first loop of a thread's pause() has still to join
  op,            \* the scheduler operation the Caller is in
  result         \* what the last completed operation reported

vars == <<alive, freed, m_state, m_threads, m_pullStream, m_pushStream,
          joinable, pc, iter, op, result>>

PausePC == {"pause", "stop", "iterate", "join"}
WorkerPC == {"none", "body", "done"} \union PausePC
StartPC == {"connect_pull", "spawn_pull", "record_pull", "spawn_forward",
            "record_forward", "new_push", "connect_push", "spawn_push",
            "record_push", "started", "launch_failed"}
CallerPC == {"idle", "destroy", "erase"} \union StartPC \union PausePC
Operation == {"none", "add", "start", "pause", "remove"}
Result == {"none", "started", "launch_failed", "paused", "pause_failed",
           "removed"}

TypeOK ==
  /\ alive \in BOOLEAN
  /\ freed \in BOOLEAN
  /\ m_state \in BOOLEAN
  /\ m_threads \in Seq(Worker)
  /\ m_pullStream \in 0 .. MaxStarts
  /\ m_pushStream \in 0 .. MaxStarts
  /\ joinable \in SUBSET Worker
  /\ pc \in [Thread -> WorkerPC \union CallerPC]
  /\ \A w \in Worker : pc[w] \in WorkerPC
  /\ pc[Caller] \in CallerPC
  /\ iter \in [Thread -> Seq(Worker)]
  /\ op \in Operation
  /\ result \in Result

(* The executor has just been constructed by TaskScheduler::addTask.       *)
Init ==
  /\ alive = TRUE
  /\ freed = FALSE
  /\ m_state = FALSE
  /\ m_threads = <<>>
  /\ m_pullStream = 0
  /\ m_pushStream = 0
  /\ joinable = {}
  /\ pc = [t \in Thread |-> IF t = Caller THEN "idle" ELSE "none"]
  /\ iter = [t \in Thread |-> <<>>]
  /\ op = "none"
  /\ result = "none"

Goto(t, label) == pc' = [pc EXCEPT ![t] = label]

(* std::terminate, or a fault, in any thread: the whole process is gone.   *)
Terminate ==
  /\ alive' = FALSE
  /\ UNCHANGED <<freed, m_state, m_threads, m_pullStream, m_pushStream,
                 joinable, pc, iter, op, result>>

---------------------------------------------------------------------------
(* TaskExecutor::start, called by addTask on the new object and by         *)
(* startTask on one that is in the map.                                    *)

(* m_state = true; m_pullStream = new PullStream(...).                     *)
StartCall(o) ==
  /\ pc[Caller] = "idle" /\ ~freed
  /\ m_pullStream < MaxStarts
  /\ o = IF m_pullStream = 0 THEN "add" ELSE "start"
  /\ m_state' = TRUE
  /\ m_pullStream' = m_pullStream + 1
  /\ op' = o
  /\ result' = "none"
  /\ Goto(Caller, "connect_pull")
  /\ UNCHANGED <<alive, freed, m_threads, m_pushStream, joinable, iter>>

(* A connect() of the Caller's own stream object succeeds or fails.        *)
Connect(at, next) ==
  /\ pc[Caller] = at
  /\ \/ Goto(Caller, next)
     \/ Goto(Caller, "launch_failed")
  /\ UNCHANGED <<alive, freed, m_state, m_threads, m_pullStream, m_pushStream,
                 joinable, iter, op, result>>

(* th = new std::thread(...): the worker runs from here on.                *)
Spawn(k, at, next) ==
  LET w == <<k, m_pullStream>> IN
  /\ pc[Caller] = at
  /\ pc' = [pc EXCEPT ![Caller] = next, ![w] = "body"]
  /\ joinable' = joinable \union {w}
  /\ UNCHANGED <<alive, freed, m_state, m_threads, m_pullStream, m_pushStream,
                 iter, op, result>>

(* Variant: the handle is not pushed back.                                 *)
Record_Dropped(k, at, next) ==
  /\ pc[Caller] = at
  /\ Goto(Caller, next)
  /\ UNCHANGED <<alive, freed, m_state, m_threads, m_pullStream, m_pushStream,
                 joinable, iter, op, result>>

(* m_threads.push_back(th).  A worker that is in the loops of pause()      *)
(* iterates over the same vector without a lock; that race either goes     *)
(* well or faults.                                                         *)
Record(k, at, next) ==
  /\ pc[Caller] = at
  /\ \/ /\ m_threads' = Append(m_threads, <<k, m_pullStream>>)
        /\ Goto(Caller, next)
        /\ UNCHANGED <<alive, freed, m_state, m_pullStream, m_pushStream,
                       joinable, iter, op, result>>
     \/ /\ \E w \in Worker : pc[w] = "join"
        /\ Terminate

(* m_pushStream = new PushStream(...).                                     *)
NewPushStream ==
  /\ pc[Caller] = "new_push"
  /\ m_pushStream' = m_pullStream
  /\ Goto(Caller, "connect_push")
  /\ UNCHANGED <<alive, freed, m_state, m_threads, m_pullStream, joinable,
                 iter, op, result>>

(* Variant: the scheduler does not ask getState().                         *)
StartReturned_Unasked ==
  /\ pc[Caller] = "started"
  /\ Goto(Caller, "idle") /\ op' = "none" /\ result' = "started"
  /\ UNCHANGED <<alive, freed, m_state, m_threads, m_pullStream, m_pushStream,
                 joinable, iter>>

(* start() returned true; the scheduler also asks getState().              *)
StartReturned ==
  /\ pc[Caller] = "started"
  /\ IF m_state
     THEN Goto(Caller, "idle") /\ op' = "none" /\ result' = "started"
     ELSE Goto(Caller, "launch_failed") /\ UNCHANGED <<op, result>>
  /\ UNCHANGED <<alive, freed, m_state, m_threads, m_pullStream, m_pushStream,
                 joinable, iter>>

(* Variant: addTask, too, only reports the error.                          *)
LaunchFailed_Kept ==
  /\ pc[Caller] = "launch_failed"
  /\ Goto(Caller, "idle") /\ op' = "none" /\ result' = "launch_failed"
  /\ UNCHANGED <<alive, freed, m_state, m_threads, m_pullStream, m_pushStream,
                 joinable, iter>>

(* addTask deletes the executor it made; startTask only reports the error. *)
LaunchFailed ==
  /\ pc[Caller] = "launch_failed"
  /\ IF op = "add"
     THEN Goto(Caller, "pause") /\ UNCHANGED <<op, result>>
     ELSE Goto(Caller, "idle") /\ op' = "none" /\ result' = "launch_failed"
  /\ UNCHANGED <<alive, freed, m_state, m_threads, m_pullStream, m_pushStream,
                 joinable, iter>>

---------------------------------------------------------------------------
(* pauseTask and removeTask: both begin with TaskExecutor::pause, the      *)
(* second from the destructor.                                             *)
PauseCall(o) ==
  /\ pc[Caller] = "idle" /\ ~freed
  /\ m_pullStream > 0
  /\ op' = o
  /\ result' = "none"
  /\ Goto(Caller, "pause")
  /\ UNCHANGED <<alive, freed, m_state, m_threads, m_pullStream, m_pushStream,
                 joinable, iter>>

(* Variant: every pause() returns as a worker's does.                      *)
PauseReturn_Worker(t) ==
  /\ Goto(t, "done")
  /\ UNCHANGED <<op, result>>

(* pause() returns true: to a worker's last line, to pauseTask, which asks *)
(* getState(), or to the destructor.                                       *)
PauseReturn(t) ==
  IF t = Caller /\ op = "pause"
  THEN /\ Goto(t, "idle")
       /\ op' = "none"
       /\ result' = IF m_state THEN "pause_failed" ELSE "paused"
  ELSE /\ Goto(t, IF t = Caller THEN "destroy" ELSE "done")
       /\ UNCHANGED <<op, result>>

(* if (m_state): the test and the store are two separate atomic accesses.  *)
PauseTest(t) ==
  /\ pc[t] = "pause"
  /\ IF m_state
     THEN Goto(t, "stop") /\ UNCHANGED <<op, result>>
     ELSE PauseReturn(t)
  /\ UNCHANGED <<alive, freed, m_state, m_threads, m_pullStream, m_pushStream,
                 joinable, iter>>

(* Variant: m_state is not cleared before the joins.                       *)
PauseStop_Late(t) ==
  /\ pc[t] = "stop"
  /\ Goto(t, "iterate")
  /\ UNCHANGED <<alive, freed, m_state, m_threads, m_pullStream, m_pushStream,
                 joinable, iter, op, result>>

PauseStop(t) ==
  /\ pc[t] = "stop"
  /\ m_state' = FALSE
  /\ Goto(t, "iterate")
  /\ UNCHANGED <<alive, freed, m_threads, m_pullStream, m_pushStream,
                 joinable, iter, op, result>>

(* The range-for fixes its begin and end iterators here.                   *)
PauseIterate(t) ==
  /\ pc[t] = "iterate"
  /\ iter' = [iter EXCEPT ![t] = m_threads]
  /\ Goto(t, "join")
  /\ UNCHANGED <<alive, freed, m_state, m_threads, m_pullStream, m_pushStream,
                 joinable, op, result>>

(* Variant: th->detach() in place of th->join().                           *)
JoinNext_Detach(t) ==
  /\ pc[t] = "join" /\ iter[t] # <<>>
  /\ joinable' = joinable \ {Head(iter[t])}
  /\ iter' = [iter EXCEPT ![t] = Tail(@)]
  /\ UNCHANGED <<alive, freed, m_state, m_threads, m_pullStream,
                 m_pushStream, pc, op, result>>

(* Variant: after each join the loop begins again.                         *)
JoinNext_Restarts(t) ==
  LET w == Head(iter[t]) IN
  /\ pc[t] = "join" /\ iter[t] # <<>>
  /\ \/ /\ w = t \/ w \notin joinable
        /\ Terminate
     \/ /\ w # t /\ w \in joinable /\ pc[w] = "done"
        /\ joinable' = joinable \ {w}
        /\ iter' = [iter EXCEPT ![t] = m_threads]
        /\ UNCHANGED <<alive, freed, m_state, m_threads, m_pullStream,
                       m_pushStream, pc, op, result>>

(* th->join() on the next handle: waits for the worker to finish, raises   *)
(* when the handle is the calling thread's own or is no longer joinable.   *)
JoinNext(t) ==
  LET w == Head(iter[t]) IN
  /\ pc[t] = "join" /\ iter[t] # <<>>
  /\ \/ /\ w = t \/ w \notin joinable
        /\ Terminate
     \/ /\ w # t /\ w \in joinable /\ pc[w] = "done"
        /\ joinable' = joinable \ {w}
        /\ iter' = [iter EXCEPT ![t] = Tail(@)]
        /\ UNCHANGED <<alive, freed, m_state, m_threads, m_pullStream,
                       m_pushStream, pc, op, result>>

(* The second loop deletes every handle of m_threads, then clears it.      *)
DeleteHandles(t) ==
  /\ pc[t] = "join" /\ iter[t] = <<>>
  /\ IF ToSet(m_threads) \intersect joinable # {}
     THEN Terminate
     ELSE /\ m_threads' = <<>>
          /\ PauseReturn(t)
          /\ UNCHANGED <<alive, freed, m_state, m_pullStream, m_pushStream,
                         joinable, iter>>

(* The rest of ~TaskExecutor: the remaining handles, then the objects.     *)
(* After a failed add m_pushStream may never have been assigned, and       *)
(* deleting it may fault.                                                  *)
Destroy ==
  /\ pc[Caller] = "destroy"
  /\ \/ /\ ToSet(m_threads) \intersect joinable = {}
        /\ freed' = TRUE
        /\ m_threads' = <<>>
        /\ IF op = "add"
           THEN Goto(Caller, "erase") /\ UNCHANGED <<op, result>>
           ELSE Goto(Caller, "idle") /\ op' = "none" /\ result' = "removed"
        /\ UNCHANGED <<alive, m_state, m_pullStream, m_pushStream, joinable,
                       iter>>
     \/ /\ \/ ToSet(m_threads) \intersect joinable # {}
           \/ m_pushStream = 0
        /\ Terminate

(* m_executorMap.erase(taskConfig->get_id()), although ~TaskExecutor has   *)
(* deleted taskConfig: its parameters are cleared, so the lookup of "id"   *)
(* gives a null pointer and the call faults, or the memory is intact       *)
(* enough for the call to return.                                          *)
EraseFailedAdd ==
  /\ pc[Caller] = "erase"
  /\ \/ /\ Goto(Caller, "idle") /\ op' = "none" /\ result' = "launch_failed"
        /\ UNCHANGED <<alive, freed, m_state, m_threads, m_pullStream,
                       m_pushStream, joinable, iter>>
     \/ Terminate

---------------------------------------------------------------------------
(* The worker threads.                                                     *)

(* while (executor->getState()) goes round: what it does with packets and  *)
(* frames changes nothing here.                                            *)
LoopIterate(w) ==
  /\ pc[w] = "body"
  /\ m_state
  /\ UNCHANGED vars

(* while (executor->getState()) ends.  The stream threads then disconnect  *)
(* and call executor->pause(); the forwarder only returns.                 *)
LoopExit(w) ==
  /\ pc[w] = "body"
  /\ ~m_state
  /\ Goto(w, IF w[1] = "forward" THEN "done" ELSE "pause")
  /\ UNCHANGED <<alive, freed, m_state, m_threads, m_pullStream, m_pushStream,
                 joinable, iter, op, result>>

(* Variant: the thread ends without executor->pause().                     *)
StreamEnd_NoPause(w) ==
  /\ pc[w] = "body"
  /\ w[1] # "forward"
  /\ Goto(w, "done")
  /\ UNCHANGED <<alive, freed, m_state, m_threads, m_pullStream, m_pushStream,
                 joinable, iter, op, result>>

(* goto end or break: the end of the input, a codec or a write error, a    *)
(* reconnect that fails.                                                   *)
StreamEnd(w) ==
  /\ pc[w] = "body"
  /\ w[1] # "forward"
  /\ Goto(w, "pause")
  /\ UNCHANGED <<alive, freed, m_state, m_threads, m_pullStream, m_pushStream,
                 joinable, iter, op, result>>

(* PushStream::start returns without pause() when av_packet_alloc fails.   *)
PushAllocFails(w) ==
  /\ pc[w] = "body"
  /\ w[1] = "push"
  /\ Goto(w, "done")
  /\ UNCHANGED <<alive, freed, m_state, m_threads, m_pullStream, m_pushStream,
                 joinable, iter, op, result>>

(* The forwarder of the first start() has a frame before start() has       *)
(* assigned m_pushStream: it calls pushFrame through an indeterminate      *)
(* pointer.                                                                *)
ForwardUnassigned(w) ==
  /\ pc[w] = "body"
  /\ w[1] = "forward"
  /\ m_pushStream = 0
  /\ Terminate

---------------------------------------------------------------------------
(* Nothing runs any more, or nothing refers to the object any more.        *)
Ended ==
  /\ ~alive \/ (freed /\ op = "none")
  /\ UNCHANGED vars

StartSteps ==
  \/ Connect("connect_pull", "spawn_pull")
  \/ Spawn("pull", "spawn_pull", "record_pull")
  \/ Record("pull", "record_pull", "spawn_forward")
  \/ Spawn("forward", "spawn_forward", "record_forward")
  \/ Record("forward", "record_forward", "new_push")
  \/ NewPushStream
  \/ Connect("connect_push", "spawn_push")
  \/ Spawn("push", "spawn_push", "record_push")
  \/ Record("push", "record_push", "started")
  \/ StartReturned
  \/ LaunchFailed

PauseSteps(t) ==
  \/ PauseTest(t)
  \/ PauseStop(t)
  \/ PauseIterate(t)
  \/ JoinNext(t)
  \/ DeleteHandles(t)

Request ==
  \/ \E o \in {"add", "start"} : StartCall(o)
  \/ \E o \in {"pause", "remove"} : PauseCall(o)

Next ==
  \/ /\ alive
     /\ \/ Request
        \/ StartSteps
        \/ Destroy
        \/ EraseFailedAdd
        \/ \E t \in Thread : PauseSteps(t)
        \/ \E w \in Worker : \/ LoopIterate(w)
                             \/ LoopExit(w)
                             \/ StreamEnd(w)
                             \/ PushAllocFails(w)
                             \/ ForwardUnassigned(w)
  \/ Ended

Spec == Init /\ [][Next]_vars

(* The operating system runs every thread that can run, a blocking library *)
(* call returns, and a worker whose loop test fails leaves its loop.       *)
(* Requests and stream errors need not happen.                             *)
CallerAdvances == alive /\ (StartSteps \/ Destroy \/ EraseFailedAdd \/ PauseSteps(Caller))
WorkerAdvances(w) == alive /\ (LoopExit(w) \/ PauseSteps(w))

CallerRuns == WF_vars(CallerAdvances)
WorkerRuns(w) == WF_vars(WorkerAdvances(w))
Fairness == CallerRuns /\ \A w \in Worker : WorkerRuns(w)

FairSpec == Spec /\ Fairness

---------------------------------------------------------------------------
(* Properties.                                                             *)

Unfinished == {w \in Worker : pc[w] \notin {"none", "done"}}

(* The worker start() has created and not yet put into m_threads.          *)
Unrecorded ==
  {w \in Worker : /\ w[2] = m_pullStream
                  /\ \/ w[1] = "pull" /\ pc[Caller] = "record_pull"
                     \/ w[1] = "forward" /\ pc[Caller] = "record_forward"
                     \/ w[1] = "push" /\ pc[Caller] = "record_push"}

(* No worker is lost: every worker that has not been joined is in          *)
(* m_threads, where pause() and the destructor find it, except the one     *)
(* start() is just recording, and a worker that still runs is unjoined.    *)
(* start(), pause() by any thread, and the destructor all edit m_threads.  *)
HandlesRecorded ==
  /\ Unfinished \subseteq joinable
  /\ joinable \subseteq ToSet(m_threads) \union Unrecorded

(* getState() is true only if the pull and the forward worker of the       *)
(* latest start() have not finished: a task whose stream ended is never    *)
(* reported as running again by the thread that ended it.                  *)
StateTracksWorkers ==
  m_state => \A w \in Worker : w[2] = m_pullStream /\ pc[w] = "done"
                                  => w[1] = "push"

(* A pauseTask that itself stopped the task (it took the branch that       *)
(* joins) returns only when no worker of any start() runs any more.        *)
PauseQuiesces ==
  [][pc[Caller] = "join" /\ pc'[Caller] # "join" => Unfinished' = {}]_vars

(* The forwarding thread uses m_pushStream, which start() assigns only     *)
(* after launching it.  The pointer is indeterminate nowhere but inside    *)
(* the first start(): no forwarder meets it once addTask has returned.     *)
PushStreamAssigned ==
  m_pullStream > 0 /\ m_pushStream = 0 => op = "add" \/ freed

(* Thread t, at work inside or outside pause(), is not held up.            *)
CanStep(t) ==
  \/ pc[t] \in {"pause", "stop", "iterate"}
  \/ pc[t] = "join" /\ \/ iter[t] = <<>>
                       \/ Head(iter[t]) = t
                       \/ Head(iter[t]) \notin joinable
                       \/ pc[Head(iter[t])] = "done"
  \/ t # Caller /\ pc[t] = "body" /\ ~m_state

(* While the scheduler is in pause() some thread can always go on that the *)
(* system will run: the scheduler's, or a worker on its way to its end.    *)
PauseNeverStuck ==
  alive /\ pc[Caller] \in PausePC => \E t \in Thread : CanStep(t)

(* Meanwhile every step that is taken brings the thread that takes it      *)
(* nearer to its end and takes no other one back: a worker never returns   *)
(* to its loop, a loop over the handles never starts again.                *)
Stage == [none |-> 0, done |-> 0, join |-> 1, iterate |-> 2, stop |-> 3,
          pause |-> 4, body |-> 5]

Nearer(t) ==
  \/ Stage[pc'[t]] < Stage[pc[t]]
  \/ pc'[t] = pc[t] /\ Len(iter'[t]) < Len(iter[t])

PauseWindsDown ==
  [][alive' /\ pc[Caller] \in PausePC /\ pc'[Caller] \in PausePC
     => \E t \in Thread :
          /\ Nearer(t)
          /\ pc' = [pc EXCEPT ![t] = pc'[t]]
          /\ iter' = [iter EXCEPT ![t] = iter'[t]]]_vars

(* pause() waits for nobody forever: from any caller in the scheduler it   *)
(* returns, or the process ends.                                           *)
PauseTerminates ==
  (pc[Caller] \in PausePC) ~> (pc[Caller] \notin PausePC \/ ~alive)

(* The executor keeps the promise of TaskLifecycle: the workers that have  *)
(* not finished are its running ones, the unjoined std::threads the        *)
(* handles it has to give back, the end of ~TaskExecutor the release.      *)
Lifecycle == INSTANCE TaskLifecycle
               WITH running <- Unfinished, handles <- joinable

LifecycleSpec == Lifecycle!Spec

---------------------------------------------------------------------------
(* What comments of the source say and the code does not do.               *)

(* executor.cpp:132 says of the join in pause() that it waits for the      *)
(* sub-task threads to finish.  A worker whose stream ends calls pause()   *)
(* too (stream.cpp:460, stream.cpp:909): it must not wait for itself.      *)
NoSelfJoin ==
  \A w \in Worker : pc[w] = "join" /\ iter[w] # <<>> => Head(iter[w]) # w

===========================================================================
