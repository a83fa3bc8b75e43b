----------------------- MODULE PooledExecutorProofs -----------------------
(***************************************************************************)
(* TaskScheduler's view of an executor is right, for any number of start() *)
(* calls: the proof of PooledExecutor!ImplementsPool, on top of the        *)
(* invariant of TaskExecutorProofs.                                        *)
(***************************************************************************)
EXTENDS PooledExecutor, TaskExecutorProofs

Calm == SelfStopping = {}

(* Which call the Caller is in, and what that call has done so far.        *)
CallInPlace ==
  /\ pc[Caller] = "idle" <=> op = "none"
  /\ pc[Caller] \in StartPC => op \in {"add", "start"}
  /\ pc[Caller] \in PausePC => op \in {"add", "pause", "remove"}
  /\ pc[Caller] = "destroy" => op \in {"add", "remove"}
  /\ pc[Caller] = "erase" => op = "add" /\ freed
  /\ pc[Caller] \in {"iterate", "join", "destroy"} => ~m_state

(* Only a failed add leaves m_pushStream unassigned.                       *)
PushAssigned ==
  /\ m_pushStream = 0 => m_pullStream = 0 \/ op = "add" \/ freed
  /\ pc[Caller] \in {"connect_push", "spawn_push", "record_push", "started"}
     => m_pushStream # 0

(* A thread that has passed the test of pause() and finds m_state cleared  *)
(* by another knows that one at work: a worker, or the scheduler's pause() *)
(* that will join it.                                                      *)
StopHasCause ==
  \A t \in Thread :
    pc[t] = "stop" /\ ~m_state
    => \/ op = "add" \/ ~Calm
       \/ t # Caller /\ pc[Caller] \in {"iterate", "join"}

(* A worker that ends during addTask makes it fail.                        *)
AddNotices == op = "add" /\ ~Calm => ~m_state

(* No handle is in a list before start() has put it there, nor twice.      *)
RecordedOnce ==
  /\ \A w \in Unlaunched \union Unrecorded :
       w \notin ToSet(m_threads) /\ \A t \in Thread : w \notin ToSet(iter[t])
  /\ IsInjective(m_threads)
  /\ pc[Caller] = "join" => IsInjective(iter[Caller])

(* Unless a worker joins, every handle the Caller will meet is joinable.   *)
HandlesGood ==
  /\ Unrecorded \subseteq joinable
  /\ Calm => IF pc[Caller] = "join"
             THEN ToSet(iter[Caller]) \subseteq joinable
             ELSE ToSet(m_threads) \subseteq joinable

(* What this module adds to the invariant of TaskExecutorProofs.           *)
Order ==
  /\ CallInPlace
  /\ PushAssigned
  /\ StopHasCause
  /\ AddNotices
  /\ RecordedOnce
  /\ HandlesGood

(* The inductive invariant.                                                *)
PInv == IInv /\ Order

(* What ImplementsPool asks of a step.                                     *)
Seen == [PoolStep]_(Pool!poolVars) /\ Reported

---------------------------------------------------------------------------
(* Steps of the pool, from what they do to the view.                       *)

(* No call returns and the pool sees nothing.                              *)
LEMMA NothingIsSeen ==
  ASSUME UNCHANGED <<alive, View, Ending>>,
         op = "none" \/ op' # "none"
  PROVE  Seen
  BY DEF Seen, Reported, Pool!poolVars

(* The pool sees its entry for the task change.                            *)
LEMMA EntryBecomes ==
  ASSUME UNCHANGED <<alive, Ending>>, NEW s, View' = s
  PROVE  Pool!Becomes(Task, s)
  BY DEF Pool!Becomes

(* The task is in the pool unless its entry is "absent".                   *)
LEMMA TaskIsThere == Task \in Pool!Tasks <=> View # "absent"
  BY DEF Pool!Tasks

(* The pool has no limit.                                                  *)
LEMMA NoLimit == ~Pool!AtLimit
  BY DEF Pool!AtLimit

(* A worker stops the task.                                                *)
LEMMA StopIsSeen ==
  ASSUME UNCHANGED alive, View = "running", View' = "off", Ending' = {Task}
  PROVE  Pool!WorkerEnds(Task)
<1>1. Ending' = Ending \union {Task}
  BY DEF Ending
<1> QED BY <1>1 DEF Pool!WorkerEnds

(* The last worker to stop by itself has gone.                             *)
LEMMA EndIsSeen ==
  ASSUME UNCHANGED <<alive, View>>, Ending = {Task}, Ending' = {}
  PROVE  Pool!WorkerEnded(Task)
  BY DEF Pool!WorkerEnded

(* The end of the process changes nothing else.                            *)
LEMMA CrashIsSeen ==
  ASSUME alive, Terminate
  PROVE  Pool!Crash /\ Order' = Order /\ View' = View
<1>1. UNCHANGED <<View, Ending>>
  BY DEF Terminate, View, Ending, SelfStopping
<1>2. Order' = Order
  BY DEF Terminate, Order, CallInPlace, PushAssigned, StopHasCause, AddNotices,
         RecordedOnce, HandlesGood, Calm, SelfStopping, Unlaunched, Unrecorded
<1> QED BY <1>1, <1>2 DEF Terminate, Pool!Crash

(* The pool is prepared for the process to end in addTask, in removeTask   *)
(* of a stopped task, and when a worker joins.                             *)
LEMMA TerminateIsSeen ==
  ASSUME Order, alive, Terminate,
         op = "add" \/ Ending # {} \/ (op = "remove" /\ View = "off")
  PROVE  Order' /\ Seen
<1>1. Pool!Crash /\ Order'
  BY CrashIsSeen
<1>2. Ending # {} => Pool!WorkerEnded(Task)
  BY <1>1 DEF Pool!WorkerEnded, Ending
<1>3. PoolStep
  BY <1>1, <1>2 DEF PoolStep
<1>4. Reported
  BY DEF Reported, Terminate
<1> QED BY <1>1, <1>3, <1>4 DEF Seen

---------------------------------------------------------------------------
(* Facts about the workers.                                                *)

(* A move of the Caller is not one of a worker.                            *)
LEMMA CallerMoves ==
  ASSUME TypeOK, NEW l \in CallerPC, Goto(Caller, l)
  PROVE  /\ pc'[Caller] = l /\ \A w \in Worker : pc'[w] = pc[w]
         /\ SelfStopping' = SelfStopping
<1>1. pc'[Caller] = l /\ \A w \in Worker : pc'[w] = pc[w]
  BY GotoCaller
<1> QED BY <1>1 DEF SelfStopping

(* A worker that has got anywhere belongs to a start() that was called.    *)
LEMMA WorkerIsOfAStart ==
  ASSUME IInv, NEW w \in Worker, pc[w] \notin {"none", "done"}
  PROVE  m_pullStream > 0 /\ w \in joinable /\ ~freed /\ m_pullStream \in Nat
<1>1. w \notin Unlaunched /\ w \in joinable /\ ~freed
  BY DEF IInv, UnlaunchedIsFresh, HandlesRecorded, Unfinished, FreedIsJoined
<1>2. w[2] <= m_pullStream /\ w[2] > 0 /\ m_pullStream \in Nat /\ w[2] \in Nat
  BY <1>1, MaxStartsAssumption DEF IInv, TypeOK, Unlaunched, Worker, Gen
<1> QED BY <1>1, <1>2

(* Nothing left to join means that no worker runs.                         *)
LEMMA JoinedIsCalm ==
  ASSUME IInv, joinable = {}
  PROVE  Calm /\ \A w \in Worker : pc[w] \in {"none", "done"}
  BY DEF IInv, HandlesRecorded, Unfinished, Calm, SelfStopping

(* The lists of handles are as good as before if no list changes.          *)
LEMMA ListsKept ==
  ASSUME Order, UNCHANGED <<m_threads, joinable, iter>>, Calm' => Calm,
         Unlaunched' \subseteq Unlaunched, Unrecorded' \subseteq Unrecorded,
         pc'[Caller] = "join" <=> pc[Caller] = "join"
  PROVE  RecordedOnce' /\ HandlesGood'
<1>1. RecordedOnce'
  BY DEF Order, RecordedOnce
<1>2. HandlesGood'
  BY DEF Order, HandlesGood
<1> QED BY <1>1, <1>2

(* A thread in pause() has a cause for its stop as long as it had one.     *)
LEMMA CauseKept ==
  ASSUME Order, Calm' => Calm, op = "add" => op' = "add",
         \A t \in Thread : pc'[t] = "stop" => pc[t] = "stop" \/ m_state',
         m_state' \/ ~m_state,
         pc[Caller] \in {"iterate", "join"} => pc'[Caller] \in {"iterate", "join"}
  PROVE  StopHasCause'
<1>1. ASSUME NEW t \in Thread, pc'[t] = "stop", ~m_state' PROVE
        \/ op' = "add" \/ ~Calm'
        \/ t # Caller /\ pc'[Caller] \in {"iterate", "join"}
  BY <1>1 DEF Order, StopHasCause
<1> QED BY <1>1 DEF StopHasCause

---------------------------------------------------------------------------
(* The calls of start().                                                   *)

LEMMA StartCallKeeps ==
  ASSUME PInv, NEW o \in {"add", "start"}, StartCall(o)
  PROVE  Order' /\ Seen
<1> USE CallerIsNoWorker
<1>1. TypeOK /\ IInv /\ Order /\ op = "none"
  BY DEF PInv, IInv, Order, CallInPlace, StartCall
<1>2. /\ pc[Caller] = "idle" /\ pc'[Caller] = "connect_pull"
      /\ \A w \in Worker : pc'[w] = pc[w]
      /\ SelfStopping' = SelfStopping
  BY <1>1, CallerMoves DEF StartCall, CallerPC, StartPC
<1>3. /\ ~freed /\ m_state' /\ op' = o
      /\ m_pullStream' = m_pullStream + 1 /\ m_pullStream \in Nat
      /\ o = IF m_pullStream = 0 THEN "add" ELSE "start"
      /\ UNCHANGED <<alive, freed, m_threads, m_pushStream, joinable, iter>>
  BY <1>1, MaxStartsAssumption DEF StartCall, TypeOK
<1>4. m_pullStream = 0 => Calm
  <2>1. ASSUME m_pullStream = 0, NEW w \in Worker PROVE pc[w] = "none"
    BY <1>1, <2>1, MaxStartsAssumption
       DEF IInv, UnlaunchedIsFresh, Unlaunched, Worker, Gen
  <2> QED BY <2>1 DEF Calm, SelfStopping
<1>5. Unlaunched' \subseteq Unlaunched /\ Unrecorded' = {}
  BY <1>2, <1>3, MaxStartsAssumption DEF Unlaunched, Unrecorded, Worker, Gen
<1>6. Calm' = Calm
  BY <1>2 DEF Calm
<1>7. CallInPlace' /\ PushAssigned' /\ StopHasCause' /\ AddNotices'
  <2>1. CallInPlace'
    BY <1>2, <1>3 DEF CallInPlace, StartPC, PausePC
  <2>2. PushAssigned'
    BY <1>1, <1>2, <1>3 DEF Order, PushAssigned
  <2> QED BY <1>3, <1>4, <1>6, <2>1, <2>2 DEF StopHasCause, AddNotices
<1>8. RecordedOnce' /\ HandlesGood'
  BY <1>1, <1>2, <1>3, <1>5, <1>6, ListsKept
<1>9. Seen
  <2>1. CASE m_pullStream = 0
    <3>1. UNCHANGED <<View, Ending>>
      BY <1>1, <1>2, <1>3, <1>4, <2>1 DEF View, Ending, Calm
    <3> QED BY <1>1, <1>3, <3>1, NothingIsSeen
  <2>2. CASE m_pullStream # 0
    <3>1. View # "absent" /\ View' = "running" /\ Ending' = Ending
      BY <1>1, <1>2, <1>3, <2>2 DEF View, Ending
    <3>2. Pool!StartTask(Task, TRUE)
      BY <1>3, <3>1, EntryBecomes, TaskIsThere DEF Pool!StartTask
    <3> QED BY <1>1, <1>3, <2>2, <3>2 DEF Seen, PoolStep, Reported
  <2> QED BY <2>1, <2>2
<1> QED BY <1>7, <1>8, <1>9 DEF Order

(* A step of start() that moves the Caller and no more.                    *)
LEMMA StartMoves ==
  ASSUME PInv, pc[Caller] \in StartPC, NEW l \in StartPC, Goto(Caller, l),
         l \in {"spawn_push", "record_push", "started"} => m_pushStream # 0,
         l = "connect_push" => m_pushStream' # 0,
         m_pushStream = 0 \/ m_pushStream' # 0,
         Unlaunched' \subseteq Unlaunched, Unrecorded' \subseteq Unrecorded,
         UNCHANGED <<alive, freed, m_state, m_threads, m_pullStream, joinable,
                     iter, op>>
  PROVE  Order' /\ Seen
<1> USE CallerIsNoWorker
<1>1. TypeOK /\ Order /\ IInv /\ l \in CallerPC
  BY DEF PInv, IInv, CallerPC
<1>2. /\ pc'[Caller] = l /\ \A w \in Worker : pc'[w] = pc[w]
      /\ SelfStopping' = SelfStopping
  BY <1>1, CallerMoves
<1>3. {pc[Caller], l} \intersect {"idle", "stop", "iterate", "join", "destroy", "erase", "pause"} = {}
  BY DEF StartPC
<1>4. op \in {"add", "start"} /\ ~freed
  BY <1>1, <1>3 DEF Order, CallInPlace, IInv, FreedIsJoined
<1>5. CallInPlace' /\ PushAssigned'
  <2>1. CallInPlace'
    BY <1>2, <1>3, <1>4 DEF CallInPlace, PausePC
  <2>2. PushAssigned'
    BY <1>1, <1>2 DEF Order, PushAssigned
  <2> QED BY <2>1, <2>2
<1>6. Calm' = Calm
  BY <1>2 DEF Calm
<1>7. StopHasCause' /\ AddNotices'
  <2>1. \A t \in Thread : pc'[t] = "stop" => pc[t] = "stop"
    BY <1>2, <1>3 DEF Thread
  <2>2. StopHasCause'
    BY <1>1, <1>3, <1>6, <2>1, CauseKept
  <2> QED BY <1>1, <1>6, <2>2 DEF Order, AddNotices
<1>8. RecordedOnce' /\ HandlesGood'
  BY <1>1, <1>2, <1>3, <1>6, ListsKept
<1>9. UNCHANGED <<View, Ending>>
  BY <1>2, <1>3, <1>4 DEF View, Ending
<1>10. Seen
  BY <1>4, <1>9, NothingIsSeen
<1> QED BY <1>5, <1>7, <1>8, <1>10 DEF Order

(* The pool sees neither a connect() nor the new push stream.              *)
LEMMA ConnectKeeps ==
  ASSUME PInv, \/ Connect("connect_pull", "spawn_pull")
               \/ Connect("connect_push", "spawn_push")
               \/ NewPushStream
  PROVE  Order' /\ Seen
<1> USE CallerIsNoWorker
<1>1. TypeOK /\ Order /\ IInv /\ BusyMeansStarted
  BY DEF PInv, IInv
<1>2. PICK l \in {"spawn_pull", "spawn_push", "connect_push", "launch_failed"} :
        /\ Goto(Caller, l)
        /\ l = "spawn_pull" => pc[Caller] = "connect_pull"
        /\ l = "spawn_push" => pc[Caller] = "connect_push"
        /\ l = "connect_push" => NewPushStream
        /\ l # "connect_push" => m_pushStream' = m_pushStream
  BY DEF Connect, NewPushStream
<1>3. /\ pc[Caller] \in {"connect_pull", "connect_push", "new_push"}
      /\ UNCHANGED <<alive, freed, m_state, m_threads, m_pullStream, joinable,
                     iter, op>>
  BY DEF Connect, NewPushStream
<1>4. pc[Caller] \in StartPC /\ l \in StartPC /\ l \in CallerPC
  BY <1>3 DEF StartPC, CallerPC
<1>5. pc'[Caller] = l /\ \A w \in Worker : pc'[w] = pc[w]
  BY <1>1, <1>2, <1>4, CallerMoves
<1>6. Unlaunched' \subseteq Unlaunched /\ Unrecorded' = {}
  <2>1. l = "connect_push" => pc[Caller] = "new_push"
    BY <1>2 DEF NewPushStream
  <2> QED BY <1>2, <1>3, <1>5, <2>1 DEF Unlaunched, Unrecorded
<1>7. /\ l = "spawn_push" => m_pushStream # 0
      /\ NewPushStream => m_pushStream' # 0
  <2>1. m_pullStream > 0 /\ m_pullStream \in Nat
    BY <1>1, <1>3, MaxStartsAssumption DEF BusyMeansStarted, TypeOK
  <2>2. l = "spawn_push" => m_pushStream # 0
    BY <1>1, <1>2 DEF Order, PushAssigned
  <2> QED BY <2>1, <2>2 DEF NewPushStream
<1>8. m_pushStream = 0 \/ m_pushStream' # 0
  BY <1>2, <1>7
<1> QED BY <1>2, <1>3, <1>4, <1>6, <1>7, <1>8, StartMoves

(* Nor the launch of a thread.                                             *)
LEMMA SpawnKeeps ==
  ASSUME PInv, NEW k \in Kind, NEW at, NEW l \in CallerPC, Spawn(k, at, l),
         <<k, at, l>> \in {<<"pull", "spawn_pull", "record_pull">>,
                           <<"forward", "spawn_forward", "record_forward">>,
                           <<"push", "spawn_push", "record_push">>}
  PROVE  Order' /\ Seen
<1> USE CallerIsNoWorker
<1> DEFINE v == <<k, m_pullStream>>
<1>1. TypeOK /\ Order /\ IInv /\ BusyMeansStarted
  BY DEF PInv, IInv
<1>2. \/ k = "pull" /\ at = "spawn_pull" /\ l = "record_pull"
      \/ k = "forward" /\ at = "spawn_forward" /\ l = "record_forward"
      \/ k = "push" /\ at = "spawn_push" /\ l = "record_push"
  OBVIOUS
<1>3. /\ v \in Worker
      /\ \A w \in Worker : pc'[w] = IF w = v THEN "body" ELSE pc[w]
      /\ pc'[Caller] = l
  <2>1. at # "idle"
    BY <1>2
  <2> QED BY <1>1, <2>1, SpawnTypeOK
<1>4. /\ pc[Caller] = at /\ joinable' = joinable \union {v}
      /\ UNCHANGED <<alive, freed, m_state, m_threads, m_pullStream,
                     m_pushStream, iter, op, result>>
      /\ v[1] = k /\ v[2] = m_pullStream
  BY DEF Spawn
<1>5. v \in Unlaunched /\ Unrecorded = {} /\ Unlaunched' \subseteq Unlaunched
      /\ Unrecorded' \subseteq {v}
  <2>1. \A w \in Worker : w = <<w[1], w[2]>>
    BY DEF Worker
  <2>2. Unrecorded' \subseteq {v}
    BY <1>2, <1>3, <1>4, <2>1 DEF Unrecorded
  <2> HIDE DEF v
  <2>3. v \in Unlaunched /\ Unrecorded = {} /\ Unlaunched' \subseteq Unlaunched
    BY <1>2, <1>3, <1>4 DEF Unlaunched, Unrecorded
  <2> QED BY <2>2, <2>3
<1> HIDE DEF v
<1>6. pc[v] = "none"
  BY <1>1, <1>3, <1>5 DEF IInv, UnlaunchedIsFresh
<1>7. SelfStopping' = SelfStopping /\ Calm' = Calm
  <2>1. SelfStopping' = SelfStopping
    BY <1>3, <1>6 DEF SelfStopping
  <2> QED BY <2>1 DEF Calm
<1>8. at \in StartPC /\ l \in StartPC
  BY <1>2 DEF StartPC
<1>9. op \in {"add", "start"} /\ ~freed
  BY <1>1, <1>2, <1>4, <1>8 DEF Order, CallInPlace, IInv, FreedIsJoined
<1>10. CallInPlace' /\ PushAssigned' /\ AddNotices'
  <2>1. CallInPlace'
    BY <1>2, <1>3, <1>4, <1>9 DEF CallInPlace, PausePC
  <2>2. PushAssigned'
    BY <1>1, <1>2, <1>3, <1>4 DEF Order, PushAssigned
  <2> QED BY <1>1, <1>4, <1>7, <2>1, <2>2 DEF Order, AddNotices
<1>11. StopHasCause'
  <2>1. \A t \in Thread : pc'[t] = "stop" => pc[t] = "stop"
    BY <1>2, <1>3 DEF Thread
  <2> QED BY <1>1, <1>2, <1>4, <1>7, <2>1, CauseKept
<1>12. RecordedOnce'
  BY <1>1, <1>2, <1>3, <1>4, <1>5 DEF Order, RecordedOnce
<1>13. HandlesGood'
  BY <1>1, <1>2, <1>3, <1>4, <1>5, <1>7 DEF Order, HandlesGood
<1>14. UNCHANGED <<View, Ending>>
  BY <1>2, <1>3, <1>4, <1>7, <1>9 DEF View, Ending
<1>15. Seen
  BY <1>4, <1>9, <1>14, NothingIsSeen
<1> QED BY <1>10, <1>11, <1>12, <1>13, <1>15 DEF Order

(* Nor that its handle is recorded, unless a worker's joins meet it.       *)
LEMMA RecordKeeps ==
  ASSUME PInv, alive, NEW k \in Kind, NEW at, NEW l \in CallerPC, Record(k, at, l),
         <<k, at, l>> \in {<<"pull", "record_pull", "spawn_forward">>,
                           <<"forward", "record_forward", "new_push">>,
                           <<"push", "record_push", "started">>}
  PROVE  Order' /\ Seen
<1> USE CallerIsNoWorker
<1> DEFINE v == <<k, m_pullStream>>
<1>1. TypeOK /\ Order /\ IInv /\ BusyMeansStarted
  BY DEF PInv, IInv
<1>2. \/ k = "pull" /\ at = "record_pull" /\ l = "spawn_forward"
      \/ k = "forward" /\ at = "record_forward" /\ l = "new_push"
      \/ k = "push" /\ at = "record_push" /\ l = "started"
  OBVIOUS
<1>3. CASE Terminate
  <2>1. ~Calm
    <3>1. ~(alive' = alive)
      BY <1>3 DEF Terminate
    <3> QED BY <3>1 DEF Record, Calm, SelfStopping
  <2>2. op = "add" \/ Ending # {}
    BY <2>1 DEF Ending, Calm
  <2> QED BY <1>1, <1>3, <2>2, TerminateIsSeen
<1>4. CASE ~Terminate
  <2>1. /\ pc[Caller] = at /\ Goto(Caller, l)
        /\ m_threads' = Append(m_threads, v)
        /\ UNCHANGED <<alive, freed, m_state, m_pullStream, m_pushStream,
                       joinable, iter, op>>
    BY <1>4 DEF Record
  <2>2. /\ pc'[Caller] = l /\ \A w \in Worker : pc'[w] = pc[w]
        /\ SelfStopping' = SelfStopping
    BY <1>1, <2>1, CallerMoves
  <2>3. /\ v \in Worker /\ m_threads \in Seq(Worker)
    BY <1>1, <1>2, <2>1, MaxStartsAssumption
       DEF BusyMeansStarted, TypeOK, Worker, Gen
  <2>4. v \in Unrecorded /\ Unlaunched' \subseteq Unlaunched \ {v} /\ Unrecorded' = {}
    <3>1. v[1] = k /\ v[2] = m_pullStream
      OBVIOUS
    <3> HIDE DEF v
    <3>2. v \in Unrecorded /\ Unrecorded' = {}
      BY <1>2, <2>1, <2>2, <2>3, <3>1 DEF Unrecorded
    <3>3. Unlaunched' \subseteq Unlaunched
      BY <1>2, <2>1, <2>2 DEF Unlaunched
    <3>4. v \notin Unlaunched'
      <4>1. m_pullStream \in Nat
        BY <1>1, MaxStartsAssumption DEF TypeOK
      <4> QED BY <1>2, <2>1, <2>2, <3>1, <4>1 DEF Unlaunched
    <3> QED BY <3>2, <3>3, <3>4
  <2> HIDE DEF v
  <2>5. v \in joinable /\ v \notin ToSet(m_threads) /\ IsInjective(m_threads)
    BY <1>1, <2>4 DEF Order, HandlesGood, RecordedOnce
  <2>6. ToSet(m_threads') = ToSet(m_threads) \union {v} /\ IsInjective(m_threads')
    BY <2>1, <2>3, <2>5, ToSetOfAppend, InjectiveAppend
  <2>7. Calm' = Calm
    BY <2>2 DEF Calm
  <2>8. at \in StartPC /\ l \in StartPC
    BY <1>2 DEF StartPC
  <2>9. op \in {"add", "start"} /\ ~freed
    BY <1>1, <1>2, <2>1, <2>8 DEF Order, CallInPlace, IInv, FreedIsJoined
  <2>10. CallInPlace' /\ PushAssigned' /\ AddNotices'
    <3>1. CallInPlace'
      BY <1>2, <2>1, <2>2, <2>9 DEF CallInPlace, PausePC
    <3>2. PushAssigned'
      BY <1>1, <1>2, <2>1, <2>2 DEF Order, PushAssigned
    <3> QED BY <1>1, <2>1, <2>7, <3>1, <3>2 DEF Order, AddNotices
  <2>11. StopHasCause'
    <3>1. \A t \in Thread : pc'[t] = "stop" => pc[t] = "stop"
      BY <1>2, <2>2 DEF Thread
    <3> QED BY <1>1, <1>2, <2>1, <2>7, <3>1, CauseKept
  <2>12. RecordedOnce'
    BY <1>1, <1>2, <2>1, <2>2, <2>4, <2>6 DEF Order, RecordedOnce
  <2>13. HandlesGood'
    BY <1>1, <1>2, <2>1, <2>2, <2>4, <2>5, <2>6, <2>7 DEF Order, HandlesGood
  <2>14. UNCHANGED <<View, Ending>>
    BY <1>2, <2>1, <2>2, <2>9 DEF View, Ending
  <2>15. Seen
    BY <2>1, <2>9, <2>14, NothingIsSeen
  <2> QED BY <2>10, <2>11, <2>12, <2>13, <2>15 DEF Order
<1> QED BY <1>3, <1>4

(* A move of the Caller at the edge of a call: what it keeps, whatever the *)
(* pool sees.                                                              *)
LEMMA EdgeKeeps ==
  ASSUME PInv, NEW l \in {"idle", "launch_failed", "pause", "destroy"},
         Goto(Caller, l), Unrecorded = {},
         pc[Caller] \notin {"spawn_pull", "spawn_forward", "spawn_push",
                           "iterate", "join"},
         pc[Caller] \in {"connect_pull", "new_push", "connect_push"}
           => l = "launch_failed",
         op = "add" => op' = "add" \/ m_state \/ freed,
         op # "add" => op' # "add",
         m_pushStream = 0 => op' = "add" \/ freed,
         UNCHANGED <<alive, freed, m_state, m_threads, m_pullStream, m_pushStream,
                     joinable, iter>>
  PROVE  /\ PushAssigned' /\ StopHasCause' /\ AddNotices'
         /\ RecordedOnce' /\ HandlesGood'
         /\ SelfStopping' = SelfStopping /\ pc'[Caller] = l
<1> USE CallerIsNoWorker
<1>1. TypeOK /\ Order /\ IInv /\ l \in CallerPC
  BY DEF PInv, IInv, CallerPC, StartPC, PausePC
<1>2. /\ pc'[Caller] = l /\ \A w \in Worker : pc'[w] = pc[w]
      /\ SelfStopping' = SelfStopping
  BY <1>1, CallerMoves
<1>3. Calm' = Calm
  BY <1>2 DEF Calm
<1>4. Unlaunched' \subseteq Unlaunched /\ Unrecorded' = {}
  BY <1>2 DEF Unlaunched, Unrecorded
<1>5. PushAssigned'
  BY <1>1, <1>2 DEF PushAssigned
<1>6. StopHasCause' /\ AddNotices'
  <2>1. \A t \in Thread : pc'[t] = "stop" => pc[t] = "stop"
    BY <1>2 DEF Thread
  <2>2. CASE op = "add" => op' = "add"
    BY <1>1, <1>3, <2>1, <2>2, CauseKept DEF Order, AddNotices
  <2>3. CASE m_state
    BY <1>1, <1>3, <2>3 DEF Order, AddNotices, StopHasCause
  <2>4. CASE freed
    <3>1. \A w \in Worker : pc[w] # "stop"
      BY <1>1, <2>4 DEF IInv, FreedIsJoined, HandlesRecorded, Unfinished
    <3>2. Calm
      BY <1>1, <2>4, JoinedIsCalm DEF IInv, FreedIsJoined
    <3> QED BY <1>2, <1>3, <3>1, <3>2 DEF StopHasCause, AddNotices, Thread
  <2> QED BY <2>2, <2>3, <2>4
<1>7. RecordedOnce' /\ HandlesGood'
  BY <1>1, <1>2, <1>3, <1>4, ListsKept
<1> QED BY <1>2, <1>5, <1>6, <1>7

(* start() has returned: only now does the pool see a new task.            *)
LEMMA StartReturnedKeeps ==
  ASSUME PInv, StartReturned
  PROVE  Order' /\ Seen
<1> USE CallerIsNoWorker
<1>1. TypeOK /\ Order /\ IInv
  BY DEF PInv, IInv
<1>2. /\ pc[Caller] = "started" /\ m_pullStream > 0 /\ ~freed
      /\ op \in {"add", "start"} /\ m_pushStream # 0
      /\ UNCHANGED <<alive, freed, m_state, m_threads, m_pullStream,
                     m_pushStream, joinable, iter>>
  BY <1>1 DEF StartReturned, IInv, BusyMeansStarted, FreedIsJoined, Order,
              CallInPlace, PushAssigned, StartPC
<1>3. Unrecorded = {} /\ m_pullStream # 0
  BY <1>1, <1>2, MaxStartsAssumption DEF Unrecorded, TypeOK
<1>4. CASE m_state
  <2>1. Goto(Caller, "idle") /\ op' = "none" /\ result' = "started"
    BY <1>4 DEF StartReturned
  <2>2. /\ PushAssigned' /\ StopHasCause' /\ AddNotices'
        /\ RecordedOnce' /\ HandlesGood'
        /\ SelfStopping' = SelfStopping /\ pc'[Caller] = "idle"
    BY <1>2, <1>3, <1>4, <2>1, EdgeKeeps
  <2>3. CallInPlace'
    BY <2>1, <2>2 DEF CallInPlace, StartPC, PausePC
  <2>4. View' = "running"
    BY <1>2, <1>3, <1>4, <2>1, <2>2 DEF View
  <2>5. Reported
    BY <2>1, <2>4 DEF Reported
  <2>6. CASE op = "add"
    <3>1. Calm /\ View = "absent"
      BY <1>1, <1>2, <1>4, <2>6 DEF Order, AddNotices, View
    <3>2. Ending' = Ending
      BY <2>1, <2>2, <2>6, <3>1 DEF Ending, Calm
    <3>3. Pool!AddLaunched(Task, TRUE)
      BY <1>2, <2>4, <3>1, <3>2, EntryBecomes, TaskIsThere, NoLimit
         DEF Pool!AddLaunched
    <3> QED BY <2>2, <2>3, <2>5, <2>6, <3>3 DEF Order, Seen, PoolStep
  <2>7. CASE op = "start"
    <3>1. UNCHANGED <<View, Ending>>
      BY <1>2, <1>3, <1>4, <2>1, <2>2, <2>4, <2>7 DEF View, Ending
    <3> QED BY <1>2, <2>2, <2>3, <2>5, <3>1 DEF Order, Seen, Pool!poolVars
  <2> QED BY <1>2, <2>6, <2>7
<1>5. CASE ~m_state
  <2>1. Goto(Caller, "launch_failed") /\ UNCHANGED <<op, result>>
    BY <1>5 DEF StartReturned
  <2>2. "launch_failed" \in StartPC /\ pc[Caller] \in StartPC /\ "launch_failed" \in CallerPC
    BY <1>2 DEF StartPC, CallerPC
  <2>3. pc'[Caller] = "launch_failed"
    BY <1>1, <2>1, <2>2, CallerMoves
  <2>4. Unlaunched' \subseteq Unlaunched /\ Unrecorded' \subseteq Unrecorded
    BY <1>2, <2>3 DEF Unlaunched, Unrecorded
  <2> QED BY <1>2, <2>1, <2>2, <2>4, StartMoves
<1> QED BY <1>4, <1>5

(* start() has failed.                                                     *)
LEMMA LaunchFailedKeeps ==
  ASSUME PInv, LaunchFailed
  PROVE  Order' /\ Seen
<1> USE CallerIsNoWorker
<1>1. TypeOK /\ Order /\ IInv
  BY DEF PInv, IInv
<1>2. /\ pc[Caller] = "launch_failed" /\ m_pullStream > 0 /\ ~freed
      /\ op \in {"add", "start"}
      /\ UNCHANGED <<alive, freed, m_state, m_threads, m_pullStream,
                     m_pushStream, joinable, iter>>
  BY <1>1 DEF LaunchFailed, IInv, BusyMeansStarted, FreedIsJoined, Order,
              CallInPlace, StartPC
<1>3. Unrecorded = {} /\ m_pullStream # 0
  BY <1>1, <1>2, MaxStartsAssumption DEF Unrecorded, TypeOK
<1>4. CASE op = "add"
  <2>1. Goto(Caller, "pause") /\ op' = "add"
    BY <1>4 DEF LaunchFailed
  <2>2. /\ PushAssigned' /\ StopHasCause' /\ AddNotices'
        /\ RecordedOnce' /\ HandlesGood'
        /\ SelfStopping' = SelfStopping /\ pc'[Caller] = "pause"
    BY <1>2, <1>3, <1>4, <2>1, EdgeKeeps
  <2>3. CallInPlace'
    BY <2>1, <2>2 DEF CallInPlace, StartPC
  <2>4. UNCHANGED <<View, Ending>>
    BY <1>2, <1>4, <2>1 DEF View, Ending
  <2>5. Seen
    BY <1>2, <2>1, <2>4, NothingIsSeen
  <2> QED BY <2>2, <2>3, <2>5 DEF Order
<1>5. CASE op = "start"
  <2>1. Goto(Caller, "idle") /\ op' = "none" /\ result' = "launch_failed"
    BY <1>5 DEF LaunchFailed
  <2>2. m_pushStream # 0
    BY <1>1, <1>2, <1>3, <1>5 DEF Order, PushAssigned
  <2>3. /\ PushAssigned' /\ StopHasCause' /\ AddNotices'
        /\ RecordedOnce' /\ HandlesGood'
        /\ SelfStopping' = SelfStopping /\ pc'[Caller] = "idle"
    BY <1>2, <1>3, <1>5, <2>1, <2>2, EdgeKeeps
  <2>4. CallInPlace'
    BY <2>1, <2>3 DEF CallInPlace, StartPC, PausePC
  <2>5. UNCHANGED <<View, Ending>>
    BY <1>2, <1>5, <2>1, <2>3 DEF View, Ending
  <2>6. Reported
    BY <1>5, <2>1 DEF Reported
  <2>7. Seen
    BY <1>2, <2>5, <2>6 DEF Seen, Pool!poolVars
  <2> QED BY <2>3, <2>4, <2>7 DEF Order
<1> QED BY <1>2, <1>4, <1>5

(* All of start().                                                         *)
LEMMA StartStepsKeep ==
  ASSUME PInv, alive, StartSteps
  PROVE  Order' /\ Seen
<1>1. {"spawn_pull", "spawn_push", "record_pull", "spawn_forward", "record_forward",
       "new_push", "record_push", "started"} \subseteq CallerPC
  BY DEF CallerPC, StartPC
<1>2. Kind = {"pull", "forward", "push"}
  BY DEF Kind
<1>3. ASSUME \/ Spawn("pull", "spawn_pull", "record_pull")
             \/ Spawn("forward", "spawn_forward", "record_forward")
             \/ Spawn("push", "spawn_push", "record_push")
      PROVE  Order' /\ Seen
  BY <1>1, <1>2, <1>3, SpawnKeeps
<1>4. ASSUME \/ Record("pull", "record_pull", "spawn_forward")
             \/ Record("forward", "record_forward", "new_push")
             \/ Record("push", "record_push", "started")
      PROVE  Order' /\ Seen
  BY <1>1, <1>2, <1>4, RecordKeeps
<1> QED BY <1>3, <1>4, ConnectKeeps, StartReturnedKeeps, LaunchFailedKeeps
        DEF StartSteps

---------------------------------------------------------------------------
(* pause() by the scheduler, and the destructor.                           *)

LEMMA PauseCallKeeps ==
  ASSUME PInv, NEW o \in {"pause", "remove"}, PauseCall(o)
  PROVE  Order' /\ Seen
<1> USE CallerIsNoWorker
<1>1. TypeOK /\ Order /\ IInv
  BY DEF PInv, IInv
<1>2. /\ pc[Caller] = "idle" /\ op = "none" /\ op' = o /\ ~freed
      /\ Goto(Caller, "pause") /\ m_pullStream > 0
      /\ UNCHANGED <<alive, freed, m_state, m_threads, m_pullStream,
                     m_pushStream, joinable, iter>>
  BY <1>1 DEF PauseCall, Order, CallInPlace
<1>3. Unrecorded = {} /\ m_pullStream # 0
  BY <1>1, <1>2, MaxStartsAssumption DEF Unrecorded, TypeOK
<1>4. m_pushStream # 0
  BY <1>1, <1>2, <1>3 DEF Order, PushAssigned
<1>5. /\ PushAssigned' /\ StopHasCause' /\ AddNotices'
      /\ RecordedOnce' /\ HandlesGood'
      /\ SelfStopping' = SelfStopping /\ pc'[Caller] = "pause"
  BY <1>2, <1>3, <1>4, EdgeKeeps
<1>6. CallInPlace'
  BY <1>2, <1>5 DEF CallInPlace, StartPC
<1>7. UNCHANGED <<View, Ending>>
  BY <1>2, <1>5 DEF View, Ending
<1>8. Seen
  BY <1>2, <1>7, NothingIsSeen
<1> QED BY <1>5, <1>6, <1>8 DEF Order

(* A pause() of a task that has stopped: removeTask takes it from the pool *)
(* here if nothing is left to join.                                        *)
LEMMA CallerTestsKeeps ==
  ASSUME PInv, PauseTest(Caller)
  PROVE  Order' /\ Seen
<1> USE CallerIsNoWorker
<1>1. TypeOK /\ Order /\ IInv
  BY DEF PInv, IInv
<1>2. /\ pc[Caller] = "pause" /\ ~freed /\ m_pullStream > 0
      /\ op \in {"add", "pause", "remove"}
      /\ UNCHANGED <<alive, freed, m_state, m_threads, m_pullStream,
                     m_pushStream, joinable, iter>>
  BY <1>1 DEF PauseTest, Order, CallInPlace, IInv, FreedIsJoined,
              BusyMeansStarted, PausePC
<1>3. Unrecorded = {} /\ m_pullStream # 0
  BY <1>1, <1>2, MaxStartsAssumption DEF Unrecorded, TypeOK
<1>4. op # "add" => m_pushStream # 0
  BY <1>1, <1>2, <1>3 DEF Order, PushAssigned
<1>5. CASE m_state
  <2>1. Goto(Caller, "stop") /\ UNCHANGED <<op, result>> /\ "stop" \in CallerPC
    BY <1>5 DEF PauseTest, CallerPC, PausePC
  <2>2. /\ pc'[Caller] = "stop" /\ \A w \in Worker : pc'[w] = pc[w]
        /\ SelfStopping' = SelfStopping
    BY <1>1, <2>1, CallerMoves
  <2>3. Calm' = Calm /\ Unlaunched' \subseteq Unlaunched /\ Unrecorded' = {}
    BY <1>2, <2>2 DEF Calm, Unlaunched, Unrecorded
  <2>4. CallInPlace' /\ PushAssigned' /\ StopHasCause' /\ AddNotices'
    <3>1. CallInPlace'
      BY <1>2, <2>1, <2>2 DEF CallInPlace, StartPC
    <3> QED BY <1>1, <1>2, <1>5, <2>1, <2>2, <2>3, <3>1
            DEF Order, PushAssigned, StopHasCause, AddNotices
  <2>5. RecordedOnce' /\ HandlesGood'
    BY <1>1, <1>2, <2>2, <2>3, ListsKept
  <2>6. UNCHANGED <<View, Ending>>
    BY <1>2, <2>1, <2>2 DEF View, Ending
  <2>7. Seen
    BY <1>2, <2>1, <2>6, NothingIsSeen
  <2> QED BY <2>4, <2>5, <2>7 DEF Order
<1>6. CASE ~m_state /\ op = "pause"
  <2>1. Goto(Caller, "idle") /\ op' = "none" /\ result' = "paused"
    BY <1>6 DEF PauseTest, PauseReturn
  <2>2. /\ PushAssigned' /\ StopHasCause' /\ AddNotices'
        /\ RecordedOnce' /\ HandlesGood'
        /\ SelfStopping' = SelfStopping /\ pc'[Caller] = "idle"
    BY <1>2, <1>3, <1>4, <1>6, <2>1, EdgeKeeps
  <2>3. CallInPlace'
    BY <2>1, <2>2 DEF CallInPlace, StartPC, PausePC
  <2>4. View = "off" /\ View' = "off" /\ Ending' = Ending
    BY <1>2, <1>3, <1>6, <2>1, <2>2 DEF View, Ending
  <2>5. Reported
    BY <2>1, <2>4 DEF Reported
  <2>6. Seen
    BY <1>2, <2>4, <2>5 DEF Seen, Pool!poolVars
  <2> QED BY <2>2, <2>3, <2>6 DEF Order
<1>7. CASE ~m_state /\ op # "pause"
  <2>1. Goto(Caller, "destroy") /\ UNCHANGED <<op, result>>
    BY <1>7 DEF PauseTest, PauseReturn
  <2>2. /\ PushAssigned' /\ StopHasCause' /\ AddNotices'
        /\ RecordedOnce' /\ HandlesGood'
        /\ SelfStopping' = SelfStopping /\ pc'[Caller] = "destroy"
    BY <1>2, <1>3, <1>4, <1>7, <2>1, EdgeKeeps
  <2>3. CallInPlace'
    BY <1>2, <1>7, <2>1, <2>2 DEF CallInPlace, StartPC, PausePC
  <2>4. Ending' = Ending
    BY <2>1, <2>2 DEF Ending
  <2>5. CASE op = "add" \/ joinable # {}
    <3>1. View' = View
      BY <1>2, <1>7, <2>1, <2>2, <2>5 DEF View
    <3>2. Seen
      BY <1>2, <2>1, <2>4, <3>1, NothingIsSeen
    <3> QED BY <2>2, <2>3, <3>2 DEF Order
  <2>6. CASE op = "remove" /\ joinable = {}
    <3>1. View = "off" /\ View' = "absent"
      BY <1>2, <1>3, <1>7, <2>1, <2>2, <2>6 DEF View
    <3>2. Ending = {}
      BY <1>1, <2>6, JoinedIsCalm DEF Ending, Calm
    <3>3. Pool!RemoveTask(Task, TRUE)
      BY <1>2, <2>4, <3>1, <3>2, EntryBecomes, TaskIsThere DEF Pool!RemoveTask
    <3>4. Seen
      BY <2>1, <2>6, <3>3 DEF Seen, PoolStep, Reported
    <3> QED BY <2>2, <2>3, <3>4 DEF Order
  <2> QED BY <1>2, <1>7, <2>5, <2>6
<1> QED BY <1>5, <1>6, <1>7

(* The pause() that stops the task itself: the pool still sees it run      *)
(* until the joins are over, unless a worker has stopped by itself too.    *)
LEMMA CallerStopsKeeps ==
  ASSUME PInv, PauseStop(Caller)
  PROVE  Order' /\ Seen
<1> USE CallerIsNoWorker
<1>1. TypeOK /\ Order /\ IInv
  BY DEF PInv, IInv
<1>2. /\ pc[Caller] = "stop" /\ ~freed /\ m_pullStream > 0 /\ m_state' = FALSE
      /\ op \in {"add", "pause", "remove"} /\ Goto(Caller, "iterate")
      /\ UNCHANGED <<alive, freed, m_threads, m_pullStream, m_pushStream,
                     joinable, iter, op, result>>
      /\ "iterate" \in CallerPC
  BY <1>1 DEF PauseStop, Order, CallInPlace, IInv, FreedIsJoined,
              BusyMeansStarted, PausePC, CallerPC
<1>3. /\ pc'[Caller] = "iterate" /\ \A w \in Worker : pc'[w] = pc[w]
      /\ SelfStopping' = SelfStopping
  BY <1>1, <1>2, CallerMoves
<1>4. Calm' = Calm /\ Unlaunched' \subseteq Unlaunched /\ Unrecorded' = {}
  BY <1>2, <1>3 DEF Calm, Unlaunched, Unrecorded
<1>5. CallInPlace' /\ PushAssigned' /\ StopHasCause' /\ AddNotices'
  <2>1. CallInPlace'
    BY <1>2, <1>3 DEF CallInPlace, StartPC
  <2>2. PushAssigned'
    BY <1>1, <1>2, <1>3 DEF Order, PushAssigned
  <2> QED BY <1>2, <1>3, <2>1, <2>2 DEF StopHasCause, AddNotices
<1>6. RecordedOnce' /\ HandlesGood'
  BY <1>1, <1>2, <1>3, <1>4, ListsKept
<1>7. Ending' = Ending /\ m_pullStream # 0
  BY <1>1, <1>2, <1>3, MaxStartsAssumption DEF Ending, TypeOK
<1>8. Seen
  <2>1. CASE op = "add"
    <3>1. View' = View
      BY <1>2, <2>1 DEF View
    <3> QED BY <1>2, <1>7, <3>1, NothingIsSeen
  <2>2. CASE op # "add" /\ m_state
    <3>1. View = "running"
      BY <1>2, <1>7, <2>2 DEF View
    <3>2. View' = IF Ending = {} THEN "running" ELSE "off"
      BY <1>2, <1>3, <1>7, <2>2 DEF View
    <3>3. CASE Ending = {}
      BY <1>2, <1>7, <3>1, <3>2, <3>3, NothingIsSeen
    <3>4. CASE Ending # {}
      <4>1. Ending' = {Task}
        BY <1>7, <3>4 DEF Ending
      <4>2. Pool!WorkerEnds(Task)
        BY <1>2, <3>1, <3>2, <3>4, <4>1, StopIsSeen
      <4> QED BY <1>2, <4>2 DEF Seen, PoolStep, Reported
    <3> QED BY <3>3, <3>4
  <2>3. CASE op # "add" /\ ~m_state
    <3>1. ~Calm
      BY <1>1, <1>2, <2>3 DEF Order, StopHasCause
    <3>2. Ending # {}
      BY <2>3, <3>1 DEF Ending, Calm
    <3>3. View' = View
      BY <1>2, <1>3, <1>7, <2>3, <3>2 DEF View
    <3> QED BY <1>2, <1>7, <3>3, NothingIsSeen
  <2> QED BY <2>1, <2>2, <2>3
<1> QED BY <1>5, <1>6, <1>8 DEF Order

(* The handles the Caller is going to join, each once.                     *)
LEMMA CallerIteratesKeeps ==
  ASSUME PInv, PauseIterate(Caller)
  PROVE  Order' /\ Seen
<1> USE CallerIsNoWorker
<1>1. TypeOK /\ Order /\ IInv
  BY DEF PInv, IInv
<1>2. /\ pc[Caller] = "iterate" /\ iter' = [iter EXCEPT ![Caller] = m_threads]
      /\ op \in {"add", "pause", "remove"} /\ Goto(Caller, "join")
      /\ UNCHANGED <<alive, freed, m_state, m_threads, m_pullStream, m_pushStream,
                     joinable, op, result>>
      /\ "join" \in CallerPC
  BY <1>1 DEF PauseIterate, Order, CallInPlace, PausePC, CallerPC
<1>3. /\ pc'[Caller] = "join" /\ \A w \in Worker : pc'[w] = pc[w]
      /\ SelfStopping' = SelfStopping
  BY <1>1, <1>2, CallerMoves
<1>4. Calm' = Calm /\ Unlaunched' \subseteq Unlaunched /\ Unrecorded' = {}
      /\ iter'[Caller] = m_threads
      /\ \A t \in Thread : iter'[t] \in {iter[t], m_threads}
  BY <1>1, <1>2, <1>3 DEF Calm, Unlaunched, Unrecorded, TypeOK
<1>5. CallInPlace' /\ PushAssigned' /\ StopHasCause' /\ AddNotices'
  <2>1. CallInPlace'
    BY <1>1, <1>2, <1>3 DEF CallInPlace, StartPC, Order
  <2>2. PushAssigned'
    BY <1>1, <1>2, <1>3 DEF Order, PushAssigned
  <2>3. StopHasCause'
    <3>1. \A t \in Thread : pc'[t] = "stop" => pc[t] = "stop"
      BY <1>2, <1>3 DEF Thread
    <3> QED BY <1>1, <1>2, <1>3, <1>4, <3>1, CauseKept
  <2> QED BY <1>1, <1>2, <1>4, <2>1, <2>2, <2>3 DEF Order, AddNotices
<1>6. RecordedOnce'
  BY <1>1, <1>2, <1>4 DEF Order, RecordedOnce
<1>7. HandlesGood'
  BY <1>1, <1>2, <1>3, <1>4 DEF Order, HandlesGood
<1>8. UNCHANGED <<View, Ending>>
  BY <1>2, <1>3 DEF View, Ending
<1>9. Seen
  BY <1>2, <1>8, NothingIsSeen
<1> QED BY <1>5, <1>6, <1>7, <1>9 DEF Order

(* A join.  The Caller's own never fails before a worker has stopped by    *)
(* itself: it meets each handle once, and no other thread joins.           *)
LEMMA JoinNextKeeps ==
  ASSUME PInv, alive, NEW t \in Thread, JoinNext(t)
  PROVE  Order' /\ Seen
<1> USE CallerIsNoWorker
<1> DEFINE v == Head(iter[t])
<1>1. TypeOK /\ Order /\ IInv
  BY DEF PInv, IInv
<1>2. /\ pc[t] = "join" /\ iter[t] # <<>> /\ iter[t] \in Seq(Worker)
      /\ v \in Worker
  BY <1>1 DEF JoinNext, TypeOK
<1>3. /\ Tail(iter[t]) \in Seq(Worker) /\ v \in ToSet(iter[t])
      /\ ToSet(iter[t]) = ToSet(Tail(iter[t])) \union {v}
  BY <1>2, ToSetOfTail
<1>4. t # Caller => ~Calm
  BY <1>2 DEF Calm, SelfStopping, Thread
<1>5. t = Caller /\ Calm => v \in joinable
  BY <1>1, <1>2, <1>3 DEF Order, HandlesGood
<1>6. CASE Terminate
  <2>1. ~Calm
    <3>1. ~(alive' = alive)
      BY <1>6 DEF Terminate
    <3>2. v = t \/ v \notin joinable
      BY <3>1 DEF JoinNext
    <3> QED BY <1>2, <1>4, <1>5, <3>2
  <2>2. op = "add" \/ Ending # {}
    BY <2>1 DEF Ending, Calm
  <2> QED BY <1>1, <1>6, <2>2, TerminateIsSeen
<1>7. CASE ~Terminate
  <2>1. /\ joinable' = joinable \ {v}
        /\ iter' = [iter EXCEPT ![t] = Tail(@)]
        /\ UNCHANGED <<alive, freed, m_state, m_threads, m_pullStream,
                       m_pushStream, pc, op, result>>
    BY <1>7 DEF JoinNext
  <2>2. /\ iter'[t] = Tail(iter[t])
        /\ \A u \in Thread : u # t => iter'[u] = iter[u]
    BY <1>1, <2>1 DEF TypeOK
  <2>3. UNCHANGED <<SelfStopping, Calm, Unlaunched, Unrecorded>>
    BY <2>1 DEF Calm, SelfStopping, Unlaunched, Unrecorded
  <2>4. CallInPlace' /\ PushAssigned' /\ StopHasCause' /\ AddNotices'
    BY <1>1, <2>1, <2>3 DEF Order, CallInPlace, PushAssigned, StopHasCause, AddNotices
  <2>5. v \notin Unrecorded
    BY <1>1, <1>3 DEF Order, RecordedOnce
  <2>6. t = Caller => IsInjective(iter'[t]) /\ v \notin ToSet(iter'[t])
    BY <1>1, <1>2, <2>2, InjectiveTail DEF Order, RecordedOnce
  <2> HIDE DEF v
  <2>7. RecordedOnce'
    <3>1. \A u \in Thread : ToSet(iter'[u]) \subseteq ToSet(iter[u])
      BY <1>3, <2>2
    <3>2. pc[Caller] = "join" => IsInjective(iter'[Caller])
      BY <1>1, <2>2, <2>6 DEF Order, RecordedOnce
    <3> QED BY <1>1, <2>1, <2>3, <3>1, <3>2 DEF Order, RecordedOnce
  <2>8. HandlesGood'
    <3>1. Unrecorded' \subseteq joinable'
      BY <1>1, <2>1, <2>3, <2>5 DEF Order, HandlesGood
    <3>2. ASSUME Calm' PROVE pc'[Caller] = "join" /\ ToSet(iter'[Caller]) \subseteq joinable'
      <4>1. t = Caller /\ Calm
        BY <1>4, <2>3, <3>2
      <4> QED BY <1>1, <1>2, <1>3, <2>1, <2>2, <2>6, <4>1 DEF Order, HandlesGood
    <3> QED BY <3>1, <3>2 DEF HandlesGood
  <2>9. pc[Caller] # "destroy" \/ joinable # {}
    <3>1. CASE t = Caller
      BY <1>2, <3>1
    <3>2. CASE t # Caller
      <4>1. t \in Worker /\ pc[t] \notin {"none", "done"}
        BY <1>2, <3>2 DEF Thread
      <4> QED BY <1>1, <4>1, WorkerIsOfAStart
    <3> QED BY <3>1, <3>2
  <2>10. pc[Caller] # "destroy" \/ joinable' # {}
    <3>1. CASE t = Caller
      BY <1>2, <3>1
    <3>2. CASE t # Caller
      <4>1. t \in Worker /\ pc[t] \notin {"none", "done"} /\ v # t
        BY <1>2, <1>7, <3>2 DEF Thread, JoinNext, v
      <4>2. t \in joinable
        BY <1>1, <4>1, WorkerIsOfAStart
      <4> QED BY <2>1, <4>1, <4>2
    <3> QED BY <3>1, <3>2
  <2>11. UNCHANGED <<View, Ending>>
    <3>1. Ending' = Ending
      BY <2>1, <2>3 DEF Ending
    <3> QED BY <2>1, <2>9, <2>10, <3>1 DEF View
  <2>12. Seen
    BY <2>1, <2>11, NothingIsSeen
  <2> QED BY <2>4, <2>7, <2>8, <2>12 DEF Order
<1> QED BY <1>6, <1>7

(* The Caller's joins are over: the pool sees the task stop, or go.        *)
LEMMA CallerDeletesKeeps ==
  ASSUME PInv, alive, DeleteHandles(Caller)
  PROVE  Order' /\ Seen
<1> USE CallerIsNoWorker
<1>1. TypeOK /\ Order /\ IInv
  BY DEF PInv, IInv
<1>2. /\ pc[Caller] = "join" /\ iter[Caller] = <<>> /\ ~freed /\ m_pullStream > 0
      /\ op \in {"add", "pause", "remove"} /\ ~m_state /\ Unrecorded = {}
  BY <1>1 DEF DeleteHandles, Order, CallInPlace, IInv, FreedIsJoined,
              BusyMeansStarted, PausePC, Unrecorded
<1>3. joinable = {}
  BY <1>1, <1>2, ToSetOfEmpty DEF IInv, JoinsTheRest
<1>4. Calm /\ m_pullStream # 0 /\ \A w \in Worker : pc[w] \in {"none", "done"}
  BY <1>1, <1>2, <1>3, JoinedIsCalm, MaxStartsAssumption DEF TypeOK
<1>5. /\ m_threads' = <<>> /\ PauseReturn(Caller)
      /\ UNCHANGED <<alive, freed, m_state, m_pullStream, m_pushStream, joinable, iter>>
  BY <1>3 DEF DeleteHandles
<1>6. PICK l \in {"idle", "destroy"} :
        /\ Goto(Caller, l)
        /\ l = IF op = "pause" THEN "idle" ELSE "destroy"
        /\ op' = IF op = "pause" THEN "none" ELSE op
        /\ op = "pause" => result' = "paused"
  BY <1>2, <1>5 DEF PauseReturn
<1>7. /\ pc'[Caller] = l /\ \A w \in Worker : pc'[w] = pc[w]
      /\ SelfStopping' = SelfStopping
  <2>1. l \in CallerPC
    BY DEF CallerPC
  <2> QED BY <1>1, <1>6, <2>1, CallerMoves
<1>8. Calm' = Calm /\ Unlaunched' \subseteq Unlaunched /\ Unrecorded' = {}
  BY <1>2, <1>5, <1>6, <1>7 DEF Calm, Unlaunched, Unrecorded
<1>9. CallInPlace' /\ PushAssigned' /\ StopHasCause' /\ AddNotices'
  <2>1. CallInPlace'
    BY <1>2, <1>5, <1>6, <1>7 DEF CallInPlace, StartPC, PausePC
  <2>2. PushAssigned'
    BY <1>1, <1>2, <1>4, <1>5, <1>6, <1>7 DEF Order, PushAssigned
  <2>3. \A t \in Thread : pc'[t] # "stop"
    BY <1>4, <1>6, <1>7 DEF Thread
  <2> QED BY <1>4, <1>8, <2>1, <2>2, <2>3 DEF StopHasCause, AddNotices
<1>10. RecordedOnce' /\ HandlesGood'
  <2>1. RecordedOnce'
    BY <1>1, <1>5, <1>6, <1>7, <1>8, ToSetOfEmpty, InjectiveEmpty DEF Order, RecordedOnce
  <2>2. HandlesGood'
    BY <1>5, <1>6, <1>7, <1>8, ToSetOfEmpty DEF HandlesGood
  <2> QED BY <2>1, <2>2
<1>11. Ending = {} /\ Ending' = {}
  BY <1>4, <1>8 DEF Ending, Calm
<1>12. Seen
  <2>1. CASE op = "add"
    <3>1. View' = View
      BY <1>2, <1>5, <1>6, <2>1 DEF View
    <3> QED BY <1>5, <1>6, <1>11, <2>1, <3>1, NothingIsSeen
  <2>2. CASE op = "pause"
    <3>1. View = "running" /\ View' = "off"
      BY <1>2, <1>4, <1>5, <1>6, <1>7, <1>11, <2>2 DEF View
    <3>2. Pool!PauseTask(Task, TRUE)
      BY <1>5, <1>11, <3>1, EntryBecomes, TaskIsThere DEF Pool!PauseTask
    <3> QED BY <1>6, <2>2, <3>1, <3>2 DEF Seen, PoolStep, Reported
  <2>3. CASE op = "remove"
    <3>1. View = "running" /\ View' = "absent"
      BY <1>2, <1>3, <1>4, <1>5, <1>6, <1>7, <1>11, <2>3 DEF View
    <3>2. Pool!RemoveTask(Task, TRUE)
      BY <1>5, <1>11, <3>1, EntryBecomes, TaskIsThere DEF Pool!RemoveTask
    <3> QED BY <1>6, <2>3, <3>2 DEF Seen, PoolStep, Reported
  <2> QED BY <1>2, <2>1, <2>2, <2>3
<1> QED BY <1>9, <1>10, <1>12 DEF Order

(* The destructor, after its pause().                                      *)
LEMMA DestroyKeeps ==
  ASSUME PInv, alive, Destroy
  PROVE  Order' /\ Seen
<1> USE CallerIsNoWorker
<1>1. TypeOK /\ Order /\ IInv
  BY DEF PInv, IInv
<1>2. /\ pc[Caller] = "destroy" /\ ~freed /\ m_pullStream > 0 /\ ~m_state
      /\ op \in {"add", "remove"} /\ Unrecorded = {}
  BY <1>1 DEF Destroy, Order, CallInPlace, IInv, FreedIsJoined, BusyMeansStarted,
              Unrecorded
<1>3. m_pullStream # 0
  BY <1>1, <1>2, MaxStartsAssumption DEF TypeOK
<1>4. CASE Terminate
  <2>1. CASE op = "add"
    BY <1>1, <1>4, <2>1, TerminateIsSeen
  <2>2. CASE op = "remove"
    <3>1. joinable # {}
      <4>1. m_pushStream # 0
        BY <1>1, <1>2, <1>3, <2>2 DEF Order, PushAssigned
      <4>2. ~(alive' = alive)
        BY <1>4 DEF Terminate
      <4> QED BY <4>1, <4>2 DEF Destroy
    <3>2. View = "off"
      BY <1>2, <1>3, <2>2, <3>1 DEF View
    <3> QED BY <1>1, <1>4, <2>2, <3>2, TerminateIsSeen
  <2> QED BY <1>2, <2>1, <2>2
<1>5. CASE ~Terminate
  <2>1. /\ ToSet(m_threads) \intersect joinable = {} /\ freed' = TRUE /\ m_threads' = <<>>
        /\ UNCHANGED <<alive, m_state, m_pullStream, m_pushStream, joinable, iter>>
    BY <1>5 DEF Destroy
  <2>2. PICK l \in {"erase", "idle"} :
          /\ Goto(Caller, l)
          /\ l = IF op = "add" THEN "erase" ELSE "idle"
          /\ op' = IF op = "add" THEN "add" ELSE "none"
          /\ op # "add" => result' = "removed"
    BY <1>5 DEF Destroy
  <2>3. /\ pc'[Caller] = l /\ \A w \in Worker : pc'[w] = pc[w]
        /\ SelfStopping' = SelfStopping
    <3>1. l \in CallerPC
      BY DEF CallerPC
    <3> QED BY <1>1, <2>2, <3>1, CallerMoves
  <2>4. joinable = {}
    BY <1>1, <1>2, <2>1 DEF IInv, HandlesRecorded
  <2>5. Calm /\ \A w \in Worker : pc[w] \in {"none", "done"}
    BY <1>1, <2>4, JoinedIsCalm
  <2>6. Calm' = Calm /\ Unlaunched' \subseteq Unlaunched /\ Unrecorded' = {}
    BY <1>2, <2>1, <2>2, <2>3 DEF Calm, Unlaunched, Unrecorded
  <2>7. CallInPlace' /\ PushAssigned' /\ StopHasCause' /\ AddNotices'
    <3>1. CallInPlace'
      BY <1>2, <2>1, <2>2, <2>3 DEF CallInPlace, StartPC, PausePC
    <3>2. PushAssigned'
      BY <2>1, <2>2, <2>3 DEF PushAssigned
    <3>3. \A t \in Thread : pc'[t] # "stop"
      BY <2>2, <2>3, <2>5 DEF Thread
    <3> QED BY <2>5, <2>6, <3>1, <3>2, <3>3 DEF StopHasCause, AddNotices
  <2>8. RecordedOnce' /\ HandlesGood'
    <3>1. RecordedOnce'
      BY <1>1, <2>1, <2>2, <2>3, <2>6, ToSetOfEmpty, InjectiveEmpty DEF Order, RecordedOnce
    <3>2. HandlesGood'
      BY <2>1, <2>2, <2>3, <2>6, ToSetOfEmpty DEF HandlesGood
    <3> QED BY <3>1, <3>2
  <2>9. Ending = {} /\ Ending' = {}
    BY <2>5, <2>6 DEF Ending, Calm
  <2>10. Seen
    <3>1. CASE op = "add"
      <4>1. View = "absent" /\ View' = "off"
        BY <1>2, <1>3, <2>1, <2>2, <3>1 DEF View
      <4>2. Pool!AddDeletes(Task)
        BY <2>1, <2>9, <4>1, EntryBecomes, TaskIsThere, NoLimit DEF Pool!AddDeletes
      <4> QED BY <2>2, <3>1, <4>2 DEF Seen, PoolStep, Reported
    <3>2. CASE op = "remove"
      <4>1. View = "absent" /\ View' = "absent"
        BY <1>2, <1>3, <2>1, <2>2, <2>4, <3>2 DEF View
      <4>2. result' = "removed"
        BY <2>2, <3>2
      <4> QED BY <2>1, <2>9, <4>1, <4>2 DEF Seen, Reported, Pool!poolVars
    <3> QED BY <1>2, <3>1, <3>2
  <2> QED BY <2>7, <2>8, <2>10 DEF Order
<1> QED BY <1>4, <1>5

(* The entry of a task that could not be launched goes.                    *)
LEMMA EraseKeeps ==
  ASSUME PInv, alive, EraseFailedAdd
  PROVE  Order' /\ Seen
<1> USE CallerIsNoWorker
<1>1. TypeOK /\ Order /\ IInv
  BY DEF PInv, IInv
<1>2. pc[Caller] = "erase" /\ op = "add" /\ freed /\ m_pullStream > 0
      /\ joinable = {} /\ Unrecorded = {}
  BY <1>1 DEF EraseFailedAdd, Order, CallInPlace, IInv, BusyMeansStarted,
              FreedIsJoined, Unrecorded
<1>3. CASE Terminate
  BY <1>1, <1>2, <1>3, TerminateIsSeen
<1>4. CASE ~Terminate
  <2>1. /\ Goto(Caller, "idle") /\ op' = "none" /\ result' = "launch_failed"
        /\ UNCHANGED <<alive, freed, m_state, m_threads, m_pullStream,
                       m_pushStream, joinable, iter>>
    BY <1>4 DEF EraseFailedAdd
  <2>2. /\ PushAssigned' /\ StopHasCause' /\ AddNotices'
        /\ RecordedOnce' /\ HandlesGood'
        /\ SelfStopping' = SelfStopping /\ pc'[Caller] = "idle"
    BY <1>2, <2>1, EdgeKeeps
  <2>3. CallInPlace'
    BY <2>1, <2>2 DEF CallInPlace, StartPC, PausePC
  <2>4. View = "off" /\ View' = "absent" /\ UNCHANGED Ending
    <3>1. Calm /\ m_pullStream # 0
      BY <1>1, <1>2, JoinedIsCalm, MaxStartsAssumption DEF TypeOK
    <3> QED BY <1>2, <2>1, <2>2, <3>1 DEF View, Ending, Calm
  <2>5. Pool!AddErases(Task, FALSE)
    BY <2>1, <2>4, EntryBecomes DEF Pool!AddErases
  <2>6. Seen
    BY <1>2, <2>1, <2>4, <2>5 DEF Seen, PoolStep, Reported
  <2> QED BY <2>2, <2>3, <2>6 DEF Order
<1> QED BY <1>3, <1>4

---------------------------------------------------------------------------
(* The workers.                                                            *)

(* The pool does not see a worker move outside the joins of pause().       *)
LEMMA WorkerMoveKeeps ==
  ASSUME PInv, NEW w \in Worker, pc[w] \in {"body", "pause"},
         NEW l \in {"pause", "stop", "done"}, Goto(w, l), l = "stop" => m_state,
         UNCHANGED <<alive, freed, m_state, m_threads, m_pullStream, m_pushStream,
                     joinable, iter, op, result>>
  PROVE  Order' /\ Seen
<1> USE CallerIsNoWorker
<1>1. TypeOK /\ Order /\ IInv /\ l \in WorkerPC
  BY DEF PInv, IInv, WorkerPC, PausePC
<1>2. /\ \A v \in Worker : pc'[v] = IF v = w THEN l ELSE pc[v]
      /\ pc'[Caller] = pc[Caller]
  BY <1>1, GotoWorker
<1>3. SelfStopping' = SelfStopping
  BY <1>2 DEF SelfStopping
<1>4. Calm' = Calm /\ Unlaunched' = Unlaunched /\ Unrecorded' = Unrecorded
  BY <1>2, <1>3 DEF Calm, Unlaunched, Unrecorded
<1>5. CallInPlace' /\ PushAssigned' /\ AddNotices'
  BY <1>1, <1>2, <1>4 DEF Order, CallInPlace, PushAssigned, AddNotices
<1>6. StopHasCause'
  <2>1. \A t \in Thread : pc'[t] = "stop" => pc[t] = "stop" \/ m_state'
    BY <1>2 DEF Thread
  <2> QED BY <1>1, <1>2, <1>4, <2>1, CauseKept
<1>7. RecordedOnce' /\ HandlesGood'
  BY <1>1, <1>2, <1>4, ListsKept
<1>8. UNCHANGED <<View, Ending>>
  BY <1>2, <1>3 DEF View, Ending
<1>9. Seen
  BY <1>8, NothingIsSeen
<1> QED BY <1>5, <1>6, <1>7, <1>9 DEF Order

(* A worker that clears m_state stops the task for the pool, once, and is  *)
(* from then on a danger to the process.                                   *)
LEMMA WorkerStopsKeeps ==
  ASSUME PInv, NEW w \in Worker, PauseStop(w)
  PROVE  Order' /\ Seen
<1> USE CallerIsNoWorker
<1>1. TypeOK /\ Order /\ IInv
  BY DEF PInv, IInv
<1>2. /\ pc[w] = "stop" /\ m_state' = FALSE /\ Goto(w, "iterate")
      /\ UNCHANGED <<alive, freed, m_threads, m_pullStream, m_pushStream,
                     joinable, iter, op, result>>
      /\ "iterate" \in WorkerPC
  BY DEF PauseStop, WorkerPC, PausePC
<1>3. /\ \A v \in Worker : pc'[v] = IF v = w THEN "iterate" ELSE pc[v]
      /\ pc'[Caller] = pc[Caller]
  BY <1>1, <1>2, GotoWorker
<1>4. m_pullStream # 0 /\ joinable # {} /\ ~freed
  BY <1>1, <1>2, WorkerIsOfAStart
<1>5. ~Calm' /\ Unlaunched' = Unlaunched /\ Unrecorded' = Unrecorded
  BY <1>2, <1>3 DEF Calm, SelfStopping, Unlaunched, Unrecorded
<1>6. CallInPlace' /\ PushAssigned' /\ AddNotices' /\ StopHasCause'
  BY <1>1, <1>2, <1>3, <1>5
     DEF Order, CallInPlace, PushAssigned, AddNotices, StopHasCause
<1>7. RecordedOnce' /\ HandlesGood'
  BY <1>1, <1>2, <1>3, <1>5, ListsKept
<1>8. Seen
  <2>1. CASE op = "add"
    <3>1. UNCHANGED <<View, Ending>>
      BY <1>2, <2>1 DEF View, Ending
    <3> QED BY <1>2, <3>1, NothingIsSeen
  <2>2. CASE op # "add"
    <3>1. Ending' = {Task} /\ View' = "off"
      BY <1>2, <1>3, <1>4, <1>5, <2>2 DEF View, Ending, Calm
    <3>2. CASE View = "running"
      <4>1. Pool!WorkerEnds(Task)
        BY <1>2, <3>1, <3>2, StopIsSeen
      <4> QED BY <1>2, <4>1 DEF Seen, PoolStep, Reported
    <3>3. CASE View # "running"
      <4>1. ~m_state /\ ~(pc[Caller] \in {"iterate", "join"} /\ Ending = {})
            /\ View = "off"
        BY <1>4, <2>2, <3>3 DEF View
      <4>2. Ending # {}
        <5>1. w \in Thread /\ w # Caller
          BY DEF Thread
        <5>2. ~Calm \/ pc[Caller] \in {"iterate", "join"}
          BY <1>1, <1>2, <2>2, <4>1, <5>1 DEF Order, StopHasCause
        <5> QED BY <2>2, <4>1, <5>2 DEF Calm, Ending
      <4>3. Ending' = Ending
        BY <3>1, <4>2 DEF Ending
      <4> QED BY <1>2, <3>1, <4>1, <4>3, NothingIsSeen
    <3> QED BY <3>2, <3>3
  <2> QED BY <2>1, <2>2
<1> QED BY <1>6, <1>7, <1>8 DEF Order

(* A worker that takes the handles to join is already known to the pool.   *)
LEMMA WorkerIteratesKeeps ==
  ASSUME PInv, NEW w \in Worker, PauseIterate(w)
  PROVE  Order' /\ Seen
<1> USE CallerIsNoWorker
<1>1. TypeOK /\ Order /\ IInv
  BY DEF PInv, IInv
<1>2. /\ pc[w] = "iterate" /\ iter' = [iter EXCEPT ![w] = m_threads] /\ Goto(w, "join")
      /\ UNCHANGED <<alive, freed, m_state, m_threads, m_pullStream, m_pushStream,
                     joinable, op, result>>
      /\ "join" \in WorkerPC
  BY DEF PauseIterate, WorkerPC, PausePC
<1>3. /\ \A v \in Worker : pc'[v] = IF v = w THEN "join" ELSE pc[v]
      /\ pc'[Caller] = pc[Caller] /\ iter'[Caller] = iter[Caller]
      /\ \A t \in Thread : iter'[t] \in {iter[t], m_threads}
  BY <1>1, <1>2, GotoWorker DEF TypeOK, Thread
<1>4. SelfStopping' = SelfStopping
  BY <1>2, <1>3 DEF SelfStopping
<1>5. Calm' = Calm /\ Unlaunched' = Unlaunched /\ Unrecorded' = Unrecorded
  BY <1>2, <1>3, <1>4 DEF Calm, Unlaunched, Unrecorded
<1>6. CallInPlace' /\ PushAssigned' /\ AddNotices'
  BY <1>1, <1>2, <1>3, <1>5 DEF Order, CallInPlace, PushAssigned, AddNotices
<1>7. StopHasCause'
  <2>1. \A t \in Thread : pc'[t] = "stop" => pc[t] = "stop"
    BY <1>3 DEF Thread
  <2> QED BY <1>1, <1>2, <1>3, <1>5, <2>1, CauseKept
<1>8. RecordedOnce'
  BY <1>1, <1>2, <1>3, <1>5 DEF Order, RecordedOnce
<1>9. HandlesGood'
  BY <1>1, <1>2, <1>3, <1>5 DEF Order, HandlesGood
<1>10. UNCHANGED <<View, Ending>>
  BY <1>2, <1>3, <1>4 DEF View, Ending
<1>11. Seen
  BY <1>2, <1>10, NothingIsSeen
<1> QED BY <1>6, <1>7, <1>8, <1>9, <1>11 DEF Order

(* A worker survives its own pause() only if it is the one that start() is *)
(* recording and no other is left: then no thread is in pause() any more.  *)
LEMMA WorkerDeletesKeeps ==
  ASSUME PInv, alive, NEW w \in Worker, DeleteHandles(w)
  PROVE  Order' /\ Seen
<1> USE CallerIsNoWorker
<1>1. TypeOK /\ Order /\ IInv /\ pc[w] = "join"
  BY DEF PInv, IInv, DeleteHandles
<1>2. ~Calm /\ w \in Unfinished
  BY <1>1 DEF Calm, SelfStopping, Unfinished
<1>3. CASE Terminate
  <2>1. op = "add" \/ Ending # {}
    BY <1>2 DEF Ending, Calm
  <2> QED BY <1>1, <1>3, <2>1, TerminateIsSeen
<1>4. CASE ~Terminate
  <2>1. /\ ToSet(m_threads) \intersect joinable = {} /\ m_threads' = <<>>
        /\ Goto(w, "done") /\ "done" \in WorkerPC
        /\ UNCHANGED <<alive, freed, m_state, m_pullStream, m_pushStream,
                       joinable, iter, op, result>>
    BY <1>4 DEF DeleteHandles, PauseReturn, WorkerPC
  <2>2. /\ \A v \in Worker : pc'[v] = IF v = w THEN "done" ELSE pc[v]
        /\ pc'[Caller] = pc[Caller]
    BY <1>1, <2>1, GotoWorker
  <2>3. /\ Unfinished \subseteq Unrecorded /\ w \in Unrecorded
    BY <1>1, <1>2, <2>1 DEF IInv, HandlesRecorded
  <2>4. pc[Caller] \in {"record_pull", "record_forward", "record_push"}
        /\ \A v \in Unfinished : v = w
    <3>1. \A v \in Worker : v = <<v[1], v[2]>>
      BY DEF Worker
    <3> QED BY <2>3, <3>1 DEF Unrecorded
  <2>5. /\ pc[Caller] \notin {"idle", "stop", "iterate", "join", "destroy"}
        /\ \A v \in Worker : pc'[v] \in {"none", "done"}
    BY <2>2, <2>4 DEF Unfinished
  <2>6. Calm' /\ Unlaunched' = Unlaunched /\ Unrecorded' = Unrecorded
    BY <2>1, <2>2, <2>5 DEF Calm, SelfStopping, Unlaunched, Unrecorded
  <2>7. CallInPlace' /\ PushAssigned' /\ AddNotices' /\ StopHasCause'
    <3>1. CallInPlace' /\ PushAssigned' /\ AddNotices'
      BY <1>1, <2>1, <2>2, <2>6 DEF Order, CallInPlace, PushAssigned, AddNotices
    <3>2. \A t \in Thread : pc'[t] # "stop"
      BY <2>2, <2>5 DEF Thread
    <3> QED BY <3>1, <3>2 DEF StopHasCause
  <2>8. RecordedOnce' /\ HandlesGood'
    <3>1. RecordedOnce'
      BY <1>1, <2>1, <2>2, <2>6, ToSetOfEmpty, InjectiveEmpty DEF Order, RecordedOnce
    <3>2. HandlesGood'
      BY <1>1, <2>1, <2>2, <2>5, <2>6, ToSetOfEmpty DEF Order, HandlesGood
    <3> QED BY <3>1, <3>2
  <2>9. View' = View
    BY <2>1, <2>2, <2>5 DEF View
  <2>10. Seen
    <3>1. CASE op = "add"
      <4>1. Ending' = Ending
        BY <2>1, <3>1 DEF Ending
      <4> QED BY <2>1, <2>9, <4>1, NothingIsSeen
    <3>2. CASE op # "add"
      <4>1. Ending = {Task} /\ Ending' = {}
        BY <1>2, <2>1, <2>6, <3>2 DEF Ending, Calm
      <4>2. Pool!WorkerEnded(Task)
        BY <2>1, <2>9, <4>1, EndIsSeen
      <4> QED BY <2>1, <4>2 DEF Seen, PoolStep, Reported
    <3> QED BY <3>1, <3>2
  <2> QED BY <2>7, <2>8, <2>10 DEF Order
<1> QED BY <1>3, <1>4

(* A worker's own steps, and its test in pause().                          *)
LEMMA WorkerStepKeeps ==
  ASSUME PInv, alive, NEW w \in Worker, WorkerStep(w) \/ PauseTest(w)
  PROVE  Order' /\ Seen
<1> USE CallerIsNoWorker
<1>1. TypeOK /\ Order /\ IInv
  BY DEF PInv, IInv
<1>2. CASE PauseTest(w)
  <2>1. PICK l \in {"stop", "done"} : Goto(w, l) /\ (l = "stop" => m_state)
    BY <1>2 DEF PauseTest, PauseReturn
  <2>2. /\ pc[w] = "pause"
        /\ UNCHANGED <<alive, freed, m_state, m_threads, m_pullStream,
                       m_pushStream, joinable, iter, op, result>>
    BY <1>2 DEF PauseTest, PauseReturn
  <2> QED BY <2>1, <2>2, WorkerMoveKeeps
<1>3. CASE WorkerStep(w) /\ ~Terminate
  <2>1. PICK l \in {"pause", "done"} : Goto(w, l)
    BY <1>3 DEF WorkerStep, LoopExit, StreamEnd, PushAllocFails, ForwardUnassigned
  <2>2. /\ pc[w] = "body"
        /\ UNCHANGED <<alive, freed, m_state, m_threads, m_pullStream,
                       m_pushStream, joinable, iter, op, result>>
    BY <1>3 DEF WorkerStep, LoopExit, StreamEnd, PushAllocFails, ForwardUnassigned
  <2> QED BY <2>1, <2>2, WorkerMoveKeeps
<1>4. CASE WorkerStep(w) /\ Terminate
  <2>1. pc[w] = "body" /\ m_pushStream = 0
    <3>1. ~(alive' = alive)
      BY <1>4 DEF Terminate
    <3> QED BY <1>4, <3>1 DEF WorkerStep, LoopExit, StreamEnd, PushAllocFails,
                              ForwardUnassigned
  <2>2. m_pullStream # 0 /\ ~freed
    BY <1>1, <2>1, WorkerIsOfAStart
  <2>3. op = "add"
    BY <1>1, <2>1, <2>2 DEF Order, PushAssigned
  <2> QED BY <1>1, <1>4, <2>3, TerminateIsSeen
<1> QED BY <1>2, <1>3, <1>4

---------------------------------------------------------------------------
(* Every step keeps the invariant and is one that the pool allows.         *)
LEMMA NextIsSeen ==
  ASSUME PInv, Next
  PROVE  PInv' /\ (Seen \/ UNCHANGED vars)
<1>1. IInv'
  BY NextIInv DEF PInv
<1>2. ASSUME alive, NEW t \in Thread, PauseSteps(t) PROVE Order' /\ Seen
  <2>1. CASE t = Caller
    BY <1>2, <2>1, CallerTestsKeeps, CallerStopsKeeps, CallerIteratesKeeps,
       JoinNextKeeps, CallerDeletesKeeps DEF PauseSteps
  <2>2. CASE t # Caller
    <3>1. t \in Worker
      BY <2>2 DEF Thread
    <3> QED BY <1>2, <3>1, WorkerStepKeeps, WorkerStopsKeeps, WorkerIteratesKeeps,
               JoinNextKeeps, WorkerDeletesKeeps DEF PauseSteps
  <2> QED BY <2>1, <2>2
<1>3. UNCHANGED vars => Order'
  BY DEF vars, PInv, Order, CallInPlace, PushAssigned, StopHasCause, AddNotices,
         RecordedOnce, HandlesGood, Calm, SelfStopping, Unlaunched, Unrecorded
<1>4. Request => Order' /\ Seen
  BY StartCallKeeps, PauseCallKeeps DEF Request
<1>5. Order' /\ (Seen \/ UNCHANGED vars)
  BY <1>2, <1>3, <1>4, StartStepsKeep, DestroyKeeps, EraseKeeps, WorkerStepKeeps
     DEF Next, LoopIterate, WorkerStep, Ended
<1> QED BY <1>1, <1>5 DEF PInv

(* The state after construction.                                           *)
LEMMA InitPInv == Init => PInv
<1> SUFFICES ASSUME Init PROVE PInv
  OBVIOUS
<1> USE CallerIsNoWorker
<1>1. IInv
  BY InitIInv
<1>2. Calm /\ Unrecorded = {} /\ \A t \in Thread : iter[t] = <<>> /\ pc[t] # "stop"
  BY DEF Init, Calm, SelfStopping, Unrecorded, Thread
<1>3. CallInPlace /\ PushAssigned /\ StopHasCause /\ AddNotices
  BY <1>2 DEF Init, CallInPlace, PushAssigned, StopHasCause, AddNotices,
              StartPC, PausePC
<1>4. RecordedOnce /\ HandlesGood
  BY <1>2, ToSetOfEmpty, InjectiveEmpty DEF Init, RecordedOnce, HandlesGood
<1> QED BY <1>1, <1>3, <1>4 DEF PInv, Order

(* The inductive invariant holds in every reachable state.                 *)
THEOREM PooledInvariance == Spec => []PInv
<1>1. PInv /\ [Next]_vars => PInv'
  <2>1. PInv /\ UNCHANGED vars => PInv'
    BY NextIInv
       DEF vars, PInv, Order, CallInPlace, PushAssigned, StopHasCause, AddNotices,
           RecordedOnce, HandlesGood, Calm, SelfStopping, Unlaunched, Unrecorded
  <2> QED BY <2>1, NextIsSeen
<1> QED BY InitPInv, <1>1, PTL DEF Spec

(* Whatever start(), pause(), the destructor and the workers do in         *)
(* whatever order, TaskScheduler's pool sees one of its own steps in the   *)
(* call that it stands for, and every call reports what the pool holds.    *)
THEOREM ExecutorImplementsPool == Spec => ImplementsPool
<1>1. PInv /\ [Next]_vars => [[PoolStep]_(Pool!poolVars) /\ Reported]_vars
  BY NextIsSeen DEF Seen
<1> QED BY PooledInvariance, <1>1, PTL DEF Spec, ImplementsPool
===========================================================================
