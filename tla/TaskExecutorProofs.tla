------------------------ MODULE TaskExecutorProofs ------------------------
(***************************************************************************)
(* Proofs about TaskExecutor, for any number of start() calls.             *)
(***************************************************************************)
EXTENDS TaskExecutor, TLAPS, SequenceLemmas

(* The workers the Caller has still to launch.                             *)
Unlaunched ==
  {w \in Worker :
     \/ w[2] > m_pullStream
     \/ /\ w[2] = m_pullStream
        /\ \/ pc[Caller] \in {"connect_pull", "spawn_pull"}
           \/ w[1] # "pull" /\ pc[Caller] \in {"record_pull", "spawn_forward"}
           \/ w[1] = "push" /\ pc[Caller] \in {"record_forward", "new_push",
                                               "connect_push", "spawn_push"}}

UnlaunchedIsFresh ==
  \A w \in Unlaunched : pc[w] = "none" /\ w \notin joinable

FreedIsJoined ==
  freed => joinable = {} /\ pc[Caller] \in {"idle", "erase"}

(* The loop that the Caller joins in has every unjoined worker before it:  *)
(* nobody adds to m_threads while the Caller is in pause().                *)
JoinsTheRest ==
  pc[Caller] = "join" => joinable \subseteq ToSet(iter[Caller])

(* m_state is cleared before a pull or forward worker can leave its loop   *)
(* for good, and only a further start() sets it again.                     *)
SetMeansLooping ==
  m_state => \A w \in Worker : w[2] = m_pullStream /\ w[1] # "push"
                                 => pc[w] \in {"none", "body", "pause", "stop"}

(* The Caller is in an operation only after a first start().               *)
BusyMeansStarted ==
  pc[Caller] # "idle" => m_pullStream > 0

(* The inductive invariant.                                                *)
IInv ==
  /\ TypeOK
  /\ BusyMeansStarted
  /\ HandlesRecorded
  /\ UnlaunchedIsFresh
  /\ FreedIsJoined
  /\ JoinsTheRest
  /\ SetMeansLooping

(* The Caller is a thread of its own.                                      *)
LEMMA CallerIsNoWorker == Caller \notin Worker /\ Caller \in Thread
  BY DEF Caller, Worker, Kind, Thread

(* The state after construction is of the right type.                      *)
LEMMA InitTypeOK == Init => TypeOK
<1> SUFFICES ASSUME Init PROVE TypeOK
  OBVIOUS
<1>1. pc \in [Thread -> WorkerPC \union CallerPC]
  BY DEF Init, WorkerPC, CallerPC
<1>2. \A w \in Worker : pc[w] \in WorkerPC
  BY CallerIsNoWorker DEF Init, WorkerPC, Thread
<1>3. pc[Caller] \in CallerPC
  BY CallerIsNoWorker DEF Init, CallerPC
<1>4. iter \in [Thread -> Seq(Worker)] /\ m_threads \in Seq(Worker)
  BY DEF Init
<1>5. op \in Operation /\ result \in Result
  BY DEF Init, Operation, Result
<1>6. /\ alive \in BOOLEAN /\ freed \in BOOLEAN /\ m_state \in BOOLEAN
      /\ joinable \in SUBSET Worker
  BY DEF Init
<1>7. m_pullStream \in 0 .. MaxStarts /\ m_pushStream \in 0 .. MaxStarts
  <2>1. 0 \in 0 .. MaxStarts
    BY MaxStartsAssumption
  <2> QED BY <2>1 DEF Init
<1> QED BY <1>1, <1>2, <1>3, <1>4, <1>5, <1>6, <1>7 DEF TypeOK

(* The state after construction satisfies the inductive invariant.         *)
LEMMA InitIInv == Init => IInv
<1> SUFFICES ASSUME Init PROVE IInv
  OBVIOUS
<1> USE MaxStartsAssumption, CallerIsNoWorker DEF Init
<1>2. HandlesRecorded
  BY DEF HandlesRecorded, Unfinished, Thread
<1>3. UnlaunchedIsFresh
  <2>1. \A w \in Worker : pc[w] = "none" /\ w \notin joinable
    BY DEF Thread
  <2> QED BY <2>1 DEF UnlaunchedIsFresh, Unlaunched
<1>4. FreedIsJoined /\ JoinsTheRest /\ SetMeansLooping /\ BusyMeansStarted
  BY DEF BusyMeansStarted, FreedIsJoined, JoinsTheRest, SetMeansLooping
<1> QED BY InitTypeOK, <1>2, <1>3, <1>4 DEF IInv

(* The program counters of a well-typed state.                             *)
LEMMA GotoCaller ==
  ASSUME TypeOK, NEW l \in CallerPC, Goto(Caller, l)
  PROVE  /\ pc' \in [Thread -> WorkerPC \union CallerPC]
         /\ \A w \in Worker : pc'[w] = pc[w] /\ pc'[w] \in WorkerPC
         /\ pc'[Caller] = l
  BY CallerIsNoWorker DEF TypeOK, Goto, Thread

(* Moving a worker leaves the other threads where they are.                *)
LEMMA GotoWorker ==
  ASSUME TypeOK, NEW w \in Worker, NEW l \in WorkerPC, Goto(w, l)
  PROVE  /\ pc' \in [Thread -> WorkerPC \union CallerPC]
         /\ \A v \in Worker : pc'[v] = (IF v = w THEN l ELSE pc[v])
                               /\ pc'[v] \in WorkerPC
         /\ pc'[Caller] = pc[Caller]
  BY CallerIsNoWorker DEF TypeOK, Goto, Thread

(* pause() returns to the scheduler, to the destructor or to a worker.     *)
LEMMA PauseReturnPC ==
  ASSUME TypeOK, NEW t \in Thread, PauseReturn(t)
  PROVE  /\ pc' \in [Thread -> WorkerPC \union CallerPC]
         /\ \A w \in Worker : pc'[w] = (IF w = t THEN "done" ELSE pc[w])
                               /\ pc'[w] \in WorkerPC
         /\ pc'[Caller] \in CallerPC
         /\ IF t = Caller THEN pc'[Caller] \in {"idle", "destroy"}
                          ELSE pc'[Caller] = pc[Caller]
         /\ op' \in Operation /\ result' \in Result
<1>1. CASE t = Caller
  <2>1. PICK l \in {"idle", "destroy"} : Goto(Caller, l)
    BY <1>1 DEF PauseReturn
  <2>2. l \in CallerPC
    BY DEF CallerPC
  <2>3. op' \in Operation /\ result' \in Result
    BY <1>1 DEF PauseReturn, Operation, Result, TypeOK
  <2> QED BY <1>1, <2>1, <2>2, <2>3, GotoCaller, CallerIsNoWorker
<1>2. CASE t # Caller
  <2>1. t \in Worker /\ Goto(t, "done")
    BY <1>2 DEF PauseReturn, Thread
  <2>2. "done" \in WorkerPC
    BY DEF WorkerPC
  <2>3. op' \in Operation /\ result' \in Result
    BY <1>2 DEF PauseReturn, TypeOK
  <2>4. pc[Caller] \in CallerPC
    BY DEF TypeOK
  <2> QED BY <1>2, <2>1, <2>2, <2>3, <2>4, GotoWorker
<1> QED BY <1>1, <1>2

(* A step inside pause(), by either kind of thread.                        *)
LEMMA GotoPause ==
  ASSUME TypeOK, NEW t \in Thread, NEW l \in PausePC, Goto(t, l)
  PROVE  /\ pc' \in [Thread -> WorkerPC \union CallerPC]
         /\ \A w \in Worker : pc'[w] = (IF w = t THEN l ELSE pc[w])
                               /\ pc'[w] \in WorkerPC
         /\ pc'[Caller] \in CallerPC
         /\ pc'[Caller] = IF t = Caller THEN l ELSE pc[Caller]
<1>1. l \in WorkerPC /\ l \in CallerPC
  BY DEF WorkerPC, CallerPC
<1>2. CASE t = Caller
  BY <1>1, <1>2, GotoCaller, CallerIsNoWorker
<1>3. CASE t # Caller
  <2>1. t \in Worker /\ pc[Caller] \in CallerPC
    BY <1>3 DEF Thread, TypeOK
  <2> QED BY <1>1, <1>3, <2>1, GotoWorker
<1> QED BY <1>2, <1>3

(* A new worker thread and its handle are of the right type.               *)
LEMMA SpawnTypeOK ==
  ASSUME TypeOK, BusyMeansStarted, NEW k \in Kind, NEW at, at # "idle",
         NEW l \in CallerPC, Spawn(k, at, l)
  PROVE  /\ <<k, m_pullStream>> \in Worker
         /\ pc' \in [Thread -> WorkerPC \union CallerPC]
         /\ \A w \in Worker : /\ pc'[w] = (IF w = <<k, m_pullStream>>
                                           THEN "body" ELSE pc[w])
                               /\ pc'[w] \in WorkerPC
         /\ pc'[Caller] = l
         /\ joinable' \subseteq Worker
<1> DEFINE v == <<k, m_pullStream>>
<1>1. v \in Worker /\ "body" \in WorkerPC
  BY MaxStartsAssumption DEF TypeOK, BusyMeansStarted, Spawn, Worker, Gen, WorkerPC
<1>2. pc' = [pc EXCEPT ![Caller] = l, ![v] = "body"]
      /\ joinable' = joinable \union {v}
  BY DEF Spawn
<1> HIDE DEF v
<1> QED BY <1>1, <1>2, CallerIsNoWorker DEF TypeOK, Thread, v

(* The worker's own steps.                                                 *)
WorkerStep(w) == \/ LoopExit(w) \/ StreamEnd(w) \/ PushAllocFails(w)
                 \/ ForwardUnassigned(w)

(* Every step keeps the types.                                             *)
LEMMA NextTypeOK ==
  ASSUME TypeOK, BusyMeansStarted, [Next]_vars
  PROVE  TypeOK'
<1> USE MaxStartsAssumption
<1>1. ASSUME NEW o \in {"add", "start"}, StartCall(o) PROVE TypeOK'
  <2>1. "connect_pull" \in CallerPC /\ o \in Operation /\ "none" \in Result
    BY DEF CallerPC, StartPC, Operation, Result
  <2> QED BY <1>1, <2>1, GotoCaller DEF StartCall, TypeOK
<1>2. ASSUME NEW o \in {"pause", "remove"}, PauseCall(o) PROVE TypeOK'
  <2>1. "pause" \in CallerPC /\ o \in Operation /\ "none" \in Result
    BY DEF CallerPC, PausePC, Operation, Result
  <2> QED BY <1>2, <2>1, GotoCaller DEF PauseCall, TypeOK
<1>3. ASSUME Terminate PROVE TypeOK'
  BY <1>3 DEF Terminate, TypeOK
<1>4. ASSUME NEW at, NEW l \in CallerPC, Connect(at, l) PROVE TypeOK'
  <2>1. "launch_failed" \in CallerPC
    BY DEF CallerPC, StartPC
  <2> QED BY <1>4, <2>1, GotoCaller DEF Connect, TypeOK
<1>5. ASSUME NEW k \in Kind, NEW at, at # "idle", NEW l \in CallerPC,
             Spawn(k, at, l)
      PROVE TypeOK'
  <2>1. UNCHANGED <<alive, freed, m_state, m_threads, m_pullStream,
                    m_pushStream, iter, op, result>>
    BY <1>5 DEF Spawn
  <2> QED BY <1>5, <2>1, SpawnTypeOK DEF TypeOK
<1>6. ASSUME NEW k \in Kind, NEW at, at # "idle", NEW l \in CallerPC,
             Record(k, at, l)
      PROVE TypeOK'
  <2>1. CASE Terminate
    BY <1>3, <2>1
  <2>2. CASE m_threads' = Append(m_threads, <<k, m_pullStream>>)
             /\ Goto(Caller, l)
             /\ UNCHANGED <<alive, freed, m_state, m_pullStream, m_pushStream,
                            joinable, iter, op, result>>
    <3>1. <<k, m_pullStream>> \in Worker
      BY <1>6 DEF TypeOK, BusyMeansStarted, Record, Worker, Gen
    <3>2. m_threads' \in Seq(Worker)
      BY <2>2, <3>1, AppendProperties DEF TypeOK
    <3> QED BY <2>2, <3>2, GotoCaller DEF TypeOK
  <2> QED BY <1>6, <2>1, <2>2 DEF Record
<1>7. ASSUME NewPushStream PROVE TypeOK'
  <2>1. "connect_push" \in CallerPC
    BY DEF CallerPC, StartPC
  <2> QED BY <1>7, <2>1, GotoCaller DEF NewPushStream, TypeOK
<1>8. ASSUME StartReturned \/ LaunchFailed PROVE TypeOK'
  <2>1. PICK l \in {"idle", "launch_failed", "pause"} : Goto(Caller, l)
    BY <1>8 DEF StartReturned, LaunchFailed
  <2>2. l \in CallerPC
    BY DEF CallerPC, StartPC, PausePC
  <2>3. op' \in Operation /\ result' \in Result
    BY <1>8 DEF StartReturned, LaunchFailed, Operation, Result, TypeOK
  <2> QED BY <1>8, <2>1, <2>2, <2>3, GotoCaller
          DEF StartReturned, LaunchFailed, TypeOK
<1>9. ASSUME StartSteps PROVE TypeOK'
  <2>1. {"spawn_pull", "spawn_push", "record_pull", "spawn_forward", "record_forward",
         "new_push", "record_push", "started"} \subseteq CallerPC
    BY DEF CallerPC, StartPC
  <2>2. Kind = {"pull", "forward", "push"}
    BY DEF Kind
  <2>3. ASSUME Connect("connect_pull", "spawn_pull")
               \/ Connect("connect_push", "spawn_push")
        PROVE  TypeOK'
    BY <1>4, <2>1, <2>3
  <2>4. ASSUME \/ Spawn("pull", "spawn_pull", "record_pull")
               \/ Spawn("forward", "spawn_forward", "record_forward")
               \/ Spawn("push", "spawn_push", "record_push")
        PROVE  TypeOK'
    BY <1>5, <2>1, <2>2, <2>4
  <2>5. ASSUME \/ Record("pull", "record_pull", "spawn_forward")
               \/ Record("forward", "record_forward", "new_push")
               \/ Record("push", "record_push", "started")
        PROVE  TypeOK'
    BY <1>6, <2>1, <2>2, <2>5
  <2> QED BY <1>7, <1>8, <1>9, <2>3, <2>4, <2>5 DEF StartSteps
<1>10. ASSUME Destroy \/ EraseFailedAdd PROVE TypeOK'
  <2>1. CASE Terminate
    BY <1>3, <2>1
  <2>2. CASE ~Terminate
    <3>1. PICK l \in {"erase", "idle"} : Goto(Caller, l)
      BY <1>10, <2>2 DEF Destroy, EraseFailedAdd
    <3>2. l \in CallerPC
      BY DEF CallerPC
    <3>3. op' \in Operation /\ result' \in Result
      BY <1>10, <2>2 DEF Destroy, EraseFailedAdd, Operation, Result, TypeOK
    <3>4. m_threads' \in Seq(Worker) /\ freed' \in BOOLEAN
      <4>1. <<>> \in Seq(Worker)
        OBVIOUS
      <4>2. CASE Destroy
        BY <2>2, <4>1, <4>2 DEF Destroy
      <4>3. CASE EraseFailedAdd
        BY <2>2, <4>3 DEF EraseFailedAdd, TypeOK
      <4> QED BY <1>10, <4>2, <4>3
    <3>5. UNCHANGED <<alive, m_state, m_pullStream, m_pushStream, joinable,
                      iter>>
      BY <1>10, <2>2 DEF Destroy, EraseFailedAdd
    <3> QED BY <3>1, <3>2, <3>3, <3>4, <3>5, GotoCaller DEF TypeOK
  <2> QED BY <2>1, <2>2
<1>11. ASSUME NEW t \in Thread, PauseSteps(t) PROVE TypeOK'
  <2>1. {"stop", "iterate", "join"} \subseteq PausePC
    BY DEF PausePC
  <2>2. CASE PauseTest(t)
    BY <2>1, <2>2, GotoPause, PauseReturnPC DEF PauseTest, TypeOK
  <2>3. CASE PauseStop(t)
    BY <2>1, <2>3, GotoPause DEF PauseStop, TypeOK
  <2>4. CASE PauseIterate(t)
    <3>1. iter' \in [Thread -> Seq(Worker)]
      BY <2>4 DEF PauseIterate, TypeOK
    <3> QED BY <2>1, <2>4, <3>1, GotoPause DEF PauseIterate, TypeOK
  <2>5. CASE JoinNext(t) /\ ~Terminate
    <3>1. iter[t] \in Seq(Worker) /\ iter[t] # <<>>
      BY <2>5 DEF JoinNext, TypeOK
    <3>2. Tail(iter[t]) \in Seq(Worker)
      BY <3>1
    <3>3. iter' \in [Thread -> Seq(Worker)]
      BY <2>5, <3>2 DEF JoinNext, TypeOK
    <3> QED BY <2>5, <3>3 DEF JoinNext, TypeOK
  <2>6. CASE DeleteHandles(t) /\ ~Terminate
    BY <2>6, PauseReturnPC DEF DeleteHandles, TypeOK
  <2> QED BY <1>3, <1>11, <2>2, <2>3, <2>4, <2>5, <2>6 DEF PauseSteps
<1>12. ASSUME NEW w \in Worker, WorkerStep(w) PROVE TypeOK'
  <2>1. CASE Terminate
    BY <1>3, <2>1
  <2>2. CASE ~Terminate
    <3>1. PICK l \in {"done", "pause"} : Goto(w, l)
      BY <1>12, <2>2 DEF WorkerStep, LoopExit, StreamEnd, PushAllocFails,
                         ForwardUnassigned
    <3>2. l \in WorkerPC
      BY DEF WorkerPC, PausePC
    <3>3. pc[Caller] \in CallerPC
      BY DEF TypeOK
    <3>4. UNCHANGED <<alive, freed, m_state, m_threads, m_pullStream,
                      m_pushStream, joinable, iter, op, result>>
      BY <1>12, <2>2 DEF WorkerStep, LoopExit, StreamEnd, PushAllocFails,
                         ForwardUnassigned
    <3> QED BY <3>1, <3>2, <3>3, <3>4, GotoWorker DEF TypeOK
  <2> QED BY <2>1, <2>2
<1>13. ASSUME UNCHANGED vars PROVE TypeOK'
  BY <1>13 DEF vars, TypeOK
<1> QED BY <1>1, <1>2, <1>9, <1>10, <1>11, <1>12, <1>13
        DEF Next, Request, LoopIterate, Ended, WorkerStep

---------------------------------------------------------------------------
(* Every step keeps the rest of the invariant: one case per action, and in *)
(* it one step per conjunct that the action can disturb.                   *)
LEMMA NextIInv ==
  ASSUME IInv, [Next]_vars
  PROVE  IInv'
<1> USE CallerIsNoWorker
<1>1. TypeOK' /\ TypeOK /\ BusyMeansStarted
  BY NextTypeOK DEF IInv
<1> DEFINE Rest == /\ BusyMeansStarted /\ HandlesRecorded
                   /\ UnlaunchedIsFresh /\ FreedIsJoined /\ JoinsTheRest
                   /\ SetMeansLooping
<1>2. Rest
  BY DEF IInv
<1>3. ASSUME Terminate PROVE Rest'
  BY <1>2, <1>3 DEF Terminate, BusyMeansStarted, HandlesRecorded, Unfinished,
     Unrecorded, UnlaunchedIsFresh, Unlaunched, FreedIsJoined, JoinsTheRest,
     SetMeansLooping
<1>4. ASSUME NEW o \in {"add", "start"}, StartCall(o) PROVE Rest'
  <2>1. /\ pc[Caller] = "idle" /\ pc'[Caller] = "connect_pull"
        /\ \A w \in Worker : pc'[w] = pc[w]
        /\ m_pullStream' = m_pullStream + 1 /\ m_pullStream \in Nat
        /\ ~freed /\ UNCHANGED <<freed, joinable, m_threads, iter>>
    <3>1. "connect_pull" \in CallerPC
      BY DEF CallerPC, StartPC
    <3> QED BY <1>1, <1>4, <3>1, GotoCaller, MaxStartsAssumption
            DEF StartCall, TypeOK
  <2>2. BusyMeansStarted'
    BY <2>1 DEF BusyMeansStarted
  <2>3. HandlesRecorded'
    BY <1>2, <2>1 DEF HandlesRecorded, Unfinished, Unrecorded
  <2>4. \A w \in Worker : w[2] >= m_pullStream' => pc[w] = "none" /\ w \notin joinable
    BY <1>2, <2>1, MaxStartsAssumption DEF UnlaunchedIsFresh, Unlaunched, Worker, Gen
  <2>5. UnlaunchedIsFresh'
    BY <2>1, <2>4, MaxStartsAssumption DEF UnlaunchedIsFresh, Unlaunched, Worker, Gen
  <2>6. FreedIsJoined' /\ JoinsTheRest'
    BY <2>1 DEF FreedIsJoined, JoinsTheRest
  <2>7. SetMeansLooping'
    BY <2>1, <2>4, MaxStartsAssumption DEF SetMeansLooping, Worker, Gen
  <2> QED BY <2>2, <2>3, <2>5, <2>6, <2>7
<1>5. ASSUME NEW l \in CallerPC, Goto(Caller, l), l # "join", m_pullStream > 0,
             UNCHANGED <<freed, m_threads, m_pullStream, joinable, iter>>,
             m_state' => m_state, Unrecorded = {}, Unlaunched' \subseteq Unlaunched,
             freed => l = "idle"
      PROVE  Rest'
  <2>1. /\ \A w \in Worker : pc'[w] = pc[w]
        /\ pc'[Caller] = l
    BY <1>1, <1>5, GotoCaller
  <2>2. HandlesRecorded'
    BY <1>2, <1>5, <2>1 DEF HandlesRecorded, Unfinished
  <2>3. UnlaunchedIsFresh'
    <3>1. Unlaunched' \subseteq Worker
      BY DEF Unlaunched
    <3> QED BY <1>2, <1>5, <2>1, <3>1 DEF UnlaunchedIsFresh
  <2>4. SetMeansLooping'
    BY <1>2, <1>5, <2>1 DEF SetMeansLooping
  <2> QED BY <1>2, <1>5, <2>1, <2>2, <2>3, <2>4
          DEF BusyMeansStarted, FreedIsJoined, JoinsTheRest
<1>6. ASSUME NEW o \in {"pause", "remove"}, PauseCall(o) PROVE Rest'
  <2>1. pc'[Caller] = "pause" /\ "pause" \in CallerPC /\ Goto(Caller, "pause")
    BY <1>1, <1>6, GotoCaller DEF PauseCall, CallerPC, PausePC
  <2>2. Unrecorded = {} /\ Unlaunched' \subseteq Unlaunched
    BY <1>6, <2>1 DEF PauseCall, Unrecorded, Unlaunched
  <2> QED BY <1>5, <1>6, <2>1, <2>2 DEF PauseCall
<1>7. ASSUME NEW at, NEW l \in CallerPC, Connect(at, l),
             <<at, l>> \in {<<"connect_pull", "spawn_pull">>,
                            <<"connect_push", "spawn_push">>}
      PROVE  Rest'
  <2>1. PICK m \in {l, "launch_failed"} : Goto(Caller, m)
    BY <1>7 DEF Connect
  <2>2. m \in CallerPC /\ m # "join"
    BY <1>7 DEF CallerPC, StartPC
  <2>3. pc'[Caller] = m
    BY <1>1, <2>1, <2>2, GotoCaller
  <2>4. Unrecorded = {} /\ Unlaunched' \subseteq Unlaunched /\ ~freed
        /\ m_pullStream > 0
    BY <1>2, <1>7, <2>3 DEF Connect, Unrecorded, Unlaunched, FreedIsJoined, BusyMeansStarted
  <2> QED BY <1>5, <1>7, <2>1, <2>2, <2>4 DEF Connect
<1>8. ASSUME NEW k \in Kind, NEW at, NEW l \in CallerPC, Spawn(k, at, l),
             <<k, at, l>> \in {<<"pull", "spawn_pull", "record_pull">>,
                               <<"forward", "spawn_forward", "record_forward">>,
                               <<"push", "spawn_push", "record_push">>}
      PROVE  Rest'
  <2> DEFINE v == <<k, m_pullStream>>
  <2>1. /\ v \in Worker
        /\ \A w \in Worker : pc'[w] = IF w = v THEN "body" ELSE pc[w]
        /\ pc'[Caller] = l
    <3>1. at # "idle"
      BY <1>8
    <3> QED BY <1>1, <1>8, <3>1, SpawnTypeOK
  <2>2. /\ pc[Caller] = at /\ joinable' = joinable \union {v}
        /\ UNCHANGED <<freed, m_state, m_threads, m_pullStream, iter>>
        /\ v[1] = k /\ v[2] = m_pullStream
    BY <1>8 DEF Spawn
  <2>3. v \in Unrecorded' /\ Unrecorded = {} /\ Unlaunched' \subseteq Unlaunched \ {v}
    <3> HIDE DEF v
    <3>1. \/ k = "pull" /\ at = "spawn_pull" /\ l = "record_pull"
          \/ k = "forward" /\ at = "spawn_forward" /\ l = "record_forward"
          \/ k = "push" /\ at = "spawn_push" /\ l = "record_push"
      BY <1>8
    <3>2. v \in Unrecorded' /\ Unrecorded = {}
      BY <2>1, <2>2, <3>1 DEF Unrecorded
    <3>3. v \notin Unlaunched'
      BY <1>1, <2>1, <2>2, <3>1, MaxStartsAssumption DEF Unlaunched, TypeOK
    <3>4. Unlaunched' \subseteq Unlaunched
      BY <2>1, <2>2, <3>1 DEF Unlaunched
    <3> QED BY <3>2, <3>3, <3>4
  <2> HIDE DEF v
  <2>4. HandlesRecorded'
    BY <1>2, <2>1, <2>2, <2>3 DEF HandlesRecorded, Unfinished
  <2>5. UnlaunchedIsFresh'
    <3>1. Unlaunched' \subseteq Worker
      BY DEF Unlaunched
    <3> QED BY <1>2, <2>1, <2>2, <2>3, <3>1 DEF UnlaunchedIsFresh
  <2>6. SetMeansLooping'
    BY <1>2, <2>1, <2>2 DEF SetMeansLooping
  <2>7. BusyMeansStarted' /\ FreedIsJoined' /\ JoinsTheRest'
    BY <1>2, <1>8, <2>1, <2>2 DEF BusyMeansStarted, FreedIsJoined, JoinsTheRest
  <2> QED BY <2>4, <2>5, <2>6, <2>7
<1>9. ASSUME NEW k \in Kind, NEW at, NEW l \in CallerPC, Record(k, at, l),
             ~Terminate,
             <<k, at, l>> \in {<<"pull", "record_pull", "spawn_forward">>,
                               <<"forward", "record_forward", "new_push">>,
                               <<"push", "record_push", "started">>}
      PROVE  Rest'
  <2> DEFINE v == <<k, m_pullStream>>
  <2>1. /\ pc[Caller] = at /\ Goto(Caller, l)
        /\ m_threads' = Append(m_threads, v)
        /\ UNCHANGED <<freed, m_state, m_pullStream, joinable, iter>>
    BY <1>9 DEF Record
  <2>2. pc'[Caller] = l /\ \A w \in Worker : pc'[w] = pc[w]
    BY <1>1, <2>1, GotoCaller
  <2>3. ToSet(m_threads') = ToSet(m_threads) \union {v}
    <3>1. v \in Worker /\ m_threads \in Seq(Worker)
      BY <1>1, <1>9, <2>1, MaxStartsAssumption
         DEF BusyMeansStarted, TypeOK, Worker, Gen
    <3> QED BY <2>1, <3>1, ToSetOfAppend
  <2>4. Unrecorded \subseteq {v} /\ Unlaunched' \subseteq Unlaunched
    <3>1. \A w \in Worker : w = <<w[1], w[2]>>
      BY DEF Worker
    <3> QED BY <1>9, <2>1, <2>2, <3>1 DEF Unrecorded, Unlaunched
  <2>5. HandlesRecorded'
    BY <1>2, <2>1, <2>2, <2>3, <2>4 DEF HandlesRecorded, Unfinished
  <2>6. UnlaunchedIsFresh'
    <3>1. Unlaunched' \subseteq Worker
      BY DEF Unlaunched
    <3> QED BY <1>2, <2>1, <2>2, <2>4, <3>1 DEF UnlaunchedIsFresh
  <2>7. SetMeansLooping'
    BY <1>2, <2>1, <2>2 DEF SetMeansLooping
  <2>8. BusyMeansStarted' /\ FreedIsJoined' /\ JoinsTheRest'
    BY <1>2, <1>9, <2>1, <2>2 DEF BusyMeansStarted, FreedIsJoined, JoinsTheRest
  <2> QED BY <2>5, <2>6, <2>7, <2>8
<1>10. ASSUME NewPushStream PROVE Rest'
  <2>1. "connect_push" \in CallerPC /\ Goto(Caller, "connect_push")
    BY <1>10 DEF NewPushStream, CallerPC, StartPC
  <2>2. pc'[Caller] = "connect_push" /\ pc[Caller] = "new_push"
    BY <1>1, <1>10, <2>1, GotoCaller DEF NewPushStream
  <2>3. Unrecorded = {} /\ Unlaunched' \subseteq Unlaunched /\ ~freed
        /\ m_pullStream > 0
    BY <1>2, <1>10, <2>2
       DEF NewPushStream, Unrecorded, Unlaunched, FreedIsJoined, BusyMeansStarted
  <2> QED BY <1>5, <1>10, <2>1, <2>3 DEF NewPushStream
<1>11. ASSUME StartReturned \/ LaunchFailed PROVE Rest'
  <2>1. PICK l \in {"idle", "launch_failed", "pause"} : Goto(Caller, l)
    BY <1>11 DEF StartReturned, LaunchFailed
  <2>2. l \in CallerPC /\ l # "join"
    BY DEF CallerPC, StartPC, PausePC
  <2>3. pc'[Caller] = l /\ pc[Caller] \in {"started", "launch_failed"}
    BY <1>1, <1>11, <2>1, <2>2, GotoCaller DEF StartReturned, LaunchFailed
  <2>4. Unrecorded = {} /\ Unlaunched' \subseteq Unlaunched /\ ~freed
        /\ m_pullStream > 0
    BY <1>2, <1>11, <2>3
       DEF StartReturned, LaunchFailed, Unrecorded, Unlaunched, FreedIsJoined,
           BusyMeansStarted
  <2> QED BY <1>5, <1>11, <2>1, <2>2, <2>4 DEF StartReturned, LaunchFailed
<1>12. ASSUME Destroy, ~Terminate PROVE Rest'
  <2>1. PICK l \in {"erase", "idle"} : Goto(Caller, l)
    BY <1>12 DEF Destroy
  <2>2. l \in CallerPC
    BY DEF CallerPC
  <2>3. /\ pc[Caller] = "destroy" /\ pc'[Caller] = l
        /\ \A w \in Worker : pc'[w] = pc[w]
        /\ ToSet(m_threads) \intersect joinable = {}
        /\ UNCHANGED <<m_state, m_pullStream, joinable, iter>>
    BY <1>1, <1>12, <2>1, <2>2, GotoCaller DEF Destroy
  <2>4. Unrecorded = {} /\ Unlaunched' \subseteq Unlaunched
    BY <2>3 DEF Unrecorded, Unlaunched
  <2>5. joinable = {} /\ Unfinished = {}
    BY <1>2, <2>3, <2>4 DEF HandlesRecorded
  <2>6. HandlesRecorded'
    BY <2>3, <2>5 DEF HandlesRecorded, Unfinished
  <2>7. UnlaunchedIsFresh'
    <3>1. Unlaunched' \subseteq Worker
      BY DEF Unlaunched
    <3> QED BY <1>2, <2>3, <2>4, <3>1 DEF UnlaunchedIsFresh
  <2>8. SetMeansLooping'
    BY <1>2, <2>3 DEF SetMeansLooping
  <2>9. BusyMeansStarted' /\ FreedIsJoined' /\ JoinsTheRest'
    BY <1>2, <2>3, <2>5 DEF BusyMeansStarted, FreedIsJoined, JoinsTheRest
  <2> QED BY <2>6, <2>7, <2>8, <2>9
<1>13. ASSUME EraseFailedAdd, ~Terminate PROVE Rest'
  <2>1. "idle" \in CallerPC /\ Goto(Caller, "idle") /\ pc[Caller] = "erase"
    BY <1>13 DEF EraseFailedAdd, CallerPC
  <2>2. pc'[Caller] = "idle"
    BY <1>1, <2>1, GotoCaller
  <2>3. Unrecorded = {} /\ Unlaunched' \subseteq Unlaunched /\ m_pullStream > 0
    BY <1>2, <1>13, <2>1, <2>2
       DEF EraseFailedAdd, Unrecorded, Unlaunched, BusyMeansStarted
  <2> QED BY <1>5, <1>13, <2>1, <2>3 DEF EraseFailedAdd
<1>14. ASSUME NEW w \in Worker, pc[w] \notin {"none", "done"},
              NEW l \in WorkerPC \ {"none"}, Goto(w, l), m_state' => m_state,
              m_state' /\ w[2] = m_pullStream /\ w[1] # "push"
                => l \in {"body", "pause", "stop"},
              iter'[Caller] = iter[Caller],
              UNCHANGED <<freed, m_threads, m_pullStream, joinable>>
       PROVE  Rest'
  <2>1. /\ \A v \in Worker : pc'[v] = IF v = w THEN l ELSE pc[v]
        /\ pc'[Caller] = pc[Caller]
    BY <1>1, <1>14, GotoWorker
  <2>2. HandlesRecorded'
    BY <1>2, <1>14, <2>1 DEF HandlesRecorded, Unfinished, Unrecorded
  <2>3. UnlaunchedIsFresh'
    BY <1>2, <1>14, <2>1 DEF UnlaunchedIsFresh, Unlaunched
  <2>4. SetMeansLooping'
    BY <1>2, <1>14, <2>1 DEF SetMeansLooping
  <2> QED BY <1>2, <1>14, <2>1, <2>2, <2>3, <2>4
          DEF BusyMeansStarted, FreedIsJoined, JoinsTheRest
<1>15. ASSUME NEW w \in Worker, WorkerStep(w), ~Terminate PROVE Rest'
  <2>1. PICK l \in {"done", "pause"} :
          /\ Goto(w, l)
          /\ l = "done" => ~m_state \/ w[1] = "push"
    BY <1>15 DEF WorkerStep, LoopExit, StreamEnd, PushAllocFails, ForwardUnassigned
  <2>2. /\ pc[w] = "body"
        /\ UNCHANGED <<freed, m_state, m_threads, m_pullStream, joinable, iter>>
    BY <1>15 DEF WorkerStep, LoopExit, StreamEnd, PushAllocFails, ForwardUnassigned
  <2>3. l \in WorkerPC \ {"none"}
    BY DEF WorkerPC, PausePC
  <2> QED BY <1>14, <2>1, <2>2, <2>3
<1>16. ASSUME NEW t \in Thread, PauseTest(t) \/ PauseStop(t) PROVE Rest'
  <2>1. CASE t = Caller
    <3>1. PICK l \in {"stop", "iterate", "idle", "destroy"} : Goto(t, l)
      BY <1>16, <2>1 DEF PauseTest, PauseStop, PauseReturn
    <3>2. l \in CallerPC
      BY DEF CallerPC, PausePC
    <3>3. pc'[Caller] = l /\ pc[Caller] \in {"pause", "stop"}
      BY <1>1, <1>16, <2>1, <3>1, <3>2, GotoCaller DEF PauseTest, PauseStop
    <3>4. Unrecorded = {} /\ Unlaunched' \subseteq Unlaunched /\ ~freed
          /\ m_pullStream > 0
      BY <1>2, <1>16, <3>3
         DEF PauseTest, PauseStop, Unrecorded, Unlaunched, FreedIsJoined,
             BusyMeansStarted
    <3> QED BY <1>5, <1>16, <2>1, <3>1, <3>2, <3>4 DEF PauseTest, PauseStop
  <2>2. CASE t # Caller
    <3>1. t \in Worker
      BY <2>2 DEF Thread
    <3>2. PICK l \in {"stop", "iterate", "done"} : Goto(t, l)
      BY <1>16, <2>2 DEF PauseTest, PauseStop, PauseReturn
    <3>3. l \in WorkerPC \ {"none"}
      BY DEF WorkerPC, PausePC
    <3>4. pc'[t] = l
      BY <1>1, <3>1, <3>2, <3>3, GotoWorker
    <3>5. m_state' => m_state /\ l = "stop"
      <4>1. CASE PauseStop(t)
        BY <4>1 DEF PauseStop
      <4>2. CASE PauseTest(t) /\ m_state
        <5>1. Goto(t, "stop") /\ "stop" \in WorkerPC
          BY <4>2 DEF PauseTest, WorkerPC, PausePC
        <5> QED BY <1>1, <3>1, <3>4, <4>2, <5>1, GotoWorker DEF PauseTest
      <4>3. CASE PauseTest(t) /\ ~m_state
        BY <4>3 DEF PauseTest
      <4> QED BY <1>16, <4>1, <4>2, <4>3
    <3>6. pc[t] \notin {"none", "done"}
          /\ UNCHANGED <<freed, m_threads, m_pullStream, joinable, iter>>
      BY <1>16 DEF PauseTest, PauseStop
    <3> QED BY <1>14, <3>1, <3>2, <3>3, <3>5, <3>6
  <2> QED BY <2>1, <2>2
<1>17. ASSUME NEW t \in Thread, PauseIterate(t) PROVE Rest'
  <2>1. /\ "join" \in PausePC /\ Goto(t, "join") /\ pc[t] = "iterate"
        /\ iter' = [iter EXCEPT ![t] = m_threads]
        /\ UNCHANGED <<freed, m_state, m_threads, m_pullStream, joinable>>
    BY <1>17 DEF PauseIterate, PausePC
  <2>2. CASE t = Caller
    <3>1. /\ pc'[Caller] = "join" /\ iter'[Caller] = m_threads
          /\ \A w \in Worker : pc'[w] = pc[w]
      BY <1>1, <2>1, <2>2, GotoPause DEF TypeOK
    <3>2. Unrecorded = {} /\ Unrecorded' = {} /\ Unlaunched' \subseteq Unlaunched
      BY <2>1, <2>2, <3>1 DEF Unrecorded, Unlaunched
    <3>3. HandlesRecorded' /\ JoinsTheRest'
      BY <1>2, <2>1, <3>1, <3>2 DEF HandlesRecorded, Unfinished, JoinsTheRest
    <3>4. UnlaunchedIsFresh'
      <4>1. Unlaunched' \subseteq Worker
        BY DEF Unlaunched
      <4> QED BY <1>2, <2>1, <3>1, <3>2, <4>1 DEF UnlaunchedIsFresh
    <3>5. SetMeansLooping' /\ BusyMeansStarted' /\ FreedIsJoined'
      BY <1>2, <2>1, <2>2, <3>1
         DEF SetMeansLooping, BusyMeansStarted, FreedIsJoined
    <3> QED BY <3>3, <3>4, <3>5
  <2>3. CASE t # Caller
    <3>1. t \in Worker /\ "join" \in WorkerPC \ {"none"}
      BY <2>3 DEF Thread, WorkerPC, PausePC
    <3>2. m_state /\ t[2] = m_pullStream => t[1] = "push"
      BY <1>2, <2>1, <3>1 DEF SetMeansLooping
    <3>3. iter'[Caller] = iter[Caller]
      BY <1>1, <2>1, <2>3 DEF TypeOK
    <3> QED BY <1>14, <2>1, <3>1, <3>2, <3>3
  <2> QED BY <2>2, <2>3
<1>18. ASSUME NEW t \in Thread, JoinNext(t), ~Terminate PROVE Rest'
  <2> DEFINE v == Head(iter[t])
  <2>1. /\ iter[t] # <<>> /\ pc[v] = "done" /\ joinable' = joinable \ {v}
        /\ iter' = [iter EXCEPT ![t] = Tail(@)]
        /\ UNCHANGED <<freed, m_state, m_threads, m_pullStream, pc>>
    BY <1>18 DEF JoinNext
  <2>2. HandlesRecorded'
    BY <1>2, <2>1 DEF HandlesRecorded, Unfinished, Unrecorded
  <2>3. JoinsTheRest'
    <3>1. CASE t = Caller
      <4>1. ToSet(iter[Caller]) = ToSet(iter'[Caller]) \union {v}
        <5>1. iter[Caller] \in Seq(Worker) /\ iter'[Caller] = Tail(iter[Caller])
          BY <1>1, <2>1, <3>1 DEF TypeOK
        <5> QED BY <2>1, <3>1, <5>1, ToSetOfTail
      <4> QED BY <1>2, <2>1, <4>1 DEF JoinsTheRest
    <3>2. CASE t # Caller
      <4>1. iter'[Caller] = iter[Caller]
        BY <1>1, <2>1, <3>2 DEF TypeOK
      <4> QED BY <1>2, <2>1, <4>1 DEF JoinsTheRest
    <3> QED BY <3>1, <3>2
  <2>4. UnlaunchedIsFresh' /\ SetMeansLooping' /\ BusyMeansStarted' /\ FreedIsJoined'
    BY <1>2, <2>1 DEF UnlaunchedIsFresh, Unlaunched, SetMeansLooping,
                      BusyMeansStarted, FreedIsJoined
  <2> QED BY <2>2, <2>3, <2>4
<1>19. ASSUME NEW t \in Thread, DeleteHandles(t), ~Terminate PROVE Rest'
  <2>1. /\ pc[t] = "join" /\ iter[t] = <<>> /\ PauseReturn(t)
        /\ ToSet(m_threads) \intersect joinable = {} /\ m_threads' = <<>>
        /\ UNCHANGED <<freed, m_state, m_pullStream, joinable, iter>>
    BY <1>19 DEF DeleteHandles
  <2>2. /\ \A w \in Worker : pc'[w] = IF w = t THEN "done" ELSE pc[w]
        /\ pc'[Caller] \in IF t = Caller THEN {"idle", "destroy"} ELSE {pc[Caller]}
    BY <1>1, <2>1, PauseReturnPC
  <2>3. Unrecorded' = Unrecorded /\ Unlaunched' \subseteq Unlaunched
    BY <2>1, <2>2 DEF Unrecorded, Unlaunched
  <2>4. HandlesRecorded'
    <3>1. Unfinished' \subseteq Unfinished
      BY <2>1, <2>2 DEF Unfinished
    <3> QED BY <1>2, <2>1, <2>3, <3>1 DEF HandlesRecorded
  <2>5. UnlaunchedIsFresh'
    <3>1. Unlaunched' \subseteq Worker
      BY DEF Unlaunched
    <3> QED BY <1>2, <2>1, <2>2, <2>3, <3>1 DEF UnlaunchedIsFresh
  <2>6. SetMeansLooping'
    BY <1>2, <2>1, <2>2 DEF SetMeansLooping
  <2>7. BusyMeansStarted' /\ FreedIsJoined' /\ JoinsTheRest'
    BY <1>2, <2>1, <2>2 DEF BusyMeansStarted, FreedIsJoined, JoinsTheRest
  <2> QED BY <2>4, <2>5, <2>6, <2>7
<1>20. ASSUME UNCHANGED vars PROVE Rest'
  BY <1>2, <1>20 DEF vars, BusyMeansStarted, HandlesRecorded, Unfinished,
     Unrecorded, UnlaunchedIsFresh, Unlaunched, FreedIsJoined, JoinsTheRest,
     SetMeansLooping
<1>21. ASSUME StartSteps PROVE Rest'
  <2>1. {"spawn_pull", "spawn_push", "record_pull", "spawn_forward", "record_forward",
         "new_push", "record_push", "started"} \subseteq CallerPC
    BY DEF CallerPC, StartPC
  <2>2. Kind = {"pull", "forward", "push"}
    BY DEF Kind
  <2>3. ASSUME Connect("connect_pull", "spawn_pull")
               \/ Connect("connect_push", "spawn_push")
        PROVE  Rest'
    BY <1>7, <2>1, <2>3
  <2>4. ASSUME \/ Spawn("pull", "spawn_pull", "record_pull")
               \/ Spawn("forward", "spawn_forward", "record_forward")
               \/ Spawn("push", "spawn_push", "record_push")
        PROVE  Rest'
    BY <1>8, <2>1, <2>2, <2>4
  <2>5. ASSUME \/ Record("pull", "record_pull", "spawn_forward")
               \/ Record("forward", "record_forward", "new_push")
               \/ Record("push", "record_push", "started")
        PROVE  Rest'
    BY <1>3, <1>9, <2>1, <2>2, <2>5
  <2> QED BY <1>10, <1>11, <1>21, <2>3, <2>4, <2>5 DEF StartSteps
<1> HIDE DEF Rest
<1>22. Rest'
  BY <1>3, <1>4, <1>6, <1>12, <1>13, <1>15, <1>16, <1>17, <1>18, <1>19, <1>20, <1>21
     DEF Next, Request, PauseSteps, LoopIterate, WorkerStep, Ended
<1> QED BY <1>1, <1>22 DEF IInv, Rest

---------------------------------------------------------------------------
(* What a step does to the state that TaskLifecycle sees.                  *)

(* The lifecycle does not see the Caller move.                             *)
LEMMA CallerMoveIsInvisible ==
  ASSUME TypeOK, NEW l \in CallerPC, Goto(Caller, l)
  PROVE  UNCHANGED Unfinished
<1>1. \A w \in Worker : pc'[w] = pc[w]
  BY GotoCaller
<1> QED BY <1>1 DEF Unfinished

(* To the lifecycle a worker that moves finishes, or nothing happens.      *)
LEMMA WorkerMoveIsFinish ==
  ASSUME TypeOK, NEW w \in Worker, pc[w] \notin {"none", "done"},
         NEW l \in WorkerPC \ {"none"}, Goto(w, l),
         UNCHANGED <<alive, freed, joinable>>
  PROVE  Lifecycle!Finish(w) \/ UNCHANGED Lifecycle!vars
<1>1. \A v \in Worker : pc'[v] = IF v = w THEN l ELSE pc[v]
  BY GotoWorker
<1>2. CASE l = "done"
  <2>1. w \in Unfinished /\ Unfinished' = Unfinished \ {w}
    BY <1>1, <1>2 DEF Unfinished
  <2> QED BY <2>1 DEF Lifecycle!Finish
<1>3. CASE l # "done"
  <2>1. Unfinished' = Unfinished
    BY <1>1, <1>3 DEF Unfinished
  <2> QED BY <2>1 DEF Lifecycle!vars
<1> QED BY <1>2, <1>3

(* Each step of the executor is a step of the lifecycle, or none.          *)
LEMMA NextLifecycle ==
  ASSUME IInv, [Next]_vars
  PROVE  [Lifecycle!Next]_(Lifecycle!vars)
<1> USE CallerIsNoWorker
<1> DEFINE Goal == [Lifecycle!Next]_(Lifecycle!vars)
<1>1. TypeOK /\ BusyMeansStarted
  BY DEF IInv
<1>2. ASSUME alive, Terminate PROVE Goal
  <2>1. UNCHANGED Unfinished
    BY <1>2 DEF Terminate, Unfinished
  <2> QED BY <1>2, <2>1 DEF Terminate, Lifecycle!Next, Lifecycle!End
<1>3. ASSUME NEW l \in CallerPC, Goto(Caller, l), UNCHANGED <<alive, freed, joinable>>
      PROVE  Goal
  BY <1>1, <1>3, CallerMoveIsInvisible DEF Lifecycle!vars
<1>4. ASSUME alive, NEW w \in Worker, pc[w] \notin {"none", "done"},
             NEW l \in WorkerPC \ {"none"}, Goto(w, l),
             UNCHANGED <<alive, freed, joinable>>
      PROVE  Goal
  <2>1. Lifecycle!Finish(w) \/ UNCHANGED Lifecycle!vars
    BY <1>1, <1>4, WorkerMoveIsFinish
  <2> QED BY <1>4, <2>1 DEF Lifecycle!Next
<1>5. {"spawn_pull", "spawn_push", "record_pull", "spawn_forward", "record_forward",
       "new_push", "record_push", "started", "connect_pull", "connect_push",
       "launch_failed", "pause", "stop", "iterate", "join", "idle", "erase",
       "destroy"} \subseteq CallerPC
  BY DEF CallerPC, StartPC, PausePC
<1>6. {"done", "pause", "stop", "iterate", "join"} \subseteq WorkerPC \ {"none"}
  BY DEF WorkerPC, PausePC
<1>7. ASSUME Request PROVE Goal
  <2>1. (Goto(Caller, "connect_pull") \/ Goto(Caller, "pause"))
        /\ UNCHANGED <<alive, freed, joinable>>
    BY <1>7 DEF Request, StartCall, PauseCall
  <2> QED BY <1>3, <1>5, <2>1
<1>8. ASSUME NEW at, NEW l \in CallerPC, Connect(at, l) PROVE Goal
  <2>1. (Goto(Caller, l) \/ Goto(Caller, "launch_failed"))
        /\ UNCHANGED <<alive, freed, joinable>>
    BY <1>8 DEF Connect
  <2> QED BY <1>3, <1>5, <2>1
<1>9. ASSUME alive, NEW k \in Kind, NEW at, NEW l \in CallerPC, Spawn(k, at, l),
             <<k, at>> \in {<<"pull", "spawn_pull">>,
                            <<"forward", "spawn_forward">>,
                            <<"push", "spawn_push">>}
      PROVE  Goal
  <2> DEFINE v == <<k, m_pullStream>>
  <2>1. /\ v \in Worker
        /\ \A w \in Worker : pc'[w] = IF w = v THEN "body" ELSE pc[w]
    <3>1. at # "idle"
      BY <1>9
    <3> QED BY <1>1, <1>9, <3>1, SpawnTypeOK
  <2>2. /\ pc[Caller] = at /\ joinable' = joinable \union {v}
        /\ UNCHANGED <<alive, freed>> /\ v[1] = k /\ v[2] = m_pullStream
    BY <1>9 DEF Spawn
  <2> HIDE DEF v
  <2>3. v \in Unlaunched
    <3>1. \/ k = "pull" /\ at = "spawn_pull"
          \/ k = "forward" /\ at = "spawn_forward"
          \/ k = "push" /\ at = "spawn_push"
      BY <1>9
    <3> QED BY <2>1, <2>2, <3>1 DEF Unlaunched
  <2>4. v \notin joinable /\ ~freed
    BY <1>9, <2>2, <2>3 DEF IInv, UnlaunchedIsFresh, FreedIsJoined
  <2>5. Unfinished' = Unfinished \union {v}
    BY <2>1 DEF Unfinished
  <2>6. Lifecycle!Launch(v)
    BY <2>2, <2>4, <2>5 DEF Lifecycle!Launch
  <2> QED BY <1>9, <2>1, <2>6 DEF Lifecycle!Next
<1>10. ASSUME alive, NEW k \in Kind, NEW at, NEW l \in CallerPC, Record(k, at, l)
       PROVE  Goal
  BY <1>2, <1>3, <1>10 DEF Record
<1>11. ASSUME NewPushStream \/ StartReturned \/ LaunchFailed PROVE Goal
  <2>1. \E l \in {"connect_push", "idle", "launch_failed", "pause"} : Goto(Caller, l)
    BY <1>11 DEF NewPushStream, StartReturned, LaunchFailed
  <2>2. UNCHANGED <<alive, freed, joinable>>
    BY <1>11 DEF NewPushStream, StartReturned, LaunchFailed
  <2> QED BY <1>3, <1>5, <2>1, <2>2
<1>12. ASSUME alive, StartSteps PROVE Goal
  <2>1. Kind = {"pull", "forward", "push"}
    BY DEF Kind
  <2>2. ASSUME Connect("connect_pull", "spawn_pull")
               \/ Connect("connect_push", "spawn_push")
        PROVE  Goal
    BY <1>5, <1>8, <2>2
  <2>3. ASSUME \/ Spawn("pull", "spawn_pull", "record_pull")
               \/ Spawn("forward", "spawn_forward", "record_forward")
               \/ Spawn("push", "spawn_push", "record_push")
        PROVE  Goal
    BY <1>5, <1>9, <1>12, <2>1, <2>3
  <2>4. ASSUME \/ Record("pull", "record_pull", "spawn_forward")
               \/ Record("forward", "record_forward", "new_push")
               \/ Record("push", "record_push", "started")
        PROVE  Goal
    BY <1>5, <1>10, <1>12, <2>1, <2>4
  <2> QED BY <1>11, <1>12, <2>2, <2>3, <2>4 DEF StartSteps
<1>13. ASSUME alive, Destroy PROVE Goal
  <2>1. CASE Terminate
    BY <1>2, <1>13, <2>1
  <2>2. CASE ~Terminate
    <3>1. PICK l \in {"erase", "idle"} : Goto(Caller, l)
      BY <1>13, <2>2 DEF Destroy
    <3>2. UNCHANGED Unfinished
      BY <1>1, <1>5, <3>1, CallerMoveIsInvisible
    <3>3. pc[Caller] = "destroy" /\ ToSet(m_threads) \intersect joinable = {}
          /\ freed' = TRUE /\ UNCHANGED <<alive, joinable>>
      BY <1>13, <2>2 DEF Destroy
    <3>4. joinable = {} /\ ~freed
      BY <3>3 DEF IInv, HandlesRecorded, Unrecorded, FreedIsJoined
    <3>5. Lifecycle!Release
      BY <3>2, <3>3, <3>4 DEF Lifecycle!Release
    <3> QED BY <1>13, <3>5 DEF Lifecycle!Next
  <2> QED BY <2>1, <2>2
<1>14. ASSUME alive, EraseFailedAdd PROVE Goal
  BY <1>2, <1>3, <1>5, <1>14 DEF EraseFailedAdd
<1>15. ASSUME alive, NEW t \in Thread, NEW l \in {"done", "pause", "stop", "iterate", "join"},
              l = "done" => t # Caller,
              Goto(t, l), pc[t] \notin {"none", "done"},
              UNCHANGED <<alive, freed, joinable>>
       PROVE  Goal
  <2>1. CASE t = Caller
    BY <1>3, <1>5, <1>15, <2>1
  <2>2. CASE t # Caller
    <3>1. t \in Worker
      BY <2>2 DEF Thread
    <3> QED BY <1>4, <1>6, <1>15, <3>1
  <2> QED BY <2>1, <2>2
<1>16. ASSUME alive, NEW t \in Thread, PauseReturn(t), pc[t] \in PausePC,
              UNCHANGED <<alive, freed, joinable>>
       PROVE  Goal
  <2>1. CASE t = Caller
    <3>1. Goto(Caller, "idle") \/ Goto(Caller, "destroy")
      BY <1>16, <2>1 DEF PauseReturn
    <3> QED BY <1>3, <1>5, <1>16, <3>1
  <2>2. CASE t # Caller
    <3>1. Goto(t, "done") /\ pc[t] \notin {"none", "done"}
      BY <1>16, <2>2 DEF PauseReturn, PausePC
    <3> QED BY <1>15, <1>16, <2>2, <3>1
  <2> QED BY <2>1, <2>2
<1>17. ASSUME alive, NEW t \in Thread, PauseSteps(t) PROVE Goal
  <2>1. CASE PauseTest(t)
    <3>1. pc[t] \in PausePC /\ pc[t] \notin {"none", "done"}
          /\ UNCHANGED <<alive, freed, joinable>>
          /\ (Goto(t, "stop") \/ PauseReturn(t))
      BY <2>1 DEF PauseTest, PausePC
    <3> QED BY <1>15, <1>16, <1>17, <3>1
  <2>2. CASE PauseStop(t) \/ PauseIterate(t)
    <3>1. pc[t] \notin {"none", "done"}
          /\ UNCHANGED <<alive, freed, joinable>>
          /\ (Goto(t, "iterate") \/ Goto(t, "join"))
      BY <2>2 DEF PauseStop, PauseIterate
    <3> QED BY <1>15, <1>17, <3>1
  <2>3. CASE JoinNext(t) /\ ~Terminate
    <3> DEFINE v == Head(iter[t])
    <3>1. /\ v \in joinable /\ pc[v] = "done" /\ joinable' = joinable \ {v}
          /\ UNCHANGED <<alive, freed, pc>>
      BY <2>3 DEF JoinNext
    <3>2. v \in Worker /\ v \notin Unfinished /\ UNCHANGED Unfinished
      BY <1>1, <3>1 DEF Unfinished, TypeOK
    <3>3. Lifecycle!GiveBack(v)
      BY <3>1, <3>2 DEF Lifecycle!GiveBack
    <3> QED BY <1>17, <3>2, <3>3 DEF Lifecycle!Next
  <2>4. CASE DeleteHandles(t) /\ ~Terminate
    <3>1. pc[t] \in PausePC /\ PauseReturn(t)
          /\ UNCHANGED <<alive, freed, joinable>>
      BY <2>4 DEF DeleteHandles, PausePC
    <3> QED BY <1>16, <1>17, <3>1
  <2> QED BY <1>2, <1>17, <2>1, <2>2, <2>3, <2>4 DEF PauseSteps
<1>18. ASSUME alive, NEW w \in Worker, WorkerStep(w) PROVE Goal
  <2>1. CASE Terminate
    BY <1>2, <1>18, <2>1
  <2>2. CASE ~Terminate
    <3>1. /\ Goto(w, "done") \/ Goto(w, "pause")
          /\ pc[w] \notin {"none", "done"}
          /\ UNCHANGED <<alive, freed, joinable>>
      BY <1>18, <2>2 DEF WorkerStep, LoopExit, StreamEnd, PushAllocFails,
                         ForwardUnassigned
    <3> QED BY <1>15, <1>18, <3>1 DEF Thread
  <2> QED BY <2>1, <2>2
<1>19. ASSUME UNCHANGED vars PROVE Goal
  BY <1>19 DEF vars, Unfinished, Lifecycle!vars
<1> HIDE DEF Goal
<1>20. Goal
  BY <1>7, <1>12, <1>13, <1>14, <1>17, <1>18, <1>19
     DEF Next, LoopIterate, WorkerStep, Ended
<1> QED BY <1>20 DEF Goal

(* Only its own pause() moves the Caller out of the joining loop, and then *)
(* JoinsTheRest has left nothing to join.                                  *)
LEMMA NextQuiesces ==
  ASSUME IInv, [Next]_vars, pc[Caller] = "join", pc'[Caller] # "join"
  PROVE  Unfinished' = {}
<1> USE CallerIsNoWorker
<1>1. TypeOK /\ TypeOK' /\ HandlesRecorded /\ joinable \subseteq ToSet(iter[Caller])
  BY NextTypeOK DEF IInv, JoinsTheRest
<1>2. ASSUME DeleteHandles(Caller), ~Terminate PROVE Unfinished' = {}
  <2>1. iter[Caller] = <<>> /\ PauseReturn(Caller)
    BY <1>2 DEF DeleteHandles
  <2>2. Unfinished = {}
    BY <1>1, <2>1, ToSetOfEmpty DEF HandlesRecorded
  <2>3. \A w \in Worker : pc'[w] = pc[w]
    BY <1>1, <2>1, PauseReturnPC
  <2> QED BY <2>2, <2>3 DEF Unfinished
<1>3. ~Terminate /\ ~UNCHANGED vars
  BY DEF Terminate, vars
<1>4. ~Request /\ ~StartSteps /\ ~Destroy /\ ~EraseFailedAdd
  BY DEF Request, StartCall, PauseCall, StartSteps, Connect, Spawn, Record,
         NewPushStream, StartReturned, LaunchFailed, Destroy, EraseFailedAdd
<1>5. ASSUME NEW w \in Worker PROVE ~WorkerStep(w)
  <2>1. ASSUME NEW l \in {"done", "pause"} PROVE ~Goto(w, l)
    <3>1. l \in WorkerPC
      BY DEF WorkerPC, PausePC
    <3> QED BY <1>1, <3>1, GotoWorker
  <2> QED BY <1>3, <2>1 DEF WorkerStep, LoopExit, StreamEnd, PushAllocFails,
                            ForwardUnassigned
<1>6. ASSUME NEW t \in Thread, PauseSteps(t) PROVE DeleteHandles(Caller)
  <2>1. {"stop", "iterate", "join"} \subseteq PausePC
    BY DEF PausePC
  <2>2. CASE t = Caller
    BY <1>3, <1>6, <2>2 DEF PauseSteps, PauseTest, PauseStop, PauseIterate, JoinNext
  <2>3. CASE t # Caller
    <3>1. ASSUME NEW l \in PausePC PROVE ~Goto(t, l)
      BY <1>1, <2>3, GotoPause
    <3>2. ~PauseReturn(t)
      BY <1>1, <2>3, PauseReturnPC
    <3> QED BY <1>3, <1>6, <2>1, <3>1, <3>2
            DEF PauseSteps, PauseTest, PauseStop, PauseIterate, JoinNext,
                DeleteHandles
  <2> QED BY <2>2, <2>3
<1> QED BY <1>2, <1>3, <1>4, <1>5, <1>6 DEF Next, LoopIterate, WorkerStep, Ended

---------------------------------------------------------------------------
(* The theorems.                                                           *)

(* The inductive invariant holds in every reachable state.                 *)
THEOREM Invariance == Spec => []IInv
<1>1. IInv /\ [Next]_vars => IInv'
  BY NextIInv
<1> QED BY InitIInv, <1>1, PTL DEF Spec

(* Every variable keeps its type, however often the task is restarted.     *)
THEOREM TypeCorrect == Spec => []TypeOK
<1>1. IInv => TypeOK
  BY DEF IInv
<1> QED BY Invariance, <1>1, PTL

(* start(), pause() by the scheduler and by every worker, and the          *)
(* destructor never lose a worker thread between them.                     *)
THEOREM HandlesStayRecorded == Spec => []HandlesRecorded
<1>1. IInv => HandlesRecorded
  BY DEF IInv
<1> QED BY Invariance, <1>1, PTL

(* ~TaskExecutor never completes under a running worker: the workers use   *)
(* the executor, its streams and its configuration until they finish.      *)
NoWorkerOutlivesExecutor == freed => Unfinished = {}

(* No worker thread still runs when ~TaskExecutor has completed.           *)
THEOREM ExecutorOutlivesWorkers == Spec => []NoWorkerOutlivesExecutor
<1>1. IInv => NoWorkerOutlivesExecutor
  BY DEF IInv, FreedIsJoined, HandlesRecorded, NoWorkerOutlivesExecutor
<1> QED BY Invariance, <1>1, PTL

(* getState() is not true of a task whose latest pull or forward worker    *)
(* has finished.                                                           *)
THEOREM StateFollowsWorkers == Spec => []StateTracksWorkers
<1>1. IInv => StateTracksWorkers
  <2>1. \A w \in Worker : w[1] # "push" => w[1] \in {"pull", "forward"}
    BY DEF Worker, Kind
  <2> QED BY <2>1 DEF IInv, SetMeansLooping, StateTracksWorkers
<1> QED BY Invariance, <1>1, PTL

(* A pause that took its joining branch ends with no worker running.       *)
THEOREM PauseJoinsAll == Spec => PauseQuiesces
<1>1. IInv /\ [Next]_vars
        => [pc[Caller] = "join" /\ pc'[Caller] # "join" => Unfinished' = {}]_vars
  BY NextQuiesces
<1> QED BY Invariance, <1>1, PTL DEF Spec, PauseQuiesces

(* TaskExecutor implements TaskLifecycle.                                  *)
THEOREM ImplementsLifecycle == Spec => LifecycleSpec
<1>1. Init => Lifecycle!Init
  BY CallerIsNoWorker DEF Init, Lifecycle!Init, Unfinished, Thread
<1>2. IInv /\ [Next]_vars => [Lifecycle!Next]_(Lifecycle!vars)
  BY NextLifecycle
<1> QED BY Invariance, <1>1, <1>2, PTL DEF Spec, LifecycleSpec, Lifecycle!Spec
===========================================================================
