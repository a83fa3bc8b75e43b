---------------------------- MODULE PauseProofs ----------------------------
(***************************************************************************)
(* Why pause() comes to its end, for any number of start() calls: nobody   *)
(* waits in a circle, somebody can always go on, and whoever goes on gets  *)
(* nearer to the end.                                                      *)
(***************************************************************************)
EXTENDS PooledExecutorProofs, WellFoundedInduction

(* The place of a worker in the order in which start() makes them.         *)
Launched(w) == 3 * (w[2] - 1) + [pull |-> 1, forward |-> 2, push |-> 3][w[1]]

(* A list of handles in the order in which start() made the workers.       *)
ByLaunch(s) ==
  \A i, j \in 1 .. Len(s) : i < j => Launched(s[i]) < Launched(s[j])

(* Every list of handles is in that order, whoever goes through it.        *)
ListsByLaunch ==
  /\ ByLaunch(m_threads)
  /\ \A t \in Thread : ByLaunch(iter[t])

(* A worker that joins has its own handle still before it, unless all the  *)
(* handles before it are those of earlier workers.                         *)
MeetsItself ==
  \A w \in Worker : pc[w] = "join"
    => \/ w \in ToSet(iter[w])
       \/ \A v \in ToSet(iter[w]) : Launched(v) < Launched(w)

(* A std::thread that can be joined has been started.                      *)
JoinableIsLaunched == \A w \in joinable : pc[w] # "none"

(* What this module adds to the invariant of PooledExecutorProofs.         *)
Waits == ListsByLaunch /\ MeetsItself /\ JoinableIsLaunched

(* The inductive invariant.                                                *)
WInv == PInv /\ Waits

---------------------------------------------------------------------------
(* Lemmas about numbers and lists.                                         *)

(* A set of numbers that is not empty has a least one.                     *)
LEMMA LeastNumber ==
  ASSUME NEW T, T \subseteq Nat, T # {}
  PROVE  \E n \in T : \A m \in T : n <= m
<1> DEFINE R == OpToRel(<, Nat)
<1>1. PICK x \in T : \A y \in T : ~(<<y, x>> \in R)
  <2> HIDE DEF R
  <2>1. IsWellFoundedOn(R, Nat)
    BY NatLessThanWellFounded DEF R
  <2> QED BY <2>1, WFMin, Zenon
<1>2. \A y \in T : ~(y < x)
  BY <1>1 DEF OpToRel
<1> QED BY <1>2

(* The place of a worker is a number.                                      *)
LEMMA LaunchedNat == \A w \in Worker : Launched(w) \in Nat
<1> SUFFICES ASSUME NEW w \in Worker PROVE Launched(w) \in Nat
  OBVIOUS
<1>1. w[1] \in {"pull", "forward", "push"} /\ w[2] \in Nat /\ w[2] > 0
  BY MaxStartsAssumption DEF Worker, Kind, Gen
<1>2. [pull |-> 1, forward |-> 2, push |-> 3][w[1]] \in {1, 2, 3}
  BY <1>1
<1> QED BY <1>1, <1>2 DEF Launched

(* push_back of a later worker keeps the order.                            *)
LEMMA ByLaunchAppend ==
  ASSUME NEW s \in Seq(Worker), NEW w \in Worker, ByLaunch(s),
         \A v \in ToSet(s) : Launched(v) < Launched(w)
  PROVE  ByLaunch(Append(s, w))
<1> DEFINE a == Append(s, w)
<1>1. a \in Seq(Worker) /\ Len(a) = Len(s) + 1 /\ a[Len(s) + 1] = w
      /\ \A i \in 1 .. Len(s) : a[i] = s[i]
  BY AppendProperties
<1>2. Len(s) \in Nat /\ \A i \in 1 .. Len(s) : s[i] \in ToSet(s)
  BY DEF ToSet
<1> HIDE DEF a
<1> SUFFICES ASSUME NEW i \in 1 .. Len(a), NEW j \in 1 .. Len(a), i < j
             PROVE  Launched(a[i]) < Launched(a[j])
  BY DEF ByLaunch, a
<1>3. i \in 1 .. Len(s)
  BY <1>1, <1>2
<1>4. CASE j = Len(s) + 1
  BY <1>1, <1>2, <1>3, <1>4
<1>5. CASE j # Len(s) + 1
  <2>1. j \in 1 .. Len(s)
    BY <1>1, <1>2, <1>5
  <2> QED BY <1>1, <1>3, <2>1 DEF ByLaunch
<1> QED BY <1>4, <1>5

(* What is left of a list after a join is in order, and its front was the  *)
(* first of all.                                                           *)
LEMMA ByLaunchTail ==
  ASSUME NEW s \in Seq(Worker), s # <<>>, ByLaunch(s)
  PROVE  /\ ByLaunch(Tail(s))
         /\ \A v \in ToSet(s) : Launched(Head(s)) <= Launched(v)
<1> DEFINE r == Tail(s)
<1>1. /\ Head(s) = s[1]
      /\ r \in Seq(Worker) /\ Len(r) = Len(s) - 1
      /\ \A i \in 1 .. Len(r) : r[i] = s[i + 1]
  BY HeadTailProperties
<1>2. Len(s) \in Nat /\ Len(s) > 0 /\ \A i \in 1 .. Len(s) : s[i] \in Worker
  BY <1>1
<1> HIDE DEF r
<1>3. ByLaunch(r)
  <2> SUFFICES ASSUME NEW i \in 1 .. Len(r), NEW j \in 1 .. Len(r), i < j
               PROVE  Launched(r[i]) < Launched(r[j])
    BY DEF ByLaunch
  <2>1. i + 1 \in 1 .. Len(s) /\ j + 1 \in 1 .. Len(s) /\ i + 1 < j + 1
    BY <1>1, <1>2
  <2> QED BY <1>1, <2>1 DEF ByLaunch
<1>4. ASSUME NEW v \in ToSet(s) PROVE Launched(s[1]) <= Launched(v)
  <2>1. PICK i \in 1 .. Len(s) : v = s[i]
    BY DEF ToSet
  <2>2. Launched(s[1]) \in Nat /\ 1 \in 1 .. Len(s)
    BY <1>2, LaunchedNat
  <2>3. CASE i = 1
    BY <2>1, <2>2, <2>3
  <2>4. CASE i # 1
    <3>1. Launched(s[1]) < Launched(s[i]) /\ Launched(s[i]) \in Nat
      BY <1>2, <2>2, <2>4, LaunchedNat DEF ByLaunch
    <3> QED BY <2>1, <2>2, <3>1
  <2> QED BY <2>3, <2>4
<1> QED BY <1>1, <1>3, <1>4 DEF r

(* An empty list is in order.                                              *)
LEMMA ByLaunchEmpty == ByLaunch(<<>>)
  BY DEF ByLaunch

(* The worker that start() has yet to record is later than all recorded.   *)
LEMMA RecordedBefore ==
  ASSUME PInv, NEW w \in Unrecorded
  PROVE  \A v \in ToSet(m_threads) : Launched(v) < Launched(w)
<1> SUFFICES ASSUME NEW v \in ToSet(m_threads) PROVE Launched(v) < Launched(w)
  OBVIOUS
<1>1. v \in Worker /\ v \notin Unlaunched /\ v \notin Unrecorded
  BY ToSetOfSeq DEF PInv, IInv, TypeOK, Order, RecordedOnce
<1>2. /\ w \in Worker /\ w[2] = m_pullStream
      /\ \/ w[1] = "pull" /\ pc[Caller] = "record_pull"
         \/ w[1] = "forward" /\ pc[Caller] = "record_forward"
         \/ w[1] = "push" /\ pc[Caller] = "record_push"
  BY DEF Unrecorded
<1>3. /\ v[1] \in {"pull", "forward", "push"} /\ v[2] \in Nat /\ v[2] > 0
      /\ w[2] \in Nat /\ w[2] > 0
  BY <1>1, <1>2, MaxStartsAssumption DEF Worker, Kind, Gen
<1>4. v[2] <= w[2]
  BY <1>1, <1>2, <1>3 DEF Unlaunched
<1>5. v[2] = w[2] => \/ v[1] = "pull" /\ w[1] # "pull"
                     \/ v[1] = "forward" /\ w[1] = "push"
  BY <1>1, <1>2, <1>3 DEF Unlaunched, Unrecorded
<1>6. [pull |-> 1, forward |-> 2, push |-> 3][v[1]] \in {1, 2, 3}
      /\ [pull |-> 1, forward |-> 2, push |-> 3][w[1]] \in {1, 2, 3}
  BY <1>2, <1>3
<1>7. CASE v[2] < w[2]
  BY <1>3, <1>6, <1>7 DEF Launched
<1>8. CASE v[2] = w[2]
  BY <1>2, <1>3, <1>5, <1>8 DEF Launched
<1> QED BY <1>3, <1>4, <1>7, <1>8

---------------------------------------------------------------------------
(* The steps that touch no list.                                           *)

(* Nobody enters the joins, and who can be joined has been launched.       *)
LEMMA QuietStepKeeps ==
  ASSUME WInv, UNCHANGED <<m_threads, iter>>, joinable' \subseteq joinable,
         \A w \in Worker : /\ (pc'[w] = "join" => pc[w] = "join")
                           /\ (pc[w] # "none" => pc'[w] # "none")
  PROVE  Waits'
<1>1. ListsByLaunch' /\ MeetsItself'
  BY DEF WInv, Waits, ListsByLaunch, MeetsItself, ByLaunch
<1>2. JoinableIsLaunched'
  BY DEF WInv, PInv, IInv, TypeOK, Waits, JoinableIsLaunched
<1> QED BY <1>1, <1>2 DEF Waits

(* A call moves the Caller alone.                                          *)
LEMMA CallerMoveKeeps ==
  ASSUME WInv, NEW l \in CallerPC, Goto(Caller, l),
         UNCHANGED <<m_threads, iter>>, joinable' \subseteq joinable
  PROVE  Waits'
<1>1. \A w \in Worker : pc'[w] = pc[w]
  BY CallerMoves DEF WInv, PInv, IInv
<1> QED BY <1>1, QuietStepKeeps

(* A worker moves to its end, but not into the joins.                      *)
LEMMA QuietWorkerKeeps ==
  ASSUME WInv, NEW w \in Worker, NEW l \in {"pause", "stop", "iterate", "done"},
         Goto(w, l), UNCHANGED <<m_threads, iter, joinable>>
  PROVE  Waits'
<1>1. l \in WorkerPC
  BY DEF WorkerPC, PausePC
<1>2. \A v \in Worker : pc'[v] = IF v = w THEN l ELSE pc[v]
  BY <1>1, GotoWorker DEF WInv, PInv, IInv
<1> QED BY <1>2, QuietStepKeeps

(* The process ends.                                                       *)
LEMMA TerminateKeeps ==
  ASSUME WInv, Terminate
  PROVE  Waits'
  BY QuietStepKeeps DEF Terminate

---------------------------------------------------------------------------
(* start(), the destructor and the operations of the scheduler.            *)

(* Launching a worker.                                                     *)
LEMMA SpawnKeepsWaits ==
  ASSUME WInv, NEW k \in Kind, NEW at \in StartPC, NEW l \in StartPC, Spawn(k, at, l)
  PROVE  Waits'
<1> DEFINE v == <<k, m_pullStream>>
<1>1. TypeOK /\ Waits /\ BusyMeansStarted
  BY DEF WInv, PInv, IInv
<1>2. /\ pc[Caller] = at /\ pc' = [pc EXCEPT ![Caller] = l, ![v] = "body"]
      /\ joinable' = joinable \union {v}
      /\ UNCHANGED <<m_threads, iter>>
  BY DEF Spawn
<1>3. v \in Worker
  BY <1>1, <1>2, MaxStartsAssumption
     DEF BusyMeansStarted, TypeOK, Worker, Gen, StartPC
<1> HIDE DEF v
<1>4. \A w \in Worker : pc'[w] = IF w = v THEN "body" ELSE pc[w]
  BY <1>1, <1>2, <1>3, CallerIsNoWorker DEF TypeOK, Thread
<1>5. UNCHANGED <<m_threads, iter>> /\ joinable' = joinable \union {v}
  BY <1>2
<1>6. ListsByLaunch'
  BY <1>1, <1>5 DEF Waits, ListsByLaunch, ByLaunch
<1>7. MeetsItself'
  <2>1. \A w \in Worker : pc'[w] = "join" => pc[w] = "join"
    BY <1>4
  <2> QED BY <1>1, <1>5, <2>1 DEF Waits, MeetsItself
<1>8. JoinableIsLaunched'
  <2>1. joinable \subseteq Worker
    BY <1>1 DEF TypeOK
  <2> QED BY <1>1, <1>3, <1>4, <1>5, <2>1 DEF Waits, JoinableIsLaunched
<1> QED BY <1>6, <1>7, <1>8 DEF Waits

(* Recording its handle behind the others.                                 *)
LEMMA RecordKeepsWaits ==
  ASSUME WInv, NEW k \in Kind, NEW at, NEW l \in StartPC, Record(k, at, l),
         <<k, at>> \in {<<"pull", "record_pull">>, <<"forward", "record_forward">>,
                        <<"push", "record_push">>}
  PROVE  Waits'
<1> DEFINE v == <<k, m_pullStream>>
<1>1. TypeOK /\ Waits /\ BusyMeansStarted
  BY DEF WInv, PInv, IInv
<1>2. CASE Terminate
  BY <1>2, TerminateKeeps
<1>3. CASE ~Terminate
  <2>1. /\ pc[Caller] = at /\ Goto(Caller, l)
        /\ m_threads' = Append(m_threads, v)
        /\ UNCHANGED <<joinable, iter>>
    BY <1>3 DEF Record
  <2>2. \A w \in Worker : pc'[w] = pc[w]
    BY <1>1, <2>1, CallerMoves DEF CallerPC
  <2>3. v \in Worker /\ m_threads \in Seq(Worker) /\ v \in Unrecorded
    <3>1. v \in Worker /\ m_threads \in Seq(Worker)
      BY <1>1, <2>1, MaxStartsAssumption
         DEF BusyMeansStarted, TypeOK, Worker, Gen
    <3> QED BY <2>1, <3>1 DEF Unrecorded
  <2> HIDE DEF v
  <2>4. ByLaunch(m_threads')
    BY <1>1, <2>1, <2>3, RecordedBefore, ByLaunchAppend
       DEF WInv, Waits, ListsByLaunch
  <2>5. ListsByLaunch' /\ MeetsItself' /\ JoinableIsLaunched'
    BY <1>1, <2>1, <2>2, <2>4
       DEF Waits, ListsByLaunch, MeetsItself, JoinableIsLaunched, TypeOK, ByLaunch
  <2> QED BY <2>5 DEF Waits
<1> QED BY <1>2, <1>3

(* The steps of start().                                                   *)
LEMMA StartKeepsWaits ==
  ASSUME WInv, StartSteps
  PROVE  Waits'
<1> USE DEF Kind, StartPC
<1>1. ASSUME NEW at, NEW l \in StartPC, Connect(at, l) PROVE Waits'
  <2>1. PICK m \in StartPC : Goto(Caller, m)
    BY <1>1 DEF Connect
  <2>2. m \in CallerPC /\ UNCHANGED <<m_threads, joinable, iter>>
    BY <1>1, <2>1 DEF Connect, CallerPC
  <2> QED BY <2>1, <2>2, CallerMoveKeeps
<1>2. ASSUME NewPushStream \/ StartReturned \/ LaunchFailed PROVE Waits'
  <2>1. PICK m \in CallerPC : Goto(Caller, m)
    BY <1>2 DEF NewPushStream, StartReturned, LaunchFailed, CallerPC, PausePC
  <2>2. UNCHANGED <<m_threads, joinable, iter>>
    BY <1>2 DEF NewPushStream, StartReturned, LaunchFailed
  <2> QED BY <2>1, <2>2, CallerMoveKeeps
<1> QED BY <1>1, <1>2, SpawnKeepsWaits, RecordKeepsWaits DEF StartSteps

(* The calls, and what follows pause() in the destructor.                  *)
LEMMA CallsKeepWaits ==
  ASSUME WInv, Request \/ Destroy \/ EraseFailedAdd
  PROVE  Waits'
<1>1. CASE Request
  <2>1. PICK m \in CallerPC : Goto(Caller, m)
    BY <1>1 DEF Request, StartCall, PauseCall, CallerPC, StartPC, PausePC
  <2>2. UNCHANGED <<m_threads, joinable, iter>>
    BY <1>1 DEF Request, StartCall, PauseCall
  <2> QED BY <2>1, <2>2, CallerMoveKeeps
<1>2. CASE Terminate
  BY <1>2, TerminateKeeps
<1>3. CASE EraseFailedAdd /\ ~Terminate
  <2>1. Goto(Caller, "idle") /\ UNCHANGED <<m_threads, joinable, iter>>
    BY <1>3 DEF EraseFailedAdd
  <2> QED BY <2>1, CallerMoveKeeps DEF CallerPC
<1>4. CASE Destroy /\ ~Terminate
  <2>1. /\ \/ Goto(Caller, "idle") \/ Goto(Caller, "erase")
        /\ m_threads' = <<>> /\ UNCHANGED <<joinable, iter>>
    BY <1>4 DEF Destroy
  <2>2. \A w \in Worker : pc'[w] = pc[w]
    BY <2>1, CallerMoves DEF WInv, PInv, IInv, CallerPC
  <2> QED BY <2>1, <2>2, ByLaunchEmpty
          DEF WInv, PInv, IInv, TypeOK, Waits, ListsByLaunch, MeetsItself,
              JoinableIsLaunched, ByLaunch
<1> QED BY <1>1, <1>2, <1>3, <1>4

---------------------------------------------------------------------------
(* pause().                                                                *)

(* The range-for takes the list over as it is.                             *)
LEMMA IterateKeepsWaits ==
  ASSUME WInv, NEW t \in Thread, PauseIterate(t)
  PROVE  Waits'
<1>1. TypeOK /\ Waits /\ IInv
  BY DEF WInv, PInv, IInv
<1>2. /\ pc[t] = "iterate" /\ iter' = [iter EXCEPT ![t] = m_threads]
      /\ Goto(t, "join") /\ UNCHANGED <<m_threads, joinable>>
  BY DEF PauseIterate
<1>3. \A u \in Thread : /\ iter'[u] = IF u = t THEN m_threads ELSE iter[u]
                        /\ pc'[u] = IF u = t THEN "join" ELSE pc[u]
  BY <1>1, <1>2 DEF TypeOK, Goto
<1>4. ListsByLaunch'
  BY <1>1, <1>2, <1>3 DEF Waits, ListsByLaunch, ByLaunch
<1>5. MeetsItself'
  <2> SUFFICES ASSUME NEW w \in Worker, pc'[w] = "join"
               PROVE  \/ w \in ToSet(iter'[w])
                      \/ \A v \in ToSet(iter'[w]) : Launched(v) < Launched(w)
    BY DEF MeetsItself
  <2>1. w \in Thread
    BY DEF Thread
  <2>2. CASE w = t
    <3>1. w \in ToSet(m_threads) \/ w \in Unrecorded
      BY <1>1, <1>2, <2>2 DEF IInv, HandlesRecorded, Unfinished
    <3> QED BY <1>3, <2>1, <2>2, <3>1, RecordedBefore DEF WInv
  <2>3. CASE w # t
    BY <1>1, <1>3, <2>1, <2>3 DEF Waits, MeetsItself
  <2> QED BY <2>2, <2>3
<1>6. JoinableIsLaunched'
  BY <1>1, <1>2, <1>3 DEF TypeOK, Waits, JoinableIsLaunched, Thread
<1> QED BY <1>4, <1>5, <1>6 DEF Waits

(* A join goes past a handle that is not the thread's own.                 *)
LEMMA JoinKeepsWaits ==
  ASSUME WInv, NEW t \in Thread, JoinNext(t)
  PROVE  Waits'
<1> DEFINE v == Head(iter[t])
<1>1. TypeOK /\ Waits
  BY DEF WInv, PInv, IInv
<1>2. CASE Terminate
  BY <1>2, TerminateKeeps
<1>3. CASE ~Terminate
  <2>1. /\ pc[t] = "join" /\ iter[t] # <<>> /\ v # t
        /\ joinable' = joinable \ {v}
        /\ iter' = [iter EXCEPT ![t] = Tail(@)]
        /\ UNCHANGED <<m_threads, pc>>
    BY <1>3 DEF JoinNext
  <2>2. iter[t] \in Seq(Worker) /\ ByLaunch(iter[t])
    BY <1>1 DEF TypeOK, Waits, ListsByLaunch
  <2>3. /\ \A u \in Thread : u # t => iter'[u] = iter[u]
        /\ iter'[t] = Tail(iter[t])
    BY <1>1, <2>1 DEF TypeOK
  <2>4. ToSet(iter[t]) = ToSet(iter'[t]) \union {v} /\ ByLaunch(iter'[t])
    BY <2>1, <2>2, <2>3, ToSetOfTail, ByLaunchTail
  <2> HIDE DEF v
  <2>5. ListsByLaunch'
    BY <1>1, <2>1, <2>3, <2>4 DEF Waits, ListsByLaunch, ByLaunch
  <2>6. MeetsItself'
    BY <1>1, <2>1, <2>3, <2>4 DEF Waits, MeetsItself, Thread
  <2>7. JoinableIsLaunched'
    BY <1>1, <2>1 DEF Waits, JoinableIsLaunched
  <2> QED BY <2>5, <2>6, <2>7 DEF Waits
<1> QED BY <1>2, <1>3

(* The rest of pause().                                                    *)
LEMMA PauseKeepsWaits ==
  ASSUME WInv, NEW t \in Thread, PauseTest(t) \/ PauseStop(t) \/ DeleteHandles(t)
  PROVE  Waits'
<1>1. TypeOK /\ Waits
  BY DEF WInv, PInv, IInv
<1>2. CASE Terminate
  BY <1>2, TerminateKeeps
<1>3. ASSUME NEW l \in {"stop", "iterate"}, Goto(t, l),
             UNCHANGED <<m_threads, joinable, iter>>
      PROVE  Waits'
  BY <1>3, CallerMoveKeeps, QuietWorkerKeeps DEF Thread, CallerPC, PausePC
<1>4. CASE PauseReturn(t) /\ UNCHANGED <<joinable, iter>>
           /\ (m_threads' = m_threads \/ m_threads' = <<>>)
  <2>1. \A w \in Worker : pc'[w] = IF w = t THEN "done" ELSE pc[w]
    BY <1>1, <1>4, PauseReturnPC
  <2> QED BY <1>1, <1>4, <2>1, ByLaunchEmpty
          DEF TypeOK, Waits, ListsByLaunch, MeetsItself, JoinableIsLaunched, ByLaunch
<1> QED BY <1>2, <1>3, <1>4 DEF PauseTest, PauseStop, DeleteHandles

---------------------------------------------------------------------------
(* The whole.                                                              *)

LEMMA NextKeepsWaits ==
  ASSUME WInv, Next
  PROVE  WInv'
<1>1. PInv'
  BY NextIsSeen DEF WInv
<1>2. ASSUME NEW w \in Worker,
             \/ LoopIterate(w) \/ LoopExit(w) \/ StreamEnd(w) \/ PushAllocFails(w)
             \/ ForwardUnassigned(w)
      PROVE  Waits'
  <2>1. CASE LoopIterate(w)
    BY <2>1, QuietStepKeeps DEF LoopIterate, vars
  <2>2. CASE LoopExit(w) \/ StreamEnd(w) \/ PushAllocFails(w)
    <3>1. PICK l \in {"pause", "done"} : Goto(w, l)
      BY <2>2 DEF LoopExit, StreamEnd, PushAllocFails
    <3>2. UNCHANGED <<m_threads, joinable, iter>>
      BY <2>2 DEF LoopExit, StreamEnd, PushAllocFails
    <3> QED BY <3>1, <3>2, QuietWorkerKeeps
  <2>3. CASE ForwardUnassigned(w)
    BY <2>3, TerminateKeeps DEF ForwardUnassigned
  <2> QED BY <1>2, <2>1, <2>2, <2>3
<1>3. ASSUME NEW t \in Thread, PauseSteps(t) PROVE Waits'
  BY <1>3, IterateKeepsWaits, JoinKeepsWaits, PauseKeepsWaits DEF PauseSteps
<1>4. Ended => Waits'
  BY QuietStepKeeps DEF Ended, vars
<1> QED BY <1>1, <1>2, <1>3, <1>4, StartKeepsWaits, CallsKeepWaits DEF Next, WInv

LEMMA InitWaits == Init => WInv
<1> SUFFICES ASSUME Init PROVE WInv
  OBVIOUS
<1>1. ListsByLaunch
  BY ByLaunchEmpty DEF Init, ListsByLaunch
<1>2. MeetsItself /\ JoinableIsLaunched
  BY CallerIsNoWorker DEF Init, MeetsItself, JoinableIsLaunched, Thread
<1> QED BY <1>1, <1>2, InitPInv DEF WInv, Waits

(* The inductive invariant holds in every reachable state.                 *)
THEOREM WaitsInvariance == Spec => []WInv
<1>1. WInv /\ UNCHANGED vars => WInv'
  <2> SUFFICES ASSUME WInv, UNCHANGED vars PROVE WInv'
    OBVIOUS
  <2>1. PInv'
    BY DEF WInv, vars, PInv, Order, CallInPlace, PushAssigned, StopHasCause,
           AddNotices, RecordedOnce, HandlesGood, Calm, SelfStopping, Unlaunched,
           Unrecorded, IInv, TypeOK, BusyMeansStarted, HandlesRecorded, Unfinished,
           UnlaunchedIsFresh, FreedIsJoined, JoinsTheRest, SetMeansLooping
  <2> QED BY <2>1, QuietStepKeeps DEF vars, WInv
<1> QED BY InitWaits, NextKeepsWaits, <1>1, PTL DEF Spec

(* The pointer to the push stream is indeterminate only during addTask.    *)
THEOREM PushStreamIsAssigned == Spec => []PushStreamAssigned
<1>1. PInv => PushStreamAssigned
  BY DEF PInv, Order, PushAssigned, IInv, TypeOK, PushStreamAssigned
<1> QED BY PooledInvariance, <1>1, PTL

(* Workers that end by themselves join each other, with no lock and no     *)
(* agreement.  Their waits never close a circle: a worker waits only for   *)
(* one that was launched before it, or, fatally, for itself.               *)
WaitsFollowLaunches ==
  \A w \in Worker :
    pc[w] = "join" /\ iter[w] # <<>> => Launched(Head(iter[w])) <= Launched(w)

(* Workers that end by themselves never wait for each other in a circle.   *)
THEOREM WaitsAreNotCircular == Spec => []WaitsFollowLaunches
<1>1. WInv => WaitsFollowLaunches
  <2> SUFFICES ASSUME WInv, NEW w \in Worker, pc[w] = "join", iter[w] # <<>>
               PROVE  Launched(Head(iter[w])) <= Launched(w)
    BY DEF WaitsFollowLaunches
  <2>1. w \in Thread
    BY DEF Thread
  <2>2. iter[w] \in Seq(Worker) /\ ByLaunch(iter[w])
    BY <2>1 DEF WInv, PInv, IInv, TypeOK, Waits, ListsByLaunch
  <2>3. /\ Head(iter[w]) \in ToSet(iter[w])
        /\ \A v \in ToSet(iter[w]) : Launched(Head(iter[w])) <= Launched(v)
    BY <2>2, ToSetOfTail, ByLaunchTail
  <2>4. w \in ToSet(iter[w]) \/ Launched(Head(iter[w])) < Launched(w)
    BY <2>3 DEF WInv, Waits, MeetsItself
  <2>5. Launched(Head(iter[w])) \in Nat /\ Launched(w) \in Nat
    BY <2>2, LaunchedNat
  <2> QED BY <2>3, <2>4, <2>5
<1> QED BY WaitsInvariance, <1>1, PTL

---------------------------------------------------------------------------
(* Somebody can go on, and gets nearer to the end.                         *)

(* Of the workers that have not finished, one was launched first.          *)
LEMMA FirstUnfinished ==
  ASSUME Unfinished # {}
  PROVE  \E w \in Unfinished : \A v \in Unfinished : Launched(w) <= Launched(v)
<1> DEFINE T == {Launched(w) : w \in Unfinished}
<1>1. T \subseteq Nat /\ T # {}
  BY LaunchedNat DEF Unfinished
<1>2. PICK n \in T : \A m \in T : n <= m
  BY <1>1, LeastNumber
<1>3. PICK w \in Unfinished : n = Launched(w)
  BY <1>2
<1> QED BY <1>2, <1>3

(* The first of them is not held up once m_state is cleared: those it      *)
(* could wait for have finished.                                           *)
LEMMA FirstCanStep ==
  ASSUME WInv, WaitsFollowLaunches, ~m_state, NEW w \in Unfinished,
         \A v \in Unfinished : Launched(w) <= Launched(v)
  PROVE  CanStep(w)
<1>1. /\ w \in Worker /\ w \in Thread /\ w # Caller
      /\ pc[w] \in {"body", "pause", "stop", "iterate", "join"}
      /\ iter[w] \in Seq(Worker) /\ joinable \subseteq Worker
  BY CallerIsNoWorker
     DEF Unfinished, WInv, PInv, IInv, TypeOK, WorkerPC, PausePC, Thread
<1>2. CASE pc[w] # "join" \/ iter[w] = <<>> \/ Head(iter[w]) = w
  BY <1>1, <1>2 DEF CanStep
<1>3. CASE pc[w] = "join" /\ iter[w] # <<>> /\ Head(iter[w]) # w
  <2> DEFINE v == Head(iter[w])
  <2>1. v \in Worker /\ Launched(v) <= Launched(w)
    BY <1>1, <1>3 DEF WaitsFollowLaunches
  <2>2. v \in ToSet(iter[w]) /\ ByLaunch(iter[w])
    BY <1>1, <1>3, ToSetOfTail DEF WInv, Waits, ListsByLaunch
  <2>3. Launched(v) < Launched(w)
    <3>1. /\ Launched(v) \in Nat /\ Launched(w) \in Nat
          /\ \A u \in ToSet(iter[w]) : Launched(u) \in Nat
      BY <1>1, <2>1, LaunchedNat, ToSetOfSeq
    <3>2. CASE w \in ToSet(iter[w])
      <4>1. PICK i \in 1 .. Len(iter[w]) : iter[w][i] = w
        BY <3>2 DEF ToSet
      <4>2. iter[w][1] = v /\ i # 1 /\ i \in Nat /\ Len(iter[w]) \in Nat
        BY <1>1, <1>3, <4>1, HeadTailProperties
      <4>3. 1 \in 1 .. Len(iter[w]) /\ 1 < i
        BY <4>1, <4>2
      <4> QED BY <2>2, <4>1, <4>2, <4>3 DEF ByLaunch
    <3>3. CASE w \notin ToSet(iter[w])
      BY <1>1, <1>3, <2>2, <3>3 DEF WInv, Waits, MeetsItself
    <3> QED BY <3>2, <3>3
  <2>4. v \notin Unfinished
    BY <1>1, <2>1, <2>3, LaunchedNat DEF Unfinished
  <2>5. v \notin joinable \/ pc[v] = "done"
    BY <2>1, <2>4 DEF Unfinished, WInv, Waits, JoinableIsLaunched
  <2> QED BY <1>3, <2>5 DEF CanStep
<1> QED BY <1>2, <1>3

(* While the scheduler is in pause() some thread can go on.                *)
THEOREM PauseIsNeverStuck == Spec => []PauseNeverStuck
<1>1. ASSUME WInv, WaitsFollowLaunches, pc[Caller] \in PausePC
      PROVE  \E t \in Thread : CanStep(t)
  <2>1. CASE pc[Caller] \in {"pause", "stop", "iterate"}
    BY <2>1, CallerIsNoWorker DEF CanStep
  <2>2. CASE pc[Caller] = "join"
    <3>1. ~m_state
      BY <1>1, <2>2 DEF WInv, PInv, Order, CallInPlace
    <3>2. CASE Unfinished # {}
      <4>1. PICK w \in Unfinished :
              \A v \in Unfinished : Launched(w) <= Launched(v)
        BY <3>2, FirstUnfinished
      <4> QED BY <1>1, <3>1, <4>1, FirstCanStep DEF Unfinished, Thread
    <3>3. CASE Unfinished = {}
      <4>1. CASE iter[Caller] = <<>>
        BY <2>2, <4>1, CallerIsNoWorker DEF CanStep
      <4>2. CASE iter[Caller] # <<>>
        <5>1. Head(iter[Caller]) \in Worker
          BY <1>1, <4>2, CallerIsNoWorker DEF WInv, PInv, IInv, TypeOK
        <5>2. Head(iter[Caller]) \notin joinable \/ pc[Head(iter[Caller])] = "done"
          BY <1>1, <3>3, <5>1 DEF Unfinished, WInv, Waits, JoinableIsLaunched
        <5> QED BY <2>2, <4>2, <5>2, CallerIsNoWorker DEF CanStep
      <4> QED BY <4>1, <4>2
    <3> QED BY <3>2, <3>3
  <2> QED BY <1>1, <2>1, <2>2 DEF PausePC
<1>2. WInv /\ WaitsFollowLaunches => PauseNeverStuck
  BY <1>1 DEF PauseNeverStuck
<1> QED BY WaitsInvariance, WaitsAreNotCircular, <1>2, PTL

(* A step of pause() by one thread, and of no other.                       *)
LEMMA PauseStepNearer ==
  ASSUME IInv, NEW t \in Thread, PauseSteps(t), alive',
         pc'[Caller] \in PausePC
  PROVE  /\ Nearer(t)
         /\ pc' = [pc EXCEPT ![t] = pc'[t]]
         /\ iter' = [iter EXCEPT ![t] = iter'[t]]
<1>1. TypeOK /\ iter[t] \in Seq(Worker)
  BY DEF IInv, TypeOK
<1>2. ~Terminate
  BY DEF Terminate
<1>3. ASSUME NEW l, Goto(t, l), UNCHANGED iter, Stage[l] < Stage[pc[t]]
      PROVE  /\ Nearer(t)
             /\ pc' = [pc EXCEPT ![t] = pc'[t]]
             /\ iter' = [iter EXCEPT ![t] = iter'[t]]
  <2>1. pc'[t] = l /\ pc' = [pc EXCEPT ![t] = l] /\ iter' = [iter EXCEPT ![t] = iter'[t]]
    BY <1>1, <1>3 DEF TypeOK, Goto
  <2> QED BY <1>3, <2>1 DEF Nearer
<1>4. CASE PauseTest(t) /\ m_state
  BY <1>3, <1>4 DEF PauseTest, Stage
<1>5. CASE PauseStop(t)
  BY <1>3, <1>5 DEF PauseStop, Stage
<1>6. ASSUME PauseReturn(t), UNCHANGED iter, pc[t] \in {"pause", "join"}
      PROVE  /\ Nearer(t)
             /\ pc' = [pc EXCEPT ![t] = pc'[t]]
             /\ iter' = [iter EXCEPT ![t] = iter'[t]]
  <2>1. t # Caller
    BY <1>1, <1>6, PauseReturnPC DEF PausePC
  <2>2. Goto(t, "done") /\ Stage["done"] < Stage[pc[t]]
    BY <1>6, <2>1 DEF PauseReturn, Stage
  <2> QED BY <1>3, <1>6, <2>2
<1>7. CASE PauseTest(t) /\ ~m_state
  BY <1>6, <1>7 DEF PauseTest
<1>8. CASE PauseIterate(t)
  <2>1. /\ pc' = [pc EXCEPT ![t] = "join"] /\ pc'[t] = "join" /\ pc[t] = "iterate"
        /\ iter' = [iter EXCEPT ![t] = m_threads] /\ iter'[t] = m_threads
    BY <1>1, <1>8 DEF PauseIterate, Goto, TypeOK
  <2>2. Stage["join"] < Stage["iterate"]
    BY DEF Stage
  <2>3. Nearer(t)
    BY <2>1, <2>2 DEF Nearer
  <2> QED BY <2>1, <2>3
<1>9. CASE JoinNext(t)
  <2>1. /\ iter' = [iter EXCEPT ![t] = Tail(iter[t])] /\ iter'[t] = Tail(iter[t])
        /\ pc' = pc /\ pc' = [pc EXCEPT ![t] = pc'[t]] /\ iter[t] # <<>>
    BY <1>1, <1>2, <1>9 DEF JoinNext, TypeOK
  <2>2. Len(Tail(iter[t])) < Len(iter[t])
    BY <1>1, <2>1, HeadTailProperties
  <2> QED BY <2>1, <2>2 DEF Nearer
<1>10. CASE DeleteHandles(t)
  BY <1>2, <1>6, <1>10 DEF DeleteHandles
<1> QED BY <1>4, <1>5, <1>7, <1>8, <1>9, <1>10 DEF PauseSteps

(* Meanwhile every step brings its thread nearer to the end of its work    *)
(* and takes no other back.                                                *)
THEOREM PauseKeepsWindingDown == Spec => PauseWindsDown
<1> DEFINE A == alive' /\ pc[Caller] \in PausePC /\ pc'[Caller] \in PausePC
           B == \E t \in Thread : /\ Nearer(t)
                                  /\ pc' = [pc EXCEPT ![t] = pc'[t]]
                                  /\ iter' = [iter EXCEPT ![t] = iter'[t]]
<1>1. ASSUME IInv, Next, A PROVE B \/ UNCHANGED vars
  <2>1. TypeOK /\ alive
    BY <1>1 DEF IInv, Next, Ended, vars
  <2>2. ASSUME NEW w \in Worker, NEW l \in {"pause", "done"}, pc[w] = "body",
               Goto(w, l), UNCHANGED iter
        PROVE  B
    <3>1. /\ w \in Thread /\ pc' = [pc EXCEPT ![w] = l] /\ pc'[w] = l
          /\ iter' = [iter EXCEPT ![w] = iter'[w]]
      BY <2>1, <2>2 DEF Thread, TypeOK, Goto
    <3>2. Nearer(w)
      BY <2>2, <3>1 DEF Nearer, Stage
    <3> QED BY <3>1, <3>2
  <2>3. ASSUME NEW w \in Worker,
               LoopExit(w) \/ StreamEnd(w) \/ PushAllocFails(w)
        PROVE  B
    BY <2>2, <2>3 DEF LoopExit, StreamEnd, PushAllocFails
  <2>4. \A w \in Worker : ~ForwardUnassigned(w)
    BY <1>1 DEF ForwardUnassigned, Terminate
  <2>5. ~Request /\ ~StartSteps /\ ~Destroy /\ ~EraseFailedAdd
    <3>1. pc[Caller] \in {"pause", "stop", "iterate", "join"}
      BY <1>1 DEF PausePC
    <3> QED BY <3>1 DEF Request, StartCall, PauseCall, StartSteps, Connect, Spawn,
                        Record, NewPushStream, StartReturned, LaunchFailed, Destroy,
                        EraseFailedAdd
  <2>6. ASSUME NEW t \in Thread, PauseSteps(t) PROVE B
    BY <1>1, <2>6, PauseStepNearer
  <2>7. (\E w \in Worker : LoopIterate(w)) \/ Ended => UNCHANGED vars
    BY DEF LoopIterate, Ended
  <2> HIDE DEF B
  <2> QED BY <1>1, <2>3, <2>4, <2>5, <2>6, <2>7 DEF Next
<1>2. IInv /\ [Next]_vars => [A => B]_vars
  BY <1>1
<1> QED BY Invariance, <1>2, PTL DEF Spec, PauseWindsDown

---------------------------------------------------------------------------
(* From there to PauseTerminates.                                          *)

(* What tlapm has no rule for: an action whose guard holds is ENABLED; all *)
(* these actions assign every variable and change one.                     *)
WorkerEnabled(w) == ENABLED <<WorkerAdvances(w)>>_vars

GuardsEnable ==
  alive =>
    /\ CanStep(Caller) => ENABLED <<CallerAdvances>>_vars
    /\ \A w \in Worker : CanStep(w) => WorkerEnabled(w)

(* One thread gets nearer to its end, the others stay where they are.      *)
Winds ==
  \E t \in Thread :
    /\ Nearer(t)
    /\ pc' = [pc EXCEPT ![t] = pc'[t]]
    /\ iter' = [iter EXCEPT ![t] = iter'[t]]

(* The threads are finitely many, and each has a stage and a list of       *)
(* handles: natural numbers that no behaviour lowers without end, whatever *)
(* the length of the list at each new stage.  The temporal prover does not *)
(* know of numbers and cannot say so.                                      *)
NoEndlessWinding == ~(<>[][Winds]_vars /\ []<><<Winds>>_vars)

(* Weak fairness says the same at every later moment; of a conjunction     *)
(* over all the workers the temporal prover cannot see it.                 *)
FairnessLasts == Fairness => []Fairness

(* A thread that can step does not stand still for ever.                   *)
LEMMA ThreadStandsNotStill ==
  ASSUME NEW t \in Thread
  PROVE  Fairness /\ []GuardsEnable /\ []alive /\ [][FALSE]_vars => ~CanStep(t)
<1>1. CanStep(t) /\ [FALSE]_vars => CanStep(t)'
  BY DEF CanStep, vars
<1>2. CASE t = Caller
  <2>1. GuardsEnable /\ alive /\ CanStep(t) => ENABLED <<CallerAdvances>>_vars
    BY <1>2 DEF GuardsEnable
  <2>2. Fairness => CallerRuns
    BY DEF Fairness
  <2>3. [FALSE]_vars => ~<<CallerAdvances>>_vars
    OBVIOUS
  <2> QED BY <1>1, <2>1, <2>2, <2>3, PTL DEF CallerRuns
<1>3. CASE t \in Worker
  <2>1. GuardsEnable /\ alive /\ CanStep(t) => WorkerEnabled(t)
    BY <1>3 DEF GuardsEnable
  <2>2. Fairness => WorkerRuns(t)
    BY <1>3 DEF Fairness
  <2>3. [FALSE]_vars => ~<<WorkerAdvances(t)>>_vars
    OBVIOUS
  <2> QED BY <1>1, <2>1, <2>2, <2>3, PTL DEF WorkerRuns, WorkerEnabled
<1> QED BY <1>2, <1>3 DEF Thread

(* A pause() that the scheduler waits for ends, or the process does, after *)
(* any number of start() calls and whatever the workers were doing.        *)
THEOREM PauseEnds ==
  FairSpec /\ FairnessLasts /\ []GuardsEnable /\ NoEndlessWinding => PauseTerminates
<1> DEFINE Pausing == alive /\ pc[Caller] \in PausePC
           SomeCanStep == \E t \in Thread : CanStep(t)
           Down == alive' /\ pc[Caller] \in PausePC /\ pc'[Caller] \in PausePC => Winds
<1>1. Fairness /\ []GuardsEnable /\ []alive /\ [][FALSE]_vars => ~SomeCanStep
  BY ThreadStandsNotStill
<1>2. /\ PauseNeverStuck /\ Pausing => SomeCanStep
      /\ Pausing => alive
  BY DEF PauseNeverStuck
<1>3. PauseWindsDown => [][Down]_vars
  BY PTL DEF PauseWindsDown, Winds
<1>4. Pausing /\ Pausing' /\ [Down]_vars => [Winds]_vars
  OBVIOUS
<1>5. [Winds]_vars /\ ~<<Winds>>_vars => [FALSE]_vars
  OBVIOUS
<1>6. ~Pausing => (pc[Caller] \notin PausePC \/ ~alive)
  OBVIOUS
<1> HIDE DEF Pausing, SomeCanStep, Down
<1>7. []Fairness /\ []GuardsEnable /\ []PauseNeverStuck /\ <>[]Pausing => ~<>[][FALSE]_vars
  BY <1>1, <1>2, PTL
<1>8. [][Down]_vars /\ NoEndlessWinding /\ <>[]Pausing => <>[][FALSE]_vars
  BY <1>4, <1>5, PTL DEF NoEndlessWinding
<1> QED BY <1>3, <1>6, <1>7, <1>8, PauseIsNeverStuck, PauseKeepsWindingDown, PTL
        DEF PauseTerminates, FairSpec, FairnessLasts
===========================================================================
