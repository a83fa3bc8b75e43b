------------------------ MODULE FramePipelineProofs ------------------------
(***************************************************************************)
(* Proofs about FramePipeline, for any number of frames.                   *)
(***************************************************************************)
EXTENDS FramePipeline, SequenceLemmas, Integers

Thread == {"pull", "forward", "push"}

Label == {"prepare", "loop", "decode", "queue", "connect", "lock", "take", "hand",
          "append", "encode", "release", "free", "pause", "join", "done",
          "drain", "drop", "pop"}

(* A thread that passes a frame on has one, and no other thread has.       *)
Holding ==
  /\ At("pull", "queue") => decoded # 0
  /\ pc["forward"] \in {"hand", "append"} <=> frame # None
  /\ pc["push"] \in {"encode", "release"} => frame_in # None
  /\ frame_in # None => pc["push"] \in {"encode", "release", "free"}

(* Who holds the locks, and what the push thread knows of its queue.       *)
Locks ==
  /\ mutex["push"] = "forward" <=> At("forward", "append")
  /\ caller \in {"joined", "destroyed"} => \A t \in Thread : At(t, "done")
  /\ At("push", "lock") => queue["push"] # <<>> \/ At("forward", "append")

Core == TypeOK /\ Holding /\ Locks

(* The places a frame passes, from the decoder to the encoder.             *)
Decoding == IF At("pull", "queue") THEN {decoded} ELSE {}
Waiting(s) == ToSet(queue[s])
Hand == {frame} \ {None}
Encoding == {frame_in} \ {None}

Below(A, B) == \A a \in A, b \in B : a < b
Increasing(q) == \A i, j \in DOMAIN q : i < j => q[i] < q[j]

(* A frame further on its way was decoded earlier.                         *)
Ordered ==
  /\ \A s \in Stream : Increasing(queue[s])
  /\ Below(Encoding, Waiting("push") \union Hand \union Waiting("pull") \union Decoding)
  /\ Below(Waiting("push"), Hand \union Waiting("pull") \union Decoding)
  /\ Below(Hand, Waiting("pull") \union Decoding)
  /\ Below(Waiting("pull"), Decoding)
  /\ Encoding \union Waiting("push") \union Hand \union Waiting("pull") \union Decoding
       \subseteq 1 .. decoded
  /\ Below({written}, Waiting("push") \union Hand \union Waiting("pull") \union Decoding)
  /\ written <= decoded
  /\ At("push", "encode") => written < frame_in

(* Custody, by the names used here, with what makes it inductive: the pull *)
(* thread has done nothing but decode, and a frame to be popped is there.  *)
InPlace ==
  Decoding \union Waiting("pull") \union Hand \union Waiting("push") \union Encoding

Kept ==
  ~disconnected =>
    /\ pc["pull"] \in {"loop", "decode", "queue"}
    /\ InPlace \union freed = 1 .. decoded
    /\ InPlace \intersect freed = IF At("push", "pop") THEN {Head(queue["push"])} ELSE {}
    /\ At("push", "pop") => queue["push"] # <<>>

---------------------------------------------------------------------------
(* Types, locks and the pointers of the threads.                           *)

(* A step of thread t moves it alone.                                      *)
LEMMA GotoMoves ==
  ASSUME TypeOK, NEW t \in Thread, NEW l \in Label, Goto(t, l)
  PROVE  /\ pc' \in [Thread -> Label]
         /\ pc'[t] = l
         /\ \A u \in Thread : u # t => pc'[u] = pc[u]
  BY DEF TypeOK, Goto, Thread, Label, Draining

(* Queues stay queues when a frame is appended or the front taken.         *)
LEMMA QueueMoves ==
  ASSUME NEW S, NEW q \in Seq(S)
  PROVE  /\ \A x \in S : Append(q, x) \in Seq(S) /\ Append(q, x) # <<>>
         /\ q # <<>> => Head(q) \in S /\ Tail(q) \in Seq(S)
  BY AppendProperties, HeadTailProperties

(* The same of the two frame queues.                                       *)
LEMMA QueuesMove ==
  ASSUME Core, NEW s \in Stream
  PROVE  /\ \A f \in Frame : Append(queue[s], f) \in Seq(Frame) /\ Append(queue[s], f) # <<>>
         /\ queue[s] # <<>> => Head(queue[s]) \in Frame /\ Tail(queue[s]) \in Seq(Frame)
<1>1. queue[s] \in Seq(Frame)
  BY DEF Core, TypeOK
<1> QED BY <1>1, QueueMoves

(* An end of the process changes nothing else.                             *)
LEMMA EndKeepsCore == Core /\ End => Core'
  BY DEF Core, TypeOK, Holding, Locks, End, At

(* The pull thread keeps types, locks and pointers.                        *)
LEMMA PullKeepsCore == Core /\ Pull => Core'
<1> SUFFICES ASSUME Core, Pull, ~End PROVE Core'
  BY EndKeepsCore
<1>q. /\ \A f \in Frame : Append(queue["pull"], f) \in Seq(Frame)
      /\ queue["pull"] # <<>> =>
           Head(queue["pull"]) \in Frame /\ Tail(queue["pull"]) \in Seq(Frame)
  BY QueuesMove DEF Stream
<1> USE DEF Core, TypeOK, Holding, Locks, At, Free, DoubleFree, Frame, None, Stream,
           Media, Draining, Thread, Label
<1> HIDE DEF End
<1>1. ASSUME NEW l \in Label, Goto("pull", l)
      PROVE  /\ pc' \in [Thread -> Label]
             /\ pc'["pull"] = l
             /\ pc'["forward"] = pc["forward"] /\ pc'["push"] = pc["push"]
  BY <1>1, GotoMoves
<1>2. CASE PullReads
  <2>1. reconnecting' \in BOOLEAN /\ disconnected' \in BOOLEAN
    BY <1>2 DEF PullReads
  <2> QED BY <1>1, <1>2, <2>1 DEF PullReads
<1>3. ASSUME NEW k \in Media, PullDecodes(k)
      PROVE  Core'
  <2>1. disconnected' \in BOOLEAN
    BY <1>3 DEF PullDecodes
  <2>2. decoded' \in 0 .. MaxFrames /\ last' \in [Media -> Frame \union {None}]
        /\ (pc'["pull"] = "queue" => decoded' # 0)
    BY <1>1, <1>3, MaxFramesAssumption DEF PullDecodes
  <2> QED BY <1>1, <1>3, <2>1, <2>2 DEF PullDecodes
<1>4. CASE PullQueues
  <2>1. decoded \in Frame
    BY <1>4, MaxFramesAssumption DEF PullQueues
  <2>2. queue' \in [Stream -> Seq(Frame)] /\ queue'["push"] = queue["push"]
    BY <1>4, <2>1, <1>q DEF PullQueues
  <2> QED BY <1>1, <1>4, <2>2 DEF PullQueues
<1>5. CASE PullFrees
  <2>1. reconnecting' \in BOOLEAN
    BY <1>5 DEF PullFrees
  <2>2. freed' \subseteq Frame
    <3>1. {last[k] : k \in Media} \ {None} \subseteq Frame
      OBVIOUS
    <3>2. freed' = freed \union ({last[k] : k \in Media} \ {None})
      BY <1>5 DEF PullFrees
    <3> QED BY <3>1, <3>2
  <2> QED BY <1>1, <1>5, <2>1, <2>2 DEF PullFrees
<1>6. CASE PullConnects
  <2>1. PICK l \in {"loop", "free"} : Goto("pull", l)
    BY <1>6 DEF PullConnects
  <2>2. /\ pc["pull"] = "connect"
        /\ UNCHANGED <<process, m_state, caller, queue, mutex, last, frame, frame_in,
                       decoded, freed, written, reconnecting, disconnected>>
    BY <1>6 DEF PullConnects
  <2> QED BY <1>1, <2>1, <2>2
<1>7. CASE PullPauses
  <2>1. /\ pc["pull"] = "pause" /\ Goto("pull", "done")
        /\ UNCHANGED <<process, m_state, caller, queue, mutex, last, frame, frame_in,
                       decoded, freed, written, reconnecting, disconnected>>
    BY <1>7 DEF PullPauses
  <2> QED BY <1>1, <2>1
<1>8. CASE DrainTests("pull")
  BY <1>1, <1>8 DEF DrainTests
<1>9. CASE DrainFrees("pull")
  <2>1. queue["pull"] # <<>> => Head(queue["pull"]) \in Frame
    BY <1>q
  <2>2. freed' \subseteq Frame
    BY <1>9, <2>1 DEF DrainFrees
  <2>3. /\ pc["pull"] = "drop" /\ Goto("pull", "pop")
        /\ UNCHANGED <<process, m_state, caller, queue, mutex, last, frame, frame_in,
                       decoded, written, reconnecting, disconnected>>
    BY <1>9 DEF DrainFrees
  <2> QED BY <1>1, <2>2, <2>3
<1>10. CASE DrainPops("pull")
  <2>1. queue["pull"] # <<>> => Tail(queue["pull"]) \in Seq(Frame)
    BY <1>q
  <2>2. queue' \in [Stream -> Seq(Frame)] /\ queue'["push"] = queue["push"]
    <3>1. queue["pull"] # <<>> /\ queue' = [queue EXCEPT !["pull"] = Tail(@)]
      BY <1>10 DEF DrainPops
    <3> HIDE DEF Holding, Locks, Thread, Label, Draining
    <3> QED BY <2>1, <3>1
  <2>3. /\ pc["pull"] = "pop" /\ Goto("pull", "drain")
        /\ UNCHANGED <<process, m_state, caller, mutex, last, frame, frame_in,
                       decoded, freed, written, reconnecting, disconnected>>
    BY <1>10 DEF DrainPops
  <2> QED BY <1>1, <2>2, <2>3
<1> QED BY <1>2, <1>3, <1>4, <1>5, <1>6, <1>7, <1>8, <1>9, <1>10 DEF Pull, Drain

(* So does the forwarding thread,                                          *)
LEMMA ForwardKeepsCore == Core /\ Forward => Core'
<1> SUFFICES ASSUME Core, Forward PROVE Core'
  OBVIOUS
<1>q. /\ \A f \in Frame : /\ Append(queue["push"], f) \in Seq(Frame)
                          /\ Append(queue["push"], f) # <<>>
      /\ queue["pull"] # <<>> =>
           Head(queue["pull"]) \in Frame /\ Tail(queue["pull"]) \in Seq(Frame)
  BY QueuesMove DEF Stream
<1> USE DEF Core, TypeOK, Holding, Locks, At, Frame, None, Stream, Draining, Thread,
           Label
<1>1. ASSUME NEW l \in Label, Goto("forward", l)
      PROVE  /\ pc' \in [Thread -> Label]
             /\ pc'["forward"] = l
             /\ pc'["pull"] = pc["pull"] /\ pc'["push"] = pc["push"]
  BY <1>1, GotoMoves
<1>2. CASE ForwardLocks
  <2>1. mutex' \in [Stream -> {"none", "forward"}] /\ mutex'["push"] = mutex["push"]
    BY <1>2 DEF ForwardLocks
  <2> QED BY <1>1, <1>2, <2>1 DEF ForwardLocks
<1>3. CASE ForwardTakes
  <2>1. mutex' \in [Stream -> {"none", "forward"}] /\ mutex'["push"] = mutex["push"]
    BY <1>3 DEF ForwardTakes
  <2>2. queue["pull"] # <<>> =>
          Head(queue["pull"]) \in Frame /\ Tail(queue["pull"]) \in Seq(Frame)
    BY <1>q
  <2>3. queue' \in [Stream -> Seq(Frame)] /\ queue'["push"] = queue["push"]
    BY <1>3, <2>2 DEF ForwardTakes
  <2> QED BY <1>1, <1>3, <2>1, <2>2, <2>3 DEF ForwardTakes
<1>4. CASE ForwardHands
  <2>1. mutex' \in [Stream -> {"none", "forward"}] /\ mutex'["push"] = "forward"
    BY <1>4 DEF ForwardHands
  <2> QED BY <1>1, <1>4, <2>1 DEF ForwardHands
<1>5. CASE ForwardAppends
  <2>1. mutex' \in [Stream -> {"none", "forward"}] /\ mutex'["push"] = "none"
    BY <1>5 DEF ForwardAppends
  <2>2. frame \in Frame
    BY <1>5 DEF ForwardAppends
  <2>3. queue' \in [Stream -> Seq(Frame)] /\ queue'["push"] # <<>>
    <3>1. /\ Append(queue["push"], frame) \in Seq(Frame)
          /\ Append(queue["push"], frame) # <<>>
      BY <1>q, <2>2
    <3> QED BY <1>5, <3>1 DEF ForwardAppends
  <2> QED BY <1>1, <1>5, <2>1, <2>3 DEF ForwardAppends
<1> QED BY <1>2, <1>3, <1>4, <1>5 DEF Forward

(* the push thread,                                                        *)
LEMMA PushKeepsCore == Core /\ Push => Core'
<1> SUFFICES ASSUME Core, Push, ~End PROVE Core'
  BY EndKeepsCore
<1>q. queue["push"] # <<>> =>
        Head(queue["push"]) \in Frame /\ Tail(queue["push"]) \in Seq(Frame)
  BY QueuesMove DEF Stream
<1> USE DEF Core, TypeOK, Holding, Locks, At, Free, DoubleFree, Frame, None, Stream,
           Draining, Thread, Label
<1> HIDE DEF End
<1>1. ASSUME NEW l \in Label, Goto("push", l)
      PROVE  /\ pc' \in [Thread -> Label]
             /\ pc'["push"] = l
             /\ pc'["pull"] = pc["pull"] /\ pc'["forward"] = pc["forward"]
  BY <1>1, GotoMoves
<1>2. CASE PushPrepares
  <2>1. PICK l \in {"loop", "free", "done"} : Goto("push", l)
    BY <1>2 DEF PushPrepares
  <2>2. /\ pc["push"] = "prepare"
        /\ UNCHANGED <<process, m_state, caller, queue, mutex, last, frame, frame_in,
                       decoded, freed, written, reconnecting, disconnected>>
    BY <1>2 DEF PushPrepares
  <2> QED BY <1>1, <2>1, <2>2
<1>3. CASE PushTests
  <2>1. CASE UNCHANGED pc
    BY <1>3, <2>1 DEF PushTests
  <2>2. CASE ~m_state /\ Goto("push", "free")
    BY <1>1, <1>3, <2>2 DEF PushTests
  <2>3. CASE /\ queue["push"] # <<>> \/ mutex["push"] = "forward"
             /\ Goto("push", "lock")
    BY <1>1, <1>3, <2>3 DEF PushTests
  <2> QED BY <1>3, <2>1, <2>2, <2>3 DEF PushTests
<1>4. CASE PushTakes
  <2>1. queue' \in [Stream -> Seq(Frame)]
    BY <1>4, <1>q DEF PushTakes
  <2>2. frame_in' \in Frame /\ frame_in' # None /\ Goto("push", "encode")
    BY <1>4, <1>q DEF PushTakes
  <2>3. /\ pc["push"] = "lock"
        /\ UNCHANGED <<process, m_state, caller, mutex, last, frame, decoded, freed,
                       written, reconnecting, disconnected>>
    BY <1>4 DEF PushTakes
  <2> QED BY <1>1, <2>1, <2>2, <2>3
<1>5. CASE PushEncodes
  <2>1. written' \in 0 .. MaxFrames
    BY <1>5, MaxFramesAssumption DEF PushEncodes
  <2>2. PICK l \in {"release", "free"} : Goto("push", l)
    BY <1>5 DEF PushEncodes
  <2>3. /\ pc["push"] = "encode"
        /\ UNCHANGED <<process, m_state, caller, queue, mutex, last, frame, frame_in,
                       decoded, freed, reconnecting, disconnected>>
    BY <1>5 DEF PushEncodes
  <2> QED BY <1>1, <2>1, <2>2, <2>3
<1>6. CASE PushReleases
  <2>1. freed' \subseteq Frame
    BY <1>6 DEF PushReleases
  <2> QED BY <1>1, <1>6, <2>1 DEF PushReleases
<1>7. CASE PushFrees
  <2>1. freed' \subseteq Frame
    BY <1>7 DEF PushFrees
  <2> QED BY <1>1, <1>7, <2>1 DEF PushFrees
<1>8. CASE PushPauses
  <2>1. m_state' \in BOOLEAN
    BY <1>8 DEF PushPauses
  <2>2. PICK l \in {"join", "done"} : Goto("push", l)
    BY <1>8 DEF PushPauses
  <2> QED BY <1>1, <1>8, <2>1, <2>2 DEF PushPauses
<1>9. CASE PushJoins
  BY <1>9 DEF PushJoins
<1>10. CASE DrainTests("push")
  BY <1>1, <1>10 DEF DrainTests
<1>11. CASE DrainFrees("push")
  <2>1. freed' \subseteq Frame
    BY <1>11, <1>q DEF DrainFrees
  <2>2. /\ pc["push"] = "drop" /\ Goto("push", "pop")
        /\ UNCHANGED <<process, m_state, caller, queue, mutex, last, frame, frame_in,
                       decoded, written, reconnecting, disconnected>>
    BY <1>11 DEF DrainFrees
  <2> QED BY <1>1, <2>1, <2>2
<1>12. CASE DrainPops("push")
  <2>1. queue' \in [Stream -> Seq(Frame)]
    BY <1>12, <1>q DEF DrainPops
  <2>2. /\ pc["push"] = "pop" /\ Goto("push", "drain")
        /\ UNCHANGED <<process, m_state, caller, mutex, last, frame, frame_in,
                       decoded, freed, written, reconnecting, disconnected>>
    BY <1>12 DEF DrainPops
  <2> QED BY <1>1, <2>1, <2>2
<1> QED
  BY <1>2, <1>3, <1>4, <1>5, <1>6, <1>7, <1>8, <1>9, <1>10, <1>11, <1>12
  DEF Push, Drain

(* and the scheduler.                                                      *)
LEMMA CallerKeepsCore == Core /\ CallerStep => Core'
<1> SUFFICES ASSUME Core, CallerStep, ~End PROVE Core'
  BY EndKeepsCore
<1> USE DEF Core, TypeOK, Holding, Locks, At, Free, DoubleFree, Frame, None, Stream,
           Thread
<1> HIDE DEF End
<1>1. CASE CallerStops
  <2>1. m_state' \in BOOLEAN
    BY <1>1 DEF CallerStops
  <2> QED BY <1>1, <2>1 DEF CallerStops
<1>2. CASE CallerJoins
  BY <1>2 DEF CallerJoins
<1>3. CASE CallerDestroys
  <2>1. \A s \in Stream : ToSet(queue[s]) \subseteq Frame
    BY ToSetOfSeq
  <2>2. freed' \subseteq Frame
    <3>1. UNION {ToSet(queue[s]) : s \in Stream} \subseteq Frame
      BY <2>1
    <3>2. freed' = freed \union UNION {ToSet(queue[s]) : s \in Stream}
      BY <1>3 DEF CallerDestroys
    <3> QED BY <3>1, <3>2
  <2>3. queue' \in [Stream -> Seq(Frame)]
    <3>1. <<>> \in Seq(Frame)
      BY EmptySeq
    <3> QED BY <1>3, <3>1 DEF CallerDestroys
  <2> QED BY <1>3, <2>2, <2>3 DEF CallerDestroys
<1> QED BY <1>1, <1>2, <1>3 DEF CallerStep

(* A started task is like that.                                            *)
LEMMA InitCore == Init => Core
<1> SUFFICES ASSUME Init PROVE Core
  OBVIOUS
<1>1. <<>> \in Seq(Frame)
  BY EmptySeq
<1>2. m_state \in BOOLEAN /\ reconnecting \in BOOLEAN /\ disconnected \in BOOLEAN
  BY DEF Init
<1>3. queue \in [Stream -> Seq(Frame)] /\ decoded \in 0 .. MaxFrames
      /\ written \in 0 .. MaxFrames
  BY <1>1, MaxFramesAssumption DEF Init
<1>4. pc \in [Thread -> Label] /\ pc["pull"] = "loop" /\ pc["forward"] = "loop"
      /\ pc["push"] = "prepare"
  BY DEF Init, Thread, Label
<1> QED
  BY <1>2, <1>3, <1>4 DEF Init, Core, TypeOK, Holding, Locks, At, Frame, None, Stream, Media,
     Draining, Thread, Label

(* Every step keeps it, the ended process too.                             *)
LEMMA NextKeepsCore == Core /\ [Next]_vars => Core'
<1>1. Core /\ UNCHANGED vars => Core'
  BY DEF vars, Core, TypeOK, Holding, Locks, At
<1> QED
  BY <1>1, PullKeepsCore, ForwardKeepsCore, PushKeepsCore, CallerKeepsCore
  DEF Next, Ended

(* It holds in every reachable state.                                      *)
LEMMA AlwaysCore == Spec => []Core
  BY InitCore, NextKeepsCore, PTL DEF Spec

(* Every variable of the pipeline keeps its type.                          *)
THEOREM PipelineTypeCorrect == Spec => []TypeOK
  BY AlwaysCore, PTL DEF Core

(* front() in PushStream::start is never called on an empty queue, although*)
(* the test of empty() is made without the lock.                           *)
THEOREM FrontAlwaysExists == Spec => []FrontExists
<1>1. Core => FrontExists
  BY DEF Core, Locks, FrontExists
<1> QED BY <1>1, AlwaysCore, PTL

---------------------------------------------------------------------------
(* The order of the frames.                                                *)

(* A larger number at the back keeps a queue increasing.                   *)
LEMMA IncreasingAppend ==
  ASSUME NEW q \in Seq(Nat), NEW x \in Nat, Increasing(q), Below(ToSet(q), {x})
  PROVE  Increasing(Append(q, x))
<1> DEFINE a == Append(q, x)
<1>1. a \in Seq(Nat) /\ Len(a) = Len(q) + 1 /\ a[Len(q) + 1] = x
      /\ \A i \in 1 .. Len(q) : a[i] = q[i]
  BY AppendProperties
<1>2. DOMAIN a = 1 .. Len(q) + 1 /\ DOMAIN q = 1 .. Len(q) /\ Len(q) \in Nat
  BY <1>1
<1>3. \A i \in 1 .. Len(q) : q[i] < x
  BY <1>2 DEF Below, ToSet
<1> HIDE DEF a
<1>4. SUFFICES ASSUME NEW i \in 1 .. Len(q) + 1, NEW j \in 1 .. Len(q) + 1, i < j
               PROVE  a[i] < a[j]
  BY <1>2 DEF Increasing, a
<1>5. i \in 1 .. Len(q)
  BY <1>2, <1>4
<1>6. CASE j = Len(q) + 1
  BY <1>1, <1>3, <1>5, <1>6
<1>7. CASE j \in 1 .. Len(q)
  BY <1>1, <1>2, <1>4, <1>5, <1>7 DEF Increasing
<1> QED BY <1>2, <1>6, <1>7

(* The front of an increasing queue is below the rest.                     *)
LEMMA IncreasingTail ==
  ASSUME NEW q \in Seq(Nat), q # <<>>, Increasing(q)
  PROVE  Increasing(Tail(q)) /\ Below({Head(q)}, ToSet(Tail(q)))
<1> DEFINE r == Tail(q)
<1>1. /\ Head(q) = q[1]
      /\ r \in Seq(Nat) /\ Len(r) = Len(q) - 1
      /\ \A i \in 1 .. Len(r) : r[i] = q[i + 1]
  BY HeadTailProperties
<1>2. DOMAIN q = 1 .. Len(q) /\ DOMAIN r = 1 .. Len(q) - 1 /\ Len(q) \in Nat
  BY <1>1
<1> HIDE DEF r
<1>3. \A i \in DOMAIN r : r[i] = q[i + 1] /\ i + 1 \in DOMAIN q /\ 1 \in DOMAIN q /\ i \in Nat
                          /\ 1 < i + 1
  <2> SUFFICES ASSUME NEW i \in 1 .. Len(q) - 1
               PROVE  /\ r[i] = q[i + 1]
                      /\ i + 1 \in 1 .. Len(q) /\ 1 \in 1 .. Len(q) /\ i \in Nat
                      /\ 1 < i + 1
    BY <1>2
  <2>1. r[i] = q[i + 1]
    BY <1>1
  <2> QED BY <1>2, <2>1
<1>4. Increasing(r)
  BY <1>3 DEF Increasing
<1>5. Below({Head(q)}, ToSet(r))
  BY <1>1, <1>3 DEF Increasing, Below, ToSet
<1> QED BY <1>4, <1>5 DEF r

(* Most steps move no frame on: frames stay where they are or go away.     *)
Loses ==
  /\ \A s \in Stream : Waiting(s)' \subseteq Waiting(s) /\ Increasing(queue'[s])
  /\ Hand' \subseteq Hand
  /\ Encoding' \subseteq Encoding
  /\ Decoding' \subseteq Decoding
  /\ decoded' = decoded
  /\ written' = written
  /\ At("push", "encode")' => At("push", "encode") /\ frame_in' = frame_in

(* What is left of an ordered pipeline is ordered.                         *)
LEMMA LossKeepsOrder ==
  ASSUME Ordered, Loses
  PROVE  Ordered'
  BY DEF Ordered, Loses, Below, Stream

(* What popping the front of one queue does.                               *)
LEMMA PopMoves ==
  ASSUME Core, Ordered, NEW s \in Stream, queue[s] # <<>>,
         queue' = [queue EXCEPT ![s] = Tail(@)]
  PROVE  /\ \A t \in Stream : Increasing(queue'[t])
         /\ \A t \in Stream : t # s => Waiting(t)' = Waiting(t)
         /\ Waiting(s) = Waiting(s)' \union {Head(queue[s])}
         /\ Below({Head(queue[s])}, Waiting(s)')
<1>1. \A t \in Stream : queue'[t] = IF t = s THEN Tail(queue[s]) ELSE queue[t]
  BY DEF Core, TypeOK
<1>2. queue[s] \in Seq(Nat) /\ queue[s] \in Seq(Frame)
  <2>1. queue[s] \in Seq(Frame) /\ Frame \subseteq Nat
    BY MaxFramesAssumption DEF Core, TypeOK, Frame
  <2> QED BY <2>1, SeqMonotonic
<1>3. Increasing(Tail(queue[s])) /\ Below({Head(queue[s])}, ToSet(Tail(queue[s])))
  BY <1>2, IncreasingTail DEF Ordered
<1>4. ToSet(queue[s]) = ToSet(Tail(queue[s])) \union {Head(queue[s])}
  BY <1>2, ToSetOfTail
<1> QED BY <1>1, <1>3, <1>4 DEF Waiting, Ordered

(* What appending a frame to one queue does.                               *)
LEMMA PushMoves ==
  ASSUME Core, Ordered, NEW s \in Stream, NEW f \in Frame, Below(Waiting(s), {f}),
         queue' = [queue EXCEPT ![s] = Append(@, f)]
  PROVE  /\ \A t \in Stream : Increasing(queue'[t])
         /\ \A t \in Stream : t # s => Waiting(t)' = Waiting(t)
         /\ Waiting(s)' = Waiting(s) \union {f}
<1>1. \A t \in Stream : queue'[t] = IF t = s THEN Append(queue[s], f) ELSE queue[t]
  BY DEF Core, TypeOK
<1>2. queue[s] \in Seq(Nat) /\ queue[s] \in Seq(Frame) /\ f \in Nat
  <2>1. queue[s] \in Seq(Frame) /\ Frame \subseteq Nat
    BY MaxFramesAssumption DEF Core, TypeOK, Frame
  <2> QED BY <2>1, SeqMonotonic
<1>3. Increasing(Append(queue[s], f))
  BY <1>2, IncreasingAppend DEF Ordered, Waiting
<1>4. ToSet(Append(queue[s], f)) = ToSet(queue[s]) \union {f}
  BY <1>2, ToSetOfAppend
<1> QED BY <1>1, <1>3, <1>4 DEF Waiting, Ordered

(* A step that leaves queues and pointers alone and gives the encoder      *)
(* nothing.                                                                *)
LEMMA QuietStepLoses ==
  ASSUME Ordered,
         UNCHANGED <<queue, frame, frame_in, decoded, written>>,
         At("pull", "queue")' => At("pull", "queue"),
         At("push", "encode")' => At("push", "encode")
  PROVE  Loses
<1>1. \A s \in Stream : Waiting(s)' = Waiting(s) /\ Increasing(queue'[s])
  BY DEF Ordered, Waiting
<1> QED BY <1>1 DEF Loses, Hand, Encoding, Decoding

(* disconnect() and the destructors throw frames away.                     *)
LEMMA DrainLoses ==
  ASSUME Core, Ordered, NEW s \in {"pull", "push"}, Drain(s), ~End
  PROVE  Loses
<1> USE DEF At, Free, DoubleFree
<1>1. ASSUME NEW l \in Label, Goto(s, l), l \notin {"queue", "encode"}
      PROVE  /\ At("pull", "queue")' => At("pull", "queue")
             /\ At("push", "encode")' => At("push", "encode")
  BY <1>1, GotoMoves DEF Core, Thread
<1>2. CASE DrainTests(s)
  BY <1>1, <1>2, QuietStepLoses DEF DrainTests, Label
<1>3. CASE DrainFrees(s)
  BY <1>1, <1>3, QuietStepLoses DEF DrainFrees, Label
<1>4. CASE DrainPops(s)
  <2>1. /\ queue[s] # <<>>
        /\ queue' = [queue EXCEPT ![s] = Tail(@)]
        /\ Goto(s, "drain")
        /\ UNCHANGED <<frame, frame_in, decoded, written>>
    BY <1>4 DEF DrainPops
  <2>2. \A t \in Stream : Increasing(queue'[t]) /\ Waiting(t)' \subseteq Waiting(t)
    BY <2>1, PopMoves DEF Stream
  <2>3. /\ At("pull", "queue")' => At("pull", "queue")
        /\ At("push", "encode")' => At("push", "encode")
    BY <1>1, <2>1 DEF Label
  <2> QED BY <2>1, <2>2, <2>3 DEF Loses, Hand, Encoding, Decoding
<1> QED BY <1>2, <1>3, <1>4 DEF Drain

(* The pull thread moves frames only when it decodes and queues.           *)
LEMMA PullLoses ==
  ASSUME Core, Ordered, Pull, ~End, ~PullQueues, \A k \in Media : ~PullDecodes(k)
  PROVE  Loses
<1> USE DEF At, Free, DoubleFree
<1>1. ASSUME NEW l \in Label, Goto("pull", l), l # "queue"
      PROVE  /\ At("pull", "queue")' => At("pull", "queue")
             /\ At("push", "encode")' => At("push", "encode")
  BY <1>1, GotoMoves DEF Core, Thread
<1>2. CASE PullReads
  <2>1. PICK l \in {"decode", "drain", "free"} : Goto("pull", l)
    BY <1>2 DEF PullReads
  <2>2. UNCHANGED <<queue, frame, frame_in, decoded, written>>
    BY <1>2 DEF PullReads
  <2> QED BY <1>1, <2>1, <2>2, QuietStepLoses DEF Label
<1>3. CASE PullFrees
  BY <1>1, <1>3, QuietStepLoses DEF PullFrees, Label
<1>4. CASE PullConnects
  BY <1>1, <1>4, QuietStepLoses DEF PullConnects, Label
<1>5. CASE PullPauses
  BY <1>1, <1>5, QuietStepLoses DEF PullPauses, Label
<1>6. CASE Drain("pull")
  BY <1>6, DrainLoses
<1> QED BY <1>2, <1>3, <1>4, <1>5, <1>6 DEF Pull

(* The push thread moves frames only when it takes and encodes.            *)
LEMMA PushLoses ==
  ASSUME Core, Ordered, Push, ~End, ~PushTakes, ~PushEncodes
  PROVE  Loses
<1> USE DEF At, Free, DoubleFree
<1>1. ASSUME NEW l \in Label, Goto("push", l), l # "encode"
      PROVE  /\ At("pull", "queue")' => At("pull", "queue")
             /\ At("push", "encode")' => At("push", "encode")
  BY <1>1, GotoMoves DEF Core, Thread
<1>2. CASE PushPrepares
  BY <1>1, <1>2, QuietStepLoses DEF PushPrepares, Label
<1>3. CASE PushTests
  <2>1. CASE UNCHANGED pc
    BY <1>3, <2>1, QuietStepLoses DEF PushTests
  <2>2. CASE Goto("push", "free") \/ Goto("push", "lock")
    BY <1>1, <1>3, <2>2, QuietStepLoses DEF PushTests, Label
  <2> QED BY <1>3, <2>1, <2>2 DEF PushTests
<1>4. CASE PushReleases \/ PushFrees
  <2>1. frame_in' = None /\ UNCHANGED <<queue, frame, decoded, written>>
    BY <1>4 DEF PushReleases, PushFrees
  <2>2. PICK l \in {"loop", "drain"} : Goto("push", l)
    BY <1>4 DEF PushReleases, PushFrees
  <2>3. pc'["push"] = l /\ pc'["pull"] = pc["pull"]
    BY <2>2, GotoMoves DEF Core, Thread, Label
  <2>4. \A s \in Stream : Waiting(s)' = Waiting(s) /\ Increasing(queue'[s])
    BY <2>1 DEF Ordered, Waiting
  <2> QED BY <2>1, <2>3, <2>4 DEF Loses, Hand, Encoding, Decoding
<1>5. CASE PushPauses
  <2>1. PICK l \in {"join", "done"} : Goto("push", l)
    BY <1>5 DEF PushPauses
  <2>2. UNCHANGED <<queue, frame, frame_in, decoded, written>>
    BY <1>5 DEF PushPauses
  <2> QED BY <1>1, <2>1, <2>2, QuietStepLoses DEF Label
<1>6. CASE PushJoins
  BY <1>6 DEF PushJoins
<1>7. CASE Drain("push")
  BY <1>7, DrainLoses
<1> QED BY <1>2, <1>3, <1>4, <1>5, <1>6, <1>7 DEF Push

(* The scheduler moves no frame.                                           *)
LEMMA CallerLoses ==
  ASSUME Core, Ordered, CallerStep, ~End
  PROVE  Loses
<1>1. CASE CallerStops
  BY <1>1, QuietStepLoses DEF CallerStops, At
<1>2. CASE CallerJoins
  BY <1>2, QuietStepLoses DEF CallerJoins, At
<1>3. CASE CallerDestroys
  <2>1. /\ queue' = [s \in Stream |-> <<>>]
        /\ UNCHANGED <<pc, frame, frame_in, decoded, written>>
    BY <1>3 DEF CallerDestroys, DoubleFree
  <2>2. \A s \in Stream : Waiting(s)' = {} /\ Increasing(queue'[s])
    BY <2>1, ToSetOfEmpty DEF Waiting, Increasing
  <2> QED BY <2>1, <2>2 DEF Loses, Hand, Encoding, Decoding, At
<1> QED BY <1>1, <1>2, <1>3 DEF CallerStep

---------------------------------------------------------------------------
(* The steps that move a frame on, and the channel they implement.         *)

Channelled == Ordered' /\ [Channel!Next]_(Channel!vars)

(* InTransit, by the names used here.                                      *)
OnTheWay ==
  Decoding \union Waiting("pull") \union Waiting("push") \union Hand
    \union (IF At("push", "encode") THEN {frame_in} ELSE {})

(* The two descriptions agree, before and after a step.                    *)
LEMMA InTransitIs == InTransit = OnTheWay /\ InTransit' = OnTheWay'
<1>1. InTransit = OnTheWay
  BY DEF InTransit, Places, Decoding, Waiting, Hand, OnTheWay
<1>2. InTransit' = OnTheWay'
  BY DEF InTransit, Places, Decoding, Waiting, Hand, OnTheWay
<1> QED BY <1>1, <1>2

(* What goes away is lost by the channel.                                  *)
LEMMA LossIsChannelled ==
  ASSUME Ordered, Loses
  PROVE  Channelled
<1>1. InTransit' \subseteq InTransit
  BY InTransitIs DEF Loses, Stream, OnTheWay
<1>2. Channel!Lose
  BY <1>1 DEF Channel!Lose, Loses
<1> QED BY <1>2, LossKeepsOrder DEF Channelled, Channel!Next

(* The end of the process is a stutter of the channel.                     *)
LEMMA EndIsChannelled ==
  ASSUME Ordered, End
  PROVE  Channelled
<1>1. UNCHANGED <<pc, queue, frame, frame_in, decoded, written>>
  BY DEF End
<1>2. Ordered'
  BY <1>1 DEF Ordered, Increasing, Below, Encoding, Waiting, Hand, Decoding, At
<1>3. UNCHANGED Channel!vars
  BY <1>1 DEF Channel!vars, InTransit, Places, At
<1> QED BY <1>2, <1>3 DEF Channelled

(* A new frame is above all others.                                        *)
LEMMA DecodingIsChannelled ==
  ASSUME Core, Ordered, NEW k \in Media, PullDecodes(k)
  PROVE  Channelled
<1>1. ASSUME NEW l \in Label, Goto("pull", l)
      PROVE  pc'["pull"] = l /\ pc'["push"] = pc["push"]
  BY <1>1, GotoMoves DEF Core, Thread
<1>2. CASE decoded' = decoded + 1 /\ Goto("pull", "queue")
  <2>1. UNCHANGED <<queue, frame, frame_in, written>>
    BY DEF PullDecodes
  <2>2. pc["pull"] = "decode" /\ pc'["pull"] = "queue" /\ pc'["push"] = pc["push"]
    BY <1>1, <1>2 DEF Label, PullDecodes, At
  <2>3. Decoding = {} /\ Decoding' = {decoded + 1}
    BY <1>2, <2>2 DEF Decoding, At
  <2>4. /\ \A s \in Stream : Waiting(s)' = Waiting(s) /\ Increasing(queue'[s])
        /\ Hand' = Hand /\ Encoding' = Encoding
    BY <2>1 DEF Waiting, Hand, Encoding, Ordered
  <2>5. decoded \in Nat /\ written \in Nat
    BY MaxFramesAssumption DEF Core, TypeOK
  <2>6. Ordered'
    BY <1>2, <2>1, <2>2, <2>3, <2>4, <2>5 DEF Ordered, Below, Stream, At
  <2>7. InTransit' = InTransit \union {decoded'}
    BY <1>2, <2>1, <2>2, <2>3, <2>4, InTransitIs DEF Stream, At, OnTheWay
  <2>8. Channel!Send
    BY <1>2, <2>1, <2>7 DEF Channel!Send
  <2> QED BY <2>6, <2>8 DEF Channelled, Channel!Next
<1>3. CASE decoded' = decoded /\ \E l \in {"loop", "free"} : Goto("pull", l)
  <2>1. UNCHANGED <<queue, frame, frame_in, decoded, written>>
    BY <1>3 DEF PullDecodes
  <2>2. Loses
    BY <1>1, <1>3, <2>1, QuietStepLoses DEF Label, At
  <2> QED BY <2>2, LossIsChannelled
<1> QED BY <1>2, <1>3 DEF PullDecodes

(* From the decoder to the pull queue, to the forwarder, to the push queue,*)
(* to the push thread: a frame changes its place, not its order.           *)
LEMMA QueueingIsChannelled ==
  ASSUME Core, Ordered, PullQueues
  PROVE  Channelled
<1>1. pc["pull"] = "queue" /\ pc'["pull"] = "decode" /\ pc'["push"] = pc["push"]
  BY GotoMoves DEF Core, Thread, PullQueues, At, Label
<1>2. /\ queue' = [queue EXCEPT !["pull"] = Append(@, decoded)]
      /\ UNCHANGED <<frame, frame_in, decoded, written>>
  BY DEF PullQueues
<1>3. Decoding = {decoded} /\ Decoding' = {} /\ Hand' = Hand /\ Encoding' = Encoding
  BY <1>1, <1>2 DEF Decoding, Hand, Encoding, At
<1>4. decoded \in Frame /\ Below(Waiting("pull"), {decoded})
  BY <1>1, <1>3, MaxFramesAssumption DEF Core, TypeOK, Holding, Frame, At, Ordered
<1>5. /\ \A s \in Stream : Increasing(queue'[s])
      /\ Waiting("push")' = Waiting("push")
      /\ Waiting("pull")' = Waiting("pull") \union {decoded}
  BY <1>2, <1>4, PushMoves DEF Stream
<1>6. Ordered'
  BY <1>1, <1>2, <1>3, <1>5 DEF Ordered, Below, At
<1>7. InTransit' = InTransit
  BY <1>1, <1>2, <1>3, <1>5, InTransitIs DEF At, OnTheWay
<1> QED BY <1>2, <1>6, <1>7 DEF Channelled, Channel!vars

(* getFrame(): the front becomes the frame in hand.                        *)
LEMMA TakingIsChannelled ==
  ASSUME Core, Ordered, ForwardTakes
  PROVE  Channelled
<1> DEFINE f == Head(queue["pull"])
<1>1. CASE queue["pull"] = <<>>
  <2>1. Goto("forward", "loop") /\ UNCHANGED <<queue, frame, frame_in, decoded, written>>
    BY <1>1 DEF ForwardTakes
  <2>2. UNCHANGED <<pc["pull"], pc["push"]>>
    BY <2>1, GotoMoves DEF Core, Thread, Label
  <2> QED BY <2>1, <2>2, QuietStepLoses, LossIsChannelled DEF At
<1>2. CASE queue["pull"] # <<>>
  <2>1. /\ queue' = [queue EXCEPT !["pull"] = Tail(@)]
        /\ frame' = f
        /\ Goto("forward", "hand")
        /\ UNCHANGED <<frame_in, decoded, written>>
    BY <1>2 DEF ForwardTakes
  <2>2. pc'["pull"] = pc["pull"] /\ pc'["push"] = pc["push"]
    BY <2>1, GotoMoves DEF Core, Thread, Label
  <2>3. /\ \A s \in Stream : Increasing(queue'[s])
        /\ Waiting("push")' = Waiting("push")
        /\ Waiting("pull") = Waiting("pull")' \union {f}
        /\ Below({f}, Waiting("pull")')
    BY <1>2, <2>1, PopMoves DEF Stream
  <2>4. frame = None
    BY DEF ForwardTakes, Core, Holding, At
  <2>5. f \in Frame /\ f # None
    BY <1>2, QueuesMove, MaxFramesAssumption DEF Stream, Frame, None
  <2>6. /\ Hand = {} /\ Hand' = {f}
        /\ Decoding' = Decoding /\ Encoding' = Encoding
    BY <2>1, <2>2, <2>4, <2>5 DEF Hand, Decoding, Encoding, At
  <2> HIDE DEF f
  <2>7. Ordered'
    BY <2>1, <2>2, <2>3, <2>6 DEF Ordered, Below, At
  <2>8. InTransit' = InTransit
    BY <2>1, <2>2, <2>3, <2>6, InTransitIs DEF At, OnTheWay
  <2> QED BY <2>1, <2>7, <2>8 DEF Channelled, Channel!vars
<1> QED BY <1>1, <1>2

(* pushFrame(): the frame in hand becomes the last one waiting.            *)
LEMMA AppendingIsChannelled ==
  ASSUME Core, Ordered, ForwardAppends
  PROVE  Channelled
<1>1. /\ queue' = [queue EXCEPT !["push"] = Append(@, frame)]
      /\ frame' = None
      /\ Goto("forward", "loop")
      /\ UNCHANGED <<frame_in, decoded, written>>
  BY DEF ForwardAppends
<1>2. pc'["pull"] = pc["pull"] /\ pc'["push"] = pc["push"]
  BY <1>1, GotoMoves DEF Core, Thread, Label
<1>3. frame # None /\ frame \in Frame
  BY DEF ForwardAppends, Core, TypeOK, Holding, At
<1>4. /\ Hand = {frame} /\ Hand' = {}
      /\ Decoding' = Decoding /\ Encoding' = Encoding
  BY <1>1, <1>2, <1>3 DEF Hand, Decoding, Encoding, At
<1>5. /\ \A s \in Stream : Increasing(queue'[s])
      /\ Waiting("pull")' = Waiting("pull")
      /\ Waiting("push")' = Waiting("push") \union {frame}
  <2>1. Below(Waiting("push"), {frame})
    BY <1>4 DEF Ordered, Below
  <2> QED BY <1>1, <1>3, <2>1, PushMoves DEF Stream
<1>6. Ordered'
  BY <1>1, <1>2, <1>4, <1>5 DEF Ordered, Below, At
<1>7. InTransit' = InTransit
  BY <1>1, <1>2, <1>4, <1>5, InTransitIs DEF At, OnTheWay
<1> QED BY <1>1, <1>6, <1>7 DEF Channelled, Channel!vars

(* PushStream::start takes the front.                                      *)
LEMMA PushTakingIsChannelled ==
  ASSUME Core, Ordered, PushTakes, ~End
  PROVE  Channelled
<1> DEFINE f == Head(queue["push"])
<1>1. /\ queue["push"] # <<>>
      /\ queue' = [queue EXCEPT !["push"] = Tail(@)]
      /\ frame_in' = f
      /\ Goto("push", "encode")
      /\ UNCHANGED <<frame, decoded, written>>
  BY DEF PushTakes
<1>2. pc["push"] = "lock" /\ pc'["pull"] = pc["pull"] /\ pc'["push"] = "encode"
  BY <1>1, GotoMoves DEF Core, Thread, Label, PushTakes, At
<1>3. /\ \A s \in Stream : Increasing(queue'[s])
      /\ Waiting("pull")' = Waiting("pull")
      /\ Waiting("push") = Waiting("push")' \union {f}
      /\ Below({f}, Waiting("push")')
  BY <1>1, PopMoves DEF Stream
<1>4. f \in Frame /\ f # None
  BY <1>1, QueuesMove, MaxFramesAssumption DEF Stream, Frame, None
<1>5. Encoding' = {f} /\ Hand' = Hand /\ Decoding' = Decoding
  BY <1>1, <1>2, <1>4 DEF Hand, Decoding, Encoding, At
<1> HIDE DEF f
<1>6. Ordered'
  BY <1>1, <1>2, <1>3, <1>5 DEF Ordered, Below, At
<1>7. InTransit' = InTransit
  BY <1>1, <1>2, <1>3, <1>5, InTransitIs DEF At, OnTheWay
<1> QED BY <1>1, <1>6, <1>7 DEF Channelled, Channel!vars

(* The frame given to the encoder is the first one on its way.             *)
LEMMA EncodingIsChannelled ==
  ASSUME Core, Ordered, PushEncodes, ~End
  PROVE  Channelled
<1>1. ASSUME NEW l \in Label, Goto("push", l)
      PROVE  pc'["push"] = l /\ pc'["pull"] = pc["pull"]
  BY <1>1, GotoMoves DEF Core, Thread
<1>2. UNCHANGED <<queue, frame, frame_in, decoded>>
  BY DEF PushEncodes
<1>3. At("push", "encode") /\ frame_in \in Frame /\ frame_in # None
  BY DEF PushEncodes, Core, TypeOK, Holding, At
<1>4. CASE UNCHANGED written /\ Goto("push", "free")
  BY <1>1, <1>2, <1>4, QuietStepLoses, LossIsChannelled DEF Label, At
<1>5. CASE written' = frame_in /\ Goto("push", "release")
  <2>1. pc'["push"] = "release" /\ pc'["pull"] = pc["pull"]
    BY <1>1, <1>5 DEF Label
  <2>2. /\ \A s \in Stream : Waiting(s)' = Waiting(s) /\ Increasing(queue'[s])
        /\ Hand' = Hand /\ Decoding' = Decoding /\ Encoding' = Encoding
        /\ Encoding = {frame_in}
    BY <1>2, <1>3, <2>1 DEF Waiting, Hand, Decoding, Encoding, Ordered, At
  <2>3. frame_in <= decoded
    BY <2>2 DEF Ordered
  <2>4. Ordered'
    BY <1>2, <1>5, <2>1, <2>2, <2>3 DEF Ordered, Below, Stream, At
  <2>5. InTransit = InTransit' \union {frame_in} /\ frame_in \notin InTransit'
    BY <1>2, <1>3, <2>1, <2>2, InTransitIs, MaxFramesAssumption
    DEF Ordered, Below, Stream, At, Frame, OnTheWay
  <2>6. written < frame_in /\ \A g \in InTransit : frame_in <= g
    BY <1>3, <2>2, InTransitIs, MaxFramesAssumption
    DEF Ordered, Below, Stream, At, Frame, OnTheWay
  <2>7. Channel!Deliver
    BY <1>2, <1>5, <2>5, <2>6 DEF Channel!Deliver
  <2> QED BY <2>4, <2>7 DEF Channelled, Channel!Next
<1> QED BY <1>4, <1>5 DEF PushEncodes

(* Every step of a thread is a step of the channel or a stutter.           *)
LEMMA StepIsChannelled ==
  ASSUME Core, Ordered, Pull \/ Forward \/ Push \/ CallerStep
  PROVE  Channelled
<1>1. CASE End
  BY <1>1, EndIsChannelled
<1>2. CASE ~End /\ Pull
  BY <1>2, PullLoses, LossIsChannelled, DecodingIsChannelled, QueueingIsChannelled
<1>3. CASE Forward
  <2>1. ASSUME NEW l \in Label, Goto("forward", l)
        PROVE  pc'["pull"] = pc["pull"] /\ pc'["push"] = pc["push"]
    BY <2>1, GotoMoves DEF Core, Thread
  <2>2. CASE ForwardLocks
    BY <2>1, <2>2, QuietStepLoses, LossIsChannelled DEF ForwardLocks, Label, At
  <2>3. CASE ForwardHands
    BY <2>1, <2>3, QuietStepLoses, LossIsChannelled DEF ForwardHands, Label, At
  <2> QED
    BY <1>3, <2>2, <2>3, TakingIsChannelled, AppendingIsChannelled DEF Forward
<1>4. CASE ~End /\ Push
  BY <1>4, PushLoses, LossIsChannelled, PushTakingIsChannelled, EncodingIsChannelled
<1>5. CASE ~End /\ CallerStep
  BY <1>5, CallerLoses, LossIsChannelled
<1> QED BY <1>1, <1>2, <1>3, <1>4, <1>5

(* An empty pipeline is ordered, and an empty channel.                     *)
LEMMA InitOrdered == Init => Ordered /\ Channel!Init
<1> SUFFICES ASSUME Init PROVE Ordered /\ Channel!Init
  OBVIOUS
<1>1. /\ \A s \in Stream : Waiting(s) = {} /\ Increasing(queue[s])
      /\ Hand = {} /\ Encoding = {} /\ Decoding = {} /\ pc["push"] = "prepare"
      /\ decoded = 0 /\ written = 0
  BY ToSetOfEmpty DEF Init, Waiting, Increasing, Hand, Encoding, Decoding, At, None
<1>2. Ordered
  BY <1>1 DEF Ordered, Below, Stream, At
<1>3. Channel!Init
  BY <1>1, InTransitIs DEF Channel!Init, OnTheWay, Stream, At
<1> QED BY <1>2, <1>3

(* The same for the next-state relation.                                   *)
LEMMA NextIsChannelled == Core /\ Ordered /\ [Next]_vars => Channelled
<1>1. ASSUME Core, Ordered, UNCHANGED vars
      PROVE  Channelled
  BY <1>1, QuietStepLoses, LossIsChannelled DEF vars, At
<1> QED BY <1>1, StepIsChannelled DEF Next, Ended

(* The pipeline is always ordered.                                         *)
LEMMA AlwaysOrdered == Spec => []Ordered
<1>1. Core /\ Ordered /\ [Next]_vars => Ordered'
  BY NextIsChannelled DEF Channelled
<1> QED BY <1>1, InitOrdered, AlwaysCore, PTL DEF Spec

(* The frames reach the encoder in the order in which they were decoded,   *)
(* each at most once, although a reconnect empties the first queue without *)
(* its lock and the pull thread frees a frame it has given away.           *)
THEOREM ImplementsChannel == Spec => ChannelSpec
<1>1. Core /\ Ordered /\ [Next]_vars => [Channel!Next]_(Channel!vars)
  BY NextIsChannelled DEF Channelled
<1>2. Init => Channel!Init
  BY InitOrdered
<1> QED BY <1>1, <1>2, AlwaysCore, AlwaysOrdered, PTL DEF Spec, ChannelSpec, Channel!Spec

---------------------------------------------------------------------------
(* No frame is lost or held twice until the pull thread ends or reconnects.*)

(* A step that moves and frees no frame.                                   *)
LEMMA QuietStepKeeps ==
  ASSUME Kept, ~disconnected,
         UNCHANGED <<queue, frame, frame_in, decoded, freed, disconnected>>,
         Decoding' = Decoding,
         pc'["pull"] \in {"loop", "decode", "queue"},
         At("push", "pop")' <=> At("push", "pop")
  PROVE  Kept'
<1>1. InPlace' = InPlace
  BY DEF InPlace, Waiting, Hand, Encoding
<1> QED BY <1>1 DEF Kept

(* Decoding adds a frame, queueing moves it.                               *)
LEMMA PullKeeps ==
  ASSUME Core, Ordered, Kept, ~disconnected, Pull, ~End, ~disconnected'
  PROVE  Kept'
<1> USE DEF At
<1>1. ASSUME NEW l \in Label, Goto("pull", l)
      PROVE  pc'["pull"] = l /\ pc'["push"] = pc["push"]
  BY <1>1, GotoMoves DEF Core, Thread
<1>2. CASE PullReads
  <2>1. /\ pc["pull"] = "loop" /\ Goto("pull", "decode")
        /\ UNCHANGED <<queue, frame, frame_in, decoded, freed, disconnected>>
    BY <1>2 DEF PullReads
  <2> QED BY <1>1, <2>1, QuietStepKeeps DEF Label, Decoding
<1>3. ASSUME NEW k \in Media, PullDecodes(k)
      PROVE  Kept'
  <2>1. UNCHANGED <<queue, frame, frame_in, freed>> /\ pc["pull"] = "decode"
    BY <1>3 DEF PullDecodes
  <2>2. Decoding = {}
    BY <2>1 DEF Decoding
  <2>3. CASE decoded' = decoded + 1 /\ Goto("pull", "queue")
    <3>1. pc'["pull"] = "queue" /\ pc'["push"] = pc["push"]
      BY <1>1, <2>3 DEF Label
    <3>2. Decoding' = {decoded + 1}
      BY <2>3, <3>1 DEF Decoding
    <3>3. InPlace' = InPlace \union {decoded + 1}
      BY <2>1, <2>2, <3>2 DEF InPlace, Waiting, Hand, Encoding
    <3>4. 1 .. decoded' = 1 .. decoded \union {decoded + 1} /\ decoded + 1 \notin 1 .. decoded
      BY <2>3, MaxFramesAssumption DEF Core, TypeOK
    <3>5. decoded + 1 \notin freed
      BY <3>4 DEF Kept
    <3> QED BY <2>1, <2>2, <3>1, <3>3, <3>4, <3>5 DEF Kept
  <2>4. CASE Goto("pull", "loop") /\ UNCHANGED <<decoded, disconnected>>
    <3>1. pc'["pull"] = "loop" /\ pc'["push"] = pc["push"]
      BY <1>1, <2>4 DEF Label
    <3>2. Decoding' = {}
      BY <3>1 DEF Decoding
    <3> QED BY <2>1, <2>2, <2>4, <3>1, <3>2, QuietStepKeeps
  <2> QED BY <1>3, <2>3, <2>4 DEF PullDecodes
<1>4. CASE PullQueues
  <2>1. /\ pc["pull"] = "queue"
        /\ queue' = [queue EXCEPT !["pull"] = Append(@, decoded)]
        /\ Goto("pull", "decode")
        /\ UNCHANGED <<frame, frame_in, decoded, freed>>
    BY <1>4 DEF PullQueues
  <2>2. pc'["pull"] = "decode" /\ pc'["push"] = pc["push"]
    BY <1>1, <2>1 DEF Label
  <2>3. decoded \in Frame /\ Below(Waiting("pull"), {decoded})
    BY <2>1, MaxFramesAssumption
    DEF Core, TypeOK, Holding, Frame, Ordered, Decoding
  <2>4. /\ Waiting("push")' = Waiting("push")
        /\ Waiting("pull")' = Waiting("pull") \union {decoded}
    BY <2>1, <2>3, PushMoves DEF Stream
  <2>5. Decoding = {decoded} /\ Decoding' = {}
    BY <2>1, <2>2 DEF Decoding
  <2>6. InPlace' = InPlace
    BY <2>1, <2>4, <2>5 DEF InPlace, Hand, Encoding
  <2>7. queue'["push"] = queue["push"]
    BY <2>1 DEF Core, TypeOK, Stream
  <2> QED BY <2>1, <2>2, <2>6, <2>7 DEF Kept
<1>5. CASE PullFrees \/ PullConnects \/ PullPauses \/ Drain("pull")
  BY <1>5 DEF Kept, PullFrees, PullConnects, PullPauses, Drain, DrainTests, DrainFrees, DrainPops
<1> QED BY <1>2, <1>3, <1>4, <1>5 DEF Pull

(* The forwarding thread moves frames and frees none.                      *)
LEMMA ForwardKeeps ==
  ASSUME Core, Ordered, Kept, ~disconnected, Forward
  PROVE  Kept'
<1> USE DEF At
<1>1. ASSUME NEW l \in Label, Goto("forward", l)
      PROVE  pc'["pull"] = pc["pull"] /\ pc'["push"] = pc["push"]
  BY <1>1, GotoMoves DEF Core, Thread
<1>0. pc["pull"] \in {"loop", "decode", "queue"}
  BY DEF Kept
<1>2. CASE ForwardLocks \/ ForwardHands
  <2>1. UNCHANGED <<queue, frame, frame_in, decoded, freed, disconnected>>
    BY <1>2 DEF ForwardLocks, ForwardHands
  <2>2. pc'["pull"] = pc["pull"] /\ pc'["push"] = pc["push"]
    BY <1>1, <1>2 DEF ForwardLocks, ForwardHands, Label
  <2>3. Decoding' = Decoding
    BY <2>1, <2>2 DEF Decoding
  <2> QED BY <1>0, <2>1, <2>2, <2>3, QuietStepKeeps
<1>3. CASE ForwardTakes
  <2>1. /\ UNCHANGED <<frame_in, decoded, freed, disconnected>>
        /\ frame = None
    BY <1>3 DEF ForwardTakes, Core, Holding
  <2>2. pc'["pull"] = pc["pull"] /\ pc'["push"] = pc["push"]
    BY <1>1, <1>3 DEF ForwardTakes, Label
  <2>3. Decoding' = Decoding
    BY <2>1, <2>2 DEF Decoding
  <2>4. CASE UNCHANGED <<queue, frame>>
    BY <1>0, <2>1, <2>2, <2>3, <2>4, QuietStepKeeps
  <2>5. CASE /\ queue["pull"] # <<>>
             /\ queue' = [queue EXCEPT !["pull"] = Tail(@)]
             /\ frame' = Head(queue["pull"])
    <3>1. /\ Waiting("push")' = Waiting("push")
          /\ Waiting("pull") = Waiting("pull")' \union {Head(queue["pull"])}
      BY <2>5, PopMoves DEF Stream
    <3>2. Head(queue["pull"]) # None
      BY <2>5, QueuesMove, MaxFramesAssumption DEF Stream, Frame, None
    <3>3. Hand = {} /\ Hand' = {Head(queue["pull"])}
      BY <2>1, <2>5, <3>2 DEF Hand
    <3>4. InPlace' = InPlace
      BY <2>1, <2>3, <3>1, <3>3 DEF InPlace, Encoding
    <3>5. queue'["push"] = queue["push"]
      BY <2>5 DEF Core, TypeOK, Stream
    <3> QED BY <1>0, <2>1, <2>2, <3>4, <3>5 DEF Kept
  <2> QED BY <1>3, <2>4, <2>5 DEF ForwardTakes
<1>4. CASE ForwardAppends
  <2>1. /\ queue' = [queue EXCEPT !["push"] = Append(@, frame)]
        /\ frame' = None
        /\ UNCHANGED <<frame_in, decoded, freed, disconnected>>
        /\ frame # None /\ frame \in Frame
    BY <1>4 DEF ForwardAppends, Core, TypeOK, Holding
  <2>2. pc'["pull"] = pc["pull"] /\ pc'["push"] = pc["push"]
    BY <1>1, <1>4 DEF ForwardAppends, Label
  <2>3. Decoding' = Decoding /\ Hand = {frame} /\ Hand' = {} /\ Encoding' = Encoding
    BY <2>1, <2>2 DEF Decoding, Hand, Encoding
  <2>4. /\ Waiting("pull")' = Waiting("pull")
        /\ Waiting("push")' = Waiting("push") \union {frame}
    <3>1. Below(Waiting("push"), {frame})
      BY <2>3 DEF Ordered, Below
    <3> QED BY <2>1, <3>1, PushMoves DEF Stream
  <2>5. InPlace' = InPlace
    BY <2>3, <2>4 DEF InPlace
  <2>6. queue["push"] # <<>> =>
          queue'["push"] # <<>> /\ Head(queue'["push"]) = Head(queue["push"])
    <3>1. queue["push"] \in Seq(Frame) /\ queue'["push"] = Append(queue["push"], frame)
      BY <2>1 DEF Core, TypeOK, Stream
    <3> QED BY <2>1, <3>1, AppendProperties
  <2> QED BY <1>0, <2>1, <2>2, <2>5, <2>6 DEF Kept
<1> QED BY <1>2, <1>3, <1>4 DEF Forward

(* The push thread frees what it holds, or the front while it drains.      *)
LEMMA PushKeeps ==
  ASSUME Core, Ordered, Kept, ~disconnected, Push, ~End
  PROVE  Kept'
<1> USE DEF At, Free, DoubleFree
<1>0. pc["pull"] \in {"loop", "decode", "queue"}
  BY DEF Kept
<1>1. ASSUME NEW l \in Label, Goto("push", l)
      PROVE  pc'["push"] = l /\ pc'["pull"] = pc["pull"] /\ (decoded' = decoded => Decoding' = Decoding)
  BY <1>1, GotoMoves DEF Core, Thread, Decoding
<1>2. CASE PushPrepares \/ PushTests \/ PushEncodes \/ PushPauses \/ DrainTests("push")
  <2>1. /\ UNCHANGED <<queue, frame, frame_in, decoded, freed, disconnected>>
        /\ pc["push"] # "pop"
    BY <1>2 DEF PushPrepares, PushTests, PushEncodes, PushPauses, DrainTests
  <2>2. CASE UNCHANGED pc
    BY <1>0, <2>1, <2>2, QuietStepKeeps DEF Decoding
  <2>3. CASE \E l \in Label \ {"pop"} : Goto("push", l)
    BY <1>0, <1>1, <2>1, <2>3, QuietStepKeeps
  <2>4. UNCHANGED pc \/ \E l \in Label \ {"pop"} : Goto("push", l)
    BY <1>2 DEF PushPrepares, PushTests, PushEncodes, PushPauses, DrainTests, Label
  <2> QED BY <2>2, <2>3, <2>4
<1>3. CASE PushTakes
  <2>1. /\ queue["push"] # <<>>
        /\ queue' = [queue EXCEPT !["push"] = Tail(@)]
        /\ frame_in' = Head(queue["push"])
        /\ UNCHANGED <<frame, decoded, freed, disconnected>>
        /\ frame_in = None /\ pc["push"] = "lock"
    BY <1>3 DEF PushTakes, Core, Holding
  <2>2. /\ pc'["push"] = "encode" /\ pc'["pull"] = pc["pull"]
        /\ Decoding' = Decoding
    BY <1>1, <1>3 DEF PushTakes, Label
  <2>3. /\ Waiting("pull")' = Waiting("pull")
        /\ Waiting("push") = Waiting("push")' \union {Head(queue["push"])}
    BY <2>1, PopMoves DEF Stream
  <2>4. Head(queue["push"]) # None
    BY <2>1, QueuesMove, MaxFramesAssumption DEF Stream, Frame, None
  <2>5. Encoding = {} /\ Encoding' = {Head(queue["push"])}
    BY <2>1, <2>4 DEF Encoding
  <2>6. InPlace' = InPlace
    BY <2>1, <2>2, <2>3, <2>5 DEF InPlace, Hand
  <2> QED BY <1>0, <2>1, <2>2, <2>6 DEF Kept
<1>4. CASE PushReleases \/ PushFrees
  <2>1. /\ frame_in' = None
        /\ UNCHANGED <<queue, frame, decoded, disconnected>>
        /\ freed' = freed \union Encoding
    BY <1>4 DEF PushReleases, PushFrees, Encoding, Core, Holding
  <2>2. /\ pc["push"] # "pop" /\ pc'["push"] # "pop"
        /\ pc'["pull"] = pc["pull"] /\ Decoding' = Decoding
    BY <1>1, <1>4, <2>1 DEF PushReleases, PushFrees, Label
  <2>3. Encoding' = {} /\ Waiting("pull")' = Waiting("pull") /\ Hand' = Hand
        /\ Waiting("push")' = Waiting("push")
    BY <2>1 DEF Encoding, Waiting, Hand
  <2>4. InPlace = InPlace' \union Encoding
    BY <2>2, <2>3 DEF InPlace
  <2>5. InPlace' \intersect Encoding = {}
    <3>1. \A e \in Encoding, f \in InPlace' : e < f /\ e \in Nat
      BY <2>2, <2>3 DEF InPlace, Ordered, Below
    <3> QED BY <3>1
  <2> QED BY <1>0, <2>1, <2>2, <2>4, <2>5 DEF Kept
<1>5. CASE PushJoins
  BY <1>5 DEF PushJoins
<1>6. CASE DrainFrees("push")
  <2>1. /\ queue["push"] # <<>>
        /\ freed' = freed \union {Head(queue["push"])}
        /\ UNCHANGED <<queue, frame, frame_in, decoded, disconnected>>
        /\ pc["push"] = "drop"
    BY <1>6 DEF DrainFrees
  <2>2. pc'["push"] = "pop" /\ pc'["pull"] = pc["pull"] /\ Decoding' = Decoding
    BY <1>1, <1>6, <2>1 DEF DrainFrees, Label
  <2>3. InPlace' = InPlace
    BY <2>1, <2>2 DEF InPlace, Waiting, Hand, Encoding
  <2>4. Head(queue["push"]) \in InPlace
    <3>1. queue["push"] \in Seq(Frame)
      BY DEF Core, TypeOK, Stream
    <3> QED BY <2>1, <3>1, ToSetOfTail DEF InPlace, Waiting
  <2> QED BY <1>0, <2>1, <2>2, <2>3, <2>4 DEF Kept
<1>7. CASE DrainPops("push")
  <2>1. /\ queue["push"] # <<>>
        /\ queue' = [queue EXCEPT !["push"] = Tail(@)]
        /\ UNCHANGED <<frame, frame_in, decoded, freed, disconnected>>
        /\ pc["push"] = "pop"
    BY <1>7 DEF DrainPops
  <2>2. pc'["push"] = "drain" /\ pc'["pull"] = pc["pull"] /\ Decoding' = Decoding
    BY <1>1, <1>7, <2>1 DEF DrainPops, Label
  <2> DEFINE h == Head(queue["push"])
  <2>3. /\ Waiting("pull")' = Waiting("pull")
        /\ Waiting("push") = Waiting("push")' \union {h}
        /\ Below({h}, Waiting("push")')
    BY <2>1, PopMoves DEF Stream
  <2>4. Hand' = Hand /\ Encoding' = Encoding /\ Encoding = {}
    BY <2>1 DEF Hand, Encoding, Core, Holding
  <2>5. InPlace \intersect freed = {h}
    BY <2>1 DEF Kept
  <2> HIDE DEF h
  <2>6. InPlace = InPlace' \union {h}
    BY <2>2, <2>3, <2>4 DEF InPlace
  <2>7. h \notin InPlace'
    <3>1. \A f \in InPlace' : h < f
      BY <2>2, <2>3, <2>4 DEF InPlace, Ordered, Below
    <3>2. h \in Nat
      BY <2>3 DEF Ordered
    <3> QED BY <3>1, <3>2
  <2> QED BY <1>0, <2>1, <2>2, <2>5, <2>6, <2>7 DEF Kept
<1> QED BY <1>2, <1>3, <1>4, <1>5, <1>6, <1>7 DEF Push, Drain

(* The destructors run only after the pull thread has ended.               *)
LEMMA CallerKeeps ==
  ASSUME Core, Kept, ~disconnected, CallerStep
  PROVE  Kept'
<1>1. pc["pull"] \in {"loop", "decode", "queue"}
  BY DEF Kept
<1>2. CASE CallerStops \/ CallerJoins
  <2>1. UNCHANGED <<pc, queue, frame, frame_in, decoded, freed, disconnected>>
    BY <1>2 DEF CallerStops, CallerJoins
  <2> QED BY <1>1, <2>1, QuietStepKeeps DEF Decoding, At
<1>3. ~CallerDestroys
  BY <1>1 DEF CallerDestroys, Core, Locks, Thread, At
<1> QED BY <1>2, <1>3 DEF CallerStep

(* Nothing is decoded, nothing held.                                       *)
LEMMA InitKept == Init => Kept
<1> SUFFICES ASSUME Init PROVE Kept
  OBVIOUS
<1>1. /\ \A s \in Stream : Waiting(s) = {}
      /\ Hand = {} /\ Encoding = {} /\ Decoding = {} /\ pc["push"] = "prepare"
      /\ pc["pull"] = "loop" /\ decoded = 0 /\ freed = {}
  BY ToSetOfEmpty DEF Init, Waiting, Hand, Encoding, Decoding, At, None
<1>2. InPlace = {} /\ 1 .. decoded = {}
  BY <1>1 DEF InPlace, Stream
<1> QED BY <1>1, <1>2 DEF Kept, At

(* Every step keeps it; once disconnected, always disconnected.            *)
LEMMA NextKeeps == Core /\ Ordered /\ Kept /\ [Next]_vars => Kept'
<1> SUFFICES ASSUME Core, Ordered, Kept, [Next]_vars, ~disconnected' PROVE Kept'
  BY DEF Kept
<1>1. CASE UNCHANGED <<pc, queue, frame, frame_in, decoded, freed, disconnected>>
  BY <1>1 DEF Kept, InPlace, Decoding, Waiting, Hand, Encoding, At
<1>2. CASE End
  BY <1>1, <1>2 DEF End
<1>3. ~disconnected
  BY DEF Next, Ended, vars, End, Pull, Forward, Push, CallerStep, PullReads, PullDecodes, PullQueues,
     PullFrees, PullConnects, PullPauses, Drain, DrainTests, DrainFrees, DrainPops, DoubleFree,
     ForwardLocks, ForwardTakes, ForwardHands, ForwardAppends, PushPrepares, PushTests,
     PushTakes, PushEncodes, PushReleases, PushFrees, PushPauses, PushJoins, CallerStops,
     CallerJoins, CallerDestroys
<1> QED
  BY <1>1, <1>2, <1>3, PullKeeps, ForwardKeeps, PushKeeps, CallerKeeps DEF Next, Ended, vars

(* What Kept and the order say is Custody.                                 *)
LEMMA KeptIsCustody == Core /\ Ordered /\ Kept => Custody
<1> SUFFICES ASSUME Core, Ordered, Kept, ~disconnected PROVE Custody
  BY DEF Custody
<1>1. /\ Places.pullQueue = Waiting("pull") /\ Places.pushQueue = Waiting("push")
      /\ Places.forwarder = Hand /\ Places.encoder = Encoding
      /\ Places.decoder = Decoding
      /\ DOMAIN Places = {"pullQueue", "pushQueue", "forwarder", "encoder", "decoder"}
  BY DEF Places, Waiting, Hand, Encoding, Decoding
<1>2. Held = InPlace
  BY <1>1 DEF Held, InPlace
<1>3. \A p, q \in DOMAIN Places : p # q => Places[p] \intersect Places[q] = {}
  <2>1. InPlace \subseteq Nat
    BY DEF InPlace, Ordered
  <2>2. /\ Encoding \intersect Waiting("push") = {} /\ Encoding \intersect Hand = {}
        /\ Encoding \intersect Waiting("pull") = {} /\ Encoding \intersect Decoding = {}
    BY <2>1 DEF Ordered, Below, InPlace
  <2>3. /\ Waiting("push") \intersect Hand = {} /\ Waiting("push") \intersect Waiting("pull") = {}
        /\ Waiting("push") \intersect Decoding = {}
    BY <2>1 DEF Ordered, Below, InPlace
  <2>4. /\ Hand \intersect Waiting("pull") = {} /\ Hand \intersect Decoding = {}
        /\ Waiting("pull") \intersect Decoding = {}
    BY <2>1 DEF Ordered, Below, InPlace
  <2> QED BY <1>1, <2>2, <2>3, <2>4
<1>4. \A s \in Stream : IsInjective(queue[s])
  <2> SUFFICES ASSUME NEW s \in Stream, NEW i \in DOMAIN queue[s], NEW j \in DOMAIN queue[s],
                      queue[s][i] = queue[s][j]
               PROVE  i = j
    BY DEF IsInjective
  <2>1. queue[s] \in Seq(Frame)
    BY DEF Core, TypeOK
  <2>2. DOMAIN queue[s] = 1 .. Len(queue[s]) /\ Len(queue[s]) \in Nat
    BY <2>1
  <2>3. queue[s][i] \in Nat /\ queue[s][j] \in Nat /\ i \in Nat /\ j \in Nat
    BY <2>1, <2>2, ElementOfSeq, MaxFramesAssumption DEF Frame
  <2> QED BY <2>3 DEF Ordered, Increasing
<1> QED BY <1>2, <1>3, <1>4 DEF Custody, Kept

(* As long as the pull thread has neither ended nor reconnected, every     *)
(* decoded frame is in exactly one place or freed, and freed once.         *)
THEOREM FramesInCustody == Spec => []Custody
  BY InitKept, NextKeeps, AlwaysCore, AlwaysOrdered, KeptIsCustody, PTL DEF Spec

---------------------------------------------------------------------------
(* Liveness.  Why a frame in the first queue reaches the encoder.          *)

(* The labels of each loop, and what is known there.                       *)
Course ==
  /\ pc["forward"] \in {"loop", "take", "hand", "append", "done"}
  /\ pc["push"] \in {"prepare", "loop", "lock", "encode", "release", "free", "pause", "join",
                     "done"} \union Draining
  /\ At("forward", "done") \/ At("push", "join") => ~m_state
  /\ At("push", "release") => written = frame_in

LEMMA CourseKept == ASSUME Core, Course, [Next]_vars PROVE Course'
<1> USE GotoMoves DEF Course, Core, At, Thread, Label, Draining
<1>1. CASE Pull
  <2>1. Drain("pull") => Course'
    BY DEF Drain, DrainTests, DrainFrees, DrainPops, DoubleFree, End
  <2> QED BY <1>1, <2>1 DEF Pull, PullReads, PullDecodes, PullQueues, PullFrees, PullConnects,
      PullPauses, DoubleFree, End
<1>2. CASE Forward
  BY <1>2 DEF Forward, ForwardLocks, ForwardTakes, ForwardHands, ForwardAppends
<1>3. CASE Push
  <2>1. Drain("push") => Course'
    BY DEF Drain, DrainTests, DrainFrees, DrainPops, DoubleFree, End
  <2> QED BY <1>3, <2>1 DEF Push, PushPrepares, PushTests, PushTakes, PushEncodes,
      PushReleases, PushFrees, PushPauses, PushJoins, DoubleFree, End
<1>4. CASE CallerStep
  BY <1>4 DEF CallerStep, CallerStops, CallerJoins, CallerDestroys, DoubleFree, End
<1>5. CASE UNCHANGED vars
  BY <1>5 DEF vars
<1> QED BY <1>1, <1>2, <1>3, <1>4, <1>5 DEF Next, Ended

FInv == Core /\ Ordered /\ Kept /\ Course

LEMMA AlwaysFInv == Spec => []FInv
<1>1. Init => Course
  BY DEF Init, Course, At
<1> QED BY <1>1, CourseKept, InitKept, NextKeeps, AlwaysCore, AlwaysOrdered, PTL DEF Spec, FInv

(* The guards of the two threads, disjunct by disjunct.                    *)
ForwardReady == pc["forward"] \in {"loop", "take", "hand", "append"}

PushReady ==
  \/ pc["push"] \in {"prepare", "encode", "release", "free", "pause"} \union Draining
  \/ At("push", "loop") /\ (~m_state \/ queue["push"] # <<>> \/ mutex["push"] = "forward")
  \/ At("push", "lock") /\ mutex["push"] = "none"
  \/ At("push", "join") /\ At("pull", "done") /\ At("forward", "done")

(* What tlapm has no rule for: an action whose guard holds is ENABLED; all *)
(* these actions assign every variable and change one.                     *)
GuardsEnable ==
  process = "up" =>
    /\ ForwardReady => ENABLED <<ForwardAdvances>>_vars
    /\ PushReady => ENABLED <<PushAdvances>>_vars

(* How far the frames still have to go, those not yet decoded included.    *)
Weight(m, d, a, q, h, p) == 5 * (m - d) + a + 3 * q + h + p
AtQueue == IF At("pull", "queue") THEN 4 ELSE 0
InHand == IF frame # None THEN 2 ELSE 0
Left == Weight(MaxFrames, decoded, AtQueue, Len(queue["pull"]), InHand, Len(queue["push"]))

Keeps == Left' <= Left
Falls == Left' < Left

(* It is a natural number, so it does not fall again and again without     *)
(* growing; the temporal prover does not know of numbers.                  *)
NoEndlessFall == ~(<>[][Keeps]_vars /\ []<><<Falls>>_vars)

(* What each of the moves of a frame does to the sum.                      *)
LEMMA WeightFalls ==
  ASSUME NEW m \in Nat, NEW d \in Nat, NEW a \in Nat, NEW q \in Nat, NEW h \in Nat,
         NEW p \in Nat
  PROVE  /\ d <= m => Weight(m, d, a, q, h, p) \in Nat
         /\ Weight(m, d + 1, 4, q, h, p) < Weight(m, d, 0, q, h, p)
         /\ Weight(m, d, 0, q + 1, h, p) < Weight(m, d, 4, q, h, p)
         /\ Weight(m, d, a, q - 1, 2, p) < Weight(m, d, a, q, 0, p)
         /\ Weight(m, d, a, q, 0, p + 1) < Weight(m, d, a, q, 2, p)
         /\ Weight(m, d, a, q, h, p - 1) < Weight(m, d, a, q, h, p)
  BY DEF Weight

LEMMA LeftIsNatural == ASSUME Core PROVE Left \in Nat
<1>1. /\ MaxFrames \in Nat /\ decoded \in Nat /\ decoded <= MaxFrames
      /\ Len(queue["pull"]) \in Nat /\ Len(queue["push"]) \in Nat
  BY MaxFramesAssumption DEF Core, TypeOK, Stream
<1>2. AtQueue \in Nat /\ InHand \in Nat
  BY DEF AtQueue, InHand
<1> QED BY <1>1, <1>2, WeightFalls DEF Left

LEMMA LeftIsNaturalNext == ASSUME Core' PROVE Left' \in Nat
<1>1. /\ MaxFrames \in Nat /\ decoded' \in Nat /\ decoded' <= MaxFrames
      /\ Len(queue'["pull"]) \in Nat /\ Len(queue'["push"]) \in Nat
  BY MaxFramesAssumption DEF Core, TypeOK, Stream
<1>2. AtQueue' \in Nat /\ InHand' \in Nat
  BY DEF AtQueue, InHand
<1> QED BY <1>1, <1>2, WeightFalls DEF Left

(* A frame between the first queue and the encoder.                        *)
Underway(f) == f \in Waiting("pull") \union Hand \union Waiting("push") \union Encoding

(* A step of a running task: it brings no frame back, and if no frame goes *)
(* on the threads only look for one.                                       *)
Turn(f) == FInv /\ FInv' /\ ~Settled(f) /\ ~Settled(f)' /\ [Next]_vars

(* The threads while no frame goes on.                                     *)
ForwardLooks ==
  /\ pc'["push"] = pc["push"] /\ frame_in' = frame_in
  /\ \/ At("forward", "loop") /\ At("forward", "take")'
     \/ At("forward", "take") /\ queue["pull"] = <<>> /\ At("forward", "loop")'
     \/ At("forward", "hand") /\ At("forward", "append")'

PushLooks ==
  /\ pc'["forward"] = pc["forward"]
  /\ \/ At("push", "prepare") /\ At("push", "loop")' /\ frame_in' = frame_in
     \/ At("push", "loop") /\ At("push", "lock")' /\ frame_in' = frame_in
     \/ At("push", "encode") /\ At("push", "release")' /\ frame_in' = frame_in
     \/ At("push", "release") /\ At("push", "loop")' /\ frame_in = written

OthersLook == pc'["push"] = pc["push"] /\ pc'["forward"] = pc["forward"] /\ frame_in' = frame_in

Standing == Left' = Left /\ UNCHANGED <<queue, frame>>

LEMMA PullTurns ==
  ASSUME NEW f \in Frame, Turn(f), Pull
  PROVE  Falls \/ (Standing /\ OthersLook)
<1>0. /\ ~disconnected /\ ~disconnected' /\ process' = "up"
      /\ Core /\ pc["pull"] \in {"loop", "decode", "queue"}
  BY DEF Turn, FInv, Settled, Kept, Core, TypeOK
<1>1. /\ decoded \in Nat /\ MaxFrames \in Nat /\ queue["pull"] \in Seq(Frame)
      /\ Len(queue["pull"]) \in Nat /\ Len(queue["push"]) \in Nat
  BY <1>0, MaxFramesAssumption DEF Core, TypeOK, Stream
<1>2. ASSUME NEW l \in Label, Goto("pull", l)
      PROVE  pc'["pull"] = l /\ pc'["push"] = pc["push"] /\ pc'["forward"] = pc["forward"]
  BY <1>0, <1>2, GotoMoves DEF Core, Thread
<1>3. CASE PullReads
  BY <1>0, <1>2, <1>3 DEF PullReads, At, Label, Standing, OthersLook, Left, AtQueue, InHand
<1>4. ASSUME NEW k \in Media, PullDecodes(k) PROVE Falls \/ (Standing /\ OthersLook)
  <2>1. CASE decoded' = decoded + 1 /\ Goto("pull", "queue")
    <3>1. AtQueue = 0 /\ AtQueue' = 4 /\ InHand' = InHand /\ InHand \in Nat
      BY <1>2, <1>4, <2>1 DEF PullDecodes, At, Label, AtQueue, InHand
    <3>2. queue' = queue
      BY <1>4 DEF PullDecodes
    <3> QED BY <1>1, <2>1, <3>1, <3>2, WeightFalls DEF Falls, Left
  <2>2. CASE decoded' = decoded /\ Goto("pull", "loop")
    BY <1>2, <1>4, <2>2 DEF PullDecodes, At, Label, Standing, OthersLook, Left, AtQueue, InHand
  <2> QED BY <1>0, <1>4, <2>1, <2>2 DEF PullDecodes
<1>5. CASE PullQueues
  <2>1. decoded \in Frame
    BY <1>0, <1>1, <1>5 DEF PullQueues, Core, Holding, TypeOK, Frame
  <2>2. Len(queue'["pull"]) = Len(queue["pull"]) + 1 /\ queue'["push"] = queue["push"]
    BY <1>0, <1>1, <1>5, <2>1, AppendProperties DEF PullQueues, Core, TypeOK, Stream
  <2>3. /\ AtQueue = 4 /\ AtQueue' = 0 /\ InHand' = InHand /\ InHand \in Nat
        /\ decoded' = decoded
    BY <1>2, <1>5 DEF PullQueues, At, Label, AtQueue, InHand
  <2> QED BY <1>1, <2>2, <2>3, WeightFalls DEF Falls, Left
<1> QED BY <1>0, <1>3, <1>4, <1>5 DEF Pull, Drain, DrainTests, DrainFrees, DrainPops, PullFrees,
        PullConnects, PullPauses, At

LEMMA ForwardTurns ==
  ASSUME NEW f \in Frame, Turn(f), Forward
  PROVE  Falls \/ (Standing /\ ForwardLooks)
<1>0. Core /\ m_state
  BY DEF Turn, FInv, Settled, Core, TypeOK
<1>1. /\ decoded \in Nat /\ MaxFrames \in Nat
      /\ queue["pull"] \in Seq(Frame) /\ queue["push"] \in Seq(Frame)
      /\ Len(queue["pull"]) \in Nat /\ Len(queue["push"]) \in Nat
  BY <1>0, MaxFramesAssumption DEF Core, TypeOK, Stream
<1>2. ASSUME NEW l \in Label, Goto("forward", l)
      PROVE  pc'["forward"] = l /\ pc'["push"] = pc["push"] /\ pc'["pull"] = pc["pull"]
  BY <1>0, <1>2, GotoMoves DEF Core, Thread
<1>3. CASE ForwardLocks \/ ForwardHands
  BY <1>0, <1>2, <1>3 DEF ForwardLocks, ForwardHands, At, Label, Standing, ForwardLooks, Left, AtQueue,
      InHand
<1>4. CASE ForwardTakes
  <2>1. CASE queue["pull"] = <<>>
    BY <1>2, <1>4, <2>1 DEF ForwardTakes, At, Label, Standing, ForwardLooks, Left, AtQueue,
      InHand
  <2>2. CASE queue["pull"] # <<>>
    <3>1. frame = None /\ frame' # None
      BY <1>0, <1>1, <1>4, <2>2, HeadTailProperties
         DEF ForwardTakes, At, Core, Holding, Frame, None
    <3>2. Len(queue'["pull"]) = Len(queue["pull"]) - 1 /\ queue'["push"] = queue["push"]
      BY <1>0, <1>1, <1>4, <2>2, HeadTailProperties DEF ForwardTakes, Core, TypeOK, Stream
    <3>3. /\ AtQueue' = AtQueue /\ AtQueue \in Nat /\ InHand = 0 /\ InHand' = 2
          /\ decoded' = decoded
      BY <1>2, <1>4, <2>2, <3>1 DEF ForwardTakes, At, Label, AtQueue, InHand
    <3> QED BY <1>1, <3>2, <3>3, WeightFalls DEF Falls, Left
  <2> QED BY <2>1, <2>2
<1>5. CASE ForwardAppends
  <2>1. frame \in Frame /\ frame # None /\ frame' = None
    BY <1>0, <1>5 DEF ForwardAppends, At, Core, Holding, TypeOK
  <2>2. Len(queue'["push"]) = Len(queue["push"]) + 1 /\ queue'["pull"] = queue["pull"]
    BY <1>0, <1>1, <1>5, <2>1, AppendProperties DEF ForwardAppends, Core, TypeOK, Stream
  <2>3. /\ AtQueue' = AtQueue /\ AtQueue \in Nat /\ InHand = 2 /\ InHand' = 0
        /\ decoded' = decoded
    BY <1>2, <1>5, <2>1 DEF ForwardAppends, At, Label, AtQueue, InHand
  <2> QED BY <1>1, <2>2, <2>3, WeightFalls DEF Falls, Left
<1> QED BY <1>3, <1>4, <1>5 DEF Forward

LEMMA PushTurns ==
  ASSUME NEW f \in Frame, Turn(f), Push, ~UNCHANGED vars
  PROVE  Falls \/ (Standing /\ PushLooks)
<1>0. /\ Core /\ Course /\ m_state /\ process' = "up" /\ process = "up"
      /\ pc["push"] \in {"prepare", "loop", "lock", "encode", "release"}
      /\ pc'["push"] \notin {"free", "done"}
  BY DEF Turn, FInv, Settled, Core, TypeOK, Course, At
<1>1. /\ decoded \in Nat /\ MaxFrames \in Nat /\ queue["push"] \in Seq(Frame)
      /\ Len(queue["pull"]) \in Nat /\ Len(queue["push"]) \in Nat
  BY <1>0, MaxFramesAssumption DEF Core, TypeOK, Stream
<1>2. ASSUME NEW l \in Label, Goto("push", l)
      PROVE  pc'["push"] = l /\ pc'["forward"] = pc["forward"] /\ pc'["pull"] = pc["pull"]
  BY <1>0, <1>2, GotoMoves DEF Core, Thread
<1>3. CASE PushPrepares
  BY <1>0, <1>2, <1>3 DEF PushPrepares, End, At, Label, Standing, PushLooks, Left, AtQueue,
      InHand
<1>4. CASE PushTests
  <2>1. ~UNCHANGED pc
    BY <1>4 DEF PushTests, vars
  <2> QED BY <1>0, <1>2, <1>4, <2>1 DEF PushTests, At, Label, Standing, PushLooks, Left, AtQueue,
      InHand
<1>5. CASE PushTakes
  <2>1. /\ queue["push"] # <<>> /\ queue' = [queue EXCEPT !["push"] = Tail(@)]
        /\ Goto("push", "encode") /\ UNCHANGED <<decoded, frame>>
    BY <1>0, <1>5 DEF PushTakes, End
  <2>2. Len(queue'["push"]) = Len(queue["push"]) - 1 /\ queue'["pull"] = queue["pull"]
    BY <1>0, <1>1, <2>1, HeadTailProperties DEF Core, TypeOK, Stream
  <2>3. AtQueue' = AtQueue /\ AtQueue \in Nat /\ InHand' = InHand /\ InHand \in Nat
    BY <1>2, <2>1 DEF At, Label, AtQueue, InHand
  <2> QED BY <1>1, <2>1, <2>2, <2>3, WeightFalls DEF Falls, Left
<1>6. CASE PushEncodes \/ PushReleases
  BY <1>0, <1>2, <1>6 DEF PushEncodes, PushReleases, DoubleFree, End, At, Label, Standing,
      PushLooks, Left, AtQueue, InHand, Course
<1> QED BY <1>0, <1>3, <1>4, <1>5, <1>6 DEF Push, Drain, DrainTests, DrainFrees, DrainPops,
        PushFrees, PushPauses, PushJoins, At

LEMMA EachTurn ==
  ASSUME NEW f \in Frame, Turn(f)
  PROVE  Falls \/ (Standing /\ (OthersLook \/ ForwardLooks \/ PushLooks))
<1>1. process = "up" /\ m_state' /\ Core /\ m_state /\ Course
  BY DEF Turn, Settled, FInv, Core, TypeOK
<1>2. CASE CallerStep
  <2>1. ~At("push", "done")
    BY DEF Turn, Settled, At
  <2> QED BY <1>1, <1>2, <2>1 DEF CallerStep, CallerStops, CallerJoins, CallerDestroys, Core, Locks,
          Thread
<1>3. CASE UNCHANGED vars
  BY <1>3 DEF vars, Standing, OthersLook, Left, AtQueue, InHand, At
<1> QED BY <1>1, <1>2, <1>3, PullTurns, ForwardTurns, PushTurns DEF Turn, Next, Ended

(* A frame on its way stays on it until it is written.                     *)
LEMMA TurnKeepsUnderway ==
  ASSUME NEW f \in Frame, Turn(f), Underway(f)
  PROVE  Underway(f)'
<1>0. /\ Core /\ Ordered /\ Course /\ f # None /\ ~(written >= f)
      /\ pc["pull"] \in {"loop", "decode", "queue"} /\ ~disconnected'
      /\ pc["push"] \in {"prepare", "loop", "lock", "encode", "release"} /\ process' = "up"
      /\ ~At("push", "done")
  BY MaxFramesAssumption DEF Turn, FInv, Settled, Kept, Core, TypeOK, Course, At, Frame, None
<1> USE DEF Underway, Hand, Encoding
<1>1. CASE UNCHANGED <<queue, frame, frame_in>>
  BY <1>1 DEF Waiting
<1>2. CASE PullQueues
  <2>1. decoded \in Frame
    BY <1>0, <1>2 DEF PullQueues, Core, Holding, TypeOK, Frame
  <2>2. Waiting("push")' = Waiting("push") /\ Waiting("pull") \subseteq Waiting("pull")'
    <3>1. Below(Waiting("pull"), {decoded})
      BY <1>0, <1>2 DEF PullQueues, Ordered, Decoding
    <3> QED BY <1>0, <1>2, <2>1, <3>1, PushMoves DEF PullQueues, Stream
  <2> QED BY <1>2, <2>2 DEF PullQueues
<1>3. CASE ForwardTakes
  <2>1. CASE queue["pull"] # <<>>
    <3>1. frame = None
      BY <1>0, <1>3 DEF ForwardTakes, Core, Holding, At
    <3>2. /\ Waiting("push")' = Waiting("push")
          /\ Waiting("pull") \subseteq Waiting("pull")' \union {frame'}
      BY <1>0, <1>3, <2>1, PopMoves DEF ForwardTakes, Stream
    <3> QED BY <1>3, <3>1, <3>2, <1>0 DEF ForwardTakes
  <2> QED BY <1>1, <1>3, <2>1 DEF ForwardTakes
<1>4. CASE ForwardAppends
  <2>1. frame \in Frame
    BY <1>0, <1>4 DEF ForwardAppends, At, Core, Holding, TypeOK
  <2>2. /\ Waiting("pull")' = Waiting("pull")
        /\ Waiting("push") \union {frame} \subseteq Waiting("push")'
    <3>1. Below(Waiting("push"), {frame})
      BY <1>0, <2>1, MaxFramesAssumption DEF Ordered, Hand, Below, Frame, None
    <3> QED BY <1>0, <1>4, <2>1, <3>1, PushMoves DEF ForwardAppends, Stream
  <2> QED BY <1>4, <2>2 DEF ForwardAppends
<1>5. CASE PushTakes
  <2>1. /\ queue["push"] # <<>> /\ queue' = [queue EXCEPT !["push"] = Tail(@)]
        /\ frame_in' = Head(queue["push"]) /\ frame' = frame
    BY <1>0, <1>5 DEF PushTakes, End
  <2>2. frame_in = None
    BY <1>0, <1>5 DEF PushTakes, Core, Holding, At
  <2>3. /\ Waiting("pull")' = Waiting("pull")
        /\ Waiting("push") \subseteq Waiting("push")' \union {frame_in'}
    BY <1>0, <2>1, PopMoves DEF Stream
  <2> QED BY <1>0, <2>1, <2>2, <2>3
<1>6. CASE PushReleases
  <2>1. UNCHANGED <<queue, frame>> /\ frame_in = written
    BY <1>0, <1>6 DEF PushReleases, DoubleFree, End, Course
  <2>2. f # frame_in
    BY <1>0, <2>1, MaxFramesAssumption DEF Frame
  <2> QED BY <2>1, <2>2 DEF Waiting
<1>7. \/ UNCHANGED <<queue, frame, frame_in>>
      \/ PullQueues \/ ForwardTakes \/ ForwardAppends \/ PushTakes \/ PushReleases
  <2>1. Pull => PullQueues \/ UNCHANGED <<queue, frame, frame_in>>
    BY <1>0 DEF Pull, PullReads, PullDecodes, PullFrees, PullConnects, PullPauses, Drain,
        DrainTests, DrainFrees, DrainPops, At, End, DoubleFree
  <2>2. Forward => ForwardTakes \/ ForwardAppends \/ UNCHANGED <<queue, frame, frame_in>>
    BY DEF Forward, ForwardLocks, ForwardHands
  <2>3. Push => PushTakes \/ PushReleases \/ UNCHANGED <<queue, frame, frame_in>>
    BY <1>0 DEF Push, PushPrepares, PushTests, PushEncodes, PushFrees, PushPauses, PushJoins,
        Drain, DrainTests, DrainFrees, DrainPops, At, End, DoubleFree
  <2>4. CallerStep => UNCHANGED <<queue, frame, frame_in>>
    BY <1>0 DEF CallerStep, CallerStops, CallerJoins, CallerDestroys, DoubleFree, End, Core,
        Locks, Thread
  <2> QED BY <2>1, <2>2, <2>3, <2>4 DEF Turn, Next, Ended, vars
<1> QED BY <1>1, <1>2, <1>3, <1>4, <1>5, <1>6, <1>7

(* When no frame goes on any more, the forwarder has found its queue empty *)
(* and the frame waits for the push thread or is in its hands.             *)
Clear == pc["forward"] \in {"loop", "take"} /\ queue["pull"] = <<>>

LEMMA ClearUnderway ==
  ASSUME NEW f \in Frame, FInv, Clear, Underway(f)
  PROVE  /\ mutex["push"] = "none"
         /\ pc["push"] \in {"prepare", "loop", "lock"} => queue["push"] # <<>>
<1>1. mutex["push"] = "none" /\ frame = None
  BY DEF FInv, Core, TypeOK, Holding, Locks, Clear, At, Stream
<1>2. pc["push"] \in {"prepare", "loop", "lock"} => frame_in = None
  BY DEF FInv, Core, Holding, At
<1>3. Waiting("pull") = {} /\ (queue["push"] = <<>> => Waiting("push") = {})
  BY DEF Clear, Waiting, ToSet
<1> QED BY <1>1, <1>2, <1>3 DEF Underway, Hand, Encoding

(* A frame in the first queue of a running task is written, whatever the   *)
(* number of frames and of those before it: neither loop leaves a frame    *)
(* behind, and no lock keeps the other side from its turn.                 *)
LEMMA EachFrameMoves ==
  ASSUME NEW f \in Frame
  PROVE  FairSpec /\ []GuardsEnable /\ NoEndlessFall => FrameMoves(f)
<1> DEFINE Runs == ~Settled(f)
           Active == FInv /\ Runs /\ Underway(f)
           Rests == ~Falls
           Hands == At("forward", "hand")
           Appends == At("forward", "append")
           Asks == At("forward", "loop") /\ queue["pull"] # <<>>
           Takes == At("forward", "take") /\ queue["pull"] # <<>>
           PushAt(l) == Clear /\ At("push", l)
<1>1. FInv /\ FInv' /\ Runs /\ Runs' /\ Underway(f) /\ [Next]_vars => Underway(f)'
  BY TurnKeepsUnderway DEF Turn
<1>2. FInv /\ FInv' /\ Runs /\ Runs' /\ [Next]_vars => [Keeps]_vars
  <2> SUFFICES ASSUME Turn(f) PROVE Keeps
    BY DEF Turn
  <2>1. Left \in Nat /\ Left' \in Nat
    BY LeftIsNatural, LeftIsNaturalNext DEF Turn, FInv
  <2> QED BY <2>1, EachTurn DEF Keeps, Falls, Standing
<1>0. Active /\ [Rests]_vars => Rests
  <2> SUFFICES ASSUME Active, UNCHANGED vars PROVE Rests
    OBVIOUS
  <2>1. Left' = Left
    BY DEF vars, Left, AtQueue, InHand, At
  <2> QED BY <2>1, LeftIsNatural DEF Falls, FInv
<1>3. Active => process = "up" /\ m_state
  BY DEF Settled, FInv, Core, TypeOK
<1>4. /\ Active /\ Active' /\ [Next]_vars /\ [Rests]_vars /\ Hands => Hands' \/ Appends'
      /\ Active /\ Active' /\ [Next]_vars /\ [Rests]_vars /\ Appends => Appends'
      /\ Active /\ Active' /\ [Next]_vars /\ [Rests]_vars /\ Asks => Asks' \/ Takes'
      /\ Active /\ Active' /\ [Next]_vars /\ [Rests]_vars /\ Takes => Takes'
      /\ Active /\ Active' /\ [Next]_vars /\ [Rests]_vars /\ Clear => Clear'
  BY <1>0, EachTurn DEF Turn, Standing, OthersLook, ForwardLooks, PushLooks, At, Clear
<1>5. /\ Active /\ Active' /\ [Next]_vars /\ [Rests]_vars /\ Hands /\ <<ForwardAdvances>>_vars => Appends'
      /\ Active /\ Active' /\ [Next]_vars /\ [Rests]_vars /\ Appends => ~<<ForwardAdvances>>_vars
      /\ Active /\ Active' /\ [Next]_vars /\ [Rests]_vars /\ Asks /\ <<ForwardAdvances>>_vars => Takes'
      /\ Active /\ Active' /\ [Next]_vars /\ [Rests]_vars /\ Takes => ~<<ForwardAdvances>>_vars
  BY <1>0, ForwardTurns DEF Turn, Standing, ForwardLooks, At, ForwardAdvances
<1>6. /\ GuardsEnable /\ Active /\ Hands => ENABLED <<ForwardAdvances>>_vars
      /\ GuardsEnable /\ Active /\ Appends => ENABLED <<ForwardAdvances>>_vars
      /\ GuardsEnable /\ Active /\ Asks => ENABLED <<ForwardAdvances>>_vars
      /\ GuardsEnable /\ Active /\ Takes => ENABLED <<ForwardAdvances>>_vars
  BY <1>3 DEF GuardsEnable, ForwardReady, At
<1>7. Active => Hands \/ Appends \/ Asks \/ Takes \/ Clear
  BY <1>3 DEF FInv, Course, At, Clear
<1>8. \A l \in {"prepare", "loop", "lock", "encode", "release"} :
        Active /\ PushAt(l) => PushReady
  BY <1>3, ClearUnderway DEF PushReady, At, FInv
<1>9. /\ GuardsEnable /\ Active /\ PushAt("prepare") => ENABLED <<PushAdvances>>_vars
      /\ GuardsEnable /\ Active /\ PushAt("loop") => ENABLED <<PushAdvances>>_vars
      /\ GuardsEnable /\ Active /\ PushAt("lock") => ENABLED <<PushAdvances>>_vars
      /\ GuardsEnable /\ Active /\ PushAt("encode") => ENABLED <<PushAdvances>>_vars
      /\ GuardsEnable /\ Active /\ PushAt("release") => ENABLED <<PushAdvances>>_vars
  BY <1>3, <1>8 DEF GuardsEnable
<1>10. Active /\ Active' /\ [Next]_vars /\ [Rests]_vars /\ Clear =>
              /\ PushAt("prepare") => PushAt("prepare")' \/ PushAt("loop")'
              /\ PushAt("loop") => PushAt("loop")' \/ PushAt("lock")'
              /\ PushAt("lock") => PushAt("lock")'
              /\ PushAt("encode") => PushAt("encode")' \/ PushAt("release")'
              /\ PushAt("release") => PushAt("release")' \/ PushAt("loop")'
  BY <1>4, <1>0, EachTurn DEF Turn, OthersLook, ForwardLooks, PushLooks, At
<1>11. Active /\ Active' /\ [Next]_vars /\ [Rests]_vars /\ Clear /\ <<PushAdvances>>_vars =>
              /\ PushAt("prepare") => PushAt("loop")'
              /\ PushAt("loop") => PushAt("lock")'
              /\ ~PushAt("lock")
              /\ PushAt("encode") => PushAt("release")'
              /\ PushAt("release") => PushAt("loop")'
  <2> SUFFICES ASSUME Active, Active', [Next]_vars, [Rests]_vars, Clear, <<PushAdvances>>_vars
               PROVE  Clear' /\ PushLooks
    BY DEF PushLooks, At
  <2> QED
    BY <1>4, <1>0, PushTurns DEF Turn, PushAdvances
<1>12. Active /\ Clear => \/ PushAt("prepare") \/ PushAt("loop") \/ PushAt("lock")
                          \/ PushAt("encode") \/ PushAt("release")
  BY DEF Settled, FInv, Course, At
<1>13. Active => Runs /\ FInv /\ Underway(f)
  OBVIOUS
<1>14. f \in ToSet(queue["pull"]) => Underway(f)
  BY DEF Underway, Waiting
<1>15. ~<<Falls>>_vars => [Rests]_vars
  OBVIOUS
<1>16. FInv /\ Runs /\ Underway(f) => Active
  OBVIOUS
<1>17. ~Runs => Settled(f)
  OBVIOUS
<1> DEFINE Quiet == [][Next]_vars /\ [][Rests]_vars /\ []Active /\ []GuardsEnable
           Forwarding == Quiet /\ WF_vars(ForwardAdvances)
           Pushing == Quiet /\ []Clear /\ WF_vars(PushAdvances)
<1> HIDE DEF Active, Runs, Rests, Hands, Appends, Asks, Takes, PushAt, Clear
<1>18. Forwarding => ~Appends
  BY <1>4, <1>5, <1>6, PTL
<1>19. Forwarding => ~Hands
  BY <1>4, <1>5, <1>6, <1>18, PTL
<1>20. Forwarding => ~Takes
  BY <1>4, <1>5, <1>6, PTL
<1>21. Forwarding => ~Asks
  BY <1>4, <1>5, <1>6, <1>20, PTL
<1>22. Forwarding => []Clear
  BY <1>7, <1>18, <1>19, <1>20, <1>21, PTL
<1>23. Pushing => ~PushAt("lock")
  BY <1>9, <1>10, <1>11, PTL
<1>24. Pushing => ~PushAt("loop")
  BY <1>9, <1>10, <1>11, <1>23, PTL
<1>25. Pushing => ~PushAt("release") /\ ~PushAt("prepare")
  BY <1>9, <1>10, <1>11, <1>24, PTL
<1>26. Pushing => ~PushAt("encode")
  BY <1>9, <1>10, <1>11, <1>25, PTL
<1>27. Forwarding => ~Pushing
  BY <1>12, <1>23, <1>24, <1>25, <1>26, PTL
<1> DEFINE Fair == WF_vars(ForwardAdvances) /\ WF_vars(PushAdvances)
           Always == [][Next]_vars /\ []FInv /\ []GuardsEnable /\ Fair
<1>28. Always /\ []Active /\ [][Rests]_vars => FALSE
  BY <1>22, <1>27, PTL
<1>29. [][Next]_vars /\ []FInv /\ []Runs /\ Underway(f) => []Active
  BY <1>1, <1>16, PTL
<1>30. [][Next]_vars /\ []FInv /\ NoEndlessFall /\ <>[]Runs => <>[][Rests]_vars
  BY <1>2, <1>15, PTL DEF NoEndlessFall
<1>31. Always /\ NoEndlessFall => [](Underway(f) => <>~Runs)
  BY <1>28, <1>29, <1>30, PTL
<1>32. FairSpec /\ []GuardsEnable => Always
  BY AlwaysFInv, PTL DEF FairSpec, Fairness, Spec
<1> QED BY <1>14, <1>17, <1>31, <1>32, PTL DEF FrameMoves

(* Every frame that is queued is written, unless the task or the push      *)
(* thread stops or a reconnect throws it away.                             *)
THEOREM FramesDoMove == FairSpec /\ []GuardsEnable /\ NoEndlessFall => FramesMove
  BY EachFrameMoves DEF FramesMove

===========================================================================
