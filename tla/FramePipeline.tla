--------------------------- MODULE FramePipeline ---------------------------
(***************************************************************************)
(* The frames of one running task: decoded by PullStream::start, queued,   *)
(* carried over by the forwarding thread of TaskExecutor::start, queued    *)
(* again, encoded and freed by PushStream::start (Analyzer/src/stream.cpp, *)
(* executor.cpp).  Frames are numbered in the order of decoding.           *)
(*                                                                         *)
(* A frame is an AVFrame* that some thread frees in the end.  The second   *)
(* free of a frame, and front() or pop() of an empty queue, are undefined: *)
(* the process ends there.  An access to a freed frame goes well or ends   *)
(* the process.                                                            *)
(***************************************************************************)
EXTENDS Naturals, Sequences, SequencesExt

CONSTANT MaxFrames    \* bound: how many frames are decoded

ASSUME MaxFramesAssumption == MaxFrames \in Nat

Frame == 1 .. MaxFrames
None == 0               \* nullptr
Stream == {"pull", "push"}
Media == {"video", "audio"}

VARIABLES
  process,       \* "up" or "ended"
  m_state,       \* TaskExecutor::m_state
  caller,        \* where the scheduler's pause or removal of the task is
  pc,            \* where each of the three threads is
  queue,         \* stream_frameQueue of the pull and of the push stream
  mutex,         \* holder of each m_frameQueueMutex
  last,          \* frame_bgr and frame_s16 of PullStream::start
  frame,         \* frame of the forwarding thread
  frame_in,      \* frame_in of PushStream::start
  decoded,       \* number of frames decoded so far
  freed,         \* frames that have been freed
  written,       \* the last frame given to the encoder
  reconnecting,  \* the pull thread disconnects in order to reconnect
  disconnected   \* history: the pull thread has begun to end or disconnect

vars == <<process, m_state, caller, pc, queue, mutex, last, frame, frame_in,
          decoded, freed, written, reconnecting, disconnected>>

Draining == {"drain", "drop", "pop"}

TypeOK ==
  /\ process \in {"up", "ended"}
  /\ m_state \in BOOLEAN
  /\ caller \in {"idle", "join", "joined", "destroyed"}
  /\ pc \in [{"pull", "forward", "push"} ->
               {"prepare", "loop", "decode", "queue", "connect", "lock", "take", "hand",
                "append", "encode", "release", "free", "pause", "join", "done"}
               \union Draining]
  /\ queue \in [Stream -> Seq(Frame)]
  /\ mutex \in [Stream -> {"none", "forward"}]
  /\ last \in [Media -> Frame \union {None}]
  /\ frame \in Frame \union {None}
  /\ frame_in \in Frame \union {None}
  /\ decoded \in 0 .. MaxFrames
  /\ freed \subseteq Frame
  /\ written \in 0 .. MaxFrames
  /\ reconnecting \in BOOLEAN
  /\ disconnected \in BOOLEAN

(* start() has connected both streams and launched the three threads.      *)
Init ==
  /\ process = "up"
  /\ m_state = TRUE
  /\ caller = "idle"
  /\ pc = [pull |-> "loop", forward |-> "loop", push |-> "prepare"]
  /\ queue = [s \in Stream |-> <<>>]
  /\ mutex = [s \in Stream |-> "none"]
  /\ last = [k \in Media |-> None]
  /\ frame = None
  /\ frame_in = None
  /\ decoded = 0
  /\ freed = {}
  /\ written = 0
  /\ reconnecting = FALSE
  /\ disconnected = FALSE

---------------------------------------------------------------------------
(* Parts of steps.                                                         *)

At(t, label) == pc[t] = label
Goto(t, label) == pc' = [pc EXCEPT ![t] = label]

(* An exception that nobody catches, or a fault.                           *)
End ==
  /\ process' = "ended"
  /\ UNCHANGED <<m_state, caller, pc, queue, mutex, last, frame, frame_in,
                 decoded, freed, written, reconnecting, disconnected>>

(* av_frame_free of each frame of a set that holds no null pointer.        *)
Free(frames) == frames \intersect freed = {} /\ freed' = freed \union frames
DoubleFree(frames) == frames \intersect freed # {} /\ End

---------------------------------------------------------------------------
(* The pull thread.                                                        *)

(* while (executor->getState()), av_read_frame, avcodec_send_packet: there *)
(* may be frames to receive; an error that is not the last one goes round;    *)
(* more than five lead to reconnect(); a failed preparation, a decoder     *)
(* error or the end of the loop leads to the label end.                    *)
PullReads ==
  /\ At("pull", "loop")
  /\ \/ m_state /\ Goto("pull", "decode") /\ UNCHANGED <<reconnecting, disconnected>>
     \/ /\ m_state
        /\ Goto("pull", "drain")
        /\ reconnecting' = TRUE /\ disconnected' = TRUE
     \/ /\ Goto("pull", "free")
        /\ disconnected' = TRUE
        /\ UNCHANGED reconnecting
  /\ UNCHANGED <<process, m_state, caller, queue, mutex, last, frame, frame_in,
                 decoded, freed, written>>

(* avcodec_receive_frame until it has no more; frame_bgr or frame_s16 =    *)
(* av_frame_alloc(), which may fail.                                       *)
PullDecodes(k) ==
  /\ At("pull", "decode")
  /\ \/ /\ decoded < MaxFrames
        /\ decoded' = decoded + 1
        /\ last' = [last EXCEPT ![k] = decoded + 1]
        /\ Goto("pull", "queue")
        /\ UNCHANGED disconnected
     \/ Goto("pull", "loop") /\ UNCHANGED <<decoded, last, disconnected>>
     \/ /\ last' = [last EXCEPT ![k] = None]
        /\ Goto("pull", "free")
        /\ disconnected' = TRUE
        /\ UNCHANGED decoded
  /\ UNCHANGED <<process, m_state, caller, queue, mutex, frame, frame_in, freed,
                 written, reconnecting>>

(* Push under the lock; the pointer keeps its value.                       *)
PullQueues ==
  /\ At("pull", "queue") /\ mutex["pull"] = "none"
  /\ queue' = [queue EXCEPT !["pull"] = Append(@, decoded)]
  /\ Goto("pull", "decode")
  /\ UNCHANGED <<process, m_state, caller, mutex, last, frame, frame_in, decoded,
                 freed, written, reconnecting, disconnected>>

(* The label end: frame_bgr and frame_s16 are freed if they are not null.  *)
PullFrees ==
  LET mine == {last[k] : k \in Media} \ {None} IN
  /\ At("pull", "free")
  /\ \/ /\ Free(mine)
        /\ Goto("pull", "drain")
        /\ reconnecting' = FALSE
        /\ UNCHANGED <<process, m_state, caller, queue, mutex, last, frame,
                       frame_in, decoded, written, disconnected>>
     \/ DoubleFree(mine)

(* reconnect() goes on with connect(), which finds the queue empty.        *)
PullConnects ==
  /\ At("pull", "connect")
  /\ Goto("pull", "loop") \/ Goto("pull", "free")
  /\ UNCHANGED <<process, m_state, caller, queue, mutex, last, frame, frame_in,
                 decoded, freed, written, reconnecting, disconnected>>

(* executor->pause(): joins its own handle if the task was still running.  *)
PullPauses ==
  /\ At("pull", "pause")
  /\ IF m_state
     THEN End
     ELSE /\ Goto("pull", "done")
          /\ UNCHANGED <<process, m_state, caller, queue, mutex, last, frame,
                         frame_in, decoded, freed, written, reconnecting,
                         disconnected>>

---------------------------------------------------------------------------
(* disconnect() empties the stream's own queue, by the stream's thread and *)
(* without m_frameQueueMutex.                                              *)

(* while (!stream_frameQueue.empty())                                      *)
DrainTests(s) ==
  /\ At(s, "drain")
  /\ Goto(s, IF queue[s] # <<>> THEN "drop"
             ELSE IF s = "pull" /\ reconnecting THEN "connect" ELSE "pause")
  /\ UNCHANGED <<process, m_state, caller, queue, mutex, last, frame, frame_in,
                 decoded, freed, written, reconnecting, disconnected>>

(* front(), av_frame_free()                                                *)
DrainFrees(s) ==
  /\ At(s, "drop")
  /\ \/ queue[s] = <<>> /\ End
     \/ /\ queue[s] # <<>>
        /\ \/ /\ Free({Head(queue[s])})
              /\ Goto(s, "pop")
              /\ UNCHANGED <<process, m_state, caller, queue, mutex, last, frame,
                             frame_in, decoded, written, reconnecting,
                             disconnected>>
           \/ DoubleFree({Head(queue[s])})

DrainPops(s) ==
  /\ At(s, "pop")
  /\ \/ queue[s] = <<>> /\ End
     \/ /\ queue[s] # <<>>
        /\ queue' = [queue EXCEPT ![s] = Tail(@)]
        /\ Goto(s, "drain")
        /\ UNCHANGED <<process, m_state, caller, mutex, last, frame, frame_in,
                       decoded, freed, written, reconnecting, disconnected>>

Drain(s) == DrainTests(s) \/ DrainFrees(s) \/ DrainPops(s)

---------------------------------------------------------------------------
(* The forwarding thread.                                                  *)

(* Variant: the loop runs while the task does not.                         *)
ForwardLocks_Inverted ==
  /\ At("forward", "loop")
  /\ \/ ~m_state /\ mutex' = [mutex EXCEPT !["pull"] = "forward"]
                 /\ Goto("forward", "take")
     \/ m_state /\ Goto("forward", "done") /\ UNCHANGED mutex
  /\ UNCHANGED <<process, m_state, caller, queue, last, frame, frame_in, decoded,
                 freed, written, reconnecting, disconnected>>

(* while (m_state), getFrame: lock.                                        *)
ForwardLocks ==
  /\ At("forward", "loop")
  /\ \/ m_state /\ mutex' = [mutex EXCEPT !["pull"] = "forward"]
                /\ Goto("forward", "take")
     \/ ~m_state /\ Goto("forward", "done") /\ UNCHANGED mutex
  /\ UNCHANGED <<process, m_state, caller, queue, last, frame, frame_in, decoded,
                 freed, written, reconnecting, disconnected>>

(* Variant: a null pointer is handed over as well.                         *)
ForwardTakes_NoTest ==
  /\ At("forward", "take")
  /\ mutex' = [mutex EXCEPT !["pull"] = "none"]
  /\ \/ queue["pull"] = <<>> /\ UNCHANGED <<queue, frame>>
     \/ /\ queue["pull"] # <<>>
        /\ frame' = Head(queue["pull"])
        /\ queue' = [queue EXCEPT !["pull"] = Tail(@)]
  /\ Goto("forward", "hand")
  /\ UNCHANGED <<process, m_state, caller, last, frame_in, decoded, freed,
                 written, reconnecting, disconnected>>

(* The rest of getFrame: front and pop if there is a frame, unlock.        *)
ForwardTakes ==
  /\ At("forward", "take")
  /\ mutex' = [mutex EXCEPT !["pull"] = "none"]
  /\ \/ queue["pull"] = <<>> /\ Goto("forward", "loop") /\ UNCHANGED <<queue, frame>>
     \/ /\ queue["pull"] # <<>>
        /\ frame' = Head(queue["pull"])
        /\ queue' = [queue EXCEPT !["pull"] = Tail(@)]
        /\ Goto("forward", "hand")
  /\ UNCHANGED <<process, m_state, caller, last, frame_in, decoded, freed,
                 written, reconnecting, disconnected>>

(* pushFrame: lock.                                                        *)
ForwardHands ==
  /\ At("forward", "hand")
  /\ mutex' = [mutex EXCEPT !["push"] = "forward"]
  /\ Goto("forward", "append")
  /\ UNCHANGED <<process, m_state, caller, queue, last, frame, frame_in, decoded,
                 freed, written, reconnecting, disconnected>>

(* Variant: the frame goes to the front.                                   *)
ForwardAppends_Front ==
  /\ At("forward", "append")
  /\ queue' = [queue EXCEPT !["push"] = <<frame>> \o @]
  /\ mutex' = [mutex EXCEPT !["push"] = "none"]
  /\ frame' = None
  /\ Goto("forward", "loop")
  /\ UNCHANGED <<process, m_state, caller, last, frame_in, decoded, freed, written,
                 reconnecting, disconnected>>

(* The rest of pushFrame: push, unlock.                                    *)
ForwardAppends ==
  /\ At("forward", "append")
  /\ queue' = [queue EXCEPT !["push"] = Append(@, frame)]
  /\ mutex' = [mutex EXCEPT !["push"] = "none"]
  /\ frame' = None
  /\ Goto("forward", "loop")
  /\ UNCHANGED <<process, m_state, caller, last, frame_in, decoded, freed, written,
                 reconnecting, disconnected>>

---------------------------------------------------------------------------
(* The push thread.                                                        *)

(* Packet, frames and converters are allocated; without a packet start()   *)
(* returns at once and the task goes on without a push thread.  The pull   *)
(* stream's context is read, which a disconnect takes away.                *)
PushPrepares ==
  /\ At("push", "prepare")
  /\ \/ /\ Goto("push", "loop") \/ Goto("push", "free") \/ Goto("push", "done")
        /\ UNCHANGED <<process, m_state, caller, queue, mutex, last, frame, frame_in,
                       decoded, freed, written, reconnecting, disconnected>>
     \/ pc["pull"] \in Draining \union {"connect", "pause", "done"} /\ End

(* Variant: the queue is not tested.                                       *)
PushTests_Not ==
  /\ At("push", "loop")
  /\ Goto("push", IF m_state THEN "lock" ELSE "free")
  /\ UNCHANGED <<process, m_state, caller, queue, mutex, last, frame, frame_in,
                 decoded, freed, written, reconnecting, disconnected>>

(* while (executor->getState()), empty() without the lock: what it says    *)
(* while the forwarder is inside push() is anything.                       *)
PushTests ==
  /\ At("push", "loop")
  /\ \/ ~m_state /\ Goto("push", "free")
     \/ /\ m_state
        /\ queue["push"] # <<>> \/ mutex["push"] = "forward"
        /\ Goto("push", "lock")
     \/ /\ m_state
        /\ queue["push"] = <<>> \/ mutex["push"] = "forward"
        /\ UNCHANGED pc
  /\ UNCHANGED <<process, m_state, caller, queue, mutex, last, frame, frame_in,
                 decoded, freed, written, reconnecting, disconnected>>

(* lock, front, pop, unlock.                                               *)
PushTakes ==
  /\ At("push", "lock") /\ mutex["push"] = "none"
  /\ \/ queue["push"] = <<>> /\ End
     \/ /\ queue["push"] # <<>>
        /\ frame_in' = Head(queue["push"])
        /\ queue' = [queue EXCEPT !["push"] = Tail(@)]
        /\ Goto("push", "encode")
        /\ UNCHANGED <<process, m_state, caller, mutex, last, frame, decoded, freed,
                       written, reconnecting, disconnected>>

(* Convert, send to the encoder, write the packets; an error leads to the  *)
(* label end.                                                              *)
PushEncodes ==
  /\ At("push", "encode")
  /\ \/ frame_in \in freed /\ End
     \/ /\ \/ written' = frame_in /\ Goto("push", "release")
           \/ UNCHANGED written /\ Goto("push", "free")
        /\ UNCHANGED <<process, m_state, caller, queue, mutex, last, frame, frame_in,
                       decoded, freed, reconnecting, disconnected>>

(* Variant: the frame is not freed after it has been encoded.              *)
PushReleases_Not ==
  /\ At("push", "release")
  /\ frame_in' = None
  /\ Goto("push", "loop")
  /\ UNCHANGED <<process, m_state, caller, queue, mutex, last, frame, decoded,
                 freed, written, reconnecting, disconnected>>

(* av_frame_free(&frame_in).                                               *)
PushReleases ==
  /\ At("push", "release")
  /\ \/ /\ Free({frame_in})
        /\ frame_in' = None
        /\ Goto("push", "loop")
        /\ UNCHANGED <<process, m_state, caller, queue, mutex, last, frame, decoded,
                       written, reconnecting, disconnected>>
     \/ DoubleFree({frame_in})

(* The label end.                                                          *)
PushFrees ==
  /\ At("push", "free")
  /\ \/ /\ Free({frame_in} \ {None})
        /\ frame_in' = None
        /\ Goto("push", "drain")
        /\ UNCHANGED <<process, m_state, caller, queue, mutex, last, frame, decoded,
                       written, reconnecting, disconnected>>
     \/ DoubleFree({frame_in} \ {None})

(* executor->pause(): if the task was still running the other two threads  *)
(* are joined first, then its own handle.                                  *)
PushPauses ==
  /\ At("push", "pause")
  /\ m_state' = FALSE
  /\ Goto("push", IF m_state THEN "join" ELSE "done")
  /\ UNCHANGED <<process, caller, queue, mutex, last, frame, frame_in, decoded,
                 freed, written, reconnecting, disconnected>>

PushJoins ==
  /\ At("push", "join")
  /\ At("pull", "done") /\ At("forward", "done")
  /\ End

---------------------------------------------------------------------------
(* The scheduler: pause() of a running task joins its threads; the         *)
(* destructors of the streams free what the queues still hold.  (A pause   *)
(* that finds the task stopped by a worker is in TaskExecutor.)            *)
CallerStops ==
  /\ caller = "idle" /\ m_state
  /\ m_state' = FALSE
  /\ caller' = "join"
  /\ UNCHANGED <<process, pc, queue, mutex, last, frame, frame_in, decoded, freed,
                 written, reconnecting, disconnected>>

CallerJoins ==
  /\ caller = "join"
  /\ \A t \in {"pull", "forward", "push"} : At(t, "done")
  /\ caller' = "joined"
  /\ UNCHANGED <<process, m_state, pc, queue, mutex, last, frame, frame_in, decoded,
                 freed, written, reconnecting, disconnected>>

CallerDestroys ==
  LET left == UNION {ToSet(queue[s]) : s \in Stream} IN
  /\ caller = "joined"
  /\ \/ /\ Free(left)
        /\ queue' = [s \in Stream |-> <<>>]
        /\ caller' = "destroyed"
        /\ UNCHANGED <<process, m_state, pc, mutex, last, frame, frame_in, decoded,
                       written, reconnecting, disconnected>>
     \/ DoubleFree(left)

---------------------------------------------------------------------------
Pull ==
  \/ PullReads \/ \E k \in Media : PullDecodes(k)
  \/ PullQueues \/ PullFrees \/ PullConnects \/ PullPauses \/ Drain("pull")

Forward == ForwardLocks \/ ForwardTakes \/ ForwardHands \/ ForwardAppends

Push ==
  \/ PushPrepares \/ PushTests \/ PushTakes \/ PushEncodes \/ PushReleases
  \/ PushFrees \/ PushPauses \/ PushJoins \/ Drain("push")

CallerStep == CallerStops \/ CallerJoins \/ CallerDestroys

Ended == (process = "ended" \/ caller = "destroyed") /\ UNCHANGED vars

Next == (process = "up" /\ (Pull \/ Forward \/ Push \/ CallerStep)) \/ Ended

Spec == Init /\ [][Next]_vars

(* The operating system runs the three threads and the calls they make     *)
(* return.                                                                 *)
PullAdvances == process = "up" /\ Pull
ForwardAdvances == process = "up" /\ Forward
PushAdvances == process = "up" /\ Push

Fairness == WF_vars(PullAdvances) /\ WF_vars(ForwardAdvances) /\ WF_vars(PushAdvances)

FairSpec == Spec /\ Fairness

---------------------------------------------------------------------------
(* Properties.                                                             *)

(* Where a frame can be that has not been freed.                           *)
Places == [pullQueue |-> ToSet(queue["pull"]), pushQueue |-> ToSet(queue["push"]),
           forwarder |-> {frame} \ {None}, encoder |-> {frame_in} \ {None},
           decoder |-> IF At("pull", "queue") THEN {decoded} ELSE {}]

Held == UNION {Places[p] : p \in DOMAIN Places}

(* Until the pull thread ends or reconnects, each frame decoded is in one  *)
(* place or has been freed: three threads hand it on through two queues,   *)
(* and no hand-over loses it or leaves it behind.  (The frame a drain has  *)
(* just freed is still in its queue.)                                      *)
Custody ==
  ~disconnected =>
    /\ Held \union freed = 1 .. decoded
    /\ Held \intersect freed =
         IF At("push", "pop") THEN {Head(queue["push"])} ELSE {}
    /\ \A p, q \in DOMAIN Places : p # q => Places[p] \intersect Places[q] = {}
    /\ \A s \in Stream : IsInjective(queue[s])

(* The test of empty() outside the lock does no harm: only the thread that *)
(* tests takes frames from that queue.                                     *)
FrontExists == At("push", "lock") /\ mutex["push"] = "none" => queue["push"] # <<>>

(* The frames on their way to the encoder.                                 *)
InTransit ==
  Places.pullQueue \union Places.pushQueue \union Places.forwarder
    \union Places.decoder \union (IF At("push", "encode") THEN {frame_in} ELSE {})

Channel == INSTANCE FrameChannel
             WITH sent <- decoded, transit <- InTransit, delivered <- written

(* The pipeline delivers frames in order and at most once, even while a    *)
(* reconnect races with the forwarder for the same queue.                  *)
ChannelSpec == Channel!Spec

(* A frame in the first queue reaches the encoder, unless the task or the  *)
(* push thread stops, or a reconnect throws it away.                       *)
Settled(f) ==
  \/ written >= f \/ ~m_state \/ process = "ended" \/ disconnected
  \/ pc["push"] \in {"free", "pause", "done"} \union Draining

FrameMoves(f) == (f \in ToSet(queue["pull"])) ~> Settled(f)
FramesMove == \A f \in Frame : FrameMoves(f)

---------------------------------------------------------------------------
(* What comments say and the code does not do.                             *)

(* stream.h:61 says that whoever gets a frame from the queue must free it. *)
(* Then the pull thread does not free, at its end, a frame it has queued.  *)
QueuedFrameIsGivenAway ==
  At("pull", "free") =>
    \A k \in Media : last[k] # None =>
      last[k] \notin freed \union ToSet(queue["pull"]) \union ToSet(queue["push"])
                       \union {frame, frame_in}

===========================================================================
