-------------------------- MODULE StreamConnection --------------------------
(***************************************************************************)
(* The connections of one running task: what PullStream and PushStream     *)
(* (Analyzer/src/stream.cpp) allocate when they connect and give back when *)
(* they disconnect, and the threads that use it meanwhile: the scheduler's *)
(* thread in TaskExecutor::start and ~TaskExecutor, the pull thread, which *)
(* reconnects by itself, and the push thread.  PushStream reads the open   *)
(* connection of the pull stream without a lock.                           *)
(*                                                                         *)
(* A stream is named by its index, 1 .. N here, and 0 stands for the       *)
(* index -1 of a medium the input does not have.  Frames and queues are in *)
(* FramePipeline, the thread handles in TaskExecutor.                      *)
(***************************************************************************)
EXTENDS Naturals

CONSTANTS
  N,            \* how many streams an input has
  Layouts,      \* what the streams of an input can be, by index
  ErrorLimit    \* read errors before a reconnect: 5 in the code

Media == {"video", "audio"}
Index == 1 .. N
Side == {"pull", "push"}
NoStreams == [i \in Index |-> "data"]     \* of a context that is not open

ASSUME NAssumption == N \in Nat
ASSUME LayoutsAssumption == Layouts \subseteq [Index -> Media \union {"data"}]
ASSUME ErrorLimitAssumption == ErrorLimit \in Nat

VARIABLES
  fault,       \* what has ended the process, "none" while it is up
  m_state,     \* TaskExecutor::m_state
  pc,          \* where each thread is
  conn,        \* where in connect() or disconnect() each stream is
  context,     \* m_formatContext; "empty" while its streams are not known
  stream_ctx,  \* the array of codec contexts; "short" if it has no elements
  codec_ctx,   \* the streams whose codec context is in that array
  next,        \* i of the loop over the streams
  streams,     \* the streams of the pull stream's context
  header,      \* the header of the output has been written
  lost,        \* the streams whose codec context was made and put nowhere
  config,      \* "videoIndex" and "audioIndex" of the task's configuration
  index,       \* video_stream_index and audio_stream_index of each thread
  packet,      \* packet->stream_index; 0 when there is no packet
  errors,      \* continuityErrorCount
  disturbed,   \* history: the pull thread has begun to disconnect
  partial      \* history: push connect() went on or returned true half-way

heap == <<context, stream_ctx, codec_ctx, header, lost>>
link == <<conn, heap, next, streams, config, partial>>
threads == <<m_state, pc, index, packet, errors, disturbed>>
vars == <<fault, link, threads>>

StarterPC == {"connect_pull", "launch", "record", "connect_push", "launch_push",
              "started", "stop", "join", "destroy_pull", "destroy_push", "destroyed"}
PullPC == {"none", "prepare", "read", "decode", "reconnect", "end", "done"}
PushPC == {"none", "video", "audio", "prepare", "loop", "end", "join", "done"}
ConnPC == {"out", "release", "close", "open", "info", "array", "codecs", "audio",
           "up", "failed"}

TypeOK ==
  /\ fault \in {"none", "thread", "null", "freed", "twice", "header"}
  /\ m_state \in BOOLEAN
  /\ pc \in [starter : StarterPC, pull : PullPC, push : PushPC]
  /\ conn \in [Side -> ConnPC]
  /\ context \in [Side -> {"null", "empty", "open"}]
  /\ stream_ctx \in [Side -> {"null", "live", "short", "freed"}]
  /\ codec_ctx \in [Side -> SUBSET Index]
  /\ next \in [Side -> 1 .. N + 1]
  /\ streams \in Layouts \union {NoStreams}
  /\ header \in BOOLEAN
  /\ lost \in [Side -> SUBSET Index]
  /\ config \in [Media -> 0 .. N]
  /\ index \in [Side -> [Media -> 0 .. N]]
  /\ packet \in 0 .. N
  /\ errors \in 0 .. ErrorLimit + 1
  /\ disturbed \in BOOLEAN
  /\ partial \in BOOLEAN

(* TaskExecutor::start has made the pull stream and calls its connect().   *)
Init ==
  /\ fault = "none"
  /\ m_state = TRUE
  /\ pc = [starter |-> "connect_pull", pull |-> "none", push |-> "none"]
  /\ conn = [pull |-> "release", push |-> "out"]
  /\ context = [s \in Side |-> "null"]
  /\ stream_ctx = [s \in Side |-> "null"]
  /\ codec_ctx = [s \in Side |-> {}]
  /\ next = [s \in Side |-> 1]
  /\ streams = NoStreams
  /\ header = FALSE
  /\ lost = [s \in Side |-> {}]
  /\ config = [k \in Media |-> 0]
  /\ index = [s \in Side |-> [k \in Media |-> 0]]
  /\ packet = 0
  /\ errors = 0
  /\ disturbed = FALSE
  /\ partial = FALSE

---------------------------------------------------------------------------
(* Parts of steps.                                                         *)

Goto(t, label) == pc' = [pc EXCEPT ![t] = label]
ConnGoto(s, label) == conn' = [conn EXCEPT ![s] = label]

(* A fault, or an exception that nobody catches, ends the process.         *)
Fault(kind) == fault' = kind /\ UNCHANGED <<link, threads>>

(* A step inside connect() or disconnect(): the threads stay where they    *)
(* are.                                                                    *)
Inside == UNCHANGED <<fault, threads>>

(* The call under way is connect(), not the last disconnect().             *)
Connecting(s) ==
  IF s = "pull" THEN pc.starter = "connect_pull" \/ pc.pull = "reconnect"
                ELSE pc.starter = "connect_push"

---------------------------------------------------------------------------
(* disconnect(), of either stream.  (reconnect() calls it once more before *)
(* connect() does; the second call finds no context and does nothing.)     *)

(* Variant: the array is not freed.                                        *)
Releases_Not(s) ==
  /\ conn[s] = "release"
  /\ ConnGoto(s, "close")
  /\ UNCHANGED <<heap, next, streams, config, partial>> /\ Inside

(* The codec contexts and the array are freed, the pointer keeps its value.*)
Releases(s) ==
  LET allocated == context[s] # "null" /\ stream_ctx[s] # "null" IN
  /\ conn[s] = "release"
  /\ \/ allocated /\ stream_ctx[s] = "freed" /\ Fault("twice")
     \/ /\ ~(allocated /\ stream_ctx[s] = "freed")
        /\ stream_ctx' = [stream_ctx EXCEPT ![s] = IF allocated THEN "freed" ELSE @]
        /\ codec_ctx' = [codec_ctx EXCEPT ![s] = IF allocated THEN {} ELSE @]
        /\ ConnGoto(s, "close")
        /\ UNCHANGED <<context, header, lost, next, streams, config, partial>>
        /\ Inside

(* The context is closed and its pointer set to null; an output gets its   *)
(* trailer first, for which FFmpeg wants a header.                         *)
Closes(s) ==
  /\ conn[s] = "close"
  /\ \/ /\ context' = [context EXCEPT ![s] = "null"]
        /\ header' = (header /\ s # "push")
        /\ streams' = IF s = "pull" THEN NoStreams ELSE streams
        /\ ConnGoto(s, IF Connecting(s) THEN "open" ELSE "out")
        /\ UNCHANGED <<stream_ctx, codec_ctx, lost, next, config, partial>> /\ Inside
     \/ s = "push" /\ context[s] # "null" /\ ~header /\ Fault("header")

---------------------------------------------------------------------------
(* PullStream::connect, after its disconnect().                            *)

(* avformat_alloc_context, avformat_open_input: the latter frees the       *)
(* context when it fails.                                                  *)
PullOpens ==
  /\ conn["pull"] = "open"
  /\ \/ /\ context' = [context EXCEPT !["pull"] = "empty"]
        /\ ConnGoto("pull", "info")
     \/ ConnGoto("pull", "failed") /\ UNCHANGED context
  /\ UNCHANGED <<stream_ctx, codec_ctx, header, lost, next, streams, config, partial>>
  /\ Inside

(* avformat_find_stream_info.                                              *)
PullFindsStreams ==
  /\ conn["pull"] = "info"
  /\ \/ /\ context' = [context EXCEPT !["pull"] = "open"]
        /\ streams' \in Layouts
        /\ ConnGoto("pull", "array")
     \/ ConnGoto("pull", "failed") /\ UNCHANGED <<context, streams>>
  /\ UNCHANGED <<stream_ctx, codec_ctx, header, lost, next, config, partial>> /\ Inside

(* av_calloc of the array.                                                 *)
PullAllocates ==
  /\ conn["pull"] = "array"
  /\ \/ /\ stream_ctx' = [stream_ctx EXCEPT !["pull"] = "live"]
        /\ ConnGoto("pull", "codecs")
     \/ /\ stream_ctx' = [stream_ctx EXCEPT !["pull"] = "null"]
        /\ ConnGoto("pull", "failed")
  /\ next' = [next EXCEPT !["pull"] = 1]
  /\ UNCHANGED <<context, codec_ctx, header, lost, streams, config, partial>> /\ Inside

(* What avcodec_alloc_context3 made for the stream at hand reaches the     *)
(* array with the end of the round only; a return before that loses it.    *)
Loses(s) == lost' = [lost EXCEPT ![s] = @ \union {next[s]}]

(* Variant: a stream whose decoder cannot be opened is left out.           *)
PullOpensDecoder_Skips ==
  LET i == next["pull"] IN
  /\ conn["pull"] = "codecs" /\ i <= N
  /\ \/ /\ streams[i] \in Media
        /\ codec_ctx' = [codec_ctx EXCEPT !["pull"] = @ \union {i}]
     \/ UNCHANGED codec_ctx
  /\ next' = [next EXCEPT !["pull"] = i + 1]
  /\ UNCHANGED <<context, stream_ctx, header, lost, streams, conn, config, partial>>
  /\ Inside

(* Variant: a decoder that cannot be opened begins the loop anew.          *)
PullOpensDecoder_Anew ==
  LET i == next["pull"] IN
  /\ conn["pull"] = "codecs" /\ i <= N
  /\ \/ /\ codec_ctx' = [codec_ctx EXCEPT !["pull"] =
                           IF streams[i] \in Media THEN @ \union {i} ELSE @]
        /\ next' = [next EXCEPT !["pull"] = i + 1]
     \/ /\ streams[i] \in Media
        /\ next' = [next EXCEPT !["pull"] = 1]
        /\ UNCHANGED codec_ctx
  /\ UNCHANGED <<conn, context, stream_ctx, header, lost, streams, config, partial>>
  /\ Inside

(* The loop over the streams: find, allocate, fill and open a decoder for  *)
(* each video and audio stream; a failure ends connect() and leaves what   *)
(* is in the array to the next disconnect(), but not what is not in it yet.*)
PullOpensDecoder ==
  LET i == next["pull"] IN
  /\ conn["pull"] = "codecs" /\ i <= N
  /\ \/ /\ codec_ctx' = [codec_ctx EXCEPT !["pull"] =
                           IF streams[i] \in Media THEN @ \union {i} ELSE @]
        /\ next' = [next EXCEPT !["pull"] = i + 1]
        /\ UNCHANGED <<conn, lost>>
     \/ /\ streams[i] \in Media
        /\ ConnGoto("pull", "failed")
        /\ UNCHANGED lost \/ Loses("pull")
        /\ UNCHANGED <<codec_ctx, next>>
  /\ UNCHANGED <<context, stream_ctx, header, streams, config, partial>> /\ Inside

(* av_find_best_stream; then each index is stored in the configuration     *)
(* under a lock of its own.                                                *)
Found(k) == {i \in Index : streams[i] = k}
Best(k) == IF Found(k) = {} THEN {0} ELSE Found(k)

PullSetsVideo ==
  /\ conn["pull"] = "codecs" /\ next["pull"] > N
  /\ \/ /\ Found("video") \union Found("audio") # {}
        /\ \E i \in Best("video") : config' = [config EXCEPT !["video"] = i]
        /\ ConnGoto("pull", "audio")
     \/ /\ Found("video") \union Found("audio") = {}
        /\ ConnGoto("pull", "failed")
        /\ UNCHANGED config
  /\ UNCHANGED <<heap, next, streams, partial>> /\ Inside

PullSetsAudio ==
  /\ conn["pull"] = "audio"
  /\ \E i \in Best("audio") : config' = [config EXCEPT !["audio"] = i]
  /\ ConnGoto("pull", "up")
  /\ UNCHANGED <<heap, next, streams, partial>> /\ Inside

---------------------------------------------------------------------------
(* PushStream::connect, after its disconnect().                            *)

(* avformat_alloc_output_context2.                                         *)
PushOpens ==
  /\ conn["push"] = "open"
  /\ \/ context' = [context EXCEPT !["push"] = "open"] /\ ConnGoto("push", "array")
     \/ ConnGoto("push", "failed") /\ UNCHANGED context
  /\ UNCHANGED <<stream_ctx, codec_ctx, header, lost, next, streams, config, partial>>
  /\ Inside

(* av_calloc of as many elements as the pull stream's context has streams, *)
(* without a test of the result.                                           *)
PushAllocates ==
  /\ conn["push"] = "array"
  /\ \/ /\ context["pull"] # "null"
        /\ \E a \in {"null", IF context["pull"] = "open" THEN "live" ELSE "short"} :
             /\ stream_ctx' = [stream_ctx EXCEPT !["push"] = a]
             /\ partial' = (a # "live")
        /\ next' = [next EXCEPT !["push"] = 1]
        /\ ConnGoto("push", "codecs")
        /\ UNCHANGED <<context, codec_ctx, header, lost, streams, config>> /\ Inside
     \/ context["pull"] = "null" /\ Fault("null")

(* Variant: a stream whose encoder cannot be opened is left out.           *)
PushOpensEncoder_Skips ==
  LET i == next["push"] IN
  /\ conn["push"] = "codecs" /\ context["pull"] = "open" /\ i <= N
  /\ stream_ctx["pull"] = "live" /\ stream_ctx["push"] # "null"
  /\ \/ codec_ctx' = [codec_ctx EXCEPT !["push"] = @ \union {i}]
     \/ UNCHANGED codec_ctx
  /\ next' = [next EXCEPT !["push"] = i + 1]
  /\ UNCHANGED <<context, stream_ctx, header, lost, streams, conn, config, partial>>
  /\ Inside

(* One round of the loop over the pull stream's streams: an encoder for    *)
(* each decoder.  "return ret" for a channel layout that cannot be copied  *)
(* is a true result, and loses the encoder as other failures do.           *)
PushOpensEncoder ==
  LET i == next["push"] IN
  /\ conn["push"] = "codecs" /\ context["pull"] = "open" /\ i <= N
  /\ stream_ctx["pull"] # "null"
  /\ \/ streams[i] \in Media => i \in codec_ctx["pull"]
     \/ stream_ctx["pull"] = "freed"
  /\ \/ /\ stream_ctx["push"] # "null"
        /\ codec_ctx' = [codec_ctx EXCEPT !["push"] =
                           IF streams[i] \in Media THEN @ \union {i} ELSE @]
        /\ next' = [next EXCEPT !["push"] = i + 1]
        /\ UNCHANGED <<conn, lost, partial>>
     \/ /\ ConnGoto("push", "failed")
        /\ UNCHANGED lost \/ (streams[i] \in Media /\ Loses("push"))
        /\ UNCHANGED <<codec_ctx, next, partial>>
     \/ /\ streams[i] = "audio"
        /\ partial' = TRUE
        /\ ConnGoto("push", "up")
        /\ Loses("push")
        /\ UNCHANGED <<codec_ctx, next>>
  /\ UNCHANGED <<context, stream_ctx, header, streams, config>> /\ Inside

(* The pull stream's context, its array or a decoder is not there, or the  *)
(* new array has no room.                                                  *)
PushConnectFaults ==
  LET i == next["push"] IN
  /\ conn["push"] = "codecs"
  /\ \/ context["pull"] = "null" /\ Fault("null")
     \/ /\ context["pull"] = "open" /\ i <= N
        /\ \/ stream_ctx["pull"] = "freed" /\ Fault("freed")
           \/ stream_ctx["pull"] = "null" /\ Fault("null")
           \/ /\ stream_ctx["pull"] = "live"
              /\ streams[i] \in Media /\ i \notin codec_ctx["pull"]
              /\ Fault("null")
           \/ stream_ctx["push"] # "live" /\ Fault("null")

(* Variant: the result of avformat_write_header is not looked at.          *)
PushWritesHeader_Anyway ==
  /\ conn["push"] = "codecs"
  /\ context["pull"] = "empty" \/ (context["pull"] = "open" /\ next["push"] > N)
  /\ header' \in {header, TRUE}
  /\ ConnGoto("push", "up")
  /\ UNCHANGED <<context, stream_ctx, codec_ctx, lost, next, streams, config, partial>>
  /\ Inside

(* avio_open and avformat_write_header.                                    *)
PushWritesHeader ==
  /\ conn["push"] = "codecs"
  /\ context["pull"] = "empty" \/ (context["pull"] = "open" /\ next["push"] > N)
  /\ \/ header' = TRUE /\ ConnGoto("push", "up")
     \/ UNCHANGED header /\ ConnGoto("push", "failed")
  /\ UNCHANGED <<context, stream_ctx, codec_ctx, lost, next, streams, config, partial>>
  /\ Inside

PullConnection ==
  \/ Releases("pull") \/ Closes("pull") \/ PullOpens \/ PullFindsStreams
  \/ PullAllocates \/ PullOpensDecoder \/ PullSetsVideo \/ PullSetsAudio

PushConnection ==
  \/ Releases("push") \/ Closes("push") \/ PushOpens \/ PushAllocates
  \/ PushOpensEncoder \/ PushConnectFaults \/ PushWritesHeader

---------------------------------------------------------------------------
(* The scheduler's thread: TaskExecutor::start, and a pause or a removal   *)
(* of the task that ends in ~TaskExecutor.                                 *)

Standing == UNCHANGED <<fault, link, m_state, index, packet, errors, disturbed>>

(* connect() of the stream returns; false makes start() return false.      *)
StarterConnected(s, at, onward) ==
  /\ pc.starter = at
  /\ conn[s] \in {"up", "failed"}
  /\ ConnGoto(s, "out")
  /\ Goto("starter", IF conn[s] = "up" THEN onward ELSE "stop")
  /\ UNCHANGED <<fault, heap, next, streams, config, partial, m_state, index,
                 packet, errors, disturbed>>

(* The thread of PullStream::start is launched, ...                        *)
StarterLaunchesPull ==
  /\ pc.starter = "launch"
  /\ pc' = [pc EXCEPT !.starter = "record", !.pull = "prepare"]
  /\ Standing

(* ... its handle recorded, the forwarder launched, the push stream made.  *)
StarterRecords ==
  /\ pc.starter = "record"
  /\ Goto("starter", "connect_push")
  /\ ConnGoto("push", "release")
  /\ UNCHANGED <<fault, heap, next, streams, config, partial, m_state, index,
                 packet, errors, disturbed>>

StarterLaunchesPush ==
  /\ pc.starter = "launch_push"
  /\ pc' = [pc EXCEPT !.starter = "started", !.push = "video"]
  /\ Standing

(* pause(): m_state is cleared and the threads are joined.  If a worker    *)
(* has cleared it the handles are destroyed unjoined, which terminates.    *)
StarterStops ==
  /\ pc.starter \in {"started", "stop"}
  /\ \/ /\ m_state
        /\ m_state' = FALSE
        /\ Goto("starter", "join")
        /\ UNCHANGED <<fault, link, index, packet, errors, disturbed>>
     \/ ~m_state /\ Fault("thread")

(* The rest of ~TaskExecutor: ~PullStream, then ~PushStream.               *)
StarterJoins ==
  /\ pc.starter = "join"
  /\ pc.pull \in {"none", "done"} /\ pc.push \in {"none", "done"}
  /\ Goto("starter", "destroy_pull")
  /\ ConnGoto("pull", "release")
  /\ UNCHANGED <<fault, heap, next, streams, config, partial, m_state, index,
                 packet, errors, disturbed>>

StarterDestroys ==
  /\ pc.starter = "destroy_pull" /\ conn["pull"] = "out"
  /\ Goto("starter", "destroy_push")
  /\ ConnGoto("push", "release")
  /\ UNCHANGED <<fault, heap, next, streams, config, partial, m_state, index,
                 packet, errors, disturbed>>

StarterFinishes ==
  /\ pc.starter = "destroy_push" /\ conn["push"] = "out"
  /\ Goto("starter", "destroyed")
  /\ Standing

---------------------------------------------------------------------------
(* PullStream::start.                                                      *)

(* The label end: disconnect().                                            *)
PullLeaves ==
  /\ Goto("pull", "end")
  /\ ConnGoto("pull", "release")
  /\ disturbed' = TRUE

(* The indices are read from the configuration, once; packet, frames and   *)
(* converters are allocated.                                               *)
PullPrepares ==
  /\ pc.pull = "prepare"
  /\ index' = [index EXCEPT !["pull"] = config]
  /\ \/ Goto("pull", "read") /\ UNCHANGED <<conn, disturbed>>
     \/ PullLeaves
  /\ UNCHANGED <<fault, heap, next, streams, config, partial, m_state, packet, errors>>

(* Variant: the loop does not look at getState().                          *)
PullReads_Always ==
  /\ pc.pull = "read"
  /\ packet' \in Index
  /\ Goto("pull", "decode")
  /\ UNCHANGED <<fault, link, m_state, index, errors, disturbed>>

(* while (executor->getState()), av_read_frame: a packet.                  *)
PullReads ==
  /\ pc.pull = "read" /\ m_state
  /\ packet' \in Index
  /\ Goto("pull", "decode")
  /\ UNCHANGED <<fault, link, m_state, index, errors, disturbed>>

(* av_read_frame: an error; one too many starts a reconnect.  Only a       *)
(* reconnect resets the count.                                             *)
PullReadFails ==
  /\ pc.pull = "read" /\ m_state
  /\ errors' = errors + 1
  /\ \/ errors' <= ErrorLimit /\ UNCHANGED <<pc, conn, disturbed>>
     \/ /\ errors' > ErrorLimit
        /\ Goto("pull", "reconnect")
        /\ ConnGoto("pull", "release")
        /\ disturbed' = TRUE
  /\ UNCHANGED <<fault, heap, next, streams, config, partial, m_state, index, packet>>

(* Variant: the count goes on after a reconnect.                           *)
PullReconnects_Counts ==
  /\ pc.pull = "reconnect"
  /\ \/ /\ conn["pull"] = "up"
        /\ Goto("pull", "read") /\ ConnGoto("pull", "out")
        /\ UNCHANGED <<errors, disturbed>>
     \/ conn["pull"] = "failed" /\ PullLeaves /\ UNCHANGED errors
  /\ UNCHANGED <<fault, heap, next, streams, config, partial, m_state, index, packet>>

(* Variant: a reconnect that fails is tried again.                         *)
PullReconnects_Retries ==
  /\ pc.pull = "reconnect"
  /\ \/ /\ conn["pull"] = "up"
        /\ Goto("pull", "read") /\ ConnGoto("pull", "out")
        /\ errors' = 0 /\ UNCHANGED disturbed
     \/ /\ conn["pull"] = "failed" /\ ConnGoto("pull", "release")
        /\ UNCHANGED <<pc, errors, disturbed>>
  /\ UNCHANGED <<fault, heap, next, streams, config, partial, m_state, index, packet>>

(* Variant: the result of reconnect() is not looked at.                    *)
PullReconnects_Anyway ==
  /\ pc.pull = "reconnect"
  /\ conn["pull"] \in {"up", "failed"}
  /\ Goto("pull", "read") /\ ConnGoto("pull", "out")
  /\ errors' = 0 /\ UNCHANGED disturbed
  /\ UNCHANGED <<fault, heap, next, streams, config, partial, m_state, index, packet>>

(* reconnect() returns.                                                    *)
PullReconnects ==
  /\ pc.pull = "reconnect"
  /\ \/ /\ conn["pull"] = "up"
        /\ Goto("pull", "read") /\ ConnGoto("pull", "out")
        /\ errors' = 0 /\ UNCHANGED disturbed
     \/ conn["pull"] = "failed" /\ PullLeaves /\ UNCHANGED errors
  /\ UNCHANGED <<fault, heap, next, streams, config, partial, m_state, index, packet>>

(* A packet of the video or of the audio stream goes to the codec context  *)
(* at that index; a decoder error leads to the label end.                  *)
Wanted(s, i) == \E k \in Media : index[s][k] = i

PullDecodes ==
  /\ pc.pull = "decode"
  /\ \/ /\ Wanted("pull", packet) => packet \in codec_ctx["pull"]
        /\ \/ Goto("pull", "read") /\ UNCHANGED <<conn, disturbed>>
           \/ Wanted("pull", packet) /\ PullLeaves
        /\ packet' = 0
        /\ UNCHANGED <<fault, heap, next, streams, config, partial, m_state, index,
                       errors>>
     \/ Wanted("pull", packet) /\ packet \notin codec_ctx["pull"] /\ Fault("null")

(* while (executor->getState()) ends.                                      *)
PullEnds ==
  /\ pc.pull = "read" /\ ~m_state
  /\ PullLeaves
  /\ UNCHANGED <<fault, heap, next, streams, config, partial, m_state, index, packet,
                 errors>>

(* Variant: pause() joins the push thread although m_state is clear.       *)
PullPauses_Joins ==
  /\ pc.pull = "end" /\ conn["pull"] = "out"
  /\ \/ /\ ~m_state /\ pc.push \in {"none", "done"}
        /\ Goto("pull", "done")
        /\ UNCHANGED <<fault, link, m_state, index, packet, errors, disturbed>>
     \/ m_state /\ Fault("thread")

(* executor->pause(): on a running task it joins this very thread, if its  *)
(* handle has been recorded.                                               *)
PullPauses ==
  /\ pc.pull = "end" /\ conn["pull"] = "out"
  /\ \/ /\ ~m_state \/ pc.starter = "record"
        /\ m_state' = FALSE
        /\ Goto("pull", "done")
        /\ UNCHANGED <<fault, link, index, packet, errors, disturbed>>
     \/ m_state /\ Fault("thread")

---------------------------------------------------------------------------
(* PushStream::start.                                                      *)

PushLeaves == Goto("push", "end") /\ ConnGoto("push", "release")

(* The indices are read from the configuration one after the other; a      *)
(* packet that cannot be allocated ends start() at once.                   *)
PushReadsIndex(k, onward) ==
  /\ pc.push = k
  /\ index' = [index EXCEPT !["push"][k] = config[k]]
  /\ Goto("push", onward)
  /\ UNCHANGED <<fault, link, m_state, packet, errors, disturbed>>

(* Frames and converters, of the sizes in the pull stream's context.       *)
PushPrepares ==
  LET reads == \E k \in Media : index["push"][k] # 0 IN
  /\ pc.push = "prepare"
  /\ \/ /\ reads => context["pull"] = "open"
        /\ \/ Goto("push", "loop") /\ UNCHANGED conn
           \/ Goto("push", "done") /\ UNCHANGED conn
           \/ PushLeaves
        /\ UNCHANGED <<fault, heap, next, streams, config, partial, m_state, index,
                       packet, errors, disturbed>>
     \/ reads /\ context["pull"] # "open" /\ Fault("null")

(* A frame of the pull thread's stream i is encoded and written; an error  *)
(* leads to the label end.                                                 *)
PushEncodes(i) ==
  /\ pc.push = "loop" /\ m_state
  /\ Wanted("pull", i) /\ Wanted("push", i)
  /\ \/ /\ i \in codec_ctx["push"]
        /\ \/ UNCHANGED <<pc, conn>>
           \/ PushLeaves
        /\ UNCHANGED <<fault, heap, next, streams, config, partial, m_state, index,
                       packet, errors, disturbed>>
     \/ i \notin codec_ctx["push"] /\ Fault("null")
     \/ ~header /\ Fault("header")

PushEnds ==
  /\ pc.push = "loop" /\ ~m_state
  /\ PushLeaves
  /\ UNCHANGED <<fault, heap, next, streams, config, partial, m_state, index, packet,
                 errors, disturbed>>

(* executor->pause(): on a running task the other threads are joined, then *)
(* this very thread.                                                       *)
PushPauses ==
  /\ pc.push = "end" /\ conn["push"] = "out"
  /\ m_state' = FALSE
  /\ Goto("push", IF m_state THEN "join" ELSE "done")
  /\ UNCHANGED <<fault, link, index, packet, errors, disturbed>>

PushJoins == pc.push = "join" /\ pc.pull = "done" /\ Fault("thread")

---------------------------------------------------------------------------
Starter ==
  \/ StarterConnected("pull", "connect_pull", "launch")
  \/ StarterConnected("push", "connect_push", "launch_push")
  \/ StarterLaunchesPull \/ StarterRecords \/ StarterLaunchesPush
  \/ StarterJoins \/ StarterDestroys \/ StarterFinishes

Pull ==
  \/ PullPrepares \/ PullReads \/ PullReadFails \/ PullReconnects \/ PullDecodes
  \/ PullEnds \/ PullPauses

Push ==
  \/ PushReadsIndex("video", "audio") \/ PushReadsIndex("audio", "prepare")
  \/ PushPrepares \/ (\E i \in Index : PushEncodes(i)) \/ PushEnds
  \/ PushPauses \/ PushJoins

Ended == (fault # "none" \/ pc.starter = "destroyed") /\ UNCHANGED vars

Next ==
  \/ /\ fault = "none"
     /\ \/ PullConnection \/ PushConnection
        \/ Starter \/ StarterStops \/ Pull \/ Push
  \/ Ended

Spec == Init /\ [][Next]_vars

(* The operating system runs the threads, and the calls they make into     *)
(* FFmpeg return.  A running task need not be stopped, and av_read_frame   *)
(* may fail every time.                                                    *)
PullMoves == fault = "none" /\ (PullConnection \/ Pull)
PushCalls == fault = "none" /\ PushConnection
PushMoves == fault = "none" /\ Push
StarterMoves == fault = "none" /\ Starter

Fairness ==
  WF_vars(PullMoves) /\ WF_vars(PushCalls) /\ WF_vars(PushMoves) /\ WF_vars(StarterMoves)

FairSpec == Spec /\ Fairness

---------------------------------------------------------------------------
(* Properties.                                                             *)

(* No connection follows on this stream: connect() has failed or returned  *)
(* half-way, and the threads and the starter only go on to their ends.     *)
Unstarted(t) ==
  /\ pc[t] = "none"
  /\ pc.starter \in {"stop", "join", "destroy_pull", "destroy_push", "destroyed"}
GivenUp(s) ==
  \/ conn[s] = "failed"
  \/ s = "pull" /\ (pc.pull \in {"end", "done"} \/ Unstarted("pull"))
  \/ s = "push" /\ (partial \/ Unstarted("push"))

(* What connect() allocates is given back, save the codec context of the   *)
(* one stream at which it gives up (stream.cpp:89-113, 519-574), which is  *)
(* in no array and never freed.  An array that has not been freed belongs  *)
(* to a context that has not been closed, since disconnect() skips the     *)
(* array when there is no context; the codec contexts in the array go with *)
(* it, and all of that is gone when the task is destroyed.  The loss       *)
(* happens once for each of the task's two streams, however many           *)
(* reconnects there have been: the connect() that loses is the last.       *)
Owned ==
  /\ \A s \in Side :
       /\ stream_ctx[s] \in {"live", "short"} => context[s] # "null"
       /\ codec_ctx[s] # {} => stream_ctx[s] \in {"live", "short"}
       /\ lost[s] # {} => lost[s] = {next[s]} /\ GivenUp(s)
  /\ pc.starter = "destroyed" =>
       \A s \in Side : context[s] = "null" /\ stream_ctx[s] \in {"null", "freed"}

(* What the three threads share without a lock is only in danger once the  *)
(* pull thread has begun to disconnect, or when a half-way result of       *)
(* PushStream::connect was taken for a connection: until then no missing   *)
(* or freed context is used and nothing is freed twice.                    *)
SafeUndisturbed ==
  fault \in {"null", "freed", "twice"} => disturbed \/ partial

(* Packets and the trailer follow the header: the running push stream and  *)
(* its own disconnect() find it written, also when a stop or the failure   *)
(* of the pull stream comes at once.  Only the destructor of a push stream *)
(* whose connect() failed writes a trailer to an output without a header.  *)
HeaderFirst ==
  fault = "header" => partial \/ (pc.starter = "destroy_push" /\ pc.push = "none")

(* Until the pull thread disconnects, the threads agree with the           *)
(* connection: the indices the two loops work with name streams of that    *)
(* medium, each with a decoder on the one side and an encoder on the other.*)
ThreadsAgree ==
  /\ ~disturbed /\ ~partial /\ fault = "none"
  /\ pc.pull \in {"read", "decode"} /\ pc.push = "loop"
  => /\ index["pull"] = index["push"]
     /\ \A k \in Media : LET i == index["push"][k] IN
          i # 0 => streams[i] = k /\ \A s \in Side : i \in codec_ctx[s]

(* The pull thread reaches its decoder only with a connection that is      *)
(* complete, whatever the number of reconnects and however they ended: the *)
(* packet's stream has an open decoder.                                    *)
DecoderOpen ==
  pc.pull = "decode" /\ streams[packet] \in Media => packet \in codec_ctx["pull"]

(* A source that stays away does not keep the pull thread busy: it goes on *)
(* for ever only if packets or connections keep coming; else the errors    *)
(* add up, a reconnect fails, and the thread ends.                         *)
SourceLost ==
  \/ []<>(pc.pull = "decode") \/ []<>(conn["pull"] = "up")
  \/ <>[](fault # "none" \/ pc.pull \in {"none", "done"})

(* connect() and disconnect() return, or the process ends.                 *)
Settled == {"out", "up", "failed"}

Returns(s) == (conn[s] \notin Settled) ~> (conn[s] \in Settled \/ fault # "none")
CallsReturn == Returns("pull") /\ Returns("push")

(* What a thread may have to wait for: the return of connect() or          *)
(* disconnect(), a frame, the pull thread in a pause() by the push thread; *)
(* the starter, a request to stop, and in pause() the two threads.         *)
PullHeldUp == pc.pull \in {"none", "done"} /\ conn["pull"] \in Settled
PushHeldUp ==
  \/ pc.push \in {"none", "done"}
  \/ pc.push = "end" /\ conn["push"] # "out"
  \/ pc.push = "loop" /\ m_state
  \/ pc.push = "join" /\ pc.pull # "done"
StarterHeldUp ==
  \/ pc.starter \in {"started", "stop", "destroyed"}
  \/ pc.starter \in {"connect_pull", "destroy_pull"} /\ conn["pull"] \notin Settled
  \/ pc.starter \in {"connect_push", "destroy_push"} /\ conn["push"] \notin Settled
  \/ /\ pc.starter = "join"
     /\ pc.pull \notin {"none", "done"} \/ pc.push \notin {"none", "done"}

(* And for nothing else: the pull thread in a reconnect or at its end, the *)
(* push thread at its end and the starter in the destructor are not held   *)
(* up by one another, whatever the connection looks like.                  *)
NoThreadStuck ==
  fault = "none" =>
    /\ PullHeldUp \/ ENABLED <<PullMoves>>_vars
    /\ conn["push"] \in Settled \/ ENABLED <<PushCalls>>_vars
    /\ PushHeldUp \/ ENABLED <<PushMoves>>_vars
    /\ StarterHeldUp \/ ENABLED <<StarterMoves>>_vars

(* A pause or a removal that waits for the threads does end, with the task *)
(* destroyed, even when it meets a reconnect.                              *)
StopCompletes ==
  pc.starter = "join" ~> (pc.starter = "destroyed" \/ fault # "none")

(* stream.cpp:38: connect() "disconnects the existing connection first",   *)
(* reconnect() twice, and the destructors once more: each connection is    *)
(* given back once.                                                        *)
NothingReleasedTwice == fault # "twice"

=============================================================================
