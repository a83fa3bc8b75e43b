----------------------- MODULE StreamConnectionProofs -----------------------
(***************************************************************************)
(* Proofs about StreamConnection, for any number of streams, any layouts   *)
(* and any number of read errors before a reconnect.                       *)
(***************************************************************************)
EXTENDS StreamConnection, TLAPS

MediaBelow(n, f) == {i \in Index : i < n /\ f[i] \in Media}
AllMedia(f) == {i \in Index : f[i] \in Media}
NoIndex == [k \in Media |-> 0]

(* Which threads there are at each stage of the starter.                   *)
Stages ==
  /\ pc.starter \in {"connect_pull", "launch"} => pc.pull = "none"
  /\ pc.starter \in {"connect_pull", "launch", "record", "connect_push", "launch_push"}
       => pc.push = "none"
  /\ pc.starter \in {"record", "connect_push", "launch_push", "started"}
     \/ pc.push # "none" => pc.pull # "none"
  /\ pc.starter \in {"destroy_pull", "destroy_push", "destroyed"}
       => pc.pull \in {"none", "done"} /\ pc.push \in {"none", "done"}
  /\ pc.pull \in {"reconnect", "end", "done"} => disturbed

(* Only one thread at a time is inside a stream's connect() or disconnect().*)
Inner ==
  /\ conn["pull"] # "out" =>
       pc.starter \in {"connect_pull", "destroy_pull"} \/ pc.pull \in {"reconnect", "end"}
  /\ pc.starter = "connect_pull" \/ pc.pull = "reconnect" => conn["pull"] # "out"
  /\ pc.starter = "destroy_pull" \/ pc.pull = "end" =>
       conn["pull"] \in {"release", "close", "out"}
  /\ conn["push"] # "out" =>
       pc.starter \in {"connect_push", "destroy_push"} \/ pc.push = "end"
  /\ pc.starter = "connect_push" => conn["push"] # "out"
  /\ pc.starter = "destroy_push" \/ pc.push = "end" =>
       conn["push"] \in {"release", "close", "out"}

(* Only reads that fail bring a reconnect nearer.                          *)
ErrorsCounted ==
  pc.pull \in {"none", "prepare", "read", "decode"} => errors <= ErrorLimit

Where == Stages /\ Inner

Control == TypeOK /\ Where /\ ErrorsCounted

(* The memory of a stream at each point of its connect() and disconnect(). *)
Memory(s) ==
  /\ stream_ctx[s] \in {"live", "short"} => context[s] # "null"
  /\ codec_ctx[s] # {} => stream_ctx[s] \in {"live", "short"}
  /\ conn[s] \in {"close", "open", "info", "array"} => stream_ctx[s] \in {"null", "freed"}
  /\ conn[s] = "open" => context[s] = "null"
  /\ conn[s] \in {"array", "codecs", "audio"} => context[s] = "open"
  /\ conn[s] = "codecs" => stream_ctx[s] # "freed" /\ (s = "pull" => stream_ctx[s] = "live")

(* What has been destroyed.                                                *)
Destroyed ==
  /\ pc.starter = "destroy_pull" /\ conn["pull"] = "out" => context["pull"] = "null"
  /\ pc.starter \in {"destroy_push", "destroyed"} => context["pull"] = "null"
  /\ pc.starter = "destroy_push" /\ conn["push"] = "out" => context["push"] = "null"
  /\ pc.starter = "destroyed" => context["push"] = "null"

(* What has not been connected yet.                                        *)
Fresh ==
  /\ pc.starter \in {"connect_pull", "launch", "record"}
     \/ (pc.starter = "connect_push" /\ conn["push"] \in {"release", "close", "open"})
       => context["push"] = "null" /\ stream_ctx["push"] = "null"
  /\ pc.starter = "connect_push" /\ conn["push"] = "array" => stream_ctx["push"] = "null"
  /\ pc.starter = "connect_pull" /\ conn["pull"] \in {"release", "close", "open"}
       => context["pull"] = "null"
  /\ pc.starter = "connect_pull"
     /\ conn["pull"] \in {"release", "close", "open", "info", "array"}
       => stream_ctx["pull"] = "null"

(* The push stream's array is not freed twice, although disconnect() runs  *)
(* at the label end of its thread and again in ~PushStream, and leaves the *)
(* pointer: no context is left by then.  Nobody reconnects a push stream.  *)
PushReleasedOnce ==
  stream_ctx["push"] = "freed" /\ conn["push"] # "close" => context["push"] = "null"

(* The pull stream's neither, until the pull thread disconnects.           *)
ReleasedOnce ==
  /\ PushReleasedOnce
  /\ ~disturbed /\ stream_ctx["pull"] = "freed" /\ conn["pull"] # "close"
       => context["pull"] = "null"

MemoryKept == \A s \in Side : Memory(s)

(* A codec context is lost where connect() gave up, and nowhere before: the*)
(* push stream is connected once, so that its first loss is its last.      *)
LostOnce ==
  /\ \A s \in Side : lost[s] # {} => lost[s] = {next[s]} /\ GivenUp(s)
  /\ pc.starter \in {"connect_pull", "launch", "record"}
     \/ (pc.starter = "connect_push" /\ conn["push"] \notin {"up", "failed"})
       => lost["push"] = {}

Kept == MemoryKept /\ Destroyed /\ Fresh /\ ReleasedOnce /\ LostOnce

(* A complete pull stream: all its decoders are open.                      *)
PullUp ==
  /\ context["pull"] = "open" /\ stream_ctx["pull"] = "live"
  /\ codec_ctx["pull"] = AllMedia(streams)

ConfigNames(k) == config[k] # 0 => streams[config[k]] = k

PullComplete ==
  /\ conn["pull"] = "codecs" =>
       stream_ctx["pull"] = "live" /\ codec_ctx["pull"] = MediaBelow(next["pull"], streams)
  /\ conn["pull"] \in {"audio", "up"} \/ pc.starter = "launch"
     \/ pc.pull \in {"prepare", "read", "decode"} => PullUp
  /\ conn["pull"] = "audio" => ConfigNames("video")
  /\ conn["pull"] = "up" \/ pc.starter = "launch" \/ (pc.pull # "none" /\ ~disturbed)
       => \A k \in Media : ConfigNames(k)

(* A complete push stream, while the pull stream is the one it was made    *)
(* from: all its encoders are open.                                        *)
PushComplete ==
  ~partial =>
    /\ conn["push"] = "codecs" => stream_ctx["push"] = "live"
    /\ ~disturbed =>
         /\ conn["push"] = "codecs" => codec_ctx["push"] = MediaBelow(next["push"], streams)
         /\ conn["push"] = "up" \/ pc.starter = "launch_push"
            \/ pc.push \in {"video", "audio", "prepare", "loop"}
              => codec_ctx["push"] = AllMedia(streams)

Indices ==
  /\ pc.pull = "decode" => packet \in Index
  /\ pc.pull \in {"none", "prepare"} => index["pull"] = NoIndex
  /\ ~disturbed =>
       /\ pc.pull \in {"read", "decode"} => index["pull"] = config
       /\ pc.push = "audio" => index["push"]["video"] = config["video"]
       /\ pc.push \in {"prepare", "loop"} => index["push"] = config

IInv == Control /\ Kept /\ PullComplete /\ PushComplete /\ Indices /\ SafeUndisturbed

---------------------------------------------------------------------------
(* Types, and where the threads are.                                       *)

Booleans ==
  /\ m_state \in BOOLEAN /\ header \in BOOLEAN
  /\ disturbed \in BOOLEAN /\ partial \in BOOLEAN

DataTypes ==
  /\ context \in [Side -> {"null", "empty", "open"}]
  /\ stream_ctx \in [Side -> {"null", "live", "short", "freed"}]
  /\ codec_ctx \in [Side -> SUBSET Index]
  /\ lost \in [Side -> SUBSET Index]
  /\ next \in [Side -> 1 .. N + 1]
  /\ streams \in Layouts \union {NoStreams}
  /\ config \in [Media -> 0 .. N]
  /\ index \in [Side -> [Media -> 0 .. N]]
  /\ packet \in 0 .. N

FaultType == fault \in {"none", "thread", "null", "freed", "twice", "header"}
PcType == pc \in [starter : StarterPC, pull : PullPC, push : PushPC]
ConnType == conn \in [Side -> ConnPC]

(* A step of one thread moves it alone.                                    *)
LEMMA GotoMoves ==
  ASSUME TypeOK
  PROVE  /\ \A l \in StarterPC : Goto("starter", l) =>
              PcType' /\ pc'.starter = l /\ pc'.pull = pc.pull /\ pc'.push = pc.push
         /\ \A l \in PullPC : Goto("pull", l) =>
              PcType' /\ pc'.starter = pc.starter /\ pc'.pull = l /\ pc'.push = pc.push
         /\ \A l \in PushPC : Goto("push", l) =>
              PcType' /\ pc'.starter = pc.starter /\ pc'.pull = pc.pull /\ pc'.push = l
  BY DEF TypeOK, PcType, Goto, StarterPC, PullPC, PushPC

(* One stream moves on in its connect() or disconnect().                   *)
LEMMA ConnMoves ==
  ASSUME TypeOK
  PROVE  \A s \in Side, l \in ConnPC : ConnGoto(s, l) =>
           /\ ConnType'
           /\ conn'[s] = l
           /\ \A u \in Side : u # s => conn'[u] = conn[u]
  BY DEF TypeOK, ConnType, ConnGoto

(* Encoding a frame disturbs the place of the push thread at most.         *)
LEMMA EncodeMoves ==
  ASSUME TypeOK, NEW i \in Index, PushEncodes(i)
  PROVE  /\ UNCHANGED <<heap, next, streams, config, partial, m_state, index, packet,
                        errors, disturbed>>
         /\ PcType' /\ ConnType'
         /\ conn'["pull"] = conn["pull"]
         /\ pc'.starter = pc.starter /\ pc'.pull = pc.pull
         /\ \/ conn'["push"] = conn["push"] /\ pc'.push = pc.push
            \/ conn'["push"] = "release" /\ pc.push = "loop" /\ pc'.push = "end"
<1>1. \/ UNCHANGED <<pc, conn>>
      \/ PushLeaves /\ pc.push = "loop"
  BY DEF PushEncodes, Fault, link, threads
<1>2. UNCHANGED <<heap, next, streams, config, partial, m_state, index, packet,
                  errors, disturbed>>
  BY DEF PushEncodes, Fault, link, threads, heap
<1>3. CASE UNCHANGED <<pc, conn>>
  BY <1>2, <1>3 DEF TypeOK, PcType, ConnType
<1>4. CASE PushLeaves /\ pc.push = "loop"
  BY <1>2, <1>4, GotoMoves, ConnMoves DEF PushLeaves, Side, PushPC, ConnPC
<1> QED BY <1>1, <1>3, <1>4

(* The flags stay Boolean.                                                 *)
LEMMA BooleansKept ==
  ASSUME TypeOK, Next
  PROVE  Booleans'
<1> USE DEF Booleans, TypeOK, Inside, Fault, Standing, PullLeaves, PushLeaves, link,
           threads, heap, vars
<1>1. CASE Releases("pull") \/ Closes("pull")
  BY <1>1
     DEF Releases, Closes
<1>2. CASE PullOpens \/ PullFindsStreams \/ PullAllocates
  BY <1>2
     DEF PullOpens, PullFindsStreams, PullAllocates
<1>3. CASE PullOpensDecoder \/ PullSetsVideo \/ PullSetsAudio
  BY <1>3
     DEF PullOpensDecoder, PullSetsVideo, PullSetsAudio
<1>4. CASE Releases("push") \/ Closes("push")
  BY <1>4
     DEF Releases, Closes
<1>5. CASE PushOpens \/ PushAllocates
  BY <1>5
     DEF PushOpens, PushAllocates
<1>6. CASE PushOpensEncoder \/ PushConnectFaults \/ PushWritesHeader
  BY <1>6
     DEF PushOpensEncoder, PushConnectFaults, PushWritesHeader
<1>7. CASE \/ StarterConnected("pull", "connect_pull", "launch")
           \/ StarterConnected("push", "connect_push", "launch_push")
  BY <1>7
     DEF StarterConnected
<1>8. CASE StarterLaunchesPull \/ StarterRecords \/ StarterLaunchesPush
  BY <1>8
     DEF StarterLaunchesPull, StarterRecords, StarterLaunchesPush
<1>9. CASE StarterStops \/ StarterJoins \/ StarterDestroys \/ StarterFinishes
  BY <1>9
     DEF StarterStops, StarterJoins, StarterDestroys, StarterFinishes
<1>10. CASE PullPrepares \/ PullReads \/ PullReadFails
  BY <1>10
     DEF PullPrepares, PullReads, PullReadFails
<1>11. CASE PullReconnects \/ PullDecodes
  BY <1>11
     DEF PullReconnects, PullDecodes
<1>12. CASE PullEnds \/ PullPauses
  BY <1>12
     DEF PullEnds, PullPauses
<1>13. CASE PushReadsIndex("video", "audio") \/ PushReadsIndex("audio", "prepare")
  BY <1>13
     DEF PushReadsIndex
<1>14. CASE PushPrepares
  BY <1>14
     DEF PushPrepares
<1>15. ASSUME NEW i \in Index, PushEncodes(i)
      PROVE  Booleans'
  BY <1>15
     DEF PushEncodes
<1>16. CASE PushEnds \/ PushPauses \/ PushJoins
  BY <1>16
     DEF PushEnds, PushPauses, PushJoins
<1>17. CASE UNCHANGED vars
  BY <1>17
<1> QED
  BY <1>1, <1>2, <1>3, <1>4, <1>5, <1>6, <1>7, <1>8, <1>9, <1>10, <1>11, <1>12, <1>13,
     <1>14, <1>15, <1>16, <1>17
     DEF Next, PullConnection, PushConnection, Starter, Pull, Push, Ended

(* The data keep their types.                                              *)
LEMMA DataTypesKept ==
  ASSUME TypeOK, Next
  PROVE  DataTypes'
<1> USE DEF DataTypes, TypeOK, Found, Best, Index, Media, Side, Loses, Inside, Fault,
           Standing, PullLeaves, PushLeaves, link, threads, heap, vars
<1>1. CASE Releases("pull") \/ Closes("pull")
  BY <1>1, NAssumption
     DEF Releases, Closes
<1>2. CASE PullOpens \/ PullFindsStreams \/ PullAllocates
  BY <1>2, NAssumption
     DEF PullOpens, PullFindsStreams, PullAllocates
<1>3. CASE PullOpensDecoder \/ PullSetsVideo \/ PullSetsAudio
  BY <1>3, NAssumption
     DEF PullOpensDecoder, PullSetsVideo, PullSetsAudio
<1>4. CASE Releases("push") \/ Closes("push")
  BY <1>4, NAssumption
     DEF Releases, Closes
<1>5. CASE PushOpens \/ PushAllocates
  BY <1>5, NAssumption
     DEF PushOpens, PushAllocates
<1>6. CASE PushOpensEncoder \/ PushConnectFaults \/ PushWritesHeader
  BY <1>6, NAssumption
     DEF PushOpensEncoder, PushConnectFaults, PushWritesHeader
<1>7. CASE \/ StarterConnected("pull", "connect_pull", "launch")
           \/ StarterConnected("push", "connect_push", "launch_push")
  BY <1>7, NAssumption
     DEF StarterConnected
<1>8. CASE StarterLaunchesPull \/ StarterRecords \/ StarterLaunchesPush
  BY <1>8, NAssumption
     DEF StarterLaunchesPull, StarterRecords, StarterLaunchesPush
<1>9. CASE StarterStops \/ StarterJoins \/ StarterDestroys \/ StarterFinishes
  BY <1>9, NAssumption
     DEF StarterStops, StarterJoins, StarterDestroys, StarterFinishes
<1>10. CASE PullPrepares \/ PullReads \/ PullReadFails
  BY <1>10, NAssumption
     DEF PullPrepares, PullReads, PullReadFails
<1>11. CASE PullReconnects \/ PullDecodes
  BY <1>11, NAssumption
     DEF PullReconnects, PullDecodes
<1>12. CASE PullEnds \/ PullPauses
  BY <1>12, NAssumption
     DEF PullEnds, PullPauses
<1>13. CASE PushReadsIndex("video", "audio") \/ PushReadsIndex("audio", "prepare")
  BY <1>13, NAssumption
     DEF PushReadsIndex
<1>14. CASE PushPrepares
  BY <1>14, NAssumption
     DEF PushPrepares
<1>15. ASSUME NEW i \in Index, PushEncodes(i)
      PROVE  DataTypes'
  BY <1>15, NAssumption
     DEF PushEncodes
<1>16. CASE PushEnds \/ PushPauses \/ PushJoins
  BY <1>16, NAssumption
     DEF PushEnds, PushPauses, PushJoins
<1>17. CASE UNCHANGED vars
  BY <1>17, NAssumption
<1> QED
  BY <1>1, <1>2, <1>3, <1>4, <1>5, <1>6, <1>7, <1>8, <1>9, <1>10, <1>11, <1>12, <1>13,
     <1>14, <1>15, <1>16, <1>17
     DEF Next, PullConnection, PushConnection, Starter, Pull, Push, Ended

(* Stages, and who is in connect() or disconnect().                        *)
LEMMA WhereKept ==
  ASSUME TypeOK, Where, Next
  PROVE  Where' /\ PcType' /\ ConnType'
<1> USE DEF Where, PcType, ConnType, Stages, Inner, Connecting, TypeOK, StarterPC,
           PullPC, PushPC, ConnPC, Side, Inside, Fault, Standing, PullLeaves,
           PushLeaves, link, threads, heap, vars
<1>1. CASE Releases("pull") \/ Closes("pull")
  BY <1>1, GotoMoves, ConnMoves
     DEF Releases, Closes
<1>2. CASE PullOpens \/ PullFindsStreams \/ PullAllocates
  BY <1>2, GotoMoves, ConnMoves
     DEF PullOpens, PullFindsStreams, PullAllocates
<1>3. CASE PullOpensDecoder \/ PullSetsVideo \/ PullSetsAudio
  BY <1>3, GotoMoves, ConnMoves
     DEF PullOpensDecoder, PullSetsVideo, PullSetsAudio
<1>4. CASE Releases("push") \/ Closes("push")
  BY <1>4, GotoMoves, ConnMoves
     DEF Releases, Closes
<1>5. CASE PushOpens \/ PushAllocates
  BY <1>5, GotoMoves, ConnMoves
     DEF PushOpens, PushAllocates
<1>6. CASE PushOpensEncoder \/ PushConnectFaults \/ PushWritesHeader
  BY <1>6, GotoMoves, ConnMoves
     DEF PushOpensEncoder, PushConnectFaults, PushWritesHeader
<1>7. CASE \/ StarterConnected("pull", "connect_pull", "launch")
           \/ StarterConnected("push", "connect_push", "launch_push")
  BY <1>7, GotoMoves, ConnMoves
     DEF StarterConnected
<1>8. CASE StarterLaunchesPull
  BY <1>8, GotoMoves, ConnMoves
     DEF StarterLaunchesPull
<1>9. CASE StarterRecords
  BY <1>9, GotoMoves, ConnMoves
     DEF StarterRecords
<1>10. CASE StarterLaunchesPush
  BY <1>10, GotoMoves, ConnMoves
     DEF StarterLaunchesPush
<1>11. CASE StarterStops \/ StarterJoins \/ StarterDestroys \/ StarterFinishes
  BY <1>11, GotoMoves, ConnMoves
     DEF StarterStops, StarterJoins, StarterDestroys, StarterFinishes
<1>12. CASE PullPrepares \/ PullReads \/ PullReadFails
  BY <1>12, GotoMoves, ConnMoves
     DEF PullPrepares, PullReads, PullReadFails
<1>13. CASE PullReconnects \/ PullDecodes
  BY <1>13, GotoMoves, ConnMoves
     DEF PullReconnects, PullDecodes
<1>14. CASE PullEnds \/ PullPauses
  BY <1>14, GotoMoves, ConnMoves
     DEF PullEnds, PullPauses
<1>15. CASE PushReadsIndex("video", "audio") \/ PushReadsIndex("audio", "prepare")
  BY <1>15, GotoMoves, ConnMoves
     DEF PushReadsIndex
<1>16. CASE PushPrepares
  BY <1>16, GotoMoves, ConnMoves
     DEF PushPrepares
<1>17. ASSUME NEW i \in Index, PushEncodes(i)
      PROVE  Where' /\ PcType' /\ ConnType'
  BY <1>17, EncodeMoves
<1>18. CASE PushEnds \/ PushPauses \/ PushJoins
  BY <1>18, GotoMoves, ConnMoves
     DEF PushEnds, PushPauses, PushJoins
<1>19. CASE UNCHANGED vars
  BY <1>19, GotoMoves, ConnMoves
<1> QED
  BY <1>1, <1>2, <1>3, <1>4, <1>5, <1>6, <1>7, <1>8, <1>9, <1>10, <1>11, <1>12, <1>13,
     <1>14, <1>15, <1>16, <1>17, <1>18, <1>19
     DEF Next, PullConnection, PushConnection, Starter, Pull, Push, Ended

(* The count of read errors stays below what starts a reconnect.           *)
LEMMA ErrorsKept ==
  ASSUME TypeOK, Where, ErrorsCounted, Next
  PROVE  ErrorsCounted' /\ errors' \in 0 .. ErrorLimit + 1 /\ FaultType'
<1> USE DEF ErrorsCounted, FaultType, TypeOK, StarterPC, PullPC, PushPC, ConnPC, Side,
           Inside, Fault, Standing, PullLeaves, PushLeaves, link, threads, heap, vars
<1>1. CASE Releases("pull") \/ Closes("pull")
  BY <1>1, GotoMoves, ErrorLimitAssumption
     DEF Releases, Closes
<1>2. CASE PullOpens \/ PullFindsStreams \/ PullAllocates
  BY <1>2, GotoMoves, ErrorLimitAssumption
     DEF PullOpens, PullFindsStreams, PullAllocates
<1>3. CASE PullOpensDecoder \/ PullSetsVideo \/ PullSetsAudio
  BY <1>3, GotoMoves, ErrorLimitAssumption
     DEF PullOpensDecoder, PullSetsVideo, PullSetsAudio
<1>4. CASE Releases("push") \/ Closes("push")
  BY <1>4, GotoMoves, ErrorLimitAssumption
     DEF Releases, Closes
<1>5. CASE PushOpens \/ PushAllocates
  BY <1>5, GotoMoves, ErrorLimitAssumption
     DEF PushOpens, PushAllocates
<1>6. CASE PushOpensEncoder \/ PushConnectFaults \/ PushWritesHeader
  BY <1>6, GotoMoves, ErrorLimitAssumption
     DEF PushOpensEncoder, PushConnectFaults, PushWritesHeader
<1>7. CASE \/ StarterConnected("pull", "connect_pull", "launch")
           \/ StarterConnected("push", "connect_push", "launch_push")
  BY <1>7, GotoMoves, ErrorLimitAssumption
     DEF StarterConnected
<1>8. CASE StarterLaunchesPull
  BY <1>8, GotoMoves, ErrorLimitAssumption DEF StarterLaunchesPull, Where, Stages
<1>9. CASE StarterRecords \/ StarterLaunchesPush
  BY <1>9, GotoMoves, ErrorLimitAssumption
     DEF StarterRecords, StarterLaunchesPush
<1>10. CASE StarterStops \/ StarterJoins \/ StarterDestroys \/ StarterFinishes
  BY <1>10, GotoMoves, ErrorLimitAssumption
     DEF StarterStops, StarterJoins, StarterDestroys, StarterFinishes
<1>11. CASE PullPrepares \/ PullReads \/ PullReadFails
  BY <1>11, GotoMoves, ErrorLimitAssumption
     DEF PullPrepares, PullReads, PullReadFails
<1>12. CASE PullReconnects \/ PullDecodes
  BY <1>12, GotoMoves, ErrorLimitAssumption
     DEF PullReconnects, PullDecodes
<1>13. CASE PullEnds \/ PullPauses
  BY <1>13, GotoMoves, ErrorLimitAssumption
     DEF PullEnds, PullPauses
<1>14. CASE PushReadsIndex("video", "audio") \/ PushReadsIndex("audio", "prepare")
  BY <1>14, GotoMoves, ErrorLimitAssumption
     DEF PushReadsIndex
<1>15. CASE PushPrepares
  BY <1>15, GotoMoves, ErrorLimitAssumption
     DEF PushPrepares
<1>16. ASSUME NEW i \in Index, PushEncodes(i)
      PROVE  ErrorsCounted' /\ errors' \in 0 .. ErrorLimit + 1 /\ FaultType'
  BY <1>16, EncodeMoves DEF PushEncodes
<1>17. CASE PushEnds \/ PushPauses \/ PushJoins
  BY <1>17, GotoMoves, ErrorLimitAssumption
     DEF PushEnds, PushPauses, PushJoins
<1>18. CASE UNCHANGED vars
  BY <1>18, GotoMoves, ErrorLimitAssumption
<1> QED
  BY <1>1, <1>2, <1>3, <1>4, <1>5, <1>6, <1>7, <1>8, <1>9, <1>10, <1>11, <1>12, <1>13,
     <1>14, <1>15, <1>16, <1>17, <1>18
     DEF Next, PullConnection, PushConnection, Starter, Pull, Push, Ended

(* Control is kept.                                                        *)
LEMMA ControlKept == Control /\ Next => Control'
  BY BooleansKept, DataTypesKept, WhereKept, ErrorsKept
     DEF Control, TypeOK, Booleans, DataTypes, PcType, ConnType, FaultType

---------------------------------------------------------------------------
(* The memory of the streams.                                              *)

(* The arrays and contexts.                                                *)
LEMMA MemoryIsKept ==
  ASSUME TypeOK, Where, MemoryKept, Next
  PROVE  MemoryKept'
<1> USE DEF MemoryKept, Memory, Where, Stages, Inner, Connecting, TypeOK, StarterPC,
           PullPC, PushPC, ConnPC, Side, Inside, Fault, Standing, PullLeaves,
           PushLeaves, link, threads, heap, vars
<1>1. CASE Releases("pull") \/ Closes("pull")
  BY <1>1, GotoMoves, ConnMoves
     DEF Releases, Closes
<1>2. CASE PullOpens \/ PullFindsStreams \/ PullAllocates
  BY <1>2, GotoMoves, ConnMoves
     DEF PullOpens, PullFindsStreams, PullAllocates
<1>3. CASE PullOpensDecoder \/ PullSetsVideo \/ PullSetsAudio
  BY <1>3, GotoMoves, ConnMoves
     DEF PullOpensDecoder, PullSetsVideo, PullSetsAudio
<1>4. CASE Releases("push") \/ Closes("push")
  BY <1>4, GotoMoves, ConnMoves
     DEF Releases, Closes
<1>5. CASE PushOpens \/ PushAllocates
  BY <1>5, GotoMoves, ConnMoves
     DEF PushOpens, PushAllocates
<1>6. CASE PushOpensEncoder \/ PushConnectFaults \/ PushWritesHeader
  BY <1>6, GotoMoves, ConnMoves
     DEF PushOpensEncoder, PushConnectFaults, PushWritesHeader
<1>7. CASE \/ StarterConnected("pull", "connect_pull", "launch")
           \/ StarterConnected("push", "connect_push", "launch_push")
  BY <1>7, GotoMoves, ConnMoves
     DEF StarterConnected
<1>8. CASE StarterLaunchesPull \/ StarterRecords \/ StarterLaunchesPush
  BY <1>8, GotoMoves, ConnMoves
     DEF StarterLaunchesPull, StarterRecords, StarterLaunchesPush
<1>9. CASE StarterStops \/ StarterJoins \/ StarterDestroys \/ StarterFinishes
  BY <1>9, GotoMoves, ConnMoves
     DEF StarterStops, StarterJoins, StarterDestroys, StarterFinishes
<1>10. CASE PullPrepares \/ PullReads \/ PullReadFails
  BY <1>10, GotoMoves, ConnMoves
     DEF PullPrepares, PullReads, PullReadFails
<1>11. CASE PullReconnects \/ PullDecodes
  BY <1>11, GotoMoves, ConnMoves
     DEF PullReconnects, PullDecodes
<1>12. CASE PullEnds \/ PullPauses
  BY <1>12, GotoMoves, ConnMoves
     DEF PullEnds, PullPauses
<1>13. CASE PushReadsIndex("video", "audio") \/ PushReadsIndex("audio", "prepare")
  BY <1>13, GotoMoves, ConnMoves
     DEF PushReadsIndex
<1>14. CASE PushPrepares
  BY <1>14, GotoMoves, ConnMoves
     DEF PushPrepares
<1>15. ASSUME NEW i \in Index, PushEncodes(i)
      PROVE  MemoryKept'
  BY <1>15, EncodeMoves
<1>16. CASE PushEnds \/ PushPauses \/ PushJoins
  BY <1>16, GotoMoves, ConnMoves
     DEF PushEnds, PushPauses, PushJoins
<1>17. CASE UNCHANGED vars
  BY <1>17, GotoMoves, ConnMoves
<1> QED
  BY <1>1, <1>2, <1>3, <1>4, <1>5, <1>6, <1>7, <1>8, <1>9, <1>10, <1>11, <1>12, <1>13,
     <1>14, <1>15, <1>16, <1>17
     DEF Next, PullConnection, PushConnection, Starter, Pull, Push, Ended

(* What has been destroyed stays so.                                       *)
LEMMA DestroyedIsKept ==
  ASSUME TypeOK, Where, Destroyed, Next
  PROVE  Destroyed'
<1> USE DEF Destroyed, Where, Stages, Inner, Connecting, TypeOK, StarterPC, PullPC,
           PushPC, ConnPC, Side, Inside, Fault, Standing, PullLeaves, PushLeaves, link,
           threads, heap, vars
<1>1. CASE Releases("pull") \/ Closes("pull")
  BY <1>1, GotoMoves, ConnMoves
     DEF Releases, Closes
<1>2. CASE PullOpens \/ PullFindsStreams \/ PullAllocates
  BY <1>2, GotoMoves, ConnMoves
     DEF PullOpens, PullFindsStreams, PullAllocates
<1>3. CASE PullOpensDecoder \/ PullSetsVideo \/ PullSetsAudio
  BY <1>3, GotoMoves, ConnMoves
     DEF PullOpensDecoder, PullSetsVideo, PullSetsAudio
<1>4. CASE Releases("push") \/ Closes("push")
  BY <1>4, GotoMoves, ConnMoves
     DEF Releases, Closes
<1>5. CASE PushOpens \/ PushAllocates
  BY <1>5, GotoMoves, ConnMoves
     DEF PushOpens, PushAllocates
<1>6. CASE PushOpensEncoder \/ PushConnectFaults \/ PushWritesHeader
  BY <1>6, GotoMoves, ConnMoves
     DEF PushOpensEncoder, PushConnectFaults, PushWritesHeader
<1>7. CASE \/ StarterConnected("pull", "connect_pull", "launch")
           \/ StarterConnected("push", "connect_push", "launch_push")
  BY <1>7, GotoMoves, ConnMoves
     DEF StarterConnected
<1>8. CASE StarterLaunchesPull \/ StarterRecords \/ StarterLaunchesPush
  BY <1>8, GotoMoves, ConnMoves
     DEF StarterLaunchesPull, StarterRecords, StarterLaunchesPush
<1>9. CASE StarterStops \/ StarterJoins \/ StarterDestroys \/ StarterFinishes
  BY <1>9, GotoMoves, ConnMoves
     DEF StarterStops, StarterJoins, StarterDestroys, StarterFinishes
<1>10. CASE PullPrepares \/ PullReads \/ PullReadFails
  BY <1>10, GotoMoves, ConnMoves
     DEF PullPrepares, PullReads, PullReadFails
<1>11. CASE PullReconnects \/ PullDecodes
  BY <1>11, GotoMoves, ConnMoves
     DEF PullReconnects, PullDecodes
<1>12. CASE PullEnds \/ PullPauses
  BY <1>12, GotoMoves, ConnMoves
     DEF PullEnds, PullPauses
<1>13. CASE PushReadsIndex("video", "audio") \/ PushReadsIndex("audio", "prepare")
  BY <1>13, GotoMoves, ConnMoves
     DEF PushReadsIndex
<1>14. CASE PushPrepares
  BY <1>14, GotoMoves, ConnMoves
     DEF PushPrepares
<1>15. ASSUME NEW i \in Index, PushEncodes(i)
      PROVE  Destroyed'
  BY <1>15, EncodeMoves
<1>16. CASE PushEnds \/ PushPauses \/ PushJoins
  BY <1>16, GotoMoves, ConnMoves
     DEF PushEnds, PushPauses, PushJoins
<1>17. CASE UNCHANGED vars
  BY <1>17, GotoMoves, ConnMoves
<1> QED
  BY <1>1, <1>2, <1>3, <1>4, <1>5, <1>6, <1>7, <1>8, <1>9, <1>10, <1>11, <1>12, <1>13,
     <1>14, <1>15, <1>16, <1>17
     DEF Next, PullConnection, PushConnection, Starter, Pull, Push, Ended

(* What is not connected yet.                                              *)
LEMMA FreshIsKept ==
  ASSUME TypeOK, Where, Fresh, Next
  PROVE  Fresh'
<1> USE DEF Fresh, Where, Stages, Inner, Connecting, TypeOK, StarterPC, PullPC, PushPC,
           ConnPC, Side, Inside, Fault, Standing, PullLeaves, PushLeaves, link, threads,
           heap, vars
<1>1. CASE Releases("pull") \/ Closes("pull")
  BY <1>1, GotoMoves, ConnMoves
     DEF Releases, Closes
<1>2. CASE PullOpens \/ PullFindsStreams \/ PullAllocates
  BY <1>2, GotoMoves, ConnMoves
     DEF PullOpens, PullFindsStreams, PullAllocates
<1>3. CASE PullOpensDecoder \/ PullSetsVideo \/ PullSetsAudio
  BY <1>3, GotoMoves, ConnMoves
     DEF PullOpensDecoder, PullSetsVideo, PullSetsAudio
<1>4. CASE Releases("push") \/ Closes("push")
  BY <1>4, GotoMoves, ConnMoves
     DEF Releases, Closes
<1>5. CASE PushOpens \/ PushAllocates
  BY <1>5, GotoMoves, ConnMoves
     DEF PushOpens, PushAllocates
<1>6. CASE PushOpensEncoder \/ PushConnectFaults \/ PushWritesHeader
  BY <1>6, GotoMoves, ConnMoves
     DEF PushOpensEncoder, PushConnectFaults, PushWritesHeader
<1>7. CASE \/ StarterConnected("pull", "connect_pull", "launch")
           \/ StarterConnected("push", "connect_push", "launch_push")
  BY <1>7, GotoMoves, ConnMoves
     DEF StarterConnected
<1>8. CASE StarterLaunchesPull \/ StarterRecords \/ StarterLaunchesPush
  BY <1>8, GotoMoves, ConnMoves
     DEF StarterLaunchesPull, StarterRecords, StarterLaunchesPush
<1>9. CASE StarterStops \/ StarterJoins \/ StarterDestroys \/ StarterFinishes
  BY <1>9, GotoMoves, ConnMoves
     DEF StarterStops, StarterJoins, StarterDestroys, StarterFinishes
<1>10. CASE PullPrepares \/ PullReads \/ PullReadFails
  BY <1>10, GotoMoves, ConnMoves
     DEF PullPrepares, PullReads, PullReadFails
<1>11. CASE PullReconnects \/ PullDecodes
  BY <1>11, GotoMoves, ConnMoves
     DEF PullReconnects, PullDecodes
<1>12. CASE PullEnds \/ PullPauses
  BY <1>12, GotoMoves, ConnMoves
     DEF PullEnds, PullPauses
<1>13. CASE PushReadsIndex("video", "audio") \/ PushReadsIndex("audio", "prepare")
  BY <1>13, GotoMoves, ConnMoves
     DEF PushReadsIndex
<1>14. CASE PushPrepares
  BY <1>14, GotoMoves, ConnMoves
     DEF PushPrepares
<1>15. ASSUME NEW i \in Index, PushEncodes(i)
      PROVE  Fresh'
  BY <1>15, EncodeMoves
<1>16. CASE PushEnds \/ PushPauses \/ PushJoins
  BY <1>16, GotoMoves, ConnMoves
     DEF PushEnds, PushPauses, PushJoins
<1>17. CASE UNCHANGED vars
  BY <1>17, GotoMoves, ConnMoves
<1> QED
  BY <1>1, <1>2, <1>3, <1>4, <1>5, <1>6, <1>7, <1>8, <1>9, <1>10, <1>11, <1>12, <1>13,
     <1>14, <1>15, <1>16, <1>17
     DEF Next, PullConnection, PushConnection, Starter, Pull, Push, Ended

(* Nothing is freed twice.                                                 *)
LEMMA ReleasedIsKept ==
  ASSUME TypeOK, Where, MemoryKept, Fresh, ReleasedOnce, Next
  PROVE  ReleasedOnce'
<1> USE DEF MemoryKept, Memory, Fresh, ReleasedOnce, PushReleasedOnce, Where, Stages,
           Inner, Connecting, TypeOK, StarterPC, PullPC, PushPC, ConnPC, Side, Inside,
           Fault, Standing, PullLeaves, PushLeaves, link, threads, heap, vars
<1>1. CASE Releases("pull") \/ Closes("pull")
  BY <1>1, GotoMoves, ConnMoves
     DEF Releases, Closes
<1>2. CASE PullOpens \/ PullFindsStreams \/ PullAllocates
  BY <1>2, GotoMoves, ConnMoves
     DEF PullOpens, PullFindsStreams, PullAllocates
<1>3. CASE PullOpensDecoder \/ PullSetsVideo \/ PullSetsAudio
  BY <1>3, GotoMoves, ConnMoves
     DEF PullOpensDecoder, PullSetsVideo, PullSetsAudio
<1>4. CASE Releases("push") \/ Closes("push")
  BY <1>4, GotoMoves, ConnMoves
     DEF Releases, Closes
<1>5. CASE PushOpens \/ PushAllocates
  BY <1>5, GotoMoves, ConnMoves
     DEF PushOpens, PushAllocates
<1>6. CASE PushOpensEncoder \/ PushConnectFaults \/ PushWritesHeader
  BY <1>6, GotoMoves, ConnMoves
     DEF PushOpensEncoder, PushConnectFaults, PushWritesHeader
<1>7. CASE \/ StarterConnected("pull", "connect_pull", "launch")
           \/ StarterConnected("push", "connect_push", "launch_push")
  BY <1>7, GotoMoves, ConnMoves
     DEF StarterConnected
<1>8. CASE StarterLaunchesPull \/ StarterRecords \/ StarterLaunchesPush
  BY <1>8, GotoMoves, ConnMoves
     DEF StarterLaunchesPull, StarterRecords, StarterLaunchesPush
<1>9. CASE StarterStops \/ StarterJoins \/ StarterDestroys \/ StarterFinishes
  BY <1>9, GotoMoves, ConnMoves
     DEF StarterStops, StarterJoins, StarterDestroys, StarterFinishes
<1>10. CASE PullPrepares \/ PullReads \/ PullReadFails
  BY <1>10, GotoMoves, ConnMoves
     DEF PullPrepares, PullReads, PullReadFails
<1>11. CASE PullReconnects \/ PullDecodes
  BY <1>11, GotoMoves, ConnMoves
     DEF PullReconnects, PullDecodes
<1>12. CASE PullEnds \/ PullPauses
  BY <1>12, GotoMoves, ConnMoves
     DEF PullEnds, PullPauses
<1>13. CASE PushReadsIndex("video", "audio") \/ PushReadsIndex("audio", "prepare")
  BY <1>13, GotoMoves, ConnMoves
     DEF PushReadsIndex
<1>14. CASE PushPrepares
  BY <1>14, GotoMoves, ConnMoves
     DEF PushPrepares
<1>15. ASSUME NEW i \in Index, PushEncodes(i)
      PROVE  ReleasedOnce'
  BY <1>15, EncodeMoves
<1>16. CASE PushEnds \/ PushPauses \/ PushJoins
  BY <1>16, GotoMoves, ConnMoves
     DEF PushEnds, PushPauses, PushJoins
<1>17. CASE UNCHANGED vars
  BY <1>17, GotoMoves, ConnMoves
<1> QED
  BY <1>1, <1>2, <1>3, <1>4, <1>5, <1>6, <1>7, <1>8, <1>9, <1>10, <1>11, <1>12, <1>13,
     <1>14, <1>15, <1>16, <1>17
     DEF Next, PullConnection, PushConnection, Starter, Pull, Push, Ended

(* A connect() that loses a codec context is the last of its stream.       *)
LEMMA LossIsKept ==
  ASSUME TypeOK, Where, LostOnce, Next
  PROVE  LostOnce'
<1> USE DEF LostOnce, GivenUp, Unstarted, Loses, Where, Stages, Inner, Connecting, TypeOK,
           StarterPC, PullPC, PushPC, ConnPC, Side, Inside, Fault, Standing, PullLeaves,
           PushLeaves, link, threads, heap, vars
<1>1. CASE Releases("pull") \/ Closes("pull")
  BY <1>1, GotoMoves, ConnMoves
     DEF Releases, Closes
<1>2. CASE PullOpens \/ PullFindsStreams \/ PullAllocates
  BY <1>2, GotoMoves, ConnMoves
     DEF PullOpens, PullFindsStreams, PullAllocates
<1>3. CASE PullOpensDecoder \/ PullSetsVideo \/ PullSetsAudio
  BY <1>3, GotoMoves, ConnMoves
     DEF PullOpensDecoder, PullSetsVideo, PullSetsAudio
<1>4. CASE Releases("push") \/ Closes("push")
  BY <1>4, GotoMoves, ConnMoves
     DEF Releases, Closes
<1>5. CASE PushOpens \/ PushAllocates
  BY <1>5, GotoMoves, ConnMoves
     DEF PushOpens, PushAllocates
<1>6. CASE PushOpensEncoder \/ PushConnectFaults \/ PushWritesHeader
  BY <1>6, GotoMoves, ConnMoves
     DEF PushOpensEncoder, PushConnectFaults, PushWritesHeader
<1>7. CASE \/ StarterConnected("pull", "connect_pull", "launch")
           \/ StarterConnected("push", "connect_push", "launch_push")
  BY <1>7, GotoMoves, ConnMoves
     DEF StarterConnected
<1>8. CASE StarterLaunchesPull \/ StarterRecords \/ StarterLaunchesPush
  BY <1>8, GotoMoves, ConnMoves
     DEF StarterLaunchesPull, StarterRecords, StarterLaunchesPush
<1>9. CASE StarterStops \/ StarterJoins \/ StarterDestroys \/ StarterFinishes
  BY <1>9, GotoMoves, ConnMoves
     DEF StarterStops, StarterJoins, StarterDestroys, StarterFinishes
<1>10. CASE PullPrepares \/ PullReads \/ PullReadFails
  BY <1>10, GotoMoves, ConnMoves
     DEF PullPrepares, PullReads, PullReadFails
<1>11. CASE PullReconnects \/ PullDecodes
  BY <1>11, GotoMoves, ConnMoves
     DEF PullReconnects, PullDecodes
<1>12. CASE PullEnds \/ PullPauses
  BY <1>12, GotoMoves, ConnMoves
     DEF PullEnds, PullPauses
<1>13. CASE PushReadsIndex("video", "audio") \/ PushReadsIndex("audio", "prepare")
  BY <1>13, GotoMoves, ConnMoves
     DEF PushReadsIndex
<1>14. CASE PushPrepares
  BY <1>14, GotoMoves, ConnMoves
     DEF PushPrepares
<1>15. ASSUME NEW i \in Index, PushEncodes(i)
      PROVE  LostOnce'
  BY <1>15, EncodeMoves
<1>16. CASE PushEnds \/ PushPauses \/ PushJoins
  BY <1>16, GotoMoves, ConnMoves
     DEF PushEnds, PushPauses, PushJoins
<1>17. CASE UNCHANGED vars
  BY <1>17, GotoMoves, ConnMoves
<1> QED
  BY <1>1, <1>2, <1>3, <1>4, <1>5, <1>6, <1>7, <1>8, <1>9, <1>10, <1>11, <1>12, <1>13,
     <1>14, <1>15, <1>16, <1>17
     DEF Next, PullConnection, PushConnection, Starter, Pull, Push, Ended

---------------------------------------------------------------------------
(* Complete connections.                                                   *)

(* The streams of a medium below an index, at the bounds and one further.  *)
LEMMA MediaBelowSteps ==
  ASSUME NEW f
  PROVE  /\ MediaBelow(1, f) = {} /\ MediaBelow(N + 1, f) = AllMedia(f)
         /\ \A i \in Index : MediaBelow(i + 1, f) =
              IF f[i] \in Media THEN MediaBelow(i, f) \union {i} ELSE MediaBelow(i, f)
  BY NAssumption DEF MediaBelow, AllMedia, Index

(* A connected pull stream is complete.                                    *)
LEMMA PullCompleteKept ==
  ASSUME TypeOK, Where, MemoryKept, PullComplete, Next
  PROVE  PullComplete'
<1> USE DEF PullComplete, PullUp, ConfigNames, Memory, MemoryKept, Where, Stages, Inner,
           Connecting, TypeOK, StarterPC, PullPC, PushPC, ConnPC, Side, Inside, Fault,
           Standing, PullLeaves, PushLeaves, link, threads, heap, vars
<1>1. CASE Releases("pull") \/ Closes("pull")
  BY <1>1, GotoMoves, ConnMoves
     DEF Releases, Closes
<1>2. CASE PullOpens \/ PullFindsStreams
  BY <1>2, GotoMoves, ConnMoves
     DEF PullOpens, PullFindsStreams
<1>3. CASE PullAllocates
  <2>1. codec_ctx["pull"] = {} /\ next'["pull"] = 1
    BY <1>3 DEF PullAllocates
  <2> QED BY <1>3, <2>1, ConnMoves, MediaBelowSteps DEF PullAllocates
<1>4. CASE PullOpensDecoder
  <2>1. next["pull"] \in Index
    BY <1>4, NAssumption DEF PullOpensDecoder, Index
  <2>2. ASSUME UNCHANGED conn, next' = [next EXCEPT !["pull"] = next["pull"] + 1],
               codec_ctx' = [codec_ctx EXCEPT !["pull"] =
                 IF streams[next["pull"]] \in Media THEN @ \union {next["pull"]} ELSE @]
        PROVE  PullComplete'
    <3>1. next'["pull"] = next["pull"] + 1
          /\ UNCHANGED <<pc, context, stream_ctx, streams, config, disturbed>>
      BY <1>4, <2>2 DEF PullOpensDecoder
    <3>2. codec_ctx["pull"] = MediaBelow(next["pull"], streams)
      BY <1>4 DEF PullOpensDecoder
    <3>3. MediaBelow(next["pull"] + 1, streams) =
            IF streams[next["pull"]] \in Media
            THEN MediaBelow(next["pull"], streams) \union {next["pull"]}
            ELSE MediaBelow(next["pull"], streams)
      BY ONLY <2>1, MediaBelowSteps
    <3>4. codec_ctx'["pull"] = MediaBelow(next'["pull"], streams)
      BY <2>2, <3>1, <3>2, <3>3
    <3> QED BY <1>4, <2>2, <3>1, <3>4 DEF PullOpensDecoder
  <2>3. CASE ConnGoto("pull", "failed")
    BY <1>4, <2>3, ConnMoves DEF PullOpensDecoder
  <2> QED BY ONLY <1>4, <2>2, <2>3 DEF PullOpensDecoder
<1>5. CASE PullSetsVideo
  <2>1. next["pull"] = N + 1
    BY <1>5, NAssumption DEF PullSetsVideo
  <2>2. PullUp
    BY <1>5, <2>1, MediaBelowSteps DEF PullSetsVideo
  <2>3. CASE ConnGoto("pull", "failed")
    BY <1>5, <2>3, ConnMoves DEF PullSetsVideo
  <2>4. CASE ConnGoto("pull", "audio")
    <3>1. PICK i \in Best("video") : config' = [config EXCEPT !["video"] = i]
      BY <1>5, <2>4, ConnMoves DEF PullSetsVideo
    <3>2. config'["video"] # 0 => streams[config'["video"]] = "video"
      BY <3>1 DEF Best, Found, Media
    <3> QED BY <1>5, <2>2, <2>4, <3>2, ConnMoves DEF PullSetsVideo
  <2> QED BY <1>5, <2>3, <2>4 DEF PullSetsVideo
<1>6. CASE PullSetsAudio
  <2>1. PICK i \in Best("audio") : config' = [config EXCEPT !["audio"] = i]
    BY <1>6 DEF PullSetsAudio
  <2>2. \A k \in Media : config'[k] # 0 => streams[config'[k]] = k
    BY <1>6, <2>1 DEF Best, Found, Media, PullSetsAudio
  <2> QED BY <1>6, <2>2, ConnMoves DEF PullSetsAudio
<1>7. CASE Releases("push") \/ Closes("push")
  BY <1>7, GotoMoves, ConnMoves
     DEF Releases, Closes
<1>8. CASE PushOpens \/ PushAllocates
  BY <1>8, GotoMoves, ConnMoves
     DEF PushOpens, PushAllocates
<1>9. CASE PushOpensEncoder \/ PushConnectFaults \/ PushWritesHeader
  BY <1>9, GotoMoves, ConnMoves
     DEF PushOpensEncoder, PushConnectFaults, PushWritesHeader
<1>10. CASE \/ StarterConnected("pull", "connect_pull", "launch")
            \/ StarterConnected("push", "connect_push", "launch_push")
  BY <1>10, GotoMoves, ConnMoves
     DEF StarterConnected
<1>11. CASE StarterLaunchesPull
  BY <1>11, GotoMoves, ConnMoves
     DEF StarterLaunchesPull
<1>12. CASE StarterRecords
  BY <1>12, GotoMoves, ConnMoves
     DEF StarterRecords
<1>13. CASE StarterLaunchesPush
  BY <1>13, GotoMoves, ConnMoves
     DEF StarterLaunchesPush
<1>14. CASE StarterStops \/ StarterJoins \/ StarterDestroys \/ StarterFinishes
  BY <1>14, GotoMoves, ConnMoves
     DEF StarterStops, StarterJoins, StarterDestroys, StarterFinishes
<1>15. CASE PullPrepares \/ PullReads \/ PullReadFails
  BY <1>15, GotoMoves, ConnMoves
     DEF PullPrepares, PullReads, PullReadFails
<1>16. CASE PullReconnects \/ PullDecodes
  BY <1>16, GotoMoves, ConnMoves
     DEF PullReconnects, PullDecodes
<1>17. CASE PullEnds \/ PullPauses
  BY <1>17, GotoMoves, ConnMoves
     DEF PullEnds, PullPauses
<1>18. CASE PushReadsIndex("video", "audio") \/ PushReadsIndex("audio", "prepare")
  BY <1>18, GotoMoves, ConnMoves
     DEF PushReadsIndex
<1>19. CASE PushPrepares
  BY <1>19, GotoMoves, ConnMoves
     DEF PushPrepares
<1>20. ASSUME NEW i \in Index, PushEncodes(i)
      PROVE  PullComplete'
  BY <1>20, EncodeMoves
<1>21. CASE PushEnds \/ PushPauses \/ PushJoins
  BY <1>21, GotoMoves, ConnMoves
     DEF PushEnds, PushPauses, PushJoins
<1>22. CASE UNCHANGED vars
  BY <1>22, GotoMoves, ConnMoves
<1> QED
  BY <1>1, <1>2, <1>3, <1>4, <1>5, <1>6, <1>7, <1>8, <1>9, <1>10, <1>11, <1>12, <1>13,
     <1>14, <1>15, <1>16, <1>17, <1>18, <1>19, <1>20, <1>21, <1>22
     DEF Next, PullConnection, PushConnection, Starter, Pull, Push, Ended

(* A connected push stream is complete.                                    *)
LEMMA PushCompleteKept ==
  ASSUME TypeOK, Where, MemoryKept, PullComplete, PushComplete, Next
  PROVE  PushComplete'
<1> USE DEF PushComplete, Where, Stages, Inner, Connecting, TypeOK, StarterPC, PullPC,
           PushPC, ConnPC, Side, Inside, Fault, Standing, PullLeaves, PushLeaves, link,
           threads, heap, vars
<1>1. CASE Releases("pull") \/ Closes("pull")
  BY <1>1, GotoMoves, ConnMoves
     DEF Releases, Closes
<1>2. CASE PullOpens \/ PullFindsStreams \/ PullAllocates
  BY <1>2, GotoMoves, ConnMoves
     DEF PullOpens, PullFindsStreams, PullAllocates
<1>3. CASE PullOpensDecoder \/ PullSetsVideo \/ PullSetsAudio
  BY <1>3, GotoMoves, ConnMoves
     DEF PullOpensDecoder, PullSetsVideo, PullSetsAudio
<1>4. CASE Releases("push") \/ Closes("push")
  BY <1>4, GotoMoves, ConnMoves
     DEF Releases, Closes
<1>5. CASE PushOpens
  BY <1>5, GotoMoves, ConnMoves
     DEF PushOpens
<1>6. CASE PushAllocates
  <2>1. CASE context["pull"] = "null"
    BY <1>6, <2>1 DEF PushAllocates
  <2>2. CASE context["pull"] # "null"
    <3>1. codec_ctx["push"] = {}
      BY <1>6 DEF PushAllocates, MemoryKept, Memory
    <3>2. next'["push"] = 1 /\ (~partial' => stream_ctx'["push"] = "live")
      BY <1>6, <2>2 DEF PushAllocates
    <3> QED BY <1>6, <2>2, <3>1, <3>2, ConnMoves, MediaBelowSteps DEF PushAllocates
  <2> QED BY <2>1, <2>2
<1>7. CASE PushOpensEncoder
  <2>1. next["push"] \in Index
    BY <1>7, NAssumption DEF PushOpensEncoder, Index
  <2>2. ASSUME UNCHANGED <<conn, partial>>,
               next' = [next EXCEPT !["push"] = next["push"] + 1],
               codec_ctx' = [codec_ctx EXCEPT !["push"] =
                 IF streams[next["push"]] \in Media THEN @ \union {next["push"]} ELSE @]
        PROVE  PushComplete'
    <3>1. next'["push"] = next["push"] + 1
          /\ UNCHANGED <<pc, disturbed, stream_ctx, streams>>
      BY <1>7, <2>2 DEF PushOpensEncoder
    <3>2. ~partial /\ ~disturbed => codec_ctx["push"] = MediaBelow(next["push"], streams)
      BY <1>7 DEF PushOpensEncoder
    <3>3. MediaBelow(next["push"] + 1, streams) =
            IF streams[next["push"]] \in Media
            THEN MediaBelow(next["push"], streams) \union {next["push"]}
            ELSE MediaBelow(next["push"], streams)
      BY ONLY <2>1, MediaBelowSteps
    <3>4. ~partial /\ ~disturbed => codec_ctx'["push"] = MediaBelow(next'["push"], streams)
      BY <2>2, <3>1, <3>2, <3>3
    <3> QED BY <1>7, <2>2, <3>1, <3>4 DEF PushOpensEncoder
  <2>3. CASE ConnGoto("push", "failed")
    BY <1>7, <2>3, ConnMoves DEF PushOpensEncoder
  <2>4. CASE partial'
    BY <2>4
  <2> QED BY ONLY <1>7, <2>2, <2>3, <2>4 DEF PushOpensEncoder
<1>8. CASE PushConnectFaults
  BY <1>8, GotoMoves, ConnMoves
     DEF PushConnectFaults
<1>9. CASE PushWritesHeader
  <2>1. ~disturbed => context["pull"] = "open"
    BY <1>9 DEF PushWritesHeader, PullComplete, PullUp
  <2>2. ~disturbed => next["push"] = N + 1
    BY <1>9, <2>1, NAssumption DEF PushWritesHeader
  <2> QED BY <1>9, <2>2, ConnMoves, MediaBelowSteps DEF PushWritesHeader
<1>10. CASE \/ StarterConnected("pull", "connect_pull", "launch")
            \/ StarterConnected("push", "connect_push", "launch_push")
  BY <1>10, GotoMoves, ConnMoves
     DEF StarterConnected
<1>11. CASE StarterLaunchesPull \/ StarterRecords \/ StarterLaunchesPush
  BY <1>11, GotoMoves, ConnMoves
     DEF StarterLaunchesPull, StarterRecords, StarterLaunchesPush
<1>12. CASE StarterStops \/ StarterJoins \/ StarterDestroys \/ StarterFinishes
  BY <1>12, GotoMoves, ConnMoves
     DEF StarterStops, StarterJoins, StarterDestroys, StarterFinishes
<1>13. CASE PullPrepares \/ PullReads \/ PullReadFails
  BY <1>13, GotoMoves, ConnMoves
     DEF PullPrepares, PullReads, PullReadFails
<1>14. CASE PullReconnects \/ PullDecodes
  BY <1>14, GotoMoves, ConnMoves
     DEF PullReconnects, PullDecodes
<1>15. CASE PullEnds \/ PullPauses
  BY <1>15, GotoMoves, ConnMoves
     DEF PullEnds, PullPauses
<1>16. CASE PushReadsIndex("video", "audio") \/ PushReadsIndex("audio", "prepare")
  BY <1>16, GotoMoves, ConnMoves
     DEF PushReadsIndex
<1>17. CASE PushPrepares
  BY <1>17, GotoMoves, ConnMoves
     DEF PushPrepares
<1>18. ASSUME NEW i \in Index, PushEncodes(i)
      PROVE  PushComplete'
  BY <1>18, EncodeMoves
<1>19. CASE PushEnds \/ PushPauses \/ PushJoins
  BY <1>19, GotoMoves, ConnMoves
     DEF PushEnds, PushPauses, PushJoins
<1>20. CASE UNCHANGED vars
  BY <1>20, GotoMoves, ConnMoves
<1> QED
  BY <1>1, <1>2, <1>3, <1>4, <1>5, <1>6, <1>7, <1>8, <1>9, <1>10, <1>11, <1>12, <1>13,
     <1>14, <1>15, <1>16, <1>17, <1>18, <1>19, <1>20
     DEF Next, PullConnection, PushConnection, Starter, Pull, Push, Ended

(* The threads have the indices of the configuration.                      *)
LEMMA IndicesKept ==
  ASSUME TypeOK, Where, Indices, Next
  PROVE  Indices'
<1> USE DEF Indices, NoIndex, Where, Stages, Inner, Connecting, TypeOK, StarterPC,
           PullPC, PushPC, ConnPC, Side, Inside, Fault, Standing, PullLeaves,
           PushLeaves, link, threads, heap, vars
<1>1. CASE Releases("pull") \/ Closes("pull")
  BY <1>1, GotoMoves, ConnMoves
     DEF Releases, Closes
<1>2. CASE PullOpens \/ PullFindsStreams \/ PullAllocates
  BY <1>2, GotoMoves, ConnMoves
     DEF PullOpens, PullFindsStreams, PullAllocates
<1>3. CASE PullOpensDecoder \/ PullSetsVideo \/ PullSetsAudio
  BY <1>3, GotoMoves, ConnMoves
     DEF PullOpensDecoder, PullSetsVideo, PullSetsAudio
<1>4. CASE Releases("push") \/ Closes("push")
  BY <1>4, GotoMoves, ConnMoves
     DEF Releases, Closes
<1>5. CASE PushOpens \/ PushAllocates
  BY <1>5, GotoMoves, ConnMoves
     DEF PushOpens, PushAllocates
<1>6. CASE PushOpensEncoder \/ PushConnectFaults \/ PushWritesHeader
  BY <1>6, GotoMoves, ConnMoves
     DEF PushOpensEncoder, PushConnectFaults, PushWritesHeader
<1>7. CASE \/ StarterConnected("pull", "connect_pull", "launch")
           \/ StarterConnected("push", "connect_push", "launch_push")
  BY <1>7, GotoMoves, ConnMoves
     DEF StarterConnected
<1>8. CASE StarterLaunchesPull
  BY <1>8, GotoMoves, ConnMoves
     DEF StarterLaunchesPull
<1>9. CASE StarterRecords
  BY <1>9, GotoMoves, ConnMoves
     DEF StarterRecords
<1>10. CASE StarterLaunchesPush
  BY <1>10, GotoMoves, ConnMoves
     DEF StarterLaunchesPush
<1>11. CASE StarterStops \/ StarterJoins \/ StarterDestroys \/ StarterFinishes
  BY <1>11, GotoMoves, ConnMoves
     DEF StarterStops, StarterJoins, StarterDestroys, StarterFinishes
<1>12. CASE PullPrepares \/ PullReads \/ PullReadFails
  BY <1>12, GotoMoves, ConnMoves
     DEF PullPrepares, PullReads, PullReadFails
<1>13. CASE PullReconnects \/ PullDecodes
  BY <1>13, GotoMoves, ConnMoves
     DEF PullReconnects, PullDecodes
<1>14. CASE PullEnds \/ PullPauses
  BY <1>14, GotoMoves, ConnMoves
     DEF PullEnds, PullPauses
<1>15. CASE PushReadsIndex("video", "audio")
  <2>1. index'["pull"] = index["pull"] /\ index'["push"]["video"] = config["video"]
    BY <1>15 DEF PushReadsIndex, Media
  <2> QED BY <1>15, <2>1, GotoMoves DEF PushReadsIndex
<1>16. CASE PushReadsIndex("audio", "prepare")
  <2>1. /\ index'["pull"] = index["pull"]
        /\ index'["push"]["audio"] = config["audio"]
        /\ index'["push"]["video"] = index["push"]["video"]
        /\ index'["push"] \in [Media -> 0 .. N]
    BY <1>16 DEF PushReadsIndex, Media
  <2>2. ~disturbed => index'["push"] = config
    BY <1>16, <2>1 DEF PushReadsIndex, Media
  <2> QED BY <1>16, <2>1, <2>2, GotoMoves DEF PushReadsIndex
<1>17. CASE PushPrepares
  BY <1>17, GotoMoves, ConnMoves
     DEF PushPrepares
<1>18. ASSUME NEW i \in Index, PushEncodes(i)
      PROVE  Indices'
  BY <1>18, EncodeMoves
<1>19. CASE PushEnds \/ PushPauses \/ PushJoins
  BY <1>19, GotoMoves, ConnMoves
     DEF PushEnds, PushPauses, PushJoins
<1>20. CASE UNCHANGED vars
  BY <1>20, GotoMoves, ConnMoves
<1> QED
  BY <1>1, <1>2, <1>3, <1>4, <1>5, <1>6, <1>7, <1>8, <1>9, <1>10, <1>11, <1>12, <1>13,
     <1>14, <1>15, <1>16, <1>17, <1>18, <1>19, <1>20
     DEF Next, PullConnection, PushConnection, Starter, Pull, Push, Ended

(* While nothing has been disturbed, a push stream has a complete pull     *)
(* stream, and the indices of the threads name its streams.                *)
LEMMA Undisturbed ==
  ASSUME TypeOK, Where, PullComplete, Indices, ~disturbed, pc.pull # "none"
  PROVE  /\ pc.pull \in {"prepare", "read", "decode"} /\ PullUp
         /\ \A k \in Media : ConfigNames(k)
  BY DEF TypeOK, PullPC, Where, Stages, PullComplete

(* No fault without a disturbance.                                         *)
LEMMA SafeKept ==
  ASSUME TypeOK, Where, MemoryKept, ReleasedOnce, PullComplete, PushComplete, Indices,
         SafeUndisturbed, fault = "none", Next
  PROVE  SafeUndisturbed'
<1> USE DEF SafeUndisturbed, Where, Stages, Inner, Connecting, TypeOK, StarterPC,
           PullPC, PushPC, ConnPC, Side, Inside, Fault, Standing, PullLeaves,
           PushLeaves, link, threads, heap, vars
<1>1. CASE Releases("pull")
  BY <1>1 DEF Releases, ReleasedOnce
<1>2. CASE Closes("pull")
  BY <1>2
     DEF Closes
<1>3. CASE PullOpens \/ PullFindsStreams \/ PullAllocates
  BY <1>3
     DEF PullOpens, PullFindsStreams, PullAllocates
<1>4. CASE PullOpensDecoder \/ PullSetsVideo \/ PullSetsAudio
  BY <1>4
     DEF PullOpensDecoder, PullSetsVideo, PullSetsAudio
<1>5. CASE Releases("push")
  BY <1>5 DEF Releases, ReleasedOnce, PushReleasedOnce
<1>6. CASE Closes("push")
  BY <1>6
     DEF Closes
<1>7. CASE PushOpens
  BY <1>7
     DEF PushOpens
<1>8. CASE PushAllocates
  <2>1. pc.pull # "none"
    BY <1>8 DEF PushAllocates
  <2>2. ~disturbed => context["pull"] # "null"
    BY <2>1, Undisturbed DEF PullUp
  <2> QED BY <1>8, <2>2 DEF PushAllocates
<1>9. CASE PushOpensEncoder
  BY <1>9
     DEF PushOpensEncoder
<1>10. CASE PushConnectFaults
  <2>1. ~disturbed => PullUp
    BY <1>10, Undisturbed DEF PushConnectFaults
  <2>2. next["push"] <= N => next["push"] \in Index
    BY NAssumption DEF Index
  <2> QED BY <1>10, <2>1, <2>2 DEF PushConnectFaults, PullUp, AllMedia, PushComplete
<1>11. CASE PushWritesHeader
  BY <1>11
     DEF PushWritesHeader
<1>12. CASE \/ StarterConnected("pull", "connect_pull", "launch")
            \/ StarterConnected("push", "connect_push", "launch_push")
  BY <1>12
     DEF StarterConnected
<1>13. CASE StarterLaunchesPull \/ StarterRecords \/ StarterLaunchesPush
  BY <1>13
     DEF StarterLaunchesPull, StarterRecords, StarterLaunchesPush
<1>14. CASE StarterStops \/ StarterJoins \/ StarterDestroys \/ StarterFinishes
  BY <1>14
     DEF StarterStops, StarterJoins, StarterDestroys, StarterFinishes
<1>15. CASE PullPrepares \/ PullReads \/ PullReadFails
  BY <1>15
     DEF PullPrepares, PullReads, PullReadFails
<1>16. CASE PullReconnects
  BY <1>16
     DEF PullReconnects
<1>17. CASE PullDecodes
  <2>1. ~disturbed => PullUp /\ index["pull"] = config /\ \A k \in Media : ConfigNames(k)
    BY <1>17, Undisturbed DEF PullDecodes, Indices
  <2>2. packet \in Index
    BY <1>17 DEF PullDecodes, Indices
  <2>3. ~disturbed /\ Wanted("pull", packet) => streams[packet] \in Media
    BY <2>1, <2>2, NAssumption DEF Wanted, ConfigNames, Index
  <2> QED BY <1>17, <2>1, <2>2, <2>3 DEF PullDecodes, PullUp, AllMedia
<1>18. CASE PullEnds \/ PullPauses
  BY <1>18
     DEF PullEnds, PullPauses
<1>19. CASE PushReadsIndex("video", "audio") \/ PushReadsIndex("audio", "prepare")
  BY <1>19
     DEF PushReadsIndex
<1>20. CASE PushPrepares
  BY <1>20, Undisturbed DEF PushPrepares, PullUp
<1>21. ASSUME NEW i \in Index, PushEncodes(i)
      PROVE  SafeUndisturbed'
  <2>1. ~disturbed => PullUp /\ index["push"] = config /\ \A k \in Media : ConfigNames(k)
    BY <1>21, Undisturbed DEF PushEncodes, Indices
  <2>2. ~disturbed => streams[i] \in Media
    BY <1>21, <2>1, NAssumption DEF PushEncodes, Wanted, ConfigNames, Index
  <2>3. ~disturbed /\ ~partial => i \in codec_ctx["push"]
    BY <1>21, <2>2 DEF PushEncodes, PushComplete, AllMedia
  <2>4. UNCHANGED <<disturbed, partial>>
    BY <1>21, EncodeMoves
  <2>5. fault' \in {"none", "header"} \/ i \notin codec_ctx["push"]
    BY <1>21 DEF PushEncodes
  <2> QED BY <2>3, <2>4, <2>5
<1>22. CASE PushEnds \/ PushPauses \/ PushJoins
  BY <1>22
     DEF PushEnds, PushPauses, PushJoins
<1>23. CASE UNCHANGED vars
  BY <1>23
<1> QED
  BY <1>1, <1>2, <1>3, <1>4, <1>5, <1>6, <1>7, <1>8, <1>9, <1>10, <1>11, <1>12, <1>13,
     <1>14, <1>15, <1>16, <1>17, <1>18, <1>19, <1>20, <1>21, <1>22, <1>23
     DEF Next, PullConnection, PushConnection, Starter, Pull, Push, Ended

---------------------------------------------------------------------------
(* The theorems.                                                           *)

(* The inductive invariant holds at the start, ...                         *)
LEMMA InitInv == Init => IInv
<1> SUFFICES ASSUME Init PROVE IInv
  OBVIOUS
<1> USE NAssumption, ErrorLimitAssumption
<1>1. TypeOK
  <2>0. Booleans
    BY Zenon DEF Init, Booleans
  <2>1. PcType /\ ConnType /\ FaultType
    BY DEF Init, PcType, ConnType, FaultType, StarterPC, PullPC, PushPC, ConnPC, Side
  <2>2. DataTypes /\ errors \in 0 .. ErrorLimit + 1
    BY DEF Init, DataTypes, Side, Media
  <2> QED BY <2>0, <2>1, <2>2 DEF TypeOK, PcType, ConnType, FaultType, Booleans, DataTypes
<1>2. Where /\ ErrorsCounted
  BY DEF Init, Where, Stages, Inner, ErrorsCounted, Side
<1>3. Kept
  BY DEF Init, Kept, MemoryKept, Memory, Destroyed, Fresh, ReleasedOnce, PushReleasedOnce,
         LostOnce, Side
<1>4. PullComplete /\ PushComplete /\ Indices /\ SafeUndisturbed
  BY DEF Init, PullComplete, PushComplete, Indices, NoIndex, SafeUndisturbed, Side
<1> QED BY <1>1, <1>2, <1>3, <1>4 DEF IInv, Control

(* ... and every step keeps it.                                            *)
LEMMA StepInv == IInv /\ [Next]_vars => IInv'
<1> SUFFICES ASSUME IInv, [Next]_vars PROVE IInv'
  OBVIOUS
<1>1. CASE UNCHANGED vars
  BY <1>1 DEF IInv, Control, TypeOK, Where, Stages, Inner, ErrorsCounted, Kept, MemoryKept,
     Memory, Destroyed, Fresh, ReleasedOnce, PushReleasedOnce, LostOnce, GivenUp,
     Unstarted, PullComplete, PullUp, ConfigNames, PushComplete, Indices, SafeUndisturbed, vars, link, heap, threads
<1>2. CASE Next /\ fault = "none"
  <2>1. Control' /\ Kept'
    BY <1>2, ControlKept, MemoryIsKept, DestroyedIsKept, FreshIsKept, ReleasedIsKept,
         LossIsKept
       DEF IInv, Control, Kept
  <2>2. PullComplete' /\ PushComplete'
    BY <1>2, PullCompleteKept, PushCompleteKept DEF IInv, Control, Kept
  <2>3. Indices' /\ SafeUndisturbed'
    BY <1>2, IndicesKept, SafeKept DEF IInv, Control, Kept
  <2> QED BY <2>1, <2>2, <2>3 DEF IInv
<1>3. CASE Next /\ fault # "none"
  BY <1>1, <1>3 DEF Next, Ended
<1> QED BY <1>1, <1>2, <1>3

(* It holds throughout.                                                    *)
THEOREM ConnectionInvariant == Spec => []IInv
  BY InitInv, StepInv, PTL DEF Spec

(* Every variable keeps its type; the error count of PullStream::start is  *)
(* at most one above the limit.                                            *)
THEOREM ConnectionTypeCorrect == Spec => []TypeOK
<1>1. IInv => TypeOK
  BY DEF IInv, Control
<1> QED BY <1>1, ConnectionInvariant, PTL

(* What connect() of either stream allocates is reachable by the next      *)
(* disconnect() on every path out of connect(), and a destroyed task has   *)
(* given it back, save one codec context for each of the two streams at    *)
(* most: that of the stream of the input at which the last connect(), and  *)
(* no earlier one, gave up.                                                *)
THEOREM MemoryIsOwned == Spec => []Owned
<1>1. IInv => Owned
  BY DEF IInv, Control, Kept, MemoryKept, Memory, Destroyed, LostOnce, Owned, TypeOK, Side
<1> QED BY <1>1, ConnectionInvariant, PTL

(* The codec contexts of the push stream are not freed by both of the      *)
(* disconnect() calls its end brings.                                      *)
THEOREM PushIsReleasedOnce == Spec => []PushReleasedOnce
<1>1. IInv => PushReleasedOnce
  BY DEF IInv, Kept, ReleasedOnce
<1> QED BY <1>1, ConnectionInvariant, PTL

(* The unlocked reads of the pull stream by the push stream, and the array *)
(* pointer that is left behind, are harmless until the pull thread begins  *)
(* to disconnect or a half-way connect() has been taken for a whole one.   *)
THEOREM UndisturbedIsSafe == Spec => []SafeUndisturbed
<1>1. IInv => SafeUndisturbed
  BY DEF IInv
<1> QED BY <1>1, ConnectionInvariant, PTL

(* The pull thread decodes with a complete connection only, however many   *)
(* reconnects it has made.                                                 *)
THEOREM DecoderIsOpen == Spec => []DecoderOpen
<1>1. IInv => DecoderOpen
  BY DEF IInv, PullComplete, PullUp, Indices, AllMedia, DecoderOpen
<1> QED BY <1>1, ConnectionInvariant, PTL

(* Undisturbed, the pull and the push thread work with the same indices,   *)
(* and there is a decoder and an encoder for each.                         *)
THEOREM ThreadsDoAgree == Spec => []ThreadsAgree
<1>1. IInv => ThreadsAgree
  <2> SUFFICES ASSUME IInv, ~disturbed, ~partial, pc.pull \in {"read", "decode"},
                      pc.push = "loop"
               PROVE  ThreadsAgree
    BY DEF ThreadsAgree
  <2>1. PullUp /\ (\A k \in Media : ConfigNames(k))
    BY DEF IInv, PullComplete
  <2>2. index["pull"] = config /\ index["push"] = config
    BY DEF IInv, Indices
  <2>3. \A s \in Side : codec_ctx[s] = AllMedia(streams)
    BY <2>1 DEF IInv, PullUp, PushComplete, Side
  <2>4. ASSUME NEW k \in Media, config[k] # 0
        PROVE  streams[config[k]] = k /\ config[k] \in AllMedia(streams)
    <3>1. config[k] \in Index
      BY <2>4, NAssumption DEF IInv, Control, TypeOK, Index
    <3> QED BY <2>1, <2>4, <3>1 DEF ConfigNames, AllMedia
  <2> QED BY <2>2, <2>3, <2>4 DEF ThreadsAgree
<1> QED BY <1>1, ConnectionInvariant, PTL

---------------------------------------------------------------------------
(* The header of the output.                                               *)

(* A push stream that connect() says is up has its header written until it *)
(* is closed.                                                              *)
HeaderWritten ==
  ~partial =>
    /\ conn["push"] = "up" \/ pc.starter = "launch_push"
       \/ pc.push \in {"video", "audio", "prepare", "loop"} => header
    /\ pc.push # "none" => header \/ context["push"] = "null"

HInv == HeaderWritten /\ HeaderFirst

LEMMA HeaderKept ==
  ASSUME IInv, HInv, fault = "none", Next
  PROVE  HInv'
<1> USE GotoMoves, ConnMoves
        DEF HInv, HeaderWritten, HeaderFirst, IInv, Control, Side, StarterPC, PullPC, PushPC,
            ConnPC, Inside, Fault, Standing, PullLeaves, PushLeaves, threads, link, heap
<1>1. CASE Closes("push")
  <2>1. context["push"] # "null" /\ ~header =>
          partial \/ (pc.starter = "destroy_push" /\ pc.push = "none")
    BY <1>1 DEF Closes, Kept, Fresh, Where, Stages, Inner
  <2>2. CASE Fault("header")
    BY <1>1, <2>1, <2>2 DEF Closes
  <2>3. CASE ~Fault("header")
    <3>1. /\ UNCHANGED <<pc, partial, fault>> /\ context'["push"] = "null"
          /\ pc.push \notin {"video", "audio", "prepare", "loop"}
          /\ pc.starter # "launch_push" /\ conn'["push"] # "up"
      BY <1>1, <2>3 DEF Closes, TypeOK, Where, Stages, Inner
    <3> QED BY <3>1
  <2> QED BY <2>2, <2>3
<1>2. CASE Releases("pull") \/ Closes("pull") \/ Releases("push")
  BY <1>2 DEF Releases, Closes, TypeOK
<1>3. CASE PullOpens \/ PullFindsStreams \/ PullAllocates
  BY <1>3 DEF PullOpens, PullFindsStreams, PullAllocates, TypeOK
<1>4. CASE PullOpensDecoder \/ PullSetsVideo \/ PullSetsAudio
  BY <1>4 DEF PullOpensDecoder, PullSetsVideo, PullSetsAudio
<1>5. CASE PushOpens \/ PushAllocates
  BY <1>5 DEF PushOpens, PushAllocates, Where, Stages, Inner
<1>6. CASE PushOpensEncoder \/ PushConnectFaults \/ PushWritesHeader
  BY <1>6 DEF PushOpensEncoder, PushConnectFaults, PushWritesHeader, Where, Stages, Inner
<1>7. CASE \/ StarterConnected("pull", "connect_pull", "launch")
           \/ StarterConnected("push", "connect_push", "launch_push")
  BY <1>7 DEF StarterConnected
<1>8. CASE StarterLaunchesPull \/ StarterLaunchesPush
  <2>1. /\ pc'.starter # "launch_push"
        /\ pc'.push = pc.push \/ (pc.starter = "launch_push" /\ pc'.push = "video")
    BY <1>8 DEF StarterLaunchesPull, StarterLaunchesPush, TypeOK
  <2>2. UNCHANGED <<fault, conn, partial, header, context>>
    BY <1>8 DEF StarterLaunchesPull, StarterLaunchesPush
  <2> QED BY <2>1, <2>2
<1>9. CASE StarterRecords \/ StarterStops
  BY <1>9 DEF StarterRecords, StarterStops
<1>10. CASE StarterJoins \/ StarterDestroys \/ StarterFinishes
  BY <1>10 DEF StarterJoins, StarterDestroys, StarterFinishes
<1>11. CASE PullPrepares \/ PullReads \/ PullReadFails
  BY <1>11 DEF PullPrepares, PullReads, PullReadFails
<1>12. CASE PullReconnects \/ PullDecodes
  BY <1>12 DEF PullReconnects, PullDecodes
<1>13. CASE PullEnds \/ PullPauses
  BY <1>13 DEF PullEnds, PullPauses
<1>14. CASE PushReadsIndex("video", "audio") \/ PushReadsIndex("audio", "prepare")
  BY <1>14 DEF PushReadsIndex
<1>15. CASE PushPrepares
  BY <1>15 DEF PushPrepares
<1>16. ASSUME NEW i \in Index, PushEncodes(i) PROVE HInv'
  <2>1. ~partial => header
    BY <1>16 DEF PushEncodes
  <2>2. UNCHANGED <<context, header, partial>> /\ conn'["push"] \in {conn["push"], "release"}
    BY <1>16, EncodeMoves
  <2>3. pc'.starter = pc.starter /\ pc.push # "none" /\ pc'.push \in {pc.push, "end"}
    BY <1>16, EncodeMoves DEF PushEncodes
  <2>4. fault' = "header" => ~header
    BY <1>16 DEF PushEncodes
  <2> QED BY <2>1, <2>2, <2>3, <2>4
<1>17. CASE PushEnds \/ PushPauses \/ PushJoins
  BY <1>17 DEF PushEnds, PushPauses, PushJoins
<1>18. CASE UNCHANGED vars
  BY <1>18 DEF vars
<1> QED
  BY <1>1, <1>2, <1>3, <1>4, <1>5, <1>6, <1>7, <1>8, <1>9, <1>10, <1>11, <1>12, <1>13,
     <1>14, <1>15, <1>16, <1>17, <1>18
     DEF Next, PullConnection, PushConnection, Starter, Pull, Push, Ended

(* Nothing is written to an output before its header, nor its trailer, but *)
(* by the destructor of a push stream that never came up.                  *)
THEOREM HeaderIsFirst == Spec => []HeaderFirst
<1>1. Init => HInv
  BY DEF Init, HInv, HeaderWritten, HeaderFirst
<1>2. IInv /\ HInv /\ [Next]_vars => HInv'
  <2>1. HInv /\ UNCHANGED vars => HInv'
    BY DEF HInv, HeaderWritten, HeaderFirst, vars, link, heap, threads
  <2> QED BY <2>1, HeaderKept DEF Next, Ended
<1>3. HInv => HeaderFirst
  BY DEF HInv
<1> QED BY <1>1, <1>2, <1>3, ConnectionInvariant, PTL DEF Spec

---------------------------------------------------------------------------
(* Who can go on.  The guards of the fair actions; where their disjuncts   *)
(* leave nothing out, as for a decoder that is there or is not, they are   *)
(* one.  Every action assigns all the variables and changes one, so a      *)
(* thread is enabled when its guard holds.                                 *)
PullReady ==
  \/ conn["pull"] \notin Settled
  \/ pc.pull \in {"prepare", "read", "decode"}
  \/ pc.pull = "reconnect" /\ conn["pull"] \in {"up", "failed"}
  \/ pc.pull = "end" /\ conn["pull"] = "out"

PushCallReady ==
  \/ conn["push"] \in {"release", "close", "open", "array"}
  \/ /\ conn["push"] = "codecs"
     /\ \/ context["pull"] \in {"null", "empty"} \/ next["push"] > N
        \/ stream_ctx["pull"] \in {"null", "freed", "live"}

PushReady ==
  \/ pc.push \in {"video", "audio", "prepare"}
  \/ pc.push = "loop" /\ ~m_state
  \/ pc.push = "end" /\ conn["push"] = "out"
  \/ pc.push = "join" /\ pc.pull = "done"

StarterReady ==
  \/ pc.starter = "connect_pull" /\ conn["pull"] \in {"up", "failed"}
  \/ pc.starter = "connect_push" /\ conn["push"] \in {"up", "failed"}
  \/ pc.starter \in {"launch", "record", "launch_push"}
  \/ /\ pc.starter = "join"
     /\ pc.pull \in {"none", "done"} /\ pc.push \in {"none", "done"}
  \/ pc.starter = "destroy_pull" /\ conn["pull"] = "out"
  \/ pc.starter = "destroy_push" /\ conn["push"] = "out"

(* What tlapm has no rule for: an action whose guard holds is ENABLED.     *)
GuardsEnable ==
  fault = "none" =>
    /\ PullReady => ENABLED <<PullMoves>>_vars
    /\ PushCallReady => ENABLED <<PushCalls>>_vars
    /\ PushReady => ENABLED <<PushMoves>>_vars
    /\ StarterReady => ENABLED <<StarterMoves>>_vars

(* Only a push stream can get an array without elements, and it looks for  *)
(* no streams of its own.                                                  *)
CallHasStep == stream_ctx["pull"] # "short" /\ conn["push"] \notin {"info", "audio"}

(* A step of connect() or disconnect() finds its next one.                 *)
LEMMA CallHasStepInvariance == Spec => []CallHasStep
<1>1. Init => CallHasStep
  BY DEF Init, CallHasStep, Side
<1>2. ASSUME IInv, CallHasStep, [Next]_vars PROVE CallHasStep'
  <2> USE ConnMoves DEF CallHasStep, IInv, Control, TypeOK, Side, ConnPC, Inside, Fault, heap,
          link, threads
  <2>1. CASE PullConnection
    BY <1>2, <2>1 DEF PullConnection, Releases, Closes, PullOpens, PullFindsStreams,
        PullAllocates, PullOpensDecoder, PullSetsVideo, PullSetsAudio
  <2>2. CASE PushConnection
    BY <1>2, <2>2 DEF PushConnection, Releases, Closes, PushOpens, PushAllocates,
        PushOpensEncoder, PushConnectFaults, PushWritesHeader
  <2>3. CASE Starter \/ StarterStops
    BY <1>2, <2>3 DEF Starter, StarterConnected, StarterLaunchesPull, StarterRecords,
        StarterLaunchesPush, StarterStops, StarterJoins, StarterDestroys, StarterFinishes,
        Standing
  <2>4. CASE Pull
    BY <1>2, <2>4 DEF Pull, PullPrepares, PullReads, PullReadFails, PullReconnects,
        PullDecodes, PullEnds, PullPauses, PullLeaves
  <2>5. CASE Push
    BY <1>2, <2>5 DEF Push, PushReadsIndex, PushPrepares, PushEncodes, PushEnds, PushPauses,
        PushJoins, PushLeaves
  <2>6. CASE UNCHANGED vars
    BY <1>2, <2>6 DEF vars
  <2> QED BY <1>2, <2>1, <2>2, <2>3, <2>4, <2>5, <2>6 DEF Next, Ended
<1> QED BY <1>1, <1>2, ConnectionInvariant, PTL DEF Spec

(* Every thread that nothing of PullHeldUp, PushHeldUp and StarterHeldUp   *)
(* holds up, and every call under way, finds a guard of its true: whatever *)
(* the pull stream's connection looks like, PushStream::connect has an     *)
(* outcome for it, and a thread that waits for its call is at the label    *)
(* that takes the result.                                                  *)
SomeGuardHolds ==
  /\ PullHeldUp \/ PullReady
  /\ conn["push"] \in Settled \/ PushCallReady
  /\ PushHeldUp \/ PushReady
  /\ StarterHeldUp \/ StarterReady

THEOREM GuardsHold == Spec => []SomeGuardHolds
<1>1. ASSUME IInv, CallHasStep PROVE SomeGuardHolds
  <2> USE <1>1 DEF IInv, Control, TypeOK, Where, Side, ConnPC, Settled
  <2>1. PullHeldUp \/ PullReady
    BY DEF Inner, PullPC, PullHeldUp, PullReady
  <2>2. conn["push"] \in Settled \/ PushCallReady
    BY DEF CallHasStep, PushCallReady
  <2>3. PushHeldUp \/ PushReady
    BY DEF PushPC, PushHeldUp, PushReady
  <2>4. StarterHeldUp \/ StarterReady
    BY DEF Inner, StarterPC, StarterHeldUp, StarterReady
  <2> QED BY <2>1, <2>2, <2>3, <2>4 DEF SomeGuardHolds
<1> QED BY <1>1, ConnectionInvariant, CallHasStepInvariance, PTL

(* No thread of a task waits for anything but what NoThreadStuck names.    *)
THEOREM NothingIsStuck == Spec /\ []GuardsEnable => []NoThreadStuck
<1>1. SomeGuardHolds /\ GuardsEnable => NoThreadStuck
  BY DEF SomeGuardHolds, GuardsEnable, NoThreadStuck
<1> QED BY <1>1, GuardsHold, PTL

---------------------------------------------------------------------------
(* Liveness.  What weak fairness needs to know of a thread, that it is     *)
(* ENABLED, is NoThreadStuck; that connect() and disconnect() return is    *)
(* CallsReturn (EachCallReturns): the theorems start from these.           *)

(* What a step of each thread does to the control of the task.             *)
PullCourse ==
  /\ pc'.starter = pc.starter /\ pc'.push = pc.push
  /\ conn'["push"] = conn["push"]
  /\ m_state' => m_state
  /\ \/ pc'.pull = pc.pull /\ conn["pull"] \notin Settled
     \/ pc.pull = "prepare" /\ pc'.pull \in {"read", "end"}
     \/ pc.pull = "read" /\ m_state /\ pc'.pull \in {"read", "decode", "reconnect"}
     \/ pc.pull = "read" /\ ~m_state /\ pc'.pull = "end"
     \/ pc.pull = "decode" /\ pc'.pull \in {"read", "end"}
     \/ pc.pull = "reconnect" /\ conn["pull"] \in Settled /\ pc'.pull \in {"read", "end"}
     \/ pc.pull = "end" /\ conn["pull"] = "out" /\ pc'.pull = "done"

PushCourse ==
  /\ pc'.starter = pc.starter /\ pc'.pull = pc.pull
  /\ conn'["pull"] = conn["pull"]
  /\ m_state' => m_state
  /\ \/ pc.push = "video" /\ pc'.push = "audio"
     \/ pc.push = "audio" /\ pc'.push = "prepare"
     \/ pc.push = "prepare" /\ pc'.push \in {"loop", "end", "done"}
     \/ pc.push = "loop" /\ m_state /\ pc'.push \in {"loop", "end"}
     \/ pc.push = "loop" /\ ~m_state /\ pc'.push = "end"
     \/ pc.push = "end" /\ conn["push"] = "out" /\ m_state /\ ~m_state' /\ pc'.push = "join"
     \/ pc.push = "end" /\ conn["push"] = "out" /\ ~m_state /\ pc'.push = "done"

CallCourse ==
  /\ UNCHANGED <<pc, m_state>>
  /\ conn["push"] \notin Settled /\ conn'["pull"] = conn["pull"]

Over(t) == pc[t] \in {"none", "done"}

StarterCourse ==
  \/ /\ pc.starter \in {"connect_pull", "launch", "record", "connect_push", "launch_push"}
     /\ pc'.starter \notin {"join", "destroy_pull", "destroy_push", "destroyed"}
     /\ m_state' = m_state /\ pc'.push \in {pc.push, "video"}
  \/ /\ pc.starter \in {"started", "stop"} /\ m_state /\ ~m_state'
     /\ pc'.starter = "join" /\ pc'.pull = pc.pull /\ pc'.push = pc.push
  \/ /\ m_state' = m_state /\ pc'.pull = pc.pull /\ pc'.push = pc.push
     /\ \/ pc.starter = "join" /\ Over("pull") /\ Over("push") /\ pc'.starter = "destroy_pull"
        \/ /\ pc.starter = "destroy_pull" /\ conn["pull"] = "out"
           /\ pc'.starter = "destroy_push"
        \/ /\ pc.starter = "destroy_push" /\ conn["push"] = "out"
           /\ pc'.starter = "destroyed"

Faulted == fault' # "none" /\ UNCHANGED <<pc, conn, m_state>>

LEMMA PullCallAdvances == ASSUME Control, PullConnection PROVE PullCourse \/ Faulted
<1> USE ConnMoves DEF Control, PullCourse, Faulted, Settled, Side, ConnPC, Inside, Fault,
        threads, link
<1>1. CASE Releases("pull") \/ Closes("pull")
  BY <1>1 DEF Releases, Closes
<1>2. CASE PullOpens \/ PullFindsStreams \/ PullAllocates
  BY <1>2 DEF PullOpens, PullFindsStreams, PullAllocates
<1>3. CASE PullOpensDecoder
  BY <1>3 DEF PullOpensDecoder
<1>4. CASE PullSetsVideo \/ PullSetsAudio
  BY <1>4 DEF PullSetsVideo, PullSetsAudio
<1> QED BY <1>1, <1>2, <1>3, <1>4 DEF PullConnection

LEMMA PullAdvances == ASSUME Control, Pull PROVE PullCourse \/ Faulted
<1> USE GotoMoves, ConnMoves DEF Control, PullCourse, Faulted, Settled, Side, ConnPC, PullPC,
        PullLeaves, Fault, threads, link
<1>1. CASE PullPrepares \/ PullReads \/ PullEnds
  BY <1>1 DEF PullPrepares, PullReads, PullEnds
<1>2. CASE PullReadFails
  BY <1>2 DEF PullReadFails
<1>3. CASE PullReconnects
  BY <1>3 DEF PullReconnects
<1>4. CASE PullDecodes
  BY <1>4 DEF PullDecodes
<1>5. CASE PullPauses
  BY <1>5 DEF PullPauses
<1> QED BY <1>1, <1>2, <1>3, <1>4, <1>5 DEF Pull

LEMMA PushCallAdvances == ASSUME Control, PushConnection PROVE CallCourse \/ Faulted
<1> USE ConnMoves DEF Control, CallCourse, Faulted, Settled, Side, ConnPC, Inside, Fault,
        threads, link
<1>1. CASE Releases("push") \/ Closes("push")
  BY <1>1 DEF Releases, Closes
<1>2. CASE PushOpens \/ PushAllocates
  BY <1>2 DEF PushOpens, PushAllocates
<1>3. CASE PushOpensEncoder
  BY <1>3 DEF PushOpensEncoder
<1>4. CASE PushConnectFaults
  BY <1>4 DEF PushConnectFaults
<1>5. CASE PushWritesHeader
  BY <1>5 DEF PushWritesHeader
<1> QED BY <1>1, <1>2, <1>3, <1>4, <1>5 DEF PushConnection

LEMMA PushAdvances == ASSUME Control, Push PROVE PushCourse \/ Faulted
<1> USE GotoMoves, ConnMoves DEF Control, PushCourse, Faulted, Side, ConnPC, PushPC,
        PushLeaves, Fault, threads, link
<1>1. CASE PushReadsIndex("video", "audio") \/ PushReadsIndex("audio", "prepare")
  BY <1>1 DEF PushReadsIndex
<1>2. CASE PushPrepares
  BY <1>2 DEF PushPrepares
<1>3. ASSUME NEW i \in Index, PushEncodes(i) PROVE PushCourse \/ Faulted
  BY <1>3 DEF PushEncodes
<1>4. CASE PushEnds
  BY <1>4 DEF PushEnds
<1>5. CASE PushPauses
  BY <1>5 DEF PushPauses
<1>6. CASE PushJoins
  BY <1>6 DEF PushJoins
<1> QED BY <1>1, <1>2, <1>3, <1>4, <1>5, <1>6 DEF Push

LEMMA StarterAdvances ==
  ASSUME Control, Starter \/ StarterStops
  PROVE  StarterCourse \/ Faulted
<1> USE GotoMoves, ConnMoves DEF Control, StarterCourse, Faulted, Side, ConnPC, StarterPC,
        Over, Standing, Fault, threads, link
<1>1. CASE \/ StarterConnected("pull", "connect_pull", "launch")
           \/ StarterConnected("push", "connect_push", "launch_push")
  BY <1>1 DEF StarterConnected
<1>2. CASE StarterLaunchesPull \/ StarterLaunchesPush
  BY <1>2 DEF StarterLaunchesPull, StarterLaunchesPush, TypeOK
<1>3. CASE StarterRecords
  BY <1>3 DEF StarterRecords
<1>4. CASE StarterStops
  BY <1>4 DEF StarterStops
<1>5. CASE StarterJoins \/ StarterDestroys \/ StarterFinishes
  BY <1>5 DEF StarterJoins, StarterDestroys, StarterFinishes
<1> QED BY <1>1, <1>2, <1>3, <1>4, <1>5 DEF Starter

LEMMA OneThreadMoves ==
  ASSUME IInv, [Next]_vars
  PROVE  \/ fault' # "none" /\ UNCHANGED <<pc, conn, m_state>>
         \/ fault = "none" /\ (PullCourse \/ PushCourse \/ CallCourse \/ StarterCourse)
         \/ UNCHANGED <<fault, pc, conn, m_state>>
<1>1. CASE UNCHANGED vars
  BY <1>1 DEF vars, link, threads
<1> QED BY <1>1, PullCallAdvances, PullAdvances, PushCallAdvances, PushAdvances, StarterAdvances
        DEF Next, Ended, IInv, Faulted

(* How many steps a connect() or disconnect() under way has left at most:  *)
(* one for each stage, and one for each stream still to be opened.         *)
Left(s) ==
  CASE conn[s] = "release" -> N + 7
    [] conn[s] = "close" -> N + 6
    [] conn[s] = "open" -> N + 5
    [] conn[s] = "info" -> N + 4
    [] conn[s] = "array" -> N + 3
    [] conn[s] = "codecs" -> N + 2 - next[s]
    [] OTHER -> 0

Calling(s) == fault = "none" /\ conn[s] \notin Settled

(* That number never falls again and again without growing.  It is a       *)
(* natural number (LeftIsNatural), so no behaviour does this; the temporal *)
(* prover, which does not know of numbers, cannot say so.                  *)
NoEndlessFall(s) ==
  ~ (/\ <>[][Left(s)' <= Left(s)]_vars
     /\ []<><<Left(s)' < Left(s)>>_vars)

LEMMA LeftIsNatural == ASSUME TypeOK, NEW s \in Side PROVE Left(s) \in Nat
<1>1. N \in Nat /\ next[s] \in 1 .. N + 1
  BY NAssumption DEF TypeOK
<1>2. N + 7 \in Nat /\ N + 6 \in Nat /\ N + 5 \in Nat /\ N + 4 \in Nat /\ N + 3 \in Nat
      /\ N + 2 - next[s] \in Nat
  BY <1>1
<1> QED BY <1>2 DEF Left

(* Each step of a call that goes on lowers it, ...                         *)
LEMMA PullCallFalls ==
  ASSUME Control, PullConnection, Calling("pull")'
  PROVE  Left("pull")' < Left("pull")
<1>1. N \in Nat /\ next["pull"] \in 1 .. N + 1
  BY NAssumption DEF Control, TypeOK, Side
<1> USE <1>1, ConnMoves DEF Control, TypeOK, Left, Calling, Settled, Side, ConnPC, Fault
<1>2. CASE Releases("pull") \/ Closes("pull")
  BY <1>2 DEF Releases, Closes
<1>3. CASE PullOpens \/ PullFindsStreams \/ PullAllocates
  BY <1>3 DEF PullOpens, PullFindsStreams, PullAllocates
<1>4. CASE PullOpensDecoder
  BY <1>4 DEF PullOpensDecoder
<1>5. CASE PullSetsVideo \/ PullSetsAudio
  BY <1>5 DEF PullSetsVideo, PullSetsAudio
<1> QED BY <1>2, <1>3, <1>4, <1>5 DEF PullConnection

LEMMA PushCallFalls ==
  ASSUME Control, PushConnection, Calling("push")'
  PROVE  Left("push")' < Left("push")
<1>1. N \in Nat /\ next["push"] \in 1 .. N + 1
  BY NAssumption DEF Control, TypeOK, Side
<1> USE <1>1, ConnMoves DEF Control, TypeOK, Left, Calling, Settled, Side, ConnPC, Fault
<1>2. CASE Releases("push") \/ Closes("push")
  BY <1>2 DEF Releases, Closes
<1>3. CASE PushOpens \/ PushAllocates
  BY <1>3 DEF PushOpens, PushAllocates
<1>4. CASE PushOpensEncoder
  BY <1>4 DEF PushOpensEncoder
<1>5. CASE PushConnectFaults \/ PushWritesHeader
  BY <1>5 DEF PushConnectFaults, PushWritesHeader
<1> QED BY <1>2, <1>3, <1>4, <1>5 DEF PushConnection

(* ... and nobody else takes a step of it or begins it anew: the thread    *)
(* that made the call is in it.                                            *)
LEMMA CallIsLeftAlone ==
  ASSUME Control, NEW s \in Side, conn[s] \notin Settled,
         Starter \/ StarterStops \/ Pull \/ Push
  PROVE  UNCHANGED <<conn[s], next[s]>>
<1> USE ConnMoves DEF Control, TypeOK, Where, Stages, Inner, Settled, Side, ConnPC, Fault, link,
                      threads
<1>1. CASE Starter \/ StarterStops
  BY <1>1 DEF Starter, StarterConnected, StarterLaunchesPull, StarterRecords,
      StarterLaunchesPush, StarterStops, StarterJoins, StarterDestroys, StarterFinishes,
      Standing
<1>2. CASE Pull
  BY <1>2 DEF Pull, PullPrepares, PullReads, PullReadFails, PullReconnects, PullDecodes,
      PullEnds, PullPauses, PullLeaves
<1>3. CASE Push
  BY <1>3 DEF Push, PushReadsIndex, PushPrepares, PushEncodes, PushEnds, PushPauses,
      PushJoins, PushLeaves
<1> QED BY <1>1, <1>2, <1>3

LEMMA CallNeverGrows ==
  ASSUME IInv, NEW s \in Side, Calling(s), Calling(s)', [Next]_vars
  PROVE  Left(s)' <= Left(s)
<1>1. Control /\ Left(s) \in Nat /\ Left(s)' \in Nat
  <2>1. TypeOK' /\ N \in Nat
    BY StepInv, NAssumption DEF IInv, Control
  <2>2. next'[s] \in 1 .. N + 1
    BY <2>1 DEF TypeOK
  <2>3. Left(s)' \in Nat
    BY <2>1, <2>2 DEF Left
  <2> QED BY <2>3, LeftIsNatural DEF IInv, Control
<1>2. UNCHANGED <<conn[s], next[s]>> => Left(s)' = Left(s)
  BY DEF Left
<1>3. CASE PullConnection
  <2>1. s = "push" => UNCHANGED <<conn[s], next[s]>>
    BY <1>1, <1>3, ConnMoves DEF Control, TypeOK, Side, ConnPC, Fault, link, PullConnection,
       Releases, Closes, PullOpens, PullFindsStreams, PullAllocates, PullOpensDecoder,
       PullSetsVideo, PullSetsAudio
  <2> QED BY <1>1, <1>2, <1>3, <2>1, PullCallFalls DEF Side
<1>4. CASE PushConnection
  <2>1. s = "pull" => UNCHANGED <<conn[s], next[s]>>
    BY <1>1, <1>4, ConnMoves DEF Control, TypeOK, Side, ConnPC, Fault, link, PushConnection,
       Releases, Closes, PushOpens, PushAllocates, PushOpensEncoder, PushConnectFaults,
       PushWritesHeader
  <2> QED BY <1>1, <1>2, <1>4, <2>1, PushCallFalls DEF Side
<1>5. CASE Starter \/ StarterStops \/ Pull \/ Push
  BY <1>1, <1>2, <1>5, CallIsLeftAlone DEF Calling
<1>6. CASE UNCHANGED vars
  BY <1>1, <1>2, <1>6 DEF vars, link
<1> QED BY <1>3, <1>4, <1>5, <1>6 DEF Next, Ended

(* While a call goes on, the thread that is in it does nothing else.       *)
LEMMA CallerIsInCall ==
  ASSUME IInv, Calling("pull"), PullMoves
  PROVE  PullConnection
<1> USE DEF IInv, Control, Where, Stages, Inner, Calling, Settled
<1>1. pc.pull \in {"none", "done", "reconnect", "end"}
  BY DEF TypeOK
<1>2. ~Pull
  BY <1>1 DEF Pull, PullPrepares, PullReads, PullReadFails, PullReconnects, PullDecodes,
      PullEnds, PullPauses
<1> QED BY <1>2 DEF PullMoves

(* connect() and disconnect() return, of either stream and whoever calls   *)
(* them, or the process ends: the loops over the streams come to their     *)
(* ends, and no other thread begins a call anew that is under way.         *)
THEOREM EachCallReturns ==
  FairSpec /\ []NoThreadStuck /\ NoEndlessFall("pull") /\ NoEndlessFall("push")
    => CallsReturn
<1> DEFINE Pulls == Calling("pull")
           Pushes == Calling("push")
           PullKeeps == Left("pull")' <= Left("pull")
           PullFalls == Left("pull")' < Left("pull")
           PushKeeps == Left("push")' <= Left("push")
           PushFalls == Left("push")' < Left("push")
<1>1. /\ IInv /\ Pulls /\ Pulls' /\ [Next]_vars => [PullKeeps]_vars
      /\ IInv /\ Pushes /\ Pushes' /\ [Next]_vars => [PushKeeps]_vars
  BY CallNeverGrows DEF Side
<1>2. /\ IInv /\ Pulls /\ Pulls' /\ <<PullMoves>>_vars => <<PullFalls>>_vars
      /\ IInv /\ Pushes /\ Pushes' /\ <<PushCalls>>_vars => <<PushFalls>>_vars
  BY PullCallFalls, PushCallFalls, CallerIsInCall DEF IInv, PushCalls
<1>3. /\ NoThreadStuck /\ Pulls => ENABLED <<PullMoves>>_vars
      /\ NoThreadStuck /\ Pushes => ENABLED <<PushCalls>>_vars
  BY DEF NoThreadStuck, Calling, PullHeldUp
<1>4. /\ ~Pulls => (conn["pull"] \in Settled \/ fault # "none")
      /\ ~Pushes => (conn["push"] \in Settled \/ fault # "none")
  BY DEF Calling
<1>5. /\ NoEndlessFall("pull") => ~(<>[][PullKeeps]_vars /\ []<><<PullFalls>>_vars)
      /\ NoEndlessFall("push") => ~(<>[][PushKeeps]_vars /\ []<><<PushFalls>>_vars)
  BY DEF NoEndlessFall
<1> HIDE DEF Pulls, Pushes, PullKeeps, PullFalls, PushKeeps, PushFalls
<1>6. FairSpec /\ []NoThreadStuck /\ <>[]Pulls =>
        <>[][PullKeeps]_vars /\ []<><<PullFalls>>_vars
  BY <1>1, <1>2, <1>3, ConnectionInvariant, PTL DEF FairSpec, Fairness, Spec
<1>7. FairSpec /\ []NoThreadStuck /\ <>[]Pushes =>
        <>[][PushKeeps]_vars /\ []<><<PushFalls>>_vars
  BY <1>1, <1>2, <1>3, ConnectionInvariant, PTL DEF FairSpec, Fairness, Spec
<1> QED BY <1>4, <1>5, <1>6, <1>7, PTL DEF CallsReturn, Returns

(* While the starter joins, m_state is clear for good, and the push thread *)
(* is not in the pause() that joins itself.                                *)
Stopping ==
  /\ pc.push = "join" => ~m_state
  /\ pc.starter = "join" => ~m_state /\ pc.push # "join"

LInv == IInv /\ Stopping

LEMMA StoppingInvariance == Spec => []LInv
<1>1. Init => Stopping
  BY DEF Init, Stopping
<1>2. IInv /\ Stopping /\ [Next]_vars => Stopping'
  BY OneThreadMoves
     DEF Stopping, PullCourse, PushCourse, CallCourse, StarterCourse
<1> QED BY <1>1, <1>2, ConnectionInvariant, PTL DEF Spec, LInv

(* The task waits for its threads to stop, and one thread is at a label.   *)
Joining == fault = "none" /\ pc.starter = "join"
Reached == fault # "none" \/ pc.starter = "destroy_pull"
PullAt(l) == Joining /\ pc.pull = l
PushAt(l) == Joining /\ pc.push = l
PullOver == Joining /\ Over("pull")
PushOver == Joining /\ Over("push")

(* A step while the task waits for its threads.                            *)
LEMMA JoiningMoves ==
  ASSUME LInv, Joining, [Next]_vars
  PROVE  \/ Reached'
         \/ Joining' /\ ~m_state /\ (PullCourse \/ PushCourse \/ CallCourse)
         \/ Joining' /\ UNCHANGED <<pc, conn>>
  BY OneThreadMoves
     DEF LInv, Stopping, Joining, Reached, PullCourse, PushCourse, CallCourse, StarterCourse

(* What the other threads do leaves the pull thread where it is, and so    *)
(* for the push thread.                                                    *)
LEMMA JoiningPull ==
  ASSUME LInv, Joining, [Next]_vars
  PROVE  \/ Reached'
         \/ Joining' /\ ~m_state /\ PullCourse
         \/ Joining' /\ pc'.pull = pc.pull /\ conn'["pull"] = conn["pull"]
  BY JoiningMoves DEF PushCourse, CallCourse

LEMMA JoiningPush ==
  ASSUME LInv, Joining, [Next]_vars
  PROVE  \/ Reached'
         \/ Joining' /\ ~m_state /\ PushCourse
         \/ Joining' /\ pc'.push = pc.push /\ CallCourse
         \/ Joining' /\ pc'.push = pc.push /\ conn'["push"] = conn["push"]
  BY JoiningMoves DEF PullCourse, CallCourse

(* The threads' own steps while the task waits for them.                   *)
LEMMA JoiningPullMoves ==
  ASSUME LInv, Joining, PullMoves
  PROVE  Reached' \/ (Joining' /\ ~m_state /\ PullCourse)
<1>1. PullCourse \/ Faulted
  BY PullCallAdvances, PullAdvances DEF PullMoves, LInv, IInv
<1>2. [Next]_vars
  BY DEF PullMoves, Next
<1> QED BY <1>1, <1>2, JoiningMoves
        DEF LInv, Stopping, Joining, Reached, Faulted, PullCourse

LEMMA JoiningPushMoves ==
  ASSUME LInv, Joining, PushMoves
  PROVE  Reached' \/ (Joining' /\ ~m_state /\ PushCourse)
<1>1. PushCourse \/ Faulted
  BY PushAdvances DEF PushMoves, LInv, IInv
<1>2. [Next]_vars
  BY DEF PushMoves, Next
<1> QED BY <1>1, <1>2, JoiningMoves
        DEF LInv, Stopping, Joining, Reached, Faulted, PushCourse

(* Where the pull thread is, it is in connect() or disconnect(), or not.   *)
LEMMA JoiningWhere ==
  ASSUME LInv, Joining
  PROVE  /\ pc.pull \in PullPC /\ pc.push \in PushPC \ {"join"}
         /\ pc.pull \notin {"reconnect", "end"} => conn["pull"] = "out"
         /\ pc.pull = "reconnect" => conn["pull"] # "out"
         /\ pc.pull = "end" => conn["pull"] \in {"release", "close", "out"}
         /\ pc.push # "end" => conn["push"] = "out"
         /\ pc.push = "end" => conn["push"] \in {"release", "close", "out"}
  BY DEF LInv, Stopping, Joining, IInv, Control, TypeOK, Where, Inner

LEMMA PullEnabled ==
  ASSUME NoThreadStuck, Joining, pc.pull \notin {"none", "done"} \/ conn["pull"] \notin Settled
  PROVE  ENABLED <<PullMoves>>_vars
  BY DEF NoThreadStuck, PullHeldUp, Joining

LEMMA PushEnabled ==
  ASSUME LInv, NoThreadStuck, Joining, ~Over("push"), pc.push = "end" => conn["push"] = "out"
  PROVE  ENABLED <<PushMoves>>_vars
  BY DEF NoThreadStuck, PushHeldUp, Joining, LInv, Stopping, Over

(* The pull thread ends, wherever the request to stop finds it: a packet   *)
(* or a reconnect under way is its last, then it disconnects.              *)
LEMMA PullStops ==
  FairSpec /\ []NoThreadStuck /\ CallsReturn => (Joining ~> (PullOver \/ Reached))
<1> USE DEF PullAt, PullOver, Over
<1> DEFINE Reconnects == PullAt("reconnect") /\ conn["pull"] \notin Settled
           Reconnected == PullAt("reconnect") /\ conn["pull"] \in Settled
           Ends == PullAt("end") /\ conn["pull"] \notin Settled
           HasEnded == PullAt("end") /\ conn["pull"] \in Settled
           ToEnd == PullAt("read") \/ Ends \/ HasEnded \/ Reached
           Decides == PullAt("prepare") \/ PullAt("decode") \/ Reconnected
<1>1. LInv /\ LInv' /\ Decides /\ [Next]_vars => Decides' \/ ToEnd'
  BY JoiningPull DEF PullCourse
<1>2. LInv /\ LInv' /\ Decides /\ <<PullMoves>>_vars => ToEnd'
  BY JoiningPullMoves, JoiningWhere DEF PullCourse, Settled
<1>3. LInv /\ Reconnects /\ [Next]_vars => Reconnects' \/ Reconnected' \/ Reached'
  BY JoiningPull DEF PullCourse
<1>4. LInv /\ LInv' /\ PullAt("read") /\ [Next]_vars =>
        PullAt("read")' \/ Ends' \/ HasEnded' \/ Reached'
  BY JoiningPull DEF PullCourse
<1>5. LInv /\ PullAt("read") /\ <<PullMoves>>_vars => Ends' \/ HasEnded' \/ Reached'
  BY JoiningPullMoves, JoiningWhere DEF PullCourse, Settled
<1>6. LInv /\ Ends /\ [Next]_vars => Ends' \/ HasEnded' \/ Reached'
  BY JoiningPull DEF PullCourse, Settled
<1>7. LInv /\ HasEnded /\ [Next]_vars => HasEnded' \/ PullOver' \/ Reached'
  BY JoiningPull, JoiningWhere DEF PullCourse, Settled
<1>8. LInv /\ HasEnded /\ <<PullMoves>>_vars => PullOver' \/ Reached'
  BY JoiningPullMoves, JoiningWhere DEF PullCourse, Settled
<1>9. /\ NoThreadStuck /\ Decides => ENABLED <<PullMoves>>_vars
      /\ NoThreadStuck /\ PullAt("read") => ENABLED <<PullMoves>>_vars
      /\ NoThreadStuck /\ HasEnded => ENABLED <<PullMoves>>_vars
  BY PullEnabled
<1>10. /\ Reconnects \/ Ends => conn["pull"] \notin Settled
       /\ Reconnects \/ Ends => ~(conn["pull"] \in Settled \/ fault # "none")
  BY DEF Joining
<1>11. LInv /\ Joining => Decides \/ ToEnd \/ Reconnects \/ PullOver
  BY JoiningWhere DEF PullPC
<1> HIDE DEF Reconnects, Reconnected, Ends, HasEnded, Decides, PullAt, PullOver
<1>12. FairSpec /\ []NoThreadStuck => [](Decides => <>ToEnd)
  BY <1>1, <1>2, <1>9, StoppingInvariance, PTL DEF FairSpec, Fairness, Spec
<1>13. FairSpec /\ CallsReturn => [](Reconnects => <>(Reconnected \/ Reached))
  BY <1>3, <1>10, StoppingInvariance, PTL DEF FairSpec, Spec, CallsReturn, Returns
<1>14. FairSpec /\ []NoThreadStuck => [](PullAt("read") => <>(Ends \/ HasEnded \/ Reached))
  BY <1>4, <1>5, <1>9, StoppingInvariance, PTL DEF FairSpec, Fairness, Spec
<1>15. FairSpec /\ CallsReturn => [](Ends => <>(HasEnded \/ Reached))
  BY <1>6, <1>10, StoppingInvariance, PTL DEF FairSpec, Spec, CallsReturn, Returns
<1>16. FairSpec /\ []NoThreadStuck => [](HasEnded => <>(PullOver \/ Reached))
  BY <1>7, <1>8, <1>9, StoppingInvariance, PTL DEF FairSpec, Fairness, Spec
<1>17. Reconnected => Decides
  BY DEF Decides
<1> QED BY <1>11, <1>12, <1>13, <1>14, <1>15, <1>16, <1>17, StoppingInvariance, PTL
        DEF FairSpec

(* The push thread ends too: it starts its loop at most once more.         *)
LEMMA PushStops ==
  FairSpec /\ []NoThreadStuck /\ CallsReturn => (Joining ~> (PushOver \/ Reached))
<1> USE DEF PushAt, PushOver, Over
<1> DEFINE Ends == PushAt("end") /\ conn["push"] \notin Settled
           HasEnded == PushAt("end") /\ conn["push"] \in Settled
           ToOver == Ends \/ HasEnded \/ PushOver \/ Reached
<1>1. LInv /\ PushAt("video") /\ [Next]_vars => PushAt("video")' \/ PushAt("audio")' \/ Reached'
  BY JoiningPush DEF PushCourse
<1>2. LInv /\ PushAt("video") /\ <<PushMoves>>_vars => PushAt("audio")' \/ Reached'
  BY JoiningPushMoves DEF PushCourse
<1>3. LInv /\ PushAt("audio") /\ [Next]_vars =>
        PushAt("audio")' \/ PushAt("prepare")' \/ Reached'
  BY JoiningPush DEF PushCourse
<1>4. LInv /\ PushAt("audio") /\ <<PushMoves>>_vars => PushAt("prepare")' \/ Reached'
  BY JoiningPushMoves DEF PushCourse
<1>5. LInv /\ PushAt("prepare") /\ [Next]_vars =>
        PushAt("prepare")' \/ PushAt("loop")' \/ ToOver'
  BY JoiningPush DEF PushCourse
<1>6. LInv /\ PushAt("prepare") /\ <<PushMoves>>_vars => PushAt("loop")' \/ ToOver'
  BY JoiningPushMoves DEF PushCourse
<1>7. LInv /\ PushAt("loop") /\ [Next]_vars => PushAt("loop")' \/ ToOver'
  BY JoiningPush DEF PushCourse
<1>8. LInv /\ PushAt("loop") /\ <<PushMoves>>_vars => ToOver'
  BY JoiningPushMoves DEF PushCourse
<1>9. LInv /\ Ends /\ [Next]_vars => Ends' \/ HasEnded' \/ Reached'
  BY JoiningPush DEF PushCourse, Settled
<1>10. LInv /\ HasEnded /\ [Next]_vars => HasEnded' \/ PushOver' \/ Reached'
  BY JoiningPush, JoiningWhere DEF PushCourse, CallCourse, Settled
<1>11. LInv /\ HasEnded /\ <<PushMoves>>_vars => PushOver' \/ Reached'
  BY JoiningPushMoves, JoiningWhere DEF PushCourse, Settled
<1>12. /\ LInv /\ NoThreadStuck /\ PushAt("video") => ENABLED <<PushMoves>>_vars
       /\ LInv /\ NoThreadStuck /\ PushAt("audio") => ENABLED <<PushMoves>>_vars
       /\ LInv /\ NoThreadStuck /\ PushAt("prepare") => ENABLED <<PushMoves>>_vars
       /\ LInv /\ NoThreadStuck /\ PushAt("loop") => ENABLED <<PushMoves>>_vars
  BY PushEnabled
<1>13. LInv /\ NoThreadStuck /\ HasEnded => ENABLED <<PushMoves>>_vars
  BY PushEnabled, JoiningWhere DEF Settled
<1>14. /\ Ends => conn["push"] \notin Settled
       /\ Ends => ~(conn["push"] \in Settled \/ fault # "none")
  BY DEF Joining
<1>15. LInv /\ Joining =>
         PushAt("video") \/ PushAt("audio") \/ PushAt("prepare") \/ PushAt("loop") \/ ToOver
  BY JoiningWhere DEF PushPC
<1> HIDE DEF Ends, HasEnded, PushAt, PushOver
<1>16. FairSpec /\ []NoThreadStuck => [](PushAt("video") => <>(PushAt("audio") \/ Reached))
  BY <1>1, <1>2, <1>12, StoppingInvariance, PTL DEF FairSpec, Fairness, Spec
<1>17. FairSpec /\ []NoThreadStuck => [](PushAt("audio") => <>(PushAt("prepare") \/ Reached))
  BY <1>3, <1>4, <1>12, StoppingInvariance, PTL DEF FairSpec, Fairness, Spec
<1>18. FairSpec /\ []NoThreadStuck => [](PushAt("prepare") => <>(PushAt("loop") \/ ToOver))
  BY <1>5, <1>6, <1>12, StoppingInvariance, PTL DEF FairSpec, Fairness, Spec
<1>19. FairSpec /\ []NoThreadStuck => [](PushAt("loop") => <>ToOver)
  BY <1>7, <1>8, <1>12, StoppingInvariance, PTL DEF FairSpec, Fairness, Spec
<1>20. FairSpec /\ CallsReturn => [](Ends => <>(HasEnded \/ Reached))
  BY <1>9, <1>14, StoppingInvariance, PTL DEF FairSpec, Spec, CallsReturn, Returns
<1>21. FairSpec /\ []NoThreadStuck => [](HasEnded => <>(PushOver \/ Reached))
  BY <1>10, <1>11, <1>13, StoppingInvariance, PTL DEF FairSpec, Fairness, Spec
<1> QED BY <1>15, <1>16, <1>17, <1>18, <1>19, <1>20, <1>21, StoppingInvariance, PTL
        DEF FairSpec

(* Both have ended, and the starter joins them.                            *)
LEMMA ThreadsAreJoined ==
  FairSpec /\ []NoThreadStuck /\ CallsReturn => (Joining ~> Reached)
<1> USE DEF PullOver, PushOver
<1>1. LInv /\ PullOver /\ [Next]_vars => PullOver' \/ Reached'
  BY JoiningPull, JoiningWhere DEF PullCourse, Over, Settled
<1>2. LInv /\ PushOver /\ [Next]_vars => PushOver' \/ Reached'
  BY JoiningPush, JoiningWhere DEF PushCourse, Over
<1>3. LInv /\ PullOver /\ PushOver /\ <<StarterMoves>>_vars => Reached'
  BY StarterAdvances
     DEF StarterMoves, StarterCourse, Faulted, Reached, Joining, LInv, IInv
<1>4. NoThreadStuck /\ PullOver /\ PushOver => ENABLED <<StarterMoves>>_vars
  BY DEF NoThreadStuck, StarterHeldUp, Joining, Over
<1>5. PullOver => Joining
  OBVIOUS
<1> HIDE DEF PullOver, PushOver
<1>6. FairSpec /\ []NoThreadStuck => [](PullOver /\ PushOver => <>Reached)
  BY <1>1, <1>2, <1>3, <1>4, StoppingInvariance, PTL DEF FairSpec, Fairness, Spec
<1> QED BY <1>1, <1>2, <1>5, <1>6, PullStops, PushStops, StoppingInvariance, PTL
        DEF FairSpec, Spec

(* The destructor gives the connections back.                              *)
Gone == pc.starter = "destroyed" \/ fault # "none"

LEMMA ConnectionsAreDestroyed ==
  FairSpec /\ []NoThreadStuck /\ CallsReturn => (Reached ~> Gone)
<1> DEFINE Calls(at, s) == fault = "none" /\ pc.starter = at /\ conn[s] \notin Settled
           Returned(at, s) == fault = "none" /\ pc.starter = at /\ conn[s] \in Settled
           Second == Calls("destroy_push", "push") \/ Returned("destroy_push", "push")
<1>1. LInv /\ Calls("destroy_pull", "pull") /\ [Next]_vars =>
        Calls("destroy_pull", "pull")' \/ Returned("destroy_pull", "pull")' \/ Gone'
  BY OneThreadMoves DEF LInv, Gone, PullCourse, PushCourse, CallCourse, StarterCourse, Settled
<1>2. LInv /\ Returned("destroy_pull", "pull") /\ [Next]_vars =>
        Returned("destroy_pull", "pull")' \/ Second' \/ Gone'
  <2> SUFFICES ASSUME LInv, Returned("destroy_pull", "pull"), [Next]_vars
               PROVE  Returned("destroy_pull", "pull")' \/ Second' \/ Gone'
    OBVIOUS
  <2>1. Over("pull") /\ Over("push") /\ conn["pull"] = "out"
    BY DEF LInv, IInv, Control, Where, Stages, Inner, Over, Settled
  <2> QED BY <2>1, OneThreadMoves
          DEF LInv, Gone, PullCourse, PushCourse, CallCourse, StarterCourse, Settled, Over
<1>3. LInv /\ Returned("destroy_pull", "pull") /\ <<StarterMoves>>_vars => Second' \/ Gone'
  BY StarterAdvances
     DEF LInv, IInv, StarterMoves, StarterCourse, Faulted, Gone
<1>4. LInv /\ Calls("destroy_push", "push") /\ [Next]_vars =>
        Calls("destroy_push", "push")' \/ Returned("destroy_push", "push")' \/ Gone'
  BY OneThreadMoves DEF LInv, Gone, PullCourse, PushCourse, CallCourse, StarterCourse, Settled
<1>5. LInv /\ Returned("destroy_push", "push") /\ [Next]_vars =>
        Returned("destroy_push", "push")' \/ Gone'
  <2> SUFFICES ASSUME LInv, Returned("destroy_push", "push"), [Next]_vars
               PROVE  Returned("destroy_push", "push")' \/ Gone'
    OBVIOUS
  <2>1. Over("pull") /\ Over("push")
    BY DEF LInv, IInv, Control, Where, Stages, Over
  <2> QED BY <2>1, OneThreadMoves
          DEF LInv, Gone, PullCourse, PushCourse, CallCourse, StarterCourse, Settled, Over
<1>6. LInv /\ Returned("destroy_push", "push") /\ <<StarterMoves>>_vars => Gone'
  BY StarterAdvances
     DEF LInv, IInv, StarterMoves, StarterCourse, Faulted, Gone
<1>7. /\ NoThreadStuck /\ Returned("destroy_pull", "pull") => ENABLED <<StarterMoves>>_vars
      /\ NoThreadStuck /\ Returned("destroy_push", "push") => ENABLED <<StarterMoves>>_vars
  BY DEF NoThreadStuck, StarterHeldUp
<1>8. /\ Calls("destroy_pull", "pull") => ~(conn["pull"] \in Settled \/ fault # "none")
      /\ Calls("destroy_push", "push") => ~(conn["push"] \in Settled \/ fault # "none")
      /\ Calls("destroy_pull", "pull") => conn["pull"] \notin Settled
      /\ Calls("destroy_push", "push") => conn["push"] \notin Settled
  OBVIOUS
<1>9. Reached => Calls("destroy_pull", "pull") \/ Returned("destroy_pull", "pull") \/ Gone
  BY DEF Reached, Gone
<1> HIDE DEF Calls, Returned
<1>10. FairSpec /\ CallsReturn =>
         [](Calls("destroy_pull", "pull") => <>(Returned("destroy_pull", "pull") \/ Gone))
  BY <1>1, <1>8, StoppingInvariance, PTL DEF FairSpec, Spec, CallsReturn, Returns
<1>11. FairSpec /\ []NoThreadStuck => [](Returned("destroy_pull", "pull") => <>(Second \/ Gone))
  BY <1>2, <1>3, <1>7, StoppingInvariance, PTL DEF FairSpec, Fairness, Spec
<1>12. FairSpec /\ CallsReturn =>
         [](Calls("destroy_push", "push") => <>(Returned("destroy_push", "push") \/ Gone))
  BY <1>4, <1>8, StoppingInvariance, PTL DEF FairSpec, Spec, CallsReturn, Returns
<1>13. FairSpec /\ []NoThreadStuck => [](Returned("destroy_push", "push") => <>Gone)
  BY <1>5, <1>6, <1>7, StoppingInvariance, PTL DEF FairSpec, Fairness, Spec
<1> QED BY <1>9, <1>10, <1>11, <1>12, <1>13, PTL

(* A pause or a removal that waits for the threads of a task ends, with    *)
(* the connections given back, wherever it finds the threads: in a         *)
(* reconnect, before their loops, or in their own disconnect().            *)
THEOREM StopEnds == FairSpec /\ []NoThreadStuck /\ CallsReturn => StopCompletes
<1>1. pc.starter = "join" => Joining \/ Gone
  BY DEF Joining, Gone
<1> QED BY <1>1, ThreadsAreJoined, ConnectionsAreDestroyed, PTL DEF StopCompletes, Gone

(* The same from what holds without regard to ENABLED and to numbers.      *)
THEOREM StopEndsFromGuards ==
  FairSpec /\ []GuardsEnable /\ NoEndlessFall("pull") /\ NoEndlessFall("push")
    => StopCompletes
  BY NothingIsStuck, EachCallReturns, StopEnds, PTL DEF FairSpec

---------------------------------------------------------------------------
(* A source that stays away.                                               *)

ErrorsLeft == ErrorLimit + 1 - errors

(* How many read errors are left until a reconnect is a natural number     *)
(* too (TypeOK).                                                           *)
NoEndlessErrors ==
  ~ (/\ <>[][ErrorsLeft' <= ErrorsLeft]_vars
     /\ []<><<ErrorsLeft' < ErrorsLeft>>_vars)

NoPacket == pc.pull # "decode" /\ conn["pull"] # "up"
PullIs(l) == fault = "none" /\ pc.pull = l
PullGone == fault # "none" \/ pc.pull = "done"

(* Nobody else moves the pull thread on, begins or ends its calls, or      *)
(* counts an error.                                                        *)
LEMMA PullThreadAlone ==
  ASSUME IInv, fault = "none", ~Over("pull"), [Next]_vars
  PROVE  PullMoves \/ fault' # "none" \/ UNCHANGED <<fault, pc.pull, conn["pull"], errors>>
<1> USE GotoMoves, ConnMoves DEF IInv, Control, TypeOK, Over, Fault, Inside, link, threads,
        Side, ConnPC
<1>1. CASE PushConnection
  BY <1>1 DEF PushConnection, Releases, Closes, PushOpens, PushAllocates, PushOpensEncoder,
      PushConnectFaults, PushWritesHeader
<1>2. CASE Push
  BY <1>2 DEF Push, PushReadsIndex, PushPrepares, PushEncodes, PushEnds, PushPauses,
      PushJoins, PushLeaves, PushPC
<1>3. CASE Starter \/ StarterStops
  BY <1>3 DEF Starter, StarterConnected, StarterLaunchesPull, StarterRecords,
      StarterLaunchesPush, StarterStops, StarterJoins, StarterDestroys, StarterFinishes,
      Standing, Where, Stages, StarterPC
<1> QED BY <1>1, <1>2, <1>3 DEF Next, Ended, vars, PullMoves

(* What has ended is not launched again.                                   *)
LEMMA PullStaysGone ==
  ASSUME IInv, PullGone, [Next]_vars
  PROVE  PullGone'
<1> USE GotoMoves, ConnMoves DEF IInv, Control, TypeOK, PullGone, Fault, Inside, link, threads
<1>1. CASE PullConnection
  BY <1>1 DEF PullConnection, Releases, Closes, PullOpens, PullFindsStreams, PullAllocates,
      PullOpensDecoder, PullSetsVideo, PullSetsAudio
<1>2. CASE PushConnection
  BY <1>2 DEF PushConnection, Releases, Closes, PushOpens, PushAllocates, PushOpensEncoder,
      PushConnectFaults, PushWritesHeader
<1>3. CASE Starter \/ StarterStops
  BY <1>3 DEF Starter, StarterConnected, StarterLaunchesPull, StarterRecords,
      StarterLaunchesPush, StarterStops, StarterJoins, StarterDestroys, StarterFinishes,
      Standing, Where, Stages, StarterPC
<1>4. CASE Pull
  BY <1>4 DEF Pull, PullPrepares, PullReads, PullReadFails, PullReconnects, PullDecodes,
      PullEnds, PullPauses, PullLeaves, PullPC
<1>5. CASE Push
  BY <1>5 DEF Push, PushReadsIndex, PushPrepares, PushEncodes, PushEnds, PushPauses,
      PushJoins, PushLeaves, PushPC
<1> QED BY <1>1, <1>2, <1>3, <1>4, <1>5 DEF Next, Ended, vars

(* A step of the pull thread that finds no packet and gets no connection.  *)
LEMMA LostPullMoves ==
  ASSUME IInv, PullMoves, NoPacket, NoPacket'
  PROVE  \/ fault' # "none"
         \/ /\ fault' = "none"
            /\ \/ pc.pull = "prepare" /\ pc'.pull \in {"read", "end"}
               \/ pc.pull = "read" /\ pc'.pull = "read" /\ errors' = errors + 1
               \/ pc.pull = "read" /\ pc'.pull \in {"reconnect", "end"}
               \/ pc.pull = "reconnect" /\ conn["pull"] = "failed" /\ pc'.pull = "end"
               \/ pc.pull = "end" /\ conn["pull"] = "out" /\ pc'.pull = "done"
               \/ pc'.pull = pc.pull /\ conn["pull"] \notin Settled
<1> USE GotoMoves, ConnMoves DEF IInv, Control, TypeOK, PullMoves, NoPacket, PullLeaves, Fault,
        Inside, Settled, link, threads, Side, ConnPC, PullPC
<1>1. CASE PullConnection
  BY <1>1 DEF PullConnection, Releases, Closes, PullOpens, PullFindsStreams, PullAllocates,
      PullOpensDecoder, PullSetsVideo, PullSetsAudio
<1>2. CASE PullPrepares \/ PullReads \/ PullEnds
  BY <1>2 DEF PullPrepares, PullReads, PullEnds
<1>3. CASE PullReadFails
  BY <1>3 DEF PullReadFails
<1>4. CASE PullReconnects
  BY <1>4 DEF PullReconnects
<1>5. CASE PullDecodes
  BY <1>5 DEF PullDecodes
<1>6. CASE PullPauses
  BY <1>6 DEF PullPauses
<1> QED BY <1>1, <1>2, <1>3, <1>4, <1>5, <1>6 DEF Pull

LEMMA ReadsSettled == ASSUME IInv, PullIs("read") PROVE conn["pull"] \in Settled
  BY DEF IInv, Control, Where, Stages, Inner, TypeOK, PullIs, Settled

(* A source that stays away does not keep the pull thread busy: its read   *)
(* errors add up to a reconnect, whatever the limit, and a reconnect that  *)
(* fails is its last.                                                      *)
THEOREM LostSourceEndsPull ==
  FairSpec /\ []NoThreadStuck /\ CallsReturn /\ NoEndlessErrors => SourceLost
<1> DEFINE Prepares == PullIs("prepare")
           Reads == PullIs("read")
           Reconnects == PullIs("reconnect") /\ conn["pull"] \notin Settled
           Failed == PullIs("reconnect") /\ conn["pull"] = "failed"
           Ends == PullIs("end") /\ conn["pull"] \notin Settled
           HasEnded == PullIs("end") /\ conn["pull"] = "out"
           ToEnd == Ends \/ HasEnded \/ PullGone
           ToReconnect == Reconnects \/ Failed \/ ToEnd
           Keeps == ErrorsLeft' <= ErrorsLeft
           Falls == ErrorsLeft' < ErrorsLeft
<1> USE DEF PullIs, PullGone
<1>1. IInv /\ NoPacket /\ fault = "none" /\ pc.pull = "reconnect" => Reconnects \/ Failed
  BY DEF IInv, Control, Where, Inner, NoPacket, Settled
<1>2. IInv /\ fault = "none" /\ pc.pull = "end" => Ends \/ HasEnded
  BY DEF IInv, Control, Where, Inner, Settled
<1>3. IInv /\ IInv' /\ NoPacket /\ NoPacket' /\ Prepares /\ [Next]_vars =>
        Prepares' \/ Reads' \/ ToEnd'
  BY PullThreadAlone, LostPullMoves DEF Over, IInv, Control, Where, Inner, Settled
<1>4. IInv /\ IInv' /\ NoPacket /\ NoPacket' /\ Prepares /\ <<PullMoves>>_vars =>
        Reads' \/ ToEnd'
  BY LostPullMoves DEF Over, IInv, Control, Where, Stages, Inner, Settled
<1>5. IInv /\ IInv' /\ NoPacket /\ NoPacket' /\ Reads /\ [Next]_vars =>
        Reads' \/ ToReconnect'
  BY PullThreadAlone, LostPullMoves DEF Over, IInv, Control, Where, Inner, Settled, NoPacket
<1>6. IInv /\ IInv' /\ NoPacket /\ NoPacket' /\ Reads /\ Reads' /\ [Next]_vars => [Keeps]_vars
  <2> SUFFICES ASSUME IInv, IInv', NoPacket, NoPacket', Reads, Reads', [Next]_vars PROVE Keeps
    OBVIOUS
  <2>1. errors' = errors \/ errors' = errors + 1
    BY PullThreadAlone, LostPullMoves, ReadsSettled DEF Over
  <2>2. errors \in Nat /\ ErrorLimit \in Nat
    BY ErrorLimitAssumption DEF IInv, Control, TypeOK
  <2>3. ErrorsLeft' = ErrorLimit + 1 - errors' /\ ErrorsLeft = ErrorLimit + 1 - errors
    BY DEF ErrorsLeft
  <2> HIDE DEF Reads
  <2> QED BY <2>1, <2>2, <2>3
<1>7. IInv /\ IInv' /\ NoPacket /\ NoPacket' /\ Reads /\ Reads' /\ <<PullMoves>>_vars
        => <<Falls>>_vars
  <2> SUFFICES ASSUME IInv, NoPacket, NoPacket', Reads, Reads', PullMoves PROVE Falls
    OBVIOUS
  <2>1. errors' = errors + 1
    BY LostPullMoves, ReadsSettled
  <2>2. errors \in Nat /\ ErrorLimit \in Nat
    BY ErrorLimitAssumption DEF IInv, Control, TypeOK
  <2> QED BY <2>1, <2>2 DEF ErrorsLeft
<1>8. IInv /\ NoPacket /\ NoPacket' /\ IInv' /\ Reconnects /\ [Next]_vars =>
        Reconnects' \/ Failed' \/ ToEnd'
  BY PullThreadAlone, LostPullMoves DEF Over, IInv, Control, Where, Inner, Settled, NoPacket
<1>9. IInv /\ NoPacket /\ NoPacket' /\ IInv' /\ Failed /\ [Next]_vars => Failed' \/ ToEnd'
  BY PullThreadAlone, LostPullMoves DEF Over, IInv, Control, Where, Inner, Settled
<1>10. IInv /\ NoPacket /\ NoPacket' /\ IInv' /\ Failed /\ <<PullMoves>>_vars => ToEnd'
  BY LostPullMoves DEF IInv, Control, Where, Inner, Settled
<1>11. IInv /\ NoPacket /\ NoPacket' /\ IInv' /\ Ends /\ [Next]_vars =>
         Ends' \/ HasEnded' \/ PullGone'
  BY PullThreadAlone, LostPullMoves DEF Over, IInv, Control, Where, Inner, Settled
<1>12. IInv /\ NoPacket /\ NoPacket' /\ HasEnded /\ [Next]_vars => HasEnded' \/ PullGone'
  BY PullThreadAlone, LostPullMoves DEF Over, Settled
<1>13. IInv /\ NoPacket /\ NoPacket' /\ HasEnded /\ <<PullMoves>>_vars => PullGone'
  BY LostPullMoves DEF Settled
<1>14. /\ NoThreadStuck /\ Prepares => ENABLED <<PullMoves>>_vars
       /\ NoThreadStuck /\ Reads => ENABLED <<PullMoves>>_vars
       /\ NoThreadStuck /\ Failed => ENABLED <<PullMoves>>_vars
       /\ NoThreadStuck /\ HasEnded => ENABLED <<PullMoves>>_vars
  BY DEF NoThreadStuck, PullHeldUp
<1>15. /\ Reconnects => conn["pull"] \notin Settled
       /\ Reconnects => ~(conn["pull"] \in Settled \/ fault # "none")
       /\ Ends => conn["pull"] \notin Settled
       /\ Ends => ~(conn["pull"] \in Settled \/ fault # "none")
  OBVIOUS
<1>16. NoEndlessErrors => ~(<>[][Keeps]_vars /\ []<><<Falls>>_vars)
  BY DEF NoEndlessErrors
<1>17. IInv /\ PullGone /\ [Next]_vars => PullGone'
  BY PullStaysGone
<1>18. IInv /\ NoPacket =>
         pc.pull = "none" \/ Prepares \/ Reads \/ Reconnects \/ Failed \/ ToEnd
  BY <1>1, <1>2 DEF IInv, Control, TypeOK, PullPC, NoPacket
<1>19. /\ NoPacket <=> ~(pc.pull = "decode") /\ ~(conn["pull"] = "up")
       /\ PullGone \/ pc.pull = "none" => fault # "none" \/ pc.pull \in {"none", "done"}
       /\ Failed \/ HasEnded => conn["pull"] \in Settled
  BY DEF NoPacket, Settled
<1> HIDE DEF Prepares, Reads, Reconnects, Failed, Ends, HasEnded, PullGone, NoPacket, Keeps,
             Falls
<1>20. FairSpec /\ []NoThreadStuck => [](Prepares /\ []NoPacket => <>(Reads \/ ToEnd))
  BY <1>3, <1>4, <1>14, ConnectionInvariant, PTL DEF FairSpec, Fairness, Spec
<1>21. FairSpec /\ []NoThreadStuck /\ <>[](Reads /\ NoPacket) =>
         <>[][Keeps]_vars /\ []<><<Falls>>_vars
  BY <1>6, <1>7, <1>14, ConnectionInvariant, PTL DEF FairSpec, Fairness, Spec
<1>22. FairSpec /\ []NoThreadStuck /\ NoEndlessErrors =>
         [](Reads /\ []NoPacket => <>ToReconnect)
  BY <1>5, <1>16, <1>21, ConnectionInvariant, PTL DEF FairSpec, Spec
<1>23. FairSpec /\ CallsReturn => [](Reconnects /\ []NoPacket => <>(Failed \/ ToEnd))
  BY <1>8, <1>15, ConnectionInvariant, PTL DEF FairSpec, Spec, CallsReturn, Returns
<1>24. FairSpec /\ []NoThreadStuck => [](Failed /\ []NoPacket => <>ToEnd)
  BY <1>9, <1>10, <1>14, ConnectionInvariant, PTL DEF FairSpec, Fairness, Spec
<1>25. FairSpec /\ CallsReturn => [](Ends /\ []NoPacket => <>(HasEnded \/ PullGone))
  BY <1>11, <1>15, ConnectionInvariant, PTL DEF FairSpec, Spec, CallsReturn, Returns
<1>26. FairSpec /\ []NoThreadStuck => [](HasEnded /\ []NoPacket => <>PullGone)
  BY <1>12, <1>13, <1>14, ConnectionInvariant, PTL DEF FairSpec, Fairness, Spec
<1>27. FairSpec /\ []NoThreadStuck /\ CallsReturn /\ NoEndlessErrors =>
         [](~(pc.pull = "none") /\ []NoPacket => <>PullGone)
  BY <1>18, <1>20, <1>22, <1>23, <1>24, <1>25, <1>26, ConnectionInvariant, PTL
     DEF FairSpec, Spec
<1>28. Spec => [](PullGone => []PullGone)
  BY <1>17, ConnectionInvariant, PTL DEF Spec
<1> QED BY <1>19, <1>27, <1>28, PTL DEF SourceLost, FairSpec

(* The same from what holds without regard to ENABLED and to numbers.      *)
THEOREM LostSourceEndsPullFromGuards ==
  FairSpec /\ []GuardsEnable /\ NoEndlessErrors
    /\ NoEndlessFall("pull") /\ NoEndlessFall("push") => SourceLost
  BY NothingIsStuck, EachCallReturns, LostSourceEndsPull, PTL DEF FairSpec

=============================================================================
