--------------------------- MODULE MCConfiguration ---------------------------
(***************************************************************************)
(* Configuration for TLC: the file of the repository (Analyzer/config.json)*)
(* and some that differ from it in one member; the same for add requests.  *)
(***************************************************************************)
EXTENDS Configuration

Text(s) == [kind |-> "string", value |-> s]
Number(n) == [kind |-> "number", value |-> n]
Bool(b) == [kind |-> "boolean", value |-> b]
Without(object, n) == [m \in DOMAIN object \ {n} |-> object[m]]

Delivered ==
  [server_host |-> Text("0.0.0.0"), server_port |-> Number(9001),
   cache_dir |-> Text("./output"), control_executor_maxNum |-> Number(200),
   support_hardware_videoDecode |-> Bool(FALSE),
   support_hardware_videoEncode |-> Bool(FALSE),
   algorithm_device |-> Text("cpu"), algorithm_instanceNum |-> Number(1)]

MCFiles ==
  {Delivered, NoParameters, Without(Delivered, "cache_dir"),
   [Delivered EXCEPT !["control_executor_maxNum"] = Number(1)],
   [Delivered EXCEPT !["server_port"] = Text("9001")],
   [Delivered EXCEPT !["server_port"] = Bool(TRUE)]}

Camera ==
  [id |-> Text("camera"), priority |-> Number(0), delay |-> Number(0),
   pullStream_address |-> Text("rtsp"), pushStream_enable |-> Bool(TRUE),
   pushStream_address |-> Text("rtmp"), algorithmCode |-> Text(""),
   process_minInterval |-> Number(30)]

MCBodies ==
  {Camera, NoParameters, Without(Camera, "delay"),
   [Camera EXCEPT !["id"] = Text("door")],
   [Camera EXCEPT !["id"] = Text("")],
   [Camera EXCEPT !["pullStream_address"] = Text("file")],
   [Camera EXCEPT !["pullStream_address"] = Text("")],
   [Camera EXCEPT !["pushStream_address"] = Text("")],
   [Camera EXCEPT !["pushStream_address"] = Text(""), !["pushStream_enable"] = Bool(FALSE)],
   [Camera EXCEPT !["delay"] = Bool(TRUE)]}

MCHosts == {"", "127.0.0.1"}
MCPorts == {-1, 80, 1023, 1024, 9100, 40000}
=============================================================================
