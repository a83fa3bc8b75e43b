---------------------------- MODULE Configuration ----------------------------
(***************************************************************************)
(* The parameters of the server: the command line (Analyzer/main.cpp), the *)
(* configuration file (CMAConfig, Analyzer/src/config.cpp), the task of an *)
(* add request (TaskConfig), and the code that reads them by name and type *)
(* in server.cpp, scheduler.cpp, executor.cpp and stream.cpp.              *)
(*                                                                         *)
(* A ConfigManager holds typed parameters.  get<T>() gives a null pointer  *)
(* for a name that is missing or of another type, and every reader follows *)
(* the pointer; nothing but a run tells whether the names and types agree. *)
(* One request is handled at a time (the server thread is one thread); the *)
(* threads of a task read when it is launched, the scheduler's order of    *)
(* things is in ServerProcess.  Of what ends the process only the reading  *)
(* of parameters is here.                                                  *)
(***************************************************************************)
EXTENDS Integers, FiniteSets

CONSTANTS
  Hosts,     \* what --host may be, "" when it is not given
  Ports,     \* what --port may be, -1 when it is not given
  Files,     \* what the configuration file may hold
  Bodies     \* what the body of a request may hold

ASSUME PortsAssumption == Ports \subseteq Int

(* A JSON object is a function on its names; a text that is not an object  *)
(* has none.  A value is [kind |-> ..., value |-> ...].                    *)
Kind == {"string", "number", "boolean"}
Type == {"string", "boolean", "int", "int64"}

(* get<T>() of a JSON value: numbers are read as int or int64_t, and a     *)
(* boolean as an int too; anything else throws.                            *)
Converts(json, T) ==
  \/ json.kind = T
  \/ json.kind = "number" /\ T \in {"int", "int64"}
  \/ json.kind = "boolean" /\ T = "int"

Converted(json, T) ==
  [type |-> T, value |-> IF json.kind = "boolean" /\ T = "int"
                         THEN (IF json.value THEN 1 ELSE 0)
                         ELSE json.value]

Complete(object, types) == DOMAIN types \subseteq DOMAIN object
Extracts(object, types) ==
  Complete(object, types) /\ \A n \in DOMAIN types : Converts(object[n], types[n])
Extracted(object, types) == [n \in DOMAIN types |-> Converted(object[n], types[n])]

---------------------------------------------------------------------------
(* ConfigManager.                                                          *)

NoParameters == [n \in {} |-> 0]

(* set<T>() exits when the name is there with another type.                *)
MaySet(cfgs, n, T) == n \in DOMAIN cfgs => cfgs[n].type = T

(* Variant: an existing parameter keeps its value.                         *)
Set_Once(cfgs, n, T, v) ==
  [m \in DOMAIN cfgs \union {n} |->
     IF m \in DOMAIN cfgs THEN cfgs[m] ELSE [type |-> T, value |-> v]]

Set(cfgs, n, T, v) ==
  [m \in DOMAIN cfgs \union {n} |->
     IF m = n THEN [type |-> T, value |-> v] ELSE cfgs[m]]

(* get<T>() of each of these names gives a parameter, not null.            *)
Readable(cfgs, types) ==
  \A n \in DOMAIN types : n \in DOMAIN cfgs /\ cfgs[n].type = types[n]

(* param_names of CMAConfig, with the types its constructor converts to.   *)
CMATypes ==
  [server_host |-> "string", server_port |-> "int", cache_dir |-> "string",
   control_executor_maxNum |-> "int", support_hardware_videoDecode |-> "boolean",
   support_hardware_videoEncode |-> "boolean", algorithm_device |-> "string",
   algorithm_instanceNum |-> "int"]

(* Variant: the delay is an int, as the priority is.                       *)
RequestTypes_Narrow ==
  [id |-> "string", priority |-> "int", delay |-> "int",
   pullStream_address |-> "string", pushStream_enable |-> "boolean",
   pushStream_address |-> "string", algorithmCode |-> "string",
   process_minInterval |-> "int64"]

(* What the constructor of TaskConfig takes from the request ...           *)
RequestTypes ==
  [id |-> "string", priority |-> "int", delay |-> "int64",
   pullStream_address |-> "string", pushStream_enable |-> "boolean",
   pushStream_address |-> "string", algorithmCode |-> "string",
   process_minInterval |-> "int64"]

(* ... and what it adds, for the running task to fill in.                  *)
RunTypes ==
  [processFps |-> "int", executorStartTimestamp |-> "int64", videoWidth |-> "int",
   videoHeight |-> "int", videoChannel |-> "int", videoIndex |-> "int",
   videoFps |-> "int", audioIndex |-> "int", audioSampleRate |-> "int",
   audioChannel |-> "int", audioFps |-> "int"]
RunDefault(n) == IF n \in {"videoFps", "audioFps"} THEN -1 ELSE 0

(* Variant: the parameters of the run are left out.                        *)
TaskParameters_Request(object) == Extracted(object, RequestTypes)

TaskParameters(object) ==
  [n \in DOMAIN RequestTypes \union DOMAIN RunTypes |->
     IF n \in DOMAIN RequestTypes THEN Converted(object[n], RequestTypes[n])
     ELSE [type |-> RunTypes[n], value |-> RunDefault(n)]]

(* What the readers ask for.                                               *)
BindReads == [server_host |-> "string", server_port |-> "int"]
LimitReads == [control_executor_maxNum |-> "int"]
CheckReads ==
  [id |-> "string", pullStream_address |-> "string",
   pushStream_enable |-> "boolean", pushStream_address |-> "string"]
ExecutorReads == [id |-> "string", priority |-> "int", delay |-> "int64"]
StreamReads ==
  [pullStream_address |-> "string", pushStream_address |-> "string",
   videoIndex |-> "int", audioIndex |-> "int", videoFps |-> "int", videoWidth |-> "int",
   videoHeight |-> "int", videoChannel |-> "int", audioChannel |-> "int",
   audioSampleRate |-> "int"]

---------------------------------------------------------------------------
VARIABLES
  ended,      \* why the process has ended, "no" while it is up
  pc,         \* how far main, and then the server thread, is
  host, port, \* the options --host and --port
  file,       \* the configuration file
  cma,        \* the parameters of the CMAConfig
  task,       \* the parameters of the TaskConfig under way
  pool,       \* the parameters of the launched tasks, by id
  halfway,    \* history: those whose push connect() returned true half-way
  code        \* result_code of the handler

tasks == <<pool, halfway>>
vars == <<ended, pc, host, port, file, cma, task, tasks, code>>
inputs == <<host, port, file>>

Main == {"arguments", "load", "host", "port", "bind"}
Handler == {"listen", "check", "add", "launch", "erase", "answer"}

TypeOK ==
  /\ ended \in {"no", "exit", "uncaught", "null"}
  /\ pc \in Main \union Handler
  /\ host \in Hosts /\ port \in Ports /\ file \in Files
  /\ cma = NoParameters \/ DOMAIN cma = DOMAIN CMATypes \union {"cfg_path"}
  /\ task = NoParameters \/ DOMAIN task = DOMAIN RequestTypes \union DOMAIN RunTypes
  /\ \A id \in DOMAIN pool : DOMAIN pool[id] = DOMAIN RequestTypes \union DOMAIN RunTypes
  /\ halfway \subseteq DOMAIN pool
  /\ code \in -1 .. 5

Init ==
  /\ ended = "no" /\ pc = "arguments"
  /\ host \in Hosts /\ port \in Ports /\ file \in Files
  /\ cma = NoParameters /\ task = NoParameters
  /\ pool = NoParameters /\ halfway = {}
  /\ code = -1

Ends(kind) == ended' = kind /\ UNCHANGED <<pc, inputs, cma, task, tasks, code>>
Up == ended = "no"

---------------------------------------------------------------------------
(* main().                                                                 *)

Short == -32768 .. 32767

(* The port is scanned as a short: one that does not fit ends the program. *)
ParsesArguments ==
  /\ Up /\ pc = "arguments"
  /\ \/ /\ port \in Short
        /\ pc' = "load" /\ UNCHANGED <<ended, inputs, cma, task, tasks, code>>
     \/ port \notin Short /\ Ends("exit")

(* CMAConfig: a parameter missing from the file (or from what could not be *)
(* parsed) ends the program, one of another type throws.                   *)
LoadsFile ==
  /\ Up /\ pc = "load"
  /\ \/ ~Complete(file, CMATypes) /\ Ends("exit")
     \/ Complete(file, CMATypes) /\ ~Extracts(file, CMATypes) /\ Ends("uncaught")
     \/ /\ Extracts(file, CMATypes)
        /\ cma' = Set(Extracted(file, CMATypes), "cfg_path", "string", "config.json")
        /\ pc' = "host"
        /\ UNCHANGED <<ended, inputs, task, tasks, code>>

OverridesHost ==
  /\ Up /\ pc = "host"
  /\ \/ /\ host = "" \/ MaySet(cma, "server_host", "string")
        /\ cma' = IF host = "" THEN cma ELSE Set(cma, "server_host", "string", host)
        /\ pc' = "port"
        /\ UNCHANGED <<ended, inputs, task, tasks, code>>
     \/ host # "" /\ ~MaySet(cma, "server_host", "string") /\ Ends("exit")

PortGiven == port >= 1024

(* get<short>() is at least 1024: then get<int>() of the same argument     *)
(* follows the null pointer of an any_cast to another type.                *)
OverridesPort ==
  /\ Up /\ pc = "port"
  /\ \/ ~PortGiven /\ pc' = "bind" /\ UNCHANGED <<ended, inputs, cma, task, tasks, code>>
     \/ PortGiven /\ Ends("null")

(* Server::start: the server thread binds the address.                     *)
Binds ==
  /\ Up /\ pc = "bind"
  /\ \/ /\ Readable(cma, BindReads)
        /\ pc' = "listen" /\ UNCHANGED <<ended, inputs, cma, task, tasks, code>>
     \/ ~Readable(cma, BindReads) /\ Ends("null")

---------------------------------------------------------------------------
(* api_addTask.                                                            *)

(* TaskConfig(root): a name that is missing is inserted as null, and the   *)
(* conversion throws, which nobody catches.  What the constructor checks   *)
(* afterwards (check_config) is never missing, and it sets m_state.        *)
ConstructsTask ==
  /\ Up /\ pc = "listen"
  /\ \E body \in Bodies :
       \/ ~Extracts(body, RequestTypes) /\ Ends("uncaught")
       \/ /\ Extracts(body, RequestTypes)
          /\ task' = TaskParameters(body)
          /\ pc' = "check" /\ code' = -1
          /\ UNCHANGED <<ended, inputs, cma, tasks>>

(* Variant: only a task without both is refused.                           *)
Unusable_Both(t) ==
  \/ t["id"].value = "" /\ t["pullStream_address"].value = ""
  \/ t["pushStream_enable"].value /\ t["pushStream_address"].value = ""

Unusable(t) ==
  \/ t["id"].value = "" \/ t["pullStream_address"].value = ""
  \/ t["pushStream_enable"].value /\ t["pushStream_address"].value = ""

(* checkAdd clears the parameters of a task it refuses, which must not be  *)
(* read again; the handler's 1 becomes a 2.                                *)
ChecksTask ==
  /\ Up /\ pc = "check"
  /\ \/ /\ Readable(task, CheckReads) /\ Unusable(task)
        /\ task' = NoParameters
        /\ code' = 2
        /\ pc' = "answer"
        /\ UNCHANGED <<ended, inputs, cma, tasks>>
     \/ /\ Readable(task, CheckReads) /\ ~Unusable(task)
        /\ pc' = "add"
        /\ UNCHANGED <<ended, inputs, cma, task, tasks, code>>
     \/ ~Readable(task, CheckReads) /\ Ends("null")

(* Variant: the pool is not searched for the id.                           *)
AddsTask_Again ==
  /\ Up /\ pc = "add" /\ Readable(task, ExecutorReads)
  /\ pc' = "launch" /\ UNCHANGED <<ended, inputs, cma, task, tasks, code>>

(* TaskScheduler::addTask up to the launch: an id that is known counts as  *)
(* a success, a full pool does not (a negative limit is no limit).         *)
AddsTask ==
  LET reads == Readable(task, [id |-> "string"]) /\ Readable(cma, LimitReads)
      full == cma["control_executor_maxNum"].value \in 0 .. Cardinality(DOMAIN pool)
  IN
  /\ Up /\ pc = "add"
  /\ \/ /\ reads /\ task["id"].value \in DOMAIN pool
        /\ code' = 0 /\ pc' = "answer"
        /\ UNCHANGED <<ended, inputs, cma, task, tasks>>
     \/ /\ reads /\ task["id"].value \notin DOMAIN pool /\ full
        /\ code' = 2 /\ pc' = "answer"
        /\ UNCHANGED <<ended, inputs, cma, task, tasks>>
     \/ /\ reads /\ task["id"].value \notin DOMAIN pool /\ ~full
        /\ pc' = "launch" /\ UNCHANGED <<ended, inputs, cma, task, tasks, code>>
     \/ ~reads /\ Ends("null")

(* The executor is made, put into the map and started: it and its streams  *)
(* read the task's parameters and set those of the run (whose values are   *)
(* left out here).  An empty push address cannot be opened, not even for a *)
(* task that does not want to push; but PushStream::connect may return     *)
(* true before it comes to that (stream.cpp:546-548).                      *)
Runs(half) ==
  LET id == task["id"].value IN
  /\ task["pushStream_address"].value # "" \/ half
  /\ pool' = [i \in DOMAIN pool \union {id} |-> IF i = id THEN task ELSE pool[i]]
  /\ halfway' = IF half THEN halfway \union {id} ELSE halfway \ {id}
  /\ code' = 0 /\ pc' = "answer"
  /\ UNCHANGED <<ended, inputs, cma, task>>

(* If the insertion throws or the launch fails the executor is deleted:    *)
(* ~TaskExecutor deletes the TaskConfig, which clears its parameters.      *)
Launches ==
  LET starts == Readable(task, ExecutorReads) /\ Readable(task, StreamReads)
      sets == MaySet(task, "executorStartTimestamp", "int64")
  IN
  /\ Up /\ pc = "launch"
  /\ \/ starts /\ sets /\ \E half \in BOOLEAN : Runs(half)
     \/ /\ starts /\ sets
        /\ task' = NoParameters
        /\ \/ code' = 2 /\ pc' = "answer"
           \/ code' = 5 /\ pc' = "erase"
        /\ UNCHANGED <<ended, inputs, cma, tasks>>
     \/ starts /\ ~sets /\ Ends("exit")
     \/ ~starts /\ Ends("null")

(* m_executorMap.erase(taskConfig->get_id()) after a launch that failed:   *)
(* the id is read once more.                                               *)
ErasesFailed ==
  /\ Up /\ pc = "erase"
  /\ \/ /\ Readable(task, [id |-> "string"])
        /\ code' = 2 /\ pc' = "answer"
        /\ UNCHANGED <<ended, inputs, cma, task, tasks>>
     \/ ~Readable(task, [id |-> "string"]) /\ Ends("null")

(* The reply.  A configuration that has not become a task is never freed.  *)
Answers ==
  /\ Up /\ pc = "answer"
  /\ pc' = "listen" /\ task' = NoParameters /\ code' = -1
  /\ UNCHANGED <<ended, inputs, cma, tasks>>

(* The other routes take the id of a task from the request; one removes    *)
(* the task.                                                               *)
RemovesTask ==
  /\ Up /\ pc = "listen"
  /\ \E body \in Bodies :
       \/ ~Extracts(body, [id |-> "string"]) /\ Ends("uncaught")
       \/ /\ Extracts(body, [id |-> "string"])
          /\ pool' = [id \in DOMAIN pool \ {body["id"].value} |-> pool[id]]
          /\ halfway' = halfway \ {body["id"].value}
          /\ UNCHANGED <<ended, pc, inputs, cma, task, code>>

Ended == ~Up /\ UNCHANGED vars

Next ==
  \/ ParsesArguments \/ LoadsFile \/ OverridesHost \/ OverridesPort \/ Binds
  \/ ConstructsTask \/ ChecksTask \/ AddsTask \/ Launches \/ ErasesFailed
  \/ Answers \/ RemovesTask \/ Ended

Spec == Init /\ [][Next]_vars

---------------------------------------------------------------------------
(* Properties.                                                             *)

(* Every name and type that a reader asks for, in five files, is one that  *)
(* a constructor has set, and parameters that were cleared are not read,   *)
(* with two exceptions: a --port of 1024 or more (main.cpp:80), and the id *)
(* that addTask asks of the TaskConfig it has just deleted, when a launch  *)
(* has failed (scheduler.cpp:191-193).                                     *)
NoNullParameter == ended = "null" => port >= 1024 \/ pc = "erase"

(* A launched task has the id it is filed under, a pull address, and a push*)
(* address; only a task that did not ask for pushing may be without, and   *)
(* only if its push stream was taken for connected half-way.               *)
PoolUsable ==
  \A id \in DOMAIN pool :
    /\ id # "" /\ pool[id]["id"].value = id
    /\ pool[id]["pullStream_address"].value # ""
    /\ pool[id]["pushStream_address"].value # ""
       \/ (id \in halfway /\ ~pool[id]["pushStream_enable"].value)

(* The server listens where the command line, else the file says; the port *)
(* is always the file's, since no --port gets so far.                      *)
ServesWhereTold ==
  pc \in Handler =>
    /\ cma["server_host"].value = IF host # "" THEN host ELSE file["server_host"].value
    /\ cma["server_port"] = Converted(file["server_port"], "int")

(* main.cpp:32, the help text of --port: "the highest priority, higher     *)
(* than the configuration file".  A port of the range main() accepts is    *)
(* served, and does not end the program instead.                           *)
PortOptionWins ==
  port \in 1024 .. 65535 =>
    /\ pc \in {"arguments", "port"} => ended = "no"
    /\ pc \in Handler => cma["server_port"].value = port

(* A request about the id of a running task, accepted or refused, does not *)
(* touch the parameters its threads work with.                             *)
RunningTaskKept ==
  [][\A id \in DOMAIN pool \intersect DOMAIN pool' : pool'[id] = pool[id]]_vars
=============================================================================
