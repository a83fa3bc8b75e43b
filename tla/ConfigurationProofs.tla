------------------------- MODULE ConfigurationProofs -------------------------
(***************************************************************************)
(* Proofs about Configuration, for any options, any configuration files    *)
(* and any requests.                                                       *)
(***************************************************************************)
EXTENDS Configuration, TLAPS

AllNames == DOMAIN RequestTypes \union DOMAIN RunTypes

(* Parameters that give what is asked for under each of these names.       *)
TaskTyped(t) == Readable(t, RequestTypes) /\ Readable(t, RunTypes)

Loaded == {"host", "port", "bind"} \union Handler

(* The server's parameters, from the file to the overrides.                *)
ServerTyped == pc \in Loaded => Readable(cma, CMATypes)

Overridden ==
  /\ pc \in Loaded => cma["server_port"] = Converted(file["server_port"], "int")
  /\ pc = "host" => cma["server_host"].value = file["server_host"].value
  /\ pc \in Loaded \ {"host"} =>
       cma["server_host"].value = IF host # "" THEN host ELSE file["server_host"].value

(* The task of the request under way, as far as it has been looked at.     *)
TaskLookedAt ==
  /\ pc \in {"check", "add", "launch"} => TaskTyped(task)
  /\ pc \in {"add", "launch"} => ~Unusable(task)
  /\ pc = "launch" => task["id"].value \notin DOMAIN pool
  /\ pc = "erase" => task = NoParameters

IInv ==
  TypeOK /\ ServerTyped /\ Overridden /\ TaskLookedAt /\ NoNullParameter /\ PoolUsable

---------------------------------------------------------------------------
(* The names and types that are asked for are among those that are set.    *)
LEMMA NamesAndTypes ==
  /\ \A cfgs : Readable(cfgs, CMATypes) =>
       /\ Readable(cfgs, BindReads) /\ Readable(cfgs, LimitReads)
       /\ MaySet(cfgs, "server_host", "string")
  /\ \A t : TaskTyped(t) =>
       /\ Readable(t, CheckReads) /\ Readable(t, [id |-> "string"])
       /\ Readable(t, ExecutorReads) /\ Readable(t, StreamReads)
       /\ MaySet(t, "executorStartTimestamp", "int64")
<1>1. ASSUME NEW cfgs, Readable(cfgs, CMATypes)
      PROVE  /\ Readable(cfgs, BindReads) /\ Readable(cfgs, LimitReads)
             /\ MaySet(cfgs, "server_host", "string")
  BY <1>1 DEF Readable, MaySet, CMATypes, BindReads, LimitReads
<1>2. ASSUME NEW t, TaskTyped(t)
      PROVE  /\ Readable(t, CheckReads) /\ Readable(t, [id |-> "string"])
             /\ Readable(t, ExecutorReads)
  BY <1>2 DEF TaskTyped, Readable, RequestTypes, CheckReads, ExecutorReads
<1>3. ASSUME NEW t, TaskTyped(t)
      PROVE  Readable(t, StreamReads) /\ MaySet(t, "executorStartTimestamp", "int64")
  BY <1>3 DEF TaskTyped, Readable, MaySet, RequestTypes, RunTypes, StreamReads
<1> QED BY <1>1, <1>2, <1>3

(* A port that is no short ends the program; else the file is next.        *)
LEMMA Parsing ==
  ASSUME ParsesArguments
  PROVE  /\ Up
         /\ \/ pc' = "load" /\ UNCHANGED <<ended, inputs, cma, task, tasks, code>>
            \/ Ends("exit")
  BY Zenon DEF ParsesArguments

(* So does a port that main() would take.                                  *)
LEMMA PortOverriding ==
  ASSUME OverridesPort
  PROVE  /\ pc = "port"
         /\ \/ pc' = "bind" /\ UNCHANGED <<ended, inputs, cma, task, tasks, code>>
            \/ PortGiven /\ Ends("null")
  BY Zenon DEF OverridesPort

(* The file is turned into parameters, or the program ends.                *)
LEMMA Loading ==
  ASSUME LoadsFile
  PROVE  \/ /\ DOMAIN cma' = DOMAIN CMATypes \union {"cfg_path"}
            /\ \A n \in DOMAIN CMATypes : cma'[n] = Converted(file[n], CMATypes[n])
            /\ pc' = "host" /\ UNCHANGED <<ended, inputs, task, tasks, code>>
         \/ \E kind \in {"exit", "uncaught"} : Ends(kind)
<1> DEFINE parameters == Extracted(file, CMATypes)
<1>1. \/ /\ cma' = Set(parameters, "cfg_path", "string", "config.json")
         /\ pc' = "host" /\ UNCHANGED <<ended, inputs, task, tasks, code>>
      \/ \E kind \in {"exit", "uncaught"} : Ends(kind)
  BY DEF LoadsFile
<1>2. /\ DOMAIN parameters = DOMAIN CMATypes
      /\ \A n \in DOMAIN CMATypes : parameters[n] = Converted(file[n], CMATypes[n])
  BY DEF Extracted
<1>3. \A n \in DOMAIN CMATypes : n # "cfg_path"
  BY DEF CMATypes
<1>4. ASSUME cma' = Set(parameters, "cfg_path", "string", "config.json")
      PROVE  /\ DOMAIN cma' = DOMAIN CMATypes \union {"cfg_path"}
             /\ \A n \in DOMAIN CMATypes : cma'[n] = Converted(file[n], CMATypes[n])
  <2> HIDE DEF parameters
  <2> QED BY <1>2, <1>3, <1>4 DEF Set
<1> QED BY <1>1, <1>4

(* The option replaces the host and nothing else.                          *)
LEMMA Overriding ==
  ASSUME OverridesHost, Readable(cma, CMATypes)
  PROVE  /\ DOMAIN cma' = DOMAIN cma
         /\ \A n \in DOMAIN cma : n # "server_host" => cma'[n] = cma[n]
         /\ Readable(cma', CMATypes)
         /\ pc' = "port" /\ UNCHANGED <<ended, inputs, task, tasks, code>>
         /\ host # "" => cma'["server_host"].value = host
         /\ host = "" => cma' = cma
<1>1. "server_host" \in DOMAIN cma /\ MaySet(cma, "server_host", "string")
      /\ CMATypes["server_host"] = "string"
  BY DEF Readable, MaySet, CMATypes
<1>2. /\ cma' = IF host = "" THEN cma ELSE Set(cma, "server_host", "string", host)
      /\ pc' = "port" /\ UNCHANGED <<ended, inputs, task, tasks, code>>
  BY <1>1 DEF OverridesHost
<1>3. CASE host = ""
  BY <1>2, <1>3
<1>4. CASE host # ""
  <2>1. cma' = Set(cma, "server_host", "string", host)
    BY <1>2, <1>4
  <2>2. /\ DOMAIN cma' = DOMAIN cma
        /\ cma'["server_host"] = [type |-> "string", value |-> host]
        /\ \A n \in DOMAIN cma : n # "server_host" => cma'[n] = cma[n]
    BY <1>1, <2>1 DEF Set
  <2>3. Readable(cma', CMATypes)
    BY <1>1, <2>2 DEF Readable
  <2>4. cma'["server_host"].value = host
    BY <2>2
  <2> QED BY <1>2, <1>4, <2>2, <2>3, <2>4
<1> QED BY <1>3, <1>4

(* A conversion has the type asked for; a string is what it is.            *)
LEMMA Conversions ==
  ASSUME NEW json
  PROVE  /\ \A T : Converted(json, T).type = T
         /\ Converted(json, "string").value = json.value
  BY DEF Converted

(* Parameters converted from an object have the types asked for.           *)
LEMMA ReadableConversions ==
  ASSUME NEW cfgs, NEW object, NEW types,
         \A n \in DOMAIN types : n \in DOMAIN cfgs
                               /\ cfgs[n] = Converted(object[n], types[n])
  PROVE  Readable(cfgs, types)
<1>1. ASSUME NEW n \in DOMAIN types
      PROVE  cfgs[n].type = types[n]
  <2>1. cfgs[n] = Converted(object[n], types[n])
    OBVIOUS
  <2>2. Converted(object[n], types[n]).type = types[n]
    BY Conversions
  <2> QED BY <2>1, <2>2
<1> QED BY <1>1 DEF Readable

(* The parameters of a task, from the request and for the run.             *)
LEMMA TaskParametersTyped ==
  ASSUME NEW object
  PROVE  DOMAIN TaskParameters(object) = AllNames /\ TaskTyped(TaskParameters(object))
<1>1. \A n \in DOMAIN RunTypes : n \notin DOMAIN RequestTypes
  BY DEF RunTypes, RequestTypes
<1> QED BY <1>1 DEF TaskParameters, AllNames, TaskTyped, Readable, Converted

---------------------------------------------------------------------------
(* Each part of the invariant is kept.                                     *)

(* The variables keep their types.                                         *)
LEMMA TypesKept ==
  ASSUME TypeOK, ServerTyped, TaskLookedAt, Next
  PROVE  TypeOK'
<1> USE DEF TypeOK, Main, Ends, Up, inputs, tasks, vars, Handler
<1>1. CASE ParsesArguments
  BY <1>1, Parsing
<1>2. CASE LoadsFile
  BY <1>2, Loading
<1>3. CASE OverridesHost
  <2>1. cma # NoParameters
    BY <1>3 DEF OverridesHost, ServerTyped, Loaded, Readable, CMATypes, NoParameters
  <2> QED BY <1>3, <2>1, Overriding DEF OverridesHost, ServerTyped, Loaded
<1>4. CASE OverridesPort
  BY <1>4, PortOverriding
<1>5. CASE Binds
  BY <1>5 DEF Binds
<1>6. CASE ConstructsTask
  BY <1>6, TaskParametersTyped DEF ConstructsTask, AllNames
<1>7. CASE ChecksTask
  BY <1>7 DEF ChecksTask
<1>8. CASE AddsTask
  BY <1>8 DEF AddsTask
<1>9. CASE Launches
  <2>1. \/ UNCHANGED <<pool, halfway>> /\ task' \in {task, NoParameters}
        \/ /\ pool' = [i \in DOMAIN pool \union {task["id"].value} |->
                        IF i = task["id"].value THEN task ELSE pool[i]]
           /\ halfway' \subseteq halfway \union {task["id"].value}
           /\ UNCHANGED task
    BY <1>9 DEF Launches, Runs
  <2>2. DOMAIN task = AllNames
    BY <1>9 DEF Launches, TaskLookedAt, TaskTyped, Readable, NoParameters, RequestTypes,
              AllNames
  <2>3. /\ \A id \in DOMAIN pool' : DOMAIN pool'[id] = AllNames
        /\ halfway' \subseteq DOMAIN pool'
        /\ task' = NoParameters \/ DOMAIN task' = AllNames
    BY <2>1, <2>2 DEF AllNames
  <2>4. /\ pc' \in {"launch", "erase", "answer"} /\ UNCHANGED <<host, port, file, cma>>
        /\ code' \in {code, 0, 2, 5} /\ ended' \in {"no", "exit", "null"}
    BY <1>9 DEF Launches, Runs
  <2> QED BY <1>9, <2>3, <2>4 DEF AllNames
<1>10. CASE ErasesFailed
  BY <1>10 DEF ErasesFailed
<1>11. CASE Answers
  BY <1>11 DEF Answers
<1>12. CASE RemovesTask
  BY <1>12 DEF RemovesTask
<1>13. CASE Ended
  BY <1>13 DEF Ended
<1> QED
  BY <1>1, <1>2, <1>3, <1>4, <1>5, <1>6, <1>7, <1>8, <1>9, <1>10, <1>11, <1>12,
     <1>13 DEF Next

(* The server's parameters stay readable, and what the options say.        *)
LEMMA ServerKept ==
  ASSUME ServerTyped, Overridden, Next
  PROVE  ServerTyped' /\ Overridden'
<1> USE DEF ServerTyped, Overridden, Loaded, Ends, Up, inputs, tasks, vars, Handler
<1>1. CASE ParsesArguments
  BY <1>1, Parsing
<1>2. CASE LoadsFile
  <2>1. CASE \E kind \in {"exit", "uncaught"} : Ends(kind)
    BY <2>1
  <2>2. CASE pc' = "host"
    <3>1. /\ \A n \in DOMAIN CMATypes : n \in DOMAIN cma'
                                     /\ cma'[n] = Converted(file[n], CMATypes[n])
          /\ UNCHANGED file
      BY <1>2, <2>2, Loading DEF LoadsFile
    <3>2. Readable(cma', CMATypes)
      BY <3>1, ReadableConversions
    <3>3. /\ cma'["server_port"] = Converted(file["server_port"], "int")
          /\ cma'["server_host"] = Converted(file["server_host"], "string")
      BY <3>1 DEF CMATypes
    <3>4. cma'["server_host"].value = file["server_host"].value
      BY <3>3, Conversions
    <3> QED BY <2>2, <3>1, <3>2, <3>3, <3>4
  <2> QED BY <1>2, <2>1, <2>2, Loading
<1>3. CASE OverridesHost
  <2>1. Readable(cma, CMATypes) /\ "server_port" \in DOMAIN cma
    BY <1>3 DEF OverridesHost, Readable, CMATypes
  <2> QED BY <1>3, <2>1, Overriding DEF OverridesHost
<1>4. CASE OverridesPort
  BY <1>4, PortOverriding
<1>5. CASE Binds
  BY <1>5 DEF Binds
<1>6. CASE ConstructsTask
  BY <1>6 DEF ConstructsTask
<1>7. CASE ChecksTask
  BY <1>7 DEF ChecksTask
<1>8. CASE AddsTask
  BY <1>8 DEF AddsTask
<1>9. CASE Launches
  BY <1>9 DEF Launches, Runs
<1>10. CASE ErasesFailed
  BY <1>10 DEF ErasesFailed
<1>11. CASE Answers
  BY <1>11 DEF Answers
<1>12. CASE RemovesTask
  BY <1>12 DEF RemovesTask
<1>13. CASE Ended
  BY <1>13 DEF Ended
<1> QED
  BY <1>1, <1>2, <1>3, <1>4, <1>5, <1>6, <1>7, <1>8, <1>9, <1>10, <1>11, <1>12,
     <1>13 DEF Next

(* The task under way is typed, then checked, then new.                    *)
LEMMA TaskKept ==
  ASSUME TaskLookedAt, Next
  PROVE  TaskLookedAt'
<1> USE DEF TaskLookedAt, Ends, Up, inputs, tasks, vars, Handler
<1>1. CASE ParsesArguments
  BY <1>1, Parsing
<1>2. CASE LoadsFile
  BY <1>2 DEF LoadsFile
<1>3. CASE OverridesHost
  BY <1>3 DEF OverridesHost
<1>4. CASE OverridesPort
  BY <1>4, PortOverriding
<1>5. CASE Binds
  BY <1>5 DEF Binds
<1>6. CASE ConstructsTask
  BY <1>6, TaskParametersTyped DEF ConstructsTask
<1>7. CASE ChecksTask
  BY <1>7 DEF ChecksTask
<1>8. CASE AddsTask
  BY <1>8 DEF AddsTask
<1>9. CASE Launches
  BY <1>9 DEF Launches, Runs
<1>10. CASE ErasesFailed
  BY <1>10 DEF ErasesFailed
<1>11. CASE Answers
  BY <1>11 DEF Answers
<1>12. CASE RemovesTask
  BY <1>12 DEF RemovesTask
<1>13. CASE Ended
  BY <1>13 DEF Ended
<1> QED
  BY <1>1, <1>2, <1>3, <1>4, <1>5, <1>6, <1>7, <1>8, <1>9, <1>10, <1>11, <1>12,
     <1>13 DEF Next

(* No reader meets a null pointer.                                         *)
LEMMA NoNullKept ==
  ASSUME ServerTyped, TaskLookedAt, NoNullParameter, Next
  PROVE  NoNullParameter'
<1> USE DEF NoNullParameter, Ends, Up, inputs, tasks, vars, Handler
<1>1. CASE ParsesArguments
  BY <1>1, Parsing
<1>2. CASE LoadsFile
  BY <1>2 DEF LoadsFile
<1>3. CASE OverridesHost
  BY <1>3 DEF OverridesHost
<1>4. CASE OverridesPort
  <2>1. UNCHANGED port
    BY <1>4, PortOverriding
  <2>2. ended' = "null" => NoNullParameter \/ PortGiven
    BY <1>4, PortOverriding
  <2> QED BY <1>4, <2>1, <2>2, PortOverriding DEF PortGiven
<1>5. CASE Binds
  BY <1>5, NamesAndTypes DEF Binds, ServerTyped, Loaded
<1>6. CASE ConstructsTask
  BY <1>6 DEF ConstructsTask
<1>7. CASE ChecksTask
  BY <1>7, NamesAndTypes DEF ChecksTask, TaskLookedAt
<1>8. CASE AddsTask
  BY <1>8, NamesAndTypes DEF AddsTask, ServerTyped, Loaded, TaskLookedAt
<1>9. CASE Launches
  BY <1>9, NamesAndTypes DEF Launches, Runs, TaskLookedAt
<1>10. CASE ErasesFailed
  BY <1>10 DEF ErasesFailed
<1>11. CASE Answers
  BY <1>11 DEF Answers
<1>12. CASE RemovesTask
  BY <1>12 DEF RemovesTask
<1>13. CASE Ended
  BY <1>13 DEF Ended
<1> QED
  BY <1>1, <1>2, <1>3, <1>4, <1>5, <1>6, <1>7, <1>8, <1>9, <1>10, <1>11, <1>12,
     <1>13 DEF Next

(* Running tasks stay usable.                                              *)
LEMMA PoolKept ==
  ASSUME TaskLookedAt, PoolUsable, Next
  PROVE  PoolUsable'
<1> USE DEF PoolUsable, Ends, Up, inputs, tasks, vars, Handler
<1>1. CASE ParsesArguments
  BY <1>1, Parsing
<1>2. CASE LoadsFile
  BY <1>2 DEF LoadsFile
<1>3. CASE OverridesHost
  BY <1>3 DEF OverridesHost
<1>4. CASE OverridesPort
  BY <1>4, PortOverriding
<1>5. CASE Binds
  BY <1>5 DEF Binds
<1>6. CASE ConstructsTask
  BY <1>6 DEF ConstructsTask
<1>7. CASE ChecksTask
  BY <1>7 DEF ChecksTask
<1>8. CASE AddsTask
  BY <1>8 DEF AddsTask
<1>9. CASE Launches
  <2>1. CASE UNCHANGED tasks
    BY <2>1
  <2>2. ASSUME NEW half \in BOOLEAN, Runs(half)
        PROVE  PoolUsable'
    <3> DEFINE launched == task["id"].value
    <3>1. /\ pool' = [i \in DOMAIN pool \union {launched} |->
                       IF i = launched THEN task ELSE pool[i]]
          /\ halfway' = IF half THEN halfway \union {launched} ELSE halfway \ {launched}
          /\ task["pushStream_address"].value # "" \/ half
      BY <2>2 DEF Runs
    <3>2. /\ launched # "" /\ task["pullStream_address"].value # ""
          /\ task["pushStream_address"].value # "" \/ ~task["pushStream_enable"].value
      BY <1>9 DEF Launches, TaskLookedAt, Unusable
    <3> QED BY <3>1, <3>2
  <2> QED BY <1>9, <2>1, <2>2 DEF Launches
<1>10. CASE ErasesFailed
  BY <1>10 DEF ErasesFailed
<1>11. CASE Answers
  BY <1>11 DEF Answers
<1>12. CASE RemovesTask
  <2>1. CASE UNCHANGED tasks
    BY <2>1
  <2>2. CASE \E id : /\ pool' = [i \in DOMAIN pool \ {id} |-> pool[i]]
                    /\ halfway' = halfway \ {id}
    BY <2>2
  <2> QED BY <1>12, <2>1, <2>2 DEF RemovesTask
<1>13. CASE Ended
  BY <1>13 DEF Ended
<1> QED
  BY <1>1, <1>2, <1>3, <1>4, <1>5, <1>6, <1>7, <1>8, <1>9, <1>10, <1>11, <1>12,
     <1>13 DEF Next

---------------------------------------------------------------------------
(* The theorems.                                                           *)

(* The invariant holds at the start, ...                                   *)
LEMMA InitInv == Init => IInv
  BY DEF Init, IInv, TypeOK, Main, Handler, NoParameters, ServerTyped, Overridden, Loaded,
         TaskLookedAt, NoNullParameter, PoolUsable

(* ... and every step keeps it.                                            *)
LEMMA StepInv == IInv /\ [Next]_vars => IInv'
<1>1. CASE Next
  BY <1>1, TypesKept, ServerKept, TaskKept, NoNullKept, PoolKept DEF IInv
<1>2. CASE UNCHANGED vars
  <2> USE <1>2 DEF vars, tasks
  <2>1. IInv => TypeOK'
    BY DEF IInv, TypeOK
  <2>2. IInv => ServerTyped' /\ Overridden'
    BY DEF IInv, ServerTyped, Overridden
  <2>3. IInv => TaskLookedAt'
    BY DEF IInv, TaskLookedAt
  <2>4. IInv => NoNullParameter'
    BY DEF IInv, NoNullParameter
  <2>5. IInv => PoolUsable'
    BY DEF IInv, PoolUsable
  <2> QED BY <2>1, <2>2, <2>3, <2>4, <2>5 DEF IInv
<1> QED BY <1>1, <1>2

(* It holds throughout.                                                    *)
THEOREM ConfigurationInvariant == Spec => []IInv
  BY InitInv, StepInv, PTL DEF Spec

(* A manager has all the names of its constructor or, cleared, none.       *)
THEOREM ConfigurationTypeCorrect == Spec => []TypeOK
<1>1. IInv => TypeOK
  BY DEF IInv
<1> QED BY <1>1, ConfigurationInvariant, PTL

(* The names and types that the readers in server.cpp, scheduler.cpp,      *)
(* executor.cpp and stream.cpp ask for are set when they ask, whatever the *)
(* file and the requests hold, but for the id of the deleted configuration *)
(* that addTask reads after a failed launch; main()'s --port is the other  *)
(* null pointer.                                                           *)
THEOREM ParametersAreThere == Spec => []NoNullParameter
<1>1. IInv => NoNullParameter
  BY DEF IInv
<1> QED BY <1>1, ConfigurationInvariant, PTL

(* Only a task with an id and a pull address stays in m_executorMap, and   *)
(* only one with a push address unless it did not want to push and its     *)
(* push stream returned from connect() half-way.                           *)
THEOREM RunningTasksAreUsable == Spec => []PoolUsable
<1>1. IInv => PoolUsable
  BY DEF IInv
<1> QED BY <1>1, ConfigurationInvariant, PTL

(* The server binds the host of the option, else of the file, and the port *)
(* of the file.                                                            *)
THEOREM TheAddressIsTheOneTold == Spec => []ServesWhereTold
<1>1. IInv => ServesWhereTold
  BY DEF IInv, Overridden, Loaded, Handler, ServesWhereTold
<1> QED BY <1>1, ConfigurationInvariant, PTL

(* No request changes the parameters of a task that runs.                  *)
THEOREM RunningTasksAreKept == Spec => RunningTaskKept
<1> DEFINE Kept == \A id \in DOMAIN pool \intersect DOMAIN pool' : pool'[id] = pool[id]
<1>1. IInv /\ [Next]_vars => [Kept]_vars
  <2> SUFFICES ASSUME IInv, Next PROVE Kept
    OBVIOUS
  <2>1. CASE Launches
    BY <2>1 DEF Launches, Runs, tasks, IInv, TaskLookedAt, Ends, tasks
  <2>2. CASE RemovesTask
    BY <2>2 DEF RemovesTask, Ends, tasks
  <2>3. CASE ~Launches /\ ~RemovesTask
    <3>1. CASE ParsesArguments
      BY <3>1, Parsing DEF Ends, tasks
    <3>2. CASE LoadsFile \/ OverridesHost \/ Binds
      BY <3>2 DEF LoadsFile, OverridesHost, Binds, Ends, tasks
    <3>3. CASE ConstructsTask \/ ChecksTask \/ AddsTask
      BY <3>3 DEF ConstructsTask, ChecksTask, AddsTask, Ends, tasks
    <3>4. CASE ErasesFailed \/ Answers \/ Ended
      BY <3>4 DEF ErasesFailed, Answers, Ended, Ends, vars, tasks
    <3>5. CASE OverridesPort
      BY <3>5, PortOverriding DEF Ends, tasks
    <3> QED BY <2>3, <3>1, <3>2, <3>3, <3>4, <3>5 DEF Next
  <2> QED BY <2>1, <2>2, <2>3
<1> QED BY <1>1, ConfigurationInvariant, PTL DEF Spec, RunningTaskKept
=============================================================================
