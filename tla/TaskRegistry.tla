--------------------------- MODULE TaskRegistry ---------------------------
(***************************************************************************)
(* What the HTTP clients may rely on about the set of tasks: a request     *)
(* changes it once, between its arrival and its reply, and the reply says  *)
(* truly what was done.  When the server shuts down, tasks go away without *)
(* a request.                                                              *)
(***************************************************************************)
CONSTANTS
  Id,      \* task ids
  Pool     \* the sets of tasks that the server has room for

VARIABLES
  tasks,     \* ids of the tasks
  answer     \* <<operation, id, success>> of the request served and not yet
             \* replied to, or <<>>

vars == <<tasks, answer>>

Init ==
  /\ tasks = {}
  /\ answer = <<>>

(* Adding a task that exists already succeeds and changes nothing.         *)
Add(i) ==
  /\ answer = <<>>
  /\ i \in tasks \/ tasks \union {i} \in Pool
  /\ tasks' = tasks \union {i}
  /\ answer' = <<"add", i, TRUE>>

Remove(i) ==
  /\ answer = <<>>
  /\ i \in tasks
  /\ tasks' = tasks \ {i}
  /\ answer' = <<"remove", i, TRUE>>

(* Requests about one task, which must exist.                              *)
Operate(o, i) ==
  /\ answer = <<>>
  /\ i \in tasks
  /\ answer' = <<o, i, TRUE>>
  /\ UNCHANGED tasks

(* A request that fails leaves no trace.                                   *)
Refuse(o, i) ==
  /\ answer = <<>>
  /\ answer' = <<o, i, FALSE>>
  /\ UNCHANGED tasks

Reply ==
  /\ answer' = <<>>
  /\ UNCHANGED tasks

Shutdown(i) ==
  /\ tasks' = tasks \ {i}
  /\ UNCHANGED answer

Next ==
  \/ \E i \in Id : \/ Add(i) \/ Remove(i) \/ Shutdown(i)
                   \/ \E o \in {"pause", "start", "get_state"} : Operate(o, i)
                   \/ \E o \in {"add", "remove", "pause", "start", "get_state"} :
                        Refuse(o, i)
  \/ Reply

Spec == Init /\ [][Next]_vars

===========================================================================
