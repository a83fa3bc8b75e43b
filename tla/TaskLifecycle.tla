-------------------------- MODULE TaskLifecycle --------------------------
(***************************************************************************)
(* What the rest of the server may rely on about a task, whatever its      *)
(* worker threads do: a worker's handle is given back only after the       *)
(* worker has finished, and the task is released only when every handle    *)
(* has been given back.  The process may end at any moment instead.        *)
(***************************************************************************)
CONSTANT Worker

VARIABLES
  alive,     \* the server process runs
  freed,     \* the task has been released
  running,   \* workers that have been launched and have not finished
  handles    \* workers that have been launched and not given back

vars == <<alive, freed, running, handles>>

Init ==
  /\ alive = TRUE
  /\ freed = FALSE
  /\ running = {}
  /\ handles = {}

Launch(w) ==
  /\ ~freed
  /\ w \notin handles
  /\ running' = running \union {w}
  /\ handles' = handles \union {w}
  /\ UNCHANGED <<alive, freed>>

Finish(w) ==
  /\ w \in running
  /\ running' = running \ {w}
  /\ UNCHANGED <<alive, freed, handles>>

GiveBack(w) ==
  /\ w \in handles \ running
  /\ handles' = handles \ {w}
  /\ UNCHANGED <<alive, freed, running>>

Release ==
  /\ ~freed
  /\ handles = {}
  /\ freed' = TRUE
  /\ UNCHANGED <<alive, running, handles>>

End ==
  /\ alive' = FALSE
  /\ UNCHANGED <<freed, running, handles>>

Next ==
  /\ alive
  /\ \/ \E w \in Worker : Launch(w) \/ Finish(w) \/ GiveBack(w)
     \/ Release
     \/ End

Spec == Init /\ [][Next]_vars

===========================================================================
