-------------------------- MODULE MCServerProcess --------------------------
(* Three ids for at most two tasks: the limit is reached, and a task can   *)
(* be refused, removed and added again.                                    *)
EXTENDS ServerProcess
===========================================================================
