-------------------------- MODULE MCTaskExecutor --------------------------
(* Two start() calls: one generation of workers while another one exists.  *)
EXTENDS PooledExecutor
===========================================================================
