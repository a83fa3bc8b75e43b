-------------------------- MODULE MCFramePipeline --------------------------
(* Three frames: one in each queue and one in a thread's hand.             *)
EXTENDS FramePipeline
===========================================================================
