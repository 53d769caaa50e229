-------------------------- MODULE MCCapturePipeline --------------------------
(***************************************************************************)
(* CapturePipeline for TLC: a queue of two, batches of two, enough frames  *)
(* to overflow the queue, and every failure the code handles.              *)
(***************************************************************************)
EXTENDS CapturePipeline

AllFaults == FaultKinds
=============================================================================
