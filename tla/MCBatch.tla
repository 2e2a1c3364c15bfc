------------------------------- MODULE MCBatch -------------------------------
(* The batching loop on a small instance; the constants choose the modes.  *)
EXTENDS Batch
==============================================================================
