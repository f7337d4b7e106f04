-------------------------- MODULE MCInferenceEngine --------------------------
(***************************************************************************)
(* Three loads, so that a model can meet what two before it left behind,   *)
(* and a queue in which two calls overtake a suspended reply.              *)
(***************************************************************************)
EXTENDS InferenceEngine
==============================================================================
