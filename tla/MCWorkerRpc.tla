---------------------------- MODULE MCWorkerRpc ----------------------------
(* The worker RPC for TLC. *)
EXTENDS WorkerRpc
=============================================================================
