--------------------------- MODULE MCEvalDispatch ---------------------------
(* Instances of EvalDispatch for TLC. *)
EXTENDS EvalDispatch
=============================================================================
