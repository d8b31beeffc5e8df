----------------------- MODULE MCInferenceController -----------------------
(* Model checking of InferenceController: three cells, so that a gather    *)
(* can fail on one, have finished a second and leave a third behind.       *)
EXTENDS InferenceController, TLC

CellSymmetry == Permutations(CellIds)
=============================================================================
