---------------------------- MODULE MCTrainAsync ----------------------------
(* Model checking of TrainAsync; the configurations give the sizes.        *)
EXTENDS TrainAsync
=============================================================================
