--------------------------- MODULE MCTrainerGroup ---------------------------
(* Model checking of TrainerGroup: three cells, so that two can go on      *)
(* while the third fails, leaves or heals.                                 *)
EXTENDS TrainerGroup
=============================================================================
