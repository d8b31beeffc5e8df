---------------------------- MODULE MCCellHealth ----------------------------
(* Instances of CellHealth for TLC. *)
EXTENDS CellHealth
=============================================================================
