---------------------------- MODULE MCFullyAsync ----------------------------
(* Model checking of FullyAsync; the configurations give the sizes.        *)
EXTENDS FullyAsync
=============================================================================
