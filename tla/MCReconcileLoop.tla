-------------------------- MODULE MCReconcileLoop --------------------------
(* Model checking of ReconcileLoop: two pods that move between two cells.  *)
EXTENDS ReconcileLoop
=============================================================================
