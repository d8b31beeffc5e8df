--------------------------- MODULE MCContextLock ---------------------------
(* Model checking of ContextLock: two trainers and two other tasks, so     *)
(* that an owner, a helper it left behind and the next owner can coexist.  *)
EXTENDS ContextLock
=============================================================================
