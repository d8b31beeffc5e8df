--------------------------- MODULE MCSessionServer ---------------------------
(* The session server for TLC. *)
EXTENDS SessionServer

Symmetry == Permutations(Chats)
=============================================================================
