--------------------------- MODULE MCResponder ---------------------------
(* Model-checking instances of Responder. *)
EXTENDS Responder, TLC

Symmetry == Permutations(Connections)
============================================================================
