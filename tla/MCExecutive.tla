---------------------------- MODULE MCExecutive ----------------------------
(* Model checking of the executive alone, with every kind of request.      *)
EXTENDS Executive, TLC

Symmetry == Permutations(Handlers)
=============================================================================
