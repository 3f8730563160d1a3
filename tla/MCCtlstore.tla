----------------------------- MODULE MCCtlstore -----------------------------
(* Model checking of the replication pipeline.                             *)
EXTENDS Ctlstore, TLC

Symmetry == Permutations(Handlers)
=============================================================================
