----------------------------- MODULE MCHandoff -----------------------------
(* Handoff on small instances. *)
EXTENDS Handoff, TLC

JobSymmetry == Permutations(Job)
=============================================================================
