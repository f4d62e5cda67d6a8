----------------------------- MODULE MCActivation -----------------------------
(***************************************************************************)
(* Instances of ActivationRenewal for TLC.                                 *)
(***************************************************************************)
EXTENDS ActivationRenewal, TLC

Symmetry == Permutations(Helpers)
=============================================================================
