-------------------------- MODULE MCApprovalGate --------------------------
(* ApprovalGate for TLC: the model values are given in the .cfg files. *)
EXTENDS ApprovalGate, TLC

SessionSymmetry == Permutations(Sessions)
=============================================================================
