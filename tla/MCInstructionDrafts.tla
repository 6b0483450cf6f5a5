------------------------ MODULE MCInstructionDrafts ------------------------
(* Two panes, so that a draft can be moved; the bounds are in the cfg.     *)
EXTENDS InstructionDrafts, TLC

Symmetry == Permutations(Panes)
=============================================================================
