--------------------------- MODULE MCProposalQueue ---------------------------
(* A small instance of ProposalQueue for TLC. *)
EXTENDS ProposalQueue, TLC

RuleSymmetry == Permutations(Rules)
=============================================================================
