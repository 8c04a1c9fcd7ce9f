------------------------------- MODULE MCTokens -------------------------------
(* Instances of Tokens for TLC: commands are alike, and so are boots. *)
EXTENDS Tokens, TLC

Symmetry == Permutations(Commands) \cup Permutations(Agents)

=============================================================================
