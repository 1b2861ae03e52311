----------------------------- MODULE IdentityMC -----------------------------
(* Two identities that sign up with one address.                            *)
EXTENDS Identity, TLC

CONSTANTS ann, bea

MCEmail == [o \in {ann, bea} |-> "a@example.org"]
Symmetry == Permutations(Calls) \cup Permutations(Keys)
=============================================================================
