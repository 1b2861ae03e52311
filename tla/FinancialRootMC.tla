--------------------------- MODULE FinancialRootMC ---------------------------
(* Two companies of one owner, three passkeys and two concurrent calls.    *)
EXTENDS FinancialRoot, TLC

Symmetry == Permutations(Passkeys) \cup Permutations(Calls) \cup Permutations(Companies)
==============================================================================
