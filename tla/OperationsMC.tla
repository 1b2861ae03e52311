---------------------------- MODULE OperationsMC ----------------------------
(* Small instances of Operations.                                          *)
EXTENDS Operations, TLC

CONSTANTS pay1, pay2, op1, op2, run1, run2

MCAmount == [i \in Payments |-> IF i = pay1 THEN 1 ELSE 2]
OpSymmetry == Permutations(OpIds)
Symmetry == OpSymmetry \cup Permutations(Executors)
==============================================================================
