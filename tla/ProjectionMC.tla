---------------------------- MODULE ProjectionMC ----------------------------
(* Small instances of Projection.                                          *)
EXTENDS Projection, TLC

CONSTANTS call, pay1, pay2, unknown

MCAmount == [i \in Known |-> IF i = pay1 THEN 1 ELSE 2]
==============================================================================
