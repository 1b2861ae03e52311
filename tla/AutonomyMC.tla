----------------------------- MODULE AutonomyMC -----------------------------
(* Small instances of Autonomy.                                            *)
EXTENDS Autonomy, TLC

CONSTANTS plan1, plan2, call1, call2

\* Two purchases of two units each: the capital of three covers one of them.
MCAmount == [p \in Plans |-> 2]

grant(mode, perDay, expiresAt) ==
  [mode |-> mode, perPurchase |-> 2, perDay |-> perDay, expiresAt |-> expiresAt]

Supervised == {grant("SUPERVISED", 4, MaxTime)}
Autonomous == {grant("AUTONOMOUS", 4, MaxTime)}
Both == Supervised \cup Autonomous
MCSymmetry == Permutations(Plans) \cup Permutations(Calls)
==============================================================================
