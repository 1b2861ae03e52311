---------------------------- MODULE DeploymentMC ----------------------------
(* Four runs of the script with one of two contracts each, at once or one  *)
(* after another.                                                          *)
EXTENDS Deployment, TLC

Symmetry == Permutations(Runs) \cup Permutations(Codes)
=============================================================================
