----------------------------- MODULE MCConnectors -----------------------------
(* A small instance: two worktrees and two versions of the program; a behaviour has at *)
(* most two disturbances: an edit of the user, a fault and an upgrade.                  *)
EXTENDS Connectors, TLC

CONSTANTS r1, r2

TwoRepositories == {r1, r2}
Worktrees == Permutations(TwoRepositories)
TwoDisturbances == edits + faults + upgrades <= 2
===============================================================================
