--------------------------- MODULE MCProjectStorage ---------------------------
(* A small instance: three commands at once. *)
EXTENDS ProjectStorage, TLC

CONSTANTS c1, c2, c3

ThreeCommands == {c1, c2, c3}
Symmetric == Permutations(ThreeCommands)
===============================================================================
