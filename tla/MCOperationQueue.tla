-------------------------- MODULE MCOperationQueue --------------------------
(* Four calls for one repository and one for another. *)
EXTENDS OperationQueue

CONSTANTS c1, c2, c3, c4, c5, r1, r2

FiveCalls == {c1, c2, c3, c4, c5}
TwoRepositories == {r1, r2}
FourAndOne == [c \in FiveCalls |-> IF c = c5 THEN r2 ELSE r1]
=============================================================================
