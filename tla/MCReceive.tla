------------------------------ MODULE MCReceive ------------------------------
(***************************************************************************)
(* Small instances of ReceiveController for TLC.                           *)
(***************************************************************************)
EXTENDS ReceiveController, TLC

CONSTANTS a, b  \* ring names

OneRing  == {a}
TwoRings == {a, b}

\* Rings are interchangeable: nothing in the table depends on their names.
Symmetry == Permutations(Rings)
=============================================================================
