------------------------------ MODULE MCEmission ------------------------------
(***************************************************************************)
(* Instances of Emission for TLC.                                          *)
(***************************************************************************)
EXTENDS Emission, TLC

CONSTANTS b1, b2

Interchangeable == Permutations(Iter)

=============================================================================
