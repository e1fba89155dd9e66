------------------------------ MODULE MCSlotBase ------------------------------
(***************************************************************************)
(* Instances of SlotBase for TLC.                                          *)
(***************************************************************************)
EXTENDS SlotBase, TLC

CONSTANTS s1, s2, s3, o1, c1

Interchangeable == Permutations({s1, s2})

=============================================================================
