------------------------------ MODULE MCSignal ------------------------------
(***************************************************************************)
(* Instances of Signal for TLC.                                            *)
(***************************************************************************)
EXTENDS Signal, TLC

CONSTANTS s1, s2, o, e

\* The slots that are neither owners of the signal nor empty look the same.
Interchangeable == Permutations({s1, s2})

\* bound: no slot is ever blocked
Unblocked == blocked = {}

=============================================================================
