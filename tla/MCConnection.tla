----------------------------- MODULE MCConnection -----------------------------
(***************************************************************************)
(* Instances of Connection for TLC.                                        *)
(***************************************************************************)
EXTENDS Connection, TLC

CONSTANTS s1, s2, s3, c1, x1, x2

Interchangeable == Permutations({s1, s2, s3}) \cup Permutations({x1, x2})

=============================================================================
