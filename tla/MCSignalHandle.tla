---------------------------- MODULE MCSignalHandle ----------------------------
(***************************************************************************)
(* Instances of SignalHandle for TLC.                                      *)
(***************************************************************************)
EXTENDS SignalHandle, TLC

CONSTANTS h1, h2, h3, i1, i2, i3, s1, s2

Interchangeable == Permutations({h1, h2}) \cup Permutations({i1, i2, i3})
                     \cup Permutations({s1, s2})

=============================================================================
