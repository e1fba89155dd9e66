------------------------------ MODULE MCAdaptors ------------------------------
(***************************************************************************)
(* Instances of Adaptors for TLC.                                          *)
(***************************************************************************)
EXTENDS Adaptors, TLC

CONSTANTS o1, o2, plain

=============================================================================
