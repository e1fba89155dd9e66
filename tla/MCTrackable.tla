----------------------------- MODULE MCTrackable -----------------------------
(***************************************************************************)
(* Instances of Trackable for TLC.                                         *)
(***************************************************************************)
EXTENDS Trackable, TLC

CONSTANTS a, b, r1, r2, u, w

\* The functor of r1 refers to a and b; that of r2 refers to a twice.
Refers ==
    r1 :> (a :> 1 @@ b :> 1) @@ r2 :> (a :> 2 @@ b :> 0)

=============================================================================
