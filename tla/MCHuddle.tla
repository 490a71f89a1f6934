------------------------------- MODULE MCHuddle -------------------------------
(* Instances of Huddle for TLC: one quiz open from the start, one a tick     *)
(* later; a phone whose reads succeed and a tablet whose reads may fail.     *)
EXTENDS Huddle

CONSTANTS phone, tablet, early, late

MCLaunchTime == (early :> 0) @@ (late :> 1)
MCMaxLanded == [d \in Device |-> IF d = phone THEN 2 ELSE 1]
=============================================================================
