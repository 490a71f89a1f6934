--------------------------- MODULE MCCreateQuestion ---------------------------
(* Instances of CreateQuestion for TLC: two texts, so that one can replace   *)
(* the other.                                                               *)
EXTENDS CreateQuestion

CONSTANTS one, two
=============================================================================
