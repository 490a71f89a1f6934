---------------------------- MODULE MCAthletePortal ----------------------------
(* Instances of AthletePortal for TLC. *)
EXTENDS AthletePortal

CONSTANTS named, qa
=============================================================================
