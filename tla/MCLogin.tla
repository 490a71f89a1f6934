------------------------------- MODULE MCLogin -------------------------------
(* Instances of Login for TLC: two accounts, each with any user stored.      *)
EXTENDS Login

CONSTANTS ann, bob
=============================================================================
