-------------------------- MODULE MCCredentialChange --------------------------
(* Instances of CredentialChange for TLC: two users, a write of each.        *)
EXTENDS CredentialChange

CONSTANTS ann, bob, a1, b1

MCAuthor == [w \in Write |-> IF w = b1 THEN bob ELSE ann]
=============================================================================
