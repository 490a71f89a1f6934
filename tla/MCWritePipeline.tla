---------------------------- MODULE MCWritePipeline ----------------------------
(* Instances of WritePipeline for TLC: two users of one device, one of whose *)
(* writes the backend refuses.                                               *)
EXTENDS WritePipeline

CONSTANTS ann, bob, a1, a2, a3, b1

MCAuthor == [w \in Write |-> IF w = b1 THEN bob ELSE ann]
=============================================================================
