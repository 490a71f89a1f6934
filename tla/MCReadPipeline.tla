---------------------------- MODULE MCReadPipeline ----------------------------
(* Instances of ReadPipeline for TLC: gets of one query, and one of a query  *)
(* the backend rejects.                                                      *)
EXTENDS ReadPipeline

CONSTANTS quizzes, locked

MCQueryOf == [r \in Read |-> IF r = 3 THEN locked ELSE quizzes]
=============================================================================
