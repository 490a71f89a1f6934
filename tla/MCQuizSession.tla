---------------------------- MODULE MCQuizSession ----------------------------
(* Instances of QuizSession for TLC: a failed launch (no questions), and    *)
(* quizzes of one, two and three questions with different correct options.  *)
EXTENDS QuizSession

CONSTANTS q1, q2, q3, yes, no

MCCorrectAnswer == (q1 :> yes) @@ (q2 :> no) @@ (q3 :> yes)

MCQuizzes == {<< >>, <<q1>>, <<q1, q2>>, <<q1, q2, q3>>}
=============================================================================
