----------------------------- MODULE MCQuizResult -----------------------------
(* Instances of QuizResult for TLC: one fan with two devices, three rivals.  *)
(* The sheets differ in score, points and seconds, at the limits of the      *)
(* points as well.                                                           *)
EXTENDS QuizResult

CONSTANTS q1, q2, yes, no, me, ann, bob, cid, phone, tablet, annsPhone, bobsPhone, cidsPhone

MCCorrectAnswer == (q1 :> yes) @@ (q2 :> no)

MCAccount == (phone :> me) @@ (tablet :> me) @@ (annsPhone :> ann)
             @@ (bobsPhone :> bob) @@ (cidsPhone :> cid)

Answered(question, option, t) ==
  [question |-> question, selectedAnswer |-> option, timeTaken |-> t]

MCSheets == (phone  :> {<<Answered(q1, yes, 0), Answered(q2, yes, 1)>>,
                        <<Answered(q1, no, 0), Answered(q2, no, 10)>>})
            @@ (tablet :> {<<Answered(q1, yes, 9), Answered(q2, no, 4)>>})
            @@ (annsPhone :> {<<Answered(q1, no, 3), Answered(q2, no, 1)>>})
            @@ (bobsPhone :> {<<Answered(q1, yes, 1), Answered(q2, yes, 8)>>})
            @@ (cidsPhone :> {<<Answered(q1, yes, 3), Answered(q2, no, 8)>>})
=============================================================================
