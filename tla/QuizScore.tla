------------------------------ MODULE QuizScore ------------------------------
(***************************************************************************)
(* Points and statistics computed from an answer sheet: generateSubmission *)
(* of QuizViewModel.swift, which fixes the fan's place on the leaderboard,  *)
(* and correctScoreCount of QuizResultViewModel.swift, which the result    *)
(* screen shows next to it.  A question is a model value; what the code     *)
(* reads of it is its correct option.  The UUID of a selection is left out: *)
(* no two selections share one, and nothing compares them.                 *)
(***************************************************************************)
EXTENDS Integers, Sequences, FiniteSets, SequencesExt

CONSTANTS Question,       \* the questions (model values)
          Option,         \* the option texts a question may offer
          CorrectAnswer   \* the `answer` field of each question

ASSUME CorrectAnswerAssumption == CorrectAnswer \in [Question -> Option]

(* The answers a fan can give: selected option, seconds taken, question. *)
QuizSelection == [question : Question, selectedAnswer : Option, timeTaken : Nat]

(* The test both screens make: the selected option is the question's answer. *)
IsCorrect(selection) ==
  selection.selectedAnswer = CorrectAnswer[selection.question]

(* Faulty variant: "Fan took more than 10 seconds" taken by the letter. *)
PointsForTime_Over10(t) ==
  IF t = 0 THEN 10 ELSE IF t > 10 THEN 1 ELSE 10 - t

(* Points for a correct answer given after t whole seconds. *)
PointsForTime(t) ==
  IF t = 0 THEN 10 ELSE IF t >= 10 THEN 1 ELSE 10 - t

PointsFor(selection) ==
  IF IsCorrect(selection) THEN PointsForTime(selection.timeTaken) ELSE 0

(* The sum of a sequence of numbers; upTo[i] is that of the first i. *)
Total(numbers) ==
  LET upTo[i \in 0 .. Len(numbers)] == IF i = 0 THEN 0 ELSE upTo[i - 1] + numbers[i]
  IN  upTo[Len(numbers)]

(* Submission.points of a sheet. *)
TotalPoints(quizSelections) ==
  Total([i \in DOMAIN quizSelections |-> PointsFor(quizSelections[i])])

(* The "n" of the result screen's "n out of m". *)
CorrectScoreCount(quizSelections) ==
  Cardinality({i \in DOMAIN quizSelections : IsCorrect(quizSelections[i])})

(* The seconds the sheet claims the fan needed, summed over its answers. *)
TotalTimeTaken(quizSelections) ==
  Total([i \in DOMAIN quizSelections |-> quizSelections[i].timeTaken])
=============================================================================
