----------------------------- MODULE QuizSession -----------------------------
(***************************************************************************)
(* One fan taking one quiz on one device: QuizViewModel with the screen     *)
(* that drives it (QuizViewController, the questions carousel, the modal    *)
(* alerts) and the coordinator steps that leave it.  The answer sheet is    *)
(* handed to Firestore in one batch commit, answered later or never.        *)
(*                                                                         *)
(* Interleaved here: the one-second timer, the carousel's animated scroll,  *)
(* the fan's taps, and the commit's completion callback.                    *)
(***************************************************************************)
EXTENDS QuizScore

CONSTANTS Quizzes,          \* the question lists the coordinator may pass in;
                            \* the empty one arrives when the fetch fails
          MaxElapsed,       \* bound on the timer, for model checking
          NoSelection       \* currentQuizSelection == nil

ASSUME QuizzesAssumption ==
  /\ Quizzes \subseteq Seq(Question)
  /\ \A quiz \in Quizzes : \A i, j \in DOMAIN quiz : quiz[i] = quiz[j] => i = j

ASSUME BoundAssumption == MaxElapsed \in Nat

ASSUME NoSelectionAssumption == NoSelection \notin QuizSelection

VARIABLES
  stage,                \* which screen the app shows
  questions,            \* immutable copy taken at launch
  quizSelections,       \* the answer sheet
  currentQuestionIndex, \* from 0, as in the code
  currentQuizSelection, \* the answer picked and not yet submitted
  questionElapsedTime,  \* seconds since the last Submit
  elapsedTime,          \* seconds since the quiz appeared
  leadingPage,          \* leftmost page of the carousel still on screen
  taps,                 \* ghost: "stray" once one fell on a moving carousel
  alert,                \* the modal over the screen, which swallows its taps
  commit                \* the batch commit of the answer sheet

sheetVars == <<quizSelections, currentQuestionIndex, currentQuizSelection>>
timeVars == <<questionElapsedTime, elapsedTime>>
carouselVars == <<leadingPage, taps>>
vars == <<stage, questions, sheetVars, timeVars, carouselVars, alert, commit>>

Stages == {"launching", "quiz", "result", "closed", "crashed"}
Alerts == {"none", "submitting", "error"}
Commits == {"none", "pending", "acked", "rejected"}

(* An answer of this session: the timer bounds the time it claims. *)
SessionSelection == [question       : Question,
                     selectedAnswer : Option,
                     timeTaken      : 0 .. MaxElapsed]

(* Pages of the carousel (from 0) whose cells a tap can reach: the current *)
(* one and, while the animated scroll has not arrived, those it passes.    *)
OnScreen ==
  {page \in 0 .. currentQuestionIndex : page \in {leadingPage, leadingPage + 1}}

Init ==
  /\ stage = "launching"
  /\ questions \in Quizzes
  /\ quizSelections = << >>
  /\ currentQuestionIndex = 0
  /\ currentQuizSelection = NoSelection
  /\ questionElapsedTime = 0
  /\ elapsedTime = 0
  /\ leadingPage = 0
  /\ taps = "atRest"
  /\ alert = "none"
  /\ commit = "none"

(* Where updateScreen leaves an app that was at `from`: scrollToItem raises *)
(* when the page does not exist, and nothing catches that.                 *)
Rendered(from, page) ==
  IF page \in 0 .. Len(questions) - 1 THEN from ELSE "crashed"

(* The taps of the quiz screen reach it only when no alert covers it. *)
Touchable == stage = "quiz" /\ alert = "none"

-----------------------------------------------------------------------------
(* Faulty variants of the definitions below; the runs show that a property *)
(* tells them apart from the code.                                          *)

OnLastQuestion_OffByOne == currentQuestionIndex = Len(questions)

HandIn_NoLoader ==
  /\ Touchable
  /\ currentQuestionIndex = Len(questions) - 1
  /\ Len(quizSelections) = Len(questions) - 1
  /\ currentQuizSelection # NoSelection
  /\ quizSelections' = Append(quizSelections, currentQuizSelection)
  /\ commit' = "pending"
  /\ UNCHANGED <<stage, questions, currentQuestionIndex, currentQuizSelection,
                 timeVars, carouselVars, alert>>

NextQuestion_NoTimeReset ==
  /\ Touchable
  /\ currentQuizSelection # NoSelection
  /\ ~ (/\ currentQuestionIndex = Len(questions) - 1
        /\ Len(quizSelections) = Len(questions) - 1)
  /\ quizSelections' = Append(quizSelections, currentQuizSelection)
  /\ currentQuestionIndex' = currentQuestionIndex + 1
  /\ currentQuizSelection' = NoSelection
  /\ stage' = Rendered(stage, currentQuestionIndex')
  /\ UNCHANGED <<questions, timeVars, carouselVars, alert, commit>>

NextQuestion_KeepsSelection ==
  /\ Touchable
  /\ currentQuizSelection # NoSelection
  /\ ~ (/\ currentQuestionIndex = Len(questions) - 1
        /\ Len(quizSelections) = Len(questions) - 1)
  /\ quizSelections' = Append(quizSelections, currentQuizSelection)
  /\ currentQuestionIndex' = currentQuestionIndex + 1
  /\ questionElapsedTime' = 0
  /\ stage' = Rendered(stage, currentQuestionIndex')
  /\ UNCHANGED <<questions, currentQuizSelection, elapsedTime, carouselVars,
                 alert, commit>>

CommitRejected_KeepsLoader ==
  /\ commit = "pending"
  /\ commit' = "rejected"
  /\ UNCHANGED <<stage, questions, sheetVars, timeVars, carouselVars, alert>>
-----------------------------------------------------------------------------

(* QuizViewModel.viewDidLoad: draw the first question, start the timer. *)
ViewDidLoad ==
  /\ stage = "launching"
  /\ stage' = Rendered("quiz", currentQuestionIndex)
  /\ elapsedTime' = 0
  /\ UNCHANGED <<questions, sheetVars, questionElapsedTime, carouselVars, alert,
                 commit>>

(* updateElapsedTimeButton.  The timer is never invalidated: it ticks under *)
(* alerts, under the result screen and after the quiz was closed.           *)
Tick ==
  /\ stage \in {"quiz", "result", "closed"}
  /\ elapsedTime < MaxElapsed
  /\ elapsedTime' = elapsedTime + 1
  /\ questionElapsedTime' = questionElapsedTime + 1
  /\ stage' = Rendered(stage, currentQuestionIndex)
  /\ UNCHANGED <<questions, sheetVars, carouselVars, alert, commit>>

(* The animated scroll of scrollTo(page:) leaves one more page behind. *)
CarouselMoves ==
  /\ stage = "quiz"
  /\ leadingPage < currentQuestionIndex
  /\ leadingPage' = leadingPage + 1
  /\ UNCHANGED <<stage, questions, sheetVars, timeVars, taps, alert, commit>>

(* setSelectedAnswer, from a tap on an option of any cell on screen: the    *)
(* cell passes its own question along, the view model takes it as it comes. *)
SelectAnswer(page, option) ==
  /\ Touchable
  /\ page \in OnScreen
  /\ currentQuizSelection' = [question       |-> questions[page + 1],
                              selectedAnswer |-> option,
                              timeTaken      |-> questionElapsedTime]
  /\ taps' = IF leadingPage = currentQuestionIndex THEN taps ELSE "stray"
  /\ stage' = Rendered(stage, currentQuestionIndex)
  /\ UNCHANGED <<questions, quizSelections, currentQuestionIndex, timeVars,
                 leadingPage, alert, commit>>

(* The condition on which submit decides to hand the sheet in. *)
OnLastQuestion ==
  /\ currentQuestionIndex = Len(questions) - 1
  /\ Len(quizSelections) = Len(questions) - 1

(* submit, first branch: complete the sheet and commit it.  Neither the    *)
(* selection nor the index changes, also not when the commit fails.        *)
HandIn ==
  /\ Touchable
  /\ OnLastQuestion
  /\ currentQuizSelection # NoSelection
  /\ quizSelections' = Append(quizSelections, currentQuizSelection)
  /\ alert' = "submitting"
  /\ commit' = "pending"
  /\ UNCHANGED <<stage, questions, currentQuestionIndex, currentQuizSelection,
                 timeVars, carouselVars>>

(* submit, else branch: on to the next question. *)
NextQuestion ==
  /\ Touchable
  /\ ~ OnLastQuestion
  /\ currentQuizSelection # NoSelection
  /\ quizSelections' = Append(quizSelections, currentQuizSelection)
  /\ currentQuestionIndex' = currentQuestionIndex + 1
  /\ currentQuizSelection' = NoSelection
  /\ questionElapsedTime' = 0
  /\ stage' = Rendered(stage, currentQuestionIndex')
  /\ UNCHANGED <<questions, elapsedTime, carouselVars, alert, commit>>

(* The commit's completion: the loader goes, the result screen comes. *)
CommitAcked ==
  /\ commit = "pending"
  /\ commit' = "acked"
  /\ alert' = "none"
  /\ stage' = "result"
  /\ UNCHANGED <<questions, sheetVars, timeVars, carouselVars>>

(* The commit's completion: the loader is replaced by the error alert. *)
CommitRejected ==
  /\ commit = "pending"
  /\ commit' = "rejected"
  /\ alert' = "error"
  /\ UNCHANGED <<stage, questions, sheetVars, timeVars, carouselVars>>

DismissError ==
  /\ alert = "error"
  /\ alert' = "none"
  /\ UNCHANGED <<stage, questions, sheetVars, timeVars, carouselVars, commit>>

Close ==
  /\ Touchable
  /\ stage' = "closed"
  /\ UNCHANGED <<questions, sheetVars, timeVars, carouselVars, alert, commit>>

(* QuizResultCoordinator.close dismisses the quiz screen with the result. *)
CloseResult ==
  /\ stage = "result"
  /\ stage' = "closed"
  /\ UNCHANGED <<questions, sheetVars, timeVars, carouselVars, alert, commit>>

Next ==
  \/ ViewDidLoad
  \/ Tick
  \/ CarouselMoves
  \/ \E page \in OnScreen, option \in Option : SelectAnswer(page, option)
  \/ HandIn
  \/ NextQuestion
  \/ CommitAcked
  \/ CommitRejected
  \/ DismissError
  \/ Close
  \/ CloseResult

(* UIKit runs viewDidLoad and finishes animations, and Firestore answers    *)
(* the commit; nothing obliges the fan, and the timer may be starved.       *)
Fairness ==
  /\ WF_vars(ViewDidLoad)
  /\ WF_vars(CarouselMoves)
  /\ WF_vars(CommitAcked \/ CommitRejected)

Spec == Init /\ [][Next]_vars /\ Fairness

-----------------------------------------------------------------------------
(* Safety *)

TypeOK ==
  /\ stage \in Stages
  /\ questions \in Quizzes
  /\ quizSelections \in Seq(SessionSelection)
  /\ currentQuestionIndex \in Nat
  /\ currentQuizSelection \in SessionSelection \cup {NoSelection}
  /\ questionElapsedTime \in 0 .. MaxElapsed
  /\ elapsedTime \in 0 .. MaxElapsed
  /\ leadingPage \in 0 .. currentQuestionIndex
  /\ taps \in {"atRest", "stray"}
  /\ alert \in Alerts
  /\ commit \in Commits

(* While the app lives, the sheet holds one answer for every question       *)
(* already left behind, and the answer to the last one as soon as, and only *)
(* when, the sheet was handed in: submit tells "hand in" from "next         *)
(* question" by these two counters alone.                                   *)
SheetMatchesScreen ==
  stage # "crashed" =>
    /\ stage # "launching" => currentQuestionIndex < Len(questions)
    /\ Len(quizSelections) = currentQuestionIndex + (IF commit = "none" THEN 0 ELSE 1)
    /\ commit # "none" => currentQuestionIndex + 1 = Len(questions)

(* The app dies on the quiz screen in two ways only: it was launched with   *)
(* no questions, or the fan pressed Submit again after a rejected commit.   *)
CrashOnlyAfterRejection ==
  stage = "crashed" => questions = << >> \/ commit = "rejected"

(* No answer on the sheet is for a question that had not been reached when  *)
(* the answer was given, however the taps fall between ticks and scrolls.   *)
NoLookAhead ==
  \A i \in DOMAIN quizSelections :
    \E j \in DOMAIN questions : j <= i /\ quizSelections[i].question = questions[j]

(* A fan who lets the carousel come to rest before tapping hands in exactly *)
(* one answer per question, in order.  (setSelectedAnswer does not check    *)
(* which question a tap is for, so a tap on the cell scrolling away can put *)
(* a second answer to the previous question in the place of this one's.)    *)
OneAnswerPerQuestion ==
  taps = "atRest" /\ commit \in {"pending", "acked"} =>
    /\ Len(quizSelections) = Len(questions)
    /\ \A i \in DOMAIN questions : quizSelections[i].question = questions[i]

(* The sheet never claims more seconds than the timer has counted, so no    *)
(* second is charged to two questions.                                      *)
NoSecondChargedTwice ==
  stage # "crashed" => TotalTimeTaken(quizSelections) <= elapsedTime

(* QuizViewModel.swift:123 on the else branch of submit: "We are still      *)
(* answering questions in the quiz, update our state and continue on with   *)
(* the quiz".  After a rejected commit the branch is taken with no question *)
(* left to answer.                                                          *)
ElseBranchHasMoreQuestions ==
  [][NextQuestion => currentQuestionIndex' < Len(questions)]_vars

-----------------------------------------------------------------------------
(* The inductive invariant behind the safety properties: how stage, alert   *)
(* and commit move together, and what may be picked but not yet submitted.  *)

PhasesAgree ==
  /\ questionElapsedTime <= elapsedTime
  /\ stage = "launching" =>
       /\ quizSelections = << >> /\ currentQuizSelection = NoSelection
       /\ currentQuestionIndex = 0 /\ elapsedTime = 0
       /\ alert = "none" /\ commit = "none"
  /\ commit = "pending" => stage = "quiz" /\ alert = "submitting"
  /\ commit = "acked" => stage \in {"result", "closed"}
  /\ stage = "result" => commit = "acked"

SelectionReached ==
  currentQuizSelection # NoSelection =>
    \E j \in DOMAIN questions :
      j <= currentQuestionIndex + 1 /\ currentQuizSelection.question = questions[j]

SheetAligned ==
  taps = "atRest" =>
    /\ \A i \in DOMAIN quizSelections \cap DOMAIN questions :
         quizSelections[i].question = questions[i]
    /\ currentQuizSelection # NoSelection =>
         currentQuizSelection.question = questions[currentQuestionIndex + 1]

IInv ==
  /\ TypeOK
  /\ PhasesAgree
  /\ SheetMatchesScreen
  /\ CrashOnlyAfterRejection
  /\ NoLookAhead
  /\ SelectionReached
  /\ SheetAligned

-----------------------------------------------------------------------------
(* Liveness *)

(* A sheet handed in gets its fan out of the "Submitting..." alert: to the  *)
(* result screen, or to an error message.                                   *)
HandInIsAnswered ==
  commit = "pending" ~> stage = "result" \/ alert = "error"

-----------------------------------------------------------------------------
(* Refinement *)

SheetStatus ==
  CASE commit = "acked" -> "accepted"
    [] commit = "pending" -> "handedIn"
    [] commit \in {"none", "rejected"} /\ stage \in {"closed", "crashed"} -> "discarded"
    [] commit = "rejected" /\ stage = "quiz" -> "rejected"
    [] OTHER -> "open"

Sheet == INSTANCE AnswerSheet WITH
  Selection <- SessionSelection,
  Sizes     <- {Len(quiz) : quiz \in Quizzes},
  size      <- Len(questions),
  answers   <- IF SheetStatus = "discarded" THEN << >> ELSE quizSelections,
  status    <- SheetStatus

(* The session implements the answer sheet: one answer at a time, handed in *)
(* once and complete, frozen while the server decides, and a rejected sheet *)
(* can only be discarded, since no path hands it in a second time.          *)
ImplementsAnswerSheet == Sheet!Spec
=============================================================================
