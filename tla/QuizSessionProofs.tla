-------------------------- MODULE QuizSessionProofs --------------------------
(***************************************************************************)
(* Machine-checked proofs about QuizSession, for every set of questions,    *)
(* options and quizzes, every timer bound and both kinds of fan.           *)
(***************************************************************************)
EXTENDS QuizSession, QuizScoreProofs

-----------------------------------------------------------------------------
(* What a sheet of the session adds up to *)

LEMMA TimeAddsUp ==
  ASSUME NEW sheet \in Seq(SessionSelection), NEW s \in SessionSelection
  PROVE  /\ TotalTimeTaken(sheet) \in Nat
         /\ TotalTimeTaken(Append(sheet, s)) = TotalTimeTaken(sheet) + s.timeTaken
         /\ s.timeTaken \in Nat
  <1> DEFINE times == [i \in DOMAIN sheet |-> sheet[i].timeTaken]
  <1>1. SessionSelection \subseteq QuizSelection
    BY BoundAssumption DEF SessionSelection, QuizSelection
  <1>2. sheet \in Seq(QuizSelection) /\ s \in QuizSelection
    BY <1>1, SeqMonotonic
  <1>3. s.timeTaken \in Nat
    BY <1>2 DEF QuizSelection
  <1>4. /\ times \in Seq(Nat)
        /\ [i \in DOMAIN Append(sheet, s) |-> Append(sheet, s)[i].timeTaken]
             = Append(times, s.timeTaken)
    BY <1>2, ReadOff
  <1>5. /\ TotalTimeTaken(sheet) = Total(times)
        /\ TotalTimeTaken(Append(sheet, s)) = Total(Append(times, s.timeTaken))
    BY <1>4 DEF TotalTimeTaken
  <1> HIDE DEF times
  <1> QED
    BY <1>3, <1>4, <1>5, TotalAppended

-----------------------------------------------------------------------------
(* The session *)

(* A quiz of the session is a sequence of questions. *)
LEMMA QuestionsType ==
  ASSUME TypeOK
  PROVE  /\ questions \in Seq(Question)
         /\ Len(questions) \in Nat
         /\ DOMAIN questions = 1 .. Len(questions)
         /\ \A i \in 1 .. Len(questions) : questions[i] \in Question
  BY QuizzesAssumption DEF TypeOK

(* The answer sheet is a sequence of answers. *)
LEMMA SheetType ==
  ASSUME TypeOK
  PROVE  /\ quizSelections \in Seq(SessionSelection)
         /\ Len(quizSelections) \in Nat
         /\ DOMAIN quizSelections = 1 .. Len(quizSelections)
  BY DEF TypeOK

(* What appending the current selection does to the sheet. *)
LEMMA SheetGrows ==
  ASSUME TypeOK,
         currentQuizSelection # NoSelection,
         quizSelections' = Append(quizSelections, currentQuizSelection)
  PROVE  /\ quizSelections' \in Seq(SessionSelection)
         /\ Len(quizSelections') = Len(quizSelections) + 1
         /\ DOMAIN quizSelections' = 1 .. Len(quizSelections) + 1
         /\ \A i \in 1 .. Len(quizSelections) : quizSelections'[i] = quizSelections[i]
         /\ quizSelections'[Len(quizSelections) + 1] = currentQuizSelection
<1>1. /\ quizSelections \in Seq(SessionSelection)
      /\ currentQuizSelection \in SessionSelection
  BY DEF TypeOK
<1>2. QED
  BY <1>1, AppendProperties, LenProperties

(* The answer picked by a tap is well formed, and is for a question already *)
(* reached: for the current one if the fan waits for the carousel.          *)
LEMMA SelectionTapped ==
  ASSUME IInv, NEW page \in OnScreen, NEW option \in Option,
         SelectAnswer(page, option)
  PROVE  /\ currentQuizSelection' \in SessionSelection
         /\ currentQuizSelection' # NoSelection
         /\ page + 1 \in DOMAIN questions
         /\ page + 1 <= currentQuestionIndex + 1
         /\ currentQuizSelection'.question = questions[page + 1]
         /\ taps' = "atRest" => page = currentQuestionIndex
<1>1. TypeOK /\ SheetMatchesScreen
  BY DEF IInv
<1>2. currentQuestionIndex \in Nat /\ currentQuestionIndex < Len(questions)
  BY <1>1, QuestionsType DEF TypeOK, SheetMatchesScreen, SelectAnswer, Touchable
<1>3. page \in 0 .. currentQuestionIndex /\ page \in {leadingPage, leadingPage + 1}
  BY DEF OnScreen
<1>4. page + 1 \in 1 .. Len(questions) /\ page + 1 <= currentQuestionIndex + 1
  BY <1>1, <1>2, <1>3, QuestionsType
<1>5. taps' = "atRest" => page = currentQuestionIndex
  BY <1>1, <1>2, <1>3 DEF SelectAnswer, TypeOK
<1>6. questions[page + 1] \in Question
  BY <1>1, <1>4, QuestionsType
<1>7. currentQuizSelection' \in SessionSelection
  BY <1>1, <1>6 DEF SelectAnswer, SessionSelection, TypeOK
<1>8. SessionSelection \subseteq QuizSelection
  BY BoundAssumption DEF SessionSelection, QuizSelection
<1>9. currentQuizSelection' # NoSelection
  BY <1>7, <1>8, NoSelectionAssumption
<1>10. currentQuizSelection'.question = questions[page + 1]
  BY DEF SelectAnswer
<1>11. QED
  BY <1>1, <1>4, <1>5, <1>7, <1>9, <1>10, QuestionsType

LEMMA InitIInv == Init => IInv
<1> SUFFICES ASSUME Init PROVE IInv
  OBVIOUS
<1>1. TypeOK
  BY BoundAssumption DEF Init, TypeOK, Stages, Alerts, Commits
<1>2. Len(quizSelections) = 0 /\ DOMAIN quizSelections = {}
  BY DEF Init
<1>3. PhasesAgree /\ CrashOnlyAfterRejection /\ SelectionReached
  BY DEF Init, PhasesAgree, CrashOnlyAfterRejection, SelectionReached
<1>4. SheetMatchesScreen
  BY <1>2 DEF Init, SheetMatchesScreen
<1>5. NoLookAhead /\ SheetAligned
  BY <1>2 DEF Init, NoLookAhead, SheetAligned
<1>6. QED
  BY <1>1, <1>3, <1>4, <1>5 DEF IInv

(* Steps that leave the sheet, the selection and the index alone keep the   *)
(* parts of the invariant that speak of nothing else.                       *)
LEMMA SheetUntouched ==
  ASSUME IInv, UNCHANGED <<questions, sheetVars, taps>>
  PROVE  NoLookAhead' /\ SelectionReached' /\ SheetAligned'
  BY DEF IInv, sheetVars, NoLookAhead, SelectionReached, SheetAligned

(* On the quiz screen the sheet has one answer per question left behind, or, *)
(* after a hand-in, one for every question.                                *)
LEMMA SheetLength ==
  ASSUME IInv, stage = "quiz"
  PROVE  /\ Len(quizSelections) \in Nat /\ Len(questions) \in Nat
         /\ currentQuestionIndex \in Nat
         /\ currentQuestionIndex < Len(questions)
         /\ \/ Len(quizSelections) = currentQuestionIndex
            \/ /\ Len(quizSelections) = currentQuestionIndex + 1
               /\ currentQuestionIndex + 1 = Len(questions)
<1>1. TypeOK /\ SheetMatchesScreen
  BY DEF IInv
<1>2. CASE commit = "none"
  BY <1>1, <1>2, QuestionsType, SheetType DEF TypeOK, SheetMatchesScreen
<1>3. CASE commit # "none"
  BY <1>1, <1>3, QuestionsType, SheetType DEF TypeOK, SheetMatchesScreen
<1>4. QED
  BY <1>2, <1>3

(* Submitting an answer, in either branch of submit. *)
LEMMA SheetExtended ==
  ASSUME IInv,
         stage = "quiz",
         currentQuizSelection # NoSelection,
         DOMAIN quizSelections' = 1 .. Len(quizSelections) + 1,
         \A i \in 1 .. Len(quizSelections) : quizSelections'[i] = quizSelections[i],
         quizSelections'[Len(quizSelections) + 1] = currentQuizSelection,
         questions' = questions
  PROVE  /\ NoLookAhead'
         /\ taps = "atRest" =>
              \A i \in DOMAIN quizSelections' \cap DOMAIN questions :
                quizSelections'[i].question = questions[i]
<1>1. TypeOK /\ NoLookAhead /\ SelectionReached /\ SheetAligned
  BY DEF IInv
<1>2. /\ DOMAIN quizSelections = 1 .. Len(quizSelections)
      /\ DOMAIN questions = 1 .. Len(questions)
  BY <1>1, QuestionsType, SheetType
<1>3. ASSUME NEW i \in DOMAIN quizSelections'
      PROVE  \/ i \in DOMAIN quizSelections /\ quizSelections'[i] = quizSelections[i]
             \/ i = Len(quizSelections) + 1 /\ quizSelections'[i] = currentQuizSelection
  BY <1>2, <1>3, SheetLength
<1>4. ASSUME NEW i \in DOMAIN quizSelections'
      PROVE  \E j \in DOMAIN questions :
               j <= i /\ quizSelections'[i].question = questions[j]
  <2>1. CASE i \in DOMAIN quizSelections /\ quizSelections'[i] = quizSelections[i]
    BY <1>1, <2>1 DEF NoLookAhead
  <2>2. CASE i = Len(quizSelections) + 1 /\ quizSelections'[i] = currentQuizSelection
    <3>1. PICK j \in DOMAIN questions :
            j <= currentQuestionIndex + 1 /\ currentQuizSelection.question = questions[j]
      BY <1>1 DEF SelectionReached
    <3>2. j <= i
      BY <1>2, <2>2, <3>1, SheetLength
    <3>3. QED
      BY <2>2, <3>1, <3>2
  <2>3. QED
    BY <1>3, <2>1, <2>2
<1>5. ASSUME taps = "atRest",
             NEW i \in DOMAIN quizSelections' \cap DOMAIN questions
      PROVE  quizSelections'[i].question = questions[i]
  <2>1. CASE i \in DOMAIN quizSelections /\ quizSelections'[i] = quizSelections[i]
    BY <1>1, <1>5, <2>1 DEF SheetAligned
  <2>2. CASE i = Len(quizSelections) + 1 /\ quizSelections'[i] = currentQuizSelection
    <3>1. i = currentQuestionIndex + 1
      BY <1>2, <1>5, <2>2, SheetLength
    <3>2. QED
      BY <1>1, <1>5, <2>2, <3>1 DEF SheetAligned
  <2>3. QED
    BY <1>3, <2>1, <2>2
<1>6. QED
  BY <1>4, <1>5 DEF NoLookAhead

(* Each action preserves the inductive invariant. *)

LEMMA TypesOfCodes ==
  /\ "launching" \in Stages /\ "quiz" \in Stages /\ "result" \in Stages
  /\ "closed" \in Stages /\ "crashed" \in Stages
  /\ "none" \in Alerts /\ "submitting" \in Alerts /\ "error" \in Alerts
  /\ "none" \in Commits /\ "pending" \in Commits
  /\ "acked" \in Commits /\ "rejected" \in Commits
  BY DEF Stages, Alerts, Commits

LEMMA IInvViewDidLoad == IInv /\ ViewDidLoad => IInv'
<1> SUFFICES ASSUME IInv, ViewDidLoad PROVE IInv'
  OBVIOUS
<1>1. TypeOK /\ PhasesAgree
  BY DEF IInv
<1>2. questions' = questions /\ UNCHANGED sheetVars
  BY DEF ViewDidLoad
<1>3. /\ quizSelections = << >> /\ currentQuizSelection = NoSelection
      /\ currentQuestionIndex = 0 /\ commit = "none" /\ alert = "none"
      /\ questionElapsedTime = 0
  BY <1>1 DEF ViewDidLoad, PhasesAgree, TypeOK
<1>4. /\ stage' = IF 0 \in 0 .. Len(questions) - 1 THEN "quiz" ELSE "crashed"
      /\ elapsedTime' = 0
  BY <1>3 DEF ViewDidLoad, Rendered
<1>5. TypeOK'
  BY <1>1, <1>4, BoundAssumption, TypesOfCodes
     DEF TypeOK, ViewDidLoad, sheetVars, carouselVars
<1>6. PhasesAgree'
  BY <1>2, <1>3, <1>4 DEF ViewDidLoad, PhasesAgree, sheetVars
<1>7. Len(questions) \in Nat /\ (Len(questions) = 0 => questions = << >>)
  BY <1>1, QuestionsType, EmptySeq
<1>8. SheetMatchesScreen' /\ CrashOnlyAfterRejection'
  BY <1>2, <1>3, <1>4, <1>7
     DEF ViewDidLoad, SheetMatchesScreen, CrashOnlyAfterRejection, sheetVars
<1>9. QED
  BY <1>2, <1>5, <1>6, <1>8, SheetUntouched DEF IInv, ViewDidLoad, carouselVars

(* The current page exists on every screen the timer can redraw. *)
LEMMA RedrawIsSafe ==
  ASSUME IInv, stage \in {"quiz", "result", "closed"}
  PROVE  Rendered(stage, currentQuestionIndex) = stage
  BY QuestionsType DEF IInv, TypeOK, SheetMatchesScreen, Rendered

LEMMA IInvTick == IInv /\ Tick => IInv'
<1> SUFFICES ASSUME IInv, Tick PROVE IInv'
  OBVIOUS
<1>1. /\ UNCHANGED <<stage, questions, sheetVars, leadingPage, taps, alert, commit>>
      /\ elapsedTime' = elapsedTime + 1 /\ elapsedTime < MaxElapsed
      /\ questionElapsedTime' = questionElapsedTime + 1
      /\ stage # "launching"
  BY RedrawIsSafe DEF Tick, carouselVars
<1>2. TypeOK' /\ PhasesAgree'
  BY <1>1, BoundAssumption DEF IInv, TypeOK, PhasesAgree, sheetVars
<1>3. SheetMatchesScreen' /\ CrashOnlyAfterRejection'
  BY <1>1 DEF IInv, SheetMatchesScreen, CrashOnlyAfterRejection, sheetVars
<1>4. QED
  BY <1>1, <1>2, <1>3, SheetUntouched DEF IInv

LEMMA IInvCarouselMoves == IInv /\ CarouselMoves => IInv'
<1> SUFFICES ASSUME IInv, CarouselMoves PROVE IInv'
  OBVIOUS
<1>1. TypeOK'
  BY DEF IInv, TypeOK, CarouselMoves, sheetVars, timeVars
<1>2. PhasesAgree' /\ SheetMatchesScreen' /\ CrashOnlyAfterRejection'
  BY DEF IInv, CarouselMoves, PhasesAgree, SheetMatchesScreen,
         CrashOnlyAfterRejection, sheetVars, timeVars, carouselVars
<1>3. QED
  BY <1>1, <1>2, SheetUntouched DEF IInv, CarouselMoves

LEMMA IInvSelectAnswer ==
  ASSUME IInv, NEW page \in OnScreen, NEW option \in Option,
         SelectAnswer(page, option)
  PROVE  IInv'
<1>1. TypeOK /\ PhasesAgree /\ SheetMatchesScreen
  BY DEF IInv
<1>2. /\ stage = "quiz" /\ alert = "none"
      /\ UNCHANGED <<stage, questions, quizSelections, currentQuestionIndex,
                     timeVars, leadingPage, alert, commit>>
      /\ taps' \in {taps, "stray"}
  BY RedrawIsSafe DEF SelectAnswer, Touchable
<1>3. TypeOK'
  BY <1>1, <1>2, SelectionTapped DEF TypeOK, timeVars
<1>4. PhasesAgree' /\ SheetMatchesScreen' /\ CrashOnlyAfterRejection'
  BY <1>1, <1>2 DEF PhasesAgree, SheetMatchesScreen, CrashOnlyAfterRejection, timeVars
<1>5. NoLookAhead'
  BY <1>2 DEF IInv, NoLookAhead
<1>6. SelectionReached'
  BY <1>2, SelectionTapped DEF SelectionReached
<1>7. SheetAligned'
  BY <1>2, SelectionTapped DEF IInv, SheetAligned
<1>8. QED
  BY <1>3, <1>4, <1>5, <1>6, <1>7 DEF IInv

LEMMA IInvHandIn == IInv /\ HandIn => IInv'
<1> SUFFICES ASSUME IInv, HandIn PROVE IInv'
  OBVIOUS
<1>1. /\ stage = "quiz" /\ alert' = "submitting" /\ commit' = "pending"
      /\ currentQuizSelection # NoSelection
      /\ quizSelections' = Append(quizSelections, currentQuizSelection)
      /\ UNCHANGED <<stage, questions, currentQuestionIndex, currentQuizSelection,
                     timeVars, leadingPage, taps>>
  BY DEF HandIn, Touchable, carouselVars
<1>2. TypeOK /\ PhasesAgree /\ SheetMatchesScreen /\ SelectionReached /\ SheetAligned
  BY DEF IInv
<1>3. /\ currentQuestionIndex + 1 = Len(questions)
      /\ Len(quizSelections) = currentQuestionIndex
  BY <1>2, QuestionsType, SheetType DEF HandIn, OnLastQuestion, TypeOK
<1>4. TypeOK'
  BY <1>1, <1>2, SheetGrows, TypesOfCodes DEF TypeOK, timeVars
<1>5. PhasesAgree' /\ CrashOnlyAfterRejection'
  BY <1>1, <1>2 DEF PhasesAgree, CrashOnlyAfterRejection, timeVars
<1>6. SheetMatchesScreen'
  BY <1>1, <1>2, <1>3, SheetGrows DEF SheetMatchesScreen, TypeOK
<1>7. NoLookAhead'
  BY <1>1, <1>2, SheetGrows, SheetExtended
<1>8. SelectionReached'
  BY <1>1, <1>2 DEF SelectionReached
<1>9. SheetAligned'
  BY <1>1, <1>2, SheetGrows, SheetExtended DEF SheetAligned
<1>10. QED
  BY <1>4, <1>5, <1>6, <1>7, <1>8, <1>9 DEF IInv

LEMMA IInvNextQuestion == IInv /\ NextQuestion => IInv'
<1> SUFFICES ASSUME IInv, NextQuestion PROVE IInv'
  OBVIOUS
<1>1. /\ stage = "quiz" /\ alert = "none"
      /\ currentQuizSelection # NoSelection
      /\ quizSelections' = Append(quizSelections, currentQuizSelection)
      /\ currentQuestionIndex' = currentQuestionIndex + 1
      /\ currentQuizSelection' = NoSelection
      /\ questionElapsedTime' = 0
      /\ UNCHANGED <<questions, elapsedTime, leadingPage, taps, alert, commit>>
  BY DEF NextQuestion, Touchable, carouselVars
<1>2. TypeOK /\ PhasesAgree /\ SheetMatchesScreen /\ SheetAligned
  BY DEF IInv
<1>3. \/ stage' = "quiz" /\ currentQuestionIndex + 1 < Len(questions) /\ commit = "none"
      \/ stage' = "crashed" /\ commit = "rejected"
  <2>1. commit \in {"none", "rejected"}
    BY <1>1, <1>2 DEF PhasesAgree, TypeOK, Commits
  <2>2. /\ currentQuestionIndex < Len(questions)
        /\ Len(quizSelections) = currentQuestionIndex + (IF commit = "none" THEN 0 ELSE 1)
        /\ commit # "none" => currentQuestionIndex + 1 = Len(questions)
        /\ currentQuestionIndex \in Nat /\ Len(questions) \in Nat
    BY <1>1, <1>2, QuestionsType DEF SheetMatchesScreen, TypeOK
  <2>3. stage' = IF currentQuestionIndex + 1 \in 0 .. Len(questions) - 1
                 THEN "quiz" ELSE "crashed"
    BY <1>1 DEF NextQuestion, Rendered
  <2>4. CASE commit = "none"
    <3>1. currentQuestionIndex # Len(questions) - 1
      BY <2>2, <2>4 DEF NextQuestion, OnLastQuestion
    <3>2. QED
      BY <2>2, <2>3, <2>4, <3>1
  <2>5. CASE commit = "rejected"
    BY <2>2, <2>3, <2>5
  <2>6. QED
    BY <2>1, <2>4, <2>5
<1>4. TypeOK'
  BY <1>1, <1>2, <1>3, SheetGrows, TypesOfCodes, BoundAssumption DEF TypeOK
<1>5. PhasesAgree'
  BY <1>1, <1>2, <1>3 DEF PhasesAgree, TypeOK
<1>6. SheetMatchesScreen'
  BY <1>1, <1>2, <1>3, SheetGrows DEF SheetMatchesScreen, TypeOK
<1>7. CrashOnlyAfterRejection'
  BY <1>1, <1>3 DEF CrashOnlyAfterRejection
<1>8. NoLookAhead'
  BY <1>1, <1>2, SheetGrows, SheetExtended
<1>9. SelectionReached'
  BY <1>1 DEF SelectionReached
<1>10. SheetAligned'
  BY <1>1, <1>2, SheetGrows, SheetExtended DEF SheetAligned
<1>11. QED
  BY <1>4, <1>5, <1>6, <1>7, <1>8, <1>9, <1>10 DEF IInv

(* The steps that only move between screens, alerts and commit outcomes. *)
LEMMA IInvCallbacks ==
  IInv /\ (CommitAcked \/ CommitRejected \/ DismissError \/ Close \/ CloseResult) => IInv'
<1> SUFFICES ASSUME IInv,
                    CommitAcked \/ CommitRejected \/ DismissError \/ Close \/ CloseResult
             PROVE  IInv'
  OBVIOUS
<1>1. UNCHANGED <<questions, sheetVars, timeVars, leadingPage, taps>>
  BY DEF CommitAcked, CommitRejected, DismissError, Close, CloseResult, carouselVars
<1>2. TypeOK /\ PhasesAgree /\ SheetMatchesScreen /\ CrashOnlyAfterRejection
  BY DEF IInv
<1>3. CASE CommitAcked
  BY <1>1, <1>2, <1>3, SheetUntouched, TypesOfCodes
     DEF IInv, CommitAcked, TypeOK, PhasesAgree, SheetMatchesScreen,
         CrashOnlyAfterRejection, sheetVars, timeVars, carouselVars
<1>4. CASE CommitRejected
  BY <1>1, <1>2, <1>4, SheetUntouched, TypesOfCodes
     DEF IInv, CommitRejected, TypeOK, PhasesAgree, SheetMatchesScreen,
         CrashOnlyAfterRejection, sheetVars, timeVars, carouselVars
<1>5. CASE DismissError
  BY <1>1, <1>2, <1>5, SheetUntouched, TypesOfCodes
     DEF IInv, DismissError, TypeOK, PhasesAgree, SheetMatchesScreen,
         CrashOnlyAfterRejection, sheetVars, timeVars, carouselVars
<1>6. CASE Close
  BY <1>1, <1>2, <1>6, SheetUntouched, TypesOfCodes
     DEF IInv, Close, Touchable, TypeOK, PhasesAgree, SheetMatchesScreen,
         CrashOnlyAfterRejection, sheetVars, timeVars, carouselVars
<1>7. CASE CloseResult
  BY <1>1, <1>2, <1>7, SheetUntouched, TypesOfCodes
     DEF IInv, CloseResult, TypeOK, PhasesAgree, SheetMatchesScreen,
         CrashOnlyAfterRejection, sheetVars, timeVars, carouselVars
<1>8. QED
  BY <1>3, <1>4, <1>5, <1>6, <1>7

(* The inductive invariant of the quiz session. *)
THEOREM InductiveInvariant == Spec => []IInv
<1>1. IInv /\ [Next]_vars => IInv'
  <2> SUFFICES ASSUME IInv, [Next]_vars PROVE IInv'
    OBVIOUS
  <2>1. ASSUME NEW page \in OnScreen, NEW option \in Option, SelectAnswer(page, option)
        PROVE  IInv'
    BY <2>1, IInvSelectAnswer
  <2>2. CASE UNCHANGED vars
    BY <2>2, SheetUntouched
       DEF vars, sheetVars, timeVars, carouselVars, IInv, TypeOK, PhasesAgree,
           SheetMatchesScreen, CrashOnlyAfterRejection
  <2>3. QED
    BY <2>1, <2>2, IInvViewDidLoad, IInvTick, IInvCarouselMoves, IInvHandIn,
       IInvNextQuestion, IInvCallbacks DEF Next
<1>2. QED
  BY <1>1, InitIInv, PTL DEF Spec

(* Every variable keeps its type, whatever the quizzes and the timer bound. *)
THEOREM TypeCorrect == Spec => []TypeOK
<1>1. IInv => TypeOK
  BY DEF IInv
<1>2. QED
  BY <1>1, InductiveInvariant, PTL

(* The two counters submit decides by stay in step with each other and with *)
(* the commit.                                                              *)
THEOREM SheetStaysInStep == Spec => []SheetMatchesScreen
<1>1. IInv => SheetMatchesScreen
  BY DEF IInv
<1>2. QED
  BY <1>1, InductiveInvariant, PTL

(* No quiz crashes the app unless it is empty or its commit was rejected. *)
THEOREM CrashCauses == Spec => []CrashOnlyAfterRejection
<1>1. IInv => CrashOnlyAfterRejection
  BY DEF IInv
<1>2. QED
  BY <1>1, InductiveInvariant, PTL

(* No answer is ever recorded for a question the fan has not reached. *)
THEOREM AnswersReached == Spec => []NoLookAhead
<1>1. IInv => NoLookAhead
  BY DEF IInv
<1>2. QED
  BY <1>1, InductiveInvariant, PTL

(* A fan who never taps a moving carousel hands in one answer per question. *)
THEOREM PatientFan == Spec => []OneAnswerPerQuestion
<1>1. IInv => OneAnswerPerQuestion
  <2> SUFFICES ASSUME IInv, taps = "atRest", commit \in {"pending", "acked"}
               PROVE  /\ Len(quizSelections) = Len(questions)
                      /\ \A i \in DOMAIN questions :
                           quizSelections[i].question = questions[i]
    BY DEF OneAnswerPerQuestion
  <2>1. TypeOK /\ PhasesAgree /\ SheetMatchesScreen /\ SheetAligned
    BY DEF IInv
  <2>2. stage # "crashed" /\ commit # "none"
    BY <2>1 DEF PhasesAgree
  <2>3. Len(quizSelections) = Len(questions)
    BY <2>1, <2>2 DEF SheetMatchesScreen
  <2>4. DOMAIN questions = DOMAIN quizSelections
    BY <2>1, <2>3, QuestionsType, SheetType
  <2>5. QED
    BY <2>1, <2>3, <2>4 DEF SheetAligned
<1>2. QED
  BY <1>1, InductiveInvariant, PTL

-----------------------------------------------------------------------------
(* The seconds a sheet claims *)

(* What the sheet claims, with the seconds since the last Submit until the   *)
(* sheet is handed in, is what the timer has counted.                        *)
TimeCharged ==
  stage # "crashed" =>
    /\ TotalTimeTaken(quizSelections)
         + (IF commit = "none" THEN questionElapsedTime ELSE 0) <= elapsedTime
    /\ currentQuizSelection # NoSelection =>
         currentQuizSelection.timeTaken <= questionElapsedTime

LEMMA TimesAre ==
  ASSUME TypeOK
  PROVE  /\ TotalTimeTaken(quizSelections) \in Nat
         /\ elapsedTime \in Nat /\ questionElapsedTime \in Nat
         /\ currentQuizSelection # NoSelection =>
              /\ currentQuizSelection.timeTaken \in Nat
              /\ TotalTimeTaken(Append(quizSelections, currentQuizSelection))
                   = TotalTimeTaken(quizSelections) + currentQuizSelection.timeTaken
  <1>1. quizSelections \in Seq(SessionSelection) /\ elapsedTime \in Nat /\ questionElapsedTime \in Nat
        /\ currentQuizSelection \in SessionSelection \cup {NoSelection}
    BY BoundAssumption DEF TypeOK
  <1>2. quizSelections \in Seq(QuizSelection)
    <2>1. SessionSelection \subseteq QuizSelection
      BY BoundAssumption DEF SessionSelection, QuizSelection
    <2> QED
      BY <1>1, <2>1, SeqMonotonic
  <1>3. TotalTimeTaken(quizSelections) \in Nat
    <2>1. PICK times : times = [i \in DOMAIN quizSelections |-> quizSelections[i].timeTaken]
      OBVIOUS
    <2>2. times \in Seq(Nat)
      <3>1. /\ Len(quizSelections) \in Nat /\ DOMAIN quizSelections = 1 .. Len(quizSelections)
            /\ \A i \in 1 .. Len(quizSelections) : quizSelections[i] \in QuizSelection
        BY <1>2
      <3>2. times \in [1 .. Len(quizSelections) -> Nat]
        BY <2>1, <3>1 DEF QuizSelection
      <3> QED
        BY <3>1, <3>2, SeqDef
    <2>3. Total(times) \in Nat
      BY <2>2, TotalAppended
    <2> QED
      BY <2>1, <2>3 DEF TotalTimeTaken
  <1> QED
    BY <1>1, <1>3, TimeAddsUp

LEMMA TimeUntouched ==
  ASSUME TimeCharged, UNCHANGED <<sheetVars, timeVars>>,
         stage' # "crashed" => stage # "crashed",
         commit' = "none" => commit = "none", TypeOK
  PROVE  TimeCharged'
  <1>1. /\ quizSelections' = quizSelections /\ currentQuizSelection' = currentQuizSelection
        /\ questionElapsedTime' = questionElapsedTime /\ elapsedTime' = elapsedTime
    BY DEF sheetVars, timeVars
  <1>2. TotalTimeTaken(quizSelections)' = TotalTimeTaken(quizSelections)
    BY <1>1 DEF TotalTimeTaken
  <1> QED
    BY <1>1, <1>2, TimesAre DEF TimeCharged

LEMMA TimeStep == IInv /\ TimeCharged /\ [Next]_vars => TimeCharged'
  <1> SUFFICES ASSUME IInv, TimeCharged, [Next]_vars PROVE TimeCharged'
    OBVIOUS
  <1>1. /\ TypeOK /\ PhasesAgree /\ SheetMatchesScreen
    BY DEF IInv
  <1>2. /\ TotalTimeTaken(quizSelections) \in Nat
        /\ elapsedTime \in Nat /\ questionElapsedTime \in Nat
        /\ currentQuizSelection # NoSelection =>
             /\ currentQuizSelection.timeTaken \in Nat
             /\ TotalTimeTaken(Append(quizSelections, currentQuizSelection))
                  = TotalTimeTaken(quizSelections) + currentQuizSelection.timeTaken
    BY <1>1, TimesAre
  <1>3. CASE ViewDidLoad
    <2>1. /\ quizSelections' = << >> /\ currentQuizSelection' = NoSelection
          /\ questionElapsedTime' = 0 /\ elapsedTime' = 0 /\ commit' = "none"
      BY <1>1, <1>2, <1>3 DEF ViewDidLoad, PhasesAgree, sheetVars
    <2>2. TotalTimeTaken(quizSelections)' = 0
      <3>1. [i \in DOMAIN quizSelections' |-> quizSelections'[i].timeTaken] = << >>
        BY <2>1
      <3> QED
        BY <3>1, TotalBounds DEF TotalTimeTaken
    <2> QED
      BY <2>1, <2>2 DEF TimeCharged
  <1>4. CASE Tick
    <2>1. /\ quizSelections' = quizSelections /\ currentQuizSelection' = currentQuizSelection
          /\ questionElapsedTime' = questionElapsedTime + 1 /\ elapsedTime' = elapsedTime + 1
          /\ commit' = commit /\ stage # "crashed"
      BY <1>4 DEF Tick, sheetVars
    <2>2. TotalTimeTaken(quizSelections)' = TotalTimeTaken(quizSelections)
      BY <2>1 DEF TotalTimeTaken
    <2> QED
      BY <1>2, <2>1, <2>2 DEF TimeCharged
  <1>5. CASE \E page \in OnScreen, option \in Option : SelectAnswer(page, option)
    <2>1. /\ quizSelections' = quizSelections /\ commit' = commit
          /\ questionElapsedTime' = questionElapsedTime /\ elapsedTime' = elapsedTime
          /\ currentQuizSelection'.timeTaken = questionElapsedTime
          /\ stage # "crashed"
      BY <1>5 DEF SelectAnswer, timeVars, Touchable
    <2>2. TotalTimeTaken(quizSelections)' = TotalTimeTaken(quizSelections)
      BY <2>1 DEF TotalTimeTaken
    <2> QED
      BY <1>2, <2>1, <2>2 DEF TimeCharged
  (* The seconds of the answer handed in are among those since the last one. *)
  <1>6. CASE HandIn
    <2>1. /\ quizSelections' = Append(quizSelections, currentQuizSelection)
          /\ currentQuizSelection # NoSelection
          /\ questionElapsedTime' = questionElapsedTime /\ elapsedTime' = elapsedTime
          /\ currentQuizSelection' = currentQuizSelection
          /\ stage = "quiz" /\ OnLastQuestion /\ commit' = "pending"
      BY <1>6 DEF HandIn, timeVars, Touchable
    <2>2. commit = "none"
      <3>1. /\ Len(quizSelections) = currentQuestionIndex + (IF commit = "none" THEN 0 ELSE 1)
            /\ currentQuestionIndex \in Nat /\ Len(questions) \in Nat
        BY <1>1, <2>1, QuestionsType DEF SheetMatchesScreen, TypeOK
      <3> QED
        BY <2>1, <3>1 DEF OnLastQuestion
    <2>3. TotalTimeTaken(quizSelections)'
            = TotalTimeTaken(quizSelections) + currentQuizSelection.timeTaken
      <3>1. TotalTimeTaken(quizSelections)' = TotalTimeTaken(Append(quizSelections, currentQuizSelection))
        BY <2>1 DEF TotalTimeTaken
      <3> QED
        BY <1>2, <2>1, <3>1
    <2> QED
      BY <1>2, <2>1, <2>2, <2>3 DEF TimeCharged
  <1>7. CASE NextQuestion
    <2>1. /\ quizSelections' = Append(quizSelections, currentQuizSelection)
          /\ currentQuizSelection # NoSelection /\ currentQuizSelection' = NoSelection
          /\ questionElapsedTime' = 0 /\ elapsedTime' = elapsedTime
          /\ stage = "quiz" /\ commit' = commit
          /\ currentQuestionIndex' = currentQuestionIndex + 1
          /\ stage' = Rendered(stage, currentQuestionIndex')
      BY <1>7 DEF NextQuestion, Touchable
    <2>2. TotalTimeTaken(quizSelections)'
            = TotalTimeTaken(quizSelections) + currentQuizSelection.timeTaken
      <3>1. TotalTimeTaken(quizSelections)' = TotalTimeTaken(Append(quizSelections, currentQuizSelection))
        BY <2>1 DEF TotalTimeTaken
      <3> QED
        BY <1>2, <2>1, <3>1
    <2>3. CASE commit = "none"
      BY <1>2, <2>1, <2>2, <2>3 DEF TimeCharged
    <2>4. CASE commit # "none"
      <3>1. currentQuestionIndex + 1 = Len(questions) /\ questions' = questions
        BY <1>1, <1>7, <2>1, <2>4 DEF SheetMatchesScreen, NextQuestion
      <3>2. Len(questions) \in Nat
        BY <1>1, QuestionsType
      <3>3. stage' = "crashed"
        BY <2>1, <3>1, <3>2 DEF Rendered
      <3> QED
        BY <3>3 DEF TimeCharged
    <2> QED
      BY <2>3, <2>4
  <1>8. CASE CarouselMoves \/ CommitAcked \/ CommitRejected \/ DismissError \/ Close
             \/ CloseResult \/ UNCHANGED vars
    <2>1. UNCHANGED <<sheetVars, timeVars>>
      BY <1>8 DEF CarouselMoves, CommitAcked, CommitRejected, DismissError, Close,
                  CloseResult, vars
    <2>2. stage' # "crashed" => stage # "crashed"
      BY <1>1, <1>8 DEF CarouselMoves, CommitAcked, CommitRejected, DismissError, Close,
                        CloseResult, vars, Touchable, PhasesAgree
    <2>3. commit' = "none" => commit = "none"
      BY <1>8 DEF CarouselMoves, CommitAcked, CommitRejected, DismissError, Close,
                  CloseResult, vars
    <2> QED
      BY <1>1, <2>1, <2>2, <2>3, TimeUntouched
  <1> QED
    BY <1>3, <1>4, <1>5, <1>6, <1>7, <1>8 DEF Next

(* A sheet never claims more seconds than the quiz has lasted, however the   *)
(* ticks fall between taps and submits.                                      *)
THEOREM SecondsChargedOnce == Spec => []NoSecondChargedTwice
  <1>1. Init => TimeCharged
    <2> SUFFICES ASSUME Init PROVE TimeCharged
      OBVIOUS
    <2>1. [i \in DOMAIN quizSelections |-> quizSelections[i].timeTaken] = << >>
      BY DEF Init
    <2>2. TotalTimeTaken(quizSelections) = 0
      BY <2>1, TotalBounds DEF TotalTimeTaken
    <2> QED
      BY <2>2 DEF Init, TimeCharged
  <1>2. IInv /\ TimeCharged => NoSecondChargedTwice
    <2> SUFFICES ASSUME IInv, TimeCharged PROVE NoSecondChargedTwice
      OBVIOUS
    <2>1. /\ TotalTimeTaken(quizSelections) \in Nat
          /\ elapsedTime \in Nat /\ questionElapsedTime \in Nat
      BY TimesAre DEF IInv
    <2> QED
      BY <2>1 DEF TimeCharged, NoSecondChargedTwice
  <1> QED
    BY <1>1, <1>2, TimeStep, InductiveInvariant, PTL DEF Spec

-----------------------------------------------------------------------------
(* Refinement: what each step of the session is on the abstract sheet. *)

LEMMA SheetStatusOnQuizScreen ==
  ASSUME IInv, Touchable
  PROVE  /\ commit \in {"none", "rejected"}
         /\ SheetStatus = IF commit = "none" THEN "open" ELSE "rejected"
<1>1. commit \in {"none", "rejected"}
  BY DEF IInv, TypeOK, PhasesAgree, Commits, Touchable
<1>2. QED
  BY <1>1 DEF SheetStatus, Touchable

LEMMA HandInImplements == IInv /\ HandIn => [Sheet!Next]_(Sheet!vars)
<1> SUFFICES ASSUME IInv, HandIn PROVE Sheet!Next
  OBVIOUS
<1>1. /\ Touchable /\ currentQuizSelection \in SessionSelection
      /\ Len(quizSelections) + 1 = Len(questions)
      /\ quizSelections' = Append(quizSelections, currentQuizSelection)
      /\ questions' = questions /\ commit' = "pending"
  BY QuestionsType, SheetType DEF IInv, TypeOK, HandIn, OnLastQuestion
<1>2. commit = "none"
  <2>1. CASE commit = "rejected"
    BY <1>1, <2>1, SheetLength, SheetType
       DEF IInv, SheetMatchesScreen, TypeOK, Touchable
  <2>2. QED
    BY <1>1, <2>1, SheetStatusOnQuizScreen
<1>3. SheetStatus = "open" /\ SheetStatus' = "handedIn"
  BY <1>1, <1>2, SheetStatusOnQuizScreen DEF SheetStatus
<1>4. Sheet!HandIn(currentQuizSelection)
  BY <1>1, <1>3 DEF Sheet!HandIn
<1>5. QED
  BY <1>1, <1>4 DEF Sheet!Next

LEMMA NextQuestionImplements == IInv /\ NextQuestion => [Sheet!Next]_(Sheet!vars)
<1> SUFFICES ASSUME IInv, NextQuestion PROVE Sheet!Next
  OBVIOUS
<1>1. /\ Touchable /\ currentQuizSelection \in SessionSelection
      /\ quizSelections' = Append(quizSelections, currentQuizSelection)
      /\ UNCHANGED <<questions, commit>>
  BY DEF IInv, TypeOK, NextQuestion
<1>2. commit \in {"none", "rejected"}
  BY <1>1, SheetStatusOnQuizScreen
<1>3. CASE commit = "none"
  <2>1. Len(quizSelections) + 1 < Len(questions) /\ stage' = "quiz"
    <3>1. /\ Len(quizSelections) = currentQuestionIndex
          /\ currentQuestionIndex \in Nat /\ Len(questions) \in Nat
          /\ currentQuestionIndex < Len(questions)
      BY <1>1, <1>3, QuestionsType, SheetType
         DEF IInv, TypeOK, SheetMatchesScreen, Touchable
    <3>2. currentQuestionIndex + 1 < Len(questions)
      BY <3>1 DEF NextQuestion, OnLastQuestion
    <3>3. QED
      BY <1>1, <3>1, <3>2 DEF NextQuestion, Rendered, Touchable
  <2>2. SheetStatus = "open" /\ SheetStatus' = "open"
    BY <1>1, <1>3, <2>1, SheetStatusOnQuizScreen DEF SheetStatus
  <2>3. Sheet!Answer(currentQuizSelection)
    BY <1>1, <2>1, <2>2 DEF Sheet!Answer
  <2>4. QED
    BY <1>1, <2>3 DEF Sheet!Next
<1>4. CASE commit = "rejected"
  <2>1. stage' = "crashed"
    <3>1. /\ currentQuestionIndex + 1 = Len(questions)
          /\ currentQuestionIndex \in Nat /\ Len(questions) \in Nat
      BY <1>1, <1>4, QuestionsType DEF IInv, TypeOK, SheetMatchesScreen, Touchable
    <3>2. QED
      BY <3>1 DEF NextQuestion, Rendered
  <2>2. SheetStatus = "rejected" /\ SheetStatus' = "discarded"
    BY <1>1, <1>4, <2>1, SheetStatusOnQuizScreen DEF SheetStatus
  <2>3. Sheet!Discard
    BY <1>1, <2>2 DEF Sheet!Discard
  <2>4. QED
    BY <2>3 DEF Sheet!Next
<1>5. QED
  BY <1>2, <1>3, <1>4

LEMMA CommitImplements ==
  IInv /\ (CommitAcked \/ CommitRejected) => [Sheet!Next]_(Sheet!vars)
<1> SUFFICES ASSUME IInv, CommitAcked \/ CommitRejected PROVE Sheet!Next
  OBVIOUS
<1>1. /\ commit = "pending" /\ stage = "quiz"
      /\ UNCHANGED <<questions, quizSelections>>
      /\ \/ commit' = "acked"
         \/ commit' = "rejected" /\ stage' = "quiz"
  BY DEF IInv, PhasesAgree, CommitAcked, CommitRejected, sheetVars
<1>2. SheetStatus = "handedIn" /\ SheetStatus' \in {"accepted", "rejected"}
  BY <1>1 DEF SheetStatus
<1>3. Sheet!Decide
  BY <1>1, <1>2 DEF Sheet!Decide
<1>4. QED
  BY <1>3 DEF Sheet!Next

(* Leaving the quiz, or never getting into it, discards the open sheet. *)
LEMMA LeavingImplements ==
  IInv /\ (ViewDidLoad \/ Close) => [Sheet!Next]_(Sheet!vars)
<1> SUFFICES ASSUME IInv, ViewDidLoad \/ Close PROVE [Sheet!Next]_(Sheet!vars)
  OBVIOUS
<1>1. UNCHANGED <<questions, quizSelections, commit>>
  BY DEF ViewDidLoad, Close, sheetVars
<1>2. SheetStatus \in {"open", "rejected"}
  BY SheetStatusOnQuizScreen DEF IInv, PhasesAgree, ViewDidLoad, Close, SheetStatus
<1>3. CASE SheetStatus' = "discarded"
  BY <1>1, <1>2, <1>3 DEF Sheet!Discard, Sheet!Next
<1>4. CASE SheetStatus' = SheetStatus
  BY <1>1, <1>2, <1>4 DEF Sheet!vars
<1>5. SheetStatus' \in {"discarded", SheetStatus}
  <2>1. CASE ViewDidLoad
    BY <2>1 DEF IInv, PhasesAgree, ViewDidLoad, SheetStatus, Rendered
  <2>2. CASE Close
    BY <2>2, SheetStatusOnQuizScreen DEF Close, SheetStatus
  <2>3. QED
    BY <2>1, <2>2
<1>6. QED
  BY <1>3, <1>4, <1>5

(* Steps that neither extend the sheet nor move its status. *)
LEMMA StutterImplements ==
  ASSUME IInv,
         UNCHANGED <<questions, quizSelections, commit>>,
         stage' = stage \/ commit = "acked"
  PROVE  UNCHANGED Sheet!vars
BY DEF SheetStatus, Sheet!vars

(* The session implements the abstract sheet: it starts like it, and every  *)
(* step is a step of the sheet or leaves it alone.                          *)
THEOREM SheetRefinement == Spec => Sheet!Init /\ [][Sheet!Next]_(Sheet!vars)
<1>1. Init => Sheet!Init
  BY DEF Init, Sheet!Init, SheetStatus
<1>2. IInv /\ [Next]_vars => [Sheet!Next]_(Sheet!vars)
  <2> SUFFICES ASSUME IInv, [Next]_vars PROVE [Sheet!Next]_(Sheet!vars)
    OBVIOUS
  <2>1. CASE Tick
    BY <2>1, RedrawIsSafe, StutterImplements DEF Tick, sheetVars
  <2>2. CASE CarouselMoves
    BY <2>2, StutterImplements DEF CarouselMoves, sheetVars
  <2>3. ASSUME NEW page \in OnScreen, NEW option \in Option, SelectAnswer(page, option)
        PROVE  [Sheet!Next]_(Sheet!vars)
    BY <2>3, RedrawIsSafe, StutterImplements DEF SelectAnswer, Touchable
  <2>4. CASE DismissError
    BY <2>4, StutterImplements DEF DismissError, sheetVars
  <2>5. CASE CloseResult
    BY <2>5, StutterImplements DEF IInv, PhasesAgree, CloseResult, sheetVars
  <2>6. CASE UNCHANGED vars
    BY <2>6, StutterImplements DEF vars, sheetVars
  <2>7. QED
    BY <2>1, <2>2, <2>3, <2>4, <2>5, <2>6, HandInImplements,
       NextQuestionImplements, CommitImplements, LeavingImplements DEF Next
<1>3. QED
  BY <1>1, <1>2, InductiveInvariant, PTL DEF Spec
=============================================================================
