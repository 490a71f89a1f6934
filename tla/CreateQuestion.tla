---------------------------- MODULE CreateQuestion ----------------------------
(***************************************************************************)
(* The sheet on which the athlete writes one question:                      *)
(* CreateQuestionViewModel, its controller, and the four option fields.     *)
(* The fields reach the view model at different moments: an option with     *)
(* every key, the question when its text view ends editing.  A tap on a     *)
(* button does not end editing; going to another field does.                *)
(*                                                                         *)
(* Named apart from AthletePortal, which its proofs are read with.          *)
(***************************************************************************)
EXTENDS Integers, FiniteSets

CONSTANTS Text,    \* non-empty texts
          Unset,   \* never entered, nothing created
          Empty    \* the empty text

ASSUME TextAssumption == Unset \notin Text /\ Empty \notin Text /\ Unset # Empty

VARIABLES
  open,                  \* is the sheet on screen?
  editing,               \* is the text view of the question being edited?
  shown,                 \* what it shows (Empty stands for the placeholder, too)
  question,              \* the view model's copy
  answers,               \* answerOne .. answerFour
  selectedAnswer,        \* the option marked as the right one
  createQuestionEnabled, \* createQuestionButton.isEnabled
  created                \* what the sheet handed to the form of the quiz

sheetVars == <<open, editing, shown, question, answers, selectedAnswer,
               createQuestionEnabled, created>>

MultipleChoice == 1 .. 4

Questions == [question : Text \cup {Empty},
              answer   : Text \cup {Empty},
              options  : [MultipleChoice -> Text \cup {Empty}]]

SheetTypeOK ==
  /\ {open, editing, createQuestionEnabled} \subseteq BOOLEAN
  /\ shown \in Text \cup {Empty}
  /\ question \in Text \cup {Unset}
  /\ answers \in [MultipleChoice -> Text \cup {Empty, Unset}]
  /\ selectedAnswer \in MultipleChoice \cup {Unset}
  /\ created \in Questions \cup {Unset}

SheetInit ==
  /\ editing = FALSE
  /\ shown = Empty
  /\ question = Unset
  /\ answers = [choice \in MultipleChoice |-> Unset]
  /\ selectedAnswer = Unset
  /\ createQuestionEnabled = FALSE
  /\ open = TRUE
  /\ created = Unset

isQuestionComplete(q, as, s) ==
  /\ q \notin {Unset, Empty} /\ s # Unset
  /\ \A choice \in MultipleChoice : as[choice] \notin {Unset, Empty}

(* updateScreen, at the end of every setter. *)
UpdateScreen == createQuestionEnabled' = isQuestionComplete(question', answers', selectedAnswer')

-----------------------------------------------------------------------------
(* Faulty variants of the definitions below; the runs show that a property *)
(* tells them apart from the code.                                          *)

EndEditing_KeepsOldQuestion ==
  /\ open
  /\ editing
  /\ editing' = FALSE
  /\ question' = IF question = Unset /\ shown # Empty THEN shown ELSE question
  /\ UNCHANGED <<open, shown, answers, selectedAnswer, created>>
  /\ UpdateScreen

SetAnswer_NoRefresh(choice, text) ==
  /\ open
  /\ ~ editing
  /\ answers' = [answers EXCEPT ![choice] = text]
  /\ UNCHANGED <<open, editing, shown, question, selectedAnswer, createQuestionEnabled, created>>
-----------------------------------------------------------------------------

BeginEditing ==
  /\ open
  /\ ~ editing
  /\ editing' = TRUE
  /\ UNCHANGED <<open, shown, question, answers, selectedAnswer, createQuestionEnabled, created>>

TypeQuestion(text) ==
  /\ open
  /\ editing
  /\ shown' = text
  /\ UNCHANGED <<open, editing, question, answers, selectedAnswer, createQuestionEnabled,
                 created>>

(* textViewDidEndEditing *)
EndEditing ==
  /\ open
  /\ editing
  /\ editing' = FALSE
  /\ question' = IF shown = Empty THEN Unset ELSE shown
  /\ UNCHANGED <<open, shown, answers, selectedAnswer, created>>
  /\ UpdateScreen

(* set(answerOne:) .. set(answerFour:), with every key. *)
SetAnswer(choice, text) ==
  /\ open
  /\ ~ editing
  /\ answers' = [answers EXCEPT ![choice] = text]
  /\ UNCHANGED <<open, editing, shown, question, selectedAnswer, created>>
  /\ UpdateScreen

SelectAnswer(choice) ==
  /\ open
  /\ selectedAnswer' = choice
  /\ UNCHANGED <<open, editing, shown, question, answers, created>>
  /\ UpdateScreen

(* A tap on the button.  Its guard looks for fields never entered.  The     *)
(* answer is the text of the marked option as it is now, not as it was when *)
(* the option was marked.                                                  *)
Create ==
  /\ open
  /\ createQuestionEnabled
  /\ Unset \notin {question, selectedAnswer} \cup {answers[choice] : choice \in MultipleChoice}
  /\ open' = FALSE
  /\ created' = [question |-> question,
                 answer   |-> answers[selectedAnswer],
                 options  |-> answers]
  /\ UNCHANGED <<editing, shown, question, answers, selectedAnswer, createQuestionEnabled>>

Close ==
  /\ open
  /\ open' = FALSE
  /\ UNCHANGED <<editing, shown, question, answers, selectedAnswer, createQuestionEnabled,
                 created>>

SheetNext ==
  \/ BeginEditing
  \/ \E text \in Text \cup {Empty} : TypeQuestion(text)
  \/ EndEditing
  \/ \E choice \in MultipleChoice :
       \/ \E text \in Text \cup {Empty} : SetAnswer(choice, text)
       \/ SelectAnswer(choice)
  \/ Create
  \/ Close

(* Nothing obliges the athlete to go on. *)
SheetSpec == SheetInit /\ [][SheetNext]_sheetVars

-----------------------------------------------------------------------------
(* Safety *)

(* A question that reaches the quiz has a text and four options, whatever   *)
(* was entered, marked, erased and entered again: the button, refreshed by  *)
(* every setter, is the only check for erased fields.                      *)
CreatedIsComplete ==
  created # Unset =>
    created.question # Empty /\ \A choice \in MultipleChoice : created.options[choice] # Empty

(* Unless its text is still being edited, the question created is the one   *)
(* on screen.  (Create does not end editing: a text changed and not left    *)
(* since is lost, and the one before it is created.)                       *)
QuestionAsShown ==
  created # Unset /\ ~ editing => created.question = shown
-----------------------------------------------------------------------------
(* The inductive invariant *)

(* The button says of the view model what isFormComplete says. *)
ButtonInStep == createQuestionEnabled = isQuestionComplete(question, answers, selectedAnswer)

(* Out of editing, the view model has the text on screen. *)
TextInStep == ~ editing => question = IF shown = Empty THEN Unset ELSE shown

(* The sheet creates one question, and is gone. *)
ClosedOnceCreated == created # Unset => ~ open

SheetIInv ==
  /\ SheetTypeOK
  /\ ButtonInStep
  /\ TextInStep
  /\ ClosedOnceCreated
  /\ CreatedIsComplete
  /\ QuestionAsShown
=============================================================================
