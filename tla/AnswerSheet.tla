----------------------------- MODULE AnswerSheet -----------------------------
(***************************************************************************)
(* What a quiz session promises: an answer sheet that grows by one answer   *)
(* at a time, is handed in exactly once, with one answer per question, is   *)
(* not touched while the server decides, and is then accepted, or rejected  *)
(* and discarded; a fan who leaves discards it.  QuizSession implements it. *)
(***************************************************************************)
EXTENDS Naturals, Sequences

CONSTANTS Selection,   \* what one answer may be
          Sizes        \* how many questions a quiz may have

VARIABLES size,        \* number of questions of this quiz
          answers,     \* the answers given so far, in the order given
          status       \* where the sheet is

vars == <<size, answers, status>>

Statuses == {"open", "handedIn", "accepted", "rejected", "discarded"}

TypeOK ==
  /\ size \in Sizes
  /\ answers \in Seq(Selection)
  /\ status \in Statuses

Init ==
  /\ size \in Sizes
  /\ answers = << >>
  /\ status = "open"

(* An answer that is not the last one. *)
Answer(selection) ==
  /\ status = "open"
  /\ Len(answers) + 1 < size
  /\ answers' = Append(answers, selection)
  /\ UNCHANGED <<size, status>>

(* The last answer hands the sheet in. *)
HandIn(selection) ==
  /\ status = "open"
  /\ Len(answers) + 1 = size
  /\ answers' = Append(answers, selection)
  /\ status' = "handedIn"
  /\ UNCHANGED size

Decide ==
  /\ status = "handedIn"
  /\ status' \in {"accepted", "rejected"}
  /\ UNCHANGED <<size, answers>>

Discard ==
  /\ status \in {"open", "rejected"}
  /\ status' = "discarded"
  /\ answers' = << >>
  /\ UNCHANGED size

Next ==
  \/ \E selection \in Selection : Answer(selection) \/ HandIn(selection)
  \/ Decide
  \/ Discard

(* The server decides; the fan need not answer. *)
Spec == Init /\ [][Next]_vars /\ WF_vars(Decide)
=============================================================================
