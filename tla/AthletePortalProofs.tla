-------------------------- MODULE AthletePortalProofs --------------------------
(***************************************************************************)
(* Machine-checked proofs about AthletePortal, for every set of names,      *)
(* questions and launch times, every bound, and both kinds of network and   *)
(* of athlete; and, at the end, about CreateQuestion, the sheet of one       *)
(* question, for every set of texts.                                        *)
(***************************************************************************)
EXTENDS AthletePortal, CreateQuestion, TLAPS

LEMMA Bounds ==
  /\ Horizon \in Nat /\ MaxForms \in Nat /\ MaxUploads \in Nat
  /\ MaxFetches \in Nat /\ MaxFetches >= 1
  BY AthleteAssumption

(* Only quizzes of the list get a delete button. *)
LEMMA ButtonsOfList ==
  ASSUME NEW list, Draw(list)
  PROVE  quizzes' = list /\ deletable' \subseteq quizzes'
  BY DEF Draw

LEMMA InitIInv == Init => IInv
<1> SUFFICES ASSUME Init PROVE IInv
  OBVIOUS
<1>1. TypeOK
  <2>1. form \in Forms
    BY Bounds DEF Init, Forms, EmptyForm
  <2>2. now \in 0 .. Horizon /\ fetches \in 0 .. MaxFetches /\ uploads \in 0 .. MaxUploads
    BY Bounds DEF Init
  <2>3. QED
    BY <2>1, <2>2 DEF Init, TypeOK
<1>2. SheetsHaveTheirPlace /\ UploadOfThisForm /\ FormIsNew /\ ButtonMeansComplete
  BY DEF Init, SheetsHaveTheirPlace, UploadOfThisForm, FormIsNew, ButtonMeansComplete
<1>3. PublishedIsComplete /\ OneQuizPerForm /\ LoaderHasItsDelete
  BY DEF Init, PublishedIsComplete, OneQuizPerForm, LoaderHasItsDelete
<1>4. QED
  BY <1>1, <1>2, <1>3 DEF IInv

-----------------------------------------------------------------------------
(* The parts of the invariant about the form and what it publishes *)

FormInv ==
  /\ UploadOfThisForm
  /\ FormIsNew
  /\ ButtonMeansComplete
  /\ PublishedIsComplete
  /\ OneQuizPerForm

(* The parts about the modal over the screen *)
AlertInv == SheetsHaveTheirPlace /\ LoaderHasItsDelete

LEMMA Parts == IInv <=> TypeOK /\ AlertInv /\ FormInv
  BY DEF IInv, AlertInv, FormInv

(* Steps that leave the form and its upload alone and add nothing to the    *)
(* store, as long as no form comes on screen.                              *)
LEMMA FormUntouched ==
  ASSUME IInv,
         UNCHANGED <<form, createEnabled, uploading>>,
         store' \subseteq store,
         \/ screen' = screen
         \/ uploading = Nil /\ screen' \notin {"createQuiz", "createQuestion"}
         \/ uploading = Nil /\ screen \in {"createQuiz", "createQuestion"}
  PROVE  FormInv'
<1>1. FormInv
  BY Parts
<1>2. UploadOfThisForm' /\ ButtonMeansComplete'
  BY <1>1 DEF FormInv, UploadOfThisForm, ButtonMeansComplete
<1>3. FormIsNew'
  BY <1>1 DEF FormInv, FormIsNew
<1>4. PublishedIsComplete' /\ OneQuizPerForm'
  BY <1>1 DEF FormInv, PublishedIsComplete, OneQuizPerForm
<1>5. QED
  BY <1>2, <1>3, <1>4 DEF FormInv

(* Only the form's own screens upload. *)
LEMMA NoUploadElsewhere ==
  ASSUME IInv, screen # "createQuiz"
  PROVE  uploading = Nil
  BY DEF IInv, UploadOfThisForm

-----------------------------------------------------------------------------
(* The home screen *)

LEMMA FetchKeepsIInv ==
  ASSUME IInv, FetchEnds
  PROVE  IInv'
<1>1. ASSUME QuizzesFetched PROVE IInv'
  <2>1. TypeOK'
    <3>1. fetches' \in 0 .. MaxFetches
      BY <1>1, Bounds DEF IInv, QuizzesFetched, TypeOK
    <3>2. quizzes' \subseteq Quizzes /\ deletable' \subseteq quizzes'
      BY <1>1, ButtonsOfList DEF IInv, QuizzesFetched, TypeOK
    <3>3. QED
      BY <1>1, <3>1, <3>2 DEF IInv, QuizzesFetched, formVars, TypeOK
  <2>2. AlertInv'
    BY <1>1, Parts DEF QuizzesFetched, AlertInv, SheetsHaveTheirPlace, LoaderHasItsDelete
  <2>3. FormInv'
    BY <1>1, FormUntouched DEF QuizzesFetched, formVars
  <2>4. QED
    BY <2>1, <2>2, <2>3, Parts DEF IInv, AlertInv, FormInv
<1>2. ASSUME QuizzesFetchFailed PROVE IInv'
  <2>1. TypeOK'
    <3>1. fetches' \in 0 .. MaxFetches
      BY <1>2, Bounds DEF IInv, QuizzesFetchFailed, TypeOK
    <3>2. quizzes' \subseteq Quizzes /\ deletable' \subseteq quizzes'
      BY <1>2, ButtonsOfList DEF QuizzesFetchFailed
    <3>3. QED
      BY <1>2, <3>1, <3>2 DEF IInv, QuizzesFetchFailed, HomeError, formVars, TypeOK
  <2>2. AlertInv'
    BY <1>2 DEF QuizzesFetchFailed, HomeError, AlertInv, SheetsHaveTheirPlace, LoaderHasItsDelete
  <2>3. FormInv'
    BY <1>2, FormUntouched DEF QuizzesFetchFailed, formVars
  <2>4. QED
    BY <2>1, <2>2, <2>3 DEF IInv, AlertInv, FormInv
<1>3. QED
  BY <1>1, <1>2 DEF FetchEnds

LEMMA TilesKeepIInv ==
  ASSUME IInv, NEW quiz \in quizzes, Redraw(quiz) \/ TapDelete(quiz)
  PROVE  IInv'
<1>1. quiz \in Quizzes
  BY DEF IInv, TypeOK
<1>2. TypeOK'
  BY <1>1 DEF IInv, Redraw, TapDelete, formVars, TypeOK
<1>3. AlertInv'
  BY <1>1, Parts DEF Redraw, TapDelete, Touchable, AlertInv, SheetsHaveTheirPlace, LoaderHasItsDelete
<1>4. FormInv'
  BY FormUntouched DEF Redraw, TapDelete, formVars
<1>5. QED
  BY <1>2, <1>3, <1>4 DEF IInv, AlertInv, FormInv

LEMMA SheetsKeepIInv ==
  ASSUME IInv, ConfirmDelete \/ DismissAlert \/ TapProfile
  PROVE  IInv'
<1>1. TypeOK'
  BY DEF IInv, SheetsHaveTheirPlace, ConfirmDelete, DismissAlert, TapProfile, homeVars, formVars, TypeOK
<1>2. AlertInv'
  BY Parts DEF ConfirmDelete, DismissAlert, TapProfile, Touchable, homeVars,
     AlertInv, SheetsHaveTheirPlace, LoaderHasItsDelete
<1>3. FormInv'
  BY FormUntouched DEF ConfirmDelete, DismissAlert, TapProfile, formVars
<1>4. QED
  BY <1>1, <1>2, <1>3 DEF IInv, AlertInv, FormInv

LEMMA DeletesKeepIInv ==
  ASSUME IInv, NEW quiz, DeleteAcked(quiz) \/ DeleteFailed(quiz)
  PROVE  IInv'
<1>1. TypeOK'
  <2>1. fetches' \in 0 .. MaxFetches
    BY Bounds DEF IInv, DeleteAcked, DeleteFailed, TypeOK
  <2>2. QED
    BY <2>1 DEF IInv, DeleteAcked, DeleteFailed, HomeError, formVars, TypeOK
<1>2. AlertInv'
  BY DEF DeleteAcked, DeleteFailed, HomeError, AlertInv, SheetsHaveTheirPlace, LoaderHasItsDelete
<1>3. FormInv'
  BY FormUntouched DEF DeleteAcked, DeleteFailed, formVars
<1>4. QED
  BY <1>1, <1>2, <1>3 DEF IInv, AlertInv, FormInv

LEMMA LogInAndOutKeepIInv ==
  ASSUME IInv, LogOut \/ LogIn
  PROVE  IInv'
<1>1. TypeOK'
  <2>1. fetches' \in 0 .. MaxFetches
    BY Bounds DEF LogOut, LogIn
  <2>2. quizzes' \subseteq Quizzes /\ deletable' \subseteq quizzes'
    BY ButtonsOfList DEF IInv, LogOut, LogIn, TypeOK
  <2>3. QED
    BY <2>1, <2>2 DEF IInv, LogOut, LogIn, formVars, TypeOK
<1>2. AlertInv'
  BY Parts DEF LogOut, LogIn, AlertInv, SheetsHaveTheirPlace, LoaderHasItsDelete
<1>3. screen # "createQuiz"
  BY DEF IInv, SheetsHaveTheirPlace, LogOut, LogIn
<1>4. FormInv'
  BY <1>3, NoUploadElsewhere, FormUntouched DEF LogOut, LogIn, formVars
<1>5. QED
  BY <1>1, <1>2, <1>4 DEF IInv, AlertInv, FormInv

LEMMA OrphansKeepIInv ==
  ASSUME IInv, NEW quiz, OrphanEnds(quiz)
  PROVE  IInv'
<1>1. TypeOK'
  BY DEF IInv, OrphanEnds, formVars, TypeOK
<1>2. AlertInv'
  BY Parts DEF OrphanEnds, AlertInv, SheetsHaveTheirPlace, LoaderHasItsDelete
<1>3. FormInv'
  BY FormUntouched DEF OrphanEnds, formVars
<1>4. QED
  BY <1>1, <1>2, <1>3 DEF IInv, AlertInv, FormInv
-----------------------------------------------------------------------------
(* The form *)

LEMMA FormType ==
  ASSUME IInv
  PROVE  /\ form \in Forms
         /\ form.number \in 0 .. MaxForms
         /\ MaxForms \in Nat
         /\ \A quiz \in store : quiz \in Quizzes /\ quiz.form \in Nat
  BY Bounds DEF IInv, TypeOK, Forms, Quizzes

LEMMA OpeningKeepsIInv ==
  ASSUME IInv, OpenForm
  PROVE  IInv'
<1>1. /\ form' = EmptyForm(form.number + 1) /\ form.number < MaxForms
      /\ ~ createEnabled' /\ uploading = Nil /\ uploading' = Nil
  BY NoUploadElsewhere DEF OpenForm, Touchable
<1>2. form' \in Forms /\ form'.number = form.number + 1
  BY <1>1, FormType DEF EmptyForm, Forms
<1>3. TypeOK'
  BY <1>2 DEF IInv, OpenForm, homeVars, TypeOK
<1>4. AlertInv'
  BY DEF OpenForm, Touchable, AlertInv, SheetsHaveTheirPlace, LoaderHasItsDelete
<1>5. FormIsNew'
  BY <1>2, FormType DEF IInv, OpenForm, FormIsNew
<1>6. UploadOfThisForm' /\ ButtonMeansComplete'
  BY <1>1 DEF UploadOfThisForm, ButtonMeansComplete
<1>7. PublishedIsComplete' /\ OneQuizPerForm'
  BY DEF IInv, OpenForm, PublishedIsComplete, OneQuizPerForm
<1>8. QED
  BY <1>3, <1>4, <1>5, <1>6, <1>7 DEF IInv, AlertInv

(* A setter on a form: it keeps the number, refreshes the button or cannot  *)
(* make the form less complete, and, unless it types, waits for the upload. *)
LEMMA SetterKeepsIInv ==
  ASSUME IInv,
         form' \in Forms, form'.number = form.number,
         uploading = Nil \/ TypesDuringUpload,
         \/ Refreshed
         \/ createEnabled' = createEnabled /\ (isFormComplete(form) => isFormComplete(form')),
         \/ screen' = screen
         \/ uploading = Nil /\ screen = "createQuestion" /\ screen' = "createQuiz",
         UNCHANGED <<now, store, alert, homeVars, uploading, uploads>>
  PROVE  IInv'
<1>1. TypeOK'
  <2>1. createEnabled' \in BOOLEAN
    BY DEF IInv, TypeOK, Refreshed, isFormComplete, Complete
  <2>2. QED
    BY <2>1 DEF IInv, homeVars, TypeOK
<1>2. AlertInv'
  BY DEF IInv, homeVars, AlertInv, SheetsHaveTheirPlace, LoaderHasItsDelete
<1>3. UploadOfThisForm'
  BY DEF IInv, UploadOfThisForm
<1>4. FormIsNew'
  BY DEF IInv, FormIsNew
<1>5. ButtonMeansComplete'
  BY DEF IInv, ButtonMeansComplete, Refreshed
<1>6. PublishedIsComplete' /\ OneQuizPerForm'
  BY DEF IInv, PublishedIsComplete, OneQuizPerForm
<1>7. QED
  BY <1>1, <1>2, <1>3, <1>4, <1>5, <1>6 DEF IInv, AlertInv

LEMMA FieldsKeepIInv ==
  ASSUME IInv
  PROVE  /\ \A text \in Name \cup {Blank} : SetQuizName(text) => IInv'
         /\ \A launchDate \in Launch : SetLaunchDate(launchDate) => IInv'
         /\ RewardSelected => IInv'
<1>1. ASSUME NEW text \in Name \cup {Blank}, SetQuizName(text) PROVE IInv'
  <2>1. form' \in Forms /\ form'.number = form.number
    BY <1>1, FormType DEF SetQuizName, Forms
  <2>2. QED
    BY <1>1, <2>1, SetterKeepsIInv DEF SetQuizName
<1>2. ASSUME NEW launchDate \in Launch, SetLaunchDate(launchDate) PROVE IInv'
  <2>1. form' \in Forms /\ form'.number = form.number
    BY <1>2, FormType DEF SetLaunchDate, Forms
  <2>2. QED
    BY <1>2, <2>1, SetterKeepsIInv DEF SetLaunchDate
<1>3. ASSUME RewardSelected PROVE IInv'
  <2>1. form' \in Forms /\ form'.number = form.number
    BY <1>3, FormType DEF RewardSelected, Forms
  <2>2. isFormComplete(form) => isFormComplete(form')
    BY <1>3, FormType DEF RewardSelected, Forms, isFormComplete, Complete
  <2>3. QED
    BY <1>3, <2>1, <2>2, SetterKeepsIInv DEF RewardSelected
<1>4. QED
  BY <1>1, <1>2, <1>3

LEMMA QuestionsKeepIInv ==
  ASSUME IInv, NEW q \in Question
  PROVE  (Created(q) => IInv') /\ (RemoveQuestion(q) => IInv')
<1>1. ASSUME Created(q) PROVE IInv'
  <2>1. form' \in Forms /\ form'.number = form.number
    BY <1>1, FormType DEF Created, Forms
  <2>2. uploading = Nil
    BY <1>1, NoUploadElsewhere DEF Created
  <2>3. QED
    BY <1>1, <2>1, <2>2, SetterKeepsIInv DEF Created
<1>2. ASSUME RemoveQuestion(q) PROVE IInv'
  <2>1. form' \in Forms /\ form'.number = form.number
    BY <1>2, FormType DEF RemoveQuestion, Forms
  <2>2. QED
    BY <1>2, <2>1, SetterKeepsIInv DEF RemoveQuestion
<1>3. QED
  BY <1>1, <1>2

LEMMA QuestionSheetKeepsIInv ==
  ASSUME IInv, AddQuestion \/ CloseQuestion
  PROVE  IInv'
<1>1. TypeOK' /\ AlertInv'
  BY DEF IInv, AddQuestion, CloseQuestion, Touchable, homeVars, formVars, TypeOK,
     AlertInv, SheetsHaveTheirPlace, LoaderHasItsDelete
<1>2. uploading = Nil
  BY NoUploadElsewhere DEF AddQuestion, CloseQuestion
<1>3. FormInv'
  BY <1>2, FormUntouched DEF AddQuestion, CloseQuestion, Touchable, formVars
<1>4. QED
  BY <1>1, <1>3 DEF IInv, AlertInv, FormInv

(* The home screen comes back with the list it had. *)
LEMMA AppearsKeepsTypes ==
  ASSUME IInv, Appears
  PROVE  /\ screen' = "home" /\ skeleton' \in BOOLEAN
         /\ fetches' \in 0 .. MaxFetches
         /\ quizzes' \subseteq Quizzes /\ deletable' \subseteq quizzes'
<1>1. fetches' \in 0 .. MaxFetches
  BY Bounds DEF IInv, TypeOK, Appears
<1>2. quizzes' \subseteq Quizzes /\ deletable' \subseteq quizzes'
  BY ButtonsOfList DEF IInv, TypeOK, Appears
<1>3. QED
  BY <1>1, <1>2 DEF Appears

LEMMA BackKeepsIInv ==
  ASSUME IInv, Back
  PROVE  IInv'
<1>1. Appears
  BY DEF Back
<1>2. TypeOK'
  BY <1>1, AppearsKeepsTypes DEF IInv, Back, formVars, TypeOK
<1>3. AlertInv'
  BY <1>1, AppearsKeepsTypes DEF IInv, Back, AlertInv, SheetsHaveTheirPlace, LoaderHasItsDelete
<1>4. FormInv'
  BY <1>1, AppearsKeepsTypes, FormUntouched DEF Back, formVars
<1>5. QED
  BY <1>2, <1>3, <1>4 DEF IInv, AlertInv, FormInv

-----------------------------------------------------------------------------
(* The upload *)

(* The button is enabled, so the form is complete; nothing typed since it   *)
(* was refreshed has gone unnoticed, unless typed during an upload.         *)
LEMMA UploadStartKeepsIInv ==
  ASSUME IInv, CreateQuiz
  PROVE  IInv'
<1>1. /\ screen = "createQuiz" /\ alert = "none" /\ uploading = Nil /\ createEnabled
      /\ UNCHANGED <<now, store, screen, homeVars, form>>
  BY DEF CreateQuiz, Touchable
<1>2. FormIsNew' /\ PublishedIsComplete' /\ OneQuizPerForm'
  BY <1>1 DEF IInv, FormIsNew, PublishedIsComplete, OneQuizPerForm
<1>3. CASE uploads' = uploads
  <2>1. UNCHANGED <<uploading, createEnabled>> /\ alert' \in {"none", "error"}
    <3>1. uploads' # uploads + 1
      BY <1>3, Bounds DEF IInv, TypeOK
    <3>2. QED
      BY <3>1 DEF CreateQuiz
  <2>2. TypeOK'
    BY <1>1, <1>3, <2>1 DEF IInv, homeVars, TypeOK
  <2>3. AlertInv'
    BY <1>1, <2>1 DEF IInv, homeVars, AlertInv, SheetsHaveTheirPlace, LoaderHasItsDelete
  <2>4. UploadOfThisForm' /\ ButtonMeansComplete'
    BY <1>1, <2>1 DEF IInv, UploadOfThisForm, ButtonMeansComplete
  <2>5. QED
    BY <1>2, <2>2, <2>3, <2>4 DEF IInv, AlertInv
<1>4. CASE uploads' # uploads
  <2>1. /\ uploading' = [id |-> uploads + 1, form |-> form.number,
                         quizName |-> form.quizName, launchTime |-> form.launchDate,
                         questions |-> form.questions]
        /\ uploads' = uploads + 1 /\ uploads < MaxUploads
        /\ ~ createEnabled' /\ createEnabled' \in BOOLEAN
        /\ UNCHANGED alert
        /\ form.quizName # Nil /\ form.launchDate # Nil /\ form.questions # {}
    BY <1>1, <1>4 DEF CreateQuiz
  <2>2. form.number \in 1 .. MaxForms
    BY <1>1, FormType DEF IInv, FormIsNew
  <2>3. uploads' \in 0 .. MaxUploads /\ uploads + 1 \in 1 .. MaxUploads
    BY <2>1, Bounds DEF IInv, TypeOK
  <2>4. uploading' \in Quizzes
    BY <2>1, <2>2, <2>3, FormType DEF Forms, Quizzes
  <2>5. TypeOK'
    BY <1>1, <2>1, <2>3, <2>4 DEF IInv, homeVars, TypeOK
  <2>6. AlertInv'
    BY <1>1, <2>1 DEF IInv, homeVars, AlertInv, SheetsHaveTheirPlace, LoaderHasItsDelete
  <2>7. UploadOfThisForm'
    BY <1>1, <2>1 DEF UploadOfThisForm
  <2>8. ButtonMeansComplete'
    BY <1>1, <2>1 DEF IInv, ButtonMeansComplete, isFormComplete, Complete
  <2>9. QED
    BY <1>2, <2>5, <2>6, <2>7, <2>8 DEF IInv, AlertInv
<1>5. QED
  BY <1>3, <1>4

(* The form that is published leaves the screen with the same step, and its *)
(* number is larger than those published before.                           *)
LEMMA UploadAckedKeepsIInv ==
  ASSUME IInv, UploadAcked
  PROVE  IInv'
<1>1. /\ uploading # Nil /\ uploading \in Quizzes
      /\ screen = "createQuiz" /\ uploading.form = form.number
      /\ uploading' = Nil /\ createEnabled' = TRUE
      /\ store' = store \cup {uploading}
      /\ UNCHANGED <<now, alert, confirming, deletes, orphans, form, uploads>>
  BY DEF IInv, TypeOK, UploadOfThisForm, UploadAcked
<1>2. Appears
  BY DEF UploadAcked
<1>3. TypeOK'
  BY <1>1, <1>2, AppearsKeepsTypes DEF IInv, TypeOK
<1>4. AlertInv'
  BY <1>1, <1>2, AppearsKeepsTypes DEF IInv, AlertInv, SheetsHaveTheirPlace, LoaderHasItsDelete
<1>5. \A quiz \in store : quiz.form < form.number
  BY <1>1 DEF IInv, FormIsNew
<1>6. UploadOfThisForm' /\ ButtonMeansComplete'
  BY <1>1 DEF IInv, UploadOfThisForm, ButtonMeansComplete
<1>7. FormIsNew'
  BY <1>1, <1>2, <1>5, AppearsKeepsTypes, FormType DEF FormIsNew
<1>8. PublishedIsComplete'
  BY <1>1 DEF IInv, PublishedIsComplete, ButtonMeansComplete
<1>9. OneQuizPerForm'
  BY <1>1, <1>5, FormType DEF IInv, OneQuizPerForm
<1>10. QED
  BY <1>3, <1>4, <1>6, <1>7, <1>8, <1>9 DEF IInv, AlertInv

LEMMA UploadFailedKeepsIInv ==
  ASSUME IInv, UploadFailed
  PROVE  IInv'
<1>1. /\ uploading # Nil /\ uploading' = Nil /\ createEnabled' = TRUE /\ alert' = "error"
      /\ UNCHANGED <<now, store, screen, homeVars, form, uploads>>
  BY DEF UploadFailed
<1>2. TypeOK'
  BY <1>1 DEF IInv, homeVars, TypeOK
<1>3. AlertInv'
  BY <1>1 DEF AlertInv, SheetsHaveTheirPlace, LoaderHasItsDelete
<1>4. UploadOfThisForm' /\ ButtonMeansComplete'
  BY <1>1 DEF IInv, UploadOfThisForm, ButtonMeansComplete
<1>5. FormIsNew' /\ PublishedIsComplete' /\ OneQuizPerForm'
  BY <1>1 DEF IInv, FormIsNew, PublishedIsComplete, OneQuizPerForm
<1>6. QED
  BY <1>2, <1>3, <1>4, <1>5 DEF IInv, AlertInv

LEMMA ClockKeepsIInv ==
  ASSUME IInv, ClockTicks \/ UNCHANGED vars
  PROVE  IInv'
<1>1. now' \in 0 .. Horizon
  BY Bounds DEF IInv, TypeOK, ClockTicks, vars
<1>2. UNCHANGED <<store, screen, alert, homeVars, formVars>>
  BY DEF ClockTicks, vars
<1>3. TypeOK' /\ AlertInv'
  BY <1>1, <1>2 DEF IInv, homeVars, formVars, TypeOK, AlertInv, SheetsHaveTheirPlace, LoaderHasItsDelete
<1>4. FormInv'
  BY <1>2, FormUntouched DEF formVars
<1>5. QED
  BY <1>3, <1>4 DEF IInv, AlertInv, FormInv

-----------------------------------------------------------------------------
(* The theorems *)

(* The conjunction behind the theorems below is kept by every step of the   *)
(* athlete's device and its store.                                         *)
THEOREM InductiveInvariant == Spec => []IInv
<1>1. IInv /\ [Next]_vars => IInv'
  <2> SUFFICES ASSUME IInv, [Next]_vars PROVE IInv'
    OBVIOUS
  <2>1. CASE UNCHANGED vars
    BY <2>1, ClockKeepsIInv
  <2>2. CASE \/ FetchEnds \/ DeleteEnds \/ LogOut \/ LogIn
             \/ \E quiz \in quizzes : Redraw(quiz) \/ TapDelete(quiz)
             \/ ConfirmDelete \/ DismissAlert \/ TapProfile
             \/ \E quiz \in orphans : OrphanEnds(quiz)
    BY <2>2, FetchKeepsIInv, TilesKeepIInv, SheetsKeepIInv, DeletesKeepIInv,
       LogInAndOutKeepIInv, OrphansKeepIInv DEF DeleteEnds
  <2>3. CASE \/ OpenForm \/ RewardSelected \/ AddQuestion \/ CloseQuestion \/ Back
             \/ \E text \in Name \cup {Blank} : SetQuizName(text)
             \/ \E launchDate \in Launch : SetLaunchDate(launchDate)
             \/ \E q \in Question : Created(q) \/ RemoveQuestion(q)
    BY <2>3, OpeningKeepsIInv, FieldsKeepIInv, QuestionsKeepIInv,
       QuestionSheetKeepsIInv, BackKeepsIInv
  <2>4. CASE CreateQuiz \/ UploadEnds
    BY <2>4, UploadStartKeepsIInv, UploadAckedKeepsIInv, UploadFailedKeepsIInv DEF UploadEnds
  <2>5. CASE ClockTicks
    BY <2>5, ClockKeepsIInv
  <2>6. QED
    BY <2>1, <2>2, <2>3, <2>4, <2>5 DEF Next
<1>2. QED
  BY <1>1, InitIInv, PTL DEF Spec

(* Type correctness, for any sets of names, questions and launch times.     *)
THEOREM TypeCorrect == Spec => []TypeOK
  BY InductiveInvariant, PTL DEF IInv

(* As long as nothing is typed during an upload, uploadQuiz publishes no    *)
(* quiz without a name or without questions, though the guard of createQuiz *)
(* would let an empty name through and loading(false) does not ask.         *)
THEOREM NothingIncompletePublished == Spec => []PublishedIsComplete
  BY InductiveInvariant, PTL DEF IInv

(* However often an upload is tried again under a new id, a form publishes  *)
(* one quiz.                                                               *)
THEOREM FormPublishesOnce == Spec => []OneQuizPerForm
  BY InductiveInvariant, PTL DEF IInv

(* The "Deleting..." alert, which has no button, always has a delete in     *)
(* flight whose completion takes it down.                                  *)
THEOREM LoaderIsTakenDown == Spec => []LoaderHasItsDelete
  BY InductiveInvariant, PTL DEF IInv

-----------------------------------------------------------------------------
(* The sheet of one question *)

(* AthletePortal has the sheet by its outcome; that what it creates is       *)
(* complete and what was on screen is proved here of CreateQuestion.         *)

LEMMA SheetInitially == SheetInit => SheetIInv
  BY TextAssumption
     DEF SheetInit, SheetIInv, SheetTypeOK, ButtonInStep, TextInStep,
         ClosedOnceCreated, CreatedIsComplete, QuestionAsShown, isQuestionComplete,
         MultipleChoice

(* A sheet on screen has not created anything: as long as it stays, nothing *)
(* is said of the question created.                                        *)
LEMMA NothingCreatedYet ==
  ASSUME SheetIInv, open, created' = created
  PROVE  created' = Unset /\ ClosedOnceCreated' /\ CreatedIsComplete' /\ QuestionAsShown'
  BY DEF SheetIInv, ClosedOnceCreated, CreatedIsComplete, QuestionAsShown

LEMMA EditingKeepsSheet ==
  ASSUME SheetIInv
  PROVE  /\ BeginEditing => SheetIInv'
         /\ \A text \in Text \cup {Empty} : TypeQuestion(text) => SheetIInv'
         /\ EndEditing => SheetIInv'
<1>1. ASSUME BeginEditing PROVE SheetIInv'
  <2>1. SheetTypeOK' /\ ButtonInStep' /\ TextInStep'
    BY <1>1 DEF SheetIInv, BeginEditing, SheetTypeOK, ButtonInStep, TextInStep
  <2>2. QED
    BY <1>1, <2>1, NothingCreatedYet DEF BeginEditing, SheetIInv
<1>2. ASSUME NEW text \in Text \cup {Empty}, TypeQuestion(text) PROVE SheetIInv'
  <2>1. SheetTypeOK' /\ ButtonInStep' /\ TextInStep'
    BY <1>2 DEF SheetIInv, TypeQuestion, SheetTypeOK, ButtonInStep, TextInStep
  <2>2. QED
    BY <1>2, <2>1, NothingCreatedYet DEF TypeQuestion, SheetIInv
<1>3. ASSUME EndEditing PROVE SheetIInv'
  <2>1. SheetTypeOK'
    BY <1>3 DEF SheetIInv, EndEditing, UpdateScreen, SheetTypeOK, isQuestionComplete
  <2>2. ButtonInStep' /\ TextInStep'
    BY <1>3 DEF EndEditing, UpdateScreen, ButtonInStep, TextInStep
  <2>3. QED
    BY <1>3, <2>1, <2>2, NothingCreatedYet DEF EndEditing, SheetIInv
<1>4. QED
  BY <1>1, <1>2, <1>3

LEMMA OptionsKeepSheet ==
  ASSUME SheetIInv, NEW choice \in MultipleChoice
  PROVE  /\ \A text \in Text \cup {Empty} : SetAnswer(choice, text) => SheetIInv'
         /\ SelectAnswer(choice) => SheetIInv'
<1>1. ASSUME NEW text \in Text \cup {Empty}, SetAnswer(choice, text) PROVE SheetIInv'
  <2>1. SheetTypeOK'
    BY <1>1 DEF SheetIInv, SetAnswer, UpdateScreen, SheetTypeOK, isQuestionComplete
  <2>2. ButtonInStep' /\ TextInStep'
    BY <1>1 DEF SheetIInv, SetAnswer, UpdateScreen, ButtonInStep, TextInStep
  <2>3. QED
    BY <1>1, <2>1, <2>2, NothingCreatedYet DEF SetAnswer, SheetIInv
<1>2. ASSUME SelectAnswer(choice) PROVE SheetIInv'
  <2>1. SheetTypeOK'
    BY <1>2 DEF SheetIInv, SelectAnswer, UpdateScreen, SheetTypeOK, isQuestionComplete
  <2>2. ButtonInStep' /\ TextInStep'
    BY <1>2 DEF SheetIInv, SelectAnswer, UpdateScreen, ButtonInStep, TextInStep
  <2>3. QED
    BY <1>2, <2>1, <2>2, NothingCreatedYet DEF SelectAnswer, SheetIInv
<1>3. QED
  BY <1>1, <1>2

(* The button is enabled, so the view model has a text and four options;    *)
(* out of editing, the text is the one on screen.                          *)
LEMMA CreateKeepsSheet ==
  ASSUME SheetIInv, Create
  PROVE  SheetIInv'
<1>1. isQuestionComplete(question, answers, selectedAnswer)
  BY DEF SheetIInv, ButtonInStep, Create
<1>2. /\ question \in Text
      /\ answers \in [MultipleChoice -> Text]
      /\ selectedAnswer \in MultipleChoice
  BY <1>1 DEF SheetIInv, SheetTypeOK, isQuestionComplete
<1>3. SheetTypeOK'
  BY <1>2 DEF SheetIInv, Create, SheetTypeOK, Questions
<1>4. ButtonInStep' /\ TextInStep' /\ ClosedOnceCreated'
  BY DEF SheetIInv, Create, ButtonInStep, TextInStep, ClosedOnceCreated
<1>5. CreatedIsComplete'
  BY <1>2, TextAssumption DEF Create, CreatedIsComplete
<1>6. QuestionAsShown'
  BY <1>2, TextAssumption DEF SheetIInv, TextInStep, Create, QuestionAsShown
<1>7. QED
  BY <1>3, <1>4, <1>5, <1>6 DEF SheetIInv

LEMMA CloseKeepsSheet ==
  ASSUME SheetIInv, Close
  PROVE  SheetIInv'
  BY DEF SheetIInv, Close, SheetTypeOK, ButtonInStep, TextInStep, ClosedOnceCreated,
     CreatedIsComplete, QuestionAsShown

(* The conjunction behind the theorems below is kept by every step of the   *)
(* sheet: every setter refreshes the button, and nothing else touches it.   *)
THEOREM SheetInvariant == SheetSpec => []SheetIInv
<1>1. SheetIInv /\ [SheetNext]_sheetVars => SheetIInv'
  <2> SUFFICES ASSUME SheetIInv, [SheetNext]_sheetVars PROVE SheetIInv'
    OBVIOUS
  <2>1. CASE UNCHANGED sheetVars
    BY <2>1
       DEF sheetVars, SheetIInv, SheetTypeOK, ButtonInStep, TextInStep,
           ClosedOnceCreated, CreatedIsComplete, QuestionAsShown
  <2>2. CASE SheetNext
    BY <2>2, EditingKeepsSheet, OptionsKeepSheet, CreateKeepsSheet, CloseKeepsSheet
       DEF SheetNext
  <2>3. QED
    BY <2>1, <2>2
<1>2. QED
  BY <1>1, SheetInitially, PTL DEF SheetSpec

(* Type correctness, for any set of texts. *)
THEOREM SheetTypes == SheetSpec => []SheetTypeOK
  BY SheetInvariant, PTL DEF SheetIInv

(* createQuestion hands on no question with an empty text or an empty       *)
(* option, whatever was entered and erased before.                         *)
THEOREM NothingErasedIsCreated == SheetSpec => []CreatedIsComplete
  BY SheetInvariant, PTL DEF SheetIInv

(* Out of editing, createQuestion hands on the text the text view shows.    *)
THEOREM ShownIsCreated == SheetSpec => []QuestionAsShown
  BY SheetInvariant, PTL DEF SheetIInv
=============================================================================
