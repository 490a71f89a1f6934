----------------------------- MODULE AthletePortal -----------------------------
(***************************************************************************)
(* The athlete's side on one device: the home screen with the list of       *)
(* quizzes and their delete buttons (AthleteHomeViewModel, its controller   *)
(* and the tiles), the form that creates a quiz (CreateQuizViewModel and    *)
(* its controller), and the quizzes Firestore holds for the athlete.        *)
(* The sheet that creates one question is reduced to its outcome.           *)
(*                                                                         *)
(* Interleaved here: the clock, the athlete's taps and typing, and the      *)
(* answers to fetches, deletes and the upload, in any order.                *)
(***************************************************************************)
EXTENDS Integers, FiniteSets

CONSTANTS Name,              \* non-empty quiz names
          Question,          \* questions the athlete may write
          Launch,            \* launch times the athlete may choose
          Nil,               \* nothing entered, nothing uploading, no quiz
          Blank,             \* the empty text
          TypesDuringUpload, \* may a keyboard left open go on typing then?
          RequestsFail,      \* may Firestore report an error?
          Horizon,           \* bound on the clock, for model checking
          MaxForms,          \* bound on the forms opened
          MaxUploads,        \* bound on the uploads tried
          MaxFetches         \* bound on the list fetches in flight

ASSUME AthleteAssumption ==
  /\ Launch \subseteq Nat
  /\ {Horizon, MaxForms, MaxUploads} \subseteq Nat /\ MaxFetches \in Nat \ {0}
  /\ {TypesDuringUpload, RequestsFail} \subseteq BOOLEAN
  /\ Nil \notin Name \cup {Blank} \cup Launch /\ Blank \notin Name

VARIABLES
  now,           \* Date()
  store,         \* the athlete's quizzes in Firestore
  screen,        \* the screen on top
  alert,         \* the modal over it
  quizzes,       \* the list last fetched
  deletable,     \* the quizzes whose tile was drawn with a delete button
  fetches,       \* list fetches in flight
  skeleton,      \* does the skeleton cover the list, keeping taps out?
  confirming,    \* the quiz of the action sheet on screen
  deletes,       \* deletes in flight
  orphans,       \* deletes in flight of a home screen logged out of
  form,          \* the fields of the form, and which form it is
  createEnabled, \* createQuizButton.isEnabled
  uploading,     \* the quiz being uploaded
  uploads        \* uploads tried so far: their UUIDs

homeVars == <<quizzes, deletable, fetches, skeleton, confirming, deletes, orphans>>
formVars == <<form, createEnabled, uploading, uploads>>
vars == <<now, store, screen, alert, homeVars, formVars>>

Quizzes == [id : 1 .. MaxUploads, form : 1 .. MaxForms,
            quizName : Name \cup {Blank}, launchTime : Launch,
            questions : SUBSET Question]

Forms == [number : 0 .. MaxForms,
          quizName : Name \cup {Blank, Nil}, launchDate : Launch \cup {Nil},
          selectedReward : BOOLEAN, questions : SUBSET Question]

TypeOK ==
  /\ now \in 0 .. Horizon
  /\ store \subseteq Quizzes
  /\ screen \in {"home", "createQuiz", "createQuestion", "login"}
  /\ alert \in {"none", "confirm", "deleting", "logOut", "error"}
  /\ quizzes \subseteq Quizzes /\ deletable \subseteq quizzes
  /\ fetches \in 0 .. MaxFetches
  /\ skeleton \in BOOLEAN
  /\ confirming \in Quizzes \cup {Nil}
  /\ deletes \cup orphans \subseteq Quizzes
  /\ form \in Forms
  /\ createEnabled \in BOOLEAN
  /\ uploading \in Quizzes \cup {Nil}
  /\ uploads \in 0 .. MaxUploads

EmptyForm(number) ==
  [number |-> number, quizName |-> Nil, launchDate |-> Nil,
   selectedReward |-> FALSE, questions |-> {}]

(* The app arrives at the home screen, which fetches the list. *)
Init ==
  /\ now = 0
  /\ store = {}
  /\ screen = "home"
  /\ alert = "none"
  /\ quizzes = {} /\ deletable = {}
  /\ fetches = 1 /\ skeleton = TRUE
  /\ confirming = Nil
  /\ deletes = {} /\ orphans = {}
  /\ form = EmptyForm(0)
  /\ createEnabled = FALSE
  /\ uploading = Nil
  /\ uploads = 0

Touchable(where) == screen = where /\ alert = "none"

(* A quiz is complete in the sense of isFormComplete. *)
Complete(quizName, launchTime, selectedReward, questions) ==
  quizName \notin {Nil, Blank} /\ launchTime # Nil /\ selectedReward /\ questions # {}

isFormComplete(f) ==
  Complete(f.quizName, f.launchDate, f.selectedReward, f.questions)

(* canDelete, as the tiles are drawn. *)
CanDelete(quiz) == now < quiz.launchTime

(* presentError on the home controller.  Behind the form it cannot present  *)
(* anything, but takes down the alert it finds.                            *)
HomeError == alert' = IF screen = "home" THEN "error" ELSE "none"

-----------------------------------------------------------------------------
(* Faulty variants of the definitions below; the runs show that a property *)
(* tells them apart from the code.                                          *)

SetQuizName_NoRefresh(text) ==
  /\ Touchable("createQuiz")
  /\ uploading = Nil \/ TypesDuringUpload
  /\ form' = [form EXCEPT !.quizName = text]
  /\ UNCHANGED <<now, store, screen, alert, homeVars, createEnabled, uploading, uploads>>

UploadAcked_KeepsForm ==
  /\ uploading # Nil
  /\ store' = store \cup {uploading}
  /\ uploading' = Nil
  /\ createEnabled' = TRUE
  /\ UNCHANGED <<now, screen, alert, homeVars, form, uploads>>

UploadFailed_Silent ==
  /\ RequestsFail
  /\ uploading # Nil
  /\ uploading' = Nil
  /\ createEnabled' = TRUE
  /\ UNCHANGED <<now, store, screen, alert, homeVars, form, uploads>>

DeleteAcked_NoFetch(quiz) ==
  /\ quiz \in deletes
  /\ deletes' = deletes \ {quiz}
  /\ store' = store \ {quiz}
  /\ alert' = "none"
  /\ UNCHANGED <<now, screen, quizzes, deletable, fetches, skeleton, confirming, orphans, formVars>>

DeleteFailed_NoError(quiz) ==
  /\ RequestsFail
  /\ quiz \in deletes
  /\ deletes' = deletes \ {quiz}
  /\ UNCHANGED <<now, store, screen, alert, quizzes, deletable, fetches, skeleton, confirming, orphans, formVars>>
-----------------------------------------------------------------------------
(* The home screen *)

(* A list of quizzes is drawn: each tile decides now on its delete button. *)
Draw(list) ==
  /\ quizzes' = list
  /\ deletable' = {quiz \in list : CanDelete(quiz)}

(* viewDidAppear: draw what is there and fetch. *)
Appears ==
  /\ screen' = "home"
  /\ Draw(quizzes)
  /\ fetches < MaxFetches
  /\ fetches' = fetches + 1
  /\ skeleton' = TRUE

(* Firestore overlays its answer with the device's own writes that are still *)
(* pending: the upload's batch, behind whose form a fetch may be answered,   *)
(* and the deletes.                                                          *)
QuizzesFetched ==
  /\ fetches > 0
  /\ fetches' = fetches - 1
  /\ skeleton' = FALSE
  /\ Draw((store \cup ({uploading} \ {Nil})) \ (deletes \cup orphans))
  /\ UNCHANGED <<now, store, screen, alert, confirming, deletes, orphans, formVars>>

(* .failure presents the error, the .success([]) after it empties the list. *)
QuizzesFetchFailed ==
  /\ RequestsFail
  /\ fetches > 0
  /\ fetches' = fetches - 1
  /\ skeleton' = FALSE
  /\ Draw({})
  /\ HomeError
  /\ UNCHANGED <<now, store, screen, confirming, deletes, orphans, formVars>>

(* A tile scrolled out of sight and back is drawn again (the list does not  *)
(* scroll as it is set up, but does once SkeletonView has hidden a skeleton).*)
Redraw(quiz) ==
  /\ Touchable("home")
  /\ quiz \in deletable /\ ~ CanDelete(quiz)
  /\ deletable' = deletable \ {quiz}
  /\ UNCHANGED <<now, store, screen, alert, quizzes, fetches, skeleton, confirming, deletes, orphans, formVars>>

TapDelete(quiz) ==
  /\ Touchable("home")
  /\ ~ skeleton
  /\ quiz \in deletable
  /\ alert' = "confirm"
  /\ confirming' = quiz
  /\ UNCHANGED <<now, store, screen, quizzes, deletable, fetches, skeleton, deletes, orphans, formVars>>

(* The "Delete" of the action sheet: deleteQuiz. *)
ConfirmDelete ==
  /\ alert = "confirm"
  /\ alert' = "deleting"
  /\ deletes' = deletes \cup {confirming}
  /\ confirming' = Nil
  /\ UNCHANGED <<now, store, screen, quizzes, deletable, fetches, skeleton, orphans, formVars>>

(* The "Cancel" of an action sheet, or the "OK" of an error. *)
DismissAlert ==
  /\ alert \in {"confirm", "logOut", "error"}
  /\ alert' = "none"
  /\ confirming' = Nil
  /\ UNCHANGED <<now, store, screen, quizzes, deletable, fetches, skeleton, deletes, orphans, formVars>>

(* loader(shouldShow: false) takes down whatever alert is up. *)
DeleteAcked(quiz) ==
  /\ quiz \in deletes
  /\ fetches < MaxFetches
  /\ deletes' = deletes \ {quiz}
  /\ store' = store \ {quiz}
  /\ alert' = "none"
  /\ fetches' = fetches + 1
  /\ skeleton' = TRUE
  /\ UNCHANGED <<now, screen, quizzes, deletable, confirming, orphans, formVars>>

DeleteFailed(quiz) ==
  /\ RequestsFail
  /\ quiz \in deletes
  /\ deletes' = deletes \ {quiz}
  /\ HomeError
  /\ UNCHANGED <<now, store, screen, quizzes, deletable, fetches, skeleton, confirming, orphans, formVars>>

(* A tap on the profile image. *)
TapProfile ==
  /\ Touchable("home")
  /\ alert' = "logOut"
  /\ UNCHANGED <<now, store, screen, homeVars, formVars>>

(* The requests of this home screen go on, but it can show nothing more. *)
LogOut ==
  /\ alert = "logOut"
  /\ alert' = "none"
  /\ screen' = "login"
  /\ fetches' = 0
  /\ deletes' = {}
  /\ orphans' = orphans \cup deletes
  /\ UNCHANGED <<now, store, quizzes, deletable, skeleton, confirming, formVars>>

(* A home screen of its own, which fetches the list. *)
LogIn ==
  /\ screen = "login"
  /\ screen' = "home"
  /\ Draw({})
  /\ fetches' = 1
  /\ skeleton' = TRUE
  /\ UNCHANGED <<now, store, alert, confirming, deletes, orphans, formVars>>

OrphanEnds(quiz) ==
  /\ orphans' = orphans \ {quiz}
  /\ store' = store \ {quiz} \/ (RequestsFail /\ store' = store)
  /\ UNCHANGED <<now, screen, alert, quizzes, deletable, fetches, skeleton, confirming, deletes, formVars>>

-----------------------------------------------------------------------------
(* The form.  Each setter but rewardSelected calls updateScreen, which      *)
(* decides on the create button.                                            *)

OpenForm ==
  /\ Touchable("home")
  /\ form.number < MaxForms
  /\ screen' = "createQuiz"
  /\ form' = EmptyForm(form.number + 1)
  /\ createEnabled' = FALSE
  /\ UNCHANGED <<now, store, alert, homeVars, uploading, uploads>>

Refreshed == createEnabled' = isFormComplete(form')

(* loading(true) stops touches on the form, not the keyboard. *)
SetQuizName(text) ==
  /\ Touchable("createQuiz")
  /\ uploading = Nil \/ TypesDuringUpload
  /\ form' = [form EXCEPT !.quizName = text]
  /\ Refreshed
  /\ UNCHANGED <<now, store, screen, alert, homeVars, uploading, uploads>>

SetLaunchDate(launchDate) ==
  /\ Touchable("createQuiz")
  /\ uploading = Nil \/ TypesDuringUpload
  /\ form' = [form EXCEPT !.launchDate = launchDate]
  /\ Refreshed
  /\ UNCHANGED <<now, store, screen, alert, homeVars, uploading, uploads>>

RewardSelected ==
  /\ Touchable("createQuiz")
  /\ uploading = Nil
  /\ form' = [form EXCEPT !.selectedReward = TRUE]
  /\ UNCHANGED <<now, store, screen, alert, homeVars, createEnabled, uploading, uploads>>

AddQuestion ==
  /\ Touchable("createQuiz")
  /\ uploading = Nil
  /\ screen' = "createQuestion"
  /\ UNCHANGED <<now, store, alert, homeVars, formVars>>

Created(question) ==
  /\ screen = "createQuestion"
  /\ question \notin form.questions
  /\ screen' = "createQuiz"
  /\ form' = [form EXCEPT !.questions = @ \cup {question}]
  /\ Refreshed
  /\ UNCHANGED <<now, store, alert, homeVars, uploading, uploads>>

CloseQuestion ==
  /\ screen = "createQuestion"
  /\ screen' = "createQuiz"
  /\ UNCHANGED <<now, store, alert, homeVars, formVars>>

RemoveQuestion(question) ==
  /\ Touchable("createQuiz")
  /\ uploading = Nil
  /\ question \in form.questions
  /\ form' = [form EXCEPT !.questions = @ \ {question}]
  /\ Refreshed
  /\ UNCHANGED <<now, store, screen, alert, homeVars, uploading, uploads>>

Back ==
  /\ Touchable("createQuiz")
  /\ uploading = Nil
  /\ Appears
  /\ UNCHANGED <<now, store, alert, confirming, deletes, orphans, formVars>>

(* createQuiz: its guard looks for fields never entered; it lets a name     *)
(* through that was entered and erased.                                     *)
CreateQuiz ==
  /\ Touchable("createQuiz")
  /\ uploading = Nil
  /\ createEnabled
  /\ uploads < MaxUploads
  /\ IF /\ Nil \notin {form.quizName, form.launchDate}
        /\ form.selectedReward
        /\ form.questions # {}
     THEN /\ uploading' = [id |-> uploads + 1, form |-> form.number,
                           quizName |-> form.quizName, launchTime |-> form.launchDate,
                           questions |-> form.questions]
          /\ uploads' = uploads + 1
          /\ createEnabled' = FALSE
          /\ UNCHANGED alert
     ELSE /\ alert' = "error"
          /\ UNCHANGED <<uploading, uploads, createEnabled>>
  /\ UNCHANGED <<now, store, screen, homeVars, form>>

(* loading(false) enables the button whatever the form holds by now. *)
UploadAcked ==
  /\ uploading # Nil
  /\ store' = store \cup {uploading}
  /\ uploading' = Nil
  /\ createEnabled' = TRUE
  /\ Appears
  /\ UNCHANGED <<now, alert, confirming, deletes, orphans, form, uploads>>

UploadFailed ==
  /\ RequestsFail
  /\ uploading # Nil
  /\ uploading' = Nil
  /\ createEnabled' = TRUE
  /\ alert' = "error"
  /\ UNCHANGED <<now, store, screen, homeVars, form, uploads>>

ClockTicks ==
  /\ now < Horizon
  /\ now' = now + 1
  /\ UNCHANGED <<store, screen, alert, homeVars, formVars>>

-----------------------------------------------------------------------------

UploadEnds == UploadAcked \/ UploadFailed

DeleteEnds == \E quiz \in deletes : DeleteAcked(quiz) \/ DeleteFailed(quiz)

FetchEnds == QuizzesFetched \/ QuizzesFetchFailed

Next ==
  \/ ClockTicks
  \/ FetchEnds
  \/ \E quiz \in quizzes : Redraw(quiz) \/ TapDelete(quiz)
  \/ ConfirmDelete
  \/ DismissAlert
  \/ DeleteEnds
  \/ TapProfile
  \/ LogOut
  \/ LogIn
  \/ \E quiz \in orphans : OrphanEnds(quiz)
  \/ OpenForm
  \/ \E text \in Name \cup {Blank} : SetQuizName(text)
  \/ \E launchDate \in Launch : SetLaunchDate(launchDate)
  \/ RewardSelected
  \/ AddQuestion
  \/ \E question \in Question : Created(question) \/ RemoveQuestion(question)
  \/ CloseQuestion
  \/ Back
  \/ CreateQuiz
  \/ UploadEnds

(* Firestore answers reads from the server, the cache or with an error, and *)
(* writes as soon as the device is online; nothing obliges the athlete.     *)
Fairness == WF_vars(FetchEnds) /\ WF_vars(DeleteEnds) /\ WF_vars(UploadEnds)

Spec == Init /\ [][Next]_vars /\ Fairness

-----------------------------------------------------------------------------
(* Safety *)

(* No quiz without a name or without questions is published, whatever the   *)
(* order of edits, failed uploads and retries, as long as nothing is typed  *)
(* while an upload is on its way: the button alone stands for the check.    *)
PublishedIsComplete ==
  ~ TypesDuringUpload =>
    \A quiz \in store : quiz.quizName # Blank /\ quiz.questions # {}

(* A form publishes one quiz at most, however often its upload is tried:    *)
(* each try has an id of its own and would not overwrite an earlier one.    *)
OneQuizPerForm ==
  \A quiz1, quiz2 \in store : quiz1.form = quiz2.form => quiz1 = quiz2

(* "Deleting..." has no button: it is on screen only while a delete is in   *)
(* flight whose answer takes it down, also when errors of the list and      *)
(* answers to other deletes come in between.                               *)
LoaderHasItsDelete == alert = "deleting" => deletes # {}

-----------------------------------------------------------------------------
(* The inductive invariant *)

(* The "Delete" of an action sheet is about a quiz, the "Log Out" of one is *)
(* on the home screen.                                                      *)
SheetsHaveTheirPlace ==
  /\ alert = "confirm" => confirming \in Quizzes
  /\ alert = "logOut" => screen = "home"

(* An upload is of the form on screen, whose touches it disables. *)
UploadOfThisForm ==
  uploading # Nil => screen = "createQuiz" /\ uploading.form = form.number

(* A form on screen has not been published; forms are numbered as opened. *)
FormIsNew ==
  /\ screen \in {"createQuiz", "createQuestion"} => form.number > 0
  /\ \A quiz \in store :
       /\ quiz.form <= form.number
       /\ screen \in {"createQuiz", "createQuestion"} => quiz.form < form.number

(* As long as nothing is typed during an upload, an enabled button means a  *)
(* complete form, also when loading(false) enables it, for the upload was   *)
(* of the same form.                                                       *)
ButtonMeansComplete ==
  ~ TypesDuringUpload =>
    /\ createEnabled \/ uploading # Nil => isFormComplete(form)
    /\ uploading # Nil => uploading.quizName # Blank /\ uploading.questions # {}

IInv ==
  /\ TypeOK
  /\ SheetsHaveTheirPlace
  /\ UploadOfThisForm
  /\ FormIsNew
  /\ ButtonMeansComplete
  /\ PublishedIsComplete
  /\ OneQuizPerForm
  /\ LoaderHasItsDelete

-----------------------------------------------------------------------------
(* Liveness *)

(* An upload brings the athlete home or shows why it does not. *)
UploadIsAnswered == uploading # Nil ~> screen = "home" \/ alert = "error"

(* The quizzes listed that Firestore does not hold, other than one of the    *)
(* form on screen: that may have been listed while its upload was pending,   *)
(* and stays until the athlete leaves the form.                              *)
Stale ==
  {quiz \in quizzes \ store :
     screen \in {"createQuiz", "createQuestion"} => quiz.form # form.number}

(* A quiz that is gone from the store, or that was listed while its upload   *)
(* was pending and then refused, goes from the athlete's list, whichever     *)
(* answers come in before and wherever the athlete has gone.                 *)
DeletedLeavesList == Stale # {} ~> Stale = {} \/ screen = "login"
=============================================================================
