-------------------------------- MODULE Huddle --------------------------------
(***************************************************************************)
(* One fan's way into a quiz, on one or several devices signed in to the    *)
(* same account: HuddleViewModel and HuddleViewController (list, window     *)
(* check, "has the fan submitted?" check, questions fetch), the modal       *)
(* alerts they share, and the coordinators that present the quiz and the    *)
(* result screen.  The quiz itself is reduced to the fate of its sheet      *)
(* (QuizSession has the detail); Firestore to what is stored for the fan.   *)
(*                                                                         *)
(* QuizService reports a failed read as .failure and then goes on to report *)
(* .success with an empty value; both callbacks are part of one step here,  *)
(* since Firestore delivers them back to back on the main queue.            *)
(***************************************************************************)
EXTENDS Integers, Sequences, SequencesExt

CONSTANTS Device,      \* devices signed in to the fan's account
          Quiz,        \* quizzes of the athlete
          NoQuiz,      \* no quiz tapped or opened yet
          LaunchTime,  \* launchTime of each quiz
          Window,      \* endTime - launchTime
          Failing,     \* devices whose Firestore reads may report an error
          Horizon,     \* bound on the clock, for model checking
          MaxRequests, \* bound on the reads a device has in flight
          MaxLanded    \* bound on the commits of each device for one quiz

ASSUME HuddleAssumption ==
  /\ LaunchTime \in [Quiz -> Nat]
  /\ {Window, Horizon, MaxRequests} \subseteq Nat
  /\ MaxLanded \in [Device -> Nat]
  /\ Failing \subseteq Device
  /\ NoQuiz \notin Quiz

VARIABLES
  now,       \* Date(), the same on every device
  landed,    \* commits written, per quiz and device (history of the store)
  screen,    \* what each device shows
  quizzes,   \* the list each device last fetched
  listing,   \* is a fetch of the list in flight (skeleton over the list)?
  alert,     \* the modal over the device's screen
  requests,  \* reads of the launch flow in flight, each with its quiz
  tapped,    \* the quiz last launched by a tap
  opened,    \* the quiz of the quiz or result screen last presented
  sheet      \* fate of the answer sheet of the quiz on screen

flowVars == <<listing, quizzes, requests, tapped>>
screenVars == <<screen, alert, opened, sheet>>
vars == <<now, landed, flowVars, screenVars>>

Screens == {"home", "huddle", "quiz", "result", "crashed"}
Messages == {"wentWrong", "missedIt", "slowDown", "notSubmitted"}
Alerts == {"none", "loading", "submitting"} \cup Messages
Sheets == {"open", "handedIn", "accepted", "rejected"}
Requests == [op : {"check", "resultCheck", "questions"}, quiz : Quiz]

TypeOK ==
  /\ now \in 0 .. Horizon
  /\ landed \in [Quiz -> [Device -> Nat]]
  /\ \A quiz \in Quiz, d \in Device : landed[quiz][d] <= MaxLanded[d]
  /\ screen \in [Device -> Screens]
  /\ quizzes \in [Device -> SUBSET Quiz]
  /\ listing \in [Device -> BOOLEAN]
  /\ alert \in [Device -> Alerts]
  /\ requests \in [Device -> Seq(Requests)]
  /\ \A d \in Device : Len(requests[d]) <= MaxRequests
  /\ tapped \in [Device -> Quiz \cup {NoQuiz}]
  /\ opened \in [Device -> Quiz \cup {NoQuiz}]
  /\ sheet \in [Device -> Sheets]

Init ==
  /\ now = 0
  /\ landed = [quiz \in Quiz |-> [d \in Device |-> 0]]
  /\ screen = [d \in Device |-> "home"]
  /\ quizzes = [d \in Device |-> {}]
  /\ listing = [d \in Device |-> FALSE]
  /\ alert = [d \in Device |-> "none"]
  /\ requests = [d \in Device |-> << >>]
  /\ tapped = [d \in Device |-> NoQuiz]
  /\ opened = [d \in Device |-> NoQuiz]
  /\ sheet = [d \in Device |-> "open"]

EndTime(quiz) == LaunchTime[quiz] + Window

(* What fetchHasMadeSubmission finds: the document submissions/{fanId}. *)
HasSubmitted(quiz) == \E d \in Device : landed[quiz][d] > 0

(* Taps reach a screen only when no alert covers it. *)
Touchable(d, where) == screen[d] = where /\ alert[d] = "none"

(* displayAlert and displayLoading, called on the huddle's controller: they *)
(* replace the alert that is up; under a full-screen quiz they do nothing.  *)
Display(d, kind) ==
  alert' = [alert EXCEPT ![d] = IF screen[d] = "huddle" THEN kind ELSE @]

(* loader(shouldShow: false), then the coordinator's dismissAlert { present }: *)
(* the closure runs only if an alert, whichever, was there to be dismissed.   *)
PresentOverAlert(d, where, quiz) ==
  IF Touchable(d, "huddle") \/ screen[d] # "huddle"
  THEN UNCHANGED screenVars
  ELSE /\ screen' = [screen EXCEPT ![d] = where]
       /\ opened' = [opened EXCEPT ![d] = quiz]
       /\ sheet' = [sheet EXCEPT ![d] = "open"]
       /\ alert' = [alert EXCEPT ![d] = "none"]

Ask(d, op, quiz) ==
  requests' = [requests EXCEPT ![d] = Append(@, [op |-> op, quiz |-> quiz])]

-----------------------------------------------------------------------------
(* Faulty variants of the definitions below; the runs show that a property *)
(* tells them apart from the code.                                          *)

CheckAnswered_Ignored(d, i) ==
  /\ requests[d][i].op = "check"
  /\ requests' = [requests EXCEPT ![d][i].op = "questions"]
  /\ UNCHANGED <<now, landed, screenVars, listing, quizzes, tapped>>

CanTap_ThroughLoader(d, quiz) ==
  screen[d] = "huddle" /\ ~ listing[d] /\ quiz \in quizzes[d]

TapOpenQuiz_NoLaunchCheck(d, quiz) ==
  /\ Touchable(d, "huddle") /\ ~ listing[d] /\ quiz \in quizzes[d]
  /\ now <= EndTime(quiz)
  /\ Len(requests[d]) < MaxRequests
  /\ Display(d, "loading")
  /\ tapped' = [tapped EXCEPT ![d] = quiz]
  /\ Ask(d, "check", quiz)
  /\ UNCHANGED <<now, landed, screen, opened, sheet, listing, quizzes>>

ResultCheckAnswered_Negated(d, i) ==
  /\ requests[d][i].op = "resultCheck"
  /\ requests' = [requests EXCEPT ![d] = RemoveAt(@, i)]
  /\ IF ~ HasSubmitted(requests[d][i].quiz)
     THEN PresentOverAlert(d, "result", requests[d][i].quiz)
     ELSE Display(d, "missedIt") /\ UNCHANGED <<screen, opened, sheet>>
  /\ UNCHANGED <<now, landed, listing, quizzes, tapped>>

ResultCheckFailed_Silent(d, i) ==
  /\ d \in Failing
  /\ requests[d][i].op = "resultCheck"
  /\ requests' = [requests EXCEPT ![d] = RemoveAt(@, i)]
  /\ UNCHANGED <<now, landed, screenVars, listing, quizzes, tapped>>

-----------------------------------------------------------------------------
(* The list *)

(* viewDidAppear: the huddle is on screen (again), fetch the list. *)
Appears(d) ==
  /\ screen' = [screen EXCEPT ![d] = "huddle"]
  /\ listing' = [listing EXCEPT ![d] = TRUE]

EnterHuddle(d) ==
  /\ screen[d] = "home"
  /\ Appears(d)
  /\ UNCHANGED <<now, landed, alert, opened, sheet, quizzes, requests, tapped>>

(* Whatever the athlete has published by now. *)
QuizzesFetched(d, list) ==
  /\ listing[d]
  /\ listing' = [listing EXCEPT ![d] = FALSE]
  /\ quizzes' = [quizzes EXCEPT ![d] = list]
  /\ UNCHANGED <<now, landed, screenVars, requests, tapped>>

(* .failure presents the error, the .success([]) after it empties the list. *)
QuizzesFetchFailed(d) ==
  /\ d \in Failing
  /\ listing[d]
  /\ Display(d, "wentWrong")
  /\ listing' = [listing EXCEPT ![d] = FALSE]
  /\ quizzes' = [quizzes EXCEPT ![d] = {}]
  /\ UNCHANGED <<now, landed, screen, opened, sheet, requests, tapped>>

(* The huddle's view model goes with it; what is in flight answers nobody. *)
HuddleIsGone(d) ==
  /\ screen' = [screen EXCEPT ![d] = "home"]
  /\ listing' = [listing EXCEPT ![d] = FALSE]
  /\ quizzes' = [quizzes EXCEPT ![d] = {}]
  /\ requests' = [requests EXCEPT ![d] = << >>]
  /\ tapped' = [tapped EXCEPT ![d] = NoQuiz]

(* The quiz and result screens' view model goes with them. *)
ScreenIsGone(d) ==
  /\ opened' = [opened EXCEPT ![d] = NoQuiz]
  /\ sheet' = [sheet EXCEPT ![d] = "open"]

LeaveHuddle(d) ==
  /\ Touchable(d, "huddle")
  /\ HuddleIsGone(d)
  /\ UNCHANGED <<now, landed, alert, opened, sheet>>

-----------------------------------------------------------------------------
(* Launching: quizSelected looks at the clock, the view model at Firestore *)

CanTap(d, quiz) ==
  Touchable(d, "huddle") /\ ~ listing[d] /\ quiz \in quizzes[d]

TapOpenQuiz(d, quiz) ==
  /\ CanTap(d, quiz)
  /\ LaunchTime[quiz] <= now /\ now <= EndTime(quiz)
  /\ Len(requests[d]) < MaxRequests
  /\ Display(d, "loading")
  /\ tapped' = [tapped EXCEPT ![d] = quiz]
  /\ Ask(d, "check", quiz)
  /\ UNCHANGED <<now, landed, screen, opened, sheet, listing, quizzes>>

TapClosedQuiz(d, quiz) ==
  /\ CanTap(d, quiz)
  /\ now > EndTime(quiz)
  /\ Len(requests[d]) < MaxRequests
  /\ Display(d, "loading")
  /\ tapped' = [tapped EXCEPT ![d] = quiz]
  /\ Ask(d, "resultCheck", quiz)
  /\ UNCHANGED <<now, landed, screen, opened, sheet, listing, quizzes>>

TapEarly(d, quiz) ==
  /\ CanTap(d, quiz)
  /\ now < LaunchTime[quiz]
  /\ Display(d, "slowDown")
  /\ UNCHANGED <<now, landed, screen, opened, sheet, flowVars>>

(* launchQuiz: the check came back; on to the results, or to the questions. *)
CheckAnswered(d, i) ==
  LET quiz == requests[d][i].quiz IN
  /\ requests[d][i].op = "check"
  /\ IF HasSubmitted(quiz)
     THEN /\ requests' = [requests EXCEPT ![d] = RemoveAt(@, i)]
          /\ PresentOverAlert(d, "result", quiz)
     ELSE /\ requests' = [requests EXCEPT ![d][i].op = "questions"]
          /\ UNCHANGED screenVars
  /\ UNCHANGED <<now, landed, listing, quizzes, tapped>>

(* launchQuiz: the error is shown, and .success(false) fetches the questions. *)
CheckFailed(d, i) ==
  /\ d \in Failing
  /\ requests[d][i].op = "check"
  /\ Display(d, "wentWrong")
  /\ requests' = [requests EXCEPT ![d][i].op = "questions"]
  /\ UNCHANGED <<now, landed, screen, opened, sheet, listing, quizzes, tapped>>

QuestionsFetched(d, i) ==
  /\ requests[d][i].op = "questions"
  /\ requests' = [requests EXCEPT ![d] = RemoveAt(@, i)]
  /\ PresentOverAlert(d, "quiz", requests[d][i].quiz)
  /\ UNCHANGED <<now, landed, listing, quizzes, tapped>>

(* .failure presents the error; .success([]) dismisses it and launches a    *)
(* quiz without questions, which cannot be drawn.  The two presentations    *)
(* overlap, and UIKit lets one of them through.                             *)
QuestionsFailed(d, i) ==
  /\ d \in Failing
  /\ requests[d][i].op = "questions"
  /\ requests' = [requests EXCEPT ![d] = RemoveAt(@, i)]
  /\ \/ Display(d, "wentWrong") /\ UNCHANGED <<screen, opened, sheet>>
     \/ /\ screen[d] = "huddle"
        /\ screen' = [screen EXCEPT ![d] = "crashed"]
        /\ alert' = [alert EXCEPT ![d] = "none"]
        /\ UNCHANGED <<opened, sheet>>
  /\ UNCHANGED <<now, landed, listing, quizzes, tapped>>

(* launchQuizResultIfPossible: the check came back. *)
ResultCheckAnswered(d, i) ==
  /\ requests[d][i].op = "resultCheck"
  /\ requests' = [requests EXCEPT ![d] = RemoveAt(@, i)]
  /\ IF HasSubmitted(requests[d][i].quiz)
     THEN PresentOverAlert(d, "result", requests[d][i].quiz)
     ELSE Display(d, "missedIt") /\ UNCHANGED <<screen, opened, sheet>>
  /\ UNCHANGED <<now, landed, listing, quizzes, tapped>>

(* Two error alerts are presented back to back; one of them is seen. *)
ResultCheckFailed(d, i) ==
  /\ d \in Failing
  /\ requests[d][i].op = "resultCheck"
  /\ requests' = [requests EXCEPT ![d] = RemoveAt(@, i)]
  /\ \E kind \in {"wentWrong", "missedIt"} : Display(d, kind)
  /\ UNCHANGED <<now, landed, screen, opened, sheet, listing, quizzes, tapped>>

DismissMessage(d) ==
  /\ alert[d] \in Messages
  /\ alert' = [alert EXCEPT ![d] = "none"]
  /\ UNCHANGED <<now, landed, screen, opened, sheet, flowVars>>

-----------------------------------------------------------------------------
(* The quiz on screen, reduced to the fate of its sheet *)

HandIn(d) ==
  /\ Touchable(d, "quiz")
  /\ sheet[d] = "open"
  /\ landed[opened[d]][d] < MaxLanded[d]
  /\ sheet' = [sheet EXCEPT ![d] = "handedIn"]
  /\ alert' = [alert EXCEPT ![d] = "submitting"]
  /\ UNCHANGED <<now, landed, screen, opened, flowVars>>

(* The batch is written over whatever submissions/{fanId} holds. *)
CommitAcked(d) ==
  /\ sheet[d] = "handedIn"
  /\ sheet' = [sheet EXCEPT ![d] = "accepted"]
  /\ landed' = [landed EXCEPT ![opened[d]][d] = @ + 1]
  /\ alert' = [alert EXCEPT ![d] = "none"]
  /\ screen' = [screen EXCEPT ![d] = "result"]
  /\ UNCHANGED <<now, opened, flowVars>>

CommitRejected(d) ==
  /\ sheet[d] = "handedIn"
  /\ sheet' = [sheet EXCEPT ![d] = "rejected"]
  /\ alert' = [alert EXCEPT ![d] = "notSubmitted"]
  /\ UNCHANGED <<now, landed, screen, opened, flowVars>>

(* Submit after a rejected commit runs past the last question. *)
Resubmit(d) ==
  /\ Touchable(d, "quiz")
  /\ sheet[d] = "rejected"
  /\ screen' = [screen EXCEPT ![d] = "crashed"]
  /\ UNCHANGED <<now, landed, alert, opened, sheet, flowVars>>

(* Closing the quiz or its result uncovers the huddle. *)
CloseScreen(d) ==
  /\ Touchable(d, "quiz") \/ Touchable(d, "result")
  /\ Appears(d)
  /\ ScreenIsGone(d)
  /\ UNCHANGED <<now, landed, alert, quizzes, requests, tapped>>

(* The app starts over after a crash; its memory is gone. *)
Relaunch(d) ==
  /\ screen[d] = "crashed"
  /\ HuddleIsGone(d)
  /\ ScreenIsGone(d)
  /\ UNCHANGED <<now, landed, alert>>

ClockTicks ==
  /\ now < Horizon
  /\ now' = now + 1
  /\ UNCHANGED <<landed, flowVars, screenVars>>

-----------------------------------------------------------------------------

Respond(d, i) ==
  \/ CheckAnswered(d, i)
  \/ CheckFailed(d, i)
  \/ QuestionsFetched(d, i)
  \/ QuestionsFailed(d, i)
  \/ ResultCheckAnswered(d, i)
  \/ ResultCheckFailed(d, i)

Tap(d, quiz) ==
  \/ TapOpenQuiz(d, quiz)
  \/ TapClosedQuiz(d, quiz)
  \/ TapEarly(d, quiz)

FetchEnds(d) ==
  \/ \E list \in SUBSET Quiz : QuizzesFetched(d, list)
  \/ QuizzesFetchFailed(d)

Next ==
  \/ ClockTicks
  \/ \E d \in Device :
       \/ EnterHuddle(d)
       \/ FetchEnds(d)
       \/ LeaveHuddle(d)
       \/ \E quiz \in Quiz : Tap(d, quiz)
       \/ \E i \in DOMAIN requests[d] : Respond(d, i)
       \/ DismissMessage(d)
       \/ HandIn(d)
       \/ CommitAcked(d)
       \/ CommitRejected(d)
       \/ Resubmit(d)
       \/ CloseScreen(d)
       \/ Relaunch(d)

(* Firestore answers every read, from the server, the cache or with an      *)
(* error.  The oldest one is answered first here: weak fairness on "some"   *)
(* answer would let one read starve behind ever new ones.                   *)
Fairness == \A d \in Device : WF_vars(requests[d] # << >> /\ Respond(d, 1))

Spec == Init /\ [][Next]_vars /\ Fairness

-----------------------------------------------------------------------------
(* Safety *)

(* A device whose reads do not fail submits a quiz at most once: the check  *)
(* before the launch sees what the device itself has written, and the       *)
(* loader keeps a second launch from starting under the first.  (A failed   *)
(* check is followed by "not submitted", and the fan may take the quiz      *)
(* again; another device may have the quiz open already.  Both overwrite.)  *)
OneSubmissionPerDevice ==
  \A quiz \in Quiz, d \in Device \ Failing : landed[quiz][d] <= 1

(* Where no read fails, the quiz that opens is the one tapped last. *)
TapOpensItsQuiz ==
  \A d \in Device \ Failing : screen[d] = "quiz" => opened[d] = tapped[d]

(* The result screen is shown only to a fan whose submission is stored,     *)
(* whichever way it was reached and whatever reads have failed before.      *)
ResultNeedsSubmission ==
  \A d \in Device : screen[d] = "result" => HasSubmitted(opened[d])

(* No quiz is on screen before its launch time, however late the answers of *)
(* the launch flow come in and whichever flow they belong to.               *)
NeverBeforeLaunch ==
  \A d \in Device : screen[d] = "quiz" => LaunchTime[opened[d]] <= now

(* HuddleViewModel.swift:97: "Sorry, you didn't participate in the quiz on  *)
(* time!" is said only to a fan who has no submission for the quiz tapped.  *)
MissedItIsTrue ==
  [][\A d \in Device :
       alert'[d] = "missedIt" /\ alert[d] # "missedIt" => ~ HasSubmitted(tapped[d])]_vars

-----------------------------------------------------------------------------
(* Liveness *)

(* A tap that put up a loader is answered: the fan leaves the huddle for    *)
(* the quiz or the results (or the app dies), or reads a message.  With     *)
(* failing reads several flows are in flight and dismiss each other's       *)
(* alerts; still no loader is taken down with nothing in its place.         *)
LaunchTapIsAnswered ==
  \A d \in Device :
    alert[d] = "loading" ~> screen[d] # "huddle" \/ alert[d] \in Messages
=============================================================================
