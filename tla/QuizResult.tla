------------------------------ MODULE QuizResult ------------------------------
(***************************************************************************)
(* The result screen: QuizResultViewModel with its view controller, over    *)
(* what makeSubmission has stored for one quiz.  Several devices, of one or *)
(* of several fans, hand a sheet in; one of them, the Viewer, looks at the  *)
(* results.  Its two fetches run in parallel, share one skeleton, and are   *)
(* answered by the server, from the device's cache or with an error.        *)
(*                                                                         *)
(* A selection is stored under a UUID and read back without an order, that  *)
(* is in the order of the UUIDs: the set Uuid stands for them, and a        *)
(* commit takes any that are free.                                          *)
(***************************************************************************)
EXTENDS QuizScore, FiniteSetsExt

CONSTANTS Fan,
          Device,
          Account,   \* the fan signed in on each device
          Viewer,    \* the device whose result screen is modelled
          Sheets,    \* the sheets each device may hand in
          Uuid,      \* the UUIDs drawn, in the order Firestore sorts them by
          ReadsFail  \* may a fetch report an error?

ASSUME ResultAssumption ==
  /\ Account \in [Device -> Fan]
  /\ Viewer \in Device
  /\ \A d \in Device : Sheets[d] \subseteq Seq(QuizSelection) \ {<< >>}
  /\ Uuid \subseteq Nat
  /\ ReadsFail \in BOOLEAN

VARIABLES
  handedIn,       \* the sheet each device has handed in, << >> before
  submissions,    \* the documents submissions/{fanId}: fan and points
  selections,     \* selections/{uuid} of the viewer's account
  cache,          \* the part of both that the viewer's device knows
  screen,         \* what the viewer's device shows
  fetching,       \* the fetches of the result screen in flight
  skeleton,       \* do score and average hide behind the skeleton?
  failed,         \* the fetches of this screen that failed
  leaders,        \* QuizResultViewModel.submissions
  quizSelections, \* QuizResultViewModel.quizSelections
  alert           \* is an error on the screen?

storeVars == <<handedIn, submissions, selections>>
viewVars == <<skeleton, failed, leaders, quizSelections, alert>>
vars == <<storeVars, cache, screen, fetching, viewVars>>

Me == Account[Viewer]
Fetches == {"submissions", "selections"}
LeaderboardLimit == 3

(* The documents of the two collections. *)
Submission == [fan : Fan, points : Nat]
Stored == [id : Uuid, selection : QuizSelection]

TypeOK ==
  /\ handedIn \in [Device -> Seq(QuizSelection)]
  /\ submissions \subseteq Submission
  /\ \A a, b \in submissions : a.fan = b.fan => a = b
  /\ selections \subseteq Stored
  /\ \A a, b \in selections : a.id = b.id => a = b
  /\ cache.selections \subseteq selections
  /\ cache.submissions \subseteq Submission
  /\ screen \in {"quiz", "huddle", "result"}
  /\ fetching \subseteq Fetches /\ failed \subseteq Fetches
  /\ {skeleton, alert} \subseteq BOOLEAN
  /\ leaders \subseteq Submission
  /\ Cardinality(leaders) <= LeaderboardLimit
  /\ quizSelections \in Seq(QuizSelection)

Init ==
  /\ handedIn = [d \in Device |-> << >>]
  /\ submissions = {}
  /\ selections = {}
  /\ cache = [submissions |-> {}, selections |-> {}]
  /\ screen \in {"quiz", "huddle"}
  /\ fetching = {}
  /\ skeleton = FALSE
  /\ failed = {}
  /\ leaders = {}
  /\ quizSelections = << >>
  /\ alert = FALSE

-----------------------------------------------------------------------------
(* Faulty variants of the definitions below; the runs show that a property *)
(* tells them apart from the code.                                          *)

WithSubmission_Adds(docs, fan, sheet) ==
  docs \cup {[fan |-> fan, points |-> TotalPoints(sheet)]}

TopThree_Ascending(docs) ==
  {top \in SUBSET docs :
     /\ Cardinality(top) = Min({LeaderboardLimit, Cardinality(docs)})
     /\ \A winner \in top, other \in docs \ top : winner.points <= other.points}
-----------------------------------------------------------------------------

(* A batch as makeSubmission writes it: submissions/{fanId} is overwritten, *)
(* a selection is a document of its own.                                    *)
WithSubmission(docs, fan, sheet) ==
  {s \in docs : s.fan # fan} \cup {[fan |-> fan, points |-> TotalPoints(sheet)]}

WithSelections(docs, ids, sheet) ==
  docs \cup {[id |-> ids[i], selection |-> sheet[i]] : i \in DOMAIN sheet}

(* order(by: "points", descending: true).limit(to: 3), ties either way. *)
TopThree(docs) ==
  {top \in SUBSET docs :
     /\ Cardinality(top) = Min({LeaderboardLimit, Cardinality(docs)})
     /\ \A winner \in top, other \in docs \ top : winner.points >= other.points}

(* Documents of a collection come in the order of their ids: the i-th is   *)
(* the one that has i ids up to its own.                                    *)
InOrder(docs) ==
  [i \in 1 .. Cardinality(docs) |->
     (CHOOSE s \in docs : Cardinality({t \in docs : t.id <= s.id}) = i).selection]

(* UUIDs no selection has yet, one for each answer. *)
FreshUuids(sheet) ==
  {ids \in [DOMAIN sheet -> Uuid \ {s.id : s \in selections}] : IsInjective(ids)}

-----------------------------------------------------------------------------

(* viewDidLoad of a new result screen: both fetches start. *)
Opens ==
  /\ screen' = "result"
  /\ fetching' = Fetches
  /\ skeleton' = TRUE
  /\ failed' = {}
  /\ leaders' = {}
  /\ quizSelections' = << >>
  /\ alert' = FALSE

(* A sheet is handed in and its batch acknowledged; on the viewer's device  *)
(* the result screen takes the place of the quiz.  Firestore keeps what a   *)
(* device writes in that device's cache.                                    *)
HandIn(d, sheet, ids) ==
  /\ handedIn[d] = << >>
  /\ handedIn' = [handedIn EXCEPT ![d] = sheet]
  /\ submissions' = WithSubmission(submissions, Account[d], sheet)
  /\ selections' = IF Account[d] = Me
                   THEN WithSelections(selections, ids, sheet) ELSE selections
  /\ IF d = Viewer
     THEN /\ screen = "quiz"
          /\ cache' = [submissions |-> WithSubmission(cache.submissions, Me, sheet),
                       selections  |-> WithSelections(cache.selections, ids, sheet)]
          /\ Opens
     ELSE UNCHANGED <<cache, screen, fetching, viewVars>>

(* launchQuizResultIfPossible found a submission of the fan. *)
OpenFromHuddle ==
  /\ screen = "huddle"
  /\ \E s \in submissions : s.fan = Me
  /\ Opens
  /\ UNCHANGED <<storeVars, cache>>

(* Either completion takes the skeleton down before it looks at its result. *)
Completes(fetch) ==
  /\ fetch \in fetching
  /\ fetching' = fetching \ {fetch}
  /\ skeleton' = FALSE

(* Faulty variant: the answer does not reach the view model's list. *)
SelectionsFetched_NoUpdate ==
  /\ Completes("selections")
  /\ UNCHANGED <<storeVars, cache, screen, failed, leaders, quizSelections, alert>>

(* fetchSubmissions answered by the server, whose documents join the cache, *)
(* or, out of its reach, by the cache alone.                                *)
SubmissionsFetched ==
  /\ Completes("submissions")
  /\ \/ /\ leaders' \in TopThree(submissions)
        /\ cache' = [cache EXCEPT !.submissions =
                       {s \in @ : \A t \in leaders' : t.fan # s.fan} \cup leaders']
     \/ leaders' \in TopThree(cache.submissions) /\ UNCHANGED cache
  /\ UNCHANGED <<storeVars, screen, failed, quizSelections, alert>>

(* fetchQuizSelections, the same. *)
SelectionsFetched ==
  /\ Completes("selections")
  /\ \E docs \in {selections, cache.selections} :
       /\ quizSelections' = InOrder(docs)
       /\ cache' = [cache EXCEPT !.selections = docs]
  /\ UNCHANGED <<storeVars, screen, failed, leaders, alert>>

(* .failure presents the error; the .success([]) after it empties the list. *)
FetchFails(fetch) ==
  /\ ReadsFail
  /\ Completes(fetch)
  /\ failed' = failed \cup {fetch}
  /\ alert' = TRUE
  /\ IF fetch = "submissions"
     THEN leaders' = {} /\ UNCHANGED quizSelections
     ELSE quizSelections' = << >> /\ UNCHANGED leaders
  /\ UNCHANGED <<storeVars, cache, screen>>

DismissError ==
  /\ alert
  /\ alert' = FALSE
  /\ UNCHANGED <<storeVars, cache, screen, fetching, skeleton, failed, leaders,
                 quizSelections>>

(* The view model goes with its screen: what is in flight answers nobody. *)
Close ==
  /\ screen = "result"
  /\ ~ alert
  /\ screen' = "huddle"
  /\ fetching' = {}
  /\ UNCHANGED <<storeVars, cache, viewVars>>

Answer(fetch) ==
  \/ fetch = "submissions" /\ SubmissionsFetched
  \/ fetch = "selections" /\ SelectionsFetched
  \/ FetchFails(fetch)

Next ==
  \/ \E d \in Device : \E sheet \in Sheets[d] : \E ids \in FreshUuids(sheet) :
       HandIn(d, sheet, ids)
  \/ OpenFromHuddle
  \/ \E fetch \in Fetches : Answer(fetch)
  \/ DismissError
  \/ Close

(* Firestore answers every read; whether the fan does anything is open. *)
Fairness == \A fetch \in Fetches : WF_vars(Answer(fetch))

Spec == Init /\ [][Next]_vars /\ Fairness

-----------------------------------------------------------------------------
(* Properties *)

(* No other device has handed in a sheet for the viewer's account. *)
OneSheetInAccount ==
  \A d \in Device : Account[d] = Me /\ d # Viewer => handedIn[d] = << >>

Loaded(fetch) == screen = "result" /\ fetch \notin fetching \cup failed

(* A fan who played on this device alone reads the score, the number of     *)
(* answers and the seconds of the sheet handed in, whether the server or    *)
(* the cache answered, and their average is one: it is 0/0 only before the  *)
(* answer, after an error, or on a device that has never seen the sheet.    *)
(* The leaderboard, fetched apart and computed by other code, agrees: each  *)
(* correct answer stands for one to ten of its points, a wrong one for none. *)
FiguresAreTheSheets ==
  Loaded("selections") /\ handedIn[Viewer] # << >> /\ OneSheetInAccount =>
    /\ Len(quizSelections) = Len(handedIn[Viewer])
    /\ CorrectScoreCount(quizSelections) = CorrectScoreCount(handedIn[Viewer])
    /\ TotalTimeTaken(quizSelections) = TotalTimeTaken(handedIn[Viewer])
    /\ Loaded("submissions") =>
         \A s \in leaders : s.fan = Me =>
           /\ CorrectScoreCount(quizSelections) <= s.points
           /\ s.points <= 10 * CorrectScoreCount(quizSelections)

(* A fan missing from the leaderboard is beaten, or equalled, by all three  *)
(* on it: the fan's own sheet is among those the query ranks, however stale *)
(* the cache that answered it.                                              *)
OnBoardUnlessBeaten ==
  Loaded("submissions") /\ handedIn[Viewer] # << >> /\ OneSheetInAccount =>
    \/ \E s \in leaders : s.fan = Me
    \/ /\ Cardinality(leaders) = LeaderboardLimit
       /\ \A s \in leaders : s.points >= TotalPoints(handedIn[Viewer])

(* The results of a sheet handed in on this device come up, unless the fan  *)
(* leaves or an error is reported: the skeleton, which the first of the two *)
(* answers takes down, does not stay over them.                             *)
OwnResultsComeUp ==
  screen = "result" /\ handedIn[Viewer] # << >> ~>
    screen # "result" \/ failed # {} \/ (~ skeleton /\ quizSelections # << >>)

(* QuizSelectionResultSolutionComponent.swift:56 labels a mark               *)
(* "Q\(viewModel.questionNumber)" where the quiz said "Question i of n"      *)
(* (QuizQuestionComponent.swift:71): mark i is of question i.  The marks are *)
(* numbered in the order of the selections' UUIDs.                          *)
MarksNumberedAsInQuiz ==
  Loaded("selections") /\ handedIn[Viewer] # << >> /\ OneSheetInAccount =>
    \A i \in DOMAIN quizSelections :
      quizSelections[i].question = handedIn[Viewer][i].question
=============================================================================
