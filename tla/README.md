# HEIR-Demo in TLA+

HEIR-Demo is an iOS app with two portals on one Firestore database. An athlete
creates quizzes with a launch time and a reward; a fan enters the athlete's
*huddle*, launches an open quiz, answers it against the clock, hands the answer
sheet in and sees the leaderboard. The app is Swift/UIKit in MVVM with
coordinators: a view controller forwards taps to a view model, the view model
calls a service, Firestore answers in a callback on the main queue, the view
model updates the screen or asks its coordinator to present another one.

The project has two layers. The **app** runs on the main queue, so a handler is
one atomic step; what interleaves are *whole handlers*: taps, the one-second
timer, animations and Firestore's callbacks, and several devices through the
database. Under it the **Firestore client**, built from the sources in `Pods/`,
runs on a worker queue of its own against a network that loses calls; what the
app's modules take for granted (every read and every commit is answered, once,
and truthfully) is what the client's modules show, and under which fairness.

App paths below are relative to `src/HEIR-Demo/HEIR-Demo/`, client paths to
`src/HEIR-Demo/Pods/FirebaseFirestore/Firestore/core/src/`.

## Inventory

| component | state | operations | what is hard, and what makes it correct |
|---|---|---|---|
| Quiz session (`Scenes/Fan Portal/Huddle/Quiz`) | question index, picked answer, answer sheet, two timers, modal alert, carousel position, commit in flight | `viewDidLoad`, `updateElapsedTimeButton`, `setSelectedAnswer`, `submit`, `close`, the commit's callback | timer, scroll animation, taps and callback interleave; a failed commit is not undone. Sheet and screen must stay in step, one answer per question, no second charged twice, a loader must go away |
| Scoring (`generateSubmission`, `correctScoreCount`) | none | points of a sheet, number of correct answers | limits at 0, 9, 10 s; two screens compute from the same sheet and must agree |
| Huddle (`HuddleViewModel`, `HuddleViewController`, `HuddleCoordinator`) | list of quizzes, alert, reads in flight | fetch the list, launch, result if possible, close | check-then-act over the network, a window that closes meanwhile, reads that complete twice when they fail, alerts shared by overlapping flows. One submission per device, the quiz tapped is the quiz opened, results only with a submission |
| `QuizService` | none of its own; Firestore documents `quizzes/{id}`, `quizContent`, `submissions/{fanId}`, `selections/{uuid}` | eight reads and writes | `.failure` is followed by `.success(empty)`; writes overwrite; delete leaves subcollections |
| Quiz result | leaderboard, selections | two parallel fetches, close | one loading flag for two fetches; answers from a stale cache; selections in the order of random ids; 0/0 before they return |
| Athlete home | list | fetch, delete, create, log out | the delete button is decided when the tile is drawn |
| Create quiz, create question | form fields | set fields, add and remove questions, upload | a field that does not refresh the button; upload and its failure; text committed at the end of editing |
| Quiz tiles (`QuizzesCarouselComponent`, `QuizOverviewComponent`) | a timer per redraw | select, delete, label | stale `canDelete`, timers never invalidated |
| Authentication (`AuthViewModel`, `AuthService`, `UserService`) | Auth's user, the login button | sign in, fetch user, route, log out | two requests with Auth's user changed between them; the second completes twice when it fails |
| Coordinators, `AppCoordinator` | child coordinators | start, route | memory management, present and dismiss |
| Firestore client, writes (`core/sync_engine.cc`, `remote/remote_store.cc`, `remote/write_stream.cc`, `remote/stream.cc`, `remote/grpc_stream.cc`, `local/leveldb_mutation_queue.cc`) | a mutation queue per user on disk, callbacks by user and batch id, the pipeline, stream state, handshake, idle timer, backoff | commit, stream start, handshake, result, finish, idle, user change, restart of the network | answers name no batch; calls are lost after the backend applied a write; the process ends between two steps; ids are given out anew |
| Firestore client, reads (`api/query_core.cc`, `core/event_manager.cc`, `core/sync_engine.cc`, `remote/remote_store.cc`, `remote/remote_event.cc`, `remote/online_state_tracker.cc`) | listeners, views, targets, outstanding acknowledgements, stream state, online state with its ten-second timer | listen, stop listening, watch change, stream failure, timer | two queues; what was sent for a target dropped and asked for again; an answer from the cache racing one from the backend |
| Credentials (`auth/firebase_credentials_provider_apple.mm`, `remote/stream.cc`, FirebaseAuth's `FIRAuth.m` and `FIRUser.m`) | the user as Auth, the provider and SyncEngine know it, token counter, close count | sign in and out, sign out by force, notify, fetch a token, have it fail or refused, change the user | three queues and no lock over them |
| Views, fonts, constants; other pods; test targets | - | - | layout; general-purpose third-party code; Xcode's empty templates |

The app's components talk by direct calls and callbacks (view controller → view
model → service → callback), by delegates (coordinators), and share two things:
the one modal alert a screen can have, and the Firestore documents. The client's
parts talk by blocks posted to the worker queue and to the main queue.

`PROJECT.json` lists each component with its status, and under `hazards` each
line of the code where something can go wrong that a test would hardly reach.

## Modules

| module | models |
|---|---|
| `QuizScore` | `QuizSelection`, the points of `generateSubmission`, `correctScoreCount`, the total of the seconds, as operators on answer sheets |
| `QuizSession` | one fan taking one quiz: `QuizViewModel` with its screen, carousel, alerts and commit |
| `AnswerSheet` | abstract: what a session promises. A sheet grows answer by answer, is handed in once and complete, decided, or discarded |
| `Huddle` | the way into a quiz on several devices of one account, down to the fate of the sheet |
| `AthletePortal` | the athlete's device: home list with delete, the form that creates a quiz, the upload, and the stored quizzes |
| `CreateQuestion` | the sheet on which the athlete writes one question |
| `QuizResult` | the result screen over what several devices and fans have handed in |
| `Login` | sign in, the fetch of the user, routing, log out, relaunch |
| `WritePipeline` | a commit from the app to the backend and back, through crashes, lost calls and changes of user |
| `CommitLedger` | abstract: what Firestore promises the author of a write |
| `CredentialChange` | how a change of user reaches the stream that sends writes, over three queues |
| `ReadPipeline` | a get from the app to the backend and back, through failures, restarts and the online state |
| `ReadPromise` | abstract: one answer per get, from the backend, the cache, or an error |
| `MCQuizSession`, `MCHuddle`, `MCAthletePortal`, `MCCreateQuestion`, `MCQuizResult`, `MCLogin`, `MCWritePipeline`, `MCCredentialChange`, `MCReadPipeline` | instances for TLC |
| `QuizScoreProofs`, `QuizSessionProofs`, `QuizResultProofs`, `HuddleProofs`, `AthletePortalProofs` (with `CreateQuestion`), `CredentialChangeProofs` (with `Login`), `WritePipelineProofs`, `ReadPipelineProofs` | theorems and proofs |

`QuizSession` and `QuizResult` compute with `QuizScore`; `QuizSession` implements
`AnswerSheet`, `WritePipeline` implements `CommitLedger`, `ReadPipeline`
implements `ReadPromise`, each by an `INSTANCE` and a property of a run. `AthletePortalProofs`
extends `CreateQuestion` as well and `CredentialChangeProofs` extends `Login`, so these two
have names of their own where others have `Init`, `Next` and `Spec` (`SheetInit`,
`LoginInit`); `isQuestionComplete` is the sheet's `isFormComplete`.

### QuizSession and the code

| TLA+ | code |
|---|---|
| `questions`, `quizSelections`, `currentQuestionIndex`, `currentQuizSelection`, `questionElapsedTime`, `elapsedTime` | the properties of `QuizViewModel` of the same names; the index starts at 0 as in Swift, a TLA+ sequence at 1 |
| `stage` | the screen: launching, quiz, result, closed, or crashed |
| `alert` | the `UIAlertController` over the quiz: "Submitting..." or an error; while it is up the screen gets no taps |
| `commit` | `makeSubmission`'s batch: not made, pending, acknowledged, rejected |
| `leadingPage` | how far the animated `scrollToItem` has come: two neighbouring pages are on screen while it moves |
| `taps` | ghost: "atRest" until a tap falls on a cell while the carousel moves, which nothing in the code prevents |
| `Rendered` | `updateScreen` → `scrollTo(page:)`, which raises when the page does not exist |
| `ViewDidLoad`, `Tick`, `SelectAnswer`, `Close` | `viewDidLoad`, `updateElapsedTimeButton`, `setSelectedAnswer`, `close` |
| `HandIn`, `NextQuestion` | the two branches of `submit`; `OnLastQuestion` is the condition between them |
| `CommitAcked`, `CommitRejected` | the completion passed to `makeSubmission` |
| `CarouselMoves`, `DismissError`, `CloseResult` | UIKit's animation, the alert's OK button, the close button of the result screen |

The empty quiz is among the possible `questions` because a failed fetch of the
questions still launches one (`QuizService.swift:54` and `:70`). The timer goes
on after the quiz was closed: nothing invalidates it and it retains the view
model (`QuizViewModel.swift:87`). A question is a model value, an option text is
a model value; the UUID of a selection is left out, as no two share one.

### Huddle and the code

Per device: the `screen`, the list (`quizzes`) and whether it is being fetched
(`listing`, the skeleton over the list, which takes no taps), the `alert`, and
the `requests` in flight, each of them a step of a launch flow:

    tap, window open   -> check       -> questions -> quiz on screen
                            \-> result on screen (already submitted)
    tap, window closed -> resultCheck -> result on screen, or "you didn't make it"
    tap, too early     -> "slow down"

`check` and `resultCheck` are `fetchHasMadeSubmission`, `questions` is
`getQuizQuestions`. Answers come in any order. A failed read is one step that
does what *both* completions do: with `check` the error is shown and the
questions are fetched, with `questions` the error and the presentation of an
empty quiz compete, with `resultCheck` two alerts do. An error is shown only when
the huddle is the screen on top: UIKit refuses to present on a covered controller.
`Failing` is the set of devices whose reads may fail.

`PresentOverAlert` is the code's way to open a screen: take the loader down, then
`dismissAlert { present }` in the coordinator. The closure runs only if an alert
was there to be dismissed, whichever it was; a flow whose alert another flow has
taken down opens nothing.

`landed` counts the commits written per quiz and device. It is history:
`submissions/{fanId}` is one document that later commits overwrite, and
`HasSubmitted` is its existence. The quiz on screen is reduced to the fate of its
sheet; `HandIn`, `CommitAcked`, `CommitRejected` and `Resubmit` are what
`QuizSession` has in detail (after a rejected commit, Submit ends the app).

### AthletePortal, CreateQuestion and the code

| TLA+ | code |
|---|---|
| `quizzes`, `fetches`, `skeleton` | `AthleteHomeViewModel.quizzes`; the `getQuizzes` calls in flight; the skeleton over the carousel, which takes no taps |
| `deletable` | the tiles drawn with a delete button: `canDelete` is evaluated in `cellForItemAt`, i.e. by `Draw` and `Redraw` |
| `alert`, `confirming` | the one modal: an action sheet (with the quiz its closure holds), "Deleting...", or an error |
| `deletes`, `orphans` | `deleteQuiz` calls in flight, of this home screen and of one that was logged out of, whose view model is gone and whose completion does nothing more |
| `form`, `createEnabled` | the properties of `CreateQuizViewModel`; `createQuizButton.isEnabled`, which `updateScreen` and `loadingIndicator` both write |
| `uploading`, `uploads` | the batch of `uploadQuiz`; each try has an id of its own, as `generateQuiz` draws a new UUID |
| `Back`, `UploadAcked` | both pop the form; the home screen appears and fetches again (`viewDidAppear`) |

`HomeError` is `displayAlert` on the home controller: with the form on top UIKit
refuses the presentation, but the alert found on the way has been dismissed.
`TypesDuringUpload` says whether a keyboard left open is used while an upload is
on its way: `loading(true)` disables touches on the form, and the keyboard is not
part of it. A fetch is answered with the store under the device's own pending
writes, as Firestore overlays them: with the quiz whose upload is on its way, behind
whose form a fetch may be answered, and without those being deleted. An upload that
is refused leaves such a quiz on the list until the athlete leaves the form, which
fetches again; `DeletedLeavesList` is about every quiz listed that is not stored
(`Stale`), but for one of the form on screen. `CreateQuestion` keeps what the text view
shows apart from what the view model has (`textViewDidEndEditing` copies it) and
lets a tap on a button leave editing on, as UIKit does.

Reduced: which reward is chosen, to whether one is; questions, to a set (their
UUIDs make them different); the question sheet within `AthletePortal`, to its
outcome.

### QuizResult and the code

`handedIn`, `submissions` and `selections` are what `makeSubmission` stores: one
document per fan, which a later sheet of the same account overwrites, and one
document per answer, under a UUID. The UUIDs drawn are any free members of `Uuid`,
whose order is the order Firestore returns them in. One device, the `Viewer`, has
the screen modelled: it opens after the viewer's own commit or from the huddle, its
two fetches run in parallel, and each is answered from the server, from the
`cache` (the part of the store this device has seen, its own writes included) or
with an error. `skeleton` is the one loading flag; either answer takes it down.
`leaders` is the query for the three best.

### Login and the code

`attempts` holds the one request of an attempt: `signIn`, then `getUser`, during
which Auth's `currentUser` has already changed. A failed `getUser` completes twice
(`UserService.swift:16`), one step here, after which either alert may be the one
left. Log out is the action sheet of either home screen and may throw.
`SignedOutByForce` is Auth's own doing: when the backend refuses a token because the
user is disabled or gone or the token has expired (`FIRUser.m:1476`), Auth's user is
nil from then on; no screen listens for that, so a home screen stays, of a user who
is not signed in. `HomeOfSignedInUser` allows this and no other user. `Kill` and
`Launch` are the end of the process and a start, which shows the login screen
whether a user is signed in or not.

### WritePipeline, CommitLedger and the code

| TLA+ | code |
|---|---|
| `queue`, `nextBatchId` | `LevelDbMutationQueue` of each user; the next id, loaded again from disk when a queue is started |
| `callbacks`, `outcome`, `session` | `SyncEngine::mutation_callbacks_`; what the app was told; the writes since the last launch, for whom there is a callback |
| `pipeline`, `FillWritePipeline` | `RemoteStore::write_pipeline_` and the loop that refills it up to `kMaxPendingWrites` |
| `NextBatches`, `LastId` | the rounds of that loop together: the batches `NextMutationBatchAfterBatchId` finds behind the last one pipelined |
| `applied`, `lastOrder`, `Apply` | the writes the backend has applied, some of them more than once; ghost: which of two was applied last, which is all a reader of the document sees of it |
| `stream`, `handshake`, `idleTimer` | `Stream::state_`, `WriteStream::handshake_complete_`, `idleness_timer_` |
| `requests`, `responses`, `call` | the gRPC call under the stream: sent and not yet served, answered and not yet read, and how it stands |
| `WriteMutations`, `OnStreamStart`, `OnHandshakeComplete`, `OnMutationResult`, `OnStreamFinish`, `CredentialsFail`, `BackoffElapses`, `IdleTimeout`, `ChangeUser`, `RestartNetwork` | one operation on the worker queue each, with all it calls |
| `Relaunch` | the process ends and starts again: memory is gone, the queues on disk are not |
| `Serve`, `ServeLate`, `CallFails` | the backend and the network: a request of a lost call may still be applied until the next call opens, answers may be lost with the call |

`call = "overtaken"` is a send that fails while answers wait to be read: gRPC
ends the call and the answers are dropped (`remote/grpc_stream.cc:313`). The
stream token, which the handshake does not send in this version, and the
contents of a write are left out.

`CommitLedger` knows only each user's pending writes and what has landed: a
commit is appended, writes land in order, the first is settled when it has landed
or cannot.

### CredentialChange and the code

Three queues: Auth's (its steps are atomic actions on `authUser`), the main queue
(`mainQueue`: a notification to the provider, the app's own sign-in completion, a
token on its way to its callback) and the worker queue (`workerQueue`: a change of
user, a write, a token that resumes the stream). A token request reads Auth's user
at a moment of its own (`Asked` before) and keeps the provider's `token_counter`
and the stream's `close_count` of the moment it was made; the two comparisons on
its way back (`firebase_credentials_provider_apple.mm`, `stream.cc:119`) are the
guards of `HandOverToken` and `Resume`. `pending` is the mutation queue reduced to
a set. `StreamFails` and `IdleTimeout` are the ways a stream closes that have
nothing to do with the user.

A token request is called back with a token (`TokenFetched`), with an error
(`TokenFails`), or is refused (`TokenRefused`), as a refresh by Auth's own timer may
be (`RefreshRefused`): Auth then signs its user out by force and says so on the main
queue before the error gets there. An error travels like a token, as `NoToken`, and
ends the stream that waits for it (`Resume`). The home screen stays: `appUser` keeps
its user while `authUser` is nobody, and what it commits goes into the queue of
whoever SyncEngine has by then, which may be nobody's. `unowned`, a history variable,
names the writes committed so, and `StoredUnderAuthor` excuses them alone: they may be
in nobody's queue, and no write is ever in another user's.

### ReadPipeline, ReadPromise and the code

| TLA+ | code |
|---|---|
| `asked`, `answers` | the calls of `getDocument(s)` whose listener has been added; what each completion was called with |
| `listeners`, `raised`, `view` | `EventManager::queries_`, `raised_initial_event_`, the view SyncEngine keeps of a query, reduced to the age of what it holds |
| `posted`, `muted`, `removing` | events on the user's executor, a muted listener, its removal on its way back to the worker queue (`ListenOnce` of `api/query_core.cc`) |
| `targets`, `pending` | `RemoteStore::listen_targets_`; `outstanding_responses_` of `TargetState` |
| `stream`, `idleTimer`, `call`, `requests`, `responses`, `served` | as in `WritePipeline`, for the watch stream, and what the backend watches for the call |
| `online`, `failed`, `timer` | `OnlineStateTracker` |

Simplified, and named in the module: a call is seen when its listener is added,
at any time after it was made; events of different calls are not ordered among
each other; what a query finds is reduced to whether the backend's data have
changed since; a target's documents, CURRENT and snapshot come together; answers
lost with a call are as if never sent; timeouts count as faults. `ReadPromise`
is what the app relies on.

## What the runs check

| run | question | bounds |
|---|---|---|
| `session` | sheet, screen and timer in step; crashes only in the two known ways; one answer per question from a fan who taps a carousel at rest; a handed-in sheet is answered; implements `AnswerSheet` | quizzes of 0 to 3 questions, 2 options, the timer up to 3 s: a middle question exists, and a second can fall before, between and after any two steps |
| `session_comment` | violation: "We are still answering questions in the quiz" (`QuizViewModel.swift:123`) | the same |
| `huddle` | results only with a submission, nothing opens before launch, a launch tap is answered, with failing reads too; on a device whose reads succeed one submission per quiz, and the quiz tapped is the quiz opened | a phone whose reads succeed and a tablet whose reads fail, on one account; 2 quizzes with windows of 1, the second a tick later, clock 0..2: before, in and after each window; 2 reads in flight per device, so two flows overlap; 2 commits per quiz on the phone, 1 on the tablet |
| `huddle_missed` | violation: "you didn't participate in the quiz on time!" (`HuddleViewModel.swift:97`) | the tablet alone, clock 0..3 |
| `athlete` | what is published has a name and questions; a form publishes once however often it is retried; "Deleting..." has a delete in flight; an upload is answered; a quiz deleted, or listed while its upload was pending and then refused, leaves the list | 2 forms, 2 uploads, launch times 1 and 2, clock 0..2 (before, at and after a launch), 2 fetches in flight; a second quiz can be created while the first is deleted, and an upload retried |
| `create_question` | a question created has a text and four options, and its text is the one on screen unless still being edited | 2 texts, all 4 options |
| `quiz_result` | the figures shown are those of the sheet handed in and agree with the leaderboard; the fan is on the board unless beaten; the results come up | 2 devices of the viewer's account, 3 rivals, so that four fans compete for three places; answers after 0 to 10 s, the limits of the points among them; 4 UUIDs for at most 3 answers, drawn in any order; reads may fail |
| `quiz_result_marks` | violation: a mark labelled "Q i" is of question i (`QuizSelectionResultSolutionComponent.swift:56`) | the same, reads succeed |
| `login` | a home screen is of the user signed in and of that user's type; an attempt is answered | 2 accounts, each stored as athlete, fan, undecodable or missing; a sign-out by force at any moment |
| `write_pipeline` | answers belong to the writes they are taken for; idle means nothing to send; callbacks belong to their writes; the author is told the truth; the last write stands; writes are settled; implements `CommitLedger` | 4 writes of 2 users, one of them refused; a pipeline of 2 of them, so that it fills and is refilled; 3 faults of any kind (lost call, change of user, missing token, restart, relaunch) |
| `credential_change` | a stream sends with its user's token; a write is stored under its author, or as nobody's if Auth had signed the author out by force; a token resumes a stream that is starting, and only once; a signed-in user's writes go out | 2 users with a write each, 2 changes of user or token (refusals among them), 1 stream closed or token failed for other reasons: a sign-out by force and a sign-in after it, with tokens of both on their way |
| `reads` | the assertions of stream, store and online state hold; no old data for a new get; every get is answered, once; implements `ReadPromise` | 3 gets: two of one query, so that it is dropped and asked for again, one of a query that is rejected; 2 faults |

Every property of a passing run is tied to a faulty variant of a definition (a
dropped guard, a missing reset, an off-by-one) that makes TLC find it violated;
the variants stand next to the definitions and are listed under `mutants`.

Deadlock checking is off where the system may stop: a session whose screen is
closed and whose timer has reached its bound is over (`session`), a question
sheet is gone once closed (`create_question`), and a client with all its writes
settled, all its gets answered and no faults left has nothing to do
(`write_pipeline`, `credential_change`, `reads`). The other runs check for
deadlock: the app never stops, a crash is followed by a relaunch.

### What the violations mean

* **Submit after a rejected commit.** `submit` appends the last answer before the
  commit and leaves it there when the commit fails. The button is enabled again
  under the error; pressed, the sheet is one answer too long for the test at line
  100, the else branch increments the index past the last question, and
  `scrollToItem` raises. `AnswerSheet` shows the consequence: a rejected sheet can
  only be discarded.
* **"You didn't make it."** A failed read completes with `.failure` and then with
  `.success(false)`, which is indistinguishable from "no submission".
* **The marks.** Selections are stored under random ids, read back in the order of
  the ids and numbered as they come.

### What the models show that no line of the repository contradicts outright

Behaviours of the models worth a reader's time, for which no run claims the
opposite:

* A quiz may be handed in long after it closed: `endTime` is compared with the
  clock when the tile is tapped and never again.
* A name erased during an upload that fails can be published empty:
  `loadingIndicator(false)` enables the button without asking `isFormComplete`, and
  the guard of `createQuiz` (`CreateQuizViewModel.swift:119`) looks for `nil`.
  `PublishedIsComplete` is stated for an athlete who does not type meanwhile.
* A launched quiz can be deleted: the button stays as it was drawn
  (`QuizzesCarouselComponent.swift:132`), the action sheet as long as the athlete
  likes, and `deleteQuiz` does not look at the clock.
* After a failed read of the user the fan may be told that no user was found.
* Two sheets of one account are added up on the result screen; hence
  `OneSheetInAccount` in the properties of `QuizResult`.
* A tap on the cell scrolling away counts for the question before; hence `taps`
  in `OneAnswerPerQuestion`.
* After a sign-out by force the home screen stays up: nothing in the app listens to
  Auth. What the fan or athlete writes from then on is queued by Firestore as
  nobody's and sent without a token; hence `unowned` in `StoredUnderAuthor` and
  `Nobody` in `HomeOfSignedInUser`.
* A write the backend has applied may be reported as failed: a failed send drops
  the answers that wait to be read, the client takes the error for its first
  write's, and if it is a permanent one removes it. `CommitLedger` allows it
  (`Settle` is by `Refused`, the landing by the queue's order), `ToldTheTruth`
  claims only that "ok" is true.
* A get may wait without the ten-second timer: after a get was answered from the
  cache while the stream was in backoff, the state goes back to Unknown and the
  timer is cleared; the next get finds the stream started, and no timer. It is
  answered when the stream opens or fails: `EveryGetIsAnswered` has no bound on time.
* A watch stream that opens, or whose last target is rejected, with nothing to
  listen to gets no idle timer.

## Fairness

* `QuizSession`: weak fairness of `ViewDidLoad` and `CarouselMoves`, which UIKit
  runs to their end, and of the commit's answer. Firestore calls a commit's
  completion once the backend has decided; offline, it waits. The fairness is the
  assumption that the device is online eventually, and `WritesAreSettled` shows what
  it rests on; without it the fan stays in front of "Submitting...", whose alert
  has no button.
* `Huddle`: weak fairness of the answer to the oldest read. Firestore answers every
  read: from the server, from its cache, or with an error (`EveryGetIsAnswered`).
* `AthletePortal`: weak fairness of the answers to list fetches, deletes and the
  upload, with the same assumption for writes; none for the deletes of a screen that
  was left.
* `QuizResult`, `Login`: weak fairness of the answers to the requests in flight.
* `CreateQuestion`: none.
* `WritePipeline`: weak fairness of the steps the worker queue owes
  (`OnStreamStart`, `OnHandshakeComplete`, `OnMutationResult`, `OnStreamFinish`), of
  the backoff timer and of the backend serving a live call. Faults are bounded, and
  late requests of lost calls need not arrive.
* `CredentialChange`: weak fairness of the main and the worker queue, of the backoff
  timer, of token requests (Auth calls every one back, with a token or an error) and
  of the backend.
* `ReadPipeline`: weak fairness of the main queue (`RunsEvents`), of removals and
  stream steps on the worker queue, and of the backend's answers.
* Nothing obliges a fan or an athlete to tap, and no timer tick is needed for progress.

## What is proved

Each proof module proves an inductive invariant `IInv` (the properties together with
what they rest on), one lemma per action, and derives the properties from it, for
every value of the constants. TLC evaluates the assumptions on the constants in
every run: numbers are natural, tables are functions on their domains, the special
values differ from the ordinary ones (`Handshake` from every batch), quizzes are sequences of different questions.

* `QuizSessionProofs`: for quizzes of any length and any timer bound, type
  correctness, `SheetMatchesScreen`, `CrashOnlyAfterRejection`, `NoLookAhead` (not
  among the properties of the run) and `OneAnswerPerQuestion` are invariants, and
  the steps of the session are steps of `AnswerSheet` or stutter.
  `SheetMatchesScreen` needs to know that a pending commit means the loader is up
  (`PhasesAgree`) or Submit could append twice; `CrashOnlyAfterRejection` needs
  `SheetMatchesScreen` to know that the next page exists; `NoLookAhead` needs that
  the answer picked and not yet submitted is for a question reached
  (`SelectionReached`), and `OneAnswerPerQuestion` that it is for the current one
  (`SheetAligned`). The refinement uses `IInv` in the state before the step to see
  that `HandIn` completes the sheet and `NextQuestion` extends it with room left, or
  ends in a crash, which discards it. `NoSecondChargedTwice` rests on `TimeCharged`: the
  seconds on the sheet, those of the question at hand and those of an answer picked and
  not yet submitted are together no more than the quiz timer shows; only a rejected
  commit, after which the last answer is on the sheet and still picked, needs a case of
  its own.
* `QuizScoreProofs`: what the points are, for sheets of any length. A correct answer earns
  one to ten points and a wrong one none (`PointsInRange`), a slower answer never gains
  (`SlowerAnswerNeverGains`), and an answer more adds its own points (`PointsAddUp`). The
  quiz counts points and the result screen counts correct answers, in loops of their own:
  the points lie between the number of correct answers and ten times that
  (`ScoreWithinPoints`). And the order of the answers does not count
  (`OrderDoesNotCount`): a sum of naturals is the number of pairs of a place and a dot
  under it (`TotalCountsDots`), and rearranging the places is a bijection on the pairs.
* `QuizResultProofs`: for any fans and devices, sheets of any length and UUIDs in any
  order, type correctness, `FiguresAreTheSheets` and `OnBoardUnlessBeaten`. The
  invariant follows the fan's sheet from the commit to the screen: for an account with one
  sheet, the server's selections are its answers, one to a UUID, the device's own cache has
  all of them, and both hold the one submission with its points (`SheetStored`); before
  the sheet there is nothing (`NothingBeforeItsSheet`); what was fetched is what is
  stored (`ShownAsStored`, `RankedAsStored`), so that it does not matter which of the two
  fetches comes first, whether the server or the cache answers, or what other fans hand in
  meanwhile. `FiguresAreTheSheets` then needs that the selections read back are the
  sheet in some order, which is what sorting by UUID yields: a document's place is
  the number of documents up to its own (`Rank`), which is a bijection
  (`SheetComesBack`); the rest are `OrderDoesNotCount` and `ScoreWithinPoints`.
* `AthletePortalProofs`: type correctness, `PublishedIsComplete`, `OneQuizPerForm` and
  `LoaderHasItsDelete`. `PublishedIsComplete` rests on `ButtonMeansComplete`: an
  enabled button means a complete form *and* so does an upload on its way, because
  `UploadAcked` and `UploadFailed` enable the button unasked; this second half is what
  typing during an upload breaks. `OneQuizPerForm` rests on `FormIsNew` (a form on
  screen has published nothing, and all that is published has a smaller number) and
  `UploadOfThisForm` (an upload is of the form on screen, which leaves it with the
  acknowledgement). `SheetsHaveTheirPlace` keeps "Delete" and "Log Out" to the home
  screen and their quiz. The module ends with the sheet of one question: for any set of
  texts, `CreateQuestion`'s type correctness, `CreatedIsComplete` and `QuestionAsShown`.
  The strengthening: the button equals `isFormComplete` of the view model
  (`ButtonInStep`), the view model has the text shown whenever editing is off
  (`TextInStep`), and a sheet that created something is closed.
* `HuddleProofs`: for any devices, quizzes, launch times and bounds, type correctness,
  `ResultNeedsSubmission`, `NeverBeforeLaunch`, `OneSubmissionPerDevice` and
  `TapOpensItsQuiz`. Devices meet only in the store and the clock, which
  only grow; so the invariant is one formula per device. Its parts: what a screen shows is
  of a quiz (`ScreenHasQuiz`), a read on the way into a quiz was made after its launch
  (`AskedInTime`), on a device without failures there is one flow, of the quiz
  tapped, under the loader (`OneTapAtATime`), and from its negative check to its sheet
  the device has stored nothing for that quiz (`NothingStoredYet`).
* `CredentialChangeProofs`: for any users, writes and bounds, type correctness,
  `OpenAsItsUser`, `StoredUnderAuthor` and `ResumesOnlyAsStarting`. Each queue is a
  step behind the one that feeds it: the provider's user is Auth's once the
  notifications on the main queue are heard (`ProviderFollows`), SyncEngine's is the
  provider's once the changes on the worker queue are handled (`SyncFollows`). A token
  with the current counter is its user's (`TokensInTime`), one with the current close
  count was asked for by the stream now starting, and is the only one
  (`ForTheStarting`, `OnePerClose`), and resumes it for SyncEngine's user
  (`ResumesInTime`), or is an error. `HomeFollows`, `SignInFollows` and `WritesInTime`
  carry the author of a write from the home screen through the worker queue: while a
  home screen is up, Auth and the provider have its user or nobody, and the provider
  loses it only after Auth has (`HomeFollows`), so a write finds its author's queue, or
  nobody's if it was committed after a sign-out by force (`MayTake`). `CredentialChange`
  has the app by whose home screen it shows; that a home screen is never under another
  user is what the module's last section proves of `Login`, for any accounts: type
  correctness and `HomeOfSignedInUser`. Requests exist only on the login screen (`RequestsFromLogin`),
  one at a time, and the read in flight is of the user Auth has signed in, or has
  signed out by force meanwhile (`ReadsSignedInUser`).
* `ReadPipelineProofs`: for any gets, queries and number of faults, type correctness,
  `AssertionsHold`, `AnswersAreFresh`, and the *whole* refinement `KeepsThePromise`: `ReadPipeline`
  implements `ReadPromise`. It rests on this: who listens has asked
  (`ListenersAsked`); what is posted, in a view or on the wire is something the
  backend may say of that query (`PostedPossible`, `ViewsPossible`,
  `ResponsesPossible`); an error is the last event of its listener (`ErrorIsLast`);
  and a call answered is muted or has no events left that could answer again
  (`AnsweredOnce`). `AnswersAreFresh` has an invariant of its own, `Fresh`: an
  acknowledgement on its way, as a request or as a response, is counted in
  `outstanding_responses_` (`AllAwaited`), and data from before the listening began come
  ahead of one of them, so that the count is not yet zero when they are read
  (`LateNotTaken`).
* `WritePipelineProofs`: for any users, writes, pipeline size and number of faults, type
  correctness, `AnswersComeInOrder`, `IdleHasNothingToSend`, `CallbacksAreOfTheirWrites`,
  `ToldTheTruth`, `LastWriteStands`, and that every behaviour keeps the ledger
  (`KeepsTheLedger`: `WritePipeline` implements `CommitLedger`). The invariant has two
  halves. `Stored`: queues are sorted by id and hold writes of their user in the order of
  their commit (`QueuesKept`, `InOrder`), the next id is above all stored ones
  (`IdsAreFresh`), and a callback waits for each write of this launch (`CallbacksMatch`).
  `Flowing`: the pipeline is what the queue begins with (`Filled`); past the handshake it
  is, from front to back, the batches answered and not read, the one refused or those
  whose answers were lost, and the batches not served (`AnswersFirst`), so the front is
  what an answer is about; what is left of a call the client has closed is a stretch of
  one queue, and what the queue has before it is applied (`LeftInOrder`), so a late
  request can only apply anew what was applied before, or the next write in order. For
  `LastWriteStands` an answered write was applied after all earlier ones of its user
  (`AnswersStand`): a write is settled by an answer of the call on which it was sent
  behind them.

Every safety invariant that a passing run checks is a theorem, and so are the refinements
of `CommitLedger` and `ReadPromise`. Only model-checked:

* all liveness (`HandInIsAnswered`, `LaunchTapIsAnswered`, `UploadIsAnswered`,
  `DeletedLeavesList`, `OwnResultsComeUp`, `AttemptIsAnswered`, `WritesAreSettled`,
  `CatchesUp`, `EveryGetIsAnswered`) and the fairness half of the refinement of
  `AnswerSheet`: they rest on when an action is enabled, which is beyond the prover.

What the library proves by induction over an operator cannot be cited. Where a fact
about numbers or sequences needs induction all the same (the sums of `QuizScore`, the
`Min` and `Max` of sets of ids), it is proved from the least counterexample, which
exists because `<` on `Nat` is well-founded (`Least`). For the same reason
`CorrectScoreCount` is written as the size of a set and `InOrder` by the rank of each
document, where `SelectSeq` and `SortSeq` would compute the same.

## Not modelled, and why

Layout, texts, colours, animations other than the carousel's; the empty test
targets. The 0.25 s by which the skeleton outlives its fetch. Decoding errors of
single documents, which complete once more with `.failure` before the `.success`.

Of the Firestore client: the local store (document cache, eviction, overlay of
pending writes but for those `AthletePortal` has), limbo documents, existence filters,
resume tokens, transactions and the network switch, none of which the app steers; the
watch half of a user change; a server that closes a call with status OK, which the
client takes for a stop of its own (`remote_store.cc:231`).

Of Auth: the keychain, the providers, and when its refresh timer fires (a refresh may
come, or be refused, at any moment). Its sign-out by force is in `Login` and
`CredentialChange` only: `Huddle`, `QuizSession`, `QuizResult` and `AthletePortal` are
about a device whose user stays signed in.

The other pods. `src/` is almost entirely vendored third-party code: gRPC, BoringSSL,
leveldb, abseil, image and animation libraries, well over half a million lines of C
and C++ next to some seven thousand lines of Swift of its own. It is general-purpose code with
specifications of its own. Modelled of it is what decides whether the app's reads
and writes are answered, once and truthfully: remote store, streams, sync engine,
event manager, online state, mutation queue, credentials. The share of `src/` that
`map` covers is small for that reason and cannot be large.

## Plan

1. `QuizScore`, `QuizSession` with `AnswerSheet`, their proofs (done).
2. `Huddle` and its proofs (done).
3. `AthletePortal` and `CreateQuestion` with their proofs (done).
4. `QuizResult` and `Login` with their proofs (done).
5. The Firestore client: `WritePipeline` with `CommitLedger`; `CredentialChange` and
   `ReadPipeline` with `ReadPromise`, with their proofs (done).
6. Left: the overlay of pending writes on reads, which would join `WritePipeline` and
   `ReadPipeline`; a composition of `AthletePortal` and `Huddle` over one store (a quiz
   deleted while a fan takes it), whose subcollections the delete leaves behind.
