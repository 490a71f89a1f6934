--------------------------- MODULE CredentialChange ---------------------------
(***************************************************************************)
(* How a change of the signed-in user gets from Firebase Auth to the        *)
(* Firestore client, over three queues: FIRAuth's work queue, where its     *)
(* user changes and tokens are fetched; the main queue, where               *)
(* FirebaseCredentialsProvider hears of the change, tokens are handed over  *)
(* and the app runs; and Firestore's worker queue, where SyncEngine swaps   *)
(* the mutation queue and the write stream is opened with a token.  The     *)
(* user's writes must go out under the user's own token, though no lock     *)
(* spans the three.                                                         *)
(*                                                                         *)
(* The write stream opens with its token (its handshake and pipeline are    *)
(* WritePipeline's); a token says whose it is.  When a token is refused,    *)
(* Auth signs its user out by force, under a home screen that stays.         *)
(***************************************************************************)
EXTENDS Integers, Sequences

CONSTANTS User,
          NoOne,       \* nobody signed in
          Write,
          Author,      \* the user each write is made by
          Asked,       \* a token request whose user has not been read yet
          NoToken,     \* an error in a token's place
          MaxChanges,  \* bound on changes of user or token
          MaxCloses    \* bound on streams closed, or tokens failed, for other reasons

ASSUME CredentialAssumption ==
  /\ NoOne \notin User
  /\ Asked \notin User \cup {NoOne}
  /\ NoToken \notin User \cup {NoOne, Asked}
  /\ Author \in [Write -> User]
  /\ MaxChanges \in Nat
  /\ MaxCloses \in Nat

VARIABLES
  authUser,      \* FIRAuth._currentUser
  changes,       \* changes so far
  appUser,       \* whose home screen the app shows
  written,       \* the writes the app has committed
  unowned,       \* history: those committed when Auth had nobody signed in
  mainQueue,     \* the blocks dispatched to the main queue
  providerUser,  \* Contents.current_user
  tokenCounter,  \* Contents.token_counter
  requests,      \* getTokenForcingRefresh calls not called back yet
  workerQueue,   \* the operations on Firestore's worker queue
  syncUser,      \* SyncEngine.current_user_
  pending,       \* the mutation queue of each user
  stream,        \* Stream.state_
  streamToken,   \* whose token the stream was opened with
  closeCount,    \* Stream.close_count_
  closes         \* streams closed, or tokens failed, for other reasons so far

authVars == <<authUser, changes>>
appVars == <<appUser, written, unowned>>
providerVars == <<providerUser, tokenCounter>>
streamVars == <<stream, streamToken, closeCount>>
vars == <<authVars, appVars, mainQueue, providerVars, requests, workerQueue,
          syncUser, pending, streamVars, closes>>

Users == User \cup {NoOne}
Request == [counter : Nat, close : Nat, user : Users \cup {Asked}]
Token == [counter : Nat, close : Nat, user : Users \cup {NoToken}]
MainItem == [op : {"notify", "signedIn"}, user : Users]
            \cup [op : {"token"}, token : Token]
WorkerItem == [op : {"change"}, user : Users]
              \cup [op : {"write"}, write : Write]
              \cup [op : {"resume"}, close : Nat, user : Users \cup {NoToken}]

TypeOK ==
  /\ authUser \in Users /\ appUser \in Users
  /\ providerUser \in Users /\ syncUser \in Users
  /\ changes \in Nat /\ closes \in Nat
  /\ written \subseteq Write /\ unowned \subseteq Write
  /\ mainQueue \in Seq(MainItem)
  /\ tokenCounter \in Nat /\ closeCount \in Nat
  /\ requests \subseteq Request
  /\ workerQueue \in Seq(WorkerItem)
  /\ pending \in [Users -> SUBSET Write]
  /\ stream \in {"initial", "starting", "open", "error", "backoff"}
  /\ streamToken \in Users

(* GetToken, asked for by a stream that has been closed so many times. *)
GetToken(counter, close) == [counter |-> counter, close |-> close, user |-> Asked]

(* The app is launched, with the user Auth has kept and with writes that    *)
(* were not sent before it ended; Firestore starts as that user.            *)
Init ==
  /\ authUser \in Users
  /\ changes = 0
  /\ appUser = NoOne
  /\ written \in SUBSET Write
  /\ unowned = {}
  /\ mainQueue = << >>
  /\ providerUser = authUser
  /\ tokenCounter = 0
  /\ workerQueue = << >>
  /\ syncUser = authUser
  /\ pending = [u \in Users |-> {w \in written : Author[w] = u}]
  /\ streamToken = NoOne
  /\ closeCount = 0
  /\ closes = 0
  /\ IF pending[syncUser] = {}
     THEN stream = "initial" /\ requests = {}
     ELSE stream = "starting" /\ requests = {GetToken(0, 0)}

-----------------------------------------------------------------------------
(* FIRAuth's work queue *)

(* updateCurrentUser ends in possiblyPostAuthStateChangeNotification: its    *)
(* block is dispatched to the main queue.                                    *)
PostNotification(user) == [op |-> "notify", user |-> user]

(* Faulty variants stand before the definitions they vary; the runs show     *)
(* that a property tells them apart from the code.                           *)

(* Faulty variant: the completion overtakes the notification. *)
SignIn_CompletesFirst(user) ==
  /\ changes < MaxChanges
  /\ appUser = NoOne
  /\ \A i \in DOMAIN mainQueue : mainQueue[i].op # "signedIn"
  /\ authUser' = user
  /\ changes' = changes + 1
  /\ mainQueue' = Append(Append(mainQueue, [op |-> "signedIn", user |-> user]),
                       PostNotification(user))
  /\ UNCHANGED <<appVars, providerVars, requests, workerQueue, syncUser, pending,
                 streamVars, closes>>

(* A sign-in from the login screen succeeds; its completion is dispatched    *)
(* after the notification.                                                   *)
SignIn(user) ==
  /\ changes < MaxChanges
  /\ appUser = NoOne
  /\ \A i \in DOMAIN mainQueue : mainQueue[i].op # "signedIn"
  /\ authUser' = user
  /\ changes' = changes + 1
  /\ mainQueue' = Append(Append(mainQueue, PostNotification(user)),
                       [op |-> "signedIn", user |-> user])
  /\ UNCHANGED <<appVars, providerVars, requests, workerQueue, syncUser, pending,
                 streamVars, closes>>

(* The user's token is refreshed: the same notification, the same user. *)
RefreshToken ==
  /\ changes < MaxChanges
  /\ authUser # NoOne
  /\ changes' = changes + 1
  /\ mainQueue' = Append(mainQueue, PostNotification(authUser))
  /\ UNCHANGED <<authUser, appVars, providerVars, requests, workerQueue, syncUser,
                 pending, streamVars, closes>>

(* getTokenForcingRefresh reads _currentUser; its token may take a while. *)
ReadCurrentUser(request) ==
  /\ request.user = Asked
  /\ requests' = (requests \ {request}) \cup {[request EXCEPT !.user = authUser]}
  /\ UNCHANGED <<authVars, appVars, mainQueue, providerVars, workerQueue, syncUser,
                 pending, streamVars, closes>>

(* The token is there, or nil for nobody, and its callback is dispatched to  *)
(* the main queue.                                                           *)
TokenFetched(request) ==
  /\ request.user # Asked
  /\ requests' = requests \ {request}
  /\ mainQueue' = Append(mainQueue, [op |-> "token", token |-> request])
  /\ UNCHANGED <<authVars, appVars, providerVars, workerQueue, syncUser, pending,
                 streamVars, closes>>

FailedToken(request) ==
  [op |-> "token", token |-> [request EXCEPT !.user = NoToken]]

(* The token is not to be had, for want of a network say, or is refused to a *)
(* user who is no longer Auth's: the callback gets the error.                *)
TokenFails(request) ==
  /\ closes < MaxCloses
  /\ closes' = closes + 1
  /\ request.user \in User
  /\ requests' = requests \ {request}
  /\ mainQueue' = Append(mainQueue, FailedToken(request))
  /\ UNCHANGED <<authVars, appVars, providerVars, workerQueue, syncUser, pending,
                 streamVars>>

(* updateCurrentUser to nil. *)
NoCurrentUser ==
  /\ changes < MaxChanges
  /\ authUser # NoOne
  /\ authUser' = NoOne
  /\ changes' = changes + 1

(* The backend refuses the token: the user is disabled or gone, or the       *)
(* refresh token invalid or expired.  signOutByForceWithUserID, if it is     *)
(* still Auth's user, and then the error.  (It tells users apart by object;  *)
(* for one signed in anew these are RefreshRefused and TokenFails.)          *)
TokenRefused(request) ==
  /\ request.user = authUser
  /\ NoCurrentUser
  /\ requests' = requests \ {request}
  /\ mainQueue' = Append(Append(mainQueue, PostNotification(NoOne)),
                       FailedToken(request))
  /\ UNCHANGED <<appVars, providerVars, workerQueue, syncUser, pending, streamVars,
                 closes>>

(* The same of a refresh by Auth's own timer. *)
RefreshRefused ==
  /\ NoCurrentUser
  /\ mainQueue' = Append(mainQueue, PostNotification(NoOne))
  /\ UNCHANGED <<appVars, providerVars, requests, workerQueue, syncUser, pending,
                 streamVars, closes>>

-----------------------------------------------------------------------------
(* The main queue *)

Takes(queue, op) == queue # << >> /\ Head(queue).op = op

(* signOut from a home screen, which waits for the work queue, and finds     *)
(* nothing to do if Auth has signed the user out before.                     *)
SignOut ==
  /\ appUser # NoOne
  /\ appUser' = NoOne
  /\ \/ NoCurrentUser /\ mainQueue' = Append(mainQueue, PostNotification(NoOne))
     \/ authUser = NoOne /\ UNCHANGED <<authVars, mainQueue>>
  /\ UNCHANGED <<written, unowned, providerVars, requests, workerQueue, syncUser,
                 pending, streamVars, closes>>

(* A home screen commits a write: FirestoreClient.WriteMutations. *)
Commit(w) ==
  /\ w \notin written
  /\ appUser = Author[w]
  /\ written' = written \cup {w}
  /\ unowned' = IF authUser = NoOne THEN unowned \cup {w} ELSE unowned
  /\ workerQueue' = Append(workerQueue, [op |-> "write", write |-> w])
  /\ UNCHANGED <<authVars, appUser, mainQueue, providerVars, requests, syncUser,
                 pending, streamVars, closes>>

(* The observer of the notification: the listener enqueues the change. *)
HearOfChange ==
  /\ Takes(mainQueue, "notify")
  /\ mainQueue' = Tail(mainQueue)
  /\ providerUser' = Head(mainQueue).user
  /\ tokenCounter' = tokenCounter + 1
  /\ workerQueue' = Append(workerQueue, [op |-> "change", user |-> Head(mainQueue).user])
  /\ UNCHANGED <<authVars, appVars, requests, syncUser, pending, streamVars, closes>>

(* The sign-in's completion: the login is through, the home screen comes up. *)
ShowHome ==
  /\ Takes(mainQueue, "signedIn")
  /\ mainQueue' = Tail(mainQueue)
  /\ appUser' = Head(mainQueue).user
  /\ UNCHANGED <<authVars, written, unowned, providerVars, requests, workerQueue, syncUser,
                 pending, streamVars, closes>>

(* get_token_callback: after a change in between, it asks anew. *)
HandOverToken ==
  /\ Takes(mainQueue, "token")
  /\ mainQueue' = Tail(mainQueue)
  /\ LET token == Head(mainQueue).token IN
     IF token.counter # tokenCounter
     THEN /\ requests' = requests \cup {GetToken(tokenCounter, token.close)}
          /\ UNCHANGED workerQueue
     ELSE /\ workerQueue' = Append(workerQueue, [op |-> "resume", close |-> token.close,
                                                 user |-> token.user])
          /\ UNCHANGED requests
  /\ UNCHANGED <<authVars, appVars, providerVars, syncUser, pending, streamVars, closes>>

-----------------------------------------------------------------------------
(* Firestore's worker queue *)

(* Faulty variant: a stream that closed with an error stays closed. *)
StartFor_NotAfterError(writes, state) ==
  LET starts == writes # {} /\ state = "initial" IN
  /\ stream' = IF starts THEN "starting" ELSE state
  /\ requests' = IF starts THEN requests \cup {GetToken(tokenCounter, closeCount')}
                 ELSE requests

(* StartWriteStream, if ShouldStartWriteStream, from a stream that is in the *)
(* given state, for these writes.                                            *)
StartFor(writes, state) ==
  LET starts == writes # {} /\ state = "initial" IN
  /\ stream' = IF starts THEN "starting"
               ELSE IF writes # {} /\ state = "error" THEN "backoff" ELSE state
  /\ requests' = IF starts THEN requests \cup {GetToken(tokenCounter, closeCount')}
                 ELSE requests

Started == stream \in {"starting", "open", "backoff"}

(* Faulty variant: the mutation queue is swapped, the stream left running. *)
HandleCredentialChange_NoRestart ==
  /\ Takes(workerQueue, "change")
  /\ workerQueue' = Tail(workerQueue)
  /\ syncUser' = Head(workerQueue).user
  /\ UNCHANGED closeCount
  /\ StartFor(pending[syncUser'], stream)
  /\ UNCHANGED <<authVars, appVars, mainQueue, providerVars, pending, streamToken, closes>>

(* Faulty variant: Close does not count. *)
HandleCredentialChange_NoCount ==
  /\ Takes(workerQueue, "change")
  /\ workerQueue' = Tail(workerQueue)
  /\ syncUser' = Head(workerQueue).user
  /\ UNCHANGED closeCount
  /\ StartFor(pending[syncUser'], "initial")
  /\ UNCHANGED <<authVars, appVars, mainQueue, providerVars, pending, streamToken, closes>>

(* HandleCredentialChange: another user's mutation queue, then              *)
(* RestartNetwork, which stops the stream if it is started.                  *)
HandleCredentialChange ==
  /\ Takes(workerQueue, "change")
  /\ workerQueue' = Tail(workerQueue)
  /\ syncUser' = Head(workerQueue).user
  /\ closeCount' = IF Started THEN closeCount + 1 ELSE closeCount
  /\ StartFor(pending[syncUser'], "initial")
  /\ UNCHANGED <<authVars, appVars, mainQueue, providerVars, pending, streamToken, closes>>

(* SyncEngine.WriteMutations: into the queue of whoever is the user. *)
WriteMutations ==
  /\ Takes(workerQueue, "write")
  /\ workerQueue' = Tail(workerQueue)
  /\ pending' = [pending EXCEPT ![syncUser] = @ \cup {Head(workerQueue).write}]
  /\ UNCHANGED closeCount
  /\ StartFor(pending'[syncUser], stream)
  /\ UNCHANGED <<authVars, appVars, mainQueue, providerVars, syncUser, streamToken, closes>>

(* The callback of RequestCredentials: only the stream that asked resumes    *)
(* with it.  ResumeStartWithCredentials starts the call (OnStreamStart) or   *)
(* ends the stream with the error (OnStreamFinish).                          *)
Resume ==
  /\ Takes(workerQueue, "resume")
  /\ workerQueue' = Tail(workerQueue)
  /\ LET item == Head(workerQueue) IN
     \/ /\ item.close # closeCount
        /\ UNCHANGED <<stream, streamToken, closeCount, requests>>
     \/ /\ item.close = closeCount /\ item.user # NoToken
        /\ stream' = "open" /\ streamToken' = item.user
        /\ UNCHANGED <<closeCount, requests>>
     \/ /\ item.close = closeCount /\ item.user = NoToken
        /\ closeCount' = closeCount + 1
        /\ StartFor(pending[syncUser], "error")
        /\ UNCHANGED streamToken
  /\ UNCHANGED <<authVars, appVars, mainQueue, providerVars, syncUser, pending, closes>>

(* A write is acknowledged or refused. *)
Settle(w) ==
  /\ stream = "open"
  /\ w \in pending[syncUser]
  /\ pending' = [pending EXCEPT ![syncUser] = @ \ {w}]
  /\ UNCHANGED <<authVars, appVars, mainQueue, providerVars, requests, workerQueue,
                 syncUser, streamVars, closes>>

Close ==
  /\ closes < MaxCloses
  /\ closes' = closes + 1
  /\ closeCount' = closeCount + 1
  /\ UNCHANGED <<authVars, appVars, mainQueue, providerVars, workerQueue, syncUser,
                 pending, streamToken>>

(* OnStreamFinish with an error, on the way to a call or from it. *)
StreamFails ==
  /\ stream \in {"starting", "open"}
  /\ Close
  /\ StartFor(pending[syncUser], "error")

(* The idle timer stops the stream. *)
IdleTimeout ==
  /\ stream = "open" /\ pending[syncUser] = {}
  /\ Close
  /\ stream' = "initial"
  /\ UNCHANGED requests

BackoffElapses ==
  /\ stream = "backoff"
  /\ stream' = "starting"
  /\ requests' = requests \cup {GetToken(tokenCounter, closeCount)}
  /\ UNCHANGED <<authVars, appVars, mainQueue, providerVars, workerQueue, syncUser,
                 pending, streamToken, closeCount, closes>>

-----------------------------------------------------------------------------

MainStep == HearOfChange \/ ShowHome \/ HandOverToken

WorkerStep == HandleCredentialChange \/ WriteMutations \/ Resume

TokenStep ==
  \E request \in requests :
    \/ ReadCurrentUser(request)
    \/ TokenFetched(request) \/ TokenFails(request) \/ TokenRefused(request)

Next ==
  \/ \E user \in User : SignIn(user)
  \/ RefreshToken
  \/ RefreshRefused
  \/ TokenStep
  \/ SignOut
  \/ \E w \in Write : Commit(w) \/ Settle(w)
  \/ MainStep
  \/ WorkerStep
  \/ StreamFails
  \/ IdleTimeout
  \/ BackoffElapses

(* Queues run, token requests are called back, open streams settle what is   *)
(* on them.                                                                  *)
Fairness ==
  /\ WF_vars(MainStep) /\ WF_vars(WorkerStep) /\ WF_vars(BackoffElapses)
  /\ WF_vars(TokenStep)
  /\ WF_vars(\E w \in Write : Settle(w))

Spec == Init /\ [][Next]_vars /\ Fairness

-----------------------------------------------------------------------------
(* Properties *)

(* A stream that sends is open with the token of the user whose mutation     *)
(* queue it sends, at every moment of a change of user: the backend judges   *)
(* a write by its author, and never drops it as another's.                   *)
OpenAsItsUser == stream = "open" => streamToken = syncUser

(* A write is stored in its author's mutation queue, although the app and    *)
(* SyncEngine hear of the user from different queues.  Only one committed    *)
(* from a home screen whose user Auth had signed out by force may be stored  *)
(* as nobody's; never as another user's.                                     *)
StoredUnderAuthor ==
  \A u \in Users : \A w \in pending[u] :
    Author[w] = u \/ (u = NoOne /\ w \in unowned)

(* A token that is not stale finds its stream starting, as stream.cc:130     *)
(* asserts ("State should still be 'Starting'"), and there is but one.       *)
ResumesOnlyAsStarting ==
  /\ \A i \in DOMAIN workerQueue :
       workerQueue[i].op = "resume" /\ workerQueue[i].close = closeCount =>
         stream = "starting"
  /\ \A i, j \in DOMAIN workerQueue :
       /\ workerQueue[i].op = "resume" /\ workerQueue[j].op = "resume"
       /\ workerQueue[i].close = workerQueue[j].close
       => i = j

(* The user Auth ends up with becomes SyncEngine's, and what that user has   *)
(* written is sent: no request for a token is lost over the change.          *)
CatchesUp ==
  \A u \in User :
    authUser = u ~> authUser # u \/ (syncUser = u /\ pending[u] = {})
=============================================================================
