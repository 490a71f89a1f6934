----------------------------- MODULE ReadPipeline -----------------------------
(***************************************************************************)
(* The way of a get from getDocument(s) to the backend and back, in the     *)
(* Firestore client the app is built with: a listener of its own that takes *)
(* one event (ListenOnce), EventManager, SyncEngine's views, RemoteStore's  *)
(* watch stream, the WatchChangeAggregator and the OnlineStateTracker.      *)
(* The client runs on one worker queue, a step at a time; its events are    *)
(* handed to the user's executor, the main queue, and come back from there  *)
(* as removals; the backend, the network and the timers come in between.    *)
(*                                                                         *)
(* A call is seen when the worker queue adds its listener: it may have been *)
(* made at any time before.  The events of different calls may overtake     *)
(* each other.  What a query finds is reduced to its age: the backend's     *)
(* data change once.  The backend sends documents, CURRENT and snapshot of  *)
(* a target together, and rejects a query, if at all, whenever it is asked. *)
(* Limbo documents, existence filters, local writes, resume tokens and the  *)
(* network switch, which the app does not use, are left out.                *)
(***************************************************************************)
EXTENDS Integers, SequencesExt, FiniteSetsExt

CONSTANTS Read,      \* calls of getDocument(s), numbered for each query
          Query,
          QueryOf,   \* the query of each call
          Rejected,  \* the queries the backend rejects
          MaxFaults  \* bound on lost calls, missing tokens, timeouts, restarts

ASSUME ReadAssumption ==
  /\ Read \subseteq Nat
  /\ IsFiniteSet(Query)
  /\ QueryOf \in [Read -> Query]
  /\ Rejected \subseteq Query
  /\ MaxFaults \in Nat

VARIABLES
  asked,      \* the calls whose listener has been added
  listeners,  \* EventManager.queries_: the listeners of each query
  raised,     \* those with raised_initial_event_
  view,       \* SyncEngine's view of a query: from the cache, or of what age
  posted,     \* the events of each listener on the user's executor
  muted,      \* the listeners muted
  removing,   \* the listeners whose removal is on the worker queue
  answers,    \* what each call has been answered, in order
  targets,    \* RemoteStore.listen_targets_
  pending,    \* outstanding_responses_ of the aggregator's target states
  stream,     \* Stream.state_ of the watch stream
  idleTimer,  \* is Stream.idleness_timer_ running?
  online,     \* OnlineStateTracker.state_, EventManager's copy
  failed,     \* watch_stream_failures_ > 0
  timer,      \* is online_state_timer_ running?
  requests,   \* sent on the gRPC call, not yet served
  responses,  \* sent by the backend, not yet read
  call,       \* how the gRPC call stands
  served,     \* what the backend watches for this call, the age last sent
  data,       \* the age of the backend's data
  since,      \* its age when the listening to a query began (history)
  faults      \* faults so far

callerVars == <<asked, muted, removing, answers>>
viewVars == <<listeners, raised, view, posted, since>>
onlineVars == <<online, failed, timer>>
callVars == <<requests, responses, call, served>>
vars == <<callerVars, viewVars, targets, pending, stream, idleTimer, onlineVars,
          callVars, data, faults>>

Ages == {"old", "new"}
Kinds == Ages \cup {"cache", "error"}
Messages == [op : {"watch", "unwatch", "added", "removed", "rejected"}, query : Query]
            \cup [op : {"current"}, query : Query, age : Ages]

Listening == UNION {listeners[q] : q \in Query}

TypeOK ==
  /\ {asked, muted, removing} \subseteq SUBSET Read
  /\ raised \subseteq Listening
  /\ listeners \in [Query -> SUBSET Read]
  /\ view \in [Query -> Ages \cup {"none", "cache"}]
  /\ {posted, answers} \subseteq [Read -> Seq(Kinds)]
  /\ targets \subseteq Query
  /\ pending \in [Query -> Int]
  /\ stream \in {"initial", "starting", "open", "error", "backoff"}
  /\ {idleTimer, failed, timer} \subseteq BOOLEAN
  /\ online \in {"unknown", "online", "offline"}
  /\ {requests, responses} \subseteq Seq(Messages)
  /\ call \in {"none", "live", "broken"}
  /\ (call # "none" <=> stream = "open")
  /\ served \in [Query -> Ages \cup {"off", "on"}]
  /\ data \in Ages
  /\ since \in [Query -> Ages]
  /\ faults \in 0 .. MaxFaults

Init ==
  /\ asked = {} /\ muted = {} /\ removing = {} /\ raised = {}
  /\ listeners = [q \in Query |-> {}]
  /\ view = [q \in Query |-> "none"]
  /\ posted = [r \in Read |-> << >>]
  /\ answers = [r \in Read |-> << >>]
  /\ targets = {}
  /\ pending = [q \in Query |-> 0]
  /\ stream = "initial"
  /\ idleTimer = FALSE
  /\ online = "unknown"
  /\ failed = FALSE
  /\ timer = FALSE
  /\ requests = << >>
  /\ responses = << >>
  /\ call = "none"
  /\ served = [q \in Query |-> "off"]
  /\ data = "old"
  /\ since = [q \in Query |-> "old"]
  /\ faults = 0

-----------------------------------------------------------------------------
(* Helpers *)

Watch(q) == [op |-> "watch", query |-> q]
Unwatch(q) == [op |-> "unwatch", query |-> q]

(* IsStarted *)
Started == stream \in {"starting", "open", "backoff"}

(* OnEvent of each listener's AsyncEventListener. *)
Post(readers, kind) ==
  posted' = [r \in Read |-> IF r \in readers THEN Append(posted[r], kind) ELSE posted[r]]

Fault == faults < MaxFaults /\ faults' = faults + 1

(* Faulty variants stand before the definitions they vary; the runs show     *)
(* that a property tells them apart from the code.                           *)

(* The gRPC call is gone with all that was on it, and so is the aggregator. *)
NoCall ==
  /\ pending' = [q \in Query |-> 0]
  /\ call' = "none"
  /\ requests' = << >>
  /\ responses' = << >>
  /\ served' = [q \in Query |-> "off"]
  /\ idleTimer' = FALSE

(* HandleOnlineStateChange(Offline): views are from the cache again, which   *)
(* is news to those who have had an event of theirs; whoever has had none is *)
(* now told what the cache holds.                                            *)
BroadcastOffline ==
  LET stale == {q \in Query : view[q] \in Ages} IN
  /\ online' = "offline"
  /\ view' = [q \in Query |-> IF q \in stale THEN "cache" ELSE view[q]]
  /\ Post((Listening \ raised) \cup UNION {listeners[q] : q \in stale}, "cache")
  /\ raised' = raised \cup Listening
  /\ UNCHANGED <<listeners, since>>

(* Faulty variant: the timer of the last start runs on. *)
UpdateState_KeepsTimer(state) ==
  /\ online' = state
  /\ failed' = FALSE
  /\ UNCHANGED timer

(* UpdateState with a state other than Offline, which no view minds. *)
UpdateState(state) ==
  /\ online' = state
  /\ failed' = FALSE
  /\ timer' = FALSE

(* HandleWatchStreamStart, with no failure counted: otherwise it returns. *)
HandleWatchStreamStart ==
  /\ online' = "unknown"
  /\ timer' = TRUE
  /\ UNCHANGED failed

(* StartWatchStream's Start. *)
StartWatchStream ==
  stream' = IF stream = "error" THEN "backoff" ELSE "starting"

-----------------------------------------------------------------------------
(* A get: its listener is added, has its event, and is removed *)

(* AddQueryListener for the first listener of a query: SyncEngine.Listen     *)
(* makes a view of what the cache has, RemoteStore.Listen a target.          *)
ListenFirst(r) ==
  LET q == QueryOf[r] IN
  /\ listeners[q] = {}
  /\ view' = [view EXCEPT ![q] = "cache"]
  /\ since' = [since EXCEPT ![q] = data]
  /\ IF online = "offline"
     THEN Post({r}, "cache") /\ raised' = raised \cup {r}
     ELSE UNCHANGED <<posted, raised>>
  /\ targets' = targets \cup {q}
  /\ IF ~ Started
     THEN /\ StartWatchStream /\ HandleWatchStreamStart
          /\ UNCHANGED <<requests, pending, idleTimer>>
     ELSE /\ UNCHANGED <<stream, onlineVars>>
          /\ IF stream = "open"
             THEN /\ requests' = Append(requests, Watch(q))
                  /\ pending' = [pending EXCEPT ![q] = @ + 1]
                  /\ idleTimer' = FALSE
             ELSE UNCHANGED <<requests, pending, idleTimer>>

(* For a further one: the view there is, if it may be shown. *)
ListenToo(r) ==
  LET q == QueryOf[r] IN
  /\ listeners[q] # {}
  /\ IF view[q] \in Ages \/ online = "offline"
     THEN Post({r}, view[q]) /\ raised' = raised \cup {r}
     ELSE UNCHANGED <<posted, raised>>
  /\ UNCHANGED <<view, since, targets, pending, stream, idleTimer, onlineVars, requests>>

AddQueryListener(r) ==
  /\ r \notin asked
  /\ \A p \in Read : p < r /\ QueryOf[p] = QueryOf[r] => p \in asked
  /\ asked' = asked \cup {r}
  /\ listeners' = [listeners EXCEPT ![QueryOf[r]] = @ \cup {r}]
  /\ ListenFirst(r) \/ ListenToo(r)
  /\ UNCHANGED <<muted, removing, answers, responses, call, served, data, faults>>

(* Faulty variant: ListenOnce is removed, but not muted. *)
OnEvent_NotMuted(r) ==
  /\ posted[r] # << >>
  /\ posted' = [posted EXCEPT ![r] = Tail(@)]
  /\ answers' = [answers EXCEPT ![r] = Append(@, Head(posted[r]))]
  /\ removing' = IF Head(posted[r]) = "error" THEN removing ELSE removing \cup {r}
  /\ UNCHANGED <<asked, muted, listeners, raised, view, since, targets, pending, stream,
                 idleTimer, onlineVars, callVars, data, faults>>

(* The user's executor runs an event of ListenOnce: unless muted, it is      *)
(* passed on, and, if no error, mutes the listener and has it removed.       *)
OnEvent(r) ==
  /\ posted[r] # << >>
  /\ posted' = [posted EXCEPT ![r] = Tail(@)]
  /\ IF r \in muted
     THEN UNCHANGED <<answers, muted, removing>>
     ELSE /\ answers' = [answers EXCEPT ![r] = Append(@, Head(posted[r]))]
          /\ IF Head(posted[r]) = "error" THEN UNCHANGED <<muted, removing>>
             ELSE muted' = muted \cup {r} /\ removing' = removing \cup {r}
  /\ UNCHANGED <<asked, listeners, raised, view, since, targets, pending, stream,
                 idleTimer, onlineVars, callVars, data, faults>>

(* StopListening of SyncEngine and of RemoteStore, for a last listener. *)
StopListening(q) ==
  /\ view' = [view EXCEPT ![q] = "none"]
  /\ targets' = targets \ {q}
  /\ IF stream = "open"
     THEN /\ requests' = Append(requests, Unwatch(q))
          /\ pending' = [pending EXCEPT ![q] = @ + 1]
          /\ idleTimer' = (targets = {q})
          /\ UNCHANGED onlineVars
     ELSE /\ IF targets = {q} THEN UpdateState("unknown") ELSE UNCHANGED onlineVars
          /\ UNCHANGED <<requests, pending, idleTimer>>

(* RemoveQueryListener; an error may have removed it before. *)
RemoveQueryListener(r) ==
  LET q == QueryOf[r] IN
  /\ r \in removing
  /\ removing' = removing \ {r}
  /\ listeners' = [listeners EXCEPT ![q] = @ \ {r}]
  /\ raised' = raised \ {r}
  /\ IF listeners[q] = {r} THEN StopListening(q)
     ELSE UNCHANGED <<view, targets, requests, pending, idleTimer, onlineVars>>
  /\ UNCHANGED <<asked, muted, answers, posted, since, stream, responses, call,
                 served, data, faults>>

-----------------------------------------------------------------------------
(* The watch stream *)

(* ResumeStartWithCredentials, OnStreamStart and OnWatchStreamOpen. *)
OnStreamStart ==
  /\ stream = "starting"
  /\ stream' = "open"
  /\ call' = "live"
  /\ requests' = SetToSeq({Watch(q) : q \in targets})
  /\ pending' = [q \in Query |-> pending[q] + (IF q \in targets THEN 1 ELSE 0)]
  /\ UNCHANGED <<callerVars, viewVars, targets, idleTimer, onlineVars, responses, served,
                 data, faults>>

(* OnWatchStreamChange, whatever it says, means Online. *)
Reads(op) ==
  /\ stream = "open"
  /\ responses # << >>
  /\ Head(responses).op \in op
  /\ responses' = Tail(responses)
  /\ UpdateState("online")
  /\ UNCHANGED <<callerVars, since, stream, idleTimer, requests, call, served, data, faults>>

(* Faulty variant: an acknowledgement is taken for the one waited for. *)
OnTargetAcknowledged_Any ==
  /\ Reads({"added", "removed"})
  /\ pending' = [pending EXCEPT ![Head(responses).query] = 0]
  /\ UNCHANGED <<listeners, raised, view, posted, targets>>

(* HandleTargetChange: one response less to wait for. *)
OnTargetAcknowledged ==
  /\ Reads({"added", "removed"})
  /\ pending' = [pending EXCEPT ![Head(responses).query] = @ - 1]
  /\ UNCHANGED <<listeners, raised, view, posted, targets>>

(* The target is current, and a snapshot is raised: ApplyRemoteEvent, unless *)
(* nobody listens any more or the target waits to be acknowledged.           *)
OnTargetCurrent ==
  LET q   == Head(responses).query
      age == Head(responses).age IN
  /\ Reads({"current"})
  /\ IF q \in targets /\ pending[q] = 0 /\ view[q] # age
     THEN /\ view' = [view EXCEPT ![q] = age]
          /\ Post(listeners[q], age)
          /\ raised' = raised \cup listeners[q]
     ELSE UNCHANGED <<view, posted, raised>>
  /\ UNCHANGED <<listeners, targets, pending>>

(* ProcessTargetError: HandleRejectedListen, and OnError to every listener,  *)
(* unless nobody listens any more.                                           *)
OnTargetRejected ==
  LET q == Head(responses).query IN
  /\ Reads({"rejected"})
  /\ IF q \in targets
     THEN /\ targets' = targets \ {q}
          /\ pending' = [pending EXCEPT ![q] = 0]
          /\ view' = [view EXCEPT ![q] = "none"]
          /\ Post(listeners[q], "error")
          /\ listeners' = [listeners EXCEPT ![q] = {}]
          /\ raised' = raised \ listeners[q]
     ELSE UNCHANGED <<targets, pending, view, posted, listeners, raised>>

(* Faulty variant: a stream that closed is not started again. *)
CloseWithError_StaysClosed ==
  /\ NoCall
  /\ stream' = "error"
  /\ UpdateState("unknown")
  /\ UNCHANGED <<viewVars, callerVars, targets, data>>

(* Close with an error, OnWatchStreamClose: with targets left the failure    *)
(* counts, unless the stream was Online, and the stream starts again behind  *)
(* a backoff; otherwise nothing can be said of the connection.               *)
CloseWithError ==
  /\ NoCall
  /\ \/ /\ targets = {}
        /\ stream' = "error"
        /\ UpdateState("unknown")
        /\ UNCHANGED viewVars
     \/ /\ targets # {} /\ online = "online"
        /\ stream' = "backoff"
        /\ HandleWatchStreamStart
        /\ UNCHANGED viewVars
     \/ /\ targets # {} /\ online # "online"
        /\ stream' = "backoff"
        /\ failed' = TRUE
        /\ timer' = FALSE
        /\ BroadcastOffline
  /\ UNCHANGED <<callerVars, targets, data>>

OnStreamFinish ==
  /\ stream = "open" /\ call = "broken" /\ responses = << >>
  /\ CloseWithError
  /\ UNCHANGED faults

(* No token for the stream: OnStreamFinish before there is a call. *)
CredentialsFail ==
  /\ stream = "starting"
  /\ Fault
  /\ CloseWithError

(* The delayed operation of BackoffAndTryRestarting. *)
BackoffElapses ==
  /\ stream = "backoff"
  /\ stream' = "starting"
  /\ UNCHANGED <<callerVars, viewVars, targets, pending, idleTimer, onlineVars, callVars,
                 data, faults>>

(* The idle timer runs Stop; OnWatchStreamClose finds nothing to listen to. *)
IdleTimeout ==
  /\ idleTimer
  /\ NoCall
  /\ stream' = "initial"
  /\ UpdateState("unknown")
  /\ UNCHANGED <<callerVars, viewVars, targets, data, faults>>

(* The backend has not answered in time. *)
OnlineStateTimeout ==
  /\ timer
  /\ Fault
  /\ timer' = FALSE
  /\ BroadcastOffline
  /\ UNCHANGED <<callerVars, targets, pending, stream, idleTimer, failed, callVars, data>>

(* RestartNetwork, on a connectivity callback or a new credential: both      *)
(* streams stop, and the watch stream starts without a backoff if needed.    *)
RestartNetwork ==
  /\ Fault
  /\ NoCall
  /\ stream' = IF targets = {} THEN "initial" ELSE "starting"
  /\ online' = "unknown"
  /\ failed' = FALSE
  /\ timer' = (targets # {})
  /\ UNCHANGED <<callerVars, viewVars, targets, data>>

-----------------------------------------------------------------------------
(* The backend and the network *)

(* The next request is served. *)
Serve ==
  /\ call = "live" /\ requests # << >>
  /\ LET q == Head(requests).query IN
     \/ /\ Head(requests) = Unwatch(q)
        /\ responses' = Append(responses, [op |-> "removed", query |-> q])
        /\ served' = [served EXCEPT ![q] = "off"]
     \/ /\ Head(requests) = Watch(q) /\ q \notin Rejected
        /\ responses' = Append(responses, [op |-> "added", query |-> q])
        /\ served' = [served EXCEPT ![q] = "on"]
     \/ /\ Head(requests) = Watch(q) /\ q \in Rejected
        /\ responses' = Append(responses, [op |-> "rejected", query |-> q])
        /\ UNCHANGED served
  /\ requests' = Tail(requests)
  /\ UNCHANGED <<callerVars, viewVars, targets, pending, stream, idleTimer, onlineVars,
                 call, data, faults>>

(* A query that is watched is sent the data, and again when they change. *)
SendCurrent(q) ==
  /\ call = "live" /\ served[q] \notin {"off", data}
  /\ responses' = Append(responses, [op |-> "current", query |-> q, age |-> data])
  /\ served' = [served EXCEPT ![q] = data]
  /\ UNCHANGED <<callerVars, viewVars, targets, pending, stream, idleTimer, onlineVars,
                 requests, call, data, faults>>

(* Somebody writes. *)
DataChange ==
  /\ data = "old"
  /\ data' = "new"
  /\ UNCHANGED <<callerVars, viewVars, targets, pending, stream, idleTimer, onlineVars,
                 callVars, faults>>

(* The call is lost; an answer lost with it might as well not have been sent. *)
CallFails ==
  /\ call = "live"
  /\ Fault
  /\ call' = "broken"
  /\ requests' = << >>
  /\ served' = [q \in Query |-> "off"]
  /\ UNCHANGED <<callerVars, viewVars, targets, pending, stream, idleTimer, onlineVars,
                 responses, data>>

-----------------------------------------------------------------------------

(* What the client and the backend do of themselves. *)

RunsEvents == \E r \in Read : OnEvent(r)

RunsRemovals == \E r \in Read : RemoveQueryListener(r)

RunsStream ==
  \/ OnStreamStart
  \/ OnTargetAcknowledged
  \/ OnTargetCurrent
  \/ OnTargetRejected
  \/ OnStreamFinish
  \/ BackoffElapses

Answers == Serve \/ \E q \in Query : SendCurrent(q)

Next ==
  \/ \E r \in Read : AddQueryListener(r)
  \/ RunsEvents
  \/ RunsRemovals
  \/ RunsStream
  \/ Answers
  \/ CredentialsFail
  \/ IdleTimeout
  \/ OnlineStateTimeout
  \/ RestartNetwork
  \/ DataChange
  \/ CallFails

(* The executors run what is posted to them, backoffs end, tokens come, and  *)
(* a live call is served; nobody need read, write or fall idle.  Of each     *)
(* kind of step there are but finitely many, so that none starves another.   *)
Fairness ==
  /\ WF_vars(RunsEvents)
  /\ WF_vars(RunsRemovals)
  /\ WF_vars(RunsStream)
  /\ WF_vars(Answers)

Spec == Init /\ [][Next]_vars /\ Fairness

-----------------------------------------------------------------------------
(* Properties *)

(* What RemoteStore, Stream and OnlineStateTracker assert or take for       *)
(* granted holds through every order of gets, answers, failures and timers: *)
(* a stream falls idle with nothing to listen to (remote_store.cc:236); the  *)
(* timer runs only in state Unknown, on a started stream, and is never       *)
(* started twice (online_state_tracker.cc:62, 68); Online and Offline by     *)
(* failure exclude each other (line 92); and whoever listens has a target,   *)
(* a view and a stream on its way.                                           *)
AssertionsHold ==
  /\ idleTimer => stream = "open" /\ targets = {}
  /\ timer => online = "unknown" /\ Started
  /\ online = "online" => stream = "open"
  /\ failed => online = "offline" /\ Started
  /\ targets # {} => Started
  /\ \A q \in Query : q \in targets <=> listeners[q] # {}
  /\ \A q \in Query : q \in targets <=> view[q] # "none"

(* No acknowledgement comes that is not waited for, but of a query rejected, *)
(* whose count starts anew; so that what the backend sent for an earlier get *)
(* of a query, still on its way when the query is listened to again on the   *)
(* same stream, is not taken for the answer: a view synced with the backend  *)
(* is no older than the data were when its listening began.                  *)
AnswersAreFresh ==
  /\ \A q \in Query \ Rejected : pending[q] >= 0
  /\ \A q \in targets : view[q] = "old" => since[q] = "old"

(* Every get is answered in the end, by the backend, or because the stream  *)
(* fails: there comes a time, however late, when none is left waiting.       *)
EveryGetIsAnswered == []<>(\A r \in asked : answers[r] # << >>)

(* A get is answered once, with one of the answers it may have. *)
Promise == INSTANCE ReadPromise

KeepsThePromise == Promise!Spec
=============================================================================
