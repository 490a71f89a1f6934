---------------------------- MODULE WritePipeline ----------------------------
(***************************************************************************)
(* The way of a write from batch.commit to the backend and back, in the     *)
(* Firestore client the app is built with: SyncEngine.WriteMutations, the   *)
(* mutation queues in leveldb, RemoteStore's write pipeline, WriteStream    *)
(* over Stream, and the gRPC call under it.  Everything of the client runs  *)
(* on one worker queue, a step at a time; the backend, the network, the     *)
(* timers and the end of the process come in between.                      *)
(*                                                                         *)
(* A refused write is refused whenever it is sent.  The backend serves one  *)
(* call at a time, in order; what is left of a call the client has closed   *)
(* may still be served until the next call opens.  The stream token, which  *)
(* the handshake does not send, and what a write says are left out; so is   *)
(* the network switch, which the app does not use.  A callback runs when it *)
(* is posted.                                                               *)
(***************************************************************************)
EXTENDS Integers, SequencesExt, FiniteSetsExt

CONSTANTS User,
          Write,
          Author,            \* who makes each write
          Refused,           \* the writes the backend refuses for good
          Handshake,         \* the first message either way
          MaxPendingWrites,  \* kMaxPendingWrites
          MaxFaults          \* bound on lost calls, user changes, crashes...

ASSUME PipelineAssumption ==
  /\ Author \in [Write -> User]
  /\ Refused \subseteq Write
  /\ Handshake \notin [id : Nat, write : Write]
  /\ MaxPendingWrites \in Nat \ {0}
  /\ MaxFaults \in Nat

VARIABLES
  queue,        \* mutation_queue_ of each user, in leveldb
  issued,       \* the writes committed so far, in order
  session,      \* those committed since the app was launched
  outcome,      \* what the callback of each write has said
  currentUser,  \* SyncEngine.current_user_
  nextBatchId,  \* LevelDbMutationQueue.next_batch_id_
  callbacks,    \* SyncEngine.mutation_callbacks_
  pipeline,     \* RemoteStore.write_pipeline_
  stream,       \* Stream.state_ of the write stream
  handshake,    \* WriteStream.handshake_complete_
  idleTimer,    \* is Stream.idleness_timer_ running?
  requests,     \* sent on the gRPC call, not yet served
  responses,    \* answers on the gRPC call, not yet read
  call,         \* how the gRPC call stands
  applied,      \* the writes the backend has applied
  lastOrder,    \* those pairs of them of which the second was applied last later
  faults        \* faults so far

storeVars == <<queue, issued, session, outcome, currentUser, nextBatchId, callbacks>>
callVars == <<requests, responses, call>>
backendVars == <<applied, lastOrder>>
vars == <<storeVars, pipeline, stream, handshake, idleTimer, callVars, backendVars, faults>>

Batch == [id : Nat, write : Write]
Callback == [user : User, id : Nat, write : Write]
StreamStates == {"initial", "starting", "open", "error", "backoff"}

TypeOK ==
  /\ queue \in [User -> Seq(Batch)]
  /\ \A u \in User : \A i, j \in DOMAIN queue[u] : i < j => queue[u][i].id < queue[u][j].id
  /\ issued \in Seq(Write) /\ IsInjective(issued)
  /\ session \subseteq Range(issued)
  /\ outcome \in [Write -> {"none", "ok", "failed"}]
  /\ currentUser \in User
  /\ nextBatchId \in Nat \ {0}
  /\ callbacks \subseteq Callback
  /\ pipeline \in Seq(Batch) /\ Len(pipeline) <= MaxPendingWrites
  /\ stream \in StreamStates
  /\ {handshake, idleTimer} \subseteq BOOLEAN
  /\ {requests, responses} \subseteq Seq(Batch \cup {Handshake})
  /\ call \in {"none", "live", "broken", "refused", "overtaken"}
  /\ (call = "live" => stream = "open")
  /\ applied \subseteq Write
  /\ lastOrder \subseteq applied \X applied
  /\ faults \in 0 .. MaxFaults

Init ==
  /\ queue = [u \in User |-> << >>]
  /\ issued = << >>
  /\ session = {}
  /\ outcome = [w \in Write |-> "none"]
  /\ currentUser \in User
  /\ nextBatchId = 1
  /\ callbacks = {}
  /\ pipeline = << >>
  /\ stream = "initial"
  /\ handshake = FALSE
  /\ idleTimer = FALSE
  /\ requests = << >>
  /\ responses = << >>
  /\ call = "none"
  /\ applied = {}
  /\ lastOrder = {}
  /\ faults = 0

-----------------------------------------------------------------------------
(* Helpers *)

(* RemoveMutationBatch *)
Without(batches, id) == RemoveFirstMatch(batches, LAMBDA batch : batch.id = id)

(* GetNextMutationBatch, up to n times: the batches behind the given id. *)
NextBatches(batches, id, n) ==
  LET next == SelectInSeq(batches, LAMBDA batch : batch.id > id) IN
  IF next = 0 THEN << >>
  ELSE SubSeq(batches, next, Min({Len(batches), next + n - 1}))

(* last_batch_id_retrieved, kBatchIdUnknown for an empty pipeline. *)
LastId(pipe) == IF pipe = << >> THEN -1 ELSE Last(pipe).id

(* Faulty variants stand before the definitions they vary; the runs show     *)
(* that a property tells them apart from the code.                           *)

(* Faulty variant: the number of batches in place of the highest id. *)
LoadNextBatchIdFromDb_Counts(queues) ==
  1 + Cardinality(UNION {{batch.id : batch \in Range(queues[u])} : u \in User})

(* LoadNextBatchIdFromDb: one more than any id stored, of whatever user. *)
LoadNextBatchIdFromDb(queues) ==
  1 + Max({0} \cup UNION {{batch.id : batch \in Range(queues[u])} : u \in User})

(* IsStarted *)
Started(state) == state \in {"starting", "open", "backoff"}

(* Faulty variant: a stream that closed with an error stays closed. *)
StartedFor_NotAfterError(pipe, state) ==
  IF Started(state) \/ pipe = << >> \/ state = "error" THEN state ELSE "starting"

(* StartWriteStream, if ShouldStartWriteStream: after an error by backing off. *)
StartedFor(pipe, state) ==
  IF Started(state) \/ pipe = << >> THEN state
  ELSE IF state = "error" THEN "backoff" ELSE "starting"

(* Faulty variant: Write does not cancel the idle check. *)
FillWritePipeline_LeavesTimer(pipe, state, sent, idle) ==
  LET added == NextBatches(queue'[currentUser'], LastId(pipe), MaxPendingWrites - Len(pipe))
      ready == state = "open" /\ handshake'
  IN /\ pipeline' = pipe \o added
     /\ requests' = IF ready THEN sent \o added ELSE sent
     /\ idleTimer' = (idle \/ (pipe \o added = << >> /\ state = "open"))
     /\ stream' = StartedFor(pipe \o added, state)

(* FillWritePipeline, with what has become of pipeline, stream and calls so  *)
(* far in the step: batches follow the last one while there is room, and go  *)
(* out at once on a stream that is ready; an empty pipeline idles.           *)
FillWritePipeline(pipe, state, sent, idle) ==
  LET added == NextBatches(queue'[currentUser'], LastId(pipe), MaxPendingWrites - Len(pipe))
      ready == state = "open" /\ handshake'
  IN /\ pipeline' = pipe \o added
     /\ requests' = IF ready THEN sent \o added ELSE sent
     /\ idleTimer' = IF pipe \o added = << >> THEN state = "open"
                     ELSE idle /\ ~ (ready /\ added # << >>)
     /\ stream' = StartedFor(pipe \o added, state)

(* Faulty variant: the callback is not erased. *)
NotifyUser_KeepsCallback(id, verdict) ==
  /\ outcome' = [w \in Write |->
       IF \E c \in callbacks : c.user = currentUser /\ c.id = id /\ c.write = w
       THEN verdict ELSE outcome[w]]
  /\ UNCHANGED callbacks

(* NotifyUser: the callback of the current user's batch, if there is one. *)
NotifyUser(id, verdict) ==
  LET mine == {c \in callbacks : c.user = currentUser /\ c.id = id} IN
  /\ outcome' = [w \in Write |-> IF \E c \in mine : c.write = w THEN verdict
                                 ELSE outcome[w]]
  /\ callbacks' = callbacks \ mine

Fault == faults < MaxFaults /\ faults' = faults + 1

(* Has the backend ended the call? *)
Refusal == {"refused", "overtaken"}

(* What may still reach the backend of a call the client closes. *)
Leftover == IF call \in Refusal THEN << >> ELSE requests

(* A read completes: while its answer waited on the worker queue, a send     *)
(* may have failed behind it, ahead of the answers the next reads bring.     *)
ReadsAnswer ==
  /\ stream = "open" /\ call # "overtaken"
  /\ responses # << >>
  /\ responses' = Tail(responses)
  /\ \/ UNCHANGED call
     \/ call = "refused" /\ requests # << >> /\ call' = "overtaken"

(* The backend applies a write, once more perhaps, and so as the latest. *)
Apply(w) ==
  /\ applied' = applied \cup {w}
  /\ lastOrder' = {pair \in lastOrder : w \notin {pair[1], pair[2]}}
                  \cup {<<v, w>> : v \in applied \ {w}}

-----------------------------------------------------------------------------
(* Steps of the worker queue *)

(* WriteMutations: the batch is stored under the next id, its callback kept  *)
(* unless there is one under that id (insert does not overwrite).            *)
WriteMutations(w) ==
  /\ w \notin Range(issued)
  /\ Author[w] = currentUser
  /\ issued' = Append(issued, w)
  /\ session' = session \cup {w}
  /\ queue' = [queue EXCEPT ![currentUser] =
                 Append(@, [id |-> nextBatchId, write |-> w])]
  /\ nextBatchId' = nextBatchId + 1
  /\ callbacks' = IF \E c \in callbacks : c.user = currentUser /\ c.id = nextBatchId
                  THEN callbacks
                  ELSE callbacks \cup
                         {[user |-> currentUser, id |-> nextBatchId, write |-> w]}
  /\ UNCHANGED <<outcome, currentUser, handshake, responses, call, backendVars, faults>>
  /\ FillWritePipeline(pipeline, stream, requests, idleTimer)

(* ResumeStartWithCredentials, OnStreamStart and OnWriteStreamOpen. *)
OnStreamStart ==
  /\ stream = "starting"
  /\ stream' = "open"
  /\ call' = "live"
  /\ requests' = <<Handshake>>
  /\ responses' = << >>
  /\ UNCHANGED <<storeVars, pipeline, handshake, idleTimer, backendVars, faults>>

(* Faulty variant: the pipeline goes out backwards. *)
OnHandshakeComplete_Backwards ==
  /\ ~ handshake
  /\ ReadsAnswer
  /\ handshake' = TRUE
  /\ requests' = requests \o Reverse(pipeline)
  /\ idleTimer' = (idleTimer /\ pipeline = << >>)
  /\ UNCHANGED <<storeVars, pipeline, stream, backendVars, faults>>

(* OnStreamRead before the handshake: OnWriteStreamHandshakeComplete sends   *)
(* the whole pipeline.                                                       *)
OnHandshakeComplete ==
  /\ ~ handshake
  /\ ReadsAnswer
  /\ handshake' = TRUE
  /\ requests' = requests \o pipeline
  /\ idleTimer' = (idleTimer /\ pipeline = << >>)
  /\ UNCHANGED <<storeVars, pipeline, stream, backendVars, faults>>

(* OnStreamRead afterwards: OnWriteStreamMutationResult takes whatever comes *)
(* for the answer to the front of the pipeline; HandleSuccessfulWrite calls  *)
(* back, then removes the batch.                                             *)
OnMutationResult ==
  /\ handshake
  /\ ReadsAnswer
  /\ NotifyUser(Head(pipeline).id, "ok")
  /\ queue' = [queue EXCEPT ![currentUser] = Without(@, Head(pipeline).id)]
  /\ UNCHANGED <<issued, session, currentUser, nextBatchId, handshake, backendVars, faults>>
  /\ FillWritePipeline(Tail(pipeline), stream, requests, idleTimer)

(* Faulty variant: handshake_complete_ is not reset. *)
CloseAndRetry_StillGreeted ==
  /\ idleTimer' = FALSE
  /\ call' = "none"
  /\ responses' = << >>
  /\ requests' = Leftover
  /\ stream' = StartedFor(pipeline, "error")
  /\ UNCHANGED <<storeVars, pipeline, backendVars, handshake>>

(* Close with an error no write is blamed for: OnWriteStreamClose restarts   *)
(* the stream, behind a backoff, if there is something to send.              *)
CloseAndRetry ==
  /\ handshake' = FALSE
  /\ idleTimer' = FALSE
  /\ call' = "none"
  /\ responses' = << >>
  /\ requests' = Leftover
  /\ stream' = StartedFor(pipeline, "error")
  /\ UNCHANGED <<storeVars, pipeline, backendVars>>

(* Faulty variant: the batch is dropped, its author is not told. *)
CloseAndReject_Silent ==
  /\ handshake' = FALSE
  /\ call' = "none"
  /\ responses' = << >>
  /\ queue' = [queue EXCEPT ![currentUser] = Without(@, Head(pipeline).id)]
  /\ UNCHANGED <<issued, session, outcome, callbacks, currentUser, nextBatchId, backendVars>>
  /\ FillWritePipeline(Tail(pipeline), "initial", Leftover, FALSE)

(* Close with a permanent error after the handshake: HandleWriteError blames *)
(* the front of the pipeline, without a backoff; HandleRejectedWrite.        *)
CloseAndReject ==
  /\ handshake' = FALSE
  /\ call' = "none"
  /\ responses' = << >>
  /\ queue' = [queue EXCEPT ![currentUser] = Without(@, Head(pipeline).id)]
  /\ NotifyUser(Head(pipeline).id, "failed")
  /\ UNCHANGED <<issued, session, currentUser, nextBatchId, backendVars>>
  /\ FillWritePipeline(Tail(pipeline), "initial", Leftover, FALSE)

(* Faulty variant: IsPermanentWriteError is not asked. *)
OnStreamFinish_BlamesAnyway ==
  /\ stream = "open"
  /\ call = "overtaken" \/ (call \in {"broken", "refused"} /\ responses = << >>)
  /\ IF handshake /\ pipeline # << >> THEN CloseAndReject ELSE CloseAndRetry
  /\ UNCHANGED faults

(* OnStreamFinish: the last read has failed, or a send has before, and       *)
(* FinishGrpcCall has cancelled the read that was to bring the next answer.  *)
OnStreamFinish ==
  /\ stream = "open"
  /\ call = "overtaken" \/ (call \in {"broken", "refused"} /\ responses = << >>)
  /\ IF handshake /\ pipeline # << >> /\ call \in Refusal
     THEN CloseAndReject
     ELSE CloseAndRetry
  /\ UNCHANGED faults

(* No token for the stream: OnStreamFinish before there is a call. *)
CredentialsFail ==
  /\ stream = "starting"
  /\ Fault
  /\ CloseAndRetry

(* The delayed operation of BackoffAndTryRestarting. *)
BackoffElapses ==
  /\ stream = "backoff"
  /\ stream' = "starting"
  /\ UNCHANGED <<storeVars, pipeline, handshake, idleTimer, callVars, backendVars, faults>>

(* The idle timer runs Stop; OnWriteStreamClose expects nothing to send. *)
IdleTimeout ==
  /\ idleTimer
  /\ idleTimer' = FALSE
  /\ stream' = StartedFor(pipeline, "initial")
  /\ handshake' = FALSE
  /\ call' = "none"
  /\ requests' = Leftover
  /\ responses' = << >>
  /\ UNCHANGED <<storeVars, pipeline, backendVars, faults>>

(* RestartNetwork, or a first EnableNetwork: no stream, an empty pipeline,   *)
(* which is filled from the queue of whoever is the user now.                *)
Restart ==
  /\ handshake' = FALSE
  /\ call' = "none"
  /\ responses' = << >>
  /\ FillWritePipeline(<< >>, "initial", Leftover, FALSE)
  /\ UNCHANGED backendVars

(* HandleCredentialChange with another user: HandleUserChange starts that    *)
(* user's mutation queue.                                                    *)
ChangeUser(user) ==
  /\ Fault
  /\ user # currentUser
  /\ currentUser' = user
  /\ nextBatchId' = LoadNextBatchIdFromDb(queue)
  /\ UNCHANGED <<queue, issued, session, outcome, callbacks>>
  /\ Restart

(* A connectivity callback, or a new token of the same user. *)
RestartNetwork ==
  /\ Fault
  /\ UNCHANGED storeVars
  /\ Restart

(* The process ends and the app is launched again, with the user Auth kept;  *)
(* it may end in HandleSuccessfulWrite, between callback and removal.        *)
Relaunch ==
  /\ Fault
  /\ \/ UNCHANGED outcome
     \/ /\ stream = "open" /\ call # "overtaken"
        /\ handshake /\ responses # << >>
        /\ \E c \in callbacks :
             /\ c.user = currentUser /\ c.id = Head(pipeline).id
             /\ outcome' = [outcome EXCEPT ![c.write] = "ok"]
  /\ callbacks' = {}
  /\ session' = {}
  /\ nextBatchId' = LoadNextBatchIdFromDb(queue)
  /\ UNCHANGED <<queue, issued, currentUser>>
  /\ Restart

-----------------------------------------------------------------------------
(* The backend and the network *)

(* A request is served: answered, or, refused, the end of the call. *)
Serve ==
  /\ call = "live" /\ requests # << >>
  /\ requests' = Tail(requests)
  /\ \/ /\ Head(requests) = Handshake
        /\ responses' = Append(responses, Handshake)
        /\ UNCHANGED <<call, backendVars>>
     \/ /\ Head(requests) # Handshake
        /\ Head(requests).write \notin Refused
        /\ Apply(Head(requests).write)
        /\ responses' = Append(responses, Head(requests))
        /\ UNCHANGED call
     \/ /\ Head(requests) # Handshake
        /\ Head(requests).write \in Refused
        /\ call' = "refused"
        /\ UNCHANGED <<responses, backendVars>>
  /\ UNCHANGED <<storeVars, pipeline, stream, handshake, idleTimer, faults>>

(* What the client has sent before a call was lost may still get there, up *)
(* to a request that is refused.                                            *)
ServeLate ==
  /\ call \in {"none", "broken"} /\ requests # << >>
  /\ requests' = Tail(requests)
  /\ \/ Head(requests) = Handshake /\ UNCHANGED backendVars
     \/ /\ Head(requests) # Handshake
        /\ Head(requests).write \notin Refused
        /\ Apply(Head(requests).write)
  /\ UNCHANGED <<storeVars, pipeline, stream, handshake, idleTimer, responses, call, faults>>

(* The call is lost, with a tail of the answers, or the handshake refused. *)
CallFails ==
  /\ call = "live"
  /\ Fault
  /\ \/ /\ call' = "broken"
        /\ \E n \in 0 .. Len(responses) : responses' = SubSeq(responses, 1, n)
     \/ /\ requests # << >> /\ Head(requests) = Handshake
        /\ call' = "refused"
        /\ UNCHANGED responses
  /\ UNCHANGED <<storeVars, pipeline, stream, handshake, idleTimer, requests, backendVars>>

-----------------------------------------------------------------------------

Next ==
  \/ \E w \in Write : WriteMutations(w)
  \/ OnStreamStart
  \/ OnHandshakeComplete
  \/ OnMutationResult
  \/ OnStreamFinish
  \/ CredentialsFail
  \/ BackoffElapses
  \/ IdleTimeout
  \/ \E user \in User : ChangeUser(user)
  \/ RestartNetwork
  \/ Relaunch
  \/ Serve
  \/ ServeLate
  \/ CallFails

(* The worker queue runs what is posted to it, the timers fire, a live call  *)
(* is served; nothing need be committed and no late request need arrive.     *)
Fairness ==
  /\ WF_vars(OnStreamStart) /\ WF_vars(OnHandshakeComplete)
  /\ WF_vars(OnMutationResult) /\ WF_vars(OnStreamFinish)
  /\ WF_vars(BackoffElapses) /\ WF_vars(Serve)

Spec == Init /\ [][Next]_vars /\ Fairness

-----------------------------------------------------------------------------
(* Properties *)

Pending(u) == [i \in DOMAIN queue[u] |-> queue[u][i].write]

Settled(w) == w \in Range(issued) /\ w \notin Range(Pending(Author[w]))

(* Was v committed before w? *)
Earlier(v, w) ==
  \E i, j \in DOMAIN issued : i < j /\ issued[i] = v /\ issued[j] = w

(* What comes next on a stream past its handshake answers the front of the  *)
(* pipeline, and what is pipelined is what the user's queue begins with:     *)
(* an answer names no batch, so remote_store.cc:434 has only this to go by   *)
(* ("should be correlated to the first write in our write pipeline").        *)
AnswersComeInOrder ==
  /\ IsPrefix(pipeline, queue[currentUser])
  /\ stream = "open" /\ handshake => IsPrefix(responses, pipeline)

(* A stream stops as idle only while there is nothing to send, which        *)
(* remote_store.cc:455 asserts, through every order of commits and answers.  *)
IdleHasNothingToSend ==
  idleTimer => stream = "open" /\ pipeline = << >> /\ queue[currentUser] = << >>

(* A callback waits for each pending write of this launch and for no other,  *)
(* under the id its write is stored under, although ids are given out again  *)
(* when the queue is started for another user or after a relaunch.           *)
CallbacksAreOfTheirWrites ==
  callbacks = UNION {{[user |-> u, id |-> batch.id, write |-> batch.write] :
                        batch \in {b \in Range(queue[u]) : b.write \in session}}
                     : u \in User}

(* The author is told how each write of this launch was settled, and told   *)
(* of success only for a write the backend has applied.                      *)
ToldTheTruth ==
  /\ \A w \in session : Settled(w) <=> outcome[w] # "none"
  /\ \A w \in Write : outcome[w] = "ok" => w \in applied

(* Of two writes of one user, both applied and the later one settled, the    *)
(* later stands on the backend, though either may have been applied again.   *)
LastWriteStands ==
  \A v, w \in Write :
    /\ Earlier(v, w) /\ Author[v] = Author[w]
    /\ {v, w} \subseteq applied
    /\ Settled(w)
    => <<v, w>> \in lastOrder

(* Once calls and users stay, each write of the user is settled.             *)
WritesAreSettled ==
  \A w \in Write :
    w \in Range(Pending(currentUser)) ~> Settled(w) \/ currentUser # Author[w]

(* The pipeline keeps what a commit promises. *)
Ledger == INSTANCE CommitLedger WITH
  pending <- [u \in User |-> Pending(u)],
  landed  <- applied

KeepsTheLedger == Ledger!Spec
=============================================================================
