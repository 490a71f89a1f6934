------------------------- MODULE WritePipelineProofs -------------------------
(***************************************************************************)
(* Proofs about WritePipeline, for any number of users, writes and faults:  *)
(* answers are taken for the right writes, callbacks tell the truth, the    *)
(* last write of a user stands, and the pipeline keeps what CommitLedger    *)
(* promises.                                                                *)
(***************************************************************************)
EXTENDS WritePipeline, SequenceTheorems, WellFoundedInduction, TLAPS

-----------------------------------------------------------------------------
(* Bounded sets of numbers *)

LEMMA Least ==
  ASSUME NEW T \in SUBSET Nat, T # {}
  PROVE  \E x \in T : \A y \in T : x <= y
  <1>1. PICK x \in T : \A y \in T : ~ (<<y, x>> \in OpToRel(<, Nat))
    BY NatLessThanWellFounded, WFMin
  <1>2. \A y \in T : ~ (y < x)
    BY <1>1 DEF OpToRel
  <1> QED
    BY <1>2

LEMMA Greatest ==
  ASSUME NEW S \in SUBSET Nat, S # {}, NEW n \in Nat, \A s \in S : s <= n
  PROVE  /\ Max(S) \in S
         /\ \A s \in S : s <= Max(S)
  <1> DEFINE T == {m \in Nat : \A s \in S : s <= m}
  <1>1. PICK x \in T : \A y \in T : x <= y
    BY Least
  <1>2. x \in S
    <2> SUFFICES ASSUME x \notin S PROVE FALSE
      OBVIOUS
    <2>1. \A s \in S : s < x
      BY <1>1
    <2>2. x - 1 \in Nat
      <3>1. PICK s \in S : s < x
        BY <2>1
      <3> QED
        BY <3>1
    <2>4. \A t \in S : t <= x - 1
      BY <2>1
    <2>3. x - 1 \in T
      BY <2>2, <2>4
    <2> QED
      BY <1>1, <2>3
  <1> HIDE DEF T
  <1>3. \E y \in S : \A s \in S : y >= s
    BY <1>1, <1>2 DEF T
  <1> QED
    BY <1>3 DEF Max

LEMMA Lower ==
  ASSUME NEW m \in Int, NEW n \in Int
  PROVE  Min({m, n}) = IF m <= n THEN m ELSE n
  <1>1. \E x \in {m, n} : \A y \in {m, n} : x <= y
    OBVIOUS
  <1> QED
    BY <1>1 DEF Min

-----------------------------------------------------------------------------
(* The mutation queue and the pipeline *)

Sorted(batches) ==
  \A i, j \in DOMAIN batches : i < j => batches[i].id < batches[j].id

(* The front of the queue is the batch its id is looked up for. *)
LEMMA WithoutHead ==
  ASSUME NEW batches \in Seq(Batch), batches # << >>
  PROVE  Without(batches, Head(batches).id) = Tail(batches)
  <1> DEFINE I == {i \in 1 .. Len(batches) : batches[i].id = Head(batches).id}
  <1>1. 1 \in I
    OBVIOUS
  <1>2. Min(I) = 1
    <2>1. 1 \in I /\ \A y \in I : 1 <= y
      BY <1>1
    <2>2. \A x \in I : (\A y \in I : x <= y) => x = 1
      BY <1>1
    <2> QED
      BY <2>1, <2>2 DEF Min
  <1>3. Without(batches, Head(batches).id) = RemoveAt(batches, 1)
    BY <1>1, <1>2 DEF Without, RemoveFirstMatch, SelectInSeq
  <1>4. RemoveAt(batches, 1) = << >> \o SubSeq(batches, 2, Len(batches))
    BY DEF RemoveAt
  <1>5. SubSeq(batches, 2, Len(batches)) = Tail(batches)
    BY TailIsSubSeq
  <1>6. Tail(batches) \in Seq(Batch)
    OBVIOUS
  <1> QED
    BY <1>3, <1>4, <1>5, <1>6, ConcatEmptySeq

(* Filling up a pipeline that holds what its queue begins with takes the     *)
(* batches that follow.                                                      *)
LEMMA NextInLine ==
  ASSUME NEW batches \in Seq(Batch), Sorted(batches),
         NEW pipe \in Seq(Batch), Len(pipe) <= Len(batches),
         \A i \in DOMAIN pipe : pipe[i] = batches[i],
         NEW m \in Nat, Len(pipe) <= m
  PROVE  NextBatches(batches, LastId(pipe), m - Len(pipe))
           = SubSeq(batches, Len(pipe) + 1, Min({m, Len(batches)}))
  <1> DEFINE next == SelectInSeq(batches, LAMBDA batch : batch.id > LastId(pipe))
             I == {i \in 1 .. Len(batches) : batches[i].id > LastId(pipe)}
             n == Len(pipe)
             q == Len(batches)
  <1>0. /\ n \in Nat /\ q \in Nat /\ n <= q
        /\ \A i \in 1 .. q : batches[i].id \in Nat
    <2>1. \A i \in 1 .. q : batches[i] \in Batch
      OBVIOUS
    <2> QED
      BY <2>1 DEF Batch
  <1>1. \A i \in 1 .. q : i \in I <=> i > n
    <2>1. CASE pipe = << >>
      <3>1. LastId(pipe) = -1
        BY <2>1 DEF LastId
      <3> QED
        BY <1>0, <2>1, <3>1
    <2>2. CASE pipe # << >>
      <3>1. n \in 1 .. q /\ LastId(pipe) = batches[n].id
        BY <1>0, <2>2 DEF LastId, Last
      <3>2. \A i \in 1 .. q : i > n => batches[i].id > batches[n].id
        BY <1>0, <3>1 DEF Sorted
      <3>3. \A i \in 1 .. q : i < n => batches[i].id < batches[n].id
        BY <1>0, <3>1 DEF Sorted
      <3> QED
        BY <1>0, <3>1, <3>2, <3>3
    <2> QED
      BY <2>1, <2>2
  <1>2. next = IF I = {} THEN 0 ELSE Min(I)
    BY DEF SelectInSeq
  <1>3. next = IF n = q THEN 0 ELSE n + 1
    <2>1. CASE n = q
      BY <1>0, <1>1, <1>2, <2>1
    <2>2. CASE n < q
      <3>1. n + 1 \in I /\ \A y \in I : n + 1 <= y
        BY <1>0, <1>1, <2>2
      <3>2. Min(I) = n + 1
        <4>1. \A x \in I : (\A y \in I : x <= y) => x = n + 1
          BY <1>0, <3>1
        <4> QED
          BY <3>1, <4>1 DEF Min
      <3> QED
        BY <1>2, <2>2, <3>1, <3>2, <1>0
    <2> QED
      BY <1>0, <2>1, <2>2
  <1>4. NextBatches(batches, LastId(pipe), m - n)
          = IF next = 0 THEN << >>
            ELSE SubSeq(batches, next, Min({q, next + (m - n) - 1}))
    BY DEF NextBatches
  <1> HIDE DEF next, n, q, I
  <1>5. CASE n = q
    <2>1. Min({m, q}) = q
      BY <1>0, <1>5, Lower DEF n, q
    <2>2. SubSeq(batches, n + 1, q) = << >>
      BY <1>0, <1>5, SubSeqEmpty
    <2> QED
      BY <1>3, <1>4, <1>5, <2>1, <2>2 DEF n, q
  <1>6. CASE n < q
    <2>1. next = n + 1 /\ next # 0 /\ next + (m - n) - 1 = m
      BY <1>0, <1>3, <1>6
    <2>2. Min({q, m}) = Min({m, q})
      BY <1>0, Lower
    <2> QED
      BY <1>4, <2>1, <2>2 DEF n, q
  <1>7. n = q \/ n < q
    BY <1>0
  <1> QED
    BY <1>5, <1>6, <1>7

(* The elements of t from the m-th to the n-th are put behind s. *)
Joined(S, s, t, m, n, r) ==
  /\ r \in Seq(S) /\ Len(r) + m = n
  /\ s \o r \in Seq(S) /\ Len(s \o r) + m = Len(s) + n
  /\ \A i \in 1 .. Len(s) : (s \o r)[i] = s[i]
  /\ \A i \in Len(s) + 1 .. Len(s \o r) : (s \o r)[i] = t[m + i - Len(s)]

LEMMA Joining ==
  ASSUME NEW S, NEW s \in Seq(S), NEW t \in Seq(S),
         NEW m \in Nat, NEW n \in Nat, m <= n, n <= Len(t),
         NEW r, r = SubSeq(t, m + 1, n)
  PROVE  Joined(S, s, t, m, n, r)
  <1>1. \A i \in m + 1 .. n : t[i] \in S
    OBVIOUS
  <1>2. r \in Seq(S) /\ Len(r) = n - m /\ \A i \in 1 .. n - m : r[i] = t[m + i]
    BY <1>1, SubSeqProperties
  <1>3. /\ s \o r \in Seq(S) /\ Len(s \o r) = Len(s) + (n - m)
        /\ \A i \in 1 .. Len(s) + (n - m) :
             (s \o r)[i] = IF i <= Len(s) THEN s[i] ELSE r[i - Len(s)]
    <2>1. \A u, v \in Seq(S) :
            /\ u \o v \in Seq(S) /\ Len(u \o v) = Len(u) + Len(v)
            /\ \A i \in 1 .. Len(u) + Len(v) :
                 (u \o v)[i] = IF i <= Len(u) THEN u[i] ELSE v[i - Len(u)]
      BY ConcatProperties
    <2> QED
      BY <1>2, <2>1
  <1>4. \A i \in Len(s) + 1 .. Len(s) + (n - m) :
          i - Len(s) \in 1 .. n - m /\ m + (i - Len(s)) = m + i - Len(s)
    OBVIOUS
  <1>5. \A i \in Len(s) + 1 .. Len(s) + (n - m) : (s \o r)[i] = t[m + i - Len(s)]
    BY <1>2, <1>3, <1>4
  <1> QED
    BY <1>2, <1>3, <1>5 DEF Joined

-----------------------------------------------------------------------------
(* The inductive invariant *)

(* TypeOK, of what is stored and of what is on its way. *)
StoreTypes ==
  /\ queue \in [User -> Seq(Batch)]
  /\ \A u \in User : Sorted(queue[u])
  /\ issued \in Seq(Write) /\ IsInjective(issued)
  /\ session \subseteq Range(issued)
  /\ outcome \in [Write -> {"none", "ok", "failed"}]
  /\ currentUser \in User
  /\ nextBatchId \in Nat \ {0}
  /\ callbacks \subseteq Callback
  /\ applied \subseteq Write
  /\ lastOrder \subseteq applied \X applied

FlowTypes ==
  /\ pipeline \in Seq(Batch) /\ Len(pipeline) <= MaxPendingWrites
  /\ stream \in StreamStates
  /\ handshake \in BOOLEAN /\ idleTimer \in BOOLEAN
  /\ requests \in Seq(Batch \cup {Handshake})
  /\ responses \in Seq(Batch \cup {Handshake})
  /\ call \in {"none", "live", "broken", "refused", "overtaken"}
  /\ (call = "live" => stream = "open")
  /\ faults \in 0 .. MaxFaults

(* A queue holds writes of its user, each of them once. *)
QueuesKept ==
  \A u \in User :
    /\ \A i \in DOMAIN queue[u] :
         Author[queue[u][i].write] = u /\ queue[u][i].write \in Range(issued)
    /\ \A i, j \in DOMAIN queue[u] : queue[u][i].write = queue[u][j].write => i = j

(* No batch of the current user has the id that is given out next. *)
IdsAreFresh ==
  /\ \A i \in DOMAIN queue[currentUser] : queue[currentUser][i].id < nextBatchId
  /\ \E n \in Nat : \A u \in User : \A i \in DOMAIN queue[u] : queue[u][i].id <= n

(* While a write is pending, so are the later ones of its author. *)
InOrder ==
  \A v, w \in Write : Earlier(v, w) /\ Author[v] = Author[w] =>
    \A i \in DOMAIN queue[Author[w]] : queue[Author[w]][i].write = v =>
      \E j \in DOMAIN queue[Author[w]] : i < j /\ queue[Author[w]][j].write = w

OnlyIssued ==
  /\ applied \subseteq Range(issued) \ Refused
  /\ \A w \in Write : outcome[w] # "none" => w \in Range(issued)

(* CallbacksAreOfTheirWrites, a callback and a batch at a time. *)
CallbackOf(u, i) == [user |-> u, id |-> queue[u][i].id, write |-> queue[u][i].write]

CallbacksMatch ==
  /\ \A c \in callbacks : \E u \in User : \E i \in DOMAIN queue[u] :
       queue[u][i].write \in session /\ c = CallbackOf(u, i)
  /\ \A u \in User : \A i \in DOMAIN queue[u] :
       queue[u][i].write \in session => CallbackOf(u, i) \in callbacks

(* What is stored, here and by the backend. *)
Stored ==
  /\ StoreTypes
  /\ QueuesKept
  /\ IdsAreFresh
  /\ InOrder
  /\ OnlyIssued
  /\ CallbacksMatch
  /\ ToldTheTruth
  /\ LastWriteStands

(* The pipeline is as much of the user's queue as there is room for. *)
Filled ==
  /\ Len(pipeline) = Min({MaxPendingWrites, Len(queue[currentUser])})
  /\ \A i \in DOMAIN pipeline : pipeline[i] = queue[currentUser][i]

CallStands ==
  /\ idleTimer => handshake
  /\ stream # "open" => ~ handshake /\ call = "none" /\ responses = << >>
  /\ stream = "open" => call # "none"
  /\ stream = "open" /\ ~ handshake =>
       /\ call # "overtaken"
       /\ call = "refused" => requests # << >>
       /\ \/ requests = <<Handshake>> /\ responses = << >>
          \/ requests = << >> /\ responses \in {<< >>, <<Handshake>>}

(* Past the handshake the pipeline is, in this order: batches answered, one  *)
(* that was refused or some that were lost, and batches not served yet.      *)
Answering(pipe, read, sent, state, done) ==
  /\ Len(read) + Len(sent) <= Len(pipe)
  /\ \A i \in DOMAIN read : read[i] = pipe[i]
  /\ \A i \in DOMAIN sent : sent[i] = pipe[Len(pipe) - Len(sent) + i]
  /\ state = "live" => Len(read) + Len(sent) = Len(pipe)
  /\ state \in Refusal =>
       /\ Len(read) + Len(sent) + 1 = Len(pipe)
       /\ pipe[Len(read) + 1].write \in Refused
  /\ \A i \in DOMAIN pipe :
       \/ i <= Len(read)
       \/ state \notin Refusal /\ i <= Len(pipe) - Len(sent)
       => pipe[i].write \in done

AnswersFirst == handshake => Answering(pipeline, responses, requests, call, applied)

(* What is left of a call the client has closed is a stretch of some queue,  *)
(* and what the queue has before it is applied.                              *)
Stretch(left, queues, done) ==
  \/ left = <<Handshake>>
  \/ \E u \in User, n \in Nat :
       /\ n + Len(left) <= Len(queues[u])
       /\ \A i \in DOMAIN left : left[i] = queues[u][n + i]
       /\ \A i \in 1 .. n : queues[u][i].write \in done

LeftInOrder == stream # "open" => Stretch(requests, queue, applied)

(* An answered write was applied later than all that its user committed     *)
(* before it.                                                                *)
Before(commits, v, w) ==
  \E i, j \in DOMAIN commits : i < j /\ commits[i] = v /\ commits[j] = w

AnswersStand ==
  handshake => \A i \in DOMAIN responses : \A v \in applied :
    Before(issued, v, responses[i].write) /\ Author[v] = currentUser =>
      <<v, responses[i].write>> \in lastOrder

(* What is on its way. *)
Flowing ==
  /\ FlowTypes
  /\ Filled
  /\ CallStands
  /\ IdleHasNothingToSend
  /\ AnswersFirst
  /\ LeftInOrder
  /\ AnswersStand

IInv == Stored /\ Flowing

LEMMA Initially == Init => IInv
  <1> SUFFICES ASSUME Init PROVE IInv
    OBVIOUS
  <1> USE PipelineAssumption DEF Init
  <1>1. StoreTypes
    <2>1. IsInjective(issued) /\ session \subseteq Range(issued)
      BY DEF IsInjective
    <2>2. \A u \in User : Sorted(queue[u])
      BY DEF Sorted
    <2> QED
      BY <2>1, <2>2 DEF StoreTypes
  <1>2. QueuesKept /\ InOrder /\ OnlyIssued
    BY DEF QueuesKept, InOrder, OnlyIssued
  <1>3. IdsAreFresh
    <2>1. \A u \in User : \A i \in DOMAIN queue[u] : queue[u][i].id <= 0
      OBVIOUS
    <2> QED
      BY <2>1 DEF IdsAreFresh
  <1>4. CallbacksMatch /\ ToldTheTruth /\ LastWriteStands
    BY DEF CallbacksMatch, ToldTheTruth, LastWriteStands
  <1>5. FlowTypes /\ IdleHasNothingToSend
    <2>1. /\ pipeline \in Seq(Batch) /\ Len(pipeline) <= MaxPendingWrites
          /\ requests \in Seq(Batch \cup {Handshake})
          /\ responses \in Seq(Batch \cup {Handshake})
          /\ faults \in 0 .. MaxFaults
      OBVIOUS
    <2>2. handshake \in BOOLEAN /\ idleTimer \in BOOLEAN /\ ~ idleTimer
      OBVIOUS
    <2> QED
      BY <2>1, <2>2 DEF FlowTypes, StreamStates, IdleHasNothingToSend
  <1>6. Filled
    BY Lower DEF Filled
  <1>7. CallStands /\ AnswersFirst /\ AnswersStand
    BY DEF CallStands, AnswersFirst, AnswersStand
  <1>8. LeftInOrder
    <2>1. /\ 0 + Len(requests) <= Len(queue[currentUser])
          /\ DOMAIN requests = {} /\ 1 .. 0 = {}
      OBVIOUS
    <2> QED
      BY <2>1 DEF LeftInOrder, Stretch
  <1> QED
    BY <1>1, <1>2, <1>3, <1>4, <1>5, <1>6, <1>7, <1>8 DEF IInv, Stored, Flowing

(* The parts of the invariant are the properties, of single elements. *)
LEMMA TypesTogether == StoreTypes /\ FlowTypes <=> TypeOK
  BY DEF StoreTypes, FlowTypes, TypeOK, Sorted

LEMMA CallbacksTogether ==
  ASSUME StoreTypes
  PROVE  CallbacksMatch <=> CallbacksAreOfTheirWrites
  <1> DEFINE Waiting == UNION {{[user |-> u, id |-> batch.id, write |-> batch.write] :
                        batch \in {b \in Range(queue[u]) : b.write \in session}}
                     : u \in User}
  <1>1. \A c : c \in Waiting <=>
          \E u \in User : \E i \in DOMAIN queue[u] :
            queue[u][i].write \in session /\ c = CallbackOf(u, i)
    BY DEF CallbackOf, Range
  <1> HIDE DEF Waiting
  <1>2. CallbacksMatch <=> \A c : c \in callbacks <=> c \in Waiting
    BY <1>1 DEF CallbacksMatch
  <1>3. (\A c : c \in callbacks <=> c \in Waiting) <=> callbacks = Waiting
    OBVIOUS
  <1> QED
    BY <1>2, <1>3 DEF CallbacksAreOfTheirWrites, Waiting

(* A write is pending while a batch of its author's queue holds it. *)
LEMMA PendingIs ==
  ASSUME NEW u, NEW w
  PROVE  /\ w \in Range(Pending(u)) <=> \E i \in DOMAIN queue[u] : queue[u][i].write = w
         /\ w \in Range(Pending(u))' <=> \E i \in DOMAIN queue'[u] : queue'[u][i].write = w
  BY DEF Pending, Range

-----------------------------------------------------------------------------
(* A write is committed *)

LEMMA Appended ==
  ASSUME NEW S, NEW s \in Seq(S), NEW e \in S
  PROVE  /\ Append(s, e) \in Seq(S)
         /\ DOMAIN Append(s, e) = 1 .. Len(s) + 1
         /\ DOMAIN s = 1 .. Len(s)
         /\ Len(Append(s, e)) = Len(s) + 1
         /\ Len(s) \in Nat
         /\ \A i \in 1 .. Len(s) : Append(s, e)[i] = s[i]
         /\ Append(s, e)[Len(s) + 1] = e
  OBVIOUS

(* What one more commit makes of the queues and of the order of commits. *)
LEMMA Committing ==
  ASSUME StoreTypes, NEW w0 \in Write, WriteMutations(w0)
  PROVE  /\ queue' \in [User -> Seq(Batch)]
         /\ queue[currentUser] \in Seq(Batch)
         /\ currentUser' = currentUser /\ currentUser \in User
         /\ \A u \in User : u # currentUser => queue'[u] = queue[u]
         /\ Len(queue'[currentUser]) = Len(queue[currentUser]) + 1
         /\ DOMAIN queue[currentUser] = 1 .. Len(queue[currentUser])
         /\ DOMAIN queue'[currentUser] = 1 .. Len(queue[currentUser]) + 1
         /\ \A i \in DOMAIN queue[currentUser] :
              queue'[currentUser][i] = queue[currentUser][i]
         /\ queue'[currentUser][Len(queue[currentUser]) + 1]
              = [id |-> nextBatchId, write |-> w0]
         /\ issued' \in Seq(Write) /\ IsInjective(issued)'
         /\ Range(issued)' = Range(issued) \cup {w0}
         /\ w0 \notin Range(issued)
         /\ Author[w0] = currentUser
         /\ \A v, w \in Write :
              Earlier(v, w)' <=> Earlier(v, w) \/ (w = w0 /\ v \in Range(issued))
  <1> DEFINE Q == queue[currentUser]
             new == [id |-> nextBatchId, write |-> w0]
  <1>1. /\ new \in Batch /\ Q \in Seq(Batch) /\ currentUser \in User
        /\ queue \in [User -> Seq(Batch)] /\ issued \in Seq(Write)
        /\ IsInjective(issued)
    BY DEF StoreTypes, Batch
  <1>2. /\ queue' = [queue EXCEPT ![currentUser] = Append(Q, new)]
        /\ issued' = Append(issued, w0)
        /\ currentUser' = currentUser
        /\ w0 \notin Range(issued) /\ Author[w0] = currentUser
    BY DEF WriteMutations
  <1> HIDE DEF new
  <1>3. /\ Append(Q, new) \in Seq(Batch)
        /\ Len(Append(Q, new)) = Len(Q) + 1
        /\ DOMAIN Q = 1 .. Len(Q)
        /\ DOMAIN Append(Q, new) = 1 .. Len(Q) + 1
        /\ \A i \in DOMAIN Q : Append(Q, new)[i] = Q[i]
        /\ Append(Q, new)[Len(Q) + 1] = new
    BY <1>1, Appended
  <1>4. /\ queue' \in [User -> Seq(Batch)]
        /\ queue'[currentUser] = Append(Q, new)
        /\ \A u \in User : u # currentUser => queue'[u] = queue[u]
    BY <1>1, <1>2, <1>3
  <1>5. /\ issued' \in Seq(Write) /\ Len(issued) \in Nat
        /\ DOMAIN issued = 1 .. Len(issued)
        /\ DOMAIN issued' = 1 .. Len(issued) + 1
        /\ \A i \in DOMAIN issued : issued'[i] = issued[i]
        /\ issued'[Len(issued) + 1] = w0
    BY <1>1, <1>2, Appended
  <1>6. Range(issued)' = Range(issued) \cup {w0}
    BY <1>5 DEF Range
  <1>7. IsInjective(issued)'
    <2> SUFFICES ASSUME NEW i \in DOMAIN issued', NEW j \in DOMAIN issued',
                        issued'[i] = issued'[j]
                 PROVE  i = j
      BY DEF IsInjective
    <2>1. \A k \in DOMAIN issued : issued'[k] # w0
      BY <1>2, <1>5 DEF Range
    <2> QED
      BY <1>1, <1>5, <2>1 DEF IsInjective
  <1>8. \A v, w \in Write :
          Earlier(v, w)' <=> Earlier(v, w) \/ (w = w0 /\ v \in Range(issued))
    <2> SUFFICES ASSUME NEW v \in Write, NEW w \in Write
                 PROVE  Earlier(v, w)' <=> Earlier(v, w) \/ (w = w0 /\ v \in Range(issued))
      OBVIOUS
    <2>1. Earlier(v, w) => Earlier(v, w)'
      BY <1>5 DEF Earlier
    <2>2. w = w0 /\ v \in Range(issued) => Earlier(v, w)'
      <3> SUFFICES ASSUME w = w0, NEW i \in DOMAIN issued, v = issued[i]
                   PROVE  Earlier(v, w)'
        BY DEF Range
      <3>1. i < Len(issued) + 1 /\ i \in DOMAIN issued' /\ Len(issued) + 1 \in DOMAIN issued'
        BY <1>5
      <3> QED
        BY <1>5, <3>1 DEF Earlier
    <2>3. Earlier(v, w)' => Earlier(v, w) \/ (w = w0 /\ v \in Range(issued))
      <3> SUFFICES ASSUME NEW i \in DOMAIN issued', NEW j \in DOMAIN issued',
                          i < j, issued'[i] = v, issued'[j] = w
                   PROVE  Earlier(v, w) \/ (w = w0 /\ v \in Range(issued))
        BY DEF Earlier
      <3>1. i \in DOMAIN issued /\ issued[i] = v
        BY <1>5
      <3>2. CASE j \in DOMAIN issued
        BY <1>5, <3>1, <3>2 DEF Earlier
      <3>3. CASE j = Len(issued) + 1
        BY <1>5, <3>1, <3>3 DEF Range
      <3> QED
        BY <1>5, <3>2, <3>3
    <2> QED
      BY <2>1, <2>2, <2>3
  <1> QED
    BY <1>1, <1>2, <1>3, <1>4, <1>5, <1>6, <1>7, <1>8 DEF new

LEMMA CommitStored ==
  ASSUME Stored, NEW w0 \in Write, WriteMutations(w0)
  PROVE  Stored'
  <1> DEFINE Q == queue[currentUser]
             last == Len(Q) + 1
             new == [id |-> nextBatchId, write |-> w0]
             mine == [user |-> currentUser, id |-> nextBatchId, write |-> w0]
  <1> USE DEF Stored
  <1>1. /\ queue' \in [User -> Seq(Batch)]
        /\ currentUser' = currentUser /\ currentUser \in User
        /\ \A u \in User : u # currentUser => queue'[u] = queue[u]
        /\ DOMAIN Q = 1 .. Len(Q)
        /\ DOMAIN queue'[currentUser] = 1 .. last
        /\ \A i \in DOMAIN Q : queue'[currentUser][i] = Q[i]
        /\ queue'[currentUser][last] = new
        /\ Q \in Seq(Batch)
    BY Committing
  <1>2. /\ issued' \in Seq(Write) /\ IsInjective(issued)'
        /\ Range(issued)' = Range(issued) \cup {w0}
        /\ w0 \notin Range(issued)
        /\ Author[w0] = currentUser
        /\ \A v, w \in Write :
             Earlier(v, w)' <=> Earlier(v, w) \/ (w = w0 /\ v \in Range(issued))
    BY Committing
  <1>3. /\ session' = session \cup {w0}
        /\ nextBatchId' = nextBatchId + 1
        /\ callbacks' = IF \E c \in callbacks : c.user = currentUser /\ c.id = nextBatchId
                        THEN callbacks ELSE callbacks \cup {mine}
        /\ outcome' = outcome /\ applied' = applied /\ lastOrder' = lastOrder
    BY DEF WriteMutations, backendVars
  <1>4. /\ \A u \in User : queue[u] \in Seq(Batch) /\ Sorted(queue[u])
        /\ session \subseteq Range(issued) /\ Range(issued) \subseteq Write
        /\ outcome \in [Write -> {"none", "ok", "failed"}]
        /\ nextBatchId \in Nat \ {0}
        /\ callbacks \subseteq Callback
        /\ applied \subseteq Write
        /\ lastOrder \subseteq applied \X applied
        /\ Len(Q) \in Nat /\ last \in Nat
    BY <1>1 DEF StoreTypes, Range
  <1>5. \A u \in User : \A i \in DOMAIN queue[u] :
          queue[u][i].id \in Nat /\ queue[u][i].write \in Write
    <2>1. \A u \in User : \A i \in DOMAIN queue[u] : queue[u][i] \in Batch
      BY <1>4
    <2> QED
      BY <2>1 DEF Batch
  <1>6. new.id = nextBatchId /\ new.write = w0
    OBVIOUS
  <1>7. \A i \in DOMAIN Q : Q[i].id < nextBatchId
    BY <1>1 DEF IdsAreFresh
  <1>8. \A u \in User : \A i \in DOMAIN queue[u] :
          i \in DOMAIN queue'[u] /\ queue'[u][i] = queue[u][i]
    <2>1. \A i \in 1 .. Len(Q) : i \in 1 .. last
      BY <1>4
    <2> QED
      BY <1>1, <2>1
  <1>9. \A u \in User : \A i \in DOMAIN queue'[u] :
          \/ i \in DOMAIN queue[u] /\ queue'[u][i] = queue[u][i]
          \/ u = currentUser /\ i = last /\ queue'[u][i] = new
    <2>1. \A i \in 1 .. last : i \in 1 .. Len(Q) \/ i = last
      BY <1>4
    <2> QED
      BY <1>1, <2>1
  <1> HIDE DEF new, last
  <1>10. \A c \in callbacks : ~ (c.user = currentUser /\ c.id = nextBatchId)
    <2> SUFFICES ASSUME NEW c \in callbacks, c.user = currentUser, c.id = nextBatchId
                 PROVE  FALSE
      OBVIOUS
    <2>1. PICK u \in User : \E i \in DOMAIN queue[u] : c = CallbackOf(u, i)
      BY DEF CallbacksMatch
    <2>2. PICK i \in DOMAIN queue[u] : c = CallbackOf(u, i)
      BY <2>1
    <2>3. c.user = u /\ c.id = queue[u][i].id
      BY <2>2 DEF CallbackOf
    <2> QED
      BY <1>7, <1>5, <1>4, <2>3
  <1>11. callbacks' = callbacks \cup {mine}
    BY <1>3, <1>10
  <1>12. mine \in Callback
    BY <1>1, <1>4 DEF Callback
  <1>13. StoreTypes'
    <2>1. \A u \in User : Sorted(queue[u])'
      <3> SUFFICES ASSUME NEW u \in User, NEW i \in DOMAIN queue'[u], NEW j \in DOMAIN queue'[u],
                          i < j
                   PROVE  queue'[u][i].id < queue'[u][j].id
        BY DEF Sorted
      <3>1. CASE j \in DOMAIN queue[u]
        <4>1. i \in DOMAIN queue[u]
          BY <1>1, <1>4, <3>1
        <4> QED
          BY <1>4, <1>8, <3>1, <4>1 DEF Sorted
      <3>2. CASE u = currentUser /\ j = last /\ queue'[u][j] = new
        <4>1. i \in DOMAIN Q
          BY <1>1, <3>2 DEF last
        <4> QED
          BY <1>1, <1>6, <1>7, <3>2, <4>1
      <3> QED
        BY <1>9, <3>1, <3>2
    <2>2. callbacks' \subseteq Callback
      BY <1>4, <1>11, <1>12
    <2>3. session' \subseteq Range(issued)'
      BY <1>2, <1>3, <1>4
    <2>4. nextBatchId' \in Nat \ {0}
      BY <1>3, <1>4
    <2> QED
      BY <1>1, <1>2, <1>3, <1>4, <2>1, <2>2, <2>3, <2>4 DEF StoreTypes
  <1>14. QueuesKept'
    <2>1. \A u \in User : \A i \in DOMAIN queue'[u] :
            /\ Author[queue'[u][i].write] = u
            /\ queue'[u][i].write \in Range(issued)'
      BY <1>2, <1>6, <1>9 DEF QueuesKept
    <2>2. \A u \in User : \A i \in DOMAIN queue[u] : queue[u][i].write # w0
      BY <1>2 DEF QueuesKept
    <2>3. \A u \in User : \A i, j \in DOMAIN queue'[u] :
            queue'[u][i].write = queue'[u][j].write => i = j
      BY <1>6, <1>9, <2>2 DEF QueuesKept
    <2> QED
      BY <2>1, <2>3 DEF QueuesKept
  <1>15. IdsAreFresh'
    <2>1. PICK n \in Nat : \A u \in User : \A i \in DOMAIN queue[u] : queue[u][i].id <= n
      BY DEF IdsAreFresh
    <2>2. \A u \in User : \A i \in DOMAIN queue'[u] : queue'[u][i].id <= n + nextBatchId
      BY <1>4, <1>5, <1>6, <1>9, <2>1
    <2>3. \A i \in DOMAIN queue'[currentUser] : queue'[currentUser][i].id < nextBatchId + 1
      BY <1>1, <1>4, <1>5, <1>6, <1>7, <1>9
    <2>4. n + nextBatchId \in Nat
      BY <1>4
    <2> QED
      BY <1>1, <1>3, <2>2, <2>3, <2>4 DEF IdsAreFresh
  <1>16. InOrder'
    <2> SUFFICES ASSUME NEW v \in Write, NEW w \in Write, Earlier(v, w)',
                        Author[v] = Author[w],
                        NEW i \in DOMAIN queue'[Author[w]], queue'[Author[w]][i].write = v
                 PROVE  \E j \in DOMAIN queue'[Author[w]] :
                          i < j /\ queue'[Author[w]][j].write = w
      BY DEF InOrder
    <2>1. Author[w] \in User
      BY PipelineAssumption
    <2>2. v \in Range(issued)
      <3>1. Earlier(v, w) => v \in Range(issued)
        BY DEF Earlier, Range
      <3> QED
        BY <1>2, <3>1
    <2>3. i \in DOMAIN queue[Author[w]] /\ queue[Author[w]][i].write = v
      BY <1>2, <1>6, <1>9, <2>1, <2>2
    <2>4. CASE Earlier(v, w)
      <3>1. PICK j \in DOMAIN queue[Author[w]] : i < j /\ queue[Author[w]][j].write = w
        BY <2>3, <2>4 DEF InOrder
      <3> QED
        BY <1>8, <2>1, <3>1
    <2>5. CASE w = w0
      <3>1. i < last /\ last \in DOMAIN queue'[currentUser]
        BY <1>1, <1>2, <1>4, <2>3, <2>5 DEF last
      <3> QED
        BY <1>1, <1>2, <1>6, <2>5, <3>1
    <2> QED
      BY <1>2, <2>4, <2>5
  <1>17. OnlyIssued'
    BY <1>2, <1>3 DEF OnlyIssued
  <1>18. CallbacksMatch'
    <2>1. \A u \in User : \A i \in DOMAIN queue[u] :
            CallbackOf(u, i)' = CallbackOf(u, i)
      BY <1>8 DEF CallbackOf
    <2>2. \A u \in User : \A i \in DOMAIN queue'[u] :
            u = currentUser /\ i = last => CallbackOf(u, i)' = mine
      BY <1>1, <1>6 DEF CallbackOf
    <2>3. \A u \in User : \A i \in DOMAIN queue[u] :
            queue[u][i].write \in session' <=> queue[u][i].write \in session
      BY <1>2, <1>3 DEF QueuesKept
    <2>4. ASSUME NEW c \in callbacks'
          PROVE  \E u \in User : \E i \in DOMAIN queue'[u] :
                   queue'[u][i].write \in session' /\ c = CallbackOf(u, i)'
      <3>1. CASE c \in callbacks
        <4>1. PICK u \in User : \E i \in DOMAIN queue[u] :
                     queue[u][i].write \in session /\ c = CallbackOf(u, i)
          BY <3>1 DEF CallbacksMatch
        <4>2. PICK i \in DOMAIN queue[u] :
                     queue[u][i].write \in session /\ c = CallbackOf(u, i)
          BY <4>1
        <4> QED
          BY <1>8, <2>1, <2>3, <4>2
      <3>2. CASE c = mine
        <4>1. last \in DOMAIN queue'[currentUser]
          BY <1>1, <1>4 DEF last
        <4> QED
          BY <1>1, <1>3, <1>6, <2>2, <3>2, <4>1 DEF StoreTypes
      <3> QED
        BY <1>11, <3>1, <3>2
    <2>5. ASSUME NEW u \in User, NEW i \in DOMAIN queue'[u],
                 queue'[u][i].write \in session'
          PROVE  CallbackOf(u, i)' \in callbacks'
      <3>1. CASE i \in DOMAIN queue[u] /\ queue'[u][i] = queue[u][i]
        BY <1>11, <2>1, <2>3, <2>5, <3>1 DEF CallbacksMatch
      <3>2. CASE u = currentUser /\ i = last
        BY <1>11, <2>2, <3>2
      <3> QED
        BY <1>9, <3>1, <3>2
    <2> QED
      BY <2>4, <2>5 DEF CallbacksMatch
  <1>19. \A w \in Write \ {w0} : Settled(w)' <=> Settled(w)
    <2> SUFFICES ASSUME NEW w \in Write \ {w0}
                 PROVE  Settled(w)' <=> Settled(w)
      OBVIOUS
    <2>1. Author[w] \in User
      BY PipelineAssumption
    <2>2. w \in Range(Pending(Author[w]))' <=> w \in Range(Pending(Author[w]))
      BY <1>6, <1>8, <1>9, <2>1, PendingIs
    <2> QED
      BY <1>2, <2>2 DEF Settled
  <1>20. ~ Settled(w0)'
    <2>1. last \in DOMAIN queue'[currentUser] /\ queue'[currentUser][last].write = w0
      BY <1>1, <1>4, <1>6 DEF last
    <2> QED
      BY <1>2, <2>1, PendingIs DEF Settled
  <1>21. ToldTheTruth'
    <2>1. outcome[w0] = "none"
      BY <1>2 DEF OnlyIssued
    <2>2. \A w \in session' : Settled(w)' <=> outcome'[w] # "none"
      BY <1>2, <1>3, <1>4, <1>19, <1>20, <2>1 DEF ToldTheTruth
    <2> QED
      BY <1>3, <2>2 DEF ToldTheTruth
  <1>22. LastWriteStands'
    BY <1>2, <1>3, <1>19, <1>20 DEF LastWriteStands
  <1> QED
    BY <1>13, <1>14, <1>15, <1>16, <1>17, <1>18, <1>21, <1>22

-----------------------------------------------------------------------------
(* A write is settled *)

LEMMA TailIs ==
  ASSUME NEW S, NEW s \in Seq(S), s # << >>
  PROVE  /\ Tail(s) \in Seq(S)
         /\ Len(s) \in Nat \ {0}
         /\ DOMAIN s = 1 .. Len(s)
         /\ Len(Tail(s)) = Len(s) - 1
         /\ DOMAIN Tail(s) = 1 .. Len(s) - 1
         /\ \A i \in 1 .. Len(s) - 1 : i + 1 \in DOMAIN s /\ Tail(s)[i] = s[i + 1]
         /\ \A i \in DOMAIN s : i = 1 \/ (i - 1 \in DOMAIN Tail(s) /\ Tail(s)[i - 1] = s[i])
         /\ Head(s) = s[1] /\ s[1] \in S /\ 1 \in DOMAIN s
  OBVIOUS

(* What is at the front of the pipeline is at the front of the queue. *)
LEMMA FrontOfQueue ==
  ASSUME IInv, pipeline # << >>
  PROVE  /\ queue[currentUser] \in Seq(Batch)
         /\ queue[currentUser] # << >>
         /\ Head(pipeline) = queue[currentUser][1]
         /\ pipeline[1] = queue[currentUser][1]
  <1>1. /\ queue[currentUser] \in Seq(Batch) /\ pipeline \in Seq(Batch)
        /\ MaxPendingWrites \in Nat
    BY PipelineAssumption DEF IInv, Stored, Flowing, StoreTypes, FlowTypes
  <1>2. Len(pipeline) <= Len(queue[currentUser])
    BY <1>1, Lower DEF IInv, Flowing, Filled
  <1>3. 1 \in DOMAIN pipeline /\ Head(pipeline) = pipeline[1] /\ Len(pipeline) # 0
    BY <1>1
  <1> QED
    BY <1>1, <1>2, <1>3 DEF IInv, Flowing, Filled

(* The front of the queue is settled, with its author told. *)
Settling(verdict) ==
  /\ pipeline # << >>
  /\ NotifyUser(Head(pipeline).id, verdict)
  /\ queue' = [queue EXCEPT ![currentUser] = Without(@, Head(pipeline).id)]
  /\ UNCHANGED <<issued, session, currentUser, nextBatchId, backendVars>>

LEMMA SettlingQueues ==
  ASSUME IInv, NEW verdict, Settling(verdict)
  PROVE  /\ currentUser \in User /\ currentUser' = currentUser
         /\ queue[currentUser] \in Seq(Batch) /\ queue[currentUser] # << >>
         /\ queue' \in [User -> Seq(Batch)]
         /\ queue'[currentUser] = Tail(queue[currentUser])
         /\ \A u \in User : u # currentUser => queue'[u] = queue[u]
  <1>1. /\ queue[currentUser] \in Seq(Batch) /\ queue[currentUser] # << >>
        /\ Head(pipeline) = queue[currentUser][1]
    BY FrontOfQueue DEF Settling
  <1>2. Head(pipeline) = Head(queue[currentUser])
    BY <1>1, TailIs
  <1>3. Without(queue[currentUser], Head(pipeline).id) = Tail(queue[currentUser])
    BY <1>1, <1>2, WithoutHead
  <1>4. queue \in [User -> Seq(Batch)] /\ currentUser \in User
    BY DEF IInv, Stored, StoreTypes
  <1>5. Tail(queue[currentUser]) \in Seq(Batch)
    BY <1>1, TailIs
  <1> QED
    BY <1>1, <1>3, <1>4, <1>5 DEF Settling

LEMMA SettleStored ==
  ASSUME IInv, NEW verdict \in {"ok", "failed"}, Settling(verdict),
         verdict = "ok" => Head(pipeline).write \in applied,
         \/ Head(pipeline).write \in Refused
         \/ \A v \in applied : Earlier(v, Head(pipeline).write) /\ Author[v] = currentUser
                                 => <<v, Head(pipeline).write>> \in lastOrder
  PROVE  Stored'
  <1> DEFINE Q == queue[currentUser]
             h == Head(pipeline).write
             mine == {c \in callbacks : c.user = currentUser /\ c.id = Head(pipeline).id}
  <1> USE DEF Stored
  <1>0. Stored
    BY DEF IInv
  <1>1. /\ currentUser \in User /\ currentUser' = currentUser
        /\ Q \in Seq(Batch) /\ Q # << >>
        /\ queue' \in [User -> Seq(Batch)]
        /\ queue'[currentUser] = Tail(Q)
        /\ \A u \in User : u # currentUser => queue'[u] = queue[u]
    BY SettlingQueues
  <1>2. /\ issued' = issued /\ session' = session /\ nextBatchId' = nextBatchId
        /\ applied' = applied /\ lastOrder' = lastOrder
        /\ callbacks' = callbacks \ mine
        /\ outcome' = [w \in Write |-> IF \E c \in mine : c.write = w THEN verdict
                                       ELSE outcome[w]]
    BY DEF Settling, NotifyUser, backendVars
  <1>3. Head(pipeline) = Q[1] /\ 1 \in DOMAIN Q /\ h = Q[1].write /\ Head(pipeline).id = Q[1].id
    BY <1>1, FrontOfQueue, TailIs DEF Settling
  <1>4. /\ \A u \in User : queue[u] \in Seq(Batch) /\ Sorted(queue[u])
        /\ session \subseteq Range(issued) /\ Range(issued) \subseteq Write
        /\ outcome \in [Write -> {"none", "ok", "failed"}]
        /\ nextBatchId \in Nat \ {0}
        /\ callbacks \subseteq Callback
    BY <1>0 DEF StoreTypes, Range
  <1>5. \A u \in User : \A i \in DOMAIN queue[u] :
          queue[u][i].id \in Nat /\ queue[u][i].write \in Write
    <2>1. \A u \in User : \A i \in DOMAIN queue[u] : queue[u][i] \in Batch
      BY <1>4
    <2> QED
      BY <2>1 DEF Batch
  <1>6. h \in Write /\ h \in Range(issued) /\ Author[h] = currentUser
    BY <1>0, <1>1, <1>3, <1>5 DEF QueuesKept
  <1> HIDE DEF h, mine
  (* What is still queued was queued, in the same order, and is not h. *)
  <1>7. \A i \in DOMAIN Q : i # 1 => Q[i].write # h /\ Q[i].id # Q[1].id
    <2>1. \A i \in DOMAIN Q : i # 1 => 1 < i
      BY <1>1
    <2>2. \A i \in DOMAIN Q : i # 1 => Q[1].id < Q[i].id
      BY <1>1, <1>3, <1>4, <2>1 DEF Sorted
    <2>3. \A i \in DOMAIN Q : i # 1 => Q[i].id # Q[1].id
      BY <1>1, <1>3, <1>5, <2>2
    <2> QED
      BY <1>0, <1>1, <1>3, <2>3 DEF QueuesKept
  <1>8. \A u \in User : \A i \in DOMAIN queue'[u] :
          \E k \in DOMAIN queue[u] :
            /\ queue'[u][i] = queue[u][k]
            /\ k = (IF u = currentUser THEN i + 1 ELSE i)
            /\ ~ (u = currentUser /\ k = 1)
            /\ queue[u][k].write # h
    <2> SUFFICES ASSUME NEW u \in User, NEW i \in DOMAIN queue'[u]
                 PROVE  \E k \in DOMAIN queue[u] :
                          /\ queue'[u][i] = queue[u][k]
                          /\ k = (IF u = currentUser THEN i + 1 ELSE i)
                          /\ ~ (u = currentUser /\ k = 1)
                          /\ queue[u][k].write # h
      OBVIOUS
    <2>1. CASE u = currentUser
      <3>1. i + 1 \in DOMAIN Q /\ Tail(Q)[i] = Q[i + 1] /\ i + 1 # 1
        BY <1>1, <2>1, TailIs
      <3> QED
        BY <1>1, <1>7, <2>1, <3>1
    <2>2. CASE u # currentUser
      BY <1>0, <1>1, <1>6, <2>2 DEF QueuesKept
    <2> QED
      BY <2>1, <2>2
  <1>9. \A u \in User : \A k \in DOMAIN queue[u] :
          \/ u = currentUser /\ k = 1
          \/ \E i \in DOMAIN queue'[u] :
               /\ queue'[u][i] = queue[u][k]
               /\ k = (IF u = currentUser THEN i + 1 ELSE i)
    <2> SUFFICES ASSUME NEW u \in User, NEW k \in DOMAIN queue[u], ~ (u = currentUser /\ k = 1)
                 PROVE  \E i \in DOMAIN queue'[u] :
                          /\ queue'[u][i] = queue[u][k]
                          /\ k = (IF u = currentUser THEN i + 1 ELSE i)
      OBVIOUS
    <2>1. CASE u = currentUser
      <3>1. k - 1 \in DOMAIN Tail(Q) /\ Tail(Q)[k - 1] = Q[k] /\ k = (k - 1) + 1
        BY <1>1, <2>1, TailIs
      <3> QED
        BY <1>1, <2>1, <3>1
    <2>2. CASE u # currentUser
      BY <1>1, <2>2
    <2> QED
      BY <2>1, <2>2
  (* The callback of h, if there is one, is the one that is called. *)
  <1>10. \A c \in mine : c = CallbackOf(currentUser, 1) /\ c.write = h /\ h \in session
    <2> SUFFICES ASSUME NEW c \in mine
                 PROVE  c = CallbackOf(currentUser, 1) /\ c.write = h /\ h \in session
      OBVIOUS
    <2>0. c \in callbacks /\ c.user = currentUser /\ c.id = Q[1].id
      BY <1>3 DEF mine
    <2>1. PICK u \in User : \E i \in DOMAIN queue[u] :
                 queue[u][i].write \in session /\ c = CallbackOf(u, i)
      BY <1>0, <2>0 DEF CallbacksMatch
    <2>2. PICK i \in DOMAIN queue[u] :
                 queue[u][i].write \in session /\ c = CallbackOf(u, i)
      BY <2>1
    <2>3. u = currentUser /\ i = 1
      BY <1>7, <2>0, <2>2 DEF CallbackOf
    <2> QED
      BY <1>3, <2>2, <2>3 DEF CallbackOf, h
  <1>11. h \in session => CallbackOf(currentUser, 1) \in mine
    BY <1>0, <1>1, <1>3 DEF CallbacksMatch, CallbackOf, mine, h
  <1>12. \A w \in Write : outcome'[w] = IF w = h /\ h \in session THEN verdict ELSE outcome[w]
    <2>1. \A w \in Write : (\E c \in mine : c.write = w) <=> w = h /\ h \in session
      BY <1>10, <1>11
    <2> QED
      BY <1>2, <2>1
  <1>13. StoreTypes'
    <2>1. \A u \in User : Sorted(queue[u])'
      <3> SUFFICES ASSUME NEW u \in User, NEW i \in DOMAIN queue'[u], NEW j \in DOMAIN queue'[u],
                          i < j
                   PROVE  queue'[u][i].id < queue'[u][j].id
        BY DEF Sorted
      <3>1. i \in Int /\ j \in Int
        BY <1>1
      <3>2. PICK k \in DOMAIN queue[u] :
              queue'[u][i] = queue[u][k] /\ k = (IF u = currentUser THEN i + 1 ELSE i)
        BY <1>8
      <3>3. PICK m \in DOMAIN queue[u] :
              queue'[u][j] = queue[u][m] /\ m = (IF u = currentUser THEN j + 1 ELSE j)
        BY <1>8
      <3>4. k < m
        BY <3>1, <3>2, <3>3
      <3> QED
        BY <1>4, <3>2, <3>3, <3>4 DEF Sorted
    <2>2. outcome' \in [Write -> {"none", "ok", "failed"}]
      BY <1>2, <1>4
    <2> QED
      BY <1>0, <1>1, <1>2, <1>4, <2>1, <2>2 DEF StoreTypes
  <1>14. QueuesKept'
    <2>1. \A u \in User : \A i \in DOMAIN queue'[u] :
            Author[queue'[u][i].write] = u /\ queue'[u][i].write \in Range(issued)'
      BY <1>0, <1>2, <1>8 DEF QueuesKept
    <2>2. ASSUME NEW u \in User, NEW i \in DOMAIN queue'[u], NEW j \in DOMAIN queue'[u],
                 queue'[u][i].write = queue'[u][j].write
          PROVE  i = j
      <3>1. i \in Int /\ j \in Int
        BY <1>1
      <3>2. PICK k \in DOMAIN queue[u] :
              queue'[u][i] = queue[u][k] /\ k = (IF u = currentUser THEN i + 1 ELSE i)
        BY <1>8
      <3>3. PICK m \in DOMAIN queue[u] :
              queue'[u][j] = queue[u][m] /\ m = (IF u = currentUser THEN j + 1 ELSE j)
        BY <1>8
      <3>4. k = m
        BY <1>0, <2>2, <3>2, <3>3 DEF QueuesKept
      <3> QED
        BY <3>1, <3>2, <3>3, <3>4
    <2> QED
      BY <2>1, <2>2 DEF QueuesKept
  <1>15. IdsAreFresh'
    <2>1. PICK n \in Nat : \A u \in User : \A i \in DOMAIN queue[u] : queue[u][i].id <= n
      BY <1>0 DEF IdsAreFresh
    <2>2. \A u \in User : \A i \in DOMAIN queue'[u] : queue'[u][i].id <= n
      BY <1>8, <2>1
    <2>3. \A i \in DOMAIN queue'[currentUser] : queue'[currentUser][i].id < nextBatchId
      BY <1>0, <1>1, <1>8 DEF IdsAreFresh
    <2> QED
      BY <1>1, <1>2, <2>2, <2>3 DEF IdsAreFresh
  <1>16. \A v, w : Earlier(v, w)' <=> Earlier(v, w)
    BY <1>2 DEF Earlier
  <1>17. InOrder'
    <2> SUFFICES ASSUME NEW v \in Write, NEW w \in Write, Earlier(v, w),
                        Author[v] = Author[w],
                        NEW i \in DOMAIN queue'[Author[w]], queue'[Author[w]][i].write = v
                 PROVE  \E j \in DOMAIN queue'[Author[w]] :
                          i < j /\ queue'[Author[w]][j].write = w
      BY <1>16 DEF InOrder
    <2> DEFINE u == Author[w]
    <2>1. u \in User
      BY PipelineAssumption
    <2>2. PICK k \in DOMAIN queue[u] :
            queue'[u][i] = queue[u][k] /\ k = (IF u = currentUser THEN i + 1 ELSE i)
      BY <1>8, <2>1
    <2>3. PICK m \in DOMAIN queue[u] : k < m /\ queue[u][m].write = w
      BY <1>0, <2>2 DEF InOrder
    <2>4. i \in Nat \ {0} /\ k \in Nat \ {0} /\ m \in Nat \ {0}
      BY <1>1, <1>4, <2>1
    <2>5. ~ (u = currentUser /\ m = 1)
      BY <2>3, <2>4
    <2>6. PICK j \in DOMAIN queue'[u] :
            queue'[u][j] = queue[u][m] /\ m = (IF u = currentUser THEN j + 1 ELSE j)
      BY <1>9, <2>1, <2>5
    <2>7. j \in Int
      BY <1>1, <2>1
    <2> QED
      BY <2>2, <2>3, <2>4, <2>6, <2>7
  <1>18. OnlyIssued'
    BY <1>0, <1>2, <1>6, <1>12 DEF OnlyIssued
  <1>19. CallbacksMatch'
    <2>1. ASSUME NEW u \in User, NEW i \in DOMAIN queue'[u], NEW k \in DOMAIN queue[u],
                 queue'[u][i] = queue[u][k]
          PROVE  CallbackOf(u, i)' = CallbackOf(u, k)
      BY <2>1 DEF CallbackOf
    <2>2. ASSUME NEW c \in callbacks'
          PROVE  \E u \in User : \E i \in DOMAIN queue'[u] :
                   queue'[u][i].write \in session' /\ c = CallbackOf(u, i)'
      <3>1. c \in callbacks /\ c \notin mine
        BY <1>2
      <3>2. PICK u \in User : \E k \in DOMAIN queue[u] :
                   queue[u][k].write \in session /\ c = CallbackOf(u, k)
        BY <1>0, <3>1 DEF CallbacksMatch
      <3>3. PICK k \in DOMAIN queue[u] :
                   queue[u][k].write \in session /\ c = CallbackOf(u, k)
        BY <3>2
      <3>4. ~ (u = currentUser /\ k = 1)
        BY <1>3, <3>1, <3>3 DEF mine, CallbackOf
      <3>5. PICK i \in DOMAIN queue'[u] : queue'[u][i] = queue[u][k]
        BY <1>9, <3>4
      <3> QED
        BY <1>2, <2>1, <3>3, <3>5
    <2>3. ASSUME NEW u \in User, NEW i \in DOMAIN queue'[u],
                 queue'[u][i].write \in session'
          PROVE  CallbackOf(u, i)' \in callbacks'
      <3>1. PICK k \in DOMAIN queue[u] : queue'[u][i] = queue[u][k] /\ queue[u][k].write # h
        BY <1>8
      <3>2. CallbackOf(u, k) \in callbacks
        BY <1>0, <1>2, <2>3, <3>1 DEF CallbacksMatch
      <3>3. CallbackOf(u, k).write = queue[u][k].write
        BY DEF CallbackOf
      <3>4. CallbackOf(u, k) \notin mine
        BY <1>10, <3>1, <3>3
      <3> QED
        BY <1>2, <2>1, <3>1, <3>2, <3>4
    <2> QED
      BY <2>2, <2>3 DEF CallbacksMatch
  <1>20. \A w \in Write : Settled(w)' <=> Settled(w) \/ w = h
    <2> SUFFICES ASSUME NEW w \in Write
                 PROVE  Settled(w)' <=> Settled(w) \/ w = h
      OBVIOUS
    <2>1. Author[w] \in User
      BY PipelineAssumption
    <2>2. CASE w = h
      <3>1. \A i \in DOMAIN queue'[Author[w]] : queue'[Author[w]][i].write # w
        BY <1>8, <2>1, <2>2
      <3> QED
        BY <1>2, <1>6, <2>2, <3>1, PendingIs DEF Settled
    <2>3. CASE w # h
      <3>1. w \in Range(Pending(Author[w]))' <=> w \in Range(Pending(Author[w]))
        BY <1>3, <1>8, <1>9, <2>1, <2>3, PendingIs
      <3> QED
        BY <1>2, <2>3, <3>1 DEF Settled
    <2> QED
      BY <2>2, <2>3
  <1>21. ToldTheTruth'
    <2>1. \A w \in session' : Settled(w)' <=> outcome'[w] # "none"
      BY <1>0, <1>2, <1>4, <1>12, <1>20 DEF ToldTheTruth
    <2>2. \A w \in Write : outcome'[w] = "ok" => w \in applied
      BY <1>0, <1>12 DEF ToldTheTruth, h
    <2> QED
      BY <1>2, <2>1, <2>2 DEF ToldTheTruth
  <1>22. LastWriteStands'
    <2> SUFFICES ASSUME NEW v \in Write, NEW w \in Write,
                        Earlier(v, w), Author[v] = Author[w],
                        v \in applied, w \in applied, Settled(w)'
                 PROVE  <<v, w>> \in lastOrder
      BY <1>2, <1>16 DEF LastWriteStands
    <2>1. CASE Settled(w)
      BY <1>0, <2>1 DEF LastWriteStands
    <2>2. CASE w = h
      BY <1>0, <1>6, <2>2 DEF OnlyIssued, h
    <2> QED
      BY <1>20, <2>1, <2>2
  <1> QED
    BY <1>13, <1>14, <1>15, <1>17, <1>18, <1>19, <1>21, <1>22

-----------------------------------------------------------------------------
(* The other steps, as far as the store and the backend go *)

LEMMA SameStored ==
  ASSUME Stored, UNCHANGED storeVars, UNCHANGED backendVars
  PROVE  Stored'
  <1> USE DEF storeVars, backendVars
  <1>1. StoreTypes' /\ QueuesKept' /\ IdsAreFresh' /\ OnlyIssued'
    BY DEF Stored, StoreTypes, QueuesKept, IdsAreFresh, OnlyIssued
  <1>2. \A v, w : Earlier(v, w)' <=> Earlier(v, w)
    BY DEF Earlier
  <1>3. \A w : Settled(w)' <=> Settled(w)
    BY DEF Settled, Pending
  <1>4. InOrder' /\ LastWriteStands' /\ ToldTheTruth'
    BY <1>2, <1>3 DEF Stored, InOrder, LastWriteStands, ToldTheTruth
  <1>5. CallbacksMatch'
    BY DEF Stored, CallbacksMatch, CallbackOf
  <1> QED
    BY <1>1, <1>4, <1>5 DEF Stored

(* A pending write is applied, perhaps not for the first time. *)
LEMMA ApplyStored ==
  ASSUME Stored, UNCHANGED storeVars,
         NEW u \in User, NEW i \in DOMAIN queue[u],
         queue[u][i].write \notin Refused, Apply(queue[u][i].write)
  PROVE  Stored'
  <1> USE DEF storeVars
  <1> DEFINE x == queue[u][i].write
  <1>1. x \in Write /\ x \in Range(issued) /\ Author[x] = u /\ x \notin Refused
    <2>1. queue[u] \in Seq(Batch)
      BY DEF Stored, StoreTypes
    <2>2. queue[u][i] \in Batch
      BY <2>1
    <2> QED
      BY <2>2 DEF Stored, QueuesKept, Batch
  <1>2. /\ applied' = applied \cup {x}
        /\ lastOrder' = {pair \in lastOrder : x \notin {pair[1], pair[2]}}
                        \cup {<<v, x>> : v \in applied \ {x}}
    BY DEF Apply
  <1>3. ~ Settled(x)
    BY <1>1, PendingIs DEF Settled
  <1>4. \A w \in Write : Earlier(x, w) /\ Author[x] = Author[w] => ~ Settled(w)
    <2> SUFFICES ASSUME NEW w \in Write, Earlier(x, w), Author[x] = Author[w]
                 PROVE  ~ Settled(w)
      OBVIOUS
    <2>1. i \in DOMAIN queue[Author[w]] /\ queue[Author[w]][i].write = x
      BY <1>1
    <2>2. \E j \in DOMAIN queue[Author[w]] : queue[Author[w]][j].write = w
      <3> HIDE DEF x
      <3>1. \A k \in DOMAIN queue[Author[w]] : queue[Author[w]][k].write = x =>
              \E j \in DOMAIN queue[Author[w]] : k < j /\ queue[Author[w]][j].write = w
        BY <1>1 DEF Stored, InOrder
      <3> QED
        BY <2>1, <3>1
    <2> QED
      BY <2>2, PendingIs DEF Settled
  <1> HIDE DEF x
  <1>5. StoreTypes'
    <2>1. applied \subseteq Write /\ lastOrder \subseteq applied \X applied
      BY DEF Stored, StoreTypes
    <2>2. applied' \subseteq Write /\ lastOrder' \subseteq applied' \X applied'
      BY <1>1, <1>2, <2>1
    <2> QED
      BY <2>2 DEF Stored, StoreTypes
  <1>6. QueuesKept' /\ IdsAreFresh' /\ OnlyIssued'
    BY <1>1, <1>2 DEF Stored, QueuesKept, IdsAreFresh, OnlyIssued
  <1>7. \A v, w : Earlier(v, w)' <=> Earlier(v, w)
    BY DEF Earlier
  <1>8. \A w : Settled(w)' <=> Settled(w)
    BY DEF Settled, Pending
  <1>9. InOrder' /\ ToldTheTruth'
    BY <1>2, <1>7, <1>8 DEF Stored, InOrder, ToldTheTruth
  <1>10. LastWriteStands'
    <2> SUFFICES ASSUME NEW v \in Write, NEW w \in Write,
                        Earlier(v, w), Author[v] = Author[w],
                        v \in applied', w \in applied', Settled(w)
                 PROVE  <<v, w>> \in lastOrder'
      BY <1>7, <1>8 DEF LastWriteStands
    <2>1. v # x /\ w # x
      BY <1>3, <1>4
    <2>2. <<v, w>> \in lastOrder
      BY <1>2, <2>1 DEF Stored, LastWriteStands
    <2> QED
      BY <1>2, <2>1, <2>2
  <1>11. CallbacksMatch'
    BY DEF Stored, CallbacksMatch, CallbackOf
  <1> QED
    BY <1>5, <1>6, <1>9, <1>10, <1>11 DEF Stored

(* The queue of a user is started with an id no stored batch has. *)
LEMMA IdsFromDb ==
  ASSUME StoreTypes, IdsAreFresh
  PROVE  /\ LoadNextBatchIdFromDb(queue) \in Nat \ {0}
         /\ \A u \in User : \A i \in DOMAIN queue[u] :
              queue[u][i].id < LoadNextBatchIdFromDb(queue)
  <1> DEFINE Ids == {0} \cup UNION {{batch.id : batch \in Range(queue[u])} : u \in User}
  <1>1. \A u \in User : \A i \in DOMAIN queue[u] : queue[u][i].id \in Nat
    <2>1. \A u \in User : \A i \in DOMAIN queue[u] : queue[u][i] \in Batch
      BY DEF StoreTypes
    <2> QED
      BY <2>1 DEF Batch
  <1>2. PICK n \in Nat : \A u \in User : \A i \in DOMAIN queue[u] : queue[u][i].id <= n
    BY DEF IdsAreFresh
  <1>3. \A id \in Ids : id = 0 \/ \E u \in User : \E i \in DOMAIN queue[u] : id = queue[u][i].id
    BY DEF Range
  <1>4. \A u \in User : \A i \in DOMAIN queue[u] : queue[u][i].id \in Ids
    BY DEF Range
  <1>5. Ids \in SUBSET Nat /\ Ids # {} /\ \A id \in Ids : id <= n
    <2>1. 0 \in Ids
      OBVIOUS
    <2> HIDE DEF Ids
    <2>2. \A id \in Ids : id \in Nat /\ id <= n
      BY <1>1, <1>2, <1>3
    <2> QED
      BY <2>1, <2>2
  <1>6. LoadNextBatchIdFromDb(queue) = 1 + Max(Ids)
    BY DEF LoadNextBatchIdFromDb
  <1> HIDE DEF Ids
  <1>7. Max(Ids) \in Nat /\ \A id \in Ids : id <= Max(Ids)
    BY <1>5, Greatest
  <1> QED
    BY <1>1, <1>4, <1>6, <1>7

LEMMA ChangeUserStored ==
  ASSUME Stored, NEW user \in User, ChangeUser(user)
  PROVE  Stored'
  <1>1. /\ currentUser' = user /\ nextBatchId' = LoadNextBatchIdFromDb(queue)
        /\ queue' = queue /\ issued' = issued /\ session' = session
        /\ outcome' = outcome /\ callbacks' = callbacks
        /\ applied' = applied /\ lastOrder' = lastOrder
    BY DEF ChangeUser, Restart, backendVars
  <1>2. /\ nextBatchId' \in Nat \ {0}
        /\ \A u \in User : \A i \in DOMAIN queue[u] : queue[u][i].id < nextBatchId'
    BY <1>1, IdsFromDb DEF Stored
  <1>3. StoreTypes' /\ QueuesKept' /\ IdsAreFresh' /\ OnlyIssued'
    BY <1>1, <1>2 DEF Stored, StoreTypes, QueuesKept, IdsAreFresh, OnlyIssued
  <1>4. \A v, w : Earlier(v, w)' <=> Earlier(v, w)
    BY <1>1 DEF Earlier
  <1>5. \A w : Settled(w)' <=> Settled(w)
    BY <1>1 DEF Settled, Pending
  <1>6. InOrder' /\ LastWriteStands' /\ ToldTheTruth'
    BY <1>1, <1>4, <1>5 DEF Stored, InOrder, LastWriteStands, ToldTheTruth
  <1>7. CallbacksMatch'
    BY <1>1 DEF Stored, CallbacksMatch, CallbackOf
  <1> QED
    BY <1>3, <1>6, <1>7 DEF Stored

LEMMA RelaunchStored ==
  ASSUME IInv, Relaunch
  PROVE  Stored'
  <1> USE DEF IInv
  <1>1. /\ currentUser' = currentUser /\ nextBatchId' = LoadNextBatchIdFromDb(queue)
        /\ queue' = queue /\ issued' = issued /\ session' = {} /\ callbacks' = {}
        /\ applied' = applied /\ lastOrder' = lastOrder
    BY DEF Relaunch, Restart, backendVars
  <1>2. /\ nextBatchId' \in Nat \ {0}
        /\ \A u \in User : \A i \in DOMAIN queue[u] : queue[u][i].id < nextBatchId'
    BY <1>1, IdsFromDb DEF Stored
  <1>3. /\ outcome \in [Write -> {"none", "ok", "failed"}]
        /\ applied \subseteq Range(issued)
        /\ currentUser \in User
    BY DEF Stored, StoreTypes, OnlyIssued
  (* A callback that was called last knew of a write that is applied. *)
  <1>4. /\ outcome' \in [Write -> {"none", "ok", "failed"}]
        /\ \A w \in Write : outcome'[w] = outcome[w] \/ (outcome'[w] = "ok" /\ w \in applied)
    <2>1. CASE outcome' = outcome
      BY <1>3, <2>1
    <2>2. CASE /\ handshake /\ responses # << >>
               /\ \E c \in callbacks :
                    /\ c.user = currentUser /\ c.id = Head(pipeline).id
                    /\ outcome' = [outcome EXCEPT ![c.write] = "ok"]
      <3>1. PICK c \in callbacks : /\ c.user = currentUser /\ c.id = Head(pipeline).id
                                   /\ outcome' = [outcome EXCEPT ![c.write] = "ok"]
        BY <2>2
      <3>2. /\ pipeline \in Seq(Batch) /\ responses \in Seq(Batch \cup {Handshake})
            /\ requests \in Seq(Batch \cup {Handshake})
        BY DEF Flowing, FlowTypes
      <3>3. Len(responses) + Len(requests) <= Len(pipeline)
        BY <2>2 DEF Flowing, AnswersFirst, Answering
      <3>4. 1 \in DOMAIN pipeline /\ 1 <= Len(responses) /\ pipeline # << >>
        BY <2>2, <3>2, <3>3
      <3>5. pipeline[1].write \in applied
        BY <2>2, <3>4 DEF Flowing, AnswersFirst, Answering
      <3>6. Head(pipeline) = queue[currentUser][1] /\ queue[currentUser] \in Seq(Batch)
            /\ pipeline[1] = queue[currentUser][1] /\ queue[currentUser] # << >>
        BY <3>4, FrontOfQueue
      <3>7. PICK u \in User : \E i \in DOMAIN queue[u] : c = CallbackOf(u, i)
        BY DEF Stored, CallbacksMatch
      <3>8. PICK i \in DOMAIN queue[u] : c = CallbackOf(u, i)
        BY <3>7
      <3>9. u = currentUser /\ queue[currentUser][i].id = queue[currentUser][1].id
        BY <3>1, <3>6, <3>8 DEF CallbackOf
      <3>10. i = 1
        <4>1. 1 \in DOMAIN queue[currentUser] /\ i \in DOMAIN queue[currentUser]
              /\ (i = 1 \/ 1 < i)
          BY <3>6, <3>8, <3>9
        <4>2. 1 < i => queue[currentUser][1].id < queue[currentUser][i].id
          BY <4>1 DEF Stored, StoreTypes, Sorted
        <4>3. queue[currentUser][1] \in Batch
          BY <3>6
        <4> QED
          BY <3>9, <4>1, <4>2, <4>3 DEF Batch
      <3>11. c.write \in applied
        BY <3>5, <3>6, <3>8, <3>9, <3>10 DEF CallbackOf
      <3> QED
        BY <1>3, <3>1, <3>11
    <2> QED
      BY <2>1, <2>2 DEF Relaunch
  <1>5. StoreTypes' /\ QueuesKept' /\ IdsAreFresh' /\ OnlyIssued'
    BY <1>1, <1>2, <1>3, <1>4 DEF Stored, StoreTypes, QueuesKept, IdsAreFresh, OnlyIssued
  <1>6. \A v, w : Earlier(v, w)' <=> Earlier(v, w)
    BY <1>1 DEF Earlier
  <1>7. \A w : Settled(w)' <=> Settled(w)
    BY <1>1 DEF Settled, Pending
  <1>8. InOrder' /\ LastWriteStands'
    BY <1>1, <1>6, <1>7 DEF Stored, InOrder, LastWriteStands
  <1>9. ToldTheTruth' /\ CallbacksMatch'
    BY <1>1, <1>4 DEF Stored, ToldTheTruth, CallbacksMatch
  <1> QED
    BY <1>5, <1>8, <1>9 DEF Stored

-----------------------------------------------------------------------------
(* Filling the pipeline *)

LEMMA Starting ==
  ASSUME NEW pipe, NEW state \in StreamStates
  PROVE  /\ StartedFor(pipe, state) \in StreamStates
         /\ StartedFor(pipe, state) = "open" <=> state = "open"
  BY DEF StartedFor, Started, StreamStates

(* What is added to the pipeline is sent behind what has been sent. *)
Extended(pipe, sent, pipe2, sent2) ==
  /\ Len(pipe) <= Len(pipe2)
  /\ \A i \in DOMAIN pipe : pipe2[i] = pipe[i]
  /\ Len(sent2) + Len(pipe) = Len(sent) + Len(pipe2)
  /\ \A i \in 1 .. Len(sent) : sent2[i] = sent[i]
  /\ \A i \in Len(sent) + 1 .. Len(sent2) : sent2[i] = pipe2[Len(pipe) + i - Len(sent)]

(* FillWritePipeline leaves as much of the queue in the pipeline as there is *)
(* room for, and sends on a stream that is ready what it adds.               *)
FilledFrom(pipe, state, sent, idle, Q) ==
  /\ pipeline' \in Seq(Batch) /\ Len(pipeline') <= MaxPendingWrites
  /\ Filled'
  /\ (pipeline' = << >> <=> Q = << >>)
  /\ Len(pipe) <= Len(pipeline')
  /\ \A i \in DOMAIN pipe : pipeline'[i] = pipe[i]
  /\ requests' \in Seq(Batch \cup {Handshake})
  /\ (~ (state = "open" /\ handshake') => requests' = sent)
  /\ (state = "open" /\ handshake' => Extended(pipe, sent, pipeline', requests'))
  /\ idleTimer' \in BOOLEAN
  /\ (idleTimer' =>
        \/ pipeline' = << >> /\ state = "open"
        \/ idle /\ ~ (state = "open" /\ handshake' /\ Len(pipe) < Len(pipeline')))
  /\ stream' \in StreamStates
  /\ (stream' = "open" <=> state = "open")

LEMMA Filling ==
  ASSUME NEW pipe \in Seq(Batch), NEW state \in StreamStates,
         NEW sent \in Seq(Batch \cup {Handshake}), NEW idle \in BOOLEAN,
         FillWritePipeline(pipe, state, sent, idle),
         StoreTypes',
         Len(pipe) <= MaxPendingWrites,
         NEW Q, Q = queue'[currentUser'], Len(pipe) <= Len(Q),
         \A i \in DOMAIN pipe : pipe[i] = Q[i]
  PROVE  FilledFrom(pipe, state, sent, idle, Q)
  <1> DEFINE added == NextBatches(Q, LastId(pipe), MaxPendingWrites - Len(pipe))
             top == Min({MaxPendingWrites, Len(Q)})
  <1>1. Q \in Seq(Batch) /\ Sorted(Q)
    BY DEF StoreTypes
  <1>2. /\ pipeline' = pipe \o added
        /\ requests' = IF state = "open" /\ handshake' THEN sent \o added ELSE sent
        /\ stream' = StartedFor(pipe \o added, state)
    BY DEF FillWritePipeline
  <1>3. idleTimer' = IF pipe \o added = << >> THEN state = "open"
                     ELSE idle /\ ~ ((state = "open" /\ handshake') /\ added # << >>)
    BY DEF FillWritePipeline
  <1>4. added = SubSeq(Q, Len(pipe) + 1, top)
    BY <1>1, NextInLine, PipelineAssumption
  <1>5. /\ top \in Nat /\ Len(pipe) \in Nat /\ Len(Q) \in Nat /\ Len(sent) \in Nat
        /\ Len(pipe) <= top /\ top <= Len(Q) /\ top <= MaxPendingWrites
        /\ (top = 0 <=> Len(Q) = 0)
    <2>1. /\ Len(pipe) \in Nat /\ Len(Q) \in Nat /\ Len(sent) \in Nat
          /\ MaxPendingWrites \in Nat \ {0}
      BY <1>1, PipelineAssumption
    <2>2. top = IF MaxPendingWrites <= Len(Q) THEN MaxPendingWrites ELSE Len(Q)
      BY <2>1, Lower
    <2> HIDE DEF top
    <2> QED
      BY <2>1, <2>2
  <1> HIDE DEF added, top
  <1>6. /\ added \in Seq(Batch) /\ Len(added) + Len(pipe) = top
        /\ pipe \o added \in Seq(Batch)
        /\ Len(pipe \o added) = top
        /\ \A i \in 1 .. Len(pipe) : (pipe \o added)[i] = pipe[i]
        /\ \A i \in Len(pipe) + 1 .. top : (pipe \o added)[i] = Q[i]
    <2>0. Joined(Batch, pipe, Q, Len(pipe), top, added)
      BY <1>1, <1>4, <1>5, Joining
    <2>1. /\ added \in Seq(Batch) /\ Len(added) + Len(pipe) = top
          /\ pipe \o added \in Seq(Batch)
          /\ Len(pipe \o added) + Len(pipe) = Len(pipe) + top
          /\ \A i \in 1 .. Len(pipe) : (pipe \o added)[i] = pipe[i]
          /\ \A i \in Len(pipe) + 1 .. Len(pipe \o added) :
               (pipe \o added)[i] = Q[Len(pipe) + i - Len(pipe)]
      BY <2>0 DEF Joined
    <2>2. \A i \in Int : Len(pipe) + i - Len(pipe) = i
      BY <1>5
    <2>3. Len(pipe \o added) = top
      BY <1>5, <2>1
    <2>4. \A i \in Len(pipe) + 1 .. top : i \in Int
      BY <1>5
    <2> QED
      BY <2>1, <2>2, <2>3, <2>4
  <1>7. /\ sent \o added \in Seq(Batch \cup {Handshake})
        /\ Len(sent \o added) + Len(pipe) = Len(sent) + top
        /\ \A i \in 1 .. Len(sent) : (sent \o added)[i] = sent[i]
        /\ \A i \in Len(sent) + 1 .. Len(sent \o added) :
             (sent \o added)[i] = Q[Len(pipe) + i - Len(sent)]
    <2>1. Q \in Seq(Batch \cup {Handshake})
      BY <1>1
    <2>2. Joined(Batch \cup {Handshake}, sent, Q, Len(pipe), top, added)
      BY <1>4, <1>5, <2>1, Joining
    <2> QED
      BY <2>2 DEF Joined
  <1>8. pipeline' \in Seq(Batch) /\ Len(pipeline') = top
        /\ (pipeline' = << >> <=> Q = << >>)
    BY <1>1, <1>2, <1>5, <1>6
  <1>9. \A i \in 1 .. top : pipeline'[i] = Q[i]
    BY <1>2, <1>5, <1>6
  <1>10. Filled'
    <2>1. DOMAIN pipeline' = 1 .. top
      BY <1>8
    <2>2. Len(pipeline') = Min({MaxPendingWrites, Len(queue'[currentUser'])})
      BY <1>8 DEF top
    <2> QED
      BY <1>9, <2>1, <2>2 DEF Filled
  <1>11. \A i \in DOMAIN pipe : pipeline'[i] = pipe[i]
    BY <1>2, <1>6
  <1>16. state = "open" /\ handshake' => Extended(pipe, sent, pipeline', requests')
    <2> SUFFICES ASSUME state = "open" /\ handshake'
                 PROVE  Extended(pipe, sent, pipeline', requests')
      OBVIOUS
    <2>1. requests' = sent \o added
      BY <1>2
    <2>2. Len(requests') \in Nat /\ Len(requests') + Len(pipe) = Len(sent) + top
      BY <1>7, <2>1
    <2>3. \A i \in Len(sent) + 1 .. Len(requests') :
            Len(pipe) + i - Len(sent) \in 1 .. top
      BY <1>5, <2>2
    <2>4. \A i \in Len(sent) + 1 .. Len(requests') :
            requests'[i] = pipeline'[Len(pipe) + i - Len(sent)]
      BY <1>7, <1>9, <2>1, <2>3
    <2>5. \A i \in 1 .. Len(sent) : requests'[i] = sent[i]
      BY <1>7, <2>1
    <2> QED
      BY <1>5, <1>8, <1>11, <2>2, <2>4, <2>5 DEF Extended
  <1>12. requests' \in Seq(Batch \cup {Handshake})
    BY <1>2, <1>7
  <1>13. idleTimer' \in BOOLEAN
    BY <1>3
  <1>14. idleTimer' =>
              \/ pipeline' = << >> /\ state = "open"
              \/ idle /\ ~ (state = "open" /\ handshake' /\ Len(pipe) < Len(pipeline'))
    <2>1. Len(pipe) < Len(pipeline') => added # << >>
      BY <1>5, <1>6, <1>8
    <2> QED
      BY <1>2, <1>3, <2>1
  <1>15. stream' \in StreamStates /\ (stream' = "open" <=> state = "open")
    BY <1>2, Starting
  <1> QED
    BY <1>2, <1>5, <1>8, <1>10, <1>11, <1>12, <1>13, <1>14, <1>15, <1>16 DEF FilledFrom

(* Batches that follow in the pipeline follow among those sent. *)
LEMMA AnsweringFilled ==
  ASSUME NEW pipe \in Seq(Batch), NEW pipe2 \in Seq(Batch), NEW read \in Seq(Batch \cup {Handshake}),
         NEW sent \in Seq(Batch \cup {Handshake}), NEW sent2 \in Seq(Batch \cup {Handshake}),
         NEW state, NEW done,
         Answering(pipe, read, sent, state, done),
         Extended(pipe, sent, pipe2, sent2)
  PROVE  Answering(pipe2, read, sent2, state, done)
  <1>1. /\ Len(pipe) \in Nat /\ Len(pipe2) \in Nat /\ Len(read) \in Nat
        /\ Len(sent) \in Nat /\ Len(sent2) \in Nat
        /\ Len(read) + Len(sent) <= Len(pipe)
        /\ Len(pipe) <= Len(pipe2)
        /\ Len(sent2) + Len(pipe) = Len(sent) + Len(pipe2)
    BY DEF Answering, Extended
  <1>2. /\ DOMAIN pipe = 1 .. Len(pipe) /\ DOMAIN pipe2 = 1 .. Len(pipe2)
        /\ DOMAIN read = 1 .. Len(read)
        /\ DOMAIN sent = 1 .. Len(sent) /\ DOMAIN sent2 = 1 .. Len(sent2)
    OBVIOUS
  <1>3. \A i \in DOMAIN pipe : pipe2[i] = pipe[i]
    BY DEF Extended
  <1>4. Len(read) + Len(sent2) <= Len(pipe2)
    BY <1>1
  <1>5. \A i \in DOMAIN read : read[i] = pipe2[i]
    <2>1. \A i \in DOMAIN read : read[i] = pipe[i]
      BY DEF Answering
    <2>2. \A i \in DOMAIN read : i \in DOMAIN pipe
      BY <1>1, <1>2
    <2> QED
      BY <1>3, <2>1, <2>2
  <1>6. ASSUME NEW i \in DOMAIN sent2
        PROVE  sent2[i] = pipe2[Len(pipe2) - Len(sent2) + i]
    <2>1. CASE i \in 1 .. Len(sent)
      <3>1. sent2[i] = sent[i]
        BY <2>1 DEF Extended
      <3>2. sent[i] = pipe[Len(pipe) - Len(sent) + i]
        BY <1>2, <2>1 DEF Answering
      <3>3. Len(pipe) - Len(sent) + i \in DOMAIN pipe
        BY <1>1, <1>2, <2>1
      <3>4. Len(pipe) - Len(sent) + i = Len(pipe2) - Len(sent2) + i
        BY <1>1, <2>1
      <3> QED
        BY <1>3, <3>1, <3>2, <3>3, <3>4
    <2>2. CASE i \in Len(sent) + 1 .. Len(sent2)
      <3>1. i \in Nat
        BY <1>1, <2>2
      <3>2. Len(pipe) + i - Len(sent) = Len(pipe) - Len(sent) + i
        BY <1>1, <3>1
      <3>3. Len(pipe) - Len(sent) + i = Len(pipe2) - Len(sent2) + i
        BY <1>1, <3>1
      <3> QED
        BY <2>2, <3>2, <3>3 DEF Extended
    <2> QED
      BY <1>1, <1>2, <2>1, <2>2
  <1>7. state = "live" => Len(read) + Len(sent2) = Len(pipe2)
    <2>1. state = "live" => Len(read) + Len(sent) = Len(pipe)
      BY DEF Answering
    <2> QED
      BY <1>1, <2>1
  <1>8. state \in Refusal =>
          /\ Len(read) + Len(sent2) + 1 = Len(pipe2)
          /\ pipe2[Len(read) + 1].write \in Refused
    <2> SUFFICES ASSUME state \in Refusal
                 PROVE  /\ Len(read) + Len(sent2) + 1 = Len(pipe2)
                        /\ pipe2[Len(read) + 1].write \in Refused
      OBVIOUS
    <2>1. /\ Len(read) + Len(sent) + 1 = Len(pipe)
          /\ pipe[Len(read) + 1].write \in Refused
      BY DEF Answering
    <2>2. Len(read) + 1 \in DOMAIN pipe
      BY <1>1, <1>2, <2>1
    <2>3. Len(read) + Len(sent2) + 1 = Len(pipe2)
      BY <1>1, <2>1
    <2> QED
      BY <1>3, <2>1, <2>2, <2>3
  <1>9. ASSUME NEW i \in DOMAIN pipe2,
               \/ i <= Len(read)
               \/ state \notin Refusal /\ i <= Len(pipe2) - Len(sent2)
        PROVE  pipe2[i].write \in done
    <2>1. i \in DOMAIN pipe /\ (i <= Len(read) \/ (state \notin Refusal /\ i <= Len(pipe) - Len(sent)))
      BY <1>1, <1>2, <1>9
    <2> QED
      BY <1>3, <2>1 DEF Answering
  <1> QED
    BY <1>4, <1>5, <1>6, <1>7, <1>8, <1>9 DEF Answering

(* Who reads an answer takes it off, and its batch with it. *)
LEMMA AnsweringRead ==
  ASSUME NEW pipe \in Seq(Batch), NEW read \in Seq(Batch \cup {Handshake}), read # << >>,
         NEW sent \in Seq(Batch \cup {Handshake}), NEW state, NEW state2, NEW done,
         Answering(pipe, read, sent, state, done),
         state2 = "live" => state = "live",
         state2 \in Refusal <=> state \in Refusal
  PROVE  /\ pipe # << >> /\ read[1] = pipe[1] /\ pipe[1].write \in done
         /\ Answering(Tail(pipe), Tail(read), sent, state2, done)
  <1>1. /\ Len(pipe) \in Nat /\ Len(read) \in Nat \ {0} /\ Len(sent) \in Nat
        /\ Len(read) + Len(sent) <= Len(pipe)
    BY DEF Answering
  <1>2. /\ DOMAIN pipe = 1 .. Len(pipe) /\ DOMAIN read = 1 .. Len(read)
        /\ DOMAIN sent = 1 .. Len(sent)
        /\ pipe # << >> /\ 1 \in DOMAIN pipe /\ 1 \in DOMAIN read
    BY <1>1
  <1>3. Tail(pipe) \in Seq(Batch) /\ Tail(read) \in Seq(Batch \cup {Handshake})
    BY <1>2, TailIs
  <1>4. /\ Len(Tail(pipe)) \in Nat /\ Len(Tail(pipe)) + 1 = Len(pipe)
        /\ Len(Tail(read)) \in Nat /\ Len(Tail(read)) + 1 = Len(read)
    BY <1>2, <1>3, TailIs
  <1>5. /\ DOMAIN Tail(pipe) = 1 .. Len(Tail(pipe))
        /\ \A i \in DOMAIN Tail(pipe) : Tail(pipe)[i] = pipe[i + 1] /\ i + 1 \in DOMAIN pipe
        /\ DOMAIN Tail(read) = 1 .. Len(Tail(read))
        /\ \A i \in DOMAIN Tail(read) : Tail(read)[i] = read[i + 1] /\ i + 1 \in DOMAIN read
    BY <1>2, TailIs
  <1>6. read[1] = pipe[1] /\ pipe[1].write \in done
    <2>1. 1 <= Len(read)
      BY <1>1
    <2> QED
      BY <1>2, <2>1 DEF Answering
  <1>7. ASSUME NEW i \in DOMAIN Tail(read)
        PROVE  Tail(read)[i] = Tail(pipe)[i]
    <2>1. i \in DOMAIN Tail(pipe)
      BY <1>1, <1>4, <1>5
    <2> QED
      BY <1>5, <2>1 DEF Answering
  <1>8. ASSUME NEW i \in DOMAIN sent
        PROVE  sent[i] = Tail(pipe)[Len(Tail(pipe)) - Len(sent) + i]
    <2>1. /\ Len(Tail(pipe)) - Len(sent) + i \in DOMAIN Tail(pipe)
          /\ (Len(Tail(pipe)) - Len(sent) + i) + 1 = Len(pipe) - Len(sent) + i
      BY <1>1, <1>2, <1>4, <1>5
    <2> QED
      BY <1>5, <2>1 DEF Answering
  <1>9. state2 \in Refusal =>
          /\ Len(Tail(read)) + Len(sent) + 1 = Len(Tail(pipe))
          /\ Tail(pipe)[Len(Tail(read)) + 1].write \in Refused
    <2> SUFFICES ASSUME state2 \in Refusal
                 PROVE  /\ Len(Tail(read)) + Len(sent) + 1 = Len(Tail(pipe))
                        /\ Tail(pipe)[Len(Tail(read)) + 1].write \in Refused
      OBVIOUS
    <2>1. /\ Len(read) + Len(sent) + 1 = Len(pipe)
          /\ pipe[Len(read) + 1].write \in Refused
      BY DEF Answering
    <2>2. Len(Tail(read)) + Len(sent) + 1 = Len(Tail(pipe))
      BY <1>1, <1>4, <2>1
    <2>3. Len(Tail(read)) + 1 \in DOMAIN Tail(pipe)
      BY <1>1, <1>4, <1>5, <2>2
    <2> QED
      BY <1>4, <1>5, <2>1, <2>2, <2>3
  <1>10. ASSUME NEW i \in DOMAIN Tail(pipe),
                \/ i <= Len(Tail(read))
                \/ state2 \notin Refusal /\ i <= Len(Tail(pipe)) - Len(sent)
         PROVE  Tail(pipe)[i].write \in done
    <2>1. \/ i + 1 <= Len(read)
          \/ state \notin Refusal /\ i + 1 <= Len(pipe) - Len(sent)
      BY <1>1, <1>4, <1>5, <1>10
    <2> QED
      BY <1>5, <2>1 DEF Answering
  <1>11. Len(Tail(read)) + Len(sent) <= Len(Tail(pipe))
    BY <1>1, <1>4
  <1>12. state2 = "live" => Len(Tail(read)) + Len(sent) = Len(Tail(pipe))
    <2>1. state2 = "live" => Len(read) + Len(sent) = Len(pipe)
      BY DEF Answering
    <2> QED
      BY <1>1, <1>4, <2>1
  <1> QED
    BY <1>2, <1>6, <1>7, <1>8, <1>9, <1>10, <1>11, <1>12 DEF Answering

-----------------------------------------------------------------------------
(* The stream while it stays open *)

LEMMA FlowOfTypes ==
  ASSUME IInv
  PROVE  /\ queue \in [User -> Seq(Batch)] /\ currentUser \in User
         /\ queue[currentUser] \in Seq(Batch)
         /\ pipeline \in Seq(Batch) /\ Len(pipeline) <= MaxPendingWrites
         /\ Len(pipeline) <= Len(queue[currentUser])
         /\ \A i \in DOMAIN pipeline :
              i \in DOMAIN queue[currentUser] /\ pipeline[i] = queue[currentUser][i]
         /\ stream \in StreamStates
         /\ requests \in Seq(Batch \cup {Handshake})
         /\ responses \in Seq(Batch \cup {Handshake})
         /\ Handshake \notin Batch
         /\ handshake => stream = "open" /\ call # "none"
         /\ MaxPendingWrites \in Nat \ {0}
  <1>1. /\ queue \in [User -> Seq(Batch)] /\ currentUser \in User
        /\ queue[currentUser] \in Seq(Batch)
    BY DEF IInv, Stored, StoreTypes
  <1>2. /\ pipeline \in Seq(Batch) /\ Len(pipeline) <= MaxPendingWrites
        /\ stream \in StreamStates
        /\ requests \in Seq(Batch \cup {Handshake})
        /\ responses \in Seq(Batch \cup {Handshake})
    BY DEF IInv, Flowing, FlowTypes
  <1>3. MaxPendingWrites \in Nat \ {0} /\ Handshake \notin Batch
    BY PipelineAssumption DEF Batch
  <1>4. Len(pipeline) <= Len(queue[currentUser])
    <2>1. Len(pipeline) = Min({MaxPendingWrites, Len(queue[currentUser])})
      BY DEF IInv, Flowing, Filled
    <2>2. Len(queue[currentUser]) \in Nat
      BY <1>1
    <2> QED
      BY <1>3, <2>1, <2>2, Lower
  <1>5. \A i \in DOMAIN pipeline : i \in DOMAIN queue[currentUser]
    BY <1>1, <1>2, <1>4
  <1>6. \A i \in DOMAIN pipeline : pipeline[i] = queue[currentUser][i]
    BY DEF IInv, Flowing, Filled
  <1>7. handshake => stream = "open" /\ call # "none"
    BY DEF IInv, Flowing, CallStands
  <1> QED
    BY <1>1, <1>2, <1>3, <1>4, <1>5, <1>6, <1>7

(* An answer is a batch of the pipeline, a request not served is one after. *)
LEMMA AnswersAreBatches ==
  ASSUME IInv, handshake
  PROVE  /\ Len(pipeline) \in Nat /\ Len(responses) \in Nat /\ Len(requests) \in Nat
         /\ Len(responses) + Len(requests) <= Len(pipeline)
         /\ \A i \in DOMAIN responses : i \in DOMAIN pipeline /\ responses[i] = pipeline[i]
         /\ \A i \in DOMAIN requests :
              /\ Len(pipeline) - Len(requests) + i \in DOMAIN pipeline
              /\ Len(responses) < Len(pipeline) - Len(requests) + i
              /\ requests[i] = pipeline[Len(pipeline) - Len(requests) + i]
  <1>1. Answering(pipeline, responses, requests, call, applied)
    BY DEF IInv, Flowing, AnswersFirst
  <1>2. /\ Len(pipeline) \in Nat /\ Len(responses) \in Nat /\ Len(requests) \in Nat
        /\ DOMAIN pipeline = 1 .. Len(pipeline)
        /\ DOMAIN responses = 1 .. Len(responses)
        /\ DOMAIN requests = 1 .. Len(requests)
    BY FlowOfTypes
  <1>3. Len(responses) + Len(requests) <= Len(pipeline)
    BY <1>1 DEF Answering
  <1>4. /\ \A i \in DOMAIN responses : responses[i] = pipeline[i]
        /\ \A i \in DOMAIN requests :
              requests[i] = pipeline[Len(pipeline) - Len(requests) + i]
    BY <1>1 DEF Answering
  <1>5. \A i \in DOMAIN responses : i \in DOMAIN pipeline
    BY <1>2, <1>3
  <1>6. \A i \in DOMAIN requests :
          /\ Len(pipeline) - Len(requests) + i \in DOMAIN pipeline
          /\ Len(responses) < Len(pipeline) - Len(requests) + i
    BY <1>2, <1>3
  <1> QED
    BY <1>2, <1>3, <1>4, <1>5, <1>6

LEMMA CommitFlow ==
  ASSUME IInv, NEW w0 \in Write, WriteMutations(w0), Stored'
  PROVE  Flowing'
  <1> DEFINE Q == queue[currentUser]
             Q2 == queue'[currentUser']
  <1>0. StoreTypes
    BY DEF IInv, Stored
  <1>1. /\ queue' \in [User -> Seq(Batch)] /\ currentUser' = currentUser
        /\ \A u \in User : u # currentUser => queue'[u] = queue[u]
        /\ Len(queue'[currentUser]) = Len(Q) + 1
        /\ DOMAIN Q = 1 .. Len(Q)
        /\ \A i \in DOMAIN Q : queue'[currentUser][i] = Q[i]
        /\ w0 \notin Range(issued) /\ Author[w0] = currentUser
        /\ \A v, w \in Write :
             Earlier(v, w)' <=> Earlier(v, w) \/ (w = w0 /\ v \in Range(issued))
    BY <1>0, Committing
  <1>2. /\ currentUser \in User /\ Q \in Seq(Batch)
        /\ pipeline \in Seq(Batch) /\ Len(pipeline) <= MaxPendingWrites
        /\ Len(pipeline) <= Len(Q)
        /\ \A i \in DOMAIN pipeline : i \in DOMAIN Q /\ pipeline[i] = Q[i]
        /\ stream \in StreamStates
        /\ requests \in Seq(Batch \cup {Handshake})
        /\ handshake => stream = "open" /\ call # "none"
    BY FlowOfTypes
  <1>3. /\ FlowTypes /\ CallStands /\ IdleHasNothingToSend
        /\ AnswersFirst /\ LeftInOrder /\ AnswersStand
        /\ StoreTypes'
    BY DEF IInv, Flowing, Stored
  <1>4. /\ FillWritePipeline(pipeline, stream, requests, idleTimer)
        /\ handshake' = handshake /\ responses' = responses /\ call' = call
        /\ applied' = applied /\ lastOrder' = lastOrder /\ faults' = faults
    BY DEF WriteMutations, backendVars
  <1>5. Len(pipeline) <= Len(Q2) /\ Q2 # << >>
    <2>1. Len(Q2) = Len(Q) + 1 /\ Len(Q) \in Nat /\ Len(pipeline) \in Nat /\ Q2 \in Seq(Batch)
      BY <1>1, <1>2
    <2> QED
      BY <1>2, <2>1
  <1>6. \A i \in DOMAIN pipeline : pipeline[i] = Q2[i]
    BY <1>1, <1>2
  <1>7. idleTimer \in BOOLEAN
    BY <1>3 DEF FlowTypes
  <1> HIDE DEF Q2
  <1>16. FilledFrom(pipeline, stream, requests, idleTimer, Q2)
    <2>1. Q2 = queue'[currentUser']
      BY <1>1 DEF Q2
    <2> QED
      BY <1>2, <1>3, <1>4, <1>5, <1>6, <1>7, <2>1, Filling
  <1>8. /\ pipeline' \in Seq(Batch) /\ Len(pipeline') <= MaxPendingWrites
        /\ Filled'
        /\ pipeline' # << >>
        /\ Len(pipeline) <= Len(pipeline')
        /\ \A i \in DOMAIN pipeline : pipeline'[i] = pipeline[i]
        /\ requests' \in Seq(Batch \cup {Handshake})
        /\ ~ (stream = "open" /\ handshake') => requests' = requests
        /\ stream = "open" /\ handshake' =>
             Extended(pipeline, requests, pipeline', requests')
        /\ stream' \in StreamStates
        /\ stream' = "open" <=> stream = "open"
    BY <1>5, <1>16 DEF FilledFrom
  <1>9. ~ idleTimer'
    <2>1. idleTimer' => idleTimer /\ ~ (stream = "open" /\ handshake' /\ Len(pipeline) < Len(pipeline'))
      BY <1>8, <1>16 DEF FilledFrom
    <2>2. idleTimer => stream = "open" /\ handshake /\ pipeline = << >>
      BY <1>3 DEF IdleHasNothingToSend, CallStands
    <2>3. pipeline = << >> => Len(pipeline) < Len(pipeline')
      BY <1>8
    <2> QED
      BY <1>4, <2>1, <2>2, <2>3
  <1>10. FlowTypes'
    <2>1. idleTimer' \in BOOLEAN
      BY <1>16 DEF FilledFrom
    <2>2. handshake' \in BOOLEAN
      BY <1>3, <1>4 DEF FlowTypes
    <2>3. responses' \in Seq(Batch \cup {Handshake}) /\ faults' \in 0 .. MaxFaults
          /\ call' \in {"none", "live", "broken", "refused", "overtaken"}
          /\ (call' = "live" => stream' = "open")
      BY <1>3, <1>4, <1>8 DEF FlowTypes
    <2> QED
      BY <1>8, <2>1, <2>2, <2>3 DEF FlowTypes
  <1>11. CallStands'
    BY <1>3, <1>4, <1>8, <1>9 DEF CallStands
  <1>12. IdleHasNothingToSend'
    BY <1>9 DEF IdleHasNothingToSend
  <1>13. AnswersFirst'
    <2> SUFFICES ASSUME handshake
                 PROVE  Answering(pipeline', responses, requests', call, applied)
      BY <1>4 DEF AnswersFirst
    <2>1. Answering(pipeline, responses, requests, call, applied)
      BY <1>3 DEF AnswersFirst
    <2>2. Extended(pipeline, requests, pipeline', requests')
      BY <1>2, <1>4, <1>8
    <2>3. responses \in Seq(Batch \cup {Handshake})
      BY <1>3 DEF FlowTypes
    <2> QED
      BY <1>2, <1>8, <2>1, <2>2, <2>3, AnsweringFilled
  <1>14. LeftInOrder'
    <2> SUFFICES ASSUME stream # "open"
                 PROVE  Stretch(requests, queue', applied)
      BY <1>2, <1>4, <1>8 DEF LeftInOrder
    <2>1. Stretch(requests, queue, applied)
      BY <1>3 DEF LeftInOrder
    <2>2. CASE requests = <<Handshake>>
      BY <2>2 DEF Stretch
    <2>3. ASSUME NEW u \in User, NEW n \in Nat,
                 /\ n + Len(requests) <= Len(queue[u])
                 /\ \A i \in DOMAIN requests : requests[i] = queue[u][n + i]
                 /\ \A i \in 1 .. n : queue[u][i].write \in applied
          PROVE  Stretch(requests, queue', applied)
      <3>1. queue[u] \in Seq(Batch) /\ queue'[u] \in Seq(Batch) /\ Len(queue[u]) <= Len(queue'[u])
        <4>1. queue[u] \in Seq(Batch) /\ queue'[u] \in Seq(Batch)
          BY <1>1, FlowOfTypes
        <4>2. Len(queue[u]) \in Nat
          BY <4>1
        <4>3. CASE u = currentUser
          <5>1. Len(queue'[u]) = Len(queue[u]) + 1
            BY <1>1, <4>3
          <5> QED
            BY <4>1, <4>2, <5>1
        <4>4. CASE u # currentUser
          BY <1>1, <4>2, <4>4
        <4> QED
          BY <4>1, <4>3, <4>4
      <3>2. \A i \in DOMAIN queue[u] : queue'[u][i] = queue[u][i]
        BY <1>1
      <3>3. \A i \in DOMAIN requests : n + i \in DOMAIN queue[u]
        BY <1>2, <2>3, <3>1
      <3>4. \A i \in 1 .. n : i \in DOMAIN queue[u]
        BY <1>2, <2>3, <3>1
      <3>5. n + Len(requests) <= Len(queue'[u])
        BY <1>2, <2>3, <3>1
      <3>6. \A i \in DOMAIN requests : requests[i] = queue'[u][n + i]
        BY <2>3, <3>2, <3>3
      <3>7. \A i \in 1 .. n : queue'[u][i].write \in applied
        BY <2>3, <3>2, <3>4
      <3> QED
        BY <3>5, <3>6, <3>7 DEF Stretch
    <2> QED
      BY <2>1, <2>2, <2>3 DEF Stretch
  <1>15. AnswersStand'
    <2> SUFFICES ASSUME handshake, NEW i \in DOMAIN responses, NEW v \in applied,
                        Before(issued', v, responses[i].write), Author[v] = currentUser
                 PROVE  <<v, responses[i].write>> \in lastOrder
      BY <1>1, <1>4 DEF AnswersStand
    <2>1. i \in DOMAIN pipeline /\ responses[i] = pipeline[i]
      BY AnswersAreBatches
    <2>2. responses[i] \in Batch /\ responses[i].write \in Range(issued)
      BY <1>2, <2>1 DEF IInv, Stored, QueuesKept
    <2>3. v \in Write /\ responses[i].write \in Write /\ responses[i].write # w0
      <3>1. v \in Write
        BY <1>0 DEF StoreTypes
      <3> QED
        BY <1>1, <2>2, <3>1 DEF Batch
    <2>4. PICK w \in Write : w = responses[i].write
      BY <2>3
    <2>5. Earlier(v, w)'
      BY <2>4 DEF Before, Earlier
    <2>6. Earlier(v, w)
      BY <1>1, <2>3, <2>4, <2>5
    <2> QED
      BY <1>3, <2>4, <2>6 DEF AnswersStand, Before, Earlier
  <1> QED
    BY <1>8, <1>10, <1>11, <1>12, <1>13, <1>14, <1>15 DEF Flowing

(* The answer read is the one to the front of the pipeline, which the        *)
(* backend has applied after all that came before it.                        *)
LEMMA AnswerIsOfTheFront ==
  ASSUME IInv, OnMutationResult
  PROVE  /\ pipeline # << >> /\ responses[1] = pipeline[1]
         /\ Head(pipeline).write \in applied
         /\ \A v \in applied : Earlier(v, Head(pipeline).write) /\ Author[v] = currentUser
                                 => <<v, Head(pipeline).write>> \in lastOrder
         /\ Settling("ok")
         /\ Answering(Tail(pipeline), responses', requests, call', applied)
  <1>1. /\ handshake /\ responses # << >> /\ responses' = Tail(responses)
        /\ call' = call \/ (call = "refused" /\ call' = "overtaken")
        /\ NotifyUser(Head(pipeline).id, "ok")
        /\ queue' = [queue EXCEPT ![currentUser] = Without(@, Head(pipeline).id)]
        /\ UNCHANGED <<issued, session, currentUser, nextBatchId, backendVars>>
    BY DEF OnMutationResult, ReadsAnswer
  <1>2. /\ pipeline \in Seq(Batch) /\ requests \in Seq(Batch \cup {Handshake})
        /\ responses \in Seq(Batch \cup {Handshake})
    BY FlowOfTypes
  <1>3. Answering(pipeline, responses, requests, call, applied) /\ AnswersStand
    BY <1>1 DEF IInv, Flowing, AnswersFirst
  <1>4. (call' = "live" => call = "live") /\ (call' \in Refusal <=> call \in Refusal)
    BY <1>1 DEF Refusal
  <1>5. /\ pipeline # << >> /\ responses[1] = pipeline[1] /\ pipeline[1].write \in applied
        /\ Answering(Tail(pipeline), Tail(responses), requests, call', applied)
    BY <1>1, <1>2, <1>3, <1>4, AnsweringRead
  <1>6. Head(pipeline) = pipeline[1] /\ 1 \in DOMAIN responses
    BY <1>1, <1>2, <1>5
  <1>7. \A v \in applied : Earlier(v, pipeline[1].write) /\ Author[v] = currentUser
                             => <<v, pipeline[1].write>> \in lastOrder
    BY <1>1, <1>3, <1>5, <1>6 DEF AnswersStand, Before, Earlier
  <1> QED
    BY <1>1, <1>5, <1>6, <1>7 DEF Settling

LEMMA ResultFlow ==
  ASSUME IInv, OnMutationResult, Stored'
  PROVE  Flowing'
  <1> DEFINE pipe == Tail(pipeline)
             Q2 == queue'[currentUser]
  <1>1. /\ pipeline # << >> /\ Settling("ok")
        /\ Answering(pipe, responses', requests, call', applied)
    BY AnswerIsOfTheFront
  <1>2. /\ currentUser \in User /\ currentUser' = currentUser
        /\ queue[currentUser] \in Seq(Batch) /\ queue[currentUser] # << >>
        /\ Q2 = Tail(queue[currentUser])
    BY <1>1, SettlingQueues
  <1>3. /\ pipeline \in Seq(Batch) /\ Len(pipeline) <= MaxPendingWrites
        /\ Len(pipeline) <= Len(queue[currentUser])
        /\ \A i \in DOMAIN pipeline : pipeline[i] = queue[currentUser][i]
        /\ MaxPendingWrites \in Nat
        /\ requests \in Seq(Batch \cup {Handshake})
        /\ responses \in Seq(Batch \cup {Handshake})
    BY FlowOfTypes
  <1>4. /\ FlowTypes /\ CallStands /\ IdleHasNothingToSend /\ AnswersStand /\ StoreTypes'
    BY DEF IInv, Flowing, Stored
  <1>5. /\ handshake /\ stream = "open" /\ responses # << >> /\ responses' = Tail(responses)
        /\ call' = call \/ (call = "refused" /\ call' = "overtaken")
        /\ FillWritePipeline(pipe, stream, requests, idleTimer)
        /\ handshake' = handshake /\ issued' = issued /\ faults' = faults
        /\ applied' = applied /\ lastOrder' = lastOrder
    BY DEF OnMutationResult, ReadsAnswer, backendVars
  <1>6. /\ pipe \in Seq(Batch) /\ Len(pipe) <= MaxPendingWrites
        /\ Len(pipe) <= Len(Q2) /\ \A i \in DOMAIN pipe : pipe[i] = Q2[i]
    <2>1. /\ pipe \in Seq(Batch) /\ Len(pipe) = Len(pipeline) - 1
          /\ DOMAIN pipe = 1 .. Len(pipeline) - 1
          /\ Len(pipeline) \in Nat \ {0} /\ DOMAIN pipeline = 1 .. Len(pipeline)
          /\ \A i \in DOMAIN pipe : pipe[i] = pipeline[i + 1] /\ i + 1 \in DOMAIN pipeline
      BY <1>1, <1>3, TailIs
    <2>2. /\ Len(Q2) = Len(queue[currentUser]) - 1 /\ Len(queue[currentUser]) \in Nat \ {0}
          /\ \A i \in 1 .. Len(queue[currentUser]) - 1 : Q2[i] = queue[currentUser][i + 1]
      BY <1>2, TailIs
    <2>3. \A i \in DOMAIN pipe : i \in 1 .. Len(queue[currentUser]) - 1
      BY <1>3, <2>1, <2>2
    <2>4. \A i \in DOMAIN pipe : pipe[i] = Q2[i]
      BY <1>3, <2>1, <2>2, <2>3
    <2>5. Len(pipe) <= MaxPendingWrites /\ Len(pipe) <= Len(Q2)
      BY <1>3, <2>1, <2>2
    <2> QED
      BY <2>1, <2>4, <2>5
  <1>7. idleTimer \in BOOLEAN /\ stream \in StreamStates /\ ~ idleTimer
    BY <1>1, <1>4 DEF FlowTypes, IdleHasNothingToSend
  <1>8. FilledFrom(pipe, stream, requests, idleTimer, Q2)
    <2>1. Q2 = queue'[currentUser']
      BY <1>2
    <2> HIDE DEF pipe, Q2
    <2> QED
      BY <1>3, <1>4, <1>5, <1>6, <1>7, <2>1, Filling
  <1> HIDE DEF pipe, Q2
  <1>9. /\ pipeline' \in Seq(Batch) /\ Len(pipeline') <= MaxPendingWrites
        /\ Filled'
        /\ (pipeline' = << >> <=> Q2 = << >>)
        /\ requests' \in Seq(Batch \cup {Handshake})
        /\ Extended(pipe, requests, pipeline', requests')
        /\ idleTimer' \in BOOLEAN
        /\ idleTimer' => pipeline' = << >>
        /\ stream' = "open"
    BY <1>5, <1>7, <1>8 DEF FilledFrom
  <1>10. responses' \in Seq(Batch \cup {Handshake})
    BY <1>3, <1>5, TailIs
  <1>11. FlowTypes'
    <2>1. handshake' \in BOOLEAN
      BY <1>4, <1>5 DEF FlowTypes
    <2>2. call' \in {"none", "live", "broken", "refused", "overtaken"} /\ faults' \in 0 .. MaxFaults
          /\ stream' \in StreamStates
      BY <1>4, <1>5, <1>9 DEF FlowTypes, StreamStates
    <2> QED
      BY <1>9, <1>10, <2>1, <2>2 DEF FlowTypes
  <1>12. CallStands' /\ LeftInOrder'
    BY <1>4, <1>5, <1>9 DEF CallStands, LeftInOrder
  <1>13. IdleHasNothingToSend'
    BY <1>2, <1>9 DEF IdleHasNothingToSend, Q2
  <1>14. AnswersFirst'
    <2>1. Answering(pipeline', responses', requests', call', applied)
      BY <1>1, <1>3, <1>6, <1>9, <1>10, AnsweringFilled
    <2> QED
      BY <1>5, <2>1 DEF AnswersFirst
  <1>15. AnswersStand'
    <2> SUFFICES ASSUME NEW i \in DOMAIN responses', NEW v \in applied,
                        Before(issued, v, responses'[i].write), Author[v] = currentUser
                 PROVE  <<v, responses'[i].write>> \in lastOrder
      BY <1>2, <1>5 DEF AnswersStand
    <2>1. i + 1 \in DOMAIN responses /\ responses'[i] = responses[i + 1]
      BY <1>3, <1>5, TailIs
    <2> QED
      BY <1>4, <1>5, <2>1 DEF AnswersStand
  <1> QED
    BY <1>9, <1>11, <1>12, <1>13, <1>14, <1>15 DEF Flowing

LEMMA HandshakeFlow ==
  ASSUME IInv, OnHandshakeComplete
  PROVE  Flowing'
  <1>1. /\ ~ handshake /\ stream = "open" /\ responses # << >> /\ responses' = Tail(responses)
        /\ call' = call \/ (call = "refused" /\ requests # << >> /\ call' = "overtaken")
        /\ handshake' = TRUE
        /\ requests' = requests \o pipeline
        /\ idleTimer' = (idleTimer /\ pipeline = << >>)
        /\ queue' = queue /\ currentUser' = currentUser /\ issued' = issued
        /\ pipeline' = pipeline /\ stream' = stream /\ applied' = applied
        /\ lastOrder' = lastOrder /\ faults' = faults
    BY DEF OnHandshakeComplete, ReadsAnswer, storeVars, backendVars
  <1>2. /\ pipeline \in Seq(Batch) /\ requests \in Seq(Batch \cup {Handshake})
        /\ responses \in Seq(Batch \cup {Handshake})
    BY FlowOfTypes
  <1>3. FlowTypes /\ Filled /\ CallStands
    BY DEF IInv, Flowing
  <1>4. requests = << >> /\ responses = <<Handshake>> /\ call # "refused" /\ call # "overtaken"
        /\ ~ idleTimer
    BY <1>1, <1>3 DEF CallStands
  <1>5. /\ call' = call /\ responses' = << >>
    BY <1>1, <1>4
  <1>6. requests' = pipeline
    BY <1>1, <1>2, <1>4, ConcatEmptySeq
  <1>7. idleTimer' = FALSE
    BY <1>1, <1>4
  <1>8. FlowTypes'
    <2>1. pipeline \in Seq(Batch \cup {Handshake}) /\ << >> \in Seq(Batch \cup {Handshake})
      BY <1>2
    <2> QED
      BY <1>1, <1>3, <1>5, <1>6, <1>7, <2>1 DEF FlowTypes
  <1>9. Filled'
    BY <1>1, <1>3 DEF Filled
  <1>10. CallStands' /\ IdleHasNothingToSend' /\ LeftInOrder'
    BY <1>1, <1>3, <1>7 DEF CallStands, IdleHasNothingToSend, LeftInOrder
  <1>11. AnswersFirst'
    <2>1. Len(pipeline) \in Nat /\ DOMAIN pipeline = 1 .. Len(pipeline)
      BY <1>2
    <2>2. \A i \in DOMAIN pipeline : Len(pipeline) - Len(pipeline) + i = i
      BY <2>1
    <2>3. \A i \in DOMAIN pipeline : ~ (i <= 0) /\ ~ (i <= Len(pipeline) - Len(pipeline))
      BY <2>1
    <2>4. Len(<< >>) = 0 /\ DOMAIN << >> = {}
      OBVIOUS
    <2>5. call \notin Refusal
      BY <1>4 DEF Refusal
    <2>6. Len(<< >>) + Len(pipeline) = Len(pipeline)
      BY <2>1, <2>4
    <2>7. Answering(pipeline, << >>, pipeline, call, applied)
      <3>1. Len(<< >>) + Len(pipeline) <= Len(pipeline)
        BY <2>1, <2>6
      <3>2. \A i \in DOMAIN << >> : << >>[i] = pipeline[i]
        BY <2>4
      <3>3. \A i \in DOMAIN pipeline : pipeline[i] = pipeline[Len(pipeline) - Len(pipeline) + i]
        BY <2>2
      <3>4. \A i \in DOMAIN pipeline :
              \/ i <= Len(<< >>)
              \/ call \notin Refusal /\ i <= Len(pipeline) - Len(pipeline)
              => pipeline[i].write \in applied
        BY <2>3, <2>4
      <3> QED
        BY <2>5, <2>6, <3>1, <3>2, <3>3, <3>4 DEF Answering
    <2> QED
      BY <1>1, <1>5, <1>6, <2>7 DEF AnswersFirst
  <1>12. AnswersStand'
    BY <1>5 DEF AnswersStand
  <1> QED
    BY <1>8, <1>9, <1>10, <1>11, <1>12 DEF Flowing

LEMMA StartFlow ==
  ASSUME IInv, OnStreamStart
  PROVE  Flowing'
  <1>1. /\ stream = "starting" /\ stream' = "open" /\ call' = "live"
        /\ requests' = <<Handshake>> /\ responses' = << >>
        /\ queue' = queue /\ currentUser' = currentUser
        /\ pipeline' = pipeline /\ handshake' = handshake /\ idleTimer' = idleTimer
        /\ faults' = faults
    BY DEF OnStreamStart, storeVars
  <1>2. FlowTypes /\ Filled /\ CallStands
    BY DEF IInv, Flowing
  <1>3. ~ handshake /\ ~ idleTimer
    BY <1>1, <1>2 DEF CallStands
  <1>4. FlowTypes'
    <2>1. <<Handshake>> \in Seq(Batch \cup {Handshake}) /\ << >> \in Seq(Batch \cup {Handshake})
      OBVIOUS
    <2> QED
      BY <1>1, <1>2, <2>1 DEF FlowTypes, StreamStates
  <1>5. Filled'
    BY <1>1, <1>2 DEF Filled
  <1>6. CallStands'
    BY <1>1, <1>3 DEF CallStands
  <1>7. IdleHasNothingToSend' /\ AnswersFirst' /\ LeftInOrder' /\ AnswersStand'
    BY <1>1, <1>3 DEF IdleHasNothingToSend, AnswersFirst, LeftInOrder, AnswersStand
  <1> QED
    BY <1>4, <1>5, <1>6, <1>7 DEF Flowing

LEMMA BackoffFlow ==
  ASSUME IInv, BackoffElapses
  PROVE  Flowing'
  <1>1. /\ stream = "backoff" /\ stream' = "starting"
        /\ call' = call /\ requests' = requests /\ responses' = responses
        /\ queue' = queue /\ currentUser' = currentUser /\ issued' = issued
        /\ applied' = applied /\ lastOrder' = lastOrder
        /\ pipeline' = pipeline /\ handshake' = handshake /\ idleTimer' = idleTimer
        /\ faults' = faults
    BY DEF BackoffElapses, storeVars, callVars, backendVars
  <1>2. FlowTypes /\ Filled /\ CallStands /\ LeftInOrder
    BY DEF IInv, Flowing
  <1>3. ~ handshake /\ ~ idleTimer
    BY <1>1, <1>2 DEF CallStands
  <1>4. FlowTypes' /\ Filled'
    BY <1>1, <1>2 DEF FlowTypes, StreamStates, Filled
  <1>5. CallStands' /\ LeftInOrder'
    BY <1>1, <1>2 DEF CallStands, LeftInOrder
  <1>6. IdleHasNothingToSend' /\ AnswersFirst' /\ AnswersStand'
    BY <1>1, <1>3 DEF IdleHasNothingToSend, AnswersFirst, AnswersStand
  <1> QED
    BY <1>4, <1>5, <1>6 DEF Flowing

-----------------------------------------------------------------------------
(* The stream is closed *)

(* What the client leaves behind of a call was sent in the queue's order. *)
LEMMA LeavingInOrder ==
  ASSUME IInv
  PROVE  /\ Stretch(Leftover, queue, applied)
         /\ Leftover \in Seq(Batch \cup {Handshake})
  <1>1. /\ queue[currentUser] \in Seq(Batch) /\ currentUser \in User
        /\ pipeline \in Seq(Batch) /\ Len(pipeline) <= Len(queue[currentUser])
        /\ \A i \in DOMAIN pipeline :
              i \in DOMAIN queue[currentUser] /\ pipeline[i] = queue[currentUser][i]
        /\ requests \in Seq(Batch \cup {Handshake})
    BY FlowOfTypes
  <1>2. Leftover \in Seq(Batch \cup {Handshake})
    BY <1>1 DEF Leftover
  <1>3. Stretch(<< >>, queue, applied)
    <2>1. 0 + Len(<< >>) <= Len(queue[currentUser]) /\ DOMAIN << >> = {} /\ 1 .. 0 = {}
      BY <1>1
    <2> QED
      BY <1>1, <2>1 DEF Stretch
  <1>4. CASE call \in Refusal
    BY <1>2, <1>3, <1>4 DEF Leftover
  <1>5. CASE call \notin Refusal /\ stream # "open"
    BY <1>2, <1>5 DEF Leftover, IInv, Flowing, LeftInOrder
  <1>6. CASE stream = "open" /\ ~ handshake
    <2>1. requests = <<Handshake>> \/ requests = << >>
      BY <1>6 DEF IInv, Flowing, CallStands
    <2>2. Stretch(<<Handshake>>, queue, applied)
      BY DEF Stretch
    <2> QED
      BY <1>2, <1>3, <2>1, <2>2 DEF Leftover
  <1>7. CASE call \notin Refusal /\ handshake
    <2> DEFINE n == Len(pipeline) - Len(requests)
    <2>1. /\ Len(pipeline) \in Nat /\ Len(responses) \in Nat /\ Len(requests) \in Nat
          /\ Len(responses) + Len(requests) <= Len(pipeline)
          /\ \A i \in DOMAIN requests :
               n + i \in DOMAIN pipeline /\ requests[i] = pipeline[n + i]
      BY <1>7, AnswersAreBatches
    <2>2. n \in Nat /\ n + Len(requests) = Len(pipeline) /\ n <= Len(pipeline)
      BY <2>1
    <2>3. \A i \in 1 .. n : i \in DOMAIN pipeline /\ i <= Len(pipeline) - Len(requests)
      BY <1>1, <2>1, <2>2
    <2>4. Answering(pipeline, responses, requests, call, applied)
      BY <1>7 DEF IInv, Flowing, AnswersFirst
    <2>5. \A i \in 1 .. n : pipeline[i].write \in applied
      BY <1>7, <2>3, <2>4 DEF Answering
    <2> HIDE DEF n
    <2>6. n + Len(requests) <= Len(queue[currentUser])
      BY <1>1, <2>2
    <2>7. \A i \in 1 .. n : queue[currentUser][i].write \in applied
      BY <1>1, <2>3, <2>5
    <2>8. \A i \in DOMAIN requests : requests[i] = queue[currentUser][n + i]
      BY <1>1, <2>1
    <2>9. Stretch(requests, queue, applied)
      BY <1>1, <2>2, <2>6, <2>7, <2>8 DEF Stretch
    <2> QED
      BY <1>2, <1>7, <2>9 DEF Leftover
  <1> QED
    BY <1>4, <1>5, <1>6, <1>7

(* A stream without a call: nothing is answered, a rest may still arrive. *)
Closed ==
  /\ handshake' = FALSE
  /\ call' = "none"
  /\ responses' = << >>
  /\ stream' \in StreamStates \ {"open"}
  /\ idleTimer' = FALSE
  /\ pipeline' \in Seq(Batch) /\ Len(pipeline') <= MaxPendingWrites
  /\ Filled'
  /\ requests' \in Seq(Batch \cup {Handshake})
  /\ Stretch(requests', queue', applied')
  /\ faults' \in 0 .. MaxFaults

LEMMA ClosedFlow ==
  ASSUME Closed
  PROVE  Flowing'
  <1>1. FlowTypes'
    <2>1. << >> \in Seq(Batch \cup {Handshake})
      OBVIOUS
    <2> QED
      BY <2>1 DEF Closed, FlowTypes
  <1>2. CallStands' /\ LeftInOrder'
    BY DEF Closed, CallStands, LeftInOrder
  <1>3. IdleHasNothingToSend' /\ AnswersFirst' /\ AnswersStand'
    BY DEF Closed, IdleHasNothingToSend, AnswersFirst, AnswersStand
  <1> QED
    BY <1>1, <1>2, <1>3 DEF Closed, Flowing

LEMMA RetryFlow ==
  ASSUME IInv, CloseAndRetry, faults' \in 0 .. MaxFaults
  PROVE  Flowing'
  <1>1. /\ handshake' = FALSE /\ idleTimer' = FALSE /\ call' = "none" /\ responses' = << >>
        /\ requests' = Leftover /\ stream' = StartedFor(pipeline, "error")
        /\ queue' = queue /\ currentUser' = currentUser /\ applied' = applied
        /\ pipeline' = pipeline
    BY DEF CloseAndRetry, storeVars, backendVars
  <1>2. stream' \in StreamStates \ {"open"}
    BY <1>1, Starting DEF StreamStates
  <1>3. FlowTypes /\ Filled
    BY DEF IInv, Flowing
  <1>4. Filled' /\ pipeline' \in Seq(Batch) /\ Len(pipeline') <= MaxPendingWrites
    BY <1>1, <1>3 DEF Filled, FlowTypes
  <1>5. Closed
    BY <1>1, <1>2, <1>4, LeavingInOrder DEF Closed
  <1> QED
    BY <1>5, ClosedFlow

LEMMA IdleFlow ==
  ASSUME IInv, IdleTimeout
  PROVE  Flowing'
  <1>1. /\ handshake' = FALSE /\ idleTimer' = FALSE /\ call' = "none" /\ responses' = << >>
        /\ requests' = Leftover /\ stream' = StartedFor(pipeline, "initial")
        /\ queue' = queue /\ currentUser' = currentUser /\ applied' = applied
        /\ pipeline' = pipeline /\ faults' = faults
    BY DEF IdleTimeout, storeVars, backendVars
  <1>2. stream' \in StreamStates \ {"open"}
    BY <1>1, Starting DEF StreamStates
  <1>3. FlowTypes /\ Filled
    BY DEF IInv, Flowing
  <1>4. /\ Filled' /\ pipeline' \in Seq(Batch) /\ Len(pipeline') <= MaxPendingWrites
        /\ faults' \in 0 .. MaxFaults
    BY <1>1, <1>3 DEF Filled, FlowTypes
  <1>5. Closed
    BY <1>1, <1>2, <1>4, LeavingInOrder DEF Closed
  <1> QED
    BY <1>5, ClosedFlow

(* The pipeline is filled anew, from the queue of whoever is the user. *)
LEMMA RestartFlow ==
  ASSUME IInv, Restart, Stored', queue' = queue, faults' \in 0 .. MaxFaults
  PROVE  Flowing'
  <1>1. /\ handshake' = FALSE /\ call' = "none" /\ responses' = << >>
        /\ FillWritePipeline(<< >>, "initial", Leftover, FALSE)
        /\ applied' = applied
    BY DEF Restart, backendVars
  <1>2. PICK Q : Q = queue'[currentUser']
    OBVIOUS
  <1>3. StoreTypes' /\ Q \in Seq(Batch)
    BY <1>2 DEF Stored, StoreTypes
  <1>4. /\ << >> \in Seq(Batch) /\ "initial" \in StreamStates
        /\ Len(<< >>) <= MaxPendingWrites /\ Len(<< >>) <= Len(Q)
        /\ \A i \in DOMAIN << >> : << >>[i] = Q[i]
    BY <1>3, PipelineAssumption DEF StreamStates
  <1>5. Leftover \in Seq(Batch \cup {Handshake}) /\ Stretch(Leftover, queue, applied)
    BY LeavingInOrder
  <1>6. FilledFrom(<< >>, "initial", Leftover, FALSE, Q)
    BY <1>1, <1>2, <1>3, <1>4, <1>5, Filling
  <1>7. /\ Filled' /\ pipeline' \in Seq(Batch) /\ Len(pipeline') <= MaxPendingWrites
        /\ requests' = Leftover
        /\ stream' \in StreamStates \ {"open"}
    BY <1>6 DEF FilledFrom
  <1>8. idleTimer' = FALSE
    BY <1>6 DEF FilledFrom
  <1>9. Closed
    BY <1>1, <1>5, <1>7, <1>8 DEF Closed
  <1> QED
    BY <1>9, ClosedFlow

(* A write is refused for good: the front of the pipeline is the one, or it  *)
(* has been applied and its answer has not been read.                        *)
LEMMA RejectsTheFront ==
  ASSUME IInv, CloseAndReject, handshake, pipeline # << >>, call \in Refusal
  PROVE  /\ Settling("failed")
         /\ Head(pipeline) = pipeline[1]
         /\ Head(pipeline).write \in Refused \cup applied
         /\ \/ Head(pipeline).write \in Refused
            \/ \A v \in applied : Earlier(v, Head(pipeline).write) /\ Author[v] = currentUser
                                    => <<v, Head(pipeline).write>> \in lastOrder
  <1>1. Settling("failed")
    BY DEF CloseAndReject, Settling
  <1>2. /\ pipeline \in Seq(Batch) /\ responses \in Seq(Batch \cup {Handshake})
        /\ requests \in Seq(Batch \cup {Handshake})
    BY FlowOfTypes
  <1>3. Head(pipeline) = pipeline[1] /\ 1 \in DOMAIN pipeline
    BY <1>2
  <1>4. Answering(pipeline, responses, requests, call, applied) /\ AnswersStand
    BY DEF IInv, Flowing, AnswersFirst
  <1>5. CASE responses = << >>
    <2>1. Len(responses) + 1 = 1
      BY <1>5
    <2>2. pipeline[1].write \in Refused
      BY <1>4, <2>1 DEF Answering
    <2> QED
      BY <1>1, <1>3, <2>2
  <1>6. CASE responses # << >>
    <2>0. (call = "live" => call = "live") /\ (call \in Refusal <=> call \in Refusal)
      OBVIOUS
    <2>1. responses[1] = pipeline[1] /\ pipeline[1].write \in applied
      BY <1>2, <1>4, <1>6, <2>0, AnsweringRead
    <2>3. 1 \in DOMAIN responses
      BY <1>2, <1>6, TailIs
    <2>2. \A v \in applied : Earlier(v, pipeline[1].write) /\ Author[v] = currentUser
                               => <<v, pipeline[1].write>> \in lastOrder
      BY <1>4, <2>1, <2>3 DEF AnswersStand, Before, Earlier
    <2> QED
      BY <1>1, <1>3, <2>1, <2>2
  <1> QED
    BY <1>5, <1>6

LEMMA RejectFlow ==
  ASSUME IInv, CloseAndReject, handshake, pipeline # << >>, call \in Refusal, Stored',
         faults' = faults
  PROVE  Flowing'
  <1> DEFINE pipe == Tail(pipeline)
             Q2 == queue'[currentUser]
  <1>1. /\ currentUser \in User /\ currentUser' = currentUser
        /\ queue[currentUser] \in Seq(Batch) /\ queue[currentUser] # << >>
        /\ Q2 = Tail(queue[currentUser])
        /\ queue' \in [User -> Seq(Batch)]
    BY RejectsTheFront, SettlingQueues
  <1>2. /\ pipeline \in Seq(Batch) /\ Len(pipeline) <= MaxPendingWrites
        /\ Len(pipeline) <= Len(queue[currentUser])
        /\ \A i \in DOMAIN pipeline : pipeline[i] = queue[currentUser][i]
        /\ MaxPendingWrites \in Nat
    BY FlowOfTypes
  <1>3. /\ handshake' = FALSE /\ call' = "none" /\ responses' = << >>
        /\ FillWritePipeline(pipe, "initial", << >>, FALSE)
        /\ applied' = applied
    BY DEF CloseAndReject, Leftover, backendVars
  <1>4. StoreTypes' /\ FlowTypes
    BY DEF IInv, Flowing, Stored
  <1>5. /\ pipe \in Seq(Batch) /\ Len(pipe) <= MaxPendingWrites
        /\ Len(pipe) <= Len(Q2) /\ \A i \in DOMAIN pipe : pipe[i] = Q2[i]
    <2>1. /\ pipe \in Seq(Batch) /\ Len(pipe) = Len(pipeline) - 1
          /\ DOMAIN pipe = 1 .. Len(pipeline) - 1
          /\ Len(pipeline) \in Nat \ {0} /\ DOMAIN pipeline = 1 .. Len(pipeline)
          /\ \A i \in DOMAIN pipe : pipe[i] = pipeline[i + 1] /\ i + 1 \in DOMAIN pipeline
      BY <1>2, TailIs
    <2>2. /\ Len(Q2) = Len(queue[currentUser]) - 1 /\ Len(queue[currentUser]) \in Nat \ {0}
          /\ \A i \in 1 .. Len(queue[currentUser]) - 1 : Q2[i] = queue[currentUser][i + 1]
      BY <1>1, TailIs
    <2>3. \A i \in DOMAIN pipe : i \in 1 .. Len(queue[currentUser]) - 1
      BY <1>2, <2>1, <2>2
    <2>4. \A i \in DOMAIN pipe : pipe[i] = Q2[i]
      BY <1>2, <2>1, <2>2, <2>3
    <2>5. Len(pipe) <= MaxPendingWrites /\ Len(pipe) <= Len(Q2)
      BY <1>2, <2>1, <2>2
    <2> QED
      BY <2>1, <2>4, <2>5
  <1>6. Q2 \in Seq(Batch) /\ Q2 = queue'[currentUser']
    BY <1>1
  <1> HIDE DEF pipe, Q2
  <1>7. << >> \in Seq(Batch \cup {Handshake}) /\ "initial" \in StreamStates
    BY DEF StreamStates
  <1>8. FilledFrom(pipe, "initial", << >>, FALSE, Q2)
    BY <1>3, <1>4, <1>5, <1>6, <1>7, Filling
  <1>9. /\ Filled' /\ pipeline' \in Seq(Batch) /\ Len(pipeline') <= MaxPendingWrites
        /\ requests' = << >>
        /\ stream' \in StreamStates \ {"open"}
    BY <1>8 DEF FilledFrom
  <1>10. idleTimer' = FALSE
    BY <1>8 DEF FilledFrom
  <1>11. Stretch(requests', queue', applied')
    <2>1. 0 + Len(<< >>) <= Len(Q2) /\ DOMAIN << >> = {} /\ 1 .. 0 = {}
      BY <1>6
    <2> QED
      BY <1>1, <1>6, <1>9, <2>1 DEF Stretch
  <1>12. Closed
    BY <1>3, <1>4, <1>7, <1>9, <1>10, <1>11 DEF Closed, FlowTypes
  <1> QED
    BY <1>12, ClosedFlow

-----------------------------------------------------------------------------
(* The backend and the network *)

(* A write that is served is pending, and what its user committed before it  *)
(* and is still pending is applied.                                          *)
LEMMA ServedIsPending ==
  ASSUME IInv, requests # << >>, Head(requests) # Handshake, call \notin Refusal
  PROVE  \E u \in User : \E k \in DOMAIN queue[u] :
           /\ Head(requests) = queue[u][k]
           /\ \A j \in 1 .. k - 1 : queue[u][j].write \in applied
  <1>1. /\ requests \in Seq(Batch \cup {Handshake}) /\ currentUser \in User
        /\ pipeline \in Seq(Batch)
        /\ \A i \in DOMAIN pipeline :
              i \in DOMAIN queue[currentUser] /\ pipeline[i] = queue[currentUser][i]
        /\ queue \in [User -> Seq(Batch)]
        /\ handshake => stream = "open"
    BY FlowOfTypes
  <1>2. 1 \in DOMAIN requests /\ Head(requests) = requests[1] /\ Len(requests) \in Nat \ {0}
    BY <1>1, TailIs
  <1>3. CASE handshake
    <2> DEFINE k == Len(pipeline) - Len(requests) + 1
    <2>1. /\ k \in DOMAIN pipeline /\ requests[1] = pipeline[k]
          /\ Len(pipeline) \in Nat
      BY <1>2, <1>3, AnswersAreBatches
    <2>2. Answering(pipeline, responses, requests, call, applied)
      BY <1>3 DEF IInv, Flowing, AnswersFirst
    <2>3. \A j \in 1 .. k - 1 : j \in DOMAIN pipeline /\ j <= Len(pipeline) - Len(requests)
      BY <1>1, <1>2, <2>1
    <2>4. \A j \in 1 .. k - 1 : pipeline[j].write \in applied
      BY <2>2, <2>3 DEF Answering
    <2> HIDE DEF k
    <2> QED
      BY <1>1, <1>2, <2>1, <2>3, <2>4
  <1>4. CASE stream = "open" /\ ~ handshake
    <2>1. requests = <<Handshake>>
      BY <1>4 DEF IInv, Flowing, CallStands
    <2> QED
      BY <2>1
  <1>5. CASE stream # "open"
    <2>1. requests # <<Handshake>>
      OBVIOUS
    <2>2. PICK u \in User, n \in Nat :
            /\ n + Len(requests) <= Len(queue[u])
            /\ \A i \in DOMAIN requests : requests[i] = queue[u][n + i]
            /\ \A i \in 1 .. n : queue[u][i].write \in applied
      BY <1>5, <2>1 DEF IInv, Flowing, LeftInOrder, Stretch
    <2>3. n + 1 \in DOMAIN queue[u] /\ (n + 1) - 1 = n
      BY <1>1, <1>2, <2>2
    <2> QED
      BY <1>2, <2>2, <2>3
  <1> QED
    BY <1>1, <1>3, <1>4, <1>5

LEMMA ServeStored ==
  ASSUME IInv, Serve \/ ServeLate
  PROVE  Stored'
  <1>1. Stored /\ UNCHANGED storeVars /\ requests # << >> /\ call \notin Refusal
    BY DEF Serve, ServeLate, Refusal, IInv
  <1>2. CASE UNCHANGED backendVars
    BY <1>1, <1>2, SameStored
  <1>3. CASE /\ Head(requests) # Handshake /\ Head(requests).write \notin Refused
             /\ Apply(Head(requests).write)
    <2>1. PICK u \in User : \E k \in DOMAIN queue[u] : Head(requests) = queue[u][k]
      BY <1>1, <1>3, ServedIsPending
    <2>2. PICK k \in DOMAIN queue[u] : Head(requests) = queue[u][k]
      BY <2>1
    <2> QED
      BY <1>1, <1>3, <2>2, ApplyStored
  <1> QED
    BY <1>2, <1>3 DEF Serve, ServeLate

(* Serving a request behind the answers leaves each of them later than what  *)
(* its user committed before it.                                             *)
LEMMA AnswersStillStand ==
  ASSUME IInv, handshake, NEW k \in DOMAIN pipeline, Len(responses) < k,
         Apply(pipeline[k].write)
  PROVE  /\ \A i \in DOMAIN responses : \A v \in applied' :
              Before(issued, v, responses[i].write) /\ Author[v] = currentUser =>
                <<v, responses[i].write>> \in lastOrder'
         /\ \A v \in applied' : Before(issued, v, pipeline[k].write) =>
              <<v, pipeline[k].write>> \in lastOrder'
  <1>1. PICK x : x = pipeline[k].write
    OBVIOUS
  <1>2. /\ applied' = applied \cup {x}
        /\ lastOrder' = {pair \in lastOrder : x \notin {pair[1], pair[2]}}
                        \cup {<<v, x>> : v \in applied \ {x}}
    BY <1>1 DEF Apply
  <1>3. /\ queue[currentUser] \in Seq(Batch) /\ pipeline \in Seq(Batch)
        /\ responses \in Seq(Batch \cup {Handshake})
        /\ currentUser \in User
        /\ \A i \in DOMAIN pipeline :
              i \in DOMAIN queue[currentUser] /\ pipeline[i] = queue[currentUser][i]
    BY FlowOfTypes
  <1>4. /\ Stored /\ AnswersStand /\ IsInjective(issued)
        /\ \A i, j \in DOMAIN queue[currentUser] :
             queue[currentUser][i].write = queue[currentUser][j].write => i = j
        /\ \A i \in DOMAIN queue[currentUser] :
             Author[queue[currentUser][i].write] = currentUser
    BY <1>3 DEF IInv, Flowing, Stored, QueuesKept, StoreTypes
  <1>5. x \in Write /\ k \in DOMAIN queue[currentUser] /\ queue[currentUser][k].write = x
        /\ Author[x] = currentUser
    <2>1. pipeline[k] = queue[currentUser][k] /\ pipeline[k] \in Batch
      BY <1>3
    <2> QED
      BY <1>1, <1>3, <1>4, <2>1 DEF Batch
  <1>6. applied \subseteq Write
    BY DEF IInv, Stored, StoreTypes
  <1>7. ASSUME NEW i \in DOMAIN responses, NEW v \in applied',
               Before(issued, v, responses[i].write), Author[v] = currentUser
        PROVE  <<v, responses[i].write>> \in lastOrder'
    <2>1. PICK r : r = responses[i].write
      OBVIOUS
    <2>2. /\ i \in DOMAIN queue[currentUser] /\ queue[currentUser][i].write = r
          /\ i \in Nat /\ i <= Len(responses)
      <3>1. i \in DOMAIN pipeline /\ responses[i] = pipeline[i]
        BY AnswersAreBatches
      <3>2. i \in Nat /\ i <= Len(responses)
        BY <1>3
      <3> QED
        BY <1>3, <2>1, <3>1, <3>2
    <2>3. r \in Write /\ Author[r] = currentUser
      <3>1. queue[currentUser][i] \in Batch
        BY <1>3, <2>2
      <3> QED
        BY <1>4, <2>2, <3>1 DEF Batch
    <2>4. k \in Nat /\ i < k /\ i # k
      BY <1>3, <2>2
    <2>5. r # x
      BY <1>4, <1>5, <2>2, <2>4
    <2>6. v # x
      <3> SUFFICES ASSUME v = x PROVE FALSE
        OBVIOUS
      <3>1. Earlier(x, r)
        BY <1>7, <2>1 DEF Before, Earlier
      <3>2. \E j \in DOMAIN queue[currentUser] : k < j /\ queue[currentUser][j].write = r
        BY <1>4, <1>5, <2>3, <3>1 DEF Stored, InOrder
      <3>3. PICK j \in DOMAIN queue[currentUser] : k < j /\ queue[currentUser][j].write = r
        BY <3>2
      <3>4. j = i
        BY <1>4, <2>2, <3>3
      <3> QED
        BY <2>2, <2>4, <3>3, <3>4
    <2>7. v \in applied
      BY <1>2, <2>6
    <2>8. <<v, r>> \in lastOrder
      BY <1>4, <1>7, <2>1, <2>7 DEF AnswersStand
    <2> QED
      BY <1>2, <2>1, <2>5, <2>6, <2>8
  <1>8. ASSUME NEW v \in applied', Before(issued, v, x)
        PROVE  <<v, x>> \in lastOrder'
    <2>1. v # x
      <3>1. issued \in Seq(Write)
        BY DEF IInv, Stored, StoreTypes
      <3>2. PICK i, j \in DOMAIN issued : i < j /\ issued[i] = v /\ issued[j] = x
        BY <1>8 DEF Before
      <3>3. v = x => i = j
        BY <1>4, <3>2 DEF IsInjective
      <3>4. i # j
        BY <3>1, <3>2
      <3> QED
        BY <3>3, <3>4
    <2> QED
      BY <1>2, <2>1
  <1> QED
    BY <1>1, <1>7, <1>8

(* The next request served has the answers right behind it, on a live call,  *)
(* and is answered or refused.                                               *)
LEMMA AnsweringServed ==
  ASSUME NEW pipe \in Seq(Batch), NEW read \in Seq(Batch \cup {Handshake}),
         NEW sent \in Seq(Batch \cup {Handshake}), sent # << >>,
         NEW state, state \notin Refusal, NEW done, NEW done2,
         Answering(pipe, read, sent, state, done), done \subseteq done2
  PROVE  /\ Head(sent).write \in done2 =>
              Answering(pipe, read, Tail(sent), "broken", done2)
         /\ Head(sent).write \in done2 /\ state = "live" =>
              Answering(pipe, Append(read, Head(sent)), Tail(sent), "live", done2)
         /\ Head(sent).write \in Refused /\ state = "live" =>
              Answering(pipe, read, Tail(sent), "refused", done2)
  <1> DEFINE rest == Tail(sent)
             k == Len(pipe) - Len(sent) + 1
  <1>1. /\ Len(pipe) \in Nat /\ Len(read) \in Nat /\ Len(sent) \in Nat \ {0}
        /\ DOMAIN pipe = 1 .. Len(pipe) /\ DOMAIN read = 1 .. Len(read)
        /\ DOMAIN sent = 1 .. Len(sent)
        /\ rest \in Seq(Batch \cup {Handshake})
        /\ Len(rest) \in Nat /\ Len(rest) + 1 = Len(sent)
        /\ DOMAIN rest = 1 .. Len(rest)
        /\ \A i \in DOMAIN rest : rest[i] = sent[i + 1] /\ i + 1 \in DOMAIN sent
        /\ Head(sent) = sent[1] /\ 1 \in DOMAIN sent
    <2>1. /\ Len(pipe) \in Nat /\ Len(read) \in Nat
          /\ DOMAIN pipe = 1 .. Len(pipe) /\ DOMAIN read = 1 .. Len(read)
      OBVIOUS
    <2>2. /\ rest \in Seq(Batch \cup {Handshake}) /\ Len(sent) \in Nat \ {0}
          /\ DOMAIN sent = 1 .. Len(sent) /\ Len(rest) = Len(sent) - 1
          /\ DOMAIN rest = 1 .. Len(sent) - 1
          /\ \A i \in 1 .. Len(sent) - 1 : i + 1 \in DOMAIN sent /\ rest[i] = sent[i + 1]
          /\ Head(sent) = sent[1] /\ 1 \in DOMAIN sent
      BY TailIs
    <2> HIDE DEF rest
    <2> QED
      BY <2>1, <2>2
  <1>2. Len(read) + Len(sent) <= Len(pipe)
    BY DEF Answering
  <1>11. /\ Len(pipe) \in Nat /\ Len(read) \in Nat /\ Len(sent) \in Nat
         /\ Len(rest) \in Nat /\ Len(rest) + 1 = Len(sent)
    BY <1>1
  <1>3. k \in DOMAIN pipe /\ Head(sent) = pipe[k] /\ Len(read) < k
    <2>1. sent[1] = pipe[k]
      BY <1>1 DEF Answering
    <2> QED
      BY <1>1, <1>2, <2>1
  <1> HIDE DEF rest
  <1>4. \A i \in DOMAIN rest : rest[i] = pipe[Len(pipe) - Len(rest) + i]
    <2> TAKE i \in DOMAIN rest
    <2>1. Len(pipe) - Len(rest) + i = Len(pipe) - Len(sent) + (i + 1)
      BY <1>1
    <2> QED
      BY <1>1, <2>1 DEF Answering
  <1>5. \A i \in DOMAIN read : read[i] = pipe[i]
    BY DEF Answering
  <1>6. \A i \in DOMAIN pipe : i < k => pipe[i].write \in done2
    <2> TAKE i \in DOMAIN pipe
    <2>1. i < k => i <= Len(pipe) - Len(sent)
      BY <1>1
    <2> QED
      BY <2>1 DEF Answering
  <1>7. \A i \in DOMAIN pipe : i <= Len(pipe) - Len(rest) => i <= k
    BY <1>1
  <1>8. \A i \in DOMAIN pipe : i <= Len(read) => i < k
    BY <1>1, <1>3
  <1>9. ASSUME Head(sent).write \in done2
        PROVE  /\ Answering(pipe, read, rest, "broken", done2)
               /\ state = "live" =>
                    Answering(pipe, Append(read, Head(sent)), rest, "live", done2)
    <2>1. \A i \in DOMAIN pipe : i <= k => pipe[i].write \in done2
      BY <1>1, <1>3, <1>6, <1>9
    <2>2. \A i \in DOMAIN pipe :
            \/ i <= Len(read)
            \/ i <= Len(pipe) - Len(rest)
            => pipe[i].write \in done2
      BY <1>6, <1>7, <1>8, <2>1
    <2>3. Len(read) + Len(rest) <= Len(pipe)
      BY <1>1, <1>2
    <2>4. Answering(pipe, read, rest, "broken", done2)
      BY <1>4, <1>5, <2>2, <2>3 DEF Answering, Refusal
    <2>5. ASSUME state = "live"
          PROVE  Answering(pipe, Append(read, Head(sent)), rest, "live", done2)
      <3> DEFINE more == Append(read, Head(sent))
      <3>1. Len(read) + Len(sent) = Len(pipe) /\ k = Len(read) + 1
        <4>1. Len(read) + Len(sent) = Len(pipe)
          BY <2>5 DEF Answering
        <4> HIDE DEF rest
        <4> QED
          BY <1>11, <4>1
      <3>2. Head(sent) \in Batch \cup {Handshake}
        BY <1>1
      <3>3. /\ Len(more) = Len(read) + 1 /\ DOMAIN more = 1 .. Len(read) + 1
            /\ \A i \in 1 .. Len(read) : more[i] = read[i]
            /\ more[Len(read) + 1] = Head(sent)
        BY <3>2, Appended
      <3> HIDE DEF more, k
      <3>4. Len(more) + Len(rest) = Len(pipe)
        <4>1. Len(more) = Len(read) + 1
          BY <3>3
        <4>2. \A m, n \in Nat : m = Len(read) + 1 /\ n + 1 = Len(sent) => m + n = Len(pipe)
          BY <1>11, <3>1
        <4>3. Len(more) \in Nat
          BY <1>11, <4>1
        <4> QED
          BY <1>11, <4>1, <4>2, <4>3
      <3>5. \A i \in DOMAIN more : more[i] = pipe[i]
        <4> TAKE i \in DOMAIN more
        <4>1. i \in DOMAIN read \/ i = k
          BY <1>1, <3>1, <3>3
        <4>2. i \in DOMAIN read => more[i] = read[i]
          BY <1>1, <3>3
        <4>3. more[k] = pipe[k]
          BY <1>3, <3>1, <3>3
        <4> QED
          BY <1>5, <4>1, <4>2, <4>3
      <3>6. \A i \in DOMAIN pipe : i <= Len(more) => i <= k
        BY <3>1, <3>3
      <3>7. \A i \in DOMAIN pipe :
              \/ i <= Len(more)
              \/ i <= Len(pipe) - Len(rest)
              => pipe[i].write \in done2
        BY <1>7, <2>1, <3>6
      <3>8. Len(more) + Len(rest) <= Len(pipe)
        BY <1>1, <3>4
      <3>9. "live" \notin Refusal
        BY DEF Refusal
      <3>10. Answering(pipe, more, rest, "live", done2)
        BY <1>4, <3>4, <3>5, <3>7, <3>8, <3>9 DEF Answering
      <3> QED
        BY <3>10 DEF more
    <2> QED
      BY <2>4, <2>5
  <1>10. ASSUME Head(sent).write \in Refused, state = "live"
         PROVE  Answering(pipe, read, rest, "refused", done2)
    <2>1. Len(read) + Len(sent) = Len(pipe) /\ k = Len(read) + 1
      <3>1. Len(read) + Len(sent) = Len(pipe)
        BY <1>10 DEF Answering
      <3> QED
        BY <1>11, <3>1
    <2> HIDE DEF k
    <2>2. Len(read) + Len(rest) + 1 = Len(pipe) /\ Len(read) + Len(rest) <= Len(pipe)
      BY <1>11, <2>1
    <2>3. pipe[Len(read) + 1].write \in Refused
      BY <1>3, <1>10, <2>1
    <2>4. \A i \in DOMAIN pipe : i <= Len(read) => pipe[i].write \in done2
      BY <1>6, <1>8
    <2>5. "refused" \in Refusal
      BY DEF Refusal
    <2> QED
      BY <1>4, <1>5, <2>2, <2>3, <2>4, <2>5 DEF Answering
  <1> QED
    BY <1>9, <1>10 DEF rest

(* Losing answers from some point on leaves those before it.                 *)
LEMMA AnsweringLost ==
  ASSUME NEW pipe \in Seq(Batch), NEW read \in Seq(Batch \cup {Handshake}),
         NEW sent \in Seq(Batch \cup {Handshake}),
         NEW state, state \notin Refusal, NEW done, NEW n \in 0 .. Len(read),
         Answering(pipe, read, sent, state, done)
  PROVE  /\ Answering(pipe, SubSeq(read, 1, n), sent, "broken", done)
         /\ SubSeq(read, 1, n) \in Seq(Batch \cup {Handshake})
         /\ \A i \in DOMAIN SubSeq(read, 1, n) :
              i \in DOMAIN read /\ SubSeq(read, 1, n)[i] = read[i]
  <1>1. PICK rest : rest = SubSeq(read, 1, n)
    OBVIOUS
  <1>2. /\ Len(pipe) \in Nat /\ Len(read) \in Nat /\ Len(sent) \in Nat /\ n \in Nat
        /\ n <= Len(read)
        /\ rest \in Seq(Batch \cup {Handshake}) /\ Len(rest) = n
        /\ \A i \in 1 .. n : i \in DOMAIN read /\ rest[i] = read[i]
    BY <1>1
  <1>3. \A i \in DOMAIN rest : i \in DOMAIN read /\ rest[i] = read[i]
    BY <1>2
  <1>4. Len(rest) + Len(sent) <= Len(pipe)
    <2>1. Len(read) + Len(sent) <= Len(pipe)
      BY DEF Answering
    <2> QED
      BY <1>2, <2>1
  <1>5. \A i \in DOMAIN pipe : i <= Len(rest) => i <= Len(read)
    BY <1>2
  <1>6. Answering(pipe, rest, sent, "broken", done)
    BY <1>3, <1>4, <1>5 DEF Answering, Refusal
  <1> QED
    BY <1>1, <1>2, <1>3, <1>6

(* The request served is the first batch of the pipeline not yet served.     *)
LEMMA ServedIsPipelined ==
  ASSUME IInv, handshake, requests # << >>
  PROVE  /\ \E k \in DOMAIN pipeline : Head(requests) = pipeline[k] /\ Len(responses) < k
         /\ Head(requests) \in Batch /\ Head(requests) # Handshake
         /\ stream = "open"
         /\ Answering(pipeline, responses, requests, call, applied)
  <1>1. /\ requests \in Seq(Batch \cup {Handshake}) /\ pipeline \in Seq(Batch)
        /\ Handshake \notin Batch /\ stream = "open"
    BY FlowOfTypes
  <1>2. 1 \in DOMAIN requests /\ Head(requests) = requests[1]
    BY <1>1, TailIs
  <1>3. PICK k : k = Len(pipeline) - Len(requests) + 1
    OBVIOUS
  <1>4. k \in DOMAIN pipeline /\ Len(responses) < k /\ requests[1] = pipeline[k]
    BY <1>2, <1>3, AnswersAreBatches
  <1>5. pipeline[k] \in Batch
    BY <1>1, <1>4
  <1>6. Answering(pipeline, responses, requests, call, applied)
    BY DEF IInv, Flowing, AnswersFirst
  <1> QED
    BY <1>1, <1>2, <1>4, <1>5, <1>6

LEMMA ServeFlow ==
  ASSUME IInv, Serve
  PROVE  Flowing'
  <1>1. /\ call = "live" /\ requests # << >> /\ requests' = Tail(requests)
        /\ queue' = queue /\ currentUser' = currentUser /\ issued' = issued
        /\ pipeline' = pipeline /\ stream' = stream /\ handshake' = handshake
        /\ idleTimer' = idleTimer /\ faults' = faults
    BY DEF Serve, storeVars
  <1>2. FlowTypes /\ Filled /\ CallStands /\ IdleHasNothingToSend /\ AnswersStand
    BY DEF IInv, Flowing
  <1>3. /\ requests \in Seq(Batch \cup {Handshake}) /\ pipeline \in Seq(Batch)
        /\ responses \in Seq(Batch \cup {Handshake})
    BY FlowOfTypes
  <1>4. stream = "open" /\ call \notin Refusal
    BY <1>1, <1>2 DEF FlowTypes, Refusal
  <1>5. Tail(requests) \in Seq(Batch \cup {Handshake})
    BY <1>1, <1>3, TailIs
  <1>6. /\ call' \in {"live", "refused"}
        /\ responses' = responses \/ responses' = Append(responses, Head(requests))
    BY <1>1 DEF Serve
  <1>7. responses' \in Seq(Batch \cup {Handshake})
    <2>1. Head(requests) \in Batch \cup {Handshake}
      BY <1>1, <1>3, TailIs
    <2>2. Append(responses, Head(requests)) \in Seq(Batch \cup {Handshake})
      BY <1>3, <2>1, Appended
    <2> QED
      BY <1>3, <1>6, <2>2
  <1>8. FlowTypes' /\ Filled' /\ IdleHasNothingToSend' /\ LeftInOrder'
    BY <1>1, <1>2, <1>4, <1>5, <1>6, <1>7
       DEF FlowTypes, Filled, IdleHasNothingToSend, LeftInOrder
  <1>9. CASE ~ handshake
    <2>1. requests = <<Handshake>> /\ responses = << >>
      BY <1>1, <1>2, <1>4, <1>9 DEF CallStands
    <2>2. Head(requests) = Handshake /\ Tail(requests) = << >>
      BY <2>1
    <2>3. responses' = Append(responses, Handshake) /\ call' = "live"
      BY <1>1, <2>2 DEF Serve
    <2>4. responses' = <<Handshake>> /\ requests' = << >>
      BY <1>1, <2>1, <2>2, <2>3
    <2>5. CallStands'
      BY <1>1, <1>2, <1>4, <1>9, <2>3, <2>4 DEF CallStands
    <2>6. AnswersFirst' /\ AnswersStand'
      BY <1>1, <1>9 DEF AnswersFirst, AnswersStand
    <2> QED
      BY <1>8, <2>5, <2>6 DEF Flowing
  <1>10. CASE handshake
    <2>1. PICK k \in DOMAIN pipeline : Head(requests) = pipeline[k] /\ Len(responses) < k
      BY <1>1, <1>10, ServedIsPipelined
    <2>2. /\ Head(requests) \in Batch /\ Head(requests) # Handshake
          /\ Answering(pipeline, responses, requests, call, applied)
      BY <1>1, <1>10, ServedIsPipelined
    <2>3. CallStands'
      BY <1>1, <1>2, <1>4, <1>6, <1>10 DEF CallStands
    <2>4. CASE /\ Head(requests).write \notin Refused
               /\ Apply(Head(requests).write)
               /\ responses' = Append(responses, Head(requests))
               /\ UNCHANGED call
      <3>1. applied \subseteq applied' /\ Head(requests).write \in applied'
        BY <2>4 DEF Apply
      <3>2. Answering(pipeline, responses', requests', call', applied')
        BY <1>1, <1>3, <1>4, <2>2, <2>4, <3>1, AnsweringServed
      <3>3. AnswersFirst'
        BY <1>1, <3>2 DEF AnswersFirst
      <3>4. /\ \A i \in DOMAIN responses : \A v \in applied' :
                  Before(issued, v, responses[i].write) /\ Author[v] = currentUser =>
                    <<v, responses[i].write>> \in lastOrder'
            /\ \A v \in applied' : Before(issued, v, Head(requests).write) =>
                  <<v, Head(requests).write>> \in lastOrder'
        BY <1>10, <2>1, <2>4, AnswersStillStand
      <3>5. \A i \in DOMAIN responses' :
              \/ i \in DOMAIN responses /\ responses'[i] = responses[i]
              \/ responses'[i] = Head(requests)
        <4>1. Head(requests) \in Batch \cup {Handshake}
          BY <2>2
        <4>2. /\ DOMAIN responses' = 1 .. Len(responses) + 1
              /\ DOMAIN responses = 1 .. Len(responses) /\ Len(responses) \in Nat
              /\ \A i \in 1 .. Len(responses) : responses'[i] = responses[i]
              /\ responses'[Len(responses) + 1] = Head(requests)
          BY <1>3, <2>4, <4>1, Appended
        <4>3. \A i \in 1 .. Len(responses) + 1 :
                i \in 1 .. Len(responses) \/ i = Len(responses) + 1
          BY <4>2
        <4> QED
          BY <4>2, <4>3
      <3>6. AnswersStand'
        BY <1>1, <3>4, <3>5 DEF AnswersStand
      <3> QED
        BY <1>8, <2>3, <3>3, <3>6 DEF Flowing
    <2>5. CASE /\ Head(requests).write \in Refused
               /\ call' = "refused" /\ UNCHANGED <<responses, backendVars>>
      <3>1. applied' = applied /\ lastOrder' = lastOrder /\ responses' = responses
        BY <2>5 DEF backendVars
      <3>2. Answering(pipeline, responses', requests', call', applied')
        BY <1>1, <1>3, <1>4, <2>2, <2>5, <3>1, AnsweringServed
      <3>3. AnswersFirst'
        BY <1>1, <3>2 DEF AnswersFirst
      <3>4. AnswersStand'
        BY <1>1, <1>2, <3>1 DEF AnswersStand
      <3> QED
        BY <1>8, <2>3, <3>3, <3>4 DEF Flowing
    <2> QED
      BY <2>2, <2>4, <2>5 DEF Serve
  <1> QED
    BY <1>9, <1>10

LEMMA ServeLateFlow ==
  ASSUME IInv, ServeLate
  PROVE  Flowing'
  <1>1. /\ call \in {"none", "broken"} /\ requests # << >> /\ requests' = Tail(requests)
        /\ queue' = queue /\ currentUser' = currentUser /\ issued' = issued
        /\ pipeline' = pipeline /\ stream' = stream /\ handshake' = handshake
        /\ idleTimer' = idleTimer /\ faults' = faults
        /\ responses' = responses /\ call' = call
    BY DEF ServeLate, storeVars
  <1>2. /\ FlowTypes /\ Filled /\ CallStands /\ IdleHasNothingToSend
        /\ AnswersStand /\ LeftInOrder
    BY DEF IInv, Flowing
  <1>3. /\ requests \in Seq(Batch \cup {Handshake}) /\ pipeline \in Seq(Batch)
        /\ responses \in Seq(Batch \cup {Handshake})
        /\ queue \in [User -> Seq(Batch)] /\ Handshake \notin Batch
        /\ currentUser \in User
    BY FlowOfTypes
  <1>4. /\ Tail(requests) \in Seq(Batch \cup {Handshake})
        /\ Len(requests) \in Nat \ {0} /\ Len(Tail(requests)) + 1 = Len(requests)
        /\ \A i \in DOMAIN Tail(requests) :
             i \in Nat /\ i + 1 \in DOMAIN requests /\ Tail(requests)[i] = requests[i + 1]
        /\ Head(requests) = requests[1] /\ 1 \in DOMAIN requests
    <2>1. /\ Tail(requests) \in Seq(Batch \cup {Handshake})
          /\ Len(requests) \in Nat \ {0} /\ Len(Tail(requests)) = Len(requests) - 1
          /\ DOMAIN Tail(requests) = 1 .. Len(requests) - 1
          /\ \A i \in 1 .. Len(requests) - 1 :
               i + 1 \in DOMAIN requests /\ Tail(requests)[i] = requests[i + 1]
          /\ Head(requests) = requests[1] /\ 1 \in DOMAIN requests
      BY <1>1, <1>3, TailIs
    <2> QED
      BY <2>1
  <1>5. FlowTypes' /\ Filled' /\ IdleHasNothingToSend'
    BY <1>1, <1>2, <1>4 DEF FlowTypes, Filled, IdleHasNothingToSend
  <1>6. call \notin Refusal /\ (handshake => stream = "open")
    BY <1>1, <1>2 DEF Refusal, CallStands
  <1>7. CASE handshake
    <2>1. PICK k \in DOMAIN pipeline : Head(requests) = pipeline[k] /\ Len(responses) < k
      BY <1>1, <1>7, ServedIsPipelined
    <2>2. /\ Head(requests) # Handshake
          /\ Answering(pipeline, responses, requests, call, applied)
      BY <1>1, <1>7, ServedIsPipelined
    <2>3. Apply(Head(requests).write)
      BY <2>2 DEF ServeLate
    <2>4. applied \subseteq applied' /\ Head(requests).write \in applied'
      BY <2>3 DEF Apply
    <2>5. call = "broken"
      BY <1>1, <1>2, <1>6, <1>7 DEF CallStands
    <2>6. Answering(pipeline, responses', requests', call', applied')
      BY <1>1, <1>3, <1>6, <2>2, <2>4, <2>5, AnsweringServed
    <2>7. \A i \in DOMAIN responses : \A v \in applied' :
            Before(issued, v, responses[i].write) /\ Author[v] = currentUser =>
              <<v, responses[i].write>> \in lastOrder'
      BY <1>7, <2>1, <2>3, AnswersStillStand
    <2>8. AnswersFirst' /\ AnswersStand'
      BY <1>1, <2>6, <2>7 DEF AnswersFirst, AnswersStand
    <2>9. CallStands' /\ LeftInOrder'
      BY <1>1, <1>2, <1>6, <1>7 DEF CallStands, LeftInOrder
    <2> QED
      BY <1>5, <2>8, <2>9 DEF Flowing
  <1>8. CASE ~ handshake
    <2>1. AnswersFirst' /\ AnswersStand'
      BY <1>1, <1>8 DEF AnswersFirst, AnswersStand
    <2>2. CASE stream = "open"
      <3>1. requests = <<Handshake>> /\ responses = << >>
        BY <1>1, <1>2, <1>8, <2>2 DEF CallStands
      <3>2. requests' = << >>
        BY <1>1, <3>1
      <3>3. CallStands' /\ LeftInOrder'
        BY <1>1, <1>2, <1>8, <2>2, <3>1, <3>2 DEF CallStands, LeftInOrder
      <3> QED
        BY <1>5, <2>1, <3>3 DEF Flowing
    <2>3. CASE stream # "open"
      <3>1. CallStands'
        BY <1>1, <1>2, <1>8, <2>3 DEF CallStands
      <3>2. CASE requests = <<Handshake>>
        <4>1. requests' = << >>
          BY <1>1, <3>2
        <4>2. 0 + Len(<< >>) <= Len(queue[currentUser]) /\ DOMAIN << >> = {} /\ 1 .. 0 = {}
          BY <1>3
        <4>3. Stretch(requests', queue', applied')
          BY <1>1, <1>3, <4>1, <4>2 DEF Stretch
        <4> QED
          BY <1>5, <2>1, <3>1, <4>3 DEF Flowing, LeftInOrder
      <3>3. CASE requests # <<Handshake>>
        <4>1. PICK u \in User, n \in Nat :
                /\ n + Len(requests) <= Len(queue[u])
                /\ \A i \in DOMAIN requests : requests[i] = queue[u][n + i]
                /\ \A i \in 1 .. n : queue[u][i].write \in applied
          BY <1>2, <2>3, <3>3 DEF LeftInOrder, Stretch
        <4>2. n + 1 \in DOMAIN queue[u]
          BY <1>3, <1>4, <4>1
        <4>3. Head(requests) = queue[u][n + 1] /\ Head(requests) # Handshake
          <5>1. queue[u] \in Seq(Batch)
            BY <1>3
          <5>2. queue[u][n + 1] \in Batch
            BY <4>2, <5>1
          <5> QED
            BY <1>3, <1>4, <4>1, <5>2
        <4>4. Apply(queue[u][n + 1].write)
          BY <4>3 DEF ServeLate
        <4>5. applied' = applied \cup {queue[u][n + 1].write}
          BY <4>4 DEF Apply
        <4>6. \A i \in 1 .. n + 1 : i \in 1 .. n \/ i = n + 1
          OBVIOUS
        <4>7. \A i \in 1 .. n + 1 : queue[u][i].write \in applied'
          BY <4>1, <4>5, <4>6
        <4>8. n + 1 \in Nat /\ n + 1 + Len(requests') <= Len(queue[u])
          <5>1. Len(queue[u]) \in Nat /\ Len(Tail(requests)) \in Nat
            BY <1>3, <1>4
          <5> QED
            BY <1>1, <1>4, <4>1, <5>1
        <4>9. \A i \in DOMAIN requests' : requests'[i] = queue[u][n + 1 + i]
          <5> TAKE i \in DOMAIN requests'
          <5>1. requests'[i] = requests[i + 1] /\ i + 1 \in DOMAIN requests /\ i \in Nat
            BY <1>1, <1>4
          <5>2. n + (i + 1) = n + 1 + i
            BY <5>1
          <5> QED
            BY <4>1, <5>1, <5>2
        <4>10. Stretch(requests', queue', applied')
          BY <1>1, <4>7, <4>8, <4>9 DEF Stretch
        <4> QED
          BY <1>5, <2>1, <3>1, <4>10 DEF Flowing, LeftInOrder
      <3> QED
        BY <3>2, <3>3
    <2> QED
      BY <2>2, <2>3
  <1> QED
    BY <1>7, <1>8

LEMMA CallFailsFlow ==
  ASSUME IInv, CallFails
  PROVE  Flowing'
  <1>1. /\ call = "live" /\ requests' = requests
        /\ queue' = queue /\ currentUser' = currentUser /\ issued' = issued
        /\ pipeline' = pipeline /\ stream' = stream /\ handshake' = handshake
        /\ idleTimer' = idleTimer
        /\ applied' = applied /\ lastOrder' = lastOrder
        /\ faults' = faults + 1 /\ faults < MaxFaults
    BY DEF CallFails, Fault, storeVars, backendVars
  <1>2. /\ FlowTypes /\ Filled /\ CallStands /\ IdleHasNothingToSend /\ AnswersStand
        /\ MaxFaults \in Nat
    BY PipelineAssumption DEF IInv, Flowing
  <1>3. /\ requests \in Seq(Batch \cup {Handshake}) /\ pipeline \in Seq(Batch)
        /\ responses \in Seq(Batch \cup {Handshake})
    BY FlowOfTypes
  <1>4. stream = "open" /\ call \notin Refusal /\ faults' \in 0 .. MaxFaults
    BY <1>1, <1>2 DEF FlowTypes, Refusal
  <1>5. Filled' /\ IdleHasNothingToSend' /\ LeftInOrder'
    BY <1>1, <1>2, <1>4 DEF Filled, IdleHasNothingToSend, LeftInOrder
  <1>6. CASE call' = "broken" /\ \E n \in 0 .. Len(responses) : responses' = SubSeq(responses, 1, n)
    <2>1. PICK n \in 0 .. Len(responses) : responses' = SubSeq(responses, 1, n)
      BY <1>6
    <2>2. responses' \in Seq(Batch \cup {Handshake})
          /\ \A i \in DOMAIN responses' : i \in DOMAIN responses /\ responses'[i] = responses[i]
      <3>1. \A i \in 1 .. n : i \in DOMAIN responses
        BY <1>3
      <3> QED
        BY <1>3, <2>1, <3>1
    <2>3. FlowTypes'
      BY <1>1, <1>2, <1>4, <1>6, <2>2 DEF FlowTypes
    <2>4. CASE handshake
      <3>1. Answering(pipeline, responses, requests, call, applied)
        BY <2>4 DEF IInv, Flowing, AnswersFirst
      <3>2. Answering(pipeline, responses', requests, "broken", applied)
        BY <1>3, <1>4, <2>1, <3>1, AnsweringLost
      <3>3. AnswersFirst'
        BY <1>1, <1>6, <3>2 DEF AnswersFirst
      <3>4. AnswersStand'
        BY <1>1, <1>2, <2>2 DEF AnswersStand
      <3>5. CallStands'
        BY <1>1, <1>2, <1>4, <1>6, <2>4 DEF CallStands
      <3> QED
        BY <1>5, <2>3, <3>3, <3>4, <3>5 DEF Flowing
    <2>5. CASE ~ handshake
      <3>1. AnswersFirst' /\ AnswersStand'
        BY <1>1, <2>5 DEF AnswersFirst, AnswersStand
      <3>2. \/ requests = <<Handshake>> /\ responses = << >>
            \/ requests = << >> /\ responses \in {<< >>, <<Handshake>>}
        BY <1>2, <1>4, <2>5 DEF CallStands
      <3>3. responses = << >> => responses' = << >>
        BY <2>1
      <3>4. responses = <<Handshake>> => responses' \in {<< >>, <<Handshake>>}
        <4> SUFFICES ASSUME responses = <<Handshake>>
                     PROVE  responses' \in {<< >>, <<Handshake>>}
          OBVIOUS
        <4>1. n = 0 \/ n = 1
          BY <2>1
        <4>2. <<Handshake>> \in Seq({Handshake}) /\ Len(<<Handshake>>) = 1
          OBVIOUS
        <4>3. SubSeq(<<Handshake>>, 1, 1) = <<Handshake>>
          BY <4>2, SubSeqFull
        <4>4. n = 0 => responses' = << >>
          BY <2>1
        <4> QED
          BY <2>1, <4>1, <4>3, <4>4
      <3>5. CallStands'
        BY <1>1, <1>2, <1>4, <1>6, <2>5, <3>2, <3>3, <3>4 DEF CallStands
      <3> QED
        BY <1>5, <2>3, <3>1, <3>5 DEF Flowing
    <2> QED
      BY <2>4, <2>5
  <1>7. CASE /\ requests # << >> /\ Head(requests) = Handshake
             /\ call' = "refused" /\ UNCHANGED responses
    <2>1. ~ handshake
      BY <1>7, ServedIsPipelined
    <2>2. FlowTypes'
      BY <1>1, <1>2, <1>4, <1>7 DEF FlowTypes
    <2>3. AnswersFirst' /\ AnswersStand'
      BY <1>1, <2>1 DEF AnswersFirst, AnswersStand
    <2>4. CallStands'
      BY <1>1, <1>2, <1>4, <1>7, <2>1 DEF CallStands
    <2> QED
      BY <1>5, <2>2, <2>3, <2>4 DEF Flowing
  <1> QED
    BY <1>6, <1>7 DEF CallFails

-----------------------------------------------------------------------------
(* Every step *)

LEMMA FaultCounts ==
  ASSUME FlowTypes
  PROVE  /\ faults \in 0 .. MaxFaults
         /\ Fault => faults' \in 0 .. MaxFaults
  BY PipelineAssumption DEF FlowTypes, Fault

LEMMA FinishStep == IInv /\ OnStreamFinish => IInv'
  <1> SUFFICES ASSUME IInv, OnStreamFinish PROVE IInv'
    OBVIOUS
  <1>1. faults' = faults /\ faults' \in 0 .. MaxFaults
    BY FaultCounts DEF OnStreamFinish, IInv, Flowing
  <1>2. CASE handshake /\ pipeline # << >> /\ call \in Refusal
    <2>1. CloseAndReject
      BY <1>2 DEF OnStreamFinish
    <2>2. Stored'
      BY <1>2, <2>1, RejectsTheFront, SettleStored
    <2> QED
      BY <1>1, <1>2, <2>1, <2>2, RejectFlow DEF IInv
  <1>3. CASE ~ (handshake /\ pipeline # << >> /\ call \in Refusal)
    <2>1. CloseAndRetry
      BY <1>3 DEF OnStreamFinish
    <2>2. Stored'
      BY <2>1, SameStored DEF CloseAndRetry, IInv
    <2> QED
      BY <1>1, <2>1, <2>2, RetryFlow DEF IInv
  <1> QED
    BY <1>2, <1>3

LEMMA CredentialsFailStep == IInv /\ CredentialsFail => IInv'
  <1> SUFFICES ASSUME IInv, CredentialsFail PROVE IInv'
    OBVIOUS
  <1>1. CloseAndRetry /\ faults' \in 0 .. MaxFaults
    BY FaultCounts DEF CredentialsFail, IInv, Flowing
  <1>2. Stored'
    BY <1>1, SameStored DEF CloseAndRetry, IInv
  <1> QED
    BY <1>1, <1>2, RetryFlow DEF IInv

LEMMA RestartSteps ==
  ASSUME IInv
  PROVE  /\ \A user \in User : ChangeUser(user) => IInv'
         /\ RestartNetwork => IInv'
         /\ Relaunch => IInv'
  <1>1. FlowTypes /\ Stored
    BY DEF IInv, Flowing
  <1>2. ASSUME NEW user \in User, ChangeUser(user) PROVE IInv'
    <2>1. Stored'
      BY <1>1, <1>2, ChangeUserStored
    <2>2. Restart /\ queue' = queue /\ faults' \in 0 .. MaxFaults
      BY <1>1, <1>2, FaultCounts DEF ChangeUser
    <2> QED
      BY <2>1, <2>2, RestartFlow DEF IInv
  <1>3. ASSUME RestartNetwork PROVE IInv'
    <2>1. Stored'
      BY <1>1, <1>3, SameStored DEF RestartNetwork, Restart
    <2>2. Restart /\ queue' = queue /\ faults' \in 0 .. MaxFaults
      BY <1>1, <1>3, FaultCounts DEF RestartNetwork, storeVars
    <2> QED
      BY <2>1, <2>2, RestartFlow DEF IInv
  <1>4. ASSUME Relaunch PROVE IInv'
    <2>1. Stored'
      BY <1>4, RelaunchStored
    <2>2. Restart /\ queue' = queue /\ faults' \in 0 .. MaxFaults
      BY <1>1, <1>4, FaultCounts DEF Relaunch
    <2> QED
      BY <2>1, <2>2, RestartFlow DEF IInv
  <1> QED
    BY <1>2, <1>3, <1>4

LEMMA Stuttering == IInv /\ UNCHANGED vars => IInv'
  <1> SUFFICES ASSUME IInv, UNCHANGED vars PROVE IInv'
    OBVIOUS
  <1>1. Stored'
    BY SameStored DEF IInv, vars
  <1>2. /\ queue' = queue /\ currentUser' = currentUser /\ issued' = issued
        /\ pipeline' = pipeline /\ stream' = stream /\ handshake' = handshake
        /\ idleTimer' = idleTimer /\ requests' = requests /\ responses' = responses
        /\ call' = call /\ applied' = applied /\ lastOrder' = lastOrder /\ faults' = faults
    BY DEF vars, storeVars, callVars, backendVars
  <1>3. FlowTypes' /\ Filled' /\ CallStands' /\ IdleHasNothingToSend'
    BY <1>2 DEF IInv, Flowing, FlowTypes, Filled, CallStands, IdleHasNothingToSend
  <1>4. AnswersFirst' /\ LeftInOrder' /\ AnswersStand'
    BY <1>2 DEF IInv, Flowing, AnswersFirst, LeftInOrder, AnswersStand
  <1> QED
    BY <1>1, <1>3, <1>4 DEF IInv, Flowing

LEMMA NextStep == IInv /\ [Next]_vars => IInv'
  <1> SUFFICES ASSUME IInv, [Next]_vars PROVE IInv'
    OBVIOUS
  <1>0. Stored
    BY DEF IInv
  <1>1. ASSUME NEW w \in Write, WriteMutations(w) PROVE IInv'
    BY <1>0, <1>1, CommitStored, CommitFlow DEF IInv
  <1>2. OnStreamStart => IInv'
    <2>1. OnStreamStart => Stored'
      BY <1>0, SameStored DEF OnStreamStart
    <2> QED
      BY <2>1, StartFlow DEF IInv
  <1>3. OnHandshakeComplete => IInv'
    <2>1. OnHandshakeComplete => Stored'
      BY <1>0, SameStored DEF OnHandshakeComplete
    <2> QED
      BY <2>1, HandshakeFlow DEF IInv
  <1>4. OnMutationResult => IInv'
    <2>1. OnMutationResult => Stored'
      BY AnswerIsOfTheFront, SettleStored
    <2> QED
      BY <2>1, ResultFlow DEF IInv
  <1>5. BackoffElapses => IInv'
    <2>1. BackoffElapses => Stored'
      BY <1>0, SameStored DEF BackoffElapses
    <2> QED
      BY <2>1, BackoffFlow DEF IInv
  <1>6. IdleTimeout => IInv'
    <2>1. IdleTimeout => Stored'
      BY <1>0, SameStored DEF IdleTimeout
    <2> QED
      BY <2>1, IdleFlow DEF IInv
  <1>7. Serve => IInv'
    BY ServeStored, ServeFlow DEF IInv
  <1>8. ServeLate => IInv'
    BY ServeStored, ServeLateFlow DEF IInv
  <1>9. CallFails => IInv'
    <2>1. CallFails => Stored'
      BY <1>0, SameStored DEF CallFails
    <2> QED
      BY <2>1, CallFailsFlow DEF IInv
  <1> QED
    BY <1>1, <1>2, <1>3, <1>4, <1>5, <1>6, <1>7, <1>8, <1>9,
       FinishStep, CredentialsFailStep, RestartSteps, Stuttering DEF Next

(* The client, the calls and the backend agree on what is pending, answered  *)
(* and applied, and keep doing so with every step.                           *)
THEOREM WriteInvariant == Spec => []IInv
  BY Initially, NextStep, PTL DEF Spec

(* Every variable keeps its type, for any users, writes and faults. *)
THEOREM WriteTypes == Spec => []TypeOK
  <1>1. IInv => TypeOK
    BY TypesTogether DEF IInv, Stored, Flowing
  <1> QED
    BY <1>1, WriteInvariant, PTL

LEMMA PrefixOf ==
  ASSUME NEW S, NEW s \in Seq(S), NEW t \in Seq(S), Len(s) <= Len(t),
         \A i \in DOMAIN s : s[i] = t[i]
  PROVE  IsPrefix(s, t)
  <1>1. SubSeq(s, 1, Len(s)) = s
    BY SubSeqFull
  <1>2. PICK r : r = SubSeq(t, 1, Len(s))
    OBVIOUS
  <1>3. r \in Seq(S) /\ Len(r) = Len(s) /\ \A i \in 1 .. Len(s) : r[i] = s[i]
    BY <1>2
  <1>4. r = s
    BY <1>3, SeqEqual
  <1> QED
    BY <1>1, <1>2, <1>4 DEF IsPrefix

(* An answer read past the handshake is the one to the front of the pipeline,*)
(* which holds what the user's queue begins with: OnWriteStreamMutationResult *)
(* settles the write that was answered.                                      *)
THEOREM AnswersMatch == Spec => []AnswersComeInOrder
  <1>1. ASSUME IInv PROVE AnswersComeInOrder
    <2>1. IsPrefix(pipeline, queue[currentUser])
      <3>1. /\ pipeline \in Seq(Batch) /\ queue[currentUser] \in Seq(Batch)
            /\ Len(pipeline) <= Len(queue[currentUser])
            /\ \A i \in DOMAIN pipeline : pipeline[i] = queue[currentUser][i]
        BY <1>1, FlowOfTypes
      <3> QED
        BY <3>1, PrefixOf
    <2>2. ASSUME handshake PROVE IsPrefix(responses, pipeline)
      <3>1. /\ Len(pipeline) \in Nat /\ Len(responses) \in Nat /\ Len(requests) \in Nat
            /\ Len(responses) + Len(requests) <= Len(pipeline)
            /\ \A i \in DOMAIN responses : responses[i] = pipeline[i]
        BY <1>1, <2>2, AnswersAreBatches
      <3>2. pipeline \in Seq(Batch \cup {Handshake}) /\ responses \in Seq(Batch \cup {Handshake})
        BY <1>1, FlowOfTypes
      <3>3. Len(responses) <= Len(pipeline)
        BY <3>1
      <3> QED
        BY <3>1, <3>2, <3>3, PrefixOf
    <2> QED
      BY <2>1, <2>2 DEF AnswersComeInOrder
  <1>2. IInv => AnswersComeInOrder
    BY <1>1
  <1> QED
    BY <1>2, WriteInvariant, PTL

(* A stream that waits for its idle timer has nothing to send. *)
THEOREM IdleIsIdle == Spec => []IdleHasNothingToSend
  <1>1. IInv => IdleHasNothingToSend
    BY DEF IInv, Flowing
  <1> QED
    BY <1>1, WriteInvariant, PTL

(* A callback waits for each pending write of this launch, under its id. *)
THEOREM CallbacksWait == Spec => []CallbacksAreOfTheirWrites
  <1>1. IInv => CallbacksAreOfTheirWrites
    BY CallbacksTogether DEF IInv, Stored
  <1> QED
    BY <1>1, WriteInvariant, PTL

(* An author is told when a write is settled, and of success only if it is   *)
(* applied.                                                                  *)
THEOREM AuthorsAreTold == Spec => []ToldTheTruth
  <1>1. IInv => ToldTheTruth
    BY DEF IInv, Stored
  <1> QED
    BY <1>1, WriteInvariant, PTL

(* What a user committed last is what the backend ends up with, although a   *)
(* write may be applied again when a call was lost.                          *)
THEOREM LastWins == Spec => []LastWriteStands
  <1>1. IInv => LastWriteStands
    BY DEF IInv, Stored
  <1> QED
    BY <1>1, WriteInvariant, PTL

-----------------------------------------------------------------------------
(* What a commit promises *)

WritesOf(batches) == [i \in DOMAIN batches |-> batches[i].write]

LEMMA WritesAre ==
  ASSUME NEW q \in Seq(Batch)
  PROVE  /\ WritesOf(q) \in Seq(Write)
         /\ Len(WritesOf(q)) = Len(q)
         /\ DOMAIN WritesOf(q) = 1 .. Len(q)
         /\ \A i \in 1 .. Len(q) : WritesOf(q)[i] = q[i].write
  <1>1. Len(q) \in Nat /\ DOMAIN q = 1 .. Len(q) /\ \A i \in DOMAIN q : q[i] \in Batch
    OBVIOUS
  <1>2. \A i \in DOMAIN q : q[i].write \in Write
    BY <1>1 DEF Batch
  <1>3. WritesOf(q) \in [1 .. Len(q) -> Write]
    BY <1>1, <1>2 DEF WritesOf
  <1>4. WritesOf(q) \in Seq(Write)
    BY <1>1, <1>3, SeqDef
  <1>5. DOMAIN WritesOf(q) = 1 .. Len(q) /\ \A i \in 1 .. Len(q) : WritesOf(q)[i] = q[i].write
    BY <1>1 DEF WritesOf
  <1>6. Len(WritesOf(q)) = Len(q)
    BY <1>1, <1>4, <1>5, LenProperties
  <1> QED
    BY <1>4, <1>5, <1>6

LEMMA WritesOfTail ==
  ASSUME NEW q \in Seq(Batch), q # << >>
  PROVE  /\ WritesOf(Tail(q)) = Tail(WritesOf(q))
         /\ WritesOf(q) # << >>
         /\ Head(WritesOf(q)) = q[1].write
  <1>1. PICK s : s = WritesOf(q)
    OBVIOUS
  <1>2. /\ s \in Seq(Write) /\ Len(s) = Len(q) /\ \A i \in 1 .. Len(q) : s[i] = q[i].write
    BY <1>1, WritesAre
  <1>3. /\ Len(q) \in Nat \ {0} /\ Tail(q) \in Seq(Batch) /\ Len(Tail(q)) = Len(q) - 1
        /\ \A i \in 1 .. Len(q) - 1 : Tail(q)[i] = q[i + 1]
    BY TailIs
  <1>4. s # << >>
    BY <1>2, <1>3
  <1>5. /\ Tail(s) \in Seq(Write) /\ Len(Tail(s)) = Len(q) - 1 /\ Head(s) = s[1]
        /\ \A i \in 1 .. Len(q) - 1 : Tail(s)[i] = s[i + 1]
    BY <1>2, <1>4, TailIs
  <1>6. PICK t : t = WritesOf(Tail(q))
    OBVIOUS
  <1>7. /\ t \in Seq(Write) /\ Len(t) = Len(q) - 1
        /\ \A i \in 1 .. Len(q) - 1 : t[i] = Tail(q)[i].write
    BY <1>3, <1>6, WritesAre
  <1>8. \A i \in 1 .. Len(q) - 1 : i + 1 \in 1 .. Len(q)
    BY <1>3
  <1>9. \A i \in 1 .. Len(q) - 1 : t[i] = Tail(s)[i]
    BY <1>2, <1>3, <1>5, <1>7, <1>8
  <1>10. t = Tail(s)
    BY <1>5, <1>7, <1>9, SeqEqual
  <1>11. 1 \in 1 .. Len(q)
    BY <1>3
  <1> QED
    BY <1>1, <1>2, <1>4, <1>5, <1>6, <1>10, <1>11

LEMMA WritesAppended ==
  ASSUME NEW q \in Seq(Batch), NEW r \in Seq(Batch), NEW w \in Write,
         Len(r) = Len(q) + 1, \A i \in DOMAIN q : r[i] = q[i], r[Len(q) + 1].write = w
  PROVE  WritesOf(r) = Append(WritesOf(q), w)
  <1>1. PICK s, t : s = WritesOf(q) /\ t = WritesOf(r)
    OBVIOUS
  <1>2. /\ s \in Seq(Write) /\ Len(s) = Len(q) /\ \A i \in 1 .. Len(q) : s[i] = q[i].write
        /\ t \in Seq(Write) /\ Len(t) = Len(r) /\ \A i \in 1 .. Len(r) : t[i] = r[i].write
    BY <1>1, WritesAre
  <1>3. Len(q) \in Nat /\ DOMAIN q = 1 .. Len(q)
    OBVIOUS
  <1>4. PICK a : a = Append(s, w)
    OBVIOUS
  <1>5. /\ a \in Seq(Write) /\ Len(a) = Len(q) + 1
        /\ \A i \in 1 .. Len(q) : a[i] = s[i]
        /\ a[Len(q) + 1] = w
    BY <1>2, <1>4, Appended
  <1>6. \A i \in 1 .. Len(r) : i \in 1 .. Len(q) \/ i = Len(q) + 1
    BY <1>3
  <1>7. \A i \in 1 .. Len(r) : t[i] = a[i]
    BY <1>2, <1>3, <1>5, <1>6
  <1>8. t = a
    BY <1>2, <1>5, <1>7, SeqEqual
  <1> QED
    BY <1>1, <1>4, <1>8

LEMMA PendingOf ==
  ASSUME NEW u \in User
  PROVE  Pending(u) = WritesOf(queue[u]) /\ Pending(u)' = WritesOf(queue'[u])
  BY DEF Pending, WritesOf

(* The queues of the other users stay. *)
LEMMA PendingChanges ==
  ASSUME NEW u \in User, NEW s, queue' \in [User -> Seq(Batch)],
         \A v \in User : v # u => queue'[v] = queue[v],
         WritesOf(queue'[u]) = s
  PROVE  [v \in User |-> Pending(v)]' = [[v \in User |-> Pending(v)] EXCEPT ![u] = s]
  <1>1. \A v \in User : v # u => Pending(v)' = Pending(v)
    BY PendingOf
  <1>2. Pending(u)' = s
    BY PendingOf
  <1> QED
    BY <1>1, <1>2

LEMMA LedgerCommits ==
  ASSUME IInv, NEW w \in Write, WriteMutations(w)
  PROVE  Ledger!Commit(currentUser, w)
  <1>1. Stored /\ StoreTypes
    BY DEF IInv, Stored
  <1>2. /\ queue' \in [User -> Seq(Batch)] /\ queue[currentUser] \in Seq(Batch)
        /\ currentUser \in User
        /\ \A u \in User : u # currentUser => queue'[u] = queue[u]
        /\ Len(queue'[currentUser]) = Len(queue[currentUser]) + 1
        /\ \A i \in DOMAIN queue[currentUser] :
             queue'[currentUser][i] = queue[currentUser][i]
        /\ queue'[currentUser][Len(queue[currentUser]) + 1] = [id |-> nextBatchId, write |-> w]
        /\ w \notin Range(issued)
    BY <1>1, Committing
  <1>3. queue'[currentUser] \in Seq(Batch)
    BY <1>2
  <1>4. WritesOf(queue'[currentUser]) = Append(WritesOf(queue[currentUser]), w)
    BY <1>2, <1>3, WritesAppended
  <1>5. [v \in User |-> Pending(v)]'
          = [[v \in User |-> Pending(v)] EXCEPT ![currentUser] = Append(@, w)]
    <2>1. PICK u \in User : u = currentUser
      BY <1>2
    <2>2. WritesOf(queue'[u]) = Append(Pending(u), w)
      BY <1>4, <2>1, PendingOf
    <2>3. [v \in User |-> Pending(v)]'
            = [[v \in User |-> Pending(v)] EXCEPT ![u] = Append(Pending(u), w)]
      BY <1>2, <2>1, <2>2, PendingChanges
    <2> QED
      BY <2>1, <2>3
  <1>6. w \notin applied
    BY <1>1, <1>2 DEF Stored, OnlyIssued
  <1>7. ASSUME NEW v \in User PROVE w \notin Range([u \in User |-> Pending(u)][v])
    <2>1. [u \in User |-> Pending(u)][v] = Pending(v)
      OBVIOUS
    <2>2. w \notin Range(Pending(v))
      BY <1>1, <1>2, PendingIs DEF Stored, QueuesKept
    <2> QED
      BY <2>1, <2>2
  <1>8. applied' = applied
    BY DEF WriteMutations, backendVars
  <1> QED
    BY <1>5, <1>6, <1>7, <1>8 DEF Ledger!Commit, Ledger!Range, Range

LEMMA LedgerSettles ==
  ASSUME IInv, NEW verdict, Settling(verdict), Head(pipeline).write \in applied \cup Refused
  PROVE  Ledger!Settle(currentUser)
  <1>1. /\ currentUser \in User
        /\ queue[currentUser] \in Seq(Batch) /\ queue[currentUser] # << >>
        /\ queue' \in [User -> Seq(Batch)]
        /\ queue'[currentUser] = Tail(queue[currentUser])
        /\ \A u \in User : u # currentUser => queue'[u] = queue[u]
    BY SettlingQueues
  <1>2. PICK u \in User : u = currentUser
    BY <1>1
  <1>3. /\ WritesOf(queue'[u]) = Tail(Pending(u)) /\ Pending(u) # << >>
        /\ Head(Pending(u)) = queue[u][1].write
    BY <1>1, <1>2, WritesOfTail, PendingOf
  <1>4. [v \in User |-> Pending(v)]'
          = [[v \in User |-> Pending(v)] EXCEPT ![u] = Tail(Pending(u))]
    BY <1>1, <1>2, <1>3, PendingChanges
  <1>5. Head(Pending(u)) \in applied \cup Refused
    BY <1>2, <1>3, FrontOfQueue DEF Settling
  <1>6. applied' = applied
    BY DEF Settling, backendVars
  <1>7. [v \in User |-> Pending(v)][u] = Pending(u)
    OBVIOUS
  <1> QED
    BY <1>2, <1>3, <1>4, <1>5, <1>6, <1>7 DEF Ledger!Settle

LEMMA LedgerLands ==
  ASSUME IInv, Serve \/ ServeLate
  PROVE  \/ UNCHANGED <<[u \in User |-> Pending(u)], applied>>
         \/ \E u \in User : \E i \in DOMAIN [v \in User |-> Pending(v)][u] : Ledger!Land(u, i)
  <1>1. /\ requests # << >> /\ call \notin Refusal /\ queue' = queue
    BY DEF Serve, ServeLate, Refusal, storeVars
  <1>2. UNCHANGED [u \in User |-> Pending(u)]
    BY <1>1 DEF Pending
  <1>3. CASE UNCHANGED backendVars
    BY <1>2, <1>3 DEF backendVars
  <1>4. CASE /\ Head(requests) # Handshake /\ Head(requests).write \notin Refused
             /\ Apply(Head(requests).write)
    <2>1. PICK u \in User : \E k \in DOMAIN queue[u] :
            /\ Head(requests) = queue[u][k]
            /\ \A j \in 1 .. k - 1 : queue[u][j].write \in applied
      BY <1>1, <1>4, ServedIsPending
    <2>2. PICK k \in DOMAIN queue[u] :
            /\ Head(requests) = queue[u][k]
            /\ \A j \in 1 .. k - 1 : queue[u][j].write \in applied
      BY <2>1
    <2>3. queue[u] \in Seq(Batch)
      BY DEF IInv, Stored, StoreTypes
    <2>4. /\ [v \in User |-> Pending(v)][u] = Pending(u)
          /\ Pending(u) = WritesOf(queue[u])
          /\ DOMAIN Pending(u) = 1 .. Len(queue[u])
          /\ \A i \in 1 .. Len(queue[u]) : Pending(u)[i] = queue[u][i].write
      BY <2>3, WritesAre, PendingOf
    <2>5. k \in 1 .. Len(queue[u]) /\ \A j \in 1 .. k - 1 : j \in 1 .. Len(queue[u])
      BY <2>3
    <2>6. /\ Pending(u)[k] \notin Refused
          /\ \A j \in 1 .. k - 1 : Pending(u)[j] \in applied
          /\ applied' = applied \cup {Pending(u)[k]}
      BY <1>4, <2>2, <2>4, <2>5 DEF Apply
    <2>7. Ledger!Land(u, k)
      BY <1>2, <2>4, <2>6 DEF Ledger!Land
    <2> QED
      BY <2>4, <2>5, <2>7
  <1> QED
    BY <1>3, <1>4 DEF Serve, ServeLate

LEMMA LedgerStep ==
  IInv /\ [Next]_vars => [Ledger!Next]_<<[u \in User |-> Pending(u)], applied>>
  <1> DEFINE ledgerVars == <<[u \in User |-> Pending(u)], applied>>
  <1> SUFFICES ASSUME IInv, [Next]_vars
               PROVE  Ledger!Next \/ UNCHANGED ledgerVars
    OBVIOUS
  <1>1. currentUser \in User
    BY FlowOfTypes
  <1>2. ASSUME NEW w \in Write, WriteMutations(w) PROVE Ledger!Next
    BY <1>1, <1>2, LedgerCommits DEF Ledger!Next
  <1>3. OnMutationResult => Ledger!Next
    <2> SUFFICES ASSUME OnMutationResult PROVE Ledger!Next
      OBVIOUS
    <2>1. Settling("ok") /\ Head(pipeline).write \in applied \cup Refused
      BY AnswerIsOfTheFront
    <2> QED
      BY <1>1, <2>1, LedgerSettles DEF Ledger!Next
  <1>4. CASE OnStreamFinish /\ handshake /\ pipeline # << >> /\ call \in Refusal
    <2>1. CloseAndReject
      BY <1>4 DEF OnStreamFinish
    <2>2. Settling("failed") /\ Head(pipeline).write \in applied \cup Refused
      BY <1>4, <2>1, RejectsTheFront
    <2>3. Ledger!Next
      BY <1>1, <2>2, LedgerSettles DEF Ledger!Next
    <2> QED
      BY <2>3
  <1>5. Serve \/ ServeLate => Ledger!Next \/ UNCHANGED ledgerVars
    BY LedgerLands DEF Ledger!Next
  <1>6. queue' = queue /\ applied' = applied => UNCHANGED ledgerVars
    BY DEF Pending
  <1>7. CASE OnStreamFinish /\ ~ (handshake /\ pipeline # << >> /\ call \in Refusal)
    <2>1. CloseAndRetry
      BY <1>7 DEF OnStreamFinish
    <2> QED
      BY <1>6, <2>1 DEF CloseAndRetry, storeVars, backendVars
  <1>8. OnStreamStart \/ OnHandshakeComplete \/ CredentialsFail \/ BackoffElapses
        \/ IdleTimeout \/ (\E user \in User : ChangeUser(user)) \/ RestartNetwork
        \/ Relaunch \/ CallFails \/ UNCHANGED vars
        => queue' = queue /\ applied' = applied
    BY DEF OnStreamStart, OnHandshakeComplete, CredentialsFail, CloseAndRetry,
           BackoffElapses, IdleTimeout, ChangeUser, RestartNetwork, Relaunch, Restart,
           CallFails, vars, storeVars, backendVars
  <1> HIDE DEF ledgerVars
  <1> QED
    BY <1>2, <1>3, <1>4, <1>5, <1>6, <1>7, <1>8 DEF Next

(* A commit is kept until it is applied or refused, through crashes, changes *)
(* of user and lost calls, and a user's commits take effect and are settled  *)
(* in their order: the pipeline implements CommitLedger.                     *)
THEOREM LedgerKept == Spec => KeepsTheLedger
  <1>1. Init => Ledger!Init
    <2> SUFFICES ASSUME Init PROVE Ledger!Init
      OBVIOUS
    <2>1. \A u \in User : Pending(u) = << >>
      BY DEF Init, Pending
    <2> QED
      BY <2>1 DEF Init, Ledger!Init
  <1> QED
    BY <1>1, LedgerStep, WriteInvariant, PTL DEF Spec, KeepsTheLedger, Ledger!Spec

=============================================================================
