-------------------------- MODULE ReadPipelineProofs --------------------------
(***************************************************************************)
(* Proofs about ReadPipeline, for any number of gets, queries and faults:   *)
(* what its components take for granted holds, and every get is answered    *)
(* once, with one of the answers ReadPromise allows.                        *)
(***************************************************************************)
EXTENDS ReadPipeline, FiniteSetTheorems, TLAPS

(* What a call may be told at this time. *)
Possible(r, kind) ==
  /\ kind \in Ages => QueryOf[r] \notin Rejected /\ kind \in {"old", data}
  /\ kind = "error" => QueryOf[r] \in Rejected

ListenersAsked ==
  \A q \in Query : \A r \in listeners[q] : QueryOf[r] = q /\ r \in asked

PostedPossible ==
  \A r \in Read : posted[r] # << >> =>
    /\ r \in asked
    /\ \A i \in DOMAIN posted[r] : Possible(r, posted[r][i])

(* An error goes to a listener that is gone: nothing comes after it. *)
ErrorIsLast ==
  \A r \in Read : \A i \in DOMAIN posted[r] :
    posted[r][i] = "error" => i = Len(posted[r]) /\ r \notin Listening

(* Who has had an answer is muted, or was told of an error and is left alone. *)
AnsweredOnce ==
  \A r \in Read : answers[r] # << >> =>
    /\ r \in asked
    /\ r \in muted \/ (posted[r] = << >> /\ r \notin Listening)

(* Neither the views nor the backend have what they cannot have. *)
ViewsPossible ==
  \A q \in Query :
    /\ view[q] \in Ages => q \notin Rejected /\ view[q] \in {"old", data}
    /\ served[q] # "off" => q \notin Rejected

ResponsesPossible ==
  \A i \in DOMAIN responses :
    /\ responses[i].op = "rejected" => responses[i].query \in Rejected
    /\ responses[i].op = "current" =>
         responses[i].query \notin Rejected /\ responses[i].age \in {"old", data}

(* What is told to the calls, apart from how it comes to be told. *)
Kept ==
  /\ ListenersAsked
  /\ PostedPossible
  /\ ErrorIsLast
  /\ AnsweredOnce

IInv ==
  /\ TypeOK
  /\ AssertionsHold
  /\ Kept
  /\ ViewsPossible
  /\ ResponsesPossible

LEMMA Initially == Init => IInv
  <1> SUFFICES ASSUME Init PROVE IInv
    OBVIOUS
  <1>1. TypeOK
    <2>1. /\ {asked, muted, removing} \subseteq SUBSET Read
          /\ raised \subseteq Listening
          /\ listeners \in [Query -> SUBSET Read]
      BY DEF Init
    <2>2. /\ {posted, answers} \subseteq [Read -> Seq(Kinds)]
          /\ {requests, responses} \subseteq Seq(Messages)
      BY DEF Init
    <2>3. /\ view \in [Query -> Ages \cup {"none", "cache"}]
          /\ served \in [Query -> Ages \cup {"off", "on"}]
          /\ data \in Ages
          /\ since \in [Query -> Ages]
      BY DEF Init, Ages
    <2>4. /\ targets \subseteq Query
          /\ pending \in [Query -> Int]
          /\ faults \in 0 .. MaxFaults
      BY ReadAssumption DEF Init
    <2> QED
      BY <2>1, <2>2, <2>3, <2>4 DEF TypeOK, Init
  <1>2. AssertionsHold
    BY DEF Init, AssertionsHold, Started
  <1>3. ListenersAsked /\ PostedPossible /\ AnsweredOnce /\ ViewsPossible
    BY DEF Init, ListenersAsked, PostedPossible, AnsweredOnce, ViewsPossible, Ages
  <1>4. ErrorIsLast /\ ResponsesPossible
    BY DEF Init, ErrorIsLast, ResponsesPossible
  <1> QED
    BY <1>1, <1>2, <1>3, <1>4 DEF IInv, Kept

(* The order in which a set is gone through. *)
LEMMA Ordering ==
  ASSUME NEW S, IsFiniteSet(S)
  PROVE  /\ SetToSeq(S) \in Seq(S)
         /\ \A i, j \in DOMAIN SetToSeq(S) : SetToSeq(S)[i] = SetToSeq(S)[j] => i = j
  <1> DEFINE n == Cardinality(S)
  <1>1. n \in Nat /\ ExistsBijection(1 .. n, S)
    BY FS_CardinalityType
  <1>2. PICK f \in Bijection(1 .. n, S) : TRUE
    BY <1>1 DEF ExistsBijection
  <1>3. f \in [1 .. n -> S] /\ IsInjective(f)
    BY <1>2 DEF Bijection, Injection, IsInjective
  <1>4. SetToSeq(S) \in [1 .. n -> S] /\ IsInjective(SetToSeq(S))
    BY <1>3 DEF SetToSeq
  <1> QED
    BY <1>1, <1>4 DEF IsInjective

-----------------------------------------------------------------------------
(* What is told to the calls *)

LEMMA Appending ==
  ASSUME NEW S, NEW s \in Seq(S), NEW e \in S
  PROVE  /\ Append(s, e) \in Seq(S)
         /\ Append(s, e) # << >>
         /\ Len(Append(s, e)) = Len(s) + 1
         /\ \A i \in DOMAIN Append(s, e) :
              (i \in DOMAIN s /\ Append(s, e)[i] = s[i])
              \/ (i = Len(s) + 1 /\ Append(s, e)[i] = e)
  OBVIOUS

LEMMA Dequeuing ==
  ASSUME NEW S, NEW s \in Seq(S), s # << >>
  PROVE  /\ Head(s) \in S /\ Head(s) = s[1] /\ 1 \in DOMAIN s
         /\ Tail(s) \in Seq(S)
         /\ Len(s) = 1 => Tail(s) = << >>
         /\ Len(Tail(s)) = Len(s) - 1
         /\ \A i \in DOMAIN Tail(s) : i + 1 \in DOMAIN s /\ Tail(s)[i] = s[i + 1]
  <1>1. Len(s) \in Nat /\ Len(s) > 0 /\ DOMAIN s = 1 .. Len(s)
    OBVIOUS
  <1>2. /\ Tail(s) \in Seq(S) /\ Len(Tail(s)) = Len(s) - 1
        /\ \A i \in 1 .. Len(s) - 1 : Tail(s)[i] = s[i + 1]
    BY <1>1
  <1>3. DOMAIN Tail(s) = 1 .. Len(s) - 1
    BY <1>1, <1>2
  <1>4. ASSUME NEW i \in DOMAIN Tail(s)
        PROVE  i + 1 \in DOMAIN s /\ Tail(s)[i] = s[i + 1]
    <2>1. i \in 1 .. Len(s) - 1
      BY <1>3
    <2>2. i + 1 \in 1 .. Len(s)
      BY <1>1, <2>1
    <2> QED
      BY <1>1, <1>2, <2>1, <2>2
  <1>5. Head(s) = s[1] /\ s[1] \in S /\ 1 \in DOMAIN s
    BY <1>1
  <1>6. Len(s) = 1 => Tail(s) = << >>
    <2>1. \A t \in Seq(S) : Len(t) = 0 => t = << >>
      OBVIOUS
    <2>2. Len(s) = 1 => Len(Tail(s)) = 0
      BY <1>1, <1>2
    <2> QED
      BY <1>2, <2>1, <2>2, Zenon
  <1> QED
    BY <1>2, <1>4, <1>5, <1>6, Zenon

(* An event may be posted to calls that have had no error yet, and no other  *)
(* answer unless they are muted, while nobody else comes to listen.          *)
LEMMA Posting ==
  ASSUME TypeOK, PostedPossible, ErrorIsLast, AnsweredOnce,
         NEW readers \in SUBSET Read, NEW kind \in Kinds,
         Post(readers, kind),
         UNCHANGED <<answers, muted, data>>,
         asked \subseteq asked',
         \A r \in readers :
           /\ r \in asked' /\ Possible(r, kind)
           /\ answers[r] # << >> => r \in muted
           /\ \A i \in DOMAIN posted[r] : posted[r][i] # "error"
           /\ kind = "error" => r \notin Listening',
         \A r \in Read : r \in Listening' /\ r \notin Listening =>
           answers[r] = << >> /\ posted[r] = << >>
  PROVE  /\ posted' \in [Read -> Seq(Kinds)]
         /\ PostedPossible' /\ ErrorIsLast' /\ AnsweredOnce'
  <1>0. posted \in [Read -> Seq(Kinds)]
    BY DEF TypeOK
  <1>1. posted' = [r \in Read |-> IF r \in readers THEN Append(posted[r], kind)
                                 ELSE posted[r]]
    BY DEF Post
  <1>2. \A r \in readers :
          /\ posted'[r] \in Seq(Kinds)
          /\ posted'[r] # << >>
          /\ Len(posted'[r]) = Len(posted[r]) + 1
          /\ \A i \in DOMAIN posted'[r] :
               (i \in DOMAIN posted[r] /\ posted'[r][i] = posted[r][i])
               \/ (i = Len(posted[r]) + 1 /\ posted'[r][i] = kind)
    <2> TAKE r \in readers
    <2>1. posted'[r] = Append(posted[r], kind) /\ posted[r] \in Seq(Kinds)
      BY <1>0, <1>1
    <2> QED
      BY <2>1, Appending
  <1>3. \A r \in Read \ readers : posted'[r] = posted[r]
    BY <1>1
  <1>4. posted' \in [Read -> Seq(Kinds)]
    BY <1>0, <1>1, <1>2
  <1>5. PostedPossible'
    <2> SUFFICES ASSUME NEW r \in Read, posted'[r] # << >>
                 PROVE  r \in asked' /\ \A i \in DOMAIN posted'[r] : Possible(r, posted'[r][i])
      BY DEF PostedPossible, Possible
    <2>2. CASE r \in readers
      <3>1. \A i \in DOMAIN posted[r] : Possible(r, posted[r][i])
        BY <1>0 DEF PostedPossible
      <3> QED
        BY <1>2, <2>2, <3>1
    <2>3. CASE r \notin readers
      BY <1>3, <2>3 DEF PostedPossible
    <2> QED
      BY <2>2, <2>3
  <1>6. ErrorIsLast'
    <2> SUFFICES ASSUME NEW r \in Read, NEW i \in DOMAIN posted'[r], posted'[r][i] = "error"
                 PROVE  i = Len(posted'[r]) /\ r \notin Listening'
      BY DEF ErrorIsLast
    <2>1. CASE r \in readers
      BY <1>2, <2>1
    <2>2. CASE r \notin readers
      <3>1. posted'[r] = posted[r] /\ posted[r] # << >>
        BY <1>3, <2>2
      <3> QED
        BY <3>1 DEF ErrorIsLast
    <2> QED
      BY <2>1, <2>2
  <1>7. AnsweredOnce'
    BY <1>3 DEF AnsweredOnce
  <1> QED
    BY <1>4, <1>5, <1>6, <1>7

LEMMA Untold ==
  ASSUME Kept, UNCHANGED <<asked, muted, answers, listeners, posted, data>>
  PROVE  Kept'
  BY DEF Kept, ListenersAsked, PostedPossible, Possible, ErrorIsLast, AnsweredOnce, Listening

LEMMA Unseen ==
  /\ ViewsPossible /\ UNCHANGED <<view, served, data>> => ViewsPossible'
  /\ ResponsesPossible /\ UNCHANGED <<responses, data>> => ResponsesPossible'
  BY DEF ViewsPossible, ResponsesPossible

(* Messages and calls that nobody has yet told anything. *)

LEMMA MessageTypes ==
  \A q \in Query :
    /\ Watch(q) \in Messages /\ Unwatch(q) \in Messages
    /\ \A op \in {"added", "removed", "rejected"} : [op |-> op, query |-> q] \in Messages
    /\ \A age \in Ages : [op |-> "current", query |-> q, age |-> age] \in Messages
  BY DEF Messages, Watch, Unwatch

LEMMA ListenersTold ==
  ASSUME IInv, NEW r \in Listening
  PROVE  /\ r \in Read /\ r \in asked
         /\ r \in listeners[QueryOf[r]] /\ QueryOf[r] \in Query
         /\ view[QueryOf[r]] # "none"
         /\ answers[r] # << >> => r \in muted
         /\ \A i \in DOMAIN posted[r] : posted[r][i] # "error"
  <1>1. PICK q \in Query : r \in listeners[q]
    BY DEF Listening
  <1>2. r \in Read
    BY <1>1 DEF IInv, TypeOK
  <1>3. QueryOf[r] = q /\ r \in asked
    BY <1>1 DEF IInv, Kept, ListenersAsked
  <1>4. view[q] # "none"
    BY <1>1 DEF IInv, AssertionsHold
  <1>5. answers[r] # << >> => r \in muted
    BY <1>2 DEF IInv, Kept, AnsweredOnce
  <1>6. \A i \in DOMAIN posted[r] : posted[r][i] # "error"
    BY <1>2 DEF IInv, Kept, ErrorIsLast
  <1> QED
    BY <1>1, <1>2, <1>3, <1>4, <1>5, <1>6

LEMMA NotAskedYet ==
  ASSUME IInv, NEW r \in Read, r \notin asked
  PROVE  answers[r] = << >> /\ posted[r] = << >> /\ r \notin Listening
  BY DEF IInv, Kept, AnsweredOnce, PostedPossible, ListenersAsked, Listening

-----------------------------------------------------------------------------
(* A get: its listener is added, has its event, and is removed *)

LEMMA Joining ==
  ASSUME IInv, NEW r \in Read, r \notin asked,
         asked' = asked \cup {r},
         listeners' = [listeners EXCEPT ![QueryOf[r]] = @ \cup {r}],
         UNCHANGED <<answers, muted, data>>,
         NEW kind \in Kinds, Possible(r, kind), kind # "error",
         Post({r}, kind) \/ UNCHANGED posted
  PROVE  /\ posted' \in [Read -> Seq(Kinds)]
         /\ Kept'
         /\ listeners' \in [Query -> SUBSET Read]
         /\ Listening' = Listening \cup {r}
  <1>1. QueryOf[r] \in Query
    BY ReadAssumption
  <1>2. listeners \in [Query -> SUBSET Read] /\ posted \in [Read -> Seq(Kinds)]
    BY DEF IInv, TypeOK
  <1>3. listeners' \in [Query -> SUBSET Read] /\ Listening' = Listening \cup {r}
    BY <1>1, <1>2 DEF Listening
  <1>4. answers[r] = << >> /\ posted[r] = << >> /\ r \notin Listening
    BY NotAskedYet
  <1>5. PICK readers \in {{}, {r}} : Post(readers, kind)
    BY <1>2 DEF Post
  <1>6. /\ posted' \in [Read -> Seq(Kinds)]
        /\ PostedPossible' /\ ErrorIsLast' /\ AnsweredOnce'
    <2>1. TypeOK /\ PostedPossible /\ ErrorIsLast /\ AnsweredOnce
      BY DEF IInv, Kept
    <2>2. \A p \in readers :
            /\ p \in asked' /\ Possible(p, kind)
            /\ answers[p] # << >> => p \in muted
            /\ \A i \in DOMAIN posted[p] : posted[p][i] # "error"
            /\ kind = "error" => p \notin Listening'
      BY <1>4, <1>5
    <2>3. \A p \in Read : p \in Listening' /\ p \notin Listening =>
            answers[p] = << >> /\ posted[p] = << >>
      BY <1>3, <1>4
    <2>4. readers \in SUBSET Read /\ asked \subseteq asked'
      BY <1>5
    <2> QED
      BY <1>5, <2>1, <2>2, <2>3, <2>4, Posting
  <1>7. ListenersAsked'
    BY <1>1, <1>2 DEF IInv, Kept, ListenersAsked
  <1> QED
    BY <1>3, <1>6, <1>7 DEF Kept

LEMMA Starting ==
  ASSUME StartWatchStream
  PROVE  stream' \in {"starting", "backoff"}
  BY DEF StartWatchStream

LEMMA ListenFirstStep ==
  ASSUME IInv, NEW r \in Read, AddQueryListener(r), ListenFirst(r)
  PROVE  IInv'
  <1> DEFINE q == QueryOf[r]
  <1>1. q \in Query
    BY ReadAssumption
  <1>2. Possible(r, "cache") /\ "cache" \in Kinds
    BY DEF Possible, Kinds, Ages
  <1>3. /\ posted' \in [Read -> Seq(Kinds)]
        /\ Kept'
        /\ listeners' \in [Query -> SUBSET Read]
        /\ Listening' = Listening \cup {r}
    BY <1>2, Joining DEF AddQueryListener, ListenFirst
  <1>4. TypeOK'
    <2>1. raised' \subseteq Listening'
      BY <1>3 DEF IInv, TypeOK, AddQueryListener, ListenFirst
    <2>2. requests' \in Seq(Messages)
      <3>1. requests' \in {requests, Append(requests, Watch(q))}
        BY DEF AddQueryListener, ListenFirst
      <3>2. requests \in Seq(Messages) /\ Watch(q) \in Messages
        BY <1>1, MessageTypes DEF IInv, TypeOK
      <3> QED
        BY <3>1, <3>2, Appending
    <2>3. pending' \in [Query -> Int]
      BY <1>1 DEF IInv, TypeOK, AddQueryListener, ListenFirst
    <2>4. /\ stream' \in {"initial", "starting", "open", "error", "backoff"}
          /\ call # "none" <=> stream' = "open"
      BY Starting DEF IInv, TypeOK, AddQueryListener, ListenFirst, Started
    <2>5. {idleTimer', failed', timer'} \subseteq BOOLEAN
          /\ online' \in {"unknown", "online", "offline"}
      BY DEF IInv, TypeOK, AddQueryListener, ListenFirst, HandleWatchStreamStart, onlineVars
    <2>6. /\ view' \in [Query -> Ages \cup {"none", "cache"}]
          /\ since' \in [Query -> Ages]
          /\ targets' \subseteq Query
      BY <1>1 DEF IInv, TypeOK, AddQueryListener, ListenFirst
    <2> QED
      BY <1>3, <2>1, <2>2, <2>3, <2>4, <2>5, <2>6 DEF IInv, TypeOK, AddQueryListener
  <1>5. AssertionsHold'
    <2>1. /\ targets' = targets \cup {q}
          /\ listeners' = [listeners EXCEPT ![q] = @ \cup {r}]
          /\ view' = [view EXCEPT ![q] = "cache"]
      BY DEF AddQueryListener, ListenFirst
    <2>2. \A p \in Query : /\ p \in targets' <=> listeners'[p] # {}
                           /\ p \in targets' <=> view'[p] # "none"
      BY <1>1, <2>1 DEF IInv, TypeOK, AssertionsHold
    <2>3. CASE ~ Started
      <3>1. /\ stream' \in {"starting", "backoff"}
            /\ online' = "unknown" /\ timer' = TRUE
            /\ UNCHANGED <<failed, idleTimer>>
        BY <2>3, Starting DEF AddQueryListener, ListenFirst, HandleWatchStreamStart
      <3>2. ~ failed /\ ~ idleTimer
        BY <2>3 DEF IInv, AssertionsHold, Started
      <3> QED
        BY <2>2, <3>1, <3>2 DEF AssertionsHold, Started
    <2>4. CASE Started
      <3>1. UNCHANGED <<stream, online, failed, timer>>
            /\ idleTimer' = (IF stream = "open" THEN FALSE ELSE idleTimer)
        BY <2>4 DEF AddQueryListener, ListenFirst, onlineVars
      <3> QED
        BY <2>2, <2>4, <3>1 DEF IInv, AssertionsHold, Started
    <2> QED
      BY <2>3, <2>4
  <1>6. ViewsPossible'
    BY <1>1 DEF IInv, TypeOK, ViewsPossible, Ages, AddQueryListener, ListenFirst
  <1>7. ResponsesPossible'
    BY Unseen DEF IInv, AddQueryListener
  <1> QED
    BY <1>3, <1>4, <1>5, <1>6, <1>7 DEF IInv

LEMMA ListenTooStep ==
  ASSUME IInv, NEW r \in Read, AddQueryListener(r), ListenToo(r)
  PROVE  IInv'
  <1> DEFINE q == QueryOf[r]
  <1>1. q \in Query
    BY ReadAssumption
  <1>2. view[q] \in Ages \cup {"cache"} /\ q \in targets
    BY <1>1 DEF IInv, TypeOK, AssertionsHold, ListenToo
  <1>3. Possible(r, view[q]) /\ view[q] \in Kinds /\ view[q] # "error"
    BY <1>1, <1>2 DEF IInv, ViewsPossible, Possible, Kinds, Ages
  <1>4. /\ posted' \in [Read -> Seq(Kinds)]
        /\ Kept'
        /\ listeners' \in [Query -> SUBSET Read]
        /\ Listening' = Listening \cup {r}
    BY <1>3, Joining DEF AddQueryListener, ListenToo
  <1>5. TypeOK'
    <2>1. raised' \subseteq Listening'
      BY <1>4 DEF IInv, TypeOK, AddQueryListener, ListenToo
    <2> QED
      BY <1>4, <2>1 DEF IInv, TypeOK, AddQueryListener, ListenToo, onlineVars
  <1>6. AssertionsHold'
    <2>1. \A p \in Query : listeners'[p] # {} <=> listeners[p] # {}
      BY <1>1 DEF IInv, TypeOK, AddQueryListener, ListenToo
    <2> QED
      BY <2>1 DEF IInv, AssertionsHold, Started, AddQueryListener, ListenToo, onlineVars
  <1>7. ViewsPossible' /\ ResponsesPossible'
    BY Unseen DEF IInv, AddQueryListener, ListenToo
  <1> QED
    BY <1>4, <1>5, <1>6, <1>7 DEF IInv

LEMMA OnEventStep ==
  ASSUME IInv, NEW r \in Read, OnEvent(r)
  PROVE  IInv'
  <1>1. /\ posted \in [Read -> Seq(Kinds)] /\ answers \in [Read -> Seq(Kinds)]
        /\ posted' = [posted EXCEPT ![r] = Tail(@)] /\ posted[r] # << >>
        /\ Head(posted[r]) \in Kinds /\ Tail(posted[r]) \in Seq(Kinds)
        /\ Len(posted[r]) = 1 => Tail(posted[r]) = << >>
    BY Dequeuing DEF IInv, TypeOK, OnEvent
  <1>2. answers' \in [Read -> Seq(Kinds)]
    <2>1. Append(answers[r], Head(posted[r])) \in Seq(Kinds)
      BY <1>1, Appending
    <2> QED
      BY <1>1, <2>1 DEF OnEvent
  <1>3. TypeOK'
    <2>1. posted' \in [Read -> Seq(Kinds)]
      BY <1>1
    <2>2. {asked, muted', removing'} \subseteq SUBSET Read
      BY DEF IInv, TypeOK, OnEvent
    <2> QED
      BY <1>2, <2>1, <2>2 DEF IInv, TypeOK, OnEvent, onlineVars, callVars, Listening
  <1>4. AssertionsHold'
    BY DEF IInv, AssertionsHold, Started, OnEvent, onlineVars
  <1>5. ListenersAsked'
    BY DEF IInv, Kept, ListenersAsked, OnEvent
  <1>6. /\ \A p \in Read \ {r} : posted'[p] = posted[p]
        /\ Len(posted'[r]) = Len(posted[r]) - 1
        /\ \A i \in DOMAIN posted'[r] :
             i + 1 \in DOMAIN posted[r] /\ posted'[r][i] = posted[r][i + 1]
    BY <1>1, Dequeuing
  <1>7. PostedPossible'
    <2> SUFFICES ASSUME NEW p \in Read, posted'[p] # << >>
                 PROVE  p \in asked /\ \A i \in DOMAIN posted'[p] : Possible(p, posted'[p][i])
      BY DEF PostedPossible, Possible, OnEvent
    <2>1. /\ p \in asked
          /\ \A i \in DOMAIN posted[p] : Possible(p, posted[p][i])
      BY <1>1, <1>6 DEF IInv, Kept, PostedPossible
    <2>2. CASE p = r
      BY <1>6, <2>1, <2>2
    <2>3. CASE p # r
      BY <1>6, <2>1, <2>3
    <2> QED
      BY <2>2, <2>3
  <1>8. ErrorIsLast'
    <2> SUFFICES ASSUME NEW p \in Read, NEW i \in DOMAIN posted'[p], posted'[p][i] = "error"
                 PROVE  i = Len(posted'[p]) /\ p \notin Listening
      BY DEF ErrorIsLast, OnEvent, Listening
    <2>1. CASE p # r
      BY <1>6, <2>1 DEF IInv, Kept, ErrorIsLast
    <2>2. CASE p = r
      <3>1. i + 1 = Len(posted[r]) /\ r \notin Listening
        BY <1>6, <2>2 DEF IInv, Kept, ErrorIsLast
      <3>2. posted'[r] \in Seq(Kinds) /\ i \in Nat /\ Len(posted[r]) \in Nat
        BY <1>1, <2>2
      <3> QED
        BY <1>6, <2>2, <3>1, <3>2
    <2> QED
      BY <2>1, <2>2
  <1>9. AnsweredOnce'
    <2> SUFFICES ASSUME NEW p \in Read, answers'[p] # << >>
                 PROVE  /\ p \in asked
                        /\ p \in muted' \/ (posted'[p] = << >> /\ p \notin Listening)
      BY DEF AnsweredOnce, OnEvent, Listening
    <2>1. CASE p # r
      <3>1. answers[p] # << >> /\ muted \subseteq muted'
        BY <1>1, <2>1 DEF OnEvent
      <3> QED
        BY <1>6, <2>1, <3>1 DEF IInv, Kept, AnsweredOnce
    <2>2. CASE p = r
      <3>1. r \in asked
        BY <1>1 DEF IInv, Kept, PostedPossible
      <3>2. CASE r \in muted \/ Head(posted[r]) # "error"
        BY <2>2, <3>1, <3>2 DEF OnEvent
      <3>3. CASE r \notin muted /\ Head(posted[r]) = "error"
        <4>1. 1 \in DOMAIN posted[r] /\ posted[r][1] = "error"
          BY <1>1, <3>3, Dequeuing
        <4>2. Len(posted[r]) = 1 /\ r \notin Listening
          BY <4>1 DEF IInv, Kept, ErrorIsLast
        <4> QED
          BY <1>1, <2>2, <3>1, <4>2
      <3> QED
        BY <3>2, <3>3
    <2> QED
      BY <2>1, <2>2
  <1>10. ViewsPossible' /\ ResponsesPossible'
    BY Unseen DEF IInv, OnEvent, callVars
  <1> QED
    BY <1>3, <1>4, <1>5, <1>7, <1>8, <1>9, <1>10 DEF IInv, Kept

LEMMA RemoveQueryListenerStep ==
  ASSUME IInv, NEW r \in Read, RemoveQueryListener(r)
  PROVE  IInv'
  <1> DEFINE q == QueryOf[r]
  <1>1. q \in Query
    BY ReadAssumption
  <1>2. /\ listeners \in [Query -> SUBSET Read]
        /\ listeners' = [listeners EXCEPT ![q] = @ \ {r}]
        /\ \A p \in Query : listeners'[p] = listeners[p] \ {r}
    BY <1>1 DEF IInv, TypeOK, Kept, ListenersAsked, RemoveQueryListener
  <1>3. Listening' = Listening \ {r}
    BY <1>2 DEF Listening
  <1>4. TypeOK'
    <2>1. listeners' \in [Query -> SUBSET Read] /\ raised' \subseteq Listening'
      BY <1>1, <1>2, <1>3 DEF IInv, TypeOK, RemoveQueryListener
    <2>2. requests' \in Seq(Messages)
      <3>1. requests' \in {requests, Append(requests, Unwatch(q))}
        BY DEF RemoveQueryListener, StopListening
      <3>2. requests \in Seq(Messages) /\ Unwatch(q) \in Messages
        BY <1>1, MessageTypes DEF IInv, TypeOK
      <3> QED
        BY <3>1, <3>2, Appending
    <2>3. pending' \in [Query -> Int]
      BY <1>1 DEF IInv, TypeOK, RemoveQueryListener, StopListening
    <2>4. /\ {idleTimer', failed', timer'} \subseteq BOOLEAN
          /\ online' \in {"unknown", "online", "offline"}
      BY DEF IInv, TypeOK, RemoveQueryListener, StopListening, UpdateState, onlineVars
    <2>5. /\ view' \in [Query -> Ages \cup {"none", "cache"}]
          /\ targets' \subseteq Query
      BY <1>1 DEF IInv, TypeOK, RemoveQueryListener, StopListening
    <2> QED
      BY <2>1, <2>2, <2>3, <2>4, <2>5 DEF IInv, TypeOK, RemoveQueryListener
  <1>5. AssertionsHold'
    <2>1. CASE listeners[q] = {r}
      <3>1. q \in targets /\ Started
        BY <1>1, <2>1 DEF IInv, AssertionsHold
      <3>2. \A p \in Query : /\ p \in targets' <=> listeners'[p] # {}
                             /\ p \in targets' <=> view'[p] # "none"
        BY <1>1, <1>2, <2>1 DEF IInv, TypeOK, AssertionsHold, RemoveQueryListener, StopListening
      <3>3. CASE stream = "open"
        BY <2>1, <3>1, <3>2, <3>3
        DEF IInv, AssertionsHold, RemoveQueryListener, StopListening, Started, onlineVars
      <3>4. CASE stream # "open"
        BY <2>1, <3>1, <3>2, <3>4
        DEF IInv, AssertionsHold, RemoveQueryListener, StopListening, Started, UpdateState,
            onlineVars
      <3> QED
        BY <3>3, <3>4
    <2>2. CASE listeners[q] # {r}
      <3>1. \A p \in Query : listeners'[p] # {} <=> listeners[p] # {}
        BY <1>1, <1>2, <2>2
      <3> QED
        BY <2>2, <3>1 DEF IInv, AssertionsHold, Started, RemoveQueryListener, onlineVars
    <2> QED
      BY <2>1, <2>2
  <1>6. Kept'
    <2>1. UNCHANGED <<asked, muted, answers, posted, data>>
      BY DEF RemoveQueryListener
    <2>2. ListenersAsked'
      BY <1>2, <2>1 DEF IInv, Kept, ListenersAsked
    <2>3. PostedPossible'
      BY <2>1 DEF IInv, Kept, PostedPossible, Possible
    <2>4. ErrorIsLast' /\ AnsweredOnce'
      BY <1>3, <2>1 DEF IInv, Kept, ErrorIsLast, AnsweredOnce
    <2> QED
      BY <2>2, <2>3, <2>4 DEF Kept
  <1>7. ViewsPossible'
    BY <1>1 DEF IInv, TypeOK, ViewsPossible, Ages, RemoveQueryListener, StopListening
  <1>8. ResponsesPossible'
    BY Unseen DEF IInv, RemoveQueryListener
  <1> QED
    BY <1>4, <1>5, <1>6, <1>7, <1>8 DEF IInv

-----------------------------------------------------------------------------
(* The watch stream *)

LEMMA TargetsFinite ==
  ASSUME IInv
  PROVE  IsFiniteSet({Watch(q) : q \in targets})
  <1>1. IsFiniteSet(targets)
    BY FS_Subset, ReadAssumption DEF IInv, TypeOK
  <1> DEFINE f == [q \in targets |-> Watch(q)]
  <1>2. f \in Surjection(targets, {Watch(q) : q \in targets})
    BY DEF Surjection
  <1> QED
    BY <1>1, <1>2, FS_Surjection DEF ExistsSurjection

LEMMA OnStreamStartStep == IInv /\ OnStreamStart => IInv'
  <1> SUFFICES ASSUME IInv, OnStreamStart PROVE IInv'
    OBVIOUS
  <1>1. requests' \in Seq(Messages)
    <2> DEFINE W == {Watch(q) : q \in targets}
    <2>1. targets \subseteq Query
      BY DEF IInv, TypeOK
    <2>2. IsFiniteSet(W)
      BY TargetsFinite
    <2>3. W \subseteq Messages
      BY <2>1, MessageTypes
    <2>4. requests' \in Seq(W)
      BY <2>2, Ordering DEF OnStreamStart
    <2> QED
      BY <2>3, <2>4
  <1>2. pending' \in [Query -> Int]
    BY DEF IInv, TypeOK, OnStreamStart
  <1>3. TypeOK'
    BY <1>1, <1>2
    DEF IInv, TypeOK, OnStreamStart, callerVars, viewVars, onlineVars, Listening
  <1>4. AssertionsHold'
    BY DEF IInv, AssertionsHold, Started, OnStreamStart, viewVars, onlineVars
  <1>5. Kept' /\ ViewsPossible' /\ ResponsesPossible'
    BY Untold, Unseen DEF IInv, OnStreamStart, callerVars, viewVars
  <1> QED
    BY <1>3, <1>4, <1>5 DEF IInv

(* What each response that is read has in common. *)
LEMMA Reading ==
  ASSUME IInv, NEW op, Reads(op)
  PROVE  /\ responses' \in Seq(Messages) /\ ResponsesPossible'
         /\ stream' = "open" /\ online' = "online"
         /\ failed' = FALSE /\ timer' = FALSE
         /\ UNCHANGED <<callerVars, since, stream, idleTimer, requests, call, served, data,
                        faults>>
  <1>1. responses \in Seq(Messages) /\ responses # << >> /\ responses' = Tail(responses)
    BY DEF IInv, TypeOK, Reads
  <1>2. /\ responses' \in Seq(Messages)
        /\ \A i \in DOMAIN responses' :
             i + 1 \in DOMAIN responses /\ responses'[i] = responses[i + 1]
    BY <1>1, Dequeuing
  <1>3. ResponsesPossible'
    BY <1>2 DEF IInv, ResponsesPossible, Reads
  <1> QED
    BY <1>2, <1>3 DEF Reads, UpdateState

LEMMA Response ==
  ASSUME IInv, NEW op, Reads(op)
  PROVE  /\ Head(responses).op \in op /\ Head(responses).query \in Query
         /\ Head(responses).op = "rejected" => Head(responses).query \in Rejected
         /\ Head(responses).op = "current" =>
              /\ Head(responses).query \notin Rejected
              /\ Head(responses).age \in {"old", data} /\ Head(responses).age \in Ages
  <1>1. /\ Head(responses) \in Messages /\ Head(responses) = responses[1]
        /\ 1 \in DOMAIN responses
    BY Dequeuing DEF IInv, TypeOK, Reads
  <1>2. /\ Head(responses).query \in Query
        /\ Head(responses).op = "current" => Head(responses).age \in Ages
    BY <1>1 DEF Messages
  <1>3. /\ Head(responses).op = "rejected" => Head(responses).query \in Rejected
        /\ Head(responses).op = "current" =>
             Head(responses).query \notin Rejected /\ Head(responses).age \in {"old", data}
    BY <1>1 DEF IInv, ResponsesPossible
  <1> QED
    BY <1>2, <1>3 DEF Reads

LEMMA OnTargetAcknowledgedStep == IInv /\ OnTargetAcknowledged => IInv'
  <1> SUFFICES ASSUME IInv, OnTargetAcknowledged PROVE IInv'
    OBVIOUS
  <1>1. PICK op : Reads(op)
    BY DEF OnTargetAcknowledged
  <1>2. pending' \in [Query -> Int]
    <2>1. Head(responses).query \in Query
      BY <1>1, Response
    <2>2. pending' = [pending EXCEPT ![Head(responses).query] = @ - 1]
      BY DEF OnTargetAcknowledged
    <2> QED
      BY <2>1, <2>2 DEF IInv, TypeOK
  <1>3. TypeOK'
    BY <1>1, <1>2, Reading DEF IInv, TypeOK, OnTargetAcknowledged, callerVars, Listening
  <1>4. AssertionsHold'
    BY <1>1, Reading DEF IInv, AssertionsHold, Started, OnTargetAcknowledged
  <1>5. Kept' /\ ViewsPossible' /\ ResponsesPossible'
    BY <1>1, Reading, Untold, Unseen DEF IInv, OnTargetAcknowledged, callerVars
  <1> QED
    BY <1>3, <1>4, <1>5 DEF IInv

LEMMA OnTargetCurrentStep == IInv /\ OnTargetCurrent => IInv'
  <1> SUFFICES ASSUME IInv, OnTargetCurrent PROVE IInv'
    OBVIOUS
  <1> DEFINE q == Head(responses).query
             age == Head(responses).age
  <1>1. Reads({"current"})
    BY DEF OnTargetCurrent
  <1>2. q \in Query /\ q \notin Rejected /\ age \in Ages /\ age \in {"old", data}
    BY <1>1, Response
  <1>3. UNCHANGED <<asked, muted, answers, listeners, targets, pending, data, served>>
    BY <1>1, Reading DEF OnTargetCurrent, callerVars
  <1>4. posted' \in [Read -> Seq(Kinds)] /\ Kept'
    <2>1. CASE UNCHANGED posted
      BY <1>3, <2>1, Untold DEF IInv, TypeOK
    <2>2. CASE Post(listeners[q], age)
      <3>1. listeners[q] \in SUBSET Listening /\ Listening' = Listening
        BY <1>2, <1>3 DEF Listening
      <3>2. \A r \in listeners[q] :
              /\ r \in Read /\ r \in asked' /\ Possible(r, age)
              /\ answers[r] # << >> => r \in muted
              /\ \A i \in DOMAIN posted[r] : posted[r][i] # "error"
              /\ age = "error" => r \notin Listening'
        <4> TAKE r \in listeners[q]
        <4>1. r \in Listening
          BY <3>1
        <4>2. QueryOf[r] = q
          BY <1>2 DEF IInv, Kept, ListenersAsked
        <4>3. Possible(r, age) /\ age # "error"
          BY <1>2, <4>2 DEF Possible, Ages
        <4> QED
          BY <1>3, <4>1, <4>3, ListenersTold
      <3>3. listeners[q] \in SUBSET Read /\ age \in Kinds
        BY <1>2, <3>2 DEF Kinds
      <3>4. TypeOK /\ PostedPossible /\ ErrorIsLast /\ AnsweredOnce
        BY DEF IInv, Kept
      <3>5. posted' \in [Read -> Seq(Kinds)] /\ PostedPossible' /\ ErrorIsLast' /\ AnsweredOnce'
        BY <1>3, <2>2, <3>1, <3>2, <3>3, <3>4, Posting
      <3>6. ListenersAsked'
        BY <1>3 DEF IInv, Kept, ListenersAsked
      <3> QED
        BY <3>5, <3>6 DEF Kept
    <2> QED
      BY <2>1, <2>2 DEF OnTargetCurrent
  <1>5. /\ view' \in [Query -> Ages \cup {"none", "cache"}]
        /\ raised' \subseteq Listening'
        /\ \A p \in Query : view'[p] # "none" <=> view[p] # "none"
    <2>1. Listening' = Listening /\ listeners[q] \subseteq Listening
      BY <1>2, <1>3 DEF Listening
    <2>2. q \in targets => view[q] # "none"
      BY <1>2 DEF IInv, AssertionsHold
    <2> QED
      BY <1>2, <2>1, <2>2 DEF IInv, TypeOK, OnTargetCurrent, Ages
  <1>6. TypeOK'
    BY <1>1, <1>3, <1>4, <1>5, Reading DEF IInv, TypeOK, callerVars
  <1>7. AssertionsHold'
    BY <1>1, <1>3, <1>5, Reading DEF IInv, AssertionsHold, Started
  <1>8. ViewsPossible'
    BY <1>2, <1>3 DEF IInv, TypeOK, ViewsPossible, OnTargetCurrent
  <1>9. ResponsesPossible'
    BY <1>1, Reading
  <1> QED
    BY <1>4, <1>6, <1>7, <1>8, <1>9 DEF IInv

LEMMA OnTargetRejectedStep == IInv /\ OnTargetRejected => IInv'
  <1> SUFFICES ASSUME IInv, OnTargetRejected PROVE IInv'
    OBVIOUS
  <1> DEFINE q == Head(responses).query
  <1>1. Reads({"rejected"})
    BY DEF OnTargetRejected
  <1>2. q \in Query /\ q \in Rejected
    BY <1>1, Response
  <1>3. UNCHANGED <<asked, muted, answers, data, served>>
    BY <1>1, Reading DEF callerVars
  <1>4. CASE q \notin targets
    <2>1. UNCHANGED <<targets, pending, view, posted, listeners, raised>>
      BY <1>4 DEF OnTargetRejected
    <2>2. TypeOK'
      BY <1>1, <2>1, Reading DEF IInv, TypeOK, callerVars, Listening
    <2>3. AssertionsHold'
      BY <1>1, <2>1, Reading DEF IInv, AssertionsHold, Started
    <2> QED
      BY <1>1, <1>3, <2>1, <2>2, <2>3, Reading, Untold, Unseen DEF IInv
  <1>5. CASE q \in targets
    <2>1. /\ targets' = targets \ {q}
          /\ pending' = [pending EXCEPT ![q] = 0]
          /\ view' = [view EXCEPT ![q] = "none"]
          /\ Post(listeners[q], "error")
          /\ listeners' = [listeners EXCEPT ![q] = {}]
          /\ raised' = raised \ listeners[q]
      BY <1>5 DEF OnTargetRejected
    <2>2. Listening' = Listening \ listeners[q]
      <3>1. \A p \in Query \ {q} : listeners[p] \cap listeners[q] = {}
        BY <1>2 DEF IInv, Kept, ListenersAsked
      <3> QED
        BY <1>2, <2>1, <3>1 DEF Listening, IInv, TypeOK
    <2>3. posted' \in [Read -> Seq(Kinds)] /\ PostedPossible' /\ ErrorIsLast' /\ AnsweredOnce'
      <3>1. listeners[q] \in SUBSET Listening
        BY <1>2 DEF Listening
      <3>2. \A r \in listeners[q] :
              /\ r \in Read /\ r \in asked' /\ Possible(r, "error")
              /\ answers[r] # << >> => r \in muted
              /\ \A i \in DOMAIN posted[r] : posted[r][i] # "error"
              /\ r \notin Listening'
        <4> TAKE r \in listeners[q]
        <4>1. r \in Listening /\ r \notin Listening'
          BY <2>2, <3>1
        <4>2. QueryOf[r] = q
          BY <1>2 DEF IInv, Kept, ListenersAsked
        <4>3. Possible(r, "error")
          BY <1>2, <4>2 DEF Possible, Ages
        <4> QED
          BY <1>3, <4>1, <4>3, ListenersTold
      <3>3. listeners[q] \in SUBSET Read /\ "error" \in Kinds
        BY <3>2 DEF Kinds
      <3>4. TypeOK /\ PostedPossible /\ ErrorIsLast /\ AnsweredOnce
        BY DEF IInv, Kept
      <3>5. \A r \in Read : ~ (r \in Listening' /\ r \notin Listening)
        BY <2>2
      <3> QED
        BY <1>3, <2>1, <3>2, <3>3, <3>4, <3>5, Posting
    <2>4. ListenersAsked'
      BY <1>2, <1>3, <2>1 DEF IInv, TypeOK, Kept, ListenersAsked
    <2>5. TypeOK'
      <3>1. /\ listeners' \in [Query -> SUBSET Read]
            /\ raised' \subseteq Listening'
            /\ view' \in [Query -> Ages \cup {"none", "cache"}]
            /\ targets' \subseteq Query
            /\ pending' \in [Query -> Int]
        BY <1>2, <2>1, <2>2 DEF IInv, TypeOK
      <3> QED
        BY <1>1, <2>3, <3>1, Reading DEF IInv, TypeOK, callerVars
    <2>6. AssertionsHold'
      <3>1. \A p \in Query : /\ p \in targets' <=> listeners'[p] # {}
                             /\ p \in targets' <=> view'[p] # "none"
        BY <1>2, <2>1 DEF IInv, TypeOK, AssertionsHold
      <3> QED
        BY <1>1, <1>5, <2>1, <3>1, Reading DEF IInv, AssertionsHold, Started
    <2>7. ViewsPossible'
      BY <1>2, <1>3, <2>1 DEF IInv, TypeOK, ViewsPossible, Ages
    <2>8. ResponsesPossible'
      BY <1>1, Reading
    <2> QED
      BY <2>3, <2>4, <2>5, <2>6, <2>7, <2>8 DEF IInv, Kept
  <1> QED
    BY <1>4, <1>5

(* Views go back to the cache: nothing is told that may not be told. *)
LEMMA Broadcasting ==
  ASSUME IInv, BroadcastOffline, UNCHANGED <<callerVars, data>>
  PROVE  /\ posted' \in [Read -> Seq(Kinds)] /\ Kept'
         /\ view' \in [Query -> Ages \cup {"none", "cache"}]
         /\ raised' \subseteq Listening' /\ UNCHANGED <<listeners, since>>
         /\ \A q \in Query : view'[q] # "none" <=> view[q] # "none"
         /\ \A q \in Query : view'[q] \notin Ages
         /\ online' = "offline"
  <1> DEFINE stale == {q \in Query : view[q] \in Ages}
             readers == (Listening \ raised) \cup UNION {listeners[q] : q \in stale}
  <1>1. readers \subseteq Listening
    BY DEF Listening
  <1>2. Post(readers, "cache") /\ UNCHANGED <<listeners, since>>
    BY DEF BroadcastOffline
  <1>3. UNCHANGED <<asked, muted, answers>>
    BY DEF callerVars
  <1>4. Listening' = Listening
    BY <1>2 DEF Listening
  <1> HIDE DEF readers
  <1>5. \A r \in readers :
          /\ r \in Read /\ r \in asked' /\ Possible(r, "cache")
          /\ answers[r] # << >> => r \in muted
          /\ \A i \in DOMAIN posted[r] : posted[r][i] # "error"
    <2> TAKE r \in readers
    <2>1. r \in Listening
      BY <1>1
    <2>2. Possible(r, "cache")
      BY DEF Possible, Ages
    <2> QED
      BY <1>3, <2>1, <2>2, ListenersTold
  <1>6. posted' \in [Read -> Seq(Kinds)] /\ PostedPossible' /\ ErrorIsLast' /\ AnsweredOnce'
    <2>1. readers \in SUBSET Read /\ "cache" \in Kinds
      BY <1>5 DEF Kinds
    <2>2. TypeOK /\ PostedPossible /\ ErrorIsLast /\ AnsweredOnce
      BY DEF IInv, Kept
    <2> QED
      BY <1>2, <1>3, <1>4, <1>5, <2>1, <2>2, Posting
  <1>7. ListenersAsked'
    BY <1>2, <1>3 DEF IInv, Kept, ListenersAsked
  <1>8. /\ view' \in [Query -> Ages \cup {"none", "cache"}]
        /\ \A q \in Query : view'[q] # "none" <=> view[q] # "none"
        /\ \A q \in Query : view'[q] \notin Ages
    BY DEF BroadcastOffline, IInv, TypeOK, Ages
  <1>9. raised' \subseteq Listening' /\ online' = "offline"
    BY <1>4 DEF BroadcastOffline, IInv, TypeOK
  <1> QED
    BY <1>2, <1>6, <1>7, <1>8, <1>9 DEF Kept

LEMMA Hanging ==
  ASSUME NoCall
  PROVE  /\ pending' \in [Query -> Int]
         /\ call' = "none" /\ idleTimer' = FALSE
         /\ requests' = << >> /\ responses' = << >>
         /\ requests' \in Seq(Messages) /\ responses' \in Seq(Messages)
         /\ served' \in [Query -> Ages \cup {"off", "on"}]
         /\ \A q \in Query : served'[q] = "off"
         /\ ResponsesPossible'
  BY DEF NoCall, ResponsesPossible

LEMMA CloseWithErrorStep ==
  ASSUME IInv, CloseWithError, faults' \in 0 .. MaxFaults
  PROVE  IInv'
  <1>1. UNCHANGED <<callerVars, targets, data>> /\ NoCall
    BY DEF CloseWithError
  <1>2. /\ posted' \in [Read -> Seq(Kinds)] /\ Kept'
        /\ view' \in [Query -> Ages \cup {"none", "cache"}]
        /\ raised' \subseteq Listening' /\ UNCHANGED <<listeners, since>>
        /\ \A q \in Query : view'[q] # "none" <=> view[q] # "none"
        /\ \A q \in Query : view'[q] \in Ages => view'[q] = view[q]
    <2>1. CASE BroadcastOffline
      BY <1>1, <2>1, Broadcasting
    <2>2. CASE UNCHANGED viewVars
      <3>1. Kept'
        BY <1>1, <2>2, Untold DEF IInv, callerVars, viewVars
      <3> QED
        BY <2>2, <3>1 DEF viewVars, Listening, IInv, TypeOK
    <2> QED
      BY <2>1, <2>2 DEF CloseWithError
  <1>3. /\ stream' \in {"error", "backoff"} /\ (targets # {} => stream' = "backoff")
        /\ timer' \in BOOLEAN /\ failed' \in BOOLEAN /\ online' \in {"unknown", "offline"}
        /\ timer' = TRUE => online' = "unknown" /\ stream' = "backoff"
        /\ failed' = TRUE => online' = "offline" /\ stream' = "backoff"
    <2>1. CASE targets = {} /\ stream' = "error" /\ UpdateState("unknown")
      BY <2>1 DEF UpdateState
    <2>2. CASE online = "online" /\ stream' = "backoff" /\ HandleWatchStreamStart
      <3>1. failed = FALSE
        BY <2>2 DEF IInv, TypeOK, AssertionsHold
      <3> QED
        BY <2>2, <3>1 DEF HandleWatchStreamStart
    <2>3. CASE stream' = "backoff" /\ failed' = TRUE /\ timer' = FALSE /\ BroadcastOffline
      BY <2>3 DEF BroadcastOffline
    <2> QED
      BY <2>1, <2>2, <2>3 DEF CloseWithError
  <1>4. TypeOK'
    BY <1>1, <1>2, <1>3, Hanging DEF IInv, TypeOK, callerVars
  <1>5. AssertionsHold'
    BY <1>1, <1>2, <1>3, Hanging DEF IInv, AssertionsHold, Started
  <1>6. ViewsPossible'
    BY <1>1, <1>2, Hanging DEF IInv, ViewsPossible
  <1> QED
    BY <1>1, <1>2, <1>4, <1>5, <1>6, Hanging DEF IInv

LEMMA BackoffElapsesStep == IInv /\ BackoffElapses => IInv'
  <1> SUFFICES ASSUME IInv, BackoffElapses PROVE IInv'
    OBVIOUS
  <1>1. TypeOK'
    BY DEF IInv, TypeOK, BackoffElapses, callerVars, viewVars, onlineVars, callVars, Listening
  <1>2. AssertionsHold'
    BY DEF IInv, AssertionsHold, Started, BackoffElapses, viewVars, onlineVars
  <1>3. Kept' /\ ViewsPossible' /\ ResponsesPossible'
    BY Untold, Unseen DEF IInv, BackoffElapses, callerVars, viewVars, callVars
  <1> QED
    BY <1>1, <1>2, <1>3 DEF IInv

LEMMA IdleTimeoutStep == IInv /\ IdleTimeout => IInv'
  <1> SUFFICES ASSUME IInv, IdleTimeout PROVE IInv'
    OBVIOUS
  <1>1. /\ NoCall /\ stream' = "initial" /\ targets = {}
        /\ online' = "unknown" /\ failed' = FALSE /\ timer' = FALSE
        /\ UNCHANGED <<callerVars, viewVars, targets, data, faults>>
    BY DEF IInv, AssertionsHold, IdleTimeout, UpdateState
  <1>2. TypeOK'
    <2>1. /\ raised' \subseteq Listening'
          /\ UNCHANGED <<listeners, view, posted, since, asked, muted, removing, answers>>
      BY <1>1 DEF IInv, TypeOK, viewVars, callerVars, Listening
    <2> QED
      BY <1>1, <2>1, Hanging DEF IInv, TypeOK
  <1>3. AssertionsHold'
    BY <1>1, Hanging DEF IInv, AssertionsHold, Started, viewVars
  <1>4. Kept'
    BY <1>1, Untold DEF IInv, callerVars, viewVars
  <1>5. ViewsPossible' /\ ResponsesPossible'
    BY <1>1, Hanging DEF IInv, ViewsPossible, viewVars
  <1> QED
    BY <1>2, <1>3, <1>4, <1>5 DEF IInv

LEMMA OnlineStateTimeoutStep == IInv /\ OnlineStateTimeout => IInv'
  <1> SUFFICES ASSUME IInv, OnlineStateTimeout PROVE IInv'
    OBVIOUS
  <1>1. /\ BroadcastOffline /\ timer' = FALSE /\ online = "unknown" /\ failed = FALSE
        /\ faults' \in 0 .. MaxFaults
        /\ UNCHANGED <<callerVars, targets, pending, stream, idleTimer, failed, callVars, data>>
    BY ReadAssumption DEF IInv, TypeOK, AssertionsHold, OnlineStateTimeout, Fault
  <1>2. /\ posted' \in [Read -> Seq(Kinds)] /\ Kept'
        /\ view' \in [Query -> Ages \cup {"none", "cache"}]
        /\ raised' \subseteq Listening' /\ UNCHANGED <<listeners, since>>
        /\ \A q \in Query : view'[q] # "none" <=> view[q] # "none"
        /\ \A q \in Query : view'[q] \notin Ages
        /\ online' = "offline"
    BY <1>1, Broadcasting
  <1>3. TypeOK'
    BY <1>1, <1>2 DEF IInv, TypeOK, callerVars, callVars
  <1>4. AssertionsHold'
    BY <1>1, <1>2 DEF IInv, AssertionsHold, Started
  <1>5. ViewsPossible' /\ ResponsesPossible'
    BY <1>1, <1>2, Unseen DEF IInv, ViewsPossible, callVars
  <1> QED
    BY <1>2, <1>3, <1>4, <1>5 DEF IInv

LEMMA RestartNetworkStep == IInv /\ RestartNetwork => IInv'
  <1> SUFFICES ASSUME IInv, RestartNetwork PROVE IInv'
    OBVIOUS
  <1>1. /\ NoCall /\ faults' \in 0 .. MaxFaults
        /\ stream' = (IF targets = {} THEN "initial" ELSE "starting")
        /\ online' = "unknown" /\ failed' = FALSE /\ timer' = (targets # {})
        /\ UNCHANGED <<callerVars, viewVars, targets, data>>
    BY ReadAssumption DEF IInv, TypeOK, RestartNetwork, Fault
  <1>2. TypeOK'
    <2>1. /\ raised' \subseteq Listening'
          /\ UNCHANGED <<listeners, view, posted, since, asked, muted, removing, answers>>
      BY <1>1 DEF IInv, TypeOK, viewVars, callerVars, Listening
    <2> QED
      BY <1>1, <2>1, Hanging DEF IInv, TypeOK
  <1>3. AssertionsHold'
    BY <1>1, Hanging DEF IInv, AssertionsHold, Started, viewVars
  <1>4. Kept'
    BY <1>1, Untold DEF IInv, callerVars, viewVars
  <1>5. ViewsPossible' /\ ResponsesPossible'
    BY <1>1, Hanging DEF IInv, ViewsPossible, viewVars
  <1> QED
    BY <1>2, <1>3, <1>4, <1>5 DEF IInv

-----------------------------------------------------------------------------
(* The backend and the network *)

(* Nothing of the client changes. *)
LEMMA Apart ==
  ASSUME IInv,
         UNCHANGED <<callerVars, viewVars, targets, pending, stream, idleTimer, onlineVars>>,
         requests' \in Seq(Messages), responses' \in Seq(Messages),
         served' \in [Query -> Ages \cup {"off", "on"}],
         (call' \in {"live", "broken"} /\ stream = "open") \/ call' = call,
         data' \in Ages, faults' \in 0 .. MaxFaults
  PROVE  TypeOK' /\ AssertionsHold'
  <1>1. TypeOK'
    BY DEF IInv, TypeOK, callerVars, viewVars, onlineVars, Listening
  <1>2. AssertionsHold'
    BY DEF IInv, AssertionsHold, Started, viewVars, onlineVars
  <1> QED
    BY <1>1, <1>2

LEMMA ServeStep == IInv /\ Serve => IInv'
  <1> SUFFICES ASSUME IInv, Serve PROVE IInv'
    OBVIOUS
  <1> DEFINE q == Head(requests).query
             Answer(op) == [op |-> op, query |-> q]
  <1>1. /\ Head(requests) \in Messages /\ requests' = Tail(requests)
        /\ requests' \in Seq(Messages)
    BY Dequeuing DEF IInv, TypeOK, Serve
  <1>2. q \in Query
    BY <1>1 DEF Messages
  <1>3. PICK op \in {"added", "removed", "rejected"} :
          /\ responses' = Append(responses, Answer(op))
          /\ op = "rejected" => q \in Rejected
          /\ served' \in [Query -> Ages \cup {"off", "on"}]
          /\ \A p \in Query : served'[p] # "off" => served[p] # "off" \/ p \notin Rejected
    BY <1>2 DEF IInv, TypeOK, Serve
  <1>4. Answer(op) \in Messages /\ Answer(op).op = op /\ Answer(op).query = q
    BY <1>2, MessageTypes
  <1> HIDE DEF Answer
  <1>5. /\ responses' \in Seq(Messages)
        /\ \A i \in DOMAIN responses' :
             (i \in DOMAIN responses /\ responses'[i] = responses[i])
             \/ responses'[i] = Answer(op)
    BY <1>3, <1>4, Appending DEF IInv, TypeOK
  <1>6. TypeOK' /\ AssertionsHold'
    BY <1>1, <1>3, <1>5, Apart DEF IInv, TypeOK, Serve
  <1>7. ResponsesPossible'
    BY <1>3, <1>4, <1>5 DEF IInv, ResponsesPossible, Serve
  <1>8. ViewsPossible'
    BY <1>3 DEF IInv, ViewsPossible, Serve, viewVars
  <1>9. Kept'
    BY Untold DEF IInv, Serve, callerVars, viewVars
  <1> QED
    BY <1>6, <1>7, <1>8, <1>9 DEF IInv

LEMMA SendCurrentStep ==
  ASSUME IInv, NEW q \in Query, SendCurrent(q)
  PROVE  IInv'
  <1> DEFINE m == [op |-> "current", query |-> q, age |-> data]
  <1>1. m \in Messages /\ m.op = "current" /\ m.query = q /\ m.age = data
    BY MessageTypes DEF IInv, TypeOK
  <1>2. q \notin Rejected
    BY DEF IInv, ViewsPossible, SendCurrent
  <1>3. responses' = Append(responses, m)
    BY DEF SendCurrent
  <1> HIDE DEF m
  <1>4. /\ responses' \in Seq(Messages)
        /\ \A i \in DOMAIN responses' :
             (i \in DOMAIN responses /\ responses'[i] = responses[i]) \/ responses'[i] = m
    BY <1>1, <1>3, Appending DEF IInv, TypeOK
  <1>5. TypeOK' /\ AssertionsHold'
    BY <1>4, Apart DEF IInv, TypeOK, SendCurrent
  <1>6. ResponsesPossible'
    BY <1>1, <1>2, <1>4 DEF IInv, ResponsesPossible, SendCurrent
  <1>7. ViewsPossible'
    BY <1>2 DEF IInv, TypeOK, ViewsPossible, SendCurrent, viewVars
  <1>8. Kept'
    BY Untold DEF IInv, SendCurrent, callerVars, viewVars
  <1> QED
    BY <1>5, <1>6, <1>7, <1>8 DEF IInv

LEMMA DataChangeStep == IInv /\ DataChange => IInv'
  <1> SUFFICES ASSUME IInv, DataChange PROVE IInv'
    OBVIOUS
  <1>1. TypeOK' /\ AssertionsHold'
    BY Apart DEF IInv, TypeOK, DataChange, Ages, callVars
  <1>2. ListenersAsked' /\ ErrorIsLast' /\ AnsweredOnce'
    BY DEF IInv, Kept, ListenersAsked, ErrorIsLast, AnsweredOnce, DataChange, callerVars,
           viewVars, Listening
  <1>3. PostedPossible'
    BY DEF IInv, Kept, PostedPossible, Possible, DataChange, callerVars, viewVars
  <1>4. ViewsPossible' /\ ResponsesPossible'
    BY DEF IInv, ViewsPossible, ResponsesPossible, DataChange, viewVars, callVars
  <1> QED
    BY <1>1, <1>2, <1>3, <1>4 DEF IInv, Kept

LEMMA CallFailsStep == IInv /\ CallFails => IInv'
  <1> SUFFICES ASSUME IInv, CallFails PROVE IInv'
    OBVIOUS
  <1>1. TypeOK' /\ AssertionsHold'
    BY Apart, ReadAssumption DEF IInv, TypeOK, CallFails, Fault
  <1>2. Kept' /\ ResponsesPossible'
    BY Untold, Unseen DEF IInv, CallFails, callerVars, viewVars
  <1>3. ViewsPossible'
    BY DEF IInv, ViewsPossible, CallFails, viewVars
  <1> QED
    BY <1>1, <1>2, <1>3 DEF IInv

-----------------------------------------------------------------------------
(* Invariance *)

LEMMA Stuttering == IInv /\ UNCHANGED vars => IInv'
  <1> SUFFICES ASSUME IInv, UNCHANGED vars PROVE IInv'
    OBVIOUS
  <1>1. TypeOK' /\ AssertionsHold'
    BY Apart DEF IInv, TypeOK, vars, callVars
  <1>2. Kept' /\ ViewsPossible' /\ ResponsesPossible'
    BY Untold, Unseen DEF IInv, vars, callerVars, viewVars, callVars
  <1> QED
    BY <1>1, <1>2 DEF IInv

LEMMA NextStep == IInv /\ [Next]_vars => IInv'
  <1> SUFFICES ASSUME IInv, [Next]_vars PROVE IInv'
    OBVIOUS
  <1>1. \A r \in Read : AddQueryListener(r) => IInv'
    BY ListenFirstStep, ListenTooStep DEF AddQueryListener
  <1>2. RunsEvents => IInv'
    BY OnEventStep DEF RunsEvents
  <1>3. RunsRemovals => IInv'
    BY RemoveQueryListenerStep DEF RunsRemovals
  <1>4. OnStreamFinish \/ CredentialsFail => IInv'
    <2>1. OnStreamFinish \/ CredentialsFail => CloseWithError /\ faults' \in 0 .. MaxFaults
      BY ReadAssumption DEF IInv, TypeOK, OnStreamFinish, CredentialsFail, Fault
    <2> QED
      BY <2>1, CloseWithErrorStep
  <1>5. RunsStream => IInv'
    BY <1>4, OnStreamStartStep, OnTargetAcknowledgedStep, OnTargetCurrentStep,
       OnTargetRejectedStep, BackoffElapsesStep DEF RunsStream
  <1>6. Answers => IInv'
    BY ServeStep, SendCurrentStep DEF Answers
  <1> QED
    BY <1>1, <1>2, <1>3, <1>4, <1>5, <1>6, IdleTimeoutStep, OnlineStateTimeoutStep,
       RestartNetworkStep, DataChangeStep, CallFailsStep, Stuttering DEF Next

(* The components of the client agree on who listens, how the stream stands  *)
(* and what has been told, and keep doing so with every step.                *)
THEOREM ReadInvariant == Spec => []IInv
  BY Initially, NextStep, PTL DEF Spec

(* Every variable keeps its type, for any gets, queries and faults. *)
THEOREM ReadTypes == Spec => []TypeOK
  <1>1. IInv => TypeOK
    BY DEF IInv
  <1> QED
    BY <1>1, ReadInvariant, PTL

(* What RemoteStore, Stream and OnlineStateTracker assert holds.  *)
THEOREM ReadAssertions == Spec => []AssertionsHold
  <1>1. IInv => AssertionsHold
    BY DEF IInv
  <1> QED
    BY <1>1, ReadInvariant, PTL

-----------------------------------------------------------------------------
(* Which answers of the backend are still awaited *)

AboutTarget(message, q) ==
  message.query = q /\ message.op \in {"watch", "unwatch", "added", "removed"}

(* Of the first n messages, those that ask for an acknowledgement or are one. *)
Awaited(messages, q, n) == Cardinality({i \in 1 .. n : AboutTarget(messages[i], q)})

(* Each acknowledgement that may come is waited for. *)
AllAwaited ==
  \A q \in Query \ Rejected :
    Awaited(responses, q, Len(responses)) + Awaited(requests, q, Len(requests)) <= pending[q]

(* What is read of a target listened to since the data changed, and is from  *)
(* before, comes ahead of an acknowledgement: it is not taken.               *)
LateNotTaken ==
  \A i \in DOMAIN responses :
    LET q == responses[i].query IN
    /\ responses[i].op = "current" /\ responses[i].age = "old"
    /\ q \in targets /\ since[q] = "new"
    => Awaited(responses, q, i) < pending[q]

ViewsFresh == \A q \in targets : view[q] = "old" => since[q] = "old"

Fresh ==
  /\ AllAwaited
  /\ LateNotTaken
  /\ ViewsFresh
  /\ stream # "open" => requests = << >> /\ responses = << >>
  /\ data = "old" => \A q \in Query : since[q] = "old"

LEMMA Counting ==
  ASSUME NEW s, NEW q, NEW n \in Nat
  PROVE  /\ IsFiniteSet({i \in 1 .. n : AboutTarget(s[i], q)})
         /\ Awaited(s, q, n) \in Nat
         /\ Awaited(s, q, 0) = 0
  <1>1. /\ IsFiniteSet(1 .. n)
        /\ {i \in 1 .. n : AboutTarget(s[i], q)} \in SUBSET (1 .. n)
    BY FS_Interval
  <1>2. IsFiniteSet({i \in 1 .. n : AboutTarget(s[i], q)})
    BY <1>1, FS_Subset
  <1>3. {i \in 1 .. 0 : AboutTarget(s[i], q)} = {}
    OBVIOUS
  <1> QED
    BY <1>2, <1>3, FS_CardinalityType, FS_EmptySet DEF Awaited

LEMMA CountingUpTo ==
  ASSUME NEW s, NEW q, NEW n \in Nat, NEW m \in Nat, m <= n
  PROVE  Awaited(s, q, m) <= Awaited(s, q, n)
  <1>1. {i \in 1 .. m : AboutTarget(s[i], q)} \in SUBSET {i \in 1 .. n : AboutTarget(s[i], q)}
    OBVIOUS
  <1> QED
    BY <1>1, Counting, FS_Subset DEF Awaited

(* Only the messages counted matter. *)
LEMMA SameCount ==
  ASSUME NEW s, NEW t, NEW q, NEW n \in Nat, \A i \in 1 .. n : s[i] = t[i]
  PROVE  Awaited(s, q, n) = Awaited(t, q, n)
  <1>1. {i \in 1 .. n : AboutTarget(s[i], q)} = {i \in 1 .. n : AboutTarget(t[i], q)}
    OBVIOUS
  <1> QED
    BY <1>1 DEF Awaited

One(message, q) == IF AboutTarget(message, q) THEN 1 ELSE 0

LEMMA CountingSent ==
  ASSUME NEW S, NEW s \in Seq(S), NEW e \in S, NEW q
  PROVE  /\ \A n \in 0 .. Len(s) : Awaited(Append(s, e), q, n) = Awaited(s, q, n)
         /\ Awaited(Append(s, e), q, Len(s) + 1) = Awaited(s, q, Len(s)) + One(e, q)
  <1> DEFINE t == Append(s, e)
             l == Len(s)
             I == {i \in 1 .. l : AboutTarget(t[i], q)}
  <1>1. l \in Nat /\ (\A i \in 1 .. l : t[i] = s[i]) /\ t[l + 1] = e
    OBVIOUS
  <1> HIDE DEF t, l
  <1>2. \A n \in 0 .. l : Awaited(t, q, n) = Awaited(s, q, n)
    <2> TAKE n \in 0 .. l
    <2>1. n \in Nat /\ \A i \in 1 .. n : t[i] = s[i]
      BY <1>1
    <2> QED
      BY <2>1, SameCount
  <1>3. {i \in 1 .. l + 1 : AboutTarget(t[i], q)}
          = IF AboutTarget(e, q) THEN I \cup {l + 1} ELSE I
    BY <1>1
  <1>4. Awaited(t, q, l) = Cardinality(I) /\ IsFiniteSet(I) /\ l + 1 \notin I
    <2>1. IsFiniteSet(I)
      BY <1>1, Counting
    <2>2. Awaited(t, q, l) = Cardinality(I)
      BY DEF Awaited
    <2>3. l + 1 \notin I
      BY <1>1
    <2> QED
      BY <2>1, <2>2, <2>3
  <1> HIDE DEF I
  <1>5. Awaited(t, q, l + 1) = Cardinality(I) + One(e, q)
    <2>1. CASE AboutTarget(e, q)
      BY <1>3, <1>4, <2>1, FS_AddElement DEF Awaited, One
    <2>2. CASE ~ AboutTarget(e, q)
      <3>1. Cardinality(I) \in Nat /\ One(e, q) = 0
        BY <1>4, <2>2, FS_CardinalityType DEF One
      <3>2. Awaited(t, q, l + 1) = Cardinality(I)
        BY <1>3, <2>2 DEF Awaited
      <3> QED
        BY <3>1, <3>2
    <2> QED
      BY <2>1, <2>2
  <1>6. Awaited(t, q, l) = Awaited(s, q, l)
    BY <1>1, <1>2
  <1> QED
    BY <1>2, <1>4, <1>5, <1>6 DEF t, l

LEMMA CountingRead ==
  ASSUME NEW S, NEW s \in Seq(S), s # << >>, NEW q, NEW n \in 1 .. Len(s)
  PROVE  Awaited(s, q, n) = Awaited(Tail(s), q, n - 1) + One(Head(s), q)
  <1> DEFINE t == Tail(s)
             I == {i \in 1 .. n - 1 : AboutTarget(t[i], q)}
             J == {j \in 2 .. n : AboutTarget(s[j], q)}
             f == [i \in I |-> i + 1]
  <1>1. n - 1 \in Nat /\ \A i \in 1 .. n - 1 : t[i] = s[i + 1]
    <2>1. Len(s) \in Nat /\ Len(t) = Len(s) - 1 /\ t \in Seq(S)
      BY Dequeuing
    <2>2. \A i \in DOMAIN t : t[i] = s[i + 1]
      BY Dequeuing
    <2>3. \A i \in 1 .. n - 1 : i \in DOMAIN t
      BY <2>1
    <2> QED
      BY <2>2, <2>3
  <1>2. s[1] = Head(s)
    BY Dequeuing
  <1> HIDE DEF t
  <1>3. Awaited(t, q, n - 1) = Cardinality(I) /\ IsFiniteSet(I)
    BY <1>1, Counting DEF Awaited
  <1>4. f \in Bijection(I, J)
    <2>1. f \in [I -> J]
      BY <1>1
    <2>2. \A i, j \in I : f[i] = f[j] => i = j
      OBVIOUS
    <2>3. \A j \in J : j - 1 \in I /\ f[j - 1] = j
      <3> TAKE j \in J
      <3>1. j - 1 \in 1 .. n - 1 /\ (j - 1) + 1 = j
        OBVIOUS
      <3>2. t[j - 1] = s[j]
        BY <1>1, <3>1
      <3> QED
        BY <3>1, <3>2
    <2> HIDE DEF f, I, J
    <2>4. f \in Injection(I, J)
      BY <2>1, <2>2 DEF Injection, IsInjective
    <2>5. f \in Surjection(I, J)
      BY <2>1, <2>3 DEF Surjection
    <2> QED
      BY <2>4, <2>5 DEF Bijection
  <1> HIDE DEF f
  <1>5. IsFiniteSet(J) /\ Cardinality(J) = Cardinality(I)
    BY <1>3, <1>4, FS_Bijection DEF ExistsBijection
  <1>6. {i \in 1 .. n : AboutTarget(s[i], q)}
          = (IF AboutTarget(Head(s), q) THEN J \cup {1} ELSE J)
    BY <1>2
  <1>7. 1 \notin J
    OBVIOUS
  <1> HIDE DEF I, J
  <1>8. CASE AboutTarget(Head(s), q)
    BY <1>3, <1>5, <1>6, <1>7, <1>8, FS_AddElement DEF Awaited, One, t
  <1>9. CASE ~ AboutTarget(Head(s), q)
    <2>1. Cardinality(J) \in Nat /\ One(Head(s), q) = 0
      BY <1>5, <1>9, FS_CardinalityType DEF One
    <2>2. Awaited(s, q, n) = Cardinality(J)
      BY <1>6, <1>9 DEF Awaited
    <2> QED
      BY <1>3, <1>5, <2>1, <2>2 DEF t
  <1> QED
    BY <1>8, <1>9

-----------------------------------------------------------------------------
(* No answer from before is taken *)

LEMMA FreshFirst == Init => Fresh
  <1> SUFFICES ASSUME Init PROVE Fresh
    OBVIOUS
  <1>1. AllAwaited
    <2>1. \A q : Awaited(<< >>, q, 0) = 0
      BY Counting
    <2> QED
      BY <2>1 DEF Init, AllAwaited
  <1> QED
    BY <1>1 DEF Init, Fresh, LateNotTaken, ViewsFresh

(* Nothing is sent, read or counted. *)
LEMMA Waiting ==
  ASSUME IInv, Fresh, UNCHANGED <<pending, requests, responses, since>>,
         targets' \subseteq targets, stream' # "open" => stream # "open",
         data' \in {data, "new"}, \A q \in Query : view'[q] = "old" => view[q] = "old"
  PROVE  Fresh'
  <1>1. AllAwaited' /\ LateNotTaken'
    BY DEF Fresh, AllAwaited, LateNotTaken
  <1>2. ViewsFresh'
    BY DEF Fresh, ViewsFresh, IInv, TypeOK
  <1> QED
    BY <1>1, <1>2 DEF Fresh

(* The call is gone with all that was awaited. *)
LEMMA FreshWithoutCall ==
  ASSUME IInv, Fresh, NoCall, UNCHANGED <<targets, since, data>>,
         \A q \in Query : view'[q] = "old" => view[q] = "old"
  PROVE  Fresh'
  <1>1. requests' = << >> /\ responses' = << >> /\ pending' = [q \in Query |-> 0]
    BY DEF NoCall
  <1>2. AllAwaited'
    <2>1. \A q : Awaited(<< >>, q, 0) = 0
      BY Counting
    <2> QED
      BY <1>1, <2>1 DEF AllAwaited
  <1>3. LateNotTaken'
    BY <1>1 DEF LateNotTaken
  <1>4. ViewsFresh'
    BY DEF Fresh, ViewsFresh, IInv, TypeOK
  <1> QED
    BY <1>1, <1>2, <1>3, <1>4 DEF Fresh

(* A request to watch or unwatch a target is counted when it is sent. *)
LEMMA Requesting ==
  ASSUME IInv, Fresh, NEW q \in Query, NEW request \in {Watch(q), Unwatch(q)},
         requests' = Append(requests, request), UNCHANGED responses,
         pending' = [pending EXCEPT ![q] = @ + 1],
         NEW p \in Query \ Rejected
  PROVE  /\ Awaited(responses, p, Len(responses)) + Awaited(requests', p, Len(requests'))
              <= pending'[p]
         /\ p = q => Awaited(responses, p, Len(responses)) < pending'[p]
         /\ pending'[p] >= pending[p]
  <1>1. /\ requests \in Seq(Messages) /\ responses \in Seq(Messages)
        /\ pending[p] \in Int
        /\ request \in Messages
    BY MessageTypes DEF IInv, TypeOK
  <1>2. One(request, p) = (IF p = q THEN 1 ELSE 0)
    BY DEF One, AboutTarget, Watch, Unwatch
  <1>3. Awaited(requests', p, Len(requests')) = Awaited(requests, p, Len(requests)) + One(request, p)
    <2>1. Len(requests') = Len(requests) + 1
      BY <1>1
    <2> QED
      BY <1>1, <2>1, CountingSent
  <1>4. pending'[p] = pending[p] + (IF p = q THEN 1 ELSE 0)
    BY <1>1 DEF IInv, TypeOK
  <1>5. /\ Awaited(requests, p, Len(requests)) \in Nat
        /\ Awaited(responses, p, Len(responses)) \in Nat
    <2>1. Len(requests) \in Nat /\ Len(responses) \in Nat
      BY <1>1
    <2> QED
      BY <2>1, Counting
  <1>6. Awaited(responses, p, Len(responses)) + Awaited(requests, p, Len(requests)) <= pending[p]
    BY DEF Fresh, AllAwaited
  <1> QED
    BY <1>1, <1>2, <1>3, <1>4, <1>5, <1>6

(* Where and of what the late answers are. *)
LEMMA CurrentTypes ==
  ASSUME IInv, NEW i \in DOMAIN responses, responses[i].op = "current"
  PROVE  /\ responses[i].query \in Query \ Rejected
         /\ i \in 1 .. Len(responses) /\ Len(responses) \in Nat
         /\ pending[responses[i].query] \in Int
  <1>1. responses \in Seq(Messages) /\ responses[i] \in Messages
    BY DEF IInv, TypeOK
  <1>2. responses[i].query \in Query
    BY <1>1 DEF Messages
  <1> QED
    BY <1>1, <1>2 DEF IInv, TypeOK, ResponsesPossible

LEMMA ListenFirstFresh ==
  ASSUME IInv, Fresh, NEW r \in Read, AddQueryListener(r), ListenFirst(r)
  PROVE  Fresh'
  <1> DEFINE q == QueryOf[r]
  <1>1. q \in Query
    BY ReadAssumption
  <1>2. /\ UNCHANGED <<responses, data>>
        /\ view' = [view EXCEPT ![q] = "cache"]
        /\ since' = [since EXCEPT ![q] = data]
        /\ targets' = targets \cup {q}
    BY DEF AddQueryListener, ListenFirst
  <1>3. ViewsFresh' /\ (data' = "old" => \A p \in Query : since'[p] = "old")
    BY <1>1, <1>2 DEF Fresh, ViewsFresh, IInv, TypeOK
  <1>4. CASE stream = "open"
    <2>1. /\ requests' = Append(requests, Watch(q))
          /\ pending' = [pending EXCEPT ![q] = @ + 1]
          /\ UNCHANGED stream
      BY <1>4 DEF ListenFirst, Started
    <2> HIDE DEF q
    <2>2. \A p \in Query \ Rejected :
            /\ Awaited(responses, p, Len(responses)) + Awaited(requests', p, Len(requests'))
                 <= pending'[p]
            /\ p = q => Awaited(responses, p, Len(responses)) < pending'[p]
            /\ pending'[p] >= pending[p]
      BY <1>1, <1>2, <2>1, Requesting
    <2>3. AllAwaited'
      BY <1>2, <2>2 DEF AllAwaited
    <2>4. LateNotTaken'
      <3> SUFFICES ASSUME NEW i \in DOMAIN responses,
                          responses[i].op = "current", responses[i].age = "old",
                          responses[i].query \in targets', since'[responses[i].query] = "new"
                   PROVE  Awaited(responses, responses[i].query, i)
                            < pending'[responses[i].query]
        BY <1>2 DEF LateNotTaken
      <3> DEFINE p == responses[i].query
      <3>1. /\ p \in Query \ Rejected /\ i \in 1 .. Len(responses) /\ Len(responses) \in Nat
            /\ pending[p] \in Int
        BY CurrentTypes
      <3>2. pending'[p] \in Int
        BY <1>1, <2>1, <3>1 DEF IInv, TypeOK
      <3>3. /\ Awaited(responses, p, i) \in Nat
            /\ Awaited(responses, p, Len(responses)) \in Nat
            /\ Awaited(responses, p, i) <= Awaited(responses, p, Len(responses))
        <4>1. i \in Nat /\ i <= Len(responses)
          BY <3>1
        <4> QED
          BY <3>1, <4>1, Counting, CountingUpTo
      <3>4. CASE p = q
        BY <2>2, <3>1, <3>2, <3>3, <3>4
      <3>5. CASE p # q
        <4>1. p \in targets /\ since[p] = "new"
          BY <1>2, <3>1, <3>5 DEF IInv, TypeOK
        <4>2. Awaited(responses, p, i) < pending[p]
          BY <4>1 DEF Fresh, LateNotTaken
        <4> QED
          BY <2>2, <3>1, <3>2, <3>3, <4>2
      <3> QED
        BY <3>4, <3>5
    <2> QED
      BY <1>3, <1>4, <2>1, <2>3, <2>4 DEF Fresh
  <1>5. CASE stream # "open"
    <2>1. UNCHANGED <<requests, pending>> /\ stream' # "open"
      BY <1>5, Starting DEF ListenFirst
    <2>2. AllAwaited'
      BY <1>2, <2>1 DEF Fresh, AllAwaited
    <2>3. requests' = << >> /\ responses' = << >>
      BY <1>2, <1>5, <2>1 DEF Fresh
    <2>4. LateNotTaken'
      BY <2>3 DEF LateNotTaken
    <2> QED
      BY <1>3, <2>1, <2>2, <2>3, <2>4 DEF Fresh
  <1> QED
    BY <1>4, <1>5

LEMMA RemoveQueryListenerFresh ==
  ASSUME IInv, Fresh, NEW r \in Read, RemoveQueryListener(r)
  PROVE  Fresh'
  <1> DEFINE q == QueryOf[r]
  <1>1. q \in Query /\ UNCHANGED <<responses, since, stream, data>>
    BY ReadAssumption DEF RemoveQueryListener
  <1>2. /\ targets' \subseteq targets
        /\ \A p \in Query : view'[p] = "old" => view[p] = "old"
    BY <1>1 DEF RemoveQueryListener, StopListening, IInv, TypeOK
  <1>3. CASE UNCHANGED <<requests, pending>>
    BY <1>1, <1>2, <1>3, Waiting
  <1>4. CASE /\ listeners[q] = {r} /\ stream = "open"
             /\ requests' = Append(requests, Unwatch(q))
             /\ pending' = [pending EXCEPT ![q] = @ + 1]
    <2> HIDE DEF q
    <2>1. \A p \in Query \ Rejected :
            /\ Awaited(responses, p, Len(responses)) + Awaited(requests', p, Len(requests'))
                 <= pending'[p]
            /\ pending'[p] >= pending[p]
      BY <1>1, <1>4, Requesting
    <2>2. AllAwaited'
      BY <1>1, <2>1 DEF AllAwaited
    <2>3. LateNotTaken'
      <3> SUFFICES ASSUME NEW i \in DOMAIN responses,
                          responses[i].op = "current", responses[i].age = "old",
                          responses[i].query \in targets', since[responses[i].query] = "new"
                   PROVE  Awaited(responses, responses[i].query, i)
                            < pending'[responses[i].query]
        BY <1>1 DEF LateNotTaken
      <3> DEFINE p == responses[i].query
      <3>1. p \in Query \ Rejected /\ i \in Nat /\ pending[p] \in Int
        BY CurrentTypes
      <3>2. Awaited(responses, p, i) < pending[p]
        BY <1>2 DEF Fresh, LateNotTaken
      <3>3. pending'[p] \in Int /\ Awaited(responses, p, i) \in Nat
        <4>1. pending'[p] \in Int
          BY <1>1, <1>4, <3>1 DEF IInv, TypeOK
        <4> QED
          BY <3>1, <4>1, Counting
      <3> QED
        BY <2>1, <3>1, <3>2, <3>3
    <2>4. ViewsFresh'
      BY <1>1, <1>2 DEF Fresh, ViewsFresh, IInv, TypeOK
    <2> QED
      BY <1>1, <1>4, <2>2, <2>3, <2>4 DEF Fresh
  <1> QED
    BY <1>3, <1>4 DEF RemoveQueryListener, StopListening

LEMMA OnStreamStartFresh == IInv /\ Fresh /\ OnStreamStart => Fresh'
  <1> SUFFICES ASSUME IInv, Fresh, OnStreamStart PROVE Fresh'
    OBVIOUS
  <1>1. /\ stream = "starting" /\ stream' = "open"
        /\ pending' = [q \in Query |-> pending[q] + (IF q \in targets THEN 1 ELSE 0)]
        /\ requests' = SetToSeq({Watch(q) : q \in targets})
        /\ UNCHANGED <<view, since, targets, responses, data>>
    BY DEF OnStreamStart, viewVars
  <1>2. requests = << >> /\ responses = << >>
    BY <1>1 DEF Fresh
  <1>3. LateNotTaken' /\ ViewsFresh'
    BY <1>1, <1>2 DEF LateNotTaken, ViewsFresh, Fresh
  <1>4. AllAwaited'
    <2> DEFINE W == {Watch(q) : q \in targets}
               s == requests'
    <2>1. IsFiniteSet(W)
      BY TargetsFinite
    <2>2. s \in Seq(W) /\ \A i, j \in DOMAIN s : s[i] = s[j] => i = j
      BY <1>1, <2>1, Ordering
    <2> SUFFICES ASSUME NEW q \in Query \ Rejected
                 PROVE  Awaited(<< >>, q, 0) + Awaited(s, q, Len(s)) <= pending'[q]
      BY <1>1, <1>2 DEF AllAwaited
    <2>3. pending[q] \in Int /\ 0 <= pending[q]
      <3>1. Awaited(<< >>, q, 0) = 0
        BY Counting
      <3> QED
        BY <1>2, <3>1 DEF Fresh, AllAwaited, IInv, TypeOK
    <2>4. pending'[q] = pending[q] + (IF q \in targets THEN 1 ELSE 0)
      BY <1>1
    <2> DEFINE I == {i \in 1 .. Len(s) : AboutTarget(s[i], q)}
    <2> HIDE DEF s
    <2>5. \A i \in I : i \in DOMAIN s /\ q \in targets /\ s[i] = Watch(q)
      <3> TAKE i \in I
      <3>1. i \in DOMAIN s /\ s[i] \in W /\ AboutTarget(s[i], q)
        BY <2>2
      <3> QED
        BY <3>1 DEF AboutTarget, Watch
    <2> HIDE DEF I
    <2>6. Cardinality(I) \in Nat /\ Cardinality(I) <= 1 /\ (q \notin targets => Cardinality(I) = 0)
      <3>1. CASE I = {}
        BY <3>1, FS_EmptySet
      <3>2. CASE I # {}
        <4>1. PICK i \in I : TRUE
          BY <3>2
        <4>2. I = {i}
          BY <2>2, <2>5, <4>1
        <4> QED
          <5>1. Cardinality({i}) = 1 /\ q \in targets
            BY <2>5, FS_Singleton
          <5> QED
            BY <4>2, <5>1
      <3> QED
        BY <3>1, <3>2
    <2>7. Awaited(<< >>, q, 0) = 0 /\ Awaited(s, q, Len(s)) = Cardinality(I)
      BY Counting DEF Awaited, I
    <2> QED
      BY <2>3, <2>4, <2>6, <2>7
  <1> QED
    BY <1>1, <1>3, <1>4 DEF Fresh

(* Reading the next response: what was behind it moves to the front. *)
LEMMA ReadingFresh ==
  ASSUME IInv, Fresh, NEW op, Reads(op),
         targets' \subseteq targets,
         \A q \in Query \ Rejected : pending'[q] = pending[q] - One(Head(responses), q)
  PROVE  AllAwaited' /\ LateNotTaken'
  <1>1. /\ responses \in Seq(Messages) /\ responses # << >> /\ responses' = Tail(responses)
        /\ UNCHANGED <<requests, since>>
    BY DEF Reads, IInv, TypeOK
  <1>2. /\ Len(responses) \in Nat \ {0} /\ Len(responses') = Len(responses) - 1
        /\ \A i \in DOMAIN responses' :
             /\ i + 1 \in 1 .. Len(responses) /\ i \in Nat
             /\ i + 1 \in DOMAIN responses /\ responses'[i] = responses[i + 1]
    BY <1>1, Dequeuing
  <1>3. \A q : \A n \in 1 .. Len(responses) :
          Awaited(responses, q, n) = Awaited(responses', q, n - 1) + One(Head(responses), q)
    BY <1>1, CountingRead
  <1>4. \A q : One(Head(responses), q) \in Int
    BY DEF One
  <1>5. AllAwaited'
    <2> SUFFICES ASSUME NEW q \in Query \ Rejected
                 PROVE  Awaited(responses', q, Len(responses')) + Awaited(requests, q, Len(requests))
                          <= pending'[q]
      BY <1>1 DEF AllAwaited
    <2>1. Awaited(responses, q, Len(responses)) + Awaited(requests, q, Len(requests)) <= pending[q]
      BY DEF Fresh, AllAwaited
    <2>2. Awaited(responses, q, Len(responses))
            = Awaited(responses', q, Len(responses')) + One(Head(responses), q)
      BY <1>2, <1>3
    <2>3. /\ Awaited(responses', q, Len(responses')) \in Nat
          /\ Awaited(requests, q, Len(requests)) \in Nat
          /\ pending[q] \in Int
      <3>1. Len(responses') \in Nat /\ Len(requests) \in Nat
        BY <1>2 DEF IInv, TypeOK
      <3> QED
        BY <3>1, Counting DEF IInv, TypeOK
    <2> QED
      BY <1>4, <2>1, <2>2, <2>3
  <1>6. LateNotTaken'
    <2> SUFFICES ASSUME NEW i \in DOMAIN responses',
                        responses'[i].op = "current", responses'[i].age = "old",
                        responses'[i].query \in targets', since[responses'[i].query] = "new"
                 PROVE  Awaited(responses', responses'[i].query, i)
                          < pending'[responses'[i].query]
      BY <1>1 DEF LateNotTaken
    <2> DEFINE q == responses'[i].query
    <2>1. responses[i + 1].query = q /\ i + 1 \in DOMAIN responses /\ i \in Nat
          /\ responses[i + 1].op = "current" /\ responses[i + 1].age = "old"
      BY <1>2
    <2>2. q \in Query \ Rejected /\ pending[q] \in Int
      BY <2>1, CurrentTypes
    <2>3. Awaited(responses, q, i + 1) < pending[q]
      BY <2>1 DEF Fresh, LateNotTaken
    <2>4. Awaited(responses, q, i + 1) = Awaited(responses', q, i) + One(Head(responses), q)
      <3>1. i + 1 \in 1 .. Len(responses) /\ (i + 1) - 1 = i
        BY <1>2
      <3> QED
        BY <1>3, <3>1
    <2>5. Awaited(responses', q, i) \in Nat
      BY <2>1, Counting
    <2> HIDE DEF q
    <2>6. Awaited(responses', q, i) < pending'[q]
      BY <1>4, <2>2, <2>3, <2>4, <2>5
    <2> QED
      BY <2>6 DEF q
  <1> QED
    BY <1>5, <1>6

LEMMA OnTargetAcknowledgedFresh == IInv /\ Fresh /\ OnTargetAcknowledged => Fresh'
  <1> SUFFICES ASSUME IInv, Fresh, OnTargetAcknowledged PROVE Fresh'
    OBVIOUS
  <1>1. /\ Reads({"added", "removed"})
        /\ pending' = [pending EXCEPT ![Head(responses).query] = @ - 1]
        /\ UNCHANGED <<view, targets>>
    BY DEF OnTargetAcknowledged
  <1>2. \A q \in Query \ Rejected : pending'[q] = pending[q] - One(Head(responses), q)
    BY <1>1, Response DEF IInv, TypeOK, One, AboutTarget
  <1>3. AllAwaited' /\ LateNotTaken'
    BY <1>1, <1>2, ReadingFresh
  <1>4. stream = "open" /\ UNCHANGED <<since, stream, data>>
    BY <1>1 DEF Reads
  <1> QED
    BY <1>1, <1>3, <1>4 DEF Fresh, ViewsFresh

LEMMA OnTargetCurrentFresh == IInv /\ Fresh /\ OnTargetCurrent => Fresh'
  <1> SUFFICES ASSUME IInv, Fresh, OnTargetCurrent PROVE Fresh'
    OBVIOUS
  <1> DEFINE q   == Head(responses).query
             age == Head(responses).age
  <1>1. Reads({"current"}) /\ UNCHANGED <<pending, targets>>
    BY DEF OnTargetCurrent
  <1>2. /\ stream = "open" /\ UNCHANGED <<since, stream, data>>
        /\ responses \in Seq(Messages) /\ responses # << >>
        /\ Head(responses).op = "current"
    BY <1>1 DEF Reads, IInv, TypeOK
  <1>3. AllAwaited' /\ LateNotTaken'
    <2>1. \A p \in Query \ Rejected : pending'[p] = pending[p] - One(Head(responses), p)
      BY <1>1, <1>2 DEF One, AboutTarget, IInv, TypeOK
    <2> QED
      BY <1>1, <2>1, ReadingFresh
  <1>4. ViewsFresh'
    <2> SUFFICES ASSUME NEW p \in targets, view'[p] = "old"
                 PROVE  since[p] = "old"
      BY <1>1, <1>2 DEF ViewsFresh
    <2>0. p \in Query
      BY DEF IInv, TypeOK
    <2>1. CASE view[p] = "old"
      BY <2>1 DEF Fresh, ViewsFresh
    <2>2. CASE view[p] # "old"
      <3>1. p = q /\ age = "old" /\ pending[q] = 0
        BY <2>0, <2>2 DEF OnTargetCurrent, IInv, TypeOK
      <3>2. Head(responses) = responses[1] /\ 1 \in DOMAIN responses
        BY <1>2, Dequeuing
      <3>3. since[p] = "new" => Awaited(responses, p, 1) < 0
        BY <1>2, <3>1, <3>2 DEF Fresh, LateNotTaken
      <3>4. Awaited(responses, p, 1) \in Nat
        BY Counting
      <3>5. since[p] \in Ages
        BY <2>0 DEF IInv, TypeOK
      <3> QED
        BY <3>3, <3>4, <3>5 DEF Ages
    <2> QED
      BY <2>1, <2>2
  <1> QED
    BY <1>2, <1>3, <1>4 DEF Fresh

LEMMA OnTargetRejectedFresh == IInv /\ Fresh /\ OnTargetRejected => Fresh'
  <1> SUFFICES ASSUME IInv, Fresh, OnTargetRejected PROVE Fresh'
    OBVIOUS
  <1> DEFINE q == Head(responses).query
  <1>1. /\ Reads({"rejected"}) /\ Head(responses).op = "rejected"
        /\ q \in Query /\ q \in Rejected
    BY Response DEF OnTargetRejected
  <1>2. stream = "open" /\ UNCHANGED <<since, stream, data>>
    BY <1>1 DEF Reads
  <1>3. /\ targets' \subseteq targets
        /\ \A p \in Query \ Rejected : pending'[p] = pending[p]
        /\ \A p \in Query : view'[p] = "old" => view[p] = "old"
    BY <1>1 DEF OnTargetRejected, IInv, TypeOK
  <1>4. AllAwaited' /\ LateNotTaken'
    <2>1. \A p \in Query \ Rejected : pending'[p] = pending[p] - One(Head(responses), p)
      BY <1>1, <1>3 DEF One, AboutTarget, IInv, TypeOK
    <2> QED
      BY <1>1, <1>3, <2>1, ReadingFresh
  <1>5. ViewsFresh'
    BY <1>2, <1>3 DEF Fresh, ViewsFresh, IInv, TypeOK
  <1> QED
    BY <1>2, <1>4, <1>5 DEF Fresh

(* A response is put behind those not yet read. *)
LEMMA Responding ==
  ASSUME IInv, Fresh, NEW response \in Messages,
         responses' = Append(responses, response),
         UNCHANGED <<targets, pending, since>>,
         response.op = "current" /\ response.age = "old" => since[response.query] = "old"
  PROVE  /\ LateNotTaken'
         /\ \A q : Awaited(responses', q, Len(responses'))
                     = Awaited(responses, q, Len(responses)) + One(response, q)
  <1>1. responses \in Seq(Messages) /\ Len(responses) \in Nat /\ Len(responses') = Len(responses) + 1
    BY DEF IInv, TypeOK
  <1>2. \A q :
          /\ \A n \in 0 .. Len(responses) : Awaited(responses', q, n) = Awaited(responses, q, n)
          /\ Awaited(responses', q, Len(responses) + 1)
               = Awaited(responses, q, Len(responses)) + One(response, q)
    <2> TAKE q
    <2> DEFINE t == Append(responses, response)
    <2>1. /\ \A n \in 0 .. Len(responses) : Awaited(t, q, n) = Awaited(responses, q, n)
          /\ Awaited(t, q, Len(responses) + 1)
               = Awaited(responses, q, Len(responses)) + One(response, q)
      BY <1>1, CountingSent
    <2> HIDE DEF t
    <2>2. t = responses'
      BY DEF t
    <2> QED
      BY <2>1, <2>2
  <1>3. \A i \in DOMAIN responses' :
          \/ i \in DOMAIN responses /\ i \in 0 .. Len(responses) /\ responses'[i] = responses[i]
          \/ responses'[i] = response
    BY <1>1
  <1>4. LateNotTaken'
    <2> SUFFICES ASSUME NEW i \in DOMAIN responses',
                        responses'[i].op = "current", responses'[i].age = "old",
                        responses'[i].query \in targets, since[responses'[i].query] = "new"
                 PROVE  Awaited(responses', responses'[i].query, i)
                          < pending[responses'[i].query]
      BY DEF LateNotTaken
    <2>1. responses'[i] # response
      OBVIOUS
    <2>2. i \in DOMAIN responses /\ i \in 0 .. Len(responses) /\ responses'[i] = responses[i]
      BY <1>3, <2>1
    <2>3. Awaited(responses, responses[i].query, i) < pending[responses[i].query]
      BY <2>2 DEF Fresh, LateNotTaken
    <2> QED
      BY <1>2, <2>2, <2>3
  <1> QED
    BY <1>1, <1>2, <1>4

LEMMA Connected == IInv => (call = "live" => stream = "open")
  BY DEF IInv, TypeOK

LEMMA ServeFresh == IInv /\ Fresh /\ Serve => Fresh'
  <1> SUFFICES ASSUME IInv, Fresh, Serve PROVE Fresh'
    OBVIOUS
  <1> DEFINE q == Head(requests).query
             Answer(op) == [op |-> op, query |-> q]
  <1>1. /\ requests \in Seq(Messages) /\ requests # << >> /\ requests' = Tail(requests)
        /\ UNCHANGED <<view, since, targets, pending, stream, data>>
    BY DEF Serve, IInv, TypeOK, viewVars
  <1>2. /\ Head(requests) \in Messages /\ Len(requests') = Len(requests) - 1
        /\ Len(requests) \in 1 .. Len(requests)
    BY <1>1, Dequeuing
  <1>3. q \in Query
    BY <1>2 DEF Messages
  <1>4. PICK op \in {"added", "removed", "rejected"} :
          /\ responses' = Append(responses, Answer(op))
          /\ op = "rejected" => q \in Rejected
          /\ Head(requests) \in {Watch(q), Unwatch(q)}
    BY DEF Serve
  <1>5. Answer(op) \in Messages /\ Answer(op).op = op /\ Answer(op).query = q
    BY <1>3, MessageTypes
  <1> HIDE DEF Answer
  <1>6. /\ LateNotTaken'
        /\ \A p : Awaited(responses', p, Len(responses'))
                    = Awaited(responses, p, Len(responses)) + One(Answer(op), p)
    BY <1>1, <1>4, <1>5, Responding
  <1>7. \A p : Awaited(requests, p, Len(requests))
                 = Awaited(requests', p, Len(requests')) + One(Head(requests), p)
    BY <1>1, <1>2, CountingRead
  <1>8. \A p \in Query \ Rejected : One(Answer(op), p) = One(Head(requests), p)
    BY <1>4, <1>5 DEF One, AboutTarget, Watch, Unwatch
  <1>9. AllAwaited'
    <2> SUFFICES ASSUME NEW p \in Query \ Rejected
                 PROVE  Awaited(responses', p, Len(responses')) + Awaited(requests', p, Len(requests'))
                          <= pending[p]
      BY <1>1 DEF AllAwaited
    <2>1. Awaited(responses, p, Len(responses)) + Awaited(requests, p, Len(requests)) <= pending[p]
      BY DEF Fresh, AllAwaited
    <2>2. /\ Awaited(responses, p, Len(responses)) \in Nat
          /\ Awaited(requests', p, Len(requests')) \in Nat
          /\ pending[p] \in Int /\ One(Head(requests), p) \in Int
      <3>1. Len(responses) \in Nat /\ Len(requests') \in Nat
        BY <1>2 DEF IInv, TypeOK
      <3> QED
        <4>1. pending[p] \in Int /\ One(Head(requests), p) \in Int
          BY DEF IInv, TypeOK, One
        <4> QED
          BY <3>1, <4>1, Counting
    <2> QED
      BY <1>6, <1>7, <1>8, <2>1, <2>2
  <1> QED
    BY <1>1, <1>6, <1>9, Connected DEF Fresh, ViewsFresh, Serve

LEMMA SendCurrentFresh ==
  ASSUME IInv, Fresh, NEW q \in Query, SendCurrent(q)
  PROVE  Fresh'
  <1> DEFINE m == [op |-> "current", query |-> q, age |-> data]
  <1>1. m \in Messages /\ m.op = "current" /\ m.query = q /\ m.age = data
    BY MessageTypes DEF IInv, TypeOK
  <1>2. /\ responses' = Append(responses, m)
        /\ UNCHANGED <<view, since, targets, pending, stream, requests, data>>
    BY DEF SendCurrent, viewVars
  <1>3. data = "old" => since[q] = "old"
    BY DEF Fresh
  <1> HIDE DEF m
  <1>4. /\ LateNotTaken'
        /\ \A p : Awaited(responses', p, Len(responses'))
                    = Awaited(responses, p, Len(responses)) + One(m, p)
    BY <1>1, <1>2, <1>3, Responding
  <1>5. AllAwaited'
    <2> SUFFICES ASSUME NEW p \in Query \ Rejected
                 PROVE  Awaited(responses', p, Len(responses')) + Awaited(requests, p, Len(requests))
                          <= pending[p]
      BY <1>2 DEF AllAwaited
    <2>1. One(m, p) = 0
      BY <1>1 DEF One, AboutTarget
    <2>2. Len(responses) \in Nat /\ Awaited(responses, p, Len(responses)) \in Nat
      <3>1. Len(responses) \in Nat
        BY DEF IInv, TypeOK
      <3> QED
        BY <3>1, Counting
    <2> QED
      BY <1>4, <2>1, <2>2 DEF Fresh, AllAwaited
  <1> QED
    BY <1>2, <1>4, <1>5, Connected DEF Fresh, ViewsFresh, SendCurrent

LEMMA CallFailsFresh == IInv /\ Fresh /\ CallFails => Fresh'
  <1> SUFFICES ASSUME IInv, Fresh, CallFails PROVE Fresh'
    OBVIOUS
  <1>1. /\ requests' = << >>
        /\ UNCHANGED <<view, since, targets, pending, stream, responses, data>>
    BY DEF CallFails, viewVars
  <1>2. AllAwaited'
    <2> SUFFICES ASSUME NEW q \in Query \ Rejected
                 PROVE  Awaited(responses, q, Len(responses)) + Awaited(<< >>, q, 0) <= pending[q]
      BY <1>1 DEF AllAwaited
    <2>1. Awaited(responses, q, Len(responses)) + Awaited(requests, q, Len(requests)) <= pending[q]
      BY DEF Fresh, AllAwaited
    <2>2. Len(responses) \in Nat /\ Len(requests) \in Nat /\ pending[q] \in Int
      BY DEF IInv, TypeOK
    <2>3. /\ Awaited(responses, q, Len(responses)) \in Nat
          /\ Awaited(requests, q, Len(requests)) \in Nat
          /\ Awaited(<< >>, q, 0) = 0
      BY <2>2, Counting
    <2> QED
      BY <2>1, <2>2, <2>3
  <1> QED
    BY <1>1, <1>2 DEF Fresh, LateNotTaken, ViewsFresh

LEMMA FreshStep == IInv /\ Fresh /\ [Next]_vars => Fresh'
  <1> SUFFICES ASSUME IInv, Fresh, [Next]_vars PROVE Fresh'
    OBVIOUS
  <1>1. ASSUME NEW r \in Read, AddQueryListener(r) PROVE Fresh'
    <2>1. CASE ListenFirst(r)
      BY <1>1, <2>1, ListenFirstFresh
    <2>2. CASE ListenToo(r)
      BY <1>1, <2>2, Waiting DEF AddQueryListener, ListenToo
    <2> QED
      BY <1>1, <2>1, <2>2 DEF AddQueryListener
  <1>2. ASSUME NEW r \in Read, OnEvent(r) PROVE Fresh'
    BY <1>2, Waiting DEF OnEvent, callVars
  <1>3. CASE OnStreamFinish \/ CredentialsFail
    <2>1. CloseWithError
      BY <1>3 DEF OnStreamFinish, CredentialsFail
    <2>2. NoCall /\ UNCHANGED <<targets, since, data>>
          /\ \A q \in Query : view'[q] = "old" => view[q] = "old"
      BY <2>1 DEF CloseWithError, BroadcastOffline, viewVars, IInv, TypeOK
    <2> QED
      BY <2>2, FreshWithoutCall
  <1>4. CASE BackoffElapses
    BY <1>4, Waiting DEF BackoffElapses, viewVars, callVars
  <1>5. CASE IdleTimeout \/ RestartNetwork
    BY <1>5, FreshWithoutCall DEF IdleTimeout, RestartNetwork, viewVars
  <1>6. CASE OnlineStateTimeout
    BY <1>6, Waiting DEF OnlineStateTimeout, BroadcastOffline, callVars, IInv, TypeOK
  <1>7. CASE DataChange
    BY <1>7, Waiting DEF DataChange, viewVars, callVars
  <1>8. CASE UNCHANGED vars
    BY <1>8, Waiting DEF vars, viewVars, callVars
  <1>9. CASE RunsStream
    BY <1>3, <1>4, <1>9, OnStreamStartFresh, OnTargetAcknowledgedFresh, OnTargetCurrentFresh,
       OnTargetRejectedFresh DEF RunsStream
  <1> QED
    BY <1>1, <1>2, <1>3, <1>5, <1>6, <1>7, <1>8, <1>9, RemoveQueryListenerFresh, ServeFresh,
       SendCurrentFresh, CallFailsFresh
    DEF Next, RunsEvents, RunsRemovals, Answers

(* No acknowledgement comes unawaited, and a view synced with the backend is *)
(* no older than its listening, however often a query is dropped and asked   *)
(* for again on one stream.                                                  *)
THEOREM NothingStale == Spec => []AnswersAreFresh
  <1>1. IInv /\ Fresh => AnswersAreFresh
    <2> SUFFICES ASSUME IInv, Fresh, NEW q \in Query \ Rejected PROVE 0 <= pending[q]
      BY DEF AnswersAreFresh, Fresh, ViewsFresh, IInv, TypeOK
    <2>1. Len(responses) \in Nat /\ Len(requests) \in Nat /\ pending[q] \in Int
      BY DEF IInv, TypeOK
    <2>2. /\ Awaited(responses, q, Len(responses)) \in Nat
          /\ Awaited(requests, q, Len(requests)) \in Nat
      BY <2>1, Counting
    <2> QED
      BY <2>1, <2>2 DEF Fresh, AllAwaited
  <1> QED
    BY <1>1, FreshFirst, FreshStep, ReadInvariant, PTL DEF Spec

-----------------------------------------------------------------------------
(* The promise *)

(* An event run is an answer to a call that has had none, or is muted. *)
LEMMA EventAnswers ==
  ASSUME IInv, NEW r \in Read, OnEvent(r)
  PROVE  Promise!Answer(r) \/ UNCHANGED <<data, asked, answers>>
  <1>1. CASE r \in muted
    BY <1>1 DEF OnEvent
  <1>2. CASE r \notin muted
    <2>1. /\ posted[r] \in Seq(Kinds) /\ posted[r] # << >>
          /\ answers \in [Read -> Seq(Kinds)]
          /\ answers' = [answers EXCEPT ![r] = Append(@, Head(posted[r]))]
          /\ UNCHANGED <<data, asked>>
      BY <1>2 DEF OnEvent, IInv, TypeOK
    <2>2. Head(posted[r]) = posted[r][1] /\ 1 \in DOMAIN posted[r] /\ Head(posted[r]) \in Kinds
      BY <2>1, Dequeuing
    <2>3. r \in asked /\ Possible(r, Head(posted[r]))
      BY <2>1, <2>2 DEF IInv, Kept, PostedPossible
    <2>4. answers[r] = << >>
      BY <1>2, <2>1 DEF IInv, Kept, AnsweredOnce
    <2>5. answers' = [answers EXCEPT ![r] = <<Head(posted[r])>>]
      BY <2>1, <2>4
    <2>6. /\ Head(posted[r]) \in {"old", data, "cache", "error"}
          /\ Head(posted[r]) = "error" => QueryOf[r] \in Rejected
          /\ Head(posted[r]) \in {"old", "new"} => QueryOf[r] \notin Rejected
      BY <2>2, <2>3 DEF Possible, Kinds, Ages
    <2> QED
      BY <2>1, <2>3, <2>4, <2>5, <2>6 DEF Promise!Answer
  <1> QED
    BY <1>1, <1>2

LEMMA PromiseStep == IInv /\ [Next]_vars => [Promise!Next]_<<data, asked, answers>>
  <1> SUFFICES ASSUME IInv, [Next]_vars
               PROVE  Promise!Next \/ UNCHANGED <<data, asked, answers>>
    OBVIOUS
  <1>1. ASSUME NEW r \in Read, AddQueryListener(r)
        PROVE  Promise!Ask(r)
    BY <1>1 DEF AddQueryListener, Promise!Ask
  <1>2. RunsEvents => Promise!Next \/ UNCHANGED <<data, asked, answers>>
    BY EventAnswers DEF RunsEvents, Promise!Next
  <1>3. RunsRemovals \/ RunsStream \/ Answers \/ CredentialsFail \/ IdleTimeout
        \/ OnlineStateTimeout \/ RestartNetwork \/ CallFails \/ UNCHANGED vars
        => UNCHANGED <<data, asked, answers>>
    BY DEF RunsRemovals, RunsStream, Answers, RemoveQueryListener, OnStreamStart,
           OnTargetAcknowledged, OnTargetCurrent, OnTargetRejected, Reads, OnStreamFinish,
           CloseWithError, BackoffElapses, Serve, SendCurrent, CredentialsFail, IdleTimeout,
           OnlineStateTimeout, RestartNetwork, CallFails, callerVars, vars
  <1>4. DataChange => Promise!Change
    BY DEF DataChange, Promise!Change, callerVars
  <1> QED
    BY <1>1, <1>2, <1>3, <1>4 DEF Next, Promise!Next

(* Every get is answered once, with an answer it may have. *)
THEOREM PromiseKept == Spec => KeepsThePromise
  <1>1. Init => Promise!Init
    BY DEF Init, Promise!Init
  <1> QED
    BY <1>1, PromiseStep, ReadInvariant, PTL DEF Spec, KeepsThePromise, Promise!Spec
=============================================================================
