------------------------ MODULE CredentialChangeProofs ------------------------
(***************************************************************************)
(* Proofs about CredentialChange, for any users, writes and bounds: each    *)
(* queue is a step behind the one that feeds it, and what is said of a user *)
(* on a queue stays in the order in which that user came.  The last section *)
(* is about Login, for any accounts and whatever is stored for them.         *)
(***************************************************************************)
EXTENDS CredentialChange, Login, TLAPS

(* The provider's user is Auth's once the main queue holds no notification;  *)
(* the last one it holds names Auth's user.                                  *)
ProviderFollows ==
  /\ (\A i \in DOMAIN mainQueue : mainQueue[i].op # "notify") => providerUser = authUser
  /\ \A i \in DOMAIN mainQueue :
       /\ mainQueue[i].op = "notify"
       /\ \A j \in DOMAIN mainQueue : j > i => mainQueue[j].op # "notify"
       => mainQueue[i].user = authUser

(* SyncEngine's user is the provider's, or the last change on the worker      *)
(* queue will make it so.                                                    *)
SyncFollows ==
  \/ /\ \A i \in DOMAIN workerQueue : workerQueue[i].op # "change"
     /\ syncUser = providerUser
  \/ \E i \in DOMAIN workerQueue :
       /\ workerQueue[i].op = "change" /\ workerQueue[i].user = providerUser
       /\ \A j \in DOMAIN workerQueue : j > i => workerQueue[j].op # "change"

(* A token of the current count is the provider's user's, or failed, unless  *)
(* the main queue has a notification ahead of it.                            *)
TokensInTime ==
  /\ \A r \in requests :
       r.user # Asked /\ r.counter = tokenCounter =>
         r.user = providerUser \/ \E j \in DOMAIN mainQueue : mainQueue[j].op = "notify"
  /\ \A i \in DOMAIN mainQueue :
       mainQueue[i].op = "token" /\ mainQueue[i].token.counter = tokenCounter =>
         \/ mainQueue[i].token.user \in {providerUser, NoToken}
         \/ \E j \in DOMAIN mainQueue : j < i /\ mainQueue[j].op = "notify"

(* No request, token or resumption is ahead of the counts it was made at. *)
Counted ==
  /\ \A r \in requests : r.counter <= tokenCounter /\ r.close <= closeCount
  /\ \A i \in DOMAIN mainQueue :
       mainQueue[i].op = "token" =>
         mainQueue[i].token.counter <= tokenCounter /\ mainQueue[i].token.close <= closeCount
  /\ \A i \in DOMAIN workerQueue :
       workerQueue[i].op = "resume" => workerQueue[i].close <= closeCount

(* One that is not stale belongs to a stream that is starting. *)
ForTheStarting ==
  stream # "starting" =>
    /\ \A r \in requests : r.close # closeCount
    /\ \A i \in DOMAIN mainQueue :
         mainQueue[i].op = "token" => mainQueue[i].token.close # closeCount
    /\ \A i \in DOMAIN workerQueue :
         workerQueue[i].op = "resume" => workerQueue[i].close # closeCount

(* A stream that has been closed so many times has asked for one token. *)
OnePerClose ==
  /\ \A r, s \in requests : r.close = s.close => r = s
  /\ \A i, j \in DOMAIN mainQueue :
       /\ mainQueue[i].op = "token" /\ mainQueue[j].op = "token"
       /\ mainQueue[i].token.close = mainQueue[j].token.close
       => i = j
  /\ \A i, j \in DOMAIN workerQueue :
       /\ workerQueue[i].op = "resume" /\ workerQueue[j].op = "resume"
       /\ workerQueue[i].close = workerQueue[j].close
       => i = j
  /\ \A r \in requests :
       /\ \A i \in DOMAIN mainQueue :
            mainQueue[i].op = "token" => mainQueue[i].token.close # r.close
       /\ \A i \in DOMAIN workerQueue :
            workerQueue[i].op = "resume" => workerQueue[i].close # r.close
  /\ \A i \in DOMAIN mainQueue, j \in DOMAIN workerQueue :
       mainQueue[i].op = "token" /\ workerQueue[j].op = "resume" =>
         mainQueue[i].token.close # workerQueue[j].close

(* A resumption that is not stale is SyncEngine's user's, or failed, unless  *)
(* the worker queue has a change ahead of it.                                *)
ResumesInTime ==
  \A i \in DOMAIN workerQueue :
    workerQueue[i].op = "resume" /\ workerQueue[i].close = closeCount =>
      \/ workerQueue[i].user \in {syncUser, NoToken}
      \/ \E j \in DOMAIN workerQueue : j < i /\ workerQueue[j].op = "change"

(* A home screen is that of the user Auth and the provider have, but for a   *)
(* sign-out by force, of which Auth knows first.                             *)
HomeFollows ==
  appUser # NoOne =>
    /\ {authUser, providerUser} \subseteq {appUser, NoOne}
    /\ authUser = appUser => providerUser = appUser
    /\ \A i \in DOMAIN mainQueue :
         /\ mainQueue[i].op # "signedIn"
         /\ mainQueue[i].op = "notify" =>
              \/ mainQueue[i].user = appUser
              \/ mainQueue[i].user = NoOne /\ authUser = NoOne

(* The completion of a sign-in comes right behind its notification, and only *)
(* notifications of the same user come after it, or of a sign-out by force.  *)
SignInFollows ==
  \A i \in DOMAIN mainQueue : mainQueue[i].op = "signedIn" =>
    /\ authUser \in {mainQueue[i].user, NoOne}
    /\ i = 1 => providerUser = mainQueue[i].user
    /\ i > 1 => mainQueue[i - 1] = PostNotification(mainQueue[i].user)
    /\ \A j \in DOMAIN mainQueue :
         /\ j # i => mainQueue[j].op # "signedIn"
         /\ j > i /\ mainQueue[j].op = "notify" =>
              \/ mainQueue[j].user = mainQueue[i].user
              \/ mainQueue[j].user = NoOne /\ authUser = NoOne

(* Whose mutation queue may take a write: its author's, or nobody's if Auth  *)
(* had signed the author out when it was committed.                          *)
MayTake(u, w, excused) == u = Author[w] \/ (u = NoOne /\ w \in excused)

(* A write on the worker queue finds a user there that may take it: as       *)
(* SyncEngine's user, or as the last change ahead of it.                     *)
WritesInTime ==
  \A i \in DOMAIN workerQueue : workerQueue[i].op = "write" =>
    \/ /\ MayTake(syncUser, workerQueue[i].write, unowned)
       /\ \A j \in DOMAIN workerQueue : j < i => workerQueue[j].op # "change"
    \/ \E j \in DOMAIN workerQueue :
         /\ j < i /\ workerQueue[j].op = "change"
         /\ MayTake(workerQueue[j].user, workerQueue[i].write, unowned)
         /\ \A k \in DOMAIN workerQueue : j < k /\ k < i => workerQueue[k].op # "change"

IInv ==
  /\ TypeOK
  /\ ProviderFollows /\ SyncFollows
  /\ TokensInTime /\ Counted /\ ForTheStarting /\ OnePerClose
  /\ ResumesInTime
  /\ OpenAsItsUser
  /\ HomeFollows /\ SignInFollows /\ WritesInTime
  /\ StoredUnderAuthor

-----------------------------------------------------------------------------
(* Queues *)

LEMMA Appending ==
  ASSUME NEW S, NEW q \in Seq(S), NEW e \in S
  PROVE  /\ Append(q, e) \in Seq(S)
         /\ \A i \in DOMAIN q : /\ i \in Nat /\ i > 0 /\ i <= Len(q)
                               /\ i \in DOMAIN Append(q, e) /\ Append(q, e)[i] = q[i]
         /\ \A i \in DOMAIN Append(q, e) : i \in DOMAIN q \/ i = Len(q) + 1
         /\ Len(q) \in Nat /\ Len(q) + 1 \in DOMAIN Append(q, e)
         /\ Append(q, e)[Len(q) + 1] = e
  OBVIOUS

LEMMA Taking ==
  ASSUME NEW S, NEW q \in Seq(S), q # << >>
  PROVE  /\ Tail(q) \in Seq(S)
         /\ \A i \in DOMAIN Tail(q) :
              i \in Nat /\ i > 0 /\ i + 1 \in DOMAIN q /\ Tail(q)[i] = q[i + 1]
         /\ \A i \in DOMAIN q :
              /\ i \in Nat /\ i > 0
              /\ i # 1 => i - 1 \in DOMAIN Tail(q) /\ q[i] = Tail(q)[i - 1]
         /\ Head(q) = q[1] /\ 1 \in DOMAIN q
  OBVIOUS

LEMMA InitInv == Init => IInv
  <1> SUFFICES ASSUME Init PROVE IInv OBVIOUS
  <1> USE CredentialAssumption DEF Init, Users
  <1>1. TypeOK BY DEF TypeOK, Request, GetToken
  <1>2. ProviderFollows /\ SyncFollows BY DEF ProviderFollows, SyncFollows
  <1>3. TokensInTime /\ Counted /\ ForTheStarting /\ ResumesInTime
    BY DEF TokensInTime, Counted, ForTheStarting, ResumesInTime, GetToken
  <1>7. OnePerClose BY DEF OnePerClose, GetToken
  <1>4. HomeFollows /\ SignInFollows /\ WritesInTime
    BY DEF HomeFollows, SignInFollows, WritesInTime
  <1>5. OpenAsItsUser BY DEF OpenAsItsUser
  <1>6. StoredUnderAuthor BY DEF StoredUnderAuthor
  <1> QED BY <1>1, <1>2, <1>3, <1>4, <1>5, <1>6, <1>7 DEF IInv

(* What the type invariant says of the members of queues and requests. *)
LEMMA Members ==
  ASSUME TypeOK
  PROVE  /\ \A r \in requests :
              r.counter \in Nat /\ r.close \in Nat /\ r.user \in Users \cup {Asked}
         /\ DOMAIN mainQueue = 1 .. Len(mainQueue) /\ Len(mainQueue) \in Nat
         /\ \A i \in DOMAIN mainQueue :
              /\ mainQueue[i].op \in {"notify", "signedIn", "token"}
              /\ mainQueue[i].op = "token" =>
                   /\ mainQueue[i].token \in Token
                   /\ mainQueue[i].token.counter \in Nat
                   /\ mainQueue[i].token.close \in Nat
                   /\ mainQueue[i].token.user \in Users \cup {NoToken}
              /\ mainQueue[i].op # "token" => mainQueue[i].user \in Users
         /\ DOMAIN workerQueue = 1 .. Len(workerQueue) /\ Len(workerQueue) \in Nat
         /\ \A i \in DOMAIN workerQueue :
              /\ workerQueue[i].op \in {"change", "write", "resume"}
              /\ workerQueue[i].op = "resume" => workerQueue[i].close \in Nat
              /\ workerQueue[i].op = "write" => workerQueue[i].write \in Write
              /\ workerQueue[i].op = "change" => workerQueue[i].user \in Users
              /\ workerQueue[i].op = "resume" => workerQueue[i].user \in Users \cup {NoToken}
         /\ tokenCounter \in Nat /\ closeCount \in Nat
         /\ requests \subseteq Request
  <1>1. \A r \in requests : r \in Request BY DEF TypeOK
  <1>2. \A i \in DOMAIN mainQueue : mainQueue[i] \in MainItem BY DEF TypeOK
  <1>3. \A i \in DOMAIN workerQueue : workerQueue[i] \in WorkerItem BY DEF TypeOK
  <1>4. \A r \in requests :
          r.counter \in Nat /\ r.close \in Nat /\ r.user \in Users \cup {Asked}
    BY <1>1 DEF Request
  <1>5. \A i \in DOMAIN mainQueue :
          /\ mainQueue[i].op \in {"notify", "signedIn", "token"}
          /\ mainQueue[i].op = "token" => mainQueue[i].token \in Token
          /\ mainQueue[i].op # "token" => mainQueue[i].user \in Users
    BY <1>2 DEF MainItem
  <1>6. \A t \in Token : t.counter \in Nat /\ t.close \in Nat /\ t.user \in Users \cup {NoToken}
    BY DEF Token
  <1>7. \A i \in DOMAIN workerQueue :
          /\ workerQueue[i].op \in {"change", "write", "resume"}
          /\ workerQueue[i].op = "resume" => workerQueue[i].close \in Nat
          /\ workerQueue[i].op = "write" => workerQueue[i].write \in Write
          /\ workerQueue[i].op = "change" => workerQueue[i].user \in Users
          /\ workerQueue[i].op = "resume" => workerQueue[i].user \in Users \cup {NoToken}
    BY <1>3 DEF WorkerItem
  <1> QED BY <1>4, <1>5, <1>6, <1>7 DEF TypeOK

(* Another item on the worker queue leaves the writes ahead of it in time; a  *)
(* write is, when its author is the provider's user.                         *)
LEMMA WritesOnAppend ==
  ASSUME WritesInTime, SyncFollows, workerQueue \in Seq(WorkerItem),
         NEW e \in WorkerItem, workerQueue' = Append(workerQueue, e),
         syncUser' = syncUser, unowned \subseteq unowned',
         e.op = "write" => MayTake(providerUser, e.write, unowned')
  PROVE  WritesInTime'
  <1> DEFINE n == Len(workerQueue)
  <1>1. /\ \A i \in DOMAIN workerQueue :
             /\ i \in Nat /\ i > 0 /\ i <= n
             /\ i \in DOMAIN workerQueue' /\ workerQueue'[i] = workerQueue[i]
        /\ \A i \in DOMAIN workerQueue' : i \in DOMAIN workerQueue \/ i = n + 1
        /\ n \in Nat /\ workerQueue'[n + 1] = e
    BY Appending
  <1> HIDE DEF n
  <1> SUFFICES ASSUME NEW i \in DOMAIN workerQueue', workerQueue'[i].op = "write"
               PROVE
    \/ /\ MayTake(syncUser', workerQueue'[i].write, unowned')
       /\ \A j \in DOMAIN workerQueue' : j < i => workerQueue'[j].op # "change"
    \/ \E j \in DOMAIN workerQueue' :
         /\ j < i /\ workerQueue'[j].op = "change"
         /\ MayTake(workerQueue'[j].user, workerQueue'[i].write, unowned')
         /\ \A k \in DOMAIN workerQueue' : j < k /\ k < i => workerQueue'[k].op # "change"
    BY DEF WritesInTime
  <1>0. \A u, x : MayTake(u, x, unowned) => MayTake(u, x, unowned')
    BY DEF MayTake
  <1>2. \A k \in DOMAIN workerQueue' : k < i => k \in DOMAIN workerQueue
    BY <1>1
  <1>3. CASE i \in DOMAIN workerQueue
    <2>1. workerQueue'[i] = workerQueue[i] BY <1>1, <1>3
    <2>2. CASE /\ MayTake(syncUser, workerQueue[i].write, unowned)
               /\ \A j \in DOMAIN workerQueue : j < i => workerQueue[j].op # "change"
      BY <1>0, <1>1, <1>2, <2>1, <2>2
    <2>3. CASE \E j \in DOMAIN workerQueue :
                 /\ j < i /\ workerQueue[j].op = "change"
                 /\ MayTake(workerQueue[j].user, workerQueue[i].write, unowned)
                 /\ \A k \in DOMAIN workerQueue : j < k /\ k < i => workerQueue[k].op # "change"
      BY <1>0, <1>1, <1>2, <2>1, <2>3
    <2> QED BY <1>3, <2>1, <2>2, <2>3 DEF WritesInTime
  <1>4. CASE i = n + 1
    <2>1. workerQueue'[i] = e /\ MayTake(providerUser, workerQueue'[i].write, unowned') BY <1>1, <1>4
    <2>2. CASE /\ \A j \in DOMAIN workerQueue : workerQueue[j].op # "change"
               /\ syncUser = providerUser
      BY <1>1, <1>2, <2>1, <2>2
    <2>3. CASE \E j \in DOMAIN workerQueue :
                 /\ workerQueue[j].op = "change" /\ workerQueue[j].user = providerUser
                 /\ \A k \in DOMAIN workerQueue : k > j => workerQueue[k].op # "change"
      <3> PICK j \in DOMAIN workerQueue :
                 /\ workerQueue[j].op = "change" /\ workerQueue[j].user = providerUser
                 /\ \A k \in DOMAIN workerQueue : k > j => workerQueue[k].op # "change"
        BY <2>3
      <3>1. /\ j \in DOMAIN workerQueue' /\ j < i /\ workerQueue'[j] = workerQueue[j]
        BY <1>1, <1>4
      <3>2. \A k \in DOMAIN workerQueue' : j < k /\ k < i => workerQueue'[k].op # "change"
        BY <1>1, <1>2
      <3> QED BY <2>1, <3>1, <3>2
    <2> QED BY <2>2, <2>3 DEF SyncFollows
  <1> QED BY <1>1, <1>3, <1>4

(* An item that is no change leaves SyncEngine's user to follow as it did.   *)
LEMMA SyncOnAppend ==
  ASSUME SyncFollows, workerQueue \in Seq(WorkerItem),
         NEW e \in WorkerItem, workerQueue' = Append(workerQueue, e),
         syncUser' = syncUser, providerUser' = providerUser, e.op # "change"
  PROVE  SyncFollows'
  <1> DEFINE n == Len(workerQueue)
  <1>1. /\ \A i \in DOMAIN workerQueue :
             /\ i \in Nat /\ i > 0 /\ i <= n
             /\ i \in DOMAIN workerQueue' /\ workerQueue'[i] = workerQueue[i]
        /\ \A i \in DOMAIN workerQueue' : i \in DOMAIN workerQueue \/ i = n + 1
        /\ n \in Nat /\ workerQueue'[n + 1] = e
    BY Appending
  <1> QED BY <1>1 DEF SyncFollows

(* What follows from the head of the worker queue being taken.               *)
LEMMA WorkerTakes ==
  ASSUME SyncFollows, WritesInTime, workerQueue \in Seq(WorkerItem), workerQueue # << >>,
         workerQueue' = Tail(workerQueue), providerUser' = providerUser, unowned' = unowned,
         syncUser' = IF workerQueue[1].op = "change" THEN workerQueue[1].user ELSE syncUser
  PROVE  SyncFollows' /\ WritesInTime'
  <1>1. /\ 1 \in DOMAIN workerQueue
        /\ \A i \in DOMAIN workerQueue' :
             /\ i \in Nat /\ i > 0
             /\ i + 1 \in DOMAIN workerQueue /\ workerQueue'[i] = workerQueue[i + 1]
        /\ \A i \in DOMAIN workerQueue :
             /\ i \in Nat /\ i > 0
             /\ i # 1 => i - 1 \in DOMAIN workerQueue' /\ workerQueue[i] = workerQueue'[i - 1]
    BY Taking
  <1>2. SyncFollows'
    <2>1. CASE /\ \A j \in DOMAIN workerQueue : workerQueue[j].op # "change"
               /\ syncUser = providerUser
      BY <1>1, <2>1 DEF SyncFollows
    <2>2. CASE \E j \in DOMAIN workerQueue :
                 /\ workerQueue[j].op = "change" /\ workerQueue[j].user = providerUser
                 /\ \A k \in DOMAIN workerQueue : k > j => workerQueue[k].op # "change"
      <3> PICK j \in DOMAIN workerQueue :
                 /\ workerQueue[j].op = "change" /\ workerQueue[j].user = providerUser
                 /\ \A k \in DOMAIN workerQueue : k > j => workerQueue[k].op # "change"
        BY <2>2
      <3>1. CASE j = 1
        BY <1>1, <3>1 DEF SyncFollows
      <3>2. CASE j # 1
        <4>1. /\ j - 1 \in DOMAIN workerQueue' /\ workerQueue'[j - 1] = workerQueue[j]
          BY <1>1, <3>2
        <4>2. ASSUME NEW k \in DOMAIN workerQueue', k > j - 1
              PROVE  workerQueue'[k].op # "change"
          BY <1>1, <4>2
        <4> QED BY <4>1, <4>2 DEF SyncFollows
      <3> QED BY <3>1, <3>2
    <2> QED BY <2>1, <2>2 DEF SyncFollows
  <1>3. WritesInTime'
    <2> SUFFICES ASSUME NEW i \in DOMAIN workerQueue', workerQueue'[i].op = "write"
                 PROVE
      \/ /\ MayTake(syncUser', workerQueue'[i].write, unowned')
         /\ \A j \in DOMAIN workerQueue' : j < i => workerQueue'[j].op # "change"
      \/ \E j \in DOMAIN workerQueue' :
           /\ j < i /\ workerQueue'[j].op = "change"
           /\ MayTake(workerQueue'[j].user, workerQueue'[i].write, unowned')
           /\ \A k \in DOMAIN workerQueue' : j < k /\ k < i => workerQueue'[k].op # "change"
      BY DEF WritesInTime
    <2>1. /\ i \in Nat /\ i + 1 \in DOMAIN workerQueue /\ workerQueue'[i] = workerQueue[i + 1]
      BY <1>1
    <2>2. CASE /\ MayTake(syncUser, workerQueue[i + 1].write, unowned)
               /\ \A j \in DOMAIN workerQueue : j < i + 1 => workerQueue[j].op # "change"
      <3>1. workerQueue[1].op # "change" BY <1>1, <2>1, <2>2
      <3>2. ASSUME NEW j \in DOMAIN workerQueue', j < i PROVE workerQueue'[j].op # "change"
        BY <1>1, <2>1, <2>2, <3>2
      <3> QED BY <2>1, <2>2, <3>1, <3>2
    <2>3. CASE \E j \in DOMAIN workerQueue :
                 /\ j < i + 1 /\ workerQueue[j].op = "change"
                 /\ MayTake(workerQueue[j].user, workerQueue[i + 1].write, unowned)
                 /\ \A k \in DOMAIN workerQueue :
                      j < k /\ k < i + 1 => workerQueue[k].op # "change"
      <3> PICK j \in DOMAIN workerQueue :
                 /\ j < i + 1 /\ workerQueue[j].op = "change"
                 /\ MayTake(workerQueue[j].user, workerQueue[i + 1].write, unowned)
                 /\ \A k \in DOMAIN workerQueue :
                      j < k /\ k < i + 1 => workerQueue[k].op # "change"
        BY <2>3
      <3>1. ASSUME NEW k \in DOMAIN workerQueue', j - 1 < k, k < i
            PROVE  workerQueue'[k].op # "change"
        <4>1. /\ k + 1 \in DOMAIN workerQueue /\ workerQueue'[k] = workerQueue[k + 1]
              /\ j < k + 1 /\ k + 1 < i + 1
          BY <1>1, <2>1, <3>1
        <4> QED BY <4>1
      <3>2. CASE j = 1
        <4>1. \A k \in DOMAIN workerQueue' : k < i => workerQueue'[k].op # "change"
          BY <1>1, <3>1, <3>2
        <4> QED BY <2>1, <3>2, <4>1
      <3>3. CASE j # 1
        <4>1. /\ j - 1 \in DOMAIN workerQueue' /\ workerQueue'[j - 1] = workerQueue[j]
              /\ j - 1 < i
          BY <1>1, <2>1, <3>3
        <4> QED BY <2>1, <3>1, <4>1
      <3> QED BY <3>2, <3>3
    <2> QED BY <2>1, <2>2, <2>3 DEF WritesInTime
  <1> QED BY <1>2, <1>3

LEMMA HearOfChangeInv == IInv /\ HearOfChange => IInv'
  <1> SUFFICES ASSUME IInv, HearOfChange PROVE IInv' OBVIOUS
  <1> USE CredentialAssumption
  <1> DEFINE n == Len(workerQueue)
             u == mainQueue[1].user
  <1>1. /\ mainQueue \in Seq(MainItem) /\ mainQueue # << >>
        /\ mainQueue[1].op = "notify" /\ Head(mainQueue) = mainQueue[1]
        /\ workerQueue \in Seq(WorkerItem)
    BY Taking DEF IInv, TypeOK, HearOfChange, Takes
  <1>2. u \in Users BY <1>1 DEF MainItem
  <1>3. [op |-> "change", user |-> u] \in WorkerItem BY <1>2 DEF WorkerItem
  <1>4. /\ mainQueue' = Tail(mainQueue)
        /\ providerUser' = u /\ tokenCounter' = tokenCounter + 1
        /\ workerQueue' = Append(workerQueue, [op |-> "change", user |-> u])
        /\ UNCHANGED <<authVars, appVars, requests, syncUser, pending, streamVars, closes>>
    BY <1>1 DEF HearOfChange
  <1>5. /\ mainQueue' \in Seq(MainItem)
        /\ 1 \in DOMAIN mainQueue
        /\ \A i \in DOMAIN mainQueue' :
             i \in Nat /\ i > 0 /\ i + 1 \in DOMAIN mainQueue /\ mainQueue'[i] = mainQueue[i + 1]
        /\ \A i \in DOMAIN mainQueue :
             /\ i \in Nat /\ i > 0
             /\ i # 1 => i - 1 \in DOMAIN mainQueue' /\ mainQueue[i] = mainQueue'[i - 1]
    BY <1>1, <1>4, Taking
  <1>6. /\ workerQueue' \in Seq(WorkerItem)
        /\ \A i \in DOMAIN workerQueue :
             /\ i \in Nat /\ i > 0 /\ i <= n
             /\ i \in DOMAIN workerQueue' /\ workerQueue'[i] = workerQueue[i]
        /\ \A i \in DOMAIN workerQueue' : i \in DOMAIN workerQueue \/ i = n + 1
        /\ n \in Nat /\ n + 1 \in DOMAIN workerQueue'
        /\ workerQueue'[n + 1] = [op |-> "change", user |-> u]
    BY <1>1, <1>3, <1>4, Appending
  <1> HIDE DEF u, n
  <1>7. TypeOK' BY <1>2, <1>4, <1>5, <1>6 DEF IInv, TypeOK, authVars, appVars, streamVars
  <1>8. ProviderFollows'
    <2>1. authUser' = authUser BY <1>4 DEF authVars
    <2>2. ASSUME \A i \in DOMAIN mainQueue' : mainQueue'[i].op # "notify"
          PROVE  providerUser' = authUser'
      <3>1. \A j \in DOMAIN mainQueue : j > 1 => mainQueue[j].op # "notify"
        BY <1>5, <2>2
      <3>2. 1 \in DOMAIN mainQueue /\ mainQueue[1].op = "notify" BY <1>1, <1>5
      <3>3. mainQueue[1].user = authUser BY <3>1, <3>2 DEF IInv, ProviderFollows
      <3> QED BY <1>4, <2>1, <3>3 DEF u
    <2>3. ASSUME NEW i \in DOMAIN mainQueue', mainQueue'[i].op = "notify",
                 \A j \in DOMAIN mainQueue' : j > i => mainQueue'[j].op # "notify"
          PROVE  mainQueue'[i].user = authUser'
      <3>1. i + 1 \in DOMAIN mainQueue /\ mainQueue[i + 1] = mainQueue'[i]
        BY <1>5
      <3>2. ASSUME NEW j \in DOMAIN mainQueue, j > i + 1 PROVE mainQueue[j].op # "notify"
        <4>1. /\ j - 1 \in DOMAIN mainQueue' /\ mainQueue[j] = mainQueue'[j - 1]
              /\ j - 1 > i
          BY <1>5, <3>2
        <4> QED BY <4>1, <2>3
      <3> QED BY <2>1, <2>3, <3>1, <3>2 DEF IInv, ProviderFollows
    <2> QED BY <2>2, <2>3 DEF ProviderFollows
  <1>9. SyncFollows' BY <1>4, <1>6 DEF IInv, SyncFollows
  <1>10. TokensInTime'
    BY <1>4, <1>5, Members DEF IInv, TokensInTime, Counted
  <1>11. Counted'
    BY <1>4, <1>5, <1>6, Members DEF IInv, Counted, streamVars
  <1>12. ForTheStarting'
    BY <1>4, <1>5, <1>6 DEF IInv, ForTheStarting, streamVars
  <1>19. OnePerClose'
    <2>1. requests' = requests BY <1>4
    <2>2. \A i \in DOMAIN workerQueue' : workerQueue'[i].op = "resume" =>
            i \in DOMAIN workerQueue /\ workerQueue'[i] = workerQueue[i]
      BY <1>6
    <2>3. OnePerClose BY DEF IInv
    <2>4. \A i, j \in DOMAIN mainQueue' :
            /\ mainQueue'[i].op = "token" /\ mainQueue'[j].op = "token"
            /\ mainQueue'[i].token.close = mainQueue'[j].token.close
            => i = j
      <3> SUFFICES ASSUME NEW i \in DOMAIN mainQueue', NEW j \in DOMAIN mainQueue',
                          mainQueue'[i].op = "token", mainQueue'[j].op = "token",
                          mainQueue'[i].token.close = mainQueue'[j].token.close
                   PROVE  i = j
        OBVIOUS
      <3>1. i + 1 = j + 1 BY <1>5, <2>3 DEF OnePerClose
      <3> QED BY <1>5, <3>1
    <2> QED BY <1>5, <2>1, <2>2, <2>3, <2>4 DEF OnePerClose
  <1>13. ResumesInTime' BY <1>4, <1>6 DEF IInv, ResumesInTime, streamVars
  <1>14. OpenAsItsUser' BY <1>4 DEF IInv, OpenAsItsUser, streamVars
  <1>15. HomeFollows' BY <1>1, <1>4, <1>5 DEF IInv, HomeFollows, authVars, appVars, u
  <1>16. SignInFollows'
    <2> SUFFICES ASSUME NEW i \in DOMAIN mainQueue', mainQueue'[i].op = "signedIn"
                 PROVE  /\ authUser' \in {mainQueue'[i].user, NoOne}
                        /\ i = 1 => providerUser' = mainQueue'[i].user
                        /\ i > 1 => mainQueue'[i - 1] = PostNotification(mainQueue'[i].user)
                        /\ \A j \in DOMAIN mainQueue' :
                             /\ j # i => mainQueue'[j].op # "signedIn"
                             /\ j > i /\ mainQueue'[j].op = "notify" =>
                                  \/ mainQueue'[j].user = mainQueue'[i].user
                                  \/ mainQueue'[j].user = NoOne /\ authUser' = NoOne
      BY DEF SignInFollows, PostNotification
    <2>1. i + 1 \in DOMAIN mainQueue /\ mainQueue[i + 1] = mainQueue'[i] /\ i \in Nat /\ i > 0
      BY <1>5
    <2>2. /\ authUser \in {mainQueue[i + 1].user, NoOne}
          /\ mainQueue[i] = PostNotification(mainQueue[i + 1].user)
      BY <2>1 DEF IInv, SignInFollows
    <2>3. i = 1 => u = mainQueue[i + 1].user BY <2>2 DEF PostNotification, u
    <2>4. i > 1 => mainQueue'[i - 1] = mainQueue[i] BY <1>5, <2>1
    <2>5. ASSUME NEW j \in DOMAIN mainQueue'
          PROVE  /\ j # i => mainQueue'[j].op # "signedIn"
                 /\ j > i /\ mainQueue'[j].op = "notify" =>
                      \/ mainQueue'[j].user = mainQueue'[i].user
                      \/ mainQueue'[j].user = NoOne /\ authUser' = NoOne
      <3>1. j + 1 \in DOMAIN mainQueue /\ mainQueue[j + 1] = mainQueue'[j] /\ j \in Nat
        BY <1>5
      <3>2. /\ j + 1 # i + 1 => mainQueue[j + 1].op # "signedIn"
            /\ j + 1 > i + 1 /\ mainQueue[j + 1].op = "notify" =>
                 \/ mainQueue[j + 1].user = mainQueue[i + 1].user
                 \/ mainQueue[j + 1].user = NoOne /\ authUser = NoOne
        BY <2>1, <3>1 DEF IInv, SignInFollows
      <3> QED BY <1>4, <2>1, <3>1, <3>2 DEF authVars
    <2> QED BY <1>4, <2>1, <2>2, <2>3, <2>4, <2>5 DEF authVars
  <1>17. WritesInTime'
    BY <1>1, <1>3, <1>4, WritesOnAppend DEF IInv, appVars
  <1>18. StoredUnderAuthor' BY <1>4 DEF IInv, StoredUnderAuthor, appVars
  <1> QED BY <1>7, <1>8, <1>9, <1>10, <1>11, <1>12, <1>13, <1>14, <1>15, <1>16, <1>17, <1>18, <1>19
      DEF IInv

(* What follows from an item other than a notification being taken from the  *)
(* main queue.                                                               *)
LEMMA MainTakes ==
  ASSUME ProviderFollows, SignInFollows, TokensInTime, mainQueue \in Seq(MainItem),
         mainQueue # << >>, mainQueue[1].op # "notify", mainQueue' = Tail(mainQueue),
         authUser' = authUser, providerUser' = providerUser, tokenCounter' = tokenCounter,
         \A r \in requests' : r.user # Asked => r \in requests
  PROVE  ProviderFollows' /\ SignInFollows' /\ TokensInTime'
  <1>1. /\ 1 \in DOMAIN mainQueue
        /\ \A i \in DOMAIN mainQueue' :
             /\ i \in Nat /\ i > 0
             /\ i + 1 \in DOMAIN mainQueue /\ mainQueue'[i] = mainQueue[i + 1]
        /\ \A i \in DOMAIN mainQueue :
             /\ i \in Nat /\ i > 0
             /\ i # 1 => i - 1 \in DOMAIN mainQueue' /\ mainQueue[i] = mainQueue'[i - 1]
    BY Taking
  <1>2. ProviderFollows'
    <2>1. ASSUME \A i \in DOMAIN mainQueue' : mainQueue'[i].op # "notify"
          PROVE  providerUser' = authUser'
      <3>1. \A j \in DOMAIN mainQueue : mainQueue[j].op # "notify" BY <1>1, <2>1
      <3> QED BY <3>1 DEF ProviderFollows
    <2>2. ASSUME NEW i \in DOMAIN mainQueue', mainQueue'[i].op = "notify",
                 \A j \in DOMAIN mainQueue' : j > i => mainQueue'[j].op # "notify"
          PROVE  mainQueue'[i].user = authUser'
      <3>1. i + 1 \in DOMAIN mainQueue /\ mainQueue[i + 1] = mainQueue'[i] /\ i \in Nat
        BY <1>1
      <3>2. ASSUME NEW j \in DOMAIN mainQueue, j > i + 1 PROVE mainQueue[j].op # "notify"
        <4>1. /\ j - 1 \in DOMAIN mainQueue' /\ mainQueue[j] = mainQueue'[j - 1]
              /\ j - 1 > i
          BY <1>1, <3>1, <3>2
        <4> QED BY <4>1, <2>2
      <3> QED BY <2>2, <3>1, <3>2 DEF ProviderFollows
    <2> QED BY <2>1, <2>2 DEF ProviderFollows
  <1>3. SignInFollows'
    <2> SUFFICES ASSUME NEW i \in DOMAIN mainQueue', mainQueue'[i].op = "signedIn"
                 PROVE  /\ authUser' \in {mainQueue'[i].user, NoOne}
                        /\ i = 1 => providerUser' = mainQueue'[i].user
                        /\ i > 1 => mainQueue'[i - 1] = PostNotification(mainQueue'[i].user)
                        /\ \A j \in DOMAIN mainQueue' :
                             /\ j # i => mainQueue'[j].op # "signedIn"
                             /\ j > i /\ mainQueue'[j].op = "notify" =>
                                  \/ mainQueue'[j].user = mainQueue'[i].user
                                  \/ mainQueue'[j].user = NoOne /\ authUser' = NoOne
      BY DEF SignInFollows, PostNotification
    <2>1. i + 1 \in DOMAIN mainQueue /\ mainQueue[i + 1] = mainQueue'[i] /\ i \in Nat /\ i > 0
      BY <1>1
    <2>2. /\ authUser \in {mainQueue[i + 1].user, NoOne}
          /\ mainQueue[i] = PostNotification(mainQueue[i + 1].user)
      BY <2>1 DEF SignInFollows
    <2>3. i # 1 BY <2>2 DEF PostNotification
    <2>4. i > 1 => mainQueue'[i - 1] = mainQueue[i] BY <1>1, <2>1
    <2>5. ASSUME NEW j \in DOMAIN mainQueue'
          PROVE  /\ j # i => mainQueue'[j].op # "signedIn"
                 /\ j > i /\ mainQueue'[j].op = "notify" =>
                      \/ mainQueue'[j].user = mainQueue'[i].user
                      \/ mainQueue'[j].user = NoOne /\ authUser' = NoOne
      <3>1. j + 1 \in DOMAIN mainQueue /\ mainQueue[j + 1] = mainQueue'[j] /\ j \in Nat
        BY <1>1
      <3>2. /\ j + 1 # i + 1 => mainQueue[j + 1].op # "signedIn"
            /\ j + 1 > i + 1 /\ mainQueue[j + 1].op = "notify" =>
                 \/ mainQueue[j + 1].user = mainQueue[i + 1].user
                 \/ mainQueue[j + 1].user = NoOne /\ authUser = NoOne
        BY <2>1, <3>1 DEF SignInFollows
      <3> QED BY <2>1, <3>1, <3>2
    <2> QED BY <2>1, <2>2, <2>3, <2>4, <2>5
  <1>4. TokensInTime'
    <2>1. (\E j \in DOMAIN mainQueue : mainQueue[j].op = "notify") =>
            \E j \in DOMAIN mainQueue' : mainQueue'[j].op = "notify"
      BY <1>1
    <2>2. ASSUME NEW i \in DOMAIN mainQueue', mainQueue'[i].op = "token",
                 mainQueue'[i].token.counter = tokenCounter',
                 mainQueue'[i].token.user \notin {providerUser', NoToken}
          PROVE  \E j \in DOMAIN mainQueue' : j < i /\ mainQueue'[j].op = "notify"
      <3>1. i + 1 \in DOMAIN mainQueue /\ mainQueue[i + 1] = mainQueue'[i] /\ i \in Nat
        BY <1>1
      <3>2. PICK j \in DOMAIN mainQueue : j < i + 1 /\ mainQueue[j].op = "notify"
        BY <2>2, <3>1 DEF TokensInTime
      <3>3. j - 1 \in DOMAIN mainQueue' /\ mainQueue[j] = mainQueue'[j - 1] /\ j - 1 < i
        BY <1>1, <3>1, <3>2
      <3> QED BY <3>2, <3>3
    <2> QED BY <2>1, <2>2 DEF TokensInTime
  <1> QED BY <1>2, <1>3, <1>4

LEMMA SignInInv == ASSUME IInv, NEW user \in User, SignIn(user) PROVE IInv'
  <1> USE CredentialAssumption
  <1> DEFINE n == Len(mainQueue)
             q == Append(mainQueue, PostNotification(user))
  <1>1. /\ mainQueue \in Seq(MainItem) /\ workerQueue \in Seq(WorkerItem)
        /\ user \in Users
        /\ PostNotification(user) \in MainItem
        /\ [op |-> "signedIn", user |-> user] \in MainItem
    BY DEF IInv, TypeOK, Users, PostNotification, MainItem
  <1>2. /\ q \in Seq(MainItem) /\ Len(q) = n + 1 /\ n \in Nat
        /\ q[n + 1] = PostNotification(user)
        /\ \A i \in DOMAIN q : i \in DOMAIN mainQueue \/ i = n + 1
        /\ \A i \in DOMAIN mainQueue : i \in Nat /\ i > 0 /\ i <= n /\ i \in DOMAIN q /\ q[i] = mainQueue[i]
        /\ n + 1 \in DOMAIN q
    BY <1>1, Appending
  <1>3. mainQueue' = Append(q, [op |-> "signedIn", user |-> user]) BY DEF SignIn
  <1>4. /\ mainQueue' \in Seq(MainItem)
        /\ \A i \in DOMAIN mainQueue :
             /\ i \in Nat /\ i > 0 /\ i <= n
             /\ i \in DOMAIN mainQueue' /\ mainQueue'[i] = mainQueue[i]
        /\ \A i \in DOMAIN mainQueue' : i \in DOMAIN mainQueue \/ i = n + 1 \/ i = n + 2
        /\ n \in Nat /\ n + 1 \in DOMAIN mainQueue' /\ n + 2 \in DOMAIN mainQueue'
        /\ mainQueue'[n + 1] = PostNotification(user)
        /\ mainQueue'[n + 1].op = "notify" /\ mainQueue'[n + 1].user = user
        /\ mainQueue'[n + 2].op = "signedIn" /\ mainQueue'[n + 2].user = user
    <2>1. /\ mainQueue' \in Seq(MainItem)
          /\ \A i \in DOMAIN q : i \in DOMAIN mainQueue' /\ mainQueue'[i] = q[i]
          /\ \A i \in DOMAIN mainQueue' : i \in DOMAIN q \/ i = (n + 1) + 1
          /\ (n + 1) + 1 \in DOMAIN mainQueue'
          /\ mainQueue'[(n + 1) + 1] = [op |-> "signedIn", user |-> user]
      BY <1>1, <1>2, <1>3, Appending
    <2>2. /\ (n + 1) + 1 = n + 2 /\ n + 1 \in DOMAIN mainQueue'
          /\ mainQueue'[n + 1] = PostNotification(user)
          /\ mainQueue'[n + 2] = [op |-> "signedIn", user |-> user]
      BY <1>2, <2>1
    <2> QED BY <1>2, <2>1, <2>2 DEF PostNotification
  <1> HIDE DEF n, q
  <1>5. /\ authUser' = user /\ changes' = changes + 1 /\ appUser = NoOne
        /\ \A i \in DOMAIN mainQueue : mainQueue[i].op # "signedIn"
        /\ UNCHANGED <<appUser, written, unowned, providerUser, tokenCounter, requests, workerQueue,
                       syncUser, pending, stream, streamToken, closeCount, closes>>
    BY DEF SignIn, appVars, providerVars, streamVars
  <1>6. TypeOK' BY <1>1, <1>4, <1>5 DEF IInv, TypeOK
  <1>7. ProviderFollows'
    <2>1. \A i \in DOMAIN mainQueue : i < n + 1 BY <1>4
    <2> QED BY <1>4, <1>5, <2>1 DEF ProviderFollows
  <1>8. SyncFollows' /\ WritesInTime' /\ ResumesInTime'
    BY <1>5 DEF IInv, SyncFollows, WritesInTime, ResumesInTime
  <1>9. TokensInTime'
    <2>1. \A i \in DOMAIN mainQueue' : mainQueue'[i].op = "token" =>
            i \in DOMAIN mainQueue /\ mainQueue'[i] = mainQueue[i]
      BY <1>4
    <2>2. \A i \in DOMAIN mainQueue, j \in DOMAIN mainQueue :
            j < i => j \in DOMAIN mainQueue' /\ mainQueue'[j] = mainQueue[j]
      BY <1>4
    <2>3. TokensInTime BY DEF IInv
    <2> QED BY <1>4, <1>5, <2>1, <2>2, <2>3 DEF TokensInTime
  <1>10. Counted' /\ ForTheStarting'
    BY <1>4, <1>5 DEF IInv, Counted, ForTheStarting
  <1>11. OnePerClose'
    <2>1. \A i \in DOMAIN mainQueue' : mainQueue'[i].op = "token" =>
            i \in DOMAIN mainQueue /\ mainQueue'[i] = mainQueue[i]
      BY <1>4
    <2> QED BY <1>5, <2>1 DEF IInv, OnePerClose
  <1>12. HomeFollows' BY <1>5 DEF HomeFollows
  <1>13. SignInFollows'
    <2>1. \A i \in DOMAIN mainQueue' : mainQueue'[i].op = "signedIn" => i = n + 2
      BY <1>4, <1>5
    <2>2. \A i \in DOMAIN mainQueue' : i <= n + 2 BY <1>4
    <2>3. n + 2 > 1 /\ (n + 2) - 1 = n + 1 BY <1>4
    <2> QED BY <1>4, <1>5, <2>1, <2>2, <2>3 DEF SignInFollows
  <1>14. OpenAsItsUser' /\ StoredUnderAuthor'
    BY <1>5 DEF IInv, OpenAsItsUser, StoredUnderAuthor
  <1> QED BY <1>6, <1>7, <1>8, <1>9, <1>10, <1>11, <1>12, <1>13, <1>14 DEF IInv

(* Another notification, of the user Auth then has, on the main queue.       *)
LEMMA NotifyOnAppend ==
  ASSUME IInv, NEW user \in Users, mainQueue' = Append(mainQueue, PostNotification(user)),
         authUser' = user, providerUser' = providerUser, tokenCounter' = tokenCounter,
         requests' = requests, workerQueue' = workerQueue, closeCount' = closeCount,
         stream' = stream,
         \A i \in DOMAIN mainQueue :
           mainQueue[i].op = "signedIn" => user \in {mainQueue[i].user, NoOne},
         authUser = NoOne => user = NoOne
  PROVE  /\ mainQueue' \in Seq(MainItem)
         /\ \A i \in DOMAIN mainQueue' :
              \/ i \in DOMAIN mainQueue /\ mainQueue'[i] = mainQueue[i]
              \/ mainQueue'[i].op = "notify" /\ mainQueue'[i].user = user
         /\ ProviderFollows' /\ SignInFollows' /\ TokensInTime' /\ Counted'
         /\ ForTheStarting' /\ OnePerClose'
  <1> DEFINE n == Len(mainQueue)
  <1>1. mainQueue \in Seq(MainItem) /\ PostNotification(user) \in MainItem
    BY DEF IInv, TypeOK, PostNotification, MainItem
  <1>2. /\ mainQueue' \in Seq(MainItem) /\ n \in Nat
        /\ \A i \in DOMAIN mainQueue :
             /\ i \in Nat /\ i > 0 /\ i <= n
             /\ i \in DOMAIN mainQueue' /\ mainQueue'[i] = mainQueue[i]
        /\ \A i \in DOMAIN mainQueue' : i \in DOMAIN mainQueue \/ i = n + 1
        /\ n + 1 \in DOMAIN mainQueue' /\ mainQueue'[n + 1] = PostNotification(user)
    BY <1>1, Appending
  <1> HIDE DEF n
  <1>3. mainQueue'[n + 1].op = "notify" /\ mainQueue'[n + 1].user = user
    BY <1>2 DEF PostNotification
  <1>4. \A i \in DOMAIN mainQueue' : mainQueue'[i].op # "notify" =>
          i \in DOMAIN mainQueue /\ mainQueue'[i] = mainQueue[i]
    BY <1>2, <1>3
  <1>5. ProviderFollows'
    <2>1. \A i \in DOMAIN mainQueue : i < n + 1 BY <1>2
    <2> QED BY <1>2, <1>3, <2>1 DEF ProviderFollows
  <1>6. SignInFollows'
    <2> SUFFICES ASSUME NEW i \in DOMAIN mainQueue', mainQueue'[i].op = "signedIn"
                 PROVE  /\ authUser' \in {mainQueue'[i].user, NoOne}
                        /\ i = 1 => providerUser' = mainQueue'[i].user
                        /\ i > 1 => mainQueue'[i - 1] = PostNotification(mainQueue'[i].user)
                        /\ \A j \in DOMAIN mainQueue' :
                             /\ j # i => mainQueue'[j].op # "signedIn"
                             /\ j > i /\ mainQueue'[j].op = "notify" =>
                                  \/ mainQueue'[j].user = mainQueue'[i].user
                                  \/ mainQueue'[j].user = NoOne /\ authUser' = NoOne
      BY DEF SignInFollows, PostNotification
    <2>1. /\ i \in DOMAIN mainQueue /\ mainQueue'[i] = mainQueue[i]
          /\ user \in {mainQueue[i].user, NoOne}
      BY <1>4
    <2>2. i > 1 => mainQueue'[i - 1] = PostNotification(mainQueue'[i].user)
      <3> SUFFICES ASSUME i > 1 PROVE mainQueue'[i - 1] = PostNotification(mainQueue[i].user)
        BY <2>1
      <3>1. DOMAIN mainQueue = 1 .. Len(mainQueue) /\ Len(mainQueue) \in Nat BY <1>1
      <3>2. i - 1 \in DOMAIN mainQueue BY <2>1, <3>1
      <3>3. mainQueue[i - 1] = PostNotification(mainQueue[i].user)
        BY <2>1 DEF IInv, SignInFollows
      <3> QED BY <1>2, <3>2, <3>3
    <2>3. ASSUME NEW j \in DOMAIN mainQueue'
          PROVE  /\ j # i => mainQueue'[j].op # "signedIn"
                 /\ j > i /\ mainQueue'[j].op = "notify" =>
                      \/ mainQueue'[j].user = mainQueue'[i].user
                      \/ mainQueue'[j].user = NoOne /\ authUser' = NoOne
      <3>1. CASE j \in DOMAIN mainQueue
        <4>1. /\ j # i => mainQueue[j].op # "signedIn"
              /\ j > i /\ mainQueue[j].op = "notify" =>
                   \/ mainQueue[j].user = mainQueue[i].user
                   \/ mainQueue[j].user = NoOne /\ authUser = NoOne
          BY <2>1, <3>1 DEF IInv, SignInFollows
        <4> QED BY <1>2, <2>1, <3>1, <4>1
      <3>2. CASE j = n + 1 BY <1>3, <2>1, <3>2
      <3> QED BY <1>2, <3>1, <3>2
    <2>4. /\ authUser' \in {mainQueue'[i].user, NoOne}
          /\ i = 1 => providerUser' = mainQueue'[i].user
      BY <2>1 DEF IInv, SignInFollows
    <2> QED BY <2>2, <2>3, <2>4
  <1>7. TokensInTime'
    <2>1. \A i \in DOMAIN mainQueue, j \in DOMAIN mainQueue :
            j < i => j \in DOMAIN mainQueue' /\ mainQueue'[j] = mainQueue[j]
      BY <1>2
    <2>2. TokensInTime BY DEF IInv
    <2> QED BY <1>2, <1>3, <1>4, <2>1, <2>2 DEF TokensInTime
  <1>8. Counted' /\ ForTheStarting'
    BY <1>4 DEF IInv, Counted, ForTheStarting
  <1>9. OnePerClose' BY <1>4 DEF IInv, OnePerClose
  <1>10. \A i \in DOMAIN mainQueue' :
           \/ i \in DOMAIN mainQueue /\ mainQueue'[i] = mainQueue[i]
           \/ mainQueue'[i].op = "notify" /\ mainQueue'[i].user = user
    BY <1>2, <1>3
  <1> QED BY <1>2, <1>5, <1>6, <1>7, <1>8, <1>9, <1>10

LEMMA RefreshTokenInv == IInv /\ RefreshToken => IInv'
  <1> SUFFICES ASSUME IInv, RefreshToken PROVE IInv' OBVIOUS
  <1>1. /\ authUser \in Users /\ authUser # NoOne /\ changes' = changes + 1
        /\ mainQueue' = Append(mainQueue, PostNotification(authUser))
        /\ UNCHANGED <<authUser, appUser, written, unowned, providerUser, tokenCounter, requests,
                       workerQueue, syncUser, pending, stream, streamToken, closeCount, closes>>
    BY DEF IInv, TypeOK, RefreshToken, appVars, providerVars, streamVars
  <1>2. \A i \in DOMAIN mainQueue :
          mainQueue[i].op = "signedIn" => authUser \in {mainQueue[i].user, NoOne}
    BY DEF IInv, SignInFollows
  <1>3. /\ mainQueue' \in Seq(MainItem)
        /\ \A i \in DOMAIN mainQueue' :
             \/ i \in DOMAIN mainQueue /\ mainQueue'[i] = mainQueue[i]
             \/ mainQueue'[i].op = "notify" /\ mainQueue'[i].user = authUser
        /\ ProviderFollows' /\ SignInFollows' /\ TokensInTime' /\ Counted'
        /\ ForTheStarting' /\ OnePerClose'
    BY <1>1, <1>2, NotifyOnAppend
  <1>4. TypeOK' BY <1>1, <1>3 DEF IInv, TypeOK
  <1>5. SyncFollows' /\ WritesInTime' /\ ResumesInTime'
    BY <1>1 DEF IInv, SyncFollows, WritesInTime, ResumesInTime
  <1>6. HomeFollows' BY <1>1, <1>3 DEF IInv, HomeFollows
  <1>7. OpenAsItsUser' /\ StoredUnderAuthor'
    BY <1>1 DEF IInv, OpenAsItsUser, StoredUnderAuthor
  <1> QED BY <1>3, <1>4, <1>5, <1>6, <1>7 DEF IInv

(* Nobody is Auth's user any more: the app signs out, or a refresh is        *)
(* refused.                                                                  *)
LEMMA NoCurrentUserInv ==
  ASSUME IInv, NoCurrentUser, mainQueue' = Append(mainQueue, PostNotification(NoOne)),
         appUser' \in {appUser, NoOne},
         UNCHANGED <<written, unowned, providerVars, requests, workerQueue, syncUser,
                     pending, streamVars, closes>>
  PROVE  IInv'
  <1>1. /\ NoOne \in Users /\ changes' = changes + 1 /\ authUser' = NoOne
        /\ UNCHANGED <<written, unowned, providerUser, tokenCounter, requests, workerQueue,
                       syncUser, pending, stream, streamToken, closeCount, closes>>
    BY DEF NoCurrentUser, providerVars, streamVars, Users
  <1>2. /\ mainQueue' \in Seq(MainItem)
        /\ \A i \in DOMAIN mainQueue' :
             \/ i \in DOMAIN mainQueue /\ mainQueue'[i] = mainQueue[i]
             \/ mainQueue'[i].op = "notify" /\ mainQueue'[i].user = NoOne
        /\ ProviderFollows' /\ SignInFollows' /\ TokensInTime' /\ Counted'
        /\ ForTheStarting' /\ OnePerClose'
    BY <1>1, NotifyOnAppend
  <1>3. TypeOK' BY <1>1, <1>2 DEF IInv, TypeOK
  <1>4. SyncFollows' /\ WritesInTime' /\ ResumesInTime'
    BY <1>1 DEF IInv, SyncFollows, WritesInTime, ResumesInTime
  <1>5. HomeFollows' BY <1>1, <1>2 DEF IInv, HomeFollows
  <1>6. OpenAsItsUser' /\ StoredUnderAuthor'
    BY <1>1 DEF IInv, OpenAsItsUser, StoredUnderAuthor
  <1> QED BY <1>2, <1>3, <1>4, <1>5, <1>6 DEF IInv

LEMMA RefreshRefusedInv == IInv /\ RefreshRefused => IInv'
  BY NoCurrentUserInv DEF RefreshRefused, appVars

LEMMA SignOutInv == IInv /\ SignOut => IInv'
  <1> SUFFICES ASSUME IInv, SignOut PROVE IInv' OBVIOUS
  <1>1. CASE NoCurrentUser /\ mainQueue' = Append(mainQueue, PostNotification(NoOne))
    BY <1>1, NoCurrentUserInv DEF SignOut
  <1>2. CASE authUser = NoOne /\ UNCHANGED <<authVars, mainQueue>>
    <2>1. /\ appUser' = NoOne /\ NoOne \in Users
          /\ UNCHANGED <<authUser, changes, written, unowned, mainQueue, providerUser,
                         tokenCounter, requests, workerQueue, syncUser, pending, stream,
                         streamToken, closeCount, closes>>
      BY <1>2 DEF SignOut, authVars, providerVars, streamVars, Users
    <2>2. TypeOK' BY <2>1 DEF IInv, TypeOK
    <2>3. ProviderFollows' /\ SyncFollows' /\ HomeFollows' /\ SignInFollows'
      BY <2>1 DEF IInv, ProviderFollows, SyncFollows, HomeFollows, SignInFollows
    <2>4. TokensInTime' /\ Counted' /\ ForTheStarting' /\ OnePerClose'
      BY <2>1 DEF IInv, TokensInTime, Counted, ForTheStarting, OnePerClose
    <2>5. ResumesInTime' /\ WritesInTime' /\ OpenAsItsUser' /\ StoredUnderAuthor'
      BY <2>1 DEF IInv, ResumesInTime, WritesInTime, OpenAsItsUser, StoredUnderAuthor
    <2> QED BY <2>2, <2>3, <2>4, <2>5 DEF IInv
  <1> QED BY <1>1, <1>2 DEF SignOut

LEMMA ReadCurrentUserInv ==
  ASSUME IInv, NEW request \in requests, ReadCurrentUser(request) PROVE IInv'
  <1> DEFINE read == [request EXCEPT !.user = authUser]
  <1>1. /\ requests' = (requests \ {request}) \cup {read}
        /\ UNCHANGED <<authUser, changes, appUser, written, unowned, mainQueue, providerUser,
                       tokenCounter, workerQueue, syncUser, pending, stream, streamToken,
                       closeCount, closes>>
    BY DEF ReadCurrentUser, authVars, appVars, providerVars, streamVars
  <1>2. /\ read \in Request /\ read.user = authUser
        /\ read.counter = request.counter /\ read.close = request.close
    BY DEF IInv, TypeOK, Request
  <1> HIDE DEF read
  <1>3. TypeOK' BY <1>1, <1>2 DEF IInv, TypeOK
  <1>4. ProviderFollows' /\ HomeFollows' /\ SignInFollows'
    BY <1>1 DEF IInv, ProviderFollows, HomeFollows, SignInFollows
  <1>5. SyncFollows' /\ WritesInTime' /\ ResumesInTime'
    BY <1>1 DEF IInv, SyncFollows, WritesInTime, ResumesInTime
  <1>6. TokensInTime' BY <1>1, <1>2 DEF IInv, TokensInTime, ProviderFollows
  <1>7. Counted' /\ ForTheStarting' BY <1>1, <1>2 DEF IInv, Counted, ForTheStarting
  <1>8. OnePerClose' BY <1>1, <1>2 DEF IInv, OnePerClose
  <1>9. OpenAsItsUser' /\ StoredUnderAuthor'
    BY <1>1 DEF IInv, OpenAsItsUser, StoredUnderAuthor
  <1> QED BY <1>3, <1>4, <1>5, <1>6, <1>7, <1>8, <1>9 DEF IInv

(* A request is called back, with its user's token or an error.              *)
LEMMA TokenOnAppend ==
  ASSUME IInv, NEW request \in requests, NEW t \in Token,
         t.counter = request.counter, t.close = request.close,
         t.user = request.user \/ t.user = NoToken,
         requests' = requests \ {request}, request.user # Asked,
         mainQueue' = Append(mainQueue, [op |-> "token", token |-> t]),
         closes' \in Nat,
         UNCHANGED <<authVars, appVars, providerVars, workerQueue, syncUser, pending,
                     streamVars>>
  PROVE  IInv'
  <1> USE CredentialAssumption
  <1> DEFINE n == Len(mainQueue)
             item == [op |-> "token", token |-> t]
  <1>1. /\ mainQueue' = Append(mainQueue, item)
        /\ UNCHANGED <<authUser, changes, appUser, written, unowned, providerUser, tokenCounter,
                       workerQueue, syncUser, pending, stream, streamToken, closeCount>>
    BY DEF authVars, appVars, providerVars, streamVars
  <1>2. mainQueue \in Seq(MainItem) /\ request \in Request BY DEF IInv, TypeOK
  <1>4. item \in MainItem /\ item.op = "token" /\ item.token = t
    BY DEF MainItem
  <1>5. /\ mainQueue' \in Seq(MainItem) /\ n \in Nat
        /\ \A i \in DOMAIN mainQueue :
             /\ i \in Nat /\ i > 0 /\ i <= n
             /\ i \in DOMAIN mainQueue' /\ mainQueue'[i] = mainQueue[i]
        /\ \A i \in DOMAIN mainQueue' : i \in DOMAIN mainQueue \/ i = n + 1
        /\ n + 1 \in DOMAIN mainQueue' /\ mainQueue'[n + 1] = item
    BY <1>1, <1>2, <1>4, Appending
  <1> HIDE DEF n, item
  <1>6. TypeOK' BY <1>1, <1>5 DEF IInv, TypeOK
  <1>7. \A i \in DOMAIN mainQueue' : mainQueue'[i].op # "token" =>
          i \in DOMAIN mainQueue /\ mainQueue'[i] = mainQueue[i]
    BY <1>4, <1>5
  <1>8. ProviderFollows'
    BY <1>1, <1>5, <1>7 DEF IInv, ProviderFollows
  <1>9. HomeFollows'
    <2>1. \A i \in DOMAIN mainQueue' : mainQueue'[i].op \in {"notify", "signedIn"} =>
            i \in DOMAIN mainQueue /\ mainQueue'[i] = mainQueue[i]
      BY <1>7
    <2> QED BY <1>1, <2>1 DEF IInv, HomeFollows
  <1>10. SignInFollows'
    <2> SUFFICES ASSUME NEW i \in DOMAIN mainQueue', mainQueue'[i].op = "signedIn"
                 PROVE  /\ authUser' \in {mainQueue'[i].user, NoOne}
                        /\ i = 1 => providerUser' = mainQueue'[i].user
                        /\ i > 1 => mainQueue'[i - 1] = PostNotification(mainQueue'[i].user)
                        /\ \A j \in DOMAIN mainQueue' :
                             /\ j # i => mainQueue'[j].op # "signedIn"
                             /\ j > i /\ mainQueue'[j].op = "notify" =>
                                  \/ mainQueue'[j].user = mainQueue'[i].user
                                  \/ mainQueue'[j].user = NoOne /\ authUser' = NoOne
      BY DEF SignInFollows, PostNotification
    <2>1. i \in DOMAIN mainQueue /\ mainQueue'[i] = mainQueue[i] BY <1>7
    <2>2. i > 1 => mainQueue'[i - 1] = PostNotification(mainQueue'[i].user)
      <3> SUFFICES ASSUME i > 1 PROVE mainQueue'[i - 1] = PostNotification(mainQueue[i].user)
        BY <2>1
      <3>1. DOMAIN mainQueue = 1 .. Len(mainQueue) /\ Len(mainQueue) \in Nat BY <1>2
      <3>2. i - 1 \in DOMAIN mainQueue BY <2>1, <3>1
      <3>3. mainQueue[i - 1] = PostNotification(mainQueue[i].user)
        BY <2>1 DEF IInv, SignInFollows
      <3> QED BY <1>5, <3>2, <3>3
    <2>3. ASSUME NEW j \in DOMAIN mainQueue'
          PROVE  /\ j # i => mainQueue'[j].op # "signedIn"
                 /\ j > i /\ mainQueue'[j].op = "notify" =>
                      \/ mainQueue'[j].user = mainQueue'[i].user
                      \/ mainQueue'[j].user = NoOne /\ authUser' = NoOne
      <3>1. CASE j \in DOMAIN mainQueue
        <4>1. /\ j # i => mainQueue[j].op # "signedIn"
              /\ j > i /\ mainQueue[j].op = "notify" =>
                   \/ mainQueue[j].user = mainQueue[i].user
                   \/ mainQueue[j].user = NoOne /\ authUser = NoOne
          BY <2>1, <3>1 DEF IInv, SignInFollows
        <4> QED BY <1>1, <1>5, <2>1, <3>1, <4>1
      <3>2. CASE j = n + 1 BY <1>4, <1>5, <3>2
      <3> QED BY <1>5, <3>1, <3>2
    <2>4. /\ authUser' \in {mainQueue'[i].user, NoOne}
          /\ i = 1 => providerUser' = mainQueue'[i].user
      BY <1>1, <2>1 DEF IInv, SignInFollows
    <2> QED BY <2>2, <2>3, <2>4
  <1>11. SyncFollows' /\ WritesInTime' /\ ResumesInTime'
    BY <1>1 DEF IInv, SyncFollows, WritesInTime, ResumesInTime
  <1>12. TokensInTime'
    <2>1. \A r \in requests' : r \in requests BY <1>1
    <2>2. (\E j \in DOMAIN mainQueue : mainQueue[j].op = "notify") =>
            \E j \in DOMAIN mainQueue' : mainQueue'[j].op = "notify" /\ j < n + 1
      BY <1>5
    <2>3. ASSUME NEW i \in DOMAIN mainQueue', mainQueue'[i].op = "token",
                 mainQueue'[i].token.counter = tokenCounter,
                 mainQueue'[i].token.user \notin {providerUser, NoToken}
          PROVE  \E j \in DOMAIN mainQueue' : j < i /\ mainQueue'[j].op = "notify"
      <3>1. CASE i \in DOMAIN mainQueue
        <4>1. PICK j \in DOMAIN mainQueue : j < i /\ mainQueue[j].op = "notify"
          BY <1>5, <2>3, <3>1 DEF IInv, TokensInTime
        <4> QED BY <1>5, <4>1
      <3>2. CASE i = n + 1
        BY <1>1, <1>4, <1>5, <2>2, <2>3, <3>2 DEF IInv, TokensInTime
      <3> QED BY <1>5, <3>1, <3>2
    <2> QED BY <1>1, <2>1, <2>2, <2>3 DEF IInv, TokensInTime
  <1>13. Counted' /\ ForTheStarting'
    <2>1. \A i \in DOMAIN mainQueue' :
            \/ i \in DOMAIN mainQueue /\ mainQueue'[i] = mainQueue[i]
            \/ mainQueue'[i].token = t
      BY <1>4, <1>5
    <2> QED BY <1>1, <2>1 DEF IInv, Counted, ForTheStarting
  <1>14. OnePerClose'
    <2>1. \A i \in DOMAIN mainQueue' :
            \/ i \in DOMAIN mainQueue /\ mainQueue'[i] = mainQueue[i]
            \/ i = n + 1 /\ mainQueue'[i].token = t
      BY <1>4, <1>5
    <2>2. \A r \in requests' : r \in requests /\ r # request BY <1>1
    <2>3. OnePerClose BY DEF IInv
    <2> QED BY <1>1, <2>1, <2>2, <2>3 DEF OnePerClose
  <1>15. OpenAsItsUser' /\ StoredUnderAuthor'
    BY <1>1 DEF IInv, OpenAsItsUser, StoredUnderAuthor
  <1> QED BY <1>6, <1>8, <1>9, <1>10, <1>11, <1>12, <1>13, <1>14, <1>15 DEF IInv

LEMMA TokenFetchedInv ==
  ASSUME IInv, NEW request \in requests, TokenFetched(request) PROVE IInv'
  <1>1. request \in Request /\ request.user # Asked /\ closes \in Nat
    BY DEF IInv, TypeOK, TokenFetched
  <1>2. request \in Token BY <1>1 DEF Token, Request
  <1> QED BY <1>1, <1>2, TokenOnAppend DEF TokenFetched

(* An error is a token of its request, but for the user.                     *)
LEMMA FailedTokens ==
  ASSUME NEW request \in Request
  PROVE  LET t == [request EXCEPT !.user = NoToken]
         IN  /\ FailedToken(request) = [op |-> "token", token |-> t]
             /\ t \in Token /\ t.counter = request.counter /\ t.close = request.close
             /\ t.user = NoToken
  BY DEF FailedToken, Request, Token

LEMMA TokenFailsInv ==
  ASSUME IInv, NEW request \in requests, TokenFails(request) PROVE IInv'
  <1> DEFINE t == [request EXCEPT !.user = NoToken]
  <1>1. request \in Request /\ request.user # Asked /\ closes' \in Nat
    BY CredentialAssumption DEF IInv, TypeOK, TokenFails
  <1>2. /\ FailedToken(request) = [op |-> "token", token |-> t]
        /\ t \in Token /\ t.counter = request.counter /\ t.close = request.close
        /\ t.user = NoToken
    BY <1>1, FailedTokens
  <1> HIDE DEF t
  <1> QED BY <1>1, <1>2, TokenOnAppend DEF TokenFails

LEMMA TokenRefusedInv ==
  ASSUME IInv, NEW request \in requests, TokenRefused(request) PROVE IInv'
  <1> USE CredentialAssumption
  <1> DEFINE n == Len(mainQueue)
             q == Append(mainQueue, PostNotification(NoOne))
             t == [request EXCEPT !.user = NoToken]
             item == [op |-> "token", token |-> t]
  <1>1. /\ mainQueue \in Seq(MainItem) /\ request \in Request /\ request.user # Asked
        /\ PostNotification(NoOne) \in MainItem /\ NoOne \in Users
    BY DEF IInv, TypeOK, Users, PostNotification, MainItem, TokenRefused
  <1>2. /\ FailedToken(request) = item
        /\ t \in Token /\ t.counter = request.counter /\ t.close = request.close
        /\ t.user = NoToken
    BY <1>1, FailedTokens
  <1>3. item \in MainItem /\ item.op = "token" /\ item.token = t
    BY <1>2 DEF MainItem
  <1>4. /\ q \in Seq(MainItem) /\ Len(q) = n + 1 /\ n \in Nat
        /\ q[n + 1] = PostNotification(NoOne)
        /\ \A i \in DOMAIN q : i \in DOMAIN mainQueue \/ i = n + 1
        /\ \A i \in DOMAIN mainQueue :
             i \in Nat /\ i > 0 /\ i <= n /\ i \in DOMAIN q /\ q[i] = mainQueue[i]
        /\ n + 1 \in DOMAIN q
    BY <1>1, Appending
  <1>5. mainQueue' = Append(q, item) BY <1>2 DEF TokenRefused
  <1>6. /\ mainQueue' \in Seq(MainItem) /\ n \in Nat
        /\ \A i \in DOMAIN mainQueue :
             /\ i \in Nat /\ i > 0 /\ i <= n
             /\ i \in DOMAIN mainQueue' /\ mainQueue'[i] = mainQueue[i]
        /\ \A i \in DOMAIN mainQueue' : i \in DOMAIN mainQueue \/ i = n + 1 \/ i = n + 2
        /\ n + 1 \in DOMAIN mainQueue'
        /\ mainQueue'[n + 1].op = "notify" /\ mainQueue'[n + 1].user = NoOne
        /\ mainQueue'[n + 2].op = "token" /\ mainQueue'[n + 2].token = t
    <2>1. /\ mainQueue' \in Seq(MainItem)
          /\ \A i \in DOMAIN q : i \in DOMAIN mainQueue' /\ mainQueue'[i] = q[i]
          /\ \A i \in DOMAIN mainQueue' : i \in DOMAIN q \/ i = (n + 1) + 1
          /\ mainQueue'[(n + 1) + 1] = item
      BY <1>3, <1>4, <1>5, Appending
    <2>2. /\ (n + 1) + 1 = n + 2 /\ n + 1 \in DOMAIN mainQueue'
          /\ mainQueue'[n + 1] = PostNotification(NoOne)
          /\ mainQueue'[n + 2] = item
      BY <1>4, <2>1
    <2>3. /\ mainQueue'[n + 1].op = "notify" /\ mainQueue'[n + 1].user = NoOne
          /\ mainQueue'[n + 2].op = "token" /\ mainQueue'[n + 2].token = t
      BY <1>3, <2>2 DEF PostNotification
    <2> HIDE DEF q, item, t
    <2> QED BY <1>4, <2>1, <2>2, <2>3
  <1> HIDE DEF n, q, t, item
  <1>7. /\ authUser' = NoOne /\ changes' = changes + 1
        /\ requests' = requests \ {request}
        /\ UNCHANGED <<appUser, written, unowned, providerUser, tokenCounter, workerQueue,
                       syncUser, pending, stream, streamToken, closeCount, closes>>
    BY DEF TokenRefused, NoCurrentUser, appVars, providerVars, streamVars
  <1>8. TypeOK' BY <1>1, <1>6, <1>7 DEF IInv, TypeOK
  <1>9. ProviderFollows'
    <2>1. \A i \in DOMAIN mainQueue : i < n + 1 BY <1>6
    <2>2. \A i \in DOMAIN mainQueue' : mainQueue'[i].op = "notify" =>
            i = n + 1 \/ i < n + 1
      BY <1>6, <2>1
    <2> QED BY <1>6, <1>7, <2>2 DEF ProviderFollows
  <1>10. SyncFollows' /\ WritesInTime' /\ ResumesInTime'
    BY <1>7 DEF IInv, SyncFollows, WritesInTime, ResumesInTime
  <1>11. \A i \in DOMAIN mainQueue' :
           \/ i \in DOMAIN mainQueue /\ mainQueue'[i] = mainQueue[i]
           \/ i = n + 1 /\ mainQueue'[i].op = "notify" /\ mainQueue'[i].user = NoOne
           \/ i = n + 2 /\ mainQueue'[i].op = "token" /\ mainQueue'[i].token = t
    BY <1>6
  <1>12. TokensInTime'
    <2>1. \A r \in requests' : r \in requests BY <1>7
    <2>2. ASSUME NEW i \in DOMAIN mainQueue', mainQueue'[i].op = "token",
                 mainQueue'[i].token.counter = tokenCounter,
                 mainQueue'[i].token.user \notin {providerUser, NoToken}
          PROVE  \E j \in DOMAIN mainQueue' : j < i /\ mainQueue'[j].op = "notify"
      <3>1. i \in DOMAIN mainQueue /\ mainQueue'[i] = mainQueue[i]
        BY <1>2, <1>11, <2>2
      <3>2. PICK j \in DOMAIN mainQueue : j < i /\ mainQueue[j].op = "notify"
        BY <2>2, <3>1 DEF IInv, TokensInTime
      <3> QED BY <1>6, <3>2
    <2> QED BY <1>6, <1>7, <2>1, <2>2 DEF TokensInTime
  <1>13. Counted' /\ ForTheStarting'
    BY <1>2, <1>7, <1>11 DEF IInv, Counted, ForTheStarting
  <1>14. OnePerClose'
    <2>1. \A i \in DOMAIN mainQueue' : mainQueue'[i].op = "token" =>
            \/ i \in DOMAIN mainQueue /\ mainQueue'[i] = mainQueue[i]
            \/ i = n + 2 /\ mainQueue'[i].token = t
      BY <1>11
    <2>2. \A r \in requests' : r \in requests /\ r # request BY <1>7
    <2>3. OnePerClose BY DEF IInv
    <2> QED BY <1>2, <1>7, <2>1, <2>2, <2>3 DEF OnePerClose
  <1>15. HomeFollows' BY <1>7, <1>11 DEF IInv, HomeFollows
  <1>16. SignInFollows'
    <2> SUFFICES ASSUME NEW i \in DOMAIN mainQueue', mainQueue'[i].op = "signedIn"
                 PROVE  /\ i = 1 => providerUser' = mainQueue'[i].user
                        /\ i > 1 => mainQueue'[i - 1] = PostNotification(mainQueue'[i].user)
                        /\ \A j \in DOMAIN mainQueue' :
                             /\ j # i => mainQueue'[j].op # "signedIn"
                             /\ j > i /\ mainQueue'[j].op = "notify" =>
                                  mainQueue'[j].user \in {mainQueue'[i].user, NoOne}
      BY <1>7 DEF SignInFollows, PostNotification
    <2>1. i \in DOMAIN mainQueue /\ mainQueue'[i] = mainQueue[i] BY <1>11
    <2>2. i > 1 => mainQueue'[i - 1] = PostNotification(mainQueue'[i].user)
      <3> SUFFICES ASSUME i > 1 PROVE mainQueue'[i - 1] = PostNotification(mainQueue[i].user)
        BY <2>1
      <3>1. DOMAIN mainQueue = 1 .. Len(mainQueue) /\ Len(mainQueue) \in Nat BY <1>1
      <3>2. i - 1 \in DOMAIN mainQueue BY <2>1, <3>1
      <3>3. mainQueue[i - 1] = PostNotification(mainQueue[i].user)
        BY <2>1 DEF IInv, SignInFollows
      <3> QED BY <1>6, <3>2, <3>3
    <2>3. \A j \in DOMAIN mainQueue :
            /\ j # i => mainQueue[j].op # "signedIn"
            /\ j > i /\ mainQueue[j].op = "notify" =>
                 mainQueue[j].user \in {mainQueue[i].user, NoOne}
      BY <2>1 DEF IInv, SignInFollows
    <2>4. i = 1 => providerUser' = mainQueue'[i].user
      BY <1>7, <2>1 DEF IInv, SignInFollows
    <2> QED BY <1>11, <2>1, <2>2, <2>3, <2>4
  <1>17. OpenAsItsUser' /\ StoredUnderAuthor'
    BY <1>7 DEF IInv, OpenAsItsUser, StoredUnderAuthor
  <1> QED BY <1>8, <1>9, <1>10, <1>12, <1>13, <1>14, <1>15, <1>16, <1>17 DEF IInv

LEMMA CommitInv == ASSUME IInv, NEW w \in Write, Commit(w) PROVE IInv'
  <1> USE CredentialAssumption
  <1> DEFINE n == Len(workerQueue)
             item == [op |-> "write", write |-> w]
  <1>1. /\ appUser = Author[w] /\ written' = written \cup {w}
        /\ unowned' = IF authUser = NoOne THEN unowned \cup {w} ELSE unowned
        /\ workerQueue' = Append(workerQueue, item)
        /\ UNCHANGED <<authUser, changes, appUser, mainQueue, providerUser, tokenCounter,
                       requests, syncUser, pending, stream, streamToken, closeCount, closes>>
    BY DEF Commit, authVars, providerVars, streamVars
  <1>2. workerQueue \in Seq(WorkerItem) /\ item \in WorkerItem /\ item.op = "write" /\ item.write = w
    BY DEF IInv, TypeOK, WorkerItem
  <1> HIDE DEF item
  <1>3. /\ workerQueue' \in Seq(WorkerItem) /\ n \in Nat
        /\ \A i \in DOMAIN workerQueue :
             /\ i \in Nat /\ i > 0 /\ i <= n
             /\ i \in DOMAIN workerQueue' /\ workerQueue'[i] = workerQueue[i]
        /\ \A i \in DOMAIN workerQueue' : i \in DOMAIN workerQueue \/ i = n + 1
        /\ workerQueue'[n + 1] = item
    BY <1>1, <1>2, Appending
  <1> HIDE DEF n
  <1>4. \A i \in DOMAIN workerQueue' : workerQueue'[i].op = "resume" =>
          i \in DOMAIN workerQueue /\ workerQueue'[i] = workerQueue[i]
    BY <1>2, <1>3
  <1>5. TypeOK' BY <1>1, <1>3 DEF IInv, TypeOK
  <1>6. ProviderFollows' /\ HomeFollows' /\ SignInFollows' /\ TokensInTime'
    BY <1>1 DEF IInv, ProviderFollows, HomeFollows, SignInFollows, TokensInTime
  <1>7. unowned \subseteq unowned' /\ MayTake(providerUser, w, unowned')
    <2>1. appUser # NoOne BY <1>1
    <2>2. providerUser \in {appUser, NoOne} /\ (authUser = appUser => providerUser = appUser)
          /\ authUser \in {appUser, NoOne}
      BY <2>1 DEF IInv, HomeFollows
    <2> QED BY <1>1, <2>2 DEF MayTake
  <1>8. SyncFollows' /\ WritesInTime'
    BY <1>1, <1>2, <1>7, SyncOnAppend, WritesOnAppend DEF IInv
  <1>9. Counted' /\ ForTheStarting' BY <1>1, <1>4 DEF IInv, Counted, ForTheStarting
  <1>10. OnePerClose' BY <1>1, <1>4 DEF IInv, OnePerClose
  <1>11. ResumesInTime' BY <1>1, <1>3, <1>4 DEF IInv, ResumesInTime
  <1>12. OpenAsItsUser' /\ StoredUnderAuthor'
    BY <1>1, <1>7 DEF IInv, OpenAsItsUser, StoredUnderAuthor
  <1> QED BY <1>5, <1>6, <1>8, <1>9, <1>10, <1>11, <1>12 DEF IInv

LEMMA ShowHomeInv == IInv /\ ShowHome => IInv'
  <1> SUFFICES ASSUME IInv, ShowHome PROVE IInv' OBVIOUS
  <1>1. /\ mainQueue \in Seq(MainItem) /\ mainQueue # << >> /\ mainQueue' = Tail(mainQueue)
        /\ mainQueue[1].op = "signedIn" /\ appUser' = mainQueue[1].user
        /\ mainQueue[1].user \in Users
        /\ UNCHANGED <<authUser, changes, written, unowned, providerUser, tokenCounter, requests,
                       workerQueue, syncUser, pending, stream, streamToken, closeCount, closes>>
    BY Taking, Members DEF IInv, TypeOK, ShowHome, Takes, authVars, providerVars, streamVars
  <1>2. /\ mainQueue' \in Seq(MainItem) /\ 1 \in DOMAIN mainQueue
        /\ \A i \in DOMAIN mainQueue' :
             /\ i \in Nat /\ i > 0
             /\ i + 1 \in DOMAIN mainQueue /\ mainQueue'[i] = mainQueue[i + 1]
    BY <1>1, Taking
  <1>3. ProviderFollows' /\ SignInFollows' /\ TokensInTime'
    BY <1>1, MainTakes DEF IInv
  <1>4. TypeOK' BY <1>1, <1>2 DEF IInv, TypeOK
  <1>5. HomeFollows'
    <2>1. /\ authUser \in {mainQueue[1].user, NoOne} /\ providerUser = mainQueue[1].user
          /\ \A j \in DOMAIN mainQueue :
               /\ j # 1 => mainQueue[j].op # "signedIn"
               /\ j > 1 /\ mainQueue[j].op = "notify" =>
                    \/ mainQueue[j].user = mainQueue[1].user
                    \/ mainQueue[j].user = NoOne /\ authUser = NoOne
      BY <1>1, <1>2 DEF IInv, SignInFollows
    <2>2. ASSUME NEW i \in DOMAIN mainQueue'
          PROVE  /\ mainQueue'[i].op # "signedIn"
                 /\ mainQueue'[i].op = "notify" =>
                      \/ mainQueue'[i].user = appUser'
                      \/ mainQueue'[i].user = NoOne /\ authUser' = NoOne
      <3>1. i + 1 \in DOMAIN mainQueue /\ mainQueue'[i] = mainQueue[i + 1] /\ i + 1 > 1 /\ i + 1 # 1
        BY <1>2
      <3> QED BY <1>1, <2>1, <3>1
    <2> QED BY <1>1, <2>1, <2>2 DEF HomeFollows
  <1>6. SyncFollows' /\ WritesInTime' /\ ResumesInTime'
    BY <1>1 DEF IInv, SyncFollows, WritesInTime, ResumesInTime
  <1>7. Counted' /\ ForTheStarting' BY <1>1, <1>2 DEF IInv, Counted, ForTheStarting
  <1>8. OnePerClose'
    <2>1. \A i \in DOMAIN mainQueue', j \in DOMAIN mainQueue' : i + 1 = j + 1 => i = j
      BY <1>2
    <2>2. OnePerClose BY DEF IInv
    <2> QED BY <1>1, <1>2, <2>1, <2>2 DEF OnePerClose
  <1>9. OpenAsItsUser' /\ StoredUnderAuthor'
    BY <1>1 DEF IInv, OpenAsItsUser, StoredUnderAuthor
  <1> QED BY <1>3, <1>4, <1>5, <1>6, <1>7, <1>8, <1>9 DEF IInv

LEMMA HandOverTokenInv == IInv /\ HandOverToken => IInv'
  <1> SUFFICES ASSUME IInv, HandOverToken PROVE IInv' OBVIOUS
  <1> USE CredentialAssumption
  <1> DEFINE t == mainQueue[1].token
             again == GetToken(tokenCounter, t.close)
             item == [op |-> "resume", close |-> t.close, user |-> t.user]
  <1>1. /\ mainQueue \in Seq(MainItem) /\ workerQueue \in Seq(WorkerItem)
        /\ mainQueue # << >> /\ mainQueue' = Tail(mainQueue) /\ mainQueue[1].op = "token"
        /\ t \in Token /\ t.close \in Nat /\ t.user \in Users \cup {NoToken}
        /\ 1 \in DOMAIN mainQueue
        /\ UNCHANGED <<authUser, changes, appUser, written, unowned, providerUser, tokenCounter,
                       syncUser, pending, stream, streamToken, closeCount, closes>>
    BY Taking, Members
       DEF IInv, TypeOK, HandOverToken, Takes, authVars, appVars, providerVars, streamVars
  <1>2. \/ /\ t.counter # tokenCounter /\ requests' = requests \cup {again}
           /\ workerQueue' = workerQueue
        \/ /\ t.counter = tokenCounter /\ requests' = requests
           /\ workerQueue' = Append(workerQueue, item)
    BY <1>1, Taking DEF HandOverToken
  <1>3. /\ mainQueue' \in Seq(MainItem)
        /\ \A i \in DOMAIN mainQueue' :
             /\ i \in Nat /\ i > 0
             /\ i + 1 \in DOMAIN mainQueue /\ mainQueue'[i] = mainQueue[i + 1] /\ i + 1 # 1
    BY <1>1, Taking
  <1>4. /\ again \in Request /\ again.user = Asked /\ again.counter = tokenCounter
        /\ again.close = t.close
    BY <1>1, Members DEF IInv, GetToken, Request
  <1>5. /\ item \in WorkerItem /\ item.op = "resume" /\ item.close = t.close
        /\ item.user = t.user
    BY <1>1 DEF WorkerItem
  <1>6. t.close <= closeCount /\ (stream # "starting" => t.close # closeCount)
    BY <1>1 DEF IInv, Counted, ForTheStarting
  <1>7. t.counter = tokenCounter => t.user \in {providerUser, NoToken}
    <2>1. ~\E j \in DOMAIN mainQueue : j < 1
      BY <1>1, Taking
    <2> QED BY <1>1, <2>1 DEF IInv, TokensInTime
  <1>8. \A r \in requests : r.close # t.close
    BY <1>1 DEF IInv, OnePerClose
  <1>9. \A i \in DOMAIN workerQueue : workerQueue[i].op = "resume" => workerQueue[i].close # t.close
    BY <1>1 DEF IInv, OnePerClose
  <1>10. \A i \in DOMAIN mainQueue' : mainQueue'[i].op = "token" =>
           mainQueue'[i].token.close # t.close
    BY <1>1, <1>3 DEF IInv, OnePerClose
  <1>11. \A i, j \in DOMAIN mainQueue' :
           /\ mainQueue'[i].op = "token" /\ mainQueue'[j].op = "token"
           /\ mainQueue'[i].token.close = mainQueue'[j].token.close
           => i = j
    <2>1. \A i \in DOMAIN mainQueue', j \in DOMAIN mainQueue' : i + 1 = j + 1 => i = j
      BY <1>3
    <2>2. OnePerClose BY DEF IInv
    <2> QED BY <1>3, <2>1, <2>2 DEF OnePerClose
  <1>12. ProviderFollows' /\ SignInFollows' /\ TokensInTime'
    BY <1>1, <1>2, <1>4, MainTakes DEF IInv
  <1>13. HomeFollows' BY <1>1, <1>3 DEF IInv, HomeFollows
  <1>14. OpenAsItsUser' /\ StoredUnderAuthor'
    BY <1>1 DEF IInv, OpenAsItsUser, StoredUnderAuthor
  <1> HIDE DEF t, again, item
  <1>15. CASE requests' = requests \cup {again} /\ workerQueue' = workerQueue
    <2>1. TypeOK' BY <1>1, <1>3, <1>4, <1>15 DEF IInv, TypeOK
    <2>2. SyncFollows' /\ WritesInTime' /\ ResumesInTime'
      BY <1>1, <1>15 DEF IInv, SyncFollows, WritesInTime, ResumesInTime
    <2>3. tokenCounter \in Nat BY DEF IInv, TypeOK
    <2>4. Counted' /\ ForTheStarting'
      BY <1>1, <1>3, <1>4, <1>6, <1>15, <2>3 DEF IInv, Counted, ForTheStarting
    <2>5. OnePerClose'
      BY <1>1, <1>3, <1>4, <1>8, <1>9, <1>10, <1>11, <1>15 DEF IInv, OnePerClose
    <2> QED BY <1>12, <1>13, <1>14, <2>1, <2>2, <2>4, <2>5 DEF IInv
  <1>16. CASE /\ t.counter = tokenCounter /\ requests' = requests
              /\ workerQueue' = Append(workerQueue, item)
    <2> DEFINE n == Len(workerQueue)
    <2>1. /\ workerQueue' \in Seq(WorkerItem) /\ n \in Nat
          /\ \A i \in DOMAIN workerQueue :
               /\ i \in Nat /\ i > 0 /\ i <= n
               /\ i \in DOMAIN workerQueue' /\ workerQueue'[i] = workerQueue[i]
          /\ \A i \in DOMAIN workerQueue' : i \in DOMAIN workerQueue \/ i = n + 1
          /\ n + 1 \in DOMAIN workerQueue' /\ workerQueue'[n + 1] = item
      BY <1>1, <1>5, <1>16, Appending
    <2> HIDE DEF n
    <2>2. TypeOK' BY <1>1, <1>3, <1>16, <2>1 DEF IInv, TypeOK
    <2>3. SyncFollows' /\ WritesInTime'
      BY <1>1, <1>5, <1>16, SyncOnAppend, WritesOnAppend DEF IInv
    <2>4. \A i \in DOMAIN workerQueue' :
            \/ i \in DOMAIN workerQueue /\ workerQueue'[i] = workerQueue[i]
            \/ /\ i = n + 1 /\ workerQueue'[i].close = t.close
               /\ workerQueue'[i].user = t.user
      BY <1>5, <2>1
    <2>5. Counted' /\ ForTheStarting'
      BY <1>1, <1>3, <1>6, <1>16, <2>4 DEF IInv, Counted, ForTheStarting
    <2>6. OnePerClose'
      <3>1. OnePerClose BY DEF IInv
      <3>2. ASSUME NEW i \in DOMAIN workerQueue', NEW j \in DOMAIN workerQueue',
                   workerQueue'[i].op = "resume", workerQueue'[j].op = "resume",
                   workerQueue'[i].close = workerQueue'[j].close
            PROVE  i = j
        BY <1>9, <2>4, <3>1, <3>2 DEF OnePerClose
      <3>3. ASSUME NEW i \in DOMAIN workerQueue', workerQueue'[i].op = "resume"
            PROVE  /\ \A r \in requests' : workerQueue'[i].close # r.close
                   /\ \A j \in DOMAIN mainQueue' : mainQueue'[j].op = "token" =>
                        mainQueue'[j].token.close # workerQueue'[i].close
        <4>1. CASE i \in DOMAIN workerQueue /\ workerQueue'[i] = workerQueue[i]
          BY <1>3, <1>16, <3>1, <3>3, <4>1 DEF OnePerClose
        <4>2. CASE workerQueue'[i].close = t.close
          BY <1>8, <1>10, <1>16, <4>2
        <4> QED BY <2>4, <4>1, <4>2
      <3>4. \A r \in requests', i \in DOMAIN mainQueue' :
              mainQueue'[i].op = "token" => mainQueue'[i].token.close # r.close
        BY <1>3, <1>16, <3>1 DEF OnePerClose
      <3> QED BY <1>11, <1>16, <3>1, <3>2, <3>3, <3>4 DEF OnePerClose
    <2>7. ResumesInTime'
      <3>1. syncUser = providerUser \/ \E j \in DOMAIN workerQueue' :
              j < n + 1 /\ workerQueue'[j].op = "change"
        BY <2>1 DEF IInv, SyncFollows
      <3>2. \A i \in DOMAIN workerQueue : (\E j \in DOMAIN workerQueue :
                                             j < i /\ workerQueue[j].op = "change")
              => \E j \in DOMAIN workerQueue' : j < i /\ workerQueue'[j].op = "change"
        BY <2>1
      <3>3. ResumesInTime BY DEF IInv
      <3>4. ASSUME NEW i \in DOMAIN workerQueue', workerQueue'[i].op = "resume",
                   workerQueue'[i].close = closeCount
            PROVE  \/ workerQueue'[i].user \in {syncUser, NoToken}
                   \/ \E j \in DOMAIN workerQueue' : j < i /\ workerQueue'[j].op = "change"
        <4>1. CASE i \in DOMAIN workerQueue /\ workerQueue'[i] = workerQueue[i]
          BY <3>2, <3>3, <3>4, <4>1 DEF ResumesInTime
        <4>2. CASE i = n + 1 /\ workerQueue'[i].user = t.user
          BY <1>7, <1>16, <3>1, <4>2
        <4> QED BY <2>4, <4>1, <4>2
      <3> QED BY <1>1, <3>4 DEF ResumesInTime
    <2> QED BY <1>12, <1>13, <1>14, <2>2, <2>3, <2>5, <2>6, <2>7 DEF IInv
  <1> QED BY <1>2, <1>15, <1>16

(* A stream that was not waiting for a token, or is closed, may ask for one: *)
(* whatever was asked for before is stale.                                   *)
LEMMA StartsAnew ==
  ASSUME IInv, mainQueue' = mainQueue, tokenCounter' = tokenCounter,
         closeCount' \in Nat, closeCount' >= closeCount,
         stream = "starting" => closeCount' > closeCount,
         \/ workerQueue' = workerQueue
         \/ workerQueue # << >> /\ workerQueue' = Tail(workerQueue),
         \/ requests' = requests
         \/ requests' = requests \cup {GetToken(tokenCounter, closeCount')} /\ stream' = "starting"
  PROVE  Counted' /\ ForTheStarting' /\ OnePerClose' /\ ResumesInTime'
  <1> DEFINE asked == GetToken(tokenCounter, closeCount')
  <1>1. workerQueue \in Seq(WorkerItem) BY DEF IInv, TypeOK
  <1>2. \A i \in DOMAIN workerQueue' :
          \E j \in DOMAIN workerQueue : workerQueue'[i] = workerQueue[j]
    <2>1. CASE workerQueue' = workerQueue BY <2>1
    <2>2. CASE workerQueue # << >> /\ workerQueue' = Tail(workerQueue)
      BY <1>1, <2>2, Taking
    <2> QED BY <2>1, <2>2
  <1>3. \A i, j \in DOMAIN workerQueue' :
          /\ workerQueue'[i].op = "resume" /\ workerQueue'[j].op = "resume"
          /\ workerQueue'[i].close = workerQueue'[j].close
          => i = j
    <2>1. CASE workerQueue' = workerQueue BY <2>1 DEF IInv, OnePerClose
    <2>2. CASE workerQueue # << >> /\ workerQueue' = Tail(workerQueue)
      <3>1. \A i \in DOMAIN workerQueue' :
              i \in Nat /\ i + 1 \in DOMAIN workerQueue /\ workerQueue'[i] = workerQueue[i + 1]
        BY <1>1, <2>2, Taking
      <3>2. \A i \in DOMAIN workerQueue', j \in DOMAIN workerQueue' : i + 1 = j + 1 => i = j
        BY <3>1
      <3>3. OnePerClose BY DEF IInv
      <3> QED BY <3>1, <3>2, <3>3 DEF OnePerClose
    <2> QED BY <2>1, <2>2
  <1>4. /\ tokenCounter \in Nat /\ closeCount \in Nat
        /\ asked.counter = tokenCounter /\ asked.close = closeCount'
    BY DEF IInv, TypeOK, GetToken
  <1>5. /\ \A r \in requests : r.close # closeCount' /\ r.close <= closeCount'
                               /\ r.counter <= tokenCounter /\ r.close \in Nat
        /\ \A i \in DOMAIN mainQueue : mainQueue[i].op = "token" =>
             /\ mainQueue[i].token.close # closeCount' /\ mainQueue[i].token.close <= closeCount'
             /\ mainQueue[i].token.counter <= tokenCounter
        /\ \A i \in DOMAIN workerQueue : workerQueue[i].op = "resume" =>
             workerQueue[i].close # closeCount' /\ workerQueue[i].close <= closeCount'
    <2>1. CASE stream = "starting"
      BY <1>4, <2>1, Members DEF IInv, Counted
    <2>2. CASE stream # "starting"
      BY <1>4, <2>2, Members DEF IInv, Counted, ForTheStarting
    <2> QED BY <2>1, <2>2
  <1>6. \A i \in DOMAIN workerQueue' : workerQueue'[i].op = "resume" =>
          workerQueue'[i].close # closeCount' /\ workerQueue'[i].close <= closeCount'
    BY <1>2, <1>5
  <1>7. ResumesInTime' BY <1>6 DEF ResumesInTime
  <1>8. /\ \A i \in DOMAIN mainQueue', j \in DOMAIN workerQueue' :
             mainQueue'[i].op = "token" /\ workerQueue'[j].op = "resume" =>
               mainQueue'[i].token.close # workerQueue'[j].close
        /\ \A r \in requests, j \in DOMAIN workerQueue' :
             workerQueue'[j].op = "resume" => workerQueue'[j].close # r.close
    BY <1>2 DEF IInv, OnePerClose
  <1>9. OnePerClose BY DEF IInv
  <1> HIDE DEF asked
  <1>10. CASE requests' = requests
    BY <1>3, <1>4, <1>5, <1>6, <1>7, <1>8, <1>9, <1>10 DEF OnePerClose, Counted, ForTheStarting
  <1>11. CASE requests' = requests \cup {asked} /\ stream' = "starting"
    <2>1. Counted' BY <1>4, <1>5, <1>6, <1>11 DEF Counted
    <2>2. ForTheStarting' BY <1>11 DEF ForTheStarting
    <2>3. OnePerClose' BY <1>3, <1>4, <1>5, <1>6, <1>8, <1>9, <1>11 DEF OnePerClose
    <2> QED BY <1>7, <2>1, <2>2, <2>3
  <1> QED BY <1>10, <1>11 DEF asked

(* The head of the worker queue is taken, and nothing is asked for. *)
LEMMA KeepsTokens ==
  ASSUME IInv, workerQueue # << >>, workerQueue' = Tail(workerQueue),
         workerQueue[1].op # "change", syncUser' = syncUser,
         mainQueue' = mainQueue, tokenCounter' = tokenCounter,
         closeCount' = closeCount, requests' = requests
  PROVE  /\ Counted' /\ OnePerClose' /\ ResumesInTime'
         /\ stream' = stream => ForTheStarting'
  <1>1. /\ 1 \in DOMAIN workerQueue
        /\ \A i \in DOMAIN workerQueue' :
             /\ i \in Nat /\ i > 0
             /\ i + 1 \in DOMAIN workerQueue /\ workerQueue'[i] = workerQueue[i + 1]
        /\ \A i \in DOMAIN workerQueue :
             /\ i \in Nat /\ i > 0
             /\ i # 1 => i - 1 \in DOMAIN workerQueue' /\ workerQueue[i] = workerQueue'[i - 1]
    BY Taking DEF IInv, TypeOK
  <1>2. Counted' /\ (stream' = stream => ForTheStarting')
    BY <1>1 DEF IInv, Counted, ForTheStarting
  <1>3. OnePerClose'
    <2>1. \A i \in DOMAIN workerQueue', j \in DOMAIN workerQueue' : i + 1 = j + 1 => i = j
      BY <1>1
    <2>2. OnePerClose BY DEF IInv
    <2> QED BY <1>1, <2>1, <2>2 DEF OnePerClose
  <1>4. ResumesInTime'
    <2> SUFFICES ASSUME NEW i \in DOMAIN workerQueue', workerQueue'[i].op = "resume",
                        workerQueue'[i].close = closeCount,
                        workerQueue'[i].user \notin {syncUser, NoToken}
                 PROVE  \E j \in DOMAIN workerQueue' : j < i /\ workerQueue'[j].op = "change"
      BY DEF ResumesInTime
    <2>1. i + 1 \in DOMAIN workerQueue /\ workerQueue'[i] = workerQueue[i + 1] /\ i \in Nat
      BY <1>1
    <2>2. PICK j \in DOMAIN workerQueue : j < i + 1 /\ workerQueue[j].op = "change"
      BY <2>1 DEF IInv, ResumesInTime
    <2>3. j - 1 \in DOMAIN workerQueue' /\ workerQueue[j] = workerQueue'[j - 1] /\ j - 1 < i
      BY <1>1, <2>1, <2>2
    <2> QED BY <2>2, <2>3
  <1> QED BY <1>2, <1>3, <1>4

LEMMA HandleCredentialChangeInv == IInv /\ HandleCredentialChange => IInv'
  <1> SUFFICES ASSUME IInv, HandleCredentialChange PROVE IInv' OBVIOUS
  <1>1. /\ workerQueue \in Seq(WorkerItem) /\ workerQueue # << >>
        /\ Head(workerQueue) = workerQueue[1] /\ 1 \in DOMAIN workerQueue
        /\ workerQueue' = Tail(workerQueue) /\ workerQueue' \in Seq(WorkerItem)
    BY Taking DEF IInv, TypeOK, HandleCredentialChange, Takes
  <1>2. /\ workerQueue[1].op = "change" /\ syncUser' = workerQueue[1].user
        /\ closeCount' = IF Started THEN closeCount + 1 ELSE closeCount
        /\ UNCHANGED <<authUser, changes, appUser, written, unowned, mainQueue, providerUser,
                       tokenCounter, pending, streamToken, closes>>
    BY <1>1 DEF HandleCredentialChange, Takes, authVars, appVars, providerVars
  <1>3. /\ stream' \in {"initial", "starting"}
        /\ \/ requests' = requests
           \/ /\ requests' = requests \cup {GetToken(tokenCounter, closeCount')}
              /\ stream' = "starting"
    BY DEF HandleCredentialChange, StartFor
  <1>4. syncUser' \in Users BY <1>1, <1>2, Members DEF IInv
  <1>5. /\ closeCount \in Nat /\ closeCount' \in Nat /\ closeCount' >= closeCount
        /\ stream = "starting" => closeCount' > closeCount
    BY <1>2 DEF IInv, TypeOK, Started
  <1>6. requests' \subseteq Request
    BY <1>3, <1>5 DEF IInv, TypeOK, GetToken, Request
  <1>7. TypeOK' BY <1>1, <1>2, <1>3, <1>4, <1>5, <1>6 DEF IInv, TypeOK
  <1>8. ProviderFollows' /\ HomeFollows' /\ SignInFollows'
    BY <1>2 DEF IInv, ProviderFollows, HomeFollows, SignInFollows
  <1>9. TokensInTime'
    <2>1. \A r \in requests' : r.user # Asked => r \in requests BY <1>3 DEF GetToken
    <2> QED BY <1>2, <2>1 DEF IInv, TokensInTime
  <1>10. SyncFollows' /\ WritesInTime'
    BY <1>1, <1>2, WorkerTakes DEF IInv
  <1>11. Counted' /\ ForTheStarting' /\ OnePerClose' /\ ResumesInTime'
    BY <1>1, <1>2, <1>3, <1>5, StartsAnew
  <1>12. OpenAsItsUser' BY <1>3 DEF OpenAsItsUser
  <1>13. StoredUnderAuthor' BY <1>2 DEF IInv, StoredUnderAuthor
  <1> QED BY <1>7, <1>8, <1>9, <1>10, <1>11, <1>12, <1>13 DEF IInv

LEMMA WriteMutationsInv == IInv /\ WriteMutations => IInv'
  <1> SUFFICES ASSUME IInv, WriteMutations PROVE IInv' OBVIOUS
  <1> USE CredentialAssumption
  <1> DEFINE w == workerQueue[1].write
  <1>1. /\ workerQueue \in Seq(WorkerItem) /\ workerQueue # << >>
        /\ Head(workerQueue) = workerQueue[1] /\ 1 \in DOMAIN workerQueue
        /\ workerQueue' = Tail(workerQueue) /\ workerQueue' \in Seq(WorkerItem)
        /\ \A j \in DOMAIN workerQueue : ~(j < 1)
    BY Taking DEF IInv, TypeOK, WriteMutations, Takes
  <1>2. /\ workerQueue[1].op = "write"
        /\ pending' = [pending EXCEPT ![syncUser] = @ \cup {w}]
        /\ UNCHANGED <<authUser, changes, appUser, written, unowned, mainQueue, providerUser,
                       tokenCounter, syncUser, streamToken, closeCount, closes>>
    BY <1>1 DEF WriteMutations, Takes, authVars, appVars, providerVars
  <1>3. /\ stream' \in {stream, "starting", "backoff"}
        /\ stream = "starting" => stream' = stream
        /\ \/ requests' = requests
           \/ /\ requests' = requests \cup {GetToken(tokenCounter, closeCount')}
              /\ stream' = "starting" /\ stream = "initial"
    BY DEF WriteMutations, StartFor
  <1>4. w \in Write BY <1>1, <1>2, Members DEF IInv
  <1>5. /\ pending' \in [Users -> SUBSET Write] /\ closeCount \in Nat
        /\ \A u \in Users : pending'[u] = IF u = syncUser THEN pending[u] \cup {w} ELSE pending[u]
    BY <1>2, <1>4 DEF IInv, TypeOK
  <1>6. requests' \subseteq Request
    BY <1>2, <1>3 DEF IInv, TypeOK, GetToken, Request
  <1> HIDE DEF w
  <1>7. TypeOK' BY <1>1, <1>2, <1>3, <1>5, <1>6 DEF IInv, TypeOK
  <1>8. ProviderFollows' /\ HomeFollows' /\ SignInFollows'
    BY <1>2 DEF IInv, ProviderFollows, HomeFollows, SignInFollows
  <1>9. TokensInTime'
    <2>1. \A r \in requests' : r.user # Asked => r \in requests BY <1>3 DEF GetToken
    <2> QED BY <1>2, <2>1 DEF IInv, TokensInTime
  <1>10. SyncFollows' /\ WritesInTime'
    BY <1>1, <1>2, WorkerTakes DEF IInv
  <1>11. Counted' /\ ForTheStarting' /\ OnePerClose' /\ ResumesInTime'
    <2>1. CASE stream = "starting"
      BY <1>1, <1>2, <1>3, <2>1, KeepsTokens
    <2>2. CASE stream # "starting"
      <3>1. closeCount' \in Nat /\ closeCount' >= closeCount BY <1>2, <1>5
      <3> QED BY <1>1, <1>2, <1>3, <2>2, <3>1, StartsAnew
    <2> QED BY <2>1, <2>2
  <1>12. OpenAsItsUser' BY <1>2, <1>3 DEF IInv, OpenAsItsUser
  <1>13. MayTake(syncUser, w, unowned) BY <1>1, <1>2 DEF IInv, WritesInTime, w
  <1>14. StoredUnderAuthor' BY <1>2, <1>5, <1>13 DEF IInv, StoredUnderAuthor, MayTake
  <1> QED BY <1>7, <1>8, <1>9, <1>10, <1>11, <1>12, <1>14 DEF IInv

LEMMA ResumeInv == IInv /\ Resume => IInv'
  <1> SUFFICES ASSUME IInv, Resume PROVE IInv' OBVIOUS
  <1>1. /\ workerQueue \in Seq(WorkerItem) /\ workerQueue # << >>
        /\ Head(workerQueue) = workerQueue[1] /\ 1 \in DOMAIN workerQueue
        /\ workerQueue' = Tail(workerQueue) /\ workerQueue' \in Seq(WorkerItem)
        /\ \A j \in DOMAIN workerQueue : ~(j < 1)
        /\ \A i \in DOMAIN workerQueue' :
             i \in Nat /\ i > 0 /\ i + 1 \in DOMAIN workerQueue
             /\ workerQueue'[i] = workerQueue[i + 1] /\ i + 1 # 1
    BY Taking DEF IInv, TypeOK, Resume, Takes
  <1>2. /\ workerQueue[1].op = "resume"
        /\ UNCHANGED <<authUser, changes, appUser, written, unowned, mainQueue, providerUser,
                       requests, tokenCounter, syncUser, pending, closes>>
    BY <1>1 DEF Resume, Takes, StartFor, authVars, appVars, providerVars
  <1>3. \/ stream' = stream /\ streamToken' = streamToken /\ closeCount' = closeCount
        \/ /\ workerQueue[1].close = closeCount /\ workerQueue[1].user # NoToken
           /\ stream' = "open" /\ streamToken' = workerQueue[1].user
           /\ closeCount' = closeCount
        \/ /\ workerQueue[1].close = closeCount
           /\ stream' \in {"error", "backoff"} /\ streamToken' = streamToken
           /\ closeCount' = closeCount + 1
    BY <1>1, <1>2 DEF Resume, StartFor
  <1>4. workerQueue[1].user \in Users \cup {NoToken}
    BY <1>1, <1>2, Members DEF IInv
  <1>5. ProviderFollows' /\ HomeFollows' /\ SignInFollows' /\ TokensInTime'
    BY <1>2 DEF IInv, ProviderFollows, HomeFollows, SignInFollows, TokensInTime
  <1>6. SyncFollows' /\ WritesInTime'
    BY <1>1, <1>2, WorkerTakes DEF IInv
  <1>7. StoredUnderAuthor' BY <1>2 DEF IInv, StoredUnderAuthor
  <1>8. CASE stream' = stream /\ streamToken' = streamToken /\ closeCount' = closeCount
    <2>1. TypeOK' BY <1>1, <1>2, <1>8 DEF IInv, TypeOK
    <2>2. Counted' /\ OnePerClose' /\ ResumesInTime' /\ ForTheStarting'
      BY <1>1, <1>2, <1>8, KeepsTokens
    <2>3. OpenAsItsUser' BY <1>2, <1>8 DEF IInv, OpenAsItsUser
    <2> QED BY <1>5, <1>6, <1>7, <2>1, <2>2, <2>3 DEF IInv
  <1>9. CASE /\ workerQueue[1].close = closeCount /\ workerQueue[1].user # NoToken
             /\ stream' = "open" /\ streamToken' = workerQueue[1].user
             /\ closeCount' = closeCount
    <2>1. TypeOK' BY <1>1, <1>2, <1>4, <1>9 DEF IInv, TypeOK
    <2>2. Counted' /\ OnePerClose' /\ ResumesInTime'
      BY <1>1, <1>2, <1>9, KeepsTokens
    <2>3. ForTheStarting'
      <3>1. OnePerClose BY DEF IInv
      <3>2. /\ \A r \in requests : r.close # closeCount
            /\ \A i \in DOMAIN mainQueue :
                 mainQueue[i].op = "token" => mainQueue[i].token.close # closeCount
            /\ \A i \in DOMAIN workerQueue :
                 workerQueue[i].op = "resume" /\ i # 1 => workerQueue[i].close # closeCount
        BY <1>1, <1>2, <1>9, <3>1 DEF OnePerClose
      <3> QED BY <1>1, <1>2, <1>9, <3>2 DEF ForTheStarting
    <2>4. workerQueue[1].user = syncUser
      BY <1>1, <1>2, <1>9 DEF IInv, ResumesInTime
    <2>5. OpenAsItsUser' BY <1>2, <1>9, <2>4 DEF OpenAsItsUser
    <2> QED BY <1>5, <1>6, <1>7, <2>1, <2>2, <2>3, <2>5 DEF IInv
  <1>10. CASE /\ stream' \in {"error", "backoff"} /\ streamToken' = streamToken
              /\ closeCount' = closeCount + 1
    <2>1. /\ closeCount \in Nat /\ closeCount' \in Nat /\ closeCount' > closeCount
          /\ closeCount' >= closeCount
      BY <1>10 DEF IInv, TypeOK
    <2>2. TypeOK' BY <1>1, <1>2, <1>10, <2>1 DEF IInv, TypeOK
    <2>3. Counted' /\ ForTheStarting' /\ OnePerClose' /\ ResumesInTime'
      BY <1>1, <1>2, <2>1, StartsAnew
    <2>4. OpenAsItsUser' BY <1>10 DEF OpenAsItsUser
    <2> QED BY <1>5, <1>6, <1>7, <2>2, <2>3, <2>4 DEF IInv
  <1> QED BY <1>3, <1>8, <1>9, <1>10

LEMMA SettleInv == ASSUME IInv, NEW w \in Write, Settle(w) PROVE IInv'
  <1>1. /\ pending' = [pending EXCEPT ![syncUser] = @ \ {w}]
        /\ UNCHANGED <<authUser, changes, appUser, written, unowned, mainQueue, providerUser,
                       tokenCounter, requests, workerQueue, syncUser, stream, streamToken,
                       closeCount, closes>>
    BY DEF Settle, authVars, appVars, providerVars, streamVars
  <1>2. /\ pending' \in [Users -> SUBSET Write]
        /\ \A u \in Users : pending'[u] \subseteq pending[u]
    BY <1>1 DEF IInv, TypeOK
  <1>3. TypeOK' BY <1>1, <1>2 DEF IInv, TypeOK
  <1>4. ProviderFollows' /\ HomeFollows' /\ SignInFollows' /\ TokensInTime'
    BY <1>1 DEF IInv, ProviderFollows, HomeFollows, SignInFollows, TokensInTime
  <1>5. SyncFollows' /\ WritesInTime' /\ ResumesInTime'
    BY <1>1 DEF IInv, SyncFollows, WritesInTime, ResumesInTime
  <1>6. Counted' /\ ForTheStarting' BY <1>1 DEF IInv, Counted, ForTheStarting
  <1>7. OnePerClose' BY <1>1 DEF IInv, OnePerClose
  <1>8. OpenAsItsUser' BY <1>1 DEF IInv, OpenAsItsUser
  <1>9. StoredUnderAuthor' BY <1>1, <1>2 DEF IInv, StoredUnderAuthor
  <1> QED BY <1>3, <1>4, <1>5, <1>6, <1>7, <1>8, <1>9 DEF IInv

(* The three steps of a stream that ends or begins anew by itself. *)
LEMMA StreamStepInv ==
  ASSUME IInv, StreamFails \/ IdleTimeout \/ BackoffElapses PROVE IInv'
  <1>1. /\ UNCHANGED <<authUser, changes, appUser, written, unowned, mainQueue, providerUser,
                       tokenCounter, workerQueue, syncUser, pending, streamToken>>
        /\ closes \in Nat /\ closes' \in {closes, closes + 1}
        /\ closeCount \in Nat /\ closeCount' \in {closeCount, closeCount + 1}
        /\ stream' \in {"initial", "starting", "error", "backoff"}
        /\ stream = "starting" => closeCount' = closeCount + 1
        /\ \/ requests' = requests
           \/ /\ requests' = requests \cup {GetToken(tokenCounter, closeCount')}
              /\ stream' = "starting"
    <2>1. CASE StreamFails
      BY <2>1 DEF IInv, TypeOK, StreamFails, Close, StartFor, authVars, appVars, providerVars
    <2>2. CASE IdleTimeout
      BY <2>2 DEF IInv, TypeOK, IdleTimeout, Close, authVars, appVars, providerVars
    <2>3. CASE BackoffElapses
      BY <2>3 DEF IInv, TypeOK, BackoffElapses, authVars, appVars, providerVars
    <2> QED BY <2>1, <2>2, <2>3
  <1>2. requests' \subseteq Request
    BY <1>1 DEF IInv, TypeOK, GetToken, Request
  <1>3. TypeOK' BY <1>1, <1>2 DEF IInv, TypeOK
  <1>4. ProviderFollows' /\ HomeFollows' /\ SignInFollows'
    BY <1>1 DEF IInv, ProviderFollows, HomeFollows, SignInFollows
  <1>5. TokensInTime'
    <2>1. \A r \in requests' : r.user # Asked => r \in requests BY <1>1 DEF GetToken
    <2> QED BY <1>1, <2>1 DEF IInv, TokensInTime
  <1>6. SyncFollows' /\ WritesInTime' BY <1>1 DEF IInv, SyncFollows, WritesInTime
  <1>7. Counted' /\ ForTheStarting' /\ OnePerClose' /\ ResumesInTime'
    <2>1. /\ closeCount' \in Nat /\ closeCount' >= closeCount
          /\ stream = "starting" => closeCount' > closeCount
      BY <1>1
    <2> QED BY <1>1, <2>1, StartsAnew
  <1>8. OpenAsItsUser' BY <1>1 DEF OpenAsItsUser
  <1>9. StoredUnderAuthor' BY <1>1 DEF IInv, StoredUnderAuthor
  <1> QED BY <1>3, <1>4, <1>5, <1>6, <1>7, <1>8, <1>9 DEF IInv

LEMMA StutterInv == IInv /\ UNCHANGED vars => IInv'
  <1> SUFFICES ASSUME IInv, UNCHANGED vars PROVE IInv' OBVIOUS
  <1> USE DEF vars, authVars, appVars, providerVars, streamVars
  <1>1. TypeOK' BY DEF IInv, TypeOK
  <1>2. ProviderFollows' /\ HomeFollows' /\ SignInFollows' /\ TokensInTime'
    BY DEF IInv, ProviderFollows, HomeFollows, SignInFollows, TokensInTime
  <1>3. SyncFollows' /\ WritesInTime' /\ ResumesInTime'
    BY DEF IInv, SyncFollows, WritesInTime, ResumesInTime
  <1>4. Counted' /\ ForTheStarting' BY DEF IInv, Counted, ForTheStarting
  <1>5. OnePerClose' BY DEF IInv, OnePerClose
  <1>6. OpenAsItsUser' /\ StoredUnderAuthor' BY DEF IInv, OpenAsItsUser, StoredUnderAuthor
  <1> QED BY <1>1, <1>2, <1>3, <1>4, <1>5, <1>6 DEF IInv

LEMMA NextInv == IInv /\ [Next]_vars => IInv'
  <1> SUFFICES ASSUME IInv, [Next]_vars PROVE IInv' OBVIOUS
  <1>1. ASSUME NEW user \in User, SignIn(user) PROVE IInv' BY <1>1, SignInInv
  <1>2. CASE RefreshToken BY <1>2, RefreshTokenInv
  <1>3. ASSUME NEW request \in requests, ReadCurrentUser(request) PROVE IInv'
    BY <1>3, ReadCurrentUserInv
  <1>4. ASSUME NEW request \in requests, TokenFetched(request) PROVE IInv'
    BY <1>4, TokenFetchedInv
  <1>5. CASE SignOut BY <1>5, SignOutInv
  <1>6. ASSUME NEW w \in Write, Commit(w) PROVE IInv' BY <1>6, CommitInv
  <1>7. ASSUME NEW w \in Write, Settle(w) PROVE IInv' BY <1>7, SettleInv
  <1>8. CASE MainStep
    BY <1>8, HearOfChangeInv, ShowHomeInv, HandOverTokenInv DEF MainStep
  <1>9. CASE WorkerStep
    BY <1>9, HandleCredentialChangeInv, WriteMutationsInv, ResumeInv DEF WorkerStep
  <1>10. CASE StreamFails \/ IdleTimeout \/ BackoffElapses BY <1>10, StreamStepInv
  <1>11. CASE UNCHANGED vars BY <1>11, StutterInv
  <1>12. ASSUME NEW request \in requests, TokenFails(request) PROVE IInv'
    BY <1>12, TokenFailsInv
  <1>13. ASSUME NEW request \in requests, TokenRefused(request) PROVE IInv'
    BY <1>13, TokenRefusedInv
  <1>14. CASE TokenStep BY <1>3, <1>4, <1>12, <1>13, <1>14 DEF TokenStep
  <1>15. CASE RefreshRefused BY <1>15, RefreshRefusedInv
  <1> QED BY <1>1, <1>2, <1>5, <1>6, <1>7, <1>8, <1>9, <1>10, <1>11, <1>14, <1>15 DEF Next

(* The inductive invariant holds of every behaviour of the credentials       *)
(* provider, SyncEngine and the write stream's start.                        *)
THEOREM CredentialInvariant == Spec => []IInv
  BY InitInv, NextInv, PTL DEF Spec

(* Every variable keeps its type, for any users, writes and bounds.          *)
THEOREM CredentialTypes == Spec => []TypeOK
  <1>1. IInv => TypeOK BY DEF IInv
  <1> QED BY CredentialInvariant, <1>1, PTL

(* A write stream that is open carries the token of the user whose mutation  *)
(* queue SyncEngine sends (Stream's close_count, the provider's              *)
(* token_counter), however the three queues interleave.                      *)
THEOREM TokenOfItsUser == Spec => []OpenAsItsUser
  <1>1. IInv => OpenAsItsUser BY DEF IInv
  <1> QED BY CredentialInvariant, <1>1, PTL

(* SyncEngine stores a write in its author's mutation queue, although it and *)
(* the app hear of the user from different queues; or in nobody's, if Auth    *)
(* had signed the author out by force when it was committed.  It never        *)
(* stores one as another user's.                                              *)
THEOREM StoredByAuthor == Spec => []StoredUnderAuthor
  <1>1. IInv => StoredUnderAuthor BY DEF IInv
  <1> QED BY CredentialInvariant, <1>1, PTL

(* ResumeStartWithCredentials finds the stream starting, as it asserts, and  *)
(* is called with one token per start.                                       *)
THEOREM ResumesOnceStarting == Spec => []ResumesOnlyAsStarting
  <1>1. IInv => ResumesOnlyAsStarting
    <2>1. ForTheStarting /\ OnePerClose => ResumesOnlyAsStarting
      BY DEF ForTheStarting, OnePerClose, ResumesOnlyAsStarting
    <2> QED BY <2>1 DEF IInv
  <1> QED BY CredentialInvariant, <1>1, PTL

-----------------------------------------------------------------------------
(* The screens of the app whose user this is *)

(* CredentialChange has the app by whose home screen it shows.  That no home  *)
(* screen is shown under another user than its own, whatever happens between *)
(* signing in and reading the user, is proved here of Login.                 *)

LEMMA LoginInitially == LoginInit => LoginIInv
  BY DEF LoginInit, LoginIInv, LoginTypeOK, RequestsFromLogin, ReadsSignedInUser,
         HomeOfSignedInUser, AccountTypes, UserDocuments

(* The requests but one are none. *)
LEMMA OnlyRequest ==
  ASSUME LoginIInv, NEW request \in attempts
  PROVE  /\ attempts \ {request} = {}
         /\ request \in Attempts /\ request.account \in Account
         /\ screen = "login" /\ ~ loginEnabled
  BY DEF LoginIInv, LoginTypeOK, RequestsFromLogin, Attempts

LEMMA LogInTappedStep ==
  ASSUME LoginIInv, NEW account \in Account, LogInTapped(account)
  PROVE  LoginIInv'
  <1> DEFINE request == [op |-> "signIn", account |-> account]
  <1>1. attempts' = {request}
    BY DEF LoginIInv, RequestsFromLogin, LogInTapped
  <1>2. request \in Attempts /\ request.op = "signIn"
    BY DEF Attempts
  <1> HIDE DEF request
  <1>3. LoginTypeOK'
    BY <1>1, <1>2 DEF LoginIInv, LoginTypeOK, LogInTapped
  <1>4. RequestsFromLogin' /\ ReadsSignedInUser' /\ HomeOfSignedInUser'
    BY <1>1, <1>2
       DEF LogInTapped, RequestsFromLogin, ReadsSignedInUser, HomeOfSignedInUser,
           AccountTypes
  <1> QED
    BY <1>3, <1>4 DEF LoginIInv

LEMMA LoginSignedInStep ==
  ASSUME LoginIInv, NEW request \in attempts, SignedIn(request)
  PROVE  LoginIInv'
  <1> DEFINE next == [request EXCEPT !.op = "getUser"]
  <1>1. attempts' = {next}
    BY OnlyRequest DEF SignedIn
  <1>2. next \in Attempts /\ next.op = "getUser" /\ next.account = request.account
    BY OnlyRequest DEF Attempts
  <1> HIDE DEF next
  <1>3. LoginTypeOK'
    BY <1>1, <1>2, OnlyRequest DEF LoginIInv, LoginTypeOK, SignedIn
  <1>4. RequestsFromLogin' /\ ReadsSignedInUser' /\ HomeOfSignedInUser'
    BY <1>1, <1>2, OnlyRequest DEF SignedIn, RequestsFromLogin, ReadsSignedInUser,
                                   HomeOfSignedInUser, AccountTypes
  <1> QED
    BY <1>3, <1>4 DEF LoginIInv

LEMMA LoginFailsStep ==
  ASSUME LoginIInv, NEW request \in attempts, NEW error \in Errors, Fails(request, error)
  PROVE  LoginIInv'
  <1>1. attempts' = {} /\ screen' = "login"
    BY OnlyRequest DEF Fails
  <1>2. LoginTypeOK'
    BY <1>1 DEF LoginIInv, LoginTypeOK, Fails
  <1> QED
    BY <1>1, <1>2
       DEF LoginIInv, RequestsFromLogin, ReadsSignedInUser, HomeOfSignedInUser,
           AccountTypes

LEMMA LoginGotUserStep ==
  ASSUME LoginIInv, NEW request \in attempts, GotUser(request)
  PROVE  LoginIInv'
  <1>1. attempts' = {} /\ request.account \in Account
    BY OnlyRequest DEF GotUser
  <1>2. currentUser \in {request.account, Nobody}
    BY DEF LoginIInv, ReadsSignedInUser, GotUser
  <1>3. LoginTypeOK'
    BY <1>1 DEF LoginIInv, LoginTypeOK, GotUser
  <1>4. HomeOfSignedInUser'
    BY <1>1, <1>2 DEF GotUser, HomeOfSignedInUser
  <1> QED
    BY <1>1, <1>3, <1>4 DEF LoginIInv, RequestsFromLogin, ReadsSignedInUser

LEMMA LoginStartsOverStep ==
  ASSUME LoginIInv, NEW root \in {"login", "killed"}, StartsOver(root), UNCHANGED users,
         currentUser' \in {currentUser, Nobody}
  PROVE  LoginIInv'
  <1>1. LoginTypeOK'
    BY DEF LoginIInv, LoginTypeOK, StartsOver
  <1> QED
    BY <1>1
       DEF LoginIInv, StartsOver, RequestsFromLogin, ReadsSignedInUser,
           HomeOfSignedInUser, AccountTypes

(* Auth's forced sign-out leaves the screens alone. *)
LEMMA LoginForcedStep == LoginIInv /\ SignedOutByForce => LoginIInv'
  BY DEF LoginIInv, LoginTypeOK, SignedOutByForce, RequestsFromLogin, ReadsSignedInUser,
         HomeOfSignedInUser

(* Only the modal changes, or nothing does. *)
LEMMA LoginModalStep ==
  ASSUME LoginIInv, alert' \in Errors \cup {"none", "sheet"},
         UNCHANGED <<users, currentUser, screen, homeUser, attempts, loginEnabled>>
  PROVE  LoginIInv'
  BY DEF LoginIInv, LoginTypeOK, RequestsFromLogin, ReadsSignedInUser,
         HomeOfSignedInUser

LEMMA LoginNextStep == LoginIInv /\ [LoginNext]_loginVars => LoginIInv'
  <1> SUFFICES ASSUME LoginIInv, [LoginNext]_loginVars PROVE LoginIInv'
    OBVIOUS
  <1>1. Answer => LoginIInv'
    <2> SUFFICES ASSUME NEW request \in attempts,
                        \/ SignedIn(request) \/ SignInFails(request)
                        \/ GotUser(request) \/ GetUserFails(request)
                 PROVE  LoginIInv'
      BY DEF Answer
    <2>1. SignInFails(request) \/ GetUserFails(request) =>
            \E error \in Errors : Fails(request, error)
      BY DEF SignInFails, GetUserFails, Errors
    <2> QED
      BY <2>1, LoginSignedInStep, LoginGotUserStep, LoginFailsStep
  <1>2. LogOut \/ Kill \/ Launch => LoginIInv'
    BY LoginStartsOverStep DEF LogOut, Kill, Launch
  <1>3. DismissAlert \/ TapProfile \/ LogOutFails \/ UNCHANGED loginVars => LoginIInv'
    BY LoginModalStep
       DEF DismissAlert, TapProfile, LogOutFails, loginVars, Errors, LoginIInv,
           LoginTypeOK
  <1> QED
    BY <1>1, <1>2, <1>3, LogInTappedStep, LoginForcedStep DEF LoginNext

(* One attempt is made at a time, and ends where it began. *)
THEOREM LoginInvariant == LoginSpec => []LoginIInv
  BY LoginInitially, LoginNextStep, PTL DEF LoginSpec

(* Every variable keeps its type, for any accounts. *)
THEOREM LoginTypes == LoginSpec => []LoginTypeOK
  <1>1. LoginIInv => LoginTypeOK
    BY DEF LoginIInv
  <1> QED
    BY <1>1, LoginInvariant, PTL

(* A home screen is of one user and of that user's type, and Auth has that   *)
(* user signed in, or nobody after a sign-out by force.                      *)
THEOREM HomeIsOfItsUser == LoginSpec => []HomeOfSignedInUser
  <1>1. LoginIInv => HomeOfSignedInUser
    BY DEF LoginIInv
  <1> QED
    BY <1>1, LoginInvariant, PTL
=============================================================================
