----------------------------- MODULE HuddleProofs -----------------------------
(***************************************************************************)
(* Proofs about Huddle, for any devices, quizzes, launch times and bounds:  *)
(* what the loader and the guards of the taps keep apart on one device.     *)
(* Devices meet in the store alone, where each writes a count of its own.   *)
(***************************************************************************)
EXTENDS Huddle, TLAPS

(* A screen over the huddle is of some quiz; a sheet on its way is covered. *)
ScreenHasQuiz(d) ==
  /\ screen[d] \in {"quiz", "result"} => opened[d] \in Quiz
  /\ sheet[d] = "handedIn" =>
       /\ screen[d] = "quiz" /\ alert[d] = "submitting"
       /\ landed[opened[d]][d] < MaxLanded[d]

(* Only a quiz that has been launched is asked about with a view to taking it. *)
AskedInTime(d) ==
  \A i \in DOMAIN requests[d] :
    requests[d][i].op # "resultCheck" => LaunchTime[requests[d][i].quiz] <= now

(* Where no read fails, one tap is served at a time, under its loader. *)
OneTapAtATime(d) ==
  d \notin Failing /\ requests[d] # << >> =>
    /\ Len(requests[d]) = 1
    /\ screen[d] = "huddle" /\ alert[d] = "loading"
    /\ requests[d][1].quiz = tapped[d]

(* There, nothing of this device is stored for a quiz about to be taken. *)
NothingStoredYet(d) ==
  d \notin Failing =>
    /\ requests[d] # << >> /\ requests[d][1].op = "questions" =>
         landed[requests[d][1].quiz][d] = 0
    /\ screen[d] = "quiz" /\ sheet[d] \in {"open", "handedIn"} => landed[opened[d]][d] = 0

(* The properties, for one device. *)
Promised(d) ==
  /\ screen[d] = "result" => HasSubmitted(opened[d])
  /\ screen[d] = "quiz" => LaunchTime[opened[d]] <= now
  /\ d \notin Failing => \A quiz \in Quiz : landed[quiz][d] <= 1
  /\ d \notin Failing /\ screen[d] = "quiz" => opened[d] = tapped[d]

Safe(d) ==
  /\ ScreenHasQuiz(d)
  /\ AskedInTime(d)
  /\ OneTapAtATime(d)
  /\ NothingStoredYet(d)
  /\ Promised(d)

IInv == TypeOK /\ \A d \in Device : Safe(d)

LEMMA Initially == Init => IInv
  BY HuddleAssumption
  DEF Init, IInv, TypeOK, Safe, ScreenHasQuiz, AskedInTime, OneTapAtATime, NothingStoredYet,
      Promised, Screens, Alerts, Sheets, Messages, Requests, HasSubmitted

(* Sequences of requests *)

LEMMA Appending ==
  ASSUME NEW S, NEW s \in Seq(S), NEW e \in S
  PROVE  /\ Append(s, e) \in Seq(S)
         /\ Len(Append(s, e)) = Len(s) + 1
         /\ Append(s, e) # << >>
         /\ s = << >> => Append(s, e)[1] = e
         /\ \A j \in DOMAIN Append(s, e) :
              (j \in DOMAIN s /\ Append(s, e)[j] = s[j]) \/ Append(s, e)[j] = e
  <1>1. /\ Append(s, e) \in Seq(S)
        /\ Len(Append(s, e)) = Len(s) + 1 /\ Len(s) \in Nat
        /\ \A j \in 1 .. Len(s) : Append(s, e)[j] = s[j]
        /\ Append(s, e)[Len(s) + 1] = e
    OBVIOUS
  <1>2. DOMAIN s = 1 .. Len(s) /\ DOMAIN Append(s, e) = 1 .. Len(s) + 1
    BY <1>1
  <1>3. Append(s, e) # << >> /\ (s = << >> => Len(s) = 0)
    BY <1>1
  <1> QED
    BY <1>1, <1>2, <1>3

LEMMA Removing ==
  ASSUME NEW S, NEW s \in Seq(S), NEW i \in DOMAIN s
  PROVE  /\ RemoveAt(s, i) \in Seq(S)
         /\ Len(RemoveAt(s, i)) = Len(s) - 1
         /\ \A j \in DOMAIN RemoveAt(s, i) : \E k \in DOMAIN s : RemoveAt(s, i)[j] = s[k]
         /\ Len(s) = 1 => RemoveAt(s, i) = << >>
  <1>1. i \in 1 .. Len(s) /\ Len(s) \in Nat
    OBVIOUS
  <1>2. /\ SubSeq(s, 1, i - 1) \in Seq(S) /\ Len(SubSeq(s, 1, i - 1)) = i - 1
        /\ \A j \in 1 .. i - 1 : SubSeq(s, 1, i - 1)[j] = s[j]
    BY <1>1
  <1>3. /\ SubSeq(s, i + 1, Len(s)) \in Seq(S) /\ Len(SubSeq(s, i + 1, Len(s))) = Len(s) - i
        /\ \A j \in 1 .. Len(s) - i : SubSeq(s, i + 1, Len(s))[j] = s[j + i]
    BY <1>1
  <1> DEFINE front == SubSeq(s, 1, i - 1)
             back  == SubSeq(s, i + 1, Len(s))
  <1>4. RemoveAt(s, i) = front \o back
    BY DEF RemoveAt
  <1> HIDE DEF front, back
  <1>5. /\ front \o back \in Seq(S)
        /\ Len(front \o back) = Len(front) + Len(back)
        /\ \A j \in 1 .. Len(front) + Len(back) :
             (front \o back)[j] = IF j <= Len(front) THEN front[j] ELSE back[j - Len(front)]
    <2>1. front \in Seq(S) /\ back \in Seq(S)
      BY <1>2, <1>3 DEF front, back
    <2> QED
      BY <2>1
  <1>6. Len(front) = i - 1 /\ Len(back) = Len(s) - i
    BY <1>2, <1>3 DEF front, back
  <1>7. Len(front) + Len(back) = Len(s) - 1
    BY <1>1, <1>6
  <1>8. DOMAIN RemoveAt(s, i) = 1 .. Len(s) - 1
    BY <1>4, <1>5, <1>7
  <1>9. ASSUME NEW j \in 1 .. Len(s) - 1
        PROVE  \E k \in DOMAIN s : RemoveAt(s, i)[j] = s[k]
    <2>1. CASE j <= i - 1
      <3>1. RemoveAt(s, i)[j] = front[j]
        BY <1>4, <1>5, <1>6, <1>7, <2>1
      <3>2. front[j] = s[j] /\ j \in DOMAIN s
        BY <1>1, <1>2, <2>1 DEF front
      <3> QED
        BY <3>1, <3>2
    <2>2. CASE ~ j <= i - 1
      <3>1. RemoveAt(s, i)[j] = back[j - (i - 1)]
        BY <1>4, <1>5, <1>6, <1>7, <2>2
      <3>2. j - (i - 1) \in 1 .. Len(s) - i
        BY <1>1, <2>2
      <3>3. back[j - (i - 1)] = s[j - (i - 1) + i]
        BY <1>3, <3>2 DEF back
      <3>4. j - (i - 1) + i \in DOMAIN s
        BY <1>1, <3>2
      <3> QED
        BY <3>1, <3>3, <3>4
    <2> QED
      BY <2>1, <2>2
  <1>10. Len(s) = 1 => RemoveAt(s, i) = << >>
    BY <1>4, <1>5, <1>7
  <1> QED
    BY <1>4, <1>5, <1>7, <1>8, <1>9, <1>10

LEMMA Turning ==
  ASSUME NEW s \in Seq(Requests), NEW i \in DOMAIN s
  PROVE  LET t == [s EXCEPT ![i].op = "questions"] IN
         /\ t \in Seq(Requests)
         /\ Len(t) = Len(s)
         /\ \A j \in DOMAIN t : j \in DOMAIN s /\ t[j].quiz = s[j].quiz
                                /\ (t[j].op = s[j].op \/ j = i)
         /\ t[i].op = "questions"
  <1> DEFINE r == [s[i] EXCEPT !.op = "questions"]
             t == [s EXCEPT ![i] = r]
  <1>1. r \in Requests /\ r.quiz = s[i].quiz /\ r.op = "questions"
    <2>1. s[i] \in Requests
      OBVIOUS
    <2> QED
      BY <2>1 DEF Requests
  <1>2. t = [s EXCEPT ![i].op = "questions"]
    OBVIOUS
  <1> HIDE DEF r
  <1>3. /\ t \in Seq(Requests) /\ Len(t) = Len(s) /\ DOMAIN t = DOMAIN s
        /\ t[i] = r /\ \A j \in DOMAIN s : j # i => t[j] = s[j]
    BY <1>1
  <1> HIDE DEF t
  <1> QED
    BY <1>1, <1>2, <1>3

LEMMA RequestTypes ==
  ASSUME TypeOK, NEW d \in Device, NEW i \in DOMAIN requests[d]
  PROVE  /\ requests[d] \in Seq(Requests) /\ Len(requests[d]) <= MaxRequests
         /\ requests[d][i] \in Requests
         /\ requests[d][i].quiz \in Quiz
         /\ requests[d][i].op \in {"check", "resultCheck", "questions"}
  <1>1. requests[d] \in Seq(Requests) /\ Len(requests[d]) <= MaxRequests
    BY DEF TypeOK
  <1>2. requests[d][i] \in Requests
    BY <1>1
  <1> QED
    BY <1>1, <1>2 DEF Requests

LEMMA EnterHuddleTypes ==
  ASSUME IInv, NEW d \in Device, EnterHuddle(d)
  PROVE  TypeOK'
  BY HuddleAssumption
  DEF EnterHuddle, Appears, IInv, Safe, ScreenHasQuiz, TypeOK, Screens, Alerts, Sheets,
      Messages, Requests, screenVars, flowVars

LEMMA EnterHuddleKeeps ==
  ASSUME IInv, NEW d \in Device, EnterHuddle(d), TypeOK'
  PROVE  Safe(d)'
  BY HuddleAssumption
  DEF EnterHuddle, Appears, IInv, TypeOK, Safe, ScreenHasQuiz, AskedInTime, OneTapAtATime,
      NothingStoredYet, Promised, Alerts, Sheets, Messages, Requests, HasSubmitted,
      screenVars, flowVars

LEMMA QuizzesFetchedTypes ==
  ASSUME IInv, NEW d \in Device, NEW list \in SUBSET Quiz, QuizzesFetched(d, list)
  PROVE  TypeOK'
  BY HuddleAssumption
  DEF QuizzesFetched, IInv, Safe, ScreenHasQuiz, TypeOK, Screens, Alerts, Sheets,
      Messages, Requests, screenVars, flowVars

LEMMA QuizzesFetchedKeeps ==
  ASSUME IInv, NEW d \in Device, NEW list \in SUBSET Quiz, QuizzesFetched(d, list), TypeOK'
  PROVE  Safe(d)'
  BY HuddleAssumption
  DEF QuizzesFetched, IInv, TypeOK, Safe, ScreenHasQuiz, AskedInTime, OneTapAtATime,
      NothingStoredYet, Promised, Alerts, Sheets, Messages, Requests, HasSubmitted,
      screenVars, flowVars

LEMMA QuizzesFetchFailedTypes ==
  ASSUME IInv, NEW d \in Device, QuizzesFetchFailed(d)
  PROVE  TypeOK'
  BY HuddleAssumption
  DEF QuizzesFetchFailed, Display, IInv, Safe, ScreenHasQuiz, TypeOK, Screens, Alerts,
      Sheets,
      Messages, Requests, screenVars, flowVars

LEMMA QuizzesFetchFailedKeeps ==
  ASSUME IInv, NEW d \in Device, QuizzesFetchFailed(d), TypeOK'
  PROVE  Safe(d)'
  BY HuddleAssumption
  DEF QuizzesFetchFailed, Display, IInv, TypeOK, Safe, ScreenHasQuiz, AskedInTime,
      OneTapAtATime,
      NothingStoredYet, Promised, Alerts, Sheets, Messages, Requests, HasSubmitted,
      screenVars, flowVars

LEMMA LeaveHuddleTypes ==
  ASSUME IInv, NEW d \in Device, LeaveHuddle(d)
  PROVE  TypeOK'
  <1>1. requests' = [requests EXCEPT ![d] = << >>]
    BY DEF LeaveHuddle, HuddleIsGone
  <1>2. << >> \in Seq(Requests) /\ Len(<< >>) = 0
    OBVIOUS
  <1>3. Len(<< >>) <= MaxRequests
    BY <1>2, HuddleAssumption
  <1>4. /\ requests' \in [Device -> Seq(Requests)]
        /\ \A e \in Device : Len(requests'[e]) <= MaxRequests
    BY <1>1, <1>2, <1>3, HuddleAssumption DEF IInv, TypeOK
  <1>5. /\ now' \in 0 .. Horizon
        /\ landed' \in [Quiz -> [Device -> Nat]]
        /\ \A q \in Quiz, e \in Device : landed'[q][e] <= MaxLanded[e]
        /\ screen' \in [Device -> Screens]
        /\ quizzes' \in [Device -> SUBSET Quiz]
        /\ listing' \in [Device -> BOOLEAN]
        /\ alert' \in [Device -> Alerts]
        /\ tapped' \in [Device -> Quiz \cup {NoQuiz}]
        /\ opened' \in [Device -> Quiz \cup {NoQuiz}]
        /\ sheet' \in [Device -> Sheets]
    BY DEF LeaveHuddle, HuddleIsGone, Touchable, IInv, TypeOK, Screens,
       Alerts, Sheets, Messages, screenVars
  <1> QED
    BY <1>4, <1>5 DEF TypeOK

LEMMA LeaveHuddleKeeps ==
  ASSUME IInv, NEW d \in Device, LeaveHuddle(d), TypeOK'
  PROVE  Safe(d)'
  BY HuddleAssumption
  DEF LeaveHuddle, HuddleIsGone, Touchable, IInv, TypeOK, Safe, ScreenHasQuiz, AskedInTime,
      OneTapAtATime,
      NothingStoredYet, Promised, Alerts, Sheets, Messages, Requests, HasSubmitted,
      screenVars, flowVars

LEMMA TapOpenQuizTypes ==
  ASSUME IInv, NEW d \in Device, NEW quiz \in Quiz, TapOpenQuiz(d, quiz)
  PROVE  TypeOK'
  <1> DEFINE r == [op |-> "check", quiz |-> quiz]
  <1>1. r \in Requests /\ requests[d] \in Seq(Requests) /\ Len(requests[d]) < MaxRequests
    BY DEF TapOpenQuiz, IInv, TypeOK, Requests
  <1>2. requests' = [requests EXCEPT ![d] = Append(requests[d], r)]
    BY DEF TapOpenQuiz, Ask
  <1> HIDE DEF r
  <1>3. /\ Append(requests[d], r) \in Seq(Requests)
        /\ Len(Append(requests[d], r)) = Len(requests[d]) + 1
    BY <1>1, Appending
  <1>4. Len(requests[d]) + 1 <= MaxRequests
    BY <1>1, HuddleAssumption
  <1>5. /\ requests' \in [Device -> Seq(Requests)]
        /\ \A e \in Device : Len(requests'[e]) <= MaxRequests
    BY <1>1, <1>2, <1>3, <1>4, HuddleAssumption DEF IInv, TypeOK
  <1>6. /\ now' \in 0 .. Horizon
        /\ landed' \in [Quiz -> [Device -> Nat]]
        /\ \A q \in Quiz, e \in Device : landed'[q][e] <= MaxLanded[e]
        /\ screen' \in [Device -> Screens]
        /\ quizzes' \in [Device -> SUBSET Quiz]
        /\ listing' \in [Device -> BOOLEAN]
        /\ alert' \in [Device -> Alerts]
        /\ tapped' \in [Device -> Quiz \cup {NoQuiz}]
        /\ opened' \in [Device -> Quiz \cup {NoQuiz}]
        /\ sheet' \in [Device -> Sheets]
    BY DEF TapOpenQuiz, CanTap, Touchable, Display, Ask, IInv, TypeOK, Screens,
       Alerts, Sheets, Messages, screenVars
  <1> QED
    BY <1>5, <1>6 DEF TypeOK

LEMMA TapOpenQuizKeeps ==
  ASSUME IInv, NEW d \in Device, NEW quiz \in Quiz, TapOpenQuiz(d, quiz), TypeOK'
  PROVE  Safe(d)'
  <1> DEFINE r == [op |-> "check", quiz |-> quiz]
  <1>1. r \in Requests /\ r.op = "check" /\ r.quiz = quiz /\ requests[d] \in Seq(Requests)
    BY DEF IInv, TypeOK, Requests
  <1>2. requests'[d] = Append(requests[d], r)
    BY DEF TapOpenQuiz, Ask, IInv, TypeOK
  <1>3. d \notin Failing => requests[d] = << >>
    BY DEF TapOpenQuiz, CanTap, Touchable, IInv, Safe, OneTapAtATime
  <1> HIDE DEF r
  <1>4. /\ \A j \in DOMAIN requests'[d] :
             (j \in DOMAIN requests[d] /\ requests'[d][j] = requests[d][j])
             \/ requests'[d][j] = r
        /\ d \notin Failing => Len(requests'[d]) = 1 /\ requests'[d][1] = r
    <2>1. Len(<< >>) = 0
      OBVIOUS
    <2> QED
      BY <1>1, <1>2, <1>3, <2>1, Appending
  <1>5. AskedInTime(d)'
    BY <1>1, <1>4, HuddleAssumption DEF TapOpenQuiz, IInv, TypeOK, Safe, AskedInTime
  <1> QED
    BY <1>1, <1>4, <1>5
    DEF TapOpenQuiz, CanTap, Touchable, Display, Ask, IInv, TypeOK, Safe, ScreenHasQuiz,
        OneTapAtATime,
       NothingStoredYet, Promised, Alerts, Sheets, Messages, HasSubmitted, screenVars

LEMMA TapClosedQuizTypes ==
  ASSUME IInv, NEW d \in Device, NEW quiz \in Quiz, TapClosedQuiz(d, quiz)
  PROVE  TypeOK'
  <1> DEFINE r == [op |-> "resultCheck", quiz |-> quiz]
  <1>1. r \in Requests /\ requests[d] \in Seq(Requests) /\ Len(requests[d]) < MaxRequests
    BY DEF TapClosedQuiz, IInv, TypeOK, Requests
  <1>2. requests' = [requests EXCEPT ![d] = Append(requests[d], r)]
    BY DEF TapClosedQuiz, Ask
  <1> HIDE DEF r
  <1>3. /\ Append(requests[d], r) \in Seq(Requests)
        /\ Len(Append(requests[d], r)) = Len(requests[d]) + 1
    BY <1>1, Appending
  <1>4. Len(requests[d]) + 1 <= MaxRequests
    BY <1>1, HuddleAssumption
  <1>5. /\ requests' \in [Device -> Seq(Requests)]
        /\ \A e \in Device : Len(requests'[e]) <= MaxRequests
    BY <1>1, <1>2, <1>3, <1>4, HuddleAssumption DEF IInv, TypeOK
  <1>6. /\ now' \in 0 .. Horizon
        /\ landed' \in [Quiz -> [Device -> Nat]]
        /\ \A q \in Quiz, e \in Device : landed'[q][e] <= MaxLanded[e]
        /\ screen' \in [Device -> Screens]
        /\ quizzes' \in [Device -> SUBSET Quiz]
        /\ listing' \in [Device -> BOOLEAN]
        /\ alert' \in [Device -> Alerts]
        /\ tapped' \in [Device -> Quiz \cup {NoQuiz}]
        /\ opened' \in [Device -> Quiz \cup {NoQuiz}]
        /\ sheet' \in [Device -> Sheets]
    BY DEF TapClosedQuiz, CanTap, Touchable, Display, Ask, IInv, TypeOK, Screens,
       Alerts, Sheets, Messages, screenVars
  <1> QED
    BY <1>5, <1>6 DEF TypeOK

LEMMA TapClosedQuizKeeps ==
  ASSUME IInv, NEW d \in Device, NEW quiz \in Quiz, TapClosedQuiz(d, quiz), TypeOK'
  PROVE  Safe(d)'
  <1> DEFINE r == [op |-> "resultCheck", quiz |-> quiz]
  <1>1. r \in Requests /\ r.op = "resultCheck" /\ r.quiz = quiz /\ requests[d] \in Seq(Requests)
    BY DEF IInv, TypeOK, Requests
  <1>2. requests'[d] = Append(requests[d], r)
    BY DEF TapClosedQuiz, Ask, IInv, TypeOK
  <1>3. d \notin Failing => requests[d] = << >>
    BY DEF TapClosedQuiz, CanTap, Touchable, IInv, Safe, OneTapAtATime
  <1> HIDE DEF r
  <1>4. /\ \A j \in DOMAIN requests'[d] :
             (j \in DOMAIN requests[d] /\ requests'[d][j] = requests[d][j])
             \/ requests'[d][j] = r
        /\ d \notin Failing => Len(requests'[d]) = 1 /\ requests'[d][1] = r
    <2>1. Len(<< >>) = 0
      OBVIOUS
    <2> QED
      BY <1>1, <1>2, <1>3, <2>1, Appending
  <1>5. AskedInTime(d)'
    BY <1>1, <1>4, HuddleAssumption DEF TapClosedQuiz, IInv, TypeOK, Safe, AskedInTime
  <1> QED
    BY <1>1, <1>4, <1>5
    DEF TapClosedQuiz, CanTap, Touchable, Display, Ask, IInv, TypeOK, Safe, ScreenHasQuiz,
        OneTapAtATime,
       NothingStoredYet, Promised, Alerts, Sheets, Messages, HasSubmitted, screenVars

LEMMA TapEarlyTypes ==
  ASSUME IInv, NEW d \in Device, NEW quiz \in Quiz, TapEarly(d, quiz)
  PROVE  TypeOK'
  BY HuddleAssumption
  DEF TapEarly, CanTap, Touchable, Display, IInv, Safe, ScreenHasQuiz, TypeOK, Screens,
      Alerts, Sheets,
      Messages, Requests, screenVars, flowVars

LEMMA TapEarlyKeeps ==
  ASSUME IInv, NEW d \in Device, NEW quiz \in Quiz, TapEarly(d, quiz), TypeOK'
  PROVE  Safe(d)'
  BY HuddleAssumption
  DEF TapEarly, CanTap, Touchable, Display, IInv, TypeOK, Safe, ScreenHasQuiz, AskedInTime,
      OneTapAtATime,
      NothingStoredYet, Promised, Alerts, Sheets, Messages, Requests, HasSubmitted,
      screenVars, flowVars

LEMMA CheckAnsweredTypes ==
  ASSUME IInv, NEW d \in Device, NEW i \in DOMAIN requests[d], CheckAnswered(d, i)
  PROVE  TypeOK'
  <1> DEFINE s == requests'[d]
  <1>1. requests[d] \in Seq(Requests) /\ Len(requests[d]) <= MaxRequests
    BY DEF IInv, TypeOK
  <1>2. requests' = [requests EXCEPT ![d] = RemoveAt(requests[d], i)]
        \/ requests' = [requests EXCEPT ![d] = [requests[d] EXCEPT ![i].op = "questions"]]
    BY DEF CheckAnswered
  <1>3. requests' = [requests EXCEPT ![d] = s] /\ s \in Seq(Requests) /\ Len(s) <= Len(requests[d])
    <2>1. CASE requests' = [requests EXCEPT ![d] = RemoveAt(requests[d], i)]
      BY <1>1, <2>1, Removing DEF IInv, TypeOK
    <2>2. CASE requests' = [requests EXCEPT ![d] = [requests[d] EXCEPT ![i].op = "questions"]]
      BY <1>1, <2>2, Turning DEF IInv, TypeOK
    <2> QED
      BY <1>2, <2>1, <2>2
  <1> HIDE DEF s
  <1>4. /\ requests' \in [Device -> Seq(Requests)]
        /\ \A e \in Device : Len(requests'[e]) <= MaxRequests
    BY <1>1, <1>2, <1>3, HuddleAssumption DEF IInv, TypeOK
  <1>5. /\ now' \in 0 .. Horizon
        /\ landed' \in [Quiz -> [Device -> Nat]]
        /\ \A q \in Quiz, e \in Device : landed'[q][e] <= MaxLanded[e]
        /\ screen' \in [Device -> Screens]
        /\ quizzes' \in [Device -> SUBSET Quiz]
        /\ listing' \in [Device -> BOOLEAN]
        /\ alert' \in [Device -> Alerts]
        /\ tapped' \in [Device -> Quiz \cup {NoQuiz}]
        /\ opened' \in [Device -> Quiz \cup {NoQuiz}]
        /\ sheet' \in [Device -> Sheets]
    BY RequestTypes DEF CheckAnswered, PresentOverAlert, Touchable, IInv, TypeOK, Screens,
       Alerts, Sheets, Messages, screenVars
  <1> QED
    BY <1>4, <1>5 DEF TypeOK

LEMMA CheckAnsweredKeeps ==
  ASSUME IInv, NEW d \in Device, NEW i \in DOMAIN requests[d], CheckAnswered(d, i), TypeOK'
  PROVE  Safe(d)'
  <1>1. /\ requests[d] \in Seq(Requests) /\ requests[d] # << >>
        /\ requests[d][i].quiz \in Quiz
        /\ d \notin Failing => i = 1 /\ Len(requests[d]) = 1
    BY RequestTypes DEF IInv, Safe, OneTapAtATime
  <1>2. CASE HasSubmitted(requests[d][i].quiz)
    <2>1. requests'[d] = RemoveAt(requests[d], i)
      BY <1>2 DEF CheckAnswered, IInv, TypeOK
    <2>2. /\ \A j \in DOMAIN requests'[d] : \E k \in DOMAIN requests[d] :
               requests'[d][j] = requests[d][k]
          /\ d \notin Failing => requests'[d] = << >>
      BY <1>1, <2>1, Removing
    <2>3. AskedInTime(d)'
      BY <1>1, <2>2 DEF CheckAnswered, IInv, Safe, AskedInTime
    <2>5. UNCHANGED <<now, landed, tapped>> /\ now \in 0 .. Horizon
      BY DEF CheckAnswered, IInv, TypeOK
    <2>6. CASE UNCHANGED screenVars /\ (Touchable(d, "huddle") \/ screen[d] # "huddle")
      BY <1>1, <1>2, <2>2, <2>3, <2>5, <2>6
      DEF Touchable, IInv, TypeOK, Safe, ScreenHasQuiz, OneTapAtATime, NothingStoredYet,
          Promised, HasSubmitted, screenVars
    <2>7. CASE /\ screen'[d] = "result" /\ opened'[d] = requests[d][i].quiz
              /\ sheet'[d] = "open" /\ alert'[d] = "none"
      <3>1. ScreenHasQuiz(d)' /\ OneTapAtATime(d)' /\ NothingStoredYet(d)'
        BY <1>1, <1>2, <2>2, <2>3, <2>5, <2>7
        DEF IInv, Safe, ScreenHasQuiz, OneTapAtATime, NothingStoredYet
      <3>2. Promised(d)'
        BY <1>1, <1>2, <2>2, <2>3, <2>5, <2>7
        DEF CheckAnswered, IInv, Safe, AskedInTime, OneTapAtATime, Promised, HasSubmitted
      <3> QED
        BY <1>1, <1>2, <2>2, <2>3, <3>1, <3>2 DEF Safe
    <2> QED
      BY <1>2, <2>6, <2>7 DEF CheckAnswered, PresentOverAlert, IInv, TypeOK, screenVars
  <1>3. CASE ~ HasSubmitted(requests[d][i].quiz)
    <2>1. requests'[d] = [requests[d] EXCEPT ![i].op = "questions"]
      BY <1>3 DEF CheckAnswered, IInv, TypeOK
    <2>2. /\ \A j \in DOMAIN requests'[d] :
               /\ j \in DOMAIN requests[d] /\ requests'[d][j].quiz = requests[d][j].quiz
               /\ requests'[d][j].op = requests[d][j].op \/ j = i
          /\ Len(requests'[d]) = Len(requests[d])
          /\ i \in DOMAIN requests'[d] /\ requests'[d][i].op = "questions"
      BY <1>1, <2>1, Turning
    <2>3. AskedInTime(d)'
      BY <1>1, <2>2, HuddleAssumption DEF CheckAnswered, IInv, TypeOK, Safe, AskedInTime
    <2>4. landed[requests[d][i].quiz][d] = 0
      BY <1>1, <1>3 DEF HasSubmitted, IInv, TypeOK
    <2> QED
      BY <1>1, <1>3, <2>2, <2>3, <2>4
      DEF CheckAnswered, PresentOverAlert, Touchable, IInv, TypeOK, Safe, ScreenHasQuiz,
          OneTapAtATime,
         NothingStoredYet, Promised, Alerts, Sheets, Messages, HasSubmitted, screenVars
  <1> QED
    BY <1>2, <1>3

LEMMA CheckFailedTypes ==
  ASSUME IInv, NEW d \in Device, NEW i \in DOMAIN requests[d], CheckFailed(d, i)
  PROVE  TypeOK'
  <1> DEFINE t == [requests[d] EXCEPT ![i].op = "questions"]
  <1>1. requests[d] \in Seq(Requests) /\ Len(requests[d]) <= MaxRequests
    BY DEF IInv, TypeOK
  <1>2. requests' = [requests EXCEPT ![d] = t]
    BY DEF CheckFailed
  <1>3. t \in Seq(Requests) /\ Len(t) = Len(requests[d])
    BY <1>1, Turning
  <1> HIDE DEF t
  <1>4. /\ requests' \in [Device -> Seq(Requests)]
        /\ \A e \in Device : Len(requests'[e]) <= MaxRequests
    BY <1>1, <1>2, <1>3, HuddleAssumption DEF IInv, TypeOK
  <1>5. /\ now' \in 0 .. Horizon
        /\ landed' \in [Quiz -> [Device -> Nat]]
        /\ \A q \in Quiz, e \in Device : landed'[q][e] <= MaxLanded[e]
        /\ screen' \in [Device -> Screens]
        /\ quizzes' \in [Device -> SUBSET Quiz]
        /\ listing' \in [Device -> BOOLEAN]
        /\ alert' \in [Device -> Alerts]
        /\ tapped' \in [Device -> Quiz \cup {NoQuiz}]
        /\ opened' \in [Device -> Quiz \cup {NoQuiz}]
        /\ sheet' \in [Device -> Sheets]
    BY RequestTypes DEF CheckFailed, Display, IInv, TypeOK, Screens,
       Alerts, Sheets, Messages, screenVars
  <1> QED
    BY <1>4, <1>5 DEF TypeOK

LEMMA CheckFailedKeeps ==
  ASSUME IInv, NEW d \in Device, NEW i \in DOMAIN requests[d], CheckFailed(d, i), TypeOK'
  PROVE  Safe(d)'
  <1>1. /\ requests[d] \in Seq(Requests) /\ requests[d] # << >>
        /\ requests[d][i].quiz \in Quiz
        /\ d \notin Failing => i = 1 /\ Len(requests[d]) = 1
    BY RequestTypes DEF IInv, Safe, OneTapAtATime
  <1>2. requests'[d] = [requests[d] EXCEPT ![i].op = "questions"]
    BY DEF CheckFailed, IInv, TypeOK
  <1>3. /\ \A j \in DOMAIN requests'[d] :
             /\ j \in DOMAIN requests[d] /\ requests'[d][j].quiz = requests[d][j].quiz
             /\ requests'[d][j].op = requests[d][j].op \/ j = i
        /\ Len(requests'[d]) = Len(requests[d])
        /\ i \in DOMAIN requests'[d] /\ requests'[d][i].op = "questions"
    BY <1>1, <1>2, Turning
  <1>4. AskedInTime(d)'
    BY <1>1, <1>3, HuddleAssumption DEF CheckFailed, IInv, TypeOK, Safe, AskedInTime
  <1> QED
    BY <1>1, <1>3, <1>4
    DEF CheckFailed, Display, IInv, TypeOK, Safe, ScreenHasQuiz, OneTapAtATime,
       NothingStoredYet, Promised, Alerts, Sheets, Messages, HasSubmitted, screenVars

LEMMA QuestionsFetchedTypes ==
  ASSUME IInv, NEW d \in Device, NEW i \in DOMAIN requests[d], QuestionsFetched(d, i)
  PROVE  TypeOK'
  <1>1. requests[d] \in Seq(Requests) /\ Len(requests[d]) <= MaxRequests
    BY DEF IInv, TypeOK
  <1>2. requests' = [requests EXCEPT ![d] = RemoveAt(requests[d], i)]
    BY DEF QuestionsFetched
  <1>3. RemoveAt(requests[d], i) \in Seq(Requests)
        /\ Len(RemoveAt(requests[d], i)) = Len(requests[d]) - 1
    BY <1>1, Removing
  <1>4. /\ requests' \in [Device -> Seq(Requests)]
        /\ \A e \in Device : Len(requests'[e]) <= MaxRequests
    BY <1>1, <1>2, <1>3, HuddleAssumption DEF IInv, TypeOK
  <1>5. /\ now' \in 0 .. Horizon
        /\ landed' \in [Quiz -> [Device -> Nat]]
        /\ \A q \in Quiz, e \in Device : landed'[q][e] <= MaxLanded[e]
        /\ screen' \in [Device -> Screens]
        /\ quizzes' \in [Device -> SUBSET Quiz]
        /\ listing' \in [Device -> BOOLEAN]
        /\ alert' \in [Device -> Alerts]
        /\ tapped' \in [Device -> Quiz \cup {NoQuiz}]
        /\ opened' \in [Device -> Quiz \cup {NoQuiz}]
        /\ sheet' \in [Device -> Sheets]
    BY RequestTypes DEF QuestionsFetched, PresentOverAlert, Touchable, IInv, TypeOK,
       Screens,
       Alerts, Sheets, Messages, screenVars
  <1> QED
    BY <1>4, <1>5 DEF TypeOK

LEMMA QuestionsFetchedKeeps ==
  ASSUME IInv, NEW d \in Device, NEW i \in DOMAIN requests[d], QuestionsFetched(d, i),
  TypeOK'
  PROVE  Safe(d)'
  <1>1. /\ requests[d] \in Seq(Requests) /\ requests[d] # << >>
        /\ requests[d][i].quiz \in Quiz
        /\ d \notin Failing => i = 1 /\ Len(requests[d]) = 1
    BY RequestTypes DEF IInv, Safe, OneTapAtATime
  <1>2. requests'[d] = RemoveAt(requests[d], i)
    BY DEF QuestionsFetched, IInv, TypeOK
  <1>3. /\ \A j \in DOMAIN requests'[d] : \E k \in DOMAIN requests[d] :
             requests'[d][j] = requests[d][k]
        /\ d \notin Failing => requests'[d] = << >>
    BY <1>1, <1>2, Removing
  <1>4. AskedInTime(d)'
    BY <1>1, <1>3 DEF QuestionsFetched, IInv, Safe, AskedInTime
  <1>5. UNCHANGED <<now, landed, tapped>> /\ now \in 0 .. Horizon
    BY DEF QuestionsFetched, IInv, TypeOK
  <1>6. CASE UNCHANGED screenVars /\ (Touchable(d, "huddle") \/ screen[d] # "huddle")
    BY <1>1, <1>3, <1>4, <1>5, <1>6
    DEF Touchable, IInv, TypeOK, Safe, ScreenHasQuiz, OneTapAtATime, NothingStoredYet,
        Promised, HasSubmitted, screenVars
  <1>7. CASE /\ screen'[d] = "quiz" /\ opened'[d] = requests[d][i].quiz
            /\ sheet'[d] = "open" /\ alert'[d] = "none"
    <2>1. ScreenHasQuiz(d)' /\ OneTapAtATime(d)' /\ NothingStoredYet(d)'
      BY <1>1, <1>3, <1>4, <1>5, <1>7
      DEF QuestionsFetched, IInv, Safe, ScreenHasQuiz, OneTapAtATime, NothingStoredYet
    <2>2. Promised(d)'
      BY <1>1, <1>3, <1>4, <1>5, <1>7
      DEF QuestionsFetched, IInv, Safe, AskedInTime, OneTapAtATime, Promised, HasSubmitted
    <2> QED
      BY <1>1, <1>3, <1>4, <2>1, <2>2 DEF Safe
  <1> QED
    BY <1>6, <1>7 DEF QuestionsFetched, PresentOverAlert, IInv, TypeOK, screenVars

LEMMA QuestionsFailedTypes ==
  ASSUME IInv, NEW d \in Device, NEW i \in DOMAIN requests[d], QuestionsFailed(d, i)
  PROVE  TypeOK'
  <1>1. requests[d] \in Seq(Requests) /\ Len(requests[d]) <= MaxRequests
    BY DEF IInv, TypeOK
  <1>2. requests' = [requests EXCEPT ![d] = RemoveAt(requests[d], i)]
    BY DEF QuestionsFailed
  <1>3. RemoveAt(requests[d], i) \in Seq(Requests)
        /\ Len(RemoveAt(requests[d], i)) = Len(requests[d]) - 1
    BY <1>1, Removing
  <1>4. /\ requests' \in [Device -> Seq(Requests)]
        /\ \A e \in Device : Len(requests'[e]) <= MaxRequests
    BY <1>1, <1>2, <1>3, HuddleAssumption DEF IInv, TypeOK
  <1>5. /\ now' \in 0 .. Horizon
        /\ landed' \in [Quiz -> [Device -> Nat]]
        /\ \A q \in Quiz, e \in Device : landed'[q][e] <= MaxLanded[e]
        /\ screen' \in [Device -> Screens]
        /\ quizzes' \in [Device -> SUBSET Quiz]
        /\ listing' \in [Device -> BOOLEAN]
        /\ alert' \in [Device -> Alerts]
        /\ tapped' \in [Device -> Quiz \cup {NoQuiz}]
        /\ opened' \in [Device -> Quiz \cup {NoQuiz}]
        /\ sheet' \in [Device -> Sheets]
    BY RequestTypes DEF QuestionsFailed, Display, IInv, TypeOK, Screens,
       Alerts, Sheets, Messages, screenVars
  <1> QED
    BY <1>4, <1>5 DEF TypeOK

LEMMA QuestionsFailedKeeps ==
  ASSUME IInv, NEW d \in Device, NEW i \in DOMAIN requests[d], QuestionsFailed(d, i),
  TypeOK'
  PROVE  Safe(d)'
  <1>1. /\ requests[d] \in Seq(Requests) /\ requests[d] # << >>
        /\ requests[d][i].quiz \in Quiz
        /\ d \notin Failing => i = 1 /\ Len(requests[d]) = 1
    BY RequestTypes DEF IInv, Safe, OneTapAtATime
  <1>2. requests'[d] = RemoveAt(requests[d], i)
    BY DEF QuestionsFailed, IInv, TypeOK
  <1>3. /\ \A j \in DOMAIN requests'[d] : \E k \in DOMAIN requests[d] :
             requests'[d][j] = requests[d][k]
        /\ d \notin Failing => requests'[d] = << >>
    BY <1>1, <1>2, Removing
  <1>4. AskedInTime(d)'
    BY <1>1, <1>3 DEF QuestionsFailed, IInv, Safe, AskedInTime
  <1> QED
    BY <1>1, <1>3, <1>4
    DEF QuestionsFailed, Display, IInv, TypeOK, Safe, ScreenHasQuiz, OneTapAtATime,
       NothingStoredYet, Promised, Alerts, Sheets, Messages, HasSubmitted, screenVars,
       AskedInTime

LEMMA ResultCheckAnsweredTypes ==
  ASSUME IInv, NEW d \in Device, NEW i \in DOMAIN requests[d], ResultCheckAnswered(d, i)
  PROVE  TypeOK'
  <1>1. requests[d] \in Seq(Requests) /\ Len(requests[d]) <= MaxRequests
    BY DEF IInv, TypeOK
  <1>2. requests' = [requests EXCEPT ![d] = RemoveAt(requests[d], i)]
    BY DEF ResultCheckAnswered
  <1>3. RemoveAt(requests[d], i) \in Seq(Requests)
        /\ Len(RemoveAt(requests[d], i)) = Len(requests[d]) - 1
    BY <1>1, Removing
  <1>4. /\ requests' \in [Device -> Seq(Requests)]
        /\ \A e \in Device : Len(requests'[e]) <= MaxRequests
    BY <1>1, <1>2, <1>3, HuddleAssumption DEF IInv, TypeOK
  <1>5. /\ now' \in 0 .. Horizon
        /\ landed' \in [Quiz -> [Device -> Nat]]
        /\ \A q \in Quiz, e \in Device : landed'[q][e] <= MaxLanded[e]
        /\ screen' \in [Device -> Screens]
        /\ quizzes' \in [Device -> SUBSET Quiz]
        /\ listing' \in [Device -> BOOLEAN]
        /\ alert' \in [Device -> Alerts]
        /\ tapped' \in [Device -> Quiz \cup {NoQuiz}]
        /\ opened' \in [Device -> Quiz \cup {NoQuiz}]
        /\ sheet' \in [Device -> Sheets]
    <2>1. requests[d][i].quiz \in Quiz
      BY RequestTypes DEF IInv
    <2>2. CASE HasSubmitted(requests[d][i].quiz)
      BY <2>1, <2>2 DEF ResultCheckAnswered, PresentOverAlert, Touchable, Display, IInv,
         TypeOK, Screens,
       Alerts, Sheets, Messages, screenVars
    <2>3. CASE ~ HasSubmitted(requests[d][i].quiz)
      <3>1. Display(d, "missedIt") /\ UNCHANGED <<now, landed, screen, quizzes, listing,
                                                  tapped, opened, sheet>>
        BY <2>3 DEF ResultCheckAnswered
      <3>2. alert' \in [Device -> Alerts]
        BY <3>1 DEF Display, IInv, TypeOK, Alerts, Messages
      <3> QED
        BY <3>1, <3>2 DEF IInv, TypeOK
    <2> QED
      BY <2>2, <2>3
  <1> QED
    BY <1>4, <1>5 DEF TypeOK

LEMMA ResultCheckAnsweredKeeps ==
  ASSUME IInv, NEW d \in Device, NEW i \in DOMAIN requests[d], ResultCheckAnswered(d, i),
  TypeOK'
  PROVE  Safe(d)'
  <1>1. /\ requests[d] \in Seq(Requests) /\ requests[d] # << >>
        /\ requests[d][i].quiz \in Quiz
        /\ d \notin Failing => i = 1 /\ Len(requests[d]) = 1
    BY RequestTypes DEF IInv, Safe, OneTapAtATime
  <1>2. requests'[d] = RemoveAt(requests[d], i)
    BY DEF ResultCheckAnswered, IInv, TypeOK
  <1>3. /\ \A j \in DOMAIN requests'[d] : \E k \in DOMAIN requests[d] :
             requests'[d][j] = requests[d][k]
        /\ d \notin Failing => requests'[d] = << >>
    BY <1>1, <1>2, Removing
  <1>4. AskedInTime(d)'
    BY <1>1, <1>3 DEF ResultCheckAnswered, IInv, Safe, AskedInTime
  <1> QED
    BY <1>1, <1>3, <1>4
    DEF ResultCheckAnswered, PresentOverAlert, Touchable, Display, IInv, TypeOK, Safe,
        ScreenHasQuiz, OneTapAtATime,
       NothingStoredYet, Promised, Alerts, Sheets, Messages, HasSubmitted, screenVars,
       AskedInTime

LEMMA ResultCheckFailedTypes ==
  ASSUME IInv, NEW d \in Device, NEW i \in DOMAIN requests[d], ResultCheckFailed(d, i)
  PROVE  TypeOK'
  <1>1. requests[d] \in Seq(Requests) /\ Len(requests[d]) <= MaxRequests
    BY DEF IInv, TypeOK
  <1>2. requests' = [requests EXCEPT ![d] = RemoveAt(requests[d], i)]
    BY DEF ResultCheckFailed
  <1>3. RemoveAt(requests[d], i) \in Seq(Requests)
        /\ Len(RemoveAt(requests[d], i)) = Len(requests[d]) - 1
    BY <1>1, Removing
  <1>4. /\ requests' \in [Device -> Seq(Requests)]
        /\ \A e \in Device : Len(requests'[e]) <= MaxRequests
    BY <1>1, <1>2, <1>3, HuddleAssumption DEF IInv, TypeOK
  <1>5. /\ now' \in 0 .. Horizon
        /\ landed' \in [Quiz -> [Device -> Nat]]
        /\ \A q \in Quiz, e \in Device : landed'[q][e] <= MaxLanded[e]
        /\ screen' \in [Device -> Screens]
        /\ quizzes' \in [Device -> SUBSET Quiz]
        /\ listing' \in [Device -> BOOLEAN]
        /\ alert' \in [Device -> Alerts]
        /\ tapped' \in [Device -> Quiz \cup {NoQuiz}]
        /\ opened' \in [Device -> Quiz \cup {NoQuiz}]
        /\ sheet' \in [Device -> Sheets]
    BY RequestTypes DEF ResultCheckFailed, Display, IInv, TypeOK, Screens,
       Alerts, Sheets, Messages, screenVars
  <1> QED
    BY <1>4, <1>5 DEF TypeOK

LEMMA ResultCheckFailedKeeps ==
  ASSUME IInv, NEW d \in Device, NEW i \in DOMAIN requests[d], ResultCheckFailed(d, i),
  TypeOK'
  PROVE  Safe(d)'
  <1>1. /\ requests[d] \in Seq(Requests) /\ requests[d] # << >>
        /\ requests[d][i].quiz \in Quiz
        /\ d \notin Failing => i = 1 /\ Len(requests[d]) = 1
    BY RequestTypes DEF IInv, Safe, OneTapAtATime
  <1>2. requests'[d] = RemoveAt(requests[d], i)
    BY DEF ResultCheckFailed, IInv, TypeOK
  <1>3. /\ \A j \in DOMAIN requests'[d] : \E k \in DOMAIN requests[d] :
             requests'[d][j] = requests[d][k]
        /\ d \notin Failing => requests'[d] = << >>
    BY <1>1, <1>2, Removing
  <1>4. AskedInTime(d)'
    BY <1>1, <1>3 DEF ResultCheckFailed, IInv, Safe, AskedInTime
  <1> QED
    BY <1>1, <1>3, <1>4
    DEF ResultCheckFailed, Display, IInv, TypeOK, Safe, ScreenHasQuiz, OneTapAtATime,
       NothingStoredYet, Promised, Alerts, Sheets, Messages, HasSubmitted, screenVars,
       AskedInTime

LEMMA DismissMessageTypes ==
  ASSUME IInv, NEW d \in Device, DismissMessage(d)
  PROVE  TypeOK'
  BY HuddleAssumption
  DEF DismissMessage, IInv, Safe, ScreenHasQuiz, TypeOK, Screens, Alerts, Sheets,
      Messages, Requests, screenVars, flowVars

LEMMA DismissMessageKeeps ==
  ASSUME IInv, NEW d \in Device, DismissMessage(d), TypeOK'
  PROVE  Safe(d)'
  BY HuddleAssumption
  DEF DismissMessage, IInv, TypeOK, Safe, ScreenHasQuiz, AskedInTime, OneTapAtATime,
      NothingStoredYet, Promised, Alerts, Sheets, Messages, Requests, HasSubmitted,
      screenVars, flowVars

LEMMA HandInTypes ==
  ASSUME IInv, NEW d \in Device, HandIn(d)
  PROVE  TypeOK'
  BY HuddleAssumption
  DEF HandIn, Touchable, IInv, Safe, ScreenHasQuiz, TypeOK, Screens, Alerts, Sheets,
      Messages, Requests, screenVars, flowVars

LEMMA HandInKeeps ==
  ASSUME IInv, NEW d \in Device, HandIn(d), TypeOK'
  PROVE  Safe(d)'
  BY HuddleAssumption
  DEF HandIn, Touchable, IInv, TypeOK, Safe, ScreenHasQuiz, AskedInTime, OneTapAtATime,
      NothingStoredYet, Promised, Alerts, Sheets, Messages, Requests, HasSubmitted,
      screenVars, flowVars

LEMMA CommitAckedTypes ==
  ASSUME IInv, NEW d \in Device, CommitAcked(d)
  PROVE  TypeOK'
  <1>1. opened[d] \in Quiz /\ landed[opened[d]][d] < MaxLanded[d]
    BY DEF CommitAcked, IInv, Safe, ScreenHasQuiz
  <1>2. landed' = [landed EXCEPT ![opened[d]][d] = @ + 1]
    BY DEF CommitAcked
  <1>3. landed \in [Quiz -> [Device -> Nat]] /\ MaxLanded[d] \in Nat
    BY HuddleAssumption DEF IInv, TypeOK
  <1>4. landed[opened[d]][d] + 1 \in Nat /\ landed[opened[d]][d] + 1 <= MaxLanded[d]
    BY <1>1, <1>3
  <1>5. landed' \in [Quiz -> [Device -> Nat]]
    BY <1>1, <1>2, <1>3, <1>4
  <1>6. \A q \in Quiz, e \in Device : landed'[q][e] <= MaxLanded[e]
    BY <1>1, <1>2, <1>3, <1>4 DEF IInv, TypeOK
  <1> QED
    BY <1>5, <1>6 DEF CommitAcked, IInv, TypeOK, Screens, Alerts, Sheets, flowVars

LEMMA CommitAckedKeeps ==
  ASSUME IInv, NEW d \in Device, CommitAcked(d), TypeOK'
  PROVE  Safe(d)'
  BY HuddleAssumption
  DEF CommitAcked, IInv, TypeOK, Safe, ScreenHasQuiz, AskedInTime, OneTapAtATime,
      NothingStoredYet, Promised, Alerts, Sheets, Messages, Requests, HasSubmitted,
      screenVars, flowVars

LEMMA CommitRejectedTypes ==
  ASSUME IInv, NEW d \in Device, CommitRejected(d)
  PROVE  TypeOK'
  BY HuddleAssumption
  DEF CommitRejected, IInv, Safe, ScreenHasQuiz, TypeOK, Screens, Alerts, Sheets,
      Messages, Requests, screenVars, flowVars

LEMMA CommitRejectedKeeps ==
  ASSUME IInv, NEW d \in Device, CommitRejected(d), TypeOK'
  PROVE  Safe(d)'
  BY HuddleAssumption
  DEF CommitRejected, IInv, TypeOK, Safe, ScreenHasQuiz, AskedInTime, OneTapAtATime,
      NothingStoredYet, Promised, Alerts, Sheets, Messages, Requests, HasSubmitted,
      screenVars, flowVars

LEMMA ResubmitTypes ==
  ASSUME IInv, NEW d \in Device, Resubmit(d)
  PROVE  TypeOK'
  BY HuddleAssumption
  DEF Resubmit, Touchable, IInv, Safe, ScreenHasQuiz, TypeOK, Screens, Alerts, Sheets,
      Messages, Requests, screenVars, flowVars

LEMMA ResubmitKeeps ==
  ASSUME IInv, NEW d \in Device, Resubmit(d), TypeOK'
  PROVE  Safe(d)'
  BY HuddleAssumption
  DEF Resubmit, Touchable, IInv, TypeOK, Safe, ScreenHasQuiz, AskedInTime, OneTapAtATime,
      NothingStoredYet, Promised, Alerts, Sheets, Messages, Requests, HasSubmitted,
      screenVars, flowVars

LEMMA CloseScreenTypes ==
  ASSUME IInv, NEW d \in Device, CloseScreen(d)
  PROVE  TypeOK'
  BY HuddleAssumption
  DEF CloseScreen, Appears, ScreenIsGone, Touchable, IInv, Safe, ScreenHasQuiz, TypeOK,
      Screens, Alerts, Sheets,
      Messages, Requests, screenVars, flowVars

LEMMA CloseScreenKeeps ==
  ASSUME IInv, NEW d \in Device, CloseScreen(d), TypeOK'
  PROVE  Safe(d)'
  BY HuddleAssumption
  DEF CloseScreen, Appears, ScreenIsGone, Touchable, IInv, TypeOK, Safe, ScreenHasQuiz,
      AskedInTime, OneTapAtATime,
      NothingStoredYet, Promised, Alerts, Sheets, Messages, Requests, HasSubmitted,
      screenVars, flowVars

LEMMA RelaunchTypes ==
  ASSUME IInv, NEW d \in Device, Relaunch(d)
  PROVE  TypeOK'
  <1>1. requests' = [requests EXCEPT ![d] = << >>]
    BY DEF Relaunch, HuddleIsGone
  <1>2. << >> \in Seq(Requests) /\ Len(<< >>) = 0
    OBVIOUS
  <1>3. Len(<< >>) <= MaxRequests
    BY <1>2, HuddleAssumption
  <1>4. /\ requests' \in [Device -> Seq(Requests)]
        /\ \A e \in Device : Len(requests'[e]) <= MaxRequests
    BY <1>1, <1>2, <1>3, HuddleAssumption DEF IInv, TypeOK
  <1>5. /\ now' \in 0 .. Horizon
        /\ landed' \in [Quiz -> [Device -> Nat]]
        /\ \A q \in Quiz, e \in Device : landed'[q][e] <= MaxLanded[e]
        /\ screen' \in [Device -> Screens]
        /\ quizzes' \in [Device -> SUBSET Quiz]
        /\ listing' \in [Device -> BOOLEAN]
        /\ alert' \in [Device -> Alerts]
        /\ tapped' \in [Device -> Quiz \cup {NoQuiz}]
        /\ opened' \in [Device -> Quiz \cup {NoQuiz}]
        /\ sheet' \in [Device -> Sheets]
    BY DEF Relaunch, HuddleIsGone, ScreenIsGone, IInv, TypeOK, Screens,
       Alerts, Sheets, Messages, screenVars
  <1> QED
    BY <1>4, <1>5 DEF TypeOK

LEMMA RelaunchKeeps ==
  ASSUME IInv, NEW d \in Device, Relaunch(d), TypeOK'
  PROVE  Safe(d)'
  BY HuddleAssumption
  DEF Relaunch, HuddleIsGone, ScreenIsGone, IInv, TypeOK, Safe, ScreenHasQuiz, AskedInTime,
      OneTapAtATime,
      NothingStoredYet, Promised, Alerts, Sheets, Messages, Requests, HasSubmitted,
      screenVars, flowVars

(* Another device is disturbed by nothing: the store only grows, and its own *)
(* counts stay.                                                              *)
Untouched(e) ==
  /\ now' = now
  /\ \A quiz \in Quiz : landed'[quiz][e] = landed[quiz][e]
  /\ \A quiz \in Quiz : HasSubmitted(quiz) => HasSubmitted(quiz)'
  /\ screen'[e] = screen[e] /\ alert'[e] = alert[e] /\ opened'[e] = opened[e]
  /\ sheet'[e] = sheet[e] /\ requests'[e] = requests[e] /\ tapped'[e] = tapped[e]

LEMMA UntouchedKeeps ==
  ASSUME TypeOK, NEW e \in Device, Safe(e), Untouched(e)
  PROVE  Safe(e)'
  <1>1. \A i \in DOMAIN requests[e] : requests[e][i].quiz \in Quiz
    BY RequestTypes
  <1>2. ScreenHasQuiz(e)'
    BY DEF Safe, ScreenHasQuiz, Untouched
  <1>3. AskedInTime(e)' /\ OneTapAtATime(e)'
    BY DEF Safe, AskedInTime, OneTapAtATime, Untouched
  <1>4. NothingStoredYet(e)'
    <2>1. requests[e] # << >> => 1 \in DOMAIN requests[e]
      <3>1. requests[e] \in Seq(Requests)
        BY DEF TypeOK
      <3> QED
        BY <3>1
    <2> QED
      BY <1>1, <2>1 DEF Safe, ScreenHasQuiz, NothingStoredYet, Untouched
  <1>5. Promised(e)'
    BY DEF Safe, ScreenHasQuiz, Promised, Untouched
  <1> QED
    BY <1>2, <1>3, <1>4, <1>5 DEF Safe

LEMMA ClockKeeps ==
  ASSUME IInv, ClockTicks
  PROVE  IInv'
  <1>1. TypeOK'
    BY HuddleAssumption DEF ClockTicks, IInv, TypeOK, flowVars, screenVars
  <1>2. ASSUME NEW d \in Device
        PROVE  Safe(d)'
    <2>1. \A i \in DOMAIN requests[d] : requests[d][i].quiz \in Quiz
      BY RequestTypes DEF IInv
    <2>2. \A quiz \in Quiz : LaunchTime[quiz] <= now => LaunchTime[quiz] <= now'
      BY HuddleAssumption DEF ClockTicks, IInv, TypeOK
    <2>3. AskedInTime(d)'
      BY <2>1, <2>2 DEF ClockTicks, IInv, Safe, AskedInTime, flowVars
    <2>4. ScreenHasQuiz(d)' /\ OneTapAtATime(d)' /\ NothingStoredYet(d)'
      BY DEF ClockTicks, IInv, Safe, ScreenHasQuiz, OneTapAtATime, NothingStoredYet,
             flowVars, screenVars
    <2>5. Promised(d)'
      BY <2>2 DEF ClockTicks, IInv, Safe, ScreenHasQuiz, Promised, HasSubmitted, flowVars,
                  screenVars
    <2> QED
      BY <2>3, <2>4, <2>5 DEF Safe
  <1> QED
    BY <1>1, <1>2 DEF IInv

(* A step of one device: the types, the device itself, and the others. *)
DeviceStep(d) ==
  \/ EnterHuddle(d)
  \/ FetchEnds(d)
  \/ LeaveHuddle(d)
  \/ \E quiz \in Quiz : Tap(d, quiz)
  \/ \E i \in DOMAIN requests[d] : Respond(d, i)
  \/ DismissMessage(d)
  \/ HandIn(d)
  \/ CommitAcked(d)
  \/ CommitRejected(d)
  \/ Resubmit(d)
  \/ CloseScreen(d)
  \/ Relaunch(d)

LEMMA DeviceStepKeeps ==
  ASSUME IInv, NEW d \in Device, DeviceStep(d)
  PROVE  TypeOK' /\ Safe(d)'
  <1>1. CASE EnterHuddle(d)
    BY <1>1, EnterHuddleTypes, EnterHuddleKeeps
  <1>2. CASE \E list \in SUBSET Quiz : QuizzesFetched(d, list)
    BY <1>2, QuizzesFetchedTypes, QuizzesFetchedKeeps
  <1>3. CASE QuizzesFetchFailed(d)
    BY <1>3, QuizzesFetchFailedTypes, QuizzesFetchFailedKeeps
  <1>4. CASE LeaveHuddle(d)
    BY <1>4, LeaveHuddleTypes, LeaveHuddleKeeps
  <1>5. CASE \E quiz \in Quiz : TapOpenQuiz(d, quiz)
    BY <1>5, TapOpenQuizTypes, TapOpenQuizKeeps
  <1>6. CASE \E quiz \in Quiz : TapClosedQuiz(d, quiz)
    BY <1>6, TapClosedQuizTypes, TapClosedQuizKeeps
  <1>7. CASE \E quiz \in Quiz : TapEarly(d, quiz)
    BY <1>7, TapEarlyTypes, TapEarlyKeeps
  <1>8. CASE \E i \in DOMAIN requests[d] : CheckAnswered(d, i)
    BY <1>8, CheckAnsweredTypes, CheckAnsweredKeeps
  <1>9. CASE \E i \in DOMAIN requests[d] : CheckFailed(d, i)
    BY <1>9, CheckFailedTypes, CheckFailedKeeps
  <1>10. CASE \E i \in DOMAIN requests[d] : QuestionsFetched(d, i)
    BY <1>10, QuestionsFetchedTypes, QuestionsFetchedKeeps
  <1>11. CASE \E i \in DOMAIN requests[d] : QuestionsFailed(d, i)
    BY <1>11, QuestionsFailedTypes, QuestionsFailedKeeps
  <1>12. CASE \E i \in DOMAIN requests[d] : ResultCheckAnswered(d, i)
    BY <1>12, ResultCheckAnsweredTypes, ResultCheckAnsweredKeeps
  <1>13. CASE \E i \in DOMAIN requests[d] : ResultCheckFailed(d, i)
    BY <1>13, ResultCheckFailedTypes, ResultCheckFailedKeeps
  <1>14. CASE DismissMessage(d)
    BY <1>14, DismissMessageTypes, DismissMessageKeeps
  <1>15. CASE HandIn(d)
    BY <1>15, HandInTypes, HandInKeeps
  <1>16. CASE CommitAcked(d)
    BY <1>16, CommitAckedTypes, CommitAckedKeeps
  <1>17. CASE CommitRejected(d)
    BY <1>17, CommitRejectedTypes, CommitRejectedKeeps
  <1>18. CASE Resubmit(d)
    BY <1>18, ResubmitTypes, ResubmitKeeps
  <1>19. CASE CloseScreen(d)
    BY <1>19, CloseScreenTypes, CloseScreenKeeps
  <1>20. CASE Relaunch(d)
    BY <1>20, RelaunchTypes, RelaunchKeeps
  <1> QED
    BY <1>1, <1>2, <1>3, <1>4, <1>5, <1>6, <1>7, <1>8, <1>9, <1>10,
       <1>11, <1>12, <1>13, <1>14, <1>15, <1>16, <1>17, <1>18, <1>19, <1>20
    DEF DeviceStep, FetchEnds, Tap, Respond

LEMMA OthersUntouched ==
  ASSUME IInv, NEW d \in Device, DeviceStep(d), NEW e \in Device, e # d
  PROVE  Untouched(e)
  <1>1. CASE CommitAcked(d)
    <2>1. opened[d] \in Quiz /\ landed \in [Quiz -> [Device -> Nat]]
      BY <1>1 DEF CommitAcked, IInv, TypeOK, Safe, ScreenHasQuiz
    <2>2. landed' = [landed EXCEPT ![opened[d]][d] = @ + 1]
      BY <1>1 DEF CommitAcked
    <2>3. \A quiz \in Quiz : landed'[quiz][e] = landed[quiz][e]
      BY <2>1, <2>2
    <2>4. \A quiz \in Quiz, f \in Device : landed'[quiz][f] >= landed[quiz][f]
                                         /\ landed'[quiz][f] \in Nat
      BY <2>1, <2>2
    <2>5. \A quiz \in Quiz : HasSubmitted(quiz) => HasSubmitted(quiz)'
      BY <2>1, <2>4 DEF HasSubmitted
    <2> QED
      BY <1>1, <2>3, <2>5 DEF CommitAcked, IInv, TypeOK, Untouched, flowVars
  <1>2. CASE ~ CommitAcked(d)
    <2>1. now' = now /\ landed' = landed
      BY <1>2 DEF DeviceStep, FetchEnds, Tap, Respond, EnterHuddle, QuizzesFetched,
         QuizzesFetchFailed, LeaveHuddle, TapOpenQuiz, TapClosedQuiz, TapEarly,
         CheckAnswered, CheckFailed, QuestionsFetched, QuestionsFailed,
         ResultCheckAnswered, ResultCheckFailed, DismissMessage, HandIn, CommitAcked,
         CommitRejected, Resubmit, CloseScreen, Relaunch
    <2>2. screen'[e] = screen[e] /\ alert'[e] = alert[e] /\ opened'[e] = opened[e]
      BY <1>2
      DEF DeviceStep, FetchEnds, Tap, Respond, EnterHuddle, QuizzesFetched,
          QuizzesFetchFailed, LeaveHuddle, TapOpenQuiz, TapClosedQuiz, TapEarly,
          CheckAnswered, CheckFailed, QuestionsFetched, QuestionsFailed,
          ResultCheckAnswered, ResultCheckFailed, DismissMessage, HandIn, CommitAcked,
          CommitRejected, Resubmit, CloseScreen, Relaunch, Display, PresentOverAlert,
          Appears,
          HuddleIsGone, ScreenIsGone, screenVars, flowVars, IInv, TypeOK
    <2>3. sheet'[e] = sheet[e] /\ requests'[e] = requests[e] /\ tapped'[e] = tapped[e]
      BY <1>2
      DEF DeviceStep, FetchEnds, Tap, Respond, EnterHuddle, QuizzesFetched,
          QuizzesFetchFailed, LeaveHuddle, TapOpenQuiz, TapClosedQuiz, TapEarly,
          CheckAnswered, CheckFailed, QuestionsFetched, QuestionsFailed,
          ResultCheckAnswered, ResultCheckFailed, DismissMessage, HandIn, CommitAcked,
          CommitRejected, Resubmit, CloseScreen, Relaunch, Display, PresentOverAlert,
          Appears,
          HuddleIsGone, ScreenIsGone, Ask, screenVars, flowVars, IInv, TypeOK
    <2> QED
      BY <2>1, <2>2, <2>3 DEF Untouched, HasSubmitted
  <1> QED
    BY <1>1, <1>2

LEMMA Stuttering ==
  ASSUME IInv, UNCHANGED vars
  PROVE  IInv'
  BY DEF IInv, TypeOK, Safe, ScreenHasQuiz, AskedInTime, OneTapAtATime, NothingStoredYet,
         Promised, HasSubmitted, vars, flowVars, screenVars

(* The conjunction of the parts above is inductive. *)
THEOREM HuddleInvariant == Spec => []IInv
  <1>1. Init => IInv
    BY Initially
  <1>2. ASSUME IInv, [Next]_vars
        PROVE  IInv'
    <2>1. CASE ClockTicks
      BY <1>2, <2>1, ClockKeeps
    <2>2. ASSUME NEW d \in Device, DeviceStep(d)
          PROVE  IInv'
      <3>1. TypeOK' /\ Safe(d)'
        BY <1>2, <2>2, DeviceStepKeeps
      <3>2. \A e \in Device : e # d => Safe(e)'
        BY <1>2, <2>2, OthersUntouched, UntouchedKeeps DEF IInv
      <3> QED
        BY <3>1, <3>2 DEF IInv
    <2>3. CASE UNCHANGED vars
      BY <1>2, <2>3, Stuttering
    <2> QED
      BY <1>2, <2>1, <2>2, <2>3 DEF Next, DeviceStep
  <1> QED
    BY <1>1, <1>2, PTL DEF Spec

(* Every variable of every device keeps its type, under the bounds. *)
THEOREM HuddleTypes == Spec => []TypeOK
  <1>1. IInv => TypeOK
    BY DEF IInv
  <1> QED
    BY <1>1, HuddleInvariant, PTL

(* The result screen is shown only to a fan whose submission is stored. *)
THEOREM ResultsOfStored == Spec => []ResultNeedsSubmission
  <1>1. IInv => ResultNeedsSubmission
    BY DEF IInv, Safe, Promised, ResultNeedsSubmission
  <1> QED
    BY <1>1, HuddleInvariant, PTL

(* No quiz is on screen before its launch time. *)
THEOREM LaunchedInTime == Spec => []NeverBeforeLaunch
  <1>1. IInv => NeverBeforeLaunch
    BY DEF IInv, Safe, Promised, NeverBeforeLaunch
  <1> QED
    BY <1>1, HuddleInvariant, PTL

(* A device whose reads do not fail submits a quiz at most once. *)
THEOREM SubmitsOnce == Spec => []OneSubmissionPerDevice
  <1>1. IInv => OneSubmissionPerDevice
    BY DEF IInv, Safe, Promised, OneSubmissionPerDevice
  <1> QED
    BY <1>1, HuddleInvariant, PTL

(* Where no read fails, the quiz that opens is the one tapped last. *)
THEOREM OpensAsTapped == Spec => []TapOpensItsQuiz
  <1>1. IInv => TapOpensItsQuiz
    BY DEF IInv, Safe, Promised, TapOpensItsQuiz
  <1> QED
    BY <1>1, HuddleInvariant, PTL
=============================================================================
