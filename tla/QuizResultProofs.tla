--------------------------- MODULE QuizResultProofs ---------------------------
(***************************************************************************)
(* Proofs about QuizResult, for any number of fans and devices, sheets of   *)
(* any length and UUIDs in any order: what the screen shows of a sheet that *)
(* was handed in on its device.                                             *)
(***************************************************************************)
EXTENDS QuizResult, QuizScoreProofs

(* What is stored is finite, and the cache holds both parts of it. *)
StoresAreFinite ==
  /\ IsFiniteSet(submissions) /\ IsFiniteSet(selections)
  /\ cache \in [submissions : SUBSET Submission, selections : SUBSET Stored]
  /\ IsFiniteSet(cache.submissions)

(* The viewer's account has selections only of the sheets handed in for it. *)
NothingBeforeItsSheet ==
  OneSheetInAccount /\ handedIn[Viewer] = << >> => selections = {}

(* Only the quiz hands a sheet in, and it is left for good.                 *)
HandedInOnQuizScreen == screen = "quiz" => handedIn[Viewer] = << >>

OwnSheet == OneSheetInAccount /\ handedIn[Viewer] # << >>

(* The submission of the sheet handed in on this device. *)
OwnSubmission == [fan |-> Me, points |-> TotalPoints(handedIn[Viewer])]

(* The server and the cache hold the sheet as it was handed in: one         *)
(* selection for each answer, under a UUID of its own, and one submission.  *)
SheetStored ==
  OwnSheet =>
    /\ \E ids \in [DOMAIN handedIn[Viewer] -> Uuid] :
         IsInjective(ids) /\ selections = WithSelections({}, ids, handedIn[Viewer])
    /\ cache.selections = selections
    /\ \A docs \in {submissions, cache.submissions} :
         {s \in docs : s.fan = Me} = {OwnSubmission}

(* What was fetched is what is stored. *)
ShownAsStored ==
  Loaded("selections") /\ OwnSheet => quizSelections = InOrder(selections)

RankedAsStored ==
  Loaded("submissions") /\ OwnSheet => \A s \in leaders : s.fan = Me => s = OwnSubmission

IInv ==
  /\ TypeOK
  /\ StoresAreFinite
  /\ NothingBeforeItsSheet
  /\ HandedInOnQuizScreen
  /\ SheetStored
  /\ ShownAsStored
  /\ RankedAsStored
  /\ OnBoardUnlessBeaten

-----------------------------------------------------------------------------
(* What the two queries return *)

LEMMA PointsOfSheet ==
  ASSUME NEW sheet \in Seq(QuizSelection)
  PROVE  TotalPoints(sheet) \in Nat
  <1> DEFINE points == [i \in DOMAIN sheet |-> PointsFor(sheet[i])]
  <1>1. points \in Seq(Nat)
    BY PointsAndTimes
  <1>2. TotalPoints(sheet) = Total(points)
    BY DEF TotalPoints
  <1> HIDE DEF points
  <1> QED
    BY <1>1, <1>2, TotalCountsDots

LEMMA SmallerOfTwo ==
  ASSUME NEW m \in Nat, NEW n \in Nat
  PROVE  Min({m, n}) = IF m <= n THEN m ELSE n
  <1>1. \E x \in {m, n} : \A y \in {m, n} : x <= y
    OBVIOUS
  <1>2. Min({m, n}) \in {m, n} /\ \A y \in {m, n} : Min({m, n}) <= y
    BY <1>1 DEF Min
  <1> QED
    BY <1>2

(* Three submissions at most, and all of them or three that nobody beats. *)
LEMMA TopThreeIs ==
  ASSUME NEW docs, IsFiniteSet(docs), NEW top \in TopThree(docs)
  PROVE  /\ top \subseteq docs /\ IsFiniteSet(top)
         /\ Cardinality(top) <= LeaderboardLimit
         /\ \A other \in docs \ top :
              /\ Cardinality(top) = LeaderboardLimit
              /\ \A winner \in top : winner.points >= other.points
  <1>1. /\ top \in SUBSET docs
        /\ Cardinality(top) = Min({LeaderboardLimit, Cardinality(docs)})
        /\ \A winner \in top, other \in docs \ top : winner.points >= other.points
    BY DEF TopThree
  <1>2. Cardinality(docs) \in Nat /\ LeaderboardLimit \in Nat
    BY FS_CardinalityType DEF LeaderboardLimit
  <1>3. Cardinality(top) = IF LeaderboardLimit <= Cardinality(docs)
                           THEN LeaderboardLimit ELSE Cardinality(docs)
    BY <1>1, <1>2, SmallerOfTwo
  <1>4. /\ IsFiniteSet(top)
        /\ Cardinality(docs) = Cardinality(top) => docs = top
    BY <1>1, FS_Subset
  <1>5. \A other \in docs \ top : Cardinality(top) = LeaderboardLimit
    BY <1>2, <1>3, <1>4
  <1>6. Cardinality(top) <= LeaderboardLimit
    BY <1>2, <1>3
  <1> QED
    BY <1>1, <1>4, <1>5, <1>6

(* How many ids there are up to a document's own. *)
Rank(docs, s) == Cardinality({t \in docs : t.id <= s.id})

LEMMA RankIs ==
  ASSUME NEW docs \in SUBSET Stored, IsFiniteSet(docs),
         \A a, b \in docs : a.id = b.id => a = b
  PROVE  /\ \A s \in docs : Rank(docs, s) \in 1 .. Cardinality(docs)
         /\ \A a, b \in docs : Rank(docs, a) = Rank(docs, b) => a = b
         /\ \A i \in 1 .. Cardinality(docs) : \E s \in docs : Rank(docs, s) = i
  <1> DEFINE UpTo(s) == {t \in docs : t.id <= s.id}
             n == Cardinality(docs)
             rank == [s \in docs |-> Rank(docs, s)]
  <1>1. \A s \in docs : s.id \in Nat
    BY ResultAssumption DEF Stored
  <1>2. n \in Nat
    BY FS_CardinalityType
  <1>3. \A s \in docs : IsFiniteSet(UpTo(s)) /\ Cardinality(UpTo(s)) \in 1 .. n
    <2> TAKE s \in docs
    <2>1. UpTo(s) \in SUBSET docs /\ s \in UpTo(s)
      BY <1>1
    <2> HIDE DEF UpTo
    <2>2. IsFiniteSet(UpTo(s)) /\ Cardinality(UpTo(s)) <= n
      BY <2>1, FS_Subset
    <2>3. Cardinality(UpTo(s)) \in Nat /\ Cardinality(UpTo(s)) # 0
      BY <2>1, <2>2, FS_CardinalityType, FS_EmptySet
    <2> QED
      BY <1>2, <2>2, <2>3
  <1>4. \A s \in docs : Rank(docs, s) \in 1 .. n
    BY <1>3 DEF Rank
  <1>5. \A a, b \in docs : Rank(docs, a) = Rank(docs, b) => a.id >= b.id
    <2> SUFFICES ASSUME NEW a \in docs, NEW b \in docs,
                        Rank(docs, a) = Rank(docs, b), ~ (a.id >= b.id)
                 PROVE  FALSE
      OBVIOUS
    <2>1. UpTo(a) \in SUBSET UpTo(b) /\ b \in UpTo(b) /\ b \notin UpTo(a)
      BY <1>1
    <2>2. IsFiniteSet(UpTo(b)) /\ Cardinality(UpTo(b)) = Cardinality(UpTo(a))
      BY <1>3 DEF Rank
    <2> HIDE DEF UpTo
    <2>3. UpTo(b) = UpTo(a)
      BY <2>1, <2>2, FS_Subset
    <2> QED
      BY <2>1, <2>3
  <1>6. \A a, b \in docs : Rank(docs, a) = Rank(docs, b) => a = b
    <2> SUFFICES ASSUME NEW a \in docs, NEW b \in docs, Rank(docs, a) = Rank(docs, b)
                 PROVE  a = b
      OBVIOUS
    <2>1. a.id >= b.id /\ b.id >= a.id /\ a.id \in Nat /\ b.id \in Nat
      BY <1>1, <1>5
    <2>2. a.id = b.id
      BY <2>1
    <2> QED
      BY <2>2
  <1>7. rank \in Surjection(docs, 1 .. n)
    <2>1. rank \in [docs -> 1 .. n] /\ \A a, b \in docs : rank[a] = rank[b] => a = b
      BY <1>4, <1>6
    <2> HIDE DEF rank
    <2>2. rank \in Injection(docs, 1 .. n)
      BY <2>1, Fun_IsInj
    <2>3. IsFiniteSet(1 .. n) /\ Cardinality(1 .. n) = n
      BY <1>2, Numbered
    <2> QED
      BY <2>2, <2>3, FS_Injection
  <1>8. \A i \in 1 .. n : \E s \in docs : rank[s] = i
    <2> HIDE DEF rank
    <2> QED
      BY <1>7 DEF Surjection
  <1> QED
    BY <1>4, <1>6, <1>8

(* Every document comes once, whatever the order of the ids. *)
LEMMA InOrderIs ==
  ASSUME NEW docs \in SUBSET Stored, IsFiniteSet(docs),
         \A a, b \in docs : a.id = b.id => a = b
  PROVE  /\ InOrder(docs) \in Seq(QuizSelection)
         /\ Len(InOrder(docs)) = Cardinality(docs)
         /\ \E q \in Bijection(1 .. Cardinality(docs), docs) :
              \A i \in 1 .. Cardinality(docs) : InOrder(docs)[i] = q[i].selection
  <1> DEFINE n == Cardinality(docs)
             q == [i \in 1 .. n |-> CHOOSE s \in docs : Rank(docs, s) = i]
  <1>1. n \in Nat
    BY FS_CardinalityType
  <1>2. \A i \in 1 .. n : q[i] \in docs /\ Rank(docs, q[i]) = i
    BY RankIs
  <1>3. InOrder(docs) = [i \in 1 .. n |-> q[i].selection]
    BY DEF InOrder, Rank
  <1>4. q \in [1 .. n -> docs]
    BY <1>2
  <1>5. \A i, j \in 1 .. n : q[i] = q[j] => i = j
    BY <1>2
  <1>6. \A s \in docs : \E i \in 1 .. n : q[i] = s
    <2> TAKE s \in docs
    <2>1. Rank(docs, s) \in 1 .. n
      BY RankIs
    <2>2. q[Rank(docs, s)] = s
      BY <1>2, <2>1, RankIs
    <2> QED
      BY <2>1, <2>2
  <1> HIDE DEF q, n
  <1>7. q \in Bijection(1 .. n, docs)
    BY <1>4, <1>5, <1>6, Fun_IsBij
  <1>8. InOrder(docs) \in [1 .. n -> QuizSelection]
    BY <1>2, <1>3 DEF Stored
  <1>9. InOrder(docs) \in Seq(QuizSelection) /\ Len(InOrder(docs)) = n
    BY <1>1, <1>8, SeqDef, LenProperties
  <1> QED
    BY <1>3, <1>7, <1>9 DEF n

(* A sheet comes back with its answers rearranged.                          *)
LEMMA SheetComesBack ==
  ASSUME NEW sheet \in Seq(QuizSelection), NEW ids \in [DOMAIN sheet -> Uuid],
         IsInjective(ids), NEW docs, docs = WithSelections({}, ids, sheet)
  PROVE  /\ InOrder(docs) \in Seq(QuizSelection)
         /\ \E p \in Bijection(1 .. Len(InOrder(docs)), 1 .. Len(sheet)) :
              \A i \in 1 .. Len(InOrder(docs)) : InOrder(docs)[i] = sheet[p[i]]
  <1> DEFINE doc == [i \in 1 .. Len(sheet) |-> [id |-> ids[i], selection |-> sheet[i]]]
  <1>1. /\ Len(sheet) \in Nat /\ DOMAIN sheet = 1 .. Len(sheet)
        /\ \A i \in 1 .. Len(sheet) : sheet[i] \in QuizSelection /\ ids[i] \in Uuid
    OBVIOUS
  <1>2. docs = {doc[i] : i \in 1 .. Len(sheet)}
    BY <1>1 DEF WithSelections
  <1>3. \A i \in 1 .. Len(sheet) :
          doc[i] \in Stored /\ doc[i].id = ids[i] /\ doc[i].selection = sheet[i]
    BY <1>1 DEF Stored
  <1>4. \A i, j \in 1 .. Len(sheet) : ids[i] = ids[j] => i = j
    BY <1>1 DEF IsInjective
  <1> HIDE DEF doc
  <1>5. docs \in SUBSET Stored
    BY <1>2, <1>3
  <1>6. \A a, b \in docs : a.id = b.id => a = b
    BY <1>2, <1>3, <1>4
  <1>7. doc \in Bijection(1 .. Len(sheet), docs)
    <2>1. doc \in [1 .. Len(sheet) -> docs]
      BY <1>2 DEF doc
    <2>2. \A i, j \in 1 .. Len(sheet) : doc[i] = doc[j] => i = j
      BY <1>3, <1>4
    <2>3. \A s \in docs : \E i \in 1 .. Len(sheet) : doc[i] = s
      BY <1>2
    <2> QED
      BY <2>1, <2>2, <2>3, Fun_IsBij
  <1>8. IsFiniteSet(docs)
    <2>1. IsFiniteSet(1 .. Len(sheet))
      BY <1>1, Numbered
    <2>2. ExistsBijection(1 .. Len(sheet), docs)
      BY <1>7 DEF ExistsBijection
    <2> QED
      BY <2>1, <2>2, FS_Bijection
  <1>9. /\ InOrder(docs) \in Seq(QuizSelection)
        /\ Len(InOrder(docs)) = Cardinality(docs)
    BY <1>5, <1>6, <1>8, InOrderIs
  <1>10. PICK q \in Bijection(1 .. Cardinality(docs), docs) :
           \A i \in 1 .. Cardinality(docs) : InOrder(docs)[i] = q[i].selection
    BY <1>5, <1>6, <1>8, InOrderIs
  <1> DEFINE back == Inverse(doc, 1 .. Len(sheet), docs)
             p == [i \in 1 .. Cardinality(docs) |-> back[q[i]]]
  <1>11. back \in Bijection(docs, 1 .. Len(sheet))
    BY <1>7, Fun_BijInverse
  <1>12. \A s \in docs : back[s] \in 1 .. Len(sheet) /\ doc[back[s]] = s
    <2>1. \A i \in 1 .. Len(sheet) : back[doc[i]] = i
      BY <1>7, Fun_BijInverse
    <2> HIDE DEF back
    <2> QED
      BY <1>2, <2>1
  <1> HIDE DEF back
  <1>13. p \in Bijection(1 .. Cardinality(docs), 1 .. Len(sheet))
    BY <1>11, Fun_BijTransitive
  <1>14. \A i \in 1 .. Cardinality(docs) : q[i] \in docs
    BY DEF Bijection, Injection
  <1>15. \A i \in 1 .. Cardinality(docs) : InOrder(docs)[i] = sheet[p[i]]
    <2> TAKE i \in 1 .. Cardinality(docs)
    <2>1. p[i] = back[q[i]] /\ p[i] \in 1 .. Len(sheet) /\ doc[p[i]] = q[i]
      BY <1>12, <1>14
    <2>2. doc[p[i]].selection = sheet[p[i]]
      BY <1>3, <2>1
    <2> QED
      BY <1>10, <2>1, <2>2
  <1> HIDE DEF p
  <1> QED
    BY <1>9, <1>13, <1>15

-----------------------------------------------------------------------------
(* The steps *)

LEMMA Initially == Init => IInv
  <1> SUFFICES ASSUME Init PROVE IInv
    OBVIOUS
  <1>1. IsFiniteSet({}) /\ Cardinality({}) = 0
    BY FS_EmptySet
  <1>2. << >> \in Seq(QuizSelection)
    OBVIOUS
  <1>3. TypeOK
    <2>1. Cardinality(leaders) <= LeaderboardLimit
      BY <1>1 DEF Init, LeaderboardLimit
    <2> QED
      BY <1>2, <2>1 DEF Init, TypeOK
  <1>4. StoresAreFinite /\ NothingBeforeItsSheet
    BY <1>1 DEF Init, StoresAreFinite, NothingBeforeItsSheet
  <1>5. Viewer \in Device /\ handedIn[Viewer] = << >>
    BY ResultAssumption DEF Init
  <1> QED
    BY <1>3, <1>4, <1>5 DEF Init, IInv, HandedInOnQuizScreen, OwnSheet, SheetStored,
       ShownAsStored, RankedAsStored, OnBoardUnlessBeaten

(* A step that leaves the sheets and both stores alone. *)
LEMMA StoresUntouched ==
  ASSUME IInv, UNCHANGED <<storeVars, cache>>, screen' = "quiz" => screen = "quiz"
  PROVE  /\ StoresAreFinite' /\ NothingBeforeItsSheet' /\ HandedInOnQuizScreen'
         /\ SheetStored'
         /\ OwnSheet' = OwnSheet
         /\ OwnSheet => OwnSubmission' = OwnSubmission
  BY DEF IInv, storeVars, StoresAreFinite, NothingBeforeItsSheet, HandedInOnQuizScreen,
     SheetStored, OwnSheet, OwnSubmission, OneSheetInAccount

(* A result screen just opened has nothing loaded. *)
LEMMA OpensFresh ==
  ASSUME Opens
  PROVE  /\ ShownAsStored' /\ RankedAsStored' /\ OnBoardUnlessBeaten'
         /\ screen' = "result" /\ fetching' \subseteq Fetches /\ failed' \subseteq Fetches
         /\ {skeleton', alert'} \subseteq BOOLEAN
         /\ leaders' \subseteq Submission /\ Cardinality(leaders') <= LeaderboardLimit
         /\ quizSelections' \in Seq(QuizSelection)
  <1>1. ~ Loaded("submissions")' /\ ~ Loaded("selections")'
    BY DEF Opens, Loaded, Fetches
  <1>2. Cardinality({}) = 0
    BY FS_EmptySet
  <1>3. /\ screen' = "result" /\ fetching' \subseteq Fetches /\ failed' \subseteq Fetches
        /\ {skeleton', alert'} \subseteq BOOLEAN
        /\ leaders' = {} /\ quizSelections' = << >>
    BY DEF Opens
  <1>4. << >> \in Seq(QuizSelection) /\ 0 <= LeaderboardLimit
    BY DEF LeaderboardLimit
  <1> QED
    BY <1>1, <1>2, <1>3, <1>4 DEF ShownAsStored, RankedAsStored, OnBoardUnlessBeaten

(* makeSubmission's document takes the place of the fan's.                  *)
LEMMA WithSubmissionIs ==
  ASSUME NEW docs \in SUBSET Submission, IsFiniteSet(docs), NEW fan \in Fan,
         NEW sheet \in Seq(QuizSelection)
  PROVE  /\ WithSubmission(docs, fan, sheet) \subseteq Submission
         /\ IsFiniteSet(WithSubmission(docs, fan, sheet))
         /\ {s \in WithSubmission(docs, fan, sheet) : s.fan = fan}
              = {[fan |-> fan, points |-> TotalPoints(sheet)]}
         /\ \A other : other # fan =>
              {s \in WithSubmission(docs, fan, sheet) : s.fan = other}
                = {s \in docs : s.fan = other}
         /\ (\A a, b \in docs : a.fan = b.fan => a = b) =>
              \A a, b \in WithSubmission(docs, fan, sheet) : a.fan = b.fan => a = b
  <1> DEFINE kept == {s \in docs : s.fan # fan}
             new == [fan |-> fan, points |-> TotalPoints(sheet)]
  <1>1. TotalPoints(sheet) \in Nat
    BY PointsOfSheet
  <1>2. new \in Submission /\ new.fan = fan
    BY <1>1 DEF Submission
  <1>3. WithSubmission(docs, fan, sheet) = kept \cup {new}
    BY DEF WithSubmission
  <1>4. IsFiniteSet(kept \cup {new})
    <2>1. kept \in SUBSET docs
      OBVIOUS
    <2> HIDE DEF kept, new
    <2>2. IsFiniteSet(kept)
      BY <2>1, FS_Subset
    <2> QED
      BY <2>2, FS_AddElement
  <1> HIDE DEF new
  <1>5. {s \in kept \cup {new} : s.fan = fan} = {new}
    BY <1>2
  <1>6. \A other : other # fan =>
          {s \in kept \cup {new} : s.fan = other} = {s \in docs : s.fan = other}
    BY <1>2
  <1>7. (\A a, b \in docs : a.fan = b.fan => a = b) =>
          \A a, b \in kept \cup {new} : a.fan = b.fan => a = b
    BY <1>2
  <1>8. kept \cup {new} \subseteq Submission
    BY <1>2
  <1> QED
    BY <1>3, <1>4, <1>5, <1>6, <1>7, <1>8 DEF new

(* Its selections are documents of their own.                               *)
LEMMA WithSelectionsIs ==
  ASSUME NEW docs \in SUBSET Stored, IsFiniteSet(docs),
         \A a, b \in docs : a.id = b.id => a = b,
         NEW sheet \in Seq(QuizSelection),
         NEW ids \in [DOMAIN sheet -> Uuid \ {s.id : s \in docs}], IsInjective(ids)
  PROVE  /\ WithSelections(docs, ids, sheet) \subseteq Stored
         /\ IsFiniteSet(WithSelections(docs, ids, sheet))
         /\ \A a, b \in WithSelections(docs, ids, sheet) : a.id = b.id => a = b
         /\ ids \in [DOMAIN sheet -> Uuid]
  <1> DEFINE new == {[id |-> ids[i], selection |-> sheet[i]] : i \in DOMAIN sheet}
             doc == [i \in 1 .. Len(sheet) |-> [id |-> ids[i], selection |-> sheet[i]]]
  <1>1. /\ Len(sheet) \in Nat /\ DOMAIN sheet = 1 .. Len(sheet)
        /\ \A i \in 1 .. Len(sheet) :
             sheet[i] \in QuizSelection /\ ids[i] \in Uuid /\ \A s \in docs : s.id # ids[i]
    OBVIOUS
  <1>2. \A i, j \in 1 .. Len(sheet) : ids[i] = ids[j] => i = j
    BY <1>1 DEF IsInjective
  <1>3. WithSelections(docs, ids, sheet) = docs \cup new
    BY DEF WithSelections
  <1>4. new \subseteq Stored
    BY <1>1 DEF Stored
  <1>5. \A a, b \in docs \cup new : a.id = b.id => a = b
    BY <1>1, <1>2
  <1>6. IsFiniteSet(new)
    <2>1. IsFiniteSet(1 .. Len(sheet))
      BY <1>1, Numbered
    <2>2. /\ doc \in [1 .. Len(sheet) -> new]
          /\ \A s \in new : \E i \in 1 .. Len(sheet) : doc[i] = s
      BY <1>1
    <2> HIDE DEF doc, new
    <2>3. doc \in Surjection(1 .. Len(sheet), new)
      BY <2>2, Fun_IsSurj
    <2> QED
      BY <2>1, <2>3, FS_Surjection
  <1>7. ids \in [DOMAIN sheet -> Uuid]
    BY <1>1
  <1> HIDE DEF new
  <1>8. IsFiniteSet(docs \cup new)
    BY <1>6, FS_Union
  <1> QED
    BY <1>3, <1>4, <1>5, <1>7, <1>8

(* A sheet is handed in: types, on any device. *)
LEMMA HandInTypes ==
  ASSUME IInv, NEW d \in Device, NEW sheet \in Sheets[d], NEW ids \in FreshUuids(sheet),
         HandIn(d, sheet, ids)
  PROVE  TypeOK' /\ StoresAreFinite'
  <1>1. sheet \in Seq(QuizSelection) /\ Account[d] \in Fan /\ Me \in Fan
    BY ResultAssumption DEF Me
  <1>2. ids \in [DOMAIN sheet -> Uuid \ {s.id : s \in selections}] /\ IsInjective(ids)
    BY DEF FreshUuids
  <1>3. /\ submissions \in SUBSET Submission /\ selections \in SUBSET Stored
        /\ IsFiniteSet(submissions) /\ IsFiniteSet(selections)
        /\ \A a, b \in submissions : a.fan = b.fan => a = b
        /\ \A a, b \in selections : a.id = b.id => a = b
    BY DEF IInv, TypeOK, StoresAreFinite
  <1>4. handedIn' \in [Device -> Seq(QuizSelection)]
    BY <1>1 DEF IInv, TypeOK, HandIn
  <1>5. /\ submissions' \subseteq Submission /\ IsFiniteSet(submissions')
        /\ \A a, b \in submissions' : a.fan = b.fan => a = b
    BY <1>1, <1>3, WithSubmissionIs DEF HandIn
  <1>6. /\ selections' \subseteq Stored /\ IsFiniteSet(selections')
        /\ \A a, b \in selections' : a.id = b.id => a = b
    <2>1. CASE Account[d] = Me
      <3>1. selections' = WithSelections(selections, ids, sheet)
        BY <2>1 DEF HandIn
      <3> QED
        BY <1>1, <1>2, <1>3, <3>1, WithSelectionsIs
    <2>2. CASE Account[d] # Me
      BY <1>3, <2>2 DEF HandIn
    <2> QED
      BY <2>1, <2>2
  <1>7. /\ cache' \in [submissions : SUBSET Submission, selections : SUBSET Stored]
        /\ IsFiniteSet(cache'.submissions) /\ cache'.selections \subseteq selections'
    <2>1. CASE d = Viewer
      <3>1. /\ cache' = [submissions |-> WithSubmission(cache.submissions, Me, sheet),
                         selections  |-> WithSelections(cache.selections, ids, sheet)]
            /\ selections' = WithSelections(selections, ids, sheet)
        BY <2>1 DEF HandIn, Me
      <3>2. /\ cache.submissions \in SUBSET Submission /\ IsFiniteSet(cache.submissions)
            /\ cache.selections \subseteq selections
        BY DEF IInv, TypeOK, StoresAreFinite
      <3>3. /\ WithSubmission(cache.submissions, Me, sheet) \in SUBSET Submission
            /\ IsFiniteSet(WithSubmission(cache.submissions, Me, sheet))
        BY <1>1, <3>2, WithSubmissionIs
      <3>4. WithSelections(cache.selections, ids, sheet) \subseteq selections'
        BY <3>1, <3>2 DEF WithSelections
      <3> QED
        BY <1>6, <3>1, <3>3, <3>4
    <2>2. CASE d # Viewer
      <3>1. cache' = cache /\ selections \subseteq selections'
        BY <2>2 DEF HandIn, WithSelections
      <3> QED
        BY <3>1 DEF IInv, TypeOK, StoresAreFinite
    <2> QED
      BY <2>1, <2>2
  <1>8. /\ screen' \in {"quiz", "huddle", "result"}
        /\ fetching' \subseteq Fetches /\ failed' \subseteq Fetches
        /\ {skeleton', alert'} \subseteq BOOLEAN
        /\ leaders' \subseteq Submission /\ Cardinality(leaders') <= LeaderboardLimit
        /\ quizSelections' \in Seq(QuizSelection)
    <2>1. CASE d = Viewer
      <3>1. Opens
        BY <2>1 DEF HandIn
      <3> QED
        BY <3>1, OpensFresh
    <2>2. CASE d # Viewer
      <3>1. UNCHANGED <<screen, fetching, viewVars>>
        BY <2>2 DEF HandIn
      <3> QED
        BY <3>1 DEF IInv, TypeOK, viewVars
    <2> QED
      BY <2>1, <2>2
  <1>9. TypeOK'
    BY <1>4, <1>5, <1>6, <1>7, <1>8 DEF TypeOK
  <1> QED
    BY <1>5, <1>6, <1>7, <1>9 DEF StoresAreFinite

(* On the viewer's device, as the account's only sheet or not. *)
LEMMA HandInHere ==
  ASSUME IInv, NEW sheet \in Sheets[Viewer], NEW ids \in FreshUuids(sheet),
         HandIn(Viewer, sheet, ids)
  PROVE  IInv'
  <1>1. /\ sheet \in Seq(QuizSelection) /\ sheet # << >> /\ Me \in Fan /\ Viewer \in Device
        /\ Account[Viewer] = Me
    BY ResultAssumption DEF Me
  <1>2. Opens
    BY DEF HandIn
  <1>3. /\ handedIn[Viewer] = << >> /\ handedIn' = [handedIn EXCEPT ![Viewer] = sheet]
        /\ handedIn \in [Device -> Seq(QuizSelection)]
    BY DEF HandIn, IInv, TypeOK
  <1>4. handedIn'[Viewer] = sheet /\ \A d \in Device : d # Viewer => handedIn'[d] = handedIn[d]
    BY <1>1, <1>3
  <1>5. OneSheetInAccount' = OneSheetInAccount
    BY <1>4 DEF OneSheetInAccount, Me
  <1>6. TypeOK' /\ StoresAreFinite'
    BY <1>1, HandInTypes
  <1>7. ShownAsStored' /\ RankedAsStored' /\ OnBoardUnlessBeaten' /\ HandedInOnQuizScreen'
    BY <1>2, OpensFresh DEF HandedInOnQuizScreen
  <1>8. NothingBeforeItsSheet'
    BY <1>1, <1>4 DEF NothingBeforeItsSheet
  <1>9. SheetStored'
    <2> SUFFICES ASSUME OwnSheet' PROVE
          /\ \E i \in [DOMAIN handedIn'[Viewer] -> Uuid] :
               IsInjective(i) /\ selections' = WithSelections({}, i, handedIn'[Viewer])
          /\ cache'.selections = selections'
          /\ \A docs \in {submissions', cache'.submissions} :
               {s \in docs : s.fan = Me} = {OwnSubmission'}
      BY DEF SheetStored, Me
    <2>1. selections = {} /\ cache.selections = {}
      BY <1>3, <1>5 DEF OwnSheet, IInv, NothingBeforeItsSheet, TypeOK
    <2>2. /\ selections' = WithSelections(selections, ids, sheet)
          /\ cache'.selections = WithSelections(cache.selections, ids, sheet)
          /\ submissions' = WithSubmission(submissions, Me, sheet)
          /\ cache'.submissions = WithSubmission(cache.submissions, Me, sheet)
      BY <1>1 DEF HandIn
    <2>3. ids \in [DOMAIN sheet -> Uuid] /\ IsInjective(ids)
      BY <2>1 DEF FreshUuids
    <2>4. OwnSubmission' = [fan |-> Me, points |-> TotalPoints(sheet)]
      BY <1>4 DEF OwnSubmission, Me
    <2>5. \A docs \in {submissions, cache.submissions} :
            docs \in SUBSET Submission /\ IsFiniteSet(docs)
      BY DEF IInv, TypeOK, StoresAreFinite
    <2>6. \A docs \in {submissions, cache.submissions} :
            {s \in WithSubmission(docs, Me, sheet) : s.fan = Me}
              = {[fan |-> Me, points |-> TotalPoints(sheet)]}
      BY <1>1, <2>5, WithSubmissionIs
    <2> QED
      BY <1>4, <2>1, <2>2, <2>3, <2>4, <2>6
  <1> QED
    BY <1>6, <1>7, <1>8, <1>9 DEF IInv

(* On another device: of the viewer's account, and nothing is promised any  *)
(* more, or of another, which leaves what is stored for the viewer alone.   *)
LEMMA HandInElsewhere ==
  ASSUME IInv, NEW d \in Device, d # Viewer,
         NEW sheet \in Sheets[d], NEW ids \in FreshUuids(sheet),
         HandIn(d, sheet, ids)
  PROVE  IInv'
  <1>1. /\ sheet \in Seq(QuizSelection) /\ sheet # << >>
        /\ Account[d] \in Fan /\ Viewer \in Device
    BY ResultAssumption
  <1>2. UNCHANGED <<cache, screen, fetching, skeleton, failed, leaders, quizSelections, alert>>
    BY DEF HandIn, viewVars
  <1>3. /\ handedIn' = [handedIn EXCEPT ![d] = sheet]
        /\ handedIn \in [Device -> Seq(QuizSelection)] /\ handedIn[d] = << >>
    BY DEF HandIn, IInv, TypeOK
  <1>4. handedIn'[d] = sheet /\ \A e \in Device : e # d => handedIn'[e] = handedIn[e]
    BY <1>3
  <1>5. handedIn'[Viewer] = handedIn[Viewer]
    BY <1>1, <1>4
  <1>6. TypeOK' /\ StoresAreFinite'
    BY HandInTypes
  <1>7. HandedInOnQuizScreen'
    BY <1>2, <1>5 DEF IInv, HandedInOnQuizScreen
  <1>8. CASE Account[d] = Me
    <2>1. ~ OneSheetInAccount' /\ ~ OwnSheet'
      BY <1>1, <1>4, <1>8 DEF OneSheetInAccount, OwnSheet, Me
    <2>2. /\ NothingBeforeItsSheet' /\ SheetStored' /\ ShownAsStored' /\ RankedAsStored'
          /\ OnBoardUnlessBeaten'
      BY <2>1 DEF NothingBeforeItsSheet, SheetStored, ShownAsStored, RankedAsStored,
         OnBoardUnlessBeaten
    <2> QED
      BY <1>6, <1>7, <2>2 DEF IInv
  <1>9. CASE Account[d] # Me
    <2>1. OneSheetInAccount' = OneSheetInAccount
      BY <1>4, <1>9 DEF OneSheetInAccount, Me
    <2>2. OwnSheet' = OwnSheet /\ OwnSubmission' = OwnSubmission
      BY <1>5, <2>1 DEF OwnSheet, OwnSubmission, Me
    <2>3. /\ selections' = selections
          /\ submissions' = WithSubmission(submissions, Account[d], sheet)
      BY <1>9 DEF HandIn
    <2>4. {s \in submissions' : s.fan = Me} = {s \in submissions : s.fan = Me}
      <3>1. submissions \in SUBSET Submission /\ IsFiniteSet(submissions)
        BY DEF IInv, TypeOK, StoresAreFinite
      <3>2. \A other : other # Account[d] =>
              {s \in WithSubmission(submissions, Account[d], sheet) : s.fan = other}
                = {s \in submissions : s.fan = other}
        BY <1>1, <3>1, WithSubmissionIs
      <3>3. {s \in WithSubmission(submissions, Account[d], sheet) : s.fan = Me}
              = {s \in submissions : s.fan = Me}
        BY <1>9, <3>2, Zenon
      <3> QED
        BY <2>3, <3>3
    <2>5. NothingBeforeItsSheet'
      BY <1>5, <2>1, <2>3 DEF IInv, NothingBeforeItsSheet
    <2>6. SheetStored'
      <3> SUFFICES ASSUME OwnSheet' PROVE SheetStored'
        BY DEF SheetStored
      <3>1. /\ \E i \in [DOMAIN handedIn[Viewer] -> Uuid] :
                 IsInjective(i) /\ selections = WithSelections({}, i, handedIn[Viewer])
            /\ cache.selections = selections
            /\ {s \in submissions : s.fan = Me} = {OwnSubmission}
            /\ {s \in cache.submissions : s.fan = Me} = {OwnSubmission}
        BY <2>2 DEF IInv, SheetStored
      <3>2. /\ {s \in submissions' : s.fan = Me} = {OwnSubmission'}
            /\ {s \in cache'.submissions : s.fan = Me} = {OwnSubmission'}
        BY <1>2, <2>2, <2>4, <3>1
      <3> QED
        BY <1>2, <1>5, <2>3, <3>1, <3>2 DEF SheetStored, Me
    <2>7. ShownAsStored' /\ RankedAsStored'
      BY <1>2, <2>2, <2>3 DEF IInv, ShownAsStored, RankedAsStored, Loaded, Me
    <2>8. OnBoardUnlessBeaten'
      BY <1>2, <1>5, <2>1 DEF IInv, OnBoardUnlessBeaten, Loaded, Me
    <2> QED
      BY <1>6, <1>7, <2>5, <2>6, <2>7, <2>8 DEF IInv
  <1> QED
    BY <1>8, <1>9

LEMMA OpenFromHuddleStep ==
  ASSUME IInv, OpenFromHuddle PROVE IInv'
  <1>1. Opens /\ UNCHANGED <<storeVars, cache>>
    BY DEF OpenFromHuddle
  <1>2. /\ StoresAreFinite' /\ NothingBeforeItsSheet' /\ HandedInOnQuizScreen' /\ SheetStored'
    <2>1. screen' # "quiz"
      BY <1>1 DEF Opens
    <2> QED
      BY <1>1, <2>1, StoresUntouched
  <1>3. TypeOK'
    BY <1>1, OpensFresh DEF IInv, TypeOK, storeVars
  <1> QED
    BY <1>1, <1>2, <1>3, OpensFresh DEF IInv

(* The server's documents join the cache. *)
LEMMA Joined ==
  ASSUME IInv, NEW top \in TopThree(submissions),
         NEW docs, docs = {s \in cache.submissions : \A t \in top : t.fan # s.fan} \cup top
  PROVE  /\ docs \subseteq Submission /\ IsFiniteSet(docs)
         /\ OwnSheet => {s \in docs : s.fan = Me} = {OwnSubmission}
  <1> DEFINE kept == {s \in cache.submissions : \A t \in top : t.fan # s.fan}
  <1>1. /\ submissions \subseteq Submission /\ IsFiniteSet(submissions)
        /\ cache.submissions \subseteq Submission /\ IsFiniteSet(cache.submissions)
    BY DEF IInv, TypeOK, StoresAreFinite
  <1>2. top \subseteq submissions /\ IsFiniteSet(top)
    BY <1>1, TopThreeIs
  <1>3. IsFiniteSet(kept \cup top)
    <2>1. kept \in SUBSET cache.submissions
      OBVIOUS
    <2> HIDE DEF kept
    <2>2. IsFiniteSet(kept)
      BY <1>1, <2>1, FS_Subset
    <2> QED
      BY <1>2, <2>2, FS_Union
  <1>4. ASSUME OwnSheet PROVE {s \in docs : s.fan = Me} = {OwnSubmission}
    <2>1. /\ {s \in submissions : s.fan = Me} = {OwnSubmission}
          /\ {s \in cache.submissions : s.fan = Me} = {OwnSubmission}
      BY <1>4 DEF IInv, SheetStored
    <2>2. OwnSubmission \in cache.submissions /\ OwnSubmission.fan = Me
      BY <2>1
    <2>3. \A s \in docs : s.fan = Me => s = OwnSubmission
      BY <1>2, <2>1
    <2>4. OwnSubmission \in docs
      <3>1. CASE \A t \in top : t.fan # Me
        BY <2>2, <3>1
      <3>2. CASE \E t \in top : t.fan = Me
        BY <1>2, <2>1, <3>2
      <3> QED
        BY <3>1, <3>2
    <2> QED
      BY <2>2, <2>3, <2>4
  <1> QED
    BY <1>1, <1>2, <1>3, <1>4

(* Whichever of the two was ranked holds the fan's own submission. *)
LEMMA RankedWithOwn ==
  ASSUME IInv, NEW docs \in {submissions, cache.submissions}, NEW top \in TopThree(docs),
         OwnSheet
  PROVE  /\ \A s \in top : s.fan = Me => s = OwnSubmission
         /\ \/ \E s \in top : s.fan = Me
            \/ /\ Cardinality(top) = LeaderboardLimit
               /\ \A s \in top : s.points >= TotalPoints(handedIn[Viewer])
  <1>1. IsFiniteSet(docs) /\ {s \in docs : s.fan = Me} = {OwnSubmission}
    BY DEF IInv, StoresAreFinite, SheetStored
  <1>2. /\ OwnSubmission \in docs /\ OwnSubmission.fan = Me
        /\ OwnSubmission.points = TotalPoints(handedIn[Viewer])
    BY <1>1 DEF OwnSubmission
  <1>3. /\ top \subseteq docs
        /\ \A other \in docs \ top :
             /\ Cardinality(top) = LeaderboardLimit
             /\ \A winner \in top : winner.points >= other.points
    BY <1>1, TopThreeIs
  <1> QED
    BY <1>1, <1>2, <1>3

LEMMA SubmissionsFetchedStep ==
  ASSUME IInv, SubmissionsFetched PROVE IInv'
  <1>1. /\ fetching' = fetching \ {"submissions"} /\ skeleton' = FALSE
        /\ UNCHANGED <<handedIn, submissions, selections, screen, failed, quizSelections, alert>>
    BY DEF SubmissionsFetched, Completes, storeVars
  <1>2. PICK docs \in {submissions, cache.submissions} :
          /\ leaders' \in TopThree(docs)
          /\ \/ cache' = cache
             \/ /\ docs = submissions
                /\ cache' = [cache EXCEPT !.submissions =
                               {s \in @ : \A t \in leaders' : t.fan # s.fan} \cup leaders']
    BY DEF SubmissionsFetched
  <1>3. /\ cache \in [submissions : SUBSET Submission, selections : SUBSET Stored]
        /\ IsFiniteSet(docs) /\ docs \subseteq Submission
        /\ cache.selections \subseteq selections
    BY DEF IInv, TypeOK, StoresAreFinite
  <1>4. /\ leaders' \subseteq Submission /\ Cardinality(leaders') <= LeaderboardLimit
    <2>1. leaders' \subseteq docs /\ Cardinality(leaders') <= LeaderboardLimit
      BY <1>2, <1>3, TopThreeIs
    <2> QED
      BY <1>3, <2>1
  <1>5. /\ cache' \in [submissions : SUBSET Submission, selections : SUBSET Stored]
        /\ IsFiniteSet(cache'.submissions)
        /\ cache'.selections = cache.selections
        /\ OwnSheet => {s \in cache'.submissions : s.fan = Me} = {OwnSubmission}
    <2>1. CASE cache' = cache
      BY <1>3, <2>1 DEF IInv, StoresAreFinite, SheetStored
    <2>2. CASE cache' # cache
      <3> DEFINE joined == {s \in cache.submissions : \A t \in leaders' : t.fan # s.fan}
                             \cup leaders'
      <3>1. leaders' \in TopThree(submissions) /\ cache' = [cache EXCEPT !.submissions = joined]
        BY <1>2, <2>2
      <3>2. /\ joined \subseteq Submission /\ IsFiniteSet(joined)
            /\ OwnSheet => {s \in joined : s.fan = Me} = {OwnSubmission}
        BY <3>1, Joined
      <3> HIDE DEF joined
      <3>3. cache'.submissions = joined /\ cache'.selections = cache.selections
        BY <1>3, <3>1
      <3> QED
        BY <1>3, <3>1, <3>2, <3>3
    <2> QED
      BY <2>1, <2>2
  <1>6. TypeOK'
    BY <1>1, <1>3, <1>4, <1>5 DEF IInv, TypeOK
  <1>7. /\ OneSheetInAccount' = OneSheetInAccount /\ OwnSheet' = OwnSheet
        /\ OwnSubmission' = OwnSubmission
    BY <1>1 DEF OneSheetInAccount, OwnSheet, OwnSubmission, Me
  <1>8. StoresAreFinite'
    BY <1>1, <1>5 DEF IInv, StoresAreFinite
  <1>9. NothingBeforeItsSheet' /\ HandedInOnQuizScreen'
    BY <1>1, <1>7 DEF IInv, NothingBeforeItsSheet, HandedInOnQuizScreen
  <1>10. SheetStored'
    <2> SUFFICES ASSUME OwnSheet' PROVE SheetStored'
      BY DEF SheetStored
    <2>1. /\ \E i \in [DOMAIN handedIn[Viewer] -> Uuid] :
               IsInjective(i) /\ selections = WithSelections({}, i, handedIn[Viewer])
          /\ cache.selections = selections
          /\ {s \in submissions : s.fan = Me} = {OwnSubmission}
          /\ {s \in cache'.submissions : s.fan = Me} = {OwnSubmission}
      BY <1>5, <1>7 DEF IInv, SheetStored
    <2>2. \A d \in {submissions', cache'.submissions} :
            {s \in d : s.fan = Me} = {OwnSubmission'}
      BY <1>1, <1>7, <2>1
    <2> QED
      BY <1>1, <1>5, <2>1, <2>2 DEF SheetStored, Me
  <1>11. ShownAsStored'
    BY <1>1, <1>7 DEF IInv, ShownAsStored, Loaded
  <1>12. RankedAsStored'
    <2>1. OwnSheet => \A s \in leaders' : s.fan = Me => s = OwnSubmission
      BY <1>2, RankedWithOwn
    <2> QED
      BY <1>7, <2>1 DEF RankedAsStored, Me
  <1>13. OnBoardUnlessBeaten'
    <2>1. OwnSheet =>
            \/ \E s \in leaders' : s.fan = Me
            \/ /\ Cardinality(leaders') = LeaderboardLimit
               /\ \A s \in leaders' : s.points >= TotalPoints(handedIn[Viewer])
      BY <1>2, RankedWithOwn
    <2>2. OneSheetInAccount' /\ handedIn'[Viewer] # << >> => OwnSheet
      BY <1>1, <1>7 DEF OwnSheet
    <2> QED
      BY <1>1, <2>1, <2>2 DEF OnBoardUnlessBeaten, Me
  <1> QED
    BY <1>6, <1>8, <1>9, <1>10, <1>11, <1>12, <1>13 DEF IInv

LEMMA SelectionsFetchedStep ==
  ASSUME IInv, SelectionsFetched PROVE IInv'
  <1>1. /\ fetching' = fetching \ {"selections"} /\ skeleton' = FALSE
        /\ UNCHANGED <<handedIn, submissions, selections, screen, failed, leaders, alert>>
    BY DEF SelectionsFetched, Completes, storeVars
  <1>2. PICK docs \in {selections, cache.selections} :
          quizSelections' = InOrder(docs) /\ cache' = [cache EXCEPT !.selections = docs]
    BY DEF SelectionsFetched
  <1>3. /\ cache \in [submissions : SUBSET Submission, selections : SUBSET Stored]
        /\ IsFiniteSet(selections) /\ docs \subseteq selections /\ selections \subseteq Stored
        /\ \A a, b \in selections : a.id = b.id => a = b
    BY DEF IInv, TypeOK, StoresAreFinite
  <1>4. /\ cache' \in [submissions : SUBSET Submission, selections : SUBSET Stored]
        /\ cache'.submissions = cache.submissions /\ cache'.selections = docs
    BY <1>2, <1>3
  <1>5. quizSelections' \in Seq(QuizSelection)
    <2>1. docs \in SUBSET Stored /\ IsFiniteSet(docs) /\ \A a, b \in docs : a.id = b.id => a = b
      BY <1>3, FS_Subset
    <2> QED
      BY <1>2, <2>1, InOrderIs
  <1>6. TypeOK'
    BY <1>1, <1>3, <1>4, <1>5 DEF IInv, TypeOK
  <1>7. /\ OneSheetInAccount' = OneSheetInAccount /\ OwnSheet' = OwnSheet
        /\ OwnSubmission' = OwnSubmission
    BY <1>1 DEF OneSheetInAccount, OwnSheet, OwnSubmission, Me
  <1>8. OwnSheet => docs = selections
    BY DEF IInv, SheetStored
  <1>9. StoresAreFinite'
    BY <1>1, <1>4 DEF IInv, StoresAreFinite
  <1>10. NothingBeforeItsSheet' /\ HandedInOnQuizScreen'
    BY <1>1, <1>7 DEF IInv, NothingBeforeItsSheet, HandedInOnQuizScreen
  <1>11. SheetStored'
    <2> SUFFICES ASSUME OwnSheet' PROVE SheetStored'
      BY DEF SheetStored
    <2>1. /\ \E i \in [DOMAIN handedIn[Viewer] -> Uuid] :
               IsInjective(i) /\ selections = WithSelections({}, i, handedIn[Viewer])
          /\ {s \in submissions : s.fan = Me} = {OwnSubmission}
          /\ {s \in cache.submissions : s.fan = Me} = {OwnSubmission}
      BY <1>7 DEF IInv, SheetStored
    <2>2. \A d \in {submissions', cache'.submissions} :
            {s \in d : s.fan = Me} = {OwnSubmission'}
      BY <1>1, <1>4, <1>7, <2>1
    <2> QED
      BY <1>1, <1>4, <1>7, <1>8, <2>1, <2>2 DEF SheetStored, Me
  <1>12. ShownAsStored'
    BY <1>1, <1>2, <1>7, <1>8 DEF ShownAsStored
  <1>13. RankedAsStored' /\ OnBoardUnlessBeaten'
    BY <1>1, <1>7 DEF IInv, RankedAsStored, OnBoardUnlessBeaten, Loaded, Me
  <1> QED
    BY <1>6, <1>9, <1>10, <1>11, <1>12, <1>13 DEF IInv

(* A fetch that failed counts as not loaded. *)
LEMMA FetchFailsStep ==
  ASSUME IInv, NEW fetch \in Fetches, FetchFails(fetch) PROVE IInv'
  <1>1. /\ fetching' = fetching \ {fetch} /\ failed' = failed \cup {fetch}
        /\ skeleton' = FALSE /\ alert' = TRUE
        /\ fetch = "submissions" => leaders' = {} /\ quizSelections' = quizSelections
        /\ fetch = "selections" => quizSelections' = << >> /\ leaders' = leaders
        /\ UNCHANGED <<storeVars, cache, screen>>
    BY DEF FetchFails, Completes
  <1>2. /\ StoresAreFinite' /\ NothingBeforeItsSheet' /\ HandedInOnQuizScreen' /\ SheetStored'
        /\ OwnSheet' = OwnSheet /\ (OwnSheet => OwnSubmission' = OwnSubmission)
    BY <1>1, StoresUntouched
  <1>3. Cardinality({}) = 0 /\ 0 <= LeaderboardLimit /\ << >> \in Seq(QuizSelection)
    BY FS_EmptySet DEF LeaderboardLimit
  <1>4. fetch = "submissions" \/ fetch = "selections"
    BY DEF Fetches
  <1>5. TypeOK'
    <2>1. /\ leaders' \subseteq Submission /\ Cardinality(leaders') <= LeaderboardLimit
          /\ quizSelections' \in Seq(QuizSelection)
      BY <1>1, <1>3, <1>4 DEF IInv, TypeOK
    <2> QED
      BY <1>1, <2>1 DEF IInv, TypeOK, storeVars
  <1>6. /\ Loaded("submissions")' => Loaded("submissions") /\ leaders' = leaders
        /\ Loaded("selections")' => Loaded("selections") /\ quizSelections' = quizSelections
    BY <1>1, <1>4 DEF Loaded
  <1>7. UNCHANGED <<handedIn, submissions, selections>>
    BY <1>1 DEF storeVars
  <1>8. ShownAsStored' /\ RankedAsStored'
    BY <1>2, <1>6, <1>7 DEF IInv, ShownAsStored, RankedAsStored, Me
  <1>9. OnBoardUnlessBeaten'
    BY <1>6, <1>7 DEF IInv, OnBoardUnlessBeaten, OneSheetInAccount, Me
  <1> QED
    BY <1>2, <1>5, <1>8, <1>9 DEF IInv

(* Only the alert changes, the screen closes, or nothing happens. *)
LEMMA ScreenStep ==
  ASSUME IInv, DismissError \/ Close \/ UNCHANGED vars PROVE IInv'
  <1>1. /\ UNCHANGED <<storeVars, cache, skeleton, failed, leaders, quizSelections>>
        /\ alert' \in {alert, FALSE}
        /\ \/ screen' = screen /\ fetching' = fetching
           \/ screen' = "huddle" /\ fetching' = {}
    BY DEF DismissError, Close, vars, viewVars
  <1>2. /\ StoresAreFinite' /\ NothingBeforeItsSheet' /\ HandedInOnQuizScreen' /\ SheetStored'
        /\ OwnSheet' = OwnSheet /\ (OwnSheet => OwnSubmission' = OwnSubmission)
    <2>1. screen' = "quiz" => screen = "quiz"
      BY <1>1
    <2> QED
      BY <1>1, <2>1, StoresUntouched
  <1>3. TypeOK'
    BY <1>1 DEF IInv, TypeOK, storeVars
  <1>4. \A fetch : Loaded(fetch)' => Loaded(fetch)
    BY <1>1 DEF Loaded
  <1>5. UNCHANGED <<handedIn, submissions, selections>>
    BY <1>1 DEF storeVars
  <1>6. ShownAsStored' /\ RankedAsStored'
    BY <1>1, <1>2, <1>4, <1>5 DEF IInv, ShownAsStored, RankedAsStored, Me
  <1>7. OnBoardUnlessBeaten'
    BY <1>1, <1>4, <1>5 DEF IInv, OnBoardUnlessBeaten, OneSheetInAccount, Me
  <1> QED
    BY <1>2, <1>3, <1>6, <1>7 DEF IInv

LEMMA NextStep == IInv /\ [Next]_vars => IInv'
  <1> SUFFICES ASSUME IInv, [Next]_vars PROVE IInv'
    OBVIOUS
  <1>1. ASSUME NEW d \in Device, NEW sheet \in Sheets[d], NEW ids \in FreshUuids(sheet),
               HandIn(d, sheet, ids)
        PROVE  IInv'
    BY <1>1, HandInHere, HandInElsewhere
  <1>2. ASSUME NEW fetch \in Fetches, Answer(fetch) PROVE IInv'
    BY <1>2, SubmissionsFetchedStep, SelectionsFetchedStep, FetchFailsStep DEF Answer
  <1> QED
    BY <1>1, <1>2, OpenFromHuddleStep, ScreenStep DEF Next

-----------------------------------------------------------------------------
(* Theorems *)

(* What the server and the cache hold of the fan's sheet, and what the      *)
(* screen has of it, stay in step whatever order the two fetches, the other *)
(* devices' sheets and the errors come in.                                  *)
THEOREM ResultInvariant == Spec => []IInv
  BY Initially, NextStep, PTL DEF Spec

(* Every variable keeps its type: one submission for each fan, no UUID      *)
(* twice, three leaders at most.                                            *)
THEOREM ResultTypes == Spec => []TypeOK
  <1>1. IInv => TypeOK
    BY DEF IInv
  <1> QED
    BY <1>1, ResultInvariant, PTL

LEMMA FiguresFromInvariant == IInv => FiguresAreTheSheets
  <1> SUFFICES ASSUME IInv, Loaded("selections"), OwnSheet
               PROVE  FiguresAreTheSheets
    BY DEF FiguresAreTheSheets, OwnSheet
  <1> DEFINE sheet == handedIn[Viewer]
  <1>1. sheet \in Seq(QuizSelection)
    BY ResultAssumption DEF IInv, TypeOK
  <1>2. PICK ids \in [DOMAIN sheet -> Uuid] :
          IsInjective(ids) /\ selections = WithSelections({}, ids, sheet)
    BY DEF IInv, SheetStored
  <1>3. quizSelections = InOrder(selections)
    BY DEF IInv, ShownAsStored
  <1> HIDE DEF sheet
  <1>4. /\ quizSelections \in Seq(QuizSelection)
        /\ \E p \in Bijection(1 .. Len(quizSelections), 1 .. Len(sheet)) :
             \A i \in 1 .. Len(quizSelections) : quizSelections[i] = sheet[p[i]]
    BY <1>1, <1>2, <1>3, SheetComesBack
  <1>5. /\ Len(quizSelections) = Len(sheet)
        /\ CorrectScoreCount(quizSelections) = CorrectScoreCount(sheet)
        /\ TotalTimeTaken(quizSelections) = TotalTimeTaken(sheet)
    BY <1>1, <1>4, OrderDoesNotCount
  <1>6. /\ CorrectScoreCount(sheet) <= TotalPoints(sheet)
        /\ TotalPoints(sheet) <= 10 * CorrectScoreCount(sheet)
    BY <1>1, ScoreWithinPoints
  <1>7. Loaded("submissions") => \A s \in leaders : s.fan = Me => s.points = TotalPoints(sheet)
    BY DEF IInv, RankedAsStored, OwnSubmission, sheet
  <1> QED
    BY <1>5, <1>6, <1>7 DEF FiguresAreTheSheets, sheet

(* The score, the number of answers and the seconds on the result screen    *)
(* are those of the sheet handed in on the device, in whatever order its    *)
(* selections come back and whether the server or the cache answers, and    *)
(* the leaderboard's points agree with them.                                *)
THEOREM FiguresHold == Spec => []FiguresAreTheSheets
  BY FiguresFromInvariant, ResultInvariant, PTL

(* A fan who is not on the leaderboard is beaten, or equalled, by the three *)
(* on it, however stale the cache that answered.                            *)
THEOREM LeaderboardHasItsFan == Spec => []OnBoardUnlessBeaten
  <1>1. IInv => OnBoardUnlessBeaten
    BY DEF IInv
  <1> QED
    BY <1>1, ResultInvariant, PTL
=============================================================================
