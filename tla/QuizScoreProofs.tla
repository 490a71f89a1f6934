--------------------------- MODULE QuizScoreProofs ---------------------------
(***************************************************************************)
(* Machine-checked proofs about QuizScore, for every set of questions and   *)
(* options and sheets of any length: what an answer earns, what a sheet     *)
(* adds up to, and that the order of its answers does not matter.  The      *)
(* proofs about the quiz session and the result screen rest on them.        *)
(***************************************************************************)
EXTENDS QuizScore, FiniteSetTheorems, FunctionTheorems, SequenceTheorems,
        WellFoundedInduction, TLAPS

-----------------------------------------------------------------------------
(* What one answer earns *)

(* Every correct answer earns between one and ten points, a wrong one none. *)
THEOREM PointsInRange ==
  ASSUME NEW selection \in QuizSelection
  PROVE  /\ IsCorrect(selection) => PointsFor(selection) \in 1 .. 10
         /\ ~ IsCorrect(selection) => PointsFor(selection) = 0
  BY DEF QuizSelection, PointsFor, PointsForTime

(* A slower answer to the same question never earns more than a faster one, *)
(* so no fan gains a place on the leaderboard by waiting.                   *)
THEOREM SlowerAnswerNeverGains ==
  ASSUME NEW fast \in QuizSelection, NEW slow \in QuizSelection,
         fast.question = slow.question,
         fast.selectedAnswer = slow.selectedAnswer,
         fast.timeTaken <= slow.timeTaken
  PROVE  PointsFor(slow) <= PointsFor(fast)
  BY DEF QuizSelection, PointsFor, PointsForTime, IsCorrect

-----------------------------------------------------------------------------
(* What a sheet adds up to *)

LEMMA Least ==
  ASSUME NEW T \in SUBSET Nat, T # {}
  PROVE  \E x \in T : \A y \in T : x <= y
  <1>1. PICK x \in T : \A y \in T : ~ (<<y, x>> \in OpToRel(<, Nat))
    BY NatLessThanWellFounded, WFMin
  <1>2. \A y \in T : ~ (y < x)
    BY <1>1 DEF OpToRel
  <1> QED
    BY <1>2

(* f[i] is the sum of the first i of the numbers, for i up to n. *)
SumsUpTo(numbers, n, f) ==
  /\ f \in [0 .. n -> Nat]
  /\ f[0] = 0
  /\ \A i \in 1 .. n : f[i] = f[i - 1] + numbers[i]

(* There are such sums: a least n without them would have some before it.    *)
LEMMA SumsExist ==
  ASSUME NEW numbers \in Seq(Nat)
  PROVE  \E f : SumsUpTo(numbers, Len(numbers), f)
  <1> DEFINE T == {n \in 0 .. Len(numbers) : ~ \E f : SumsUpTo(numbers, n, f)}
  <1>1. SUFFICES ASSUME T # {} PROVE FALSE
    <2>1. Len(numbers) \in 0 .. Len(numbers)
      OBVIOUS
    <2> QED
      BY <2>1
  <1>2. T \in SUBSET Nat
    OBVIOUS
  <1>3. PICK n \in T : \A y \in T : n <= y
    BY <1>1, <1>2, Least
  <1>4. CASE n = 0
    <2>1. SumsUpTo(numbers, n, [i \in 0 .. 0 |-> 0])
      BY <1>4 DEF SumsUpTo
    <2> QED
      BY <2>1
  <1>5. CASE n # 0
    <2>1. n \in 1 .. Len(numbers) /\ n - 1 \in 0 .. Len(numbers) /\ n - 1 \notin T
      BY <1>3, <1>5
    <2>2. PICK f : SumsUpTo(numbers, n - 1, f)
      BY <2>1
    <2> DEFINE g == [i \in 0 .. n |-> IF i = n THEN f[n - 1] + numbers[n] ELSE f[i]]
    <2>3. numbers[n] \in Nat /\ n - 1 \in 0 .. n - 1
      BY <2>1
    <2>4. f[n - 1] \in Nat /\ \A i \in 0 .. n - 1 : f[i] \in Nat
      BY <2>2, <2>3 DEF SumsUpTo
    <2>5. \A i \in 0 .. n : i = n \/ i \in 0 .. n - 1
      BY <2>1
    <2>6. g \in [0 .. n -> Nat]
      BY <2>3, <2>4, <2>5
    <2>7. g[0] = 0
      BY <2>1, <2>2 DEF SumsUpTo
    <2>8. \A i \in 1 .. n : g[i] = g[i - 1] + numbers[i]
      <3> TAKE i \in 1 .. n
      <3>1. i \in 0 .. n /\ i - 1 \in 0 .. n /\ i - 1 # n /\ (i = n \/ i \in 1 .. n - 1)
        BY <2>1
      <3>2. g[i - 1] = f[i - 1]
        BY <3>1
      <3>3. i = n => g[i] = f[i - 1] + numbers[i]
        BY <3>1
      <3>4. i # n => g[i] = f[i] /\ f[i] = f[i - 1] + numbers[i]
        BY <2>2, <3>1 DEF SumsUpTo
      <3> QED
        BY <3>2, <3>3, <3>4
    <2>9. SumsUpTo(numbers, n, g)
      BY <2>6, <2>7, <2>8 DEF SumsUpTo
    <2> QED
      BY <2>9
  <1> QED
    BY <1>4, <1>5

(* Two such functions agree as far as both go. *)
LEMMA SumsAgree ==
  ASSUME NEW s \in Seq(Nat), NEW t \in Seq(Nat), NEW m \in Nat, NEW n \in Nat, m <= n,
         \A i \in 1 .. m : s[i] = t[i],
         NEW f, NEW g, SumsUpTo(s, m, f), SumsUpTo(t, n, g)
  PROVE  f[m] = g[m]
  <1> DEFINE T == {i \in 0 .. m : f[i] # g[i]}
  <1>1. T = {}
    <2>1. SUFFICES ASSUME T # {} PROVE FALSE
      OBVIOUS
    <2>2. T \in SUBSET Nat
      OBVIOUS
    <2>3. PICK i \in T : \A y \in T : i <= y
      BY <2>1, <2>2, Least
    <2>4. i # 0
      BY DEF SumsUpTo
    <2>5. i \in 1 .. m /\ i \in 1 .. n /\ i - 1 \in 0 .. m /\ i - 1 \notin T
      BY <2>3, <2>4
    <2>6. f[i - 1] = g[i - 1]
      BY <2>5
    <2>7. f[i] = g[i]
      BY <2>5, <2>6 DEF SumsUpTo
    <2> QED
      BY <2>3, <2>7
  <1>2. m \in 0 .. m
    OBVIOUS
  <1> QED
    BY <1>1, <1>2

LEMMA TotalIs ==
  ASSUME NEW numbers \in Seq(Nat)
  PROVE  \E f : SumsUpTo(numbers, Len(numbers), f) /\ Total(numbers) = f[Len(numbers)]
  <1> DEFINE IsUpTo(f) == f = [i \in 0 .. Len(numbers) |->
                                 IF i = 0 THEN 0 ELSE f[i - 1] + numbers[i]]
             upTo == CHOOSE f : IsUpTo(f)
  <1>1. Total(numbers) = upTo[Len(numbers)]
    BY DEF Total
  <1>2. PICK f : SumsUpTo(numbers, Len(numbers), f)
    BY SumsExist
  <1>3. IsUpTo(f)
    <2>1. \A i \in 0 .. Len(numbers) : i = 0 \/ i \in 1 .. Len(numbers)
      OBVIOUS
    <2>2. \A i \in 0 .. Len(numbers) : f[i] = IF i = 0 THEN 0 ELSE f[i - 1] + numbers[i]
      BY <1>2, <2>1 DEF SumsUpTo
    <2>3. f = [i \in 0 .. Len(numbers) |-> f[i]]
      BY <1>2 DEF SumsUpTo
    <2> QED
      BY <2>2, <2>3
  <1>4. IsUpTo(upTo)
    BY <1>3
  <1> HIDE DEF upTo
  <1>5. /\ DOMAIN upTo = 0 .. Len(numbers)
        /\ upTo[0] = 0
        /\ \A i \in 1 .. Len(numbers) : upTo[i] = upTo[i - 1] + numbers[i]
    BY <1>4
  <1>6. \A i \in 0 .. Len(numbers) : upTo[i] = f[i]
    <2> DEFINE T == {i \in 0 .. Len(numbers) : upTo[i] # f[i]}
    <2>1. SUFFICES ASSUME T # {} PROVE FALSE
      OBVIOUS
    <2>2. T \in SUBSET Nat
      OBVIOUS
    <2>3. PICK i \in T : \A y \in T : i <= y
      BY <2>1, <2>2, Least
    <2>4. i # 0
      BY <1>2, <1>5 DEF SumsUpTo
    <2>5. i \in 1 .. Len(numbers) /\ i - 1 \in 0 .. Len(numbers) /\ i - 1 \notin T
      BY <2>3, <2>4
    <2>6. upTo[i] = f[i]
      BY <1>2, <1>5, <2>5 DEF SumsUpTo
    <2> QED
      BY <2>3, <2>6
  <1> QED
    BY <1>1, <1>2, <1>6

(* One number more adds to the sum. *)
LEMMA TotalAppended ==
  ASSUME NEW numbers \in Seq(Nat), NEW n \in Nat
  PROVE  /\ Total(numbers) \in Nat
         /\ Total(Append(numbers, n)) = Total(numbers) + n
  <1>1. PICK more : more = Append(numbers, n)
    OBVIOUS
  <1>2. /\ more \in Seq(Nat) /\ Len(numbers) \in Nat /\ Len(more) = Len(numbers) + 1
        /\ \A i \in 1 .. Len(numbers) : numbers[i] = more[i]
        /\ more[Len(numbers) + 1] = n
    BY <1>1
  <1>3. PICK f : SumsUpTo(numbers, Len(numbers), f) /\ Total(numbers) = f[Len(numbers)]
    BY TotalIs
  <1>4. PICK g : SumsUpTo(more, Len(more), g) /\ Total(more) = g[Len(more)]
    BY <1>2, TotalIs
  <1>5. f[Len(numbers)] = g[Len(numbers)]
    <2>1. Len(numbers) <= Len(more) /\ Len(more) \in Nat
      BY <1>2
    <2>2. SumsUpTo(numbers, Len(numbers), f) /\ SumsUpTo(more, Len(more), g)
      BY <1>3, <1>4
    <2>3. /\ more \in Seq(Nat) /\ Len(numbers) \in Nat
          /\ \A i \in 1 .. Len(numbers) : numbers[i] = more[i]
      BY <1>2
    <2> QED
      BY <2>1, <2>2, <2>3, SumsAgree
  <1>6. g[Len(numbers) + 1] = g[Len(numbers)] + n
    <2>1. Len(numbers) + 1 \in 1 .. Len(more) /\ (Len(numbers) + 1) - 1 = Len(numbers)
      BY <1>2
    <2> QED
      BY <1>2, <1>4, <2>1 DEF SumsUpTo
  <1>7. Total(numbers) \in Nat
    BY <1>2, <1>3 DEF SumsUpTo
  <1> QED
    BY <1>1, <1>2, <1>3, <1>4, <1>5, <1>6, <1>7

(* No numbers add up to nothing, numbers of at most ten to at most ten each.  *)
LEMMA TotalBounds ==
  /\ Total(<< >>) = 0
  /\ \A numbers \in Seq(0 .. 10) : Total(numbers) \in 0 .. 10 * Len(numbers)
  <1>1. Total(<< >>) = 0
    <2>1. << >> \in Seq(Nat) /\ Len(<< >>) = 0
      OBVIOUS
    <2> QED
      BY <2>1, TotalIs DEF SumsUpTo
  <1>2. ASSUME NEW numbers \in Seq(0 .. 10)
        PROVE  Total(numbers) \in 0 .. 10 * Len(numbers)
    <2>1. numbers \in Seq(Nat) /\ Len(numbers) \in Nat
      OBVIOUS
    <2>6. \A i \in 1 .. Len(numbers) : numbers[i] \in Nat /\ numbers[i] <= 10
      OBVIOUS
    <2>2. PICK f : SumsUpTo(numbers, Len(numbers), f) /\ Total(numbers) = f[Len(numbers)]
      BY <2>1, TotalIs
    <2> DEFINE T == {i \in 0 .. Len(numbers) : ~ (f[i] <= 10 * i)}
    <2>3. T = {}
      <3>1. SUFFICES ASSUME T # {} PROVE FALSE
        OBVIOUS
      <3>2. T \in SUBSET Nat
        BY <2>1
      <3>3. PICK i \in T : \A y \in T : i <= y
        BY <3>1, <3>2, Least
      <3>4. i # 0
        BY <2>2 DEF SumsUpTo
      <3>5. i \in 1 .. Len(numbers) /\ i - 1 \in 0 .. Len(numbers) /\ i - 1 \notin T
        BY <2>1, <3>3, <3>4
      <3>6. f[i - 1] <= 10 * (i - 1) /\ f[i - 1] \in Nat /\ f[i] = f[i - 1] + numbers[i]
        BY <2>2, <3>5 DEF SumsUpTo
      <3>7. f[i] <= 10 * i
        <4>1. numbers[i] \in Nat /\ numbers[i] <= 10 /\ i \in Nat
          BY <2>6, <3>5
        <4>2. f[i - 1] <= 10 * i - 10
          BY <3>6, <4>1
        <4> QED
          BY <3>6, <4>1, <4>2
      <3> QED
        BY <3>3, <3>7
    <2>4. Len(numbers) \in 0 .. Len(numbers)
      BY <2>1
    <2>5. f[Len(numbers)] \in Nat /\ f[Len(numbers)] <= 10 * Len(numbers)
      BY <2>2, <2>3, <2>4 DEF SumsUpTo
    <2> QED
      BY <2>1, <2>2, <2>5
  <1> QED
    BY <1>1, <1>2

(* What is read off a sheet, an answer at a time. *)
LEMMA ReadOff ==
  ASSUME NEW sheet \in Seq(QuizSelection), NEW s \in QuizSelection
  PROVE  /\ [i \in DOMAIN sheet |-> sheet[i].timeTaken] \in Seq(Nat)
         /\ [i \in DOMAIN Append(sheet, s) |-> Append(sheet, s)[i].timeTaken]
              = Append([i \in DOMAIN sheet |-> sheet[i].timeTaken], s.timeTaken)
         /\ [i \in DOMAIN sheet |-> PointsFor(sheet[i])] \in Seq(0 .. 10)
         /\ Len([i \in DOMAIN sheet |-> PointsFor(sheet[i])]) = Len(sheet)
         /\ [i \in DOMAIN Append(sheet, s) |-> PointsFor(Append(sheet, s)[i])]
              = Append([i \in DOMAIN sheet |-> PointsFor(sheet[i])], PointsFor(s))
  <1>1. PICK more : more = Append(sheet, s)
    OBVIOUS
  <1>2. /\ Len(sheet) \in Nat /\ DOMAIN sheet = 1 .. Len(sheet)
        /\ DOMAIN more = 1 .. Len(sheet) + 1
        /\ \A i \in 1 .. Len(sheet) : more[i] = sheet[i] /\ sheet[i] \in QuizSelection
        /\ more[Len(sheet) + 1] = s
    BY <1>1
  <1>3. \A i \in 1 .. Len(sheet) + 1 : i \in 1 .. Len(sheet) \/ i = Len(sheet) + 1
    BY <1>2
  <1>4. \A x \in QuizSelection : x.timeTaken \in Nat /\ PointsFor(x) \in 0 .. 10
    <2>1. \A x \in QuizSelection : x.timeTaken \in Nat
      BY DEF QuizSelection
    <2> QED
      BY <2>1 DEF PointsFor, PointsForTime
  <1>5. /\ [i \in 1 .. Len(sheet) |-> sheet[i].timeTaken] \in Seq(Nat)
        /\ [i \in 1 .. Len(sheet) |-> PointsFor(sheet[i])] \in Seq(0 .. 10)
    <2>1. /\ [i \in 1 .. Len(sheet) |-> sheet[i].timeTaken] \in [1 .. Len(sheet) -> Nat]
          /\ [i \in 1 .. Len(sheet) |-> PointsFor(sheet[i])] \in [1 .. Len(sheet) -> 0 .. 10]
      BY <1>2, <1>4
    <2>2. \A S : [1 .. Len(sheet) -> S] \subseteq Seq(S)
      BY <1>2, SeqDef
    <2> QED
      BY <2>1, <2>2
  <1>6. /\ Len([i \in 1 .. Len(sheet) |-> sheet[i].timeTaken]) = Len(sheet)
        /\ Len([i \in 1 .. Len(sheet) |-> PointsFor(sheet[i])]) = Len(sheet)
    BY <1>2, <1>5, LenProperties
  <1>7. [i \in 1 .. Len(sheet) + 1 |-> more[i].timeTaken]
          = Append([i \in 1 .. Len(sheet) |-> sheet[i].timeTaken], s.timeTaken)
    <2>1. PICK t : t = [i \in 1 .. Len(sheet) |-> sheet[i].timeTaken]
      OBVIOUS
    <2>2. PICK a : a = Append(t, s.timeTaken)
      OBVIOUS
    <2>3. /\ DOMAIN a = 1 .. Len(sheet) + 1 /\ a = [i \in DOMAIN a |-> a[i]]
          /\ \A i \in 1 .. Len(sheet) : a[i] = sheet[i].timeTaken
          /\ a[Len(sheet) + 1] = s.timeTaken
      BY <1>2, <1>4, <1>5, <1>6, <2>1, <2>2
    <2>4. \A i \in 1 .. Len(sheet) + 1 : a[i] = more[i].timeTaken
      BY <1>2, <1>3, <2>3
    <2> QED
      BY <2>1, <2>2, <2>3, <2>4
  <1>8. [i \in 1 .. Len(sheet) + 1 |-> PointsFor(more[i])]
          = Append([i \in 1 .. Len(sheet) |-> PointsFor(sheet[i])], PointsFor(s))
    <2>1. PICK t : t = [i \in 1 .. Len(sheet) |-> PointsFor(sheet[i])]
      OBVIOUS
    <2>2. PICK a : a = Append(t, PointsFor(s))
      OBVIOUS
    <2>3. /\ DOMAIN a = 1 .. Len(sheet) + 1 /\ a = [i \in DOMAIN a |-> a[i]]
          /\ \A i \in 1 .. Len(sheet) : a[i] = PointsFor(sheet[i])
          /\ a[Len(sheet) + 1] = PointsFor(s)
      BY <1>2, <1>4, <1>5, <1>6, <2>1, <2>2
    <2>4. \A i \in 1 .. Len(sheet) + 1 : a[i] = PointsFor(more[i])
      BY <1>2, <1>3, <2>3
    <2> QED
      BY <2>1, <2>2, <2>3, <2>4
  <1> QED
    BY <1>1, <1>2, <1>5, <1>6, <1>7, <1>8

(* Each answer adds its points to the sheet's, which are ten for an answer  *)
(* at the most: generateSubmission ranks a fan by the sum and nothing else. *)
THEOREM PointsAddUp ==
  ASSUME NEW sheet \in Seq(QuizSelection), NEW selection \in QuizSelection
  PROVE  /\ TotalPoints(Append(sheet, selection)) = TotalPoints(sheet) + PointsFor(selection)
         /\ TotalPoints(sheet) \in 0 .. 10 * Len(sheet)
  <1> DEFINE points == [i \in DOMAIN sheet |-> PointsFor(sheet[i])]
  <1>1. /\ points \in Seq(0 .. 10) /\ Len(points) = Len(sheet)
        /\ [i \in DOMAIN Append(sheet, selection) |-> PointsFor(Append(sheet, selection)[i])]
             = Append(points, PointsFor(selection))
    BY ReadOff
  <1>2. PointsFor(selection) \in Nat
    <2>1. selection.timeTaken \in Nat
      BY DEF QuizSelection
    <2> QED
      BY <2>1 DEF PointsFor, PointsForTime
  <1>3. TotalPoints(sheet) = Total(points)
    BY DEF TotalPoints
  <1>4. TotalPoints(Append(sheet, selection)) = Total(Append(points, PointsFor(selection)))
    BY <1>1 DEF TotalPoints
  <1> HIDE DEF points
  <1>5. points \in Seq(Nat)
    BY <1>1
  <1>6. Total(Append(points, PointsFor(selection))) = Total(points) + PointsFor(selection)
    BY <1>2, <1>5, TotalAppended
  <1> QED
    BY <1>1, <1>3, <1>4, <1>6, TotalBounds

-----------------------------------------------------------------------------
(* The order of the answers *)

(* One dot for each unit of each of the first n numbers: a sum is a count,  *)
(* and a count does not depend on an order.                                 *)
Dots(numbers, n) ==
  {dot \in (1 .. n) \X (Nat \ {0}) : dot[2] <= numbers[dot[1]]}

LEMMA DotsAre ==
  ASSUME NEW numbers \in Seq(Nat), NEW n \in 0 .. Len(numbers)
  PROVE  \A i, v : <<i, v>> \in Dots(numbers, n) <=>
                     i \in 1 .. n /\ v \in 1 .. numbers[i]
  <1> TAKE i, v
  <1>1. i \in 1 .. n => numbers[i] \in Nat
    OBVIOUS
  <1>2. i \in 1 .. n /\ v \in 1 .. numbers[i] => v \in Nat \ {0} /\ v <= numbers[i]
    BY <1>1
  <1>3. i \in 1 .. n /\ v \in Nat \ {0} /\ v <= numbers[i] => v \in 1 .. numbers[i]
    BY <1>1
  <1> QED
    BY <1>2, <1>3 DEF Dots

LEMMA Numbered ==
  ASSUME NEW n \in Nat
  PROVE  IsFiniteSet(1 .. n) /\ Cardinality(1 .. n) = n
  BY FS_Interval

(* The dots of one number are as many as it says. *)
LEMMA DotsOfOne ==
  ASSUME NEW i, NEW m \in Nat
  PROVE  IsFiniteSet({i} \X (1 .. m)) /\ Cardinality({i} \X (1 .. m)) = m
  <1>1. IsFiniteSet({i}) /\ Cardinality({i}) = 1
    BY FS_Singleton
  <1>2. IsFiniteSet(1 .. m) /\ Cardinality(1 .. m) = m
    BY Numbered
  <1>3. /\ IsFiniteSet({i} \X (1 .. m))
        /\ Cardinality({i} \X (1 .. m)) = Cardinality({i}) * Cardinality(1 .. m)
    BY <1>1, <1>2, FS_Product
  <1> QED
    BY <1>1, <1>2, <1>3

(* The dots of n numbers are those of n - 1 and those of the last. *)
LEMMA DotsGrow ==
  ASSUME NEW numbers \in Seq(Nat), NEW n \in 1 .. Len(numbers),
         IsFiniteSet(Dots(numbers, n - 1))
  PROVE  /\ IsFiniteSet(Dots(numbers, n))
         /\ Cardinality(Dots(numbers, n)) = Cardinality(Dots(numbers, n - 1)) + numbers[n]
  <1> DEFINE last == {n} \X (1 .. numbers[n])
  <1>1. numbers[n] \in Nat /\ n - 1 \in 0 .. Len(numbers) /\ n \in 0 .. Len(numbers)
    OBVIOUS
  <1>2. IsFiniteSet(last) /\ Cardinality(last) = numbers[n]
    BY <1>1, DotsOfOne
  <1>3. \A i : i \in 1 .. n <=> i \in 1 .. n - 1 \/ i = n
    OBVIOUS
  <1>4. Dots(numbers, n) = Dots(numbers, n - 1) \cup last
    <2>1. \A i, v : <<i, v>> \in Dots(numbers, n) <=>
                      <<i, v>> \in Dots(numbers, n - 1) \/ <<i, v>> \in last
      BY <1>1, <1>3, DotsAre
    <2>2. \A dot \in Dots(numbers, n) \cup Dots(numbers, n - 1) \cup last :
            dot = <<dot[1], dot[2]>>
      BY DEF Dots
    <2> QED
      BY <2>1, <2>2
  <1>5. Dots(numbers, n - 1) \cap last = {}
    BY DEF Dots
  <1>6. Cardinality(Dots(numbers, n - 1)) \in Nat
    BY FS_CardinalityType
  <1> HIDE DEF last
  <1>7. Cardinality({}) = 0
    BY FS_EmptySet
  <1>8. Cardinality(Dots(numbers, n - 1) \cup last)
          = Cardinality(Dots(numbers, n - 1)) + Cardinality(last)
              - Cardinality(Dots(numbers, n - 1) \cap last)
    BY <1>2, FS_Union
  <1>9. IsFiniteSet(Dots(numbers, n - 1) \cup last)
    BY <1>2, FS_Union
  <1>10. Cardinality(Dots(numbers, n - 1) \cap last) = 0
    BY <1>5, <1>7
  <1>11. Cardinality(Dots(numbers, n - 1) \cup last)
           = Cardinality(Dots(numbers, n - 1)) + numbers[n]
    BY <1>1, <1>2, <1>6, <1>8, <1>10
  <1> QED
    BY <1>4, <1>9, <1>11

LEMMA TotalCountsDots ==
  ASSUME NEW numbers \in Seq(Nat)
  PROVE  /\ IsFiniteSet(Dots(numbers, Len(numbers)))
         /\ Total(numbers) = Cardinality(Dots(numbers, Len(numbers)))
         /\ Total(numbers) \in Nat
  <1>1. PICK f : SumsUpTo(numbers, Len(numbers), f) /\ Total(numbers) = f[Len(numbers)]
    BY TotalIs
  <1> DEFINE Counts(n) == /\ IsFiniteSet(Dots(numbers, n))
                          /\ Cardinality(Dots(numbers, n)) = f[n]
             T == {n \in 0 .. Len(numbers) : ~ Counts(n)}
  <1>2. T = {}
    <2>1. SUFFICES ASSUME T # {} PROVE FALSE
      OBVIOUS
    <2>2. T \in SUBSET Nat
      OBVIOUS
    <2>3. PICK n \in T : \A y \in T : n <= y
      BY <2>1, <2>2, Least
    <2>4. Counts(0)
      <3>1. Dots(numbers, 0) = {}
        BY DEF Dots
      <3> QED
        BY <1>1, <3>1, FS_EmptySet DEF SumsUpTo
    <2>5. n \in 1 .. Len(numbers) /\ n - 1 \in 0 .. Len(numbers) /\ n - 1 \notin T
      <3>1. n # 0
        BY <2>4
      <3> QED
        BY <2>3, <3>1
    <2>6. Counts(n - 1)
      BY <2>5
    <2>7. f[n] = f[n - 1] + numbers[n]
      BY <1>1, <2>5 DEF SumsUpTo
    <2>8. Counts(n)
      BY <2>5, <2>6, <2>7, DotsGrow
    <2> QED
      BY <2>3, <2>8
  <1>3. Len(numbers) \in 0 .. Len(numbers)
    OBVIOUS
  <1>4. Counts(Len(numbers))
    BY <1>2, <1>3
  <1> QED
    BY <1>1, <1>4, FS_CardinalityType

(* The same numbers in another order have the same sum. *)
LEMMA TotalRearranged ==
  ASSUME NEW s \in Seq(Nat), NEW t \in Seq(Nat),
         NEW p \in Bijection(1 .. Len(t), 1 .. Len(s)),
         \A i \in 1 .. Len(t) : t[i] = s[p[i]]
  PROVE  Total(t) = Total(s)
  <1> DEFINE D == Dots(t, Len(t))
             E == Dots(s, Len(s))
             move == [dot \in D |-> <<p[dot[1]], dot[2]>>]
  <1>1. /\ \A i, v : <<i, v>> \in D <=> i \in 1 .. Len(t) /\ v \in 1 .. t[i]
        /\ \A i, v : <<i, v>> \in E <=> i \in 1 .. Len(s) /\ v \in 1 .. s[i]
    <2>1. Len(t) \in 0 .. Len(t) /\ Len(s) \in 0 .. Len(s)
      OBVIOUS
    <2> QED
      BY <2>1, DotsAre
  <1>2. \A dot \in D \cup E : dot = <<dot[1], dot[2]>>
    BY DEF Dots
  <1>3. /\ p \in [1 .. Len(t) -> 1 .. Len(s)]
        /\ \A a, b \in 1 .. Len(t) : p[a] = p[b] => a = b
        /\ \A j \in 1 .. Len(s) : \E i \in 1 .. Len(t) : p[i] = j
    BY DEF Bijection, Injection, Surjection, IsInjective
  <1> HIDE DEF D, E
  <1>4. \A dot \in D : dot[1] \in 1 .. Len(t) /\ dot[2] \in 1 .. t[dot[1]]
    BY <1>1, <1>2
  <1>5. \A dot \in D : <<p[dot[1]], dot[2]>> \in E
    <2> TAKE dot \in D
    <2>1. PICK i, v : dot[1] = i /\ dot[2] = v
      OBVIOUS
    <2>2. p[i] \in 1 .. Len(s) /\ v \in 1 .. s[p[i]]
      BY <1>3, <1>4, <2>1
    <2>3. <<p[i], v>> \in E
      BY <1>1, <2>2
    <2> QED
      BY <2>1, <2>3
  <1>6. move \in [D -> E]
    BY <1>5
  <1>7. \A a, b \in D : move[a] = move[b] => a = b
    <2> SUFFICES ASSUME NEW a \in D, NEW b \in D, move[a] = move[b] PROVE a = b
      OBVIOUS
    <2>1. p[a[1]] = p[b[1]] /\ a[2] = b[2]
      OBVIOUS
    <2>2. a[1] = b[1]
      BY <1>3, <1>4, <2>1
    <2> QED
      BY <1>2, <2>1, <2>2
  <1>8. \A e \in E : \E d \in D : move[d] = e
    <2> TAKE e \in E
    <2>1. e = <<e[1], e[2]>> /\ e[1] \in 1 .. Len(s) /\ e[2] \in 1 .. s[e[1]]
      BY <1>1, <1>2
    <2>2. PICK i \in 1 .. Len(t) : p[i] = e[1]
      BY <1>3, <2>1
    <2>3. <<i, e[2]>> \in D
      BY <1>1, <2>1, <2>2
    <2>4. move[<<i, e[2]>>] = e
      BY <2>1, <2>2, <2>3
    <2> QED
      BY <2>3, <2>4
  <1>9. ExistsBijection(D, E)
    <2>1. move \in Bijection(D, E)
      <3> HIDE DEF move
      <3> QED
        BY <1>6, <1>7, <1>8, Fun_IsBij
    <2> QED
      BY <2>1 DEF ExistsBijection
  <1>10. /\ IsFiniteSet(D) /\ Total(t) = Cardinality(D) /\ Total(s) = Cardinality(E)
    BY TotalCountsDots DEF D, E
  <1> QED
    BY <1>9, <1>10, FS_Bijection

(* What is read off a sheet, whole. *)
LEMMA PointsAndTimes ==
  ASSUME NEW sheet \in Seq(QuizSelection)
  PROVE  /\ [i \in DOMAIN sheet |-> PointsFor(sheet[i])] \in Seq(Nat)
         /\ Len([i \in DOMAIN sheet |-> PointsFor(sheet[i])]) = Len(sheet)
         /\ [i \in DOMAIN sheet |-> sheet[i].timeTaken] \in Seq(Nat)
         /\ Len([i \in DOMAIN sheet |-> sheet[i].timeTaken]) = Len(sheet)
  <1>1. /\ Len(sheet) \in Nat /\ DOMAIN sheet = 1 .. Len(sheet)
        /\ \A i \in 1 .. Len(sheet) : sheet[i] \in QuizSelection
    OBVIOUS
  <1>2. \A x \in QuizSelection : x.timeTaken \in Nat /\ PointsFor(x) \in Nat
    <2>1. \A x \in QuizSelection : x.timeTaken \in Nat
      BY DEF QuizSelection
    <2> QED
      BY <2>1 DEF PointsFor, PointsForTime
  <1>3. /\ [i \in DOMAIN sheet |-> PointsFor(sheet[i])] \in [1 .. Len(sheet) -> Nat]
        /\ [i \in DOMAIN sheet |-> sheet[i].timeTaken] \in [1 .. Len(sheet) -> Nat]
    BY <1>1, <1>2
  <1>4. \A S : [1 .. Len(sheet) -> S] \subseteq Seq(S)
    BY <1>1, SeqDef
  <1> QED
    BY <1>1, <1>3, <1>4, LenProperties

(* The points of a sheet are one to ten for each answer the result screen   *)
(* counts as correct, and none for the others: generateSubmission and       *)
(* correctScoreCount, in two view models, agree on every sheet.             *)
THEOREM ScoreWithinPoints ==
  ASSUME NEW sheet \in Seq(QuizSelection)
  PROVE  /\ CorrectScoreCount(sheet) \in 0 .. Len(sheet)
         /\ CorrectScoreCount(sheet) <= TotalPoints(sheet)
         /\ TotalPoints(sheet) <= 10 * CorrectScoreCount(sheet)
  <1> DEFINE points == [i \in DOMAIN sheet |-> PointsFor(sheet[i])]
             C == {i \in DOMAIN sheet : IsCorrect(sheet[i])}
             D == Dots(points, Len(points))
             first == [i \in C |-> <<i, 1>>]
  <1>1. points \in Seq(Nat) /\ Len(points) = Len(sheet)
    BY PointsAndTimes
  <1>2. /\ TotalPoints(sheet) = Total(points) /\ CorrectScoreCount(sheet) = Cardinality(C)
    BY DEF TotalPoints, CorrectScoreCount
  <1>3. /\ Len(sheet) \in Nat /\ DOMAIN sheet = 1 .. Len(sheet)
        /\ \A i \in 1 .. Len(sheet) : sheet[i] \in QuizSelection
    OBVIOUS
  <1>4. /\ \A i \in C : points[i] \in 1 .. 10
        /\ \A i \in 1 .. Len(sheet) : i \notin C => points[i] = 0
    BY <1>3, PointsInRange
  <1>5. /\ IsFiniteSet(C) /\ Cardinality(C) \in 0 .. Len(sheet)
    <2>1. IsFiniteSet(1 .. Len(sheet)) /\ Cardinality(1 .. Len(sheet)) = Len(sheet)
      BY <1>3, Numbered
    <2>2. C \in SUBSET (1 .. Len(sheet))
      BY <1>3
    <2> HIDE DEF C
    <2>3. IsFiniteSet(C) /\ Cardinality(C) <= Cardinality(1 .. Len(sheet))
      BY <2>1, <2>2, FS_Subset
    <2>4. Cardinality(C) \in Nat
      BY <2>3, FS_CardinalityType
    <2> QED
      BY <2>1, <2>3, <2>4
  <1>6. C \subseteq 1 .. Len(sheet)
    BY <1>3
  <1> HIDE DEF C, points
  <1>7. \A i, v : <<i, v>> \in D <=> i \in 1 .. Len(sheet) /\ v \in 1 .. points[i]
    <2>1. Len(points) \in 0 .. Len(points)
      BY <1>1, <1>3
    <2> QED
      BY <1>1, <2>1, DotsAre
  <1>8. \A dot \in D : dot = <<dot[1], dot[2]>>
    BY DEF Dots
  <1> HIDE DEF D
  <1>9. IsFiniteSet(D) /\ Total(points) = Cardinality(D) /\ Total(points) \in Nat
    BY <1>1, TotalCountsDots DEF D
  <1>10. Cardinality(C) <= Cardinality(D)
    <2>1. \A i \in C : <<i, 1>> \in D
      BY <1>4, <1>6, <1>7
    <2>2. first \in [C -> D] /\ \A a, b \in C : first[a] = first[b] => a = b
      BY <2>1
    <2>3. first \in Injection(C, D)
      <3> HIDE DEF first
      <3> QED
        BY <2>2, Fun_IsInj
    <2> QED
      BY <1>9, <2>3, FS_Injection
  <1>11. Cardinality(D) <= Cardinality(C) * 10
    <2>1. IsFiniteSet(1 .. 10) /\ Cardinality(1 .. 10) = 10
      BY Numbered
    <2>2. /\ IsFiniteSet(C \X (1 .. 10))
          /\ Cardinality(C \X (1 .. 10)) = Cardinality(C) * Cardinality(1 .. 10)
      BY <1>5, <2>1, FS_Product
    <2>3. ASSUME NEW i, NEW v, <<i, v>> \in D PROVE <<i, v>> \in C \X (1 .. 10)
      <3>1. i \in 1 .. Len(sheet) /\ v \in 1 .. points[i]
        BY <1>7, <2>3
      <3>2. i \in C
        BY <1>4, <3>1
      <3>3. points[i] \in 1 .. 10
        BY <1>4, <3>2
      <3> QED
        BY <3>1, <3>2, <3>3
    <2>4. D \in SUBSET (C \X (1 .. 10))
      BY <1>8, <2>3
    <2>5. Cardinality(D) <= Cardinality(C \X (1 .. 10))
      BY <2>2, <2>4, FS_Subset
    <2> QED
      BY <2>1, <2>2, <2>5
  <1> QED
    BY <1>2, <1>5, <1>9, <1>10, <1>11

(* What the result screen computes of a sheet does not depend on the order  *)
(* in which its answers come back: their number, the correct ones, the      *)
(* seconds and the points stay.                                             *)
THEOREM OrderDoesNotCount ==
  ASSUME NEW sheet \in Seq(QuizSelection), NEW shown \in Seq(QuizSelection),
         NEW p \in Bijection(1 .. Len(shown), 1 .. Len(sheet)),
         \A i \in 1 .. Len(shown) : shown[i] = sheet[p[i]]
  PROVE  /\ Len(shown) = Len(sheet)
         /\ CorrectScoreCount(shown) = CorrectScoreCount(sheet)
         /\ TotalTimeTaken(shown) = TotalTimeTaken(sheet)
         /\ TotalPoints(shown) = TotalPoints(sheet)
  <1>1. /\ Len(sheet) \in Nat /\ DOMAIN sheet = 1 .. Len(sheet)
        /\ Len(shown) \in Nat /\ DOMAIN shown = 1 .. Len(shown)
    OBVIOUS
  <1>2. /\ p \in [1 .. Len(shown) -> 1 .. Len(sheet)]
        /\ \A a, b \in 1 .. Len(shown) : p[a] = p[b] => a = b
        /\ \A j \in 1 .. Len(sheet) : \E i \in 1 .. Len(shown) : p[i] = j
    BY DEF Bijection, Injection, Surjection, IsInjective
  <1>3. Len(shown) = Len(sheet)
    <2>1. /\ IsFiniteSet(1 .. Len(shown)) /\ Cardinality(1 .. Len(shown)) = Len(shown)
          /\ IsFiniteSet(1 .. Len(sheet)) /\ Cardinality(1 .. Len(sheet)) = Len(sheet)
      BY <1>1, Numbered
    <2>2. ExistsBijection(1 .. Len(shown), 1 .. Len(sheet))
      BY DEF ExistsBijection
    <2> QED
      BY <2>1, <2>2, FS_Bijection
  <1>4. CorrectScoreCount(shown) = CorrectScoreCount(sheet)
    <2> DEFINE C == {i \in DOMAIN shown : IsCorrect(shown[i])}
               D == {i \in DOMAIN sheet : IsCorrect(sheet[i])}
               q == [i \in C |-> p[i]]
    <2>1. \A i \in C : p[i] \in D
      BY <1>1, <1>2
    <2>2. \A i \in C : i \in 1 .. Len(shown)
      BY <1>1
    <2>3. \A j \in D : \E i \in C : p[i] = j
      <3> TAKE j \in D
      <3>1. PICK i \in 1 .. Len(shown) : p[i] = j
        BY <1>1, <1>2
      <3>2. i \in C
        BY <1>1, <3>1
      <3> QED
        BY <3>1, <3>2
    <2> HIDE DEF C, D
    <2>4. /\ q \in [C -> D]
          /\ \A a, b \in C : q[a] = q[b] => a = b
          /\ \A j \in D : \E i \in C : q[i] = j
      BY <1>2, <2>1, <2>2, <2>3
    <2>5. ExistsBijection(C, D)
      <3> HIDE DEF q
      <3>1. q \in Bijection(C, D)
        BY <2>4, Fun_IsBij
      <3> QED
        BY <3>1 DEF ExistsBijection
    <2>6. IsFiniteSet(C)
      <3>1. IsFiniteSet(1 .. Len(shown))
        BY <1>1, Numbered
      <3>2. C \in SUBSET (1 .. Len(shown))
        BY <2>2
      <3> QED
        BY <3>1, <3>2, FS_Subset
    <2>7. Cardinality(D) = Cardinality(C)
      BY <2>5, <2>6, FS_Bijection
    <2> QED
      BY <2>7 DEF C, D, CorrectScoreCount
  <1>5. TotalTimeTaken(shown) = TotalTimeTaken(sheet)
    <2> DEFINE s == [i \in DOMAIN sheet |-> sheet[i].timeTaken]
               t == [i \in DOMAIN shown |-> shown[i].timeTaken]
    <2>1. s \in Seq(Nat) /\ t \in Seq(Nat) /\ Len(s) = Len(sheet) /\ Len(t) = Len(shown)
      BY PointsAndTimes
    <2>2. \A i \in 1 .. Len(shown) : t[i] = s[p[i]]
      BY <1>1, <1>2
    <2>3. TotalTimeTaken(shown) = Total(t) /\ TotalTimeTaken(sheet) = Total(s)
      BY DEF TotalTimeTaken
    <2> HIDE DEF s, t
    <2> QED
      BY <2>1, <2>2, <2>3, TotalRearranged
  <1>6. TotalPoints(shown) = TotalPoints(sheet)
    <2> DEFINE s == [i \in DOMAIN sheet |-> PointsFor(sheet[i])]
               t == [i \in DOMAIN shown |-> PointsFor(shown[i])]
    <2>1. s \in Seq(Nat) /\ t \in Seq(Nat) /\ Len(s) = Len(sheet) /\ Len(t) = Len(shown)
      BY PointsAndTimes
    <2>2. \A i \in 1 .. Len(shown) : t[i] = s[p[i]]
      BY <1>1, <1>2
    <2>3. TotalPoints(shown) = Total(t) /\ TotalPoints(sheet) = Total(s)
      BY DEF TotalPoints
    <2> HIDE DEF s, t
    <2> QED
      BY <2>1, <2>2, <2>3, TotalRearranged
  <1> QED
    BY <1>3, <1>4, <1>5, <1>6
=============================================================================
