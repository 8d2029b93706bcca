--------------------------- MODULE EvaluationProofs ---------------------------
(***************************************************************************)
(* The recommended action is that of the exact score: the rounding to a    *)
(* tenth of a percent never crosses 50 or 75 percent, whatever the         *)
(* questions, the answers and the grades, for quizzes of up to 33 points.  *)
(* And the report is of one piece: its results are those of the quiz, in   *)
(* order, its totals and its weak sub-concepts are theirs, and what costs  *)
(* marks is explained.                                                     *)
(***************************************************************************)
EXTENDS QuizEvaluation, FiniteSetTheorems, WellFoundedInduction, TLAPS

\* A product of naturals is one.
LEMMA ProductIsNat ==
  ASSUME NEW a \in Nat, NEW b \in Nat
  PROVE  a * b \in Nat
  OBVIOUS

\* Scaling keeps an order between percentages.
LEMMA Scaled ==
  ASSUME NEW p \in Nat, NEW t \in Nat, NEW m \in Nat
  PROVE  /\ p >= t => p * m >= t * m
         /\ p < t  => p * m + m <= t * m
<1>1. ASSUME p >= t PROVE p * m >= t * m
  <2>1. p - t \in Nat
    BY <1>1
  <2>2. (p - t) * m \in Nat
    BY <2>1, ProductIsNat
  <2>3. p * m = (p - t) * m + t * m
    OBVIOUS
  <2>4. p * m \in Int /\ t * m \in Int
    OBVIOUS
  <2>. QED
    BY <2>2, <2>3, <2>4
<1>2. ASSUME p < t PROVE p * m + m <= t * m
  <2>1. t - p - 1 \in Nat
    BY <1>2
  <2>2. (t - p - 1) * m \in Nat
    BY <2>1, ProductIsNat
  <2>3. t * m = (t - p - 1) * m + p * m + m
    OBVIOUS
  <2>4. p * m \in Int /\ t * m \in Int
    OBVIOUS
  <2>. QED
    BY <2>2, <2>3, <2>4
<1>. QED
  BY <1>1, <1>2

\* A percentage rounded to tenths is on the exact score's side of 50 and of 75.
\* 60 m is even and a multiple of 4, so a score below a threshold is below it
\* by more than half a tenth of a percent as long as 60 m < 2000.
LEMMA RoundingKeepsThresholds ==
  ASSUME NEW m \in 1..33, NEW u \in Int, NEW p \in Percentages(u, 60 * m)
  PROVE  /\ p >= 500 <=> 2 * u >= 60 * m
         /\ p >= 750 <=> 4 * u >= 3 * (60 * m)
<1>. DEFINE pm == p * m
<1>1. p \in 0..1000 /\ m \in Nat /\ p \in Nat
  BY DEF Percentages
<1>2. pm \in Int
  BY <1>1
<1>3. 2 * p * (60 * m) = 120 * pm
  BY <1>1
<1>4. /\ -(60 * m) <= 120 * pm - 2000 * u
      /\ 120 * pm - 2000 * u <= 60 * m
  BY <1>3 DEF Percentages
<1>5. /\ p >= 500 => pm >= 500 * m
      /\ p < 500  => pm + m <= 500 * m
  BY <1>1, Scaled
<1>6. /\ p >= 750 => pm >= 750 * m
      /\ p < 750  => pm + m <= 750 * m
  BY <1>1, Scaled
<1>. HIDE DEF pm
<1>7. p >= 500 <=> 2 * u >= 60 * m
  BY <1>1, <1>2, <1>4, <1>5
<1>8. p >= 750 <=> 4 * u >= 3 * (60 * m)
  BY <1>1, <1>2, <1>4, <1>6
<1>. QED
  BY <1>7, <1>8

-----------------------------------------------------------------------------
(* What a loop computes.                                                   *)

\* A set of naturals has a least element.
LEMMA Least ==
  ASSUME NEW T, T \subseteq Nat, T # {}
  PROVE  \E n \in T : \A m \in T : n <= m
<1>1. PICK n \in T : \A m \in T : <<m, n>> \notin OpToRel(<, Nat)
  BY NatLessThanWellFounded, WFMin
<1>2. \A m \in T : ~ (m < n)
  BY <1>1 DEF OpToRel
<1>. QED
  BY <1>2

\* f holds the value after each of n rounds.
Rounds(f, step, start, n) ==
  f = [k \in 0..n |-> IF k = 0 THEN start ELSE step[k][f[k - 1]]]

\* That is: it starts with start, and each round works on the last value.
LEMMA RoundsAre ==
  ASSUME NEW n \in Nat, NEW start, NEW step, NEW f
  PROVE  Rounds(f, step, start, n)
         <=> /\ f = [k \in 0..n |-> f[k]] /\ f[0] = start
             /\ \A k \in 1..n : f[k] = step[k][f[k - 1]]
<1>1. ASSUME Rounds(f, step, start, n)
      PROVE  /\ f = [k \in 0..n |-> f[k]] /\ f[0] = start
             /\ \A k \in 1..n : f[k] = step[k][f[k - 1]]
  <2>1. DOMAIN f = 0..n /\ f = [k \in 0..n |-> f[k]]
    BY <1>1 DEF Rounds
  <2>2. \A k \in 0..n : f[k] = IF k = 0 THEN start ELSE step[k][f[k - 1]]
    BY <1>1 DEF Rounds
  <2>3. 0 \in 0..n /\ \A k \in 1..n : k \in 0..n /\ k # 0
    OBVIOUS
  <2>. QED
    BY <2>1, <2>2, <2>3
<1>2. ASSUME f = [k \in 0..n |-> f[k]], f[0] = start,
             \A k \in 1..n : f[k] = step[k][f[k - 1]]
      PROVE  Rounds(f, step, start, n)
  <2>1. ASSUME NEW k \in 0..n
        PROVE  f[k] = IF k = 0 THEN start ELSE step[k][f[k - 1]]
    <3>1. k = 0 \/ k \in 1..n
      OBVIOUS
    <3>. QED
      BY <1>2, <3>1
  <2>2. [k \in 0..n |-> f[k]] = [k \in 0..n |-> IF k = 0 THEN start ELSE step[k][f[k - 1]]]
    BY <2>1
  <2>. QED
    BY <1>2, <2>2 DEF Rounds
<1>. QED
  BY <1>1, <1>2

\* Two tables of the same rounds are one.
LEMMA RoundsAgree ==
  ASSUME NEW n \in Nat, NEW start, NEW step, NEW f, NEW g,
         Rounds(f, step, start, n), Rounds(g, step, start, n)
  PROVE  f = g
<1>. DEFINE T == {k \in 0..n : f[k] # g[k]}
<1>1. /\ f = [k \in 0..n |-> f[k]] /\ f[0] = start
      /\ \A k \in 1..n : f[k] = step[k][f[k - 1]]
  BY RoundsAre
<1>2. /\ g = [k \in 0..n |-> g[k]] /\ g[0] = start
      /\ \A k \in 1..n : g[k] = step[k][g[k - 1]]
  BY RoundsAre
<1>3. T = {}
  <2>. SUFFICES ASSUME T # {}  PROVE FALSE
    OBVIOUS
  <2>1. T \subseteq Nat
    OBVIOUS
  <2>2. PICK k \in T : \A m \in T : k <= m
    BY <2>1, Least
  <2>3. k \in 1..n /\ k - 1 \in 0..n /\ k - 1 \notin T
    BY <1>1, <1>2, <2>2
  <2>4. f[k - 1] = g[k - 1]
    BY <2>3
  <2>. QED
    BY <1>1, <1>2, <2>2, <2>3, <2>4
<1>. QED
  BY <1>1, <1>2, <1>3

\* There is one, and it stays among the values that the rounds keep.
LEMMA RoundsExist ==
  ASSUME NEW n \in Nat, NEW A, NEW start \in A, NEW step \in [1..n -> [A -> A]]
  PROVE  \E f \in [0..n -> A] : Rounds(f, step, start, n)
<1>. DEFINE Made(m) == \E f \in [0..m -> A] : Rounds(f, step, start, m)
           T == {m \in 0..n : ~ Made(m)}
<1>1. Made(0)
  <2>. DEFINE f == [k \in 0..0 |-> start]
  <2>1. f \in [0..0 -> A] /\ f[0] = start /\ f = [k \in 0..0 |-> f[k]]
    OBVIOUS
  <2>2. 1..0 = {} /\ 0 \in Nat
    OBVIOUS
  <2>. HIDE DEF f
  <2>3. Rounds(f, step, start, 0)
    BY <2>1, <2>2, RoundsAre
  <2>. QED
    BY <2>1, <2>3
<1>2. ASSUME NEW m \in 0..n, m # n, Made(m)
      PROVE  Made(m + 1)
  <2>1. PICK f \in [0..m -> A] : Rounds(f, step, start, m)
    BY <1>2
  <2>2. f[0] = start /\ \A k \in 1..m : f[k] = step[k][f[k - 1]]
    BY <2>1, RoundsAre
  <2>. DEFINE g == [k \in 0..(m + 1) |-> IF k = m + 1 THEN step[k][f[m]] ELSE f[k]]
  <2>3. step[m + 1][f[m]] \in A
    <3>1. m + 1 \in 1..n /\ m \in 0..m
      BY <1>2
    <3>. QED
      BY <3>1
  <2>4. g \in [0..(m + 1) -> A]
    BY <2>3
  <2>5. g[0] = start /\ g = [k \in 0..(m + 1) |-> g[k]]
    BY <2>2
  <2>6. ASSUME NEW k \in 1..(m + 1)
        PROVE  g[k] = step[k][g[k - 1]]
    <3>1. CASE k = m + 1
      <4>1. g[k] = step[k][f[m]] /\ k - 1 = m /\ g[m] = f[m]
        BY <3>1
      <4>. QED
        BY <4>1
    <3>2. CASE k # m + 1
      <4>1. k \in 1..m /\ g[k] = f[k] /\ g[k - 1] = f[k - 1]
        BY <3>2
      <4>. QED
        BY <2>2, <4>1
    <3>. QED
      BY <3>1, <3>2
  <2>. HIDE DEF g
  <2>7. m + 1 \in Nat
    OBVIOUS
  <2>8. Rounds(g, step, start, m + 1)
    BY <2>5, <2>6, <2>7, RoundsAre
  <2>. QED
    BY <2>4, <2>8
<1>. HIDE DEF Made
<1>3. T = {}
  <2>. SUFFICES ASSUME T # {}  PROVE FALSE
    OBVIOUS
  <2>1. T \subseteq Nat
    OBVIOUS
  <2>2. PICK m \in T : \A k \in T : m <= k
    BY <2>1, Least
  <2>3. m # 0
    BY <1>1, <2>2
  <2>4. m - 1 \in 0..n /\ m - 1 # n /\ m - 1 \notin T /\ (m - 1) + 1 = m
    BY <2>2, <2>3
  <2>5. Made(m - 1)
    BY <2>4
  <2>6. Made((m - 1) + 1)
    BY <1>2, <2>4, <2>5
  <2>. QED
    BY <2>2, <2>4, <2>6
<1>4. n \in 0..n /\ n \notin T
  BY <1>3
<1>5. Made(n)
  BY <1>4
<1>. QED
  BY <1>5 DEF Made

\* So that is what Loop looks up.
LEMMA LoopIs ==
  ASSUME NEW n \in Nat, NEW start, NEW step, NEW f, Rounds(f, step, start, n)
  PROVE  Loop(step, start, n) = f[n]
<1>. DEFINE g == CHOOSE g : g = [k \in 0..n |-> IF k = 0 THEN start ELSE step[k][g[k - 1]]]
<1>1. \E h : h = [k \in 0..n |-> IF k = 0 THEN start ELSE step[k][h[k - 1]]]
  BY DEF Rounds
<1>2. g = [k \in 0..n |-> IF k = 0 THEN start ELSE step[k][g[k - 1]]]
  BY <1>1
<1>3. Loop(step, start, n) = g[n]
  BY DEF Loop
<1>. HIDE DEF g
<1>4. Rounds(g, step, start, n)
  BY <1>2 DEF Rounds
<1>5. g = f
  BY <1>4, RoundsAgree
<1>. QED
  BY <1>3, <1>5

\* One round more.
Steps(step, n, A) == step \in [1..n -> [A -> A]]

\* The loop with one round more does that round on what it made before.
LEMMA LoopStep ==
  ASSUME NEW n \in Nat, NEW m \in Nat, m = n + 1, NEW A, NEW start \in A,
         NEW short, Steps(short, n, A), NEW long, Steps(long, m, A),
         \A k \in 1..n : long[k] = short[k]
  PROVE  /\ Loop(short, start, n) \in A
         /\ Loop(long, start, m) = long[m][Loop(short, start, n)]
<1>1. n \in 0..n /\ m \in 1..m
  OBVIOUS
<1>2. PICK f \in [0..m -> A] : Rounds(f, long, start, m)
  BY <1>1, RoundsExist DEF Steps
<1>3. f[0] = start /\ \A k \in 1..m : f[k] = long[k][f[k - 1]]
  BY <1>1, <1>2, RoundsAre
<1>. DEFINE g == [k \in 0..n |-> f[k]]
<1>4. g \in [0..n -> A] /\ g[0] = start /\ g = [k \in 0..n |-> g[k]] /\ g[n] = f[n]
  BY <1>2, <1>3
<1>5. ASSUME NEW k \in 1..n
      PROVE  g[k] = short[k][g[k - 1]]
  <2>1. k \in 1..m /\ g[k] = f[k] /\ g[k - 1] = f[k - 1]
    OBVIOUS
  <2>. QED
    BY <1>3, <2>1
<1>. HIDE DEF g
<1>6. Rounds(g, short, start, n)
  BY <1>4, <1>5, RoundsAre
<1>7. Loop(short, start, n) = g[n]
  BY <1>6, LoopIs
<1>8. Loop(long, start, m) = f[m]
  BY <1>1, <1>2, LoopIs
<1>9. f[m] = long[m][f[m - 1]] /\ m - 1 = n
  BY <1>1, <1>3
<1>. QED
  BY <1>1, <1>4, <1>7, <1>8, <1>9

\* No round leaves the start.
LEMMA LoopNone ==
  ASSUME NEW start, NEW step
  PROVE  Loop(step, start, 0) = start
<1>. DEFINE f == [k \in 0..0 |-> start]
<1>1. f[0] = start /\ f = [k \in 0..0 |-> f[k]] /\ 0 \in Nat /\ 1..0 = {}
  OBVIOUS
<1>. HIDE DEF f
<1>2. Rounds(f, step, start, 0)
  BY <1>1, RoundsAre
<1>. QED
  BY <1>1, <1>2, LoopIs

\* A total grows by what is added.
LEMMA TotalGrows ==
  ASSUME NEW n \in Nat, NEW m \in Nat, m = n + 1, NEW v \in [1..n -> Int], NEW w \in [1..m -> Int],
         \A k \in 1..n : w[k] = v[k]
  PROVE  TotalOf(v) \in Int /\ TotalOf(w) = TotalOf(v) + w[m]
<1>. DEFINE short == [k \in 1..n |-> [sum \in Int |-> sum + v[k]]]
           long  == [k \in 1..m |-> [sum \in Int |-> sum + w[k]]]
<1>1. Steps(short, n, Int) /\ Steps(long, m, Int) /\ 0 \in Int
  BY DEF Steps
<1>2. ASSUME NEW k \in 1..n
      PROVE  long[k] = short[k]
  <2>1. k \in 1..m /\ w[k] = v[k]
    OBVIOUS
  <2>. QED
    BY <2>1
<1>3. \A x \in Int : long[m][x] = x + w[m]
  OBVIOUS
<1>4. v \in Seq(Int) /\ Len(v) = n /\ DOMAIN v = 1..n
  OBVIOUS
<1>5. w \in Seq(Int) /\ Len(w) = m /\ DOMAIN w = 1..m
  OBVIOUS
<1>6. TotalOf(v) = Loop(short, 0, n)
  BY <1>4 DEF TotalOf
<1>7. TotalOf(w) = Loop(long, 0, m)
  BY <1>5 DEF TotalOf
<1>. HIDE DEF short, long
<1>8. Loop(short, 0, n) \in Int /\ Loop(long, 0, m) = long[m][Loop(short, 0, n)]
  <2>1. \A k \in 1..n : long[k] = short[k]
    BY <1>2
  <2>2. PICK A : A = Int
    OBVIOUS
  <2>3. Steps(short, n, A) /\ Steps(long, m, A) /\ 0 \in A
    BY <1>1, <2>2
  <2>4. Loop(short, 0, n) \in A /\ Loop(long, 0, m) = long[m][Loop(short, 0, n)]
    BY <2>1, <2>3, LoopStep
  <2>. QED
    BY <2>2, <2>4
<1>. QED
  BY <1>3, <1>6, <1>7, <1>8

\* The total of nothing is 0.
LEMMA TotalOfNone ==
  ASSUME NEW v, v = <<>>
  PROVE  TotalOf(v) = 0
<1>1. Len(v) = 0
  OBVIOUS
<1>2. TotalOf(v) = Loop([k \in DOMAIN v |-> [sum \in Int |-> sum + v[k]]], 0, 0)
  BY <1>1 DEF TotalOf
<1>. QED
  BY <1>2, LoopNone

\* A loop in which the rounds of low note their concept.
Noting(n, C, low, con) ==
  [k \in 1..n |-> [cs \in Seq(C) |-> IF k \in low THEN Noted(cs, con[k]) ELSE cs]]

OfLow(low, con) == {con[k] : k \in low}

\* The concepts noted in it are those of these rounds.
LEMMA NotedAre ==
  ASSUME NEW n \in Nat, NEW C, NEW low \in SUBSET (1..n), NEW con \in [1..n -> C]
  PROVE  Range(Loop(Noting(n, C, low, con), <<>>, n)) = OfLow(low, con)
<1>. DEFINE step == Noting(n, C, low, con)
<1>0. step = [k \in 1..n |-> [cs \in Seq(C) |-> IF k \in low THEN Noted(cs, con[k]) ELSE cs]]
  BY DEF Noting
<1>. HIDE DEF step
<1>1. ASSUME NEW cs \in Seq(C), NEW c \in C
      PROVE  Noted(cs, c) \in Seq(C) /\ Range(Noted(cs, c)) = Range(cs) \cup {c}
  <2>1. CASE c \in Range(cs)
    BY <2>1 DEF Noted
  <2>2. CASE c \notin Range(cs)
    <3>. DEFINE ds == Append(cs, c)
    <3>1. /\ Noted(cs, c) = ds /\ ds \in Seq(C)
          /\ Len(cs) \in Nat /\ DOMAIN cs = 1..Len(cs) /\ DOMAIN ds = 1..(Len(cs) + 1)
          /\ ds[Len(cs) + 1] = c /\ \A i \in 1..Len(cs) : ds[i] = cs[i]
      BY <2>2 DEF Noted
    <3>. HIDE DEF ds
    <3>2. ASSUME NEW i \in DOMAIN ds
          PROVE  ds[i] \in Range(cs) \cup {c}
      <4>1. i \in 1..Len(cs) \/ i = Len(cs) + 1
        BY <3>1
      <4>. QED
        BY <3>1, <4>1 DEF Range
    <3>3. ASSUME NEW x \in Range(cs) \cup {c}
          PROVE  \E i \in DOMAIN ds : ds[i] = x
      <4>1. CASE x = c
        <5>1. Len(cs) + 1 \in DOMAIN ds
          BY <3>1
        <5>. QED
          BY <3>1, <4>1, <5>1
      <4>2. CASE x # c
        <5>1. PICK i \in 1..Len(cs) : cs[i] = x
          BY <3>1, <3>3, <4>2 DEF Range
        <5>2. i \in DOMAIN ds
          BY <3>1
        <5>. QED
          BY <3>1, <5>1, <5>2
      <4>. QED
        BY <4>1, <4>2
    <3>4. Range(ds) = Range(cs) \cup {c}
      BY <3>2, <3>3 DEF Range
    <3>. QED
      BY <3>1, <3>4
  <2>. QED
    BY <2>1, <2>2
<1>2. step \in [1..n -> [Seq(C) -> Seq(C)]]
  <2>1. ASSUME NEW k \in 1..n, NEW cs \in Seq(C)
        PROVE  (IF k \in low THEN Noted(cs, con[k]) ELSE cs) \in Seq(C)
    BY <1>1
  <2>. QED
    BY <1>0, <2>1
<1>3. PICK none \in Seq(C) : none = <<>>
  <2>1. <<>> \in Seq(C)
    OBVIOUS
  <2>. QED
    BY <2>1
<1>4. PICK f \in [0..n -> Seq(C)] : Rounds(f, step, none, n)
  BY <1>2, <1>3, RoundsExist
<1>5. f[0] = none /\ \A k \in 1..n : f[k] = step[k][f[k - 1]]
  BY <1>4, RoundsAre
<1>. DEFINE After(m) == {con[k] : k \in low \cap (1..m)}
           T == {m \in 0..n : Range(f[m]) # After(m)}
<1>6. T = {}
  <2>. SUFFICES ASSUME T # {}  PROVE FALSE
    OBVIOUS
  <2>1. T \subseteq Nat
    OBVIOUS
  <2>2. PICK m \in T : \A k \in T : m <= k
    BY <2>1, Least
  <2>3. CASE m = 0
    <3>1. Range(f[0]) = {}
      BY <1>3, <1>5 DEF Range
    <3>2. After(0) = {}
      OBVIOUS
    <3>. QED
      BY <2>2, <2>3, <3>1, <3>2
  <2>4. CASE m # 0
    <3>1. m \in 1..n /\ m - 1 \in 0..n /\ m - 1 \notin T
      BY <2>2, <2>4
    <3>2. Range(f[m - 1]) = After(m - 1)
      BY <3>1
    <3>3. f[m - 1] \in Seq(C) /\ con[m] \in C
      BY <3>1
    <3>4. f[m] = IF m \in low THEN Noted(f[m - 1], con[m]) ELSE f[m - 1]
      BY <1>0, <1>5, <3>1, <3>3
    <3>5. low \cap (1..m) = IF m \in low THEN (low \cap (1..(m - 1))) \cup {m}
                                         ELSE low \cap (1..(m - 1))
      BY <3>1
    <3>6. After(m) = IF m \in low THEN After(m - 1) \cup {con[m]} ELSE After(m - 1)
      BY <3>5
    <3>7. Range(f[m]) = After(m)
      <4>. HIDE DEF After
      <4>1. CASE m \in low
        BY <1>1, <3>2, <3>3, <3>4, <3>6, <4>1
      <4>2. CASE m \notin low
        BY <3>2, <3>4, <3>6, <4>2
      <4>. QED
        BY <4>1, <4>2
    <3>. QED
      BY <2>2, <3>7
  <2>. QED
    BY <2>3, <2>4
<1>7. n \in 0..n /\ low \cap (1..n) = low
  <2>1. n \in 0..n
    OBVIOUS
  <2>2. low \cap (1..n) = low
    BY Zenon
  <2>. QED
    BY <2>1, <2>2
<1>8. Range(f[n]) = {con[k] : k \in low}
  BY <1>6, <1>7
<1>. QED
  BY <1>3, <1>4, <1>8, LoopIs DEF step, OfLow

-----------------------------------------------------------------------------
(* How many questions of some types come before the i-th.                  *)

Before(qs, types, i) == {j \in 1..(i - 1) : qs[j].type \in types}
HowMany(qs, types, i) == Cardinality(Before(qs, types, i))

\* The questions before the i-th can be counted.
LEMMA BeforeIsFinite ==
  ASSUME NEW qs, NEW types, NEW i \in Nat
  PROVE  IsFiniteSet(Before(qs, types, i)) /\ HowMany(qs, types, i) \in Nat
<1>1. 1 \in Int /\ i - 1 \in Int
  OBVIOUS
<1>2. IsFiniteSet(1..(i - 1))
  BY <1>1, FS_Interval
<1>3. IsFiniteSet(Before(qs, types, i))
  BY <1>2, FS_Subset DEF Before
<1>. QED
  BY <1>3, FS_CardinalityType DEF HowMany

\* The i-th counts for the next one if it is of these types.
LEMMA OneBefore ==
  ASSUME NEW qs, NEW types, NEW i \in Nat \ {0}, NEW m \in Nat, m = i + 1
  PROVE  /\ HowMany(qs, types, i) \in Nat
         /\ qs[i].type \in types => HowMany(qs, types, m) = HowMany(qs, types, i) + 1
         /\ qs[i].type \notin types => HowMany(qs, types, m) = HowMany(qs, types, i)
<1>1. IsFiniteSet(Before(qs, types, i)) /\ HowMany(qs, types, i) \in Nat
  BY BeforeIsFinite
<1>2. i \notin Before(qs, types, i) /\ m - 1 = i
  BY DEF Before
<1>3. ASSUME qs[i].type \in types
      PROVE  HowMany(qs, types, m) = HowMany(qs, types, i) + 1
  <2>1. Before(qs, types, m) = Before(qs, types, i) \cup {i}
    BY <1>3 DEF Before
  <2>. QED
    BY <1>1, <1>2, <2>1, FS_AddElement DEF HowMany
<1>4. ASSUME qs[i].type \notin types
      PROVE  HowMany(qs, types, m) = HowMany(qs, types, i)
  <2>1. Before(qs, types, m) = Before(qs, types, i)
    BY <1>4 DEF Before
  <2>. QED
    BY <2>1 DEF HowMany
<1>. QED
  BY <1>1, <1>3, <1>4

\* A later question has no fewer before it, one more if the i-th is of these types.
LEMMA FewerBefore ==
  ASSUME NEW qs, NEW types, NEW i \in Nat \ {0}, NEW m \in Nat, i < m
  PROVE  /\ HowMany(qs, types, i) \in Nat /\ HowMany(qs, types, m) \in Nat
         /\ HowMany(qs, types, i) <= HowMany(qs, types, m)
         /\ qs[i].type \in types => HowMany(qs, types, i) + 1 <= HowMany(qs, types, m)
<1>1. /\ IsFiniteSet(Before(qs, types, i)) /\ HowMany(qs, types, i) \in Nat
      /\ IsFiniteSet(Before(qs, types, m)) /\ HowMany(qs, types, m) \in Nat
  BY BeforeIsFinite
<1>2. Before(qs, types, i) \subseteq Before(qs, types, m) /\ i \notin Before(qs, types, i)
  BY DEF Before
<1>3. HowMany(qs, types, i) <= HowMany(qs, types, m)
  BY <1>1, <1>2, FS_Subset DEF HowMany
<1>4. ASSUME qs[i].type \in types
      PROVE  HowMany(qs, types, i) + 1 <= HowMany(qs, types, m)
  <2>1. Before(qs, types, i) \cup {i} \subseteq Before(qs, types, m)
    BY <1>2, <1>4 DEF Before
  <2>2. Cardinality(Before(qs, types, i) \cup {i}) = Cardinality(Before(qs, types, i)) + 1
    BY <1>1, <1>2, FS_AddElement
  <2>3. Cardinality(Before(qs, types, i) \cup {i}) <= Cardinality(Before(qs, types, m))
    BY <1>1, <2>1, FS_Subset
  <2>. QED
    BY <2>2, <2>3 DEF HowMany
<1>. QED
  BY <1>1, <1>3, <1>4

-----------------------------------------------------------------------------
(* The score of a multiple-answer question.                                *)

\* A share of g in c of x is within x, and all of it for g = c only.
LEMMA ShareOf ==
  ASSUME NEW g \in Nat, NEW c \in Nat \ {0}, NEW x \in Nat \ {0}, g <= c
  PROVE  /\ (g * x) \div c \in Nat /\ (g * x) \div c <= x
         /\ (g * x) \div c = x <=> g = c
<1>1. g * x \in Nat /\ c * x \in Nat
  BY ProductIsNat
<1>2. PICK q \in Int : q = (g * x) \div c
  BY <1>1
<1>3. c * q <= g * x /\ g * x < c * q + c
  BY <1>1, <1>2
<1>4. q >= 0
  <2>1. SUFFICES ASSUME q < 0  PROVE FALSE
    OBVIOUS
  <2>2. -q - 1 \in Nat
    BY <2>1
  <2>3. c * (-q - 1) \in Nat
    BY <2>2, ProductIsNat
  <2>4. c * (-q - 1) = -(c * q) - c /\ c * q \in Int
    OBVIOUS
  <2>. QED
    BY <1>1, <1>3, <2>3, <2>4
<1>5. CASE g = c
  <2>1. q = x
    <3>1. g * x = c * x
      BY <1>5
    <3>2. CASE q < x
      <4>1. x - q - 1 \in Nat
        BY <3>2
      <4>2. c * (x - q - 1) \in Nat
        BY <4>1, ProductIsNat
      <4>3. c * (x - q - 1) = c * x - c * q - c /\ c * q \in Int
        OBVIOUS
      <4>. QED
        BY <1>1, <1>3, <3>1, <4>2, <4>3
    <3>3. CASE q > x
      <4>1. q - x - 1 \in Nat
        BY <3>3
      <4>2. c * (q - x - 1) \in Nat
        BY <4>1, ProductIsNat
      <4>3. c * (q - x - 1) = c * q - c * x - c /\ c * q \in Int
        OBVIOUS
      <4>. QED
        BY <1>1, <1>3, <3>1, <4>2, <4>3
    <3>. QED
      BY <3>2, <3>3
  <2>. QED
    BY <1>2, <1>4, <1>5, <2>1
<1>6. CASE g < c
  <2>1. q < x
    <3>. SUFFICES ASSUME q >= x  PROVE FALSE
      OBVIOUS
    <3>1. q - x \in Nat /\ c - g - 1 \in Nat
      BY <1>6
    <3>2. c * (q - x) \in Nat /\ (c - g - 1) * x \in Nat
      BY <3>1, ProductIsNat
    <3>3. /\ c * (q - x) = c * q - c * x /\ c * q \in Int
          /\ (c - g - 1) * x = c * x - g * x - x
      OBVIOUS
    <3>. QED
      BY <1>1, <1>3, <3>2, <3>3
  <2>. QED
    BY <1>2, <1>4, <1>6, <2>1
<1>. QED
  BY <1>5, <1>6

\* Partial credit is within the question's points, and all of them only for the
\* right options and no others.
LEMMA ScoreIsShare ==
  ASSUME NEW q, IsQuestion(q), OptionsSound(q), q.type = "mcq-multi",
         NEW selected \in SUBSET Options
  PROVE  /\ ScoreMulti(q, selected) \in Nat
         /\ ScoreMulti(q, selected) <= Unit * q.points
         /\ ScoreMulti(q, selected) = Unit * q.points <=> selected = q.correct
<1>1. q.correct \subseteq Options /\ q.points \in Nat \ {0} /\ \E o, p \in q.correct : o # p
  BY DEF IsQuestion, OptionsSound
<1>. DEFINE c == Cardinality(q.correct)
           right == Cardinality(selected \cap q.correct)
           wrong == Cardinality(selected \ q.correct)
           x == Unit * q.points
<1>2. /\ IsFiniteSet(q.correct)
      /\ IsFiniteSet(selected \cap q.correct) /\ IsFiniteSet(selected \ q.correct)
  BY <1>1, FS_Subset, EvaluationAssumption
<1>3. c \in Nat /\ right \in Nat /\ wrong \in Nat /\ x \in Nat \ {0}
  BY <1>1, <1>2, FS_CardinalityType DEF Unit
<1>4. c # 0
  BY <1>1, <1>2, FS_EmptySet
<1>5. right <= c /\ (right = c <=> q.correct \subseteq selected)
  <2>1. right <= c
    BY <1>2, FS_Subset
  <2>2. ASSUME right = c
        PROVE  selected \cap q.correct = q.correct
    BY <1>2, <2>2, FS_Subset
  <2>3. ASSUME q.correct \subseteq selected
        PROVE  selected \cap q.correct = q.correct
    BY <2>3
  <2>. QED
    BY <2>1, <2>2, <2>3
<1>6. wrong = 0 <=> selected \subseteq q.correct
  <2>1. wrong = 0 <=> selected \ q.correct = {}
    BY <1>2, FS_EmptySet
  <2>. QED
    BY <2>1
<1>7. ScoreMulti(q, selected)
        = IF right - wrong <= 0 THEN 0 ELSE ((right - wrong) * Unit * q.points) \div c
  BY DEF ScoreMulti
<1>8. (right - wrong) * Unit * q.points = (right - wrong) * x
  BY <1>1, <1>3 DEF Unit
<1>. HIDE DEF c, right, wrong, x
<1>9. CASE right - wrong <= 0
  <2>1. ScoreMulti(q, selected) = 0
    BY <1>7, <1>9
  <2>2. selected # q.correct
    BY <1>3, <1>4, <1>5, <1>6, <1>9
  <2>. QED
    BY <1>3, <2>1, <2>2 DEF x
<1>10. CASE ~(right - wrong <= 0)
  <2>1. right - wrong \in Nat /\ right - wrong <= c
    BY <1>3, <1>5, <1>10
  <2>2. ScoreMulti(q, selected) = ((right - wrong) * x) \div c
    BY <1>7, <1>8, <1>10
  <2>3. PICK g \in Nat : g = right - wrong
    BY <2>1
  <2>4. /\ (g * x) \div c \in Nat /\ (g * x) \div c <= x
        /\ (g * x) \div c = x <=> g = c
    BY <1>3, <1>4, <2>1, <2>3, ShareOf
  <2>5. g = c <=> selected = q.correct
    BY <1>3, <1>5, <1>6, <2>3
  <2>. QED
    BY <2>2, <2>3, <2>4, <2>5 DEF x
<1>. QED
  BY <1>9, <1>10

\* A mark counts a whole number of points, clipped to the question's.
LEMMA MarkIsWithin ==
  ASSUME NEW q, IsQuestion(q), NEW S, grades \in [S -> Points]
  PROVE  Mark(q) \in Int /\ Mark(q) <= Unit * q.points
<1>. DEFINE given == IF q.id \in DOMAIN grades THEN grades[q.id] ELSE 0
<1>1. given \in Int
  <2>1. Points \subseteq Int
    BY EvaluationAssumption
  <2>2. CASE q.id \in DOMAIN grades
    <3>1. given = grades[q.id] /\ q.id \in S
      BY <2>2
    <3>2. grades[q.id] \in Points
      BY <3>1
    <3>. QED
      BY <2>1, <3>1, <3>2
  <2>3. CASE q.id \notin DOMAIN grades
    <3>1. given = 0
      BY <2>3
    <3>. QED
      BY <3>1
  <2>. QED
    BY <2>2, <2>3
<1>2. q.points \in Int
  BY DEF IsQuestion
<1>. HIDE DEF given
<1>3. /\ Unit * (IF given > q.points THEN q.points ELSE given) \in Int
      /\ Unit * (IF given > q.points THEN q.points ELSE given) <= Unit * q.points
  BY <1>1, <1>2 DEF Unit
<1>. QED
  BY <1>3 DEF Mark, given

-----------------------------------------------------------------------------
\* What the totals need to be numbers: the questions are what generation
\* accepts, the subtotals and the model's grades are integers.
Totals ==
  /\ quiz \in Quizzes
  /\ answers \in AnswersTo(quiz)
  /\ cursor \in Nat \ {0}
  /\ deferred \in Seq(DOMAIN quiz)
  /\ \E S : grades \in [S -> Points]
  /\ mcq \in Int /\ descriptive \in Int

ActionInv == Totals /\ ActionFollowsScore

\* The questions of a quiz, by place.
LEMMA QuizIsSequence ==
  ASSUME quiz \in Quizzes
  PROVE  /\ Len(quiz) \in Nat /\ DOMAIN quiz = 1..Len(quiz)
         /\ \A i \in DOMAIN quiz : IsQuestion(quiz[i]) /\ OptionsSound(quiz[i])
<1>. DEFINE All == UNION {Candidates[i] : i \in DOMAIN Candidates}
<1>1. PICK n \in Nat \ {0} : DOMAIN Candidates = 1..n
  BY EvaluationAssumption
<1>2. quiz \in [1..n -> All] /\ Accepted(quiz) /\ \A i \in 1..n : quiz[i] \in Candidates[i]
  BY <1>1 DEF Quizzes
<1>3. quiz \in Seq(All)
  BY <1>2
<1>4. Len(quiz) = n /\ DOMAIN quiz = 1..n
  BY <1>2, <1>3
<1>5. \A i \in DOMAIN quiz : IsQuestion(quiz[i]) /\ OptionsSound(quiz[i])
  BY <1>1, <1>2, <1>4, EvaluationAssumption DEF Accepted
<1>. QED
  BY <1>4, <1>5

\* At the start nothing is scored.
LEMMA TotalsInit == Init => ActionInv
<1>. SUFFICES ASSUME Init PROVE ActionInv
  OBVIOUS
<1>1. grades \in [{} -> Points]
  BY DEF Init
<1>2. Totals
  BY <1>1 DEF Init, Totals
<1>3. ActionFollowsScore
  BY DEF Init, ActionFollowsScore, Scored
<1>. QED
  BY <1>2, <1>3 DEF ActionInv

\* Every step keeps the totals numbers, and Assemble, which alone ends the
\* grading, recommends by the exact score.
LEMMA TotalsNext == ActionInv /\ [Next]_vars => ActionInv'
<1>. SUFFICES ASSUME ActionInv, [Next]_vars PROVE ActionInv'
  OBVIOUS
<1>. USE DEF ActionInv
<1>0. /\ Totals /\ Len(quiz) \in Nat /\ DOMAIN quiz = 1..Len(quiz)
      /\ \A i \in DOMAIN quiz : IsQuestion(quiz[i]) /\ OptionsSound(quiz[i])
  BY QuizIsSequence DEF Totals
<1>1. CASE GradeChoice
  <2>. DEFINE score == IF Here.type = "mcq-single" THEN ScoreSingle(Here, answers[Here.id])
                                                   ELSE ScoreMulti(Here, answers[Here.id])
  <2>1. cursor \in DOMAIN quiz /\ Here.type \in Multiple /\ phase = "choices"
    BY <1>0, <1>1 DEF GradeChoice, AtQuestion, Totals
  <2>2. IsQuestion(Here) /\ OptionsSound(Here)
    BY <1>0, <2>1 DEF Here
  <2>3. answers[Here.id] \in SUBSET Options
    <3>1. answers \in [Ids(quiz) -> SUBSET Options]
      BY <1>0 DEF Totals, AnswersTo
    <3>2. Here.id \in Ids(quiz)
      BY <2>1 DEF Ids, Here
    <3>. QED
      BY <3>1, <3>2
  <2>4. score \in Int
    <3>1. CASE Here.type = "mcq-single"
      BY <3>1 DEF ScoreSingle, Unit
    <3>2. CASE Here.type = "mcq-multi"
      BY <3>2, <2>2, <2>3, ScoreIsShare
    <3>. QED
      BY <3>1, <3>2, <2>1 DEF Multiple
  <2>5. mcq' = mcq + score /\ cursor' = cursor + 1
    BY <1>1 DEF GradeChoice
  <2>6. UNCHANGED <<quiz, answers, phase, deferred, descriptive, grades>>
    BY <1>1 DEF GradeChoice, input
  <2>. HIDE DEF score
  <2>7. mcq' \in Int /\ cursor' \in Nat \ {0}
    BY <1>0, <2>4, <2>5 DEF Totals
  <2>8. Totals'
    BY <1>0, <2>6, <2>7 DEF Totals, AnswersTo
  <2>9. ActionFollowsScore'
    BY <2>1, <2>6 DEF ActionFollowsScore, Scored
  <2>. QED
    BY <2>8, <2>9
<1>2. CASE Defer
  <2>1. cursor \in DOMAIN quiz /\ phase = "choices"
    BY <1>0, <1>2 DEF Defer, AtQuestion, Totals
  <2>2. /\ deferred' = Append(deferred, cursor) /\ cursor' = cursor + 1
        /\ UNCHANGED <<quiz, answers, phase, mcq, descriptive, grades>>
    BY <1>2 DEF Defer, input
  <2>3. deferred' \in Seq(DOMAIN quiz) /\ cursor' \in Nat \ {0}
    BY <1>0, <2>1, <2>2 DEF Totals
  <2>4. Totals'
    BY <1>0, <2>2, <2>3 DEF Totals, AnswersTo
  <2>5. ActionFollowsScore'
    BY <2>1, <2>2 DEF ActionFollowsScore, Scored
  <2>. QED
    BY <2>4, <2>5
<1>3. CASE AskGrader
  <2>1. UNCHANGED <<quiz, answers, deferred, mcq, descriptive>>
    BY <1>3 DEF AskGrader, input
  <2>2. \E S : grades' \in [S -> Points]
    BY <1>0, <1>3 DEF AskGrader, Totals
  <2>3. cursor' \in Nat \ {0}
    BY <1>0, <1>3 DEF AskGrader, Totals
  <2>4. Totals'
    BY <1>0, <2>1, <2>2, <2>3 DEF Totals, AnswersTo
  <2>5. ActionFollowsScore'
    BY <1>3 DEF AskGrader, ActionFollowsScore, Scored
  <2>. QED
    BY <2>4, <2>5
<1>4. CASE GradeText
  <2>. DEFINE q == quiz[deferred[cursor]]
  <2>1. phase = "grades" /\ cursor \in DOMAIN deferred
    BY <1>0, <1>4 DEF GradeText, Totals
  <2>2. IsQuestion(q)
    BY <1>0, <2>1 DEF Totals
  <2>3. Mark(q) \in Int
    BY <1>0, <2>2, MarkIsWithin DEF Totals
  <2>4. /\ descriptive' = descriptive + Mark(q)
        /\ cursor' = cursor \/ cursor' = cursor + 1
        /\ phase' = phase \/ phase' = "raised"
        /\ UNCHANGED <<quiz, answers, deferred, mcq, grades>>
    BY <1>4 DEF GradeText, input
  <2>. HIDE DEF q
  <2>5. descriptive' \in Int /\ cursor' \in Nat \ {0}
    BY <1>0, <2>3, <2>4 DEF Totals
  <2>6. Totals'
    BY <1>0, <2>4, <2>5 DEF Totals, AnswersTo
  <2>7. ActionFollowsScore'
    BY <2>1, <2>4 DEF ActionFollowsScore, Scored
  <2>. QED
    BY <2>6, <2>7
<1>5. CASE TextGraded
  <2>1. Totals'
    BY <1>0, <1>5 DEF TextGraded, Totals, AnswersTo, input
  <2>2. ActionFollowsScore'
    BY <1>5 DEF TextGraded, ActionFollowsScore, Scored
  <2>. QED
    BY <2>1, <2>2
<1>6. CASE Assemble
  <2>1. Totals'
    BY <1>0, <1>6 DEF Assemble, Totals, AnswersTo, input
  <2>2. SUFFICES ASSUME MaxScore \in 1..33
                 PROVE  /\ action' = "Move to next Topic" <=> 4 * Overall >= 3 * (60 * MaxScore)
                        /\ action' = "Retake the Course"  <=> 2 * Overall < 60 * MaxScore
    <3>1. UNCHANGED <<quiz, mcq, descriptive>>
      BY <1>6 DEF Assemble, input
    <3>2. MaxScore' = MaxScore /\ Overall' = Overall
      BY <3>1 DEF MaxScore, Overall
    <3>. QED
      BY <2>1, <3>2 DEF ActionFollowsScore, Unit
  <2>3. PICK p \in Percentages(Overall, 60 * MaxScore) : action' = ActionFor(p)
    BY <1>6 DEF Assemble, Unit
  <2>4. Overall \in Int
    BY <1>0 DEF Overall, Totals
  <2>5. /\ p >= 500 <=> 2 * Overall >= 60 * MaxScore
        /\ p >= 750 <=> 4 * Overall >= 3 * (60 * MaxScore)
    BY <2>2, <2>4, RoundingKeepsThresholds
  <2>6. p \in 0..1000
    BY DEF Percentages
  <2>7. /\ action' = "Move to next Topic" <=> p >= 750
        /\ action' = "Retake the Course"  <=> ~(p >= 500)
    <3>1. CASE p >= 750
      <4>1. action' = "Move to next Topic"
        BY <2>3, <3>1 DEF ActionFor
      <4>2. p >= 500
        BY <2>6, <3>1
      <4>. QED
        BY <3>1, <4>1, <4>2
    <3>2. CASE ~(p >= 750) /\ p >= 500
      <4>1. action' = "Review Notes and Retake Quiz"
        BY <2>3, <3>2 DEF ActionFor
      <4>. QED
        BY <3>2, <4>1
    <3>3. CASE ~(p >= 500)
      <4>1. ~(p >= 750)
        BY <2>6, <3>3
      <4>2. action' = "Retake the Course"
        BY <2>3, <3>3, <4>1 DEF ActionFor
      <4>. QED
        BY <3>3, <4>1, <4>2
    <3>. QED
      BY <3>1, <3>2, <3>3
  <2>8. 2 * Overall < 60 * MaxScore <=> ~(2 * Overall >= 60 * MaxScore)
    BY <2>2, <2>4
  <2>. QED
    BY <2>5, <2>7, <2>8
<1>7. CASE Swot
  <2>1. UNCHANGED <<quiz, answers, cursor, deferred, mcq, descriptive, grades, action>>
    BY <1>7 DEF Swot, input
  <2>2. Totals'
    BY <1>0, <2>1 DEF Totals, AnswersTo
  <2>3. MaxScore' = MaxScore /\ Overall' = Overall /\ Scored
    BY <1>7, <2>1 DEF MaxScore, Overall, Swot, Scored
  <2>4. ActionFollowsScore'
    BY <2>1, <2>3 DEF ActionFollowsScore
  <2>. QED
    BY <2>2, <2>4
<1>8. CASE UNCHANGED vars
  <2>1. Totals'
    BY <1>0, <1>8 DEF vars, Totals, AnswersTo, input
  <2>2. MaxScore' = MaxScore /\ Overall' = Overall /\ (Scored' <=> Scored) /\ action' = action
    BY <1>8 DEF vars, input, MaxScore, Overall, Scored
  <2>3. ActionFollowsScore'
    BY <2>2 DEF ActionFollowsScore
  <2>. QED
    BY <2>1, <2>3
<1>. QED
  BY <1>1, <1>2, <1>3, <1>4, <1>5, <1>6, <1>7, <1>8 DEF Next

\* helpers.py:245-255: whatever the quiz, the answers and the grades, the
\* rounded percentage recommends what the exact score does, for quizzes of up
\* to 33 points.
THEOREM ActionFollowsScoreAlways == Spec => []ActionFollowsScore
<1>1. Init => ActionInv
  BY TotalsInit
<1>2. ActionInv /\ [Next]_vars => ActionInv'
  BY TotalsNext
<1>3. ActionInv => ActionFollowsScore
  BY DEF ActionInv
<1>. QED
  BY <1>1, <1>2, <1>3, PTL DEF Spec

-----------------------------------------------------------------------------
(* The report.                                                             *)

Written == {"descriptive"}

\* next: the question to be read next; given: how many of the deferred ones have
\* their result.  The deferred questions are at the place of their kind, the
\* multiple-choice results too, and behind them those of the deferred questions.
Order(qs, d, rs, next, given) ==
  /\ next \in Nat \ {0} /\ given \in 0..Len(d)
  /\ Len(d) = HowMany(qs, Written, next)
  /\ \A i \in 1..(next - 1) :
       qs[i].type \in Written => d[HowMany(qs, Written, i) + 1] = i
  /\ Len(rs) = HowMany(qs, Multiple, next) + given
  /\ \A i \in 1..(next - 1) :
       qs[i].type \in Multiple => rs[HowMany(qs, Multiple, i) + 1].id = qs[i].id
  /\ \A k \in 1..given : rs[HowMany(qs, Multiple, next) + k].id = qs[d[k]].id

QuizPoints(qs, n)        == [k \in 1..n |-> qs[k].points]
DeferredPoints(qs, d, n) == [k \in 1..n |-> qs[d[k]].points]
Scores(rs)               == [k \in 1..Len(rs) |-> rs[k].score]

\* The subtotals are those of the results, and leave room for the deferred
\* questions in what was read of the quiz.
Sums(qs, d, rs, choices, texts, next, given) ==
  /\ choices \in Nat /\ texts \in Nat
  /\ choices + texts = TotalOf(Scores(rs))
  /\ choices + Unit * TotalOf(DeferredPoints(qs, d, Len(d)))
       <= Unit * TotalOf(QuizPoints(qs, next - 1))
  /\ texts <= Unit * TotalOf(DeferredPoints(qs, d, given))

\* A score is within the points, and what it lacks is explained.
Explains(r, ans) ==
  /\ r.score <= Unit * r.max
  /\ r.type = "mcq-multi" => (r.score = Unit * r.max <=> r.explained = {})
  /\ r.type = "mcq-single" /\ r.max = 1 /\ r.score < Unit =>
       (r.explained = {} <=> ans[r.id] = {})

Sheet(qs, rs, ans) ==
  /\ rs \in Seq([id : Ids(qs), type : QType, score : Nat, max : Nat \ {0},
                 explained : SUBSET Options])
  /\ \A k \in 1..Len(rs) : Explains(rs[k], ans)

NextRead == IF phase = "choices" THEN cursor ELSE Len(quiz) + 1
Given    == IF phase = "choices" THEN 0
            ELSE IF phase = "grades" THEN cursor - 1 ELSE Len(deferred)

WeakOf(qs, rs) ==
  {c \in Concepts(qs) :
     \E k \in DOMAIN rs, i \in DOMAIN qs :
       /\ rs[k].id = qs[i].id /\ qs[i].concept = c
       /\ rs[k].score < Unit * rs[k].max - rs[k].score}

\* What is known as long as the evaluation has not failed.
Progress(qs, d, rs, choices, texts, next, given) ==
  /\ next \in 1..(Len(qs) + 1)
  /\ \A k \in 1..Len(d) : qs[d[k]].type \in Written
  /\ Order(qs, d, rs, next, given)
  /\ Sums(qs, d, rs, choices, texts, next, given)

ReportInv ==
  /\ Sheet(quiz, results, answers)
  /\ phase \notin {"error", "raised"} =>
       Progress(quiz, deferred, results, mcq, descriptive, NextRead, Given)
  /\ Scored /\ DistinctIds(quiz) => Range(weak) = WeakOf(quiz, results)

\* A multiple-choice question is read, and has its result.
LEMMA OrderChoice ==
  ASSUME NEW qs, NEW X, NEW d \in Seq(Nat), NEW rs \in Seq(X), NEW r \in X,
         NEW p \in Nat \ {0}, NEW m \in Nat, m = p + 1, Order(qs, d, rs, p, 0),
         qs[p].type \in Multiple, r.id = qs[p].id
  PROVE  Order(qs, d, Append(rs, r), m, 0)
<1>. DEFINE s == Append(rs, r)
           n == HowMany(qs, Multiple, p)
<1>1. /\ n \in Nat /\ HowMany(qs, Multiple, m) = n + 1
  BY OneBefore
<1>2. HowMany(qs, Written, m) = HowMany(qs, Written, p)
  <2>1. qs[p].type \notin Written
    BY DEF Multiple, Written
  <2>. QED
    BY <2>1, OneBefore
<1>3. /\ Len(rs) = n /\ Len(d) = HowMany(qs, Written, p) /\ Len(d) \in Nat
      /\ \A i \in 1..(p - 1) :
           /\ qs[i].type \in Written => d[HowMany(qs, Written, i) + 1] = i
           /\ qs[i].type \in Multiple => rs[HowMany(qs, Multiple, i) + 1].id = qs[i].id
  BY <1>1 DEF Order
<1>4. /\ Len(s) = n + 1 /\ s[n + 1] = r
      /\ \A i \in 1..n : s[i] = rs[i]
  BY <1>1, <1>3
<1>. HIDE DEF s
<1>5. ASSUME NEW i \in 1..(m - 1)
      PROVE  /\ qs[i].type \in Written => d[HowMany(qs, Written, i) + 1] = i
             /\ qs[i].type \in Multiple => s[HowMany(qs, Multiple, i) + 1].id = qs[i].id
  <2>1. CASE i = p
    <3>1. qs[i].type \notin Written
      BY <2>1 DEF Multiple, Written
    <3>. QED
      BY <1>4, <2>1, <3>1
  <2>2. CASE i # p
    <3>1. i \in 1..(p - 1) /\ i \in Nat \ {0} /\ i < p
      BY <2>2
    <3>2. /\ HowMany(qs, Multiple, i) \in Nat
          /\ qs[i].type \in Multiple => HowMany(qs, Multiple, i) + 1 <= n
      BY <3>1, FewerBefore
    <3>3. qs[i].type \in Multiple => HowMany(qs, Multiple, i) + 1 \in 1..n
      BY <1>1, <3>2
    <3>. QED
      BY <1>3, <1>4, <3>1, <3>3
  <2>. QED
    BY <2>1, <2>2
<1>. HIDE DEF n
<1>6. 1..0 = {} /\ 0 \in 0..Len(d) /\ m \in Nat \ {0}
  BY <1>3
<1>7. Len(s) = HowMany(qs, Multiple, m) + 0 /\ Len(d) = HowMany(qs, Written, m)
  BY <1>1, <1>2, <1>3, <1>4
<1>8. Order(qs, d, s, m, 0)
  BY <1>5, <1>6, <1>7 DEF Order
<1>. QED
  BY <1>8 DEF s

\* A descriptive question is deferred.
LEMMA OrderDefer ==
  ASSUME NEW qs, NEW d \in Seq(Nat), NEW rs,
         NEW p \in Nat \ {0}, NEW m \in Nat, m = p + 1, Order(qs, d, rs, p, 0),
         qs[p].type \in Written
  PROVE  Order(qs, Append(d, p), rs, m, 0)
<1>. DEFINE e == Append(d, p)
           n == HowMany(qs, Written, p)
<1>1. /\ n \in Nat /\ HowMany(qs, Written, m) = n + 1
  BY OneBefore
<1>2. HowMany(qs, Multiple, m) = HowMany(qs, Multiple, p)
  <2>1. qs[p].type \notin Multiple
    BY DEF Multiple, Written
  <2>. QED
    BY <2>1, OneBefore
<1>3. /\ Len(d) = n /\ Len(rs) = HowMany(qs, Multiple, p) + 0
      /\ \A i \in 1..(p - 1) :
           /\ qs[i].type \in Written => d[HowMany(qs, Written, i) + 1] = i
           /\ qs[i].type \in Multiple => rs[HowMany(qs, Multiple, i) + 1].id = qs[i].id
  BY <1>1 DEF Order
<1>4. /\ Len(e) = n + 1 /\ e[n + 1] = p
      /\ \A i \in 1..n : e[i] = d[i]
  BY <1>1, <1>3
<1>. HIDE DEF e
<1>5. ASSUME NEW i \in 1..(m - 1)
      PROVE  /\ qs[i].type \in Written => e[HowMany(qs, Written, i) + 1] = i
             /\ qs[i].type \in Multiple => rs[HowMany(qs, Multiple, i) + 1].id = qs[i].id
  <2>1. CASE i = p
    <3>1. qs[i].type \notin Multiple
      BY <2>1 DEF Multiple, Written
    <3>. QED
      BY <1>4, <2>1, <3>1
  <2>2. CASE i # p
    <3>1. i \in 1..(p - 1) /\ i \in Nat \ {0} /\ i < p
      BY <2>2
    <3>2. /\ HowMany(qs, Written, i) \in Nat
          /\ qs[i].type \in Written => HowMany(qs, Written, i) + 1 <= n
      BY <3>1, FewerBefore
    <3>3. qs[i].type \in Written => HowMany(qs, Written, i) + 1 \in 1..n
      BY <1>1, <3>2
    <3>. QED
      BY <1>3, <1>4, <3>1, <3>3
  <2>. QED
    BY <2>1, <2>2
<1>. HIDE DEF n
<1>6. 1..0 = {} /\ 0 \in 0..Len(e) /\ m \in Nat \ {0}
  BY <1>1, <1>4
<1>. QED
  BY <1>1, <1>2, <1>3, <1>4, <1>5, <1>6 DEF Order, e

\* A deferred question has its result.
LEMMA OrderText ==
  ASSUME NEW qs, NEW X, NEW d \in Seq(Nat), NEW rs \in Seq(X), NEW r \in X,
         NEW next \in Nat \ {0}, NEW p \in Nat, NEW k \in 1..Len(d), k = p + 1,
         Order(qs, d, rs, next, p), r.id = qs[d[k]].id
  PROVE  Order(qs, d, Append(rs, r), next, k)
<1>. DEFINE s == Append(rs, r)
           n == HowMany(qs, Multiple, next)
<1>1. n \in Nat
  BY BeforeIsFinite
<1>2. /\ Len(rs) = n + p /\ Len(d) = HowMany(qs, Written, next) /\ Len(d) \in Nat
      /\ \A i \in 1..(next - 1) :
           /\ qs[i].type \in Written => d[HowMany(qs, Written, i) + 1] = i
           /\ qs[i].type \in Multiple => rs[HowMany(qs, Multiple, i) + 1].id = qs[i].id
      /\ \A j \in 1..p : rs[n + j].id = qs[d[j]].id
  BY DEF Order
<1>3. /\ Len(s) = n + k /\ s[n + k] = r
      /\ \A i \in 1..(n + p) : s[i] = rs[i]
  BY <1>1, <1>2
<1>. HIDE DEF s
<1>4. ASSUME NEW i \in 1..(next - 1), qs[i].type \in Multiple
      PROVE  s[HowMany(qs, Multiple, i) + 1].id = qs[i].id
  <2>1. i \in Nat \ {0} /\ i < next
    OBVIOUS
  <2>2. HowMany(qs, Multiple, i) \in Nat /\ HowMany(qs, Multiple, i) + 1 <= n
    BY <1>4, <2>1, FewerBefore
  <2>3. HowMany(qs, Multiple, i) + 1 \in 1..(n + p)
    BY <1>1, <2>2
  <2>. QED
    BY <1>2, <1>3, <1>4, <2>3
<1>5. ASSUME NEW j \in 1..k
      PROVE  s[n + j].id = qs[d[j]].id
  <2>1. CASE j = k
    BY <1>3, <2>1
  <2>2. CASE j # k
    <3>1. j \in 1..p /\ n + j \in 1..(n + p)
      BY <1>1, <2>2
    <3>. QED
      BY <1>2, <1>3, <3>1
  <2>. QED
    BY <2>1, <2>2
<1>. HIDE DEF n
<1>6. k \in 0..Len(d)
  BY <1>2
<1>7. Len(s) = HowMany(qs, Multiple, next) + k
  BY <1>3 DEF n
<1>8. \A j \in 1..k : s[HowMany(qs, Multiple, next) + j].id = qs[d[j]].id
  BY <1>5 DEF n
<1>9. Order(qs, d, s, next, k)
  BY <1>2, <1>4, <1>6, <1>7, <1>8 DEF Order
<1>. QED
  BY <1>9 DEF s

\* Once all is read and graded, every question has its result.
\* Every result is at the place of its question.
Covers(qs, rs) ==
  \A i \in DOMAIN qs :
    LET before == {j \in DOMAIN qs : IF qs[j].type \in Multiple <=> qs[i].type \in Multiple
                                       THEN j < i ELSE qs[j].type \in Multiple}
    IN  rs[Cardinality(before) + 1].id = qs[i].id

\* When all is graded every question has its result at its place.
LEMMA OrderCovers ==
  ASSUME NEW qs, NEW N \in Nat, DOMAIN qs = 1..N, NEW m \in Nat, m = N + 1,
         \A i \in 1..N : qs[i].type \in QType,
         NEW d \in Seq(Nat), NEW rs, Order(qs, d, rs, m, Len(d))
  PROVE  Len(rs) = N /\ Covers(qs, rs)
<1>. DEFINE M == Before(qs, Multiple, m)
           W == Before(qs, Written, m)
<1>1. /\ IsFiniteSet(M) /\ HowMany(qs, Multiple, m) = Cardinality(M) /\ Cardinality(M) \in Nat
      /\ IsFiniteSet(W) /\ HowMany(qs, Written, m) = Cardinality(W) /\ Cardinality(W) \in Nat
  BY BeforeIsFinite DEF HowMany
<1>2. /\ Len(d) = Cardinality(W) /\ Len(rs) = Cardinality(M) + Len(d)
      /\ \A i \in 1..N :
           /\ qs[i].type \in Written => d[HowMany(qs, Written, i) + 1] = i
           /\ qs[i].type \in Multiple => rs[HowMany(qs, Multiple, i) + 1].id = qs[i].id
      /\ \A k \in 1..Len(d) : rs[Cardinality(M) + k].id = qs[d[k]].id
  <2>1. m - 1 = N
    OBVIOUS
  <2>. QED
    BY <1>1, <2>1 DEF Order
<1>3. \A i \in 1..N : qs[i].type \in Written <=> qs[i].type \notin Multiple
  BY DEF QType, Multiple, Written
<1>4. Len(rs) = N
  <2>1. M \cup W = 1..N /\ M \cap W = {}
    BY <1>3 DEF Before
  <2>2. Cardinality(M \cup W) = Cardinality(M) + Cardinality(W) - Cardinality(M \cap W)
    BY <1>1, FS_Union
  <2>3. Cardinality(M \cap W) = 0
    BY <2>1, FS_EmptySet
  <2>4. 1 \in Int /\ N \in Int
    OBVIOUS
  <2>5. Cardinality(1..N) = IF 1 > N THEN 0 ELSE N - 1 + 1
    BY <2>4, FS_Interval
  <2>6. Cardinality(1..N) = N
    BY <2>5
  <2>. HIDE DEF M, W
  <2>7. Cardinality(M \cup W) = N
    BY <2>1, <2>6
  <2>. QED
    BY <1>1, <1>2, <2>2, <2>3, <2>7
<1>5. ASSUME NEW i \in 1..N, NEW B,
             B = {j \in 1..N : IF qs[j].type \in Multiple <=> qs[i].type \in Multiple
                                 THEN j < i ELSE qs[j].type \in Multiple}
      PROVE  rs[Cardinality(B) + 1].id = qs[i].id
  <2>1. CASE qs[i].type \in Multiple
    <3>1. B = Before(qs, Multiple, i)
      BY <1>5, <2>1 DEF Before
    <3>. QED
      BY <1>2, <2>1, <3>1 DEF HowMany
  <2>2. CASE qs[i].type \notin Multiple
    <3>. DEFINE V == Before(qs, Written, i)
    <3>1. qs[i].type \in Written /\ i \in Nat \ {0} /\ i < m
      BY <1>3, <2>2
    <3>2. B = M \cup V /\ M \cap V = {}
      <4>1. ASSUME NEW j \in 1..N
            PROVE  j \in B <=> j \in M \/ j \in V
        BY <1>3, <1>5, <2>2, <4>1 DEF Before
      <4>2. B \subseteq 1..N /\ M \subseteq 1..N /\ V \subseteq 1..N
        BY <1>5 DEF Before
      <4>3. ASSUME NEW j \in M
            PROVE  j \notin V
        <5>1. j \in 1..N /\ qs[j].type \in Multiple
          BY <4>3 DEF Before
        <5>. QED
          BY <1>3, <5>1 DEF Before
      <4>. HIDE DEF M, V
      <4>. QED
        BY <4>1, <4>2, <4>3
    <3>3. IsFiniteSet(V) /\ HowMany(qs, Written, i) = Cardinality(V) /\ Cardinality(V) \in Nat
      BY <3>1, BeforeIsFinite DEF HowMany
    <3>4. Cardinality(M \cup V) = Cardinality(M) + Cardinality(V) - Cardinality(M \cap V)
      BY <1>1, <3>3, FS_Union
    <3>5. Cardinality(M \cap V) = 0
      BY <3>2, FS_EmptySet
    <3>6. HowMany(qs, Written, i) + 1 <= HowMany(qs, Written, m)
      BY <3>1, FewerBefore
    <3>. HIDE DEF M, V, W
    <3>7. PICK k \in 1..Len(d) : k = Cardinality(V) + 1
      BY <1>1, <1>2, <3>3, <3>6
    <3>8. d[k] = i
      BY <1>2, <3>1, <3>3, <3>7
    <3>9. Cardinality(B) + 1 = Cardinality(M) + k
      BY <1>1, <3>2, <3>3, <3>4, <3>5, <3>7
    <3>. QED
      BY <1>2, <3>8, <3>9
  <2>. QED
    BY <2>1, <2>2
<1>. QED
  BY <1>4, <1>5 DEF Covers

-----------------------------------------------------------------------------
(* The totals of the report.                                               *)

\* A score within x points takes what these add.
LEMMA RoomLeft ==
  ASSUME NEW c \in Nat, NEW D \in Int, NEW P \in Int, NEW s \in Nat, NEW x \in Nat,
         s <= Unit * x, c + Unit * D <= Unit * P
  PROVE  c + s + Unit * D <= Unit * (P + x)
<1>1. Unit = 60
  BY DEF Unit
<1>. QED
  BY <1>1

\* What is totalled has whole numbers.
Worths(qs, n) == \A k \in 1..n : qs[k].points \in Nat \ {0}

\* The points of one question more.
LEMMA PointsGrow ==
  ASSUME NEW qs, NEW n \in Nat, NEW m \in Nat, m = n + 1, Worths(qs, m)
  PROVE  /\ TotalOf(QuizPoints(qs, n)) \in Int
         /\ TotalOf(QuizPoints(qs, m)) = TotalOf(QuizPoints(qs, n)) + qs[m].points
<1>. DEFINE v == QuizPoints(qs, n)
           w == QuizPoints(qs, m)
<1>1. \A k \in 1..m : qs[k].points \in Int
  BY DEF Worths
<1>2. v \in [1..n -> Int]
  BY <1>1 DEF QuizPoints
<1>3. w \in [1..m -> Int] /\ w[m] = qs[m].points
  BY <1>1 DEF QuizPoints
<1>4. \A k \in 1..n : w[k] = v[k]
  BY DEF QuizPoints
<1>. HIDE DEF v, w
<1>5. TotalOf(v) \in Int /\ TotalOf(w) = TotalOf(v) + w[m]
  BY <1>2, <1>3, <1>4, TotalGrows
<1>. QED
  BY <1>3, <1>5 DEF v, w

GrowsBy(v, w, x) == TotalOf(v) \in Int /\ TotalOf(w) = TotalOf(v) + x

\* A total of integers is one.
LEMMA TotalIsInt ==
  ASSUME NEW n \in Nat, NEW v \in [1..n -> Int]
  PROVE  TotalOf(v) \in Int
<1>1. PICK m \in Nat : m = n + 1
  OBVIOUS
<1>. DEFINE w == [k \in 1..m |-> IF k = m THEN 0 ELSE v[k]]
<1>2. w \in [1..m -> Int] /\ \A k \in 1..n : w[k] = v[k]
  BY <1>1
<1>. HIDE DEF w
<1>. QED
  BY <1>1, <1>2, TotalGrows

\* The points of the first m deferred questions, whatever is deferred later.
LEMMA DeferredGrow ==
  ASSUME NEW qs, NEW d, NEW e, NEW n \in Nat, NEW m \in Nat, m = n + 1,
         NEW x, x = qs[e[m]].points,
         \A k \in 1..n : e[k] = d[k], \A k \in 1..m : qs[e[k]].points \in Nat
  PROVE  GrowsBy(DeferredPoints(qs, d, n), DeferredPoints(qs, e, m), x)
<1>. DEFINE v == DeferredPoints(qs, d, n)
           w == DeferredPoints(qs, e, m)
<1>1. v \in [1..n -> Int]
  <2>1. \A k \in 1..n : qs[d[k]].points \in Int
    <3>1. ASSUME NEW k \in 1..n
          PROVE  qs[d[k]].points \in Int
      <4>1. k \in 1..m /\ e[k] = d[k]
        OBVIOUS
      <4>2. qs[e[k]].points \in Nat
        BY <4>1
      <4>. QED
        BY <4>1, <4>2
    <3>. QED
      BY <3>1
  <2>. QED
    BY <2>1 DEF DeferredPoints
<1>2. w \in [1..m -> Int] /\ w[m] = qs[e[m]].points
  BY DEF DeferredPoints
<1>3. \A k \in 1..n : w[k] = v[k]
  <2>1. ASSUME NEW k \in 1..n
        PROVE  w[k] = v[k]
    <3>1. k \in 1..m /\ e[k] = d[k]
      OBVIOUS
    <3>. QED
      BY <3>1 DEF DeferredPoints
  <2>. QED
    BY <2>1
<1>. HIDE DEF v, w
<1>4. TotalOf(v) \in Int /\ TotalOf(w) = TotalOf(v) + w[m]
  BY <1>1, <1>2, <1>3, TotalGrows
<1>. QED
  BY <1>2, <1>4 DEF v, w, GrowsBy

\* The scores of one result more.
LEMMA ScoresGrow ==
  ASSUME NEW X, \A x \in X : x.score \in Nat, NEW rs \in Seq(X), NEW r \in X
  PROVE  /\ TotalOf(Scores(rs)) \in Int
         /\ TotalOf(Scores(Append(rs, r))) = TotalOf(Scores(rs)) + r.score
<1>. DEFINE v == Scores(rs)
           w == Scores(Append(rs, r))
<1>1. PICK n \in Nat : n = Len(rs)
  OBVIOUS
<1>2. PICK m \in Nat : m = n + 1
  OBVIOUS
<1>3. /\ Len(Append(rs, r)) = m /\ Append(rs, r)[m] = r
      /\ \A k \in 1..n : Append(rs, r)[k] = rs[k] /\ rs[k] \in X
  BY <1>1, <1>2
<1>4. v = [k \in 1..n |-> rs[k].score] /\ v \in [1..n -> Int]
  BY <1>1, <1>3 DEF Scores
<1>5. w = [k \in 1..m |-> Append(rs, r)[k].score]
  BY <1>3 DEF Scores
<1>6. \A k \in 1..m : k \in 1..n \/ k = m
  BY <1>2
<1>7. w \in [1..m -> Int] /\ w[m] = r.score
  <2>1. \A k \in 1..m : Append(rs, r)[k].score \in Int
    BY <1>3, <1>6
  <2>2. m \in 1..m
    BY <1>2
  <2>. QED
    BY <1>3, <1>5, <2>1, <2>2
<1>8. \A k \in 1..n : w[k] = v[k]
  <2>1. \A k \in 1..n : k \in 1..m
    BY <1>2
  <2>. QED
    BY <1>3, <1>4, <1>5, <2>1
<1>. HIDE DEF v, w
<1>9. TotalOf(v) \in Int /\ TotalOf(w) = TotalOf(v) + w[m]
  <2>1. v \in [1..n -> Int] /\ w \in [1..m -> Int]
    BY <1>4, <1>7
  <2>. QED
    BY <1>2, <1>8, <2>1, TotalGrows
<1>. QED
  BY <1>7, <1>9 DEF v, w

\* A multiple-choice question adds its score to both.
LEMMA SumsChoice ==
  ASSUME NEW qs, NEW d, NEW X, \A x \in X : x.score \in Nat, NEW rs \in Seq(X), NEW r \in X,
         NEW p \in Nat \ {0}, NEW m \in Nat, m = p + 1, Worths(qs, p),
         r.score <= Unit * qs[p].points, TotalOf(DeferredPoints(qs, d, Len(d))) \in Int,
         NEW choices, NEW texts, NEW new, new = choices + r.score,
         Sums(qs, d, rs, choices, texts, p, 0)
  PROVE  Sums(qs, d, Append(rs, r), new, texts, m, 0)
<1>. DEFINE D == TotalOf(DeferredPoints(qs, d, Len(d)))
           G == TotalOf(DeferredPoints(qs, d, 0))
           R == TotalOf(Scores(rs))
           S == TotalOf(Scores(Append(rs, r)))
           P == TotalOf(QuizPoints(qs, p - 1))
           Q == TotalOf(QuizPoints(qs, p))
<1>1. R \in Int /\ S = R + r.score /\ r.score \in Nat
  BY ScoresGrow
<1>2. P \in Int /\ Q = P + qs[p].points
  <2>1. PICK n \in Nat : n = p - 1
    OBVIOUS
  <2>2. p = n + 1 /\ p \in Nat
    BY <2>1
  <2>3. TotalOf(QuizPoints(qs, n)) \in Int /\ Q = TotalOf(QuizPoints(qs, n)) + qs[p].points
    BY <2>2, PointsGrow
  <2>. QED
    BY <2>1, <2>3
<1>3. /\ choices \in Nat /\ texts \in Nat /\ choices + texts = R
      /\ choices + Unit * D <= Unit * P /\ texts <= Unit * G
  BY DEF Sums
<1>4. D \in Int /\ qs[p].points \in Nat /\ m - 1 = p
  BY DEF Worths
<1>. HIDE DEF D, R, S, P, Q, G
<1>5. new \in Nat /\ new + texts = S
  <2>1. PICK s \in Nat : s = r.score
    BY <1>1
  <2>2. new = choices + s /\ S = R + s
    BY <1>1, <2>1
  <2>3. choices \in Nat /\ texts \in Nat /\ choices + texts = R
    BY <1>3
  <2>. QED
    BY <2>2, <2>3
<1>6. new + Unit * D <= Unit * Q
  <2>1. choices + r.score + Unit * D <= Unit * (P + qs[p].points)
    BY <1>1, <1>2, <1>3, <1>4, RoomLeft
  <2>. QED
    BY <1>2, <2>1
<1>7. /\ new + texts = TotalOf(Scores(Append(rs, r)))
      /\ new + Unit * TotalOf(DeferredPoints(qs, d, Len(d)))
           <= Unit * TotalOf(QuizPoints(qs, m - 1))
      /\ texts <= Unit * TotalOf(DeferredPoints(qs, d, 0))
  BY <1>3, <1>4, <1>5, <1>6 DEF D, G, S, Q
<1>. QED
  BY <1>3, <1>5, <1>7 DEF Sums

\* A deferred one adds its points to what the deferred ones may get.
LEMMA SumsDefer ==
  ASSUME NEW qs, NEW d \in Seq(Nat), NEW rs, NEW p \in Nat \ {0}, NEW m \in Nat, m = p + 1,
         Worths(qs, p), \A k \in 1..Len(d) : qs[d[k]].points \in Nat,
         NEW choices, NEW texts, Sums(qs, d, rs, choices, texts, p, 0)
  PROVE  Sums(qs, Append(d, p), rs, choices, texts, m, 0)
<1>. DEFINE later == Append(d, p)
           P == TotalOf(QuizPoints(qs, p - 1))
           Q == TotalOf(QuizPoints(qs, p))
           D == TotalOf(DeferredPoints(qs, d, Len(d)))
           E == TotalOf(DeferredPoints(qs, later, Len(later)))
<1>1. PICK n \in Nat : n = Len(d)
  OBVIOUS
<1>2. PICK l \in Nat : l = n + 1
  OBVIOUS
<1>3. Len(later) = l /\ later[l] = p /\ \A k \in 1..n : later[k] = d[k]
  BY <1>1, <1>2
<1>4. P \in Int /\ Q = P + qs[p].points
  <2>1. PICK j \in Nat : j = p - 1
    OBVIOUS
  <2>2. p = j + 1 /\ p \in Nat
    BY <2>1
  <2>3. TotalOf(QuizPoints(qs, j)) \in Int /\ Q = TotalOf(QuizPoints(qs, j)) + qs[p].points
    BY <2>2, PointsGrow
  <2>. QED
    BY <2>1, <2>3
<1>. HIDE DEF later
<1>5. D \in Int /\ E = D + qs[p].points
  <2>1. \A k \in 1..l : qs[later[k]].points \in Nat
    <3>1. \A k \in 1..l : k \in 1..n \/ k = l
      BY <1>2
    <3>2. qs[p].points \in Nat
      BY DEF Worths
    <3>. QED
      BY <1>1, <1>3, <3>1, <3>2
  <2>2. \A k \in 1..n : later[k] = d[k]
    BY <1>3
  <2>3. PICK x : x = qs[later[l]].points
    OBVIOUS
  <2>4. GrowsBy(DeferredPoints(qs, d, n), DeferredPoints(qs, later, l), x)
    BY <1>2, <2>1, <2>2, <2>3, DeferredGrow
  <2>. QED
    BY <1>1, <1>3, <2>3, <2>4 DEF GrowsBy
<1>6. DeferredPoints(qs, later, 0) = DeferredPoints(qs, d, 0)
  BY DEF DeferredPoints
<1>7. /\ choices \in Nat /\ texts \in Nat /\ choices + texts = TotalOf(Scores(rs))
      /\ choices + Unit * D <= Unit * P /\ texts <= Unit * TotalOf(DeferredPoints(qs, d, 0))
  BY DEF Sums
<1>8. qs[p].points \in Nat /\ m - 1 = p
  BY DEF Worths
<1>. HIDE DEF P, Q, D, E
<1>9. choices + Unit * E <= Unit * Q
  <2>1. PICK x \in Nat : x = qs[p].points
    BY <1>8
  <2>2. Q = P + x /\ E = D + x /\ P \in Int /\ D \in Int /\ Unit = 60
    BY <1>4, <1>5, <2>1 DEF Unit
  <2>3. choices \in Nat /\ choices + Unit * D <= Unit * P
    BY <1>7
  <2>. QED
    BY <2>2, <2>3
<1>10. choices + Unit * TotalOf(DeferredPoints(qs, later, Len(later)))
         <= Unit * TotalOf(QuizPoints(qs, m - 1))
  BY <1>8, <1>9 DEF E, Q
<1>11. Sums(qs, later, rs, choices, texts, m, 0)
  BY <1>6, <1>7, <1>10 DEF Sums
<1>. QED
  BY <1>11 DEF later

\* A descriptive question adds its mark.
LEMMA SumsText ==
  ASSUME NEW qs, NEW d, NEW X, \A x \in X : x.score \in Nat, NEW rs \in Seq(X), NEW r \in X,
         NEW n \in Nat, NEW k \in Nat, k = n + 1, \A j \in 1..k : qs[d[j]].points \in Nat,
         r.score <= Unit * qs[d[k]].points, NEW next,
         NEW choices, NEW texts, NEW new, new = texts + r.score,
         Sums(qs, d, rs, choices, texts, next, n)
  PROVE  Sums(qs, d, Append(rs, r), choices, new, next, k)
<1>. DEFINE G == TotalOf(DeferredPoints(qs, d, n))
           H == TotalOf(DeferredPoints(qs, d, k))
           R == TotalOf(Scores(rs))
           S == TotalOf(Scores(Append(rs, r)))
<1>1. R \in Int /\ S = R + r.score /\ r.score \in Nat
  BY ScoresGrow
<1>2. G \in Int /\ H = G + qs[d[k]].points
  <2>1. PICK x : x = qs[d[k]].points
    OBVIOUS
  <2>2. \A j \in 1..n : d[j] = d[j]
    OBVIOUS
  <2>3. GrowsBy(DeferredPoints(qs, d, n), DeferredPoints(qs, d, k), x)
    BY <2>1, <2>2, DeferredGrow
  <2>. QED
    BY <2>1, <2>3 DEF GrowsBy
<1>3. /\ choices \in Nat /\ texts \in Nat /\ choices + texts = R /\ texts <= Unit * G
      /\ choices + Unit * TotalOf(DeferredPoints(qs, d, Len(d)))
           <= Unit * TotalOf(QuizPoints(qs, next - 1))
  BY DEF Sums
<1>4. qs[d[k]].points \in Nat
  BY k \in 1..k
<1>. HIDE DEF G, H, R, S
<1>5. new \in Nat /\ choices + new = S
  <2>1. PICK s \in Nat : s = r.score
    BY <1>1
  <2>2. new = texts + s /\ S = R + s
    BY <1>1, <2>1
  <2>3. choices \in Nat /\ texts \in Nat /\ choices + texts = R
    BY <1>3
  <2>. QED
    BY <2>2, <2>3
<1>6. new <= Unit * H
  <2>1. PICK x \in Nat : x = qs[d[k]].points
    BY <1>4
  <2>2. PICK s \in Nat : s = r.score
    BY <1>1
  <2>3. H = G + x /\ G \in Int /\ s <= Unit * x /\ new = texts + s /\ Unit = 60
    BY <1>2, <2>1, <2>2 DEF Unit
  <2>4. texts \in Nat /\ texts <= Unit * G
    BY <1>3
  <2>. QED
    BY <2>3, <2>4
<1>7. /\ choices + new = TotalOf(Scores(Append(rs, r)))
      /\ new <= Unit * TotalOf(DeferredPoints(qs, d, k))
  BY <1>5, <1>6 DEF S, H
<1>. QED
  BY <1>3, <1>5, <1>7 DEF Sums

\* At the end the subtotals are the whole of the results, within the quiz's points.
LEMMA SumsEnd ==
  ASSUME NEW qs, NEW N \in Nat, DOMAIN qs = 1..N, NEW m \in Nat, m = N + 1,
         NEW d, NEW X, NEW rs \in Seq(X), NEW choices, NEW texts,
         TotalOf(DeferredPoints(qs, d, Len(d))) \in Int, TotalOf(QuizPoints(qs, N)) \in Int,
         Sums(qs, d, rs, choices, texts, m, Len(d))
  PROVE  /\ choices + texts = TotalOf([k \in DOMAIN rs |-> rs[k].score])
         /\ choices + texts \in 0..(Unit * Worth(qs))
<1>. DEFINE D == TotalOf(DeferredPoints(qs, d, Len(d)))
           Q == TotalOf(QuizPoints(qs, N))
<1>1. m - 1 = N
  OBVIOUS
<1>2. /\ choices \in Nat /\ texts \in Nat /\ choices + texts = TotalOf(Scores(rs))
      /\ choices + Unit * D <= Unit * Q /\ texts <= Unit * D
  BY <1>1 DEF Sums
<1>3. D \in Int /\ Q \in Int
  OBVIOUS
<1>4. Worth(qs) = Q
  BY DEF Worth, QuizPoints
<1>5. Scores(rs) = [k \in DOMAIN rs |-> rs[k].score]
  <2>1. DOMAIN rs = 1..Len(rs)
    OBVIOUS
  <2>. QED
    BY <2>1 DEF Scores
<1>. HIDE DEF D, Q
<1>6. choices + texts \in 0..(Unit * Q)
  BY <1>2, <1>3 DEF Unit
<1>. QED
  BY <1>2, <1>4, <1>5, <1>6

-----------------------------------------------------------------------------
(* What a question adds to the sheet of results.                           *)

ResultOf(qs) == [id : Ids(qs), type : QType, score : Nat, max : Nat \ {0},
                 explained : SUBSET Options]

\* A result of question q that explains what it lacks.
Fits(r, q, score, ans) ==
  /\ r \in [id : {q.id}, type : QType, score : Nat, max : Nat \ {0}, explained : SUBSET Options]
  /\ r.score = score /\ score <= Unit * q.points
  /\ Explains(r, ans)

\* A score within the points that is explained makes such a result.
LEMMA ResultFits ==
  ASSUME NEW q, IsQuestion(q), NEW score \in Nat, score <= Unit * q.points,
         NEW explained \in SUBSET Options, NEW ans,
         q.type = "mcq-multi" => (score = Unit * q.points <=> explained = {}),
         q.type = "mcq-single" /\ q.points = 1 /\ score < Unit =>
           (explained = {} <=> ans[q.id] = {})
  PROVE  Fits(Result(q, score, explained), q, score, ans)
<1>. DEFINE r == Result(q, score, explained)
<1>1. q.type \in QType /\ q.points \in Nat \ {0}
  BY DEF IsQuestion
<1>2. /\ r.id = q.id /\ r.type = q.type /\ r.score = score /\ r.max = q.points
      /\ r.explained = explained
  BY DEF Result
<1>3. r \in [id : {q.id}, type : QType, score : Nat, max : Nat \ {0}, explained : SUBSET Options]
  BY <1>1 DEF Result
<1>. HIDE DEF r
<1>4. r.score <= Unit * r.max
  BY <1>2
<1>5. r.type = "mcq-multi" => (r.score = Unit * r.max <=> r.explained = {})
  BY <1>2
<1>6. r.type = "mcq-single" /\ r.max = 1 /\ r.score < Unit =>
        (r.explained = {} <=> ans[r.id] = {})
  BY <1>2
<1>7. Explains(r, ans)
  BY <1>4, <1>5, <1>6 DEF Explains
<1>8. Fits(r, q, score, ans)
  BY <1>2, <1>3, <1>7 DEF Fits
<1>. QED
  BY <1>8 DEF r

\* A single-answer question: only a wrong option is explained.
LEMMA SingleFits ==
  ASSUME NEW q, IsQuestion(q), q.type = "mcq-single", NEW ans, ans[q.id] \in SUBSET Options,
         NEW score, score = ScoreSingle(q, ans[q.id])
  PROVE  Fits(Result(q, score, Explained(q, ans[q.id])), q, score, ans)
<1>. DEFINE selected == ans[q.id]
           explained == Explained(q, selected)
<1>1. q.points \in Nat \ {0}
  BY DEF IsQuestion
<1>2. score \in Nat /\ score <= Unit * q.points
  BY <1>1 DEF ScoreSingle, Unit
<1>3. explained = selected \ q.correct
  BY DEF Explained
<1>4. explained \in SUBSET Options
  BY <1>3
<1>5. score < Unit => selected \cap q.correct = {}
  BY DEF ScoreSingle, Unit
<1>6. score < Unit => (explained = {} <=> selected = {})
  BY <1>3, <1>5
<1>. HIDE DEF explained
<1>7. Fits(Result(q, score, explained), q, score, ans)
  BY <1>2, <1>4, <1>6, ResultFits
<1>. QED
  BY <1>7 DEF explained

\* A multiple-answer question: the options that differ are explained.
LEMMA MultiFits ==
  ASSUME NEW q, IsQuestion(q), OptionsSound(q), q.type = "mcq-multi",
         NEW ans, ans[q.id] \in SUBSET Options,
         NEW score, score = ScoreMulti(q, ans[q.id])
  PROVE  Fits(Result(q, score, Explained(q, ans[q.id])), q, score, ans)
<1>. DEFINE selected == ans[q.id]
           explained == Explained(q, selected)
<1>1. /\ score \in Nat /\ score <= Unit * q.points
      /\ score = Unit * q.points <=> selected = q.correct
  BY ScoreIsShare
<1>2. explained = (selected \ q.correct) \cup (q.correct \ selected)
  BY DEF Explained
<1>3. q.correct \in SUBSET Options
  BY DEF IsQuestion
<1>4. explained \in SUBSET Options
  BY <1>2, <1>3
<1>5. explained = {} <=> selected = q.correct
  BY <1>2
<1>. HIDE DEF explained
<1>6. Fits(Result(q, score, explained), q, score, ans)
  BY <1>1, <1>4, <1>5, ResultFits
<1>. QED
  BY <1>6 DEF explained

\* A descriptive question: its score is not explained.
LEMMA TextFits ==
  ASSUME NEW q, IsQuestion(q), q.type = "descriptive", NEW ans,
         NEW score \in Nat, score <= Unit * q.points
  PROVE  Fits(Result(q, score, {}), q, score, ans)
<1>1. {} \in SUBSET Options
  OBVIOUS
<1>. QED
  BY <1>1, ResultFits

\* The sheet with one result more.
LEMMA SheetGrows ==
  ASSUME NEW qs, NEW rs, NEW ans, Sheet(qs, rs, ans), NEW i \in DOMAIN qs, NEW r, NEW score,
         Fits(r, qs[i], score, ans)
  PROVE  Sheet(qs, Append(rs, r), ans) /\ r \in ResultOf(qs) /\ rs \in Seq(ResultOf(qs))
<1>1. qs[i].id \in Ids(qs)
  BY DEF Ids
<1>2. r \in ResultOf(qs)
  BY <1>1 DEF Fits, ResultOf
<1>3. rs \in Seq(ResultOf(qs)) /\ \A k \in 1..Len(rs) : Explains(rs[k], ans)
  BY DEF Sheet, ResultOf
<1>. DEFINE s == Append(rs, r)
<1>4. PICK n \in Nat : n = Len(rs)
  BY <1>3
<1>5. PICK m \in Nat : m = n + 1
  OBVIOUS
<1>6. s \in Seq(ResultOf(qs)) /\ Len(s) = m /\ s[m] = r /\ \A k \in 1..n : s[k] = rs[k]
  BY <1>2, <1>3, <1>4, <1>5
<1>. HIDE DEF s
<1>7. ASSUME NEW k \in 1..Len(s)
      PROVE  Explains(s[k], ans)
  <2>1. k \in 1..n \/ k = m
    BY <1>4, <1>5, <1>6
  <2>2. Explains(r, ans)
    BY DEF Fits
  <2>3. CASE k \in 1..n
    BY <1>3, <1>4, <1>6, <2>3
  <2>4. CASE k = m
    BY <1>6, <2>2, <2>4
  <2>. QED
    BY <2>1, <2>3, <2>4
<1>8. Sheet(qs, s, ans)
  BY <1>6, <1>7 DEF Sheet, ResultOf
<1>. QED
  BY <1>2, <1>3, <1>8 DEF s

-----------------------------------------------------------------------------
(* The weak sub-concepts.                                                  *)

\* A question is found by its id.
LEMMA FoundById ==
  ASSUME Len(quiz) \in Nat, DOMAIN quiz = 1..Len(quiz), DistinctIds(quiz), NEW i \in DOMAIN quiz
  PROVE  QuestionById(quiz[i].id) = quiz[i]
<1>. DEFINE Latest(j) == /\ quiz[j].id = quiz[i].id
                      /\ \A l \in DOMAIN quiz : quiz[l].id = quiz[i].id => l <= j
<1>1. \A l \in DOMAIN quiz : quiz[l].id = quiz[i].id => l = i
  BY DEF DistinctIds
<1>2. i <= i
  OBVIOUS
<1>3. Latest(i)
  BY <1>1, <1>2
<1>4. \A j \in DOMAIN quiz : Latest(j) => j = i
  BY <1>1
<1>. HIDE DEF Latest
<1>5. (CHOOSE j \in DOMAIN quiz : Latest(j)) = i
  BY <1>3, <1>4
<1>. QED
  BY <1>5 DEF QuestionById, Latest

\* The sub-concepts noted are those of the questions below half.
LEMMA WeakAreLow ==
  ASSUME Len(quiz) \in Nat, DOMAIN quiz = 1..Len(quiz), DistinctIds(quiz),
         Sheet(quiz, results, answers)
  PROVE  Range(WeakConcepts) = WeakOf(quiz, results)
<1>. DEFINE C == Concepts(quiz)
           con == [k \in 1..Len(results) |-> QuestionById(results[k].id).concept]
           low == {k \in 1..Len(results) : Low(results[k])}
           step == [k \in DOMAIN results |-> [cs \in Seq(C) |->
                     IF Low(results[k]) THEN Noted(cs, QuestionById(results[k].id).concept)
                                        ELSE cs]]
<1>1. /\ results \in Seq(ResultOf(quiz)) /\ Len(results) \in Nat
      /\ DOMAIN results = 1..Len(results)
  BY DEF Sheet, ResultOf
<1>2. \A k \in 1..Len(results) : results[k] \in ResultOf(quiz)
  BY <1>1
<1>3. ASSUME NEW k \in 1..Len(results)
      PROVE  \E i \in DOMAIN quiz : quiz[i].id = results[k].id /\ con[k] = quiz[i].concept
  <2>1. results[k].id \in Ids(quiz)
    BY <1>2 DEF ResultOf
  <2>2. PICK i \in DOMAIN quiz : quiz[i].id = results[k].id
    BY <2>1 DEF Ids
  <2>3. QuestionById(results[k].id) = quiz[i]
    BY <2>2, FoundById
  <2>. QED
    BY <2>2, <2>3
<1>4. con \in [1..Len(results) -> C]
  <2>1. \A k \in 1..Len(results) : con[k] \in C
    BY <1>3 DEF Concepts
  <2>. QED
    BY <2>1
<1>5. low \in SUBSET (1..Len(results))
  OBVIOUS
<1>6. step = [k \in 1..Len(results) |-> [cs \in Seq(C) |->
                IF k \in low THEN Noted(cs, con[k]) ELSE cs]]
  BY <1>1
<1>7. WeakConcepts = Loop(step, <<>>, Len(results))
  BY DEF WeakConcepts
<1>8. \A k \in 1..Len(results) :
        k \in low <=> results[k].score < Unit * results[k].max - results[k].score
  <2>1. \A k \in 1..Len(results) : results[k].score \in Nat /\ results[k].max \in Nat
    BY <1>2 DEF ResultOf
  <2>. QED
    BY <2>1 DEF Low, Unit
<1>. HIDE DEF C, con, low, step
<1>9. Range(Loop(step, <<>>, Len(results))) = {con[k] : k \in low}
  <2>1. PICK n \in Nat : n = Len(results)
    BY <1>1
  <2>2. con \in [1..n -> C] /\ low \in SUBSET (1..n)
    BY <1>4, <1>5, <2>1
  <2>3. step = Noting(n, C, low, con)
    BY <1>6, <2>1 DEF Noting
  <2>4. Range(Loop(Noting(n, C, low, con), <<>>, n)) = OfLow(low, con)
    BY <2>2, NotedAre
  <2>. QED
    BY <2>1, <2>3, <2>4 DEF OfLow
<1>10. ASSUME NEW k \in low
       PROVE  con[k] \in WeakOf(quiz, results)
  <2>1. k \in 1..Len(results)
    BY <1>5
  <2>2. PICK i \in DOMAIN quiz : quiz[i].id = results[k].id /\ con[k] = quiz[i].concept
    BY <1>3, <2>1
  <2>3. results[k].score < Unit * results[k].max - results[k].score
    BY <1>8, <2>1
  <2>4. con[k] \in Concepts(quiz)
    BY <2>2 DEF Concepts
  <2>. QED
    BY <1>1, <2>1, <2>2, <2>3, <2>4 DEF WeakOf
<1>11. ASSUME NEW c \in WeakOf(quiz, results)
       PROVE  \E k \in low : con[k] = c
  <2>1. PICK k \in DOMAIN results, i \in DOMAIN quiz :
          /\ results[k].id = quiz[i].id /\ quiz[i].concept = c
          /\ results[k].score < Unit * results[k].max - results[k].score
    BY DEF WeakOf
  <2>2. k \in 1..Len(results) /\ k \in low
    BY <1>1, <1>8, <2>1
  <2>3. PICK j \in DOMAIN quiz : quiz[j].id = results[k].id /\ con[k] = quiz[j].concept
    BY <1>3, <2>2
  <2>4. i = j
    BY <2>1, <2>3 DEF DistinctIds
  <2>. QED
    BY <2>1, <2>2, <2>3, <2>4
<1>. QED
  BY <1>7, <1>9, <1>10, <1>11

-----------------------------------------------------------------------------
\* What the types say of the questions, the answers and the deferred ones.
LEMMA Known ==
  ASSUME Totals
  PROVE  /\ Len(quiz) \in Nat /\ DOMAIN quiz = 1..Len(quiz) /\ Worths(quiz, Len(quiz))
         /\ \A i \in DOMAIN quiz : /\ IsQuestion(quiz[i]) /\ OptionsSound(quiz[i])
                                   /\ answers[quiz[i].id] \in SUBSET Options
         /\ deferred \in Seq(Nat) /\ Len(deferred) \in Nat
         /\ \A k \in 1..Len(deferred) :
              deferred[k] \in DOMAIN quiz /\ quiz[deferred[k]].points \in Nat
         /\ TotalOf(DeferredPoints(quiz, deferred, Len(deferred))) \in Int
<1>1. /\ Len(quiz) \in Nat /\ DOMAIN quiz = 1..Len(quiz)
      /\ \A i \in DOMAIN quiz : IsQuestion(quiz[i]) /\ OptionsSound(quiz[i])
  BY QuizIsSequence DEF Totals
<1>2. \A i \in DOMAIN quiz : quiz[i].points \in Nat \ {0}
  BY <1>1 DEF IsQuestion
<1>3. Worths(quiz, Len(quiz))
  BY <1>1, <1>2 DEF Worths
<1>4. ASSUME NEW i \in DOMAIN quiz
      PROVE  answers[quiz[i].id] \in SUBSET Options
  <2>1. answers \in [Ids(quiz) -> SUBSET Options]
    BY DEF Totals, AnswersTo
  <2>2. quiz[i].id \in Ids(quiz)
    BY DEF Ids
  <2>. QED
    BY <2>1, <2>2
<1>5. deferred \in Seq(DOMAIN quiz)
  BY DEF Totals
<1>6. deferred \in Seq(Nat) /\ Len(deferred) \in Nat
  BY <1>1, <1>5
<1>7. \A k \in 1..Len(deferred) : deferred[k] \in DOMAIN quiz
  BY <1>5
<1>8. \A k \in 1..Len(deferred) : quiz[deferred[k]].points \in Nat
  BY <1>2, <1>7
<1>9. TotalOf(DeferredPoints(quiz, deferred, Len(deferred))) \in Int
  <2>1. DeferredPoints(quiz, deferred, Len(deferred)) \in [1..Len(deferred) -> Int]
    BY <1>8 DEF DeferredPoints
  <2>. QED
    BY <1>6, <2>1, TotalIsInt
<1>. QED
  BY <1>1, <1>3, <1>4, <1>6, <1>7, <1>8, <1>9

\* What holds of all questions holds of the first p.
LEMMA WorthsUpTo ==
  ASSUME NEW qs, NEW n \in Nat, Worths(qs, n), NEW p \in 1..n
  PROVE  Worths(qs, p)
<1>1. \A k \in 1..p : k \in 1..n
  OBVIOUS
<1>. QED
  BY <1>1 DEF Worths

\* A result has a score.
LEMMA ResultsAreScored ==
  ASSUME NEW qs
  PROVE  \A x \in ResultOf(qs) : x.score \in Nat
  BY DEF ResultOf

\* A multiple-choice question read.
LEMMA ProgressChoice ==
  ASSUME NEW qs, NEW d \in Seq(Nat), Len(qs) \in Nat, DOMAIN qs = 1..Len(qs),
         Worths(qs, Len(qs)), TotalOf(DeferredPoints(qs, d, Len(d))) \in Int,
         NEW rs \in Seq(ResultOf(qs)), NEW r \in ResultOf(qs), NEW ans,
         NEW p \in DOMAIN qs, NEW m, m = p + 1, qs[p].type \in Multiple,
         Fits(r, qs[p], r.score, ans), r.id = qs[p].id,
         NEW choices, NEW texts, NEW new, new = choices + r.score,
         Progress(qs, d, rs, choices, texts, p, 0)
  PROVE  Progress(qs, d, Append(rs, r), new, texts, m, 0)
<1>1. p \in Nat \ {0} /\ p \in 1..Len(qs) /\ m \in Nat /\ m \in 1..(Len(qs) + 1)
  OBVIOUS
<1>2. /\ Order(qs, d, rs, p, 0) /\ Sums(qs, d, rs, choices, texts, p, 0)
      /\ \A k \in 1..Len(d) : qs[d[k]].type \in Written
  BY DEF Progress
<1>3. Worths(qs, p)
  BY <1>1, WorthsUpTo
<1>4. \A x \in ResultOf(qs) : x.score \in Nat
  BY ResultsAreScored
<1>5. r.score <= Unit * qs[p].points
  BY DEF Fits
<1>6. Order(qs, d, Append(rs, r), m, 0)
  BY <1>1, <1>2, OrderChoice
<1>7. Sums(qs, d, Append(rs, r), new, texts, m, 0)
  BY <1>1, <1>2, <1>3, <1>4, <1>5, SumsChoice
<1>. QED
  BY <1>1, <1>2, <1>6, <1>7 DEF Progress

\* A descriptive question put off.
LEMMA ProgressDefer ==
  ASSUME NEW qs, NEW d \in Seq(Nat), Len(qs) \in Nat, DOMAIN qs = 1..Len(qs),
         Worths(qs, Len(qs)), \A k \in 1..Len(d) : qs[d[k]].points \in Nat,
         NEW rs, NEW p \in DOMAIN qs, NEW m, m = p + 1, qs[p].type \in Written,
         NEW choices, NEW texts, Progress(qs, d, rs, choices, texts, p, 0)
  PROVE  Progress(qs, Append(d, p), rs, choices, texts, m, 0)
<1>1. p \in Nat \ {0} /\ p \in 1..Len(qs) /\ m \in Nat /\ m \in 1..(Len(qs) + 1)
  OBVIOUS
<1>2. /\ Order(qs, d, rs, p, 0) /\ Sums(qs, d, rs, choices, texts, p, 0)
      /\ \A k \in 1..Len(d) : qs[d[k]].type \in Written
  BY DEF Progress
<1>3. Worths(qs, p)
  BY <1>1, WorthsUpTo
<1>4. Order(qs, Append(d, p), rs, m, 0)
  BY <1>1, <1>2, OrderDefer
<1>5. Sums(qs, Append(d, p), rs, choices, texts, m, 0)
  BY <1>1, <1>2, <1>3, SumsDefer
<1>6. \A k \in 1..Len(Append(d, p)) : qs[Append(d, p)[k]].type \in Written
  <2>. DEFINE e == Append(d, p)
  <2>1. /\ Len(e) = Len(d) + 1 /\ Len(d) \in Nat /\ e[Len(d) + 1] = p
        /\ \A k \in 1..Len(d) : e[k] = d[k]
    BY <1>1
  <2>. HIDE DEF e
  <2>2. \A k \in 1..Len(e) : k \in 1..Len(d) \/ k = Len(d) + 1
    BY <2>1
  <2>3. \A k \in 1..Len(e) : qs[e[k]].type \in Written
    BY <1>2, <2>1, <2>2
  <2>. QED
    BY <2>3 DEF e
<1>. QED
  BY <1>1, <1>4, <1>5, <1>6 DEF Progress

\* A descriptive question graded.
LEMMA ProgressText ==
  ASSUME NEW qs, NEW d \in Seq(Nat), \A k \in 1..Len(d) : qs[d[k]].points \in Nat,
         NEW rs \in Seq(ResultOf(qs)), NEW r \in ResultOf(qs), NEW ans,
         NEW n \in Nat, NEW k \in 1..Len(d), k = n + 1,
         Fits(r, qs[d[k]], r.score, ans), r.id = qs[d[k]].id,
         NEW next, NEW choices, NEW texts, NEW new, new = texts + r.score,
         Progress(qs, d, rs, choices, texts, next, n)
  PROVE  Progress(qs, d, Append(rs, r), choices, new, next, k)
<1>1. k \in Nat /\ \A j \in 1..k : j \in 1..Len(d)
  OBVIOUS
<1>2. /\ Order(qs, d, rs, next, n) /\ Sums(qs, d, rs, choices, texts, next, n)
      /\ next \in 1..(Len(qs) + 1)
      /\ \A j \in 1..Len(d) : qs[d[j]].type \in Written
  BY DEF Progress
<1>3. next \in Nat \ {0}
  BY <1>2 DEF Order
<1>4. \A x \in ResultOf(qs) : x.score \in Nat
  BY ResultsAreScored
<1>5. r.score <= Unit * qs[d[k]].points
  BY DEF Fits
<1>6. Order(qs, d, Append(rs, r), next, k)
  BY <1>2, <1>3, OrderText
<1>7. \A j \in 1..k : qs[d[j]].points \in Nat
  BY <1>1
<1>8. Sums(qs, d, Append(rs, r), choices, new, next, k)
  BY <1>1, <1>2, <1>4, <1>5, <1>7, SumsText
<1>. QED
  BY <1>2, <1>6, <1>8 DEF Progress

\* At the start nothing is read and nothing is scored.
LEMMA ReportInit == Init => ReportInv
<1>. SUFFICES ASSUME Init  PROVE ReportInv
  OBVIOUS
<1>1. /\ phase = "choices" /\ cursor = 1 /\ deferred = <<>> /\ results = <<>>
      /\ mcq = 0 /\ descriptive = 0 /\ quiz \in Quizzes
  BY DEF Init
<1>2. Len(quiz) \in Nat
  BY <1>1, QuizIsSequence
<1>3. NextRead = 1 /\ Given = 0 /\ ~Scored
  BY <1>1 DEF NextRead, Given, Scored
<1>4. Len(results) = 0 /\ Len(deferred) = 0
  BY <1>1
<1>5. Sheet(quiz, results, answers)
  BY <1>1, <1>4 DEF Sheet
<1>6. \A types : HowMany(quiz, types, 1) = 0
  <2>1. \A types : Before(quiz, types, 1) = {}
    BY DEF Before
  <2>. QED
    BY <2>1, FS_EmptySet DEF HowMany
<1>7. Order(quiz, deferred, results, 1, 0)
  BY <1>4, <1>6 DEF Order
<1>8. Sums(quiz, deferred, results, mcq, descriptive, 1, 0)
  <2>1. TotalOf(Scores(results)) = 0
    <3>1. Scores(results) = <<>>
      BY <1>4 DEF Scores
    <3>. QED
      BY <3>1, TotalOfNone
  <2>2. TotalOf(DeferredPoints(quiz, deferred, 0)) = 0
    <3>1. DeferredPoints(quiz, deferred, 0) = <<>>
      BY DEF DeferredPoints
    <3>. QED
      BY <3>1, TotalOfNone
  <2>3. TotalOf(QuizPoints(quiz, 1 - 1)) = 0
    <3>1. QuizPoints(quiz, 1 - 1) = <<>>
      BY DEF QuizPoints
    <3>. QED
      BY <3>1, TotalOfNone
  <2>. QED
    BY <1>1, <1>4, <2>1, <2>2, <2>3 DEF Sums, Unit
<1>9. 1 \in 1..(Len(quiz) + 1) /\ \A k \in 1..Len(deferred) : quiz[deferred[k]].type \in Written
  BY <1>2, <1>4
<1>10. Progress(quiz, deferred, results, mcq, descriptive, NextRead, Given)
  BY <1>3, <1>7, <1>8, <1>9 DEF Progress
<1>. QED
  BY <1>3, <1>5, <1>10 DEF ReportInv

\* A multiple-choice question adds its result behind those before it.
LEMMA ReportGradeChoice ==
  ASSUME Totals, ReportInv, GradeChoice
  PROVE  ReportInv'
<1>1. /\ phase = "choices" /\ cursor \in DOMAIN quiz /\ Here.type \in Multiple
      /\ Here = quiz[cursor] /\ cursor \in Nat \ {0}
  <2>1. cursor \in Nat \ {0}
    BY DEF Totals
  <2>. QED
    BY <2>1, Known DEF GradeChoice, AtQuestion, Here
<1>2. NextRead = cursor /\ Given = 0
  BY <1>1 DEF NextRead, Given
<1>3. /\ Sheet(quiz, results, answers)
      /\ Progress(quiz, deferred, results, mcq, descriptive, cursor, 0)
  BY <1>1, <1>2 DEF ReportInv
<1>. DEFINE score == IF Here.type = "mcq-single" THEN ScoreSingle(Here, answers[Here.id])
                                                ELSE ScoreMulti(Here, answers[Here.id])
           r == Result(Here, score, Explained(Here, answers[Here.id]))
<1>4. /\ mcq' = mcq + score /\ results' = Append(results, r) /\ cursor' = cursor + 1
      /\ UNCHANGED <<quiz, answers, phase, deferred, descriptive>>
  BY DEF GradeChoice, input
<1>5. IsQuestion(Here) /\ OptionsSound(Here) /\ answers[Here.id] \in SUBSET Options
  BY <1>1, Known
<1>. HIDE DEF score
<1>6. Fits(r, Here, score, answers)
  <2>1. CASE Here.type = "mcq-single"
    <3>1. score = ScoreSingle(Here, answers[Here.id])
      BY <2>1 DEF score
    <3>. QED
      BY <1>5, <2>1, <3>1, SingleFits
  <2>2. CASE Here.type = "mcq-multi"
    <3>1. score = ScoreMulti(Here, answers[Here.id])
      BY <2>2 DEF score
    <3>. QED
      BY <1>5, <2>2, <3>1, MultiFits
  <2>. QED
    BY <1>1, <2>1, <2>2 DEF Multiple
<1>7. r.score = score /\ r.id = Here.id
  BY DEF Result
<1>. HIDE DEF r
<1>8. /\ Sheet(quiz, Append(results, r), answers)
      /\ r \in ResultOf(quiz) /\ results \in Seq(ResultOf(quiz))
  BY <1>1, <1>3, <1>6, SheetGrows
<1>9. Progress(quiz, deferred, Append(results, r), mcq', descriptive, cursor', 0)
  <2>1. Fits(r, quiz[cursor], r.score, answers) /\ r.id = quiz[cursor].id
    BY <1>1, <1>6, <1>7
  <2>2. mcq' = mcq + r.score /\ cursor' = cursor + 1 /\ quiz[cursor].type \in Multiple
    BY <1>1, <1>4, <1>7
  <2>. QED
    BY <1>1, <1>3, <1>8, <2>1, <2>2, Known, ProgressChoice
<1>10. /\ NextRead' = cursor' /\ Given' = 0 /\ ~Scored'
  BY <1>1, <1>4 DEF NextRead, Given, Scored
<1>11. Sheet(quiz, results, answers)'
  BY <1>4, <1>8
<1>12. Progress(quiz, deferred, results, mcq, descriptive, NextRead, Given)'
  BY <1>4, <1>9, <1>10
<1>. QED
  BY <1>10, <1>11, <1>12 DEF ReportInv

\* A descriptive question goes behind those put off before it.
LEMMA ReportDefer ==
  ASSUME Totals, ReportInv, Defer
  PROVE  ReportInv'
<1>1. /\ phase = "choices" /\ cursor \in DOMAIN quiz /\ quiz[cursor].type \in Written
  <2>1. cursor \in Nat \ {0}
    BY DEF Totals
  <2>. QED
    BY <2>1, Known DEF Defer, AtQuestion, Here, Written
<1>2. NextRead = cursor /\ Given = 0
  BY <1>1 DEF NextRead, Given
<1>3. /\ Sheet(quiz, results, answers)
      /\ Progress(quiz, deferred, results, mcq, descriptive, cursor, 0)
  BY <1>1, <1>2 DEF ReportInv
<1>4. /\ deferred' = Append(deferred, cursor) /\ cursor' = cursor + 1
      /\ UNCHANGED <<quiz, answers, phase, results, mcq, descriptive>>
  BY DEF Defer, input
<1>5. Progress(quiz, Append(deferred, cursor), results, mcq, descriptive, cursor', 0)
  BY <1>1, <1>3, <1>4, Known, ProgressDefer
<1>6. /\ NextRead' = cursor' /\ Given' = 0 /\ ~Scored'
  BY <1>1, <1>4 DEF NextRead, Given, Scored
<1>7. Sheet(quiz, results, answers)'
  BY <1>3, <1>4
<1>8. Progress(quiz, deferred, results, mcq, descriptive, NextRead, Given)'
  BY <1>4, <1>5, <1>6
<1>. QED
  BY <1>6, <1>7, <1>8 DEF ReportInv

\* The grades come when the whole quiz has been read.
LEMMA ReportAskGrader ==
  ASSUME Totals, ReportInv, AskGrader
  PROVE  ReportInv'
<1>1. phase = "choices" /\ cursor > Len(quiz) /\ cursor \in Nat /\ Len(quiz) \in Nat
  BY Known DEF AskGrader, Totals
<1>2. NextRead = cursor /\ Given = 0
  BY <1>1 DEF NextRead, Given
<1>3. /\ Sheet(quiz, results, answers)
      /\ Progress(quiz, deferred, results, mcq, descriptive, cursor, 0)
  BY <1>1, <1>2 DEF ReportInv
<1>4. cursor = Len(quiz) + 1
  BY <1>1, <1>3 DEF Progress
<1>5. UNCHANGED <<quiz, answers, deferred, results, mcq, descriptive>>
  BY DEF AskGrader, input
<1>6. \/ phase' = "grades" /\ cursor' = 1
      \/ phase' = "error"
      \/ phase' = "assemble" /\ deferred = <<>>
  BY DEF AskGrader
<1>7. phase' # "error" => NextRead' = cursor /\ Given' = 0
  <2>1. ASSUME phase' = "grades", cursor' = 1
        PROVE  NextRead' = cursor /\ Given' = 0
    BY <1>4, <1>5, <2>1 DEF NextRead, Given
  <2>2. ASSUME phase' = "assemble", deferred = <<>>
        PROVE  NextRead' = cursor /\ Given' = 0
    BY <1>4, <1>5, <2>2 DEF NextRead, Given
  <2>. QED
    BY <1>6, <2>1, <2>2
<1>8. ~Scored'
  BY <1>6 DEF Scored
<1>9. Sheet(quiz, results, answers)'
  BY <1>3, <1>5
<1>10. phase' # "error" => Progress(quiz, deferred, results, mcq, descriptive, NextRead, Given)'
  BY <1>3, <1>5, <1>7
<1>. QED
  BY <1>8, <1>9, <1>10 DEF ReportInv

\* A descriptive question adds its result, or the evaluation fails.
LEMMA ReportGradeText ==
  ASSUME Totals, ReportInv, GradeText
  PROVE  ReportInv'
<1>1. phase = "grades" /\ cursor \in 1..Len(deferred) /\ cursor \in Nat \ {0}
  BY Known DEF GradeText, Totals
<1>2. Given = cursor - 1
  BY <1>1 DEF Given
<1>3. /\ Sheet(quiz, results, answers)
      /\ Progress(quiz, deferred, results, mcq, descriptive, NextRead, Given)
  BY <1>1 DEF ReportInv
<1>. DEFINE i == deferred[cursor]
           q == quiz[i]
           score == Mark(q)
<1>4. UNCHANGED <<quiz, answers, deferred, mcq>>
  BY DEF GradeText, input
<1>5. i \in DOMAIN quiz /\ IsQuestion(q)
  BY <1>1, Known
<1>6. q.type = "descriptive"
  BY <1>1, <1>3 DEF Progress, Written
<1>7. score \in Int /\ score <= Unit * q.points
  <2>1. PICK S : grades \in [S -> Points]
    BY DEF Totals
  <2>. QED
    BY <1>5, <2>1, MarkIsWithin
<1>8. \/ /\ score >= 0 /\ descriptive' = descriptive + score /\ cursor' = cursor + 1
         /\ results' = Append(results, Result(q, score, {})) /\ phase' = phase
      \/ phase' = "raised" /\ results' = results
  BY DEF GradeText
<1>9. ~Scored'
  BY <1>1, <1>8 DEF Scored
<1>10. CASE phase' = "raised" /\ results' = results
  <2>1. Sheet(quiz, results, answers)'
    BY <1>3, <1>4, <1>10
  <2>. QED
    BY <1>9, <1>10, <2>1 DEF ReportInv
<1>11. CASE /\ score >= 0 /\ descriptive' = descriptive + score /\ cursor' = cursor + 1
            /\ results' = Append(results, Result(q, score, {})) /\ phase' = phase
  <2>. DEFINE r == Result(q, score, {})
  <2>. HIDE DEF score
  <2>1. score \in Nat
    BY <1>7, <1>11
  <2>2. Fits(r, q, score, answers)
    BY <1>5, <1>6, <1>7, <2>1, TextFits
  <2>3. r.score = score /\ r.id = q.id
    BY DEF Result
  <2>. HIDE DEF r
  <2>4. /\ Sheet(quiz, Append(results, r), answers)
        /\ r \in ResultOf(quiz) /\ results \in Seq(ResultOf(quiz))
    BY <1>3, <1>5, <2>2, SheetGrows
  <2>5. PICK n \in Nat : n = cursor - 1
    BY <1>1
  <2>6. cursor = n + 1
    BY <1>1, <2>5
  <2>7. Progress(quiz, deferred, results, mcq, descriptive, NextRead, n)
    BY <1>2, <1>3, <2>5
  <2>8. Fits(r, quiz[deferred[cursor]], r.score, answers) /\ r.id = quiz[deferred[cursor]].id
    BY <2>2, <2>3
  <2>9. descriptive' = descriptive + r.score
    BY <1>11, <2>3
  <2>10. Progress(quiz, deferred, Append(results, r), mcq, descriptive', NextRead, cursor)
    BY <1>1, <2>4, <2>6, <2>7, <2>8, <2>9, Known, ProgressText
  <2>11. NextRead' = NextRead /\ Given' = cursor
    <3>1. phase' = "grades"
      BY <1>1, <1>11
    <3>2. Given' = cursor' - 1
      BY <3>1 DEF Given
    <3>. QED
      BY <1>1, <1>4, <1>11, <3>1, <3>2 DEF NextRead
  <2>12. results' = Append(results, r)
    BY <1>11 DEF r
  <2>13. Sheet(quiz, results, answers)'
    BY <1>4, <2>4, <2>12
  <2>14. Progress(quiz, deferred, results, mcq, descriptive, NextRead, Given)'
    BY <1>4, <2>10, <2>11, <2>12
  <2>. QED
    BY <1>9, <2>13, <2>14 DEF ReportInv
<1>. QED
  BY <1>8, <1>10, <1>11

\* The grading ends when every question put off has its result.
LEMMA ReportTextGraded ==
  ASSUME Totals, ReportInv, TextGraded
  PROVE  ReportInv'
<1>1. /\ phase = "grades" /\ cursor > Len(deferred) /\ cursor \in Nat
      /\ Len(deferred) \in Nat
  BY Known DEF TextGraded, Totals
<1>2. Given = cursor - 1
  BY <1>1 DEF Given
<1>3. /\ Sheet(quiz, results, answers)
      /\ Progress(quiz, deferred, results, mcq, descriptive, NextRead, Given)
  BY <1>1 DEF ReportInv
<1>4. Given \in 0..Len(deferred)
  BY <1>3 DEF Progress, Order
<1>5. Given = Len(deferred)
  BY <1>1, <1>2, <1>4
<1>6. /\ phase' = "assemble"
      /\ UNCHANGED <<quiz, answers, cursor, deferred, results, mcq, descriptive>>
  BY DEF TextGraded, input
<1>7. NextRead' = NextRead /\ Given' = Given /\ ~Scored'
  BY <1>1, <1>5, <1>6 DEF NextRead, Given, Scored
<1>8. Sheet(quiz, results, answers)'
  BY <1>3, <1>6
<1>9. Progress(quiz, deferred, results, mcq, descriptive, NextRead, Given)'
  BY <1>3, <1>6, <1>7
<1>. QED
  BY <1>7, <1>8, <1>9 DEF ReportInv

\* The weak sub-concepts are collected from the whole of the results.
LEMMA ReportAssemble ==
  ASSUME Totals, ReportInv, Assemble
  PROVE  ReportInv'
<1>1. /\ phase = "assemble" /\ phase' = "done" /\ weak' = WeakConcepts
      /\ UNCHANGED <<quiz, answers, cursor, deferred, results, mcq, descriptive>>
  BY DEF Assemble, input
<1>2. /\ Sheet(quiz, results, answers)
      /\ Progress(quiz, deferred, results, mcq, descriptive, NextRead, Given)
  BY <1>1 DEF ReportInv
<1>3. NextRead' = NextRead /\ Given' = Given
  BY <1>1 DEF NextRead, Given
<1>4. Sheet(quiz, results, answers)'
  BY <1>1, <1>2
<1>5. Progress(quiz, deferred, results, mcq, descriptive, NextRead, Given)'
  BY <1>1, <1>2, <1>3
<1>6. ASSUME DistinctIds(quiz)'
      PROVE  Range(weak)' = WeakOf(quiz, results)'
  <2>1. DistinctIds(quiz)
    BY <1>1, <1>6
  <2>2. Range(WeakConcepts) = WeakOf(quiz, results)
    BY <1>2, <2>1, Known, WeakAreLow
  <2>. QED
    BY <1>1, <2>2
<1>. QED
  BY <1>4, <1>5, <1>6 DEF ReportInv

\* What the SWOT call is told changes nothing of the report.
LEMMA ReportSwot ==
  ASSUME ReportInv, Swot
  PROVE  ReportInv'
<1>1. /\ phase = "done" /\ phase' = "swot"
      /\ UNCHANGED <<quiz, answers, cursor, deferred, results, mcq, descriptive, weak>>
  BY DEF Swot, input
<1>2. /\ Sheet(quiz, results, answers) /\ Scored
      /\ Progress(quiz, deferred, results, mcq, descriptive, NextRead, Given)
      /\ DistinctIds(quiz) => Range(weak) = WeakOf(quiz, results)
  BY <1>1 DEF ReportInv, Scored
<1>3. NextRead' = NextRead /\ Given' = Given
  BY <1>1 DEF NextRead, Given
<1>4. Sheet(quiz, results, answers)'
  BY <1>1, <1>2
<1>5. Progress(quiz, deferred, results, mcq, descriptive, NextRead, Given)'
  BY <1>1, <1>2, <1>3
<1>6. DistinctIds(quiz)' => Range(weak)' = WeakOf(quiz, results)'
  BY <1>1, <1>2
<1>. QED
  BY <1>4, <1>5, <1>6 DEF ReportInv

\* So every step keeps the report consistent.
LEMMA ReportNext == Totals /\ ReportInv /\ [Next]_vars => ReportInv'
<1>. SUFFICES ASSUME Totals, ReportInv, [Next]_vars  PROVE ReportInv'
  OBVIOUS
<1>1. CASE UNCHANGED vars
  <2>1. UNCHANGED <<quiz, answers, phase, cursor, deferred, results, mcq, descriptive, weak>>
    BY <1>1 DEF vars, input
  <2>2. NextRead' = NextRead /\ Given' = Given /\ (Scored' <=> Scored)
    BY <2>1 DEF NextRead, Given, Scored
  <2>3. Sheet(quiz, results, answers)'
    BY <2>1 DEF ReportInv
  <2>4. phase' \notin {"error", "raised"} =>
          Progress(quiz, deferred, results, mcq, descriptive, NextRead, Given)'
    BY <2>1, <2>2 DEF ReportInv
  <2>5. Scored' /\ DistinctIds(quiz)' => Range(weak)' = WeakOf(quiz, results)'
    BY <2>1, <2>2 DEF ReportInv
  <2>. QED
    BY <2>3, <2>4, <2>5 DEF ReportInv
<1>. QED
  BY <1>1, ReportGradeChoice, ReportDefer, ReportAskGrader, ReportGradeText, ReportTextGraded,
     ReportAssemble, ReportSwot DEF Next

\* The report that is put together says what the invariant does.
LEMMA ReportFollows ==
  ASSUME Totals, ReportInv
  PROVE  ReportIsConsistent
<1>1. results \in Seq(ResultOf(quiz)) /\ \A k \in 1..Len(results) : Explains(results[k], answers)
  BY DEF ReportInv, Sheet, ResultOf
<1>2. DOMAIN results = 1..Len(results)
  BY <1>1
<1>3. PICK N \in Nat : N = Len(quiz)
  BY Known
<1>4. PICK m \in Nat : m = N + 1
  OBVIOUS
<1>5. DOMAIN quiz = 1..N /\ deferred \in Seq(Nat)
  BY <1>3, Known
<1>6. ASSUME Scored
      PROVE  Progress(quiz, deferred, results, mcq, descriptive, m, Len(deferred))
  <2>1. phase \in {"done", "swot"}
    BY <1>6 DEF Scored
  <2>2. NextRead = m /\ Given = Len(deferred)
    BY <1>3, <1>4, <2>1 DEF NextRead, Given
  <2>3. Progress(quiz, deferred, results, mcq, descriptive, NextRead, Given)
    BY <2>1 DEF ReportInv
  <2>. QED
    BY <2>2, <2>3
<1>7. ResultsCoverQuiz
  <2>. SUFFICES ASSUME Scored
               PROVE  /\ Len(results) = Len(quiz)
                      /\ \A i \in DOMAIN quiz :
                           results[Cardinality({j \in DOMAIN quiz : GradedBefore(j, i)}) + 1].id
                             = quiz[i].id
    BY DEF ResultsCoverQuiz
  <2>1. Order(quiz, deferred, results, m, Len(deferred))
    BY <1>6 DEF Progress
  <2>2. \A i \in 1..N : quiz[i].type \in QType
    BY <1>5, Known DEF IsQuestion
  <2>3. Len(results) = N /\ Covers(quiz, results)
    BY <1>4, <1>5, <2>1, <2>2, OrderCovers
  <2>. QED
    BY <1>3, <2>3 DEF Covers, GradedBefore
<1>8. TotalsAgree
  <2>. SUFFICES ASSUME Scored
               PROVE  /\ Overall = TotalOf([k \in DOMAIN results |-> results[k].score])
                      /\ Overall \in 0..(Unit * MaxScore)
                      /\ \A k \in DOMAIN results : results[k].score <= Unit * results[k].max
    BY DEF TotalsAgree
  <2>1. Sums(quiz, deferred, results, mcq, descriptive, m, Len(deferred))
    BY <1>6 DEF Progress
  <2>2. TotalOf(DeferredPoints(quiz, deferred, Len(deferred))) \in Int
    BY Known
  <2>3. TotalOf(QuizPoints(quiz, N)) \in Int
    <3>1. QuizPoints(quiz, N) \in [1..N -> Int]
      BY <1>3, Known DEF Worths, QuizPoints
    <3>. QED
      BY <3>1, TotalIsInt
  <2>4. /\ mcq + descriptive = TotalOf([k \in DOMAIN results |-> results[k].score])
        /\ mcq + descriptive \in 0..(Unit * Worth(quiz))
    BY <1>1, <1>4, <1>5, <2>1, <2>2, <2>3, SumsEnd
  <2>5. \A k \in DOMAIN results : results[k].score <= Unit * results[k].max
    BY <1>1, <1>2 DEF Explains
  <2>. QED
    BY <2>4, <2>5 DEF Overall, MaxScore
<1>9. LossIsExplained
  BY <1>1, <1>2 DEF LossIsExplained, Explains
<1>10. WeakIsBelowHalf
  BY DEF WeakIsBelowHalf, ReportInv, WeakOf
<1>. QED
  BY <1>7, <1>8, <1>9, <1>10 DEF ReportIsConsistent

\* agent.py (evaluate): whatever the quiz, the answers and the marks, every
\* question of the report has its result at its place, the totals are those of
\* the results and within what the quiz is worth, what costs marks is explained,
\* and the weak sub-concepts are those of the questions below half.
THEOREM ReportIsConsistentAlways == Spec => []ReportIsConsistent
<1>1. Init => ActionInv /\ ReportInv
  BY TotalsInit, ReportInit
<1>2. ActionInv /\ ReportInv /\ [Next]_vars => (ActionInv /\ ReportInv)'
  <2>1. ActionInv => Totals
    BY DEF ActionInv
  <2>. QED
    BY <2>1, TotalsNext, ReportNext
<1>3. ActionInv /\ ReportInv => ReportIsConsistent
  BY ReportFollows DEF ActionInv
<1>. QED
  BY <1>1, <1>2, <1>3, PTL DEF Spec
=============================================================================
