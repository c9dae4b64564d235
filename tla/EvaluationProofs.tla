-------------------------- MODULE EvaluationProofs --------------------------
(***************************************************************************)
(* What holds of an evaluation for any data set, answers, words, prices    *)
(* and thresholds.  Sums are recursive functions on initial segments of    *)
(* the naturals, and what is said of them is shown by induction: the       *)
(* numbers for which it holds are a set that has 0 and with n also n + 1.  *)
(***************************************************************************)
EXTENDS Evaluation, SequenceTheorems, FiniteSetTheorems, WellFoundedInduction, TLAPS

-----------------------------------------------------------------------------
(* Induction and recursion. *)

Less == {ns \in Nat \X Nat : ns[1] < ns[2]}

\* A set of naturals with 0 and all successors has all naturals: another one would be least.
LEMMA Inductive ==
  ASSUME NEW S \in SUBSET Nat, 0 \in S, \A n \in S : n + 1 \in S
  PROVE  S = Nat
  <1> DEFINE T == Nat \ S
  <1> SUFFICES ASSUME T # {} PROVE FALSE
    OBVIOUS
  <1>1. IsWellFoundedOn(Less, Nat)
    BY NatLessThanWellFounded, Zenon DEF OpToRel, Less
  <1>2. PICK x \in T : \A y \in T : <<y, x>> \notin Less
    <2>1. T \subseteq Nat
      OBVIOUS
    <2> HIDE DEF T
    <2> QED BY <1>1, <2>1, WFMin
  <1>3. x \in Nat /\ x # 0
    OBVIOUS
  <1>4. x - 1 \in Nat /\ x - 1 < x /\ (x - 1) + 1 = x
    BY <1>3
  <1>5. <<x - 1, x>> \in Less /\ x - 1 \in T
    BY <1>3, <1>4 DEF Less
  <1> QED BY <1>2, <1>5

\* Steps in a set take it through: g[n] is where n steps from a lead.
Runs(g, a, step, N) == g[0] = a /\ \A n \in 1..N : g[n] = step[n][g[n - 1]]

\* A recursion along 1..N has a solution.
LEMMA Recursion ==
  ASSUME NEW A, NEW a \in A, NEW N \in Nat, NEW step \in [1..N -> [A -> A]]
  PROVE  \E g \in [0..N -> A] : Runs(g, a, step, N)
  <1> DEFINE S == {k \in Nat : k <= N => \E g \in [0..k -> A] : Runs(g, a, step, k)}
  <1>1. 0 \in S
    <2>1. [n \in 0..0 |-> a] \in [0..0 -> A] /\ Runs([n \in 0..0 |-> a], a, step, 0)
      BY DEF Runs
    <2> QED BY <2>1
  <1>2. ASSUME NEW k \in S PROVE k + 1 \in S
    <2> SUFFICES ASSUME k + 1 <= N
                PROVE  \E g \in [0..(k + 1) -> A] : Runs(g, a, step, k + 1)
      OBVIOUS
    <2> k \in Nat
      OBVIOUS
    <2> PICK g \in [0..k -> A] : Runs(g, a, step, k)
      BY <1>2
    <2> DEFINE h == [n \in 0..(k + 1) |-> IF n = k + 1 THEN step[k + 1][g[k]] ELSE g[n]]
    <2>1. k + 1 \in 1..N /\ g[k] \in A
      OBVIOUS
    <2>2. step[k + 1][g[k]] \in A
      BY <2>1
    <2>3. h \in [0..(k + 1) -> A]
      BY <2>2
    <2>4. Runs(h, a, step, k + 1)
      <3>1. h[0] = a /\ \A n \in 0..k : h[n] = g[n]
        BY DEF Runs
      <3>2. h[k + 1] = step[k + 1][g[k]] /\ g[k] = h[k]
        OBVIOUS
      <3> HIDE DEF h
      <3>3. ASSUME NEW n \in 1..(k + 1) PROVE h[n] = step[n][h[n - 1]]
        <4>1. CASE n = k + 1
          BY <3>2, <4>1
        <4>2. CASE n # k + 1
          <5>1. n \in 1..k /\ n \in 0..k /\ n - 1 \in 0..k
            BY <4>2
          <5> QED BY <3>1, <5>1 DEF Runs
        <4> QED BY <4>1, <4>2
      <3> QED BY <3>1, <3>3 DEF Runs
    <2> QED BY <2>3, <2>4
  <1>3. N \in S
    <2>1. S \in SUBSET Nat
      OBVIOUS
    <2> HIDE DEF S
    <2> QED BY <1>1, <1>2, <2>1, Inductive
  <1> QED BY <1>3

\* Two functions that start alike and go on alike are alike.
GoOnAlike(g, h, N) == g[0] = h[0] /\ \A n \in 1..N : g[n - 1] = h[n - 1] => g[n] = h[n]

LEMMA Determined ==
  ASSUME NEW N \in Nat, NEW g, NEW h, GoOnAlike(g, h, N)
  PROVE  \A n \in 0..N : g[n] = h[n]
  <1> DEFINE S == {n \in Nat : n <= N => g[n] = h[n]}
  <1>1. 0 \in S
    BY DEF GoOnAlike
  <1>2. ASSUME NEW k \in S PROVE k + 1 \in S
    <2>1. k \in Nat /\ (k + 1) - 1 = k
      OBVIOUS
    <2>2. ASSUME k + 1 <= N PROVE g[k + 1] = h[k + 1]
      <3>1. g[k] = h[k] /\ k + 1 \in 1..N
        BY <2>1, <2>2
      <3> QED BY <2>1, <3>1 DEF GoOnAlike
    <2> QED BY <2>1, <2>2
  <1>3. S = Nat
    <2>1. S \in SUBSET Nat
      OBVIOUS
    <2> HIDE DEF S
    <2> QED BY <1>1, <1>2, <2>1, Inductive
  <1> QED BY <1>3

-----------------------------------------------------------------------------
(* The sum of a sequence of amounts. *)

Sums(g, f) == g[0] = 0 /\ \A n \in 1..Len(f) : g[n] = g[n - 1] + f[n]

LEMMA SumSolved ==
  ASSUME NEW f \in Seq(Int)
  PROVE  \E g \in [0..Len(f) -> Int] : Sums(g, f) /\ SumOf(f) = g[Len(f)]
  <1> DEFINE N == Len(f)
             step == [n \in 1..N |-> [x \in Int |-> x + f[n]]]
             Equation(g) == g = [n \in 0..N |-> IF n = 0 THEN 0 ELSE g[n - 1] + f[n]]
             upTo == CHOOSE g : Equation(g)
  <1>1. N \in Nat /\ \A n \in 1..N : f[n] \in Int
    BY LenProperties, ElementOfSeq
  <1>2. PICK g \in [0..N -> Int] : Runs(g, 0, step, N)
    <2>1. step \in [1..N -> [Int -> Int]]
      BY <1>1
    <2>2. N \in Nat /\ 0 \in Int
      BY <1>1
    <2> HIDE DEF step, N
    <2> QED BY <2>1, <2>2, Recursion, Zenon
  <1>3. Sums(g, f)
    <2> SUFFICES ASSUME NEW n \in 1..N PROVE g[n] = g[n - 1] + f[n]
      BY <1>2 DEF Sums, Runs
    <2>1. n - 1 \in 0..N
      BY <1>1
    <2> QED BY <1>2, <2>1 DEF Runs
  <1>4. Equation(g)
    <2>1. \A n \in 0..N : n # 0 => n \in 1..N
      BY <1>1
    <2> QED BY <1>2, <1>3, <2>1 DEF Sums
  <1>5. Equation(upTo)
    <2> HIDE DEF Equation
    <2> QED BY <1>4
  <1>6. SumOf(f) = upTo[N]
    BY DEF SumOf
  <1>7. upTo[N] = g[N]
    <2> HIDE DEF upTo
    <2>1. 0 \in 0..N /\ N \in 0..N /\ \A n \in 1..N : n \in 0..N /\ n # 0
      BY <1>1
    <2>2. upTo[0] = 0 /\ \A n \in 1..N : upTo[n] = upTo[n - 1] + f[n]
      BY <1>5, <2>1
    <2>3. \A n \in 0..N : upTo[n] = g[n]
      <3>1. upTo[0] = g[0]
        BY <1>3, <2>2 DEF Sums
      <3>2. \A n \in 1..N : upTo[n - 1] = g[n - 1] => upTo[n] = g[n]
        BY <1>3, <2>2 DEF Sums
      <3>3. GoOnAlike(upTo, g, N)
        BY <3>1, <3>2 DEF GoOnAlike
      <3>4. N \in Nat
        BY <1>1
      <3> HIDE DEF N
      <3> QED BY <3>3, <3>4, Determined
    <2> QED BY <2>1, <2>3
  <1> QED BY <1>3, <1>6, <1>7

LEMMA SumIsAmount == ASSUME NEW f \in Seq(Int) PROVE SumOf(f) \in Int
  <1>1. Len(f) \in 0..Len(f)
    BY LenProperties
  <1> QED BY <1>1, SumSolved

LEMMA SumOfNone == SumOf(<<>>) = 0
  <1>1. <<>> \in Seq(Int) /\ Len(<<>>) = 0
    BY EmptySeq
  <1>2. \E g : g[0] = 0 /\ SumOf(<<>>) = g[Len(<<>>)]
    BY <1>1, SumSolved DEF Sums
  <1> QED BY <1>1, <1>2

LEMMA SumAppends ==
  ASSUME NEW f \in Seq(Int), NEW x \in Int
  PROVE  SumOf(Append(f, x)) = SumOf(f) + x
  <1> DEFINE e == Append(f, x)
             N == Len(f)
  <1>1. e \in Seq(Int) /\ Len(e) = N + 1 /\ N \in Nat
        /\ (\A n \in 1..N : e[n] = f[n]) /\ e[N + 1] = x
    BY AppendProperties, LenProperties
  <1> HIDE DEF e
  <1>2. PICK g \in [0..N -> Int] : Sums(g, f) /\ SumOf(f) = g[N]
    BY SumSolved
  <1>3. PICK h \in [0..Len(e) -> Int] : Sums(h, e) /\ SumOf(e) = h[Len(e)]
    BY <1>1, SumSolved
  <1>4. \A n \in 0..N : h[n] = g[n]
    <2>1. h[0] = g[0]
      BY <1>2, <1>3 DEF Sums
    <2>2. ASSUME NEW n \in 1..N, h[n - 1] = g[n - 1] PROVE h[n] = g[n]
      <3>1. n \in 1..(N + 1)
        BY <1>1
      <3>2. h[n] = h[n - 1] + e[n] /\ g[n] = g[n - 1] + f[n]
        BY <1>1, <1>2, <1>3, <3>1 DEF Sums
      <3> QED BY <1>1, <2>2, <3>2
    <2>3. GoOnAlike(h, g, N)
      BY <2>1, <2>2 DEF GoOnAlike
    <2>4. N \in Nat
      BY <1>1
    <2> HIDE DEF N
    <2> QED BY <2>3, <2>4, Determined, ZenonT(30)
  <1>5. h[N + 1] = h[N] + x
    <2>1. N + 1 \in 1..(N + 1) /\ (N + 1) - 1 = N
      BY <1>1
    <2> QED BY <1>1, <1>3, <2>1 DEF Sums
  <1> QED BY <1>1, <1>2, <1>3, <1>4, <1>5 DEF e

-----------------------------------------------------------------------------
(* The order of fractions. *)

Fractions == [num : Int, den : Nat \ {0}]

LEMMA Scales ==
  ASSUME NEW a \in Int, NEW b \in Int, NEW c \in Nat
  PROVE  a >= b => a * c >= b * c
  OBVIOUS

LEMMA Unscales ==
  ASSUME NEW a \in Int, NEW b \in Int, NEW c \in Nat \ {0}
  PROVE  a * c >= b * c => a >= b
  OBVIOUS

LEMMA Exchanges ==
  ASSUME NEW a \in Int, NEW b \in Int, NEW c \in Int, NEW d \in Int
  PROVE  (a * b) * (c * d) = (a * c) * (b * d)
  OBVIOUS

LEMMA Products ==
  ASSUME NEW a \in Int, NEW b \in Int
  PROVE  /\ a * b \in Int /\ a * b = b * a
         /\ a \in Nat \ {0} /\ b \in Nat \ {0} => a * b \in Nat \ {0}
  OBVIOUS

LEMMA FractionParts ==
  ASSUME NEW x \in Fractions
  PROVE  x.num \in Int /\ x.den \in Int /\ x.den \in Nat /\ x.den \in Nat \ {0}
  BY DEF Fractions

LEMMA AtLeastIsTransitive ==
  ASSUME NEW x \in Fractions, NEW y \in Fractions, NEW z \in Fractions,
         AtLeast(x, y), AtLeast(y, z)
  PROVE  AtLeast(x, z)
  <1> DEFINE p == x.num * z.den
             q == z.num * x.den
  <1>1. (x.num * y.den) * z.den >= (y.num * x.den) * z.den
    BY FractionParts, Scales, Products DEF AtLeast
  <1>2. (y.num * z.den) * x.den >= (z.num * y.den) * x.den
    BY FractionParts, Scales, Products DEF AtLeast
  <1>3. /\ (x.num * y.den) * z.den = p * y.den
        /\ (z.num * y.den) * x.den = q * y.den
        /\ (y.num * x.den) * z.den = (y.num * z.den) * x.den
    BY FractionParts
  <1>4. p \in Int /\ q \in Int /\ p * y.den \in Int /\ q * y.den \in Int
        /\ (y.num * z.den) * x.den \in Int
    BY FractionParts
  <1>5. p * y.den >= q * y.den
    <2> HIDE DEF p, q
    <2> QED BY <1>1, <1>2, <1>3, <1>4
  <1>6. p >= q
    <2> HIDE DEF p, q
    <2> QED BY <1>4, <1>5, FractionParts, Unscales
  <1> QED BY <1>6 DEF AtLeast

LEMMA PlusIsFraction ==
  ASSUME NEW x \in Fractions, NEW y \in Fractions
  PROVE  Plus(x, y) \in Fractions
  <1>1. x.den * y.den \in Nat \ {0} /\ x.num * y.den + y.num * x.den \in Int
    BY FractionParts, Products
  <1> QED BY <1>1 DEF Plus, Ratio, Fractions

\* Sums of greater fractions are greater.
LEMMA PlusIsMonotone ==
  ASSUME NEW x \in Fractions, NEW y \in Fractions, NEW a \in Fractions, NEW b \in Fractions,
         AtLeast(x, y), AtLeast(a, b)
  PROVE  AtLeast(Plus(x, a), Plus(y, b))
  <1> DEFINE p == y.den * b.den
             q == x.den * a.den
  <1>1. /\ p \in Nat /\ q \in Nat /\ p \in Int /\ q \in Int
        /\ a.den * b.den \in Nat /\ x.den * y.den \in Nat
    BY FractionParts, Products
  <1>2. (x.num * y.den) * (a.den * b.den) >= (y.num * x.den) * (a.den * b.den)
    BY <1>1, FractionParts, Scales, Products DEF AtLeast
  <1>3. (a.num * b.den) * (x.den * y.den) >= (b.num * a.den) * (x.den * y.den)
    BY <1>1, FractionParts, Scales, Products DEF AtLeast
  <1>4. /\ (x.num * a.den) * p = (x.num * y.den) * (a.den * b.den)
        /\ (y.num * b.den) * q = (y.num * x.den) * (a.den * b.den)
    BY FractionParts
  <1>5. /\ (a.num * x.den) * p = (a.num * b.den) * (x.den * y.den)
        /\ (b.num * y.den) * q = (b.num * a.den) * (x.den * y.den)
    BY FractionParts
  <1>6. /\ (x.num * a.den + a.num * x.den) * p = (x.num * a.den) * p + (a.num * x.den) * p
        /\ (y.num * b.den + b.num * y.den) * q = (y.num * b.den) * q + (b.num * y.den) * q
    BY <1>1, FractionParts
  <1>7. /\ (x.num * a.den) * p \in Int /\ (a.num * x.den) * p \in Int
        /\ (y.num * b.den) * q \in Int /\ (b.num * y.den) * q \in Int
    BY <1>1, FractionParts, Products
  <1>8. (x.num * a.den + a.num * x.den) * p >= (y.num * b.den + b.num * y.den) * q
    <2>1. (x.num * a.den) * p >= (y.num * b.den) * q
      BY <1>2, <1>4
    <2>2. (a.num * x.den) * p >= (b.num * y.den) * q
      BY <1>3, <1>5
    <2>3. ASSUME NEW k \in Int, NEW l \in Int, NEW m \in Int, NEW n \in Int, k >= l, m >= n
          PROVE  k + m >= l + n
      BY <2>3
    <2> QED BY <1>6, <1>7, <2>1, <2>2, <2>3
  <1> QED BY <1>8 DEF AtLeast, Plus, Ratio

-----------------------------------------------------------------------------
(* The sum and the average of a sequence of scores. *)

Adds(g, f) == g[0] = Ratio(0, 1) /\ \A n \in 1..Len(f) : g[n] = Plus(g[n - 1], f[n])

LEMMA TotalSolved ==
  ASSUME NEW f \in Seq(Fractions)
  PROVE  \E g \in [0..Len(f) -> Fractions] : Adds(g, f) /\ Total(f) = g[Len(f)]
  <1> DEFINE N == Len(f)
             step == [n \in 1..N |-> [x \in Fractions |-> Plus(x, f[n])]]
             Equation(g) ==
                g = [n \in 0..N |-> IF n = 0 THEN Ratio(0, 1) ELSE Plus(g[n - 1], f[n])]
             upTo == CHOOSE g : Equation(g)
  <1>1. N \in Nat /\ \A n \in 1..N : f[n] \in Fractions
    BY LenProperties, ElementOfSeq
  <1>2. PICK g \in [0..N -> Fractions] : Runs(g, Ratio(0, 1), step, N)
    <2>1. step \in [1..N -> [Fractions -> Fractions]]
      BY <1>1, PlusIsFraction
    <2>2. N \in Nat /\ Ratio(0, 1) \in Fractions
      BY <1>1 DEF Ratio, Fractions
    <2> HIDE DEF step, N
    <2> QED BY <2>1, <2>2, Recursion, Zenon
  <1>3. Adds(g, f)
    <2> SUFFICES ASSUME NEW n \in 1..N PROVE g[n] = Plus(g[n - 1], f[n])
      BY <1>2 DEF Adds, Runs
    <2>1. n - 1 \in 0..N
      BY <1>1
    <2>2. g[n - 1] \in Fractions
      BY <1>2, <2>1
    <2> QED BY <1>2, <2>2 DEF Runs
  <1>4. Equation(g)
    <2>1. \A n \in 0..N : n # 0 => n \in 1..N
      BY <1>1
    <2> QED BY <1>2, <1>3, <2>1 DEF Adds
  <1>5. Equation(upTo)
    <2> HIDE DEF Equation
    <2> QED BY <1>4
  <1>6. Total(f) = upTo[N]
    BY DEF Total
  <1>7. upTo[N] = g[N]
    <2> HIDE DEF upTo
    <2>1. 0 \in 0..N /\ N \in 0..N /\ \A n \in 1..N : n \in 0..N /\ n # 0
      BY <1>1
    <2>2. upTo[0] = Ratio(0, 1) /\ \A n \in 1..N : upTo[n] = Plus(upTo[n - 1], f[n])
      BY <1>5, <2>1
    <2>3. \A n \in 0..N : upTo[n] = g[n]
      <3>1. upTo[0] = g[0]
        BY <1>3, <2>2 DEF Adds
      <3>2. \A n \in 1..N : upTo[n - 1] = g[n - 1] => upTo[n] = g[n]
        BY <1>3, <2>2 DEF Adds
      <3>3. GoOnAlike(upTo, g, N)
        BY <3>1, <3>2 DEF GoOnAlike
      <3>4. N \in Nat
        BY <1>1
      <3> HIDE DEF N
      <3> QED BY <3>3, <3>4, Determined
    <2> QED BY <2>1, <2>3
  <1> QED BY <1>3, <1>6, <1>7

\* One sequence of scores is nowhere below another.
NowhereBelow(f, e) == Len(f) = Len(e) /\ \A n \in 1..Len(e) : AtLeast(f[n], e[n])

LEMMA TotalIsMonotone ==
  ASSUME NEW e \in Seq(Fractions), NEW f \in Seq(Fractions), NowhereBelow(f, e)
  PROVE  AtLeast(Total(f), Total(e)) /\ Total(e) \in Fractions /\ Total(f) \in Fractions
  <1> DEFINE N == Len(e)
  <1>1. N \in Nat /\ Len(f) = N /\ \A n \in 1..N : AtLeast(f[n], e[n])
    BY LenProperties DEF NowhereBelow
  <1>2. PICK g \in [0..N -> Fractions] : Adds(g, e) /\ Total(e) = g[N]
    BY TotalSolved
  <1>3. PICK h \in [0..N -> Fractions] : Adds(h, f) /\ Total(f) = h[N]
    BY <1>1, TotalSolved
  <1> DEFINE S == {n \in Nat : n <= N => AtLeast(h[n], g[n])}
  <1>4. 0 \in S
    BY <1>2, <1>3 DEF Adds, AtLeast, Ratio
  <1>5. ASSUME NEW k \in S PROVE k + 1 \in S
    <2> SUFFICES ASSUME k + 1 <= N PROVE AtLeast(h[k + 1], g[k + 1])
      OBVIOUS
    <2>1. k \in Nat /\ k \in 0..N /\ k + 1 \in 1..N /\ (k + 1) - 1 = k
      BY <1>1
    <2>2. AtLeast(h[k], g[k]) /\ h[k] \in Fractions /\ g[k] \in Fractions
      BY <2>1
    <2>3. /\ AtLeast(f[k + 1], e[k + 1])
          /\ f[k + 1] \in Fractions /\ e[k + 1] \in Fractions
      BY <1>1, <2>1, ElementOfSeq
    <2>4. h[k + 1] = Plus(h[k], f[k + 1]) /\ g[k + 1] = Plus(g[k], e[k + 1])
      BY <1>1, <1>2, <1>3, <2>1 DEF Adds
    <2> HIDE DEF N
    <2> QED BY <2>2, <2>3, <2>4, PlusIsMonotone
  <1>6. S = Nat
    <2>1. S \in SUBSET Nat
      OBVIOUS
    <2> HIDE DEF S
    <2> QED BY <1>4, <1>5, <2>1, Inductive
  <1>7. N \in S /\ N \in 0..N
    BY <1>1, <1>6
  <1> QED BY <1>1, <1>2, <1>3, <1>7

LEMMA AverageIsFraction ==
  ASSUME NEW f \in Seq(Fractions), f # <<>>
  PROVE  Average(f) \in Fractions
  <1>1. Total(f) \in Fractions
    <2>1. Len(f) \in 0..Len(f)
      BY LenProperties
    <2> QED BY <2>1, TotalSolved
  <1>2. Len(f) \in Nat \ {0}
    BY LenProperties, EmptySeq
  <1>3. Total(f).den * Len(f) \in Nat \ {0}
    BY <1>1, <1>2, FractionParts, Products
  <1> QED BY <1>1, <1>3, FractionParts DEF Average, Ratio, Fractions

LEMMA AverageIsMonotone ==
  ASSUME NEW e \in Seq(Fractions), NEW f \in Seq(Fractions), e # <<>>, NowhereBelow(f, e)
  PROVE  AtLeast(Average(f), Average(e))
  <1> DEFINE n == Len(e)
             s == Total(e)
             t == Total(f)
  <1>1. s \in Fractions /\ t \in Fractions /\ AtLeast(t, s)
    BY TotalIsMonotone
  <1>2. n \in Nat /\ Len(f) = n
    BY LenProperties DEF NowhereBelow
  <1> HIDE DEF n, s, t
  <1>3. (t.num * s.den) * n >= (s.num * t.den) * n
    BY <1>1, <1>2, FractionParts, Products, Scales DEF AtLeast
  <1>4. /\ t.num * (s.den * n) = (t.num * s.den) * n
        /\ s.num * (t.den * n) = (s.num * t.den) * n
    BY <1>1, <1>2, FractionParts
  <1> QED BY <1>2, <1>3, <1>4 DEF Average, Ratio, AtLeast, n, s, t

-----------------------------------------------------------------------------
(* The scores of an answer. *)

UnitFractions == {x \in Fractions : x.num \in 0..x.den}

LEMMA GroundedIsPart ==
  ASSUME NEW claims \in Seq(SUBSET Words), NEW context
  PROVE  /\ IsFiniteSet(Grounded(claims, context))
         /\ Cardinality(Grounded(claims, context)) \in 0..Len(claims)
  <1> DEFINE G == Grounded(claims, context)
             D == 1..Len(claims)
  <1>1. DOMAIN claims = D /\ Len(claims) \in Nat
    BY LenProperties
  <1>2. G \in SUBSET D
    BY <1>1 DEF Grounded
  <1>3. IsFiniteSet(D) /\ Cardinality(D) = Len(claims)
    <2>1. 1 \in Int /\ Len(claims) \in Int
      BY <1>1
    <2>2. IsFiniteSet(D) /\ Cardinality(D) = IF 1 > Len(claims) THEN 0 ELSE Len(claims) - 1 + 1
      BY <2>1, FS_Interval
    <2> QED BY <1>1, <2>2
  <1>4. IsFiniteSet(G) /\ Cardinality(G) <= Cardinality(D)
    <2> HIDE DEF G, D
    <2> QED BY <1>2, <1>3, FS_Subset
  <1>5. Cardinality(G) \in Nat
    BY <1>4, FS_CardinalityType
  <1> HIDE DEF G
  <1> QED BY <1>1, <1>3, <1>4, <1>5 DEF G

LEMMA FaithfulnessIsUnit ==
  ASSUME NEW claims \in Seq(SUBSET Words), NEW context
  PROVE  Faithfulness(claims, context) \in UnitFractions
  <1>1. CASE claims = <<>> \/ context = {}
    BY <1>1 DEF Faithfulness, Ratio, UnitFractions, Fractions
  <1>2. CASE ~(claims = <<>> \/ context = {})
    <2>1. Len(claims) \in Nat \ {0}
      BY <1>2, LenProperties, EmptySeq
    <2>2. Cardinality(Grounded(claims, context)) \in 0..Len(claims)
      BY GroundedIsPart
    <2> QED BY <1>2, <2>1, <2>2 DEF Faithfulness, Ratio, UnitFractions, Fractions
  <1> QED BY <1>1, <1>2

LEMMA RelevanceIsUnit ==
  ASSUME NEW query \in SUBSET Words, NEW answer
  PROVE  AnswerRelevance(answer, query) \in UnitFractions
  <1>1. CASE query = {}
    BY <1>1 DEF AnswerRelevance, Ratio, UnitFractions, Fractions
  <1>2. CASE query # {}
    <2>1. IsFiniteSet(query)
      BY EvaluationAssumption, FS_Subset
    <2>2. Cardinality(query) \in Nat \ {0}
      BY <1>2, <2>1, FS_EmptySet, FS_CardinalityType
    <2>3. query \cap answer \in SUBSET query
      OBVIOUS
    <2>4. IsFiniteSet(query \cap answer) /\ Cardinality(query \cap answer) <= Cardinality(query)
      BY <2>1, <2>3, FS_Subset
    <2>5. Cardinality(query \cap answer) \in 0..Cardinality(query)
      BY <2>2, <2>4, FS_CardinalityType
    <2> QED BY <1>2, <2>2, <2>5 DEF AnswerRelevance, Ratio, UnitFractions, Fractions
  <1> QED BY <1>1, <1>2

LEMMA MoreCount ==
  ASSUME NEW S, NEW T, IsFiniteSet(T), S \subseteq T
  PROVE  Cardinality(S) \in Nat /\ Cardinality(T) \in Nat /\ Cardinality(S) <= Cardinality(T)
  <1>1. S \in SUBSET T
    OBVIOUS
  <1>2. IsFiniteSet(S) /\ Cardinality(S) <= Cardinality(T)
    BY <1>1, FS_Subset
  <1> QED BY <1>2, FS_CardinalityType

\* Further words take nothing away from either score.
LEMMA MoreWordsScoreMore ==
  ASSUME NEW item \in Items, NEW answer \in SUBSET Words, NEW more \in SUBSET Words
  PROVE  /\ AtLeast(Scored(item, answer \cup more).faithfulness, Scored(item, answer).faithfulness)
         /\ AtLeast(Scored(item, answer \cup more).relevance, Scored(item, answer).relevance)
  <1> DEFINE full == answer \cup more
             claims == <<item.expected>>
  <1>1. item.query \in SUBSET Words /\ item.expected \in SUBSET Words
    BY DEF Items
  <1>2. claims \in Seq(SUBSET Words) /\ claims # <<>> /\ Len(claims) = 1 /\ DOMAIN claims = {1}
    BY <1>1
  <1>3. AtLeast(Faithfulness(claims, full), Faithfulness(claims, answer))
    <2> HIDE DEF claims
    <2>1. CASE answer = {}
      <3>1. Faithfulness(claims, answer) = Ratio(0, 1)
        BY <2>1 DEF Faithfulness
      <3>2. Faithfulness(claims, full) \in UnitFractions
        BY <1>2, FaithfulnessIsUnit
      <3> QED BY <3>1, <3>2 DEF UnitFractions, Fractions, AtLeast, Ratio
    <2>2. CASE answer # {}
      <3>1. full # {}
        BY <2>2
      <3>2. /\ Faithfulness(claims, answer) = Ratio(Cardinality(Grounded(claims, answer)), 1)
            /\ Faithfulness(claims, full) = Ratio(Cardinality(Grounded(claims, full)), 1)
        BY <1>2, <2>2, <3>1 DEF Faithfulness
      <3>3. Grounded(claims, answer) \subseteq Grounded(claims, full)
        BY DEF Grounded
      <3>4. IsFiniteSet(Grounded(claims, full))
        BY <1>2, GroundedIsPart
      <3>5. /\ Cardinality(Grounded(claims, answer)) \in Nat
            /\ Cardinality(Grounded(claims, full)) \in Nat
            /\ Cardinality(Grounded(claims, answer)) <= Cardinality(Grounded(claims, full))
        BY <3>3, <3>4, MoreCount
      <3>6. ASSUME NEW a \in Nat, NEW b \in Nat, a <= b
            PROVE  AtLeast(Ratio(b, 1), Ratio(a, 1))
        BY <3>6 DEF AtLeast, Ratio
      <3> QED BY <3>2, <3>5, <3>6
    <2> QED BY <2>1, <2>2
  <1>4. AtLeast(AnswerRelevance(full, item.query), AnswerRelevance(answer, item.query))
    <2>1. CASE item.query = {}
      BY <2>1 DEF AnswerRelevance, AtLeast, Ratio
    <2>2. CASE item.query # {}
      <3> DEFINE q == item.query
                 d == Cardinality(q)
      <3>2. /\ AnswerRelevance(answer, q) = Ratio(Cardinality(q \cap answer), d)
            /\ AnswerRelevance(full, q) = Ratio(Cardinality(q \cap full), d)
        BY <2>2 DEF AnswerRelevance
      <3>3. IsFiniteSet(q) /\ d \in Nat
        BY <1>1, EvaluationAssumption, FS_Subset, FS_CardinalityType
      <3>4. IsFiniteSet(q \cap full) /\ q \cap answer \subseteq q \cap full
        <4>1. q \cap full \in SUBSET q
          OBVIOUS
        <4> QED BY <3>3, <4>1, FS_Subset
      <3>5. /\ Cardinality(q \cap answer) \in Nat /\ Cardinality(q \cap full) \in Nat
            /\ Cardinality(q \cap full) >= Cardinality(q \cap answer)
        BY <3>4, MoreCount
      <3> HIDE DEF d, q, full
      <3>6. Cardinality(q \cap full) * d >= Cardinality(q \cap answer) * d
        BY <3>3, <3>5, Scales
      <3> QED BY <3>2, <3>6 DEF AtLeast, Ratio, q
    <2> QED BY <2>1, <2>2
  <1> QED BY <1>3, <1>4 DEF Scored

-----------------------------------------------------------------------------
(* The bill of an answer. *)

Prices == [input : Nat, output : Nat]

LEMMA PricesAreAmounts ==
  ASSUME NEW model
  PROVE  PricingFor(model, Default) \in Prices
  <1>1. ASSUME NEW base \in DOMAIN ModelPricing PROVE ModelPricing[base] \in Prices
    <2>1. /\ ModelPricing.micro \in Prices /\ ModelPricing.lite \in Prices
          /\ ModelPricing.pro \in Prices /\ ModelPricing.titan \in Prices
      BY DEF ModelPricing, Price, Prices
    <2>2. base \in {"micro", "lite", "pro", "titan"}
      BY DEF ModelPricing
    <2> QED BY <2>1, <2>2
  <1>2. Default \in Prices
    BY EvaluationAssumption DEF Prices
  <1> QED BY <1>1, <1>2 DEF PricingFor

LEMMA SumOfOne == ASSUME NEW x \in Int PROVE SumOf([i \in DOMAIN <<0>> |-> x]) = x
  <1>1. [i \in DOMAIN <<0>> |-> x] = Append(<<>>, x)
    OBVIOUS
  <1>2. <<>> \in Seq(Int)
    BY EmptySeq
  <1>3. SumOf(Append(<<>>, x)) = 0 + x
    BY <1>2, SumAppends, SumOfNone
  <1> QED BY <1>1, <1>3

\* A whole number of thousands nearest to x, or as near as the next.
Nearest(n, x) == 2 * (1000 * n - x) >= 0 - 1000 /\ 2 * (1000 * n - x) <= 1000

LEMMA MicrosAreNearest ==
  ASSUME NEW nanos \in Nat, NEW n \in Micros(nanos)
  PROVE  n \in Nat /\ Nearest(n, nanos)
  BY DEF Micros, Nearest

\* The bills of n answers are within the roundings of what the answers cost.
Within(billed, exact, n) ==
    1000 * billed - exact >= 0 - 1000 * n /\ 1000 * billed - exact <= 1000 * n

LEMMA RoundingsAdd ==
  ASSUME NEW x \in Nat, NEW y \in Nat, NEW n \in Nat, NEW m \in Nat,
         Nearest(n, x), Nearest(m, y)
  PROVE  Within(n + m, x + y, 1)
  <1> DEFINE d == 1000 * n - x
             e == 1000 * m - y
  <1>1. d \in Int /\ 2 * d >= 0 - 1000 /\ 2 * d <= 1000
    BY DEF Nearest
  <1>2. e \in Int /\ 2 * e >= 0 - 1000 /\ 2 * e <= 1000
    BY DEF Nearest
  <1>3. 1000 * (n + m) - (x + y) = d + e
    OBVIOUS
  <1> HIDE DEF d, e
  <1>4. d + e >= 0 - 1000 * 1 /\ d + e <= 1000 * 1
    BY <1>1, <1>2
  <1> QED BY <1>3, <1>4 DEF Within

\* A bill is the price of the answer's tokens, but for the rounding of its two sides.
LEMMA BillIsClose ==
  ASSUME NEW o \in Outputs, NEW bill \in Estimates(<<o>>, Default)
  PROVE  bill \in Nat /\ ListPrice(o) \in Nat /\ Within(bill, ListPrice(o), 1)
  <1> DEFINE price == PricingFor(o.model, Default)
             in == o.input * price.input
             out == o.output * price.output
  <1>1. o.input \in Nat /\ o.output \in Nat
    BY EvaluationAssumption
  <1>2. price.input \in Nat /\ price.output \in Nat
    BY PricesAreAmounts DEF Prices
  <1>3. in \in Nat /\ out \in Nat
    BY <1>1, <1>2
  <1>4. /\ Charge(<<o>>, Default, "input") = in
        /\ Charge(<<o>>, Default, "output") = out
    <2>1. /\ Charge(<<o>>, Default, "input") = SumOf([i \in DOMAIN <<0>> |-> in])
          /\ Charge(<<o>>, Default, "output") = SumOf([i \in DOMAIN <<0>> |-> out])
      <3>1. DOMAIN <<o>> = {1} /\ DOMAIN <<0>> = {1} /\ <<o>>[1] = o
        OBVIOUS
      <3>2. /\ [i \in DOMAIN <<o>> |->
                   <<o>>[i]["input"] * PricingFor(<<o>>[i].model, Default)["input"]]
                  = [i \in DOMAIN <<0>> |-> in]
            /\ [i \in DOMAIN <<o>> |->
                   <<o>>[i]["output"] * PricingFor(<<o>>[i].model, Default)["output"]]
                  = [i \in DOMAIN <<0>> |-> out]
        BY <3>1
      <3> QED BY <3>2 DEF Charge
    <2> HIDE DEF in, out
    <2> QED BY <1>3, <2>1, SumOfOne
  <1>5. ListPrice(o) = in + out
    BY DEF ListPrice, PricingFor
  <1> HIDE DEF in, out
  <1>6. PICK n \in Micros(in), m \in Micros(out) : bill = n + m
    BY <1>4 DEF Estimates
  <1>7. n \in Nat /\ Nearest(n, in)
    BY <1>3, MicrosAreNearest
  <1>8. m \in Nat /\ Nearest(m, out)
    BY <1>3, MicrosAreNearest
  <1>9. Within(n + m, in + out, 1)
    BY <1>3, <1>7, <1>8, RoundingsAdd
  <1>10. n + m \in Nat /\ in + out \in Nat
    BY <1>3, <1>7, <1>8
  <1> QED BY <1>5, <1>6, <1>9, <1>10

-----------------------------------------------------------------------------
(* The process.  What is collected is a prefix of the data set, each result the scores of
   an answer to its question; what the agent returned besides goes with its outputs; and
   there is a report just when it is done, the one of the results. *)

ResultRecords ==
    [answer : SUBSET Words, faithfulness : UnitFractions, relevance : UnitFractions,
     category : Categories]

AgentRecords == [output : Outputs, faithfulness : UnitFractions, cost : Nat]

ResultInv ==
    /\ dataset \in Datasets
    /\ results \in Seq(ResultRecords)
    /\ Len(results) <= Len(dataset)
    /\ \A i \in 1..Len(results) : results[i] = Scored(dataset[i], results[i].answer)
    /\ pc \in {"run", "gate", "done", "raised"}
    /\ pc \in {"gate", "done"} => Len(results) = Len(dataset)

ScoredByItself(a) == a.faithfulness = Faithfulness(a.output.claims, a.output.context)

AgentInv ==
    /\ agent \in Seq(AgentRecords)
    /\ \A i \in 1..Len(agent) : ScoredByItself(agent[i])

Reported ==
    /\ results # <<>>
    /\ report.passed <=> Passed(results)
    /\ report.faithfulness \in Thousandths(Average(Scores(results, "faithfulness")))
    /\ report.relevance \in Thousandths(Average(Scores(results, "relevance")))
    /\ report.questions = Len(results)
    /\ \A c \in DOMAIN report.count : report.count[c] = Cardinality(OfCategory(results, c))

ReportInv ==
    /\ pc # "done" => report = NoReport
    /\ pc = "done" => Reported

EvalInv == ResultInv /\ AgentInv /\ BillsAddUp /\ ReportInv

LEMMA ItemTypes ==
  ASSUME NEW d \in Datasets
  PROVE  Len(d) \in Nat /\ DOMAIN d = 1..Len(d) /\ \A i \in 1..Len(d) : d[i] \in Items
  <1>1. d \in Seq(Items)
    BY EvaluationAssumption
  <1> QED BY <1>1, LenProperties, ElementOfSeq

LEMMA ScoredType ==
  ASSUME NEW item \in Items, NEW answer \in SUBSET Words
  PROVE  Scored(item, answer) \in ResultRecords /\ Scored(item, answer).answer = answer
  <1>1. item.query \in SUBSET Words /\ item.expected \in SUBSET Words /\ item.category \in Categories
    BY DEF Items
  <1>2. <<item.expected>> \in Seq(SUBSET Words)
    BY <1>1
  <1> QED BY <1>1, <1>2, FaithfulnessIsUnit, RelevanceIsUnit DEF Scored, ResultRecords

LEMMA OutputTypes ==
  ASSUME NEW o \in Outputs
  PROVE  /\ o.claims \in Seq(SUBSET Words) \ {<<>>} /\ o.context \in SUBSET Words
         /\ WordsOf(o.claims) \in SUBSET Words
  <1>1. o.claims \in Seq(SUBSET Words) \ {<<>>} /\ o.context \in SUBSET Words
    BY EvaluationAssumption
  <1>2. \A i \in DOMAIN o.claims : o.claims[i] \in SUBSET Words
    BY <1>1, ElementOfSeq, LenProperties
  <1> QED BY <1>1, <1>2 DEF WordsOf

LEMMA EvalInit == Init => EvalInv
  <1> SUFFICES ASSUME Init PROVE EvalInv
    OBVIOUS
  <1>1. /\ dataset \in Datasets /\ pc = "run" /\ results = <<>> /\ agent = <<>>
        /\ report = NoReport
    BY DEF Init
  <1>2. Len(<<>>) = 0 /\ 1..0 = {} /\ DOMAIN <<>> = {}
    OBVIOUS
  <1>3. ResultInv /\ AgentInv /\ ReportInv
    BY <1>1, <1>2, ItemTypes DEF ResultInv, AgentInv, ReportInv
  <1>4. BillsAddUp
    <2>1. /\ [i \in DOMAIN agent |-> agent[i].cost] = <<>>
          /\ [i \in DOMAIN agent |-> ListPrice(agent[i].output)] = <<>>
          /\ Len(agent) = 0
      BY <1>1, <1>2
    <2> QED BY <2>1, SumOfNone DEF BillsAddUp
  <1> QED BY <1>3, <1>4 DEF EvalInv

-----------------------------------------------------------------------------
LEMMA AnswerScored ==
  ASSUME ResultInv, NEW o \in Outputs, Answer(o)
  PROVE  ResultInv'
  <1> DEFINE n == Len(results)
             item == dataset[n + 1]
             new == Scored(item, WordsOf(o.claims))
  <1>1. /\ pc = "run" /\ n < Len(dataset) /\ results' = Append(results, new)
        /\ UNCHANGED <<dataset, pc>>
    BY DEF Answer
  <1>2. n \in Nat /\ n + 1 \in 1..Len(dataset) /\ Len(dataset) \in Nat
    BY <1>1, ItemTypes, LenProperties DEF ResultInv
  <1>3. item \in Items
    BY <1>2, ItemTypes DEF ResultInv
  <1>4. new \in ResultRecords /\ new.answer = WordsOf(o.claims)
    BY <1>3, OutputTypes, ScoredType
  <1>5. /\ results' \in Seq(ResultRecords) /\ Len(results') = n + 1
        /\ \A i \in 1..n : results'[i] = results[i]
        /\ results'[n + 1] = new
    BY <1>1, <1>4, AppendProperties DEF ResultInv
  <1>6. \A i \in 1..(n + 1) : results'[i] = Scored(dataset[i], results'[i].answer)
    <2>1. \A i \in 1..n : results[i] = Scored(dataset[i], results[i].answer)
      BY DEF ResultInv
    <2>2. \A i \in 1..(n + 1) : i \in 1..n \/ i = n + 1
      BY <1>2
    <2>3. results'[n + 1] = Scored(dataset[n + 1], results'[n + 1].answer)
      BY <1>4, <1>5
    <2> HIDE DEF n, new, item
    <2> QED BY <1>5, <2>1, <2>2, <2>3
  <1> HIDE DEF new, item
  <1> QED BY <1>1, <1>2, <1>5, <1>6 DEF ResultInv

LEMMA WithinAdds ==
  ASSUME NEW s \in Int, NEW t \in Int, NEW bill \in Int, NEW exact \in Int, NEW n \in Nat,
         Within(s, t, n), Within(bill, exact, 1)
  PROVE  Within(s + bill, t + exact, n + 1)
  BY DEF Within

LEMMA WithinIsARange ==
  ASSUME NEW s \in Int, NEW t \in Int, NEW n \in Nat, Within(s, t, n)
  PROVE  1000 * s - t \in (0 - 1000 * n)..(1000 * n)
  BY DEF Within

LEMMA AnswerBilled ==
  ASSUME AgentInv, BillsAddUp, NEW o \in Outputs, Answer(o)
  PROVE  AgentInv' /\ BillsAddUp'
  <1>0. PICK bill \in Estimates(<<o>>, Default) :
        agent' = Append(agent, [output |-> o,
                                faithfulness |-> Faithfulness(o.claims, o.context),
                                cost |-> bill])
    BY DEF Answer
  <1> DEFINE n == Len(agent)
             new == [output |-> o, faithfulness |-> Faithfulness(o.claims, o.context), cost |-> bill]
             costs == [i \in DOMAIN agent |-> agent[i].cost]
             prices == [i \in DOMAIN agent |-> ListPrice(agent[i].output)]
  <1>1. bill \in Nat /\ ListPrice(o) \in Nat /\ Within(bill, ListPrice(o), 1)
    BY BillIsClose
  <1>2. new \in AgentRecords
    <2>1. Faithfulness(o.claims, o.context) \in UnitFractions
      BY OutputTypes, FaithfulnessIsUnit
    <2> QED BY <1>1, <2>1 DEF AgentRecords
  <1>3. /\ agent' \in Seq(AgentRecords) /\ Len(agent') = n + 1 /\ n \in Nat
        /\ DOMAIN agent = 1..n /\ DOMAIN agent' = 1..(n + 1)
        /\ \A i \in 1..n : agent'[i] = agent[i]
        /\ agent'[n + 1] = new
    <2>1. agent \in Seq(AgentRecords) /\ agent' = Append(agent, new)
      BY <1>0 DEF AgentInv
    <2> HIDE DEF new
    <2> QED BY <1>2, <2>1, AppendProperties, LenProperties
  <1>4. \A i \in 1..(n + 1) : i \in 1..n \/ i = n + 1
    BY <1>3
  <1>5. AgentInv'
    <2>1. \A i \in 1..n : ScoredByItself(agent[i])
      BY DEF AgentInv
    <2>2. ScoredByItself(new)
      BY DEF ScoredByItself
    <2> HIDE DEF n, new
    <2> QED BY <1>3, <1>4, <2>1, <2>2 DEF AgentInv
  <1>6. costs \in Seq(Int) /\ prices \in Seq(Int)
    <2>1. \A i \in 1..n : agent[i].cost \in Int /\ agent[i].output \in Outputs
      <3>1. agent \in Seq(AgentRecords)
        BY DEF AgentInv
      <3>2. \A i \in 1..n : agent[i] \in AgentRecords
        BY <3>1, ElementOfSeq
      <3> QED BY <3>2 DEF AgentRecords
    <2>2. \A i \in 1..n : ListPrice(agent[i].output) \in Int
      <3>1. ASSUME NEW p \in Outputs PROVE ListPrice(p) \in Int
        <4>1. p.input \in Nat /\ p.output \in Nat
          BY EvaluationAssumption
        <4>2. ListPrice(p) = p.input * PricingFor(p.model, Default).input
                              + p.output * PricingFor(p.model, Default).output
          BY DEF ListPrice, PricingFor
        <4>3. /\ PricingFor(p.model, Default).input \in Nat
              /\ PricingFor(p.model, Default).output \in Nat
          BY PricesAreAmounts DEF Prices
        <4> QED BY <4>1, <4>2, <4>3
      <3> QED BY <2>1, <3>1
    <2> QED BY <1>3, <2>1, <2>2
  <1>7. /\ [i \in DOMAIN agent' |-> agent'[i].cost] = Append(costs, bill)
        /\ [i \in DOMAIN agent' |-> ListPrice(agent'[i].output)] = Append(prices, ListPrice(o))
    <2>1. Len(costs) = n /\ Len(prices) = n
      BY <1>3
    <2>2. new.cost = bill /\ new.output = o
      OBVIOUS
    <2>3. /\ Len(Append(costs, bill)) = n + 1 /\ Len(Append(prices, ListPrice(o))) = n + 1
          /\ Append(costs, bill) \in Seq(Int) /\ Append(prices, ListPrice(o)) \in Seq(Int)
          /\ \A i \in 1..n : /\ Append(costs, bill)[i] = agent[i].cost
                             /\ Append(prices, ListPrice(o))[i] = ListPrice(agent[i].output)
          /\ Append(costs, bill)[n + 1] = bill
          /\ Append(prices, ListPrice(o))[n + 1] = ListPrice(o)
      <3>1. bill \in Int /\ ListPrice(o) \in Int /\ n \in Nat
            /\ (\A i \in 1..n : costs[i] = agent[i].cost /\ prices[i] = ListPrice(agent[i].output))
        BY <1>1, <1>3
      <3> HIDE DEF n, costs, prices
      <3>2. /\ Len(Append(costs, bill)) = n + 1 /\ Append(costs, bill) \in Seq(Int)
            /\ \A i \in 1..n : Append(costs, bill)[i] = costs[i]
            /\ Append(costs, bill)[n + 1] = bill
        BY <1>6, <2>1, <3>1, AppendProperties
      <3>3. /\ Len(Append(prices, ListPrice(o))) = n + 1 /\ Append(prices, ListPrice(o)) \in Seq(Int)
            /\ \A i \in 1..n : Append(prices, ListPrice(o))[i] = prices[i]
            /\ Append(prices, ListPrice(o))[n + 1] = ListPrice(o)
        BY <1>6, <2>1, <3>1, AppendProperties
      <3> QED BY <3>1, <3>2, <3>3
    <2> DEFINE f == Append(costs, bill)
               e == Append(prices, ListPrice(o))
    <2>4. /\ f = [i \in 1..(n + 1) |-> f[i]]
          /\ e = [i \in 1..(n + 1) |-> e[i]]
      BY <1>3, <2>3
    <2> HIDE DEF n, new, f, e
    <2>5. \A i \in 1..(n + 1) : agent'[i].cost = f[i] /\ ListPrice(agent'[i].output) = e[i]
      BY <1>3, <1>4, <2>2, <2>3 DEF f, e
    <2> QED BY <1>3, <2>4, <2>5 DEF f, e
  <1>8. BillsAddUp'
    <2>1. /\ SumOf(Append(costs, bill)) = SumOf(costs) + bill
          /\ SumOf(Append(prices, ListPrice(o))) = SumOf(prices) + ListPrice(o)
          /\ SumOf(costs) \in Int /\ SumOf(prices) \in Int
      <3>1. bill \in Int /\ ListPrice(o) \in Int
        BY <1>1
      <3> HIDE DEF costs, prices
      <3>2. SumOf(Append(costs, bill)) = SumOf(costs) + bill /\ SumOf(costs) \in Int
        BY <1>6, <3>1, SumAppends, SumIsAmount
      <3>3. /\ SumOf(Append(prices, ListPrice(o))) = SumOf(prices) + ListPrice(o)
            /\ SumOf(prices) \in Int
        BY <1>6, <3>1, SumAppends, SumIsAmount
      <3> QED BY <3>2, <3>3
    <2>2. Within(SumOf(costs), SumOf(prices), n)
      BY DEF BillsAddUp, Within
    <2>3. bill \in Int /\ ListPrice(o) \in Int /\ n \in Nat /\ Within(bill, ListPrice(o), 1)
      <3>1. bill \in Int /\ ListPrice(o) \in Int
        BY <1>1
      <3> QED BY <1>1, <1>3, <3>1
    <2>4. Within(SumOf([i \in DOMAIN agent' |-> agent'[i].cost]),
                 SumOf([i \in DOMAIN agent' |-> ListPrice(agent'[i].output)]), Len(agent'))
      <3> HIDE DEF n, costs, prices
      <3>1. Within(SumOf(costs) + bill, SumOf(prices) + ListPrice(o), n + 1)
        BY <2>1, <2>2, <2>3, WithinAdds, Zenon
      <3> QED BY <1>3, <1>7, <2>1, <3>1
    <2>5. /\ SumOf([i \in DOMAIN agent' |-> agent'[i].cost]) \in Int
          /\ SumOf([i \in DOMAIN agent' |-> ListPrice(agent'[i].output)]) \in Int
          /\ Len(agent') \in Nat
      <3> HIDE DEF n, costs, prices
      <3>1. SumOf(costs) + bill \in Int /\ SumOf(prices) + ListPrice(o) \in Int
        BY <2>1, <2>3
      <3>2. n + 1 \in Nat
        BY <2>3
      <3> QED BY <1>3, <1>7, <2>1, <3>1, <3>2
    <2> QED BY <2>4, <2>5, WithinIsARange DEF BillsAddUp
  <1> QED BY <1>5, <1>8

\* Only Evaluate makes a report, of the results as they are.
LEMMA Reports ==
  ASSUME ReportInv, Evaluate
  PROVE  ReportInv'
  <1> PICK f \in Thousandths(Average(Scores(results, "faithfulness"))),
           r \in Thousandths(Average(Scores(results, "relevance"))),
           perCategory \in CategoryRoundings(results) :
        report' = [passed |-> Passed(results), faithfulness |-> f, relevance |-> r,
                   questions |-> Len(results),
                   faithfulnessIn |-> perCategory,
                   count |-> [c \in CategoriesOf(results) |->
                                 Cardinality(OfCategory(results, c))]]
    BY DEF Evaluate
  <1>1. pc' = "done" /\ results # <<>> /\ UNCHANGED results
    BY DEF Evaluate
  <1>2. /\ report'.passed = Passed(results)
        /\ report'.faithfulness = f /\ report'.relevance = r
        /\ report'.questions = Len(results)
        /\ report'.count = [c \in CategoriesOf(results) |->
                               Cardinality(OfCategory(results, c))]
    OBVIOUS
  <1>3. report'.passed <=> Passed(results)
    BY <1>2, Zenon
  <1>4. \A c \in DOMAIN report'.count : report'.count[c] = Cardinality(OfCategory(results, c))
    BY <1>2
  <1> QED BY <1>1, <1>2, <1>3, <1>4 DEF ReportInv, Reported, Passed, Scores, OfCategory

LEMMA EvalNext ==
  ASSUME EvalInv, [Next]_vars
  PROVE  EvalInv'
  <1>1. ResultInv /\ AgentInv /\ BillsAddUp /\ ReportInv
    BY DEF EvalInv
  <1>2. ASSUME NEW o \in Outputs, Answer(o)
        PROVE  EvalInv'
    <2>1. ReportInv'
      <3>1. pc = "run" /\ UNCHANGED <<pc, report>>
        BY <1>2 DEF Answer
      <3> QED BY <1>1, <3>1 DEF ReportInv
    <2> QED BY <1>1, <1>2, <2>1, AnswerScored, AnswerBilled DEF EvalInv
  <1>3. ASSUME UNCHANGED <<dataset, results>>, pc' \in {"run", "gate", "done", "raised"},
               pc' \in {"gate", "done"} => Len(results) = Len(dataset)
        PROVE  ResultInv'
    BY <1>1, <1>3 DEF ResultInv
  <1>4. ASSUME UNCHANGED agent
        PROVE  AgentInv' /\ BillsAddUp'
    BY <1>1, <1>4 DEF AgentInv, BillsAddUp
  <1>5. CASE AnswererRaises \/ RunEnds \/ EvaluateNothing
    <2>1. /\ UNCHANGED <<dataset, results, agent, report>> /\ pc \in {"run", "gate"}
          /\ pc' = "raised" \/ (pc' = "gate" /\ Len(results) = Len(dataset))
      BY <1>5 DEF AnswererRaises, RunEnds, EvaluateNothing
    <2>2. ReportInv'
      BY <1>1, <2>1 DEF ReportInv
    <2> QED BY <1>3, <1>4, <2>1, <2>2 DEF EvalInv
  <1>6. CASE Evaluate
    <2>1. UNCHANGED <<dataset, results, agent>> /\ pc = "gate" /\ pc' = "done"
      BY <1>6 DEF Evaluate
    <2>2. Len(results) = Len(dataset)
      BY <1>1, <2>1 DEF ResultInv
    <2> QED BY <1>1, <1>3, <1>4, <1>6, <2>1, <2>2, Reports DEF EvalInv
  <1>7. CASE UNCHANGED vars
    <2>1. UNCHANGED <<dataset, results, agent, report, pc>>
      BY <1>7 DEF vars
    <2>2. ReportInv'
      BY <1>1, <2>1 DEF ReportInv, Reported
    <2>3. ResultInv'
      BY <1>1, <2>1 DEF ResultInv
    <2> QED BY <1>4, <2>1, <2>2, <2>3 DEF EvalInv
  <1> QED BY <1>2, <1>5, <1>6, <1>7 DEF Next

LEMMA EvalInvariant == Spec => []EvalInv
  <1> QED BY EvalInit, EvalNext, PTL DEF Spec

-----------------------------------------------------------------------------
(* What follows of every evaluation. *)

\* Every score is between 0 and 1, whatever the words of questions, contexts and answers
\* (tests/test_eval_metrics.py), and every bill is an amount (eval/cost.py:83-99).
THEOREM EvaluationTypes == Spec => []EvaluationTypeOK
  <1>1. EvalInv => EvaluationTypeOK
    <2> SUFFICES ASSUME EvalInv PROVE EvaluationTypeOK
      OBVIOUS
    <2>1. /\ results \in Seq(ResultRecords) /\ agent \in Seq(AgentRecords)
          /\ pc \in {"run", "gate", "done", "raised"}
      BY DEF EvalInv, ResultInv, AgentInv
    <2>2. /\ \A i \in DOMAIN results : results[i] \in ResultRecords
          /\ \A i \in DOMAIN agent : agent[i] \in AgentRecords
      BY <2>1, ElementOfSeq, LenProperties
    <2>3. \A x \in UnitFractions : Unit(x)
      BY DEF UnitFractions, Fractions, Unit
    <2> QED BY <2>1, <2>2, <2>3 DEF EvaluationTypeOK, ResultRecords, AgentRecords
  <1> QED BY <1>1, EvalInvariant, PTL

\* However many answers are billed, at whatever prices, the reported costs of the tokens that
\* are billed, those of the answering calls, are off by at most a microdollar each: the
\* roundings never pile up beyond that (eval/cost.py:83-101).
THEOREM BillsAddUpHolds == Spec => []BillsAddUp
  <1>1. EvalInv => BillsAddUp
    BY DEF EvalInv
  <1> QED BY <1>1, EvalInvariant, PTL

\* The gate decides on the whole of a data set that is not empty, or not at all, and counts
\* each question in its category (eval/harness.py:27-44 and 57-83).
THEOREM VerdictOnTheWholeHolds == Spec => []VerdictOnTheWhole
  <1>1. EvalInv => VerdictOnTheWhole
    <2> SUFFICES ASSUME EvalInv, report # NoReport
                PROVE  /\ report.questions = Len(dataset) /\ dataset # <<>>
                       /\ \A c \in DOMAIN report.count :
                             report.count[c]
                                = Cardinality({i \in DOMAIN dataset : dataset[i].category = c})
      BY DEF VerdictOnTheWhole
    <2>1. Reported /\ pc = "done"
      BY DEF EvalInv, ReportInv
    <2>2. /\ Len(results) = Len(dataset) /\ results \in Seq(ResultRecords) /\ dataset \in Datasets
          /\ \A i \in 1..Len(results) : results[i] = Scored(dataset[i], results[i].answer)
      BY <2>1 DEF EvalInv, ResultInv
    <2>3. DOMAIN results = 1..Len(results) /\ DOMAIN dataset = 1..Len(results)
          /\ Len(results) \in Nat /\ Len(results) # 0
      BY <2>1, <2>2, ItemTypes, LenProperties, EmptySeq DEF Reported
    <2>4. \A i \in 1..Len(results) : results[i].category = dataset[i].category
      <3>1. \A item, answer : Scored(item, answer).category = item.category
        BY DEF Scored
      <3> QED BY <2>2, <3>1
    <2>5. \A c : OfCategory(results, c) = {i \in DOMAIN dataset : dataset[i].category = c}
      BY <2>3, <2>4 DEF OfCategory
    <2> QED BY <2>1, <2>2, <2>3, <2>5 DEF Reported
  <1> QED BY <1>1, EvalInvariant, PTL

LEMMA ScoresType ==
  ASSUME NEW rs \in Seq(ResultRecords)
  PROVE  /\ Scores(rs, "faithfulness") \in Seq(Fractions)
         /\ Scores(rs, "relevance") \in Seq(Fractions)
         /\ Len(Scores(rs, "faithfulness")) = Len(rs) /\ Len(Scores(rs, "relevance")) = Len(rs)
  <1>1. \A i \in 1..Len(rs) : rs[i] \in ResultRecords
    BY ElementOfSeq
  <1>2. DOMAIN rs = 1..Len(rs) /\ Len(rs) \in Nat
    BY LenProperties
  <1>3. \A i \in 1..Len(rs) : rs[i]["faithfulness"] \in Fractions /\ rs[i]["relevance"] \in Fractions
    BY <1>1 DEF ResultRecords, UnitFractions
  <1> QED BY <1>2, <1>3 DEF Scores

\* A release that passes still passes when one of its answers says more, in a data set of any
\* size and with any thresholds (eval/metrics.py:34-61, eval/harness.py:57-72).
THEOREM LongerAnswersStillPassHolds == Spec => []LongerAnswersStillPass
  <1>1. EvalInv => LongerAnswersStillPass
    <2> SUFFICES ASSUME EvalInv, pc = "done", report.passed,
                        NEW i \in DOMAIN results, NEW more \in SUBSET Words
                PROVE  Passed([results EXCEPT ![i] = Scored(dataset[i], @.answer \cup more)])
      BY DEF LongerAnswersStillPass
    <2>1. Passed(results) /\ results # <<>>
      BY DEF EvalInv, ReportInv, Reported
    <2>2. /\ results \in Seq(ResultRecords) /\ dataset \in Datasets
          /\ Len(results) = Len(dataset)
          /\ \A k \in 1..Len(results) : results[k] = Scored(dataset[k], results[k].answer)
      BY DEF EvalInv, ResultInv
    <2>3. i \in 1..Len(results) /\ DOMAIN results = 1..Len(results) /\ Len(results) \in Nat
      BY <2>2, LenProperties
    <2> DEFINE old == results[i]
               new == Scored(dataset[i], old.answer \cup more)
               rs == [results EXCEPT ![i] = new]
    <2>4. dataset[i] \in Items /\ old.answer \in SUBSET Words
      <3>1. old \in ResultRecords
        BY <2>2, <2>3, ElementOfSeq
      <3> QED BY <2>2, <2>3, <3>1, ItemTypes DEF ResultRecords
    <2>5. /\ AtLeast(new.faithfulness, old.faithfulness)
          /\ AtLeast(new.relevance, old.relevance)
      BY <2>2, <2>3, <2>4, MoreWordsScoreMore
    <2>6. new \in ResultRecords
      BY <2>4, ScoredType
    <2>7. rs \in Seq(ResultRecords) /\ Len(rs) = Len(results) /\ rs[i] = new
          /\ \A k \in 1..Len(results) : k # i => rs[k] = results[k]
      <3> HIDE DEF new
      <3> QED BY <2>2, <2>3, <2>6, ExceptSeq
    <2> HIDE DEF new, rs
    <2>8. ASSUME NEW x \in Fractions PROVE AtLeast(x, x)
      BY FractionParts, Products DEF AtLeast
    <2>9. /\ NowhereBelow(Scores(rs, "faithfulness"), Scores(results, "faithfulness"))
          /\ NowhereBelow(Scores(rs, "relevance"), Scores(results, "relevance"))
      <3>1. \A k \in 1..Len(results) : results[k] \in ResultRecords
        BY <2>2, ElementOfSeq
      <3>2. DOMAIN rs = 1..Len(results)
        BY <2>7, LenProperties
      <3>3. ASSUME NEW k \in 1..Len(results)
            PROVE  /\ AtLeast(rs[k]["faithfulness"], results[k]["faithfulness"])
                   /\ AtLeast(rs[k]["relevance"], results[k]["relevance"])
        <4>1. CASE k = i
          BY <2>5, <2>7, <4>1
        <4>2. CASE k # i
          <5>1. results[k].faithfulness \in Fractions /\ results[k].relevance \in Fractions
            BY <3>1 DEF ResultRecords, UnitFractions
          <5> QED BY <2>7, <2>8, <4>2, <5>1
        <4> QED BY <4>1, <4>2
      <3> QED BY <2>2, <2>3, <2>7, <3>2, <3>3, ScoresType DEF NowhereBelow, Scores
    <2>10. ASSUME NEW e \in Seq(Fractions), NEW f \in Seq(Fractions), e # <<>>, f # <<>>,
                  NowhereBelow(f, e), NEW m \in Fractions, AtLeast(Average(e), m)
           PROVE  AtLeast(Average(f), m)
      BY <2>10, AverageIsMonotone, AverageIsFraction, AtLeastIsTransitive
    <2>11. MinFaithfulness \in Fractions /\ MinRelevance \in Fractions
      BY EvaluationAssumption DEF Fractions
    <2>12. /\ Scores(rs, "faithfulness") \in Seq(Fractions) /\ Scores(rs, "faithfulness") # <<>>
           /\ Scores(rs, "relevance") \in Seq(Fractions) /\ Scores(rs, "relevance") # <<>>
           /\ Scores(results, "faithfulness") \in Seq(Fractions)
           /\ Scores(results, "faithfulness") # <<>>
           /\ Scores(results, "relevance") \in Seq(Fractions) /\ Scores(results, "relevance") # <<>>
      BY <2>1, <2>2, <2>7, ScoresType, EmptySeq
    <2>13. Passed(rs)
      BY <2>1, <2>9, <2>10, <2>11, <2>12 DEF Passed
    <2> QED BY <2>13 DEF rs, new
  <1> QED BY <1>1, EvalInvariant, PTL

\* A threshold has at most three decimals, as those of the code (eval/harness.py:53) and of
\* its tests have.
InThousandths(m) == \E q \in Nat : m.den * q = 1000

\* The thousandth nearest to an average is on the average's side of a threshold that is
\* itself a number of thousandths.
LEMMA RoundingKeepsSides ==
  ASSUME NEW x \in Fractions, NEW m \in Fractions, InThousandths(m), NEW n \in Thousandths(x)
  PROVE  /\ AtLeast(x, m) => AtLeast(Ratio(n, 1000), m)
         /\ ~AtLeast(x, m) => AtLeast(m, Ratio(n, 1000))
  <1> DEFINE a == x.num
             d == x.den
             k == m.num
             e == m.den
  <1> PICK q \in Nat : e * q = 1000
    BY DEF InThousandths
  <1> DEFINE t == k * q
  <1>1. /\ a \in Int /\ d \in Nat \ {0} /\ k \in Int /\ e \in Nat \ {0} /\ t \in Int /\ q # 0
        /\ n \in Int
    BY FractionParts DEF Thousandths
  <1>2. 2 * (n * d - 1000 * a) \in (0 - d)..d
    BY DEF Thousandths
  <1>3. t * e = k * 1000
    <2>1. t * e = k * (e * q)
      BY <1>1
    <2> QED BY <2>1
  <1>4. /\ AtLeast(x, m) <=> a * e >= k * d
        /\ AtLeast(Ratio(n, 1000), m) <=> n * e >= k * 1000
        /\ AtLeast(m, Ratio(n, 1000)) <=> k * 1000 >= n * e
    BY DEF AtLeast, Ratio
  <1> HIDE DEF a, d, k, e, t
  <1>5. a * e >= k * d <=> 1000 * a >= t * d
    <2>1. (a * e) * q = 1000 * a /\ (k * d) * q = t * d
      BY <1>1 DEF t
    <2>2. a * e \in Int /\ k * d \in Int /\ q \in Nat \ {0}
      BY <1>1
    <2>3. a * e >= k * d => (a * e) * q >= (k * d) * q
      BY <2>2, Scales
    <2>4. (a * e) * q >= (k * d) * q => a * e >= k * d
      BY <2>2, Unscales
    <2> QED BY <2>1, <2>3, <2>4
  <1>6. ASSUME 1000 * a >= t * d PROVE n >= t
    <2>1. (2 * n) * d >= (2 * t - 1) * d
      <3>1. /\ 2 * (n * d - 1000 * a) = (2 * n) * d - 2000 * a
            /\ (2 * t - 1) * d = 2 * (t * d) - d
            /\ (2 * n) * d \in Int /\ t * d \in Int
        BY <1>1
      <3> QED BY <1>1, <1>2, <1>6, <3>1
    <2>2. 2 * n >= 2 * t - 1
      BY <1>1, <2>1, Unscales
    <2> QED BY <1>1, <2>2
  <1>7. ASSUME ~(1000 * a >= t * d) PROVE t >= n
    <2>1. (2 * t + 1) * d >= (2 * n) * d
      <3>1. /\ 2 * (n * d - 1000 * a) = (2 * n) * d - 2000 * a
            /\ (2 * t + 1) * d = 2 * (t * d) + d
            /\ (2 * n) * d \in Int /\ t * d \in Int
        BY <1>1
      <3> QED BY <1>1, <1>2, <1>7, <3>1
    <2>2. 2 * t + 1 >= 2 * n
      BY <1>1, <2>1, Unscales
    <2> QED BY <1>1, <2>2
  <1>8. /\ n >= t => n * e >= t * e
        /\ t >= n => t * e >= n * e
    BY <1>1, Scales
  <1> QED BY <1>3, <1>4, <1>5, <1>6, <1>7, <1>8

\* The reader of a report is not misled by its rounding, provided the thresholds have at most
\* three decimals themselves: with a threshold of 0.6674 an average of 0.66741 passes and is
\* shown as 0.667 (eval/harness.py:65-72).
THEOREM ReportShowsTheVerdictHolds ==
  ASSUME InThousandths(MinFaithfulness), InThousandths(MinRelevance)
  PROVE  Spec => []ReportShowsTheVerdict
  <1>1. EvalInv => ReportShowsTheVerdict
    <2> SUFFICES ASSUME EvalInv, report # NoReport PROVE ReportShowsTheVerdict
      BY DEF ReportShowsTheVerdict
    <2> DEFINE f == Average(Scores(results, "faithfulness"))
               r == Average(Scores(results, "relevance"))
    <2>1. Reported /\ results \in Seq(ResultRecords)
      BY DEF EvalInv, ReportInv, ResultInv
    <2>2. f \in Fractions /\ r \in Fractions
      <3>1. Scores(results, "faithfulness") # <<>> /\ Scores(results, "relevance") # <<>>
        BY <2>1, ScoresType, EmptySeq DEF Reported
      <3> QED BY <2>1, <3>1, ScoresType, AverageIsFraction
    <2>3. MinFaithfulness \in Fractions /\ MinRelevance \in Fractions
      BY EvaluationAssumption DEF Fractions
    <2>4. /\ report.faithfulness \in Thousandths(f) /\ report.relevance \in Thousandths(r)
          /\ report.passed <=> AtLeast(f, MinFaithfulness) /\ AtLeast(r, MinRelevance)
      BY <2>1 DEF Reported, Passed
    <2> HIDE DEF f, r
    <2>5. /\ AtLeast(f, MinFaithfulness) =>
                AtLeast(Ratio(report.faithfulness, 1000), MinFaithfulness)
          /\ ~AtLeast(f, MinFaithfulness) =>
                AtLeast(MinFaithfulness, Ratio(report.faithfulness, 1000))
      BY <2>2, <2>3, <2>4, RoundingKeepsSides
    <2>6. /\ AtLeast(r, MinRelevance) => AtLeast(Ratio(report.relevance, 1000), MinRelevance)
          /\ ~AtLeast(r, MinRelevance) => AtLeast(MinRelevance, Ratio(report.relevance, 1000))
      BY <2>2, <2>3, <2>4, RoundingKeepsSides
    <2> QED BY <2>4, <2>5, <2>6 DEF ReportShowsTheVerdict
  <1> QED BY <1>1, EvalInvariant, PTL
=============================================================================
