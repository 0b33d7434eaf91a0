----------------------------- MODULE FeatureProofs -----------------------------
(***************************************************************************)
(* The features for any periods, any length of history and any prices: a   *)
(* total, an exponential average and the list of peaks are recursive       *)
(* functions, and what they compute is shown by induction over their       *)
(* positions.                                                              *)
(***************************************************************************)
EXTENDS FeatureFeed, DecisionLemmas, SequenceTheorems

(* Induction over the positions from lo to hi, for a set of positions.     *)
LEMMA Climb ==
    ASSUME NEW lo \in Int, NEW hi \in Int, NEW S, lo \in S,
           \A i \in lo + 1 .. hi : i - 1 \in S => i \in S
    PROVE  lo .. hi \subseteq S
<1>. DEFINE Left == {k \in Nat : lo + k <= hi /\ lo + k \notin S}
<1>1. CASE Left = {}
  <2>. SUFFICES ASSUME NEW i \in lo .. hi PROVE i \in S
    OBVIOUS
  <2>1. i - lo \in Nat /\ lo + (i - lo) = i
    OBVIOUS
  <2>2. i - lo \notin Left
    BY <1>1
  <2>. QED
    BY <2>1, <2>2
<1>2. CASE Left # {}
  <2>1. PICK k \in Left : \A j \in Left : k <= j
    <3>. HIDE DEF Left
    <3>1. Left \in SUBSET Nat
      BY DEF Left
    <3>. QED
      BY <1>2, <3>1, LeastNatural
  <2>2. k \in Nat /\ lo + k <= hi /\ lo + k \notin S
    OBVIOUS
  <2>3. k # 0
    BY <2>2
  <2>4. k - 1 \in Nat /\ k - 1 \notin Left
    BY <2>1, <2>2, <2>3
  <2>5. lo + (k - 1) \in S
    BY <2>2, <2>4
  <2>6. lo + k \in lo + 1 .. hi /\ (lo + k) - 1 = lo + (k - 1)
    BY <2>2, <2>3
  <2>. QED
    BY <2>2, <2>5, <2>6
<1>. QED
  BY <1>1, <1>2

(* A recursion over the positions from lo to hi has a solution.            *)
Solves(f, lo, hi, V, base, step) ==
    /\ f \in [lo .. hi -> V]
    /\ f[lo] = base /\ \A i \in lo + 1 .. hi : f[i] = step[i][f[i - 1]]

LEMMA Recursion ==
    ASSUME NEW lo \in Int, NEW hi \in Int, lo <= hi, NEW V, NEW base \in V,
           NEW step \in [lo + 1 .. hi -> [V -> V]]
    PROVE  \E f : Solves(f, lo, hi, V, base, step)
<1>. DEFINE Solved(n) == \E f \in [lo .. n -> V] :
                            f[lo] = base /\ \A i \in lo + 1 .. n : f[i] = step[i][f[i - 1]]
            S == {n \in lo .. hi : Solved(n)}
<1>1. lo \in S
  <2>. DEFINE f == [i \in lo .. lo |-> base]
  <2>1. f \in [lo .. lo -> V] /\ f[lo] = base /\ \A i \in lo + 1 .. lo : f[i] = step[i][f[i - 1]]
    OBVIOUS
  <2>2. Solved(lo)
    BY <2>1
  <2>. QED
    BY <2>2
<1>2. ASSUME NEW n \in lo + 1 .. hi, n - 1 \in S PROVE n \in S
  <2>1. PICK g \in [lo .. n - 1 -> V] :
           g[lo] = base /\ \A i \in lo + 1 .. n - 1 : g[i] = step[i][g[i - 1]]
    BY <1>2
  <2>. DEFINE f == [i \in lo .. n |-> IF i = n THEN step[n][g[n - 1]] ELSE g[i]]
  <2>2. n - 1 \in lo .. n - 1 /\ g[n - 1] \in V /\ step[n][g[n - 1]] \in V
    BY <2>1
  <2>3. f \in [lo .. n -> V]
    BY <2>1, <2>2
  <2>4. \A i \in lo .. n - 1 : f[i] = g[i]
    OBVIOUS
  <2>5. f[n] = step[n][f[n - 1]]
    BY <2>2, <2>4
  <2>6. ASSUME NEW i \in lo + 1 .. n - 1 PROVE f[i] = step[i][f[i - 1]]
    <3>1. i \in lo .. n - 1 /\ i - 1 \in lo .. n - 1
      OBVIOUS
    <3>. QED
      BY <2>1, <2>4, <3>1
  <2>7. f[lo] = base
    BY <2>1
  <2>8. Solved(n)
    <3>1. \A i \in lo + 1 .. n : i = n \/ i \in lo + 1 .. n - 1
      OBVIOUS
    <3>. HIDE DEF f
    <3>. QED
      BY <2>3, <2>5, <2>6, <2>7, <3>1
  <2>. QED
    BY <2>8
<1>3. lo .. hi \subseteq S
  <2>. HIDE DEF S
  <2>. QED
    BY <1>1, <1>2, Climb
<1>. QED
  BY <1>3 DEF Solves

-----------------------------------------------------------------------------
(* The function that Total is the last value of.                           *)
LEMMA TotalSums ==
    ASSUME NEW s \in Seq(Int)
    PROVE  \E f \in [0 .. Len(s) -> Int] :
              /\ f[0] = 0 /\ \A i \in 1 .. Len(s) : f[i] = f[i - 1] + s[i]
              /\ Total(s) = f[Len(s)]
<1>. DEFINE Sums(f) == f = [i \in 0 .. Len(s) |-> IF i = 0 THEN 0 ELSE f[i - 1] + s[i]]
            up == CHOOSE f : Sums(f)
            step == [i \in 0 + 1 .. Len(s) |-> [x \in Int |-> x + s[i]]]
<1>1. Len(s) \in Nat /\ \A i \in 1 .. Len(s) : s[i] \in Int
  OBVIOUS
<1>2. step \in [0 + 1 .. Len(s) -> [Int -> Int]]
  BY <1>1
<1>3. \E f : Solves(f, 0, Len(s), Int, 0, step)
  <2>1. 0 \in Int /\ Len(s) \in Int /\ 0 <= Len(s)
    BY <1>1
  <2>. HIDE DEF step
  <2>. QED
    BY <1>2, <2>1, Recursion
<1>4. PICK f \in [0 .. Len(s) -> Int] : f[0] = 0 /\ \A i \in 1 .. Len(s) : f[i] = f[i - 1] + s[i]
  <2>1. PICK f : Solves(f, 0, Len(s), Int, 0, step)
    BY <1>3
  <2>2. \A i \in 1 .. Len(s), x \in Int : step[i][x] = x + s[i]
    OBVIOUS
  <2>3. f \in [0 .. Len(s) -> Int] /\ f[0] = 0 /\ \A i \in 1 .. Len(s) : f[i] = step[i][f[i - 1]]
    BY <2>1 DEF Solves
  <2>. HIDE DEF step
  <2>4. \A i \in 1 .. Len(s) : f[i - 1] \in Int
    BY <1>1, <2>3
  <2>5. \A i \in 1 .. Len(s) : f[i] = f[i - 1] + s[i]
    BY <2>2, <2>3, <2>4
  <2>. QED
    BY <2>3, <2>5
<1>5. Sums(f)
  BY <1>1, <1>4
<1>6. Sums(up)
  <2>. HIDE DEF Sums
  <2>. QED
    BY <1>5
<1>7. Total(s) = up[Len(s)]
  BY DEF Total
<1>. HIDE DEF up
<1>8. up[0] = 0 /\ \A i \in 1 .. Len(s) : up[i] = up[i - 1] + s[i]
  BY <1>1, <1>6
<1>. DEFINE S == {i \in 0 .. Len(s) : up[i] = f[i]}
<1>9. 0 .. Len(s) \subseteq S
  <2>1. 0 \in S
    BY <1>1, <1>4, <1>8
  <2>2. ASSUME NEW i \in 0 + 1 .. Len(s), i - 1 \in S PROVE i \in S
    <3>1. i \in 1 .. Len(s) /\ i \in 0 .. Len(s) /\ up[i - 1] = f[i - 1]
      BY <1>1, <2>2
    <3>. QED
      BY <1>4, <1>8, <3>1
  <2>3. 0 \in Int /\ Len(s) \in Int
    BY <1>1
  <2>. HIDE DEF S
  <2>. QED
    BY <2>1, <2>2, <2>3, Climb
<1>10. Total(s) = f[Len(s)]
  BY <1>1, <1>7, <1>9
<1>. QED
  BY <1>4, <1>10

LEMMA TotalNatural ==
    ASSUME NEW s \in Seq(Int), \A i \in 1 .. Len(s) : s[i] >= 0
    PROVE  Total(s) \in Nat
<1>1. PICK f \in [0 .. Len(s) -> Int] :
         /\ f[0] = 0 /\ \A i \in 1 .. Len(s) : f[i] = f[i - 1] + s[i]
         /\ Total(s) = f[Len(s)]
  BY TotalSums
<1>2. 0 \in Int /\ Len(s) \in Nat /\ Len(s) \in Int /\ \A i \in 1 .. Len(s) : s[i] \in Int
  OBVIOUS
<1>. DEFINE S == {i \in 0 .. Len(s) : f[i] >= 0}
<1>3. 0 .. Len(s) \subseteq S
  <2>1. 0 \in S
    BY <1>1, <1>2
  <2>2. ASSUME NEW i \in 0 + 1 .. Len(s), i - 1 \in S PROVE i \in S
    <3>0. i \in 1 .. Len(s) /\ i - 1 \in 0 .. Len(s)
      BY <1>2
    <3>1. f[i - 1] \in Int /\ f[i - 1] >= 0
      BY <1>1, <2>2, <3>0
    <3>2. f[i] = f[i - 1] + s[i] /\ s[i] \in Int /\ s[i] >= 0
      BY <1>1, <1>2, <3>0
    <3>. QED
      BY <1>1, <3>0, <3>1, <3>2
  <2>. HIDE DEF S
  <2>. QED
    BY <1>2, <2>1, <2>2, Climb
<1>. QED
  BY <1>1, <1>2, <1>3

(* Where a linear form is positive at every value, it is at their total.   *)
LEMMA TotalForm ==
    ASSUME NEW s \in Seq(Int), Len(s) > 0, NEW a \in Int, NEW b \in Int,
           \A i \in 1 .. Len(s) : a * s[i] + b > 0
    PROVE  Total(s) \in Int /\ a * Total(s) + b * Len(s) > 0
<1>1. PICK f \in [0 .. Len(s) -> Int] :
         /\ f[0] = 0 /\ \A i \in 1 .. Len(s) : f[i] = f[i - 1] + s[i]
         /\ Total(s) = f[Len(s)]
  BY TotalSums
<1>2. /\ 1 \in Int /\ Len(s) \in Nat /\ Len(s) \in Int
      /\ 1 \in 1 .. Len(s) /\ Len(s) \in 1 .. Len(s)
      /\ \A i \in 1 .. Len(s) : i \in 0 .. Len(s)
      /\ \A i \in 1 .. Len(s) : s[i] \in Int /\ f[i] \in Int
  <2>1. Len(s) \in Nat /\ \A i \in 1 .. Len(s) : s[i] \in Int
    OBVIOUS
  <2>2. \A i \in 1 .. Len(s) : i \in 0 .. Len(s)
    BY <2>1
  <2>3. \A i \in 1 .. Len(s) : f[i] \in Int
    BY <1>1, <2>2
  <2>4. 1 \in 1 .. Len(s) /\ Len(s) \in 1 .. Len(s)
    BY <2>1
  <2>. QED
    BY <2>1, <2>2, <2>3, <2>4
<1>. DEFINE S == {i \in 1 .. Len(s) : a * f[i] + b * i > 0}
<1>3. 1 .. Len(s) \subseteq S
  <2>1. 1 \in S
    <3>1. f[1] = s[1]
      BY <1>1, <1>2
    <3>2. a * s[1] + b > 0 /\ b * 1 = b
      BY <1>2
    <3>. QED
      BY <1>2, <3>1, <3>2
  <2>2. ASSUME NEW i \in 1 + 1 .. Len(s), i - 1 \in S PROVE i \in S
    <3>1. i \in 1 .. Len(s) /\ f[i - 1] \in Int /\ a * f[i - 1] + b * (i - 1) > 0
      BY <1>1, <1>2, <2>2
    <3>2. f[i] = f[i - 1] + s[i] /\ s[i] \in Int /\ a * s[i] + b > 0
      BY <1>1, <1>2, <3>1
    <3>3. \A x, y \in Int : a * (x + y) + b * i = (a * x + b * (i - 1)) + (a * y + b)
      BY <1>2
    <3>4. \A x \in Int : a * x \in Int
      OBVIOUS
    <3>5. a * f[i] + b * i = (a * f[i - 1] + b * (i - 1)) + (a * s[i] + b)
      BY <3>1, <3>2, <3>3
    <3>6. a * f[i] + b * i > 0
      <4>. DEFINE u == a * f[i - 1] + b * (i - 1)
                  v == a * s[i] + b
      <4>1. u \in Int /\ v \in Int /\ u > 0 /\ v > 0
        <5>1. i - 1 \in Int /\ b * (i - 1) \in Int
          BY <1>2, <3>1
        <5>2. a * f[i - 1] \in Int /\ a * s[i] \in Int
          BY <3>1, <3>2, <3>4
        <5>3. \A x, y \in Int : x + y \in Int
          OBVIOUS
        <5>4. u \in Int /\ v \in Int
          BY <5>1, <5>2, <5>3, Zenon
        <5>. QED
          BY <3>1, <3>2, <5>4
      <4>. HIDE DEF u, v
      <4>2. u + v > 0
        BY <4>1
      <4>. QED
        BY <3>5, <4>2 DEF u, v
    <3>. QED
      BY <3>1, <3>6
  <2>. HIDE DEF S
  <2>. QED
    BY <1>2, <2>1, <2>2, Climb
<1>4. Len(s) \in S
  BY <1>2, <1>3
<1>. QED
  BY <1>1, <1>2, <1>4

-----------------------------------------------------------------------------
Fractions == [num : Int, den : Nat \ {0}]

(* A form at a weighted mean is the mean of the forms.                     *)
FormOfMean(a, b, n, d, x, v) == a * (2 * v * d + (n - 1) * x) + b * ((n + 1) * d)
MeanOfForms(a, b, n, d, x, v) == 2 * (d * (a * v + b)) + (n - 1) * (a * x + b * d)

LEMMA Weighted ==
    ASSUME NEW a \in Int, NEW b \in Int, NEW n \in Int, NEW d \in Int, NEW x \in Int, NEW v \in Int
    PROVE  FormOfMean(a, b, n, d, x, v) = MeanOfForms(a, b, n, d, x, v)
<1>1. a * (2 * v * d + (n - 1) * x) = 2 * (d * (a * v)) + (n - 1) * (a * x)
  OBVIOUS
<1>2. b * ((n + 1) * d) = 2 * (d * b) + (n - 1) * (b * d)
  OBVIOUS
<1>3. d * (a * v + b) = d * (a * v) + d * b /\ (n - 1) * (a * x + b * d) = (n - 1) * (a * x) + (n - 1) * (b * d)
  OBVIOUS
<1>. DEFINE p == d * (a * v)
            q == (n - 1) * (a * x)
            r == d * b
            t == (n - 1) * (b * d)
<1>4. p \in Int /\ q \in Int /\ r \in Int /\ t \in Int
  OBVIOUS
<1>. HIDE DEF p, q, r, t
<1>5. (2 * p + q) + (2 * r + t) = 2 * (p + r) + (q + t)
  BY <1>4
<1>. QED
  BY <1>1, <1>2, <1>3, <1>5 DEF p, q, r, t, FormOfMean, MeanOfForms

LEMMA SmoothForm ==
    ASSUME NEW n \in Nat \ {0}, NEW e \in Fractions, NEW v \in Int, NEW a \in Int, NEW b \in Int
    PROVE  /\ Smooth(n, e, v) \in Fractions
           /\ a * v + b > 0 /\ a * e.num + b * e.den > 0 =>
                 a * Smooth(n, e, v).num + b * Smooth(n, e, v).den > 0
<1>1. e.num \in Int /\ e.den \in Nat \ {0}
  BY DEF Fractions
<1>. DEFINE num == 2 * v * e.den + (n - 1) * e.num
            den == (n + 1) * e.den
<1>2. num \in Int /\ den \in Nat \ {0}
  <2>1. \A x, y \in Nat \ {0} : x * y \in Nat \ {0}
    OBVIOUS
  <2>. QED
    BY <1>1, <2>1
<1>3. Smooth(n, e, v).num = num /\ Smooth(n, e, v).den = den /\ Smooth(n, e, v) \in Fractions
  BY <1>2 DEF Smooth, Fractions
<1>4. ASSUME a * v + b > 0, a * e.num + b * e.den > 0 PROVE a * num + b * den > 0
  <2>. DEFINE u == a * v + b
              w == a * e.num + b * e.den
  <2>1. a * num + b * den = 2 * (e.den * u) + (n - 1) * w
    <3>1. n \in Int /\ e.num \in Int /\ e.den \in Int
      BY <1>1
    <3>2. FormOfMean(a, b, n, e.den, e.num, v) = MeanOfForms(a, b, n, e.den, e.num, v)
      BY <3>1, Weighted
    <3>. QED
      BY <3>2 DEF FormOfMean, MeanOfForms
  <2>2. u \in Nat \ {0} /\ w \in Nat \ {0} /\ n - 1 \in Nat
    BY <1>1, <1>4
  <2>. HIDE DEF u, w
  <2>3. e.den * u > 0 /\ (n - 1) * w >= 0 /\ e.den * u \in Int /\ (n - 1) * w \in Int
    BY <1>1, <2>2
  <2>. QED
    BY <2>1, <2>3
<1>. QED
  BY <1>3, <1>4

(* What holds of the closes holds of their exponential average.            *)
LEMMA EmaForm ==
    ASSUME NEW s \in Seq(Int), NEW n \in 1 .. Len(s), NEW a \in Int, NEW b \in Int,
           \A i \in 1 .. Len(s) : a * s[i] + b > 0
    PROVE  /\ Ema(s, n) \in Fractions
           /\ a * Ema(s, n).num + b * Ema(s, n).den > 0
<1>. DEFINE first == [num |-> Total(SubSeq(s, 1, n)), den |-> n]
            Averages(f) == f = [i \in n .. Len(s) |->
                                   IF i = n THEN first ELSE Smooth(n, f[i - 1], s[i])]
            up == CHOOSE f : Averages(f)
            step == [i \in n + 1 .. Len(s) |-> [x \in Fractions |-> Smooth(n, x, s[i])]]
<1>1. /\ Len(s) \in Nat /\ n \in Int /\ n \in Nat \ {0} /\ Len(s) \in Int /\ n <= Len(s)
      /\ \A i \in 1 .. Len(s) : s[i] \in Int
  OBVIOUS
<1>2. first \in Fractions /\ a * first.num + b * first.den > 0
  <2>. DEFINE t == SubSeq(s, 1, n)
  <2>1. t \in Seq(Int) /\ Len(t) = n /\ \A i \in 1 .. n : t[i] = s[i]
    <3>1. 1 \in Int /\ 1 <= n /\ n - 1 + 1 = n /\ \A i \in 1 .. n : s[i] \in Int
      BY <1>1
    <3>. HIDE DEF t
    <3>2. /\ t \in Seq(Int) /\ Len(t) = IF 1 <= n THEN n - 1 + 1 ELSE 0
          /\ \A i \in 1 .. n - 1 + 1 : t[i] = s[1 + i - 1]
      BY <1>1, <3>1, SubSeqProperties DEF t
    <3>3. \A i \in 1 .. n : i \in 1 .. n - 1 + 1 /\ 1 + i - 1 = i
      BY <1>1
    <3>4. \A i \in 1 .. n : t[i] = s[i]
      BY <3>2, <3>3
    <3>5. Len(t) = n
      BY <3>1, <3>2
    <3>. QED
      BY <3>2, <3>4, <3>5
  <2>2. \A i \in 1 .. Len(t) : a * t[i] + b > 0
    BY <1>1, <2>1
  <2>3. Len(t) > 0
    BY <1>1, <2>1
  <2>. HIDE DEF t
  <2>4. Total(t) \in Int /\ a * Total(t) + b * n > 0
    BY <2>1, <2>2, <2>3, TotalForm
  <2>. QED
    BY <1>1, <2>4 DEF t, Fractions
<1>3. step \in [n + 1 .. Len(s) -> [Fractions -> Fractions]]
  <2>. SUFFICES ASSUME NEW i \in n + 1 .. Len(s), NEW x \in Fractions
                PROVE  Smooth(n, x, s[i]) \in Fractions
    OBVIOUS
  <2>1. i \in 1 .. Len(s)
    BY <1>1
  <2>. QED
    BY <1>1, <2>1, SmoothForm
<1>4. PICK f : Solves(f, n, Len(s), Fractions, first, step)
  <2>. HIDE DEF step, first
  <2>. QED
    BY <1>1, <1>2, <1>3, Recursion
<1>5. /\ f \in [n .. Len(s) -> Fractions] /\ f[n] = first
      /\ \A i \in n + 1 .. Len(s) : f[i - 1] \in Fractions /\ f[i] = Smooth(n, f[i - 1], s[i])
  <2>1. \A i \in n + 1 .. Len(s), x \in Fractions : step[i][x] = Smooth(n, x, s[i])
    OBVIOUS
  <2>. HIDE DEF step, first
  <2>2. /\ f \in [n .. Len(s) -> Fractions] /\ f[n] = first
        /\ \A i \in n + 1 .. Len(s) : f[i] = step[i][f[i - 1]]
    BY <1>4 DEF Solves
  <2>3. \A i \in n + 1 .. Len(s) : i - 1 \in n .. Len(s)
    BY <1>1
  <2>4. \A i \in n + 1 .. Len(s) : f[i - 1] \in Fractions
    BY <2>2, <2>3
  <2>. QED
    BY <2>1, <2>2, <2>4
<1>6. Averages(up)
  <2>1. Averages(f)
    <3>. HIDE DEF first
    <3>. QED
      BY <1>1, <1>5
  <2>. HIDE DEF Averages
  <2>. QED
    BY <2>1
<1>7. Ema(s, n) = up[Len(s)]
  BY DEF Ema
<1>. HIDE DEF up, first, step
<1>8. up[n] = first /\ \A i \in n + 1 .. Len(s) : up[i] = Smooth(n, up[i - 1], s[i])
  <2>1. n \in n .. Len(s) /\ \A i \in n + 1 .. Len(s) : i \in n .. Len(s) /\ i # n
    BY <1>1
  <2>2. \A i \in n .. Len(s) : up[i] = IF i = n THEN first ELSE Smooth(n, up[i - 1], s[i])
    BY <1>6
  <2>. QED
    BY <2>1, <2>2
<1>. HIDE DEF Averages
<1>. DEFINE S == {i \in n .. Len(s) :
                    up[i] \in Fractions /\ a * up[i].num + b * up[i].den > 0}
<1>9. n .. Len(s) \subseteq S
  <2>1. n \in S
    BY <1>1, <1>2, <1>8
  <2>2. ASSUME NEW i \in n + 1 .. Len(s), i - 1 \in S PROVE i \in S
    <3>1. i \in n .. Len(s) /\ s[i] \in Int /\ a * s[i] + b > 0
      BY <1>1
    <3>2. up[i - 1] \in Fractions /\ a * up[i - 1].num + b * up[i - 1].den > 0
      BY <2>2
    <3>3. up[i] = Smooth(n, up[i - 1], s[i])
      BY <1>8
    <3>4. up[i] \in Fractions /\ a * up[i].num + b * up[i].den > 0
      BY <1>1, <3>1, <3>2, <3>3, SmoothForm
    <3>. QED
      BY <3>1, <3>4
  <2>. HIDE DEF S
  <2>. QED
    BY <1>1, <2>1, <2>2, Climb
<1>10. Len(s) \in S
  BY <1>1, <1>9
<1>. QED
  BY <1>7, <1>10

(* A moving average is neither below nor above all it averages.            *)
LEMMA EmaAmong ==
    ASSUME NEW s \in Seq(Int), NEW n \in 1 .. Len(s)
    PROVE  /\ \E i \in 1 .. Len(s) : ~Below(Ema(s, n), Whole(s[i]))
           /\ \E i \in 1 .. Len(s) : ~Below(Whole(s[i]), Ema(s, n))
<1>. DEFINE e == Ema(s, n)
<1>1. Len(s) \in Nat /\ \A i \in 1 .. Len(s) : s[i] \in Int
  OBVIOUS
<1>2. e \in Fractions /\ e.num \in Int /\ e.den \in Int
  <2>1. \A i \in 1 .. Len(s) : 0 * s[i] + 1 > 0
    BY <1>1
  <2>2. e \in Fractions
    <3>. HIDE DEF e
    <3>1. 0 \in Int /\ 1 \in Int
      OBVIOUS
    <3>. QED
      BY <2>1, <3>1, EmaForm DEF e
  <2>. QED
    BY <2>2 DEF Fractions
<1>3. ASSUME \A i \in 1 .. Len(s) : Below(e, Whole(s[i])) PROVE FALSE
  <2>1. -e.num \in Int
    BY <1>2
  <2>2. \A i \in 1 .. Len(s) : e.den * s[i] + (-e.num) > 0
    BY <1>1, <1>2, <1>3 DEF Below, Whole
  <2>3. e.den * e.num + (-e.num) * e.den > 0
    BY <1>2, <2>1, <2>2, EmaForm
  <2>4. e.den * e.num + (-e.num) * e.den = 0
    BY <1>2
  <2>. QED
    BY <2>3, <2>4
<1>4. ASSUME \A i \in 1 .. Len(s) : Below(Whole(s[i]), e) PROVE FALSE
  <2>1. -e.den \in Int
    BY <1>2
  <2>2. \A i \in 1 .. Len(s) : (-e.den) * s[i] + e.num > 0
    BY <1>1, <1>2, <1>4 DEF Below, Whole
  <2>3. (-e.den) * e.num + e.num * e.den > 0
    BY <1>2, <2>1, <2>2, EmaForm
  <2>4. (-e.den) * e.num + e.num * e.den = 0
    BY <1>2
  <2>. QED
    BY <2>3, <2>4
<1>. QED
  BY <1>3, <1>4

-----------------------------------------------------------------------------
(* The last n of a list.                                                   *)
LEMMA LastOfSeq ==
    ASSUME NEW V, NEW s \in Seq(V), NEW n \in Nat \ {0}
    PROVE  /\ LastOf(s, n) \in Seq(V)
           /\ Len(LastOf(s, n)) <= n /\ Len(LastOf(s, n)) <= Len(s)
           /\ Len(s) >= n => \A i \in 1 .. n : i \in DOMAIN LastOf(s, n) =>
                                 LastOf(s, n)[i] = s[Len(s) - n + i]
<1>. DEFINE m == Greatest(1, Len(s) - n + 1)
            t == SubSeq(s, m, Len(s))
<1>1. Len(s) \in Nat /\ Len(s) \in Int /\ m \in Int /\ 1 <= m /\ Len(s) - n + 1 <= m
  BY DEF Greatest
<1>2. \A i \in m .. Len(s) : s[i] \in V
  <2>1. \A i \in m .. Len(s) : i \in 1 .. Len(s)
    BY <1>1
  <2>. QED
    BY <2>1
<1>3. /\ t \in Seq(V) /\ Len(t) = IF m <= Len(s) THEN Len(s) - m + 1 ELSE 0
      /\ \A i \in 1 .. Len(s) - m + 1 : t[i] = s[m + i - 1]
  <2>. HIDE DEF m, t
  <2>. QED
    BY <1>1, <1>2, SubSeqProperties DEF t
<1>4. Len(t) <= n /\ Len(t) <= Len(s)
  <2>. HIDE DEF m, t
  <2>. QED
    BY <1>1, <1>3
<1>5. ASSUME Len(s) >= n, NEW i \in 1 .. n PROVE t[i] = s[Len(s) - n + i]
  <2>1. m = Len(s) - n + 1
    BY <1>1, <1>5 DEF Greatest
  <2>2. i \in 1 .. Len(s) - m + 1 /\ m + i - 1 = Len(s) - n + i
    BY <1>1, <2>1
  <2>. HIDE DEF m, t
  <2>. QED
    BY <1>3, <2>2
<1>. QED
  BY <1>3, <1>4, <1>5 DEF LastOf

(* What is summed of the recent bars is not negative.                      *)
LEMMA RecentPositions ==
    ASSUME NEW b \in Seq(CandleSet(Int)), NEW n \in Nat \ {0}, Len(b) > n + 1
    PROVE  /\ Recent(b, n) \in Seq(Nat)
           /\ \A k \in 1 .. Len(Recent(b, n)) :
                 Recent(b, n)[k] \in 1 .. Len(b) /\ Recent(b, n)[k] - 1 \in 1 .. Len(b)
<1>. DEFINE positions == [i \in DOMAIN b |-> i]
            r == LastOf(positions, n)
<1>1. /\ positions \in Seq(Nat) /\ Len(positions) = Len(b) /\ Len(b) \in Nat
      /\ \A i \in 1 .. Len(b) : positions[i] = i
  OBVIOUS
<1>2. /\ r \in Seq(Nat) /\ Len(r) <= n
      /\ \A i \in 1 .. n : i \in DOMAIN r => r[i] = positions[Len(b) - n + i]
  <2>. HIDE DEF positions
  <2>1. Len(positions) >= n
    BY <1>1
  <2>2. /\ r \in Seq(Nat) /\ Len(r) <= n
        /\ \A i \in 1 .. n : i \in DOMAIN r => r[i] = positions[Len(positions) - n + i]
    BY <1>1, <2>1, LastOfSeq
  <2>. HIDE DEF r
  <2>. QED
    BY <1>1, <2>2
<1>3. ASSUME NEW k \in 1 .. Len(r) PROVE r[k] \in 1 .. Len(b) /\ r[k] - 1 \in 1 .. Len(b)
  <2>1. k \in 1 .. n /\ k \in DOMAIN r
    BY <1>2
  <2>2. Len(b) - n + k \in 1 .. Len(b) /\ Len(b) - n + k - 1 \in 1 .. Len(b)
    BY <1>1, <2>1
  <2>3. r[k] = Len(b) - n + k
    BY <1>1, <1>2, <2>1, <2>2
  <2>. QED
    BY <2>2, <2>3
<1>. QED
  BY <1>2, <1>3 DEF Recent

LEMMA TrueRangeNatural ==
    ASSUME NEW b \in Seq(CandleSet(Int)), NEW i \in 1 .. Len(b), i - 1 \in 1 .. Len(b)
    PROVE  /\ TrueRange(b, i) \in Nat
           /\ Abs(b[i].high - b[i - 1].high) + Abs(b[i].low - b[i - 1].low) \in Nat
<1>1. b[i] \in CandleSet(Int) /\ b[i - 1] \in CandleSet(Int)
  OBVIOUS
<1>2. /\ {b[i].low, b[i].high, b[i].close, b[i - 1].low, b[i - 1].high, b[i - 1].close} \subseteq Int
      /\ b[i].low <= b[i].high
  <2>1. \A c \in CandleSet(Int) : {c.low, c.high, c.close} \subseteq Int /\ c.low <= c.high
    BY DEF CandleSet
  <2>. QED
    BY <1>1, <2>1
<1>3. /\ \A x, y \in Int : x - y \in Int /\ (y <= x => x - y \in Nat)
      /\ \A x \in Int : Abs(x) \in Nat
      /\ \A x, y \in Nat : Greatest(x, y) \in Nat /\ x + y \in Nat
  BY DEF Abs, Greatest
<1>4. /\ Height(b[i]) \in Nat
      /\ Abs(b[i].high - b[i - 1].close) \in Nat /\ Abs(b[i].low - b[i - 1].close) \in Nat
      /\ Abs(b[i].high - b[i - 1].high) \in Nat /\ Abs(b[i].low - b[i - 1].low) \in Nat
  BY <1>2, <1>3 DEF Height
<1>. QED
  BY <1>3, <1>4 DEF TrueRange

(* The whole percent lies on the side of the regime's bounds, 35 and 40,   *)
(* that the quotient it stands for lies on.                                *)
LEMMA PercentBounds ==
    ASSUME NEW moves \in Nat, NEW ranges \in Nat \ {0}
    PROVE  /\ Percent(moves, ranges) \in Nat
           /\ Percent(moves, ranges) >= 35 <=> 50 * moves >= 35 * ranges
           /\ Percent(moves, ranges) <= 40 <=> 50 * moves <= 40 * ranges
<1>. DEFINE x == 50 * moves
            y == IF x > 40 * ranges THEN x + ranges - 1 ELSE x
            q == y \div ranges
<1>1. y \in Nat /\ Percent(moves, ranges) = q
  BY DEF Percent
<1>. HIDE DEF y
<1>2. q \in Nat /\ ranges * q <= y /\ y < ranges * q + ranges
  BY <1>1
<1>. HIDE DEF q
<1>3. \A k \in Nat :
         (k * ranges <= y => k <= q) /\ (y < k * ranges => q < k)
  <2>. SUFFICES ASSUME NEW k \in Nat
                PROVE  (k * ranges <= y => k <= q) /\ (y < k * ranges => q < k)
    OBVIOUS
  <2>1. ASSUME q >= k PROVE ranges * q >= k * ranges
    BY <1>2, <2>1
  <2>2. ASSUME q + 1 <= k PROVE ranges * q + ranges <= k * ranges
    <3>1. ranges * q + ranges = ranges * (q + 1)
      BY <1>2
    <3>2. ranges * (q + 1) <= ranges * k
      BY <1>2, <2>2
    <3>. QED
      BY <3>1, <3>2
  <2>. QED
    BY <1>1, <1>2, <2>1, <2>2
<1>4. CASE x > 40 * ranges
  <2>1. y = x + ranges - 1
    BY <1>4 DEF y
  <2>2. 41 * ranges <= y
    BY <1>4, <2>1
  <2>. QED
    BY <1>1, <1>2, <1>3, <1>4, <2>2
<1>5. CASE x <= 40 * ranges
  <2>1. y = x
    BY <1>5 DEF y
  <2>2. y < 41 * ranges
    BY <1>5, <2>1
  <2>3. q < 41 /\ (35 * ranges <= y => 35 <= q) /\ (y < 35 * ranges => q < 35)
    BY <1>1, <1>2, <1>3, <2>2
  <2>. QED
    BY <1>1, <1>2, <1>5, <2>1, <2>3
<1>. QED
  BY <1>4, <1>5

(* Trend strength is a percentage, whatever the bars.                      *)
LEMMA StrengthPercent ==
    ASSUME NEW b \in Seq(CandleSet(Int))
    PROVE  Strength(b) \in 0 .. 100
<1>1. Period \in Nat \ {0} /\ Len(b) \in Nat
  BY FeatureAssumption
<1>2. ASSUME Len(b) > Period + 1 PROVE TrueRanges(b) \in Nat /\ DirectionalMoves(b) \in Nat
  <2>. DEFINE r == Recent(b, Period)
              ranges == [k \in DOMAIN r |-> TrueRange(b, r[k])]
              moves == [k \in DOMAIN r |-> Abs(b[r[k]].high - b[r[k] - 1].high)
                                               + Abs(b[r[k]].low - b[r[k] - 1].low)]
  <2>1. r \in Seq(Nat) /\ \A k \in 1 .. Len(r) : r[k] \in 1 .. Len(b) /\ r[k] - 1 \in 1 .. Len(b)
    BY <1>1, <1>2, RecentPositions
  <2>. HIDE DEF r
  <2>2. \A k \in 1 .. Len(r) : ranges[k] \in Nat /\ moves[k] \in Nat
    BY <2>1, TrueRangeNatural
  <2>3. /\ ranges \in Seq(Int) /\ Len(ranges) = Len(r)
        /\ moves \in Seq(Int) /\ Len(moves) = Len(r)
    <3>1. Len(r) \in Nat /\ DOMAIN r = 1 .. Len(r)
      BY <2>1
    <3>2. ranges \in [1 .. Len(r) -> Int] /\ moves \in [1 .. Len(r) -> Int]
      BY <2>2, <3>1
    <3>. HIDE DEF ranges, moves
    <3>. QED
      BY <3>1, <3>2
  <2>4. Total(ranges) \in Nat /\ Total(moves) \in Nat
    <3>. HIDE DEF ranges, moves
    <3>1. \A k \in 1 .. Len(ranges) : ranges[k] >= 0
      BY <2>2, <2>3
    <3>2. \A k \in 1 .. Len(moves) : moves[k] >= 0
      BY <2>2, <2>3
    <3>. QED
      BY <2>3, <3>1, <3>2, TotalNatural
  <2>. QED
    BY <2>4 DEF TrueRanges, DirectionalMoves, Each, r
<1>4. CASE Len(b) <= Period + 1 \/ TrueRanges(b) = 0
  BY <1>4 DEF Strength
<1>5. CASE Len(b) > Period + 1 /\ TrueRanges(b) # 0
  <2>1. Percent(DirectionalMoves(b), TrueRanges(b)) \in Nat
    BY <1>2, <1>5, PercentBounds
  <2>2. Strength(b) = Least(100, Percent(DirectionalMoves(b), TrueRanges(b)))
    BY <1>1, <1>5 DEF Strength
  <2>3. \A q \in Nat : Least(100, q) \in 0 .. 100
    BY DEF Least
  <2>. QED
    BY <2>1, <2>2, <2>3
<1>. QED
  BY <1>1, <1>4, <1>5

-----------------------------------------------------------------------------
(* The function that AllPeaks is the last value of.                        *)
Adding(h, f) ==
    /\ f \in [0 .. Len(h) -> Seq(Int)] /\ f[0] = <<>>
    /\ \A i \in 1 .. Len(h) : f[i] = IF IsPeak(h, i) THEN Append(f[i - 1], h[i]) ELSE f[i - 1]

LEMMA PeaksAdd ==
    ASSUME NEW h \in Seq(Int)
    PROVE  \E f : Adding(h, f) /\ AllPeaks(h) = f[Len(h)]
<1>. DEFINE Grows(f) == f = [i \in 0 .. Len(h) |->
                               IF i = 0 THEN <<>>
                               ELSE IF IsPeak(h, i) THEN Append(f[i - 1], h[i]) ELSE f[i - 1]]
            up == CHOOSE f : Grows(f)
            step == [i \in 0 + 1 .. Len(h) |->
                       [x \in Seq(Int) |-> IF IsPeak(h, i) THEN Append(x, h[i]) ELSE x]]
<1>1. Len(h) \in Nat /\ \A i \in 1 .. Len(h) : h[i] \in Int
  OBVIOUS
<1>2. step \in [0 + 1 .. Len(h) -> [Seq(Int) -> Seq(Int)]]
  <2>1. ASSUME NEW i \in 0 + 1 .. Len(h), NEW x \in Seq(Int)
        PROVE  (IF IsPeak(h, i) THEN Append(x, h[i]) ELSE x) \in Seq(Int)
    <3>1. h[i] \in Int
      BY <1>1
    <3>2. Append(x, h[i]) \in Seq(Int)
      BY <3>1
    <3>. QED
      BY <3>2
  <2>. QED
    BY <2>1
<1>3. PICK f : Solves(f, 0, Len(h), Seq(Int), <<>>, step)
  <2>1. 0 \in Int /\ Len(h) \in Int /\ 0 <= Len(h) /\ <<>> \in Seq(Int)
    BY <1>1
  <2>. HIDE DEF step
  <2>. QED
    BY <1>2, <2>1, Recursion
<1>4. Adding(h, f)
  <2>1. \A i \in 1 .. Len(h), x \in Seq(Int) :
           step[i][x] = IF IsPeak(h, i) THEN Append(x, h[i]) ELSE x
    OBVIOUS
  <2>2. /\ f \in [0 .. Len(h) -> Seq(Int)] /\ f[0] = <<>>
        /\ \A i \in 1 .. Len(h) : f[i] = step[i][f[i - 1]]
    BY <1>3 DEF Solves
  <2>. HIDE DEF step
  <2>3. \A i \in 1 .. Len(h) : f[i - 1] \in Seq(Int)
    BY <1>1, <2>2
  <2>. QED
    BY <2>1, <2>2, <2>3 DEF Adding
<1>5. Grows(f)
  <2>1. \A i \in 0 .. Len(h) : i = 0 \/ i \in 1 .. Len(h)
    BY <1>1
  <2>2. \A i \in 0 .. Len(h) :
           f[i] = IF i = 0 THEN <<>>
                  ELSE IF IsPeak(h, i) THEN Append(f[i - 1], h[i]) ELSE f[i - 1]
    BY <1>4, <2>1 DEF Adding
  <2>3. f \in [0 .. Len(h) -> Seq(Int)]
    BY <1>4 DEF Adding
  <2>. QED
    BY <2>2, <2>3
<1>6. Grows(up)
  <2>. HIDE DEF Grows
  <2>. QED
    BY <1>5
<1>7. AllPeaks(h) = up[Len(h)]
  BY DEF AllPeaks
<1>. HIDE DEF up
<1>8. /\ up[0] = <<>>
      /\ \A i \in 1 .. Len(h) : up[i] = IF IsPeak(h, i) THEN Append(up[i - 1], h[i]) ELSE up[i - 1]
  <2>1. \A i \in 0 .. Len(h) :
           up[i] = IF i = 0 THEN <<>>
                   ELSE IF IsPeak(h, i) THEN Append(up[i - 1], h[i]) ELSE up[i - 1]
    BY <1>6
  <2>2. 0 \in 0 .. Len(h) /\ \A i \in 1 .. Len(h) : i \in 0 .. Len(h) /\ i # 0
    BY <1>1
  <2>. QED
    BY <2>1, <2>2
<1>. DEFINE S == {i \in 0 .. Len(h) : up[i] = f[i]}
<1>9. 0 .. Len(h) \subseteq S
  <2>1. 0 \in S
    BY <1>1, <1>4, <1>8 DEF Adding
  <2>2. ASSUME NEW i \in 0 + 1 .. Len(h), i - 1 \in S PROVE i \in S
    <3>1. i \in 1 .. Len(h) /\ i \in 0 .. Len(h) /\ up[i - 1] = f[i - 1]
      BY <1>1, <2>2
    <3>. QED
      BY <1>4, <1>8, <3>1 DEF Adding
  <2>3. 0 \in Int /\ Len(h) \in Int
    BY <1>1
  <2>. HIDE DEF S
  <2>. QED
    BY <2>1, <2>2, <2>3, Climb
<1>10. AllPeaks(h) = f[Len(h)]
  BY <1>1, <1>7, <1>9
<1>. QED
  BY <1>4, <1>10

(* One bar more confirms at most one peak, the last.                       *)
LEMMA OnePeakMore ==
    ASSUME NEW h \in Seq(Int), NEW x \in Int
    PROVE  /\ AllPeaks(h) \in Seq(Int)
           /\ \/ AllPeaks(Append(h, x)) = AllPeaks(h)
              \/ \E v \in Int : AllPeaks(Append(h, x)) = Append(AllPeaks(h), v)
<1>. DEFINE g == Append(h, x)
            n == Len(h)
<1>1. n \in Nat /\ g \in Seq(Int) /\ Len(g) = n + 1 /\ \A i \in 1 .. n : g[i] = h[i]
  OBVIOUS
<1>2. PICK f : Adding(h, f) /\ AllPeaks(h) = f[n]
  BY PeaksAdd
<1>. HIDE DEF g
<1>3. PICK k : Adding(g, k) /\ AllPeaks(g) = k[Len(g)]
  BY <1>1, PeaksAdd
<1>. HIDE DEF n
<1>4. Len(h) = n
  BY DEF n
<1>5. \A i \in 1 .. n - 2 : IsPeak(g, i) <=> IsPeak(h, i)
  <2>. SUFFICES ASSUME NEW i \in 1 .. n - 2, 3 <= i PROVE IsPeak(g, i) <=> IsPeak(h, i)
    BY <1>1, <1>4 DEF IsPeak, Centres
  <2>1. Least(i + 2, Len(g)) = i + 2 /\ Least(i + 2, Len(h)) = i + 2
    BY <1>1, <1>4 DEF Least
  <2>2. i \in Centres(g) /\ i \in Centres(h)
    BY <1>1, <1>4 DEF Centres
  <2>3. \A j \in i - 2 .. i + 2 : g[j] = h[j]
    BY <1>1
  <2>4. g[i] = h[i]
    BY <1>1
  <2>. QED
    BY <2>1, <2>2, <2>3, <2>4 DEF IsPeak
<1>6. /\ \A i \in {1, 2} : ~IsPeak(h, i) /\ ~IsPeak(g, i)
      /\ \A i \in {n - 1, n} : ~IsPeak(h, i)
      /\ \A i \in {n, n + 1} : ~IsPeak(g, i)
  BY <1>1, <1>4 DEF IsPeak, Centres
<1>7. /\ f \in [0 .. n -> Seq(Int)] /\ f[0] = <<>>
      /\ \A i \in 1 .. n : f[i] = IF IsPeak(h, i) THEN Append(f[i - 1], h[i]) ELSE f[i - 1]
  BY <1>2, <1>4 DEF Adding
<1>8. /\ k \in [0 .. n + 1 -> Seq(Int)] /\ k[0] = <<>>
      /\ \A i \in 1 .. n + 1 : k[i] = IF IsPeak(g, i) THEN Append(k[i - 1], g[i]) ELSE k[i - 1]
  BY <1>1, <1>3 DEF Adding
<1>9. f[n] \in Seq(Int) /\ AllPeaks(h) = f[n] /\ AllPeaks(g) = k[n + 1]
  BY <1>1, <1>2, <1>3, <1>7
<1>10. CASE n < 2
  <2>1. n = 0 \/ n = 1
    BY <1>1, <1>10
  <2>2. f[n] = <<>>
    BY <1>6, <1>7, <2>1
  <2>3. k[1] = <<>> /\ k[n + 1] = k[1]
    BY <1>6, <1>8, <2>1
  <2>. QED
    BY <1>9, <2>2, <2>3 DEF g
<1>11. CASE n >= 2
  <2>. DEFINE S == {i \in 0 .. n - 2 : k[i] = f[i]}
  <2>1. 0 .. n - 2 \subseteq S
    <3>1. 0 \in S
      BY <1>1, <1>7, <1>8, <1>11
    <3>2. ASSUME NEW i \in 0 + 1 .. n - 2, i - 1 \in S PROVE i \in S
      <4>1. i \in 1 .. n - 2 /\ i \in 1 .. n /\ i \in 1 .. n + 1 /\ i \in 0 .. n - 2
        BY <1>1, <3>2
      <4>2. k[i - 1] = f[i - 1] /\ g[i] = h[i]
        BY <1>1, <3>2, <4>1
      <4>. QED
        BY <1>5, <1>7, <1>8, <4>1, <4>2
    <3>3. 0 \in Int /\ n - 2 \in Int
      BY <1>1
    <3>. HIDE DEF S
    <3>. QED
      BY <3>1, <3>2, <3>3, Climb
  <2>2. k[n - 2] = f[n - 2]
    BY <1>1, <1>11, <2>1
  <2>3. f[n] = f[n - 1] /\ f[n - 1] = f[n - 2]
    <3>1. n \in 1 .. n /\ n - 1 \in 1 .. n /\ (n - 1) - 1 = n - 2
      BY <1>1, <1>11
    <3>. QED
      BY <1>6, <1>7, <3>1
  <2>4. k[n + 1] = k[n] /\ k[n] = k[n - 1]
    <3>1. n \in 1 .. n + 1 /\ n + 1 \in 1 .. n + 1 /\ (n + 1) - 1 = n
      BY <1>1, <1>11
    <3>. QED
      BY <1>6, <1>8, <3>1
  <2>5. k[n - 1] = IF IsPeak(g, n - 1) THEN Append(k[n - 2], g[n - 1]) ELSE k[n - 2]
    <3>1. n - 1 \in 1 .. n + 1 /\ (n - 1) - 1 = n - 2
      BY <1>1, <1>11
    <3>. QED
      BY <1>8, <3>1
  <2>6. g[n - 1] \in Int
    <3>1. n - 1 \in 1 .. Len(g)
      BY <1>1, <1>11
    <3>. QED
      BY <1>1, <3>1
  <2>. QED
    BY <1>9, <2>2, <2>3, <2>4, <2>5, <2>6 DEF g
<1>. QED
  BY <1>1, <1>10, <1>11
(* A window that lets go of its first bar loses at most the first peak.    *)
LEMMA OnePeakLess ==
    ASSUME NEW h \in Seq(Int), h # <<>>
    PROVE  \/ AllPeaks(Tail(h)) = AllPeaks(h)
           \/ AllPeaks(h) # <<>> /\ AllPeaks(Tail(h)) = Tail(AllPeaks(h))
<1>. DEFINE g == Tail(h)
            n == Len(h)
<1>1. n \in Nat \ {0} /\ g \in Seq(Int) /\ Len(g) = n - 1 /\ \A i \in 1 .. n - 1 : g[i] = h[i + 1]
  OBVIOUS
<1>2. PICK f : Adding(h, f) /\ AllPeaks(h) = f[n]
  BY PeaksAdd
<1>. HIDE DEF g
<1>3. PICK k : Adding(g, k) /\ AllPeaks(g) = k[Len(g)]
  BY <1>1, PeaksAdd
<1>. HIDE DEF n
<1>4. Len(h) = n
  BY DEF n
<1>5. \A i \in 3 .. n - 1 : IsPeak(g, i) <=> IsPeak(h, i + 1)
  <2>. SUFFICES ASSUME NEW i \in 3 .. n - 1 PROVE IsPeak(g, i) <=> IsPeak(h, i + 1)
    OBVIOUS
  <2>0. i > n - 3 => i \notin Centres(g) /\ i + 1 \notin Centres(h)
    BY <1>1, <1>4 DEF Centres
  <2>. SUFFICES ASSUME i <= n - 3 PROVE IsPeak(g, i) <=> IsPeak(h, i + 1)
    BY <1>1, <2>0 DEF IsPeak
  <2>1. Least(i + 2, Len(g)) = i + 2 /\ Least((i + 1) + 2, Len(h)) = i + 3
    BY <1>1, <1>4 DEF Least
  <2>2. i \in Centres(g) /\ i + 1 \in Centres(h)
    BY <1>1, <1>4 DEF Centres
  <2>3. (\A j \in i - 2 .. i + 2 : g[j] <= g[i]) <=> \A j \in i - 1 .. i + 3 : h[j] <= h[i + 1]
    <3>0. i \in 1 .. n - 1 /\ \A j \in i - 2 .. i + 2 : j \in 1 .. n - 1
      BY <1>1
    <3>1. g[i] = h[i + 1] /\ \A j \in i - 2 .. i + 2 : g[j] = h[j + 1]
      BY <1>1, <3>0
    <3>2. \A j \in i - 2 .. i + 2 : j + 1 \in i - 1 .. i + 3
      BY <1>1
    <3>3. \A j \in i - 1 .. i + 3 : j - 1 \in i - 2 .. i + 2 /\ (j - 1) + 1 = j
      BY <1>1
    <3>. QED
      BY <3>1, <3>2, <3>3
  <2>. QED
    <3>1. (i + 1) - 2 = i - 1
      BY <1>1
    <3>. QED
      BY <2>1, <2>2, <2>3, <3>1 DEF IsPeak
<1>6. \A i \in {1, 2} : ~IsPeak(h, i) /\ ~IsPeak(g, i)
  BY <1>1, <1>4 DEF IsPeak, Centres
<1>7. /\ f \in [0 .. n -> Seq(Int)] /\ f[0] = <<>>
      /\ \A i \in 1 .. n : f[i] = IF IsPeak(h, i) THEN Append(f[i - 1], h[i]) ELSE f[i - 1]
  BY <1>2, <1>4 DEF Adding
<1>8. /\ k \in [0 .. n - 1 -> Seq(Int)] /\ k[0] = <<>>
      /\ \A i \in 1 .. n - 1 : k[i] = IF IsPeak(g, i) THEN Append(k[i - 1], g[i]) ELSE k[i - 1]
  BY <1>1, <1>3 DEF Adding
<1>9. AllPeaks(h) = f[n] /\ AllPeaks(g) = k[n - 1]
  BY <1>1, <1>2, <1>3
<1>10. CASE n < 3
  <2>1. n = 1 \/ n = 2
    BY <1>1, <1>10
  <2>2. f[1] = <<>> /\ f[n] = f[1]
    BY <1>6, <1>7, <2>1
  <2>3. k[n - 1] = <<>>
    BY <1>6, <1>8, <2>1
  <2>. QED
    BY <1>9, <2>2, <2>3 DEF g
<1>11. CASE n >= 3
  <2>1. /\ \A i \in {1, 2, 3} : i \in 1 .. n
        /\ \A i \in {1, 2} : i \in 1 .. n - 1
    BY <1>1, <1>11
  <2>2. f[2] = <<>> /\ k[2] = <<>>
    BY <1>6, <1>7, <1>8, <2>1
  <2>3. f[3] = IF IsPeak(h, 3) THEN Append(<<>>, h[3]) ELSE <<>>
    <3>1. 3 \in 1 .. n /\ 3 - 1 = 2
      BY <2>1
    <3>2. f[3] = IF IsPeak(h, 3) THEN Append(f[3 - 1], h[3]) ELSE f[3 - 1]
      BY <1>7, <3>1
    <3>. QED
      BY <2>2, <3>1, <3>2
  <2>4. h[3] \in Int /\ Append(<<>>, h[3]) = <<h[3]>>
    BY <1>4, <2>1
  <2>5. ASSUME NEW i \in 3 .. n - 1
        PROVE  /\ i \in 1 .. n - 1 /\ i + 1 \in 1 .. n /\ (i + 1) - 1 = i
               /\ k[i - 1] \in Seq(Int) /\ g[i] = h[i + 1] /\ h[i + 1] \in Int
    <3>1. i \in 1 .. n - 1 /\ i + 1 \in 1 .. n /\ i - 1 \in 0 .. n - 1 /\ (i + 1) - 1 = i
      BY <1>1
    <3>2. k[i - 1] \in Seq(Int) /\ g[i] = h[i + 1]
      BY <1>1, <1>8, <3>1
    <3>3. h[i + 1] \in Int
      BY <1>4, <3>1
    <3>. QED
      BY <3>1, <3>2, <3>3
  <2>6. CASE ~IsPeak(h, 3)
    <3>. DEFINE S == {i \in 2 .. n - 1 : f[i + 1] = k[i]}
    <3>1. 2 \in S
      BY <1>1, <1>11, <2>2, <2>3, <2>6
    <3>2. ASSUME NEW i \in 2 + 1 .. n - 1, i - 1 \in S PROVE i \in S
      <4>1. i \in 3 .. n - 1 /\ i \in 2 .. n - 1 /\ f[i] = k[i - 1]
        BY <1>1, <3>2
      <4>2. f[i + 1] = IF IsPeak(h, i + 1) THEN Append(f[i], h[i + 1]) ELSE f[i]
        BY <1>7, <2>5, <4>1
      <4>. QED
        BY <1>5, <1>8, <2>5, <4>1, <4>2
    <3>3. 2 .. n - 1 \subseteq S
      <4>1. 2 \in Int /\ n - 1 \in Int
        BY <1>1
      <4>. HIDE DEF S
      <4>. QED
        BY <3>1, <3>2, <4>1, Climb
    <3>4. f[n] = k[n - 1]
      BY <1>1, <1>11, <3>3
    <3>. QED
      BY <1>9, <3>4 DEF g
  <2>7. CASE IsPeak(h, 3)
    <3>. DEFINE S == {i \in 2 .. n - 1 : f[i + 1] = <<h[3]>> \o k[i]}
    <3>1. 2 \in S
      <4>1. <<h[3]>> \o <<>> = <<h[3]>>
        BY <2>4
      <4>2. 2 \in 2 .. n - 1 /\ f[2 + 1] = f[3] /\ f[3] = <<h[3]>>
        BY <1>1, <1>11, <2>3, <2>4, <2>7
      <4>. QED
        BY <2>2, <4>1, <4>2
    <3>2. ASSUME NEW i \in 2 + 1 .. n - 1, i - 1 \in S PROVE i \in S
      <4>1. i \in 3 .. n - 1 /\ i \in 2 .. n - 1 /\ f[i] = <<h[3]>> \o k[i - 1]
        <5>1. i \in 3 .. n - 1 /\ i \in 2 .. n - 1 /\ (i - 1) + 1 = i
          BY <1>1
        <5>2. f[(i - 1) + 1] = <<h[3]>> \o k[i - 1]
          BY <3>2
        <5>. QED
          BY <5>1, <5>2
      <4>2. f[i + 1] = IF IsPeak(h, i + 1) THEN Append(f[i], h[i + 1]) ELSE f[i]
        BY <1>7, <2>5, <4>1
      <4>3. k[i] = IF IsPeak(h, i + 1) THEN Append(k[i - 1], h[i + 1]) ELSE k[i - 1]
        BY <1>5, <1>8, <2>5, <4>1
      <4>4. Append(<<h[3]>> \o k[i - 1], h[i + 1]) = <<h[3]>> \o Append(k[i - 1], h[i + 1])
        <5>1. \A s \in Seq(Int), x, y \in Int :
                 Append(<<y>> \o s, x) = <<y>> \o Append(s, x)
          OBVIOUS
        <5>. QED
          BY <2>4, <2>5, <4>1, <5>1
      <4>. QED
        BY <4>1, <4>2, <4>3, <4>4
    <3>3. 2 .. n - 1 \subseteq S
      <4>1. 2 \in Int /\ n - 1 \in Int
        BY <1>1
      <4>. HIDE DEF S
      <4>. QED
        BY <3>1, <3>2, <4>1, Climb
    <3>4. f[n] = <<h[3]>> \o k[n - 1] /\ k[n - 1] \in Seq(Int)
      <4>1. n - 1 \in 2 .. n - 1 /\ (n - 1) + 1 = n /\ n - 1 \in 0 .. n - 1
        BY <1>1, <1>11
      <4>. QED
        BY <1>8, <3>3, <4>1
    <3>5. f[n] # <<>> /\ Tail(f[n]) = k[n - 1]
      <4>1. \A s \in Seq(Int), y \in Int : <<y>> \o s # <<>> /\ Tail(<<y>> \o s) = s
        OBVIOUS
      <4>. QED
        BY <2>4, <3>4, <4>1
    <3>. QED
      BY <1>9, <3>5 DEF g
  <2>. QED
    BY <2>6, <2>7
<1>. QED
  BY <1>1, <1>10, <1>11
-----------------------------------------------------------------------------
(* What the last n of a list are.                                          *)
Skipped(s, n) == Greatest(0, Len(s) - n)

LEMMA LastOfIs ==
    ASSUME NEW V, NEW s \in Seq(V), NEW n \in Nat \ {0}
    PROVE  /\ LastOf(s, n) \in Seq(V) /\ Skipped(s, n) \in 0 .. Len(s)
           /\ Len(LastOf(s, n)) = Len(s) - Skipped(s, n)
           /\ \A i \in 1 .. Len(s) - Skipped(s, n) : LastOf(s, n)[i] = s[Skipped(s, n) + i]
<1>. DEFINE k == Skipped(s, n)
            m == Greatest(1, Len(s) - n + 1)
            t == SubSeq(s, m, Len(s))
<1>1. Len(s) \in Nat /\ k \in 0 .. Len(s) /\ m = k + 1
  BY DEF Greatest, Skipped
<1>. HIDE DEF k
<1>2. m \in Int /\ Len(s) \in Int /\ \A i \in m .. Len(s) : s[i] \in V
  <2>1. \A i \in m .. Len(s) : i \in 1 .. Len(s)
    BY <1>1
  <2>. QED
    BY <1>1, <2>1
<1>. HIDE DEF m
<1>3. /\ t \in Seq(V) /\ Len(t) = IF m <= Len(s) THEN Len(s) - m + 1 ELSE 0
      /\ \A i \in 1 .. Len(s) - m + 1 : t[i] = s[m + i - 1]
  BY <1>2, SubSeqProperties
<1>. HIDE DEF t
<1>4. Len(t) = Len(s) - k
  BY <1>1, <1>3
<1>5. ASSUME NEW i \in 1 .. Len(s) - k PROVE t[i] = s[k + i]
  <2>1. i \in 1 .. Len(s) - m + 1 /\ m + i - 1 = k + i
    BY <1>1
  <2>. QED
    BY <1>3, <2>1
<1>6. LastOf(s, n) = t
  BY DEF LastOf, t, m
<1>. QED
  BY <1>1, <1>3, <1>4, <1>5, <1>6 DEF k

(* Extends, position by position: all of the old list but k at its front   *)
(* are the front of the new one, which has at most one more.               *)
SlidesBy(k, old, new) ==
    /\ k <= Len(old) /\ Len(new) - (Len(old) - k) \in {0, 1}
    /\ \A i \in 1 .. Len(old) - k : new[i] = old[k + i]

LEMMA SlidesExtends ==
    ASSUME NEW V, NEW old \in Seq(V), NEW new \in Seq(V), NEW k \in {0, 1}, SlidesBy(k, old, new)
    PROVE  Extends(old, new)
<1>. USE DEF SlidesBy
<1>. DEFINE rest == SubSeq(old, k + 1, Len(old))
            n == Len(old) - k
<1>1. Len(old) \in Nat /\ Len(new) \in Nat /\ n \in Nat /\ n <= Len(new)
  <2>1. Len(old) \in Nat /\ Len(new) \in Nat
    OBVIOUS
  <2>. QED
    BY <2>1
<1>2. k \in 0 .. Least(1, Len(old))
  BY <1>1 DEF Least
<1>3. rest \in Seq(V) /\ Len(rest) = n /\ \A i \in 1 .. n : rest[i] = old[k + i]
  <2>1. \A i \in k + 1 .. Len(old) : i \in 1 .. Len(old)
    OBVIOUS
  <2>2. /\ rest \in Seq(V) /\ Len(rest) = IF k + 1 <= Len(old) THEN Len(old) - (k + 1) + 1 ELSE 0
        /\ \A i \in 1 .. Len(old) - (k + 1) + 1 : rest[i] = old[(k + 1) + i - 1]
    <3>1. k + 1 \in Int /\ Len(old) \in Int /\ \A i \in k + 1 .. Len(old) : old[i] \in V
      BY <1>1, <2>1
    <3>. QED
      BY <3>1, SubSeqProperties
  <2>3. \A i \in 1 .. n : i \in 1 .. Len(old) - (k + 1) + 1 /\ (k + 1) + i - 1 = k + i
    BY <1>1
  <2>4. Len(rest) = n
    BY <1>1, <2>2
  <2>. HIDE DEF rest
  <2>. QED
    BY <2>2, <2>3, <2>4
<1>. HIDE DEF rest, n
<1>4. SubSeq(rest, 1, Len(rest)) = rest
  BY <1>3, SubSeqFull
<1>5. SubSeq(new, 1, Len(rest)) = rest
  <2>1. \A i \in 1 .. n : new[i] \in V
    BY <1>1
  <2>2. /\ SubSeq(new, 1, n) \in Seq(V) /\ Len(SubSeq(new, 1, n)) = n
        /\ \A i \in 1 .. n : SubSeq(new, 1, n)[i] = new[i]
    <3>1. 1 \in Int /\ n \in Int /\ n - 1 + 1 = n /\ \A i \in 1 .. n : 1 + i - 1 = i
      BY <1>1
    <3>2. /\ SubSeq(new, 1, n) \in Seq(V)
          /\ Len(SubSeq(new, 1, n)) = IF 1 <= n THEN n - 1 + 1 ELSE 0
          /\ \A i \in 1 .. n - 1 + 1 : SubSeq(new, 1, n)[i] = new[1 + i - 1]
      BY <2>1, <3>1, SubSeqProperties
    <3>3. Len(SubSeq(new, 1, n)) = n
      BY <1>1, <3>1, <3>2
    <3>4. \A i \in 1 .. n : SubSeq(new, 1, n)[i] = new[i]
      BY <3>1, <3>2
    <3>. QED
      BY <3>2, <3>3, <3>4
  <2>3. \A i \in 1 .. n : SubSeq(new, 1, n)[i] = rest[i]
    BY <1>3, <2>2 DEF n
  <2>. QED
    BY <1>3, <2>2, <2>3, SeqEqual
<1>6. IsPrefix(rest, new) /\ Len(new) <= Len(rest) + 1
  <2>1. Len(new) <= n + 1
    BY <1>1 DEF n
  <2>. QED
    BY <1>1, <1>3, <1>4, <1>5, <2>1 DEF IsPrefix
<1>. QED
  BY <1>2, <1>6 DEF Extends, rest

(* The same of any list.                                                  *)
LEMMA LastOfAll ==
    ASSUME NEW V, NEW n \in Nat \ {0}
    PROVE  \A s \in Seq(V) :
              /\ LastOf(s, n) \in Seq(V) /\ Skipped(s, n) \in 0 .. Len(s)
              /\ Len(LastOf(s, n)) = Len(s) - Skipped(s, n)
              /\ \A i \in 1 .. Len(s) - Skipped(s, n) : LastOf(s, n)[i] = s[Skipped(s, n) + i]
BY LastOfIs

(* Where a list loses at most its first and gains at most a last, so do    *)
(* its last n.                                                             *)
LEMMA LastOfSlides ==
    ASSUME NEW V, NEW s \in Seq(V), NEW t \in Seq(V), NEW n \in Nat \ {0},
           NEW d \in {0, 1}, NEW e \in {0, 1}, d <= Len(s), Len(t) = Len(s) + e - d,
           \A i \in 1 .. Len(s) - d : t[i] = s[i + d]
    PROVE  \E k \in {0, 1} : SlidesBy(k, LastOf(s, n), LastOf(t, n))
<1>. DEFINE p == Skipped(s, n)
            q == Skipped(t, n)
            k == q + d - p
            old == LastOf(s, n)
            new == LastOf(t, n)
<1>1. Len(s) \in Nat /\ Len(t) \in Nat
  OBVIOUS
<1>2. p \in 0 .. Len(s) /\ q \in 0 .. Len(t) /\ k \in {0, 1} /\ k <= Len(s) - p
      /\ (Len(t) - q) - (Len(s) - p - k) = e
  BY <1>1 DEF Greatest, Skipped
<1>3. /\ old \in Seq(V) /\ Len(old) = Len(s) - p
      /\ \A i \in 1 .. Len(s) - p : old[i] = s[p + i]
  BY LastOfIs
<1>4. /\ new \in Seq(V) /\ Len(new) = Len(t) - q
      /\ \A i \in 1 .. Len(t) - q : new[i] = t[q + i]
  <2>. HIDE DEF p, q
  <2>1. t \in Seq(V) /\ n \in Nat \ {0}
    OBVIOUS
  <2>. QED
    BY <2>1, LastOfAll, Zenon DEF q
<1>. HIDE DEF p, q, old, new
<1>5. ASSUME NEW i \in 1 .. Len(old) - k PROVE new[i] = old[k + i]
  <2>1. i \in 1 .. Len(t) - q /\ k + i \in 1 .. Len(s) - p /\ p + (k + i) = (q + i) + d
        /\ q + i \in 1 .. Len(s) - d
    BY <1>1, <1>2, <1>3
  <2>2. new[i] = t[q + i] /\ old[k + i] = s[p + (k + i)] /\ t[q + i] = s[(q + i) + d]
    BY <1>3, <1>4, <2>1
  <2>. QED
    BY <2>1, <2>2
<1>. HIDE DEF k
<1>6. k <= Len(old) /\ Len(new) - (Len(old) - k) \in {0, 1}
  BY <1>1, <1>2, <1>3, <1>4
<1>. QED
  BY <1>2, <1>5, <1>6 DEF SlidesBy, old, new
-----------------------------------------------------------------------------
(* The peaks of a window that slides on by a bar.                          *)
LEMMA PeaksSlide ==
    ASSUME NEW h \in Seq(Int), NEW x \in Int, NEW g \in {Append(h, x), Tail(Append(h, x))}
    PROVE  /\ Peaks(h) \in Seq(Int) /\ Peaks(g) \in Seq(Int)
           /\ \E k \in {0, 1} : SlidesBy(k, Peaks(h), Peaks(g))
<1>. DEFINE old == AllPeaks(h)
            all == AllPeaks(Append(h, x))
            new == AllPeaks(g)
<1>1. Append(h, x) \in Seq(Int) /\ Append(h, x) # <<>> /\ g \in Seq(Int)
  <2>1. Append(h, x) \in Seq(Int) /\ Append(h, x) # <<>>
    OBVIOUS
  <2>2. Tail(Append(h, x)) \in Seq(Int)
    BY <2>1, HeadTailProperties
  <2>. QED
    BY <2>1, <2>2
<1>2. old \in Seq(Int) /\ (all = old \/ \E v \in Int : all = Append(old, v))
  BY OnePeakMore
<1>3. new = all \/ (all # <<>> /\ new = Tail(all))
  BY <1>1, OnePeakLess
<1>4. new \in Seq(Int)
  BY <1>1, OnePeakMore
<1>5. Kept \in Nat \ {0}
  BY FeatureAssumption
<1>. HIDE DEF old, all, new
<1>6. \E d, e \in {0, 1} :
         /\ d <= Len(old) /\ Len(new) = Len(old) + e - d
         /\ \A i \in 1 .. Len(old) - d : new[i] = old[i + d]
  <2>1. CASE new = old
    BY <1>2, <2>1
  <2>2. CASE \E v \in Int : new = Append(old, v)
    <3>1. Len(new) = Len(old) + 1 - 0 /\ \A i \in 1 .. Len(old) - 0 : new[i] = old[i + 0]
      BY <1>2, <2>2
    <3>. QED
      BY <1>2, <3>1
  <2>3. CASE old # <<>> /\ new = Tail(old)
    <3>1. 1 <= Len(old) /\ Len(new) = Len(old) + 0 - 1
          /\ \A i \in 1 .. Len(old) - 1 : new[i] = old[i + 1]
      BY <1>2, <2>3
    <3>. QED
      BY <3>1
  <2>4. CASE old # <<>> /\ \E v \in Int : new = Tail(Append(old, v))
    <3>0. PICK v \in Int : new = Tail(Append(old, v))
      BY <2>4
    <3>1. 1 <= Len(old) /\ Len(new) = Len(old) + 1 - 1
          /\ \A i \in 1 .. Len(old) - 1 : new[i] = old[i + 1]
      <4>1. /\ Append(old, v) \in Seq(Int) /\ Append(old, v) # <<>>
            /\ Len(Append(old, v)) = Len(old) + 1
            /\ \A i \in 1 .. Len(old) : Append(old, v)[i] = old[i]
        BY <1>2
      <4>2. Len(new) = Len(old) /\ \A i \in 1 .. Len(old) : new[i] = Append(old, v)[i + 1]
        BY <3>0, <4>1, HeadTailProperties
      <4>3. Len(old) \in Nat /\ 1 <= Len(old)
        BY <1>2, <2>4
      <4>. QED
        BY <4>1, <4>2, <4>3
    <3>. QED
      BY <3>1
  <2>5. old = <<>> => \A v \in Int : Tail(Append(old, v)) = old
    OBVIOUS
  <2>. QED
    BY <1>2, <1>3, <2>1, <2>2, <2>3, <2>4, <2>5
<1>7. \E k \in {0, 1} : SlidesBy(k, LastOf(old, Kept), LastOf(new, Kept))
  <2>1. PICK d, e \in {0, 1} :
           /\ d <= Len(old) /\ Len(new) = Len(old) + e - d
           /\ \A i \in 1 .. Len(old) - d : new[i] = old[i + d]
    BY <1>6
  <2>. QED
    BY <1>2, <1>4, <1>5, <2>1, LastOfSlides
<1>8. LastOf(old, Kept) \in Seq(Int) /\ LastOf(new, Kept) \in Seq(Int)
  BY <1>2, <1>4, <1>5, LastOfAll
<1>. QED
  BY <1>7, <1>8 DEF Peaks, old, new

(* What a bar has of a swing, high or low, slides with the bars.           *)
LEMMA EachSlides ==
    ASSUME NEW b \in Seq(CandleSet(Int)), NEW c \in CandleSet(Int),
           NEW a \in {Append(b, c), Tail(Append(b, c))}
    PROVE  /\ Extends(SwingHighs(b), SwingHighs(a))
           /\ Extends(SwingLows(b), SwingLows(a))
<1>1. ASSUME NEW F \in [CandleSet(Int) -> Int]
      PROVE  LET h == [i \in DOMAIN b |-> F[b[i]]]
                 g == [i \in DOMAIN a |-> F[a[i]]]
             IN h \in Seq(Int) /\ g \in {Append(h, F[c]), Tail(Append(h, F[c]))}
  <2>. DEFINE h == [i \in DOMAIN b |-> F[b[i]]]
              w == Append(b, c)
              v == [i \in DOMAIN w |-> F[w[i]]]
              t == [i \in DOMAIN Tail(w) |-> F[Tail(w)[i]]]
  <2>1. Len(b) \in Nat /\ DOMAIN b = 1 .. Len(b) /\ \A i \in 1 .. Len(b) : b[i] \in CandleSet(Int)
    OBVIOUS
  <2>2. h \in Seq(Int) /\ Len(h) = Len(b) /\ \A i \in 1 .. Len(b) : h[i] = F[b[i]]
    BY <2>1
  <2>3. /\ w \in Seq(CandleSet(Int)) /\ w # <<>> /\ Len(w) = Len(b) + 1 /\ DOMAIN w = 1 .. Len(b) + 1
        /\ w[Len(b) + 1] = c /\ \A i \in 1 .. Len(b) : w[i] = b[i]
    OBVIOUS
  <2>4. /\ Tail(w) \in Seq(CandleSet(Int)) /\ DOMAIN Tail(w) = 1 .. Len(b)
        /\ \A i \in 1 .. Len(b) : Tail(w)[i] = w[i + 1]
    <3>. HIDE DEF w
    <3>. QED
      BY <2>1, <2>3
  <2>. HIDE DEF w, h
  <2>5. /\ v \in Seq(Int) /\ Len(v) = Len(b) + 1
        /\ \A i \in 1 .. Len(b) + 1 : v[i] = F[w[i]]
    <3>1. \A i \in 1 .. Len(b) + 1 : w[i] \in CandleSet(Int)
      BY <2>1, <2>3
    <3>. QED
      BY <2>1, <2>3, <3>1
  <2>. HIDE DEF v
  <2>6. /\ Append(h, F[c]) \in Seq(Int) /\ Append(h, F[c]) # <<>>
        /\ Len(Append(h, F[c])) = Len(b) + 1
        /\ Append(h, F[c])[Len(b) + 1] = F[c] /\ \A i \in 1 .. Len(b) : Append(h, F[c])[i] = h[i]
    BY <2>1, <2>2
  <2>7. v = Append(h, F[c])
    <3>1. \A i \in 1 .. Len(b) + 1 : i \in 1 .. Len(b) \/ i = Len(b) + 1
      BY <2>1
    <3>2. \A i \in 1 .. Len(b) + 1 : v[i] = Append(h, F[c])[i]
      BY <2>1, <2>2, <2>3, <2>5, <2>6, <3>1
    <3>. QED
      BY <2>5, <2>6, <3>2, SeqEqual
  <2>8. t = Tail(v)
    <3>1. /\ Tail(v) \in Seq(Int) /\ Len(Tail(v)) = Len(b)
          /\ \A i \in 1 .. Len(b) : Tail(v)[i] = v[i + 1]
      BY <2>1, <2>5, <2>6, <2>7
    <3>2. \A i \in 1 .. Len(b) : i + 1 \in 1 .. Len(b) + 1 /\ Tail(w)[i] \in CandleSet(Int)
      BY <2>1, <2>4
    <3>3. t \in Seq(Int) /\ Len(t) = Len(b) /\ \A i \in 1 .. Len(b) : t[i] = F[Tail(w)[i]]
      BY <2>1, <2>4, <3>2
    <3>. HIDE DEF t
    <3>4. \A i \in 1 .. Len(b) : t[i] = Tail(v)[i]
      <4>. SUFFICES ASSUME NEW i \in 1 .. Len(b) PROVE t[i] = Tail(v)[i]
        OBVIOUS
      <4>1. t[i] = F[w[i + 1]]
        BY <2>4, <3>3
      <4>2. Tail(v)[i] = F[w[i + 1]]
        BY <2>5, <3>1, <3>2
      <4>. QED
        BY <4>1, <4>2
    <3>. QED
      BY <3>1, <3>3, <3>4, SeqEqual
  <2>9. a \in {w, Tail(w)}
    BY DEF w
  <2>10. [i \in DOMAIN a |-> F[a[i]]] \in {v, t}
    BY <2>9 DEF v
  <2>. QED
    BY <2>2, <2>7, <2>8, <2>10 DEF h
<1>. DEFINE High == [c1 \in CandleSet(Int) |-> c1.high]
            Low == [c1 \in CandleSet(Int) |-> -c1.low]
<1>2. High \in [CandleSet(Int) -> Int] /\ Low \in [CandleSet(Int) -> Int]
  BY DEF CandleSet
<1>3. a \in Seq(CandleSet(Int))
  OBVIOUS
<1>4. /\ Each(b, LAMBDA c1 : c1.high) = [i \in DOMAIN b |-> High[b[i]]]
      /\ Each(a, LAMBDA c1 : c1.high) = [i \in DOMAIN a |-> High[a[i]]]
      /\ Each(b, LAMBDA c1 : -c1.low) = [i \in DOMAIN b |-> Low[b[i]]]
      /\ Each(a, LAMBDA c1 : -c1.low) = [i \in DOMAIN a |-> Low[a[i]]]
  <2>1. (\A i \in DOMAIN b : b[i] \in CandleSet(Int)) /\ \A i \in DOMAIN a : a[i] \in CandleSet(Int)
    BY <1>3
  <2>. QED
    BY <2>1 DEF Each
<1>. DEFINE p == Peaks([i \in DOMAIN b |-> High[b[i]]])
            q == Peaks([i \in DOMAIN a |-> High[a[i]]])
            r == Peaks([i \in DOMAIN b |-> Low[b[i]]])
            s == Peaks([i \in DOMAIN a |-> Low[a[i]]])
<1>5. p \in Seq(Int) /\ q \in Seq(Int) /\ \E k \in {0, 1} : SlidesBy(k, p, q)
  <2>1. High[c] \in Int
    BY <1>2
  <2>. HIDE DEF High
  <2>. QED
    BY <1>1, <1>2, <2>1, PeaksSlide
<1>6. r \in Seq(Int) /\ s \in Seq(Int) /\ \E k \in {0, 1} : SlidesBy(k, r, s)
  <2>1. Low[c] \in Int
    BY <1>2
  <2>. HIDE DEF Low
  <2>. QED
    BY <1>1, <1>2, <2>1, PeaksSlide
<1>. HIDE DEF High, Low, p, q, r, s
<1>7. SwingHighs(b) = p /\ SwingHighs(a) = q
  BY <1>4 DEF SwingHighs, p, q
<1>8. SwingLows(b) = [i \in DOMAIN r |-> -r[i]] /\ SwingLows(a) = [i \in DOMAIN s |-> -s[i]]
  BY <1>4 DEF SwingLows, Each, r, s
<1>9. ASSUME NEW x \in Seq(Int)
      PROVE  LET y == [i \in DOMAIN x |-> -x[i]] IN
             y \in Seq(Int) /\ Len(y) = Len(x) /\ \A i \in 1 .. Len(x) : y[i] = -x[i]
  <2>1. Len(x) \in Nat /\ DOMAIN x = 1 .. Len(x) /\ \A i \in 1 .. Len(x) : x[i] \in Int
    OBVIOUS
  <2>2. \A i \in 1 .. Len(x) : -x[i] \in Int
    BY <2>1
  <2>. DEFINE y == [i \in DOMAIN x |-> -x[i]]
  <2>3. y \in [1 .. Len(x) -> Int] /\ \A i \in 1 .. Len(x) : y[i] = -x[i]
    BY <2>1, <2>2
  <2>. HIDE DEF y
  <2>4. y \in Seq(Int) /\ Len(y) = Len(x)
    BY <2>1, <2>3
  <2>. QED
    BY <2>3, <2>4 DEF y
<1>10. Extends(SwingLows(b), SwingLows(a))
  <2>1. /\ SwingLows(b) \in Seq(Int) /\ Len(SwingLows(b)) = Len(r)
        /\ \A i \in 1 .. Len(r) : SwingLows(b)[i] = -r[i]
    BY <1>6, <1>8, <1>9
  <2>2. /\ SwingLows(a) \in Seq(Int) /\ Len(SwingLows(a)) = Len(s)
        /\ \A i \in 1 .. Len(s) : SwingLows(a)[i] = -s[i]
    BY <1>6, <1>8, <1>9
  <2>3. PICK k \in {0, 1} : SlidesBy(k, r, s)
    BY <1>6
  <2>4. \A i \in 1 .. Len(r) - k : i \in 1 .. Len(s) /\ k + i \in 1 .. Len(r) /\ s[i] = r[k + i]
    <3>1. Len(r) \in Nat /\ Len(s) \in Nat
      BY <1>6
    <3>. QED
      BY <2>3, <3>1 DEF SlidesBy
  <2>5. SlidesBy(k, SwingLows(b), SwingLows(a))
    BY <2>1, <2>2, <2>3, <2>4 DEF SlidesBy
  <2>. QED
    BY <2>1, <2>2, <2>5, SlidesExtends
<1>. QED
  BY <1>5, <1>7, <1>10, SlidesExtends

-----------------------------------------------------------------------------
(* The clock reads the hours of a day; the window holds bars of the feed.  *)
ClockInv == hour \in 0 .. 23
BarsInv == bars \in Seq(Candles) /\ Len(bars) <= Limit

LEMMA ClockNext == ClockInv /\ [Next]_vars => ClockInv'
<1>. SUFFICES ASSUME ClockInv, [Next]_vars PROVE ClockInv'
  OBVIOUS
<1>1. hour \in Nat /\ ClockStep \in Nat
  BY FeedAssumption DEF ClockInv
<1>2. NextHour \in 0 .. 23
  BY <1>1 DEF NextHour
<1>. QED
  BY <1>2 DEF Next, Hours, BarCompletes, vars, ClockInv

LEMMA BarsNext == BarsInv /\ [Next]_vars => BarsInv'
<1>. SUFFICES ASSUME BarsInv, [Next]_vars PROVE BarsInv'
  OBVIOUS
<1>1. CASE BarCompletes
  <2>1. PICK c \in Candles : bars' = LastOf(Append(bars, c), Limit)
    BY <1>1 DEF BarCompletes
  <2>2. Append(bars, c) \in Seq(Candles) /\ Limit \in Nat \ {0}
    BY FeedAssumption DEF BarsInv
  <2>. QED
    BY <2>1, <2>2, LastOfSeq DEF BarsInv
<1>2. CASE UNCHANGED bars
  BY <1>2 DEF BarsInv
<1>. QED
  BY <1>1, <1>2 DEF Next, Hours, vars

LEMMA FeedHolds == Spec => [](ClockInv /\ BarsInv)
<1>1. Init => ClockInv /\ BarsInv
  BY FeedAssumption DEF Init, ClockInv, BarsInv
<1>. QED
  BY <1>1, ClockNext, BarsNext, PTL DEF Spec

(* Every feature is in its range, whatever the history and the prices.     *)
THEOREM FeaturesTyped == Spec => []TypeOK
<1>1. ClockInv /\ BarsInv => TypeOK
  <2>. SUFFICES ASSUME BarsInv PROVE Regime \in RegimeFeatureSet(0 .. 100)
    BY DEF TypeOK, ClockInv, BarsInv
  <2>1. bars \in Seq(CandleSet(Int))
    BY FeedAssumption DEF BarsInv
  <2>2. Strength(bars) \in 0 .. 100
    BY <2>1, StrengthPercent
  <2>3. Trend(bars) \in {"bullish", "bearish", "neutral"}
    BY DEF Trend
  <2>4. Volatility(bars) \in {"compressed", "expanding", "normal"}
    BY DEF Volatility
  <2>5. "LIVE" \in DataStatuses
    BY DEF DataStatuses
  <2>. QED
    BY <2>2, <2>3, <2>4, <2>5 DEF Regime, RegimeFeatures, RegimeFeatureSet
<1>. QED
  BY <1>1, FeedHolds, PTL

(* A moving average is neither below nor above all the closes it averages. *)
THEOREM AveragesHold == Spec => []AveragesAmongCloses
<1>1. BarsInv => AveragesAmongCloses
  <2>. SUFFICES ASSUME BarsInv, Len(bars) >= Slow, NEW n \in {Fast, Slow}
                PROVE  /\ \E i \in DOMAIN bars : ~Below(Ema(Closes(bars), n), Whole(bars[i].close))
                       /\ \E i \in DOMAIN bars : ~Below(Whole(bars[i].close), Ema(Closes(bars), n))
    BY DEF AveragesAmongCloses
  <2>. DEFINE s == Closes(bars)
  <2>1. /\ Len(bars) \in Nat /\ DOMAIN bars = 1 .. Len(bars)
        /\ \A i \in 1 .. Len(bars) : bars[i].close \in Int
    BY FeedAssumption DEF BarsInv, CandleSet
  <2>2. s \in Seq(Int) /\ Len(s) = Len(bars) /\ \A i \in 1 .. Len(bars) : s[i] = bars[i].close
    BY <2>1 DEF Closes
  <2>3. n \in 1 .. Len(s)
    BY <2>1, <2>2, FeatureAssumption
  <2>. HIDE DEF s
  <2>4. /\ \E i \in 1 .. Len(s) : ~Below(Ema(s, n), Whole(s[i]))
        /\ \E i \in 1 .. Len(s) : ~Below(Whole(s[i]), Ema(s, n))
    BY <2>2, <2>3, EmaAmong
  <2>. QED
    BY <2>1, <2>2, <2>4 DEF s
<1>. QED
  BY <1>1, FeedHolds, PTL

(* The window slides by one bar, or grows by it.                           *)
LEMMA WindowSlides ==
    ASSUME BarsInv, NEW c \in Candles
    PROVE  LastOf(Append(bars, c), Limit) \in {Append(bars, c), Tail(Append(bars, c))}
<1>. DEFINE w == Append(bars, c)
            k == Skipped(w, Limit)
<1>1. /\ Len(bars) \in Nat /\ w \in Seq(Candles) /\ w # <<>>
      /\ Len(w) = Len(bars) + 1 /\ Len(bars) <= Limit /\ Limit \in Nat \ {0}
  BY FeedAssumption DEF BarsInv
<1>. HIDE DEF w
<1>2. k \in {0, 1}
  BY <1>1 DEF Skipped, Greatest
<1>3. /\ LastOf(w, Limit) \in Seq(Candles) /\ Len(LastOf(w, Limit)) = Len(w) - k
      /\ \A i \in 1 .. Len(w) - k : LastOf(w, Limit)[i] = w[k + i]
  BY <1>1, LastOfAll
<1>. HIDE DEF k
<1>4. CASE k = 0
  <2>1. Len(LastOf(w, Limit)) = Len(w) /\ \A i \in 1 .. Len(w) : LastOf(w, Limit)[i] = w[i]
    BY <1>1, <1>3, <1>4
  <2>2. LastOf(w, Limit) = w
    BY <1>1, <1>3, <2>1, SeqEqual
  <2>. QED
    BY <2>2 DEF w
<1>5. CASE k = 1
  <2>1. /\ Tail(w) \in Seq(Candles) /\ Len(Tail(w)) = Len(w) - 1
        /\ \A i \in 1 .. Len(w) - 1 : Tail(w)[i] = w[i + 1]
    BY <1>1, HeadTailProperties
  <2>2. \A i \in 1 .. Len(w) - 1 : LastOf(w, Limit)[i] = Tail(w)[i]
    BY <1>1, <1>3, <1>5, <2>1
  <2>3. LastOf(w, Limit) = Tail(w)
    BY <1>3, <1>5, <2>1, <2>2, SeqEqual
  <2>. QED
    BY <2>3 DEF w
<1>. QED
  BY <1>2, <1>4, <1>5

(* Swing structure never repaints, for any periods, histories and prices:  *)
(* a bar confirms at most one swing and the window lets go of the oldest   *)
(* at most.                                                                *)
THEOREM SwingsNeverRepaint == Spec => SwingsStand
<1>1. BarsInv /\ [Next]_vars =>
         [Extends(SwingLows(bars), SwingLows(bars')) /\ Extends(SwingHighs(bars), SwingHighs(bars'))]_bars
  <2>. SUFFICES ASSUME BarsInv, [Next]_vars, bars' # bars
                PROVE  /\ Extends(SwingLows(bars), SwingLows(bars'))
                       /\ Extends(SwingHighs(bars), SwingHighs(bars'))
    OBVIOUS
  <2>1. PICK c \in Candles : bars' = LastOf(Append(bars, c), Limit)
    BY DEF Next, Hours, BarCompletes, vars
  <2>2. bars' \in {Append(bars, c), Tail(Append(bars, c))}
    BY <2>1, WindowSlides
  <2>3. bars \in Seq(CandleSet(Int)) /\ c \in CandleSet(Int)
    BY FeedAssumption DEF BarsInv
  <2>. QED
    BY <2>2, <2>3, EachSlides
<1>. QED
  BY <1>1, FeedHolds, PTL DEF Spec, SwingsStand

=============================================================================
