-------------------------- MODULE ControlLoopProofs --------------------------
(***************************************************************************)
(* Proofs about ControlLoop: only labels train, the report of a fit is     *)
(* held out, the fitted threshold is the cheapest of its grid, a replay    *)
(* is explained by the cases it lists, and the fit and the replay agree on *)
(* the cheapest threshold, for any events, costs, grid and limits, any     *)
(* calibrator and any shuffle.                                             *)
(*                                                                         *)
(* First the sums and masks that the code computes with, then what a       *)
(* threshold costs, what a fit sees of the events, and the steps.          *)
(***************************************************************************)
EXTENDS ControlLoop, FiniteSetTheorems, TLAPS

\* Any set of natural numbers that is not empty has a least one.
LEMMA LeastNumber ==
  ASSUME NEW T, T \subseteq Nat, T # {}
  PROVE  \E n \in T : \A m \in T : n <= m
<1> DEFINE Less == OpToRel(<, Nat)
<1>1. IsWellFoundedOn(Less, Nat)
  BY NatLessThanWellFounded
<1>2. PICK n \in T : \A m \in T : ~ (<<m, n>> \in Less)
  <2> HIDE DEF Less
  <2> QED
    BY <1>1, WFMin
<1>3. \A m \in T : ~ (m < n)
  BY <1>2 DEF OpToRel
<1> QED
  BY <1>3

\* Induction up to a bound, over a set of numbers.
LEMMA UpTo ==
  ASSUME NEW N \in Nat, NEW good, 0 \in good, \A k \in 1 .. N : k - 1 \in good => k \in good
  PROVE  \A k \in 0 .. N : k \in good
<1> DEFINE bad == {k \in 0 .. N : k \notin good}
<1> SUFFICES ASSUME bad # {} PROVE FALSE
  OBVIOUS
<1>1. bad \subseteq Nat
  OBVIOUS
<1>2. PICK n \in bad : \A m \in bad : n <= m
  <2> HIDE DEF bad
  <2> QED
    BY <1>1, LeastNumber
<1>3. n \in 1 .. N /\ n - 1 \in 0 .. N
  BY <1>2
<1>4. n - 1 \notin bad
  BY <1>2, <1>3
<1>5. n - 1 \in good
  BY <1>3, <1>4
<1> QED
  BY <1>2, <1>3, <1>5

\* f is computed step by step, from `base`, up to n.
Computes(f, base, step, n) == f[0] = base /\ \A k \in 1 .. n : f[k] = step[k][f[k - 1]]

\* What is computed step by step exists.
LEMMA Recursion ==
  ASSUME NEW V, NEW base \in V, NEW N \in Nat, NEW step \in [1 .. N -> [V -> V]]
  PROVE  \E f \in [0 .. N -> V] : Computes(f, base, step, N)
<1> DEFINE good == {n \in 0 .. N : \E f \in [0 .. N -> V] : Computes(f, base, step, n)}
<1>1. 0 \in good
  <2> DEFINE f == [k \in 0 .. N |-> base]
  <2>1. f \in [0 .. N -> V] /\ f[0] = base
    OBVIOUS
  <2> HIDE DEF f
  <2> QED
    BY <2>1 DEF Computes
<1>2. ASSUME NEW n \in 1 .. N, n - 1 \in good
      PROVE  n \in good
  <2>1. PICK f \in [0 .. N -> V] : Computes(f, base, step, n - 1)
    BY <1>2
  <2> DEFINE g == [f EXCEPT ![n] = step[n][f[n - 1]]]
  <2>2. step[n] \in [V -> V] /\ f[n - 1] \in V
    OBVIOUS
  <2>3. step[n][f[n - 1]] \in V
    BY <2>2
  <2>4. g \in [0 .. N -> V] /\ g[n] = step[n][f[n - 1]] /\ \A k \in 0 .. N : k # n => g[k] = f[k]
    BY <2>3
  <2> HIDE DEF g
  <2>5. ASSUME NEW k \in 1 .. n
        PROVE  g[k] = step[k][g[k - 1]]
    <3>1. k - 1 \in 0 .. N /\ k - 1 # n
      OBVIOUS
    <3>2. g[k - 1] = f[k - 1]
      BY <2>4, <3>1
    <3>3. CASE k = n
      BY <2>4, <3>2, <3>3
    <3>4. CASE k # n
      <4>1. k <= n - 1 /\ k \in 0 .. N
        BY <3>4
      <4>2. f[k] = step[k][f[k - 1]]
        BY <2>1, <4>1 DEF Computes
      <4> QED
        BY <2>4, <3>2, <3>4, <4>1, <4>2
    <3> QED
      BY <3>3, <3>4
  <2>6. g[0] = base
    BY <2>1, <2>4 DEF Computes
  <2> QED
    BY <2>4, <2>5, <2>6 DEF Computes
<1>3. \A n \in 0 .. N : n \in good
  <2> HIDE DEF good
  <2> QED
    BY <1>1, <1>2, UpTo
<1> QED
  BY <1>3

------------------------------------------------------------------------------
\* The sums exist, and are the ones Sums defines.
LEMMA SumsAre ==
  ASSUME NEW s \in Seq(Int)
  PROVE  /\ Sums(s) \in [0 .. Len(s) -> Int] /\ Sums(s)[0] = 0
         /\ \A k \in 1 .. Len(s) : Sums(s)[k] = Sums(s)[k - 1] + s[k]
<1> DEFINE N == Len(s)
           step == [k \in 1 .. N |-> [v \in Int |-> v + s[k]]]
<1>1. N \in Nat /\ \A k \in 1 .. N : s[k] \in Int
  OBVIOUS
<1>2. step \in [1 .. N -> [Int -> Int]]
  BY <1>1
<1>3. PICK f \in [0 .. N -> Int] : Computes(f, 0, step, N)
  <2>1. 0 \in Int /\ N \in Nat
    BY <1>1
  <2> HIDE DEF step, N
  <2> QED
    BY <1>2, <2>1, Recursion
<1>4. \A k \in 1 .. N : f[k] = f[k - 1] + s[k]
  <2> TAKE k \in 1 .. N
  <2>1. f[k - 1] \in Int /\ step[k] = [v \in Int |-> v + s[k]]
    BY <1>1
  <2> QED
    BY <1>3, <2>1 DEF Computes
<1>5. f = [k \in 0 .. N |-> IF k = 0 THEN 0 ELSE f[k - 1] + s[k]]
  BY <1>1, <1>3, <1>4 DEF Computes
<1>6. Sums(s) = CHOOSE g : g = [k \in 0 .. N |-> IF k = 0 THEN 0 ELSE g[k - 1] + s[k]]
  BY DEF Sums
<1> DEFINE sums == Sums(s)
           sum(k) == IF k = 0 THEN 0 ELSE sums[k - 1] + s[k]
<1>7. sums = [k \in 0 .. N |-> sum(k)]
  BY <1>5, <1>6
<1> HIDE DEF step, sums
<1>8. sums[0] = 0 /\ \A k \in 1 .. N : sums[k] = sums[k - 1] + s[k]
  <2>1. sums[0] = sum(0)
    BY <1>1, <1>7
  <2>2. \A k \in 1 .. N : sums[k] = sum(k) /\ k # 0
    BY <1>1, <1>7
  <2> QED
    BY <2>1, <2>2
<1> DEFINE good == {k \in 0 .. N : sums[k] = f[k]}
<1> HIDE DEF sum
<1>9. \A k \in 0 .. N : k \in good
  <2>1. 0 \in good
    BY <1>1, <1>3, <1>8 DEF Computes
  <2>2. \A k \in 1 .. N : k - 1 \in good => k \in good
    BY <1>1, <1>4, <1>8
  <2> HIDE DEF good, N
  <2> QED
    BY <1>1, <2>1, <2>2, UpTo
<1>10. sums = f
  BY <1>7, <1>9
<1> QED
  BY <1>8, <1>10 DEF sums

\* Sums by another name: what begins with 0 and adds the next number.
LEMMA SumsAreUnique ==
  ASSUME NEW s \in Seq(Int), NEW f, f[0] = 0, \A k \in 1 .. Len(s) : f[k] = f[k - 1] + s[k]
  PROVE  \A k \in 0 .. Len(s) : Sums(s)[k] = f[k]
<1> DEFINE N == Len(s)
           sums == Sums(s)
           good == {k \in 0 .. N : sums[k] = f[k]}
<1>1. N \in Nat
  OBVIOUS
<1>2. sums[0] = 0 /\ \A k \in 1 .. N : sums[k] = sums[k - 1] + s[k]
  BY SumsAre
<1> HIDE DEF sums
<1>3. 0 \in good
  BY <1>1, <1>2
<1>4. \A k \in 1 .. N : k - 1 \in good => k \in good
  BY <1>1, <1>2
<1>5. \A k \in 0 .. N : k \in good
  <2> HIDE DEF good, N
  <2> QED
    BY <1>1, <1>3, <1>4, UpTo
<1> QED
  BY <1>5 DEF sums

LEMMA TotalOfNothing == Total(<< >>) = 0
<1>1. << >> \in Seq(Int) /\ Len(<< >>) = 0
  OBVIOUS
<1>2. Sums(<< >>)[0] = 0
  BY <1>1, SumsAre
<1> QED
  BY <1>1, <1>2 DEF Total

LEMMA TotalOfAppend ==
  ASSUME NEW s \in Seq(Int), NEW x \in Int
  PROVE  Total(Append(s, x)) = Total(s) + x /\ Total(s) \in Int
<1> DEFINE t == Append(s, x)
           f == Sums(t)
<1>1. t \in Seq(Int) /\ Len(s) \in Nat /\ Len(t) = Len(s) + 1 /\ t[Len(s) + 1] = x
      /\ \A k \in 1 .. Len(s) : t[k] = s[k]
  OBVIOUS
<1> HIDE DEF t
<1>2. f[0] = 0 /\ \A k \in 1 .. Len(s) + 1 : f[k] = f[k - 1] + t[k]
  BY <1>1, SumsAre
<1> HIDE DEF f
<1>3. \A k \in 1 .. Len(s) : f[k] = f[k - 1] + s[k]
  BY <1>1, <1>2
<1>4. \A k \in 0 .. Len(s) : Sums(s)[k] = f[k]
  BY <1>2, <1>3, SumsAreUnique
<1>5. f[Len(s) + 1] = f[Len(s)] + x
  <2>1. Len(s) + 1 \in 1 .. Len(s) + 1 /\ Len(s) + 1 - 1 = Len(s)
    BY <1>1
  <2> QED
    BY <1>1, <1>2, <2>1
<1>6. Sums(s)[Len(s)] = f[Len(s)] /\ Sums(s)[Len(s)] \in Int
  <2>1. Len(s) \in 0 .. Len(s)
    BY <1>1
  <2>2. Sums(s) \in [0 .. Len(s) -> Int]
    BY SumsAre
  <2> QED
    BY <1>4, <2>1, <2>2
<1>7. Total(s) = Sums(s)[Len(s)] /\ Total(t) = f[Len(s) + 1]
  BY <1>1 DEF Total, f
<1> QED
  BY <1>5, <1>6, <1>7 DEF t

LEMMA TotalIsNat ==
  ASSUME NEW s \in Seq(Nat)
  PROVE  Total(s) \in Nat
<1> DEFINE N == Len(s)
           sums == Sums(s)
           good == {k \in 0 .. N : sums[k] \in Nat}
<1>1. N \in Nat /\ s \in Seq(Int) /\ \A k \in 1 .. N : s[k] \in Nat
  OBVIOUS
<1>2. sums[0] = 0 /\ \A k \in 1 .. N : sums[k] = sums[k - 1] + s[k]
  BY <1>1, SumsAre
<1> HIDE DEF sums
<1>3. 0 \in good
  BY <1>1, <1>2
<1>4. \A k \in 1 .. N : k - 1 \in good => k \in good
  BY <1>1, <1>2
<1>5. N \in good
  <2>1. N \in 0 .. N
    BY <1>1
  <2> HIDE DEF good, N
  <2>2. \A k \in 0 .. N : k \in good
    BY <1>1, <1>3, <1>4, UpTo
  <2> QED
    BY <2>1, <2>2
<1> QED
  BY <1>5 DEF Total, sums

\* Sums are linear.
LEMMA TotalIsLinear ==
  ASSUME NEW s \in Seq(Int), NEW t \in Seq(Int), NEW u \in Seq(Int), NEW c \in Int,
         Len(t) = Len(s), Len(u) = Len(s), \A i \in 1 .. Len(s) : u[i] = s[i] + c * t[i]
  PROVE  Total(u) = Total(s) + c * Total(t) /\ Total(s) \in Int /\ Total(t) \in Int
<1> DEFINE N == Len(s)
           a == Sums(s)
           b == Sums(t)
           f == [k \in 0 .. N |-> a[k] + c * b[k]]
<1>1. N \in Nat /\ \A k \in 1 .. N : s[k] \in Int /\ t[k] \in Int
  OBVIOUS
<1>2. a \in [0 .. N -> Int] /\ a[0] = 0 /\ \A k \in 1 .. N : a[k] = a[k - 1] + s[k]
  BY SumsAre
<1>3. b \in [0 .. N -> Int] /\ b[0] = 0 /\ \A k \in 1 .. N : b[k] = b[k - 1] + t[k]
  BY SumsAre
<1> HIDE DEF a, b
<1>4. \A x, y \in Int : c * x \in Int /\ c * (x + y) = c * x + c * y
  OBVIOUS
<1>5. f[0] = 0 /\ \A k \in 1 .. N : f[k] = f[k - 1] + u[k]
  <2>1. f[0] = 0
    BY <1>1, <1>2, <1>3
  <2>2. ASSUME NEW k \in 1 .. N
        PROVE  f[k] = f[k - 1] + u[k]
    <3>1. k \in 0 .. N /\ k - 1 \in 0 .. N
      BY <1>1
    <3>2. a[k - 1] \in Int /\ b[k - 1] \in Int /\ s[k] \in Int /\ t[k] \in Int
      BY <1>1, <1>2, <1>3, <3>1
    <3>3. f[k] = a[k - 1] + s[k] + c * (b[k - 1] + t[k])
      BY <1>2, <1>3, <3>1
    <3>4. f[k - 1] = a[k - 1] + c * b[k - 1]
      BY <3>1
    <3>5. c * (b[k - 1] + t[k]) = c * b[k - 1] + c * t[k]
      BY <1>4, <3>2
    <3>6. c * b[k - 1] \in Int /\ c * t[k] \in Int
      BY <1>4, <3>2
    <3>7. u[k] = s[k] + c * t[k]
      OBVIOUS
    <3> DEFINE p == c * b[k - 1]
               q == c * t[k]
    <3>8. p \in Int /\ q \in Int /\ f[k] = a[k - 1] + s[k] + (p + q)
          /\ f[k - 1] = a[k - 1] + p /\ u[k] = s[k] + q
      BY <3>3, <3>4, <3>5, <3>6, <3>7
    <3> HIDE DEF f, p, q
    <3> QED
      BY <3>2, <3>8
  <2> QED
    BY <2>1, <2>2
<1>6. N \in 0 .. N /\ f[N] = a[N] + c * b[N]
  BY <1>1
<1> HIDE DEF f
<1>7. \A k \in 0 .. N : Sums(u)[k] = f[k]
  <2>1. \A k \in 1 .. Len(u) : f[k] = f[k - 1] + u[k]
    BY <1>5
  <2>2. \A k \in 0 .. Len(u) : Sums(u)[k] = f[k]
    BY <1>5, <2>1, SumsAreUnique
  <2> QED
    BY <2>2
<1> QED
  BY <1>2, <1>3, <1>6, <1>7 DEF Total, a, b

------------------------------------------------------------------------------
\* The places that a mask keeps exist, and are the ones Kept defines.
LEMMA KeptAre ==
  ASSUME NEW N \in Nat, NEW mask \in [1 .. N -> BOOLEAN]
  PROVE  /\ Kept(mask) \in [0 .. N -> Seq(1 .. N)] /\ Kept(mask)[0] = << >>
         /\ \A k \in 1 .. N : Kept(mask)[k] = IF mask[k] THEN Append(Kept(mask)[k - 1], k)
                                              ELSE Kept(mask)[k - 1]
<1> DEFINE V == Seq(1 .. N)
           next(v, k) == IF mask[k] THEN Append(v, k) ELSE v
           step == [k \in 1 .. N |-> [v \in V |-> next(v, k)]]
<1>1. ASSUME NEW k \in 1 .. N, NEW v \in V
      PROVE  next(v, k) \in V
  <2> DEFINE S == 1 .. N
  <2>1. k \in S /\ v \in Seq(S)
    OBVIOUS
  <2> HIDE DEF S
  <2>2. Append(v, k) \in Seq(S)
    BY <2>1
  <2> QED
    BY <2>1, <2>2 DEF S
<1>2. << >> \in V
  OBVIOUS
<1>3. Len(mask) = N
  OBVIOUS
<1>4. Kept(mask) = CHOOSE g : g = [k \in 0 .. N |-> IF k = 0 THEN << >> ELSE next(g[k - 1], k)]
  BY <1>3 DEF Kept
<1> HIDE DEF V, next
<1>5. step \in [1 .. N -> [V -> V]]
  BY <1>1
<1>6. PICK f \in [0 .. N -> V] : Computes(f, << >>, step, N)
  <2> HIDE DEF step
  <2> QED
    BY <1>2, <1>5, Recursion
<1>7. \A k \in 1 .. N : f[k] = next(f[k - 1], k)
  <2> TAKE k \in 1 .. N
  <2>1. f[k - 1] \in V /\ step[k] = [v \in V |-> next(v, k)]
    OBVIOUS
  <2> QED
    BY <1>6, <2>1 DEF Computes
<1> HIDE DEF step
<1>8. f = [k \in 0 .. N |-> IF k = 0 THEN << >> ELSE next(f[k - 1], k)]
  BY <1>6, <1>7 DEF Computes
<1> DEFINE kept == Kept(mask)
           at(k) == IF k = 0 THEN << >> ELSE next(kept[k - 1], k)
<1>9. kept = [k \in 0 .. N |-> at(k)]
  BY <1>4, <1>8
<1> HIDE DEF kept
<1>10. kept[0] = << >> /\ \A k \in 1 .. N : kept[k] = next(kept[k - 1], k)
  <2>1. kept[0] = at(0)
    BY <1>9
  <2>2. \A k \in 1 .. N : kept[k] = at(k) /\ k # 0
    BY <1>9
  <2> QED
    BY <2>1, <2>2
<1> HIDE DEF at
<1> DEFINE good == {k \in 0 .. N : kept[k] = f[k]}
<1>11. \A k \in 0 .. N : k \in good
  <2>1. 0 \in good
    BY <1>6, <1>10 DEF Computes
  <2>2. \A k \in 1 .. N : k - 1 \in good => k \in good
    BY <1>7, <1>10
  <2> HIDE DEF good
  <2> QED
    BY <2>1, <2>2, UpTo
<1>12. kept = f
  BY <1>9, <1>11
<1> QED
  BY <1>10, <1>12 DEF kept, next, V

\* What the mask keeps among the first n places: they rise, and all are there.
Keeps(kept, mask, n) ==
    /\ kept \in Seq(Nat) /\ Len(kept) <= n
    /\ \A k \in 1 .. Len(kept) : kept[k] \in 1 .. n /\ mask[kept[k]]
    /\ \A i \in 1 .. n : mask[i] => \E k \in 1 .. Len(kept) : kept[k] = i
    /\ \A k, j \in 1 .. Len(kept) : k < j => kept[k] < kept[j]

LEMMA KeepsOneMore ==
  ASSUME NEW n \in Nat \ {0}, NEW mask, NEW kept, Keeps(kept, mask, n - 1), mask[n]
  PROVE  Keeps(Append(kept, n), mask, n)
<1> DEFINE more == Append(kept, n)
           L == Len(kept)
<1>1. kept \in Seq(Nat) /\ L \in Nat /\ L <= n - 1
  BY DEF Keeps
<1>2. /\ more \in Seq(Nat) /\ Len(more) = L + 1 /\ more[L + 1] = n
      /\ \A k \in 1 .. L : more[k] = kept[k]
  BY <1>1
<1> HIDE DEF more, L
<1>3. \A k \in 1 .. L + 1 : more[k] \in 1 .. n /\ mask[more[k]]
  <2> SUFFICES ASSUME NEW k \in 1 .. L + 1 PROVE more[k] \in 1 .. n /\ mask[more[k]]
    OBVIOUS
  <2>1. CASE k = L + 1
    BY <1>2, <2>1
  <2>2. CASE k # L + 1
    <3>1. k \in 1 .. L /\ more[k] = kept[k]
      BY <1>1, <1>2, <2>2
    <3>2. kept[k] \in 1 .. n - 1 /\ mask[kept[k]]
      BY <3>1 DEF Keeps, L
    <3> QED
      BY <3>1, <3>2
  <2> QED
    BY <2>1, <2>2
<1>4. \A i \in 1 .. n : mask[i] => \E k \in 1 .. L + 1 : more[k] = i
  <2> SUFFICES ASSUME NEW i \in 1 .. n, mask[i] PROVE \E k \in 1 .. L + 1 : more[k] = i
    OBVIOUS
  <2>1. CASE i = n
    BY <1>1, <1>2, <2>1
  <2>2. CASE i # n
    <3>1. i \in 1 .. n - 1
      BY <2>2
    <3>2. PICK k \in 1 .. L : kept[k] = i
      BY <3>1 DEF Keeps, L
    <3>3. k \in 1 .. L + 1 /\ more[k] = i
      BY <1>1, <1>2, <3>2
    <3> QED
      BY <3>3
  <2> QED
    BY <2>1, <2>2
<1>5. \A k, j \in 1 .. L + 1 : k < j => more[k] < more[j]
  <2> SUFFICES ASSUME NEW k \in 1 .. L + 1, NEW j \in 1 .. L + 1, k < j PROVE more[k] < more[j]
    OBVIOUS
  <2>1. k \in 1 .. L /\ more[k] = kept[k] /\ kept[k] \in 1 .. n - 1
    BY <1>1, <1>2 DEF Keeps, L
  <2>2. CASE j = L + 1
    BY <1>2, <2>1, <2>2
  <2>3. CASE j # L + 1
    <3>1. j \in 1 .. L /\ more[j] = kept[j]
      BY <1>1, <1>2, <2>3
    <3> QED
      BY <2>1, <3>1 DEF Keeps, L
  <2> QED
    BY <2>2, <2>3
<1> QED
  BY <1>1, <1>2, <1>3, <1>4, <1>5 DEF Keeps, more, L

LEMMA KeepsNoMore ==
  ASSUME NEW n \in Nat \ {0}, NEW mask, NEW kept, Keeps(kept, mask, n - 1), ~ mask[n]
  PROVE  Keeps(kept, mask, n)
<1>1. kept \in Seq(Nat) /\ Len(kept) \in Nat /\ Len(kept) <= n
      /\ \A k \in 1 .. Len(kept) : kept[k] \in 1 .. n /\ mask[kept[k]]
  BY DEF Keeps
<1>2. \A i \in 1 .. n : mask[i] => i \in 1 .. n - 1
  OBVIOUS
<1> QED
  BY <1>1, <1>2 DEF Keeps

LEMMA KeptFacts ==
  ASSUME NEW N \in Nat, NEW mask \in [1 .. N -> BOOLEAN]
  PROVE  Len(mask) = N /\ Keeps(Kept(mask)[N], mask, N)
<1> DEFINE kept == Kept(mask)
           good == {n \in 0 .. N : Keeps(kept[n], mask, n)}
<1>1. /\ kept[0] = << >>
      /\ \A k \in 1 .. N : kept[k] = IF mask[k] THEN Append(kept[k - 1], k) ELSE kept[k - 1]
  BY KeptAre
<1> HIDE DEF kept
<1>2. 0 \in good
  <2>1. kept[0] \in Seq(Nat) /\ Len(kept[0]) = 0
    BY <1>1
  <2> QED
    BY <2>1 DEF Keeps
<1>3. \A n \in 1 .. N : n - 1 \in good => n \in good
  BY <1>1, KeepsOneMore, KeepsNoMore
<1>4. \A n \in 0 .. N : n \in good
  <2> HIDE DEF good
  <2> QED
    BY <1>2, <1>3, UpTo
<1>5. Len(mask) = N /\ N \in 0 .. N
  OBVIOUS
<1> QED
  BY <1>4, <1>5 DEF kept

\* A mask that keeps everything.
LEMMA AllKept ==
  ASSUME NEW N \in Nat, NEW mask \in [1 .. N -> BOOLEAN], \A i \in 1 .. N : mask[i]
  PROVE  Kept(mask)[N] = [i \in 1 .. N |-> i]
<1> DEFINE kept == Kept(mask)
           good == {n \in 0 .. N : kept[n] = [i \in 1 .. n |-> i]}
<1>1. kept[0] = << >> /\ \A k \in 1 .. N : kept[k] = Append(kept[k - 1], k)
  BY KeptAre
<1> HIDE DEF kept
<1>2. 0 \in good
  BY <1>1
<1>3. ASSUME NEW n \in 1 .. N, n - 1 \in good
      PROVE  n \in good
  <2> DEFINE s == [i \in 1 .. n - 1 |-> i]
             t == [i \in 1 .. n |-> i]
  <2>1. s \in Seq(Nat) /\ Len(s) = n - 1 /\ \A i \in 1 .. n - 1 : s[i] = i
    OBVIOUS
  <2>2. kept[n] = Append(s, n)
    BY <1>1, <1>3
  <2> HIDE DEF s
  <2> DEFINE m == Append(s, n)
  <2>3. m \in Seq(Nat) /\ Len(m) = n /\ \A i \in 1 .. n : m[i] = i
    BY <2>1
  <2> HIDE DEF m
  <2>4. m \in [1 .. n -> Nat]
    BY <2>3
  <2>5. m = t
    BY <2>3, <2>4
  <2> QED
    BY <2>2, <2>5 DEF m
<1>4. \A n \in 0 .. N : n \in good
  <2> HIDE DEF good
  <2> QED
    BY <1>2, <1>3, UpTo
<1> QED
  BY <1>4 DEF kept

------------------------------------------------------------------------------
\* What the places in s hold.
Image(x, s) == [k \in DOMAIN s |-> x[s[k]]]

LEMMA ImageOfAppend ==
  ASSUME NEW S, NEW s \in Seq(S), NEW e \in S, NEW x \in [S -> Int]
  PROVE  Image(x, s) \in Seq(Int) /\ Image(x, Append(s, e)) = Append(Image(x, s), x[e])
<1> DEFINE L == Len(s)
           t == Append(s, e)
           a == Image(x, s)
           b == Append(a, x[e])
<1>1. L \in Nat /\ DOMAIN s = 1 .. L /\ \A k \in 1 .. L : s[k] \in S
  OBVIOUS
<1>2. DOMAIN t = 1 .. L + 1 /\ t[L + 1] = e /\ \A k \in 1 .. L : t[k] = s[k]
  OBVIOUS
<1> HIDE DEF L, t
<1>3. a \in Seq(Int) /\ Len(a) = L /\ \A k \in 1 .. L : a[k] = x[s[k]]
  BY <1>1 DEF Image
<1> HIDE DEF a
<1>4. b \in Seq(Int) /\ Len(b) = L + 1 /\ b[L + 1] = x[e] /\ \A k \in 1 .. L : b[k] = a[k]
  BY <1>1, <1>3
<1> HIDE DEF b
<1>5. b \in [1 .. L + 1 -> Int]
  BY <1>1, <1>4
<1>6. ASSUME NEW k \in 1 .. L + 1
      PROVE  b[k] = x[t[k]]
  <2>1. CASE k = L + 1
    BY <1>2, <1>4, <2>1
  <2>2. CASE k # L + 1
    <3>1. k \in 1 .. L
      BY <1>1, <2>2
    <3> QED
      BY <1>2, <1>3, <1>4, <3>1
  <2> QED
    BY <2>1, <2>2
<1>7. b = Image(x, t)
  BY <1>2, <1>5, <1>6 DEF Image
<1> QED
  BY <1>3, <1>7 DEF a, b, t

Zeroed(x, mask) == [i \in DOMAIN mask |-> IF mask[i] THEN x[i] ELSE 0]

\* A sum over what is kept is a sum over all, with 0 for the rest.
LEMMA TotalOfMasked ==
  ASSUME NEW N \in Nat, NEW mask \in [1 .. N -> BOOLEAN], NEW x \in [1 .. N -> Int]
  PROVE  Total(Masked(x, mask)) = Total(Zeroed(x, mask))
<1> DEFINE kept == Kept(mask)
           part(n) == Image(x, kept[n])
           z == Zeroed(x, mask)
           sums == Sums(z)
           good == {n \in 0 .. N : Total(part(n)) = sums[n]}
<1>1. /\ kept \in [0 .. N -> Seq(1 .. N)] /\ kept[0] = << >>
      /\ \A k \in 1 .. N : kept[k] = IF mask[k] THEN Append(kept[k - 1], k) ELSE kept[k - 1]
  BY KeptAre
<1>2. /\ z \in Seq(Int) /\ Len(z) = N
      /\ \A i \in 1 .. N : z[i] = IF mask[i] THEN x[i] ELSE 0
  BY DEF Zeroed
<1>3. sums[0] = 0 /\ \A k \in 1 .. N : sums[k] = sums[k - 1] + z[k]
  BY <1>2, SumsAre
<1>4. sums \in [0 .. N -> Int]
  BY <1>2, SumsAre
<1> HIDE DEF kept, z, sums
<1>5. 0 \in good
  <2>1. part(0) = << >>
    BY <1>1 DEF Image
  <2>2. Total(<< >>) = 0
    BY TotalOfNothing
  <2> HIDE DEF part
  <2> QED
    BY <1>3, <2>1, <2>2
<1>6. ASSUME NEW n \in 1 .. N, n - 1 \in good
      PROVE  n \in good
  <2> DEFINE before == kept[n - 1]
             a == part(n - 1)
  <2>1. before \in Seq(1 .. N) /\ Total(a) = sums[n - 1]
    BY <1>1, <1>6
  <2>2. CASE mask[n]
    <3>1. kept[n] = Append(before, n)
      BY <1>1, <2>2
    <3>2. a \in Seq(Int) /\ part(n) = Append(a, x[n])
      <4> DEFINE S == 1 .. N
      <4>1. before \in Seq(S) /\ n \in S /\ x \in [S -> Int]
        BY <2>1
      <4> HIDE DEF before, S
      <4>2. Image(x, before) \in Seq(Int)
            /\ Image(x, Append(before, n)) = Append(Image(x, before), x[n])
        BY <4>1, ImageOfAppend
      <4> QED
        BY <3>1, <4>2 DEF before
    <3> HIDE DEF a, part
    <3>3. Total(part(n)) = Total(a) + x[n]
      BY <3>2, TotalOfAppend
    <3>4. sums[n] = sums[n - 1] + x[n]
      BY <1>2, <1>3, <2>2
    <3> QED
      BY <2>1, <3>3, <3>4
  <2>3. CASE ~ mask[n]
    <3>1. part(n) = a
      BY <1>1, <2>3
    <3>2. sums[n] = sums[n - 1]
      BY <1>2, <1>3, <1>4, <2>3
    <3> HIDE DEF a, part
    <3> QED
      BY <2>1, <3>1, <3>2
  <2> QED
    BY <2>2, <2>3
<1>7. \A n \in 0 .. N : n \in good
  <2> HIDE DEF good
  <2> QED
    BY <1>5, <1>6, UpTo
<1>8. Total(part(N)) = sums[N]
  BY <1>7
<1>9. Len(mask) = N
  OBVIOUS
<1>10. Total(z) = sums[N]
  BY <1>2 DEF Total, sums
<1> QED
  BY <1>8, <1>9, <1>10 DEF Masked, Image, kept, z

\* sum(mask) counts.
LEMMA CountIsCardinality ==
  ASSUME NEW N \in Nat, NEW mask \in [1 .. N -> BOOLEAN]
  PROVE  Count(mask) = Cardinality({i \in 1 .. N : mask[i]}) /\ Count(mask) \in Nat
<1> DEFINE ones == Ones(mask)
           sums == Sums(ones)
           set(n) == {i \in 1 .. n : mask[i]}
           good == {n \in 0 .. N : IsFiniteSet(set(n)) /\ Cardinality(set(n)) = sums[n]}
<1>1. /\ ones \in Seq(Int) /\ Len(ones) = N
      /\ \A i \in 1 .. N : ones[i] = IF mask[i] THEN 1 ELSE 0
  BY DEF Ones
<1> HIDE DEF ones
<1>2. sums[0] = 0 /\ \A k \in 1 .. N : sums[k] = sums[k - 1] + ones[k]
  BY <1>1, SumsAre
<1>3. sums \in [0 .. N -> Int]
  BY <1>1, SumsAre
<1> HIDE DEF sums
<1>4. 0 \in good
  <2>1. set(0) = {}
    OBVIOUS
  <2> QED
    BY <1>2, <2>1, FS_EmptySet
<1>5. ASSUME NEW n \in 1 .. N, n - 1 \in good
      PROVE  n \in good
  <2>1. IsFiniteSet(set(n - 1)) /\ Cardinality(set(n - 1)) = sums[n - 1]
    BY <1>5
  <2>2. CASE mask[n]
    <3>1. set(n) = set(n - 1) \union {n} /\ n \notin set(n - 1)
      BY <2>2
    <3>2. sums[n] = sums[n - 1] + 1
      BY <1>1, <1>2, <2>2
    <3> DEFINE A == set(n - 1)
               B == set(n)
    <3>3. IsFiniteSet(A) /\ Cardinality(A) = sums[n - 1] /\ B = A \union {n} /\ n \notin A
      BY <2>1, <3>1
    <3> HIDE DEF A, B
    <3>4. IsFiniteSet(B) /\ Cardinality(B) = Cardinality(A) + 1
      BY <3>3, FS_AddElement
    <3> QED
      BY <3>2, <3>3, <3>4 DEF B
  <2>3. CASE ~ mask[n]
    <3>1. set(n) = set(n - 1)
      BY <2>3
    <3>2. sums[n] = sums[n - 1]
      BY <1>1, <1>2, <1>3, <2>3
    <3> HIDE DEF set
    <3> QED
      BY <2>1, <3>1, <3>2
  <2> QED
    BY <2>2, <2>3
<1>6. \A n \in 0 .. N : n \in good
  <2> HIDE DEF good
  <2> QED
    BY <1>4, <1>5, UpTo
<1>7. IsFiniteSet(set(N)) /\ Cardinality(set(N)) = sums[N]
  BY <1>6
<1>8. Count(mask) = sums[N]
  BY <1>1 DEF Count, Total, ones, sums
<1> HIDE DEF set
<1>9. Cardinality(set(N)) \in Nat
  BY <1>7, FS_CardinalityType
<1> QED
  BY <1>7, <1>8, <1>9 DEF set

------------------------------------------------------------------------------
\* What each place costs: its review, or its error.
PlaceCosts(reviewed, errors, sevs) ==
    [i \in DOMAIN reviewed |->
        IF reviewed[i] THEN EscalateCost ELSE IF errors[i] THEN CostOf[sevs[i]] ELSE 0]

LEMMA PlaceCostsAreNat ==
  ASSUME NEW N \in Nat, NEW reviewed \in [1 .. N -> BOOLEAN],
         NEW errors \in [1 .. N -> BOOLEAN], NEW sevs \in [1 .. N -> Severities]
  PROVE  /\ PlaceCosts(reviewed, errors, sevs) \in [1 .. N -> Nat]
         /\ PlaceCosts(reviewed, errors, sevs) \in Seq(Nat)
         /\ Len(PlaceCosts(reviewed, errors, sevs)) = N
         /\ Total(PlaceCosts(reviewed, errors, sevs)) \in Nat
<1> DEFINE costs == PlaceCosts(reviewed, errors, sevs)
<1>1. costs \in [1 .. N -> Nat]
  <2>1. \A i \in 1 .. N : CostOf[sevs[i]] \in Nat
    BY CostAssumption
  <2> QED
    BY <2>1, CostAssumption DEF PlaceCosts
<1> HIDE DEF costs
<1>2. costs \in Seq(Nat) /\ Len(costs) = N
  BY <1>1
<1>3. Total(costs) \in Nat
  BY <1>2, TotalIsNat
<1> QED
  BY <1>1, <1>2, <1>3 DEF costs

\* The loss of the unreviewed errors and the price of the reviews are the sum
\* of what the places cost.
LEMMA ReviewedCost ==
  ASSUME NEW N \in Nat, NEW reviewed \in [1 .. N -> BOOLEAN],
         NEW errors \in [1 .. N -> BOOLEAN], NEW sevs \in [1 .. N -> Severities]
  PROVE  SeverityWeightedLoss(Masked(errors, Complement(reviewed)),
                              Masked(sevs, Complement(reviewed)))
           + EscalateCost * Count(reviewed) = Total(PlaceCosts(reviewed, errors, sevs))
<1> DEFINE loss == [i \in 1 .. N |-> IF errors[i] THEN CostOf[sevs[i]] ELSE 0]
           rest == Complement(reviewed)
           K == Kept(rest)[N]
           z == Zeroed(loss, rest)
           ones == Ones(reviewed)
           costs == PlaceCosts(reviewed, errors, sevs)
<1>1. rest \in [1 .. N -> BOOLEAN] /\ \A i \in 1 .. N : rest[i] <=> ~ reviewed[i]
  BY DEF Complement
<1> HIDE DEF rest
<1>2. Len(rest) = N /\ K \in Seq(Nat) /\ \A k \in 1 .. Len(K) : K[k] \in 1 .. N
  BY <1>1, KeptFacts DEF Keeps
<1>3. loss \in [1 .. N -> Int]
      /\ \A i \in 1 .. N : loss[i] = IF errors[i] THEN CostOf[sevs[i]] ELSE 0
  <2>1. \A i \in 1 .. N : CostOf[sevs[i]] \in Nat
    BY CostAssumption
  <2> QED
    BY <2>1
<1> HIDE DEF loss, K
<1>4. SeverityWeightedLoss(Masked(errors, rest), Masked(sevs, rest)) = Total(Masked(loss, rest))
  <2> DEFINE a == [k \in 1 .. Len(K) |-> errors[K[k]]]
             b == [k \in 1 .. Len(K) |-> sevs[K[k]]]
             c == [k \in 1 .. Len(K) |-> loss[K[k]]]
             d == [i \in DOMAIN b |-> IF a[i] THEN CostOf[b[i]] ELSE 0]
  <2>1. Masked(errors, rest) = a /\ Masked(sevs, rest) = b /\ Masked(loss, rest) = c
    BY <1>2 DEF Masked, K
  <2>2. d = c
    BY <1>2, <1>3
  <2>3. SeverityWeightedLoss(a, b) = Total(d)
    BY DEF SeverityWeightedLoss
  <2> HIDE DEF a, b, c, d
  <2> QED
    BY <2>1, <2>2, <2>3
<1>5. Total(Masked(loss, rest)) = Total(z)
  BY <1>1, <1>3, TotalOfMasked
<1>6. z \in Seq(Int) /\ Len(z) = N /\ \A i \in 1 .. N : z[i] = IF rest[i] THEN loss[i] ELSE 0
  BY <1>1, <1>3 DEF Zeroed
<1>7. ones \in Seq(Int) /\ Len(ones) = N /\ \A i \in 1 .. N : ones[i] = IF reviewed[i] THEN 1 ELSE 0
  BY DEF Ones
<1>8. costs \in Seq(Int) /\ Len(costs) = N
  <2>1. costs \in Seq(Nat) /\ Len(costs) = N
    BY PlaceCostsAreNat
  <2> HIDE DEF costs
  <2> QED
    BY <2>1
<1>9. ASSUME NEW i \in 1 .. N
      PROVE  costs[i] = z[i] + EscalateCost * ones[i]
  <2>1. costs[i] = IF reviewed[i] THEN EscalateCost
                   ELSE IF errors[i] THEN CostOf[sevs[i]] ELSE 0
    BY DEF PlaceCosts
  <2>2. EscalateCost * 1 = EscalateCost /\ EscalateCost * 0 = 0 /\ EscalateCost \in Int
        /\ loss[i] \in Int
    BY <1>3, CostAssumption
  <2> HIDE DEF costs, z, ones
  <2>3. CASE reviewed[i]
    BY <1>1, <1>6, <1>7, <2>1, <2>2, <2>3
  <2>4. CASE ~ reviewed[i]
    <3>1. ones[i] = 0 /\ z[i] = loss[i] /\ costs[i] = loss[i]
      BY <1>1, <1>3, <1>6, <1>7, <2>1, <2>4
    <3> QED
      BY <2>2, <3>1
  <2> QED
    BY <2>3, <2>4
<1> HIDE DEF costs, z, ones
<1>10. EscalateCost \in Int
  BY CostAssumption
<1>11. Total(costs) = Total(z) + EscalateCost * Total(ones)
  <2>1. Len(ones) = Len(z) /\ Len(costs) = Len(z)
        /\ \A i \in 1 .. Len(z) : costs[i] = z[i] + EscalateCost * ones[i]
    BY <1>6, <1>7, <1>8, <1>9
  <2> QED
    BY <1>6, <1>7, <1>8, <1>10, <2>1, TotalIsLinear
<1> QED
  BY <1>4, <1>5, <1>11 DEF rest, costs, ones, Count

\* The places at which a probability reaches the threshold.
ReviewedAt(probs, tau) == [i \in DOMAIN probs |-> Reviewed(probs[i], tau)]

LEMMA CurveCost ==
  ASSUME NEW N \in Nat, NEW probs \in [1 .. N -> Levels], NEW tau \in Levels,
         NEW errors \in [1 .. N -> BOOLEAN], NEW sevs \in [1 .. N -> Severities],
         NEW point, point = CurvePoint(probs, errors, sevs, tau)
  PROVE  /\ point.threshold = tau /\ TotalCost(point) \in Nat
         /\ TotalCost(point) = Total(PlaceCosts(ReviewedAt(probs, tau), errors, sevs))
<1> DEFINE reviewed == ReviewedAt(probs, tau)
<1>1. reviewed \in [1 .. N -> BOOLEAN]
  BY DEF ReviewedAt, Reviewed
<1>2. point = [threshold |-> tau, escalated |-> Count(reviewed),
               loss |-> SeverityWeightedLoss(Masked(errors, Complement(reviewed)),
                                             Masked(sevs, Complement(reviewed)))]
  BY DEF CurvePoint, ReviewedAt
<1> HIDE DEF reviewed
<1>3. TotalCost(point) = Total(PlaceCosts(reviewed, errors, sevs))
  BY <1>1, <1>2, ReviewedCost DEF TotalCost
<1>4. Total(PlaceCosts(reviewed, errors, sevs)) \in Nat
  BY <1>1, PlaceCostsAreNat
<1> QED
  BY <1>2, <1>3, <1>4 DEF reviewed

\* The fitted threshold costs least, and what it is said to cost.
LEMMA FitFacts ==
  ASSUME NEW N \in Nat, NEW probs \in [1 .. N -> Levels],
         NEW errors \in [1 .. N -> BOOLEAN], NEW sevs \in [1 .. N -> Severities],
         NEW fit, fit = FitThreshold(probs, errors, sevs)
  PROVE  /\ fit.best_threshold \in Levels
         /\ fit.best_cost
              = Total(PlaceCosts(ReviewedAt(probs, fit.best_threshold), errors, sevs))
         /\ \A tau \in Levels :
              fit.best_cost <= Total(PlaceCosts(ReviewedAt(probs, tau), errors, sevs))
         /\ (\A i \in 1 .. N : probs[i] < Grid) => fit.best_cost <= fit.baseline_cost
<1> DEFINE cost(tau) == Total(PlaceCosts(ReviewedAt(probs, tau), errors, sevs))
           point(tau) == CurvePoint(probs, errors, sevs, tau)
           curve == {point(tau) : tau \in Levels}
           First(p) == \A other \in curve :
                          \/ TotalCost(p) < TotalCost(other)
                          \/ TotalCost(p) = TotalCost(other) /\ p.threshold <= other.threshold
           best == CHOOSE p \in curve : First(p)
<1>1. /\ fit.best_threshold = best.threshold /\ fit.best_cost = TotalCost(best)
      /\ fit.baseline_cost = SeverityWeightedLoss(errors, sevs)
  BY DEF FitThreshold, Points
<1>2. \A tau \in Levels : /\ point(tau).threshold = tau /\ TotalCost(point(tau)) = cost(tau)
                          /\ cost(tau) \in Nat
  BY CurveCost
<1> HIDE DEF cost, point
<1>3. Levels \subseteq Nat /\ 0 \in Levels /\ Grid \in Levels /\ Grid \in Nat
  BY CostAssumption DEF Levels
<1>4. PICK tau \in Levels : \A t \in Levels : \/ cost(tau) < cost(t)
                                              \/ cost(tau) = cost(t) /\ tau <= t
  <2> DEFINE costs == {cost(t) : t \in Levels}
  <2>1. costs \subseteq Nat /\ costs # {}
    BY <1>2, <1>3
  <2>2. PICK c \in costs : \A d \in costs : c <= d
    <3> HIDE DEF costs
    <3> QED
      BY <2>1, LeastNumber
  <2> DEFINE cheapest == {t \in Levels : cost(t) = c}
  <2>3. cheapest \subseteq Nat /\ cheapest # {}
    BY <1>3, <2>2
  <2>4. PICK tau \in cheapest : \A t \in cheapest : tau <= t
    <3> HIDE DEF cheapest
    <3> QED
      BY <2>3, LeastNumber
  <2>5. \A t \in Levels : cost(t) \in Nat /\ c <= cost(t)
    BY <1>2, <2>2
  <2>6. c \in Nat
    BY <2>1, <2>2
  <2> QED
    BY <2>4, <2>5, <2>6
<1>5. First(point(tau))
  BY <1>2, <1>4
<1>6. best \in curve /\ First(best)
  <2>1. point(tau) \in curve
    BY <1>4
  <2> HIDE DEF curve, First
  <2> QED
    BY <1>5, <2>1
<1>7. PICK t \in Levels : best = point(t)
  BY <1>6
<1>8. best.threshold = t /\ TotalCost(best) = cost(t)
  BY <1>2, <1>7
<1>9. ASSUME NEW u \in Levels
      PROVE  cost(t) <= cost(u)
  <2>1. TotalCost(best) < TotalCost(point(u)) \/ TotalCost(best) = TotalCost(point(u))
    BY <1>6
  <2>2. cost(t) \in Nat /\ cost(u) \in Nat /\ TotalCost(point(u)) = cost(u)
    BY <1>2
  <2> QED
    BY <1>8, <2>1, <2>2
<1>10. ASSUME \A i \in 1 .. N : probs[i] < Grid
       PROVE  fit.baseline_cost = cost(Grid)
  <2> DEFINE reviewed == ReviewedAt(probs, Grid)
  <2>1. DOMAIN reviewed = 1 .. N /\ \A i \in 1 .. N : ~ reviewed[i]
    <3>1. \A i \in 1 .. N : probs[i] \in Nat /\ probs[i] < Grid
      BY <1>3, <1>10
    <3>2. \A i \in 1 .. N : ~ Reviewed(probs[i], Grid)
      BY <1>3, <3>1 DEF Reviewed
    <3>3. DOMAIN reviewed = 1 .. N /\ \A i \in 1 .. N : reviewed[i] = Reviewed(probs[i], Grid)
      BY DEF ReviewedAt
    <3> QED
      BY <3>2, <3>3
  <2> HIDE DEF reviewed
  <2>2. PlaceCosts(reviewed, errors, sevs)
          = [i \in DOMAIN sevs |-> IF errors[i] THEN CostOf[sevs[i]] ELSE 0]
    BY <2>1 DEF PlaceCosts
  <2> QED
    BY <1>1, <2>2 DEF SeverityWeightedLoss, cost, reviewed
<1> QED
  BY <1>1, <1>3, <1>8, <1>9, <1>10 DEF cost

------------------------------------------------------------------------------
Events == [kind : {"decision", "step", "opened", "resolved"}, of : Nat,
           p : Levels \union {NoP}, featured : BOOLEAN, error : {"absent", "false", "true"},
           severity : Severities, decision : {"ALLOW", "DENY", "ESCALATE", "VERIFY"}]

LEMMA EventTypes ==
  ASSUME NEW e \in Events
  PROVE  /\ e.of \in Nat /\ e.p \in Levels \union {NoP} /\ e.severity \in Severities
         /\ Confidence(e) \in Levels /\ HasP(e) /\ IsError(e) \in BOOLEAN
         /\ LossOnError(e) \in BOOLEAN /\ Labeled(e) \in BOOLEAN /\ e.featured \in BOOLEAN
<1>1. e.p \in Levels \union {NoP} /\ e.of \in Nat /\ e.severity \in Severities
  BY DEF Events
<1>2. Levels \subseteq Nat /\ 0 \in Levels /\ NoP \notin Nat
  BY CostAssumption DEF Levels
<1>3. Confidence(e) \in Levels
  BY <1>1, <1>2 DEF Confidence
<1>4. e.featured \in BOOLEAN
  BY DEF Events
<1> QED
  BY <1>1, <1>2, <1>3, <1>4 DEF HasP, IsError, LossOnError, Labeled

\* The labeled events, in the order of seq.
LabeledOf(events) == Masked(events, FitMask(events))

\* Where they stand, and what they are.
LEMMA FitPlacesAre ==
  ASSUME NEW events \in Seq(Events), NEW places, places = FitPlaces(events),
         NEW labeled, labeled = LabeledOf(events), NEW N, N = Len(events)
  PROVE  /\ FitMask(events) \in [1 .. N -> BOOLEAN]
         /\ \A i \in 1 .. N : FitMask(events)[i] = Labeled(events[i])
         /\ Keeps(places, FitMask(events), N)
         /\ places = Kept(FitMask(events))[N]
         /\ DOMAIN places = 1 .. Len(places) /\ Len(places) \in Nat
         /\ labeled \in Seq(Events) /\ Len(labeled) = Len(places)
         /\ labeled = [k \in 1 .. Len(places) |-> events[places[k]]]
<1> DEFINE mask == FitMask(events)
           K == Kept(mask)[N]
<1>1. N \in Nat /\ DOMAIN events = 1 .. N /\ \A i \in 1 .. N : events[i] \in Events
  <2> HIDE DEF Events
  <2> QED
    OBVIOUS
<1> HIDE DEF Events
<1>2. mask \in [1 .. N -> BOOLEAN] /\ \A i \in 1 .. N : mask[i] = Labeled(events[i])
  BY <1>1, EventTypes DEF FitMask
<1> HIDE DEF mask
<1>3. Len(mask) = N /\ Keeps(K, mask, N)
  BY <1>1, <1>2, KeptFacts
<1> HIDE DEF K
<1>4. /\ K \in Seq(Nat) /\ Len(K) \in Nat /\ DOMAIN K = 1 .. Len(K)
      /\ \A k \in 1 .. Len(K) : K[k] \in 1 .. N
  BY <1>3 DEF Keeps
<1>5. places = K
  <2>1. places = [k \in DOMAIN K |-> [i \in DOMAIN events |-> i][K[k]]]
    BY <1>3 DEF FitPlaces, Masked, mask, K
  <2>2. \A k \in 1 .. Len(K) : [i \in DOMAIN events |-> i][K[k]] = K[k]
    BY <1>1, <1>4
  <2>3. K = [k \in 1 .. Len(K) |-> K[k]]
    BY <1>4
  <2> QED
    BY <1>4, <2>1, <2>2, <2>3
<1>6. labeled = [k \in 1 .. Len(K) |-> events[K[k]]]
  BY <1>3, <1>4 DEF LabeledOf, Masked, mask, K
<1>7. labeled \in Seq(Events) /\ Len(labeled) = Len(K)
  <2>1. \A k \in 1 .. Len(K) : events[K[k]] \in Events
    BY <1>1, <1>4
  <2>2. labeled \in [1 .. Len(K) -> Events]
    BY <1>6, <2>1
  <2> QED
    BY <1>4, <2>2
<1> QED
  BY <1>2, <1>3, <1>4, <1>5, <1>6, <1>7 DEF mask, K

\* The halves of an order, one after the other, are the order.
LEMMA HalvesAre ==
  ASSUME NEW n \in Nat, n >= 2, NEW order \in [1 .. n -> 1 .. n]
  PROVE  /\ Split(n) \in 1 .. n - 1 /\ Len(order) = n
         /\ FitHalf(order) = [i \in 1 .. Split(n) |-> order[i]]
         /\ HeldHalf(order) = [i \in 1 .. n - Split(n) |-> order[Split(n) + i]]
<1>1. Split(n) \in 1 .. n - 1
  BY DEF Split
<1>2. order \in Seq(1 .. n) /\ Len(order) = n
  OBVIOUS
<1>3. FitHalf(order) = [i \in 1 .. Split(n) |-> order[i]]
  <2>1. FitHalf(order) = [i \in 1 .. Split(n) - 1 + 1 |-> order[i + 1 - 1]]
    BY <1>1, <1>2 DEF FitHalf
  <2> QED
    BY <1>1, <2>1
<1>4. HeldHalf(order) = [i \in 1 .. n - Split(n) |-> order[Split(n) + i]]
  <2> DEFINE m == Split(n)
             h == SubSeq(order, m + 1, n)
             S == 1 .. n
  <2>1. m \in 1 .. n - 1 /\ order \in Seq(S) /\ Len(order) = n
    BY <1>1, <1>2
  <2> HIDE DEF m, S
  <2>2. h \in Seq(S) /\ Len(h) = n - m /\ \A i \in 1 .. n - m : h[i] = order[m + i]
    BY <2>1
  <2> HIDE DEF h
  <2>3. h = [i \in 1 .. n - m |-> order[m + i]]
    BY <2>1, <2>2
  <2> QED
    BY <2>1, <2>3 DEF HeldHalf, h, m
<1> QED
  BY <1>1, <1>2, <1>3, <1>4

LEMMA HalvesJoin ==
  ASSUME NEW n \in Nat, n >= 2, NEW order \in [1 .. n -> 1 .. n], NEW x \in [1 .. n -> Events]
  PROVE  Image(x, FitHalf(order)) \o Image(x, HeldHalf(order)) = [i \in 1 .. n |-> x[order[i]]]
<1> DEFINE m == Split(n)
           a == Image(x, FitHalf(order))
           b == Image(x, HeldHalf(order))
           S == Events
<1>1. /\ m \in 1 .. n - 1 /\ FitHalf(order) = [i \in 1 .. m |-> order[i]]
      /\ HeldHalf(order) = [i \in 1 .. n - m |-> order[m + i]]
  BY HalvesAre
<1> HIDE DEF m, S
<1>2. a = [i \in 1 .. m |-> x[order[i]]]
  BY <1>1 DEF Image
<1>3. b = [i \in 1 .. n - m |-> x[order[m + i]]]
  BY <1>1 DEF Image
<1>4. \A i \in 1 .. n : x[order[i]] \in S
  BY DEF S
<1>11. m \in Nat /\ n - m \in Nat /\ m + (n - m) = n
       /\ (\A i \in 1 .. m : i \in 1 .. n) /\ (\A i \in 1 .. n - m : m + i \in 1 .. n)
  <2>1. m \in 1 .. n - 1
    BY <1>1
  <2> QED
    BY <2>1
<1>5. a \in Seq(S) /\ Len(a) = m /\ \A i \in 1 .. m : a[i] = x[order[i]]
  <2> HIDE DEF a
  <2>1. \A i \in 1 .. m : x[order[i]] \in S
    BY <1>11, <1>4
  <2>2. a \in [1 .. m -> S] /\ \A i \in 1 .. m : a[i] = x[order[i]]
    BY <1>2, <2>1
  <2> QED
    BY <1>11, <2>2
<1>6. b \in Seq(S) /\ Len(b) = n - m /\ \A i \in 1 .. n - m : b[i] = x[order[m + i]]
  <2> HIDE DEF b
  <2> DEFINE k == n - m
  <2>1. \A i \in 1 .. k : x[order[m + i]] \in S
    BY <1>11, <1>4
  <2>2. k \in Nat /\ b = [i \in 1 .. k |-> x[order[m + i]]]
    BY <1>11, <1>3
  <2> HIDE DEF k
  <2>3. b \in [1 .. k -> S] /\ \A i \in 1 .. k : b[i] = x[order[m + i]]
    BY <2>1, <2>2
  <2>4. b \in Seq(S) /\ Len(b) = k
    BY <2>2, <2>3
  <2> QED
    BY <2>3, <2>4 DEF k
<1> HIDE DEF a, b
<1> DEFINE c == a \o b
<1>7. c \in Seq(S) /\ Len(c) = n
      /\ \A i \in 1 .. n : c[i] = IF i <= m THEN a[i] ELSE b[i - m]
  <2>1. a \in Seq(S) /\ b \in Seq(S) /\ Len(a) = m /\ Len(b) = n - m /\ m \in Nat
    BY <1>11, <1>5, <1>6
  <2>2. c \in Seq(S) /\ Len(c) = Len(a) + Len(b)
    BY <2>1
  <2>3. ASSUME NEW i \in 1 .. n
        PROVE  c[i] = IF i <= m THEN a[i] ELSE b[i - m]
    BY <2>1
  <2>4. Len(c) = n
    BY <1>11, <2>1, <2>2
  <2> HIDE DEF c
  <2> QED
    BY <2>2, <2>3, <2>4
<1> HIDE DEF c
<1>8. c \in [1 .. n -> S]
  BY <1>7
<1>9. ASSUME NEW i \in 1 .. n
      PROVE  c[i] = x[order[i]]
  <2>1. CASE i <= m
    <3>1. i \in 1 .. m
      BY <1>1, <2>1
    <3> QED
      BY <1>5, <1>7, <2>1, <3>1
  <2>2. CASE ~ i <= m
    <3>1. i - m \in 1 .. n - m /\ m + (i - m) = i
      BY <1>1, <2>2
    <3> QED
      BY <1>6, <1>7, <2>2, <3>1
  <2> QED
    BY <2>1, <2>2
<1>10. c = [i \in 1 .. n |-> x[order[i]]]
  BY <1>8, <1>9
<1> QED
  BY <1>10 DEF a, b, c

------------------------------------------------------------------------------
\* What the pipeline computes from the labeled events, in the order given to
\* the fit of the threshold.
Arranged(labeled, order) ==
    IF Len(labeled) >= 2 THEN [i \in 1 .. Len(labeled) |-> labeled[order[i]]] ELSE labeled

Used(labeled, predict) == IF Len(labeled) >= 2 THEN predict ELSE Identity

ProbsOf(labeled, order, predict) ==
    [i \in DOMAIN Arranged(labeled, order) |->
        Used(labeled, predict)[Confidence(Arranged(labeled, order)[i])]]

ErrorsOf(labeled) == [i \in DOMAIN labeled |-> IsError(labeled[i])]

SevsOf(labeled) == [i \in DOMAIN labeled |-> labeled[i].severity]

FitOf(labeled, order, predict) ==
    FitThreshold(ProbsOf(labeled, order, predict), ErrorsOf(labeled), SevsOf(labeled))

\* The places in one half of an order, and in the other.
FittedOn(places, order) == {places[i] : i \in ToSet(FitHalf(order))}

ReportedOn(places, order) == {places[i] : i \in ToSet(HeldHalf(order))}

RowsOf(labeled, order, predict) ==
    [i \in 1 .. Len(labeled) |->
        <<ProbsOf(labeled, order, predict)[i], ErrorsOf(labeled)[i], SevsOf(labeled)[i]>>]

LEMMA PipelineIs ==
  ASSUME NEW events \in Seq(Events), NEW labeled, labeled = LabeledOf(events),
         NEW order \in [1 .. Len(labeled) -> 1 .. Len(labeled)], NEW predict,
         NEW result, result = Pipeline(events, order, predict)
  PROVE  /\ result.rows = RowsOf(labeled, order, predict)
         /\ result.predict = Used(labeled, predict)
         /\ result.calibrated = Calibrated(events, Used(labeled, predict))
         /\ result.threshold = IF labeled = << >> THEN 0
                               ELSE FitOf(labeled, order, predict).best_threshold
         /\ result.best_cost = FitOf(labeled, order, predict).best_cost
         /\ result.baseline = FitOf(labeled, order, predict).baseline_cost
         /\ result.n_labeled = Len(labeled)
         /\ Len(labeled) >= 2 =>
              /\ result.fitted_on = FittedOn(FitPlaces(events), order)
              /\ result.reported_on = ReportedOn(FitPlaces(events), order)
<1> DEFINE places == FitPlaces(events)
           n == Len(places)
           at(s) == [i \in DOMAIN s |-> events[places[s[i]]]]
           split == n >= 2
           fitted == IF split THEN predict ELSE Identity
           lab == [i \in DOMAIN places |-> events[places[i]]]
           inOrder == IF split THEN at(FitHalf(order)) \o at(HeldHalf(order)) ELSE lab
           probs == [i \in DOMAIN inOrder |-> fitted[Confidence(inOrder[i])]]
           errors == [i \in DOMAIN lab |-> IsError(lab[i])]
           sevs == [i \in DOMAIN lab |-> lab[i].severity]
           fit == FitThreshold(probs, errors, sevs)
<1>1. /\ DOMAIN places = 1 .. n /\ n \in Nat
      /\ labeled \in Seq(Events) /\ Len(labeled) = n
      /\ labeled = [k \in 1 .. n |-> events[places[k]]]
  BY FitPlacesAre
<1>2. lab = labeled
  BY <1>1
<1>3. result = [fitted_on |-> IF split THEN {places[i] : i \in ToSet(FitHalf(order))} ELSE {},
                reported_on |-> IF split THEN {places[i] : i \in ToSet(HeldHalf(order))}
                                ELSE ToSet(places),
                calibrated |-> Calibrated(events, fitted),
                rows |-> [i \in DOMAIN places |-> <<probs[i], errors[i], sevs[i]>>],
                predict |-> fitted,
                threshold |-> IF places = << >> THEN 0 ELSE fit.best_threshold,
                best_cost |-> fit.best_cost,
                baseline |-> fit.baseline_cost,
                n_labeled |-> n,
                n_unlabeled |-> Len(events) - n]
  BY DEF Pipeline
<1> HIDE DEF lab
<1>9. errors = ErrorsOf(labeled) /\ sevs = SevsOf(labeled)
  BY <1>2 DEF ErrorsOf, SevsOf
<1>4. fitted = Used(labeled, predict)
  BY <1>1 DEF Used
<1>5. inOrder = Arranged(labeled, order)
  <2>1. CASE split
    <3> DEFINE a == FitHalf(order)
               b == HeldHalf(order)
    <3>1. /\ Split(n) \in 1 .. n - 1 /\ a = [i \in 1 .. Split(n) |-> order[i]]
          /\ b = [i \in 1 .. n - Split(n) |-> order[Split(n) + i]]
      BY <1>1, <2>1, HalvesAre
    <3>2. \A i \in DOMAIN a : a[i] \in 1 .. n
      BY <1>1, <3>1
    <3>3. \A i \in DOMAIN b : b[i] \in 1 .. n
      BY <1>1, <3>1
    <3> HIDE DEF a, b, places
    <3>4. at(a) = Image(labeled, a) /\ at(b) = Image(labeled, b)
      BY <1>1, <3>2, <3>3 DEF Image
    <3>5. labeled \in [1 .. n -> Events]
      <4> HIDE DEF Events
      <4> QED
        BY <1>1
    <3>6. Image(labeled, a) \o Image(labeled, b) = [i \in 1 .. n |-> labeled[order[i]]]
      BY <1>1, <2>1, <3>5, HalvesJoin DEF a, b
    <3>7. inOrder = at(a) \o at(b)
      BY <2>1 DEF a, b
    <3> QED
      BY <1>1, <2>1, <3>4, <3>6, <3>7 DEF Arranged
  <2>2. CASE ~ split
    BY <1>1, <1>2, <2>2 DEF Arranged
  <2> QED
    BY <2>1, <2>2
<1>6. probs = ProbsOf(labeled, order, predict)
  <2> HIDE DEF inOrder, fitted
  <2> QED
    BY <1>4, <1>5 DEF ProbsOf
<1> HIDE DEF fitted, inOrder, probs, errors, sevs
<1>7. fit = FitOf(labeled, order, predict)
  BY <1>6, <1>9 DEF FitOf
<1> HIDE DEF fit
<1>8. (places = << >>) <=> (labeled = << >>)
  <2> HIDE DEF places
  <2> QED
    BY <1>1
<1> QED
  BY <1>1, <1>3, <1>4, <1>6, <1>7, <1>8, <1>9 DEF RowsOf, FittedOn, ReportedOn

LEMMA FitTypes ==
  ASSUME NEW labeled \in Seq(Events), NEW n, n = Len(labeled),
         NEW order \in [1 .. n -> 1 .. n], NEW predict \in Calibrators
  PROVE  /\ n \in Nat /\ ProbsOf(labeled, order, predict) \in [1 .. n -> Levels]
         /\ ErrorsOf(labeled) \in [1 .. n -> BOOLEAN] /\ SevsOf(labeled) \in [1 .. n -> Severities]
         /\ n >= 2 => \A i \in 1 .. n : ProbsOf(labeled, order, predict)[i] < Grid
<1> DEFINE arranged == Arranged(labeled, order)
           used == Used(labeled, predict)
           probs == ProbsOf(labeled, order, predict)
<1>0. n \in Nat /\ DOMAIN labeled = 1 .. n /\ \A i \in 1 .. n : labeled[i] \in Events
  <2> HIDE DEF Events
  <2> QED
    OBVIOUS
<1> HIDE DEF Events
<1>1. \A i \in 1 .. n : /\ IsError(labeled[i]) \in BOOLEAN
                        /\ labeled[i].severity \in Severities
  BY <1>0, EventTypes
<1>2. ErrorsOf(labeled) \in [1 .. n -> BOOLEAN] /\ SevsOf(labeled) \in [1 .. n -> Severities]
  BY <1>0, <1>1 DEF ErrorsOf, SevsOf
<1>3. DOMAIN arranged = 1 .. n /\ \A i \in 1 .. n : arranged[i] \in Events
  BY <1>0 DEF Arranged
<1>4. Grid \in Nat /\ 0 .. Grid - 1 \subseteq Levels /\ \A p \in 0 .. Grid - 1 : p < Grid
  BY CostAssumption DEF Levels
<1>5. \A p \in Levels : used[p] \in Levels /\ (n >= 2 => used[p] < Grid)
  BY <1>4 DEF Used, Identity, Calibrators
<1> HIDE DEF arranged, used
<1>6. \A i \in 1 .. n : Confidence(arranged[i]) \in Levels
  BY <1>3, EventTypes
<1>7. probs = [i \in 1 .. n |-> used[Confidence(arranged[i])]]
  BY <1>3 DEF ProbsOf, arranged, used
<1> HIDE DEF probs
<1>8. probs \in [1 .. n -> Levels] /\ (n >= 2 => \A i \in 1 .. n : probs[i] < Grid)
  BY <1>5, <1>6, <1>7
<1> QED
  BY <1>0, <1>2, <1>8 DEF probs

\* The rows of the fit, summed up one by one, cost what the fit says.
LEMMA RowsCost ==
  ASSUME NEW labeled \in Seq(Events), NEW n, n = Len(labeled),
         NEW order \in [1 .. n -> 1 .. n], NEW predict \in Calibrators, NEW tau \in Levels
  PROVE  CostOfRows(RowsOf(labeled, order, predict), tau)
           = Total(PlaceCosts(ReviewedAt(ProbsOf(labeled, order, predict), tau),
                              ErrorsOf(labeled), SevsOf(labeled)))
<1> DEFINE probs == ProbsOf(labeled, order, predict)
           errors == ErrorsOf(labeled)
           sevs == SevsOf(labeled)
           rows == RowsOf(labeled, order, predict)
           costs == PlaceCosts(ReviewedAt(probs, tau), errors, sevs)
           sum == [i \in DOMAIN rows |-> CaseCost(rows[i][1], rows[i][2], rows[i][3], tau)]
<1>1. rows = [i \in 1 .. n |-> <<probs[i], errors[i], sevs[i]>>]
  BY DEF RowsOf
<1>2. probs \in [1 .. n -> Levels]
  BY FitTypes
<1> HIDE DEF probs, errors, sevs, rows
<1>3. costs = [i \in 1 .. n |-> IF probs[i] >= tau THEN EscalateCost
                                ELSE IF errors[i] THEN CostOf[sevs[i]] ELSE 0]
  BY <1>2 DEF PlaceCosts, ReviewedAt, Reviewed
<1>4. \A i \in 1 .. n : probs[i] # NoP
  BY <1>2, CostAssumption DEF Levels
<1>5. sum = costs
  BY <1>1, <1>3, <1>4 DEF CaseCost
<1> QED
  BY <1>5 DEF CostOfRows, rows, probs, errors, sevs

\* Events without a label leave no trace in what is fitted.
LEMMA LabeledAlone ==
  ASSUME NEW events \in Seq(Events), NEW labeled, labeled = LabeledOf(events)
  PROVE  LabeledOf(labeled) = labeled /\ \A i \in 1 .. Len(labeled) : Labeled(labeled[i])
<1> DEFINE mask == FitMask(events)
           K == FitPlaces(events)
           n == Len(K)
           more == FitMask(labeled)
           L == FitPlaces(labeled)
<1>1. /\ \A i \in 1 .. Len(events) : mask[i] = Labeled(events[i])
      /\ Keeps(K, mask, Len(events)) /\ n \in Nat
      /\ labeled \in Seq(Events) /\ Len(labeled) = n
      /\ labeled = [k \in 1 .. n |-> events[K[k]]]
  BY FitPlacesAre
<1>2. ASSUME NEW k \in 1 .. n
      PROVE  Labeled(labeled[k])
  <2>1. K[k] \in 1 .. Len(events) /\ mask[K[k]]
    BY <1>1 DEF Keeps
  <2> QED
    BY <1>1, <2>1
<1> HIDE DEF n
<1>3. /\ more \in [1 .. n -> BOOLEAN] /\ \A i \in 1 .. n : more[i] = Labeled(labeled[i])
      /\ L = Kept(more)[n] /\ LabeledOf(labeled) = [k \in 1 .. Len(L) |-> labeled[L[k]]]
  <2> DEFINE N == Len(labeled)
             same == LabeledOf(labeled)
  <2>1. /\ more \in [1 .. N -> BOOLEAN] /\ \A i \in 1 .. N : more[i] = Labeled(labeled[i])
        /\ L = Kept(more)[N] /\ same = [k \in 1 .. Len(L) |-> labeled[L[k]]]
    <3>1. labeled \in Seq(Events) /\ N = Len(labeled) /\ same = LabeledOf(labeled)
      BY <1>1
    <3> HIDE DEF N, same, Events
    <3> QED
      BY <3>1, FitPlacesAre
  <2> QED
    BY <1>1, <2>1
<1> HIDE DEF mask, K, more, L
<1>4. L = [i \in 1 .. n |-> i]
  <2>1. \A i \in 1 .. n : more[i]
    BY <1>2, <1>3
  <2> QED
    BY <1>1, <1>3, <2>1, AllKept
<1>5. Len(L) = n
  BY <1>1, <1>4
<1>6. labeled = [k \in 1 .. n |-> labeled[k]]
  <2> HIDE DEF Events
  <2> QED
    BY <1>1
<1> QED
  BY <1>1, <1>2, <1>3, <1>4, <1>5, <1>6

LEMMA LabelsAreKept ==
  ASSUME NEW events \in Seq(Events)
  PROVE  [i \in DOMAIN events |-> Labeled(events[i])] = FitMask(events)
<1>1. \A i \in DOMAIN events : events[i] \in Events
  <2> HIDE DEF Events
  <2> QED
    OBVIOUS
<1> HIDE DEF Events
<1>2. \A i \in DOMAIN events : HasP(events[i]) /\ Labeled(events[i]) \in BOOLEAN
  BY <1>1, EventTypes
<1> QED
  BY <1>2 DEF FitMask

\* The probabilities of the labeled events are theirs alone.
LEMMA CalibratedAlone ==
  ASSUME NEW events \in Seq(Events), NEW labeled, labeled = LabeledOf(events), NEW used
  PROVE  Calibrated(labeled, used) = Masked(Calibrated(events, used), FitMask(events))
<1> DEFINE mask == FitMask(events)
           K == FitPlaces(events)
           n == Len(K)
           more == FitMask(labeled)
           N == Len(events)
<1>1. /\ \A i \in 1 .. N : mask[i] = Labeled(events[i])
      /\ Keeps(K, mask, N) /\ n \in Nat /\ K = Kept(mask)[N] /\ DOMAIN K = 1 .. n
      /\ labeled \in Seq(Events) /\ Len(labeled) = n
      /\ labeled = [k \in 1 .. n |-> events[K[k]]]
      /\ mask \in [1 .. N -> BOOLEAN]
  BY FitPlacesAre
<1>2. Len(mask) = N /\ DOMAIN events = 1 .. N /\ N \in Nat
  <2> HIDE DEF Events, mask
  <2>1. DOMAIN events = 1 .. N /\ N \in Nat
    OBVIOUS
  <2> QED
    BY <1>1, <2>1
<1>3. \A k \in 1 .. n : K[k] \in 1 .. N /\ mask[K[k]]
  BY <1>1 DEF Keeps
<1>4. \A k \in 1 .. n : more[k]
  <2>1. \A k \in 1 .. n : Labeled(labeled[k])
    BY <1>1, LabeledAlone
  <2>2. \A k \in 1 .. n : more[k] = Labeled(labeled[k])
    BY <1>1, FitPlacesAre
  <2> QED
    BY <2>1, <2>2
<1>5. Calibrated(labeled, used) = [k \in 1 .. n |-> used[Confidence(labeled[k])]]
  <2> HIDE DEF n
  <2> QED
    BY <1>1, <1>4 DEF Calibrated, more
<1>6. Masked(Calibrated(events, used), mask)
        = [k \in 1 .. n |-> Calibrated(events, used)[K[k]]]
  BY <1>1, <1>2 DEF Masked
<1> HIDE DEF K, n, N, more
<1>7. \A k \in 1 .. n : Calibrated(events, used)[K[k]] = used[Confidence(events[K[k]])]
  BY <1>2, <1>3 DEF Calibrated
<1>8. \A k \in 1 .. n : labeled[k] = events[K[k]]
  BY <1>1
<1> DEFINE before == Calibrated(events, used)
<1>9. [k \in 1 .. n |-> before[K[k]]] = [k \in 1 .. n |-> used[Confidence(labeled[k])]]
  <2>1. \A k \in 1 .. n : before[K[k]] = used[Confidence(labeled[k])]
    BY <1>7, <1>8
  <2> HIDE DEF before
  <2> QED
    BY <2>1
<1> QED
  BY <1>5, <1>6, <1>9

------------------------------------------------------------------------------
\* What the ledger holds, and the policy in use.
LoopTypes == ledger \in Seq(Events) /\ threshold \in Levels

LEMMA OldestTypes ==
  ASSUME LoopTypes, NEW limit \in Nat, NEW events, events = Oldest(limit)
  PROVE  events \in Seq(Events) /\ Len(events) \in Nat /\ Len(events) <= limit
<1> DEFINE n == IF Len(ledger) < limit THEN Len(ledger) ELSE limit
<1>1. ledger \in Seq(Events) /\ n \in Nat /\ n <= Len(ledger) /\ n <= limit
  <2> HIDE DEF Events
  <2> QED
    BY DEF LoopTypes
<1> HIDE DEF Events, n
<1>2. SubSeq(ledger, 1, n) \in Seq(Events) /\ Len(SubSeq(ledger, 1, n)) = n
  BY <1>1
<1> QED
  BY <1>1, <1>2 DEF Oldest, n

OneToOne(f, n) == \A i, j \in 1 .. n : f[i] = f[j] => i = j

Onto(f, n) == \A i \in 1 .. n : \E j \in 1 .. n : f[j] = i

\* What a fit is given.
LEMMA FitIsGiven ==
  ASSUME LoopTypes, NEW events, events = Oldest(FitLimit), NEW labeled, labeled = LabeledOf(events),
         NEW n, n = Len(labeled), NEW order \in Shuffle(Len(FitPlaces(events)))
  PROVE  /\ events \in Seq(Events) /\ labeled \in Seq(Events)
         /\ Len(FitPlaces(events)) = n /\ n \in Nat
         /\ order \in [1 .. n -> 1 .. n] /\ OneToOne(order, n) /\ Onto(order, n)
<1>1. FitLimit \in Nat
  BY CaseAssumption
<1>2. events \in Seq(Events) /\ Len(events) \in Nat /\ Len(events) <= FitLimit
  BY <1>1, OldestTypes
<1>3. /\ labeled \in Seq(Events) /\ n = Len(FitPlaces(events)) /\ n \in Nat
      /\ Keeps(FitPlaces(events), FitMask(events), Len(events))
  BY <1>2, FitPlacesAre
<1>4. n \in 0 .. FitLimit
  BY <1>1, <1>2, <1>3 DEF Keeps
<1>5. order \in Bijection(1 .. n, 1 .. n)
  BY <1>3, <1>4, CaseAssumption
<1> QED
  BY <1>2, <1>3, <1>5 DEF Bijection, Injection, Surjection, IsInjective, OneToOne, Onto

LEMMA TracedAre ==
  ASSUME LoopTypes, NEW events, events = TracedOf(ledger)
  PROVE  events \in Seq(Events)
<1> DEFINE mask == [i \in DOMAIN ledger |-> ledger[i].p # NoP \/ ledger[i].featured]
           N == Len(ledger)
           K == Kept(mask)[N]
<1>1. N \in Nat /\ DOMAIN ledger = 1 .. N /\ \A i \in 1 .. N : ledger[i] \in Events
  <2> HIDE DEF Events
  <2> QED
    BY DEF LoopTypes
<1> HIDE DEF Events, N
<1>2. mask \in [1 .. N -> BOOLEAN]
  BY <1>1, EventTypes
<1> HIDE DEF mask
<1>3. Len(mask) = N /\ Keeps(K, mask, N)
  BY <1>1, <1>2, KeptFacts
<1> HIDE DEF K
<1> DEFINE n == Len(K)
<1>4. n \in Nat /\ DOMAIN K = 1 .. n /\ \A k \in 1 .. n : K[k] \in 1 .. N
  BY <1>3 DEF Keeps
<1>5. events = [k \in 1 .. n |-> ledger[K[k]]]
  BY <1>3, <1>4 DEF TracedOf, Masked, mask, K
<1> HIDE DEF n
<1>6. \A k \in 1 .. n : ledger[K[k]] \in Events
  BY <1>1, <1>4
<1>7. events \in [1 .. n -> Events]
  BY <1>5, <1>6
<1> QED
  BY <1>4, <1>7

\* The three sequences that the command `simulate` fits on.
LEMMA SimulatedFit ==
  ASSUME NEW events \in Seq(Events), NEW n, n = Len(events)
  PROVE  /\ n \in Nat /\ DOMAIN events = 1 .. n
         /\ [i \in DOMAIN events |-> Confidence(events[i])] \in [1 .. n -> Levels]
         /\ [i \in DOMAIN events |-> IsError(events[i])] \in [1 .. n -> BOOLEAN]
         /\ [i \in DOMAIN events |-> events[i].severity] \in [1 .. n -> Severities]
<1>1. n \in Nat /\ DOMAIN events = 1 .. n /\ \A i \in 1 .. n : events[i] \in Events
  <2> HIDE DEF Events
  <2> QED
    OBVIOUS
<1> HIDE DEF Events
<1>2. \A i \in 1 .. n : /\ Confidence(events[i]) \in Levels /\ IsError(events[i]) \in BOOLEAN
                      /\ events[i].severity \in Severities
  BY <1>1, EventTypes
<1> QED
  BY <1>1, <1>2

------------------------------------------------------------------------------
LEMMA TypesInit == Init => LoopTypes
  BY CostAssumption DEF Init, LoopTypes, Levels

LEMMA AppendKeepsTypes ==
  ASSUME LoopTypes, NEW e \in Events, AppendToLedger(e)
  PROVE  LoopTypes'
<1>1. ledger' = Append(ledger, e) /\ threshold' = threshold
  BY DEF AppendToLedger
<1> HIDE DEF Events
<1> QED
  BY <1>1 DEF LoopTypes

LEMMA FitGivesLevel ==
  ASSUME LoopTypes, NEW order \in Shuffle(Len(FitPlaces(Oldest(FitLimit)))),
         NEW predict \in Calibrators
  PROVE  Pipeline(Oldest(FitLimit), order, predict).threshold \in Levels
<1> DEFINE events == Oldest(FitLimit)
           labeled == LabeledOf(events)
           n == Len(labeled)
           fit == FitOf(labeled, order, predict)
<1>1. events \in Seq(Events) /\ labeled \in Seq(Events) /\ order \in [1 .. n -> 1 .. n]
  BY FitIsGiven
<1> HIDE DEF events, labeled
<1>2. Pipeline(events, order, predict).threshold
        = IF labeled = << >> THEN 0 ELSE fit.best_threshold
  BY <1>1, PipelineIs DEF labeled
<1>3. fit.best_threshold \in Levels
  BY <1>1, FitTypes, FitFacts DEF FitOf
<1>4. 0 \in Levels
  BY CostAssumption DEF Levels
<1> QED
  BY <1>2, <1>3, <1>4 DEF events

LEMMA TypesNext ==
  ASSUME LoopTypes, [Next]_vars
  PROVE  LoopTypes'
<1>0. Len(ledger) \in Nat /\ \A n \in DOMAIN ledger : n \in Nat /\ ledger[n] \in Events
  <2> HIDE DEF Events
  <2> QED
    BY DEF LoopTypes
<1>1. ASSUME NEW c \in Cases, RecordDecision(c)
      PROVE  LoopTypes'
  <2> DEFINE e == [kind |-> "decision", of |-> Len(ledger) + 1, p |-> c.p,
                   featured |-> c.featured, error |-> c.error, severity |-> c.severity, decision |-> c.decision]
  <2>1. e \in Events
    BY <1>0, CaseAssumption DEF Events
  <2> HIDE DEF e
  <2>2. AppendToLedger(e)
    BY <1>1 DEF RecordDecision, e
  <2> QED
    BY <2>1, <2>2, AppendKeepsTypes
<1>2. ASSUME NEW matched \in BOOLEAN, NEW final \in BOOLEAN, NEW answer \in Answers,
             NEW s \in Severities, RecordStep(matched, final, answer, s)
      PROVE  LoopTypes'
  <2> DEFINE p == IF answer = NoP THEN StandIn(matched) ELSE answer
             error == CASE ~ final -> "absent" [] matched -> "false" [] OTHER -> "true"
             decision == IF final THEN "ALLOW" ELSE "VERIFY"
             e == [kind |-> "step", of |-> Len(ledger) + 1, p |-> p, featured |-> TRUE,
                   error |-> error, severity |-> s, decision |-> decision]
  <2>1. p \in Levels
    <3>1. StandIn(matched) \in 0 .. Grid
      BY CostAssumption DEF StandIn
    <3> QED
      BY <3>1, CaseAssumption DEF Levels
  <2>2. error \in {"absent", "false", "true"} /\ decision \in {"ALLOW", "VERIFY"}
    OBVIOUS
  <2>3. AppendToLedger(e)
    BY <1>2 DEF RecordStep
  <2> HIDE DEF p, error, decision
  <2>4. e \in Events
    BY <1>0, <2>1, <2>2 DEF Events
  <2> HIDE DEF e
  <2> QED
    BY <2>3, <2>4, AppendKeepsTypes
<1>3. ASSUME NEW kind \in {"opened", "resolved"}, NEW n \in DOMAIN ledger,
             NEW d \in {"ALLOW", "DENY", "VERIFY", "ESCALATE"},
             AppendToLedger(Marker(kind, n, d))
      PROVE  LoopTypes'
  <2>1. n \in Nat /\ ledger[n].p \in Levels \union {NoP} /\ ledger[n].featured \in BOOLEAN
    BY <1>0, EventTypes
  <2>2. Marker(kind, n, d) \in Events
    BY <2>1, CaseAssumption DEF Marker, Events
  <2> QED
    BY <1>3, <2>2, AppendKeepsTypes
<1>4. ASSUME NEW n \in DOMAIN ledger, OpenReview(n)
      PROVE  LoopTypes'
  BY <1>3, <1>4 DEF OpenReview
<1>5. ASSUME NEW n \in DOMAIN ledger, NEW d \in {"ALLOW", "DENY", "VERIFY"}, ResolveReview(n, d)
      PROVE  LoopTypes'
  BY <1>3, <1>5 DEF ResolveReview
<1>6. ASSUME NEW order \in Shuffle(Len(FitPlaces(Oldest(FitLimit)))), NEW predict \in Calibrators,
             FitPolicy(order, predict)
      PROVE  LoopTypes'
  <2>1. threshold' = Pipeline(Oldest(FitLimit), order, predict).threshold /\ ledger' = ledger
    BY <1>6 DEF FitPolicy
  <2> QED
    BY <2>1, FitGivesLevel DEF LoopTypes
<1>7. ASSUME NEW tau \in Levels, Replay(tau)
      PROVE  LoopTypes'
  BY <1>7 DEF Replay, LoopTypes
<1>8. CASE SimulateBest
  BY <1>8 DEF SimulateBest, LoopTypes
<1>9. CASE UNCHANGED vars
  BY <1>9 DEF vars, LoopTypes
<1> QED
  BY <1>1, <1>2, <1>4, <1>5, <1>6, <1>7, <1>8, <1>9 DEF Next

------------------------------------------------------------------------------
LEMMA LabelsAlone ==
  ASSUME LoopTypes, NEW order \in Shuffle(Len(FitPlaces(Oldest(FitLimit)))),
         NEW predict \in Calibrators, FitPolicy(order, predict)
  PROVE  OnlyLabelsTrain'
<1> DEFINE events == Oldest(FitLimit)
           labeled == LabeledOf(events)
           n == Len(labeled)
           used == Used(labeled, predict)
           result == Pipeline(events, order, predict)
           alone == Pipeline(labeled, order, used)
<1>1. /\ last' = [call |-> "fit", events |-> events, order |-> order, result |-> result]
  BY DEF FitPolicy
<1>2. events \in Seq(Events) /\ labeled \in Seq(Events) /\ order \in [1 .. n -> 1 .. n]
  BY FitIsGiven
<1> HIDE DEF events
<1>3. LabeledOf(labeled) = labeled
  BY <1>2, LabeledAlone
<1>4. /\ result.rows = RowsOf(labeled, order, predict) /\ result.predict = used
      /\ result.calibrated = Calibrated(events, used)
      /\ result.threshold = IF labeled = << >> THEN 0 ELSE FitOf(labeled, order, predict).best_threshold
  BY <1>2, PipelineIs
<1> HIDE DEF labeled, used, result
<1>5. /\ alone.rows = RowsOf(labeled, order, used)
      /\ alone.calibrated = Calibrated(labeled, Used(labeled, used))
      /\ alone.threshold = IF labeled = << >> THEN 0 ELSE FitOf(labeled, order, used).best_threshold
  BY <1>2, <1>3, PipelineIs
<1>6. Used(labeled, used) = used
  BY DEF Used, used
<1>7. ProbsOf(labeled, order, used) = ProbsOf(labeled, order, predict)
  BY <1>6 DEF ProbsOf, used
<1>8. RowsOf(labeled, order, used) = RowsOf(labeled, order, predict)
      /\ FitOf(labeled, order, used) = FitOf(labeled, order, predict)
  BY <1>7 DEF RowsOf, FitOf
<1>9. Calibrated(labeled, used) = Masked(Calibrated(events, used), FitMask(events))
  BY <1>2, CalibratedAlone DEF labeled
<1>10. [i \in DOMAIN events |-> Labeled(events[i])] = FitMask(events)
  BY <1>2, LabelsAreKept
<1>11. labeled = Masked(events, FitMask(events))
  BY DEF labeled, LabeledOf
<1> DEFINE isLabeled == [i \in DOMAIN events |-> Labeled(events[i])]
<1> HIDE DEF alone
<1>12. /\ alone.threshold = result.threshold /\ alone.rows = result.rows
       /\ alone.calibrated = Masked(result.calibrated, isLabeled)
  BY <1>4, <1>5, <1>6, <1>8, <1>9, <1>10
<1>13. alone = Pipeline(Masked(events, isLabeled), order, result.predict)
  BY <1>4, <1>10, <1>11 DEF alone
<1> HIDE DEF isLabeled
<1>14. /\ last'.events = events /\ last'.result = result /\ last'.order = order
       /\ isLabeled = [i \in DOMAIN last'.events |-> Labeled(last'.events[i])]
  BY <1>1 DEF isLabeled
<1> QED
  BY <1>12, <1>13, <1>14 DEF OnlyLabelsTrain

Values(f, from, to) == {f[i] : i \in from .. to}

\* What is met on the way through a sequence without repetitions is not met
\* again after it.
LEMMA PartsOfRange ==
  ASSUME NEW n \in Nat, NEW m \in 1 .. n - 1, NEW at, OneToOne(at, n)
  PROVE  /\ Values(at, 1, m) # {} /\ Values(at, m + 1, n) # {}
         /\ Values(at, 1, m) \intersect Values(at, m + 1, n) = {}
         /\ Values(at, 1, m) \union Values(at, m + 1, n) = Values(at, 1, n)
<1> DEFINE first == Values(at, 1, m)
           rest == Values(at, m + 1, n)
           all == Values(at, 1, n)
<1>1. at[1] \in first /\ at[n] \in rest
  BY DEF Values
<1>2. ASSUME NEW x \in first, x \in rest
      PROVE  FALSE
  <2>1. PICK i \in 1 .. m : x = at[i]
    BY DEF Values
  <2>2. PICK j \in m + 1 .. n : x = at[j]
    BY <1>2 DEF Values
  <2>3. i \in 1 .. n /\ j \in 1 .. n /\ i # j
    OBVIOUS
  <2> QED
    BY <2>1, <2>2, <2>3 DEF OneToOne
<1>3. ASSUME NEW x \in first \union rest
      PROVE  x \in all
  <2>1. PICK i \in 1 .. n : x = at[i]
    BY DEF Values
  <2> QED
    BY <2>1 DEF Values
<1>4. ASSUME NEW x \in all
      PROVE  x \in first \union rest
  <2>1. PICK i \in 1 .. n : x = at[i]
    BY DEF Values
  <2>2. i \in 1 .. m \/ i \in m + 1 .. n
    OBVIOUS
  <2> QED
    BY <2>1, <2>2 DEF Values
<1> HIDE DEF first, rest, all
<1>5. first # {} /\ rest # {} /\ first \intersect rest = {} /\ first \union rest = all
  BY <1>1, <1>2, <1>3, <1>4
<1> QED
  BY <1>5 DEF first, rest, all

PlacesOf(mask, N) == {i \in 1 .. N : mask[i]}

\* The kept places, in any order.
LEMMA PlacesShuffled ==
  ASSUME NEW n \in Nat, NEW N \in Nat, NEW mask, NEW places, Keeps(places, mask, N),
         Len(places) = n, NEW order \in [1 .. n -> 1 .. n], OneToOne(order, n), Onto(order, n)
  PROVE  OneToOne(Image(places, order), n) /\ Values(Image(places, order), 1, n) = PlacesOf(mask, N)
<1> DEFINE at == Image(places, order)
<1>0. \A i \in 1 .. n : at[i] = places[order[i]]
  BY DEF Image
<1>1. /\ \A k \in 1 .. n : places[k] \in 1 .. N /\ mask[places[k]]
      /\ \A i \in 1 .. N : mask[i] => \E k \in 1 .. n : places[k] = i
      /\ \A k, j \in 1 .. n : k < j => places[k] < places[j]
  BY DEF Keeps
<1> HIDE DEF at
<1>2. ASSUME NEW k \in 1 .. n, NEW j \in 1 .. n, places[k] = places[j]
      PROVE  k = j
  <2>1. places[k] \in 1 .. N /\ places[j] \in 1 .. N
    BY <1>1
  <2>2. ~ places[k] < places[j] /\ ~ places[j] < places[k]
    BY <1>2, <2>1
  <2>3. ~ k < j /\ ~ j < k
    BY <1>1, <2>2
  <2> QED
    BY <2>3
<1>3. OneToOne(at, n)
  <2> SUFFICES ASSUME NEW i \in 1 .. n, NEW j \in 1 .. n, at[i] = at[j] PROVE i = j
    BY DEF OneToOne
  <2>1. order[i] \in 1 .. n /\ order[j] \in 1 .. n /\ places[order[i]] = places[order[j]]
    BY <1>0
  <2>2. order[i] = order[j]
    BY <1>2, <2>1
  <2> QED
    BY <2>2 DEF OneToOne
<1>4. ASSUME NEW i \in 1 .. n
      PROVE  at[i] \in 1 .. N /\ mask[at[i]]
  BY <1>0, <1>1
<1>5. ASSUME NEW x \in 1 .. N, mask[x]
      PROVE  \E i \in 1 .. n : at[i] = x
  <2>1. PICK k \in 1 .. n : places[k] = x
    BY <1>1, <1>5
  <2>2. PICK i \in 1 .. n : order[i] = k
    BY DEF Onto
  <2> QED
    BY <1>0, <2>1, <2>2
<1>6. \A x : x \in Values(at, 1, n) <=> x \in PlacesOf(mask, N)
  BY <1>4, <1>5 DEF Values, PlacesOf
<1> QED
  BY <1>3, <1>6 DEF at

\* The halves of a fit share no event, and together are the labeled ones.
LEMMA HalvesPart ==
  ASSUME NEW n \in Nat, n >= 2, NEW N \in Nat, NEW mask, NEW places, Keeps(places, mask, N),
         Len(places) = n, NEW order \in [1 .. n -> 1 .. n], OneToOne(order, n), Onto(order, n)
  PROVE  /\ FittedOn(places, order) # {} /\ ReportedOn(places, order) # {}
         /\ FittedOn(places, order) \intersect ReportedOn(places, order) = {}
         /\ FittedOn(places, order) \union ReportedOn(places, order) = PlacesOf(mask, N)
<1> DEFINE m == Split(n)
           at == Image(places, order)
           a == FitHalf(order)
           b == HeldHalf(order)
<1>1. m \in 1 .. n - 1 /\ a = [i \in 1 .. m |-> order[i]] /\ b = [i \in 1 .. n - m |-> order[m + i]]
  BY HalvesAre
<1>2. OneToOne(at, n) /\ Values(at, 1, n) = PlacesOf(mask, N)
  BY PlacesShuffled
<1>3. \A i \in 1 .. n : at[i] = places[order[i]]
  BY DEF Image
<1> HIDE DEF m, at, a, b
<1>4. FittedOn(places, order) = Values(at, 1, m)
  <2>1. \A i \in 1 .. m : i \in 1 .. n /\ i \in DOMAIN a /\ a[i] = order[i]
    BY <1>1
  <2>2. ASSUME NEW x \in FittedOn(places, order)
        PROVE  x \in Values(at, 1, m)
    <3>1. PICK i \in DOMAIN a : x = places[a[i]]
      BY DEF FittedOn, ToSet, a
    <3>2. i \in 1 .. m
      BY <1>1
    <3>3. x = at[i]
      BY <1>3, <2>1, <3>1, <3>2
    <3> QED
      BY <3>2, <3>3 DEF Values
  <2>3. ASSUME NEW x \in Values(at, 1, m)
        PROVE  x \in FittedOn(places, order)
    <3>1. PICK i \in 1 .. m : x = at[i]
      BY DEF Values
    <3>2. x = places[a[i]] /\ i \in DOMAIN a
      BY <1>3, <2>1, <3>1
    <3> QED
      BY <3>2 DEF FittedOn, ToSet, a
  <2> QED
    BY <2>2, <2>3
<1>5. ReportedOn(places, order) = Values(at, m + 1, n)
  <2>1. \A i \in 1 .. n - m : m + i \in m + 1 .. n /\ m + i \in 1 .. n /\ i \in DOMAIN b
                              /\ b[i] = order[m + i]
    BY <1>1
  <2>2. ASSUME NEW x \in ReportedOn(places, order)
        PROVE  x \in Values(at, m + 1, n)
    <3>1. PICK i \in DOMAIN b : x = places[b[i]]
      BY DEF ReportedOn, ToSet, b
    <3>2. i \in 1 .. n - m
      BY <1>1
    <3>3. x = at[m + i] /\ m + i \in m + 1 .. n
      BY <1>3, <2>1, <3>1, <3>2
    <3> QED
      BY <3>3 DEF Values
  <2>3. ASSUME NEW x \in Values(at, m + 1, n)
        PROVE  x \in ReportedOn(places, order)
    <3>1. PICK j \in m + 1 .. n : x = at[j]
      BY DEF Values
    <3>2. PICK i \in 1 .. n - m : m + i = j
      <4>1. j - m \in 1 .. n - m /\ m + (j - m) = j
        BY <1>1
      <4> QED
        BY <4>1
    <3>3. x = places[b[i]] /\ i \in DOMAIN b
      BY <1>3, <2>1, <3>1, <3>2
    <3> QED
      BY <3>3 DEF ReportedOn, ToSet, b
  <2> QED
    BY <2>2, <2>3
<1>6. m \in 1 .. n - 1 /\ OneToOne(at, n)
  BY <1>1, <1>2
<1>7. /\ Values(at, 1, m) # {} /\ Values(at, m + 1, n) # {}
      /\ Values(at, 1, m) \intersect Values(at, m + 1, n) = {}
      /\ Values(at, 1, m) \union Values(at, m + 1, n) = Values(at, 1, n)
  BY <1>6, PartsOfRange
<1> QED
  BY <1>2, <1>4, <1>5, <1>7

LEMMA ReportHeldOut ==
  ASSUME LoopTypes, NEW order \in Shuffle(Len(FitPlaces(Oldest(FitLimit)))),
         NEW predict \in Calibrators, FitPolicy(order, predict)
  PROVE  ReportIsHeldOut'
<1> DEFINE events == Oldest(FitLimit)
           labeled == LabeledOf(events)
           n == Len(labeled)
           places == FitPlaces(events)
           mask == FitMask(events)
           N == Len(events)
           result == Pipeline(events, order, predict)
<1>1. last' = [call |-> "fit", events |-> events, order |-> order, result |-> result]
  BY DEF FitPolicy
<1>2. /\ events \in Seq(Events) /\ labeled \in Seq(Events) /\ n \in Nat /\ Len(places) = n
      /\ order \in [1 .. n -> 1 .. n] /\ OneToOne(order, n) /\ Onto(order, n)
  BY FitIsGiven
<1> HIDE DEF events
<1>3. /\ mask \in [1 .. N -> BOOLEAN] /\ \A i \in 1 .. N : mask[i] = Labeled(events[i])
      /\ Keeps(places, mask, N)
  BY <1>2, FitPlacesAre
<1>4. N \in Nat /\ DOMAIN events = 1 .. N
  <2> HIDE DEF Events
  <2> QED
    BY <1>2
<1>5. result.n_labeled = n
      /\ (n >= 2 => /\ result.fitted_on = FittedOn(places, order)
                    /\ result.reported_on = ReportedOn(places, order))
  BY <1>2, PipelineIs
<1> DEFINE fitted == result.fitted_on
           held == result.reported_on
<1> HIDE DEF N, places, mask, n
<1>6. ASSUME n >= 2
      PROVE  /\ fitted # {} /\ held # {} /\ fitted \intersect held = {}
             /\ fitted \union held = PlacesOf(mask, N)
  <2>1. /\ FittedOn(places, order) # {} /\ ReportedOn(places, order) # {}
        /\ FittedOn(places, order) \intersect ReportedOn(places, order) = {}
        /\ FittedOn(places, order) \union ReportedOn(places, order) = PlacesOf(mask, N)
    <3>1. /\ n \in Nat /\ n >= 2 /\ N \in Nat /\ Keeps(places, mask, N) /\ Len(places) = n
          /\ order \in [1 .. n -> 1 .. n] /\ OneToOne(order, n) /\ Onto(order, n)
      BY <1>2, <1>3, <1>4, <1>6
    <3> QED
      BY <3>1, HalvesPart
  <2> QED
    BY <1>5, <1>6, <2>1
<1> HIDE DEF result
<1>7. PlacesOf(mask, N) = {i \in DOMAIN events : Labeled(events[i])}
  BY <1>3, <1>4 DEF PlacesOf
<1>8. last'.events = events /\ last'.result = result
  BY <1>1
<1>9. {i \in DOMAIN events : Labeled(events[i]) /\ events[i].p # NoP}
        \subseteq {i \in DOMAIN events : Labeled(events[i])}
  OBVIOUS
<1> QED
  BY <1>5, <1>6, <1>7, <1>8, <1>9 DEF ReportIsHeldOut

LEMMA ThresholdCheapest ==
  ASSUME LoopTypes, NEW order \in Shuffle(Len(FitPlaces(Oldest(FitLimit)))),
         NEW predict \in Calibrators, FitPolicy(order, predict)
  PROVE  ThresholdIsCheapest'
<1> DEFINE events == Oldest(FitLimit)
           labeled == LabeledOf(events)
           n == Len(labeled)
           result == Pipeline(events, order, predict)
           probs == ProbsOf(labeled, order, predict)
           fit == FitOf(labeled, order, predict)
           rows == RowsOf(labeled, order, predict)
           cost(tau) == Total(PlaceCosts(ReviewedAt(probs, tau), ErrorsOf(labeled), SevsOf(labeled)))
<1>1. last' = [call |-> "fit", events |-> events, order |-> order, result |-> result]
  BY DEF FitPolicy
<1>2. /\ events \in Seq(Events) /\ labeled \in Seq(Events) /\ n \in Nat
      /\ order \in [1 .. n -> 1 .. n]
  BY FitIsGiven
<1> HIDE DEF events
<1>3. /\ result.rows = rows /\ result.n_labeled = n /\ result.best_cost = fit.best_cost
      /\ result.baseline = fit.baseline_cost
      /\ result.threshold = IF labeled = << >> THEN 0 ELSE fit.best_threshold
  BY <1>2, PipelineIs
<1> HIDE DEF result, labeled
<1>4. /\ probs \in [1 .. n -> Levels] /\ ErrorsOf(labeled) \in [1 .. n -> BOOLEAN]
      /\ SevsOf(labeled) \in [1 .. n -> Severities]
      /\ n >= 2 => \A i \in 1 .. n : probs[i] < Grid
  BY <1>2, FitTypes
<1>5. \A tau \in Levels : CostOfRows(rows, tau) = cost(tau)
  BY <1>2, RowsCost
<1> HIDE DEF n, probs, rows
<1>6. /\ fit.best_threshold \in Levels /\ fit.best_cost = cost(fit.best_threshold)
      /\ (\A tau \in Levels : fit.best_cost <= cost(tau))
      /\ (n >= 2 => fit.best_cost <= fit.baseline_cost)
  BY <1>2, <1>4, FitFacts DEF FitOf, probs
<1> HIDE DEF fit, cost
<1>7. ASSUME n > 0
      PROVE  result.threshold = fit.best_threshold
  <2>1. labeled # << >>
    BY <1>7 DEF n
  <2> QED
    BY <1>3, <2>1
<1>8. last'.result = result
  BY <1>1
<1> QED
  BY <1>3, <1>5, <1>6, <1>7, <1>8 DEF ThresholdIsCheapest

------------------------------------------------------------------------------
\* What each event of a replay costs.
EventCosts(events, tau) ==
    [i \in DOMAIN events |->
        CaseCost(events[i].p, LossOnError(events[i]), events[i].severity, tau)]

EscalatedAt(events, tau) == [i \in DOMAIN events |-> Escalated(events[i], tau)]

\* The losses that _loss() sums up are those of the events, one by one.
LEMMA ReplayCost ==
  ASSUME NEW events \in Seq(Events), NEW n, n = Len(events), NEW tau \in Levels
  PROVE  /\ n \in Nat /\ DOMAIN events = 1 .. n /\ EscalatedAt(events, tau) \in [1 .. n -> BOOLEAN]
         /\ EventCosts(events, tau) \in Seq(Nat) /\ Len(EventCosts(events, tau)) = n
         /\ EventCosts(events, tau) \in [1 .. n -> Nat]
         /\ ReplayLoss(events, tau) = Total(EventCosts(events, tau))
         /\ ReplayLoss(events, tau) \in Nat
<1> DEFINE errors == [i \in DOMAIN events |-> LossOnError(events[i])]
           sevs == [i \in DOMAIN events |-> events[i].severity]
           escalated == EscalatedAt(events, tau)
           costs == EventCosts(events, tau)
           places == PlaceCosts(escalated, errors, sevs)
<1>1. n \in Nat /\ DOMAIN events = 1 .. n /\ \A i \in 1 .. n : events[i] \in Events
  <2> HIDE DEF Events
  <2> QED
    OBVIOUS
<1> HIDE DEF Events
<1>2. \A i \in 1 .. n : LossOnError(events[i]) \in BOOLEAN /\ events[i].severity \in Severities
  BY <1>1, EventTypes
<1>3. errors \in [1 .. n -> BOOLEAN] /\ sevs \in [1 .. n -> Severities]
  BY <1>1, <1>2
<1>4. escalated \in [1 .. n -> BOOLEAN]
  BY <1>1 DEF EscalatedAt, Escalated
<1>5. places = costs
  BY <1>1, <1>4 DEF PlaceCosts, EventCosts, EscalatedAt, Escalated, CaseCost
<1>6. ReplayLoss(events, tau)
        = SeverityWeightedLoss(Masked(errors, Complement(escalated)),
                               Masked(sevs, Complement(escalated)))
          + EscalateCost * Count(escalated)
  BY DEF ReplayLoss, EscalatedAt
<1> HIDE DEF errors, sevs, escalated, costs
<1>7. ReplayLoss(events, tau) = Total(places)
  BY <1>1, <1>3, <1>4, <1>6, ReviewedCost
<1>8. places \in Seq(Nat) /\ Len(places) = n /\ Total(places) \in Nat /\ places \in [1 .. n -> Nat]
  <2>1. n \in Nat /\ escalated \in [1 .. n -> BOOLEAN]
        /\ errors \in [1 .. n -> BOOLEAN] /\ sevs \in [1 .. n -> Severities]
    BY <1>1, <1>3, <1>4
  <2>2. places \in [1 .. n -> Nat]
    BY <2>1, PlaceCostsAreNat
  <2>3. Total(places) \in Nat
    BY <2>1, PlaceCostsAreNat
  <2> HIDE DEF places
  <2>4. places \in Seq(Nat) /\ Len(places) = n
    BY <2>1, <2>2
  <2> QED
    BY <2>2, <2>3, <2>4
<1> HIDE DEF places
<1> QED
  BY <1>1, <1>4, <1>5, <1>7, <1>8 DEF costs, escalated

\* The review load is the number of events that are escalated.
LEMMA LoadIsCardinality ==
  ASSUME NEW events \in Seq(Events), NEW tau \in Levels
  PROVE  /\ ReviewLoad(events, tau) = Cardinality({i \in DOMAIN events : Escalated(events[i], tau)})
         /\ IsFiniteSet({i \in DOMAIN events : Escalated(events[i], tau)})
<1> DEFINE n == Len(events)
           mask == EscalatedAt(events, tau)
           set == {i \in 1 .. n : mask[i]}
<1>1. n \in Nat /\ DOMAIN events = 1 .. n /\ mask \in [1 .. n -> BOOLEAN]
  BY ReplayCost
<1>2. set = {i \in DOMAIN events : Escalated(events[i], tau)}
  BY <1>1 DEF EscalatedAt
<1>3. ReviewLoad(events, tau) = Count(mask)
  BY DEF ReviewLoad, EscalatedAt
<1> HIDE DEF mask, n
<1>4. Count(mask) = Cardinality(set)
  BY <1>1, CountIsCardinality
<1>5. IsFiniteSet(set)
  <2>1. IsFiniteSet(1 .. n)
    BY <1>1, FS_Interval
  <2> QED
    BY <2>1, FS_Subset
<1> QED
  BY <1>2, <1>3, <1>4, <1>5

\* Two sets differ in number by what is gained and what is lost.
LEMMA GainedAndLost ==
  ASSUME NEW A, NEW B, IsFiniteSet(A), IsFiniteSet(B)
  PROVE  Cardinality(B) - Cardinality(A) = Cardinality(B \ A) - Cardinality(A \ B)
<1> DEFINE both == A \intersect B
<1>1. IsFiniteSet(both)
  BY FS_Subset
<1>2. Cardinality(A \ B) = Cardinality(A) - Cardinality(both)
  BY FS_Difference
<1>3. B \ A = B \ (B \intersect A) /\ both = B \intersect A
  OBVIOUS
<1>4. Cardinality(B \ A) = Cardinality(B) - Cardinality(B \intersect A)
  BY FS_Difference
<1>5. /\ Cardinality(A) \in Nat /\ Cardinality(B) \in Nat /\ Cardinality(both) \in Nat
  BY <1>1, FS_CardinalityType
<1> HIDE DEF both
<1>6. Cardinality(B \ A) = Cardinality(B) - Cardinality(both)
  BY <1>3, <1>4
<1> QED
  BY <1>2, <1>5, <1>6

LEMMA ReplayExplained ==
  ASSUME LoopTypes, NEW tau \in Levels, Replay(tau)
  PROVE  ReplayIsExplained'
<1> DEFINE events == Oldest(ReplayLimit)
           before == threshold
           out == Simulate(events, before, tau)
           diff == PerCaseDiff(events, before, tau)
           e(i) == events[i]
           cost(i, t) == CaseCost(e(i).p, LossOnError(e(i)), e(i).severity, t)
           change(i) == cost(i, tau) - cost(i, before)
           changes == [i \in DOMAIN events |-> IF i \in diff THEN change(i) ELSE 0]
           gained == {i \in diff : Escalated(e(i), tau)}
<1>1. last' = [call |-> "replay", events |-> events, before |-> before, after |-> tau,
               outcome |-> out]
  BY DEF Replay
<1>2. before \in Levels /\ events \in Seq(Events)
  BY OldestTypes, CaseAssumption DEF LoopTypes
<1> HIDE DEF events, before
<1>3. /\ out.total_before = ReplayLoss(events, before) /\ out.total_after = ReplayLoss(events, tau)
      /\ out.before_review_load = ReviewLoad(events, before)
      /\ out.after_review_load = ReviewLoad(events, tau)
      /\ out.per_case_diff = diff
  BY DEF Simulate
<1>4. ReplayLoss(events, tau) - ReplayLoss(events, before) = Total(changes)
  <2> DEFINE n == Len(events)
             a == EventCosts(events, tau)
             b == EventCosts(events, before)
  <2>1. /\ n \in Nat /\ DOMAIN events = 1 .. n
        /\ a \in Seq(Nat) /\ Len(a) = n /\ b \in Seq(Nat) /\ Len(b) = n
        /\ ReplayLoss(events, tau) = Total(a) /\ ReplayLoss(events, before) = Total(b)
    BY <1>2, ReplayCost
  <2>2. \A i \in 1 .. n : a[i] = cost(i, tau) /\ b[i] = cost(i, before)
    BY <2>1 DEF EventCosts
  <2>3. ASSUME NEW i \in 1 .. n, i \notin diff
        PROVE  a[i] = b[i]
    <3>1. Escalated(e(i), before) = Escalated(e(i), tau)
      BY <2>1, <2>3 DEF PerCaseDiff
    <3> QED
      BY <2>2, <3>1 DEF Escalated, CaseCost
  <2> HIDE DEF n, a, b, diff, cost
  <2>4. \A i \in 1 .. n : a[i] \in Nat /\ b[i] \in Nat
    BY <2>1
  <2>5. ASSUME NEW i \in 1 .. n
        PROVE  changes[i] \in Int /\ changes[i] = a[i] + (-1) * b[i]
    <3>1. changes[i] = IF i \in diff THEN a[i] - b[i] ELSE 0
      BY <2>1, <2>2
    <3> QED
      BY <2>3, <2>4, <3>1
  <2>6. DOMAIN changes = 1 .. n
    BY <2>1
  <2> HIDE DEF changes
  <2>7. changes \in [1 .. n -> Int]
    <3>1. changes = [i \in 1 .. n |-> changes[i]]
      BY <2>6 DEF changes
    <3> QED
      BY <2>5, <3>1
  <2>8. changes \in Seq(Int) /\ Len(changes) = n
    BY <2>1, <2>7
  <2> DEFINE c == -1
  <2>9. /\ a \in Seq(Int) /\ b \in Seq(Int) /\ changes \in Seq(Int) /\ c \in Int
        /\ Len(b) = Len(a) /\ Len(changes) = Len(a)
        /\ \A i \in 1 .. Len(a) : changes[i] = a[i] + c * b[i]
    BY <2>1, <2>5, <2>8
  <2>10. c * Total(b) = - Total(b)
    <3>1. Total(b) \in Nat
      BY <2>1, TotalIsNat
    <3> QED
      BY <3>1
  <2> HIDE DEF c
  <2>11. Total(changes) = Total(a) + c * Total(b) /\ Total(a) \in Int /\ Total(b) \in Int
    BY <2>9, TotalIsLinear
  <2> QED
    BY <2>1, <2>10, <2>11
<1>5. ReviewLoad(events, tau) - ReviewLoad(events, before)
        = Cardinality(gained) - Cardinality(diff \ gained)
  <2> DEFINE A == {i \in DOMAIN events : Escalated(events[i], before)}
             B == {i \in DOMAIN events : Escalated(events[i], tau)}
  <2>1. IsFiniteSet(A) /\ IsFiniteSet(B)
        /\ ReviewLoad(events, before) = Cardinality(A) /\ ReviewLoad(events, tau) = Cardinality(B)
    BY <1>2, LoadIsCardinality
  <2>2. gained = B \ A /\ diff \ gained = A \ B
    BY DEF PerCaseDiff, Escalated
  <2> HIDE DEF A, B, gained, diff
  <2>3. Cardinality(B) - Cardinality(A) = Cardinality(B \ A) - Cardinality(A \ B)
    BY <2>1, GainedAndLost
  <2> QED
    BY <2>1, <2>2, <2>3
<1> HIDE DEF out, diff
<1>6. /\ last'.outcome = out /\ last'.events = events /\ last'.after = tau /\ last'.before = before
  BY <1>1
<1> QED
  BY <1>3, <1>4, <1>5, <1>6 DEF ReplayIsExplained

LEMMA SimulateBestFound ==
  ASSUME LoopTypes, SimulateBest
  PROVE  SimulateFindsTheBest'
<1> DEFINE events == TracedOf(ledger)
           n == Len(events)
           probs == [i \in DOMAIN events |-> Confidence(events[i])]
           errors == [i \in DOMAIN events |-> IsError(events[i])]
           sevs == [i \in DOMAIN events |-> events[i].severity]
           fit == FitThreshold(probs, errors, sevs)
           best == fit.best_threshold
           out == Simulate(events, threshold, best)
           cost(tau) == Total(PlaceCosts(ReviewedAt(probs, tau), errors, sevs))
           agree == \A i \in DOMAIN events : ReadAlike(events[i])
<1>1. last' = [call |-> "simulate", events |-> events, outcome |-> out]
  BY DEF SimulateBest
<1>2. events \in Seq(Events)
  BY TracedAre
<1> HIDE DEF events
<1>3. /\ n \in Nat /\ DOMAIN events = 1 .. n /\ probs \in [1 .. n -> Levels]
      /\ errors \in [1 .. n -> BOOLEAN] /\ sevs \in [1 .. n -> Severities]
  BY <1>2, SimulatedFit
<1>4. \A tau \in Levels : ReplayLoss(events, tau) = Total(EventCosts(events, tau))
  BY <1>2, ReplayCost
<1>5. ASSUME agree, NEW tau \in Levels
      PROVE  cost(tau) = ReplayLoss(events, tau)
  <2> DEFINE a == PlaceCosts(ReviewedAt(probs, tau), errors, sevs)
             b == EventCosts(events, tau)
  <2>1. \A i \in 1 .. n : /\ events[i].p # NoP /\ Confidence(events[i]) = events[i].p
                          /\ LossOnError(events[i]) <=> IsError(events[i])
    BY <1>3, <1>5 DEF ReadAlike, Confidence
  <2>2. a = [i \in 1 .. n |-> IF events[i].p >= tau THEN EscalateCost
                              ELSE IF IsError(events[i]) THEN CostOf[events[i].severity] ELSE 0]
    BY <1>3, <2>1 DEF PlaceCosts, ReviewedAt, Reviewed
  <2>3. b = [i \in 1 .. n |-> CaseCost(events[i].p, LossOnError(events[i]), events[i].severity, tau)]
    BY <1>3 DEF EventCosts
  <2>4. \A i \in 1 .. n :
          CaseCost(events[i].p, LossOnError(events[i]), events[i].severity, tau)
            = IF events[i].p >= tau THEN EscalateCost
              ELSE IF IsError(events[i]) THEN CostOf[events[i].severity] ELSE 0
    BY <2>1 DEF CaseCost
  <2>5. a = b
    BY <2>2, <2>3, <2>4
  <2> HIDE DEF a, b
  <2> QED
    BY <1>4, <2>5 DEF a, b
<1> HIDE DEF probs, errors, sevs
<1>6. best \in Levels /\ fit.best_cost = cost(best) /\ \A tau \in Levels : fit.best_cost <= cost(tau)
  BY <1>3, FitFacts
<1>7. out.total_after = ReplayLoss(events, best)
  BY DEF Simulate
<1> HIDE DEF out, fit, best, cost
<1>8. ASSUME agree, NEW tau \in Levels
      PROVE  out.total_after <= ReplayLoss(events, tau)
  <2>1. cost(best) = ReplayLoss(events, best) /\ cost(tau) = ReplayLoss(events, tau)
    BY <1>5, <1>6, <1>8
  <2> QED
    BY <1>6, <1>7, <2>1
<1>9. last'.events = events /\ last'.outcome = out
  BY <1>1
<1> QED
  BY <1>8, <1>9 DEF SimulateFindsTheBest

------------------------------------------------------------------------------
\* What the calls returned holds what it should.
Reports ==
    /\ OnlyLabelsTrain
    /\ ReportIsHeldOut
    /\ ThresholdIsCheapest
    /\ ReplayIsExplained
    /\ SimulateFindsTheBest

LEMMA NothingReported == last = Nothing => Reports
  BY DEF Nothing, Reports, OnlyLabelsTrain, ReportIsHeldOut, ThresholdIsCheapest,
         ReplayIsExplained, SimulateFindsTheBest

LEMMA NothingReportedNext == last' = Nothing => Reports'
  BY DEF Nothing, Reports, OnlyLabelsTrain, ReportIsHeldOut, ThresholdIsCheapest,
         ReplayIsExplained, SimulateFindsTheBest

LEMMA FitReports ==
  ASSUME LoopTypes, NEW order \in Shuffle(Len(FitPlaces(Oldest(FitLimit)))),
         NEW predict \in Calibrators, FitPolicy(order, predict)
  PROVE  Reports'
<1>1. last'.call = "fit"
  BY DEF FitPolicy
<1>2. ReplayIsExplained' /\ SimulateFindsTheBest'
  BY <1>1 DEF ReplayIsExplained, SimulateFindsTheBest
<1> QED
  BY <1>2, LabelsAlone, ReportHeldOut, ThresholdCheapest DEF Reports

LEMMA ReplayReports ==
  ASSUME LoopTypes, NEW tau \in Levels, Replay(tau)
  PROVE  Reports'
<1>1. last'.call = "replay"
  BY DEF Replay
<1>2. OnlyLabelsTrain' /\ ReportIsHeldOut' /\ ThresholdIsCheapest' /\ SimulateFindsTheBest'
  BY <1>1 DEF OnlyLabelsTrain, ReportIsHeldOut, ThresholdIsCheapest, SimulateFindsTheBest
<1> QED
  BY <1>2, ReplayExplained DEF Reports

LEMMA SimulateReports ==
  ASSUME LoopTypes, SimulateBest
  PROVE  Reports'
<1>1. last'.call = "simulate"
  BY DEF SimulateBest
<1>2. OnlyLabelsTrain' /\ ReportIsHeldOut' /\ ThresholdIsCheapest' /\ ReplayIsExplained'
  BY <1>1 DEF OnlyLabelsTrain, ReportIsHeldOut, ThresholdIsCheapest, ReplayIsExplained
<1> QED
  BY <1>2, SimulateBestFound DEF Reports

LEMMA ReportsNext ==
  ASSUME LoopTypes, Reports, [Next]_vars
  PROVE  Reports'
<1>1. ASSUME NEW e, AppendToLedger(e)
      PROVE  Reports'
  BY <1>1, NothingReportedNext DEF AppendToLedger
<1>2. ASSUME NEW c \in Cases, RecordDecision(c)
      PROVE  Reports'
  BY <1>1, <1>2 DEF RecordDecision
<1>3. ASSUME NEW matched \in BOOLEAN, NEW final \in BOOLEAN, NEW answer \in Answers,
             NEW s \in Severities, RecordStep(matched, final, answer, s)
      PROVE  Reports'
  BY <1>1, <1>3 DEF RecordStep
<1>4. ASSUME NEW n \in DOMAIN ledger, OpenReview(n)
      PROVE  Reports'
  BY <1>1, <1>4 DEF OpenReview
<1>5. ASSUME NEW n \in DOMAIN ledger, NEW d \in {"ALLOW", "DENY", "VERIFY"}, ResolveReview(n, d)
      PROVE  Reports'
  BY <1>1, <1>5 DEF ResolveReview
<1>6. ASSUME UNCHANGED vars
      PROVE  Reports'
  BY <1>6 DEF vars, Reports, OnlyLabelsTrain, ReportIsHeldOut, ThresholdIsCheapest,
              ReplayIsExplained, SimulateFindsTheBest
<1> QED
  BY <1>2, <1>3, <1>4, <1>5, <1>6, FitReports, ReplayReports, SimulateReports DEF Next

LEMMA ReportsAlways == Spec => [](LoopTypes /\ Reports)
<1>1. Init => LoopTypes /\ Reports
  BY TypesInit, NothingReported DEF Init
<1>2. (LoopTypes /\ Reports) /\ [Next]_vars => (LoopTypes /\ Reports)'
  BY TypesNext, ReportsNext
<1> QED
  BY <1>1, <1>2, PTL DEF Spec

\* Whatever stands between the labeled events, a fit over them alone gives the
\* same threshold and the same probabilities: the masks of
\* run_calibration_pipeline() ("unlabeled events never enter a fit").
THEOREM LabelsAloneTrain == Spec => []OnlyLabelsTrain
<1>1. Reports => OnlyLabelsTrain
  BY DEF Reports
<1> QED
  BY <1>1, ReportsAlways, PTL

\* The calibration error that a fit reports is over events that it was not
\* fitted on, and every labeled event with a probability is in one half: the
\* split after the shuffle of run_calibration_pipeline().
THEOREM ReportsAreHeldOut == Spec => []ReportIsHeldOut
<1>1. Reports => ReportIsHeldOut
  BY DEF Reports
<1> QED
  BY <1>1, ReportsAlways, PTL

\* No threshold of the grid costs less than the one that a fit puts into the
\* policy, and a fit on two labels or more costs no more than reviewing
\* nothing: fit_escalation_threshold().
THEOREM FitsAreCheapest == Spec => []ThresholdIsCheapest
<1>1. Reports => ThresholdIsCheapest
  BY DEF Reports
<1> QED
  BY <1>1, ReportsAlways, PTL

\* The cases that a replay lists explain the difference between its totals and
\* between its review loads: per_case_diff of ReplayLab.simulate().
THEOREM ReplaysAreExplained == Spec => []ReplayIsExplained
<1>1. Reports => ReplayIsExplained
  BY DEF Reports
<1> QED
  BY <1>1, ReportsAlways, PTL

\* The threshold that policy/fit.py finds best is the one that ReplayLab
\* prices lowest, where no error was denied and every row of the trace has a
\* calibrated_probability: the command `simulate`.
THEOREM SimulationsFindTheBest == Spec => []SimulateFindsTheBest
<1>1. Reports => SimulateFindsTheBest
  BY DEF Reports
<1> QED
  BY <1>1, ReportsAlways, PTL
==============================================================================
