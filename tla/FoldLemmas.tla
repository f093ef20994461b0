----------------------------- MODULE FoldLemmas -----------------------------
(* Induction over the natural numbers, the least and the largest of a set of *)
(* numbers, and the function by which FoldLeft of the community modules      *)
(* folds a sequence.                                                         *)
EXTENDS Integers, Sequences, SequencesExt, WellFoundedInduction, TLAPS

-----------------------------------------------------------------------------
(* Induction.  The library's induction theorems take an operator; its theorem *)
(* that < is well-founded on Nat takes none, and gives induction over sets.   *)

LEMMA LeastNat ==
    ASSUME NEW T \in SUBSET Nat, T # {}
    PROVE  \E m \in T : \A k \in T : m <= k
<1> DEFINE R == OpToRel(<, Nat)
<1>1. \A x, y \in Nat : x < y => <<x, y>> \in R
  BY DEF OpToRel
<1>2. IsWellFoundedOn(R, Nat)
  BY NatLessThanWellFounded
<1> HIDE DEF R
<1>3. PICK m \in T : \A y \in Nat : <<y, m>> \in R => ~(y \in T)
  BY <1>2, WFMin
<1>4. ASSUME NEW k \in T PROVE m <= k
  <2>1. ~(<<k, m>> \in R) /\ m \in Nat /\ k \in Nat
    BY <1>3
  <2>2. ~(k < m)
    BY <1>1, <2>1
  <2>. QED
    BY <2>1, <2>2
<1>. QED
  BY <1>4

LEMMA NatInd ==
    ASSUME NEW S, 0 \in S, \A n \in Nat : n \in S => n + 1 \in S
    PROVE  Nat \subseteq S
<1> SUFFICES ASSUME Nat \ S # {} PROVE FALSE
  OBVIOUS
<1>1. PICK m \in Nat \ S : \A k \in Nat \ S : m <= k
  BY LeastNat
<1>2. m - 1 \in Nat /\ m - 1 \in S /\ m - 1 + 1 = m
  BY <1>1
<1>. QED
  BY <1>1, <1>2

-----------------------------------------------------------------------------
(* Folds.                                                                   *)

LEMMA MaxIs ==
    ASSUME NEW S \in SUBSET Int, NEW x \in S, \A y \in S : y <= x
    PROVE  Max(S) = x
<1>1. PICK m \in S : m = Max(S) /\ \A y \in S : m >= y
  BY DEF Max
<1>2. m >= x /\ m <= x /\ m \in Int /\ x \in Int
  BY <1>1
<1>. QED
  BY <1>1, <1>2

LEMMA MinIs ==
    ASSUME NEW S \in SUBSET Int, NEW x \in S, \A y \in S : x <= y
    PROVE  Min(S) = x
<1>1. PICK m \in S : m = Min(S) /\ \A y \in S : m <= y
  BY DEF Min
<1>2. m >= x /\ m <= x /\ m \in Int /\ x \in Int
  BY <1>1
<1>. QED
  BY <1>1, <1>2

LEMMA MinNat ==
    ASSUME NEW S \in SUBSET Nat, S # {}
    PROVE  Min(S) \in S /\ \A y \in S : Min(S) <= y
  BY LeastNat DEF Min

LEMMA MaxIn ==
    ASSUME NEW n \in Nat, NEW S \in SUBSET (1 .. n), S # {}
    PROVE  Max(S) \in S
<1> DEFINE T == {n - x : x \in S}
<1>0. \A x \in S : x \in 1 .. n /\ n - x \in Nat
  OBVIOUS
<1>1. T \in SUBSET Nat /\ T # {}
  BY <1>0
<1>2. PICK m \in T : \A k \in T : m <= k
  BY <1>1, LeastNat
<1>3. PICK x \in S : m = n - x
  OBVIOUS
<1>4. ASSUME NEW y \in S PROVE y <= x
  <2>1. n - y \in T
    OBVIOUS
  <2>2. n - x <= n - y
    BY <1>2, <1>3, <2>1
  <2>. QED
    BY <1>0, <2>2
<1>5. S \in SUBSET Int
  OBVIOUS
<1>. QED
  BY <1>4, <1>5, MaxIs

LEMMA MaxOfTwo ==
    ASSUME NEW a \in Int, NEW b \in Int
    PROVE  Max({a, b}) = IF a >= b THEN a ELSE b
<1>1. CASE a >= b
  BY <1>1, MaxIs
<1>2. CASE ~(a >= b)
  BY <1>2, MaxIs
<1>. QED
  BY <1>1, <1>2

LEMMA MinOfTwo ==
    ASSUME NEW a \in Int, NEW b \in Int
    PROVE  Min({a, b}) = IF a <= b THEN a ELSE b
<1>1. CASE a <= b
  BY <1>1, MinIs
<1>2. CASE ~(a <= b)
  BY <1>2, MinIs
<1>. QED
  BY <1>1, <1>2

\* The function by which MapThenFoldSet folds from the largest element down
\* exists, when every step maps D to D.
Folds(n, D, base, F) ==
    {g \in [SUBSET (1 .. n) -> D] : \A t \in SUBSET (1 .. n) :
        g[t] = IF t = {} THEN base ELSE F[Max(t)][g[t \ {Max(t)}]]}

LEMMA FoldExists ==
    ASSUME NEW n \in Nat, NEW D, NEW base \in D, NEW F \in [1 .. n -> [D -> D]]
    PROVE  Folds(n, D, base, F) # {}
<1> DEFINE G(m) ==
        {g \in [SUBSET (1 .. m) -> D] : \A t \in SUBSET (1 .. m) :
            g[t] = IF t = {} THEN base ELSE F[Max(t)][g[t \ {Max(t)}]]}
           S == {m \in Nat : m <= n => G(m) # {}}
<1>1. 0 \in S
  <2>1. [t \in SUBSET (1 .. 0) |-> base] \in G(0)
    <3>1. \A t \in SUBSET (1 .. 0) : t = {}
      OBVIOUS
    <3>. QED
      BY <3>1
  <2>. QED
    BY <2>1
<1>2. ASSUME NEW m \in Nat, m \in S PROVE m + 1 \in S
  <2>0. /\ m + 1 \in S <=> (m + 1 <= n => G(m + 1) # {})
        /\ m <= n => G(m) # {}
    <3> HIDE DEF G
    <3>. QED
      BY <1>2
  <2> SUFFICES ASSUME m + 1 <= n PROVE G(m + 1) # {}
    <3> HIDE DEF G, S
    <3>. QED
      BY <2>0
  <2>1. PICK g \in [SUBSET (1 .. m) -> D] : \A t \in SUBSET (1 .. m) :
            g[t] = IF t = {} THEN base ELSE F[Max(t)][g[t \ {Max(t)}]]
    <3>1. m <= n
      OBVIOUS
    <3>. QED
      BY <2>0, <3>1
  <2> DEFINE h == [t \in SUBSET (1 .. m + 1) |->
                      IF m + 1 \in t THEN F[m + 1][g[t \ {m + 1}]] ELSE g[t]]
  <2>2. ASSUME NEW t \in SUBSET (1 .. m + 1)
        PROVE  /\ m + 1 \notin t => t \in SUBSET (1 .. m) /\ h[t] = g[t]
               /\ m + 1 \in t => /\ t \ {m + 1} \in SUBSET (1 .. m)
                                 /\ h[t \ {m + 1}] = g[t \ {m + 1}]
                                 /\ Max(t) = m + 1
                                 /\ h[t] = F[m + 1][h[t \ {m + 1}]]
               /\ h[t] \in D
    <3>1. CASE m + 1 \notin t
      <4>1. t \in SUBSET (1 .. m)
        BY <3>1
      <4>. QED
        BY <3>1, <4>1
    <3>2. CASE m + 1 \in t
      <4>1. t \ {m + 1} \in SUBSET (1 .. m) /\ t \ {m + 1} \in SUBSET (1 .. m + 1)
        OBVIOUS
      <4>2. h[t \ {m + 1}] = g[t \ {m + 1}] /\ g[t \ {m + 1}] \in D
        BY <4>1
      <4>3. Max(t) = m + 1
        BY <3>2, MaxIs
      <4>4. h[t] = F[m + 1][g[t \ {m + 1}]] /\ F[m + 1] \in [D -> D]
        BY <3>2
      <4>. QED
        BY <3>2, <4>1, <4>2, <4>3, <4>4
    <3>. QED
      BY <3>1, <3>2
  <2>3. h \in [SUBSET (1 .. m + 1) -> D]
    BY <2>2
  <2> HIDE DEF h
  <2>4. ASSUME NEW t \in SUBSET (1 .. m + 1)
        PROVE  h[t] = IF t = {} THEN base ELSE F[Max(t)][h[t \ {Max(t)}]]
    <3>1. CASE m + 1 \notin t
      <4>1. t \in SUBSET (1 .. m) /\ t \ {Max(t)} \in SUBSET (1 .. m)
        BY <2>2, <3>1
      <4>2. h[t] = g[t] /\ h[t \ {Max(t)}] = g[t \ {Max(t)}]
        BY <2>2, <3>1, <4>1
      <4>. QED
        BY <2>1, <4>1, <4>2
    <3>2. CASE m + 1 \in t
      BY <2>2, <3>2
    <3>. QED
      BY <3>1, <3>2
  <2>5. h \in G(m + 1)
    BY <2>3, <2>4
  <2>. QED
    BY <2>5
<1>3. Nat \subseteq S
  <2> HIDE DEF S
  <2>. QED
    BY <1>1, <1>2, NatInd
<1>4. G(n) # {}
  <2> HIDE DEF G
  <2>1. n \in S
    BY <1>3
  <2>. QED
    BY <2>1
<1>. QED
  BY <1>4 DEF Folds

\* The sets a fold of n elements comes by, from the first element on.
LEMMA FirstOnes ==
    ASSUME NEW n \in Nat, NEW k \in 0 .. n - 1
    PROVE  /\ 1 .. k + 1 \in SUBSET (1 .. n) /\ 1 .. k \in SUBSET (1 .. n)
           /\ 1 .. k + 1 # {}
           /\ Max(1 .. k + 1) = k + 1
           /\ (1 .. k + 1) \ {k + 1} = 1 .. k
<1>1. 1 .. k + 1 \in SUBSET Int /\ k + 1 \in 1 .. k + 1 /\ \A y \in 1 .. k + 1 : y <= k + 1
  OBVIOUS
<1>2. Max(1 .. k + 1) = k + 1
  BY <1>1, MaxIs
<1>. QED
  BY <1>2

\* Induction up to n.
LEMMA IndUpTo ==
    ASSUME NEW n \in Nat, NEW S, 0 \in S, \A k \in 0 .. n - 1 : k \in S => k + 1 \in S
    PROVE  \A k \in 0 .. n : k \in S
<1> DEFINE T == {k \in Nat : k <= n => k \in S}
<1>1. 0 \in T
  OBVIOUS
<1>2. ASSUME NEW k \in Nat, k \in T PROVE k + 1 \in T
  <2>1. CASE k + 1 <= n
    BY <1>2, <2>1
  <2>2. CASE ~(k + 1 <= n)
    BY <2>2
  <2>. QED
    BY <2>1, <2>2
<1>3. Nat \subseteq T
  <2> HIDE DEF T
  <2>. QED
    BY <1>1, <1>2, NatInd
<1>. QED
  BY <1>3

\* One of finitely many numbers is the largest.
LEMMA OneLargest ==
    ASSUME NEW n \in Nat, n # 0, NEW w \in [1 .. n -> Int]
    PROVE  \E m \in 1 .. n : \A i \in 1 .. n : w[i] <= w[m]
<1> DEFINE S == {k \in 0 .. n : k # 0 => \E m \in 1 .. k : \A i \in 1 .. k : w[i] <= w[m]}
<1>1. 0 \in S
  OBVIOUS
<1>2. ASSUME NEW k \in 0 .. n - 1, k \in S PROVE k + 1 \in S
  <2>1. CASE k = 0
    BY <2>1
  <2>2. CASE k # 0
    <3>1. PICK m \in 1 .. k : \A i \in 1 .. k : w[i] <= w[m]
      BY <1>2, <2>2
    <3>2. CASE w[k + 1] <= w[m]
      <4>1. \A i \in 1 .. k + 1 : w[i] <= w[m]
        BY <3>1, <3>2
      <4>. QED
        BY <4>1
    <3>3. CASE ~(w[k + 1] <= w[m])
      <4>1. \A i \in 1 .. k + 1 : w[i] <= w[k + 1]
        BY <3>1, <3>3
      <4>. QED
        BY <4>1
    <3>. QED
      BY <3>2, <3>3
  <2>. QED
    BY <2>1, <2>2
<1>3. \A k \in 0 .. n : k \in S
  <2> HIDE DEF S
  <2>. QED
    BY <1>1, <1>2, IndUpTo
<1>4. n \in S
  <2> HIDE DEF S
  <2>. QED
    BY <1>3
<1>. QED
  BY <1>4

\* A fold as a run: what it has come to after each of the elements.
Runs(n, D, base, F) ==
    {f \in [0 .. n -> D] : f[0] = base /\ \A k \in 0 .. n - 1 : f[k + 1] = F[k + 1][f[k]]}

Reaches(n, D, base, F, last) == \E f \in Runs(n, D, base, F) : f[n] = last

\* h takes those steps from the elements up to k to the elements up to k + 1.
Climbs(h, n, D, base, F) ==
    /\ h[{}] = base
    /\ \A k \in 0 .. n - 1 : h[1 .. k] \in D => h[1 .. k + 1] = F[k + 1][h[1 .. k]]

LEMMA FoldRun ==
    ASSUME NEW n \in Nat, NEW D, NEW base \in D, NEW F \in [1 .. n -> [D -> D]],
           NEW h, Climbs(h, n, D, base, F)
    PROVE  Reaches(n, D, base, F, h[1 .. n])
<1> DEFINE f == [k \in 0 .. n |-> h[1 .. k]]
           S == {k \in 0 .. n : f[k] \in D}
<1>1. f[0] = base /\ f[n] = h[1 .. n]
  <2>1. 1 .. 0 = {}
    OBVIOUS
  <2>. QED
    BY <2>1 DEF Climbs
<1>2. \A k \in 0 .. n - 1 : f[k] \in D => f[k + 1] = F[k + 1][f[k]]
  BY DEF Climbs
<1>3. \A k \in 0 .. n : k \in S
  <2> HIDE DEF f
  <2>1. 0 \in S
    BY <1>1
  <2>2. ASSUME NEW k \in 0 .. n - 1, k \in S PROVE k + 1 \in S
    <3>1. k + 1 \in 1 .. n /\ k + 1 \in 0 .. n /\ f[k] \in D
      BY <2>2
    <3>2. F[k + 1] \in [D -> D]
      BY <3>1
    <3>3. f[k + 1] = F[k + 1][f[k]]
      BY <1>2, <3>1
    <3>. QED
      BY <3>1, <3>2, <3>3
  <2> HIDE DEF S
  <2>. QED
    BY <2>1, <2>2, IndUpTo
<1>4. f \in [0 .. n -> D]
  BY <1>3
<1>5. \A k \in 0 .. n - 1 : f[k + 1] = F[k + 1][f[k]]
  <2>1. \A k \in 0 .. n : f[k] \in D
    BY <1>3
  <2> HIDE DEF f, S
  <2>. QED
    BY <1>2, <2>1
<1> HIDE DEF f
<1>. QED
  BY <1>1, <1>4, <1>5 DEF Runs, Reaches
=============================================================================
