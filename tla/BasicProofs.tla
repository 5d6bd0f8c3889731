----------------------------- MODULE BasicProofs -----------------------------
(***************************************************************************)
(* What the proofs about arithmetic and about runs of frames, events and   *)
(* samples rest on: division, induction over a set of numbers, and the     *)
(* course of a fold.                                                       *)
(*                                                                         *)
(* FoldLeft(op, b, run) is defined by a function on the sets of indices    *)
(* still to be taken in, the largest last.  A proof about a fold says that *)
(* this function exists (FoldExists), what its equation says of the sets   *)
(* it goes through (IndexSets), and that its values are what op makes of   *)
(* the run from left to right (FoldCourse).                                *)
(***************************************************************************)
EXTENDS Integers, SequencesExt, WellFoundedInduction, TLAPS

-----------------------------------------------------------------------------
(* Division.                                                               *)

\* Products keep the order; the quotient rounds downwards, is the only number that
\* does, and keeps the order too.
LEMMA MulMono ==
  ASSUME NEW c \in Nat, NEW x \in Int, NEW y \in Int, x <= y
  PROVE  c * x <= c * y
<1>1. PICK d \in Nat : y = x + d
  BY y - x \in Nat
<1>2. c * y = c * x + c * d
  BY <1>1
<1>3. c * d \in Nat /\ c * x \in Int
  OBVIOUS
<1>4. QED
  BY <1>2, <1>3

LEMMA DivBounds ==
  ASSUME NEW a \in Int, NEW b \in Nat \ {0}
  PROVE  /\ a \div b \in Int
         /\ b * (a \div b) <= a /\ a < b * (a \div b) + b
  OBVIOUS

LEMMA DivUnique ==
  ASSUME NEW a \in Int, NEW b \in Nat \ {0}, NEW q \in Int, b * q <= a, a < b * q + b
  PROVE  a \div b = q
<1> DEFINE d == a \div b
<1>1. d \in Int /\ b * d <= a /\ a < b * d + b
  BY DivBounds
<1> HIDE DEF d
<1>2. CASE d < q
  <2>1. d + 1 <= q /\ b * (d + 1) = b * d + b
    BY <1>1, <1>2
  <2>2. b * (d + 1) <= b * q
    BY <1>1, <2>1, MulMono
  <2>3. QED
    BY <1>1, <2>1, <2>2
<1>3. CASE q < d
  <2>1. q + 1 <= d /\ b * (q + 1) = b * q + b
    BY <1>1, <1>3
  <2>2. b * (q + 1) <= b * d
    BY <1>1, <2>1, MulMono
  <2>3. QED
    BY <1>1, <2>1, <2>2
<1>4. QED
  BY <1>1, <1>2, <1>3 DEF d

LEMMA DivMono ==
  ASSUME NEW a \in Int, NEW c \in Int, NEW b \in Nat \ {0}, a <= c
  PROVE  a \div b <= c \div b
<1> DEFINE p == a \div b
           q == c \div b
<1>1. p \in Int /\ q \in Int /\ b * p <= a /\ c < b * q + b
  BY DivBounds
<1> HIDE DEF p, q
<1>2. CASE q < p
  <2>1. q + 1 <= p /\ b * (q + 1) = b * q + b
    BY <1>1, <1>2
  <2>2. b * (q + 1) <= b * p
    BY <1>1, <2>1, MulMono
  <2>3. QED
    BY <1>1, <2>1, <2>2
<1>3. QED
  BY <1>1, <1>2 DEF p, q

LEMMA DivOfNat ==
  ASSUME NEW a \in Nat, NEW b \in Nat \ {0}
  PROVE  a \div b \in Nat
<1>1. 0 \div b = 0
  BY DivUnique
<1>2. QED
  BY <1>1, DivMono, DivBounds

-----------------------------------------------------------------------------
(* Induction, and the indices of a run.                                    *)

\* A set of numbers that has 0 and, with every number, the next one.
LEMMA Grows ==
  ASSUME NEW P, 0 \in P, \A n \in Nat : n \in P => n + 1 \in P
  PROVE  \A n \in Nat : n \in P
<1> DEFINE T == Nat \ P
<1> SUFFICES ASSUME T # {} PROVE FALSE
  OBVIOUS
<1>1. PICK n \in T : \A k \in T : <<k, n>> \notin OpToRel(<, Nat)
  BY NatLessThanWellFounded, WFMin
<1>2. \A k \in T : ~(k < n)
  BY <1>1 DEF OpToRel
<1>3. n - 1 \in Nat /\ n - 1 < n
  BY <1>2
<1>4. QED
  BY <1>2, <1>3

\* Every set of numbers has a least one.
LEMMA MinOf ==
  ASSUME NEW s \in SUBSET Nat, s # {}
  PROVE  Min(s) \in s
<1>1. PICK n \in s : \A k \in s : <<k, n>> \notin OpToRel(<, Nat)
  BY NatLessThanWellFounded, WFMin
<1>2. \A k \in s : ~(k < n)
  BY <1>1 DEF OpToRel
<1>3. \A k \in s : n <= k
  BY <1>2
<1>4. QED
  BY <1>3 DEF Min

\* Every set of indices of a run has a largest one.
LEMMA LastIndex ==
  ASSUME NEW n \in Nat, NEW s \in SUBSET (1..n + 1), n + 1 \in s
  PROVE  Max(s) = n + 1
<1>1. \A x \in s : n + 1 >= x
  OBVIOUS
<1>2. ASSUME NEW x \in s, \A y \in s : x >= y PROVE x = n + 1
  BY <1>2
<1>3. QED
  BY <1>1, <1>2 DEF Max

LEMMA IndexLeft ==
  ASSUME NEW n \in Nat, NEW s \in SUBSET (1..n), s # {}
  PROVE  Max(s) \in s /\ \A x \in s : Max(s) >= x
<1> DEFINE T == {k \in Nat : \E x \in s : x = n - k}
<1>1. T \subseteq Nat /\ T # {}
  <2>1. PICK x \in s : TRUE
    OBVIOUS
  <2>2. n - x \in Nat /\ x = n - (n - x)
    OBVIOUS
  <2>3. QED
    BY <2>1, <2>2
<1>2. PICK k \in T : \A j \in T : <<j, k>> \notin OpToRel(<, Nat)
  BY <1>1, NatLessThanWellFounded, WFMin
<1>3. \A j \in T : ~(j < k)
  BY <1>2 DEF OpToRel
<1>4. PICK x \in s : x = n - k
  BY <1>2
<1>5. ASSUME NEW y \in s PROVE x >= y
  <2>1. n - y \in T
    <3>1. n - y \in Nat /\ y = n - (n - y)
      OBVIOUS
    <3>2. QED
      BY <3>1
  <2>2. ~(n - y < k) /\ k \in Nat
    BY <1>3, <2>1
  <2>3. QED
    BY <1>4, <2>2
<1>6. QED
  BY <1>4, <1>5 DEF Max

-----------------------------------------------------------------------------
(* Folds.                                                                  *)

\* The equation of a fold over N values from b: step[n] takes in the n-th.
IsFold(g, N, b, step) ==
  \A s \in SUBSET (1..N) :
    g[s] = IF s = {} THEN b ELSE step[Max(s)][g[s \ {Max(s)}]]

\* Every fold has its result.
LEMMA FoldExists ==
  ASSUME NEW N \in Nat, NEW S, NEW b \in S, NEW step \in [1..N -> [S -> S]]
  PROVE  \E g \in [SUBSET (1..N) -> S] : IsFold(g, N, b, step)
<1> DEFINE Fits(g, m) ==
             \A s \in SUBSET (1..m) :
               g[s] = IF s = {} THEN b ELSE step[Max(s)][g[s \ {Max(s)}]]
           Has(m) == \E g \in [SUBSET (1..m) -> S] : Fits(g, m)
           P == {m \in Nat : m <= N => Has(m)}
<1>1. Has(0)
  <2> DEFINE g == [s \in SUBSET (1..0) |-> b]
  <2>1. 1..0 = {}
    OBVIOUS
  <2>2. g \in [SUBSET (1..0) -> S] /\ Fits(g, 0)
    BY <2>1
  <2>3. QED
    BY <2>2
<1>2. ASSUME NEW m \in Nat, m + 1 <= N, Has(m) PROVE Has(m + 1)
  <2>1. PICK g \in [SUBSET (1..m) -> S] : Fits(g, m)
    BY <1>2
  <2> DEFINE h == [s \in SUBSET (1..m + 1) |->
                     IF m + 1 \in s THEN step[m + 1][g[s \ {m + 1}]] ELSE g[s]]
  <2>2. ASSUME NEW s \in SUBSET (1..m + 1)
        PROVE  /\ m + 1 \in s => s \ {m + 1} \in SUBSET (1..m) /\ Max(s) = m + 1
               /\ m + 1 \notin s => s \in SUBSET (1..m)
    BY LastIndex
  <2>3. m + 1 \in 1..N
    BY <1>2
  <2>4. h \in [SUBSET (1..m + 1) -> S]
    BY <2>2, <2>3
  <2>5. ASSUME NEW s \in SUBSET (1..m)
        PROVE  s \in SUBSET (1..m + 1) /\ h[s] = g[s]
    <3>1. s \in SUBSET (1..m + 1) /\ m + 1 \notin s
      OBVIOUS
    <3>2. QED
      BY <3>1
  <2>6. ASSUME NEW s \in SUBSET (1..m + 1)
        PROVE  h[s] = IF s = {} THEN b ELSE step[Max(s)][h[s \ {Max(s)}]]
    <3>1. CASE m + 1 \in s
      <4>1. h[s] = step[m + 1][g[s \ {m + 1}]]
        BY <3>1
      <4> HIDE DEF h
      <4>2. QED
        BY <2>2, <2>5, <3>1, <4>1
    <3>2. CASE m + 1 \notin s /\ s # {}
      <4>1. s \in SUBSET (1..m) /\ h[s] = g[s]
        BY <2>2, <2>5, <3>2
      <4>2. g[s] = step[Max(s)][g[s \ {Max(s)}]]
        BY <2>1, <3>2, <4>1
      <4>3. s \ {Max(s)} \in SUBSET (1..m)
        BY <4>1
      <4> HIDE DEF h
      <4>4. QED
        BY <2>5, <3>2, <4>1, <4>2, <4>3
    <3>3. CASE s = {}
      <4>1. s \in SUBSET (1..m) /\ h[s] = g[s]
        BY <2>5, <3>3
      <4>2. g[s] = b
        BY <2>1, <3>3, <4>1
      <4> HIDE DEF h
      <4>3. QED
        BY <3>3, <4>1, <4>2
    <3>4. QED
      BY <3>1, <3>2, <3>3
  <2>7. Fits(h, m + 1)
    <3> HIDE DEF h
    <3>1. QED
      BY <2>6
  <2>8. QED
    BY <2>4, <2>7
<1> HIDE DEF Has
<1>3. 0 \in P /\ \A m \in Nat : m \in P => m + 1 \in P
  BY <1>1, <1>2
<1>4. \A m \in Nat : m \in P
  <2> HIDE DEF P
  <2>1. QED
    BY <1>3, Grows
<1>5. Has(N)
  BY <1>4
<1>6. QED
  BY <1>5 DEF Has, IsFold

\* The sets it goes through, for a run of N.
LEMMA IndexSets ==
  ASSUME NEW N \in Nat, NEW n \in 1..N
  PROVE  /\ 1..n \in SUBSET (1..N) /\ 1..n # {} /\ n - 1 \in 0..N
         /\ Max(1..n) = n /\ (1..n) \ {Max(1..n)} = 1..n - 1
<1>1. Max(1..n) = n
  <2>1. n - 1 \in Nat /\ n - 1 + 1 = n /\ n \in 1..n
    OBVIOUS
  <2>2. QED
    BY <2>1, LastIndex
<1>2. QED
  BY <1>1

\* A fold takes its run from left to right: f[n] is what it makes of the first n.
IsCourse(f, N, b, step, end) ==
  /\ f[0] = b /\ f[N] = end
  /\ \A n \in 1..N : f[n] = step[n][f[n - 1]]

LEMMA FoldCourse ==
  ASSUME NEW N \in Nat, NEW S, NEW b \in S, NEW step \in [1..N -> [S -> S]], NEW g,
         g[{}] = b,
         \A n \in 1..N : g[1..n - 1] \in S => g[1..n] = step[n][g[1..n - 1]]
  PROVE  \E f \in [0..N -> S] : IsCourse(f, N, b, step, g[1..N])
<1> DEFINE P == {n \in Nat : n <= N => g[1..n] \in S}
           f == [n \in 0..N |-> g[1..n]]
<1>1. 1..0 = {}
  OBVIOUS
<1>2. 0 \in P
  BY <1>1
<1>3. ASSUME NEW n \in Nat, n \in P PROVE n + 1 \in P
  <2>1. CASE n + 1 <= N
    <3>1. n + 1 \in 1..N /\ n + 1 - 1 = n /\ g[1..n] \in S
      BY <1>3, <2>1
    <3>2. g[1..n + 1] = step[n + 1][g[1..n]]
      BY <3>1
    <3>3. g[1..n + 1] \in S
      BY <3>1, <3>2
    <3>4. QED
      BY <3>3
  <2>2. QED
    BY <2>1
<1>4. \A n \in Nat : n \in P
  <2> HIDE DEF P
  <2>1. QED
    BY <1>2, <1>3, Grows
<1>5. \A n \in 0..N : g[1..n] \in S
  BY <1>4
<1>6. f \in [0..N -> S] /\ f[0] = b /\ f[N] = g[1..N]
  BY <1>1, <1>5
<1>7. ASSUME NEW n \in 1..N PROVE f[n] = step[n][f[n - 1]]
  <2>1. n \in 0..N /\ n - 1 \in 0..N
    OBVIOUS
  <2>2. g[1..n] = step[n][g[1..n - 1]]
    BY <1>5, <2>1
  <2>3. f[n] = g[1..n] /\ f[n - 1] = g[1..n - 1]
    BY <2>1
  <2> HIDE DEF f
  <2>4. QED
    BY <2>2, <2>3
<1> HIDE DEF f
<1>8. QED
  BY <1>6, <1>7 DEF IsCourse
=============================================================================
