----------------------------- MODULE NumberLemmas -----------------------------
(***************************************************************************)
(* Facts about integers that the proofs of several modules need: the least *)
(* and the greatest element of a set, and division with remainder.         *)
(***************************************************************************)
EXTENDS Integers, FiniteSetsExt, WellFoundedInduction, TLAPS

-----------------------------------------------------------------------------
\* The least element of a set, and the greatest

LessOnNat == {pair \in Nat \X Nat : pair[1] < pair[2]}

LEMMA SmallestOf ==
  ASSUME NEW S \in SUBSET Nat, S # {}
  PROVE  \E x \in S : \A y \in S : x <= y
  <1>1. IsWellFoundedOn(LessOnNat, Nat)
    BY NatLessThanWellFounded DEF OpToRel, LessOnNat
  <1>2. PICK x \in S : \A y \in S : ~ (<<y, x>> \in LessOnNat)
    BY <1>1, WFMin
  <1>3. \A y \in S : ~ (y < x)
    BY <1>2 DEF LessOnNat
  <1> QED
    BY <1>3

LEMMA MaxIsGreatest ==
  ASSUME NEW N \in Int, NEW S \in SUBSET Int, S # {}, \A x \in S : x <= N
  PROVE  Max(S) \in S /\ \A y \in S : y <= Max(S)
  <1> DEFINE T == {N - x : x \in S}
  <1>1. T \in SUBSET Nat /\ T # {}
    <2>1. \A x \in S : N - x \in Nat
      OBVIOUS
    <2>2. S # {}
      OBVIOUS
    <2> QED
      BY <2>1, <2>2, Zenon
  <1>2. PICK t \in T : \A u \in T : t <= u
    BY <1>1, SmallestOf
  <1>3. PICK x \in S : t = N - x
    OBVIOUS
  <1>4. \A y \in S : x >= y
    <2> SUFFICES ASSUME NEW y \in S PROVE x >= y
      OBVIOUS
    <2>1. N - y \in T
      OBVIOUS
    <2>2. N - x <= N - y
      BY <1>2, <1>3, <2>1
    <2> QED
      BY <2>2
  <1>5. Max(S) \in S /\ \A y \in S : Max(S) >= y
    BY <1>4 DEF Max
  <1> QED
    BY <1>5

LEMMA MinIsLeast ==
  ASSUME NEW N \in Int, NEW S \in SUBSET Int, S # {}, \A x \in S : N <= x
  PROVE  Min(S) \in S /\ \A y \in S : Min(S) <= y
  <1> DEFINE T == {x - N : x \in S}
  <1>1. T \in SUBSET Nat /\ T # {}
    <2>1. \A x \in S : x - N \in Nat
      OBVIOUS
    <2>2. S # {}
      OBVIOUS
    <2> QED
      BY <2>1, <2>2, Zenon
  <1>2. PICK t \in T : \A u \in T : t <= u
    BY <1>1, SmallestOf
  <1>3. PICK x \in S : t = x - N
    OBVIOUS
  <1>4. \A y \in S : x <= y
    <2> SUFFICES ASSUME NEW y \in S PROVE x <= y
      OBVIOUS
    <2>1. y - N \in T
      OBVIOUS
    <2>2. x - N <= y - N
      BY <1>2, <1>3, <2>1
    <2> QED
      BY <2>2
  <1>5. Min(S) \in S /\ \A y \in S : Min(S) <= y
    BY <1>4 DEF Min
  <1> QED
    BY <1>5

-----------------------------------------------------------------------------
\* Division with remainder

LEMMA Division ==
  ASSUME NEW d \in Nat \ {0}, NEW n \in Int
  PROVE  /\ n = (d * (n \div d)) + (n % d)
         /\ n \div d \in Int
         /\ n % d \in 0 .. (d - 1)
  OBVIOUS

\* A multiple smaller than its divisor is zero.
LEMMA SmallMultiple ==
  ASSUME NEW d \in Nat \ {0}, NEW k \in Int, NEW r \in 0 .. (d - 1),
         (d * k) + r = 0
  PROVE  r = 0
  <1>1. CASE k >= 0
    <2>1. d * k >= 0
      BY <1>1
    <2> QED
      BY <2>1
  <1>2. CASE k <= 0 - 1
    <2>1. d * k <= 0 - d
      BY <1>2
    <2> QED
      BY <2>1
  <1> QED
    BY <1>1, <1>2

\* What is left without the remainder has none.
LEMMA MultipleWithoutRemainder ==
  ASSUME NEW d \in Nat \ {0}, NEW n \in Int
  PROVE  (n - (n % d)) % d = 0
  <1> DEFINE m == n - (n % d)
             a == m \div d
             b == n \div d
             r == m % d
             k == a - b
  <1>1. n = (d * b) + (n % d) /\ b \in Int /\ n % d \in Int
    BY Division
  <1>2. m \in Int /\ m = d * b
    <2> HIDE DEF b
    <2> QED
      BY <1>1
  <1>3. m = (d * a) + r /\ a \in Int /\ r \in 0 .. (d - 1)
    <2> HIDE DEF m
    <2> QED
      BY <1>2, Division
  <1>4. k \in Int /\ (d * k) + r = 0
    <2> HIDE DEF a, b, r, m
    <2> QED
      BY <1>1, <1>2, <1>3
  <1> HIDE DEF k, r
  <1>5. r = 0
    BY <1>3, <1>4, SmallMultiple
  <1> QED
    BY <1>5 DEF r

\* The interval after a multiple of the interval ends at one.
LEMMA NextMultiple ==
  ASSUME NEW d \in Nat \ {0}, NEW p \in Nat, p % d = 0
  PROVE  (p + d) % d = 0
  <1> DEFINE n == p + d
             a == n \div d
             b == p \div d
             r == n % d
             k == a - b - 1
  <1>1. p = (d * b) + 0 /\ b \in Int
    BY Division
  <1>2. n \in Int /\ n = p + d
    OBVIOUS
  <1>3. n = (d * a) + r /\ a \in Int /\ r \in 0 .. (d - 1)
    <2> HIDE DEF n
    <2> QED
      BY <1>2, Division
  <1>4. k \in Int /\ (d * k) + r = 0
    <2> HIDE DEF a, b, r, n
    <2> QED
      BY <1>1, <1>2, <1>3
  <1> HIDE DEF k, r
  <1>5. r = 0
    BY <1>3, <1>4, SmallMultiple
  <1> QED
    BY <1>5 DEF r
=============================================================================
