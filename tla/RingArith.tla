----------------------------- MODULE RingArith -----------------------------
(***************************************************************************)
(* Division with remainder, as the ring index computations of the offload  *)
(* loops need it: uniqueness of quotient and remainder, when two block     *)
(* numbers share a slot, and where a half of a ring lies.                  *)
(***************************************************************************)
EXTENDS Integers, TLAPS

\* C's / and % on non-negative numbers: a = N * quotient + remainder.
LEMMA DivMod ==
  ASSUME NEW N \in Nat \ {0}, NEW a \in Int
  PROVE  a \div N \in Int /\ a % N \in 0 .. N - 1 /\ a = N * (a \div N) + (a % N)
BY Z3

\* The quotient is not negative.
LEMMA DivNat ==
  ASSUME NEW N \in Nat \ {0}, NEW a \in Nat
  PROVE  a \div N \in Nat /\ a % N \in 0 .. N - 1 /\ a = N * (a \div N) + (a % N)
<1> DEFINE q == a \div N
<1>1. q \in Int /\ a % N \in 0 .. N - 1 /\ a = N * q + (a % N)
  BY DivMod
<1> HIDE DEF q
<1>2. q >= 0
  BY <1>1, Z3
<1> QED BY <1>1, <1>2 DEF q

\* A positive multiple of N is at least N.
LEMMA MultipleBound ==
  ASSUME NEW N \in Nat \ {0}, NEW d \in Int, d >= 1
  PROVE  N * d >= N
BY Z3

\* Two decompositions of one number are the same.
LEMMA DivModUnique ==
  ASSUME NEW N \in Nat \ {0},
         NEW q \in Int, NEW r \in 0 .. N - 1, NEW p \in Int, NEW s \in 0 .. N - 1,
         N * q + r = N * p + s
  PROVE  q = p /\ r = s
<1>1. N * (q - p) = s - r /\ N * (p - q) = r - s
  BY Z3
<1>2. ~ (q - p >= 1)
  BY <1>1, MultipleBound
<1>3. ~ (p - q >= 1)
  BY <1>1, MultipleBound
<1> QED BY <1>2, <1>3

\* What % returns, from any decomposition of its argument.
LEMMA ModIs ==
  ASSUME NEW N \in Nat \ {0}, NEW q \in Int, NEW r \in 0 .. N - 1
  PROVE  (N * q + r) % N = r /\ (N * q + r) \div N = q
<1> DEFINE a == N * q + r
<1>1. a \in Int
  BY Z3
<1>2. a \div N \in Int /\ a % N \in 0 .. N - 1 /\ a = N * (a \div N) + (a % N)
  BY <1>1, DivMod
<1> QED BY <1>2, DivModUnique

\* Less than a ring apart, two different block numbers never share a slot.
LEMMA SlotsDistinct ==
  ASSUME NEW N \in Nat \ {0}, NEW lo \in Int,
         NEW a \in lo .. lo + N - 1, NEW b \in lo .. lo + N - 1, a % N = b % N
  PROVE  a = b
<1>1. /\ a \div N \in Int /\ a % N \in 0 .. N - 1 /\ a = N * (a \div N) + (a % N)
      /\ b \div N \in Int /\ b % N \in 0 .. N - 1 /\ b = N * (b \div N) + (b % N)
  BY DivMod
<1> DEFINE qa == a \div N
<1> DEFINE qb == b \div N
<1>2. qa \in Int /\ qb \in Int
  BY <1>1
<1>3. a - b = N * qa - N * qb /\ a - b < N /\ b - a < N
  BY <1>1
<1> HIDE DEF qa, qb
<1>4. a - b = N * (qa - qb) /\ b - a = N * (qb - qa)
  BY <1>2, <1>3, Z3
<1>5. ~ (qa - qb >= 1)
  BY <1>2, <1>3, <1>4, MultipleBound
<1>6. ~ (qb - qa >= 1)
  BY <1>2, <1>3, <1>4, MultipleBound
<1>7. qa = qb
  BY <1>2, <1>5, <1>6
<1> QED BY <1>2, <1>4, <1>7, Z3

\* Adding N or 2N keeps a multiple of N a multiple of N.
LEMMA MultipleShift ==
  ASSUME NEW N \in Nat \ {0}, NEW a \in Int, a % N = 0
  PROVE  (a + N) % N = 0 /\ (a + 2 * N) % N = 0
<1>1. a \div N \in Int /\ a = N * (a \div N)
  BY DivMod
<1> DEFINE q == a \div N
<1>2. q \in Int /\ a = N * q
  BY <1>1
<1> HIDE DEF q
<1>3. a + N = N * (q + 1) + 0 /\ a + 2 * N = N * (q + 2) + 0
  BY <1>2, Z3
<1> QED BY <1>2, <1>3, ModIs

\* The next-but-one multiple of N is the only one in a window of length N.
LEMMA MultipleInWindow ==
  ASSUME NEW N \in Nat \ {0}, NEW a \in Int, NEW b \in Int, a % N = 0, b % N = 0,
         a + N < b, b <= a + 2 * N
  PROVE  b = a + 2 * N
<1>1. (a + 2 * N) % N = 0
  BY MultipleShift
<1> DEFINE lo == a + N + 1
<1> DEFINE c == a + 2 * N
<1>2. lo \in Int /\ b \in lo .. lo + N - 1 /\ c \in lo .. lo + N - 1 /\ b % N = c % N
  BY <1>1
<1> HIDE DEF lo, c
<1>3. b = c
  BY <1>2, SlotsDistinct
<1> QED BY <1>3 DEF c

\* With a ring of two halves of length N, block a + i of a half that starts at
\* the multiple a of N lies in slot ((a \div N) % 2) * N + i.
LEMMA HalfSlot ==
  ASSUME NEW N \in Nat \ {0}, NEW a \in Nat, a % N = 0, NEW i \in 0 .. N - 1
  PROVE  ((a \div N) % 2) * N + i = (a + i) % (2 * N)
<1> DEFINE q == a \div N
<1> DEFINE p == q \div 2
<1> DEFINE j == q % 2
<1>1. q \in Int /\ a = N * q
  BY DivMod
<1>2. p \in Int /\ j \in 0 .. 1 /\ q = 2 * p + j
  BY <1>1, DivMod
<1> HIDE DEF p, j, q
<1>3. a + i = (2 * N) * p + (j * N + i)
  BY <1>1, <1>2, Z3
<1>4. j * N + i \in 0 .. 2 * N - 1
  <2>1. CASE j = 0
    BY <2>1
  <2>2. CASE j = 1
    BY <2>2
  <2> QED BY <1>2, <2>1, <2>2
<1>5. (a + i) % (2 * N) = j * N + i
  <2> DEFINE M == 2 * N
  <2> DEFINE r == j * N + i
  <2>1. M \in Nat \ {0} /\ r \in 0 .. M - 1 /\ a + i = M * p + r
    BY <1>3, <1>4
  <2> HIDE DEF M, r
  <2>2. (a + i) % M = r
    BY <1>2, <2>1, ModIs
  <2> QED BY <2>2 DEF M, r
<1> QED BY <1>5 DEF j, q

\* Between two different multiples of B there is a whole B.
LEMMA NextMultiple ==
  ASSUME NEW B \in Nat \ {0}, NEW n \in Nat, NEW m \in Nat, m % B = 0, n * B < m
  PROVE  (n + 1) * B <= m
<1> DEFINE q == m \div B
<1>1. q \in Int /\ m = B * q
  BY DivMod
<1> HIDE DEF q
<1>2. B * (q - n) > 0
  BY <1>1, Z3
<1>3. q - n >= 1
  <2> SUFFICES ASSUME q - n <= 0 PROVE FALSE
    BY <1>1
  <2>1. B * (q - n) <= 0
    BY <1>1, Z3
  <2> QED BY <1>1, <1>2, <2>1
<1>4. B * (q - n) >= B
  BY <1>1, <1>3, MultipleBound
<1> QED BY <1>1, <1>4, Z3

===========================================================================
