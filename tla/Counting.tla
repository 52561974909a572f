------------------------------- MODULE Counting -------------------------------
(***************************************************************************)
(* Arithmetic and counting the proofs of several components rest on:       *)
(* quotients and remainders, the rank of an element in a finite set with a *)
(* strict total order, sums over finite sets, the ascending enumeration of *)
(* a finite set of integers, and where blocks of given sizes begin.        *)
(***************************************************************************)
EXTENDS Integers, FiniteSets, Functions, FiniteSetTheorems, TLAPS

(***************************************************************************)
(* Quotients.                                                              *)
(***************************************************************************)
\* A number is its quotient times the divisor, and a remainder.
LEMMA Division ==
  ASSUME NEW x \in Nat, NEW d \in Nat \ {0}
  PROVE  /\ x \div d \in Nat /\ x % d \in 0 .. (d - 1)
         /\ x = d * (x \div d) + (x % d)
OBVIOUS

\* Division on both sides of an inequality.
LEMMA Quotient ==
  ASSUME NEW d \in Nat \ {0}, NEW k \in Int, NEW m \in Int,
         d * k < d * m
  PROVE  k < m
<1>1. k >= m => d * k >= d * m
  OBVIOUS
<1> QED BY <1>1

\* Dividing a multiple gives the other factor.
LEMMA ExactQuotient ==
  ASSUME NEW d \in Nat \ {0}, NEW q \in Nat, NEW x, x = d * q
  PROVE  x \div d = q
<1> DEFINE k == x \div d
           r == x % d
<1>1. x \in Nat /\ d * q \in Nat
  OBVIOUS
<1>2. k \in Nat /\ r \in 0 .. (d - 1) /\ x = d * k + r
  BY <1>1, Division
<1> HIDE DEF k, r
<1>3. d * (q + 1) = d * q + d /\ d * (k + 1) = d * k + d
  BY <1>2
<1>4. d * k \in Int
  BY <1>2
<1>5. d * q < d * (k + 1)
  BY <1>1, <1>2, <1>3, <1>4
<1>6. d * k < d * (q + 1)
  BY <1>1, <1>2, <1>3, <1>4
<1>7. q < k + 1 /\ k < q + 1
  <2>1. q < k + 1
    BY <1>2, <1>5, Quotient
  <2>2. k < q + 1
    BY <1>2, <1>6, Quotient
  <2> QED BY <2>1, <2>2
<1> QED BY <1>2, <1>7 DEF k

\* The product of two naturals is one.
LEMMA Product ==
  ASSUME NEW k \in Nat, NEW a \in Nat
  PROVE  k * a \in Nat /\ a * k = k * a
OBVIOUS

\* Multiples.
Multiple(x, d) == \E k \in Int : x = d * k

\* Sums and differences of multiples are multiples.
LEMMA MultipleSum ==
  ASSUME NEW d \in Nat, NEW x \in Int, NEW y \in Int, NEW z,
         Multiple(x, d), Multiple(y, d), z = x + y \/ z = x - y
  PROVE  Multiple(z, d)
<1>1. PICK h \in Int : x = d * h
  BY DEF Multiple
<1>2. PICK k \in Int : y = d * k
  BY DEF Multiple
<1>3. /\ x + y = d * (h + k) /\ x - y = d * (h - k)
      /\ h + k \in Int /\ h - k \in Int
  BY <1>1, <1>2
<1> QED BY <1>3 DEF Multiple

\* So are multiples of multiples.
LEMMA MultipleOfMultiple ==
  ASSUME NEW d \in Nat, NEW y \in Int, NEW x \in Int,
         Multiple(x, y), Multiple(y, d)
  PROVE  Multiple(x, d)
<1>1. PICK k \in Int : y = d * k
  BY DEF Multiple
<1>2. PICK h \in Int : x = y * h
  BY DEF Multiple
<1>3. x = d * (k * h) /\ k * h \in Int
  BY <1>1, <1>2
<1> QED BY <1>3 DEF Multiple

\* A multiple leaves no remainder, and below the divisor there is only 0.
LEMMA MultipleRemainder ==
  ASSUME NEW d \in Nat \ {0}, NEW x \in Nat
  PROVE  /\ Multiple(x, d) <=> x % d = 0
         /\ Multiple(x, d) /\ x < d => x = 0
<1> DEFINE q == x \div d
           r == x % d
<1>1. q \in Nat /\ r \in 0 .. (d - 1) /\ x = d * q + r
  BY Division
<1> HIDE DEF q, r
<1>2. r = 0 => Multiple(x, d)
  BY <1>1 DEF Multiple
<1>3. ASSUME NEW k \in Int, x = d * k
      PROVE  r = 0 /\ (x < d => x = 0)
  <2>1. d * (k - q) = r /\ d * (k - q) < d * 1 /\ d * (0 - 1) < d * (k - q)
    BY <1>1, <1>3
  <2>2. k - q < 1 /\ 0 - 1 < k - q
    BY <1>1, <2>1, Quotient
  <2>3. k = q
    BY <1>1, <2>2
  <2>4. r = 0
    BY <1>1, <2>1, <2>3
  <2>5. x < d => k = 0
    <3>1. x < d => d * k < d * 1
      BY <1>3
    <3>2. x < d => k < 1
      BY <3>1, Quotient
    <3> QED BY <1>1, <2>3, <3>2
  <2> QED BY <1>3, <2>4, <2>5
<1> QED BY <1>2, <1>3 DEF r, Multiple

\* How often a divisor can be taken away.
LEMMA QuotientBound ==
  ASSUME NEW x \in Nat, NEW d \in Nat \ {0}, NEW i \in Nat
  PROVE  i <= x \div d <=> i * d <= x
<1> DEFINE q == x \div d
           r == x % d
<1>1. q \in Nat /\ r \in 0 .. (d - 1) /\ x = d * q + r
  BY Division
<1> HIDE DEF q, r
<1>2. ASSUME i <= q PROVE i * d <= x
  <2>1. d * i <= d * q
    BY <1>1, <1>2
  <2> QED BY <1>1, <2>1
<1>3. ASSUME i * d <= x PROVE i <= q
  <2>1. d * i < d * (q + 1)
    BY <1>1, <1>3
  <2>2. i < q + 1
    BY <1>1, <2>1, Quotient
  <2> QED BY <1>1, <2>2
<1> QED BY <1>2, <1>3 DEF q

\* A block more or a block less leaves a number of whole blocks.
LEMMA WholeMultiple ==
  ASSUME NEW a \in Nat \ {0}, NEW n \in Nat, n % a = 0
  PROVE  /\ (n + a) % a = 0
         /\ a <= n => (n - a) % a = 0
<1>1. ASSUME NEW x \in Nat, NEW k \in Int, x = a * k
      PROVE  x % a = 0
  <2> DEFINE q == x \div a
             r == x % a
  <2>1. q \in Nat /\ r \in 0 .. (a - 1) /\ x = a * q + r
    BY Division
  <2> HIDE DEF q, r
  <2>2. a * (k - q) = r /\ a * (k - q) < a * 1 /\ a * (0 - 1) < a * (k - q)
    BY <1>1, <2>1
  <2>3. k - q < 1 /\ 0 - 1 < k - q
    BY <2>1, <2>2, Quotient
  <2>4. k = q
    BY <2>1, <2>3
  <2>5. r = 0
    BY <2>1, <2>2, <2>4
  <2> QED BY <2>5 DEF r
<1> DEFINE h == n \div a
<1>2. h \in Nat /\ n = a * h + (n % a)
  BY Division
<1> HIDE DEF h
<1>3. n + a = a * (h + 1) /\ n - a = a * (h - 1) /\ n + a \in Nat
  BY <1>2
<1>4. (n + a) % a = 0
  BY <1>1, <1>2, <1>3
<1>5. a <= n => (n - a) % a = 0
  BY <1>1, <1>2, <1>3
<1> QED BY <1>4, <1>5

\* Two shares of a whole, in percent and rounded down, fit it.
LEMMA Shares ==
  ASSUME NEW n \in Nat, NEW a \in Nat, NEW b \in Nat, a + b <= 100
  PROVE  /\ (n * a) \div 100 \in Nat /\ (n * b) \div 100 \in Nat
         /\ (n * a) \div 100 + (n * b) \div 100 <= n
<1> DEFINE x == n * a
           y == n * b
           p == x \div 100
           q == y \div 100
<1>1. x \in Nat /\ y \in Nat /\ x + y <= 100 * n
  <2>1. x + y = n * (a + b)
    OBVIOUS
  <2>2. n * (a + b) = 100 * n - n * (100 - (a + b))
    OBVIOUS
  <2>3. 100 - (a + b) \in Nat
    OBVIOUS
  <2>4. n * (100 - (a + b)) \in Nat
    BY <2>3, Product
  <2>5. x \in Nat /\ y \in Nat
    BY Product
  <2> QED BY <2>1, <2>2, <2>4, <2>5
<1> HIDE DEF x, y
<1>2. /\ p \in Nat /\ x % 100 \in 0 .. (100 - 1) /\ x = 100 * p + (x % 100)
      /\ q \in Nat /\ y % 100 \in 0 .. (100 - 1) /\ y = 100 * q + (y % 100)
  <2>1. 100 \in Nat \ {0}
    OBVIOUS
  <2> QED BY <1>1, <2>1, Division
<1> HIDE DEF p, q
<1>3. p + q <= n
  BY <1>1, <1>2
<1>4. p \in Nat /\ q \in Nat
  BY <1>2
<1> QED BY <1>3, <1>4 DEF p, q, x, y

\* Rounding down to whole tiles.
LEMMA WholeTiles ==
  ASSUME NEW x \in Nat, NEW tile \in Nat \ {0}
  PROVE  /\ (x \div tile) * tile \in Nat /\ (x \div tile) * tile <= x
         /\ Multiple((x \div tile) * tile, tile)
<1> DEFINE k == x \div tile
<1>1. k \in Nat /\ x % tile \in 0 .. (tile - 1) /\ x = tile * k + (x % tile)
  BY Division
<1> HIDE DEF k
<1>2. k * tile = tile * k /\ k * tile \in Nat
  BY <1>1, Product
<1>3. k * tile <= x
  BY <1>1, <1>2
<1>4. Multiple(k * tile, tile)
  <2>1. k \in Int
    BY <1>1
  <2> QED BY <1>2, <2>1 DEF Multiple
<1>5. k * tile \in Nat /\ k * tile <= x /\ Multiple(k * tile, tile)
  BY <1>2, <1>3, <1>4
<1> QED BY <1>5 DEF k

\* The elements of B go from S to T, which leaves the one set and makes the
\* other.
Move(B, S, T, left, joined) ==
  /\ IsFiniteSet(S) /\ IsFiniteSet(T) /\ B \subseteq S /\ S \cap T = {}
  /\ left = S \ B /\ joined = T \cup B

\* What a move does to the two sizes.
LEMMA MoveCount ==
  ASSUME NEW S, NEW T, NEW B, NEW left, NEW joined, Move(B, S, T, left, joined)
  PROVE  /\ Cardinality(S) \in Nat /\ Cardinality(T) \in Nat
         /\ Cardinality(B) \in Nat /\ Cardinality(B) <= Cardinality(S)
         /\ Cardinality(left) = Cardinality(S) - Cardinality(B)
         /\ Cardinality(joined) = Cardinality(T) + Cardinality(B)
<1>1. /\ IsFiniteSet(B) /\ Cardinality(B) <= Cardinality(S)
      /\ Cardinality(S) \in Nat /\ Cardinality(T) \in Nat
      /\ Cardinality(B) \in Nat
  BY FS_Subset, FS_CardinalityType DEF Move
<1>2. Cardinality(left) = Cardinality(S) - Cardinality(B)
  <2>1. Cardinality(left) = Cardinality(S) - Cardinality(S \cap B)
    BY FS_Difference DEF Move
  <2>2. S \cap B = B
    BY DEF Move
  <2> QED BY <2>1, <2>2, Zenon
<1>3. Cardinality(joined) = Cardinality(T) + Cardinality(B)
  <2>1. Cardinality(joined)
          = Cardinality(T) + Cardinality(B) - Cardinality(T \cap B)
    BY <1>1, FS_Union DEF Move
  <2>2. T \cap B = {}
    BY DEF Move
  <2>3. Cardinality(T \cap B) = 0
    BY <2>2, FS_EmptySet
  <2> QED BY <1>1, <2>1, <2>3
<1> QED BY <1>1, <1>2, <1>3

(***************************************************************************)
(* Ranks.  In a finite set with a strict total order the number of         *)
(* elements ahead tells the elements apart and takes every value.          *)
(***************************************************************************)
StrictOrder(R, S) ==
  \A x, y, z \in S :
    /\ <<x, x>> \notin R
    /\ x # y => <<x, y>> \in R \/ <<y, x>> \in R
    /\ <<x, y>> \in R /\ <<y, z>> \in R => <<x, z>> \in R

Ahead(R, S, x) == {y \in S : <<y, x>> \in R}
RankOf(R, S)   == [x \in S |-> Cardinality(Ahead(R, S, x))]

\* What comes first has the smaller rank.
LEMMA RankOrder ==
  ASSUME NEW S, IsFiniteSet(S), NEW R, StrictOrder(R, S),
         NEW x \in S, NEW y \in S
  PROVE  /\ RankOf(R, S)[x] \in 0 .. (Cardinality(S) - 1)
         /\ <<x, y>> \in R => RankOf(R, S)[x] < RankOf(R, S)[y]
<1>1. /\ \A z \in S : Ahead(R, S, z) \subseteq S \ {z}
      /\ RankOf(R, S)[x] = Cardinality(Ahead(R, S, x))
      /\ RankOf(R, S)[y] = Cardinality(Ahead(R, S, y))
  BY DEF RankOf, Ahead, StrictOrder
<1>2. \A z \in S : IsFiniteSet(Ahead(R, S, z))
  BY <1>1, FS_Subset
<1>3. \A z \in S : Cardinality(Ahead(R, S, z)) \in Nat
  BY <1>2, FS_CardinalityType
<1>4. Cardinality(Ahead(R, S, x)) <= Cardinality(S) - 1
  <2>1. IsFiniteSet(S \ {x}) /\ Cardinality(S \ {x}) = Cardinality(S) - 1
    BY FS_RemoveElement
  <2> QED BY <1>1, <2>1, FS_Subset
<1>5. ASSUME <<x, y>> \in R
      PROVE  Cardinality(Ahead(R, S, x)) < Cardinality(Ahead(R, S, y))
  <2>1. Ahead(R, S, x) \cup {x} \subseteq Ahead(R, S, y)
    BY <1>5 DEF Ahead, StrictOrder
  <2>2. /\ IsFiniteSet(Ahead(R, S, x) \cup {x})
        /\ Cardinality(Ahead(R, S, x) \cup {x}) = Cardinality(Ahead(R, S, x)) + 1
    BY <1>1, <1>2, FS_AddElement
  <2>3. Cardinality(Ahead(R, S, x) \cup {x}) <= Cardinality(Ahead(R, S, y))
    BY <1>2, <2>1, FS_Subset
  <2> QED BY <1>3, <2>2, <2>3
<1>6. Cardinality(S) \in Nat
  BY FS_CardinalityType
<1> QED BY <1>1, <1>3, <1>4, <1>5, <1>6

\* The rank is a bijection onto the first naturals.
LEMMA RankBijection ==
  ASSUME NEW S, IsFiniteSet(S), NEW R, StrictOrder(R, S)
  PROVE  /\ RankOf(R, S) \in Injection(S, 0 .. (Cardinality(S) - 1))
         /\ RankOf(R, S) \in Surjection(S, 0 .. (Cardinality(S) - 1))
<1> DEFINE r == RankOf(R, S)
           T == 0 .. (Cardinality(S) - 1)
<1>1. \A x \in S : r[x] \in T
  BY RankOrder
<1>2. \A x, y \in S : x # y => r[x] # r[y]
  <2>1. ASSUME NEW x \in S, NEW y \in S, x # y PROVE r[x] # r[y]
    <3>1. <<x, y>> \in R \/ <<y, x>> \in R
      BY <2>1 DEF StrictOrder
    <3>2. r[x] < r[y] \/ r[y] < r[x]
      BY <3>1, RankOrder
    <3>3. r[x] \in Int /\ r[y] \in Int
      BY <1>1
    <3> QED BY <3>2, <3>3
  <2> QED BY <2>1
<1>3. r \in [S -> T]
  BY <1>1 DEF RankOf
<1>4. r \in Injection(S, T)
  BY <1>2, <1>3 DEF Injection, IsInjective
<1>5. Cardinality(S) \in Nat
  BY FS_CardinalityType
<1>6. IsFiniteSet(T) /\ Cardinality(T) = Cardinality(S)
  BY <1>5, FS_Interval
<1>7. r \in Surjection(S, T)
  BY <1>4, <1>6, FS_Injection
<1> QED BY <1>4, <1>7

\* The elements of rank below n are n elements.
LEMMA RankCount ==
  ASSUME NEW S, IsFiniteSet(S), NEW R, StrictOrder(R, S),
         NEW n \in Nat, n <= Cardinality(S)
  PROVE  Cardinality({x \in S : RankOf(R, S)[x] < n}) = n
<1> DEFINE r == RankOf(R, S)
           A == {x \in S : r[x] < n}
           f == [x \in A |-> r[x]]
<1>1. /\ \A x \in S : r[x] \in 0 .. (Cardinality(S) - 1)
      /\ \A x, y \in S : r[x] = r[y] => x = y
      /\ \A k \in 0 .. (Cardinality(S) - 1) : \E x \in S : r[x] = k
  BY RankBijection DEF Injection, IsInjective, Surjection
<1>2. Cardinality(S) \in Nat
  BY FS_CardinalityType
<1> HIDE DEF r
<1>3. f \in [A -> 0 .. (n - 1)]
  BY <1>1, <1>2
<1>4. f \in Injection(A, 0 .. (n - 1))
  BY <1>1, <1>3 DEF Injection, IsInjective
<1>5. f \in Surjection(A, 0 .. (n - 1))
  <2>1. ASSUME NEW k \in 0 .. (n - 1) PROVE \E x \in A : f[x] = k
    <3>1. k \in 0 .. (Cardinality(S) - 1) /\ k < n
      BY <1>2
    <3>2. PICK x \in S : r[x] = k
      BY <1>1, <3>1
    <3> QED BY <3>1, <3>2
  <2> QED BY <1>3, <2>1 DEF Surjection
<1>6. IsFiniteSet(0 .. (n - 1)) /\ Cardinality(0 .. (n - 1)) = n
  BY FS_Interval
<1>7. Cardinality(A) = Cardinality(0 .. (n - 1))
  BY <1>4, <1>5, <1>6, FS_Injection
<1> QED BY <1>6, <1>7 DEF r

(***************************************************************************)
(* Sums over finite sets, as MapThenSumSet computes them.                  *)
(***************************************************************************)
\* A set of naturals has a least member.
LEMMA Least ==
  ASSUME NEW T \in SUBSET Nat, T # {}
  PROVE  \E x \in T : \A y \in T : x <= y
<1> DEFINE R == {ss \in Nat \X Nat : ss[1] < ss[2]}
<1>1. IsWellFoundedOn(R, Nat)
  BY NatLessThanWellFounded DEF OpToRel
<1>2. \A x, y \in Nat : y < x => <<y, x>> \in R
  OBVIOUS
<1> HIDE DEF R
<1>3. PICK x \in T : \A y \in T : ~(<<y, x>> \in R)
  BY <1>1, WFMin
<1>4. \A y \in T : ~(y < x)
  BY <1>2, <1>3
<1> QED BY <1>3, <1>4

\* g adds up the terms of every set of D, taking the elements out one by one.
AddsUp(g, D, term, pick) ==
  g = [s \in D |-> IF s = {} THEN 0 ELSE term[pick[s]] + g[s \ {pick[s]}]]

\* Such a function exists on all subsets of a finite set.  Induction on the size,
\* by a least size without one.
LEMMA SumExists ==
  ASSUME NEW S, IsFiniteSet(S), NEW term, NEW pick,
         \A s \in SUBSET S : s # {} => pick[s] \in s
  PROVE  \E g : AddsUp(g, SUBSET S, term, pick)
<1> DEFINE D(n) == {s \in SUBSET S : Cardinality(s) <= n}
           Solved(n) == \E g : AddsUp(g, D(n), term, pick)
           Bad == {n \in Nat : ~Solved(n)}
<1>1. \A s \in SUBSET S : IsFiniteSet(s) /\ Cardinality(s) \in Nat /\ Cardinality(s) <= Cardinality(S)
  BY FS_Subset, FS_CardinalityType
<1>2. ASSUME NEW n \in Bad, \A m \in Bad : n <= m PROVE FALSE
  <2>1. CASE n = 0
    <3>1. D(n) = {{}}
      BY <1>1, <2>1, FS_EmptySet
    <3>2. AddsUp([s \in D(n) |-> 0], D(n), term, pick)
      BY <3>1 DEF AddsUp
    <3>3. Solved(n)
      BY <3>2
    <3> HIDE DEF Solved
    <3> QED BY <1>2, <3>3
  <2>2. CASE n # 0
    <3>1. n \in Nat /\ n - 1 \in Nat /\ ~Solved(n)
      <4> HIDE DEF Solved
      <4> QED BY <1>2, <2>2
    <3>2. PICK g : AddsUp(g, D(n - 1), term, pick)
      <4>1. Solved(n - 1)
        <5> HIDE DEF Solved
        <5>1. ~(n <= n - 1)
          BY <3>1
        <5> QED BY <1>2, <3>1, <5>1
      <4> QED BY <4>1
    <3> DEFINE h == [s \in D(n) |-> IF s = {} THEN 0 ELSE term[pick[s]] + g[s \ {pick[s]}]]
    <3>3. \A s \in D(n) : s # {} => s \ {pick[s]} \in D(n - 1)
      <4> SUFFICES ASSUME NEW s \in D(n), s # {} PROVE s \ {pick[s]} \in D(n - 1)
        OBVIOUS
      <4>1. Cardinality(s \ {pick[s]}) = Cardinality(s) - 1
        BY <1>1, FS_RemoveElement
      <4> QED BY <1>1, <4>1
    <3>4. \A s \in D(n - 1) : s \in D(n)
      BY <1>1
    <3> HIDE DEF D
    <3>5. \A s \in D(n - 1) : h[s] = g[s]
      BY <3>2, <3>4 DEF AddsUp
    <3>6. \A s \in D(n) : s # {} => h[s \ {pick[s]}] = g[s \ {pick[s]}]
      BY <3>3, <3>5
    <3>7. AddsUp(h, D(n), term, pick)
      BY <3>6 DEF AddsUp
    <3>8. Solved(n)
      BY <3>7
    <3> QED BY <3>1, <3>8
  <2> QED BY <2>1, <2>2
<1>3. Bad = {}
  <2> HIDE DEF Bad
  <2>1. Bad \subseteq Nat
    BY DEF Bad
  <2> QED BY <1>2, <2>1, Least
<1>4. D(Cardinality(S)) = SUBSET S
  BY <1>1
<1>5. Cardinality(S) \in Nat
  BY FS_CardinalityType
<1>6. Solved(Cardinality(S))
  <2> HIDE DEF Solved
  <2> QED BY <1>3, <1>5
<1> QED BY <1>4, <1>6

\* A sum of naturals is one.
LEMMA SumIsNatural ==
  ASSUME NEW S, IsFiniteSet(S), NEW term \in [S -> Nat], NEW pick, NEW g,
         \A s \in SUBSET S : s # {} => pick[s] \in s,
         AddsUp(g, SUBSET S, term, pick)
  PROVE  g[S] \in Nat
<1> DEFINE Bad == {n \in Nat : \E s \in SUBSET S : Cardinality(s) = n /\ g[s] \notin Nat}
<1>1. \A s \in SUBSET S : IsFiniteSet(s) /\ Cardinality(s) \in Nat
  BY FS_Subset, FS_CardinalityType
<1>2. ASSUME NEW n \in Bad, \A m \in Bad : n <= m PROVE FALSE
  <2>1. PICK s \in SUBSET S : Cardinality(s) = n /\ g[s] \notin Nat
    OBVIOUS
  <2>2. s # {} /\ g[s] = term[pick[s]] + g[s \ {pick[s]}]
    <3>1. g[s] = IF s = {} THEN 0 ELSE term[pick[s]] + g[s \ {pick[s]}]
      BY DEF AddsUp
    <3> QED BY <2>1, <3>1
  <2>3. pick[s] \in S /\ s \ {pick[s]} \in SUBSET S
    BY <2>2
  <2>4. Cardinality(s \ {pick[s]}) = n - 1
    BY <1>1, <2>1, <2>2, FS_RemoveElement
  <2>5. g[s \ {pick[s]}] \in Nat
    <3>1. n - 1 \in Nat /\ n - 1 \notin Bad
      BY <1>1, <1>2, <2>3, <2>4
    <3> QED BY <2>3, <2>4, <3>1
  <2> QED BY <2>1, <2>2, <2>3, <2>5
<1>3. Bad = {}
  <2> HIDE DEF Bad
  <2>1. Bad \subseteq Nat
    BY DEF Bad
  <2> QED BY <1>2, <2>1, Least
<1> QED BY <1>1, <1>3

(***************************************************************************)
(* Ascending enumerations of a finite set of numbers: there is one, and    *)
(* only one.                                                               *)
(***************************************************************************)
Enumerates(f, S) ==
  /\ f \in [1 .. Cardinality(S) -> S]
  /\ \A i, j \in 1 .. Cardinality(S) : i < j => f[i] < f[j]
  /\ \A x \in S : \E i \in 1 .. Cardinality(S) : f[i] = x

\* Every finite set of integers has an enumeration.
LEMMA EnumerationExists ==
  ASSUME NEW S, IsFiniteSet(S), \A x \in S : x \in Int
  PROVE  \E f : Enumerates(f, S)
<1> DEFINE n == Cardinality(S)
           R == {e \in S \X S : e[1] < e[2]}
           r == RankOf(R, S)
           g == [i \in 1 .. n |-> CHOOSE x \in S : r[x] = i - 1]
<1>0. \A x \in S : x \in Int
  OBVIOUS
<1>1. n \in Nat
  BY FS_CardinalityType
<1>2. \A x, y \in S : <<x, y>> \in R <=> x < y
  OBVIOUS
<1> HIDE DEF R
<1>3. StrictOrder(R, S)
  <2>1. \A x \in S : <<x, x>> \notin R
    BY <1>0, <1>2
  <2>2. \A x, y \in S : x # y => <<x, y>> \in R \/ <<y, x>> \in R
    BY <1>0, <1>2
  <2>3. \A x, y, z \in S : <<x, y>> \in R /\ <<y, z>> \in R => <<x, z>> \in R
    BY <1>0, <1>2
  <2> QED BY <2>1, <2>2, <2>3, Zenon DEF StrictOrder
<1>4. /\ \A x, y \in S : r[x] = r[y] => x = y
      /\ \A i \in 0 .. (n - 1) : \E x \in S : r[x] = i
      /\ \A x, y \in S : x < y => r[x] < r[y]
      /\ \A x \in S : r[x] \in 0 .. (n - 1) /\ r[x] \in Int
  <2>1. /\ \A x, y \in S : r[x] = r[y] => x = y
        /\ \A i \in 0 .. (n - 1) : \E x \in S : r[x] = i
    BY <1>3, RankBijection DEF Injection, Surjection, IsInjective
  <2>2. \A x \in S : r[x] \in 0 .. (n - 1)
    BY <1>3, RankOrder
  <2>3. \A x, y \in S : x < y => r[x] < r[y]
    BY <1>2, <1>3, RankOrder
  <2> HIDE DEF r, n
  <2> QED BY <1>1, <2>1, <2>2, <2>3
<1> HIDE DEF r, n
<1>5. \A i \in 1 .. n : g[i] \in S /\ r[g[i]] = i - 1
  <2>1. ASSUME NEW i \in 1 .. n PROVE g[i] \in S /\ r[g[i]] = i - 1
    <3>1. i - 1 \in 0 .. (n - 1)
      BY <1>1
    <3>2. \E x \in S : r[x] = i - 1
      BY <1>4, <3>1
    <3> QED BY <3>2
  <2> QED BY <2>1
<1>6. g \in [1 .. n -> S] /\ DOMAIN g = 1 .. n
  BY <1>5
<1> HIDE DEF g
<1>7. \A i, j \in 1 .. n : i < j => g[i] < g[j]
  <2>1. ASSUME NEW i \in 1 .. n, NEW j \in 1 .. n, i < j PROVE g[i] < g[j]
    <3>1. r[g[i]] < r[g[j]] /\ g[i] \in S /\ g[j] \in S
      BY <1>1, <1>5, <2>1
    <3>2. r[g[i]] \in Int /\ r[g[j]] \in Int /\ g[i] \in Int /\ g[j] \in Int
      BY <1>0, <1>4, <3>1
    <3>3. g[j] < g[i] => r[g[j]] < r[g[i]]
      BY <1>4, <3>1
    <3> QED BY <3>1, <3>2, <3>3
  <2> QED BY <2>1
<1>8. \A x \in S : \E i \in 1 .. n : g[i] = x
  <2>1. ASSUME NEW x \in S PROVE \E i \in 1 .. n : g[i] = x
    <3>1. r[x] + 1 \in 1 .. n /\ r[x] \in Int
      BY <1>1, <1>4
    <3>2. g[r[x] + 1] \in S /\ r[g[r[x] + 1]] = r[x]
      BY <1>5, <3>1
    <3>3. g[r[x] + 1] = x
      BY <1>4, <3>2
    <3> QED BY <3>1, <3>3
  <2> QED BY <2>1
<1>9. Enumerates(g, S)
  BY <1>6, <1>7, <1>8 DEF Enumerates, n
<1> QED BY <1>9

\* It has only one.
LEMMA EnumerationsAgree ==
  ASSUME NEW S, IsFiniteSet(S), \A x \in S : x \in Int,
         NEW f, Enumerates(f, S), NEW g, Enumerates(g, S)
  PROVE  f = g
<1> DEFINE n == Cardinality(S)
           Bad == {k \in 1 .. n : f[k] # g[k]}
<1>1. n \in Nat
  BY FS_CardinalityType
<1>2. f \in [1 .. n -> S] /\ g \in [1 .. n -> S]
  BY DEF Enumerates
<1>3. \A i, j \in 1 .. n : i < j => f[i] < f[j]
  BY DEF Enumerates
<1>4. \A i, j \in 1 .. n : i < j => g[i] < g[j]
  BY DEF Enumerates
<1>5. \A i \in 1 .. n : \E j \in 1 .. n : g[j] = f[i]
  BY <1>2 DEF Enumerates
<1>6. \A i \in 1 .. n : \E j \in 1 .. n : f[j] = g[i]
  BY <1>2 DEF Enumerates
<1> HIDE DEF n
<1>7. ASSUME NEW k \in 1 .. n, f[k] # g[k],
             \A j \in 1 .. n : j < k => f[j] = g[j]
      PROVE  FALSE
  <2>1. \A i \in 1 .. n : i \in Int /\ f[i] \in Int /\ g[i] \in Int
    BY <1>1, <1>2
  <2>2. PICK i \in 1 .. n : g[i] = f[k]
    BY <1>5
  <2>3. PICK j \in 1 .. n : f[j] = g[k]
    BY <1>6
  <2>4. CASE f[k] < g[k]
    <3>1. ~(k < i) /\ k # i
      BY <1>4, <2>1, <2>2, <2>4
    <3>2. i < k
      BY <2>1, <3>1
    <3>3. f[i] < f[k] /\ f[i] = g[i]
      BY <1>3, <1>7, <3>2
    <3> QED BY <2>1, <2>2, <3>3
  <2>5. CASE g[k] < f[k]
    <3>1. ~(k < j) /\ k # j
      BY <1>3, <2>1, <2>3, <2>5
    <3>2. j < k
      BY <2>1, <3>1
    <3>3. g[j] < g[k] /\ f[j] = g[j]
      BY <1>4, <1>7, <3>2
    <3> QED BY <2>1, <2>3, <3>3
  <2> QED BY <1>7, <2>1, <2>4, <2>5
<1>8. ASSUME Bad # {} PROVE FALSE
  <2>1. Bad \in SUBSET Nat
    BY <1>1
  <2> HIDE DEF Bad
  <2>2. PICK k \in Bad : \A j \in Bad : k <= j
    BY <1>8, <2>1, Least
  <2>3. k \in 1 .. n /\ f[k] # g[k]
    BY DEF Bad
  <2>4. \A j \in 1 .. n : j < k => j \notin Bad
    BY <1>1, <2>2, <2>3
  <2>5. \A j \in 1 .. n : j < k => f[j] = g[j]
    BY <2>4 DEF Bad
  <2> QED BY <1>7, <2>3, <2>5
<1>9. \A k \in 1 .. n : f[k] = g[k]
  BY <1>8
<1> HIDE DEF Bad
<1> QED BY <1>1, <1>2, <1>9

(***************************************************************************)
(* Where the parts of a whole begin, one after another.                    *)
(***************************************************************************)
Begins(g, n, size) ==
  g = [t \in 0 .. n |-> IF t = 0 THEN 0 ELSE g[t - 1] + size[t]]

\* There is such a function: otherwise take the least length without one.
LEMMA BeginsExist ==
  ASSUME NEW n \in Nat, NEW size
  PROVE  \E g : Begins(g, n, size)
<1> DEFINE Solved(m) == \E g : Begins(g, m, size)
           Bad == {m \in Nat : ~Solved(m)}
<1>1. ASSUME NEW m \in Bad, \A k \in Bad : m <= k PROVE FALSE
  <2>1. m \in Nat /\ ~Solved(m)
    <3> HIDE DEF Solved
    <3> QED OBVIOUS
  <2>2. CASE m = 0
    <3> DEFINE h == [t \in 0 .. m |-> 0]
    <3>1. \A t \in 0 .. m : t = 0
      BY <2>2
    <3>2. Begins(h, m, size)
      BY <3>1 DEF Begins
    <3> QED BY <2>1, <3>2
  <2>3. CASE m # 0
    <3>1. m - 1 \in Nat /\ ~(m <= m - 1)
      BY <2>1, <2>3
    <3>2. Solved(m - 1)
      <4> HIDE DEF Solved
      <4> QED BY <1>1, <3>1
    <3>3. PICK g : Begins(g, m - 1, size)
      BY <3>2
    <3>4. \A t \in 0 .. (m - 1) : g[t] = IF t = 0 THEN 0 ELSE g[t - 1] + size[t]
      BY <3>3 DEF Begins
    <3> DEFINE h == [t \in 0 .. m |-> IF t = 0 THEN 0 ELSE g[t - 1] + size[t]]
    <3>5. \A t \in 0 .. (m - 1) : t \in 0 .. m
      BY <2>1
    <3>6. \A t \in 0 .. m : h[t] = IF t = 0 THEN 0 ELSE g[t - 1] + size[t]
      OBVIOUS
    <3>7. h = [t \in 0 .. m |-> h[t]]
      OBVIOUS
    <3> HIDE DEF h
    <3>8. \A t \in 0 .. (m - 1) : h[t] = g[t]
      BY <3>4, <3>5, <3>6
    <3>9. \A t \in 0 .. m : t # 0 => t - 1 \in 0 .. (m - 1)
      BY <2>1
    <3>10. \A t \in 0 .. m : h[t] = IF t = 0 THEN 0 ELSE h[t - 1] + size[t]
      BY <3>6, <3>8, <3>9
    <3>11. Begins(h, m, size)
      BY <3>7, <3>10 DEF Begins
    <3> QED BY <2>1, <3>11
  <2> QED BY <2>2, <2>3
<1>2. Bad = {}
  <2> HIDE DEF Bad
  <2>1. Bad \subseteq Nat
    BY DEF Bad
  <2> QED BY <1>1, <2>1, Least
<1>3. Solved(n)
  <2> HIDE DEF Solved
  <2> QED BY <1>2
<1> QED BY <1>3

\* Parts lie behind each other, and every number below a beginning is in one of
\* the parts before it.
LEMMA BeginsFacts ==
  ASSUME NEW n \in Nat, NEW size \in [1 .. n -> Nat \ {0}],
         NEW g, Begins(g, n, size)
  PROVE  /\ g \in [0 .. n -> Nat]
         /\ g[0] = 0
         /\ \A t \in 1 .. n : g[t] = g[t - 1] + size[t]
         /\ \A s, t \in 0 .. n : s < t => g[s] + size[s + 1] <= g[t]
         /\ \A t \in 0 .. n : \A v \in Nat : v < g[t] =>
              \E s \in 1 .. t : g[s - 1] <= v /\ v < g[s - 1] + size[s]
<1>1. g = [t \in 0 .. n |-> IF t = 0 THEN 0 ELSE g[t - 1] + size[t]]
  BY DEF Begins
<1>2. g[0] = 0
  <2>1. 0 \in 0 .. n
    OBVIOUS
  <2> QED BY <1>1, <2>1
<1>3. \A t \in 1 .. n : g[t] = g[t - 1] + size[t]
  <2>1. \A t \in 1 .. n : t \in 0 .. n /\ t # 0
    OBVIOUS
  <2> QED BY <1>1, <2>1
<1>4. \A t \in 1 .. n : size[t] \in Nat /\ size[t] > 0
  OBVIOUS
<1>5. \A t \in 0 .. n : g[t] \in Nat
  <2> DEFINE Bad == {t \in 0 .. n : g[t] \notin Nat}
  <2>1. ASSUME NEW t \in Bad, \A k \in Bad : t <= k PROVE FALSE
    <3>1. t \in 1 .. n /\ t - 1 \in 0 .. n /\ ~(t <= t - 1)
      BY <1>2
    <3>2. g[t - 1] \in Nat
      BY <2>1, <3>1
    <3>3. g[t] \in Nat
      BY <1>3, <1>4, <3>1, <3>2
    <3> QED BY <3>3
  <2>2. Bad \subseteq Nat
    OBVIOUS
  <2>3. Bad = {}
    <3> HIDE DEF Bad
    <3> QED BY <2>1, <2>2, Least
  <2> QED BY <2>3
<1>6. g \in [0 .. n -> Nat]
  BY <1>1, <1>5
<1>7. \A t \in 0 .. n : \A s \in 0 .. n : s < t => g[s] + size[s + 1] <= g[t]
  <2> DEFINE Bad == {t \in 0 .. n : \E s \in 0 .. n : s < t /\ ~(g[s] + size[s + 1] <= g[t])}
  <2>1. ASSUME NEW t \in Bad, \A k \in Bad : t <= k PROVE FALSE
    <3>1. PICK s \in 0 .. n : s < t /\ ~(g[s] + size[s + 1] <= g[t])
      OBVIOUS
    <3>2. t \in 1 .. n /\ t - 1 \in 0 .. n /\ ~(t <= t - 1)
      BY <3>1
    <3>3. g[t] = g[t - 1] + size[t] /\ size[t] \in Nat /\ g[t - 1] \in Nat
      BY <1>3, <1>4, <1>5, <3>2
    <3>4. s + 1 \in 1 .. n /\ size[s + 1] \in Nat /\ g[s] \in Nat
      BY <1>4, <1>5, <3>1
    <3>5. CASE s = t - 1
      <4>1. s + 1 = t
        BY <3>2, <3>5
      <4> QED BY <3>1, <3>3, <3>5, <4>1
    <3>6. CASE s < t - 1
      <4>1. t - 1 \notin Bad
        <5> HIDE DEF Bad
        <5> QED BY <2>1, <3>2
      <4>2. g[s] + size[s + 1] <= g[t - 1]
        BY <3>2, <3>6, <4>1
      <4> QED BY <3>1, <3>3, <3>4, <4>2
    <3> QED BY <3>1, <3>2, <3>5, <3>6
  <2>2. Bad \subseteq Nat
    OBVIOUS
  <2>3. Bad = {}
    <3> HIDE DEF Bad
    <3> QED BY <2>1, <2>2, Least
  <2> QED BY <2>3
<1>8. ASSUME NEW v \in Nat
      PROVE  \A t \in 0 .. n : v < g[t] =>
               \E s \in 1 .. t : g[s - 1] <= v /\ v < g[s - 1] + size[s]
  <2> DEFINE In(s) == g[s - 1] <= v /\ v < g[s - 1] + size[s]
             Bad == {t \in 0 .. n : v < g[t] /\ ~ \E s \in 1 .. t : In(s)}
  <2>1. ASSUME NEW t \in Bad, \A k \in Bad : t <= k PROVE FALSE
    <3>1. t \in 0 .. n /\ v < g[t] /\ ~ \E s \in 1 .. t : In(s)
      OBVIOUS
    <3>2. t \in 1 .. n /\ t - 1 \in 0 .. n /\ ~(t <= t - 1)
      BY <1>2, <3>1
    <3>3. g[t] = g[t - 1] + size[t] /\ size[t] \in Nat /\ g[t - 1] \in Nat
      BY <1>3, <1>4, <1>5, <3>2
    <3>4. ~In(t)
      BY <3>1, <3>2
    <3>5. v < g[t - 1]
      BY <3>1, <3>3, <3>4
    <3>6. ~ \E s \in 1 .. (t - 1) : In(s)
      <4>1. \A s \in 1 .. (t - 1) : s \in 1 .. t
        BY <3>2
      <4> HIDE DEF In
      <4> QED BY <3>1, <4>1
    <3>7. t - 1 \in Bad
      <4> HIDE DEF In
      <4> QED BY <3>2, <3>5, <3>6
    <3> HIDE DEF Bad
    <3> QED BY <2>1, <3>2, <3>7
  <2>2. Bad \subseteq Nat
    OBVIOUS
  <2>3. Bad = {}
    <3> HIDE DEF Bad
    <3> QED BY <2>1, <2>2, Least
  <2> QED BY <2>3
<1> QED BY <1>2, <1>3, <1>6, <1>7, <1>8
===============================================================================
