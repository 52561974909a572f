--------------------------- MODULE VllmShards_proofs ---------------------------
(***************************************************************************)
(* What the ranks of a tensor-parallel group hold after loading, for any   *)
(* layer, any checkpoint and any number of ranks.                          *)
(***************************************************************************)
EXTENDS VllmShards, Counting

(***************************************************************************)
(* Partitions.                                                             *)
(***************************************************************************)
\* Three sequences of channels.
Family(x) == \A b \in Levels : x[b] \in Seq(Int)

\* Every channel below n has exactly one place in the three sequences, and
\* nothing else has one.
Placed(x, n) ==
  /\ \A b \in Levels : \A k \in DOMAIN x[b] : x[b][k] \in 0 .. (n - 1)
  /\ \A v \in 0 .. (n - 1) : \E b \in Levels : \E k \in DOMAIN x[b] : x[b][k] = v
  /\ \A b, d \in Levels : \A j \in DOMAIN x[b] : \A k \in DOMAIN x[d] :
       x[b][j] = x[d][k] => b = d /\ j = k

\* What s \o t holds, and where.
LEMMA Concatenation ==
  ASSUME NEW S, NEW s \in Seq(S), NEW t \in Seq(S)
  PROVE  /\ s \o t \in Seq(S) /\ Len(s \o t) = Len(s) + Len(t)
         /\ DOMAIN s = 1 .. Len(s) /\ DOMAIN t = 1 .. Len(t)
         /\ DOMAIN (s \o t) = 1 .. (Len(s) + Len(t))
         /\ Len(s) \in Nat /\ Len(t) \in Nat
         /\ \A k \in 1 .. Len(s) : (s \o t)[k] = s[k]
         /\ \A k \in 1 .. Len(t) : (s \o t)[Len(s) + k] = t[k]
OBVIOUS

\* An entry of a sequence is a member of its range.
LEMMA EntriesOf ==
  ASSUME NEW S, NEW s \in Seq(S), NEW k \in DOMAIN s
  PROVE  s[k] \in S
OBVIOUS

\* The same for three sequences.
LEMMA ThreeConcatenated ==
  ASSUME NEW S, NEW s \in Seq(S), NEW t \in Seq(S), NEW u \in Seq(S)
  PROVE  LET v == s \o t \o u
         IN /\ v \in Seq(S) /\ Len(v) = Len(s) + Len(t) + Len(u)
            /\ \A k \in 1 .. Len(s) : v[k] = s[k]
            /\ \A k \in 1 .. Len(t) : v[Len(s) + k] = t[k]
            /\ \A k \in 1 .. Len(u) : v[Len(s) + Len(t) + k] = u[k]
<1> DEFINE w == s \o t
           v == w \o u
<1>1. w \in Seq(S)
  OBVIOUS
<1>2. Len(w) = Len(s) + Len(t)
  OBVIOUS
<1>3. \A k \in 1 .. Len(s) : w[k] = s[k]
  OBVIOUS
<1>4. \A k \in 1 .. Len(t) : w[Len(s) + k] = t[k]
  OBVIOUS
<1> HIDE DEF w
<1>5. v \in Seq(S)
  BY <1>1
<1>6. Len(v) = Len(w) + Len(u)
  BY <1>1
<1>7. \A k \in 1 .. Len(w) : v[k] = w[k]
  BY <1>1
<1>8. \A k \in 1 .. Len(u) : v[Len(w) + k] = u[k]
  BY <1>1
<1> HIDE DEF v
<1>9. Len(s) \in Nat /\ Len(t) \in Nat /\ Len(u) \in Nat
  OBVIOUS
<1>10. \A k \in 1 .. Len(s) : v[k] = s[k]
  BY <1>2, <1>3, <1>7, <1>9
<1>11. \A k \in 1 .. Len(t) : v[Len(s) + k] = t[k]
  <2>1. ASSUME NEW k \in 1 .. Len(t) PROVE v[Len(s) + k] = t[k]
    <3>1. Len(s) + k \in 1 .. Len(w)
      BY <1>2, <1>9
    <3>2. v[Len(s) + k] = w[Len(s) + k]
      BY <1>7, <3>1
    <3> QED BY <1>4, <3>2
  <2> QED BY <2>1
<1>12. \A k \in 1 .. Len(u) : v[Len(s) + Len(t) + k] = u[k]
  BY <1>2, <1>8
<1>13. Len(v) = Len(s) + Len(t) + Len(u)
  BY <1>2, <1>6
<1> QED BY <1>5, <1>10, <1>11, <1>12, <1>13 DEF v, w

\* Where an entry comes in the three sequences one after another.
Rank(x, b, k) == CASE b = 4  -> k
                   [] b = 8  -> Len(x[4]) + k
                   [] b = 16 -> Len(x[4]) + Len(x[8]) + k

\* Rank runs through the three sequences one after another, once.
LEMMA Joined ==
  ASSUME NEW x, Family(x)
  PROVE  LET v == x[4] \o x[8] \o x[16]
             T == Len(x[4]) + Len(x[8]) + Len(x[16])
         IN /\ v \in Seq(Int) /\ Len(v) = T /\ T \in Nat
            /\ \A b \in Levels : DOMAIN x[b] = 1 .. Len(x[b]) /\ Len(x[b]) \in Nat
            /\ \A b \in Levels : \A k \in DOMAIN x[b] :
                 Rank(x, b, k) \in 1 .. T /\ v[Rank(x, b, k)] = x[b][k]
            /\ \A i \in 1 .. T : \E b \in Levels : \E k \in DOMAIN x[b] :
                 i = Rank(x, b, k)
            /\ \A b, d \in Levels : \A j \in DOMAIN x[b] : \A k \in DOMAIN x[d] :
                 Rank(x, b, j) = Rank(x, d, k) => b = d /\ j = k
<1> DEFINE A == x[4]
           B == x[8]
           C == x[16]
           v == A \o B \o C
           p == Len(A)
           q == Len(B)
           z == Len(C)
           T == p + q + z
<1>1. A \in Seq(Int) /\ B \in Seq(Int) /\ C \in Seq(Int)
  BY DEF Family, Levels
<1>2. DOMAIN A = 1 .. p /\ DOMAIN B = 1 .. q /\ DOMAIN C = 1 .. z
  BY <1>1
<1>3. p \in Nat /\ q \in Nat /\ z \in Nat
  BY <1>1
<1>4. /\ \A k : Rank(x, 4, k) = k
      /\ \A k : Rank(x, 8, k) = p + k
      /\ \A k : Rank(x, 16, k) = p + q + k
  BY DEF Rank
<1>5. /\ v \in Seq(Int) /\ Len(v) = T
      /\ \A k \in 1 .. p : v[k] = A[k]
      /\ \A k \in 1 .. q : v[p + k] = B[k]
      /\ \A k \in 1 .. z : v[p + q + k] = C[k]
  <2> HIDE DEF A, B, C
  <2> QED BY <1>1, ThreeConcatenated
<1>6. /\ DOMAIN x[4] = 1 .. p /\ DOMAIN x[8] = 1 .. q /\ DOMAIN x[16] = 1 .. z
      /\ Len(x[4]) = p /\ Len(x[8]) = q /\ Len(x[16]) = z
      /\ A = x[4] /\ B = x[8] /\ C = x[16]
  BY <1>2
<1> HIDE DEF A, B, C, v, p, q, z
<1>7. T \in Nat
  BY <1>3
<1>8. /\ \A k \in DOMAIN x[4] : Rank(x, 4, k) \in 1 .. T
      /\ \A k \in DOMAIN x[8] : Rank(x, 8, k) \in 1 .. T
      /\ \A k \in DOMAIN x[16] : Rank(x, 16, k) \in 1 .. T
  BY <1>3, <1>4, <1>6
<1>9. /\ \A k \in DOMAIN x[4] : v[Rank(x, 4, k)] = x[4][k]
      /\ \A k \in DOMAIN x[8] : v[Rank(x, 8, k)] = x[8][k]
      /\ \A k \in DOMAIN x[16] : v[Rank(x, 16, k)] = x[16][k]
  <2>1. ASSUME NEW k \in DOMAIN x[4] PROVE v[Rank(x, 4, k)] = x[4][k]
    BY <1>4, <1>5, <1>6
  <2>2. ASSUME NEW k \in DOMAIN x[8] PROVE v[Rank(x, 8, k)] = x[8][k]
    <3>1. Rank(x, 8, k) = p + k
      BY <1>4
    <3>2. k \in 1 .. q
      BY <1>6
    <3>3. v[p + k] = B[k]
      BY <1>5, <3>2
    <3> QED BY <1>6, <3>1, <3>3
  <2>3. ASSUME NEW k \in DOMAIN x[16] PROVE v[Rank(x, 16, k)] = x[16][k]
    BY <1>4, <1>5, <1>6
  <2> QED BY <2>1, <2>2, <2>3
<1>10. ASSUME NEW i \in 1 .. T
       PROVE  \E b \in Levels : \E k \in DOMAIN x[b] : i = Rank(x, b, k)
  <2>1. CASE i <= p
    <3>1. i \in DOMAIN x[4]
      BY <1>3, <1>6, <1>7, <2>1
    <3>2. i = Rank(x, 4, i)
      BY <1>4
    <3> QED BY <3>1, <3>2 DEF Levels
  <2>2. CASE p < i /\ i <= p + q
    <3>1. i - p \in DOMAIN x[8]
      BY <1>3, <1>6, <1>7, <2>2
    <3>2. i = p + (i - p)
      BY <1>3, <1>7
    <3>3. i = Rank(x, 8, i - p)
      BY <1>4, <3>2
    <3> QED BY <3>1, <3>3 DEF Levels
  <2>3. CASE p + q < i
    <3>1. i - p - q \in DOMAIN x[16]
      BY <1>3, <1>6, <1>7, <2>3
    <3>2. i = p + q + (i - p - q)
      BY <1>3, <1>7
    <3>3. i = Rank(x, 16, i - p - q)
      BY <1>4, <3>2
    <3> QED BY <3>1, <3>3 DEF Levels
  <2> QED BY <1>3, <1>7, <2>1, <2>2, <2>3
<1>11. ASSUME NEW b \in Levels, NEW d \in Levels,
             NEW j \in DOMAIN x[b], NEW k \in DOMAIN x[d],
             Rank(x, b, j) = Rank(x, d, k)
      PROVE  b = d /\ j = k
  <2>1. /\ b = 4 => Rank(x, b, j) = j /\ j \in 1 .. p
        /\ b = 8 => Rank(x, b, j) = p + j /\ j \in 1 .. q
        /\ b = 16 => Rank(x, b, j) = p + q + j /\ j \in 1 .. z
    BY <1>4, <1>6
  <2>2. /\ d = 4 => Rank(x, d, k) = k /\ k \in 1 .. p
        /\ d = 8 => Rank(x, d, k) = p + k /\ k \in 1 .. q
        /\ d = 16 => Rank(x, d, k) = p + q + k /\ k \in 1 .. z
    BY <1>4, <1>6
  <2>3. (b = 4 \/ b = 8 \/ b = 16) /\ (d = 4 \/ d = 8 \/ d = 16)
    BY DEF Levels
  <2> DEFINE R == Rank(x, b, j)
  <2>4. R = Rank(x, d, k)
    BY <1>11
  <2> HIDE DEF R
  <2>5. CASE b = 4
    BY <1>3, <2>1, <2>2, <2>3, <2>4, <2>5 DEF R
  <2>6. CASE b = 8
    BY <1>3, <2>1, <2>2, <2>3, <2>4, <2>6 DEF R
  <2>7. CASE b = 16
    BY <1>3, <2>1, <2>2, <2>3, <2>4, <2>7 DEF R
  <2> QED BY <2>3, <2>5, <2>6, <2>7
<1> HIDE DEF T
<1>12. \A b \in Levels : DOMAIN x[b] = 1 .. Len(x[b]) /\ Len(x[b]) \in Nat
  BY <1>3, <1>6 DEF Levels
<1>13. \A b \in Levels : \A k \in DOMAIN x[b] :
         Rank(x, b, k) \in 1 .. T /\ v[Rank(x, b, k)] = x[b][k]
  BY <1>8, <1>9 DEF Levels
<1>14. v \in Seq(Int) /\ Len(v) = T
  BY <1>5 DEF T
<1>15. v = x[4] \o x[8] \o x[16] /\ T = Len(x[4]) + Len(x[8]) + Len(x[16])
  BY DEF v, T, A, B, C, p, q, z
<1> QED BY <1>7, <1>10, <1>11, <1>12, <1>13, <1>14, <1>15

\* Lengths that add up and a range without gaps (validate_partition_indices) say
\* that every channel has exactly one place: there are as many places as channels.
LEMMA CoversPlaced ==
  ASSUME NEW x, Family(x), NEW n \in Nat
  PROVE  Covers(x, n) <=> Placed(x, n)
<1> DEFINE v == x[4] \o x[8] \o x[16]
           T == Len(x[4]) + Len(x[8]) + Len(x[16])
           D == 0 .. (n - 1)
<1>1. /\ v \in Seq(Int) /\ Len(v) = T /\ T \in Nat
      /\ \A b \in Levels : \A k \in DOMAIN x[b] :
           Rank(x, b, k) \in 1 .. T /\ v[Rank(x, b, k)] = x[b][k]
      /\ \A i \in 1 .. T : \E b \in Levels : \E k \in DOMAIN x[b] :
           i = Rank(x, b, k)
      /\ \A b, d \in Levels : \A j \in DOMAIN x[b] : \A k \in DOMAIN x[d] :
           Rank(x, b, j) = Rank(x, d, k) => b = d /\ j = k
  BY Joined
<1>2. Covers(x, n) <=> Len(v) = n /\ ToSet(v) = D
  BY DEF Covers
<1> HIDE DEF v, T
<1>3. v \in [1 .. T -> Int] /\ ToSet(v) = {v[i] : i \in 1 .. T}
  BY <1>1 DEF ToSet
<1>4. IsFiniteSet(1 .. T) /\ Cardinality(1 .. T) = T
  BY <1>1, FS_Interval
<1>5. IsFiniteSet(D) /\ Cardinality(D) = n
  BY FS_Interval
<1> HIDE DEF D
<1>6. ASSUME Covers(x, n) PROVE Placed(x, n)
  <2>1. T = n /\ v \in Surjection(1 .. T, D)
    BY <1>1, <1>2, <1>3, <1>6 DEF Surjection
  <2>2. v \in Injection(1 .. T, D)
    BY <1>4, <1>5, <2>1, FS_SurjSameCardinalityImpliesInj
  <2>3. /\ \A i \in 1 .. T : v[i] \in D
        /\ \A c \in D : \E i \in 1 .. T : v[i] = c
        /\ \A i, j \in 1 .. T : v[i] = v[j] => i = j
    BY <2>1, <2>2 DEF Surjection, Injection, IsInjective
  <2>4. \A b \in Levels : \A k \in DOMAIN x[b] : x[b][k] \in D
    BY <1>1, <2>3
  <2>5. \A c \in D : \E b \in Levels : \E k \in DOMAIN x[b] : x[b][k] = c
    <3>1. ASSUME NEW c \in D
          PROVE  \E b \in Levels : \E k \in DOMAIN x[b] : x[b][k] = c
      <4>1. PICK i \in 1 .. T : v[i] = c
        BY <2>3
      <4>2. PICK b \in Levels : \E k \in DOMAIN x[b] : i = Rank(x, b, k)
        BY <1>1
      <4> QED BY <1>1, <4>1, <4>2
    <3> QED BY <3>1
  <2>6. ASSUME NEW b \in Levels, NEW d \in Levels,
               NEW j \in DOMAIN x[b], NEW k \in DOMAIN x[d], x[b][j] = x[d][k]
        PROVE  b = d /\ j = k
    <3>1. Rank(x, b, j) = Rank(x, d, k)
      BY <1>1, <2>3, <2>6
    <3> QED BY <1>1, <3>1
  <2> QED BY <2>4, <2>5, <2>6 DEF Placed, D
<1>7. ASSUME Placed(x, n) PROVE Covers(x, n)
  <2>1. /\ \A b \in Levels : \A k \in DOMAIN x[b] : x[b][k] \in D
        /\ \A c \in D : \E b \in Levels : \E k \in DOMAIN x[b] : x[b][k] = c
        /\ \A b, d \in Levels : \A j \in DOMAIN x[b] : \A k \in DOMAIN x[d] :
             x[b][j] = x[d][k] => b = d /\ j = k
    BY <1>7 DEF Placed, D
  <2>2. \A i \in 1 .. T : v[i] \in D
    <3>1. ASSUME NEW i \in 1 .. T PROVE v[i] \in D
      <4>1. PICK b \in Levels : \E k \in DOMAIN x[b] : i = Rank(x, b, k)
        BY <1>1
      <4> QED BY <1>1, <2>1, <4>1
    <3> QED BY <3>1
  <2>3. \A c \in D : \E i \in 1 .. T : v[i] = c
    <3>1. ASSUME NEW c \in D PROVE \E i \in 1 .. T : v[i] = c
      <4>1. PICK b \in Levels : \E k \in DOMAIN x[b] : x[b][k] = c
        BY <2>1
      <4> QED BY <1>1, <4>1
    <3> QED BY <3>1
  <2>4. ASSUME NEW i \in 1 .. T, NEW j \in 1 .. T, v[i] = v[j] PROVE i = j
    <3>1. PICK b \in Levels : \E k \in DOMAIN x[b] : i = Rank(x, b, k)
      BY <1>1
    <3>2. PICK k \in DOMAIN x[b] : i = Rank(x, b, k)
      BY <3>1
    <3>3. PICK d \in Levels : \E l \in DOMAIN x[d] : j = Rank(x, d, l)
      BY <1>1
    <3>4. PICK l \in DOMAIN x[d] : j = Rank(x, d, l)
      BY <3>3
    <3>5. x[b][k] = x[d][l]
      BY <1>1, <2>4, <3>2, <3>4
    <3>6. b = d /\ k = l
      BY <2>1, <3>5
    <3> QED BY <3>2, <3>4, <3>6
  <2>5. v \in [1 .. T -> D]
    BY <1>3, <2>2
  <2>6. v \in Injection(1 .. T, D) /\ v \in Surjection(1 .. T, D)
    BY <2>3, <2>4, <2>5 DEF Injection, Surjection, IsInjective
  <2>7. T = n
    BY <1>4, <1>5, <2>6, FS_Surjection
  <2>8. ToSet(v) = D
    BY <1>3, <2>2, <2>3
  <2> QED BY <1>1, <1>2, <2>7, <2>8
<1> QED BY <1>6, <1>7

(***************************************************************************)
(* Selections.                                                             *)
(***************************************************************************)
\* Ascending lists a set of places from its smallest to its largest.
LEMMA AscendingEnumerates ==
  ASSUME NEW S, IsFiniteSet(S), \A x \in S : x \in Int
  PROVE  Enumerates(Ascending(S), S)
<1>1. PICK f : Enumerates(f, S)
  BY EnumerationExists
<1>2. f \in [1 .. Cardinality(S) -> S]
  BY <1>1 DEF Enumerates
<1>3. DOMAIN f = 1 .. Cardinality(S)
  BY <1>2
<1>4. \A i, j \in DOMAIN f : i < j => f[i] < f[j]
  BY <1>1, <1>3 DEF Enumerates
<1> DEFINE g == Ascending(S)
           N == 1 .. Cardinality(S)
<1>5. /\ g \in [N -> S]
      /\ \A i, j \in DOMAIN g : i < j => g[i] < g[j]
  BY <1>2, <1>4 DEF Ascending
<1>6. Cardinality(S) \in Nat
  BY FS_CardinalityType
<1>7. IsFiniteSet(N) /\ Cardinality(N) = Cardinality(S)
  BY <1>6, FS_Interval
<1> HIDE DEF g
<1>8. \A i, j \in N : i < j => g[i] < g[j]
  BY <1>5
<1>9. ASSUME NEW i \in N, NEW j \in N, g[i] = g[j] PROVE i = j
  <2>1. i \in Int /\ j \in Int /\ g[i] \in Int /\ g[j] \in Int
    BY <1>5, <1>6
  <2>2. ~(i < j) /\ ~(j < i)
    BY <1>8, <1>9, <2>1
  <2> QED BY <2>1, <2>2
<1>10. g \in Injection(N, S)
  BY <1>5, <1>9 DEF Injection, IsInjective
<1>11. g \in Surjection(N, S)
  BY <1>7, <1>10, FS_Injection
<1>12. \A x \in S : \E i \in N : g[i] = x
  BY <1>11 DEF Surjection
<1> QED BY <1>5, <1>8, <1>12 DEF Enumerates, g

\* An increasing function onto a set of places is the listing of that set.
LEMMA AscendingIs ==
  ASSUME NEW n \in Nat, NEW S, \A x \in S : x \in Int,
         NEW f \in [1 .. n -> S],
         \A i, j \in 1 .. n : i < j => f[i] < f[j],
         \A x \in S : \E i \in 1 .. n : f[i] = x
  PROVE  IsFiniteSet(S) /\ Cardinality(S) = n /\ Ascending(S) = f
<1> DEFINE N == 1 .. n
<1>1. IsFiniteSet(N) /\ Cardinality(N) = n
  BY FS_Interval
<1>2. ASSUME NEW i \in N, NEW j \in N, f[i] = f[j] PROVE i = j
  <2>1. i \in Int /\ j \in Int /\ f[i] \in Int /\ f[j] \in Int
    OBVIOUS
  <2>2. ~(i < j) /\ ~(j < i)
    BY <1>2, <2>1
  <2> QED BY <2>1, <2>2
<1>3. f \in Injection(N, S) /\ f \in Surjection(N, S)
  BY <1>2 DEF Injection, IsInjective, Surjection
<1>4. IsFiniteSet(S) /\ Cardinality(S) = n
  BY <1>1, <1>3, FS_Surjection
<1>5. Enumerates(f, S)
  BY <1>4 DEF Enumerates
<1>6. Enumerates(Ascending(S), S)
  BY <1>4, AscendingEnumerates
<1> QED BY <1>4, <1>5, <1>6, EnumerationsAgree

\* A mask keeps the values at its places, in their order.
LEMMA MaskedFacts ==
  ASSUME NEW V, NEW values \in Seq(V), NEW kept, kept \subseteq DOMAIN values
  PROVE  LET o == Ascending(kept)
             n == Cardinality(kept)
         IN /\ n \in Nat
            /\ o \in [1 .. n -> kept]
            /\ \A i, j \in 1 .. n : i < j => o[i] < o[j]
            /\ \A k \in kept : \E i \in 1 .. n : o[i] = k
            /\ Masked(values, kept) \in Seq(V)
            /\ Len(Masked(values, kept)) = n
            /\ DOMAIN Masked(values, kept) = 1 .. n
            /\ \A i \in 1 .. n : Masked(values, kept)[i] = values[o[i]]
<1> DEFINE o == Ascending(kept)
           n == Cardinality(kept)
           m == Masked(values, kept)
<1>1. DOMAIN values = 1 .. Len(values) /\ Len(values) \in Nat
  OBVIOUS
<1>2. IsFiniteSet(1 .. Len(values))
  BY <1>1, FS_Interval
<1>3. IsFiniteSet(kept)
  BY <1>1, <1>2, FS_Subset
<1>4. \A k \in kept : k \in Int
  BY <1>1
<1>5. Enumerates(o, kept)
  BY <1>3, <1>4, AscendingEnumerates
<1>6. n \in Nat
  BY <1>3, FS_CardinalityType
<1>7. /\ o \in [1 .. n -> kept]
      /\ \A i, j \in 1 .. n : i < j => o[i] < o[j]
      /\ \A k \in kept : \E i \in 1 .. n : o[i] = k
  BY <1>5 DEF Enumerates
<1>8. m = [i \in 1 .. n |-> values[o[i]]]
  BY <1>7 DEF Masked
<1> HIDE DEF o, n, m
<1>9. \A i \in 1 .. n : values[o[i]] \in V
  BY <1>1, <1>7
<1>10. m \in Seq(V) /\ Len(m) = n /\ DOMAIN m = 1 .. n
  BY <1>6, <1>8, <1>9
<1>11. \A i \in 1 .. n : m[i] = values[o[i]]
  BY <1>8
<1> QED BY <1>6, <1>7, <1>10, <1>11 DEF o, n, m

\* The places with a value in a range.
Places(values, start, width) ==
  {k \in DOMAIN values : start <= values[k] /\ values[k] < start + width}

\* Values in a range keep their order, each from a place of its own.
LEMMA WithinFacts ==
  ASSUME NEW x \in Seq(Int), NEW start \in Int, NEW width \in Int
  PROVE  LET y == Within(x, start, width)
             o == Ascending(Places(x, start, width))
         IN /\ y \in Seq(Int)
            /\ o \in [DOMAIN y -> DOMAIN x]
            /\ \A i, j \in DOMAIN y : o[i] = o[j] => i = j
            /\ \A i \in DOMAIN y : y[i] = x[o[i]] /\ start <= y[i] /\ y[i] < start + width
            /\ \A k \in DOMAIN x : start <= x[k] /\ x[k] < start + width =>
                 \E i \in DOMAIN y : o[i] = k
<1> DEFINE kept == Places(x, start, width)
           y == Within(x, start, width)
           o == Ascending(kept)
           n == Cardinality(kept)
<1>1. kept \subseteq DOMAIN x
  BY DEF Places
<1>2. y = Masked(x, kept)
  BY DEF Within, Places
<1>3. \A k : k \in kept <=> k \in DOMAIN x /\ start <= x[k] /\ x[k] < start + width
  BY DEF Places
<1> HIDE DEF kept, y
<1>4. /\ n \in Nat
      /\ o \in [1 .. n -> kept]
      /\ \A i, j \in 1 .. n : i < j => o[i] < o[j]
      /\ \A k \in kept : \E i \in 1 .. n : o[i] = k
      /\ y \in Seq(Int)
      /\ DOMAIN y = 1 .. n
      /\ \A i \in 1 .. n : y[i] = x[o[i]]
  BY <1>1, <1>2, MaskedFacts
<1> HIDE DEF o, n
<1>5. ASSUME NEW i \in 1 .. n, NEW j \in 1 .. n, o[i] = o[j] PROVE i = j
  <2>1. DOMAIN x = 1 .. Len(x) /\ Len(x) \in Nat
    OBVIOUS
  <2>2. o[i] \in Int /\ o[j] \in Int
    <3>1. o[i] \in kept /\ o[j] \in kept
      BY <1>4
    <3> QED BY <1>1, <2>1, <3>1
  <2>3. i \in Int /\ j \in Int
    BY <1>4
  <2>4. ~(i < j) /\ ~(j < i)
    BY <1>4, <1>5, <2>2
  <2> QED BY <2>4, <2>3
<1>6. o \in [DOMAIN y -> DOMAIN x]
  BY <1>1, <1>4
<1>7. \A i \in DOMAIN y : y[i] = x[o[i]] /\ start <= y[i] /\ y[i] < start + width
  BY <1>3, <1>4
<1>8. \A k \in DOMAIN x : start <= x[k] /\ x[k] < start + width =>
        \E i \in DOMAIN y : o[i] = k
  BY <1>3, <1>4
<1>9. \A i, j \in DOMAIN y : o[i] = o[j] => i = j
  BY <1>4, <1>5
<1>10. y \in Seq(Int)
  BY <1>4
<1> QED BY <1>6, <1>7, <1>8, <1>9, <1>10 DEF kept, y, o

\* Nothing is left out of a sequence whose values all lie in the range.
LEMMA WithinAll ==
  ASSUME NEW x \in Seq(Int), NEW start \in Int, NEW width \in Int,
         \A k \in DOMAIN x : start <= x[k] /\ x[k] < start + width
  PROVE  Within(x, start, width) = x
<1> DEFINE n == Len(x)
           f == [k \in 1 .. n |-> k]
<1>1. n \in Nat /\ DOMAIN x = 1 .. n
  OBVIOUS
<1>2. Within(x, start, width) = Masked(x, 1 .. n)
  <2>1. {k \in DOMAIN x : start <= x[k] /\ x[k] < start + width} = 1 .. n
    BY <1>1
  <2> QED BY <2>1 DEF Within
<1> HIDE DEF n
<1>3. \A k \in 1 .. n : f[k] = k
  OBVIOUS
<1>4. f \in [1 .. n -> 1 .. n]
  OBVIOUS
<1>5. \A i \in 1 .. n : i \in Int
  BY <1>1
<1> HIDE DEF f
<1>6. Ascending(1 .. n) = f
  <2>1. \A i, j \in 1 .. n : i < j => f[i] < f[j]
    BY <1>3
  <2>2. \A i \in 1 .. n : \E j \in 1 .. n : f[j] = i
    BY <1>3
  <2> QED BY <1>1, <1>4, <1>5, <2>1, <2>2, AscendingIs
<1>7. Masked(x, 1 .. n) = [k \in 1 .. n |-> x[k]]
  BY <1>3, <1>4, <1>6 DEF Masked
<1> QED BY <1>1, <1>2, <1>7

\* A second sequence with no value in the range adds nothing.
LEMMA WithinFirst ==
  ASSUME NEW x \in Seq(Int), NEW y \in Seq(Int),
         NEW start \in Int, NEW width \in Int,
         \A k \in DOMAIN y : ~(start <= y[k] /\ y[k] < start + width)
  PROVE  Within(x \o y, start, width) = Within(x, start, width)
<1> DEFINE v == x \o y
           K == Places(x, start, width)
<1>1. /\ DOMAIN x = 1 .. Len(x) /\ DOMAIN y = 1 .. Len(y)
      /\ Len(x) \in Nat /\ Len(y) \in Nat
  OBVIOUS
<1>2. DOMAIN v = 1 .. (Len(x) + Len(y))
  OBVIOUS
<1>3. \A k \in 1 .. Len(x) : v[k] = x[k]
  OBVIOUS
<1>4. \A k \in 1 .. Len(y) : v[Len(x) + k] = y[k]
  OBVIOUS
<1> HIDE DEF v
<1>5. Places(v, start, width) = K
  <2>1. ASSUME NEW k \in 1 .. (Len(x) + Len(y)), ~(k \in 1 .. Len(x))
        PROVE  ~(start <= v[k] /\ v[k] < start + width)
    <3>1. k - Len(x) \in 1 .. Len(y) /\ k = Len(x) + (k - Len(x))
      BY <1>1, <2>1
    <3>2. v[k] = y[k - Len(x)]
      BY <1>4, <3>1
    <3> QED BY <1>1, <3>1, <3>2
  <2>2. 1 .. Len(x) \subseteq 1 .. (Len(x) + Len(y))
    BY <1>1
  <2> QED BY <1>1, <1>2, <1>3, <2>1, <2>2 DEF Places
<1>6. Within(v, start, width) = Masked(v, K) /\ Within(x, start, width) = Masked(x, K)
  BY <1>5 DEF Within, Places
<1>7. K \subseteq DOMAIN x
  BY DEF Places
<1> DEFINE o == Ascending(K)
           n == Cardinality(K)
<1> HIDE DEF K
<1>8. o \in [1 .. n -> K]
  BY <1>7, MaskedFacts
<1>9. DOMAIN o = 1 .. n /\ \A k \in DOMAIN o : v[o[k]] = x[o[k]]
  BY <1>1, <1>3, <1>7, <1>8
<1>10. Masked(v, K) = Masked(x, K)
  BY <1>9 DEF Masked
<1> QED BY <1>6, <1>10 DEF v

\* All values of a sequence, or none, lie in a range.
AllIn(x, start, width) ==
  \A k \in DOMAIN x : start <= x[k] /\ x[k] < start + width
NoneIn(x, start, width) ==
  \A k \in DOMAIN x : ~(start <= x[k] /\ x[k] < start + width)

\* A range that holds exactly the second of two sequences selects it.
LEMMA WithinLast ==
  ASSUME NEW x \in Seq(Int), NEW y \in Seq(Int),
         NEW start \in Int, NEW width \in Int,
         NoneIn(x, start, width), AllIn(y, start, width)
  PROVE  Within(x \o y, start, width) = y
<1> DEFINE v == x \o y
           K == Places(v, start, width)
           m == Len(x)
           n == Len(y)
           f == [k \in 1 .. n |-> m + k]
<1>1. DOMAIN x = 1 .. m /\ DOMAIN y = 1 .. n /\ m \in Nat /\ n \in Nat
  OBVIOUS
<1>2. DOMAIN v = 1 .. (m + n)
  OBVIOUS
<1>3. \A k \in 1 .. m : v[k] = x[k]
  OBVIOUS
<1>4. \A k \in 1 .. n : v[m + k] = y[k]
  OBVIOUS
<1> HIDE DEF v, m, n
<1>5. \A k \in 1 .. n : f[k] = m + k
  OBVIOUS
<1>6. \A k \in K : k - m \in 1 .. n
  <2>1. ASSUME NEW k \in 1 .. (m + n), ~(k - m \in 1 .. n)
        PROVE  ~(start <= v[k] /\ v[k] < start + width)
    <3>1. k \in 1 .. m
      BY <1>1, <2>1
    <3> QED BY <1>1, <1>3, <3>1 DEF NoneIn
  <2> QED BY <1>2, <2>1 DEF Places
<1>7. \A k \in 1 .. n : m + k \in K
  <2>1. ASSUME NEW k \in 1 .. n PROVE m + k \in K
    <3>1. m + k \in DOMAIN v
      BY <1>1, <1>2
    <3> QED BY <1>1, <1>4, <3>1 DEF Places, AllIn
  <2> QED BY <2>1
<1>8. \A k \in K : k \in Int
  BY <1>1, <1>2 DEF Places
<1>9. Within(v, start, width) = Masked(v, K)
  BY DEF Within, Places
<1> HIDE DEF K
<1>10. f \in [1 .. n -> K]
  BY <1>5, <1>7
<1>11. \A i, j \in 1 .. n : i < j => f[i] < f[j]
  BY <1>1, <1>5
<1>12. \A k \in K : \E i \in 1 .. n : f[i] = k
  <2>1. ASSUME NEW k \in K PROVE \E i \in 1 .. n : f[i] = k
    <3>1. k - m \in 1 .. n /\ k = m + (k - m)
      BY <1>1, <1>6, <1>8
    <3> QED BY <1>5, <3>1
  <2> QED BY <2>1
<1> HIDE DEF f
<1>13. Ascending(K) = f
  BY <1>1, <1>8, <1>10, <1>11, <1>12, AscendingIs
<1>14. DOMAIN f = 1 .. n /\ \A k \in DOMAIN f : v[f[k]] = y[k]
  BY <1>4, <1>5, <1>10
<1>15. Masked(v, K) = [k \in 1 .. n |-> y[k]]
  BY <1>13, <1>14 DEF Masked
<1> QED BY <1>1, <1>9, <1>15 DEF v

\* Moving keeps the places and adds the same to every value.
LEMMA MovedFacts ==
  ASSUME NEW x \in Seq(Int), NEW d \in Int
  PROVE  /\ Moved(x, d) \in Seq(Int) /\ Len(Moved(x, d)) = Len(x)
         /\ DOMAIN Moved(x, d) = DOMAIN x
         /\ \A k \in DOMAIN x : Moved(x, d)[k] = x[k] + d /\ x[k] \in Int
<1>1. DOMAIN x = 1 .. Len(x) /\ Len(x) \in Nat /\ \A k \in DOMAIN x : x[k] \in Int
  OBVIOUS
<1>2. Moved(x, d) = [k \in 1 .. Len(x) |-> x[k] + d]
  BY <1>1 DEF Moved
<1>3. \A k \in 1 .. Len(x) : x[k] + d \in Int
  BY <1>1
<1> DEFINE m == Moved(x, d)
           n == Len(x)
<1> HIDE DEF m, n
<1>4. m \in Seq(Int) /\ Len(m) = n /\ DOMAIN m = 1 .. n
  BY <1>1, <1>2, <1>3 DEF m, n
<1>5. \A k \in 1 .. n : m[k] = x[k] + d
  BY <1>2 DEF m, n
<1> QED BY <1>1, <1>4, <1>5 DEF m, n

\* The same added to two values changes nothing about their being equal.
LEMMA Cancel ==
  ASSUME NEW a \in Int, NEW c \in Int, NEW d \in Int,
         a + d = c + d \/ a - d = c - d
  PROVE  a = c
OBVIOUS

\* The place of an entry of a sequence that comes behind another.
Behind(a, i) == Len(a) + i

\* What a sequence a with the sequence c, moved by n, after it holds.
Appended(a, c, n, z) ==
  /\ z \in Seq(Int)
  /\ \A k \in DOMAIN a : k \in DOMAIN z /\ z[k] = a[k]
  /\ \A k \in DOMAIN c : Behind(a, k) \in DOMAIN z /\ z[Behind(a, k)] = Moved(c, n)[k]
  /\ \A k \in DOMAIN z : \/ k \in DOMAIN a /\ z[k] = a[k]
                         \/ \E i \in DOMAIN c : /\ k = Behind(a, i)
                                                /\ z[k] = Moved(c, n)[i]

\* Appending gives that.
LEMMA AppendedEntries ==
  ASSUME NEW a \in Seq(Int), NEW c \in Seq(Int), NEW n \in Int,
         NEW z, z = a \o Moved(c, n)
  PROVE  Appended(a, c, n, z)
<1> DEFINE w == Moved(c, n)
           p == Len(a)
           q == Len(c)
<1>1. w \in Seq(Int) /\ Len(w) = q
  BY MovedFacts
<1>3. DOMAIN a = 1 .. p /\ DOMAIN c = 1 .. q /\ p \in Nat /\ q \in Nat
  OBVIOUS
<1>0. z = a \o w
  OBVIOUS
<1> HIDE DEF w
<1>4. z \in Seq(Int)
  BY <1>0, <1>1
<1>5. DOMAIN z = 1 .. (p + q)
  <2>1. Len(z) = p + q
    <3>1. w \in Seq(Int)
      BY <1>1
    <3>2. Len(a \o w) = Len(a) + Len(w)
      BY <3>1, Concatenation
    <3> QED BY <1>0, <1>1, <3>2
  <2>2. DOMAIN z = 1 .. Len(z)
    BY <1>4
  <2> QED BY <2>1, <2>2
<1>6. \A k \in 1 .. p : z[k] = a[k]
  BY <1>0, <1>1
<1>7. \A k \in 1 .. q : z[p + k] = w[k]
  BY <1>0, <1>1
<1> HIDE DEF p, q
<1>8. \A k \in DOMAIN a : k \in DOMAIN z /\ z[k] = a[k]
  BY <1>3, <1>5, <1>6
<1>9. \A k \in DOMAIN c : p + k \in DOMAIN z /\ z[p + k] = w[k]
  BY <1>3, <1>5, <1>7
<1>10. ASSUME NEW k \in DOMAIN z
       PROVE  \/ k \in DOMAIN a /\ z[k] = a[k]
              \/ \E i \in DOMAIN c : k = p + i /\ z[k] = w[i]
  <2>1. k \in 1 .. (p + q)
    BY <1>5
  <2>2. CASE k <= p
    <3>1. k \in DOMAIN a
      BY <1>3, <2>1, <2>2
    <3> QED BY <1>8, <3>1
  <2>3. CASE k > p
    <3>1. k - p \in DOMAIN c
      BY <1>3, <2>1, <2>3
    <3>2. k = p + (k - p)
      BY <1>3, <2>1
    <3>3. z[p + (k - p)] = w[k - p]
      BY <1>9, <3>1
    <3> QED BY <3>1, <3>2, <3>3
  <2> QED BY <1>3, <2>1, <2>2, <2>3
<1> QED BY <1>4, <1>8, <1>9, <1>10 DEF p, w, Behind, Appended

\* The part of a partition in a range, counted from the start of the range,
\* partitions the range.
LEMMA LocalPlaced ==
  ASSUME NEW x, Family(x), NEW n \in Nat, Placed(x, n),
         NEW start \in Nat, NEW width \in Nat, start + width <= n
  PROVE  LET y == [b \in Levels |-> Moved(Within(x[b], start, width), -start)]
         IN Family(y) /\ Placed(y, width)
<1> DEFINE w(b) == Within(x[b], start, width)
           o(b) == Ascending(Places(x[b], start, width))
           y == [b \in Levels |-> Moved(w(b), -start)]
<1>1. ASSUME NEW b \in Levels
      PROVE  /\ y[b] \in Seq(Int) /\ DOMAIN y[b] = DOMAIN w(b)
             /\ o(b) \in [DOMAIN y[b] -> DOMAIN x[b]]
             /\ \A k \in DOMAIN y[b] : /\ y[b][k] = x[b][o(b)[k]] - start
                                       /\ y[b][k] \in 0 .. (width - 1)
             /\ \A i, j \in DOMAIN y[b] : o(b)[i] = o(b)[j] => i = j
             /\ \A k \in DOMAIN x[b] : start <= x[b][k] /\ x[b][k] < start + width =>
                  \E i \in DOMAIN y[b] : o(b)[i] = k
  <2>1. x[b] \in Seq(Int)
    BY DEF Family
  <2>2. /\ w(b) \in Seq(Int)
        /\ o(b) \in [DOMAIN w(b) -> DOMAIN x[b]]
        /\ \A i, j \in DOMAIN w(b) : o(b)[i] = o(b)[j] => i = j
        /\ \A i \in DOMAIN w(b) : /\ w(b)[i] = x[b][o(b)[i]]
                                  /\ start <= w(b)[i] /\ w(b)[i] < start + width
        /\ \A k \in DOMAIN x[b] : start <= x[b][k] /\ x[b][k] < start + width =>
             \E i \in DOMAIN w(b) : o(b)[i] = k
    <3> DEFINE z == x[b]
               u == Within(z, start, width)
               p == Ascending(Places(z, start, width))
    <3>1. z \in Seq(Int) /\ start \in Int /\ width \in Int
      BY <2>1
    <3> HIDE DEF z
    <3>2. /\ u \in Seq(Int)
          /\ p \in [DOMAIN u -> DOMAIN z]
          /\ \A i, j \in DOMAIN u : p[i] = p[j] => i = j
          /\ \A i \in DOMAIN u : u[i] = z[p[i]] /\ start <= u[i] /\ u[i] < start + width
          /\ \A k \in DOMAIN z : start <= z[k] /\ z[k] < start + width =>
               \E i \in DOMAIN u : p[i] = k
      BY <3>1, WithinFacts
    <3>3. u = w(b) /\ p = o(b)
      BY DEF z
    <3> HIDE DEF u, p, w, o
    <3> QED BY <3>2, <3>3 DEF z
  <2>3. y[b] = Moved(w(b), -start)
    OBVIOUS
  <2> HIDE DEF w, o, y
  <2>4. /\ y[b] \in Seq(Int) /\ DOMAIN y[b] = DOMAIN w(b)
        /\ \A k \in DOMAIN w(b) : y[b][k] = w(b)[k] + (-start) /\ w(b)[k] \in Int
    <3> DEFINE u == w(b)
               d == -start
               m == Moved(u, d)
    <3>1. u \in Seq(Int) /\ d \in Int
      BY <2>2
    <3> HIDE DEF u, d
    <3>2. /\ m \in Seq(Int) /\ DOMAIN m = DOMAIN u
          /\ \A k \in DOMAIN u : m[k] = u[k] + d /\ u[k] \in Int
      BY <3>1, MovedFacts
    <3> HIDE DEF m
    <3>3. y[b] = m
      BY <2>3 DEF m, u, d
    <3> QED BY <3>2, <3>3 DEF u, d
  <2>5. \A k \in DOMAIN y[b] : y[b][k] = x[b][o(b)[k]] - start
    BY <2>2, <2>4
  <2>6. \A k \in DOMAIN y[b] : y[b][k] \in 0 .. (width - 1)
    BY <2>2, <2>4
  <2> QED BY <2>2, <2>4, <2>5, <2>6
<1> HIDE DEF w, o, y
<1>2. Family(y)
  BY <1>1 DEF Family
<1>3. /\ \A c \in 0 .. (n - 1) : \E b \in Levels : \E k \in DOMAIN x[b] : x[b][k] = c
      /\ \A b, d \in Levels : \A j \in DOMAIN x[b] : \A k \in DOMAIN x[d] :
           x[b][j] = x[d][k] => b = d /\ j = k
      /\ \A b \in Levels : \A k \in DOMAIN x[b] : x[b][k] \in Int
  BY DEF Placed
<1>4. ASSUME NEW c \in 0 .. (width - 1)
      PROVE  \E b \in Levels : \E k \in DOMAIN y[b] : y[b][k] = c
  <2>1. c + start \in 0 .. (n - 1)
    OBVIOUS
  <2>2. PICK b \in Levels : \E k \in DOMAIN x[b] : x[b][k] = c + start
    BY <1>3, <2>1
  <2>3. PICK k \in DOMAIN x[b] : x[b][k] = c + start
    BY <2>2
  <2>4. start <= x[b][k] /\ x[b][k] < start + width
    BY <2>3
  <2>5. PICK i \in DOMAIN y[b] : o(b)[i] = k
    BY <1>1, <2>4
  <2>6. y[b][i] = c
    BY <1>1, <2>3, <2>5
  <2> QED BY <2>6
<1>5. ASSUME NEW b \in Levels, NEW d \in Levels,
             NEW j \in DOMAIN y[b], NEW k \in DOMAIN y[d], y[b][j] = y[d][k]
      PROVE  b = d /\ j = k
  <2>1. o(b)[j] \in DOMAIN x[b] /\ o(d)[k] \in DOMAIN x[d]
    BY <1>1
  <2>2. y[b][j] = x[b][o(b)[j]] - start /\ y[d][k] = x[d][o(d)[k]] - start
    BY <1>1
  <2>3. x[b][o(b)[j]] \in Int /\ x[d][o(d)[k]] \in Int
    BY <1>3, <2>1
  <2>4. x[b][o(b)[j]] = x[d][o(d)[k]]
    <3>1. x[b][o(b)[j]] - start = x[d][o(d)[k]] - start
      BY <1>5, <2>2
    <3> QED BY <2>3, <3>1, Cancel
  <2>5. b = d /\ o(b)[j] = o(d)[k]
    BY <1>3, <2>1, <2>4
  <2> QED BY <1>1, <2>5
<1>6. \A b \in Levels : \A k \in DOMAIN y[b] : y[b][k] \in 0 .. (width - 1)
  BY <1>1
<1>7. Placed(y, width)
  BY <1>4, <1>5, <1>6 DEF Placed
<1> QED BY <1>2, <1>7 DEF y, w

\* Two partitions, the second moved behind the first, make one.
LEMMA AppendPlaced ==
  ASSUME NEW x, Family(x), NEW n \in Nat, Placed(x, n),
         NEW y, Family(y), NEW m \in Nat, Placed(y, m)
  PROVE  LET z == [b \in Levels |-> x[b] \o Moved(y[b], n)]
         IN Family(z) /\ Placed(z, n + m)
<1> DEFINE z == [b \in Levels |-> x[b] \o Moved(y[b], n)]
<1>1. ASSUME NEW b \in Levels
      PROVE  /\ z[b] \in Seq(Int)
             /\ \A k \in DOMAIN x[b] : k \in DOMAIN z[b] /\ z[b][k] = x[b][k]
             /\ \A k \in DOMAIN y[b] : /\ Behind(x[b], k) \in DOMAIN z[b]
                                       /\ z[b][Behind(x[b], k)] = Moved(y[b], n)[k]
             /\ \A k \in DOMAIN z[b] :
                  \/ k \in DOMAIN x[b] /\ z[b][k] = x[b][k]
                  \/ \E i \in DOMAIN y[b] : /\ k = Behind(x[b], i)
                                            /\ z[b][k] = Moved(y[b], n)[i]
  <2>1. x[b] \in Seq(Int) /\ y[b] \in Seq(Int)
    BY DEF Family
  <2>2. z[b] = x[b] \o Moved(y[b], n)
    OBVIOUS
  <2>3. n \in Int
    OBVIOUS
  <2> HIDE DEF z
  <2>4. Appended(x[b], y[b], n, z[b])
    BY <2>1, <2>2, <2>3, AppendedEntries
  <2> QED BY <2>4 DEF Appended
<1>0. ASSUME NEW b \in Levels, NEW k \in DOMAIN y[b]
      PROVE  y[b][k] \in 0 .. (m - 1) /\ Moved(y[b], n)[k] = y[b][k] + n
  <2>1. y[b] \in Seq(Int)
    BY DEF Family
  <2> QED BY <2>1, MovedFacts DEF Placed
<1> HIDE DEF z
<1>2. Family(z)
  BY <1>1 DEF Family
<1>3. /\ \A b \in Levels : \A k \in DOMAIN x[b] : x[b][k] \in 0 .. (n - 1)
      /\ \A b \in Levels : \A k \in DOMAIN y[b] : y[b][k] \in 0 .. (m - 1)
  BY DEF Placed
<1>4. /\ \A c \in 0 .. (n - 1) : \E b \in Levels : \E k \in DOMAIN x[b] : x[b][k] = c
      /\ \A c \in 0 .. (m - 1) : \E b \in Levels : \E k \in DOMAIN y[b] : y[b][k] = c
  BY DEF Placed
<1>5. /\ \A b, d \in Levels : \A j \in DOMAIN x[b] : \A k \in DOMAIN x[d] :
           x[b][j] = x[d][k] => b = d /\ j = k
      /\ \A b, d \in Levels : \A j \in DOMAIN y[b] : \A k \in DOMAIN y[d] :
           y[b][j] = y[d][k] => b = d /\ j = k
  BY DEF Placed
<1>6. ASSUME NEW b \in Levels, NEW k \in DOMAIN z[b]
      PROVE  z[b][k] \in 0 .. (n + m - 1)
  <2>1. CASE k \in DOMAIN x[b] /\ z[b][k] = x[b][k]
    <3>1. x[b][k] \in 0 .. (n - 1)
      BY <1>3, <2>1
    <3>2. \A c \in 0 .. (n - 1) : c \in 0 .. (n + m - 1)
      OBVIOUS
    <3> QED BY <2>1, <3>1, <3>2
  <2>2. CASE \E i \in DOMAIN y[b] : k = Behind(x[b], i) /\ z[b][k] = Moved(y[b], n)[i]
    <3>1. PICK i \in DOMAIN y[b] : z[b][k] = Moved(y[b], n)[i]
      BY <2>2
    <3>2. y[b][i] \in 0 .. (m - 1) /\ z[b][k] = y[b][i] + n
      BY <1>0, <3>1
    <3>3. \A c \in 0 .. (m - 1) : c + n \in 0 .. (n + m - 1)
      OBVIOUS
    <3> QED BY <3>2, <3>3
  <2> QED BY <1>1, <2>1, <2>2
<1>7. ASSUME NEW c \in 0 .. (n + m - 1)
      PROVE  \E b \in Levels : \E k \in DOMAIN z[b] : z[b][k] = c
  <2>1. CASE c < n
    <3>1. c \in 0 .. (n - 1)
      BY <2>1
    <3>2. PICK b \in Levels : \E k \in DOMAIN x[b] : x[b][k] = c
      BY <1>4, <3>1
    <3> QED BY <1>1, <3>2
  <2>2. CASE c >= n
    <3>1. c - n \in 0 .. (m - 1) /\ (c - n) + n = c
      BY <2>2
    <3>2. PICK b \in Levels : \E k \in DOMAIN y[b] : y[b][k] = c - n
      BY <1>4, <3>1
    <3>3. PICK k \in DOMAIN y[b] : y[b][k] = c - n
      BY <3>2
    <3>4. Behind(x[b], k) \in DOMAIN z[b] /\ z[b][Behind(x[b], k)] = y[b][k] + n
      BY <1>0, <1>1
    <3>5. z[b][Behind(x[b], k)] = c
      BY <3>1, <3>3, <3>4
    <3> QED BY <3>4, <3>5
  <2> QED BY <2>1, <2>2
<1>8. ASSUME NEW b \in Levels, NEW d \in Levels,
             NEW j \in DOMAIN z[b], NEW k \in DOMAIN z[d], z[b][j] = z[d][k]
      PROVE  b = d /\ j = k
  <2> DEFINE First(e, l) == l \in DOMAIN x[e] /\ z[e][l] = x[e][l]
             Second(e, l) == \E i \in DOMAIN y[e] :
                               l = Behind(x[e], i) /\ z[e][l] = Moved(y[e], n)[i]
  <2>1. (First(b, j) \/ Second(b, j)) /\ (First(d, k) \/ Second(d, k))
    BY <1>1
  <2>2. \A c \in 0 .. (n - 1) : \A e \in 0 .. (m - 1) : c # e + n
    OBVIOUS
  <2>3. ASSUME NEW e \in Levels, NEW l, First(e, l)
        PROVE  z[e][l] \in 0 .. (n - 1)
    BY <1>3, <2>3
  <2>4. ASSUME NEW e \in Levels, NEW l, Second(e, l)
        PROVE  \E c \in 0 .. (m - 1) : z[e][l] = c + n
    <3>1. PICK i \in DOMAIN y[e] : z[e][l] = Moved(y[e], n)[i]
      BY <2>4
    <3> QED BY <1>0, <3>1
  <2>5. CASE First(b, j) /\ First(d, k)
    <3>1. j \in DOMAIN x[b] /\ k \in DOMAIN x[d]
      BY <2>5
    <3>2. x[b][j] = x[d][k]
      BY <1>8, <2>5
    <3> QED BY <1>5, <3>1, <3>2
  <2>6. CASE Second(b, j) /\ Second(d, k)
    <3>1. PICK i \in DOMAIN y[b] : /\ j = Behind(x[b], i)
                                   /\ z[b][j] = Moved(y[b], n)[i]
      BY <2>6
    <3>2. PICK l \in DOMAIN y[d] : /\ k = Behind(x[d], l)
                                   /\ z[d][k] = Moved(y[d], n)[l]
      BY <2>6
    <3>3. y[b][i] \in Int /\ y[d][l] \in Int
      BY <1>0
    <3>4. y[b][i] + n = y[d][l] + n
      BY <1>0, <1>8, <3>1, <3>2
    <3>5. y[b][i] = y[d][l]
      BY <3>3, <3>4, Cancel
    <3>6. b = d /\ i = l
      BY <1>5, <3>5
    <3> QED BY <3>1, <3>2, <3>6
  <2>7. ~(First(b, j) /\ Second(d, k)) /\ ~(Second(b, j) /\ First(d, k))
    <3> HIDE DEF First, Second
    <3> QED BY <1>8, <2>2, <2>3, <2>4
  <2> QED BY <2>1, <2>5, <2>6, <2>7
<1>9. Placed(z, n + m)
  BY <1>6, <1>7, <1>8 DEF Placed
<1> QED BY <1>2, <1>9 DEF z

(***************************************************************************)
(* Layers, the parts of them that ranks own, and their checkpoints: the    *)
(* operators of VllmShards for a given case.                               *)
(***************************************************************************)
Split(c) == c.localInput # c.input
Count(c) == Len(c.outputs)
Size(c, s) == c.outputs[s + 1]
Total(c, s) == IF Split(c) THEN Size(c, s) ELSE Size(c, s) * c.ranks
Start(c, r, s) == IF Split(c) THEN 0 ELSE r * Size(c, s)
Firsts(c) ==
  LET first[t \in 0 .. Len(c.outputs)] ==
        IF t = 0 THEN 0 ELSE first[t - 1] + c.outputs[(t - 1) + 1]
  IN first
First(c, s) == Firsts(c)[s]
\* The channels of shard s have these entries in the layer's index tensors.
InShard(c, s, v) == First(c, s) <= v /\ v < First(c, s) + Size(c, s)

At(p, s) == <<p, s>>
Key(c, k) == At(c.stored[k].param, ShardOf(c.stored[k].id))
Held(c, p, s) ==
  {k \in DOMAIN c.stored : c.stored[k].param = p /\ ShardOf(c.stored[k].id) = s}
Value(c, p, s) == c.stored[CHOOSE k \in Held(c, p, s) : TRUE].tensor
IndexTensors(c, s) == [b \in Levels |-> Value(c, Indices(b), s)]
Sound(c, s) ==
  /\ \A p \in Parameters : Cardinality(Held(c, p, s)) = 1
  /\ Covers(IndexTensors(c, s), Total(c, s))
  /\ \A b \in Levels : \A p \in Rows(b) :
       Len(Value(c, p, s)) = Len(Value(c, Indices(b), s))
\* No module of the layer is absent from the checkpoint.
Whole(c) == \A m \in 0 .. (Count(c) - 1) :
              \E k \in DOMAIN c.stored : ShardOf(c.stored[k].id) = m

\* The parameters of the three precisions are told apart.
LEMMA ParameterFacts ==
  /\ \A b \in Levels : Indices(b) \in Parameters /\ LevelOf(Indices(b)) = b
  /\ \A b \in Levels : \A p \in Rows(b) :
       p \in Parameters /\ LevelOf(p) = b /\ \A d \in Levels : p # Indices(d)
  /\ \A p \in Parameters : /\ LevelOf(p) \in Levels
                           /\ p = Indices(LevelOf(p)) \/ p \in Rows(LevelOf(p))
<1>1. /\ Indices(4) = "indices_4" /\ Indices(8) = "indices_8"
      /\ Indices(16) = "indices_16"
  BY DEF Indices
<1>2. /\ Rows(4) = {"weight_int4", "scale_int4", "zero_int4"}
      /\ Rows(8) = {"weight_int8", "scale_int8"}
      /\ Rows(16) = {"weight_fp16"}
  BY DEF Rows
<1>3. Levels = {4, 8, 16}
  BY DEF Levels
<1>4. \A p : p \in Parameters <=> \E b \in Levels : p \in Rows(b) \cup {Indices(b)}
  BY DEF Parameters
<1>5. ASSUME NEW b \in Levels, NEW p \in Rows(b) \cup {Indices(b)} PROVE LevelOf(p) = b
  <2>1. \A d \in Levels : p \in Rows(d) \cup {Indices(d)} => d = b
    BY <1>1, <1>2, <1>3
  <2> QED BY <2>1 DEF LevelOf
<1>6. ASSUME NEW b \in Levels, NEW p \in Rows(b), NEW d \in Levels PROVE p # Indices(d)
  BY <1>1, <1>2, <1>3
<1>7. ASSUME NEW p \in Parameters
      PROVE  LevelOf(p) \in Levels /\ (p = Indices(LevelOf(p)) \/ p \in Rows(LevelOf(p)))
  <2>1. PICK b \in Levels : p \in Rows(b) \cup {Indices(b)}
    BY <1>4
  <2>2. LevelOf(p) = b
    BY <1>5, <2>1
  <2> QED BY <2>1, <2>2
<1> QED BY <1>4, <1>5, <1>6, <1>7

\* The sizes of a layer.
LEMMA CaseFacts ==
  ASSUME NEW c \in Cases
  PROVE  /\ c.ranks \in Nat /\ c.ranks > 0
         /\ c.input \in Nat /\ c.input > 0
         /\ c.localInput \in Nat /\ c.localInput > 0
         /\ c.localInput = c.input \/ c.input = c.ranks * c.localInput
         /\ Count(c) \in Nat
         /\ c.outputs \in [1 .. Count(c) -> Nat \ {0}]
         /\ \A s \in 0 .. (Count(c) - 1) :
              /\ Size(c, s) \in Nat /\ Size(c, s) > 0
              /\ c.modules[s + 1] \in Names /\ ShardOf(c.modules[s + 1]) = s
              /\ c.replicas[s + 1] \in Nat /\ c.replicas[s + 1] > 0
              /\ Split(c) => c.replicas[s + 1] = 1
<1> USE DEF Count, Size, Split
<1>1. /\ {c.ranks, c.input, c.localInput} \subseteq Nat \ {0}
      /\ c.localInput = c.input \/ c.input = c.ranks * c.localInput
      /\ c.outputs \in Seq(Nat \ {0})
      /\ c.modules \in Seq(Names) /\ Len(c.modules) = Len(c.outputs)
      /\ \A s \in DOMAIN c.modules : ShardOf(c.modules[s]) = s - 1
      /\ c.replicas \in Seq(Nat \ {0}) /\ Len(c.replicas) = Len(c.outputs)
      /\ c.localInput # c.input => \A s \in DOMAIN c.replicas : c.replicas[s] = 1
  BY CasesAssumption
<1>2. /\ c.ranks \in Nat \ {0} /\ c.input \in Nat \ {0} /\ c.localInput \in Nat \ {0}
  BY <1>1
<1>3. c.outputs \in [1 .. Len(c.outputs) -> Nat \ {0}] /\ Len(c.outputs) \in Nat
  BY <1>1
<1>4. c.modules \in [1 .. Len(c.outputs) -> Names]
  BY <1>1
<1>5. c.replicas \in [1 .. Len(c.outputs) -> Nat \ {0}]
  BY <1>1
<1>6. ASSUME NEW s \in 0 .. (Len(c.outputs) - 1)
      PROVE  /\ Size(c, s) \in Nat /\ Size(c, s) > 0
             /\ c.modules[s + 1] \in Names /\ ShardOf(c.modules[s + 1]) = s
             /\ c.replicas[s + 1] \in Nat /\ c.replicas[s + 1] > 0
             /\ Split(c) => c.replicas[s + 1] = 1
  <2>1. s + 1 \in 1 .. Len(c.outputs)
    BY <1>3
  <2>2. c.outputs[s + 1] \in Nat \ {0} /\ c.modules[s + 1] \in Names
    BY <1>3, <1>4, <2>1
  <2>3. c.replicas[s + 1] \in Nat \ {0}
    BY <1>5, <2>1
  <2>4. ShardOf(c.modules[s + 1]) = (s + 1) - 1
    BY <1>1, <1>4, <2>1
  <2>5. (s + 1) - 1 = s
    BY <1>3
  <2>6. Split(c) => c.replicas[s + 1] = 1
    BY <1>1, <1>5, <2>1
  <2> QED BY <2>2, <2>3, <2>4, <2>5, <2>6
<1> QED BY <1>1, <1>2, <1>3, <1>6

\* Shards lie one behind another in the layer, and each of its channels in one.
LEMMA FirstFacts ==
  ASSUME NEW c \in Cases
  PROVE  /\ First(c, 0) = 0
         /\ \A s \in 0 .. Count(c) : First(c, s) \in Nat
         /\ \A s \in 0 .. (Count(c) - 1) : First(c, s + 1) = First(c, s) + Size(c, s)
         /\ \A s, t \in 0 .. Count(c) : s < t => First(c, s) + Size(c, s) <= First(c, t)
         /\ \A t \in 0 .. Count(c) : \A v \in Nat : v < First(c, t) =>
              \E s \in 0 .. (t - 1) : InShard(c, s, v)
<1> DEFINE n == Count(c)
           g == Firsts(c)
<1>1. n \in Nat /\ c.outputs \in [1 .. n -> Nat \ {0}]
  BY CaseFacts
<1>2. PICK h : Begins(h, n, c.outputs)
  BY <1>1, BeginsExist
<1> DEFINE F(f) == [t \in 0 .. n |-> IF t = 0 THEN 0 ELSE f[t - 1] + c.outputs[(t - 1) + 1]]
           G(f) == [t \in 0 .. n |-> IF t = 0 THEN 0 ELSE f[t - 1] + c.outputs[t]]
<1>3. \A f : F(f) = G(f)
  <2>1. \A t \in 0 .. n : (t - 1) + 1 = t
    BY <1>1
  <2> QED BY <2>1
<1>4. h = F(h)
  BY <1>2, <1>3 DEF Begins
<1>5. g = F(g)
  BY <1>4 DEF Firsts, Count
<1> HIDE DEF g
<1>6. Begins(g, n, c.outputs)
  BY <1>3, <1>5 DEF Begins
<1> HIDE DEF n, F, G
<1>7. /\ g \in [0 .. n -> Nat]
      /\ g[0] = 0
      /\ \A t \in 1 .. n : g[t] = g[t - 1] + c.outputs[t]
      /\ \A s, t \in 0 .. n : s < t => g[s] + c.outputs[s + 1] <= g[t]
      /\ \A t \in 0 .. n : \A v \in Nat : v < g[t] =>
           \E s \in 1 .. t : g[s - 1] <= v /\ v < g[s - 1] + c.outputs[s]
  BY <1>1, <1>6, BeginsFacts
<1>8. \A s : First(c, s) = g[s] /\ Size(c, s) = c.outputs[s + 1]
  BY DEF First, Size, g
<1>9. ASSUME NEW s \in 0 .. (n - 1) PROVE First(c, s + 1) = First(c, s) + Size(c, s)
  <2>1. s + 1 \in 1 .. n /\ (s + 1) - 1 = s
    BY <1>1
  <2>2. g[s + 1] = g[(s + 1) - 1] + c.outputs[s + 1]
    BY <1>7, <2>1
  <2> QED BY <1>8, <2>1, <2>2
<1>10. ASSUME NEW t \in 0 .. n, NEW v \in Nat, v < First(c, t)
       PROVE  \E s \in 0 .. (t - 1) : InShard(c, s, v)
  <2>1. PICK s \in 1 .. t : g[s - 1] <= v /\ v < g[s - 1] + c.outputs[s]
    BY <1>7, <1>8, <1>10
  <2>2. s - 1 \in 0 .. (t - 1) /\ (s - 1) + 1 = s
    BY <1>1
  <2>3. InShard(c, s - 1, v)
    BY <1>8, <2>1, <2>2 DEF InShard
  <2> QED BY <2>2, <2>3
<1>11. /\ First(c, 0) = 0
       /\ \A s \in 0 .. n : First(c, s) \in Nat
       /\ \A s, t \in 0 .. n : s < t => First(c, s) + Size(c, s) <= First(c, t)
  BY <1>7, <1>8
<1> QED BY <1>9, <1>10, <1>11 DEF n

\* A channel of the layer lies in one shard only.
LEMMA OneShard ==
  ASSUME NEW c \in Cases, NEW s \in 0 .. (Count(c) - 1), NEW t \in 0 .. (Count(c) - 1),
         NEW v \in Int, InShard(c, s, v), InShard(c, t, v)
  PROVE  s = t
<1>1. Count(c) \in Nat /\ s \in 0 .. Count(c) /\ t \in 0 .. Count(c)
  BY CaseFacts
<1>2. /\ First(c, s) \in Nat /\ First(c, t) \in Nat
      /\ Size(c, s) \in Nat /\ Size(c, t) \in Nat
  BY <1>1, CaseFacts, FirstFacts
<1>3. /\ s < t => First(c, s) + Size(c, s) <= First(c, t)
      /\ t < s => First(c, t) + Size(c, t) <= First(c, s)
  BY <1>1, FirstFacts
<1>4. ~(s < t) /\ ~(t < s)
  BY <1>2, <1>3 DEF InShard
<1> QED BY <1>1, <1>4

(***************************************************************************)
(* What a rank cuts out of a shard.                                        *)
(***************************************************************************)
Index(c, r, s, b) == Within(Value(c, Indices(b), s), Start(c, r, s), Size(c, s))
\* The places of the channels the rank keeps, and the channels counted from the
\* first the rank owns.
Chosen(c, r, s, b) == Places(Value(c, Indices(b), s), Start(c, r, s), Size(c, s))
Local(c, r, s) ==
  [b \in Levels |-> Moved(Index(c, r, s, b), -Start(c, r, s))]
Part(c, r, s, b) == Moved(Local(c, r, s)[b], First(c, s))

Slice == [of : Names, channel : Nat, first : Int, width : Int]
Cut(c, r, p, row) ==
  [of |-> row.of, channel |-> row.channel,
   first |-> IF Split(c) THEN (r * c.localInput) \div ColumnsPerUnit(p) ELSE 0,
   width |-> c.localInput \div ColumnsPerUnit(p)]
Slices(c, r, s, b, p) ==
  LET rows == Masked(Value(c, p, s), Chosen(c, r, s, b))
  IN [k \in DOMAIN rows |-> Cut(c, r, p, rows[k])]
InputColumns(c, r) ==
  IF Split(c) THEN (r * c.localInput) .. ((r + 1) * c.localInput - 1)
  ELSE 0 .. (c.input - 1)

\* A unit of a row holds whole columns, and a rank's columns are whole units.
LEMMA UnitFacts ==
  ASSUME NEW n \in Nat, n % GroupSize = 0, NEW b \in Levels, NEW p \in Rows(b)
  PROVE  /\ ColumnsPerUnit(p) \in Nat \ {0}
         /\ \E q \in Nat : n = ColumnsPerUnit(p) * q
<1> DEFINE u == ColumnsPerUnit(p)
<1>1. GroupSize \in Nat \ {0} /\ Multiple(GroupSize, 2)
  BY GroupAssumption, MultipleRemainder
<1>2. Multiple(n, GroupSize)
  BY <1>1, MultipleRemainder
<1>3. u = 1 \/ u = 2 \/ u = GroupSize
  BY DEF ColumnsPerUnit, Rows, Levels
<1> HIDE DEF u
<1>4. u \in Nat \ {0}
  BY <1>1, <1>3
<1>5. Multiple(n, u)
  <2>1. CASE u = 1
    <3>1. n = 1 * n
      OBVIOUS
    <3> QED BY <2>1, <3>1 DEF Multiple
  <2>2. CASE u = 2
    BY <1>1, <1>2, <2>2, MultipleOfMultiple
  <2>3. CASE u = GroupSize
    BY <1>2, <2>3
  <2> QED BY <1>3, <2>1, <2>2, <2>3
<1>6. PICK q \in Int : n = u * q
  BY <1>5 DEF Multiple
<1>7. q \in Nat
  <2>1. CASE q < 0
    <3>1. u * q < 0
      BY <1>4, <2>1
    <3> QED BY <1>6, <3>1
  <2> QED BY <2>1
<1> QED BY <1>4, <1>6, <1>7 DEF u

\* A cut row covers exactly the input columns that the rank multiplies.
LEMMA CutCovers ==
  ASSUME NEW c \in Cases, c.localInput % GroupSize = 0, NEW r \in Nat,
         NEW b \in Levels, NEW p \in Rows(b), NEW row
  PROVE  /\ Covered(p, Cut(c, r, p, row)) = InputColumns(c, r)
         /\ Cut(c, r, p, row).first \in Int /\ Cut(c, r, p, row).width \in Int
<1> DEFINE u == ColumnsPerUnit(p)
           n == c.localInput
           f == IF Split(c) THEN (r * n) \div u ELSE 0
           w == n \div u
<1>1. /\ n \in Nat /\ c.input \in Nat /\ (~Split(c) => c.input = n)
  BY CaseFacts DEF Split
<1>2. /\ Cut(c, r, p, row).first = f /\ Cut(c, r, p, row).width = w
  BY DEF Cut
<1>3. Covered(p, Cut(c, r, p, row)) = (f * u) .. ((f + w) * u - 1)
  BY <1>2 DEF Covered
<1>4. u \in Nat \ {0} /\ \E q \in Nat : n = u * q
  BY <1>1, UnitFacts
<1> HIDE DEF u, n
<1>5. PICK q \in Nat : n = u * q
  BY <1>4
<1>6. w = q
  BY <1>4, <1>5, ExactQuotient
<1>7. r * q \in Nat /\ r * n = u * (r * q)
  BY <1>4, <1>5
<1>8. (r * n) \div u = r * q
  BY <1>4, <1>7, ExactQuotient
<1> HIDE DEF w, f
<1>9. CASE Split(c)
  <2>1. f = r * q
    BY <1>8, <1>9 DEF f
  <2>2. f * u = r * n
    BY <1>4, <1>7, <2>1
  <2>3. (f + w) * u = (r + 1) * n
    <3>1. (f + w) * u = f * u + w * u
      BY <1>4, <1>6, <1>7, <2>1
    <3>2. (r + 1) * n = r * n + n
      BY <1>1
    <3>3. w * u = n
      BY <1>4, <1>5, <1>6
    <3> QED BY <2>2, <3>1, <3>2, <3>3
  <2> QED BY <1>2, <1>3, <1>6, <1>7, <1>9, <2>1, <2>2, <2>3 DEF InputColumns, n
<1>10. CASE ~Split(c)
  <2>1. f = 0
    BY <1>10 DEF f
  <2>2. f * u = 0 /\ (f + w) * u = n
    BY <1>4, <1>5, <1>6, <2>1
  <2> QED BY <1>1, <1>2, <1>3, <1>6, <1>10, <2>1, <2>2 DEF InputColumns, n
<1> QED BY <1>9, <1>10

\* The one tensor of a parameter.
LEMMA OnlyTensor ==
  ASSUME NEW c, NEW p, NEW s, NEW k, Held(c, p, s) = {k}
  PROVE  /\ k \in DOMAIN c.stored /\ c.stored[k].param = p
         /\ ShardOf(c.stored[k].id) = s /\ Value(c, p, s) = c.stored[k].tensor
         /\ k \in Held(c, p, s)
<1>1. k \in Held(c, p, s)
  OBVIOUS
<1>2. (CHOOSE j \in Held(c, p, s) : TRUE) = k
  OBVIOUS
<1> QED BY <1>1, <1>2 DEF Held, Value

\* What a tensor of the checkpoint is.
LEMMA TensorFacts ==
  ASSUME NEW c \in Cases, NEW k \in DOMAIN c.stored,
         NEW s \in Int, ShardOf(c.stored[k].id) = s
  PROVE  /\ s \in 0 .. (Count(c) - 1) /\ c.stored[k].param \in Parameters
         /\ c.stored[k].id \in Names
         /\ Whole(c) => c.stored[k].id = c.modules[s + 1]
         /\ \A b \in Levels :
              /\ c.stored[k].param = Indices(b) =>
                   /\ c.stored[k].tensor \in Seq(Int)
                   /\ c.replicas[s + 1] # 1 =>
                        \A i \in DOMAIN c.stored[k].tensor :
                          c.stored[k].tensor[i]
                            < Size(c, s) * (c.ranks \div c.replicas[s + 1])
              /\ c.stored[k].param \in Rows(b) =>
                   /\ c.stored[k].tensor \in Seq(Row)
                   /\ \A j \in Held(c, Indices(b), s) :
                        \A i \in DOMAIN c.stored[k].tensor \cap DOMAIN c.stored[j].tensor :
                          c.stored[k].tensor[i] =
                            [of |-> c.stored[k].id, channel |-> c.stored[j].tensor[i]]
<1> DEFINE t == c.stored[k]
           z == ShardOf(t.id) + 1
<1>1. t.param \in Parameters /\ t.id \in Names /\ z \in DOMAIN c.outputs
  BY CheckpointsAssumption
<1>2. \/ t.id = c.modules[z]
      \/ \E m \in DOMAIN c.modules : \A j \in DOMAIN c.stored :
           ShardOf(c.stored[j].id) # m - 1
  BY CheckpointsAssumption
<1>3. \A b \in Levels : t.param = Indices(b) =>
        /\ t.tensor \in Seq(Int)
        /\ c.replicas[z] # 1 =>
             \A i \in DOMAIN t.tensor :
               t.tensor[i] < c.outputs[z] * (c.ranks \div c.replicas[z])
  BY CheckpointsAssumption
<1>4. \A b \in Levels : t.param \in Rows(b) =>
        /\ t.tensor \in Seq(Row)
        /\ \A j \in DOMAIN c.stored :
             /\ c.stored[j].param = Indices(b)
             /\ ShardOf(c.stored[j].id) = z - 1
             => \A i \in DOMAIN t.tensor \cap DOMAIN c.stored[j].tensor :
                  t.tensor[i] = [of |-> t.id, channel |-> c.stored[j].tensor[i]]
  BY CheckpointsAssumption
<1>5. DOMAIN c.outputs = 1 .. Count(c) /\ Count(c) \in Nat
  BY CaseFacts
<1>6. z = s + 1 /\ s \in 0 .. 2
  BY <1>1 DEF ShardOf, Names
<1>7. z - 1 = s
  BY <1>6
<1>8. s \in 0 .. (Count(c) - 1)
  BY <1>1, <1>5, <1>6
<1>9. DOMAIN c.modules = 1 .. Count(c)
  <2>1. c.modules \in Seq(Names) /\ Len(c.modules) = Count(c)
    BY CasesAssumption DEF Count
  <2> QED BY <2>1
<1> HIDE DEF z
<1>10. ASSUME Whole(c) PROVE t.id = c.modules[s + 1]
  <2>1. ASSUME NEW m \in DOMAIN c.modules
        PROVE  \E j \in DOMAIN c.stored : ShardOf(c.stored[j].id) = m - 1
    <3>1. m - 1 \in 0 .. (Count(c) - 1)
      BY <1>5, <1>9
    <3> QED BY <1>10, <3>1 DEF Whole
  <2> QED BY <1>2, <1>6, <2>1
<1>11. \A b \in Levels : t.param = Indices(b) =>
        /\ t.tensor \in Seq(Int)
        /\ c.replicas[s + 1] # 1 =>
             \A i \in DOMAIN t.tensor :
               t.tensor[i] < Size(c, s) * (c.ranks \div c.replicas[s + 1])
  BY <1>3, <1>6 DEF Size
<1>12. \A b \in Levels : t.param \in Rows(b) =>
        /\ t.tensor \in Seq(Row)
        /\ \A j \in Held(c, Indices(b), s) :
             \A i \in DOMAIN t.tensor \cap DOMAIN c.stored[j].tensor :
                  t.tensor[i] = [of |-> t.id, channel |-> c.stored[j].tensor[i]]
  BY <1>4, <1>7 DEF Held
<1> HIDE DEF t
<1> QED BY <1>1, <1>8, <1>10, <1>11, <1>12 DEF t

\* What the tensors of a shard without complaints are.
LEMMA SoundFacts ==
  ASSUME NEW c \in Cases, NEW s \in 0 .. (Count(c) - 1), Sound(c, s)
  PROVE  /\ \A p \in Parameters : \E k : Held(c, p, s) = {k}
         /\ Family(IndexTensors(c, s)) /\ Placed(IndexTensors(c, s), Total(c, s))
         /\ Total(c, s) \in Nat
         /\ \A b \in Levels :
              /\ Value(c, Indices(b), s) \in Seq(Int)
              /\ \A p \in Rows(b) :
                   /\ Value(c, p, s) \in Seq(Row)
                   /\ DOMAIN Value(c, p, s) = DOMAIN Value(c, Indices(b), s)
                   /\ \A i \in DOMAIN Value(c, p, s) :
                        /\ Value(c, p, s)[i].channel = Value(c, Indices(b), s)[i]
                        /\ Whole(c) => Value(c, p, s)[i].of = c.modules[s + 1]
<1>1. ASSUME NEW p \in Parameters PROVE \E k : Held(c, p, s) = {k}
  <2>1. Cardinality(Held(c, p, s)) = 1
    BY DEF Sound
  <2>2. DOMAIN c.stored = 1 .. Len(c.stored) /\ Len(c.stored) \in Nat
    BY CheckpointsAssumption
  <2>3. IsFiniteSet(DOMAIN c.stored)
    BY <2>2, FS_Interval
  <2>4. Held(c, p, s) \subseteq DOMAIN c.stored
    BY DEF Held
  <2>5. IsFiniteSet(Held(c, p, s))
    BY <2>3, <2>4, FS_Subset
  <2> QED BY <2>1, <2>5, FS_Singleton
<1>2. ASSUME NEW b \in Levels PROVE Value(c, Indices(b), s) \in Seq(Int)
  <2>1. Indices(b) \in Parameters
    BY ParameterFacts
  <2>2. PICK k : Held(c, Indices(b), s) = {k}
    BY <1>1, <2>1
  <2>3. /\ k \in DOMAIN c.stored /\ c.stored[k].param = Indices(b)
        /\ ShardOf(c.stored[k].id) = s /\ Value(c, Indices(b), s) = c.stored[k].tensor
    <3> DEFINE q == Indices(b)
    <3>1. Held(c, q, s) = {k}
      BY <2>2
    <3> HIDE DEF q
    <3>2. /\ k \in DOMAIN c.stored /\ c.stored[k].param = q
          /\ ShardOf(c.stored[k].id) = s /\ Value(c, q, s) = c.stored[k].tensor
      BY <3>1, OnlyTensor
    <3> QED BY <3>2 DEF q
  <2>4. c.stored[k].tensor \in Seq(Int)
    BY <2>3, TensorFacts
  <2> QED BY <2>3, <2>4
<1>3. ASSUME NEW b \in Levels, NEW p \in Rows(b)
      PROVE  /\ Value(c, p, s) \in Seq(Row)
             /\ DOMAIN Value(c, p, s) = DOMAIN Value(c, Indices(b), s)
             /\ \A i \in DOMAIN Value(c, p, s) :
                  /\ Value(c, p, s)[i].channel = Value(c, Indices(b), s)[i]
                  /\ Whole(c) => Value(c, p, s)[i].of = c.modules[s + 1]
  <2>1. Indices(b) \in Parameters /\ p \in Parameters
    BY ParameterFacts
  <2>2. PICK j : Held(c, Indices(b), s) = {j}
    BY <1>1, <2>1
  <2>3. PICK k : Held(c, p, s) = {k}
    BY <1>1, <2>1
  <2>4. Value(c, Indices(b), s) = c.stored[j].tensor /\ j \in Held(c, Indices(b), s)
    BY <2>2, OnlyTensor
  <2>5. /\ k \in DOMAIN c.stored /\ c.stored[k].param = p
        /\ ShardOf(c.stored[k].id) = s /\ Value(c, p, s) = c.stored[k].tensor
    BY <2>3, OnlyTensor
  <2>0. s \in Int
    OBVIOUS
  <2> DEFINE R(i) == [of |-> c.stored[k].id, channel |-> c.stored[j].tensor[i]]
  <2>6. /\ c.stored[k].tensor \in Seq(Row)
        /\ Whole(c) => c.stored[k].id = c.modules[s + 1]
        /\ \A i \in DOMAIN c.stored[k].tensor \cap DOMAIN c.stored[j].tensor :
             c.stored[k].tensor[i] = R(i)
    <3>1. c.stored[k].tensor \in Seq(Row)
      BY <2>0, <2>5, TensorFacts
    <3>2. Whole(c) => c.stored[k].id = c.modules[s + 1]
      BY <2>0, <2>5, TensorFacts
    <3>3. \A i \in DOMAIN c.stored[k].tensor \cap DOMAIN c.stored[j].tensor :
             c.stored[k].tensor[i] = R(i)
      BY <2>0, <2>4, <2>5, TensorFacts
    <3> QED BY <3>1, <3>2, <3>3
  <2> DEFINE v == Value(c, p, s)
             w == Value(c, Indices(b), s)
  <2>7. Len(v) = Len(w)
    BY DEF Sound
  <2>8. w \in Seq(Int) /\ v \in Seq(Row)
    BY <1>2, <2>5, <2>6
  <2>9. /\ Whole(c) => c.stored[k].id = c.modules[s + 1]
        /\ \A i \in DOMAIN v \cap DOMAIN w :
             v[i] = [of |-> c.stored[k].id, channel |-> w[i]]
    BY <2>4, <2>5, <2>6
  <2> HIDE DEF v, w
  <2>10. DOMAIN v = 1 .. Len(v) /\ DOMAIN w = 1 .. Len(w)
    BY <2>8
  <2>11. DOMAIN v = DOMAIN w
    BY <2>7, <2>10
  <2>12. \A i \in DOMAIN v : v[i] = [of |-> c.stored[k].id, channel |-> w[i]]
    BY <2>9, <2>11
  <2>13. \A i \in DOMAIN v : /\ v[i].channel = w[i]
                             /\ Whole(c) => v[i].of = c.modules[s + 1]
    BY <2>9, <2>12
  <2> QED BY <2>8, <2>11, <2>13 DEF v, w
<1>4. Family(IndexTensors(c, s))
  BY <1>2 DEF Family, IndexTensors
<1>5. Total(c, s) \in Nat
  <2>1. Size(c, s) \in Nat /\ c.ranks \in Nat
    BY CaseFacts
  <2> QED BY <2>1, Product DEF Total
<1>6. Placed(IndexTensors(c, s), Total(c, s))
  <2>1. Covers(IndexTensors(c, s), Total(c, s))
    BY DEF Sound
  <2> QED BY <1>4, <1>5, <2>1, CoversPlaced
<1> QED BY <1>1, <1>2, <1>3, <1>4, <1>5, <1>6

\* The range of a rank lies within the shard.
LEMMA RangeFits ==
  ASSUME NEW c \in Cases, NEW s \in 0 .. (Count(c) - 1), NEW r \in 0 .. (c.ranks - 1)
  PROVE  /\ Start(c, r, s) \in Nat /\ Size(c, s) \in Nat /\ Size(c, s) > 0
         /\ Total(c, s) \in Nat /\ Start(c, r, s) + Size(c, s) <= Total(c, s)
<1> DEFINE z == Size(c, s)
           n == c.ranks
           d == n - (r + 1)
<1>1. z \in Nat /\ z > 0 /\ n \in Nat
  BY CaseFacts
<1> HIDE DEF z, n
<1>2. r \in Nat /\ d \in Nat /\ n = r + 1 + d
  BY <1>1 DEF n
<1> HIDE DEF d
<1>3. r * z \in Nat /\ d * z \in Nat
  BY <1>1, <1>2
<1>4. z * n = r * z + z + d * z
  BY <1>1, <1>2
<1>5. r * z + z <= z * n /\ z * n \in Nat
  BY <1>1, <1>3, <1>4
<1>6. CASE Split(c)
  BY <1>1, <1>6 DEF Start, Total, z
<1>7. CASE ~Split(c)
  BY <1>1, <1>3, <1>5, <1>7 DEF Start, Total, z, n
<1> QED BY <1>6, <1>7

\* What a rank keeps of a shard partitions the channels of its range.
LEMMA LocalFacts ==
  ASSUME NEW c \in Cases, NEW s \in 0 .. (Count(c) - 1), NEW r \in 0 .. (c.ranks - 1),
         Sound(c, s)
  PROVE  /\ Family(Local(c, r, s)) /\ Placed(Local(c, r, s), Size(c, s))
         /\ \A b \in Levels :
              /\ Index(c, r, s, b) \in Seq(Int)
              /\ DOMAIN Local(c, r, s)[b] = DOMAIN Index(c, r, s, b)
              /\ \A k \in DOMAIN Local(c, r, s)[b] :
                   Index(c, r, s, b)[k] = Start(c, r, s) + Local(c, r, s)[b][k]
<1> DEFINE x == IndexTensors(c, s)
           a == Start(c, r, s)
           z == Size(c, s)
           n == Total(c, s)
           y == [b \in Levels |-> Moved(Within(x[b], a, z), -a)]
<1>1. Family(x) /\ Placed(x, n)
  BY SoundFacts
<1>2. a \in Nat /\ z \in Nat /\ n \in Nat /\ a + z <= n
  BY RangeFits
<1>3. Family(y) /\ Placed(y, z)
  <2> HIDE DEF x, a, z, n
  <2> QED BY <1>1, <1>2, LocalPlaced
<1>4. \A b \in Levels : x[b] = Value(c, Indices(b), s)
  BY DEF IndexTensors
<1>5. Local(c, r, s) = y
  BY <1>4 DEF Local, Index
<1>6. ASSUME NEW b \in Levels
      PROVE  /\ Index(c, r, s, b) \in Seq(Int)
             /\ DOMAIN y[b] = DOMAIN Index(c, r, s, b)
             /\ \A k \in DOMAIN y[b] : Index(c, r, s, b)[k] = a + y[b][k]
  <2> DEFINE w == Index(c, r, s, b)
             v == x[b]
  <2>1. v \in Seq(Int)
    BY <1>1 DEF Family
  <2>2. w = Within(v, a, z)
    BY <1>4 DEF Index
  <2>3. y[b] = Moved(w, -a)
    BY <2>2
  <2> HIDE DEF w, v, y, x, a, z, n
  <2>4. w \in Seq(Int)
    BY <1>2, <2>1, <2>2, WithinFacts
  <2>5. /\ DOMAIN y[b] = DOMAIN w
        /\ \A k \in DOMAIN w : y[b][k] = w[k] + (-a) /\ w[k] \in Int
    BY <1>2, <2>3, <2>4, MovedFacts
  <2>6. ASSUME NEW k \in DOMAIN w PROVE w[k] = a + y[b][k]
    <3> DEFINE e == w[k]
               f == y[b][k]
    <3>1. e \in Int /\ f = e + (-a)
      BY <2>5
    <3> HIDE DEF e, f
    <3>2. e = a + f
      BY <1>2, <3>1
    <3> QED BY <3>2 DEF e, f
  <2> QED BY <2>4, <2>5, <2>6 DEF w
<1> QED BY <1>3, <1>5, <1>6

\* The rows a rank cuts are those of the channels it keeps, in the same order,
\* and each has the columns the rank multiplies.
LEMMA SliceFacts ==
  ASSUME NEW c \in Cases, c.localInput % GroupSize = 0,
         NEW s \in 0 .. (Count(c) - 1), NEW r \in 0 .. (c.ranks - 1), Sound(c, s),
         NEW b \in Levels, NEW p \in Rows(b)
  PROVE  LET rows == Slices(c, r, s, b, p)
             local == Local(c, r, s)[b]
         IN /\ rows \in Seq(Slice) /\ Len(rows) = Len(local) /\ DOMAIN rows = DOMAIN local
            /\ \A k \in DOMAIN local :
                 /\ Whole(c) => rows[k].of = c.modules[s + 1]
                 /\ rows[k].channel = Start(c, r, s) + local[k]
                 /\ Covered(p, rows[k]) = InputColumns(c, r)
<1> DEFINE v == Value(c, Indices(b), s)
           w == Value(c, p, s)
           K == Chosen(c, r, s, b)
           o == Ascending(K)
           n == Cardinality(K)
           m == Masked(w, K)
           i == Masked(v, K)
           local == Local(c, r, s)[b]
           rows == Slices(c, r, s, b, p)
<1>1. /\ v \in Seq(Int) /\ w \in Seq(Row) /\ DOMAIN w = DOMAIN v
      /\ \A k \in DOMAIN w : /\ w[k].channel = v[k]
                             /\ Whole(c) => w[k].of = c.modules[s + 1]
  BY SoundFacts
<1>2. K \subseteq DOMAIN v /\ K \subseteq DOMAIN w
  BY <1>1 DEF Chosen, Places
<1>3. Index(c, r, s, b) = i
  BY DEF Index, Within, Chosen, Places
<1>4. /\ DOMAIN local = DOMAIN i
      /\ \A k \in DOMAIN local : i[k] = Start(c, r, s) + local[k]
  BY <1>3, LocalFacts
<1>5. local \in Seq(Int)
  BY LocalFacts DEF Family
<1>6. rows = [k \in DOMAIN m |-> Cut(c, r, p, m[k])]
  BY DEF Slices
<1> HIDE DEF v, w, K, local, rows
<1>7. /\ n \in Nat /\ o \in [1 .. n -> K]
      /\ DOMAIN i = 1 .. n /\ \A k \in 1 .. n : i[k] = v[o[k]]
  BY <1>1, <1>2, MaskedFacts
<1>8. /\ m \in Seq(Row) /\ DOMAIN m = 1 .. n /\ \A k \in 1 .. n : m[k] = w[o[k]]
  BY <1>1, <1>2, MaskedFacts
<1> HIDE DEF i, m, o, n
<1>9. ASSUME NEW k \in 1 .. n
      PROVE  /\ m[k] \in Row /\ m[k].channel = Start(c, r, s) + local[k]
             /\ Whole(c) => m[k].of = c.modules[s + 1]
  <2>1. o[k] \in DOMAIN w
    BY <1>2, <1>7
  <2>2. m[k] \in Row
    <3>1. m \in Seq(Row) /\ k \in DOMAIN m
      BY <1>8
    <3> QED BY <3>1, EntriesOf
  <2>3. m[k] = w[o[k]] /\ i[k] = v[o[k]]
    BY <1>7, <1>8
  <2>4. m[k].channel = i[k] /\ (Whole(c) => m[k].of = c.modules[s + 1])
    BY <1>1, <2>1, <2>3
  <2>5. i[k] = Start(c, r, s) + local[k]
    BY <1>4, <1>7
  <2> QED BY <2>2, <2>4, <2>5
<1>10. r \in Nat
  BY CaseFacts
<1>11. ASSUME NEW k \in 1 .. n
       PROVE  /\ rows[k] \in Slice
              /\ rows[k].channel = Start(c, r, s) + local[k]
              /\ Whole(c) => rows[k].of = c.modules[s + 1]
              /\ Covered(p, rows[k]) = InputColumns(c, r)
  <2> DEFINE t == Cut(c, r, p, m[k])
  <2>1. rows[k] = t
    BY <1>6, <1>8
  <2>2. t.of = m[k].of /\ t.channel = m[k].channel
    BY DEF Cut
  <2>3. m[k].of \in Names /\ m[k].channel \in Nat
    BY <1>9 DEF Row
  <2>4. /\ Covered(p, t) = InputColumns(c, r)
        /\ t.first \in Int /\ t.width \in Int
    BY <1>10, CutCovers
  <2>5. t = [of |-> t.of, channel |-> t.channel, first |-> t.first, width |-> t.width]
    BY DEF Cut
  <2> HIDE DEF t
  <2>6. t \in Slice
    BY <2>2, <2>3, <2>4, <2>5 DEF Slice
  <2> QED BY <1>9, <2>1, <2>2, <2>4, <2>6
<1>12. DOMAIN rows = 1 .. n
  BY <1>6, <1>8
<1>13. rows = [k \in 1 .. n |-> rows[k]]
  BY <1>6, <1>8
<1>14. rows \in Seq(Slice) /\ Len(rows) = n
  BY <1>7, <1>11, <1>13
<1>15. DOMAIN local = 1 .. n
  BY <1>4, <1>7
<1>16. Len(local) = n
  BY <1>5, <1>7, <1>15
<1> QED BY <1>11, <1>12, <1>14, <1>15, <1>16 DEF local, rows

(***************************************************************************)
(* What a rank has put together after the first n shards.                  *)
(***************************************************************************)
Channel(c, r, s, v) == Start(c, r, s) + v - First(c, s)

\* Rows follow the entries of their index tensor.
Fits(c, r, s, p, v, row) ==
  /\ row.of = c.modules[s + 1]
  /\ row.channel = Channel(c, r, s, v)
  /\ Covered(p, row) = InputColumns(c, r)
Follow(c, r, n, p, index, rows) ==
  \A k \in DOMAIN index : \A s \in 0 .. (n - 1) :
    InShard(c, s, index[k]) => Fits(c, r, s, p, index[k], rows[k])

IndexFamily(l) == [b \in Levels |-> l[Indices(b)]]
LayerOk(c, r, n, l) ==
  /\ \A b \in Levels : l[Indices(b)] \in Seq(Int)
  /\ Placed(IndexFamily(l), First(c, n))
  /\ \A b \in Levels : \A p \in Rows(b) :
       l[p] \in Seq(Slice) /\ Len(l[p]) = Len(l[Indices(b)])
  /\ Whole(c) => \A b \in Levels : \A p \in Rows(b) :
                   Follow(c, r, n, p, l[Indices(b)], l[p])
  /\ \A s \in 0 .. (n - 1) : \A b \in Levels :
       Within(l[Indices(b)], First(c, s), Size(c, s)) = Part(c, r, s, b)

\* Before the first shard there is nothing.
LEMMA LayerStarts ==
  ASSUME NEW c \in Cases, NEW r, NEW l, \A p \in Parameters : l[p] = <<>>
  PROVE  LayerOk(c, r, 0, l)
<1>1. \A b \in Levels : l[Indices(b)] = <<>>
  BY ParameterFacts
<1>2. \A b \in Levels : \A p \in Rows(b) : l[p] = <<>>
  BY ParameterFacts
<1>3. First(c, 0) = 0
  BY FirstFacts
<1>4. \A b \in Levels : DOMAIN IndexFamily(l)[b] = {}
  BY <1>1 DEF IndexFamily
<1>5. Placed(IndexFamily(l), 0)
  <2>1. 0 .. (0 - 1) = {}
    OBVIOUS
  <2> QED BY <1>4, <2>1 DEF Placed
<1>6. \A b \in Levels : \A p \in Rows(b) : Follow(c, r, 0, p, l[Indices(b)], l[p])
  BY <1>1 DEF Follow
<1> DEFINE e == <<>>
<1>0. e \in Seq(Int) /\ e \in Seq(Slice) /\ e = <<>>
  OBVIOUS
<1> HIDE DEF e
<1>7. \A b \in Levels : l[Indices(b)] \in Seq(Int)
  BY <1>0, <1>1, Zenon
<1>8. \A b \in Levels : \A p \in Rows(b) :
       l[p] \in Seq(Slice) /\ Len(l[p]) = Len(l[Indices(b)])
  BY <1>0, <1>1, <1>2, Zenon
<1>9. 0 .. (0 - 1) = {}
  OBVIOUS
<1> QED BY <1>3, <1>5, <1>6, <1>7, <1>8, <1>9 DEF LayerOk

\* Entries of a and x, or of c and y, stand next to each other in u and v.
Beside(a, c, x, y, u, v) ==
  \A k \in DOMAIN u :
    \/ k \in DOMAIN a /\ u[k] = a[k] /\ v[k] = x[k]
    \/ \E j \in DOMAIN c : u[k] = c[j] /\ v[k] = y[j]

\* Two pairs of sequences, the sequences of each pair of one length, appended.
LEMMA SideBySide ==
  ASSUME NEW S, NEW T, NEW a \in Seq(S), NEW c \in Seq(S),
         NEW x \in Seq(T), NEW y \in Seq(T), Len(x) = Len(a), Len(y) = Len(c)
  PROVE  /\ x \o y \in Seq(T) /\ Len(x \o y) = Len(a \o c)
         /\ Beside(a, c, x, y, a \o c, x \o y)
<1> DEFINE u == a \o c
           v == x \o y
           p == Len(a)
           q == Len(c)
<1>1. /\ u \in Seq(S) /\ Len(u) = Len(a) + Len(c)
      /\ DOMAIN a = 1 .. Len(a) /\ DOMAIN c = 1 .. Len(c)
      /\ DOMAIN u = 1 .. (Len(a) + Len(c))
      /\ Len(a) \in Nat /\ Len(c) \in Nat
      /\ \A k \in 1 .. Len(a) : u[k] = a[k]
      /\ \A k \in 1 .. Len(c) : u[Len(a) + k] = c[k]
  BY Concatenation
<1>2. /\ v \in Seq(T) /\ Len(v) = Len(x) + Len(y)
      /\ \A k \in 1 .. Len(x) : v[k] = x[k]
      /\ \A k \in 1 .. Len(y) : v[Len(x) + k] = y[k]
  <2>1. v \in Seq(T)
    BY Concatenation
  <2>2. Len(v) = Len(x) + Len(y)
    BY Concatenation
  <2>3. \A k \in 1 .. Len(x) : v[k] = x[k]
    BY Concatenation
  <2>4. \A k \in 1 .. Len(y) : v[Len(x) + k] = y[k]
    BY Concatenation
  <2> HIDE DEF v
  <2> QED BY <2>1, <2>2, <2>3, <2>4
<1> HIDE DEF u, v
<1>3. Len(v) = Len(u)
  BY <1>1, <1>2
<1>4. /\ \A k \in 1 .. p : v[k] = x[k]
      /\ \A k \in 1 .. q : v[p + k] = y[k]
  BY <1>2
<1> HIDE DEF p, q
<1>5. /\ DOMAIN a = 1 .. p /\ DOMAIN c = 1 .. q /\ DOMAIN u = 1 .. (p + q)
      /\ p \in Nat /\ q \in Nat
      /\ \A k \in 1 .. p : u[k] = a[k]
      /\ \A k \in 1 .. q : u[p + k] = c[k]
  BY <1>1 DEF p, q
<1>6. ASSUME NEW k \in DOMAIN u
      PROVE  \/ k \in DOMAIN a /\ u[k] = a[k] /\ v[k] = x[k]
             \/ \E j \in DOMAIN c : u[k] = c[j] /\ v[k] = y[j]
  <2>1. k \in 1 .. (p + q)
    BY <1>5
  <2>2. CASE k <= p
    <3>1. k \in 1 .. p
      BY <1>5, <2>1, <2>2
    <3> QED BY <1>4, <1>5, <3>1
  <2>3. CASE k > p
    <3>1. k - p \in 1 .. q /\ p + (k - p) = k
      BY <1>5, <2>1, <2>3
    <3>2. u[p + (k - p)] = c[k - p] /\ v[p + (k - p)] = y[k - p]
      BY <1>4, <1>5, <3>1
    <3> QED BY <1>5, <3>1, <3>2
  <2> QED BY <1>5, <2>1, <2>2, <2>3
<1> QED BY <1>1, <1>2, <1>3, <1>6 DEF u, v, Beside

\* The entries that a shard adds to the index tensors.
LEMMA PartFacts ==
  ASSUME NEW c \in Cases, NEW s \in 0 .. (Count(c) - 1), NEW r \in 0 .. (c.ranks - 1),
         Sound(c, s), NEW b \in Levels
  PROVE  LET part == Part(c, r, s, b)
             local == Local(c, r, s)[b]
         IN /\ part \in Seq(Int) /\ Len(part) = Len(local) /\ DOMAIN part = DOMAIN local
            /\ \A k \in DOMAIN part :
                 /\ part[k] \in Int /\ InShard(c, s, part[k])
                 /\ Start(c, r, s) + local[k] = Channel(c, r, s, part[k])
<1> DEFINE part == Part(c, r, s, b)
           local == Local(c, r, s)[b]
           f == First(c, s)
           z == Size(c, s)
           a == Start(c, r, s)
<1>1. local \in Seq(Int)
  BY LocalFacts DEF Family
<1>2. \A k \in DOMAIN local : local[k] \in 0 .. (z - 1)
  BY LocalFacts DEF Placed
<1>3. f \in Nat
  <2>1. s \in 0 .. Count(c)
    BY CaseFacts
  <2> QED BY <2>1, FirstFacts
<1>4. z \in Nat /\ a \in Nat
  BY RangeFits
<1>5. part = Moved(local, f)
  BY DEF Part
<1> HIDE DEF part, local, f, z, a
<1>6. /\ part \in Seq(Int) /\ Len(part) = Len(local) /\ DOMAIN part = DOMAIN local
      /\ \A k \in DOMAIN local : part[k] = local[k] + f
  BY <1>1, <1>3, <1>5, MovedFacts
<1>7. ASSUME NEW k \in DOMAIN local
      PROVE  /\ part[k] \in Int /\ f <= part[k] /\ part[k] < f + z
             /\ a + local[k] = a + part[k] - f
  <2> DEFINE e == local[k]
             g == part[k]
  <2>1. e \in 0 .. (z - 1) /\ g = e + f
    BY <1>2, <1>6
  <2> HIDE DEF e, g
  <2>2. g \in Int /\ f <= g /\ g < f + z /\ a + e = a + g - f
    BY <1>3, <1>4, <2>1
  <2> QED BY <2>2 DEF e, g
<1>8. \A k \in DOMAIN local : /\ InShard(c, s, part[k])
                              /\ a + local[k] = Channel(c, r, s, part[k])
  BY <1>7 DEF InShard, Channel, f, z, a
<1> QED BY <1>6, <1>7, <1>8 DEF part, local, a

\* Assembling one more shard keeps all that.
LEMMA LayerGrows ==
  ASSUME NEW c \in Cases, c.localInput % GroupSize = 0,
         NEW s \in 0 .. (Count(c) - 1), NEW r \in 0 .. (c.ranks - 1), Sound(c, s),
         NEW l, LayerOk(c, r, s, l),
         NEW m, \A b \in Levels :
                  /\ m[Indices(b)] = l[Indices(b)] \o Part(c, r, s, b)
                  /\ \A p \in Rows(b) : m[p] = l[p] \o Slices(c, r, s, b, p)
  PROVE  LayerOk(c, r, s + 1, m)
<1> DEFINE f == First(c, s)
           z == Size(c, s)
           Before == 0 .. (s - 1)
<1>1. /\ Count(c) \in Nat /\ s \in 0 .. Count(c) /\ s \in Nat
      /\ \A t \in Before : t \in 0 .. (Count(c) - 1) /\ t \in 0 .. Count(c) /\ t < s
      /\ \A t \in 0 .. ((s + 1) - 1) : t \in Before \/ t = s
  BY CaseFacts
<1>2. f \in Nat /\ z \in Nat /\ First(c, s + 1) = f + z
  BY <1>1, FirstFacts, CaseFacts
<1>3. \A t \in Before : /\ First(c, t) \in Nat /\ Size(c, t) \in Nat
                        /\ First(c, t) + Size(c, t) <= f
  BY <1>1, FirstFacts, CaseFacts
<1> HIDE DEF Before
<1>4. ASSUME NEW b \in Levels
      PROVE  /\ l[Indices(b)] \in Seq(Int)
             /\ \A k \in DOMAIN l[Indices(b)] : l[Indices(b)][k] \in 0 .. (f - 1)
             /\ Part(c, r, s, b) \in Seq(Int)
             /\ \A k \in DOMAIN Part(c, r, s, b) :
                  Part(c, r, s, b)[k] \in Int /\ InShard(c, s, Part(c, r, s, b)[k])
             /\ m[Indices(b)] = l[Indices(b)] \o Part(c, r, s, b)
  <2>1. l[Indices(b)] \in Seq(Int)
    BY DEF LayerOk
  <2>2. Placed(IndexFamily(l), f)
    BY DEF LayerOk
  <2>3. IndexFamily(l)[b] = l[Indices(b)]
    BY DEF IndexFamily
  <2>4. \A k \in DOMAIN l[Indices(b)] : l[Indices(b)][k] \in 0 .. (f - 1)
    BY <2>2, <2>3 DEF Placed
  <2>5. /\ Part(c, r, s, b) \in Seq(Int)
        /\ \A k \in DOMAIN Part(c, r, s, b) :
             Part(c, r, s, b)[k] \in Int /\ InShard(c, s, Part(c, r, s, b)[k])
    BY PartFacts
  <2> QED BY <2>1, <2>4, <2>5
\* The index tensors are still one partition.
<1>5. Placed(IndexFamily(m), First(c, s + 1))
  <2> DEFINE x == IndexFamily(l)
             y == Local(c, r, s)
             w == [b \in Levels |-> x[b] \o Moved(y[b], f)]
  <2>1. Family(x) /\ Placed(x, f)
    BY <1>4 DEF Family, IndexFamily, LayerOk
  <2>2. Family(y) /\ Placed(y, z)
    BY LocalFacts
  <2>3. Placed(w, f + z)
    <3> HIDE DEF x, y, f, z
    <3> QED BY <1>2, <2>1, <2>2, AppendPlaced
  <2>4. IndexFamily(m) = w
    BY <1>4 DEF IndexFamily, Part
  <2> QED BY <1>2, <2>3, <2>4
\* Every part of the index tensors is what its shard gave.
<1>6. ASSUME NEW t \in 0 .. ((s + 1) - 1), NEW b \in Levels
      PROVE  Within(m[Indices(b)], First(c, t), Size(c, t)) = Part(c, r, t, b)
  <2> DEFINE x == l[Indices(b)]
             y == Part(c, r, s, b)
  <2>1. x \in Seq(Int) /\ y \in Seq(Int) /\ m[Indices(b)] = x \o y
    BY <1>4
  <2>2. /\ \A k \in DOMAIN x : x[k] \in 0 .. (f - 1)
        /\ \A k \in DOMAIN y : y[k] \in Int /\ f <= y[k] /\ y[k] < f + z
    BY <1>4 DEF InShard
  <2>3. CASE t \in Before
    <3> DEFINE g == First(c, t)
               h == Size(c, t)
    <3>1. g \in Nat /\ h \in Nat /\ g + h <= f
      BY <1>3, <2>3
    <3>2. Within(x, g, h) = Part(c, r, t, b)
      BY <2>3 DEF LayerOk, Before
    <3> HIDE DEF x, y, f, z, g, h
    <3>3. \A k \in DOMAIN y : ~(g <= y[k] /\ y[k] < g + h)
      BY <1>2, <2>2, <3>1
    <3>4. Within(x \o y, g, h) = Within(x, g, h)
      BY <2>1, <3>1, <3>3, WithinFirst
    <3> QED BY <2>1, <3>2, <3>4 DEF g, h
  <2>4. CASE t = s
    <3> HIDE DEF x, y, f, z
    <3>1. NoneIn(x, f, z)
      BY <1>2, <2>2 DEF NoneIn
    <3>2. AllIn(y, f, z)
      BY <2>2 DEF AllIn
    <3>3. x \in Seq(Int) /\ y \in Seq(Int)
      BY <2>1
    <3>4. f \in Int /\ z \in Int
      BY <1>2
    <3>5. Within(x \o y, f, z) = y
      BY <3>1, <3>2, <3>3, <3>4, WithinLast
    <3> QED BY <2>1, <2>4, <3>5 DEF y, f, z
  <2> QED BY <1>1, <2>3, <2>4
\* Rows are as many as entries, and follow them.
<1>7. ASSUME NEW b \in Levels, NEW p \in Rows(b)
      PROVE  /\ m[p] \in Seq(Slice) /\ Len(m[p]) = Len(m[Indices(b)])
             /\ Whole(c) => Follow(c, r, s + 1, p, m[Indices(b)], m[p])
  <2> DEFINE x == l[Indices(b)]
             y == Part(c, r, s, b)
             u == l[p]
             v == Slices(c, r, s, b, p)
             i == m[Indices(b)]
             w == m[p]
  <2>1. x \in Seq(Int) /\ y \in Seq(Int) /\ i = x \o y
    BY <1>4
  <2>2. u \in Seq(Slice) /\ Len(u) = Len(x) /\ w = u \o v
    BY DEF LayerOk
  <2>3. /\ v \in Seq(Slice) /\ Len(v) = Len(y)
        /\ \A k \in DOMAIN y : Whole(c) => Fits(c, r, s, p, y[k], v[k])
    <3> DEFINE local == Local(c, r, s)[b]
    <3>1. /\ v \in Seq(Slice) /\ Len(v) = Len(local)
          /\ \A k \in DOMAIN local :
               /\ Whole(c) => v[k].of = c.modules[s + 1]
               /\ v[k].channel = Start(c, r, s) + local[k]
               /\ Covered(p, v[k]) = InputColumns(c, r)
      BY SliceFacts
    <3>2. /\ Len(y) = Len(local) /\ DOMAIN local = DOMAIN y
          /\ \A k \in DOMAIN y : Start(c, r, s) + local[k] = Channel(c, r, s, y[k])
      BY PartFacts
    <3> HIDE DEF v, y, local
    <3> QED BY <3>1, <3>2 DEF Fits
  <2>4. \A k \in DOMAIN x : x[k] \in 0 .. (f - 1)
    BY <1>4
  <2>5. \A k \in DOMAIN y : y[k] \in Int /\ InShard(c, s, y[k])
    BY <1>4
  <2>6. Whole(c) => Follow(c, r, s, p, x, u)
    BY DEF LayerOk
  <2> HIDE DEF x, y, u, v, i, w, f, z
  <2>7. /\ w \in Seq(Slice) /\ Len(w) = Len(i)
        /\ \A k \in DOMAIN i :
             \/ k \in DOMAIN x /\ i[k] = x[k] /\ w[k] = u[k]
             \/ \E j \in DOMAIN y : i[k] = y[j] /\ w[k] = v[j]
    <3>1. x \in Seq(Int) /\ y \in Seq(Int) /\ u \in Seq(Slice) /\ v \in Seq(Slice)
      BY <2>1, <2>2, <2>3
    <3>2. Len(u) = Len(x) /\ Len(v) = Len(y)
      BY <2>2, <2>3
    <3>3. u \o v \in Seq(Slice) /\ Len(u \o v) = Len(x \o y)
      BY <3>1, <3>2, SideBySide
    <3>4. Beside(x, y, u, v, x \o y, u \o v)
      BY <3>1, <3>2, SideBySide
    <3>5. Beside(x, y, u, v, i, w)
      BY <2>1, <2>2, <3>4
    <3> QED BY <2>1, <2>2, <3>3, <3>5 DEF Beside
  <2>8. ASSUME Whole(c), NEW k \in DOMAIN i, NEW t \in 0 .. ((s + 1) - 1),
               InShard(c, t, i[k])
        PROVE  Fits(c, r, t, p, i[k], w[k])
    <3>1. CASE k \in DOMAIN x /\ i[k] = x[k] /\ w[k] = u[k]
      <4>1. x[k] \in 0 .. (f - 1)
        BY <2>4, <3>1
      <4>2. ~InShard(c, s, x[k])
        BY <1>2, <4>1 DEF InShard, f
      <4>3. t \in Before
        BY <1>1, <2>8, <3>1, <4>2
      <4>4. Fits(c, r, t, p, x[k], u[k])
        BY <2>6, <2>8, <3>1, <4>3 DEF Follow, Before
      <4> QED BY <3>1, <4>4
    <3>2. CASE \E j \in DOMAIN y : i[k] = y[j] /\ w[k] = v[j]
      <4>1. PICK j \in DOMAIN y : i[k] = y[j] /\ w[k] = v[j]
        BY <3>2
      <4>2. t \in 0 .. (Count(c) - 1)
        BY <1>1
      <4>3. y[j] \in Int /\ InShard(c, s, y[j]) /\ InShard(c, t, y[j])
        BY <2>5, <2>8, <4>1
      <4>4. t = s
        BY <4>2, <4>3, OneShard
      <4>5. Fits(c, r, s, p, y[j], v[j])
        BY <2>3, <2>8
      <4> QED BY <4>1, <4>4, <4>5
    <3> QED BY <2>7, <3>1, <3>2
  <2>9. Whole(c) => Follow(c, r, s + 1, p, i, w)
    BY <2>8 DEF Follow
  <2> QED BY <2>7, <2>9 DEF i, w
<1>8. \A b \in Levels : m[Indices(b)] \in Seq(Int)
  <2>1. ASSUME NEW b \in Levels PROVE m[Indices(b)] \in Seq(Int)
    <3> DEFINE x == l[Indices(b)]
               y == Part(c, r, s, b)
    <3>1. x \in Seq(Int) /\ y \in Seq(Int) /\ m[Indices(b)] = x \o y
      BY <1>4
    <3> HIDE DEF x, y
    <3> QED BY <3>1
  <2> QED BY <2>1
<1> QED BY <1>5, <1>6, <1>7, <1>8 DEF LayerOk

(***************************************************************************)
(* Loading.                                                                *)
(***************************************************************************)
\* A rank holds the n tensors it has read, each once.
PiecesOk(c, n, h) ==
  /\ n \in 0 .. Len(c.stored)
  /\ DOMAIN h = {Key(c, k) : k \in 1 .. n}
  /\ \A k \in 1 .. n : h[Key(c, k)] = c.stored[k].tensor
  /\ \A j, k \in 1 .. n : Key(c, j) = Key(c, k) => j = k

\* Exactly one tensor of the checkpoint has this parameter of this shard.
Single(c, p, s) == \E k : Held(c, p, s) = {k}

\* A parameter is held after all tensors were read when one tensor has it.
LEMMA AllRead ==
  ASSUME NEW c \in Cases, NEW h, PiecesOk(c, Len(c.stored), h), NEW p, NEW s
  PROVE  /\ At(p, s) \in DOMAIN h <=> Single(c, p, s)
         /\ At(p, s) \in DOMAIN h => h[At(p, s)] = Value(c, p, s)
<1> DEFINE n == Len(c.stored)
           a == At(p, s)
<1>1. DOMAIN c.stored = 1 .. n
  BY CheckpointsAssumption
<1>2. \A k : k \in Held(c, p, s) <=> k \in 1 .. n /\ Key(c, k) = a
  BY <1>1 DEF Held, Key, At
<1>3. /\ DOMAIN h = {Key(c, k) : k \in 1 .. n}
      /\ \A k \in 1 .. n : h[Key(c, k)] = c.stored[k].tensor
      /\ \A j, k \in 1 .. n : Key(c, j) = Key(c, k) => j = k
  BY DEF PiecesOk
<1> HIDE DEF n, a
<1>4. ASSUME a \in DOMAIN h
      PROVE  Single(c, p, s) /\ h[a] = Value(c, p, s)
  <2>1. PICK k \in 1 .. n : Key(c, k) = a
    BY <1>3, <1>4
  <2>2. \A j : j \in Held(c, p, s) <=> j = k
    BY <1>2, <1>3, <2>1
  <2>3. Held(c, p, s) = {k}
    BY <2>2
  <2>4. Value(c, p, s) = c.stored[k].tensor
    BY <2>3, OnlyTensor
  <2> QED BY <1>3, <2>1, <2>3, <2>4 DEF Single
<1>5. ASSUME Single(c, p, s) PROVE a \in DOMAIN h
  <2>1. PICK k : k \in Held(c, p, s)
    BY <1>5 DEF Single
  <2> QED BY <1>2, <1>3, <2>1
<1> QED BY <1>4, <1>5 DEF a

\* A tensor stored twice is not a sound checkpoint.
LEMMA TwiceUnsound ==
  ASSUME NEW c \in Cases, NEW j \in DOMAIN c.stored, NEW k \in DOMAIN c.stored,
         j # k, Key(c, j) = Key(c, k)
  PROVE  \E s \in 0 .. (Count(c) - 1) : ~Sound(c, s)
<1> DEFINE s == ShardOf(c.stored[k].id)
           p == c.stored[k].param
<1>1. s \in Int
  <2>1. c.stored[k].id \in Names
    BY CheckpointsAssumption
  <2> QED BY <2>1 DEF ShardOf, Names
<1>2. s \in 0 .. (Count(c) - 1) /\ p \in Parameters
  <2> DEFINE z == s
  <2>1. z \in Int /\ ShardOf(c.stored[k].id) = z
    BY <1>1
  <2> HIDE DEF z
  <2>2. z \in 0 .. (Count(c) - 1) /\ p \in Parameters
    BY <2>1, TensorFacts
  <2> QED BY <2>2 DEF z
<1>3. j \in Held(c, p, s) /\ k \in Held(c, p, s)
  BY DEF Key, At, Held
<1> HIDE DEF s, p
<1>4. ASSUME Sound(c, s) PROVE FALSE
  <2>1. PICK i : Held(c, p, s) = {i}
    BY <1>2, <1>4, SoundFacts
  <2> QED BY <1>3, <2>1
<1> QED BY <1>2, <1>4

\* The operators of VllmShards for the case at hand.
LEMMA CaseOperators ==
  ASSUME case \in Cases
  PROVE  /\ InputSharded = Split(case)
         /\ \A s : LocalOutput(s) = Size(case, s) /\ GlobalOutput(s) = Total(case, s)
         /\ \A s : FirstOutput(s) = First(case, s)
         /\ Shards = 0 .. (Count(case) - 1)
         /\ Ranks = 0 .. (case.ranks - 1)
         /\ \A r : Columns(r) = InputColumns(case, r)
         /\ \A r, p, row : Narrow(r, p, row) = Cut(case, r, p, row)
<1>1. InputSharded = Split(case)
  BY DEF InputSharded, Split
<1>2. \A s : LocalOutput(s) = Size(case, s) /\ GlobalOutput(s) = Total(case, s)
  BY DEF LocalOutput, GlobalOutput, InputSharded, Size, Total, Split
<1>3. \A s : FirstOutput(s) = First(case, s)
  BY DEF FirstOutput, First, Firsts, LocalOutput
<1>4. Shards = 0 .. (Count(case) - 1) /\ Ranks = 0 .. (case.ranks - 1)
  BY DEF Shards, Count, Ranks
<1>5. \A r : Columns(r) = InputColumns(case, r)
  BY DEF Columns, InputColumns, InputSharded, Split
<1>6. \A r, p, row : Narrow(r, p, row) = Cut(case, r, p, row)
  BY DEF Narrow, Cut, InputSharded, Split
<1> QED BY <1>1, <1>2, <1>3, <1>4, <1>5, <1>6

\* A rank complains about the shards that are not sound.
LEMMA ComplaintSound ==
  ASSUME case \in Cases, NEW r, PiecesOk(case, Len(case.stored), pieces[r]),
         NEW s \in 0 .. (Count(case) - 1)
  PROVE  Complaint(r, s) = "none" <=> Sound(case, s)
<1> DEFINE Missing == \E p \in Parameters : At(p, s) \notin DOMAIN pieces[r]
           Odd == \E b \in Levels : \E p \in Rows(b) :
                    Len(Loaded(r, p, s)) # Len(Loaded(r, Indices(b), s))
           Cover == Covers(Partition(r, s), GlobalOutput(s))
<1>1. Complaint(r, s) = "none" <=> ~Missing /\ Cover /\ ~Odd
  <2>1. Complaint(r, s) = IF Missing THEN "missing" ELSE IF ~Cover THEN "partition"
                          ELSE IF Odd THEN "rows" ELSE "none"
    BY DEF Complaint, At
  <2> HIDE DEF Missing, Odd, Cover
  <2> QED BY <2>1
<1>2. Missing <=> \E p \in Parameters : ~Single(case, p, s)
  BY AllRead
<1>3. ASSUME NEW p \in Parameters
      PROVE  Single(case, p, s) <=> Cardinality(Held(case, p, s)) = 1
  <2>1. DOMAIN case.stored = 1 .. Len(case.stored) /\ Len(case.stored) \in Nat
    BY CheckpointsAssumption
  <2>2. IsFiniteSet(DOMAIN case.stored)
    BY <2>1, FS_Interval
  <2>3. Held(case, p, s) \subseteq DOMAIN case.stored
    BY DEF Held
  <2>4. IsFiniteSet(Held(case, p, s))
    BY <2>2, <2>3, FS_Subset
  <2> QED BY <2>4, FS_Singleton DEF Single
<1>4. ~Missing <=> \A p \in Parameters : Cardinality(Held(case, p, s)) = 1
  BY <1>2, <1>3
<1>5. ASSUME ~Missing
      PROVE  /\ \A p \in Parameters : Loaded(r, p, s) = Value(case, p, s)
             /\ Partition(r, s) = IndexTensors(case, s)
  <2>1. \A p \in Parameters : Loaded(r, p, s) = Value(case, p, s)
    <3>1. \A p : Loaded(r, p, s) = pieces[r][At(p, s)]
      BY DEF Loaded, At
    <3> QED BY <1>5, <3>1, AllRead
  <2>2. \A b \in Levels : Indices(b) \in Parameters
    BY ParameterFacts
  <2> QED BY <2>1, <2>2 DEF Partition, IndexTensors
<1>6. GlobalOutput(s) = Total(case, s)
  BY CaseOperators
<1>7. ASSUME ~Missing
      PROVE  Odd <=> \E b \in Levels : \E p \in Rows(b) :
                       Len(Value(case, p, s)) # Len(Value(case, Indices(b), s))
  BY <1>5, <1>7, ParameterFacts
<1> HIDE DEF Missing, Odd
<1> QED BY <1>1, <1>4, <1>5, <1>6, <1>7 DEF Sound

\* What a rank cuts out of a sound shard is its part of it.
LEMMA AssembledIs ==
  ASSUME case \in Cases, NEW r \in 0 .. (case.ranks - 1),
         PiecesOk(case, Len(case.stored), pieces[r]),
         NEW s \in 0 .. (Count(case) - 1), Sound(case, s),
         offset[r] = First(case, s), NEW b \in Levels
  PROVE  /\ Assembled(r, s, b, Indices(b)) = Part(case, r, s, b)
         /\ \A p \in Rows(b) : Assembled(r, s, b, p) = Slices(case, r, s, b, p)
<1> DEFINE v == Value(case, Indices(b), s)
           a == Start(case, r, s)
           z == Size(case, s)
           f == First(case, s)
           K == Chosen(case, r, s, b)
           i == Index(case, r, s, b)
<1>1. \A p \in Parameters : Loaded(r, p, s) = Value(case, p, s)
  <2>1. \A p \in Parameters : Single(case, p, s)
    BY SoundFacts DEF Single
  <2>2. \A p \in Parameters : pieces[r][At(p, s)] = Value(case, p, s)
    BY <2>1, AllRead
  <2> QED BY <2>2 DEF Loaded, At
<1>2. v \in Seq(Int) /\ (Split(case) => \A k \in DOMAIN v : v[k] \in 0 .. (z - 1))
  <2>1. v \in Seq(Int) /\ Placed(IndexTensors(case, s), Total(case, s))
    BY SoundFacts
  <2>2. IndexTensors(case, s)[b] = v
    BY DEF IndexTensors
  <2>3. Split(case) => Total(case, s) = z
    BY DEF Total
  <2> QED BY <2>1, <2>2, <2>3 DEF Placed
<1>3. a \in Nat /\ z \in Nat /\ f \in Nat /\ (Split(case) => a = 0)
  <2>1. f \in Nat
    BY CaseFacts, FirstFacts
  <2>2. Split(case) => a = 0
    BY DEF Start
  <2> QED BY <2>1, <2>2, RangeFits
<1>4. Kept(r, s, v) = K
  <2>1. K = {k \in DOMAIN v : a <= v[k] /\ v[k] < a + z}
    BY DEF Chosen, Places
  <2>2. Kept(r, s, v) = {k \in DOMAIN v : \/ Split(case)
                                          \/ r * z <= v[k] /\ v[k] < r * z + z}
    BY CaseOperators DEF Kept
  <2>3. CASE Split(case)
    <3>1. Kept(r, s, v) = DOMAIN v
      BY <2>2, <2>3
    <3>2. \A k \in DOMAIN v : a <= v[k] /\ v[k] < a + z
      BY <1>2, <1>3, <2>3
    <3> QED BY <2>1, <3>1, <3>2
  <2>4. CASE ~Split(case)
    <3>1. a = r * z
      BY <2>4 DEF Start
    <3> QED BY <2>1, <2>2, <2>4, <3>1
  <2> QED BY <2>3, <2>4
<1>5. Masked(v, K) = i
  BY DEF Index, Within, Chosen, Places
<1>6. i \in Seq(Int)
  BY LocalFacts
<1>7. ASSUME NEW x \in Int PROVE LocalIndex(r, s, x) = x + (-a)
  <2>1. LocalIndex(r, s, x) = IF Split(case) THEN x ELSE x - (r * z)
    BY CaseOperators DEF LocalIndex
  <2>2. ~Split(case) => r * z = a
    BY DEF Start
  <2>3. LocalIndex(r, s, x) = IF Split(case) THEN x ELSE x - a
    BY <2>1, <2>2
  <2> HIDE DEF a
  <2> QED BY <1>3, <2>3
<1>8. Loaded(r, Indices(b), s) = v
  BY <1>1, ParameterFacts
<1>9. Assembled(r, s, b, Indices(b)) = [k \in DOMAIN i |-> LocalIndex(r, s, i[k]) + f]
  <2> HIDE DEF v, K, i, f
  <2>1. offset[r] = f
    BY DEF f
  <2> QED BY <1>4, <1>5, <1>8, <2>1 DEF Assembled
<1>10. Part(case, r, s, b) = [k \in DOMAIN i |-> (i[k] + (-a)) + f]
  <2>1. Local(case, r, s)[b] = [k \in DOMAIN i |-> i[k] + (-a)]
    BY DEF Local, Moved
  <2> HIDE DEF i, f, a
  <2>2. Part(case, r, s, b) = Moved(Local(case, r, s)[b], f)
    BY DEF Part, f
  <2> QED BY <2>1, <2>2 DEF Moved
<1>11. Assembled(r, s, b, Indices(b)) = Part(case, r, s, b)
  <2>1. \A k \in DOMAIN i : i[k] \in Int
    BY <1>6, EntriesOf
  <2>2. \A k \in DOMAIN i : LocalIndex(r, s, i[k]) + f = (i[k] + (-a)) + f
    BY <1>7, <2>1
  <2> HIDE DEF i, f, a
  <2> QED BY <1>9, <1>10, <2>2
<1>12. ASSUME NEW p \in Rows(b)
       PROVE  Assembled(r, s, b, p) = Slices(case, r, s, b, p)
  <2> DEFINE w == Value(case, p, s)
             m == Masked(w, K)
  <2>1. Loaded(r, p, s) = w /\ p # Indices(b)
    BY <1>1, ParameterFacts
  <2>2. Slices(case, r, s, b, p) = [k \in DOMAIN m |-> Cut(case, r, p, m[k])]
    BY DEF Slices
  <2>3. \A k : Narrow(r, p, m[k]) = Cut(case, r, p, m[k])
    BY CaseOperators
  <2>4. Assembled(r, s, b, p) = [k \in DOMAIN m |-> Narrow(r, p, m[k])]
    <3> HIDE DEF v, K, w
    <3> QED BY <1>4, <1>8, <2>1 DEF Assembled
  <2> HIDE DEF m
  <2> QED BY <2>2, <2>3, <2>4
<1> QED BY <1>11, <1>12

\* The checkpoint can be served: what Servable says, by shards.
ServableCase(c) ==
  /\ c.localInput % GroupSize = 0
  /\ \A s \in 0 .. (Count(c) - 1) : Sound(c, s)

\* Three-level loading offers no replicated modules: the index tensors of one
\* cannot partition the channels of all ranks.
LEMMA NotReplicated ==
  ASSUME NEW c \in Cases, NEW s \in 0 .. (Count(c) - 1), Sound(c, s)
  PROVE  c.replicas[s + 1] = 1
<1> DEFINE h == c.replicas[s + 1]
           z == Size(c, s)
           n == c.ranks
           q == n \div h
<1>1. /\ n \in Nat /\ n > 0 /\ z \in Nat /\ z > 0 /\ h \in Nat /\ h > 0
      /\ Split(c) => h = 1
  BY CaseFacts
<1>2. SUFFICES ASSUME h # 1 PROVE FALSE
  BY DEF h
<1>3. ~Split(c) /\ Total(c, s) = z * n
  BY <1>1, <1>2 DEF Total
<1>4. PICK b \in Levels :
        \E i \in DOMAIN IndexTensors(c, s)[b] : IndexTensors(c, s)[b][i] = z * n - 1
  <2>1. Placed(IndexTensors(c, s), Total(c, s))
    BY SoundFacts
  <2>2. z * n \in Nat /\ z * n > 0
    <3> HIDE DEF z, n
    <3> QED BY <1>1
  <2>3. z * n - 1 \in 0 .. (Total(c, s) - 1)
    BY <1>3, <2>2
  <2> QED BY <2>1, <2>3 DEF Placed
<1>5. IndexTensors(c, s)[b] = Value(c, Indices(b), s)
  BY DEF IndexTensors
<1> PICK k \in DOMAIN IndexTensors(c, s)[b] : IndexTensors(c, s)[b][k] = z * n - 1
  BY <1>4
<1>6. PICK j : Held(c, Indices(b), s) = {j}
  BY SoundFacts, ParameterFacts
<1>7. /\ j \in DOMAIN c.stored /\ c.stored[j].param = Indices(b)
      /\ ShardOf(c.stored[j].id) = s /\ Value(c, Indices(b), s) = c.stored[j].tensor
  <2> DEFINE p == Indices(b)
  <2>1. Held(c, p, s) = {j}
    BY <1>6
  <2> HIDE DEF p, h, z, n, q
  <2>2. j \in Held(c, p, s)
    BY <2>1
  <2>3. Value(c, p, s) = c.stored[j].tensor
    BY <2>1, OnlyTensor
  <2> QED BY <2>2, <2>3 DEF p, Held
<1>8. c.stored[j].tensor[k] < z * q
  <2>1. s \in Int
    BY CaseFacts
  <2>2. k \in DOMAIN c.stored[j].tensor
    BY <1>4, <1>5, <1>7
  <2> QED BY <1>2, <1>7, <2>1, <2>2, TensorFacts
<1>9. z * n - 1 < z * q
  BY <1>4, <1>5, <1>7, <1>8
<1> HIDE DEF h, z, n, q
<1>10. q \in Nat /\ q < n
  BY <1>1, <1>2 DEF q
<1>11. z * q <= z * n - z
  <2>1. q <= n - 1 /\ n - 1 \in Nat
    BY <1>1, <1>10
  <2> DEFINE d == (n - 1) - q
  <2>2. d \in Nat /\ n = q + d + 1
    BY <1>1, <1>10
  <2> HIDE DEF d
  <2>3. z * d \in Nat /\ z * n = z * q + z * d + z
    BY <1>1, <1>10, <2>2
  <2>4. z * q \in Nat
    BY <1>1, <1>10
  <2> QED BY <1>1, <2>3, <2>4
<1>12. z * q \in Nat /\ z * n \in Nat
  BY <1>1, <1>10
<1> QED BY <1>1, <1>9, <1>11, <1>12

\* Servable, read by shards.
LEMMA ServableIs ==
  ASSUME case \in Cases
  PROVE  Servable <=> ServableCase(case)
<1> DEFINE c == case
           G(p, m) == {k \in DOMAIN case.stored :
                         /\ case.stored[k].param = p
                         /\ ShardOf(case.stored[k].id) = ShardOf(m)}
           W(p, m) == case.stored[CHOOSE k \in G(p, m) : TRUE].tensor
           Serves(s) ==
             /\ \A p \in Parameters : Cardinality(G(p, case.modules[s + 1])) = 1
             /\ case.replicas[s + 1] = 1
             /\ Covers([b \in Levels |-> W(Indices(b), case.modules[s + 1])], ModuleSize(s))
             /\ \A b \in Levels : \A p \in Rows(b) :
                  Len(W(p, case.modules[s + 1])) = Len(W(Indices(b), case.modules[s + 1]))
<1>1. Servable <=> case.localInput % GroupSize = 0 /\ \A s \in Shards : Serves(s)
  BY DEF Servable
<1>2. Shards = 0 .. (Count(case) - 1)
  BY CaseOperators
<1>3. ASSUME NEW s \in 0 .. (Count(case) - 1)
      PROVE  Serves(s) <=> Sound(case, s)
  <2> DEFINE m == case.modules[s + 1]
  <2>1. ShardOf(m) = s /\ case.ranks \in Nat /\ Size(case, s) \in Nat
    BY CaseFacts
  <2>2. \A p : G(p, m) = Held(case, p, s)
    BY <2>1 DEF Held
  <2>3. \A p : W(p, m) = Value(case, p, s)
    BY <2>2 DEF Value
  <2>4. [b \in Levels |-> W(Indices(b), m)] = IndexTensors(case, s)
    BY <2>3 DEF IndexTensors
  <2>5. Serves(s) <=>
          /\ \A p \in Parameters : Cardinality(Held(case, p, s)) = 1
          /\ case.replicas[s + 1] = 1
          /\ Covers(IndexTensors(case, s), ModuleSize(s))
          /\ \A b \in Levels : \A p \in Rows(b) :
               Len(Value(case, p, s)) = Len(Value(case, Indices(b), s))
    <3> HIDE DEF G, W
    <3> QED BY <2>2, <2>3, <2>4
  <2>6. ASSUME case.replicas[s + 1] = 1 PROVE ModuleSize(s) = Total(case, s)
    <3>1. Share(s) = IF Split(case) THEN 1 ELSE case.ranks
      BY <2>1, <2>6, CaseOperators DEF Share
    <3>2. ModuleSize(s) = Size(case, s) * Share(s)
      BY CaseOperators DEF ModuleSize
    <3> QED BY <2>1, <3>1, <3>2 DEF Total
  <2> HIDE DEF Serves
  <2> QED BY <2>5, <2>6, NotReplicated DEF Sound
<1> HIDE DEF Serves
<1> QED BY <1>1, <1>2, <1>3 DEF ServableCase

(***************************************************************************)
(* The inductive invariant: how far every rank has come.                   *)
(***************************************************************************)
ControlPoints == {"create", "load", "process", "ready", "raised"}

\* Rank r of layer c has read n tensors into h and put s shards together into
\* l; f is the first channel of the next one, p and e are its pc and error.
RankOk(c, r, n, h, s, f, l, p, e) ==
  /\ PiecesOk(c, n, h)
  /\ s \in 0 .. Count(c) /\ f = First(c, s)
  /\ \A t \in 0 .. (s - 1) : Sound(c, t)
  /\ LayerOk(c, r, s, l)
  /\ p \in ControlPoints /\ e # "final"
  /\ p \in {"create", "load"} => s = 0
  /\ p \in {"load", "process", "ready"} \/ s > 0 => c.localInput % GroupSize = 0
  /\ p \in {"process", "ready"} \/ s > 0 => n = Len(c.stored)
  /\ p = "ready" => s = Count(c)
  /\ p = "raised" => ~ServableCase(c)

AtRank(r) == RankOk(case, r, read[r], pieces[r], shard[r], offset[r], layer[r],
                 pc[r], error[r])

LoadInv ==
  /\ case \in Cases
  /\ DOMAIN read = Ranks /\ DOMAIN pieces = Ranks /\ DOMAIN shard = Ranks
  /\ DOMAIN offset = Ranks /\ DOMAIN layer = Ranks
  /\ DOMAIN pc = Ranks /\ DOMAIN error = Ranks
  /\ \A r \in Ranks : AtRank(r)

\* Nothing read, nothing put together.
LEMMA LoadInvInit == Init => LoadInv
<1> SUFFICES ASSUME Init PROVE LoadInv
  OBVIOUS
<1>1. /\ case \in Cases
      /\ DOMAIN read = Ranks /\ DOMAIN pieces = Ranks /\ DOMAIN shard = Ranks
      /\ DOMAIN offset = Ranks /\ DOMAIN layer = Ranks
      /\ DOMAIN pc = Ranks /\ DOMAIN error = Ranks
  BY DEF Init
<1>2. ASSUME NEW r \in Ranks PROVE AtRank(r)
  <2>1. /\ read[r] = 0 /\ pieces[r] = <<>> /\ shard[r] = 0 /\ offset[r] = 0
        /\ pc[r] = "create" /\ error[r] = "none"
        /\ \A p \in Parameters : layer[r][p] = <<>>
    BY DEF Init
  <2>2. Len(case.stored) \in Nat
    BY <1>1, CheckpointsAssumption
  <2>3. PiecesOk(case, 0, <<>>)
    <3>1. 1 .. 0 = {}
      OBVIOUS
    <3>2. DOMAIN <<>> = {}
      OBVIOUS
    <3> QED BY <2>2, <3>1, <3>2 DEF PiecesOk
  <2>4. 0 \in 0 .. Count(case) /\ 0 = First(case, 0)
    BY <1>1, CaseFacts, FirstFacts
  <2>5. LayerOk(case, r, 0, layer[r])
    BY <1>1, <2>1, LayerStarts
  <2>6. 0 .. (0 - 1) = {}
    OBVIOUS
  <2> QED BY <2>1, <2>3, <2>4, <2>5, <2>6 DEF AtRank, RankOk, ControlPoints
<1> QED BY <1>1, <1>2 DEF LoadInv

\* A step of rank r leaves what other ranks have alone.
Elsewhere(x, y, r) == /\ DOMAIN y = DOMAIN x
                      /\ \A q \in DOMAIN x : q # r => y[q] = x[q]

\* So the invariant need only be shown of the rank that moved.
LEMMA OneRank ==
  ASSUME LoadInv, NEW r \in Ranks, case' = case,
         Elsewhere(read, read', r), Elsewhere(pieces, pieces', r),
         Elsewhere(shard, shard', r), Elsewhere(offset, offset', r),
         Elsewhere(layer, layer', r), Elsewhere(pc, pc', r),
         Elsewhere(error, error', r), AtRank(r)'
  PROVE  LoadInv'
<1>1. Ranks' = Ranks
  BY DEF Ranks
<1>2. ASSUME NEW q \in Ranks PROVE AtRank(q)'
  <2>1. CASE q = r
    BY <2>1
  <2>2. CASE q # r
    <3>1. /\ read'[q] = read[q] /\ pieces'[q] = pieces[q] /\ shard'[q] = shard[q]
          /\ offset'[q] = offset[q] /\ layer'[q] = layer[q] /\ pc'[q] = pc[q]
          /\ error'[q] = error[q]
      BY <2>2 DEF LoadInv, Elsewhere
    <3>2. AtRank(q)
      BY DEF LoadInv
    <3> QED BY <3>1, <3>2 DEF AtRank
  <2> QED BY <2>1, <2>2
<1> QED BY <1>1, <1>2 DEF LoadInv, Elsewhere

\* Raising is right when the checkpoint cannot be served.
LEMMA RaiseStep ==
  ASSUME LoadInv, NEW r \in Ranks, NEW what, what # "final", Raise(r, what),
         ~ServableCase(case)
  PROVE  LoadInv'
<1>1. /\ case' = case /\ read' = read /\ pieces' = pieces /\ shard' = shard
      /\ offset' = offset /\ layer' = layer
      /\ pc' = [pc EXCEPT ![r] = "raised"] /\ error' = [error EXCEPT ![r] = what]
  BY DEF Raise
<1>2. AtRank(r) /\ r \in DOMAIN pc /\ r \in DOMAIN error
  BY DEF LoadInv
<1>3. pc'[r] = "raised" /\ error'[r] = what
  BY <1>1, <1>2
<1>4. AtRank(r)'
  BY <1>1, <1>2, <1>3 DEF AtRank, RankOk, ControlPoints
<1>5. Elsewhere(pc, pc', r) /\ Elsewhere(error, error', r)
  BY <1>1 DEF Elsewhere
<1>6. \A x : Elsewhere(x, x, r)
  BY DEF Elsewhere
<1> QED BY <1>1, <1>4, <1>5, <1>6, OneRank

\* Only the pc of a rank moves on.
LEMMA MoveStep ==
  ASSUME LoadInv, NEW r \in Ranks, NEW p \in {"load", "process", "ready"},
         pc' = [pc EXCEPT ![r] = p],
         UNCHANGED <<case, read, pieces, shard, offset, layer, error>>,
         p = "load" => shard[r] = 0,
         case.localInput % GroupSize = 0,
         p \in {"process", "ready"} => read[r] = Len(case.stored),
         p = "ready" => shard[r] = Count(case)
  PROVE  LoadInv'
<1>1. AtRank(r) /\ r \in DOMAIN pc
  BY DEF LoadInv
<1>2. pc'[r] = p
  BY <1>1
<1>3. AtRank(r)'
  BY <1>1, <1>2 DEF AtRank, RankOk, ControlPoints
<1>4. Elsewhere(pc, pc', r)
  BY DEF Elsewhere
<1>5. \A x : Elsewhere(x, x, r)
  BY DEF Elsewhere
<1> QED BY <1>3, <1>4, <1>5, OneRank

\* If the whole input ends inside a group, so does a rank's part of it.
LEMMA CreateStep ==
  ASSUME LoadInv, NEW r \in Ranks, CreateWeights(r)
  PROVE  LoadInv'
<1> DEFINE n == case.localInput
           m == case.input
           k == case.ranks
<1>1. /\ m \in Nat /\ n \in Nat /\ k \in Nat /\ (n = m \/ m = k * n)
  BY CaseFacts DEF LoadInv
<1>2. InputSharded <=> n # m
  BY DEF InputSharded
<1>3. pc[r] = "create" /\ AtRank(r)
  BY DEF CreateWeights, LoadInv
<1>4. shard[r] = 0
  BY <1>3 DEF AtRank, RankOk
<1>5. CASE m % GroupSize = 0 /\ (InputSharded => n % GroupSize = 0)
  <2>1. /\ pc' = [pc EXCEPT ![r] = "load"]
        /\ UNCHANGED <<case, read, pieces, shard, offset, layer, error>>
    BY <1>5 DEF CreateWeights
  <2>2. n % GroupSize = 0
    BY <1>2, <1>5
  <2> QED BY <1>4, <2>1, <2>2, MoveStep
<1>6. CASE ~(m % GroupSize = 0 /\ (InputSharded => n % GroupSize = 0))
  <2>1. Raise(r, "input")
    BY <1>6 DEF CreateWeights
  <2>2. n % GroupSize # 0
    <3> HIDE DEF n, m, k
    <3>1. SUFFICES ASSUME n % GroupSize = 0 PROVE FALSE
      OBVIOUS
    <3>2. m % GroupSize # 0
      BY <1>2, <1>6, <3>1
    <3>3. m = k * n
      BY <1>1, <3>1, <3>2
    <3>4. GroupSize \in Nat \ {0} /\ Multiple(n, GroupSize)
      BY <1>1, <3>1, GroupAssumption, MultipleRemainder
    <3>5. Multiple(m, n)
      BY <1>1, <3>3 DEF Multiple
    <3>6. Multiple(m, GroupSize)
      BY <1>1, <3>4, <3>5, MultipleOfMultiple
    <3> QED BY <1>1, <3>2, <3>4, <3>6, MultipleRemainder
  <2>3. ~ServableCase(case)
    BY <2>2 DEF ServableCase
  <2> QED BY <2>1, <2>3, RaiseStep
<1> QED BY <1>5, <1>6

\* A second tensor for the same shard means that none could serve.
LEMMA PackedLoaderStep ==
  ASSUME LoadInv, NEW r \in Ranks, PackedLoader(r)
  PROVE  LoadInv'
<1> DEFINE n == read[r]
           h == pieces[r]
           t == case.stored[n + 1]
           key == Key(case, n + 1)
<1>1. /\ pc[r] = "load" /\ n < Len(case.stored)
      /\ key = <<t.param, ShardOf(t.id)>>
  BY DEF PackedLoader, Key, At
<1>2. case \in Cases /\ AtRank(r) /\ r \in DOMAIN pieces /\ r \in DOMAIN read
  BY DEF LoadInv
<1>3. PiecesOk(case, n, h)
  BY <1>2 DEF AtRank, RankOk
<1>4. DOMAIN case.stored = 1 .. Len(case.stored) /\ Len(case.stored) \in Nat
  BY <1>2, CheckpointsAssumption
<1>5. n \in Nat /\ n + 1 \in DOMAIN case.stored /\ 1 .. n \subseteq DOMAIN case.stored
  BY <1>1, <1>3, <1>4 DEF PiecesOk
<1>6. CASE key \in DOMAIN h
  <2>1. Raise(r, "twice")
    BY <1>1, <1>6 DEF PackedLoader
  <2>2. PICK k \in 1 .. n : Key(case, k) = key
    BY <1>3, <1>6 DEF PiecesOk
  <2>3. k # n + 1 /\ k \in DOMAIN case.stored
    BY <1>5, <2>2
  <2>4. \E s \in 0 .. (Count(case) - 1) : ~Sound(case, s)
    BY <1>2, <1>5, <2>2, <2>3, TwiceUnsound
  <2> QED BY <2>1, <2>4, RaiseStep DEF ServableCase
<1>7. CASE key \notin DOMAIN h
  <2> DEFINE g == [x \in DOMAIN h \cup {key} |-> IF x = key THEN t.tensor ELSE h[x]]
  <2>1. /\ pieces' = [pieces EXCEPT ![r] = g]
        /\ read' = [read EXCEPT ![r] = n + 1]
        /\ UNCHANGED <<case, shard, offset, layer, pc, error>>
    BY <1>1, <1>7 DEF PackedLoader
  <2>2. pieces'[r] = g /\ read'[r] = n + 1
    BY <1>2, <2>1
  <2>3. PiecesOk(case, n + 1, g)
    <3> HIDE DEF n, h, g, t, key
    <3>1. n + 1 \in 0 .. Len(case.stored)
      BY <1>1, <1>4, <1>5 DEF n
    <3>2. \A k : k \in 1 .. (n + 1) <=> k \in 1 .. n \/ k = n + 1
      BY <1>5
    <3>3. Key(case, n + 1) = key /\ case.stored[n + 1] = t
      BY DEF key, t
    <3>4. DOMAIN g = DOMAIN h \cup {key}
      BY DEF g
    <3>5. /\ DOMAIN h = {Key(case, k) : k \in 1 .. n}
          /\ \A k \in 1 .. n : h[Key(case, k)] = case.stored[k].tensor
          /\ \A j, k \in 1 .. n : Key(case, j) = Key(case, k) => j = k
      BY <1>3 DEF PiecesOk
    <3>6. \A k \in 1 .. n : Key(case, k) \in DOMAIN h /\ Key(case, k) # key
      BY <1>7, <3>5
    <3>7. DOMAIN g = {Key(case, k) : k \in 1 .. (n + 1)}
      BY <3>2, <3>3, <3>4, <3>5
    <3>8. \A k \in 1 .. (n + 1) : g[Key(case, k)] = case.stored[k].tensor
      <4>1. g[key] = t.tensor
        BY DEF g
      <4>2. \A k \in 1 .. n : g[Key(case, k)] = h[Key(case, k)]
        BY <3>6 DEF g
      <4> QED BY <3>2, <3>3, <3>5, <4>1, <4>2
    <3>9. \A j, k \in 1 .. (n + 1) : Key(case, j) = Key(case, k) => j = k
      BY <3>2, <3>3, <3>5, <3>6
    <3> QED BY <3>1, <3>7, <3>8, <3>9 DEF PiecesOk
  <2>4. AtRank(r)'
    <3> HIDE DEF n, h, g, t, key
    <3>1. shard[r] = 0
      BY <1>1, <1>2 DEF AtRank, RankOk
    <3> QED BY <1>1, <1>2, <2>1, <2>2, <2>3, <3>1 DEF AtRank, RankOk
  <2>5. Elsewhere(pieces, pieces', r) /\ Elsewhere(read, read', r)
    BY <2>1 DEF Elsewhere
  <2>6. \A x : Elsewhere(x, x, r)
    BY DEF Elsewhere
  <2> QED BY <2>1, <2>4, <2>5, <2>6, OneRank
<1> QED BY <1>6, <1>7

\* Everything has been read.
LEMMA LoadingEndsStep ==
  ASSUME LoadInv, NEW r \in Ranks, LoadingEnds(r)
  PROVE  LoadInv'
<1>1. /\ pc[r] = "load" /\ read[r] = Len(case.stored)
      /\ pc' = [pc EXCEPT ![r] = "process"]
      /\ UNCHANGED <<case, read, pieces, shard, offset, layer, error>>
  BY DEF LoadingEnds
<1>2. case.localInput % GroupSize = 0
  BY <1>1 DEF LoadInv, AtRank, RankOk
<1> QED BY <1>1, <1>2, MoveStep

\* A shard is refused exactly when it is not sound, and otherwise added.
LEMMA AssembleShardStep ==
  ASSUME LoadInv, NEW r \in Ranks, AssembleShard(r)
  PROVE  LoadInv'
<1> DEFINE s == shard[r]
<1>1. pc[r] = "process" /\ s < Count(case)
  BY DEF AssembleShard, Count
<1>2. /\ case \in Cases /\ AtRank(r)
      /\ r \in DOMAIN layer /\ r \in DOMAIN shard /\ r \in DOMAIN offset
  BY DEF LoadInv
<1>3. /\ PiecesOk(case, Len(case.stored), pieces[r])
      /\ s \in 0 .. Count(case) /\ offset[r] = First(case, s)
      /\ \A t \in 0 .. (s - 1) : Sound(case, t)
      /\ LayerOk(case, r, s, layer[r])
      /\ case.localInput % GroupSize = 0 /\ read[r] = Len(case.stored)
  BY <1>1, <1>2 DEF AtRank, RankOk
<1>4. Count(case) \in Nat /\ s \in Nat /\ s \in 0 .. (Count(case) - 1)
  BY <1>1, <1>2, <1>3, CaseFacts
<1>5. r \in 0 .. (case.ranks - 1)
  BY DEF Ranks
<1>6. Complaint(r, s) = "none" <=> Sound(case, s)
  BY <1>2, <1>3, <1>4, ComplaintSound
<1>7. CASE Complaint(r, s) # "none"
  <2>1. Raise(r, Complaint(r, s))
    BY <1>7 DEF AssembleShard
  <2>2. Complaint(r, s) # "final"
    BY DEF Complaint
  <2>3. ~ServableCase(case)
    BY <1>4, <1>6, <1>7 DEF ServableCase
  <2> QED BY <2>1, <2>2, <2>3, RaiseStep
<1>8. CASE Complaint(r, s) = "none"
  <2> DEFINE l == [p \in Parameters |->
                     layer[r][p] \o Assembled(r, s, LevelOf(p), p)]
  <2>1. /\ layer' = [layer EXCEPT ![r] = l]
        /\ shard' = [shard EXCEPT ![r] = s + 1]
        /\ offset' = [offset EXCEPT ![r] = offset[r] + Size(case, s)]
        /\ UNCHANGED <<case, read, pieces, pc, error>>
    BY <1>2, <1>8, CaseOperators DEF AssembleShard
  <2>2. Sound(case, s)
    BY <1>6, <1>8
  <2> HIDE DEF s
  <2>3. ASSUME NEW b \in Levels
        PROVE  /\ l[Indices(b)] = layer[r][Indices(b)] \o Part(case, r, s, b)
               /\ \A p \in Rows(b) : l[p] = layer[r][p] \o Slices(case, r, s, b, p)
    <3>1. /\ Assembled(r, s, b, Indices(b)) = Part(case, r, s, b)
          /\ \A p \in Rows(b) : Assembled(r, s, b, p) = Slices(case, r, s, b, p)
      BY <1>2, <1>3, <1>4, <1>5, <2>2, AssembledIs
    <3>2. /\ Indices(b) \in Parameters /\ LevelOf(Indices(b)) = b
          /\ \A p \in Rows(b) : p \in Parameters /\ LevelOf(p) = b
      BY ParameterFacts
    <3> QED BY <3>1, <3>2
  <2> HIDE DEF l
  <2>4. LayerOk(case, r, s + 1, l)
    BY <1>2, <1>3, <1>4, <1>5, <2>2, <2>3, LayerGrows
  <2>5. s + 1 \in 0 .. Count(case) /\ s + 1 > 0
        /\ First(case, s + 1) = First(case, s) + Size(case, s)
        /\ \A t \in 0 .. ((s + 1) - 1) : t \in 0 .. (s - 1) \/ t = s
    BY <1>2, <1>4, FirstFacts
  <2>6. layer'[r] = l /\ shard'[r] = s + 1 /\ offset'[r] = First(case, s + 1)
    BY <1>2, <1>3, <2>1, <2>5
  <2>7. \A t \in 0 .. ((s + 1) - 1) : Sound(case, t)
    BY <1>3, <2>2, <2>5
  <2>8. AtRank(r)'
    <3>1. /\ PiecesOk(case, read[r], pieces[r])
          /\ pc[r] \in ControlPoints /\ error[r] # "final"
      BY <1>2 DEF AtRank, RankOk
    <3>2. RankOk(case, r, read[r], pieces[r], s + 1, First(case, s + 1), l,
                 pc[r], error[r])
      BY <1>1, <1>3, <2>4, <2>5, <2>7, <3>1 DEF RankOk
    <3> QED BY <2>1, <2>6, <3>2 DEF AtRank
  <2>9. /\ Elsewhere(layer, layer', r) /\ Elsewhere(shard, shard', r)
        /\ Elsewhere(offset, offset', r)
    BY <2>1 DEF Elsewhere
  <2>10. \A x : Elsewhere(x, x, r)
    BY DEF Elsewhere
  <2> QED BY <2>1, <2>8, <2>9, <2>10, OneRank
<1> QED BY <1>7, <1>8

\* The last validation finds the partition that the shards made.
LEMMA FinishStep ==
  ASSUME LoadInv, NEW r \in Ranks, Finish(r)
  PROVE  LoadInv'
<1> DEFINE x == IndexFamily(layer[r])
<1>1. pc[r] = "process" /\ shard[r] = Count(case)
  BY DEF Finish, Count
<1>2. case \in Cases /\ AtRank(r)
  BY DEF LoadInv
<1>3. /\ offset[r] = First(case, Count(case)) /\ LayerOk(case, r, Count(case), layer[r])
      /\ case.localInput % GroupSize = 0 /\ read[r] = Len(case.stored)
  BY <1>1, <1>2 DEF AtRank, RankOk
<1>4. First(case, Count(case)) \in Nat
  BY <1>2, CaseFacts, FirstFacts
<1>5. Family(x) /\ Placed(x, First(case, Count(case)))
  BY <1>3 DEF LayerOk, Family, IndexFamily
<1>6. Covers(x, offset[r])
  BY <1>3, <1>4, <1>5, CoversPlaced
<1>7. /\ pc' = [pc EXCEPT ![r] = "ready"]
      /\ UNCHANGED <<case, read, pieces, shard, offset, layer, error>>
  BY <1>6 DEF Finish, IndexFamily
<1> QED BY <1>1, <1>3, <1>7, MoveStep

\* Every step of every rank keeps the invariant.
LEMMA LoadInvStep == LoadInv /\ [Next]_vars => LoadInv'
<1> SUFFICES ASSUME LoadInv, [Next]_vars PROVE LoadInv'
  OBVIOUS
<1>1. ASSUME NEW r \in Ranks, Step(r) PROVE LoadInv'
  BY <1>1, CreateStep, PackedLoaderStep, LoadingEndsStep, AssembleShardStep,
     FinishStep DEF Step
<1>2. CASE UNCHANGED vars
  BY <1>2 DEF vars, LoadInv, AtRank, Ranks
<1> QED BY <1>1, <1>2 DEF Next

\* So it always holds.
LEMMA LoadInvAlways == Spec => []LoadInv
BY LoadInvInit, LoadInvStep, PTL DEF Spec

\* The validation that follows the replacement of a layer's parameters never
\* raises, so none is left half converted.
THEOREM FinalCheckAlwaysHolds == Spec => []FinalCheckHolds
<1>1. LoadInv => FinalCheckHolds
  BY DEF LoadInv, AtRank, RankOk, FinalCheckHolds
<1> QED BY <1>1, LoadInvAlways, PTL

\* A rank serves the checkpoints that can be served and raises on all others,
\* and so do all other ranks.
THEOREM RanksServeTheServable == Spec => []ServedIffServable
<1>1. LoadInv => ServedIffServable
  <2> SUFFICES ASSUME LoadInv, NEW r \in Ranks
               PROVE  /\ pc[r] = "ready"  => Servable
                      /\ pc[r] = "raised" => ~Servable
    BY DEF ServedIffServable
  <2>1. case \in Cases /\ AtRank(r)
    BY DEF LoadInv
  <2>2. Servable <=> ServableCase(case)
    BY <2>1, ServableIs
  <2>3. pc[r] = "ready" => ServableCase(case)
    BY <2>1 DEF AtRank, RankOk, ServableCase
  <2> QED BY <2>1, <2>2, <2>3 DEF AtRank, RankOk
<1> QED BY <1>1, LoadInvAlways, PTL

(***************************************************************************)
(* What a loaded rank holds.                                               *)
(***************************************************************************)
\* A rank that is ready has put all shards of a servable checkpoint together.
LEMMA ReadyFacts ==
  ASSUME LoadInv, NEW r \in Ranks, pc[r] = "ready"
  PROVE  /\ LayerOk(case, r, Count(case), layer[r]) /\ Whole(case)
         /\ \A s \in 0 .. (Count(case) - 1) : Sound(case, s)
<1>1. case \in Cases /\ AtRank(r)
  BY DEF LoadInv
<1>2. /\ LayerOk(case, r, Count(case), layer[r])
      /\ \A s \in 0 .. (Count(case) - 1) : Sound(case, s)
  BY <1>1 DEF AtRank, RankOk
<1>3. ASSUME NEW s \in 0 .. (Count(case) - 1)
      PROVE  \E k \in DOMAIN case.stored : ShardOf(case.stored[k].id) = s
  <2>1. Indices(4) \in Parameters
    BY ParameterFacts DEF Levels
  <2>2. PICK k : Held(case, Indices(4), s) = {k}
    BY <1>1, <1>2, <2>1, SoundFacts
  <2>3. k \in DOMAIN case.stored /\ ShardOf(case.stored[k].id) = s
    <3> DEFINE q == Indices(4)
    <3>1. Held(case, q, s) = {k}
      BY <2>2
    <3> HIDE DEF q
    <3> QED BY <3>1, OnlyTensor
  <2> QED BY <2>3
<1> QED BY <1>2, <1>3 DEF Whole

\* Every row of a loaded rank holds the channel and the columns its index
\* entry names (narrowing cuts index tensors and packed tensors alike).
THEOREM LoadedRowsFollowIndices == Spec => []RowsFollowIndices
<1>1. LoadInv => RowsFollowIndices
  <2> SUFFICES ASSUME LoadInv, NEW r \in Ranks, pc[r] = "ready",
                      NEW b \in Levels, NEW p \in Rows(b)
               PROVE  LET index == layer[r][Indices(b)]
                          rows  == layer[r][p]
                      IN /\ Len(rows) = Len(index)
                         /\ \A k \in DOMAIN index : \A s \in Shards :
                              index[k] \in FirstOutput(s)
                                             .. (FirstOutput(s) + LocalOutput(s) - 1)
                              => /\ rows[k].of = case.modules[s + 1]
                                 /\ rows[k].channel = Owned(r, s) + index[k] - FirstOutput(s)
                                 /\ Covered(p, rows[k]) = Columns(r)
    BY DEF RowsFollowIndices
  <2> DEFINE index == layer[r][Indices(b)]
             rows  == layer[r][p]
  <2>1. /\ case \in Cases /\ LayerOk(case, r, Count(case), layer[r]) /\ Whole(case)
        /\ \A s \in 0 .. (Count(case) - 1) : Sound(case, s)
    BY ReadyFacts DEF LoadInv
  <2>2. /\ index \in Seq(Int) /\ Len(rows) = Len(index)
        /\ Follow(case, r, Count(case), p, index, rows)
    BY <2>1 DEF LayerOk
  <2> HIDE DEF index, rows
  <2>3. ASSUME NEW k \in DOMAIN index, NEW s \in Shards,
               index[k] \in FirstOutput(s) .. (FirstOutput(s) + LocalOutput(s) - 1)
        PROVE  /\ rows[k].of = case.modules[s + 1]
               /\ rows[k].channel = Owned(r, s) + index[k] - FirstOutput(s)
               /\ Covered(p, rows[k]) = Columns(r)
    <3>1. s \in 0 .. (Count(case) - 1)
      BY <2>1, CaseOperators
    <3>2. FirstOutput(s) = First(case, s) /\ LocalOutput(s) = Size(case, s)
      BY <2>1, CaseOperators
    <3>3. First(case, s) \in Nat /\ Size(case, s) \in Nat
      BY <2>1, <3>1, CaseFacts, FirstFacts
    <3>4. InShard(case, s, index[k])
      BY <2>3, <3>2, <3>3 DEF InShard
    <3>5. Fits(case, r, s, p, index[k], rows[k])
      BY <2>2, <3>1, <3>4 DEF Follow
    <3>6. case.replicas[s + 1] = 1
      BY <2>1, <3>1, NotReplicated
    <3>7. Owned(r, s) = Start(case, r, s)
      <4>1. r \in Nat /\ r \div 1 = r
        BY <2>1, CaseFacts DEF Ranks
      <4> QED BY <2>1, <3>6, <4>1, CaseOperators DEF Owned, Start
    <3>8. Columns(r) = InputColumns(case, r)
      BY <2>1, CaseOperators
    <3> QED BY <3>2, <3>5, <3>7, <3>8 DEF Fits, Channel
  <2> QED BY <2>2, <2>3 DEF index, rows
<1> QED BY <1>1, LoadInvAlways, PTL

\* Moving there and back changes nothing.
LEMMA MovedBack ==
  ASSUME NEW x \in Seq(Int), NEW d \in Int, NEW e \in Int, d + e = 0
  PROVE  Moved(Moved(x, d), e) = x
<1> DEFINE y == Moved(x, d)
<1>1. y \in Seq(Int) /\ DOMAIN y = DOMAIN x /\ \A k \in DOMAIN x : y[k] = x[k] + d
  BY MovedFacts
<1> HIDE DEF y
<1>2. \A k \in DOMAIN x : x[k] \in Int
  BY EntriesOf
<1>3. ASSUME NEW k \in DOMAIN x PROVE y[k] + e = x[k]
  <2>1. x[k] \in Int /\ y[k] = x[k] + d
    BY <1>1, <1>2
  <2> DEFINE a == x[k]
             c == y[k]
  <2>2. a \in Int /\ c = a + d
    BY <2>1
  <2> HIDE DEF a, c
  <2>3. c + e = a
    BY <2>2
  <2> QED BY <2>3 DEF a, c
<1>4. x = [k \in DOMAIN x |-> x[k]]
  OBVIOUS
<1>5. Moved(y, e) = [k \in DOMAIN x |-> y[k] + e]
  BY <1>1 DEF Moved
<1> QED BY <1>3, <1>4, <1>5 DEF y

\* The patch's own arithmetic gives a rank the local indices that the package's
\* remap_partition_indices_for_tp gives it, and restore_global_partition_indices
\* undoes it.
THEOREM LoadedIndicesAreRemapped == Spec => []LocalIndicesAsRemapped
<1>1. LoadInv => LocalIndicesAsRemapped
  <2> SUFFICES ASSUME LoadInv, NEW r \in Ranks, NEW s \in 0 .. (shard[r] - 1)
               PROVE  LET size   == LocalOutput(s)
                          start  == r * size
                          stored == Partition(r, s)
                          mine   == [b \in Levels |->
                                       Within(layer[r][Indices(b)], FirstOutput(s), size)]
                          local  == [b \in Levels |-> Moved(mine[b], -FirstOutput(s))]
                      IN IF InputSharded THEN local = stored
                         ELSE /\ local = RemapPartitionIndices(stored, GlobalOutput(s),
                                                               start, size)
                              /\ RestoreGlobalPartitionIndices(local, start, size)
                                   = [b \in Levels |-> Within(stored[b], start, size)]
    BY DEF LocalIndicesAsRemapped
  <2> DEFINE size   == LocalOutput(s)
             start  == r * size
             stored == Partition(r, s)
             f      == FirstOutput(s)
             total  == GlobalOutput(s)
             mine   == [b \in Levels |-> Within(layer[r][Indices(b)], f, size)]
             local  == [b \in Levels |-> Moved(mine[b], -f)]
             L      == Local(case, r, s)
             x      == IndexTensors(case, s)
  <2>1. case \in Cases /\ AtRank(r) /\ r \in 0 .. (case.ranks - 1)
    BY DEF LoadInv, Ranks
  <2>2. /\ PiecesOk(case, Len(case.stored), pieces[r])
        /\ Sound(case, s) /\ shard[r] \in 0 .. Count(case)
        /\ \A b \in Levels : Within(layer[r][Indices(b)], First(case, s), Size(case, s))
                               = Part(case, r, s, b)
    <3>1. Count(case) \in Nat
      BY <2>1, CaseFacts
    <3>2. shard[r] \in 0 .. Count(case)
      BY <2>1 DEF AtRank, RankOk
    <3>3. shard[r] > 0
      BY <3>1, <3>2
    <3> QED BY <2>1, <3>2, <3>3 DEF AtRank, RankOk, LayerOk
  <2>3. s \in 0 .. (Count(case) - 1)
    BY <2>1, <2>2, CaseFacts
  <2>4. size = Size(case, s) /\ f = First(case, s) /\ total = Total(case, s)
    BY <2>1, CaseOperators
  <2>5. /\ Family(L) /\ Placed(L, size)
        /\ Family(x) /\ Placed(x, total) /\ \A b \in Levels : x[b] \in Seq(Int)
    BY <2>1, <2>2, <2>3, <2>4, LocalFacts, SoundFacts DEF Family
  <2>6. stored = x
    <3>1. \A b \in Levels : Indices(b) \in Parameters
      BY ParameterFacts
    <3>2. \A b \in Levels : pieces[r][At(Indices(b), s)] = Value(case, Indices(b), s)
      <4>1. \A p \in Parameters : Single(case, p, s)
        BY <2>1, <2>2, <2>3, SoundFacts DEF Single
      <4>2. \A p \in Parameters : pieces[r][At(p, s)] = Value(case, p, s)
        BY <2>1, <2>2, <4>1, AllRead
      <4> QED BY <3>1, <4>2
    <3>3. \A b \in Levels : Loaded(r, Indices(b), s) = Value(case, Indices(b), s)
      BY <3>2 DEF Loaded, At
    <3> QED BY <3>3 DEF Partition, IndexTensors
  <2>7. f \in Nat /\ size \in Nat /\ size > 0 /\ total \in Nat
    BY <2>1, <2>3, <2>4, FirstFacts, RangeFits, CaseFacts
  <2>8. local = L
    <3>1. \A b \in Levels : mine[b] = Moved(L[b], f)
      BY <2>2, <2>4 DEF Part
    <3> HIDE DEF mine, f, L
    <3>2. -f \in Int /\ f \in Int /\ f + (-f) = 0
      BY <2>7
    <3>3. \A b \in Levels : L[b] \in Seq(Int)
      BY <2>5 DEF Family
    <3>4. \A b \in Levels : Moved(mine[b], -f) = L[b]
      BY <3>1, <3>2, <3>3, MovedBack
    <3>5. local = [b \in Levels |-> L[b]]
      BY <3>4
    <3>6. L = [b \in Levels |-> L[b]]
      BY DEF L, Local
    <3> QED BY <3>5, <3>6
  <2>9. L = [b \in Levels |-> Moved(Within(x[b], Start(case, r, s), Size(case, s)),
                                    -Start(case, r, s))]
    BY DEF Local, Index, IndexTensors
  <2>10. CASE InputSharded
    <3>1. Start(case, r, s) = 0 /\ total = size
      BY <2>1, <2>4, <2>10, CaseOperators DEF Start, Total
    <3> DEFINE a == Start(case, r, s)
               e == -a
    <3>2. L = [b \in Levels |-> Moved(Within(x[b], 0, size), e)]
      BY <2>4, <2>9, <3>1
    <3>3. e = 0
      <4>1. a = 0
        BY <3>1
      <4>2. a \in Int
        BY <4>1
      <4> HIDE DEF a
      <4>3. e \in Int /\ a + e = 0
        BY <4>2
      <4> HIDE DEF e
      <4> QED BY <4>1, <4>2, <4>3
    <3> HIDE DEF L, x, size, total, e
    <3>4. ASSUME NEW b \in Levels PROVE Moved(Within(x[b], 0, size), e) = x[b]
      <4>1. \A k \in DOMAIN x[b] : 0 <= x[b][k] /\ x[b][k] < 0 + size
        BY <2>5, <2>7, <3>1 DEF Placed
      <4>2. Within(x[b], 0, size) = x[b]
        BY <2>5, <2>7, <4>1, WithinAll
      <4>3. Moved(x[b], 0) = x[b]
        <5>1. \A k \in DOMAIN x[b] : x[b][k] \in Int
          BY <2>5, EntriesOf
        <5>2. Moved(x[b], 0) = [k \in DOMAIN x[b] |-> x[b][k] + 0]
          BY DEF Moved
        <5>3. Moved(x[b], 0) = [k \in DOMAIN x[b] |-> x[b][k]]
          BY <5>1, <5>2
        <5>4. x[b] = [k \in DOMAIN x[b] |-> x[b][k]]
          BY <2>5
        <5> QED BY <5>3, <5>4
      <4> QED BY <3>3, <4>2, <4>3
    <3>5. x = [b \in Levels |-> x[b]]
      BY DEF x, IndexTensors
    <3>6. L = x
      BY <3>2, <3>4, <3>5
    <3> HIDE DEF local, stored
    <3> QED BY <2>6, <2>8, <2>10, <3>6 DEF L, x, local, stored, mine, f, size
  <2>11. CASE ~InputSharded
    <3>1. Start(case, r, s) = start
      BY <2>1, <2>4, <2>11, CaseOperators DEF Start
    <3>2. start \in Nat /\ start + size <= total
      BY <2>1, <2>3, <2>4, <3>1, RangeFits
    <3>3. L = [b \in Levels |-> Moved(Within(x[b], start, size), -start)]
      BY <2>4, <2>9, <3>1
    <3> HIDE DEF L, x, size, total, start, local, stored
    <3>4. Covers(x, total) /\ Covers(L, size)
      BY <2>5, <2>7, CoversPlaced
    <3>5. local = RemapPartitionIndices(stored, total, start, size)
      <4>1. RemapPartitionIndices(x, total, start, size) = L
        BY <2>7, <3>2, <3>3, <3>4 DEF RemapPartitionIndices
      <4> QED BY <2>6, <2>8, <4>1
    <3>6. RestoreGlobalPartitionIndices(local, start, size)
            = [b \in Levels |-> Within(stored[b], start, size)]
      <4>1. RestoreGlobalPartitionIndices(L, start, size)
              = [b \in Levels |-> Moved(L[b], start)]
        BY <3>2, <3>4 DEF RestoreGlobalPartitionIndices
      <4>2. ASSUME NEW b \in Levels PROVE Moved(L[b], start) = Within(x[b], start, size)
        <5> DEFINE w == Within(x[b], start, size)
                   d == -start
        <5>1. w \in Seq(Int)
          <6>1. start \in Int /\ size \in Int
            BY <2>7, <3>2
          <6> QED BY <2>5, <6>1, WithinFacts
        <5>2. L[b] = Moved(w, d)
          BY <3>3
        <5>3. d \in Int /\ start \in Int /\ d + start = 0
          BY <3>2
        <5> HIDE DEF w, d
        <5>4. Moved(Moved(w, d), start) = w
          BY <5>1, <5>3, MovedBack
        <5> QED BY <5>2, <5>4 DEF w
      <4> QED BY <2>6, <2>8, <4>1, <4>2
    <3> QED BY <2>11, <3>5, <3>6 DEF local, stored, mine, f, size, start, total
  <2> QED BY <2>10, <2>11
<1> QED BY <1>1, LoadInvAlways, PTL

(***************************************************************************)
(* Who holds a weight.                                                     *)
(***************************************************************************)
\* A number lies in the block of its quotient, and in no other.
LEMMA BlockOf ==
  ASSUME NEW x \in Nat, NEW d \in Nat \ {0}
  PROVE  /\ \A r \in Nat : r * d <= x /\ x < r * d + d <=> r = x \div d
         /\ \A n \in Nat : x < n * d => x \div d < n
         /\ x \div d \in Nat
<1> DEFINE q == x \div d
           e == x % d
<1>1. q \in Nat /\ e \in 0 .. (d - 1) /\ x = d * q + e
  BY Division
<1> HIDE DEF q, e
<1>2. q * d = d * q /\ q * d \in Nat
  BY <1>1
<1>3. q * d <= x /\ x < q * d + d
  BY <1>1, <1>2
<1>4. ASSUME NEW n \in Nat, x < n * d PROVE q < n
  <2>1. n * d = d * n /\ d * n \in Nat
    BY <1>4
  <2>2. d * q < d * n
    BY <1>2, <1>3, <1>4, <2>1
  <2> QED BY <1>1, <2>2, Quotient
<1>5. ASSUME NEW r \in Nat, r * d <= x, x < r * d + d PROVE r = q
  <2>1. (r + 1) * d = r * d + d /\ (q + 1) * d = q * d + d
    BY <1>1
  <2>2. q < r + 1
    BY <1>4, <1>5, <2>1
  <2>3. d * r < d * (q + 1)
    <3>1. d * r = r * d /\ d * (q + 1) = (q + 1) * d /\ r * d \in Nat
      BY <1>1
    <3> QED BY <1>2, <1>3, <1>5, <2>1, <3>1
  <2>4. r < q + 1
    BY <1>1, <2>3, Quotient
  <2> QED BY <1>1, <2>2, <2>4
<1> QED BY <1>1, <1>3, <1>4, <1>5 DEF q

\* The rank that holds column col of channel ch of shard s, and the entry of
\* its index tensors that names the channel.
Owner(c, s, ch, col) == IF Split(c) THEN col \div c.localInput ELSE ch \div Size(c, s)
Entry(c, s, ch, col) == First(c, s) + ch - Start(c, Owner(c, s, ch, col), s)

\* Rank r names channel ch by entry v and multiplies column col.
NamesWeight(c, r, s, v, ch, col) ==
  InShard(c, s, v) /\ Channel(c, r, s, v) = ch /\ col \in InputColumns(c, r)

\* Owner and Entry are the only rank and the only entry that hold the weight.
LEMMA OwnerFacts ==
  ASSUME NEW c \in Cases, NEW s \in 0 .. (Count(c) - 1),
         NEW ch \in 0 .. (Total(c, s) - 1), NEW col \in 0 .. (c.input - 1)
  PROVE  /\ Owner(c, s, ch, col) \in 0 .. (c.ranks - 1)
         /\ Entry(c, s, ch, col) \in Int
         /\ NamesWeight(c, Owner(c, s, ch, col), s, Entry(c, s, ch, col), ch, col)
         /\ \A r \in 0 .. (c.ranks - 1) : \A v \in Int :
              NamesWeight(c, r, s, v, ch, col) =>
                r = Owner(c, s, ch, col) /\ v = Entry(c, s, ch, col)
<1> DEFINE L == c.localInput
           z == Size(c, s)
           n == c.ranks
           f == First(c, s)
           o == Owner(c, s, ch, col)
<1>1. /\ L \in Nat \ {0} /\ z \in Nat \ {0} /\ n \in Nat /\ c.input \in Nat
      /\ (L = c.input \/ c.input = n * L)
  BY CaseFacts
<1>2. f \in Nat
  BY CaseFacts, FirstFacts
<1>3. CASE Split(c)
  <2>1. L # c.input /\ c.input = n * L /\ Total(c, s) = z
    BY <1>1, <1>3 DEF Split, Total
  <2>2. /\ \A r : Start(c, r, s) = 0
        /\ \A r : InputColumns(c, r) = (r * L) .. ((r + 1) * L - 1)
        /\ o = col \div L
    BY <1>3 DEF Start, InputColumns, Owner
  <2> HIDE DEF L, z, n, f, o
  <2>3. col \in Nat /\ col < n * L /\ ch \in Nat /\ ch < z
    <3>1. col \in Nat /\ col < c.input
      BY <1>1
    <3>2. ch \in 0 .. (z - 1)
      BY <2>1
    <3> QED BY <1>1, <2>1, <3>1, <3>2
  <2>4. /\ \A r \in Nat : r * L <= col /\ col < r * L + L <=> r = o
        /\ o \in Nat /\ o < n
    BY <1>1, <2>2, <2>3, BlockOf
  <2>5. \A r \in Nat : col \in InputColumns(c, r) <=> r = o
    <3>1. ASSUME NEW r \in Nat
          PROVE  col \in (r * L) .. ((r + 1) * L - 1) <=> r * L <= col /\ col < r * L + L
      <4> DEFINE y == r * L
      <4>1. y \in Nat /\ (r + 1) * L = y + L
        BY <1>1
      <4> HIDE DEF y
      <4> QED BY <1>1, <2>3, <4>1 DEF y
    <3> QED BY <2>2, <2>4, <3>1
  <2>6. Entry(c, s, ch, col) = f + ch
    <3>1. Entry(c, s, ch, col) = f + ch - 0
      BY <2>2 DEF Entry, f, o
    <3> QED BY <1>2, <2>3, <3>1
  <2>7. ASSUME NEW r \in Nat, NEW v \in Int
        PROVE  NamesWeight(c, r, s, v, ch, col) <=> r = o /\ v = f + ch
    <3>1. Channel(c, r, s, v) = 0 + v - f
      BY <2>2 DEF Channel, f
    <3>2. InShard(c, s, v) <=> f <= v /\ v < f + z
      BY DEF InShard, f, z
    <3>3. NamesWeight(c, r, s, v, ch, col) <=>
            (f <= v /\ v < f + z) /\ 0 + v - f = ch /\ r = o
      BY <2>5, <3>1, <3>2 DEF NamesWeight
    <3>4. (f <= v /\ v < f + z) /\ 0 + v - f = ch <=> v = f + ch
      BY <1>1, <1>2, <2>3
    <3> QED BY <3>3, <3>4
  <2>8. o \in 0 .. (n - 1) /\ \A r \in 0 .. (n - 1) : r \in Nat
    BY <1>1, <2>4
  <2>9. f + ch \in Int
    BY <1>2, <2>3
  <2> QED BY <2>4, <2>6, <2>7, <2>8, <2>9 DEF o, n
<1>4. CASE ~Split(c)
  <2>1. L = c.input /\ Total(c, s) = z * n
    BY <1>4 DEF Split, Total
  <2>2. /\ \A r : Start(c, r, s) = r * z
        /\ \A r : InputColumns(c, r) = 0 .. (c.input - 1)
        /\ o = ch \div z
    BY <1>4 DEF Start, InputColumns, Owner
  <2> HIDE DEF L, z, n, f, o
  <2>3. ch \in Nat /\ ch < n * z
    <3>1. z * n \in Nat /\ z * n = n * z
      BY <1>1
    <3>2. ch \in 0 .. (z * n - 1)
      BY <2>1
    <3> HIDE DEF z
    <3> QED BY <3>1, <3>2
  <2>4. /\ \A r \in Nat : r * z <= ch /\ ch < r * z + z <=> r = o
        /\ o \in Nat /\ o < n
    BY <1>1, <2>2, <2>3, BlockOf
  <2>5. \A r : col \in InputColumns(c, r)
    BY <2>2
  <2>6. Entry(c, s, ch, col) = f + ch - o * z
    BY <2>2 DEF Entry, f, o
  <2>7. ASSUME NEW r \in Nat, NEW v \in Int
        PROVE  NamesWeight(c, r, s, v, ch, col) <=> r = o /\ v = f + ch - o * z
    <3>1. Channel(c, r, s, v) = r * z + v - f
      BY <2>2 DEF Channel, f
    <3>2. InShard(c, s, v) <=> f <= v /\ v < f + z
      BY DEF InShard, f, z
    <3>3. NamesWeight(c, r, s, v, ch, col) <=>
            (f <= v /\ v < f + z) /\ r * z + v - f = ch
      BY <2>5, <3>1, <3>2 DEF NamesWeight
    <3> DEFINE y == r * z
    <3>4. y \in Nat
      BY <1>1
    <3>5. y <= ch /\ ch < y + z <=> r = o
      BY <2>4
    <3>6. NamesWeight(c, r, s, v, ch, col) <=> (f <= v /\ v < f + z) /\ y + v - f = ch
      BY <3>3
    <3> HIDE DEF y
    <3>7. (f <= v /\ v < f + z) /\ y + v - f = ch
            <=> (y <= ch /\ ch < y + z) /\ v = f + ch - y
      BY <1>1, <1>2, <2>3, <3>4
    <3>8. r = o => y = o * z
      BY DEF y
    <3> QED BY <3>5, <3>6, <3>7, <3>8
  <2>8. o \in 0 .. (n - 1) /\ \A r \in 0 .. (n - 1) : r \in Nat
    BY <1>1, <2>4
  <2>9. f + ch - o * z \in Int
    BY <1>1, <1>2, <2>3, <2>4
  <2> QED BY <2>4, <2>6, <2>7, <2>8, <2>9 DEF o, n
<1> QED BY <1>3, <1>4

\* The packed weights of a precision.
WeightOf(b) == CASE b = 4  -> "weight_int4"
                 [] b = 8  -> "weight_int8"
                 [] b = 16 -> "weight_fp16"
Weights == {"weight_int4", "weight_int8", "weight_fp16"}

\* Each precision has one tensor of packed weights.
LEMMA WeightFacts ==
  /\ \A b \in Levels : WeightOf(b) \in Rows(b) /\ WeightOf(b) \in Weights
  /\ \A p \in Weights : \E b \in Levels : p = WeightOf(b)
<1>1. /\ WeightOf(4) = "weight_int4" /\ WeightOf(8) = "weight_int8"
      /\ WeightOf(16) = "weight_fp16"
  BY DEF WeightOf
<1> QED BY <1>1 DEF Levels, Rows, Weights

\* A row of layer l holds column col of channel ch of shard s.
Holds(c, l, p, k, s, ch, col) ==
  /\ l[p][k].of = c.modules[s + 1] /\ l[p][k].channel = ch
  /\ col \in Covered(p, l[p][k])

\* It does so exactly when the rank names the channel by the same entry.
LEMMA HoldsIs ==
  ASSUME NEW c \in Cases, NEW r \in 0 .. (c.ranks - 1), NEW l,
         LayerOk(c, r, Count(c), l), Whole(c), NEW b \in Levels,
         NEW k \in DOMAIN l[Indices(b)], NEW s \in 0 .. (Count(c) - 1), NEW ch, NEW col
  PROVE  /\ l[Indices(b)][k] \in Int
         /\ Holds(c, l, WeightOf(b), k, s, ch, col)
              <=> NamesWeight(c, r, s, l[Indices(b)][k], ch, col)
<1> DEFINE v == l[Indices(b)][k]
           p == WeightOf(b)
           row == l[p][k]
<1>1. Count(c) \in Nat /\ First(c, Count(c)) \in Nat
  BY CaseFacts, FirstFacts
<1>2. v \in 0 .. (First(c, Count(c)) - 1)
  <2>1. Placed(IndexFamily(l), First(c, Count(c))) /\ IndexFamily(l)[b] = l[Indices(b)]
    BY DEF LayerOk, IndexFamily
  <2> QED BY <2>1 DEF Placed
<1>3. v \in Nat /\ v \in Int /\ v < First(c, Count(c))
  <2> HIDE DEF v
  <2> QED BY <1>1, <1>2
<1>4. p \in Rows(b)
  BY WeightFacts
<1>5. \A t \in 0 .. (Count(c) - 1) : InShard(c, t, v) => Fits(c, r, t, p, v, row)
  BY <1>4 DEF LayerOk, Follow
<1> HIDE DEF v, row
<1>6. PICK t \in 0 .. (Count(c) - 1) : InShard(c, t, v)
  BY <1>1, <1>3, FirstFacts
<1>7. Fits(c, r, t, p, v, row)
  BY <1>5, <1>6
<1>8. ShardOf(c.modules[t + 1]) = t /\ ShardOf(c.modules[s + 1]) = s
  BY CaseFacts
<1>9. ASSUME NamesWeight(c, r, s, v, ch, col) PROVE Holds(c, l, p, k, s, ch, col)
  <2>1. Fits(c, r, s, p, v, row)
    BY <1>5, <1>9 DEF NamesWeight
  <2> QED BY <1>9, <2>1 DEF Fits, NamesWeight, Holds, row
<1>10. ASSUME Holds(c, l, p, k, s, ch, col) PROVE NamesWeight(c, r, s, v, ch, col)
  <2>1. row.of = c.modules[s + 1] /\ row.channel = ch /\ col \in Covered(p, row)
    BY <1>10 DEF Holds, row
  <2>2. t = s
    BY <1>7, <1>8, <2>1 DEF Fits
  <2> QED BY <1>6, <1>7, <2>1, <2>2 DEF Fits, NamesWeight
<1> QED BY <1>3, <1>9, <1>10 DEF v

\* A weight of a rank: its parameter and its row.
Copy(r, p, k) == <<r, p, k>>

\* When all ranks are ready, each weight of each module is held once.
THEOREM LoadedWeightsHeldOnce == Spec => []EveryWeightOnce
<1>1. LoadInv => EveryWeightOnce
  <2> SUFFICES ASSUME LoadInv, \A r \in Ranks : pc[r] = "ready",
                      NEW s \in Shards, NEW ch \in 0 .. (ModuleSize(s) - 1),
                      NEW col \in 0 .. (case.input - 1)
               PROVE  case.replicas[s + 1] = Cardinality(
                        UNION {UNION {{<<r, p, k>> : k \in {j \in DOMAIN layer[r][p] :
                                  LET row == layer[r][p][j]
                                  IN /\ row.of = case.modules[s + 1] /\ row.channel = ch
                                     /\ col \in Covered(p, row)}} :
                                p \in {"weight_int4", "weight_int8", "weight_fp16"}} :
                               r \in Ranks})
    BY DEF EveryWeightOnce
  <2> DEFINE H(r, p) == {j \in DOMAIN layer[r][p] :
                           LET row == layer[r][p][j]
                           IN /\ row.of = case.modules[s + 1] /\ row.channel = ch
                              /\ col \in Covered(p, row)}
             U == UNION {UNION {{<<r, p, k>> : k \in H(r, p)} :
                    p \in {"weight_int4", "weight_int8", "weight_fp16"}} : r \in Ranks}
             o == Owner(case, s, ch, col)
             v == Entry(case, s, ch, col)
  <2>1. /\ case \in Cases /\ s \in 0 .. (Count(case) - 1)
        /\ Ranks = 0 .. (case.ranks - 1)
    BY CaseOperators DEF LoadInv
  <2>2. ASSUME NEW r \in Ranks
        PROVE  /\ LayerOk(case, r, Count(case), layer[r]) /\ Whole(case)
               /\ Sound(case, s)
    BY <2>1, ReadyFacts
  <2>3. case.ranks \in Nat /\ case.ranks > 0 /\ Size(case, s) \in Nat
    BY <2>1, CaseFacts
  <2>4. Sound(case, s)
    <3>1. 0 \in Ranks
      BY <2>1, <2>3
    <3> QED BY <2>2, <3>1
  <2>5. case.replicas[s + 1] = 1
    BY <2>1, <2>4, NotReplicated
  <2>6. ModuleSize(s) = Total(case, s)
    <3>1. case.ranks \div 1 = case.ranks
      BY <2>3
    <3>2. Share(s) = IF Split(case) THEN 1 ELSE case.ranks
      BY <2>1, <2>5, <3>1, CaseOperators DEF Share
    <3>3. ModuleSize(s) = Size(case, s) * Share(s)
      BY <2>1, CaseOperators DEF ModuleSize
    <3> QED BY <2>3, <3>2, <3>3 DEF Total
  <2>7. /\ o \in 0 .. (case.ranks - 1) /\ v \in Int
        /\ NamesWeight(case, o, s, v, ch, col)
        /\ \A r \in 0 .. (case.ranks - 1) : \A e \in Int :
             NamesWeight(case, r, s, e, ch, col) => r = o /\ e = v
    <3>1. ch \in 0 .. (Total(case, s) - 1)
      BY <2>6
    <3> QED BY <2>1, <3>1, OwnerFacts
  <2> HIDE DEF o, v
  <2>8. \A x : x \in U <=> \E r \in Ranks : \E p \in Weights :
                             \E k \in H(r, p) : x = Copy(r, p, k)
    BY DEF Copy, Weights
  <2>9. \A r, p, k : k \in H(r, p) <=>
                       k \in DOMAIN layer[r][p] /\ Holds(case, layer[r], p, k, s, ch, col)
    BY DEF Holds
  <2> HIDE DEF H, U
  <2>10. ASSUME NEW r \in Ranks, NEW b \in Levels
         PROVE  \A k : k \in H(r, WeightOf(b)) <=>
                  /\ k \in DOMAIN layer[r][Indices(b)]
                  /\ NamesWeight(case, r, s, layer[r][Indices(b)][k], ch, col)
    <3> DEFINE l == layer[r]
               p == WeightOf(b)
    <3>1. LayerOk(case, r, Count(case), l) /\ Whole(case)
      BY <2>2
    <3>2. p \in Rows(b)
      BY WeightFacts
    <3> HIDE DEF l
    <3>3. DOMAIN l[p] = DOMAIN l[Indices(b)]
      <4>1. /\ l[Indices(b)] \in Seq(Int)
            /\ l[p] \in Seq(Slice) /\ Len(l[p]) = Len(l[Indices(b)])
        BY <3>1, <3>2 DEF LayerOk
      <4> HIDE DEF p
      <4> QED BY <4>1
    <3>4. \A k \in DOMAIN l[Indices(b)] :
            Holds(case, l, p, k, s, ch, col) <=> NamesWeight(case, r, s, l[Indices(b)][k], ch, col)
      BY <2>1, <3>1, HoldsIs
    <3> HIDE DEF p
    <3>5. \A k : k \in H(r, p) <=> k \in DOMAIN l[p] /\ Holds(case, l, p, k, s, ch, col)
      BY <2>9 DEF l
    <3> QED BY <3>3, <3>4, <3>5 DEF l, p
  <2>11. ASSUME NEW r \in Ranks, NEW b \in Levels, NEW k \in DOMAIN layer[r][Indices(b)]
         PROVE  layer[r][Indices(b)][k] \in Int
    BY <2>1, <2>2, <2>11 DEF LayerOk
  <2>12. PICK b \in Levels : \E k \in DOMAIN layer[o][Indices(b)] :
                               layer[o][Indices(b)][k] = v
    <3>1. LayerOk(case, o, Count(case), layer[o])
      BY <2>1, <2>2, <2>7
    <3>2. Placed(IndexFamily(layer[o]), First(case, Count(case)))
      BY <3>1 DEF LayerOk
    <3>3. v \in 0 .. (First(case, Count(case)) - 1)
      <4>1. InShard(case, s, v)
        BY <2>7 DEF NamesWeight
      <4>2. /\ First(case, s) \in Nat /\ First(case, Count(case)) \in Nat
            /\ First(case, s) + Size(case, s) <= First(case, Count(case))
        <5>1. Count(case) \in Nat
          BY <2>1, CaseFacts
        <5>2. s \in 0 .. Count(case) /\ Count(case) \in 0 .. Count(case) /\ s < Count(case)
          BY <2>1, <5>1
        <5> QED BY <2>1, <5>2, FirstFacts
      <4> QED BY <2>3, <2>7, <4>1, <4>2 DEF InShard
    <3>4. \E b \in Levels : \E k \in DOMAIN IndexFamily(layer[o])[b] :
            IndexFamily(layer[o])[b][k] = v
      BY <3>2, <3>3 DEF Placed
    <3>5. \A b \in Levels : IndexFamily(layer[o])[b] = layer[o][Indices(b)]
      BY DEF IndexFamily
    <3> QED BY <3>4, <3>5
  <2>13. PICK k \in DOMAIN layer[o][Indices(b)] : layer[o][Indices(b)][k] = v
    BY <2>12
  <2> DEFINE held == Copy(o, WeightOf(b), k)
  <2>14. held \in U
    <3>1. k \in H(o, WeightOf(b))
      BY <2>1, <2>7, <2>10, <2>13
    <3>2. WeightOf(b) \in Weights
      BY WeightFacts
    <3> QED BY <2>1, <2>7, <2>8, <3>1, <3>2
  <2>15. ASSUME NEW x \in U PROVE x = held
    <3>1. PICK r \in Ranks, p \in Weights : \E j \in H(r, p) : x = Copy(r, p, j)
      BY <2>8
    <3>2. PICK j \in H(r, p) : x = Copy(r, p, j)
      BY <3>1
    <3>3. PICK d \in Levels : p = WeightOf(d)
      BY WeightFacts
    <3>4. /\ j \in DOMAIN layer[r][Indices(d)]
          /\ NamesWeight(case, r, s, layer[r][Indices(d)][j], ch, col)
      BY <2>10, <3>2, <3>3
    <3>5. layer[r][Indices(d)][j] \in Int
      BY <2>11, <3>4
    <3>6. r = o /\ layer[r][Indices(d)][j] = v
      BY <2>1, <2>7, <3>4, <3>5
    <3>7. d = b /\ j = k
      <4> DEFINE y == IndexFamily(layer[o])
      <4>1. Placed(y, First(case, Count(case)))
        BY <2>1, <2>2, <2>7 DEF LayerOk
      <4>2. \A e \in Levels : y[e] = layer[o][Indices(e)]
        BY DEF IndexFamily
      <4> HIDE DEF y
      <4>3. j \in DOMAIN y[d] /\ k \in DOMAIN y[b] /\ y[d][j] = y[b][k]
        BY <2>13, <3>4, <3>6, <4>2
      <4> QED BY <4>1, <4>3 DEF Placed
    <3> QED BY <3>2, <3>3, <3>6, <3>7
  <2> HIDE DEF held
  <2>16. U = {held}
    BY <2>14, <2>15
  <2>17. Cardinality(U) = 1
    BY <2>16, FS_Singleton
  <2> QED BY <2>5, <2>17 DEF U, H
<1> QED BY <1>1, LoadInvAlways, PTL
===============================================================================
