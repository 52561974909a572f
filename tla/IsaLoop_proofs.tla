---------------------------- MODULE IsaLoop_proofs ----------------------------
(***************************************************************************)
(* The demotion loop of isa_match_cluster_sizes for every width, ratio and *)
(* budget: no channel is lost, the budget is kept wherever INT4 fits it,   *)
(* no demotion was needless, and the loop ends where IsaMatching says.     *)
(***************************************************************************)
EXTENDS IsaLoop, Counting

Start == Rounded(call.n, call.ratio[1], call.ratio[2])

\* The sizes after i tiles went from C16 to C8 and j tiles from C8 to C4.
At(i, j) == [c16 |-> Start.c16 - i * Tile16,
             c8  |-> (Start.c8 + i * Tile16) - j * Tile8,
             c4  |-> Start.c4 + j * Tile8]

OverAt(i, j) == OverBudget(call.n, At(i, j), call.budget)

\* Where the loop is: every demotion so far was made over the budget, and those
\* of C8 once C16 had no whole tile.
Reached(i, j) ==
  /\ sizes = At(i, j)
  /\ \A h \in Nat : h < i => OverAt(h, 0)
  /\ \A h \in Nat : h < j => OverAt(i, h)
  /\ j > 0 => sizes.c16 < Tile16

LoopInv ==
  /\ TypeOK
  /\ pc # "round" => \E i, j \in Nat : Reached(i, j)
  /\ pc = "done" => ~Over \/ (sizes.c16 < Tile16 /\ sizes.c8 < Tile8)

LEMMA TilesAreNumbers == Tile16 \in Nat \ {0} /\ Tile8 \in Nat \ {0}
BY TileAssumption

LEMMA CallNumbers ==
  ASSUME call \in Call
  PROVE  /\ call.n \in Nat \ {0} /\ call.budget \in Nat
         /\ call.ratio[1] \in Nat /\ call.ratio[2] \in Nat
         /\ call.ratio[1] + call.ratio[2] <= 100
<1>1. call.n \in Channels /\ call.ratio \in Ratios /\ call.budget \in Budgets
  BY DEF Call
<1>2. Channels \subseteq Nat \ {0} /\ Budgets \subseteq Nat
  BY LoopAssumption
<1>3. call.n \in Nat \ {0} /\ call.budget \in Nat
  BY <1>1, <1>2
<1>4. /\ call.ratio[1] \in Nat /\ call.ratio[2] \in Nat
      /\ call.ratio[1] + call.ratio[2] <= 100
  BY <1>1, LoopAssumption
<1> QED BY <1>3, <1>4

\* What two ratios ask for is there.
LEMMA WantedFits ==
  ASSUME NEW n \in Nat, NEW a \in Nat, NEW b \in Nat, a + b <= 100
  PROVE  /\ Wanted(n, a) \in Nat /\ Wanted(n, b) \in Nat
         /\ Wanted(n, a) + Wanted(n, b) <= n
BY Shares DEF Wanted

\* Rounding down to tiles.
LEMMA RoundDownTiles ==
  ASSUME NEW x \in Nat, NEW tile \in Nat \ {0}
  PROVE  /\ RoundDown(x, tile) \in Nat /\ RoundDown(x, tile) <= x
         /\ Multiple(RoundDown(x, tile), tile)
BY WholeTiles DEF RoundDown

\* The rounded sizes are a partition of the channels into tiles and the rest.
LEMMA StartSizes ==
  ASSUME call \in Call
  PROVE  /\ Start.c16 \in Nat /\ Start.c8 \in Nat /\ Start.c4 \in Nat
         /\ Start.c16 + Start.c8 + Start.c4 = call.n
         /\ Multiple(Start.c16, Tile16) /\ Multiple(Start.c8, Tile8)
         /\ Start = [c16 |-> Start.c16, c8 |-> Start.c8, c4 |-> Start.c4]
<1> DEFINE x  == Wanted(call.n, call.ratio[1])
           y  == Wanted(call.n, call.ratio[2])
           k16 == RoundDown(x, Tile16)
           k8  == RoundDown(y, Tile8)
<1>1. call.n \in Nat /\ x \in Nat /\ y \in Nat /\ x + y <= call.n
  BY CallNumbers, WantedFits
<1>2. Start = [c16 |-> k16, c8 |-> k8, c4 |-> call.n - k16 - k8]
  BY DEF Start, Rounded
<1> HIDE DEF x, y
<1>3. /\ k16 \in Nat /\ k16 <= x /\ Multiple(k16, Tile16)
      /\ k8 \in Nat /\ k8 <= y /\ Multiple(k8, Tile8)
  BY <1>1, TilesAreNumbers, RoundDownTiles
<1> HIDE DEF k16, k8
<1>4. call.n - k16 - k8 \in Nat
  BY <1>1, <1>3
<1>5. k16 + k8 + (call.n - k16 - k8) = call.n
  BY <1>1, <1>3
<1> QED BY <1>2, <1>3, <1>4, <1>5

(***************************************************************************)
(* Demotions.                                                              *)
(***************************************************************************)
\* Demotion of sizes given as three numbers.
ThreeSizes(k) == k = [c16 |-> k.c16, c8 |-> k.c8, c4 |-> k.c4]

LEMMA DemoteSizes ==
  ASSUME NEW k, ThreeSizes(k), NEW i
  PROVE  /\ Demote16(k, i) = [c16 |-> k.c16 - i * Tile16, c8 |-> k.c8 + i * Tile16,
                              c4 |-> k.c4]
         /\ Demote8(k, i) = [c16 |-> k.c16, c8 |-> k.c8 - i * Tile8,
                             c4 |-> k.c4 + i * Tile8]
<1> DEFINE t == i * Tile16
           u == i * Tile8
<1>1. /\ Demote16(k, i) = [k EXCEPT !.c16 = k.c16 - t, !.c8 = k.c8 + t]
      /\ Demote8(k, i) = [k EXCEPT !.c8 = k.c8 - u, !.c4 = k.c4 + u]
  BY DEF Demote16, Demote8
<1> HIDE DEF t, u
<1>2. Demote16(k, i) = [c16 |-> k.c16 - t, c8 |-> k.c8 + t, c4 |-> k.c4]
  BY <1>1 DEF ThreeSizes
<1>3. Demote8(k, i) = [c16 |-> k.c16, c8 |-> k.c8 - u, c4 |-> k.c4 + u]
  BY <1>1 DEF ThreeSizes
<1> QED BY <1>2, <1>3 DEF t, u

\* The next demotion, and the last one taken back.
LEMMA DemoteAt ==
  ASSUME call \in Call, NEW i \in Int, NEW j \in Int
  PROVE  /\ Demote16(At(i, j), 1) = At(i + 1, j)
         /\ Demote16(At(i, j), -1) = At(i - 1, j)
         /\ Demote8(At(i, j), 1) = At(i, j + 1)
         /\ Demote8(At(i, j), -1) = At(i, j - 1)
         /\ Demote16(Start, i) = At(i, 0)
         /\ Demote8(At(i, 0), j) = At(i, j)
<1> DEFINE t == i * Tile16
           u == j * Tile8
<1>1. /\ Start.c16 \in Int /\ Start.c8 \in Int /\ Start.c4 \in Int
      /\ Tile16 \in Int /\ Tile8 \in Int
      /\ Start = [c16 |-> Start.c16, c8 |-> Start.c8, c4 |-> Start.c4]
  BY StartSizes, TilesAreNumbers
<1>2. /\ t \in Int /\ u \in Int
      /\ (i + 1) * Tile16 = t + Tile16 /\ (i - 1) * Tile16 = t - Tile16
      /\ (j + 1) * Tile8 = u + Tile8 /\ (j - 1) * Tile8 = u - Tile8
      /\ 0 * Tile8 = 0
  BY <1>1
<1>3. At(i, j) = [c16 |-> Start.c16 - t, c8 |-> (Start.c8 + t) - u,
                  c4 |-> Start.c4 + u]
  BY DEF At
<1>4. /\ At(i + 1, j) = [c16 |-> Start.c16 - (t + Tile16),
                         c8 |-> (Start.c8 + (t + Tile16)) - u, c4 |-> Start.c4 + u]
      /\ At(i - 1, j) = [c16 |-> Start.c16 - (t - Tile16),
                         c8 |-> (Start.c8 + (t - Tile16)) - u, c4 |-> Start.c4 + u]
      /\ At(i, j + 1) = [c16 |-> Start.c16 - t, c8 |-> (Start.c8 + t) - (u + Tile8),
                         c4 |-> Start.c4 + (u + Tile8)]
      /\ At(i, j - 1) = [c16 |-> Start.c16 - t, c8 |-> (Start.c8 + t) - (u - Tile8),
                         c4 |-> Start.c4 + (u - Tile8)]
      /\ At(i, 0) = [c16 |-> Start.c16 - t, c8 |-> (Start.c8 + t) - 0,
                     c4 |-> Start.c4 + 0]
  BY <1>2 DEF At
<1>5. Demote16(Start, i) = [c16 |-> Start.c16 - t, c8 |-> Start.c8 + t,
                            c4 |-> Start.c4]
  BY <1>1, DemoteSizes DEF ThreeSizes
<1> HIDE DEF t, u
<1>6. /\ 1 * Tile16 = Tile16 /\ (-1) * Tile16 = -Tile16
      /\ 1 * Tile8 = Tile8 /\ (-1) * Tile8 = -Tile8
  BY <1>1
<1> DEFINE a == Start.c16 - t
           b == (Start.c8 + t) - u
           c == Start.c4 + u
<1>11. a \in Int /\ b \in Int /\ c \in Int /\ At(i, j) = [c16 |-> a, c8 |-> b, c4 |-> c]
  BY <1>1, <1>2, <1>3
<1>12. /\ At(i, j).c16 = a /\ At(i, j).c8 = b /\ At(i, j).c4 = c
       /\ ThreeSizes(At(i, j))
  <2> HIDE DEF a, b, c
  <2> QED BY <1>11 DEF ThreeSizes
<1>7. /\ Demote16(At(i, j), 1) = At(i + 1, j)
      /\ Demote16(At(i, j), -1) = At(i - 1, j)
  <2>1. /\ a - Tile16 = Start.c16 - (t + Tile16)
        /\ b + Tile16 = (Start.c8 + (t + Tile16)) - u
        /\ a - (-Tile16) = Start.c16 - (t - Tile16)
        /\ b + (-Tile16) = (Start.c8 + (t - Tile16)) - u
    BY <1>1, <1>2
  <2>2. At(i + 1, j) = [c16 |-> a - Tile16, c8 |-> b + Tile16, c4 |-> c]
    BY <1>4, <2>1
  <2>3. At(i - 1, j) = [c16 |-> a - (-Tile16), c8 |-> b + (-Tile16), c4 |-> c]
    BY <1>4, <2>1
  <2> HIDE DEF a, b, c
  <2>4. Demote16(At(i, j), 1) = [c16 |-> a - 1 * Tile16, c8 |-> b + 1 * Tile16, c4 |-> c]
    BY <1>12, DemoteSizes, Zenon
  <2>5. Demote16(At(i, j), -1) = [c16 |-> a - (-1) * Tile16, c8 |-> b + (-1) * Tile16,
                                  c4 |-> c]
    BY <1>12, DemoteSizes, Zenon
  <2> QED BY <1>6, <2>2, <2>3, <2>4, <2>5
<1>8. /\ Demote8(At(i, j), 1) = At(i, j + 1)
      /\ Demote8(At(i, j), -1) = At(i, j - 1)
  <2>1. /\ b - Tile8 = (Start.c8 + t) - (u + Tile8)
        /\ c + Tile8 = Start.c4 + (u + Tile8)
        /\ b - (-Tile8) = (Start.c8 + t) - (u - Tile8)
        /\ c + (-Tile8) = Start.c4 + (u - Tile8)
    BY <1>1, <1>2
  <2>2. At(i, j + 1) = [c16 |-> a, c8 |-> b - Tile8, c4 |-> c + Tile8]
    BY <1>4, <2>1
  <2>3. At(i, j - 1) = [c16 |-> a, c8 |-> b - (-Tile8), c4 |-> c + (-Tile8)]
    BY <1>4, <2>1
  <2> HIDE DEF a, b, c
  <2>4. Demote8(At(i, j), 1) = [c16 |-> a, c8 |-> b - 1 * Tile8, c4 |-> c + 1 * Tile8]
    BY <1>12, DemoteSizes, Zenon
  <2>5. Demote8(At(i, j), -1) = [c16 |-> a, c8 |-> b - (-1) * Tile8,
                                 c4 |-> c + (-1) * Tile8]
    BY <1>12, DemoteSizes, Zenon
  <2> QED BY <1>6, <2>2, <2>3, <2>4, <2>5
<1>9. Demote16(Start, i) = At(i, 0)
  BY <1>1, <1>2, <1>4, <1>5
<1>10. Demote8(At(i, 0), j) = At(i, j)
  <2> DEFINE a0 == Start.c16 - t
             b0 == (Start.c8 + t) - 0
             c0 == Start.c4 + 0
  <2>1. /\ a0 \in Int /\ b0 \in Int /\ c0 \in Int
        /\ b0 - u = b /\ c0 + u = c /\ a0 = a
    BY <1>1, <1>2
  <2>2. At(i, 0) = [c16 |-> a0, c8 |-> b0, c4 |-> c0]
    BY <1>4
  <2> HIDE DEF a0, b0, c0, a, b, c
  <2>3. Demote8(At(i, 0), j) = [c16 |-> a0, c8 |-> b0 - j * Tile8, c4 |-> c0 + j * Tile8]
    <3>1. /\ At(i, 0).c16 = a0 /\ At(i, 0).c8 = b0 /\ At(i, 0).c4 = c0
          /\ ThreeSizes(At(i, 0))
      BY <2>2 DEF ThreeSizes
    <3> QED BY <3>1, DemoteSizes, Zenon
  <2> QED BY <1>11, <2>1, <2>3 DEF u
<1> QED BY <1>7, <1>8, <1>9, <1>10

(***************************************************************************)
(* The loop.                                                               *)
(***************************************************************************)
LEMMA SizesOf ==
  ASSUME NEW n \in Nat, NEW a \in Nat, NEW b \in Nat, NEW c \in Nat, a + b + c = n,
         NEW k, k = [c16 |-> a, c8 |-> b, c4 |-> c]
  PROVE  k \in Sizes(n) /\ k.c16 + k.c8 + k.c4 = n
<1>1. a \in 0 .. n /\ b \in 0 .. n /\ c \in 0 .. n
  OBVIOUS
<1> QED BY <1>1 DEF Sizes

\* What is over the budget stays so while the arguments are the same.
LEMMA SameCall ==
  ASSUME call' = call
  PROVE  /\ Start' = Start
         /\ \A i, j : At(i, j)' = At(i, j) /\ OverAt(i, j)' = OverAt(i, j)
BY DEF Start, At, OverAt

LEMMA LoopInit == Init => LoopInv
<1> SUFFICES ASSUME Init PROVE LoopInv
  OBVIOUS
<1> DEFINE x == Wanted(call.n, call.ratio[1])
           y == Wanted(call.n, call.ratio[2])
<1>1. /\ call \in Call /\ pc = "round"
      /\ sizes = [c16 |-> x, c8 |-> y, c4 |-> call.n - x - y]
  BY DEF Init
<1>2. call.n \in Nat /\ x \in Nat /\ y \in Nat /\ x + y <= call.n
  BY <1>1, CallNumbers, WantedFits
<1> HIDE DEF x, y
<1>3. call.n - x - y \in Nat /\ x + y + (call.n - x - y) = call.n
  BY <1>2
<1>4. sizes \in Sizes(call.n) /\ sizes.c16 + sizes.c8 + sizes.c4 = call.n
  BY <1>1, <1>2, <1>3, SizesOf
<1> QED BY <1>1, <1>4 DEF LoopInv, TypeOK

LEMMA RoundStep ==
  ASSUME LoopInv, RoundToTiles PROVE LoopInv'
<1>1. /\ call' = call /\ sizes' = Start /\ pc' = "demote" /\ call \in Call
  BY DEF RoundToTiles, LoopInv, TypeOK, Start
<1>2. /\ Start.c16 \in Nat /\ Start.c8 \in Nat /\ Start.c4 \in Nat
      /\ Start.c16 + Start.c8 + Start.c4 = call.n /\ call.n \in Nat
      /\ Start = [c16 |-> Start.c16, c8 |-> Start.c8, c4 |-> Start.c4]
  BY <1>1, StartSizes, CallNumbers
<1>3. Start \in Sizes(call.n)
  BY <1>2, SizesOf
<1>4. TypeOK'
  BY <1>1, <1>2, <1>3 DEF TypeOK
<1>5. At(0, 0) = Start
  <2>1. 0 * Tile16 = 0 /\ 0 * Tile8 = 0
    BY TilesAreNumbers
  <2>2. At(0, 0) = [c16 |-> Start.c16 - 0, c8 |-> (Start.c8 + 0) - 0,
                    c4 |-> Start.c4 + 0]
    BY <2>1 DEF At
  <2> QED BY <1>2, <2>2
<1>6. Reached(0, 0)'
  BY <1>1, <1>5, SameCall DEF Reached
<1>7. \E i, j \in Nat : Reached(i, j)'
  BY <1>6
<1> QED BY <1>1, <1>4, <1>7 DEF LoopInv

\* The sizes of a reachable state, as numbers.
LEMMA SizesAreNumbers ==
  ASSUME TypeOK
  PROVE  /\ sizes.c16 \in Nat /\ sizes.c8 \in Nat /\ sizes.c4 \in Nat
         /\ sizes.c16 + sizes.c8 + sizes.c4 = call.n /\ call.n \in Nat
         /\ ThreeSizes(sizes) /\ call \in Call
<1>1. /\ sizes \in [c16 : 0 .. call.n, c8 : 0 .. call.n, c4 : 0 .. call.n]
      /\ call \in Call /\ sizes.c16 + sizes.c8 + sizes.c4 = call.n
  BY DEF TypeOK, Sizes
<1>2. call.n \in Nat
  BY <1>1, CallNumbers
<1>3. /\ sizes.c16 \in 0 .. call.n /\ sizes.c8 \in 0 .. call.n
      /\ sizes.c4 \in 0 .. call.n
      /\ sizes = [c16 |-> sizes.c16, c8 |-> sizes.c8, c4 |-> sizes.c4]
  BY <1>1
<1> QED BY <1>1, <1>2, <1>3 DEF ThreeSizes

LEMMA Demote16Step ==
  ASSUME LoopInv, Demote16To8 PROVE LoopInv'
<1>1. /\ pc = "demote" /\ Over /\ sizes.c16 >= Tile16
      /\ sizes' = Demote16(sizes, 1) /\ UNCHANGED <<call, pc>> /\ TypeOK
  BY DEF Demote16To8, LoopInv
<1>2. PICK i \in Nat, j \in Nat : Reached(i, j)
  BY <1>1 DEF LoopInv
<1>3. /\ sizes.c16 \in Nat /\ sizes.c8 \in Nat /\ sizes.c4 \in Nat
      /\ sizes.c16 + sizes.c8 + sizes.c4 = call.n /\ call.n \in Nat
      /\ ThreeSizes(sizes) /\ call \in Call /\ Tile16 \in Nat
  BY <1>1, SizesAreNumbers, TilesAreNumbers
<1>4. j = 0 /\ sizes = At(i, 0)
  BY <1>1, <1>2, <1>3 DEF Reached
<1>5. sizes' = At(i + 1, 0)
  BY <1>1, <1>3, <1>4, DemoteAt
<1>6. OverAt(i, 0)
  BY <1>1, <1>4 DEF Over, OverAt
<1>7. Reached(i + 1, 0)'
  <2>1. \A h \in Nat : h < i + 1 => OverAt(h, 0)
    <3>1. \A h \in Nat : h < i + 1 => h < i \/ h = i
      OBVIOUS
    <3> QED BY <1>2, <1>6, <3>1 DEF Reached
  <2>2. \A h \in Nat : ~(h < 0)
    OBVIOUS
  <2> QED BY <1>1, <1>5, <2>1, <2>2, SameCall DEF Reached
<1>8. TypeOK'
  <2>1. 1 * Tile16 = Tile16
    BY <1>3
  <2>2. sizes' = [c16 |-> sizes.c16 - Tile16, c8 |-> sizes.c8 + Tile16,
                  c4 |-> sizes.c4]
    BY <1>1, <1>3, <2>1, DemoteSizes
  <2>3. /\ sizes.c16 - Tile16 \in Nat /\ sizes.c8 + Tile16 \in Nat
        /\ (sizes.c16 - Tile16) + (sizes.c8 + Tile16) + sizes.c4 = call.n
    BY <1>1, <1>3
  <2>4. sizes' \in Sizes(call.n) /\ sizes'.c16 + sizes'.c8 + sizes'.c4 = call.n
    BY <1>3, <2>2, <2>3, SizesOf
  <2> QED BY <1>1, <2>4 DEF TypeOK
<1>9. \E g, h \in Nat : Reached(g, h)'
  BY <1>7
<1> QED BY <1>1, <1>8, <1>9 DEF LoopInv

LEMMA Demote8Step ==
  ASSUME LoopInv, Demote8To4 PROVE LoopInv'
<1>1. /\ pc = "demote" /\ Over /\ sizes.c16 < Tile16 /\ sizes.c8 >= Tile8
      /\ sizes' = Demote8(sizes, 1) /\ UNCHANGED <<call, pc>> /\ TypeOK
  BY DEF Demote8To4, LoopInv
<1>2. PICK i \in Nat, j \in Nat : Reached(i, j)
  BY <1>1 DEF LoopInv
<1>3. /\ sizes.c16 \in Nat /\ sizes.c8 \in Nat /\ sizes.c4 \in Nat
      /\ sizes.c16 + sizes.c8 + sizes.c4 = call.n /\ call.n \in Nat
      /\ ThreeSizes(sizes) /\ call \in Call /\ Tile8 \in Nat
  BY <1>1, SizesAreNumbers, TilesAreNumbers
<1>4. sizes = At(i, j)
  BY <1>2 DEF Reached
<1>5. sizes' = At(i, j + 1)
  BY <1>1, <1>3, <1>4, DemoteAt
<1>6. OverAt(i, j)
  BY <1>1, <1>4 DEF Over, OverAt
<1>7. 1 * Tile8 = Tile8
  BY <1>3
<1>8. sizes' = [c16 |-> sizes.c16, c8 |-> sizes.c8 - Tile8, c4 |-> sizes.c4 + Tile8]
  BY <1>1, <1>3, <1>7, DemoteSizes
<1>9. Reached(i, j + 1)'
  <2>1. \A h \in Nat : h < j + 1 => OverAt(i, h)
    <3>1. \A h \in Nat : h < j + 1 => h < j \/ h = j
      OBVIOUS
    <3> QED BY <1>2, <1>6, <3>1 DEF Reached
  <2>2. \A h \in Nat : h < i => OverAt(h, 0)
    BY <1>2 DEF Reached
  <2>3. sizes'.c16 < Tile16
    BY <1>1, <1>8
  <2> QED BY <1>1, <1>5, <2>1, <2>2, <2>3, SameCall DEF Reached
<1>10. TypeOK'
  <2>1. /\ sizes.c8 - Tile8 \in Nat /\ sizes.c4 + Tile8 \in Nat
        /\ sizes.c16 + (sizes.c8 - Tile8) + (sizes.c4 + Tile8) = call.n
    BY <1>1, <1>3
  <2>2. sizes' \in Sizes(call.n) /\ sizes'.c16 + sizes'.c8 + sizes'.c4 = call.n
    BY <1>3, <1>8, <2>1, SizesOf
  <2> QED BY <1>1, <2>2 DEF TypeOK
<1>11. \E g, h \in Nat : Reached(g, h)'
  BY <1>9
<1> QED BY <1>1, <1>10, <1>11 DEF LoopInv

LEMMA StopStep ==
  ASSUME LoopInv, Stop \/ UNCHANGED vars PROVE LoopInv'
<1>1. /\ UNCHANGED <<call, sizes>>
      /\ \/ pc' = pc
         \/ pc = "demote" /\ pc' = "done"
            /\ (~Over \/ (sizes.c16 < Tile16 /\ sizes.c8 < Tile8))
  BY DEF Stop, vars
<1>2. TypeOK'
  BY <1>1 DEF LoopInv, TypeOK
<1>3. \A i, j \in Nat : Reached(i, j)' = Reached(i, j)
  BY <1>1, SameCall DEF Reached
<1>4. Over' = Over
  BY <1>1 DEF Over
<1> QED BY <1>1, <1>2, <1>3, <1>4 DEF LoopInv

LEMMA LoopHolds == Spec => []LoopInv
<1>1. LoopInv /\ [Next]_vars => LoopInv'
  BY RoundStep, Demote16Step, Demote8Step, StopStep DEF Next
<1> QED BY <1>1, LoopInit, PTL DEF Spec

(***************************************************************************)
(* What the loop keeps and where it ends.                                  *)
(***************************************************************************)
\* Whatever the loop has done, every input channel is in exactly one cluster.
THEOREM NoChannelLost == Spec => []TypeOK
<1>1. LoopInv => TypeOK
  BY DEF LoopInv
<1> QED BY <1>1, LoopHolds, PTL

\* No channel was demoted needlessly: with the last tile back the layer would
\* be over its budget.
THEOREM DemotionsWereNeeded == Spec => []NoNeedlessDemotion
<1>1. LoopInv => NoNeedlessDemotion
  <2> SUFFICES ASSUME LoopInv, pc = "done"
               PROVE  /\ sizes.c4 > Start.c4 =>
                           OverBudget(call.n, Demote8(sizes, -1), call.budget)
                      /\ sizes.c4 = Start.c4 /\ sizes.c16 < Start.c16 =>
                           OverBudget(call.n, Demote16(sizes, -1), call.budget)
    BY DEF NoNeedlessDemotion, Start
  <2>1. PICK i \in Nat, j \in Nat : Reached(i, j)
    BY DEF LoopInv
  <2>2. call \in Call
    BY DEF LoopInv, TypeOK
  <2>3. sizes = At(i, j)
    BY <2>1 DEF Reached
  <2>4. /\ Tile16 \in Nat \ {0} /\ Tile8 \in Nat \ {0}
        /\ Start.c16 \in Nat /\ Start.c4 \in Nat
    BY <2>2, TilesAreNumbers, StartSizes
  <2> DEFINE t == i * Tile16
             u == j * Tile8
  <2>5. sizes.c16 = Start.c16 - t /\ sizes.c4 = Start.c4 + u /\ t \in Nat /\ u \in Nat
    BY <2>3, <2>4, Product DEF At
  <2>6. (j = 0 => u = 0) /\ (i = 0 => t = 0)
    BY <2>4
  <2>7. j # 0 => u > 0
    <3>1. u = 0 => ~(j >= 1)
      <4>1. j >= 1 => j * Tile8 >= 1 * Tile8
        BY <2>4
      <4> QED BY <2>4, <4>1
    <3> QED BY <2>5, <3>1
  <2> HIDE DEF t, u
  <2>8. ASSUME sizes.c4 > Start.c4
        PROVE  OverBudget(call.n, Demote8(sizes, -1), call.budget)
    <3>1. j # 0
      BY <2>4, <2>5, <2>6, <2>8
    <3>2. j - 1 \in Nat /\ j - 1 < j
      BY <3>1
    <3>3. OverAt(i, j - 1)
      BY <2>1, <3>2 DEF Reached
    <3>4. Demote8(sizes, -1) = At(i, j - 1)
      BY <2>2, <2>3, DemoteAt
    <3> QED BY <3>3, <3>4 DEF OverAt
  <2>9. ASSUME sizes.c4 = Start.c4, sizes.c16 < Start.c16
        PROVE  OverBudget(call.n, Demote16(sizes, -1), call.budget)
    <3>1. j = 0 /\ i # 0
      BY <2>4, <2>5, <2>6, <2>7, <2>9
    <3>2. i - 1 \in Nat /\ i - 1 < i
      BY <3>1
    <3>3. OverAt(i - 1, 0)
      BY <2>1, <3>2 DEF Reached
    <3>4. Demote16(sizes, -1) = At(i - 1, 0)
      BY <2>2, <2>3, <3>1, DemoteAt
    <3> QED BY <3>3, <3>4 DEF OverAt
  <2> QED BY <2>8, <2>9
<1> QED BY <1>1, LoopHolds, PTL

\* Both clusters stay whole numbers of anything that divides both tiles.
LEMMA ClustersDivide ==
  ASSUME call \in Call, NEW i \in Nat, NEW j \in Nat, sizes = At(i, j),
         NEW d \in Nat, Multiple(Tile16, d), Multiple(Tile8, d)
  PROVE  Multiple(sizes.c16, d) /\ Multiple(sizes.c8, d)
<1>1. /\ Tile16 \in Int /\ Tile8 \in Int /\ Start.c16 \in Int /\ Start.c8 \in Int
      /\ Multiple(Start.c16, Tile16) /\ Multiple(Start.c8, Tile8)
  BY TilesAreNumbers, StartSizes
<1> DEFINE t == i * Tile16
           u == j * Tile8
           s == Start.c8 + t
<1>4. /\ t = i * Tile16 /\ u = j * Tile8 /\ s = Start.c8 + t
      /\ t \in Int /\ u \in Int /\ s \in Int
      /\ sizes.c16 = Start.c16 - t /\ sizes.c8 = s - u
  BY <1>1 DEF At
<1> HIDE DEF t, u, s
<1>5. Multiple(Start.c16, d) /\ Multiple(Start.c8, d) /\ Multiple(t, d) /\ Multiple(u, d)
  <2>1. t = Tile16 * i /\ u = Tile8 * j /\ i \in Int /\ j \in Int
    BY <1>1, <1>4
  <2>2. Multiple(t, Tile16) /\ Multiple(u, Tile8)
    BY <2>1 DEF Multiple
  <2> QED BY <1>1, <1>4, <2>2, MultipleOfMultiple
<1>6. Multiple(sizes.c16, d) /\ Multiple(s, d)
  BY <1>1, <1>4, <1>5, MultipleSum
<1>7. Multiple(sizes.c8, d)
  BY <1>4, <1>5, <1>6, MultipleSum
<1> QED BY <1>6, <1>7

\* Where the tiles of FP16 are whole tiles of INT8, a layer that may spend four
\* bits per channel is within its budget at the end: the loop breaks over the
\* budget only when all channels are INT4.
THEOREM BudgetIsKept ==
  ASSUME Tile16 % Tile8 = 0
  PROVE  Spec => []NeverOverBudget
<1>1. LoopInv => NeverOverBudget
  <2> SUFFICES ASSUME LoopInv, pc = "done", call.budget >= 400, Over
               PROVE  FALSE
    BY DEF NeverOverBudget, Over
  <2>1. PICK i \in Nat, j \in Nat : Reached(i, j)
    BY DEF LoopInv
  <2>2. sizes.c16 < Tile16 /\ sizes.c8 < Tile8
    BY DEF LoopInv
  <2>3. /\ sizes.c16 \in Nat /\ sizes.c8 \in Nat /\ sizes.c4 \in Nat
        /\ sizes.c16 + sizes.c8 + sizes.c4 = call.n /\ call.n \in Nat
        /\ call \in Call
    BY SizesAreNumbers DEF LoopInv
  <2>4. Tile16 \in Nat \ {0} /\ Tile8 \in Nat \ {0} /\ sizes = At(i, j)
    BY <2>1, TilesAreNumbers DEF Reached
  <2>5. Multiple(Tile16, Tile8) /\ Multiple(Tile8, Tile8)
    <3>1. Multiple(Tile8, Tile8)
      <4>1. Tile8 = Tile8 * 1
        BY <2>4
      <4> QED BY <4>1 DEF Multiple
    <3> QED BY <2>4, <3>1, MultipleRemainder
  <2>6. sizes.c16 = 0
    <3>1. PICK p \in Int : Start.c16 = Tile16 * p
      BY <2>3, StartSizes DEF Multiple
    <3>2. sizes.c16 = Tile16 * (p - i) /\ p - i \in Int
      <4>1. i * Tile16 = Tile16 * i /\ Tile16 * p - Tile16 * i = Tile16 * (p - i)
        BY <2>4
      <4>2. sizes.c16 = Start.c16 - i * Tile16
        BY <2>4 DEF At
      <4> QED BY <3>1, <4>1, <4>2
    <3>3. Multiple(sizes.c16, Tile16)
      BY <3>2 DEF Multiple
    <3> QED BY <2>2, <2>3, <2>4, <3>3, MultipleRemainder
  <2>7. sizes.c8 = 0
    <3>1. Multiple(sizes.c8, Tile8)
      BY <2>3, <2>4, <2>5, ClustersDivide
    <3> QED BY <2>2, <2>3, <2>4, <3>1, MultipleRemainder
  <2>8. 100 * Cost(sizes) > call.budget * call.n
    BY DEF Over, OverBudget
  <2>9. Cost(sizes) = 4 * call.n
    BY <2>3, <2>6, <2>7 DEF Cost
  <2>10. call.budget * call.n >= 400 * call.n
    <3>1. call.budget \in Nat
      BY <2>3, CallNumbers
    <3> QED BY <2>3, <3>1
  <2>11. call.budget * call.n \in Int
    BY <2>3, CallNumbers
  <2> QED BY <2>3, <2>8, <2>9, <2>10, <2>11
<1> QED BY <1>1, LoopHolds, PTL

\* Where both tiles are whole quantization groups, step 8 finds whole groups in
\* the INT8 and the INT4 segment of every layer whose width is.
THEOREM SegmentsAreGroups ==
  ASSUME Tile16 % Group = 0, Tile8 % Group = 0
  PROVE  Spec => []SegmentsAlign
<1>1. LoopInv => SegmentsAlign
  <2> SUFFICES ASSUME LoopInv, pc = "done", call.n % Group = 0
               PROVE  sizes.c8 % Group = 0 /\ sizes.c4 % Group = 0
    BY DEF SegmentsAlign
  <2>1. PICK i \in Nat, j \in Nat : Reached(i, j)
    BY DEF LoopInv
  <2>2. /\ sizes.c16 \in Nat /\ sizes.c8 \in Nat /\ sizes.c4 \in Nat
        /\ sizes.c16 + sizes.c8 + sizes.c4 = call.n /\ call.n \in Nat
        /\ call \in Call
    BY SizesAreNumbers DEF LoopInv
  <2>3. /\ Tile16 \in Nat /\ Tile8 \in Nat /\ sizes = At(i, j)
        /\ Group \in Nat \ {0}
    BY <2>1, TilesAreNumbers, LoopAssumption DEF Reached
  <2>4. Multiple(Tile16, Group) /\ Multiple(Tile8, Group) /\ Multiple(call.n, Group)
    BY <2>2, <2>3, MultipleRemainder
  <2>5. Multiple(sizes.c16, Group) /\ Multiple(sizes.c8, Group)
    BY <2>2, <2>3, <2>4, ClustersDivide
  <2> DEFINE low == call.n - sizes.c16
  <2>6. low = call.n - sizes.c16 /\ low \in Int /\ sizes.c4 = low - sizes.c8
    BY <2>2
  <2> HIDE DEF low
  <2>7. Multiple(low, Group)
    BY <2>2, <2>3, <2>4, <2>5, <2>6, MultipleSum
  <2>8. Multiple(sizes.c4, Group)
    BY <2>2, <2>3, <2>5, <2>6, <2>7, MultipleSum
  <2> QED BY <2>2, <2>3, <2>5, <2>8, MultipleRemainder
<1> QED BY <1>1, LoopHolds, PTL

\* The least number of a set, when it is known.
LEMMA MinIs ==
  ASSUME NEW S, \A x \in S : x \in Int, NEW m \in S, \A x \in S : m <= x
  PROVE  Min(S) = m
<1>1. Min(S) \in S /\ \A x \in S : Min(S) <= x
  BY DEF Min
<1> QED BY <1>1

\* The loop ends where IsaMatching's expression says, which is what the pipeline
\* is checked with.
THEOREM LoopEndsAsStated == Spec => []EndsAsStated
<1>1. LoopInv => EndsAsStated
  <2> SUFFICES ASSUME LoopInv, pc = "done"
               PROVE  sizes = Downgraded(call.n, Start, call.budget)
    BY DEF EndsAsStated, IsaSizes, Start
  <2>1. PICK i \in Nat, j \in Nat : Reached(i, j)
    BY DEF LoopInv
  <2>2. /\ sizes = At(i, j)
        /\ \A h \in Nat : h < i => OverAt(h, 0)
        /\ \A h \in Nat : h < j => OverAt(i, h)
        /\ j > 0 => sizes.c16 < Tile16
        /\ ~OverAt(i, j) \/ (sizes.c16 < Tile16 /\ sizes.c8 < Tile8)
    BY <2>1 DEF Reached, LoopInv, Over, OverAt
  <2>3. /\ sizes.c16 \in Nat /\ sizes.c8 \in Nat /\ sizes.c4 \in Nat
        /\ call \in Call /\ Tile16 \in Nat \ {0} /\ Tile8 \in Nat \ {0}
        /\ Start.c16 \in Nat /\ Start.c8 \in Nat
    BY SizesAreNumbers, TilesAreNumbers, StartSizes DEF LoopInv
  <2> DEFINE top16 == Start.c16 \div Tile16
             fits16 == {h \in 0 .. top16 :
                          ~OverBudget(call.n, Demote16(Start, h), call.budget)}
  <2>4. top16 \in Nat
    BY <2>3, Division
  <2>5. sizes.c16 = Start.c16 - i * Tile16 /\ i * Tile16 \in Nat
    BY <2>2, <2>3, Product DEF At
  <2>6. i <= top16
    <3>1. i * Tile16 <= Start.c16
      BY <2>3, <2>5
    <3> QED BY <2>3, <3>1, QuotientBound
  <2>7. sizes.c16 < Tile16 => i = top16
    <3> SUFFICES ASSUME sizes.c16 < Tile16, i # top16 PROVE FALSE
      OBVIOUS
    <3>1. i + 1 <= top16
      <4> HIDE DEF top16
      <4> QED BY <2>4, <2>6
    <3>2. (i + 1) * Tile16 <= Start.c16
      <4> DEFINE next == i + 1
      <4>1. next \in Nat /\ next <= top16
        BY <3>1
      <4> HIDE DEF next
      <4>2. next * Tile16 <= Start.c16
        BY <2>3, <4>1, QuotientBound
      <4> QED BY <4>2 DEF next
    <3>3. (i + 1) * Tile16 = i * Tile16 + Tile16
      BY <2>3
    <3> QED BY <2>3, <2>5, <3>2, <3>3
  <2>8. \A h \in 0 .. top16 : h \in fits16 <=> ~OverAt(h, 0)
    <3> TAKE h \in 0 .. top16
    <3>1. Demote16(Start, h) = At(h, 0)
      BY <2>3, DemoteAt
    <3> HIDE DEF top16
    <3> QED BY <3>1 DEF OverAt
  <2>9. Min(fits16 \cup {top16}) = i
    <3> DEFINE S == fits16 \cup {top16}
    <3>1. \A h \in S : h \in Nat
      BY <2>4
    <3>2. i \in S
      <4>1. CASE sizes.c16 < Tile16
        BY <2>7, <4>1
      <4>2. CASE ~(sizes.c16 < Tile16)
        <5>1. j = 0 /\ ~OverAt(i, j)
          BY <2>2, <4>2
        <5>2. i \in 0 .. top16
          BY <2>4, <2>6
        <5> QED BY <2>8, <5>1, <5>2
      <4> QED BY <4>1, <4>2
    <3>3. \A h \in S : i <= h
      <4> SUFFICES ASSUME NEW h \in fits16, h < i PROVE FALSE
        BY <2>6, <3>1
      <4>1. h \in 0 .. top16 /\ h \in Nat
        BY <2>4
      <4> QED BY <2>2, <2>8, <4>1
    <3> HIDE DEF S
    <3>4. \A h \in S : h \in Int
      BY <3>1
    <3>5. Min(S) = i
      BY <3>2, <3>3, <3>4, MinIs
    <3> QED BY <3>5 DEF S
  <2> DEFINE d16 == Demote16(Start, Min(fits16 \cup {top16}))
             top8 == d16.c8 \div Tile8
             fits8 == {h \in 0 .. top8 :
                         ~OverBudget(call.n, Demote8(d16, h), call.budget)}
  <2>10. d16 = At(i, 0)
    BY <2>3, <2>9, DemoteAt
  <2>11. Downgraded(call.n, Start, call.budget) = Demote8(d16, Min(fits8 \cup {top8}))
    BY DEF Downgraded
  <2> HIDE DEF d16
  <2>12. /\ d16.c8 = (Start.c8 + i * Tile16) - 0
         /\ sizes.c8 = (Start.c8 + i * Tile16) - j * Tile8
         /\ j * Tile8 \in Nat
    <3>1. 0 * Tile8 = 0
      BY <2>3
    <3> QED BY <2>2, <2>3, <2>10, <3>1, Product DEF At
  <2>13. d16.c8 \in Nat /\ sizes.c8 = d16.c8 - j * Tile8
    BY <2>3, <2>5, <2>12
  <2>14. top8 \in Nat
    BY <2>3, <2>13, Division
  <2>15. j <= top8
    <3>1. j * Tile8 <= d16.c8
      BY <2>3, <2>12, <2>13
    <3> QED BY <2>3, <2>13, <3>1, QuotientBound
  <2>16. sizes.c8 < Tile8 => j = top8
    <3> SUFFICES ASSUME sizes.c8 < Tile8, j # top8 PROVE FALSE
      OBVIOUS
    <3>1. j + 1 <= top8
      <4> HIDE DEF top8
      <4> QED BY <2>14, <2>15
    <3>2. (j + 1) * Tile8 <= d16.c8
      <4> DEFINE next == j + 1
      <4>1. next \in Nat /\ next <= top8
        BY <3>1
      <4> HIDE DEF next
      <4>2. next * Tile8 <= d16.c8
        BY <2>3, <2>13, <4>1, QuotientBound
      <4> QED BY <4>2 DEF next
    <3>3. (j + 1) * Tile8 = j * Tile8 + Tile8
      BY <2>3
    <3> QED BY <2>3, <2>12, <2>13, <3>2, <3>3
  <2>17. \A h \in 0 .. top8 : h \in fits8 <=> ~OverAt(i, h)
    <3> TAKE h \in 0 .. top8
    <3>1. Demote8(d16, h) = At(i, h)
      BY <2>3, <2>10, DemoteAt
    <3> HIDE DEF top8
    <3> QED BY <3>1 DEF OverAt
  <2>18. Min(fits8 \cup {top8}) = j
    <3> DEFINE S == fits8 \cup {top8}
    <3>1. \A h \in S : h \in Nat
      BY <2>14
    <3>2. j \in S
      <4>1. CASE OverAt(i, j)
        BY <2>2, <2>16, <4>1
      <4>2. CASE ~OverAt(i, j)
        <5>1. j \in 0 .. top8
          BY <2>14, <2>15
        <5> QED BY <2>17, <4>2, <5>1
      <4> QED BY <4>1, <4>2
    <3>3. \A h \in S : j <= h
      <4> SUFFICES ASSUME NEW h \in fits8, h < j PROVE FALSE
        BY <2>15, <3>1
      <4>1. h \in 0 .. top8 /\ h \in Nat
        BY <2>14
      <4> QED BY <2>2, <2>17, <4>1
    <3> HIDE DEF S
    <3>4. \A h \in S : h \in Int
      BY <3>1
    <3>5. Min(S) = j
      BY <3>2, <3>3, <3>4, MinIs
    <3> QED BY <3>5 DEF S
  <2>19. Demote8(d16, j) = At(i, j)
    BY <2>3, <2>10, DemoteAt
  <2> HIDE DEF fits8, top8
  <2> QED BY <2>2, <2>11, <2>18, <2>19
<1> QED BY <1>1, LoopHolds, PTL
===============================================================================
