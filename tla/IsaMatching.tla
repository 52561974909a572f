------------------------------ MODULE IsaMatching ------------------------------
(***************************************************************************)
(* The cluster sizes of a layer: how many of its input channels are kept   *)
(* in FP16 (c16), in INT8 (c8) and in INT4 (c4), rounded to the tiles of   *)
(* the tensor cores.  polyq/isa_matching.py decides the sizes of step 3.5; *)
(* permutation/decoupled.py decides them when that step is skipped.        *)
(* Ratios are in percent and budgets in hundredths of a bit.               *)
(***************************************************************************)
EXTENDS Integers, FiniteSetsExt

CONSTANTS Tile16, Tile8

ASSUME TileAssumption == {Tile16, Tile8} \subseteq Nat \ {0}

Sizes(n) == [c16 : 0 .. n, c8 : 0 .. n, c4 : 0 .. n]

\* Bits the layer spends on one row of its weight.
Cost(k) == 16 * k.c16 + 8 * k.c8 + 4 * k.c4

OverBudget(n, k, budget) == 100 * Cost(k) > budget * n

RoundDown(x, tile) == (x \div tile) * tile

(* int(n * r): what a ratio asks for before any rounding. *)
Wanted(n, percent) == (n * percent) \div 100

\* Mutants: the leftover channels are dropped; only C16 is cut to whole tiles.
RoundedDroppingLeftover(n, r16, r8) ==
  LET k16 == RoundDown(Wanted(n, r16), Tile16)
      k8  == RoundDown(Wanted(n, r8), Tile8)
  IN  [c16 |-> k16, c8 |-> k8,
       c4 |-> RoundDown(n - Wanted(n, r16) - Wanted(n, r8), Tile8)]

RoundedC16Only(n, r16, r8) ==
  LET k16 == RoundDown(Wanted(n, r16), Tile16)
      k8  == Wanted(n, r8)
  IN  [c16 |-> k16, c8 |-> k8, c4 |-> n - k16 - k8]

(***************************************************************************)
(* Both callers round each cluster down and then try to fill C16 and C8 up *)
(* to a tile: a size just rounded down is a multiple of its tile, so the   *)
(* fill is 0 and every leftover channel goes to C4.                        *)
(***************************************************************************)
Rounded(n, r16, r8) ==
  LET k16 == RoundDown(Wanted(n, r16), Tile16)
      k8  == RoundDown(Wanted(n, r8), Tile8)
  IN  [c16 |-> k16, c8 |-> k8, c4 |-> n - k16 - k8]

Demote16(k, i) == [k EXCEPT !.c16 = @ - i * Tile16, !.c8 = @ + i * Tile16]
Demote8(k, j)  == [k EXCEPT !.c8 = @ - j * Tile8, !.c4 = @ + j * Tile8]

(***************************************************************************)
(* Whole tiles go from C16 to C8 first, then from C8 to C4, one at a time  *)
(* until the layer fits the budget or no whole tile is left to demote.     *)
(***************************************************************************)
Downgraded(n, k, budget) ==
  LET fits16 == {i \in 0 .. (k.c16 \div Tile16) :
                   ~OverBudget(n, Demote16(k, i), budget)}
      d16    == Demote16(k, Min(fits16 \cup {k.c16 \div Tile16}))
      fits8  == {j \in 0 .. (d16.c8 \div Tile8) :
                   ~OverBudget(n, Demote8(d16, j), budget)}
  IN  Demote8(d16, Min(fits8 \cup {d16.c8 \div Tile8}))

IsaSizes(n, r16, r8, budget) == Downgraded(n, Rounded(n, r16, r8), budget)
================================================================================
