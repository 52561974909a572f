--------------------------- MODULE ChannelAllocation ---------------------------
(***************************************************************************)
(* Which output channels of which layers keep FP16 or INT8 weights and     *)
(* which go to INT4 (mixllm/quantization/three_level.py).                  *)
(*                                                                         *)
(* A request is for one layer or for all of them with a share of channels  *)
(* per precision (allocate_channels, allocate_model_channels), or for all  *)
(* of them with an average number of bits (allocate_model_channels_auto).  *)
(* A channel is <<layer, index>>; layers are numbered in the order of      *)
(* their names.  Losses are seen through what an upgrade gains.  What      *)
(* floating point decides between equal fractions of a channel is left     *)
(* open.                                                                   *)
(***************************************************************************)
EXTENDS Integers, Sequences, FiniteSets, FiniteSetsExt

CONSTANTS
  Models,      \* output channels of each layer, for every model considered
  Benefits,    \* what an upgrade of a channel can gain
  Budgets,     \* percentages of channels per precision
  Minimums,    \* non-INT4 channels each layer must get
  Alignments,  \* block sizes
  Averages     \* average number of bits asked for, in hundredths

Levels   == {4, 8, 16}
Upgraded == {8, 16}
\* ThreeLevelBudget accepts nothing else.
IsBudget(b) == /\ b \in [Levels -> Nat]
               /\ b[4] + b[8] + b[16] = 100

ASSUME ModelsAssumption  == Models \subseteq Seq(Nat \ {0}) \ {<<>>}
ASSUME BudgetsAssumption == \A b \in Budgets : IsBudget(b)
ASSUME InputsAssumption ==
  /\ Minimums \subseteq Seq(Nat)
  /\ \A a \in Alignments : a \in Nat \ {0}
  /\ \A a \in Averages : a \in Nat /\ 400 <= a /\ a <= 1600
  /\ Benefits \subseteq Int

VARIABLES
  request,    \* the function that was called and its arguments
  benefit,    \* what moving a channel up to 8 or to 16 bits gains
  counts,     \* channels per precision, of the budget or at the end
  chosen,     \* channels of each precision
  layer,      \* the layer whose minimum is being met
  remaining,  \* bits not spent
  percent,    \* the percentages reported
  pc

vars == <<request, benefit, counts, chosen, layer, remaining, percent, pc>>

Requests ==
  [kind : {"layer"}, widths : Models, budget : Budgets, alignment : Alignments]
    \cup {r \in [kind : {"model"}, widths : Models, budget : Budgets,
                alignment : Alignments, minimums : Minimums] :
            Len(r.minimums) = Len(r.widths)}
    \cup [kind : {"bits"}, widths : Models, average : Averages,
          alignment : Alignments]

Layer == DOMAIN request.widths
Of(l) == {l} \X (0 .. request.widths[l] - 1)

Channels == UNION {Of(l) : l \in IF request.kind = "layer" THEN {1} ELSE Layer}
Total    == Cardinality(Channels)

\* The bits all channels may take together.
Bits == (request.average * Total) \div 100

(***************************************************************************)
(* Rounding                                                                *)
(***************************************************************************)
OrdersLeastFirst(left) ==
  {o \in [1 .. 3 -> Levels] :
     /\ {o[i] : i \in 1 .. 3} = Levels
     /\ left[o[1]] <= left[o[2]] /\ left[o[2]] <= left[o[3]]}

\* The precisions by what rounding down left of them, most first.
Orders(left) ==
  {o \in [1 .. 3 -> Levels] :
     /\ {o[i] : i \in 1 .. 3} = Levels
     /\ left[o[1]] >= left[o[2]] /\ left[o[2]] >= left[o[3]]}

Share(bit)  == Total * request.budget[bit]     \* in hundredths of a channel
Blocks(bit) == Share(bit) \div (100 * request.alignment)

RoundedCountsWithoutTail ==
  LET base == [bit \in Levels |-> Blocks(bit) * request.alignment]
      rest == Total - (base[4] + base[8] + base[16])
  IN  {[bit \in Levels |->
          base[bit] + IF \E i \in 1 .. rest \div request.alignment : o[i] = bit
                        THEN request.alignment ELSE 0]
       : o \in Orders([bit \in Levels |-> Share(bit) - 100 * base[bit]])}

\* Whole blocks, then another block for the precisions that lost most, and the
\* tail for the first of them.
RoundedCounts ==
  LET base == [bit \in Levels |-> Blocks(bit) * request.alignment]
      rest == Total - (base[4] + base[8] + base[16])
  IN  {[bit \in Levels |->
          base[bit]
            + (IF \E i \in 1 .. rest \div request.alignment : o[i] = bit
                 THEN request.alignment ELSE 0)
            + (IF o[1] = bit THEN rest % request.alignment ELSE 0)]
       : o \in Orders([bit \in Levels |-> Share(bit) - 100 * base[bit]])}

(***************************************************************************)
(* Ranking                                                                 *)
(***************************************************************************)
\* Whether x comes before y when channels are ranked by the gain of an upgrade.
Before(bit, x, y) ==
  \/ benefit[bit][x] > benefit[bit][y]
  \/ /\ benefit[bit][x] = benefit[bit][y]
     /\ IF request.kind = "model"
          THEN x[1] > y[1] \/ (x[1] = y[1] /\ x[2] > y[2])
          ELSE x[2] < y[2]

Top(S, n, bit) ==
  {x \in S : Cardinality({y \in S : Before(bit, y, x)}) < n}

Init ==
  /\ request \in Requests
  /\ benefit \in [Upgraded -> [Channels -> Benefits]]
  /\ counts = [bit \in Levels |-> 0]
  /\ chosen = [bit \in Levels |->
                 IF bit = 4 /\ request.kind = "bits" THEN Channels ELSE {}]
  /\ layer = 1
  /\ remaining = IF request.kind = "bits" THEN Bits - 4 * Total ELSE 0
  /\ percent = [bit \in Levels |-> 0]
  /\ pc = IF request.kind = "bits" THEN "upgrade" ELSE "rank"

(***************************************************************************)
(* allocate_channels and allocate_model_channels                           *)
(***************************************************************************)
Malformed ==
  /\ request.kind = "model"
  /\ \E l \in Layer : \/ request.alignment > 1 /\ request.widths[l] < request.alignment
                      \/ request.minimums[l] > request.widths[l]

\* One place for every channel a minimum calls for.
Required == UNION {{l} \X (1 .. request.minimums[l]) : l \in Layer}

TooManyRequired(c) ==
  /\ request.kind = "model"
  /\ Cardinality(Required) > c[8] + c[16]

\* FP16 first, then INT8 among the others.
Rank ==
  /\ pc = "rank"
  /\ \E c \in RoundedCounts :
       IF Malformed \/ TooManyRequired(c)
         THEN pc' = "refused" /\ UNCHANGED <<counts, chosen>>
         ELSE LET fp16 == Top(Channels, c[16], 16)
              IN  /\ counts' = c
                  /\ chosen' = [chosen EXCEPT
                       ![16] = fp16, ![8] = Top(Channels \ fp16, c[8], 8)]
                  /\ pc' = IF request.kind = "model" THEN "minimums" ELSE "finish"
  /\ UNCHANGED <<request, benefit, layer, remaining, percent>>

Selected(l) == Cardinality((chosen[8] \cup chosen[16]) \cap Of(l))
Deficient   == Selected(layer) < request.minimums[layer]

NextLayer ==
  /\ pc = "minimums"
  /\ ~Deficient
  /\ IF layer = Len(request.widths)
       THEN pc' = "finish" /\ UNCHANGED layer
       ELSE layer' = layer + 1 /\ UNCHANGED pc
  /\ UNCHANGED <<request, benefit, counts, chosen, remaining, percent>>

DonorsAtTheirMinimum(bit) ==
  {x \in chosen[bit] : Selected(x[1]) >= request.minimums[x[1]]}

DonorsOfAnyLayer(bit) == chosen[bit]

Donors(bit) ==
  {x \in chosen[bit] : Selected(x[1]) > request.minimums[x[1]]}

\* What the deficient layer can take in, and at which precision.
Candidates ==
  {c \in (Of(layer) \ (chosen[8] \cup chosen[16])) \X Upgraded :
     Donors(c[2]) # {}}

\* Candidates are tried by (benefit, precision, index), the highest first.
Stronger(c, d) ==
  LET gain(e) == benefit[e[2]][e[1]]
  IN  \/ gain(c) > gain(d)
      \/ gain(c) = gain(d) /\ c[2] > d[2]
      \/ gain(c) = gain(d) /\ c[2] = d[2] /\ c[1][2] > d[1][2]

\* The donor is the least by (benefit, layer, index).
Weaker(bit, x, y) ==
  \/ benefit[bit][x] < benefit[bit][y]
  \/ /\ benefit[bit][x] = benefit[bit][y]
     /\ x[1] < y[1] \/ (x[1] = y[1] /\ x[2] < y[2])

SwapAcrossPrecisions ==
  /\ pc = "minimums"
  /\ Deficient
  /\ \/ /\ Candidates = {}
        /\ pc' = "failed"
        /\ UNCHANGED chosen
     \/ \E c \in Candidates :
          /\ \A d \in Candidates \ {c} : Stronger(c, d)
          /\ LET bit == c[2]
             IN  \E out \in Donors(bit) :
                   /\ \A x \in Donors(bit) \ {out} : Weaker(bit, out, x)
                   /\ chosen' = [chosen EXCEPT ![bit] = @ \ {out},
                                               ![8] = (@ \ {out}) \cup {c[1]}]
          /\ UNCHANGED pc
  /\ UNCHANGED <<request, benefit, counts, layer, remaining, percent>>

\* The strongest candidate replaces the weakest channel of its precision in a
\* layer that stays above its minimum.
Swap ==
  /\ pc = "minimums"
  /\ Deficient
  /\ \/ /\ Candidates = {}
        /\ pc' = "failed"
        /\ UNCHANGED chosen
     \/ \E c \in Candidates :
          /\ \A d \in Candidates \ {c} : Stronger(c, d)
          /\ LET bit == c[2]
             IN  \E out \in Donors(bit) :
                   /\ \A x \in Donors(bit) \ {out} : Weaker(bit, out, x)
                   /\ chosen' = [chosen EXCEPT ![bit] = (@ \ {out}) \cup {c[1]}]
          /\ UNCHANGED pc
  /\ UNCHANGED <<request, benefit, counts, layer, remaining, percent>>

\* The rest is INT4; verify() refuses a result that is no partition, and
\* allocate_channels one that misses its counts.
Finish ==
  /\ pc = "finish"
  /\ LET rest == Channels \ (chosen[8] \cup chosen[16])
     IN  /\ chosen' = [chosen EXCEPT ![4] = rest]
         /\ pc' = IF \/ chosen[8] \cap chosen[16] # {}
                     \/ /\ request.kind = "layer"
                        /\ Cardinality(rest) # counts[4]
                    THEN "failed" ELSE "done"
  /\ UNCHANGED <<request, benefit, counts, layer, remaining, percent>>

(***************************************************************************)
(* allocate_model_channels_auto                                            *)
(***************************************************************************)
Target(source) == 2 * source
Cost(source)   == source * request.alignment

MovableInPart ==
  {m \in {4, 8} \X Layer :
     /\ Cost(m[1]) <= remaining
     /\ chosen[m[1]] \cap Of(m[2]) # {}}

\* A layer gives a whole block or nothing.
Movable ==
  {m \in {4, 8} \X Layer :
     /\ Cost(m[1]) <= remaining
     /\ Cardinality(chosen[m[1]] \cap Of(m[2])) >= request.alignment}

BatchByIndex(source, l) ==
  {x \in chosen[source] \cap Of(l) :
     Cardinality({y \in chosen[source] \cap Of(l) : y[2] < x[2]})
       < request.alignment}

Batch(source, l) ==
  Top(chosen[source] \cap Of(l), request.alignment, Target(source))

\* Gain per bit, over the cost of the dearer move.
Value(m) ==
  (8 \div m[1]) *
    MapThenSumSet(LAMBDA x : benefit[Target(m[1])][x], Batch(m[1], m[2]))

Preferred(m, n) ==
  \/ Value(m) > Value(n)
  \/ /\ Value(m) = Value(n)
     /\ m[1] < n[1] \/ (m[1] = n[1] /\ m[2] < n[2])

UpgradeWithoutPaying ==
  /\ pc = "upgrade"
  /\ \E m \in Movable :
       /\ \A n \in Movable \ {m} : Preferred(m, n)
       /\ LET batch == Batch(m[1], m[2])
          IN  chosen' = [chosen EXCEPT ![m[1]] = @ \ batch,
                                       ![Target(m[1])] = @ \cup batch]
       /\ remaining' = remaining - m[1]
  /\ UNCHANGED <<request, benefit, counts, layer, percent, pc>>

\* The block that gains most per bit moves up one precision.
Upgrade ==
  /\ pc = "upgrade"
  /\ \E m \in Movable :
       /\ \A n \in Movable \ {m} : Preferred(m, n)
       /\ LET batch == Batch(m[1], m[2])
          IN  chosen' = [chosen EXCEPT ![m[1]] = @ \ batch,
                                       ![Target(m[1])] = @ \cup batch]
       /\ remaining' = remaining - Cost(m[1])
  /\ UNCHANGED <<request, benefit, counts, layer, percent, pc>>

\* Percentages rounded down, and one more for those that lost most until they
\* make 100, which ThreeLevelBudget insists on.
Report ==
  /\ pc = "upgrade"
  /\ Movable = {}
  /\ counts' = [bit \in Levels |-> Cardinality(chosen[bit])]
  /\ LET down == [bit \in Levels |-> (100 * counts'[bit]) \div Total]
         lost == [bit \in Levels |-> (100 * counts'[bit]) % Total]
         more == 100 - (down[4] + down[8] + down[16])
     IN  \E o \in Orders(lost) :
           /\ percent' = [bit \in Levels |->
                down[bit] + IF \E i \in 1 .. more : i <= 3 /\ o[i] = bit
                              THEN 1 ELSE 0]
           /\ pc' = IF IsBudget(percent') THEN "done" ELSE "failed"
  /\ UNCHANGED <<request, benefit, chosen, layer, remaining>>

Next == Rank \/ NextLayer \/ Swap \/ Finish \/ Upgrade \/ Report

\* The allocator runs on.
Spec == Init /\ [][Next]_vars /\ WF_vars(Next)

(***************************************************************************)
(* Properties                                                              *)
(***************************************************************************)

\* A request that is not refused at once is met: the swaps never run out of
\* donors, the result is a partition with the counts of the budget, and the
\* percentages that are reported make 100.
NeverFails == pc # "failed"

\* Rounding and swaps keep the number of channels of each precision, for the
\* whole model, and lose no channel.
ExactCounts ==
  pc = "done" =>
    /\ \A bit \in Levels : Cardinality(chosen[bit]) = counts[bit]
    /\ UNION {chosen[bit] : bit \in Levels} = Channels
    /\ counts[4] + counts[8] + counts[16] = Total

\* Every layer gets its minimum, also one that gave channels to another.
MinimumsMet ==
  pc = "done" /\ request.kind = "model" =>
    \A l \in Layer : Selected(l) >= request.minimums[l]

\* The bits that remain are those the channels have not taken, and at the end
\* no layer has a block that they would pay for.
BudgetSpent ==
  request.kind = "bits" =>
    /\ remaining >= 0
    /\ 4 * Cardinality(chosen[4]) + 8 * Cardinality(chosen[8])
         + 16 * Cardinality(chosen[16]) + remaining = Bits
    /\ pc = "done" => Movable = {}

\* Each layer moves whole blocks only.
BlocksAligned ==
  request.kind = "bits" =>
    \A l \in Layer, bit \in Upgraded :
      Cardinality(chosen[bit] \cap Of(l)) % request.alignment = 0

\* Within a layer no channel stays at INT4 that would have gained more from
\* the move to INT8 than one that was moved.
StrongestUpgraded ==
  request.kind = "bits" =>
    \A x \in chosen[4], y \in chosen[8] \cup chosen[16] :
      x[1] = y[1] => benefit[8][x] <= benefit[8][y]

\* The percentages reported are less than one off, and a precision without
\* channels is not reported.
PercentagesHonest ==
  pc = "done" /\ request.kind = "bits" =>
    \A bit \in Levels :
      /\ percent[bit] * Total > 100 * counts[bit] - Total
      /\ percent[bit] * Total < 100 * counts[bit] + Total
      /\ counts[bit] = 0 => percent[bit] = 0

\* The allocator ends: the swaps do not go round in circles.
Ends == <>(pc \in {"done", "refused", "failed"})
===============================================================================
