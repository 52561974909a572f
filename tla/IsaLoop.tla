-------------------------------- MODULE IsaLoop --------------------------------
(***************************************************************************)
(* isa_match_cluster_sizes (polyq/isa_matching.py) step by step: round the *)
(* wanted sizes down to tiles, then demote one tile at a time while the    *)
(* layer is over its budget.  IsaMatching states in one expression where   *)
(* this loop ends; the runs compare the two.                               *)
(***************************************************************************)
EXTENDS IsaMatching

CONSTANTS
  Channels,  \* numbers of input channels a layer can have
  Ratios,    \* pairs of percentages (FP16, INT8) that add up to at most 100
  Budgets,   \* average-bits budgets, in hundredths of a bit
  Group      \* quantization group size

ASSUME LoopAssumption ==
  /\ Channels \subseteq Nat \ {0}
  /\ \A r \in Ratios : r[1] \in Nat /\ r[2] \in Nat /\ r[1] + r[2] <= 100
  /\ Budgets \subseteq Nat
  /\ Group \in Nat \ {0}

VARIABLES
  call,   \* the arguments: channels, wanted ratios, budget
  sizes,  \* k16, k8, k4
  pc      \* "round", "demote" or "done"

vars == <<call, sizes, pc>>

Call == [n : Channels, ratio : Ratios, budget : Budgets]

Init ==
  /\ call \in Call
  /\ sizes = LET k16 == Wanted(call.n, call.ratio[1])
                 k8  == Wanted(call.n, call.ratio[2])
             IN  [c16 |-> k16, c8 |-> k8, c4 |-> call.n - k16 - k8]
  /\ pc = "round"

RoundToTiles ==
  /\ pc = "round"
  /\ sizes' = Rounded(call.n, call.ratio[1], call.ratio[2])
  /\ pc' = "demote"
  /\ UNCHANGED call

\* Mutant: demotes a layer that exactly meets its budget.
OverOrAtBudget == 100 * Cost(sizes) >= call.budget * call.n

Over == OverBudget(call.n, sizes, call.budget)

Demote16To8 ==
  /\ pc = "demote" /\ Over
  /\ sizes.c16 >= Tile16
  /\ sizes' = Demote16(sizes, 1)
  /\ UNCHANGED <<call, pc>>

\* Mutant: C8 loses tiles before C16 is used up.
Demote8To4Early ==
  /\ pc = "demote" /\ Over
  /\ sizes.c8 >= Tile8
  /\ sizes' = Demote8(sizes, 1)
  /\ UNCHANGED <<call, pc>>

Demote8To4 ==
  /\ pc = "demote" /\ Over
  /\ sizes.c16 < Tile16 /\ sizes.c8 >= Tile8
  /\ sizes' = Demote8(sizes, 1)
  /\ UNCHANGED <<call, pc>>

\* Mutant: no exit while the layer is over its budget.
StopWhenFitting ==
  /\ pc = "demote"
  /\ ~Over
  /\ pc' = "done"
  /\ UNCHANGED <<call, sizes>>

\* Mutant: gives up as soon as C16 has no whole tile.
StopAfterC16 ==
  /\ pc = "demote"
  /\ ~Over \/ sizes.c16 < Tile16
  /\ pc' = "done"
  /\ UNCHANGED <<call, sizes>>

Stop ==
  /\ pc = "demote"
  /\ ~Over \/ (sizes.c16 < Tile16 /\ sizes.c8 < Tile8)
  /\ pc' = "done"
  /\ UNCHANGED <<call, sizes>>

Next == RoundToTiles \/ Demote16To8 \/ Demote8To4 \/ Stop

\* One thread runs the loop and nothing in it blocks.
Spec == Init /\ [][Next]_vars /\ WF_vars(Next)

--------------------------------------------------------------------------------
(* Whatever the loop has done, every input channel is in one cluster.       *)
TypeOK ==
  /\ call \in Call
  /\ sizes \in Sizes(call.n)
  /\ sizes.c16 + sizes.c8 + sizes.c4 = call.n
  /\ pc \in {"round", "demote", "done"}

(* The closed form the pipeline's model uses is where the loop ends.       *)
(* isa_matching.py:155-172.                                                *)
EndsAsStated ==
  pc = "done" =>
    sizes = IsaSizes(call.n, call.ratio[1], call.ratio[2], call.budget)

(* "never violates the global memory budget" (isa_matching.py:30): although*)
(* the loop may break while still over budget, it never does when the      *)
(* budget allows INT4 everywhere.                                          *)
NeverOverBudget == pc = "done" /\ call.budget >= 400 =>
    ~OverBudget(call.n, sizes, call.budget)

(* Channels lose precision only while they must: giving the last tile back *)
(* would exceed the budget.                                                *)
NoNeedlessDemotion ==
  LET start == Rounded(call.n, call.ratio[1], call.ratio[2])
  IN  pc = "done" =>
        /\ sizes.c4 > start.c4 =>
             OverBudget(call.n, Demote8(sizes, -1), call.budget)
        /\ sizes.c4 = start.c4 /\ sizes.c16 < start.c16 =>
             OverBudget(call.n, Demote16(sizes, -1), call.budget)

(* Step 8 quantizes the INT8 and INT4 segments in groups and refuses a     *)
(* segment that is not a whole number of them (quantize/mixed.py:190).     *)
SegmentsAlign ==
  pc = "done" /\ call.n % Group = 0 =>
    sizes.c8 % Group = 0 /\ sizes.c4 % Group = 0

(* The loop ends for every layer. *)
Terminates == <>(pc = "done")
================================================================================
