------------------------------ MODULE ShmqPipeline ------------------------------
(***************************************************************************)
(* The SHMQ pipeline (src/shmq/pipeline.py and the modules it calls) as it *)
(* rewrites a model in place: the order of every layer's input channels,   *)
(* the order its input arrives in, and the precision every column of its   *)
(* weight has been through.                                                *)
(*                                                                         *)
(* A channel is a block of input channels that stay together (one tile).   *)
(* An order maps a position to the channel found there: cols[l] is the     *)
(* order of the columns of layer l, gather[n] the order in which norm n    *)
(* emits the residual stream, hook[l] the gather a forward pre-hook applies*)
(* to the input of a layer no norm feeds.  The model computes what it      *)
(* computed before as long as every layer receives its input in the order  *)
(* of its columns; every calibration forward relies on that.               *)
(***************************************************************************)
EXTENDS IsaMatching, FiniteSets, Functions

CONSTANTS
  Layers,     \* the Linear layers of the model
  Selected,   \* the layers no excluded keyword names
  Groups,     \* what permutes together: parallel groups, other layers alone
  Norms,      \* the RMSNorms
  NormOf,     \* the norm that feeds each layer, NoNorm for o_proj, down_proj
  NoNorm,
  Block,      \* the transformer block of each layer
  Channels,   \* 1 .. N for the N tiles of input channels
  Params,     \* parameters of each layer, in units of a tile's
  Group,      \* quantization group size, in tiles
  Ratio16, Ratio8,  \* intra_layer_hp_ratio_16 and _8, in percent
  Target, Floor,    \* average-bits budget and floor, in hundredths of a bit
  Tolerance,  \* isa_drift_tolerance, in hundredths of a bit
  SensChoices,   \* bound: sensitivities a layer can have, Channels -> Nat
  MetricChoices, \* bound: permutation metrics a layer can have
  Skips,      \* sets of steps run() is told to skip, or the config disables
  None        \* a result no step has computed

N     == Cardinality(Channels)
Order == {p \in [Channels -> Channels] : IsInjective(p)}
Id    == [c \in Channels |-> c]
Bits  == {4, 8, 16}

\* W[:, p]: column j is what column p[j] was.
Permuted(order, p) == [j \in Channels |-> order[p[j]]]

GroupOf(l) == CHOOSE g \in Groups : l \in g

Steps == {"smooth", "sensitivity", "ilp", "isa", "permutation", "fusion",
          "autoround", "sqc", "quantize", "convert"}

ASSUME ChannelsAssumption == Channels = 1 .. N /\ N \in Nat \ {0}
ASSUME LayersAssumption ==
  /\ IsFiniteSet(Layers) /\ Selected \subseteq Layers
  /\ NormOf \in [Layers -> Norms \cup {NoNorm}] /\ NoNorm \notin Norms
  /\ Layers \cap Norms = {}
  /\ UNION Groups = Selected
  /\ \A g, h \in Groups : g # h => g \cap h = {}
\* The shares of pipeline.py:276 leave a share for INT4.
ASSUME RatiosAssumption ==
  /\ Ratio16 \in Nat /\ Ratio8 \in Nat /\ Ratio16 + Ratio8 <= 100
  /\ Target \in Nat
\* Manhattan norms of the columns (manhattan.py).
ASSUME ScoresAssumption == SensChoices \subseteq [Channels -> Nat]
ASSUME NoneAssumption ==
  None \notin Order /\ None \notin Sizes(N) /\ None # "conflicting permutations"
\* A caller that permutes the weights also propagates the permutation.
ASSUME SkipsAssumption ==
  /\ Skips \subseteq SUBSET Steps
  /\ \A s \in Skips : "fusion" \in s => {"permutation", "sensitivity"} \cap s # {}

VARIABLES
  pc,       \* the step about to run, "done", or "failed" by an exception
  error,    \* what was raised
  skip,     \* skip_steps, and the steps the config disables
  asserts,  \* config.enable_hardening_asserts
  scaled,   \* norms and layers SmoothQuant has rescaled
  sens,     \* channel_sensitivities of each layer, by original channel
  bits,     \* bit_allocation
  solved,   \* the ILP has run
  isa,      \* cluster sizes of step 3.5
  metric,   \* permutation metric of each layer
  cols, gather, hook,
  perm,     \* permutation_indices
  sizes,    \* cluster_sizes
  fused,    \* norms replaced by a PermutedRMSNorm
  wrapped,  \* layers AutoRound has replaced by a WrapperLinear
  rounded,  \* blocks AutoRound is done with
  prec,     \* fewest bits each column has been quantized to
  quantized, converted  \* layers steps 8 and 9 are done with

setup  == <<skip, asserts>>
plan   == <<sens, bits, solved, isa, metric>>
layout == <<cols, gather, hook, perm, sizes, fused>>
tail   == <<wrapped, rounded, prec, quantized, converted>>
vars   == <<pc, error, setup, scaled, plan, layout, tail>>

Untouched == [j \in Channels |-> 16]

Init ==
  /\ pc = "smooth" /\ error = None
  /\ skip \in Skips /\ asserts \in BOOLEAN
  /\ scaled = {}
  /\ sens = None /\ metric = None /\ isa = None
  /\ bits = [l \in Layers |-> 4] /\ solved = FALSE
  /\ cols = [l \in Layers |-> Id]
  /\ gather = [n \in Norms |-> Id]
  /\ hook = [l \in Layers |-> None]
  /\ perm = [l \in Layers |-> None]
  /\ sizes = [l \in Layers |-> None]
  /\ fused = {} /\ wrapped = {} /\ rounded = {}
  /\ prec = [l \in Layers |-> Untouched]
  /\ quantized = {} /\ converted = {}

Fail(what) == pc' = "failed" /\ error' = what
Goto(step) == pc' = step /\ UNCHANGED error

\* run() passes over a step it was told to skip; a disabled step returns at once.
Follows ==
  [smooth |-> "sensitivity", sensitivity |-> "ilp", ilp |-> "isa",
   isa |-> "permutation", permutation |-> "fusion", fusion |-> "autoround",
   autoround |-> "sqc", sqc |-> "quantize", quantize |-> "convert",
   convert |-> "done"]

SkipStep ==
  /\ pc \in skip
  /\ Goto(Follows[pc])
  /\ UNCHANGED <<setup, scaled, plan, layout, tail>>

Runs(step) == pc = step /\ step \notin skip

--------------------------------------------------------------------------------
(* Steps 1 to 3.5: what the permutation is planned from.                   *)

Readers(n) == {l \in Layers : NormOf[l] = n}

\* ln.weight /= s for the norms of the selected layers, W[:, j] *= s for these.
SmoothQuant ==
  /\ Runs("smooth")
  /\ LET smoothed == {l \in Selected : NormOf[l] # NoNorm}
     IN  scaled' = smoothed \cup {NormOf[l] : l \in smoothed}
  /\ Goto("sensitivity")
  /\ UNCHANGED <<setup, plan, layout, tail>>

\* The sensitivity of a channel is added up over the rows of its whole group.
GroupSum(intra, g, c) == MapThenSumSet(LAMBDA m : intra[m][c], g)

Sensitivity ==
  /\ Runs("sensitivity")
  /\ \E intra \in [Selected -> SensChoices] :
       sens' = [l \in Selected |-> [c \in Channels |-> GroupSum(intra, GroupOf(l), c)]]
  /\ Goto("ilp")
  /\ UNCHANGED <<setup, scaled, bits, solved, isa, metric, layout, tail>>

Total(f) == MapThenSumSet(LAMBDA l : f[l], Selected)
Weighted(b) == [l \in Selected |-> Params[l] * b[l]]

\* Allocations the solver can return: within the constraints, or all 4-bit when
\* it finds none (every variable is then None and argmax picks the first).
Allocations ==
  LET equal == {b \in [Layers -> Bits] :
                  /\ \A g \in Groups : \A l, m \in g : b[l] = b[m]
                  /\ \A l \in Layers \ Selected : b[l] = 4}
  IN  {b \in equal : /\ 100 * Total(Weighted(b)) <= Target * Total(Params)
                     /\ 100 * Total(Weighted(b)) >= Floor * Total(Params)}
      \cup {[l \in Layers |-> 4]}

SolveIlp ==
  /\ Runs("ilp")
  /\ bits' \in Allocations
  /\ solved' = TRUE
  /\ Goto("isa")
  /\ UNCHANGED <<setup, scaled, sens, isa, metric, layout, tail>>

\* Mutant: the FP16 share of 4-bit layers leaks into 8-bit ones.
InitialRatiosLeaking(b) == CASE b = 16 -> <<100, 0>>
                             [] b = 8  -> <<Ratio16, 100>>
                             [] b = 4  -> <<Ratio16, Ratio8>>

InitialRatios(b) == CASE b = 16 -> <<100, 0>>
                      [] b = 8  -> <<0, 100>>
                      [] b = 4  -> <<Ratio16, Ratio8>>

MatchIsa ==
  /\ Runs("isa")
  /\ isa' = [l \in Selected |->
              LET r == InitialRatios(bits[l]) IN IsaSizes(N, r[1], r[2], Target)]
  /\ Goto("permutation")
  /\ UNCHANGED <<setup, scaled, sens, bits, solved, metric, layout, tail>>

--------------------------------------------------------------------------------
(* Step 4: reorder the columns of every weight.                            *)

\* The activations are captured before anything moves; the metric is their
\* magnitude times that of the weight, channel by channel.
CaptureMetric ==
  /\ Runs("permutation")
  /\ metric' \in [Selected -> MetricChoices]
  /\ Goto("permute")
  /\ UNCHANGED <<setup, scaled, sens, bits, solved, isa, layout, tail>>

GroupSens(g)   == [c \in Channels |-> Max({sens[l][c] : l \in g})]
GroupMetric(g) == [c \in Channels |-> Max({metric[l][c] : l \in g})]

\* The precision of the cluster position j lies in: [ C16 | C8 | C4 ].
LevelAt(k, j) == IF j <= k.c16 THEN 16 ELSE IF j <= k.c16 + k.c8 THEN 8 ELSE 4

\* Mutant: the least sensitive channels first.
LegalOrdersAscending(s, m, k) ==
  {p \in Order : \A i, j \in Channels :
     i < j => IF LevelAt(k, i) = LevelAt(k, j) THEN m[p[i]] >= m[p[j]]
                                               ELSE s[p[i]] <= s[p[j]]}

\* The most sensitive channels first, each cluster by descending metric; ties
\* fall either way.
LegalOrders(s, m, k) ==
  {p \in Order : \A i, j \in Channels :
     i < j => IF LevelAt(k, i) = LevelAt(k, j) THEN m[p[i]] >= m[p[j]]
                                               ELSE s[p[i]] >= s[p[j]]}

GroupSizes(g) ==
  LET r == InitialRatios(Max({bits[l] : l \in g}))
  IN  IF isa = None THEN Rounded(N, r[1], r[2]) ELSE isa[CHOOSE l \in g : TRUE]

PermuteGroup(g) ==
  /\ pc = "permute" /\ sens # None
  /\ \E l \in g : perm[l] = None
  /\ IF isa # None /\ \E l, m \in g : isa[l] # isa[m]
     THEN /\ Fail("inconsistent ISA cluster sizes")
          /\ UNCHANGED layout
     ELSE \E p \in LegalOrders(GroupSens(g), GroupMetric(g), GroupSizes(g)) :
            /\ cols'  = [l \in Layers |-> IF l \in g THEN Permuted(cols[l], p)
                                                   ELSE cols[l]]
            /\ perm'  = [l \in Layers |-> IF l \in g THEN p ELSE perm[l]]
            /\ sizes' = [l \in Layers |-> IF l \in g THEN GroupSizes(g)
                                                   ELSE sizes[l]]
            /\ UNCHANGED <<pc, error, gather, hook, fused>>
  /\ UNCHANGED <<setup, scaled, plan, tail>>

EndPermute ==
  /\ pc = "permute"
  /\ sens # None => \A l \in Selected : perm[l] # None
  /\ Goto("harden")
  /\ UNCHANGED <<setup, scaled, plan, layout, tail>>

SizedLayers == {l \in Selected : sizes[l] # None}

\* C-1: the clusters agree with the allocation of the whole layer.
AllocationKept ==
  \A l \in SizedLayers :
    /\ bits[l] = 16 => sizes[l].c8 = 0 /\ sizes[l].c4 = 0
    /\ bits[l] = 8 => sizes[l].c4 = 0

\* C-2: average bits of the clusters against those of the ILP, which counts a
\* 4-bit layer as 4 bits throughout.
Drift == MapThenSumSet(LAMBDA l : Params[l] * Cost(sizes[l]), SizedLayers)
           - N * Total(Weighted(bits))

DriftWithin(hundredths) ==
  /\ 100 * Drift <= hundredths * N * Total(Params)
  /\ -100 * Drift <= hundredths * N * Total(Params)

Harden ==
  /\ pc = "harden"
  /\ IF asserts /\ ~(AllocationKept /\ (solved => DriftWithin(Max({Tolerance, 50}))))
     THEN Fail("cluster sizes inconsistent")
     ELSE Goto("fusion")
  /\ UNCHANGED <<setup, scaled, plan, layout, tail>>

--------------------------------------------------------------------------------
(* Step 5: make every input arrive in the new order.                       *)

Unhooked == {l \in Selected : NormOf[l] = NoNorm /\ perm[l] # None /\ hook[l] = None}

InstallHook(l) ==
  /\ Runs("fusion") /\ l \in Unhooked
  /\ hook' = [hook EXCEPT ![l] = perm[l]]
  /\ UNCHANGED <<pc, error, setup, scaled, plan, cols, gather, perm, sizes, fused,
                 tail>>

OrdersFor(n) == {perm[l] : l \in {m \in Readers(n) \cap Selected : perm[m] # None}}

\* Mutant: the permutation of the first reader is taken for all of them.
FuseNormUnchecked(n) ==
  /\ Runs("fusion") /\ Unhooked = {}
  /\ n \notin fused /\ OrdersFor(n) # {}
  /\ \E p \in OrdersFor(n) : gather' = [gather EXCEPT ![n] = p]
  /\ fused' = fused \cup {n}
  /\ UNCHANGED <<pc, error, cols, hook, perm, sizes>>
  /\ UNCHANGED <<setup, scaled, plan, tail>>

\* Mutant: an order is compared with the one the norm emits so far.
FuseNormAgainstGather(n) ==
  /\ Runs("fusion") /\ Unhooked = {}
  /\ n \notin fused /\ OrdersFor(n) # {}
  /\ IF OrdersFor(n) # {gather[n]}
     THEN Fail("conflicting permutations") /\ UNCHANGED layout
     ELSE /\ fused' = fused \cup {n}
          /\ UNCHANGED <<pc, error, cols, gather, hook, perm, sizes>>
  /\ UNCHANGED <<setup, scaled, plan, tail>>

FuseNorm(n) ==
  /\ Runs("fusion") /\ Unhooked = {}
  /\ n \notin fused /\ OrdersFor(n) # {}
  /\ \/ /\ \E p, q \in OrdersFor(n) : p # q
        /\ Fail("conflicting permutations")
        /\ UNCHANGED layout
     \/ /\ \E p \in OrdersFor(n) :
             /\ OrdersFor(n) = {p}
             /\ gather' = [gather EXCEPT ![n] = p]
        /\ fused' = fused \cup {n}
        /\ UNCHANGED <<pc, error, cols, hook, perm, sizes>>
  /\ UNCHANGED <<setup, scaled, plan, tail>>

EndFusion ==
  /\ Runs("fusion") /\ Unhooked = {}
  /\ \A n \in Norms : n \in fused \/ OrdersFor(n) = {}
  /\ Goto("autoround")
  /\ UNCHANGED <<setup, scaled, plan, layout, tail>>

--------------------------------------------------------------------------------
(* Steps 6 and 7: AutoRound block by block, then SQC.                      *)

AtMost(order, b) == [j \in Channels |-> Min({order[j], b})]

FourBit(b) == {l \in Selected : Block[l] = b /\ bits[l] = 4}
Blocks     == Range(Block)

\* The inputs of the block cannot be captured or replayed, or it has no 4-bit layer.
PassBlock(b) ==
  /\ Runs("autoround") /\ wrapped = {} /\ b \notin rounded
  /\ rounded' = rounded \cup {b}
  /\ UNCHANGED <<pc, error, setup, scaled, plan, layout, wrapped, prec, quantized,
                 converted>>

\* From here until the bake the block runs with the wrappers in place.
WrapBlock(b) ==
  /\ Runs("autoround") /\ wrapped = {} /\ b \notin rounded
  /\ FourBit(b) # {}
  /\ wrapped' = FourBit(b)
  /\ UNCHANGED <<pc, error, setup, scaled, plan, layout, rounded, prec, quantized,
                 converted>>

BakeBlock ==
  /\ pc = "autoround" /\ wrapped # {}
  /\ prec' = [l \in Layers |-> IF l \in wrapped THEN AtMost(prec[l], 4) ELSE prec[l]]
  /\ rounded' = rounded \cup {Block[l] : l \in wrapped}
  /\ wrapped' = {}
  /\ UNCHANGED <<pc, error, setup, scaled, plan, layout, quantized, converted>>

EndAutoround ==
  /\ Runs("autoround") /\ wrapped = {} /\ Blocks \subseteq rounded
  /\ Goto("sqc")
  /\ UNCHANGED <<setup, scaled, plan, layout, tail>>

\* Chooses a scale multiplier per layer from its weight and its sensitivity.
Sqc ==
  /\ Runs("sqc")
  /\ Goto("quantize")
  /\ UNCHANGED <<setup, scaled, plan, layout, tail>>

--------------------------------------------------------------------------------
(* Steps 8 and 9: quantize every cluster, then pack.                       *)

\* Activations are captured again, in the order the fused model feeds them.
Recapture ==
  /\ Runs("quantize")
  /\ Goto("gptq")
  /\ UNCHANGED <<setup, scaled, plan, layout, tail>>

QuantizeLayer(l) ==
  /\ pc = "gptq" /\ l \in Selected \ quantized
  /\ IF sizes[l] # None /\ (sizes[l].c8 % Group # 0 \/ sizes[l].c4 % Group # 0)
     THEN Fail("K regions must align to group_size") /\ UNCHANGED <<prec, quantized>>
     ELSE /\ prec' = [prec EXCEPT ![l] =
               IF sizes[l] = None THEN AtMost(@, bits[l])
               ELSE [j \in Channels |-> Min({@[j], LevelAt(sizes[l], j)})]]
          /\ quantized' = quantized \cup {l}
          /\ UNCHANGED <<pc, error>>
  /\ UNCHANGED <<setup, scaled, plan, layout, wrapped, rounded, converted>>

EndQuantize ==
  /\ pc = "gptq" /\ Selected \subseteq quantized
  /\ Goto("convert")
  /\ UNCHANGED <<setup, scaled, plan, layout, tail>>

\* The adapter packs output rows; it refuses sizes that count input channels.
ConvertLayer(l) ==
  /\ Runs("convert") /\ l \in Selected \ converted
  /\ IF sizes[l] # None
     THEN Fail("cluster_sizes describe input channels") /\ UNCHANGED <<prec, converted>>
     ELSE /\ prec' = [prec EXCEPT ![l] = AtMost(@, bits[l])]
          /\ converted' = converted \cup {l}
          /\ UNCHANGED <<pc, error>>
  /\ UNCHANGED <<setup, scaled, plan, layout, wrapped, rounded, quantized>>

EndConvert ==
  /\ Runs("convert") /\ Selected \subseteq converted
  /\ Goto(IF asserts THEN "smoke" ELSE "done")
  /\ UNCHANGED <<setup, scaled, plan, layout, tail>>

SmokeTest ==
  /\ pc = "smoke"
  /\ Goto("done")
  /\ UNCHANGED <<setup, scaled, plan, layout, tail>>

--------------------------------------------------------------------------------
Next ==
  \/ SkipStep
  \/ SmoothQuant \/ Sensitivity \/ SolveIlp \/ MatchIsa
  \/ CaptureMetric \/ (\E g \in Groups : PermuteGroup(g)) \/ EndPermute \/ Harden
  \/ (\E l \in Selected : InstallHook(l)) \/ (\E n \in Norms : FuseNorm(n)) \/ EndFusion
  \/ (\E b \in Blocks : PassBlock(b)) \/ (\E b \in Blocks : WrapBlock(b))
  \/ BakeBlock \/ EndAutoround \/ Sqc
  \/ Recapture \/ (\E l \in Selected : QuantizeLayer(l)) \/ EndQuantize
  \/ (\E l \in Selected : ConvertLayer(l)) \/ EndConvert \/ SmokeTest

Spec == Init /\ [][Next]_vars

--------------------------------------------------------------------------------
Pcs == Steps \cup {"permute", "harden", "gptq", "smoke", "done", "failed"}

\* Every variable has its type.
TypeOK ==
  /\ pc \in Pcs /\ skip \in Skips /\ asserts \in BOOLEAN /\ solved \in BOOLEAN
  /\ scaled \subseteq Layers \cup Norms
  /\ sens \in [Selected -> [Channels -> Nat]] \cup {None}
  /\ bits \in [Layers -> Bits] /\ isa \in [Selected -> Sizes(N)] \cup {None}
  /\ metric \in [Selected -> MetricChoices] \cup {None}
  /\ cols \in [Layers -> Order] /\ gather \in [Norms -> Order]
  /\ hook \in [Layers -> Order \cup {None}] /\ perm \in [Layers -> Order \cup {None}]
  /\ sizes \in [Layers -> Sizes(N) \cup {None}]
  /\ fused \subseteq Norms /\ wrapped \subseteq Selected
  /\ prec \in [Layers -> [Channels -> Bits]]
  /\ quantized \subseteq Selected /\ converted \subseteq Selected

\* The order layer l is handed its input in.  A WrapperLinear multiplies without
\* running the hooks of the layer it wraps.
Feed(l) == IF NormOf[l] # NoNorm THEN gather[NormOf[l]]
           ELSE IF hook[l] # None /\ l \notin wrapped THEN hook[l] ELSE Id

\* Layer l computes the function it computed when the model was loaded.
Aligned(l) ==
  /\ Feed(l) = cols[l]
  /\ NormOf[l] # NoNorm => (l \in scaled <=> NormOf[l] \in scaled)

\* Every forward of the pipeline (activation scales, sensitivities, the two
\* captures, the inputs of AutoRound's blocks, the smoke test), and every forward
\* of the finished model, runs a model whose layers are all aligned.
Forwards == {"smooth", "sensitivity", "permutation", "autoround", "quantize",
             "smoke", "done"}

ForwardsAligned ==
  pc \in Forwards /\ wrapped = {} => \A l \in Layers : Aligned(l)

\* So do AutoRound's own forwards, which train the rounding of wrapped layers
\* against a reference computed with their hooks (rmsnorm_fusion.py:23).
WrappedLayersAligned == \A l \in wrapped : Aligned(l)

\* No column of a quantized layer keeps more precision than a column whose channel
\* is more sensitive in the group it permutes with.
ProtectedBySensitivity ==
  sens # None /\ "autoround" \in skip =>
    \A l \in quantized : \A i, j \in Channels :
      prec[l][i] > prec[l][j] /\ perm[l] # None =>
        sens[l][cols[l][i]] >= sens[l][cols[l][j]]

\* Step 5 refuses only a norm that two parallel groups read in different orders.
ConflictsCrossGroups ==
  error = "conflicting permutations" =>
    \E g, h \in Groups : \E l \in g, m \in h :
      g # h /\ NormOf[l] = NormOf[m] /\ NormOf[l] # NoNorm /\ perm[l] # perm[m]
================================================================================
