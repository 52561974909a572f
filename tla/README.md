# A TLA+ model of SHMQ-Ultimate and its three-level MixLLM backend

`shmq-ultimate/src/shmq` rewrites a floating-point language model in place, step
by step, until every linear layer holds an FP16, an INT8 and an INT4 part;
`shmq-ultimate/external/MixLLM/mixllm` holds the runtime of such layers: a packed
`ThreeLevelLinear` module, its SM75 (Tesla T4) operator and the vLLM glue.  This
directory models both, model-checks small instances with TLC and proves what
matters most with TLAPS.  Paths below leave out `shmq-ultimate/`; `mixllm/` stands
for `external/MixLLM/mixllm/`.

## 1. Inventory

| Component | State it keeps | Operations | Talks to | Hard part |
|---|---|---|---|---|
| Pipeline driver (`src/shmq/pipeline.py`) | the model, results of every step | `step0` .. `step9`, `run(skip_steps)` | calls every component below in order | each step reads what earlier ones left; any step can be skipped or raise |
| Channel permutation (`permutation/decoupled.py`, `metric.py`) | column order of every weight | one order per parallel group, gather of the columns | reads sensitivities, allocation, ISA sizes | all readers of one tensor must agree |
| Norm fusion (`permutation/rmsnorm_fusion.py`) | order every norm emits, pre-hooks | replace norms, install hooks, refuse conflicts | the permutation's result | producers and consumers change in different steps |
| SmoothQuant (`smooth/`) | scales folded into norms and weights | one rescaling per norm | norm and all its readers | excluded readers |
| Sensitivity (`sensitivity/`) | per-element and per-channel scores | Fisher, OBS, group sums | feeds ILP, permutation, SQC | scores are in the order of the columns at the time |
| ILP (`ilp/solver_3level.py`) | bits of every layer | solve under budget, floor and group equality | PuLP | an infeasible problem still returns an allocation |
| ISA matching (`polyq/isa_matching.py`) | cluster sizes of every layer | round to tiles, demote to the budget | step 4 and its assertions | loop bound, tile boundaries, budget of a layer against that of the model |
| AutoRound (`autoround/`) | wrappers in place of linears | wrap, train, bake, block by block | hooks of step 5, sizes of step 4 | replaces modules other code has hooked |
| Quantizers (`quantize/`) | final weights and codes | SQC, GPTQ, RTN, K-partition | sizes, SQC multipliers | second quantization of a weight |
| MixLLM adapter (`mixllm/adapter.py` of shmq) | packed modules | convert every layer | step 9 | refuses input-channel sizes |
| Assertions (`hardening.py`) | none | cluster sizes, drift, finiteness | steps 4 and 9 | what they tolerate |
| `ThreeLevelLinear` (`mixllm/nn/modules/three_level_linear.py`) | packed tensors, index tensors, three caches | `_apply`, `_load_from_state_dict`, `forward` | torch, the operator | caches keyed by identity and version |
| SM75 operator front end (`mixllm/sm75_backend.py`) | caches on the module | validate, expand, quantize, launch | CUDA streams, graphs, allocator | asynchrony, recycled ids, capture |
| SM75 loader (`mixllm/sm75_backend.py:13`) | unpacked headers, marker, built library | unpack, compile, load | file system, torch, other processes | crash between extraction and marker, overlapping loads, a rebuild outside the lock |
| SM75 kernels (`mixllm/kernels/three_level_sm75.cu`) | shared memory, registers | dispatch, tile GEMMs, decode | front end | barriers, subwarp masks, partitions that end inside a tile |
| Allocation (`mixllm/quantization/three_level.py`) | precision of every output channel | round shares, meet minimums, upgrade by batches | front end (partition) | rounding, swaps between layers, a floored budget |
| vLLM patch and helpers (`vllm_v0.9.0_patch/0002-*.patch`, `mixllm/vllm_three_level.py`) | pieces of the checkpoint, a layer per rank | load, cut, validate, remap | vLLM, front end | local and global indices, columns against bytes and groups |
| Runtime capability (`mixllm/runtime_capability.py`) | none | choose a back end | vLLM | - |
| Model gate, Kaggle runner (`mixllm/model_gate.py`, `../scripts/`) | reports, remote job | poll, download | Kaggle | stale status |
| Inference modules and older kernels (`src/shmq/inference/`) | packed weights, load latch | convert, fall back to CPU | torch | latched failure |
| Loader, calibration, config, utils (`src/shmq/*.py`) | model, settings | load, list layers and groups | Hugging Face | group keys |
| Original MixLLM, vendored vLLM and CUTLASS, `research-15`, notebooks, `tensara` | - | - | - | third party, generated or copies |

What makes each correct, in a sentence.  *Pipeline, permutation, fusion,
SmoothQuant*: at every forward each layer gets its input in the order and at the
scale of its columns.  *Permutation, quantizers*: more sensitive channels keep at
least as many bits.  *ISA matching*: sizes add up, are whole tiles and groups, fit
the budget, and nothing was demoted in vain.  *Step 4's assertions*: a layer keeps
what the ILP gave it, within the configured drift.  *AutoRound*: it trains the
function the model computes and keeps the precision a cluster was promised.
*Front end*: a launched GEMM reads the finished expansion of the weights of its
call; the unchecked operator only sees complete partitions.  *Loader*: nothing of an
older archive is taken for up to date, and a marker tells the truth.
*Kernels*: each output element is written, with every product counted once,
whatever the order of the threads.  *Allocation*: shares, minimums and budget are
met, best channels first.  *vLLM patch*: the rows a rank packs are those its local
indices name, and the ranks together hold each weight once.

## 2. Modules

| Module | Models | Kind |
|---|---|---|
| `Sm75Linear` | `three_level_linear.py`, `sm75_backend.py:141-315` | state machine |
| `MCSm75Linear` + `Sm75Linear_*.cfg` | instances | TLC |
| `Sm75Linear_proofs` | six theorems | TLAPS |
| `IsaMatching` | `isa_matching.py`, rounding of `decoupled.py` | operators |
| `IsaLoop`, `MCIsaLoop` + `IsaLoop_sizes.cfg` | the loop of `isa_matching.py`, against `IsaMatching` | state machine, TLC |
| `IsaLoop_proofs` | five theorems | TLAPS |
| `ShmqPipeline` | `pipeline.py` and every component it calls; extends `IsaMatching` | state machine |
| `MCShmqPipeline` + `ShmqPipeline_*.cfg` | instances | TLC |
| `ShmqPipeline_proofs` | four theorems | TLAPS |
| `PartitionedGemm` | what a launch promises | abstract specification |
| `GemmGrid` | arguments, grid and output of a launch | shared definitions |
| `PrefillKernel`, `DecodeKernel` | the three kernels a launch can reach, thread by thread | state machines |
| `GemmLaunch`, `MCGemmLaunch` + `GemmLaunch_launch.cfg` | dispatch, composed with the kernels; implements `PartitionedGemm` | composition, TLC |
| `GemmLaunch_proofs` | one theorem | TLAPS |
| `VendorLoad`, `MCVendorLoad` + `VendorLoad_vendor.cfg` | `load_sm75_backend` in several processes | state machine, TLC |
| `VendorLoad_proofs` | two theorems | TLAPS |
| `ChannelAllocation`, `MCChannelAllocation` + `ChannelAllocation_allocate.cfg` | `quantization/three_level.py` | state machine, TLC |
| `ChannelAllocation_proofs` | seven theorems | TLAPS |
| `VllmShards`, `MCVllmShards` + `VllmShards_shards.cfg` | the vLLM patch on every rank, and `vllm_three_level.py` | state machine, TLC |
| `VllmShards_proofs` | five theorems | TLAPS |
| `Counting` | quotients, remainders, ranks, sums, enumerations, blocks: lemmas of the proofs | TLAPS |

The modules meet at their assumptions: the pipeline's adapter and
`ChannelAllocation` produce partitions, `VllmShards` cuts them for ranks and
`Sm75Linear` checks them before a launch; `CallsAssumption` of `GemmGrid` is the
partition that `LaunchedPartitionComplete` guarantees.

### Sm75Linear: one module and its operator's Python half

A tensor object is an identity (CPython's `id()`, an address the heap may recycle),
a version (`_version`) and a value.  `tensor` maps the buffers to their objects;
`taken` are the addresses that are not free; `validated` is
`_sm75_partition_validation`; `expanded` is `_sm75_int4_expanded` with the content it
stands for; `queue` are the operations issued on each CUDA stream and not yet
executed, `mem` what the expansion-sized blocks hold, `graph` a captured forward.

| Action | Code |
|---|---|
| `Load` | `_load_from_state_dict`: drops the expansion, reallocates the buffers of the dict and `indices_16`; an omitted FP16 key takes the tensor the module holds; any other key may be missing too, and the load raises after filling the rest |
| `Apply` | `_apply` (`.to`, `.cuda`, `.half`): drops the expansion, moves or returns the same tensors |
| `InPlace` | a `copy_` into a buffer: same object, next version |
| `Forward` | `three_level_linear`: validate, expand or hit, enqueue; an early return for no rows; an expansion whose zero points do not broadcast raises; shapes checked by the operator after the expansion is cached |
| `CaptureForward`, `Replay` | `torch.cuda.graph` around a forward, and `replay()` |
| `ReuseBlock`, `Execute` | the caching allocator and the stream (external) |

Every operation on the host is atomic, as the GIL and the absence of threads in the
code make it; what is concurrent is the device.  `CaptureForward` waits for the
device first, as `torch.cuda.graph` does.

### IsaMatching and IsaLoop: cluster sizes

`IsaMatching` states the rounding and the demotion as expressions (`Rounded`,
`Downgraded`); the code's "fill to a tile" is dead, because a size just rounded down
is a multiple of its tile, and the expression leaves it out.  `IsaLoop` runs the loop
of the code one demotion at a time, and `EndsAsStated` shows that it ends where the
expression says, so the pipeline's model can use the expression.  Ratios are
percentages, budgets hundredths of a bit: the integer arithmetic of the model is
exact where the code uses floats with a margin of 1e-6.

### ShmqPipeline: the steps as they rewrite the model

A *channel* is a tile of input channels, which every step keeps together at tile
granularity; an *order* maps positions to channels.  `cols[l]` is the order of a
weight's columns, `gather[n]` the order norm `n` emits, `hook[l]` the gather of a
pre-hook; `scaled` are the norms and layers SmoothQuant rescaled; `sens`, `bits`,
`isa`, `metric`, `perm`, `sizes` are the pipeline's fields; `prec[l][j]` is the fewest
bits column `j` has ever been quantized to; `wrapped` and `rounded` are AutoRound's
progress; `skip` is `skip_steps` together with the steps the configuration disables.

| Actions | Step | Code |
|---|---|---|
| `SkipStep` | any | `run`, and the early returns of disabled steps |
| `SmoothQuant` | 1 | `smooth_lm` |
| `Sensitivity`, `SolveIlp`, `MatchIsa` | 2, 3, 3.5 | group sums; constraints of the ILP, every feasible allocation, and the all-4-bit result when there is none; `IsaSizes` |
| `CaptureMetric`, `PermuteGroup`, `EndPermute`, `Harden` | 4 | capture, one order per group, the assertions after all groups |
| `InstallHook`, `FuseNorm`, `EndFusion` | 5 | hooks for o_proj and down_proj first, then norms; a conflict raises with the earlier ones installed |
| `PassBlock`, `WrapBlock`, `BakeBlock`, `EndAutoround` | 6 | a block that cannot be replayed is passed over; from the wrap to the bake the block runs with wrappers |
| `Sqc` | 7 | multipliers only |
| `Recapture`, `QuantizeLayer`, `EndQuantize` | 8 | K-partition, or the whole layer when step 4 was skipped |
| `ConvertLayer`, `EndConvert`, `SmokeTest` | 9 | the adapter's refusal, its conversion otherwise |

An exception ends in `pc = "failed"` with the message in `error`; nothing is rolled
back, as in the code.  `topk` and `argsort` break ties in any way (`LegalOrders`).
ISA matching uses the tiles of its own table rather than `isa_tile_*`; the code sets
both to 128 by default and the model has one pair of constants.

### GemmGrid, PrefillKernel, DecodeKernel, GemmLaunch: one launch

Values are symbolic: an input element is `<<row, column>>`, a weight `<<output
channel, column>>`, a sum the bag of the pairs it multiplied, so a product that is
missing, doubled or another channel's shows.  Of the output only "exact" or "wrong"
is kept, as no thread reads it; for the same reason blocks run one after another.

| Actions | Code |
|---|---|
| `Launch` (`Choose`) | the dispatch of `three_level_linear_v2_core`: nothing for no rows, decode for one, tensor cores if there is an integer channel, the reuse kernel otherwise; the CUTLASS branch repeats an earlier condition and is dead |
| `StartBlock`, `EndBlock` | a block's shared memory and registers, first garbage |
| `Fill`, `Barrier`, `LoadA`, `LoadDirect`, `Stage`, `LoadB`, `Mma` | one column tile: all threads fill, `__syncthreads`, fragments, multiply, `__syncthreads`; `Stage` copies the weights of a warp whose tile is not full |
| `Store`, `WarpSync`, `Scale`, `Write` | end of a quantization group or of the row; the output loop |
| `StartWarp`, `Multiply`, `Shuffle`, `Accumulate`, `WriteResult`, `EndWarp` | decode: subwarps, the mask of `__activemask()`, `__shfl_down_sync`, one write per subwarp |

A WMMA load or store is one step per lane, which is weaker than the warp-wide
operation the programming guide describes.  `__activemask()` finds all live subwarps
together or each apart, and a shuffle waits for every live lane of its mask.

### VendorLoad: load_sm75_backend

`blob` is the installed archive (a version), `marker` the time of `.ready`, `tree`
the unpacked headers, each of some version or `Torn` while it is open; `library`,
`dirty` and `writer` are what was built, whether it is outdated and whose linker
created the file; `pc`, `payload`, `todo`, `at`, `seen`, `tried` belong to a process.

| Action | Code |
|---|---|
| `Check`, `Read`, `Open`, `Close`, `Mark`, `PrepareFails` | unpacking and the build directory (`sm75_backend.py:31-48`) |
| `Acquire`, `Wait` | torch's lock: the first call of a process takes it or waits, later calls skip it (external) |
| `Link`, `LinkFails` | the import: `load()` returns or raises (`:64-65`) |
| `Diagnose` | the `except` branch: `ninja -v` in the first build directory found, which may be the operator's, whoever has the lock (`:66-72`) |
| `NothingToDo`, `Rebuild`, `Compile`, `CreateLibrary`, `SaveLibrary`, `Done` | ninja, its compiler and linker, with the lock (`lock = p`) inside `load()` or without it in `Diagnose` (external) |
| `BuildFails` | ninja fails: torch releases its lock and the `except` branch follows, or that branch raises |
| `Publish`, `Crash` | a new archive is installed while nothing loads; a process dies and leaves the disk and its lock file |

A compiler may accept half a header, so `Compile` reads `Torn` ones too.  A linker
removes the library and creates a new file (GNU ld); `SaveLibrary` counts for the name
only if no other linker has taken it since.  Each ninja links the objects it compiled:
the object file is not a variable, and where two overlap it is current or torn like the
headers.  ninja counts the library as up to date once a run of it ended well, whatever
changed during the run (as ninja before 1.11 does).

### ChannelAllocation: three_level.py

`request` is the call, `benefit` what an upgrade of each channel gains, `counts` the
rounded shares, `chosen` the channels of each precision, `layer` the layer whose
minimum is being met, `remaining` the bits left.  `Rank` is the greedy choice of
`allocate_channels` and `allocate_model_channels`; `NextLayer`, `Swap` and `Finish`
the loop over the layers' minimums; `Upgrade` and `Report` the batches and the
percentages of `allocate_model_channels_auto`.  Fractions are compared as integers;
where two are equal the code compares floats, and the model leaves the order open.

### VllmShards: a layer on the ranks of a tensor-parallel group

`case` is the layer and its checkpoint; `read` and `pieces` are the loaders' progress
on each rank, `shard`, `offset` and `layer` that of `process_weights_after_loading`.

| Action | Code |
|---|---|
| `CreateWeights` | refuses an input that ends inside a group |
| `PackedLoader` | one tensor, kept whole under its shard; a second one raises |
| `LoadingEnds` | vLLM has passed every tensor of the checkpoint (external) |
| `AssembleShard` | missing pieces and an invalid partition raise; mask, local indices, and the cut of the input columns |
| `Finish` | concatenation and the last validation, in that order |

A rank's own steps are atomic: ranks share nothing while they load.
`RemapPartitionIndices` and `RestoreGlobalPartitionIndices` are the helpers of
`vllm_three_level.py`, which the patch does not call and the tests do.
`CheckpointsAssumption` says what a checkpoint may be: any tensors in any order, missing,
doubled or of wrong lengths, any numbers in the index tensors, but rows of the channels
the module's index tensor names, and modules of the layer or one that fuses several.

## 3. Runs

All instances are finite and explored completely.  Deadlock checking is off where the
system ends (a finished pipeline or loop) or where the bound `MaxVersion`/`MaxQueue`
may leave nothing to do.

| Run | Result | Shows |
|---|---|---|
| `recycled` | pass, 115,010 states | on a recycling heap, forwards and replays of intact graphs read the right, finished expansion; some loads miss a key |
| `partition` | pass, 95,887 | with fresh addresses, an unchecked launch always has a complete partition; the checkpoints include a malformed, an FP16-only, a two-level and an incomplete one |
| `sizes` | pass, 5,390 | the demotion loop: type, end, budget, no vain demotion, alignment, termination |
| `layout` | pass, 193,973 | pipeline with grouped-query attention (q and k permute apart, gate and up together), seven sets of skipped steps, assertions on and off: no misaligned forward, fusion refuses only where two groups disagree |
| `launch` | pass, 105,369 | every kernel implements `PartitionedGemm`: each element exactly, nothing else, and the launch ends; no race on shared memory |
| `vendor` | pass, 354,273 | nothing older is taken for up to date, and without overlap the library and a marked tree are whole; calls end |
| `allocate` | pass, 312,482 | shares, minimums, budgets, blocks, order of upgrades, reported percentages; every call ends |
| `shards` | pass, 148,856 | packed rows follow local indices; ranks hold each weight once, agree with the helpers, and accept or refuse together |
| `aba` `streams` | violation | findings on the front end |
| `excluded` `wrapper` | violation | findings on the pipeline |

**Bounds.**  `Sm75Linear`: two or three addresses per attribute are enough to free one
and get it again while another is alive; two blocks let a new expansion be built while
the old block is reused; `MaxQueue = 2` holds an expansion and its GEMM; `MaxVersion =
1` allows a write after a load has reset the version; checkpoints with equal shapes and
different contents are those that signatures could confuse.  `IsaLoop`: the code's own
tiles and group size, widths of real decoder layers and widths that are no multiple of
a tile, budgets at, around and below the cost of INT4.  `ShmqPipeline`: four tiles make
three clusters of sizes 1, 1, 2; five layers: two behind the input norm in parallel
groups of their own (the smallest case in which a norm's readers can disagree), two
behind the other norm in one group (the smallest group that must move as one), and one
behind a hook; two sensitivities whose sums tie, so that a group can have any order;
gate and up are four times as large as the others, so that the ILP's budget of 8 bits
with a floor of 7 admits mixed allocations.  `MetricChoices` has one member because the metric only
reorders positions within a cluster and the order is already free on ties.
`GemmLaunch`: tiles of 2 x 2 with two lanes per warp and two column tiles in each of
two groups are the smallest with a step inside a group, one at its end, and a second
group; the partitions end inside, at and past a tile, so that one block has a direct
and a staged warp and another a staged and an idle one; three rows leave half a row
tile; decode has four-lane subwarps (two shuffles) in different branches of one warp.
`VendorLoad`: two processes, two headers (a tree can be half unpacked), two archives
(an older tree can be left over), two crashes (one inside unpacking, one inside the
build); two processes are enough for a build with the lock beside a rebuild without it.  `ChannelAllocation`: models of two and three layers with up to five
channels, so that a block has a tail and a swap takes from another layer or finds
none; gains 0 and 1 make ties; shares that round each way; averages from all-INT4 to
all-FP16.  `VllmShards`: four channels on two ranks and three on three with every
partition in both orders; groups of four columns so that bytes, columns and groups
differ; merged layers of two and three modules whose tensors interleave; one tensor
missing or doubled, an index out of range or twice, a row too few, a fused
checkpoint, replicated key and value heads, a layer held whole, inputs that end
inside a group.

**Fairness.**  `IsaLoop` and `ChannelAllocation`: `WF_vars(Next)`, a loop in one
thread that nothing blocks.  `GemmLaunch`: `WF_vars(Next)`, a device that does not
stop while some thread can go on; the abstract specification has the same, so that
the refinement says a launch ends.  `VendorLoad`: weak fairness of each process's own
steps, not of calls, crashes or upgrades: the scheduler runs it, and waiting is a
step that is not enabled.  `VllmShards`: weak fairness of each rank.  The other
specifications make no liveness claim: `run()` is a straight line, and the front end
promises no progress of the device.

## 4. What disagrees with a doc, a comment or a test

1. `aba`: the partition verdict survives `_load_from_state_dict` and `_apply`; ids and
   versions repeat, so a malformed partition is launched unchecked
   (`sm75_backend.py:156` against `:165`).
2. `streams`: a cache hit on a second stream reads an unfinished expansion
   (`sm75_backend.py:185` against `THREE_LEVEL_STATUS.md:208`).
3. `excluded`: an excluded layer's norm is still rescaled and gathered
   (`pipeline.py:112` against `config.py:157`).
4. `wrapper`: wrapped o_proj and down_proj skip their gather (`wrapper.py:107` against
   `rmsnorm_fusion.py:23`).

On the other side, "never violates the global memory budget" (`isa_matching.py:30`)
looks doubtful, since the loop may break while over budget, and holds
(`NeverOverBudget`): it breaks only when everything is INT4 but less than a tile.

## 5. Proofs

The prover is TLAPS with Z3, Zenon and LS4; all theorems hold for every value of the
constants that satisfies the named assumptions.

`Sm75Linear_proofs`
- `TypeCorrect`: `Spec => []TypeOK`, one lemma per action, with `CheckpointsAssumption`
  (a state dict has some of the keys, with values of their types).
- `ExpansionCacheCoherent`: `CacheHitIsCurrent`, for *any* heap.  A hit compares
  versions, so the invariant `CacheInv` adds that the signature's versions never exceed
  those of the tensors: an in-place write moves past the signature and cannot come
  back, and every action that resets a version drops the expansion.
- `PartitionAlwaysChecked`: `LaunchedPartitionComplete` when `Recycle = FALSE`.  The
  verdict is *not* dropped by loads, so the argument needs fresh addresses: `VerdictInv`
  (addresses in a verdict stay taken; a matching verdict means a complete partition)
  and `LaunchInv` (every queued GEMM was launched complete).  The run `aba` shows the
  assumption is needed.
- `GraphKeepsItsBlock`: `GraphBlockHeld` on any streams.  `GraphInv`: while the module
  is intact since the capture, a hit is current and holds the block and the content the
  graph reads.
- `ForwardReadsOnOneStream`, `ReplayReadsOnOneStream`: `ForwardReadsItsExpansion` and
  `ReplayReadsItsExpansion` when there is one stream; the run `streams` shows that two
  are too many.  The invariant looks at the whole queue: `Finds(q, m, i, b, v)` says
  that operation `i` will find `v` in block `b`, because the last write before it put
  `v` there or none did and memory holds it.  `StreamInv`: every queued GEMM will find
  what it wants (`Ready`), and so would one that were enqueued now with the cached
  expansion (`AtEnd`); the second half carries the first through a cache hit.  The
  lemmas `FindsAppend`, `FindsNext`, `FindsWritten` and `FindsTail` follow it through
  the two ends of a queue.

`IsaLoop_proofs`
- `NoChannelLost` (`TypeOK`) and `DemotionsWereNeeded` (`NoNeedlessDemotion`), for every
  width, ratios, tiles and budget.  The type alone is inductive for neither: the
  invariant `LoopInv` says that the loop is at `Reached(i, j)`, `i` demotions of FP16
  and `j` of INT8 from the rounded sizes, each made over the budget, the second kind
  only once FP16 had no whole tile.
- `BudgetIsKept`: `NeverOverBudget`, if FP16 tiles are whole INT8 tiles, as both tables
  of the code have it.  Otherwise the loop can end with part of an FP16 tile left in
  INT8, over a budget INT4 would meet.
- `SegmentsAreGroups`: `SegmentsAlign`, if both tiles are whole quantization groups.
- `LoopEndsAsStated`: `EndsAsStated`, hence that `Downgraded`, with which the pipeline
  is modelled, is what the loop computes: the numbers of demotions it reaches are the
  least that meet the budget, or all there are.

`ShmqPipeline_proofs`
- `AlignedForwards`: `ForwardsAligned` for any layers, norms, groups, widths and skip
  sets, if `ReadersTogether` (excluded keywords name all layers behind a norm or none;
  the run `excluded` shows it is needed) and `SkipsAssumption` (step 5 is skipped only
  with step 2 or 4).  `ForwardsAligned` speaks of the steps that run the model; the
  invariant `LayoutInv` must also say what holds in between: `ColumnsFollow` (columns
  are where `perm` says, groups move as one, nothing moves before step 4),
  `PlanFollows` (a permutation needs sensitivities; after step 4 all layers or none are
  permuted), `InputsFollow` (a fused norm emits the order of *all* its readers, a hook
  that of its layer, nothing is left to propagate after step 5), `ScalesFollow`.  The
  steps that leave the layout alone are dealt with together (`Quiet`).
- `OnlyGroupsConflict`: `ConflictsCrossGroups` under the same assumptions: step 5
  refuses only where two parallel groups read one norm in different orders, so it never
  refuses a model whose norms feed one group each (in the run `layout` the norm of q and
  k feeds two).  The invariant `ConflictInv` adds to `LayoutInv` that a conflict has stopped
  the pipeline; the contradiction inside one group comes from `ColumnsFollow`.
- `PipelineTypes`: `TypeOK`, through every step, skip and failure.  Its content is that
  step 3.5 gives each layer three sizes that add up whatever it demotes
  (`PlannedSizes`), and that permuting keeps an order an order (`OrdersCompose`).  From
  `RatiosAssumption` (the shares of `pipeline.py:276` do not exceed the whole),
  `ScoresAssumption` (norms are not negative) and finitely many layers.
- `SensitiveChannelsProtected`: `ProtectedBySensitivity`, under the same assumptions and
  with no word on what is excluded.  The property joins steps that are far apart, so
  `ProtectInv` carries: `SumsShared` (step 2 leaves the layers of a group with one
  sensitivity), `ClustersSorted` (after step 4 a better cluster holds no less sensitive
  channel, in every layer of the group), `PrecisionFollows` (nothing is quantized before
  step 6, and without AutoRound a column loses bits only with its cluster).

`GemmLaunch_proofs`
- `NoRace`: `NoSharedMemoryRace` for every tile shape, number of warps and lanes,
  partition and number of rows.  A barrier counts arrivals and does not know from
  where, so threads waiting before the loads and after them would release each other;
  the invariant excludes that.  `OneSide`: no thread of a block is before the loads
  while another is between the two barriers; `Lockstep`: lanes of a warp are in the same
  stretch between two synchronizations, at the same column tile; `Routed`: only warps
  that stage reach the places of staging; `Typed`: the program points.

`VendorLoad_proofs`
- `BuildsAreCurrent`: `BuiltFromCurrent`, for any processes, files, archives and
  crashes, and any overlap, rebuilds outside the lock included.  `PastInv`: whoever is
  past the check has a fresh marker, up to the rebuild after a failure; `FreshInv` and
  `UnpackingInv`: under a fresh marker, and in what a process has unpacked, every header
  is current or was left half written, never an older one, and a library that counts as
  up to date has no older header; `NinjaInv`: neither has what any compiler has read, and
  once one linker has removed the library no other brings an older one back.  The second
  half, whole libraries without overlap, needs `Solo`: `BuildsAt` says that the library
  counts as outdated from the first header unpacked to the end of the linker, so that a
  crash in between is followed by a rebuild; `LibraryWhole` follows.
- `MarkerIsHonest`: `MarkedTreeWhole`.  `Alone`: one process loads; `GuardedAt`: while it
  unpacks the marker is out of date, so a crash in between sends the next load back to
  unpacking; `MarkedWhole` then follows at `Mark`.

`ChannelAllocation_proofs`, for every model, budget, gains, ties and minimums
- `EveryMinimumMet`: `MinimumsMet`.  The minimums of the layers already passed hold at
  every step (`MetInv`); a swap takes from a layer that stays at its minimum (`Donors`)
  and gives to the one being met.
- `AllocationNeverFails`: `NeverFails`, the errors of `three_level.py` that callers
  cannot reach.  Not inductive alone: it needs that the channels the minimums call for
  (`Required`) are no more than the rounded INT8 and FP16 counts, and that a layer
  below its minimum leaves another above its own (`DonorsExist`, a pigeonhole argument
  over the layers).
- `CountsAreExact`: `ExactCounts`.  Two lemmas carry it: `RoundedCountsSum` (rounding to
  blocks, handing out what is left and putting the tail somewhere adds up to the layer)
  and `TopTakes` (the greedy choice has as many members as asked; the rank of a channel
  in a total order is a bijection).  `SharesInv` keeps the counts through swaps.
- `BitsAccountedFor` (`BudgetSpent`), `UpgradesInBlocks` (`BlocksAligned`),
  `UpgradesTheStrongest` (`StrongestUpgraded`): the moves keep a partition whose bits
  and the remaining ones are the budget (`SpentInv`) and whole blocks in every layer
  (`BlocksInv`).
- `PercentagesAreHonest`: `PercentagesHonest`.  Three roundings down lose less than
  three units, so the largest remainders take at most two back (`LessThanThree`).

`VllmShards_proofs`, for every layer, group, number of ranks and checkpoint within
`CasesAssumption` and `CheckpointsAssumption`
- `FinalCheckAlwaysHolds` (`FinalCheckHolds`), `RanksServeTheServable`
  (`ServedIffServable`), `LoadedRowsFollowIndices` (`RowsFollowIndices`),
  `LoadedIndicesAreRemapped` (`LocalIndicesAsRemapped`), `LoadedWeightsHeldOnce`
  (`EveryWeightOnce`).  All five come from one invariant, `LoadInv`: each rank holds the
  tensors it has read, each once (`PiecesOk`); the shards it has put together were
  `Sound`, which does not depend on the rank; and `LayerOk` of what they gave.  Its
  parts: the index tensors are a partition of the channels so far (`Placed`), rows are as
  many as entries and follow them, and the entries of each earlier shard are still the
  part that shard gave.
- `CoversPlaced` is where the code's check of a partition (length and range) becomes a
  fact about places, by counting; `LocalPlaced` and `AppendPlaced` show that cutting a
  range out of a partition and putting one behind another give partitions, which is why
  the last validation cannot fail.  `LayerGrows` is the step of one shard.
- `NotReplicated`: a replicated module has no channel as large as the last one of the
  global size, so the validation of its shard refuses it on every rank.
- `OwnerFacts`: the rank and the entry that hold a weight are a quotient and a
  difference, and no other rank's range or columns contain it.

`Counting` has what these share: quotients and remainders, the size of a set after a
move, ranks, sums over finite sets, the ascending enumeration of a set of numbers (what
a mask selects by), and the beginnings of blocks of given sizes.  `Least` says that a set of naturals has a
least member; taking the least counterexample is how the proofs do by hand what an
induction over data would do (`SumExists`: a sum over a finite set is a natural).

Every invariant that a passing run checks is proved, where said so under a condition
that its run meets too (one stream, fresh addresses, or the like).  Only model-checked:
the safety part of `ImplementsGemm`, which adds up bags, and liveness.  Liveness
(`Terminates`, `Ends`, `CallEnds`, `EveryRankEnds`, the ending of a launch) and `ENABLED`
are beyond the prover and stay with TLC.

## 6. Order of work and what is left

In this order, because a wrong layout or a stale cache silently changes a model's
results: `Sm75Linear`, `IsaMatching` and `IsaLoop`, `ShmqPipeline`, the kernels,
`VendorLoad`, `ChannelAllocation`, `VllmShards`, each with its proofs.  Left:

1. that every step of `GemmLaunch` is a step of `PartitionedGemm` or a stutter, without
   its liveness;
2. the K-partition packing of `src/shmq/inference/`, should the pipeline come to call it.

## 7. Not modelled, and why

Numbers the properties do not tell apart (scales, losses, Fisher and OBS values, GPTQ's
error propagation, search grids) are left out or drawn from small sets.  The ILP's
objective is left out, so every allocation within the constraints is considered.  Step 0
(download, tokenizer, calibration text) supplies the constants.  Finiteness assertions
and the smoke test's NaN check are numeric.  Noticed while reading, and given no run:
parallel groups are keyed by output width, so q and k of grouped-query models get
different orders and step 5 raises (`rmsnorm_fusion.py:168`, where `:106` expects one
order; `layout` reaches it); a model-wide average is enforced on each layer and demotes
16-bit layers, which step 4 then asserts against, so with the default configuration
`AllocationKept` raises after the weights have been permuted (`isa_matching.py:158`,
`hardening.py:83`); AutoRound quantizes the FP16 and INT8 clusters of a 4-bit layer to
4 bits (`autoround_block.py:142`); SQC masks permuted weights with unpermuted
sensitivities (`pipeline.py:474`); skipping step 5 after step 4, or calling step 4 twice,
leaves weights and norms in different orders (`SkipsAssumption` excludes the first);
`hardening.py:115` compares the drift with at least half a bit, whatever
`isa_drift_tolerance` says (`Harden` has it so); step 9 refuses every layer step 4 gave
sizes to (`ConvertLayer`), so `tests/test_e2e_pytest.py:133` describes a pipeline that
skipped step 4; `sm75_backend.py:251` expands for a single row, which `:175` says decode
does not need (`Forward`); a two-level checkpoint keeps the FP16 channels of the module
it is loaded into (`WithLegacyDefaults`, `three_level_linear.py:126` against `:123`), and
the partition check refuses the next forward.  Not in the model:
`kernels/three_level_sm75.cu:923` multiplies in half precision with `__hmul2`; the
operator registered at `:1262` passes INT8 weights where the decode kernel expects the
expansion; `tests/test_e2e_quick.py:105` calls a step that does not exist.  The
third-party trees (vLLM, CUTLASS, Microsoft's two-level code), audit copies, patch
scripts and notebooks are not the program's own logic.  The loader of
`src/shmq/inference/` is one flag in one thread that latches the first failure
(`kernel_loader.py:34`); the Kaggle runner polls a service whose answers nothing in the
repository describes; the model gate compares recorded numbers; the runtime capability is
one conditional.  Of the kernels, activation quantization and INT4 expansion are
elementwise, and the remaining ones are never launched.  Of the allocation, the losses
themselves are numeric.  Of the vLLM patch, `apply` only hands the layer to the operator
front end, and the tensors' dtypes and widths are vLLM's and torch's to check.

What the models show of the code without a property: two overlapping loads can leave a
torn header under a fresh marker if one dies inside a file after the other marked the
tree (`sm75_backend.py:38`), and such a header can go into a library; a call that
waited for a build that failed links the library of the previous archive, unless a
linker has removed it, and so does a later call of the process that failed (`:65`); the
rebuild after a failure (`:72`) takes no lock, so that two linkers can write one library:
a build can end and find the other's half-written file or none, fail to load it and
start a rebuild of its own, and one that dies there leaves half a library that ninja
takes for up to date; an archive that is installed with an
older or equal modification time is never unpacked (`:31`); a process that dies inside
the build leaves torch's lock and every later load waits (`:50`).  vLLM layers that every
rank holds whole, and key and value heads that are replicated, are refused under tensor
parallelism, because the global size is taken as the local one times the ranks
(`0002-add-mixllm-three-level-support.patch:199`).
