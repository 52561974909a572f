---------------------------- MODULE PrefillKernel ----------------------------
(***************************************************************************)
(* three_level_tensorcore_kernel and three_level_tensorcore_reuse_kernel,  *)
(* thread by thread.                                                       *)
(*                                                                         *)
(* Every step along the columns fills the shared A panel with all threads  *)
(* of the block, passes __syncthreads, loads fragments, multiplies, and    *)
(* passes __syncthreads again.  The tensor-core kernel reads the weights   *)
(* from global memory, or stages them per warp where the warp's channels   *)
(* end before its tile does; the reuse kernel fills its B panels with all  *)
(* threads too.  Integer partitions store, scale and clear the accumulator *)
(* at the end of every quantization group.                                 *)
(*                                                                         *)
(* __syncthreads and __syncwarp count arrivals, whatever the call site,    *)
(* and do not wait for threads that exited.  A WMMA load or store is every *)
(* lane reading or writing its share; only mma_sync needs the whole warp.  *)
(***************************************************************************)
EXTENDS GemmGrid

VARIABLES
  step,            \* the column tile each thread is at
  panelA, panelB,  \* shared memory: a_int8 / a_fp16, b_int8 / b_fp16
  fragA, fragB,    \* the fragments in each warp's registers
  acc,             \* the accumulator fragment of each warp
  stored,          \* shared memory: accumulator_int / accumulator_fp32
  scaled,          \* scaled_accumulators of a warp's lanes, at their cells
  item             \* cells each thread has gone through in the output loop

panels    == <<panelA, panelB>>
fragments == <<fragA, fragB>>
sums      == <<acc, stored, scaled>>
prefill   == <<step, panels, fragments, sums, item>>

Cell      == 0 .. Tile * Tile - 1
RowPanels == 0 .. (IF kernel = "reuse" THEN RowWarps ELSE 1) - 1
ChPanels  == 0 .. ChannelWarps - 1
WarpCount == (IF kernel = "reuse" THEN RowWarps ELSE 1) * ChannelWarps
WarpIds   == 0 .. WarpCount - 1
Thread    == WarpIds \X (0 .. Lanes - 1)
Warp(w)   == {w} \X (0 .. Lanes - 1)

WarpRow(w)     == w \div ChannelWarps
WarpChannel(w) == w % ChannelWarps

\* The cells linear = lane, lane + kWarpSize, ... of a warp's tile.
Own(t) == {c \in Cell : c % Lanes = t[2]}

\* blockIdx.x selects a precision and the channels of it the block computes.
PerBlock == ChannelWarps * Tile
Tiles(p) == CeilDiv(Size(p), PerBlock)
Target ==
  LET x == block[1]
  IN  IF x < Tiles(4) THEN [precision |-> 4, base |-> x * PerBlock]
      ELSE IF x < Tiles(4) + Tiles(8)
        THEN [precision |-> 8, base |-> (x - Tiles(4)) * PerBlock]
        ELSE [precision |-> 16, base |-> (x - Tiles(4) - Tiles(8)) * PerBlock]

Prec           == Target.precision
RowBase(w)     == (block[2] * Cardinality(RowPanels) + WarpRow(w)) * Tile
ChannelBase(w) == Target.base + WarpChannel(w) * Tile

\* A lane would decide by its own channel, a warp decides for all its lanes.
FullChannelsPerLane(t) == ChannelBase(t[1]) + t[2] < Size(Prec)
FullChannels(t)        == ChannelBase(t[1]) + Tile <= Size(Prec)

\* Cells of the A panel of a row of warps and of the B panel of a column of
\* warps at column tile s; rows and channels outside the tensors are padding.
InputCell(r, c, s) ==
  LET row == (block[2] * Cardinality(RowPanels) + r) * Tile + (c \div Tile)
  IN  IF row < rows THEN <<row, s * Tile + (c % Tile)>> ELSE Zero
WeightCell(w, c, s) ==
  LET i == ChannelBase(w) + (c \div Tile)
  IN  IF i < Size(Prec) THEN <<Channel(Prec, i), s * Tile + (c % Tile)>> ELSE Zero

(***************************************************************************)
(* Blocks                                                                  *)
(***************************************************************************)
PrefillInit ==
  /\ step = <<>> /\ item = <<>> /\ panelA = <<>> /\ panelB = <<>>
  /\ fragA = <<>> /\ fragB = <<>> /\ acc = <<>> /\ stored = <<>>
  /\ scaled = <<>>

\* Shared memory and registers start with garbage; the accumulators start at 0.
StartBlock ==
  /\ kernel \in {"tensorcore", "reuse"}
  /\ Idle
  /\ left # {}
  /\ block' = NextBlock
  /\ left'  = left \ {NextBlock}
  /\ pc'     = [t \in Thread |-> "fill"]
  /\ step'   = [t \in Thread |-> 0]
  /\ item'   = [t \in Thread |-> 0]
  /\ panelA' = [r \in RowPanels |-> [c \in Cell |-> Garbage]]
  /\ panelB' = [w \in ChPanels |-> [c \in Cell |-> Garbage]]
  /\ fragA'  = [w \in WarpIds |-> [c \in Cell |-> Garbage]]
  /\ fragB'  = [w \in WarpIds |-> [c \in Cell |-> Garbage]]
  /\ acc'    = [w \in WarpIds |-> [c \in Cell |-> EmptyBag]]
  /\ stored' = [w \in WarpIds |-> [c \in Cell |-> EmptyBag]]
  /\ scaled' = [w \in WarpIds |-> [c \in Cell |-> EmptyBag]]
  /\ UNCHANGED <<args, output>>

EndBlock ==
  /\ kernel \in {"tensorcore", "reuse"}
  /\ ~Idle
  /\ \A t \in Thread : pc[t] = "exit"
  /\ block' = None
  /\ pc' = <<>>
  /\ step' = <<>> /\ item' = <<>> /\ panelA' = <<>> /\ panelB' = <<>>
  /\ fragA' = <<>> /\ fragB' = <<>> /\ acc' = <<>> /\ stored' = <<>>
  /\ scaled' = <<>>
  /\ UNCHANGED <<args, left, output>>

(***************************************************************************)
(* One column tile                                                         *)
(***************************************************************************)
\* The part of a panel of several tiles that a thread fills.
FilledBy(t, tile, c) ==
  (tile * Tile * Tile + c) % (WarpCount * Lanes) = t[1] * Lanes + t[2]

Fill(t) ==
  /\ pc[t] = "fill"
  /\ panelA' = [r \in RowPanels |-> [c \in Cell |->
       IF FilledBy(t, r, c) THEN InputCell(r, c, step[t]) ELSE panelA[r][c]]]
  /\ panelB' = IF kernel # "reuse" THEN panelB
               ELSE [w \in ChPanels |-> [c \in Cell |->
       IF FilledBy(t, w, c) THEN WeightCell(w, c, step[t]) ELSE panelB[w][c]]]
  /\ pc' = [pc EXCEPT ![t] = "top"]
  /\ UNCHANGED <<grid, output, step, fragments, sums, item>>

\* load_matrix_sync of the A fragment.
LoadA(t) ==
  /\ pc[t] = "loadA"
  /\ fragA' = [fragA EXCEPT ![t[1]] = [c \in Cell |->
       IF c \in Own(t) THEN panelA[WarpRow(t[1])][c] ELSE @[c]]]
  /\ pc' = [pc EXCEPT ![t] = IF kernel = "reuse" THEN "loadB"
                             ELSE IF FullChannels(t) THEN "direct"
                             ELSE "stage"]
  /\ UNCHANGED <<grid, output, step, panels, fragB, sums, item>>

\* load_matrix_sync of the B fragment from the weights in global memory.
LoadDirect(t) ==
  /\ pc[t] = "direct"
  /\ fragB' = [fragB EXCEPT ![t[1]] = [c \in Cell |->
       IF c \in Own(t) THEN WeightCell(t[1], c, step[t]) ELSE @[c]]]
  /\ pc' = [pc EXCEPT ![t] = "mma"]
  /\ UNCHANGED <<grid, output, step, panels, fragA, sums, item>>

\* A warp whose tile is not full copies its weights to its own B panel first.
Stage(t) ==
  /\ pc[t] = "stage"
  /\ panelB' = [panelB EXCEPT ![t[1]] = [c \in Cell |->
       IF c \in Own(t) THEN WeightCell(t[1], c, step[t]) ELSE @[c]]]
  /\ pc' = [pc EXCEPT ![t] = "staged"]
  /\ UNCHANGED <<grid, output, step, panelA, fragments, sums, item>>

LoadB(t) ==
  /\ pc[t] = "loadB"
  /\ fragB' = [fragB EXCEPT ![t[1]] = [c \in Cell |->
       IF c \in Own(t) THEN panelB[WarpChannel(t[1])][c] ELSE @[c]]]
  /\ pc' = [pc EXCEPT ![t] = "mma"]
  /\ UNCHANGED <<grid, output, step, panels, fragA, sums, item>>

\* The accumulator is stored after the last column tile of a group, and of the
\* whole row where there are no groups.
Stores(s) == IF Prec = 16 THEN s = Groups * PerGroup ELSE s % PerGroup = 0

MultiplyAccumulate(w) ==
  [c \in Cell |-> acc[w][c] (+)
     Products({<<fragA[w][(c \div Tile) * Tile + k],
                 fragB[w][(c % Tile) * Tile + k]>> : k \in 0 .. Tile - 1})]

MmaWithoutBarrier(w) ==
  /\ \A t \in Warp(w) : pc[t] = "mma"
  /\ acc' = [acc EXCEPT ![w] = MultiplyAccumulate(w)]
  /\ pc' = [t \in Thread |-> IF t \notin Warp(w) THEN pc[t]
                             ELSE IF Stores(step[t] + 1) THEN "store" ELSE "fill"]
  /\ step' = [t \in Thread |-> IF t \in Warp(w) THEN step[t] + 1 ELSE step[t]]
  /\ UNCHANGED <<grid, output, panels, fragments, stored, scaled, item>>

\* mma_sync: the whole warp multiplies its fragments.
Mma(w) ==
  /\ \A t \in Warp(w) : pc[t] = "mma"
  /\ acc' = [acc EXCEPT ![w] = MultiplyAccumulate(w)]
  /\ pc' = [t \in Thread |-> IF t \in Warp(w) THEN "bottom" ELSE pc[t]]
  /\ UNCHANGED <<grid, output, step, panels, fragments, stored, scaled, item>>

\* __syncthreads, before the loads and after the multiplication.
Barrier ==
  /\ ~Idle
  /\ \A t \in Thread : pc[t] \in {"top", "bottom", "exit"}
  /\ \E t \in Thread : pc[t] # "exit"
  /\ pc' = [t \in Thread |->
       IF pc[t] = "top" THEN "loadA"
       ELSE IF pc[t] = "bottom"
         THEN IF Stores(step[t] + 1) THEN "store" ELSE "fill"
         ELSE pc[t]]
  /\ step' = [t \in Thread |-> IF pc[t] = "bottom" THEN step[t] + 1 ELSE step[t]]
  /\ UNCHANGED <<grid, output, panels, fragments, sums, item>>

(***************************************************************************)
(* The accumulators and the output                                         *)
(***************************************************************************)
\* store_matrix_sync.
Store(t) ==
  /\ pc[t] = "store"
  /\ stored' = [stored EXCEPT ![t[1]] = [c \in Cell |->
       IF c \in Own(t) THEN acc[t[1]][c] ELSE @[c]]]
  /\ pc' = [pc EXCEPT ![t] = "stored"]
  /\ UNCHANGED <<grid, output, step, panels, fragments, acc, scaled, item>>

InBounds(t, c) ==
  /\ RowBase(t[1]) + (c \div Tile) < rows
  /\ ChannelBase(t[1]) + (c % Tile) < Size(Prec)

\* Each lane scales its cells of the stored accumulator and keeps the sum.
Scale(t) ==
  /\ pc[t] = "scale"
  /\ scaled' = [scaled EXCEPT ![t[1]] = [c \in Cell |->
       IF c \in Own(t) /\ InBounds(t, c) THEN @[c] (+) stored[t[1]][c]
                                         ELSE @[c]]]
  /\ pc' = [pc EXCEPT ![t] = "scaled"]
  /\ UNCHANGED <<grid, output, step, panels, fragments, acc, stored, item>>

\* __syncwarp: after staging, after a store, and after scaling, which ends the
\* group; the next group starts with an empty accumulator.
AfterSync(t) ==
  CASE pc[t] = "staged" -> "loadB"
    [] pc[t] = "stored" -> IF Prec = 16 THEN "write" ELSE "scale"
    [] pc[t] = "scaled" ->
         IF step[t] = Groups * PerGroup THEN "write" ELSE "fill"
    [] OTHER -> pc[t]

NextAccumulator(w) ==
  IF \E t \in Warp(w) : pc[t] = "scaled" THEN [c \in Cell |-> EmptyBag]
                                         ELSE acc[w]

WarpSync(w) ==
  /\ \A t \in Warp(w) : pc[t] \in {"staged", "stored", "scaled", "exit"}
  /\ \E t \in Warp(w) : pc[t] # "exit"
  /\ acc' = [acc EXCEPT ![w] = NextAccumulator(w)]
  /\ pc' = [t \in Thread |-> IF t \in Warp(w) THEN AfterSync(t) ELSE pc[t]]
  /\ UNCHANGED <<grid, output, step, panels, fragments, stored, scaled, item>>

\* One round of the output loop.
Write(t) ==
  /\ pc[t] = "write"
  /\ LET c == t[2] + item[t] * Lanes
         e == <<RowBase(t[1]) + (c \div Tile),
                Channel(Prec, ChannelBase(t[1]) + (c % Tile))>>
         v == IF Prec = 16 THEN stored[t[1]][c] ELSE scaled[t[1]][c]
     IN  IF InBounds(t, c) THEN Put(e, v) ELSE UNCHANGED output
  /\ item' = [item EXCEPT ![t] = @ + 1]
  /\ pc' = [pc EXCEPT ![t] =
              IF item[t] + 1 = (Tile * Tile) \div Lanes THEN "exit" ELSE @]
  /\ UNCHANGED <<grid, step, panels, fragments, sums>>

PrefillNext ==
  \/ StartBlock
  \/ EndBlock
  \/ /\ kernel \in {"tensorcore", "reuse"}
     /\ ~Idle
     /\ \/ Barrier
        \/ \E w \in WarpIds : Mma(w) \/ WarpSync(w)
        \/ \E t \in Thread : \/ Fill(t) \/ LoadA(t) \/ LoadDirect(t) \/ Stage(t)
                             \/ LoadB(t) \/ Store(t) \/ Scale(t) \/ Write(t)

(***************************************************************************)
(* Properties                                                              *)
(***************************************************************************)

\* Threads touch the same cells of shared memory with a barrier in between: no
\* thread fills a panel that another still reads, and no lane stages, stores or
\* clears what a lane of its warp still reads.
NoSharedMemoryRace ==
  kernel \in {"tensorcore", "reuse"} /\ ~Idle =>
    \A t, u \in Thread :
      /\ pc[t] = "fill" => pc[u] \notin {"loadA", "stage", "loadB"}
      /\ t[1] = u[1] => ~(pc[t] = "stage" /\ pc[u] = "loadB")
      /\ t[1] = u[1] => ~(pc[t] = "store" /\ pc[u] \in {"scale", "write"})
==============================================================================
