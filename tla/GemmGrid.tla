------------------------------- MODULE GemmGrid -------------------------------
(***************************************************************************)
(* A launch of the three-level linear operator (three_level_sm75.cu): its  *)
(* arguments, its output tensor and the grid of the kernel it chose.       *)
(*                                                                         *)
(* Blocks share nothing but the output tensor, which no thread reads, so   *)
(* they run one after another here, in some order.  Values are symbolic:   *)
(* an input element is <<row, column>>, a weight <<output channel,         *)
(* column>>, and a sum of products the bag of the pairs it multiplied.     *)
(***************************************************************************)
EXTENDS Naturals, Sequences, FiniteSets, Bags, TLC

CONSTANTS
  Tile,         \* kTile: rows, channels and columns of one WMMA tile
  Lanes,        \* kWarpSize in the prefill kernels
  ChannelWarps, \* warps of a block side by side: kPrefillWarps
  RowWarps,     \* warps of a reuse block on top of one another: 2
  PerGroup,     \* tiles of columns in one quantization group
  Groups,       \* quantization groups of a row
  DecodeWarps,  \* kDecodeWarps
  Subwarps,     \* kDecodeChannelsPerWarp
  Sublanes,     \* kDecodeSubwarp
  Calls,        \* pairs of the input's rows and a partition: precision ->
                \* output channels of that precision's weight tensor
  None, Zero, Garbage

Precision == {4, 8, 16}
Columns   == 0 .. Groups * PerGroup * Tile - 1

\* The partition was validated before the launch (Sm75Linear): every output
\* channel belongs to one precision.
ASSUME CallsAssumption ==
  \A call \in Calls :
    LET p == call[2]  all == p[4] \o p[8] \o p[16]
    IN  /\ call[1] \in Nat
        /\ DOMAIN p = Precision
        /\ {all[i] : i \in 1 .. Len(all)} = 0 .. Len(all) - 1
\* Lanes are halved until one is left, and every lane of a warp owns a cell.
ASSUME ShapeAssumption ==
  /\ \E n \in 0 .. 5 : Sublanes = 2 ^ n
  /\ (Tile * Tile) % Lanes = 0

VARIABLES
  rows, indices,  \* rows of the input, indices_int4 / int8 / fp16
  kernel,         \* the kernel that was launched
  left,           \* blocks of its grid that have not started
  block,          \* the block that runs
  pc,             \* where each thread of it is
  output          \* the elements of the output tensor written so far, and
                  \* whether each value is exact

args == <<rows, indices, kernel>>
grid == <<args, left, block>>

Size(p)     == Len(indices[p])
OutputWidth == Size(4) + Size(8) + Size(16)
Elements    == (0 .. rows - 1) \X (0 .. OutputWidth - 1)

CeilDiv(n, d) == (n + d - 1) \div d

\* Output channel of the i-th row of a precision's weight tensor.
Channel(p, i) == indices[p][i + 1]

\* Products that a lane, or one multiply-accumulate of a warp, adds up; padding
\* contributes nothing.
Products(pairs) == SetToBag({x \in pairs : x[1] # Zero /\ x[2] # Zero})

\* The sum that element e has to be.
Exact(e) == Products({<< <<e[1], k>>, <<e[2], k>> >> : k \in Columns})

\* Element e of the output tensor becomes v; of v only matters whether it is
\* the sum that element has to be.
Put(e, v) == output' = e :> (IF v = Exact(e) THEN "exact" ELSE "wrong") @@ output

\* The block that runs next, and whether none is running.
NextBlock == CHOOSE b \in left : TRUE
Idle == DOMAIN pc = {}
===============================================================================
