------------------------------ MODULE GemmLaunch ------------------------------
(***************************************************************************)
(* three_level_linear_v2_core after its shape checks: the choice of the    *)
(* kernel and of its grid, and the kernel's run.                           *)
(***************************************************************************)
EXTENDS PrefillKernel, DecodeKernel

vars == <<grid, pc, output, prefill, decode>>

Init ==
  /\ \E call \in Calls : rows = call[1] /\ indices = call[2]
  /\ kernel = "none"
  /\ left = {}
  /\ block = None
  /\ pc = <<>>
  /\ output = <<>>
  /\ PrefillInit
  /\ DecodeInit

\* The grid the kernel is launched with: channel tiles of each precision by row
\* tiles, or as many warps as the blocks of the decode kernel hold.
ChannelTiles    == Tiles(4) + Tiles(8) + Tiles(16)
RowTiles(n)     == CeilDiv(rows, n)
DecodeBlocks    == CeilDiv(OutputWidth, DecodeWarps * Subwarps)
Choose ==
  IF rows = 0 THEN [kernel |-> "empty", grid |-> {}]
  ELSE IF rows = 1
    THEN [kernel |-> "decode", grid |-> 0 .. DecodeBlocks * DecodeWarps - 1]
  ELSE IF Size(4) > 0 \/ Size(8) > 0
    THEN [kernel |-> "tensorcore",
          grid |-> (0 .. ChannelTiles - 1) \X (0 .. RowTiles(Tile) - 1)]
    ELSE [kernel |-> "reuse",
          grid |-> (0 .. ChannelTiles - 1) \X (0 .. RowTiles(RowWarps * Tile) - 1)]

\* One launch; the CUTLASS branch of the dispatch repeats the condition of the
\* tensor-core branch before it and is never taken.
Launch ==
  /\ kernel = "none"
  /\ OutputWidth > 0
  /\ kernel' = Choose.kernel
  /\ left' = Choose.grid
  /\ UNCHANGED <<rows, indices, block, pc, output, prefill, decode>>

Next ==
  \/ Launch
  \/ PrefillNext /\ UNCHANGED decode
  \/ DecodeNext /\ UNCHANGED prefill

\* The device does not stop while a thread can go on.
Spec == Init /\ [][Next]_vars /\ WF_vars(Next)

Ended == kernel # "none" /\ left = {} /\ Idle

(***************************************************************************)
(* Properties                                                              *)
(***************************************************************************)

Gemm == INSTANCE PartitionedGemm
          WITH wanted <- Elements, out <- output, ended <- Ended

\* Whatever the rows and the partition, the launch writes each element of the
\* output, with the products of its row and its channel over every column
\* counted exactly once, writes nothing else (a second write of the same sum
\* would pass for a stutter), leaves no element out and ends:
\* no thread waits at a barrier or in a shuffle for one that never arrives.
ImplementsGemm == Gemm!Spec
===============================================================================
