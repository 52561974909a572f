----------------------------- MODULE MCGemmLaunch -----------------------------
(***************************************************************************)
(* Instances of GemmLaunch for TLC: tiles of 2 x 2, two quantization       *)
(* groups of two tiles, partitions that end inside, at and past a tile.    *)
(***************************************************************************)
EXTENDS GemmLaunch

Partition(i4, i8, i16) == (4 :> i4) @@ (8 :> i8) @@ (16 :> i16)

SmallCalls ==
  { \* no rows: nothing is launched
    <<0, Partition(<<1, 0>>, <<>>, <<2>>)>>,
    \* decode: a warp with an INT4 and an FP16 subwarp, and half a warp;
    \* an INT8 subwarp alone
    <<1, Partition(<<1>>, <<>>, <<2, 0>>)>>,
    <<1, Partition(<<>>, <<0>>, <<>>)>>,
    \* tensor cores: a block with a full and a staged warp, a staged and an
    \* idle one, two blocks of one precision, and a half-filled row tile
    <<3, Partition(<<1, 4, 0>>, <<3>>, <<2>>)>>,
    <<3, Partition(<<>>, <<2, 0, 1, 4, 3>>, <<>>)>>,
    \* FP16 only: the reuse kernel
    <<3, Partition(<<>>, <<>>, <<0, 2, 1>>)>> }
===============================================================================
