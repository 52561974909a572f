------------------------------- MODULE MCIsaLoop -------------------------------
(***************************************************************************)
(* Instances of IsaLoop for TLC: the widths of real decoder layers, and    *)
(* widths that are not a multiple of a tile.                               *)
(***************************************************************************)
EXTENDS IsaLoop

Widths == {64, 200, 576, 896, 1000, 1536, 3584, 4864, 5120}

\* All FP16, all INT8, the default split, a split in quarters, no FP16, odd ones.
Splits == {<<100, 0>>, <<0, 100>>, <<5, 20>>, <<25, 25>>, <<0, 12>>, <<33, 33>>,
           <<50, 50>>}
================================================================================
