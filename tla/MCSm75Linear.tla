---------------------------- MODULE MCSm75Linear ----------------------------
(***************************************************************************)
(* Instances of Sm75Linear for TLC: a layer with two output channels.      *)
(***************************************************************************)
EXTENDS Sm75Linear, TLC

CONSTANTS a0, a1, a2, t0, t1, s0, s1, slot0, slot1

Packed(tag, rows) == [tag |-> tag, rows |-> rows]

StateDict(i4, i8, i16, tag) ==
  "indices_4" :> i4 @@ "indices_8" :> i8 @@ "indices_16" :> i16
    @@ "weight_int4" :> Packed(tag, Len(i4)) @@ "zero_int4" :> Packed(tag, Len(i4))

Without(c, missing) == [b \in DOMAIN c \ missing |-> c[b]]

\* Two-level checkpoints have no FP16 keys.
TwoLevel(i4, i8, tag) == Without(StateDict(i4, i8, <<>>, tag), {"indices_16"})

\* One partition, and another state of it that lost its zero points.
SamePartition == { StateDict(<<0>>, <<>>, <<1>>, t0),
                   Without(StateDict(<<0>>, <<>>, <<1>>, t1), {"zero_int4"}) }

\* Two complete partitions of equal shape, their malformed neighbour, an
\* FP16-only one, a two-level checkpoint and one that lost its zero points.
WithMalformed == { StateDict(<<0>>, <<>>, <<1>>, t0), StateDict(<<1>>, <<>>, <<0>>, t0),
                   StateDict(<<1>>, <<>>, <<1>>, t0), TwoLevel(<<0>>, <<1>>, t0),
                   StateDict(<<>>, <<>>, <<0, 1>>, t0),
                   Without(StateDict(<<0, 1>>, <<>>, <<>>, t0), {"zero_int4"}) }

Symmetry == Permutations({a0, a1, a2}) \cup Permutations({slot0, slot1})
=============================================================================
