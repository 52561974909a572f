----------------------------- MODULE MCShmqPipeline -----------------------------
(***************************************************************************)
(* Instances of ShmqPipeline for TLC: one decoder block with two layers    *)
(* behind the input norm, one behind a pre-hook and two behind the         *)
(* post-attention norm; four tiles of input channels.                      *)
(***************************************************************************)
EXTENDS ShmqPipeline, TLC

CONSTANTS q, k, o, gate, up, input_norm, post_norm

AllLayers == {q, k, o, gate, up}
\* Without k_proj.
SomeLayers == {q, o, gate, up}

Wiring == q :> input_norm @@ k :> input_norm @@ o :> NoNorm
            @@ gate :> post_norm @@ up :> post_norm
OneBlock == [l \in AllLayers |-> 0]
\* The MLP is the larger part of a block.
BlockParams == q :> 1 @@ k :> 1 @@ o :> 1 @@ gate :> 4 @@ up :> 4

\* Grouped-query attention: q_proj is wider than k_proj.
GqaGroups  == {{q}, {k}, {o}, {gate, up}}
SomeGroups == {{q}, {o}, {gate, up}}

\* The sum of the two is the same for every channel: ties.
Sensitivities == {<<3, 1, 4, 2>>, <<2, 4, 1, 3>>}
Metrics == {<<2, 4, 1, 3>>}

Disabled == {"autoround"}
CoreSkips == { {}, Disabled, Disabled \cup {"isa"}, Disabled \cup {"smooth", "sqc"},
               Disabled \cup {"permutation", "fusion"}, {"sensitivity"}, {"ilp", "convert"} }
NoSkips == { {} }
WithoutAutoround == { Disabled }
================================================================================
