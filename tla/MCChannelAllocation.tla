-------------------------- MODULE MCChannelAllocation --------------------------
(***************************************************************************)
(* ChannelAllocation for TLC: models of two and three layers.              *)
(***************************************************************************)
EXTENDS ChannelAllocation, TLC

SmallModels == {<<3, 2>>, <<2, 1, 1>>, <<2, 1>>}

Percentages(b4, b8, b16) == 4 :> b4 @@ 8 :> b8 @@ 16 :> b16

SomeBudgets == {Percentages(50, 25, 25), Percentages(34, 33, 33),
                Percentages(0, 60, 40)}

SomeMinimums == {<<0, 0>>, <<1, 1>>, <<0, 2>>, <<3, 0>>,
                 <<1, 1, 1>>, <<0, 1, 1>>, <<2, 0, 0>>}
================================================================================
