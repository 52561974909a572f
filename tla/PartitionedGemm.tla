--------------------------- MODULE PartitionedGemm ---------------------------
(***************************************************************************)
(* What a launch of the SM75 operator promises: the output tensor starts   *)
(* unwritten, elements appear one at a time in any order, each with its    *)
(* exact value, an element that was written never changes, and the launch  *)
(* ends, with none missing.                                                *)
(***************************************************************************)
EXTENDS TLC

VARIABLES
  wanted,  \* the elements of the output tensor
  out,     \* the elements written so far and whether each value is exact
  ended    \* every thread of the launch has exited

vars == <<wanted, out, ended>>

Init == out = <<>> /\ ~ended

Compute(e) ==
  /\ e \in wanted \ DOMAIN out
  /\ out' = out @@ e :> "exact"
  /\ UNCHANGED <<wanted, ended>>

End ==
  /\ ~ended
  /\ DOMAIN out = wanted
  /\ ended' = TRUE
  /\ UNCHANGED <<wanted, out>>

Next == End \/ \E e \in wanted : Compute(e)

Spec == Init /\ [][Next]_vars /\ WF_vars(Next)
==============================================================================
