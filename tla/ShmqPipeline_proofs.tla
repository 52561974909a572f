-------------------------- MODULE ShmqPipeline_proofs --------------------------
(***************************************************************************)
(* Every forward the pipeline runs, and every forward of the model it      *)
(* leaves, computes the function of the loaded model as far as the order of*)
(* channels and the smoothing scales go: for any layers, norms, groups,    *)
(* widths and skip sets, provided the layers a norm feeds are selected     *)
(* together.                                                               *)
(* Whatever is excluded, every field keeps its type and the more sensitive *)
(* channels of a layer keep at least as many bits.                         *)
(***************************************************************************)
EXTENDS ShmqPipeline, Counting

\* The excluded keywords name all the layers a norm feeds, or none of them.
ReadersTogether ==
  \A m \in Selected, l \in Layers :
    NormOf[l] # NoNorm /\ NormOf[l] = NormOf[m] => l \in Selected

Before == {"smooth", "sensitivity", "ilp", "isa", "permutation"}
After  == {"autoround", "sqc", "quantize", "gptq", "convert", "smoke", "done"}

MaybeOrder == Order \cup {None}
Unpermuted == \A l \in Layers : perm[l] = None

\* The columns of a layer are where its permutation put them.
ColumnsFollow ==
  /\ perm \in [Layers -> MaybeOrder]
  /\ cols = [l \in Layers |-> IF perm[l] = None THEN Id ELSE perm[l]]
  /\ \A l \in Layers \ Selected : perm[l] = None
  /\ \A g \in Groups : \A l, m \in g : perm[l] = perm[m]
  /\ pc \in Before => Unpermuted

\* A permutation comes from the sensitivities of step 2, and step 5 may be
\* skipped only when there is none.
PlanFollows ==
  /\ skip \in Skips
  /\ sens = None => Unpermuted
  /\ "sensitivity" \in skip => sens = None
  /\ {"permutation", "sensitivity"} \cap skip # {} => Unpermuted
  /\ pc = "permute" => "permutation" \notin skip
  /\ pc \in {"harden", "fusion"} =>
       Unpermuted \/ \A l \in Selected : perm[l] # None

\* A norm that was fused emits the order of all its readers; a hook applies the
\* order of its layer.
InputsFollow ==
  /\ hook \in [Layers -> MaybeOrder] /\ gather \in [Norms -> Order]
  /\ fused \subseteq Norms
  /\ \A l \in Layers : hook[l] # None => hook[l] = perm[l]
  /\ pc \in Before \cup {"permute", "harden"} =>
       fused = {} /\ \A l \in Layers : hook[l] = None
  /\ \A n \in Norms \ fused : gather[n] = Id
  /\ \A n \in fused : \A l \in Readers(n) : perm[l] = gather[n]
  /\ pc \in After =>
       /\ Unhooked = {}
       /\ \A n \in Norms : n \in fused \/ OrdersFor(n) = {}

\* SmoothQuant scales a norm together with all its readers.
ScalesFollow ==
  \A l \in Layers : NormOf[l] # NoNorm => (l \in scaled <=> NormOf[l] \in scaled)

LayoutInv == ColumnsFollow /\ PlanFollows /\ InputsFollow /\ ScalesFollow

--------------------------------------------------------------------------------
LEMMA Reordered == \A p \in Order : Permuted(Id, p) = p
  BY DEF Order, Permuted, Id

LEMMA IdIsAnOrder == Id \in Order
  BY DEF Order, Id, IsInjective

\* What each step passes the control to.
LEMMA Successors ==
  /\ Follows["smooth"] = "sensitivity" /\ Follows["sensitivity"] = "ilp"
  /\ Follows["ilp"] = "isa" /\ Follows["isa"] = "permutation"
  /\ Follows["permutation"] = "fusion" /\ Follows["fusion"] = "autoround"
  /\ Follows["autoround"] = "sqc" /\ Follows["sqc"] = "quantize"
  /\ Follows["quantize"] = "convert" /\ Follows["convert"] = "done"
  BY DEF Follows

\* A group is a set of selected layers.
LEMMA GroupsSelected == \A g \in Groups : g \subseteq Selected /\ g \subseteq Layers
  BY LayersAssumption

LEMMA LayoutInvInit == Init => LayoutInv
<1> SUFFICES ASSUME Init PROVE LayoutInv
  OBVIOUS
<1>1. /\ pc = "smooth" /\ pc \notin After /\ pc \in Before /\ skip \in Skips
      /\ sens = None /\ scaled = {} /\ fused = {}
  BY DEF Init, After, Before
<1>2. /\ perm = [l \in Layers |-> None] /\ hook = [l \in Layers |-> None]
      /\ cols = [l \in Layers |-> Id] /\ gather = [n \in Norms |-> Id]
  BY DEF Init
<1>3. ColumnsFollow
  BY <1>2, GroupsSelected, LayersAssumption DEF ColumnsFollow, MaybeOrder, Unpermuted
<1>4. PlanFollows
  BY <1>1, <1>2 DEF PlanFollows, Unpermuted
<1>5. InputsFollow
  BY <1>1, <1>2, IdIsAnOrder DEF InputsFollow, MaybeOrder
<1>6. ScalesFollow
  BY <1>1 DEF ScalesFollow
<1> QED
  BY <1>3, <1>4, <1>5, <1>6 DEF LayoutInv

\* A step that leaves the layout alone and stays on its side of steps 4 and 5.
Quiet ==
  /\ UNCHANGED <<skip, scaled, sens, cols, gather, hook, perm, fused>>
  /\ \/ pc' = pc \/ pc' = "failed"
     \/ pc \in Before /\ pc' \in Before
     \/ pc \in After /\ pc' \in After

LEMMA QuietStep == LayoutInv /\ Quiet => LayoutInv'
<1> SUFFICES ASSUME LayoutInv, Quiet PROVE LayoutInv'
  OBVIOUS
<1>1. UNCHANGED <<skip, scaled, sens, cols, gather, hook, perm, fused>>
  BY DEF Quiet
<1>2. /\ pc' \in Before => pc \in Before
      /\ pc' \in After => pc \in After
      /\ pc' \in {"permute", "harden", "fusion"} => pc' = pc
  BY DEF Quiet, Before, After
<1>3. UNCHANGED <<Unpermuted, Unhooked>> /\ \A n \in Norms : UNCHANGED OrdersFor(n)
  BY <1>1 DEF Unpermuted, Unhooked, OrdersFor
<1>4. ColumnsFollow'
  BY <1>1, <1>2, <1>3 DEF LayoutInv, ColumnsFollow
<1>5. PlanFollows'
  BY <1>1, <1>2, <1>3 DEF LayoutInv, PlanFollows
<1>6. InputsFollow'
  BY <1>1, <1>2, <1>3 DEF LayoutInv, InputsFollow, Before
<1>7. ScalesFollow'
  BY <1>1 DEF LayoutInv, ScalesFollow
<1> QED
  BY <1>4, <1>5, <1>6, <1>7 DEF LayoutInv

\* Steps 3 and 3.5 plan; everything from step 6 on leaves the layout alone.
LEMMA QuietActions ==
  /\ SolveIlp => Quiet
  /\ MatchIsa => Quiet
  /\ \A b \in Blocks : PassBlock(b) \/ WrapBlock(b) => Quiet
  /\ BakeBlock \/ EndAutoround \/ Sqc \/ Recapture \/ EndQuantize => Quiet
  /\ \A l \in Selected : QuantizeLayer(l) \/ ConvertLayer(l) => Quiet
  /\ EndConvert \/ SmokeTest => Quiet
<1> USE DEF Quiet, Runs, Goto, Fail, setup, layout, plan, tail, Before, After
<1>1. SolveIlp => Quiet
  BY DEF SolveIlp
<1>2. MatchIsa => Quiet
  BY DEF MatchIsa
<1>3. \A b \in Blocks : PassBlock(b) \/ WrapBlock(b) => Quiet
  BY DEF PassBlock, WrapBlock
<1>4. BakeBlock \/ EndAutoround \/ Sqc \/ Recapture \/ EndQuantize => Quiet
  BY DEF BakeBlock, EndAutoround, Sqc, Recapture, EndQuantize
<1>5. \A l \in Selected : QuantizeLayer(l) \/ ConvertLayer(l) => Quiet
  BY DEF QuantizeLayer, ConvertLayer
<1>6. EndConvert \/ SmokeTest => Quiet
  BY DEF EndConvert, SmokeTest
<1> QED
  BY <1>1, <1>2, <1>3, <1>4, <1>5, <1>6

LEMMA SmoothQuantStep == ReadersTogether /\ LayoutInv /\ SmoothQuant => LayoutInv'
<1> SUFFICES ASSUME ReadersTogether, LayoutInv, SmoothQuant PROVE LayoutInv'
  OBVIOUS
<1> DEFINE smoothed == {l \in Selected : NormOf[l] # NoNorm}
<1>1. scaled' = smoothed \cup {NormOf[l] : l \in smoothed}
  BY DEF SmoothQuant
<1>2. /\ pc = "smooth" /\ pc' = "sensitivity"
      /\ UNCHANGED <<skip, sens, cols, gather, hook, perm, fused>>
  BY DEF SmoothQuant, Runs, Goto, setup, plan, layout
<1>3. UNCHANGED Unpermuted /\ pc \in Before /\ pc' \in Before
      /\ pc' \notin After \cup {"permute", "harden", "fusion"}
  BY <1>2 DEF Unpermuted, Before, After
<1>4. ColumnsFollow' /\ PlanFollows' /\ InputsFollow'
  BY <1>2, <1>3 DEF LayoutInv, ColumnsFollow, PlanFollows, InputsFollow
<1>5. ScalesFollow'
  <2> SUFFICES ASSUME NEW l \in Layers, NormOf[l] # NoNorm
               PROVE  l \in scaled' <=> NormOf[l] \in scaled'
    BY DEF ScalesFollow
  <2>1. NormOf[l] \in Norms /\ NormOf[l] \notin Layers
    BY LayersAssumption
  <2>2. l \in scaled' <=> l \in Selected
    BY <1>1, LayersAssumption
  <2>3. NormOf[l] \in scaled' <=> \E m \in smoothed : NormOf[m] = NormOf[l]
    BY <1>1, <2>1, LayersAssumption
  <2> QED
    BY <2>2, <2>3 DEF ReadersTogether
<1> QED
  BY <1>4, <1>5 DEF LayoutInv

LEMMA SensitivityStep == LayoutInv /\ Sensitivity => LayoutInv'
<1> SUFFICES ASSUME LayoutInv, Sensitivity PROVE LayoutInv'
  OBVIOUS
<1>1. /\ pc = "sensitivity" /\ pc' = "ilp" /\ "sensitivity" \notin skip
      /\ UNCHANGED <<skip, scaled, cols, gather, hook, perm, fused>>
  BY DEF Sensitivity, Runs, Goto, setup, layout
<1>2. UNCHANGED Unpermuted /\ pc \in Before /\ pc' \in Before
      /\ pc' \notin After \cup {"permute", "harden", "fusion"}
  BY <1>1 DEF Unpermuted, Before, After
<1>3. Unpermuted
  BY <1>2 DEF LayoutInv, ColumnsFollow
<1>4. ColumnsFollow' /\ InputsFollow' /\ ScalesFollow'
  BY <1>1, <1>2 DEF LayoutInv, ColumnsFollow, InputsFollow, ScalesFollow
<1>5. PlanFollows'
  BY <1>1, <1>2, <1>3 DEF LayoutInv, PlanFollows
<1> QED
  BY <1>4, <1>5 DEF LayoutInv

\* The control moves, to the next step of step 4 or past a step that is skipped.
Moves ==
  UNCHANGED <<skip, scaled, sens, cols, gather, hook, perm, fused>>

LEMMA ControlMoves ==
  LayoutInv /\ Moves =>
    /\ UNCHANGED <<Unpermuted, Unhooked>> /\ \A n \in Norms : UNCHANGED OrdersFor(n)
    /\ ScalesFollow'
    /\ (pc' \notin Before => ColumnsFollow')
  BY DEF Moves, LayoutInv, Unpermuted, Unhooked, OrdersFor, ScalesFollow, ColumnsFollow

\* Into step 4, and from there to its assertions and to step 5.
LEMMA StepFour == LayoutInv /\ (CaptureMetric \/ EndPermute \/ Harden) => LayoutInv'
<1> SUFFICES ASSUME LayoutInv, CaptureMetric \/ EndPermute \/ Harden PROVE LayoutInv'
  OBVIOUS
<1>1. Moves
  BY DEF CaptureMetric, EndPermute, Harden, Moves, Goto, Fail, setup, plan, layout
<1>2. /\ pc' \notin Before \cup After
      /\ pc' = "permute" => pc = "permutation" /\ "permutation" \notin skip
      /\ pc' = "harden" => Unpermuted \/ \A l \in Selected : perm[l] # None
      /\ pc' = "fusion" => pc = "harden"
      /\ pc' \in {"permute", "harden"} => pc \in Before \cup {"permute"}
  BY DEF CaptureMetric, EndPermute, Harden, Goto, Fail, Runs, Before, After, LayoutInv,
         PlanFollows
<1>3. ColumnsFollow' /\ ScalesFollow' /\ UNCHANGED Unpermuted
  BY <1>1, <1>2, ControlMoves
<1>4. PlanFollows'
  BY <1>1, <1>2, <1>3 DEF Moves, LayoutInv, PlanFollows
<1>5. InputsFollow'
  BY <1>1, <1>2 DEF Moves, LayoutInv, InputsFollow, Before
<1> QED
  BY <1>3, <1>4, <1>5 DEF LayoutInv

\* A group moves as one, from where the model had it.
LEMMA PermutedColumns ==
  ASSUME NEW g \in Groups, ColumnsFollow, PermuteGroup(g) PROVE ColumnsFollow'
<1>1. pc = "permute" /\ pc \notin Before /\ (\E l \in g : perm[l] = None)
  BY DEF PermuteGroup, Before
<1>2. CASE UNCHANGED layout /\ pc' = "failed"
  <2>1. UNCHANGED <<cols, perm>> /\ pc' \notin Before
    BY <1>2 DEF layout, Before
  <2> QED BY <2>1 DEF ColumnsFollow
<1>3. CASE \E p \in LegalOrders(GroupSens(g), GroupMetric(g), GroupSizes(g)) :
             /\ cols' = [l \in Layers |-> IF l \in g THEN Permuted(cols[l], p)
                                                     ELSE cols[l]]
             /\ perm' = [l \in Layers |-> IF l \in g THEN p ELSE perm[l]]
             /\ UNCHANGED pc
  <2>1. PICK p \in Order :
          /\ cols' = [l \in Layers |-> IF l \in g THEN Permuted(cols[l], p) ELSE cols[l]]
          /\ perm' = [l \in Layers |-> IF l \in g THEN p ELSE perm[l]]
          /\ UNCHANGED pc
    BY <1>3 DEF LegalOrders
  <2>2. p # None
    BY NoneAssumption
  <2>3. \A l \in g : l \in Selected /\ perm[l] = None /\ cols[l] = Id
    BY <1>1, GroupsSelected DEF ColumnsFollow
  <2>4. \A l \in g : Permuted(cols[l], p) = p
    BY <2>3, Reordered
  <2>5. perm' \in [Layers -> MaybeOrder]
    BY <2>1 DEF ColumnsFollow, MaybeOrder
  <2>6. cols' = [l \in Layers |-> IF perm'[l] = None THEN Id ELSE perm'[l]]
    BY <2>1, <2>2, <2>4 DEF ColumnsFollow
  <2>7. \A l \in Layers \ Selected : perm'[l] = None
    BY <2>1, <2>3 DEF ColumnsFollow
  <2>8. \A h \in Groups : \A l, m \in h : perm'[l] = perm'[m]
    <3> SUFFICES ASSUME NEW h \in Groups, NEW l \in h, NEW m \in h
                 PROVE  perm'[l] = perm'[m]
      OBVIOUS
    <3>1. l \in Layers /\ m \in Layers
      BY GroupsSelected
    <3>2. CASE h = g
      BY <2>1, <3>1, <3>2
    <3>3. CASE h # g
      <4>1. l \notin g /\ m \notin g
        BY <3>3, LayersAssumption
      <4> QED
        BY <2>1, <3>1, <4>1 DEF ColumnsFollow
    <3> QED
      BY <3>2, <3>3
  <2> QED
    BY <1>1, <2>1, <2>5, <2>6, <2>7, <2>8 DEF ColumnsFollow
<1> QED
  BY <1>2, <1>3 DEF PermuteGroup, Fail

LEMMA PermuteGroupStep ==
  ASSUME NEW g \in Groups, LayoutInv, PermuteGroup(g) PROVE LayoutInv'
<1>1. /\ pc = "permute" /\ sens # None /\ pc \notin Before /\ pc \notin After
      /\ UNCHANGED <<skip, scaled, sens, gather, hook, fused>>
  BY DEF PermuteGroup, setup, plan, layout, Before, After
<1>2. ColumnsFollow'
  BY PermutedColumns DEF LayoutInv
<1>3. CASE UNCHANGED layout /\ pc' = "failed"
  BY <1>1, <1>3, QuietStep DEF Quiet, layout
<1>4. CASE UNCHANGED pc
  <2>1. PlanFollows'
    BY <1>1, <1>4 DEF LayoutInv, PlanFollows
  <2>2. InputsFollow'
    BY <1>1, <1>4 DEF LayoutInv, InputsFollow
  <2>3. ScalesFollow'
    BY <1>1 DEF LayoutInv, ScalesFollow
  <2> QED
    BY <1>2, <2>1, <2>2, <2>3 DEF LayoutInv
<1> QED
  BY <1>3, <1>4 DEF PermuteGroup, Fail

LEMMA InstallHookStep ==
  ASSUME NEW l \in Selected, LayoutInv, InstallHook(l) PROVE LayoutInv'
<1>1. /\ pc = "fusion" /\ pc \notin Before \cup After \cup {"permute", "harden"}
      /\ hook' = [hook EXCEPT ![l] = perm[l]]
      /\ UNCHANGED <<pc, skip, scaled, sens, cols, gather, perm, fused>>
  BY DEF InstallHook, Runs, setup, plan, Before, After
<1>2. UNCHANGED Unpermuted
  BY <1>1 DEF Unpermuted
<1>3. ColumnsFollow' /\ PlanFollows' /\ ScalesFollow'
  BY <1>1, <1>2 DEF LayoutInv, ColumnsFollow, PlanFollows, ScalesFollow
<1>4. InputsFollow'
  BY <1>1, LayersAssumption DEF LayoutInv, InputsFollow, ColumnsFollow
<1> QED
  BY <1>3, <1>4 DEF LayoutInv

LEMMA FuseNormStep ==
  ASSUME ReadersTogether, NEW n \in Norms, LayoutInv, FuseNorm(n) PROVE LayoutInv'
<1>1. /\ pc = "fusion" /\ pc \notin Before \cup After \cup {"permute", "harden"}
      /\ OrdersFor(n) # {}
      /\ UNCHANGED <<skip, scaled, sens, cols, hook, perm>>
  BY DEF FuseNorm, Runs, setup, plan, layout, Before, After
<1>2. CASE UNCHANGED layout /\ pc' = "failed"
  BY <1>1, <1>2, QuietStep DEF Quiet, layout
<1>3. CASE /\ \E p \in OrdersFor(n) :
                OrdersFor(n) = {p} /\ gather' = [gather EXCEPT ![n] = p]
           /\ fused' = fused \cup {n}
           /\ UNCHANGED pc
  <2>1. PICK p \in OrdersFor(n) :
          OrdersFor(n) = {p} /\ gather' = [gather EXCEPT ![n] = p]
    BY <1>3
  <2>2. PICK m \in Readers(n) \cap Selected : perm[m] # None /\ perm[m] = p
    BY <2>1 DEF OrdersFor
  <2>3. p \in Order
    BY <2>2 DEF LayoutInv, ColumnsFollow, MaybeOrder, Readers
  <2>4. \A l \in Selected : perm[l] # None
    BY <1>1, <2>2 DEF LayoutInv, PlanFollows, Unpermuted, Readers
  <2>5. \A l \in Readers(n) : l \in Selected
    BY <2>2, LayersAssumption DEF ReadersTogether, Readers
  <2>6. \A l \in Readers(n) : perm[l] = p
    BY <2>1, <2>4, <2>5 DEF OrdersFor
  <2>7. UNCHANGED Unpermuted
    BY <1>1 DEF Unpermuted
  <2>8. ColumnsFollow' /\ PlanFollows' /\ ScalesFollow'
    BY <1>1, <1>3, <2>7 DEF LayoutInv, ColumnsFollow, PlanFollows, ScalesFollow
  <2>9. InputsFollow'
    BY <1>1, <1>3, <2>1, <2>3, <2>6 DEF LayoutInv, InputsFollow
  <2> QED
    BY <2>8, <2>9 DEF LayoutInv
<1> QED
  BY <1>2, <1>3 DEF FuseNorm, Fail

\* Past step 5 with nothing left to propagate.
LEMMA PastFusion ==
  ASSUME LayoutInv, Moves, pc = "fusion", pc' = "autoround",
         Unhooked = {}, \A n \in Norms : n \in fused \/ OrdersFor(n) = {}
  PROVE  LayoutInv'
<1>1. /\ UNCHANGED <<Unpermuted, Unhooked>> /\ \A n \in Norms : UNCHANGED OrdersFor(n)
      /\ ColumnsFollow' /\ ScalesFollow'
  BY ControlMoves DEF Before
<1>2. PlanFollows'
  BY <1>1 DEF Moves, LayoutInv, PlanFollows
<1>3. InputsFollow'
  BY <1>1 DEF Moves, LayoutInv, InputsFollow, Before
<1> QED
  BY <1>1, <1>2, <1>3 DEF LayoutInv

LEMMA EndFusionStep == LayoutInv /\ EndFusion => LayoutInv'
  BY PastFusion DEF EndFusion, Runs, Goto, Moves, setup, plan, layout

LEMMA SkipStepStep == LayoutInv /\ SkipStep => LayoutInv'
<1> SUFFICES ASSUME LayoutInv, SkipStep PROVE LayoutInv'
  OBVIOUS
<1>1. /\ pc \in skip /\ pc' = Follows[pc]
      /\ UNCHANGED <<skip, scaled, sens, cols, gather, hook, perm, fused>>
  BY DEF SkipStep, Goto, setup, plan, layout
<1>2. skip \in Skips /\ pc \in Steps
  BY <1>1, SkipsAssumption DEF LayoutInv, PlanFollows
<1>3. CASE pc = "permutation"
  <2>1. pc' = "fusion" /\ Unpermuted
    BY <1>1, <1>3, Successors DEF LayoutInv, PlanFollows
  <2>2. ColumnsFollow' /\ ScalesFollow' /\ UNCHANGED Unpermuted
    BY <1>1, <2>1, ControlMoves DEF Moves, Before
  <2>3. PlanFollows'
    BY <1>1, <2>1, <2>2 DEF LayoutInv, PlanFollows
  <2>4. InputsFollow'
    BY <1>1, <2>1 DEF LayoutInv, InputsFollow, Before, After
  <2> QED
    BY <2>2, <2>3, <2>4 DEF LayoutInv
<1>4. CASE pc = "fusion"
  <2>1. pc' = "autoround" /\ Moves
    BY <1>1, <1>4, Successors DEF Moves
  <2>2. Unpermuted
    BY <1>1, <1>2, <1>4, SkipsAssumption DEF LayoutInv, PlanFollows
  <2>3. Unhooked = {}
    BY <2>2, LayersAssumption DEF Unhooked, Unpermuted
  <2>4. \A n \in Norms : OrdersFor(n) = {}
    BY <2>2 DEF OrdersFor, Unpermuted, Readers
  <2> QED
    BY <1>4, <2>1, <2>3, <2>4, PastFusion
<1>5. CASE pc \in Steps \ {"permutation", "fusion"}
  <2>1. (pc \in Before /\ pc' \in Before) \/ (pc \in After /\ pc' \in After)
    BY <1>1, <1>5, Successors DEF Steps, Before, After
  <2> QED
    BY <1>1, <2>1, QuietStep DEF Quiet
<1> QED
  BY <1>2, <1>3, <1>4, <1>5 DEF Steps

LEMMA LayoutInvNext == ReadersTogether /\ LayoutInv /\ [Next]_vars => LayoutInv'
<1> SUFFICES ASSUME ReadersTogether, LayoutInv, [Next]_vars PROVE LayoutInv'
  OBVIOUS
<1>1. CASE UNCHANGED vars
  BY <1>1, QuietStep DEF Quiet, vars, setup, plan, layout
<1>2. CASE SkipStep
  BY <1>2, SkipStepStep
<1>3. CASE SmoothQuant
  BY <1>3, SmoothQuantStep
<1>4. CASE Sensitivity
  BY <1>4, SensitivityStep
<1>5. CASE CaptureMetric \/ EndPermute \/ Harden
  BY <1>5, StepFour
<1>6. CASE \E g \in Groups : PermuteGroup(g)
  BY <1>6, PermuteGroupStep
<1>7. CASE \E l \in Selected : InstallHook(l)
  BY <1>7, InstallHookStep
<1>8. CASE \E n \in Norms : FuseNorm(n)
  BY <1>8, FuseNormStep
<1>9. CASE EndFusion
  BY <1>9, EndFusionStep
<1>10. CASE \/ SolveIlp \/ MatchIsa
            \/ (\E b \in Blocks : PassBlock(b)) \/ (\E b \in Blocks : WrapBlock(b))
            \/ BakeBlock \/ EndAutoround \/ Sqc
            \/ Recapture \/ (\E l \in Selected : QuantizeLayer(l)) \/ EndQuantize
            \/ (\E l \in Selected : ConvertLayer(l)) \/ EndConvert \/ SmokeTest
  BY <1>10, QuietStep, QuietActions
<1> QED
  BY <1>1, <1>2, <1>3, <1>4, <1>5, <1>6, <1>7, <1>8, <1>9, <1>10 DEF Next

\* Where the pipeline forwards, every input arrives in the order of the columns it
\* meets, at the scale they were made for.
LEMMA LayoutInvAligns == LayoutInv => ForwardsAligned
<1> SUFFICES ASSUME LayoutInv, pc \in Forwards, wrapped = {}, NEW l \in Layers
             PROVE  Aligned(l)
  BY DEF ForwardsAligned
<1>1. pc \in Before \/ pc \in After
  BY DEF Forwards, Before, After
<1>2. cols[l] = IF perm[l] = None THEN Id ELSE perm[l]
  BY DEF LayoutInv, ColumnsFollow
<1>3. CASE NormOf[l] # NoNorm
  <2>1. NormOf[l] \in Norms /\ l \in Readers(NormOf[l])
    BY <1>3, LayersAssumption DEF Readers
  <2>2. CASE NormOf[l] \in fused
    <3>1. perm[l] = gather[NormOf[l]] /\ gather[NormOf[l]] \in Order
      BY <2>1, <2>2 DEF LayoutInv, InputsFollow
    <3> QED
      BY <1>2, <1>3, <3>1, NoneAssumption DEF Aligned, Feed, LayoutInv, ScalesFollow
  <2>3. CASE NormOf[l] \notin fused
    <3>1. gather[NormOf[l]] = Id
      BY <2>1, <2>3 DEF LayoutInv, InputsFollow
    <3>2. perm[l] = None
      BY <1>1, <2>1, <2>3 DEF LayoutInv, InputsFollow, ColumnsFollow, OrdersFor,
                              Unpermuted
    <3> QED
      BY <1>2, <1>3, <3>1, <3>2 DEF Aligned, Feed, LayoutInv, ScalesFollow
  <2> QED
    BY <2>2, <2>3
<1>4. CASE NormOf[l] = NoNorm
  <2>1. (hook[l] = None <=> perm[l] = None) /\ (hook[l] # None => hook[l] = perm[l])
    BY <1>1, <1>4 DEF LayoutInv, InputsFollow, ColumnsFollow, Unhooked, Unpermuted
  <2> QED
    BY <1>2, <1>4, <2>1 DEF Aligned, Feed
<1> QED
  BY <1>3, <1>4

\* Every forward of the pipeline and of the finished model meets weights in the order
\* its input arrives in, at any layer, whatever is skipped, when the excluded keywords
\* split no norm's readers (decoupled.py:464, rmsnorm_fusion.py:133 and :159).
THEOREM AlignedForwards == ASSUME ReadersTogether PROVE Spec => []ForwardsAligned
<1>1. Init => LayoutInv
  BY LayoutInvInit
<1>2. LayoutInv /\ [Next]_vars => LayoutInv'
  BY LayoutInvNext
<1> QED
  BY <1>1, <1>2, LayoutInvAligns, PTL DEF Spec

--------------------------------------------------------------------------------
\* A pipeline that has raised takes no further step.
LEMMA FailedStops == LayoutInv /\ pc = "failed" /\ [Next]_vars => UNCHANGED vars
<1> SUFFICES ASSUME LayoutInv, pc = "failed", Next PROVE FALSE
  OBVIOUS
<1>1. "failed" \notin skip
  BY SkipsAssumption DEF LayoutInv, PlanFollows, Steps
<1> QED
  BY <1>1 DEF Next, SkipStep, SmoothQuant, Sensitivity, SolveIlp, MatchIsa,
       CaptureMetric, PermuteGroup, EndPermute, Harden, InstallHook, FuseNorm,
       EndFusion, PassBlock, WrapBlock, BakeBlock, EndAutoround, Sqc, Recapture,
       QuantizeLayer, EndQuantize, ConvertLayer, EndConvert, SmokeTest, Runs

\* What the other steps can raise is not a conflict.
LEMMA OnlyFusionConflicts ==
  ASSUME Next, ~ \E n \in Norms : FuseNorm(n), error # "conflicting permutations"
  PROVE  error' # "conflicting permutations"
<1>1. CASE \E g \in Groups : PermuteGroup(g)
  BY <1>1 DEF PermuteGroup, Fail
<1>2. CASE \E l \in Selected : QuantizeLayer(l) \/ ConvertLayer(l)
  BY <1>2 DEF QuantizeLayer, ConvertLayer, Fail
<1>3. CASE Harden
  BY <1>3 DEF Harden, Fail, Goto
<1>4. SmoothQuant \/ Sensitivity \/ SolveIlp \/ MatchIsa \/ CaptureMetric
        => UNCHANGED error
  BY DEF SmoothQuant, Sensitivity, SolveIlp, MatchIsa, CaptureMetric, Goto
<1>5. SkipStep \/ EndPermute \/ EndFusion \/ EndAutoround \/ Sqc \/ Recapture
        \/ EndQuantize \/ EndConvert \/ SmokeTest => UNCHANGED error
  BY DEF SkipStep, EndPermute, EndFusion, EndAutoround, Sqc, Recapture, EndQuantize,
         EndConvert, SmokeTest, Goto
<1>6. /\ \A l \in Selected : InstallHook(l) => UNCHANGED error
      /\ \A b \in Blocks : PassBlock(b) \/ WrapBlock(b) => UNCHANGED error
      /\ BakeBlock => UNCHANGED error
  BY DEF InstallHook, PassBlock, WrapBlock, BakeBlock
<1> QED
  BY <1>1, <1>2, <1>3, <1>4, <1>5, <1>6 DEF Next

\* A conflict has stopped the pipeline.
ConflictInv ==
  /\ LayoutInv
  /\ error = "conflicting permutations" => pc = "failed"
  /\ ConflictsCrossGroups

\* Two orders behind one norm come from two groups.
LEMMA ConflictingGroups ==
  ASSUME LayoutInv, NEW n \in Norms,
         NEW a \in OrdersFor(n), NEW b \in OrdersFor(n), a # b
  PROVE  \E g, h \in Groups : \E l \in g, m \in h :
           g # h /\ NormOf[l] = NormOf[m] /\ NormOf[l] # NoNorm /\ perm[l] # perm[m]
<1>1. PICK l \in Readers(n) \cap Selected : a = perm[l]
  BY DEF OrdersFor
<1>2. PICK m \in Readers(n) \cap Selected : b = perm[m]
  BY DEF OrdersFor
<1>3. NormOf[l] = n /\ NormOf[m] = n /\ n # NoNorm
  BY LayersAssumption DEF Readers
<1>4. PICK g \in Groups : l \in g
  BY LayersAssumption
<1>5. PICK h \in Groups : m \in h
  BY LayersAssumption
<1>6. g # h
  BY <1>1, <1>2, <1>4, <1>5 DEF LayoutInv, ColumnsFollow
<1> QED
  BY <1>1, <1>2, <1>3, <1>4, <1>5, <1>6

\* Step 5 refuses only where two parallel groups read one norm in different orders:
\* a model whose norms feed one group each is never refused (rmsnorm_fusion.py:105
\* and :168).
THEOREM OnlyGroupsConflict ==
  ASSUME ReadersTogether PROVE Spec => []ConflictsCrossGroups
<1>1. Init => ConflictInv
  BY LayoutInvInit, NoneAssumption DEF Init, ConflictInv, ConflictsCrossGroups
<1>2. ConflictInv /\ [Next]_vars => ConflictInv'
  <2> SUFFICES ASSUME ConflictInv, [Next]_vars PROVE ConflictInv'
    OBVIOUS
  <2>1. LayoutInv'
    BY LayoutInvNext DEF ConflictInv
  <2>2. CASE UNCHANGED vars
    <3>1. UNCHANGED <<pc, error, perm>>
      BY <2>2 DEF vars, layout
    <3>2. ConflictsCrossGroups'
      BY <3>1 DEF ConflictInv, ConflictsCrossGroups
    <3> QED
      BY <2>1, <3>1, <3>2 DEF ConflictInv
  <2>3. CASE pc # "failed" /\ \E n \in Norms : FuseNorm(n)
    <3>1. PICK n \in Norms : FuseNorm(n)
      BY <2>3
    <3>2. error # "conflicting permutations"
      BY <2>3 DEF ConflictInv
    <3>3. CASE UNCHANGED error
      BY <2>1, <3>2, <3>3 DEF ConflictInv, ConflictsCrossGroups
    <3>4. CASE /\ \E a, b \in OrdersFor(n) : a # b
               /\ Fail("conflicting permutations") /\ UNCHANGED layout
      <4>1. pc' = "failed" /\ perm' = perm
        BY <3>4 DEF Fail, layout
      <4>2. PICK g \in Groups, h \in Groups : \E l \in g, m \in h :
              g # h /\ NormOf[l] = NormOf[m] /\ NormOf[l] # NoNorm /\ perm[l] # perm[m]
        BY <3>4, ConflictingGroups DEF ConflictInv
      <4>3. \E l \in g, m \in h :
              g # h /\ NormOf[l] = NormOf[m] /\ NormOf[l] # NoNorm /\ perm'[l] # perm'[m]
        BY <4>1, <4>2
      <4>4. ConflictsCrossGroups'
        BY <4>3 DEF ConflictsCrossGroups
      <4> QED
        BY <2>1, <4>1, <4>4 DEF ConflictInv
    <3> QED
      BY <3>1, <3>3, <3>4 DEF FuseNorm
  <2>4. CASE pc # "failed" /\ Next /\ ~ \E n \in Norms : FuseNorm(n)
    <3>1. error # "conflicting permutations"
      BY <2>4 DEF ConflictInv
    <3>2. error' # "conflicting permutations"
      BY <2>4, <3>1, OnlyFusionConflicts
    <3> QED
      BY <2>1, <3>2 DEF ConflictInv, ConflictsCrossGroups
  <2> QED
    BY <2>2, <2>3, <2>4, FailedStops DEF ConflictInv
<1> QED
  BY <1>1, <1>2, PTL DEF ConflictInv, Spec

(***************************************************************************)
(* Types.  Cluster sizes stay non-negative through rounding and demotion,  *)
(* and sensitivities are sums over whole groups.                           *)
(***************************************************************************)
\* Three sizes that add up to n.
Partition(k, n) ==
  /\ k = [c16 |-> k.c16, c8 |-> k.c8, c4 |-> k.c4]
  /\ k.c16 \in Nat /\ k.c8 \in Nat /\ k.c4 \in Nat
  /\ k.c16 + k.c8 + k.c4 = n

LEMMA PartitionFrom ==
  ASSUME NEW a \in Nat, NEW b \in Nat, NEW c \in Nat, NEW n, a + b + c = n,
         NEW k, k = [c16 |-> a, c8 |-> b, c4 |-> c]
  PROVE  Partition(k, n)
BY DEF Partition

LEMMA PartitionSizes ==
  ASSUME NEW n \in Nat, NEW k, Partition(k, n)
  PROVE  k \in Sizes(n)
<1>1. k.c16 \in 0 .. n /\ k.c8 \in 0 .. n /\ k.c4 \in 0 .. n
  BY DEF Partition
<1> QED BY <1>1 DEF Partition, Sizes

LEMMA RoundedPartition ==
  ASSUME NEW n \in Nat, NEW a \in Nat, NEW b \in Nat, a + b <= 100
  PROVE  Partition(Rounded(n, a, b), n)
<1> DEFINE x == Wanted(n, a)
           y == Wanted(n, b)
           k16 == RoundDown(x, Tile16)
           k8 == RoundDown(y, Tile8)
<1>1. x \in Nat /\ y \in Nat /\ x + y <= n
  BY Shares DEF Wanted
<1>2. Rounded(n, a, b) = [c16 |-> k16, c8 |-> k8, c4 |-> n - k16 - k8]
  BY DEF Rounded
<1> HIDE DEF x, y
<1>3. k16 \in Nat /\ k16 <= x /\ k8 \in Nat /\ k8 <= y
  BY <1>1, TileAssumption, WholeTiles DEF RoundDown
<1> HIDE DEF k16, k8
<1>4. n - k16 - k8 \in Nat /\ k16 + k8 + (n - k16 - k8) = n
  BY <1>1, <1>3
<1> QED BY <1>2, <1>3, <1>4, PartitionFrom

\* Whole tiles that are there go from one cluster to the next.
LEMMA DemotedPartition ==
  ASSUME NEW n, NEW k, Partition(k, n), NEW i \in Nat
  PROVE  /\ i <= k.c16 \div Tile16 => Partition(Demote16(k, i), n)
         /\ i <= k.c8 \div Tile8 => Partition(Demote8(k, i), n)
<1> DEFINE a == k.c16
           b == k.c8
           c == k.c4
           t == i * Tile16
           u == i * Tile8
<1>1. /\ Demote16(k, i) = [k EXCEPT !.c16 = a - t, !.c8 = b + t]
      /\ Demote8(k, i) = [k EXCEPT !.c8 = b - u, !.c4 = c + u]
  BY DEF Demote16, Demote8
<1>2. /\ k = [c16 |-> a, c8 |-> b, c4 |-> c] /\ a + b + c = n
      /\ a \in Nat /\ b \in Nat /\ c \in Nat
  BY DEF Partition
<1>3. t \in Nat /\ u \in Nat
  BY TileAssumption, Product
<1>4. /\ i <= k.c16 \div Tile16 => t <= a
      /\ i <= k.c8 \div Tile8 => u <= b
  <2>1. Tile16 \in Nat \ {0} /\ Tile8 \in Nat \ {0}
    BY TileAssumption
  <2> QED BY <1>2, <2>1, QuotientBound
<1> HIDE DEF a, b, c, t, u
<1>5. /\ Demote16(k, i) = [c16 |-> a - t, c8 |-> b + t, c4 |-> c]
      /\ Demote8(k, i) = [c16 |-> a, c8 |-> b - u, c4 |-> c + u]
  BY <1>1, <1>2
<1>6. ASSUME i <= k.c16 \div Tile16 PROVE Partition(Demote16(k, i), n)
  <2>1. a - t \in Nat /\ b + t \in Nat /\ (a - t) + (b + t) + c = n
    BY <1>2, <1>3, <1>4, <1>6
  <2> QED BY <1>2, <1>5, <2>1, PartitionFrom
<1>7. ASSUME i <= k.c8 \div Tile8 PROVE Partition(Demote8(k, i), n)
  <2>1. b - u \in Nat /\ c + u \in Nat /\ a + (b - u) + (c + u) = n
    BY <1>2, <1>3, <1>4, <1>7
  <2> QED BY <1>2, <1>5, <2>1, PartitionFrom
<1> QED BY <1>6, <1>7

\* The least member of a set of naturals is in it.
LEMMA MinBelongs ==
  ASSUME NEW T \in SUBSET Nat, T # {}
  PROVE  Min(T) \in T
BY Least DEF Min

LEMMA DowngradedPartition ==
  ASSUME NEW n, NEW k, Partition(k, n), NEW budget
  PROVE  Partition(Downgraded(n, k, budget), n)
<1> DEFINE fits16 == {i \in 0 .. (k.c16 \div Tile16) :
                        ~OverBudget(n, Demote16(k, i), budget)}
           i16 == Min(fits16 \cup {k.c16 \div Tile16})
           d16 == Demote16(k, i16)
           fits8 == {j \in 0 .. (d16.c8 \div Tile8) :
                       ~OverBudget(n, Demote8(d16, j), budget)}
           j8 == Min(fits8 \cup {d16.c8 \div Tile8})
<1>1. Downgraded(n, k, budget) = Demote8(d16, j8)
  BY DEF Downgraded
<1>2. \A x \in Nat : x \div Tile16 \in Nat /\ x \div Tile8 \in Nat
  BY TileAssumption, Division
<1>3. i16 \in Nat /\ i16 <= k.c16 \div Tile16
  <2> DEFINE q == k.c16 \div Tile16
             T == fits16 \cup {q}
  <2>1. q \in Nat
    BY <1>2 DEF Partition
  <2>2. fits16 \subseteq 0 .. q
    OBVIOUS
  <2> HIDE DEF q, fits16
  <2>3. T \in SUBSET Nat /\ T # {} /\ \A x \in T : x <= q
    BY <2>1, <2>2
  <2> HIDE DEF T
  <2>4. Min(T) \in T
    BY <2>3, MinBelongs
  <2>5. Min(T) \in Nat /\ Min(T) <= q
    BY <2>3, <2>4
  <2> QED BY <2>5 DEF T, q, fits16
<1> HIDE DEF i16
<1>4. Partition(d16, n)
  BY <1>3, DemotedPartition
<1> HIDE DEF d16
<1>5. j8 \in Nat /\ j8 <= d16.c8 \div Tile8
  <2> DEFINE q == d16.c8 \div Tile8
             T == fits8 \cup {q}
  <2>1. q \in Nat
    BY <1>2, <1>4 DEF Partition
  <2>2. fits8 \subseteq 0 .. q
    OBVIOUS
  <2> HIDE DEF q, fits8
  <2>3. T \in SUBSET Nat /\ T # {} /\ \A x \in T : x <= q
    BY <2>1, <2>2
  <2> HIDE DEF T
  <2>4. Min(T) \in T
    BY <2>3, MinBelongs
  <2>5. Min(T) \in Nat /\ Min(T) <= q
    BY <2>3, <2>4
  <2> QED BY <2>5 DEF T, q, fits8
<1> HIDE DEF j8
<1>6. Partition(Demote8(d16, j8), n)
  BY <1>4, <1>5, DemotedPartition
<1> QED BY <1>1, <1>6

\* Whatever bits a layer has, both ways of sizing its clusters give sizes.
LEMMA PlannedSizes ==
  ASSUME NEW b \in Bits, NEW r, r = InitialRatios(b)
  PROVE  /\ Rounded(N, r[1], r[2]) \in Sizes(N)
         /\ IsaSizes(N, r[1], r[2], Target) \in Sizes(N)
<1>1. /\ r[1] \in Nat /\ r[2] \in Nat /\ r[1] + r[2] <= 100 /\ N \in Nat
  BY RatiosAssumption, ChannelsAssumption DEF InitialRatios, Bits
<1> DEFINE x == r[1]
           y == r[2]
<1> HIDE DEF x, y
<1>2. x \in Nat /\ y \in Nat /\ x + y <= 100
  BY <1>1 DEF x, y
<1>3. Partition(Rounded(N, x, y), N)
  BY <1>1, <1>2, RoundedPartition
<1>4. Partition(IsaSizes(N, x, y, Target), N)
  BY <1>3, DowngradedPartition DEF IsaSizes
<1> QED BY <1>1, <1>3, <1>4, PartitionSizes DEF x, y

LEMMA OrdersCompose == \A p, q \in Order : Permuted(p, q) \in Order
BY DEF Order, Permuted, IsInjective

LEMMA Precisions ==
  /\ \A a, b \in Bits : Min({a, b}) \in Bits
  /\ \A k, j : LevelAt(k, j) \in Bits
  /\ \A T \in SUBSET Bits : T # {} => Max(T) \in Bits
<1>1. ASSUME NEW a \in Bits, NEW b \in Bits PROVE Min({a, b}) \in Bits
  <2>1. {a, b} \in SUBSET Nat /\ {a, b} # {}
    BY DEF Bits
  <2>2. Min({a, b}) \in {a, b}
    BY <2>1, MinBelongs
  <2> QED BY <2>2
<1>2. \A k, j : LevelAt(k, j) \in Bits
  BY DEF LevelAt, Bits
<1>3. ASSUME NEW T \in SUBSET Bits, T # {} PROVE Max(T) \in Bits
  <2>1. \E x \in T : \A y \in T : x >= y
    <3>1. CASE 16 \in T
      BY <3>1 DEF Bits
    <3>2. CASE 16 \notin T /\ 8 \in T
      BY <3>2 DEF Bits
    <3>3. CASE 16 \notin T /\ 8 \notin T
      <4>1. T = {4}
        BY <1>3, <3>3 DEF Bits
      <4> QED BY <4>1
    <3> QED BY <3>1, <3>2, <3>3
  <2>2. Max(T) \in T
    BY <2>1 DEF Max
  <2> QED BY <2>2
<1> QED BY <1>1, <1>2, <1>3

\* The group of a layer is the one it is in.
LEMMA GroupOfLayer ==
  /\ \A l \in Selected : GroupOf(l) \in Groups /\ l \in GroupOf(l)
  /\ \A g \in Groups : \A l \in g : GroupOf(l) = g
  /\ \A g \in Groups : IsFiniteSet(g)
<1>1. \A l \in Selected : GroupOf(l) \in Groups /\ l \in GroupOf(l)
  BY LayersAssumption DEF GroupOf
<1>2. \A g \in Groups : \A l \in g : GroupOf(l) = g
  BY <1>1, LayersAssumption, GroupsSelected
<1>3. \A g \in Groups : IsFiniteSet(g)
  BY LayersAssumption, GroupsSelected, FS_Subset
<1> QED BY <1>1, <1>2, <1>3

\* The sum over a group, whichever way it is taken, is a natural number.
LEMMA GroupSumIsNatural ==
  ASSUME NEW g \in Groups, NEW intra \in [Selected -> SensChoices], NEW c \in Channels
  PROVE  GroupSum(intra, g, c) \in Nat
<1> DEFINE any(s) == CHOOSE x \in s : TRUE
           term == [m \in g |-> intra[m][c]]
           pick == [s \in SUBSET g |-> any(s)]
           Is(it) == it = [s \in SUBSET g |->
                             IF s = {} THEN 0 ELSE intra[any(s)][c] + it[s \ {any(s)}]]
           iter == CHOOSE it : Is(it)
<1>1. GroupSum(intra, g, c) = iter[g]
  BY DEF GroupSum, MapThenSumSet, MapThenFoldSet
<1>2. \A s \in SUBSET g : s # {} => pick[s] \in s
  OBVIOUS
<1>3. ASSUME NEW it PROVE Is(it) <=> AddsUp(it, SUBSET g, term, pick)
  <2> DEFINE p(s) == IF s = {} THEN 0 ELSE intra[any(s)][c] + it[s \ {any(s)}]
             q(s) == IF s = {} THEN 0 ELSE term[pick[s]] + it[s \ {pick[s]}]
             a == [s \in SUBSET g |-> p(s)]
             b == [s \in SUBSET g |-> q(s)]
  <2>1. \A s \in SUBSET g : s # {} => term[pick[s]] = intra[any(s)][c]
    BY <1>2
  <2>2. \A s \in SUBSET g : pick[s] = any(s)
    OBVIOUS
  <2>3. Is(it) <=> it = a
    OBVIOUS
  <2> HIDE DEF term, pick
  <2>4. ASSUME NEW s \in SUBSET g PROVE p(s) = q(s)
    <3>1. CASE s = {}
      BY <3>1
    <3>2. CASE s # {}
      <4>1. term[pick[s]] = intra[any(s)][c] /\ pick[s] = any(s)
        BY <2>1, <2>2, <3>2
      <4>2. /\ p(s) = intra[any(s)][c] + it[s \ {any(s)}]
            /\ q(s) = term[pick[s]] + it[s \ {pick[s]}]
        BY <3>2
      <4> HIDE DEF any, p, q
      <4> QED BY <4>1, <4>2
    <3> QED BY <3>1, <3>2
  <2>5. a = b
    <3> HIDE DEF p, q
    <3> QED BY <2>4
  <2>6. AddsUp(it, SUBSET g, term, pick) <=> it = b
    BY DEF AddsUp
  <2> HIDE DEF a, b, Is
  <2> QED BY <2>3, <2>5, <2>6
<1>4. term \in [g -> Nat] /\ IsFiniteSet(g)
  BY ScoresAssumption, GroupsSelected, GroupOfLayer
<1> HIDE DEF term, pick
<1>5. \E it : Is(it)
  <2>1. PICK it : AddsUp(it, SUBSET g, term, pick)
    BY <1>2, <1>4, SumExists
  <2> HIDE DEF Is
  <2> QED BY <1>3, <2>1
<1>6. Is(iter)
  <2> HIDE DEF Is
  <2> QED BY <1>5
<1> HIDE DEF iter, Is
<1> QED BY <1>1, <1>2, <1>3, <1>4, <1>6, SumIsNatural

LEMMA SuccessorsAreSteps == \A step \in Steps : Follows[step] \in Pcs
BY Successors DEF Steps, Pcs

LEMMA TypesInit == Init => TypeOK
<1> SUFFICES ASSUME Init PROVE TypeOK
  OBVIOUS
<1>1. /\ pc \in Pcs /\ skip \in Skips /\ asserts \in BOOLEAN /\ solved \in BOOLEAN
      /\ scaled = {} /\ fused = {} /\ wrapped = {} /\ quantized = {} /\ converted = {}
      /\ sens = None /\ isa = None /\ metric = None
  BY DEF Init, Pcs, Steps
<1>2. cols \in [Layers -> Order] /\ gather \in [Norms -> Order]
  BY IdIsAnOrder DEF Init
<1>3. /\ hook \in [Layers -> Order \cup {None}] /\ perm \in [Layers -> Order \cup {None}]
      /\ sizes \in [Layers -> Sizes(N) \cup {None}]
  BY DEF Init
<1>4. bits \in [Layers -> Bits] /\ prec \in [Layers -> [Channels -> Bits]]
  BY DEF Init, Bits, Untouched
<1> QED BY <1>1, <1>2, <1>3, <1>4 DEF TypeOK

\* Steps that only pass the control on.
LEMMA TypesOfControl ==
  ASSUME TypeOK,
         \/ SkipStep \/ EndPermute \/ Harden \/ EndFusion \/ EndAutoround \/ Sqc
         \/ Recapture \/ EndQuantize \/ EndConvert \/ SmokeTest
  PROVE  TypeOK'
<1>1. pc' \in Pcs
  <2>1. CASE SkipStep
    <3>1. pc \in Steps /\ pc' = Follows[pc]
      BY <2>1, SkipsAssumption DEF SkipStep, Goto, TypeOK
    <3> QED BY <3>1, SuccessorsAreSteps
  <2>2. CASE ~SkipStep
    BY <2>2 DEF EndPermute, Harden, EndFusion, EndAutoround, Sqc, Recapture,
                EndQuantize, EndConvert, SmokeTest, Goto, Fail, Pcs, Steps
  <2> QED BY <2>1, <2>2
<1>2. UNCHANGED <<setup, scaled, plan, layout, tail>>
  BY DEF SkipStep, EndPermute, Harden, EndFusion, EndAutoround, Sqc, Recapture,
         EndQuantize, EndConvert, SmokeTest
<1> QED BY <1>1, <1>2 DEF TypeOK, setup, plan, layout, tail

\* Steps 1 to 3.5 and the capture of the metric.
LEMMA TypesOfPlanning ==
  ASSUME TypeOK, SmoothQuant \/ Sensitivity \/ SolveIlp \/ MatchIsa \/ CaptureMetric
  PROVE  TypeOK'
<1> USE DEF Goto, setup, plan, layout, tail
<1>1. CASE SmoothQuant
  <2>1. scaled' \subseteq Layers \cup Norms
    BY <1>1, LayersAssumption DEF SmoothQuant
  <2>2. /\ pc' \in Pcs
        /\ UNCHANGED <<skip, asserts, sens, bits, solved, isa, metric, cols, gather,
                       hook, perm, sizes, fused, wrapped, prec, quantized, converted>>
    BY <1>1 DEF SmoothQuant, Pcs, Steps
  <2> QED BY <2>1, <2>2 DEF TypeOK
<1>2. CASE Sensitivity
  <2>1. PICK intra \in [Selected -> SensChoices] :
          sens' = [l \in Selected |-> [c \in Channels |-> GroupSum(intra, GroupOf(l), c)]]
    BY <1>2 DEF Sensitivity
  <2>2. \A l \in Selected, c \in Channels : GroupSum(intra, GroupOf(l), c) \in Nat
    BY GroupOfLayer, GroupSumIsNatural
  <2>3. sens' \in [Selected -> [Channels -> Nat]]
    BY <2>1, <2>2
  <2>4. /\ pc' \in Pcs
        /\ UNCHANGED <<skip, asserts, scaled, bits, solved, isa, metric, cols, gather,
                       hook, perm, sizes, fused, wrapped, prec, quantized, converted>>
    BY <1>2 DEF Sensitivity, Pcs, Steps
  <2> QED BY <2>3, <2>4 DEF TypeOK
<1>3. CASE SolveIlp
  <2>1. bits' \in [Layers -> Bits] /\ solved' \in BOOLEAN
    BY <1>3 DEF SolveIlp, Allocations, Bits
  <2>2. /\ pc' \in Pcs
        /\ UNCHANGED <<skip, asserts, scaled, sens, isa, metric, cols, gather,
                       hook, perm, sizes, fused, wrapped, prec, quantized, converted>>
    BY <1>3 DEF SolveIlp, Pcs, Steps
  <2> QED BY <2>1, <2>2 DEF TypeOK
<1>4. CASE MatchIsa
  <2> DEFINE planned(l) == IsaSizes(N, InitialRatios(bits[l])[1],
                                    InitialRatios(bits[l])[2], Target)
  <2>1. \A l \in Selected : bits[l] \in Bits
    BY LayersAssumption DEF TypeOK
  <2>2. \A l \in Selected : planned(l) \in Sizes(N)
    BY <2>1, PlannedSizes
  <2>3. isa' = [l \in Selected |-> planned(l)]
    BY <1>4 DEF MatchIsa
  <2> HIDE DEF planned
  <2>4. isa' \in [Selected -> Sizes(N)]
    BY <2>2, <2>3
  <2>5. /\ pc' \in Pcs
        /\ UNCHANGED <<skip, asserts, scaled, sens, bits, solved, metric, cols, gather,
                       hook, perm, sizes, fused, wrapped, prec, quantized, converted>>
    BY <1>4 DEF MatchIsa, Pcs, Steps
  <2> QED BY <2>4, <2>5 DEF TypeOK
<1>5. CASE CaptureMetric
  <2>1. /\ pc' \in Pcs /\ metric' \in [Selected -> MetricChoices]
        /\ UNCHANGED <<skip, asserts, scaled, sens, bits, solved, isa, cols, gather,
                       hook, perm, sizes, fused, wrapped, prec, quantized, converted>>
    BY <1>5 DEF CaptureMetric, Pcs, Steps
  <2> QED BY <2>1 DEF TypeOK
<1> QED BY <1>1, <1>2, <1>3, <1>4, <1>5

\* The sizes of a group come from step 3.5, or from the bits of its layers.
LEMMA GroupSizesAreSizes ==
  ASSUME TypeOK, NEW g \in Groups, g # {}
  PROVE  GroupSizes(g) \in Sizes(N)
<1> DEFINE T == {bits[l] : l \in g}
           r == InitialRatios(Max(T))
<1>1. T \in SUBSET Bits /\ T # {}
  BY GroupsSelected DEF TypeOK
<1>2. Max(T) \in Bits
  <2> HIDE DEF T
  <2> QED BY <1>1, Precisions
<1>3. Rounded(N, r[1], r[2]) \in Sizes(N)
  <2> HIDE DEF T
  <2> QED BY <1>2, PlannedSizes
<1>4. isa # None => isa[CHOOSE l \in g : TRUE] \in Sizes(N)
  BY GroupsSelected DEF TypeOK
<1> QED BY <1>3, <1>4 DEF GroupSizes

\* Steps 4 and 5.
LEMMA TypesOfPermuting ==
  ASSUME TypeOK, NEW g \in Groups, PermuteGroup(g) PROVE TypeOK'
<1>1. UNCHANGED <<skip, asserts, scaled, sens, bits, solved, isa, metric, wrapped, prec,
                  quantized, converted>>
  BY DEF PermuteGroup, setup, plan, tail
<1>2. CASE Fail("inconsistent ISA cluster sizes") /\ UNCHANGED layout
  BY <1>1, <1>2 DEF Fail, layout, TypeOK, Pcs
<1>3. CASE \E p \in LegalOrders(GroupSens(g), GroupMetric(g), GroupSizes(g)) :
             /\ cols' = [l \in Layers |-> IF l \in g THEN Permuted(cols[l], p)
                                                     ELSE cols[l]]
             /\ perm' = [l \in Layers |-> IF l \in g THEN p ELSE perm[l]]
             /\ sizes' = [l \in Layers |-> IF l \in g THEN GroupSizes(g)
                                                      ELSE sizes[l]]
             /\ UNCHANGED <<pc, error, gather, hook, fused>>
  <2>1. PICK p \in Order :
          /\ cols' = [l \in Layers |-> IF l \in g THEN Permuted(cols[l], p)
                                                  ELSE cols[l]]
          /\ perm' = [l \in Layers |-> IF l \in g THEN p ELSE perm[l]]
          /\ sizes' = [l \in Layers |-> IF l \in g THEN GroupSizes(g) ELSE sizes[l]]
          /\ UNCHANGED <<pc, gather, hook, fused>>
    BY <1>3 DEF LegalOrders
  <2>2. GroupSizes(g) \in Sizes(N)
    BY GroupSizesAreSizes DEF PermuteGroup
  <2>3. cols' \in [Layers -> Order]
    BY <2>1, OrdersCompose DEF TypeOK
  <2>4. perm' \in [Layers -> Order \cup {None}]
    BY <2>1 DEF TypeOK
  <2>5. sizes' \in [Layers -> Sizes(N) \cup {None}]
    BY <2>1, <2>2 DEF TypeOK
  <2> QED BY <1>1, <2>1, <2>3, <2>4, <2>5 DEF TypeOK
<1> QED BY <1>2, <1>3 DEF PermuteGroup

LEMMA TypesOfFusion ==
  ASSUME TypeOK,
         (\E l \in Selected : InstallHook(l)) \/ (\E n \in Norms : FuseNorm(n))
  PROVE  TypeOK'
<1>1. CASE \E l \in Selected : InstallHook(l)
  <2>1. PICK l \in Selected : InstallHook(l)
    BY <1>1
  <2>2. /\ hook' = [hook EXCEPT ![l] = perm[l]] /\ perm[l] \in Order \cup {None}
        /\ UNCHANGED <<pc, skip, asserts, scaled, sens, bits, solved, isa, metric, cols,
                       gather, perm, sizes, fused, wrapped, prec, quantized, converted>>
    BY <2>1, LayersAssumption DEF InstallHook, TypeOK, setup, plan, tail
  <2>3. hook' \in [Layers -> Order \cup {None}]
    BY <2>2 DEF TypeOK
  <2> QED BY <2>2, <2>3 DEF TypeOK
<1>2. CASE \E n \in Norms : FuseNorm(n)
  <2>1. PICK n \in Norms : FuseNorm(n)
    BY <1>2
  <2>2. UNCHANGED <<skip, asserts, scaled, sens, bits, solved, isa, metric, wrapped, prec,
                    quantized, converted>>
    BY <2>1 DEF FuseNorm, setup, plan, tail
  <2>3. CASE Fail("conflicting permutations") /\ UNCHANGED layout
    BY <2>2, <2>3 DEF Fail, layout, TypeOK, Pcs
  <2>4. CASE /\ \E p \in OrdersFor(n) :
                  OrdersFor(n) = {p} /\ gather' = [gather EXCEPT ![n] = p]
             /\ fused' = fused \cup {n}
             /\ UNCHANGED <<pc, error, cols, hook, perm, sizes>>
    <3>1. OrdersFor(n) \subseteq Order
      BY LayersAssumption DEF OrdersFor, TypeOK
    <3>2. gather' \in [Norms -> Order]
      BY <2>4, <3>1 DEF TypeOK
    <3> QED BY <2>2, <2>4, <3>2 DEF TypeOK
  <2> QED BY <2>1, <2>3, <2>4 DEF FuseNorm
<1> QED BY <1>1, <1>2

\* Columns of one precision at most, and columns of their clusters' precision.
LEMMA Requantized ==
  ASSUME TypeOK, NEW l \in Layers, NEW b \in Bits
  PROVE  /\ AtMost(prec[l], b) \in [Channels -> Bits]
         /\ \A k : [j \in Channels |-> Min({prec[l][j], LevelAt(k, j)})]
                     \in [Channels -> Bits]
<1>1. \A j \in Channels : prec[l][j] \in Bits
  BY DEF TypeOK
<1>2. \A j \in Channels : Min({prec[l][j], b}) \in Bits
  BY <1>1, Precisions
<1>3. \A k : \A j \in Channels : Min({prec[l][j], LevelAt(k, j)}) \in Bits
  BY <1>1, Precisions
<1> QED BY <1>2, <1>3 DEF AtMost

\* Steps 6, 8 and 9.
LEMMA TypesOfQuantizing ==
  ASSUME TypeOK,
         \/ \E b \in Blocks : PassBlock(b) \/ WrapBlock(b)
         \/ BakeBlock
         \/ \E l \in Selected : QuantizeLayer(l) \/ ConvertLayer(l)
  PROVE  TypeOK'
<1>1. CASE \E b \in Blocks : PassBlock(b) \/ WrapBlock(b)
  <2>1. /\ wrapped' \subseteq Selected
        /\ UNCHANGED <<pc, skip, asserts, scaled, sens, bits, solved, isa, metric, cols,
                       gather, hook, perm, sizes, fused, prec, quantized, converted>>
    BY <1>1 DEF PassBlock, WrapBlock, FourBit, TypeOK, setup, plan, layout
  <2> QED BY <2>1 DEF TypeOK
<1>2. CASE BakeBlock
  <2>1. 4 \in Bits
    BY DEF Bits
  <2>2. prec' \in [Layers -> [Channels -> Bits]]
    BY <1>2, <2>1, Requantized DEF BakeBlock, TypeOK
  <2>3. /\ wrapped' = {}
        /\ UNCHANGED <<pc, skip, asserts, scaled, sens, bits, solved, isa, metric, cols,
                       gather, hook, perm, sizes, fused, quantized, converted>>
    BY <1>2 DEF BakeBlock, setup, plan, layout
  <2> QED BY <2>2, <2>3 DEF TypeOK
<1>3. CASE \E l \in Selected : QuantizeLayer(l) \/ ConvertLayer(l)
  <2>1. PICK l \in Selected : QuantizeLayer(l) \/ ConvertLayer(l)
    BY <1>3
  <2>2. l \in Layers /\ bits[l] \in Bits
    BY LayersAssumption DEF TypeOK
  <2>3. /\ quantized' \subseteq Selected /\ converted' \subseteq Selected
        /\ pc' \in Pcs
        /\ UNCHANGED <<skip, asserts, scaled, sens, bits, solved, isa, metric, cols,
                       gather, hook, perm, sizes, fused, wrapped>>
    BY <2>1 DEF QuantizeLayer, ConvertLayer, Fail, Pcs, TypeOK, setup, plan, layout
  <2>4. \/ UNCHANGED prec
        \/ \E f \in [Channels -> Bits] : prec' = [prec EXCEPT ![l] = f]
    <3>1. CASE prec' = [prec EXCEPT ![l] = AtMost(prec[l], bits[l])]
      BY <2>2, <3>1, Requantized
    <3>2. CASE prec' = [prec EXCEPT ![l] =
                         [j \in Channels |-> Min({prec[l][j], LevelAt(sizes[l], j)})]]
      BY <2>2, <3>2, Requantized
    <3>3. CASE UNCHANGED prec
      BY <3>3
    <3>4. prec \in [Layers -> [Channels -> Bits]]
      BY DEF TypeOK
    <3>5. CASE QuantizeLayer(l) /\ sizes[l] = None
      BY <2>2, <3>1, <3>3, <3>4, <3>5 DEF QuantizeLayer
    <3>6. CASE QuantizeLayer(l) /\ sizes[l] # None
      BY <2>2, <3>2, <3>3, <3>4, <3>6 DEF QuantizeLayer
    <3>7. CASE ConvertLayer(l)
      BY <2>2, <3>1, <3>3, <3>4, <3>7 DEF ConvertLayer
    <3> QED BY <2>1, <3>5, <3>6, <3>7
  <2>5. prec' \in [Layers -> [Channels -> Bits]]
    BY <2>2, <2>4 DEF TypeOK
  <2> QED BY <2>3, <2>5 DEF TypeOK
<1> QED BY <1>1, <1>2, <1>3

LEMMA TypesNext == TypeOK /\ [Next]_vars => TypeOK'
<1> SUFFICES ASSUME TypeOK, [Next]_vars PROVE TypeOK'
  OBVIOUS
<1>1. CASE UNCHANGED vars
  BY <1>1 DEF TypeOK, vars, setup, plan, layout, tail
<1>2. CASE \/ SkipStep \/ EndPermute \/ Harden \/ EndFusion \/ EndAutoround \/ Sqc
           \/ Recapture \/ EndQuantize \/ EndConvert \/ SmokeTest
  BY <1>2, TypesOfControl
<1>3. CASE SmoothQuant \/ Sensitivity \/ SolveIlp \/ MatchIsa \/ CaptureMetric
  BY <1>3, TypesOfPlanning
<1>4. CASE \E g \in Groups : PermuteGroup(g)
  BY <1>4, TypesOfPermuting
<1>5. CASE (\E l \in Selected : InstallHook(l)) \/ (\E n \in Norms : FuseNorm(n))
  BY <1>5, TypesOfFusion
<1>6. CASE \/ \E b \in Blocks : PassBlock(b) \/ WrapBlock(b)
           \/ BakeBlock
           \/ \E l \in Selected : QuantizeLayer(l) \/ ConvertLayer(l)
  BY <1>6, TypesOfQuantizing
<1> QED
  BY <1>1, <1>2, <1>3, <1>4, <1>5, <1>6 DEF Next

\* Whatever is skipped and wherever it stops, the pipeline leaves whole orders, and
\* clusters that are sizes: none is negative, none is larger than the layer
\* (isa_matching.py:130, decoupled.py:286).
THEOREM PipelineTypes == Spec => []TypeOK
<1>1. Init => TypeOK
  BY TypesInit
<1>2. TypeOK /\ [Next]_vars => TypeOK'
  BY TypesNext
<1> QED
  BY <1>1, <1>2, PTL DEF Spec

(***************************************************************************)
(* Sensitive channels keep their precision.                                *)
(***************************************************************************)
\* The layers of a group have their sensitivities in common.
SumsShared ==
  sens # None => \A g \in Groups : \A l, m \in g : sens[l] = sens[m]

\* A permuted layer has clusters, and better clusters hold more sensitive channels.
ClustersSorted ==
  \A l \in Selected : perm[l] # None =>
    /\ sens # None /\ sizes[l] # None
    /\ \A i, j \in Channels :
         LevelAt(sizes[l], i) > LevelAt(sizes[l], j) =>
           sens[l][perm[l][i]] >= sens[l][perm[l][j]]

\* No weight is quantized before step 6, and without step 6 no column of a permuted
\* layer loses more than its cluster makes it lose.
PrecisionFollows ==
  /\ pc \in Before \cup {"permute", "harden", "fusion"} =>
       prec = [l \in Layers |-> Untouched]
  /\ "autoround" \in skip =>
       /\ wrapped = {}
       /\ \A l \in Selected : perm[l] # None =>
            \A i, j \in Channels :
              prec[l][i] > prec[l][j] => LevelAt(sizes[l], i) > LevelAt(sizes[l], j)

ProtectInv ==
  TypeOK /\ ColumnsFollow /\ SumsShared /\ ClustersSorted /\ PrecisionFollows

\* The control never goes back before step 4, nor before step 6.
LEMMA ControlAdvances ==
  ASSUME TypeOK, [Next]_vars
  PROVE  /\ pc' \in Before => pc \in Before
         /\ pc' \in {"permute", "harden", "fusion"} =>
              pc \in Before \cup {"permute", "harden", "fusion"}
<1> USE DEF Before, Goto, Fail, Runs
<1>1. CASE SkipStep
  <2>1. pc \in Steps /\ pc' = Follows[pc]
    BY <1>1, SkipsAssumption DEF SkipStep, TypeOK
  <2> QED BY <2>1, Successors DEF Steps
<1>2. CASE SmoothQuant \/ Sensitivity \/ SolveIlp \/ MatchIsa \/ CaptureMetric
  BY <1>2 DEF SmoothQuant, Sensitivity, SolveIlp, MatchIsa, CaptureMetric
<1>3. CASE (\E g \in Groups : PermuteGroup(g)) \/ EndPermute \/ Harden
  BY <1>3 DEF PermuteGroup, EndPermute, Harden
<1>4. CASE \/ \E l \in Selected : InstallHook(l)
           \/ \E n \in Norms : FuseNorm(n)
           \/ EndFusion
  BY <1>4 DEF InstallHook, FuseNorm, EndFusion
<1>5. CASE \/ (\E b \in Blocks : PassBlock(b)) \/ (\E b \in Blocks : WrapBlock(b))
           \/ BakeBlock \/ EndAutoround \/ Sqc
  BY <1>5 DEF PassBlock, WrapBlock, BakeBlock, EndAutoround, Sqc
<1>6. CASE \/ Recapture \/ (\E l \in Selected : QuantizeLayer(l)) \/ EndQuantize
           \/ (\E l \in Selected : ConvertLayer(l)) \/ EndConvert \/ SmokeTest
  BY <1>6 DEF Recapture, QuantizeLayer, EndQuantize, ConvertLayer, EndConvert, SmokeTest
<1>7. CASE UNCHANGED vars
  BY <1>7 DEF vars
<1> QED BY <1>1, <1>2, <1>3, <1>4, <1>5, <1>6, <1>7 DEF Next

LEMMA ProtectInit == Init => ProtectInv
<1> SUFFICES ASSUME Init PROVE ProtectInv
  OBVIOUS
<1>1. TypeOK /\ ColumnsFollow
  BY TypesInit, LayoutInvInit DEF LayoutInv
<1>2. SumsShared /\ ClustersSorted
  BY LayersAssumption DEF Init, SumsShared, ClustersSorted
<1>3. PrecisionFollows
  BY LayersAssumption DEF Init, PrecisionFollows
<1> QED BY <1>1, <1>2, <1>3 DEF ProtectInv

\* A step that leaves plan, orders and weights alone.
Settled ==
  /\ UNCHANGED <<skip, sens, perm, cols, sizes, prec>>
  /\ "autoround" \in skip => UNCHANGED wrapped

LEMMA SettledStep ==
  ASSUME ProtectInv, [Next]_vars, Settled PROVE ProtectInv'
<1>1. TypeOK'
  BY TypesNext DEF ProtectInv
<1>2. /\ pc' \in Before => pc \in Before
      /\ pc' \in {"permute", "harden", "fusion"} =>
           pc \in Before \cup {"permute", "harden", "fusion"}
  BY ControlAdvances DEF ProtectInv
<1>3. ColumnsFollow'
  <2>1. UNCHANGED Unpermuted
    BY DEF Settled, Unpermuted
  <2> QED BY <1>2, <2>1 DEF ProtectInv, ColumnsFollow, Settled
<1>4. SumsShared' /\ ClustersSorted'
  BY DEF ProtectInv, SumsShared, ClustersSorted, Settled
<1>5. PrecisionFollows'
  <2>1. pc' \in Before \cup {"permute", "harden", "fusion"} =>
          prec = [l \in Layers |-> Untouched]
    BY <1>2 DEF ProtectInv, PrecisionFollows
  <2> QED BY <2>1 DEF ProtectInv, PrecisionFollows, Settled
<1> QED BY <1>1, <1>3, <1>4, <1>5 DEF ProtectInv

LEMMA SettledActions ==
  ASSUME \/ SkipStep \/ SmoothQuant \/ SolveIlp \/ MatchIsa
         \/ CaptureMetric \/ EndPermute \/ Harden
         \/ (\E l \in Selected : InstallHook(l)) \/ (\E n \in Norms : FuseNorm(n))
         \/ EndFusion \/ (\E b \in Blocks : PassBlock(b))
         \/ (\E b \in Blocks : WrapBlock(b)) \/ EndAutoround \/ Sqc
         \/ Recapture \/ EndQuantize \/ EndConvert \/ SmokeTest
  PROVE  Settled
<1> USE DEF Settled, Runs, setup, layout, plan, tail
<1>1. CASE SkipStep \/ SmoothQuant \/ SolveIlp \/ MatchIsa \/ CaptureMetric
           \/ EndPermute \/ Harden
  BY <1>1 DEF SkipStep, SmoothQuant, SolveIlp, MatchIsa, CaptureMetric, EndPermute,
              Harden
<1>2. CASE (\E l \in Selected : InstallHook(l)) \/ (\E n \in Norms : FuseNorm(n))
           \/ EndFusion
  BY <1>2 DEF InstallHook, FuseNorm, EndFusion
<1>3. CASE (\E b \in Blocks : PassBlock(b)) \/ (\E b \in Blocks : WrapBlock(b))
           \/ EndAutoround \/ Sqc
  BY <1>3 DEF PassBlock, WrapBlock, EndAutoround, Sqc
<1>4. CASE Recapture \/ EndQuantize \/ EndConvert \/ SmokeTest
  BY <1>4 DEF Recapture, EndQuantize, EndConvert, SmokeTest
<1> QED BY <1>1, <1>2, <1>3, <1>4

LEMMA SensitivityProtects ==
  ASSUME ProtectInv, Sensitivity PROVE ProtectInv'
<1>1. Sensitivity => [Next]_vars
  BY DEF Next
<1>2. TypeOK'
  BY <1>1, TypesNext DEF ProtectInv
<1>3. /\ pc = "sensitivity" /\ pc' = "ilp" /\ pc \in Before /\ pc' \in Before
      /\ UNCHANGED <<skip, perm, cols, sizes, prec, wrapped>>
  BY DEF Sensitivity, Runs, Goto, Before, setup, layout, tail
<1>4. Unpermuted /\ UNCHANGED Unpermuted
  BY <1>3 DEF ProtectInv, ColumnsFollow, Unpermuted
<1>5. ColumnsFollow'
  BY <1>3, <1>4 DEF ProtectInv, ColumnsFollow
<1>6. SumsShared'
  <2>1. PICK intra \in [Selected -> SensChoices] :
          sens' = [l \in Selected |-> [c \in Channels |-> GroupSum(intra, GroupOf(l), c)]]
    BY DEF Sensitivity
  <2>2. ASSUME NEW g \in Groups, NEW l \in g, NEW m \in g PROVE sens'[l] = sens'[m]
    <3>1. l \in Selected /\ m \in Selected /\ GroupOf(l) = GroupOf(m)
      BY GroupsSelected, GroupOfLayer
    <3> QED BY <2>1, <3>1
  <2> QED BY <2>2 DEF SumsShared
<1>7. ClustersSorted'
  BY <1>3, <1>4, LayersAssumption DEF ClustersSorted, Unpermuted
<1>8. PrecisionFollows'
  BY <1>3, <1>4, LayersAssumption DEF ProtectInv, PrecisionFollows, Unpermuted
<1> QED BY <1>2, <1>5, <1>6, <1>7, <1>8 DEF ProtectInv

\* The sensitivity a group is sorted by is that of each of its layers.
LEMMA GroupSensIsShared ==
  ASSUME TypeOK, SumsShared, sens # None, NEW g \in Groups, NEW l \in g,
         NEW c \in Channels
  PROVE  GroupSens(g)[c] = sens[l][c] /\ sens[l][c] \in Nat
<1> DEFINE v == sens[l][c]
<1>1. v \in Nat
  BY GroupsSelected DEF TypeOK
<1>2. {sens[m][c] : m \in g} = {v}
  BY DEF SumsShared
<1>3. GroupSens(g)[c] = Max({v})
  BY <1>2 DEF GroupSens
<1> HIDE DEF v
<1>4. Max({v}) = v
  BY <1>1 DEF Max
<1> QED BY <1>1, <1>3, <1>4 DEF v

\* Positions of a better cluster come first.
LEMMA BetterFirst ==
  ASSUME NEW k \in Sizes(N), NEW i \in Channels, NEW j \in Channels,
         LevelAt(k, i) > LevelAt(k, j)
  PROVE  i < j
<1>1. /\ k.c16 \in Nat /\ k.c8 \in Nat /\ i \in Nat /\ j \in Nat
  BY ChannelsAssumption DEF Sizes
<1> QED BY <1>1 DEF LevelAt

LEMMA PermuteProtects ==
  ASSUME ProtectInv, NEW g \in Groups, PermuteGroup(g) PROVE ProtectInv'
<1>1. PermuteGroup(g) => [Next]_vars
  BY DEF Next
<1>2. TypeOK' /\ ColumnsFollow'
  BY <1>1, TypesNext, PermutedColumns DEF ProtectInv
<1>3. /\ pc = "permute" /\ sens # None
      /\ UNCHANGED <<skip, sens, wrapped, prec>>
  BY DEF PermuteGroup, setup, plan, tail
<1>4. SumsShared'
  BY <1>3 DEF ProtectInv, SumsShared
<1>5. CASE Fail("inconsistent ISA cluster sizes") /\ UNCHANGED layout
  <2>1. Settled
    BY <1>3, <1>5 DEF Settled, layout
  <2> QED BY <1>1, <2>1, SettledStep
<1>6. CASE \E p \in LegalOrders(GroupSens(g), GroupMetric(g), GroupSizes(g)) :
             /\ perm' = [l \in Layers |-> IF l \in g THEN p ELSE perm[l]]
             /\ sizes' = [l \in Layers |-> IF l \in g THEN GroupSizes(g)
                                                      ELSE sizes[l]]
             /\ UNCHANGED pc
  <2>1. PICK p \in LegalOrders(GroupSens(g), GroupMetric(g), GroupSizes(g)) :
          /\ perm' = [l \in Layers |-> IF l \in g THEN p ELSE perm[l]]
          /\ sizes' = [l \in Layers |-> IF l \in g THEN GroupSizes(g) ELSE sizes[l]]
          /\ UNCHANGED pc
    BY <1>6
  <2> DEFINE k == GroupSizes(g)
  <2>2. k \in Sizes(N)
    BY GroupSizesAreSizes DEF ProtectInv, PermuteGroup
  <2>3. p \in [Channels -> Channels]
    BY <2>1 DEF LegalOrders, Order
  <2>4. \A i, j \in Channels : i < j /\ LevelAt(k, i) # LevelAt(k, j) =>
          GroupSens(g)[p[i]] >= GroupSens(g)[p[j]]
    BY <2>1 DEF LegalOrders
  <2> HIDE DEF k
  <2>5. ASSUME NEW l \in g, NEW i \in Channels, NEW j \in Channels,
               LevelAt(k, i) > LevelAt(k, j)
        PROVE  sens[l][p[i]] >= sens[l][p[j]]
    <3>1. i < j
      BY <2>2, <2>5, BetterFirst
    <3>2. LevelAt(k, i) # LevelAt(k, j)
      <4>1. LevelAt(k, i) \in Bits /\ LevelAt(k, j) \in Bits
        BY Precisions
      <4> QED BY <2>5, <4>1 DEF Bits
    <3>3. p[i] \in Channels /\ p[j] \in Channels
      BY <2>3
    <3>4. /\ GroupSens(g)[p[i]] = sens[l][p[i]]
          /\ GroupSens(g)[p[j]] = sens[l][p[j]]
      BY <1>3, <3>3, GroupSensIsShared DEF ProtectInv
    <3> QED BY <2>4, <3>1, <3>2, <3>4
  <2>6. \A l \in Selected :
          /\ l \in g => perm'[l] = p /\ sizes'[l] = k
          /\ l \notin g => perm'[l] = perm[l] /\ sizes'[l] = sizes[l]
    BY <2>1, LayersAssumption DEF k
  <2>7. ClustersSorted'
    <3> SUFFICES ASSUME NEW l \in Selected, perm'[l] # None
                 PROVE  /\ sens' # None /\ sizes'[l] # None
                        /\ \A i, j \in Channels :
                             LevelAt(sizes'[l], i) > LevelAt(sizes'[l], j) =>
                               sens'[l][perm'[l][i]] >= sens'[l][perm'[l][j]]
      BY DEF ClustersSorted
    <3>1. CASE l \in g
      BY <1>3, <2>2, <2>5, <2>6, <3>1, NoneAssumption
    <3>2. CASE l \notin g
      BY <1>3, <2>6, <3>2 DEF ProtectInv, ClustersSorted
    <3> QED BY <3>1, <3>2
  <2>8. PrecisionFollows'
    <3>1. prec = [l \in Layers |-> Untouched]
      BY <1>3 DEF ProtectInv, PrecisionFollows
    <3>2. \A l \in Selected : \A i, j \in Channels : ~(prec[l][i] > prec[l][j])
      BY <3>1, LayersAssumption DEF Untouched
    <3> QED BY <1>3, <3>1, <3>2 DEF ProtectInv, PrecisionFollows
  <2> QED BY <1>2, <1>4, <2>7, <2>8 DEF ProtectInv
<1> QED BY <1>5, <1>6 DEF PermuteGroup

LEMMA BakeProtects ==
  ASSUME ProtectInv, BakeBlock PROVE ProtectInv'
<1>1. BakeBlock => [Next]_vars
  BY DEF Next
<1>2. TypeOK'
  BY <1>1, TypesNext DEF ProtectInv
<1>3. /\ pc = "autoround" /\ wrapped # {}
      /\ UNCHANGED <<pc, skip, sens, perm, cols, sizes>>
  BY DEF BakeBlock, setup, plan, layout
<1>4. ColumnsFollow' /\ SumsShared' /\ ClustersSorted'
  <2>1. UNCHANGED Unpermuted
    BY <1>3 DEF Unpermuted
  <2> QED BY <1>3, <2>1 DEF ProtectInv, ColumnsFollow, SumsShared, ClustersSorted
<1>5. PrecisionFollows'
  BY <1>3 DEF ProtectInv, PrecisionFollows, Before
<1> QED BY <1>2, <1>4, <1>5 DEF ProtectInv

LEMMA MinOfTwo == \A a, b \in Bits : Min({a, b}) = IF a <= b THEN a ELSE b
BY DEF Min, Bits

LEMMA QuantizeProtects ==
  ASSUME ProtectInv, NEW m \in Selected, QuantizeLayer(m) \/ ConvertLayer(m)
  PROVE  ProtectInv'
<1>1. QuantizeLayer(m) \/ ConvertLayer(m) => [Next]_vars
  BY DEF Next
<1>2. TypeOK'
  BY <1>1, TypesNext DEF ProtectInv
<1>3. /\ pc \in {"gptq", "convert"} /\ pc' \in {"gptq", "convert", "failed"}
      /\ UNCHANGED <<skip, sens, perm, cols, sizes, wrapped>>
  BY DEF QuantizeLayer, ConvertLayer, Runs, Fail, setup, plan, layout
<1>4. ColumnsFollow' /\ SumsShared' /\ ClustersSorted'
  <2>1. UNCHANGED Unpermuted /\ pc' \notin Before
    BY <1>3 DEF Unpermuted, Before
  <2> QED BY <1>3, <2>1 DEF ProtectInv, ColumnsFollow, SumsShared, ClustersSorted
<1>5. \A l \in Selected \ {m} : prec'[l] = prec[l]
  <2>1. UNCHANGED prec \/ \E f : prec' = [prec EXCEPT ![m] = f]
    <3>1. CASE QuantizeLayer(m)
      BY <3>1 DEF QuantizeLayer
    <3>2. CASE ConvertLayer(m)
      BY <3>2 DEF ConvertLayer
    <3> QED BY <3>1, <3>2
  <2> QED BY <2>1, LayersAssumption DEF ProtectInv, TypeOK
<1>6. ASSUME "autoround" \in skip, perm[m] # None, NEW i \in Channels, NEW j \in Channels,
             prec'[m][i] > prec'[m][j]
      PROVE  LevelAt(sizes[m], i) > LevelAt(sizes[m], j)
  <2>1. sizes[m] # None /\ m \in Layers
    BY <1>6, LayersAssumption DEF ProtectInv, ClustersSorted
  <2>2. CASE UNCHANGED prec
    BY <1>6, <2>2 DEF ProtectInv, PrecisionFollows
  <2>3. CASE prec' = [prec EXCEPT ![m] =
                        [c \in Channels |-> Min({prec[m][c], LevelAt(sizes[m], c)})]]
    <3> DEFINE a == prec[m][i]
               b == prec[m][j]
               u == LevelAt(sizes[m], i)
               v == LevelAt(sizes[m], j)
    <3>1. a \in Bits /\ b \in Bits /\ u \in Bits /\ v \in Bits
      BY <2>1, Precisions DEF ProtectInv, TypeOK
    <3>2. a > b => u > v
      BY <1>6 DEF ProtectInv, PrecisionFollows
    <3>3. prec'[m][i] = Min({a, u}) /\ prec'[m][j] = Min({b, v})
      BY <2>1, <2>3 DEF ProtectInv, TypeOK
    <3>4. Min({a, u}) > Min({b, v})
      BY <1>6, <3>3
    <3> HIDE DEF a, b, u, v
    <3>5. Min({a, u}) = (IF a <= u THEN a ELSE u) /\ Min({b, v}) = (IF b <= v THEN b ELSE v)
      BY <3>1, MinOfTwo
    <3>6. u > v
      BY <3>1, <3>2, <3>4, <3>5 DEF Bits
    <3> QED BY <3>6 DEF u, v
  <2>4. UNCHANGED prec
        \/ prec' = [prec EXCEPT ![m] =
                      [c \in Channels |-> Min({prec[m][c], LevelAt(sizes[m], c)})]]
    <3>1. CASE ConvertLayer(m)
      BY <2>1, <3>1 DEF ConvertLayer
    <3>2. CASE QuantizeLayer(m)
      BY <2>1, <3>2 DEF QuantizeLayer, ProtectInv, TypeOK
    <3> QED BY <3>1, <3>2
  <2> QED BY <2>2, <2>3, <2>4
<1>7. PrecisionFollows'
  <2>1. pc' \notin Before \cup {"permute", "harden", "fusion"}
    BY <1>3 DEF Before
  <2>2. ASSUME "autoround" \in skip, NEW l \in Selected, perm[l] # None,
               NEW i \in Channels, NEW j \in Channels, prec'[l][i] > prec'[l][j]
        PROVE  LevelAt(sizes[l], i) > LevelAt(sizes[l], j)
    <3>1. CASE l = m
      BY <1>6, <2>2, <3>1
    <3>2. CASE l # m
      BY <1>5, <2>2, <3>2 DEF ProtectInv, PrecisionFollows
    <3> QED BY <3>1, <3>2
  <2>3. "autoround" \in skip => wrapped = {}
    BY DEF ProtectInv, PrecisionFollows
  <2> QED BY <1>3, <2>1, <2>2, <2>3 DEF PrecisionFollows
<1> QED BY <1>2, <1>4, <1>7 DEF ProtectInv

LEMMA ProtectNext == ProtectInv /\ [Next]_vars => ProtectInv'
<1> SUFFICES ASSUME ProtectInv, [Next]_vars PROVE ProtectInv'
  OBVIOUS
<1>1. CASE UNCHANGED vars
  <2>1. Settled
    BY <1>1 DEF Settled, vars, setup, plan, layout, tail
  <2> QED BY <2>1, SettledStep
<1>2. CASE Sensitivity
  BY <1>2, SensitivityProtects
<1>3. CASE \E g \in Groups : PermuteGroup(g)
  BY <1>3, PermuteProtects
<1>4. CASE BakeBlock
  BY <1>4, BakeProtects
<1>5. CASE \E l \in Selected : QuantizeLayer(l) \/ ConvertLayer(l)
  BY <1>5, QuantizeProtects
<1>6. CASE \/ SkipStep \/ SmoothQuant \/ SolveIlp \/ MatchIsa
           \/ CaptureMetric \/ EndPermute \/ Harden
           \/ (\E l \in Selected : InstallHook(l)) \/ (\E n \in Norms : FuseNorm(n))
           \/ EndFusion \/ (\E b \in Blocks : PassBlock(b))
           \/ (\E b \in Blocks : WrapBlock(b)) \/ EndAutoround \/ Sqc
           \/ Recapture \/ EndQuantize \/ EndConvert \/ SmokeTest
  BY <1>6, SettledActions, SettledStep
<1> QED
  BY <1>1, <1>2, <1>3, <1>4, <1>5, <1>6 DEF Next

\* Without AutoRound, no column of a quantized layer keeps more precision than one
\* whose channel is more sensitive, for any groups, sizes, ties, budgets and skips:
\* the sort of step 4 and the cut of step 8 agree (decoupled.py:202, mixed.py:190).
THEOREM SensitiveChannelsProtected == Spec => []ProtectedBySensitivity
<1>1. ProtectInv => ProtectedBySensitivity
  <2> SUFFICES ASSUME ProtectInv, sens # None, "autoround" \in skip,
                      NEW l \in quantized, NEW i \in Channels, NEW j \in Channels,
                      prec[l][i] > prec[l][j], perm[l] # None
               PROVE  sens[l][cols[l][i]] >= sens[l][cols[l][j]]
    BY DEF ProtectedBySensitivity
  <2>1. l \in Selected /\ l \in Layers
    BY LayersAssumption DEF ProtectInv, TypeOK
  <2>2. cols[l] = perm[l]
    BY <2>1 DEF ProtectInv, ColumnsFollow
  <2>3. LevelAt(sizes[l], i) > LevelAt(sizes[l], j)
    BY <2>1 DEF ProtectInv, PrecisionFollows
  <2> QED BY <2>1, <2>2, <2>3 DEF ProtectInv, ClustersSorted
<1>2. Init => ProtectInv
  BY ProtectInit
<1>3. ProtectInv /\ [Next]_vars => ProtectInv'
  BY ProtectNext
<1> QED
  BY <1>1, <1>2, <1>3, PTL DEF Spec

================================================================================
