--------------------------- MODULE GemmLaunch_proofs ---------------------------
(***************************************************************************)
(* The prefill kernels never race on shared memory, for every tile shape,  *)
(* number of warps and lanes, width, partition and row count.              *)
(*                                                                         *)
(* A barrier counts arrivals and does not know from where, so a thread at  *)
(* the barrier before the loads and one at the barrier after them would    *)
(* release each other.  The invariant excludes that: the threads of a      *)
(* block are all on one side of the loads, and the lanes of a warp are all *)
(* in the same stretch between two synchronizations.                       *)
(***************************************************************************)
EXTENDS GemmLaunch, TLAPS

Before == {"fill", "top", "store", "stored", "scale", "scaled"}
During == {"loadA", "direct", "stage", "staged", "loadB", "mma", "bottom"}
Phase  == Before \cup During \cup {"write", "exit"}

Prefill == kernel \in {"tensorcore", "reuse"}
Running == Prefill /\ ~Idle

\* The warp of t copies its weights to shared memory before it loads them.
Stages(t) == kernel = "tensorcore" /\ ~FullChannels(t)

\* The stretch between two warp-wide synchronizations that thread t is in.
Stretch(t) ==
  CASE pc[t] \in {"fill", "top"}                -> 1
    [] pc[t] \in {"loadA", "direct", "stage", "staged"} -> 2
    [] pc[t] \in {"loadB", "mma"}               -> IF Stages(t) THEN 3 ELSE 2
    [] pc[t] = "bottom"                         -> 4
    [] pc[t] \in {"store", "stored"}            -> 5
    [] pc[t] \in {"scale", "scaled"}            -> 6
    [] pc[t] \in {"write", "exit"}              -> 7

Typed ==
  /\ pc \in [Thread -> Phase]
  /\ DOMAIN step = Thread

\* The places only warps that stage, or only those that do not, get to.
Routed ==
  \A t \in Thread : /\ pc[t] \in {"stage", "staged"} => Stages(t)
                    /\ pc[t] = "direct" => ~Stages(t)
                    /\ pc[t] = "loadB" /\ kernel = "tensorcore" => Stages(t)

OneSide ==
  \A t, u \in Thread : ~(pc[t] \in Before /\ pc[u] \in During)

Lockstep ==
  \A t, u \in Thread :
    t[1] = u[1] => Stretch(t) = Stretch(u) /\ step[t] = step[u]

Inv ==
  /\ kernel = "none" => Idle
  /\ Running => Typed /\ Routed /\ OneSide /\ Lockstep

LEMMA InvImpliesNoRace == Inv => NoSharedMemoryRace
<1> SUFFICES ASSUME Inv, Running, NEW t \in Thread, NEW u \in Thread
             PROVE  /\ pc[t] = "fill" => pc[u] \notin {"loadA", "stage", "loadB"}
                    /\ t[1] = u[1] => ~(pc[t] = "stage" /\ pc[u] = "loadB")
                    /\ t[1] = u[1] =>
                         ~(pc[t] = "store" /\ pc[u] \in {"scale", "write"})
  BY DEF NoSharedMemoryRace, Running, Prefill
<1>1. Typed /\ Routed /\ OneSide /\ Lockstep
  BY DEF Inv
<1>2. pc[t] = "fill" => pc[u] \notin {"loadA", "stage", "loadB"}
  BY <1>1 DEF OneSide, Before, During
<1>3. t[1] = u[1] => Stretch(t) = Stretch(u) /\ Stages(t) = Stages(u)
  BY <1>1 DEF Lockstep, Stages, FullChannels
<1>4. t[1] = u[1] => ~(pc[t] = "stage" /\ pc[u] = "loadB")
  BY <1>1, <1>3 DEF Routed, Stretch
<1>5. t[1] = u[1] => ~(pc[t] = "store" /\ pc[u] \in {"scale", "write"})
  BY <1>3 DEF Stretch
<1> QED
  BY <1>2, <1>4, <1>5

LEMMA InvInit == Init => Inv
  BY DEF Init, Inv, Running, Prefill, Idle

LEMMA InvLaunch == Inv /\ Launch => Inv'
  BY DEF Inv, Launch, Running, Prefill, Idle

\* Nothing the invariant speaks of changes.
LEMMA InvUnchanged ==
  ASSUME Inv, UNCHANGED <<grid, pc, step>>
  PROVE  Inv'
<1>1. /\ Thread' = Thread
      /\ Running' = Running
      /\ Idle' = Idle
      /\ \A t : FullChannels(t)' = FullChannels(t)
  BY DEF grid, args, Thread, WarpIds, WarpCount, Running, Prefill, Idle,
         FullChannels, ChannelBase, Target, Tiles, Size, Prec, WarpChannel,
         PerBlock, CeilDiv
<1>2. /\ Typed' = Typed /\ Routed' = Routed /\ OneSide' = OneSide
      /\ Lockstep' = Lockstep
  BY <1>1 DEF Typed, Routed, OneSide, Lockstep, Stages, Stretch, grid, args
<1> QED
  BY <1>1, <1>2 DEF Inv, grid, args

\* What the steps of a running block leave alone.
Frame ==
  /\ Thread' = Thread
  /\ kernel' = kernel
  /\ \A t \in Thread : Stages(t)' = Stages(t)

LEMMA FrameHolds == ASSUME UNCHANGED grid PROVE Frame
  BY DEF Frame, grid, args, Thread, WarpIds, WarpCount, Stages, FullChannels,
         ChannelBase, Target, Tiles, Size, Prec, WarpChannel, PerBlock, CeilDiv

\* The stretch of a thread depends on its place and on whether its warp stages.
LEMMA StretchKept ==
  ASSUME NEW u \in Thread, pc'[u] = pc[u], Stages(u)' = Stages(u)
  PROVE  Stretch(u)' = Stretch(u)
  BY DEF Stretch

\* One thread moves within its stretch and its side.
LEMMA OneThread ==
  ASSUME Inv, Running, Frame, NEW t \in Thread, NEW p \in Phase,
         step' = step, pc' = [pc EXCEPT ![t] = p],
         Stretch(t)' = Stretch(t),
         pc[t] \in Before => p \in Before,
         p \in During => pc[t] \in During,
         p \in Before => pc[t] \in Before,
         p \in {"stage", "staged"} => Stages(t),
         p = "direct" => ~Stages(t),
         p = "loadB" /\ kernel = "tensorcore" => Stages(t)
  PROVE  Inv'
<1>1. Typed /\ Routed /\ OneSide /\ Lockstep
  BY DEF Inv
<1>2. pc \in [Thread -> Phase] /\ Thread' = Thread /\ kernel' = kernel
  BY <1>1 DEF Typed, Frame
<1>3. /\ pc'[t] = p
      /\ \A u \in Thread : u # t => pc'[u] = pc[u]
      /\ pc' \in [Thread -> Phase]
  BY <1>2
<1>4. Typed'
  BY <1>1, <1>2, <1>3 DEF Typed
<1>5. Routed'
  BY <1>1, <1>2, <1>3 DEF Routed, Frame
<1>6. OneSide'
  BY <1>1, <1>2, <1>3 DEF OneSide
<1>7. ASSUME NEW u \in Thread PROVE Stretch(u)' = Stretch(u)
  <2>1. u # t => pc'[u] = pc[u] /\ Stages(u)' = Stages(u)
    BY <1>3 DEF Frame
  <2> QED
    BY <2>1, StretchKept
<1>8. Lockstep'
  BY <1>1, <1>2, <1>7 DEF Lockstep
<1> QED
  BY <1>2, <1>4, <1>5, <1>6, <1>8 DEF Inv, Running, Prefill

LEMMA InvFill == ASSUME Inv, Running, NEW t \in Thread, Fill(t) PROVE Inv'
<1>1. Typed /\ Routed
  BY DEF Inv
<1>2. Frame
  BY FrameHolds DEF Fill
<1>3. pc \in [Thread -> Phase] /\ t \in Thread
  BY <1>1 DEF Typed
<1> DEFINE p == "top"
<1>4. p \in Phase /\ step' = step /\ pc' = [pc EXCEPT ![t] = p]
  BY DEF Fill, Phase, Before, During, prefill
<1>5. pc[t] = "fill" /\ pc'[t] = p
  BY <1>3, <1>4 DEF Fill
<1>6. Stretch(t)' = Stretch(t)
  BY <1>1, <1>2, <1>5 DEF Stretch, Frame, Routed, Stages, Running, Prefill
<1>7. /\ pc[t] \in Before => p \in Before
      /\ p \in During => pc[t] \in During
      /\ p \in Before => pc[t] \in Before
  BY <1>5 DEF Before, During
<1>8. /\ p \in {"stage", "staged"} => Stages(t)
      /\ p = "direct" => ~Stages(t)
      /\ p = "loadB" /\ kernel = "tensorcore" => Stages(t)
  BY <1>1, <1>5 DEF Routed, Stages, Running, Prefill
<1> HIDE DEF p
<1> QED
  BY <1>2, <1>4, <1>6, <1>7, <1>8, OneThread

LEMMA InvLoadA == ASSUME Inv, Running, NEW t \in Thread, LoadA(t) PROVE Inv'
<1>1. Typed /\ Routed
  BY DEF Inv
<1>2. Frame
  BY FrameHolds DEF LoadA
<1>3. pc \in [Thread -> Phase] /\ t \in Thread
  BY <1>1 DEF Typed
<1> DEFINE p == IF kernel = "reuse" THEN "loadB"
               ELSE IF FullChannels(t) THEN "direct" ELSE "stage"
<1>4. p \in Phase /\ step' = step /\ pc' = [pc EXCEPT ![t] = p]
  BY DEF LoadA, Phase, Before, During, prefill
<1>5. pc[t] = "loadA" /\ pc'[t] = p
  BY <1>3, <1>4 DEF LoadA
<1>6. Stretch(t)' = Stretch(t)
  BY <1>1, <1>2, <1>5 DEF Stretch, Frame, Routed, Stages, Running, Prefill
<1>7. /\ pc[t] \in Before => p \in Before
      /\ p \in During => pc[t] \in During
      /\ p \in Before => pc[t] \in Before
  BY <1>5 DEF Before, During
<1>8. /\ p \in {"stage", "staged"} => Stages(t)
      /\ p = "direct" => ~Stages(t)
      /\ p = "loadB" /\ kernel = "tensorcore" => Stages(t)
  BY <1>1, <1>5 DEF Routed, Stages, Running, Prefill
<1> HIDE DEF p
<1> QED
  BY <1>2, <1>4, <1>6, <1>7, <1>8, OneThread

LEMMA InvLoadDirect == ASSUME Inv, Running, NEW t \in Thread, LoadDirect(t) PROVE Inv'
<1>1. Typed /\ Routed
  BY DEF Inv
<1>2. Frame
  BY FrameHolds DEF LoadDirect
<1>3. pc \in [Thread -> Phase] /\ t \in Thread
  BY <1>1 DEF Typed
<1> DEFINE p == "mma"
<1>4. p \in Phase /\ step' = step /\ pc' = [pc EXCEPT ![t] = p]
  BY DEF LoadDirect, Phase, Before, During, prefill
<1>5. pc[t] = "direct" /\ pc'[t] = p
  BY <1>3, <1>4 DEF LoadDirect
<1>6. Stretch(t)' = Stretch(t)
  BY <1>1, <1>2, <1>5 DEF Stretch, Frame, Routed, Stages, Running, Prefill
<1>7. /\ pc[t] \in Before => p \in Before
      /\ p \in During => pc[t] \in During
      /\ p \in Before => pc[t] \in Before
  BY <1>5 DEF Before, During
<1>8. /\ p \in {"stage", "staged"} => Stages(t)
      /\ p = "direct" => ~Stages(t)
      /\ p = "loadB" /\ kernel = "tensorcore" => Stages(t)
  BY <1>1, <1>5 DEF Routed, Stages, Running, Prefill
<1> HIDE DEF p
<1> QED
  BY <1>2, <1>4, <1>6, <1>7, <1>8, OneThread

LEMMA InvStage == ASSUME Inv, Running, NEW t \in Thread, Stage(t) PROVE Inv'
<1>1. Typed /\ Routed
  BY DEF Inv
<1>2. Frame
  BY FrameHolds DEF Stage
<1>3. pc \in [Thread -> Phase] /\ t \in Thread
  BY <1>1 DEF Typed
<1> DEFINE p == "staged"
<1>4. p \in Phase /\ step' = step /\ pc' = [pc EXCEPT ![t] = p]
  BY DEF Stage, Phase, Before, During, prefill
<1>5. pc[t] = "stage" /\ pc'[t] = p
  BY <1>3, <1>4 DEF Stage
<1>6. Stretch(t)' = Stretch(t)
  BY <1>1, <1>2, <1>5 DEF Stretch, Frame, Routed, Stages, Running, Prefill
<1>7. /\ pc[t] \in Before => p \in Before
      /\ p \in During => pc[t] \in During
      /\ p \in Before => pc[t] \in Before
  BY <1>5 DEF Before, During
<1>8. /\ p \in {"stage", "staged"} => Stages(t)
      /\ p = "direct" => ~Stages(t)
      /\ p = "loadB" /\ kernel = "tensorcore" => Stages(t)
  BY <1>1, <1>5 DEF Routed, Stages, Running, Prefill
<1> HIDE DEF p
<1> QED
  BY <1>2, <1>4, <1>6, <1>7, <1>8, OneThread

LEMMA InvLoadB == ASSUME Inv, Running, NEW t \in Thread, LoadB(t) PROVE Inv'
<1>1. Typed /\ Routed
  BY DEF Inv
<1>2. Frame
  BY FrameHolds DEF LoadB
<1>3. pc \in [Thread -> Phase] /\ t \in Thread
  BY <1>1 DEF Typed
<1> DEFINE p == "mma"
<1>4. p \in Phase /\ step' = step /\ pc' = [pc EXCEPT ![t] = p]
  BY DEF LoadB, Phase, Before, During, prefill
<1>5. pc[t] = "loadB" /\ pc'[t] = p
  BY <1>3, <1>4 DEF LoadB
<1>6. Stretch(t)' = Stretch(t)
  BY <1>1, <1>2, <1>5 DEF Stretch, Frame, Routed, Stages, Running, Prefill
<1>7. /\ pc[t] \in Before => p \in Before
      /\ p \in During => pc[t] \in During
      /\ p \in Before => pc[t] \in Before
  BY <1>5 DEF Before, During
<1>8. /\ p \in {"stage", "staged"} => Stages(t)
      /\ p = "direct" => ~Stages(t)
      /\ p = "loadB" /\ kernel = "tensorcore" => Stages(t)
  BY <1>1, <1>5 DEF Routed, Stages, Running, Prefill
<1> HIDE DEF p
<1> QED
  BY <1>2, <1>4, <1>6, <1>7, <1>8, OneThread

LEMMA InvStore == ASSUME Inv, Running, NEW t \in Thread, Store(t) PROVE Inv'
<1>1. Typed /\ Routed
  BY DEF Inv
<1>2. Frame
  BY FrameHolds DEF Store
<1>3. pc \in [Thread -> Phase] /\ t \in Thread
  BY <1>1 DEF Typed
<1> DEFINE p == "stored"
<1>4. p \in Phase /\ step' = step /\ pc' = [pc EXCEPT ![t] = p]
  BY DEF Store, Phase, Before, During, prefill
<1>5. pc[t] = "store" /\ pc'[t] = p
  BY <1>3, <1>4 DEF Store
<1>6. Stretch(t)' = Stretch(t)
  BY <1>1, <1>2, <1>5 DEF Stretch, Frame, Routed, Stages, Running, Prefill
<1>7. /\ pc[t] \in Before => p \in Before
      /\ p \in During => pc[t] \in During
      /\ p \in Before => pc[t] \in Before
  BY <1>5 DEF Before, During
<1>8. /\ p \in {"stage", "staged"} => Stages(t)
      /\ p = "direct" => ~Stages(t)
      /\ p = "loadB" /\ kernel = "tensorcore" => Stages(t)
  BY <1>1, <1>5 DEF Routed, Stages, Running, Prefill
<1> HIDE DEF p
<1> QED
  BY <1>2, <1>4, <1>6, <1>7, <1>8, OneThread

LEMMA InvScale == ASSUME Inv, Running, NEW t \in Thread, Scale(t) PROVE Inv'
<1>1. Typed /\ Routed
  BY DEF Inv
<1>2. Frame
  BY FrameHolds DEF Scale
<1>3. pc \in [Thread -> Phase] /\ t \in Thread
  BY <1>1 DEF Typed
<1> DEFINE p == "scaled"
<1>4. p \in Phase /\ step' = step /\ pc' = [pc EXCEPT ![t] = p]
  BY DEF Scale, Phase, Before, During, prefill
<1>5. pc[t] = "scale" /\ pc'[t] = p
  BY <1>3, <1>4 DEF Scale
<1>6. Stretch(t)' = Stretch(t)
  BY <1>1, <1>2, <1>5 DEF Stretch, Frame, Routed, Stages, Running, Prefill
<1>7. /\ pc[t] \in Before => p \in Before
      /\ p \in During => pc[t] \in During
      /\ p \in Before => pc[t] \in Before
  BY <1>5 DEF Before, During
<1>8. /\ p \in {"stage", "staged"} => Stages(t)
      /\ p = "direct" => ~Stages(t)
      /\ p = "loadB" /\ kernel = "tensorcore" => Stages(t)
  BY <1>1, <1>5 DEF Routed, Stages, Running, Prefill
<1> HIDE DEF p
<1> QED
  BY <1>2, <1>4, <1>6, <1>7, <1>8, OneThread

LEMMA InvWrite == ASSUME Inv, Running, NEW t \in Thread, Write(t) PROVE Inv'
<1>1. Typed /\ Routed
  BY DEF Inv
<1>2. Frame
  BY FrameHolds DEF Write
<1>3. pc \in [Thread -> Phase] /\ t \in Thread
  BY <1>1 DEF Typed
<1> DEFINE p == IF item[t] + 1 = (Tile * Tile) \div Lanes THEN "exit" ELSE "write"
<1>4. p \in Phase /\ step' = step /\ pc' = [pc EXCEPT ![t] = p]
  BY DEF Write, Phase, Before, During, prefill
<1>5. pc[t] = "write" /\ pc'[t] = p
  BY <1>3, <1>4 DEF Write
<1>6. Stretch(t)' = Stretch(t)
  BY <1>1, <1>2, <1>5 DEF Stretch, Frame, Routed, Stages, Running, Prefill
<1>7. /\ pc[t] \in Before => p \in Before
      /\ p \in During => pc[t] \in During
      /\ p \in Before => pc[t] \in Before
  BY <1>5 DEF Before, During
<1>8. /\ p \in {"stage", "staged"} => Stages(t)
      /\ p = "direct" => ~Stages(t)
      /\ p = "loadB" /\ kernel = "tensorcore" => Stages(t)
  BY <1>1, <1>5 DEF Routed, Stages, Running, Prefill
<1> HIDE DEF p
<1> QED
  BY <1>2, <1>4, <1>6, <1>7, <1>8, OneThread

\* The lanes of a warp move together.
LEMMA InvMma == ASSUME Inv, Running, NEW w \in WarpIds, Mma(w) PROVE Inv'
<1>1. Typed /\ Routed /\ OneSide /\ Lockstep
  BY DEF Inv
<1>2. Frame /\ step' = step
  BY FrameHolds DEF Mma
<1>3. /\ \A t \in Thread : pc'[t] = IF t \in Warp(w) THEN "bottom" ELSE pc[t]
      /\ pc' \in [Thread -> Phase]
  BY <1>1 DEF Mma, Typed, Phase, During
<1>4. \A t \in Thread : (t \in Warp(w)) <=> (t[1] = w)
  BY DEF Thread, Warp
<1>5. \A t \in Thread : t[1] = w => pc[t] = "mma"
  BY <1>4 DEF Mma
<1>6. Typed' /\ Routed'
  BY <1>1, <1>2, <1>3 DEF Typed, Routed, Frame
<1>7. OneSide'
  BY <1>1, <1>2, <1>3, <1>4, <1>5 DEF OneSide, Frame, Before, During
<1>8. ASSUME NEW t \in Thread
      PROVE  Stretch(t)' = IF t[1] = w THEN 4 ELSE Stretch(t)
  <2>1. CASE t[1] = w
    <3>1. pc'[t] = "bottom"
      BY <1>3, <1>4, <2>1
    <3> QED
      BY <2>1, <3>1 DEF Stretch
  <2>2. CASE t[1] # w
    <3>1. pc'[t] = pc[t]
      BY <1>3, <1>4, <2>2
    <3> QED
      BY <1>1, <1>2, <2>2, <3>1
      DEF Stretch, Frame, Typed, Phase, Before, During
  <2> QED
    BY <2>1, <2>2
<1>9. Lockstep'
  BY <1>1, <1>2, <1>8 DEF Lockstep, Frame
<1> QED
  BY <1>2, <1>6, <1>7, <1>9 DEF Inv, Running, Prefill, Frame

LEMMA InvWarpSync ==
  ASSUME Inv, Running, NEW w \in WarpIds, WarpSync(w) PROVE Inv'
<1>1. Typed /\ Routed /\ OneSide /\ Lockstep
  BY DEF Inv
<1>2. Frame /\ step' = step
  BY FrameHolds DEF WarpSync
<1>3. \A t \in Thread : (t \in Warp(w)) <=> (t[1] = w)
  BY DEF Thread, Warp
<1>4. \A t \in Thread : t[1] = w => pc[t] \in {"staged", "stored", "scaled", "exit"}
  BY <1>3 DEF WarpSync
<1>5. \A t \in Thread : pc'[t] = IF t[1] = w THEN AfterSync(t) ELSE pc[t]
  BY <1>3 DEF WarpSync
<1>6. \A t \in Thread : AfterSync(t) \in Phase
  BY <1>1 DEF AfterSync, Phase, Before, During, Typed
<1>7. DOMAIN pc' = Thread
  BY DEF WarpSync
<1>8. pc' \in [Thread -> Phase]
  <2>1. pc' = [t \in Thread |-> IF t \in Warp(w) THEN AfterSync(t) ELSE pc[t]]
    BY DEF WarpSync
  <2> QED
    BY <1>1, <1>6, <2>1 DEF Typed
<1>9. Typed'
  BY <1>1, <1>2, <1>8 DEF Typed, Frame
<1>10. Routed'
  BY <1>1, <1>2, <1>4, <1>5 DEF Routed, Frame, AfterSync
<1>11. \A t \in Thread : /\ pc'[t] \in Before => pc[t] \in Before
                         /\ pc'[t] \in During => pc[t] \in During
  BY <1>4, <1>5 DEF AfterSync, Before, During
<1>12. OneSide'
  BY <1>1, <1>2, <1>11 DEF OneSide, Frame
<1>13. ASSUME NEW t \in Thread, NEW u \in Thread, t[1] = u[1]
       PROVE  Stretch(t)' = Stretch(u)' /\ step'[t] = step'[u]
  <2>1. Stretch(t) = Stretch(u) /\ step[t] = step[u] /\ Stages(t) = Stages(u)
    BY <1>1, <1>13 DEF Lockstep, Stages, FullChannels
  <2>2. CASE t[1] # w
    BY <1>2, <1>5, <1>13, <2>1, <2>2 DEF Stretch, Frame
  <2>3. CASE t[1] = w
    <3>1. pc[t] = pc[u]
      <4>1. \A x \in {t, u} : pc[x] \in {"staged", "stored", "scaled", "exit"}
        BY <1>4, <1>13, <2>3
      <4>2. \A x \in {t, u} : Stretch(x) = CASE pc[x] = "staged" -> 2
                                             [] pc[x] = "stored" -> 5
                                             [] pc[x] = "scaled" -> 6
                                             [] pc[x] = "exit"   -> 7
        BY <4>1 DEF Stretch
      <4> QED
        BY <4>1, <4>2, <2>1
    <3>2. pc'[t] = pc'[u]
      BY <1>5, <1>13, <2>1, <2>3, <3>1 DEF AfterSync
    <3> QED
      BY <1>2, <2>1, <3>2 DEF Stretch, Frame
  <2> QED
    BY <2>2, <2>3
<1>14. Lockstep'
  BY <1>2, <1>13 DEF Lockstep, Frame
<1> QED
  BY <1>2, <1>9, <1>10, <1>12, <1>14 DEF Inv, Running, Prefill, Frame

\* All threads of the block move together, from one side of the loads.
LEMMA InvBarrier == ASSUME Inv, Running, Barrier PROVE Inv'
<1>1. Typed /\ Routed /\ OneSide /\ Lockstep
  BY DEF Inv
<1>2. Frame
  BY FrameHolds DEF Barrier
<1> DEFINE After(t) == IF Stores(step[t] + 1) THEN "store" ELSE "fill"
           Past(t)  == IF pc[t] = "top" THEN "loadA"
                       ELSE IF pc[t] = "bottom" THEN After(t) ELSE pc[t]
<1>3. \A t \in Thread : pc[t] \in {"top", "bottom", "exit"}
  BY DEF Barrier
<1>4. pc' = [t \in Thread |-> Past(t)]
  BY DEF Barrier
<1>5. step' = [t \in Thread |-> IF pc[t] = "bottom" THEN step[t] + 1 ELSE step[t]]
  BY DEF Barrier
<1>6. \A t \in Thread : Past(t) \in {"loadA", "store", "fill", "exit"}
  BY <1>3
<1>7. \A t \in Thread : pc'[t] = Past(t)
  BY <1>4
<1>8. pc' \in [Thread -> Phase]
  BY <1>4, <1>6 DEF Phase, Before, During
<1>9. Typed'
  BY <1>2, <1>5, <1>8 DEF Typed, Frame
<1>10. Routed'
  BY <1>2, <1>6, <1>7 DEF Routed, Frame
<1>11. ASSUME NEW t \in Thread, NEW u \in Thread,
              pc'[t] \in Before, pc'[u] \in During
       PROVE  FALSE
  <2>1. pc[t] = "bottom"
    BY <1>3, <1>7, <1>11 DEF Before
  <2>2. pc[u] = "top"
    BY <1>3, <1>7, <1>11 DEF During
  <2> QED
    BY <1>1, <2>1, <2>2 DEF OneSide, Before, During
<1>12. OneSide'
  BY <1>2, <1>11 DEF OneSide, Frame
<1>13. ASSUME NEW t \in Thread, NEW u \in Thread, t[1] = u[1]
       PROVE  Stretch(t)' = Stretch(u)' /\ step'[t] = step'[u]
  <2>1. Stretch(t) = Stretch(u) /\ step[t] = step[u] /\ Stages(t) = Stages(u)
    BY <1>1, <1>13 DEF Lockstep, Stages, FullChannels
  <2>2. pc[t] = pc[u]
    BY <1>3, <2>1 DEF Stretch
  <2>3. Past(t) = Past(u)
    BY <2>1, <2>2
  <2>4. pc'[t] = pc'[u]
    BY <1>7, <2>3
  <2>5. step'[t] = step'[u]
    BY <1>5, <2>1, <2>2
  <2> QED
    BY <1>2, <2>1, <2>4, <2>5 DEF Stretch, Frame
<1>14. Lockstep'
  BY <1>2, <1>13 DEF Lockstep, Frame
<1> QED
  BY <1>2, <1>9, <1>10, <1>12, <1>14 DEF Inv, Running, Prefill, Frame

LEMMA InvStartBlock == ASSUME Inv, StartBlock PROVE Inv'
<1>1. Thread' = Thread /\ kernel' = kernel /\ kernel # "none"
  BY DEF StartBlock, args, Thread, WarpIds, WarpCount
<1>2. /\ pc' = [t \in Thread |-> "fill"]
      /\ step' = [t \in Thread |-> 0]
  BY DEF StartBlock
<1>3. Typed' /\ Routed' /\ OneSide' /\ Lockstep'
  BY <1>1, <1>2 DEF Typed, Routed, OneSide, Lockstep, Stretch, Phase, Before,
                    During
<1> QED
  BY <1>1, <1>3 DEF Inv

LEMMA InvEndBlock == ASSUME Inv, EndBlock PROVE Inv'
  BY DEF Inv, EndBlock, Running, Prefill, Idle, args

LEMMA InvDecode == ASSUME Inv, DecodeNext PROVE Inv'
<1>1. kernel = "decode" /\ kernel' = kernel
  BY DEF DecodeNext, StartWarp, EndWarp, Shuffle, Multiply, Accumulate,
         WriteResult, grid, args
<1> QED
  BY <1>1 DEF Inv, Running, Prefill

THEOREM InvStep == Inv /\ [Next]_vars => Inv'
<1> SUFFICES ASSUME Inv, [Next]_vars PROVE Inv'
  OBVIOUS
<1>1. CASE UNCHANGED vars
  BY <1>1, InvUnchanged DEF vars, prefill
<1>2. CASE Launch
  BY <1>2, InvLaunch
<1>3. CASE StartBlock
  BY <1>3, InvStartBlock
<1>4. CASE EndBlock
  BY <1>4, InvEndBlock
<1>5. ASSUME Running, Barrier PROVE Inv'
  BY <1>5, InvBarrier
<1>6. ASSUME Running, NEW w \in WarpIds, Mma(w) \/ WarpSync(w) PROVE Inv'
  BY <1>6, InvMma, InvWarpSync
<1>7. ASSUME Running, NEW t \in Thread,
             \/ Fill(t) \/ LoadA(t) \/ LoadDirect(t) \/ Stage(t)
             \/ LoadB(t) \/ Store(t) \/ Scale(t) \/ Write(t)
      PROVE  Inv'
  BY <1>7, InvFill, InvLoadA, InvLoadDirect, InvStage, InvLoadB, InvStore,
     InvScale, InvWrite
<1>8. CASE DecodeNext
  BY <1>8, InvDecode
<1> QED
  BY <1>1, <1>2, <1>3, <1>4, <1>5, <1>6, <1>7, <1>8
  DEF Next, PrefillNext, Running, Prefill

\* No two threads of a prefill kernel touch the same cells of shared memory
\* without a barrier in between, whatever the launch.
THEOREM NoRace == Spec => []NoSharedMemoryRace
<1>1. Spec => []Inv
  BY InvInit, InvStep, PTL DEF Spec
<1> QED
  BY <1>1, InvImpliesNoRace, PTL

================================================================================
