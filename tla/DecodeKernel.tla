----------------------------- MODULE DecodeKernel -----------------------------
(***************************************************************************)
(* three_level_decode_kernel, which serves a single row: one subwarp per   *)
(* output channel, lane by lane.  Warps share nothing, so they run one     *)
(* after another; a warp is a block of the grid here.                      *)
(***************************************************************************)
EXTENDS GemmGrid

VARIABLES
  mask,      \* subwarp_mask of each subwarp, as the set of subwarps in it
  group,     \* the quantization group each lane is at
  delta,     \* the distance of the next shuffle of each lane
  partial,   \* accumulator
  result     \* result, kept by the first lane of a subwarp

decode == <<mask, group, delta, partial, result>>

Lane       == (0 .. Subwarps - 1) \X (0 .. Sublanes - 1)
LanesOf(S) == S \X (0 .. Sublanes - 1)

ChannelOf(s) == block * Subwarps + s
Branch(s) == IF ChannelOf(s) < Size(4) THEN 4
             ELSE IF ChannelOf(s) < Size(4) + Size(8) THEN 8 ELSE 16
Local(s)  == ChannelOf(s) - (CASE Branch(s) = 4 -> 0
                               [] Branch(s) = 8 -> Size(4)
                               [] OTHER -> Size(4) + Size(8))
OutputChannel(s) == Channel(Branch(s), Local(s))

DecodeInit ==
  mask = <<>> /\ group = <<>> /\ delta = <<>> /\ partial = <<>> /\ result = <<>>

\* Subwarps past the last channel return.  The branch depends on the subwarp
\* only, so the lanes of one stay together; whether __activemask() finds the
\* other subwarps converged is up to the scheduler.
StartWarp ==
  /\ kernel = "decode"
  /\ Idle
  /\ left # {}
  /\ block' = NextBlock
  /\ left'  = left \ {NextBlock}
  /\ LET live ==
           {s \in 0 .. Subwarps - 1 : NextBlock * Subwarps + s < OutputWidth}
       IN  /\ \E apart \in BOOLEAN :
                mask' = [s \in live |-> IF apart THEN {s} ELSE live]
           /\ pc' = [t \in Lane |-> IF t[1] \in live THEN "products" ELSE "exit"]
  /\ group'   = [t \in Lane |-> 0]
  /\ delta'   = [t \in Lane |-> Sublanes \div 2]
  /\ partial' = [t \in Lane |-> EmptyBag]
  /\ result'  = [t \in Lane |-> EmptyBag]
  /\ UNCHANGED <<args, output>>

EndWarp ==
  /\ kernel = "decode"
  /\ ~Idle
  /\ \A t \in Lane : pc[t] = "exit"
  /\ block' = None
  /\ pc' = <<>>
  /\ mask' = <<>> /\ group' = <<>> /\ delta' = <<>>
  /\ partial' = <<>> /\ result' = <<>>
  /\ UNCHANGED <<args, left, output>>

\* The columns a lane multiplies: its share of the group, or of the whole row
\* in the FP16 branch.
Share(t) ==
  {k \in Columns :
     /\ k % Sublanes = t[2]
     /\ Branch(t[1]) # 16 => k \div (PerGroup * Tile) = group[t]}

Multiply(t) ==
  /\ pc[t] = "products"
  /\ partial' = [partial EXCEPT ![t] =
       Products({<< <<0, k>>, <<OutputChannel(t[1]), k>> >> : k \in Share(t)})]
  /\ delta' = [delta EXCEPT ![t] = Sublanes \div 2]
  /\ pc' = [pc EXCEPT ![t] = IF Sublanes = 1 THEN "reduced" ELSE "shuffle"]
  /\ UNCHANGED <<grid, output, mask, group, result>>

\* The lane a shuffle reads: never one of another subwarp.
Source(t, d) == IF t[2] + d < Sublanes THEN <<t[1], t[2] + d>> ELSE t

\* __shfl_down_sync: the lanes of the mask that have not exited exchange their
\* values once all of them have arrived, whatever branch each is in.
Shuffle(s) ==
  LET meets == {t \in LanesOf(mask[s]) : pc[t] # "exit"}
  IN  /\ meets # {}
      /\ \A t \in meets : pc[t] = "shuffle" /\ mask[t[1]] = mask[s]
      /\ partial' = [t \in Lane |->
           IF t \in meets THEN partial[t] (+) partial[Source(t, delta[t])]
                          ELSE partial[t]]
      /\ delta' = [t \in Lane |->
           IF t \in meets THEN delta[t] \div 2 ELSE delta[t]]
      /\ pc' = [t \in Lane |->
           IF t \in meets /\ delta[t] = 1 THEN "reduced" ELSE pc[t]]
      /\ UNCHANGED <<grid, output, mask, group, result>>

\* The first lane keeps the group's sum; the FP16 branch has no groups.
Accumulate(t) ==
  /\ pc[t] = "reduced"
  /\ result' = [result EXCEPT ![t] = IF t[2] = 0 THEN @ (+) partial[t] ELSE @]
  /\ group' = [group EXCEPT ![t] = @ + 1]
  /\ pc' = [pc EXCEPT ![t] =
       IF Branch(t[1]) # 16 /\ group[t] + 1 < Groups THEN "products"
                                                     ELSE "write"]
  /\ UNCHANGED <<grid, output, mask, delta, partial>>

WriteResult(t) ==
  /\ pc[t] = "write"
  /\ IF t[2] = 0 THEN Put(<<0, OutputChannel(t[1])>>, result[t])
                 ELSE UNCHANGED output
  /\ pc' = [pc EXCEPT ![t] = "exit"]
  /\ UNCHANGED <<grid, decode>>

DecodeNext ==
  \/ StartWarp
  \/ EndWarp
  \/ /\ kernel = "decode"
     /\ ~Idle
     /\ \/ \E s \in DOMAIN mask : Shuffle(s)
        \/ \E t \in Lane : Multiply(t) \/ Accumulate(t) \/ WriteResult(t)
===============================================================================
