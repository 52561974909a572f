----------------------- MODULE ChannelAllocation_proofs -----------------------
(***************************************************************************)
(* Every invariant of the three allocators, for models of every size,      *)
(* every budget and every gain: no request fails, minimums hold although   *)
(* swaps take channels back from layers already served, counts are exact,  *)
(* bits are accounted for, blocks stay whole and percentages make 100.     *)
(***************************************************************************)
EXTENDS ChannelAllocation, Counting

Met(l) == Selected(l) >= request.minimums[l]

Types ==
  /\ request \in Requests
  /\ DOMAIN chosen = Levels
  /\ pc \in {"rank", "minimums", "finish", "upgrade", "done", "refused", "failed"}
  /\ pc = "upgrade" => request.kind = "bits"

MetInv ==
  request.kind = "model" =>
    /\ pc = "rank" => layer = 1
    /\ pc = "minimums" =>
         layer \in Layer /\ \A l \in Layer : l < layer => Met(l)
    /\ pc \in {"finish", "done"} => \A l \in Layer : Met(l)

LEMMA RequestShape ==
  ASSUME request \in Requests
  PROVE  /\ request.widths \in Seq(Nat \ {0}) /\ request.widths # <<>>
         /\ Layer = 1 .. Len(request.widths) /\ 1 \in Layer
         /\ request.kind = "model" => \A l \in Layer : request.minimums[l] \in Nat
<1>1. request.widths \in Models
  BY DEF Requests
<1>2. request.kind = "model" =>
        /\ request.minimums \in Minimums
        /\ Len(request.minimums) = Len(request.widths)
  BY DEF Requests
<1>3. request.widths \in Seq(Nat \ {0}) /\ request.widths # <<>>
  BY <1>1, ModelsAssumption
<1>4. Layer = 1 .. Len(request.widths) /\ 1 \in Layer
  BY <1>3 DEF Layer
<1>5. request.kind = "model" => request.minimums \in Seq(Nat)
  BY <1>2, InputsAssumption
<1> QED
  BY <1>2, <1>3, <1>4, <1>5

\* What a layer has beyond INT4 is counted.
LEMMA SelectedFinite ==
  ASSUME request \in Requests, NEW l \in Layer
  PROVE  /\ IsFiniteSet(Of(l))
         /\ Selected(l) \in Nat
<1>1. request.widths[l] - 1 \in Int /\ 0 \in Int
  BY RequestShape DEF Layer
<1>2. IsFiniteSet(0 .. request.widths[l] - 1)
  BY <1>1, FS_Interval
<1>3. IsFiniteSet(Of(l))
  BY <1>2, FS_Singleton, FS_Product DEF Of
<1>4. IsFiniteSet((chosen[8] \cup chosen[16]) \cap Of(l))
  BY <1>3, FS_Subset
<1> QED
  BY <1>3, <1>4, FS_CardinalityType DEF Selected

LEMMA InitInv == Init => Types /\ MetInv
<1> SUFFICES ASSUME Init PROVE Types /\ MetInv
  OBVIOUS
<1>1. /\ request \in Requests /\ DOMAIN chosen = Levels /\ layer = 1
      /\ pc = IF request.kind = "bits" THEN "upgrade" ELSE "rank"
  BY DEF Init
<1> QED
  BY <1>1 DEF Types, MetInv

LEMMA RankStep == Types /\ MetInv /\ Rank => Types' /\ MetInv'
<1> SUFFICES ASSUME Types, MetInv, Rank PROVE Types' /\ MetInv'
  OBVIOUS
<1>1. /\ pc = "rank" /\ request' = request /\ layer' = layer
      /\ pc' \in {"refused", "minimums", "finish"}
      /\ pc' = "finish" => request.kind # "model"
  BY DEF Rank
<1>2. DOMAIN chosen' = Levels
  BY DEF Rank, Types
<1>3. Layer' = Layer
  BY <1>1 DEF Layer
<1> QED
  BY <1>1, <1>2, <1>3, RequestShape DEF Types, MetInv

LEMMA NextLayerStep == Types /\ MetInv /\ NextLayer => Types' /\ MetInv'
<1> SUFFICES ASSUME Types, MetInv, NextLayer PROVE Types' /\ MetInv'
  OBVIOUS
<1>1. /\ pc = "minimums" /\ ~Deficient
      /\ UNCHANGED <<request, chosen>>
      /\ \/ layer = Len(request.widths) /\ pc' = "finish" /\ layer' = layer
         \/ layer # Len(request.widths) /\ layer' = layer + 1 /\ pc' = pc
  BY DEF NextLayer
<1>2. Types'
  BY <1>1 DEF Types
<1>3. ASSUME request.kind = "model" PROVE MetInv'
  <2>1. layer \in Layer /\ \A l \in Layer : l < layer => Met(l)
    BY <1>1, <1>3 DEF MetInv
  <2>2. Met(layer)
    BY <1>1, <1>3, <2>1, SelectedFinite, RequestShape
       DEF Deficient, Met, Types
  <2>3. Layer' = Layer /\ \A l \in Layer : Met(l)' = Met(l)
    BY <1>1 DEF Layer, Met, Selected, Of
  <2> QED
    BY <1>1, <2>1, <2>2, <2>3, RequestShape DEF MetInv, Types
<1> QED
  BY <1>1, <1>2, <1>3 DEF MetInv

\* A swap takes one channel from a layer that has one to spare.
LEMMA SwapKeepsMinimums ==
  ASSUME Types, request.kind = "model", NEW bit \in Upgraded,
         NEW out \in Donors(bit), NEW in,
         chosen' = [chosen EXCEPT ![bit] = (@ \ {out}) \cup {in}],
         request' = request, NEW l \in Layer, Met(l)
  PROVE  Met(l)'
<1> DEFINE old == (chosen[8] \cup chosen[16]) \cap Of(l)
           new == (chosen'[8] \cup chosen'[16]) \cap Of(l)
<1>1. /\ IsFiniteSet(Of(l)) /\ Selected(l) = Cardinality(old)
      /\ Selected(l)' = Cardinality(new)
  BY SelectedFinite DEF Types, Selected, Of
<1>2. IsFiniteSet(old) /\ IsFiniteSet(new)
  BY <1>1, FS_Subset
<1>3. old \ {out} \subseteq new
  BY DEF Types, Levels, Upgraded
<1>4. CASE out \in Of(l)
  <2>1. out[1] = l
    BY <1>4 DEF Of
  <2>2. Cardinality(old) > request.minimums[l]
    BY <1>1, <2>1 DEF Donors
  <2>3. Cardinality(old \ {out}) >= Cardinality(old) - 1
    <3>1. Cardinality(old) \in Nat
      BY <1>2, FS_CardinalityType
    <3>2. Cardinality(old \ {out}) =
            IF out \in old THEN Cardinality(old) - 1 ELSE Cardinality(old)
      BY <1>2, FS_RemoveElement
    <3> QED
      BY <3>1, <3>2
  <2>4. Cardinality(old \ {out}) <= Cardinality(new)
    BY <1>2, <1>3, FS_Subset
  <2>5. /\ Cardinality(old) \in Nat /\ Cardinality(new) \in Nat
        /\ Cardinality(old \ {out}) \in Nat /\ request.minimums[l] \in Nat
    BY <1>2, FS_Subset, FS_CardinalityType, RequestShape DEF Types
  <2> QED
    BY <1>1, <2>2, <2>3, <2>4, <2>5 DEF Met
<1>5. CASE out \notin Of(l)
  <2>1. old \subseteq new
    BY <1>3, <1>5
  <2>2. Cardinality(old) <= Cardinality(new)
    BY <1>2, <2>1, FS_Subset
  <2>3. /\ Cardinality(old) \in Nat /\ Cardinality(new) \in Nat
        /\ request.minimums[l] \in Nat
    BY <1>2, FS_CardinalityType, RequestShape DEF Types
  <2> QED
    BY <1>1, <2>2, <2>3 DEF Met
<1> QED
  BY <1>4, <1>5

LEMMA SwapStep == Types /\ MetInv /\ Swap => Types' /\ MetInv'
<1> SUFFICES ASSUME Types, MetInv, Swap PROVE Types' /\ MetInv'
  OBVIOUS
<1>1. /\ pc = "minimums" /\ pc' \in {"failed", "minimums"}
      /\ request' = request /\ layer' = layer
  BY DEF Swap
<1>2. Types'
  <2>1. DOMAIN chosen' = Levels
    BY DEF Swap, Types
  <2> QED
    BY <1>1, <2>1 DEF Types
<1>3. CASE pc' = "failed"
  BY <1>2, <1>3 DEF MetInv
<1>4. CASE pc' = "minimums"
  <2>1. PICK c \in Candidates : \E out \in Donors(c[2]) :
          chosen' = [chosen EXCEPT ![c[2]] = (@ \ {out}) \cup {c[1]}]
    BY <1>4 DEF Swap
  <2>2. c[2] \in Upgraded
    BY DEF Candidates
  <2>3. PICK out \in Donors(c[2]) :
          chosen' = [chosen EXCEPT ![c[2]] = (@ \ {out}) \cup {c[1]}]
    BY <2>1
  <2>4. Layer' = Layer
    BY <1>1 DEF Layer
  <2>5. ASSUME request.kind = "model"
        PROVE  layer \in Layer /\ \A l \in Layer : l < layer => Met(l)'
    BY <1>1, <2>2, <2>3, <2>5, SwapKeepsMinimums DEF MetInv
  <2> QED
    BY <1>1, <1>2, <1>4, <2>4, <2>5 DEF MetInv
<1> QED
  BY <1>1, <1>3, <1>4

LEMMA FinishStep == Types /\ MetInv /\ Finish => Types' /\ MetInv'
<1> SUFFICES ASSUME Types, MetInv, Finish PROVE Types' /\ MetInv'
  OBVIOUS
<1>1. /\ pc = "finish" /\ pc' \in {"failed", "done"} /\ request' = request
      /\ DOMAIN chosen' = Levels
      /\ chosen'[8] = chosen[8] /\ chosen'[16] = chosen[16]
  BY DEF Finish, Types, Levels
<1>2. Layer' = Layer /\ \A l \in Layer : Met(l)' = Met(l)
  BY <1>1 DEF Layer, Met, Selected, Of
<1> QED
  BY <1>1, <1>2 DEF Types, MetInv

LEMMA InvNext == Types /\ MetInv /\ [Next]_vars => Types' /\ MetInv'
<1> SUFFICES ASSUME Types, MetInv, [Next]_vars PROVE Types' /\ MetInv'
  OBVIOUS
<1>1. CASE Upgrade
  <2>1. pc = "upgrade" /\ pc' = pc /\ request' = request
    BY <1>1 DEF Upgrade
  <2>2. DOMAIN chosen' = Levels
    BY <1>1 DEF Upgrade, Types
  <2> QED
    BY <2>1, <2>2 DEF Types, MetInv
<1>2. CASE Report
  <2>1. /\ pc = "upgrade" /\ pc' \in {"done", "failed"} /\ request' = request
        /\ chosen' = chosen
    BY <1>2 DEF Report
  <2> QED
    BY <2>1 DEF Types, MetInv
<1>3. CASE UNCHANGED vars
  BY <1>3 DEF vars, Types, MetInv, Layer, Met, Selected, Of
<1> QED
  BY <1>1, <1>2, <1>3, RankStep, NextLayerStep, SwapStep, FinishStep DEF Next

\* Whatever the layers, the budget and the gains, an allocation that is
\* returned gives every layer its minimum (allocate_model_channels).
THEOREM EveryMinimumMet == Spec => []MinimumsMet
<1>1. Types /\ MetInv => MinimumsMet
  BY DEF Types, MetInv, MinimumsMet, Met
<1> QED
  BY <1>1, InitInv, InvNext, PTL DEF Spec

(***************************************************************************)
(* Rounding: whole blocks, what they leave, and who gets it.               *)
(***************************************************************************)
\* What an order of the precisions puts first, second and third.
LEMMA OrderOfThree ==
  ASSUME NEW o \in [1 .. 3 -> Levels], {o[i] : i \in 1 .. 3} = Levels
  PROVE  /\ o[1] \in Levels /\ o[2] \in Levels /\ o[3] \in Levels
         /\ o[1] # o[2] /\ o[1] # o[3] /\ o[2] # o[3]
         /\ \A bit \in Levels : bit = o[1] \/ bit = o[2] \/ bit = o[3]
<1>1. /\ o[1] \in Levels /\ o[2] \in Levels /\ o[3] \in Levels
      /\ \A bit \in Levels : bit = o[1] \/ bit = o[2] \/ bit = o[3]
  <2>1. \A bit \in Levels : \E i \in 1 .. 3 : o[i] = bit
    OBVIOUS
  <2>2. \A i \in 1 .. 3 : i = 1 \/ i = 2 \/ i = 3
    OBVIOUS
  <2> QED BY <2>1, <2>2
<1>2. o[1] # o[2] /\ o[1] # o[3] /\ o[2] # o[3]
  BY <1>1 DEF Levels
<1> QED BY <1>1, <1>2

\* The first n precisions of an order, for the n a division of three leaves.
LEMMA FirstOfOrder ==
  ASSUME NEW o, NEW n \in 0 .. 2, NEW bit
  PROVE  (\E i \in 1 .. n : o[i] = bit) <=>
           \/ n = 1 /\ bit = o[1]
           \/ n = 2 /\ (bit = o[1] \/ bit = o[2])
<1>1. CASE n = 0
  BY <1>1
<1>2. CASE n = 1
  <2>1. 1 \in 1 .. n /\ \A i \in 1 .. n : i = 1
    BY <1>2
  <2> QED BY <1>2, <2>1
<1>3. CASE n = 2
  <2>1. 1 \in 1 .. n /\ 2 \in 1 .. n /\ \A i \in 1 .. n : i = 1 \/ i = 2
    BY <1>3
  <2> QED BY <1>3, <2>1
<1> QED BY <1>1, <1>2, <1>3

LEMMA RequestNumbers ==
  ASSUME request \in Requests
  PROVE  /\ request.alignment \in Nat \ {0}
         /\ request.kind # "bits" => IsBudget(request.budget)
         /\ request.kind = "bits" =>
              request.average \in Nat /\ 400 <= request.average
         /\ request.kind \in {"layer", "model", "bits"}
<1>1. /\ request.alignment \in Alignments
      /\ request.kind \in {"layer", "model", "bits"}
      /\ request.kind # "bits" => request.budget \in Budgets
      /\ request.kind = "bits" => request.average \in Averages
  BY DEF Requests
<1>2. request.kind # "bits" => IsBudget(request.budget)
  BY <1>1, BudgetsAssumption, Zenon
<1>3. request.alignment \in Nat \ {0}
  BY <1>1, InputsAssumption
<1>4. request.kind = "bits" =>
        request.average \in Nat /\ 400 <= request.average
  BY <1>1, InputsAssumption
<1> QED BY <1>1, <1>2, <1>3, <1>4, Zenon

\* The channels are finitely many, and there is one.
LEMMA ChannelsFinite ==
  ASSUME request \in Requests
  PROVE  /\ IsFiniteSet(Channels) /\ Total \in Nat \ {0}
         /\ \A x \in Channels :
              /\ x = <<x[1], x[2]>> /\ x[1] \in Layer /\ x[2] \in Nat
              /\ x \in Of(x[1])
         /\ request.kind # "layer" => \A l \in Layer : Of(l) \subseteq Channels
         /\ request.kind = "layer" => Channels = Of(1)
<1> DEFINE L == IF request.kind = "layer" THEN {1} ELSE Layer
           f == [l \in L |-> Of(l)]
<1>1. L \subseteq Layer /\ Layer \subseteq Nat /\ 1 \in L
  BY RequestShape
<1>2. IsFiniteSet(Layer)
  <2>1. Layer = 1 .. Len(request.widths) /\ Len(request.widths) \in Int
    BY RequestShape
  <2> QED BY <2>1, FS_Interval
<1>3. IsFiniteSet(L)
  BY <1>1, <1>2, FS_Subset
<1>4. IsFiniteSet({Of(l) : l \in L})
  <2>1. f \in Surjection(L, {Of(l) : l \in L})
    BY DEF Surjection
  <2> QED BY <1>3, <2>1, FS_Surjection
<1>5. \A l \in L : IsFiniteSet(Of(l))
  BY <1>1, SelectedFinite
<1>6. IsFiniteSet(Channels)
  BY <1>4, <1>5, FS_UNION DEF Channels
<1>7. <<1, 0>> \in Channels
  <2>1. request.widths[1] \in Nat \ {0}
    BY <1>1, RequestShape DEF Layer
  <2> QED BY <1>1, <2>1 DEF Channels, Of
<1>8. Total \in Nat \ {0}
  BY <1>6, <1>7, FS_CardinalityType, FS_EmptySet DEF Total
<1>9. \A x \in Channels : \E l \in L : x \in Of(l)
  BY DEF Channels
<1>10. \A l \in L : \A x \in Of(l) :
         x = <<x[1], x[2]>> /\ x[1] = l /\ x[2] \in Nat
  BY DEF Of
<1>11. \A l \in L : Of(l) \subseteq Channels
  BY DEF Channels
<1>12. request.kind = "layer" => Channels = Of(1)
  BY DEF Channels
<1> HIDE DEF L
<1>13. request.kind # "layer" => L = Layer
  BY DEF L
<1> QED BY <1>1, <1>6, <1>8, <1>9, <1>10, <1>11, <1>12, <1>13

\* One precision: whole blocks and less than a block of hundredths.
LEMMA WholeBlocks ==
  ASSUME request \in Requests, request.kind # "bits", NEW bit \in Levels
  PROVE  /\ Share(bit) \in Nat
         /\ Blocks(bit) * request.alignment \in Nat
         /\ 100 * (Blocks(bit) * request.alignment) <= Share(bit)
         /\ Share(bit) < 100 * (Blocks(bit) * request.alignment)
                           + 100 * request.alignment
<1> DEFINE a == request.alignment
           x == Share(bit)
           d == 100 * a
           k == x \div d
           m == k * a
<1>1. a \in Nat \ {0} /\ request.budget[bit] \in Nat /\ Total \in Nat
  BY ChannelsFinite, RequestNumbers DEF IsBudget
<1>2. x \in Nat
  BY <1>1, Product DEF Share
<1>3. k = Blocks(bit)
  BY DEF Blocks
<1> HIDE DEF a, x
<1>4. d \in Nat \ {0}
  BY <1>1
<1>5. k \in Nat /\ x % d \in 0 .. (d - 1) /\ x = d * k + (x % d)
  <2> HIDE DEF d
  <2> QED BY <1>2, <1>4, Division
<1> HIDE DEF k
<1>6. d * k = 100 * m /\ m \in Nat
  BY <1>1, <1>5, Product
<1> HIDE DEF m
<1>7. 100 * m <= x /\ x < 100 * m + d
  BY <1>2, <1>4, <1>5, <1>6
<1>8. m = Blocks(bit) * a
  BY <1>3 DEF m
<1> QED BY <1>2, <1>6, <1>7, <1>8 DEF a, x

\* The blocks of the three precisions together, and what they leave: less than
\* three blocks.
LEMMA RestInBlocks ==
  ASSUME request \in Requests, request.kind # "bits",
         NEW base, base = [bit \in Levels |-> Blocks(bit) * request.alignment],
         NEW rest, rest = Total - (base[4] + base[8] + base[16])
  PROVE  /\ base \in [Levels -> Nat]
         /\ rest \in Nat
         /\ rest \div request.alignment \in 0 .. 2
         /\ rest % request.alignment \in Nat
         /\ rest = request.alignment * (rest \div request.alignment)
                     + (rest % request.alignment)
<1> DEFINE a == request.alignment
<1>1. /\ Total \in Nat /\ a \in Nat \ {0}
      /\ 4 \in Levels /\ 8 \in Levels /\ 16 \in Levels
  BY ChannelsFinite, RequestNumbers DEF Levels
<1>2. Share(4) + Share(8) + Share(16) = 100 * Total
  <2> DEFINE b == request.budget
  <2>1. b[4] \in Nat /\ b[8] \in Nat /\ b[16] \in Nat /\ b[4] + b[8] + b[16] = 100
    BY <1>1, RequestNumbers DEF IsBudget
  <2>2. Share(4) + Share(8) + Share(16) = Total * b[4] + Total * b[8] + Total * b[16]
    BY DEF Share
  <2> HIDE DEF b
  <2>3. Total * b[4] + Total * b[8] + Total * b[16] = Total * (b[4] + b[8] + b[16])
    BY <1>1, <2>1
  <2>4. Total * (b[4] + b[8] + b[16]) = 100 * Total
    BY <1>1, <2>1
  <2> QED BY <2>2, <2>3, <2>4
<1>3. \A bit \in Levels :
        /\ Share(bit) \in Nat /\ base[bit] \in Nat
        /\ 100 * base[bit] <= Share(bit)
        /\ Share(bit) < 100 * base[bit] + 100 * a
  BY WholeBlocks
<1>4. base \in [Levels -> Nat]
  BY <1>3
<1> HIDE DEF a
<1>5. rest \in Nat /\ rest < a * 3
  BY <1>1, <1>2, <1>3
<1> DEFINE k == rest \div a
<1>6. k \in Nat /\ rest % a \in Nat /\ rest = a * k + (rest % a)
  <2>1. rest \in Nat /\ a \in Nat \ {0}
    BY <1>1, <1>5
  <2>2. k \in Nat /\ rest % a \in 0 .. (a - 1) /\ rest = a * k + (rest % a)
    BY <2>1, Division
  <2> QED BY <2>1, <2>2
<1> HIDE DEF k
<1>7. a * k \in Nat
  BY <1>1, <1>6, Product
<1>8. a * k < a * 3
  BY <1>1, <1>5, <1>6, <1>7
<1>9. k < 3
  BY <1>1, <1>6, <1>8, Quotient
<1>10. k \in 0 .. 2
  BY <1>6, <1>9
<1> QED BY <1>4, <1>5, <1>6, <1>10 DEF k, a

\* Rounding loses no channel and invents none.
LEMMA RoundedCountsSum ==
  ASSUME request \in Requests, request.kind # "bits", NEW c \in RoundedCounts
  PROVE  c \in [Levels -> Nat] /\ c[4] + c[8] + c[16] = Total
<1> DEFINE a == request.alignment
           base == [bit \in Levels |-> Blocks(bit) * a]
           rest == Total - (base[4] + base[8] + base[16])
           n == rest \div a
           tail == rest % a
<1>1. Total \in Nat /\ a \in Nat
  BY ChannelsFinite, RequestNumbers
<1>2. /\ base \in [Levels -> Nat] /\ rest \in Nat /\ n \in 0 .. 2
      /\ tail \in Nat /\ rest = a * n + tail
  BY RestInBlocks
<1>3. PICK o \in [1 .. 3 -> Levels] :
        /\ {o[i] : i \in 1 .. 3} = Levels
        /\ c = [bit \in Levels |->
                  base[bit] + (IF \E i \in 1 .. n : o[i] = bit THEN a ELSE 0)
                            + (IF o[1] = bit THEN tail ELSE 0)]
  BY DEF RoundedCounts, Orders
<1> HIDE DEF a, base, n, tail
<1>4. base[4] \in Nat /\ base[8] \in Nat /\ base[16] \in Nat
  BY <1>2 DEF Levels
<1>5. Total = base[4] + base[8] + base[16] + rest
  BY <1>1, <1>2, <1>4
<1> HIDE DEF rest
<1> DEFINE given(bit) == IF \/ n = 1 /\ bit = o[1]
                            \/ n = 2 /\ (bit = o[1] \/ bit = o[2])
                           THEN a ELSE 0
           last(bit)  == IF o[1] = bit THEN tail ELSE 0
<1>6. /\ c = [bit \in Levels |-> c[bit]]
      /\ \A bit \in Levels : c[bit] = base[bit] + given(bit) + last(bit)
  BY <1>2, <1>3, FirstOfOrder
<1>7. \A bit \in Levels : given(bit) \in Nat /\ last(bit) \in Nat
  BY <1>1, <1>2
<1>8. given(4) + given(8) + given(16) = a * n /\ last(4) + last(8) + last(16) = tail
  <2>1. /\ o[1] \in {4, 8, 16} /\ o[2] \in {4, 8, 16} /\ o[3] \in {4, 8, 16}
        /\ o[1] # o[2]
    BY <1>3, OrderOfThree DEF Levels
  <2>2. CASE n = 0
    BY <1>1, <1>2, <2>1, <2>2
  <2>3. CASE n = 1
    BY <1>1, <1>2, <2>1, <2>3
  <2>4. CASE n = 2
    BY <1>1, <1>2, <2>1, <2>4
  <2> QED BY <1>2, <2>2, <2>3, <2>4
<1> DEFINE all == a * n
<1>9. all \in Nat /\ given(4) + given(8) + given(16) = all /\ rest = all + tail
  BY <1>1, <1>2, <1>8, Product
<1> HIDE DEF given, last, all
<1>10. c \in [Levels -> Nat]
  BY <1>2, <1>6, <1>7
<1>11. c[4] + c[8] + c[16] = base[4] + base[8] + base[16] + all + tail
  <2>1. /\ c[4] = base[4] + given(4) + last(4)
        /\ c[8] = base[8] + given(8) + last(8)
        /\ c[16] = base[16] + given(16) + last(16)
    BY <1>6 DEF Levels
  <2>2. /\ given(4) \in Nat /\ given(8) \in Nat /\ given(16) \in Nat
        /\ last(4) \in Nat /\ last(8) \in Nat /\ last(16) \in Nat
    BY <1>7 DEF Levels
  <2> QED BY <1>4, <1>8, <1>9, <2>1, <2>2
<1> QED BY <1>2, <1>4, <1>5, <1>9, <1>10, <1>11

(***************************************************************************)
(* Ranking.  Top takes as many channels as it is asked for, the first ones.*)
(***************************************************************************)
\* The pairs of S of which the first gains more.
Gains(bit, S) == {p \in S \X S : Before(bit, p[1], p[2])}

\* A set of channels that Before orders: any for a whole model, the channels of
\* one layer otherwise.
Rankable(S) ==
  /\ S \subseteq Channels
  /\ request.kind = "model" \/ \E l \in Layer : S \subseteq Of(l)

BenefitType == benefit \in [Upgraded -> [Channels -> Benefits]]

LEMMA GainsOrder ==
  ASSUME request \in Requests, BenefitType, NEW S, Rankable(S),
         NEW bit \in Upgraded
  PROVE  IsFiniteSet(S) /\ StrictOrder(Gains(bit, S), S)
<1>1. IsFiniteSet(S)
  BY ChannelsFinite, FS_Subset DEF Rankable
<1>2. \A x \in S : /\ benefit[bit][x] \in Int /\ x = <<x[1], x[2]>>
                   /\ x[1] \in Int /\ x[2] \in Int
  BY ChannelsFinite, RequestShape, InputsAssumption DEF Rankable, BenefitType
<1>3. request.kind = "model" \/ \A x, y \in S : x[1] = y[1]
  BY DEF Rankable, Of
<1>4. \A x, y \in S : <<x, y>> \in Gains(bit, S) <=> Before(bit, x, y)
  BY DEF Gains
<1>5. ASSUME NEW x \in S, NEW y \in S, NEW z \in S
      PROVE  /\ ~Before(bit, x, x)
             /\ x # y => Before(bit, x, y) \/ Before(bit, y, x)
             /\ Before(bit, x, y) /\ Before(bit, y, z) => Before(bit, x, z)
  <2>1. x # y => x[1] # y[1] \/ x[2] # y[2]
    BY <1>2
  <2>2. CASE request.kind = "model"
    BY <1>2, <2>1, <2>2 DEF Before
  <2>3. CASE request.kind # "model"
    BY <1>2, <1>3, <2>1, <2>3 DEF Before
  <2> QED BY <2>2, <2>3
<1> QED BY <1>1, <1>4, <1>5 DEF StrictOrder

LEMMA TopTakes ==
  ASSUME request \in Requests, BenefitType, NEW S, Rankable(S),
         NEW bit \in Upgraded, NEW n \in Nat, n <= Cardinality(S)
  PROVE  /\ Top(S, n, bit) \subseteq S
         /\ Cardinality(Top(S, n, bit)) = n
         /\ \A x \in S \ Top(S, n, bit), y \in Top(S, n, bit) : Before(bit, y, x)
<1> DEFINE R == Gains(bit, S)
           r == RankOf(R, S)
<1>1. IsFiniteSet(S) /\ StrictOrder(R, S)
  BY GainsOrder
<1>2. \A x \in S : r[x] = Cardinality({y \in S : Before(bit, y, x)})
  <2>1. \A x \in S : {y \in S : <<y, x>> \in R} = {y \in S : Before(bit, y, x)}
    BY DEF Gains
  <2> QED BY <2>1 DEF RankOf, Ahead
<1>3. Top(S, n, bit) = {x \in S : r[x] < n}
  BY <1>2 DEF Top
<1>4. \A x \in S : r[x] \in Nat
  <2>1. \A x \in S : r[x] \in 0 .. (Cardinality(S) - 1)
    BY <1>1, RankOrder, Zenon
  <2>2. Cardinality(S) \in Nat
    BY <1>1, FS_CardinalityType
  <2> QED BY <2>1, <2>2
<1>5. \A x, y \in S : <<x, y>> \in R => r[x] < r[y]
  BY <1>1, RankOrder
<1>6. Cardinality(Top(S, n, bit)) = n
  BY <1>1, <1>3, RankCount
<1>7. ASSUME NEW x \in S \ Top(S, n, bit), NEW y \in Top(S, n, bit)
      PROVE  Before(bit, y, x)
  <2>1. y \in S /\ r[y] < n /\ ~(r[x] < n)
    BY <1>3, <1>7
  <2>2. <<x, y>> \notin R
    BY <1>4, <1>5, <2>1
  <2>3. <<y, x>> \in R
    BY <1>1, <2>1, <2>2 DEF StrictOrder
  <2> QED BY <2>3 DEF Gains
<1> QED BY <1>3, <1>6, <1>7

(***************************************************************************)
(* The two functions that are given shares.  ExactCounts is not inductive: *)
(* what a swap moves must be known to stay outside the other precision,    *)
(* and the rounded counts to cover what the minimums call for.             *)
(***************************************************************************)
ChoiceInv ==
  /\ BenefitType
  /\ chosen \in [Levels -> SUBSET Channels]
  /\ request.kind = "bits" => pc \in {"upgrade", "done", "failed"}

SharesInv ==
  request.kind # "bits" =>
    /\ pc \in {"rank", "minimums", "finish"} => chosen[4] = {}
    /\ pc = "minimums" =>
         /\ request.kind = "model"
         /\ \A l \in Layer : request.minimums[l] <= request.widths[l]
         /\ Cardinality(Required) <= counts[8] + counts[16]
    /\ pc \in {"minimums", "finish", "done"} =>
         /\ counts \in [Levels -> Nat]
         /\ counts[4] + counts[8] + counts[16] = Total
         /\ chosen[8] \cap chosen[16] = {}
         /\ \A bit \in Upgraded : Cardinality(chosen[bit]) = counts[bit]
    /\ pc = "done" => chosen[4] = Channels \ (chosen[8] \cup chosen[16])

\* The places the minimums call for are finitely many.
LEMMA RequiredFinite ==
  ASSUME request \in Requests, request.kind = "model"
  PROVE  IsFiniteSet(Required) /\ Cardinality(Required) \in Nat
<1> DEFINE part(l) == {l} \X (1 .. request.minimums[l])
           f == [l \in Layer |-> part(l)]
<1>1. IsFiniteSet(Layer)
  <2>1. Layer = 1 .. Len(request.widths) /\ Len(request.widths) \in Int
    BY RequestShape
  <2> QED BY <2>1, FS_Interval
<1>2. f \in Surjection(Layer, {part(l) : l \in Layer})
  BY DEF Surjection
<1>3. IsFiniteSet({part(l) : l \in Layer})
  <2> HIDE DEF f
  <2> QED BY <1>1, <1>2, FS_Surjection
<1>4. ASSUME NEW l \in Layer PROVE IsFiniteSet(part(l))
  <2>1. IsFiniteSet(1 .. request.minimums[l])
    <3>1. request.minimums[l] \in Int
      BY RequestShape
    <3> QED BY <3>1, FS_Interval
  <2> QED BY <2>1, FS_Singleton, FS_Product
<1>5. IsFiniteSet(Required)
  BY <1>3, <1>4, FS_UNION DEF Required
<1> QED BY <1>5, FS_CardinalityType

\* What is not chosen for 8 or 16 bits, counted.
LEMMA RestCount ==
  ASSUME request \in Requests, chosen \in [Levels -> SUBSET Channels],
         chosen[8] \cap chosen[16] = {}
  PROVE  /\ Cardinality(chosen[8]) \in Nat /\ Cardinality(chosen[16]) \in Nat
         /\ IsFiniteSet(chosen[8]) /\ IsFiniteSet(chosen[16])
         /\ Cardinality(chosen[8] \cup chosen[16])
              = Cardinality(chosen[8]) + Cardinality(chosen[16])
         /\ Cardinality(Channels \ (chosen[8] \cup chosen[16]))
              = Total - Cardinality(chosen[8]) - Cardinality(chosen[16])
<1>1. IsFiniteSet(Channels) /\ Total = Cardinality(Channels) /\ Total \in Nat
  BY ChannelsFinite DEF Total
<1>2. chosen[8] \subseteq Channels /\ chosen[16] \subseteq Channels
  BY DEF Levels
<1>3. /\ IsFiniteSet(chosen[8]) /\ IsFiniteSet(chosen[16])
      /\ Cardinality(chosen[8]) \in Nat /\ Cardinality(chosen[16]) \in Nat
  BY <1>1, <1>2, FS_Subset, FS_CardinalityType
<1>4. Cardinality(chosen[8] \cup chosen[16])
        = Cardinality(chosen[8]) + Cardinality(chosen[16])
  <2>1. Cardinality(chosen[8] \cup chosen[16])
          = Cardinality(chosen[8]) + Cardinality(chosen[16])
              - Cardinality(chosen[8] \cap chosen[16])
    BY <1>3, FS_Union
  <2>2. Cardinality(chosen[8] \cap chosen[16]) = 0
    BY FS_EmptySet
  <2> QED BY <1>3, <2>1, <2>2
<1>5. Cardinality(Channels \ (chosen[8] \cup chosen[16]))
        = Total - Cardinality(chosen[8] \cup chosen[16])
  <2>1. Channels \cap (chosen[8] \cup chosen[16]) = chosen[8] \cup chosen[16]
    BY <1>2
  <2> QED BY <1>1, <2>1, FS_Difference
<1> QED BY <1>1, <1>3, <1>4, <1>5

LEMMA RankShares ==
  ASSUME Types, ChoiceInv, SharesInv, Rank PROVE ChoiceInv' /\ SharesInv'
<1>1. /\ pc = "rank" /\ UNCHANGED <<request, benefit>>
      /\ request \in Requests
      /\ request.kind # "bits" => chosen[4] = {}
  BY DEF Rank, Types, SharesInv
<1>2. Channels' = Channels /\ Total' = Total /\ Layer' = Layer /\ Required' = Required
  BY <1>1 DEF Channels, Total, Layer, Of, Required
<1>3. CASE pc' = "refused" /\ UNCHANGED <<counts, chosen>>
  BY <1>1, <1>2, <1>3 DEF ChoiceInv, BenefitType, SharesInv
<1>4. ASSUME NEW c \in RoundedCounts, ~Malformed, ~TooManyRequired(c),
             NEW fp16, fp16 = Top(Channels, c[16], 16),
             counts' = c,
             chosen' = [chosen EXCEPT
               ![16] = fp16, ![8] = Top(Channels \ fp16, c[8], 8)],
             pc' = IF request.kind = "model" THEN "minimums" ELSE "finish"
      PROVE  ChoiceInv' /\ SharesInv'
  <2>1. ASSUME request.kind = "bits" PROVE FALSE
    BY <1>1, <2>1 DEF ChoiceInv
  <2>2. c \in [Levels -> Nat] /\ c[4] + c[8] + c[16] = Total
    BY <1>1, <2>1, RoundedCountsSum
  <2>3. /\ c[4] \in Nat /\ c[8] \in Nat /\ c[16] \in Nat
        /\ IsFiniteSet(Channels) /\ Total = Cardinality(Channels)
    BY <1>1, <2>2, ChannelsFinite DEF Levels, Total
  <2>4. \A S \in SUBSET Channels : Rankable(S)
    BY <1>1, <2>1, ChannelsFinite, RequestShape, RequestNumbers DEF Rankable
  <2>5. fp16 \subseteq Channels /\ Cardinality(fp16) = c[16]
    <3>1. Rankable(Channels) /\ 16 \in Upgraded /\ c[16] <= Cardinality(Channels)
      BY <2>2, <2>3, <2>4 DEF Upgraded
    <3> QED BY <1>1, <1>4, <2>3, <3>1, TopTakes DEF ChoiceInv
  <2>6. Cardinality(Channels \ fp16) = Total - c[16]
    <3>1. Channels \cap fp16 = fp16
      BY <2>5
    <3>2. Cardinality(Channels \ fp16)
            = Cardinality(Channels) - Cardinality(Channels \cap fp16)
      BY <2>3, FS_Difference
    <3> QED BY <2>3, <2>5, <3>1, <3>2
  <2> DEFINE int8 == Top(Channels \ fp16, c[8], 8)
  <2>7. int8 \subseteq Channels \ fp16 /\ Cardinality(int8) = c[8]
    <3>1. /\ Rankable(Channels \ fp16) /\ 8 \in Upgraded
          /\ c[8] <= Cardinality(Channels \ fp16)
      BY <2>2, <2>3, <2>4, <2>6 DEF Upgraded
    <3> QED BY <1>1, <2>3, <3>1, TopTakes DEF ChoiceInv
  <2> HIDE DEF int8
  <2>8. /\ chosen'[16] = fp16 /\ chosen'[8] = int8 /\ chosen'[4] = {}
        /\ chosen' \in [Levels -> SUBSET Channels]
    <3>1. chosen \in [Levels -> SUBSET Channels] /\ chosen[4] = {}
      BY <1>1, <2>1 DEF ChoiceInv
    <3>2. chosen' = [chosen EXCEPT ![16] = fp16, ![8] = int8]
      BY <1>4 DEF int8
    <3>3. fp16 \in SUBSET Channels /\ int8 \in SUBSET Channels
      BY <2>5, <2>7
    <3> QED BY <3>1, <3>2, <3>3 DEF Levels
  <2>9. request.kind = "model" =>
          /\ Cardinality(Required) <= c[8] + c[16]
          /\ \A l \in Layer : request.minimums[l] <= request.widths[l]
    <3>1. request.kind = "model" => ~(Cardinality(Required) > c[8] + c[16])
      BY <1>4 DEF TooManyRequired
    <3>2. request.kind = "model" =>
            \A l \in Layer : ~(request.minimums[l] > request.widths[l])
      BY <1>4 DEF Malformed
    <3>3. \A l \in Layer : request.widths[l] \in Int
      BY <1>1, RequestShape DEF Layer
    <3>4. request.kind = "model" => Cardinality(Required) \in Int
      BY <1>1, RequiredFinite
    <3>5. request.kind = "model" => \A l \in Layer : request.minimums[l] \in Int
      BY <1>1, RequestShape
    <3>6. request.kind = "model" =>
            \A l \in Layer : request.minimums[l] <= request.widths[l]
      BY <3>2, <3>3, <3>5
    <3> QED BY <2>3, <3>1, <3>4, <3>6
  <2>10. ChoiceInv'
    BY <1>1, <1>2, <2>8 DEF ChoiceInv, BenefitType
  <2>11. \A bit \in Upgraded : Cardinality(chosen'[bit]) = c[bit]
    BY <2>5, <2>7, <2>8 DEF Upgraded
  <2>12. chosen'[8] \cap chosen'[16] = {}
    BY <2>7, <2>8
  <2> QED
    BY <1>1, <1>2, <1>4, <2>2, <2>8, <2>9, <2>10, <2>11, <2>12 DEF SharesInv
<1> QED BY <1>3, <1>4 DEF Rank

LEMMA LayerWidth ==
  ASSUME request \in Requests, NEW l \in Layer
  PROVE  Cardinality(Of(l)) = request.widths[l] /\ request.widths[l] \in Nat
<1> DEFINE w == request.widths[l]
<1>1. w \in Nat \ {0}
  BY RequestShape DEF Layer
<1> HIDE DEF w
<1>2. IsFiniteSet(0 .. (w - 1)) /\ Cardinality(0 .. (w - 1)) = w
  BY <1>1, FS_Interval
<1>3. IsFiniteSet({l}) /\ Cardinality({l}) = 1
  BY FS_Singleton
<1>4. Cardinality({l} \X (0 .. (w - 1))) = 1 * w
  BY <1>2, <1>3, FS_Product
<1> QED BY <1>1, <1>4 DEF Of, w

\* The channels of one layer that have more than 4 bits, by their index.
Above(l)   == (chosen[8] \cup chosen[16]) \cap Of(l)
ByIndex(l) == {p \in Above(l) \X Above(l) : p[1][2] < p[2][2]}

LEMMA IndexOrder ==
  ASSUME request \in Requests, NEW l \in Layer
  PROVE  /\ IsFiniteSet(Above(l)) /\ Selected(l) = Cardinality(Above(l))
         /\ StrictOrder(ByIndex(l), Above(l))
<1>1. IsFiniteSet(Above(l)) /\ Selected(l) = Cardinality(Above(l))
  BY SelectedFinite, FS_Subset DEF Above, Selected
<1>2. \A x \in Above(l) : x = <<x[1], x[2]>> /\ x[1] = l /\ x[2] \in Int
  BY DEF Above, Of
<1>3. \A x, y \in Above(l) : <<x, y>> \in ByIndex(l) <=> x[2] < y[2]
  BY DEF ByIndex
<1> QED BY <1>1, <1>2, <1>3 DEF StrictOrder

\* A layer below its minimum finds a donor: otherwise no layer had more than its
\* minimum, and all of them fewer channels than the minimums call for.
LEMMA DonorsExist ==
  ASSUME request \in Requests, request.kind = "model",
         chosen \in [Levels -> SUBSET Channels], chosen[8] \cap chosen[16] = {},
         layer \in Layer, Deficient,
         \A l \in Layer : request.minimums[l] <= request.widths[l],
         Cardinality(Required) <= Cardinality(chosen[8]) + Cardinality(chosen[16])
  PROVE  Candidates # {}
<1> DEFINE up == chosen[8] \cup chosen[16]
           min(l) == request.minimums[l]
<1>1. /\ IsFiniteSet(up) /\ Cardinality(up) \in Nat
      /\ Cardinality(Required) <= Cardinality(up)
      /\ up \subseteq Channels
  BY RestCount, FS_Union, FS_CardinalityType DEF Levels
<1>2. \A l \in Layer : Selected(l) \in Nat /\ min(l) \in Nat
  BY SelectedFinite, RequestShape
<1>3. Selected(layer) < min(layer)
  BY DEF Deficient
<1>4. PICK x \in Of(layer) : x \notin up
  <2> SUFFICES ASSUME Of(layer) \subseteq up PROVE FALSE
    OBVIOUS
  <2>1. up \cap Of(layer) = Of(layer)
    OBVIOUS
  <2>2. Selected(layer) = request.widths[layer]
    BY <2>1, LayerWidth DEF Selected
  <2> QED BY <1>2, <1>3, <2>2, LayerWidth
<1>5. \E y \in up : Selected(y[1]) > min(y[1])
  <2> SUFFICES ASSUME \A y \in up : ~(Selected(y[1]) > min(y[1]))
               PROVE  FALSE
    OBVIOUS
  <2>1. \A y \in up : y[1] \in Layer /\ y \in Above(y[1])
    BY <1>1, ChannelsFinite DEF Above
  <2> DEFINE rank(y) == RankOf(ByIndex(y[1]), Above(y[1]))[y]
             place   == [y \in up |-> <<y[1], 1 + rank(y)>>]
             spare   == <<layer, min(layer)>>
  <2>2. ASSUME NEW y \in up
        PROVE  rank(y) \in Nat /\ rank(y) < Selected(y[1])
    <3>1. /\ rank(y) \in 0 .. (Cardinality(Above(y[1])) - 1)
          /\ Selected(y[1]) = Cardinality(Above(y[1]))
      BY <2>1, IndexOrder, RankOrder
    <3>2. Selected(y[1]) \in Nat
      BY <1>2, <2>1
    <3> HIDE DEF rank
    <3> QED BY <3>1, <3>2
  <2>3. ASSUME NEW y \in up, NEW z \in up, y[1] = z[1], rank(y) = rank(z)
        PROVE  y = z
    <3>1. /\ RankOf(ByIndex(y[1]), Above(y[1]))
               \in Injection(Above(y[1]), 0 .. (Cardinality(Above(y[1])) - 1))
          /\ y \in Above(y[1]) /\ z \in Above(y[1])
      BY <2>1, <2>3, IndexOrder, RankBijection
    <3> QED BY <2>3, <3>1 DEF Injection, IsInjective
  <2>4. ASSUME NEW y \in up
        PROVE  place[y] \in Required \ {spare}
    <3>1. /\ y[1] \in Layer /\ rank(y) \in Nat /\ rank(y) < Selected(y[1])
          /\ Selected(y[1]) <= min(y[1]) /\ Selected(y[1]) \in Nat
          /\ min(y[1]) \in Nat
      BY <1>2, <2>1, <2>2
    <3> HIDE DEF rank
    <3>2. 1 + rank(y) \in 1 .. min(y[1])
      BY <3>1
    <3>3. place[y] = <<y[1], 1 + rank(y)>>
      OBVIOUS
    <3>4. place[y] \in {y[1]} \X (1 .. min(y[1]))
      BY <3>2, <3>3
    <3>5. place[y] \in Required
      BY <3>1, <3>4 DEF Required
    <3>6. y[1] = layer => 1 + rank(y) # min(layer)
      BY <1>3, <3>1
    <3> QED BY <3>3, <3>5, <3>6
  <2>5. place \in Injection(up, Required \ {spare})
    <3>1. place \in [up -> Required \ {spare}]
      BY <2>4
    <3>2. \A y, z \in up : place[y] = place[z] => y = z
      <4> SUFFICES ASSUME NEW y \in up, NEW z \in up, place[y] = place[z]
                   PROVE  y = z
        OBVIOUS
      <4>1. y[1] = z[1] /\ 1 + rank(y) = 1 + rank(z)
        <5> HIDE DEF rank
        <5> QED OBVIOUS
      <4>2. rank(y) \in Nat /\ rank(z) \in Nat
        BY <2>2
      <4> HIDE DEF rank
      <4>3. rank(y) = rank(z)
        BY <4>1, <4>2
      <4> QED BY <2>3, <4>1, <4>3
    <3> QED BY <3>1, <3>2 DEF Injection, IsInjective
  <2>6. spare \in Required
    <3>1. min(layer) \in 1 .. min(layer)
      BY <1>2, <1>3
    <3> QED BY <3>1 DEF Required
  <2> HIDE DEF spare, place
  <2>7. /\ IsFiniteSet(Required) /\ Cardinality(Required) \in Nat
        /\ IsFiniteSet(Required \ {spare})
        /\ Cardinality(Required \ {spare}) = Cardinality(Required) - 1
    BY <2>6, RequiredFinite, FS_RemoveElement
  <2>8. Cardinality(up) <= Cardinality(Required \ {spare})
    BY <2>5, <2>7, FS_Injection
  <2> QED BY <1>1, <2>7, <2>8
<1>6. PICK y \in up : Selected(y[1]) > min(y[1])
  BY <1>5
<1>7. PICK bit \in Upgraded : y \in chosen[bit]
  BY <1>6 DEF Upgraded
<1>8. y \in Donors(bit)
  BY <1>6, <1>7 DEF Donors
<1>9. <<x, bit>> \in Candidates
  BY <1>4, <1>7, <1>8 DEF Candidates
<1> QED BY <1>9

LEMMA SwapShares ==
  ASSUME Types, MetInv, ChoiceInv, SharesInv, Swap
  PROVE  ChoiceInv' /\ SharesInv' /\ pc' = "minimums"
<1>1. /\ pc = "minimums" /\ Deficient
      /\ UNCHANGED <<request, benefit, counts, layer>>
      /\ request.kind = "model" /\ request \in Requests
      /\ chosen \in [Levels -> SUBSET Channels]
  <2>1. request.kind # "bits"
    BY DEF Swap, ChoiceInv
  <2> QED BY <2>1 DEF Swap, Types, ChoiceInv, SharesInv
<1>2. /\ chosen[4] = {} /\ chosen[8] \cap chosen[16] = {}
      /\ \A l \in Layer : request.minimums[l] <= request.widths[l]
      /\ Cardinality(Required) <= counts[8] + counts[16]
      /\ counts \in [Levels -> Nat] /\ counts[4] + counts[8] + counts[16] = Total
      /\ Cardinality(chosen[8]) = counts[8] /\ Cardinality(chosen[16]) = counts[16]
  BY <1>1 DEF SharesInv, Upgraded
<1>3. layer \in Layer
  BY <1>1 DEF MetInv
<1>4. Candidates # {}
  BY <1>1, <1>2, <1>3, DonorsExist
<1>5. PICK c \in Candidates : \E out \in Donors(c[2]) :
        /\ pc' = pc
        /\ chosen' = [chosen EXCEPT ![c[2]] = (@ \ {out}) \cup {c[1]}]
  BY <1>4 DEF Swap
<1>5a. PICK out \in Donors(c[2]) :
         /\ pc' = pc
         /\ chosen' = [chosen EXCEPT ![c[2]] = (@ \ {out}) \cup {c[1]}]
  BY <1>5
<1> DEFINE bit == c[2]
           in  == c[1]
<1>6. /\ bit \in Upgraded /\ in \in Channels
      /\ in \notin chosen[8] /\ in \notin chosen[16]
      /\ out \in chosen[bit]
  <2>1. bit \in Upgraded /\ in \in Of(layer) \ (chosen[8] \cup chosen[16])
    BY DEF Candidates
  <2>2. Of(layer) \subseteq Channels
    BY <1>1, <1>3, ChannelsFinite
  <2> QED BY <2>1, <2>2 DEF Donors
<1> HIDE DEF bit, in
<1>7. /\ chosen' = [chosen EXCEPT ![bit] = (chosen[bit] \ {out}) \cup {in}]
      /\ pc' = "minimums"
  BY <1>1, <1>5a DEF bit, in
<1>8. chosen' \in [Levels -> SUBSET Channels] /\ chosen'[4] = {}
  <2>1. (chosen[bit] \ {out}) \cup {in} \in SUBSET Channels
    BY <1>1, <1>6 DEF Levels, Upgraded
  <2> QED BY <1>1, <1>2, <1>6, <1>7, <2>1 DEF Levels, Upgraded
<1>9. chosen'[8] \cap chosen'[16] = {}
  BY <1>1, <1>2, <1>6, <1>7 DEF Levels, Upgraded
<1>10. \A b \in Upgraded : Cardinality(chosen'[b]) = counts[b]
  <2>1. IsFiniteSet(chosen[bit]) /\ Cardinality(chosen[bit]) \in Nat
    BY <1>1, <1>2, <1>6, RestCount DEF Upgraded
  <2>2. /\ IsFiniteSet(chosen[bit] \ {out})
        /\ Cardinality(chosen[bit] \ {out}) = Cardinality(chosen[bit]) - 1
    BY <1>6, <2>1, FS_RemoveElement
  <2>3. in \notin chosen[bit] \ {out}
    BY <1>6 DEF Upgraded
  <2>4. Cardinality((chosen[bit] \ {out}) \cup {in})
          = Cardinality(chosen[bit] \ {out}) + 1
    BY <2>2, <2>3, FS_AddElement
  <2>5. Cardinality((chosen[bit] \ {out}) \cup {in}) = Cardinality(chosen[bit])
    BY <2>1, <2>2, <2>4
  <2>6. \A b \in Upgraded : chosen'[b] = IF b = bit THEN (chosen[bit] \ {out}) \cup {in}
                                         ELSE chosen[b]
    BY <1>1, <1>7 DEF Levels, Upgraded
  <2> QED BY <1>2, <2>5, <2>6 DEF Upgraded
<1>11. Channels' = Channels /\ Total' = Total /\ Layer' = Layer /\ Required' = Required
  BY <1>1 DEF Channels, Total, Layer, Of, Required
<1>12. ChoiceInv'
  BY <1>1, <1>8, <1>11 DEF ChoiceInv, BenefitType
<1>13. SharesInv'
  BY <1>1, <1>2, <1>7, <1>8, <1>9, <1>10, <1>11 DEF SharesInv
<1> QED BY <1>7, <1>12, <1>13

LEMMA NextLayerShares ==
  ASSUME Types, MetInv, ChoiceInv, SharesInv, NextLayer
  PROVE  ChoiceInv' /\ SharesInv' /\ pc' \in {"minimums", "finish"}
<1>1. /\ pc = "minimums" /\ pc' \in {"minimums", "finish"}
      /\ UNCHANGED <<request, benefit, counts, chosen>>
  BY DEF NextLayer
<1>2. Channels' = Channels /\ Total' = Total /\ Layer' = Layer /\ Required' = Required
  BY <1>1 DEF Channels, Total, Layer, Of, Required
<1>3. request.kind # "bits"
  BY <1>1 DEF ChoiceInv
<1>4. ChoiceInv'
  BY <1>1, <1>2, <1>3 DEF ChoiceInv, BenefitType
<1>5. SharesInv'
  BY <1>1, <1>2, <1>3 DEF SharesInv
<1> QED BY <1>1, <1>4, <1>5

LEMMA FinishShares ==
  ASSUME Types, ChoiceInv, SharesInv, Finish
  PROVE  ChoiceInv' /\ SharesInv' /\ pc' = "done"
<1> DEFINE rest == Channels \ (chosen[8] \cup chosen[16])
<1>1. /\ pc = "finish" /\ UNCHANGED <<request, benefit, counts>>
      /\ request \in Requests /\ request.kind # "bits"
      /\ chosen' = [chosen EXCEPT ![4] = rest]
      /\ chosen \in [Levels -> SUBSET Channels]
  BY DEF Finish, Types, ChoiceInv
<1>2. /\ chosen[8] \cap chosen[16] = {} /\ counts \in [Levels -> Nat]
      /\ counts[4] + counts[8] + counts[16] = Total
      /\ \A bit \in Upgraded : Cardinality(chosen[bit]) = counts[bit]
  BY <1>1 DEF SharesInv
<1>3. Cardinality(rest) = counts[4]
  <2>1. Cardinality(rest) = Total - counts[8] - counts[16]
    BY <1>1, <1>2, RestCount DEF Upgraded
  <2>2. counts[4] \in Nat /\ counts[8] \in Nat /\ counts[16] \in Nat
    BY <1>2 DEF Levels
  <2> QED BY <1>2, <2>1, <2>2
<1>4. pc' = "done"
  BY <1>2, <1>3 DEF Finish
<1>5. /\ chosen' \in [Levels -> SUBSET Channels]
      /\ chosen'[4] = rest /\ chosen'[8] = chosen[8] /\ chosen'[16] = chosen[16]
  BY <1>1 DEF Levels
<1>6. Channels' = Channels /\ Total' = Total /\ Layer' = Layer /\ Required' = Required
  BY <1>1 DEF Channels, Total, Layer, Of, Required
<1>7. ChoiceInv'
  BY <1>1, <1>4, <1>5, <1>6 DEF ChoiceInv, BenefitType
<1>8. SharesInv'
  BY <1>1, <1>2, <1>4, <1>5, <1>6 DEF SharesInv, Upgraded
<1> QED BY <1>4, <1>7, <1>8

(***************************************************************************)
(* The function that is given a number of bits.  The moves keep a          *)
(* partition into whole blocks; the reported percentages are a budget      *)
(* because rounding down three of them loses at most two.                  *)
(***************************************************************************)
\* The bits the channels take.
Taken == 4 * Cardinality(chosen[4]) + 8 * Cardinality(chosen[8])
           + 16 * Cardinality(chosen[16])

Partition ==
  /\ chosen[4] \cap chosen[8] = {} /\ chosen[4] \cap chosen[16] = {}
  /\ chosen[8] \cap chosen[16] = {}
  /\ Channels = chosen[4] \cup chosen[8] \cup chosen[16]

SpentInv ==
  request.kind = "bits" =>
    /\ pc \in {"upgrade", "done"}
    /\ Partition
    /\ remaining \in Nat /\ Taken + remaining = Bits
    /\ pc = "done" => Movable = {}

InBlocks(bit, l) == Cardinality(chosen[bit] \cap Of(l)) % request.alignment = 0

BlocksInv ==
  request.kind = "bits" => \A l \in Layer, bit \in Upgraded : InBlocks(bit, l)

ReportInv ==
  request.kind = "bits" /\ pc = "done" =>
    /\ \A bit \in Levels : Cardinality(chosen[bit]) = counts[bit]
    /\ counts[4] + counts[8] + counts[16] = Total
    /\ PercentagesHonest

\* What the allocator starts with pays for 4 bits per channel.
LEMMA EnoughForInt4 ==
  ASSUME request \in Requests, request.kind = "bits"
  PROVE  Bits - 4 * Total \in Nat
<1> DEFINE T == Total
           x == request.average * T
           k == x \div 100
<1>1. T \in Nat /\ request.average \in Nat /\ 400 <= request.average
  BY ChannelsFinite, RequestNumbers
<1>2. k = Bits
  BY DEF Bits
<1> HIDE DEF T
<1>3. x \in Nat /\ 400 * T <= x
  <2>1. x = 400 * T + (request.average - 400) * T
    BY <1>1
  <2>2. request.average - 400 \in Nat
    BY <1>1
  <2>3. (request.average - 400) * T \in Nat
    BY <1>1, <2>2, Product
  <2> QED BY <1>1, <2>1, <2>3
<1> HIDE DEF x
<1>4. k \in Nat /\ x % 100 \in 0 .. (100 - 1) /\ x = 100 * k + (x % 100)
  <2>1. x \in Nat /\ 100 \in Nat \ {0}
    BY <1>3
  <2> QED BY <2>1, Division
<1> HIDE DEF k
<1>5. 4 * T <= k
  BY <1>1, <1>3, <1>4
<1>6. k - 4 * T \in Nat
  BY <1>1, <1>4, <1>5
<1> QED BY <1>2, <1>6 DEF T

LEMMA InitSpent ==
  ASSUME Init
  PROVE  ChoiceInv /\ SharesInv /\ SpentInv /\ BlocksInv /\ StrongestUpgraded
           /\ ReportInv
<1>1. /\ request \in Requests /\ BenefitType
      /\ chosen = [bit \in Levels |->
                     IF bit = 4 /\ request.kind = "bits" THEN Channels ELSE {}]
      /\ remaining = IF request.kind = "bits" THEN Bits - 4 * Total ELSE 0
      /\ pc = IF request.kind = "bits" THEN "upgrade" ELSE "rank"
  BY DEF Init, BenefitType
<1>2. ChoiceInv
  BY <1>1 DEF ChoiceInv
<1>3. SharesInv
  BY <1>1 DEF SharesInv, Levels
<1>4. ASSUME request.kind = "bits"
      PROVE  SpentInv /\ BlocksInv /\ StrongestUpgraded /\ ReportInv
  <2>1. chosen[4] = Channels /\ chosen[8] = {} /\ chosen[16] = {} /\ pc = "upgrade"
    BY <1>1, <1>4 DEF Levels
  <2>2. Taken = 4 * Total
    <3>1. Taken = 4 * Total + 8 * 0 + 16 * 0
      BY <2>1, FS_EmptySet DEF Taken, Total
    <3>2. Total \in Nat
      BY <1>1, ChannelsFinite
    <3> QED BY <3>1, <3>2
  <2>3. remaining \in Nat /\ Taken + remaining = Bits
    <3>1. Bits - 4 * Total \in Nat /\ remaining = Bits - 4 * Total
      BY <1>1, <1>4, EnoughForInt4
    <3>2. Bits \in Int /\ 4 * Total \in Int
      BY <1>1, <1>4, ChannelsFinite, RequestNumbers DEF Bits
    <3> QED BY <2>2, <3>1, <3>2
  <2>4. SpentInv
    BY <2>1, <2>3 DEF SpentInv, Partition
  <2>5. BlocksInv
    <3>1. \A l \in Layer, bit \in Upgraded : chosen[bit] \cap Of(l) = {}
      BY <2>1 DEF Upgraded
    <3>2. 0 % request.alignment = 0
      BY <1>1, RequestNumbers
    <3> QED BY <3>1, <3>2, FS_EmptySet DEF BlocksInv, InBlocks
  <2>6. StrongestUpgraded /\ ReportInv
    BY <2>1 DEF StrongestUpgraded, ReportInv
  <2> QED BY <2>4, <2>5, <2>6
<1>5. ASSUME request.kind # "bits"
      PROVE  SpentInv /\ BlocksInv /\ StrongestUpgraded /\ ReportInv
  BY <1>5 DEF SpentInv, BlocksInv, StrongestUpgraded, ReportInv
<1> QED BY <1>2, <1>3, <1>4, <1>5

\* A block that moves: as many channels of its layer as the alignment says,
\* before all the others of its precision there.
LEMMA BlockMoved ==
  ASSUME request \in Requests, request.kind = "bits", ChoiceInv,
         NEW m \in Movable, NEW batch, batch = Batch(m[1], m[2])
  PROVE  /\ m[1] \in {4, 8} /\ m[2] \in Layer
         /\ m[1] * request.alignment <= remaining
         /\ batch \subseteq chosen[m[1]] \cap Of(m[2])
         /\ Cardinality(batch) = request.alignment
         /\ \A x \in (chosen[m[1]] \cap Of(m[2])) \ batch, y \in batch :
              Before(2 * m[1], y, x)
<1> DEFINE S == chosen[m[1]] \cap Of(m[2])
<1>1. /\ m[1] \in {4, 8} /\ m[2] \in Layer
      /\ m[1] * request.alignment <= remaining
      /\ Cardinality(S) >= request.alignment
  BY DEF Movable, Cost
<1>2. Rankable(S)
  BY <1>1 DEF Rankable, ChoiceInv, Levels
<1>3. IsFiniteSet(S) /\ Cardinality(S) \in Nat
  BY <1>1, SelectedFinite, FS_Subset, FS_CardinalityType
<1>4. /\ request.alignment \in Nat /\ request.alignment <= Cardinality(S)
      /\ 2 * m[1] \in Upgraded /\ BenefitType
      /\ batch = Top(S, request.alignment, 2 * m[1])
  BY <1>1, <1>3, RequestNumbers DEF Upgraded, ChoiceInv, Batch, Target
<1> HIDE DEF S
<1>5. /\ batch \subseteq S /\ Cardinality(batch) = request.alignment
      /\ \A x \in S \ batch, y \in batch : Before(2 * m[1], y, x)
  BY <1>2, <1>4, TopTakes
<1> QED BY <1>1, <1>5 DEF S

\* What the move of a block of m does to the precisions.
Moves(m, batch) ==
  /\ m[1] \in {4, 8} /\ m[2] \in Layer
  /\ batch \subseteq chosen[m[1]] \cap Of(m[2])
  /\ Cardinality(batch) = request.alignment
  /\ chosen' = [chosen EXCEPT ![m[1]] = chosen[m[1]] \ batch,
                              ![2 * m[1]] = chosen[2 * m[1]] \cup batch]

LEMMA MovedSets ==
  ASSUME ChoiceInv, NEW m, NEW batch, Moves(m, batch)
  PROVE  /\ chosen' \in [Levels -> SUBSET Channels]
         /\ m[1] = 4 => /\ chosen'[4] = chosen[4] \ batch
                        /\ chosen'[8] = chosen[8] \cup batch
                        /\ chosen'[16] = chosen[16]
         /\ m[1] = 8 => /\ chosen'[4] = chosen[4]
                        /\ chosen'[8] = chosen[8] \ batch
                        /\ chosen'[16] = chosen[16] \cup batch
<1>1. chosen \in [Levels -> SUBSET Channels] /\ (m[1] = 4 \/ m[1] = 8)
  BY DEF ChoiceInv, Moves
<1>2. batch \subseteq Channels
  BY <1>1 DEF Moves, Levels
<1>3. CASE m[1] = 4
  <2>1. chosen' = [chosen EXCEPT ![4] = chosen[4] \ batch,
                                 ![8] = chosen[8] \cup batch]
    BY <1>3 DEF Moves
  <2> QED BY <1>1, <1>2, <1>3, <2>1 DEF Levels
<1>4. CASE m[1] = 8
  <2>1. chosen' = [chosen EXCEPT ![8] = chosen[8] \ batch,
                                 ![16] = chosen[16] \cup batch]
    BY <1>4 DEF Moves
  <2> QED BY <1>1, <1>2, <1>4, <2>1 DEF Levels
<1> QED BY <1>1, <1>3, <1>4

LEMMA MovedPartition ==
  ASSUME ChoiceInv, Partition, request' = request,
         NEW m, NEW batch, Moves(m, batch)
  PROVE  Partition'
<1>1. m[1] \in {4, 8} /\ batch \subseteq chosen[m[1]]
  BY DEF Moves
<1>2. Channels' = Channels
  BY DEF Channels, Layer, Of
<1>3. CASE m[1] = 4
  <2>1. chosen'[4] = chosen[4] \ batch /\ chosen'[8] = chosen[8] \cup batch
          /\ chosen'[16] = chosen[16] /\ batch \subseteq chosen[4]
    BY <1>1, <1>3, MovedSets
  <2> QED BY <1>2, <2>1 DEF Partition
<1>4. CASE m[1] = 8
  <2>1. chosen'[4] = chosen[4] /\ chosen'[8] = chosen[8] \ batch
          /\ chosen'[16] = chosen[16] \cup batch /\ batch \subseteq chosen[8]
    BY <1>1, <1>4, MovedSets
  <2> QED BY <1>2, <2>1 DEF Partition
<1> QED BY <1>1, <1>3, <1>4

LEMMA MovedTaken ==
  ASSUME ChoiceInv, Partition, request \in Requests,
         NEW m, NEW batch, Moves(m, batch)
  PROVE  Taken \in Nat /\ Taken' = Taken + m[1] * request.alignment
<1>1. /\ IsFiniteSet(chosen[4]) /\ IsFiniteSet(chosen[8])
      /\ IsFiniteSet(chosen[16])
  BY ChannelsFinite, FS_Subset DEF ChoiceInv, Levels
<1>2. /\ Cardinality(chosen[4]) \in Nat /\ Cardinality(chosen[8]) \in Nat
      /\ Cardinality(chosen[16]) \in Nat
  BY <1>1, FS_CardinalityType
<1>3. /\ m[1] \in {4, 8} /\ batch \subseteq chosen[m[1]]
      /\ Cardinality(batch) = request.alignment
      /\ request.alignment \in Nat
  BY RequestNumbers DEF Moves
<1>4. CASE m[1] = 4
  <2>1. chosen'[4] = chosen[4] \ batch /\ chosen'[8] = chosen[8] \cup batch
          /\ chosen'[16] = chosen[16]
    BY <1>4, MovedSets
  <2>2. /\ Cardinality(chosen'[4]) = Cardinality(chosen[4]) - request.alignment
        /\ Cardinality(chosen'[8]) = Cardinality(chosen[8]) + request.alignment
    <3>1. Move(batch, chosen[4], chosen[8], chosen'[4], chosen'[8])
      BY <1>1, <1>3, <1>4, <2>1 DEF Partition, Move
    <3>2. /\ Cardinality(chosen'[4]) = Cardinality(chosen[4]) - Cardinality(batch)
          /\ Cardinality(chosen'[8]) = Cardinality(chosen[8]) + Cardinality(batch)
      BY <3>1, MoveCount
    <3> QED BY <1>3, <3>2
  <2> QED BY <1>2, <1>3, <1>4, <2>1, <2>2 DEF Taken
<1>5. CASE m[1] = 8
  <2>1. chosen'[4] = chosen[4] /\ chosen'[8] = chosen[8] \ batch
          /\ chosen'[16] = chosen[16] \cup batch
    BY <1>5, MovedSets
  <2>2. /\ Cardinality(chosen'[8]) = Cardinality(chosen[8]) - request.alignment
        /\ Cardinality(chosen'[16]) = Cardinality(chosen[16]) + request.alignment
    <3>1. Move(batch, chosen[8], chosen[16], chosen'[8], chosen'[16])
      BY <1>1, <1>3, <1>5, <2>1 DEF Partition, Move
    <3>2. /\ Cardinality(chosen'[8]) = Cardinality(chosen[8]) - Cardinality(batch)
          /\ Cardinality(chosen'[16]) = Cardinality(chosen[16]) + Cardinality(batch)
      BY <3>1, MoveCount
    <3> QED BY <1>3, <3>2
  <2> QED BY <1>2, <1>3, <1>5, <2>1, <2>2 DEF Taken
<1> QED BY <1>3, <1>4, <1>5

LEMMA MovedBlocks ==
  ASSUME ChoiceInv, Partition, request \in Requests, request' = request,
         \A l \in Layer, bit \in Upgraded : InBlocks(bit, l),
         NEW m, NEW batch, Moves(m, batch),
         NEW l \in Layer, NEW bit \in Upgraded
  PROVE  InBlocks(bit, l)'
<1> DEFINE a == request.alignment
           S(b) == chosen[b] \cap Of(l)
<1>1. /\ a \in Nat \ {0} /\ m[1] \in {4, 8} /\ batch \subseteq chosen[m[1]]
      /\ batch \subseteq Of(m[2]) /\ Cardinality(batch) = a
      /\ bit = 8 \/ bit = 16
  BY RequestNumbers DEF Moves, Upgraded
<1>2. /\ InBlocks(bit, l) <=> Cardinality(S(bit)) % a = 0
      /\ InBlocks(bit, l)' <=> Cardinality(chosen'[bit] \cap Of(l)) % a = 0
  BY DEF InBlocks, Of
<1>3. Cardinality(S(bit)) % a = 0
  BY <1>2
<1>4. \A b \in Levels : IsFiniteSet(S(b))
  BY SelectedFinite, FS_Subset
<1>5. CASE l # m[2]
  <2>1. batch \cap Of(l) = {}
    BY <1>1, <1>5 DEF Of
  <2>2. chosen'[bit] \cap Of(l) = S(bit)
    BY <1>1, <2>1, MovedSets
  <2> QED BY <1>2, <1>3, <2>2
<1> DEFINE N(b) == Cardinality(S(b))
<1>6. ASSUME NEW from \in Levels, NEW to \in Levels,
             batch \subseteq S(from), S(from) \cap S(to) = {},
             chosen'[from] \cap Of(l) = S(from) \ batch,
             chosen'[to] \cap Of(l) = S(to) \cup batch
      PROVE  /\ N(from) \in Nat /\ N(to) \in Nat /\ a <= N(from)
             /\ Cardinality(chosen'[from] \cap Of(l)) = N(from) - a
             /\ Cardinality(chosen'[to] \cap Of(l)) = N(to) + a
  <2> DEFINE left == chosen'[from] \cap Of(l)
             joined == chosen'[to] \cap Of(l)
  <2>1. Move(batch, S(from), S(to), left, joined)
    BY <1>4, <1>6 DEF Move
  <2> HIDE DEF S, left, joined
  <2>2. /\ N(from) \in Nat /\ N(to) \in Nat /\ Cardinality(batch) <= N(from)
        /\ Cardinality(left) = N(from) - Cardinality(batch)
        /\ Cardinality(joined) = N(to) + Cardinality(batch)
    BY <2>1, MoveCount
  <2> QED BY <1>1, <2>2 DEF left, joined
<1>7. CASE l = m[2] /\ m[1] = 4
  <2>1. /\ chosen'[4] \cap Of(l) = S(4) \ batch
        /\ chosen'[8] \cap Of(l) = S(8) \cup batch
        /\ chosen'[16] \cap Of(l) = S(16)
        /\ batch \subseteq S(4) /\ S(4) \cap S(8) = {}
    BY <1>1, <1>7, MovedSets DEF Partition
  <2>2. CASE bit = 16
    BY <1>2, <1>3, <2>1, <2>2
  <2>3. CASE bit = 8
    <3>1. N(8) \in Nat /\ Cardinality(chosen'[8] \cap Of(l)) = N(8) + a
      BY <1>6, <2>1 DEF Levels
    <3>2. N(8) % a = 0
      BY <1>3, <2>3
    <3> HIDE DEF N
    <3>3. (N(8) + a) % a = 0
      BY <1>1, <3>1, <3>2, WholeMultiple
    <3> QED BY <1>2, <2>3, <3>1, <3>3
  <2> QED BY <1>1, <2>2, <2>3
<1>8. CASE l = m[2] /\ m[1] = 8
  <2>1. /\ chosen'[8] \cap Of(l) = S(8) \ batch
        /\ chosen'[16] \cap Of(l) = S(16) \cup batch
        /\ batch \subseteq S(8) /\ S(8) \cap S(16) = {}
    BY <1>1, <1>8, MovedSets DEF Partition
  <2>2. /\ N(8) \in Nat /\ N(16) \in Nat /\ a <= N(8)
        /\ Cardinality(chosen'[8] \cap Of(l)) = N(8) - a
        /\ Cardinality(chosen'[16] \cap Of(l)) = N(16) + a
    BY <1>6, <2>1 DEF Levels
  <2>3. N(bit) % a = 0
    BY <1>3
  <2> HIDE DEF N
  <2>4. CASE bit = 8
    <3>1. (N(8) - a) % a = 0
      BY <1>1, <2>2, <2>3, <2>4, WholeMultiple
    <3> QED BY <1>2, <2>2, <2>4, <3>1
  <2>5. CASE bit = 16
    <3>1. (N(16) + a) % a = 0
      BY <1>1, <2>2, <2>3, <2>5, WholeMultiple
    <3> QED BY <1>2, <2>2, <2>5, <3>1
  <2> QED BY <1>1, <2>4, <2>5
<1> QED BY <1>1, <1>5, <1>7, <1>8

LEMMA UpgradeSpent ==
  ASSUME Types, ChoiceInv, SpentInv, BlocksInv, StrongestUpgraded, Upgrade
  PROVE  ChoiceInv' /\ SharesInv' /\ SpentInv' /\ BlocksInv'
           /\ StrongestUpgraded' /\ ReportInv' /\ pc' = "upgrade"
<1>1. /\ request \in Requests /\ request.kind = "bits" /\ pc = "upgrade"
      /\ UNCHANGED <<request, benefit, pc>>
  BY DEF Types, Upgrade
<1>2. PICK m \in Movable :
        /\ chosen' = [chosen EXCEPT ![m[1]] = @ \ Batch(m[1], m[2]),
                                    ![Target(m[1])] = @ \cup Batch(m[1], m[2])]
        /\ remaining' = remaining - Cost(m[1])
  BY DEF Upgrade
<1> DEFINE batch == Batch(m[1], m[2])
           a == request.alignment
<1>3. /\ m[1] \in {4, 8} /\ m[2] \in Layer /\ m[1] * a <= remaining
      /\ batch \subseteq chosen[m[1]] \cap Of(m[2])
      /\ Cardinality(batch) = a
      /\ \A x \in (chosen[m[1]] \cap Of(m[2])) \ batch, y \in batch :
           Before(2 * m[1], y, x)
  BY <1>1, <1>2, BlockMoved
<1>4. /\ chosen' = [chosen EXCEPT ![m[1]] = chosen[m[1]] \ batch,
                                  ![2 * m[1]] = chosen[2 * m[1]] \cup batch]
      /\ remaining' = remaining - m[1] * a
  <2>1. m[1] # 2 * m[1]
    BY <1>3
  <2> QED BY <1>2, <2>1 DEF Target, Cost
<1> HIDE DEF batch
<1>5. Moves(m, batch)
  BY <1>3, <1>4 DEF Moves
<1>6. chosen' \in [Levels -> SUBSET Channels]
  BY <1>5, MovedSets
<1>7. /\ Channels' = Channels /\ Layer' = Layer /\ Bits' = Bits
      /\ \A l \in Layer : Of(l)' = Of(l)
  BY <1>1 DEF Channels, Layer, Of, Bits, Total
<1>8. ChoiceInv'
  BY <1>1, <1>6, <1>7 DEF ChoiceInv, BenefitType
<1>9. SharesInv' /\ ReportInv'
  BY <1>1 DEF SharesInv, ReportInv
<1>10. SpentInv'
  <2>1. Partition /\ remaining \in Nat /\ Taken + remaining = Bits
    BY <1>1 DEF SpentInv
  <2>2. Partition'
    BY <1>1, <1>5, <2>1, MovedPartition
  <2>3. Taken \in Nat /\ Taken' = Taken + m[1] * a
    BY <1>1, <1>5, <2>1, MovedTaken
  <2>4. m[1] * a \in Nat
    BY <1>1, <1>3, RequestNumbers
  <2> DEFINE cost == m[1] * a
  <2>5. remaining' \in Nat /\ Taken' + remaining' = Taken + remaining
    <3>1. /\ cost \in Nat /\ cost <= remaining
          /\ remaining' = remaining - cost /\ Taken' = Taken + cost
      BY <1>3, <1>4, <2>3, <2>4
    <3> HIDE DEF cost
    <3> QED BY <2>1, <2>3, <3>1
  <2> QED BY <1>1, <1>7, <2>1, <2>2, <2>5 DEF SpentInv
<1>11. BlocksInv'
  <2>1. Partition /\ \A l \in Layer, bit \in Upgraded : InBlocks(bit, l)
    BY <1>1 DEF SpentInv, BlocksInv
  <2>2. \A l \in Layer, bit \in Upgraded : InBlocks(bit, l)'
    BY <1>1, <1>5, <2>1, MovedBlocks
  <2> QED BY <1>1, <1>7, <2>2 DEF BlocksInv
<1>12. StrongestUpgraded'
  <2> SUFFICES ASSUME NEW x \in chosen'[4], NEW y \in chosen'[8] \cup chosen'[16],
                      x[1] = y[1]
               PROVE  benefit[8][x] <= benefit[8][y]
    BY <1>1 DEF StrongestUpgraded
  <2>1. \A s \in chosen[4], t \in chosen[8] \cup chosen[16] :
          s[1] = t[1] => benefit[8][s] <= benefit[8][t]
    BY <1>1 DEF StrongestUpgraded
  <2>2. CASE m[1] = 8
    <3>1. x \in chosen[4] /\ y \in chosen[8] \cup chosen[16]
      BY <1>3, <1>5, <2>2, MovedSets
    <3> QED BY <2>1, <3>1
  <2>3. CASE m[1] = 4
    <3>1. /\ x \in chosen[4] \ batch
          /\ y \in chosen[8] \cup chosen[16] \cup batch
      BY <1>5, <2>3, MovedSets
    <3>2. CASE y \in batch
      <4>1. y[1] = m[2] /\ x \in Channels /\ y \in Channels
        BY <1>3, <3>1, <3>2, <2>3 DEF Of, ChoiceInv, Levels
      <4>2. x \in Of(m[2])
        BY <1>1, <4>1, ChannelsFinite
      <4>3. Before(8, y, x)
        BY <1>3, <2>3, <3>1, <3>2, <4>2
      <4>4. benefit[8][x] \in Int /\ benefit[8][y] \in Int
        <5>1. benefit[8] \in [Channels -> Benefits]
          BY DEF ChoiceInv, BenefitType, Upgraded
        <5>2. benefit[8][x] \in Benefits /\ benefit[8][y] \in Benefits
          BY <4>1, <5>1
        <5>3. Benefits \subseteq Int
          BY InputsAssumption
        <5> QED BY <5>2, <5>3, Zenon
      <4> QED BY <4>3, <4>4 DEF Before
    <3> QED BY <2>1, <3>1, <3>2
  <2> QED BY <1>3, <2>2, <2>3
<1> QED BY <1>1, <1>8, <1>9, <1>10, <1>11, <1>12

\* Percentages rounded down, and what that loses.
Down(n, T) == [bit \in Levels |-> (100 * n[bit]) \div T]
Lost(n, T) == [bit \in Levels |-> (100 * n[bit]) % T]
More(n, T) == 100 - (Down(n, T)[4] + Down(n, T)[8] + Down(n, T)[16])

\* The precisions that an order puts first get one more.
Reported(n, T, o) ==
  [bit \in Levels |->
     Down(n, T)[bit]
       + IF \E i \in 1 .. More(n, T) : i <= 3 /\ o[i] = bit THEN 1 ELSE 0]

\* Rounding down three percentages loses less than three.
LEMMA LessThanThree ==
  ASSUME NEW T \in Nat \ {0}, NEW n \in [Levels -> Nat], n[4] + n[8] + n[16] = T
  PROVE  /\ \A bit \in Levels :
              /\ Down(n, T)[bit] \in Nat /\ Lost(n, T)[bit] \in Nat
              /\ Lost(n, T)[bit] < T
              /\ 100 * n[bit] = T * Down(n, T)[bit] + Lost(n, T)[bit]
         /\ More(n, T) \in 0 .. 2
         /\ T * More(n, T) = Lost(n, T)[4] + Lost(n, T)[8] + Lost(n, T)[16]
<1> DEFINE d == Down(n, T)
           r == Lost(n, T)
           more == More(n, T)
<1>1. \A bit \in Levels :
        /\ d[bit] \in Nat /\ r[bit] \in Nat /\ r[bit] < T
        /\ 100 * n[bit] = T * d[bit] + r[bit]
  <2> TAKE bit \in Levels
  <2> DEFINE x == 100 * n[bit]
             q == x \div T
             z == x % T
  <2>1. x \in Nat /\ d[bit] = q /\ r[bit] = z
    BY DEF Down, Lost
  <2> HIDE DEF x
  <2>2. q \in Nat /\ z \in 0 .. (T - 1) /\ x = T * q + z
    BY <2>1, Division
  <2> HIDE DEF q, z
  <2>3. z \in Nat /\ z < T
    BY <2>2
  <2> HIDE DEF d, r
  <2> QED BY <2>1, <2>2, <2>3 DEF x
<1>2. more = 100 - (d[4] + d[8] + d[16])
  BY DEF More
<1> HIDE DEF d, r, more
<1>3. /\ d[4] \in Nat /\ d[8] \in Nat /\ d[16] \in Nat
      /\ r[4] \in Nat /\ r[8] \in Nat /\ r[16] \in Nat
      /\ r[4] < T /\ r[8] < T /\ r[16] < T
      /\ n[4] \in Nat /\ n[8] \in Nat /\ n[16] \in Nat
      /\ 100 * n[4] = T * d[4] + r[4] /\ 100 * n[8] = T * d[8] + r[8]
      /\ 100 * n[16] = T * d[16] + r[16]
  BY <1>1 DEF Levels
<1>4. T * more = r[4] + r[8] + r[16]
  <2>1. T * more = 100 * T - (T * d[4] + T * d[8] + T * d[16])
    BY <1>2, <1>3
  <2>2. T * d[4] \in Nat /\ T * d[8] \in Nat /\ T * d[16] \in Nat
    BY <1>3, Product
  <2>3. 100 * T = 100 * n[4] + 100 * n[8] + 100 * n[16]
    <3>1. T \in Nat /\ n[4] \in Nat /\ n[8] \in Nat /\ n[16] \in Nat
      BY <1>3
    <3> QED BY <3>1
  <2> DEFINE all == T * more
             part(bit)  == T * d[bit]
             whole(bit) == 100 * n[bit]
  <2>4. /\ all = 100 * T - (part(4) + part(8) + part(16))
        /\ 100 * T = whole(4) + whole(8) + whole(16)
        /\ whole(4) = part(4) + r[4] /\ whole(8) = part(8) + r[8]
        /\ whole(16) = part(16) + r[16]
        /\ part(4) \in Nat /\ part(8) \in Nat /\ part(16) \in Nat
        /\ r[4] \in Nat /\ r[8] \in Nat /\ r[16] \in Nat
    BY <1>3, <2>1, <2>2, <2>3
  <2> HIDE DEF all, part, whole
  <2>5. all = r[4] + r[8] + r[16]
    BY <2>4
  <2> QED BY <2>5 DEF all
<1>5. more \in 0 .. 2
  <2>1. more \in Int
    BY <1>2, <1>3
  <2>2. T * (0 - 1) < T * more /\ T * more < T * 3
    BY <1>3, <1>4
  <2>3. 0 - 1 < more /\ more < 3
    BY <2>1, <2>2, Quotient
  <2> QED BY <2>1, <2>3
<1> QED BY <1>1, <1>4, <1>5 DEF d, r, more

\* The percentages of Report: the precisions that lost most get one more.
LEMMA PercentagesOf ==
  ASSUME NEW T \in Nat \ {0}, NEW n \in [Levels -> Nat], n[4] + n[8] + n[16] = T,
         NEW o \in Orders(Lost(n, T)),
         NEW p, p = Reported(n, T, o)
  PROVE  /\ IsBudget(p)
         /\ \A bit \in Levels :
              /\ p[bit] * T > 100 * n[bit] - T
              /\ p[bit] * T < 100 * n[bit] + T
              /\ n[bit] = 0 => p[bit] = 0
<1> DEFINE d == Down(n, T)
           r == Lost(n, T)
           more == More(n, T)
           bump(bit) == IF \/ more = 1 /\ bit = o[1]
                           \/ more = 2 /\ (bit = o[1] \/ bit = o[2])
                          THEN 1 ELSE 0
<1>1. /\ \A bit \in Levels :
           /\ d[bit] \in Nat /\ r[bit] \in Nat /\ r[bit] < T
           /\ 100 * n[bit] = T * d[bit] + r[bit]
      /\ more \in 0 .. 2
      /\ T * more = r[4] + r[8] + r[16]
  BY LessThanThree
<1>2. more = 100 - (d[4] + d[8] + d[16])
  BY DEF More
<1>3. /\ o \in [1 .. 3 -> Levels] /\ {o[i] : i \in 1 .. 3} = Levels
      /\ r[o[1]] >= r[o[2]] /\ r[o[2]] >= r[o[3]]
  BY DEF Orders
<1>4. /\ o[1] \in Levels /\ o[2] \in Levels /\ o[3] \in Levels
      /\ o[1] # o[2] /\ o[1] # o[3] /\ o[2] # o[3]
      /\ \A bit \in Levels : bit = o[1] \/ bit = o[2] \/ bit = o[3]
  BY <1>3, OrderOfThree
<1>5. /\ p \in [Levels -> {d[bit] + bump(bit) : bit \in Levels}]
      /\ \A bit \in Levels : p[bit] = d[bit] + bump(bit)
  <2>1. more \in 0 .. 2
    BY <1>1
  <2>2. p = [bit \in Levels |->
               d[bit] + IF \E i \in 1 .. more : i <= 3 /\ o[i] = bit THEN 1 ELSE 0]
    BY DEF Reported
  <2> HIDE DEF d, more
  <2>3. \A i \in 1 .. more : i <= 3
    BY <2>1
  <2>4. \A bit : (\E i \in 1 .. more : i <= 3 /\ o[i] = bit)
                   <=> \/ more = 1 /\ bit = o[1]
                       \/ more = 2 /\ (bit = o[1] \/ bit = o[2])
    BY <2>1, <2>3, FirstOfOrder
  <2>5. p = [bit \in Levels |-> d[bit] + bump(bit)]
    BY <2>2, <2>4
  <2> HIDE DEF bump
  <2> QED BY <2>5
<1> HIDE DEF d, r, more
<1>6. \A bit \in Levels : bump(bit) \in {0, 1} /\ p[bit] \in Nat
  BY <1>1, <1>5
<1>7. r[o[1]] + r[o[2]] + r[o[3]] = r[4] + r[8] + r[16]
  <2>1. /\ o[1] \in {4, 8, 16} /\ o[2] \in {4, 8, 16} /\ o[3] \in {4, 8, 16}
        /\ r[4] \in Nat /\ r[8] \in Nat /\ r[16] \in Nat
    BY <1>1, <1>4 DEF Levels
  <2> QED BY <1>4, <2>1
<1>8. /\ r[o[1]] \in Nat /\ r[o[2]] \in Nat /\ r[o[3]] \in Nat
      /\ r[o[1]] < T
  BY <1>1, <1>4
<1>9. \A bit \in Levels : bump(bit) = 1 => r[bit] > 0
  <2>1. more = 1 => r[o[1]] > 0
    BY <1>1, <1>3, <1>7, <1>8
  <2>2. more = 2 => r[o[1]] > 0 /\ r[o[2]] > 0
    BY <1>1, <1>3, <1>7, <1>8
  <2> QED BY <2>1, <2>2
<1>10. bump(4) + bump(8) + bump(16) = more
  <2>1. o[1] \in {4, 8, 16} /\ o[2] \in {4, 8, 16} /\ o[1] # o[2]
    BY <1>4 DEF Levels
  <2>2. more = 0 \/ more = 1 \/ more = 2
    BY <1>1
  <2> QED BY <2>1, <2>2
<1> HIDE DEF bump
<1>11. IsBudget(p)
  <2>1. p \in [Levels -> Nat]
    BY <1>5, <1>6
  <2>2. /\ p[4] = d[4] + bump(4) /\ p[8] = d[8] + bump(8)
        /\ p[16] = d[16] + bump(16)
        /\ d[4] \in Nat /\ d[8] \in Nat /\ d[16] \in Nat
        /\ bump(4) \in Int /\ bump(8) \in Int /\ bump(16) \in Int
    BY <1>1, <1>5, <1>6 DEF Levels
  <2>3. p[4] + p[8] + p[16] = 100
    BY <1>2, <1>10, <2>2
  <2> QED BY <2>1, <2>3 DEF IsBudget
<1>12. ASSUME NEW bit \in Levels
       PROVE  /\ p[bit] * T > 100 * n[bit] - T
              /\ p[bit] * T < 100 * n[bit] + T
              /\ n[bit] = 0 => p[bit] = 0
  <2> DEFINE down == d[bit]
             lost == r[bit]
             x == 100 * n[bit]
             y == T * down
  <2>1. /\ down \in Nat /\ lost \in Nat /\ lost < T /\ x = y + lost
        /\ bump(bit) = 0 \/ (bump(bit) = 1 /\ lost > 0)
        /\ p[bit] = down + bump(bit)
        /\ x \in Nat
    BY <1>1, <1>5, <1>6, <1>9
  <2>2. y \in Nat
    BY <2>1, Product
  <2>3. p[bit] * T = y \/ (p[bit] * T = y + T /\ lost > 0)
    <3> HIDE DEF down, lost, x
    <3>1. CASE bump(bit) = 0
      BY <2>1, <3>1
    <3>2. CASE bump(bit) = 1
      BY <2>1, <3>2
    <3> QED BY <2>1, <3>1, <3>2
  <2>4. n[bit] = 0 => p[bit] = 0
    <3>1. n[bit] = 0 => x = 0
      OBVIOUS
    <3>2. x = 0 => lost = 0 /\ y = 0
      <4> HIDE DEF x, y, lost
      <4> QED BY <2>1, <2>2
    <3>3. y = 0 => down = 0
      <4>1. T * down = 0 => T * down < T * 1
        OBVIOUS
      <4>2. T * down < T * 1 => down < 1
        <5> HIDE DEF down
        <5> QED BY <2>1, Quotient
      <4> QED BY <2>1, <4>1, <4>2
    <3> HIDE DEF x, y, lost, down
    <3> QED BY <2>1, <3>1, <3>2, <3>3
  <2> HIDE DEF down, lost, y
  <2> DEFINE pT == p[bit] * T
  <2>5. pT = y \/ (pT = y + T /\ lost > 0)
    BY <2>3
  <2> HIDE DEF pT, x
  <2>6. pT > x - T /\ pT < x + T
    BY <2>1, <2>2, <2>5
  <2> QED BY <2>4, <2>6 DEF pT, x
<1> QED BY <1>11, <1>12

LEMMA ReportSpent ==
  ASSUME Types, ChoiceInv, SpentInv, BlocksInv, StrongestUpgraded, Report
  PROVE  ChoiceInv' /\ SharesInv' /\ SpentInv' /\ BlocksInv'
           /\ StrongestUpgraded' /\ ReportInv' /\ pc' = "done"
<1>1. /\ request \in Requests /\ request.kind = "bits" /\ pc = "upgrade"
      /\ UNCHANGED <<request, benefit, chosen, remaining>>
      /\ Movable = {}
  BY DEF Types, Report
<1>2. Partition /\ chosen \in [Levels -> SUBSET Channels]
  BY <1>1 DEF SpentInv, ChoiceInv
<1>3. Total \in Nat \ {0}
  BY <1>1, ChannelsFinite
<1>4. counts' = [bit \in Levels |-> Cardinality(chosen[bit])]
  BY DEF Report
<1>5. counts' \in [Levels -> Nat] /\ counts'[4] + counts'[8] + counts'[16] = Total
  <2>1. chosen[4] = Channels \ (chosen[8] \cup chosen[16])
    BY <1>2 DEF Partition
  <2>2. /\ Cardinality(chosen[8]) \in Nat /\ Cardinality(chosen[16]) \in Nat
        /\ Cardinality(chosen[4])
             = Total - Cardinality(chosen[8]) - Cardinality(chosen[16])
    BY <1>1, <1>2, <2>1, RestCount DEF Partition
  <2>3. Cardinality(chosen[4]) \in Nat
    BY <1>1, <1>2, ChannelsFinite, FS_Subset, FS_CardinalityType DEF Levels
  <2> QED BY <1>3, <1>4, <2>2, <2>3 DEF Levels
<1>6. PICK o \in Orders(Lost(counts', Total)) :
        /\ percent' = Reported(counts', Total, o)
        /\ pc' = IF IsBudget(percent') THEN "done" ELSE "failed"
  BY DEF Report, Reported, Down, Lost, More
<1>7. /\ IsBudget(percent')
      /\ \A bit \in Levels :
           /\ percent'[bit] * Total > 100 * counts'[bit] - Total
           /\ percent'[bit] * Total < 100 * counts'[bit] + Total
           /\ counts'[bit] = 0 => percent'[bit] = 0
  BY <1>3, <1>5, <1>6, PercentagesOf
<1>8. pc' = "done"
  BY <1>6, <1>7
<1>9. /\ Channels' = Channels /\ Layer' = Layer /\ Bits' = Bits /\ Total' = Total
      /\ Taken' = Taken /\ Movable' = Movable
      /\ \A l \in Layer, bit \in Upgraded : InBlocks(bit, l)' = InBlocks(bit, l)
  BY <1>1 DEF Channels, Layer, Of, Bits, Total, Taken, Movable, Cost, InBlocks
<1>10. ChoiceInv' /\ SharesInv'
  BY <1>1, <1>8, <1>9 DEF ChoiceInv, BenefitType, SharesInv
<1>11. SpentInv'
  <2>1. Partition'
    BY <1>1, <1>2, <1>9 DEF Partition
  <2> QED BY <1>1, <1>8, <1>9, <2>1 DEF SpentInv
<1>12. BlocksInv' /\ StrongestUpgraded'
  BY <1>1, <1>9 DEF BlocksInv, StrongestUpgraded
<1>13. ReportInv'
  <2>1. PercentagesHonest'
    BY <1>7, <1>9 DEF PercentagesHonest
  <2> QED BY <1>1, <1>4, <1>5, <1>9, <2>1 DEF ReportInv
<1> QED BY <1>8, <1>10, <1>11, <1>12, <1>13

(***************************************************************************)
(* The inductive invariant, and what follows from it.                      *)
(***************************************************************************)
AllocationInv ==
  /\ Types /\ MetInv /\ ChoiceInv /\ SharesInv
  /\ SpentInv /\ BlocksInv /\ StrongestUpgraded /\ ReportInv

\* What only concerns the other functions holds where the bits are not shared
\* out.
LEMMA OtherKind ==
  ASSUME request.kind # "bits", request' = request
  PROVE  SpentInv' /\ BlocksInv' /\ StrongestUpgraded' /\ ReportInv'
BY DEF SpentInv, BlocksInv, StrongestUpgraded, ReportInv

LEMMA AllocationNext ==
  ASSUME AllocationInv, NeverFails, [Next]_vars
  PROVE  AllocationInv' /\ NeverFails'
<1>1. /\ Types /\ MetInv /\ ChoiceInv /\ SharesInv
      /\ SpentInv /\ BlocksInv /\ StrongestUpgraded /\ ReportInv
  BY DEF AllocationInv
<1>2. Types' /\ MetInv'
  BY <1>1, InvNext
<1> SUFFICES ChoiceInv' /\ SharesInv' /\ SpentInv' /\ BlocksInv'
               /\ StrongestUpgraded' /\ ReportInv' /\ NeverFails'
  BY <1>2 DEF AllocationInv
<1>3. CASE Rank
  <2>1. pc = "rank" /\ request' = request /\ pc' # "failed"
    BY <1>3 DEF Rank
  <2>2. request.kind # "bits"
    BY <1>1, <2>1 DEF ChoiceInv
  <2> QED BY <1>1, <1>3, <2>1, <2>2, RankShares, OtherKind DEF NeverFails
<1>4. CASE NextLayer
  <2>1. pc = "minimums" /\ request' = request
    BY <1>4 DEF NextLayer
  <2>2. request.kind # "bits"
    BY <1>1, <2>1 DEF ChoiceInv
  <2> QED BY <1>1, <1>4, <2>1, <2>2, NextLayerShares, OtherKind DEF NeverFails
<1>5. CASE Swap
  <2>1. pc = "minimums" /\ request' = request
    BY <1>5 DEF Swap
  <2>2. request.kind # "bits"
    BY <1>1, <2>1 DEF ChoiceInv
  <2> QED BY <1>1, <1>5, <2>1, <2>2, SwapShares, OtherKind DEF NeverFails
<1>6. CASE Finish
  <2>1. pc = "finish" /\ request' = request
    BY <1>6 DEF Finish
  <2>2. request.kind # "bits"
    BY <1>1, <2>1 DEF ChoiceInv
  <2> QED BY <1>1, <1>6, <2>1, <2>2, FinishShares, OtherKind DEF NeverFails
<1>7. CASE Upgrade
  BY <1>1, <1>7, UpgradeSpent DEF NeverFails
<1>8. CASE Report
  BY <1>1, <1>8, ReportSpent DEF NeverFails
<1>9. CASE UNCHANGED vars
  <2>1. UNCHANGED <<request, benefit, counts, chosen, layer, remaining, percent, pc>>
    BY <1>9 DEF vars
  <2>2. /\ Channels' = Channels /\ Total' = Total /\ Layer' = Layer
        /\ Required' = Required /\ Bits' = Bits /\ Taken' = Taken
        /\ Movable' = Movable /\ Partition' = Partition
        /\ \A l \in Layer, bit \in Upgraded : InBlocks(bit, l)' = InBlocks(bit, l)
    BY <2>1 DEF Channels, Total, Layer, Of, Required, Bits, Taken, Movable,
                Cost, Partition, InBlocks
  <2>3. ChoiceInv' /\ SharesInv'
    BY <1>1, <2>1, <2>2 DEF ChoiceInv, BenefitType, SharesInv
  <2>4. SpentInv' /\ BlocksInv'
    BY <1>1, <2>1, <2>2 DEF SpentInv, BlocksInv
  <2>5. StrongestUpgraded' /\ ReportInv' /\ NeverFails'
    BY <1>1, <2>1, <2>2 DEF StrongestUpgraded, ReportInv, PercentagesHonest,
                            NeverFails
  <2> QED BY <2>3, <2>4, <2>5
<1> QED BY <1>3, <1>4, <1>5, <1>6, <1>7, <1>8, <1>9 DEF Next

LEMMA AllocationHolds == Spec => [](AllocationInv /\ NeverFails)
<1>1. Init => AllocationInv /\ NeverFails
  <2> SUFFICES ASSUME Init PROVE AllocationInv /\ NeverFails
    OBVIOUS
  <2>1. pc # "failed"
    BY DEF Init
  <2> QED BY <2>1, InitInv, InitSpent DEF AllocationInv, NeverFails
<1>2. AllocationInv /\ NeverFails /\ [Next]_vars
        => AllocationInv' /\ NeverFails'
  BY AllocationNext
<1> QED BY <1>1, <1>2, PTL DEF Spec

\* No allocation fails, of any of the three functions: a layer below its
\* minimum always finds a layer that can give a channel, a finished allocation
\* is a partition with the counts it was to have, and the percentages of
\* allocate_model_channels_auto make 100.
THEOREM AllocationNeverFails == Spec => []NeverFails
BY AllocationHolds, PTL

\* An allocation that is returned is a partition of all channels into as many of
\* each precision as the rounding of the budget, or the report, says: the swaps
\* neither lose a channel nor change a count.
THEOREM CountsAreExact == Spec => []ExactCounts
<1>1. AllocationInv => ExactCounts
  <2> SUFFICES ASSUME AllocationInv, pc = "done"
               PROVE  /\ \A bit \in Levels : Cardinality(chosen[bit]) = counts[bit]
                      /\ UNION {chosen[bit] : bit \in Levels} = Channels
                      /\ counts[4] + counts[8] + counts[16] = Total
    BY DEF ExactCounts
  <2>1. UNION {chosen[bit] : bit \in Levels} = chosen[4] \cup chosen[8] \cup chosen[16]
    BY DEF Levels
  <2>2. /\ Types /\ ChoiceInv /\ SharesInv /\ SpentInv /\ ReportInv
        /\ request \in Requests
    BY DEF AllocationInv, Types
  <2>3. CASE request.kind = "bits"
    BY <2>1, <2>2, <2>3 DEF SpentInv, Partition, ReportInv
  <2>4. CASE request.kind # "bits"
    <3>1. /\ chosen[8] \cap chosen[16] = {} /\ chosen \in [Levels -> SUBSET Channels]
          /\ chosen[4] = Channels \ (chosen[8] \cup chosen[16])
          /\ counts \in [Levels -> Nat] /\ counts[4] + counts[8] + counts[16] = Total
          /\ Cardinality(chosen[8]) = counts[8] /\ Cardinality(chosen[16]) = counts[16]
      BY <2>2, <2>4 DEF SharesInv, ChoiceInv, Upgraded
    <3>2. Cardinality(chosen[4]) = Total - counts[8] - counts[16]
      BY <2>2, <3>1, RestCount
    <3>3. counts[4] \in Nat /\ counts[8] \in Nat /\ counts[16] \in Nat
      BY <3>1 DEF Levels
    <3>4. Cardinality(chosen[4]) = counts[4]
      BY <3>1, <3>2, <3>3
    <3>5. chosen[8] \subseteq Channels /\ chosen[16] \subseteq Channels
      BY <3>1 DEF Levels
    <3> QED BY <2>1, <3>1, <3>4, <3>5 DEF Levels
  <2> QED BY <2>3, <2>4
<1> QED BY <1>1, AllocationHolds, PTL

\* allocate_model_channels_auto never spends more bits than the average allows,
\* accounts for every bit, and stops only when no layer has a block it can pay.
THEOREM BitsAccountedFor == Spec => []BudgetSpent
<1>1. AllocationInv => BudgetSpent
  <2> SUFFICES ASSUME AllocationInv, request.kind = "bits"
               PROVE  BudgetSpent
    BY DEF BudgetSpent
  <2>1. remaining \in Nat /\ Taken + remaining = Bits /\ (pc = "done" => Movable = {})
    BY DEF AllocationInv, SpentInv
  <2> QED BY <2>1 DEF BudgetSpent, Taken
<1> QED BY <1>1, AllocationHolds, PTL

\* Each layer has whole blocks of INT8 and of FP16 channels, which the kernel
\* relies on, at every moment of the upgrade.
THEOREM UpgradesInBlocks == Spec => []BlocksAligned
<1>1. AllocationInv => BlocksAligned
  BY DEF AllocationInv, BlocksInv, InBlocks, BlocksAligned
<1> QED BY <1>1, AllocationHolds, PTL

\* Within a layer the channels that leave INT4 are the ones that gain most by
\* it, whatever else the other layers bought in between.
THEOREM UpgradesTheStrongest == Spec => []StrongestUpgraded
<1>1. AllocationInv => StrongestUpgraded
  BY DEF AllocationInv
<1> QED BY <1>1, AllocationHolds, PTL

\* A reported percentage is less than one off the share it stands for, and zero
\* where there are no channels.
THEOREM PercentagesAreHonest == Spec => []PercentagesHonest
<1>1. AllocationInv => PercentagesHonest
  BY DEF AllocationInv, ReportInv, PercentagesHonest
<1> QED BY <1>1, AllocationHolds, PTL
===============================================================================
