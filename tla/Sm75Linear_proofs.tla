-------------------------- MODULE Sm75Linear_proofs --------------------------
(***************************************************************************)
(* Theorems about Sm75Linear: its types, the coherence of the expansion    *)
(* cache for every heap, the soundness of the cached partition check for a *)
(* heap that never hands out an address twice, the block a captured graph  *)
(* reads, and, on one stream, what every GEMM finds in memory.             *)
(***************************************************************************)
EXTENDS Sm75Linear, TLAPS

\* Reallocating buffers keeps their types.
LEMMA ReallocateType ==
  ASSUME TypeOK, NEW S \in SUBSET Buffers, NEW v \in Nat, NEW val,
         \A b \in S : val[b] \in Value(b), Reallocate(S, v, val)
  PROVE  /\ tensor' = [b \in Buffers |-> tensor'[b]]
         /\ \A b \in Buffers :
              tensor'[b] \in [id : Addr, version : Nat, val : Value(b)]
         /\ taken' \in [Buffers -> SUBSET Addr]
<1>1. PICK id \in [S -> Addr] :
        /\ tensor' = [b \in Buffers |->
                        IF b \in S
                          THEN [id |-> id[b], version |-> v, val |-> val[b]]
                          ELSE tensor[b]]
        /\ taken' = [b \in Buffers |->
                       IF b \notin S THEN taken[b]
                       ELSE IF Recycle THEN {id[b]} ELSE taken[b] \cup {id[b]}]
  BY DEF Reallocate
<1>2. \A b \in Buffers :
        tensor'[b] \in [id : Addr, version : Nat, val : Value(b)]
  BY <1>1 DEF TypeOK
<1>3. taken' \in [Buffers -> SUBSET Addr]
  BY <1>1 DEF TypeOK
<1> QED BY <1>1, <1>2, <1>3

\* The content of the packed weights is a content a block can hold.
LEMMA ExpansionType == ASSUME TypeOK PROVE Expansion \in Content
BY DEF TypeOK, Expansion, Content, Value, Buffers, PackedBuffers, IndexBuffers

LEMMA GemmType ==
  ASSUME TypeOK, NEW buf \in Buf \cup {None}
  PROVE  Gemm(buf) \in Op
BY ExpansionType DEF Gemm, Op, PartitionComplete

LEMMA OutdatedType ==
  ASSUME TypeOK, Outdated
  PROVE  graph' = None \/ graph' \in [gemm : Op, intact : BOOLEAN]
BY DEF TypeOK, Outdated

LEMMA InitType == Init => TypeOK
<1> SUFFICES ASSUME Init PROVE TypeOK
  OBVIOUS
<1>1. PICK a \in Addr,
           c \in {d \in Checkpoints : DOMAIN d = Buffers} \cup {EmptyModule} :
        /\ tensor = [b \in Buffers |-> [id |-> a, version |-> 0, val |-> c[b]]]
        /\ taken = [b \in Buffers |-> {a}]
  BY DEF Init
<1>2. \A b \in Buffers : c[b] \in Value(b)
  <2>1. CASE c \in {d \in Checkpoints : DOMAIN d = Buffers}
    BY <2>1, CheckpointsAssumption
  <2>2. CASE c = EmptyModule
    <3>1. /\ <<>> \in Seq(Nat)
          /\ [tag |-> CHOOSE t \in Tag : TRUE, rows |-> 0] \in PackedValue
      BY TagAssumption DEF PackedValue
    <3> QED BY <2>2, <3>1 DEF EmptyModule, Value
  <2> QED BY <2>1, <2>2
<1>3. queue \in [Streams -> Seq(Op)]
  BY DEF Init
<1>4. mem \in [Buf -> Content]
  BY DEF Init, Content
<1> QED BY <1>1, <1>2, <1>3, <1>4 DEF Init, TypeOK, Device

\* The forward keeps every type.
LEMMA ForwardType ==
  ASSUME TypeOK, NEW s \in Streams, NEW rows \in Rows, Forward(s, rows)
  PROVE  TypeOK'
<1>1. /\ validated' = None \/ DOMAIN validated' = IndexBuffers
  BY DEF Forward, PartitionSig
<1>2. /\ expanded' = None \/ (expanded'.buf \in Buf /\ expanded'.built \in Content)
      /\ queue' \in [Streams -> Seq(Op)]
  <2> DEFINE launched(ops, buf) ==
        [queue EXCEPT ![s] = @ \o ops \o
           IF ShapesFit THEN <<Gemm(buf)>> ELSE <<>>]
  <2>1. ASSUME NEW ops \in Seq(Op), NEW buf \in Buf \cup {None}
        PROVE  launched(ops, buf) \in [Streams -> Seq(Op)]
    <3>1. (IF ShapesFit THEN <<Gemm(buf)>> ELSE <<>>) \in Seq(Op)
      BY GemmType
    <3>2. queue[s] \o ops \o (IF ShapesFit THEN <<Gemm(buf)>> ELSE <<>>) \in Seq(Op)
      BY <3>1 DEF TypeOK
    <3> QED BY <3>2 DEF TypeOK
  <2>2. CASE UNCHANGED <<expanded, queue>>
    BY <2>2 DEF TypeOK
  <2>3. CASE queue' = launched(<<>>, None) /\ UNCHANGED expanded
    BY <2>1, <2>3 DEF TypeOK
  <2>4. CASE Hit /\ queue' = launched(<<>>, expanded.buf) /\ UNCHANGED expanded
    <3>1. expanded.buf \in Buf
      BY <2>4 DEF TypeOK, Hit
    <3> QED BY <2>1, <2>4, <3>1 DEF TypeOK
  <2>5. ASSUME NEW slot \in Slots,
               expanded' = [sig |-> ExpansionSig, buf |-> <<s, slot>>,
                            built |-> Expansion],
               queue' = launched(<<[op |-> "write", buf |-> <<s, slot>>,
                                    val |-> Expansion]>>, <<s, slot>>)
        PROVE  /\ expanded'.buf \in Buf /\ expanded'.built \in Content
               /\ queue' \in [Streams -> Seq(Op)]
    <3>1. <<s, slot>> \in Buf
      BY DEF Buf
    <3>2. <<[op |-> "write", buf |-> <<s, slot>>, val |-> Expansion]>> \in Seq(Op)
      BY <3>1, ExpansionType DEF Op
    <3> QED BY <2>1, <2>5, <3>1, <3>2, ExpansionType
  <2> QED BY <2>2, <2>3, <2>4, <2>5 DEF Forward, UsesCache
<1> QED BY <1>1, <1>2 DEF Forward, TypeOK, heap

\* Every step keeps every type.
LEMMA NextType == TypeOK /\ [Next]_vars => TypeOK'
<1> SUFFICES ASSUME TypeOK, [Next]_vars PROVE TypeOK'
  OBVIOUS
<1>1. ASSUME NEW c \in Checkpoints, Load(c) PROVE TypeOK'
  <2>1. \A b \in Buffers : WithLegacyDefaults(c)[b] \in Value(b)
    BY CheckpointsAssumption DEF WithLegacyDefaults, TypeOK
  <2>2. DOMAIN c \cup {"indices_16"} \in SUBSET Buffers
    BY CheckpointsAssumption DEF Buffers, IndexBuffers
  <2>3. /\ tensor' = [b \in Buffers |-> tensor'[b]]
        /\ \A b \in Buffers :
             tensor'[b] \in [id : Addr, version : Nat, val : Value(b)]
        /\ taken' \in [Buffers -> SUBSET Addr]
    BY <1>1, <2>1, <2>2, ReallocateType DEF Load
  <2> QED BY <1>1, <2>3, OutdatedType DEF Load, TypeOK, gpu
<1>2. ASSUME NEW d \in Device, Apply(d) PROVE TypeOK'
  <2>1. /\ tensor' = [b \in Buffers |-> tensor'[b]]
        /\ \A b \in Buffers :
             tensor'[b] \in [id : Addr, version : Nat, val : Value(b)]
        /\ taken' \in [Buffers -> SUBSET Addr]
    <3>1. CASE d = device
      BY <1>2, <3>1 DEF Apply, TypeOK
    <3>2. CASE d # device
      <4>1. Reallocate(Buffers, 0, [b \in Buffers |-> tensor[b].val])
        BY <1>2, <3>2 DEF Apply
      <4>2. \A b \in Buffers : [x \in Buffers |-> tensor[x].val][b] \in Value(b)
        BY DEF TypeOK
      <4> QED BY <4>1, <4>2, ReallocateType
    <3> QED BY <3>1, <3>2
  <2> QED BY <1>2, <2>1, OutdatedType DEF Apply, TypeOK, gpu
<1>3. ASSUME NEW c \in Checkpoints, NEW b \in DOMAIN c \cap Writable,
             InPlace(b, c[b])
      PROVE  TypeOK'
  <2>1. b \in Buffers /\ c[b] \in Value(b)
    BY CheckpointsAssumption
  <2>2. tensor' = [tensor EXCEPT ![b].version = @ + 1, ![b].val = c[b]]
    BY <1>3 DEF InPlace
  <2>3. tensor' = [x \in Buffers |-> tensor'[x]]
    BY <2>2 DEF TypeOK
  <2>4. ASSUME NEW x \in Buffers
        PROVE  tensor'[x] \in [id : Addr, version : Nat, val : Value(x)]
    <3>1. DOMAIN tensor = Buffers
      BY DEF TypeOK
    <3>2. CASE x # b
      BY <2>2, <3>1, <3>2 DEF TypeOK
    <3>3. CASE x = b
      <4>1. tensor[b] \in [id : Addr, version : Nat, val : Value(b)]
        BY <2>1 DEF TypeOK
      <4>2. tensor'[b] = [id |-> tensor[b].id, version |-> tensor[b].version + 1,
                          val |-> c[b]]
        BY <2>1, <2>2, <3>1, <4>1
      <4> QED BY <2>1, <3>3, <4>1, <4>2
    <3> QED BY <3>2, <3>3
  <2> QED BY <1>3, <2>3, <2>4, OutdatedType DEF InPlace, TypeOK, gpu
<1>4. ASSUME NEW s \in Streams, NEW rows \in Rows, Forward(s, rows) PROVE TypeOK'
  BY <1>4, ForwardType
<1>5. ASSUME NEW rows \in Rows, CaptureForward(rows) PROVE TypeOK'
  <2>1. (IF HasInt4 THEN expanded.buf ELSE None) \in Buf \cup {None}
    BY <1>5 DEF CaptureForward, Hit, TypeOK
  <2>2. graph' \in [gemm : Op, intact : BOOLEAN]
    BY <1>5, <2>1, GemmType DEF CaptureForward
  <2> QED BY <1>5, <2>2 DEF CaptureForward, TypeOK, heap, gpu
<1>6. ASSUME NEW s \in Streams, Replay(s) PROVE TypeOK'
  <2>1. graph \in [gemm : Op, intact : BOOLEAN]
    BY <1>6 DEF Replay, TypeOK
  <2>2. ASSUME NEW w \in {"replay", "stale"}
        PROVE  [graph.gemm EXCEPT !.from = w] \in Op
    BY <2>1 DEF Op
  <2>3. PICK o \in Op : queue' = [queue EXCEPT ![s] = Append(@, o)]
    BY <1>6, <2>2 DEF Replay
  <2>4. queue' \in [Streams -> Seq(Op)]
    BY <2>3 DEF TypeOK
  <2> QED BY <1>6, <2>4 DEF Replay, TypeOK, heap
<1>7. ASSUME NEW s \in Streams, NEW slot \in Slots, ReuseBlock(s, slot)
      PROVE  TypeOK'
  <2>1. [op |-> "write", buf |-> <<s, slot>>, val |-> Garbage] \in Op
    BY DEF Op, Buf, Content
  <2>2. queue' \in [Streams -> Seq(Op)]
    BY <1>7, <2>1 DEF ReuseBlock, TypeOK
  <2> QED BY <1>7, <2>2 DEF ReuseBlock, TypeOK, heap
<1>8. ASSUME NEW s \in Streams, Execute(s) PROVE TypeOK'
  <2>1. queue[s] \in Seq(Op) /\ queue[s] # <<>>
    BY <1>8 DEF Execute, TypeOK
  <2>2. Head(queue[s]) \in Op /\ Tail(queue[s]) \in Seq(Op)
    BY <2>1
  <2>3. queue' \in [Streams -> Seq(Op)]
    BY <1>8, <2>2 DEF Execute, TypeOK
  <2>4. mem' \in [Buf -> Content]
    BY <1>8, <2>2 DEF Execute, TypeOK, Op
  <2> QED BY <1>8, <2>3, <2>4 DEF Execute, TypeOK, heap
<1>9. CASE UNCHANGED vars
  BY <1>9 DEF vars, TypeOK
<1> QED BY <1>1, <1>2, <1>3, <1>4, <1>5, <1>6, <1>7, <1>8, <1>9 DEF Next

\* Every reachable state is well typed.
THEOREM TypeCorrect == Spec => []TypeOK
<1> QED BY InitType, NextType, PTL DEF Spec

(***************************************************************************)
(* The expansion cache.  CacheHitIsCurrent is not inductive: an in-place   *)
(* write must also be known to move past the version in the signature.     *)
(***************************************************************************)
CacheInv ==
  expanded # None =>
    /\ \A b \in PackedBuffers : /\ expanded.sig[b][2] \in Nat
                                /\ expanded.sig[b][2] <= tensor[b].version
    /\ expanded.sig = ExpansionSig => expanded.built = Expansion

LEMMA CacheInvStep == TypeOK /\ CacheInv /\ [Next]_vars => CacheInv'
<1> SUFFICES ASSUME TypeOK, CacheInv, [Next]_vars PROVE CacheInv'
  OBVIOUS
<1>1. CASE expanded' = None
  BY <1>1 DEF CacheInv
<1>2. ASSUME UNCHANGED <<tensor, device, expanded>> PROVE CacheInv'
  BY <1>2 DEF CacheInv, ExpansionSig, Expansion
<1>3. ASSUME NEW c \in Checkpoints, NEW b \in DOMAIN c \cap Writable,
             InPlace(b, c[b])
      PROVE  CacheInv'
  <2>1. b \in Buffers /\ DOMAIN tensor = Buffers
    BY CheckpointsAssumption DEF TypeOK
  <2>2. /\ tensor'[b].version = tensor[b].version + 1
        /\ \A x \in Buffers \ {b} : tensor'[x] = tensor[x]
        /\ UNCHANGED <<device, expanded>>
    BY <1>3, <2>1 DEF InPlace, TypeOK
  <2>3. \A x \in PackedBuffers : tensor[x].version \in Nat
    BY DEF TypeOK, Buffers
  <2>4. CASE b \in IndexBuffers
    <3>1. \A x \in PackedBuffers : tensor'[x] = tensor[x]
      BY <2>2, <2>4 DEF Buffers, IndexBuffers, PackedBuffers
    <3>2. ExpansionSig' = ExpansionSig /\ Expansion' = Expansion
      BY <2>2, <3>1 DEF ExpansionSig, Expansion, PackedBuffers
    <3> QED BY <2>2, <3>1, <3>2 DEF CacheInv
  <2>5. CASE b \in PackedBuffers
    <3> SUFFICES ASSUME expanded # None
                 PROVE  /\ \A x \in PackedBuffers :
                             /\ expanded.sig[x][2] \in Nat
                             /\ expanded.sig[x][2] <= tensor'[x].version
                        /\ expanded.sig # ExpansionSig'
      BY <2>2 DEF CacheInv
    <3>1. \A x \in PackedBuffers : /\ expanded.sig[x][2] \in Nat
                                   /\ expanded.sig[x][2] <= tensor[x].version
      BY DEF CacheInv
    <3>2. expanded.sig = ExpansionSig' =>
            expanded.sig[b][2] = tensor[b].version + 1
      BY <2>2, <2>5 DEF ExpansionSig
    <3>3. expanded.sig[b][2] = tensor[b].version + 1 => FALSE
      BY <2>3, <2>5, <3>1
    <3>4. ASSUME NEW x \in PackedBuffers
          PROVE  /\ expanded.sig[x][2] \in Nat
                 /\ expanded.sig[x][2] <= tensor'[x].version
      <4>1. CASE x = b
        <5>1. tensor'[x].version = tensor[x].version + 1
          BY <2>2, <4>1
        <5> QED BY <2>3, <3>1, <5>1
      <4>2. CASE x # b
        BY <2>2, <3>1, <4>2 DEF Buffers
      <4> QED BY <4>1, <4>2
    <3> QED BY <3>2, <3>3, <3>4
  <2> QED BY <2>1, <2>4, <2>5 DEF Buffers
<1>4. ASSUME NEW s \in Streams, NEW rows \in Rows, Forward(s, rows)
      PROVE  CacheInv'
  <2>1. CASE UNCHANGED expanded
    BY <1>2, <1>4, <2>1 DEF Forward, heap
  <2>2. ASSUME NEW slot \in Slots,
               expanded' = [sig |-> ExpansionSig, buf |-> <<s, slot>>,
                            built |-> Expansion]
        PROVE  CacheInv'
    <3>1. UNCHANGED <<tensor, device>>
      BY <1>4 DEF Forward, heap
    <3>2. ExpansionSig' = ExpansionSig /\ Expansion' = Expansion
      BY <3>1 DEF ExpansionSig, Expansion
    <3>3. expanded'.sig = ExpansionSig /\ expanded'.built = Expansion
      BY <2>2
    <3>4. \A b \in PackedBuffers : expanded'.sig[b][2] = tensor[b].version
      BY <3>3 DEF ExpansionSig
    <3>5. \A b \in PackedBuffers : tensor[b].version \in Nat
      BY DEF TypeOK, Buffers
    <3>6. \A b \in PackedBuffers : /\ expanded'.sig[b][2] \in Nat
                                   /\ expanded'.sig[b][2] <= tensor'[b].version
      BY <3>1, <3>4, <3>5
    <3> QED BY <3>2, <3>3, <3>6 DEF CacheInv
  <2> QED BY <1>4, <2>1, <2>2 DEF Forward
<1> QED
  BY <1>1, <1>2, <1>3, <1>4
     DEF Next, Load, Apply, CaptureForward, Replay, ReuseBlock, Execute, heap, vars

\* Whatever addresses the heap recycles, a cached expansion whose signature
\* matches is the expansion of the packed weights the module holds.
THEOREM ExpansionCacheCoherent == Spec => []CacheHitIsCurrent
<1>1. Init => CacheInv
  BY DEF Init, CacheInv
<1>2. CacheInv => CacheHitIsCurrent
  BY DEF CacheInv, CacheHitIsCurrent, Hit
<1> QED BY <1>1, <1>2, CacheInvStep, TypeCorrect, PTL DEF Spec

(***************************************************************************)
(* The cached verdict, on a heap that never hands out an address twice: a  *)
(* signature that matched once stops matching for good when a buffer is    *)
(* replaced (its address is gone) or written (its version has moved on).   *)
(***************************************************************************)
VerdictInv ==
  /\ \A b \in IndexBuffers : tensor[b].id \in taken[b]
  /\ validated # None =>
       /\ \A b \in IndexBuffers :
            /\ validated[b][1] \in taken[b]
            /\ validated[b][2] \in Nat
            /\ validated[b][1] = tensor[b].id => validated[b][2] <= tensor[b].version
       /\ validated = PartitionSig => PartitionComplete

LaunchInv ==
  /\ LaunchedPartitionComplete
  /\ graph # None => graph.gemm.complete

LEMMA SignatureIsNotNone == ASSUME TypeOK PROVE PartitionSig # None
<1>1. \A b \in IndexBuffers :
        <<tensor[b].id, tensor[b].version, Len(tensor[b].val), device>>
          \in Addr \X Nat \X Nat \X Device
  <2> SUFFICES ASSUME NEW b \in IndexBuffers
               PROVE  <<tensor[b].id, tensor[b].version, Len(tensor[b].val), device>>
                        \in Addr \X Nat \X Nat \X Device
    OBVIOUS
  <2>1. tensor[b] \in [id : Addr, version : Nat, val : Seq(Nat)]
    BY DEF TypeOK, Buffers, Value
  <2>2. Len(tensor[b].val) \in Nat /\ device \in Device
    BY <2>1 DEF TypeOK
  <2> QED BY <2>1, <2>2
<1>2. PartitionSig \in [IndexBuffers -> Addr \X Nat \X Nat \X Device]
  BY <1>1 DEF PartitionSig
<1> QED BY <1>2, NoneAssumption

\* A partition that passes the check, or hits its cached verdict, is complete.
LEMMA ValidatesComplete ==
  ASSUME TypeOK, VerdictInv, NEW capturing \in BOOLEAN, Validates(capturing)
  PROVE  PartitionComplete
BY SignatureIsNotNone DEF VerdictInv, Validates

\* Replacing an index buffer on such a heap makes the cached signature miss.
LEMMA ReallocateMisses ==
  ASSUME TypeOK, VerdictInv, Recycle = FALSE, NEW S \in SUBSET Buffers,
         NEW x \in S \cap IndexBuffers, NEW v \in Nat, NEW val,
         Reallocate(S, v, val), UNCHANGED validated
  PROVE  VerdictInv'
<1>1. PICK id \in [S -> Addr] :
        /\ \A b \in S : id[b] \notin taken[b]
        /\ tensor' = [b \in Buffers |->
                        IF b \in S
                          THEN [id |-> id[b], version |-> v, val |-> val[b]]
                          ELSE tensor[b]]
        /\ taken' = [b \in Buffers |->
                       IF b \notin S THEN taken[b] ELSE taken[b] \cup {id[b]}]
  BY DEF Reallocate
<1>2. ASSUME NEW b \in IndexBuffers
      PROVE  /\ taken[b] \subseteq taken'[b]
             /\ b \in S => /\ tensor'[b].id \in taken'[b]
                           /\ tensor'[b].id \notin taken[b]
             /\ b \notin S => tensor'[b] = tensor[b]
  BY <1>1 DEF Buffers
<1>3. \A b \in IndexBuffers : tensor'[b].id \in taken'[b]
  BY <1>2 DEF VerdictInv
<1>4. ASSUME validated' # None
      PROVE  /\ \A b \in IndexBuffers :
                  /\ validated'[b][1] \in taken'[b]
                  /\ validated'[b][2] \in Nat
                  /\ validated'[b][1] = tensor'[b].id =>
                       validated'[b][2] <= tensor'[b].version
             /\ validated' # PartitionSig'
  <2>1. \A b \in IndexBuffers :
          /\ validated'[b][1] \in taken[b]
          /\ validated'[b][2] \in Nat
          /\ validated'[b][1] = tensor[b].id =>
               validated'[b][2] <= tensor[b].version
    BY <1>4 DEF VerdictInv
  <2>2. validated'[x][1] # tensor'[x].id
    BY <1>2, <2>1
  <2>3. PartitionSig'[x][1] = tensor'[x].id
    BY DEF PartitionSig
  <2> QED BY <1>2, <2>1, <2>2, <2>3
<1> QED BY <1>3, <1>4 DEF VerdictInv

LEMMA VerdictInvStep ==
  ASSUME Recycle = FALSE
  PROVE  TypeOK /\ VerdictInv /\ [Next]_vars => VerdictInv'
<1> SUFFICES ASSUME TypeOK, VerdictInv, [Next]_vars PROVE VerdictInv'
  OBVIOUS
<1>1. ASSUME UNCHANGED <<tensor, taken, device, validated>> PROVE VerdictInv'
  BY <1>1 DEF VerdictInv, PartitionSig, PartitionComplete
<1>2. ASSUME NEW c \in Checkpoints, Load(c) PROVE VerdictInv'
  <2>1. /\ DOMAIN c \cup {"indices_16"} \in SUBSET Buffers
        /\ "indices_16" \in (DOMAIN c \cup {"indices_16"}) \cap IndexBuffers
    BY CheckpointsAssumption DEF Buffers, IndexBuffers
  <2> QED BY <1>2, <2>1, ReallocateMisses DEF Load
<1>3. ASSUME NEW d \in Device, Apply(d) PROVE VerdictInv'
  <2>1. CASE d = device
    BY <1>1, <1>3, <2>1 DEF Apply
  <2>2. CASE d # device
    <3>1. "indices_4" \in Buffers \cap IndexBuffers
      BY DEF Buffers, IndexBuffers
    <3> QED BY <1>3, <2>2, <3>1, ReallocateMisses DEF Apply
  <2> QED BY <2>1, <2>2
<1>4. ASSUME NEW c \in Checkpoints, NEW b \in DOMAIN c \cap Writable,
             InPlace(b, c[b])
      PROVE  VerdictInv'
  <2>1. b \in Buffers /\ DOMAIN tensor = Buffers
    BY CheckpointsAssumption DEF TypeOK
  <2>2. /\ tensor'[b].version = tensor[b].version + 1
        /\ tensor'[b].id = tensor[b].id
        /\ \A x \in Buffers \ {b} : tensor'[x] = tensor[x]
        /\ UNCHANGED <<taken, device, validated>>
    BY <1>4, <2>1 DEF InPlace, TypeOK
  <2>3. \A x \in IndexBuffers : tensor[x].version \in Nat
    BY DEF TypeOK, Buffers
  <2>4. CASE b \notin IndexBuffers
    <3>1. \A x \in IndexBuffers : tensor'[x] = tensor[x]
      BY <2>2, <2>4 DEF Buffers
    <3>2. PartitionSig' = PartitionSig
      BY <2>2, <3>1 DEF PartitionSig
    <3>3. PartitionComplete' = PartitionComplete
      BY <3>1 DEF PartitionComplete, IndexBuffers
    <3> QED BY <2>2, <3>1, <3>2, <3>3 DEF VerdictInv
  <2>5. CASE b \in IndexBuffers
    <3>1. \A x \in IndexBuffers :
            /\ tensor'[x].id = tensor[x].id
            /\ tensor'[x].version = tensor[x].version
                 \/ tensor'[x].version = tensor[x].version + 1
      BY <2>2, <2>5 DEF Buffers
    <3>2. ASSUME validated' # None
          PROVE  /\ \A x \in IndexBuffers :
                      /\ validated'[x][1] \in taken'[x]
                      /\ validated'[x][2] \in Nat
                      /\ validated'[x][1] = tensor'[x].id =>
                           validated'[x][2] <= tensor'[x].version
                 /\ validated' # PartitionSig'
      <4>1. \A x \in IndexBuffers :
              /\ validated[x][1] \in taken[x]
              /\ validated[x][2] \in Nat
              /\ validated[x][1] = tensor[x].id =>
                   validated[x][2] <= tensor[x].version
        BY <2>2, <3>2 DEF VerdictInv
      <4>2. /\ PartitionSig'[b][1] = tensor[b].id
            /\ PartitionSig'[b][2] = tensor[b].version + 1
        BY <2>2, <2>5 DEF PartitionSig
      <4>3. validated # PartitionSig'
        BY <2>3, <2>5, <4>1, <4>2
      <4> QED BY <2>2, <2>3, <3>1, <4>1, <4>3
    <3> QED BY <2>2, <3>1, <3>2 DEF VerdictInv
  <2> QED BY <2>4, <2>5
<1>5. ASSUME NEW s \in Streams, NEW rows \in Rows, Forward(s, rows)
      PROVE  VerdictInv'
  <2>1. /\ UNCHANGED <<tensor, taken, device>>
        /\ validated' = PartitionSig
        /\ PartitionComplete
    BY <1>5, ValidatesComplete DEF Forward, heap
  <2>2. /\ PartitionSig' = PartitionSig
        /\ PartitionComplete'
    BY <2>1 DEF PartitionSig, PartitionComplete
  <2>3. \A b \in IndexBuffers : /\ validated'[b][1] = tensor[b].id
                                /\ validated'[b][2] = tensor[b].version
    BY <2>1 DEF PartitionSig
  <2>4. \A b \in IndexBuffers : tensor[b].version \in Nat
    BY DEF TypeOK, Buffers
  <2> QED BY <2>1, <2>2, <2>3, <2>4 DEF VerdictInv
<1> QED
  BY <1>1, <1>2, <1>3, <1>4, <1>5
     DEF Next, CaptureForward, Replay, ReuseBlock, Execute, heap, vars

LEMMA LaunchInvStep ==
  TypeOK /\ VerdictInv /\ LaunchInv /\ [Next]_vars => LaunchInv'
<1> SUFFICES ASSUME TypeOK, VerdictInv, LaunchInv, [Next]_vars PROVE LaunchInv'
  OBVIOUS
<1>1. ASSUME UNCHANGED queue, Outdated PROVE LaunchInv'
  <2>1. LaunchedPartitionComplete'
    BY <1>1 DEF LaunchInv, LaunchedPartitionComplete
  <2>2. CASE graph = None
    BY <1>1, <2>1, <2>2 DEF LaunchInv, Outdated
  <2>3. CASE graph # None
    <3>1. graph \in [gemm : Op, intact : BOOLEAN] /\ graph.gemm.complete
      BY <2>3 DEF TypeOK, LaunchInv
    <3>2. graph'.gemm = graph.gemm
      BY <1>1, <2>3, <3>1 DEF Outdated
    <3> QED BY <2>1, <3>1, <3>2 DEF LaunchInv
  <2> QED BY <2>2, <2>3
<1>2. ASSUME NEW s \in Streams, NEW rows \in Rows, Forward(s, rows)
      PROVE  LaunchInv'
  <2>1. PartitionComplete
    BY <1>2, ValidatesComplete DEF Forward
  <2>2. ASSUME NEW ops \in Seq(Op), NEW buf \in Buf \cup {None},
               \A i \in 1 .. Len(ops) : ops[i].op # "gemm",
               queue' = [queue EXCEPT ![s] = @ \o ops \o
                           IF ShapesFit THEN <<Gemm(buf)>> ELSE <<>>]
        PROVE  LaunchedPartitionComplete'
    <3> DEFINE last == IF ShapesFit THEN <<Gemm(buf)>> ELSE <<>>
    <3>1. last \in Seq(Op) /\ \A i \in 1 .. Len(last) : last[i].complete
      BY <2>1, GemmType DEF Gemm
    <3>2. queue[s] \in Seq(Op)
      BY DEF TypeOK
    <3>3. queue'[s] = queue[s] \o ops \o last
      BY <2>2 DEF TypeOK
    <3>4. \A i \in 1 .. Len(queue'[s]) :
            queue'[s][i].op = "gemm" => queue'[s][i].complete
      <4>1. \A i \in 1 .. Len(queue[s]) :
              queue[s][i].op = "gemm" => queue[s][i].complete
        BY DEF LaunchInv, LaunchedPartitionComplete
      <4> HIDE DEF last
      <4> QED BY <2>2, <3>1, <3>2, <3>3, <4>1
    <3>5. \A t \in Streams \ {s} : queue'[t] = queue[t]
      BY <2>2 DEF TypeOK
    <3> QED BY <3>4, <3>5 DEF LaunchInv, LaunchedPartitionComplete
  <2>3. ASSUME UNCHANGED queue PROVE LaunchedPartitionComplete'
    BY <2>3 DEF LaunchInv, LaunchedPartitionComplete
  <2>4. graph' = graph
    BY <1>2 DEF Forward
  <2>5. \A buf \in Buf \cup {None} :
          queue' = [queue EXCEPT ![s] = @ \o <<>> \o
                      IF ShapesFit THEN <<Gemm(buf)>> ELSE <<>>]
            => LaunchedPartitionComplete'
    <3> DEFINE ops == <<>>
    <3>1. ops \in Seq(Op) /\ \A i \in 1 .. Len(ops) : ops[i].op # "gemm"
      OBVIOUS
    <3> HIDE DEF ops
    <3>2. \A buf \in Buf \cup {None} :
            queue' = [queue EXCEPT ![s] = @ \o ops \o
                        IF ShapesFit THEN <<Gemm(buf)>> ELSE <<>>]
              => LaunchedPartitionComplete'
      BY <2>2, <3>1
    <3> QED BY <3>2 DEF ops
  <2>6. \A slot \in Slots :
          queue' = [queue EXCEPT ![s] =
                      @ \o <<[op |-> "write", buf |-> <<s, slot>>,
                              val |-> Expansion]>>
                        \o IF ShapesFit THEN <<Gemm(<<s, slot>>)>> ELSE <<>>]
            => LaunchedPartitionComplete'
    <3> SUFFICES ASSUME NEW slot \in Slots
                 PROVE  queue' = [queue EXCEPT ![s] =
                          @ \o <<[op |-> "write", buf |-> <<s, slot>>,
                                  val |-> Expansion]>>
                            \o IF ShapesFit THEN <<Gemm(<<s, slot>>)>> ELSE <<>>]
                        => LaunchedPartitionComplete'
      OBVIOUS
    <3> DEFINE ops == <<[op |-> "write", buf |-> <<s, slot>>, val |-> Expansion]>>
    <3>1. <<s, slot>> \in Buf
      BY DEF Buf
    <3>2. ops \in Seq(Op) /\ \A i \in 1 .. Len(ops) : ops[i].op # "gemm"
      BY <3>1, ExpansionType DEF Op
    <3> HIDE DEF ops
    <3>3. queue' = [queue EXCEPT ![s] =
                      @ \o ops \o IF ShapesFit THEN <<Gemm(<<s, slot>>)>> ELSE <<>>]
            => LaunchedPartitionComplete'
      BY <2>2, <3>1, <3>2
    <3> QED BY <3>3 DEF ops
  <2>7. Hit => expanded.buf \in Buf
    BY DEF Hit, TypeOK
  <2>8. LaunchedPartitionComplete'
    <3> DEFINE launched(ops, buf) ==
          [queue EXCEPT ![s] = @ \o ops \o
             IF ShapesFit THEN <<Gemm(buf)>> ELSE <<>>]
    <3>1. \/ UNCHANGED queue
          \/ queue' = launched(<<>>, None)
          \/ Hit /\ queue' = launched(<<>>, expanded.buf)
          \/ \E slot \in Slots :
               queue' = launched(<<[op |-> "write", buf |-> <<s, slot>>,
                                    val |-> Expansion]>>, <<s, slot>>)
      BY <1>2 DEF Forward, UsesCache
    <3> QED BY <2>3, <2>5, <2>6, <2>7, <3>1
  <2> QED BY <2>4, <2>8 DEF LaunchInv
<1>3. ASSUME NEW rows \in Rows, CaptureForward(rows) PROVE LaunchInv'
  <2>1. PartitionComplete
    BY <1>3, ValidatesComplete DEF CaptureForward
  <2>2. graph'.gemm.complete
    BY <1>3, <2>1 DEF CaptureForward, Gemm
  <2> QED
    BY <1>3, <2>2 DEF CaptureForward, LaunchInv, LaunchedPartitionComplete, gpu
<1>4. ASSUME NEW s \in Streams, Replay(s) PROVE LaunchInv'
  <2>1. graph \in [gemm : Op, intact : BOOLEAN] /\ graph.gemm.complete
    BY <1>4 DEF Replay, TypeOK, LaunchInv
  <2>2. PICK w \in {"replay", "stale"} :
          queue' = [queue EXCEPT ![s] = Append(@, [graph.gemm EXCEPT !.from = w])]
    BY <1>4 DEF Replay
  <2>3. [graph.gemm EXCEPT !.from = w].complete
    BY <2>1 DEF Op
  <2> QED
    BY <1>4, <2>2, <2>3
       DEF Replay, TypeOK, LaunchInv, LaunchedPartitionComplete
<1>5. ASSUME NEW s \in Streams, NEW slot \in Slots, ReuseBlock(s, slot)
      PROVE  LaunchInv'
  BY <1>5 DEF ReuseBlock, TypeOK, LaunchInv, LaunchedPartitionComplete
<1>6. ASSUME NEW s \in Streams, Execute(s) PROVE LaunchInv'
  <2>1. queue[s] \in Seq(Op) /\ queue[s] # <<>>
    BY <1>6 DEF Execute, TypeOK
  <2>2. \A i \in 1 .. Len(Tail(queue[s])) :
          /\ i + 1 \in 1 .. Len(queue[s])
          /\ Tail(queue[s])[i] = queue[s][i + 1]
    BY <2>1
  <2>3. queue' = [queue EXCEPT ![s] = Tail(@)] /\ graph' = graph
    BY <1>6 DEF Execute
  <2> QED BY <2>2, <2>3 DEF TypeOK, LaunchInv, LaunchedPartitionComplete
<1>7. CASE UNCHANGED vars
  BY <1>7 DEF vars, LaunchInv, LaunchedPartitionComplete
<1> QED
  BY <1>1, <1>2, <1>3, <1>4, <1>5, <1>6, <1>7
     DEF Next, Load, Apply, InPlace, gpu

\* On a heap that never hands out an address twice, the unchecked operator only
\* ever runs on complete partitions, through every load, move, in-place write,
\* capture and replay.
THEOREM PartitionAlwaysChecked ==
  ASSUME Recycle = FALSE
  PROVE  Spec => []LaunchedPartitionComplete
<1>1. Init => VerdictInv /\ LaunchInv
  <2> SUFFICES ASSUME Init PROVE VerdictInv /\ LaunchInv
    OBVIOUS
  <2>1. PICK a \in Addr,
             c \in {d \in Checkpoints : DOMAIN d = Buffers} \cup {EmptyModule} :
          /\ tensor = [b \in Buffers |-> [id |-> a, version |-> 0, val |-> c[b]]]
          /\ taken = [b \in Buffers |-> {a}]
    BY DEF Init
  <2> QED
    BY <2>1 DEF Init, VerdictInv, LaunchInv, LaunchedPartitionComplete, Buffers
<1>2. LaunchInv => LaunchedPartitionComplete
  BY DEF LaunchInv
<1> QED BY <1>1, <1>2, VerdictInvStep, LaunchInvStep, TypeCorrect, PTL DEF Spec

(***************************************************************************)
(* The block a captured graph reads.  While the graph is intact nothing    *)
(* the signature names has changed, so that every forward hits the cache.  *)
(***************************************************************************)
GraphInv ==
  graph # None =>
    /\ graph.gemm.op = "gemm"
    /\ graph.intact /\ graph.gemm.buf # None =>
         /\ Hit
         /\ expanded.buf = graph.gemm.buf
         /\ graph.gemm.want = Expansion

LEMMA GraphInvStep == TypeOK /\ GraphInv /\ [Next]_vars => GraphInv'
<1> SUFFICES ASSUME TypeOK, GraphInv, [Next]_vars PROVE GraphInv'
  OBVIOUS
<1>1. ASSUME Outdated PROVE GraphInv'
  <2>1. CASE graph = None
    BY <1>1, <2>1 DEF Outdated, GraphInv
  <2>2. CASE graph # None
    <3>1. graph \in [gemm : Op, intact : BOOLEAN]
      BY <2>2 DEF TypeOK
    <3>2. graph'.intact = FALSE /\ graph'.gemm = graph.gemm
      BY <1>1, <2>2, <3>1 DEF Outdated
    <3> QED BY <2>2, <3>2 DEF GraphInv
  <2> QED BY <2>1, <2>2
<1>2. ASSUME UNCHANGED <<tensor, device, expanded, graph>> PROVE GraphInv'
  BY <1>2 DEF GraphInv, Hit, ExpansionSig, Expansion
<1>3. ASSUME NEW s \in Streams, NEW rows \in Rows, Forward(s, rows)
      PROVE  GraphInv'
  <2>1. UNCHANGED <<tensor, device, graph>>
    BY <1>3 DEF Forward, heap
  <2>2. UNCHANGED expanded \/ ~Hit
    BY <1>3 DEF Forward, UsesCache
  <2>3. CASE UNCHANGED expanded
    BY <1>2, <2>1, <2>3
  <2>4. CASE ~Hit
    BY <2>1, <2>4 DEF GraphInv
  <2> QED BY <2>2, <2>3, <2>4
<1>4. ASSUME NEW rows \in Rows, CaptureForward(rows) PROVE GraphInv'
  <2>1. UNCHANGED <<tensor, device, expanded>>
    BY <1>4 DEF CaptureForward, heap
  <2>2. Hit' = Hit /\ Expansion' = Expansion
    BY <2>1 DEF Hit, ExpansionSig, Expansion
  <2>3. /\ graph'.gemm.op = "gemm"
        /\ graph'.gemm.buf = IF HasInt4 THEN expanded.buf ELSE None
        /\ graph'.gemm.want = Expansion
        /\ HasInt4 => Hit
    BY <1>4 DEF CaptureForward, Gemm
  <2> QED BY <2>1, <2>2, <2>3 DEF GraphInv
<1> QED
  BY <1>1, <1>2, <1>3, <1>4
     DEF Next, Load, Apply, InPlace, Replay, ReuseBlock, Execute, heap, vars

\* No forward, on however many streams, gives up the block an intact graph
\* reads: a replay never meets memory the allocator has handed to another tensor.
THEOREM GraphKeepsItsBlock == Spec => []GraphBlockHeld
<1>1. Init => GraphInv
  BY DEF Init, GraphInv
<1>2. GraphInv => GraphBlockHeld
  BY DEF GraphInv, GraphBlockHeld, Held, Hit
<1> QED BY <1>1, <1>2, GraphInvStep, TypeCorrect, PTL DEF Spec

(***************************************************************************)
(* What a stream's operations find in memory when their turn comes.        *)
(***************************************************************************)
Writes(o, b) == o.op = "write" /\ o.buf = b

\* With m in memory and q to execute, operation i of q finds v in block b.
Finds(q, m, i, b, v) ==
  \/ /\ m[b] = v
     /\ \A k \in 1 .. (i - 1) : ~Writes(q[k], b)
  \/ \E j \in 1 .. (i - 1) :
       /\ Writes(q[j], b) /\ q[j].val = v
       /\ \A k \in (j + 1) .. (i - 1) : ~Writes(q[k], b)

\* What is enqueued later does not change what an operation finds.
LEMMA FindsAppend ==
  ASSUME NEW q \in Seq(Op), NEW o \in Op, NEW m, NEW b, NEW v,
         NEW i \in 1 .. Len(q) + 1, Finds(q, m, i, b, v)
  PROVE  Finds(Append(q, o), m, i, b, v)
<1>1. \A k \in 1 .. (i - 1) : Append(q, o)[k] = q[k]
  OBVIOUS
<1>2. CASE m[b] = v /\ \A k \in 1 .. (i - 1) : ~Writes(q[k], b)
  BY <1>1, <1>2 DEF Finds
<1>3. ASSUME NEW j \in 1 .. (i - 1),
             Writes(q[j], b) /\ q[j].val = v,
             \A k \in (j + 1) .. (i - 1) : ~Writes(q[k], b)
      PROVE  Finds(Append(q, o), m, i, b, v)
  <2>1. \A k \in (j + 1) .. (i - 1) : ~Writes(Append(q, o)[k], b)
    BY <1>1, <1>3
  <2>2. Writes(Append(q, o)[j], b) /\ Append(q, o)[j].val = v
    BY <1>1, <1>3
  <2> QED BY <2>1, <2>2 DEF Finds
<1> QED BY <1>2, <1>3 DEF Finds

\* The next operation finds what this one found, unless this one writes.
LEMMA FindsNext ==
  ASSUME NEW q \in Seq(Op), NEW m, NEW b, NEW v, NEW i \in 1 .. Len(q),
         Finds(q, m, i, b, v), ~Writes(q[i], b)
  PROVE  Finds(q, m, i + 1, b, v)
<1>1. CASE m[b] = v /\ \A k \in 1 .. (i - 1) : ~Writes(q[k], b)
  BY <1>1 DEF Finds
<1>2. ASSUME NEW j \in 1 .. (i - 1),
             Writes(q[j], b) /\ q[j].val = v,
             \A k \in (j + 1) .. (i - 1) : ~Writes(q[k], b)
      PROVE  Finds(q, m, i + 1, b, v)
  <2>1. /\ j \in 1 .. ((i + 1) - 1)
        /\ \A k \in (j + 1) .. ((i + 1) - 1) : ~Writes(q[k], b)
    BY <1>2
  <2> QED BY <1>2, <2>1 DEF Finds
<1> QED BY <1>1, <1>2 DEF Finds

LEMMA FindsWritten ==
  ASSUME NEW q \in Seq(Op), NEW m, NEW b, NEW i \in 1 .. Len(q),
         Writes(q[i], b)
  PROVE  Finds(q, m, i + 1, b, q[i].val)
<1>1. i \in 1 .. ((i + 1) - 1) /\ \A k \in (i + 1) .. ((i + 1) - 1) : FALSE
  OBVIOUS
<1> QED BY <1>1 DEF Finds

\* Executing the oldest operation changes nothing for the others.
LEMMA FindsTail ==
  ASSUME NEW q \in Seq(Op), q # <<>>, NEW m, NEW m2, NEW b, NEW v,
         NEW i \in 1 .. Len(q), Finds(q, m, i + 1, b, v),
         m2[b] = IF Writes(Head(q), b) THEN Head(q).val ELSE m[b]
  PROVE  Finds(Tail(q), m2, i, b, v)
<1>1. /\ Head(q) = q[1]
      /\ \A k \in 1 .. (i - 1) : Tail(q)[k] = q[k + 1]
  OBVIOUS
<1>2. CASE m[b] = v /\ \A k \in 1 .. i : ~Writes(q[k], b)
  <2>1. m2[b] = v
    BY <1>1, <1>2
  <2>2. \A k \in 1 .. (i - 1) : ~Writes(Tail(q)[k], b)
    BY <1>1, <1>2
  <2> QED BY <2>1, <2>2 DEF Finds
<1>3. ASSUME NEW j \in 1 .. i,
             Writes(q[j], b) /\ q[j].val = v,
             \A k \in (j + 1) .. i : ~Writes(q[k], b)
      PROVE  Finds(Tail(q), m2, i, b, v)
  <2>1. CASE j = 1
    <3>1. m2[b] = v
      BY <1>1, <1>3, <2>1
    <3>2. \A k \in 1 .. (i - 1) : ~Writes(Tail(q)[k], b)
      BY <1>1, <1>3, <2>1
    <3> QED BY <3>1, <3>2 DEF Finds
  <2>2. CASE j # 1
    <3>1. /\ j - 1 \in 1 .. (i - 1)
          /\ Tail(q)[j - 1] = q[j]
      BY <1>1, <2>2
    <3>2. \A k \in ((j - 1) + 1) .. (i - 1) : ~Writes(Tail(q)[k], b)
      BY <1>1, <1>3, <2>2
    <3> QED BY <1>3, <3>1, <3>2 DEF Finds
  <2> QED BY <2>1, <2>2
<1> QED BY <1>2, <1>3 DEF Finds

(***************************************************************************)
(* The stream.  Every GEMM in the queue finds its expansion, and so would  *)
(* the one a further cache hit enqueues.  With a second stream the latter  *)
(* fails (run streams), hence the hypothesis of the two theorems.          *)
(***************************************************************************)
Ready(q, m) ==
  \A i \in 1 .. Len(q) :
    q[i].op = "gemm" /\ q[i].from # "stale" /\ q[i].buf # None =>
      Finds(q, m, i, q[i].buf, q[i].want)

\* An operation enqueued now would find v in block b.
AtEnd(q, m, b, v) == Finds(q, m, Len(q) + 1, b, v)

StreamInv ==
  \A s \in Streams :
    /\ Ready(queue[s], mem)
    /\ expanded # None => AtEnd(queue[s], mem, expanded.buf, expanded.built)

LEMMA AppendGemm ==
  ASSUME NEW q \in Seq(Op), NEW m, NEW o \in Op, o.op = "gemm",
         o.from # "stale" /\ o.buf # None => AtEnd(q, m, o.buf, o.want)
  PROVE  /\ Ready(q, m) => Ready(Append(q, o), m)
         /\ \A b, v : AtEnd(q, m, b, v) => AtEnd(Append(q, o), m, b, v)
<1> DEFINE r == Append(q, o)
<1>1. /\ r \in Seq(Op) /\ Len(r) = Len(q) + 1 /\ Len(q) \in Nat
      /\ \A i \in 1 .. Len(q) : r[i] = q[i]
      /\ r[Len(q) + 1] = o
  OBVIOUS
<1>2. \A b, v : \A i \in 1 .. Len(q) + 1 : Finds(q, m, i, b, v) => Finds(r, m, i, b, v)
  BY FindsAppend
<1> HIDE DEF r
<1>3. ASSUME Ready(q, m), NEW i \in 1 .. Len(r),
             r[i].op = "gemm", r[i].from # "stale", r[i].buf # None
      PROVE  Finds(r, m, i, r[i].buf, r[i].want)
  <2>1. CASE i \in 1 .. Len(q)
    <3>1. Finds(q, m, i, r[i].buf, r[i].want)
      BY <1>1, <1>3, <2>1 DEF Ready
    <3> QED BY <1>1, <1>2, <2>1, <3>1
  <2>2. CASE i = Len(q) + 1
    <3>1. Finds(q, m, i, r[i].buf, r[i].want)
      BY <1>1, <1>3, <2>2 DEF AtEnd
    <3> QED BY <1>1, <1>2, <2>2, <3>1
  <2> QED BY <1>1, <2>1, <2>2
<1>4. ASSUME NEW b, NEW v, AtEnd(q, m, b, v) PROVE AtEnd(r, m, b, v)
  <2>1. Len(q) + 1 \in 1 .. Len(r) /\ ~Writes(r[Len(q) + 1], b)
    BY <1>1 DEF Writes
  <2>2. Finds(r, m, Len(q) + 1, b, v)
    BY <1>1, <1>2, <1>4 DEF AtEnd
  <2> QED BY <1>1, <2>1, <2>2, FindsNext DEF AtEnd
<1> QED BY <1>3, <1>4 DEF Ready, r

LEMMA AppendWrite ==
  ASSUME NEW q \in Seq(Op), NEW m, NEW o \in Op, o.op = "write"
  PROVE  /\ Ready(q, m) => Ready(Append(q, o), m)
         /\ AtEnd(Append(q, o), m, o.buf, o.val)
         /\ \A b, v : b # o.buf /\ AtEnd(q, m, b, v) => AtEnd(Append(q, o), m, b, v)
<1> DEFINE r == Append(q, o)
<1>1. /\ r \in Seq(Op) /\ Len(r) = Len(q) + 1 /\ Len(q) \in Nat
      /\ \A i \in 1 .. Len(q) : r[i] = q[i]
      /\ r[Len(q) + 1] = o
  OBVIOUS
<1>2. \A b, v : \A i \in 1 .. Len(q) + 1 : Finds(q, m, i, b, v) => Finds(r, m, i, b, v)
  BY FindsAppend
<1> HIDE DEF r
<1>3. ASSUME Ready(q, m), NEW i \in 1 .. Len(r),
             r[i].op = "gemm", r[i].from # "stale", r[i].buf # None
      PROVE  Finds(r, m, i, r[i].buf, r[i].want)
  <2>1. i \in 1 .. Len(q)
    BY <1>1, <1>3
  <2>2. Finds(q, m, i, r[i].buf, r[i].want)
    BY <1>1, <1>3, <2>1 DEF Ready
  <2> QED BY <1>1, <1>2, <2>1, <2>2
<1>4. Len(q) + 1 \in 1 .. Len(r)
  BY <1>1
<1>5. AtEnd(r, m, o.buf, o.val)
  <2>1. Writes(r[Len(q) + 1], o.buf)
    BY <1>1 DEF Writes
  <2> QED BY <1>1, <1>4, <2>1, FindsWritten DEF AtEnd
<1>6. ASSUME NEW b, NEW v, b # o.buf, AtEnd(q, m, b, v) PROVE AtEnd(r, m, b, v)
  <2>1. ~Writes(r[Len(q) + 1], b)
    BY <1>1, <1>6 DEF Writes
  <2>2. Finds(r, m, Len(q) + 1, b, v)
    BY <1>1, <1>2, <1>6 DEF AtEnd
  <2> QED BY <1>1, <1>4, <2>1, <2>2, FindsNext DEF AtEnd
<1> QED BY <1>3, <1>5, <1>6 DEF Ready, r

LEMMA ExecuteReady ==
  ASSUME NEW q \in Seq(Op), q # <<>>, NEW m, NEW m2,
         \A b \in Buf : m2[b] = IF Writes(Head(q), b) THEN Head(q).val ELSE m[b]
  PROVE  /\ Ready(q, m) => Ready(Tail(q), m2)
         /\ \A b \in Buf : \A v : AtEnd(q, m, b, v) => AtEnd(Tail(q), m2, b, v)
<1>1. /\ Tail(q) \in Seq(Op) /\ Len(Tail(q)) = Len(q) - 1
      /\ Len(q) \in Nat \ {0}
      /\ \A i \in 1 .. Len(Tail(q)) : Tail(q)[i] = q[i + 1]
  OBVIOUS
<1>2. \A b \in Buf : \A v : \A i \in 1 .. Len(q) :
        Finds(q, m, i + 1, b, v) => Finds(Tail(q), m2, i, b, v)
  BY FindsTail
<1>3. ASSUME Ready(q, m), NEW i \in 1 .. Len(Tail(q)),
             Tail(q)[i].op = "gemm", Tail(q)[i].from # "stale",
             Tail(q)[i].buf # None
      PROVE  Finds(Tail(q), m2, i, Tail(q)[i].buf, Tail(q)[i].want)
  <2>1. i \in 1 .. Len(q) /\ i + 1 \in 1 .. Len(q) /\ Tail(q)[i] = q[i + 1]
    BY <1>1
  <2>2. Finds(q, m, i + 1, Tail(q)[i].buf, Tail(q)[i].want)
    BY <1>3, <2>1 DEF Ready
  <2>3. Tail(q)[i].buf \in Buf
    BY <1>1, <1>3 DEF Op
  <2> QED BY <1>2, <2>1, <2>2, <2>3
<1>4. ASSUME NEW b \in Buf, NEW v, AtEnd(q, m, b, v)
      PROVE  AtEnd(Tail(q), m2, b, v)
  <2>1. Len(q) \in 1 .. Len(q) /\ Len(Tail(q)) + 1 = Len(q)
    BY <1>1
  <2> QED BY <1>2, <1>4, <2>1 DEF AtEnd
<1> QED BY <1>3, <1>4 DEF Ready

\* Concatenating one operation appends it.
LEMMA ConcatAppends ==
  ASSUME NEW q \in Seq(Op), NEW x \in Op
  PROVE  q \o <<>> = q /\ q \o <<x>> = Append(q, x) /\ Append(q, x) \in Seq(Op)
OBVIOUS

\* What a forward does to the queue of its stream.
LEMMA ForwardQueue ==
  ASSUME TypeOK, NEW s \in Streams, NEW rows \in Rows, Forward(s, rows)
  PROVE  /\ UNCHANGED <<mem, graph, tensor>>
         /\ \/ UNCHANGED <<expanded, queue>>
            \/ \E buf \in {None, expanded.buf} :
                 /\ buf # None => Hit
                 /\ UNCHANGED expanded
                 /\ queue' = [queue EXCEPT ![s] =
                                IF ShapesFit THEN Append(@, Gemm(buf)) ELSE @]
            \/ \E slot \in Slots :
                 LET buf == <<s, slot>>
                     w   == [op |-> "write", buf |-> buf, val |-> Expansion]
                 IN  /\ expanded'.buf = buf /\ expanded'.built = Expansion
                     /\ queue' = [queue EXCEPT ![s] =
                                    IF ShapesFit THEN Append(Append(@, w), Gemm(buf))
                                                 ELSE Append(@, w)]
<1> DEFINE launched(ops, buf) ==
      [queue EXCEPT ![s] = @ \o ops \o
         IF ShapesFit THEN <<Gemm(buf)>> ELSE <<>>]
<1>1. queue[s] \in Seq(Op)
  BY DEF TypeOK
<1>2. ASSUME NEW buf \in Buf \cup {None}
      PROVE  launched(<<>>, buf) = [queue EXCEPT ![s] =
               IF ShapesFit THEN Append(@, Gemm(buf)) ELSE @]
  <2>1. Gemm(buf) \in Op
    BY GemmType
  <2>2. queue[s] \o <<>> \o (IF ShapesFit THEN <<Gemm(buf)>> ELSE <<>>)
          = IF ShapesFit THEN Append(queue[s], Gemm(buf)) ELSE queue[s]
    <3> HIDE DEF launched
    <3> QED BY <1>1, <2>1, ConcatAppends, Zenon
  <2> QED BY <2>2, Zenon
<1>3. ASSUME NEW buf \in Buf, NEW w \in Op
      PROVE  launched(<<w>>, buf) = [queue EXCEPT ![s] =
               IF ShapesFit THEN Append(Append(@, w), Gemm(buf)) ELSE Append(@, w)]
  <2>1. Gemm(buf) \in Op
    BY GemmType
  <2>2. queue[s] \o <<w>> \o (IF ShapesFit THEN <<Gemm(buf)>> ELSE <<>>)
          = IF ShapesFit THEN Append(Append(queue[s], w), Gemm(buf))
                         ELSE Append(queue[s], w)
    <3> HIDE DEF launched
    <3>1. /\ Append(queue[s], w) \in Seq(Op)
          /\ queue[s] \o <<w>> = Append(queue[s], w)
      BY <1>1, ConcatAppends, Zenon
    <3> QED BY <2>1, <3>1, ConcatAppends, Zenon
  <2> QED BY <2>2, Zenon
<1>4. \/ UNCHANGED <<expanded, queue>>
      \/ queue' = launched(<<>>, None) /\ UNCHANGED expanded
      \/ Hit /\ queue' = launched(<<>>, expanded.buf) /\ UNCHANGED expanded
      \/ \E slot \in Slots :
           /\ expanded' = [sig |-> ExpansionSig, buf |-> <<s, slot>>,
                           built |-> Expansion]
           /\ queue' = launched(<<[op |-> "write", buf |-> <<s, slot>>,
                                   val |-> Expansion]>>, <<s, slot>>)
  BY DEF Forward, UsesCache
<1>5. UNCHANGED <<mem, graph, tensor>>
  BY DEF Forward, heap
<1>6. CASE Hit /\ queue' = launched(<<>>, expanded.buf) /\ UNCHANGED expanded
  <2>1. expanded.buf \in Buf
    BY <1>6 DEF Hit, TypeOK
  <2> QED BY <1>2, <1>5, <1>6, <2>1
<1>7. ASSUME NEW slot \in Slots,
             expanded' = [sig |-> ExpansionSig, buf |-> <<s, slot>>,
                          built |-> Expansion],
             queue' = launched(<<[op |-> "write", buf |-> <<s, slot>>,
                                  val |-> Expansion]>>, <<s, slot>>)
      PROVE  LET buf == <<s, slot>>
                 w   == [op |-> "write", buf |-> buf, val |-> Expansion]
             IN  /\ expanded'.buf = buf /\ expanded'.built = Expansion
                 /\ queue' = [queue EXCEPT ![s] =
                                IF ShapesFit THEN Append(Append(@, w), Gemm(buf))
                                             ELSE Append(@, w)]
  <2>1. <<s, slot>> \in Buf
    BY DEF Buf
  <2>2. [op |-> "write", buf |-> <<s, slot>>, val |-> Expansion] \in Op
    BY <2>1, ExpansionType DEF Op
  <2> HIDE DEF launched
  <2> QED BY <1>3, <1>7, <2>1, <2>2
<1>8. CASE queue' = launched(<<>>, None) /\ UNCHANGED expanded
  <2>1. None \in {None, expanded.buf} /\ None \in Buf \cup {None}
    OBVIOUS
  <2> HIDE DEF launched
  <2>2. queue' = [queue EXCEPT ![s] = IF ShapesFit THEN Append(@, Gemm(None)) ELSE @]
    BY <1>2, <1>8, <2>1, Zenon
  <2> QED BY <1>5, <1>8, <2>1, <2>2, Zenon
<1> HIDE DEF launched
<1> QED BY <1>4, <1>5, <1>6, <1>7, <1>8, Zenon

LEMMA StreamInvStep ==
  ASSUME NEW one, Streams = {one}
  PROVE  TypeOK /\ CacheInv /\ GraphInv /\ StreamInv /\ [Next]_vars => StreamInv'
<1> SUFFICES ASSUME TypeOK, CacheInv, GraphInv, StreamInv, [Next]_vars
             PROVE  StreamInv'
  OBVIOUS
<1> DEFINE q == queue[one]
<1>1. /\ q \in Seq(Op) /\ Ready(q, mem)
      /\ expanded # None =>
           /\ expanded.buf \in Buf
           /\ AtEnd(q, mem, expanded.buf, expanded.built)
  BY DEF TypeOK, StreamInv
<1>2. \A r : queue' = [queue EXCEPT ![one] = r] => queue'[one] = r
  BY DEF TypeOK
<1>3. StreamInv' <=>
        /\ Ready(queue'[one], mem')
        /\ expanded' # None =>
             AtEnd(queue'[one], mem', expanded'.buf, expanded'.built)
  BY DEF StreamInv
<1>4. ASSUME UNCHANGED <<queue, mem>>, expanded' \in {None, expanded}
      PROVE  StreamInv'
  BY <1>1, <1>3, <1>4
<1>5. ASSUME NEW rows \in Rows, Forward(one, rows) PROVE StreamInv'
  <2>1. CASE UNCHANGED <<expanded, queue>>
    BY <1>4, <1>5, <2>1, ForwardQueue
  <2>2. ASSUME NEW buf \in {None, expanded.buf},
               buf # None => Hit,
               UNCHANGED <<expanded, mem>>,
               queue' = [queue EXCEPT ![one] =
                           IF ShapesFit THEN Append(@, Gemm(buf)) ELSE @]
        PROVE  StreamInv'
    <3>1. queue'[one] = IF ShapesFit THEN Append(q, Gemm(buf)) ELSE q
      BY <2>2 DEF TypeOK
    <3>2. CASE ~ShapesFit
      BY <1>1, <1>3, <2>2, <3>1, <3>2
    <3>3. CASE ShapesFit
      <4>1. buf \in Buf \cup {None}
        BY <2>2 DEF Hit, TypeOK
      <4>2. /\ Gemm(buf) \in Op /\ Gemm(buf).op = "gemm"
            /\ Gemm(buf).buf = buf /\ Gemm(buf).want = Expansion
        BY <4>1, GemmType DEF Gemm
      <4>3. buf # None => AtEnd(q, mem, buf, Expansion)
        BY <1>1, <2>2 DEF Hit, CacheInv
      <4> HIDE DEF q
      <4>4. /\ Ready(Append(q, Gemm(buf)), mem)
            /\ \A b, v : AtEnd(q, mem, b, v) => AtEnd(Append(q, Gemm(buf)), mem, b, v)
        BY <1>1, <4>2, <4>3, AppendGemm
      <4> QED BY <1>1, <1>3, <2>2, <3>1, <3>3, <4>4
    <3> QED BY <3>2, <3>3
  <2>3. ASSUME NEW slot \in Slots, NEW buf, NEW w,
               buf = <<one, slot>>,
               w = [op |-> "write", buf |-> buf, val |-> Expansion],
               expanded'.buf = buf, expanded'.built = Expansion,
               UNCHANGED mem,
               queue' = [queue EXCEPT ![one] =
                           IF ShapesFit THEN Append(Append(@, w), Gemm(buf))
                                        ELSE Append(@, w)]
        PROVE  StreamInv'
    <3>1. queue'[one] = IF ShapesFit THEN Append(Append(q, w), Gemm(buf))
                                     ELSE Append(q, w)
      BY <2>3 DEF TypeOK
    <3>2. /\ buf \in Buf
          /\ w \in Op /\ w.op = "write" /\ w.buf = buf /\ w.val = Expansion
      BY <2>3, ExpansionType DEF Op, Buf
    <3>3. /\ Gemm(buf) \in Op /\ Gemm(buf).op = "gemm"
          /\ Gemm(buf).buf = buf /\ Gemm(buf).want = Expansion
      BY <3>2, GemmType DEF Gemm
    <3> HIDE DEF q
    <3>4. /\ Append(q, w) \in Seq(Op)
          /\ Ready(Append(q, w), mem)
          /\ AtEnd(Append(q, w), mem, buf, Expansion)
      BY <1>1, <3>2, AppendWrite
    <3>5. /\ Ready(Append(Append(q, w), Gemm(buf)), mem)
          /\ AtEnd(Append(Append(q, w), Gemm(buf)), mem, buf, Expansion)
      BY <3>3, <3>4, AppendGemm
    <3> QED BY <1>3, <2>3, <3>1, <3>4, <3>5
  <2> QED BY <1>5, <2>1, <2>2, <2>3, ForwardQueue
<1>6. ASSUME Replay(one) PROVE StreamInv'
  <2> DEFINE o == [graph.gemm EXCEPT
                     !.from = IF graph.intact THEN "replay" ELSE "stale"]
  <2>1. /\ graph # None /\ UNCHANGED <<mem, expanded>>
        /\ queue'[one] = Append(q, o)
    BY <1>6 DEF Replay, TypeOK
  <2>2. graph.gemm \in Op /\ graph.intact \in BOOLEAN
    BY <2>1 DEF TypeOK
  <2>3. graph.gemm.op = "gemm"
    BY <2>1 DEF GraphInv
  <2>4. graph.gemm \in [op : {"gemm"}, buf : Buf \cup {None}, want : Content,
                        complete : BOOLEAN, from : {"forward", "replay", "stale"}]
    BY <2>2, <2>3 DEF Op
  <2>5. /\ o \in Op /\ o.op = "gemm"
        /\ o.buf = graph.gemm.buf /\ o.want = graph.gemm.want
        /\ ~graph.intact => o.from = "stale"
    BY <2>2, <2>4 DEF Op
  <2>6. o.from # "stale" /\ o.buf # None => AtEnd(q, mem, o.buf, o.want)
    <3> SUFFICES ASSUME o.from # "stale", o.buf # None
                 PROVE  AtEnd(q, mem, o.buf, o.want)
      OBVIOUS
    <3>1. Hit /\ expanded.buf = o.buf /\ o.want = Expansion
      BY <2>1, <2>5 DEF GraphInv
    <3>2. expanded # None /\ expanded.built = Expansion
      BY <3>1 DEF Hit, CacheInv
    <3> QED BY <1>1, <3>1, <3>2
  <2> HIDE DEF q, o
  <2>7. /\ Ready(Append(q, o), mem)
        /\ \A b, v : AtEnd(q, mem, b, v) => AtEnd(Append(q, o), mem, b, v)
    BY <1>1, <2>5, <2>6, AppendGemm
  <2> QED BY <1>1, <1>3, <2>1, <2>7
<1>7. ASSUME NEW slot \in Slots, ReuseBlock(one, slot) PROVE StreamInv'
  <2> DEFINE o == [op |-> "write", buf |-> <<one, slot>>, val |-> Garbage]
  <2>1. /\ UNCHANGED <<mem, expanded>>
        /\ queue'[one] = Append(q, o)
        /\ expanded # None => expanded.buf # <<one, slot>>
    BY <1>7 DEF ReuseBlock, Held, TypeOK
  <2>2. o \in Op /\ o.op = "write" /\ o.buf = <<one, slot>>
    BY DEF Op, Buf, Content
  <2> HIDE DEF q, o
  <2>3. /\ Ready(Append(q, o), mem)
        /\ \A b, v : b # o.buf /\ AtEnd(q, mem, b, v) =>
                      AtEnd(Append(q, o), mem, b, v)
    BY <1>1, <2>2, AppendWrite
  <2> QED BY <1>1, <1>3, <2>1, <2>2, <2>3
<1>8. ASSUME Execute(one) PROVE StreamInv'
  <2>1. /\ q # <<>> /\ UNCHANGED expanded
        /\ queue'[one] = Tail(q)
    BY <1>8 DEF Execute, TypeOK
  <2>2. Head(q) \in Op
    BY <1>1, <2>1
  <2>3. \A b \in Buf :
          mem'[b] = IF Writes(Head(q), b) THEN Head(q).val ELSE mem[b]
    BY <1>8, <2>2 DEF Execute, Writes, TypeOK
  <2> HIDE DEF q
  <2>4. /\ Ready(Tail(q), mem')
        /\ \A b \in Buf : \A v : AtEnd(q, mem, b, v) => AtEnd(Tail(q), mem', b, v)
    BY <1>1, <2>1, <2>3, ExecuteReady
  <2> QED BY <1>1, <1>3, <2>1, <2>4
<1>9. ASSUME NEW c \in Checkpoints, Load(c) PROVE StreamInv'
  BY <1>4, <1>9 DEF Load, gpu
<1>10. ASSUME NEW d \in Device, Apply(d) PROVE StreamInv'
  BY <1>4, <1>10 DEF Apply, gpu
<1>11. ASSUME NEW c \in Checkpoints, NEW b \in DOMAIN c \cap Writable,
              InPlace(b, c[b])
       PROVE  StreamInv'
  BY <1>4, <1>11 DEF InPlace, gpu
<1>12. ASSUME NEW rows \in Rows, CaptureForward(rows) PROVE StreamInv'
  BY <1>4, <1>12 DEF CaptureForward, gpu
<1>13. CASE UNCHANGED vars
  BY <1>4, <1>13 DEF vars, gpu
<1> QED
  BY <1>5, <1>6, <1>7, <1>8, <1>9, <1>10, <1>11, <1>12, <1>13 DEF Next

LEMMA StreamInvReads ==
  ASSUME TypeOK, StreamInv, NEW from \in {"forward", "replay"}
  PROVE  Reads(from)
<1> SUFFICES ASSUME NEW s \in Streams, queue[s] # <<>>,
                    Head(queue[s]).op = "gemm", Head(queue[s]).from = from,
                    Head(queue[s]).buf # None
             PROVE  mem[Head(queue[s]).buf] = Head(queue[s]).want
  BY DEF Reads
<1>1. queue[s] \in Seq(Op) /\ Ready(queue[s], mem)
  BY DEF TypeOK, StreamInv
<1>2. 1 \in 1 .. Len(queue[s]) /\ Head(queue[s]) = queue[s][1]
  BY <1>1
<1>3. Finds(queue[s], mem, 1, Head(queue[s]).buf, Head(queue[s]).want)
  BY <1>1, <1>2 DEF Ready
<1> QED BY <1>3 DEF Finds

LEMMA OneStream ==
  ASSUME NEW one, Streams = {one}
  PROVE  Spec => [](TypeOK /\ StreamInv)
<1>1. Init => CacheInv /\ GraphInv /\ StreamInv
  BY DEF Init, CacheInv, GraphInv, StreamInv, Ready
<1> QED
  BY <1>1, CacheInvStep, GraphInvStep, StreamInvStep, TypeCorrect, PTL DEF Spec

\* On one stream every GEMM a forward launched reads the finished expansion of
\* the weights the module had at that call, however the allocator reuses blocks.
THEOREM ForwardReadsOnOneStream ==
  ASSUME NEW one, Streams = {one}
  PROVE  Spec => []ForwardReadsItsExpansion
<1>1. TypeOK /\ StreamInv => ForwardReadsItsExpansion
  BY StreamInvReads DEF ForwardReadsItsExpansion
<1> QED BY <1>1, OneStream, PTL

\* On one stream so does the GEMM of a replayed graph, as long as the module was
\* not moved, loaded or written since the capture.
THEOREM ReplayReadsOnOneStream ==
  ASSUME NEW one, Streams = {one}
  PROVE  Spec => []ReplayReadsItsExpansion
<1>1. TypeOK /\ StreamInv => ReplayReadsItsExpansion
  BY StreamInvReads DEF ReplayReadsItsExpansion
<1> QED BY <1>1, OneStream, PTL
==============================================================================
