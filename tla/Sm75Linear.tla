------------------------------ MODULE Sm75Linear ------------------------------
(***************************************************************************)
(* One ThreeLevelLinear module and the Python half of its SM75 operator    *)
(* (mixllm/nn/modules/three_level_linear.py, mixllm/sm75_backend.py).      *)
(*                                                                         *)
(* The module owns tensors.  A tensor object has an identity (CPython's    *)
(* id(), an address the heap may hand out again), a version counter that   *)
(* every in-place write bumps, and a value.  Two caches hang off the       *)
(* module, each keyed by a signature made of ids and versions: the verdict *)
(* of the partition check and the expansion of the packed INT4 weights.    *)
(*                                                                         *)
(* A forward runs on the host and only enqueues work: the expansion and    *)
(* the GEMM are operations of a CUDA stream that execute later, in the     *)
(* order of that stream.  A captured graph enqueues its recorded GEMM again*)
(* on every replay, with the addresses it was recorded with.               *)
(***************************************************************************)
EXTENDS Naturals, Sequences

CONSTANTS
  Addr,         \* what id() can return for one attribute's tensors
  Recycle,      \* TRUE: the heap hands out the address of a freed tensor again
  Tag,          \* contents a packed INT4 tensor can have
  Checkpoints,  \* state dicts: functions from the keys they hold to values
  OutFeatures,  \* number of output channels of the layer
  Streams,      \* CUDA streams forwards are issued on
  Slots,        \* expansion-sized blocks of one stream's memory pool
  Rows,         \* activation row counts forwards are called with
  Writable,     \* bound: the attributes in-place writes touch
  MaxVersion,   \* bound: in-place writes stop at this version
  MaxQueue,     \* bound: operations waiting in one stream
  None,         \* an unset attribute, an argument that is not there
  Garbage       \* bytes of a block that no expansion wrote

IndexBuffers  == {"indices_4", "indices_8", "indices_16"}
PackedBuffers == {"weight_int4", "zero_int4"}
Buffers       == IndexBuffers \cup PackedBuffers

\* Row count of a packed tensor and the codes it holds.
PackedValue == [tag : Tag, rows : Nat]
Value(b)    == IF b \in IndexBuffers THEN Seq(Nat) ELSE PackedValue

Device == {"cpu", "cuda"}
Buf    == Streams \X Slots
\* What an expansion-sized block holds: the pair it was expanded from.
Content == (PackedValue \X PackedValue) \cup {Garbage}

ASSUME RecycleAssumption    == Recycle \in BOOLEAN
ASSUME OutFeaturesAssumption == OutFeatures \in Nat \ {0}
\* An attribute that is None never equals a signature.
ASSUME NoneAssumption ==
  None \notin [IndexBuffers -> Addr \X Nat \X Nat \X Device]
ASSUME TagAssumption        == Tag # {}
ASSUME RowsAssumption       == Rows \subseteq Nat
\* A two-level checkpoint has no FP16 partition, and a damaged one may lack any
\* key; a packed weight and its zero points have the same rows.
ASSUME CheckpointsAssumption ==
  \A c \in Checkpoints :
    /\ DOMAIN c \subseteq Buffers
    /\ \A b \in DOMAIN c : c[b] \in Value(b)
    /\ PackedBuffers \subseteq DOMAIN c =>
         c["weight_int4"].rows = c["zero_int4"].rows

VARIABLES
  tensor,     \* the tensor object each buffer attribute refers to
  taken,      \* addresses the heap does not hand out
  device,     \* where the buffers live
  validated,  \* _sm75_partition_validation
  expanded,   \* _sm75_int4_expanded, with the content it stands for
  queue,      \* operations issued on each stream and not executed
  mem,        \* content of the expansion-sized blocks
  graph       \* a captured CUDA graph of one forward

heap == <<tensor, taken, device>>
gpu  == <<queue, mem>>
vars == <<tensor, taken, device, validated, expanded, queue, mem, graph>>

Op == [op : {"write"}, buf : Buf, val : Content]
        \cup [op : {"gemm"}, buf : Buf \cup {None}, want : Content,
              complete : BOOLEAN, from : {"forward", "replay", "stale"}]

(***************************************************************************)
(* Signatures                                                              *)
(***************************************************************************)
PartitionSigOfTwoLevels ==
  [b \in {"indices_4", "indices_8"} |->
     <<tensor[b].id, tensor[b].version, Len(tensor[b].val), device>>]

PartitionSigIgnoringVersions ==
  [b \in IndexBuffers |-> <<tensor[b].id, Len(tensor[b].val), device>>]

PartitionSig ==
  [b \in IndexBuffers |->
     <<tensor[b].id, tensor[b].version, Len(tensor[b].val), device>>]

ExpansionSigIgnoringVersions ==
  [b \in PackedBuffers |-> <<tensor[b].id, tensor[b].val.rows, device>>]

ExpansionSig ==
  [b \in PackedBuffers |->
     <<tensor[b].id, tensor[b].version, tensor[b].val.rows, device>>]

\* The three index tensors, concatenated and sorted, are 0 .. OutFeatures - 1.
PartitionComplete ==
  LET all == tensor["indices_4"].val \o tensor["indices_8"].val
               \o tensor["indices_16"].val
  IN  /\ Len(all) = OutFeatures
      /\ \A channel \in 0 .. OutFeatures - 1 :
           \E i \in 1 .. Len(all) : all[i] = channel

\* The content the expansion of the packed weights has to have.
Expansion == <<tensor["weight_int4"].val, tensor["zero_int4"].val>>

HasInt4 == Len(tensor["indices_4"].val) > 0
Hit     == expanded # None /\ expanded.sig = ExpansionSig

HitForPrefillOnly(rows) == rows > 1 /\ Hit

\* The cached expansion serves a forward, whatever its row count.
UsesCache(rows) == Hit

\* The module refers to the block.
Held(buf) == expanded # None /\ expanded.buf = buf

\* The zero points broadcast against the codes.
Expandable ==
  LET weight == tensor["weight_int4"].val.rows
      zero   == tensor["zero_int4"].val.rows
  IN  weight = zero \/ weight = 1 \/ zero = 1

\* The shape checks of the operator that involve the modelled tensors.
ShapesFit ==
  \A b \in PackedBuffers : tensor[b].val.rows = Len(tensor["indices_4"].val)

(***************************************************************************)
(* Initial states: the constructor's empty tensors, or from_weight of an   *)
(* allocation that passed verify().                                        *)
(***************************************************************************)
EmptyModule ==
  [b \in Buffers |-> IF b \in IndexBuffers THEN <<>>
                     ELSE [tag |-> CHOOSE t \in Tag : TRUE, rows |-> 0]]

Init ==
  /\ \E a \in Addr,
        c \in {d \in Checkpoints : DOMAIN d = Buffers} \cup {EmptyModule} :
       /\ tensor = [b \in Buffers |-> [id |-> a, version |-> 0, val |-> c[b]]]
       /\ taken = [b \in Buffers |-> {a}]
       /\ HasInt4 => PartitionComplete
  /\ device = "cuda"
  /\ validated = None
  /\ expanded = None
  /\ queue = [s \in Streams |-> <<>>]
  /\ mem = [b \in Buf |-> Garbage]
  /\ graph = None

(***************************************************************************)
(* Replacing and changing tensors                                          *)
(***************************************************************************)

\* The buffers in S become new objects with version v and the values val; the
\* object each one replaces is alive while its successor is allocated.
Reallocate(S, v, val) ==
  \E id \in [S -> Addr] :
    /\ \A b \in S : id[b] \notin taken[b]
    /\ tensor' = [b \in Buffers |->
                    IF b \in S
                      THEN [id |-> id[b], version |-> v, val |-> val[b]]
                      ELSE tensor[b]]
    /\ taken' = [b \in Buffers |->
                   IF b \notin S THEN taken[b]
                   ELSE IF Recycle THEN {id[b]} ELSE taken[b] \cup {id[b]}]

Outdated == graph' = IF graph = None THEN None ELSE [graph EXCEPT !.intact = FALSE]

\* The state dict _load_from_state_dict works on: an omitted FP16 key is set to
\* the tensor the module holds.
WithLegacyDefaults(c) ==
  [b \in Buffers |-> IF b \in DOMAIN c THEN c[b] ELSE tensor[b].val]

LoadKeepingCaches(c) ==
  /\ Reallocate(DOMAIN c \cup {"indices_16"}, 1, WithLegacyDefaults(c))
  /\ Outdated
  /\ UNCHANGED <<device, validated, expanded, gpu>>

\* load_state_dict: the three caches are dropped, and every buffer the state
\* dict has is replaced by an empty tensor (version 0) and filled by one copy_
\* (version 1).  A missing key leaves its buffer as it was, and is reported
\* once all the others are filled.
Load(c) ==
  /\ Reallocate(DOMAIN c \cup {"indices_16"}, 1, WithLegacyDefaults(c))
  /\ expanded' = None
  /\ Outdated
  /\ UNCHANGED <<device, validated, gpu>>

\* .to(d), .cuda(), .cpu(), .half(): _apply drops the caches; a conversion that
\* changes nothing returns the tensors it was given.
Apply(d) ==
  /\ expanded' = None
  /\ IF d = device
       THEN UNCHANGED <<tensor, taken>>
       ELSE Reallocate(Buffers, 0, [b \in Buffers |-> tensor[b].val])
  /\ device' = d
  /\ Outdated
  /\ UNCHANGED <<validated, gpu>>

\* An in-place write keeps the object and its shape, and bumps its version.
InPlace(b, v) ==
  /\ tensor[b].version < MaxVersion
  /\ v # tensor[b].val
  /\ IF b \in IndexBuffers THEN Len(v) = Len(tensor[b].val)
                           ELSE v.rows = tensor[b].val.rows
  /\ tensor' = [tensor EXCEPT ![b].version = @ + 1, ![b].val = v]
  /\ Outdated
  /\ UNCHANGED <<taken, device, validated, expanded, gpu>>

(***************************************************************************)
(* The forward                                                             *)
(***************************************************************************)
Gemm(buf) ==
  [op |-> "gemm", buf |-> buf, want |-> Expansion,
   complete |-> PartitionComplete, from |-> "forward"]

\* _validate_partition passes: a cached verdict, or a check, which is refused
\* while the stream is being captured.
Validates(capturing) ==
  \/ validated = PartitionSig
  \/ ~capturing /\ PartitionComplete

\* three_level_linear with some rows, outside a capture.  A partition that does
\* not validate raises before anything changed, and so does an expansion whose
\* shapes do not broadcast.  The expansion is cached and enqueued before the
\* operator checks shapes.
Forward(s, rows) ==
  /\ device = "cuda"
  /\ Len(queue[s]) + 2 <= MaxQueue
  /\ Validates(FALSE)
  /\ validated' = PartitionSig
  /\ LET launched(ops, buf) ==
           [queue EXCEPT ![s] = @ \o ops \o
              IF ShapesFit THEN <<Gemm(buf)>> ELSE <<>>]
     IN  \/ /\ rows = 0 \/ (HasInt4 /\ ~UsesCache(rows) /\ ~Expandable)
            /\ UNCHANGED <<expanded, queue>>
         \/ /\ rows > 0
            /\ ~HasInt4
            /\ queue' = launched(<<>>, None)
            /\ UNCHANGED expanded
         \/ /\ rows > 0
            /\ HasInt4
            /\ UsesCache(rows)
            /\ queue' = launched(<<>>, expanded.buf)
            /\ UNCHANGED expanded
         \/ /\ rows > 0
            /\ HasInt4
            /\ ~UsesCache(rows)
            /\ Expandable
            /\ \E slot \in Slots :
                 LET buf == <<s, slot>>
                 IN  /\ ~Held(buf)
                     /\ expanded' = [sig |-> ExpansionSig, buf |-> buf,
                                     built |-> Expansion]
                     /\ queue' = launched(
                          <<[op |-> "write", buf |-> buf, val |-> Expansion]>>,
                          buf)
  /\ UNCHANGED <<heap, mem, graph>>

\* The same forward recorded by torch.cuda.graph, which first waits for the
\* device.  Both caches have to hit: a miss raises, and nothing is recorded.
CaptureForward(rows) ==
  /\ device = "cuda"
  /\ rows > 0
  /\ \A s \in Streams : queue[s] = <<>>
  /\ Validates(TRUE)
  /\ HasInt4 => Hit
  /\ ShapesFit
  /\ graph' = [gemm   |-> Gemm(IF HasInt4 THEN expanded.buf ELSE None),
               intact |-> TRUE]
  /\ UNCHANGED <<heap, validated, expanded, gpu>>

\* graph.replay() on a stream enqueues what was recorded, whatever became of the
\* module since.
Replay(s) ==
  /\ graph # None
  /\ Len(queue[s]) + 1 <= MaxQueue
  /\ queue' = [queue EXCEPT ![s] =
       Append(@, [graph.gemm EXCEPT
                    !.from = IF graph.intact THEN "replay" ELSE "stale"])]
  /\ UNCHANGED <<heap, validated, expanded, mem, graph>>

(***************************************************************************)
(* The device                                                              *)
(***************************************************************************)

\* The caching allocator gives a block nothing refers to any more to another
\* tensor of the same stream, which writes it in stream order.
ReuseBlock(s, slot) ==
  /\ ~Held(<<s, slot>>)
  /\ Len(queue[s]) + 1 <= MaxQueue
  /\ queue' = [queue EXCEPT ![s] =
       Append(@, [op |-> "write", buf |-> <<s, slot>>, val |-> Garbage])]
  /\ UNCHANGED <<heap, validated, expanded, mem, graph>>

\* The device executes the oldest operation of a stream.
Execute(s) ==
  /\ queue[s] # <<>>
  /\ LET o == Head(queue[s])
     IN  mem' = IF o.op = "write" THEN [mem EXCEPT ![o.buf] = o.val] ELSE mem
  /\ queue' = [queue EXCEPT ![s] = Tail(@)]
  /\ UNCHANGED <<heap, validated, expanded, graph>>

Next ==
  \/ \E c \in Checkpoints : Load(c)
  \/ \E d \in Device : Apply(d)
  \/ \E c \in Checkpoints : \E b \in DOMAIN c \cap Writable : InPlace(b, c[b])
  \/ \E s \in Streams, rows \in Rows : Forward(s, rows)
  \/ \E rows \in Rows : CaptureForward(rows)
  \/ \E s \in Streams : Replay(s)
  \/ \E s \in Streams, slot \in Slots : ReuseBlock(s, slot)
  \/ \E s \in Streams : Execute(s)

Spec == Init /\ [][Next]_vars

(***************************************************************************)
(* Properties                                                              *)
(***************************************************************************)

\* Every variable has its type.
TypeOK ==
  /\ tensor = [b \in Buffers |-> tensor[b]]
  /\ \A b \in Buffers :
       tensor[b] \in [id : Addr, version : Nat, val : Value(b)]
  /\ taken \in [Buffers -> SUBSET Addr]
  /\ device \in Device
  /\ validated = None \/ DOMAIN validated = IndexBuffers
  /\ expanded = None \/ /\ expanded.buf \in Buf
                        /\ expanded.built \in Content
  /\ queue \in [Streams -> Seq(Op)]
  /\ mem \in [Buf -> Content]
  /\ graph = None \/ graph \in [gemm : Op, intact : BOOLEAN]

\* The expansion a GEMM was handed, whenever it is about to execute.
Reads(from) ==
  \A s \in Streams :
    queue[s] # <<>> =>
      LET o == Head(queue[s])
      IN  o.op = "gemm" /\ o.from = from /\ o.buf # None => mem[o.buf] = o.want

\* A GEMM launched by a forward reads the finished expansion of the weights the
\* module had at that call: neither an older one, nor a block not yet written,
\* nor one the allocator has given away.
ForwardReadsItsExpansion == Reads("forward")

\* So does the GEMM of a replayed graph, as long as the module was not moved,
\* loaded or written since the capture.
ReplayReadsItsExpansion == Reads("replay")

\* While such a graph exists the module keeps the block the graph reads: no
\* forward of any shape replaces or drops a valid expansion.
GraphBlockHeld ==
  graph # None /\ graph.intact /\ graph.gemm.buf # None =>
    Held(graph.gemm.buf)

\* A cached expansion whose signature matches is the expansion of the weights
\* the module has now, although an address may have been recycled.
CacheHitIsCurrent == Hit => expanded.built = Expansion

\* The unchecked operator is never launched for a partition with a missing, a
\* duplicate or an out-of-range channel.
LaunchedPartitionComplete ==
  \A s \in Streams : \A i \in 1 .. Len(queue[s]) :
    queue[s][i].op = "gemm" => queue[s][i].complete
===============================================================================
