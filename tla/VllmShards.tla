------------------------------ MODULE VllmShards ------------------------------
(***************************************************************************)
(* How the vLLM patch loads a three-level linear layer on every rank of a  *)
(* tensor-parallel group (0002-add-mixllm-three-level-support.patch) and   *)
(* the index helpers it shares with the package (vllm_three_level.py).     *)
(*                                                                         *)
(* A layer is built from modules of the checkpoint (q, k and v; gate and   *)
(* up; or one alone).  A rank reads the stored tensors one by one, keeps   *)
(* them whole under their shard, and then cuts its own part out of each    *)
(* shard: a range of output channels, or, in a row-parallel layer, a range *)
(* of input columns.  A weight row is named by its module and channel and  *)
(* by the range it holds of the units of its tensor: columns, bytes of two *)
(* INT4 columns, or groups of columns for scales and zero points.          *)
(***************************************************************************)
EXTENDS Integers, Sequences, SequencesExt, FiniteSetsExt

CONSTANTS
  Cases,      \* layers, the ranks they are split over, and their checkpoints
  GroupSize   \* input columns that share a scale

Levels == {4, 8, 16}
Rows(b) == CASE b = 4  -> {"weight_int4", "scale_int4", "zero_int4"}
             [] b = 8  -> {"weight_int8", "scale_int8"}
             [] b = 16 -> {"weight_fp16"}
Indices(b) == CASE b = 4  -> "indices_4"
                [] b = 8  -> "indices_8"
                [] b = 16 -> "indices_16"
Parameters == UNION {Rows(b) \cup {Indices(b)} : b \in Levels}

\* The shard a tensor belongs to, by the name vLLM's loader gives it; the
\* tensor of a layer with a single module comes without one.
Names == {"q", "k", "v", "gate", "up", "none"}
ShardOf(id) == CASE id \in {"q", "gate", "none"} -> 0
                 [] id \in {"k", "up"} -> 1
                 [] id = "v" -> 2

Row == [of : Names, channel : Nat]

ASSUME GroupAssumption == GroupSize \in Nat \ {0} /\ GroupSize % 2 = 0
\* vLLM divides evenly, and replicates only modules it splits by outputs.
ASSUME CasesAssumption ==
  \A c \in Cases :
    /\ {c.ranks, c.input, c.localInput} \subseteq Nat \ {0}
    /\ c.localInput = c.input \/ c.input = c.ranks * c.localInput
    /\ c.outputs \in Seq(Nat \ {0})
    /\ c.modules \in Seq(Names) /\ Len(c.modules) = Len(c.outputs)
    /\ \A s \in DOMAIN c.modules : ShardOf(c.modules[s]) = s - 1
    /\ c.replicas \in Seq(Nat \ {0}) /\ Len(c.replicas) = Len(c.outputs)
    /\ c.localInput # c.input => \A s \in DOMAIN c.replicas : c.replicas[s] = 1
\* Tensors have a module's name or that of the modules they fuse.  A row holds
\* the weights of the channel that the same entry of the index tensor names.
\* Replicated modules have the channels the model gives them, so no index
\* tensor of theirs names another.
ASSUME CheckpointsAssumption ==
  \A c \in Cases :
    /\ Len(c.stored) \in Nat /\ DOMAIN c.stored = 1 .. Len(c.stored)
    /\ \A k \in DOMAIN c.stored :
         LET t == c.stored[k]
             s == ShardOf(t.id) + 1
         IN /\ t.param \in Parameters /\ t.id \in Names /\ s \in DOMAIN c.outputs
            /\ \/ t.id = c.modules[s]
               \/ \E m \in DOMAIN c.modules : \A j \in DOMAIN c.stored :
                    ShardOf(c.stored[j].id) # m - 1
            /\ \A b \in Levels :
                 /\ t.param = Indices(b) =>
                      /\ t.tensor \in Seq(Int)
                      /\ c.replicas[s] # 1 =>
                           \A i \in DOMAIN t.tensor :
                             t.tensor[i] < c.outputs[s] * (c.ranks \div c.replicas[s])
                 /\ t.param \in Rows(b) =>
                      /\ t.tensor \in Seq(Row)
                      /\ \A j \in DOMAIN c.stored :
                           /\ c.stored[j].param = Indices(b)
                           /\ ShardOf(c.stored[j].id) = s - 1
                           => \A i \in DOMAIN t.tensor \cap DOMAIN c.stored[j].tensor :
                                t.tensor[i] = [of |-> t.id,
                                               channel |-> c.stored[j].tensor[i]]

VARIABLES
  case,      \* the layer and its checkpoint
  read,      \* rank -> tensors of the checkpoint read so far
  pieces,    \* rank -> what each parameter's loader kept, by shard
  shard,     \* rank -> shards assembled so far
  offset,    \* rank -> first output channel of the next shard
  layer,     \* rank -> what the shards gave each parameter so far
  pc, error

vars == <<case, read, pieces, shard, offset, layer, pc, error>>

Ranks == 0 .. (case.ranks - 1)

Init ==
  /\ case \in Cases
  /\ read = [r \in Ranks |-> 0]
  /\ pieces = [r \in Ranks |-> <<>>]
  /\ shard = [r \in Ranks |-> 0]
  /\ offset = [r \in Ranks |-> 0]
  /\ layer = [r \in Ranks |-> [p \in Parameters |-> <<>>]]
  /\ pc = [r \in Ranks |-> "create"]
  /\ error = [r \in Ranks |-> "none"]

Raise(r, what) ==
  /\ pc' = [pc EXCEPT ![r] = "raised"]
  /\ error' = [error EXCEPT ![r] = what]
  /\ UNCHANGED <<case, read, pieces, shard, offset, layer>>

----------------------------------------------------------------------------
(* The helpers of vllm_three_level.py, on a partition: a sequence of       *)
(* output channels for every precision.                                    *)

\* A helper that raises returns this.
Refused == [b \in Levels |-> <<-1>>]

Covers(indices, size) ==
  LET values == indices[4] \o indices[8] \o indices[16]
  IN Len(values) = size /\ ToSet(values) = 0 .. (size - 1)

Moved(values, by) == [k \in DOMAIN values |-> values[k] + by]

\* The entries at some places of a sequence, in its order, as a mask selects
\* them; and those with a value in a range.
Ascending(S) ==
  CHOOSE order \in [1 .. Cardinality(S) -> S] :
    \A i, j \in DOMAIN order : i < j => order[i] < order[j]
Masked(values, kept) ==
  LET order == Ascending(kept)
  IN [k \in DOMAIN order |-> values[order[k]]]
Within(values, start, width) ==
  Masked(values, {k \in DOMAIN values : /\ start <= values[k]
                                       /\ values[k] < start + width})

RemapPartitionIndices(indices, size, start, width) ==
  LET local == [b \in Levels |-> Moved(Within(indices[b], start, width), -start)]
  IN IF /\ Covers(indices, size)
        /\ start >= 0 /\ width > 0 /\ start + width <= size
        /\ Covers(local, width)
     THEN local ELSE Refused

RestoreGlobalPartitionIndices(local, start, width) ==
  IF Covers(local, width) /\ start >= 0
  THEN [b \in Levels |-> Moved(local[b], start)] ELSE Refused

----------------------------------------------------------------------------
(* Loading.                                                                *)

InputSharded == case.localInput # case.input

CreateWeights(r) ==
  /\ pc[r] = "create"
  /\ IF case.input % GroupSize = 0
        /\ (InputSharded => case.localInput % GroupSize = 0)
     THEN /\ pc' = [pc EXCEPT ![r] = "load"]
          /\ UNCHANGED <<case, read, pieces, shard, offset, layer, error>>
     ELSE Raise(r, "input")

\* The last of two tensors for the same shard is kept.
PackedLoaderOverwriting(r) ==
  /\ pc[r] = "load" /\ read[r] < Len(case.stored)
  /\ LET t == case.stored[read[r] + 1]
         key == <<t.param, ShardOf(t.id)>>
     IN pieces' = [pieces EXCEPT ![r] =
                     [x \in DOMAIN @ \cup {key} |->
                        IF x = key THEN t.tensor ELSE @[x]]]
  /\ read' = [read EXCEPT ![r] = @ + 1]
  /\ UNCHANGED <<case, shard, offset, layer, pc, error>>
PackedLoader(r) ==
  /\ pc[r] = "load" /\ read[r] < Len(case.stored)
  /\ LET t == case.stored[read[r] + 1]
         key == <<t.param, ShardOf(t.id)>>
     IN IF key \in DOMAIN pieces[r]
        THEN Raise(r, "twice")
        ELSE /\ pieces' = [pieces EXCEPT ![r] =
                             [x \in DOMAIN @ \cup {key} |->
                                IF x = key THEN t.tensor ELSE @[x]]]
             /\ read' = [read EXCEPT ![r] = @ + 1]
             /\ UNCHANGED <<case, shard, offset, layer, pc, error>>

\* Processing waits until no tensor is missing.
LoadingEndsComplete(r) ==
  /\ pc[r] = "load" /\ read[r] = Len(case.stored)
  /\ Cardinality(DOMAIN pieces[r]) = 9 * Len(case.outputs)
  /\ pc' = [pc EXCEPT ![r] = "process"]
  /\ UNCHANGED <<case, read, pieces, shard, offset, layer, error>>
LoadingEnds(r) ==
  /\ pc[r] = "load" /\ read[r] = Len(case.stored)
  /\ pc' = [pc EXCEPT ![r] = "process"]
  /\ UNCHANGED <<case, read, pieces, shard, offset, layer, error>>

----------------------------------------------------------------------------
(* process_weights_after_loading.                                          *)

LocalOutput(s) == case.outputs[s + 1]
GlobalOutput(s) == IF InputSharded THEN LocalOutput(s)
                   ELSE LocalOutput(s) * case.ranks

Loaded(r, p, s) == pieces[r][<<p, s>>]
Partition(r, s) == [b \in Levels |-> Loaded(r, Indices(b), s)]

\* The places in the index tensor of the channels this rank keeps.
Kept(r, s, values) ==
  LET start == r * LocalOutput(s)
  IN {k \in DOMAIN values : \/ InputSharded
                            \/ /\ start <= values[k]
                               /\ values[k] < start + LocalOutput(s)}
LocalIndexGlobal(r, s, i) == i
LocalIndex(r, s, i) == IF InputSharded THEN i ELSE i - (r * LocalOutput(s))

\* Input columns in one unit of a row of this parameter.
ColumnsPerUnit(p) ==
  CASE p \in {"weight_fp16", "weight_int8"} -> 1
    [] p = "weight_int4" -> 2
    [] p \in {"scale_int8", "scale_int4", "zero_int4"} -> GroupSize

NarrowPackedAsBytes(r, p, row) ==
  LET unit  == IF p = "weight_int4" THEN 1 ELSE ColumnsPerUnit(p)
      first == IF InputSharded THEN (r * case.localInput) \div unit ELSE 0
      width == case.localInput \div ColumnsPerUnit(p)
  IN [of |-> row.of, channel |-> row.channel, first |-> first, width |-> width]
\* The part of a stored row that this rank's input columns need.
Narrow(r, p, row) ==
  LET first == IF InputSharded
               THEN (r * case.localInput) \div ColumnsPerUnit(p) ELSE 0
      width == case.localInput \div ColumnsPerUnit(p)
  IN [of |-> row.of, channel |-> row.channel, first |-> first, width |-> width]

AssembledFromFirst(r, s, b, p) ==
  LET values == Loaded(r, Indices(b), s)
      kept   == Kept(r, s, values)
      index  == Masked(values, kept)
      rows   == SubSeq(Loaded(r, p, s), 1, Cardinality(kept))
  IN IF p = Indices(b)
     THEN [k \in DOMAIN index |-> LocalIndex(r, s, index[k]) + offset[r]]
     ELSE [k \in DOMAIN rows |-> Narrow(r, p, rows[k])]
\* What shard s adds to a parameter of precision b.
Assembled(r, s, b, p) ==
  LET values == Loaded(r, Indices(b), s)
      kept   == Kept(r, s, values)
      index  == Masked(values, kept)
      rows   == Masked(Loaded(r, p, s), kept)
  IN IF p = Indices(b)
     THEN [k \in DOMAIN index |-> LocalIndex(r, s, index[k]) + offset[r]]
     ELSE [k \in DOMAIN rows |-> Narrow(r, p, rows[k])]

LevelOf(p) == CHOOSE b \in Levels : p \in Rows(b) \cup {Indices(b)}

ComplaintWithoutPartition(r, s) ==
  IF \E p \in Parameters : <<p, s>> \notin DOMAIN pieces[r]
  THEN "missing"
  ELSE IF \E b \in Levels : \E p \in Rows(b) :
            Len(Loaded(r, p, s)) # Len(Loaded(r, Indices(b), s))
  THEN "rows"
  ELSE "none"
\* Why shard s of rank r cannot be assembled; a mask and a tensor of different
\* lengths raise.
Complaint(r, s) ==
  IF \E p \in Parameters : <<p, s>> \notin DOMAIN pieces[r]
  THEN "missing"
  ELSE IF ~Covers(Partition(r, s), GlobalOutput(s))
  THEN "partition"
  ELSE IF \E b \in Levels : \E p \in Rows(b) :
            Len(Loaded(r, p, s)) # Len(Loaded(r, Indices(b), s))
  THEN "rows"
  ELSE "none"

AssembleShard(r) ==
  /\ pc[r] = "process" /\ shard[r] < Len(case.outputs)
  /\ LET s == shard[r]
     IN IF Complaint(r, s) # "none"
        THEN Raise(r, Complaint(r, s))
        ELSE /\ layer' = [layer EXCEPT ![r] =
                            [p \in Parameters |->
                               @[p] \o Assembled(r, s, LevelOf(p), p)]]
             /\ shard' = [shard EXCEPT ![r] = s + 1]
             /\ offset' = [offset EXCEPT ![r] = @ + LocalOutput(s)]
             /\ UNCHANGED <<case, read, pieces, pc, error>>

\* Pieces become one tensor each; the partition of the whole layer is
\* validated once more, after the layer's parameters were replaced.
Finish(r) ==
  /\ pc[r] = "process" /\ shard[r] = Len(case.outputs)
  /\ IF Covers([b \in Levels |-> layer[r][Indices(b)]], offset[r])
     THEN /\ pc' = [pc EXCEPT ![r] = "ready"]
          /\ UNCHANGED <<case, read, pieces, shard, offset, layer, error>>
     ELSE Raise(r, "final")

Step(r) == \/ CreateWeights(r)
           \/ PackedLoader(r)
           \/ LoadingEnds(r)
           \/ AssembleShard(r)
           \/ Finish(r)

Next == \E r \in Ranks : Step(r)

\* Loading a rank waits for no other rank, and nothing stops it.
MostRanks == Max({c.ranks : c \in Cases})
Spec == /\ Init /\ [][Next]_vars
        /\ \A r \in 0 .. (MostRanks - 1) : WF_vars(r \in Ranks /\ Step(r))

----------------------------------------------------------------------------
(* Properties.                                                             *)

\* What the modules of the checkpoint hold, and what each rank must compute:
\* its outputs are the channels of its range of every module, in order, where
\* as many ranks as there are replicas share a range.
Share(s)    == IF InputSharded THEN 1 ELSE case.ranks \div case.replicas[s + 1]
ModuleSize(s) == LocalOutput(s) * Share(s)
FirstOutput(s) ==
  LET first[t \in 0 .. Len(case.outputs)] ==
        IF t = 0 THEN 0 ELSE first[t - 1] + LocalOutput(t - 1)
  IN first[s]
Shards == 0 .. (Len(case.outputs) - 1)
Owned(r, s) == IF InputSharded THEN 0
               ELSE (r \div case.replicas[s + 1]) * LocalOutput(s)
Columns(r) == IF InputSharded
              THEN (r * case.localInput) .. ((r + 1) * case.localInput - 1)
              ELSE 0 .. (case.input - 1)

Covered(p, row) == (row.first * ColumnsPerUnit(p)) ..
                   ((row.first + row.width) * ColumnsPerUnit(p) - 1)

\* Row k of every packed tensor of a loaded rank - weights, scales and zero
\* points alike - belongs to the channel that entry k of the rank's index
\* tensor sends the result to: the right module, the right channel of it, and
\* exactly the input columns the rank multiplies.
RowsFollowIndices ==
  \A r \in Ranks : pc[r] = "ready" =>
    \A b \in Levels : \A p \in Rows(b) :
      LET index == layer[r][Indices(b)]
          rows  == layer[r][p]
      IN /\ Len(rows) = Len(index)
         /\ \A k \in DOMAIN index : \A s \in Shards :
              index[k] \in FirstOutput(s) .. (FirstOutput(s) + LocalOutput(s) - 1)
              => /\ rows[k].of = case.modules[s + 1]
                 /\ rows[k].channel = Owned(r, s) + index[k] - FirstOutput(s)
                 /\ Covered(p, rows[k]) = Columns(r)

\* When every rank has loaded, the ranks together hold each weight of each
\* module once (process_weights_after_loading cuts the shards without knowing
\* what the other ranks keep).
EveryWeightOnce ==
  (\A r \in Ranks : pc[r] = "ready") =>
    \A s \in Shards : \A ch \in 0 .. (ModuleSize(s) - 1) :
      \A col \in 0 .. (case.input - 1) :
        case.replicas[s + 1] = Cardinality(
          UNION {UNION {{<<r, p, k>> : k \in {j \in DOMAIN layer[r][p] :
                    LET row == layer[r][p][j]
                    IN /\ row.of = case.modules[s + 1] /\ row.channel = ch
                       /\ col \in Covered(p, row)}} :
                  p \in {"weight_int4", "weight_int8", "weight_fp16"}} :
                 r \in Ranks})

\* The patch computes local indices itself; they are those of the package's
\* remap_partition_indices_for_tp, and restore_global_partition_indices leads
\* from them back to the checkpoint's channels of this rank, in its order.
LocalIndicesAsRemapped ==
  \A r \in Ranks : \A s \in 0 .. (shard[r] - 1) :
    LET size   == LocalOutput(s)
        start  == r * size
        stored == Partition(r, s)
        mine   == [b \in Levels |->
                     Within(layer[r][Indices(b)], FirstOutput(s), size)]
        local  == [b \in Levels |-> Moved(mine[b], -FirstOutput(s))]
    IN IF InputSharded THEN local = stored
       ELSE /\ local = RemapPartitionIndices(stored, GlobalOutput(s), start, size)
            /\ RestoreGlobalPartitionIndices(local, start, size)
                 = [b \in Levels |-> Within(stored[b], start, size)]

\* The checkpoint holds each tensor of each module once, with an index tensor
\* that partitions the module's channels and a row for each index; the shapes
\* can be cut; and no module is replicated, which three-level loading does
\* not offer.
Servable ==
  LET Held(p, m) == {k \in DOMAIN case.stored :
                       /\ case.stored[k].param = p
                       /\ ShardOf(case.stored[k].id) = ShardOf(m)}
      Value(p, m) == case.stored[CHOOSE k \in Held(p, m) : TRUE].tensor
  IN /\ case.localInput % GroupSize = 0
     /\ \A s \in Shards :
          LET m == case.modules[s + 1]
          IN /\ \A p \in Parameters : Cardinality(Held(p, m)) = 1
             /\ case.replicas[s + 1] = 1
             /\ Covers([b \in Levels |-> Value(Indices(b), m)], ModuleSize(s))
             /\ \A b \in Levels : \A p \in Rows(b) :
                  Len(Value(p, m)) = Len(Value(Indices(b), m))

\* A rank serves exactly the checkpoints that can be served.  As this does not
\* depend on the rank, no rank waits in a collective operation for one that
\* raised.
ServedIffServable ==
  \A r \in Ranks : /\ pc[r] = "ready"  => Servable
                   /\ pc[r] = "raised" => ~Servable

\* The partition put together from the shards is always valid, so the last
\* validation, which runs after the parameters were replaced, cannot leave a
\* half-converted layer behind.
FinalCheckHolds == \A r \in Ranks : error[r] # "final"

\* Every rank comes to serve the layer or to raise, whatever the checkpoint.
EveryRankEnds == <>(\A r \in Ranks : pc[r] \in {"ready", "raised"})
==============================================================================
