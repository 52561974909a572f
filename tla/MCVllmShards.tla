----------------------------- MODULE MCVllmShards -----------------------------
(***************************************************************************)
(* VllmShards for TLC: layers of one, two and three modules over one to    *)
(* three ranks, with whole and damaged checkpoints.                        *)
(***************************************************************************)
EXTENDS VllmShards, TLC

\* The partition of size channels that a choice of precisions makes, with the
\* channels of a precision in increasing or in decreasing order.
PartitionOf(level, size, up) ==
  [b \in Levels |->
     LET mine == {i \in 0 .. (size - 1) : level[i] = b}
     IN IF up THEN SetToSortSeq(mine, <) ELSE SetToSortSeq(mine, >)]

Partitions(size) ==
  {PartitionOf(f, size, up) : f \in [0 .. (size - 1) -> Levels], up \in BOOLEAN}

Tensor(p, id, value) == [param |-> p, id |-> id, tensor |-> value]

\* The nine tensors of a module, in one of two orders.
Stored(id, part) ==
  LET RowsOf(b) == [k \in DOMAIN part[b] |-> [of |-> id, channel |-> part[b][k]]]
  IN <<Tensor("weight_fp16", id, RowsOf(16)), Tensor("weight_int8", id, RowsOf(8)),
       Tensor("scale_int8", id, RowsOf(8)), Tensor("weight_int4", id, RowsOf(4)),
       Tensor("scale_int4", id, RowsOf(4)), Tensor("zero_int4", id, RowsOf(4)),
       Tensor("indices_4", id, part[4]), Tensor("indices_8", id, part[8]),
       Tensor("indices_16", id, part[16])>>

Layer(ranks, input, localInput, outputs, modules, replicas, stored) ==
  [ranks |-> ranks, input |-> input, localInput |-> localInput,
   outputs |-> outputs, modules |-> modules, replicas |-> replicas,
   stored |-> stored]

\* One module: columns or rows split over two ranks, columns over three, a
\* layer that every rank holds whole, and a single rank.
Single ==
  {Layer(2, 8, 8, <<2>>, <<"none">>, <<1>>, Stored("none", part)) :
     part \in Partitions(4)}
  \cup {Layer(2, 8, 4, <<3>>, <<"none">>, <<1>>, Stored("none", part)) :
     part \in Partitions(3)}
  \cup {Layer(3, 4, 4, <<1>>, <<"none">>, <<1>>, Stored("none", PartitionOf(f, 3, TRUE))) :
     f \in [0 .. 2 -> Levels]}
  \cup {Layer(2, 4, 4, <<2>>, <<"none">>, <<2>>, Stored("none", part)) :
     part \in Partitions(2)}
  \cup {Layer(1, 4, 4, <<2>>, <<"none">>, <<1>>, Stored("none", part)) :
     part \in Partitions(2)}
  \* Inputs that end inside a group, whole and in a row-parallel part.
  \cup {Layer(2, 6, 6, <<1>>, <<"none">>, <<1>>, Stored("none", part)) :
     part \in Partitions(2)}
  \cup {Layer(2, 12, 6, <<1>>, <<"none">>, <<1>>, Stored("none", part)) :
     part \in Partitions(1)}

FirstHalf(id, part)  == SubSeq(Stored(id, part), 1, 5)
SecondHalf(id, part) == SubSeq(Stored(id, part), 6, 9)

Mixed(size, a, b) == PartitionOf([i \in 0 .. (size - 1) |->
                                    IF i % 3 = 0 THEN a ELSE IF i % 3 = 1 THEN b
                                    ELSE 16], size, a < b)

\* Merged layers, the tensors of their modules interleaved in the checkpoint;
\* with one key and value head for two ranks, they are replicated.
Merged ==
  {Layer(2, 4, 4, <<2, 1>>, <<"gate", "up">>, <<1, 1>>,
         FirstHalf("up", u) \o Stored("gate", g) \o SecondHalf("up", u)) :
     g \in {Mixed(4, 4, 8), Mixed(4, 8, 4), Mixed(4, 16, 4)},
     u \in Partitions(2)}
  \cup {Layer(2, 4, 4, <<2, 1, 1>>, <<"q", "k", "v">>, <<1, 1, 1>>,
              Stored("v", v) \o FirstHalf("q", q) \o Stored("k", k)
                \o SecondHalf("q", q)) :
     q \in {Mixed(4, 4, 8), Mixed(4, 16, 4)},
     k \in {Mixed(2, 4, 8)}, v \in {Mixed(2, 4, 8), Mixed(2, 8, 16)}}
  \cup {Layer(2, 4, 4, <<2, 1, 1>>, <<"q", "k", "v">>, <<1, 2, 2>>,
              Stored("q", q) \o Stored("k", k) \o Stored("v", k)) :
     q \in {Mixed(4, 4, 8)}, k \in {Mixed(1, 4, 8), Mixed(1, 16, 8)}}

\* A tensor missing or stored twice, a channel in two places, a row too few,
\* and modules that the checkpoint holds as one.
Damaged ==
  LET whole == Stored("none", Mixed(4, 4, 8))
      Of(stored) == Layer(2, 8, 8, <<2>>, <<"none">>, <<1>>, stored)
      Replace(k, value) == [whole EXCEPT ![k].tensor = value]
  IN {Of(SubSeq(whole, 1, k - 1) \o SubSeq(whole, k + 1, 9)) : k \in 1 .. 9}
     \cup {Of(Append(whole, whole[k])) : k \in 1 .. 9}
     \cup {Of(Stored("none", [Mixed(4, 4, 8) EXCEPT ![4] = s])) :
             s \in {<<0, 0>>, <<0, 1>>, <<3>>, <<0, 4>>}}
     \cup {Of(Replace(k, SubSeq(whole[k].tensor, 1, 1))) : k \in {4, 5, 6}}
     \cup {Layer(2, 4, 4, <<1, 1>>, <<"gate", "up">>, <<1, 1>>, whole)}

AllCases == Single \cup Merged \cup Damaged
==============================================================================
