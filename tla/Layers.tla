------------------------------- MODULE Layers -------------------------------
(***************************************************************************)
(* The layers of server/text_generation_server/layers/ as fragments of     *)
(* straight-line programs.  Every rank of a tensor-parallel server runs    *)
(* the same program on registers of its own; TensorParallel.tla gives the  *)
(* instructions their meaning.  A fragment is a sequence of instructions,  *)
(* so a module of the source that calls its sub-modules one after the      *)
(* other is the concatenation of their fragments.                          *)
(*                                                                         *)
(*   embed    look a token or position up in a vocabulary-sharded table    *)
(*   col      multiply by a column-sharded weight: full input, own slice   *)
(*   heads    attention over the rank's heads                              *)
(*   act      anything computed on the rank's own slice                    *)
(*   row      multiply a slice by a row-sharded weight: a partial sum      *)
(*   part     a full-width tensor that is non-zero in the rank's slice     *)
(*   mix      anything computed with replicated weights on full tensors    *)
(*   add      a sum (residuals, embeddings, parallel branches)             *)
(*   slice    the rank's own slice of a full tensor                        *)
(*   reduce   all-reduce, gather: all-gather; both wait for every rank     *)
(*   head     the language-model head, sharded when the vocabulary allows  *)
(*   refuse   nothing: a constructor on the way raises                     *)
(***************************************************************************)
EXTENDS Integers, Sequences, SequencesExt

Instr(op, src, dst, arg) ==
    << [op |-> op, src |-> src, dst |-> dst, arg |-> arg] >>

Act(src, dst)   == Instr("act", src, dst, <<>>)
Mix(src, dst)   == Instr("mix", src, dst, <<>>)
Add(src, dst)   == Instr("add", src, dst, <<>>)
Part(src, dst)  == Instr("part", src, dst, <<>>)
Slice(src, dst) == Instr("slice", <<src>>, dst, <<>>)
LmHead(src, dst) == Instr("head", <<src>>, dst, <<>>)
Reduce(reg)     == Instr("reduce", <<reg>>, reg, <<>>)
Gather(reg)     == Instr("gather", <<reg>>, reg, <<>>)
Move(src, dst)  == Add(<<src>>, dst)
Refuse(src, dst) == Instr("refuse", src, dst, <<>>)

(***************************************************************************)
(* How a column-sharded layer splits its weight and its bias.  The weight  *)
(* may hold several tensors (query, key and value; gate and up), stored    *)
(* one after the other ("blocks") or interleaved head by head.  `sharded'  *)
(* is Weights.get_sharded, one contiguous range per rank; `packed' is      *)
(* Weights.get_packed_sharded, a range of every block.  With one key/value *)
(* head for all queries the loader takes a range of the query rows and     *)
(* `appends the kv' rows whole.                                            *)
(***************************************************************************)
Fused(parts, order, weight, bias) ==
    [parts |-> parts, order |-> order, weight |-> weight, bias |-> bias]

Single     == Fused(1, "blocks", "sharded", "sharded")
LoadMulti  == Fused(3, "blocks", "packed", "packed")
LoadGateUp == Fused(2, "blocks", "packed", "packed")
LoadQkv    == Fused(3, "blocks", "packed", "packed")
PerHead    == Fused(3, "heads", "sharded", "sharded")
OneKvHead  == Fused(3, "one kv head", "kv appended", "kv appended")

TensorParallelColumnLinear(src, dst, fused) == Instr("col", <<src>>, dst, fused)

\* TensorParallelRowLinear.load reads the bias on rank 0 only.
NoBias == "none"
Bias   == "rank 0"
BiasEverywhere == "every rank"

\* reduce=False: the caller adds other partial sums before it reduces.
RowPartial(src, dst, bias) == Instr("row", <<src>>, dst, bias)

\* A mutated form: the bias is loaded on every rank.
RowLinearBiasOnEveryRank(src, dst, bias) ==
    RowPartial(src, dst, IF bias = Bias THEN BiasEverywhere ELSE bias) \o Reduce(dst)

TensorParallelRowLinear(src, dst, bias) == RowPartial(src, dst, bias) \o Reduce(dst)

EmbedPartial(table, dst) == Instr("embed", <<>>, dst, table)
TensorParallelEmbedding(table, dst) == EmbedPartial(table, dst) \o Reduce(dst)

FastLinear(src, dst) == Mix(<<src>>, dst)

\* TensorParallelHead gathers the slices of the logits when the head is sharded.
TensorParallelHead(src, dst) == LmHead(src, dst) \o Gather(dst)

(***************************************************************************)
(* FastLayerNorm and FastRMSNorm: with a residual they return the norm of  *)
(* the sum, and the sum as the new residual.                               *)
(***************************************************************************)
FastLayerNorm(h, res, dst) == Add(<<h, res>>, res) \o Mix(<<res>>, dst)
FastRMSNorm(h, res, dst)   == Add(<<h, res>>, res) \o Mix(<<res>>, dst)
LayerNorm(src, dst)        == Mix(<<src>>, dst)

(***************************************************************************)
(* How an attention class divides its heads: `heads' and `kv' say what it  *)
(* checks when it is built and how many key/value heads a rank keeps.      *)
(***************************************************************************)
Heads(src, dst, heads, kv) == Instr("heads", src, dst, [heads |-> heads, kv |-> kv])

(***************************************************************************)
(* Mixture of experts: every rank keeps a slice of every expert, weighs    *)
(* the experts with the replicated router and returns a partial sum.       *)
(***************************************************************************)
DenseMoELayer(src, gate, dst) ==
    Mix(<<gate>>, gate) \o TensorParallelColumnLinear(src, dst, LoadGateUp) \o Act(<<dst>>, dst)
        \o RowPartial(dst, dst, NoBias)

UnquantizedSparseMoELayer(src, gate, dst) ==
    Mix(<<gate>>, gate) \o TensorParallelColumnLinear(src, dst, LoadGateUp) \o Act(<<dst>>, dst)
        \o RowPartial(dst, dst, NoBias)

(***************************************************************************)
(* LoRA, with the adapters on the column layers, on the row layers or on   *)
(* none.  x @ A is sharded like the layer (all-gathered for a column       *)
(* layer, all-reduced for a row layer), x @ A @ B is the rank's slice; it  *)
(* is added to what the base layer returned.                               *)
(***************************************************************************)
TensorParallelMultiAdapterLinear(src, dst, fused, lora) ==
    TensorParallelColumnLinear(src, dst, fused)
        \o IF lora # "column" THEN <<>>
           ELSE TensorParallelColumnLinear(src, "lora", Single) \o Gather("lora")
                    \o TensorParallelColumnLinear("lora", "lora", Single)
                    \o Add(<<dst, "lora">>, dst)

TensorParallelAdapterRowLinear(src, dst, bias, lora) ==
    TensorParallelRowLinear(src, dst, bias)
        \o IF lora # "row" THEN <<>>
           ELSE RowPartial(src, "lora", NoBias) \o Reduce("lora")
                    \o Part(<<"lora">>, "lora") \o Add(<<dst, "lora">>, dst)

(***************************************************************************)
(* Heads that also return speculative logits.                              *)
(***************************************************************************)
MedusaHeadV1(src, dst) ==
    TensorParallelHead(src, dst) \o Mix(<<src>>, "spec") \o Mix(<<"spec">>, "spec")

MedusaHeadV2(src, dst) ==
    TensorParallelColumnLinear(src, "spec", LoadMulti) \o Act(<<"spec">>, "spec")
        \o Slice(src, "own") \o Add(<<"own", "spec">>, "spec") \o Gather("spec")
        \o Mix(<<src, "spec">>, "stacked") \o TensorParallelHead("stacked", dst)

\* One embedding, two projections and one head for all predictions; each embeds
\* the token the previous one predicts.
MLPSpeculatorModelTied(ids, state) ==
    Mix(<<ids>>, "ids") \o TensorParallelEmbedding("token", "z") \o FastLinear(state, "spec")
        \o Add(<<"spec", "z">>, "spec") \o Mix(<<"spec">>, "spec") \o FastLinear("spec", "ids")

\* Its constructor scales self.emb.weight, which the nn.ModuleList of its
\* embeddings does not have: it raises.
MLPSpeculatorModel(ids, state) == Refuse(<<ids, state>>, "spec")

MLPSpeculatorHead(src, dst, tied) ==
    TensorParallelHead(src, dst)
        \o IF tied
           THEN MLPSpeculatorModelTied(dst, src) \o MLPSpeculatorModelTied("ids", "spec")
           ELSE MLPSpeculatorModel(dst, src)

SpeculativeHead(src, dst, speculator) ==
    CASE speculator = "none"     -> TensorParallelHead(src, dst)
      [] speculator = "medusav1" -> MedusaHeadV1(src, dst)
      [] speculator = "medusav2" -> MedusaHeadV2(src, dst)
      [] speculator = "mlp"      -> MLPSpeculatorHead(src, dst, FALSE)
      [] speculator = "mlp tied" -> MLPSpeculatorHead(src, dst, TRUE)

\* The same block `n' times: nn.ModuleList([Layer(...) for _ in range(n)]).
Layers(n, block) == FlattenSeq([i \in 1..n |-> block])
=============================================================================
