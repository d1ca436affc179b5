---------------------------- MODULE PaddedModels ----------------------------
(***************************************************************************)
(* The models served without flash attention: t5_modeling.py,              *)
(* bloom_modeling.py, opt_modeling.py, mpt_modeling.py, neox_modeling.py,  *)
(* phi_modeling.py and mamba_modeling.py.  The registers are those of      *)
(* DecoderModels.tla, with enc the encoder output and bias, alibi the      *)
(* per-head position biases.                                               *)
(***************************************************************************)
EXTENDS Layers

\* A replicated tensor built from positions and masks alone.
Positions(dst) == Mix(<<>>, dst)

-----------------------------------------------------------------------------
\* t5_modeling.py.  The relative-position table is sharded by heads.
PartialTPEmbedding(src, dst) == TensorParallelColumnLinear(src, dst, Single)
T5LayerNorm(src, dst) == Mix(<<src>>, dst)

T5DenseActDense(src, dst) ==
    TensorParallelColumnLinear(src, "u", Single) \o Act(<<"u">>, "u")
        \o TensorParallelRowLinear("u", dst, NoBias)

T5DenseGatedActDense(src, dst) ==
    TensorParallelColumnLinear(src, "u", Single) \o TensorParallelColumnLinear(src, "v", Single)
        \o Act(<<"u", "v">>, "u") \o TensorParallelRowLinear("u", dst, NoBias)

T5LayerFF(gated) ==
    T5LayerNorm("h", "x") \o (IF gated THEN T5DenseGatedActDense("x", "m") ELSE T5DenseActDense("x", "m"))
        \o Add(<<"h", "m">>, "h")

T5Relative_position_bucket(dst) == Positions(dst)

T5compute_bias(dst) == T5Relative_position_bucket("pos") \o PartialTPEmbedding("pos", dst)

T5AttentionProjections(src, kv) ==
    TensorParallelColumnLinear(src, "q", Single) \o TensorParallelColumnLinear(kv, "k", Single)
        \o TensorParallelColumnLinear(kv, "v", Single)

T5Attention(src, kv, bias, dst) ==
    T5AttentionProjections(src, kv) \o Heads(<<"q", "k", "v">> \o bias, "q", "checked", "same")
        \o TensorParallelRowLinear("q", dst, NoBias)

T5LayerSelfAttention(bias) ==
    T5LayerNorm("h", "x") \o T5Attention("x", "x", <<bias>>, "a") \o Add(<<"h", "a">>, "h")

T5LayerCrossAttention ==
    T5LayerNorm("h", "x") \o T5Attention("x", "enc", <<>>, "a") \o Add(<<"h", "a">>, "h")

T5Block(decoder, gated) ==
    T5LayerSelfAttention("bias") \o (IF decoder THEN T5LayerCrossAttention ELSE <<>>)
        \o T5LayerFF(gated)

\* The bias of the first layer is handed on to the others; cross-attention has none.
T5Stack(n, decoder, gated, dst) ==
    T5compute_bias("bias") \o Layers(n, T5Block(decoder, gated)) \o T5LayerNorm("h", dst)

T5ForConditionalGeneration(n, gated) ==
    TensorParallelEmbedding("token", "h") \o T5Stack(n, FALSE, gated, "enc")
        \o TensorParallelEmbedding("token", "h") \o T5Stack(n, TRUE, gated, "h")
        \o SpeculativeHead("h", "logits", "none")

-----------------------------------------------------------------------------
\* bloom_modeling.py: the residual is added after the row layer's all-reduce.
BloomAttentionHeads == Heads(<<"q", "alibi">>, "q", "checked", "same")

BloomAttention(src, residual, dst) ==
    TensorParallelColumnLinear(src, "q", PerHead) \o BloomAttentionHeads
        \o TensorParallelRowLinear("q", dst, Bias) \o Add(<<dst, residual>>, dst)

BloomMLP(src, residual, dst) ==
    TensorParallelColumnLinear(src, "u", Single) \o Act(<<"u">>, "u")
        \o TensorParallelRowLinear("u", "m", Bias) \o Add(<<"m", residual>>, dst)

\* apply_residual_connection_post_layernorm: the residual is the normed input.
BloomBlock(post_layernorm) ==
    LET residual(reg) == IF post_layernorm THEN "x" ELSE reg
    IN  LayerNorm("h", "x") \o BloomAttention("x", residual("h"), "a")
            \o LayerNorm("a", "x") \o BloomMLP("x", residual("a"), "h")

build_alibi_tensor(dst) == Positions(dst) \o Slice(dst, dst)

BloomModel(n, post_layernorm) ==
    TensorParallelEmbedding("token", "h") \o LayerNorm("h", "h") \o build_alibi_tensor("alibi")
        \o Layers(n, BloomBlock(post_layernorm)) \o LayerNorm("h", "h")

BloomForCausalLM(n, post_layernorm) ==
    BloomModel(n, post_layernorm) \o SpeculativeHead("h", "logits", "none")

-----------------------------------------------------------------------------
\* opt_modeling.py (galactica too): learned positions, replicated.
OPTLearnedPositionalEmbedding(dst) == Positions(dst)

OPTAttention(src, dst, bias) ==
    TensorParallelColumnLinear(src, "q", Single) \o TensorParallelColumnLinear(src, "k", Single)
        \o TensorParallelColumnLinear(src, "v", Single)
        \o Heads(<<"q", "k", "v">>, "q", "checked", "same") \o TensorParallelRowLinear("q", dst, bias)

OPTDecoderLayer(bias, norm_before) ==
    LET fc(src) == TensorParallelColumnLinear(src, "u", Single) \o Act(<<"u">>, "u")
                       \o TensorParallelRowLinear("u", "m", bias) \o Add(<<"h", "m">>, "h")
    IN  IF norm_before
        THEN LayerNorm("h", "x") \o OPTAttention("x", "a", bias) \o Add(<<"h", "a">>, "h")
                 \o LayerNorm("h", "x") \o fc("x")
        ELSE OPTAttention("h", "a", bias) \o Add(<<"h", "a">>, "h") \o LayerNorm("h", "h")
                 \o fc("h") \o LayerNorm("h", "h")

\* project_in and project_out when the embedding is narrower than the model.
OPTDecoder(n, bias, norm_before, project) ==
    TensorParallelEmbedding("token", "h") \o OPTLearnedPositionalEmbedding("pos")
        \o (IF project THEN FastLinear("h", "h") ELSE <<>>) \o Add(<<"h", "pos">>, "h")
        \o Layers(n, OPTDecoderLayer(bias, norm_before))
        \o (IF norm_before THEN LayerNorm("h", "h") ELSE <<>>)
        \o (IF project THEN FastLinear("h", "h") ELSE <<>>)

OPTForCausalLM(n, bias, norm_before, project) ==
    OPTDecoder(n, bias, norm_before, project) \o SpeculativeHead("h", "logits", "none")

-----------------------------------------------------------------------------
(***************************************************************************)
(* mpt_modeling.py.  load_col takes a range of each third of the weight;   *)
(* of the bias, whose length it takes for a third, it takes one range.     *)
(***************************************************************************)
load_col_mpt(src, dst, bias) ==
    TensorParallelColumnLinear(src, dst,
        Fused(3, "blocks", "packed", IF bias = NoBias THEN "packed" ELSE "sharded"))

MultiheadAttention(src, dst, bias) ==
    load_col_mpt(src, "q", bias) \o Heads(<<"q", "alibi">>, "q", "checked", "same")
        \o TensorParallelRowLinear("q", dst, bias)

MPTMLP(src, dst, bias) ==
    TensorParallelColumnLinear(src, "u", Single) \o Act(<<"u">>, "u")
        \o TensorParallelRowLinear("u", dst, bias)

MPTBlock(bias) ==
    LayerNorm("h", "x") \o MultiheadAttention("x", "a", bias) \o Add(<<"h", "a">>, "h")
        \o LayerNorm("h", "x") \o MPTMLP("x", "m", bias) \o Add(<<"h", "m">>, "h")

attn_bias_mpt(dst) == Positions(dst) \o Slice(dst, dst)

MPTModelEmbeddings(alibi) ==
    TensorParallelEmbedding("token", "h")
        \o IF alibi THEN <<>> ELSE TensorParallelEmbedding("position", "x") \o Add(<<"h", "x">>, "h")

MPTModel(n, bias, alibi) ==
    MPTModelEmbeddings(alibi) \o attn_bias_mpt("alibi") \o Layers(n, MPTBlock(bias))
        \o LayerNorm("h", "h")

MPTForCausalLM(n, bias, alibi) ==
    MPTModel(n, bias, alibi) \o SpeculativeHead("h", "logits", "none")

-----------------------------------------------------------------------------
\* neox_modeling.py
GPTNeoXAttention(src, dst) ==
    TensorParallelColumnLinear(src, "q", PerHead) \o Heads(<<"q">>, "q", "checked", "same")
        \o TensorParallelRowLinear("q", dst, Bias)

GPTNeoXMLP(src, dst) ==
    TensorParallelColumnLinear(src, "u", Single) \o Act(<<"u">>, "u")
        \o TensorParallelRowLinear("u", dst, Bias)

GPTNeoXLayer(parallel) ==
    LayerNorm("h", "x") \o GPTNeoXAttention("x", "a")
        \o IF parallel
           THEN LayerNorm("h", "x") \o GPTNeoXMLP("x", "m") \o Add(<<"m", "a", "h">>, "h")
           ELSE Add(<<"a", "h">>, "a") \o LayerNorm("a", "x") \o GPTNeoXMLP("x", "m")
                    \o Add(<<"m", "a">>, "h")

GPTNeoXModel(n, parallel) ==
    TensorParallelEmbedding("token", "h") \o Layers(n, GPTNeoXLayer(parallel)) \o LayerNorm("h", "h")

GPTNeoxForCausalLM(n, parallel) ==
    GPTNeoXModel(n, parallel) \o SpeculativeHead("h", "logits", "none")

-----------------------------------------------------------------------------
\* phi_modeling.py: the attention reshapes to the whole number of heads.
PhiMHA(src, dst) ==
    TensorParallelColumnLinear(src, "q", Fused(3, "blocks", "sharded", "sharded"))
        \o Heads(<<"q">>, "q", "unchecked", "undivided") \o TensorParallelRowLinear("q", dst, Bias)

PhiMLP(src, dst) == FastLinear(src, dst) \o FastLinear(dst, dst)

PhiBlock ==
    LayerNorm("h", "x") \o PhiMHA("x", "a") \o PhiMLP("x", "m") \o Add(<<"a", "m", "h">>, "h")

PhiModel(n) == TensorParallelEmbedding("token", "h") \o Layers(n, PhiBlock)
PhiCausalLMHead(src, dst) == LayerNorm(src, "x") \o SpeculativeHead("x", dst, "none")
PhiForCausalLM(n) == PhiModel(n) \o PhiCausalLMHead("h", "logits")

-----------------------------------------------------------------------------
\* mamba_modeling.py: every projection is replicated, the embedding is not.
MambaBlockStep(src, dst) ==
    FastLinear(src, "xz") \o Mix(<<"xz", "conv">>, "conv") \o FastLinear("conv", "dt")
        \o Mix(<<"conv", "dt", "xz", "ssm">>, "ssm") \o FastLinear("ssm", dst)

ResidualBlock ==
    Add(<<"h", "res">>, "res") \o LayerNorm("res", "x") \o MambaBlockStep("x", "h")

MambaModel(n) ==
    TensorParallelEmbedding("token", "h") \o Layers(n, ResidualBlock)
        \o Add(<<"h", "res">>, "h") \o LayerNorm("h", "h") \o SpeculativeHead("h", "logits", "none")
=============================================================================
