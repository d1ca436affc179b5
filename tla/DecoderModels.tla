---------------------------- MODULE DecoderModels ----------------------------
(***************************************************************************)
(* The decoder-only models of models/custom_modeling/flash_*_modeling.py,  *)
(* each class as the program fragment its forward() runs.  Registers:      *)
(* h hidden states, res the residual, x the normed input, q the fused      *)
(* projection, a the attention output, m the MLP output.  A fragment reads *)
(* its source register(s) and writes its destination.                      *)
(***************************************************************************)
EXTENDS Layers

\* The body shared by a (load_multi or single) column layer, an activation
\* and a row layer: every plain MLP of these models.
UpDown(src, dst, fused, bias) ==
    TensorParallelColumnLinear(src, "u", fused) \o Act(<<"u">>, "u")
        \o TensorParallelRowLinear("u", dst, bias)

\* The same without the all-reduce: the caller reduces a sum of partials.
UpDownPartial(src, dst, fused, bias) ==
    TensorParallelColumnLinear(src, "u", fused) \o Act(<<"u">>, "u")
        \o RowPartial("u", dst, bias)

\* norm, attention, norm with residual, feed-forward: the pre-norm block.
PreNormBlock(attention, mlp) ==
    FastRMSNorm("h", "res", "x") \o attention \o FastRMSNorm("a", "res", "x") \o mlp

-----------------------------------------------------------------------------
(***************************************************************************)
(* flash_llama_modeling.py: llama, phi3 (packed weights) and phimoe.       *)
(***************************************************************************)
load_attention_llama(type) == IF type \in {"phi3", "baichuan"} THEN LoadQkv ELSE LoadMulti

FlashLlamaAttention(src, dst, type, bias, lora) ==
    TensorParallelMultiAdapterLinear(src, "q", load_attention_llama(type), lora)
        \o Heads(<<"q">>, "q", "checked", "checked")
        \o TensorParallelAdapterRowLinear("q", dst, bias, lora)

Phi3MoE(src, dst) ==
    FastLinear(src, "g") \o UnquantizedSparseMoELayer(src, "g", dst) \o Reduce(dst)

LlamaMLP(src, dst, type, bias, lora) ==
    TensorParallelMultiAdapterLinear(src, "u", LoadGateUp, lora) \o Act(<<"u">>, "u")
        \o TensorParallelAdapterRowLinear("u", dst, bias, lora)

FlashLlamaLayer(type, bias, lora) ==
    PreNormBlock(FlashLlamaAttention("x", "a", type, bias, lora),
                 IF type = "phimoe" THEN Phi3MoE("x", "h")
                                    ELSE LlamaMLP("x", "h", type, bias, lora))

FlashLlamaModel(n, type, bias, lora) ==
    Layers(n, FlashLlamaLayer(type, bias, lora)) \o FastRMSNorm("h", "res", "h")

FlashLlamaForCausalLM(n, type, bias, lora, speculator) ==
    TensorParallelEmbedding("token", "h") \o FlashLlamaModel(n, type, bias, lora)
        \o SpeculativeHead("h", "logits", speculator)

-----------------------------------------------------------------------------
\* flash_mistral_modeling.py
MistralAttention(src, dst, lora) ==
    TensorParallelMultiAdapterLinear(src, "q", LoadMulti, lora)
        \o Heads(<<"q">>, "q", "checked", "unchecked")
        \o TensorParallelAdapterRowLinear("q", dst, NoBias, lora)

MistralMLP(src, dst, lora) ==
    TensorParallelMultiAdapterLinear(src, "u", LoadGateUp, lora) \o Act(<<"u">>, "u")
        \o TensorParallelAdapterRowLinear("u", dst, NoBias, lora)

MistralLayer(lora) ==
    PreNormBlock(MistralAttention("x", "a", lora), MistralMLP("x", "h", lora))

MistralModel(n, lora) == Layers(n, MistralLayer(lora)) \o FastRMSNorm("h", "res", "h")

FlashMistralForCausalLM(n, lora, speculator) ==
    TensorParallelEmbedding("token", "h") \o MistralModel(n, lora)
        \o SpeculativeHead("h", "logits", speculator)

-----------------------------------------------------------------------------
\* flash_mixtral_modeling.py
load_attention_mixtral(src, dst) == TensorParallelColumnLinear(src, dst, LoadMulti)

MixtralAttention(src, dst) ==
    load_attention_mixtral(src, "q") \o Heads(<<"q">>, "q", "checked", "asserted")
        \o TensorParallelRowLinear("q", dst, NoBias)

MixtralMoE(src, dst) ==
    FastLinear(src, "g") \o DenseMoELayer(src, "g", dst) \o Reduce(dst)

MixtralLayer == PreNormBlock(MixtralAttention("x", "a"), MixtralMoE("x", "h"))

MixtralModel(n) ==
    TensorParallelEmbedding("token", "h") \o Layers(n, MixtralLayer)
        \o FastRMSNorm("h", "res", "h")

FlashMixtralForCausalLM(n, speculator) ==
    MixtralModel(n) \o SpeculativeHead("h", "logits", speculator)

-----------------------------------------------------------------------------
\* flash_gemma_modeling.py
GemmaFastRMSNorm(h, res, dst) == FastRMSNorm(h, res, dst)
load_attention_gemma(src, dst) == TensorParallelColumnLinear(src, dst, LoadMulti)

FlashGemmaAttention(src, dst) ==
    load_attention_gemma(src, "q") \o Heads(<<"q">>, "q", "checked", "asserted")
        \o TensorParallelRowLinear("q", dst, NoBias)

GemmaMLP(src, dst) == UpDown(src, dst, LoadGateUp, NoBias)

FlashGemmaLayer ==
    GemmaFastRMSNorm("h", "res", "x") \o FlashGemmaAttention("x", "a")
        \o GemmaFastRMSNorm("a", "res", "x") \o GemmaMLP("x", "h")

FlashGemmaModel(n) == Layers(n, FlashGemmaLayer) \o GemmaFastRMSNorm("h", "res", "h")

FlashGemmaForCausalLM(n, speculator) ==
    TensorParallelEmbedding("token", "h") \o FlashGemmaModel(n)
        \o SpeculativeHead("h", "logits", speculator)

-----------------------------------------------------------------------------
\* flash_gemma2_modeling.py: norms on both sides of attention and MLP.
Gemma2FastRMSNorm(h, res, dst) == FastRMSNorm(h, res, dst)
load_attention_gemma2 == LoadMulti

FlashGemma2Attention(src, dst, lora) ==
    TensorParallelMultiAdapterLinear(src, "q", load_attention_gemma2, lora)
        \o Heads(<<"q">>, "q", "checked", "asserted")
        \o TensorParallelAdapterRowLinear("q", dst, NoBias, lora)

Gemma2MLP(src, dst, lora) ==
    TensorParallelMultiAdapterLinear(src, "u", LoadGateUp, lora) \o Act(<<"u">>, "u")
        \o TensorParallelAdapterRowLinear("u", dst, NoBias, lora)

FlashGemma2Layer(lora) ==
    Gemma2FastRMSNorm("h", "res", "x") \o FlashGemma2Attention("x", "a", lora)
        \o LayerNorm("a", "a") \o Add(<<"a", "res">>, "res") \o LayerNorm("res", "x")
        \o Gemma2MLP("x", "m", lora) \o LayerNorm("m", "h")

FlashGemma2Model(n, lora) == Layers(n, FlashGemma2Layer(lora)) \o Gemma2FastRMSNorm("h", "res", "h")

FlashGemma2ForCausalLM(n, lora, speculator) ==
    TensorParallelEmbedding("token", "h") \o FlashGemma2Model(n, lora)
        \o SpeculativeHead("h", "logits", speculator)

-----------------------------------------------------------------------------
(***************************************************************************)
(* flash_rw_modeling.py (falcon).  With parallel attention load_row        *)
(* leaves the all-reduce to the layer.                                     *)
(***************************************************************************)
load_row_rw(src, dst, bias, parallel) ==
    IF parallel THEN RowPartial(src, dst, bias) ELSE TensorParallelRowLinear(src, dst, bias)

FlashRWAttention(src, dst, bias, parallel) ==
    TensorParallelColumnLinear(src, "q", Fused(3, "blocks", "sharded", "sharded"))
        \o Heads(<<"q">>, "q", "checked", "undivided") \o load_row_rw("q", dst, bias, parallel)

FlashRWLargeAttention(src, dst, bias) ==
    TensorParallelColumnLinear(src, "q", PerHead)
        \o Heads(<<"q">>, "q", "unchecked", "groups") \o load_row_rw("q", dst, bias, TRUE)

FlashMLP_rw(src, dst, bias, parallel) ==
    TensorParallelColumnLinear(src, "u", Single) \o Act(<<"u">>, "u")
        \o load_row_rw("u", dst, bias, parallel)

FlashRWLayer(bias, parallel) ==
    FastLayerNorm("h", "res", "x") \o FlashRWAttention("x", "a", bias, parallel)
        \o IF parallel
           THEN FlashMLP_rw("x", "m", bias, TRUE) \o Add(<<"m", "a">>, "h") \o Reduce("h")
           ELSE FastLayerNorm("a", "res", "x") \o FlashMLP_rw("x", "h", bias, FALSE)

\* One layer norm feeds attention and MLP, or each has its own.
FlashRWLayerNorm(num_ln) ==
    FastLayerNorm("h", "res", "x") \o (IF num_ln = 1 THEN Move("x", "y") ELSE LayerNorm("res", "y"))

FlashRWLargeLayer(bias, num_ln) ==
    FlashRWLayerNorm(num_ln) \o FlashRWLargeAttention("x", "a", bias)
        \o FlashMLP_rw("y", "m", bias, TRUE) \o Add(<<"a", "m">>, "h") \o Reduce("h")

FlashRWModel(layers) ==
    TensorParallelEmbedding("token", "h") \o layers \o FastLayerNorm("h", "res", "h")

FlashRWForCausalLM(layers) == FlashRWModel(layers) \o SpeculativeHead("h", "logits", "none")

-----------------------------------------------------------------------------
(***************************************************************************)
(* flash_cohere_modeling.py: attention and MLP in parallel, one            *)
(* all-reduce.  The query and key norms keep the rank's rows of their      *)
(* weight, one per head.                                                   *)
(***************************************************************************)
CohereLayerNorm(reg) == Act(<<reg>>, reg)
load_attention_cohere(src, dst) == TensorParallelColumnLinear(src, dst, LoadMulti)

FlashCohereAttention(src, dst, bias) ==
    load_attention_cohere(src, "q") \o CohereLayerNorm("q")
        \o Heads(<<"q">>, "q", "checked", "asserted") \o RowPartial("q", dst, bias)

CohereMLP(src, dst) == UpDownPartial(src, dst, LoadGateUp, NoBias)

FlashCohereLayer(bias) ==
    FastLayerNorm("h", "res", "x") \o FlashCohereAttention("x", "a", bias)
        \o CohereMLP("x", "m") \o Add(<<"a", "m">>, "h") \o Reduce("h")

FlashCohereModel(n, bias) ==
    TensorParallelEmbedding("token", "h") \o Layers(n, FlashCohereLayer(bias))
        \o FastLayerNorm("h", "res", "h")

FlashCohereForCausalLM(n, bias) ==
    FlashCohereModel(n, bias) \o SpeculativeHead("h", "logits", "none")

-----------------------------------------------------------------------------
\* flash_dbrx_modeling.py
load_attention_dbrx(src, dst) == TensorParallelColumnLinear(src, dst, LoadQkv)

DbrxAttention(src, dst) ==
    load_attention_dbrx(src, "q") \o Heads(<<"q">>, "q", "checked", "unchecked")
        \o TensorParallelRowLinear("q", dst, NoBias)

DbrxNormAttentionNorm ==
    FastLayerNorm("h", "res", "x") \o DbrxAttention("x", "a") \o FastLayerNorm("a", "res", "x")

BlockSparseMoE(src, dst) ==
    FastLinear(src, "g") \o UnquantizedSparseMoELayer(src, "g", dst) \o Reduce(dst)

\* Every expert's w1, v1 and w2 in turn; the weighted sum is reduced once.
DenseMoE(src, dst) ==
    FastLinear(src, "g")
        \o TensorParallelColumnLinear(src, "u", Single) \o TensorParallelColumnLinear(src, "v", Single)
        \o Act(<<"u", "v">>, "u") \o RowPartial("u", dst, NoBias)
        \o TensorParallelColumnLinear(src, "u", Single) \o TensorParallelColumnLinear(src, "v", Single)
        \o Act(<<"u", "v">>, "u") \o RowPartial("u", "m", NoBias) \o Add(<<dst, "m">>, dst)
        \o Reduce(dst)

DbrxLayer(dense) ==
    DbrxNormAttentionNorm \o IF dense THEN DenseMoE("x", "h") ELSE BlockSparseMoE("x", "h")

DbrxModel(n, dense) ==
    TensorParallelEmbedding("token", "h") \o Layers(n, DbrxLayer(dense))
        \o FastLayerNorm("h", "res", "h")

FlashDbrxForCausalLM(n, dense) ==
    DbrxModel(n, dense) \o SpeculativeHead("h", "logits", "none")

-----------------------------------------------------------------------------
(***************************************************************************)
(* flash_deepseek_v2_modeling.py: the low-rank query and key/value         *)
(* projections are replicated, their expansions column-sharded.            *)
(***************************************************************************)
DeepseekV2Attention(src, dst, q_lora) ==
    (IF q_lora THEN FastLinear(src, "ql") \o LayerNorm("ql", "ql") ELSE Move(src, "ql"))
        \o TensorParallelColumnLinear("ql", "q", Single)
        \o FastLinear(src, "kl") \o LayerNorm("kl", "kl")
        \o TensorParallelColumnLinear("kl", "k", PerHead)
        \o Heads(<<"q", "k">>, "q", "checked", "unchecked")
        \o TensorParallelRowLinear("q", dst, NoBias)

DeepseekV2MLP(src, dst) == UpDown(src, dst, LoadGateUp, NoBias)

DeepseekV2MoE(src, dst, shared) ==
    (IF shared THEN UpDownPartial(src, "m", LoadGateUp, NoBias) ELSE <<>>)
        \o FastLinear(src, "g") \o UnquantizedSparseMoELayer(src, "g", dst)
        \o (IF shared THEN Add(<<dst, "m">>, dst) ELSE <<>>) \o Reduce(dst)

DeepseekV2Layer(q_lora, moe) ==
    PreNormBlock(DeepseekV2Attention("x", "a", q_lora),
                 IF moe THEN DeepseekV2MoE("x", "h", TRUE) ELSE DeepseekV2MLP("x", "h"))

\* first_k_dense_replace = 1: the first layer is dense, the second is not.
DeepseekV2Model(q_lora) ==
    TensorParallelEmbedding("token", "h") \o DeepseekV2Layer(q_lora, FALSE)
        \o DeepseekV2Layer(q_lora, TRUE) \o FastRMSNorm("h", "res", "h")

FlashDeepseekV2ForCausalLM(q_lora) ==
    DeepseekV2Model(q_lora) \o SpeculativeHead("h", "logits", "none")

-----------------------------------------------------------------------------
\* flash_starcoder2_modeling.py
load_attention_starcoder2(src, dst) == TensorParallelColumnLinear(src, dst, LoadMulti)

Starcoder2Attention(src, dst, bias) ==
    load_attention_starcoder2(src, "q") \o Heads(<<"q">>, "q", "checked", "asserted")
        \o TensorParallelRowLinear("q", dst, bias)

Starcoder2MLP(src, dst, bias) == UpDown(src, dst, Single, bias)

Starcoder2GatedMLP(src, dst, bias) == UpDown(src, dst, LoadGateUp, bias)

Starcoder2Layer(bias, gated) ==
    PreNormBlock(Starcoder2Attention("x", "a", bias),
                 IF gated THEN Starcoder2GatedMLP("x", "h", bias) ELSE Starcoder2MLP("x", "h", bias))

Starcoder2Model(n, bias, gated) ==
    TensorParallelEmbedding("token", "h") \o Layers(n, Starcoder2Layer(bias, gated))
        \o FastLayerNorm("h", "res", "h")

FlashStarcoder2ForCausalLM(n, bias, gated) ==
    Starcoder2Model(n, bias, gated) \o SpeculativeHead("h", "logits", "none")

-----------------------------------------------------------------------------
(***************************************************************************)
(* flash_santacoder_modeling.py: the query rows are sharded, the one       *)
(* key/value head is kept whole by every rank.                             *)
(***************************************************************************)
\* Without config.transpose the query and key/value weights of a checkpoint that
\* keeps them apart are joined along the wrong dimension: the shape assert fails.
load_multi_mqa(src, dst, apart) ==
    IF apart THEN Refuse(<<src>>, dst)
             ELSE TensorParallelColumnLinear(src, dst, OneKvHead)

load_col_santacoder(src, dst) == TensorParallelColumnLinear(src, dst, Single)
load_row_santacoder(src, dst) == TensorParallelRowLinear(src, dst, Bias)

FlashMQAttention(src, dst, apart) ==
    load_multi_mqa(src, "q", apart) \o Heads(<<"q">>, "q", "checked", "shared")
        \o load_row_santacoder("q", dst)

MLP_santacoder(src, dst) ==
    load_col_santacoder(src, "u") \o Act(<<"u">>, "u") \o load_row_santacoder("u", dst)

Block_santacoder(apart) ==
    FastLayerNorm("h", "res", "x") \o FlashMQAttention("x", "a", apart)
        \o FastLayerNorm("a", "res", "x") \o MLP_santacoder("x", "h")

\* Both embeddings are looked up without a reduction, added and reduced once.
FlashSantacoderModel(n, apart) ==
    EmbedPartial("token", "h") \o EmbedPartial("position", "x")
        \o Add(<<"h", "x">>, "h") \o Reduce("h")
        \o Layers(n, Block_santacoder(apart)) \o FastLayerNorm("h", "res", "h")

FlashSantacoderForCausalLM(n, apart) ==
    FlashSantacoderModel(n, apart) \o SpeculativeHead("h", "logits", "none")

-----------------------------------------------------------------------------
\* flash_gpt2_modeling.py
load_qkv_gpt2(src, dst) == TensorParallelColumnLinear(src, dst, LoadQkv)
load_row_gpt2(src, dst) == TensorParallelRowLinear(src, dst, Bias)
load_col_gpt2(src, dst) == TensorParallelColumnLinear(src, dst, Single)

FlashGPT2Attention(src, dst) ==
    load_qkv_gpt2(src, "q") \o Heads(<<"q">>, "q", "checked", "same") \o load_row_gpt2("q", dst)

GPT2MLP(src, dst) == load_col_gpt2(src, "u") \o Act(<<"u">>, "u") \o load_row_gpt2("u", dst)

\* The residual is added in the layer, not in the norm.
FlashGPT2Layer ==
    LayerNorm("h", "x") \o FlashGPT2Attention("x", "a") \o Add(<<"a", "h">>, "h")
        \o LayerNorm("h", "x") \o GPT2MLP("x", "m") \o Add(<<"h", "m">>, "h")

FlashGPT2Model(n) == Layers(n, FlashGPT2Layer) \o LayerNorm("h", "h")

FlashGPT2ForCausalLM(n) ==
    TensorParallelEmbedding("token", "h") \o TensorParallelEmbedding("position", "x")
        \o Add(<<"h", "x">>, "h") \o FlashGPT2Model(n) \o SpeculativeHead("h", "logits", "none")

-----------------------------------------------------------------------------
\* flash_gptj_modeling.py: attention and MLP read the same norm.
load_attention_gptj(src, dst) == TensorParallelColumnLinear(src, dst, LoadMulti)
load_row_gptj(src, dst, bias) == TensorParallelRowLinear(src, dst, bias)

FlashGPTJAttention(src, dst) ==
    load_attention_gptj(src, "q") \o Heads(<<"q">>, "q", "checked", "same")
        \o load_row_gptj("q", dst, NoBias)

GPTJMLP(src, dst) ==
    TensorParallelColumnLinear(src, "u", Single) \o Act(<<"u">>, "u") \o load_row_gptj("u", dst, Bias)

FlashGPTJLayer ==
    FastLayerNorm("h", "res", "x") \o FlashGPTJAttention("x", "a") \o GPTJMLP("x", "m")
        \o Add(<<"a", "m">>, "h")

FlashGPTJModel(n) ==
    TensorParallelEmbedding("token", "h") \o Layers(n, FlashGPTJLayer)
        \o FastLayerNorm("h", "res", "h")

FlashGPTJForCausalLM(n) == FlashGPTJModel(n) \o SpeculativeHead("h", "logits", "none")

-----------------------------------------------------------------------------
(***************************************************************************)
(* flash_neox_modeling.py.  With a parallel residual load_row leaves the   *)
(* all-reduce to the layer; the residual is added after it.                *)
(***************************************************************************)
load_row_neox(src, dst, parallel) ==
    IF parallel THEN RowPartial(src, dst, Bias) ELSE TensorParallelRowLinear(src, dst, Bias)

load_qkv_neox(src, dst) == TensorParallelColumnLinear(src, dst, PerHead)

FlashNeoxAttention(src, dst, parallel) ==
    load_qkv_neox(src, "q") \o Heads(<<"q">>, "q", "checked", "same")
        \o load_row_neox("q", dst, parallel)

FlashMLP_neox(src, dst, parallel) ==
    TensorParallelColumnLinear(src, "u", Single) \o Act(<<"u">>, "u")
        \o load_row_neox("u", dst, parallel)

\* A mutated form: the residual is added before the all-reduce.
FlashNeoXLayerResidualBeforeReduce(parallel) ==
    IF parallel
    THEN LayerNorm("h", "x") \o FlashNeoxAttention("x", "a", TRUE)
             \o LayerNorm("h", "x") \o FlashMLP_neox("x", "m", TRUE)
             \o Add(<<"m", "a">>, "m") \o Add(<<"m", "h">>, "h") \o Reduce("h")
    ELSE FastLayerNorm("h", "res", "x") \o FlashNeoxAttention("x", "a", FALSE)
             \o FastLayerNorm("a", "res", "x") \o FlashMLP_neox("x", "h", FALSE)

FlashNeoXLayer(parallel) ==
    IF parallel
    THEN LayerNorm("h", "x") \o FlashNeoxAttention("x", "a", TRUE)
             \o LayerNorm("h", "x") \o FlashMLP_neox("x", "m", TRUE)
             \o Add(<<"m", "a">>, "m") \o Reduce("m") \o Add(<<"m", "h">>, "h")
    ELSE FastLayerNorm("h", "res", "x") \o FlashNeoxAttention("x", "a", FALSE)
             \o FastLayerNorm("a", "res", "x") \o FlashMLP_neox("x", "h", FALSE)

FlashGPTNeoXModel(n, parallel) ==
    TensorParallelEmbedding("token", "h") \o Layers(n, FlashNeoXLayer(parallel))
        \o FastLayerNorm("h", "res", "h")

FlashGPTNeoXForCausalLM(n, parallel) ==
    FlashGPTNeoXModel(n, parallel) \o SpeculativeHead("h", "logits", "none")

-----------------------------------------------------------------------------
\* flash_phi_modeling.py
load_attention_phi(src, dst) == TensorParallelColumnLinear(src, dst, LoadMulti)

FlashPhiAttention(src, dst) ==
    load_attention_phi(src, "q") \o Heads(<<"q">>, "q", "checked", "asserted")
        \o TensorParallelRowLinear("q", dst, Bias)

PhiMLP_flash(src, dst) == UpDown(src, dst, Single, Bias)

FlashPhiLayer ==
    FastLayerNorm("h", "res", "x") \o FlashPhiAttention("x", "a") \o PhiMLP_flash("x", "m")
        \o Add(<<"a", "m">>, "h")

FlashPhiModel(n) ==
    TensorParallelEmbedding("token", "h") \o Layers(n, FlashPhiLayer)
        \o FastLayerNorm("h", "res", "h")

FlashPhiForCausalLM(n) == FlashPhiModel(n) \o SpeculativeHead("h", "logits", "none")

-----------------------------------------------------------------------------
\* flash_qwen2_modeling.py: the biases of q, k and v are sharded tensor by tensor.
load_attention_qwen2(src, dst) == TensorParallelColumnLinear(src, dst, LoadMulti)

Qwen2Attention(src, dst) ==
    load_attention_qwen2(src, "q") \o Heads(<<"q">>, "q", "checked", "unchecked")
        \o TensorParallelRowLinear("q", dst, NoBias)

Qwen2MLP(src, dst) == UpDown(src, dst, LoadGateUp, NoBias)

Qwen2Layer == PreNormBlock(Qwen2Attention("x", "a"), Qwen2MLP("x", "h"))

Qwen2Model(n) == Layers(n, Qwen2Layer) \o FastRMSNorm("h", "res", "h")

Qwen2ForCausalLM(n) ==
    TensorParallelEmbedding("token", "h") \o Qwen2Model(n) \o SpeculativeHead("h", "logits", "none")
=============================================================================
