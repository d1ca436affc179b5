---------------------------- MODULE VisionModels ----------------------------
(***************************************************************************)
(* The vision-language models: the towers clip.py, siglip.py, idefics2.py, *)
(* mllama.py, qwen2_vl.py, idefics_vision.py and idefics_perceiver.py, and *)
(* the models that feed their output to a text model of DecoderModels.tla. *)
(* Register img holds the image features, lat the perceiver's latents.     *)
(***************************************************************************)
EXTENDS DecoderModels

\* A convolution or a class embedding on the pixels, replicated.
Pixels(dst) == Mix(<<>>, dst)

\* norm, attention, +residual, norm, MLP, +residual on register reg.
ResidualBlockOn(reg, attention, mlp) ==
    LayerNorm(reg, "x") \o attention \o Add(<<reg, "a">>, reg)
        \o LayerNorm(reg, "x") \o mlp \o Add(<<reg, "m">>, reg)

\* The same with the branches scaled by a learned gate.
GatedResidualBlockOn(reg, attention, mlp) ==
    LayerNorm(reg, "x") \o attention \o Mix(<<"a">>, "a") \o Add(<<reg, "a">>, reg)
        \o LayerNorm(reg, "x") \o mlp \o Mix(<<"m">>, "m") \o Add(<<reg, "m">>, reg)

\* inputs_embeds[mask] = image_features
MergeImageFeatures == Mix(<<"h", "img">>, "h")

-----------------------------------------------------------------------------
\* clip.py: position embeddings from a vocabulary-sharded table.
CLIPVisionEmbeddings(dst) ==
    Pixels(dst) \o TensorParallelEmbedding("position", "pos") \o Add(<<dst, "pos">>, dst)

CLIPAttention(src, dst) ==
    TensorParallelColumnLinear(src, "q", LoadMulti) \o Heads(<<"q">>, "q", "unchecked", "same")
        \o TensorParallelRowLinear("q", dst, Bias)

CLIPMLP(src, dst) == UpDown(src, dst, Single, Bias)
CLIPEncoderLayer == ResidualBlockOn("img", CLIPAttention("x", "a"), CLIPMLP("x", "m"))
CLIPEncoder(n) == Layers(n, CLIPEncoderLayer)

CLIPVisionTransformer(n) ==
    CLIPVisionEmbeddings("img") \o LayerNorm("img", "img") \o CLIPEncoder(n)

\* siglip.py
SiglipVisionEmbeddings(dst) ==
    Pixels(dst) \o TensorParallelEmbedding("position", "pos") \o Add(<<dst, "pos">>, dst)

SiglipAttention(src, dst) ==
    TensorParallelColumnLinear(src, "q", Single) \o TensorParallelColumnLinear(src, "k", Single)
        \o TensorParallelColumnLinear(src, "v", Single)
        \o Heads(<<"q", "k", "v">>, "q", "unchecked", "same") \o TensorParallelRowLinear("q", dst, Bias)

SiglipMLP(src, dst) == UpDown(src, dst, Single, Bias)
SiglipEncoderLayer == ResidualBlockOn("img", SiglipAttention("x", "a"), SiglipMLP("x", "m"))
SiglipEncoder(n) == Layers(n, SiglipEncoderLayer)
SiglipVisionTransformer(n) == SiglipVisionEmbeddings("img") \o SiglipEncoder(n)

-----------------------------------------------------------------------------
\* llava_next.py over clip and llama.
LlavaNextMultiModalProjector == UpDown("img", "img", Single, Bias)

LlavaNextForConditionalGeneration(n) ==
    TensorParallelEmbedding("token", "h") \o CLIPVisionTransformer(n)
        \o LlavaNextMultiModalProjector \o MergeImageFeatures
        \o FlashLlamaModel(n, "llama", NoBias, "none") \o SpeculativeHead("h", "logits", "none")

(***************************************************************************)
(* flash_pali_gemma_modeling.py over siglip and gemma.  The projector is   *)
(* column-sharded and its output is not gathered before it is merged.      *)
(***************************************************************************)
PaliGemmaForConditionalGeneration(n) ==
    TensorParallelEmbedding("token", "h") \o SiglipVisionTransformer(n) \o LayerNorm("img", "img")
        \o TensorParallelColumnLinear("img", "img", Single) \o MergeImageFeatures
        \o FlashGemmaModel(n) \o SpeculativeHead("h", "logits", "none")

-----------------------------------------------------------------------------
\* idefics2.py: a siglip-like tower, a perceiver and mistral.
Idefics2VisionEmbeddings(dst) ==
    Pixels(dst) \o TensorParallelEmbedding("position", "pos") \o Add(<<dst, "pos">>, dst)

Idefics2VisionAttention(src, dst) ==
    TensorParallelColumnLinear(src, "q", LoadMulti) \o Heads(<<"q">>, "q", "unchecked", "same")
        \o TensorParallelRowLinear("q", dst, Bias)

Idefics2VisionMLP(src, dst) == UpDown(src, dst, Single, Bias)

Idefics2EncoderLayer ==
    ResidualBlockOn("img", Idefics2VisionAttention("x", "a"), Idefics2VisionMLP("x", "m"))

Idefics2Encoder(n) == Layers(n, Idefics2EncoderLayer)

Idefics2VisionTransformer(n) ==
    Idefics2VisionEmbeddings("img") \o Idefics2Encoder(n) \o LayerNorm("img", "img")

Idefics2MLP(src, dst) == UpDown(src, dst, LoadGateUp, NoBias)
Idefics2RMSNorm(src, dst) == Mix(<<src>>, dst)

Idefics2PerceiverAttention(latents, context, dst) ==
    TensorParallelColumnLinear(latents, "q", Single) \o Mix(<<context, latents>>, "c")
        \o TensorParallelColumnLinear("c", "k", LoadGateUp)
        \o Heads(<<"q", "k">>, "q", "unchecked", "unchecked") \o TensorParallelRowLinear("q", dst, NoBias)

Idefics2PerceiverLayer ==
    Idefics2RMSNorm("lat", "x") \o Idefics2RMSNorm("img", "y")
        \o Idefics2PerceiverAttention("x", "y", "a") \o Add(<<"lat", "a">>, "lat")
        \o Idefics2RMSNorm("lat", "x") \o Idefics2MLP("x", "m") \o Add(<<"lat", "m">>, "lat")

Idefics2PerceiverResampler(n) ==
    Mix(<<>>, "lat") \o Layers(n, Idefics2PerceiverLayer) \o Idefics2RMSNorm("lat", "img")

Idefics2Connector(n) == Idefics2MLP("img", "img") \o Idefics2PerceiverResampler(n)

Idefics2ForConditionalGeneration(n) ==
    TensorParallelEmbedding("token", "h") \o Idefics2VisionTransformer(n) \o Idefics2Connector(n)
        \o MergeImageFeatures \o MistralModel(n, "none") \o SpeculativeHead("h", "logits", "none")

-----------------------------------------------------------------------------
(***************************************************************************)
(* mllama.py: gated position embeddings, a local and a gated global        *)
(* encoder, and cross-attention layers between those of llama.             *)
(***************************************************************************)
MllamaVisionMLP(src, dst) == UpDown(src, dst, Single, Bias)

MllamaVisionSdpaAttention(src, dst) ==
    TensorParallelColumnLinear(src, "q", LoadMulti) \o Heads(<<"q">>, "q", "unchecked", "same")
        \o TensorParallelRowLinear("q", dst, NoBias)

MllamaVisionEncoderLayer(gated) ==
    LET attention == MllamaVisionSdpaAttention("x", "a")
        mlp == MllamaVisionMLP("x", "m")
    IN  IF gated THEN GatedResidualBlockOn("img", attention, mlp)
                 ELSE ResidualBlockOn("img", attention, mlp)

MllamaVisionEncoder(n, gated) == Layers(n, MllamaVisionEncoderLayer(gated))

MllamaPrecomputedAspectRatioEmbedding ==
    TensorParallelEmbedding("position", "pos") \o Mix(<<"pos">>, "pos") \o Add(<<"img", "pos">>, "img")

MllamaPrecomputedPositionEmbedding ==
    Pixels("pos") \o Add(<<"img", "pos">>, "img")
        \o TensorParallelEmbedding("position", "pos") \o Mix(<<"pos">>, "pos")
        \o Add(<<"img", "pos">>, "img")

MllamaVisionModel(n) ==
    Pixels("img") \o MllamaPrecomputedAspectRatioEmbedding \o MllamaPrecomputedPositionEmbedding
        \o LayerNorm("img", "img") \o MllamaVisionEncoder(n, FALSE) \o LayerNorm("img", "img")
        \o MllamaPrecomputedAspectRatioEmbedding \o MllamaVisionEncoder(n, TRUE)

MllamaTextRMSNorm(src, dst) == Mix(<<src>>, dst)

\* The query and key norms are per head, on the rank's heads.
MllamaTextCrossAttention(src, dst) ==
    TensorParallelColumnLinear(src, "q", Single) \o Act(<<"q">>, "q")
        \o TensorParallelColumnLinear("img", "k", Single) \o Act(<<"k">>, "k")
        \o TensorParallelColumnLinear("img", "v", Single)
        \o Heads(<<"q", "k", "v">>, "q", "unchecked", "unchecked")
        \o TensorParallelRowLinear("q", dst, NoBias)

MllamaTextMLP(src, dst) == UpDown(src, dst, LoadGateUp, NoBias)

\* The residual is folded into the hidden states and returned as None.
FlashLlamaCrossLayer ==
    Add(<<"h", "res">>, "h") \o Add(<<>>, "res")
        \o MllamaTextRMSNorm("h", "x") \o MllamaTextCrossAttention("x", "a")
        \o Mix(<<"a">>, "a") \o Add(<<"h", "a">>, "h")
        \o MllamaTextRMSNorm("h", "x") \o MllamaTextMLP("x", "m")
        \o Mix(<<"m">>, "m") \o Add(<<"h", "m">>, "h")

MllamaForConditionalGeneration(n) ==
    MllamaVisionModel(n) \o FastLinear("img", "img") \o TensorParallelEmbedding("token", "h")
        \o FlashLlamaLayer("llama", NoBias, "none") \o FlashLlamaCrossLayer
        \o FlashLlamaLayer("llama", NoBias, "none")
        \o FastRMSNorm("h", "res", "h") \o SpeculativeHead("h", "logits", "none")

-----------------------------------------------------------------------------
(***************************************************************************)
(* qwen2_vl.py.  The fused qkv weight is split as packed; its bias is      *)
(* loaded apart, with get_sharded.  The text model is followed by a norm   *)
(* of its own.                                                             *)
(***************************************************************************)
Qwen2VLSdpaAttention(src, dst) ==
    TensorParallelColumnLinear(src, "q", Fused(3, "blocks", "packed", "sharded"))
        \o Heads(<<"q">>, "q", "unchecked", "same") \o TensorParallelRowLinear("q", dst, Bias)

Qwen2VLVisionMLP(src, dst) == UpDown(src, dst, Single, Bias)

Qwen2VLVisionBlock ==
    ResidualBlockOn("img", Qwen2VLSdpaAttention("x", "a"), Qwen2VLVisionMLP("x", "m"))

Qwen2VLPatchMerger == LayerNorm("img", "x") \o UpDown("x", "img", Single, Bias)
Qwen2VisionModel(n) == Pixels("img") \o Layers(n, Qwen2VLVisionBlock) \o Qwen2VLPatchMerger

Qwen2VLForConditionalGeneration(n) ==
    TensorParallelEmbedding("token", "h") \o Qwen2VisionModel(n) \o MergeImageFeatures
        \o Qwen2Model(n) \o LayerNorm("h", "h") \o SpeculativeHead("h", "logits", "none")

-----------------------------------------------------------------------------
\* idefics_vision.py
IdeficsVisionEmbeddings(dst) ==
    Pixels(dst) \o TensorParallelEmbedding("position", "pos") \o Add(<<dst, "pos">>, dst)

IdeficsVisionAttention(src, dst) ==
    TensorParallelColumnLinear(src, "q", Single) \o TensorParallelColumnLinear(src, "k", Single)
        \o TensorParallelColumnLinear(src, "v", Single)
        \o Heads(<<"q", "k", "v">>, "q", "checked", "same") \o TensorParallelRowLinear("q", dst, Bias)

IdeficsVisionMLP(src, dst) == UpDown(src, dst, Single, Bias)

IdeficsVisionEncoderLayer ==
    ResidualBlockOn("img", IdeficsVisionAttention("x", "a"), IdeficsVisionMLP("x", "m"))

IdeficsVisionEncoder(n) == Layers(n, IdeficsVisionEncoderLayer)

IdeficsVisionTransformer(n) ==
    IdeficsVisionEmbeddings("img") \o LayerNorm("img", "img") \o IdeficsVisionEncoder(n)

\* idefics_perceiver.py
IdeficsPerceiverAttention(dst) ==
    LayerNorm("img", "y") \o LayerNorm("lat", "x") \o TensorParallelColumnLinear("x", "q", Single)
        \o Mix(<<"y", "x">>, "c") \o TensorParallelColumnLinear("c", "k", Single)
        \o TensorParallelColumnLinear("c", "v", Single)
        \o Heads(<<"q", "k", "v">>, "q", "checked", "same") \o TensorParallelRowLinear("q", dst, NoBias)

IdeficsMLP_perceiver(src, dst) == LayerNorm(src, "x") \o UpDown("x", dst, Single, NoBias)

IdeficsPerceiverResampler(n) ==
    Mix(<<>>, "lat")
        \o Layers(n, IdeficsPerceiverAttention("a") \o Add(<<"a", "lat">>, "lat")
                         \o IdeficsMLP_perceiver("lat", "m") \o Add(<<"m", "lat">>, "lat"))
        \o LayerNorm("lat", "img")

-----------------------------------------------------------------------------
(***************************************************************************)
(* idefics_modeling.py: an extra embedding table and extra head rows,      *)
(* replicated, and a gated cross-attention layer before a decoder layer.   *)
(***************************************************************************)
IdeficsDecoupledPartialTPEmbedding(dst) ==
    TensorParallelEmbedding("token", dst) \o Mix(<<dst>>, dst)

IdeficsDecoupledTensorParallelLinear(src, dst) ==
    SpeculativeHead(src, dst, "none") \o FastLinear(src, "extra") \o Mix(<<dst, "extra">>, dst)

IdeficsRMSNorm(src, dst) == Mix(<<src>>, dst)
IdeficsMLP(src, dst) == UpDown(src, dst, LoadGateUp, NoBias)

IdeficsAttention(src, dst) ==
    TensorParallelColumnLinear(src, "q", LoadMulti) \o Heads(<<"q">>, "q", "checked", "same")
        \o TensorParallelRowLinear("q", dst, NoBias)

\* The same class with is_cross_attention: keys and values from the image;
\* the query and key norms are per head.
IdeficsCrossAttention(src, dst) ==
    TensorParallelColumnLinear(src, "q", Single) \o TensorParallelColumnLinear("img", "k", Single)
        \o TensorParallelColumnLinear("img", "v", Single) \o Act(<<"q">>, "q") \o Act(<<"k">>, "k")
        \o Heads(<<"q", "k", "v">>, "q", "checked", "same") \o TensorParallelRowLinear("q", dst, NoBias)

IdeficsDecoderLayer == ResidualBlockOn("h", IdeficsAttention("x", "a"), IdeficsMLP("x", "m"))

IdeficsGatedCrossAttentionLayer ==
    GatedResidualBlockOn("h", IdeficsCrossAttention("x", "a"), IdeficsMLP("x", "m"))

\* The image states, resampled when the configuration says so.
IdeficsModelImageStates(n, resampler) ==
    IdeficsVisionTransformer(n) \o IF resampler THEN IdeficsPerceiverResampler(1) ELSE <<>>

IdeficsModelLayers(n) == Layers(n, IdeficsGatedCrossAttentionLayer \o IdeficsDecoderLayer)

IdeficsModel(n, resampler) ==
    IdeficsModelImageStates(n, resampler) \o IdeficsDecoupledPartialTPEmbedding("h")
        \o IdeficsModelLayers(n) \o IdeficsRMSNorm("h", "h")

IdeficsForVisionText2Text(n, resampler) ==
    IdeficsModel(n, resampler) \o IdeficsDecoupledTensorParallelLinear("h", "logits")
=============================================================================
