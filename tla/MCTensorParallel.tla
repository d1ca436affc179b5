-------------------------- MODULE MCTensorParallel --------------------------
(***************************************************************************)
(* TensorParallel with the programs of every model class, on deployments   *)
(* of one to three ranks.                                                  *)
(***************************************************************************)
EXTENDS TensorParallel, VisionModels, PaddedModels, TLC

CONSTANT Flawed   \* the architectures of the last two groups that a run shards

FlashPrograms ==
    "llama" :> FlashLlamaForCausalLM(1, "llama", NoBias, "none", "none")
    @@ "llama lora" :> FlashLlamaForCausalLM(1, "llama", Bias, "column", "none")
    @@ "llama medusav1" :> FlashLlamaForCausalLM(1, "llama", NoBias, "none", "medusav1")
    @@ "llama medusav2" :> FlashLlamaForCausalLM(1, "llama", NoBias, "none", "medusav2")
    @@ "llama mlp tied" :> FlashLlamaForCausalLM(1, "llama", NoBias, "none", "mlp tied")
    @@ "phi3" :> FlashLlamaForCausalLM(1, "phi3", NoBias, "none", "none")
    @@ "phimoe" :> FlashLlamaForCausalLM(1, "phimoe", Bias, "none", "none")
    @@ "mistral" :> FlashMistralForCausalLM(2, "none", "none")
    @@ "mistral lora" :> FlashMistralForCausalLM(1, "column", "none")
    @@ "mixtral" :> FlashMixtralForCausalLM(1, "none")
    @@ "gemma" :> FlashGemmaForCausalLM(1, "none")
    @@ "gemma2" :> FlashGemma2ForCausalLM(1, "column", "none")
    @@ "falcon" :> FlashRWForCausalLM(FlashRWLargeLayer(Bias, 1))
    @@ "falcon two norms" :> FlashRWForCausalLM(FlashRWLargeLayer(NoBias, 2))
    @@ "cohere" :> FlashCohereForCausalLM(2, Bias)
    @@ "dbrx" :> FlashDbrxForCausalLM(1, FALSE)
    @@ "dbrx dense" :> FlashDbrxForCausalLM(1, TRUE)
    @@ "deepseek" :> FlashDeepseekV2ForCausalLM(FALSE)
    @@ "deepseek q_lora" :> FlashDeepseekV2ForCausalLM(TRUE)
    @@ "starcoder2" :> FlashStarcoder2ForCausalLM(1, Bias, FALSE)
    @@ "starcoder2 gated" :> FlashStarcoder2ForCausalLM(1, NoBias, TRUE)
    @@ "santacoder" :> FlashSantacoderForCausalLM(2, FALSE)
    @@ "gpt2" :> FlashGPT2ForCausalLM(1)
    @@ "gptj" :> FlashGPTJForCausalLM(1)
    @@ "neox" :> FlashGPTNeoXForCausalLM(2, FALSE)
    @@ "neox parallel" :> FlashGPTNeoXForCausalLM(2, TRUE)
    @@ "phi" :> FlashPhiForCausalLM(1)
    @@ "qwen2" :> Qwen2ForCausalLM(1)

PaddedPrograms ==
    "t5" :> T5ForConditionalGeneration(1, FALSE)
    @@ "t5 gated" :> T5ForConditionalGeneration(1, TRUE)
    @@ "bloom" :> BloomForCausalLM(1, FALSE)
    @@ "bloom post norm" :> BloomForCausalLM(2, TRUE)
    @@ "opt" :> OPTForCausalLM(1, Bias, TRUE, FALSE)
    @@ "opt post norm" :> OPTForCausalLM(1, NoBias, FALSE, TRUE)
    @@ "mpt" :> MPTForCausalLM(1, NoBias, TRUE)
    @@ "mpt positions" :> MPTForCausalLM(1, NoBias, FALSE)
    @@ "neox padded" :> GPTNeoxForCausalLM(1, FALSE)
    @@ "neox padded parallel" :> GPTNeoxForCausalLM(1, TRUE)
    @@ "mamba" :> MambaModel(2)

VisionPrograms ==
    "llava_next" :> LlavaNextForConditionalGeneration(1)
    @@ "idefics2" :> Idefics2ForConditionalGeneration(1)
    @@ "mllama" :> MllamaForConditionalGeneration(1)
    @@ "idefics" :> IdeficsForVisionText2Text(1, FALSE)
    @@ "idefics perceiver" :> IdeficsForVisionText2Text(1, TRUE)

\* Served as on one device by one rank only.
FlawedPrograms ==
    "llama row lora" :> FlashLlamaForCausalLM(1, "llama", NoBias, "row", "none")
    @@ "mpt bias" :> MPTForCausalLM(1, Bias, TRUE)
    @@ "qwen2_vl" :> Qwen2VLForConditionalGeneration(1)
    @@ "paligemma" :> PaliGemmaForConditionalGeneration(1)
    @@ "falcon small" :> FlashRWForCausalLM(FlashRWLayer(NoBias, TRUE))
    @@ "falcon sequential" :> FlashRWForCausalLM(FlashRWLayer(Bias, FALSE))
    @@ "phi padded" :> PhiForCausalLM(1)

\* Never served: the constructor raises on any number of ranks.
RefusedPrograms ==
    "llama mlp" :> FlashLlamaForCausalLM(1, "llama", NoBias, "none", "mlp")
    @@ "santacoder apart" :> FlashSantacoderForCausalLM(1, TRUE)

AllPrograms ==
    FlashPrograms @@ PaddedPrograms @@ VisionPrograms @@ FlawedPrograms @@ RefusedPrograms

Deployment(arch, w, h, k, vocab, token) ==
    [arch |-> arch, program |-> AllPrograms[arch],
     W |-> w, H |-> h, K |-> k, vocab |-> vocab, token |-> token]

\* Heads that divide, key/value heads that do not, heads that do not; a
\* vocabulary that divides, one with a short last block, one with an empty one.
Shapes == { <<1, 4, 4, 4, 1>>, <<2, 4, 2, 4, 3>>, <<2, 4, 1, 5, 4>>, <<2, 3, 3, 4, 0>>,
            <<2, 6, 3, 5, 0>>, <<3, 6, 3, 4, 2>> }

MCDeployments ==
    IF Flawed # {}
    THEN { Deployment(a, 2, 4, 2, 4, 0) : a \in Flawed }
    ELSE { Deployment(a, s[1], s[2], s[3], s[4], s[5]) :
               a \in DOMAIN AllPrograms \ (DOMAIN FlawedPrograms \cup DOMAIN RefusedPrograms), s \in Shapes }
         \cup { Deployment(a, 1, 4, 2, 4, 0) : a \in DOMAIN FlawedPrograms }
=============================================================================
