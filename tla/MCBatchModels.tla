---------------------------- MODULE MCBatchModels ----------------------------
(* One shard and up to four requests: prompts and generations of different  *)
(* lengths, truncated prompts, prompts with several images, and for the     *)
(* flash models cached prefixes, chunks, speculation, adapters and logprobs. *)
EXTENDS BatchModels

Request(length, truncate, new, images) ==
    [length |-> length, truncate |-> truncate, max_new_tokens |-> new,
     images |-> images]

Padded(kind, requests) ==
    [kind |-> kind, requests |-> requests, speculate |-> 0, chunking |-> FALSE,
     max_prefill_tokens |-> 1]

\* Prompts of different lengths, the longest one truncated.
Mixed ==
    { << Request(3, 2, 2, 0), Request(1, 2, 4, 0), Request(2, 2, 3, 0) >>,
      << Request(1, 2, 4, 0), Request(2, 2, 3, 0), Request(3, 2, 3, 0), Request(1, 2, 2, 0) >> }
WithImages == << Request(2, 3, 2, 2), Request(1, 3, 4, 1), Request(3, 3, 3, 1) >>
SameLength == << Request(2, 2, 2, 0), Request(3, 2, 4, 0), Request(2, 2, 3, 0) >>

\* The slots of a request: the shared prefix, then its own in the order given.
FlashRequest(length, new, cache_len, slots, adapter, logprobs) ==
    [length |-> length, truncate |-> length, max_new_tokens |-> new, images |-> 0,
     cache_len |-> cache_len, slots |-> slots, adapter |-> adapter, logprobs |-> logprobs]

\* Prefill in chunks of at most 4 tokens, two requests sharing a cached token.
Chunked ==
    [kind |-> "flash", speculate |-> 0, chunking |-> TRUE, max_prefill_tokens |-> 4,
     requests |-> << FlashRequest(3, 3, 1, <<9, 2, 1, 4, 3>>, 1, TRUE),
                     FlashRequest(6, 2, 1, <<9, 5, 8, 10, 6, 7, 11>>, 2, TRUE),
                     FlashRequest(3, 2, 0, <<14, 12, 13, 15>>, 2, FALSE),
                     FlashRequest(4, 2, 0, <<17, 16, 19, 18, 20>>, 1, TRUE) >>]

\* Speculation, every request in consecutive slots: three requests with one
\* speculated token, two with two.
Speculating ==
    [kind |-> "flash", speculate |-> 1, chunking |-> FALSE, max_prefill_tokens |-> 8,
     requests |-> << FlashRequest(2, 3, 0, <<5, 6, 7, 8, 9>>, 1, TRUE),
                     FlashRequest(1, 4, 0, <<11, 12, 13, 14, 15>>, 2, FALSE),
                     FlashRequest(3, 3, 0, <<17, 18, 19, 20, 21, 22>>, 2, TRUE) >>]
SpeculatingFurther ==
    [Speculating EXCEPT !.speculate = 2,
        !.requests = << FlashRequest(2, 3, 0, <<5, 6, 7, 8, 9, 10>>, 1, FALSE),
                        FlashRequest(1, 5, 0, <<11, 12, 13, 14, 15, 16, 17>>, 2, TRUE) >>]

MCWorkloads ==
    {Padded(kind, requests) : kind \in {"causal", "seq2seq"}, requests \in Mixed}
        \cup {Padded("idefics", WithImages), Padded("mamba", SameLength),
              Chunked, Speculating, SpeculatingFurther}

\* Speculation with the blocks of the first request taken from two places.
ScatteredWorkloads ==
    {[Speculating EXCEPT !.requests[1].slots = <<5, 6, 25, 7, 8>>]}
=============================================================================
