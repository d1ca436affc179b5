------------------------------ MODULE MCBatcher ------------------------------
(***************************************************************************)
(* Batcher on small instances.  The requests are numbers, their lengths    *)
(* functions of them.  BothSpec runs two servers: the one the              *)
(* configuration describes, and one without chunking that waits before it  *)
(* lets new requests join a batch of limited size.                         *)
(***************************************************************************)
EXTENDS Batcher

VARIABLE limited

Constant(n) == [r \in Requests |-> n]

\* A prompt that needs several passes between two short ones.
MixedPrompts == [r \in Requests |-> IF r = 2 THEN 4 ELSE 1]
TwoTokens == Constant(2)
ThreeTokens == Constant(3)
ShortPrompts == Constant(1)

\* The limited server; as an instance of BatcherProofs, with the theorems.
Limited == INSTANCE BatcherProofs WITH
    Shards <- {CHOOSE s \in Shards : TRUE}, MaxNewTokens <- ThreeTokens, BlockSize <- 2,
    SupportChunking <- FALSE, MaxBatchPrefillTokens <- 3, MaxBatchTotalTokens <- 16,
    MaxBatchSize <- 2, MaxWaitingTokens <- 3, ServedNum <- 2, MaxPrefillErrors <- 1

BothInit ==
    \/ limited = FALSE /\ Init
    \/ limited = TRUE /\ Limited!Init
BothNext ==
    /\ \/ ~limited /\ Next
       \/ limited /\ Limited!Next
    /\ UNCHANGED limited
BothSpec == BothInit /\ [][BothNext]_<<vars, limited>>

\* Fairness does not depend on the constants: it is that of either server.
BothLiveSpec == BothSpec /\ Fairness

\* The configuration that asks of one server only.
OneSpec == limited = FALSE /\ Init /\ [][Next /\ UNCHANGED limited]_<<vars, limited>>

\* NoPanic of Batcher with chunking: the batching task never panics on a
\* generation it has no entry for.
NoPanicChunked == ~limited => NoPanic

\* NoStreamCut of Batcher with chunking: no stream ends without its last token
\* or an error.
NoStreamCutChunked == ~limited => NoStreamCut

\* ShardsAgree of Batcher with chunking, until a prefill fails: between two calls
\* every shard caches exactly the batches the task knows.  The clear_cache after a
\* failed prefill names the new batch only, and leaves the one that went along.
ShardsAgreeChunked == ~limited /\ errors.prefill = 0 => ShardsAgree

\* ForwardWithinBudget of Batcher with chunking: no forward pass takes more
\* tokens than max_batch_prefill_tokens.
ForwardWithinBudgetChunked == ~limited => ForwardWithinBudget

\* BatchSizeWithinMax of Batcher on the server with a limit: the requests that
\* joined a running batch included, no more than max_batch_size decode.
BatchSizeWithinLimit == limited => Limited!BatchSizeWithinMax

\* Answered of Batcher with chunking: a request that waits gets its last token or an
\* error, or its client goes, with calls of both kinds that fail on the way.
AnsweredChunked == ~limited => Answered
=============================================================================
