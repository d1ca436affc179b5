-------------------------- MODULE MCBatcherProofs ---------------------------
(***************************************************************************)
(* The theorems of BatcherProofs for the two servers of BothSpec: of the   *)
(* one with chunking those about the entries, the caches and the tokens of *)
(* a pass, of the limited one, whose constants are given, the one about    *)
(* the size of a batch.                                                    *)
(***************************************************************************)
EXTENDS MCBatcher, BatcherProofs

\* The invariant of the server with chunking.
BothInv == ~limited => Inv /\ ChunkInv /\ BudgetInv

\* It holds as long as that server runs.
THEOREM BothInvCorrect ==
    ASSUME SupportChunking
    PROVE  BothSpec => []BothInv
<1>1. BothInit => BothInv
  BY InitInv, ChunkInit, BudgetInit, Zenon DEF BothInit, BothInv
<1>2. ASSUME BothInv, [BothNext]_<<vars, limited>> PROVE BothInv'
  <2>1. limited' = limited
    BY <1>2, Zenon DEF BothNext
  <2>2. ~limited => [Next]_vars
    BY <1>2, Zenon DEF BothNext
  <2>3. Inv /\ [Next]_vars => Inv'
    BY StepKinds, ScheduleInv, QuietInv, PullInv
  <2>4. Inv /\ ChunkInv /\ [Next]_vars => ChunkInv'
    BY ChunkNext
  <2>5. Inv /\ ChunkInv /\ BudgetInv /\ [Next]_vars => BudgetInv'
    BY BudgetNext
  <2> QED BY <1>2, <2>1, <2>2, <2>3, <2>4, <2>5, Zenon DEF BothInv
<1> QED BY <1>1, <1>2, PTL DEF BothSpec

\* NoPanicChunked: whatever calls fail and whichever clients go, the batching task
\* never gets a generation it has no entry for.
THEOREM NoPanicChunkedCorrect ==
    ASSUME SupportChunking
    PROVE  BothSpec => []NoPanicChunked
<1>1. BothInv => NoPanicChunked
  BY DEF BothInv, ChunkInv, NoPanicChunked, NoPanic
<1> QED BY BothInvCorrect, <1>1, PTL

\* NoStreamCutChunked: the entries that are dropped when the inner loop ends have
\* had their last token or an error.
THEOREM NoStreamCutChunkedCorrect ==
    ASSUME SupportChunking
    PROVE  BothSpec => []NoStreamCutChunked
<1>1. BothInv => NoStreamCutChunked
  BY DEF BothInv, ChunkInv, NoStreamCutChunked
<1> QED BY BothInvCorrect, <1>1, PTL

\* ShardsAgreeChunked: until a prefill fails, between two calls every shard caches
\* exactly the batch the task knows, failed decodes and filtering included.
THEOREM ShardsAgreeChunkedCorrect ==
    ASSUME SupportChunking
    PROVE  BothSpec => []ShardsAgreeChunked
<1>1. BothInv => ShardsAgreeChunked
  BY ChunkAgrees DEF BothInv, ShardsAgreeChunked, NoPrefillFailed
<1> QED BY BothInvCorrect, <1>1, PTL

\* ForwardWithinBudgetChunked: whatever joins the running batch, fails or is filtered
\* out, no forward pass takes more tokens than max_batch_prefill_tokens.
THEOREM ForwardWithinBudgetChunkedCorrect ==
    ASSUME SupportChunking
    PROVE  BothSpec => []ForwardWithinBudgetChunked
<1>1. BothInv => ForwardWithinBudgetChunked
  BY BudgetWithin DEF BothInv, ForwardWithinBudgetChunked
<1> QED BY BothInvCorrect, <1>1, PTL

\* What Batcher assumes of its constants is true of those of the limited server.
LEMMA LimitedAssumption ==
    /\ InputLength \in [Requests -> Nat \ {0}]
    /\ ThreeTokens \in [Requests -> Nat \ {0}]
    /\ 2 \in Nat \ {0} /\ ServedDen \in Nat \ {0}
    /\ {3, 16, 3, 2, 1, MaxDecodeErrors} \subseteq Nat
    /\ FALSE \in BOOLEAN
    /\ RequiresPadding = FALSE
    /\ Speculate = 0
    /\ {CHOOSE s \in Shards : TRUE} # {}
  BY BatcherAssumption DEF ThreeTokens, Constant

\* The invariant of the limited server.
SizedInv == limited => Limited!Inv /\ Limited!SizeInv

\* BatchSizeWithinLimit: however its prefill and decode calls fail, the limited
\* server never decodes more requests than max_batch_size at a time.
THEOREM BatchSizeWithinLimitCorrect == BothSpec => []BatchSizeWithinLimit
<1>1. BothInit => SizedInv
  BY LimitedAssumption, Limited!InitInv, Limited!SizeInit, Zenon DEF BothInit, SizedInv
<1>2. ASSUME SizedInv, [BothNext]_<<vars, limited>> PROVE SizedInv'
  <2>1. limited' = limited
    BY <1>2, Zenon DEF BothNext
  <2>2. limited => [Limited!Next]_(Limited!vars)
    BY <1>2, Zenon DEF BothNext, vars, Limited!vars, clientVars, taskVars, shardVars,
      Limited!clientVars, Limited!taskVars, Limited!shardVars
  <2>3. Limited!Inv /\ [Limited!Next]_(Limited!vars) => Limited!Inv'
    BY LimitedAssumption, Limited!StepKinds, Limited!ScheduleInv, Limited!QuietInv, Limited!PullInv
  <2>4. Limited!Inv /\ Limited!SizeInv /\ [Limited!Next]_(Limited!vars) => Limited!SizeInv'
    BY LimitedAssumption, Limited!SizeNext
  <2> QED BY <1>2, <2>1, <2>2, <2>3, <2>4, Zenon DEF SizedInv
<1>3. SizedInv => BatchSizeWithinLimit
  BY LimitedAssumption, Limited!SizeWithin DEF SizedInv, BatchSizeWithinLimit
<1> QED BY <1>1, <1>2, <1>3, PTL DEF BothSpec
=============================================================================
