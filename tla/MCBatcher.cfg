SPECIFICATION BothLiveSpec
CONSTANTS
    Requests = {1, 2, 3}
    Shards = {s1, s2}
    InputLength <- MixedPrompts
    MaxNewTokens <- TwoTokens
    BlockSize = 1
    Speculate = 0
    SupportChunking = TRUE
    RequiresPadding = FALSE
    MaxBatchPrefillTokens = 2
    MaxBatchTotalTokens = 8
    MaxBatchSize <- NoMax
    MaxWaitingTokens = 1
    ServedNum = 1
    ServedDen = 1
    MaxPrefillErrors = 1
    MaxDecodeErrors = 1
INVARIANTS NoPanicChunked NoStreamCutChunked ShardsAgreeChunked Accounted ForwardWithinBudgetChunked BatchSizeWithinLimit
PROPERTIES AnsweredChunked FirstComeFirstServed
