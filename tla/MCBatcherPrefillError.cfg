SPECIFICATION OneSpec
CONSTANTS
    Requests = {1, 2}
    Shards = {s1}
    InputLength <- ShortPrompts
    MaxNewTokens <- TwoTokens
    BlockSize = 1
    Speculate = 0
    SupportChunking = FALSE
    RequiresPadding = FALSE
    MaxBatchPrefillTokens = 2
    MaxBatchTotalTokens = 8
    MaxBatchSize <- NoMax
    MaxWaitingTokens = 1
    ServedNum = 1
    ServedDen = 1
    MaxPrefillErrors = 1
    MaxDecodeErrors = 0
INVARIANTS NoPanic
