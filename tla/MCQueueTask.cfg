\* The constants of the paged model; the padded one overrides three of them.
SPECIFICATION BothSpec
CONSTANTS
    Requests = {1, 2, 3}
    InputLength <- Lengths
    MaxNewTokens <- NewTokens
    BlockSize = 2
    Speculate = 1
    SupportChunking = TRUE
    RequiresPadding = FALSE
    Calls <- PagedCalls
INVARIANTS ReturnsLongestRun NothingLost
