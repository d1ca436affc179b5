\* A window that is no multiple of the block size; three usable blocks.
SPECIFICATION LiveSpec
CONSTANTS
    Requests = {r1, r2, r3}
    NBlocks = 4
    BlockSize = 2
    WindowSize = 3
    MaxTokens = 7
    HealthTokens = 2
INVARIANTS TypeOK NoDoubleOwnership NoLeak CallsPending SlotsSafe
PROPERTIES ImplementsPool CallAnswered
