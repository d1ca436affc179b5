SPECIFICATION Spec
CONSTANTS
    Requests = {r1, r2}
    NBlocks = 6
    Prompts <- AlignedPrompts
    Extras = {1}
    MaxTime = 4
CHECK_DEADLOCK FALSE
INVARIANT FoundPrefixNotEvicted
