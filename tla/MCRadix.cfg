SPECIFICATION Spec
CONSTANTS
    Requests = {r1, r2, r3}
    NBlocks = 7
    Prompts <- BranchingPrompts
    Extras = {1}
    MaxTime = 6
SYMMETRY Symmetry
CHECK_DEADLOCK FALSE
INVARIANTS TypeOK RefCountsExact NoPanic OneOwner ReferencedPrefixKept ComputedPrefixValid
PROPERTIES EvictsOldestFirst ImplementsPrefixCache
