CONSTANTS
    Batches <- MCBatches
    Singles <- MCSingles
    IdBits = 2
    DecoyCounts = {1}
    Chains <- MCChains
SPECIFICATION IssueSpec
INVARIANT
    DigestIdInRange
CHECK_DEADLOCK FALSE
