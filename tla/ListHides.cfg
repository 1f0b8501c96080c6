\* A folder in a folder: the permission on the way is computed.
CONSTANTS
    Tuples <- MCTuples
    MaxRevision = 1
    Schema <- NestedSchema
    Calls = {c1}
    MaxDepth = 6
    Caching = FALSE
    Writes <- NestedWrites
    Requests <- AllRequest
    Ordered <- MCOrdered
    MaxPage = 3
    Contributing <- MCContributing
    WalksTo <- MCWalksTo
    Subjects <- MCSubjects
    Keys <- MCKeys
    Rewrites <- MCRewrites
    Satisfied <- MCSatisfied
    Asked <- MCAsked
    Ranked <- MCRanked
    Rank <- MCRank
    Worlds <- MCWorlds
    Holds <- NestedHolds
SPECIFICATION Spec
INVARIANT NothingHidden
CHECK_DEADLOCK FALSE
