\* One list at a time while shares, bans and groups change: groups that
\* contain each other, a chain of groups deeper than the limit, and a cache
\* that earlier lists have filled.
CONSTANTS
    Tuples <- MCTuples
    MaxRevision = 2
    Schema <- ListSchema
    Calls = {c1}
    MaxDepth = 3
    Caching = TRUE
    Writes <- MCWrites
    Requests <- AllRequest
    Ordered <- MCOrdered
    MaxPage = 2
    Contributing <- MCContributing
    WalksTo <- MCWalksTo
    Subjects <- MCSubjects
    Keys <- MCKeys
    Rewrites <- MCRewrites
    Satisfied <- MCSatisfied
    Asked <- MCAsked
    Ranked <- MCRanked
    Rank <- MCRank
    Worlds <- MCWorlds
    Holds <- ListHolds
SPECIFICATION Spec
INVARIANTS
    TypeOK
    ListExact
    PageExact
    WalkComplete
PROPERTIES
    ListsEnd
CHECK_DEADLOCK FALSE
