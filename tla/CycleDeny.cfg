\* A cached denial that was computed inside a cycle.
CONSTANTS
    Tuples <- MCTuples
    MaxRevision = 1
    Schema <- UnionSchema
    Calls = {c1}
    MaxDepth = 3
    Caching = TRUE
    Writes <- MCWrites
    Queries <- MCQueries
    Consistencies = {"full"}
    Durable = TRUE
    Holds <- UnionHolds
    Subjects <- MCSubjects
    Keys <- MCKeys
    Rewrites <- MCRewrites
    Satisfied <- MCSatisfied
    Asked <- MCAsked
    Ranked <- MCRanked
    Rank <- MCRank
    Worlds <- MCWorlds
SPECIFICATION Spec
INVARIANT GrantsFound
CHECK_DEADLOCK FALSE
