\* A denial that was computed inside a cycle, subtracted in one check.
CONSTANTS
    Tuples <- MCTuples
    MaxRevision = 2
    Schema <- ExclusionSchema
    Calls = {c1}
    MaxDepth = 4
    Caching = FALSE
    Writes <- MCWrites
    Queries <- MCQueries
    Consistencies = {"full"}
    Durable = TRUE
    Holds <- ExclusionHolds
    Subjects <- MCSubjects
    Keys <- MCKeys
    Rewrites <- MCRewrites
    Satisfied <- MCSatisfied
    Asked <- MCAsked
    Ranked <- MCRanked
    Rank <- MCRank
    Worlds <- MCWorlds
SPECIFICATION Spec
INVARIANT GrantsTrue
CHECK_DEADLOCK FALSE
