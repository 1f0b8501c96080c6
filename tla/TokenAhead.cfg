\* The in-process store restarts; a client still holds a token of the old one.
CONSTANTS
    Tuples <- MCTuples
    MaxRevision = 2
    Schema <- MCSchema
    Calls = {c1}
    MaxDepth = 3
    Caching = TRUE
    Writes <- MCWrites
    Queries <- MCQueries
    Consistencies <- TwoConsistencies
    Durable = FALSE
    Holds <- MCHolds
    Subjects <- MCSubjects
    Keys <- MCKeys
    Rewrites <- MCRewrites
    Satisfied <- MCSatisfied
    Asked <- MCAsked
    Ranked <- MCRanked
    Rank <- MCRank
    Worlds <- MCWorlds
SPECIFICATION Spec
INVARIANT FullChecksCorrect
CHECK_DEADLOCK FALSE
