\* Two clients that check and write, a store that survives one restart.
CONSTANTS
    Tuples <- MCTuples
    MaxRevision = 2
    Schema <- MCSchema
    Calls = {c1, c2}
    MaxDepth = 3
    Caching = TRUE
    Writes <- MCWrites
    Queries <- MCQueries
    Consistencies <- TwoConsistencies
    Durable = TRUE
    Holds <- MCHolds
    Subjects <- MCSubjects
    Keys <- MCKeys
    Rewrites <- MCRewrites
    Satisfied <- MCSatisfied
    Asked <- MCAsked
    Ranked <- MCRanked
    Rank <- MCRank
    Worlds <- MCWorlds
SYMMETRY Symmetry
SPECIFICATION Spec
INVARIANTS
    TypeOK
    AnswersLinearize
    CacheSound
PROPERTIES
    SessionsMonotone
CHECK_DEADLOCK FALSE
