\* Groups that contain each other, no cache (-no-cache), unions only:
\* every answer is exact and every check is answered.
CONSTANTS
    Tuples <- MCTuples
    MaxRevision = 2
    Schema <- UnionSchema
    Calls = {c1, c2}
    MaxDepth = 3
    Caching = FALSE
    Writes <- JoinWrites
    Queries <- MCQueries
    Consistencies = {"full"}
    Durable = FALSE
    Holds <- UnionHolds
    Subjects <- MCSubjects
    Keys <- MCKeys
    Rewrites <- MCRewrites
    Satisfied <- MCSatisfied
    Asked <- MCAsked
    Ranked <- MCRanked
    Rank <- MCRank
    Worlds <- MCWorlds
SPECIFICATION Spec
INVARIANTS
    AnswersLinearize
PROPERTIES
    ChecksTerminate
CHECK_DEADLOCK FALSE
