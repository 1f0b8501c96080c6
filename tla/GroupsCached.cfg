\* The same groups behind an intersection and a cache, and a depth limit
\* that the longest chain exceeds: grants are true, depth errors are honest.
CONSTANTS
    Tuples <- MCTuples
    MaxRevision = 1
    Schema <- IntersectionSchema
    Calls = {c1, c2}
    MaxDepth = 3
    Caching = TRUE
    Writes <- AllWrites
    Queries <- OpenQueries
    Consistencies = {"full"}
    Durable = FALSE
    Holds <- IntersectionHolds
    Subjects <- MCSubjects
    Keys <- MCKeys
    Rewrites <- MCRewrites
    Satisfied <- MCSatisfied
    Asked <- MCAsked
    Ranked <- MCRanked
    Rank <- MCRank
    Worlds <- MCWorlds
SYMMETRY Symmetry
SPECIFICATION Spec
INVARIANTS
    GrantsTrue
    RankedExact
    
CHECK_DEADLOCK FALSE
