\* Trees of every set of relationships, while a second write lands.
CONSTANTS
    Tuples <- MCTuples
    MaxRevision = 2
    Schema <- MCSchema
    MaxDepth = 8
    Writes <- MCWrites
    Goals <- MCGoals
    TreeOfKey <- MCTreeOfKey
    TreeOfRewrite <- MCTreeOfRewrite
    Shows <- MCShows
    Subjects <- MCSubjects
    Keys <- MCKeys
    Rewrites <- MCRewrites
    Satisfied <- MCSatisfied
    Asked <- MCAsked
    Ranked <- MCRanked
    Rank <- MCRank
    Worlds <- MCWorlds
    Holds <- MCHolds
    Height <- MCHeight
    Level <- MCLevel
    Stage <- MCStage
    Due <- MCDue
SPECIFICATION Spec
INVARIANTS
    TreesDecide
    TreesDrawn
CHECK_DEADLOCK FALSE
