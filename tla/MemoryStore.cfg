\* The in-process store: every write of at most two removals and two
\* additions, duplicates in a list included, three writes in a row.
CONSTANTS
    Tuples <- MCTuples
    MaxRevision = 3
    MaxBatch = 2
SPECIFICATION Spec
INVARIANTS
    TypeOK
    IndexesExact
    LifetimesDisjoint
    WriteProgress
    ReadsAgree
PROPERTIES
    HistoryImmutable
    WritesCommit
    ImplementsStore
CHECK_DEADLOCK FALSE
