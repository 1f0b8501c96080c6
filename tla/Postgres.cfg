\* Two connections that grant, revoke and replace the same two relationships
\* at once, with failures at every statement.
CONSTANTS
    w1 = w1
    w2 = w2
    Tuples <- MCTuples
    MaxRevision = 4
    Writers = {w1, w2}
    Writes <- MCWrites
SPECIFICATION Spec
INVARIANTS
    TypeOK
    LiveUnique
    OnlyCommitted
PROPERTIES
    SettledImmutable
    WritesCommit
    WritesEnd
CHECK_DEADLOCK FALSE
