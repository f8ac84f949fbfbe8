SPECIFICATION Spec
CONSTANTS
    Parallelism <- MCParallelism
    NumBlocks <- MCNumBlocks
INVARIANTS
    TypeOK
    CommitOnlyComplete
    VerdictIsTruthful
    WorkersInOrder
    QuietWhenReady
PROPERTY
    AtomicOutcome
