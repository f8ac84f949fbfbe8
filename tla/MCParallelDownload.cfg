SPECIFICATION Spec
CONSTANTS
    Parallelism = 2
    Size = 4
    BlockSize = 2
    MaxCuts = 1
    Versions <- MCVersions
    LengthOf <- MCLengthOf
\* The download ends.
CHECK_DEADLOCK FALSE
INVARIANTS
    TypeOK
    VerdictIsTruthful
    QuietWhenReady
PROPERTIES
    AtomicOutcome
    Completes
