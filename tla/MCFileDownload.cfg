SPECIFICATION Spec
CONSTANTS
    DOWNLOAD_CHUNK_SIZE = 2
    downloaders = 2
    MaxCuts = 2
    Versions <- MCVersions
    LengthOf <- MCLengthOf
\* The call returns.
CHECK_DEADLOCK FALSE
INVARIANTS
    TypeOK
    ThreadsOwned
PROPERTIES
    AtomicOutcome
    Returns
