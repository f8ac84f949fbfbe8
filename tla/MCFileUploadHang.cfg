SPECIFICATION Spec
CONSTANTS
    NumBlocks <- MCNumBlocks
    m_concurrency <- MCConcurrency
    Parallels <- MCParallels
\* A finished call stops, and so does one that sleeps for ever (see Returns).
CHECK_DEADLOCK FALSE
PROPERTY
    Returns
