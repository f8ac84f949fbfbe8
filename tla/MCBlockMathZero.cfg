SPECIFICATION CutSpec
CONSTANTS
    Mi = 4
    KiGrain = 2
    max_num_blocks = 5
    UnsignedInt = 1024
    Parallelisms = {1, 3}
    Starts = {0, 1, 7}
    Lengths <- MCLengths
\* The data is cut, or refused.
CHECK_DEADLOCK FALSE
INVARIANT
    DownloadHasBlocks
