SPECIFICATION Spec
CONSTANTS
    Tokens <- MCTokens
    Source <- MCSource
    Declared <- MCDeclared
    Original <- MCOriginal
    Other <- MCOther
    Codes <- MCCodes
CHECK_DEADLOCK FALSE
INVARIANTS
    TypeOK
    OkMeansDelivered
    BlobNeverTorn
    EachAttemptIsDue
PROPERTY
    Terminates
