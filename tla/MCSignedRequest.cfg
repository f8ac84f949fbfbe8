SPECIFICATION Spec
CONSTANTS
    Clients <- MCClients
    MetaNames <- MCMetaNames
    LowerCase <- MCLowerCase
    NameOrder <- MCNameOrder
    Metadata <- MCMetadata
    MaxTime = 2
    MaxTokens = 2
    MaxAttempts = 2
\* The calls are over.
CHECK_DEADLOCK FALSE
INVARIANTS
    TypeOK
    SignedAsSent
    AttemptIsCurrent
