SPECIFICATION Spec
CONSTANTS
    Entries = 3
    PageSize = 1
    Refusals <- MCRefusals
    MaxMeddles = 1
\* The call returns.
CHECK_DEADLOCK FALSE
INVARIANTS
    TypeOK
    OutcomeIsTold
PROPERTY
    Returns
