SPECIFICATION Spec
CONSTANTS
    Denylisted <- MCDenylisted
    MaxRows = 3
    DefaultLimit = 2
    NoLimit = NoLimit
    OddLimit = OddLimit
    Schema <- MCSchema
    Candidates <- MCCandidates
INVARIANTS TypeOK AgreesWithScoping ApprovedIsClean LimitIsBounded SafeIsFixpoint
CHECK_DEADLOCK FALSE
