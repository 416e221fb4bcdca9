SPECIFICATION Spec
CONSTANTS
    Denylisted <- MCDenylisted
    MaxRows = 3
    DefaultLimit = 2
    NoLimit = NoLimit
    OddLimit = OddLimit
    Schema <- MCSchema
    Candidates <- NameCandidates
INVARIANTS QualifiedColumnsExist
CHECK_DEADLOCK FALSE
