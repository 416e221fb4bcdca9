SPECIFICATION Spec
CONSTANTS
    Runs = {r1, r2}
    History <- MCHistory
    Names <- MCNames
    TagVersion <- MCTagVersion
    NoVersion = NoVersion
    None = None
    Latest = Latest
SYMMETRY Symmetry
INVARIANTS ReleaseTypeOK EveryImageVerified ReleaseIsBacked OnlyRecoveryDeviates
CHECK_DEADLOCK FALSE
