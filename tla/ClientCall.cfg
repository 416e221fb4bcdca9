SPECIFICATION PreflightSpec
CONSTANTS
    Unset = Unset
    Garbage = Garbage
    Values = {0, 1, 2}
    Infinity = Infinity
    DefaultTimeout = 3
    MaxRetries = 2
    Backoff = 1
    MaxPieces = 1
    Horizon = 1
    MaxItems = 2
    Unresolved = Unresolved
    Environments <- MCEnvironments
    Catalogs <- MCCatalogs
    Contents <- MCContents
    SchemaOf <- MCSchemaOf
    NoFile = NoFile
    Directory = Directory
    Corrupt = Corrupt
    None = None
    MaxChanges = 1
INVARIANTS TypeOK CallTimeBounded LastWordWins PreflightTypeOK ReadyMeansStarts GroundedSpend ExitCodesTell
PROPERTY CallEnds
CHECK_DEADLOCK FALSE
