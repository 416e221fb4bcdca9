SPECIFICATION Spec
CONSTANTS
    Denylisted = {"read_csv"}
    MaxRows = 3
    DefaultLimit = 2
    NoLimit = NoLimit
    OddLimit = OddLimit
    Requests = {r1}
    Contents <- MCContents
    NoFile = NoFile
    SchemaOf <- MCSchemaOf
    RowsOf <- MCRowsOf
    Proposals <- MCProposals
    Endless <- MCEndless
    None = None
    MaxChanges = 0
INVARIANTS TruncationTold
CHECK_DEADLOCK FALSE
