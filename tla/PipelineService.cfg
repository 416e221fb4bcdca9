SPECIFICATION FairSpec
CONSTANTS
    Denylisted = {"read_csv"}
    MaxRows = 3
    DefaultLimit = 4
    NoLimit = NoLimit
    OddLimit = OddLimit
    Requests = {r1, r2}
    Contents <- MCContents
    NoFile = NoFile
    SchemaOf <- MCSchemaOf
    RowsOf <- MCRowsOf
    Proposals <- MCProposals
    Endless <- MCEndless
    None = None
    MaxChanges = 2
INVARIANTS TypeOK OnlyApprovedRuns RunIsDisclosed CapIsHonest ConnectionsReleased
PROPERTIES ImplementsService EveryQuestionAnswered
CHECK_DEADLOCK FALSE
