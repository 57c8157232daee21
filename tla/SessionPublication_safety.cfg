SPECIFICATION Spec
CONSTANTS
    Paths = {f1}
    MaxLength = 2
    MaxGeneration = 2
    MaxOps = 2
    NoPath = no_path
CHECK_DEADLOCK FALSE
INVARIANTS
    NothingReturns
    PublishedIsDurable
PROPERTIES
    SupersededScanAddsNothing
