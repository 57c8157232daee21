SPECIFICATION Spec
CONSTANTS
    k1 = k1
    k2 = k2
    Keys <- TwoKeys
    GroupOf <- TwoGroups
    p1 = p1
    Paths <- OnePath
    NoKey = NoKey
    MaxDay = 3
    MaxChanges = 3
    Durations = {1}
    MaxSaves = 1
    MaxCrashes = 2
    Scanning = TRUE
    ArchiveMayFail = TRUE
SYMMETRY KeySymmetry
INVARIANTS
    ErasedStaysErased
    JournalStaysReadable
    CoverageIsHonest
    AccountingProofCoversErased
PROPERTY
    PurgeIsAsReviewed
CHECK_DEADLOCK FALSE
