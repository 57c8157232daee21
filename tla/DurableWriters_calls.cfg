SPECIFICATION FairSpec
CONSTANTS
    Requests = {r1, r2}
    Startup = startup
    NoRequest = no_request
INVARIANTS
    WritersExclude
    CancelWasForThisRebuild
PROPERTIES
    ReadyIsStable
    EventuallyQuiet
    EventuallyScanned
