SPECIFICATION ServerSpec
CONSTANTS
    None = None
    Ids = {1, 2, 3}
    MaxConcurrent = 2
    MaxEntries = 1
    MaxRequests = 3
INVARIANT ServerIsSound
PROPERTY ServerEnds
CHECK_DEADLOCK FALSE
