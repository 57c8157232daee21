SPECIFICATION MCSpec
CONSTANTS
    None = None
    Sessions = {"s"}
    Anchors = {"a", "b"}
    SessionAnchor = ""
    Editors = {"e", "f"}
    Labels = {"x", "y"}
    Notes = {"n"}
    Outcomes = {"accepted"}
    Names = {"q"}
    MaxTags = 1
    MaxBookmarks = 1
    MaxSearches = 1
    MaxRevision = 3
    MaxFingerprint = 1
    Clients = {"x"}
    Rated = {"accepted", "rejected"}
    Variants = {"a"}
    Statuses = {"completed", "missing"}
    MaxCases = 2
    MaxExperiments = 1
    MaxPending = 2
    JournalLimit = 3
    MaxChanges = 4
    MaxExperimentRevision = 3
    MaxExperimentIds = 2
    MaxText = 1
    Paths = {"p", "q"}
    Turns = {"t"}
    Histories <- MCHistories
    MaxSessions = 2
    Members = {"a", "b"}
    Directories = {"d"}
    ProjectKeys = {"d", "k", "m"}
    Manual <- MCManual

PROPERTY OneLineageOneSession
CHECK_DEADLOCK FALSE
