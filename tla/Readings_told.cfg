SPECIFICATION MCSpec
CONSTANTS
    None = None
    RepeatedRead = 2
    CorrectiveMutation = 2
    RepeatedFailure = 2
    ToolChurn = 3
    ChurnRetries = 2
    ExcessiveOutput = 1
    MaxServers = 1
    ShellFamilies = {"git"}
    Formats = {"codex", "subagent", "gemini"}
    StartsOf <- MCStarts
    LinesOf <- MCLines
    MaxLines = 3
    MaxWrites = 4
    Scans = {s1, s2}
    Spellings = {"Disk", "disk"}
    DiskSpelling = "Disk"
    Nothing = Nothing
    MaxFileWrites = 1
    MaxGeneration = 3
    MaxRevision = 2
    DropThreshold = 15
    MinEvidence = 3
    SpanFraction = 10
    Weekly = 70
    Monthly = 300
    Daily = 10
    WeeklyTolerance = 3
    MonthlyTolerance = 5
    DailyTolerance = 1
    LiveMaxAge = 2
    Sessions = {"a", "b"}
    Writers = {w1, w2}
    Contents <- MCContents
    KeyOrder <- MCKeyOrder
    MaxPoints = 2
    Retained = 3
    MinInterval = 1
    MaxAge = 2
    CacheAges = {1, 2}
    MaxLost = 1
    MaxTime = 3
    MaxGenerations = 3
    Budgets = {"b"}
    LiveRules = {"l"}
    Conditions = {"i", "g"}
    Signals = {"g"}
    DayLength = 4
    QuietRange <- MCQuiet
    LiveFresh = 1
    LogRetention = 1
    MaxLog = 4
    MaxClock = 2
    MaxEdits = 2
    MaxFaults = 2
    Processes = {p, q}
    Threads = {"s", "t"}
    Categories = {"c"}
    Interrupted = "c"
    AlertGap = 1
    StaleAfter = 2
    MarkAge = 2
    MaxSeen = 1
    MaxMarks = 1
    MaxAlerts = 1
    MaxSignals = 2
    MaxNow = 2
    MaxSaves = 1
    Tasks = {"k", "l"}
    Indicators = {"up", "down"}
    Interval = 1
    FreshFor = 1
    BackoffLimit = 4
    RetryAfters = {0, 3}
    GenerationLimit = 4
    MaxInstant = 4
    MaxToggles = 3
    Clients = {"c", "d"}
    ApprovedAccount = "approved"
    OtherAccount = "other"
    MaxReaders = 1
    MaxMessages = 3
    MaxSaid = 1
INVARIANTS
    ReadingsAreTrue
    IndexAgrees
    NoticesAreEarned
PROPERTIES
    ImplementsReads
    ServedIsCurrent
    NoBacklog
SYMMETRY ReadingSymmetry
CHECK_DEADLOCK FALSE
