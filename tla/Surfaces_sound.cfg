SPECIFICATION MCSpec
CONSTANTS
    None = None
    Hour = 3
    TokenEvents <- MCTokenEvents
    ToolEvents <- MCToolEvents
    Findings <- MCFindings
    MaxEvents = 3
    Batches <- MCBatches
    Bundles <- MCBundles
    Archived = {2}
    FirstFloating = 2
    Names = {"a", "l"}
    Prices = {9}
    CustomPeriods <- MCCustomPeriods
    Today = {0, 1, 2, 3}
    MaxEdits = 2
    Ledgers = {"s", "t"}
    Events = {1}
    Cards = {1, 2}
    Fresh = 0
    MaxSaves = 2
    MaxClock = 1
    MaxFacts = 2
    MaxPlans = 2
    Texts = {"a", "b"}
    MaxPreviews = 3
    MaxTexts = 2
    Stores = {"s"}
    Latest = 16
    MaxKills = 2
    Rules = {"r"}
    Views = {"v", "w"}
    Selections <- MCSelections
    MinimumSessions = 1
    MaxRows = 1
    MaxAnalyzer = 2
    MaxTime = 1
    MaxRevisions = 3
    Owners = {"a", "b"}
    Wanted = "a"
    Written <- MCWritten
    Units = {"ok", "odd"}
    MaxScan = 2
    MaxRecords = 2
    MaxUnits = 3
    MaxWrites = 2
    MaxSnapshots = 1
    RootSets = {{}, {"d"}, {"u"}}
    Seed = {"d"}
    OtherProviders = {"x"}
    Malformed = Malformed
    MaxSettingsSaves = 3
    Home = "h"
    Projects = {"p"}
    ConfigOf <- MCConfigOf
    Below <- MCBelow
    InstructionRoots <- MCInstructionRoots
    Tracked <- MCTracked
    Values = {1, 2}
    MaxLog = 1
    MaxLoaded = 2
    MaxConfigEdits = 2
    MaxStarts = 2
    InstructionFiles <- MCInstructionFiles
    Globals <- MCGlobals
    ObservedProjects <- MCRepositories
    Repositories <- MCRepositories
    PrunedNames = {"build"}
    SettingsChoices <- MCSettingsChoices
    FileLimit = 3
    DepthLimit = 2
    Unreadable <- MCUnreadable
    MaxDiskChanges = 1
    MaxScans = 2
    MaxScanGeneration = 2
    MaxInstructionSaves = 1
    Chats = {"s", "t", "u"}
    ProviderOf <- MCProviderOf
    DetectedGroup <- MCDetectedGroup
    Groups = {"g", "h"}
    CurrencyOf <- MCCurrencyOf
    Usages <- MCUsages
    ReportCards <- MCReportCards
    LegacyFast = {"a"}
    ReportWindows <- MCReportWindows
    ReportDay = 1
    ReportHour = 2
    MaxChanges = 2
INVARIANT SurfacesAreSound
PROPERTY SurfaceStepsAreSound
CHECK_DEADLOCK FALSE
