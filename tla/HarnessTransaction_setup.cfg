SPECIFICATION Spec
CONSTANTS
    Files = 2
    MaxTransactions = 2
    MaxEdits = 2
    MaxFailures = 1
    MaxCrashes = 1
INVARIANTS
    TypeOK
    UserTextSurvives
    FailedSetupIsUndone
    HooksFollowSetting
CHECK_DEADLOCK FALSE
