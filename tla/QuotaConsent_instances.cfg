\* Two running instances, two accounts, one approval of each or two of one.
SPECIFICATION Spec
CONSTANTS
    Instances = {i1, i2}
    Accounts = {a, b}
    NoAccount = no_account
    NoFile = no_file
    MaxAccounts = 2
    MaxApprovals = 2
SYMMETRY Symmetry
INVARIANTS
    FailedDenialHolds
    ShownHasConsent
PROPERTY
    NothingIsRestored
