SPECIFICATION Spec
CONSTANTS
    Sessions = {k1, k2}
    Passes = {p1, p2}
    MaxEvents = 2
    NoSession = no_session
    NoPass = no_pass
SYMMETRY RollupSymmetry
INVARIANTS
    NeverOvercounted
    ReadOnlyQueryIsExact
    LagIsPending
PROPERTY
    OpenServesExactRollups
