\* A batch over two targets, with edits, failures and a crash at every step.
SPECIFICATION Spec
CONSTANTS
    NoContent = NoContent
    Targets = {t1, t2}
    Contents = {a, b, c}
    MaxIds = 2
    MaxItems = 2
    MaxEdits = 2
    MaxFailures = 1
    MaxCrashes = 1
SYMMETRY Symmetry
INVARIANTS
    BatchIsAllOrNothing
    JournalTellsTheTruth
PROPERTY
    EditsAreChecked

CHECK_DEADLOCK FALSE
