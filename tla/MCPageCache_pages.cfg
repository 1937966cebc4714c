SPECIFICATION Spec
CONSTANTS
    Pages = {A, B, C}
    MaxPages = 3
    NoPage = NoPage
    Edits = 2
    Failures = 2
    Crashes = 1
SYMMETRY Symmetry
CHECK_DEADLOCK FALSE
INVARIANTS
    TypeOK
    SuccessShowsNote
    RunsWithoutCrashAreExact
PROPERTIES
    FailureKeepsTranscriptions
