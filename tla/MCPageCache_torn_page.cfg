SPECIFICATION Spec
CONSTANTS
    Pages = {A, B, C}
    MaxPages = 3
    NoPage = NoPage
    Edits = 1
    Failures = 0
    Crashes = 1
SYMMETRY Symmetry
CHECK_DEADLOCK FALSE
INVARIANTS
    TextIsOfItsPage
