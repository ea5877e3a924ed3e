SPECIFICATION MCSpec
CONSTANTS
    x = x
    y = y
    Run = {r1, r2}
    ActionId = {a1, a2, a3}
    Title = {x, y}
    Candidate <- CandidateShape
    BatchSize = 2
    None = None
    RowId = {1, 2, 3, 4, 5, 6}
    Writer = {w1, w2}
    FirstRows <- MCFirstRows
    PageLimit = 2
    LastTime = 3
SYMMETRY IdSymmetry
INVARIANTS
    SerialRunsStoreOnce
    UntouchedRowsAreListedOnce
    SummaryCountsTheListing
PROPERTIES
    SerialRunsMoveForward
\* A run stops after its last candidate, a caller after the last page.
CHECK_DEADLOCK FALSE
