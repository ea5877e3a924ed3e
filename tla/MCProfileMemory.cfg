SPECIFICATION MCSpec
CONSTANTS
    Run = {r1, r2, r3}
    RecordId = {p, a1, a2, a3}
    Seed = {p}
    BatchSize = 1
    None = None
INVARIANTS
    ExactlyOneActive
    HistoryLeadsToActive
    SerialRunsPatchCurrent
PROPERTIES
    BatchesFinish
\* A run stops after its last candidate.
CHECK_DEADLOCK FALSE
