SPECIFICATION Spec
CONSTANTS
    Target = {t1, t2}
    None = None
    StageInput <- MCStageInput
INVARIANTS
    LoopEndsInBudget
    ReportIsTruthful
    EvidenceIsLinked
PROPERTIES
    StageEnds
\* The stage ends: execute returns or raises once.
CHECK_DEADLOCK FALSE
