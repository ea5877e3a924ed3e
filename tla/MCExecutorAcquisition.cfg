SPECIFICATION Spec
CONSTANTS
    recall = recall
    docs = docs
    web = web
    paper = paper
    NoFamily = NoFamily
    Recall = recall
    Family <- MCFamily
    Registered <- MCFamily
    MultiTool <- MCMultiTool
    Request <- ExecutorRequests
INVARIANTS
    FallbackFindsFamily
    RunsOnlyAvailable
\* The request ends: a call of execute returns once.
CHECK_DEADLOCK FALSE
