SPECIFICATION Spec
CONSTANTS
    recall = recall
    docs = docs
    web = web
    paper = paper
    NoFamily = NoFamily
    Recall = recall
    Family <- MCFamily
    Registered <- MCRegistered
    MultiTool <- MCMultiTool
    Request <- MCRequest
INVARIANTS
    RecoveryIsAccounted
    AttemptsAreBounded
    RunsRespectConstraints
    PromisedRetryRuns
    UsableResultIsReturned
PROPERTIES
    ImplementsAcquisition
\* The request ends: a call of execute returns once.
CHECK_DEADLOCK FALSE
