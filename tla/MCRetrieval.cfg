SPECIFICATION MCSpec
CONSTANTS
    d1 = d1
    d2 = d2
    d3 = d3
    finding = finding
    method = method
    limit = limit
    c1 = c1
    c2 = c2
    c3 = c3
    s1 = s1
    s2 = s2
    s3 = s3
    s4 = s4
    db1 = db1
    db2 = db2
    padded = padded
    blanks = blanks
    Blank = Blank
    NoPool = NoPool
    Store = {s1, s2, s3, s4}
    Stripped <- MCStripped
    None = None
    Doc = {d1, d2, d3}
    Statement = {finding, method, limit}
    FullText <- MCFullText
    Offered <- MCOffered
    MaxResults = 3
    MaxFetches = 2
    EvidenceType = {"supporting_signal", "direct_fact"}
    Blocker = {limit}
    MaxAdded = 1
    MaxLength = 2
    MaxUnits = 1
    Slots = 2
    MaxRetries = 1
    Caller = {c1, c2, c3}
    MinInterval = 2
    MaxRetryAfter = 3
    MaxTime = 8
INVARIANTS
    RetrievalTypeOK
    FoundSourcesReachTheEvidence
    PoolsAreShared
PROPERTIES
    ImplementsEvidenceStage
    SearchesAreSpaced
CHECK_DEADLOCK FALSE
