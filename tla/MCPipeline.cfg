SPECIFICATION MCSpec
CONSTANTS
    r1 = r1
    r2 = r2
    r3 = r3
    user = user
    other = other
    atlas = atlas
    zephyr = zephyr
    session = session
    topic = topic
    brief = brief
    full = full
    None = None
    NoMemory = NoMemory
    Request = {r1, r2, r3}
    User = {user, other}
    Project = {atlas, zephyr}
    Text = {topic}
    Detail = {brief, full}
    KnowledgeId = {1, 2, 3}
    RecallLimit = 2
    MaxClock = 2
    Session = {session}
    Summary = {brief, full, unreliable}
    Question = {brief, full, unreliable}
    MaxTurns = 2
    MaxQuestions = 2
    Query <- OfferedQueries
    Unreliable = unreliable
    RunFailure = unreliable
    MaxRaised = 2
    PageSize = 1
INVARIANTS
    TypeOK
    KnowledgeStaysInScope
    StoredKnowledgeIsGrounded
    RaisedRequestsLeaveNoTurn
    SerialRequestsStoreKnowledgeOnce
    RecentTurnsAreRemembered
    ListingIsExact
PROPERTIES
    SerialTurnsCarryQuestions
\* Requests end.
CHECK_DEADLOCK FALSE
