SPECIFICATION Spec
CONSTANTS
    u1 = u1
    u2 = u2
    p1 = p1
    p2 = p2
    None = None
    Run = {1, 2, 3}
    Session = {1, 2}
    User = {u1, u2}
    Project = {p1, p2}
    Turns <- MCTurns
    Limit = 1
INVARIANTS
    MessagesFitTheirSession
    ActivityIsStored
    NothingListedTwice
    UntouchedEntriesAreListed
\* Every run is recorded once and the listing ends.
CHECK_DEADLOCK FALSE
