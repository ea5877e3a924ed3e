SPECIFICATION MCSpec
CONSTANTS
    project = project
    user = user
    system = system
    r1 = r1
    r2 = r2
    r3 = r3
    s1 = s1
    s2 = s2
    None = None
    Run = {r1, r2, r3}
    RecordId = {s1, s2, a1, a2, a3, a4, a5, a6}
    Scope = {project, user, system}
    Shared = {user, system}
    ScopeOf <- Scopes
    Seed <- Stored
    BatchSize = 2
SYMMETRY Symmetry
INVARIANTS
    SerialVersionsAreLinear
    NothingIsDropped
    ScopesStaySeparate
\* A run stops after its last candidate.
CHECK_DEADLOCK FALSE
