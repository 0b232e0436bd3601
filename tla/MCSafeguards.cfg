CONSTANTS
    u1 = u1
    u2 = u2
    r0 = r0
    d1 = d1
    s1 = s1
    None = None
    Requests = {r0, r1, r2}
    SafeguardIds = {s1, s2}
    ScenarioIds = {d1, dMissing}
    Scenarios = {d1}
    Intervals = {1, 2}
    Tolerance = 1
    MaxTime = 3
    Users = {u1, u2}
    RoleOf <- MCRoleOf
SPECIFICATION MCSpec
SYMMETRY SafeguardSymmetry
CHECK_DEADLOCK FALSE
INVARIANTS
    TypeOK
    NoVerificationAhead
    VerificationTraceable
PROPERTIES
    StaleDecisionsAreRaced
    StepsFollowLifecycle
