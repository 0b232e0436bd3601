CONSTANTS
    u1 = u1
    u2 = u2
    u3 = u3
    s1 = s1
    sMissing = sMissing
    kGood = kGood
    kOther = kOther
    kShort = kShort
    e1 = e1
    e2 = e2
    None = None
    AuthorOf <- MCAuthorOf
    Requests = {r1, r2, r3}
    EvalIds = {e1}
    Keys = {kGood}
    AcceptableKeys = {kGood}
    ScenarioIds = {s1}
    Scenarios = {s1}
    Users = {u1, u2}
    RoleOf <- MCRoleOf
    Inputs = {iGood, iFails}
    FailingInputs = {iFails}
    ZeroInputs = {}
SPECIFICATION Spec
CHECK_DEADLOCK FALSE
INVARIANTS
    CompletedReproducible
