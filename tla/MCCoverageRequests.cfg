CONSTANTS
    u1 = u1
    u2 = u2
    u3 = u3
    s1 = s1
    sMissing = sMissing
    kGood = kGood
    kOther = kOther
    kShort = kShort
    e1 = e1
    e2 = e2
    None = None
    AuthorOf <- MCAuthorOf
    Requests = {r1, r2, r3}
    EvalIds = {e1, e2}
    Keys = {kGood, kOther}
    AcceptableKeys = {kGood, kOther}
    ScenarioIds = {s1}
    Scenarios = {s1}
    Users = {u1, u2}
    RoleOf <- MCRoleOfOne
    Inputs = {iGood, iFails}
    FailingInputs = {iFails}
    ZeroInputs = {}
SPECIFICATION Spec
SYMMETRY TwoRowSymmetry
CHECK_DEADLOCK FALSE
INVARIANTS
    SameKeySameEvaluation
    RunKeepsItsRow
    UnsettledHasItsRun
    AnsweredWritesAudited
    ReplayOfSettledPasses
PROPERTIES
    ImplementsLifecycle
