CONSTANTS
    u1 = u1
    u2 = u2
    u3 = u3
    s1 = s1
    sMissing = sMissing
    kGood = kGood
    kOther = kOther
    kShort = kShort
    e1 = e1
    e2 = e2
    None = None
    AuthorOf <- MCAuthorOf
    Requests = {r1, r2}
    EvalIds = {e1}
    Keys = {kGood, kShort}
    AcceptableKeys = {kGood}
    ScenarioIds = {s1, sMissing}
    Scenarios = {s1}
    Users = {u1, u2, u3}
    RoleOf <- MCRoleOfThree
    Inputs = {iGood, iFails, iZero}
    FailingInputs = {iFails}
    ZeroInputs = {iZero}
SPECIFICATION FairSpec
CHECK_DEADLOCK FALSE
INVARIANTS
    IInv
PROPERTIES
    UnsettledSettles
