CONSTANTS
    u1 = u1
    u2 = u2
    n1 = n1
    d1 = d1
    a = a
    b = b
    None = None
    Requests = {r1, r2}
    ScenarioIds = {d1}
    NodeIds = {n1}
    Nodes = {n1}
    Fields = {cause}
    Values = {a, b}
    Users = {u1, u2}
    RoleOf <- MCRoleOf
    Lag = 1
    Lead = 1
SPECIFICATION LaterSpec
PROPERTIES
    ConcurrentChangeRefused
