CONSTANTS
    n1 = n1
    c1 = c1
    a = a
    None = None
    Requests = {r1, r2, r3}
    NodeIds = {n1, n2}
    Codes = {c1, c2}
    Designs = {a, b}
    Roles = {"process_engineer", "safety_reviewer"}
SPECIFICATION MCSpec
SYMMETRY NodeSymmetry
CHECK_DEADLOCK FALSE
INVARIANTS
    TypeOK
    OneCreationPerCode
    DeactivationsAlternate
PROPERTIES
    UnaskedReactivationIsRaced
