SPECIFICATION Spec
CONSTANTS
    r1 = r1
    r2 = r2
    r3 = r3
    u1 = u1
    u2 = u2
    t1 = t1
    t2 = t2
    m1 = m1
    None = None
    Requests = {r1, r2}
    Users = {u1}
    Contents = {t1, t2}
    MediaType <- MCMediaType
    Limit = 5
    MaxApproveRetry = 1
    Retention = 1
    MaxDay = 1
    StraddleMidnight = FALSE
SYMMETRY Symmetry
INVARIANTS
    DailyCap
PROPERTIES
    UsageFallsOncePerRequest
