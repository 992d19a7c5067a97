SPECIFICATION Spec
CONSTANTS
    o1 = o1
    o2 = o2
    a1 = a1
    a2 = a2
    c1 = c1
    s1 = s1
    s2 = s2
    None = None
    Orders = {o1}
    Legacy = {o1}
    Admins = {a1, a2}
    Contents = {c1}
    Sources = {s1, s2}
    MaxWashVerifyRetry = 2
SYMMETRY Symmetry
INVARIANTS
    CompletedOnlyWithProof
    VerificationBudget
PROPERTIES
    CompletedByClaimant
