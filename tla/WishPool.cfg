SPECIFICATION Spec
CONSTANTS
    u1 = u1
    u2 = u2
    c1 = c1
    c2 = c2
    m1 = m1
    None = None
    Users = {u1, u2}
    Contents = {c1}
    Minutes = {m1}
    OffsetOf <- OneMinute
    WishMaxPerUser = 2
    WishMaxGlobal = 2
    MaxRows = 2
    MaxRestarts = 1
SYMMETRY Symmetry
INVARIANTS
    OriginatorWaits
    NotifiedWasSent
PROPERTIES
    ImplementsWishContract
