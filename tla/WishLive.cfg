SPECIFICATION FairSpec
CONSTANTS
    u1 = u1
    u2 = u2
    c1 = c1
    c2 = c2
    m1 = m1
    None = None
    Users = {u1}
    Contents = {c1}
    Minutes = {m1}
    OffsetOf <- OneMinute
    WishMaxPerUser = 1
    WishMaxGlobal = 2
    MaxRows = 1
    MaxRestarts = 2
PROPERTIES
    EverySettles
