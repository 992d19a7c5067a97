SPECIFICATION FairSpec
CONSTANTS
    alice = alice
    Users = {alice}
    NoUser = NoUser
    MaxUpdates = 2
    UserOf <- AllOfAlice
    BatchSize = 2
    maxUpdateWorkers = 1
    MaxPerWindow = 2
    OccupancyLimit = 1
    MaxRestarts = 1
INVARIANTS
    LostOnlyByCrash
    TwiceOnlyIfForgotten
    NobodyLockedOut

    
