SPECIFICATION FairSpec
CONSTANTS
    MaxIds = 2
    MaxApproveRetry = 2
    MaxOrphans = 1
    SlowApproval = FALSE
    States = {"N", "R", "D"}
    MaxUserActs = 1
    MaxFaults = 1
    MaxRestarts = 1
    MaxEvents = 2
INVARIANTS
    DeletedIsNotLinked
    NothingForgotten
    ToldOnce
PROPERTIES
    EventuallyLinkedOrFailed
