SPECIFICATION FairSpec
CHECK_DEADLOCK FALSE
CONSTANTS
    r1 = r1
    u1 = u1
    u2 = u2
    MaxSeason = 2
    Episodes = {1}
    Users = {u1}
    Requests = {r1}
    SeasonOf <- MCSeasonOf
    MaxEvents = 2
    MaxJoins = 2
    MaxFaults = 1
    MaxRestarts = 1
INVARIANTS
    NobodyForgotten
    ArrivalBooked
PROPERTIES
    EpisodesListed
