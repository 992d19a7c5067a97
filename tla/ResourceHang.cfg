SPECIFICATION MCFairSpec
CHECK_DEADLOCK FALSE
CONSTANTS
    Parts       = {"resources"}
    Inputs      <- MCInputs
    Faults      <- MCFaults
    TapsOf      <- MCTapsOf
    MaxRestarts = 1
    Users       = {a1, u1}
    Root        = a1
    Taps        = {t1, t2}
    MaxIssues   = 2
    MaxMessages = 9
    Media       <- MCMedia
    Queries     <- MCQueries
    Found       <- MCFound
    Curated     = {hot}
    Limit       = 1
    MaxSearches = 3
    Searches    = {s1, s2}
    MaxPage     = 2
    Names       = {1, 2}
    MaxId       = 3
    MaxLinkAttempts = 2
    Accounts    = {1, 2}
    Subs        <- MCSubs
    PerPage     = 2
    MaxRequests = 2
    film        = film
    series      = series
    nothing     = nothing
    hot         = hot
PROPERTY EveryTapEnds
