SPECIFICATION Spec
CHECK_DEADLOCK FALSE
CONSTANTS
    Faults        <- MCFaults
    Restarts      <- MCRestarts
    MaxDays       <- MCMaxDays
    Admins        = {a1, a2}
    Users         = {u1}
    Week          = 2
    MaxSeason     = 3
    Subscriptions = {q1, q2}
    States        = {downloading, completed}
    MaxRevision   = 2
    Handlers      = {h1, h2, h3}
    Keys          = {recommend, weeklyReport}
    Calls         = {s1, s2}
    Readers       = {poller}
    MaxAttempts   = 2
    MaxFires      = 2
    Watched       = {q1}
    Replies       = {watched}
    FollowupDelay = 1
    OverdueDelay  = 1
    Retention     = 1
    CompletedRetention = 2
    Unknown       = Unknown
INVARIANTS
    SummaryOnce
    DigestOnce
    
    NewestIsTold
    FileFollows
    FollowedAndSearched
    RemindersKept
