--------------------------- MODULE MoviePilotClient ---------------------------
(***************************************************************************)
(* The client of MoviePilot: how a call is repeated, the two caches of the *)
(* subscription list, and the merging of search triggers.                  *)
(*                                                                         *)
(* A call of RequestMedia sends a POST, drops both caches one after the    *)
(* other, and starts a goroutine that asks for a search, which covers all  *)
(* subscriptions.  Meanwhile the list cache is warmed under its lock, and  *)
(* readers of the status cache fetch what it lacks under none.             *)
(*                                                                         *)
(* A call stands for the subscription it makes.  A call to MoviePilot may  *)
(* get lost before or after it is served, MaxFaults times in all.          *)
(***************************************************************************)
EXTENDS Integers, FiniteSets

CONSTANTS
    Calls,          \* calls of RequestMedia, each for a title of its own
    Readers,        \* goroutines that ask for all subscriptions
    MaxAttempts,    \* cfg.MaxAttempts of RetryHTTP (3)
    MaxFires,       \* bound on the searches under way
    MaxFaults,      \* bound on lost requests and answers
    Unknown         \* a cache that is nil or expired

VARIABLES
    stage,       \* where each call of RequestMedia is
    attempts,    \* how often it was sent
    made,        \* MoviePilot: how many subscriptions the call made
    cancelled,   \* MoviePilot: subscriptions a user deleted
    listCache,   \* subsCacheData: what it lists
    warming,     \* what preWarmSubscriptionCache fetched, holding subsCacheMu
    statusCache, \* statusCacheData: what it lists
    fetched,     \* what each reader fetched and has not stored yet
    search,      \* lastSearchTriggerTime, searchTriggerPending and -Timer
    triggers,    \* calls whose trigger goroutine has not run yet
    firing,      \* searches under way
    owed,        \* history: subscriptions nobody searched for yet
    faults

server == <<made, cancelled>>
caches == <<listCache, warming, statusCache, fetched>>
searching == <<search, triggers, firing, owed>>
vars == <<stage, attempts, server, caches, searching, faults>>

Init ==
    /\ stage = [c \in Calls |-> "idle"]
    /\ attempts = [c \in Calls |-> 0]
    /\ made = [c \in Calls |-> 0]
    /\ cancelled = {}
    /\ listCache = Unknown /\ warming = Unknown
    /\ statusCache = Unknown /\ fetched = [r \in Readers |-> Unknown]
    /\ search = [cooling |-> FALSE, pending |-> FALSE, timer |-> "none"]
    /\ triggers = {} /\ firing = 0 /\ owed = {}
    /\ faults = 0

NoFault == UNCHANGED faults
Fault   == faults < MaxFaults /\ faults' = faults + 1

Listed == {c \in Calls : made[c] > 0} \ cancelled
Answered == {c \in Calls : stage[c] = "answered"}
To(c, s) == stage' = [stage EXCEPT ![c] = s]
-----------------------------------------------------------------------------
(***************************************************************************)
(* RetryHTTP.  Only a method that is idempotent is sent again.             *)
(***************************************************************************)
RequestIsIdempotentMethod(method) == method \in {"GET", "HEAD", "OPTIONS", "TRACE"}

Resends(c) == RequestIsIdempotentMethod("POST") /\ attempts[c] < MaxAttempts

RequestMedia(c) ==
    /\ stage[c] = "idle"
    /\ To(c, "sent") /\ attempts' = [attempts EXCEPT ![c] = 1]
    /\ UNCHANGED <<server, caches, searching, faults>>

Makes(c) == made' = [made EXCEPT ![c] = @ + 1]

Served(c) ==
    /\ stage[c] = "sent"
    /\ Makes(c) /\ To(c, "made")
    /\ UNCHANGED <<attempts, cancelled, caches, searching, faults>>

\* The request or its answer is lost: the client cannot tell.
Lost(c) ==
    /\ stage[c] = "sent" /\ Fault
    /\ Makes(c) \/ UNCHANGED made
    /\ IF Resends(c) THEN UNCHANGED stage /\ attempts' = [attempts EXCEPT ![c] = @ + 1]
                     ELSE To(c, "failed") /\ UNCHANGED attempts
    /\ UNCHANGED <<cancelled, caches, searching>>

\* success=false.
Declined(c) ==
    /\ stage[c] = "sent"
    /\ To(c, "failed")
    /\ UNCHANGED <<attempts, server, caches, searching, faults>>

CancelSubscription(c) ==
    /\ c \in Listed /\ cancelled' = cancelled \cup {c}
    /\ UNCHANGED <<stage, attempts, made, caches, searching, faults>>
-----------------------------------------------------------------------------
(***************************************************************************)
(* InvalidateSubscriptionsCache takes the two locks one after the other.   *)
(***************************************************************************)
\* Fault: the lock is taken to store what was fetched, not to fetch it.
AlwaysFree == TRUE

ListIsFree == warming = Unknown

InvalidateList(c) ==
    /\ stage[c] = "made" /\ ListIsFree
    /\ listCache' = Unknown
    /\ To(c, "dropping")
    /\ UNCHANGED <<attempts, server, warming, statusCache, fetched, searching, faults>>

DropsStatuses(c) == statusCache' = Unknown

\* Then the trigger is started and the caller gets the answer.
InvalidateStatuses(c) ==
    /\ stage[c] = "dropping"
    /\ DropsStatuses(c)
    /\ To(c, "answered")
    /\ triggers' = triggers \cup {c}
    /\ owed' = owed \cup {c}
    /\ UNCHANGED <<attempts, server, listCache, warming, fetched, search, firing, faults>>
-----------------------------------------------------------------------------
(***************************************************************************)
(* The list cache: fetched and filled with its lock held.                  *)
(***************************************************************************)
PreWarmSubscriptionCache ==
    /\ listCache = Unknown /\ warming = Unknown
    /\ warming' = Listed
    /\ UNCHANGED <<stage, attempts, server, listCache, statusCache, fetched, searching, faults>>

Warmed ==
    /\ warming # Unknown
    /\ \/ NoFault /\ listCache' = warming
       \/ Fault /\ UNCHANGED listCache
    /\ warming' = Unknown
    /\ UNCHANGED <<stage, attempts, server, statusCache, fetched, searching>>

\* FindCachedSubscription: never calls MoviePilot; without a cache it is unknown.
FindCachedSubscription(c) ==
    CASE listCache = Unknown -> "unknown"
      [] c \in listCache     -> "found"
      [] OTHER               -> "absent"

\* subsCacheTTL (5 minutes) and statusCacheTTL (60 seconds).
Expire ==
    /\ \/ listCache # Unknown /\ listCache' = Unknown /\ UNCHANGED statusCache
       \/ statusCache # Unknown /\ statusCache' = Unknown /\ UNCHANGED listCache
    /\ UNCHANGED <<stage, attempts, server, warming, fetched, searching, faults>>
-----------------------------------------------------------------------------
(***************************************************************************)
(* GetAllSubscriptions: a fetch, with no lock, and a store.                *)
(***************************************************************************)
FetchSubscriptionStatusSnapshot(r) ==
    /\ statusCache = Unknown /\ fetched[r] = Unknown
    /\ fetched' = [fetched EXCEPT ![r] = Listed]
    /\ UNCHANGED <<stage, attempts, server, listCache, warming, statusCache, searching, faults>>

StoreSubscriptionStatuses(r) ==
    /\ fetched[r] # Unknown
    /\ statusCache' = fetched[r]
    /\ fetched' = [fetched EXCEPT ![r] = Unknown]
    /\ UNCHANGED <<stage, attempts, server, listCache, warming, searching, faults>>
-----------------------------------------------------------------------------
(***************************************************************************)
(* Search triggers.  Those that come within the cooldown are merged into   *)
(* one search at its end.                                                  *)
(***************************************************************************)
Fires(s) == [s EXCEPT !.cooling = TRUE]

\* Fault: what comes within the cooldown is dropped.
Dropped(s) == s

Merged(s) == [s EXCEPT !.pending = TRUE, !.timer = IF @ = "none" THEN "set" ELSE @]

TriggerSubscriptionSearch(c) ==
    /\ c \in triggers /\ triggers' = triggers \ {c}
    /\ \/ search.cooling /\ search' = Merged(search) /\ UNCHANGED firing
       \/ ~search.cooling /\ search' = Fires(search) /\ firing' = firing + 1
    /\ UNCHANGED <<stage, attempts, server, caches, owed, faults>>

\* The timer was set for the end of the cooldown that it found.
CooldownEnds ==
    /\ search.cooling /\ firing < MaxFires
    /\ search' = [search EXCEPT !.cooling = FALSE, !.timer = IF @ = "set" THEN "due" ELSE @]
    /\ UNCHANGED <<stage, attempts, server, caches, triggers, firing, owed, faults>>

FlushPendingSubscriptionSearch ==
    /\ search.timer = "due" /\ firing < MaxFires
    /\ IF search.pending
       THEN /\ search' = [Fires(search) EXCEPT !.timer = "none", !.pending = FALSE]
            /\ firing' = firing + 1
       ELSE search' = [search EXCEPT !.timer = "none"] /\ UNCHANGED firing
    /\ UNCHANGED <<stage, attempts, server, caches, triggers, owed, faults>>

\* Half a second later all subscriptions are searched for.  When all attempts
\* fail, MoviePilot is left to search by itself (a warning is logged).
FireSubscriptionSearchWithRetry ==
    /\ firing > 0 /\ firing' = firing - 1
    /\ owed' = {}
    /\ NoFault \/ Fault
    /\ UNCHANGED <<stage, attempts, server, caches, search, triggers>>
-----------------------------------------------------------------------------
Step(c) ==
    \/ RequestMedia(c) \/ Served(c) \/ Lost(c) \/ Declined(c) \/ CancelSubscription(c)
    \/ InvalidateList(c) \/ InvalidateStatuses(c)

Caching ==
    \/ PreWarmSubscriptionCache \/ Warmed \/ Expire
    \/ \E r \in Readers : FetchSubscriptionStatusSnapshot(r) \/ StoreSubscriptionStatuses(r)

Searching ==
    \/ \E c \in Calls : TriggerSubscriptionSearch(c)
    \/ CooldownEnds \/ FlushPendingSubscriptionSearch \/ FireSubscriptionSearchWithRetry

Next == (\E c \in Calls : Step(c)) \/ Caching \/ Searching

Spec == Init /\ [][Next]_vars
-----------------------------------------------------------------------------
(***************************************************************************)
(* Properties.                                                             *)
(***************************************************************************)
\* However many answers get lost, one call of RequestMedia makes MoviePilot
\* follow the title once (RetryHTTP does not repeat a POST).
PostedOnce == \A c \in Calls : made[c] <= 1

\* The lookup that keeps users from asking twice does not miss a subscription
\* whose creation was answered: warming up holds the lock that the
\* invalidation needs.
DuplicateIsSeen ==
    \A c \in Answered \cap Listed : FindCachedSubscription(c) # "absent"

\* Neither a repeated call nor a lookup that missed it makes MoviePilot follow
\* a title twice.
NoTitleTwice == PostedOnce /\ DuplicateIsSeen

\* No subscription waits for a search that nobody will start: its trigger is on
\* its way, merged into a search that a timer will start, or in flight.
SearchNotLost ==
    \A c \in owed : \/ c \in triggers
                    \/ search.pending /\ search.timer # "none"
                    \/ firing > 0

\* However calls and answers get lost, a title is followed once and is searched for.
FollowedAndSearched == NoTitleTwice /\ SearchNotLost
=============================================================================
