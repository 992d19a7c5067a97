----------------------------- MODULE Subscription -----------------------------
(***************************************************************************)
(* One approved request and the subscriptions of MoviePilot that serve it. *)
(*                                                                         *)
(* Three threads of the program work on it.  The approver is a callback    *)
(* handler (handleApprove after Approve).  The poller is the goroutine     *)
(* refreshSubscriptionStatus: every five minutes it deletes replaced       *)
(* subscriptions, applies a snapshot of MoviePilot to the review, and      *)
(* submits again what is still unlinked.  The replacer is the goroutine    *)
(* resubscribeRecycledRequests that the poller starts when a subscription  *)
(* was recycled.  They share the review, the file it is written to, and    *)
(* the client's status cache: no lock is held over a call of MoviePilot.   *)
(*                                                                         *)
(* A POST is sent once (RetryHTTP): its answer may be lost.  Every call,   *)
(* write and answer may fail, MaxFaults times in all.  Time is abstract:   *)
(* expiries, cooldowns and the grace period may pass whenever nothing that *)
(* is shorter is under way.  The request is younger than seven days.       *)
(***************************************************************************)
EXTENDS Integers, FiniteSets

CONSTANTS
    MaxIds,           \* bound on the subscriptions MoviePilot creates
    MaxApproveRetry,  \* const MaxApproveRetry (3 in the code)
    MaxOrphans,       \* polls that miss a subscription before it counts as
                      \* cancelled (3 in the code)
    SlowApproval,     \* whether an approval may outlast the grace period
    States,           \* the states of subscriptions that are explored
    MaxUserActs,      \* bound on what users do to subscriptions in MoviePilot
    MaxFaults,        \* bound on failing calls, writes and lost answers
    MaxRestarts,      \* bound on the restarts of the program
    MaxEvents         \* bound on these three together

ASSUME ConstantsOK ==
    /\ MaxIds \in Nat \ {0}
    /\ MaxApproveRetry \in Nat \ {0}
    /\ MaxOrphans \in Nat
    /\ SlowApproval \in BOOLEAN
    /\ States \subseteq {"N", "R", "D", "C"} /\ "N" \in States
    /\ MaxUserActs \in Nat
    /\ MaxFaults \in Nat
    /\ MaxRestarts \in Nat
    /\ MaxEvents \in Nat

Ids     == 1..MaxIds
Threads == {"approver", "poller", "replacer"}
None    == 0                 \* a SubscriptionID of 0

VARIABLES
    mp,          \* MoviePilot: the state of each subscription
    merges,      \* MoviePilot answers a POST with the subscription it has
    review,      \* the review in ReviewService.reviews
    disk,        \* the review in review_requests.json
    run,         \* where each thread is, and what it read
    tracked,     \* the subscription updateAllSubscriptionStatus collected
    replaced,    \* the subscription in the replacer's clone of the review
    booted,      \* the poller's first round, which does not submit again, is over
    aged,        \* subscriptionRecoveryGracePeriod has passed since the approval
    statusCache, \* statusCacheData, NoSnapshot when nil or expired
    answered,    \* history: subscriptions whose creation was answered
    deleted,     \* history: subscriptions the program deleted
    retold,      \* history: what the user heard twice of, a download or a stall
    heard,       \* history: what the user heard of
    excuses,     \* history: what can make the program forget a subscription
    faults,
    restarts,
    userActs

ledger  == <<review, disk>>
local   == <<run, tracked, replaced, booted>>
history == <<answered, deleted, heard, retold, excuses>>
bounds  == <<faults, restarts, userActs>>
vars    == <<mp, merges, ledger, local, aged, statusCache, history, bounds>>

Snapshots == [Ids -> States \cup {"none"}]
NoSnapshot == [i \in Ids |-> "unknown"]

Review ==
    [status   : {"pending", "approved", "failed"},
     sub      : Ids \cup {None},                  \* SubscriptionID
     state    : States \cup {"none", "X"},     \* SubscriptionState
     obsolete : Ids \cup {None},                  \* PendingDeleteSubscriptionID
     stuck    : BOOLEAN,
     retries  : 0..MaxApproveRetry,               \* RetryCount
     orphans  : 0..MaxOrphans,                    \* OrphanRetryCount
     cooling  : BOOLEAN,                          \* LastResubscribeAt is recent
     noticed  : SUBSET {"D", "R"}]                \* DownloadNotified, StallNotified

Thread ==
    [pc   : {"idle", "cleanup", "clear", "snapshot", "apply", "retry",
             "fetched", "found", "create", "made", "refused", "link",
             "unlinked", "compensate", "delete"},
     for  : {"apply", "found"},
     snap : Snapshots \cup {NoSnapshot},
     sub  : Ids \cup {None},
     lapped : BOOLEAN]   \* another round of the poller began meanwhile

TypeOK ==
    /\ mp \in [Ids -> States \cup {"none", "gone"}] /\ merges \in BOOLEAN
    /\ review \in Review /\ disk \in Review
    /\ run \in [Threads -> Thread]
    /\ tracked \in Ids \cup {None} /\ replaced \in Ids \cup {None}
    /\ booted \in BOOLEAN /\ aged \in BOOLEAN
    /\ statusCache \in Snapshots \cup {NoSnapshot}
    /\ answered \subseteq Ids /\ deleted \subseteq Ids
    /\ retold \subseteq heard /\ heard \subseteq {"D", "R"}
    /\ excuses \subseteq {"restart", "overlap", "stale", "undeleted", "overwritten", "exhausted",
                       "compensated", "other"}
    /\ faults \in 0..MaxFaults /\ restarts \in 0..MaxRestarts /\ userActs \in 0..MaxUserActs

AtRest == [pc |-> "idle", for |-> "apply", snap |-> NoSnapshot, sub |-> None, lapped |-> FALSE]

\* What GET /subscribe/ lists now.
Listed == [i \in Ids |-> IF mp[i] = "gone" THEN "none" ELSE mp[i]]
Alive(i) == mp[i] \in States

\* Somebody else may follow the same title already.
Init ==
    /\ mp \in {[i \in Ids |-> IF i = 1 THEN s ELSE "none"] : s \in {"none", "N"}}
    /\ merges \in BOOLEAN
    /\ review = [status |-> "pending", sub |-> None, state |-> "none", obsolete |-> None,
                 stuck |-> FALSE, retries |-> 0, orphans |-> 0, cooling |-> FALSE,
                 noticed |-> {}]
    /\ disk = review
    /\ run = [t \in Threads |-> AtRest]
    /\ tracked = None /\ replaced = None
    /\ booted = FALSE /\ aged = FALSE
    /\ statusCache = NoSnapshot
    /\ answered = {} /\ deleted = {} /\ excuses = {}
    /\ heard = {} /\ retold = {}
    /\ faults = 0 /\ restarts = 0 /\ userActs = 0
-----------------------------------------------------------------------------
(***************************************************************************)
(* Faults, writes, and the steps of a thread.                              *)
(***************************************************************************)
Eventful == faults + restarts + userActs < MaxEvents

NoFault == UNCHANGED faults
Fault   == faults < MaxFaults /\ Eventful /\ faults' = faults + 1

At(t, pc)   == run[t].pc = pc
Goto(t, pc) == run' = [run EXCEPT ![t].pc = pc]
Ends(t)     == run' = [run EXCEPT ![t] = AtRest]

\* saveLocked succeeds, or fails and the mutator undoes its change.
Saved(rv)  == NoFault /\ review' = rv /\ disk' = rv
SaveFailed == Fault /\ UNCHANGED ledger

Excused(why) == excuses' = excuses \cup {why}
-----------------------------------------------------------------------------
(***************************************************************************)
(* MoviePilot, and its users.                                              *)
(***************************************************************************)
Moves == {<<"N", "D">>, <<"N", "R">>, <<"R", "D">>, <<"D", "R">>, <<"D", "C">>}

Progress ==
    \E i \in Ids :
       /\ \E s \in States : <<mp[i], s>> \in Moves /\ mp' = [mp EXCEPT ![i] = s]
       /\ UNCHANGED <<merges, ledger, local, aged, statusCache, history, bounds>>

UserActs ==
    /\ userActs < MaxUserActs /\ Eventful /\ userActs' = userActs + 1
    /\ UNCHANGED <<merges, ledger, local, aged, statusCache, history, faults, restarts>>

\* The menu of a user's own requests: search again, or give up.
ReshareSubscription ==
    \E i \in Ids :
       /\ Alive(i) /\ "R" \in States
       /\ mp' = [mp EXCEPT ![i] = "R"]
       /\ UserActs

CancelSubscription ==
    \E i \in Ids :
       /\ Alive(i)
       /\ mp' = [mp EXCEPT ![i] = "gone"]
       /\ UserActs
-----------------------------------------------------------------------------
(***************************************************************************)
(* The client's status cache: filled without a lock over the fetch.        *)
(***************************************************************************)
\* statusCacheTTL.
Expire ==
    /\ statusCache # NoSnapshot /\ statusCache' = NoSnapshot
    /\ UNCHANGED <<mp, merges, ledger, local, aged, history, bounds>>

\* GetAllSubscriptions: a fresh snapshot of the cache, or a fetch stored later.
CachedSubscriptionStatuses(t) ==
    /\ statusCache # NoSnapshot
    /\ run' = [run EXCEPT ![t].pc = run[t].for, ![t].snap = statusCache]

FetchSubscriptionStatusSnapshot(t) ==
    /\ statusCache = NoSnapshot
    /\ run' = [run EXCEPT ![t].pc = "fetched", ![t].snap = Listed]

GetAllSubscriptions(t) ==
    /\ At(t, "snapshot")
    /\ CachedSubscriptionStatuses(t) \/ FetchSubscriptionStatusSnapshot(t)
    /\ UNCHANGED <<mp, merges, ledger, tracked, replaced, booted, aged, statusCache, history, bounds>>

StoreSubscriptionStatuses(t) ==
    /\ At(t, "fetched")
    /\ statusCache' = run[t].snap
    /\ Goto(t, run[t].for)
    /\ UNCHANGED <<mp, merges, ledger, tracked, replaced, booted, aged, history, bounds>>
-----------------------------------------------------------------------------
(***************************************************************************)
(* RequestMedia: the POST, its answer, and what follows the answer.        *)
(***************************************************************************)
Unused == {i \in Ids : mp[i] = "none" /\ \A j \in Ids : j < i => mp[j] # "none"}

\* MoviePilot creates a subscription, or answers with the one it has.
Made == IF merges /\ \E i \in Ids : Alive(i) THEN {i \in Ids : Alive(i)} ELSE Unused

Create(i) == mp' = IF Alive(i) THEN mp ELSE [mp EXCEPT ![i] = "N"]

RequestMedia(t) ==
    /\ At(t, "create")
    /\ \/ NoFault /\ \E i \in Made :
             Create(i) /\ run' = [run EXCEPT ![t].pc = "made", ![t].sub = i]
       \/ Fault /\ \E i \in Made : Create(i) /\ Goto(t, "refused")  \* the answer is lost
       \/ NoFault /\ UNCHANGED mp /\ Goto(t, "refused") \* success=false
    /\ UNCHANGED <<merges, ledger, tracked, replaced, booted, aged, statusCache, history, restarts, userActs>>

\* The cache is dropped before the caller hears of the subscription.
RequestAnswered(t) ==
    /\ At(t, "made")
    /\ statusCache' = NoSnapshot
    /\ answered' = answered \cup {run[t].sub}
    /\ Goto(t, "link")
    /\ UNCHANGED <<mp, merges, ledger, tracked, replaced, booted, aged, deleted, heard, retold, excuses, bounds>>

\* DELETE /subscribe/{id}; one that is not there counts as deleted.
Deletes(i) == NoFault /\ mp' = [mp EXCEPT ![i] = "gone"] /\ deleted' = deleted \cup {i}
-----------------------------------------------------------------------------
(***************************************************************************)
(* The approver: handleApprove once the review is approved.                *)
(***************************************************************************)
Asks(t)    == run' = [run EXCEPT ![t].pc = "snapshot", ![t].for = "found"]
Creates(t) == run' = [run EXCEPT ![t] = [AtRest EXCEPT !.pc = "create"]]

Approve ==
    /\ review.status = "pending" /\ At("approver", "idle")
    /\ \/ Saved([review EXCEPT !.status = "approved"]) /\ Asks("approver")
       \/ SaveFailed /\ UNCHANGED run
    /\ UNCHANGED <<mp, merges, tracked, replaced, booted, aged, statusCache, history, restarts, userActs>>

\* With SlowApproval the grace period may be over while the approver still
\* waits for MoviePilot (three attempts of up to two minutes for each page).
GracePeriodPasses ==
    /\ review.status = "approved" /\ ~aged
    /\ SlowApproval \/ At("approver", "idle")
    /\ aged' = TRUE
    /\ UNCHANGED <<mp, merges, ledger, local, statusCache, history, bounds>>

FindExistingSubscription(snap) == {i \in Ids : snap[i] \in States}

\* A snapshot can miss what the program created: an older one was stored late.
Misses(snap) ==
    IF \E i \in answered : Alive(i) /\ snap[i] \notin States
    THEN Excused("stale") ELSE UNCHANGED excuses

\* The recovery can find somebody else's subscription before its own.
Prefers(i) ==
    IF \E j \in answered : j # i /\ Alive(j) THEN Excused("other") ELSE UNCHANGED excuses

UpdateSubscriptionInfo(i, state) == [review EXCEPT !.sub = i, !.state = state]

\* Without an answer to the question the approver goes on to create.
ApproverFinds ==
    /\ At("approver", "found")
    /\ LET snap == run["approver"].snap
           found == FindExistingSubscription(snap)
       IN \/ /\ found = {} /\ NoFault /\ UNCHANGED ledger
             /\ Misses(snap) /\ Creates("approver")
          \/ \E i \in found : /\ Saved(UpdateSubscriptionInfo(i, snap[i])) \/ SaveFailed
                              /\ Ends("approver") /\ UNCHANGED excuses
    /\ UNCHANGED <<mp, merges, tracked, replaced, booted, aged, statusCache, answered, deleted,
                   heard, retold, restarts, userActs>>

ApproverLearnsNothing ==
    /\ At("approver", "snapshot") /\ Fault
    /\ Creates("approver")
    /\ UNCHANGED <<mp, merges, ledger, tracked, replaced, booted, aged, statusCache, history, restarts, userActs>>

\* Some refusals are final (isNonRetryableApproveError).
MarkStuck(final) ==
    LET n == review.retries + 1
    IN [review EXCEPT !.stuck = TRUE,
                      !.retries = IF final \/ n > MaxApproveRetry THEN MaxApproveRetry ELSE n]

\* MoviePilot refused, or what it made could not be linked.
SubmissionFails(t) ==
    /\ At(t, "refused") \/ At(t, "unlinked")
    /\ \E final \in IF At(t, "refused") THEN BOOLEAN ELSE {FALSE} :
          Saved(MarkStuck(final)) \/ SaveFailed
    /\ Ends(t)
    /\ UNCHANGED <<mp, merges, tracked, replaced, booted, aged, statusCache, history, restarts, userActs>>

LinkSubscription(i, state) ==
    [review EXCEPT !.sub = i, !.state = state, !.stuck = FALSE]

Links(t) ==
    /\ At(t, "link")
    /\ \/ Saved(LinkSubscription(run[t].sub, "N")) /\ Ends(t)
       \/ SaveFailed /\ Goto(t, "unlinked")
    /\ UNCHANGED <<mp, merges, tracked, replaced, booted, aged, statusCache, history, restarts, userActs>>
-----------------------------------------------------------------------------
(***************************************************************************)
(* The poller: updateAllSubscriptionStatus, then retryStuckRequests.       *)
(***************************************************************************)
\* A replacement takes less than two rounds.
CollectTracked ==
    /\ At("poller", "idle") /\ ~run["replacer"].lapped
    /\ tracked' = IF review.status = "approved" /\ review.state # "X" THEN review.sub ELSE None
    /\ run' = [run EXCEPT !["poller"].pc = "cleanup",
                          !["replacer"].lapped = ~At("replacer", "idle")]
    /\ UNCHANGED <<mp, merges, ledger, replaced, booted, aged, statusCache, history, bounds>>

\* cleanupReplacedSubscriptions: delete, then clear the mark of what was deleted.
Polls == IF tracked = None THEN "retry" ELSE "snapshot"

CleanupReplacedSubscriptions ==
    /\ At("poller", "cleanup")
    /\ LET i == review.obsolete
       IN \/ /\ i = None /\ NoFault /\ UNCHANGED <<mp, merges, deleted>>
             /\ run' = [run EXCEPT !["poller"].pc = Polls, !["poller"].for = "apply"]
          \/ /\ i # None /\ Deletes(i)
             /\ run' = [run EXCEPT !["poller"].pc = "clear", !["poller"].sub = i]
          \/ /\ i # None /\ Fault /\ UNCHANGED <<mp, merges, deleted>>
             /\ run' = [run EXCEPT !["poller"].pc = Polls, !["poller"].for = "apply"]
    /\ UNCHANGED <<merges, ledger, tracked, replaced, booted, aged, statusCache, answered,
                   heard, retold, excuses, restarts, userActs>>

\* clearPendingDeleteSubscription leaves a newer mark alone.
ClearPendingDelete(i) ==
    IF review.obsolete = i
    THEN Saved([review EXCEPT !.obsolete = None]) \/ SaveFailed
    ELSE NoFault /\ UNCHANGED ledger

PollerClears ==
    /\ At("poller", "clear")
    /\ ClearPendingDelete(run["poller"].sub)
    /\ run' = [run EXCEPT !["poller"] = [AtRest EXCEPT !.pc = Polls]]
    /\ UNCHANGED <<mp, merges, tracked, replaced, booted, aged, statusCache, history, restarts, userActs>>

\* What a poll makes of the review, when the snapshot lists the subscription
\* it collected before, and when it does not.
Notices(s) == {s} \cap ({"D", "R"} \ review.noticed)

\* Fault: the mark of a notice is forgotten.
AppliedUnmarked(s) == [review EXCEPT !.state = s]

Applied(s) == [review EXCEPT !.state = s, !.noticed = @ \cup Notices(s)]

Orphaned ==
    IF review.orphans >= MaxOrphans THEN [review EXCEPT !.state = "X"]
                                    ELSE [review EXCEPT !.orphans = @ + 1]

\* Only a change to R replaces, and not within resubscribeCooldown.
Recycled(s) == s = "R" /\ ~review.cooling

Tell(ns) == heard' = heard \cup ns /\ retold' = retold \cup (heard \cap ns)

\* The save at the end is not looked at: the review stays ahead of the file.
Keeps(rv) ==
    /\ review' = rv
    /\ \/ NoFault /\ disk' = rv
       \/ Fault /\ UNCHANGED disk

ApplySnapshot ==
    /\ At("poller", "apply")
    /\ LET s == run["poller"].snap[tracked]
           changed == s # "none" /\ s # review.state
           replaces == changed /\ Recycled(s)
       IN /\ Keeps(IF s = "none" THEN Orphaned ELSE IF changed THEN Applied(s) ELSE review)
          /\ Tell(IF changed THEN Notices(s) ELSE {})
          /\ replaced' = IF replaces THEN review.sub ELSE replaced
          /\ run' = [run EXCEPT !["poller"] = [AtRest EXCEPT !.pc = "retry"],
                                !["replacer"].pc = IF replaces THEN "create" ELSE @]
    /\ tracked' = None
    /\ UNCHANGED <<mp, merges, booted, aged, statusCache, answered, deleted, excuses, restarts, userActs>>

PollFails ==
    /\ At("poller", "snapshot") /\ run["poller"].for = "apply" /\ Fault
    /\ run' = [run EXCEPT !["poller"] = [AtRest EXCEPT !.pc = "retry"]]
    /\ tracked' = None
    /\ UNCHANGED <<mp, merges, ledger, replaced, booted, aged, statusCache, history, restarts, userActs>>

\* Fault: only requests marked as stuck are recovered.
RecoverableStuck == review.status = "approved" /\ review.sub = None /\ review.stuck

\* getSubscriptionRecoveryCandidates.
Recoverable ==
    /\ review.status = "approved" /\ review.sub = None
    /\ review.stuck \/ aged
-----------------------------------------------------------------------------
RetryStuckRequests ==
    /\ At("poller", "retry")
    /\ booted' = TRUE
    /\ IF booted /\ Recoverable /\ review.retries < MaxApproveRetry
       THEN /\ Asks("poller")
            /\ IF At("approver", "idle") THEN UNCHANGED excuses ELSE Excused("overlap")
       ELSE Ends("poller") /\ UNCHANGED excuses
    /\ ~(booted /\ Recoverable /\ review.retries >= MaxApproveRetry)
    /\ UNCHANGED <<mp, merges, ledger, tracked, replaced, aged, statusCache, answered, deleted,
                   heard, retold, bounds>>

\* failExhaustedStuckRequest: MoviePilot is not asked once more.
FailExhaustedStuckRequest ==
    /\ At("poller", "retry") /\ booted
    /\ Recoverable /\ review.retries >= MaxApproveRetry
    /\ Saved([review EXCEPT !.status = "failed", !.stuck = FALSE]) \/ SaveFailed
    /\ IF \E i \in answered : Alive(i) THEN Excused("exhausted") ELSE UNCHANGED excuses
    /\ Ends("poller")
    /\ UNCHANGED <<mp, merges, tracked, replaced, booted, aged, statusCache, answered, deleted,
                   heard, retold, restarts, userActs>>

PollerFinds ==
    /\ At("poller", "found")
    /\ LET snap == run["poller"].snap
           found == FindExistingSubscription(snap)
       IN \/ /\ found = {} /\ NoFault /\ UNCHANGED ledger
             /\ Misses(snap) /\ Creates("poller")
          \/ \E i \in found : /\ Saved(LinkSubscription(i, snap[i])) \/ SaveFailed
                              /\ Ends("poller") /\ Prefers(i)
    /\ UNCHANGED <<mp, merges, tracked, replaced, booted, aged, statusCache, answered, deleted,
                   heard, retold, restarts, userActs>>

\* Without an answer the poller waits for the next round.
PollerLearnsNothing ==
    /\ At("poller", "snapshot") /\ run["poller"].for = "found" /\ Fault
    /\ Ends("poller")
    /\ UNCHANGED <<mp, merges, ledger, tracked, replaced, booted, aged, statusCache, history, restarts, userActs>>
-----------------------------------------------------------------------------
(***************************************************************************)
(* The replacer: resubscribeRecycledRequests.                              *)
(***************************************************************************)
ReplacerRefused ==
    /\ At("replacer", "refused")
    /\ Ends("replacer") /\ replaced' = None
    /\ UNCHANGED <<mp, merges, ledger, tracked, booted, aged, statusCache, history, bounds>>

\* Fault: the mark is taken after the new id was assigned, or not at all.
ReplacementMarked(i) ==
    [review EXCEPT !.sub = i, !.state = "N", !.cooling = TRUE, !.obsolete = i]
ReplacementUnmarked(i) == [review EXCEPT !.sub = i, !.state = "N", !.cooling = TRUE]

\* One write holds the new subscription and the intent to delete the old one.
Replacement(i) ==
    [review EXCEPT !.sub = i, !.state = "N", !.cooling = TRUE,
                   !.obsolete = IF review.sub \notin {None, i} THEN review.sub ELSE @]

ReplacerLinks ==
    /\ At("replacer", "link")
    /\ LET i == run["replacer"].sub
           overwrites == review.obsolete \notin {None, Replacement(i).obsolete}
       IN \/ /\ Saved(Replacement(i))
             /\ IF replaced \notin {None, i} THEN Goto("replacer", "delete") /\ UNCHANGED replaced
                                             ELSE Ends("replacer") /\ replaced' = None
             /\ IF overwrites THEN Excused("overwritten") ELSE UNCHANGED excuses
          \/ SaveFailed /\ Goto("replacer", "compensate") /\ UNCHANGED <<replaced, excuses>>
    /\ UNCHANGED <<mp, merges, tracked, booted, aged, statusCache, answered, deleted, heard, retold, restarts, userActs>>

\* What could not be linked is deleted, even when it is the one linked before.
Compensate ==
    /\ At("replacer", "compensate")
    /\ \/ /\ Deletes(run["replacer"].sub)
          /\ IF review.sub = run["replacer"].sub THEN Excused("compensated") ELSE UNCHANGED excuses
       \/ Fault /\ UNCHANGED <<mp, merges, deleted>> /\ Excused("undeleted")
    /\ Ends("replacer") /\ replaced' = None
    /\ UNCHANGED <<merges, ledger, tracked, booted, aged, statusCache, answered, heard, retold, restarts, userActs>>

\* The old one of the clone is deleted, and the mark for it cleared.
DeleteReplaced ==
    /\ At("replacer", "delete")
    /\ \/ Deletes(replaced) /\ Goto("replacer", "clear") /\ UNCHANGED replaced
       \/ Fault /\ UNCHANGED <<mp, merges, deleted>> /\ Ends("replacer") /\ replaced' = None
    /\ UNCHANGED <<merges, ledger, tracked, booted, aged, statusCache, answered, heard, retold, excuses, restarts, userActs>>

ReplacerClears ==
    /\ At("replacer", "clear")
    /\ ClearPendingDelete(replaced)
    /\ Ends("replacer") /\ replaced' = None
    /\ UNCHANGED <<mp, merges, tracked, booted, aged, statusCache, history, restarts, userActs>>

\* resubscribeCooldown is longer than a replacement.
ResubscribeCooldownPasses ==
    /\ review.cooling /\ At("replacer", "idle")
    /\ review' = [review EXCEPT !.cooling = FALSE]
    /\ disk' = [disk EXCEPT !.cooling = FALSE]
    /\ UNCHANGED <<mp, merges, local, aged, statusCache, history, bounds>>
-----------------------------------------------------------------------------
Restart ==
    /\ restarts < MaxRestarts /\ Eventful /\ restarts' = restarts + 1
    /\ review' = disk
    /\ run' = [t \in Threads |-> AtRest]
    /\ tracked' = None /\ replaced' = None /\ booted' = FALSE
    /\ statusCache' = NoSnapshot
    /\ Excused("restart")
    /\ UNCHANGED <<mp, merges, disk, aged, answered, deleted, heard, retold, faults, userActs>>

External == Progress \/ ReshareSubscription \/ CancelSubscription

Timing ==
    \/ Expire \/ GracePeriodPasses \/ ResubscribeCooldownPasses

Calls(t) ==
    GetAllSubscriptions(t) \/ StoreSubscriptionStatuses(t) \/ RequestMedia(t) \/ RequestAnswered(t)

Submits(t) == SubmissionFails(t) \/ Links(t)

Approver ==
    Approve \/ Calls("approver") \/ ApproverFinds \/ ApproverLearnsNothing \/ Submits("approver")

Poller ==
    \/ CollectTracked \/ CleanupReplacedSubscriptions \/ PollerClears
    \/ ApplySnapshot \/ PollFails
    \/ RetryStuckRequests \/ FailExhaustedStuckRequest
    \/ Calls("poller") \/ PollerFinds \/ PollerLearnsNothing \/ Submits("poller")

Replacer ==
    \/ Calls("replacer") \/ ReplacerRefused \/ ReplacerLinks
    \/ Compensate \/ DeleteReplaced \/ ReplacerClears

Next ==
    \/ External \/ Timing
    \/ Approver \/ Poller \/ Replacer \/ Restart

Spec == Init /\ [][Next]_vars

\* Handlers and goroutines go on, tickers tick, and time passes.
FairSpec ==
    /\ Spec
    /\ WF_vars(Approver) /\ WF_vars(Poller) /\ WF_vars(Replacer)
    /\ WF_vars(GracePeriodPasses)
-----------------------------------------------------------------------------
(***************************************************************************)
(* Properties.                                                             *)
(***************************************************************************)
\* The program does not delete the subscription that the review is linked to,
\* in memory or in the file: the link to the new one is written before the old
\* one is deleted, and a deletion is repeated only for what was replaced.
\* (When MoviePilot answers with the linked one itself and the write fails,
\* compensation does delete it.)
DeletedIsNotLinked ==
    \A i \in deleted : (review.sub = i \/ disk.sub = i) => excuses \cap {"overlap", "compensated"} # {}

\* A subscription that was created for the request, and still lives, is linked,
\* marked as obsolete, in the hands of a thread, or to be found by the recovery.
\* It is forgotten only after a restart, when the recovery overtakes a slow
\* approval, asks a stale snapshot or gives up, when a compensation fails, or
\* when a second replacement overwrites the mark of the first.
NothingForgotten ==
    excuses \subseteq {"compensated"} =>
        \A i \in answered : Alive(i) =>
            \/ i \in {review.sub, review.obsolete, replaced}
            \/ \E t \in Threads : run[t].sub = i
            \/ review.status = "approved" /\ review.sub = None

\* The user hears once that the download began, and once that the search goes
\* on, unless the write that records it failed and the program was restarted
\* (the marks are set before the notice is sent).
ToldOnce ==
    retold # {} => faults > 0 /\ restarts > 0

\* An approved request does not hang without a subscription: it is linked in
\* the end, or fails and is refunded (retryStuckRequests).
EventuallyLinkedOrFailed ==
    (review.status = "approved" /\ review.sub = None)
        ~> (review.sub # None \/ review.status = "failed")
-----------------------------------------------------------------------------
(***************************************************************************)
(* The inductive invariant under the properties: who may be where, and     *)
(* which subscriptions the review, a thread and MoviePilot know.  Most of  *)
(* it is owed to the recovery waiting for the approver; what a retry that  *)
(* overtakes a slow approval may do is left open.                          *)
(***************************************************************************)
Resolving == {"snapshot", "fetched", "found"}
Posting   == {"create", "made", "refused", "link", "unlinked"}
Replacing == {"create", "made", "refused", "link", "compensate"}
Holding   == {"made", "link", "unlinked", "compensate", "delete", "clear"}

\* The poller before it applies a snapshot, and while it submits again.
Polling ==
    \/ run["poller"].pc \in {"cleanup", "clear", "apply"}
    \/ run["poller"].pc \in {"snapshot", "fetched"} /\ run["poller"].for = "apply"

Submitting == ~Polling /\ run["poller"].pc \in Resolving \cup Posting

PlacesOK ==
    /\ run["approver"].pc \in {"idle"} \cup Resolving \cup Posting
    /\ run["poller"].pc \in {"idle", "cleanup", "clear", "apply", "retry"} \cup Resolving \cup Posting
    /\ run["replacer"].pc \in {"idle", "delete", "clear"} \cup Replacing
    /\ run["approver"].pc \in Resolving => run["approver"].for = "found"
    /\ \A t \in Threads :
          /\ run[t].pc \in {"fetched", "apply", "found"} => run[t].snap \in Snapshots
          /\ run[t].pc \in Holding => run[t].sub # None
    /\ Polling /\ run["poller"].pc \notin {"cleanup", "clear"} => tracked # None
    /\ At("replacer", "delete") => replaced # None

\* MoviePilot made whatever a snapshot lists or the program knows by its id.
Lists(snap) == \A i \in Ids : snap[i] \in States => mp[i] # "none"

KnownOK ==
    /\ Lists(statusCache) /\ \A t \in Threads : Lists(run[t].snap)
    /\ \A i \in answered \cup ({review.sub, review.obsolete, replaced} \ {None}) : mp[i] # "none"
    /\ \A t \in Threads : run[t].sub # None => mp[run[t].sub] # "none"
    /\ \A i \in deleted : mp[i] = "gone"
    /\ merges => \A i, j \in Ids : Alive(i) /\ Alive(j) => i = j

\* The file differs from the review in what a poll noticed, and no more.
FileOK ==
    /\ disk.status = review.status /\ disk.retries = review.retries
    /\ disk.sub = review.sub /\ disk.obsolete = review.obsolete

\* Until the review is linked, only one thread can be about to link it.
LinkOK ==
    /\ review.sub = None =>
          review.obsolete = None /\ deleted = {} /\ tracked = None /\ At("replacer", "idle")
    /\ review.obsolete # None => review.obsolete # review.sub
    /\ merges /\ review.obsolete # None => mp[review.obsolete] = "gone"
    /\ review.status = "pending" =>
          /\ review.sub = None /\ review.retries = 0 /\ answered = {}
          /\ At("approver", "idle") /\ ~Submitting
    /\ ~At("approver", "idle") =>
          /\ review.status = "approved" /\ review.sub = None /\ review.retries = 0
          /\ answered \subseteq {run["approver"].sub} /\ ~Submitting
    /\ Submitting => review.status = "approved" /\ review.sub = None
    /\ "stale" \notin excuses /\ run["poller"].pc \in Posting =>
          \A i \in answered : Alive(i) => i = run["poller"].sub

\* What a thread holds between its steps is what the review says it is.
HoldOK ==
    /\ \A t \in Threads : run[t].sub # None => run[t].pc \in Holding
    /\ At("poller", "clear") => mp[run["poller"].sub] = "gone"
    /\ At("replacer", "idle") => replaced = None /\ ~run["replacer"].lapped
    /\ run["replacer"].pc \in Replacing => replaced = review.sub
    /\ run["replacer"].pc \in {"made", "link"} =>
          /\ run["replacer"].sub \notin deleted \cup {review.obsolete}
          /\ merges => run["replacer"].sub = review.sub \/ mp[review.sub] = "gone"
    /\ run["replacer"].pc \in {"delete", "clear"} =>
          /\ run["replacer"].sub = review.sub /\ replaced \notin {None, review.sub}
          /\ replaced = review.obsolete \/ mp[replaced] = "gone"
    /\ At("replacer", "clear") => mp[replaced] = "gone"

\* A poll that overlaps a replacement does not start another.
LapOK ==
    ~At("replacer", "idle") =>
       /\ Polling => run["replacer"].lapped
       /\ Polling \/ ~run["replacer"].lapped => review.cooling \/ review.state = "R"

UndeletedOK == "compensated" \notin excuses => review.sub \notin deleted

SubscriptionInv ==
    /\ TypeOK /\ PlacesOK /\ KnownOK /\ FileOK
    /\ "overlap" \notin excuses => LinkOK /\ HoldOK /\ LapOK /\ UndeletedOK /\ NothingForgotten

\* What the user heard of is marked, in memory and in the file.
ToldInv ==
    /\ restarts = 0 \/ faults = 0 => heard \subseteq review.noticed /\ retold = {}
    /\ faults = 0 => heard \subseteq disk.noticed
=============================================================================
