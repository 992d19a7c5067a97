---------------------------- MODULE RequestLedger ----------------------------
(***************************************************************************)
(* The life of a media request in YiMao and the quota that pays for it.    *)
(*                                                                         *)
(* Two JSON ledgers are involved: review_requests.json (ReviewService) and *)
(* user_quotas.json (QuotaService).  Each is a map in memory written out   *)
(* whole by atomicWriteFile; no write covers both.  A submission charges   *)
(* the quota ledger and then creates the review; a refund updates the      *)
(* quota ledger and then marks the review.  Either write may fail, and the *)
(* process may stop between the two.                                       *)
(*                                                                         *)
(* Locks.  RequestSubmissionService.mu is held from the duplicate check to *)
(* the end of a submission: it is held iff submission.pc # "idle".         *)
(* ReviewService.mu is held over one ReviewService call; only              *)
(* RestoreQuotaOnce spans two writes, so the lock is visible only there:   *)
(* it is held iff refund.req # None.                                       *)
(***************************************************************************)
EXTENDS Integers, FiniteSets

CONSTANTS
    Requests,         \* request identifiers; every one is used at most once
    Users,            \* Telegram users bound to a MoviePilot account
    Contents,         \* what HasActiveSimilarContent compares: id, type, season
    MediaType,        \* the media type of each content
    Limit,            \* the daily limit, of movies and of TV (5 in the code)
    MaxApproveRetry,  \* const MaxApproveRetry (3 in the code)
    Retention,        \* days a terminal record is kept (7 and 14 in the code)
    MaxDay,           \* bound: the last day explored
    StraddleMidnight, \* whether a day may begin in the middle of a submission
    None

MediaTypes == {"movie", "tv"}

ASSUME ConstantsOK ==
    /\ MediaType \in [Contents -> MediaTypes]
    /\ Limit \in Nat
    /\ MaxApproveRetry \in Nat \ {0}
    /\ Retention \in Nat \ {0}
    /\ MaxDay \in Nat
    /\ StraddleMidnight \in BOOLEAN
    /\ None \notin Requests \cup Users

VARIABLES
    reviews,      \* ReviewService.reviews
    reviewsDisk,  \* review_requests.json
    quota,        \* QuotaService.quotas and restoredRequests
    quotaDisk,    \* user_quotas.json
    submission,   \* the submission that holds RequestSubmissionService.mu
    approving,    \* requests whose handleApprove is past Approve, not returned
    resubmitting, \* the request retryStuckRequests is working on, or None
    refundCalls,  \* RestoreQuotaOnce calls that handlers are about to make
    refund,       \* the RestoreQuotaOnce call that holds ReviewService.mu
    boot,         \* RetryPendingRefunds at startup: running, or how it ended
    bootQueue,    \* the requests RetryPendingRefunds has still to repair
    day           \* the current date

vars == <<reviews, reviewsDisk, quota, quotaDisk, submission, approving,
          resubmitting, refundCalls, refund, boot, bootQueue, day>>

reviewVars == <<reviews, reviewsDisk>>
quotaVars  == <<quota, quotaDisk>>
bootVars   == <<boot, bootQueue>>
flowVars   == <<submission, approving, resubmitting>>

(***************************************************************************)
(* "none" is a record that was never created, "purged" one that cleanup    *)
(* removed: in the code both are absent from the map, and telling them     *)
(* apart keeps an identifier from being used twice.                        *)
(***************************************************************************)
Statuses == {"none", "pending", "approved", "rejected", "cancelled",
             "failed", "purged"}
Active   == {"pending", "approved"}
Closed   == {"rejected", "cancelled", "failed"}
Links    == {"none", "live", "ended"}
Reasons  == {"none", "admin", "user", "preflight"}

Review ==
    [status   : Statuses,
     user     : Users \cup {None},
     content  : Contents \cup {None},
     created  : Nat,       \* the day of CreatedAt
     charged  : Nat,       \* history: the day UseQuota was called
     reviewed : Nat,       \* the day of ReviewedAt
     link     : Links,     \* no SubscriptionID, a working one, one that ended
     retries  : 0..MaxApproveRetry,
     reason   : Reasons,   \* RejectionReason
     restored : BOOLEAN,   \* QuotaRestored
     pending  : BOOLEAN]   \* RefundPending

\* The records of the ledger name their user and their content.
ReviewLedger ==
    {rs \in [Requests -> Review] :
       \A r \in Requests : rs[r].status \notin {"none", "purged"} =>
                            rs[r].user \in Users /\ rs[r].content \in Contents}

Absent(status) ==
    [status |-> status, user |-> None, content |-> None, created |-> 0,
     charged |-> 0, reviewed |-> 0, link |-> "none", retries |-> 0,
     reason |-> "none", restored |-> FALSE, pending |-> FALSE]

Quota ==
    [used     : [Users -> [MediaTypes -> Nat]],
     resetOn  : [Users -> Nat],      \* LastResetDate
     restored : SUBSET Requests]     \* restoredRequests

Submissions ==
    {s \in [pc      : {"idle", "checked", "charged", "createFailed"},
            user    : Users \cup {None},
            content : Contents \cup {None},
            charged : Nat] :
       s.pc # "idle" => s.user \in Users /\ s.content \in Contents}

Idle == [pc |-> "idle", user |-> None, content |-> None, charged |-> 0]
NoRefund == [req |-> None, by |-> "handler"]

Units(m) == IF m = "tv" THEN 3 ELSE 1
Cost(c)  == Units(MediaType[c])

Init ==
    /\ reviews = [r \in Requests |-> Absent("none")]
    /\ reviewsDisk = reviews
    /\ quota = [used     |-> [u \in Users |-> [m \in MediaTypes |-> 0]],
                resetOn  |-> [u \in Users |-> 0],
                restored |-> {}]
    /\ quotaDisk = quota
    /\ submission = Idle
    /\ approving = {}
    /\ resubmitting = None
    /\ refundCalls = {}
    /\ refund = NoRefund
    /\ boot = "repaired"
    /\ bootQueue = {}
    /\ day = 0

-----------------------------------------------------------------------------
(***************************************************************************)
(* Writing the ledgers.  A mutator changes the map, writes the file, and   *)
(* undoes the change when the write fails.                                 *)
(***************************************************************************)
Updated(r, rv)      == [reviews EXCEPT ![r] = rv]
ReviewSaved(new)    == reviews' = new /\ reviewsDisk' = new
ReviewNotSaved(new) == UNCHANGED reviewVars
PersistReview(new)  == ReviewSaved(new) \/ ReviewNotSaved(new)

\* Fault: the change is not written out.
QuotaKeptInMemory(new) == quota' = new /\ UNCHANGED quotaDisk

QuotaSaved(new)     == quota' = new /\ quotaDisk' = new
QuotaNotSaved(new)  == UNCHANGED quotaVars

(***************************************************************************)
(* The handlers that end a request call RestoreQuotaOnce once the new      *)
(* status is on disk.                                                      *)
(***************************************************************************)
PersistThenRefund(new, r) ==
    \/ ReviewSaved(new) /\ refundCalls' = refundCalls \cup {r}
    \/ ReviewNotSaved(new) /\ UNCHANGED refundCalls

Free == refund.req = None      \* ReviewService.mu can be taken
Serving == boot # "retrying"   \* main has finished RetryPendingRefunds

-----------------------------------------------------------------------------
(***************************************************************************)
(* Submitting a request.                                                   *)
(***************************************************************************)
\* Fault: an approved request no longer counts as active.
HasPendingSimilarContent(c) ==
    \E r \in Requests : reviews[r].content = c /\ reviews[r].status = "pending"

HasActiveSimilarContent(c) ==
    \E r \in Requests : reviews[r].content = c /\ reviews[r].status \in Active

BeginSubmit(u, c) ==
    /\ Serving /\ Free
    /\ submission = Idle
    /\ ~HasActiveSimilarContent(c)
    /\ submission' = [pc |-> "checked", user |-> u, content |-> c, charged |-> 0]
    /\ UNCHANGED <<reviewVars, quotaVars, approving, resubmitting, refundCalls,
                   refund, bootVars, day>>

\* The counters of u after checkAndResetUnsafe.
ResetFor(q, u) ==
    IF q.resetOn[u] = day THEN q
    ELSE [q EXCEPT !.used[u] = [m \in MediaTypes |-> 0], !.resetOn[u] = day]

\* Fault: a season is charged like a movie.
ChargeOne(q, u, c) == [q EXCEPT !.used[u][MediaType[c]] = @ + 1]

Charge(q, u, c) == [q EXCEPT !.used[u][MediaType[c]] = @ + Cost(c)]

UseQuota ==
    LET u  == submission.user
        c  == submission.content
        q  == ResetFor(quota, u)
        ok == q.used[u][MediaType[c]] + Cost(c) <= Limit
    IN  /\ submission.pc = "checked"
        /\ \/ /\ ~ok                       \* the reset stays, in memory only
              /\ quota' = q
              /\ UNCHANGED quotaDisk
              /\ submission' = Idle
           \/ /\ ok
              /\ QuotaSaved(Charge(q, u, c))
              /\ submission' = [submission EXCEPT !.pc = "charged",
                                                  !.charged = day]
           \/ /\ ok
              /\ QuotaNotSaved(Charge(q, u, c))
              /\ submission' = Idle
        /\ UNCHANGED <<reviewVars, approving, resubmitting, refundCalls,
                       refund, bootVars, day>>

CreateRequest(r) ==
    LET new == Updated(r, [Absent("pending") EXCEPT !.user    = submission.user,
                                                    !.content = submission.content,
                                                    !.charged = submission.charged,
                                                    !.created = day])
    IN  /\ submission.pc = "charged" /\ Free
        /\ reviews[r].status = "none"
        /\ \/ ReviewSaved(new) /\ submission' = Idle
           \/ /\ ReviewNotSaved(new)
              /\ submission' = [submission EXCEPT !.pc = "createFailed"]
        /\ UNCHANGED <<quotaVars, approving, resubmitting, refundCalls, refund,
                       bootVars, day>>

Uncharge(q, u, c) ==
    [q EXCEPT !.used[u][MediaType[c]] = IF @ < Cost(c) THEN 0 ELSE @ - Cost(c)]

\* Creation failed: give the charge back.  If this write fails too, the
\* submission ends with a SubmissionCompensationError and the charge is lost.
RestoreQuota ==
    LET new == Uncharge(quota, submission.user, submission.content)
    IN  /\ submission.pc = "createFailed"
        /\ QuotaSaved(new) \/ QuotaNotSaved(new)
        /\ submission' = Idle
        /\ UNCHANGED <<reviewVars, approving, resubmitting, refundCalls,
                       refund, bootVars, day>>

\* GetQuotaInfo and GetQuotaText, which show a user the quota that is left,
\* reset the counters of a past day without writing them.
GetQuotaInfo(u) ==
    /\ Serving
    /\ quota' = ResetFor(quota, u)
    /\ UNCHANGED <<quotaDisk, reviewVars, flowVars, refundCalls, refund,
                   bootVars, day>>

-----------------------------------------------------------------------------
(***************************************************************************)
(* Deciding on a request.                                                  *)
(***************************************************************************)
Approve(r) ==
    /\ Serving /\ Free
    /\ reviews[r].status = "pending"
    /\ r \notin approving                \* the approval lock of handleApprove
    /\ LET new == Updated(r, [reviews[r] EXCEPT !.status = "approved", !.reviewed = day])
       IN  \/ ReviewSaved(new) /\ approving' = approving \cup {r}
           \/ ReviewNotSaved(new) /\ UNCHANGED approving
    /\ UNCHANGED <<quotaVars, submission, resubmitting, refundCalls, refund,
                   bootVars, day>>

\* Fault: the status is not looked at.
UnlinkedInAnyStatus(r) ==
    reviews[r].status \notin {"none", "purged"} /\ reviews[r].link = "none"

Unlinked(r) == reviews[r].status = "approved" /\ reviews[r].link = "none"

\* The preflight of handleApprove could not reach Emby: back to the queue.
RequeueApprovedPreflightFailure(r) ==
    /\ r \in approving /\ Free
    /\ Unlinked(r)
    /\ PersistReview(Updated(r, [reviews[r] EXCEPT !.status = "pending",
                                                   !.reviewed = 0,
                                                   !.reason = "none"]))
    /\ approving' = approving \ {r}
    /\ UNCHANGED <<quotaVars, submission, resubmitting, refundCalls, refund,
                   bootVars, day>>

\* The preflight found the media in Emby: reject, then refund.  Unlike the
\* other terminations, this one does not set RefundPending.
RejectApprovedPreflight(r) ==
    /\ r \in approving /\ Free
    /\ Unlinked(r)
    /\ PersistThenRefund(Updated(r, [reviews[r] EXCEPT !.status = "rejected",
                                                       !.reviewed = day,
                                                       !.reason = "preflight"]), r)
    /\ approving' = approving \ {r}
    /\ UNCHANGED <<quotaVars, submission, resubmitting, refund, bootVars, day>>

\* handleApprove and retryStuckRequests link the subscription MoviePilot
\* created or already had.  LinkSubscription looks at no status.
LinkSubscription(r) ==
    LET new == Updated(r, [reviews[r] EXCEPT !.link = "live"])
    IN  /\ r \in approving \/ r = resubmitting
        /\ reviews[r].status \notin {"none", "purged"} /\ Free
        /\ \/ /\ ReviewSaved(new)
              /\ \/ r \in approving /\ approving' = approving \ {r} /\ UNCHANGED resubmitting
                 \/ r = resubmitting /\ resubmitting' = None /\ UNCHANGED approving
           \/ /\ ReviewNotSaved(new)   \* the caller goes on to MarkStuck
              /\ UNCHANGED <<approving, resubmitting>>
        /\ UNCHANGED <<quotaVars, submission, refundCalls, refund, bootVars, day>>

(***************************************************************************)
(* MarkStuck counts a failed submission to MoviePilot, or exhausts the     *)
(* count at once when the error is one isNonRetryableApproveError knows.   *)
(* Counts are only ever compared with MaxApproveRetry, so they stop there. *)
(***************************************************************************)
Counted(n) == {IF n < MaxApproveRetry THEN n + 1 ELSE n, MaxApproveRetry}

MarkStuck(r, n) ==
    /\ reviews[r].status \notin {"none", "purged"} /\ Free
    /\ n \in Counted(reviews[r].retries)

\* In handleApprove a count that is exhausted is followed by a refund, while
\* the request is still approved, unless only the link could not be written.
ApproveMarksStuck(r) ==
    \E n \in Counted(reviews[r].retries) :
      LET new == Updated(r, [reviews[r] EXCEPT !.retries = n])
      IN  /\ r \in approving
          /\ MarkStuck(r, n)
          /\ approving' = approving \ {r}
          /\ \/ n = MaxApproveRetry /\ PersistThenRefund(new, r)
             \/ PersistReview(new) /\ UNCHANGED refundCalls
          /\ UNCHANGED <<quotaVars, submission, resubmitting, refund, bootVars, day>>

RetryMarksStuck(r) ==
    \E n \in Counted(reviews[r].retries) :
      /\ r = resubmitting
      /\ MarkStuck(r, n)
      /\ PersistReview(Updated(r, [reviews[r] EXCEPT !.retries = n]))
      /\ resubmitting' = None
      /\ UNCHANGED <<quotaVars, submission, approving, refundCalls, refund,
                     bootVars, day>>

\* handleApprove returns without a further change to the ledger.
ApproveReturns(r) ==
    /\ r \in approving
    /\ approving' = approving \ {r}
    /\ UNCHANGED <<reviewVars, quotaVars, submission, resubmitting, refundCalls,
                   refund, bootVars, day>>

(***************************************************************************)
(* retryStuckRequests takes approved requests without a subscription that  *)
(* are Stuck or were approved six minutes ago.  The calls handleApprove    *)
(* makes before it returns are cut off by client timeouts of 30 seconds,   *)
(* so a request it is still working on is not one of them.  The first tick *)
(* of retryStuckRequests comes five minutes after the start, and the first *)
(* one of cleanupRoutine an hour after it: main is serving by then.        *)
(***************************************************************************)
\* Fault: there is no grace period.
RecoveryWithoutGrace(r) == Unlinked(r)

RecoveryCandidate(r) == Unlinked(r) /\ r \notin approving

BeginResubmit(r) ==
    /\ Serving /\ Free
    /\ resubmitting = None
    /\ RecoveryCandidate(r)
    /\ reviews[r].retries < MaxApproveRetry
    /\ resubmitting' = r
    /\ UNCHANGED <<reviewVars, quotaVars, submission, approving, refundCalls,
                   refund, bootVars, day>>

\* ... and leaves it as it is, when MoviePilot cannot be asked.
SkipResubmit ==
    /\ resubmitting # None
    /\ resubmitting' = None
    /\ UNCHANGED <<reviewVars, quotaVars, submission, approving, refundCalls,
                   refund, bootVars, day>>

FailExhaustedStuckRequest(r) ==
    /\ Serving /\ Free
    /\ resubmitting = None
    /\ RecoveryCandidate(r)
    /\ reviews[r].retries = MaxApproveRetry
    /\ PersistThenRefund(Updated(r, [reviews[r] EXCEPT !.status = "failed",
                                                       !.pending = @ \/ ~reviews[r].restored]), r)
    /\ UNCHANGED <<quotaVars, flowVars, refund, bootVars, day>>

\* Fault: the refund is not recorded as owed.
EndPendingOwingNothing(r, status, reason) ==
    /\ Serving /\ Free
    /\ reviews[r].status = "pending"
    /\ PersistThenRefund(Updated(r, [reviews[r] EXCEPT !.status = status,
                                                       !.reviewed = day,
                                                       !.reason = reason]), r)
    /\ UNCHANGED <<quotaVars, flowVars, refund, bootVars, day>>

EndPending(r, status, reason) ==
    /\ Serving /\ Free
    /\ reviews[r].status = "pending"
    /\ PersistThenRefund(Updated(r, [reviews[r] EXCEPT !.status = status,
                                                       !.reviewed = day,
                                                       !.reason = reason,
                                                       !.pending = ~reviews[r].restored]), r)
    /\ UNCHANGED <<quotaVars, flowVars, refund, bootVars, day>>

Reject(r)       == EndPending(r, "rejected", "admin")
CancelByUser(r) == EndPending(r, "cancelled", "user")

\* updateAllSubscriptionStatus follows the subscription in MoviePilot: it is
\* completed and announced, failed, cancelled, or working again.  The error of
\* its one write is ignored: then memory is ahead of the disk until the next
\* write of the ledger.
SubscriptionPolled(r) ==
    LET new == Updated(r, [reviews[r] EXCEPT !.link = IF @ = "live" THEN "ended" ELSE "live"])
    IN  /\ Free
        /\ reviews[r].status = "approved"
        /\ reviews[r].link # "none"
        /\ ReviewSaved(new) \/ (reviews' = new /\ UNCHANGED reviewsDisk)
        /\ UNCHANGED <<quotaVars, flowVars, refundCalls, refund, bootVars, day>>

-----------------------------------------------------------------------------
(***************************************************************************)
(* Refunding: RestoreQuotaOnce, called by a handler or by                  *)
(* RetryPendingRefunds at startup, which stops at the first error.         *)
(***************************************************************************)
EndCall(r, by, ok) ==
    IF by = "handler"
    THEN refundCalls' = refundCalls \ {r} /\ UNCHANGED bootVars
    ELSE /\ bootQueue' = IF ok THEN bootQueue \ {r} ELSE {}
         /\ boot' = CASE ~ok             -> "failed"
                      [] bootQueue = {r} -> "repaired"
                      [] OTHER           -> boot
         /\ UNCHANGED refundCalls

\* Fault: the idempotency ledger is not updated.
RefundedUnremembered(q, r) ==
    IF reviews[r].created = day
    THEN Uncharge(q, reviews[r].user, reviews[r].content) ELSE q

\* RestoreQuotaForRequest: the ledger remembers the request; the counters of
\* today change only when the request was created today.
Refunded(q, r) ==
    LET rv == reviews[r]
        q1 == IF rv.created = day THEN Uncharge(q, rv.user, rv.content) ELSE q
    IN  [q1 EXCEPT !.restored = @ \cup {r}]

BeginRefund(r, by) ==
    /\ Free
    /\ r \in (IF by = "handler" THEN refundCalls ELSE bootQueue)
    /\ \/ /\ reviews[r].status \in {"none", "purged"}
          /\ EndCall(r, by, FALSE)
          /\ UNCHANGED <<quotaVars, refund>>
       \/ /\ reviews[r].restored
          /\ EndCall(r, by, TRUE)
          /\ UNCHANGED <<quotaVars, refund>>
       \/ /\ reviews[r].status \notin {"none", "purged"}
          /\ ~reviews[r].restored
          /\ \/ /\ r \in quota.restored
                /\ refund' = [req |-> r, by |-> by]
                /\ UNCHANGED <<quotaVars, refundCalls, bootVars>>
             \/ /\ r \notin quota.restored
                /\ QuotaSaved(Refunded(quota, r))
                /\ refund' = [req |-> r, by |-> by]
                /\ UNCHANGED <<refundCalls, bootVars>>
             \/ /\ r \notin quota.restored
                /\ QuotaNotSaved(Refunded(quota, r))
                /\ EndCall(r, by, FALSE)
                /\ UNCHANGED refund
    /\ UNCHANGED <<reviewVars, flowVars, day>>

FinishRefund ==
    LET r   == refund.req
        new == Updated(r, [reviews[r] EXCEPT !.restored = TRUE, !.pending = FALSE])
    IN  /\ r # None
        /\ \/ ReviewSaved(new) /\ EndCall(r, refund.by, TRUE)
           \/ ReviewNotSaved(new) /\ EndCall(r, refund.by, FALSE)
        /\ refund' = NoRefund
        /\ UNCHANGED <<quotaVars, flowVars, day>>

-----------------------------------------------------------------------------
(***************************************************************************)
(* Housekeeping, restarts and the calendar.                                *)
(***************************************************************************)
\* Fault: an owed refund does not keep the record.
ExpiredThoughOwed(r) ==
    /\ reviews[r].reviewed + Retention <= day
    /\ reviews[r].link = "none" /\ reviews[r].status \in Closed

Expired(r) ==
    LET rv == reviews[r]
    IN  /\ ~rv.pending
        /\ rv.reviewed + Retention <= day
        /\ rv.link = "ended" \/ (rv.link = "none" /\ rv.status \in Closed)

Cleanup ==
    /\ Serving /\ Free
    /\ \E r \in Requests : Expired(r)
    /\ PersistReview([r \in Requests |->
                         IF Expired(r) THEN Absent("purged") ELSE reviews[r]])
    /\ UNCHANGED <<quotaVars, flowVars, refundCalls, refund, bootVars, day>>

\* The process stops anywhere and starts again: QuotaService.load resets the
\* counters of a past day, and main calls RetryPendingRefunds.
Restart ==
    LET owed == {r \in Requests : reviewsDisk[r].pending}
    IN  /\ reviews' = reviewsDisk
        /\ quota' = [quotaDisk EXCEPT
                       !.used = [u \in Users |-> ResetFor(quotaDisk, u).used[u]],
                       !.resetOn = [u \in Users |-> day]]
        /\ submission' = Idle
        /\ approving' = {}
        /\ resubmitting' = None
        /\ refundCalls' = {}
        /\ refund' = NoRefund
        /\ boot' = IF owed = {} THEN "repaired" ELSE "retrying"
        /\ bootQueue' = owed
        /\ UNCHANGED <<reviewsDisk, quotaDisk, day>>

NextDay ==
    /\ day < MaxDay
    /\ StraddleMidnight \/ submission = Idle
    /\ day' = day + 1
    /\ UNCHANGED <<reviewVars, quotaVars, flowVars, refundCalls, refund, bootVars>>

Next ==
    \/ \E u \in Users, c \in Contents : BeginSubmit(u, c)
    \/ UseQuota
    \/ RestoreQuota
    \/ \E u \in Users : GetQuotaInfo(u)
    \/ \E r \in Requests :
          \/ CreateRequest(r)
          \/ Approve(r)
          \/ RequeueApprovedPreflightFailure(r)
          \/ RejectApprovedPreflight(r)
          \/ LinkSubscription(r)
          \/ ApproveMarksStuck(r)
          \/ RetryMarksStuck(r)
          \/ ApproveReturns(r)
          \/ BeginResubmit(r)
          \/ FailExhaustedStuckRequest(r)
          \/ Reject(r)
          \/ CancelByUser(r)
          \/ SubscriptionPolled(r)
          \/ \E by \in {"handler", "boot"} : BeginRefund(r, by)
    \/ SkipResubmit
    \/ FinishRefund
    \/ Cleanup
    \/ Restart
    \/ NextDay

Spec == Init /\ [][Next]_vars

-----------------------------------------------------------------------------
(***************************************************************************)
(* Properties.                                                             *)
(***************************************************************************)
\* Every variable has its type.
TypeOK ==
    /\ reviews \in ReviewLedger
    /\ reviewsDisk \in ReviewLedger
    /\ quota \in Quota
    /\ quotaDisk \in Quota
    /\ submission \in Submissions
    /\ approving \subseteq Requests
    /\ resubmitting \in Requests \cup {None}
    /\ refundCalls \subseteq Requests
    /\ refund \in [req : Requests \cup {None}, by : {"handler", "boot"}]
    /\ boot \in {"retrying", "repaired", "failed"}
    /\ bootQueue \subseteq Requests
    /\ day \in Nat

\* At no moment do two active requests ask for the same content, whatever the
\* users, the failed writes and the restarts: the duplicate check of
\* submitLocked is not undone by what happens between it and CreateRequest.
NoDuplicateActive ==
    \A r, s \in Requests :
      /\ reviews[r].status \in Active
      /\ reviews[s].status \in Active
      /\ reviews[r].content = reviews[s].content
      => r = s

\* RestoreQuotaOnce writes the quota ledger before it marks the review: a
\* review marked QuotaRestored, in memory or on disk, is in the idempotency
\* ledger on disk, so neither a crash nor a retry can lose a marked refund.
RefundLedgerFirst ==
    \A r \in Requests :
      reviews[r].restored \/ reviewsDisk[r].restored => r \in quotaDisk.restored

(***************************************************************************)
(* The inductive strengthening of the invariants above and below.  Memory  *)
(* and disk agree on the refunded requests, and on the reviews but for the *)
(* state of their subscriptions, between any two steps; while a submission runs, nobody else can make a request for  *)
(* its content active; a refund that holds the lock is already in the      *)
(* idempotency ledger.                                                     *)
(***************************************************************************)
SameRequest(v, w) ==
    /\ v.status = w.status
    /\ v.content = w.content
    /\ v.reason = w.reason
    /\ v.restored = w.restored
    /\ v.pending = w.pending

WriteThrough ==
    /\ \A r \in Requests : SameRequest(reviews[r], reviewsDisk[r])
    /\ quota.restored = quotaDisk.restored

SubmitterAlone ==
    submission.pc # "idle" => ~HasActiveSimilarContent(submission.content)

RefundUnderWay ==
    refund.req # None => refund.req \in quotaDisk.restored

\* The requests of type m that user u was charged for today and that were not
\* refunded, and the units they come to.
Paid(u, m) ==
    {r \in Requests : /\ reviews[r].user = u
                      /\ MediaType[reviews[r].content] = m
                      /\ reviews[r].charged = day
                      /\ r \notin quota.restored}

NetToday(u, m) == Units(m) * Cardinality(Paid(u, m))

\* The requests charged to a user in a day and not refunded never exceed the
\* daily limit (the purpose of the date that RestoreQuotaForRequest is given:
\* a refund on a later day must not make room for more than the limit).
DailyCap ==
    \A u \in Users, m \in MediaTypes : NetToday(u, m) <= Limit

\* Whatever ends a request records on disk, in the write that ends it, that
\* its quota is still owed, until it is given back (RefundPending).
\* RejectApprovedPreflight is the exception: its caller refunds.
RefundIntentDurable ==
    \A r \in Requests :
      reviewsDisk[r].status \in Closed /\ reviewsDisk[r].reason # "preflight"
      => reviewsDisk[r].restored \/ reviewsDisk[r].pending

\* No request is both given back and subscribed: a request in the idempotency
\* ledger has no subscription linked to it.  The approval lock, the grace period
\* of retryStuckRequests and the exhausted count each keep one of the flows that
\* link a subscription away from a request another flow has refunded.
RefundedNeverLinked ==
    \A r \in Requests : r \in quota.restored => reviews[r].link = "none"

(***************************************************************************)
(* The inductive strengthening of RefundedNeverLinked.  GivenUp is what a  *)
(* request is once anybody returns, or is about to return, its quota: no   *)
(* flow that links a subscription holds it or can still take it up.        *)
(***************************************************************************)
GivenUp(r) ==
    \/ reviews[r].status \in Closed \cup {"purged"}
    \/ /\ Unlinked(r)
       /\ reviews[r].retries = MaxApproveRetry
       /\ r \notin approving
       /\ r # resubmitting

Returning(r) ==
    r \in refundCalls \cup bootQueue \cup quota.restored \/ r = refund.req

FlowOK(r) ==
    /\ reviews[r].retries = reviewsDisk[r].retries
    /\ reviews[r].link = "none" <=> reviewsDisk[r].link = "none"
    /\ reviews[r].pending => reviews[r].status \in Closed
    /\ reviews[r].link # "none" => reviews[r].status = "approved"
    /\ r \in approving => Unlinked(r)
    /\ r = resubmitting => /\ Unlinked(r)
                           /\ reviews[r].retries < MaxApproveRetry
                           /\ r \notin approving
    /\ Returning(r) => GivenUp(r)

FlowInv == \A r \in Requests : FlowOK(r)

(***************************************************************************)
(* The inductive strengthening of UsageFallsOncePerRequest: the counters   *)
(* of a user in memory are those on disk, or were reset on a later day.    *)
(***************************************************************************)
CountersOK ==
    \A u \in Users :
      /\ quota.resetOn[u] <= day
      /\ \/ quotaDisk.resetOn[u] < quota.resetOn[u]
         \/ /\ quotaDisk.resetOn[u] = quota.resetOn[u]
            /\ quotaDisk.used[u] = quota.used[u]

(***************************************************************************)
(* The inductive strengthening of DailyCap, when no day begins in the      *)
(* middle of a submission.  A charge and the record that shows it are of   *)
(* the same day, in memory and on disk; and what the requests of a user    *)
(* come to today, with the charge of a submission that has no record yet,  *)
(* is on the counter on disk, which no write lifts over the limit.         *)
(***************************************************************************)
SamePayment(v, w) ==
    v.user = w.user /\ v.content = w.content /\ v.charged = w.charged /\ v.created = w.created

PaymentsDated ==
    /\ \A r \in Requests : /\ reviews[r].created = reviews[r].charged
                           /\ reviews[r].charged <= day
                           /\ SamePayment(reviews[r], reviewsDisk[r])
    /\ submission.pc \in {"charged", "createFailed"} => submission.charged = day

InFlight(u, m) ==
    /\ submission.pc \in {"charged", "createFailed"}
    /\ submission.user = u /\ MediaType[submission.content] = m

Due(u, m) == NetToday(u, m) + (IF InFlight(u, m) THEN Units(m) ELSE 0)

UsedToday(u, m) == IF quotaDisk.resetOn[u] = day THEN quotaDisk.used[u][m] ELSE 0

CapOK(u, m) ==
    /\ quota.used[u][m] <= Limit /\ quotaDisk.used[u][m] <= Limit
    /\ IsFiniteSet(Paid(u, m))
    /\ Due(u, m) <= UsedToday(u, m)

CapInv == PaymentsDated /\ \A u \in Users, m \in MediaTypes : CapOK(u, m)

LedgerInv ==
    /\ WriteThrough
    /\ SubmitterAlone
    /\ RefundUnderWay
    /\ NoDuplicateActive
    /\ RefundLedgerFirst
    /\ RefundIntentDurable

\* A durable refund intent is dropped only when the refund is durable in both
\* ledgers: no cleanup, restart or failed write forgets it.
IntentHonoured ==
    [][\A r \in Requests :
         reviewsDisk[r].pending =>
           \/ reviewsDisk'[r].pending
           \/ reviewsDisk'[r].restored /\ r \in quotaDisk'.restored]_vars

\* Within a day the durable usage of a user falls only when a request of that
\* user enters the idempotency ledger in the same write, or when a submission
\* whose creation failed is compensated: no usage is given back twice.
UsageFallsOncePerRequest ==
    [][\A u \in Users, m \in MediaTypes :
         /\ quotaDisk'.used[u][m] < quotaDisk.used[u][m]
         /\ quotaDisk'.resetOn[u] = quotaDisk.resetOn[u]
         => \/ \E r \in quotaDisk'.restored \ quotaDisk.restored : reviews[r].user = u
            \/ submission.pc = "createFailed" /\ submission.user = u]_vars

\* The durable ledgers behave as RequestContract: restarts and failed writes
\* never show a transition the contract does not have.
Contract == INSTANCE RequestContract WITH
    status   <- [r \in Requests |-> reviewsDisk[r].status],
    content  <- [r \in Requests |-> reviewsDisk[r].content],
    refunded <- quotaDisk.restored

ImplementsContract == Contract!Spec
=============================================================================
