------------------------- MODULE RequestLedgerProofs -------------------------
(***************************************************************************)
(* Proofs about RequestLedger, for any requests, users, contents, limits   *)
(* and days: its type, the safety invariants of the two ledgers, that a    *)
(* refunded request is never subscribed, what may happen to an owed refund *)
(* and to a user's usage, and that the ledgers implement RequestContract.  *)
(***************************************************************************)
EXTENDS RequestLedger, FiniteSetTheorems, TLAPS

-----------------------------------------------------------------------------
(***************************************************************************)
(* The operators that compute a new quota ledger.                          *)
(***************************************************************************)
\* checkAndResetUnsafe keeps the ledger well-formed and leaves the
\* idempotency ledger alone.
LEMMA ResetForType ==
    ASSUME NEW q \in Quota, NEW u \in Users, day \in Nat
    PROVE  ResetFor(q, u) \in Quota /\ ResetFor(q, u).restored = q.restored
  BY DEF ResetFor, Quota, MediaTypes

\* The quota a request costs.
LEMMA CostPositive ==
    ASSUME NEW c \in Contents PROVE Cost(c) \in Nat \ {0}
  BY DEF Cost, Units

\* Changing one counter of one user keeps the ledger well-formed.
LEMMA CounterType ==
    ASSUME NEW q \in Quota, NEW u \in Users, NEW m \in MediaTypes, NEW n \in Nat
    PROVE  /\ [q EXCEPT !.used[u][m] = n] \in Quota
           /\ [q EXCEPT !.used[u][m] = n].restored = q.restored
<1> DEFINE counters == [q.used[u] EXCEPT ![m] = n]
           used     == [q.used EXCEPT ![u] = counters]
<1>1. counters \in [MediaTypes -> Nat]
  BY DEF Quota
<1>2. used \in [Users -> [MediaTypes -> Nat]]
  BY <1>1 DEF Quota
<1>3. [q EXCEPT !.used[u][m] = n] = [q EXCEPT !.used = used]
  BY DEF Quota
<1> HIDE DEF counters, used
<1> QED
  BY <1>2, <1>3 DEF Quota

\* A charge keeps the ledger well-formed.
LEMMA ChargeType ==
    ASSUME NEW q \in Quota, NEW u \in Users, NEW c \in Contents
    PROVE  Charge(q, u, c) \in Quota /\ Charge(q, u, c).restored = q.restored
<1>1. MediaType[c] \in MediaTypes /\ q.used[u][MediaType[c]] \in Nat
  BY ConstantsOK DEF Quota
<1>2. q.used[u][MediaType[c]] + Cost(c) \in Nat
  BY <1>1, CostPositive
<1> QED
  BY <1>1, <1>2, CounterType DEF Charge

\* Giving a charge back keeps the ledger well-formed: usage never becomes
\* negative.
LEMMA UnchargeType ==
    ASSUME NEW q \in Quota, NEW u \in Users, NEW c \in Contents
    PROVE  Uncharge(q, u, c) \in Quota /\ Uncharge(q, u, c).restored = q.restored
<1> DEFINE n == IF q.used[u][MediaType[c]] < Cost(c) THEN 0
                ELSE q.used[u][MediaType[c]] - Cost(c)
<1>1. MediaType[c] \in MediaTypes /\ q.used[u][MediaType[c]] \in Nat
  BY ConstantsOK DEF Quota
<1>2. n \in Nat
  BY <1>1, CostPositive
<1>3. Uncharge(q, u, c) = [q EXCEPT !.used[u][MediaType[c]] = n]
  BY DEF Uncharge
<1> HIDE DEF n
<1> QED
  BY <1>1, <1>2, <1>3, CounterType

-----------------------------------------------------------------------------
(***************************************************************************)
(* The operators that compute a new review ledger.                         *)
(***************************************************************************)
\* An absent record has no user, whatever its status.
LEMMA AbsentType ==
    ASSUME NEW s \in Statuses
    PROVE  Absent(s) \in Review /\ Absent(s).status = s
  BY ConstantsOK DEF Absent, Review, Statuses, Links, Reasons

\* Replacing a record by one that names a user and a content, or is absent,
\* keeps the ledger well-formed.
LEMMA UpdatedType ==
    ASSUME TypeOK, NEW r \in Requests, NEW rv \in Review,
           rv.status \notin {"none", "purged"} => rv.user \in Users /\ rv.content \in Contents
    PROVE  Updated(r, rv) \in ReviewLedger
  BY DEF TypeOK, ReviewLedger, Updated

\* A mutator that keeps the user and the content of a record may change every
\* other field of it.
LEMMA ChangedType ==
    ASSUME TypeOK, NEW r \in Requests, reviews[r].status \notin {"none", "purged"},
           NEW rv \in Review, rv.user = reviews[r].user, rv.content = reviews[r].content
    PROVE  Updated(r, rv) \in ReviewLedger
  BY UpdatedType DEF TypeOK, ReviewLedger

-----------------------------------------------------------------------------
(***************************************************************************)
(* Type correctness.                                                       *)
(***************************************************************************)
LEMMA InitType == Init => TypeOK
<1> SUFFICES ASSUME Init PROVE TypeOK
  OBVIOUS
<1>1. reviews \in ReviewLedger
  BY AbsentType DEF Init, ReviewLedger, Statuses
<1>2. quota \in Quota
  BY DEF Init, Quota, MediaTypes
<1> QED
  BY <1>1, <1>2 DEF Init, TypeOK, Submissions, Idle, NoRefund

\* The empty submission is one.
LEMMA IdleType == Idle \in Submissions
  BY DEF Idle, Submissions

\* Every action keeps every variable in its type.
LEMMA TypeStep == TypeOK /\ [Next]_vars => TypeOK'
<1> SUFFICES ASSUME TypeOK, [Next]_vars PROVE TypeOK'
  OBVIOUS
<1> USE DEF reviewVars, quotaVars, bootVars, flowVars
<1>1. ASSUME NEW u \in Users, NEW c \in Contents, BeginSubmit(u, c)
      PROVE  TypeOK'
  BY <1>1 DEF TypeOK, BeginSubmit, Submissions
<1>2. CASE UseQuota
  <2> DEFINE u == submission.user
             c == submission.content
             q == ResetFor(quota, u)
  <2>1. u \in Users /\ c \in Contents
    BY <1>2 DEF TypeOK, UseQuota, Submissions
  <2>2. q \in Quota /\ Charge(q, u, c) \in Quota
    BY <2>1, ResetForType, ChargeType DEF TypeOK
  <2>3. quota' \in Quota /\ quotaDisk' \in Quota
    BY <1>2, <2>2 DEF TypeOK, UseQuota, QuotaSaved, QuotaNotSaved
  <2>4. [submission EXCEPT !.pc = "charged", !.charged = day] \in Submissions
    BY <2>1 DEF TypeOK, Submissions
  <2>5. submission' \in {Idle, [submission EXCEPT !.pc = "charged", !.charged = day]}
    BY <1>2 DEF UseQuota
  <2>6. submission' \in Submissions
    BY <2>4, <2>5, IdleType
  <2> QED
    BY <1>2, <2>3, <2>6 DEF TypeOK, UseQuota
<1>3. CASE RestoreQuota
  <2>1. Uncharge(quota, submission.user, submission.content) \in Quota
    BY <1>3, UnchargeType DEF TypeOK, RestoreQuota, Submissions
  <2>2. quota' \in Quota /\ quotaDisk' \in Quota
    BY <1>3, <2>1 DEF TypeOK, RestoreQuota, QuotaSaved, QuotaNotSaved
  <2> QED
    BY <1>3, <2>2 DEF TypeOK, RestoreQuota, Idle, Submissions
<1>4. ASSUME NEW u \in Users, GetQuotaInfo(u)
      PROVE  TypeOK'
  BY <1>4, ResetForType DEF TypeOK, GetQuotaInfo
<1>5. ASSUME NEW r \in Requests, CreateRequest(r)
      PROVE  TypeOK'
  <2> DEFINE rv == [Absent("pending") EXCEPT !.user    = submission.user,
                                             !.content = submission.content,
                                             !.charged = submission.charged,
                                             !.created = day]
  <2>1. submission.user \in Users /\ submission.content \in Contents /\ submission.charged \in Nat
    BY <1>5 DEF TypeOK, CreateRequest, Submissions
  <2>2. rv \in Review /\ rv.user \in Users /\ rv.content \in Contents
    BY <2>1, AbsentType DEF TypeOK, Review, Statuses
  <2>3. Updated(r, rv) \in ReviewLedger
    BY <2>2, UpdatedType
  <2>4. submission' \in Submissions
    BY <1>5 DEF TypeOK, CreateRequest, Submissions, Idle
  <2> HIDE DEF rv
  <2> QED
    BY <1>5, <2>3, <2>4 DEF TypeOK, CreateRequest, rv, ReviewSaved, ReviewNotSaved
<1>6. ASSUME NEW r \in Requests, Approve(r)
      PROVE  TypeOK'
  <2> DEFINE rv == [reviews[r] EXCEPT !.status = "approved", !.reviewed = day]
  <2>1. reviews[r] \in Review /\ reviews[r].status \notin {"none", "purged"}
    BY <1>6 DEF TypeOK, ReviewLedger, Approve
  <2>2. rv \in Review /\ rv.user = reviews[r].user /\ rv.content = reviews[r].content
    BY <2>1 DEF TypeOK, Review, Statuses, Reasons, Links
  <2>3. Updated(r, rv) \in ReviewLedger
    BY <2>1, <2>2, ChangedType
  <2> HIDE DEF rv
  <2> QED
    BY <1>6, <2>3 DEF TypeOK, Approve, rv, PersistReview, PersistThenRefund,
       ReviewSaved, ReviewNotSaved
<1>7. ASSUME NEW r \in Requests, RequeueApprovedPreflightFailure(r)
      PROVE  TypeOK'
  <2> DEFINE rv == [reviews[r] EXCEPT !.status = "pending", !.reviewed = 0, !.reason = "none"]
  <2>1. reviews[r] \in Review /\ reviews[r].status \notin {"none", "purged"}
    BY <1>7 DEF TypeOK, ReviewLedger, RequeueApprovedPreflightFailure, Unlinked
  <2>2. rv \in Review /\ rv.user = reviews[r].user /\ rv.content = reviews[r].content
    BY <2>1 DEF TypeOK, Review, Statuses, Reasons, Links
  <2>3. Updated(r, rv) \in ReviewLedger
    BY <2>1, <2>2, ChangedType
  <2> HIDE DEF rv
  <2> QED
    BY <1>7, <2>3 DEF TypeOK, RequeueApprovedPreflightFailure, Unlinked, rv, PersistReview, PersistThenRefund,
       ReviewSaved, ReviewNotSaved
<1>8. ASSUME NEW r \in Requests, RejectApprovedPreflight(r)
      PROVE  TypeOK'
  <2> DEFINE rv == [reviews[r] EXCEPT !.status = "rejected", !.reviewed = day, !.reason = "preflight"]
  <2>1. reviews[r] \in Review /\ reviews[r].status \notin {"none", "purged"}
    BY <1>8 DEF TypeOK, ReviewLedger, RejectApprovedPreflight, Unlinked
  <2>2. rv \in Review /\ rv.user = reviews[r].user /\ rv.content = reviews[r].content
    BY <2>1 DEF TypeOK, Review, Statuses, Reasons, Links
  <2>3. Updated(r, rv) \in ReviewLedger
    BY <2>1, <2>2, ChangedType
  <2> HIDE DEF rv
  <2> QED
    BY <1>8, <2>3 DEF TypeOK, RejectApprovedPreflight, Unlinked, rv, PersistReview, PersistThenRefund,
       ReviewSaved, ReviewNotSaved
<1>9. ASSUME NEW r \in Requests, LinkSubscription(r)
      PROVE  TypeOK'
  <2> DEFINE rv == [reviews[r] EXCEPT !.link = "live"]
  <2>1. reviews[r] \in Review /\ reviews[r].status \notin {"none", "purged"}
    BY <1>9 DEF TypeOK, ReviewLedger, LinkSubscription
  <2>2. rv \in Review /\ rv.user = reviews[r].user /\ rv.content = reviews[r].content
    BY <2>1 DEF TypeOK, Review, Statuses, Reasons, Links
  <2>3. Updated(r, rv) \in ReviewLedger
    BY <2>1, <2>2, ChangedType
  <2> HIDE DEF rv
  <2> QED
    BY <1>9, <2>3 DEF TypeOK, LinkSubscription, rv, PersistReview, PersistThenRefund,
       ReviewSaved, ReviewNotSaved
<1>10. ASSUME NEW r \in Requests, ApproveMarksStuck(r)
      PROVE  TypeOK'
  <2> DEFINE rv(k) == [reviews[r] EXCEPT !.retries = k]
  <2>1. reviews[r] \in Review /\ reviews[r].status \notin {"none", "purged"}
    BY <1>10 DEF TypeOK, ReviewLedger, ApproveMarksStuck, MarkStuck
  <2>2. Counted(reviews[r].retries) \subseteq 0..MaxApproveRetry
    BY <2>1, ConstantsOK DEF Counted, Review
  <2>3. \A k \in 0..MaxApproveRetry :
          rv(k) \in Review /\ rv(k).user = reviews[r].user /\ rv(k).content = reviews[r].content
    BY <2>1 DEF Review
  <2>4. \A k \in Counted(reviews[r].retries) : Updated(r, rv(k)) \in ReviewLedger
    BY <2>1, <2>2, <2>3, ChangedType
  <2> HIDE DEF rv
  <2> QED
    BY <1>10, <2>4 DEF TypeOK, ApproveMarksStuck, rv, PersistReview, PersistThenRefund,
       ReviewSaved, ReviewNotSaved
<1>11. ASSUME NEW r \in Requests, RetryMarksStuck(r)
      PROVE  TypeOK'
  <2> DEFINE rv(k) == [reviews[r] EXCEPT !.retries = k]
  <2>1. reviews[r] \in Review /\ reviews[r].status \notin {"none", "purged"}
    BY <1>11 DEF TypeOK, ReviewLedger, RetryMarksStuck, MarkStuck
  <2>2. Counted(reviews[r].retries) \subseteq 0..MaxApproveRetry
    BY <2>1, ConstantsOK DEF Counted, Review
  <2>3. \A k \in 0..MaxApproveRetry :
          rv(k) \in Review /\ rv(k).user = reviews[r].user /\ rv(k).content = reviews[r].content
    BY <2>1 DEF Review
  <2>4. \A k \in Counted(reviews[r].retries) : Updated(r, rv(k)) \in ReviewLedger
    BY <2>1, <2>2, <2>3, ChangedType
  <2> HIDE DEF rv
  <2> QED
    BY <1>11, <2>4 DEF TypeOK, RetryMarksStuck, rv, PersistReview, PersistThenRefund,
       ReviewSaved, ReviewNotSaved
<1>12. ASSUME NEW r \in Requests, ApproveReturns(r)
      PROVE  TypeOK'
  BY <1>12 DEF TypeOK, ApproveReturns
<1>13. ASSUME NEW r \in Requests, BeginResubmit(r)
      PROVE  TypeOK'
  BY <1>13 DEF TypeOK, BeginResubmit
<1>14. ASSUME NEW r \in Requests, FailExhaustedStuckRequest(r)
      PROVE  TypeOK'
  <2> DEFINE rv == [reviews[r] EXCEPT !.status = "failed", !.pending = @ \/ ~reviews[r].restored]
  <2>1. reviews[r] \in Review /\ reviews[r].status \notin {"none", "purged"}
    BY <1>14 DEF TypeOK, ReviewLedger, FailExhaustedStuckRequest, RecoveryCandidate, Unlinked
  <2>2. rv \in Review /\ rv.user = reviews[r].user /\ rv.content = reviews[r].content
    BY <2>1 DEF TypeOK, Review, Statuses, Reasons, Links
  <2>3. Updated(r, rv) \in ReviewLedger
    BY <2>1, <2>2, ChangedType
  <2> HIDE DEF rv
  <2> QED
    BY <1>14, <2>3 DEF TypeOK, FailExhaustedStuckRequest, RecoveryCandidate, Unlinked, rv, PersistReview, PersistThenRefund,
       ReviewSaved, ReviewNotSaved
<1>15. ASSUME NEW r \in Requests, Reject(r)
      PROVE  TypeOK'
  <2> DEFINE rv == [reviews[r] EXCEPT !.status = "rejected", !.reviewed = day,
                                      !.reason = "admin", !.pending = ~reviews[r].restored]
  <2>1. reviews[r] \in Review /\ reviews[r].status \notin {"none", "purged"}
    BY <1>15 DEF TypeOK, ReviewLedger, Reject, EndPending
  <2>2. rv \in Review /\ rv.user = reviews[r].user /\ rv.content = reviews[r].content
    BY <2>1 DEF TypeOK, Review, Statuses, Reasons, Links
  <2>3. Updated(r, rv) \in ReviewLedger
    BY <2>1, <2>2, ChangedType
  <2> HIDE DEF rv
  <2> QED
    BY <1>15, <2>3 DEF TypeOK, Reject, EndPending, rv, PersistReview, PersistThenRefund,
       ReviewSaved, ReviewNotSaved
<1>16. ASSUME NEW r \in Requests, CancelByUser(r)
      PROVE  TypeOK'
  <2> DEFINE rv == [reviews[r] EXCEPT !.status = "cancelled", !.reviewed = day,
                                      !.reason = "user", !.pending = ~reviews[r].restored]
  <2>1. reviews[r] \in Review /\ reviews[r].status \notin {"none", "purged"}
    BY <1>16 DEF TypeOK, ReviewLedger, CancelByUser, EndPending
  <2>2. rv \in Review /\ rv.user = reviews[r].user /\ rv.content = reviews[r].content
    BY <2>1 DEF TypeOK, Review, Statuses, Reasons, Links
  <2>3. Updated(r, rv) \in ReviewLedger
    BY <2>1, <2>2, ChangedType
  <2> HIDE DEF rv
  <2> QED
    BY <1>16, <2>3 DEF TypeOK, CancelByUser, EndPending, rv, PersistReview, PersistThenRefund,
       ReviewSaved, ReviewNotSaved
<1>17. ASSUME NEW r \in Requests, SubscriptionPolled(r)
      PROVE  TypeOK'
  <2> DEFINE rv == [reviews[r] EXCEPT !.link = IF @ = "live" THEN "ended" ELSE "live"]
  <2>1. reviews[r] \in Review
    BY DEF TypeOK, ReviewLedger
  <2>2. rv \in Review /\ rv.user = reviews[r].user /\ rv.content = reviews[r].content
        /\ rv.status = reviews[r].status
    BY <2>1 DEF Review, Links
  <2>3. Updated(r, rv) \in ReviewLedger
    BY <2>2, UpdatedType DEF TypeOK, ReviewLedger
  <2> HIDE DEF rv
  <2> QED
    BY <1>17, <2>3 DEF TypeOK, SubscriptionPolled, rv, PersistReview, ReviewSaved, ReviewNotSaved
<1>18. ASSUME NEW r \in Requests, NEW by \in {"handler", "boot"}, BeginRefund(r, by)
      PROVE  TypeOK'
  <2>1. CASE reviews[r].status \notin {"none", "purged"}
    <3>1. Uncharge(quota, reviews[r].user, reviews[r].content) \in Quota
      BY <2>1, UnchargeType DEF TypeOK, ReviewLedger
    <3>2. Refunded(quota, r) \in Quota
      BY <3>1 DEF Refunded, Quota, TypeOK
    <3>3. quota' \in Quota /\ quotaDisk' \in Quota
      BY <1>18, <3>2 DEF TypeOK, BeginRefund, QuotaSaved, QuotaNotSaved
    <3> QED
      BY <1>18, <3>3 DEF TypeOK, BeginRefund, EndCall
  <2>2. CASE reviews[r].status \in {"none", "purged"}
    BY <1>18, <2>2 DEF TypeOK, BeginRefund, EndCall
  <2> QED
    BY <2>1, <2>2
<1>19. CASE SkipResubmit
  BY <1>19 DEF TypeOK, SkipResubmit
<1>20. CASE FinishRefund
  <2> DEFINE r  == refund.req
             rv == [reviews[r] EXCEPT !.restored = TRUE, !.pending = FALSE]
  <2>1. r \in Requests /\ reviews[r] \in Review
    BY <1>20 DEF TypeOK, FinishRefund, ReviewLedger
  <2>2. rv \in Review /\ rv.user = reviews[r].user /\ rv.content = reviews[r].content
        /\ rv.status = reviews[r].status
    BY <2>1 DEF Review
  <2>3. Updated(r, rv) \in ReviewLedger
    BY <2>1, <2>2, UpdatedType DEF TypeOK, ReviewLedger
  <2>4. refundCalls' \subseteq Requests /\ bootQueue' \subseteq Requests
        /\ boot' \in {"retrying", "repaired", "failed"}
    BY <1>20 DEF TypeOK, FinishRefund, EndCall
  <2>5. reviews' \in ReviewLedger /\ reviewsDisk' \in ReviewLedger
    BY <1>20, <2>3 DEF TypeOK, FinishRefund, ReviewSaved, ReviewNotSaved
  <2> QED
    BY <1>20, <2>4, <2>5 DEF TypeOK, FinishRefund, NoRefund
<1>21. CASE Cleanup
  <2> DEFINE new == [r \in Requests |-> IF Expired(r) THEN Absent("purged") ELSE reviews[r]]
  <2>1. new \in ReviewLedger
    BY AbsentType DEF TypeOK, ReviewLedger, Statuses
  <2> HIDE DEF new
  <2> QED
    BY <1>21, <2>1 DEF TypeOK, Cleanup, new, PersistReview, ReviewSaved, ReviewNotSaved
<1>22. CASE Restart
  <2>1. \A u \in Users : ResetFor(quotaDisk, u) \in Quota
    BY ResetForType DEF TypeOK
  <2>2. \A u \in Users : ResetFor(quotaDisk, u).used[u] \in [MediaTypes -> Nat]
    BY <2>1 DEF Quota
  <2>3. quota' \in Quota
    BY <1>22, <2>2 DEF TypeOK, Restart, Quota
  <2> QED
    BY <1>22, <2>3 DEF TypeOK, Restart, Idle, NoRefund, Submissions
<1>23. CASE NextDay
  BY <1>23 DEF TypeOK, NextDay
<1>24. CASE UNCHANGED vars
  BY <1>24 DEF TypeOK, vars
<1> QED
  BY <1>1, <1>2, <1>3, <1>4, <1>5, <1>6, <1>7, <1>8, <1>9, <1>10, <1>11, <1>12,
     <1>13, <1>14, <1>15, <1>16, <1>17, <1>18, <1>19, <1>20, <1>21, <1>22,
     <1>23, <1>24 DEF Next

\* Every variable keeps its type.
THEOREM TypeCorrect == Spec => []TypeOK
  BY InitType, TypeStep, PTL DEF Spec

-----------------------------------------------------------------------------
(***************************************************************************)
(* The safety invariants.                                                  *)
(***************************************************************************)
LEMMA InitLedgerInv == Init => LedgerInv
  BY DEF Init, LedgerInv, WriteThrough, SameRequest, SubmitterAlone, RefundUnderWay,
     NoDuplicateActive, RefundLedgerFirst, RefundIntentDurable, Absent,
     Active, Closed, Idle, NoRefund

\* A step that leaves the reviews, the refunded requests, the submission and
\* the lock of the refund alone keeps the invariant.
LEMMA QuietStep ==
    ASSUME LedgerInv, UNCHANGED <<reviewVars, submission, refund>>,
           quota'.restored = quota.restored, quotaDisk'.restored = quotaDisk.restored
    PROVE  LedgerInv'
  BY DEF reviewVars, LedgerInv, WriteThrough, SameRequest, SubmitterAlone, RefundUnderWay,
     NoDuplicateActive, RefundLedgerFirst, RefundIntentDurable,
     HasActiveSimilarContent

\* So does a write that replaces the record of one request by one that asks
\* for the same content, is active only if the old one was, is marked as
\* refunded only if the ledger has the refund, and, when it is closed, owes
\* the refund or has it.
LEMMA ChangeStep ==
    ASSUME TypeOK, LedgerInv,
           NEW r \in Requests, NEW rv,
           PersistReview(Updated(r, rv)),
           UNCHANGED <<quotaVars, submission>>,
           refund' = refund \/ refund'.req = None,
           rv.content = reviews[r].content,
           rv.status \in Active => reviews[r].status \in Active,
           rv.restored => reviews[r].restored \/ r \in quotaDisk.restored,
           rv.status \in Closed /\ rv.reason # "preflight" => rv.restored \/ rv.pending
    PROVE  LedgerInv'
<1> USE DEF LedgerInv
<1>1. UNCHANGED reviewVars \/ (reviews' = Updated(r, rv) /\ reviewsDisk' = Updated(r, rv))
  BY DEF PersistReview, ReviewSaved, ReviewNotSaved
<1>2. \A s \in Requests : Updated(r, rv)[s] = IF s = r THEN rv ELSE reviews[s]
  BY DEF Updated, TypeOK, ReviewLedger
<1>3. CASE UNCHANGED reviewVars
  BY <1>3 DEF reviewVars, quotaVars, WriteThrough, SameRequest, SubmitterAlone, RefundUnderWay,
     NoDuplicateActive, RefundLedgerFirst, RefundIntentDurable, HasActiveSimilarContent
<1>4. CASE reviews' = Updated(r, rv) /\ reviewsDisk' = Updated(r, rv)
  <2>1. WriteThrough' /\ RefundUnderWay'
    BY <1>4 DEF WriteThrough, SameRequest, RefundUnderWay, quotaVars
  <2>2. \A s \in Requests : /\ reviews'[s].content = reviews[s].content
                            /\ reviews'[s].status \in Active => reviews[s].status \in Active
    BY <1>2, <1>4
  <2>3. SubmitterAlone'
    BY <2>2 DEF SubmitterAlone, HasActiveSimilarContent
  <2>4. NoDuplicateActive'
    BY <2>2 DEF NoDuplicateActive
  <2>5. RefundLedgerFirst'
    BY <1>2, <1>4 DEF RefundLedgerFirst, WriteThrough, SameRequest, quotaVars
  <2>6. RefundIntentDurable'
    BY <1>2, <1>4 DEF RefundIntentDurable, WriteThrough, SameRequest
  <2> QED
    BY <2>1, <2>3, <2>4, <2>5, <2>6
<1> QED
  BY <1>1, <1>3, <1>4

\* Every action keeps what LedgerInv says of the two ledgers.
LEMMA LedgerStep == TypeOK /\ LedgerInv /\ [Next]_vars => LedgerInv'
<1> SUFFICES ASSUME TypeOK, LedgerInv, [Next]_vars PROVE LedgerInv'
  OBVIOUS
<1> USE DEF quotaVars, bootVars, flowVars, PersistThenRefund, PersistReview
<1>1. ASSUME NEW u \in Users, NEW c \in Contents, BeginSubmit(u, c)
      PROVE  LedgerInv'
  <2>1. SubmitterAlone'
    BY <1>1 DEF BeginSubmit, SubmitterAlone, HasActiveSimilarContent, reviewVars
  <2> QED
    BY <1>1, <2>1 DEF BeginSubmit, reviewVars, LedgerInv, WriteThrough, SameRequest, RefundUnderWay,
       NoDuplicateActive, RefundLedgerFirst, RefundIntentDurable
<1>2. CASE UseQuota
  <2>1. /\ UNCHANGED <<reviewVars, refund>>
        /\ submission'.pc # "idle" => submission.pc # "idle" /\ submission'.content = submission.content
    <3>1. /\ UNCHANGED <<reviewVars, refund>>
          /\ submission.pc = "checked"
          /\ \/ submission' = Idle
             \/ submission' = [submission EXCEPT !.pc = "charged", !.charged = day]
      BY <1>2 DEF UseQuota
    <3>2. CASE submission' = Idle
      BY <3>1, <3>2 DEF Idle
    <3>3. CASE submission' = [submission EXCEPT !.pc = "charged", !.charged = day]
      <4>1. submission'.content = submission.content
        BY <3>3 DEF TypeOK, Submissions
      <4> QED
        BY <3>1, <4>1
    <3> QED
      BY <3>1, <3>2, <3>3
  <2>2. quota'.restored = quota.restored /\ quotaDisk'.restored = quotaDisk.restored
    <3>1. submission.user \in Users /\ submission.content \in Contents
      BY <1>2 DEF TypeOK, UseQuota, Submissions
    <3> QED
      BY <1>2, <3>1, ResetForType, ChargeType
      DEF UseQuota, QuotaSaved, QuotaNotSaved, TypeOK, LedgerInv, WriteThrough, SameRequest
  <2> QED
    BY <2>1, <2>2 DEF reviewVars, LedgerInv, WriteThrough, SameRequest, SubmitterAlone, RefundUnderWay,
       NoDuplicateActive, RefundLedgerFirst, RefundIntentDurable, HasActiveSimilarContent
<1>3. CASE RestoreQuota
  <2>1. UNCHANGED <<reviewVars, refund>> /\ submission'.pc = "idle"
    BY <1>3 DEF RestoreQuota, Idle
  <2>2. quota'.restored = quota.restored /\ quotaDisk'.restored = quotaDisk.restored
    BY <1>3, UnchargeType
    DEF RestoreQuota, QuotaSaved, QuotaNotSaved, TypeOK, Submissions, LedgerInv, WriteThrough, SameRequest
  <2> QED
    BY <2>1, <2>2 DEF reviewVars, LedgerInv, WriteThrough, SameRequest, SubmitterAlone, RefundUnderWay,
       NoDuplicateActive, RefundLedgerFirst, RefundIntentDurable, HasActiveSimilarContent
<1>4. ASSUME NEW u \in Users, GetQuotaInfo(u)
      PROVE  LedgerInv'
  BY <1>4, ResetForType, QuietStep DEF GetQuotaInfo, TypeOK
<1>5. ASSUME NEW r \in Requests, CreateRequest(r)
      PROVE  LedgerInv'
  <2> DEFINE rv == [Absent("pending") EXCEPT !.user    = submission.user,
                                             !.content = submission.content,
                                             !.charged = submission.charged,
                                             !.created = day]
  <2>1. rv.status = "pending" /\ rv.content = submission.content /\ ~rv.restored
    BY DEF Absent
  <2>2. \A s \in Requests : Updated(r, rv)[s] = IF s = r THEN rv ELSE reviews[s]
    BY DEF Updated, TypeOK, ReviewLedger
  <2>3. ~HasActiveSimilarContent(submission.content)
    BY <1>5 DEF CreateRequest, LedgerInv, SubmitterAlone
  <2> HIDE DEF rv
  <2>4. CASE reviews' = Updated(r, rv) /\ reviewsDisk' = Updated(r, rv) /\ submission' = Idle
    <3>1. NoDuplicateActive'
      BY <2>1, <2>2, <2>3, <2>4 DEF LedgerInv, NoDuplicateActive, HasActiveSimilarContent
    <3>2. RefundLedgerFirst' /\ RefundIntentDurable'
      BY <1>5, <2>1, <2>2, <2>4
      DEF CreateRequest, LedgerInv, WriteThrough, SameRequest, RefundLedgerFirst, RefundIntentDurable, Closed
    <3> QED
      BY <1>5, <2>4, <3>1, <3>2
      DEF CreateRequest, LedgerInv, WriteThrough, SameRequest, SubmitterAlone, RefundUnderWay, Idle
  <2>5. CASE UNCHANGED reviewVars /\ submission' = [submission EXCEPT !.pc = "createFailed"]
    <3>1. submission.pc # "idle" /\ submission'.content = submission.content
      BY <1>5, <2>5 DEF CreateRequest, TypeOK, Submissions
    <3> QED
      BY <1>5, <2>5, <3>1 DEF CreateRequest, reviewVars, LedgerInv, WriteThrough, SameRequest,
         SubmitterAlone, RefundUnderWay, NoDuplicateActive, RefundLedgerFirst,
         RefundIntentDurable, HasActiveSimilarContent
  <2> QED
    BY <1>5, <2>4, <2>5 DEF CreateRequest, rv, ReviewSaved, ReviewNotSaved
<1>6. ASSUME NEW r \in Requests, Approve(r)
      PROVE  LedgerInv'
  <2> DEFINE rv == [reviews[r] EXCEPT !.status = "approved", !.reviewed = day]
  <2>1. reviews[r] \in Review /\ (reviews[r].status = "pending")
    BY <1>6 DEF Approve, TypeOK, ReviewLedger
  <2>2. /\ rv.content = reviews[r].content
        /\ rv.status \in Active => reviews[r].status \in Active
        /\ rv.restored => reviews[r].restored
        /\ rv.status \in Closed /\ rv.reason # "preflight" => rv.restored \/ rv.pending
    BY <2>1 DEF Review, Active, Closed, LedgerInv, RefundIntentDurable, WriteThrough, SameRequest
  <2>3. /\ PersistReview(Updated(r, rv))
        /\ UNCHANGED <<quotaVars, submission, refund>>
    BY <1>6 DEF Approve
  <2> HIDE DEF rv
  <2> QED
    BY <2>2, <2>3, ChangeStep
<1>7. ASSUME NEW r \in Requests, RequeueApprovedPreflightFailure(r)
      PROVE  LedgerInv'
  <2> DEFINE rv == [reviews[r] EXCEPT !.status = "pending", !.reviewed = 0, !.reason = "none"]
  <2>1. reviews[r] \in Review /\ (reviews[r].status = "approved")
    BY <1>7 DEF RequeueApprovedPreflightFailure, Unlinked, TypeOK, ReviewLedger
  <2>2. /\ rv.content = reviews[r].content
        /\ rv.status \in Active => reviews[r].status \in Active
        /\ rv.restored => reviews[r].restored
        /\ rv.status \in Closed /\ rv.reason # "preflight" => rv.restored \/ rv.pending
    BY <2>1 DEF Review, Active, Closed, LedgerInv, RefundIntentDurable, WriteThrough, SameRequest
  <2>3. /\ PersistReview(Updated(r, rv))
        /\ UNCHANGED <<quotaVars, submission, refund>>
    BY <1>7 DEF RequeueApprovedPreflightFailure, Unlinked
  <2> HIDE DEF rv
  <2> QED
    BY <2>2, <2>3, ChangeStep
<1>8. ASSUME NEW r \in Requests, RejectApprovedPreflight(r)
      PROVE  LedgerInv'
  <2> DEFINE rv == [reviews[r] EXCEPT !.status = "rejected", !.reviewed = day, !.reason = "preflight"]
  <2>1. reviews[r] \in Review /\ (reviews[r].status = "approved")
    BY <1>8 DEF RejectApprovedPreflight, Unlinked, TypeOK, ReviewLedger
  <2>2. /\ rv.content = reviews[r].content
        /\ rv.status \in Active => reviews[r].status \in Active
        /\ rv.restored => reviews[r].restored
        /\ rv.status \in Closed /\ rv.reason # "preflight" => rv.restored \/ rv.pending
    BY <2>1 DEF Review, Active, Closed, LedgerInv, RefundIntentDurable, WriteThrough, SameRequest
  <2>3. /\ PersistReview(Updated(r, rv))
        /\ UNCHANGED <<quotaVars, submission, refund>>
    BY <1>8 DEF RejectApprovedPreflight, Unlinked
  <2> HIDE DEF rv
  <2> QED
    BY <2>2, <2>3, ChangeStep
<1>9. ASSUME NEW r \in Requests, LinkSubscription(r)
      PROVE  LedgerInv'
  <2> DEFINE rv == [reviews[r] EXCEPT !.link = "live"]
  <2>1. reviews[r] \in Review /\ (TRUE)
    BY <1>9 DEF LinkSubscription, TypeOK, ReviewLedger
  <2>2. /\ rv.content = reviews[r].content
        /\ rv.status \in Active => reviews[r].status \in Active
        /\ rv.restored => reviews[r].restored
        /\ rv.status \in Closed /\ rv.reason # "preflight" => rv.restored \/ rv.pending
    BY <2>1 DEF Review, Active, Closed, LedgerInv, RefundIntentDurable, WriteThrough, SameRequest
  <2>3. /\ PersistReview(Updated(r, rv))
        /\ UNCHANGED <<quotaVars, submission, refund>>
    BY <1>9 DEF LinkSubscription
  <2> HIDE DEF rv
  <2> QED
    BY <2>2, <2>3, ChangeStep
<1>10. ASSUME NEW r \in Requests, ApproveMarksStuck(r)
      PROVE  LedgerInv'
  <2> DEFINE rv(k) == [reviews[r] EXCEPT !.retries = k]
  <2>1. PICK k \in Counted(reviews[r].retries) :
          PersistReview(Updated(r, rv(k))) /\ UNCHANGED <<quotaVars, submission, refund>>
    BY <1>10 DEF ApproveMarksStuck
  <2>2. reviews[r] \in Review
    BY DEF TypeOK, ReviewLedger
  <2>3. /\ rv(k).content = reviews[r].content
        /\ rv(k).status \in Active => reviews[r].status \in Active
        /\ rv(k).restored => reviews[r].restored
        /\ rv(k).status \in Closed /\ rv(k).reason # "preflight" => rv(k).restored \/ rv(k).pending
    BY <2>2 DEF Review, LedgerInv, RefundIntentDurable, WriteThrough, SameRequest
  <2> HIDE DEF rv
  <2> QED
    BY <2>1, <2>3, ChangeStep
<1>11. ASSUME NEW r \in Requests, RetryMarksStuck(r)
      PROVE  LedgerInv'
  <2> DEFINE rv(k) == [reviews[r] EXCEPT !.retries = k]
  <2>1. PICK k \in Counted(reviews[r].retries) :
          PersistReview(Updated(r, rv(k))) /\ UNCHANGED <<quotaVars, submission, refund>>
    BY <1>11 DEF RetryMarksStuck
  <2>2. reviews[r] \in Review
    BY DEF TypeOK, ReviewLedger
  <2>3. /\ rv(k).content = reviews[r].content
        /\ rv(k).status \in Active => reviews[r].status \in Active
        /\ rv(k).restored => reviews[r].restored
        /\ rv(k).status \in Closed /\ rv(k).reason # "preflight" => rv(k).restored \/ rv(k).pending
    BY <2>2 DEF Review, LedgerInv, RefundIntentDurable, WriteThrough, SameRequest
  <2> HIDE DEF rv
  <2> QED
    BY <2>1, <2>3, ChangeStep
<1>12. ASSUME NEW r \in Requests, ApproveReturns(r)
      PROVE  LedgerInv'
  BY <1>12, QuietStep DEF ApproveReturns
<1>13. ASSUME NEW r \in Requests, BeginResubmit(r)
      PROVE  LedgerInv'
  BY <1>13, QuietStep DEF BeginResubmit
<1>14. ASSUME NEW r \in Requests, FailExhaustedStuckRequest(r)
      PROVE  LedgerInv'
  <2> DEFINE rv == [reviews[r] EXCEPT !.status = "failed", !.pending = @ \/ ~reviews[r].restored]
  <2>1. reviews[r] \in Review /\ (reviews[r].status = "approved")
    BY <1>14 DEF FailExhaustedStuckRequest, RecoveryCandidate, Unlinked, TypeOK, ReviewLedger
  <2>2. /\ rv.content = reviews[r].content
        /\ rv.status \in Active => reviews[r].status \in Active
        /\ rv.restored => reviews[r].restored
        /\ rv.status \in Closed /\ rv.reason # "preflight" => rv.restored \/ rv.pending
    BY <2>1 DEF Review, Active, Closed, LedgerInv, RefundIntentDurable, WriteThrough, SameRequest
  <2>3. /\ PersistReview(Updated(r, rv))
        /\ UNCHANGED <<quotaVars, submission, refund>>
    BY <1>14 DEF FailExhaustedStuckRequest, RecoveryCandidate, Unlinked
  <2> HIDE DEF rv
  <2> QED
    BY <2>2, <2>3, ChangeStep
<1>15. ASSUME NEW r \in Requests, Reject(r)
      PROVE  LedgerInv'
  <2> DEFINE rv == [reviews[r] EXCEPT !.status = "rejected", !.reviewed = day,
                                      !.reason = "admin", !.pending = ~reviews[r].restored]
  <2>1. reviews[r] \in Review /\ (reviews[r].status = "pending")
    BY <1>15 DEF Reject, EndPending, TypeOK, ReviewLedger
  <2>2. /\ rv.content = reviews[r].content
        /\ rv.status \in Active => reviews[r].status \in Active
        /\ rv.restored => reviews[r].restored
        /\ rv.status \in Closed /\ rv.reason # "preflight" => rv.restored \/ rv.pending
    BY <2>1 DEF Review, Active, Closed, LedgerInv, RefundIntentDurable, WriteThrough, SameRequest
  <2>3. /\ PersistReview(Updated(r, rv))
        /\ UNCHANGED <<quotaVars, submission, refund>>
    BY <1>15 DEF Reject, EndPending
  <2> HIDE DEF rv
  <2> QED
    BY <2>2, <2>3, ChangeStep
<1>16. ASSUME NEW r \in Requests, CancelByUser(r)
      PROVE  LedgerInv'
  <2> DEFINE rv == [reviews[r] EXCEPT !.status = "cancelled", !.reviewed = day,
                                      !.reason = "user", !.pending = ~reviews[r].restored]
  <2>1. reviews[r] \in Review /\ (reviews[r].status = "pending")
    BY <1>16 DEF CancelByUser, EndPending, TypeOK, ReviewLedger
  <2>2. /\ rv.content = reviews[r].content
        /\ rv.status \in Active => reviews[r].status \in Active
        /\ rv.restored => reviews[r].restored
        /\ rv.status \in Closed /\ rv.reason # "preflight" => rv.restored \/ rv.pending
    BY <2>1 DEF Review, Active, Closed, LedgerInv, RefundIntentDurable, WriteThrough, SameRequest
  <2>3. /\ PersistReview(Updated(r, rv))
        /\ UNCHANGED <<quotaVars, submission, refund>>
    BY <1>16 DEF CancelByUser, EndPending
  <2> HIDE DEF rv
  <2> QED
    BY <2>2, <2>3, ChangeStep
<1>17. ASSUME NEW r \in Requests, SubscriptionPolled(r)
      PROVE  LedgerInv'
  <2> DEFINE rv == [reviews[r] EXCEPT !.link = IF @ = "live" THEN "ended" ELSE "live"]
  <2>1. reviews[r] \in Review
    BY DEF TypeOK, ReviewLedger
  <2>2. SameRequest(rv, reviews[r])
    BY <2>1 DEF Review, SameRequest
  <2>3. UNCHANGED <<quotaVars, submission, refund>>
    BY <1>17 DEF SubscriptionPolled
  <2>4. \/ PersistReview(Updated(r, rv))
        \/ reviews' = Updated(r, rv) /\ UNCHANGED reviewsDisk
    BY <1>17 DEF SubscriptionPolled
  <2> HIDE DEF rv
  <2>5. rv.status \in Closed /\ rv.reason # "preflight" => rv.restored \/ rv.pending
    BY <2>2 DEF LedgerInv, RefundIntentDurable, WriteThrough, SameRequest
  <2>6. CASE PersistReview(Updated(r, rv))
    BY <2>2, <2>3, <2>5, <2>6, ChangeStep DEF SameRequest
  <2>7. CASE reviews' = Updated(r, rv) /\ UNCHANGED reviewsDisk
    <3>1. \A s \in Requests : SameRequest(reviews'[s], reviews[s])
      BY <2>2, <2>7 DEF Updated, TypeOK, ReviewLedger, SameRequest
    <3>2. WriteThrough' /\ RefundUnderWay'
      BY <2>3, <2>7, <3>1 DEF LedgerInv, WriteThrough, SameRequest, RefundUnderWay
    <3>3. SubmitterAlone' /\ NoDuplicateActive'
      BY <2>3, <3>1
      DEF LedgerInv, SubmitterAlone, NoDuplicateActive, SameRequest, HasActiveSimilarContent
    <3>4. RefundLedgerFirst' /\ RefundIntentDurable'
      BY <2>3, <2>7, <3>1
      DEF LedgerInv, RefundLedgerFirst, RefundIntentDurable, SameRequest
    <3> QED
      BY <3>2, <3>3, <3>4 DEF LedgerInv
  <2> QED
    BY <2>4, <2>6, <2>7
<1>18. ASSUME NEW r \in Requests, NEW by \in {"handler", "boot"}, BeginRefund(r, by)
      PROVE  LedgerInv'
  <2>1. UNCHANGED <<reviewVars, submission>>
    BY <1>18 DEF BeginRefund
  <2>2. CASE UNCHANGED <<quotaVars, refund>>
    BY <2>1, <2>2, QuietStep
  <2>3. CASE refund'.req = r /\ UNCHANGED quotaVars /\ r \in quota.restored
    BY <2>1, <2>3 DEF reviewVars, LedgerInv, WriteThrough, SameRequest, SubmitterAlone, RefundUnderWay,
       NoDuplicateActive, RefundLedgerFirst, RefundIntentDurable, HasActiveSimilarContent
  <2>4. CASE /\ refund'.req = r /\ QuotaSaved(Refunded(quota, r))
             /\ reviews[r].status \notin {"none", "purged"}
    <3>1. Uncharge(quota, reviews[r].user, reviews[r].content) \in Quota
          /\ Uncharge(quota, reviews[r].user, reviews[r].content).restored = quota.restored
      BY <2>4, UnchargeType DEF TypeOK, ReviewLedger
    <3>2. Refunded(quota, r).restored = quota.restored \cup {r}
      BY <3>1 DEF Refunded, Quota, TypeOK
    <3>3. /\ quota'.restored = quota.restored \cup {r}
          /\ quotaDisk'.restored = quotaDisk.restored \cup {r}
      BY <2>4, <3>2 DEF QuotaSaved, LedgerInv, WriteThrough, SameRequest
    <3>4. UNCHANGED <<reviews, reviewsDisk, submission>> /\ refund'.req = r
      BY <2>1, <2>4 DEF reviewVars
    <3>5. WriteThrough' /\ RefundUnderWay'
      BY <3>3, <3>4 DEF LedgerInv, WriteThrough, SameRequest, RefundUnderWay
    <3>6. SubmitterAlone' /\ NoDuplicateActive' /\ RefundIntentDurable'
      BY <3>4 DEF LedgerInv, SubmitterAlone, NoDuplicateActive, RefundIntentDurable,
         HasActiveSimilarContent
    <3>7. RefundLedgerFirst'
      BY <3>3, <3>4 DEF LedgerInv, RefundLedgerFirst
    <3> QED
      BY <3>5, <3>6, <3>7 DEF LedgerInv
  <2>5. \/ UNCHANGED <<quotaVars, refund>>
        \/ refund' = [req |-> r, by |-> by] /\ UNCHANGED quotaVars /\ r \in quota.restored
        \/ /\ refund' = [req |-> r, by |-> by] /\ QuotaSaved(Refunded(quota, r))
           /\ reviews[r].status \notin {"none", "purged"}
    BY <1>18, Zenon DEF BeginRefund, QuotaNotSaved
  <2>6. refund' = [req |-> r, by |-> by] => refund'.req = r
    OBVIOUS
  <2> QED
    BY <2>2, <2>3, <2>4, <2>5, <2>6
<1>19. CASE SkipResubmit
  BY <1>19, QuietStep DEF SkipResubmit
<1>20. CASE FinishRefund
  <2> DEFINE r  == refund.req
             rv == [reviews[r] EXCEPT !.restored = TRUE, !.pending = FALSE]
  <2>1. r \in Requests /\ reviews[r] \in Review /\ r \in quotaDisk.restored
    BY <1>20 DEF TypeOK, FinishRefund, ReviewLedger, LedgerInv, RefundUnderWay
  <2>2. /\ rv.content = reviews[r].content
        /\ rv.status \in Active => reviews[r].status \in Active
        /\ rv.restored
    BY <2>1 DEF Review
  <2>3. /\ PersistReview(Updated(r, rv))
        /\ UNCHANGED <<quotaVars, submission>>
        /\ refund'.req = None
    BY <1>20 DEF FinishRefund, NoRefund
  <2> HIDE DEF rv
  <2> QED
    BY <2>1, <2>2, <2>3, ChangeStep
<1>21. CASE Cleanup
  <2> DEFINE new == [r \in Requests |-> IF Expired(r) THEN Absent("purged") ELSE reviews[r]]
  <2>1. UNCHANGED <<quotaVars, submission, refund>>
    BY <1>21 DEF Cleanup
  <2>2. \A r \in Requests : \/ new[r] = reviews[r]
                            \/ new[r].status = "purged" /\ ~new[r].restored
    BY DEF Absent
  <2>3. CASE UNCHANGED reviewVars
    BY <2>1, <2>3, QuietStep
  <2>4. CASE reviews' = new /\ reviewsDisk' = new
    <3> HIDE DEF new
    <3>1. \A r \in Requests : reviews'[r].status \in Active =>
             reviews[r].status \in Active /\ reviews'[r].content = reviews[r].content
      BY <2>2, <2>4 DEF Active
    <3>2. NoDuplicateActive' /\ SubmitterAlone'
      BY <2>1, <3>1 DEF LedgerInv, NoDuplicateActive, SubmitterAlone, HasActiveSimilarContent
    <3>3. RefundLedgerFirst' /\ RefundIntentDurable'
      BY <2>1, <2>2, <2>4
      DEF LedgerInv, WriteThrough, SameRequest, RefundLedgerFirst, RefundIntentDurable, Closed
    <3> QED
      BY <2>1, <2>4, <3>2, <3>3 DEF LedgerInv, WriteThrough, SameRequest, RefundUnderWay
  <2> QED
    BY <1>21, <2>3, <2>4 DEF Cleanup, ReviewSaved, ReviewNotSaved
<1>22. CASE Restart
  <2>1. /\ reviews' = reviewsDisk /\ UNCHANGED <<reviewsDisk, quotaDisk>>
        /\ submission' = Idle /\ refund' = NoRefund
    BY <1>22 DEF Restart
  <2>2. quota'.restored = quotaDisk.restored
    BY <1>22 DEF Restart, TypeOK, Quota
  <2>3. WriteThrough' /\ RefundUnderWay' /\ SubmitterAlone'
    BY <2>1, <2>2
    DEF WriteThrough, SameRequest, RefundUnderWay, SubmitterAlone, Idle, NoRefund
  <2>4. NoDuplicateActive' /\ RefundLedgerFirst' /\ RefundIntentDurable'
    BY <2>1
    DEF LedgerInv, WriteThrough, SameRequest, NoDuplicateActive, RefundLedgerFirst,
        RefundIntentDurable
  <2> QED
    BY <2>3, <2>4 DEF LedgerInv
<1>23. CASE NextDay
  BY <1>23, QuietStep DEF NextDay
<1>24. CASE UNCHANGED vars
  BY <1>24, QuietStep DEF vars, reviewVars
<1> QED
  BY <1>1, <1>2, <1>3, <1>4, <1>5, <1>6, <1>7, <1>8, <1>9, <1>10, <1>11, <1>12,
     <1>13, <1>14, <1>15, <1>16, <1>17, <1>18, <1>19, <1>20, <1>21, <1>22,
     <1>23, <1>24 DEF Next

\* LedgerInv holds in every reachable state.
LEMMA LedgerInvariant == Spec => []LedgerInv
  BY InitType, TypeStep, InitLedgerInv, LedgerStep, PTL DEF Spec

\* No two active requests ask for the same content: a submission is alone with
\* its content from the duplicate check to the creation.
THEOREM NoDuplicates == Spec => []NoDuplicateActive
<1>1. LedgerInv => NoDuplicateActive
  BY DEF LedgerInv
<1> QED
  BY <1>1, LedgerInvariant, PTL

\* A review marked as refunded is in the idempotency ledger on disk.
THEOREM LedgerFirst == Spec => []RefundLedgerFirst
<1>1. LedgerInv => RefundLedgerFirst
  BY DEF LedgerInv
<1> QED
  BY <1>1, LedgerInvariant, PTL

\* A closed request has its refund or owes it on disk, unless the preflight of
\* handleApprove rejected it.
THEOREM IntentDurable == Spec => []RefundIntentDurable
<1>1. LedgerInv => RefundIntentDurable
  BY DEF LedgerInv
<1> QED
  BY <1>1, LedgerInvariant, PTL

-----------------------------------------------------------------------------
(***************************************************************************)
(* A request whose quota is given back is never subscribed.                *)
(***************************************************************************)
\* No flow takes s up in a step.
Dropped(s) ==
    /\ s \in approving' => s \in approving
    /\ s = resubmitting' => s = resubmitting
    /\ Returning(s)' => Returning(s)

\* At the start no request exists and no flow works on one.
LEMMA InitFlowInv == Init => FlowInv
  BY ConstantsOK DEF Init, FlowInv, FlowOK, Returning, Absent, NoRefund

\* What a step does not touch stays in order: the record of s is the same, the
\* disk keeps it or catches up, and no flow takes s up.
LEMMA Elsewhere ==
    ASSUME FlowInv, NEW s \in Requests, Dropped(s),
           reviews'[s] = reviews[s],
           reviewsDisk'[s] = reviewsDisk[s] \/ reviewsDisk'[s] = reviews[s]
    PROVE  FlowOK(s)'
<1> USE DEF Dropped
<1>1. FlowOK(s)
  BY DEF FlowInv
<1>2. Unlinked(s)' <=> Unlinked(s)
  BY DEF Unlinked
<1>3. GivenUp(s) => GivenUp(s)'
  BY <1>2 DEF GivenUp
<1>4. /\ reviews'[s].retries = reviewsDisk'[s].retries
      /\ reviews'[s].link = "none" <=> reviewsDisk'[s].link = "none"
  BY <1>1 DEF FlowOK
<1> QED
  BY <1>1, <1>2, <1>3, <1>4 DEF FlowOK

\* A step that writes no review, and no write that fails.
LEMMA FlowUnwritten ==
    ASSUME FlowInv, UNCHANGED reviewVars, \A s \in Requests : Dropped(s)
    PROVE  FlowInv'
  BY Elsewhere DEF FlowInv, reviewVars

\* A write that replaces one record writes the others as they are in memory.
LEMMA WriteShows ==
    ASSUME TypeOK, NEW r \in Requests, NEW rv, ReviewSaved(Updated(r, rv))
    PROVE  /\ reviews'[r] = rv /\ reviewsDisk'[r] = rv
           /\ \A s \in Requests \ {r} : /\ reviews'[s] = reviews[s]
                                        /\ reviewsDisk'[s] = reviews[s]
  BY DEF ReviewSaved, Updated, TypeOK, ReviewLedger

\* A write of one record, when no flow takes another request up.
LEMMA FlowWritten ==
    ASSUME TypeOK, FlowInv, NEW r \in Requests, NEW rv, ReviewSaved(Updated(r, rv)),
           \A s \in Requests \ {r} : Dropped(s),
           reviews'[r] = rv /\ reviewsDisk'[r] = rv => FlowOK(r)'
    PROVE  FlowInv'
<1>1. FlowOK(r)'
  BY WriteShows
<1>2. \A s \in Requests \ {r} : FlowOK(s)'
  BY WriteShows, Elsewhere
<1> QED
  BY <1>1, <1>2 DEF FlowInv

\* A request that handleApprove or retryStuckRequests works on is approved and
\* unlinked, only one of the two has it, and nobody returns its quota.
LEMMA WorkedOn ==
    ASSUME FlowInv, NEW r \in Requests, r \in approving \/ r = resubmitting
    PROVE  /\ FlowOK(r) /\ Unlinked(r) /\ ~Returning(r) /\ ~reviews[r].pending
           /\ r \in approving => r # resubmitting
<1>1. FlowOK(r) /\ Unlinked(r)
  BY DEF FlowInv, FlowOK
<1>2. ~GivenUp(r)
  BY <1>1 DEF GivenUp, Unlinked, Closed
<1> QED
  BY <1>1, <1>2 DEF FlowOK, Unlinked, Closed

\* The end of a request that nobody works on.
LEMMA FlowEnd ==
    ASSUME TypeOK, FlowInv, NEW r \in Requests, NEW rv, PersistThenRefund(Updated(r, rv), r),
           rv.status \in Closed, rv.link = "none",
           r \notin approving, r # resubmitting,
           UNCHANGED <<approving, resubmitting, bootQueue, quota, refund>>
    PROVE  FlowInv'
<1>1. CASE ReviewSaved(Updated(r, rv)) /\ refundCalls' = refundCalls \cup {r}
  <2>1. reviews'[r] = rv /\ reviewsDisk'[r] = rv => FlowOK(r)'
    BY DEF FlowOK, GivenUp
  <2> QED
    BY <1>1, <2>1, FlowWritten DEF Dropped, Returning
<1>2. CASE UNCHANGED reviewVars /\ UNCHANGED refundCalls
  BY <1>2, FlowUnwritten DEF Dropped, Returning
<1> QED
  BY <1>1, <1>2 DEF PersistThenRefund, ReviewNotSaved

\* Every action keeps the flows apart, and a given-up request given up.
LEMMA FlowStep == TypeOK /\ LedgerInv /\ FlowInv /\ [Next]_vars => FlowInv'
<1> SUFFICES ASSUME TypeOK, LedgerInv, FlowInv, [Next]_vars PROVE FlowInv'
  OBVIOUS
<1> USE DEF bootVars, flowVars
<1>1. ASSUME NEW u \in Users, NEW c \in Contents, BeginSubmit(u, c)
      PROVE  FlowInv'
  BY <1>1, FlowUnwritten DEF BeginSubmit, quotaVars, Dropped, Returning
<1>2. CASE UseQuota
  <2>1. quota'.restored = quota.restored
    <3>1. submission.user \in Users /\ submission.content \in Contents
      BY <1>2 DEF TypeOK, UseQuota, Submissions
    <3> QED
      BY <1>2, <3>1, ResetForType, ChargeType
      DEF UseQuota, QuotaSaved, QuotaNotSaved, quotaVars, TypeOK
  <2> QED
    BY <1>2, <2>1, FlowUnwritten DEF UseQuota, Dropped, Returning
<1>3. CASE RestoreQuota
  <2>1. quota'.restored = quota.restored
    BY <1>3, UnchargeType
    DEF RestoreQuota, QuotaSaved, QuotaNotSaved, quotaVars, TypeOK, Submissions
  <2> QED
    BY <1>3, <2>1, FlowUnwritten DEF RestoreQuota, Dropped, Returning
<1>4. ASSUME NEW u \in Users, GetQuotaInfo(u)
      PROVE  FlowInv'
  <2>1. quota'.restored = quota.restored
    BY <1>4, ResetForType DEF GetQuotaInfo, TypeOK
  <2> QED
    BY <1>4, <2>1, FlowUnwritten DEF GetQuotaInfo, Dropped, Returning
<1>5. ASSUME NEW r \in Requests, CreateRequest(r)
      PROVE  FlowInv'
  <2> DEFINE rv == [Absent("pending") EXCEPT !.user    = submission.user,
                                             !.content = submission.content,
                                             !.charged = submission.charged,
                                             !.created = day]
  <2>1. rv.status = "pending" /\ rv.link = "none" /\ ~rv.pending
    BY DEF Absent
  <2>2. UNCHANGED <<approving, resubmitting, refundCalls, bootQueue, quota, refund>>
    BY <1>5 DEF CreateRequest, quotaVars
  <2> HIDE DEF rv
  <2>3. \A s \in Requests : Dropped(s)
    BY <2>2 DEF Dropped, Returning
  <2>4. FlowOK(r) /\ ~Unlinked(r) /\ ~GivenUp(r)
    BY <1>5 DEF FlowInv, CreateRequest, Unlinked, GivenUp, Closed
  <2>5. reviews'[r] = rv /\ reviewsDisk'[r] = rv => FlowOK(r)'
    BY <2>1, <2>2, <2>4 DEF FlowOK, Returning
  <2> QED
    BY <1>5, <2>3, <2>5, FlowUnwritten, FlowWritten DEF CreateRequest, ReviewNotSaved, rv
<1>6. ASSUME NEW r \in Requests, Approve(r)
      PROVE  FlowInv'
  <2> DEFINE rv == [reviews[r] EXCEPT !.status = "approved", !.reviewed = day]
  <2>1. reviews[r] \in Review /\ reviews[r].status = "pending"
    BY <1>6 DEF Approve, TypeOK, ReviewLedger
  <2>2. FlowOK(r) /\ ~Unlinked(r) /\ ~GivenUp(r)
    BY <2>1 DEF FlowInv, Unlinked, GivenUp, Closed
  <2>3. rv.status = "approved" /\ rv.link = "none" /\ ~rv.pending
    BY <2>1, <2>2 DEF Review, FlowOK, Closed
  <2> HIDE DEF rv
  <2>4. UNCHANGED <<resubmitting, refundCalls, bootQueue, quota, refund>>
    BY <1>6 DEF Approve, quotaVars
  <2>5. CASE ReviewSaved(Updated(r, rv)) /\ approving' = approving \cup {r}
    <3>1. reviews'[r] = rv /\ reviewsDisk'[r] = rv => FlowOK(r)'
      BY <2>2, <2>3, <2>4 DEF FlowOK, Returning, Unlinked
    <3> QED
      BY <2>4, <2>5, <3>1, FlowWritten DEF Dropped, Returning
  <2>6. CASE UNCHANGED reviewVars /\ UNCHANGED approving
    BY <2>4, <2>6, FlowUnwritten DEF Dropped, Returning
  <2> QED
    BY <1>6, <2>5, <2>6 DEF Approve, ReviewNotSaved, rv
<1>7. ASSUME NEW r \in Requests, RequeueApprovedPreflightFailure(r)
      PROVE  FlowInv'
  <2> DEFINE rv == [reviews[r] EXCEPT !.status = "pending", !.reviewed = 0, !.reason = "none"]
  <2>1. /\ FlowOK(r) /\ Unlinked(r) /\ ~Returning(r) /\ r # resubmitting /\ ~reviews[r].pending
        /\ reviews[r] \in Review
    BY <1>7, WorkedOn DEF RequeueApprovedPreflightFailure, TypeOK, ReviewLedger
  <2>2. rv.status = "pending" /\ rv.link = "none" /\ ~rv.pending
    BY <2>1 DEF Review, Unlinked
  <2> HIDE DEF rv
  <2>3. /\ approving' = approving \ {r}
        /\ UNCHANGED <<resubmitting, refundCalls, bootQueue, quota, refund>>
    BY <1>7 DEF RequeueApprovedPreflightFailure, quotaVars
  <2>4. \A s \in Requests : Dropped(s)
    BY <2>3 DEF Dropped, Returning
  <2>5. reviews'[r] = rv /\ reviewsDisk'[r] = rv => FlowOK(r)'
    BY <2>1, <2>2, <2>3 DEF FlowOK, Returning
  <2> QED
    BY <1>7, <2>4, <2>5, FlowUnwritten, FlowWritten
    DEF RequeueApprovedPreflightFailure, PersistReview, ReviewNotSaved, rv
<1>8. ASSUME NEW r \in Requests, RejectApprovedPreflight(r)
      PROVE  FlowInv'
  <2> DEFINE rv == [reviews[r] EXCEPT !.status = "rejected", !.reviewed = day, !.reason = "preflight"]
  <2>1. /\ FlowOK(r) /\ Unlinked(r) /\ ~Returning(r) /\ r # resubmitting
        /\ reviews[r] \in Review
    BY <1>8, WorkedOn DEF RejectApprovedPreflight, TypeOK, ReviewLedger
  <2>2. rv.status = "rejected" /\ rv.link = "none"
    BY <2>1 DEF Review, Unlinked
  <2> HIDE DEF rv
  <2>3. /\ approving' = approving \ {r}
        /\ UNCHANGED <<resubmitting, bootQueue, quota, refund>>
    BY <1>8 DEF RejectApprovedPreflight, quotaVars
  <2>4. CASE ReviewSaved(Updated(r, rv)) /\ refundCalls' = refundCalls \cup {r}
    <3>1. reviews'[r] = rv /\ reviewsDisk'[r] = rv => FlowOK(r)'
      BY <2>1, <2>2, <2>3 DEF FlowOK, GivenUp, Closed
    <3> QED
      BY <2>3, <2>4, <3>1, FlowWritten DEF Dropped, Returning
  <2>5. CASE UNCHANGED reviewVars /\ UNCHANGED refundCalls
    BY <2>3, <2>5, FlowUnwritten DEF Dropped, Returning
  <2> QED
    BY <1>8, <2>4, <2>5 DEF RejectApprovedPreflight, PersistThenRefund, ReviewNotSaved, rv
<1>9. ASSUME NEW r \in Requests, LinkSubscription(r)
      PROVE  FlowInv'
  <2> DEFINE rv == [reviews[r] EXCEPT !.link = "live"]
  <2>1. /\ FlowOK(r) /\ Unlinked(r) /\ ~Returning(r) /\ ~reviews[r].pending
        /\ r \in approving => r # resubmitting
        /\ reviews[r] \in Review
    BY <1>9, WorkedOn DEF LinkSubscription, TypeOK, ReviewLedger
  <2>2. rv.status = "approved" /\ rv.link = "live" /\ ~rv.pending /\ rv.retries = reviews[r].retries
    BY <2>1 DEF Review, Unlinked
  <2> HIDE DEF rv
  <2>3. UNCHANGED <<refundCalls, bootQueue, quota, refund>>
    BY <1>9 DEF LinkSubscription, quotaVars
  <2>4. CASE /\ ReviewSaved(Updated(r, rv))
             /\ \/ r \in approving /\ approving' = approving \ {r} /\ UNCHANGED resubmitting
                \/ r = resubmitting /\ resubmitting' = None /\ UNCHANGED approving
    <3>1. r \notin approving' /\ r # resubmitting'
      BY <2>1, <2>4, ConstantsOK
    <3>2. reviews'[r] = rv /\ reviewsDisk'[r] = rv => FlowOK(r)'
      BY <2>1, <2>2, <2>3, <3>1 DEF FlowOK, Returning
    <3>3. \A s \in Requests : Dropped(s)
      BY <2>3, <2>4, ConstantsOK DEF Dropped, Returning
    <3> QED
      BY <2>4, <3>2, <3>3, FlowWritten
  <2>5. CASE UNCHANGED reviewVars /\ UNCHANGED <<approving, resubmitting>>
    BY <2>3, <2>5, FlowUnwritten DEF Dropped, Returning
  <2> QED
    BY <1>9, <2>4, <2>5 DEF LinkSubscription, ReviewNotSaved, rv
<1>10. ASSUME NEW r \in Requests, ApproveMarksStuck(r)
      PROVE  FlowInv'
  <2> DEFINE rv(k) == [reviews[r] EXCEPT !.retries = k]
  <2>1. /\ FlowOK(r) /\ Unlinked(r) /\ ~Returning(r) /\ r # resubmitting /\ ~reviews[r].pending
        /\ reviews[r] \in Review
    BY <1>10, WorkedOn DEF ApproveMarksStuck, TypeOK, ReviewLedger
  <2>2. \A k : /\ rv(k).status = "approved" /\ rv(k).link = "none"
               /\ ~rv(k).pending /\ rv(k).retries = k
    BY <2>1 DEF Review, Unlinked
  <2>3. /\ approving' = approving \ {r}
        /\ UNCHANGED <<resubmitting, bootQueue, quota, refund>>
    BY <1>10 DEF ApproveMarksStuck, quotaVars
  <2> HIDE DEF rv
  <2>4. PICK k \in Counted(reviews[r].retries) :
            \/ k = MaxApproveRetry /\ PersistThenRefund(Updated(r, rv(k)), r)
            \/ PersistReview(Updated(r, rv(k))) /\ UNCHANGED refundCalls
    BY <1>10 DEF ApproveMarksStuck, rv
  <2>5. CASE /\ ReviewSaved(Updated(r, rv(k)))
             /\ \/ k = MaxApproveRetry /\ refundCalls' = refundCalls \cup {r}
                \/ UNCHANGED refundCalls
    <3>1. ASSUME reviews'[r] = rv(k), reviewsDisk'[r] = rv(k)
          PROVE  FlowOK(r)'
      <4>1. Unlinked(r)' /\ reviews'[r].retries = k
        BY <2>2, <3>1 DEF Unlinked
      <4>2. Returning(r)' => k = MaxApproveRetry
        BY <2>1, <2>3, <2>5 DEF Returning
      <4>3. Returning(r)' => GivenUp(r)'
        BY <2>1, <2>3, <4>1, <4>2 DEF GivenUp
      <4> QED
        BY <2>1, <2>2, <2>3, <3>1, <4>3 DEF FlowOK
    <3> QED
      BY <2>3, <2>5, <3>1, FlowWritten DEF Dropped, Returning
  <2>6. CASE UNCHANGED reviewVars /\ UNCHANGED refundCalls
    BY <2>3, <2>6, FlowUnwritten DEF Dropped, Returning
  <2> QED
    BY <2>4, <2>5, <2>6 DEF PersistThenRefund, PersistReview, ReviewNotSaved
<1>11. ASSUME NEW r \in Requests, RetryMarksStuck(r)
      PROVE  FlowInv'
  <2> DEFINE rv(k) == [reviews[r] EXCEPT !.retries = k]
  <2>1. /\ FlowOK(r) /\ Unlinked(r) /\ ~Returning(r) /\ ~reviews[r].pending
        /\ r \notin approving /\ reviews[r] \in Review
    BY <1>11, WorkedOn DEF RetryMarksStuck, TypeOK, ReviewLedger
  <2>2. \A k : /\ rv(k).status = "approved" /\ rv(k).link = "none"
               /\ ~rv(k).pending /\ rv(k).retries = k
    BY <2>1 DEF Review, Unlinked
  <2>3. /\ resubmitting' = None
        /\ UNCHANGED <<approving, refundCalls, bootQueue, quota, refund>>
    BY <1>11 DEF RetryMarksStuck, quotaVars
  <2> HIDE DEF rv
  <2>4. PICK k \in Counted(reviews[r].retries) : PersistReview(Updated(r, rv(k)))
    BY <1>11 DEF RetryMarksStuck, rv
  <2>5. \A s \in Requests : Dropped(s)
    BY <2>3, ConstantsOK DEF Dropped, Returning
  <2>6. reviews'[r] = rv(k) /\ reviewsDisk'[r] = rv(k) => FlowOK(r)'
    BY <2>1, <2>2, <2>3, ConstantsOK DEF FlowOK, Returning
  <2> QED
    BY <2>4, <2>5, <2>6, FlowUnwritten, FlowWritten DEF PersistReview, ReviewNotSaved
<1>12. ASSUME NEW r \in Requests, ApproveReturns(r)
      PROVE  FlowInv'
  BY <1>12, FlowUnwritten DEF ApproveReturns, quotaVars, Dropped, Returning
<1>13. ASSUME NEW r \in Requests, BeginResubmit(r)
      PROVE  FlowInv'
  <2>1. /\ resubmitting' = r /\ r \notin approving /\ Unlinked(r)
        /\ reviews[r].retries < MaxApproveRetry
        /\ UNCHANGED <<reviews, reviewsDisk, approving, refundCalls, bootQueue, quota, refund>>
    BY <1>13 DEF BeginResubmit, RecoveryCandidate, reviewVars, quotaVars
  <2>2. reviews[r].retries # MaxApproveRetry
    BY <2>1, ConstantsOK DEF TypeOK, ReviewLedger, Review
  <2>3. ~GivenUp(r) /\ FlowOK(r)
    BY <2>1, <2>2 DEF FlowInv, GivenUp, Unlinked, Closed
  <2>4. ~Returning(r)' /\ Unlinked(r)'
    BY <2>1, <2>3 DEF FlowOK, Returning, Unlinked
  <2>5. FlowOK(r)'
    BY <2>1, <2>3, <2>4 DEF FlowOK
  <2>6. \A s \in Requests \ {r} : FlowOK(s)'
    BY <2>1, Elsewhere DEF Dropped, Returning
  <2> QED
    BY <2>5, <2>6 DEF FlowInv
<1>14. ASSUME NEW r \in Requests, FailExhaustedStuckRequest(r)
      PROVE  FlowInv'
  <2> DEFINE rv == [reviews[r] EXCEPT !.status = "failed", !.pending = @ \/ ~reviews[r].restored]
  <2>1. /\ reviews[r] \in Review /\ Unlinked(r)
        /\ r \notin approving /\ r # resubmitting
        /\ UNCHANGED <<approving, resubmitting, bootQueue, quota, refund>>
    BY <1>14, ConstantsOK
    DEF FailExhaustedStuckRequest, RecoveryCandidate, TypeOK, ReviewLedger, quotaVars
  <2>2. rv.status \in Closed /\ rv.link = "none"
    BY <2>1 DEF Review, Unlinked, Closed
  <2>3. PersistThenRefund(Updated(r, rv), r)
    BY <1>14 DEF FailExhaustedStuckRequest
  <2> HIDE DEF rv
  <2> QED
    BY <2>1, <2>2, <2>3, FlowEnd
<1>15. ASSUME NEW r \in Requests, NEW status \in Closed, NEW reason, EndPending(r, status, reason)
      PROVE  FlowInv'
  <2> DEFINE rv == [reviews[r] EXCEPT !.status = status, !.reviewed = day,
                                      !.reason = reason, !.pending = ~reviews[r].restored]
  <2>1. /\ reviews[r] \in Review /\ reviews[r].status = "pending"
        /\ UNCHANGED <<approving, resubmitting, bootQueue, quota, refund>>
    BY <1>15 DEF EndPending, TypeOK, ReviewLedger, quotaVars
  <2>2. reviews[r].link = "none" /\ r \notin approving /\ r # resubmitting
    BY <2>1 DEF FlowInv, FlowOK, Unlinked
  <2>3. rv.status = status /\ rv.link = "none"
    BY <2>1, <2>2 DEF Review
  <2>4. PersistThenRefund(Updated(r, rv), r)
    BY <1>15 DEF EndPending
  <2> HIDE DEF rv
  <2> QED
    BY <2>1, <2>2, <2>3, <2>4, FlowEnd
<1>16. ASSUME NEW r \in Requests, Reject(r) \/ CancelByUser(r)
      PROVE  FlowInv'
  BY <1>15, <1>16 DEF Reject, CancelByUser, Closed
<1>17. ASSUME NEW r \in Requests, SubscriptionPolled(r)
      PROVE  FlowInv'
  <2> DEFINE rv == [reviews[r] EXCEPT !.link = IF @ = "live" THEN "ended" ELSE "live"]
  <2>1. /\ reviews[r] \in Review /\ reviews[r].status = "approved" /\ reviews[r].link # "none"
        /\ UNCHANGED <<approving, resubmitting, refundCalls, bootQueue, quota, refund>>
    BY <1>17 DEF SubscriptionPolled, TypeOK, ReviewLedger, quotaVars
  <2>2. FlowOK(r) /\ ~Unlinked(r) /\ ~GivenUp(r)
    BY <2>1 DEF FlowInv, Unlinked, GivenUp, Closed
  <2>3. /\ rv.status = "approved" /\ rv.link # "none" /\ rv.pending = reviews[r].pending
        /\ rv.retries = reviews[r].retries
    BY <2>1 DEF Review
  <2>4. \A s \in Requests : Dropped(s)
    BY <2>1 DEF Dropped, Returning
  <2>5. ReviewSaved(Updated(r, rv)) \/ (reviews' = Updated(r, rv) /\ UNCHANGED reviewsDisk)
    BY <1>17 DEF SubscriptionPolled
  <2> HIDE DEF rv
  <2>6. CASE ReviewSaved(Updated(r, rv))
    <3>1. reviews'[r] = rv /\ reviewsDisk'[r] = rv => FlowOK(r)'
      BY <2>1, <2>2, <2>3 DEF FlowOK, Returning, Closed
    <3> QED
      BY <2>4, <2>6, <3>1, FlowWritten
  <2>7. CASE reviews' = Updated(r, rv) /\ UNCHANGED reviewsDisk
    <3>1. \A s \in Requests : reviews'[s] = IF s = r THEN rv ELSE reviews[s]
      BY <2>7 DEF Updated, TypeOK, ReviewLedger
    <3>2. FlowOK(r)'
      BY <2>1, <2>2, <2>3, <2>7, <3>1 DEF FlowOK, Returning, Closed
    <3>3. \A s \in Requests \ {r} : FlowOK(s)'
      BY <2>4, <2>7, <3>1, Elsewhere
    <3> QED
      BY <3>2, <3>3 DEF FlowInv
  <2> QED
    BY <2>5, <2>6, <2>7
<1>18. ASSUME NEW r \in Requests, NEW by \in {"handler", "boot"}, BeginRefund(r, by)
      PROVE  FlowInv'
  <2>1. /\ UNCHANGED <<reviewVars, approving, resubmitting>>
        /\ Returning(r)
    BY <1>18 DEF BeginRefund, Returning
  <2>2. refundCalls' \subseteq refundCalls /\ bootQueue' \subseteq bootQueue
    BY <1>18 DEF BeginRefund, EndCall
  <2>3. quota'.restored \subseteq quota.restored \cup {r}
    <3>1. CASE UNCHANGED quota
      BY <3>1
    <3>2. CASE quota' = Refunded(quota, r) /\ reviews[r].status \notin {"none", "purged"}
      <4>1. /\ Uncharge(quota, reviews[r].user, reviews[r].content) \in Quota
            /\ Uncharge(quota, reviews[r].user, reviews[r].content).restored = quota.restored
        BY <3>2, UnchargeType DEF TypeOK, ReviewLedger
      <4> QED
        BY <3>2, <4>1 DEF Refunded, Quota, TypeOK
    <3> QED
      BY <1>18, <3>1, <3>2, Zenon DEF BeginRefund, QuotaSaved, QuotaNotSaved, quotaVars
  <2>4. refund' = refund \/ refund'.req = r
    <3>1. refund' = refund \/ refund' = [req |-> r, by |-> by]
      BY <1>18, Zenon DEF BeginRefund
    <3> QED
      BY <3>1
  <2>5. \A s \in Requests : Dropped(s)
    BY <2>1, <2>2, <2>3, <2>4 DEF Dropped, Returning
  <2> QED
    BY <2>1, <2>5, FlowUnwritten
<1>19. CASE SkipResubmit
  BY <1>19, FlowUnwritten, ConstantsOK DEF SkipResubmit, quotaVars, Dropped, Returning
<1>20. CASE FinishRefund
  <2>0. PICK r \in Requests : r = refund.req
    BY <1>20 DEF FinishRefund, TypeOK
  <2> DEFINE rv == [reviews[r] EXCEPT !.restored = TRUE, !.pending = FALSE]
  <2>1. reviews[r] \in Review
    BY DEF TypeOK, ReviewLedger
  <2>2. FlowOK(r) /\ GivenUp(r)
    BY <2>0 DEF FlowInv, FlowOK, Returning
  <2>3. rv.status = reviews[r].status /\ rv.link = reviews[r].link /\ ~rv.pending
        /\ rv.retries = reviews[r].retries
    BY <2>1 DEF Review
  <2>4. UNCHANGED <<approving, resubmitting, quota>> /\ refund'.req = None
    BY <1>20 DEF FinishRefund, quotaVars, NoRefund
  <2>5. refundCalls' \subseteq refundCalls /\ bootQueue' \subseteq bootQueue
    BY <1>20 DEF FinishRefund, EndCall
  <2>6. \A s \in Requests : Dropped(s)
    BY <2>4, <2>5, ConstantsOK DEF Dropped, Returning
  <2> HIDE DEF rv
  <2>7. ASSUME reviews'[r] = rv, reviewsDisk'[r] = rv PROVE FlowOK(r)'
    <3>1. Unlinked(r)' <=> Unlinked(r)
      BY <2>3, <2>7 DEF Unlinked
    <3>2. GivenUp(r)'
      BY <2>2, <2>3, <2>4, <2>7, <3>1 DEF GivenUp
    <3> QED
      BY <2>2, <2>3, <2>4, <2>7, <3>1, <3>2 DEF FlowOK
  <2>8. ReviewSaved(Updated(r, rv)) \/ UNCHANGED reviewVars
    BY <1>20, <2>0 DEF FinishRefund, ReviewNotSaved, rv
  <2> QED
    BY <2>1, <2>6, <2>7, <2>8, FlowUnwritten, FlowWritten
<1>21. CASE Cleanup
  <2> DEFINE new == [r \in Requests |-> IF Expired(r) THEN Absent("purged") ELSE reviews[r]]
  <2>1. UNCHANGED <<quota, approving, resubmitting, refundCalls, bootQueue, refund>>
    BY <1>21 DEF Cleanup, quotaVars
  <2>2. \A s \in Requests : Dropped(s)
    BY <2>1 DEF Dropped, Returning
  <2>3. CASE UNCHANGED reviewVars
    BY <2>2, <2>3, FlowUnwritten
  <2>4. CASE reviews' = new /\ reviewsDisk' = new
    <3>1. ASSUME NEW s \in Requests PROVE FlowOK(s)'
      <4>1. CASE ~Expired(s)
        BY <2>2, <2>4, <4>1, Elsewhere
      <4>2. CASE Expired(s)
        <5>1. ~Unlinked(s)
          BY <4>2 DEF Expired, Unlinked, Closed
        <5>2. s \notin approving /\ s # resubmitting
          BY <5>1 DEF FlowInv, FlowOK
        <5>3. reviews'[s] = Absent("purged") /\ reviewsDisk'[s] = Absent("purged")
          BY <2>4, <4>2
        <5>4. reviews'[s].status = "purged" /\ reviews'[s].link = "none" /\ ~reviews'[s].pending
          BY <5>3 DEF Absent
        <5> QED
          BY <2>1, <5>2, <5>3, <5>4 DEF FlowOK, GivenUp
      <4> QED
        BY <4>1, <4>2
    <3> QED
      BY <3>1 DEF FlowInv
  <2> QED
    BY <1>21, <2>3, <2>4 DEF Cleanup, PersistReview, ReviewSaved, ReviewNotSaved
<1>22. CASE Restart
  <2>1. /\ reviews' = reviewsDisk /\ UNCHANGED reviewsDisk
        /\ approving' = {} /\ resubmitting' = None /\ refundCalls' = {}
        /\ refund'.req = None
        /\ bootQueue' = {r \in Requests : reviewsDisk[r].pending}
    BY <1>22 DEF Restart, NoRefund
  <2>2. quota'.restored = quota.restored
    BY <1>22 DEF Restart, TypeOK, Quota, LedgerInv, WriteThrough
  <2>3. ASSUME NEW s \in Requests PROVE FlowOK(s)'
    <3>1. /\ FlowOK(s)
          /\ reviewsDisk[s].status = reviews[s].status
          /\ reviewsDisk[s].pending = reviews[s].pending
      BY DEF FlowInv, LedgerInv, WriteThrough, SameRequest
    <3>2. Returning(s)' => GivenUp(s)
      BY <2>1, <2>2, <3>1, ConstantsOK DEF FlowOK, Returning, GivenUp
    <3>3. GivenUp(s) => GivenUp(s)'
      BY <2>1, <3>1, ConstantsOK DEF FlowOK, GivenUp, Unlinked
    <3> QED
      BY <2>1, <3>1, <3>2, <3>3, ConstantsOK DEF FlowOK, Unlinked
  <2> QED
    BY <2>3 DEF FlowInv
<1>23. CASE NextDay
  BY <1>23, FlowUnwritten DEF NextDay, quotaVars, Dropped, Returning
<1>24. CASE UNCHANGED vars
  BY <1>24, FlowUnwritten DEF vars, reviewVars, Dropped, Returning
<1> QED
  BY <1>1, <1>2, <1>3, <1>4, <1>5, <1>6, <1>7, <1>8, <1>9, <1>10, <1>11, <1>12,
     <1>13, <1>14, <1>16, <1>17, <1>18, <1>19, <1>20, <1>21, <1>22,
     <1>23, <1>24 DEF Next

\* The three invariants hold in every reachable state.
LEMMA FlowInvariant == Spec => [](TypeOK /\ LedgerInv /\ FlowInv)
<1>1. Init => TypeOK /\ LedgerInv /\ FlowInv
  BY InitType, InitLedgerInv, InitFlowInv
<1>2. TypeOK /\ LedgerInv /\ FlowInv /\ [Next]_vars => (TypeOK /\ LedgerInv /\ FlowInv)'
  BY TypeStep, LedgerStep, FlowStep
<1> QED
  BY <1>1, <1>2, PTL DEF Spec

\* A request in the idempotency ledger has no subscription.
THEOREM RefundedUnlinked == Spec => []RefundedNeverLinked
<1>1. FlowInv => RefundedNeverLinked
  <2> SUFFICES ASSUME FlowInv, NEW r \in Requests, r \in quota.restored
               PROVE  reviews[r].link = "none"
    BY DEF RefundedNeverLinked
  <2>1. FlowOK(r) /\ GivenUp(r)
    BY DEF FlowInv, FlowOK, Returning
  <2> QED
    BY <2>1 DEF FlowOK, GivenUp, Unlinked, Closed
<1> QED
  BY <1>1, FlowInvariant, PTL

-----------------------------------------------------------------------------
(***************************************************************************)
(* A refund that is owed on disk.                                          *)
(***************************************************************************)
\* A durable refund intent survives every step but the one that marks the
\* refund: a pending request is closed, so no decision rewrites its record,
\* and the cleanup passes it over.
LEMMA IntentStep ==
    TypeOK /\ LedgerInv /\ FlowInv /\ [Next]_vars =>
      \A r \in Requests :
        reviewsDisk[r].pending =>
          \/ reviewsDisk'[r].pending
          \/ reviewsDisk'[r].restored /\ r \in quotaDisk'.restored
<1> SUFFICES ASSUME TypeOK, LedgerInv, FlowInv, [Next]_vars,
                    NEW o \in Requests, reviewsDisk[o].pending
             PROVE  \/ reviewsDisk'[o].pending
                    \/ reviewsDisk'[o].restored /\ o \in quotaDisk'.restored
  OBVIOUS
<1> DEFINE Kept == reviewsDisk'[o].pending
<1>0. /\ reviews[o].pending /\ reviews[o].status \in Closed
      /\ o \notin approving /\ o # resubmitting
  BY DEF LedgerInv, WriteThrough, SameRequest, FlowInv, FlowOK, Unlinked, Closed
\* A write of another record keeps the one of o.
<1>a. ASSUME NEW r \in Requests, NEW rv, ReviewSaved(Updated(r, rv)), r # o PROVE Kept
  BY <1>0, <1>a, WriteShows
<1>b. ASSUME UNCHANGED reviewsDisk PROVE Kept
  BY <1>b
<1>1. ASSUME NEW u \in Users, NEW c \in Contents, BeginSubmit(u, c) PROVE Kept
  BY <1>1 DEF BeginSubmit, reviewVars
<1>2. CASE UseQuota
  BY <1>2 DEF UseQuota, reviewVars
<1>3. CASE RestoreQuota
  BY <1>3 DEF RestoreQuota, reviewVars
<1>4. ASSUME NEW u \in Users, GetQuotaInfo(u) PROVE Kept
  BY <1>4 DEF GetQuotaInfo, reviewVars
<1>5. ASSUME NEW r \in Requests, CreateRequest(r) PROVE Kept
  BY <1>0, <1>5, <1>a, <1>b DEF CreateRequest, ReviewNotSaved, reviewVars, Closed
<1>6. ASSUME NEW r \in Requests, Approve(r) PROVE Kept
  BY <1>0, <1>6, <1>a, <1>b DEF Approve, ReviewNotSaved, reviewVars, Closed
<1>7. ASSUME NEW r \in Requests, RequeueApprovedPreflightFailure(r) PROVE Kept
  BY <1>0, <1>7, <1>a, <1>b
  DEF RequeueApprovedPreflightFailure, PersistReview, ReviewNotSaved, reviewVars
<1>8. ASSUME NEW r \in Requests, RejectApprovedPreflight(r) PROVE Kept
  BY <1>0, <1>8, <1>a, <1>b
  DEF RejectApprovedPreflight, PersistThenRefund, ReviewNotSaved, reviewVars
<1>9. ASSUME NEW r \in Requests, LinkSubscription(r) PROVE Kept
  BY <1>0, <1>9, <1>a, <1>b DEF LinkSubscription, ReviewNotSaved, reviewVars
<1>10. ASSUME NEW r \in Requests, ApproveMarksStuck(r) PROVE Kept
  BY <1>0, <1>10, <1>a, <1>b
  DEF ApproveMarksStuck, PersistThenRefund, PersistReview, ReviewNotSaved, reviewVars
<1>11. ASSUME NEW r \in Requests, RetryMarksStuck(r) PROVE Kept
  BY <1>0, <1>11, <1>a, <1>b DEF RetryMarksStuck, PersistReview, ReviewNotSaved, reviewVars
<1>12. ASSUME NEW r \in Requests, ApproveReturns(r) \/ BeginResubmit(r) PROVE Kept
  BY <1>12 DEF ApproveReturns, BeginResubmit, reviewVars
<1>14. ASSUME NEW r \in Requests, FailExhaustedStuckRequest(r) PROVE Kept
  BY <1>0, <1>14, <1>a, <1>b
  DEF FailExhaustedStuckRequest, RecoveryCandidate, Unlinked, PersistThenRefund,
      ReviewNotSaved, reviewVars, Closed
<1>15. ASSUME NEW r \in Requests, Reject(r) \/ CancelByUser(r) PROVE Kept
  BY <1>0, <1>15, <1>a, <1>b
  DEF Reject, CancelByUser, EndPending, PersistThenRefund, ReviewNotSaved, reviewVars, Closed
<1>17. ASSUME NEW r \in Requests, SubscriptionPolled(r) PROVE Kept
  BY <1>0, <1>17, <1>a, <1>b DEF SubscriptionPolled, Closed
<1>18. ASSUME NEW r \in Requests, NEW by \in {"handler", "boot"}, BeginRefund(r, by) PROVE Kept
  BY <1>18 DEF BeginRefund, reviewVars
<1>19. CASE SkipResubmit
  BY <1>19 DEF SkipResubmit, reviewVars
<1>20. CASE FinishRefund
  <2> PICK r \in Requests : r = refund.req
    BY <1>20 DEF FinishRefund, TypeOK
  <2> DEFINE rv == [reviews[r] EXCEPT !.restored = TRUE, !.pending = FALSE]
  <2>1. rv.restored
    BY DEF TypeOK, ReviewLedger, Review
  <2>2. /\ ReviewSaved(Updated(r, rv)) \/ UNCHANGED reviewsDisk
        /\ quotaDisk' = quotaDisk
    BY <1>20 DEF FinishRefund, ReviewNotSaved, reviewVars, quotaVars
  <2> HIDE DEF rv
  <2>3. CASE r = o
    <3>1. o \in quotaDisk.restored
      BY <2>3, ConstantsOK DEF LedgerInv, RefundUnderWay
    <3> QED
      BY <2>1, <2>2, <2>3, <3>1, WriteShows
  <2> QED
    BY <2>2, <2>3, <1>a
<1>21. CASE Cleanup
  <2>1. ~Expired(o)
    BY <1>0 DEF Expired
  <2> QED
    BY <1>0, <1>21, <2>1 DEF Cleanup, PersistReview, ReviewSaved, ReviewNotSaved, reviewVars
<1>22. CASE Restart
  BY <1>22 DEF Restart
<1>23. CASE NextDay
  BY <1>23 DEF NextDay, reviewVars
<1>24. CASE UNCHANGED vars
  BY <1>24 DEF vars
<1> QED
  BY <1>1, <1>2, <1>3, <1>4, <1>5, <1>6, <1>7, <1>8, <1>9, <1>10, <1>11, <1>12,
     <1>14, <1>15, <1>17, <1>18, <1>19, <1>20, <1>21, <1>22, <1>23, <1>24 DEF Next

\* What is owed stays owed until both ledgers have the refund.
THEOREM OwedUntilRefunded == Spec => IntentHonoured
<1>1. TypeOK /\ LedgerInv /\ FlowInv /\ [Next]_vars =>
        [\A r \in Requests :
           reviewsDisk[r].pending =>
             \/ reviewsDisk'[r].pending
             \/ reviewsDisk'[r].restored /\ r \in quotaDisk'.restored]_vars
  BY IntentStep
<1> QED
  BY <1>1, FlowInvariant, PTL DEF Spec, IntentHonoured

-----------------------------------------------------------------------------
(***************************************************************************)
(* Usage that falls.                                                       *)
(***************************************************************************)
\* checkAndResetUnsafe dates the counters of one user today, keeps them if
\* they were of today, and touches nobody else's.
LEMMA ResetForShows ==
    ASSUME NEW q \in Quota, NEW u \in Users, day \in Nat, NEW v \in Users
    PROVE  LET n == ResetFor(q, u) IN
           /\ n.resetOn[v] = IF v = u THEN day ELSE q.resetOn[v]
           /\ v # u \/ q.resetOn[u] = day => n.used[v] = q.used[v]
  BY DEF ResetFor, Quota, MediaTypes

\* Changing a counter of one user changes no date and nobody else's counters.
LEMMA CounterShows ==
    ASSUME NEW q \in Quota, NEW u \in Users, NEW m \in MediaTypes, NEW n \in Nat,
           NEW v \in Users
    PROVE  LET p == [q EXCEPT !.used[u][m] = n] IN
           /\ p.resetOn = q.resetOn
           /\ v # u => p.used[v] = q.used[v]
           /\ \A k \in MediaTypes : p.used[u][k] = IF k = m THEN n ELSE q.used[u][k]
<1> DEFINE counters == [q.used[u] EXCEPT ![m] = n]
           used     == [q.used EXCEPT ![u] = counters]
<1>1. \A k \in MediaTypes : counters[k] = IF k = m THEN n ELSE q.used[u][k]
  BY DEF Quota
<1>2. used[u] = counters /\ (v # u => used[v] = q.used[v])
  BY DEF Quota
<1>3. [q EXCEPT !.used[u][m] = n] = [q EXCEPT !.used = used]
  BY DEF Quota
<1>4. [q EXCEPT !.used = used].used = used /\ [q EXCEPT !.used = used].resetOn = q.resetOn
  BY DEF Quota
<1> HIDE DEF counters, used
<1> QED
  BY <1>1, <1>2, <1>3, <1>4

\* A charge raises one counter.
LEMMA ChargeShows ==
    ASSUME NEW q \in Quota, NEW u \in Users, NEW c \in Contents, NEW v \in Users
    PROVE  /\ Charge(q, u, c).resetOn = q.resetOn
           /\ v # u => Charge(q, u, c).used[v] = q.used[v]
           /\ \A k \in MediaTypes : Charge(q, u, c).used[u][k] >= q.used[u][k]
<1> DEFINE n == q.used[u][MediaType[c]] + Cost(c)
<1>1. MediaType[c] \in MediaTypes /\ \A k \in MediaTypes : q.used[u][k] \in Nat
  BY ConstantsOK DEF Quota
<1>2. n \in Nat /\ n >= q.used[u][MediaType[c]]
  BY <1>1, CostPositive
<1> HIDE DEF n
<1>3. PICK m \in MediaTypes : m = MediaType[c]
  BY <1>1
<1>4. Charge(q, u, c) = [q EXCEPT !.used[u][m] = n]
  BY <1>3 DEF Charge, n
<1> DEFINE p == [q EXCEPT !.used[u][m] = n]
<1>5. /\ p.resetOn = q.resetOn
      /\ v # u => p.used[v] = q.used[v]
      /\ \A k \in MediaTypes : p.used[u][k] = IF k = m THEN n ELSE q.used[u][k]
  BY <1>2, CounterShows
<1> HIDE DEF p
<1> QED
  BY <1>1, <1>2, <1>3, <1>4, <1>5 DEF p

\* Giving a charge back changes no date and nobody else's counters.
LEMMA UnchargeShows ==
    ASSUME NEW q \in Quota, NEW u \in Users, NEW c \in Contents, NEW v \in Users
    PROVE  /\ Uncharge(q, u, c).resetOn = q.resetOn
           /\ v # u => Uncharge(q, u, c).used[v] = q.used[v]
<1> DEFINE n == IF q.used[u][MediaType[c]] < Cost(c) THEN 0
                ELSE q.used[u][MediaType[c]] - Cost(c)
<1>1. MediaType[c] \in MediaTypes /\ q.used[u][MediaType[c]] \in Nat
  BY ConstantsOK DEF Quota
<1>2. n \in Nat
  BY <1>1, CostPositive
<1>3. Uncharge(q, u, c) = [q EXCEPT !.used[u][MediaType[c]] = n]
  BY DEF Uncharge
<1> HIDE DEF n
<1> QED
  BY <1>1, <1>2, <1>3, CounterShows

\* So does a refund, which enters the request in the idempotency ledger.
LEMMA RefundedShows ==
    ASSUME TypeOK, NEW r \in Requests, reviews[r].status \notin {"none", "purged"},
           NEW v \in Users
    PROVE  /\ Refunded(quota, r).resetOn = quota.resetOn
           /\ v # reviews[r].user => Refunded(quota, r).used[v] = quota.used[v]
           /\ r \in Refunded(quota, r).restored
<1> DEFINE q1 == IF reviews[r].created = day
                 THEN Uncharge(quota, reviews[r].user, reviews[r].content) ELSE quota
<1>1. reviews[r].user \in Users /\ reviews[r].content \in Contents /\ quota \in Quota
  BY DEF TypeOK, ReviewLedger
<1>2. /\ q1 \in Quota /\ q1.resetOn = quota.resetOn
      /\ v # reviews[r].user => q1.used[v] = quota.used[v]
  BY <1>1, UnchargeType, UnchargeShows
<1>3. Refunded(quota, r) = [q1 EXCEPT !.restored = @ \cup {r}]
  BY DEF Refunded
<1> HIDE DEF q1
<1> QED
  BY <1>2, <1>3 DEF Quota

\* The counters of every user in memory are those on disk, or younger.
LEMMA InitCounters == Init => CountersOK
  BY DEF Init, CountersOK

\* A write of the quota ledger with no date of a later day.
LEMMA CountersSaved ==
    ASSUME NEW new, QuotaSaved(new), UNCHANGED day, \A v \in Users : new.resetOn[v] <= day
    PROVE  CountersOK'
  BY DEF QuotaSaved, CountersOK

\* A reset in memory.
LEMMA CountersReset ==
    ASSUME TypeOK, CountersOK, NEW u \in Users,
           quota' = ResetFor(quota, u), UNCHANGED <<quotaDisk, day>>
    PROVE  CountersOK'
<1>1. ASSUME NEW v \in Users
      PROVE  /\ quota'.resetOn[v] <= day
             /\ \/ quotaDisk.resetOn[v] < quota'.resetOn[v]
                \/ quotaDisk.resetOn[v] = quota'.resetOn[v] /\ quotaDisk.used[v] = quota'.used[v]
  <2>1. quota \in Quota /\ day \in Nat
    BY DEF TypeOK
  <2>2. /\ quota'.resetOn[v] = IF v = u THEN day ELSE quota.resetOn[v]
        /\ v # u \/ quota.resetOn[u] = day => quota'.used[v] = quota.used[v]
    BY <2>1, ResetForShows
  <2>3. quota.resetOn[v] \in Nat /\ quotaDisk.resetOn[v] \in Nat
    BY DEF TypeOK, Quota
  <2> QED
    BY <2>1, <2>2, <2>3 DEF CountersOK
<1> QED
  BY <1>1 DEF CountersOK

\* The steps that touch the quota ledger or the calendar.
QuotaStep ==
    \/ UseQuota \/ RestoreQuota \/ Restart \/ NextDay
    \/ \E u \in Users : GetQuotaInfo(u)
    \/ \E r \in Requests, by \in {"handler", "boot"} : BeginRefund(r, by)

LEMMA QuotaStepsOnly == [Next]_vars => QuotaStep \/ UNCHANGED <<quotaVars, day>>
<1> SUFFICES ASSUME [Next]_vars PROVE QuotaStep \/ UNCHANGED <<quotaVars, day>>
  OBVIOUS
<1>1. CASE UNCHANGED vars
  BY <1>1 DEF vars, quotaVars
<1>2. ASSUME NEW u \in Users, NEW c \in Contents, BeginSubmit(u, c)
      PROVE  UNCHANGED <<quotaVars, day>>
  BY <1>2 DEF BeginSubmit
<1>3. ASSUME NEW r \in Requests,
             \/ CreateRequest(r) \/ Approve(r) \/ RequeueApprovedPreflightFailure(r)
             \/ RejectApprovedPreflight(r) \/ LinkSubscription(r) \/ ApproveMarksStuck(r)
             \/ RetryMarksStuck(r) \/ ApproveReturns(r) \/ BeginResubmit(r)
      PROVE  UNCHANGED <<quotaVars, day>>
  BY <1>3 DEF CreateRequest, Approve, RequeueApprovedPreflightFailure,
     RejectApprovedPreflight, LinkSubscription, ApproveMarksStuck, RetryMarksStuck,
     ApproveReturns, BeginResubmit
<1>4. ASSUME NEW r \in Requests,
             \/ FailExhaustedStuckRequest(r) \/ Reject(r) \/ CancelByUser(r)
             \/ SubscriptionPolled(r)
      PROVE  UNCHANGED <<quotaVars, day>>
  BY <1>4 DEF FailExhaustedStuckRequest, Reject, CancelByUser, EndPending, SubscriptionPolled
<1>5. CASE SkipResubmit \/ FinishRefund \/ Cleanup
  BY <1>5 DEF SkipResubmit, FinishRefund, Cleanup
<1> QED
  BY <1>1, <1>2, <1>3, <1>4, <1>5 DEF Next, QuotaStep

\* Every action keeps the counters of memory those of the disk, or younger.
LEMMA CountersStep == TypeOK /\ CountersOK /\ [Next]_vars => CountersOK'
<1> SUFFICES ASSUME TypeOK, CountersOK, [Next]_vars PROVE CountersOK'
  OBVIOUS
<1>0. ASSUME UNCHANGED <<quotaVars, day>> PROVE CountersOK'
  BY <1>0 DEF CountersOK, quotaVars
<1>2. CASE UseQuota
  <2> DEFINE u == submission.user
             c == submission.content
             q == ResetFor(quota, u)
  <2>1. u \in Users /\ c \in Contents
    BY <1>2 DEF TypeOK, UseQuota, Submissions
  <2>2. q \in Quota /\ \A v \in Users : q.resetOn[v] <= day
    BY <2>1, ResetForType, ResetForShows DEF TypeOK, CountersOK
  <2>3. Users # {} => Charge(q, u, c).resetOn = q.resetOn
    BY <2>1, <2>2, ChargeShows
  <2>4. \A v \in Users : Charge(q, u, c).resetOn[v] <= day
    BY <2>2, <2>3
  <2>5. \/ quota' = q /\ UNCHANGED quotaDisk
        \/ QuotaSaved(Charge(q, u, c))
        \/ UNCHANGED quotaVars
    BY <1>2 DEF UseQuota, QuotaNotSaved
  <2>6. UNCHANGED day
    BY <1>2 DEF UseQuota
  <2> HIDE DEF u, c
  <2> QED
    BY <1>0, <2>1, <2>4, <2>5, <2>6, CountersSaved, CountersReset DEF q
<1>3. CASE RestoreQuota
  <2> DEFINE new == Uncharge(quota, submission.user, submission.content)
  <2>1. submission.user \in Users /\ submission.content \in Contents /\ quota \in Quota
    BY <1>3 DEF TypeOK, RestoreQuota, Submissions
  <2>2. new.resetOn = quota.resetOn
    BY <2>1, UnchargeShows
  <2>3. (QuotaSaved(new) \/ UNCHANGED quotaVars) /\ UNCHANGED day
    BY <1>3 DEF RestoreQuota, QuotaNotSaved
  <2> HIDE DEF new
  <2> QED
    BY <1>0, <2>2, <2>3, CountersSaved DEF CountersOK
<1>4. ASSUME NEW u \in Users, GetQuotaInfo(u)
      PROVE  CountersOK'
  BY <1>4, CountersReset DEF GetQuotaInfo
<1>18. ASSUME NEW r \in Requests, NEW by \in {"handler", "boot"}, BeginRefund(r, by)
       PROVE  CountersOK'
  <2>1. /\ UNCHANGED quotaVars \/ (/\ QuotaSaved(Refunded(quota, r))
                                   /\ reviews[r].status \notin {"none", "purged"})
        /\ UNCHANGED day
    BY <1>18, Zenon DEF BeginRefund, QuotaNotSaved
  <2>2. CASE QuotaSaved(Refunded(quota, r)) /\ reviews[r].status \notin {"none", "purged"}
    <3>1. reviews[r].user \in Users
      BY <2>2 DEF TypeOK, ReviewLedger
    <3>2. Refunded(quota, r).resetOn = quota.resetOn
      BY <2>2, <3>1, RefundedShows
    <3> QED
      BY <2>1, <2>2, <3>2, CountersSaved DEF CountersOK
  <2> QED
    BY <1>0, <2>1, <2>2
<1>22. CASE Restart
  <2>1. /\ quota'.resetOn = [v \in Users |-> day]
        /\ quota'.used = [v \in Users |-> ResetFor(quotaDisk, v).used[v]]
        /\ UNCHANGED <<quotaDisk, day>>
    BY <1>22 DEF Restart, TypeOK, Quota
  <2>2. ASSUME NEW v \in Users
        PROVE  \/ quotaDisk.resetOn[v] < day
               \/ quotaDisk.resetOn[v] = day /\ ResetFor(quotaDisk, v).used[v] = quotaDisk.used[v]
    <3>1. /\ quotaDisk.resetOn[v] \in Nat /\ quota.resetOn[v] \in Nat /\ day \in Nat
          /\ quotaDisk \in Quota
      BY DEF TypeOK, Quota
    <3>2. quotaDisk.resetOn[v] <= day
      BY <3>1 DEF CountersOK
    <3> QED
      BY <3>1, <3>2, ResetForShows
  <2>3. day <= day
    BY DEF TypeOK
  <2> QED
    BY <2>1, <2>2, <2>3 DEF CountersOK
<1>23. CASE NextDay
  <2>1. \A v \in Users : quota.resetOn[v] \in Nat
    BY DEF TypeOK, Quota
  <2> QED
    BY <1>23, <2>1 DEF NextDay, TypeOK, CountersOK, quotaVars
<1> QED
  BY <1>0, <1>2, <1>3, <1>4, <1>18, <1>22, <1>23, QuotaStepsOnly DEF QuotaStep

\* Durable usage falls, under the same date, only for the requester of a
\* refund that enters the idempotency ledger in the same write, or for the
\* submitter of a request that could not be created.
LEMMA UsageStep ==
    TypeOK /\ LedgerInv /\ CountersOK /\ [Next]_vars =>
      \A u \in Users, m \in MediaTypes :
         /\ quotaDisk'.used[u][m] < quotaDisk.used[u][m]
         /\ quotaDisk'.resetOn[u] = quotaDisk.resetOn[u]
         => \/ \E r \in quotaDisk'.restored \ quotaDisk.restored : reviews[r].user = u
            \/ submission.pc = "createFailed" /\ submission.user = u
<1> SUFFICES ASSUME TypeOK, LedgerInv, CountersOK, [Next]_vars,
                    NEW v \in Users, NEW m \in MediaTypes,
                    quotaDisk'.used[v][m] < quotaDisk.used[v][m],
                    quotaDisk'.resetOn[v] = quotaDisk.resetOn[v]
             PROVE  \/ \E r \in quotaDisk'.restored \ quotaDisk.restored : reviews[r].user = v
                    \/ submission.pc = "createFailed" /\ submission.user = v
  OBVIOUS
<1>0. /\ quotaDisk.used[v][m] \in Nat /\ day \in Nat
      /\ quotaDisk.resetOn[v] \in Nat /\ quota.resetOn[v] \in Nat
      /\ quota \in Quota
  BY DEF TypeOK, Quota
<1>1. UNCHANGED quotaDisk => FALSE
  BY <1>0
\* Where memory is younger than the disk, a write moves the date.
<1>2. quota.resetOn[v] = quotaDisk.resetOn[v] => quota.used[v] = quotaDisk.used[v]
  BY <1>0 DEF CountersOK
<1>3. CASE UseQuota
  <2> DEFINE u == submission.user
             c == submission.content
             q == ResetFor(quota, u)
  <2>1. u \in Users /\ c \in Contents /\ q \in Quota
    BY <1>3, ResetForType DEF TypeOK, UseQuota, Submissions
  <2>2. /\ q.resetOn[v] = IF v = u THEN day ELSE quota.resetOn[v]
        /\ v # u \/ quota.resetOn[u] = day => q.used[v] = quota.used[v]
    BY <1>0, <2>1, ResetForShows
  <2>3. /\ Charge(q, u, c).resetOn = q.resetOn
        /\ v # u => Charge(q, u, c).used[v] = q.used[v]
        /\ Charge(q, u, c).used[u][m] >= q.used[u][m]
    BY <2>1, ChargeShows
  <2>4. quotaDisk' = Charge(q, u, c)
    BY <1>1, <1>3 DEF UseQuota, QuotaSaved, QuotaNotSaved, quotaVars
  <2>5. quotaDisk.resetOn[v] = q.resetOn[v]
    BY <2>3, <2>4
  <2>6. q.used[v] = quotaDisk.used[v]
    <3>1. quota.resetOn[v] <= day /\ quotaDisk.resetOn[v] <= quota.resetOn[v]
      BY <1>0 DEF CountersOK
    <3> QED
      BY <1>0, <1>2, <2>2, <2>5, <3>1
  <2>7. q.used[v][m] \in Nat /\ Charge(q, u, c).used[v][m] \in Nat
    BY <2>1, ChargeType DEF Quota
  <2> HIDE DEF u, c, q
  <2> QED
    BY <2>3, <2>4, <2>6, <2>7
<1>4. CASE RestoreQuota
  <2> DEFINE new == Uncharge(quota, submission.user, submission.content)
  <2>1. /\ submission.user \in Users /\ submission.content \in Contents
        /\ submission.pc = "createFailed"
    BY <1>4 DEF TypeOK, RestoreQuota, Submissions
  <2>2. new.resetOn = quota.resetOn /\ (v # submission.user => new.used[v] = quota.used[v])
    BY <1>0, <2>1, UnchargeShows
  <2>3. quotaDisk' = new
    BY <1>1, <1>4 DEF RestoreQuota, QuotaSaved, QuotaNotSaved, quotaVars
  <2> HIDE DEF new
  <2> QED
    BY <1>0, <1>2, <2>1, <2>2, <2>3
<1>5. ASSUME NEW r \in Requests, NEW by \in {"handler", "boot"}, BeginRefund(r, by)
      PROVE  \E s \in quotaDisk'.restored \ quotaDisk.restored : reviews[s].user = v
  <2>1. /\ QuotaSaved(Refunded(quota, r)) /\ r \notin quota.restored
        /\ reviews[r].status \notin {"none", "purged"}
    BY <1>1, <1>5, Zenon DEF BeginRefund, QuotaNotSaved, quotaVars
  <2>2. /\ Refunded(quota, r).resetOn = quota.resetOn
        /\ v # reviews[r].user => Refunded(quota, r).used[v] = quota.used[v]
        /\ r \in Refunded(quota, r).restored
    BY <2>1, RefundedShows
  <2>3. quotaDisk' = Refunded(quota, r)
    BY <2>1 DEF QuotaSaved
  <2>4. reviews[r].user = v
    BY <1>0, <1>2, <2>2, <2>3
  <2>5. r \notin quotaDisk.restored
    BY <2>1 DEF LedgerInv, WriteThrough
  <2> QED
    BY <2>2, <2>3, <2>4, <2>5
<1>6. CASE Restart \/ NextDay \/ \E u \in Users : GetQuotaInfo(u)
  BY <1>1, <1>6 DEF Restart, NextDay, GetQuotaInfo, quotaVars
<1>7. ~UNCHANGED <<quotaVars, day>>
  BY <1>1 DEF quotaVars
<1> QED
  BY <1>3, <1>4, <1>5, <1>6, <1>7, QuotaStepsOnly DEF QuotaStep

\* Within a day the usage on disk falls only by a refund or a compensation.
THEOREM UsageFallsOnce == Spec => UsageFallsOncePerRequest
<1>1. Spec => []CountersOK
  BY TypeCorrect, InitCounters, CountersStep, PTL DEF Spec
<1>2. TypeOK /\ LedgerInv /\ CountersOK /\ [Next]_vars =>
        [\A u \in Users, m \in MediaTypes :
           /\ quotaDisk'.used[u][m] < quotaDisk.used[u][m]
           /\ quotaDisk'.resetOn[u] = quotaDisk.resetOn[u]
           => \/ \E r \in quotaDisk'.restored \ quotaDisk.restored : reviews[r].user = u
              \/ submission.pc = "createFailed" /\ submission.user = u]_vars
  BY UsageStep
<1> QED
  BY <1>1, <1>2, TypeCorrect, LedgerInvariant, PTL DEF Spec, UsageFallsOncePerRequest

-----------------------------------------------------------------------------
(***************************************************************************)
(* The daily limit, when no day begins in the middle of a submission.      *)
(***************************************************************************)
\* How a count of requests and the units they come to grow together.
LEMMA UnitsTimes ==
    ASSUME NEW m, NEW a \in Nat, NEW b \in Nat
    PROVE  /\ Units(m) \in {1, 3} /\ Units(m) * a \in Nat
           /\ a <= b => Units(m) * a <= Units(m) * b
           /\ Units(m) * (a + 1) = Units(m) * a + Units(m)
<1>1. CASE m = "tv"
  BY <1>1 DEF Units
<1>2. CASE m # "tv"
  BY <1>2 DEF Units
<1> QED
  BY <1>1, <1>2

\* What a ledger holds against a user today.
Held(q, u, m) == IF q.resetOn[u] = day THEN q.used[u][m] ELSE 0

\* checkAndResetUnsafe changes nothing of that, and raises no counter.
LEMMA ResetForHeld ==
    ASSUME NEW q \in Quota, NEW u \in Users, day \in Nat, NEW v \in Users, NEW m \in MediaTypes
    PROVE  /\ Held(ResetFor(q, u), v, m) = Held(q, v, m)
           /\ ResetFor(q, u).used[v][m] \in {0, q.used[v][m]}
<1>1. CASE q.resetOn[u] = day
  BY <1>1 DEF ResetFor
<1>2. CASE q.resetOn[u] # day
  <2>1. /\ ResetFor(q, u).resetOn[v] = IF v = u THEN day ELSE q.resetOn[v]
        /\ v # u => ResetFor(q, u).used[v] = q.used[v]
    BY ResetForShows
  <2>2. ResetFor(q, u).used[u] = [k \in MediaTypes |-> 0]
    BY <1>2 DEF ResetFor, Quota
  <2> QED
    BY <1>2, <2>1, <2>2 DEF Held
<1> QED
  BY <1>1, <1>2

\* A charge adds its cost to the one counter.
LEMMA ChargeCounts ==
    ASSUME NEW q \in Quota, NEW u \in Users, NEW c \in Contents, NEW v \in Users, NEW k \in MediaTypes
    PROVE  Charge(q, u, c).used[v][k] = IF v = u /\ k = MediaType[c] THEN q.used[v][k] + Cost(c)
                                        ELSE q.used[v][k]
<1> DEFINE n == q.used[u][MediaType[c]] + Cost(c)
<1>1. PICK m \in MediaTypes : m = MediaType[c]
  BY ConstantsOK
<1>2. n \in Nat
  BY <1>1, CostPositive DEF Quota
<1> HIDE DEF n
<1>3. Charge(q, u, c) = [q EXCEPT !.used[u][m] = n]
  BY <1>1 DEF Charge, n
<1> DEFINE p == [q EXCEPT !.used[u][m] = n]
<1>4. /\ v # u => p.used[v] = q.used[v]
      /\ \A j \in MediaTypes : p.used[u][j] = IF j = m THEN n ELSE q.used[u][j]
  BY <1>2, CounterShows
<1> HIDE DEF p
<1> QED
  BY <1>1, <1>3, <1>4 DEF p, n

\* Giving it back takes the cost off that counter, and never goes below zero.
LEMMA UnchargeCounts ==
    ASSUME NEW q \in Quota, NEW u \in Users, NEW c \in Contents, NEW v \in Users, NEW k \in MediaTypes
    PROVE  Uncharge(q, u, c).used[v][k] =
             IF v = u /\ k = MediaType[c]
             THEN IF q.used[v][k] < Cost(c) THEN 0 ELSE q.used[v][k] - Cost(c)
             ELSE q.used[v][k]
<1> DEFINE n == IF q.used[u][MediaType[c]] < Cost(c) THEN 0
                ELSE q.used[u][MediaType[c]] - Cost(c)
<1>1. PICK m \in MediaTypes : m = MediaType[c]
  BY ConstantsOK
<1>2. n \in Nat
  BY <1>1, CostPositive DEF Quota
<1>3. Uncharge(q, u, c) = [q EXCEPT !.used[u][m] = n]
  BY <1>1 DEF Uncharge
<1> HIDE DEF n
<1> DEFINE p == [q EXCEPT !.used[u][m] = n]
<1>4. /\ v # u => p.used[v] = q.used[v]
      /\ \A j \in MediaTypes : p.used[u][j] = IF j = m THEN n ELSE q.used[u][j]
  BY <1>2, CounterShows
<1> HIDE DEF p
<1> QED
  BY <1>1, <1>3, <1>4 DEF p, n

\* Nothing is charged at the start.
LEMMA InitCap == Init => CapInv
<1> SUFFICES ASSUME Init PROVE CapInv
  OBVIOUS
<1>1. PaymentsDated
  BY DEF Init, PaymentsDated, SamePayment, Absent, Idle
<1>2. ASSUME NEW u \in Users, NEW m \in MediaTypes PROVE CapOK(u, m)
  <2>1. Paid(u, m) = {}
    BY ConstantsOK DEF Init, Paid, Absent
  <2>2. IsFiniteSet(Paid(u, m)) /\ NetToday(u, m) = 0
    BY <2>1, FS_EmptySet, UnitsTimes DEF NetToday, Units
  <2>3. ~InFlight(u, m) /\ quota.used[u][m] = 0 /\ quotaDisk.used[u][m] = 0
    BY DEF Init, InFlight, Idle
  <2> QED
    BY <2>2, <2>3, ConstantsOK DEF CapOK, Due, UsedToday
<1> QED
  BY <1>1, <1>2 DEF CapInv

-----------------------------------------------------------------------------
\* A record keeps what it says of its payment, or is removed; and the disk says the same.
PaymentKept(s) ==
    /\ SamePayment(reviews'[s], reviews[s]) \/ reviews'[s] = Absent("purged")
    /\ SamePayment(reviews'[s], reviewsDisk'[s])

LEMMA PaymentsUnwritten ==
    ASSUME PaymentsDated, UNCHANGED reviewVars, NEW s \in Requests PROVE PaymentKept(s)
  BY DEF PaymentsDated, PaymentKept, SamePayment, reviewVars

LEMMA PaymentsWritten ==
    ASSUME TypeOK, PaymentsDated, NEW r \in Requests, NEW rv, SamePayment(rv, reviews[r]),
           \/ PersistReview(Updated(r, rv))
           \/ reviews' = Updated(r, rv) /\ UNCHANGED reviewsDisk,
           NEW s \in Requests
    PROVE  PaymentKept(s)
<1>1. CASE ReviewSaved(Updated(r, rv))
  BY <1>1, WriteShows DEF PaymentsDated, PaymentKept, SamePayment
<1>2. CASE ReviewNotSaved(Updated(r, rv))
  BY <1>2, PaymentsUnwritten DEF ReviewNotSaved
<1>3. CASE reviews' = Updated(r, rv) /\ UNCHANGED reviewsDisk
  <2>1. reviews'[s] = IF s = r THEN rv ELSE reviews[s]
    BY <1>3 DEF Updated, TypeOK, ReviewLedger
  <2> QED
    BY <1>3, <2>1 DEF PaymentsDated, PaymentKept, SamePayment
<1> QED
  BY <1>1, <1>2, <1>3 DEF PersistReview

\* Only CreateRequest makes a payment show on a record.
LEMMA PaymentsStep ==
    ASSUME TypeOK, PaymentsDated, [Next]_vars, ~ \E r \in Requests : CreateRequest(r), NEW s \in Requests
    PROVE  PaymentKept(s)
<1> DEFINE Writes(r) == \E rv : /\ SamePayment(rv, reviews[r])
                                /\ \/ PersistReview(Updated(r, rv))
                                   \/ reviews' = Updated(r, rv) /\ UNCHANGED reviewsDisk
<1>0. ASSUME NEW r \in Requests, Writes(r) PROVE PaymentKept(s)
  BY <1>0, PaymentsWritten
<1> HIDE DEF Writes
<1>1. ASSUME NEW r \in Requests PROVE reviews[r] \in Review
  BY DEF TypeOK, ReviewLedger
<1>2. ASSUME NEW r \in Requests, Approve(r) PROVE PaymentKept(s)
  <2> DEFINE rv == [reviews[r] EXCEPT !.status = "approved", !.reviewed = day]
  <2>1. SamePayment(rv, reviews[r])
    BY <1>1 DEF SamePayment, Review
  <2> HIDE DEF rv
  <2> QED
    BY <1>0, <1>2, <2>1 DEF Writes, Approve, PersistReview, rv
<1>3. ASSUME NEW r \in Requests, RequeueApprovedPreflightFailure(r) PROVE PaymentKept(s)
  <2> DEFINE rv == [reviews[r] EXCEPT !.status = "pending", !.reviewed = 0, !.reason = "none"]
  <2>1. SamePayment(rv, reviews[r])
    BY <1>1 DEF SamePayment, Review
  <2> HIDE DEF rv
  <2> QED
    BY <1>0, <1>3, <2>1 DEF Writes, RequeueApprovedPreflightFailure, rv
<1>4. ASSUME NEW r \in Requests, RejectApprovedPreflight(r) PROVE PaymentKept(s)
  <2> DEFINE rv == [reviews[r] EXCEPT !.status = "rejected", !.reviewed = day, !.reason = "preflight"]
  <2>1. SamePayment(rv, reviews[r])
    BY <1>1 DEF SamePayment, Review
  <2> HIDE DEF rv
  <2> QED
    BY <1>0, <1>4, <2>1 DEF Writes, RejectApprovedPreflight, PersistThenRefund, PersistReview, rv
<1>5. ASSUME NEW r \in Requests, LinkSubscription(r) \/ SubscriptionPolled(r) PROVE PaymentKept(s)
  <2> DEFINE link(l) == [reviews[r] EXCEPT !.link = l]
  <2>1. \A l : SamePayment(link(l), reviews[r])
    BY <1>1 DEF SamePayment, Review
  <2>2. \E l : \/ PersistReview(Updated(r, link(l)))
               \/ reviews' = Updated(r, link(l)) /\ UNCHANGED reviewsDisk
    BY <1>5 DEF LinkSubscription, SubscriptionPolled, PersistReview
  <2> HIDE DEF link
  <2> QED
    BY <1>0, <2>1, <2>2 DEF Writes
<1>6. ASSUME NEW r \in Requests, ApproveMarksStuck(r) \/ RetryMarksStuck(r) PROVE PaymentKept(s)
  <2> DEFINE count(k) == [reviews[r] EXCEPT !.retries = k]
  <2>1. \A k : SamePayment(count(k), reviews[r])
    BY <1>1 DEF SamePayment, Review
  <2>2. \E k : PersistReview(Updated(r, count(k)))
    BY <1>6 DEF ApproveMarksStuck, RetryMarksStuck, PersistThenRefund, PersistReview
  <2> HIDE DEF count
  <2> QED
    BY <1>0, <2>1, <2>2 DEF Writes
<1>7. ASSUME NEW r \in Requests, FailExhaustedStuckRequest(r) PROVE PaymentKept(s)
  <2> DEFINE rv == [reviews[r] EXCEPT !.status = "failed", !.pending = @ \/ ~reviews[r].restored]
  <2>1. SamePayment(rv, reviews[r])
    BY <1>1 DEF SamePayment, Review
  <2> HIDE DEF rv
  <2> QED
    BY <1>0, <1>7, <2>1 DEF Writes, FailExhaustedStuckRequest, PersistThenRefund, PersistReview, rv
<1>8. ASSUME NEW r \in Requests, NEW status, NEW reason, EndPending(r, status, reason) PROVE PaymentKept(s)
  <2> DEFINE rv == [reviews[r] EXCEPT !.status = status, !.reviewed = day,
                                      !.reason = reason, !.pending = ~reviews[r].restored]
  <2>1. SamePayment(rv, reviews[r])
    BY <1>1 DEF SamePayment, Review
  <2> HIDE DEF rv
  <2> QED
    BY <1>0, <1>8, <2>1 DEF Writes, EndPending, PersistThenRefund, PersistReview, rv
<1>9. CASE FinishRefund
  <2> PICK r \in Requests : r = refund.req
    BY <1>9 DEF FinishRefund, TypeOK
  <2> DEFINE rv == [reviews[r] EXCEPT !.restored = TRUE, !.pending = FALSE]
  <2>1. SamePayment(rv, reviews[r])
    BY <1>1 DEF SamePayment, Review
  <2> HIDE DEF rv
  <2> QED
    BY <1>0, <1>9, <2>1 DEF Writes, FinishRefund, PersistReview, rv
<1>10. CASE Cleanup
  <2>1. CASE UNCHANGED reviewVars
    BY <2>1, PaymentsUnwritten
  <2>2. CASE reviews'[s] = reviewsDisk'[s] /\ reviews'[s] \in {Absent("purged"), reviews[s]}
    BY <2>2 DEF PaymentKept, SamePayment
  <2> QED
    BY <1>10, <2>1, <2>2 DEF Cleanup, PersistReview, ReviewSaved, ReviewNotSaved
<1>11. CASE Restart
  BY <1>11 DEF Restart, PaymentsDated, PaymentKept, SamePayment
<1>12. CASE \/ UseQuota \/ RestoreQuota \/ SkipResubmit \/ NextDay
            \/ \E u \in Users, c \in Contents : BeginSubmit(u, c)
            \/ \E u \in Users : GetQuotaInfo(u)
            \/ UNCHANGED vars
  BY <1>12, PaymentsUnwritten
  DEF UseQuota, RestoreQuota, SkipResubmit, NextDay, BeginSubmit, GetQuotaInfo, vars, reviewVars
<1>13. ASSUME NEW r \in Requests,
              \/ ApproveReturns(r) \/ BeginResubmit(r)
              \/ \E by \in {"handler", "boot"} : BeginRefund(r, by)
       PROVE  PaymentKept(s)
  BY <1>13, PaymentsUnwritten DEF ApproveReturns, BeginResubmit, BeginRefund
<1> QED
  BY <1>2, <1>3, <1>4, <1>5, <1>6, <1>7, <1>8, <1>9, <1>10, <1>11, <1>12, <1>13
  DEF Next, Reject, CancelByUser

-----------------------------------------------------------------------------
\* A submission is charged by UseQuota only.
LEMMA ChargedBy ==
    ASSUME [Next]_vars, ~UseQuota
    PROVE  submission' = submission \/ submission'.pc \in {"idle", "checked"}
           \/ \E r \in Requests : CreateRequest(r)
<1>1. ASSUME NEW u \in Users, NEW c \in Contents, BeginSubmit(u, c) PROVE submission'.pc = "checked"
  BY <1>1 DEF BeginSubmit
<1>4. CASE RestoreQuota \/ Restart
  <2>1. submission' = Idle
    BY <1>4 DEF RestoreQuota, Restart
  <2> QED
    BY <2>1 DEF Idle
<1>5. CASE \/ SkipResubmit \/ NextDay \/ FinishRefund \/ Cleanup \/ UNCHANGED vars
           \/ \E u \in Users : GetQuotaInfo(u)
  BY <1>5 DEF SkipResubmit, NextDay, FinishRefund, Cleanup, GetQuotaInfo, vars, flowVars
<1>2. ASSUME NEW r \in Requests,
             \/ Approve(r) \/ RequeueApprovedPreflightFailure(r)
             \/ RejectApprovedPreflight(r) \/ LinkSubscription(r) \/ ApproveMarksStuck(r)
             \/ RetryMarksStuck(r) \/ ApproveReturns(r) \/ BeginResubmit(r)
      PROVE  submission' = submission
  BY <1>2 DEF Approve, RequeueApprovedPreflightFailure, RejectApprovedPreflight, LinkSubscription,
     ApproveMarksStuck, RetryMarksStuck, ApproveReturns, BeginResubmit
<1>3. ASSUME NEW r \in Requests,
             \/ FailExhaustedStuckRequest(r) \/ Reject(r) \/ CancelByUser(r)
             \/ SubscriptionPolled(r) \/ \E by \in {"handler", "boot"} : BeginRefund(r, by)
      PROVE  submission' = submission
  BY <1>3 DEF FailExhaustedStuckRequest, Reject, CancelByUser, EndPending, SubscriptionPolled,
     BeginRefund, flowVars
<1> QED
  BY <1>1, <1>2, <1>3, <1>4, <1>5 DEF Next

\* What is due today is a number.
LEMMA DueType ==
    ASSUME NEW u \in Users, NEW m \in MediaTypes, IsFiniteSet(Paid(u, m))
    PROVE  /\ Cardinality(Paid(u, m)) \in Nat /\ NetToday(u, m) \in Nat /\ Due(u, m) \in Nat
           /\ NetToday(u, m) <= Due(u, m)
<1>1. Cardinality(Paid(u, m)) \in Nat
  BY FS_CardinalityType
<1>2. NetToday(u, m) \in Nat /\ Units(m) \in {1, 3}
  BY <1>1, UnitsTimes DEF NetToday
<1> HIDE DEF NetToday
<1> QED
  BY <1>1, <1>2 DEF Due

\* With fewer payments on the records, what they come to falls.
LEMMA NetFalls ==
    ASSUME NEW u \in Users, NEW m \in MediaTypes, IsFiniteSet(Paid(u, m)),
           Paid(u, m)' \subseteq Paid(u, m)
    PROVE  /\ IsFiniteSet(Paid(u, m)') /\ NetToday(u, m)' \in Nat
           /\ NetToday(u, m)' <= NetToday(u, m)
<1> DEFINE P == Paid(u, m)
           Q == Paid(u, m)'
<1>1. IsFiniteSet(P) /\ Q \in SUBSET P
  OBVIOUS
<1>2. NetToday(u, m) = Units(m) * Cardinality(P) /\ NetToday(u, m)' = Units(m) * Cardinality(Q)
  BY DEF NetToday
<1> HIDE DEF P, Q
<1>3. IsFiniteSet(Q) /\ Cardinality(Q) <= Cardinality(P) /\ Cardinality(Q) \in Nat /\ Cardinality(P) \in Nat
  BY <1>1, FS_Subset, FS_CardinalityType
<1> QED
  BY <1>2, <1>3, UnitsTimes DEF Q

\* A step that neither charges nor creates only lowers what is due.
LEMMA DueFalls ==
    ASSUME TypeOK, CapInv, UNCHANGED day, quota.restored \subseteq quota'.restored,
           submission' = submission \/ submission'.pc \in {"idle", "checked"},
           \A s \in Requests : PaymentKept(s),
           NEW u \in Users, NEW m \in MediaTypes
    PROVE  /\ Paid(u, m)' \subseteq Paid(u, m) /\ IsFiniteSet(Paid(u, m)')
           /\ NetToday(u, m)' <= NetToday(u, m) /\ NetToday(u, m)' \in Nat
           /\ Due(u, m)' \in Nat /\ Due(u, m)' <= Due(u, m) /\ Due(u, m) <= UsedToday(u, m)
<1>1. IsFiniteSet(Paid(u, m)) /\ Due(u, m) <= UsedToday(u, m)
  BY DEF CapInv, CapOK
<1>2. Paid(u, m)' \subseteq Paid(u, m)
  <2> SUFFICES ASSUME NEW s \in Requests, s \in Paid(u, m)' PROVE s \in Paid(u, m)
    BY DEF Paid
  <2>1. reviews'[s].user = u /\ u # None
    BY ConstantsOK DEF Paid
  <2>2. SamePayment(reviews'[s], reviews[s])
    BY <2>1 DEF PaymentKept, Absent
  <2> QED
    BY <2>2 DEF Paid, SamePayment
<1>3. IsFiniteSet(Paid(u, m)') /\ NetToday(u, m)' \in Nat /\ NetToday(u, m)' <= NetToday(u, m)
  BY <1>1, <1>2, NetFalls
<1>4. InFlight(u, m)' => InFlight(u, m)
  BY DEF InFlight
<1>5. NetToday(u, m) \in Nat /\ Units(m) \in {1, 3}
  BY <1>1, DueType, UnitsTimes
<1>6. Due(u, m)' = NetToday(u, m)' + (IF InFlight(u, m)' THEN Units(m) ELSE 0)
  BY DEF Due
<1> QED
  BY <1>1, <1>2, <1>3, <1>4, <1>5, <1>6 DEF Due

\* What the disk holds against a user today memory holds too.
LEMMA HeldInMemory ==
    ASSUME TypeOK, CountersOK, NEW u \in Users, NEW m \in MediaTypes
    PROVE  UsedToday(u, m) <= Held(quota, u, m) /\ UsedToday(u, m) \in Nat /\ Held(quota, u, m) \in Nat
<1>1. /\ quotaDisk.resetOn[u] \in Nat /\ quota.resetOn[u] \in Nat /\ day \in Nat
      /\ quota.used[u][m] \in Nat /\ quotaDisk.used[u][m] \in Nat
  BY DEF TypeOK, Quota
<1>2. /\ quota.resetOn[u] <= day
      /\ \/ quotaDisk.resetOn[u] < quota.resetOn[u]
         \/ quotaDisk.resetOn[u] = quota.resetOn[u] /\ quotaDisk.used[u] = quota.used[u]
  BY DEF CountersOK
<1> QED
  BY <1>1, <1>2 DEF UsedToday, Held

\* The calendar moves in NextDay only.
LEMMA DayStep ==
    ASSUME TypeOK, [Next]_vars, ~StraddleMidnight
    PROVE  /\ day \in Nat /\ day' \in Nat /\ day <= day'
           /\ day' = day \/ (NextDay /\ submission = Idle /\ submission' = Idle)
<1>1. day' = day \/ NextDay
  <2>1. CASE QuotaStep /\ ~NextDay
    BY <2>1 DEF QuotaStep, UseQuota, RestoreQuota, Restart, GetQuotaInfo, BeginRefund
  <2> QED
    BY <2>1, QuotaStepsOnly
<1> QED
  BY <1>1 DEF TypeOK, NextDay, flowVars

\* Records and charges stay of one day, in memory and on disk.
LEMMA DatedStep ==
    ASSUME TypeOK, PaymentsDated, [Next]_vars, ~StraddleMidnight PROVE PaymentsDated'
<1>1. submission'.pc \in {"charged", "createFailed"} => submission'.charged = day'
  <2>1. CASE UseQuota
    <3>1. submission' = Idle \/ submission' = [submission EXCEPT !.pc = "charged", !.charged = day]
      BY <2>1 DEF UseQuota
    <3>2. day' = day
      BY <2>1 DEF UseQuota
    <3>3. [submission EXCEPT !.pc = "charged", !.charged = day].charged = day /\ Idle.pc = "idle"
      BY DEF Idle, TypeOK, Submissions
    <3> QED
      BY <3>1, <3>2, <3>3
  <2>2. ASSUME NEW r \in Requests, CreateRequest(r)
        PROVE  submission'.pc \in {"charged", "createFailed"} => submission'.charged = day'
    <3>1. /\ submission' = Idle \/ submission' = [submission EXCEPT !.pc = "createFailed"]
          /\ submission.pc = "charged" /\ day' = day
      BY <2>2 DEF CreateRequest
    <3>2. [submission EXCEPT !.pc = "createFailed"].charged = submission.charged /\ Idle.pc = "idle"
      BY DEF Idle, TypeOK, Submissions
    <3> QED
      BY <3>1, <3>2 DEF PaymentsDated
  <2>3. CASE submission' = submission \/ submission'.pc \in {"idle", "checked"}
    BY <2>3, DayStep DEF PaymentsDated, Idle
  <2> QED
    BY <2>1, <2>2, <2>3, ChargedBy
<1>2. ASSUME NEW s \in Requests
      PROVE  /\ reviews'[s].created = reviews'[s].charged /\ reviews'[s].charged <= day'
             /\ SamePayment(reviews'[s], reviewsDisk'[s])
  <2>1. /\ reviews[s].created = reviews[s].charged /\ reviews[s].charged <= day
        /\ reviews[s].charged \in Nat /\ SamePayment(reviews[s], reviewsDisk[s])
    BY DEF PaymentsDated, TypeOK, ReviewLedger, Review
  <2>2. CASE PaymentKept(s)
    <3>1. /\ reviews'[s].created = reviews'[s].charged
          /\ reviews'[s].charged = reviews[s].charged \/ reviews'[s].charged = 0
      BY <2>1, <2>2 DEF PaymentKept, SamePayment, Absent
    <3> QED
      BY <2>1, <2>2, <3>1, DayStep DEF PaymentKept
  <2>3. ASSUME NEW r \in Requests, CreateRequest(r)
        PROVE  /\ reviews'[s].created = reviews'[s].charged /\ reviews'[s].charged <= day'
               /\ SamePayment(reviews'[s], reviewsDisk'[s])
    <3> DEFINE rv == [Absent("pending") EXCEPT !.user    = submission.user,
                                               !.content = submission.content,
                                               !.charged = submission.charged,
                                               !.created = day]
    <3>1. rv.charged = day /\ rv.created = day
      BY <2>3 DEF Absent, CreateRequest, PaymentsDated
    <3>2. (ReviewSaved(Updated(r, rv)) \/ UNCHANGED reviewVars) /\ day' = day
      BY <2>3 DEF CreateRequest, ReviewNotSaved
    <3> HIDE DEF rv
    <3>3. CASE UNCHANGED reviewVars
      BY <2>1, <3>2, <3>3 DEF reviewVars
    <3>4. CASE ReviewSaved(Updated(r, rv)) /\ s = r
      BY <3>1, <3>2, <3>4, WriteShows, DayStep DEF SamePayment
    <3>5. CASE ReviewSaved(Updated(r, rv)) /\ s # r
      BY <2>1, <3>2, <3>5, WriteShows DEF SamePayment
    <3> QED
      BY <3>2, <3>3, <3>4, <3>5
  <2> QED
    BY <2>2, <2>3, PaymentsStep
<1> QED
  BY <1>1, <1>2 DEF PaymentsDated

\* A step that leaves the quota ledger alone, or only resets it in memory.
LEMMA CapQuiet ==
    ASSUME TypeOK, CapInv, UNCHANGED <<quotaDisk, day>>,
           quota' = quota \/ \E w \in Users : quota' = ResetFor(quota, w),
           submission' = submission \/ submission'.pc \in {"idle", "checked"},
           \A s \in Requests : PaymentKept(s),
           NEW u \in Users, NEW m \in MediaTypes
    PROVE  CapOK(u, m)'
<1>1. /\ quota.restored = quota'.restored
      /\ quota'.used[u][m] \in {0, quota.used[u][m]}
  <2>1. quota \in Quota /\ day \in Nat
    BY DEF TypeOK
  <2>2. ASSUME NEW w \in Users, quota' = ResetFor(quota, w)
        PROVE  quota.restored = quota'.restored /\ quota'.used[u][m] \in {0, quota.used[u][m]}
    BY <2>1, <2>2, ResetForType, ResetForHeld
  <2> QED
    BY <2>2
<1>2. UsedToday(u, m)' = UsedToday(u, m) /\ quotaDisk'.used[u][m] = quotaDisk.used[u][m]
  BY DEF UsedToday
<1>3. /\ IsFiniteSet(Paid(u, m)')
      /\ Due(u, m)' \in Nat /\ Due(u, m)' <= Due(u, m) /\ Due(u, m) <= UsedToday(u, m)
  BY <1>1, DueFalls
<1>4. /\ quota.used[u][m] <= Limit /\ quotaDisk.used[u][m] <= Limit
      /\ IsFiniteSet(Paid(u, m)) /\ Limit \in Nat
      /\ quotaDisk.used[u][m] \in Nat /\ UsedToday(u, m) \in Nat
  BY ConstantsOK DEF CapInv, CapOK, TypeOK, Quota, UsedToday
<1>5. Due(u, m) \in Nat
  BY <1>4, DueType
<1> QED
  BY <1>1, <1>2, <1>3, <1>4, <1>5 DEF CapOK

\* A write of the quota ledger within the limit, that leaves what is due on the counter.
LEMMA CapSaved ==
    ASSUME NEW new, QuotaSaved(new), UNCHANGED day, NEW u \in Users, NEW m \in MediaTypes,
           new.used[u][m] <= Limit, IsFiniteSet(Paid(u, m)'), Due(u, m)' <= Held(new, u, m)
    PROVE  CapOK(u, m)'
<1>1. quota' = new /\ quotaDisk' = new
  BY DEF QuotaSaved
<1>2. UsedToday(u, m)' = Held(new, u, m)
  BY <1>1 DEF UsedToday, Held
<1> QED
  BY <1>1, <1>2 DEF CapOK

\* A submission is charged when its cost fits under the limit.
LEMMA CapUse ==
    ASSUME TypeOK, CountersOK, CapInv, UseQuota, \A s \in Requests : PaymentKept(s),
           NEW v \in Users, NEW m \in MediaTypes
    PROVE  CapOK(v, m)'
<1> DEFINE u == submission.user
           c == submission.content
           q == ResetFor(quota, u)
           new == Charge(q, u, c)
<1>1. u \in Users /\ c \in Contents /\ submission.pc = "checked"
  BY DEF TypeOK, UseQuota, Submissions
<1>2. q \in Quota /\ q.restored = quota.restored /\ day \in Nat /\ quota \in Quota
  BY <1>1, ResetForType DEF TypeOK
<1>3. new \in Quota /\ new.restored = q.restored /\ new.resetOn = q.resetOn
  BY <1>1, <1>2, ChargeType, ChargeShows
<1>4. UNCHANGED day /\ \/ /\ quota' \in {quota, q} /\ UNCHANGED quotaDisk /\ submission' = Idle
                       \/ /\ QuotaSaved(new) /\ q.used[u][MediaType[c]] + Cost(c) <= Limit
                          /\ submission' = [submission EXCEPT !.pc = "charged", !.charged = day]
  BY DEF UseQuota, QuotaNotSaved, quotaVars
<1>5. CASE quota' \in {quota, q} /\ UNCHANGED quotaDisk /\ submission' = Idle
  <2>1. submission'.pc = "idle"
    BY <1>5 DEF Idle
  <2> HIDE DEF u
  <2> QED
    BY <1>1, <1>4, <1>5, <2>1, CapQuiet
<1>6. CASE /\ QuotaSaved(new) /\ q.used[u][MediaType[c]] + Cost(c) <= Limit
           /\ submission' = [submission EXCEPT !.pc = "charged", !.charged = day]
  <2>1. submission'.user = u /\ submission'.content = c /\ ~InFlight(v, m)
    BY <1>1, <1>6 DEF TypeOK, Submissions, InFlight
  <2>2. InFlight(v, m)' <=> submission'.pc \in {"charged", "createFailed"} /\ u = v /\ MediaType[c] = m
    BY <2>1 DEF InFlight
  <2> HIDE DEF u, c, q, new
  <2>3. IsFiniteSet(Paid(v, m)) /\ Due(v, m) <= UsedToday(v, m)
    BY DEF CapInv, CapOK
  <2>4. Paid(v, m)' \subseteq Paid(v, m)
    <3> SUFFICES ASSUME NEW s \in Requests, s \in Paid(v, m)' PROVE s \in Paid(v, m)
      BY DEF Paid
    <3>1. reviews'[s].user = v /\ v # None
      BY ConstantsOK DEF Paid
    <3>2. SamePayment(reviews'[s], reviews[s])
      BY <3>1 DEF PaymentKept, Absent
    <3>3. quota'.restored = quota.restored
      BY <1>2, <1>3, <1>6 DEF QuotaSaved
    <3> QED
      BY <1>4, <3>2, <3>3 DEF Paid, SamePayment
  <2>5. /\ IsFiniteSet(Paid(v, m)') /\ NetToday(v, m)' \in Nat /\ NetToday(v, m)' <= NetToday(v, m)
        /\ NetToday(v, m) \in Nat /\ NetToday(v, m) <= Due(v, m) /\ Due(v, m) \in Nat
    BY <2>3, <2>4, NetFalls, DueType
  <2>6. /\ Held(q, v, m) = Held(quota, v, m) /\ q.used[v][m] \in {0, quota.used[v][m]}
        /\ q.resetOn[u] = day
    BY <1>1, <1>2, ResetForHeld, ResetForShows DEF q
  <2>7. new.used[v][m] = IF v = u /\ m = MediaType[c] THEN q.used[v][m] + Cost(c) ELSE q.used[v][m]
    BY <1>1, <1>2, ChargeCounts DEF new
  <2>8. UsedToday(v, m) <= Held(quota, v, m) /\ UsedToday(v, m) \in Nat /\ Held(quota, v, m) \in Nat
    BY HeldInMemory
  <2>9. Cost(c) = Units(MediaType[c]) /\ Units(m) \in {1, 3}
    BY UnitsTimes DEF Cost
  <2>10. quota.used[v][m] <= Limit /\ Limit \in Nat /\ quota.used[v][m] \in Nat /\ q.used[v][m] \in Nat
    BY <1>2, ConstantsOK DEF CapInv, CapOK, Quota
  <2>11. Due(v, m)' = NetToday(v, m)' + (IF InFlight(v, m)' THEN Units(m) ELSE 0)
    BY DEF Due
  <2>12. CASE v = u /\ m = MediaType[c]
    <3>1. Held(new, v, m) = Held(quota, v, m) + Units(m)
      BY <1>3, <2>6, <2>7, <2>9, <2>12 DEF Held
    <3>2. new.used[v][m] <= Limit
      BY <1>6, <2>7, <2>9, <2>12
    <3>3. Due(v, m)' <= NetToday(v, m)' + Units(m)
      BY <2>5, <2>9, <2>11
    <3>4. Due(v, m)' \in Nat
      BY <2>5, <2>9, <2>11
    <3>5. Due(v, m)' <= Held(new, v, m)
      BY <2>3, <2>5, <2>8, <2>9, <3>1, <3>3, <3>4
    <3> QED
      BY <1>4, <1>6, <2>5, <3>2, <3>5, CapSaved
  <2>13. CASE ~(v = u /\ m = MediaType[c])
    <3>1. Held(new, v, m) = Held(quota, v, m) /\ new.used[v][m] <= Limit
      BY <1>3, <2>6, <2>7, <2>10, <2>13 DEF Held
    <3>2. Due(v, m)' = NetToday(v, m)'
      BY <2>2, <2>5, <2>11, <2>13
    <3>3. Due(v, m)' <= Held(new, v, m)
      BY <2>3, <2>5, <2>8, <3>1, <3>2
    <3> QED
      BY <1>4, <1>6, <2>5, <3>1, <3>3, CapSaved
  <2> QED
    BY <2>12, <2>13
<1> QED
  BY <1>4, <1>5, <1>6

\* A write that gives back, for what is no longer due, what it cost.
LEMMA CapGivenBack ==
    ASSUME TypeOK, CountersOK, CapInv, NEW u \in Users, NEW c \in Contents, NEW new,
           QuotaSaved(new), UNCHANGED day,
           new.resetOn = quota.resetOn, new.used = Uncharge(quota, u, c).used,
           NEW v \in Users, NEW m \in MediaTypes,
           IsFiniteSet(Paid(v, m)'), Due(v, m)' \in Nat,
           Due(v, m)' <= IF v = u /\ m = MediaType[c] THEN Due(v, m) - Units(m) ELSE Due(v, m)
    PROVE  CapOK(v, m)'
<1>1. /\ IsFiniteSet(Paid(v, m)) /\ Due(v, m) <= UsedToday(v, m) /\ quota.used[v][m] <= Limit
      /\ quota.used[v][m] \in Nat /\ Limit \in Nat /\ quota \in Quota
  BY ConstantsOK DEF CapInv, CapOK, TypeOK, Quota
<1>2. Due(v, m) \in Nat
  BY <1>1, DueType
<1>3. UsedToday(v, m) <= Held(quota, v, m) /\ UsedToday(v, m) \in Nat /\ Held(quota, v, m) \in Nat
  BY HeldInMemory
<1>4. new.used[v][m] = IF v = u /\ m = MediaType[c]
                       THEN IF quota.used[v][m] < Cost(c) THEN 0 ELSE quota.used[v][m] - Cost(c)
                       ELSE quota.used[v][m]
  BY <1>1, UnchargeCounts
<1>5. Cost(c) = Units(MediaType[c]) /\ Units(m) \in {1, 3}
  BY UnitsTimes DEF Cost
<1>6. CASE v = u /\ m = MediaType[c]
  <2>1. Held(quota, v, m) >= Units(m)
    BY <1>1, <1>2, <1>3, <1>5, <1>6
  <2>2. quota.resetOn[v] = day /\ quota.used[v][m] = Held(quota, v, m)
    BY <1>5, <2>1 DEF Held
  <2>3. new.used[v][m] = Held(quota, v, m) - Units(m)
    BY <1>1, <1>4, <1>5, <1>6, <2>1, <2>2
  <2>4. Held(new, v, m) = Held(quota, v, m) - Units(m)
    BY <2>2, <2>3 DEF Held
  <2>5. Due(v, m)' <= Held(new, v, m)
    BY <1>1, <1>2, <1>3, <1>5, <1>6, <2>4
  <2>6. new.used[v][m] <= Limit
    BY <1>1, <1>5, <2>2, <2>3
  <2> QED
    BY <2>5, <2>6, CapSaved
<1>7. CASE ~(v = u /\ m = MediaType[c])
  <2>1. Held(new, v, m) = Held(quota, v, m) /\ new.used[v][m] <= Limit
    BY <1>1, <1>4, <1>7 DEF Held
  <2>2. Due(v, m)' <= Held(new, v, m)
    BY <1>1, <1>2, <1>3, <1>7, <2>1
  <2> QED
    BY <2>1, <2>2, CapSaved
<1> QED
  BY <1>6, <1>7

\* Creation failed: the submission's charge is given back, or lost.
LEMMA CapRestore ==
    ASSUME TypeOK, CountersOK, CapInv, RestoreQuota, \A s \in Requests : PaymentKept(s),
           NEW v \in Users, NEW m \in MediaTypes
    PROVE  CapOK(v, m)'
<1> DEFINE u == submission.user
           c == submission.content
           new == Uncharge(quota, u, c)
<1>1. u \in Users /\ c \in Contents /\ submission.pc = "createFailed" /\ quota \in Quota
  BY DEF TypeOK, RestoreQuota, Submissions
<1>2. UNCHANGED day /\ submission'.pc = "idle" /\ (QuotaSaved(new) \/ UNCHANGED quotaVars)
  BY DEF RestoreQuota, QuotaNotSaved, Idle
<1>3. new.resetOn = quota.resetOn /\ new.restored = quota.restored
  BY <1>1, UnchargeShows, UnchargeType
<1>4. InFlight(v, m) <=> u = v /\ MediaType[c] = m
  BY <1>1 DEF InFlight
<1> HIDE DEF u, c, new
<1>5. CASE UNCHANGED quotaVars
  BY <1>2, <1>5, CapQuiet DEF quotaVars
<1>6. CASE QuotaSaved(new)
  <2>1. quota.restored \subseteq quota'.restored
    BY <1>3, <1>6 DEF QuotaSaved
  <2>2. /\ IsFiniteSet(Paid(v, m)') /\ Due(v, m)' \in Nat /\ Due(v, m)' <= Due(v, m)
        /\ NetToday(v, m)' <= NetToday(v, m) /\ NetToday(v, m)' \in Nat
    BY <1>2, <2>1, DueFalls
  <2>3. NetToday(v, m) \in Nat /\ Units(m) \in {1, 3}
    BY DueType, UnitsTimes DEF CapInv, CapOK
  <2>4. ~InFlight(v, m)'
    BY <1>2 DEF InFlight
  <2>5. Due(v, m)' = NetToday(v, m)'
    BY <2>2, <2>4 DEF Due
  <2>6. v = u /\ m = MediaType[c] => Due(v, m) = NetToday(v, m) + Units(m)
    BY <1>4 DEF Due
  <2>7. Due(v, m)' <= IF v = u /\ m = MediaType[c] THEN Due(v, m) - Units(m) ELSE Due(v, m)
    BY <2>2, <2>3, <2>5, <2>6
  <2> QED
    BY <1>1, <1>2, <1>3, <1>6, <2>2, <2>7, CapGivenBack DEF new
<1> QED
  BY <1>2, <1>5, <1>6

\* A refund takes off the counter of today what was charged today, and the request with it.
LEMMA CapRefund ==
    ASSUME TypeOK, LedgerInv, CountersOK, CapInv, NEW r \in Requests, NEW by \in {"handler", "boot"},
           BeginRefund(r, by), \A s \in Requests : PaymentKept(s),
           NEW v \in Users, NEW m \in MediaTypes
    PROVE  CapOK(v, m)'
<1> DEFINE u == reviews[r].user
           c == reviews[r].content
           new == Refunded(quota, r)
<1>1. /\ UNCHANGED <<reviews, submission, day>>
      /\ \/ UNCHANGED quotaVars
         \/ /\ QuotaSaved(new) /\ r \notin quota.restored /\ reviews[r].status \notin {"none", "purged"}
  BY Zenon DEF BeginRefund, QuotaNotSaved, reviewVars, flowVars
<1>2. CASE UNCHANGED quotaVars
  BY <1>1, <1>2, CapQuiet DEF quotaVars
<1>3. CASE /\ QuotaSaved(new) /\ r \notin quota.restored /\ reviews[r].status \notin {"none", "purged"}
  <2>1. u \in Users /\ c \in Contents /\ quota \in Quota
    BY <1>3 DEF TypeOK, ReviewLedger
  <2>2. /\ Uncharge(quota, u, c) \in Quota /\ Uncharge(quota, u, c).restored = quota.restored
        /\ Uncharge(quota, u, c).resetOn = quota.resetOn
    BY <2>1, UnchargeType, UnchargeShows
  <2>3. /\ new.restored = quota.restored \cup {r} /\ new.resetOn = quota.resetOn
        /\ new.used = IF reviews[r].created = day THEN Uncharge(quota, u, c).used ELSE quota.used
    BY <2>1, <2>2 DEF Refunded, Quota
  <2> HIDE DEF u, c, new
  <2>4. quota.restored \subseteq quota'.restored /\ quota'.restored = quota.restored \cup {r}
    BY <1>3, <2>3 DEF QuotaSaved
  <2>5. /\ IsFiniteSet(Paid(v, m)') /\ Due(v, m)' \in Nat /\ Due(v, m)' <= Due(v, m)
        /\ NetToday(v, m)' \in Nat /\ Due(v, m) <= UsedToday(v, m)
    BY <1>1, <2>4, DueFalls
  <2>6. CASE reviews[r].created = day
    <3>1. v = u /\ m = MediaType[c] => r \in Paid(v, m)
      BY <1>3, <2>6 DEF Paid, CapInv, PaymentsDated, u, c
    <3>2. Paid(v, m)' = Paid(v, m) \ {r}
      BY <1>1, <2>4 DEF Paid
    <3>3. v = u /\ m = MediaType[c] => Due(v, m)' <= Due(v, m) - Units(m)
      <4> SUFFICES ASSUME r \in Paid(v, m) PROVE Due(v, m)' <= Due(v, m) - Units(m)
        BY <3>1
      <4> DEFINE P == Paid(v, m)
      <4>1. IsFiniteSet(P) /\ r \in P
        BY DEF CapInv, CapOK
      <4>2. NetToday(v, m) = Units(m) * Cardinality(P) /\ NetToday(v, m)' = Units(m) * Cardinality(P \ {r})
        BY <3>2 DEF NetToday
      <4> HIDE DEF P
      <4>3. Cardinality(P \ {r}) = Cardinality(P) - 1 /\ Cardinality(P \ {r}) \in Nat /\ Cardinality(P) \in Nat
        BY <4>1, FS_RemoveElement, FS_CardinalityType
      <4>4. Cardinality(P) = Cardinality(P \ {r}) + 1
        BY <4>3
      <4>5. NetToday(v, m) = NetToday(v, m)' + Units(m)
        BY <4>2, <4>3, <4>4, UnitsTimes
      <4>6. InFlight(v, m)' <=> InFlight(v, m)
        BY <1>1 DEF InFlight
      <4>7. Units(m) \in {1, 3}
        BY UnitsTimes
      <4>8. Due(v, m)' = NetToday(v, m)' + (IF InFlight(v, m)' THEN Units(m) ELSE 0)
        BY DEF Due
      <4> QED
        BY <2>5, <4>5, <4>6, <4>7, <4>8 DEF Due
    <3> QED
      BY <1>1, <1>3, <2>1, <2>3, <2>5, <2>6, <3>3, CapGivenBack
  <2>7. CASE reviews[r].created # day
    <3>1. /\ quota.used[v][m] <= Limit /\ IsFiniteSet(Paid(v, m))
      BY DEF CapInv, CapOK
    <3>2. UsedToday(v, m) <= Held(quota, v, m) /\ UsedToday(v, m) \in Nat /\ Held(quota, v, m) \in Nat
      BY HeldInMemory
    <3>3. Held(new, v, m) = Held(quota, v, m) /\ new.used[v][m] <= Limit
      BY <2>3, <2>7, <3>1 DEF Held
    <3>4. Due(v, m) \in Nat
      BY <3>1, DueType
    <3>5. Due(v, m)' <= Held(new, v, m)
      BY <2>5, <3>2, <3>3, <3>4
    <3> QED
      BY <1>1, <1>3, <2>5, <3>3, <3>5, CapSaved
  <2> QED
    BY <2>6, <2>7
<1> QED
  BY <1>1, <1>2, <1>3

\* The charge of a submission becomes the payment of its record.
LEMMA CapCreate ==
    ASSUME TypeOK, CapInv, NEW r \in Requests, CreateRequest(r), NEW v \in Users, NEW m \in MediaTypes
    PROVE  CapOK(v, m)'
<1> DEFINE u == submission.user
           c == submission.content
           rv == [Absent("pending") EXCEPT !.user = u, !.content = c,
                                           !.charged = submission.charged, !.created = day]
<1>1. /\ UNCHANGED <<quota, quotaDisk, day>> /\ submission.pc = "charged"
      /\ \/ ReviewSaved(Updated(r, rv)) /\ submission' = Idle
         \/ UNCHANGED reviewVars /\ submission' = [submission EXCEPT !.pc = "createFailed"]
  BY DEF CreateRequest, ReviewNotSaved, quotaVars
<1>2. /\ IsFiniteSet(Paid(v, m)) /\ Due(v, m) <= UsedToday(v, m)
      /\ quota.used[v][m] <= Limit /\ quotaDisk.used[v][m] <= Limit
  BY DEF CapInv, CapOK
<1>3. rv.user = u /\ rv.content = c
  BY DEF Absent
<1>4. UsedToday(v, m)' = UsedToday(v, m)
  BY <1>1 DEF UsedToday
<1>5. InFlight(v, m) <=> u = v /\ MediaType[c] = m
  BY <1>1 DEF InFlight
<1>6. CASE UNCHANGED reviewVars /\ submission' = [submission EXCEPT !.pc = "createFailed"]
  <2>1. InFlight(v, m)' <=> InFlight(v, m)
    BY <1>1, <1>6 DEF InFlight, TypeOK, Submissions
  <2>2. Paid(v, m)' = Paid(v, m)
    BY <1>1, <1>6 DEF Paid, reviewVars
  <2>3. NetToday(v, m)' = NetToday(v, m)
    BY <2>2 DEF NetToday
  <2>4. Due(v, m)' = Due(v, m)
    BY <2>1, <2>3 DEF Due
  <2> QED
    BY <1>1, <1>2, <1>4, <2>2, <2>4 DEF CapOK
<1>7. CASE ReviewSaved(Updated(r, rv)) /\ submission' = Idle
  <2> HIDE DEF rv
  <2>1. ~InFlight(v, m)'
    BY <1>7 DEF InFlight, Idle
  <2>2. ASSUME NEW s \in Requests
        PROVE  s # r => (s \in Paid(v, m)' <=> s \in Paid(v, m))
    BY <1>1, <1>7, WriteShows DEF Paid
  <2>3. r \in Paid(v, m)' => u = v /\ MediaType[c] = m
    BY <1>3, <1>7, WriteShows DEF Paid
  <2> DEFINE P == Paid(v, m)
             Q == Paid(v, m)'
  <2>4. P \subseteq Requests /\ Q \subseteq Requests
    BY DEF Paid
  <2>5. IsFiniteSet(P) /\ NetToday(v, m) = Units(m) * Cardinality(P)
        /\ NetToday(v, m)' = Units(m) * Cardinality(Q)
    BY <1>2 DEF NetToday
  <2>6. Due(v, m)' = NetToday(v, m)' + (IF InFlight(v, m)' THEN Units(m) ELSE 0)
    BY DEF Due
  <2>7. Due(v, m) \in Nat /\ NetToday(v, m) \in Nat /\ Units(m) \in {1, 3}
    BY <1>2, DueType, UnitsTimes
  <2>8. CASE u = v /\ MediaType[c] = m
    <3>1. Q \in SUBSET (P \cup {r})
      BY <2>2, <2>4
    <3> HIDE DEF P, Q
    <3>0. Cardinality(P) \in Nat
      BY <2>5, FS_CardinalityType
    <3>11. /\ IsFiniteSet(P \cup {r})
          /\ Cardinality(P \cup {r}) = IF r \in P THEN Cardinality(P) ELSE Cardinality(P) + 1
      BY <2>5, FS_AddElement
    <3>2. IsFiniteSet(P \cup {r}) /\ Cardinality(P \cup {r}) <= Cardinality(P) + 1 /\ Cardinality(P) \in Nat
      BY <3>0, <3>11
    <3>3. IsFiniteSet(Q) /\ Cardinality(Q) <= Cardinality(P \cup {r}) /\ Cardinality(Q) \in Nat
          /\ Cardinality(P \cup {r}) \in Nat
      BY <3>1, <3>2, FS_Subset, FS_CardinalityType
    <3>4. Cardinality(Q) <= Cardinality(P) + 1 /\ Cardinality(P) + 1 \in Nat
      BY <3>2, <3>3
    <3>5. Units(m) * Cardinality(Q) <= Units(m) * (Cardinality(P) + 1)
      BY <3>3, <3>4, UnitsTimes
    <3>6. Units(m) * (Cardinality(P) + 1) = Units(m) * Cardinality(P) + Units(m)
      BY <3>2, UnitsTimes
    <3>7. NetToday(v, m)' <= NetToday(v, m) + Units(m) /\ NetToday(v, m)' \in Nat
      BY <2>5, <3>3, <3>5, <3>6, UnitsTimes
    <3>8. Due(v, m)' <= Due(v, m)
      BY <1>5, <2>1, <2>6, <2>7, <2>8, <3>7 DEF Due
    <3>9. Due(v, m)' \in Nat /\ UsedToday(v, m) \in Nat
      BY <2>1, <2>6, <3>7 DEF UsedToday, TypeOK, Quota
    <3>10. Due(v, m)' <= UsedToday(v, m)'
      BY <1>2, <1>4, <2>7, <3>8, <3>9
    <3> QED
      BY <1>1, <1>2, <3>3, <3>10 DEF CapOK, Q
  <2>9. CASE ~(u = v /\ MediaType[c] = m)
    <3>1. Q \subseteq P
      BY <2>2, <2>3, <2>4, <2>9
    <3>2. IsFiniteSet(Q) /\ NetToday(v, m)' \in Nat /\ NetToday(v, m)' <= NetToday(v, m)
      BY <1>2, <3>1, NetFalls
    <3>3. Due(v, m)' <= Due(v, m) /\ Due(v, m)' \in Nat
      BY <1>5, <2>1, <2>6, <2>7, <2>9, <3>2 DEF Due
    <3>4. UsedToday(v, m) \in Nat
      BY DEF UsedToday, TypeOK, Quota
    <3>5. Due(v, m)' <= UsedToday(v, m)'
      BY <1>2, <1>4, <2>7, <3>3, <3>4
    <3> QED
      BY <1>1, <1>2, <3>2, <3>5 DEF CapOK
  <2> QED
    BY <2>8, <2>9
<1> QED
  BY <1>1, <1>6, <1>7

\* A day begins with nothing charged.
LEMMA CapNextDay ==
    ASSUME TypeOK, CountersOK, CapInv, NextDay, submission' = Idle, NEW v \in Users, NEW m \in MediaTypes
    PROVE  CapOK(v, m)'
<1>1. day' = day + 1 /\ day \in Nat /\ UNCHANGED <<reviews, quota, quotaDisk>>
  BY DEF NextDay, reviewVars, quotaVars, TypeOK
<1>2. Paid(v, m)' = {}
  <2> SUFFICES ASSUME NEW s \in Requests, s \in Paid(v, m)' PROVE FALSE
    BY DEF Paid
  <2>1. reviews[s].charged = day + 1
    BY <1>1 DEF Paid
  <2>2. reviews[s].charged <= day /\ reviews[s].charged \in Nat
    BY DEF CapInv, PaymentsDated, TypeOK, ReviewLedger, Review
  <2> QED
    BY <1>1, <2>1, <2>2
<1>3. IsFiniteSet(Paid(v, m)') /\ NetToday(v, m)' = 0
  BY <1>2, FS_EmptySet, UnitsTimes DEF NetToday, Units
<1>4. ~InFlight(v, m)'
  BY DEF InFlight, Idle
<1>5. Due(v, m)' = 0
  BY <1>3, <1>4 DEF Due
<1>6. UsedToday(v, m)' \in Nat
  BY <1>1 DEF UsedToday, TypeOK, Quota
<1>7. quota.used[v][m] <= Limit /\ quotaDisk.used[v][m] <= Limit
  BY DEF CapInv, CapOK
<1> QED
  BY <1>1, <1>3, <1>5, <1>6, <1>7 DEF CapOK

\* A restart reads what is on disk, and resets in memory what is of a past day.
LEMMA CapRestart ==
    ASSUME TypeOK, LedgerInv, CapInv, Restart, \A s \in Requests : PaymentKept(s),
           NEW v \in Users, NEW m \in MediaTypes
    PROVE  CapOK(v, m)'
<1>1. UNCHANGED <<quotaDisk, day>> /\ submission'.pc = "idle"
  BY DEF Restart, Idle
<1>2. /\ quota'.used[v] = ResetFor(quotaDisk, v).used[v] /\ quota'.restored = quotaDisk.restored
  BY DEF Restart, TypeOK, Quota
<1>3. quota'.used[v][m] \in {0, quotaDisk.used[v][m]}
  BY <1>2, ResetForHeld DEF TypeOK
<1>4. quota'.restored = quota.restored
  BY <1>2 DEF LedgerInv, WriteThrough
<1>5. /\ IsFiniteSet(Paid(v, m)')
      /\ Due(v, m)' \in Nat /\ Due(v, m)' <= Due(v, m) /\ Due(v, m) <= UsedToday(v, m)
  BY <1>1, <1>4, DueFalls
<1>6. UsedToday(v, m)' = UsedToday(v, m) /\ UsedToday(v, m) \in Nat
  BY <1>1 DEF UsedToday, TypeOK, Quota
<1>7. quotaDisk.used[v][m] <= Limit /\ Limit \in Nat /\ IsFiniteSet(Paid(v, m))
  BY ConstantsOK DEF CapInv, CapOK
<1>8. Due(v, m) \in Nat
  BY <1>7, DueType
<1> QED
  BY <1>1, <1>3, <1>5, <1>6, <1>7, <1>8 DEF CapOK

\* Every action keeps what is due today on the counters, and the counters under the limit.
LEMMA CapStep ==
    ASSUME TypeOK, LedgerInv, CountersOK, CapInv, [Next]_vars, ~StraddleMidnight PROVE CapInv'
<1>1. PaymentsDated'
  BY DatedStep DEF CapInv
<1>2. ASSUME NEW v \in Users, NEW m \in MediaTypes PROVE CapOK(v, m)'
  <2>1. ASSUME NEW r \in Requests, CreateRequest(r) PROVE CapOK(v, m)'
    BY <2>1, CapCreate
  <2>2. CASE ~ \E r \in Requests : CreateRequest(r)
    <3>1. \A s \in Requests : PaymentKept(s)
      BY <2>2, PaymentsStep DEF CapInv
    <3>2. CASE UseQuota
      BY <3>1, <3>2, CapUse
    <3>3. CASE RestoreQuota
      BY <3>1, <3>3, CapRestore
    <3>4. CASE Restart
      BY <3>1, <3>4, CapRestart
    <3>5. CASE NextDay
      BY <3>5, DayStep, CapNextDay DEF NextDay
    <3>6. ASSUME NEW r \in Requests, NEW by \in {"handler", "boot"}, BeginRefund(r, by)
          PROVE  CapOK(v, m)'
      BY <3>1, <3>6, CapRefund
    <3>7. ASSUME NEW u \in Users, GetQuotaInfo(u) PROVE CapOK(v, m)'
      BY <3>1, <3>7, CapQuiet DEF GetQuotaInfo, flowVars
    <3>8. CASE UNCHANGED <<quotaVars, day>> /\ ~UseQuota
      BY <2>2, <3>1, <3>8, ChargedBy, CapQuiet DEF quotaVars
    <3> QED
      BY <3>2, <3>3, <3>4, <3>5, <3>6, <3>7, <3>8, QuotaStepsOnly DEF QuotaStep
  <2> QED
    BY <2>1, <2>2
<1> QED
  BY <1>1, <1>2 DEF CapInv

\* What the records of a user charge to a day, and no refund gave back, never exceeds the daily
\* limit, whatever writes fail and wherever the process stops, as long as no day begins in the
\* middle of a submission.
THEOREM DailyLimit == ASSUME ~StraddleMidnight PROVE Spec => []DailyCap
<1>1. Spec => []CountersOK
  BY TypeCorrect, InitCounters, CountersStep, PTL DEF Spec
<1>2. TypeOK /\ LedgerInv /\ CountersOK /\ CapInv /\ [Next]_vars => CapInv'
  BY CapStep
<1>3. TypeOK /\ CapInv => DailyCap
  <2> SUFFICES ASSUME TypeOK, CapInv, NEW u \in Users, NEW m \in MediaTypes
               PROVE  NetToday(u, m) <= Limit
    BY DEF DailyCap
  <2>1. /\ IsFiniteSet(Paid(u, m)) /\ Due(u, m) <= UsedToday(u, m) /\ quotaDisk.used[u][m] <= Limit
        /\ quotaDisk.used[u][m] \in Nat /\ Limit \in Nat
    BY ConstantsOK DEF CapInv, CapOK, TypeOK, Quota
  <2>2. NetToday(u, m) \in Nat /\ Due(u, m) \in Nat /\ NetToday(u, m) <= Due(u, m)
    BY <2>1, DueType
  <2>3. UsedToday(u, m) \in Nat /\ UsedToday(u, m) <= Limit
    BY <2>1 DEF UsedToday
  <2> QED
    BY <2>1, <2>2, <2>3
<1> QED
  BY <1>1, <1>2, <1>3, InitCap, TypeCorrect, LedgerInvariant, PTL DEF Spec

-----------------------------------------------------------------------------
(***************************************************************************)
(* The durable ledgers implement RequestContract.                          *)
(***************************************************************************)
\* The refinement mapping.
diskStatus  == [r \in Requests |-> reviewsDisk[r].status]
diskContent == [r \in Requests |-> reviewsDisk[r].content]

\* The write of one record is the change of one status and one content: the
\* other records were in memory what they were on disk.
LEMMA WriteOnDisk ==
    ASSUME TypeOK, LedgerInv, NEW r \in Requests, NEW rv, ReviewSaved(Updated(r, rv))
    PROVE  /\ diskStatus' = [diskStatus EXCEPT ![r] = rv.status]
           /\ diskContent' = [diskContent EXCEPT ![r] = rv.content]
           /\ diskStatus[r] = reviews[r].status
           /\ diskContent[r] = reviews[r].content
<1>1. /\ reviewsDisk'[r] = rv
      /\ \A s \in Requests \ {r} : reviewsDisk'[s] = reviews[s]
  BY WriteShows
<1>2. \A s \in Requests : /\ reviewsDisk[s].status = reviews[s].status
                          /\ reviewsDisk[s].content = reviews[s].content
  BY DEF LedgerInv, WriteThrough, SameRequest
<1> QED
  BY <1>1, <1>2 DEF diskStatus, diskContent

\* A write that keeps the status and the content changes nothing.
LEMMA QuietOnDisk ==
    ASSUME TypeOK, LedgerInv, NEW r \in Requests, NEW rv, ReviewSaved(Updated(r, rv)),
           rv.status = reviews[r].status, rv.content = reviews[r].content
    PROVE  UNCHANGED <<diskStatus, diskContent>>
<1>1. /\ diskStatus' = [diskStatus EXCEPT ![r] = diskStatus[r]]
      /\ diskContent' = [diskContent EXCEPT ![r] = diskContent[r]]
  BY WriteOnDisk
<1> QED
  BY <1>1 DEF diskStatus, diskContent

\* A write that keeps the content moves the status.
LEMMA MoveOnDisk ==
    ASSUME TypeOK, LedgerInv, NEW r \in Requests, NEW rv, ReviewSaved(Updated(r, rv)),
           rv.content = reviews[r].content
    PROVE  /\ diskStatus' = [diskStatus EXCEPT ![r] = rv.status]
           /\ UNCHANGED diskContent
           /\ diskStatus[r] = reviews[r].status
<1>1. diskContent' = [diskContent EXCEPT ![r] = diskContent[r]]
  BY WriteOnDisk
<1> QED
  BY <1>1, WriteOnDisk DEF diskContent

\* Empty ledgers are what the contract starts with.
LEMMA ContractInit == Init => Contract!Init
  BY DEF Init, Contract!Init, Absent

\* Every step of the ledgers is a step of the contract, or changes nothing
\* the contract sees.
LEMMA ContractStep ==
    TypeOK /\ LedgerInv /\ FlowInv /\ [Next]_vars => [Contract!Next]_(Contract!vars)
<1> SUFFICES ASSUME TypeOK, LedgerInv, FlowInv, [Next]_vars
             PROVE  Contract!Next \/ UNCHANGED <<diskStatus, diskContent, quotaDisk.restored>>
  BY DEF Contract!vars, diskStatus, diskContent
<1> DEFINE Quiet == UNCHANGED <<diskStatus, diskContent, quotaDisk.restored>>
           Move  == Contract!Next
<1> USE DEF bootVars, flowVars
<1>0. ASSUME UNCHANGED reviewsDisk, quotaDisk'.restored = quotaDisk.restored PROVE Quiet
  BY <1>0 DEF diskStatus, diskContent
<1>1. ASSUME NEW u \in Users, NEW c \in Contents, BeginSubmit(u, c) PROVE Quiet
  BY <1>0, <1>1 DEF BeginSubmit, reviewVars, quotaVars
<1>2. CASE UseQuota
  <2>1. submission.user \in Users /\ submission.content \in Contents
    BY <1>2 DEF TypeOK, UseQuota, Submissions
  <2>2. quotaDisk'.restored = quotaDisk.restored
    BY <1>2, <2>1, ResetForType, ChargeType
    DEF UseQuota, QuotaSaved, QuotaNotSaved, quotaVars, TypeOK, LedgerInv, WriteThrough
  <2> QED
    BY <1>0, <1>2, <2>2 DEF UseQuota, reviewVars
<1>3. CASE RestoreQuota
  <2>1. quotaDisk'.restored = quotaDisk.restored
    BY <1>3, UnchargeType
    DEF RestoreQuota, QuotaSaved, QuotaNotSaved, quotaVars, TypeOK, Submissions,
        LedgerInv, WriteThrough
  <2> QED
    BY <1>0, <1>3, <2>1 DEF RestoreQuota, reviewVars
<1>4. ASSUME NEW u \in Users, GetQuotaInfo(u) PROVE Quiet
  BY <1>0, <1>4 DEF GetQuotaInfo, reviewVars
<1>5. ASSUME NEW r \in Requests, CreateRequest(r) PROVE Move \/ Quiet
  <2>0. PICK c \in Contents : c = submission.content
    BY <1>5 DEF CreateRequest, TypeOK, Submissions
  <2> DEFINE rv == [Absent("pending") EXCEPT !.user    = submission.user,
                                             !.content = submission.content,
                                             !.charged = submission.charged,
                                             !.created = day]
  <2>1. rv.status = "pending" /\ rv.content = c
    BY <2>0 DEF Absent
  <2>2. /\ ~HasActiveSimilarContent(c)
        /\ reviews[r].status = "none"
        /\ UNCHANGED quotaVars
    BY <1>5, <2>0 DEF CreateRequest, LedgerInv, SubmitterAlone
  <2> HIDE DEF rv
  <2>3. CASE ReviewSaved(Updated(r, rv))
    <3>1. \A s \in Requests : diskContent[s] = c => diskStatus[s] \notin Contract!Active
      BY <2>2 DEF HasActiveSimilarContent, LedgerInv, WriteThrough, SameRequest, Active,
         Contract!Active, diskStatus, diskContent
    <3>3. /\ diskStatus' = [diskStatus EXCEPT ![r] = "pending"]
          /\ diskContent' = [diskContent EXCEPT ![r] = c]
          /\ diskStatus[r] = "none"
      BY <2>1, <2>2, <2>3, WriteOnDisk
    <3>4. quotaDisk'.restored = quotaDisk.restored
      BY <2>2 DEF quotaVars
    <3>2. Contract!Open(r, c)
      BY <3>1, <3>3, <3>4 DEF Contract!Open, diskStatus, diskContent
    <3> QED
      BY <3>2 DEF Contract!Next
  <2>4. ReviewSaved(Updated(r, rv)) \/ UNCHANGED reviewVars
    BY <1>5 DEF CreateRequest, ReviewNotSaved, rv
  <2>5. CASE UNCHANGED reviewVars
    BY <1>0, <2>2, <2>5 DEF reviewVars, quotaVars
  <2> QED
    BY <2>3, <2>4, <2>5
<1>6. ASSUME NEW r \in Requests, Approve(r) PROVE Move \/ Quiet
  <2> DEFINE rv == [reviews[r] EXCEPT !.status = "approved", !.reviewed = day]
  <2>1. reviews[r] \in Review /\ reviews[r].status = "pending" /\ UNCHANGED quotaVars
    BY <1>6 DEF Approve, TypeOK, ReviewLedger
  <2>2. rv.status = "approved" /\ rv.content = reviews[r].content
    BY <2>1 DEF Review
  <2> HIDE DEF rv
  <2>3. CASE ReviewSaved(Updated(r, rv))
    <3>1. Contract!Approve(r)
      BY <2>1, <2>2, <2>3, MoveOnDisk DEF Contract!Approve, diskStatus, diskContent, quotaVars
    <3> QED
      BY <3>1 DEF Contract!Next
  <2> QED
    BY <1>0, <1>6, <2>1, <2>3 DEF Approve, ReviewNotSaved, rv, reviewVars, quotaVars
<1>7. ASSUME NEW r \in Requests, RequeueApprovedPreflightFailure(r) PROVE Move \/ Quiet
  <2> DEFINE rv == [reviews[r] EXCEPT !.status = "pending", !.reviewed = 0, !.reason = "none"]
  <2>1. reviews[r] \in Review /\ reviews[r].status = "approved" /\ UNCHANGED quotaVars
    BY <1>7 DEF RequeueApprovedPreflightFailure, Unlinked, TypeOK, ReviewLedger
  <2>2. rv.status = "pending" /\ rv.content = reviews[r].content
    BY <2>1 DEF Review
  <2> HIDE DEF rv
  <2>3. CASE ReviewSaved(Updated(r, rv))
    <3>1. Contract!Requeue(r)
      BY <2>1, <2>2, <2>3, MoveOnDisk DEF Contract!Requeue, diskStatus, diskContent, quotaVars
    <3> QED
      BY <3>1 DEF Contract!Next
  <2> QED
    BY <1>0, <1>7, <2>1, <2>3
    DEF RequeueApprovedPreflightFailure, PersistReview, ReviewNotSaved, rv, reviewVars, quotaVars
\* A closing write, of a pending or of an approved request.
<1>8. ASSUME NEW r \in Requests, NEW rv, PersistReview(Updated(r, rv)), UNCHANGED quotaVars,
             rv.content = reviews[r].content,
             \/ reviews[r].status = "pending"  /\ rv.status \in {"rejected", "cancelled"}
             \/ reviews[r].status = "approved" /\ rv.status \in {"rejected", "failed"}
      PROVE  Move \/ Quiet
  <2>1. CASE ReviewSaved(Updated(r, rv))
    <3>2. /\ diskStatus' = [diskStatus EXCEPT ![r] = rv.status]
          /\ UNCHANGED diskContent
          /\ diskStatus[r] = reviews[r].status
      BY <1>8, <2>1, MoveOnDisk
    <3>3. /\ diskStatus[r] = "pending" =>
               diskStatus' \in {[diskStatus EXCEPT ![r] = s] : s \in {"rejected", "cancelled"}}
          /\ diskStatus[r] = "approved" =>
               diskStatus' \in {[diskStatus EXCEPT ![r] = s] : s \in {"rejected", "failed"}}
      BY <1>8, <3>2
    <3>4. quotaDisk'.restored = quotaDisk.restored
      BY <1>8 DEF quotaVars
    <3>1. Contract!Close(r)
      BY <1>8, <3>2, <3>3, <3>4 DEF Contract!Close, diskStatus, diskContent
    <3> QED
      BY <3>1 DEF Contract!Next
  <2> QED
    BY <1>0, <1>8, <2>1 DEF PersistReview, ReviewNotSaved, reviewVars, quotaVars
<1>9. ASSUME NEW r \in Requests, RejectApprovedPreflight(r) PROVE Move \/ Quiet
  <2> DEFINE rv == [reviews[r] EXCEPT !.status = "rejected", !.reviewed = day, !.reason = "preflight"]
  <2>1. reviews[r] \in Review /\ reviews[r].status = "approved" /\ UNCHANGED quotaVars
    BY <1>9 DEF RejectApprovedPreflight, Unlinked, TypeOK, ReviewLedger
  <2>2. rv.status = "rejected" /\ rv.content = reviews[r].content
    BY <2>1 DEF Review
  <2>3. PersistReview(Updated(r, rv))
    BY <1>9 DEF RejectApprovedPreflight, PersistThenRefund, PersistReview
  <2> HIDE DEF rv
  <2> QED
    BY <1>8, <2>1, <2>2, <2>3
<1>14. ASSUME NEW r \in Requests, FailExhaustedStuckRequest(r) PROVE Move \/ Quiet
  <2> DEFINE rv == [reviews[r] EXCEPT !.status = "failed", !.pending = @ \/ ~reviews[r].restored]
  <2>1. reviews[r] \in Review /\ reviews[r].status = "approved" /\ UNCHANGED quotaVars
    BY <1>14 DEF FailExhaustedStuckRequest, RecoveryCandidate, Unlinked, TypeOK, ReviewLedger
  <2>2. rv.status = "failed" /\ rv.content = reviews[r].content
    BY <2>1 DEF Review
  <2>3. PersistReview(Updated(r, rv))
    BY <1>14 DEF FailExhaustedStuckRequest, PersistThenRefund, PersistReview
  <2> HIDE DEF rv
  <2> QED
    BY <1>8, <2>1, <2>2, <2>3
<1>15. ASSUME NEW r \in Requests, NEW status \in {"rejected", "cancelled"}, NEW reason,
              EndPending(r, status, reason)
       PROVE  Move \/ Quiet
  <2> DEFINE rv == [reviews[r] EXCEPT !.status = status, !.reviewed = day,
                                      !.reason = reason, !.pending = ~reviews[r].restored]
  <2>1. reviews[r] \in Review /\ reviews[r].status = "pending" /\ UNCHANGED quotaVars
    BY <1>15 DEF EndPending, TypeOK, ReviewLedger
  <2>2. rv.status = status /\ rv.content = reviews[r].content
    BY <2>1 DEF Review
  <2>3. PersistReview(Updated(r, rv))
    BY <1>15 DEF EndPending, PersistThenRefund, PersistReview
  <2> HIDE DEF rv
  <2> QED
    BY <1>8, <2>1, <2>2, <2>3
<1>16. ASSUME NEW r \in Requests, Reject(r) \/ CancelByUser(r) PROVE Move \/ Quiet
  BY <1>15, <1>16 DEF Reject, CancelByUser
\* A write that changes neither status nor content.
<1>10. ASSUME NEW r \in Requests, NEW rv,
              ReviewSaved(Updated(r, rv)) \/ UNCHANGED reviewsDisk, UNCHANGED quotaDisk,
              rv.status = reviews[r].status, rv.content = reviews[r].content
       PROVE  Quiet
  BY <1>0, <1>10, QuietOnDisk
<1>11. ASSUME NEW r \in Requests,
              LinkSubscription(r) \/ SubscriptionPolled(r)
       PROVE  Quiet
  <2> DEFINE link(l) == [reviews[r] EXCEPT !.link = l]
  <2>1. \A l : link(l).status = reviews[r].status /\ link(l).content = reviews[r].content
    BY DEF TypeOK, ReviewLedger, Review
  <2>2. /\ \E l : ReviewSaved(Updated(r, link(l))) \/ UNCHANGED reviewsDisk
        /\ UNCHANGED quotaDisk
    BY <1>11 DEF LinkSubscription, SubscriptionPolled, ReviewNotSaved, reviewVars, quotaVars
  <2> HIDE DEF link
  <2> QED
    BY <1>10, <2>1, <2>2
<1>12. ASSUME NEW r \in Requests, ApproveMarksStuck(r) \/ RetryMarksStuck(r) PROVE Quiet
  <2> DEFINE count(k) == [reviews[r] EXCEPT !.retries = k]
  <2>1. \A k : count(k).status = reviews[r].status /\ count(k).content = reviews[r].content
    BY DEF TypeOK, ReviewLedger, Review
  <2>2. /\ \E k : ReviewSaved(Updated(r, count(k))) \/ UNCHANGED reviewsDisk
        /\ UNCHANGED quotaDisk
    BY <1>12 DEF ApproveMarksStuck, RetryMarksStuck, PersistThenRefund, PersistReview,
       ReviewNotSaved, reviewVars, quotaVars
  <2> HIDE DEF count
  <2> QED
    BY <1>10, <2>1, <2>2
<1>13. ASSUME NEW r \in Requests, ApproveReturns(r) \/ BeginResubmit(r) PROVE Quiet
  BY <1>0, <1>13 DEF ApproveReturns, BeginResubmit, reviewVars, quotaVars
<1>18. ASSUME NEW r \in Requests, NEW by \in {"handler", "boot"}, BeginRefund(r, by)
       PROVE  Move \/ Quiet
  <2>1. UNCHANGED reviewsDisk /\ Returning(r)
    BY <1>18 DEF BeginRefund, reviewVars, Returning
  <2>2. CASE UNCHANGED quotaVars
    BY <1>0, <2>1, <2>2 DEF quotaVars
  <2>3. CASE /\ QuotaSaved(Refunded(quota, r)) /\ r \notin quota.restored
             /\ reviews[r].status \notin {"none", "purged"}
    <3>1. /\ Uncharge(quota, reviews[r].user, reviews[r].content) \in Quota
          /\ Uncharge(quota, reviews[r].user, reviews[r].content).restored = quota.restored
      BY <2>3, UnchargeType DEF TypeOK, ReviewLedger
    <3>2. quotaDisk'.restored = quotaDisk.restored \cup {r} /\ r \notin quotaDisk.restored
      BY <2>3, <3>1 DEF Refunded, Quota, TypeOK, QuotaSaved, LedgerInv, WriteThrough
    <3>3. reviews[r].status \in Closed \cup {"approved"}
      BY <2>1, <2>3 DEF FlowInv, FlowOK, GivenUp, Unlinked
    <3>4. diskStatus[r] \in Contract!Closed \cup {"approved"}
      BY <3>3 DEF diskStatus, LedgerInv, WriteThrough, SameRequest, Closed, Contract!Closed
    <3>5. Contract!Refund(r)
      BY <2>1, <3>2, <3>4 DEF Contract!Refund, diskStatus
    <3> QED
      BY <3>5 DEF Contract!Next
  <2> QED
    BY <1>18, <2>2, <2>3, Zenon DEF BeginRefund, QuotaNotSaved
<1>19. CASE SkipResubmit
  BY <1>0, <1>19 DEF SkipResubmit, reviewVars, quotaVars
<1>20. CASE FinishRefund
  <2> PICK r \in Requests : r = refund.req
    BY <1>20 DEF FinishRefund, TypeOK
  <2> DEFINE rv == [reviews[r] EXCEPT !.restored = TRUE, !.pending = FALSE]
  <2>1. rv.status = reviews[r].status /\ rv.content = reviews[r].content
    BY DEF TypeOK, ReviewLedger, Review
  <2>2. /\ ReviewSaved(Updated(r, rv)) \/ UNCHANGED reviewsDisk
        /\ UNCHANGED quotaDisk
    BY <1>20 DEF FinishRefund, ReviewNotSaved, reviewVars, quotaVars
  <2> HIDE DEF rv
  <2> QED
    BY <1>10, <2>1, <2>2
<1>21. CASE Cleanup
  <2>0. PICK S \in SUBSET Requests : S = {r \in Requests : Expired(r)}
    OBVIOUS
  <2> DEFINE new == [r \in Requests |-> IF Expired(r) THEN Absent("purged") ELSE reviews[r]]
  <2>1. CASE reviewsDisk' = new
    <3>1. \A r \in Requests : /\ diskStatus[r] = reviews[r].status
                              /\ diskContent[r] = reviews[r].content
      BY DEF diskStatus, diskContent, LedgerInv, WriteThrough, SameRequest
    <3>2. \A r \in S : diskStatus[r] \in Contract!Closed \cup {"approved"}
      BY <2>0, <3>1 DEF Expired, FlowInv, FlowOK, Closed, Contract!Closed
    <3>3. \A r \in Requests : /\ reviewsDisk'[r].status = IF r \in S THEN "purged" ELSE diskStatus[r]
                              /\ reviewsDisk'[r].content = IF r \in S THEN None ELSE diskContent[r]
      BY <2>0, <2>1, <3>1 DEF Absent
    <3>4. /\ diskStatus' = [r \in Requests |-> IF r \in S THEN "purged" ELSE diskStatus[r]]
          /\ diskContent' = [r \in Requests |-> IF r \in S THEN None ELSE diskContent[r]]
      BY <3>3 DEF diskStatus, diskContent
    <3>5. quotaDisk'.restored = quotaDisk.restored
      BY <1>21 DEF Cleanup, quotaVars
    <3>6. Contract!Purge(S)
      BY <3>2, <3>4, <3>5 DEF Contract!Purge, diskStatus, diskContent
    <3> QED
      BY <3>6 DEF Contract!Next
  <2> QED
    BY <1>0, <1>21, <2>1
    DEF Cleanup, PersistReview, ReviewSaved, ReviewNotSaved, reviewVars, quotaVars
<1>22. CASE Restart \/ NextDay \/ UNCHANGED vars
  BY <1>0, <1>22 DEF Restart, NextDay, vars, reviewVars, quotaVars
<1> QED
  BY <1>1, <1>2, <1>3, <1>4, <1>5, <1>6, <1>7, <1>9, <1>11, <1>12, <1>13,
     <1>14, <1>16, <1>18, <1>19, <1>20, <1>21, <1>22 DEF Next

\* What is on disk behaves as RequestContract says, whatever write fails and
\* wherever the process stops.
THEOREM Implementation == Spec => ImplementsContract
  BY ContractInit, ContractStep, FlowInvariant, PTL
  DEF Spec, ImplementsContract, Contract!Spec
=============================================================================
