------------------------------ MODULE WashOrder ------------------------------
(***************************************************************************)
(* Wash work orders: a user asks for a better version of something the     *)
(* library already has; administrators (or a library event) close the      *)
(* order once Emby shows every old source and at least one new one.        *)
(*                                                                         *)
(* Orders are records of ReviewService (review_requests.json).  Every      *)
(* mutator here holds ReviewService.mu, writes the file and undoes its     *)
(* change when the write fails, so one variable stands for memory and      *)
(* disk; a failed write leaves it as it is.  What is not under the lock is *)
(* what an administrator's check, a library event or a submission has read *)
(* and will use later.                                                     *)
(***************************************************************************)
EXTENDS Integers, FiniteSets

CONSTANTS
    Orders,             \* order identifiers; every one is used at most once
    Legacy,             \* the orders written before baselines were recorded
    Admins,
    Contents,           \* what makes two orders similar: id, type, season
    Sources,            \* Emby media sources (paths)
    MaxWashVerifyRetry, \* const MaxWashVerifyRetry (10 in the code)
    None

ASSUME ConstantsOK ==
    /\ Legacy \subseteq Orders
    /\ MaxWashVerifyRetry \in Nat \ {0}
    /\ None \notin Admins \cup Contents \cup Orders

VARIABLES
    orders,     \* the wash records of ReviewService.reviews
    library,    \* the sources Emby has of each content
    submitting, \* the Mini App submission past its duplicate check
    check,      \* what handleCompleteWash of each administrator has read
    event       \* what the library event being handled has read

vars == <<orders, library, submitting, check, event>>

Statuses == {"none", "pending", "approved", "claimed", "completed",
             "rejected", "cancelled", "failed", "purged"}
Active   == {"pending", "approved", "claimed"}
Settled  == {"completed", "rejected", "cancelled"}

Order ==
    [status   : Statuses,
     content  : Contents \cup {None},
     baseline : SUBSET Sources,         \* WashBaseline
     claimed  : Admins \cup {None},     \* WashClaimedBy
     by       : Admins \cup {None},     \* ReviewedBy of a completion, None = 0
     retries  : 0..MaxWashVerifyRetry,  \* RetryCount
     verified : 0..(MaxWashVerifyRetry + 1), \* history: verifications since (re)opened
     held     : BOOLEAN]                \* history: library met the condition once

NoOrder(status) ==
    [status |-> status, content |-> None, baseline |-> {}, claimed |-> None,
     by |-> None, retries |-> 0, verified |-> 0,
     held |-> FALSE]

NoSubmission == [content |-> None, baseline |-> {}]
NoCheck == [pc |-> "idle", order |-> None, sources |-> {}]
NoEvent == [content |-> None, matched |-> {}, sources |-> {}]

Exists(o) == orders[o].status \notin {"none", "purged"}
Exhausted(o) == orders[o].retries >= MaxWashVerifyRetry

\* What an order must see in Emby to be completed.
Proof(baseline, sources) == baseline # {} /\ baseline \subseteq sources /\ sources # baseline

\* Legacy orders, if there are any, were approved before the program that is
\* modelled started.
Init ==
    /\ \E c \in Contents, old \in SUBSET Legacy :
         orders = [o \in Orders |-> IF o \in old
                                    THEN [NoOrder("approved") EXCEPT !.content = c]
                                    ELSE NoOrder("none")]
    /\ Cardinality(Legacy) <= 1
    /\ library \in [Contents -> (SUBSET Sources) \ {{}}]
    /\ submitting = NoSubmission
    /\ check = [a \in Admins |-> NoCheck]
    /\ event = NoEvent

\* A mutator writes the record, or the write fails and nothing has changed.
Written(o, rec)   == orders' = [orders EXCEPT ![o] = rec]
Persist(o, rec)   == Written(o, rec) \/ UNCHANGED orders

-----------------------------------------------------------------------------
(***************************************************************************)
(* Creating an order: by the bot, under one hold of ReviewService.mu, or   *)
(* by the Mini App, whose submission checks and creates in two holds of it *)
(* under a lock of its own.                                                *)
(***************************************************************************)
HasActiveSimilar(c) == \E o \in Orders : orders[o].content = c /\ orders[o].status \in Active

NewOrder(c, baseline) ==
    [NoOrder("pending") EXCEPT !.content = c, !.baseline = baseline,
                               !.held = Proof(baseline, library[c])]

CreateRequestIfNoActiveSimilar(o, c) ==
    /\ orders[o].status = "none"
    /\ library[c] # {}
    /\ ~HasActiveSimilar(c)
    /\ Written(o, NewOrder(c, library[c]))
    /\ UNCHANGED <<library, submitting, check, event>>

BeginSubmit(c) ==
    /\ submitting = NoSubmission
    /\ library[c] # {}
    /\ ~HasActiveSimilar(c)
    /\ submitting' = [content |-> c, baseline |-> library[c]]
    /\ UNCHANGED <<orders, library, check, event>>

CreateRequest(o) ==
    /\ submitting # NoSubmission
    /\ orders[o].status = "none"
    /\ Persist(o, NewOrder(submitting.content, submitting.baseline))
    /\ submitting' = NoSubmission
    /\ UNCHANGED <<library, check, event>>

-----------------------------------------------------------------------------
(***************************************************************************)
(* Deciding on an order, and working on it.                                *)
(***************************************************************************)
Decide(o, status) ==
    /\ orders[o].status = "pending"
    /\ Written(o, [orders[o] EXCEPT !.status = status])
    /\ UNCHANGED <<library, submitting, check, event>>

Claimable(o, a) ==
    \/ orders[o].status = "approved"
    \/ orders[o].status = "claimed" /\ orders[o].claimed = a

ClaimedRecord(o, a) == [orders[o] EXCEPT !.status = "claimed", !.claimed = a]

ClaimWash(o, a) ==
    /\ Claimable(o, a)
    /\ Written(o, ClaimedRecord(o, a))
    /\ UNCHANGED <<library, submitting, check, event>>

Owned(o, a) == orders[o].status = "claimed" /\ orders[o].claimed = a

ReleaseWash(o, a) ==
    /\ Owned(o, a)
    /\ Written(o, [orders[o] EXCEPT !.status = "approved", !.claimed = None])
    /\ UNCHANGED <<library, submitting, check, event>>

\* The fresh verification budget of a reopened order; nobody looks for another
\* active order of the same content.
ReopenWash(o) ==
    /\ orders[o].status = "failed"
    /\ orders[o].baseline # {}
    /\ Written(o, [orders[o] EXCEPT !.status = "approved", !.retries = 0, !.verified = 0])
    /\ UNCHANGED <<library, submitting, check, event>>

(***************************************************************************)
(* completeWashVerifiedLocked: one verification of an order against the    *)
(* sources that were captured.  A verification that fails is counted.      *)
(***************************************************************************)
\* Fault: the old sources are enough.
ProofWithoutNewSource(o, sources) ==
    orders[o].baseline # {} /\ orders[o].baseline \subseteq sources

Verifies(o, sources) == Proof(orders[o].baseline, sources)

UpTo(n, max) == IF n < max THEN n + 1 ELSE n

Counted(o) == [orders[o] EXCEPT !.retries = UpTo(@, MaxWashVerifyRetry)]

Verification(o, a, sources) ==
    LET rec == IF Verifies(o, sources)
               THEN [orders[o] EXCEPT !.status = "completed", !.by = a]
               ELSE Counted(o)
    IN  [rec EXCEPT !.verified = UpTo(@, MaxWashVerifyRetry + 1)]

(***************************************************************************)
(* handleCompleteWash: claim, ask Emby, complete; whatever goes wrong is   *)
(* recorded by a call of its own, which counts it too.                     *)
(***************************************************************************)
RecordedFailure(o, a, rec) ==
    IF Owned(o, a) THEN Persist(o, rec) ELSE UNCHANGED orders

BeginComplete(o, a) ==
    /\ check[a] = NoCheck
    /\ Exists(o) /\ orders[o].status # "completed"
    /\ \/ /\ orders[o].baseline = {}
          /\ RecordedFailure(o, a, Counted(o))
          /\ UNCHANGED check
       \/ /\ orders[o].baseline # {}
          /\ Claimable(o, a)
          /\ Written(o, ClaimedRecord(o, a))
          /\ check' = [check EXCEPT ![a] = [pc |-> "claimed", order |-> o, sources |-> {}]]
    /\ UNCHANGED <<library, submitting, event>>

CaptureSources(a) ==
    /\ check[a].pc = "claimed"
    /\ LET o == check[a].order
       IN  \/ /\ orders[o].content # None
              /\ library[orders[o].content] # {}
              /\ check' = [check EXCEPT ![a].pc = "captured",
                                        ![a].sources = library[orders[o].content]]
              /\ UNCHANGED orders
           \/ /\ RecordedFailure(o, a, Counted(o))   \* Emby cannot be asked
              /\ check' = [check EXCEPT ![a] = NoCheck]
    /\ UNCHANGED <<library, submitting, event>>

CompleteWash(a) ==
    LET o   == check[a].order
        rec == Verification(o, a, check[a].sources)
    IN  /\ check[a].pc = "captured"
        /\ \/ /\ Owned(o, a) /\ ~Exhausted(o)
              /\ Written(o, rec)
              /\ check' = [check EXCEPT ![a] = IF rec.status = "completed"
                                               THEN NoCheck ELSE [@ EXCEPT !.pc = "refused"]]
           \/ /\ orders[o].status = "completed"
              /\ UNCHANGED orders
              /\ check' = [check EXCEPT ![a] = NoCheck]
           \/ /\ UNCHANGED orders                \* refused, or not written
              /\ orders[o].status # "completed"
              /\ check' = [check EXCEPT ![a].pc = "refused"]
        /\ UNCHANGED <<library, submitting, event>>

RecordWashVerificationFailure(a) ==
    /\ check[a].pc = "refused"
    /\ RecordedFailure(check[a].order, a, Counted(check[a].order))
    /\ check' = [check EXCEPT ![a] = NoCheck]
    /\ UNCHANGED <<library, submitting, event>>

(***************************************************************************)
(* completeWashOnLibraryAdd: a library event of Emby looks for approved    *)
(* orders, asks Emby once, and completes the orders one after the other.   *)
(***************************************************************************)
LibraryAdd(c) ==
    LET matched == {o \in Orders : /\ orders[o].content = c
                                   /\ orders[o].status = "approved"
                                   /\ ~Exhausted(o)}
    IN  /\ event = NoEvent
        /\ matched # {}
        /\ library[c] # {}
        /\ event' = [content |-> c, matched |-> matched, sources |-> library[c]]
        /\ UNCHANGED <<orders, library, submitting, check>>

\* Fault: what the event matched is completed, whatever happened since.
StillMatched(o) == Exists(o)

\* Fault: the budget is looked at only when the event matches the order.
ApprovedStill(o) == orders[o].status = "approved"

AutomaticallyCompletable(o) == orders[o].status = "approved" /\ ~Exhausted(o)

CompleteWashAutomatically(o) ==
    /\ o \in event.matched
    /\ \/ AutomaticallyCompletable(o) /\ Written(o, Verification(o, None, event.sources))
       \/ UNCHANGED orders                       \* refused, or not written
    /\ event' = IF event.matched = {o} THEN NoEvent ELSE [event EXCEPT !.matched = @ \ {o}]
    /\ UNCHANGED <<library, submitting, check>>

-----------------------------------------------------------------------------
(***************************************************************************)
(* Emby's library, housekeeping and restarts.                              *)
(***************************************************************************)
LibraryBecomes(c, sources) ==
    /\ sources # library[c]
    /\ library' = [library EXCEPT ![c] = sources]
    /\ orders' = [o \in Orders |->
                    IF orders[o].content = c
                    THEN [orders[o] EXCEPT !.held = @ \/ Proof(orders[o].baseline, sources)]
                    ELSE orders[o]]
    /\ UNCHANGED <<submitting, check, event>>

\* cleanupAt, seven days after a settled order was reviewed.
Cleanup(o) ==
    /\ orders[o].status \in Settled
    /\ Written(o, NoOrder("purged"))
    /\ UNCHANGED <<library, submitting, check, event>>

\* terminateExhaustedWashOrders runs once at startup; each order is a write of
\* its own, and one that fails leaves its order as it was.
Terminated(o) ==
    [orders[o] EXCEPT !.status = "failed", !.retries = MaxWashVerifyRetry, !.claimed = None]

Restart ==
    LET spent == {o \in Orders : orders[o].status \in {"approved", "claimed"} /\ Exhausted(o)}
    IN  /\ \E done \in SUBSET spent :
             orders' = [o \in Orders |-> IF o \in done THEN Terminated(o) ELSE orders[o]]
        /\ submitting' = NoSubmission
        /\ check' = [a \in Admins |-> NoCheck]
        /\ event' = NoEvent
        /\ UNCHANGED library

AdminActs(o, a) ==
    \/ ClaimWash(o, a)
    \/ ReleaseWash(o, a)
    \/ BeginComplete(o, a)
    \/ CaptureSources(a)
    \/ CompleteWash(a)
    \/ RecordWashVerificationFailure(a)

Next ==
    \/ \E c \in Contents :
         \/ BeginSubmit(c)
         \/ LibraryAdd(c)
         \/ \E s \in SUBSET Sources : LibraryBecomes(c, s)
    \/ \E o \in Orders :
         \/ \E c \in Contents : CreateRequestIfNoActiveSimilar(o, c)
         \/ CreateRequest(o)
         \/ \E status \in {"approved", "rejected", "cancelled"} : Decide(o, status)
         \/ ReopenWash(o)
         \/ CompleteWashAutomatically(o)
         \/ Cleanup(o)
         \/ \E a \in Admins : AdminActs(o, a)
    \/ Restart

Spec == Init /\ [][Next]_vars

-----------------------------------------------------------------------------
(***************************************************************************)
(* Properties.                                                             *)
(***************************************************************************)
\* Every variable has its type.
TypeOK ==
    /\ orders \in [Orders -> Order]
    /\ library \in [Contents -> SUBSET Sources]
    /\ submitting \in [content : Contents \cup {None}, baseline : SUBSET Sources]
    /\ check \in [Admins -> [pc      : {"idle", "claimed", "captured", "refused"},
                             order   : Orders \cup {None},
                             sources : SUBSET Sources]]
    /\ event \in [content : Contents \cup {None},
                  matched : SUBSET Orders,
                  sources : SUBSET Sources]

\* "Only when the old versions are kept and Emby shows a different new source
\* may an order be completed" (docs/FEATURES.md): whoever completes an order,
\* and however old the sources are that it was verified with, the library did
\* meet the condition at some moment since the order was created.
CompletedOnlyWithProof ==
    \A o \in Orders : orders[o].status = "completed" => orders[o].held

\* "Every failed verification is recorded on the work order; once the cap is
\* reached the work order stops being verified": between two reopenings no
\* order is verified more often than the cap allows, though events and
\* administrators verify it concurrently.
VerificationBudget ==
    \A o \in Orders : orders[o].verified <= MaxWashVerifyRetry

\* "Claimed work orders stay under the owning administrator's control": an
\* order that is claimed can only be completed by its claimant, one that is
\* approved only by an event, even when another check or event started before.
CompletedByClaimant ==
    [][\A o \in Orders :
         orders[o].status # "completed" /\ orders'[o].status = "completed"
         => orders'[o].by = IF orders[o].status = "claimed" THEN orders[o].claimed ELSE None]_vars
=============================================================================
