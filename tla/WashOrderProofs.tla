---------------------------- MODULE WashOrderProofs ----------------------------
(***************************************************************************)
(* Wash orders are completed only with proof, by whom they belong to, and  *)
(* within the budget, for any orders, administrators, sources and cap.     *)
(***************************************************************************)
EXTENDS WashOrder, TLAPS

\* Sources that were read while the order existed: if they prove it, the library met the condition.
Vouched(o, sources) ==
    /\ o \in Orders /\ orders[o].status # "none"
    /\ Proof(orders[o].baseline, sources) => orders[o].held

HeldNow ==
    \A o \in Orders : orders[o].content # None =>
        (Proof(orders[o].baseline, library[orders[o].content]) => orders[o].held)

ChecksVouched == \A a \in Admins : check[a].pc # "idle" => Vouched(check[a].order, check[a].sources)
EventVouched  == \A o \in event.matched : Vouched(o, event.sources)

\* What a record says of its verifications: each one that failed was counted, and only the last
\* one may have succeeded.
Sound(rec) ==
    IF rec.status = "completed" THEN rec.held /\ rec.verified <= MaxWashVerifyRetry
    ELSE rec.verified <= rec.retries

OrdersSound == \A o \in Orders : Sound(orders[o])

SubmissionNamed == submitting # NoSubmission => submitting.content \in Contents

WashInv == TypeOK /\ SubmissionNamed /\ HeldNow /\ ChecksVouched /\ EventVouched /\ OrdersSound
-----------------------------------------------------------------------------
(* What may take the place of a record *)

Created(rec) == \E c \in Contents, b \in SUBSET Sources : rec = NewOrder(c, b)

\* The order goes on: what it is about, and whether its condition was met, stay as they are.
GoesOn(o, rec) ==
    /\ orders[o].status # "none" /\ rec.status # "none"
    /\ rec.content = orders[o].content /\ rec.baseline = orders[o].baseline
    /\ rec.held = orders[o].held

Allowed(o, rec) ==
    /\ rec \in Order /\ Sound(rec)
    /\ \/ rec = orders[o] \/ rec = NoOrder("purged")
       \/ orders[o].status = "none" /\ Created(rec)
       \/ GoesOn(o, rec)

AllowedStep == orders' \in [Orders -> Order] /\ \A o \in Orders : Allowed(o, orders'[o])

LEMMA Unwritten == ASSUME WashInv, UNCHANGED orders PROVE AllowedStep
  BY DEF WashInv, TypeOK, AllowedStep, Allowed, OrdersSound

LEMMA WrittenAllowed ==
    ASSUME WashInv, NEW o \in Orders, NEW rec, Written(o, rec), Allowed(o, rec) PROVE AllowedStep
<1>1. rec \in Order /\ orders \in [Orders -> Order]
  BY DEF Allowed, WashInv, TypeOK
<1>2. /\ orders' \in [Orders -> Order] /\ orders'[o] = rec
      /\ \A p \in Orders : p # o => orders'[p] = orders[p]
  BY <1>1 DEF Written
<1>3. \A p \in Orders : Allowed(p, orders[p])
  BY DEF WashInv, TypeOK, Allowed, OrdersSound
<1> QED
  BY <1>2, <1>3 DEF AllowedStep

LEMMA PurgedSound == ASSUME ConstantsOK PROVE NoOrder("purged") \in Order /\ Sound(NoOrder("purged"))
  BY DEF ConstantsOK, NoOrder, Order, Statuses, Sound

\* What sources vouched for before the step they vouch for after it.
LEMMA VouchedKept ==
    ASSUME WashInv, AllowedStep, NEW o, NEW s, Vouched(o, s) PROVE Vouched(o, s)'
<1>1. o \in Orders /\ Allowed(o, orders'[o])
  BY DEF Vouched, AllowedStep
<1>2. CASE orders'[o] = orders[o]
  BY <1>1, <1>2 DEF Vouched, Proof
<1>3. CASE orders'[o] = NoOrder("purged")
  BY <1>1, <1>3 DEF Vouched, Proof, NoOrder
<1>4. CASE GoesOn(o, orders'[o])
  BY <1>1, <1>4 DEF Vouched, Proof, GoesOn
<1> QED
  BY <1>1, <1>2, <1>3, <1>4 DEF Allowed, Vouched

\* While Emby's library stays as it is.
LEMMA OrdersStep ==
    ASSUME ConstantsOK, WashInv, AllowedStep, UNCHANGED library PROVE HeldNow' /\ OrdersSound'
<1>1. OrdersSound'
  BY DEF AllowedStep, Allowed, OrdersSound
<1>2. ASSUME NEW o \in Orders, orders'[o].content # None,
             Proof(orders'[o].baseline, library[orders'[o].content])
      PROVE  orders'[o].held
  <2>1. Allowed(o, orders'[o])
    BY DEF AllowedStep
  <2>2. CASE orders'[o] = orders[o]
    BY <1>2, <2>2 DEF WashInv, HeldNow
  <2>3. CASE orders'[o] = NoOrder("purged")
    BY <1>2, <2>3 DEF NoOrder
  <2>4. CASE Created(orders'[o])
    BY <1>2, <2>4 DEF Created, NewOrder, NoOrder
  <2>5. CASE GoesOn(o, orders'[o])
    BY <1>2, <2>5 DEF WashInv, HeldNow, GoesOn
  <2> QED
    BY <2>1, <2>2, <2>3, <2>4, <2>5 DEF Allowed
<1> QED
  BY <1>1, <1>2 DEF HeldNow, Proof

\* A step that writes an order, or none, and leaves what was read.
LEMMA RecordStep ==
    ASSUME ConstantsOK, WashInv, AllowedStep, UNCHANGED <<library, check, event>>,
           submitting' \in [content : Contents \cup {None}, baseline : SUBSET Sources],
           SubmissionNamed'
    PROVE  WashInv'
<1>1. TypeOK'
  BY DEF WashInv, TypeOK, AllowedStep
<1>2. ChecksVouched' /\ EventVouched'
  <2>1. \A a \in Admins : check[a].pc # "idle" => Vouched(check[a].order, check[a].sources)'
    BY VouchedKept DEF WashInv, ChecksVouched
  <2>2. \A o \in event.matched : Vouched(o, event.sources)'
    BY VouchedKept DEF WashInv, EventVouched
  <2> QED
    BY <2>1, <2>2 DEF ChecksVouched, EventVouched, Vouched
<1> QED
  BY <1>1, <1>2, OrdersStep DEF WashInv
-----------------------------------------------------------------------------
(* The records that the actions write *)

LEMMA CreatedAllowed ==
    ASSUME ConstantsOK, WashInv, NEW o \in Orders, orders[o].status = "none",
           NEW c \in Contents, NEW b \in SUBSET Sources
    PROVE  Allowed(o, NewOrder(c, b))
<1> DEFINE h == Proof(b, library[c])
<1>1. NewOrder(c, b) = [NoOrder("pending") EXCEPT !.content = c, !.baseline = b, !.held = h]
  BY DEF NewOrder
<1>2. h \in BOOLEAN
  BY DEF Proof
<1> HIDE DEF h
<1>3. /\ NewOrder(c, b) \in Order
      /\ NewOrder(c, b).status = "pending" /\ NewOrder(c, b).verified = 0
      /\ NewOrder(c, b).retries = 0
  <2>1. 0 \in 0..MaxWashVerifyRetry /\ 0 \in 0..(MaxWashVerifyRetry + 1)
    BY DEF ConstantsOK
  <2> QED
    BY <1>1, <1>2, <2>1 DEF Order, Statuses, NoOrder
<1>4. Sound(NewOrder(c, b))
  BY <1>3 DEF Sound
<1> QED
  BY <1>3, <1>4 DEF Allowed, Created

\* Any change of a record but of its content, baseline and history.
LEMMA GoesOnAllowed ==
    ASSUME ConstantsOK, WashInv, NEW o \in Orders, orders[o].status # "none",
           NEW rec \in Order, rec.status # "none",
           rec.content = orders[o].content, rec.baseline = orders[o].baseline,
           rec.held = orders[o].held, Sound(rec)
    PROVE  Allowed(o, rec)
  BY DEF Allowed, GoesOn

\* A new status, of an order that is not completed.
LEMMA StatusAllowed ==
    ASSUME ConstantsOK, WashInv, NEW o \in Orders, orders[o].status \notin {"none", "completed"},
           NEW s \in Statuses \ {"none", "completed"}, NEW a \in Admins \cup {None}
    PROVE  /\ Allowed(o, [orders[o] EXCEPT !.status = s])
           /\ Allowed(o, [orders[o] EXCEPT !.status = s, !.claimed = a])
<1>1. orders[o] \in Order /\ Sound(orders[o])
  BY DEF WashInv, TypeOK, OrdersSound
<1>2. /\ [orders[o] EXCEPT !.status = s] \in Order
      /\ [orders[o] EXCEPT !.status = s, !.claimed = a] \in Order
  BY <1>1 DEF Order
<1>3. /\ Sound([orders[o] EXCEPT !.status = s])
      /\ Sound([orders[o] EXCEPT !.status = s, !.claimed = a])
  BY <1>1 DEF Sound, Order
<1> QED
  BY <1>1, <1>2, <1>3, GoesOnAllowed DEF Order

LEMMA UpToType ==
    ASSUME NEW max \in Nat, NEW n \in 0..max
    PROVE  UpTo(n, max) \in 0..max /\ UpTo(n, max) >= n /\ (n < max => UpTo(n, max) = n + 1)
  BY DEF UpTo

\* A failure that is recorded counts, and verifies nothing.
LEMMA CountedAllowed ==
    ASSUME ConstantsOK, WashInv, NEW o \in Orders, orders[o].status \notin {"none", "completed"}
    PROVE  Allowed(o, Counted(o))
<1>1. orders[o] \in Order /\ Sound(orders[o]) /\ MaxWashVerifyRetry \in Nat
  BY DEF WashInv, TypeOK, OrdersSound, ConstantsOK
<1>2. /\ UpTo(orders[o].retries, MaxWashVerifyRetry) \in 0..MaxWashVerifyRetry
      /\ UpTo(orders[o].retries, MaxWashVerifyRetry) >= orders[o].retries
  BY <1>1, UpToType DEF Order
<1>3. Counted(o) = [orders[o] EXCEPT !.retries = UpTo(orders[o].retries, MaxWashVerifyRetry)]
  BY DEF Counted
<1>4. Counted(o) \in Order /\ Sound(Counted(o))
  BY <1>1, <1>2, <1>3 DEF Order, Sound
<1> QED
  BY <1>1, <1>3, <1>4, GoesOnAllowed DEF Order

LEMMA FailureStep ==
    ASSUME ConstantsOK, WashInv, NEW o \in Orders, NEW a \in Admins,
           RecordedFailure(o, a, Counted(o))
    PROVE  AllowedStep
<1>1. CASE UNCHANGED orders
  BY <1>1, Unwritten
<1>2. CASE Owned(o, a) /\ Written(o, Counted(o))
  BY <1>2, CountedAllowed, WrittenAllowed DEF Owned
<1> QED
  BY <1>1, <1>2 DEF RecordedFailure, Persist

\* A verification completes an order with proof, or is counted.
LEMMA VerificationAllowed ==
    ASSUME ConstantsOK, WashInv, NEW o \in Orders, orders[o].status \notin {"none", "completed"},
           ~Exhausted(o), NEW a \in Admins \cup {None}, NEW s, Vouched(o, s)
    PROVE  Allowed(o, Verification(o, a, s))
<1> DEFINE done == UpTo(orders[o].verified, MaxWashVerifyRetry + 1)
           spent == UpTo(orders[o].retries, MaxWashVerifyRetry)
<1>1. orders[o] \in Order /\ Sound(orders[o]) /\ MaxWashVerifyRetry \in Nat
  BY DEF WashInv, TypeOK, OrdersSound, ConstantsOK
<1>2. orders[o].retries < MaxWashVerifyRetry /\ orders[o].verified <= orders[o].retries
  BY <1>1 DEF Exhausted, Sound, Order
<1>3. done \in 0..(MaxWashVerifyRetry + 1) /\ done = orders[o].verified + 1
      /\ spent \in 0..MaxWashVerifyRetry /\ spent = orders[o].retries + 1
  <2>1. /\ orders[o].verified \in 0..(MaxWashVerifyRetry + 1)
        /\ orders[o].retries \in 0..MaxWashVerifyRetry
        /\ MaxWashVerifyRetry + 1 \in Nat
    BY <1>1 DEF Order
  <2>2. orders[o].verified < MaxWashVerifyRetry + 1
    BY <1>1, <1>2, <2>1
  <2>3. done = orders[o].verified + 1 /\ spent = orders[o].retries + 1
    BY <1>2, <2>2 DEF UpTo
  <2>4. done \in 0..(MaxWashVerifyRetry + 1) /\ spent \in 0..MaxWashVerifyRetry
    BY <1>1, <1>2, <2>1, <2>2, <2>3
  <2> QED
    BY <2>3, <2>4
<1> HIDE DEF done, spent
<1>4. CASE Verifies(o, s)
  <2> DEFINE rec == [orders[o] EXCEPT !.status = "completed", !.by = a, !.verified = done]
  <2>1. Verification(o, a, s) = rec
    BY <1>1, <1>4 DEF Verification, done, Order
  <2>2. orders[o].held
    BY <1>4 DEF Verifies, Vouched
  <2>3. /\ rec.status = "completed" /\ rec.content = orders[o].content
        /\ rec.baseline = orders[o].baseline /\ rec.held = orders[o].held
        /\ rec.verified = done
    BY <1>1 DEF Order
  <2>4. rec \in Order
    BY <1>1, <1>3 DEF Order, Statuses
  <2> HIDE DEF rec
  <2>5. Sound(rec)
    BY <1>1, <1>2, <1>3, <2>2, <2>3 DEF Order, Sound
  <2> QED
    BY <2>1, <2>3, <2>4, <2>5, GoesOnAllowed
<1>5. CASE ~Verifies(o, s)
  <2> DEFINE rec == [orders[o] EXCEPT !.retries = spent, !.verified = done]
  <2>1. Verification(o, a, s) = rec
    BY <1>1, <1>5 DEF Verification, Counted, done, spent, Order
  <2>2. /\ rec.status = orders[o].status /\ rec.content = orders[o].content
        /\ rec.baseline = orders[o].baseline /\ rec.held = orders[o].held
        /\ rec.verified = done /\ rec.retries = spent
    BY <1>1 DEF Order
  <2>3. rec \in Order
    BY <1>1, <1>3 DEF Order
  <2> HIDE DEF rec
  <2>4. Sound(rec)
    BY <1>1, <1>2, <1>3, <2>2 DEF Order, Sound
  <2> QED
    BY <2>1, <2>2, <2>3, <2>4, GoesOnAllowed
<1> QED
  BY <1>4, <1>5
-----------------------------------------------------------------------------
(* The actions *)

LEMMA CreateStep ==
    ASSUME ConstantsOK, WashInv, NEW o \in Orders, NEW c \in Contents,
           CreateRequestIfNoActiveSimilar(o, c)
    PROVE  WashInv'
<1>1. /\ Written(o, NewOrder(c, library[c])) /\ orders[o].status = "none"
      /\ UNCHANGED <<library, submitting, check, event>> /\ library[c] \in SUBSET Sources
  BY DEF CreateRequestIfNoActiveSimilar, WashInv, TypeOK
<1>2. AllowedStep
  BY <1>1, CreatedAllowed, WrittenAllowed
<1> QED
  BY <1>1, <1>2, RecordStep DEF WashInv, TypeOK, SubmissionNamed, NoSubmission

LEMMA SubmitStep ==
    ASSUME ConstantsOK, WashInv, NEW c \in Contents, BeginSubmit(c) PROVE WashInv'
<1>1. /\ submitting' = [content |-> c, baseline |-> library[c]] /\ library[c] \in SUBSET Sources
      /\ UNCHANGED <<orders, library, check, event>>
  BY DEF BeginSubmit, WashInv, TypeOK
<1>2. submitting' \in [content : Contents \cup {None}, baseline : SUBSET Sources] /\ SubmissionNamed'
  BY <1>1 DEF SubmissionNamed
<1> QED
  BY <1>1, <1>2, Unwritten, RecordStep

LEMMA CreateRequestStep ==
    ASSUME ConstantsOK, WashInv, NEW o \in Orders, CreateRequest(o) PROVE WashInv'
<1>1. /\ submitting # NoSubmission /\ orders[o].status = "none" /\ submitting' = NoSubmission
      /\ Persist(o, NewOrder(submitting.content, submitting.baseline))
      /\ UNCHANGED <<library, check, event>>
  BY DEF CreateRequest
<1>2. submitting.content \in Contents /\ submitting.baseline \in SUBSET Sources
  BY <1>1 DEF WashInv, TypeOK, SubmissionNamed
<1>3. AllowedStep
  BY <1>1, <1>2, CreatedAllowed, WrittenAllowed, Unwritten DEF Persist
<1>4. submitting' \in [content : Contents \cup {None}, baseline : SUBSET Sources] /\ SubmissionNamed'
  BY <1>1 DEF SubmissionNamed, NoSubmission
<1> QED
  BY <1>1, <1>3, <1>4, RecordStep

\* A decision, a claim and its release change the status and the claimant.
LEMMA DecisionStep ==
    ASSUME ConstantsOK, WashInv, NEW o \in Orders,
           \/ \E status \in {"approved", "rejected", "cancelled"} : Decide(o, status)
           \/ \E a \in Admins : ClaimWash(o, a) \/ ReleaseWash(o, a)
    PROVE  WashInv'
<1>1. UNCHANGED <<library, submitting, check, event>>
  BY DEF Decide, ClaimWash, ReleaseWash
<1>2. ASSUME NEW status \in {"approved", "rejected", "cancelled"}, Decide(o, status)
      PROVE  AllowedStep
  BY <1>2, StatusAllowed, WrittenAllowed DEF Decide, Statuses
<1>3. ASSUME NEW a \in Admins, ClaimWash(o, a) PROVE AllowedStep
  BY <1>3, StatusAllowed, WrittenAllowed DEF ClaimWash, Claimable, ClaimedRecord, Statuses
<1>4. ASSUME NEW a \in Admins, ReleaseWash(o, a) PROVE AllowedStep
  BY <1>4, StatusAllowed, WrittenAllowed DEF ReleaseWash, Owned, Statuses
<1> QED
  BY <1>1, <1>2, <1>3, <1>4, RecordStep DEF WashInv, TypeOK, SubmissionNamed, NoSubmission

\* A reopened order starts its budget anew.
LEMMA ReopenStep ==
    ASSUME ConstantsOK, WashInv, NEW o \in Orders, ReopenWash(o) PROVE WashInv'
<1> DEFINE rec == [orders[o] EXCEPT !.status = "approved", !.retries = 0, !.verified = 0]
<1>1. /\ Written(o, rec) /\ orders[o].status = "failed" /\ orders[o] \in Order
      /\ UNCHANGED <<library, submitting, check, event>>
  BY DEF ReopenWash, WashInv, TypeOK
<1>2. 0 \in 0..MaxWashVerifyRetry /\ 0 \in 0..(MaxWashVerifyRetry + 1)
  BY DEF ConstantsOK
<1>3. /\ rec \in Order /\ rec.status = "approved" /\ rec.content = orders[o].content
      /\ rec.baseline = orders[o].baseline /\ rec.held = orders[o].held
      /\ rec.verified = 0 /\ rec.retries = 0
  BY <1>1, <1>2 DEF Order, Statuses
<1> HIDE DEF rec
<1>4. Allowed(o, rec)
  BY <1>1, <1>3, GoesOnAllowed DEF Sound
<1> QED
  BY <1>1, <1>4, WrittenAllowed, RecordStep DEF WashInv, TypeOK, SubmissionNamed, NoSubmission

\* What an administrator's check has read is vouched for while the order goes on.
LEMMA CheckStep ==
    ASSUME ConstantsOK, WashInv, AllowedStep, UNCHANGED <<library, submitting, event>>,
           check' \in [Admins -> [pc      : {"idle", "claimed", "captured", "refused"},
                                  order   : Orders \cup {None},
                                  sources : SUBSET Sources]],
           \A a \in Admins : \/ check'[a].pc = "idle"
                              \/ \E o \in Orders, s \in SUBSET Sources :
                                    check'[a].order = o /\ check'[a].sources = s /\ Vouched(o, s)
    PROVE  WashInv'
<1>1. TypeOK' /\ SubmissionNamed'
  BY DEF WashInv, TypeOK, AllowedStep, SubmissionNamed, NoSubmission
<1>2. ChecksVouched'
  <2> SUFFICES ASSUME NEW a \in Admins, check'[a].pc # "idle"
               PROVE  Vouched(check[a].order, check[a].sources)'
    BY DEF ChecksVouched
  <2>1. PICK o \in Orders, s \in SUBSET Sources :
           check'[a].order = o /\ check'[a].sources = s /\ Vouched(o, s)
    OBVIOUS
  <2>2. Vouched(o, s)'
    BY <2>1, VouchedKept
  <2> QED
    BY <2>1, <2>2 DEF Vouched
<1>3. EventVouched'
  <2>1. \A o \in event.matched : Vouched(o, event.sources)'
    BY VouchedKept DEF WashInv, EventVouched
  <2> QED
    BY <2>1 DEF EventVouched, Vouched
<1> QED
  BY <1>1, <1>2, <1>3, OrdersStep DEF WashInv

CheckType == [pc      : {"idle", "claimed", "captured", "refused"},
              order   : Orders \cup {None},
              sources : SUBSET Sources]

\* One administrator's check moves to rec.
LEMMA OneCheckStep ==
    ASSUME ConstantsOK, WashInv, AllowedStep, UNCHANGED <<library, submitting, event>>,
           NEW a \in Admins, NEW rec \in CheckType, check' = [check EXCEPT ![a] = rec],
           rec.pc = "idle" \/ Vouched(rec.order, rec.sources)
    PROVE  WashInv'
<1>1. /\ check' \in [Admins -> CheckType] /\ check'[a] = rec
      /\ \A b \in Admins : b # a => check'[b] = check[b]
  BY DEF WashInv, TypeOK, CheckType
<1>2. \A b \in Admins : check[b].pc = "idle" \/ Vouched(check[b].order, check[b].sources)
  BY DEF WashInv, ChecksVouched
<1>3. rec.sources \in SUBSET Sources /\ \A b \in Admins : check[b].sources \in SUBSET Sources
  BY DEF WashInv, TypeOK, CheckType
<1>4. \A b \in Admins : \/ check'[b].pc = "idle"
                        \/ \E o \in Orders, s \in SUBSET Sources :
                              check'[b].order = o /\ check'[b].sources = s /\ Vouched(o, s)
  BY <1>1, <1>2, <1>3 DEF Vouched
<1> QED
  BY <1>1, <1>4, CheckStep DEF CheckType

LEMMA NoCheckType == NoCheck \in CheckType /\ NoCheck.pc = "idle"
  BY DEF NoCheck, CheckType

\* A check that is under way knows an order that exists or was purged.
LEMMA CheckedOrder ==
    ASSUME ConstantsOK, WashInv, NEW a \in Admins, check[a].pc # "idle"
    PROVE  /\ check[a].order \in Orders /\ orders[check[a].order].status # "none"
           /\ check[a] \in CheckType /\ Vouched(check[a].order, check[a].sources)
  BY DEF WashInv, TypeOK, ChecksVouched, Vouched, CheckType

LEMMA BeginCompleteStep ==
    ASSUME ConstantsOK, WashInv, NEW o \in Orders, NEW a \in Admins, BeginComplete(o, a)
    PROVE  WashInv'
<1>1. UNCHANGED <<library, submitting, event>>
  BY DEF BeginComplete
<1>2. CASE RecordedFailure(o, a, Counted(o)) /\ UNCHANGED check
  BY <1>1, <1>2, FailureStep, RecordStep DEF WashInv, TypeOK, SubmissionNamed, NoSubmission
<1>3. CASE /\ Claimable(o, a) /\ Written(o, ClaimedRecord(o, a)) /\ orders[o].baseline # {}
           /\ check' = [check EXCEPT ![a] = [pc |-> "claimed", order |-> o, sources |-> {}]]
  <2>1. AllowedStep
    BY <1>3, StatusAllowed, WrittenAllowed DEF Claimable, ClaimedRecord, Statuses
  <2>2. Vouched(o, {})
    BY <1>3 DEF Vouched, Proof, Claimable
  <2>3. [pc |-> "claimed", order |-> o, sources |-> {}] \in CheckType
    BY DEF CheckType
  <2> QED
    BY <1>1, <1>3, <2>1, <2>2, <2>3, OneCheckStep
<1> QED
  BY <1>2, <1>3 DEF BeginComplete

\* Emby's answer vouches for itself.
LEMMA CaptureStep ==
    ASSUME ConstantsOK, WashInv, NEW a \in Admins, CaptureSources(a) PROVE WashInv'
<1> DEFINE o == check[a].order
           rec == [check[a] EXCEPT !.pc = "captured", !.sources = library[orders[o].content]]
<1>1. UNCHANGED <<library, submitting, event>> /\ check[a].pc = "claimed"
  BY DEF CaptureSources
<1>2. o \in Orders /\ orders[o].status # "none" /\ check[a] \in CheckType
  BY <1>1, CheckedOrder
<1>3. CASE /\ orders[o].content # None /\ UNCHANGED orders
           /\ check' = [check EXCEPT ![a].pc = "captured",
                                     ![a].sources = library[orders[o].content]]
  <2>1. orders[o].content \in Contents /\ library[orders[o].content] \in SUBSET Sources
    BY <1>2, <1>3 DEF WashInv, TypeOK, Order
  <2>2. rec \in CheckType /\ rec.order = o /\ rec.sources = library[orders[o].content]
    BY <1>2, <2>1 DEF CheckType
  <2>3. Vouched(o, library[orders[o].content])
    BY <1>2, <1>3 DEF Vouched, WashInv, HeldNow
  <2>4. check' = [check EXCEPT ![a] = rec]
    BY <1>3 DEF WashInv, TypeOK
  <2> HIDE DEF rec
  <2> QED
    BY <1>1, <1>3, <2>2, <2>3, <2>4, Unwritten, OneCheckStep
<1>4. CASE RecordedFailure(o, a, Counted(o)) /\ check' = [check EXCEPT ![a] = NoCheck]
  BY <1>1, <1>2, <1>4, FailureStep, NoCheckType, OneCheckStep
<1> QED
  BY <1>3, <1>4 DEF CaptureSources

\* The order is completed with what was captured, or the check is refused.
LEMMA CompleteStep ==
    ASSUME ConstantsOK, WashInv, NEW a \in Admins, CompleteWash(a) PROVE WashInv'
<1> DEFINE o == check[a].order
           s == check[a].sources
           refused == [check[a] EXCEPT !.pc = "refused"]
<1>1. UNCHANGED <<library, submitting, event>> /\ check[a].pc = "captured"
  BY DEF CompleteWash
<1>2. o \in Orders /\ check[a] \in CheckType /\ Vouched(o, s)
  BY <1>1, CheckedOrder
<1>3. AllowedStep
  <2>1. CASE UNCHANGED orders
    BY <2>1, Unwritten
  <2>2. CASE Owned(o, a) /\ ~Exhausted(o) /\ Written(o, Verification(o, a, s))
    <3>1. Allowed(o, Verification(o, a, s))
      BY <1>2, <2>2, VerificationAllowed DEF Owned
    <3> QED
      BY <1>2, <2>2, <3>1, WrittenAllowed
  <2> QED
    BY <2>1, <2>2 DEF CompleteWash
<1>4. refused \in CheckType /\ refused.order = o /\ refused.sources = s
  BY <1>2 DEF CheckType
<1>5. check' = [check EXCEPT ![a] = NoCheck] \/ check' = [check EXCEPT ![a] = refused]
  BY DEF CompleteWash, WashInv, TypeOK
<1> HIDE DEF refused
<1>6. CASE check' = [check EXCEPT ![a] = NoCheck]
  BY <1>1, <1>3, <1>6, NoCheckType, OneCheckStep
<1>7. CASE check' = [check EXCEPT ![a] = refused]
  BY <1>1, <1>2, <1>3, <1>4, <1>7, OneCheckStep
<1> QED
  BY <1>5, <1>6, <1>7

LEMMA RecordFailureStep ==
    ASSUME ConstantsOK, WashInv, NEW a \in Admins, RecordWashVerificationFailure(a) PROVE WashInv'
<1>1. /\ UNCHANGED <<library, submitting, event>> /\ check[a].pc = "refused"
      /\ RecordedFailure(check[a].order, a, Counted(check[a].order))
      /\ check' = [check EXCEPT ![a] = NoCheck]
  BY DEF RecordWashVerificationFailure
<1>2. check[a].order \in Orders
  BY <1>1, CheckedOrder
<1> QED
  BY <1>1, <1>2, FailureStep, NoCheckType, OneCheckStep
-----------------------------------------------------------------------------
\* The orders an event works on stay vouched for by the sources it read.
LEMMA EventStep ==
    ASSUME ConstantsOK, WashInv, AllowedStep, UNCHANGED <<library, submitting, check>>,
           event' \in [content : Contents \cup {None}, matched : SUBSET Orders,
                       sources : SUBSET Sources],
           \E s \in SUBSET Sources : /\ event'.matched = {} \/ event'.sources = s
                                     /\ \A o \in event'.matched : Vouched(o, s)
    PROVE  WashInv'
<1>1. TypeOK' /\ SubmissionNamed'
  BY DEF WashInv, TypeOK, AllowedStep, SubmissionNamed, NoSubmission
<1>2. EventVouched'
  <2> SUFFICES ASSUME NEW o \in event'.matched PROVE Vouched(o, event.sources)'
    BY DEF EventVouched
  <2>1. PICK p \in Orders : p = o
    OBVIOUS
  <2>2. PICK s \in SUBSET Sources : event'.sources = s /\ Vouched(p, s)
    BY <2>1
  <2>3. Vouched(p, s)'
    BY <2>2, VouchedKept
  <2> QED
    BY <2>1, <2>2, <2>3 DEF Vouched
<1>3. ChecksVouched'
  <2>1. \A a \in Admins : check[a].pc # "idle" => Vouched(check[a].order, check[a].sources)'
    BY VouchedKept DEF WashInv, ChecksVouched
  <2> QED
    BY <2>1 DEF ChecksVouched, Vouched
<1> QED
  BY <1>1, <1>2, <1>3, OrdersStep DEF WashInv

LEMMA LibraryAddStep ==
    ASSUME ConstantsOK, WashInv, NEW c \in Contents, LibraryAdd(c) PROVE WashInv'
<1>1. PICK matched \in SUBSET Orders :
         /\ \A o \in matched : orders[o].content = c /\ orders[o].status = "approved"
         /\ event' = [content |-> c, matched |-> matched, sources |-> library[c]]
  BY DEF LibraryAdd
<1>2. UNCHANGED <<orders, library, submitting, check>> /\ library[c] \in SUBSET Sources
  BY DEF LibraryAdd, WashInv, TypeOK
<1>3. c # None
  BY DEF ConstantsOK
<1>4. \A o \in matched : Vouched(o, library[c])
  BY <1>1, <1>3 DEF Vouched, WashInv, HeldNow
<1>5. /\ event'.matched = matched /\ event'.sources = library[c]
      /\ event' \in [content : Contents \cup {None}, matched : SUBSET Orders,
                     sources : SUBSET Sources]
  BY <1>1, <1>2
<1> QED
  BY <1>2, <1>4, <1>5, Unwritten, EventStep

LEMMA AutomaticStep ==
    ASSUME ConstantsOK, WashInv, NEW o \in Orders, CompleteWashAutomatically(o) PROVE WashInv'
<1>1. /\ o \in event.matched /\ UNCHANGED <<library, submitting, check>>
      /\ event \in [content : Contents \cup {None}, matched : SUBSET Orders,
                    sources : SUBSET Sources]
      /\ \A p \in event.matched : Vouched(p, event.sources)
  BY DEF CompleteWashAutomatically, WashInv, TypeOK, EventVouched
<1>2. AllowedStep
  <2>1. CASE UNCHANGED orders
    BY <2>1, Unwritten
  <2>2. CASE AutomaticallyCompletable(o) /\ Written(o, Verification(o, None, event.sources))
    BY <1>1, <2>2, VerificationAllowed, WrittenAllowed DEF AutomaticallyCompletable
  <2> QED
    BY <2>1, <2>2 DEF CompleteWashAutomatically
<1>3. \/ event' = NoEvent
      \/ event' = [event EXCEPT !.matched = @ \ {o}]
  BY DEF CompleteWashAutomatically
<1>4. CASE event' = NoEvent
  <2>1. /\ event'.matched = {}
        /\ event' \in [content : Contents \cup {None}, matched : SUBSET Orders,
                       sources : SUBSET Sources]
    BY <1>4 DEF NoEvent
  <2> QED
    BY <1>1, <1>2, <2>1, EventStep
<1>5. CASE event' = [event EXCEPT !.matched = @ \ {o}]
  <2>1. /\ event'.matched \subseteq event.matched /\ event'.sources = event.sources
        /\ event.sources \in SUBSET Sources
        /\ event' \in [content : Contents \cup {None}, matched : SUBSET Orders,
                       sources : SUBSET Sources]
    BY <1>1, <1>5
  <2> QED
    BY <1>1, <1>2, <2>1, EventStep
<1> QED
  BY <1>3, <1>4, <1>5

\* Emby's library changes: an order whose condition it now meets has that in its history.
LEMMA LibraryStep ==
    ASSUME ConstantsOK, WashInv, NEW c \in Contents, NEW s \in SUBSET Sources,
           LibraryBecomes(c, s)
    PROVE  WashInv'
<1>1. /\ library' = [library EXCEPT ![c] = s] /\ UNCHANGED <<submitting, check, event>>
      /\ orders' = [o \in Orders |->
                      IF orders[o].content = c
                      THEN [orders[o] EXCEPT !.held = @ \/ Proof(orders[o].baseline, s)]
                      ELSE orders[o]]
  BY DEF LibraryBecomes
<1>2. ASSUME NEW o \in Orders
      PROVE  /\ orders'[o] \in Order
             /\ orders'[o].status = orders[o].status /\ orders'[o].content = orders[o].content
             /\ orders'[o].baseline = orders[o].baseline
             /\ orders'[o].retries = orders[o].retries
             /\ orders'[o].verified = orders[o].verified
             /\ orders[o].held => orders'[o].held
             /\ orders[o].content = c /\ Proof(orders[o].baseline, s) => orders'[o].held
  <2>1. orders[o] \in Order
    BY DEF WashInv, TypeOK
  <2>2. CASE orders[o].content = c
    <3> DEFINE h == orders[o].held \/ Proof(orders[o].baseline, s)
    <3>1. orders'[o] = [orders[o] EXCEPT !.held = h]
      BY <1>1, <2>2
    <3>2. h \in BOOLEAN /\ (orders[o].held => h) /\ (Proof(orders[o].baseline, s) => h)
      BY DEF Proof
    <3> HIDE DEF h
    <3> QED
      BY <2>1, <3>1, <3>2 DEF Order
  <2>3. CASE orders[o].content # c
    BY <1>1, <2>1, <2>3
  <2> QED
    BY <2>2, <2>3
<1>3. TypeOK' /\ SubmissionNamed'
  BY <1>1, <1>2 DEF WashInv, TypeOK, SubmissionNamed, NoSubmission
<1>4. HeldNow'
  <2> SUFFICES ASSUME NEW o \in Orders, orders'[o].content # None,
                      Proof(orders[o].baseline, library'[orders[o].content])
               PROVE  orders'[o].held
    BY <1>2 DEF HeldNow, Proof
  <2>1. orders[o].content \in Contents
    BY <1>2 DEF WashInv, TypeOK, Order
  <2>2. CASE orders[o].content = c
    BY <1>1, <1>2, <2>1, <2>2 DEF WashInv, TypeOK
  <2>3. CASE orders[o].content # c
    BY <1>1, <1>2, <2>1, <2>3 DEF WashInv, TypeOK, HeldNow
  <2> QED
    BY <2>2, <2>3
<1>5. \A o, x : Vouched(o, x) => Vouched(o, x)'
  BY <1>2 DEF Vouched, Proof
<1>6. ChecksVouched' /\ EventVouched'
  BY <1>1, <1>5 DEF WashInv, ChecksVouched, EventVouched, Vouched
<1>7. OrdersSound'
  BY <1>2 DEF WashInv, OrdersSound, Sound
<1> QED
  BY <1>3, <1>4, <1>6, <1>7 DEF WashInv

LEMMA CleanupStep ==
    ASSUME ConstantsOK, WashInv, NEW o \in Orders, Cleanup(o) PROVE WashInv'
<1>1. Allowed(o, NoOrder("purged"))
  BY PurgedSound DEF Allowed
<1> QED
  BY <1>1, WrittenAllowed, RecordStep DEF Cleanup, WashInv, TypeOK, SubmissionNamed, NoSubmission

\* A restart ends orders whose budget is spent, and forgets what was read.
LEMMA RestartStep ==
    ASSUME ConstantsOK, WashInv, Restart PROVE WashInv'
<1>1. /\ submitting' = NoSubmission /\ check' = [a \in Admins |-> NoCheck] /\ event' = NoEvent
      /\ UNCHANGED library
  BY DEF Restart
<1>2. PICK done \in SUBSET {o \in Orders : /\ orders[o].status \in {"approved", "claimed"}
                                           /\ Exhausted(o)} :
         orders' = [o \in Orders |-> IF o \in done THEN Terminated(o) ELSE orders[o]]
  BY DEF Restart
<1>3. ASSUME NEW o \in done PROVE Allowed(o, Terminated(o))
  <2>1. orders[o] \in Order /\ Sound(orders[o]) /\ orders[o].status \in {"approved", "claimed"}
        /\ o \in Orders
    BY <1>2, <1>3 DEF WashInv, TypeOK, OrdersSound
  <2>2. MaxWashVerifyRetry \in 0..MaxWashVerifyRetry
    BY DEF ConstantsOK
  <2>3. /\ Terminated(o) \in Order /\ Terminated(o).status = "failed"
        /\ Terminated(o).content = orders[o].content
        /\ Terminated(o).baseline = orders[o].baseline /\ Terminated(o).held = orders[o].held
        /\ Terminated(o).verified = orders[o].verified
        /\ Terminated(o).retries = MaxWashVerifyRetry
    BY <2>1, <2>2 DEF Terminated, Order, Statuses
  <2>4. Sound(Terminated(o))
    BY <2>1, <2>2, <2>3 DEF Sound, Order
  <2> QED
    BY <2>1, <2>3, <2>4, GoesOnAllowed
<1>4. \A o \in Orders : Allowed(o, orders'[o])
  BY <1>2, <1>3 DEF WashInv, TypeOK, OrdersSound, Allowed
<1>5. AllowedStep
  BY <1>2, <1>4 DEF AllowedStep, Allowed
<1>6. TypeOK' /\ SubmissionNamed'
  BY <1>1, <1>5 DEF WashInv, TypeOK, AllowedStep, SubmissionNamed, NoSubmission, NoCheck, NoEvent
<1>7. ChecksVouched' /\ EventVouched'
  BY <1>1 DEF ChecksVouched, EventVouched, NoCheck, NoEvent
<1> QED
  BY <1>1, <1>5, <1>6, <1>7, OrdersStep DEF WashInv
-----------------------------------------------------------------------------
LEMMA InitInv == ASSUME ConstantsOK, Init PROVE WashInv
<1>1. PICK c \in Contents, old \in SUBSET Legacy :
         orders = [o \in Orders |-> IF o \in old THEN [NoOrder("approved") EXCEPT !.content = c]
                                   ELSE NoOrder("none")]
  BY DEF Init
<1>2. /\ library \in [Contents -> SUBSET Sources]
      /\ submitting = NoSubmission /\ check = [a \in Admins |-> NoCheck] /\ event = NoEvent
  BY DEF Init
<1>3. 0 \in 0..MaxWashVerifyRetry /\ 0 \in 0..(MaxWashVerifyRetry + 1)
  BY DEF ConstantsOK
<1>4. \A o \in Orders : orders[o] \in Order /\ orders[o].baseline = {} /\ Sound(orders[o])
  <2>1. /\ NoOrder("none") \in Order /\ NoOrder("none").baseline = {} /\ Sound(NoOrder("none"))
    BY <1>3 DEF NoOrder, Order, Statuses, Sound
  <2> DEFINE rec == [NoOrder("approved") EXCEPT !.content = c]
  <2>2. rec \in Order /\ rec.baseline = {} /\ Sound(rec)
    <3>1. /\ NoOrder("approved") \in Order /\ NoOrder("approved").status = "approved"
          /\ NoOrder("approved").baseline = {} /\ NoOrder("approved").verified = 0
          /\ NoOrder("approved").retries = 0
      BY <1>3 DEF NoOrder, Order, Statuses
    <3>2. /\ rec \in Order /\ rec.status = "approved" /\ rec.baseline = {} /\ rec.verified = 0
          /\ rec.retries = 0
      BY <3>1 DEF Order
    <3> HIDE DEF rec
    <3> QED
      BY <3>2 DEF Sound
  <2> QED
    BY <1>1, <2>1, <2>2
<1>5. TypeOK
  BY <1>1, <1>2, <1>4 DEF TypeOK, NoSubmission, NoCheck, NoEvent
<1>6. HeldNow
  BY <1>4 DEF HeldNow, Proof
<1>7. SubmissionNamed /\ ChecksVouched /\ EventVouched
  BY <1>2 DEF SubmissionNamed, ChecksVouched, EventVouched, NoCheck, NoEvent
<1> QED
  BY <1>4, <1>5, <1>6, <1>7 DEF WashInv, OrdersSound

LEMMA AdminStep ==
    ASSUME ConstantsOK, WashInv, NEW o \in Orders, NEW a \in Admins, AdminActs(o, a) PROVE WashInv'
  BY DecisionStep, BeginCompleteStep, CaptureStep, CompleteStep, RecordFailureStep DEF AdminActs

LEMMA Inductive == ASSUME ConstantsOK, WashInv, [Next]_vars PROVE WashInv'
<1>1. CASE UNCHANGED vars
  BY <1>1, Unwritten, RecordStep DEF vars, WashInv, TypeOK, SubmissionNamed, NoSubmission
<1>2. ASSUME NEW c \in Contents,
             \/ BeginSubmit(c) \/ LibraryAdd(c)
             \/ \E s \in SUBSET Sources : LibraryBecomes(c, s)
      PROVE  WashInv'
  BY <1>2, SubmitStep, LibraryAddStep, LibraryStep
<1>3. ASSUME NEW o \in Orders,
             \/ \E c \in Contents : CreateRequestIfNoActiveSimilar(o, c)
             \/ CreateRequest(o)
             \/ \E status \in {"approved", "rejected", "cancelled"} : Decide(o, status)
             \/ ReopenWash(o) \/ CompleteWashAutomatically(o) \/ Cleanup(o)
             \/ \E a \in Admins : AdminActs(o, a)
      PROVE  WashInv'
  BY <1>3, CreateStep, CreateRequestStep, DecisionStep, ReopenStep, AutomaticStep, CleanupStep,
     AdminStep
<1>4. CASE Restart
  BY <1>4, RestartStep
<1> QED
  BY <1>1, <1>2, <1>3, <1>4 DEF Next

LEMMA Invariance == Spec => []WashInv
<1>1. Init => WashInv
  BY InitInv, ConstantsOK
<1>2. WashInv /\ [Next]_vars => WashInv'
  BY Inductive, ConstantsOK
<1> QED
  BY <1>1, <1>2, PTL DEF Spec

\* Every variable has its type.
THEOREM TypeCorrect == Spec => []TypeOK
<1>1. WashInv => TypeOK
  BY DEF WashInv
<1> QED
  BY <1>1, Invariance, PTL

\* Whoever completes an order, and however old the sources are that it was verified with
\* (completeWashVerifiedLocked), the library met the condition while the order existed.
THEOREM ProofHeld == Spec => []CompletedOnlyWithProof
<1>1. WashInv => CompletedOnlyWithProof
  BY DEF WashInv, OrdersSound, Sound, CompletedOnlyWithProof
<1> QED
  BY <1>1, Invariance, PTL

\* Between two reopenings no order is verified more often than MaxWashVerifyRetry.
THEOREM BudgetKept == Spec => []VerificationBudget
<1>1. WashInv => VerificationBudget
  <2> SUFFICES ASSUME WashInv, NEW o \in Orders PROVE orders[o].verified <= MaxWashVerifyRetry
    BY DEF VerificationBudget
  <2>1. orders[o] \in Order /\ Sound(orders[o]) /\ MaxWashVerifyRetry \in Nat
    BY ConstantsOK DEF WashInv, TypeOK, OrdersSound, ConstantsOK
  <2> QED
    BY <2>1 DEF Sound, Order
<1> QED
  BY <1>1, Invariance, PTL
-----------------------------------------------------------------------------
\* Only the two completions complete an order.
Completes(o) == orders[o].status # "completed" /\ orders'[o].status = "completed"

LEMMA VerifiedBy ==
    ASSUME WashInv, NEW o \in Orders, NEW a \in Admins \cup {None}, NEW s,
           Written(o, Verification(o, a, s)), NEW p \in Orders, Completes(p)
    PROVE  p = o /\ orders'[p].by = a
<1>1. orders \in [Orders -> Order]
  BY DEF WashInv, TypeOK
<1>2. orders'[o] = Verification(o, a, s) /\ \A q \in Orders : q # o => orders'[q] = orders[q]
  BY <1>1 DEF Written
<1>3. p = o
  BY <1>2 DEF Completes
<1>4. CASE Verifies(o, s)
  <2>1. orders[o] \in Order
    BY <1>1
  <2>2. Verification(o, a, s).by = a
    BY <1>4, <2>1 DEF Verification, Order
  <2> QED
    BY <1>2, <1>3, <2>2
<1>5. CASE ~Verifies(o, s)
  <2>1. Verification(o, a, s).status = orders[o].status
    BY <1>1, <1>5 DEF Verification, Counted, Order
  <2> QED
    BY <1>2, <1>3, <2>1 DEF Completes
<1> QED
  BY <1>3, <1>4, <1>5

\* A write of anything but a completion completes nothing.
LEMMA WrittenOpen ==
    ASSUME WashInv, NEW o \in Orders, NEW rec,
           rec.status # "completed" \/ rec.status = orders[o].status,
           Persist(o, rec), NEW p \in Orders
    PROVE  ~Completes(p)
  BY DEF WashInv, TypeOK, Persist, Written, Completes

LEMMA FailureOpen ==
    ASSUME WashInv, NEW o \in Orders, NEW a, RecordedFailure(o, a, Counted(o)), NEW p \in Orders
    PROVE  ~Completes(p)
<1>1. Counted(o).status = orders[o].status
  BY DEF WashInv, TypeOK, Order, Counted
<1>2. CASE UNCHANGED orders
  BY <1>2 DEF Completes
<1>3. CASE Persist(o, Counted(o))
  BY <1>1, <1>3, WrittenOpen
<1> QED
  BY <1>2, <1>3 DEF RecordedFailure

\* What an administrator does to an order completes it for herself.
LEMMA AdminCompletes ==
    ASSUME ConstantsOK, WashInv, NEW o \in Orders, NEW a \in Admins, AdminActs(o, a),
           NEW p \in Orders, Completes(p)
    PROVE  orders[p].status = "claimed" /\ orders[p].claimed = a /\ orders'[p].by = a
<1>1. orders[o] \in Order
  BY DEF WashInv, TypeOK
<1>2. /\ ClaimedRecord(o, a).status = "claimed"
      /\ [orders[o] EXCEPT !.status = "approved", !.claimed = None].status = "approved"
  BY <1>1 DEF ClaimedRecord, Order
<1>3. CASE ClaimWash(o, a) \/ ReleaseWash(o, a)
  BY <1>2, <1>3, WrittenOpen DEF ClaimWash, ReleaseWash, Persist
<1>4. CASE BeginComplete(o, a)
  BY <1>2, <1>4, WrittenOpen, FailureOpen DEF BeginComplete, Persist
<1>5. CASE CaptureSources(a)
  <2>1. check[a].order \in Orders
    BY <1>5, CheckedOrder DEF CaptureSources
  <2> QED
    BY <1>5, <2>1, FailureOpen DEF CaptureSources, Completes
<1>6. CASE RecordWashVerificationFailure(a)
  <2>1. check[a].order \in Orders
    BY <1>6, CheckedOrder DEF RecordWashVerificationFailure
  <2> QED
    BY <1>6, <2>1, FailureOpen DEF RecordWashVerificationFailure
<1>7. CASE CompleteWash(a)
  <2>1. check[a].order \in Orders
    BY <1>7, CheckedOrder DEF CompleteWash
  <2>2. /\ Owned(check[a].order, a)
        /\ Written(check[a].order, Verification(check[a].order, a, check[a].sources))
    BY <1>7 DEF CompleteWash, Completes
  <2> QED
    BY <2>1, <2>2, VerifiedBy DEF Owned
<1> QED
  BY <1>3, <1>4, <1>5, <1>6, <1>7 DEF AdminActs

\* An event completes what is approved, for nobody.
LEMMA EventCompletes ==
    ASSUME ConstantsOK, WashInv, NEW o \in Orders, CompleteWashAutomatically(o),
           NEW p \in Orders, Completes(p)
    PROVE  orders[p].status = "approved" /\ orders'[p].by = None
<1>1. orders[o].status = "approved" /\ Written(o, Verification(o, None, event.sources))
  BY DEF CompleteWashAutomatically, AutomaticallyCompletable, Completes
<1> QED
  BY <1>1, VerifiedBy

LEMMA OthersComplete ==
    ASSUME ConstantsOK, WashInv, NEW p \in Orders,
           \/ \E c \in Contents : BeginSubmit(c) \/ LibraryAdd(c)
           \/ \E c \in Contents, s \in SUBSET Sources : LibraryBecomes(c, s)
           \/ \E o \in Orders : \/ \E c \in Contents : CreateRequestIfNoActiveSimilar(o, c)
                               \/ CreateRequest(o)
                               \/ \E s \in {"approved", "rejected", "cancelled"} : Decide(o, s)
                               \/ ReopenWash(o) \/ Cleanup(o)
           \/ Restart
    PROVE  ~Completes(p)
<1>1. \A o \in Orders : orders[o] \in Order
  BY DEF WashInv, TypeOK
<1>2. ASSUME NEW c \in Contents, BeginSubmit(c) \/ LibraryAdd(c) PROVE ~Completes(p)
  BY <1>2 DEF BeginSubmit, LibraryAdd, Completes
<1>3. ASSUME NEW c \in Contents, NEW s \in SUBSET Sources, LibraryBecomes(c, s)
      PROVE  ~Completes(p)
  <2>1. orders'[p].status = orders[p].status
    BY <1>1, <1>3 DEF LibraryBecomes, Order
  <2> QED
    BY <2>1 DEF Completes
<1>4. \A c, b : NewOrder(c, b).status = "pending"
  BY DEF NewOrder, NoOrder
<1>5. ASSUME NEW o \in Orders, NEW c \in Contents, CreateRequestIfNoActiveSimilar(o, c)
      PROVE  ~Completes(p)
  BY <1>4, <1>5, WrittenOpen DEF CreateRequestIfNoActiveSimilar, Persist
<1>6. ASSUME NEW o \in Orders, CreateRequest(o) PROVE ~Completes(p)
  BY <1>4, <1>6, WrittenOpen DEF CreateRequest
<1>7. ASSUME NEW o \in Orders, NEW s \in {"approved", "rejected", "cancelled"}, Decide(o, s)
      PROVE  ~Completes(p)
  <2>1. [orders[o] EXCEPT !.status = s].status = s
    BY <1>1 DEF Order
  <2> QED
    BY <1>7, <2>1, WrittenOpen DEF Decide, Persist
<1>8. ASSUME NEW o \in Orders, ReopenWash(o) PROVE ~Completes(p)
  <2>1. [orders[o] EXCEPT !.status = "approved", !.retries = 0, !.verified = 0].status = "approved"
    BY <1>1 DEF Order
  <2> QED
    BY <1>8, <2>1, WrittenOpen DEF ReopenWash, Persist
<1>9. ASSUME NEW o \in Orders, Cleanup(o) PROVE ~Completes(p)
  <2>1. NoOrder("purged").status = "purged"
    BY DEF NoOrder
  <2> QED
    BY <1>9, <2>1, WrittenOpen DEF Cleanup, Persist
<1>10. CASE Restart
  <2>1. \A o \in Orders : Terminated(o).status = "failed"
    BY <1>1 DEF Terminated, Order
  <2>2. orders'[p].status \in {"failed", orders[p].status}
    BY <1>10, <2>1 DEF Restart
  <2> QED
    BY <2>2 DEF Completes
<1> QED
  BY <1>2, <1>3, <1>5, <1>6, <1>7, <1>8, <1>9, <1>10

\* A claimed order is completed by its claimant only, an approved one by an event only, even by
\* a check or an event that began before (CompleteWash, completeWashOnLibraryAdd).
THEOREM OwnersComplete == Spec => CompletedByClaimant
<1>1. WashInv /\ [Next]_vars =>
        [\A o \in Orders :
           orders[o].status # "completed" /\ orders'[o].status = "completed"
           => orders'[o].by = IF orders[o].status = "claimed" THEN orders[o].claimed ELSE None]_vars
  <2> SUFFICES ASSUME WashInv, Next, NEW p \in Orders, Completes(p)
               PROVE  orders'[p].by = IF orders[p].status = "claimed" THEN orders[p].claimed ELSE None
    BY DEF Completes
  <2>1. CASE \E o \in Orders, a \in Admins : AdminActs(o, a)
    BY <2>1, AdminCompletes, ConstantsOK
  <2>2. CASE \E o \in Orders : CompleteWashAutomatically(o)
    BY <2>2, EventCompletes, ConstantsOK
  <2> QED
    BY <2>1, <2>2, OthersComplete, ConstantsOK DEF Next
<1> QED
  BY <1>1, Invariance, PTL DEF Spec, CompletedByClaimant
=============================================================================
