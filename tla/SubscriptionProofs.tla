------------------------- MODULE SubscriptionProofs -------------------------
(***************************************************************************)
(* Proofs about Subscription, for any number of subscriptions, retries,    *)
(* failures and restarts.                                                  *)
(*                                                                         *)
(* SubscriptionInv is inductive.  Its parts say where a thread may be      *)
(* (PlacesOK), that MoviePilot made whatever is known by an id (KnownOK),  *)
(* that the file agrees with the review (FileOK) and, as long as no retry  *)
(* overlapped the approval, that one thread at a time can link the review  *)
(* (LinkOK), what each thread holds (HoldOK) and that replacements do not  *)
(* overlap (LapOK).  There is one lemma for each action or branch of one:  *)
(* its first steps state what the branch does to the threads, the review   *)
(* and MoviePilot, and each part of the invariant follows from these.      *)
(***************************************************************************)
EXTENDS Subscription, TLAPS

Places == {"idle", "cleanup", "clear", "snapshot", "apply", "retry", "fetched", "found", "create",
           "made", "refused", "link", "unlinked", "compensate", "delete"}

\* Thread t moves on, and no other does.
StepsTo(t, pc, for, snap, sub, lapped) ==
    /\ run' \in [Threads -> Thread]
    /\ \A u \in Threads \ {t} : run'[u] = run[u]
    /\ run'[t].pc = pc /\ run'[t].for = for /\ run'[t].snap = snap /\ run'[t].sub = sub
    /\ run'[t].lapped = lapped

\* What a thread is made of.
LEMMA Typed ==
    \A x \in Thread : /\ x.pc \in Places /\ x.for \in {"apply", "found"}
                      /\ x.sub \in Ids \cup {None}
                      /\ x.snap \in Snapshots \cup {NoSnapshot} /\ x.lapped \in BOOLEAN
BY DEF Thread, Places

\* What the assignments to run do, one lemma for each form.
LEMMA Placed ==
    ASSUME run \in [Threads -> Thread], NEW t \in Threads, NEW x \in Thread,
           run' = [run EXCEPT ![t] = x]
    PROVE  StepsTo(t, x.pc, x.for, x.snap, x.sub, x.lapped)
BY DEF StepsTo

LEMMA Going ==
    ASSUME run \in [Threads -> Thread], NEW t \in Threads, NEW p \in Places,
           run' = [run EXCEPT ![t].pc = p]
    PROVE  StepsTo(t, p, run[t].for, run[t].snap, run[t].sub, run[t].lapped)
BY DEF Thread, Places, StepsTo, AtRest

LEMMA Asking ==
    ASSUME run \in [Threads -> Thread], NEW t \in Threads, NEW p \in Places,
           NEW f \in {"apply", "found"},
           run' = [run EXCEPT ![t].pc = p, ![t].for = f]
    PROVE  StepsTo(t, p, f, run[t].snap, run[t].sub, run[t].lapped)
<1> DEFINE x == [run[t] EXCEPT !.pc = p, !.for = f]
<1>1. run[t] \in Thread
  OBVIOUS
<1>2. x \in Thread
  BY <1>1 DEF Thread, Places
<1>3. run' = [run EXCEPT ![t] = x]
  OBVIOUS
<1> QED
  BY <1>1, <1>2, <1>3, Placed DEF Thread, StepsTo

LEMMA Seeing ==
    ASSUME run \in [Threads -> Thread], NEW t \in Threads, NEW p \in Places, NEW s \in Snapshots,
           run' = [run EXCEPT ![t].pc = p, ![t].snap = s]
    PROVE  StepsTo(t, p, run[t].for, s, run[t].sub, run[t].lapped)
<1> DEFINE x == [run[t] EXCEPT !.pc = p, !.snap = s]
<1>1. run[t] \in Thread
  OBVIOUS
<1>2. x \in Thread
  BY <1>1 DEF Thread, Places
<1>3. run' = [run EXCEPT ![t] = x]
  OBVIOUS
<1> QED
  BY <1>1, <1>2, <1>3, Placed DEF Thread, StepsTo

LEMMA Taking ==
    ASSUME run \in [Threads -> Thread], NEW t \in Threads, NEW p \in Places, NEW i \in Ids,
           run' = [run EXCEPT ![t].pc = p, ![t].sub = i]
    PROVE  StepsTo(t, p, run[t].for, run[t].snap, i, run[t].lapped)
<1> DEFINE x == [run[t] EXCEPT !.pc = p, !.sub = i]
<1>1. run[t] \in Thread
  OBVIOUS
<1>2. x \in Thread
  BY <1>1 DEF Thread, Places
<1>3. run' = [run EXCEPT ![t] = x]
  OBVIOUS
<1> QED
  BY <1>1, <1>2, <1>3, Placed DEF Thread, StepsTo

LEMMA Resting ==
    ASSUME run \in [Threads -> Thread], NEW t \in Threads, NEW p \in Places,
           run' = [run EXCEPT ![t] = [AtRest EXCEPT !.pc = p]]
    PROVE  StepsTo(t, p, "apply", NoSnapshot, None, FALSE)
BY DEF Thread, Places, StepsTo, AtRest

LEMMA Ending ==
    ASSUME run \in [Threads -> Thread], NEW t \in Threads,
           run' = [run EXCEPT ![t] = AtRest]
    PROVE  StepsTo(t, "idle", "apply", NoSnapshot, None, FALSE)
BY DEF Thread, Places, StepsTo, AtRest

\* What the invariant says of the review: everything but stuck and orphans.
LEMMA ReviewTyped ==
    \A rv \in Review : /\ rv.status \in {"pending", "approved", "failed"}
                       /\ rv.sub \in Ids \cup {None} /\ rv.obsolete \in Ids \cup {None}
                       /\ rv.state \in States \cup {"none", "X"}
                       /\ rv.retries \in 0..MaxApproveRetry
                       /\ rv.cooling \in BOOLEAN /\ rv.noticed \in SUBSET {"D", "R"}
BY DEF Review

LEMMA Approving ==
    ASSUME NEW x \in Review
    PROVE  LET rv == [x EXCEPT !.status = "approved"]
           IN /\ rv \in Review /\ rv.status = "approved" /\ rv.sub = x.sub /\ rv.obsolete = x.obsolete
              /\ rv.state = x.state /\ rv.retries = x.retries /\ rv.cooling = x.cooling /\ rv.noticed = x.noticed
BY DEF Review

LEMMA Failing ==
    ASSUME NEW x \in Review
    PROVE  LET rv == [x EXCEPT !.status = "failed", !.stuck = FALSE]
           IN /\ rv \in Review /\ rv.status = "failed" /\ rv.sub = x.sub /\ rv.obsolete = x.obsolete
              /\ rv.state = x.state /\ rv.retries = x.retries /\ rv.cooling = x.cooling /\ rv.noticed = x.noticed
BY DEF Review

LEMMA Updating ==
    ASSUME review \in Review, NEW i \in Ids, NEW s \in States
    PROVE  LET rv == UpdateSubscriptionInfo(i, s)
           IN /\ rv \in Review /\ rv.status = review.status /\ rv.sub = i /\ rv.obsolete = review.obsolete
              /\ rv.state = s /\ rv.retries = review.retries /\ rv.cooling = review.cooling /\ rv.noticed = review.noticed
BY DEF Review, UpdateSubscriptionInfo

LEMMA Linking ==
    ASSUME review \in Review, NEW i \in Ids, NEW s \in States
    PROVE  LET rv == LinkSubscription(i, s)
           IN /\ rv \in Review /\ rv.status = review.status /\ rv.sub = i /\ rv.obsolete = review.obsolete
              /\ rv.state = s /\ rv.retries = review.retries /\ rv.cooling = review.cooling /\ rv.noticed = review.noticed
BY DEF Review, LinkSubscription

LEMMA Sticking ==
    ASSUME review \in Review, NEW final \in BOOLEAN
    PROVE  LET rv == MarkStuck(final)
           IN /\ rv \in Review /\ rv.status = review.status /\ rv.sub = review.sub /\ rv.obsolete = review.obsolete
              /\ rv.state = review.state /\ rv.cooling = review.cooling /\ rv.noticed = review.noticed
<1>1. DEFINE n == IF final \/ review.retries + 1 > MaxApproveRetry THEN MaxApproveRetry ELSE review.retries + 1
<1>2. n \in 0..MaxApproveRetry
  BY ConstantsOK DEF Review
<1>3. MarkStuck(final) = [review EXCEPT !.stuck = TRUE, !.retries = n]
  BY DEF MarkStuck
<1> HIDE DEF n
<1> QED
  BY <1>2, <1>3 DEF Review

LEMMA Clearing ==
    ASSUME NEW x \in Review
    PROVE  LET rv == [x EXCEPT !.obsolete = None]
           IN /\ rv \in Review /\ rv.status = x.status /\ rv.sub = x.sub /\ rv.obsolete = None
              /\ rv.state = x.state /\ rv.retries = x.retries /\ rv.cooling = x.cooling /\ rv.noticed = x.noticed
BY DEF Review

LEMMA Cooling ==
    ASSUME NEW x \in Review
    PROVE  LET rv == [x EXCEPT !.cooling = FALSE]
           IN /\ rv \in Review /\ rv.status = x.status /\ rv.sub = x.sub /\ rv.obsolete = x.obsolete
              /\ rv.state = x.state /\ rv.retries = x.retries /\ rv.noticed = x.noticed
BY DEF Review

LEMMA Applying ==
    ASSUME review \in Review, NEW s \in States
    PROVE  LET rv == Applied(s)
           IN /\ rv \in Review /\ rv.status = review.status /\ rv.sub = review.sub /\ rv.obsolete = review.obsolete
              /\ rv.state = s /\ rv.retries = review.retries /\ rv.cooling = review.cooling
              /\ rv.noticed = review.noticed \cup Notices(s)
BY DEF Review, Applied, Notices

LEMMA Missing ==
    ASSUME review \in Review
    PROVE  LET rv == Orphaned
           IN /\ rv \in Review /\ rv.status = review.status /\ rv.sub = review.sub /\ rv.obsolete = review.obsolete
              /\ rv.retries = review.retries /\ rv.cooling = review.cooling /\ rv.noticed = review.noticed
BY ConstantsOK DEF Review, Orphaned

LEMMA Substituting ==
    ASSUME review \in Review, NEW i \in Ids
    PROVE  LET rv == Replacement(i)
           IN /\ rv \in Review /\ rv.status = review.status /\ rv.sub = i
              /\ rv.obsolete = IF review.sub \notin {None, i} THEN review.sub ELSE review.obsolete
              /\ rv.retries = review.retries /\ rv.cooling /\ rv.noticed = review.noticed
BY ConstantsOK DEF Review, Replacement

\* MoviePilot creates nothing, and what is gone stays gone.
Waning ==
    /\ mp' \in [Ids -> States \cup {"none", "gone"}]
    /\ \A j \in Ids : /\ mp[j] # "none" => mp'[j] # "none"
                      /\ mp[j] = "gone" => mp'[j] = "gone"
                      /\ mp'[j] \in States => mp[j] \in States

LEMMA NothingMoves ==
    ASSUME TypeOK, UNCHANGED mp
    PROVE  Waning
BY DEF TypeOK, Waning

LEMMA OneGoes ==
    ASSUME TypeOK, NEW i \in Ids, mp' = [mp EXCEPT ![i] = "gone"]
    PROVE  Waning /\ mp'[i] = "gone"
BY ConstantsOK DEF TypeOK, Waning

\* Whatever names a subscription is 0 or one of the ids.
LEMMA Naming ==
    ASSUME TypeOK
    PROVE  /\ review.sub \in Ids \cup {None} /\ review.obsolete \in Ids \cup {None}
           /\ tracked \in Ids \cup {None} /\ replaced \in Ids \cup {None}
           /\ \A t \in Threads : run[t].sub \in Ids \cup {None} /\ run[t].for \in {"apply", "found"}
           /\ answered \subseteq Ids /\ deleted \subseteq Ids /\ None \notin Ids
           /\ \A i \in Ids : Alive(i) <=> mp[i] \notin {"none", "gone"}
BY ConstantsOK, Typed, ReviewTyped DEF TypeOK, Ids, None, Alive

LEMMA NothingListed ==
    /\ NoSnapshot \in Snapshots \cup {NoSnapshot}
    /\ \A i \in Ids : NoSnapshot[i] \notin States
BY ConstantsOK DEF NoSnapshot

\* What the review and the file hold after a step.
Writes(status, sub, obsolete) ==
    /\ review' \in Review /\ disk' \in Review
    /\ review'.status = status /\ review'.sub = sub /\ review'.obsolete = obsolete
    /\ disk'.status = status /\ disk'.sub = sub /\ disk'.obsolete = obsolete
    /\ disk'.retries = review'.retries

LEMMA NothingWritten ==
    ASSUME TypeOK, FileOK, UNCHANGED <<review, disk>>
    PROVE  /\ Writes(review.status, review.sub, review.obsolete)
           /\ review'.retries = review.retries /\ review'.state = review.state /\ review'.cooling = review.cooling
BY DEF TypeOK, FileOK, Writes

LEMMA Rounding ==
    ASSUME run \in [Threads -> Thread], NEW b \in BOOLEAN,
           run' = [run EXCEPT !["poller"].pc = "cleanup", !["replacer"].lapped = b]
    PROVE  /\ run' \in [Threads -> Thread] /\ run'["approver"] = run["approver"]
           /\ run'["poller"].pc = "cleanup" /\ run'["poller"].for = run["poller"].for
           /\ run'["poller"].snap = run["poller"].snap /\ run'["poller"].sub = run["poller"].sub
           /\ run'["replacer"].pc = run["replacer"].pc /\ run'["replacer"].for = run["replacer"].for
           /\ run'["replacer"].snap = run["replacer"].snap /\ run'["replacer"].sub = run["replacer"].sub
           /\ run'["replacer"].lapped = b
BY DEF Thread, Threads

LEMMA Starting ==
    ASSUME run \in [Threads -> Thread], NEW p \in Places,
           run' = [run EXCEPT !["poller"] = [AtRest EXCEPT !.pc = "retry"], !["replacer"].pc = p]
    PROVE  /\ run' \in [Threads -> Thread] /\ run'["approver"] = run["approver"]
           /\ run'["poller"].pc = "retry" /\ run'["poller"].for = "apply"
           /\ run'["poller"].snap = NoSnapshot /\ run'["poller"].sub = None
           /\ run'["replacer"].pc = p /\ run'["replacer"].for = run["replacer"].for
           /\ run'["replacer"].snap = run["replacer"].snap /\ run'["replacer"].sub = run["replacer"].sub
           /\ run'["replacer"].lapped = run["replacer"].lapped
BY DEF Thread, Threads, Places, AtRest

\* What a POST that reaches MoviePilot makes of its subscriptions.
LEMMA Creating ==
    ASSUME TypeOK, KnownOK, NEW i \in Made, Create(i)
    PROVE  /\ i \in Ids /\ mp' \in [Ids -> States \cup {"none", "gone"}]
           /\ \A j \in Ids : /\ mp[j] # "none" => mp'[j] # "none"
                             /\ mp[j] = "gone" => mp'[j] = "gone"
                             /\ mp'[j] \in States => mp[j] \in States \/ (j = i /\ mp[i] = "none")
           /\ mp[i] # "gone" /\ mp'[i] # "none"
           /\ ~merges => mp[i] = "none"
           /\ merges => \A j \in Ids : j # i /\ mp[j] # "none" => mp[j] = "gone"
           /\ merges => \A j, k \in Ids : mp'[j] \in States /\ mp'[k] \in States => j = k
<1>1. i \in Ids /\ (Alive(i) \/ mp[i] = "none")
  BY DEF Made, Unused
<1>2. ~merges => mp[i] = "none"
  BY DEF Made, Unused
<1>3. merges => \/ Alive(i) /\ \A j \in Ids : Alive(j) => j = i
                \/ mp[i] = "none" /\ \A j \in Ids : ~Alive(j)
  BY <1>1 DEF Made, Unused, KnownOK
<1>4. \A j \in Ids : mp[j] \in States \cup {"none", "gone"} /\ "none" \notin States /\ "gone" \notin States
  BY ConstantsOK DEF TypeOK
<1>5. CASE Alive(i)
  <2>1. mp' = mp
    BY <1>5 DEF Create
  <2> QED
    <3>1. /\ i \in Ids /\ mp' \in [Ids -> States \cup {"none", "gone"}]
          /\ mp[i] # "gone" /\ mp'[i] # "none"
          /\ ~merges => mp[i] = "none"
      BY <1>1, <1>2, <1>4, <1>5, <2>1 DEF Alive, TypeOK
    <3>2. \A j \in Ids : /\ mp'[j] = mp[j]
                         /\ merges /\ mp[j] \in States => j = i
      BY <1>3, <1>4, <1>5, <2>1 DEF Alive
    <3>3. \A j \in Ids : /\ mp[j] # "none" => mp'[j] # "none"
                         /\ mp[j] = "gone" => mp'[j] = "gone"
                         /\ mp'[j] \in States => mp[j] \in States \/ (j = i /\ mp[i] = "none")
      BY <3>2
    <3>4. merges => \A j \in Ids : j # i /\ mp[j] # "none" => mp[j] = "gone"
      BY <3>2, <1>4
    <3>5. merges => \A j, k \in Ids : mp'[j] \in States /\ mp'[k] \in States => j = k
      BY <3>2
    <3> QED
      BY <3>1, <3>3, <3>4, <3>5
<1>6. CASE ~Alive(i)
  <2>1. mp[i] = "none" /\ mp' \in [Ids -> States \cup {"none", "gone"}]
        /\ mp'[i] = "N" /\ \A j \in Ids : j # i => mp'[j] = mp[j]
    BY <1>1, <1>6, ConstantsOK DEF Create, TypeOK
  <2> QED
    BY <1>1, <1>2, <1>3, <1>4, <2>1 DEF Alive
<1> QED
  BY <1>5, <1>6

-----------------------------------------------------------------------------
(***************************************************************************)
(* MoviePilot, its users, and the calls of the client.                     *)
(***************************************************************************)
\* What happens in MoviePilot, and what only passes, keeps the invariant.
LEMMA WorldStep ==
    ASSUME SubscriptionInv, Waning, TypeOK',
           UNCHANGED <<merges, ledger, run, tracked, replaced, answered, deleted, excuses>>,
           \A j \in Ids : statusCache'[j] \in States => statusCache[j] \in States
    PROVE  SubscriptionInv'
<1>0. TypeOK /\ PlacesOK /\ KnownOK /\ FileOK
  BY DEF SubscriptionInv
<1>1. /\ merges' = merges /\ review' = review /\ disk' = disk /\ run' = run /\ tracked' = tracked
      /\ replaced' = replaced /\ answered' = answered /\ deleted' = deleted /\ excuses' = excuses
  BY DEF ledger
<1>2. PlacesOK' /\ FileOK'
  BY <1>0, <1>1 DEF PlacesOK, FileOK, Polling, At
<1>3. KnownOK'
  BY <1>0, <1>1, Naming DEF KnownOK, Lists, Waning, Alive
<1>4. ASSUME "overlap" \notin excuses PROVE LinkOK' /\ HoldOK' /\ LapOK' /\ UndeletedOK' /\ NothingForgotten'
  <2>1. LinkOK /\ HoldOK /\ LapOK /\ UndeletedOK /\ NothingForgotten
    BY <1>4 DEF SubscriptionInv
  <2>2. LinkOK'
    BY <2>1, <1>0, <1>1, Naming DEF LinkOK, Waning, Alive, Submitting, Polling, At
  <2>3. HoldOK'
    BY <2>1, <1>0, <1>1, Naming DEF HoldOK, LinkOK, PlacesOK, Waning, At, Holding, Threads
  <2>4. LapOK' /\ UndeletedOK'
    BY <2>1, <1>1 DEF LapOK, UndeletedOK, Polling, At
  <2>5. NothingForgotten'
    BY <2>1, <1>0, <1>1, Naming DEF NothingForgotten, Waning, Alive
  <2> QED
    BY <2>2, <2>3, <2>4, <2>5
<1> QED
  BY <1>2, <1>3, <1>4 DEF SubscriptionInv

\* A snapshot lists what MoviePilot made, whether it was fetched now or is the cached one.
LEMMA GetAllSubscriptionsStep ==
    ASSUME SubscriptionInv, NEW t \in Threads, GetAllSubscriptions(t)
    PROVE  SubscriptionInv'
<1>0. TypeOK /\ PlacesOK /\ KnownOK /\ FileOK
  BY DEF SubscriptionInv
<1>1. At(t, "snapshot") /\ UNCHANGED <<mp, merges, review, disk, tracked, replaced, booted, aged,
                                       statusCache, answered, deleted, heard, retold, excuses, faults, restarts, userActs>>
  BY DEF GetAllSubscriptions, ledger, history, bounds
<1>2. Waning
  BY <1>0, <1>1, NothingMoves
<1>3. PICK s \in Snapshots, p \in Places : p \in {run[t].for, "fetched"} /\ 
           Lists(s) /\ run' = [run EXCEPT ![t].pc = p, ![t].snap = s]
  <2>1. CASE CachedSubscriptionStatuses(t)
    BY <2>1, <1>0, Typed DEF Places, CachedSubscriptionStatuses, TypeOK, KnownOK
  <2>2. CASE FetchSubscriptionStatusSnapshot(t)
    <3>1. Listed \in Snapshots /\ Lists(Listed)
      BY <1>0, ConstantsOK DEF TypeOK, Listed, Lists, Snapshots
    <3> QED
      BY <2>2, <3>1 DEF Places, FetchSubscriptionStatusSnapshot
  <2> QED
    BY <2>1, <2>2 DEF GetAllSubscriptions
<1>4. StepsTo(t, p, run[t].for, s, run[t].sub, run[t].lapped)
  BY <1>0, <1>3, Seeing DEF TypeOK
<1>5. TypeOK'
  BY <1>0, <1>1, <1>4 DEF TypeOK, StepsTo
<1>6. PlacesOK'
  <2>1. CASE t = "approver"
    BY <2>1, <1>0, <1>1, <1>3, <1>4 DEF PlacesOK, Polling, Holding, Resolving, At, Threads, StepsTo
  <2>2. CASE t = "poller"
    BY <2>2, Naming, <1>0, <1>1, <1>3, <1>4 DEF PlacesOK, Polling, Holding, Resolving, At,
       Threads, StepsTo
  <2>3. CASE t = "replacer"
    BY <2>3, <1>0, <1>1 DEF PlacesOK, Replacing, At
  <2> QED
    BY <2>1, <2>2, <2>3 DEF Threads
<1>7. KnownOK'
  BY <1>0, <1>1, <1>3, <1>4 DEF KnownOK, Lists, Alive, StepsTo
<1>8. FileOK'
  BY <1>0, <1>1 DEF FileOK
<1>9. ASSUME "overlap" \notin excuses' PROVE LinkOK' /\ HoldOK' /\ LapOK' /\ UndeletedOK' /\ NothingForgotten'
  <2>1. LinkOK /\ HoldOK /\ LapOK /\ UndeletedOK /\ NothingForgotten
    BY <1>9, <1>1 DEF SubscriptionInv
  <2>2. LinkOK'
    <3>1. CASE t = "approver"
      BY <3>1, <2>1, <1>1, <1>4 DEF LinkOK, Submitting, Polling, Alive, At, Threads, StepsTo
    <3>2. CASE t = "poller"
      BY Naming, <2>1, <1>0, <1>1, <1>3, <1>4 DEF LinkOK, Submitting, Polling, Resolving, Posting,
         At, Threads, StepsTo
    <3>3. CASE t = "replacer"
      BY <3>3, <2>1, <1>1, <1>4 DEF LinkOK, Submitting, Polling, Alive, At, Threads, StepsTo
    <3> QED
      BY <3>1, <3>2, <3>3 DEF Threads
  <2>3. HoldOK'
    <3>1. CASE t = "approver"
      BY <3>1, <2>1, <1>1, <1>4 DEF HoldOK, Holding, At, Threads, StepsTo
    <3>2. CASE t = "poller"
      BY <3>2, Naming, <2>1, <1>0, <1>1, <1>3, <1>4 DEF HoldOK, Holding, At, Threads, StepsTo
    <3>3. CASE t = "replacer"
      BY Naming, <2>1, <1>0, <1>1, <1>3, <1>4 DEF HoldOK, PlacesOK, Holding, At, Threads, StepsTo
    <3> QED
      BY <3>1, <3>2, <3>3 DEF Threads
  <2>4. LapOK'
    BY Naming, <2>1, <1>0, <1>1, <1>3, <1>4 DEF LapOK, Polling, At, Threads, StepsTo
  <2>5. UndeletedOK'
    BY <2>1, <1>1 DEF UndeletedOK
  <2>6. NothingForgotten'
    BY <2>1, <1>1, <1>4 DEF NothingForgotten, Alive, StepsTo
  <2> QED
    BY <2>2, <2>3, <2>4, <2>5, <2>6
<1> QED
  BY <1>5, <1>6, <1>7, <1>8, <1>9 DEF SubscriptionInv

LEMMA StoreSubscriptionStatusesStep ==
    ASSUME SubscriptionInv, NEW t \in Threads, StoreSubscriptionStatuses(t)
    PROVE  SubscriptionInv'
<1>0. TypeOK /\ PlacesOK /\ KnownOK /\ FileOK
  BY DEF SubscriptionInv
<1>1. At(t, "fetched") /\ UNCHANGED <<mp, merges, review, disk, tracked, replaced, booted, aged,
                                      answered, deleted, heard, retold, excuses, faults, restarts, userActs>>
  BY DEF StoreSubscriptionStatuses, ledger, history, bounds
<1>2. Waning
  BY <1>0, <1>1, NothingMoves
<1>3. statusCache' = run[t].snap /\ run[t].snap \in Snapshots
  BY <1>0 DEF StoreSubscriptionStatuses, PlacesOK, At
<1>4. PICK p \in Places : p = run[t].for /\ run' = [run EXCEPT ![t].pc = p]
  BY <1>0, Typed DEF StoreSubscriptionStatuses, Goto, TypeOK, Places
<1>5. StepsTo(t, p, run[t].for, run[t].snap, run[t].sub, run[t].lapped)
  BY <1>0, <1>4, Going DEF TypeOK
<1>6. TypeOK'
  BY <1>0, <1>1, <1>3, <1>5 DEF TypeOK, StepsTo
<1>7. PlacesOK'
  <2>1. CASE t = "approver"
    BY <2>1, <1>0, <1>1, <1>4 DEF PlacesOK, Polling, Holding, Resolving, At
  <2>2. CASE t = "poller"
    BY <2>2, Naming, <1>0, <1>1, <1>4 DEF PlacesOK, Polling, Holding, Resolving, At
  <2>3. CASE t = "replacer"
    BY <2>3, <1>0, <1>1 DEF PlacesOK, Replacing, At
  <2> QED
    BY <2>1, <2>2, <2>3 DEF Threads
<1>8. KnownOK'
  BY <1>0, <1>1, <1>3, <1>4 DEF KnownOK, Lists, Alive
<1>9. FileOK'
  BY <1>0, <1>1 DEF FileOK
<1>10. ASSUME "overlap" \notin excuses' PROVE LinkOK' /\ HoldOK' /\ LapOK' /\ UndeletedOK' /\ NothingForgotten'
  <2>1. LinkOK /\ HoldOK /\ LapOK /\ UndeletedOK /\ NothingForgotten
    BY <1>10, <1>1 DEF SubscriptionInv
  <2>2. LinkOK'
    <3>1. CASE t = "approver"
      BY <3>1, <2>1, <1>1, <1>4 DEF LinkOK, Submitting, Polling, Alive, At
    <3>2. CASE t = "poller"
      BY <3>2, Naming, <2>1, <1>0, <1>1, <1>4 DEF LinkOK, Submitting, Polling, Resolving, Posting,
         At
    <3>3. CASE t = "replacer"
      BY <3>3, <2>1, <1>1, <1>4 DEF LinkOK, Submitting, Polling, Alive, At
    <3> QED
      BY <3>1, <3>2, <3>3 DEF Threads
  <2>3. HoldOK'
    <3>1. CASE t = "approver"
      BY <3>1, <2>1, <1>1, <1>4 DEF HoldOK, Holding, At
    <3>2. CASE t = "poller"
      BY <3>2, Naming, <2>1, <1>0, <1>1, <1>4 DEF HoldOK, Holding, At
    <3>3. CASE t = "replacer"
      BY Naming, <2>1, <1>0, <1>1, <1>4 DEF HoldOK, PlacesOK, Holding, At
    <3> QED
      BY <3>1, <3>2, <3>3 DEF Threads
  <2>4. LapOK'
    BY Naming, <2>1, <1>0, <1>1, <1>4 DEF LapOK, Polling, At
  <2>5. UndeletedOK'
    BY <2>1, <1>1 DEF UndeletedOK
  <2>6. NothingForgotten'
    BY <2>1, <1>1, <1>4 DEF NothingForgotten, Alive
  <2> QED
    BY <2>2, <2>3, <2>4, <2>5, <2>6
<1> QED
  BY <1>6, <1>7, <1>8, <1>9, <1>10 DEF SubscriptionInv

\* The subscription that is answered is the one the thread holds.
LEMMA RequestAnsweredStep ==
    ASSUME SubscriptionInv, NEW t \in Threads, RequestAnswered(t)
    PROVE  SubscriptionInv'
<1>0. TypeOK /\ PlacesOK /\ KnownOK /\ FileOK
  BY DEF SubscriptionInv
<1>1. At(t, "made") /\ statusCache' = NoSnapshot /\ answered' = answered \cup {run[t].sub} /\ UNCHANGED <<mp, merges, review, disk, tracked, replaced, booted, aged, deleted, heard, retold, excuses, faults, restarts, userActs>>
  BY DEF RequestAnswered, ledger, bounds
<1>2. Waning
  BY <1>0, <1>1, NothingMoves
<1>3. StepsTo(t, "link", run[t].for, run[t].snap, run[t].sub, run[t].lapped)
  BY <1>0, Going DEF RequestAnswered, Goto, TypeOK, Places
<1>4. run[t].sub \in Ids
  BY <1>0, <1>1, Naming DEF PlacesOK, At, Holding
<1>5. TypeOK'
  BY <1>0, <1>1, <1>3, <1>4 DEF TypeOK, StepsTo
<1>6. PlacesOK'
  <2>1. CASE t = "approver"
    BY <2>1, Naming, <1>0, <1>1, <1>3, <1>4 DEF PlacesOK, Polling, Resolving, Posting, At,
       Threads, StepsTo
  <2>2. CASE t = "poller"
    BY <2>2, Naming, <1>0, <1>1, <1>3, <1>4 DEF PlacesOK, Polling, Posting, At, Threads, StepsTo
  <2>3. CASE t = "replacer"
    BY <2>3, Naming, <1>0, <1>1, <1>3, <1>4 DEF PlacesOK, Polling, Replacing, At, Threads, StepsTo
  <2> QED
    BY <2>1, <2>2, <2>3 DEF Threads
<1>7. KnownOK'
  BY Naming, NothingListed, <1>0, <1>1, <1>3, <1>4 DEF KnownOK, Lists, Alive, StepsTo
<1>8. FileOK'
  BY <1>0, <1>1 DEF FileOK
<1>9. ASSUME "overlap" \notin excuses' PROVE LinkOK' /\ HoldOK' /\ LapOK' /\ UndeletedOK' /\ NothingForgotten'
  <2>1. LinkOK /\ HoldOK /\ LapOK /\ UndeletedOK /\ NothingForgotten
    BY <1>9, <1>1 DEF SubscriptionInv
  <2>2. LinkOK'
    <3>1. CASE t = "approver"
      BY <3>1, <2>1, <1>1, <1>3 DEF LinkOK, Submitting, Polling, Posting, At, Threads, StepsTo
    <3>2. CASE t = "poller"
      BY <2>1, <1>1, <1>3 DEF LinkOK, Submitting, Polling, Posting, Alive, At, Threads, StepsTo
    <3>3. CASE t = "replacer"
      BY <3>3, <2>1, <1>1, <1>3 DEF LinkOK, Submitting, Polling, Posting, At, Threads, StepsTo
    <3> QED
      BY <3>1, <3>2, <3>3 DEF Threads
  <2>3. HoldOK'
    <3>1. CASE t = "approver"
      BY <2>1, <1>0, <1>1, <1>3 DEF HoldOK, PlacesOK, Holding, At, Threads, StepsTo
    <3>2. CASE t = "poller"
      BY <2>1, <1>0, <1>1, <1>3 DEF HoldOK, PlacesOK, Holding, At, Threads, StepsTo
    <3>3. CASE t = "replacer"
      BY <2>1, <1>0, <1>1, <1>3 DEF HoldOK, PlacesOK, Holding, At, Threads, StepsTo
    <3> QED
      BY <3>1, <3>2, <3>3 DEF Threads
  <2>4. LapOK'
    BY <2>1, <1>1, <1>3 DEF LapOK, Polling, At, Threads, StepsTo
  <2>5. UndeletedOK'
    BY <2>1, <1>1 DEF UndeletedOK
  <2>6. NothingForgotten'
    BY <2>1, <1>1, <1>3 DEF NothingForgotten, Alive, StepsTo
  <2> QED
    BY <2>2, <2>3, <2>4, <2>5, <2>6
<1> QED
  BY <1>5, <1>6, <1>7, <1>8, <1>9 DEF SubscriptionInv

\* A POST that reaches MoviePilot makes a new subscription, or names the only one alive:
\* never one that was replaced or deleted.
LEMMA PostReachesStep ==
    ASSUME SubscriptionInv, NEW t \in Threads, At(t, "create"), NEW i \in Made, Create(i),
           \/ run' = [run EXCEPT ![t].pc = "made", ![t].sub = i]
           \/ run' = [run EXCEPT ![t].pc = "refused"],
           faults' \in 0..MaxFaults, UNCHANGED <<merges, review, disk, tracked, replaced, booted,
                                                 aged, statusCache, answered, deleted, heard, retold, excuses, restarts, userActs>>
    PROVE  SubscriptionInv'
<1>0. TypeOK /\ PlacesOK /\ KnownOK /\ FileOK
  BY DEF SubscriptionInv
<1>1. TRUE
  OBVIOUS
<1>2. /\ i \in Ids /\ mp' \in [Ids -> States \cup {"none", "gone"}]
      /\ \A j \in Ids : /\ mp[j] # "none" => mp'[j] # "none"
                        /\ mp[j] = "gone" => mp'[j] = "gone"
                        /\ mp'[j] \in States => mp[j] \in States \/ (j = i /\ mp[i] = "none")
      /\ mp[i] # "gone" /\ mp'[i] # "none"
      /\ ~merges => mp[i] = "none"
      /\ merges => \A j \in Ids : j # i /\ mp[j] # "none" => mp[j] = "gone"
      /\ merges => \A j, k \in Ids : mp'[j] \in States /\ mp'[k] \in States => j = k
  BY <1>0, Creating
<1>3. \/ StepsTo(t, "made", run[t].for, run[t].snap, i, run[t].lapped)
      \/ StepsTo(t, "refused", run[t].for, run[t].snap, run[t].sub, run[t].lapped)
  BY <1>0, <1>2, Taking, Going DEF TypeOK, Places
<1>4. merges' = merges /\ review' = review /\ disk' = disk /\ run[t].pc = "create"
  BY DEF At
<1>5. TypeOK'
  BY <1>0, <1>2, <1>3 DEF TypeOK, StepsTo
<1>6. PlacesOK'
  <2>1. CASE t = "approver"
    BY <2>1, Naming, <1>0, <1>2, <1>3 DEF PlacesOK, Polling, Holding, Resolving, Posting, At,
       Threads, StepsTo
  <2>2. CASE t = "poller"
    BY <2>2, Naming, <1>0, <1>2, <1>3 DEF PlacesOK, Polling, Holding, Posting, At, Threads, StepsTo
  <2>3. CASE t = "replacer"
    BY <2>3, Naming, <1>0, <1>2, <1>3 DEF PlacesOK, Polling, Holding, Replacing, At, Threads,
       StepsTo
  <2> QED
    BY <2>1, <2>2, <2>3 DEF Threads
<1>7. KnownOK'
  BY Naming, <1>0, <1>2, <1>3 DEF KnownOK, Lists, Alive, StepsTo
<1>8. FileOK'
  BY <1>0 DEF FileOK
<1>9. ASSUME "overlap" \notin excuses' PROVE LinkOK' /\ HoldOK' /\ LapOK' /\ UndeletedOK' /\ NothingForgotten'
  <2>1. LinkOK /\ HoldOK /\ LapOK /\ UndeletedOK /\ NothingForgotten
    BY <1>9 DEF SubscriptionInv
  <2>2. LinkOK'
    <3>1. CASE t = "approver"
      BY <3>1, Naming, <2>1, <1>0, <1>3 DEF LinkOK, Submitting, Polling, At, Threads, StepsTo,
         HoldOK, Holding
    <3>2. CASE t = "poller"
      BY Naming, <2>1, <1>0, <1>2, <1>3 DEF LinkOK, Submitting, Polling, Posting, Alive, At,
         Threads, StepsTo, KnownOK, HoldOK, Holding
    <3>3. CASE t = "replacer"
      BY <3>3, Naming, <2>1, <1>0, <1>2, <1>3 DEF LinkOK, Submitting, Polling, Alive, At, Threads,
         StepsTo, KnownOK
    <3> QED
      BY <3>1, <3>2, <3>3 DEF Threads
  <2>3. HoldOK'
    <3>1. CASE t = "approver"
      BY <3>1, Naming, <2>1, <1>0, <1>2, <1>3 DEF HoldOK, LinkOK, PlacesOK, Holding, At, Threads,
         StepsTo
    <3>2. CASE t = "poller"
      BY <3>2, Naming, <2>1, <1>0, <1>2, <1>3 DEF HoldOK, LinkOK, Holding, At, Threads, StepsTo
    <3>3. CASE t = "replacer"
      BY Naming, <2>1, <1>0, <1>2, <1>3 DEF HoldOK, LinkOK, PlacesOK, Holding, At, Threads,
         StepsTo, KnownOK
    <3> QED
      BY <3>1, <3>2, <3>3 DEF Threads
  <2>4. LapOK'
    BY <2>1, <1>3 DEF LapOK, Polling, At, Threads, StepsTo
  <2>5. UndeletedOK'
    BY <2>1 DEF UndeletedOK
  <2>6. NothingForgotten'
    BY Naming, <2>1, <1>0, <1>2, <1>3 DEF NothingForgotten, HoldOK, Holding, Alive, At, StepsTo,
       KnownOK
  <2> QED
    BY <2>2, <2>3, <2>4, <2>5, <2>6
<1> QED
  BY <1>5, <1>6, <1>7, <1>8, <1>9 DEF SubscriptionInv

LEMMA PostRefusedStep ==
    ASSUME SubscriptionInv, NEW t \in Threads, At(t,
                                                  "create"), run' = [run EXCEPT ![t].pc = "refused"],
           faults' \in 0..MaxFaults, UNCHANGED <<mp, merges, review, disk, tracked, replaced,
                                                 booted, aged, statusCache, answered, deleted, heard, retold, excuses, restarts, userActs>>
    PROVE  SubscriptionInv'
<1>0. TypeOK /\ PlacesOK /\ KnownOK /\ FileOK
  BY DEF SubscriptionInv
<1>1. UNCHANGED mp
  OBVIOUS
<1>2. Waning
  BY <1>0, <1>1, NothingMoves
<1>3. run \in [Threads -> Thread] /\ review \in Review
  BY <1>0 DEF TypeOK
<1>4. StepsTo(t, "refused", run[t].for, run[t].snap, run[t].sub, run[t].lapped)
  BY <1>3, Going DEF Places
<1>5. TypeOK'
  BY <1>0, <1>4 DEF TypeOK, StepsTo
<1>6. PlacesOK'
  <2>1. CASE t = "approver"
    BY <1>0 DEF PlacesOK, Polling, Holding, Resolving, Posting, Replacing, At
  <2>2. CASE t = "poller"
    BY <1>0 DEF PlacesOK, Polling, Holding, Resolving, Posting, Replacing, At
  <2>3. CASE t = "replacer"
    BY <1>0 DEF PlacesOK, Polling, Holding, Resolving, Posting, Replacing, At
  <2> QED
    BY <2>1, <2>2, <2>3 DEF Threads
<1>7. KnownOK'
  BY <1>0 DEF KnownOK, Lists, Alive
<1>8. FileOK'
  BY <1>0 DEF FileOK
<1>9. ASSUME "overlap" \notin excuses' PROVE LinkOK' /\ HoldOK' /\ LapOK' /\ UndeletedOK' /\ NothingForgotten'
  <2>1. LinkOK /\ HoldOK /\ LapOK /\ UndeletedOK /\ NothingForgotten
    BY <1>9 DEF SubscriptionInv
  <2>2. LinkOK'
    <3>1. CASE t = "approver"
      BY <3>1, <2>1 DEF LinkOK, Submitting, Polling, Alive, At
    <3>2. CASE t = "poller"
      BY <2>1 DEF LinkOK, Submitting, Polling, Posting, Alive, At
    <3>3. CASE t = "replacer"
      BY <3>3, <2>1 DEF LinkOK, Submitting, Polling, Alive, At
    <3> QED
      BY <3>1, <3>2, <3>3 DEF Threads
  <2>3. HoldOK'
    <3>1. CASE t = "approver"
      BY <3>1, <2>1 DEF HoldOK, Holding, At
    <3>2. CASE t = "poller"
      BY <3>2, <2>1 DEF HoldOK, Holding, At
    <3>3. CASE t = "replacer"
      BY <2>1, <1>0 DEF HoldOK, PlacesOK, Holding, At
    <3> QED
      BY <3>1, <3>2, <3>3 DEF Threads
  <2>4. LapOK'
    BY <2>1 DEF LapOK, Polling, At
  <2>5. UndeletedOK'
    BY <2>1 DEF UndeletedOK
  <2>6. NothingForgotten'
    BY <2>1 DEF NothingForgotten, Alive
  <2> QED
    BY <2>2, <2>3, <2>4, <2>5, <2>6
<1> QED
  BY <1>5, <1>6, <1>7, <1>8, <1>9 DEF SubscriptionInv

\* What could not be linked is left to the recovery: the review is approved and unlinked.
LEMMA SubmissionFailsStep ==
    ASSUME SubscriptionInv, NEW t \in {"approver", "poller"}, SubmissionFails(t)
    PROVE  SubscriptionInv'
<1>0. TypeOK /\ PlacesOK /\ KnownOK /\ FileOK
  BY DEF SubscriptionInv
<1>1. /\ At(t, "refused") \/ At(t, "unlinked")
      /\ UNCHANGED <<mp, merges, tracked, replaced, booted, aged, statusCache, answered, deleted,
                     heard, retold, excuses, restarts, userActs>>
  BY DEF SubmissionFails, history
<1>2. Waning
  BY <1>0, <1>1, NothingMoves
<1>3. run \in [Threads -> Thread] /\ review \in Review
  BY <1>0 DEF TypeOK
<1>4. faults' \in 0..MaxFaults
  BY <1>0, ConstantsOK DEF SubmissionFails, Saved, SaveFailed, Fault, NoFault, TypeOK
<1>5. /\ Writes(review.status, review.sub, review.obsolete)
      /\ review'.state = review.state /\ review'.cooling = review.cooling
  <2>1. CASE SaveFailed
    BY <2>1, <1>0, NothingWritten DEF SaveFailed, ledger
  <2>2. PICK final \in BOOLEAN : Saved(MarkStuck(final)) \/ SaveFailed
    BY DEF SubmissionFails
  <2>3. CASE Saved(MarkStuck(final))
    BY <2>3, <1>3, Sticking DEF Saved, Writes
  <2> QED
    BY <2>1, <2>2, <2>3
<1>6. StepsTo(t, "idle", "apply", NoSnapshot, None, FALSE)
  BY <1>3, Ending DEF SubmissionFails, Ends, Threads
<1>7. TypeOK'
  BY <1>0, <1>1, <1>4, <1>5, <1>6 DEF TypeOK, StepsTo, Writes
<1>8. PlacesOK'
  <2>1. CASE t = "approver"
    BY <1>0, <1>1, <1>6 DEF PlacesOK, Polling, Holding, Resolving, At, Threads, StepsTo
  <2>2. CASE t = "poller"
    BY <2>2, <1>0, <1>1, <1>6 DEF PlacesOK, Polling, Holding, At, Threads, StepsTo
  <2>3. CASE t = "replacer"
    BY <2>3
  <2> QED
    BY <2>1, <2>2
<1>9. KnownOK'
  BY NothingListed, <1>0, <1>1, <1>5, <1>6 DEF KnownOK, Lists, Alive, StepsTo, Writes
<1>10. FileOK'
  BY <1>5 DEF FileOK, Writes
<1>11. ASSUME "overlap" \notin excuses' PROVE LinkOK' /\ HoldOK' /\ LapOK' /\ UndeletedOK' /\ NothingForgotten'
  <2>1. LinkOK /\ HoldOK /\ LapOK /\ UndeletedOK /\ NothingForgotten
    BY <1>11, <1>1 DEF SubscriptionInv
  <2>2. LinkOK'
    <3>1. CASE t = "approver"
      BY <3>1, <2>1, <1>1, <1>5, <1>6 DEF LinkOK, Alive, At, Threads, StepsTo, Writes
    <3>2. CASE t = "poller"
      BY <2>1, <1>1, <1>5, <1>6 DEF LinkOK, Submitting, Polling, Posting, At, Threads, StepsTo,
         Writes
    <3>3. CASE t = "replacer"
      BY <3>3
    <3> QED
      BY <3>1, <3>2
  <2>3. HoldOK'
    <3>1. CASE t = "approver"
      BY <2>1, <1>1, <1>5, <1>6 DEF HoldOK, At, Threads, StepsTo, Writes
    <3>2. CASE t = "poller"
      BY <2>1, <1>1, <1>5, <1>6 DEF HoldOK, At, Threads, StepsTo, Writes
    <3>3. CASE t = "replacer"
      BY <3>3
    <3> QED
      BY <3>1, <3>2
  <2>4. LapOK'
    BY <2>1, <1>5, <1>6 DEF LapOK, Polling, At, Threads, StepsTo
  <2>5. UndeletedOK'
    BY <2>1, <1>1, <1>5 DEF UndeletedOK, Writes
  <2>6. NothingForgotten'
    BY <2>1, <1>0, <1>1, <1>5 DEF NothingForgotten, LinkOK, PlacesOK, Submitting, Polling, At,
       Writes
  <2> QED
    BY <2>2, <2>3, <2>4, <2>5, <2>6
<1> QED
  BY <1>7, <1>8, <1>9, <1>10, <1>11 DEF SubscriptionInv

\* Only one thread links an unlinked review, and nothing was deleted before.
LEMMA LinkWrittenStep ==
    ASSUME SubscriptionInv, NEW t \in {"approver", "poller"}, At(t, "link"),
           Saved(LinkSubscription(run[t].sub, "N")), Ends(t),
           UNCHANGED <<mp, merges, tracked, replaced, booted, aged, statusCache, answered,
                       deleted, heard, retold, excuses, restarts, userActs>>
    PROVE  SubscriptionInv'
<1>0. TypeOK /\ PlacesOK /\ KnownOK /\ FileOK
  BY DEF SubscriptionInv
<1>1. UNCHANGED <<mp, faults>>
  BY DEF Saved, NoFault
<1>2. Waning
  BY <1>0, <1>1, NothingMoves
<1>3. run \in [Threads -> Thread] /\ review \in Review
  BY <1>0 DEF TypeOK
<1>4. PICK i \in Ids : i = run[t].sub
  BY <1>0, Naming DEF PlacesOK, At, Holding, Threads
<1>5. /\ Writes(review.status, i, review.obsolete)
      /\ review'.retries = review.retries
  BY <1>3, <1>4, ConstantsOK, Linking DEF Saved, Writes
<1>6. StepsTo(t, "idle", "apply", NoSnapshot, None, FALSE)
  BY <1>3, Ending DEF Ends, Threads
<1>7. TypeOK'
  BY <1>0, <1>1, <1>5, <1>6 DEF TypeOK, StepsTo, Writes
<1>8. PlacesOK'
  <2>1. CASE t = "approver"
    BY <1>0, <1>6 DEF PlacesOK, Polling, Holding, Resolving, At, Threads, StepsTo
  <2>2. CASE t = "poller"
    BY <2>2, <1>0, <1>6 DEF PlacesOK, Polling, Holding, At, Threads, StepsTo
  <2>3. CASE t = "replacer"
    BY <2>3
  <2> QED
    BY <2>1, <2>2
<1>9. KnownOK'
  BY NothingListed, <1>0, <1>3, <1>4, <1>5, <1>6 DEF KnownOK, Lists, Alive, StepsTo, Writes
<1>10. FileOK'
  BY <1>5 DEF FileOK, Writes
<1>11. ASSUME "overlap" \notin excuses' PROVE LinkOK' /\ HoldOK' /\ LapOK' /\ UndeletedOK' /\ NothingForgotten'
  <2>1. LinkOK /\ HoldOK /\ LapOK /\ UndeletedOK /\ NothingForgotten
    BY <1>11 DEF SubscriptionInv
  <2>2. LinkOK'
    <3>1. CASE t = "approver"
      BY <3>1, <2>1, <1>5, <1>6 DEF LinkOK, Submitting, Polling, Alive, At, Threads, StepsTo, Writes
    <3>2. CASE t = "poller"
      BY <2>1, <1>5, <1>6 DEF LinkOK, Submitting, Polling, Resolving, Posting, At, Threads,
         StepsTo, Writes
    <3>3. CASE t = "replacer"
      BY <3>3
    <3> QED
      BY <3>1, <3>2
  <2>3. HoldOK'
    <3>1. CASE t = "approver"
      BY <3>1, <2>1, <1>6 DEF HoldOK, LinkOK, Replacing, At, Threads, StepsTo
    <3>2. CASE t = "poller"
      BY <2>1, <1>6 DEF HoldOK, LinkOK, Posting, Replacing, At, Threads, StepsTo, Submitting,
         Polling
    <3>3. CASE t = "replacer"
      BY <3>3
    <3> QED
      BY <3>1, <3>2
  <2>4. LapOK'
    BY <2>1, <1>0, <1>6 DEF LapOK, LinkOK, PlacesOK, Polling, Submitting, At, Threads, StepsTo
  <2>5. UndeletedOK'
    BY <2>1 DEF UndeletedOK, LinkOK, At, Posting, Submitting, Polling
  <2>6. NothingForgotten'
    BY <2>1, <1>4, <1>5 DEF NothingForgotten, LinkOK, Posting, Alive, At, Writes
  <2> QED
    BY <2>2, <2>3, <2>4, <2>5, <2>6
<1> QED
  BY <1>7, <1>8, <1>9, <1>10, <1>11 DEF SubscriptionInv

LEMMA LinkFailedStep ==
    ASSUME SubscriptionInv, NEW t \in {"approver", "poller"}, At(t, "link"),
           SaveFailed, Goto(t, "unlinked"),
           UNCHANGED <<mp, merges, tracked, replaced, booted, aged, statusCache, answered,
                       deleted, heard, retold, excuses, restarts, userActs>>
    PROVE  SubscriptionInv'
<1>0. TypeOK /\ PlacesOK /\ KnownOK /\ FileOK
  BY DEF SubscriptionInv
<1>1. UNCHANGED <<mp, review, disk>>
  BY DEF SaveFailed, ledger
<1>2. Waning
  BY <1>0, <1>1, NothingMoves
<1>3. run \in [Threads -> Thread] /\ review \in Review
  BY <1>0 DEF TypeOK
<1>4. faults' \in 0..MaxFaults
  BY <1>0, ConstantsOK DEF SaveFailed, Fault, TypeOK
<1>5. /\ Writes(review.status, review.sub, review.obsolete)
      /\ review'.retries = review.retries /\ review'.state = review.state /\ review'.cooling = review.cooling
  BY <1>0, <1>1, NothingWritten
<1>6. StepsTo(t, "unlinked", run[t].for, run[t].snap, run[t].sub, run[t].lapped)
  BY <1>3, Going DEF Goto, Places, Threads
<1>7. TypeOK'
  BY <1>0, <1>1, <1>4, <1>6 DEF TypeOK, StepsTo
<1>8. PlacesOK'
  <2>1. CASE t = "approver"
    BY <1>0, <1>6 DEF PlacesOK, Polling, Holding, Resolving, Posting, At, Threads, StepsTo
  <2>2. CASE t = "poller"
    BY <2>2, <1>0, <1>6 DEF PlacesOK, Polling, Holding, Posting, At, Threads, StepsTo
  <2>3. CASE t = "replacer"
    BY <2>3
  <2> QED
    BY <2>1, <2>2
<1>9. KnownOK'
  BY <1>0, <1>1, <1>6 DEF KnownOK, Lists, Alive, StepsTo
<1>10. FileOK'
  BY <1>0, <1>1 DEF FileOK
<1>11. ASSUME "overlap" \notin excuses' PROVE LinkOK' /\ HoldOK' /\ LapOK' /\ UndeletedOK' /\ NothingForgotten'
  <2>1. LinkOK /\ HoldOK /\ LapOK /\ UndeletedOK /\ NothingForgotten
    BY <1>11 DEF SubscriptionInv
  <2>2. LinkOK'
    <3>1. CASE t = "approver"
      BY <3>1, <2>1, <1>5, <1>6 DEF LinkOK, Submitting, Polling, Alive, At, Threads, StepsTo, Writes
    <3>2. CASE t = "poller"
      BY <2>1, <1>5, <1>6 DEF LinkOK, Submitting, Polling, Posting, Alive, At, Threads, StepsTo,
         Writes
    <3>3. CASE t = "replacer"
      BY <3>3
    <3> QED
      BY <3>1, <3>2
  <2>3. HoldOK'
    <3>1. CASE t = "approver"
      BY <2>1, <1>5, <1>6 DEF HoldOK, Holding, At, Threads, StepsTo, Writes
    <3>2. CASE t = "poller"
      BY <2>1, <1>5, <1>6 DEF HoldOK, Holding, At, Threads, StepsTo, Writes
    <3>3. CASE t = "replacer"
      BY <3>3
    <3> QED
      BY <3>1, <3>2
  <2>4. LapOK'
    BY <2>1, <1>5, <1>6 DEF LapOK, Polling, At, Threads, StepsTo
  <2>5. UndeletedOK'
    BY <2>1, <1>1 DEF UndeletedOK
  <2>6. NothingForgotten'
    BY <2>1, <1>5, <1>6 DEF NothingForgotten, Alive, StepsTo, Writes
  <2> QED
    BY <2>2, <2>3, <2>4, <2>5, <2>6
<1> QED
  BY <1>7, <1>8, <1>9, <1>10, <1>11 DEF SubscriptionInv

-----------------------------------------------------------------------------
(***************************************************************************)
(* The approver.                                                           *)
(***************************************************************************)
LEMMA ApprovedStep ==
    ASSUME SubscriptionInv, review.status = "pending", At("approver", "idle"),
           Saved([review EXCEPT !.status = "approved"]), Asks("approver"),
           UNCHANGED <<mp, merges, tracked, replaced, booted, aged, statusCache, answered,
                       deleted, heard, retold, excuses, restarts, userActs>>
    PROVE  SubscriptionInv'
<1>0. TypeOK /\ PlacesOK /\ KnownOK /\ FileOK
  BY DEF SubscriptionInv
<1>1. UNCHANGED <<mp, faults>>
  BY DEF Saved, NoFault
<1>2. Waning
  BY <1>0, <1>1, NothingMoves
<1>3. run \in [Threads -> Thread] /\ review \in Review
  BY <1>0 DEF TypeOK
<1>4. /\ Writes("approved", review.sub, review.obsolete)
      /\ review'.retries = review.retries /\ review'.state = review.state /\ review'.cooling = review.cooling
  BY <1>3, Approving DEF Saved, Writes
<1>5. StepsTo("approver", "snapshot", "found", run["approver"].snap, run["approver"].sub,
              run["approver"].lapped)
  BY <1>3, Asking DEF Asks, Threads, Places
<1>6. TypeOK'
  BY <1>0, <1>1, <1>4, <1>5 DEF TypeOK, StepsTo, Writes
<1>7. PlacesOK'
  BY <1>0, <1>5 DEF PlacesOK, Polling, Holding, Resolving, At, Threads, StepsTo
<1>8. KnownOK'
  BY <1>0, <1>4, <1>5 DEF KnownOK, Lists, Alive, StepsTo, Writes
<1>9. FileOK'
  BY <1>4 DEF FileOK, Writes
<1>10. ASSUME "overlap" \notin excuses' PROVE LinkOK' /\ HoldOK' /\ LapOK' /\ UndeletedOK' /\ NothingForgotten'
  <2>1. LinkOK /\ HoldOK /\ LapOK /\ UndeletedOK /\ NothingForgotten
    BY <1>10 DEF SubscriptionInv
  <2>2. LinkOK'
    BY <2>1, <1>4, <1>5 DEF LinkOK, Submitting, Polling, At, Threads, StepsTo, Writes
  <2>3. HoldOK'
    BY <2>1, <1>4, <1>5 DEF HoldOK, Holding, At, Threads, StepsTo, Writes
  <2>4. LapOK'
    BY <2>1, <1>5 DEF LapOK, LinkOK, At, Threads, StepsTo
  <2>5. UndeletedOK'
    BY <2>1 DEF UndeletedOK, LinkOK
  <2>6. NothingForgotten'
    BY <2>1 DEF NothingForgotten, LinkOK
  <2> QED
    BY <2>2, <2>3, <2>4, <2>5, <2>6
<1> QED
  BY <1>6, <1>7, <1>8, <1>9, <1>10 DEF SubscriptionInv

\* The approver was told that there is nothing, and creates.
LEMMA ApproverMissesStep ==
    ASSUME SubscriptionInv, At("approver", "found"), FindExistingSubscription(run["approver"].snap) = {},
           Misses(run["approver"].snap), Creates("approver"), UNCHANGED ledger, UNCHANGED <<mp,
                                                                                            merges, tracked, replaced, booted, aged, statusCache, answered, deleted, heard, retold, faults, restarts, userActs>>
    PROVE  SubscriptionInv'
<1>0. TypeOK /\ PlacesOK /\ KnownOK /\ FileOK
  BY DEF SubscriptionInv
<1>1. UNCHANGED <<mp, review, disk>>
  BY DEF ledger
<1>2. Waning
  BY <1>0, <1>1, NothingMoves
<1>3. run \in [Threads -> Thread] /\ review \in Review
  BY <1>0 DEF TypeOK
<1>4. /\ Writes(review.status, review.sub, review.obsolete)
      /\ review'.retries = review.retries /\ review'.state = review.state /\ review'.cooling = review.cooling
  BY <1>0, <1>1, NothingWritten
<1>5. /\ excuses \subseteq excuses' /\ excuses' \subseteq excuses \cup {"stale"}
      /\ "stale" \notin excuses' => \A i \in answered : ~Alive(i)
  BY Naming, <1>0 DEF Misses, Excused, FindExistingSubscription
<1>6. StepsTo("approver", "create", "apply", NoSnapshot, None, FALSE)
  BY <1>3, Resting DEF Creates, Threads, Places
<1>7. TypeOK'
  BY <1>0, <1>1, <1>5, <1>6 DEF TypeOK, StepsTo
<1>8. PlacesOK'
  BY <1>0, <1>6 DEF PlacesOK, Polling, Holding, Resolving, Posting, At, Threads, StepsTo
<1>9. KnownOK'
  BY NothingListed, <1>0, <1>1, <1>6 DEF KnownOK, Lists, Alive, StepsTo
<1>10. FileOK'
  BY <1>0, <1>1 DEF FileOK
<1>11. ASSUME "overlap" \notin excuses' PROVE LinkOK' /\ HoldOK' /\ LapOK' /\ UndeletedOK' /\ NothingForgotten'
  <2>1. LinkOK /\ HoldOK /\ LapOK /\ UndeletedOK /\ NothingForgotten
    BY <1>11, <1>5 DEF SubscriptionInv
  <2>2. LinkOK'
    BY Naming, <2>1, <1>0, <1>4, <1>6 DEF LinkOK, Submitting, Polling, At, Threads, StepsTo,
       Writes, HoldOK, Holding
  <2>3. HoldOK'
    BY <2>1, <1>4, <1>6 DEF HoldOK, At, Threads, StepsTo, Writes
  <2>4. LapOK'
    BY <2>1, <1>6 DEF LapOK, LinkOK, At, Threads, StepsTo
  <2>5. UndeletedOK'
    BY <2>1 DEF UndeletedOK, LinkOK, At
  <2>6. NothingForgotten'
    BY <2>1, <1>1 DEF NothingForgotten, LinkOK, At
  <2> QED
    BY <2>2, <2>3, <2>4, <2>5, <2>6
<1> QED
  BY <1>7, <1>8, <1>9, <1>10, <1>11 DEF SubscriptionInv

LEMMA ApproverLinksStep ==
    ASSUME SubscriptionInv, At("approver", "found"), NEW i \in FindExistingSubscription(run["approver"].snap),
           Saved(UpdateSubscriptionInfo(i, run["approver"].snap[i])) \/ SaveFailed, Ends("approver"),
           UNCHANGED excuses,
           UNCHANGED <<mp, merges, tracked, replaced, booted, aged, statusCache, answered,
                       deleted, heard, retold, restarts, userActs>>
    PROVE  SubscriptionInv'
<1>0. TypeOK /\ PlacesOK /\ KnownOK /\ FileOK
  BY DEF SubscriptionInv
<1>1. UNCHANGED mp
  OBVIOUS
<1>2. Waning
  BY <1>0, <1>1, NothingMoves
<1>3. run \in [Threads -> Thread] /\ review \in Review
  BY <1>0 DEF TypeOK
<1>4. faults' \in 0..MaxFaults
  BY <1>0, ConstantsOK DEF Saved, NoFault, SaveFailed, Fault, TypeOK
<1>5. excuses' = excuses
  BY DEF Prefers, Excused
<1>6. i \in Ids /\ mp[i] # "none" /\ run["approver"].snap[i] \in States
  BY <1>0 DEF FindExistingSubscription, KnownOK, Lists, Threads
<1>7. /\ \/ Writes(review.status, i, review.obsolete)
         \/ /\ Writes(review.status, review.sub, review.obsolete)
            /\ review'.state = review.state /\ review'.cooling = review.cooling
      /\ review'.retries = review.retries
  <2>1. CASE SaveFailed
    BY <2>1, <1>0, NothingWritten DEF SaveFailed, ledger
  <2>2. CASE Saved(UpdateSubscriptionInfo(i, run["approver"].snap[i]))
    BY <2>2, <1>3, <1>6, Updating DEF Saved, Writes
  <2> QED
    BY <2>1, <2>2
<1>8. StepsTo("approver", "idle", "apply", NoSnapshot, None, FALSE)
  BY <1>3, Ending DEF Ends, Threads
<1>9. TypeOK'
  BY <1>0, <1>4, <1>7, <1>8 DEF TypeOK, StepsTo, Writes
<1>10. PlacesOK'
  BY <1>0, <1>8 DEF PlacesOK, Polling, Holding, Resolving, At, Threads, StepsTo
<1>11. KnownOK'
  BY NothingListed, <1>0, <1>6, <1>7, <1>8 DEF KnownOK, Lists, Alive, StepsTo, Writes
<1>12. FileOK'
  BY <1>7 DEF FileOK, Writes
<1>13. ASSUME "overlap" \notin excuses' PROVE LinkOK' /\ HoldOK' /\ LapOK' /\ UndeletedOK' /\ NothingForgotten'
  <2>1. LinkOK /\ HoldOK /\ LapOK /\ UndeletedOK /\ NothingForgotten
    BY <1>13 DEF SubscriptionInv
  <2>2. LinkOK'
    BY <2>1, <1>7, <1>8 DEF LinkOK, Submitting, Polling, Alive, At, Threads, StepsTo, Writes
  <2>3. HoldOK'
    BY <2>1, <1>8 DEF HoldOK, LinkOK, Replacing, At, Threads, StepsTo
  <2>4. LapOK'
    BY <2>1, <1>8 DEF LapOK, LinkOK, At, Threads, StepsTo
  <2>5. UndeletedOK'
    BY <2>1 DEF UndeletedOK, LinkOK, At
  <2>6. NothingForgotten'
    BY <2>1 DEF NothingForgotten, LinkOK, HoldOK, Holding, At, Threads
  <2> QED
    BY <2>2, <2>3, <2>4, <2>5, <2>6
<1> QED
  BY <1>9, <1>10, <1>11, <1>12, <1>13 DEF SubscriptionInv

LEMMA ApproverLearnsNothingStep ==
    ASSUME SubscriptionInv, ApproverLearnsNothing
    PROVE  SubscriptionInv'
<1>0. TypeOK /\ PlacesOK /\ KnownOK /\ FileOK
  BY DEF SubscriptionInv
<1>1. At("approver", "snapshot") /\ UNCHANGED <<mp, merges, review, disk, tracked, replaced,
                                                booted, aged, statusCache, answered, deleted, heard, retold, excuses, restarts, userActs>>
  BY DEF ApproverLearnsNothing, ledger, history
<1>2. Waning
  BY <1>0, <1>1, NothingMoves
<1>3. run \in [Threads -> Thread] /\ review \in Review
  BY <1>0 DEF TypeOK
<1>4. faults' \in 0..MaxFaults
  BY <1>0, ConstantsOK DEF ApproverLearnsNothing, Fault, TypeOK
<1>5. StepsTo("approver", "create", "apply", NoSnapshot, None, FALSE)
  BY <1>3, Resting DEF ApproverLearnsNothing, Creates, Threads, Places
<1>6. TypeOK'
  BY <1>0, <1>1, <1>4, <1>5 DEF TypeOK, StepsTo
<1>7. PlacesOK'
  BY <1>0, <1>1, <1>5 DEF PlacesOK, Polling, Holding, Resolving, Posting, At, Threads, StepsTo
<1>8. KnownOK'
  BY NothingListed, <1>0, <1>1, <1>5 DEF KnownOK, Lists, Alive, StepsTo
<1>9. FileOK'
  BY <1>0, <1>1 DEF FileOK
<1>10. ASSUME "overlap" \notin excuses' PROVE LinkOK' /\ HoldOK' /\ LapOK' /\ UndeletedOK' /\ NothingForgotten'
  <2>1. LinkOK /\ HoldOK /\ LapOK /\ UndeletedOK /\ NothingForgotten
    BY <1>10, <1>1 DEF SubscriptionInv
  <2>2. LinkOK'
    BY Naming, <2>1, <1>0, <1>1, <1>5 DEF LinkOK, Submitting, Polling, At, Threads, StepsTo,
       HoldOK, Holding
  <2>3. HoldOK'
    BY <2>1, <1>1, <1>5 DEF HoldOK, At, Threads, StepsTo
  <2>4. LapOK'
    BY <2>1, <1>1, <1>5 DEF LapOK, LinkOK, At, Threads, StepsTo
  <2>5. UndeletedOK'
    BY <2>1, <1>1 DEF UndeletedOK
  <2>6. NothingForgotten'
    BY <2>1, <1>1 DEF NothingForgotten, LinkOK, At
  <2> QED
    BY <2>2, <2>3, <2>4, <2>5, <2>6
<1> QED
  BY <1>6, <1>7, <1>8, <1>9, <1>10 DEF SubscriptionInv

-----------------------------------------------------------------------------
(***************************************************************************)
(* The poller.                                                             *)
(***************************************************************************)
\* A round that begins beside a replacement laps it, and no other round follows.
LEMMA CollectTrackedStep ==
    ASSUME SubscriptionInv, CollectTracked
    PROVE  SubscriptionInv'
<1>0. TypeOK /\ PlacesOK /\ KnownOK /\ FileOK
  BY DEF SubscriptionInv
<1>1. /\ At("poller", "idle") /\ ~run["replacer"].lapped
      /\ UNCHANGED <<mp, merges, review, disk, replaced, booted, aged, statusCache, answered,
                     deleted, heard, retold, excuses, faults, restarts, userActs>>
  BY DEF CollectTracked, ledger, history, bounds
<1>2. Waning
  BY <1>0, <1>1, NothingMoves
<1>3. run \in [Threads -> Thread] /\ review \in Review
  BY <1>0 DEF TypeOK
<1>4. PICK b \in BOOLEAN : /\ b = ~At("replacer", "idle")
                           /\ run' = [run EXCEPT !["poller"].pc = "cleanup",
                                      !["replacer"].lapped = b]
  BY DEF CollectTracked
<1>5. /\ run' \in [Threads -> Thread] /\ run'["approver"] = run["approver"]
      /\ run'["poller"].pc = "cleanup" /\ run'["poller"].for = run["poller"].for
      /\ run'["poller"].snap = run["poller"].snap /\ run'["poller"].sub = run["poller"].sub
      /\ run'["replacer"].pc = run["replacer"].pc /\ run'["replacer"].for = run["replacer"].for
      /\ run'["replacer"].snap = run["replacer"].snap /\ run'["replacer"].sub = run["replacer"].sub
      /\ run'["replacer"].lapped = b
  BY <1>3, <1>4, Rounding
<1>6. tracked' \in {None, review.sub} /\ tracked' \in Ids \cup {None}
  BY <1>0, Naming DEF CollectTracked
<1>7. TypeOK'
  BY <1>0, <1>1, <1>5, <1>6 DEF TypeOK
<1>8. PlacesOK'
  BY <1>0, <1>1, <1>5 DEF PlacesOK, Holding, At, Threads
<1>9. KnownOK'
  BY <1>0, <1>1, <1>4, <1>5 DEF KnownOK, Lists, Alive
<1>10. FileOK'
  BY <1>0, <1>1 DEF FileOK
<1>11. ASSUME "overlap" \notin excuses' PROVE LinkOK' /\ HoldOK' /\ LapOK' /\ UndeletedOK' /\ NothingForgotten'
  <2>1. LinkOK /\ HoldOK /\ LapOK /\ UndeletedOK /\ NothingForgotten
    BY <1>11, <1>1 DEF SubscriptionInv
  <2>2. LinkOK'
    BY <2>1, <1>1, <1>5, <1>6 DEF LinkOK, Submitting, Resolving, Posting, At
  <2>3. HoldOK'
    <3>1. run["poller"].sub = None /\ run'["poller"].sub = None
      BY <2>1, <1>1, <1>5 DEF HoldOK, Holding, At, Threads
    <3>2. \A t \in Threads : run'[t].sub # None => run'[t].pc \in Holding
      BY <2>1, <3>1, <1>5 DEF HoldOK, Threads
    <3>3. At("replacer", "idle") => ~b
      BY <1>4
    <3> QED
      BY <2>1, <3>2, <3>3, <1>1, <1>5 DEF HoldOK, At
  <2>4. LapOK'
    BY Naming, <2>1, <1>11, <1>0, <1>1, <1>2, <1>3, <1>4, <1>5, <1>6 DEF LapOK, HoldOK, LinkOK,
       PlacesOK, Polling, Submitting, Resolving, Posting, At, Threads, StepsTo, Writes
  <2>5. UndeletedOK'
    BY <2>1, <1>1 DEF UndeletedOK
  <2>6. NothingForgotten'
    BY <2>1, <1>1, <1>4, <1>5 DEF NothingForgotten, Alive
  <2> QED
    BY <2>2, <2>3, <2>4, <2>5, <2>6
<1> QED
  BY <1>7, <1>8, <1>9, <1>10, <1>11 DEF SubscriptionInv

LEMMA NothingCleanedStep ==
    ASSUME SubscriptionInv, At("poller", "cleanup"), faults' \in 0..MaxFaults,
           run' = [run EXCEPT !["poller"].pc = Polls, !["poller"].for = "apply"],
           UNCHANGED <<mp, merges, review, disk, tracked, replaced, booted, aged, statusCache,
                       answered, deleted, heard, retold, excuses, restarts, userActs>>
    PROVE  SubscriptionInv'
<1>0. TypeOK /\ PlacesOK /\ KnownOK /\ FileOK
  BY DEF SubscriptionInv
<1>1. UNCHANGED mp
  OBVIOUS
<1>2. Waning
  BY <1>0, <1>1, NothingMoves
<1>3. run \in [Threads -> Thread] /\ review \in Review
  BY <1>0 DEF TypeOK
<1>4. PICK p \in Places : p = Polls /\ run' = [run EXCEPT !["poller"].pc = p,
                                               !["poller"].for = "apply"]
  BY DEF Polls, Places
<1>5. p = "retry" \/ (p = "snapshot" /\ tracked # None)
  BY <1>4 DEF Polls
<1>6. StepsTo("poller", p, "apply", run["poller"].snap, run["poller"].sub, run["poller"].lapped)
  BY <1>3, <1>4, Asking DEF Threads
<1>7. TypeOK'
  BY <1>0, <1>6 DEF TypeOK, StepsTo
<1>8. PlacesOK'
  BY <1>0, <1>3, <1>4, <1>5 DEF PlacesOK, Polling, Holding, Resolving, At, Threads
<1>9. KnownOK'
  BY <1>0, <1>3 DEF KnownOK, Lists, Alive
<1>10. FileOK'
  BY <1>0 DEF FileOK
<1>11. ASSUME "overlap" \notin excuses' PROVE LinkOK' /\ HoldOK' /\ LapOK' /\ UndeletedOK' /\ NothingForgotten'
  <2>1. LinkOK /\ HoldOK /\ LapOK /\ UndeletedOK /\ NothingForgotten
    BY <1>11 DEF SubscriptionInv
  <2>2. LinkOK'
    BY <2>1, <1>5, <1>6 DEF LinkOK, Submitting, Polling, Resolving, Posting, At, Threads, StepsTo
  <2>3. HoldOK'
    BY <2>1, <1>5, <1>6 DEF HoldOK, Holding, At, Threads, StepsTo
  <2>4. LapOK'
    BY <2>1, <1>6 DEF LapOK, Polling, At, Threads, StepsTo
  <2>5. UndeletedOK'
    BY <2>1 DEF UndeletedOK
  <2>6. NothingForgotten'
    BY <2>1, <1>3 DEF NothingForgotten, Alive
  <2> QED
    BY <2>2, <2>3, <2>4, <2>5, <2>6
<1> QED
  BY <1>7, <1>8, <1>9, <1>10, <1>11 DEF SubscriptionInv

\* What is deleted again was replaced: it is neither linked nor about to be.
LEMMA CleanedStep ==
    ASSUME SubscriptionInv, At("poller", "cleanup"), NEW i \in Ids, i = review.obsolete, Deletes(i),
           run' = [run EXCEPT !["poller"].pc = "clear", !["poller"].sub = i],
           UNCHANGED <<merges, review, disk, tracked, replaced, booted, aged, statusCache,
                       answered, heard, retold, excuses, restarts, userActs>>
    PROVE  SubscriptionInv'
<1>0. TypeOK /\ PlacesOK /\ KnownOK /\ FileOK
  BY DEF SubscriptionInv
<1>1. faults' = faults /\ deleted' = deleted \cup {i}
  BY DEF Deletes, NoFault
<1>2. Waning /\ mp'[i] = "gone"
  BY <1>0, OneGoes DEF Deletes
<1>3. run \in [Threads -> Thread] /\ review \in Review
  BY <1>0 DEF TypeOK
<1>4. StepsTo("poller", "clear", run["poller"].for, run["poller"].snap, i, run["poller"].lapped)
  BY <1>3, Taking DEF Threads, Places
<1>5. TypeOK'
  BY <1>0, <1>1, <1>2, <1>4 DEF TypeOK, Waning, StepsTo
<1>6. PlacesOK'
  BY Naming, <1>0, <1>4 DEF PlacesOK, At, Threads, StepsTo
<1>7. KnownOK'
  BY Naming, <1>0, <1>1, <1>2, <1>3 DEF KnownOK, Lists, Alive, Waning
<1>8. FileOK'
  BY <1>0 DEF FileOK
<1>9. ASSUME "overlap" \notin excuses' PROVE LinkOK' /\ HoldOK' /\ LapOK' /\ UndeletedOK' /\ NothingForgotten'
  <2>1. LinkOK /\ HoldOK /\ LapOK /\ UndeletedOK /\ NothingForgotten
    BY <1>9 DEF SubscriptionInv
  <2>2. LinkOK'
    BY Naming, <2>1, <1>0, <1>2, <1>3 DEF LinkOK, Submitting, Resolving, Posting, At, Threads
  <2>3. HoldOK'
    BY Naming, <2>1, <1>0, <1>1, <1>2, <1>3 DEF HoldOK, LinkOK, Holding, Waning, At, Threads
  <2>4. LapOK'
    BY <2>1, <1>3 DEF LapOK, Polling, At, Threads
  <2>5. UndeletedOK'
    BY Naming, <2>1, <1>0, <1>1 DEF UndeletedOK, LinkOK
  <2>6. NothingForgotten'
    BY Naming, <2>1, <1>0, <1>2, <1>3 DEF NothingForgotten, HoldOK, Holding, Waning, Alive, At
  <2> QED
    BY <2>2, <2>3, <2>4, <2>5, <2>6
<1> QED
  BY <1>5, <1>6, <1>7, <1>8, <1>9 DEF SubscriptionInv

\* A mark is cleared when what it names is gone.
LEMMA PollerClearsStep ==
    ASSUME SubscriptionInv, PollerClears
    PROVE  SubscriptionInv'
<1>0. TypeOK /\ PlacesOK /\ KnownOK /\ FileOK
  BY DEF SubscriptionInv
<1>1. At("poller", "clear") /\ UNCHANGED <<mp, merges, tracked, replaced, booted, aged,
                                           statusCache, answered, deleted, heard, retold, excuses, restarts, userActs>>
  BY DEF PollerClears, history
<1>2. Waning
  BY <1>0, <1>1, NothingMoves
<1>3. run \in [Threads -> Thread] /\ review \in Review
  BY <1>0 DEF TypeOK
<1>4. faults' \in 0..MaxFaults
  BY <1>0, ConstantsOK DEF PollerClears, ClearPendingDelete, Saved, SaveFailed, Fault, NoFault,
     TypeOK
<1>5. /\ \/ Writes(review.status, review.sub, review.obsolete)
         \/ review.obsolete = run["poller"].sub /\ Writes(review.status, review.sub, None)
      /\ review'.retries = review.retries /\ review'.state = review.state /\ review'.cooling = review.cooling
  <2>1. CASE UNCHANGED ledger
    BY <2>1, <1>0, NothingWritten DEF ledger
  <2>2. CASE review.obsolete = run["poller"].sub /\ Saved([review EXCEPT !.obsolete = None])
    BY <2>2, <1>3, Clearing DEF Saved, Writes
  <2> QED
    BY <2>1, <2>2 DEF PollerClears, ClearPendingDelete, SaveFailed
<1>6. PICK p \in Places : p = Polls /\ run' = [run EXCEPT !["poller"] = [AtRest EXCEPT !.pc = p]]
  BY DEF PollerClears, Polls, Places
<1>7. p = "retry" \/ (p = "snapshot" /\ tracked # None)
  BY <1>6 DEF Polls
<1>8. StepsTo("poller", p, "apply", NoSnapshot, None, FALSE)
  BY <1>3, <1>6, Resting DEF Threads
<1>9. TypeOK'
  BY <1>0, <1>1, <1>4, <1>5, <1>8 DEF TypeOK, StepsTo, Writes
<1>10. PlacesOK'
  BY <1>0, <1>1, <1>6, <1>7 DEF PlacesOK, Polling, Holding, Resolving, At
<1>11. KnownOK'
  BY NothingListed, <1>0, <1>1, <1>5, <1>8 DEF KnownOK, Lists, Alive, StepsTo, Writes
<1>12. FileOK'
  BY <1>5 DEF FileOK, Writes
<1>13. ASSUME "overlap" \notin excuses' PROVE LinkOK' /\ HoldOK' /\ LapOK' /\ UndeletedOK' /\ NothingForgotten'
  <2>1. LinkOK /\ HoldOK /\ LapOK /\ UndeletedOK /\ NothingForgotten
    BY <1>13, <1>1 DEF SubscriptionInv
  <2>2. LinkOK'
    BY <2>1, <1>1, <1>5, <1>6, <1>7, <1>8 DEF LinkOK, Submitting, Polling, Resolving, Posting, At,
       StepsTo, Writes
  <2>3. HoldOK'
    BY <2>1, <1>0, <1>1, <1>5, <1>7, <1>8 DEF HoldOK, PlacesOK, Holding, At, Threads, StepsTo,
       Writes
  <2>4. LapOK'
    BY <2>1, <1>1, <1>5, <1>6 DEF LapOK, Polling, At
  <2>5. UndeletedOK'
    BY <2>1, <1>1, <1>5 DEF UndeletedOK, Writes
  <2>6. NothingForgotten'
    BY Naming, <2>1, <1>0, <1>1, <1>5, <1>6 DEF NothingForgotten, HoldOK, Alive, Writes
  <2> QED
    BY <2>2, <2>3, <2>4, <2>5, <2>6
<1> QED
  BY <1>9, <1>10, <1>11, <1>12, <1>13 DEF SubscriptionInv

\* A round starts a replacement only when none is under way.
LEMMA ApplySnapshotStep ==
    ASSUME SubscriptionInv, ApplySnapshot
    PROVE  SubscriptionInv'
<1>0. TypeOK /\ PlacesOK /\ KnownOK /\ FileOK
  BY DEF SubscriptionInv
<1>1. /\ At("poller", "apply") /\ tracked' = None
      /\ UNCHANGED <<mp, merges, booted, aged, statusCache, answered, deleted, excuses, restarts,
                     userActs>>
  BY DEF ApplySnapshot
<1>2. Waning
  BY <1>0, <1>1, NothingMoves
<1>3. run \in [Threads -> Thread] /\ review \in Review
  BY <1>0 DEF TypeOK
<1>4. tracked \in Ids /\ run["poller"].snap[tracked] \in States \cup {"none"}
  BY <1>0, <1>1, Naming DEF PlacesOK, Polling, At, Threads, Snapshots
<1>5. /\ faults' \in 0..MaxFaults /\ retold' \subseteq heard' /\ heard' \subseteq {"D", "R"}
  BY <1>0, ConstantsOK DEF ApplySnapshot, Keeps, NoFault, Fault, TypeOK, Tell, Notices
<1>6. PICK rv \in Review : /\ rv.status = review.status /\ rv.sub = review.sub /\ rv.obsolete = review.obsolete
                           /\ rv.retries = review.retries /\ rv.cooling = review.cooling
                           /\ Keeps(rv)
                           /\ LET s == run["poller"].snap[tracked]
                              IN s \in States /\ s # review.state => rv.state = s
  <2> DEFINE s == run["poller"].snap[tracked]
  <2>1. /\ s \notin States => s = "none"
        /\ s = "none" => s \notin States
    BY <1>4, ConstantsOK
  <2>2. CASE s = "none"
    BY <2>1, <2>2, <1>3, Missing DEF ApplySnapshot
  <2>3. CASE s # "none" /\ s # review.state
    BY <2>1, <2>3, <1>3, Applying DEF ApplySnapshot
  <2>4. CASE s # "none" /\ s = review.state
    BY <2>4, <1>3 DEF ApplySnapshot
  <2> QED
    BY <2>2, <2>3, <2>4
<1>7. /\ Writes(review.status, review.sub, review.obsolete)
      /\ review' = rv /\ review'.retries = review.retries /\ review'.cooling = review.cooling
  BY <1>0, <1>6 DEF Keeps, Writes, FileOK, TypeOK
<1>8. PICK p \in Places : /\ run' = [run EXCEPT !["poller"] = [AtRest EXCEPT !.pc = "retry"],
                                     !["replacer"].pc = p]
                           /\ \/ p = run["replacer"].pc /\ replaced' = replaced
                              \/ /\ p = "create" /\ replaced' = review.sub /\ ~review.cooling
                                 /\ review.state # "R" /\ review'.state = "R"
  <2> DEFINE s == run["poller"].snap[tracked]
  <2> DEFINE replaces == s # "none" /\ s # review.state /\ Recycled(s)
  <2>1. run["replacer"].pc \in Places
    BY <1>3, Typed DEF Threads
  <2>2. /\ replaced' = (IF replaces THEN review.sub ELSE replaced)
        /\ run' = [run EXCEPT !["poller"] = [AtRest EXCEPT !.pc = "retry"],
                              !["replacer"].pc = IF replaces THEN "create" ELSE run["replacer"].pc]
    BY <1>3 DEF ApplySnapshot, Threads
  <2>3. replaces => ~review.cooling /\ review.state # "R" /\ review'.state = "R"
    BY <1>4, <1>6, <1>7 DEF Recycled
  <2> QED
    BY <2>1, <2>2, <2>3 DEF Places
<1>9. /\ run' \in [Threads -> Thread] /\ run'["approver"] = run["approver"]
      /\ run'["poller"].pc = "retry" /\ run'["poller"].for = "apply"
      /\ run'["poller"].snap = NoSnapshot /\ run'["poller"].sub = None
      /\ run'["replacer"].pc = p /\ run'["replacer"].for = run["replacer"].for
      /\ run'["replacer"].snap = run["replacer"].snap /\ run'["replacer"].sub = run["replacer"].sub
      /\ run'["replacer"].lapped = run["replacer"].lapped
  BY <1>3, <1>8, Starting
<1>10. TypeOK'
  BY Naming, <1>0, <1>1, <1>5, <1>7, <1>8, <1>9 DEF TypeOK, Writes
<1>11. PlacesOK'
  BY <1>0, <1>8, <1>9 DEF PlacesOK, Polling, Holding, Replacing, At
<1>12. KnownOK'
  BY NothingListed, <1>0, <1>1, <1>6, <1>7, <1>8, <1>9 DEF KnownOK, Lists, Alive
<1>13. FileOK'
  BY <1>7 DEF FileOK, Writes
<1>14. ASSUME "overlap" \notin excuses' PROVE LinkOK' /\ HoldOK' /\ LapOK' /\ UndeletedOK' /\ NothingForgotten'
  <2>1. LinkOK /\ HoldOK /\ LapOK /\ UndeletedOK /\ NothingForgotten
    BY <1>14, <1>1 DEF SubscriptionInv
  <2>2. LinkOK'
    BY <2>1, <1>0, <1>1, <1>6, <1>7, <1>9 DEF LinkOK, PlacesOK, Submitting, Polling, Resolving,
       Posting, At
  <2>3. HoldOK'
    <3>1. \A t \in Threads : run'[t].sub # None => run'[t].pc \in Holding
      <4>1. CASE p = run["replacer"].pc
        BY <4>1, <2>1, <1>9 DEF HoldOK, Threads
      <4>2. CASE p # run["replacer"].pc
        BY <2>1, <1>1, <1>8, <1>9 DEF HoldOK, LapOK, Polling, At, Holding
      <4> QED
        BY <4>1, <4>2
    <3>2. CASE p = run["replacer"].pc /\ replaced' = replaced
      BY <2>1, <1>1, <1>5, <1>6, <1>7, <1>8, <1>9 DEF HoldOK, LinkOK, LapOK, Polling, Holding, At
    <3>3. CASE p = "create" /\ replaced' = review.sub /\ At("replacer", "idle")
      BY <2>1, <1>1, <1>5, <1>6, <1>7, <1>8, <1>9 DEF HoldOK, LinkOK, LapOK, Polling, Holding, At
    <3> QED
      BY <3>2, <3>3, <2>1, <1>1, <1>8 DEF LapOK, Polling, At
  <2>4. LapOK'
    BY <2>1, <1>1, <1>8, <1>9 DEF LapOK, Polling, At
  <2>5. UndeletedOK'
    BY <2>1, <1>1, <1>6, <1>7 DEF UndeletedOK
  <2>6. NothingForgotten'
    BY Naming, <2>1, <1>0, <1>1, <1>3, <1>6, <1>7, <1>8 DEF NothingForgotten, HoldOK, PlacesOK,
       Holding, Alive, At
  <2> QED
    BY <2>2, <2>3, <2>4, <2>5, <2>6
<1> QED
  BY <1>10, <1>11, <1>12, <1>13, <1>14 DEF SubscriptionInv

LEMMA PollFailsStep ==
    ASSUME SubscriptionInv, PollFails
    PROVE  SubscriptionInv'
<1>0. TypeOK /\ PlacesOK /\ KnownOK /\ FileOK
  BY DEF SubscriptionInv
<1>1. /\ At("poller", "snapshot") /\ run["poller"].for = "apply" /\ tracked' = None
      /\ UNCHANGED <<mp, merges, review, disk, replaced, booted, aged, statusCache, answered,
                     deleted, heard, retold, excuses, restarts, userActs>>
  BY DEF PollFails, ledger, history
<1>2. Waning
  BY <1>0, <1>1, NothingMoves
<1>3. run \in [Threads -> Thread] /\ review \in Review
  BY <1>0 DEF TypeOK
<1>4. faults' \in 0..MaxFaults
  BY <1>0, ConstantsOK DEF PollFails, Fault, TypeOK
<1>5. StepsTo("poller", "retry", "apply", NoSnapshot, None, FALSE)
  BY <1>3, Resting DEF PollFails, Threads, Places
<1>6. TypeOK'
  BY <1>0, <1>1, <1>4, <1>5 DEF TypeOK, StepsTo
<1>7. PlacesOK'
  BY <1>0, <1>1, <1>5 DEF PlacesOK, Polling, Holding, At, Threads, StepsTo
<1>8. KnownOK'
  BY NothingListed, <1>0, <1>1, <1>5 DEF KnownOK, Lists, Alive, StepsTo
<1>9. FileOK'
  BY <1>0, <1>1 DEF FileOK
<1>10. ASSUME "overlap" \notin excuses' PROVE LinkOK' /\ HoldOK' /\ LapOK' /\ UndeletedOK' /\ NothingForgotten'
  <2>1. LinkOK /\ HoldOK /\ LapOK /\ UndeletedOK /\ NothingForgotten
    BY <1>10, <1>1 DEF SubscriptionInv
  <2>2. LinkOK'
    BY <2>1, <1>1, <1>5 DEF LinkOK, Submitting, Resolving, Posting, At, Threads, StepsTo
  <2>3. HoldOK'
    BY <2>1, <1>1, <1>5 DEF HoldOK, At, Threads, StepsTo
  <2>4. LapOK'
    BY <2>1, <1>1, <1>5 DEF LapOK, Polling, At, Threads, StepsTo
  <2>5. UndeletedOK'
    BY <2>1, <1>1 DEF UndeletedOK
  <2>6. NothingForgotten'
    BY <2>1, <1>1, <1>5 DEF NothingForgotten, HoldOK, Holding, Alive, At, StepsTo
  <2> QED
    BY <2>2, <2>3, <2>4, <2>5, <2>6
<1> QED
  BY <1>6, <1>7, <1>8, <1>9, <1>10 DEF SubscriptionInv

\* The poller submits again for a review that nobody else works on, or overlaps the approver.
LEMMA RetryStuckRequestsStep ==
    ASSUME SubscriptionInv, RetryStuckRequests
    PROVE  SubscriptionInv'
<1>0. TypeOK /\ PlacesOK /\ KnownOK /\ FileOK
  BY DEF SubscriptionInv
<1>1. /\ At("poller", "retry") /\ booted' = TRUE
      /\ UNCHANGED <<mp, merges, review, disk, tracked, replaced, aged, statusCache, answered,
                     deleted, heard, retold, faults, restarts, userActs>>
  BY DEF RetryStuckRequests, ledger, bounds
<1>2. Waning
  BY <1>0, <1>1, NothingMoves
<1>3. run \in [Threads -> Thread] /\ review \in Review
  BY <1>0 DEF TypeOK
<1>4. excuses' = excuses \/ excuses' = excuses \cup {"overlap"}
  BY DEF RetryStuckRequests, Excused
<1>5. \/ StepsTo("poller", "idle", "apply", NoSnapshot, None, FALSE)
      \/ /\ StepsTo("poller", "snapshot", "found", run["poller"].snap, run["poller"].sub,
                    run["poller"].lapped)
         /\ review.status = "approved" /\ review.sub = None
         /\ At("approver", "idle") \/ "overlap" \in excuses'
  BY <1>3, Ending, Asking DEF RetryStuckRequests, Ends, Asks, Excused, Recoverable, Threads, Places
<1>6. TypeOK'
  BY <1>0, <1>1, <1>4, <1>5 DEF TypeOK, StepsTo
<1>7. PlacesOK'
  BY <1>0, <1>1, <1>5 DEF PlacesOK, Polling, Holding, Resolving, At, Threads, StepsTo
<1>8. KnownOK'
  BY NothingListed, <1>0, <1>1, <1>5 DEF KnownOK, Lists, Alive, StepsTo
<1>9. FileOK'
  BY <1>0, <1>1 DEF FileOK
<1>10. ASSUME "overlap" \notin excuses' PROVE LinkOK' /\ HoldOK' /\ LapOK' /\ UndeletedOK' /\ NothingForgotten'
  <2>1. LinkOK /\ HoldOK /\ LapOK /\ UndeletedOK /\ NothingForgotten
    BY <1>10, <1>4 DEF SubscriptionInv
  <2>2. LinkOK'
    BY <2>1, <1>10, <1>1, <1>5 DEF LinkOK, Submitting, Resolving, Posting, At, Threads, StepsTo
  <2>3. HoldOK'
    BY <2>1, <1>1, <1>5 DEF HoldOK, Holding, At, Threads, StepsTo
  <2>4. LapOK'
    BY <2>1, <1>1, <1>5 DEF LapOK, Polling, At, Threads, StepsTo
  <2>5. UndeletedOK'
    BY <2>1, <1>1, <1>4 DEF UndeletedOK
  <2>6. NothingForgotten'
    <3>1. \A t \in Threads : run'[t].sub = run[t].sub
      BY <2>1, <1>1, <1>5 DEF HoldOK, Holding, StepsTo, At
    <3>2. excuses \subseteq excuses'
      BY <1>4
    <3> QED
      BY <3>1, <3>2, <2>1, <1>1 DEF NothingForgotten, Alive
  <2> QED
    BY <2>2, <2>3, <2>4, <2>5, <2>6
<1> QED
  BY <1>6, <1>7, <1>8, <1>9, <1>10 DEF SubscriptionInv

LEMMA FailExhaustedStuckRequestStep ==
    ASSUME SubscriptionInv, FailExhaustedStuckRequest
    PROVE  SubscriptionInv'
<1>0. TypeOK /\ PlacesOK /\ KnownOK /\ FileOK
  BY DEF SubscriptionInv
<1>1. /\ At("poller", "retry") /\ review.sub = None /\ review.retries # 0
      /\ UNCHANGED <<mp, merges, tracked, replaced, booted, aged, statusCache, answered, deleted,
                     heard, retold, restarts, userActs>>
  BY ConstantsOK DEF FailExhaustedStuckRequest, Recoverable
<1>2. Waning
  BY <1>0, <1>1, NothingMoves
<1>3. run \in [Threads -> Thread] /\ review \in Review
  BY <1>0 DEF TypeOK
<1>4. faults' \in 0..MaxFaults
  BY <1>0, ConstantsOK DEF FailExhaustedStuckRequest, Saved, SaveFailed, Fault, NoFault, TypeOK
<1>5. /\ Writes(review.status, review.sub, review.obsolete) \/ Writes("failed", review.sub,
                                                                      review.obsolete)
      /\ review'.retries = review.retries /\ review'.state = review.state /\ review'.cooling = review.cooling
  <2>1. CASE SaveFailed
    BY <2>1, <1>0, NothingWritten DEF SaveFailed, ledger
  <2>2. CASE Saved([review EXCEPT !.status = "failed", !.stuck = FALSE])
    BY <2>2, <1>3, Failing DEF Saved, Writes
  <2> QED
    BY <2>1, <2>2 DEF FailExhaustedStuckRequest
<1>6. \/ excuses' = excuses /\ \A i \in answered : ~Alive(i)
      \/ excuses' = excuses \cup {"exhausted"}
  BY DEF FailExhaustedStuckRequest, Excused
<1>7. StepsTo("poller", "idle", "apply", NoSnapshot, None, FALSE)
  BY <1>3, Ending DEF FailExhaustedStuckRequest, Ends, Threads
<1>8. TypeOK'
  BY Naming, NothingListed, <1>0, <1>1, <1>2, <1>3, <1>4, <1>5, <1>6, <1>7 DEF TypeOK, Waning,
     StepsTo, Writes
<1>9. PlacesOK'
  BY <1>0, <1>1, <1>7 DEF PlacesOK, Polling, Holding, At, Threads, StepsTo
<1>10. KnownOK'
  BY NothingListed, <1>0, <1>1, <1>5, <1>7 DEF KnownOK, Lists, Alive, StepsTo, Writes
<1>11. FileOK'
  BY <1>5 DEF FileOK, Writes
<1>12. ASSUME "overlap" \notin excuses' PROVE LinkOK' /\ HoldOK' /\ LapOK' /\ UndeletedOK' /\ NothingForgotten'
  <2>1. LinkOK /\ HoldOK /\ LapOK /\ UndeletedOK /\ NothingForgotten
    BY <1>12, <1>6 DEF SubscriptionInv
  <2>2. LinkOK'
    BY <2>1, <1>1, <1>5, <1>7 DEF LinkOK, Submitting, Resolving, Posting, At, Threads, StepsTo,
       Writes
  <2>3. HoldOK'
    BY <2>1, <1>1, <1>5, <1>7 DEF HoldOK, At, Threads, StepsTo, Writes
  <2>4. LapOK'
    BY <2>1, <1>1, <1>7 DEF LapOK, LinkOK, At, Threads, StepsTo
  <2>5. UndeletedOK'
    BY <2>1, <1>1 DEF UndeletedOK, LinkOK
  <2>6. NothingForgotten'
    BY <1>1, <1>6 DEF NothingForgotten, Alive
  <2> QED
    BY <2>2, <2>3, <2>4, <2>5, <2>6
<1> QED
  BY <1>8, <1>9, <1>10, <1>11, <1>12 DEF SubscriptionInv

LEMMA PollerMissesStep ==
    ASSUME SubscriptionInv, At("poller", "found"), FindExistingSubscription(run["poller"].snap) = {},
           Misses(run["poller"].snap), Creates("poller"), UNCHANGED ledger, UNCHANGED <<mp,
                                                                                        merges, tracked, replaced, booted, aged, statusCache, answered, deleted, heard, retold, faults, restarts, userActs>>
    PROVE  SubscriptionInv'
<1>0. TypeOK /\ PlacesOK /\ KnownOK /\ FileOK
  BY DEF SubscriptionInv
<1>1. UNCHANGED <<mp, review, disk>>
  BY DEF ledger
<1>2. Waning
  BY <1>0, <1>1, NothingMoves
<1>3. run \in [Threads -> Thread] /\ review \in Review
  BY <1>0 DEF TypeOK
<1>4. /\ Writes(review.status, review.sub, review.obsolete)
      /\ review'.retries = review.retries /\ review'.state = review.state /\ review'.cooling = review.cooling
  BY <1>0, <1>1, NothingWritten
<1>5. /\ excuses \subseteq excuses' /\ excuses' \subseteq excuses \cup {"stale"}
      /\ "stale" \notin excuses' => \A i \in answered : ~Alive(i)
  BY Naming, <1>0 DEF Misses, Excused, FindExistingSubscription
<1>6. StepsTo("poller", "create", "apply", NoSnapshot, None, FALSE)
  BY <1>3, Resting DEF Creates, Threads, Places
<1>7. TypeOK'
  BY <1>0, <1>1, <1>5, <1>6 DEF TypeOK, StepsTo
<1>8. PlacesOK'
  BY <1>0, <1>6 DEF PlacesOK, Polling, Holding, Posting, At, Threads, StepsTo
<1>9. KnownOK'
  BY NothingListed, <1>0, <1>1, <1>6 DEF KnownOK, Lists, Alive, StepsTo
<1>10. FileOK'
  BY <1>0, <1>1 DEF FileOK
<1>11. ASSUME "overlap" \notin excuses' PROVE LinkOK' /\ HoldOK' /\ LapOK' /\ UndeletedOK' /\ NothingForgotten'
  <2>1. LinkOK /\ HoldOK /\ LapOK /\ UndeletedOK /\ NothingForgotten
    BY <1>11, <1>5 DEF SubscriptionInv
  <2>2. LinkOK'
    BY <2>1, <1>4, <1>5, <1>6 DEF LinkOK, Submitting, Polling, Resolving, Alive, At, Threads,
       StepsTo, Writes
  <2>3. HoldOK'
    BY <2>1, <1>4, <1>6 DEF HoldOK, At, Threads, StepsTo, Writes
  <2>4. LapOK'
    BY <2>1, <1>0, <1>6 DEF LapOK, LinkOK, PlacesOK, Polling, Submitting, At, Threads, StepsTo
  <2>5. UndeletedOK'
    BY <2>1, <1>1, <1>5 DEF UndeletedOK
  <2>6. NothingForgotten'
    BY <1>5 DEF NothingForgotten, Alive
  <2> QED
    BY <2>2, <2>3, <2>4, <2>5, <2>6
<1> QED
  BY <1>7, <1>8, <1>9, <1>10, <1>11 DEF SubscriptionInv

LEMMA PollerLinksStep ==
    ASSUME SubscriptionInv, At("poller", "found"), NEW i \in FindExistingSubscription(run["poller"].snap),
           Saved(LinkSubscription(i, run["poller"].snap[i])) \/ SaveFailed, Ends("poller"),
           Prefers(i),
           UNCHANGED <<mp, merges, tracked, replaced, booted, aged, statusCache, answered,
                       deleted, heard, retold, restarts, userActs>>
    PROVE  SubscriptionInv'
<1>0. TypeOK /\ PlacesOK /\ KnownOK /\ FileOK
  BY DEF SubscriptionInv
<1>1. UNCHANGED mp
  OBVIOUS
<1>2. Waning
  BY <1>0, <1>1, NothingMoves
<1>3. run \in [Threads -> Thread] /\ review \in Review
  BY <1>0 DEF TypeOK
<1>4. faults' \in 0..MaxFaults
  BY <1>0, ConstantsOK DEF Saved, NoFault, SaveFailed, Fault, TypeOK
<1>5. \/ excuses' = excuses /\ \A j \in answered : j # i => ~Alive(j)
      \/ excuses' = excuses \cup {"other"}
  BY DEF Prefers, Excused
<1>6. i \in Ids /\ mp[i] # "none" /\ run["poller"].snap[i] \in States
  BY <1>0 DEF FindExistingSubscription, KnownOK, Lists, Threads
<1>7. /\ \/ Writes(review.status, i, review.obsolete)
         \/ /\ Writes(review.status, review.sub, review.obsolete)
            /\ review'.state = review.state /\ review'.cooling = review.cooling
      /\ review'.retries = review.retries
  <2>1. CASE SaveFailed
    BY <2>1, <1>0, NothingWritten DEF SaveFailed, ledger
  <2>2. CASE Saved(LinkSubscription(i, run["poller"].snap[i]))
    BY <2>2, <1>3, <1>6, Linking DEF Saved, Writes
  <2> QED
    BY <2>1, <2>2
<1>8. StepsTo("poller", "idle", "apply", NoSnapshot, None, FALSE)
  BY <1>3, Ending DEF Ends, Threads
<1>9. TypeOK'
  BY Naming, NothingListed, <1>0, <1>1, <1>2, <1>3, <1>4, <1>5, <1>6, <1>7, <1>8 DEF TypeOK,
     Waning, StepsTo, Writes
<1>10. PlacesOK'
  BY <1>0, <1>8 DEF PlacesOK, Polling, Holding, At, Threads, StepsTo
<1>11. KnownOK'
  BY NothingListed, <1>0, <1>6, <1>7, <1>8 DEF KnownOK, Lists, Alive, StepsTo, Writes
<1>12. FileOK'
  BY <1>7 DEF FileOK, Writes
<1>13. ASSUME "overlap" \notin excuses' PROVE LinkOK' /\ HoldOK' /\ LapOK' /\ UndeletedOK' /\ NothingForgotten'
  <2>1. LinkOK /\ HoldOK /\ LapOK /\ UndeletedOK /\ NothingForgotten
    BY <1>13, <1>5 DEF SubscriptionInv
  <2>2. LinkOK'
    BY <2>1, <1>7, <1>8 DEF LinkOK, Submitting, Polling, Resolving, Posting, At, Threads, StepsTo,
       Writes
  <2>3. HoldOK'
    BY <2>1, <1>8 DEF HoldOK, LinkOK, Resolving, Replacing, At, Threads, StepsTo, Submitting,
       Polling
  <2>4. LapOK'
    BY <2>1, <1>0, <1>8 DEF LapOK, LinkOK, PlacesOK, Polling, Submitting, At, Threads, StepsTo
  <2>5. UndeletedOK'
    BY <2>1 DEF UndeletedOK, LinkOK, At, Submitting, Polling, Resolving
  <2>6. NothingForgotten'
    BY <2>1, <1>5, <1>7 DEF NothingForgotten, LinkOK, Submitting, Polling, Resolving, Alive, At,
       Writes
  <2> QED
    BY <2>2, <2>3, <2>4, <2>5, <2>6
<1> QED
  BY <1>9, <1>10, <1>11, <1>12, <1>13 DEF SubscriptionInv

LEMMA PollerLearnsNothingStep ==
    ASSUME SubscriptionInv, PollerLearnsNothing
    PROVE  SubscriptionInv'
<1>0. TypeOK /\ PlacesOK /\ KnownOK /\ FileOK
  BY DEF SubscriptionInv
<1>1. At("poller", "snapshot") /\ run["poller"].for = "found" /\ UNCHANGED <<mp, merges, review,
                                                                             disk, tracked, replaced, booted, aged, statusCache, answered, deleted, heard, retold, excuses, restarts, userActs>>
  BY DEF PollerLearnsNothing, ledger, history
<1>2. Waning
  BY <1>0, <1>1, NothingMoves
<1>3. run \in [Threads -> Thread] /\ review \in Review
  BY <1>0 DEF TypeOK
<1>4. faults' \in 0..MaxFaults
  BY <1>0, ConstantsOK DEF PollerLearnsNothing, Fault, TypeOK
<1>5. StepsTo("poller", "idle", "apply", NoSnapshot, None, FALSE)
  BY <1>3, Ending DEF PollerLearnsNothing, Ends, Threads
<1>6. TypeOK'
  BY <1>0, <1>1, <1>4, <1>5 DEF TypeOK, StepsTo
<1>7. PlacesOK'
  BY <1>0, <1>1, <1>5 DEF PlacesOK, Polling, Holding, At, Threads, StepsTo
<1>8. KnownOK'
  BY NothingListed, <1>0, <1>1, <1>5 DEF KnownOK, Lists, Alive, StepsTo
<1>9. FileOK'
  BY <1>0, <1>1 DEF FileOK
<1>10. ASSUME "overlap" \notin excuses' PROVE LinkOK' /\ HoldOK' /\ LapOK' /\ UndeletedOK' /\ NothingForgotten'
  <2>1. LinkOK /\ HoldOK /\ LapOK /\ UndeletedOK /\ NothingForgotten
    BY <1>10, <1>1 DEF SubscriptionInv
  <2>2. LinkOK'
    BY <2>1, <1>1, <1>5 DEF LinkOK, Submitting, Resolving, Posting, At, Threads, StepsTo
  <2>3. HoldOK'
    BY <2>1, <1>1, <1>5 DEF HoldOK, At, Threads, StepsTo
  <2>4. LapOK'
    BY <2>1, <1>1, <1>5 DEF LapOK, Polling, At, Threads, StepsTo
  <2>5. UndeletedOK'
    BY <2>1, <1>1 DEF UndeletedOK
  <2>6. NothingForgotten'
    BY <2>1, <1>1 DEF NothingForgotten, LinkOK, Submitting, Polling, Resolving, At
  <2> QED
    BY <2>2, <2>3, <2>4, <2>5, <2>6
<1> QED
  BY <1>6, <1>7, <1>8, <1>9, <1>10 DEF SubscriptionInv

-----------------------------------------------------------------------------
(***************************************************************************)
(* The replacer.                                                           *)
(***************************************************************************)
LEMMA ReplacerRefusedStep ==
    ASSUME SubscriptionInv, ReplacerRefused
    PROVE  SubscriptionInv'
<1>0. TypeOK /\ PlacesOK /\ KnownOK /\ FileOK
  BY DEF SubscriptionInv
<1>1. /\ At("replacer", "refused") /\ replaced' = None
      /\ UNCHANGED <<mp, merges, review, disk, tracked, booted, aged, statusCache, answered,
                     deleted, heard, retold, excuses, faults, restarts, userActs>>
  BY DEF ReplacerRefused, ledger, history, bounds
<1>2. Waning
  BY <1>0, <1>1, NothingMoves
<1>3. run \in [Threads -> Thread] /\ review \in Review
  BY <1>0 DEF TypeOK
<1>4. StepsTo("replacer", "idle", "apply", NoSnapshot, None, FALSE)
  BY <1>3, Ending DEF ReplacerRefused, Ends, Threads
<1>5. TypeOK'
  BY <1>0, <1>1, <1>4 DEF TypeOK, StepsTo
<1>6. PlacesOK'
  BY <1>0, <1>1, <1>4 DEF PlacesOK, Polling, Holding, At, Threads, StepsTo
<1>7. KnownOK'
  BY NothingListed, <1>0, <1>1, <1>4 DEF KnownOK, Lists, Alive, StepsTo
<1>8. FileOK'
  BY <1>0, <1>1 DEF FileOK
<1>9. ASSUME "overlap" \notin excuses' PROVE LinkOK' /\ HoldOK' /\ LapOK' /\ UndeletedOK' /\ NothingForgotten'
  <2>1. LinkOK /\ HoldOK /\ LapOK /\ UndeletedOK /\ NothingForgotten
    BY <1>9, <1>1 DEF SubscriptionInv
  <2>2. LinkOK'
    BY <2>1, <1>1, <1>4 DEF LinkOK, Submitting, Polling, Alive, At, Threads, StepsTo
  <2>3. HoldOK'
    BY <2>1, <1>1, <1>4 DEF HoldOK, Replacing, At, Threads, StepsTo
  <2>4. LapOK'
    BY <1>4 DEF LapOK, At, StepsTo
  <2>5. UndeletedOK'
    BY <2>1, <1>1 DEF UndeletedOK
  <2>6. NothingForgotten'
    BY <2>1, <1>0, <1>1, <1>4 DEF NothingForgotten, HoldOK, PlacesOK, Holding, Alive, At, StepsTo
  <2> QED
    BY <2>2, <2>3, <2>4, <2>5, <2>6
<1> QED
  BY <1>5, <1>6, <1>7, <1>8, <1>9 DEF SubscriptionInv

\* The link to the new subscription and the mark of the old one are written together.
LEMMA ReplacementWrittenStep ==
    ASSUME SubscriptionInv, At("replacer", "link"), Saved(Replacement(run["replacer"].sub)),
           \/ /\ replaced \notin {None, run["replacer"].sub}
              /\ Goto("replacer", "delete") /\ UNCHANGED replaced
           \/ /\ replaced \in {None, run["replacer"].sub}
              /\ Ends("replacer") /\ replaced' = None,
           \/ /\ excuses' = excuses
              /\ review.obsolete \in {None, Replacement(run["replacer"].sub).obsolete}
           \/ excuses' = excuses \cup {"overwritten"},
           UNCHANGED <<mp, merges, tracked, booted, aged, statusCache, answered, deleted, heard,
                       retold, restarts, userActs>>
    PROVE  SubscriptionInv'
<1>0. TypeOK /\ PlacesOK /\ KnownOK /\ FileOK
  BY DEF SubscriptionInv
<1>1. UNCHANGED <<mp, faults>>
  BY DEF Saved, NoFault
<1>2. Waning
  BY <1>0, <1>1, NothingMoves
<1>3. run \in [Threads -> Thread] /\ review \in Review
  BY <1>0 DEF TypeOK
<1>4. PICK i \in Ids : i = run["replacer"].sub /\ mp[i] # "none"
  BY <1>0, Naming DEF PlacesOK, KnownOK, At, Holding, Threads
<1>5. PICK o \in Ids \cup {None} :
         /\ o = (IF review.sub \notin {None, i} THEN review.sub ELSE review.obsolete)
         /\ Writes(review.status, i, o)
         /\ review'.retries = review.retries /\ review'.cooling
         /\ \/ excuses' = excuses /\ review.obsolete \in {None, o}
            \/ excuses' = excuses \cup {"overwritten"}
  BY <1>3, <1>4, Substituting, ReviewTyped DEF Saved, Writes
<1>6. \/ /\ StepsTo("replacer", "delete", run["replacer"].for, run["replacer"].snap,
                    run["replacer"].sub, run["replacer"].lapped)
         /\ replaced \notin {None, i} /\ replaced' = replaced
      \/ /\ StepsTo("replacer", "idle", "apply", NoSnapshot, None, FALSE)
         /\ replaced \in {None, i} /\ replaced' = None
  BY <1>3, <1>4, Ending, Going DEF Ends, Goto, Threads, Places
<1>7. TypeOK'
  <2>1. run' \in [Threads -> Thread] /\ replaced' \in Ids \cup {None}
    BY <1>0, <1>6 DEF TypeOK, StepsTo
  <2>2. review' \in Review /\ disk' \in Review
    BY <1>5 DEF Writes
  <2>3. excuses' \subseteq {"restart", "overlap", "stale", "undeleted", "overwritten", "exhausted",
                            "compensated", "other"}
    BY <1>0, <1>5 DEF TypeOK
  <2> QED
    BY <1>0, <1>1, <2>1, <2>2, <2>3 DEF TypeOK
<1>8. PlacesOK'
  BY <1>0, <1>6 DEF PlacesOK, Polling, Holding, At, Threads, StepsTo
<1>9. KnownOK'
  BY NothingListed, <1>0, <1>4, <1>5, <1>6 DEF KnownOK, Lists, Alive, StepsTo, Writes
<1>10. FileOK'
  BY <1>5 DEF FileOK, Writes
<1>11. ASSUME "overlap" \notin excuses' PROVE LinkOK' /\ HoldOK' /\ LapOK' /\ UndeletedOK' /\ NothingForgotten'
  <2>1. LinkOK /\ HoldOK /\ LapOK /\ UndeletedOK /\ NothingForgotten
    BY <1>11 DEF SubscriptionInv
  <2>2. LinkOK'
    BY Naming, <2>1, <1>0, <1>5, <1>6 DEF LinkOK, Submitting, Polling, Alive, At, Threads,
       StepsTo, Writes, HoldOK, Replacing
  <2>3. HoldOK'
    BY <2>1, <1>4, <1>5, <1>6 DEF HoldOK, Holding, Replacing, At, Threads, StepsTo, Writes
  <2>4. LapOK'
    BY <2>1, <1>5, <1>6 DEF LapOK, Polling, At, Threads, StepsTo
  <2>5. UndeletedOK'
    BY <2>1, <1>4, <1>5 DEF UndeletedOK, HoldOK, At, Writes
  <2>6. NothingForgotten'
    <3>1. review.sub # None /\ replaced = review.sub
      BY <2>1 DEF LinkOK, HoldOK, At, Replacing
    <3>2. SUFFICES ASSUME excuses' \subseteq {"compensated"}, NEW j \in answered, mp[j] \in States
                   PROVE  j \in {i, o} \/ \E t \in Threads : run'[t].sub = j
      BY <1>5 DEF NothingForgotten, Alive, Writes
    <3>3. review.obsolete \in {None, o} /\ excuses' = excuses
      BY <1>5, <3>2
    <3>4. j \in {review.sub, review.obsolete, replaced} \/ \E t \in Threads : run[t].sub = j
      BY <2>1, <3>1, <3>2, <3>3 DEF NothingForgotten, Alive
    <3>5. CASE j \in {review.sub, review.obsolete, replaced}
      BY <3>1, <3>3, <3>5, <1>0, <1>5, Naming
    <3>6. CASE \E t \in Threads : run[t].sub = j
      BY <3>6, <1>4, <1>6 DEF StepsTo
    <3> QED
      BY <3>4, <3>5, <3>6
  <2> QED
    BY <2>2, <2>3, <2>4, <2>5, <2>6
<1> QED
  BY <1>7, <1>8, <1>9, <1>10, <1>11 DEF SubscriptionInv

LEMMA ReplacementFailedStep ==
    ASSUME SubscriptionInv, At("replacer", "link"), SaveFailed, Goto("replacer", "compensate"),
           UNCHANGED <<mp, merges, tracked, replaced, booted, aged, statusCache, answered,
                       deleted, heard, retold, excuses, restarts, userActs>>
    PROVE  SubscriptionInv'
<1>0. TypeOK /\ PlacesOK /\ KnownOK /\ FileOK
  BY DEF SubscriptionInv
<1>1. UNCHANGED <<mp, review, disk>>
  BY DEF SaveFailed, ledger
<1>2. Waning
  BY <1>0, <1>1, NothingMoves
<1>3. run \in [Threads -> Thread] /\ review \in Review
  BY <1>0 DEF TypeOK
<1>4. faults' \in 0..MaxFaults
  BY <1>0, ConstantsOK DEF SaveFailed, Fault, TypeOK
<1>5. /\ Writes(review.status, review.sub, review.obsolete)
      /\ review'.retries = review.retries /\ review'.state = review.state /\ review'.cooling = review.cooling
  BY <1>0, <1>1, NothingWritten
<1>6. StepsTo("replacer", "compensate", run["replacer"].for, run["replacer"].snap,
              run["replacer"].sub, run["replacer"].lapped)
  BY <1>3, Going DEF Goto, Places, Threads
<1>7. TypeOK'
  BY <1>0, <1>1, <1>4, <1>6 DEF TypeOK, StepsTo
<1>8. PlacesOK'
  BY <1>0, <1>6 DEF PlacesOK, Polling, Holding, Replacing, At, Threads, StepsTo
<1>9. KnownOK'
  BY <1>0, <1>1, <1>6 DEF KnownOK, Lists, Alive, StepsTo
<1>10. FileOK'
  BY <1>0, <1>1 DEF FileOK
<1>11. ASSUME "overlap" \notin excuses' PROVE LinkOK' /\ HoldOK' /\ LapOK' /\ UndeletedOK' /\ NothingForgotten'
  <2>1. LinkOK /\ HoldOK /\ LapOK /\ UndeletedOK /\ NothingForgotten
    BY <1>11 DEF SubscriptionInv
  <2>2. LinkOK'
    BY <2>1, <1>5, <1>6 DEF LinkOK, Submitting, Polling, Alive, At, Threads, StepsTo, Writes
  <2>3. HoldOK'
    BY <2>1, <1>0, <1>5, <1>6 DEF HoldOK, PlacesOK, Holding, At, Threads, StepsTo, Writes
  <2>4. LapOK'
    BY <2>1, <1>5, <1>6 DEF LapOK, Polling, At, Threads, StepsTo
  <2>5. UndeletedOK'
    BY <2>1, <1>1 DEF UndeletedOK
  <2>6. NothingForgotten'
    BY <2>1, <1>5, <1>6 DEF NothingForgotten, Alive, StepsTo, Writes
  <2> QED
    BY <2>2, <2>3, <2>4, <2>5, <2>6
<1> QED
  BY <1>7, <1>8, <1>9, <1>10, <1>11 DEF SubscriptionInv

\* What could not be linked is deleted; the review still names the old one.
LEMMA CompensateStep ==
    ASSUME SubscriptionInv, Compensate
    PROVE  SubscriptionInv'
<1>0. TypeOK /\ PlacesOK /\ KnownOK /\ FileOK
  BY DEF SubscriptionInv
<1>1. /\ At("replacer", "compensate") /\ replaced' = None
      /\ UNCHANGED <<merges, review, disk, tracked, booted, aged, statusCache, answered, heard,
                     retold, restarts, userActs>>
  BY DEF Compensate, ledger
<1>2. PICK i \in Ids : i = run["replacer"].sub
  BY <1>0, <1>1, Naming DEF PlacesOK, At, Holding, Threads
<1>3. run \in [Threads -> Thread] /\ review \in Review
  BY <1>0 DEF TypeOK
<1>4. /\ Waning /\ faults' \in 0..MaxFaults /\ excuses \subseteq excuses' /\ excuses' \subseteq excuses \cup {"compensated", "undeleted"}
      /\ \/ deleted' = deleted /\ "undeleted" \in excuses'
         \/ /\ deleted' = deleted \cup {i} /\ mp'[i] = "gone"
            /\ review.sub = i => "compensated" \in excuses'
  <2>1. CASE Deletes(i) /\ IF review.sub = i THEN Excused("compensated") ELSE UNCHANGED excuses
    BY <2>1, <1>0, OneGoes DEF Deletes, NoFault, Excused, TypeOK
  <2>2. CASE Fault /\ UNCHANGED <<mp, deleted>> /\ Excused("undeleted")
    BY <2>2, <1>0, NothingMoves, ConstantsOK DEF Fault, Excused, TypeOK
  <2> QED
    BY <2>1, <2>2, <1>2 DEF Compensate
<1>5. StepsTo("replacer", "idle", "apply", NoSnapshot, None, FALSE)
  BY <1>3, Ending DEF Compensate, Ends, Threads
<1>6. TypeOK'
  BY <1>0, <1>1, <1>4, <1>5 DEF TypeOK, Waning, StepsTo
<1>7. PlacesOK'
  BY <1>0, <1>1, <1>5 DEF PlacesOK, Polling, Holding, At, Threads, StepsTo
<1>8. KnownOK'
  BY Naming, NothingListed, <1>0, <1>1, <1>4, <1>5 DEF KnownOK, Lists, Alive, Waning, StepsTo
<1>9. FileOK'
  BY <1>0, <1>1 DEF FileOK
<1>10. ASSUME "overlap" \notin excuses' PROVE LinkOK' /\ HoldOK' /\ LapOK' /\ UndeletedOK' /\ NothingForgotten'
  <2>1. LinkOK /\ HoldOK /\ LapOK /\ UndeletedOK /\ NothingForgotten
    BY <1>10, <1>4 DEF SubscriptionInv
  <2>2. LinkOK'
    BY Naming, <2>1, <1>0, <1>1, <1>4, <1>5 DEF LinkOK, Submitting, Polling, Waning, Alive, At,
       Threads, StepsTo
  <2>3. HoldOK'
    BY Naming, <2>1, <1>0, <1>1, <1>4, <1>5 DEF HoldOK, PlacesOK, Holding, Replacing, Waning, At,
       Threads, StepsTo
  <2>4. LapOK'
    BY <1>5 DEF LapOK, At, StepsTo
  <2>5. UndeletedOK'
    BY <2>1, <1>1, <1>4 DEF UndeletedOK
  <2>6. NothingForgotten'
    <3>1. review.sub # None /\ replaced = review.sub
      BY <2>1, <1>1 DEF LinkOK, HoldOK, At, Replacing
    <3>2. SUFFICES ASSUME excuses' \subseteq {"compensated"}, NEW j \in answered, mp'[j] \in States
                   PROVE  j \in {review.sub, review.obsolete} \/ \E t \in Threads : run'[t].sub = j
      BY <1>1 DEF NothingForgotten, Alive
    <3>3. j # i /\ mp[j] \in States
      BY <3>2, <1>0, <1>4, ConstantsOK, Naming DEF Waning
    <3>4. j \in {review.sub, review.obsolete, replaced} \/ \E t \in Threads : run[t].sub = j
      BY <2>1, <1>4, <3>1, <3>2, <3>3 DEF NothingForgotten, Alive
    <3> QED
      BY <3>1, <3>3, <3>4, <1>2, <1>5 DEF StepsTo
  <2> QED
    BY <2>2, <2>3, <2>4, <2>5, <2>6
<1> QED
  BY <1>6, <1>7, <1>8, <1>9, <1>10 DEF SubscriptionInv

\* The old one is deleted after the link moved on.
LEMMA ReplacedDeletedStep ==
    ASSUME SubscriptionInv, At("replacer", "delete"), Deletes(replaced), Goto("replacer", "clear"),
           UNCHANGED <<merges, review, disk, tracked, replaced, booted, aged, statusCache,
                       answered, heard, retold, excuses, restarts, userActs>>
    PROVE  SubscriptionInv'
<1>0. TypeOK /\ PlacesOK /\ KnownOK /\ FileOK
  BY DEF SubscriptionInv
<1>1. faults' = faults /\ deleted' = deleted \cup {replaced}
  BY DEF Deletes, NoFault
<1>2. run \in [Threads -> Thread] /\ review \in Review
  BY <1>0 DEF TypeOK
<1>3. PICK i \in Ids : i = replaced
  BY <1>0, Naming DEF PlacesOK
<1>4. Waning /\ mp'[i] = "gone"
  BY <1>0, <1>3, OneGoes DEF Deletes
<1>5. StepsTo("replacer", "clear", run["replacer"].for, run["replacer"].snap, run["replacer"].sub,
              run["replacer"].lapped)
  BY <1>2, Going DEF Goto, Places, Threads
<1>6. TypeOK'
  BY <1>0, <1>1, <1>3, <1>4, <1>5 DEF TypeOK, Waning, StepsTo
<1>7. PlacesOK'
  BY <1>0, <1>5 DEF PlacesOK, Polling, Holding, At, Threads, StepsTo
<1>8. KnownOK'
  BY Naming, <1>0, <1>1, <1>3, <1>4, <1>5 DEF KnownOK, Lists, Alive, Waning, StepsTo
<1>9. FileOK'
  BY <1>0 DEF FileOK
<1>10. ASSUME "overlap" \notin excuses' PROVE LinkOK' /\ HoldOK' /\ LapOK' /\ UndeletedOK' /\ NothingForgotten'
  <2>1. LinkOK /\ HoldOK /\ LapOK /\ UndeletedOK /\ NothingForgotten
    BY <1>10 DEF SubscriptionInv
  <2>2. LinkOK'
    BY Naming, <2>1, <1>0, <1>4, <1>5 DEF LinkOK, Submitting, Polling, Waning, Alive, At, Threads,
       StepsTo
  <2>3. HoldOK'
    BY Naming, <2>1, <1>0, <1>3, <1>4, <1>5 DEF HoldOK, PlacesOK, Holding, Replacing, Waning, At,
       Threads, StepsTo
  <2>4. LapOK'
    BY <2>1, <1>5 DEF LapOK, Polling, At, Threads, StepsTo
  <2>5. UndeletedOK'
    BY <2>1, <1>1 DEF UndeletedOK, HoldOK, At
  <2>6. NothingForgotten'
    BY Naming, <2>1, <1>0, <1>4, <1>5 DEF NothingForgotten, Waning, Alive, StepsTo
  <2> QED
    BY <2>2, <2>3, <2>4, <2>5, <2>6
<1> QED
  BY <1>6, <1>7, <1>8, <1>9, <1>10 DEF SubscriptionInv

\* The mark in the review outlives a deletion that fails.
LEMMA ReplacedNotDeletedStep ==
    ASSUME SubscriptionInv, At("replacer", "delete"), faults' \in 0..MaxFaults, Ends("replacer"), replaced' = None,
           UNCHANGED <<mp, merges, review, disk, tracked, booted, aged, statusCache, answered,
                       deleted, heard, retold, excuses, restarts, userActs>>
    PROVE  SubscriptionInv'
<1>0. TypeOK /\ PlacesOK /\ KnownOK /\ FileOK
  BY DEF SubscriptionInv
<1>1. UNCHANGED mp
  OBVIOUS
<1>2. Waning
  BY <1>0, <1>1, NothingMoves
<1>3. run \in [Threads -> Thread] /\ review \in Review
  BY <1>0 DEF TypeOK
<1>4. StepsTo("replacer", "idle", "apply", NoSnapshot, None, FALSE)
  BY <1>3, Ending DEF Ends, Threads
<1>5. TypeOK'
  BY <1>0, <1>4 DEF TypeOK, StepsTo
<1>6. PlacesOK'
  BY <1>0, <1>4 DEF PlacesOK, Polling, Holding, At, Threads, StepsTo
<1>7. KnownOK'
  BY NothingListed, <1>0, <1>4 DEF KnownOK, Lists, Alive, StepsTo
<1>8. FileOK'
  BY <1>0 DEF FileOK
<1>9. ASSUME "overlap" \notin excuses' PROVE LinkOK' /\ HoldOK' /\ LapOK' /\ UndeletedOK' /\ NothingForgotten'
  <2>1. LinkOK /\ HoldOK /\ LapOK /\ UndeletedOK /\ NothingForgotten
    BY <1>9 DEF SubscriptionInv
  <2>2. LinkOK'
    BY <2>1, <1>4 DEF LinkOK, Submitting, Polling, Alive, At, Threads, StepsTo
  <2>3. HoldOK'
    BY <2>1, <1>4 DEF HoldOK, Replacing, At, Threads, StepsTo
  <2>4. LapOK'
    BY <1>4 DEF LapOK, At, StepsTo
  <2>5. UndeletedOK'
    BY <2>1 DEF UndeletedOK
  <2>6. NothingForgotten'
    BY Naming, <2>1, <1>0, <1>4 DEF NothingForgotten, HoldOK, Alive, At, StepsTo
  <2> QED
    BY <2>2, <2>3, <2>4, <2>5, <2>6
<1> QED
  BY <1>5, <1>6, <1>7, <1>8, <1>9 DEF SubscriptionInv

LEMMA ReplacerClearsStep ==
    ASSUME SubscriptionInv, ReplacerClears
    PROVE  SubscriptionInv'
<1>0. TypeOK /\ PlacesOK /\ KnownOK /\ FileOK
  BY DEF SubscriptionInv
<1>1. /\ At("replacer", "clear") /\ replaced' = None
      /\ UNCHANGED <<mp, merges, tracked, booted, aged, statusCache, answered, deleted, heard,
                     retold, excuses, restarts, userActs>>
  BY DEF ReplacerClears, history
<1>2. Waning
  BY <1>0, <1>1, NothingMoves
<1>3. run \in [Threads -> Thread] /\ review \in Review
  BY <1>0 DEF TypeOK
<1>4. faults' \in 0..MaxFaults
  BY <1>0, ConstantsOK DEF ReplacerClears, ClearPendingDelete, Saved, SaveFailed, Fault, NoFault,
     TypeOK
<1>5. /\ Writes(review.status, review.sub, review.obsolete) \/ (review.obsolete = replaced /\ Writes(review.status, review.sub, None))
      /\ review'.retries = review.retries /\ review'.state = review.state /\ review'.cooling = review.cooling
  <2>1. CASE UNCHANGED ledger
    BY <2>1, <1>0, NothingWritten DEF ledger
  <2>2. CASE review.obsolete = replaced /\ Saved([review EXCEPT !.obsolete = None])
    BY <2>2, <1>3, Clearing DEF Saved, Writes
  <2> QED
    BY <2>1, <2>2 DEF ReplacerClears, ClearPendingDelete, SaveFailed
<1>6. StepsTo("replacer", "idle", "apply", NoSnapshot, None, FALSE)
  BY <1>3, Ending DEF ReplacerClears, Ends, Threads
<1>7. TypeOK'
  BY <1>0, <1>1, <1>4, <1>5, <1>6 DEF TypeOK, StepsTo, Writes
<1>8. PlacesOK'
  BY <1>0, <1>1, <1>6 DEF PlacesOK, Polling, Holding, At, Threads, StepsTo
<1>9. KnownOK'
  BY NothingListed, <1>0, <1>1, <1>5, <1>6 DEF KnownOK, Lists, Alive, StepsTo, Writes
<1>10. FileOK'
  BY <1>5 DEF FileOK, Writes
<1>11. ASSUME "overlap" \notin excuses' PROVE LinkOK' /\ HoldOK' /\ LapOK' /\ UndeletedOK' /\ NothingForgotten'
  <2>1. LinkOK /\ HoldOK /\ LapOK /\ UndeletedOK /\ NothingForgotten
    BY <1>11, <1>1 DEF SubscriptionInv
  <2>2. LinkOK'
    BY <2>1, <1>1, <1>5, <1>6 DEF LinkOK, Submitting, Polling, Alive, At, Threads, StepsTo, Writes
  <2>3. HoldOK'
    BY <2>1, <1>1, <1>6 DEF HoldOK, Replacing, At, Threads, StepsTo
  <2>4. LapOK'
    BY <1>6 DEF LapOK, At, StepsTo
  <2>5. UndeletedOK'
    BY <2>1, <1>1, <1>5 DEF UndeletedOK, Writes
  <2>6. NothingForgotten'
    BY Naming, <2>1, <1>0, <1>1, <1>5, <1>6 DEF NothingForgotten, HoldOK, Alive, At, StepsTo, Writes
  <2> QED
    BY <2>2, <2>3, <2>4, <2>5, <2>6
<1> QED
  BY <1>7, <1>8, <1>9, <1>10, <1>11 DEF SubscriptionInv

-----------------------------------------------------------------------------
(***************************************************************************)
(* Time and restarts.                                                      *)
(***************************************************************************)
LEMMA ResubscribeCooldownPassesStep ==
    ASSUME SubscriptionInv, ResubscribeCooldownPasses
    PROVE  SubscriptionInv'
<1>0. TypeOK /\ PlacesOK /\ KnownOK /\ FileOK
  BY DEF SubscriptionInv
<1>1. At("replacer", "idle") /\ UNCHANGED <<mp, merges, run, tracked, replaced, booted, aged,
                                            statusCache, answered, deleted, heard, retold, excuses, faults, restarts, userActs>>
  BY DEF ResubscribeCooldownPasses, local, history, bounds
<1>2. Waning
  BY <1>0, <1>1, NothingMoves
<1>3. review \in Review /\ disk \in Review
  BY <1>0 DEF TypeOK
<1>4. /\ Writes(review.status, review.sub, review.obsolete)
      /\ review'.retries = review.retries
  BY <1>0, <1>3, Cooling DEF ResubscribeCooldownPasses, Writes, FileOK
<1>5. TypeOK'
  BY <1>0, <1>1, <1>4 DEF TypeOK, Writes
<1>6. PlacesOK'
  BY <1>0, <1>1 DEF PlacesOK, Polling, At
<1>7. KnownOK'
  BY <1>0, <1>1, <1>4 DEF KnownOK, Lists, Alive, Writes
<1>8. FileOK'
  BY <1>4 DEF FileOK, Writes
<1>9. ASSUME "overlap" \notin excuses' PROVE LinkOK' /\ HoldOK' /\ LapOK' /\ UndeletedOK' /\ NothingForgotten'
  <2>1. LinkOK /\ HoldOK /\ LapOK /\ UndeletedOK /\ NothingForgotten
    BY <1>9, <1>1 DEF SubscriptionInv
  <2>2. LinkOK'
    BY <2>1, <1>1, <1>4 DEF LinkOK, Submitting, Polling, Alive, At, Writes
  <2>3. HoldOK'
    BY <2>1, <1>1, <1>4 DEF HoldOK, At, Writes
  <2>4. LapOK'
    BY <1>1 DEF LapOK, At
  <2>5. UndeletedOK'
    BY <2>1, <1>1, <1>4 DEF UndeletedOK, Writes
  <2>6. NothingForgotten'
    BY <2>1, <1>1, <1>4 DEF NothingForgotten, Alive, Writes
  <2> QED
    BY <2>2, <2>3, <2>4, <2>5, <2>6
<1> QED
  BY <1>5, <1>6, <1>7, <1>8, <1>9 DEF SubscriptionInv

\* After a restart nobody holds anything, and the file says what the review said.
LEMMA RestartStep ==
    ASSUME SubscriptionInv, Restart
    PROVE  SubscriptionInv'
<1>0. TypeOK /\ PlacesOK /\ KnownOK /\ FileOK
  BY DEF SubscriptionInv
<1>1. /\ tracked' = None /\ replaced' = None /\ booted' = FALSE /\ statusCache' = NoSnapshot
      /\ excuses' = excuses \cup {"restart"} /\ restarts' \in 0..MaxRestarts
      /\ UNCHANGED <<mp, merges, aged, answered, deleted, heard, retold, faults, userActs>>
  BY <1>0, ConstantsOK DEF Restart, Excused, TypeOK
<1>2. Waning
  BY <1>0, <1>1, NothingMoves
<1>3. /\ Writes(review.status, review.sub, review.obsolete)
      /\ review'.retries = review.retries
  BY <1>0 DEF Restart, Writes, FileOK, TypeOK
<1>4. /\ run' \in [Threads -> Thread]
      /\ \A t \in Threads : /\ run'[t].pc = "idle" /\ run'[t].for = "apply" /\ run'[t].snap = NoSnapshot
                            /\ run'[t].sub = None /\ ~run'[t].lapped
  BY DEF Restart, AtRest, Thread
<1>5. TypeOK'
  BY Naming, NothingListed, <1>0, <1>1, <1>2, <1>3, <1>4 DEF TypeOK, Waning, StepsTo, Writes
<1>6. PlacesOK'
  BY <1>4 DEF PlacesOK, Polling, Holding, Resolving, At, Threads
<1>7. KnownOK'
  BY NothingListed, <1>0, <1>1, <1>3, <1>4 DEF KnownOK, Lists, Alive, Writes
<1>8. FileOK'
  BY <1>3 DEF FileOK, Writes
<1>9. ASSUME "overlap" \notin excuses' PROVE LinkOK' /\ HoldOK' /\ LapOK' /\ UndeletedOK' /\ NothingForgotten'
  <2>1. LinkOK /\ HoldOK /\ LapOK /\ UndeletedOK /\ NothingForgotten
    BY <1>9, <1>1 DEF SubscriptionInv
  <2>2. LinkOK'
    BY <2>1, <1>1, <1>3, <1>4 DEF LinkOK, Submitting, Resolving, Posting, At, Threads, Writes
  <2>3. HoldOK'
    BY <1>1, <1>4 DEF HoldOK, Replacing, At, Threads
  <2>4. LapOK'
    BY <1>4 DEF LapOK, At, Threads
  <2>5. UndeletedOK'
    BY <2>1, <1>1, <1>3 DEF UndeletedOK, Writes
  <2>6. NothingForgotten'
    BY <1>1 DEF NothingForgotten
  <2> QED
    BY <2>2, <2>3, <2>4, <2>5, <2>6
<1> QED
  BY <1>5, <1>6, <1>7, <1>8, <1>9 DEF SubscriptionInv

-----------------------------------------------------------------------------
(***************************************************************************)
(* The invariant.                                                          *)
(***************************************************************************)
\* The program starts with nothing known.
LEMMA InitInv == Init => SubscriptionInv
<1> SUFFICES ASSUME Init PROVE SubscriptionInv
  OBVIOUS
<1>1. AtRest \in Thread
  BY DEF AtRest, Thread
<1>2. review \in Review /\ disk = review
  BY ConstantsOK DEF Init, Review
<1>3. run \in [Threads -> Thread] /\ \A t \in Threads : run[t] = AtRest
  BY <1>1 DEF Init
<1>4. mp \in [Ids -> States \cup {"none", "gone"}] /\ \A i \in Ids : i # 1 => mp[i] = "none"
  BY ConstantsOK DEF Init
<1>5. TypeOK
  <2>1. /\ faults \in 0..MaxFaults /\ restarts \in 0..MaxRestarts /\ userActs \in 0..MaxUserActs
    BY ConstantsOK DEF Init
  <2> QED
    BY <1>2, <1>3, <1>4, <2>1 DEF Init, TypeOK
<1>6. PlacesOK
  BY <1>3 DEF PlacesOK, Polling, Resolving, Posting, Holding, Replacing, At, AtRest, Threads
<1>7. KnownOK
  <2>1. Lists(NoSnapshot)
    BY NothingListed DEF Lists
  <2>2. \A i \in Ids : Alive(i) => i = 1
    BY <1>4, ConstantsOK DEF Alive
  <2> QED
    BY <1>3, <2>1, <2>2 DEF Init, KnownOK, AtRest
<1>8. FileOK
  BY <1>2 DEF FileOK
<1>9. LinkOK /\ HoldOK /\ LapOK /\ UndeletedOK /\ NothingForgotten
  BY <1>3 DEF Init, LinkOK, HoldOK, LapOK, UndeletedOK, NothingForgotten, Submitting, Polling,
     Resolving, Posting, Replacing, At, AtRest, Threads
<1> QED
  BY <1>5, <1>6, <1>7, <1>8, <1>9 DEF SubscriptionInv

\* The steps put together, thread by thread.
LEMMA ExternalStep ==
    ASSUME SubscriptionInv, External
    PROVE  SubscriptionInv'
<1>1. TypeOK
  BY DEF SubscriptionInv
<1>2. PICK i \in Ids, s \in States \cup {"gone"} : /\ mp[i] \in States
                                                  /\ mp' = [mp EXCEPT ![i] = s]
  <2>1. CASE Progress
    BY <2>1, <1>1, ConstantsOK DEF Progress, Moves, TypeOK
  <2>2. CASE ReshareSubscription
    BY <2>2, ConstantsOK DEF ReshareSubscription, Alive
  <2>3. CASE CancelSubscription
    BY <2>3 DEF CancelSubscription, Alive
  <2> QED
    BY <2>1, <2>2, <2>3 DEF External
<1>3. Waning
  BY <1>1, <1>2, ConstantsOK DEF TypeOK, Waning
<1>4. UNCHANGED <<merges, review, disk, run, tracked, replaced, booted, aged, statusCache,
                  answered, deleted,
                  heard, retold, excuses, faults, restarts>>
  BY DEF External, Progress, ReshareSubscription, CancelSubscription, UserActs, ledger, local,
     history, bounds
<1>5. userActs' \in 0..MaxUserActs
  BY <1>1, ConstantsOK DEF TypeOK, External, Progress, ReshareSubscription, CancelSubscription,
     UserActs, bounds
<1>6. TypeOK'
  BY <1>1, <1>3, <1>4, <1>5 DEF TypeOK, Waning
<1> QED
  BY <1>3, <1>4, <1>6, WorldStep DEF ledger

LEMMA TimingStep ==
    ASSUME SubscriptionInv, Timing
    PROVE  SubscriptionInv'
<1>1. TypeOK
  BY DEF SubscriptionInv
<1>2. CASE ResubscribeCooldownPasses
  BY <1>2, ResubscribeCooldownPassesStep
<1>3. CASE Expire \/ GracePeriodPasses
  <2>1. /\ UNCHANGED <<mp, merges, review, disk, run, tracked, replaced, booted, answered, deleted,
                       heard, retold, excuses, faults, restarts, userActs>>
        /\ aged' \in BOOLEAN /\ statusCache' \in {statusCache, NoSnapshot}
    BY <1>1, <1>3 DEF Expire, GracePeriodPasses, TypeOK, ledger, local, history, bounds
  <2>2. TypeOK' /\ Waning
    BY <1>1, <2>1, NothingMoves DEF TypeOK
  <2> QED
    BY <2>1, <2>2, NothingListed, WorldStep DEF ledger
<1> QED
  BY <1>2, <1>3 DEF Timing

LEMMA CallsStep ==
    ASSUME SubscriptionInv, NEW t \in Threads, Calls(t)
    PROVE  SubscriptionInv'
<1>1. CASE GetAllSubscriptions(t)
  BY <1>1, GetAllSubscriptionsStep
<1>2. CASE StoreSubscriptionStatuses(t)
  BY <1>2, StoreSubscriptionStatusesStep
<1>3. CASE RequestAnswered(t)
  BY <1>3, RequestAnsweredStep
<1>4. CASE RequestMedia(t)
  <2>1. /\ At(t, "create")
        /\ UNCHANGED <<merges, review, disk, tracked, replaced, booted, aged, statusCache,
                       answered, deleted,
                       heard, retold, excuses, restarts, userActs>>
    BY <1>4 DEF RequestMedia, ledger, history
  <2>2. TypeOK /\ faults' \in 0..MaxFaults
    BY <1>4, ConstantsOK DEF RequestMedia, NoFault, Fault, SubscriptionInv, TypeOK
  <2>3. CASE \E i \in Made : /\ Create(i)
                             /\ \/ run' = [run EXCEPT ![t].pc = "made", ![t].sub = i]
                                \/ run' = [run EXCEPT ![t].pc = "refused"]
    BY <2>1, <2>2, <2>3, PostReachesStep
  <2>4. CASE mp' = mp /\ run' = [run EXCEPT ![t].pc = "refused"]
    BY <2>1, <2>2, <2>4, PostRefusedStep
  <2> QED
    BY <1>4, <2>3, <2>4 DEF RequestMedia, Goto
<1> QED
  BY <1>1, <1>2, <1>3, <1>4 DEF Calls

LEMMA SubmitsStep ==
    ASSUME SubscriptionInv, NEW t \in {"approver", "poller"}, Submits(t)
    PROVE  SubscriptionInv'
<1>1. CASE SubmissionFails(t)
  BY <1>1, SubmissionFailsStep
<1>2. CASE Links(t)
  <2>1. At(t, "link") /\ UNCHANGED <<mp, merges, tracked, replaced, booted, aged, statusCache,
                                     answered, deleted,
                                     heard, retold, excuses, restarts, userActs>>
    BY <1>2 DEF Links, history
  <2>2. CASE Saved(LinkSubscription(run[t].sub, "N")) /\ Ends(t)
    BY <2>1, <2>2, LinkWrittenStep
  <2>3. CASE SaveFailed /\ Goto(t, "unlinked")
    BY <2>1, <2>3, LinkFailedStep
  <2> QED
    BY <1>2, <2>2, <2>3 DEF Links
<1> QED
  BY <1>1, <1>2 DEF Submits

LEMMA ApproverStep ==
    ASSUME SubscriptionInv, Approver
    PROVE  SubscriptionInv'
<1>1. CASE Approve
  <2>1. /\ review.status = "pending" /\ At("approver", "idle")
        /\ UNCHANGED <<mp, merges, tracked, replaced, booted, aged, statusCache, answered, deleted,
                       heard, retold, excuses, restarts, userActs>>
    BY <1>1 DEF Approve, history
  <2>2. CASE Saved([review EXCEPT !.status = "approved"]) /\ Asks("approver")
    BY <2>1, <2>2, ApprovedStep
  <2>3. CASE SaveFailed /\ UNCHANGED run
    <3>1. UNCHANGED <<review, disk>> /\ TypeOK /\ faults' \in 0..MaxFaults
      BY <2>3, ConstantsOK DEF SaveFailed, Fault, ledger, SubscriptionInv, TypeOK
    <3>2. TypeOK' /\ Waning
      BY <2>1, <2>3, <3>1, NothingMoves DEF TypeOK
    <3> QED
      BY <2>1, <2>3, <3>1, <3>2, WorldStep DEF ledger
  <2> QED
    BY <1>1, <2>2, <2>3 DEF Approve
<1>2. CASE ApproverFinds
  <2>1. At("approver", "found") /\ UNCHANGED <<mp, merges, tracked, replaced, booted, aged,
                                               statusCache, answered, deleted,
                                               heard, retold, restarts, userActs>>
    BY <1>2 DEF ApproverFinds
  <2> DEFINE snap == run["approver"].snap
  <2>2. CASE /\ FindExistingSubscription(snap) = {} /\ NoFault /\ UNCHANGED ledger
             /\ Misses(snap) /\ Creates("approver")
    BY <2>1, <2>2, ApproverMissesStep DEF NoFault
  <2>3. CASE \E i \in FindExistingSubscription(snap) :
                /\ Saved(UpdateSubscriptionInfo(i, snap[i])) \/ SaveFailed
                /\ Ends("approver") /\ UNCHANGED excuses
    BY <2>1, <2>3, ApproverLinksStep
  <2> QED
    BY <1>2, <2>2, <2>3 DEF ApproverFinds
<1>3. CASE ApproverLearnsNothing
  BY <1>3, ApproverLearnsNothingStep
<1>4. CASE Calls("approver")
  BY <1>4, CallsStep DEF Threads
<1>5. CASE Submits("approver")
  BY <1>5, SubmitsStep
<1> QED
  BY <1>1, <1>2, <1>3, <1>4, <1>5 DEF Approver

LEMMA PollerStep ==
    ASSUME SubscriptionInv, Poller
    PROVE  SubscriptionInv'
<1>1. CASE CleanupReplacedSubscriptions
  <2>1. At("poller", "cleanup") /\ UNCHANGED <<merges, review, disk, tracked, replaced, booted,
                                               aged, statusCache, answered,
                                               heard, retold, excuses, restarts, userActs>>
    BY <1>1 DEF CleanupReplacedSubscriptions, ledger
  <2>2. CASE /\ review.obsolete # None /\ Deletes(review.obsolete)
             /\ run' = [run EXCEPT !["poller"].pc = "clear", !["poller"].sub = review.obsolete]
    <3>1. PICK i \in Ids : i = review.obsolete
      BY <2>2, Naming DEF SubscriptionInv
    <3> QED
      BY <2>1, <2>2, <3>1, CleanedStep
  <2>3. CASE /\ NoFault \/ Fault
             /\ UNCHANGED <<mp, deleted>>
             /\ run' = [run EXCEPT !["poller"].pc = Polls, !["poller"].for = "apply"]
    <3>1. faults' \in 0..MaxFaults
      BY <2>3, ConstantsOK DEF NoFault, Fault, SubscriptionInv, TypeOK
    <3> QED
      BY <2>1, <2>3, <3>1, NothingCleanedStep
  <2> QED
    BY <1>1, <2>2, <2>3 DEF CleanupReplacedSubscriptions
<1>2. CASE PollerFinds
  <2>1. At("poller", "found") /\ UNCHANGED <<mp, merges, tracked, replaced, booted, aged,
                                             statusCache, answered, deleted,
                                             heard, retold, restarts, userActs>>
    BY <1>2 DEF PollerFinds
  <2> DEFINE snap == run["poller"].snap
  <2>2. CASE /\ FindExistingSubscription(snap) = {} /\ NoFault /\ UNCHANGED ledger
             /\ Misses(snap) /\ Creates("poller")
    BY <2>1, <2>2, PollerMissesStep DEF NoFault
  <2>3. CASE \E i \in FindExistingSubscription(snap) :
                /\ Saved(LinkSubscription(i, snap[i])) \/ SaveFailed
                /\ Ends("poller") /\ Prefers(i)
    BY <2>1, <2>3, PollerLinksStep
  <2> QED
    BY <1>2, <2>2, <2>3 DEF PollerFinds
<1>3. CASE Calls("poller")
  BY <1>3, CallsStep DEF Threads
<1>4. CASE Submits("poller")
  BY <1>4, SubmitsStep
<1> QED
  BY <1>1, <1>2, <1>3, <1>4, CollectTrackedStep, PollerClearsStep, ApplySnapshotStep, PollFailsStep,
     RetryStuckRequestsStep, FailExhaustedStuckRequestStep, PollerLearnsNothingStep DEF Poller

LEMMA ReplacerStep ==
    ASSUME SubscriptionInv, Replacer
    PROVE  SubscriptionInv'
<1>1. CASE ReplacerLinks
  <2>1. At("replacer", "link") /\ UNCHANGED <<mp, merges, tracked, booted, aged, statusCache,
                                              answered, deleted,
                                              heard, retold, restarts, userActs>>
    BY <1>1 DEF ReplacerLinks
  <2>2. CASE SaveFailed /\ Goto("replacer", "compensate") /\ UNCHANGED <<replaced, excuses>>
    BY <2>1, <2>2, ReplacementFailedStep
  <2>3. CASE /\ Saved(Replacement(run["replacer"].sub))
             /\ IF replaced \notin {None, run["replacer"].sub}
                THEN Goto("replacer", "delete") /\ UNCHANGED replaced
                ELSE Ends("replacer") /\ replaced' = None
             /\ IF review.obsolete \notin {None, Replacement(run["replacer"].sub).obsolete}
                THEN Excused("overwritten") ELSE UNCHANGED excuses
    <3>1. \/ /\ excuses' = excuses
             /\ review.obsolete \in {None, Replacement(run["replacer"].sub).obsolete}
          \/ excuses' = excuses \cup {"overwritten"}
      BY <2>3 DEF Excused
    <3>2. \/ /\ replaced \notin {None, run["replacer"].sub}
             /\ Goto("replacer", "delete") /\ UNCHANGED replaced
          \/ /\ replaced \in {None, run["replacer"].sub}
             /\ Ends("replacer") /\ replaced' = None
      BY <2>3
    <3> QED
      BY <2>1, <2>3, <3>1, <3>2, ReplacementWrittenStep
  <2> QED
    BY <1>1, <2>2, <2>3 DEF ReplacerLinks
<1>2. CASE DeleteReplaced
  <2>1. At("replacer", "delete") /\ UNCHANGED <<merges, review, disk, tracked, booted, aged,
                                                statusCache, answered,
                                                heard, retold, excuses, restarts, userActs>>
    BY <1>2 DEF DeleteReplaced, ledger
  <2>2. CASE Deletes(replaced) /\ Goto("replacer", "clear") /\ UNCHANGED replaced
    BY <2>1, <2>2, ReplacedDeletedStep
  <2>3. CASE Fault /\ UNCHANGED <<mp, merges, deleted>> /\ Ends("replacer") /\ replaced' = None
    <3>1. faults' \in 0..MaxFaults
      BY <2>3, ConstantsOK DEF Fault, SubscriptionInv, TypeOK
    <3> QED
      BY <2>1, <2>3, <3>1, ReplacedNotDeletedStep
  <2> QED
    BY <1>2, <2>2, <2>3 DEF DeleteReplaced
<1>3. CASE Calls("replacer")
  BY <1>3, CallsStep DEF Threads
<1> QED
  BY <1>1, <1>2, <1>3, ReplacerRefusedStep, CompensateStep, ReplacerClearsStep DEF Replacer

LEMMA NextInv == SubscriptionInv /\ [Next]_vars => SubscriptionInv'
<1> SUFFICES ASSUME SubscriptionInv, [Next]_vars PROVE SubscriptionInv'
  OBVIOUS
<1>1. CASE UNCHANGED vars
  <2>1. UNCHANGED <<mp, merges, review, disk, run, tracked, replaced, booted, aged, statusCache,
                    answered, deleted,
                    heard, retold, excuses, faults, restarts, userActs>>
    BY <1>1 DEF vars, ledger, local, history, bounds
  <2>2. TypeOK' /\ Waning
    BY <2>1, NothingMoves DEF SubscriptionInv, TypeOK
  <2> QED
    BY <2>1, <2>2, WorldStep DEF ledger
<1> QED
  BY <1>1, ExternalStep, TimingStep, ApproverStep, PollerStep, ReplacerStep, RestartStep DEF Next

\* In every state the program reaches, whatever the bounds.
THEOREM Invariance == Spec => []SubscriptionInv
BY InitInv, NextInv, PTL DEF Spec

\* DeletedIsNotLinked: no deletion hits the subscription the review is linked
\* to, in memory or in the file (cleanupReplacedSubscriptions and
\* resubscribeRecycledRequests delete what was replaced, after the write).
THEOREM DeletedNeverLinked == Spec => []DeletedIsNotLinked
<1>1. SubscriptionInv => DeletedIsNotLinked
  BY DEF SubscriptionInv, FileOK, UndeletedOK, DeletedIsNotLinked
<1> QED
  BY <1>1, Invariance, PTL

\* NothingForgotten: a subscription created for the request stays in somebody's
\* hands, unless one of the named mishaps comes between.
THEOREM NeverForgotten == Spec => []NothingForgotten
<1>1. SubscriptionInv => NothingForgotten
  <2>1. excuses \subseteq {"compensated"} => "overlap" \notin excuses
    OBVIOUS
  <2> QED
    BY <2>1 DEF SubscriptionInv, NothingForgotten
<1> QED
  BY <1>1, Invariance, PTL

-----------------------------------------------------------------------------
(***************************************************************************)
(* What the user hears.                                                    *)
(***************************************************************************)
\* A step that marks nothing, and of which the user does not hear.
Silent ==
    /\ UNCHANGED <<heard, retold, restarts>> /\ faults' \in {faults, faults + 1}
    /\ review'.noticed = review.noticed /\ disk'.noticed \in {review.noticed, disk.noticed}

LEMMA SilentWrite ==
    ASSUME review \in Review,
           \/ UNCHANGED <<review, disk>>
           \/ \E rv \in Review : rv.noticed = review.noticed /\ review' = rv /\ disk' = rv
    PROVE  review'.noticed = review.noticed /\ disk'.noticed \in {review.noticed, disk.noticed}
OBVIOUS

LEMMA SilentSteps ==
    ASSUME TypeOK, PlacesOK, Next, ~ApplySnapshot, ~Restart
    PROVE  Silent
<1>1. review \in Review
  BY DEF TypeOK
<1>2. CASE /\ UNCHANGED ledger /\ UNCHANGED <<heard, retold, restarts>>
           /\ faults' \in {faults, faults + 1}
  BY <1>2 DEF ledger, Silent
<1>3. CASE External \/ Expire \/ GracePeriodPasses
  BY <1>2, <1>3 DEF External, Progress, ReshareSubscription, CancelSubscription, UserActs, Expire,
     GracePeriodPasses,
                    ledger, history, bounds
<1>4. ASSUME NEW t \in Threads, Calls(t) PROVE Silent
  BY <1>2, <1>4 DEF Calls, GetAllSubscriptions, StoreSubscriptionStatuses, RequestMedia,
     RequestAnswered,
                    NoFault, Fault, ledger, history, bounds
<1>5. CASE \/ ApproverLearnsNothing \/ CollectTracked \/ CleanupReplacedSubscriptions \/ PollFails
           \/ RetryStuckRequests \/ PollerLearnsNothing \/ ReplacerRefused \/ Compensate \/ DeleteReplaced
  BY <1>2, <1>5 DEF ApproverLearnsNothing, CollectTracked, CleanupReplacedSubscriptions,
     PollFails, RetryStuckRequests,
                    PollerLearnsNothing, ReplacerRefused, Compensate, DeleteReplaced, Deletes, NoFault, Fault, history, bounds
<1>6. CASE \/ Approve \/ PollerClears \/ FailExhaustedStuckRequest \/ ReplacerLinks \/ ReplacerClears
           \/ ApproverFinds \/ PollerFinds \/ \E t \in Threads : SubmissionFails(t) \/ Links(t)
  <2>1. UNCHANGED <<heard, retold, restarts>>
    BY <1>6 DEF Approve, PollerClears, FailExhaustedStuckRequest, ReplacerLinks, ReplacerClears,
       ApproverFinds,
                PollerFinds, SubmissionFails, Links, history
  <2>2. SaveFailed \/ (NoFault /\ UNCHANGED ledger) \/ \E rv \in Review : Saved(rv) /\ rv.noticed = review.noticed
    <3>1. CASE Approve \/ PollerClears \/ FailExhaustedStuckRequest \/ ReplacerClears
      <4>1. CASE Approve
        BY <1>1, <4>1, Approving DEF Approve
      <4>2. CASE FailExhaustedStuckRequest
        BY <1>1, <4>2, Failing DEF FailExhaustedStuckRequest
      <4>3. CASE PollerClears
        BY <1>1, <4>3, Clearing DEF PollerClears, ClearPendingDelete
      <4>4. CASE ReplacerClears
        BY <1>1, <4>4, Clearing DEF ReplacerClears, ClearPendingDelete
      <4> QED
        BY <3>1, <4>1, <4>2, <4>3, <4>4
    <3>2. CASE ReplacerLinks
      <4>1. run["replacer"].sub \in Ids
        BY <3>2, Naming DEF ReplacerLinks, PlacesOK, At, Holding, Threads
      <4> QED
        BY <1>1, <3>2, <4>1, Substituting DEF ReplacerLinks
    <3>3. CASE ApproverFinds
      <4>1. \A i \in FindExistingSubscription(run["approver"].snap) : i \in Ids /\ run["approver"].snap[i] \in States
        BY DEF FindExistingSubscription
      <4> QED
        BY <1>1, <3>3, <4>1, Updating DEF ApproverFinds
    <3>4. CASE PollerFinds
      <4>1. \A i \in FindExistingSubscription(run["poller"].snap) : i \in Ids /\ run["poller"].snap[i] \in States
        BY DEF FindExistingSubscription
      <4> QED
        BY <1>1, <3>4, <4>1, Linking DEF PollerFinds
    <3>5. ASSUME NEW t \in Threads, SubmissionFails(t) PROVE SaveFailed \/ \E rv \in Review : Saved(rv) /\ rv.noticed = review.noticed
      BY <1>1, <3>5, Sticking DEF SubmissionFails
    <3>6. ASSUME NEW t \in Threads, Links(t) PROVE SaveFailed \/ \E rv \in Review : Saved(rv) /\ rv.noticed = review.noticed
      <4>1. PICK i \in Ids : i = run[t].sub
        BY <3>6, Naming DEF Links, PlacesOK, At, Holding
      <4> QED
        BY <1>1, <3>6, <4>1, Linking, ConstantsOK DEF Links
    <3> QED
      BY <1>6, <3>1, <3>2, <3>3, <3>4, <3>5, <3>6
  <2>3. /\ faults' \in {faults, faults + 1}
        /\ \/ UNCHANGED <<review, disk>>
           \/ \E rv \in Review : rv.noticed = review.noticed /\ review' = rv /\ disk' = rv
    BY <2>2 DEF Saved, SaveFailed, NoFault, Fault, ledger
  <2> QED
    BY <1>1, <2>1, <2>3, SilentWrite DEF Silent
<1>7. CASE ResubscribeCooldownPasses
  BY <1>7 DEF ResubscribeCooldownPasses, Silent, history, bounds, TypeOK, Review
<1> QED
  BY <1>3, <1>4, <1>5, <1>6, <1>7 DEF Next, Timing, Approver, Poller, Replacer, Submits, Threads

\* The marks are set before the notices are sent, in one step.
LEMMA Notifying ==
    ASSUME TypeOK, PlacesOK, ToldInv, ApplySnapshot
    PROVE  ToldInv'
<1> DEFINE s == run["poller"].snap[tracked]
<1>1. /\ review \in Review /\ faults \in Nat /\ restarts \in Nat /\ tracked \in Ids
      /\ s \in States \cup {"none"} /\ "none" \notin States
  BY Naming, ConstantsOK DEF TypeOK, ApplySnapshot, PlacesOK, Polling, At, Threads, Snapshots
<1>2. restarts' = restarts /\ faults' \in {faults, faults + 1}
  BY DEF ApplySnapshot, Keeps, NoFault, Fault
<1>3. PICK ns \in SUBSET {"D", "R"} :
          /\ heard' = heard \cup ns /\ retold' = retold \cup (heard \cap ns) /\ ns \cap review.noticed = {}
          /\ review'.noticed = review.noticed \cup ns
  <2> DEFINE changed == s # "none" /\ s # review.state
  <2> DEFINE ns == IF changed THEN Notices(s) ELSE {}
  <2>1. /\ review' = IF s = "none" THEN Orphaned ELSE IF changed THEN Applied(s) ELSE review
        /\ heard' = heard \cup ns /\ retold' = retold \cup (heard \cap ns)
    BY DEF ApplySnapshot, Keeps, Tell
  <2>2. review'.noticed = review.noticed \cup ns
    <3>1. CASE s = "none"
      BY <1>1, <2>1, <3>1, Missing
    <3>2. CASE changed
      BY <1>1, <2>1, <3>2, Applying
    <3>3. CASE s # "none" /\ ~changed
      BY <2>1, <3>3
    <3> QED
      BY <3>1, <3>2, <3>3
  <2>3. ns \in SUBSET {"D", "R"} /\ ns \cap review.noticed = {}
    BY DEF Notices
  <2> HIDE DEF ns
  <2> QED
    BY <2>1, <2>2, <2>3
<1>4. faults' = 0 => disk' = review'
  BY <1>1 DEF ApplySnapshot, Keeps, Fault
<1> QED
  BY <1>1, <1>2, <1>3, <1>4 DEF ToldInv

LEMMA ToldStep ==
    ASSUME TypeOK, PlacesOK, ToldInv, [Next]_vars
    PROVE  ToldInv'
<1>1. faults \in Nat /\ restarts \in Nat
  BY ConstantsOK DEF TypeOK
<1>2. CASE UNCHANGED vars
  BY <1>2 DEF vars, ledger, history, bounds, ToldInv
<1>3. CASE Restart
  BY <1>1, <1>3 DEF Restart, ToldInv
<1>4. CASE Next /\ ~ApplySnapshot /\ ~Restart
  <2>1. Silent
    BY <1>4, SilentSteps
  <2> QED
    BY <1>1, <2>1 DEF Silent, ToldInv
<1> QED
  BY <1>2, <1>3, <1>4, Notifying

\* ToldOnce: a notice is repeated only after a write failed and the program was
\* started again (applySubscriptionStatus marks before it sends).
THEOREM HeardOnce == Spec => []ToldOnce
<1>1. Init => ToldInv
  BY DEF Init, ToldInv
<1>2. SubscriptionInv /\ ToldInv /\ [Next]_vars => ToldInv'
  BY ToldStep DEF SubscriptionInv
<1>3. SubscriptionInv /\ ToldInv => ToldOnce
  <2>1. TypeOK => faults \in Nat /\ restarts \in Nat
    BY ConstantsOK DEF TypeOK
  <2> QED
    BY <2>1 DEF SubscriptionInv, ToldInv, ToldOnce
<1> QED
  BY <1>1, <1>2, <1>3, Invariance, PTL DEF Spec
=============================================================================
