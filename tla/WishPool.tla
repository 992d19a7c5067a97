------------------------------- MODULE WishPool -------------------------------
(***************************************************************************)
(* The wish pool: users wish for content nobody offers yet, a scheduler    *)
(* searches for it once a day, tells the users when it is found, and the   *)
(* originator of the wish turns it into a request with a button.           *)
(*                                                                         *)
(* Every operation of WishService is one SQLite transaction, hence one     *)
(* action.  The scheduler is one goroutine that asks other services and    *)
(* Telegram between its transactions; users, and the program's end, come   *)
(* between any two of its steps.  Ages (of a lock, a wish, a notice) are   *)
(* not counted: whatever may be old enough is, or is not.  Messages nobody *)
(* acts on are left out: the announcement in the group, the plain notices  *)
(* to those who wait with the originator, and the news of an expiry.       *)
(***************************************************************************)
EXTENDS Integers, FiniteSets

CONSTANTS
    Users,
    Contents,       \* canonical keys: id, media type, season
    Minutes,        \* minutes of a day
    OffsetOf,       \* search_offset_minute of a content, a hash of its key
    WishMaxPerUser, \* const WishMaxPerUser (20 in the code)
    WishMaxGlobal,  \* const WishMaxGlobal (500 in the code)
    MaxRows,        \* bound on the rows of wish_items
    MaxRestarts,    \* bound on the restarts of the program
    None

ASSUME ConstantsOK ==
    /\ OffsetOf \in [Contents -> Minutes]
    /\ WishMaxPerUser \in Nat \ {0}
    /\ WishMaxGlobal \in Nat \ {0}
    /\ MaxRows \in Nat \ {0}
    /\ MaxRestarts \in Nat
    /\ None \notin Users \cup Contents

VARIABLES
    rows,     \* wish_items, by id
    wishers,  \* wish_wishers: who waits for each content
    sweepDue, \* the persisted time of the last expiry sweep is a day old
    sched,    \* the goroutine of WishScheduler
    presses,  \* the wish_request callbacks in SubmitResult
    buttons,  \* the notices with a request button that users have received
    asked,    \* history: the rows whose content was requested
    restarts  \* restarts so far

vars == <<rows, wishers, sweepDue, sched, presses, buttons, asked, restarts>>

Ids      == 1..MaxRows
Open     == {"PENDING", "SEARCHING"}
Active   == Open \cup {"FOUND", "NOTIFIED"}
Terminal == {"FULFILLED", "EXPIRED", "ORPHANED"}

Row  == [state : Active \cup Terminal \cup {"none"}, user : Users \cup {None},
         content : Contents \cup {None}, locked : BOOLEAN]
Item == [id : Ids, user : Users]    \* a WishItem the scheduler has read

NoRow   == [state |-> "none", user |-> None, content |-> None, locked |-> FALSE]
ItemOf(id) == [id |-> id, user |-> rows[id].user]

IsActive(id)      == rows[id].state \in Active
ActiveOf(c)       == {id \in Ids : IsActive(id) /\ rows[id].content = c}
WaitingFor(u)     == {c \in Contents : u \in wishers[c] /\ ActiveOf(c) # {}}

\* Where the goroutine is between two ticks, and after it (re)started.
Idle     == [phase |-> "idle", work |-> {}, step |-> "next", cur |-> None]
Starting == [Idle EXCEPT !.phase = "due"]

Init ==
    /\ rows = [id \in Ids |-> NoRow]
    /\ wishers = [c \in Contents |-> {}]
    /\ sweepDue = TRUE
    /\ sched = Starting
    /\ presses = {}
    /\ buttons = {}
    /\ asked = {}
    /\ restarts = 0

pool  == <<rows, wishers>>
hist  == <<buttons, asked>>

\* An UPDATE of one row: it is committed, or fails and is only logged.
Set(id, rec)      == rows' = [rows EXCEPT ![id] = rec]
Update(id, rec)   == Set(id, rec) \/ UNCHANGED rows
Enter(id, state)  == [rows[id] EXCEPT !.state = state, !.locked = FALSE]

-----------------------------------------------------------------------------
(***************************************************************************)
(* Users wish, and withdraw.                                               *)
(***************************************************************************)
NextId(id) == rows[id].state = "none" /\ \A i \in Ids : i < id => rows[i].state # "none"

\* A wish for content that has an active row joins it.
JoinWish(u, c) ==
    /\ ActiveOf(c) # {}
    /\ Cardinality(WaitingFor(u)) < WishMaxPerUser
    /\ wishers' = [wishers EXCEPT ![c] = @ \cup {u}]
    /\ UNCHANGED <<rows, sweepDue, sched, presses, hist, restarts>>

NewWish(u, c) ==
    /\ ActiveOf(c) = {}
    /\ Cardinality({id \in Ids : IsActive(id)}) < WishMaxGlobal
    /\ Cardinality(WaitingFor(u)) < WishMaxPerUser
    /\ \E id \in Ids :
         /\ NextId(id)
         /\ Set(id, [state |-> "PENDING", user |-> u, content |-> c, locked |-> FALSE])
    /\ wishers' = [wishers EXCEPT ![c] = @ \cup {u}]
    /\ UNCHANGED <<sweepDue, sched, presses, hist, restarts>>

AddWish(u, c) == JoinWish(u, c) \/ NewWish(u, c)

\* Fault: the row is left to an originator who does not wait any more.
LeftAlone(id, u, remaining) == {rows[id]}

\* The row after u has left it; the earliest of those who remain takes over
\* from an originator (who was first is not recorded here).
Left(id, u, remaining) ==
    IF rows[id].user # u THEN {rows[id]}
    ELSE IF remaining = {} THEN {Enter(id, "EXPIRED")}
    ELSE {[rows[id] EXCEPT !.user = next] : next \in remaining}

RevokeWish(u, id) ==
    LET c == rows[id].content
    IN  /\ IsActive(id)
        /\ u = rows[id].user \/ u \in wishers[c]
        /\ wishers' = [wishers EXCEPT ![c] = @ \ {u}]
        /\ \E rec \in Left(id, u, wishers[c] \ {u}) : Set(id, rec)
        /\ UNCHANGED <<sweepDue, sched, presses, hist, restarts>>

-----------------------------------------------------------------------------
(***************************************************************************)
(* The button of a notice: the row is checked, the request is submitted,   *)
(* and the row is marked, in three steps.                                  *)
(***************************************************************************)
Fulfillable(id) == rows[id].state \in {"NOTIFIED", "FOUND"}

Press(u, id) ==
    /\ <<u, id>> \in buttons \ presses
    /\ rows[id].user = u
    /\ Fulfillable(id)
    /\ presses' = presses \cup {<<u, id>>}
    /\ UNCHANGED <<pool, sweepDue, sched, hist, restarts>>

Answers == {"created", "duplicateOwn", "duplicateOther", "refused"}

Fulfils(answer) == answer \in {"created", "duplicateOther"}

MarkFulfilled(id) ==
    IF Fulfillable(id) THEN Update(id, Enter(id, "FULFILLED")) ELSE UNCHANGED rows

Submitted(u, id, answer) ==
    /\ <<u, id>> \in presses
    /\ presses' = presses \ {<<u, id>>}
    /\ asked' = IF answer = "refused" THEN asked ELSE asked \cup {id}
    /\ IF Fulfils(answer) THEN MarkFulfilled(id) ELSE UNCHANGED rows
    /\ UNCHANGED <<wishers, sweepDue, sched, buttons, restarts>>

-----------------------------------------------------------------------------
(***************************************************************************)
(* A tick of the scheduler: search what the minute claims, try again to    *)
(* notify what was found, and sweep once a day.                            *)
(***************************************************************************)
Begin(phase, ids) ==
    sched' = [phase |-> phase, work |-> {ItemOf(id) : id \in ids},
              step |-> "next", cur |-> None]

Finished == sched.step = "next" /\ sched.work = {}

\* Fault: a wish whose originator was gone is searched again.
ClaimableOrphaned(id, minute) ==
    rows[id].state \in Open \cup {"ORPHANED"} /\ OffsetOf[rows[id].content] = minute

\* A lock that a crash left behind counts until it is an hour old.
Claimable(id, minute) == rows[id].state \in Open /\ OffsetOf[rows[id].content] = minute

ClaimSearchableItems(minute, claimed) ==
    /\ sched.phase = "idle"
    /\ claimed \subseteq {id \in Ids : Claimable(id, minute)}
    /\ \/ \A id \in Ids : Claimable(id, minute) /\ ~rows[id].locked => id \in claimed
       \/ claimed = {}                          \* the transaction failed
    /\ rows' = [id \in Ids |-> IF id \in claimed
                               THEN [rows[id] EXCEPT !.state = "SEARCHING", !.locked = TRUE]
                               ELSE rows[id]]
    /\ Begin("rescan", claimed)
    /\ UNCHANGED <<wishers, sweepDue, presses, hist, restarts>>

\* Fault: what was found before is not looked for again.
NeverStale == {}

Found == {id \in Ids : rows[id].state = "FOUND"}

ListStaleFoundItems(stale) ==
    /\ sched.phase = "rescan" /\ Finished
    /\ stale \subseteq Found
    /\ Begin("retry", stale)
    /\ UNCHANGED <<pool, sweepDue, presses, hist, restarts>>

EndRetries ==
    /\ sched.phase = "retry" /\ Finished
    /\ sched' = Starting
    /\ UNCHANGED <<pool, sweepDue, presses, hist, restarts>>

\* The time of the sweep is written before the sweep, or nothing is swept.
MaybeRunExpirySweep ==
    /\ sched.phase = "due"
    /\ \/ sweepDue /\ sweepDue' = FALSE /\ sched' = [Idle EXCEPT !.phase = "expiring"]
       \/ sched' = Idle /\ UNCHANGED sweepDue
    /\ UNCHANGED <<pool, presses, hist, restarts>>

ExpireStaleNotified(old) ==
    /\ sched.phase = "expiring"
    /\ old \subseteq {id \in Ids : rows[id].state = "NOTIFIED"}
    /\ rows' = [id \in Ids |-> IF id \in old THEN Enter(id, "EXPIRED") ELSE rows[id]]
    /\ sched' = [Idle EXCEPT !.phase = "listing"]
    /\ UNCHANGED <<wishers, sweepDue, presses, hist, restarts>>

ListExpiryCandidates(old) ==
    /\ sched.phase = "listing"
    /\ old \subseteq {id \in Ids : rows[id].state \in Open}
    /\ Begin("sweep", old)
    /\ UNCHANGED <<pool, sweepDue, presses, hist, restarts>>

EndSweep ==
    /\ sched.phase = "sweep" /\ Finished
    /\ sched' = Idle
    /\ UNCHANGED <<pool, sweepDue, presses, hist, restarts>>

-----------------------------------------------------------------------------
(***************************************************************************)
(* researchOne: one item is searched, and notified when it was found.      *)
(***************************************************************************)
GoTo(step) == sched' = [sched EXCEPT !.step = step]
Done       == sched' = [sched EXCEPT !.step = "next", !.cur = None]

Take(item) ==
    /\ sched.step = "next"
    /\ item \in sched.work
    /\ sched' = [sched EXCEPT !.work = @ \ {item}, !.cur = item,
                              !.step = IF sched.phase = "retry" THEN "reach" ELSE "search"]
    /\ UNCHANGED <<pool, sweepDue, presses, hist, restarts>>

\* A search that fails counts as one that finds nothing.
Missed ==
    LET id == sched.cur.id
    IN  /\ sched.step = "search"
        /\ IF sched.phase = "sweep" THEN Update(id, Enter(id, "EXPIRED"))
           ELSE IF rows[id].state = "SEARCHING" THEN Update(id, [rows[id] EXCEPT !.locked = FALSE])
           ELSE UNCHANGED rows
        /\ Done
        /\ UNCHANGED <<wishers, sweepDue, presses, hist, restarts>>

Hit ==
    LET id == sched.cur.id
    IN  /\ sched.step = "search"
        /\ \/ rows[id].state = "SEARCHING" /\ Set(id, Enter(id, "FOUND")) /\ GoTo("subscribed")
           \/ UNCHANGED rows /\ Done
        /\ UNCHANGED <<wishers, sweepDue, presses, hist, restarts>>

\* Content that is subscribed already is no news.
AlreadySubscribed ==
    /\ sched.step = "subscribed"
    /\ asked' = asked \cup {sched.cur.id}
    /\ MarkFulfilled(sched.cur.id)
    /\ Done
    /\ UNCHANGED <<wishers, sweepDue, presses, buttons, restarts>>

NotSubscribed ==
    /\ sched.step = "subscribed"
    /\ sched' = [sched EXCEPT !.step = "reach", !.cur = ItemOf(sched.cur.id)]
    /\ UNCHANGED <<pool, sweepDue, presses, hist, restarts>>

-----------------------------------------------------------------------------
(***************************************************************************)
(* notifyFound: whom the item was read with is asked after, and told.      *)
(***************************************************************************)
MarkOrphaned(id) == Update(id, Enter(id, "ORPHANED"))

\* getChatMember: gone, cannot tell, or there; then the state is read again.
Reach ==
    LET id == sched.cur.id
    IN  /\ sched.step = "reach"
        /\ \/ MarkOrphaned(id) /\ Done
           \/ UNCHANGED rows /\ Done
           \/ rows[id].state = "FOUND" /\ UNCHANGED rows /\ GoTo("send")
        /\ UNCHANGED <<wishers, sweepDue, presses, hist, restarts>>

\* Fault: a sending that fails for now goes on as one that went through.
CountAsSent == GoTo("sent")

\* A sending that fails for now leaves the row to the next retry.
TryLater == Done

\* The notice with the button, then the same as plain text.
Deliver(u, id) == buttons' = buttons \cup {<<u, id>>}

Send ==
    LET id == sched.cur.id
    IN  /\ sched.step = "send"
        /\ \/ Deliver(sched.cur.user, id) /\ GoTo("sent") /\ UNCHANGED rows
           \/ Deliver(sched.cur.user, id) /\ TryLater /\ UNCHANGED rows  \* the answer is lost
           \/ TryLater /\ UNCHANGED <<rows, buttons>>
           \/ MarkOrphaned(id) /\ Done /\ UNCHANGED buttons
        /\ UNCHANGED <<wishers, sweepDue, presses, asked, restarts>>

Notifiable(id) == rows[id].state = "FOUND"

MarkNotified ==
    LET id == sched.cur.id
    IN  /\ sched.step = "sent"
        /\ IF Notifiable(id) THEN Update(id, [rows[id] EXCEPT !.state = "NOTIFIED"])
                             ELSE UNCHANGED rows
        /\ Done
        /\ UNCHANGED <<wishers, sweepDue, presses, hist, restarts>>

-----------------------------------------------------------------------------
DayPasses ==
    /\ ~sweepDue
    /\ sweepDue' = TRUE
    /\ UNCHANGED <<pool, sched, presses, hist, restarts>>

\* NewWishService fills wish_wishers from every row there is.
BackfillWishers ==
    wishers' = [c \in Contents |->
                  wishers[c] \cup {rows[id].user : id \in {i \in Ids : rows[i].content = c}}]

Restart ==
    /\ restarts < MaxRestarts
    /\ restarts' = restarts + 1
    /\ BackfillWishers
    /\ sched' = Starting
    /\ presses' = {}
    /\ UNCHANGED <<rows, sweepDue, hist>>

UserActs(u) ==
    \/ \E c \in Contents : AddWish(u, c)
    \/ \E id \in Ids :
         \/ RevokeWish(u, id)
         \/ Press(u, id)
         \/ \E answer \in Answers : Submitted(u, id, answer)

Ticks ==
    \/ \E ids \in SUBSET Ids :
         \/ \E minute \in Minutes : ClaimSearchableItems(minute, ids)
         \/ ListStaleFoundItems(ids)
         \/ ExpireStaleNotified(ids)
         \/ ListExpiryCandidates(ids)
    \/ EndRetries
    \/ MaybeRunExpirySweep
    \/ EndSweep

Researches ==
    \/ \E item \in sched.work : Take(item)
    \/ Missed
    \/ Hit
    \/ AlreadySubscribed
    \/ NotSubscribed
    \/ Reach
    \/ Send
    \/ MarkNotified

Next == (\E u \in Users : UserActs(u)) \/ Ticks \/ Researches \/ DayPasses \/ Restart

Spec == Init /\ [][Next]_vars

(***************************************************************************)
(* The goroutine never rests for good, days pass, whatever stays old is at *)
(* some time found to be old, and neither SQLite nor Telegram fail for     *)
(* ever where they are asked again and again.  Nobody has to act.          *)
(***************************************************************************)
Changes(id) == rows'[id].state # rows[id].state

FoundOld(id) ==
    /\ SF_vars(\E ids \in SUBSET Ids, minute \in Minutes :
                  id \in ids /\ ClaimSearchableItems(minute, ids))
    /\ SF_vars(\E ids \in SUBSET Ids : id \in ids /\ ListStaleFoundItems(ids))
    /\ SF_vars(\E ids \in SUBSET Ids : id \in ids /\ ExpireStaleNotified(ids))
    /\ SF_vars(\E ids \in SUBSET Ids : id \in ids /\ ListExpiryCandidates(ids))

Answered(id) ==
    /\ SF_vars((Missed \/ Hit) /\ Changes(id))
    /\ SF_vars(Reach /\ sched.cur.id = id /\ (sched'.step = "send" \/ Changes(id)))
    /\ SF_vars(Send /\ sched.cur.id = id /\ (sched'.step = "sent" \/ Changes(id)))
    /\ SF_vars(MarkNotified /\ Changes(id))

FairSpec ==
    /\ Spec
    /\ WF_vars(Ticks \/ Researches)
    /\ WF_vars(DayPasses)
    /\ SF_vars(MaybeRunExpirySweep /\ ~sweepDue')
    /\ \A id \in Ids : FoundOld(id) /\ Answered(id)

-----------------------------------------------------------------------------
(***************************************************************************)
(* Properties.                                                             *)
(***************************************************************************)
\* Every variable has its type.
TypeOK ==
    /\ rows \in [Ids -> Row]
    /\ wishers \in [Contents -> SUBSET Users]
    /\ sweepDue \in BOOLEAN
    /\ sched \in [phase : {"idle", "rescan", "retry", "due", "expiring", "listing", "sweep"},
                  work  : SUBSET Item,
                  step  : {"next", "search", "subscribed", "reach", "send", "sent"},
                  cur   : Item \cup {None}]
    /\ presses \subseteq buttons
    /\ buttons \subseteq Users \X Ids
    /\ asked \subseteq Ids
    /\ restarts \in 0..MaxRestarts

\* Whoever an active wish belongs to still waits for it, however often it was
\* handed over, joined, and left, and restarts came between: the two tables of
\* the pool agree, so there is always somebody to notify.
OriginatorWaits ==
    \A id \in Ids : IsActive(id) => rows[id].user \in wishers[rows[id].content]

\* NOTIFIED means that somebody did receive the notice with the button, though
\* the answer of Telegram may be lost and users may settle the wish meanwhile.
NotifiedWasSent ==
    \A id \in Ids : rows[id].state = "NOTIFIED" => \E u \in Users : <<u, id>> \in buttons

\* "FULFILLED: after the user pressed the button and the request went through"
\* (WishService.MarkFulfilled): no wish is closed as fulfilled for which no
\* request or subscription exists.
FulfilledWasAsked ==
    \A id \in Ids : rows[id].state = "FULFILLED" => id \in asked

\* No step of the scheduler or of a button, started while a wish was active,
\* brings it back once it was fulfilled, expired, or orphaned.
SettledNeverActive ==
    [][\A id \in Ids : rows[id].state \in Terminal => rows'[id].state \in Terminal]_vars

\* How far a wish has come, whoever searches for it.
StageOf(state) ==
    IF state \in Open THEN "open"
    ELSE CASE state = "FOUND"     -> "found"
           [] state = "NOTIFIED"  -> "notified"
           [] state = "FULFILLED" -> "fulfilled"
           [] state \in {"EXPIRED", "ORPHANED"} -> "closed"
           [] OTHER -> "none"

\* The pool behaves as WishContract, however the steps of the scheduler, of
\* users and of restarts interleave and whatever fails: content is wished for
\* once, a wish ends with the last who leaves it and never comes back, nobody
\* is told or asks for what was not found, and notified means told.
Contract == INSTANCE WishContract WITH
    Wishes  <- Ids,
    stage   <- [id \in Ids |-> StageOf(rows[id].state)],
    content <- [id \in Ids |-> rows[id].content],
    waiting <- wishers,
    told    <- buttons

ImplementsWishContract == Contract!Spec

\* No wish stays in the pool for ever: it is searched until it is found or too
\* old, a find is notified although notices fail and the program restarts, and
\* a notice nobody reacts to gives the place free (repair 14 of the audit).
EverySettles ==
    \A id \in Ids : IsActive(id) ~> ~IsActive(id)
=============================================================================
