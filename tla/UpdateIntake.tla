------------------------------ MODULE UpdateIntake ------------------------------
(***************************************************************************)
(* How updates of Telegram reach their handlers: fetched by the polling    *)
(* goroutine in batches, or delivered to the webhook one by one, each      *)
(* remembered by its id before it is handled, in memory and, at most every *)
(* 30 seconds, in a file.  Telegram keeps what was not confirmed (by a     *)
(* higher offset, or by the answer 200) and delivers it again.             *)
(*                                                                         *)
(* A handler acts at one step and returns at another; what it does is the  *)
(* concern of other modules.                                               *)
(***************************************************************************)
EXTENDS Integers, FiniteSets

CONSTANTS
    Users,
    NoUser,             \* webhookUpdateUserID is 0: nobody to limit
    MaxUpdates,         \* bound on the updates users send
    UserOf,             \* the sender of each update
    BatchSize,          \* limit of GetUpdates (100 in the code)
    maxUpdateWorkers,   \* handlers at a time (20 in the code)
    MaxPerWindow,       \* webhookUserMaxUpdates (30 in the code)
    OccupancyLimit,     \* webhookUserOccupancyLimit (4 in the code)
    MaxRestarts         \* bound on the restarts of the program

Updates == 1..MaxUpdates

ASSUME ConstantsOK ==
    /\ MaxUpdates \in Nat
    /\ NoUser \notin Users
    /\ UserOf \in [Updates -> Users \cup {NoUser}]
    /\ BatchSize \in Nat \ {0}
    /\ maxUpdateWorkers \in Nat \ {0}
    /\ MaxPerWindow \in Nat \ {0}
    /\ OccupancyLimit \in Nat \ {0}
    /\ MaxRestarts \in Nat

VARIABLES
    mode,        \* "poll" or "webhook": cfg.WebhookURL
    sent,        \* updates sent so far, the last id
    held,        \* what Telegram will deliver again
    poller,      \* offset, rest of the batch, highest id of the batch
    seen,        \* updateDeduper.seen
    file,        \* tg_update_dedup.json
    saved,       \* the file was written in the last 30 seconds
    stage,       \* where the handling of each update is
    slots,       \* handlers in updateSem or webhookSem
    windows,     \* webhookUserWindows
    done,        \* history: how often an update's handler has acted
    dropped,     \* history: updates that were refused, or whose handler panicked
    interrupted, \* history: accepted when the program ended, not yet acted upon
    forgotten,   \* history: remembered when the program ended, but not in the file
    restarts

vars == <<mode, sent, held, poller, seen, file, saved, stage, slots, windows,
          done, dropped, interrupted, forgotten, restarts>>

memory  == <<seen, file, saved>>
history == <<done, dropped, interrupted, forgotten>>

Stages  == {"none", "queued", "running", "acted"}
Asleep  == [offset |-> 0, batch |-> {}, top |-> 0]

\* A window that is over is the same as none.
NoWindow == [count |-> 0, inFlight |-> 0, over |-> TRUE]

Init ==
    /\ mode \in {"poll", "webhook"}
    /\ sent = 0
    /\ held = {}
    /\ poller = Asleep
    /\ seen = {} /\ file = {} /\ saved = FALSE
    /\ stage = [u \in Updates |-> "none"]
    /\ slots = 0
    /\ windows = [x \in Users |-> NoWindow]
    /\ done = [u \in Updates |-> 0]
    /\ dropped = {} /\ interrupted = {} /\ forgotten = {}
    /\ restarts = 0

UserSends ==
    /\ sent < MaxUpdates
    /\ sent' = sent + 1
    /\ held' = held \cup {sent + 1}
    /\ UNCHANGED <<mode, poller, memory, stage, slots, windows, history, restarts>>

-----------------------------------------------------------------------------
(***************************************************************************)
(* updateDeduper                                                           *)
(***************************************************************************)
\* saveLocked: the whole map replaces the file, or an error is only logged.
SaveLocked ==
    \/ file' = seen' /\ saved' = TRUE
    \/ UNCHANGED <<file, saved>>

\* accept, for an id that is not remembered.
Accept(u) ==
    /\ seen' = seen \cup {u}
    /\ IF saved THEN UNCHANGED <<file, saved>> ELSE SaveLocked

HalfMinutePasses ==
    /\ saved' = FALSE
    /\ UNCHANGED <<mode, sent, held, poller, seen, file, stage, slots, windows,
                   history, restarts>>

\* Fault: ids are remembered for ten minutes only.
OutdatedEarly == seen

\* What was accepted a day ago Telegram does not deliver any more.
Outdated == seen \ held

Prune(old) ==
    /\ old # {}
    /\ old \subseteq Outdated
    /\ seen' = seen \ old
    /\ SaveLocked
    /\ UNCHANGED <<mode, sent, held, poller, stage, slots, windows, history, restarts>>

-----------------------------------------------------------------------------
(***************************************************************************)
(* The polling goroutine.                                                  *)
(***************************************************************************)
InStage(s) == {u \in Updates : stage[u] = s}
Sleeping   == poller.top = 0

Page(ids)  == {u \in ids : Cardinality({v \in ids : v < u}) < BatchSize}

\* An offset confirms what is below it, even if the answer is lost.
GetUpdates ==
    LET rest == {u \in held : u >= poller.offset}
    IN  /\ mode = "poll"
        /\ Sleeping
        /\ held' = rest
        /\ \/ \E top \in Page(rest) :
                /\ \A u \in Page(rest) : u <= top
                /\ poller' = [poller EXCEPT !.batch = Page(rest), !.top = top]
           \/ UNCHANGED poller
        /\ UNCHANGED <<mode, sent, memory, stage, slots, windows, history, restarts>>

\* dispatchUpdates goes on when the handler of the last update has a slot.
Dispatch(u) ==
    /\ mode = "poll"
    /\ u \in poller.batch
    /\ \A v \in poller.batch : u <= v
    /\ InStage("queued") = {}
    /\ poller' = [poller EXCEPT !.batch = @ \ {u}]
    /\ IF u \in seen THEN UNCHANGED <<memory, stage>>
       ELSE Accept(u) /\ stage' = [stage EXCEPT ![u] = "queued"]
    /\ UNCHANGED <<mode, sent, held, slots, windows, history, restarts>>

\* Fault: a batch counts as processed once it is dispatched.
DispatchedOnly == ~Sleeping /\ poller.batch = {} /\ InStage("queued") = {}

\* processPollBatch returns when every handler has.
BatchProcessed == ~Sleeping /\ poller.batch = {} /\ \A u \in Updates : stage[u] = "none"

AdvanceOffset ==
    /\ BatchProcessed
    /\ poller' = [offset |-> poller.top + 1, batch |-> {}, top |-> 0]
    /\ UNCHANGED <<mode, sent, held, memory, stage, slots, windows, history, restarts>>

-----------------------------------------------------------------------------
(***************************************************************************)
(* HandleWebhook: remember, limit the user, wait for a slot.               *)
(***************************************************************************)
\* The answer 200 reaches Telegram, or not.
Answered(u) == held' \in {held, held \ {u}}

Window(x) == IF windows[x].over THEN [count |-> 0, inFlight |-> 0, over |-> FALSE]
                                ELSE windows[x]

Allowed(x) ==
    x \in Users => Window(x).count < MaxPerWindow /\ Window(x).inFlight < OccupancyLimit

Enter(w) == [w EXCEPT !.count = @ + 1, !.inFlight = @ + 1]

\* Fault: the counters are raised before the limits are looked at.
RefusedLate(w) == Enter(w)

Refused(w) == w

\* allowWebhookUpdate, for an update whose handling starts iff it is allowed.
AllowWebhookUpdate(u) ==
    LET x == UserOf[u]
    IN  \/ /\ Allowed(x)
           /\ windows' = IF x = NoUser THEN windows ELSE [windows EXCEPT ![x] = Enter(Window(x))]
           /\ stage' = [stage EXCEPT ![u] = "queued"]
           /\ UNCHANGED <<held, dropped>>
        \/ /\ ~Allowed(x)
           /\ windows' = [windows EXCEPT ![x] = Refused(Window(x))]
           /\ dropped' = dropped \cup {u}
           /\ Answered(u)
           /\ UNCHANGED stage

Deliver(u) ==
    /\ mode = "webhook"
    /\ u \in held \ seen
    /\ Accept(u)
    /\ AllowWebhookUpdate(u)
    /\ UNCHANGED <<mode, sent, poller, slots, done, interrupted, forgotten, restarts>>

\* A duplicate is answered at once, whether or not the first is still handled.
DeliverAgain(u) ==
    /\ mode = "webhook"
    /\ u \in held \cap seen
    /\ Answered(u)
    /\ UNCHANGED <<mode, sent, poller, memory, stage, slots, windows, history, restarts>>

\* The window may be a later one than that which the update entered.
Lowered(w) == IF w.inFlight > 0 THEN [w EXCEPT !.inFlight = @ - 1] ELSE w

\* releaseWebhookUpdate, deferred; polled updates entered no window.
ReleaseWebhookUpdate(u) ==
    LET x == UserOf[u]
    IN  windows' = IF mode = "poll" \/ x = NoUser THEN windows
                   ELSE [windows EXCEPT ![x] = Lowered(@)]

MinutePasses(x) ==
    /\ ~windows[x].over
    /\ windows' = [windows EXCEPT ![x].over = TRUE]
    /\ UNCHANGED <<mode, sent, held, poller, memory, stage, slots, history, restarts>>

-----------------------------------------------------------------------------
(***************************************************************************)
(* A handler: takes a slot, acts, returns or panics.                       *)
(***************************************************************************)
Start(u) ==
    /\ stage[u] = "queued"
    /\ slots < maxUpdateWorkers
    /\ slots' = slots + 1
    /\ stage' = [stage EXCEPT ![u] = "running"]
    /\ UNCHANGED <<mode, sent, held, poller, memory, windows, history, restarts>>

Act(u) ==
    /\ stage[u] = "running"
    /\ stage' = [stage EXCEPT ![u] = "acted"]
    /\ done' = [done EXCEPT ![u] = @ + 1]
    /\ UNCHANGED <<mode, sent, held, poller, memory, slots, windows, dropped,
                   interrupted, forgotten, restarts>>

Return(u) ==
    /\ stage[u] = "acted"
    /\ stage' = [stage EXCEPT ![u] = "none"]
    /\ slots' = slots - 1
    /\ ReleaseWebhookUpdate(u)
    /\ IF mode = "webhook" THEN Answered(u) ELSE UNCHANGED held
    /\ UNCHANGED <<mode, sent, poller, memory, history, restarts>>

\* Fault: the slot is given back by the handler's last line.
KeptByPanic == slots

\* The slot is given back by a deferred function.
LeftByPanic == slots - 1

\* Recovered by dispatchUpdates, or by net/http, which answers nothing.
Panic(u) ==
    /\ stage[u] = "running"
    /\ stage' = [stage EXCEPT ![u] = "none"]
    /\ slots' = LeftByPanic
    /\ ReleaseWebhookUpdate(u)
    /\ dropped' = dropped \cup {u}
    /\ UNCHANGED <<mode, sent, held, poller, memory, done, interrupted, forgotten, restarts>>

\* The program ends at any point and starts with what the file remembers.
Restart ==
    /\ restarts < MaxRestarts
    /\ restarts' = restarts + 1
    /\ poller' = Asleep
    /\ seen' = file /\ saved' = FALSE
    /\ stage' = [u \in Updates |-> "none"]
    /\ slots' = 0
    /\ windows' = [x \in Users |-> NoWindow]
    /\ interrupted' = interrupted \cup InStage("queued") \cup InStage("running")
    /\ forgotten' = forgotten \cup (seen \ file)
    /\ UNCHANGED <<mode, sent, held, file, done, dropped>>

Handle(u) == Start(u) \/ Act(u) \/ Return(u) \/ Panic(u)

Polling == GetUpdates \/ (\E u \in Updates : Dispatch(u)) \/ AdvanceOffset

Next ==
    \/ UserSends
    \/ Polling
    \/ \E u \in Updates : Deliver(u) \/ DeliverAgain(u) \/ Handle(u)
    \/ HalfMinutePasses
    \/ \E old \in SUBSET seen : Prune(old)
    \/ \E x \in Users : MinutePasses(x)
    \/ Restart

Spec == Init /\ [][Next]_vars

(***************************************************************************)
(* The goroutines run, no handler hangs for ever (every client has a       *)
(* timeout), a waiting handler gets a slot when slots come free again and  *)
(* again, and Telegram can be reached again and again.                     *)
(***************************************************************************)
FairSpec ==
    /\ Spec
    /\ SF_vars(GetUpdates /\ poller' # poller)
    /\ WF_vars(\E u \in Updates : Dispatch(u))
    /\ WF_vars(AdvanceOffset)
    /\ \A u \in Updates :
         /\ WF_vars(Deliver(u))
         /\ SF_vars(Start(u))
         /\ WF_vars(Act(u) \/ Return(u) \/ Panic(u))

-----------------------------------------------------------------------------
(***************************************************************************)
(* Properties.                                                             *)
(***************************************************************************)
\* Every variable has its type.
TypeOK ==
    /\ mode \in {"poll", "webhook"}
    /\ sent \in 0..MaxUpdates
    /\ held \subseteq 1..sent
    /\ poller \in [offset : 0..(MaxUpdates + 1), batch : SUBSET Updates, top : 0..MaxUpdates]
    /\ seen \subseteq Updates /\ file \subseteq Updates /\ saved \in BOOLEAN
    /\ stage \in [Updates -> Stages]
    /\ slots \in 0..maxUpdateWorkers
    /\ windows \in [Users -> [count : 0..MaxPerWindow, inFlight : 0..OccupancyLimit, over : BOOLEAN]]
    /\ done \in [Updates -> 0..(MaxRestarts + 1)]
    /\ dropped \subseteq Updates
    /\ interrupted \subseteq Updates
    /\ forgotten \subseteq Updates
    /\ restarts \in 0..MaxRestarts

\* "Only when the whole batch is processed, the offset advances" (StartPolling),
\* and a webhook update is answered 200 after it was handled, or while it is
\* (DeliverAgain): Telegram is never told to forget an update that was neither
\* acted upon, nor refused, nor ended in a panic, unless the program ended while
\* it was being handled.
LostOnlyByCrash ==
    \A u \in 1..sent \ held :
        \/ done[u] > 0
        \/ u \in dropped \cup interrupted
        \/ mode = "webhook" /\ stage[u] # "none"

\* "The same update is never handled twice" (updateDeduper), by either way in:
\* only an update whose id had not reached the file when the program ended is.
TwiceOnlyIfForgotten ==
    \A u \in Updates : done[u] > 1 => u \in forgotten

\* No user is locked out of the webhook: the places a window counts are taken
\* by handlings that go on, though handlers outlive windows and lower those
\* that came after.
Occupying(x) == {u \in Updates : UserOf[u] = x /\ stage[u] # "none"}

NobodyLockedOut ==
    \A x \in Users : windows[x].inFlight <= Cardinality(Occupying(x))

\* Every update is some day acted upon, refused, ended by a panic, or cut off
\* by the end of the program, whatever panics, errors and duplicates there are.
EveryUpdateSettles ==
    \A u \in Updates :
        u <= sent ~> done[u] > 0 \/ u \in dropped \cup interrupted
=================================================================================
