------------------------------- MODULE Reminders -------------------------------
(***************************************************************************)
(* What the ledger of requests does by the clock.  Every hour it asks the  *)
(* users whose request was completed a while ago whether they watched it,  *)
(* reports requests that wait too long to the administrators, and deletes  *)
(* what is over; shortly after a start it reports too.  It sends without   *)
(* its lock and remembers afterwards to whom.                              *)
(*                                                                         *)
(* Time passes in days, and a day has any number of the hourly passes.     *)
(***************************************************************************)
EXTENDS Integers, FiniteSets

CONSTANTS
    Requests,
    Replies,           \* what the buttons of the question say
    FollowupDelay,     \* watchFollowupDelay (3 days)
    OverdueDelay,      \* reviewOverdueThreshold (2 days)
    Retention,         \* of rejected requests (7 days)
    CompletedRetention,\* of completed requests (14 days)
    MaxDay,            \* bound on days
    MaxFaults,         \* bound on failing sends, lost answers and failing writes
    MaxRestarts

VARIABLES
    day,
    ledger,    \* reviews, in memory and in the file
    muted,     \* the user turned NotifyDownload off
    pass,      \* the pass of cleanupRoutine or of the goroutine at the start
    answers,   \* FulfillmentStatsService.feedback, in memory and in the file
    asked,     \* history: how often each request's user was asked
    tried,     \* history: requests whose user was asked, or not asked for a reason
    reported,  \* history: how often each request was reported
    doubtful,  \* history: requests whose message nobody remembers for want of an answer or a write
    faults, restarts

reminderVars == <<day, ledger, muted, pass, answers, asked, tried, reported, doubtful, faults, restarts>>

Stores == {"memory", "file"}
Never  == 0
Fresh  == [status |-> "none", since |-> Never, notice |-> Never, followup |-> FALSE, overdue |-> FALSE]
Booted == [pc |-> "booted", due |-> {}, sent |-> {}, cleans |-> FALSE]
Idle   == [Booted EXCEPT !.pc = "idle"]

TypeOK ==
    /\ day \in 1..MaxDay
    /\ ledger \in [Stores -> [Requests ->
                     [status : {"none", "pending", "approved", "rejected", "deleted"}, since : 0..MaxDay,
                      notice : 0..MaxDay, followup : BOOLEAN, overdue : BOOLEAN]]]
    /\ muted \in BOOLEAN
    /\ pass \in [pc : {"booted", "idle", "followup", "mark", "overdue", "report", "remember", "cleanup"},
                due : SUBSET Requests, sent : SUBSET Requests, cleans : BOOLEAN]
    /\ answers \in [Stores -> [Requests -> {"none"} \cup Replies]]
    /\ asked \in [Requests -> Nat] /\ reported \in [Requests -> Nat]
    /\ tried \subseteq Requests /\ doubtful \subseteq Requests
    /\ faults \in 0..MaxFaults /\ restarts \in 0..MaxRestarts

Init ==
    /\ day = 1
    /\ ledger = [x \in Stores |-> [r \in Requests |-> Fresh]]
    /\ muted = FALSE
    /\ pass = Booted
    /\ answers = [x \in Stores |-> [r \in Requests |-> "none"]]
    /\ asked = [r \in Requests |-> 0] /\ tried = {} /\ reported = [r \in Requests |-> 0]
    /\ doubtful = {}
    /\ faults = 0 /\ restarts = 0

Fault   == faults < MaxFaults /\ faults' = faults + 1
NoFault == UNCHANGED faults
histories == <<asked, tried, reported, doubtful>>

reviews == ledger["memory"]
Saved(l) == ledger' = [x \in Stores |-> l]
Unsaved(l) == ledger' = [ledger EXCEPT !["memory"] = l]

\* A write either succeeds, with all that earlier ones failed to write, or is undone in memory.
SaveOrUndo(l) == (Saved(l) /\ NoFault) \/ (UNCHANGED ledger /\ Fault)
-----------------------------------------------------------------------------
(* The requests, as far as the clock is concerned.                         *)

\* A pass takes far less than the delays differ by; between passes, and while the program is
\* down, any number of days go by.
NextDay ==
    /\ pass.pc \in {"booted", "idle"}
    /\ day < MaxDay /\ day' = day + 1
    /\ UNCHANGED <<ledger, muted, pass, answers, histories, faults, restarts>>

CreateRequest(r) ==
    /\ reviews[r].status = "none"
    /\ SaveOrUndo([reviews EXCEPT ![r].status = "pending", ![r].since = day])
    /\ UNCHANGED <<day, muted, pass, answers, histories, restarts>>

Decide(r) ==
    /\ reviews[r].status = "pending"
    /\ \E s \in {"approved", "rejected"} :
          SaveOrUndo([reviews EXCEPT ![r].status = s, ![r].since = day])
    /\ UNCHANGED <<day, muted, pass, answers, histories, restarts>>

\* Fault: a show that is completed again is asked about again.
CompleteAnew(r) ==
    /\ reviews[r].status = "approved" /\ reviews[r].notice # day
    /\ LET l == [reviews EXCEPT ![r].notice = day, ![r].followup = FALSE]
       IN (Saved(l) /\ NoFault) \/ (Unsaved(l) /\ Fault)
    /\ UNCHANGED <<day, muted, pass, answers, histories, restarts>>

\* updateAllSubscriptionStatus finds all episodes there, and again when more of them aired; the
\* write at its end may fail unnoticed.
Complete(r) ==
    /\ reviews[r].status = "approved" /\ reviews[r].notice # day
    /\ LET l == [reviews EXCEPT ![r].notice = day]
       IN (Saved(l) /\ NoFault) \/ (Unsaved(l) /\ Fault)
    /\ UNCHANGED <<day, muted, pass, answers, histories, restarts>>

ToggleDownload ==
    /\ muted' = ~muted
    /\ UNCHANGED <<day, ledger, pass, answers, histories, faults, restarts>>
-----------------------------------------------------------------------------
(* One pass.                                                               *)

DueFollowups ==
    {r \in Requests : /\ reviews[r].status # "deleted"
                      /\ reviews[r].notice # Never /\ ~reviews[r].followup
                      /\ day - reviews[r].notice >= FollowupDelay}

\* The goroutine that InitCallbacks starts, two minutes after: the report alone.
ReportAfterStart ==
    /\ pass.pc = "booted"
    /\ pass' = [pass EXCEPT !.pc = "overdue"]
    /\ UNCHANGED <<day, ledger, muted, answers, histories, faults, restarts>>

CleanupRoutine ==
    /\ pass.pc = "idle"
    /\ pass' = [pc |-> "followup", due |-> DueFollowups, sent |-> {}, cleans |-> TRUE]
    /\ UNCHANGED <<day, ledger, muted, answers, histories, faults, restarts>>

\* A user who does not want to be told counts as asked.  A send fails, or its answer is lost.
OnWatchFollowup(r) ==
    /\ tried' = tried \cup {r}
    /\ \/ /\ NoFault /\ UNCHANGED doubtful
          /\ asked' = IF muted THEN asked ELSE [asked EXCEPT ![r] = @ + 1]
          /\ pass' = [pass EXCEPT !.pc = "mark", !.due = @ \ {r}, !.sent = {r}]
       \/ /\ ~muted /\ Fault
          /\ pass' = [pass EXCEPT !.due = @ \ {r}]
          /\ \/ UNCHANGED <<asked, doubtful>>
             \/ asked' = [asked EXCEPT ![r] = @ + 1] /\ doubtful' = doubtful \cup {r}

SendWatchFollowups ==
    /\ pass.pc = "followup"
    /\ \/ \E r \in pass.due : OnWatchFollowup(r)
       \/ /\ pass.due = {} /\ pass' = [pass EXCEPT !.pc = "overdue"]
          /\ UNCHANGED <<asked, tried, doubtful>> /\ NoFault
    /\ UNCHANGED <<day, ledger, muted, answers, reported, restarts>>

Marked(f, rs) ==
    [r \in Requests |-> IF r \in rs /\ reviews[r].status # "deleted"
                        THEN [reviews[r] EXCEPT ![f] = TRUE] ELSE reviews[r]]

\* The mark of a follow-up stays in memory when it cannot be written.
MarkWatchFollowup ==
    /\ pass.pc = "mark"
    /\ \/ Saved(Marked("followup", pass.sent)) /\ NoFault
       \/ Unsaved(Marked("followup", pass.sent)) /\ Fault
    /\ pass' = [pass EXCEPT !.pc = "followup", !.sent = {}]
    /\ UNCHANGED <<day, muted, answers, histories, restarts>>

OverduePendingRequests ==
    {r \in Requests : /\ reviews[r].status = "pending" /\ ~reviews[r].overdue
                      /\ day - reviews[r].since >= OverdueDelay}

\* The goroutine of the start ends with the report, the hourly pass cleans up then.
Reported == [Idle EXCEPT !.pc = IF pass.cleans THEN "cleanup" ELSE "idle"]

CollectOverdue ==
    /\ pass.pc = "overdue"
    /\ pass' = IF OverduePendingRequests = {} THEN Reported
               ELSE [pass EXCEPT !.pc = "report", !.due = OverduePendingRequests]
    /\ UNCHANGED <<day, ledger, muted, answers, histories, faults, restarts>>

\* OnOverdueReviews counts as delivered when one administrator got it.
ReportOverdue ==
    /\ pass.pc = "report"
    /\ LET Delivered == reported' = [r \in Requests |-> reported[r] + IF r \in pass.due THEN 1 ELSE 0]
       IN \/ /\ Delivered /\ pass' = [pass EXCEPT !.pc = "remember", !.sent = pass.due, !.due = {}]
             /\ NoFault /\ UNCHANGED doubtful
          \/ /\ Fault /\ pass' = Reported
             /\ \/ UNCHANGED <<reported, doubtful>>
                \/ Delivered /\ doubtful' = doubtful \cup pass.due
    /\ UNCHANGED <<day, ledger, muted, answers, asked, tried, restarts>>

\* A mark that cannot be written is taken back, so that the report is repeated.
MarkOverdueReminded ==
    /\ pass.pc = "remember"
    /\ \/ Saved(Marked("overdue", pass.sent)) /\ NoFault /\ UNCHANGED doubtful
       \/ UNCHANGED ledger /\ Fault /\ doubtful' = doubtful \cup pass.sent
    /\ pass' = Reported
    /\ UNCHANGED <<day, muted, answers, asked, tried, reported, restarts>>

\* A request of no account that was completed is kept longer than one that was not.
Expired ==
    {r \in Requests :
       IF reviews[r].status = "deleted" THEN FALSE
       ELSE IF reviews[r].notice # Never THEN day - reviews[r].notice > CompletedRetention
       ELSE reviews[r].status = "rejected" /\ day - reviews[r].since > Retention}

CleanupAt ==
    /\ pass.pc = "cleanup"
    /\ pass' = Idle
    /\ SaveOrUndo([r \in Requests |-> IF r \in Expired THEN [reviews[r] EXCEPT !.status = "deleted"]
                                      ELSE reviews[r]])
    /\ UNCHANGED <<day, muted, answers, histories, restarts>>
-----------------------------------------------------------------------------
\* The buttons under the question work as long as the request is there.
Answerable(r) == asked[r] > 0 /\ reviews[r].status # "deleted"

\* The last answer counts.
AddWatchFeedback(r, a) ==
    /\ Answerable(r)
    /\ LET l == [answers["memory"] EXCEPT ![r] = a]
       IN \/ answers' = [x \in Stores |-> l] /\ NoFault
          \/ answers' = [answers EXCEPT !["memory"] = l] /\ Fault
    /\ UNCHANGED <<day, ledger, muted, pass, histories, restarts>>

Forgets(r) ==
    \/ reviews[r] # ledger["file"][r]
    \/ r \in pass.sent

Restart ==
    /\ restarts < MaxRestarts /\ restarts' = restarts + 1
    /\ ledger' = [x \in Stores |-> ledger["file"]]
    /\ answers' = [x \in Stores |-> answers["file"]]
    /\ pass' = Booted
    /\ doubtful' = doubtful \cup {r \in Requests : Forgets(r)}
    /\ UNCHANGED <<day, muted, asked, tried, reported, faults>>

Next ==
    \/ NextDay \/ ToggleDownload \/ Restart
    \/ \E r \in Requests : CreateRequest(r) \/ Decide(r) \/ Complete(r)
    \/ ReportAfterStart \/ CleanupRoutine \/ SendWatchFollowups \/ MarkWatchFollowup
    \/ CollectOverdue \/ ReportOverdue \/ MarkOverdueReminded \/ CleanupAt
    \/ \E r \in Requests, a \in Replies : AddWatchFeedback(r, a)

Spec == Init /\ [][Next]_reminderVars
-----------------------------------------------------------------------------
\* Nobody is asked twice about a request, and no request is reported twice, but for want of an
\* answer or of a write: whatever ended the passes between, and however often a show is completed.
RemindedOnce ==
    \A r \in Requests : asked[r] > 1 \/ reported[r] > 1 => r \in doubtful

\* A request that was completed is not deleted before its user was asked, or did not want it; the
\* passes may be late by any number of days.
AskedBeforeDeleted ==
    \A r \in Requests : reviews[r].status = "deleted" /\ reviews[r].notice # Never => r \in tried

\* Each reminder comes once, and before what it is about is forgotten.
RemindersKept == RemindedOnce /\ AskedBeforeDeleted
=============================================================================
