-------------------------------- MODULE Feedback --------------------------------
(***************************************************************************)
(* What a plain text of a user means, and the issues users report.         *)
(*                                                                         *)
(* The session of a user says what the next text is for: the title or the  *)
(* description of an issue, a further word on one, a new administrator, a  *)
(* time of day, or an administrator's answer; without any of these it is a *)
(* search.  Every tap and every text is handled by a goroutine of its own, *)
(* and confirming a draft takes several steps.  Issues are kept in memory  *)
(* and written as a whole; the sessions are gone after a restart.          *)
(*                                                                         *)
(* Wording is left out, and so is what a text says: a text that a step     *)
(* refuses leaves everything as it was.                                    *)
(***************************************************************************)
EXTENDS Integers, FiniteSets

CONSTANTS
    Users,
    Root,          \* the administrator ADMIN_USER_IDS names
    Taps,          \* handlers that confirm a draft
    MaxIssues,     \* bound on the numbers of issues
    MaxInputs,     \* bound on taps and texts
    MaxFaults,     \* bound on failing writes
    MaxRestarts

VARIABLES
    session,    \* Session.Data of each user
    hand,       \* what each confirming handler has in hand
    issues,     \* IssueService.issues, in memory and in feedback.json
    nextID,     \* IssueService.nextID
    admins,     \* AdminService.admins, in memory and in admins.json
    drafts,     \* history: drafts made so far
    together,   \* history: drafts two handlers had in hand at once
    free,       \* history: users whose last question a command ended
    told,       \* history: issues whose number the owner was told
    settled,    \* history: issues whose owner was last told that they are done
    inputs, faults, restarts

history == <<drafts, together, free, told, settled>>
bounds  == <<inputs, faults, restarts>>
vars    == <<session, hand, issues, nextID, admins, history, bounds>>

Stores   == {"memory", "file"}
Numbers  == 1..MaxIssues
Drafts   == 0..MaxInputs
Statuses == {"none", "open", "reply", "processing", "fixed", "closed"}

Sessions == [step     : {"none", "type", "media_title", "description", "confirm"},
             tmdb     : {"none", "0", "id"},            \* feedback_tmdb_id
             title    : {"none", "some"},               \* feedback_media_title
             require  : BOOLEAN,                        \* feedback_require_media
             draft    : Drafts,                         \* feedback_draft_description
             talk     : 0..MaxIssues,                   \* feedback_conversation_issue_id
             feedback : 0..MaxIssues,                   \* pending_feedback_reply
             issue    : 0..MaxIssues,                   \* pending_issue_reply
             asks     : SUBSET {"admin", "time"}]       \* waiting_for_...

\* The keys of a draft, as clearFeedbackDraft, Cancel and the home button delete them.
WithoutDraft(s) == [s EXCEPT !.step = "none", !.tmdb = "none", !.title = "none",
                             !.require = FALSE, !.draft = 0]

NewSession == [step |-> "none", tmdb |-> "none", title |-> "none", require |-> FALSE, draft |-> 0,
               talk |-> 0, feedback |-> 0, issue |-> 0, asks |-> {}]

Idle == [pc |-> "idle", user |-> Root, draft |-> 0, gone |-> FALSE]

\* Some text of the user's would not be a search.
Pending(u) ==
    LET s == session[u]
    IN \/ s.step \in {"media_title", "description", "confirm"}
       \/ s.talk # 0 \/ s.feedback # 0 \/ s.issue # 0 \/ s.asks # {}

Unused == [status |-> "none", owner |-> Root, draft |-> 0, replies |-> {}]
Exists(i) == issues["memory"][i].status # "none"

TypeOK ==
    /\ session \in [Users -> Sessions]
    /\ hand \in [Taps -> [pc : {"idle", "create", "clear"}, user : Users, draft : Drafts,
                         gone : BOOLEAN]]
    /\ issues \in [Stores -> [Numbers -> [status : Statuses, owner : Users, draft : Drafts,
                                          replies : SUBSET {"admin", "user"}]]]
    /\ nextID \in 1..MaxIssues + 1
    /\ admins \in [Stores -> SUBSET Users] /\ Root \in admins["memory"]
    /\ drafts \in Drafts /\ together \subseteq 1..drafts
    /\ free \subseteq Users
    /\ told \subseteq Numbers /\ settled \subseteq Numbers
    /\ inputs \in 0..MaxInputs /\ faults \in 0..MaxFaults /\ restarts \in 0..MaxRestarts

Init ==
    /\ session = [u \in Users |-> NewSession]
    /\ hand = [t \in Taps |-> Idle]
    /\ issues = [x \in Stores |-> [i \in Numbers |-> Unused]]
    /\ nextID = 1
    /\ admins = [x \in Stores |-> {Root}]
    /\ drafts = 0 /\ together = {} /\ free = {}
    /\ told = {} /\ settled = {}
    /\ inputs = 0 /\ faults = 0 /\ restarts = 0

Input    == inputs < MaxInputs /\ inputs' = inputs + 1
NoFault  == UNCHANGED faults
Fault    == faults < MaxFaults /\ faults' = faults + 1
Asked(u) == free' = free \ {u}
IsAdmin(a) == a \in admins["memory"]

\* save() writes all issues; what the callers do when it fails differs.
Saved(all)   == NoFault /\ issues' = [x \in Stores |-> all]
Unsaved(all) == Fault /\ issues' = [issues EXCEPT !["memory"] = all]

\* A change that stays in memory when it cannot be written.
Kept(all) == Saved(all) \/ Unsaved(all)

With(i, issue) == [issues["memory"] EXCEPT ![i] = issue]
SetStatus(i, status) == [issues["memory"] EXCEPT ![i].status = status]
-----------------------------------------------------------------------------
(***************************************************************************)
(* Reporting an issue.                                                     *)
(***************************************************************************)
\* A handler that does nothing but change the session of its user.
Turns(u, s) ==
    /\ Input
    /\ session' = [session EXCEPT ![u] = s]
    /\ Asked(u)
    /\ UNCHANGED <<hand, issues, nextID, admins, drafts, together, told, settled, faults, restarts>>

\* From the page of a title, which is in the session's cache or not.
HandleStart(u) ==
    \E title \in {"none", "some"} :
        Turns(u, [session[u] EXCEPT !.step = "type", !.tmdb = "id", !.title = title])

ScopeMedia(u) ==
    Turns(u, [session[u] EXCEPT !.step = "type", !.tmdb = "0", !.title = "none", !.require = TRUE])

\* A type was chosen; without a film the title has to be asked for first.
TypeSelected(s, id, needsTitle) ==
    [s EXCEPT !.tmdb = id, !.step = IF id = "0" /\ needsTitle THEN "media_title" ELSE "description"]

ScopeGeneral(u) ==
    Turns(u, TypeSelected([session[u] EXCEPT !.require = FALSE], "0", FALSE))

HandleTypeSelect(u) ==
    \E id \in {"0", "id"}, other \in BOOLEAN :
        Turns(u, TypeSelected(session[u], id, ~other \/ session[u].require))

\* A draft is made of the description, or refused without the title it needs.
BuildDraft(u) ==
    LET s == session[u]
    IN /\ s.tmdb # "none" /\ ~(s.require /\ s.title = "none")
       /\ drafts' = drafts + 1
       /\ session' = [session EXCEPT ![u] = [s EXCEPT !.draft = drafts + 1, !.step = "confirm"]]

\* An option of the list; those of old messages do not look at the step.
HandleQuickSelect(u) ==
    /\ Input /\ BuildDraft(u) /\ Asked(u)
    /\ UNCHANGED <<hand, issues, nextID, admins, together, told, settled, faults, restarts>>

\* handleConfirm reads the draft, and asks TMDB for the title.
HandleConfirm(t, u) ==
    /\ hand[t].pc = "idle" /\ Input
    /\ session[u].step = "confirm" /\ session[u].draft # 0 /\ session[u].tmdb # "none"
    /\ hand' = [hand EXCEPT ![t] = [pc |-> "create", user |-> u, draft |-> session[u].draft,
                                   gone |-> FALSE]]
    /\ together' = IF \E v \in Taps : hand[v].pc # "idle" /\ hand[v].draft = session[u].draft
                   THEN together \cup {session[u].draft} ELSE together
    /\ UNCHANGED <<session, issues, nextID, admins, drafts, free, told, settled, faults, restarts>>

\* When it cannot be written, neither the issue nor its number was used.
CreateIssue(t) ==
    /\ hand[t].pc = "create" /\ nextID \in Numbers
    /\ LET new == [status |-> "open", owner |-> hand[t].user, draft |-> hand[t].draft, replies |-> {}]
       IN \/ /\ Saved([issues["memory"] EXCEPT ![nextID] = new])
             /\ nextID' = nextID + 1
             /\ told' = told \cup {nextID}
             /\ hand' = [hand EXCEPT ![t].pc = "clear"]
          \/ Fault /\ hand' = [hand EXCEPT ![t] = Idle] /\ UNCHANGED <<issues, nextID, told>>
    /\ UNCHANGED <<session, admins, drafts, together, free, settled, inputs, restarts>>

\* The draft of the session, whichever it is by now.
ClearFeedbackDraft(s) == WithoutDraft(s)

Submitted(t) ==
    /\ hand[t].pc = "clear"
    /\ session' = IF hand[t].gone THEN session
                  ELSE [session EXCEPT ![hand[t].user] = ClearFeedbackDraft(@)]
    /\ hand' = [hand EXCEPT ![t] = Idle]
    /\ UNCHANGED <<issues, nextID, admins, history, bounds>>

CancelHandler(u) == Turns(u, WithoutDraft(session[u]))

\* The home button leaves all other questions as they are.
HomeButton(u) == Turns(u, WithoutDraft(session[u]))
-----------------------------------------------------------------------------
(***************************************************************************)
(* The owner of an issue.                                                  *)
(***************************************************************************)
\* The list, and StopFollowUp.
HandleViewList(u) == Turns(u, [session[u] EXCEPT !.talk = 0])

HandleViewDetail(u, i) ==
    /\ Exists(i) /\ issues["memory"][i].owner = u
    /\ LET talks == issues["memory"][i].status # "closed" /\ "admin" \in issues["memory"][i].replies
       IN Turns(u, [session[u] EXCEPT !.talk = IF talks THEN i ELSE 0])

\* It stays closed in memory when it could not be written, though the owner is told otherwise.
CloseByUser(u, i) ==
    /\ Exists(i) /\ issues["memory"][i].owner = u /\ Input
    /\ \/ /\ Saved(SetStatus(i, "closed"))
          /\ session' = [session EXCEPT ![u].talk = 0] /\ settled' = settled \cup {i}
       \/ Unsaved(SetStatus(i, "closed")) /\ UNCHANGED <<session, settled>>
    /\ Asked(u)
    /\ UNCHANGED <<hand, nextID, admins, drafts, together, told, restarts>>

\* RateSatisfaction and UpdatePriority: the rest of what memory holds is written too.
Touch(u, i) ==
    /\ Exists(i) /\ Input
    /\ issues["memory"][i].owner = u \/ IsAdmin(u)
    /\ Kept(issues["memory"])
    /\ UNCHANGED <<session, hand, nextID, admins, history, restarts>>
-----------------------------------------------------------------------------
(***************************************************************************)
(* Administrators.                                                         *)
(***************************************************************************)
Replied(issue, kind) ==
    [issue EXCEPT !.replies = @ \cup {kind}, !.status = IF @ = "open" THEN "reply" ELSE @]

\* The panel of feedback asks before it looks whether the issue exists.
HandleFeedbackReply(a, i) == IsAdmin(a) /\ Turns(a, [session[a] EXCEPT !.feedback = i])
HandleIssueReply(a, i)    == IsAdmin(a) /\ Turns(a, [session[a] EXCEPT !.issue = i])
HandleNotifCustomTime(a)  == IsAdmin(a) /\ Turns(a, [session[a] EXCEPT !.asks = @ \cup {"time"}])
HandleAdminAddStart(a)    == a = Root /\ Turns(a, [session[a] EXCEPT !.asks = @ \cup {"admin"}])

\* A ready-made answer; the next text of the owner is a word on the issue.
HandleFeedbackTemplate(a, i) ==
    /\ IsAdmin(a) /\ Exists(i) /\ Input
    /\ LET owner == issues["memory"][i].owner
           answered == With(i, Replied(issues["memory"][i], "admin"))
       IN \/ /\ Saved(answered)
             /\ session' = IF owner = a THEN session ELSE [session EXCEPT ![owner].talk = i]
             /\ Asked(owner)
          \/ Unsaved(answered) /\ UNCHANGED <<session, free>>
    /\ UNCHANGED <<hand, nextID, admins, drafts, together, told, settled, restarts>>

\* Fault: the status that could not be written stays in memory.
StaysChanged(i, status) == SetStatus(i, status)

\* What is in memory after the status could not be written: what was there before.
PreviousStatus(i, status) == issues["memory"]

\* Fixed, processing, or closed by an administrator; then the owner is told.
UpdateStatusWithNotify(a, i, status) ==
    /\ IsAdmin(a) /\ Exists(i) /\ Input
    /\ \/ /\ Saved(SetStatus(i, status))
          /\ settled' = IF status = "processing" THEN settled \ {i} ELSE settled \cup {i}
       \/ Unsaved(PreviousStatus(i, status)) /\ UNCHANGED settled
    /\ UNCHANGED <<session, hand, nextID, admins, drafts, together, free, told, restarts>>

HandleAdminRemoveConfirm(a) ==
    /\ Input /\ a \in admins["memory"] \ {Root}
    /\ LET rest == admins["memory"] \ {a}
       IN \/ NoFault /\ admins' = [x \in Stores |-> rest]
          \/ Fault /\ admins' = [admins EXCEPT !["memory"] = rest]
    /\ UNCHANGED <<session, hand, issues, nextID, history, restarts>>
-----------------------------------------------------------------------------
(***************************************************************************)
(* A text.  The first question in this order takes it.                     *)
(***************************************************************************)
\* Fault: the answers of administrators are forgotten.
ClearsDraftAndTalk(s) == [WithoutDraft(s) EXCEPT !.talk = 0, !.asks = {}]

ClearPendingInputStates(s) ==
    [WithoutDraft(s) EXCEPT !.talk = 0, !.asks = {}, !.feedback = 0, !.issue = 0]

Command(u) ==
    /\ Input
    /\ session' = [session EXCEPT ![u] = ClearPendingInputStates(@)]
    /\ free' = free \cup {u}
    /\ UNCHANGED <<hand, issues, nextID, admins, drafts, together, told, settled, faults, restarts>>

\* IsInFeedbackProcess.  A draft that waits to be confirmed swallows the text.
Describing(u) == session[u].step \in {"media_title", "description", "confirm"}

HandleFeedbackText(u) ==
    \/ /\ session[u].step = "media_title" /\ UNCHANGED drafts
       /\ session' = [session EXCEPT ![u].title = "some", ![u].step = "description"]
    \/ session[u].step = "description" /\ BuildDraft(u)

Talking(u) == ~Describing(u) /\ session[u].talk # 0

AddsReply(i, kind) ==
    IF Exists(i) THEN Kept(With(i, Replied(issues["memory"][i], kind))) ELSE NoFault /\ UNCHANGED issues

\* A word on the user's own issue, closed or not.
HandleUserFollowUp(u) ==
    LET i == session[u].talk
    IN IF Exists(i) /\ issues["memory"][i].owner = u
       THEN AddsReply(i, "user") /\ UNCHANGED session
       ELSE NoFault /\ UNCHANGED issues /\ session' = [session EXCEPT ![u].talk = 0]

Questions(u) == ~Describing(u) /\ ~Talking(u)

\* A user to be made an administrator, forwarded or by number.
HandleAdminAddMessage(u) ==
    /\ session' = [session EXCEPT ![u].asks = @ \ {"admin"}]
    /\ \E new \in Users :
          IF new \in admins["memory"] THEN NoFault /\ UNCHANGED admins
          ELSE LET all == admins["memory"] \cup {new}
               IN \/ NoFault /\ admins' = [x \in Stores |-> all]
                  \/ Fault /\ admins' = [admins EXCEPT !["memory"] = all]

\* Whatever the text says, the time is asked for once.
HandleNotifCustomTimeInput(u) == session' = [session EXCEPT ![u].asks = @ \ {"time"}]

HandleAdminPendingReplyText(u) ==
    IF session[u].feedback # 0
    THEN session' = [session EXCEPT ![u].feedback = 0] /\ AddsReply(session[u].feedback, "admin")
    ELSE session' = [session EXCEPT ![u].issue = 0] /\ AddsReply(session[u].issue, "admin")

Text(u) ==
    /\ Input
    /\ \/ /\ Describing(u) /\ HandleFeedbackText(u) /\ NoFault /\ UNCHANGED <<issues, admins>>
       \/ /\ Talking(u) /\ HandleUserFollowUp(u) /\ UNCHANGED <<admins, drafts>>
       \/ /\ Questions(u) /\ UNCHANGED drafts
          /\ LET s == session[u]
             IN \/ /\ "admin" \in s.asks
                   /\ HandleAdminAddMessage(u) /\ UNCHANGED issues
                \/ /\ s.asks = {"time"}
                   /\ HandleNotifCustomTimeInput(u) /\ NoFault /\ UNCHANGED <<issues, admins>>
                \/ /\ s.asks = {} /\ s.feedback + s.issue > 0
                   /\ HandleAdminPendingReplyText(u) /\ UNCHANGED admins
    /\ UNCHANGED <<hand, nextID, together, free, told, settled, restarts>>
-----------------------------------------------------------------------------
(***************************************************************************)
(* The session ends, old issues are removed, the program is restarted.     *)
(***************************************************************************)
\* Cleanup and eviction; a handler at work keeps the session that is gone.
Expire(u) ==
    /\ session[u] # NewSession
    /\ session' = [session EXCEPT ![u] = NewSession]
    /\ hand' = [t \in Taps |-> IF hand[t].pc # "idle" /\ hand[t].user = u
                               THEN [hand[t] EXCEPT !.gone = TRUE] ELSE hand[t]]
    /\ UNCHANGED <<issues, nextID, admins, history, bounds>>

\* Ages are left out: any issue that is done may be old.
CleanupOldIssues(i) ==
    /\ issues["memory"][i].status \in {"fixed", "closed"}
    /\ Kept([issues["memory"] EXCEPT ![i] = Unused])
    /\ told' = told \ {i} /\ settled' = settled \ {i}
    /\ UNCHANGED <<session, hand, nextID, admins, drafts, together, free, inputs, restarts>>

\* load(): the number after the highest one.
Loaded == LET used == {i \in Numbers : issues["file"][i].status # "none"}
          IN CHOOSE n \in 1..MaxIssues + 1 : (\A i \in used : i < n) /\ (n = 1 \/ n - 1 \in used)

Restart ==
    /\ restarts < MaxRestarts /\ restarts' = restarts + 1
    /\ session' = [u \in Users |-> NewSession]
    /\ hand' = [t \in Taps |-> Idle]
    /\ issues' = [x \in Stores |-> issues["file"]]
    /\ nextID' = Loaded
    /\ admins' = [x \in Stores |-> admins["file"]]
    /\ UNCHANGED <<history, inputs, faults>>

Reports(u) ==
    \/ HandleStart(u) \/ ScopeMedia(u) \/ ScopeGeneral(u) \/ HandleTypeSelect(u)
    \/ HandleQuickSelect(u) \/ CancelHandler(u) \/ HomeButton(u) \/ HandleViewList(u)
    \/ Command(u) \/ Text(u)
    \/ \E t \in Taps : HandleConfirm(t, u)
    \/ \E i \in Numbers : HandleViewDetail(u, i) \/ CloseByUser(u, i) \/ Touch(u, i)

Administers(a) ==
    \/ HandleNotifCustomTime(a) \/ HandleAdminAddStart(a) \/ HandleAdminRemoveConfirm(a)
    \/ \E i \in Numbers :
          \/ HandleFeedbackReply(a, i) \/ HandleIssueReply(a, i) \/ HandleFeedbackTemplate(a, i)
          \/ \E status \in {"processing", "fixed", "closed"} : UpdateStatusWithNotify(a, i, status)

Next ==
    \/ \E u \in Users : Reports(u) \/ Administers(u) \/ Expire(u)
    \/ \E t \in Taps : CreateIssue(t) \/ Submitted(t)
    \/ \E i \in Numbers : CleanupOldIssues(i)
    \/ Restart

Spec == Init /\ [][Next]_vars
-----------------------------------------------------------------------------
(***************************************************************************)
(* Properties.                                                             *)
(***************************************************************************)
\* A draft becomes one issue: a tap on a button of a draft that was submitted is
\* acknowledged and creates nothing (handleConfirm).  Two taps that are handled
\* together are the exception, since nothing is locked between reading the step
\* and deleting it.
SubmittedOnce ==
    \A i, j \in Numbers :
        LET m == issues["memory"]
        IN i # j /\ m[i].draft = m[j].draft /\ m[i].draft # 0 => m[i].draft \in together

\* What the owner of an issue was told survives a restart: its number, and that
\* it is done, until an administrator takes it up again.  A status that could
\* not be written is not left in memory for the next write to bring out.
AnnouncedKept ==
    /\ \A i \in told : issues["file"][i].status # "none"
    /\ \A i \in settled : issues["file"][i].status \in {"fixed", "closed"}

\* A command gets the user out of every question: until he, or an answer to his
\* issue, opens another, his texts are searches (clearPendingInputStates).
CommandEscapes == \A u \in free : ~Pending(u)

\* What a user reports is filed once, stays what the user was told it is, and is
\* never made of what was typed after a command.
IssuesKept == SubmittedOnce /\ AnnouncedKept /\ CommandEscapes
=============================================================================
