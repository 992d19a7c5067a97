------------------------------ MODULE DailySummary ------------------------------
(***************************************************************************)
(* The summary of yesterday's arrivals, for the group and for every        *)
(* administrator who wants it.                                             *)
(*                                                                         *)
(* Every minute the service looks whether the configured time has come and *)
(* who has not had the report of yesterday; it lets go of its lock while   *)
(* it asks MoviePilot and sends.  Which day an administrator and the group *)
(* had last is kept in a file, written after the fact.                     *)
(***************************************************************************)
EXTENDS Integers, FiniteSets

CONSTANTS
    Admins,
    MaxDay,        \* bound on days
    MaxFaults,     \* bound on failing calls, lost answers and failing writes
    MaxRestarts

VARIABLES
    today,      \* the day, and whether the configured time has come
    files,      \* files that MoviePilot transferred on each day
    enabled,    \* DailySummaryEnabled of each administrator, in memory and in the file
    sent,       \* lastSummarySent and groupSummarySent, in memory and in the file
    check,      \* checkAndSendDailySummaries
    received,   \* history: summaries of each day each chat got
    doubtful,   \* history: days whose summary was sent while nothing kept says so
    faults, restarts

vars == <<today, files, enabled, sent, check, received, doubtful, faults, restarts>>

Stores == {"memory", "file"}
Days   == 1..MaxDay
Never  == 0
Group  == "group"
Chats  == Admins \cup {Group}

Idle == [pc |-> "idle", report |-> Never, wanted |-> {}, admin |-> Group,
         withGroup |-> FALSE, groupSent |-> FALSE]

TypeOK ==
    /\ today \in [day : Days, due : BOOLEAN]
    /\ files \in [Days -> 0..1]
    /\ enabled \in [Stores -> SUBSET Admins]
    /\ sent \in [Stores -> [Chats -> Days \cup {Never}]]
    /\ check \in [pc : {"idle", "pick", "history", "group", "admin", "save"}, report : Days \cup {Never},
                  wanted : SUBSET Admins, admin : Chats, withGroup : BOOLEAN, groupSent : BOOLEAN]
    /\ received \in [Chats -> [Days -> Nat]]
    /\ doubtful \subseteq Days
    /\ faults \in 0..MaxFaults /\ restarts \in 0..MaxRestarts

Init ==
    /\ today = [day |-> 1, due |-> FALSE]
    /\ files \in [Days -> 0..1]
    /\ enabled = [x \in Stores |-> {}]
    /\ sent = [x \in Stores |-> [c \in Chats |-> Never]]
    /\ check = Idle
    /\ received = [c \in Chats |-> [d \in Days |-> 0]]
    /\ doubtful = {}
    /\ faults = 0 /\ restarts = 0

Fault   == faults < MaxFaults /\ faults' = faults + 1
NoFault == UNCHANGED faults

\* save writes the settings and the marks together; the marks are lost with a failed write only
\* if the program stops before the next one.
Save(settings, marks) ==
    \/ /\ enabled' = [x \in Stores |-> settings] /\ sent' = [x \in Stores |-> marks] /\ NoFault
    \/ /\ enabled' = [enabled EXCEPT !["memory"] = settings]
       /\ sent' = [sent EXCEPT !["memory"] = marks] /\ Fault
-----------------------------------------------------------------------------
NextDay ==
    /\ today.day < MaxDay
    /\ today' = [day |-> today.day + 1, due |-> FALSE]
    /\ UNCHANGED <<files, enabled, sent, check, received, doubtful, faults, restarts>>

TimeComes ==
    /\ ~today.due /\ today' = [today EXCEPT !.due = TRUE]
    /\ UNCHANGED <<files, enabled, sent, check, received, doubtful, faults, restarts>>

SetDailySummaryEnabled(a) ==
    /\ LET e == enabled["memory"]
       IN Save(IF a \in e THEN e \ {a} ELSE e \cup {a}, sent["memory"])
    /\ UNCHANGED <<today, files, check, received, doubtful, restarts>>

\* checkAndSendDailySummaries works with one view of the time and of the settings.
CheckAndSendDailySummaries ==
    /\ check.pc = "idle" /\ today.day > 1 /\ today.due
    /\ check' = [Idle EXCEPT !.pc = "pick", !.report = today.day - 1, !.wanted = enabled["memory"]]
    /\ UNCHANGED <<today, files, enabled, sent, received, doubtful, faults, restarts>>

DailySummaryDue(a) == sent["memory"][a] # check.report

Pick ==
    /\ check.pc = "pick"
    /\ \/ \E a \in check.wanted :
             check' = IF DailySummaryDue(a)
                      THEN [check EXCEPT !.pc = "history", !.wanted = @ \ {a}, !.admin = a,
                                         !.withGroup = sent["memory"][Group] # check.report,
                                         !.groupSent = FALSE]
                      ELSE [check EXCEPT !.wanted = @ \ {a}]
       \/ check.wanted = {} /\ check' = Idle
    /\ UNCHANGED <<today, files, enabled, sent, received, doubtful, faults, restarts>>

\* Fault: the group's mark waits for the administrator's.
MarkGroupWithAdmin == check' = [check EXCEPT !.pc = "pick", !.groupSent = FALSE] /\ UNCHANGED sent

\* What remains of a report that could not be sent to the administrator: the group's mark, saved
\* at once.
MarkGroup ==
    IF check.groupSent
    THEN /\ sent' = [sent EXCEPT !["memory"][Group] = check.report]
         /\ check' = [check EXCEPT !.pc = "save", !.groupSent = FALSE]
    ELSE /\ check' = [check EXCEPT !.pc = "pick"] /\ UNCHANGED sent

Marked ==
    /\ sent' = [sent EXCEPT !["memory"][check.admin] = check.report,
                            !["memory"][Group] = IF check.groupSent THEN check.report ELSE @]
    /\ check' = [check EXCEPT !.pc = "save", !.groupSent = FALSE]

\* GetSuccessfulTransferHistory and SummarizeTransferHistory; a day without files is done with.
History ==
    /\ check.pc = "history"
    /\ \/ Fault /\ check' = [check EXCEPT !.pc = "pick"] /\ UNCHANGED sent
       \/ /\ files[check.report] = 0 /\ NoFault /\ Marked
       \/ /\ files[check.report] > 0 /\ NoFault
          /\ check' = [check EXCEPT !.pc = IF check.withGroup THEN "group" ELSE "admin"]
          /\ UNCHANGED sent
    /\ UNCHANGED <<today, files, enabled, received, doubtful, restarts>>

Gets(c) == received' = [received EXCEPT ![c][check.report] = @ + 1]

SendToGroup ==
    /\ check.pc = "group"
    /\ \/ /\ Gets(Group) /\ check' = [check EXCEPT !.pc = "admin", !.groupSent = TRUE]
          /\ UNCHANGED doubtful /\ NoFault
       \/ /\ Fault /\ check' = [check EXCEPT !.pc = "pick"]
          /\ \/ UNCHANGED <<received, doubtful>>
             \/ Gets(Group) /\ doubtful' = doubtful \cup {check.report}
    /\ UNCHANGED <<today, files, enabled, sent, restarts>>

SendToAdmin ==
    /\ check.pc = "admin"
    /\ \/ Gets(check.admin) /\ Marked /\ UNCHANGED doubtful /\ NoFault
       \/ /\ Fault /\ MarkGroup
          /\ \/ UNCHANGED <<received, doubtful>>
             \/ Gets(check.admin) /\ doubtful' = doubtful \cup {check.report}
    /\ UNCHANGED <<today, files, enabled, restarts>>

SaveMarks ==
    /\ check.pc = "save"
    /\ Save(enabled["memory"], sent["memory"])
    /\ check' = [check EXCEPT !.pc = "pick"]
    /\ UNCHANGED <<today, files, received, doubtful, restarts>>

\* load.  What was sent and is not in the file will be sent again.
Restart ==
    /\ restarts < MaxRestarts /\ restarts' = restarts + 1
    /\ enabled' = [enabled EXCEPT !["memory"] = enabled["file"]]
    /\ sent' = [sent EXCEPT !["memory"] = sent["file"]]
    /\ doubtful' = doubtful \cup {sent["memory"][c] : c \in {c \in Chats : sent["memory"][c] # sent["file"][c]}}
                            \cup (IF check.groupSent THEN {check.report} ELSE {})
    /\ check' = Idle
    /\ UNCHANGED <<today, files, received, faults>>

Next ==
    \/ NextDay \/ TimeComes
    \/ \E a \in Admins : SetDailySummaryEnabled(a)
    \/ CheckAndSendDailySummaries \/ Pick \/ History \/ SendToGroup \/ SendToAdmin \/ SaveMarks
    \/ Restart

Spec == Init /\ [][Next]_vars
-----------------------------------------------------------------------------
\* The group and every administrator get the summary of a day once, however many administrators
\* want it, whichever sends fail and whenever settings change; only a send that nothing kept
\* knows of is repeated.  And a day with files is marked for a chat only when the chat got it.
SummaryOnce ==
    \A c \in Chats :
        /\ \A d \in Days \ doubtful : received[c][d] <= 1
        /\ LET d == sent["memory"][c]
           IN d # Never /\ files[d] > 0 => received[c][d] > 0
=============================================================================
