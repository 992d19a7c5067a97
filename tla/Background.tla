------------------------------ MODULE Background ------------------------------
(***************************************************************************)
(* The background routines and the client of MoviePilot, side by side:     *)
(* each behaviour watches one of them.  They share no state here, so that  *)
(* their interleavings show nothing that each does not show by itself;     *)
(* what counts faults and restarts is the same for all.                    *)
(***************************************************************************)
EXTENDS Integers, FiniteSets

CONSTANTS
    Faults, Restarts,         \* bounds of each part on what fails, and on restarts
    MaxDays,                  \* bounds on the days of the parts that keep a calendar
    Admins,                   \* who gets the summary of a day
    Users,                    \* who may get digests
    Week,                     \* days of a week
    MaxSeason,                \* bound on the seasons of the show of the radar
    Subscriptions, States,    \* of MoviePilot, and the states its owners hear of
    MaxRevision,              \* bound on the updates of one subscription
    Handlers, Keys,           \* handlers of the preferences, and the switches they change
    Calls, Readers,           \* calls of RequestMedia, and readers of the subscriptions
    MaxAttempts, MaxFires,    \* bounds on the attempts of a call and on searches
    Watched, Replies,         \* requests that are followed up, and the answers to a reminder
    FollowupDelay, OverdueDelay, Retention, CompletedRetention,   \* days of the reminders
    Unknown

VARIABLES
    part, faults, restarts,
    today, files, wanting, sent, check, received, daysInDoubt,
    clock, daily, weekly, reports, bound, active, muted, got, digestsInDoubt,
    aired, enabled, known, track, scan, seasonsTold, settled, seasonsInDoubt,
    updates, signal, worker, silent, statesTold, waived, statesInDoubt,
    prefs, handler, mu, persistMu, failed,
    stage, attempts, made, cancelled, listCache, warming, statusCache, fetched, search, triggers,
    firing, owed,
    day, ledger, quiet, pass, answers, asked, tried, reported, remindersInDoubt

Parts == {"summary", "schedules", "radar", "outbox", "preferences", "client", "reminders"}

\* A week has seven days, and two where one day that is not its Monday will do.  A request is
\* kept until its follow-up is due, at least.
ASSUME ConstantsOK ==
    /\ Faults \in [Parts -> Nat] /\ Restarts \in [Parts -> Nat]
    /\ MaxDays \in [{"summary", "schedules", "reminders"} -> Nat \ {0}]
    /\ "group" \notin Admins
    /\ Week \in {2, 7}
    /\ MaxSeason \in Nat \ {0} /\ MaxRevision \in Nat \ {0}
    /\ FollowupDelay \in Nat \ {0} /\ OverdueDelay \in Nat /\ Retention \in Nat
    /\ CompletedRetention \in Nat /\ FollowupDelay <= CompletedRetention + 1

Summary == INSTANCE DailySummary
           WITH MaxDay <- MaxDays["summary"], MaxFaults <- Faults["summary"],
                MaxRestarts <- Restarts["summary"], enabled <- wanting, doubtful <- daysInDoubt
Digests == INSTANCE Schedules
           WITH MaxDay <- MaxDays["schedules"], MaxFaults <- Faults["schedules"],
                MaxRestarts <- Restarts["schedules"], doubtful <- digestsInDoubt
Radar   == INSTANCE SeasonRadar
           WITH MaxFaults <- Faults["radar"], MaxRestarts <- Restarts["radar"],
                told <- seasonsTold, doubtful <- seasonsInDoubt
Status  == INSTANCE Outbox
           WITH Requests <- Subscriptions, MaxFaults <- Faults["outbox"],
                told <- statesTold, doubtful <- statesInDoubt
Choices == INSTANCE Preferences
           WITH MaxFaults <- Faults["preferences"], MaxRestarts <- Restarts["preferences"]
Client  == INSTANCE MoviePilotClient WITH MaxFaults <- Faults["client"]
Reminder == INSTANCE Reminders
            WITH Requests <- Watched, MaxDay <- MaxDays["reminders"], MaxFaults <- Faults["reminders"],
                 MaxRestarts <- Restarts["reminders"], muted <- quiet, doubtful <- remindersInDoubt

summaryVars == <<today, files, wanting, sent, check, received, daysInDoubt>>
digestVars  == <<clock, daily, weekly, reports, bound, active, muted, got, digestsInDoubt>>
radarVars   == <<aired, enabled, known, track, scan, seasonsTold, settled, seasonsInDoubt>>
statusVars  == <<updates, signal, worker, silent, statesTold, waived, statesInDoubt>>
choiceVars  == <<prefs, handler, mu, persistMu, failed>>
clientVars  == <<stage, attempts, made, cancelled, listCache, warming, statusCache, fetched, search,
                 triggers, firing, owed>>
reminderVars == <<day, ledger, quiet, pass, answers, asked, tried, reported, remindersInDoubt>>
vars == <<part, faults, restarts, summaryVars, digestVars, radarVars, statusVars, choiceVars, clientVars,
          reminderVars>>

\* What a part leaves open initially is open when it is the one watched.
Init ==
    /\ part \in Parts
    /\ Summary!Init /\ Digests!Init /\ Radar!Init /\ Status!Init /\ Choices!Init /\ Client!Init
    /\ Reminder!Init
    /\ part # "summary" => \A d \in DOMAIN files : files[d] = 0
    /\ part # "schedules" => clock = 1
    /\ part # "radar" => aired = 0

SummaryStep ==
    /\ part = "summary" /\ Summary!Next
    /\ UNCHANGED <<part, digestVars, radarVars, statusVars, choiceVars, clientVars, reminderVars>>
DigestStep ==
    /\ part = "schedules" /\ Digests!Next
    /\ UNCHANGED <<part, summaryVars, radarVars, statusVars, choiceVars, clientVars, reminderVars>>
RadarStep ==
    /\ part = "radar" /\ Radar!Next
    /\ UNCHANGED <<part, summaryVars, digestVars, statusVars, choiceVars, clientVars, reminderVars>>
StatusStep ==
    /\ part = "outbox" /\ Status!Next
    /\ UNCHANGED <<part, restarts, summaryVars, digestVars, radarVars, choiceVars, clientVars, reminderVars>>
ChoiceStep ==
    /\ part = "preferences" /\ Choices!Next
    /\ UNCHANGED <<part, summaryVars, digestVars, radarVars, statusVars, clientVars, reminderVars>>
ClientStep ==
    /\ part = "client" /\ Client!Next
    /\ UNCHANGED <<part, restarts, summaryVars, digestVars, radarVars, statusVars, choiceVars, reminderVars>>

ReminderStep ==
    /\ part = "reminders" /\ Reminder!Next
    /\ UNCHANGED <<part, summaryVars, digestVars, radarVars, statusVars, choiceVars, clientVars>>

Next == SummaryStep \/ DigestStep \/ RadarStep \/ StatusStep \/ ChoiceStep \/ ClientStep
        \/ ReminderStep
Spec == Init /\ [][Next]_vars

\* The group and every administrator get the summary of a day once, and no day is marked for whom
\* it was not sent to.
SummaryOnce == Summary!SummaryOnce

\* Nobody gets the digest of a day or of a week twice, whenever the program was started.
DigestOnce == Digests!DigestOnce

\* The user of the radar misses no season, and hears of each once.
NoSeasonSkipped == Radar!NoSeasonSkipped

\* The newest state of a subscription is the one its owner is told, once.
NewestIsTold == Status!NewestIsTold

\* The file of the preferences follows the order of the changes.
FileFollows == Choices!FileFollows

\* A title is not followed twice, and what was created is on its way to be searched for.
FollowedAndSearched == Client!FollowedAndSearched

\* A reminder comes once, and before what it is about is forgotten.
RemindersKept == Reminder!RemindersKept
=============================================================================
