------------------------------- MODULE Schedules -------------------------------
(***************************************************************************)
(* The two clocks of the digests: the daily recommendation at nine, and    *)
(* the weekly report.                                                      *)
(*                                                                         *)
(* Time is counted in parts of a day: the night before nine, the morning   *)
(* until three and the evening until midnight; nine hours later is the     *)
(* morning or the evening for the night, the evening for the morning, and  *)
(* the next night for the evening.                                         *)
(***************************************************************************)
EXTENDS Integers, FiniteSets

CONSTANTS
    Users,
    Week,          \* days of a week; it begins on a Monday, and so does day 0
    MaxDay,        \* bound on days
    MaxFaults,     \* bound on failing sends and lost answers
    MaxRestarts

VARIABLES
    clock,      \* the time
    daily,      \* the loop of the Scheduler: its next run, and whom the present one still has to reach
    weekly,     \* weeklyRoutine: its next tick, and whom the present one still has to reach
    reports,    \* the report of each user for this week, and whether an older one was never sent,
                \* in memory and in the file
    bound,      \* users of the account mapping
    active,     \* users who searched or asked for something this week
    muted,      \* users who turned both digests off
    got,        \* history: how often each user got the digest of this day and of this week
    doubtful,   \* history: those of them sent again because an answer was lost
    faults, restarts

vars == <<clock, daily, weekly, reports, bound, active, muted, got, doubtful, faults, restarts>>

Night   == 0
Morning == 1
Evening == 2
Times == 0..(3 * MaxDay + 2)
Day(t)  == t \div 3
Part(t) == t % 3
WeekOf(t) == Day(t) \div Week
Digests == {"daily", "weekly"}
Stores  == {"memory", "file"}
NoReport == [u \in Users |-> [now |-> "none", older |-> FALSE]]

TypeOK ==
    /\ clock \in Times
    /\ daily \in [at : Nat, to : SUBSET Users] /\ weekly \in [at : Nat, to : SUBSET Users]
    /\ reports \in [Stores -> [Users -> [now : {"none", "unsent", "sent"}, older : BOOLEAN]]]
    /\ bound \subseteq Users /\ active \subseteq Users /\ muted \subseteq Users
    /\ got \in [Users \X Digests -> Nat]
    /\ doubtful \subseteq Users \X Digests
    /\ faults \in 0..MaxFaults /\ restarts \in 0..MaxRestarts
-----------------------------------------------------------------------------
(* When the loops wake *)

\* Fault: the hour of today, though it has come.
NextRunToday(t) == 3 * Day(t) + Morning

\* Today at nine, or tomorrow when nine has come.
NextDailyRun(t) == IF Part(t) < Morning THEN 3 * Day(t) + Morning ELSE 3 * (Day(t) + 1) + Morning

NextWeekday(t) == t + 3 * (Week - (Day(t) % Week))

NineHoursLater(t) == IF Part(t) = Night THEN {t + 1, t + 2} ELSE {t + 1}

EveryDay  == 3
EveryWeek == 3 * Week

\* weeklyRoutine sleeps until nine hours after this time of day of the next Monday; the ticker
\* it starts then has its first tick one period later.
FirstTick(t) == {x + EveryWeek : x \in NineHoursLater(NextWeekday(t))}

Boot(t) ==
    /\ daily' = [at |-> NextDailyRun(t), to |-> {}]
    /\ \E x \in FirstTick(t) : weekly' = [at |-> x, to |-> {}]

Init ==
    /\ clock \in 0..(3 * Week - 1)
    /\ daily = [at |-> NextDailyRun(clock), to |-> {}]
    /\ weekly \in [at : FirstTick(clock), to : {{}}]
    /\ reports = [x \in Stores |-> NoReport]
    /\ bound = {} /\ active = {} /\ muted = {}
    /\ got = [k \in Users \X Digests |-> 0]
    /\ doubtful = {}
    /\ faults = 0 /\ restarts = 0
-----------------------------------------------------------------------------
\* Time does not pass the moment a loop wakes, and a round of sends lasts into the next part of
\* the day at most.
Pass ==
    /\ clock + 1 \in Times /\ clock' = clock + 1
    /\ daily.at <= clock => daily.to # {} /\ clock = daily.at
    /\ weekly.at > clock
    /\ weekly.to # {} => clock = weekly.at - EveryWeek
    /\ LET newDay  == Day(clock') # Day(clock)
           newWeek == WeekOf(clock') # WeekOf(clock)
           over    == {d \in Digests : (newDay /\ d = "daily") \/ (newWeek /\ d = "weekly")}
       IN /\ active' = IF newWeek THEN {} ELSE active
          /\ got' = [k \in Users \X Digests |-> IF k[2] \in over THEN 0 ELSE got[k]]
          /\ doubtful' = doubtful \ (Users \X over)
          /\ reports' = IF ~newWeek THEN reports
                        ELSE [x \in Stores |-> [u \in Users |->
                               [now |-> "none", older |-> reports[x][u].older \/ reports[x][u].now = "unsent"]]]
    /\ UNCHANGED <<daily, weekly, bound, muted, faults, restarts>>

Binds(u) ==
    /\ bound' = IF u \in bound THEN bound \ {u} ELSE bound \cup {u}
    /\ UNCHANGED <<clock, daily, weekly, reports, active, muted, got, doubtful, faults, restarts>>

Searches(u) ==
    /\ u \notin active /\ active' = active \cup {u}
    /\ UNCHANGED <<clock, daily, weekly, reports, bound, muted, got, doubtful, faults, restarts>>

Mutes(u) ==
    /\ muted' = IF u \in muted THEN muted \ {u} ELSE muted \cup {u}
    /\ UNCHANGED <<clock, daily, weekly, reports, bound, active, got, doubtful, faults, restarts>>

\* A send that fails is followed by one of the plain text, which may fail in its turn.
Deliver(u, d) ==
    \/ got' = [got EXCEPT ![<<u, d>>] = @ + 1] /\ UNCHANGED <<doubtful, faults>>
    \/ /\ faults < MaxFaults /\ faults' = faults + 1
       /\ \/ UNCHANGED <<got, doubtful>>
          \/ /\ got' = [got EXCEPT ![<<u, d>>] = @ + 2]
             /\ doubtful' = doubtful \cup {<<u, d>>}
-----------------------------------------------------------------------------
(* The daily recommendation *)

Wakes(loop) == loop.at <= clock /\ loop.to = {}

\* Without anything to recommend, or anyone to send it to, the run is over.
SendDailyRecommendations ==
    /\ Wakes(daily)
    /\ daily' = IF bound = {} THEN [daily EXCEPT !.at = NextDailyRun(clock)]
                ELSE [daily EXCEPT !.to = bound]
    /\ UNCHANGED <<clock, weekly, reports, bound, active, muted, got, doubtful, faults, restarts>>

NothingTrending ==
    /\ Wakes(daily) /\ faults < MaxFaults /\ faults' = faults + 1
    /\ daily' = [daily EXCEPT !.at = NextDailyRun(clock)]
    /\ UNCHANGED <<clock, weekly, reports, bound, active, muted, got, doubtful, restarts>>

SendDailyRecommendation(u) ==
    /\ u \in daily.to
    /\ daily' = IF daily.to = {u} THEN [at |-> NextDailyRun(clock), to |-> {}]
                ELSE [daily EXCEPT !.to = @ \ {u}]
    /\ IF u \in muted THEN UNCHANGED <<got, doubtful, faults>>
       ELSE Deliver(u, "daily")
    /\ UNCHANGED <<clock, weekly, reports, bound, active, muted, restarts>>
-----------------------------------------------------------------------------
(* The weekly report *)

Generated(u) ==
    IF reports["memory"][u].now = "none" THEN [reports EXCEPT !["memory"][u].now = "unsent"] ELSE reports

\* HandleWeeklyReport: the report of the week so far, made once.
HandleWeeklyReport(u) ==
    /\ reports["memory"][u].now = "none"
    /\ reports' = Generated(u)
    /\ UNCHANGED <<clock, daily, weekly, bound, active, muted, got, doubtful, faults, restarts>>

CollectWeeklyReportUsers ==
    bound \cup active
    \cup {u \in Users : reports["memory"][u].now = "unsent" \/ reports["memory"][u].older}

SendWeeklyReports ==
    /\ Wakes(weekly)
    /\ weekly' = [at |-> weekly.at + EveryWeek, to |-> CollectWeeklyReportUsers]
    /\ UNCHANGED <<clock, daily, reports, bound, active, muted, got, doubtful, faults, restarts>>

\* SendReport marks the report as sent, and does not look whether it was.
SendReport(u) ==
    /\ u \in weekly.to
    /\ weekly' = [weekly EXCEPT !.to = @ \ {u}]
    /\ IF u \in muted THEN reports' = Generated(u) /\ UNCHANGED <<got, doubtful, faults>>
       ELSE /\ Deliver(u, "weekly")
            /\ reports' = IF got' = got THEN Generated(u)
                          ELSE [reports EXCEPT !["memory"][u].now = "sent"]
    /\ UNCHANGED <<clock, daily, bound, active, muted, restarts>>

\* save runs beside its caller.
Save ==
    /\ reports["file"] # reports["memory"]
    /\ reports' = [reports EXCEPT !["file"] = reports["memory"]]
    /\ UNCHANGED <<clock, daily, weekly, bound, active, muted, got, doubtful, faults, restarts>>

Restart ==
    /\ restarts < MaxRestarts /\ restarts' = restarts + 1
    /\ Boot(clock)
    /\ reports' = [reports EXCEPT !["memory"] = reports["file"]]
    /\ UNCHANGED <<clock, bound, active, muted, got, doubtful, faults>>

Next ==
    \/ Pass
    \/ \E u \in Users : \/ Binds(u) \/ Searches(u) \/ Mutes(u)
                        \/ SendDailyRecommendation(u)
                        \/ HandleWeeklyReport(u) \/ SendReport(u)
    \/ SendDailyRecommendations \/ NothingTrending
    \/ SendWeeklyReports \/ Save
    \/ Restart

Spec == Init /\ [][Next]_vars
-----------------------------------------------------------------------------
\* Nobody gets the digest of a day or of a week twice, whenever the program was started: nothing
\* but the clocks keeps the weekly report from being sent again.
DigestOnce == \A k \in (Users \X Digests) \ doubtful : got[k] <= 1
=============================================================================
