------------------------------ MODULE SeasonRadar ------------------------------
(***************************************************************************)
(* The radar for new seasons, for one user and one show she asked for.     *)
(*                                                                         *)
(* A request records how many seasons have aired; a scan tells the user of *)
(* every later one, in order, and records how far it came.  The scan works *)
(* on a copy of the record for as long as TMDB and Telegram take.          *)
(***************************************************************************)
EXTENDS Integers, FiniteSets

CONSTANTS
    MaxSeason,     \* bound on seasons
    MaxFaults,     \* bound on failing calls, lost answers and failing writes
    MaxRestarts

VARIABLES
    aired,      \* seasons that have aired by now
    enabled,    \* whether the user wants to hear of new seasons
    known,      \* KnownSeasons, in memory and in the file
    track,      \* the goroutine TrackTV of a request
    scan,       \* the routine Scan
    told,       \* history: how often the user was told of a season
    settled,    \* history: seasons a request saw, or that came while the user wanted to hear of none
    doubtful,   \* history: seasons told while the file does not say so
    faults, restarts

vars == <<aired, enabled, known, track, scan, told, settled, doubtful, faults, restarts>>

Seasons   == 1..MaxSeason
Untracked == -1
Counts    == {Untracked} \cup 0..MaxSeason
Stores    == {"memory", "file"}
Idle      == [pc |-> "idle", item |-> 0, latest |-> 0]

TypeOK ==
    /\ aired \in 0..MaxSeason /\ enabled \in BOOLEAN
    /\ known \in [Stores -> Counts]
    /\ track \in [pc : {"idle", "fetch", "store"}, latest : 0..MaxSeason]
    /\ scan \in [pc : {"idle", "fetch", "tell", "store"}, item : 0..MaxSeason, latest : 0..MaxSeason]
    /\ told \in [Seasons -> Nat]
    /\ settled \subseteq Seasons /\ doubtful \subseteq Seasons
    /\ faults \in 0..MaxFaults /\ restarts \in 0..MaxRestarts

Init ==
    /\ aired \in 0..1 /\ enabled = TRUE
    /\ known = [x \in Stores |-> Untracked]
    /\ track = [pc |-> "idle", latest |-> 0]
    /\ scan = Idle
    /\ told = [s \in Seasons |-> 0]
    /\ settled = {} /\ doubtful = {}
    /\ faults = 0 /\ restarts = 0

Fault   == faults < MaxFaults /\ faults' = faults + 1
NoFault == UNCHANGED faults

\* saveLocked: its failure is only logged.
Save(n) ==
    \/ known' = [x \in Stores |-> n] /\ NoFault
    \/ known' = [known EXCEPT !["memory"] = n] /\ Fault
-----------------------------------------------------------------------------
SeasonAirs ==
    /\ aired < MaxSeason /\ aired' = aired + 1
    /\ UNCHANGED <<enabled, known, track, scan, told, settled, doubtful, faults, restarts>>

Toggle ==
    /\ enabled' = ~enabled
    /\ UNCHANGED <<aired, known, track, scan, told, settled, doubtful, faults, restarts>>

\* TrackTV runs beside the request that starts it.
TrackTV ==
    /\ track.pc = "idle" /\ track' = [track EXCEPT !.pc = "fetch"]
    /\ UNCHANGED <<aired, enabled, known, scan, told, settled, doubtful, faults, restarts>>

TrackFetch ==
    /\ track.pc = "fetch"
    /\ \/ track' = [pc |-> "store", latest |-> aired] /\ NoFault
       \/ track' = [track EXCEPT !.pc = "idle"] /\ Fault
    /\ UNCHANGED <<aired, enabled, known, scan, told, settled, doubtful, restarts>>

Observed(old, new) == IF new < old THEN old ELSE new

Track ==
    /\ track.pc = "store"
    /\ Save(Observed(known["memory"], track.latest))
    /\ settled' = settled \cup 1..track.latest
    /\ track' = [pc |-> "idle", latest |-> 0]
    /\ UNCHANGED <<aired, enabled, scan, told, doubtful, restarts>>
-----------------------------------------------------------------------------
ScanItem ==
    /\ scan.pc = "idle" /\ known["memory"] # Untracked
    /\ scan' = [Idle EXCEPT !.pc = "fetch", !.item = known["memory"]]
    /\ UNCHANGED <<aired, enabled, known, track, told, settled, doubtful, faults, restarts>>

ScanFetch ==
    /\ scan.pc = "fetch"
    /\ \/ /\ NoFault
          /\ scan' = IF enabled
                     THEN [scan EXCEPT !.pc = "tell", !.latest = aired]
                     ELSE [scan EXCEPT !.pc = "store", !.item = IF aired > @ THEN aired ELSE @]
          /\ settled' = IF enabled THEN settled ELSE settled \cup (scan.item + 1)..aired
       \/ Fault /\ scan' = Idle /\ UNCHANGED settled
    /\ UNCHANGED <<aired, enabled, known, track, told, doubtful, restarts>>

\* Fault: the scan goes on after a season it could not tell.
GoOnAfter(s) == scan' = [scan EXCEPT !.item = s]
StopAt(s) == scan' = [scan EXCEPT !.pc = "store"]

\* The notifier counts a season as told to a user who by now wants to hear of none.
Notify ==
    /\ scan.pc = "tell"
    /\ LET s == scan.item + 1
       IN \/ /\ s > scan.latest /\ scan' = [scan EXCEPT !.pc = "store"]
             /\ UNCHANGED <<told, settled, doubtful>> /\ NoFault
          \/ /\ s <= scan.latest /\ ~enabled
             /\ scan' = [scan EXCEPT !.item = s] /\ settled' = settled \cup {s}
             /\ UNCHANGED <<told, doubtful>> /\ NoFault
          \/ /\ s <= scan.latest /\ enabled
             /\ scan' = [scan EXCEPT !.item = s] /\ told' = [told EXCEPT ![s] = @ + 1]
             /\ UNCHANGED <<settled, doubtful>> /\ NoFault
          \/ /\ s <= scan.latest /\ enabled /\ Fault /\ StopAt(s) /\ UNCHANGED settled
             /\ \/ UNCHANGED <<told, doubtful>>
                \/ told' = [told EXCEPT ![s] = @ + 1] /\ doubtful' = doubtful \cup {s}
    /\ UNCHANGED <<aired, enabled, known, track, restarts>>

\* The copy takes the place of the record.
ScanStore ==
    /\ scan.pc = "store"
    /\ Save(scan.item)
    /\ scan' = Idle
    /\ UNCHANGED <<aired, enabled, track, told, settled, doubtful, restarts>>

\* The seasons told since the record in the file was written are told again.
Restart ==
    /\ restarts < MaxRestarts /\ restarts' = restarts + 1
    /\ known' = [known EXCEPT !["memory"] = known["file"]]
    /\ doubtful' = doubtful \cup {s \in Seasons : told[s] > 0 /\ s > known["file"]}
    /\ track' = [pc |-> "idle", latest |-> 0] /\ scan' = Idle
    /\ UNCHANGED <<aired, enabled, told, settled, faults>>

Next ==
    \/ SeasonAirs \/ Toggle \/ TrackTV \/ TrackFetch \/ Track
    \/ ScanItem \/ ScanFetch \/ Notify \/ ScanStore
    \/ Restart

Spec == Init /\ [][Next]_vars
-----------------------------------------------------------------------------
\* No season is passed over: what the record counts was told, or was there when the user asked for
\* the show, or came while she wanted to hear of none.  And she is told of a season once, unless
\* the file could not know.
NoSeasonSkipped ==
    /\ \A s \in 1..known["memory"] : told[s] > 0 \/ s \in settled
    /\ \A s \in Seasons \ doubtful : told[s] <= 1
=============================================================================
