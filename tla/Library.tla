-------------------------------- MODULE Library --------------------------------
(***************************************************************************)
(* What happens when Emby reports that something of one series came in.    *)
(*                                                                         *)
(* An episode goes into a buffer of its season, which a timer flushes      *)
(* after a quiet while; a whole season or series is handled at once by the *)
(* handler of the webhook.  Both then announce it to the group, to those   *)
(* who wait for it (the carpool), and to whoever requested it, whose       *)
(* request is then marked in the ledger of requests and recorded in the    *)
(* ledger of completions.  No lock is held from one of these steps to the  *)
(* next, and both may be under way at once.                                *)
(*                                                                         *)
(* Season 0 stands for any season in the carpool, and for an unknown one   *)
(* in an event.  The group is configured; the texts are left out.          *)
(***************************************************************************)
EXTENDS Integers, FiniteSets

CONSTANTS
    MaxSeason,     \* seasons are 1..MaxSeason
    Episodes,      \* episodes of a season
    Users,         \* users who may wait for a season
    Requests,      \* approved requests for the series
    SeasonOf,      \* [Requests -> seasons]: Season of a request
    MaxEvents,     \* bound on the events of Emby
    MaxJoins,      \* bound on what users do to the carpool, cancellations included
    MaxFaults,     \* bound on failing messages and writes
    MaxRestarts

Seasons == 0..MaxSeason

ASSUME ConstantsOK ==
    /\ MaxSeason \in Nat \ {0}
    /\ SeasonOf \in [Requests -> Seasons]
    /\ MaxEvents \in Nat /\ MaxJoins \in Nat /\ MaxFaults \in Nat /\ MaxRestarts \in Nat

Workers == {"flush", "handler"}  \* the goroutine of a timer, and of a webhook

VARIABLES
    buffer,     \* epAggregation: what a season has gathered
    timer,      \* the timer of a season: none, set, and how many have fired
    work,       \* where each worker is
    single,     \* IsSingleEnabled: an administrator wants the group to hear at once
    carpool,    \* entries of CarpoolService, as the file has them
    marked,     \* requests with LibraryNotifiedAt, in memory and in the file
    completed,  \* completions, in memory and in their file
    waiting,    \* history: who joined for a season and has not heard or left
    late,       \* history: who joined while an announcement was under way
    widened,    \* history: a restart took a season's waiters for any season's
    heard,      \* history: requests whose user was told
    retold,     \* history: requests whose user was told again
    excuses,    \* history: what can make a user hear twice
    added,      \* history: episodes whose event was accepted
    listed,     \* history: episodes handed to the daily list
    events, joins, faults, restarts

ledgers == <<marked, completed>>
history == <<waiting, late, widened, heard, retold, excuses, added, listed>>
bounds  == <<events, joins, faults, restarts>>
vars    == <<buffer, timer, work, single, carpool, ledgers, history, bounds>>

Stores == {"memory", "file"}
Works  == [pc      : {"idle", "carpool", "tell", "clear", "ask", "record", "complete", "list"},
           season  : Seasons,
           known   : BOOLEAN,          \* the TMDB id was found
           eps     : SUBSET Episodes,
           members : SUBSET Users,     \* GetArrivalMembers
           todo    : SUBSET Requests,  \* matched requests not handled yet
           request : SUBSET Requests]  \* the one in hand

AtRest == [pc |-> "idle", season |-> 0, known |-> FALSE, eps |-> {}, members |-> {},
           todo |-> {}, request |-> {}]

Nothing == [eps |-> {}, known |-> FALSE]

TypeOK ==
    /\ buffer \in [Seasons -> [eps : SUBSET Episodes, known : BOOLEAN]]
    /\ timer \in [Seasons -> [set : BOOLEAN, fired : BOOLEAN]]
    /\ work \in [Workers -> Works]
    /\ single \in BOOLEAN
    /\ carpool \in [Seasons -> SUBSET Users]
    /\ marked \in [Stores -> SUBSET Requests] /\ completed \in [Stores -> SUBSET Requests]
    /\ waiting \subseteq Users \X Seasons /\ late \subseteq waiting
    /\ widened \in BOOLEAN
    /\ heard \subseteq Requests /\ retold \subseteq heard
    /\ excuses \subseteq {"overlap", "unwritten", "restart"}
    /\ listed \subseteq added /\ added \subseteq Seasons \X Episodes
    /\ events \in 0..MaxEvents /\ joins \in 0..MaxJoins
    /\ faults \in 0..MaxFaults /\ restarts \in 0..MaxRestarts

Init ==
    /\ buffer = [s \in Seasons |-> Nothing]
    /\ timer = [s \in Seasons |-> [set |-> FALSE, fired |-> FALSE]]
    /\ work = [w \in Workers |-> AtRest]
    /\ single \in BOOLEAN
    /\ carpool = [s \in Seasons |-> {}]
    /\ marked = [x \in Stores |-> {}] /\ completed = [x \in Stores |-> {}]
    /\ waiting = {} /\ late = {} /\ widened = FALSE
    /\ heard = {} /\ retold = {} /\ excuses = {}
    /\ added = {} /\ listed = {}
    /\ events = 0 /\ joins = 0 /\ faults = 0 /\ restarts = 0

NoFault == UNCHANGED faults
Fault   == faults < MaxFaults /\ faults' = faults + 1

At(w, pc)     == work[w].pc = pc
Goto(w, pc)   == work' = [work EXCEPT ![w].pc = pc]
Event         == events < MaxEvents /\ events' = events + 1
Excused(why)  == excuses' = excuses \cup {why}
-----------------------------------------------------------------------------
(***************************************************************************)
(* Events.  Emby and TMDB are asked for the TMDB id of the series; without *)
(* an answer, or when they know none, the event goes on without it.        *)
(***************************************************************************)
\* Of the lookups for a series and for one of its episodes either will do.
SeriesIdentity  == BOOLEAN
EpisodeIdentity == BOOLEAN
EnhancedInfo    == {known \in BOOLEAN : \E series \in SeriesIdentity, episode \in EpisodeIdentity :
                                        known = (series \/ episode)}

\* Only the episode that opens a buffer looks the series up.
Opened(b, known) == IF b = Nothing THEN [b EXCEPT !.known = known] ELSE b

\* Fault: the quiet while does not start again.
StoppedOnly(t) == [t EXCEPT !.set = FALSE]

\* The timer starts again; one that has fired waits for the lock.
Debounced(t) == [t EXCEPT !.set = TRUE]

AggregateEpisode(s, e) ==
    /\ Event
    /\ \E known \in EnhancedInfo :
          buffer' = [buffer EXCEPT ![s] = [Opened(buffer[s], known) EXCEPT !.eps = @ \cup {e}]]
    /\ timer' = [timer EXCEPT ![s] = IF e \in buffer[s].eps THEN @ ELSE Debounced(@)]
    /\ added' = added \cup {<<s, e>>}
    /\ listed' = listed \ {<<s, e>>}
    /\ UNCHANGED <<work, single, carpool, ledgers, waiting, late, widened, heard, retold, excuses,
                   joins, faults, restarts>>

\* A season, or the whole series: nothing at all when the group is not to hear.
SendImmediateNotification(s) ==
    /\ At("handler", "idle") /\ Event
    /\ IF single
       THEN \E known \in EnhancedInfo :
               work' = [work EXCEPT !["handler"] =
                           [AtRest EXCEPT !.pc = IF known THEN "carpool" ELSE "idle",
                                          !.season = IF known THEN s ELSE 0, !.known = known]]
       ELSE UNCHANGED work
    /\ UNCHANGED <<buffer, timer, single, carpool, ledgers, history, joins, faults, restarts>>

SetSingleEnabled ==
    /\ single' = ~single /\ Event
    /\ UNCHANGED <<buffer, timer, work, carpool, ledgers, history, joins, faults, restarts>>
-----------------------------------------------------------------------------
(***************************************************************************)
(* The buffer of a season is flushed.                                      *)
(***************************************************************************)
TimerFires(s) ==
    /\ timer[s].set
    /\ timer' = [timer EXCEPT ![s] = [set |-> FALSE, fired |-> TRUE]]
    /\ UNCHANGED <<buffer, work, single, carpool, ledgers, history, bounds>>

\* What a flush does next: those who wait hear only when the group does.
AfterFlush(known) == IF ~known THEN "list" ELSE IF single THEN "carpool" ELSE "ask"

FlushSingleAggregation(s) ==
    /\ timer[s].fired /\ At("flush", "idle")
    /\ IF buffer[s] = Nothing
       THEN timer' = [timer EXCEPT ![s].fired = FALSE] /\ UNCHANGED <<buffer, work>>
       ELSE /\ timer' = [timer EXCEPT ![s] = [set |-> FALSE, fired |-> FALSE]]
            /\ buffer' = [buffer EXCEPT ![s] = Nothing]
            /\ work' = [work EXCEPT !["flush"] =
                           [AtRest EXCEPT !.pc = AfterFlush(buffer[s].known), !.season = s,
                                          !.known = buffer[s].known, !.eps = buffer[s].eps]]
    /\ UNCHANGED <<single, carpool, ledgers, history, bounds>>

\* The daily list is told last; the handler has told it first.
Ends(w) ==
    work' = [work EXCEPT ![w] = IF w = "flush" THEN [@ EXCEPT !.pc = "list", !.members = {}, !.todo = {},
                                                             !.request = {}]
                                               ELSE AtRest]

AddAggregatedEpisodeToSummary ==
    /\ At("flush", "list")
    /\ listed' = listed \cup ({work["flush"].season} \X work["flush"].eps)
    /\ work' = [work EXCEPT !["flush"] = AtRest]
    /\ UNCHANGED <<buffer, timer, single, carpool, ledgers, waiting, late, widened, heard, retold,
                   excuses, added, bounds>>
-----------------------------------------------------------------------------
(***************************************************************************)
(* The carpool.                                                            *)
(***************************************************************************)
Joins == joins < MaxJoins /\ joins' = joins + 1

Matching(s) == {s, 0}   \* that season's waiters, and any season's

\* Somebody who joins behind the back of an announcement is told of nothing.
AddWithMetadata(u, s) ==
    /\ u \notin carpool[s] /\ Joins
    /\ \/ /\ NoFault
          /\ carpool' = [carpool EXCEPT ![s] = @ \cup {u}]
          /\ waiting' = waiting \cup {<<u, s>>}
          /\ late' = IF \E w \in Workers : /\ work[w].pc \in {"tell", "clear"}
                                           /\ s \in Matching(work[w].season)
                     THEN late \cup {<<u, s>>} ELSE late
       \/ Fault /\ UNCHANGED <<carpool, waiting, late>>
    /\ UNCHANGED <<buffer, timer, work, single, ledgers, widened, heard, retold, excuses, added,
                   listed, events, restarts>>

Forget(pairs) == waiting' = waiting \ pairs /\ late' = late \ pairs

Remove(u, s) ==
    /\ u \in carpool[s] /\ Joins
    /\ \/ NoFault /\ carpool' = [carpool EXCEPT ![s] = @ \ {u}] /\ Forget({<<u, s>>})
       \/ Fault /\ UNCHANGED <<carpool, waiting, late>>
    /\ UNCHANGED <<buffer, timer, work, single, ledgers, widened, heard, retold, excuses, added,
                   listed, events, restarts>>

Cleared(ss) == carpool' = [s \in Seasons |-> IF s \in ss THEN {} ELSE carpool[s]]

\* A request for season s was rejected or cancelled: those who wait for it, for
\* any season, or (s = 0) for the series, are removed and told.
ClearArrival(s) ==
    LET ss == IF s = 0 THEN Seasons ELSE Matching(s)
    IN /\ Joins
       /\ \/ NoFault /\ Cleared(ss) /\ Forget(UNION {carpool[x] \X {x} : x \in ss})
          \/ Fault /\ UNCHANGED <<carpool, waiting, late>>
       /\ UNCHANGED <<buffer, timer, work, single, ledgers, widened, heard, retold, excuses, added,
                      listed, events, restarts>>

GetArrivalMembers(s) == UNION {carpool[x] : x \in Matching(s)}

NotifyCarpoolMembers(w) ==
    /\ At(w, "carpool")
    /\ LET members == GetArrivalMembers(work[w].season)
       IN work' = [work EXCEPT ![w].pc = IF members = {} THEN "ask" ELSE "tell",
                               ![w].members = members]
    /\ UNCHANGED <<buffer, timer, single, carpool, ledgers, history, bounds>>

\* Fault: who could not be told is cleared all the same.
NextAfterFailure == "clear"

\* "Lose nobody": when the group could not be told, all keep waiting.
AfterFailure == "ask"

AnnounceArrival(w) ==
    /\ At(w, "tell")
    /\ \/ /\ NoFault
          /\ Forget(work[w].members \X Matching(work[w].season))
          /\ Goto(w, "clear")
       \/ /\ Fault /\ UNCHANGED <<waiting, late>>
          /\ work' = [work EXCEPT ![w].pc = AfterFailure, ![w].members = {}]
    /\ UNCHANGED <<buffer, timer, single, carpool, ledgers, widened, heard, retold, excuses, added,
                   listed, events, joins, restarts>>

\* It removes whoever waits now; when the write fails nobody is removed.
GetAndClearArrival(w) ==
    /\ At(w, "clear")
    /\ \/ NoFault /\ Cleared(Matching(work[w].season))
       \/ Fault /\ UNCHANGED carpool
    /\ work' = [work EXCEPT ![w].pc = "ask", ![w].members = {}]
    /\ UNCHANGED <<buffer, timer, single, ledgers, history, events, joins, restarts>>
-----------------------------------------------------------------------------
(***************************************************************************)
(* Whoever requested it.                                                   *)
(***************************************************************************)
\* A known season has to match; an unknown one matches requests for no season.
ReviewMatchesLibraryAdd(r, s) == SeasonOf[r] = s

IsLibraryNotificationPending(r) == r \notin marked["memory"]

NotifyRequesterOnLibraryAdd(w) ==
    /\ At(w, "ask") /\ work[w].request = {} /\ work[w].todo = {}
    /\ LET matched == {r \in Requests : ReviewMatchesLibraryAdd(r, work[w].season)}
       IN IF matched = {} THEN Ends(w)
                          ELSE work' = [work EXCEPT ![w].todo = matched]
    /\ UNCHANGED <<buffer, timer, single, carpool, ledgers, history, bounds>>

\* The next request of those that matched.
NextRequest(w, r) == IF work[w].todo = {r} THEN Ends(w)
                                     ELSE work' = [work EXCEPT ![w].pc = "ask", ![w].request = {},
                                                               ![w].todo = @ \ {r}]

\* Whoever is told has heard before, of this request, or not.
Hears(w, r) ==
    /\ heard' = heard \cup {r}
    /\ retold' = IF r \in heard THEN retold \cup {r} ELSE retold
    /\ IF \E v \in Workers \ {w} : r \in work[v].request THEN Excused("overlap") ELSE UNCHANGED excuses

TellRequester(w, r) ==
    /\ At(w, "ask") /\ r \in work[w].todo
    /\ IF IsLibraryNotificationPending(r)
       THEN \/ /\ NoFault /\ Hears(w, r)
               /\ work' = [work EXCEPT ![w].pc = "record", ![w].request = {r}]
            \/ Fault /\ NextRequest(w, r) /\ UNCHANGED <<heard, retold, excuses>>
       ELSE NoFault /\ NextRequest(w, r) /\ UNCHANGED <<heard, retold, excuses>>
    /\ UNCHANGED <<buffer, timer, single, carpool, ledgers, waiting, late, widened, added, listed,
                   events, joins, restarts>>

\* Fault: the completion is recorded although the mark could not be written.
CompletesAnyway(w, r) == Goto(w, "complete")

\* Without the mark there is no completion either: the next event tries again.
AfterUnmarked(w, r) == NextRequest(w, r)

\* RecordLibraryCompletion: the ledger of requests first, then the other one.
MarkLibraryNotified(w, r) ==
    /\ At(w, "record") /\ work[w].request = {r}
    /\ \/ r \in marked["memory"] /\ NoFault /\ UNCHANGED <<marked, excuses>> /\ Goto(w, "complete")
       \/ /\ r \notin marked["memory"] /\ NoFault /\ UNCHANGED excuses
          /\ marked' = [x \in Stores |-> marked[x] \cup {r}]
          /\ Goto(w, "complete")
       \/ /\ r \notin marked["memory"] /\ Fault /\ UNCHANGED marked /\ Excused("unwritten")
          /\ AfterUnmarked(w, r)
    /\ UNCHANGED <<buffer, timer, single, carpool, completed, waiting, late, widened, heard, retold,
                   added, listed, events, joins, restarts>>

\* One entry for a request; the error of the write is not looked at.
AddCompletion(w, r) ==
    /\ At(w, "complete") /\ work[w].request = {r}
    /\ LET memory == completed["memory"] \cup {r}
       IN \/ r \in completed["memory"] /\ NoFault /\ UNCHANGED completed
          \/ r \notin completed["memory"] /\ NoFault /\ completed' = [x \in Stores |-> memory]
          \/ r \notin completed["memory"] /\ Fault /\ completed' = [completed EXCEPT !["memory"] = memory]
    /\ NextRequest(w, r)
    /\ UNCHANGED <<buffer, timer, single, carpool, marked, history, events, joins, restarts>>
-----------------------------------------------------------------------------
(***************************************************************************)
(* A restart: the buffers are gone, and the ledgers are read.              *)
(***************************************************************************)
\* load() takes the key of every season for one of the old format.
Loaded == [s \in Seasons |-> IF s = 0 THEN UNION {carpool[x] : x \in Seasons} ELSE {}]

\* ReconcileLibraryCompletions: what the ledger of completions says is marked.
Reconciled == marked["file"] \cup completed["file"]

Restart ==
    /\ restarts < MaxRestarts /\ restarts' = restarts + 1
    /\ buffer' = [s \in Seasons |-> Nothing]
    /\ timer' = [s \in Seasons |-> [set |-> FALSE, fired |-> FALSE]]
    /\ work' = [w \in Workers |-> AtRest]
    /\ carpool' = Loaded
    /\ widened' = (widened \/ \E s \in 1..MaxSeason : carpool[s] # {})
    /\ marked' = [x \in Stores |-> Reconciled]
    /\ completed' = [x \in Stores |-> completed["file"]]
    /\ added' = listed
    /\ Excused("restart")
    /\ UNCHANGED <<single, waiting, late, heard, retold, listed, events, joins, faults>>

Events ==
    \/ \E s \in Seasons : \/ \E e \in Episodes : AggregateEpisode(s, e)
                          \/ SendImmediateNotification(s)
    \/ SetSingleEnabled

CarpoolUsers ==
    \E s \in Seasons : ClearArrival(s) \/ \E u \in Users : AddWithMetadata(u, s) \/ Remove(u, s)

Flushes == \E s \in Seasons : FlushSingleAggregation(s)

Handles(w) ==
    \/ NotifyCarpoolMembers(w) \/ AnnounceArrival(w) \/ GetAndClearArrival(w)
    \/ NotifyRequesterOnLibraryAdd(w)
    \/ \E r \in Requests : TellRequester(w, r) \/ MarkLibraryNotified(w, r) \/ AddCompletion(w, r)

Next ==
    \/ Events \/ CarpoolUsers
    \/ \E s \in Seasons : TimerFires(s)
    \/ Flushes \/ AddAggregatedEpisodeToSummary
    \/ \E w \in Workers : Handles(w)
    \/ Restart

Spec == Init /\ [][Next]_vars

\* Timers fire, and goroutines go on.
Fairness ==
    /\ \A s \in Seasons : WF_vars(TimerFires(s)) /\ SF_vars(FlushSingleAggregation(s))
    /\ WF_vars(AddAggregatedEpisodeToSummary)
    /\ \A w \in Workers : WF_vars(Handles(w))

FairSpec == Spec /\ Fairness
-----------------------------------------------------------------------------
(***************************************************************************)
(* Properties.                                                             *)
(***************************************************************************)
\* Whoever waits in the carpool stays in it until he was told, or left: what
\* fails removes nobody (notifyCarpoolMembers tells first and clears then).
\* Two kinds of users are lost all the same: who joins while the group is being
\* told, and, after a restart, who waited for one season, whom load() lets wait
\* for any (it rewrites every key of a show, not those of the old format only).
NobodyForgotten ==
    \A u \in Users, s \in Seasons :
        <<u, s>> \in waiting /\ <<u, s>> \notin late /\ ~widened => u \in carpool[s]

\* A completion in its file is marked in the file of the requests, so that no
\* crash and no failing write makes the two ledgers disagree that way round.
CompletionsMarked == completed["file"] \subseteq marked["file"]

\* The requester hears a second time only when the episode and the season came in
\* at once, the mark could not be written, or the program ended before it was.
ArrivalToldOnce == retold # {} => excuses # {}

\* An arrival is told once and booked in both ledgers.
ArrivalBooked == CompletionsMarked /\ ArrivalToldOnce

\* An episode in the buffer reaches the daily list, unless the program is
\* restarted before the flush (the buffer is not kept).
EpisodesListed ==
    \A s \in Seasons, e \in Episodes :
        (<<s, e>> \in added) ~> (<<s, e>> \in listed \/ <<s, e>> \notin added)
=============================================================================
