--------------------------------- MODULE Browse ---------------------------------
(***************************************************************************)
(* How a user gets from a search to a request: the session that the        *)
(* handlers of their taps and texts share, the cards they leave behind,    *)
(* whose buttons stay clickable, and the request or wish at the end.       *)
(* A search is a goroutine; the taps run beside it.                        *)
(***************************************************************************)
EXTENDS Integers, Sequences, FiniteSets

CONSTANTS
    Media,       \* [id, type]: a film and a show may have the same TMDB id
    Queries,
    Found,       \* [Queries -> Seq(SUBSET Media)]: the pages of results of each query
    Curated,     \* queries that name a list of recommendations
    Workers,     \* searches that may be under way at once
    MaxTaps      \* bound on taps, texts and what else happens

VARIABLES
    session,    \* Session.Data and navStack of the user
    worker,     \* where each search is
    list,       \* the list shown last: results, or recommendations under the name of their kind
    detail,     \* the detail card shown last: the media of its button, the media it describes
    offered,    \* buttons that ask again: for all seasons, and for what is in the library
    library,    \* what Emby has: media, and seasons of shows
    confirmed,  \* history: shows of which the user confirmed to want all seasons
    requests,   \* what was submitted: the target, and the title it was given
    wishes,     \* queries that became wishes
    taps

browseVars == <<session, worker, list, detail, offered, library, confirmed, requests, wishes, taps>>

None      == "none"
Nothing   == [query |-> None, page |-> 0, items |-> {}]
Fresh     == [results |-> Nothing, intent |-> None, pending |-> None, nav |-> <<>>]
Idle      == [pc |-> "idle", query |-> None, page |-> 0, notice |-> FALSE]
Targets   == {[media |-> m, season |-> s] : m \in Media, s \in {0, 1}}
Shows     == {m \in Media : m.type = "tv"}
Whole(t)  == t.media.type = "tv" /\ t.season = 0
Generic   == [id |-> 0, type |-> "movie"]      \* a title that fits everything, "TMDB:<id>" included
NoDetail  == [of |-> Generic, title |-> Generic]

TypeOK ==
    /\ session.results.query \in Queries \cup {None} /\ session.results.items \subseteq Media
    /\ session.intent \in {"wash", None} /\ session.pending \in Queries \cup {None}
    /\ \A n \in 1..Len(session.nav) : session.nav[n] \in Queries
    /\ \A w \in Workers : worker[w].pc \in {"idle", "call", "recommend", "store"}
                          /\ worker[w].query \in Queries \cup {None}
    /\ list.query \in Queries \cup {None} /\ list.items \subseteq Media
    /\ offered \subseteq [kind : {"confirm", "force"}, target : Targets]
    /\ library \subseteq Targets /\ confirmed \subseteq Shows
    /\ requests \subseteq [target : Targets, title : Media \cup {Generic}]
    /\ wishes \subseteq Queries /\ taps \in 0..MaxTaps

Init ==
    /\ session = Fresh /\ worker = [w \in Workers |-> Idle]
    /\ detail = NoDetail /\ list = Nothing
    /\ offered = {} /\ library = {} /\ confirmed = {} /\ requests = {} /\ wishes = {}
    /\ taps = 0

Tap == taps < MaxTaps /\ taps' = taps + 1
-----------------------------------------------------------------------------
(* Searches.                                                               *)

\* A text or a button of the history: the goroutine of this update asks MoviePilot.
Ask(w, q, p) == worker' = [worker EXCEPT ![w] = [Idle EXCEPT !.pc = "call", !.query = q, !.page = p]]

HandleSearchQuery(w, q) ==
    /\ Tap /\ worker[w] = Idle /\ q \notin Curated
    /\ Ask(w, q, 1)
    /\ UNCHANGED <<session, list, detail, offered, library, confirmed, requests, wishes>>

\* A kind of recommendations; moods are names for the same kinds.
HandleTrending(w, q) ==
    /\ Tap /\ worker[w] = Idle /\ q \in Curated
    /\ worker' = [worker EXCEPT ![w] = [Idle EXCEPT !.pc = "recommend", !.query = q, !.page = 1]]
    /\ UNCHANGED <<session, list, detail, offered, library, confirmed, requests, wishes>>

\* A page button carries no query: it pages what the session holds, or else the newest line of the
\* old history file, which may be any query or none.
HandlePage(w, p) ==
    /\ Tap /\ worker[w] = Idle
    /\ IF session.results.items # {} THEN Ask(w, session.results.query, p)
       ELSE (\E q \in Queries \ Curated : Ask(w, q, p)) \/ UNCHANGED worker
    /\ UNCHANGED <<session, list, detail, offered, library, confirmed, requests, wishes>>

Items(q, p) == IF p \in DOMAIN Found[q] THEN Found[q][p] ELSE {}

\* Shorter wordings of a query that finds nothing.
Reworded(q) == {other \in Queries \ (Curated \cup {q}) : Items(other, 1) # {}}

\* The results are there; whether a title is being picked for a wash is read before the statuses of
\* the results are looked up.  Without results on the first page another wording is tried, and then
\* the query is kept for the button that makes it a wish.
Answer(w) ==
    /\ worker[w].pc = "call"
    /\ LET q == worker[w].query
           p == worker[w].page
           notice == session.intent = "wash"
       IN \/ /\ Items(q, p) # {}
             /\ worker' = [worker EXCEPT ![w].pc = "store", ![w].notice = notice]
             /\ UNCHANGED session
          \/ \E other \in Reworded(q) :
             /\ Items(q, p) = {} /\ p = 1
             /\ worker' = [worker EXCEPT ![w].pc = "store", ![w].query = other, ![w].notice = notice]
             /\ UNCHANGED session
          \/ /\ Items(q, p) = {}                   \* nothing, or nothing more
             /\ session' = IF p = 1 THEN [session EXCEPT !.pending = q] ELSE session
             /\ worker' = [worker EXCEPT ![w] = Idle]
          \/ /\ worker' = [worker EXCEPT ![w] = Idle]    \* the search failed
             /\ UNCHANGED session
    /\ UNCHANGED <<list, detail, offered, library, confirmed, requests, wishes, taps>>

\* The session has the results before the card is sent.
Stored(w) ==
    LET q == worker[w].query
        p == worker[w].page
        results == [query |-> q, page |-> p, items |-> Items(q, p)]
    IN session' = [session EXCEPT !.results = results] /\ list' = results

StoreSearchResults(w) ==
    /\ worker[w].pc = "store"
    /\ Stored(w)
    /\ worker' = [worker EXCEPT ![w] = Idle]
    /\ UNCHANGED <<detail, offered, library, confirmed, requests, wishes, taps>>

\* Recommendations are looked up, stored and shown by the handler of the tap.
BuildRecommendationResponse(w) ==
    /\ worker[w].pc = "recommend"
    /\ (Items(worker[w].query, 1) # {} /\ Stored(w)) \/ UNCHANGED <<session, list>>
    /\ worker' = [worker EXCEPT ![w] = Idle]
    /\ UNCHANGED <<detail, offered, library, confirmed, requests, wishes, taps>>
-----------------------------------------------------------------------------
(* Cards.                                                                  *)

PushNavEntry(q) == Append(session.nav, q)

\* The result the button was made for: the id alone does not tell a film from a show.
SearchedItems(m) == {i \in session.results.items : i.id = m.id /\ i.type = m.type}

FromTMDB(m) == {[of |-> m, title |-> m]}
Simple(m)   == {[of |-> m, title |-> Generic]}
FromSearch(m) == {[of |-> m, title |-> i] : i \in SearchedItems(m)}

\* The detail card of a button: from the results in the session, which then also are where "back"
\* leads, unless the card is returned to (from) or belongs to the heat list; else from TMDB; else
\* with a title that fits everything.
DetailHandle(m, source) ==
    /\ Tap
    /\ \/ /\ source # "request_heat" /\ SearchedItems(m) # {}
          /\ detail' \in FromSearch(m)
          /\ session' = IF source = "results" THEN [session EXCEPT !.nav = PushNavEntry(session.results.query)]
                        ELSE session
       \/ /\ source = "request_heat" \/ SearchedItems(m) = {}
          /\ detail' \in FromTMDB(m) \cup Simple(m)
          /\ UNCHANGED session
    /\ UNCHANGED <<worker, list, offered, library, confirmed, requests, wishes>>

\* The seasons of a show are those TMDB lists, as its card says; without them there is no card.
HandleSeasons(m) ==
    /\ Tap /\ m \in Shows
    /\ detail' \in FromTMDB(m) \cup {detail}
    /\ UNCHANGED <<session, worker, list, offered, library, confirmed, requests, wishes>>

\* Fault: what the session holds is shown under the kind the
\* user came from.
RestoredUnderItsKind(q) == [session.results EXCEPT !.query = IF q \in Curated THEN q ELSE @]

\* What "back" shows: recommendations only if the session still holds those of that kind, search
\* results whatever they are by now; else the main menu, or a button that loads them again.
Restored(q) == IF q \in Curated /\ session.results.query # q THEN Nothing ELSE session.results

BackHandle ==
    /\ Tap /\ session.nav # <<>>
    /\ session' = [session EXCEPT !.nav = SubSeq(@, 1, Len(@) - 1)]
    /\ list' = Restored(session.nav[Len(session.nav)])
    /\ UNCHANGED <<worker, detail, offered, library, confirmed, requests, wishes>>

\* The main menu and the cancel button end what was begun.
HomeOrCancel ==
    /\ Tap
    /\ session' = [session EXCEPT !.intent = None]
    /\ UNCHANGED <<worker, list, detail, offered, library, confirmed, requests, wishes>>

\* /wash asks for a title, and a work order forgets that it did.
WashHandle ==
    /\ Tap
    /\ session' \in {[session EXCEPT !.intent = "wash"], [session EXCEPT !.intent = None]}
    /\ UNCHANGED <<worker, list, detail, offered, library, confirmed, requests, wishes>>

\* The session is cleaned up or evicted; every handler makes a new one when it needs it.
EvictSession ==
    /\ Tap /\ session # Fresh
    /\ session' = Fresh
    /\ UNCHANGED <<worker, list, detail, offered, library, confirmed, requests, wishes>>
-----------------------------------------------------------------------------
(* Requests and wishes.                                                    *)

\* The title is that of a result with the id, whatever its type, else what TMDB says, else a number.
TitleFor(m) ==
    LET items == {i \in session.results.items : i.id = m.id}
    IN IF items # {} THEN items ELSE {m, Generic}

Submit(t) == \E x \in TitleFor(t.media) : requests' = requests \cup {[target |-> t, title |-> x]}

\* A show without a season is asked for only after the user confirmed that they want all of it.
NeedsConfirmation(t, yes) == Whole(t) /\ ~yes

\* Fault: the library is looked at before the confirmation.
ProceedOnAvailability(t, yes) == t \in library \/ ~NeedsConfirmation(t, yes)
Proceed(t, yes) == ~NeedsConfirmation(t, yes)

\* requestExistsInEmby
InLibrary(t) == t \in library

\* A request button, of a detail card or of the card that asks for the confirmation (yes).
RequestHandle(t, yes) ==
    /\ Tap
    /\ yes => [kind |-> "confirm", target |-> t] \in offered
    /\ confirmed' = IF yes THEN confirmed \cup {t.media} ELSE confirmed
    /\ \/ /\ ~Proceed(t, yes)
          /\ offered' = offered \cup {[kind |-> "confirm", target |-> t]}
          /\ UNCHANGED requests
       \/ /\ Proceed(t, yes) /\ InLibrary(t)
          /\ offered' = offered \cup {[kind |-> "force", target |-> t]}
          /\ UNCHANGED requests
       \/ /\ Proceed(t, yes) /\ ~InLibrary(t)
          /\ Submit(t) /\ UNCHANGED offered
       \/ UNCHANGED <<requests, offered>>     \* not bound, or Emby does not answer
    /\ UNCHANGED <<session, worker, list, detail, library, wishes>>

\* "Subscribe all the same", under the card that said it is in the library.
HandleForceSubscribe(t) ==
    /\ Tap /\ [kind |-> "force", target |-> t] \in offered
    /\ Submit(t) \/ UNCHANGED requests
    /\ UNCHANGED <<session, worker, list, detail, offered, library, confirmed, wishes>>

\* The wish button carries no query either.
HandleAddFromSearch ==
    /\ Tap
    /\ \/ UNCHANGED wishes     \* TMDB knows no such title, or there is no query
       \/ IF session.pending # None THEN wishes' = wishes \cup {session.pending}
          ELSE \E q \in Queries \ Curated : wishes' = wishes \cup {q}
    /\ session' = [session EXCEPT !.pending = None]
    /\ UNCHANGED <<worker, list, detail, offered, library, confirmed, requests>>

\* External: Emby gains and loses media.
LibraryChanges(t) ==
    /\ Tap
    /\ library' \in {library \cup {t}, library \ {t}} \ {library}
    /\ UNCHANGED <<session, worker, list, detail, offered, confirmed, requests, wishes>>

Requestable(t) == t.season = 0 \/ t.media.type = "tv"

Next ==
    \/ \E w \in Workers : \/ \E q \in Queries : HandleSearchQuery(w, q) \/ HandleTrending(w, q)
                          \/ \E p \in 1..2 : HandlePage(w, p)
                          \/ Answer(w) \/ StoreSearchResults(w) \/ BuildRecommendationResponse(w)
    \/ \E m \in Media, source \in {"results", "seasons", "request_heat"} : DetailHandle(m, source)
    \/ \E m \in Media : HandleSeasons(m)
    \/ BackHandle \/ HomeOrCancel \/ WashHandle \/ EvictSession \/ HandleAddFromSearch
    \/ \E t \in {t \in Targets : Requestable(t)} :
          \/ \E yes \in BOOLEAN : RequestHandle(t, yes)
          \/ HandleForceSubscribe(t) \/ LibraryChanges(t)

Spec == Init /\ [][Next]_browseVars
-----------------------------------------------------------------------------
\* The detail card of a button is about the media of that button, although other searches have
\* replaced what the session held when the button was made and a film and a show share their id.
DetailIsOfButton == detail.title \in {detail.of, Generic}

\* A list that is shown under a query or a kind of recommendations is what that finds, also when
\* "back" shows it and another search has replaced what the session held.
ListIsOfItsQuery == list.items # {} => list.items = Items(list.query, list.page)

\* What a card or a list says it shows is what it shows.
ShowsWhatItSays == DetailIsOfButton /\ ListIsOfItsQuery

\* "Require one explicit confirmation": no show is requested as a whole, by either button, whose
\* user did not confirm that they want all seasons, whatever the library had or lost meanwhile.
WholeShowConfirmed ==
    \A r \in requests : Whole(r.target) => r.target.media \in confirmed
=============================================================================
