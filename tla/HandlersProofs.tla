-------------------------- MODULE HandlersProofs --------------------------
(***************************************************************************)
(* What the handlers of taps and texts keep true, whatever is pressed,     *)
(* typed, refused or lost: an inductive invariant for each part, and the   *)
(* properties that follow from it.  A part's invariant reads only that     *)
(* part's variables, so that every step of another part keeps it.          *)
(***************************************************************************)
EXTENDS Handlers, FiniteSetTheorems, WellFoundedInduction, TLAPS
-----------------------------------------------------------------------------
(***************************************************************************)
(* Browsing (Browse). The answers of TMDB come back to a user who may have *)
(* asked something else in the meantime: a list is what its query finds,   *)
(* because the query and the page travel with the search, and a detail     *)
(* card is rebuilt from its button.                                        *)
(***************************************************************************)

\* Where a card came from: the query, the page and what it finds there.
ResultLists == [query : Queries \cup {"none"}, page : Nat, items : SUBSET Media]

BrowsingTyped ==
    /\ session \in [results : ResultLists, intent : {"wash", "none"}, pending : Queries \cup {"none"},
                    nav : Seq(Queries)]
    /\ search \in [Taps -> [pc : {"idle", "call", "recommend", "store"}, query : Queries \cup {"none"},
                            page : Nat, notice : BOOLEAN]]
    /\ list \in ResultLists /\ library \subseteq Browsing!Targets
    /\ offered \subseteq [kind : {"confirm", "force"}, target : Browsing!Targets]

\* What a query under way asks for is a query.
QueriesKnown == \A w \in Taps : search[w].pc # "idle" => search[w].query \in Queries

\* A list with something in it is what its query finds.
IsFound(l) == l.items # {} => l.query \in Queries /\ l.items = Browsing!Items(l.query, l.page)

ListsFound == IsFound(session.results) /\ IsFound(list)

\* The card that says a whole show is in the library comes after the confirmation.
ForceConfirmed ==
    \A o \in offered : o.kind = "force" /\ Browsing!Whole(o.target) => o.target.media \in confirmed

BrowsingInv ==
    /\ BrowsingTyped /\ QueriesKnown /\ ListsFound
    /\ Browsing!DetailIsOfButton /\ ForceConfirmed /\ Browsing!WholeShowConfirmed
-----------------------------------------------------------------------------
\* A page of results is a set of media.
LEMMA ItemsAreMedia ==
    ASSUME NEW q \in Queries, NEW p \in Nat PROVE Browsing!Items(q, p) \in SUBSET Media
<1>1. Found[q] \in Seq(SUBSET Media)
  BY ConstantsOK DEF ConstantsOK
<1>2. p \in DOMAIN Found[q] => Found[q][p] \in SUBSET Media
  BY <1>1
<1> QED
  BY <1>2 DEF Browsing!Items

LEMMA BrowsingInit == Browsing!Init => BrowsingInv
<1> SUFFICES ASSUME Browsing!Init PROVE BrowsingInv
  OBVIOUS
<1>1. Browsing!Nothing \in ResultLists /\ Browsing!Nothing.items = {}
  BY DEF Browsing!Nothing, Browsing!None, ResultLists
<1>2. <<>> \in Seq(Queries)
  OBVIOUS
<1>3. BrowsingTyped
  BY <1>1, <1>2 DEF BrowsingTyped, Browsing!Init, Browsing!Fresh, Browsing!Idle, Browsing!None
<1>4. QueriesKnown /\ ListsFound
  BY <1>1 DEF QueriesKnown, ListsFound, IsFound, Browsing!Init, Browsing!Fresh, Browsing!Idle
<1>5. Browsing!DetailIsOfButton /\ ForceConfirmed /\ Browsing!WholeShowConfirmed
  BY DEF Browsing!DetailIsOfButton, ForceConfirmed, Browsing!WholeShowConfirmed, Browsing!Init,
         Browsing!NoDetail
<1> QED
  BY <1>3, <1>4, <1>5 DEF BrowsingInv

\* Asking MoviePilot or for recommendations only starts a worker.
LEMMA AskStep ==
    ASSUME BrowsingInv, NEW w \in Taps,
           \/ \E q \in Queries : Browsing!HandleSearchQuery(w, q) \/ Browsing!HandleTrending(w, q)
           \/ \E p \in 1..2 : Browsing!HandlePage(w, p)
    PROVE  BrowsingInv'
<1> USE DEF BrowsingInv
<1>1. UNCHANGED <<session, list, detail, offered, library, confirmed, requests>>
  BY DEF Browsing!HandleSearchQuery, Browsing!HandleTrending, Browsing!HandlePage
<1>2. \/ UNCHANGED search
      \/ \E q \in Queries, p \in Nat, pc \in {"call", "recommend"} :
            search' = [search EXCEPT ![w] = [Browsing!Idle EXCEPT !.pc = pc, !.query = q, !.page = p]]
  <2>1. CASE \E q \in Queries : Browsing!HandleSearchQuery(w, q) \/ Browsing!HandleTrending(w, q)
    BY <2>1 DEF Browsing!HandleSearchQuery, Browsing!HandleTrending, Browsing!Ask
  <2>2. CASE \E p \in 1..2 : Browsing!HandlePage(w, p)
    <3>1. PICK p \in 1..2 : Browsing!HandlePage(w, p)
      BY <2>2
    <3>2. CASE session.results.items # {}
      <4>1. search' = [search EXCEPT ![w] = [Browsing!Idle EXCEPT !.pc = "call",
                                             !.query = session.results.query, !.page = p]]
        BY <3>1, <3>2 DEF Browsing!HandlePage, Browsing!Ask
      <4>2. session.results.query \in Queries /\ p \in Nat
        BY <3>2 DEF ListsFound, IsFound
      <4> QED
        BY <4>1, <4>2
    <3>3. CASE session.results.items = {}
      <4>1. CASE UNCHANGED search
        BY <4>1
      <4>2. ASSUME NEW q \in Queries \ Curated, Browsing!Ask(w, q, p)
            PROVE  \E o \in Queries, n \in Nat, pc \in {"call", "recommend"} :
                      search' = [search EXCEPT ![w] = [Browsing!Idle EXCEPT !.pc = pc, !.query = o, !.page = n]]
        <5>1. search' = [search EXCEPT ![w] = [Browsing!Idle EXCEPT !.pc = "call", !.query = q, !.page = p]]
          BY <4>2 DEF Browsing!Ask
        <5>2. q \in Queries /\ p \in Nat
          OBVIOUS
        <5> QED
          BY <5>1, <5>2
      <4> QED
        BY <3>1, <3>3, <4>1, <4>2 DEF Browsing!HandlePage
    <3> QED
      BY <3>2, <3>3
  <2> QED
    BY <2>1, <2>2
<1>3. BrowsingTyped' /\ QueriesKnown'
  <2>1. CASE UNCHANGED search
    BY <1>1, <2>1 DEF BrowsingTyped, QueriesKnown
  <2>2. ASSUME NEW q \in Queries, NEW p \in Nat, NEW pc \in {"call", "recommend"},
               search' = [search EXCEPT ![w] = [Browsing!Idle EXCEPT !.pc = pc, !.query = q, !.page = p]]
        PROVE  BrowsingTyped' /\ QueriesKnown'
    BY <1>1, <2>2 DEF BrowsingTyped, QueriesKnown, Browsing!Idle
  <2> QED
    BY <1>2, <2>1, <2>2
<1>4. (ListsFound /\ Browsing!DetailIsOfButton /\ ForceConfirmed /\ Browsing!WholeShowConfirmed)'
  BY <1>1 DEF ListsFound, IsFound, Browsing!DetailIsOfButton, ForceConfirmed, Browsing!WholeShowConfirmed
<1> QED
  BY <1>3, <1>4

\* What a search finds is stored under the query that found it, its rewording included.
LEMMA AnswerStep ==
    ASSUME BrowsingInv, NEW w \in Taps,
           Browsing!Answer(w) \/ Browsing!StoreSearchResults(w) \/ Browsing!BuildRecommendationResponse(w)
    PROVE  BrowsingInv'
<1> DEFINE q == search[w].query
           p == search[w].page
           results == [query |-> q, page |-> p, items |-> Browsing!Items(q, p)]
<1>1. UNCHANGED <<detail, offered, library, confirmed, requests>> /\ q \in Queries /\ p \in Nat
  BY DEF BrowsingInv, BrowsingTyped, QueriesKnown, Browsing!Answer, Browsing!StoreSearchResults,
         Browsing!BuildRecommendationResponse
<1>2. \/ search' = [search EXCEPT ![w] = Browsing!Idle]
      \/ \E other \in Queries, notice \in BOOLEAN :
            search' = [search EXCEPT ![w].pc = "store", ![w].query = other, ![w].notice = notice]
      \/ \E notice \in BOOLEAN : search' = [search EXCEPT ![w].pc = "store", ![w].notice = notice]
  BY DEF Browsing!Answer, Browsing!StoreSearchResults, Browsing!BuildRecommendationResponse,
         Browsing!Reworded
<1>3. \/ UNCHANGED <<session, list>>
      \/ session' = [session EXCEPT !.pending = q] /\ UNCHANGED list
      \/ session' = [session EXCEPT !.results = results] /\ list' = results
  BY DEF Browsing!Answer, Browsing!StoreSearchResults, Browsing!BuildRecommendationResponse,
         Browsing!Stored
<1>4. results \in ResultLists /\ IsFound(results)
  BY <1>1, ItemsAreMedia DEF ResultLists, IsFound
<1> HIDE DEF results
<1>5. BrowsingTyped' /\ QueriesKnown'
  <2> DEFINE Search == [pc : {"idle", "call", "recommend", "store"},
                        query : Queries \cup {"none"}, page : Nat, notice : BOOLEAN]
  <2>1. search' \in [Taps -> Search] /\ \A v \in Taps : search'[v].pc # "idle" => search'[v].query \in Queries
    <3>1. search \in [Taps -> Search] /\ \A v \in Taps : search[v].pc # "idle" => search[v].query \in Queries
      BY DEF BrowsingInv, BrowsingTyped, QueriesKnown
    <3>2. ASSUME NEW e \in Search, e.pc # "idle" => e.query \in Queries, search' = [search EXCEPT ![w] = e]
          PROVE  search' \in [Taps -> Search] /\ \A v \in Taps : search'[v].pc # "idle" => search'[v].query \in Queries
      <4> HIDE DEF Search
      <4> QED
        BY <3>1, <3>2
    <3>3. CASE search' = [search EXCEPT ![w] = Browsing!Idle]
      <4>1. Browsing!Idle \in Search /\ Browsing!Idle.pc = "idle"
        BY DEF Browsing!Idle, Browsing!None
      <4> HIDE DEF Search
      <4> QED
        BY <3>2, <3>3, <4>1
    <3>4. ASSUME NEW other \in Queries, NEW notice \in BOOLEAN,
                 search' = [search EXCEPT ![w].pc = "store", ![w].query = other, ![w].notice = notice]
          PROVE  search' \in [Taps -> Search] /\ \A v \in Taps : search'[v].pc # "idle" => search'[v].query \in Queries
      <4> DEFINE e == [search[w] EXCEPT !.pc = "store", !.query = other, !.notice = notice]
      <4>1. search[w] \in Search
        BY <3>1
      <4>2. e \in Search /\ e.query \in Queries
        BY <4>1
      <4>3. search' = [search EXCEPT ![w] = e]
        BY <3>4
      <4> HIDE DEF Search, e
      <4> QED
        BY <3>2, <4>2, <4>3
    <3>5. ASSUME NEW notice \in BOOLEAN, search' = [search EXCEPT ![w].pc = "store", ![w].notice = notice]
          PROVE  search' \in [Taps -> Search] /\ \A v \in Taps : search'[v].pc # "idle" => search'[v].query \in Queries
      <4> DEFINE e == [search[w] EXCEPT !.pc = "store", !.notice = notice]
      <4>1. search[w] \in Search
        BY <3>1
      <4>2. e \in Search /\ e.query \in Queries
        BY <1>1, <4>1
      <4>3. search' = [search EXCEPT ![w] = e]
        BY <3>5
      <4> HIDE DEF Search, e
      <4> QED
        BY <3>2, <4>2, <4>3
    <3> HIDE DEF Search
    <3> QED
      BY <1>2, <3>3, <3>4, <3>5
  <2>2. /\ session' \in [results : ResultLists, intent : {"wash", "none"},
                         pending : Queries \cup {"none"}, nav : Seq(Queries)]
        /\ list' \in ResultLists
    BY <1>1, <1>3, <1>4 DEF BrowsingInv, BrowsingTyped
  <2> QED
    BY <1>1, <2>1, <2>2 DEF BrowsingInv, BrowsingTyped, QueriesKnown
<1>6. ListsFound'
  BY <1>3, <1>4 DEF BrowsingInv, BrowsingTyped, ListsFound, IsFound
<1>7. (Browsing!DetailIsOfButton /\ ForceConfirmed /\ Browsing!WholeShowConfirmed)'
  BY <1>1 DEF BrowsingInv, Browsing!DetailIsOfButton, ForceConfirmed, Browsing!WholeShowConfirmed
<1> QED
  BY <1>5, <1>6, <1>7 DEF BrowsingInv

\* The media of a button is the only result of its id and its type.
LEMMA DetailStep ==
    ASSUME BrowsingInv, NEW m \in Media,
           \/ \E source \in {"results", "seasons", "request_heat"} : Browsing!DetailHandle(m, source)
           \/ Browsing!HandleSeasons(m)
    PROVE  BrowsingInv'
<1>1. UNCHANGED <<search, list, offered, library, confirmed, requests>>
  BY DEF Browsing!DetailHandle, Browsing!HandleSeasons
<1>2. \/ UNCHANGED session
      \/ /\ session.results.items # {}
         /\ session' = [session EXCEPT !.nav = Append(session.nav, session.results.query)]
  BY DEF Browsing!DetailHandle, Browsing!HandleSeasons, Browsing!PushNavEntry, Browsing!SearchedItems
<1>3. \A i \in Browsing!SearchedItems(m) : i = m
  <2> SUFFICES ASSUME NEW i \in session.results.items, i.id = m.id, i.type = m.type PROVE i = m
    BY DEF Browsing!SearchedItems
  <2>1. i \in [id : Nat \ {0}, type : {"movie", "tv"}] /\ m \in [id : Nat \ {0}, type : {"movie", "tv"}]
    BY ConstantsOK DEF ConstantsOK, BrowsingInv, BrowsingTyped, ResultLists
  <2> QED
    BY <2>1
<1>4. Browsing!DetailIsOfButton'
  BY <1>3 DEF BrowsingInv, Browsing!DetailIsOfButton, Browsing!DetailHandle, Browsing!HandleSeasons,
              Browsing!FromSearch, Browsing!FromTMDB, Browsing!Simple
<1>5. /\ session' \in [results : ResultLists, intent : {"wash", "none"},
                       pending : Queries \cup {"none"}, nav : Seq(Queries)]
      /\ session'.results = session.results
  <2>1. session.results.items # {} => Append(session.nav, session.results.query) \in Seq(Queries)
    BY DEF BrowsingInv, BrowsingTyped, ListsFound, IsFound
  <2> HIDE DEF ResultLists
  <2> QED
    BY <1>2, <2>1 DEF BrowsingInv, BrowsingTyped
<1>6. (BrowsingTyped /\ QueriesKnown /\ ListsFound /\ ForceConfirmed /\ Browsing!WholeShowConfirmed)'
  BY <1>1, <1>5 DEF BrowsingInv, BrowsingTyped, QueriesKnown, ListsFound, IsFound, ForceConfirmed,
                    Browsing!WholeShowConfirmed
<1> QED
  BY <1>4, <1>6 DEF BrowsingInv

\* "Back" shows what the session holds under the name it was stored with, or nothing.
LEMMA SessionStep ==
    ASSUME BrowsingInv,
           \/ Browsing!BackHandle \/ Browsing!HomeOrCancel \/ Browsing!WashHandle
           \/ Browsing!EvictSession \/ Browsing!HandleAddFromSearch
    PROVE  BrowsingInv'
<1>1. UNCHANGED <<search, detail, offered, library, confirmed, requests>>
  BY DEF Browsing!BackHandle, Browsing!HomeOrCancel, Browsing!WashHandle, Browsing!EvictSession,
         Browsing!HandleAddFromSearch
<1>2. Browsing!Nothing \in ResultLists /\ Browsing!Nothing.items = {}
  BY DEF Browsing!Nothing, Browsing!None, ResultLists
<1>3. list' \in {list, session.results, Browsing!Nothing}
  BY DEF Browsing!BackHandle, Browsing!HomeOrCancel, Browsing!WashHandle, Browsing!EvictSession,
         Browsing!HandleAddFromSearch, Browsing!Restored
<1>4. /\ session' \in [results : ResultLists, intent : {"wash", "none"},
                       pending : Queries \cup {"none"}, nav : Seq(Queries)]
      /\ session'.results \in {session.results, Browsing!Nothing}
  <2>1. CASE Browsing!BackHandle
    <3>1. SubSeq(session.nav, 1, Len(session.nav) - 1) \in Seq(Queries)
      BY <2>1 DEF BrowsingInv, BrowsingTyped, Browsing!BackHandle
    <3> QED
      BY <2>1, <3>1 DEF BrowsingInv, BrowsingTyped, Browsing!BackHandle
  <2>2. CASE Browsing!HomeOrCancel \/ Browsing!WashHandle \/ Browsing!HandleAddFromSearch
    BY <2>2 DEF BrowsingInv, BrowsingTyped, Browsing!HomeOrCancel, Browsing!WashHandle,
                Browsing!HandleAddFromSearch, Browsing!None
  <2>3. CASE Browsing!EvictSession
    BY <1>2, <2>3 DEF Browsing!EvictSession, Browsing!Fresh, Browsing!None
  <2> QED
    BY <2>1, <2>2, <2>3
<1>5. ListsFound'
  BY <1>2, <1>3, <1>4 DEF BrowsingInv, ListsFound, IsFound
<1>6. (BrowsingTyped /\ QueriesKnown)'
  BY <1>1, <1>2, <1>3, <1>4 DEF BrowsingInv, BrowsingTyped, QueriesKnown
<1>7. (Browsing!DetailIsOfButton /\ ForceConfirmed /\ Browsing!WholeShowConfirmed)'
  BY <1>1 DEF BrowsingInv, Browsing!DetailIsOfButton, ForceConfirmed, Browsing!WholeShowConfirmed
<1> QED
  BY <1>5, <1>6, <1>7 DEF BrowsingInv

\* A whole show goes on only with the confirmation, which is remembered before anything is asked
\* of the library.
LEMMA RequestStep ==
    ASSUME BrowsingInv, NEW t \in Browsing!Targets,
           \/ \E yes \in BOOLEAN : Browsing!RequestHandle(t, yes)
           \/ Browsing!HandleForceSubscribe(t) \/ Browsing!LibraryChanges(t)
    PROVE  BrowsingInv'
<1>1. UNCHANGED <<session, search, list, detail>>
  BY DEF Browsing!RequestHandle, Browsing!HandleForceSubscribe, Browsing!LibraryChanges
<1>2. /\ library' \subseteq library \cup {t} /\ confirmed \subseteq confirmed'
      /\ \/ offered' = offered
         \/ offered' = offered \cup {[kind |-> "confirm", target |-> t]}
         \/ /\ offered' = offered \cup {[kind |-> "force", target |-> t]}
            /\ Browsing!Whole(t) => t.media \in confirmed'
      /\ \/ requests' = requests
         \/ /\ \E x \in Browsing!TitleFor(t.media) : requests' = requests \cup {[target |-> t, title |-> x]}
            /\ Browsing!Whole(t) => t.media \in confirmed'
  <2>1. CASE \E yes \in BOOLEAN : Browsing!RequestHandle(t, yes)
    BY <2>1 DEF Browsing!RequestHandle, Browsing!Proceed, Browsing!NeedsConfirmation, Browsing!Submit
  <2>2. CASE Browsing!HandleForceSubscribe(t)
    BY <2>2 DEF BrowsingInv, ForceConfirmed, Browsing!HandleForceSubscribe, Browsing!Submit
  <2>3. CASE Browsing!LibraryChanges(t)
    BY <2>3 DEF Browsing!LibraryChanges
  <2> QED
    BY <2>1, <2>2, <2>3
<1>3. BrowsingTyped'
  BY <1>1, <1>2 DEF BrowsingInv, BrowsingTyped
<1>4. ForceConfirmed'
  BY <1>2 DEF BrowsingInv, ForceConfirmed
<1>5. Browsing!WholeShowConfirmed'
  BY <1>2 DEF BrowsingInv, Browsing!WholeShowConfirmed
<1>6. (QueriesKnown /\ ListsFound /\ Browsing!DetailIsOfButton)'
  BY <1>1 DEF BrowsingInv, QueriesKnown, ListsFound, IsFound, Browsing!DetailIsOfButton
<1> QED
  BY <1>3, <1>4, <1>5, <1>6 DEF BrowsingInv

\* The other parts leave this one alone.
LEMMA BrowsingKept == ASSUME BrowsingInv, [Next]_vars PROVE BrowsingInv'
<1>1. CASE Browsing!Next
  <2>1. \A t \in {t \in Browsing!Targets : Browsing!Requestable(t)} : t \in Browsing!Targets
    OBVIOUS
  <2> QED
    BY <1>1, <2>1, AskStep, AnswerStep, DetailStep, SessionStep, RequestStep DEF Browsing!Next
<1>2. CASE UNCHANGED browsingVars
  BY <1>2 DEF browsingVars, BrowsingInv, BrowsingTyped, QueriesKnown, ListsFound, IsFound,
              Browsing!DetailIsOfButton, ForceConfirmed, Browsing!WholeShowConfirmed
<1> QED
  BY <1>1, <1>2 DEF Next, vars, FeedbackStep, DeliveryStep, BrowseStep, HistoryStep, ResourceStep,
                    AccountStep, ProgressStep

\* No show is requested as a whole by who did not confirm that they want all seasons: neither
\* button gets around the question (RequestHandler, HandleForceSubscribe).
THEOREM AskedForAWholeShow == Spec => []WholeShowConfirmed
<1>1. Init => BrowsingInv
  BY BrowsingInit DEF Init
<1>2. BrowsingInv /\ [Next]_vars => BrowsingInv'
  BY BrowsingKept
<1>3. BrowsingInv => WholeShowConfirmed
  BY DEF BrowsingInv, WholeShowConfirmed
<1> QED
  BY <1>1, <1>2, <1>3, PTL DEF Spec

\* A card is about the media of its button and a list is what its query finds, whatever other
\* searches put into the session meanwhile (DetailHandler, StoreSearchResults, BackHandler).
THEOREM CardsSayWhatTheyShow == Spec => []ShowsWhatItSays
<1>1. Init => BrowsingInv
  BY BrowsingInit DEF Init
<1>2. BrowsingInv /\ [Next]_vars => BrowsingInv'
  BY BrowsingKept
<1>3. BrowsingInv => ShowsWhatItSays
  BY DEF BrowsingInv, ListsFound, IsFound, ShowsWhatItSays, Browsing!ShowsWhatItSays,
         Browsing!ListIsOfItsQuery
<1> QED
  BY <1>1, <1>2, <1>3, PTL DEF Spec

-----------------------------------------------------------------------------
(***************************************************************************)
(* Bindings (Accounts). An account is bound to one Telegram user at most,  *)
(* and to one who showed it to be theirs: whoever holds an answer of       *)
(* MoviePilot about an account has proven it, and the table is written     *)
(* under its own exclusion.                                                *)
(***************************************************************************)

Commands == [pc : {"idle", "lookup", "login", "register", "query", "exists", "check", "save"},
             user : Users, name : Nat, password : {"none", "right", "wrong"}, id : Nat]

BindingsTyped ==
    /\ accounts \in [Names -> Nat] /\ nextId \in Nat
    /\ table \in [Users -> [id : Int, name : Int]] /\ legacy \in [Users -> [id : Int, name : Int]]
    /\ link \in [Taps -> Commands]

\* A command is handled while the program runs, and is about a name MoviePilot could have.
Commanded == \A w \in Taps : link[w].pc # "idle" => running /\ link[w].name \in Names

\* Once the account is known, and until it is bound, the user has shown it to be theirs.
ShownFirst ==
    \A w \in Taps : link[w].pc \in {"query", "check", "save"} => <<link[w].user, link[w].name>> \in proven

\* What the old file says was brought along.
BroughtAlong == \A u \in Users : legacy[u] # Bindings!NoRow => <<u, legacy[u].name>> \in proven

BindingsInv ==
    /\ BindingsTyped /\ Commanded /\ ShownFirst /\ BroughtAlong
    /\ Bindings!OneOwner /\ Bindings!OnlyProven
-----------------------------------------------------------------------------
LEMMA IdleTyped == Bindings!Idle \in Commands /\ Bindings!Idle.pc = "idle"
<1>1. (CHOOSE u \in Users : TRUE) \in Users
  BY ConstantsOK DEF ConstantsOK
<1> QED
  BY <1>1 DEF Bindings!Idle, Bindings!NoId, Commands

LEMMA BindingsInit == Bindings!Init => BindingsInv
<1> SUFFICES ASSUME Bindings!Init PROVE BindingsInv
  OBVIOUS
<1>1. 1 \in Bindings!AllNames /\ Bindings!Generated(1) \in Bindings!AllNames
  BY ConstantsOK DEF ConstantsOK, Bindings!AllNames, Bindings!Ids
<1>2. BindingsTyped
  BY IdleTyped DEF BindingsTyped, Bindings!Init, Bindings!NoRow, Bindings!NoId, Bindings!Generated
<1>3. Commanded /\ ShownFirst /\ Bindings!OneOwner
  BY IdleTyped DEF Commanded, ShownFirst, Bindings!OneOwner, Bindings!Init
<1>4. ASSUME NEW u \in Users, NEW t \in {table, legacy}, t[u] # Bindings!NoRow
      PROVE  <<u, t[u].name>> \in proven
  <2>1. t[u].name \in Bindings!AllNames
    BY <1>1, <1>4 DEF Bindings!Init
  <2>2. <<u, t[u].name>> \in Users \X Bindings!AllNames
    BY <2>1
  <2> QED
    BY <2>2 DEF Bindings!Init
<1>5. BroughtAlong /\ Bindings!OnlyProven
  BY <1>4 DEF BroughtAlong, Bindings!OnlyProven
<1> QED
  BY <1>2, <1>3, <1>5 DEF BindingsInv

\* The program does not come up while two users have one account.
LEMMA BootStep == ASSUME BindingsInv, Bindings!Boot \/ Bindings!Restart PROVE BindingsInv'
<1>1. CASE Bindings!Boot
  <2>1. UNCHANGED <<accounts, nextId, link, proven>> /\ running'
    BY <1>1 DEF Bindings!Boot
  <2>2. \/ UNCHANGED <<table, legacy>> /\ ~Bindings!Conflicts(table)
        \/ table' = legacy /\ legacy' \in {legacy, Bindings!Empty} /\ ~Bindings!Conflicts(legacy)
    BY <1>1 DEF Bindings!Boot
  <2>3. Bindings!OneOwner'
    BY <2>2 DEF Bindings!OneOwner, Bindings!Conflicts
  <2>4. Bindings!Empty \in [Users -> [id : Int, name : Int]]
    BY DEF Bindings!Empty, Bindings!NoRow, Bindings!NoId
  <2>5. (BindingsTyped /\ Commanded /\ ShownFirst)'
    BY <2>1, <2>2, <2>4 DEF BindingsInv, BindingsTyped, Commanded, ShownFirst
  <2>6. (BroughtAlong /\ Bindings!OnlyProven)'
    BY <2>1, <2>2 DEF BindingsInv, BroughtAlong, Bindings!OnlyProven, Bindings!Empty
  <2> QED
    BY <2>3, <2>5, <2>6 DEF BindingsInv
<1>2. CASE Bindings!Restart
  <2>1. UNCHANGED <<accounts, nextId, table, legacy, proven>> /\ ~running'
        /\ link' = [w \in Taps |-> Bindings!Idle]
    BY <1>2 DEF Bindings!Restart
  <2> QED
    BY <2>1, IdleTyped DEF BindingsInv, BindingsTyped, Commanded, ShownFirst, BroughtAlong,
                           Bindings!OneOwner, Bindings!OnlyProven
<1> QED
  BY <1>1, <1>2

\* What /link does before it writes: it goes on with proof, or without it to ask for the password.
LEMMA LinkStep ==
    ASSUME BindingsInv, NEW w \in Taps,
           \/ \E u \in Users, n \in Names, p \in {"none", "right", "wrong"} :
                 Bindings!HandleLinkCommand(w, u, n, p)
           \/ Bindings!GetUserByUsername(w) \/ Bindings!LoginUser(w) \/ Bindings!Register(w)
           \/ Bindings!LookupAgain(w) \/ Bindings!CheckOwners(w)
    PROVE  BindingsInv'
<1> DEFINE Goes(pc, id) == link' = [link EXCEPT ![w].pc = pc, ![w].id = id]
           Proof == <<link[w].user, link[w].name>>
<1>1. UNCHANGED <<running, table, legacy>>
  BY DEF Bindings!HandleLinkCommand, Bindings!GetUserByUsername, Bindings!LoginUser,
         Bindings!Register, Bindings!LookupAgain, Bindings!CheckOwners
<1>2. CASE \E u \in Users, n \in Names, p \in {"none", "right", "wrong"} :
              Bindings!HandleLinkCommand(w, u, n, p)
  <2>1. PICK u \in Users, n \in Names, p \in {"none", "right", "wrong"} :
           Bindings!HandleLinkCommand(w, u, n, p)
    BY <1>2
  <2>2. /\ UNCHANGED <<accounts, nextId, proven>> /\ running
        /\ \/ UNCHANGED link
           \/ link' = [link EXCEPT ![w] = [pc |-> "lookup", user |-> u, name |-> n, password |-> p, id |-> 0]]
    BY <2>1 DEF Bindings!HandleLinkCommand, Bindings!NoId
  <2>3. n \in Nat
    BY ConstantsOK DEF ConstantsOK
  <2>4. link' \in [Taps -> Commands] /\ (Commanded /\ ShownFirst)'
    <3> DEFINE new == [pc |-> "lookup", user |-> u, name |-> n, password |-> p, id |-> 0]
    <3>1. new \in Commands /\ new.pc = "lookup" /\ new.name = n
      BY <2>3 DEF Commands
    <3>2. UNCHANGED link \/ link' = [link EXCEPT ![w] = new]
      BY <2>2
    <3> HIDE DEF new
    <3> QED
      BY <1>1, <2>2, <3>1, <3>2 DEF BindingsInv, BindingsTyped, Commanded, ShownFirst
  <2>5. BindingsTyped'
    BY <1>1, <2>2, <2>4 DEF BindingsInv, BindingsTyped
  <2> QED
    BY <1>1, <2>2, <2>4, <2>5 DEF BindingsInv, BroughtAlong, Bindings!OneOwner, Bindings!OnlyProven
<1>3. ASSUME \/ Bindings!GetUserByUsername(w) \/ Bindings!LoginUser(w) \/ Bindings!Register(w)
             \/ Bindings!LookupAgain(w) \/ Bindings!CheckOwners(w)
      PROVE  BindingsInv'
  <2>1. link[w] \in Commands /\ link[w].name \in Names /\ running
    BY <1>3 DEF BindingsInv, BindingsTyped, Commanded, Bindings!GetUserByUsername, Bindings!LoginUser,
                Bindings!Register, Bindings!LookupAgain, Bindings!CheckOwners
  <2>2. accounts[link[w].name] \in Nat /\ link[w].id \in Nat
    BY <2>1 DEF BindingsInv, BindingsTyped, Commands
  <2>3. /\ accounts' \in [Names -> Nat] /\ nextId' \in Nat
        /\ proven' \in {proven, proven \cup {Proof}}
    <3>1. \/ UNCHANGED <<accounts, nextId>>
          \/ accounts' = [accounts EXCEPT ![link[w].name] = nextId] /\ nextId' = nextId + 1
      BY <1>3 DEF Bindings!GetUserByUsername, Bindings!LoginUser, Bindings!Register,
                  Bindings!LookupAgain, Bindings!CheckOwners, Bindings!Created
    <3>2. proven' \in {proven, proven \cup {Proof}}
      BY <1>3 DEF Bindings!GetUserByUsername, Bindings!LoginUser, Bindings!Register,
                  Bindings!LookupAgain, Bindings!CheckOwners, Bindings!Proves
    <3> QED
      BY <3>1, <3>2 DEF BindingsInv, BindingsTyped
  <2>4. \/ link' = [link EXCEPT ![w] = Bindings!Idle]
        \/ \E pc \in {"register", "login", "exists"}, id \in Nat : Goes(pc, id)
        \/ \E pc \in {"query", "check", "save"}, id \in Nat : Goes(pc, id) /\ Proof \in proven'
    <3> USE DEF Bindings!Go, Bindings!Fails, Bindings!Done, Bindings!NoId, Bindings!Proves
    <3>1. CASE Bindings!GetUserByUsername(w)
      BY <2>2, <3>1 DEF Bindings!GetUserByUsername
    <3>2. CASE Bindings!LoginUser(w)
      BY <2>2, <3>2 DEF Bindings!LoginUser
    <3>3. CASE Bindings!Register(w)
      BY <2>2, <3>3 DEF Bindings!Register
    <3>4. CASE Bindings!LookupAgain(w)
      BY <2>2, <3>4 DEF Bindings!LookupAgain, Bindings!AfterLookup, BindingsInv, ShownFirst
    <3>5. CASE Bindings!CheckOwners(w)
      BY <2>2, <3>5 DEF Bindings!CheckOwners, BindingsInv, ShownFirst
    <3> QED
      BY <1>3, <3>1, <3>2, <3>3, <3>4, <3>5
  <2>5. link' \in [Taps -> Commands] /\ Commanded' /\ ShownFirst'
    <3>1. CASE link' = [link EXCEPT ![w] = Bindings!Idle]
      BY <1>1, <2>3, <3>1, IdleTyped DEF BindingsInv, BindingsTyped, Commanded, ShownFirst
    <3>2. ASSUME NEW pc \in {"register", "login", "exists"}, NEW id \in Nat, Goes(pc, id)
          PROVE  link' \in [Taps -> Commands] /\ Commanded' /\ ShownFirst'
      BY <1>1, <2>1, <2>3, <3>2 DEF BindingsInv, BindingsTyped, Commanded, ShownFirst, Commands
    <3>3. ASSUME NEW pc \in {"query", "check", "save"}, NEW id \in Nat, Goes(pc, id), Proof \in proven'
          PROVE  link' \in [Taps -> Commands] /\ Commanded' /\ ShownFirst'
      BY <1>1, <2>1, <2>3, <3>3 DEF BindingsInv, BindingsTyped, Commanded, ShownFirst, Commands
    <3> QED
      BY <2>4, <3>1, <3>2, <3>3
  <2>6. (BroughtAlong /\ Bindings!OneOwner /\ Bindings!OnlyProven)'
    BY <1>1, <2>3 DEF BindingsInv, BroughtAlong, Bindings!OneOwner, Bindings!OnlyProven
  <2> QED
    BY <1>1, <2>3, <2>5, <2>6 DEF BindingsInv, BindingsTyped
<1> QED
  BY <1>2, <1>3

\* A row is written for a user who proved the name, when nobody else has the name or the account.
LEMMA AddMappingStep == ASSUME BindingsInv, NEW w \in Taps, Bindings!AddMapping(w) PROVE BindingsInv'
<1> DEFINE a == link[w]
<1>1. /\ UNCHANGED <<accounts, nextId, running, legacy, proven>> /\ running
      /\ link' = [link EXCEPT ![w] = Bindings!Idle]
      /\ a \in Commands /\ <<a.user, a.name>> \in proven
  BY DEF BindingsInv, BindingsTyped, Commanded, ShownFirst, Bindings!AddMapping, Bindings!Done
<1>2. \/ UNCHANGED table
      \/ /\ table' = [table EXCEPT ![a.user] = [id |-> a.id, name |-> a.name]]
         /\ \A v \in Users \ {a.user} : table[v].id # a.id /\ table[v].name # a.name
  BY DEF Bindings!AddMapping, Bindings!Taken
<1>3. BindingsTyped'
  BY <1>1, <1>2, IdleTyped DEF BindingsInv, BindingsTyped, Commands
<1>4. ASSUME NEW v \in Taps PROVE link'[v] = link[v] \/ link'[v] = Bindings!Idle
  BY <1>1 DEF BindingsInv, BindingsTyped
<1>5. (Commanded /\ ShownFirst)'
  BY <1>1, <1>4, IdleTyped DEF BindingsInv, Commanded, ShownFirst
<1>6. BroughtAlong'
  BY <1>1, <1>2 DEF BindingsInv, BindingsTyped, BroughtAlong
<1>7. Bindings!OneOwner'
  <2>1. CASE UNCHANGED table
    BY <1>1, <2>1 DEF BindingsInv, Bindings!OneOwner, Bindings!Conflicts
  <2>2. CASE /\ table' = [table EXCEPT ![a.user] = [id |-> a.id, name |-> a.name]]
             /\ \A v \in Users \ {a.user} : table[v].id # a.id /\ table[v].name # a.name
    <3>1. SUFFICES ASSUME NEW u \in Users, NEW v \in Users, u # v,
                          table'[u] # Bindings!NoRow, table'[v] # Bindings!NoRow
                   PROVE  table'[u].id # table'[v].id /\ table'[u].name # table'[v].name
      BY DEF Bindings!OneOwner, Bindings!Conflicts
    <3>2. a.user \in Users => table'[a.user].id = a.id /\ table'[a.user].name = a.name
      BY <2>2 DEF BindingsInv, BindingsTyped
    <3>3. ASSUME NEW x \in Users, x # a.user PROVE table'[x] = table[x]
      BY <2>2, <3>3 DEF BindingsInv, BindingsTyped
    <3>4. CASE u = a.user
      BY <2>2, <3>1, <3>2, <3>3, <3>4
    <3>5. CASE v = a.user
      BY <2>2, <3>1, <3>2, <3>3, <3>5
    <3>6. CASE u # a.user /\ v # a.user
      BY <1>1, <3>1, <3>3, <3>6 DEF BindingsInv, Bindings!OneOwner, Bindings!Conflicts
    <3> QED
      BY <3>4, <3>5, <3>6
  <2> QED
    BY Zenon, <1>2, <2>1, <2>2
<1>8. Bindings!OnlyProven'
  BY SMTT(30), <1>1, <1>2 DEF BindingsInv, BindingsTyped, Bindings!OnlyProven
<1> QED
  BY <1>3, <1>5, <1>6, <1>7, <1>8 DEF BindingsInv

\* Unbinding takes a row away; the rest does not touch the table.
LEMMA BindingsAside ==
    ASSUME BindingsInv,
           \/ \E u \in Users : \/ Bindings!HandleUnlinkConfirm(u)
                               \/ Bindings!HandleResetPasswordCommand(u) \/ Bindings!LinkBlockTimeEnds(u)
           \/ \E n \in Names : Bindings!AccountRemoved(n)
    PROVE  BindingsInv'
<1>1. UNCHANGED <<nextId, running, legacy, link, proven>>
  BY DEF Bindings!HandleUnlinkConfirm, Bindings!HandleResetPasswordCommand,
         Bindings!LinkBlockTimeEnds, Bindings!AccountRemoved
<1>2. accounts' = accounts \/ \E n \in Names : accounts' = [accounts EXCEPT ![n] = 0]
  BY DEF Bindings!HandleUnlinkConfirm, Bindings!HandleResetPasswordCommand,
         Bindings!LinkBlockTimeEnds, Bindings!AccountRemoved, Bindings!NoId
<1>3. table' = table \/ \E u \in Users : table' = [table EXCEPT ![u] = Bindings!NoRow]
  BY DEF Bindings!HandleUnlinkConfirm, Bindings!HandleResetPasswordCommand,
         Bindings!LinkBlockTimeEnds, Bindings!AccountRemoved
<1>4. Bindings!NoRow \in [id : Int, name : Int]
  BY DEF Bindings!NoRow, Bindings!NoId
<1>5. (BindingsTyped /\ Commanded /\ ShownFirst /\ BroughtAlong)'
  BY <1>1, <1>2, <1>3, <1>4 DEF BindingsInv, BindingsTyped, Commanded, ShownFirst, BroughtAlong
<1>6. Bindings!OneOwner' /\ Bindings!OnlyProven'
  BY <1>1, <1>3 DEF BindingsInv, BindingsTyped, Bindings!OneOwner, Bindings!Conflicts, Bindings!OnlyProven
<1> QED
  BY <1>5, <1>6 DEF BindingsInv

\* The other parts leave this one alone.
LEMMA BindingsKept == ASSUME BindingsInv, [Next]_vars PROVE BindingsInv'
<1>1. CASE Bindings!Next
  BY <1>1, BootStep, LinkStep, AddMappingStep, BindingsAside DEF Bindings!Next, Bindings!Step
<1>2. CASE UNCHANGED bindingVars
  BY <1>2 DEF bindingVars, BindingsInv, BindingsTyped, Commanded, ShownFirst, BroughtAlong,
              Bindings!OneOwner, Bindings!Conflicts, Bindings!OnlyProven
<1> QED
  BY <1>1, <1>2 DEF Next, vars, FeedbackStep, DeliveryStep, BrowseStep, HistoryStep, ResourceStep,
                    AccountStep, ProgressStep

\* However the commands of several users overlap, fail and are cut short, an account is bound to one
\* user, who logged in under its name, made it or brought it along (HandleLink, AddMapping).
THEOREM BoundToTheRightfulOwner == Spec => []RightfulOwner
<1>1. Init => BindingsInv
  BY BindingsInit DEF Init
<1>2. BindingsInv /\ [Next]_vars => BindingsInv'
  BY BindingsKept
<1>3. BindingsInv => RightfulOwner
  BY DEF BindingsInv, RightfulOwner, Bindings!RightfulOwner
<1> QED
  BY <1>1, <1>2, <1>3, PTL DEF Spec

-----------------------------------------------------------------------------
(***************************************************************************)
(* The progress page (MyRequests). The lists of the page are made by       *)
(* counting and selecting, so what is on a page is told from what was      *)
(* asked for.                                                              *)
(***************************************************************************)

Asked == [media : Media, business : {"request", "wash"}, status : Progress!Statuses,
          sub : DOMAIN Subs \cup {Progress!NoSub}]

ProgressTyped ==
    /\ bound \in Accounts \cup {Progress!NoAccount} /\ remembered \in Accounts \cup {Progress!NoAccount}
    /\ mine \in Seq(Asked) /\ others \in [issues : 0..1, wishes : 0..1]
    /\ "open" \in DOMAIN page /\ page.open \in DOMAIN Subs \cup {Progress!NoSub}

\* What the binding and the session name is, or was, the user's.
AccountsOwned == {bound, remembered} \ {Progress!NoAccount} \subseteq owned

\* So is what a page has under the user's hands.
OpenOwned == page.open # Progress!NoSub => Subs[page.open].account \in owned

ProgressInv ==
    /\ ProgressTyped /\ AccountsOwned /\ OpenOwned
    /\ Progress!NothingMissed /\ Progress!OwnSubscriptions
-----------------------------------------------------------------------------
\* The list counts as everybody does.
LEMMA SameCardinality == \A T : Progress!Cardinality(T) = Cardinality(T)
  BY DEF Progress!Cardinality, Cardinality

\* Every member of a finite set of numbers has its place in the order.
LEMMA NthCovers ==
    ASSUME NEW S, S \subseteq Nat, IsFiniteSet(S), NEW i \in S
    PROVE  \E n \in 1..Cardinality(S) : Progress!Nth(S, n) = i
<1> DEFINE Upto(k) == {j \in S : j <= k}
<1>1. \A k \in S : IsFiniteSet(Upto(k)) /\ Cardinality(Upto(k)) \in Nat
  BY FS_Subset, FS_CardinalityType
<1>2. Cardinality(Upto(i)) \in 1..Cardinality(S)
  <2>1. Cardinality(Upto(i)) <= Cardinality(S) /\ Cardinality(S) \in Nat
    BY FS_Subset, FS_CardinalityType
  <2>2. i \in Upto(i)
    OBVIOUS
  <2>3. Cardinality(Upto(i)) # 0
    BY <1>1, <2>2, FS_EmptySet
  <2> QED
    BY <1>1, <2>1, <2>3
<1>3. ASSUME NEW k \in S, Cardinality(Upto(k)) = Cardinality(Upto(i)) PROVE k = i
  <2>1. k \in Nat /\ i \in Nat
    OBVIOUS
  <2>2. CASE k <= i
    <3>1. Upto(k) \subseteq Upto(i)
      <4> SUFFICES ASSUME NEW j \in S, j <= k PROVE j <= i
        OBVIOUS
      <4>1. j \in Nat
        OBVIOUS
      <4> QED
        BY <2>1, <2>2, <4>1
    <3>2. Upto(k) = Upto(i)
      BY <1>1, <1>3, <3>1, FS_Subset
    <3>3. i \in Upto(k)
      BY <3>2
    <3> QED
      BY <2>1, <2>2, <3>3
  <2>3. CASE i <= k
    <3>1. Upto(i) \subseteq Upto(k)
      <4> SUFFICES ASSUME NEW j \in S, j <= i PROVE j <= k
        OBVIOUS
      <4>1. j \in Nat
        OBVIOUS
      <4> QED
        BY <2>1, <2>3, <4>1
    <3>2. Upto(k) = Upto(i)
      BY <1>1, <1>3, <3>1, FS_Subset
    <3>3. k \in Upto(i)
      BY <3>2
    <3> QED
      BY <2>1, <2>3, <3>3
  <2> QED
    BY <2>1, <2>2, <2>3
<1>4. (CHOOSE k \in S : Cardinality(Upto(k)) = Cardinality(Upto(i))) = i
  BY <1>3
<1> QED
  BY <1>2, <1>4, SameCardinality DEF Progress!Nth

\* A set of places in a list has a last one.
LEMMA LastOf ==
    ASSUME NEW n \in Nat, NEW J, J \subseteq 1..n, J # {}
    PROVE  \E j \in J : \A k \in J : k <= j
<1> DEFINE R == {p \in Nat \X Nat : p[1] < p[2]}
           T == {m \in Nat : n - m \in J}
<1>1. IsWellFoundedOn(R, Nat)
  BY NatLessThanWellFounded DEF OpToRel
<1>2. T # {}
  <2>1. PICK j \in J : TRUE
    OBVIOUS
  <2>2. n - j \in Nat /\ n - (n - j) = j
    OBVIOUS
  <2> QED
    BY <2>1, <2>2
<1> HIDE DEF R
<1>3. PICK x \in T : \A y \in T : <<y, x>> \notin R
  BY <1>1, <1>2, WFMin
<1>4. ASSUME NEW k \in J PROVE k <= n - x
  <2>1. n - k \in Nat /\ n - (n - k) = k
    OBVIOUS
  <2>2. n - k \in T
    BY <2>1
  <2>3. ~(n - k < x)
    BY <1>3, <2>1, <2>2 DEF R
  <2> QED
    BY <2>1, <2>3
<1>5. n - x \in J
  OBVIOUS
<1> QED
  BY <1>4, <1>5

\* Of what the user asked for under one key, the newest candidate joins.
LEMMA NewestJoins ==
    ASSUME ProgressTyped, NEW subs, NEW i \in DOMAIN mine, Progress!Candidate(mine[i], subs)
    PROVE  \E j \in DOMAIN mine : Progress!Joins(j, subs) /\ Progress!About(mine[j]) = Progress!About(mine[i])
<1> DEFINE J == {j \in DOMAIN mine : Progress!Candidate(mine[j], subs)
                                      /\ Progress!Key(mine[j]) = Progress!Key(mine[i])}
<1>1. Len(mine) \in Nat /\ DOMAIN mine = 1..Len(mine)
  BY DEF ProgressTyped
<1>2. J \subseteq 1..Len(mine) /\ J # {}
  BY <1>1
<1> HIDE DEF J
<1>3. PICK j \in J : \A k \in J : k <= j
  BY <1>1, <1>2, LastOf
<1> USE DEF J
<1>4. j \in DOMAIN mine /\ Progress!Candidate(mine[j], subs) /\ Progress!Key(mine[j]) = Progress!Key(mine[i])
  OBVIOUS
<1>5. ASSUME NEW k \in j + 1..Len(mine), Progress!Candidate(mine[k], subs),
             Progress!Key(mine[k]) = Progress!Key(mine[j])
      PROVE  FALSE
  <2>1. k \in DOMAIN mine /\ j \in Nat /\ k \in Int /\ j < k
    BY <1>1, <1>4
  <2>2. k \in J
    BY <1>4, <1>5, <2>1
  <2> QED
    BY <1>3, <2>1, <2>2
<1>6. Progress!Joins(j, subs)
  BY <1>4, <1>5 DEF Progress!Joins
<1> QED
  BY <1>4, <1>6 DEF Progress!Key, Progress!About

\* What is the user's own and has no subscription on the list is there by itself.
LEMMA ExtraLists ==
    ASSUME ProgressTyped, NEW subs
    PROVE  /\ \E S : Progress!Extra(subs) \in Seq(S)
           /\ \A i \in DOMAIN mine : Progress!Candidate(mine[i], subs) =>
                 \E k \in DOMAIN Progress!Extra(subs) : Progress!Extra(subs)[k].about = Progress!About(mine[i])
<1> DEFINE J == {i \in DOMAIN mine : Progress!Joins(i, subs)}
           N == Cardinality(J)
           New(n) == mine[Progress!Nth(J, N + 1 - n)]
           E(n) == Progress!Entry(Progress!About(New(n)), Progress!NoSub, Progress!Shown(New(n)))
<1>1. Len(mine) \in Nat /\ DOMAIN mine = 1..Len(mine)
  BY DEF ProgressTyped
<1>2. J \subseteq Nat /\ IsFiniteSet(J) /\ N \in Nat
  <2>1. IsFiniteSet(1..Len(mine))
    BY <1>1, FS_Interval
  <2> QED
    BY <1>1, <2>1, FS_Subset, FS_CardinalityType
<1>3. Progress!Extra(subs) = [n \in 1..N |-> E(n)]
  BY SameCardinality DEF Progress!Extra
<1>4. \E S : Progress!Extra(subs) \in Seq(S)
  <2> HIDE DEF N, E
  <2>1. [n \in 1..N |-> E(n)] \in Seq({E(n) : n \in 1..N})
    BY <1>2
  <2> QED
    BY <1>3, <2>1
<1>5. ASSUME NEW i \in DOMAIN mine, Progress!Candidate(mine[i], subs)
      PROVE  \E k \in DOMAIN Progress!Extra(subs) : Progress!Extra(subs)[k].about = Progress!About(mine[i])
  <2>1. PICK j \in J : Progress!About(mine[j]) = Progress!About(mine[i])
    BY <1>5, NewestJoins
  <2> HIDE DEF J
  <2>2. PICK n \in 1..N : Progress!Nth(J, n) = j
    BY <1>2, NthCovers
  <2>3. N + 1 - n \in 1..N /\ N + 1 - (N + 1 - n) = n
    BY <1>2
  <2>4. E(N + 1 - n).about = Progress!About(mine[j])
    BY <2>2, <2>3 DEF Progress!Entry
  <2>5. N + 1 - n \in DOMAIN Progress!Extra(subs) /\ Progress!Extra(subs)[N + 1 - n] = E(N + 1 - n)
    <3> HIDE DEF E, N
    <3> QED
      BY <1>3, <2>3
  <2> QED
    BY <2>1, <2>4, <2>5
<1> QED
  BY <1>4, <1>5

\* Whatever subscriptions the list has, it has all the user waits for.
LEMMA MergedListsAll ==
    ASSUME ProgressTyped, NEW subs, subs \subseteq DOMAIN Subs
    PROVE  /\ \E S : Progress!MergePendingReviews(subs) \in Seq(S)
           /\ \A i \in DOMAIN mine : Progress!Open(mine[i]) =>
                 \E k \in DOMAIN Progress!MergePendingReviews(subs) :
                    Progress!MergePendingReviews(subs)[k].about = Progress!About(mine[i])
<1> DEFINE N == Cardinality(subs)
           E(n) == Progress!SubEntry(Progress!Nth(subs, n))
           I(n) == Progress!Entry(<<"issue", n>>, Progress!NoSub, "issue_open")
           extra == Progress!Extra(subs)
           own == extra \o Progress!Issues
           listed == [n \in 1..N |-> E(n)]
<1>1. subs \subseteq Nat /\ IsFiniteSet(subs) /\ N \in Nat
  <2>1. Len(Subs) \in Nat /\ DOMAIN Subs = 1..Len(Subs)
    BY ConstantsOK DEF ConstantsOK
  <2>2. IsFiniteSet(1..Len(Subs))
    BY <2>1, FS_Interval
  <2> QED
    BY <2>1, <2>2, FS_Subset, FS_CardinalityType
<1>2. PICK S : extra \in Seq(S)
  BY ExtraLists
<1>3. PICK B : Progress!Issues \in Seq(B)
  <2>1. others.issues \in Nat
    BY DEF ProgressTyped
  <2> HIDE DEF I
  <2>2. [n \in 1..others.issues |-> I(n)] \in Seq({I(n) : n \in 1..others.issues})
    BY <2>1
  <2> QED
    BY <2>2 DEF Progress!Issues, I
<1>4. PICK C : listed \in Seq(C)
  <2> HIDE DEF N, E
  <2>1. listed \in Seq({E(n) : n \in 1..N})
    BY <1>1
  <2> QED
    BY <2>1
<1>5. Progress!MergePendingReviews(subs) = own \o listed
  BY SameCardinality DEF Progress!MergePendingReviews
<1> HIDE DEF E, I, N, extra, own, listed
<1>6. /\ own \in Seq(S \cup B)
      /\ \A i \in DOMAIN extra : \E k \in DOMAIN own : own[k] = extra[i]
  BY <1>2, <1>3 DEF own
<1>7. /\ own \o listed \in Seq((S \cup B) \cup C)
      /\ \A i \in DOMAIN own : \E k \in DOMAIN (own \o listed) : (own \o listed)[k] = own[i]
      /\ \A i \in DOMAIN listed : \E k \in DOMAIN (own \o listed) : (own \o listed)[k] = listed[i]
  <2>1. own \in Seq(S \cup B)
    BY <1>6
  <2>2. own \o listed \in Seq((S \cup B) \cup C) /\ Len(own \o listed) = Len(own) + Len(listed)
    BY <1>4, <2>1
  <2>3. \A i \in DOMAIN own : i \in DOMAIN (own \o listed) /\ (own \o listed)[i] = own[i]
    BY <1>4, <2>1, <2>2
  <2>4. \A i \in DOMAIN listed : Len(own) + i \in DOMAIN (own \o listed)
                                 /\ (own \o listed)[Len(own) + i] = listed[i]
    BY <1>4, <2>1, <2>2
  <2> QED
    BY <2>2, <2>3, <2>4
<1>8. ASSUME NEW i \in DOMAIN mine, Progress!Open(mine[i])
      PROVE  \E k \in DOMAIN (own \o listed) : (own \o listed)[k].about = Progress!About(mine[i])
  <2>1. CASE Progress!Key(mine[i]) \notin {Progress!SubKey(s) : s \in subs}
    <3>1. Progress!Candidate(mine[i], subs)
      BY <1>8, <2>1 DEF Progress!Candidate, Progress!Open
    <3>2. PICK j \in DOMAIN extra : extra[j].about = Progress!About(mine[i])
      BY <3>1, ExtraLists DEF extra
    <3> QED
      BY <1>6, <1>7, <3>2
  <2>2. CASE \E s \in subs : Progress!Key(mine[i]) = Progress!SubKey(s)
    <3>1. PICK s \in subs : Progress!Key(mine[i]) = Progress!SubKey(s)
      BY <2>2
    <3>2. PICK n \in 1..N : Progress!Nth(subs, n) = s
      BY <1>1, NthCovers DEF N
    <3>3. n \in DOMAIN listed /\ listed[n] = E(n)
      BY DEF listed
    <3>4. E(n).about = Progress!About(mine[i])
      BY <3>1, <3>2 DEF E, Progress!SubEntry, Progress!Entry, Progress!Key, Progress!About
    <3> QED
      BY <1>7, <3>3, <3>4
  <2> QED
    BY <2>1, <2>2
<1> QED
  BY <1>5, <1>7, <1>8

\* So a page that is shown misses nothing, with the wishes under it or without.
LEMMA ShowsMissNothing ==
    ASSUME ProgressInv, NEW subs, subs \subseteq DOMAIN Subs, NEW wishing \in BOOLEAN, NEW p,
           Progress!Shows(IF wishing THEN Progress!MergePendingReviews(subs) \o Progress!Wishes
                          ELSE Progress!MergePendingReviews(subs), p)
    PROVE  ~missed' /\ "open" \in DOMAIN page' /\ page'.open = Progress!NoSub
<1> DEFINE merged == Progress!MergePendingReviews(subs)
           shown == IF wishing THEN merged \o Progress!Wishes ELSE merged
<1>1. ProgressTyped
  BY DEF ProgressInv
<1>2. PICK S : merged \in Seq(S)
  BY <1>1, MergedListsAll
<1>3. PICK W : Progress!Wishes \in Seq(W)
  <2> DEFINE E(n) == Progress!Entry(<<"wish", n>>, Progress!NoSub, "wish")
  <2>1. others.wishes \in Nat
    BY <1>1 DEF ProgressTyped
  <2> HIDE DEF E
  <2>2. [n \in 1..others.wishes |-> E(n)] \in Seq({E(n) : n \in 1..others.wishes})
    BY <2>1
  <2> QED
    BY <2>2 DEF Progress!Wishes, E
<1> HIDE DEF merged
<1>4. \A i \in DOMAIN merged : \E k \in DOMAIN shown : shown[k] = merged[i]
  <2>1. CASE wishing
    <3>1. \A i \in DOMAIN merged : i \in DOMAIN (merged \o Progress!Wishes)
                                   /\ (merged \o Progress!Wishes)[i] = merged[i]
      BY <1>2, <1>3
    <3> QED
      BY <2>1, <3>1
  <2>2. CASE ~wishing
    BY <2>2
  <2> QED
    BY <2>1, <2>2
<1>5. ASSUME NEW i \in DOMAIN mine, Progress!Open(mine[i])
      PROVE  Progress!About(mine[i]) \in {e.about : e \in Progress!ToSet(shown)}
  <2>1. PICK k \in DOMAIN merged : merged[k].about = Progress!About(mine[i])
    BY <1>1, <1>5, MergedListsAll DEF merged
  <2>2. PICK n \in DOMAIN shown : shown[n] = merged[k]
    BY <1>4
  <2> HIDE DEF shown
  <2>3. shown[n] \in Progress!ToSet(shown) /\ shown[n].about = Progress!About(mine[i])
    BY <2>1, <2>2 DEF Progress!ToSet
  <2> QED
    BY <2>3
<1>6. Progress!Shows(shown, p)
  BY DEF merged
<1> HIDE DEF shown
<1>7. missed' = (missed \/ \E i \in DOMAIN mine :
                    Progress!Open(mine[i])
                    /\ Progress!About(mine[i]) \notin {e.about : e \in Progress!ToSet(shown)})
  BY <1>6 DEF Progress!Shows
<1>8. ~missed'
  BY <1>5, <1>7 DEF ProgressInv, Progress!NothingMissed
<1>9. page' = [list |-> shown, number |-> Progress!Clamp(p, shown), open |-> Progress!NoSub]
  BY <1>6 DEF Progress!Shows
<1> QED
  BY <1>8, <1>9

LEMMA ProgressInit == Progress!Init => ProgressInv
<1> SUFFICES ASSUME Progress!Init PROVE ProgressInv
  OBVIOUS
<1>1. page = [list |-> <<>>, number |-> 0, open |-> Progress!NoSub]
  BY DEF Progress!Init, Progress!NoPage
<1>2. ProgressTyped
  <2>1. <<>> \in Seq(Asked)
    OBVIOUS
  <2> QED
    BY <1>1, <2>1 DEF ProgressTyped, Progress!Init
<1>3. AccountsOwned /\ OpenOwned /\ Progress!NothingMissed /\ Progress!OwnSubscriptions
  BY <1>1 DEF AccountsOwned, OpenOwned, Progress!NothingMissed, Progress!OwnSubscriptions, Progress!Init
<1> QED
  BY <1>2, <1>3 DEF ProgressInv

LEMMA UserSubsKnown ==
    ASSUME NEW a PROVE /\ Progress!UserSubs(a) \subseteq DOMAIN Subs
                       /\ \A s \in Progress!UserSubs(a) : Subs[s].account = a
  BY DEF Progress!UserSubs

\* A list of the user's, by the session or the command.
LEMMA ListStep == ASSUME ProgressInv, Progress!Requests \/ Progress!BuildForCommand PROVE ProgressInv'
<1>1. /\ UNCHANGED <<bound, owned, others, mine, touched>>
      /\ remembered' \in {remembered, bound}
  BY DEF Progress!Requests, Progress!BuildForCommand, Progress!HandleRequestsWithPage, Progress!world
<1>2. \/ UNCHANGED <<page, missed>>
      \/ \E subs, p : \E wishing \in BOOLEAN :
            /\ subs \subseteq DOMAIN Subs
            /\ Progress!Shows(IF wishing THEN Progress!MergePendingReviews(subs) \o Progress!Wishes
                              ELSE Progress!MergePendingReviews(subs), p)
  <2> DEFINE Reads(subs, p, wishing) ==
                 Progress!Shows(IF wishing THEN Progress!MergePendingReviews(subs) \o Progress!Wishes
                                ELSE Progress!MergePendingReviews(subs), p)
  <2>1. \A subs, p : /\ Progress!Shows(Progress!MergePendingReviews(subs), p) => Reads(subs, p, FALSE)
                     /\ Progress!Shows(Progress!MergePendingReviews(subs) \o Progress!Wishes, p)
                           => Reads(subs, p, TRUE)
    OBVIOUS
  <2> HIDE DEF Reads
  <2>2. \/ UNCHANGED <<page, missed>>
        \/ \E subs, p : \E wishing \in BOOLEAN : subs \subseteq DOMAIN Subs /\ Reads(subs, p, wishing)
    <3>1. CASE Progress!Requests
      <4>1. PICK p : Progress!HandleRequestsWithPage(p)
        BY <3>1 DEF Progress!Requests
      <4> DEFINE account == IF remembered # Progress!NoAccount THEN remembered ELSE bound
      <4>2. \/ UNCHANGED <<page, missed>>
            \/ Progress!Shows(Progress!MergePendingReviews({}), p)
            \/ Progress!Shows(Progress!MergePendingReviews(Progress!UserSubs(account)) \o Progress!Wishes, p)
        BY <4>1 DEF Progress!HandleRequestsWithPage
      <4> QED
        BY <2>1, <4>2, UserSubsKnown
    <3>2. CASE Progress!BuildForCommand
      <4>1. \/ Progress!Shows(Progress!MergePendingReviews({}), 1)
            \/ Progress!Shows(Progress!MergePendingReviews(Progress!UserSubs(bound)), 1)
        BY <3>2 DEF Progress!BuildForCommand
      <4> QED
        BY <2>1, <4>1, UserSubsKnown
    <3> QED
      BY <3>1, <3>2
  <2> QED
    BY <2>2 DEF Reads
<1>3. \/ UNCHANGED <<page, missed>>
      \/ ~missed' /\ "open" \in DOMAIN page' /\ page'.open = Progress!NoSub
  BY <1>2, ShowsMissNothing
<1>4. ProgressTyped'
  BY <1>1, <1>3 DEF ProgressInv, ProgressTyped
<1>5. AccountsOwned'
  BY <1>1 DEF ProgressInv, AccountsOwned
<1>6. OpenOwned'
  BY <1>1, <1>3 DEF ProgressInv, OpenOwned
<1>7. Progress!NothingMissed' /\ Progress!OwnSubscriptions'
  BY <1>1, <1>3 DEF ProgressInv, Progress!NothingMissed, Progress!OwnSubscriptions
<1> QED
  BY <1>4, <1>5, <1>6, <1>7 DEF ProgressInv

\* What is opened belongs to the account of the session, and what is done to it is done to what is open.
LEMMA ItemStep ==
    ASSUME ProgressInv, \/ Progress!HandleInfo \/ Progress!HandleReshare \/ Progress!HandleCancel
                        \/ Progress!HandleCancelReview
    PROVE  ProgressInv'
<1>1. UNCHANGED <<bound, remembered, owned, others, missed>>
  BY DEF Progress!HandleInfo, Progress!HandleReshare, Progress!HandleCancel, Progress!HandleCancelReview,
         Progress!world
<1>2. \/ UNCHANGED page
      \/ \E s \in Progress!UserSubs(remembered) : page' = [page EXCEPT !.open = s]
  BY DEF Progress!HandleInfo, Progress!HandleReshare, Progress!HandleCancel, Progress!HandleCancelReview
<1>3. \/ UNCHANGED touched
      \/ page.open # Progress!NoSub /\ touched' = touched \cup {page.open}
  BY DEF Progress!HandleInfo, Progress!HandleReshare, Progress!HandleCancel, Progress!HandleCancelReview
<1>4. UNCHANGED mine \/ \E i \in DOMAIN mine : mine' = [mine EXCEPT ![i].status = "cancelled"]
  <2> DEFINE pending == {i \in DOMAIN mine : mine[i].status = "pending" /\ mine[i].business = "request"}
             newest  == CHOOSE i \in pending : \A j \in pending : j <= i
  <2>1. CASE UNCHANGED mine
    BY <2>1
  <2>2. CASE pending # {} /\ mine' = [mine EXCEPT ![newest].status = "cancelled"]
    <3>1. Len(mine) \in Nat /\ pending \subseteq 1..Len(mine)
      BY DEF ProgressInv, ProgressTyped
    <3> HIDE DEF pending
    <3>2. \E i \in pending : \A j \in pending : j <= i
      BY <2>2, <3>1, LastOf
    <3>3. newest \in pending
      BY <3>2
    <3> HIDE DEF newest
    <3>4. newest \in DOMAIN mine
      BY <3>3 DEF pending
    <3> QED
      BY <2>2, <3>4
  <2> QED
    BY <2>1, <2>2 DEF Progress!HandleInfo, Progress!HandleReshare, Progress!HandleCancel,
                      Progress!HandleCancelReview, Progress!world
<1>5. mine' \in Seq(Asked)
  <2>1. mine \in Seq(Asked) /\ "cancelled" \in Progress!Statuses
    BY DEF ProgressInv, ProgressTyped, Progress!Statuses
  <2>2. ASSUME NEW i \in DOMAIN mine, mine' = [mine EXCEPT ![i].status = "cancelled"]
        PROVE  mine' \in Seq(Asked)
    <3>1. [mine[i] EXCEPT !.status = "cancelled"] \in Asked
      <4>1. mine[i] \in Asked
        BY <2>1
      <4> QED
        BY <2>1, <4>1 DEF Asked
    <3>2. mine' = [mine EXCEPT ![i] = [mine[i] EXCEPT !.status = "cancelled"]]
      BY <2>2
    <3> HIDE DEF Asked
    <3> QED
      BY <2>1, <3>1, <3>2
  <2> QED
    BY <1>4, <2>1, <2>2
<1>6. ASSUME NEW s \in Progress!UserSubs(remembered)
      PROVE  s \in DOMAIN Subs /\ Subs[s].account \in owned
  <2>1. s \in DOMAIN Subs /\ Subs[s].account = remembered
    BY UserSubsKnown
  <2>2. Subs[s].account \in Accounts
    <3>1. Subs \in Seq([media : Media, account : Accounts])
      BY ConstantsOK DEF ConstantsOK
    <3> DEFINE S == [media : Media, account : Accounts]
    <3>2. s \in DOMAIN Subs /\ Subs \in Seq(S)
      BY <2>1, <3>1
    <3> HIDE DEF S
    <3>3. Subs[s] \in S
      BY <3>2
    <3> QED
      BY <3>3 DEF S
  <2>3. remembered # Progress!NoAccount
    BY <2>1, <2>2, ConstantsOK DEF ConstantsOK, Progress!NoAccount
  <2> QED
    BY <2>1, <2>3 DEF ProgressInv, AccountsOwned
<1>7. ProgressTyped'
  BY <1>1, <1>2, <1>5, <1>6 DEF ProgressInv, ProgressTyped
<1>8. AccountsOwned' /\ OpenOwned'
  BY <1>1, <1>2, <1>6 DEF ProgressInv, ProgressTyped, AccountsOwned, OpenOwned
<1>9. Progress!NothingMissed' /\ Progress!OwnSubscriptions'
  BY <1>1, <1>3 DEF ProgressInv, Progress!NothingMissed, Progress!OwnSubscriptions, OpenOwned
<1> QED
  BY <1>7, <1>8, <1>9 DEF ProgressInv

\* The session remembers what the user was bound to.
LEMMA RememberedStep ==
    ASSUME ProgressInv,
           \/ Progress!WarmupSubscriptionCache \/ Progress!Expire \/ Progress!SessionEnds
           \/ Progress!AlreadyLinked \/ Progress!Unlink \/ \E a \in Accounts : Progress!Link(a)
    PROVE  ProgressInv'
<1>1. UNCHANGED <<others, mine, page, touched, missed>>
  BY DEF Progress!WarmupSubscriptionCache, Progress!Expire, Progress!SessionEnds, Progress!AlreadyLinked,
         Progress!Unlink, Progress!Link, Progress!world, Progress!chat
<1>2. /\ owned \subseteq owned'
      /\ bound' \in {bound, Progress!NoAccount} \cup (Accounts \cap owned')
      /\ remembered' \in {remembered, bound, Progress!NoAccount}
  BY DEF Progress!WarmupSubscriptionCache, Progress!Expire, Progress!SessionEnds, Progress!AlreadyLinked,
         Progress!Unlink, Progress!Link, Progress!world, Progress!chat
<1>3. ProgressTyped' /\ AccountsOwned'
  BY <1>1, <1>2 DEF ProgressInv, ProgressTyped, AccountsOwned
<1>4. OpenOwned' /\ Progress!NothingMissed' /\ Progress!OwnSubscriptions'
  BY <1>1, <1>2 DEF ProgressInv, OpenOwned, Progress!NothingMissed, Progress!OwnSubscriptions
<1> QED
  BY <1>3, <1>4 DEF ProgressInv

\* A page that was shown stays as it was when the requests move on.
LEMMA RequestsMove ==
    ASSUME ProgressInv,
           \/ \E m \in Media, b \in {"request", "wash"} : Progress!CreateRequest(m, b)
           \/ \E i \in DOMAIN mine : Progress!Approve(i) \/ Progress!Arrives(i)
           \/ \E i \in DOMAIN mine, s \in {"approved", "rejected", "failed", "completed"} : Progress!Decide(i, s)
    PROVE  ProgressInv'
<1>1. UNCHANGED <<bound, remembered, owned, others, page, touched, missed>>
  BY DEF Progress!CreateRequest, Progress!Approve, Progress!Arrives, Progress!Decide, Progress!world, Progress!chat
<1>2. \/ UNCHANGED mine
      \/ \E r \in Asked : mine' = Append(mine, r)
      \/ \E i \in DOMAIN mine, st \in Progress!Statuses, s \in DOMAIN Subs \cup {Progress!NoSub} :
            mine' = [mine EXCEPT ![i].status = st, ![i].sub = s]
  <2>1. CASE \E m \in Media, b \in {"request", "wash"} : Progress!CreateRequest(m, b)
    <3>1. PICK m \in Media, b \in {"request", "wash"} : Progress!CreateRequest(m, b)
      BY <2>1
    <3> DEFINE r == [media |-> m, business |-> b, status |-> "pending", sub |-> Progress!NoSub]
    <3>2. r \in Asked
      BY DEF Asked, Progress!Statuses
    <3>3. mine' = Append(mine, r)
      BY <3>1 DEF Progress!CreateRequest
    <3> QED
      BY <3>2, <3>3
  <2>2. CASE \E i \in DOMAIN mine : Progress!Approve(i) \/ Progress!Arrives(i)
    <3>1. PICK i \in DOMAIN mine : Progress!Approve(i) \/ Progress!Arrives(i)
      BY SMTT(30), <2>2
    <3>2. UNCHANGED mine \/ \E st \in Progress!Statuses, s \in DOMAIN Subs :
             mine' = [mine EXCEPT ![i].status = st, ![i].sub = s]
      BY <3>1 DEF Progress!Approve, Progress!Arrives, Progress!Statuses
    <3> QED
      BY <3>2
  <2>3. CASE \E i \in DOMAIN mine, s \in {"approved", "rejected", "failed", "completed"} : Progress!Decide(i, s)
    <3>0. PICK i \in DOMAIN mine, s \in {"approved", "rejected", "failed", "completed"} : Progress!Decide(i, s)
      BY <2>3
    <3>1. mine[i] \in Asked
      BY DEF ProgressInv, ProgressTyped
    <3>2. [mine[i] EXCEPT !.status = s] = [[mine[i] EXCEPT !.status = s] EXCEPT !.sub = mine[i].sub]
      BY <3>1 DEF Asked
    <3>3. mine' = [mine EXCEPT ![i] = [mine[i] EXCEPT !.status = s]]
      BY <3>0 DEF Progress!Decide
    <3>4. mine' = [mine EXCEPT ![i].status = s, ![i].sub = mine[i].sub]
      BY <3>2, <3>3
    <3>5. s \in Progress!Statuses /\ mine[i].sub \in DOMAIN Subs \cup {Progress!NoSub}
      BY <3>1 DEF Asked, Progress!Statuses
    <3>6. PICK k \in DOMAIN Subs \cup {Progress!NoSub} : k = mine[i].sub
      BY <3>5
    <3>7. mine' = [mine EXCEPT ![i].status = s, ![i].sub = k]
      BY <3>4, <3>6
    <3> QED
      BY <3>5, <3>6, <3>7
  <2> QED
    BY <2>1, <2>2, <2>3
<1>3. mine' \in Seq(Asked)
  <2>1. mine \in Seq(Asked)
    BY DEF ProgressInv, ProgressTyped
  <2>2. ASSUME NEW i \in DOMAIN mine, NEW st \in Progress!Statuses,
               NEW s \in DOMAIN Subs \cup {Progress!NoSub},
               mine' = [mine EXCEPT ![i].status = st, ![i].sub = s]
        PROVE  mine' \in Seq(Asked)
    <3>1. mine[i] \in Asked
      BY <2>1
    <3> DEFINE r == [[mine[i] EXCEPT !.status = st] EXCEPT !.sub = s]
    <3>2. r \in Asked
      BY <3>1 DEF Asked
    <3>3. mine' = [mine EXCEPT ![i] = r]
      BY <2>2
    <3> HIDE DEF r, Asked
    <3> QED
      BY <2>1, <3>2, <3>3
  <2>3. ASSUME NEW r \in Asked, mine' = Append(mine, r) PROVE mine' \in Seq(Asked)
    BY <2>1, <2>3
  <2> QED
    BY <1>2, <2>1, <2>2, <2>3
<1>4. ProgressInv'
  BY <1>1, <1>3 DEF ProgressInv, ProgressTyped, AccountsOwned, OpenOwned, Progress!NothingMissed,
                    Progress!OwnSubscriptions
<1> QED
  BY SMTT(30), <1>4

\* The other parts leave this one alone.
LEMMA ProgressKept == ASSUME ProgressInv, [Next]_vars PROVE ProgressInv'
<1>1. CASE Progress!Next
  BY <1>1, ListStep, ItemStep, RememberedStep, RequestsMove DEF Progress!Next
<1>2. CASE UNCHANGED progressVars
  BY <1>2 DEF progressVars, ProgressInv, ProgressTyped, AccountsOwned, OpenOwned,
              Progress!NothingMissed, Progress!OwnSubscriptions
<1> QED
  BY <1>1, <1>2 DEF Next, vars, FeedbackStep, DeliveryStep, BrowseStep, HistoryStep, ResourceStep,
                    AccountStep, ProgressStep

\* No page misses what the user waits for, and nobody searches again for or cancels what never was
\* theirs, however long the session remembers an account (MergePendingReviews, HandleInfo).
THEOREM PageOfTheUser == Spec => []PageIsTheUsers
<1>1. Init => ProgressInv
  BY ProgressInit DEF Init
<1>2. ProgressInv /\ [Next]_vars => ProgressInv'
  BY ProgressKept
<1>3. ProgressInv => PageIsTheUsers
  BY DEF ProgressInv, PageIsTheUsers, Progress!PageIsTheUsers
<1> QED
  BY <1>1, <1>2, <1>3, PTL DEF Spec

-----------------------------------------------------------------------------
(***************************************************************************)
(* Issues (Feedback). A draft in a session, the issue it becomes and what  *)
(* the user was told of it agree, through confirmations that overtake one  *)
(* another, replies of administrators and restarts.                        *)
(***************************************************************************)

\* What a session holds of an issue: none, or its number.
Marks == 0..MaxIssues

Talks == [step : {"none", "type", "media_title", "description", "confirm"}, tmdb : {"none", "0", "id"},
          title : {"none", "some"}, require : BOOLEAN, draft : Nat, talk : Marks, feedback : Marks,
          issue : Marks, asks : SUBSET {"admin", "time"}]
Hands == [pc : {"idle", "create", "clear"}, user : Users, draft : Nat, gone : BOOLEAN]
Filed == [status : Issues!Statuses, owner : Users, draft : Nat, replies : SUBSET {"admin", "user"}]

InMemory == issues["memory"]
InFile   == issues["file"]

IssuesTyped ==
    /\ talk \in [Users -> Talks] /\ hand \in [Taps -> Hands]
    /\ issues \in [Issues!Stores -> [Issues!Numbers -> Filed]]
    /\ nextID \in Nat \ {0} /\ drafts \in Nat /\ free \subseteq Users

\* Memory has nothing that the file does not have, under a number that was given out.
Numbered ==
    \A i \in Issues!Numbers :
        /\ InMemory[i].status # "none" => InFile[i].status # "none"
        /\ InFile[i].status # "none" => i < nextID
        /\ InMemory[i].draft \in {0, InFile[i].draft}

\* What was announced is so in memory and in the file.
AnnouncedInBoth ==
    /\ told \subseteq Issues!Numbers /\ settled \subseteq Issues!Numbers
    /\ \A i \in told : InMemory[i].status # "none" /\ InFile[i].status # "none"
    /\ \A i \in settled : InMemory[i].status \in {"fixed", "closed"} /\ InFile[i].status \in {"fixed", "closed"}

\* Drafts are numbered as they are made.
DraftsCounted ==
    /\ \A u \in Users : talk[u].draft <= drafts
    /\ \A t \in Taps : hand[t].draft <= drafts /\ (hand[t].pc # "idle" => hand[t].draft # 0)
    /\ \A i \in Issues!Numbers : InFile[i].draft <= drafts

\* A draft is in one session, the one of who confirms it, unless that is gone.
DraftsOwned ==
    /\ \A u, v \in Users : talk[u].draft = talk[v].draft /\ talk[u].draft # 0 => u = v
    /\ \A t \in Taps, u \in Users : hand[t].pc # "idle" /\ talk[u].draft = hand[t].draft =>
          u = hand[t].user /\ hand[t].gone = FALSE

\* One handler has a draft in hand, and of a draft that was filed none is left, except with the
\* handler that has still to clear it.
FiledOnce ==
    /\ \A s, t \in Taps : s # t /\ hand[s].pc # "idle" /\ hand[t].pc # "idle"
                          /\ hand[s].draft = hand[t].draft => hand[s].draft \in together
    /\ \A i \in Issues!Numbers : InFile[i].draft # 0 /\ InFile[i].draft \notin together =>
          /\ \A j \in Issues!Numbers : InFile[j].draft = InFile[i].draft => j = i
          /\ \A t \in Taps : hand[t].pc = "create" => hand[t].draft # InFile[i].draft
          /\ \A u \in Users : talk[u].draft = InFile[i].draft =>
                \E t \in Taps : hand[t].pc = "clear" /\ hand[t].draft = InFile[i].draft

IssuesInv ==
    /\ IssuesTyped /\ Numbered /\ AnnouncedInBoth /\ DraftsCounted /\ DraftsOwned /\ FiledOnce
    /\ Issues!CommandEscapes
-----------------------------------------------------------------------------
LEMMA MarksAreNumbers == 0 \in Marks /\ Issues!Numbers = Marks \ {0}
  BY ConstantsOK DEF ConstantsOK, Marks, Issues!Numbers

LEMMA IssuesInit == Issues!Init => IssuesInv
<1> SUFFICES ASSUME Issues!Init PROVE IssuesInv
  OBVIOUS
<1>1. /\ talk = [u \in Users |-> Issues!NewSession] /\ hand = [t \in Taps |-> Issues!Idle]
      /\ issues = [x \in Issues!Stores |-> [i \in Issues!Numbers |-> Issues!Unused]]
      /\ nextID = 1 /\ drafts = 0 /\ together = {} /\ free = {} /\ told = {} /\ settled = {}
  BY DEF Issues!Init
<1>2. Issues!NewSession \in Talks /\ Issues!NewSession.draft = 0
  BY MarksAreNumbers DEF Issues!NewSession, Talks
<1>3. Issues!Idle \in Hands /\ Issues!Idle.pc = "idle" /\ Issues!Idle.draft = 0
  BY ConstantsOK DEF ConstantsOK, Issues!Idle, Hands
<1>4. Issues!Unused \in Filed /\ Issues!Unused.status = "none" /\ Issues!Unused.draft = 0
  BY ConstantsOK DEF ConstantsOK, Issues!Unused, Issues!Statuses, Filed
<1>5. /\ \A i \in Issues!Numbers : InMemory[i] = Issues!Unused /\ InFile[i] = Issues!Unused
  BY <1>1 DEF InMemory, InFile, Issues!Stores
<1>6. IssuesTyped
  BY <1>1, <1>2, <1>3, <1>4 DEF IssuesTyped
<1>7. Numbered /\ AnnouncedInBoth
  BY <1>1, <1>4, <1>5 DEF Numbered, AnnouncedInBoth
<1>8. DraftsCounted /\ DraftsOwned /\ FiledOnce
  BY <1>1, <1>2, <1>3, <1>4, <1>5 DEF DraftsCounted, DraftsOwned, FiledOnce
<1>9. Issues!CommandEscapes
  BY <1>1 DEF Issues!CommandEscapes
<1> QED
  BY <1>6, <1>7, <1>8, <1>9 DEF IssuesInv

\* Each store has an issue, or none, under each number.
LEMMA StoresTyped ==
    ASSUME IssuesTyped
    PROVE  InMemory \in [Issues!Numbers -> Filed] /\ InFile \in [Issues!Numbers -> Filed]
  BY DEF IssuesTyped, Issues!Stores, InMemory, InFile

\* What a step saves, or leaves in memory: no issue that was not there, none with another draft.
Follows(all) ==
    /\ all \in [Issues!Numbers -> Filed]
    /\ \A i \in Issues!Numbers : /\ all[i].draft \in {0, InMemory[i].draft}
                                 /\ all[i].status # "none" => InMemory[i].status # "none"

\* Issues that change as they were announced, in the file or in memory alone.
LEMMA IssuesFollow ==
    ASSUME IssuesInv, NEW all, Follows(all),
           \/ issues' = [x \in Issues!Stores |-> all]
           \/ issues' = [issues EXCEPT !["memory"] = all] /\ settled' \subseteq settled
           \/ UNCHANGED issues /\ settled' \subseteq settled /\ all = InMemory,
           told' \subseteq told, settled' \subseteq Issues!Numbers, UNCHANGED nextID,
           \A i \in told' : all[i].status # "none",
           \A i \in settled' : all[i].status \in {"fixed", "closed"}
    PROVE  /\ issues' \in [Issues!Stores -> [Issues!Numbers -> Filed]] /\ Numbered' /\ AnnouncedInBoth'
           /\ \A i \in Issues!Numbers : InFile'[i].draft \in {0, InFile[i].draft}
<1>1. /\ InMemory \in [Issues!Numbers -> Filed] /\ InFile \in [Issues!Numbers -> Filed]
      /\ issues \in [Issues!Stores -> [Issues!Numbers -> Filed]]
  BY StoresTyped DEF IssuesInv, IssuesTyped
<1>2. all \in [Issues!Numbers -> Filed]
  BY DEF Follows
<1>3. issues' \in [Issues!Stores -> [Issues!Numbers -> Filed]]
  BY <1>1, <1>2 DEF Issues!Stores
<1>4. InMemory' = all /\ (InFile' = all \/ (InFile' = InFile /\ settled' \subseteq settled))
  BY <1>1 DEF InMemory, InFile, Issues!Stores
<1>5. Numbered'
  BY <1>4 DEF IssuesInv, Numbered, Follows
<1>6. AnnouncedInBoth'
  BY <1>4 DEF IssuesInv, AnnouncedInBoth
<1>7. \A i \in Issues!Numbers : InFile'[i].draft \in {0, InFile[i].draft}
  BY <1>4 DEF IssuesInv, Numbered, Follows
<1> QED
  BY <1>3, <1>5, <1>6, <1>7

\* Drafts that are kept or dropped, while no handler takes a step.
LEMMA DraftsFollow ==
    ASSUME IssuesInv, talk' \in [Users -> Talks], UNCHANGED <<hand, drafts, together>>,
           \A u \in Users : talk'[u].draft \in {0, talk[u].draft},
           \A i \in Issues!Numbers : InFile'[i].draft \in {0, InFile[i].draft}
    PROVE  DraftsCounted' /\ DraftsOwned' /\ FiledOnce'
<1>1. talk \in [Users -> Talks] /\ hand \in [Taps -> Hands] /\ drafts \in Nat
  BY DEF IssuesInv, IssuesTyped
<1>2. DraftsCounted'
  BY <1>1 DEF IssuesInv, DraftsCounted
<1>3. DraftsOwned'
  BY <1>1 DEF IssuesInv, DraftsCounted, DraftsOwned
<1>4. FiledOnce'
  BY <1>1 DEF IssuesInv, FiledOnce
<1> QED
  BY <1>2, <1>3, <1>4

\* A session that a handler changes for its user, who is not free of questions then.
LEMMA TalkMoves ==
    ASSUME IssuesInv, NEW u \in Users, NEW s \in Talks,
           talk' = [talk EXCEPT ![u] = s], free' \subseteq free, u \notin free' \/ ~Issues!Pending(u)'
    PROVE  talk' \in [Users -> Talks] /\ Issues!CommandEscapes'
<1>1. talk \in [Users -> Talks]
  BY DEF IssuesInv, IssuesTyped
<1>2. talk' \in [Users -> Talks] /\ \A v \in Users : v # u => talk'[v] = talk[v]
  BY <1>1
<1>3. Issues!CommandEscapes'
  BY <1>2 DEF IssuesInv, Issues!CommandEscapes, Issues!Pending
<1> QED
  BY <1>2, <1>3

\* A handler that does nothing but change the session of its user.
LEMMA TurnStep ==
    ASSUME IssuesInv, NEW u \in Users, NEW s \in Talks, s.draft \in {0, talk[u].draft},
           Issues!Turns(u, s)
    PROVE  IssuesInv'
<1>1. /\ talk' = [talk EXCEPT ![u] = s] /\ free' = free \ {u}
      /\ UNCHANGED <<hand, issues, nextID, drafts, together, told, settled>>
  BY DEF Issues!Turns, Issues!Asked
<1>2. talk' \in [Users -> Talks] /\ Issues!CommandEscapes'
  BY <1>1, TalkMoves
<1>3. talk \in [Users -> Talks]
  BY DEF IssuesInv, IssuesTyped
<1>4. \A v \in Users : talk'[v].draft \in {0, talk[v].draft}
  BY <1>1, <1>3
<1>5. InFile' = InFile /\ InMemory' = InMemory
  BY <1>1 DEF InFile, InMemory
<1>6. DraftsCounted' /\ DraftsOwned' /\ FiledOnce'
  BY <1>1, <1>2, <1>4, <1>5, DraftsFollow
<1>7. (IssuesTyped /\ Numbered /\ AnnouncedInBoth)'
  BY <1>1, <1>2, <1>5 DEF IssuesInv, IssuesTyped, Numbered, AnnouncedInBoth
<1> QED
  BY <1>2, <1>6, <1>7 DEF IssuesInv

\* The questions of a report.
LEMMA ReportSteps ==
    ASSUME IssuesInv, NEW u \in Users,
           \/ Issues!HandleStart(u) \/ Issues!ScopeMedia(u) \/ Issues!ScopeGeneral(u)
           \/ Issues!HandleTypeSelect(u) \/ Issues!CancelHandler(u) \/ Issues!HomeButton(u)
    PROVE  IssuesInv'
<1>1. talk[u] \in Talks
  BY DEF IssuesInv, IssuesTyped
<1>2. CASE Issues!HandleStart(u)
  <2>1. PICK title \in {"none", "some"} :
           Issues!Turns(u, [talk[u] EXCEPT !.step = "type", !.tmdb = "id", !.title = title])
    BY <1>2 DEF Issues!HandleStart
  <2> DEFINE s == [talk[u] EXCEPT !.step = "type", !.tmdb = "id", !.title = title]
  <2>2. s \in Talks /\ s.draft = talk[u].draft
    BY <1>1 DEF Talks
  <2> QED
    BY <2>1, <2>2, TurnStep
<1>3. CASE Issues!ScopeMedia(u)
  <2> DEFINE s == [talk[u] EXCEPT !.step = "type", !.tmdb = "0", !.title = "none", !.require = TRUE]
  <2>1. s \in Talks /\ s.draft = talk[u].draft
    BY <1>1 DEF Talks
  <2> QED
    BY <1>3, <2>1, TurnStep DEF Issues!ScopeMedia
<1>4. ASSUME NEW s \in Talks, s.draft = talk[u].draft, NEW id \in {"0", "id"}, NEW needs \in BOOLEAN
      PROVE  /\ Issues!TypeSelected(s, id, needs) \in Talks
             /\ Issues!TypeSelected(s, id, needs).draft = talk[u].draft
  BY <1>4 DEF Talks, Issues!TypeSelected
<1>5. CASE Issues!ScopeGeneral(u)
  <2> DEFINE s == [talk[u] EXCEPT !.require = FALSE]
  <2>1. s \in Talks /\ s.draft = talk[u].draft
    BY <1>1 DEF Talks
  <2>2. /\ Issues!TypeSelected(s, "0", FALSE) \in Talks
        /\ Issues!TypeSelected(s, "0", FALSE).draft = talk[u].draft
    BY <1>4, <2>1
  <2> QED
    BY <1>5, <2>2, TurnStep DEF Issues!ScopeGeneral
<1>6. CASE Issues!HandleTypeSelect(u)
  <2>1. PICK id \in {"0", "id"}, other \in BOOLEAN :
           Issues!Turns(u, Issues!TypeSelected(talk[u], id, ~other \/ talk[u].require))
    BY <1>6 DEF Issues!HandleTypeSelect
  <2>2. (~other \/ talk[u].require) \in BOOLEAN
    OBVIOUS
  <2>3. /\ Issues!TypeSelected(talk[u], id, ~other \/ talk[u].require) \in Talks
        /\ Issues!TypeSelected(talk[u], id, ~other \/ talk[u].require).draft = talk[u].draft
    BY <1>1, <1>4, <2>2
  <2> QED
    BY <2>1, <2>3, TurnStep
<1>7. Issues!WithoutDraft(talk[u]) \in Talks /\ Issues!WithoutDraft(talk[u]).draft = 0
  BY <1>1 DEF Talks, Issues!WithoutDraft
<1>8. CASE Issues!CancelHandler(u) \/ Issues!HomeButton(u)
  BY <1>7, <1>8, TurnStep DEF Issues!CancelHandler, Issues!HomeButton
<1> QED
  BY <1>2, <1>3, <1>5, <1>6, <1>8

\* What a tap on a list or on a panel makes the next text be about.
LEMMA PanelSteps ==
    ASSUME IssuesInv, NEW u \in Users,
           \/ Issues!HandleViewList(u) \/ Issues!HandleNotifCustomTime(u) \/ Issues!HandleAdminAddStart(u)
           \/ \E i \in Issues!Numbers : \/ Issues!HandleViewDetail(u, i) \/ Issues!HandleFeedbackReply(u, i)
                                        \/ Issues!HandleIssueReply(u, i)
    PROVE  IssuesInv'
<1>1. talk[u] \in Talks /\ Issues!Numbers \subseteq Marks /\ 0 \in Marks
  BY MarksAreNumbers DEF IssuesInv, IssuesTyped
<1>2. ASSUME NEW i \in Marks
      PROVE  /\ [talk[u] EXCEPT !.talk = i] \in Talks /\ [talk[u] EXCEPT !.talk = i].draft = talk[u].draft
             /\ [talk[u] EXCEPT !.feedback = i] \in Talks /\ [talk[u] EXCEPT !.feedback = i].draft = talk[u].draft
             /\ [talk[u] EXCEPT !.issue = i] \in Talks /\ [talk[u] EXCEPT !.issue = i].draft = talk[u].draft
  BY <1>1 DEF Talks
<1>3. ASSUME NEW q \in {"admin", "time"}
      PROVE  /\ [talk[u] EXCEPT !.asks = talk[u].asks \cup {q}] \in Talks
             /\ [talk[u] EXCEPT !.asks = talk[u].asks \cup {q}].draft = talk[u].draft
  BY <1>1 DEF Talks
<1>4. CASE Issues!HandleViewList(u)
  BY <1>1, <1>2, <1>4, TurnStep DEF Issues!HandleViewList
<1>5. CASE Issues!HandleNotifCustomTime(u) \/ Issues!HandleAdminAddStart(u)
  BY <1>3, <1>5, TurnStep DEF Issues!HandleNotifCustomTime, Issues!HandleAdminAddStart
<1>6. ASSUME NEW i \in Issues!Numbers, Issues!HandleViewDetail(u, i) PROVE IssuesInv'
  <2>1. \E k \in Marks : Issues!Turns(u, [talk[u] EXCEPT !.talk = k])
    BY <1>1, <1>6 DEF Issues!HandleViewDetail
  <2> QED
    BY <1>2, <2>1, TurnStep
<1>7. ASSUME NEW i \in Issues!Numbers, Issues!HandleFeedbackReply(u, i) \/ Issues!HandleIssueReply(u, i)
      PROVE  IssuesInv'
  <2>1. i \in Marks
    BY <1>1
  <2> QED
    BY <1>2, <1>7, <2>1, TurnStep DEF Issues!HandleFeedbackReply, Issues!HandleIssueReply
<1> QED
  BY <1>4, <1>5, <1>6, <1>7

\* A command leaves no question open.
LEMMA CommandStep == ASSUME IssuesInv, NEW u \in Users, Issues!Command(u) PROVE IssuesInv'
<1> DEFINE s == Issues!ClearPendingInputStates(talk[u])
<1>1. /\ talk' = [talk EXCEPT ![u] = s] /\ free' = free \cup {u}
      /\ UNCHANGED <<hand, issues, nextID, drafts, together, told, settled>>
  BY DEF Issues!Command
<1>2. talk \in [Users -> Talks] /\ talk[u] \in Talks
  BY DEF IssuesInv, IssuesTyped
<1>3. /\ s \in Talks /\ s.draft = 0 /\ s.step = "none" /\ s.talk = 0 /\ s.feedback = 0 /\ s.issue = 0
      /\ s.asks = {}
  BY <1>2, MarksAreNumbers DEF Talks, Issues!ClearPendingInputStates, Issues!WithoutDraft
<1> HIDE DEF s
<1>4. talk' \in [Users -> Talks] /\ talk'[u] = s /\ \A v \in Users : v # u => talk'[v] = talk[v]
  BY <1>1, <1>2, <1>3
<1>5. Issues!CommandEscapes'
  BY <1>1, <1>3, <1>4 DEF IssuesInv, Issues!CommandEscapes, Issues!Pending
<1>6. InFile' = InFile /\ InMemory' = InMemory
  BY <1>1 DEF InFile, InMemory
<1>7. DraftsCounted' /\ DraftsOwned' /\ FiledOnce'
  BY <1>1, <1>3, <1>4, <1>6, DraftsFollow
<1>8. (IssuesTyped /\ Numbered /\ AnnouncedInBoth)'
  BY <1>1, <1>4, <1>6 DEF IssuesInv, IssuesTyped, Numbered, AnnouncedInBoth
<1> QED
  BY <1>5, <1>7, <1>8 DEF IssuesInv

\* A step that moves issues and sessions, and no draft.
LEMMA IssueStep ==
    ASSUME IssuesInv, NEW all, Follows(all),
           \/ issues' = [x \in Issues!Stores |-> all]
           \/ issues' = [issues EXCEPT !["memory"] = all] /\ settled' \subseteq settled
           \/ UNCHANGED issues /\ settled' \subseteq settled /\ all = InMemory,
           told' \subseteq told, settled' \subseteq Issues!Numbers,
           UNCHANGED <<nextID, hand, drafts, together>>,
           \A i \in told' : all[i].status # "none",
           \A i \in settled' : all[i].status \in {"fixed", "closed"}, free' \subseteq free,
           talk' \in [Users -> Talks], \A u \in Users : talk'[u].draft \in {0, talk[u].draft},
           Issues!CommandEscapes'
    PROVE  IssuesInv'
<1>1. /\ issues' \in [Issues!Stores -> [Issues!Numbers -> Filed]] /\ Numbered' /\ AnnouncedInBoth'
      /\ \A i \in Issues!Numbers : InFile'[i].draft \in {0, InFile[i].draft}
  BY IssuesFollow
<1>2. DraftsCounted' /\ DraftsOwned' /\ FiledOnce'
  BY <1>1, DraftsFollow
<1>3. IssuesTyped'
  BY <1>1 DEF IssuesInv, IssuesTyped
<1> QED
  BY <1>1, <1>2, <1>3 DEF IssuesInv

\* The issue of one number changes, its draft stays or it is removed.
LEMMA OneFollows ==
    ASSUME IssuesInv, NEW i \in Issues!Numbers, NEW issue \in Filed,
           issue.draft \in {0, InMemory[i].draft},
           issue.status = "none" \/ InMemory[i].status # "none"
    PROVE  /\ Follows([InMemory EXCEPT ![i] = issue])
           /\ [InMemory EXCEPT ![i] = issue][i] = issue
           /\ \A j \in Issues!Numbers : j # i => [InMemory EXCEPT ![i] = issue][j] = InMemory[j]
<1>1. InMemory \in [Issues!Numbers -> Filed]
  BY StoresTyped DEF IssuesInv
<1> QED
  BY <1>1 DEF Follows

LEMMA AllFollows == ASSUME IssuesInv PROVE Follows(InMemory)
  BY StoresTyped DEF IssuesInv, Follows

\* What is announced is so in memory.
LEMMA AnnouncedInMemory ==
    ASSUME IssuesInv
    PROVE  /\ told \subseteq Issues!Numbers /\ settled \subseteq Issues!Numbers
           /\ \A i \in told : InMemory[i].status # "none"
           /\ \A i \in settled : InMemory[i].status \in {"fixed", "closed"}
  BY DEF IssuesInv, AnnouncedInBoth

\* Sessions that stay, and a user who was asked.
LEMMA Unasked ==
    ASSUME IssuesInv, UNCHANGED talk, free' \subseteq free
    PROVE  /\ talk' \in [Users -> Talks] /\ \A u \in Users : talk'[u].draft \in {0, talk[u].draft}
           /\ Issues!CommandEscapes'
  BY DEF IssuesInv, IssuesTyped, Issues!CommandEscapes, Issues!Pending

\* The session of one user, who was asked or is not asked anything.
LEMMA OneAsked ==
    ASSUME IssuesInv, NEW u \in Users, NEW s \in Talks, s.draft \in {0, talk[u].draft},
           talk' = [talk EXCEPT ![u] = s], free' \subseteq free, u \notin free' \/ ~Issues!Pending(u)'
    PROVE  /\ talk' \in [Users -> Talks] /\ \A v \in Users : talk'[v].draft \in {0, talk[v].draft}
           /\ Issues!CommandEscapes'
<1>1. talk' \in [Users -> Talks] /\ Issues!CommandEscapes'
  BY TalkMoves
<1>2. talk \in [Users -> Talks]
  BY DEF IssuesInv, IssuesTyped
<1> QED
  BY <1>1, <1>2

\* A word on an issue.
LEMMA ReplyFollows ==
    ASSUME IssuesInv, NEW i \in Issues!Numbers, Issues!Exists(i), NEW kind \in {"admin", "user"}
    PROVE  LET all == Issues!With(i, Issues!Replied(InMemory[i], kind))
           IN /\ Follows(all) /\ \A j \in told : all[j].status # "none"
              /\ \A j \in settled : all[j].status \in {"fixed", "closed"}
<1> DEFINE issue == Issues!Replied(InMemory[i], kind)
<1>1. InMemory[i] \in Filed /\ InMemory[i].status # "none"
  BY StoresTyped DEF IssuesInv, Issues!Exists, InMemory
<1>2. /\ issue \in Filed /\ issue.draft = InMemory[i].draft /\ issue.status # "none"
      /\ InMemory[i].status \in {"fixed", "closed"} => issue.status = InMemory[i].status
  BY <1>1 DEF Issues!Replied, Filed, Issues!Statuses
<1>3. Issues!With(i, issue) = [InMemory EXCEPT ![i] = issue]
  BY DEF Issues!With, InMemory
<1> HIDE DEF issue
<1>4. /\ Follows([InMemory EXCEPT ![i] = issue]) /\ [InMemory EXCEPT ![i] = issue][i] = issue
      /\ \A j \in Issues!Numbers : j # i => [InMemory EXCEPT ![i] = issue][j] = InMemory[j]
  BY <1>1, <1>2, OneFollows
<1>5. \A j \in told : [InMemory EXCEPT ![i] = issue][j].status # "none"
  BY <1>2, <1>4, AnnouncedInMemory
<1>6. \A j \in settled : [InMemory EXCEPT ![i] = issue][j].status \in {"fixed", "closed"}
  BY <1>2, <1>4, AnnouncedInMemory
<1> QED
  BY <1>3, <1>4, <1>5, <1>6 DEF issue

LEMMA StatusFollows ==
    ASSUME IssuesInv, NEW i \in Issues!Numbers, Issues!Exists(i),
           NEW status \in {"processing", "fixed", "closed"}
    PROVE  LET all == Issues!SetStatus(i, status)
           IN /\ Follows(all) /\ all[i].status = status /\ \A j \in told : all[j].status # "none"
              /\ \A j \in settled \ {i} : all[j].status \in {"fixed", "closed"}
<1> DEFINE issue == [InMemory[i] EXCEPT !.status = status]
<1>1. InMemory \in [Issues!Numbers -> Filed] /\ InMemory[i] \in Filed /\ InMemory[i].status # "none"
  BY StoresTyped DEF IssuesInv, Issues!Exists, InMemory
<1>2. issue \in Filed /\ issue.draft = InMemory[i].draft /\ issue.status = status
  BY <1>1 DEF Filed, Issues!Statuses
<1>3. Issues!SetStatus(i, status) = [InMemory EXCEPT ![i] = issue]
  BY DEF Issues!SetStatus, InMemory
<1> HIDE DEF issue
<1>4. /\ Follows([InMemory EXCEPT ![i] = issue]) /\ [InMemory EXCEPT ![i] = issue][i] = issue
      /\ \A j \in Issues!Numbers : j # i => [InMemory EXCEPT ![i] = issue][j] = InMemory[j]
  BY <1>1, <1>2, OneFollows
<1>5. \A j \in told : [InMemory EXCEPT ![i] = issue][j].status # "none"
  BY <1>2, <1>4, AnnouncedInMemory
<1>6. \A j \in settled \ {i} : [InMemory EXCEPT ![i] = issue][j].status \in {"fixed", "closed"}
  BY <1>4, AnnouncedInMemory
<1> QED
  BY <1>2, <1>3, <1>4, <1>5, <1>6

\* The owner closes an issue, and who rates it or raises it writes what is there.
LEMMA OwnerSteps ==
    ASSUME IssuesInv, NEW u \in Users, NEW i \in Issues!Numbers,
           Issues!CloseByUser(u, i) \/ Issues!Touch(u, i)
    PROVE  IssuesInv'
<1>1. CASE Issues!CloseByUser(u, i)
  <2> DEFINE all == Issues!SetStatus(i, "closed")
  <2>1. /\ Issues!Exists(i) /\ free' = free \ {u}
        /\ UNCHANGED <<hand, nextID, drafts, together, told>>
    BY <1>1 DEF Issues!CloseByUser, Issues!Asked
  <2>2. /\ Follows(all) /\ all[i].status = "closed" /\ \A j \in told : all[j].status # "none"
        /\ \A j \in settled \ {i} : all[j].status \in {"fixed", "closed"}
    BY <2>1, StatusFollows
  <2>3. \/ /\ issues' = [x \in Issues!Stores |-> all] /\ settled' = settled \cup {i}
           /\ talk' = [talk EXCEPT ![u].talk = 0]
        \/ issues' = [issues EXCEPT !["memory"] = all] /\ UNCHANGED <<talk, settled>>
    BY <1>1 DEF Issues!CloseByUser, Issues!Saved, Issues!Unsaved
  <2> HIDE DEF all
  <2>4. /\ talk' \in [Users -> Talks] /\ \A v \in Users : talk'[v].draft \in {0, talk[v].draft}
        /\ Issues!CommandEscapes'
    <3>1. CASE UNCHANGED talk
      BY <2>1, <3>1, Unasked
    <3>2. CASE talk' = [talk EXCEPT ![u].talk = 0]
      <4> DEFINE s == [talk[u] EXCEPT !.talk = 0]
      <4>1. s \in Talks /\ s.draft = talk[u].draft
        BY MarksAreNumbers DEF IssuesInv, IssuesTyped, Talks
      <4>2. talk' = [talk EXCEPT ![u] = s]
        BY <3>2
      <4> HIDE DEF s
      <4> QED
        BY <2>1, <4>1, <4>2, OneAsked
    <3> QED
      BY <2>3, <3>1, <3>2
  <2>5. settled' \subseteq Issues!Numbers /\ \A j \in settled' : all[j].status \in {"fixed", "closed"}
    BY <2>2, <2>3, AnnouncedInMemory
  <2> QED
    BY <2>1, <2>2, <2>3, <2>4, <2>5, IssueStep
<1>2. CASE Issues!Touch(u, i)
  <2>1. /\ UNCHANGED <<talk, free, hand, nextID, drafts, together, told, settled>>
        /\ \/ issues' = [x \in Issues!Stores |-> InMemory]
           \/ issues' = [issues EXCEPT !["memory"] = InMemory]
    BY <1>2 DEF Issues!Touch, Issues!Kept, Issues!Saved, Issues!Unsaved, Issues!history, InMemory
  <2>2. /\ talk' \in [Users -> Talks] /\ \A v \in Users : talk'[v].draft \in {0, talk[v].draft}
        /\ Issues!CommandEscapes'
    BY <2>1, Unasked
  <2>3. Follows(InMemory)
    BY AllFollows
  <2> QED
    BY <2>1, <2>2, <2>3, AnnouncedInMemory, IssueStep
<1> QED
  BY <1>1, <1>2

\* A ready-made answer of an administrator.
LEMMA TemplateStep ==
    ASSUME IssuesInv, NEW a \in Users, NEW i \in Issues!Numbers, Issues!HandleFeedbackTemplate(a, i)
    PROVE  IssuesInv'
<1> DEFINE all == Issues!With(i, Issues!Replied(InMemory[i], "admin"))
           owner == InMemory[i].owner
<1>1. /\ Issues!Exists(i) /\ UNCHANGED <<hand, nextID, drafts, together, told, settled>>
      /\ \/ /\ issues' = [x \in Issues!Stores |-> all]
            /\ talk' = (IF owner = a THEN talk ELSE [talk EXCEPT ![owner].talk = i])
            /\ free' = free \ {owner}
         \/ issues' = [issues EXCEPT !["memory"] = all] /\ UNCHANGED <<talk, free>>
  BY DEF Issues!HandleFeedbackTemplate, Issues!Saved, Issues!Unsaved, Issues!Asked, InMemory
<1>2. /\ Follows(all) /\ \A j \in told : all[j].status # "none"
      /\ \A j \in settled : all[j].status \in {"fixed", "closed"}
  BY <1>1, ReplyFollows
<1>3. owner \in Users
  BY StoresTyped DEF IssuesInv, Filed
<1>4. i \in Marks
  BY MarksAreNumbers
<1> HIDE DEF all, owner
<1>5. /\ talk' \in [Users -> Talks] /\ \A v \in Users : talk'[v].draft \in {0, talk[v].draft}
      /\ Issues!CommandEscapes'
  <2>1. CASE UNCHANGED talk
    BY <1>1, <2>1, Unasked
  <2>2. CASE talk' = [talk EXCEPT ![owner].talk = i] /\ free' = free \ {owner}
    <3> DEFINE s == [talk[owner] EXCEPT !.talk = i]
    <3>1. s \in Talks /\ s.draft = talk[owner].draft
      BY SMTT(30), <1>3, <1>4 DEF IssuesInv, IssuesTyped, Talks
    <3>2. talk' = [talk EXCEPT ![owner] = s] /\ free' \subseteq free /\ owner \notin free'
      BY <2>2
    <3> HIDE DEF s
    <3> QED
      BY <1>3, <3>1, <3>2, OneAsked
  <2> QED
    BY <1>1, <2>1, <2>2
<1> QED
  BY <1>1, <1>2, <1>5, AnnouncedInMemory, IssueStep

\* A status that an administrator sets, and issues that are too old.
LEMMA StatusSteps ==
    ASSUME IssuesInv, NEW i \in Issues!Numbers,
           \/ \E a \in Users, status \in {"processing", "fixed", "closed"} :
                 Issues!UpdateStatusWithNotify(a, i, status)
           \/ Issues!CleanupOldIssues(i)
    PROVE  IssuesInv'
<1>1. /\ UNCHANGED <<talk, free, hand, nextID, drafts, together>>
  BY DEF Issues!UpdateStatusWithNotify, Issues!CleanupOldIssues
<1>2. /\ talk' \in [Users -> Talks] /\ \A v \in Users : talk'[v].draft \in {0, talk[v].draft}
      /\ Issues!CommandEscapes'
  BY <1>1, Unasked
<1>3. ASSUME NEW a \in Users, NEW status \in {"processing", "fixed", "closed"},
             Issues!UpdateStatusWithNotify(a, i, status)
      PROVE  IssuesInv'
  <2> DEFINE all == Issues!SetStatus(i, status)
  <2>1. /\ Issues!Exists(i) /\ UNCHANGED told
        /\ \/ /\ issues' = [x \in Issues!Stores |-> all]
              /\ settled' = IF status = "processing" THEN settled \ {i} ELSE settled \cup {i}
           \/ issues' = [issues EXCEPT !["memory"] = InMemory] /\ UNCHANGED settled
    BY <1>3 DEF Issues!UpdateStatusWithNotify, Issues!Saved, Issues!Unsaved, Issues!PreviousStatus, InMemory
  <2>2. /\ Follows(all) /\ all[i].status = status /\ \A j \in told : all[j].status # "none"
        /\ \A j \in settled \ {i} : all[j].status \in {"fixed", "closed"}
    BY <2>1, StatusFollows
  <2> HIDE DEF all
  <2>3. CASE issues' = [x \in Issues!Stores |-> all]
             /\ settled' = IF status = "processing" THEN settled \ {i} ELSE settled \cup {i}
    <3>1. settled' \subseteq Issues!Numbers /\ \A j \in settled' : all[j].status \in {"fixed", "closed"}
      BY <2>2, <2>3, AnnouncedInMemory
    <3> QED
      BY <1>1, <1>2, <2>1, <2>2, <2>3, <3>1, IssueStep
  <2>4. CASE issues' = [issues EXCEPT !["memory"] = InMemory] /\ UNCHANGED settled
    BY <1>1, <1>2, <2>1, <2>4, AllFollows, AnnouncedInMemory, IssueStep
  <2> QED
    BY <2>1, <2>3, <2>4
<1>4. CASE Issues!CleanupOldIssues(i)
  <2> DEFINE all == [InMemory EXCEPT ![i] = Issues!Unused]
  <2>1. /\ \/ issues' = [x \in Issues!Stores |-> all]
           \/ issues' = [issues EXCEPT !["memory"] = all]
        /\ told' = told \ {i} /\ settled' = settled \ {i}
    BY <1>4 DEF Issues!CleanupOldIssues, Issues!Kept, Issues!Saved, Issues!Unsaved, InMemory
  <2>2. Issues!Unused \in Filed /\ Issues!Unused.status = "none" /\ Issues!Unused.draft = 0
    BY ConstantsOK DEF ConstantsOK, Issues!Unused, Issues!Statuses, Filed
  <2>3. Follows(all) /\ \A j \in Issues!Numbers : j # i => all[j] = InMemory[j]
    BY <2>2, OneFollows
  <2> HIDE DEF all
  <2>4. /\ settled' \subseteq Issues!Numbers /\ \A j \in told' : all[j].status # "none"
        /\ \A j \in settled' : all[j].status \in {"fixed", "closed"}
    BY <2>1, <2>3, AnnouncedInMemory
  <2> QED
    BY <1>1, <1>2, <2>1, <2>3, <2>4, IssueStep
<1> QED
  BY <1>3, <1>4

\* A draft that is made is of a number of its own.
LEMMA BuildStep ==
    ASSUME IssuesInv, NEW u \in Users, Issues!BuildDraft(u), free' \subseteq free, u \notin free',
           UNCHANGED <<hand, issues, nextID, together, told, settled>>
    PROVE  IssuesInv'
<1> DEFINE s == [talk[u] EXCEPT !.draft = drafts + 1, !.step = "confirm"]
<1>1. talk' = [talk EXCEPT ![u] = s] /\ drafts' = drafts + 1
  BY DEF Issues!BuildDraft
<1>2. /\ talk \in [Users -> Talks] /\ hand \in [Taps -> Hands] /\ drafts \in Nat
      /\ talk[u] \in Talks /\ drafts + 1 \in Nat
  BY DEF IssuesInv, IssuesTyped
<1>3. s \in Talks /\ s.draft = drafts + 1
  BY <1>2 DEF Talks
<1> HIDE DEF s
<1>4. talk' \in [Users -> Talks] /\ Issues!CommandEscapes'
  BY <1>1, <1>3, TalkMoves
<1>5. talk'[u].draft = drafts + 1 /\ \A v \in Users : v # u => talk'[v] = talk[v]
  BY <1>1, <1>2, <1>3
<1>6. InFile' = InFile /\ InMemory' = InMemory
  BY DEF InFile, InMemory
<1>7. /\ InFile \in [Issues!Numbers -> Filed] /\ \A i \in Issues!Numbers : InFile[i].draft \in Nat
      /\ \A t \in Taps : hand[t].draft \in Nat
      /\ \A v \in Users : talk[v].draft \in Nat
  BY <1>2, StoresTyped DEF IssuesInv, Filed, Hands, Talks
<1>8. DraftsCounted'
  <2>1. \A v \in Users : talk'[v].draft <= drafts'
    BY <1>1, <1>2, <1>5, <1>7 DEF IssuesInv, DraftsCounted
  <2>2. \A t \in Taps : hand'[t].draft <= drafts' /\ (hand'[t].pc # "idle" => hand'[t].draft # 0)
    BY <1>1, <1>2, <1>7 DEF IssuesInv, DraftsCounted
  <2>3. \A i \in Issues!Numbers : InFile'[i].draft <= drafts'
    BY <1>1, <1>2, <1>6, <1>7 DEF IssuesInv, DraftsCounted
  <2> QED
    BY <2>1, <2>2, <2>3 DEF DraftsCounted
<1>9. DraftsOwned'
  BY <1>2, <1>5, <1>7 DEF IssuesInv, DraftsCounted, DraftsOwned
<1>10. FiledOnce'
  BY <1>2, <1>5, <1>6, <1>7 DEF IssuesInv, DraftsCounted, FiledOnce
<1>11. (IssuesTyped /\ Numbered /\ AnnouncedInBoth)'
  BY <1>1, <1>2, <1>4, <1>6 DEF IssuesInv, IssuesTyped, Numbered, AnnouncedInBoth
<1> QED
  BY <1>4, <1>8, <1>9, <1>10, <1>11 DEF IssuesInv

LEMMA QuickStep == ASSUME IssuesInv, NEW u \in Users, Issues!HandleQuickSelect(u) PROVE IssuesInv'
  BY BuildStep DEF Issues!HandleQuickSelect, Issues!Asked

\* A text that answers a question of the session.
LEMMA TextStep == ASSUME IssuesInv, NEW u \in Users, Issues!Text(u) PROVE IssuesInv'
<1>1. /\ UNCHANGED <<hand, nextID, together, free, told, settled>>
  BY DEF Issues!Text
<1>2. talk \in [Users -> Talks] /\ talk[u] \in Talks
  BY DEF IssuesInv, IssuesTyped
<1>3. u \notin free
  <2>1. Issues!Pending(u)
    BY <1>2 DEF Issues!Text, Issues!Describing, Issues!Talking, Issues!Pending, Talks
  <2> QED
    BY <2>1 DEF IssuesInv, Issues!CommandEscapes
<1>4. ASSUME NEW s \in Talks, s.draft = talk[u].draft, talk' = [talk EXCEPT ![u] = s], UNCHANGED drafts,
             NEW all, Follows(all), \A i \in told : all[i].status # "none",
             \A i \in settled : all[i].status \in {"fixed", "closed"},
             \/ issues' = [x \in Issues!Stores |-> all]
             \/ issues' = [issues EXCEPT !["memory"] = all]
             \/ UNCHANGED issues /\ all = InMemory
      PROVE  IssuesInv'
  <2>1. /\ talk' \in [Users -> Talks] /\ \A v \in Users : talk'[v].draft \in {0, talk[v].draft}
        /\ Issues!CommandEscapes'
    BY <1>1, <1>3, <1>4, OneAsked
  <2> QED
    BY <1>1, <1>4, <2>1, AnnouncedInMemory, IssueStep
<1>5. ASSUME NEW s \in Talks, s.draft = talk[u].draft, talk' = [talk EXCEPT ![u] = s],
             UNCHANGED <<drafts, issues>>
      PROVE  IssuesInv'
  BY <1>4, <1>5, AllFollows, AnnouncedInMemory
<1>6. ASSUME NEW s \in Talks, s.draft = talk[u].draft, talk' = [talk EXCEPT ![u] = s], UNCHANGED drafts,
             NEW i \in Issues!Numbers, NEW kind \in {"admin", "user"},
             Issues!AddsReply(i, kind)
      PROVE  IssuesInv'
  <2>1. CASE ~Issues!Exists(i)
    BY <1>5, <1>6, <2>1 DEF Issues!AddsReply
  <2>2. CASE Issues!Exists(i)
    <3> DEFINE all == Issues!With(i, Issues!Replied(InMemory[i], kind))
    <3>1. /\ Follows(all) /\ \A j \in told : all[j].status # "none"
          /\ \A j \in settled : all[j].status \in {"fixed", "closed"}
      BY <2>2, ReplyFollows
    <3>2. issues' = [x \in Issues!Stores |-> all] \/ issues' = [issues EXCEPT !["memory"] = all]
      BY <1>6, <2>2 DEF Issues!AddsReply, Issues!Kept, Issues!Saved, Issues!Unsaved, InMemory
    <3> HIDE DEF all
    <3> QED
      BY <1>4, <1>6, <3>1, <3>2
  <2> QED
    BY <1>6, <2>1, <2>2
<1>7. CASE Issues!Describing(u) /\ Issues!HandleFeedbackText(u) /\ UNCHANGED issues
  <2>1. CASE talk' = [talk EXCEPT ![u].title = "some", ![u].step = "description"] /\ UNCHANGED drafts
    <3> DEFINE s == [talk[u] EXCEPT !.title = "some", !.step = "description"]
    <3>1. s \in Talks /\ s.draft = talk[u].draft
      BY <1>2 DEF Talks
    <3>2. talk' = [talk EXCEPT ![u] = s]
      BY <1>2, <2>1
    <3> HIDE DEF s
    <3> QED
      BY <1>5, <1>7, <2>1, <3>1, <3>2
  <2>2. CASE Issues!BuildDraft(u)
    BY <1>1, <1>3, <1>7, <2>2, BuildStep
  <2> QED
    BY <1>7, <2>1, <2>2 DEF Issues!HandleFeedbackText
<1>8. CASE Issues!Talking(u) /\ Issues!HandleUserFollowUp(u) /\ UNCHANGED drafts
  <2> DEFINE i == talk[u].talk
             s == [talk[u] EXCEPT !.talk = 0]
  <2>1. i \in Issues!Numbers
    BY <1>2, <1>8, MarksAreNumbers DEF Issues!Talking, Talks
  <2>2. CASE Issues!AddsReply(i, "user") /\ UNCHANGED talk
    <3>1. talk' = [talk EXCEPT ![u] = talk[u]]
      BY <1>2, <2>2
    <3> QED
      BY <1>2, <1>6, <1>8, <2>1, <2>2, <3>1
  <2>3. CASE UNCHANGED issues /\ talk' = [talk EXCEPT ![u].talk = 0]
    <3>1. s \in Talks /\ s.draft = talk[u].draft
      BY <1>2, MarksAreNumbers DEF Talks
    <3>2. talk' = [talk EXCEPT ![u] = s]
      BY <2>3
    <3> HIDE DEF s
    <3> QED
      BY <1>5, <1>8, <2>3, <3>1, <3>2
  <2> QED
    BY <1>8, <2>2, <2>3 DEF Issues!HandleUserFollowUp
<1>9. CASE /\ Issues!HandleAdminAddMessage(u) \/ Issues!HandleNotifCustomTimeInput(u)
           /\ UNCHANGED <<issues, drafts>>
  <2>1. PICK q \in {"admin", "time"} : talk' = [talk EXCEPT ![u].asks = @ \ {q}]
    BY <1>9 DEF Issues!HandleAdminAddMessage, Issues!HandleNotifCustomTimeInput
  <2> DEFINE s == [talk[u] EXCEPT !.asks = talk[u].asks \ {q}]
  <2>2. s \in Talks /\ s.draft = talk[u].draft
    BY <1>2 DEF Talks
  <2>3. talk' = [talk EXCEPT ![u] = s]
    BY <2>1
  <2> HIDE DEF s
  <2> QED
    BY <1>5, <1>9, <2>2, <2>3
<1>10. CASE /\ talk[u].feedback + talk[u].issue > 0 /\ Issues!HandleAdminPendingReplyText(u)
            /\ UNCHANGED drafts
  <2>1. CASE talk[u].feedback # 0
    <3> DEFINE i == talk[u].feedback
               s == [talk[u] EXCEPT !.feedback = 0]
    <3>1. i \in Issues!Numbers /\ s \in Talks /\ s.draft = talk[u].draft
      BY <1>2, <2>1, MarksAreNumbers DEF Talks
    <3>2. talk' = [talk EXCEPT ![u] = s] /\ Issues!AddsReply(i, "admin")
      BY <1>10, <2>1 DEF Issues!HandleAdminPendingReplyText
    <3> HIDE DEF s
    <3> QED
      BY <1>6, <1>10, <3>1, <3>2
  <2>2. CASE talk[u].feedback = 0
    <3> DEFINE i == talk[u].issue
               s == [talk[u] EXCEPT !.issue = 0]
    <3>1. i \in Issues!Numbers /\ s \in Talks /\ s.draft = talk[u].draft
      BY <1>2, <1>10, <2>2, MarksAreNumbers DEF Talks
    <3>2. talk' = [talk EXCEPT ![u] = s] /\ Issues!AddsReply(i, "admin")
      BY <1>10, <2>2 DEF Issues!HandleAdminPendingReplyText
    <3> HIDE DEF s
    <3> QED
      BY <1>6, <1>10, <3>1, <3>2
  <2> QED
    BY <2>1, <2>2
<1> QED
  BY <1>7, <1>8, <1>9, <1>10 DEF Issues!Text

\* The session is gone, and a handler at work with it.
LEMMA ExpireStep == ASSUME IssuesInv, NEW u \in Users, Issues!Expire(u) PROVE IssuesInv'
<1>1. /\ talk' = [talk EXCEPT ![u] = Issues!NewSession]
      /\ hand' = [t \in Taps |-> IF hand[t].pc # "idle" /\ hand[t].user = u
                                 THEN [hand[t] EXCEPT !.gone = TRUE] ELSE hand[t]]
      /\ UNCHANGED <<issues, nextID, drafts, together, free, told, settled>>
  BY DEF Issues!Expire, Issues!history
<1>2. talk \in [Users -> Talks] /\ hand \in [Taps -> Hands] /\ drafts \in Nat
  BY DEF IssuesInv, IssuesTyped
<1>3. /\ Issues!NewSession \in Talks /\ Issues!NewSession.draft = 0 /\ Issues!NewSession.step = "none"
      /\ Issues!NewSession.talk = 0 /\ Issues!NewSession.feedback = 0 /\ Issues!NewSession.issue = 0
      /\ Issues!NewSession.asks = {}
  BY MarksAreNumbers DEF Issues!NewSession, Talks
<1>4. /\ talk' \in [Users -> Talks] /\ talk'[u] = Issues!NewSession
      /\ \A v \in Users : v # u => talk'[v] = talk[v]
  BY <1>1, <1>2, <1>3
<1>5. /\ hand' \in [Taps -> Hands]
      /\ \A t \in Taps : hand'[t].pc = hand[t].pc /\ hand'[t].user = hand[t].user
      /\ \A t \in Taps : hand'[t].draft = hand[t].draft
      /\ \A t \in Taps : hand[t].user # u => hand'[t].gone = hand[t].gone
  BY <1>1, <1>2 DEF Hands
<1>6. InFile' = InFile /\ InMemory' = InMemory
  BY <1>1 DEF InFile, InMemory
<1>7. Issues!CommandEscapes'
  BY <1>1, <1>3, <1>4 DEF IssuesInv, Issues!CommandEscapes, Issues!Pending
<1>8. DraftsCounted'
  <2>1. \A v \in Users : talk'[v].draft <= drafts'
    BY <1>1, <1>2, <1>3, <1>4 DEF IssuesInv, DraftsCounted
  <2>2. \A t \in Taps : hand'[t].draft <= drafts' /\ (hand'[t].pc # "idle" => hand'[t].draft # 0)
    BY <1>1, <1>5 DEF IssuesInv, DraftsCounted
  <2>3. \A i \in Issues!Numbers : InFile'[i].draft <= drafts'
    BY <1>1, <1>6 DEF IssuesInv, DraftsCounted
  <2> QED
    BY <2>1, <2>2, <2>3 DEF DraftsCounted
<1>9. DraftsOwned'
  <2>1. \A v, w \in Users : talk'[v].draft = talk'[w].draft /\ talk'[v].draft # 0 => v = w
    BY <1>3, <1>4 DEF IssuesInv, DraftsOwned
  <2>2. ASSUME NEW t \in Taps, NEW v \in Users, hand'[t].pc # "idle", talk'[v].draft = hand'[t].draft
        PROVE  v = hand'[t].user /\ hand'[t].gone = FALSE
    <3>1. hand[t].pc # "idle" /\ hand[t].draft = talk'[v].draft
      BY <1>5, <2>2
    <3>2. hand[t].draft # 0
      BY <3>1 DEF IssuesInv, DraftsCounted
    <3>3. v # u /\ talk[v].draft = hand[t].draft
      BY <1>3, <1>4, <3>1, <3>2
    <3>4. v = hand[t].user /\ hand[t].gone = FALSE
      BY <3>1, <3>3 DEF IssuesInv, DraftsOwned
    <3> QED
      BY <1>5, <3>3, <3>4
  <2> QED
    BY <2>1, <2>2 DEF DraftsOwned
<1>10. FiledOnce'
  BY <1>1, <1>3, <1>4, <1>5, <1>6 DEF IssuesInv, FiledOnce
<1>11. (IssuesTyped /\ Numbered /\ AnnouncedInBoth)'
  BY <1>1, <1>4, <1>5, <1>6 DEF IssuesInv, IssuesTyped, Numbered, AnnouncedInBoth
<1> QED
  BY <1>7, <1>8, <1>9, <1>10, <1>11 DEF IssuesInv

\* The number after the highest one in the file.
LEMMA LoadedIsNext ==
    ASSUME IssuesInv
    PROVE  /\ Issues!Loaded \in Nat \ {0}
           /\ \A i \in Issues!Numbers : InFile[i].status # "none" => i < Issues!Loaded
<1> DEFINE used == {i \in Issues!Numbers : issues["file"][i].status # "none"}
           Good(n) == (\A i \in used : i < n) /\ (n = 1 \/ n - 1 \in used)
<1>1. MaxIssues \in Nat /\ Issues!Numbers = 1..MaxIssues
  BY ConstantsOK DEF ConstantsOK, Issues!Numbers
<1>2. \E n \in 1..MaxIssues + 1 : Good(n)
  <2>1. CASE used = {}
    <3>1. Good(1) /\ 1 \in 1..MaxIssues + 1
      BY <1>1, <2>1
    <3> QED
      BY <3>1
  <2>2. CASE used # {}
    <3>1. PICK j \in used : \A k \in used : k <= j
      <4>1. used \subseteq 1..MaxIssues
        BY <1>1
      <4> HIDE DEF used
      <4> QED
        BY <1>1, <2>2, <4>1, LastOf
    <3>2. j \in 1..MaxIssues /\ used \subseteq 1..MaxIssues
      BY <1>1
    <3> HIDE DEF used
    <3>3. PICK n \in 1..MaxIssues + 1 : n = j + 1
      BY <1>1, <3>2
    <3>4. n - 1 = j /\ \A i \in used : i < n
      BY <1>1, <3>1, <3>2, <3>3
    <3>5. Good(n)
      BY <3>1, <3>4
    <3> QED
      BY <3>5
  <2> QED
    BY <2>1, <2>2
<1>3. Issues!Loaded = CHOOSE n \in 1..MaxIssues + 1 : Good(n)
  BY DEF Issues!Loaded
<1> HIDE DEF Good
<1>4. Issues!Loaded \in 1..MaxIssues + 1 /\ Good(Issues!Loaded)
  BY <1>2, <1>3
<1> QED
  BY <1>1, <1>4 DEF Good, InFile

\* What was in the file is all there is.
LEMMA RestartStep == ASSUME IssuesInv, Issues!Restart PROVE IssuesInv'
<1>1. /\ talk' = [u \in Users |-> Issues!NewSession] /\ hand' = [t \in Taps |-> Issues!Idle]
      /\ issues' = [x \in Issues!Stores |-> InFile] /\ nextID' = Issues!Loaded
      /\ UNCHANGED <<drafts, together, free, told, settled>>
  BY DEF Issues!Restart, Issues!history, InFile
<1>2. /\ Issues!NewSession \in Talks /\ Issues!NewSession.draft = 0 /\ Issues!NewSession.step = "none"
      /\ Issues!NewSession.talk = 0 /\ Issues!NewSession.feedback = 0 /\ Issues!NewSession.issue = 0
      /\ Issues!NewSession.asks = {}
  BY MarksAreNumbers DEF Issues!NewSession, Talks
<1>3. Issues!Idle \in Hands /\ Issues!Idle.pc = "idle" /\ Issues!Idle.draft = 0
  BY ConstantsOK DEF ConstantsOK, Issues!Idle, Hands
<1>4. InFile \in [Issues!Numbers -> Filed] /\ drafts \in Nat
  BY StoresTyped DEF IssuesInv, IssuesTyped
<1>5. InMemory' = InFile /\ InFile' = InFile
  BY <1>1 DEF InMemory, InFile, Issues!Stores
<1>6. /\ talk' \in [Users -> Talks] /\ hand' \in [Taps -> Hands]
      /\ issues' \in [Issues!Stores -> [Issues!Numbers -> Filed]]
  BY <1>1, <1>2, <1>3, <1>4
<1>7. IssuesTyped'
  BY <1>1, <1>4, <1>6, LoadedIsNext DEF IssuesInv, IssuesTyped
<1>8. Numbered'
  BY <1>1, <1>5, LoadedIsNext DEF Numbered
<1>9. AnnouncedInBoth'
  BY <1>1, <1>5 DEF IssuesInv, AnnouncedInBoth
<1>10. /\ \A u \in Users : talk'[u] = Issues!NewSession
       /\ \A t \in Taps : hand'[t] = Issues!Idle
  BY <1>1
<1>11. DraftsCounted'
  BY <1>1, <1>2, <1>3, <1>4, <1>5, <1>10 DEF IssuesInv, DraftsCounted
<1>12. DraftsOwned'
  BY <1>2, <1>3, <1>10 DEF DraftsOwned
<1>13. FiledOnce'
  <2>1. /\ \A t \in Taps : hand'[t].pc = "idle"
        /\ \A u \in Users : talk'[u].draft = 0
    BY <1>2, <1>3, <1>10
  <2>2. \A i, j \in Issues!Numbers : InFile[i].draft # 0 /\ InFile[i].draft \notin together
                                    /\ InFile[j].draft = InFile[i].draft => j = i
    BY DEF IssuesInv, FiledOnce
  <2>3. \A i \in Issues!Numbers : InFile'[i] = InFile[i]
    BY <1>5
  <2>4. together' = together
    BY <1>1
  <2>5. \A r, t \in Taps : r # t /\ hand'[r].pc # "idle" /\ hand'[t].pc # "idle"
                           /\ hand'[r].draft = hand'[t].draft => hand'[r].draft \in together'
    BY <2>1
  <2>6. ASSUME NEW i \in Issues!Numbers, InFile'[i].draft # 0, InFile'[i].draft \notin together'
        PROVE  /\ \A j \in Issues!Numbers : InFile'[j].draft = InFile'[i].draft => j = i
               /\ \A t \in Taps : hand'[t].pc = "create" => hand'[t].draft # InFile'[i].draft
               /\ \A u \in Users : talk'[u].draft = InFile'[i].draft =>
                     \E t \in Taps : hand'[t].pc = "clear" /\ hand'[t].draft = InFile'[i].draft
    <3>1. \A j \in Issues!Numbers : InFile'[j].draft = InFile'[i].draft => j = i
      BY <2>2, <2>3, <2>4, <2>6
    <3> QED
      BY <2>1, <2>6, <3>1
  <2> QED
    BY <2>5, <2>6 DEF FiledOnce
<1>14. Issues!CommandEscapes'
  BY <1>1, <1>2, <1>10 DEF IssuesInv, IssuesTyped, Issues!CommandEscapes, Issues!Pending
<1> QED
  BY <1>7, <1>8, <1>9, <1>11, <1>12, <1>13, <1>14 DEF IssuesInv

\* A handler takes the draft of its user's session in hand.
LEMMA ConfirmStep ==
    ASSUME IssuesInv, NEW t \in Taps, NEW u \in Users, Issues!HandleConfirm(t, u)
    PROVE  IssuesInv'
<1> DEFINE d == talk[u].draft
           new == [pc |-> "create", user |-> u, draft |-> d, gone |-> FALSE]
<1>1. /\ hand[t].pc = "idle" /\ d # 0 /\ hand' = [hand EXCEPT ![t] = new]
      /\ together' = IF \E v \in Taps : hand[v].pc # "idle" /\ hand[v].draft = d
                     THEN together \cup {d} ELSE together
      /\ UNCHANGED <<talk, issues, nextID, drafts, free, told, settled>>
  BY DEF Issues!HandleConfirm
<1>2. hand \in [Taps -> Hands] /\ talk \in [Users -> Talks]
  BY DEF IssuesInv, IssuesTyped
<1>3. new \in Hands /\ new.pc = "create" /\ new.user = u /\ new.draft = d /\ new.gone = FALSE
  <2>1. d \in Nat
    BY <1>2 DEF Talks
  <2> QED
    BY <2>1 DEF Hands
<1> HIDE DEF new
<1>4. /\ hand' \in [Taps -> Hands] /\ hand'[t] = new
      /\ \A s \in Taps : s # t => hand'[s] = hand[s]
  BY <1>1, <1>2, <1>3
<1>5. /\ together \subseteq together'
      /\ \A s \in Taps : hand[s].pc # "idle" /\ hand[s].draft = d => d \in together'
  BY <1>1
<1>6. InFile' = InFile /\ InMemory' = InMemory
  BY <1>1 DEF InFile, InMemory
<1>7. DraftsCounted'
  BY <1>1, <1>3, <1>4, <1>6 DEF IssuesInv, DraftsCounted
<1>8. DraftsOwned'
  BY <1>1, <1>3, <1>4 DEF IssuesInv, DraftsOwned
<1>9. FiledOnce'
  <2>1. ASSUME NEW r \in Taps, NEW s \in Taps, r # s, hand'[r].pc # "idle", hand'[s].pc # "idle",
               hand'[r].draft = hand'[s].draft
        PROVE  hand'[r].draft \in together'
    BY <1>3, <1>4, <1>5, <2>1 DEF IssuesInv, FiledOnce
  <2>2. ASSUME NEW i \in Issues!Numbers, InFile'[i].draft # 0, InFile'[i].draft \notin together'
        PROVE  /\ \A j \in Issues!Numbers : InFile'[j].draft = InFile'[i].draft => j = i
               /\ \A s \in Taps : hand'[s].pc = "create" => hand'[s].draft # InFile'[i].draft
               /\ \A v \in Users : talk'[v].draft = InFile'[i].draft =>
                     \E s \in Taps : hand'[s].pc = "clear" /\ hand'[s].draft = InFile'[i].draft
    <3> DEFINE e == InFile[i].draft
    <3>1. /\ \A j \in Issues!Numbers : InFile[j].draft = e => j = i
          /\ \A s \in Taps : hand[s].pc = "create" => hand[s].draft # e
          /\ \A v \in Users : talk[v].draft = e => \E s \in Taps : hand[s].pc = "clear" /\ hand[s].draft = e
      BY <1>5, <1>6, <2>2 DEF IssuesInv, FiledOnce
    <3>2. d # e
      BY <1>5, <1>6, <2>2, <3>1
    <3>3. \A s \in Taps : hand'[s].pc = "create" => hand'[s].draft # e
      BY <1>3, <1>4, <3>1, <3>2
    <3>4. \A v \in Users : talk'[v].draft = e => \E s \in Taps : hand'[s].pc = "clear" /\ hand'[s].draft = e
      BY <1>1, <1>4, <3>1
    <3> QED
      BY <1>6, <3>1, <3>3, <3>4
  <2> QED
    BY <2>1, <2>2 DEF FiledOnce
<1>10. (IssuesTyped /\ Numbered /\ AnnouncedInBoth)'
  BY <1>1, <1>4, <1>6 DEF IssuesInv, IssuesTyped, Numbered, AnnouncedInBoth
<1>11. Issues!CommandEscapes'
  BY <1>1 DEF IssuesInv, Issues!CommandEscapes, Issues!Pending
<1> QED
  BY <1>7, <1>8, <1>9, <1>10, <1>11 DEF IssuesInv

\* The issue is filed under a number that has none, or nothing came of it.
LEMMA CreateStep == ASSUME IssuesInv, NEW t \in Taps, Issues!CreateIssue(t) PROVE IssuesInv'
<1> DEFINE d == hand[t].draft
           new == [status |-> "open", owner |-> hand[t].user, draft |-> d, replies |-> {}]
           all == [InMemory EXCEPT ![nextID] = new]
<1>1. /\ hand[t].pc = "create" /\ nextID \in Issues!Numbers
      /\ UNCHANGED <<talk, drafts, together, free, settled>>
      /\ \/ /\ issues' = [x \in Issues!Stores |-> all] /\ nextID' = nextID + 1
            /\ told' = told \cup {nextID} /\ hand' = [hand EXCEPT ![t].pc = "clear"]
         \/ hand' = [hand EXCEPT ![t] = Issues!Idle] /\ UNCHANGED <<issues, nextID, told>>
  BY DEF Issues!CreateIssue, Issues!Saved, InMemory
<1>2. /\ hand \in [Taps -> Hands] /\ talk \in [Users -> Talks] /\ drafts \in Nat /\ nextID \in Nat \ {0}
      /\ InMemory \in [Issues!Numbers -> Filed] /\ InFile \in [Issues!Numbers -> Filed]
  BY StoresTyped DEF IssuesInv, IssuesTyped
<1>3. Issues!CommandEscapes'
  BY <1>1 DEF IssuesInv, Issues!CommandEscapes, Issues!Pending
<1>4. CASE hand' = [hand EXCEPT ![t] = Issues!Idle] /\ UNCHANGED <<issues, nextID, told>>
  <2>1. Issues!Idle \in Hands /\ Issues!Idle.pc = "idle" /\ Issues!Idle.draft = 0
    BY ConstantsOK DEF ConstantsOK, Issues!Idle, Hands
  <2>2. /\ hand' \in [Taps -> Hands] /\ hand'[t] = Issues!Idle
        /\ \A s \in Taps : s # t => hand'[s] = hand[s]
    BY <1>2, <1>4, <2>1
  <2>3. InFile' = InFile /\ InMemory' = InMemory
    BY <1>4 DEF InFile, InMemory
  <2>4. DraftsCounted'
    BY <1>1, <1>2, <2>1, <2>2, <2>3 DEF IssuesInv, DraftsCounted
  <2>5. DraftsOwned'
    BY <1>1, <2>1, <2>2 DEF IssuesInv, DraftsOwned
  <2>6. FiledOnce'
    BY <1>1, <2>1, <2>2, <2>3 DEF IssuesInv, FiledOnce
  <2>7. (IssuesTyped /\ Numbered /\ AnnouncedInBoth)'
    BY <1>1, <1>4, <2>2, <2>3 DEF IssuesInv, IssuesTyped, Numbered, AnnouncedInBoth
  <2> QED
    BY <1>3, <2>4, <2>5, <2>6, <2>7 DEF IssuesInv
<1>5. CASE /\ issues' = [x \in Issues!Stores |-> all] /\ nextID' = nextID + 1
           /\ told' = told \cup {nextID} /\ hand' = [hand EXCEPT ![t].pc = "clear"]
  <2>1. new \in Filed /\ new.status = "open" /\ new.draft = d
    BY <1>2 DEF Hands, Filed, Issues!Statuses
  <2>2. d # 0 /\ d \in Nat /\ d <= drafts
    BY <1>1, <1>2 DEF IssuesInv, DraftsCounted, Hands
  <2> HIDE DEF new
  <2>3. /\ all \in [Issues!Numbers -> Filed] /\ all[nextID] = new
        /\ \A i \in Issues!Numbers : i # nextID => all[i] = InMemory[i]
    BY <1>1, <1>2, <2>1
  <2>4. /\ hand' \in [Taps -> Hands] /\ hand'[t].pc = "clear" /\ hand'[t].draft = d
        /\ hand'[t].user = hand[t].user /\ hand'[t].gone = hand[t].gone
        /\ \A s \in Taps : s # t => hand'[s] = hand[s]
    BY <1>2, <1>5 DEF Hands
  <2> HIDE DEF all
  <2>5. InMemory' = all /\ InFile' = all /\ issues' \in [Issues!Stores -> [Issues!Numbers -> Filed]]
    BY <1>5, <2>3 DEF InFile, InMemory, Issues!Stores
  <2>6. \A i \in Issues!Numbers : i # nextID => all[i].draft \in {0, InFile[i].draft}
    BY <2>3 DEF IssuesInv, Numbered
  <2>7. Numbered'
    <3>1. ASSUME NEW i \in Issues!Numbers, all[i].status # "none" PROVE i < nextID + 1
      <4>1. CASE i = nextID
        BY <1>2, <4>1
      <4>2. CASE i # nextID
        <5>1. i < nextID /\ i \in Nat
          BY <2>3, <3>1, <4>2 DEF IssuesInv, Numbered, Issues!Numbers
        <5> QED
          BY <1>2, <5>1
      <4> QED
        BY <4>1, <4>2
    <3> QED
      BY <1>5, <2>5, <3>1 DEF Numbered
  <2>8. AnnouncedInBoth'
    <3>1. nextID \notin settled
      <4>1. ~(nextID < nextID)
        BY <1>2
      <4> QED
        BY <1>1, <4>1 DEF IssuesInv, Numbered, AnnouncedInBoth
    <3> QED
      BY <1>1, <1>5, <2>1, <2>3, <2>5, <3>1 DEF IssuesInv, AnnouncedInBoth
  <2>9. DraftsCounted'
    <3>1. \A i \in Issues!Numbers : all[i].draft <= drafts
      <4>1. \A i \in Issues!Numbers : InFile[i].draft <= drafts /\ 0 <= drafts
        BY <1>2 DEF IssuesInv, DraftsCounted
      <4> QED
        BY <2>1, <2>2, <2>3, <2>6, <4>1
    <3>2. /\ \A u \in Users : talk'[u].draft <= drafts'
          /\ \A s \in Taps : hand'[s].draft <= drafts' /\ (hand'[s].pc # "idle" => hand'[s].draft # 0)
      BY <1>1, <2>2, <2>4 DEF IssuesInv, DraftsCounted
    <3> QED
      BY <1>1, <2>5, <3>1, <3>2 DEF DraftsCounted
  <2>10. DraftsOwned'
    BY <1>1, <2>4 DEF IssuesInv, DraftsOwned
  <2>11. FiledOnce'
    <3>1. ASSUME NEW r \in Taps, NEW s \in Taps, r # s, hand'[r].pc # "idle", hand'[s].pc # "idle",
                 hand'[r].draft = hand'[s].draft
          PROVE  hand'[r].draft \in together'
      <4>1. /\ hand[r].pc # "idle" /\ hand[s].pc # "idle" /\ hand[r].draft = hand[s].draft
            /\ hand'[r].draft = hand[r].draft
        BY <1>1, <2>4, <3>1
      <4> QED
        BY <1>1, <3>1, <4>1 DEF IssuesInv, FiledOnce
    <3>2. ASSUME NEW i \in Issues!Numbers, all[i].draft # 0, all[i].draft \notin together
          PROVE  /\ \A j \in Issues!Numbers : all[j].draft = all[i].draft => j = i
                 /\ \A s \in Taps : hand'[s].pc = "create" => hand'[s].draft # all[i].draft
                 /\ \A v \in Users : talk[v].draft = all[i].draft =>
                       \E s \in Taps : hand'[s].pc = "clear" /\ hand'[s].draft = all[i].draft
      <4>1. \A j \in Issues!Numbers : InFile[j].draft = d /\ d \notin together => FALSE
        BY <1>1, <2>2 DEF IssuesInv, FiledOnce
      <4>2. CASE i = nextID
        <5>1. all[i].draft = d /\ d \notin together
          BY <2>1, <2>3, <3>2, <4>2
        <5>2. \A j \in Issues!Numbers : all[j].draft = d => j = i
          BY <2>2, <2>6, <4>1, <4>2, <5>1
        <5>3. \A s \in Taps : hand'[s].pc = "create" => hand'[s].draft # d
          BY <1>1, <2>4, <5>1 DEF IssuesInv, FiledOnce
        <5> QED
          BY <2>4, <5>1, <5>2, <5>3
      <4>3. CASE i # nextID
        <5> DEFINE e == InFile[i].draft
        <5>1. all[i].draft = e /\ e # 0 /\ e \notin together
          BY <2>6, <3>2, <4>3
        <5>2. /\ \A j \in Issues!Numbers : InFile[j].draft = e => j = i
              /\ \A s \in Taps : hand[s].pc = "create" => hand[s].draft # e
              /\ \A v \in Users : talk[v].draft = e =>
                    \E s \in Taps : hand[s].pc = "clear" /\ hand[s].draft = e
          BY <5>1 DEF IssuesInv, FiledOnce
        <5>3. d # e
          BY <1>1, <5>2
        <5>4. \A j \in Issues!Numbers : all[j].draft = e => j = i
          BY <2>1, <2>3, <2>6, <5>1, <5>2, <5>3
        <5>5. \A s \in Taps : hand'[s].pc = "create" => hand'[s].draft # e
          BY <2>4, <5>2
        <5>6. \A v \in Users : talk[v].draft = e => \E s \in Taps : hand'[s].pc = "clear" /\ hand'[s].draft = e
          BY <1>1, <2>4, <5>2
        <5> QED
          BY <5>1, <5>4, <5>5, <5>6
      <4> QED
        BY <4>2, <4>3
    <3> QED
      BY <1>1, <2>5, <3>1, <3>2 DEF FiledOnce
  <2>12. IssuesTyped'
    BY <1>1, <1>2, <1>5, <2>4, <2>5 DEF IssuesInv, IssuesTyped
  <2> QED
    BY <1>3, <2>7, <2>8, <2>9, <2>10, <2>11, <2>12 DEF IssuesInv
<1> QED
  BY <1>1, <1>4, <1>5

\* The draft of the session goes, unless the session has.
LEMMA SubmittedStep == ASSUME IssuesInv, NEW t \in Taps, Issues!Submitted(t) PROVE IssuesInv'
<1> DEFINE u == hand[t].user
           s == Issues!WithoutDraft(talk[u])
<1>1. /\ hand[t].pc = "clear" /\ hand' = [hand EXCEPT ![t] = Issues!Idle]
      /\ talk' = IF hand[t].gone THEN talk ELSE [talk EXCEPT ![u] = s]
      /\ UNCHANGED <<issues, nextID, drafts, together, free, told, settled>>
  BY DEF Issues!Submitted, Issues!history, Issues!ClearFeedbackDraft
<1>2. /\ hand \in [Taps -> Hands] /\ talk \in [Users -> Talks] /\ u \in Users /\ talk[u] \in Talks
      /\ drafts \in Nat
  BY DEF IssuesInv, IssuesTyped, Hands
<1>3. /\ s \in Talks /\ s.draft = 0 /\ s.step = "none" /\ s.talk = talk[u].talk
      /\ s.feedback = talk[u].feedback /\ s.issue = talk[u].issue /\ s.asks = talk[u].asks
  BY <1>2 DEF Talks, Issues!WithoutDraft
<1>4. Issues!Idle \in Hands /\ Issues!Idle.pc = "idle" /\ Issues!Idle.draft = 0
  BY ConstantsOK DEF ConstantsOK, Issues!Idle, Hands
<1> HIDE DEF s, u
<1>5. /\ hand' \in [Taps -> Hands] /\ hand'[t] = Issues!Idle
      /\ \A r \in Taps : r # t => hand'[r] = hand[r]
  BY <1>1, <1>2, <1>4
<1>6. /\ talk' \in [Users -> Talks] /\ talk'[u] \in {talk[u], s}
      /\ hand[t].gone = FALSE => talk'[u].draft = 0
      /\ \A v \in Users : v # u => talk'[v] = talk[v]
  <2>1. CASE hand[t].gone = TRUE
    BY <1>1, <1>2, <2>1
  <2>2. CASE hand[t].gone = FALSE
    BY <1>1, <1>2, <1>3, <2>2
  <2>3. hand[t].gone \in BOOLEAN
    BY <1>2 DEF Hands
  <2> QED
    BY <2>1, <2>2, <2>3
<1>7. \A v \in Users : talk'[v].draft \in {0, talk[v].draft}
  BY <1>3, <1>6
<1>8. InFile' = InFile /\ InMemory' = InMemory
  BY <1>1 DEF InFile, InMemory
<1>9. DraftsCounted'
  <2>1. \A v \in Users : talk'[v].draft <= drafts'
    BY <1>1, <1>2, <1>7 DEF IssuesInv, DraftsCounted
  <2>2. \A r \in Taps : hand'[r].draft <= drafts' /\ (hand'[r].pc # "idle" => hand'[r].draft # 0)
    BY <1>1, <1>2, <1>4, <1>5 DEF IssuesInv, DraftsCounted
  <2>3. \A i \in Issues!Numbers : InFile'[i].draft <= drafts'
    BY <1>1, <1>8 DEF IssuesInv, DraftsCounted
  <2> QED
    BY <2>1, <2>2, <2>3 DEF DraftsCounted
<1>10. DraftsOwned'
  BY <1>4, <1>5, <1>7 DEF IssuesInv, DraftsCounted, DraftsOwned
<1>11. FiledOnce'
  <2>1. ASSUME NEW i \in Issues!Numbers, InFile[i].draft # 0, InFile[i].draft \notin together,
               NEW v \in Users, talk'[v].draft = InFile[i].draft
        PROVE  \E r \in Taps : hand'[r].pc = "clear" /\ hand'[r].draft = InFile[i].draft
    <3>1. talk[v].draft = InFile[i].draft
      BY <1>7, <2>1
    <3>2. PICK r \in Taps : hand[r].pc = "clear" /\ hand[r].draft = InFile[i].draft
      BY <2>1, <3>1 DEF IssuesInv, FiledOnce
    <3>3. r # t
      <4> SUFFICES ASSUME r = t PROVE FALSE
        OBVIOUS
      <4>1. v = u /\ hand[t].gone = FALSE
        BY <3>1, <3>2 DEF IssuesInv, DraftsOwned, u
      <4> QED
        BY <1>6, <2>1, <4>1
    <3> QED
      BY <1>5, <3>2, <3>3
  <2>2. ASSUME NEW q \in Taps, NEW r \in Taps, q # r, hand'[q].pc # "idle", hand'[r].pc # "idle",
               hand'[q].draft = hand'[r].draft
        PROVE  hand'[q].draft \in together
    BY <1>4, <1>5, <2>2 DEF IssuesInv, FiledOnce
  <2>3. ASSUME NEW i \in Issues!Numbers, InFile[i].draft # 0, InFile[i].draft \notin together
        PROVE  /\ \A j \in Issues!Numbers : InFile[j].draft = InFile[i].draft => j = i
               /\ \A r \in Taps : hand'[r].pc = "create" => hand'[r].draft # InFile[i].draft
    BY <1>4, <1>5, <2>3 DEF IssuesInv, FiledOnce
  <2> QED
    BY <1>1, <1>8, <2>1, <2>2, <2>3 DEF FiledOnce
<1>12. (IssuesTyped /\ Numbered /\ AnnouncedInBoth)'
  BY <1>1, <1>5, <1>6, <1>8 DEF IssuesInv, IssuesTyped, Numbered, AnnouncedInBoth
<1>13. Issues!CommandEscapes'
  <2>1. ASSUME NEW v \in free', v \in Users => ~Issues!Pending(v) PROVE v \in Users => ~Issues!Pending(v)'
    BY <1>3, <1>6, <2>1 DEF Issues!Pending
  <2> QED
    BY <1>1, <1>3, <1>6 DEF IssuesInv, Issues!CommandEscapes, Issues!Pending
<1> QED
  BY <1>9, <1>10, <1>11, <1>12, <1>13 DEF IssuesInv

\* What an issue step leaves of the variables of an issue.
LEMMA IssuesStutter ==
    ASSUME IssuesInv,
           UNCHANGED <<talk, hand, issues, nextID, drafts, together, free, told, settled>>
    PROVE  IssuesInv'
<1>1. InFile' = InFile /\ InMemory' = InMemory
  BY DEF InFile, InMemory
<1>2. (IssuesTyped /\ Numbered /\ AnnouncedInBoth /\ DraftsCounted)'
  BY <1>1 DEF IssuesInv, IssuesTyped, Numbered, AnnouncedInBoth, DraftsCounted
<1>3. (DraftsOwned /\ FiledOnce)'
  BY <1>1 DEF IssuesInv, DraftsOwned, FiledOnce
<1>4. Issues!CommandEscapes'
  BY DEF IssuesInv, Issues!CommandEscapes, Issues!Pending
<1> QED
  BY <1>2, <1>3, <1>4 DEF IssuesInv

LEMMA IssueReports == ASSUME IssuesInv, NEW u \in Users, Issues!Reports(u) PROVE IssuesInv'
<1>1. CASE \/ Issues!HandleStart(u) \/ Issues!ScopeMedia(u) \/ Issues!ScopeGeneral(u)
           \/ Issues!HandleTypeSelect(u) \/ Issues!CancelHandler(u) \/ Issues!HomeButton(u)
  BY <1>1, ReportSteps
<1>2. CASE Issues!HandleQuickSelect(u)
  BY <1>2, QuickStep
<1>3. CASE Issues!Command(u)
  BY <1>3, CommandStep
<1>4. CASE Issues!Text(u)
  BY <1>4, TextStep
<1>5. CASE Issues!HandleViewList(u) \/ \E i \in Issues!Numbers : Issues!HandleViewDetail(u, i)
  BY <1>5, PanelSteps
<1>6. CASE \E t \in Taps : Issues!HandleConfirm(t, u)
  BY <1>6, ConfirmStep
<1>7. CASE \E i \in Issues!Numbers : Issues!CloseByUser(u, i) \/ Issues!Touch(u, i)
  BY <1>7, OwnerSteps
<1> QED
  BY <1>1, <1>2, <1>3, <1>4, <1>5, <1>6, <1>7 DEF Issues!Reports

LEMMA IssueAdministers == ASSUME IssuesInv, NEW a \in Users, Issues!Administers(a) PROVE IssuesInv'
<1>1. CASE \/ Issues!HandleNotifCustomTime(a) \/ Issues!HandleAdminAddStart(a)
           \/ \E i \in Issues!Numbers : Issues!HandleFeedbackReply(a, i) \/ Issues!HandleIssueReply(a, i)
  BY <1>1, PanelSteps
<1>2. CASE Issues!HandleAdminRemoveConfirm(a)
  BY <1>2, IssuesStutter DEF Issues!HandleAdminRemoveConfirm, Issues!history
<1>3. CASE \E i \in Issues!Numbers : Issues!HandleFeedbackTemplate(a, i)
  BY <1>3, TemplateStep
<1>4. CASE \E i \in Issues!Numbers, status \in {"processing", "fixed", "closed"} :
              Issues!UpdateStatusWithNotify(a, i, status)
  BY <1>4, StatusSteps
<1> QED
  BY <1>1, <1>2, <1>3, <1>4 DEF Issues!Administers

LEMMA IssuesNext == ASSUME IssuesInv, Issues!Next PROVE IssuesInv'
<1>1. CASE \E u \in Users : Issues!Reports(u) \/ Issues!Administers(u) \/ Issues!Expire(u)
  BY <1>1, IssueReports, IssueAdministers, ExpireStep
<1>2. CASE \E t \in Taps : Issues!CreateIssue(t) \/ Issues!Submitted(t)
  BY <1>2, CreateStep, SubmittedStep
<1>3. CASE \E i \in Issues!Numbers : Issues!CleanupOldIssues(i)
  BY <1>3, StatusSteps
<1>4. CASE Issues!Restart
  BY <1>4, RestartStep
<1> QED
  BY <1>1, <1>2, <1>3, <1>4 DEF Issues!Next

LEMMA IssuesStep == ASSUME IssuesInv, [Next]_vars PROVE IssuesInv'
<1>1. CASE FeedbackStep
  BY <1>1, IssuesNext DEF FeedbackStep
<1>2. CASE \/ DeliveryStep \/ BrowseStep \/ HistoryStep \/ ResourceStep \/ AccountStep \/ ProgressStep
           \/ UNCHANGED vars
  <2>1. UNCHANGED issueVars
    BY <1>2 DEF DeliveryStep, BrowseStep, HistoryStep, ResourceStep, AccountStep, ProgressStep, vars
  <2> QED
    BY <2>1, IssuesStutter DEF issueVars
<1> QED
  BY <1>1, <1>2 DEF Next

LEMMA IssuesInvKept == IssuesInv => IssuesKept
<1> SUFFICES ASSUME IssuesInv PROVE IssuesKept
  OBVIOUS
<1>1. Issues!SubmittedOnce
  <2>1. SUFFICES ASSUME NEW i \in Issues!Numbers, NEW j \in Issues!Numbers, i # j,
                        InMemory[i].draft = InMemory[j].draft, InMemory[i].draft # 0
                 PROVE  InMemory[i].draft \in together
    BY DEF Issues!SubmittedOnce, InMemory
  <2>2. InMemory[i].draft = InFile[i].draft /\ InMemory[j].draft = InFile[j].draft
    BY <2>1 DEF IssuesInv, Numbered
  <2> QED
    BY ZenonT(60), <2>1, <2>2 DEF IssuesInv, FiledOnce
<1>2. Issues!AnnouncedKept
  BY DEF IssuesInv, AnnouncedInBoth, Issues!AnnouncedKept, InFile
<1>3. Issues!CommandEscapes
  BY DEF IssuesInv
<1> QED
  BY <1>1, <1>2, <1>3 DEF IssuesKept, Issues!IssuesKept

\* A draft a user submits becomes one issue, whatever other taps do meanwhile, what the owner was
\* told of it survives every restart and every failing write, and a command leaves no question that
\* would take the next text (handleConfirm, IssueService, clearPendingInputStates).
THEOREM ReportsAreKept == Spec => []IssuesKept
<1>1. Init => IssuesInv
  BY IssuesInit DEF Init
<1>2. IssuesInv /\ [Next]_vars => IssuesInv'
  BY IssuesStep
<1> QED
  BY <1>1, <1>2, IssuesInvKept, PTL DEF Spec

-----------------------------------------------------------------------------
(***************************************************************************)
(* Answers (Delivery). Which message a handler may write to next, and what *)
(* it has left in the chat, is known from where it is; a refused call      *)
(* moves it to its fallback with that knowledge intact.                    *)
(***************************************************************************)

Screens   == [face : Answers!Faces, by : Taps \cup {"everyone"}, to : Taps \cup {"everyone"}]
Ephemeral == {"eph_media", "eph_photo", "eph_upload", "eph_drop", "eph_rich", "eph_text"}
Edits     == {"edit_rich", "edit_plain", "edit_text", "delete_edited"}
Marked    == Answers!Ids \cup {0}
Clicks    == [pc : {"idle", "work", "deliver", "done"} \cup Answers!Calls, message : Marked,
              me : Taps \cup {"everyone"}, ephemeral : Marked, slow : BOOLEAN,
              answer : Answers!Answers, cleared : BOOLEAN, carried : Marked]
Verdicts  == [state : {"none", "pending", "rich", "text", "settled"}, receipt : Marked, seen : Marked,
              written : BOOLEAN]

AnswersTyped ==
    /\ community \in BOOLEAN
    /\ chat \in [Answers!Ids -> Screens]
    /\ tap \in [Taps -> Clicks]
    /\ request \in [Taps -> Verdicts]
    /\ refused \in [Taps -> SUBSET Answers!Calls] /\ lost \in [Taps -> SUBSET Answers!Calls]

\* The public message is as it was, and all others are for who tapped.
OnlyForMe ==
    community =>
        /\ chat[1] = [face |-> "original", by |-> "everyone", to |-> "everyone"]
        /\ \A m \in Answers!Ids \ {1} :
              Answers!Shown(m) => /\ chat[m].by \in Taps /\ chat[m].to \in Taps
                                  /\ chat[m].to = tap[chat[m].by].me

\* A handler in a group knows one message it may write to, and who that is for.
Mine(t) ==
    /\ tap[t].message # 0 => chat[tap[t].message].face # "unused"
    /\ community => /\ tap[t].pc # "idle" => tap[t].me \in Taps
                    /\ tap[t].ephemeral # 0 => /\ tap[t].ephemeral # 1
                                               /\ chat[tap[t].ephemeral].face # "unused"
                                               /\ chat[tap[t].ephemeral].to = tap[t].me
                    /\ tap[t].carried # 1 /\ request[t].receipt # 1 /\ request[t].seen # 1

\* Where the handler of an answer may be.
Underway(t) ==
    LET pc == tap[t].pc
        a  == tap[t].answer
    IN /\ IF community THEN pc \in {"idle", "placeholder", "work", "deliver", "done"} \cup Ephemeral
                       ELSE pc \notin Ephemeral \cup {"placeholder"}
       /\ pc \in {"idle", "placeholder", "work"} => ~a.edit
       /\ pc \in {"eph_media", "eph_photo", "eph_upload", "eph_drop"} => ~a.edit
       /\ pc = "delete" => a.delete

\* What a tap has written that is still there.
Trail(t, cards) ==
    LET pc == tap[t].pc
        a  == tap[t].answer
        message == tap[t].message
    IN /\ pc \in {"idle", "placeholder"} => cards = {}
       /\ community /\ (pc = "work" \/ (a.edit /\ ~a.delete)) => cards \subseteq {tap[t].ephemeral}
       /\ ~community /\ pc = "work" => cards = {}
       /\ ~community /\ a.edit /\ ~a.delete =>
             /\ pc \in Edits => cards \subseteq {message}
             /\ pc \in Answers!Sendings => tap[t].cleared
             /\ pc \in Answers!Sendings /\ lost[t] \cap Answers!Sendings = {} =>
                   cards = {} /\ ~Answers!Shown(message)
             /\ pc \in {"deliver", "done"} /\ lost[t] \cap Answers!Sendings = {} =>
                   \E m \in Marked : cards \subseteq {m} /\ (Answers!Shown(message) => message = m)

\* A private chat without a card: one is on its way, or Telegram refused the last resort.
CardOnItsWay ==
    ~community =>
        \/ \E m \in Answers!Ids : Answers!Shown(m)
        \/ \E t \in Taps : tap[t].pc \in Answers!Sendings /\ tap[t].cleared
        \/ \E t \in Taps : \/ refused[t] \cap {"send_text", "send_upload"} # {}
                           \/ lost[t] \cap Answers!Deletions # {}

\* A receipt is known where it is when its tap has nothing more to write.
ReceiptIsLast(t) ==
    LET r == request[t]
    IN /\ tap[t].pc \in {"idle", "placeholder", "work"} => r.state = "none"
       /\ r.receipt # 0 => tap[t].pc = "done"
       /\ r.state \in {"none", "pending"} => ~r.written /\ r.seen = 0
       /\ r.seen # 0 => r.receipt # 0
       /\ r.written => r.seen # 0 /\ (chat[r.seen].by = t => chat[r.seen].face # "receipt")

AnswersInv ==
    /\ AnswersTyped /\ OnlyForMe /\ CardOnItsWay
    /\ \A t \in Taps : Mine(t) /\ Underway(t) /\ Trail(t, Answers!Of(t)) /\ ReceiptIsLast(t)

\* What a handler does to one message of the chat: nothing, it writes on it, takes it away, or sends it.
Writes(t, m, message) ==
    /\ chat' = [chat EXCEPT ![m] = message]
    /\ \/ message = chat[m]
       \/ /\ Answers!Shown(m) /\ message.by = t /\ message.to = chat[m].to
          /\ message.face \in {"card", "receipt"}
       \/ Answers!Shown(m) /\ message = [chat[m] EXCEPT !.face = "gone"]
       \/ chat[m].face = "unused" /\ message.by = t /\ message.face \in {"card", "receipt", "wait"}

LEMMA ChatMoves ==
    ASSUME AnswersTyped, NEW t \in Taps, NEW m \in Answers!Ids, NEW message \in Screens,
           Writes(t, m, message)
    PROVE  /\ chat' \in [Answers!Ids -> Screens] /\ chat'[m] = message
           /\ \A x \in Answers!Ids : x # m => chat'[x] = chat[x]
           /\ \A x \in Answers!Ids :
                 chat[x].face # "unused" => chat'[x].face # "unused" /\ chat'[x].to = chat[x].to
           /\ \A x \in Answers!Ids :
                 Answers!Shown(x)' /\ ~Answers!Shown(x) => x = m /\ chat[m].face = "unused"
           /\ \A s \in Taps : Answers!Of(s)' \subseteq Answers!Of(s) \cup (IF s = t THEN {m} ELSE {})
<1>1. chat \in [Answers!Ids -> Screens]
  BY DEF AnswersTyped
<1>2. chat' \in [Answers!Ids -> Screens] /\ chat'[m] = message
  BY <1>1 DEF Writes
<1>3. \A x \in Answers!Ids : x # m => chat'[x] = chat[x]
  BY <1>1 DEF Writes
<1>4. chat[m] \in Screens
  BY <1>1
<1>5. /\ chat[m].face # "unused" => message.face # "unused" /\ message.to = chat[m].to
      /\ message.face \notin {"unused", "gone"} /\ chat[m].face \in {"unused", "gone"} => chat[m].face = "unused"
      /\ message.by # t /\ message.face \notin {"unused", "gone"} => message = chat[m]
  BY <1>4 DEF Writes, Answers!Shown, Screens
<1>6. \A x \in Answers!Ids :
         chat[x].face # "unused" => chat'[x].face # "unused" /\ chat'[x].to = chat[x].to
  BY <1>2, <1>3, <1>5
<1>7. \A x \in Answers!Ids : Answers!Shown(x)' /\ ~Answers!Shown(x) => x = m /\ chat[m].face = "unused"
  BY <1>2, <1>3, <1>5 DEF Answers!Shown
<1>8. ASSUME NEW s \in Taps, NEW x \in Answers!Of(s)', ~(s = t /\ x = m) PROVE x \in Answers!Of(s)
  BY <1>2, <1>3, <1>5, <1>8 DEF Answers!Of, Answers!Shown
<1> QED
  BY <1>2, <1>3, <1>6, <1>7, <1>8

LEMMA IdsOK == 1 \in Answers!Ids /\ 0 \notin Answers!Ids /\ Marked = Answers!Ids \cup {0}
  BY ConstantsOK DEF ConstantsOK, Answers!Ids, Marked

\* What the others know stays true, whatever one handler does to a message.
LEMMA OthersStay ==
    ASSUME AnswersInv, NEW t \in Taps, NEW new \in Clicks, NEW m \in Answers!Ids, NEW message \in Screens,
           NEW R \in SUBSET Answers!Calls, NEW L \in SUBSET Answers!Calls, Writes(t, m, message),
           tap' = [tap EXCEPT ![t] = new], UNCHANGED community,
           refused' = [refused EXCEPT ![t] = R], lost' = [lost EXCEPT ![t] = L],
           request' \in [Taps -> Verdicts], \A s \in Taps \ {t} : request'[s] = request[s]
    PROVE  /\ AnswersTyped'
           /\ \A s \in Taps \ {t} : Mine(s)' /\ Underway(s)' /\ Trail(s, Answers!Of(s))' /\ ReceiptIsLast(s)'
<1>1. AnswersTyped
  BY DEF AnswersInv
<1>2. /\ chat' \in [Answers!Ids -> Screens] /\ chat'[m] = message
      /\ \A x \in Answers!Ids : x # m => chat'[x] = chat[x]
      /\ \A x \in Answers!Ids :
            chat[x].face # "unused" => chat'[x].face # "unused" /\ chat'[x].to = chat[x].to
      /\ \A x \in Answers!Ids :
            Answers!Shown(x)' /\ ~Answers!Shown(x) => x = m /\ chat[m].face = "unused"
      /\ \A s \in Taps : Answers!Of(s)' \subseteq Answers!Of(s) \cup (IF s = t THEN {m} ELSE {})
  BY <1>1, ChatMoves
<1>3. AnswersTyped'
  BY <1>1, <1>2 DEF AnswersTyped
<1>4. SUFFICES ASSUME NEW s \in Taps, s # t
               PROVE  Mine(s)' /\ Underway(s)' /\ Trail(s, Answers!Of(s))' /\ ReceiptIsLast(s)'
  BY <1>3
<1>5. tap'[s] = tap[s] /\ request'[s] = request[s] /\ refused'[s] = refused[s] /\ lost'[s] = lost[s]
  BY <1>1, <1>4 DEF AnswersTyped
<1>6. /\ Mine(s) /\ Underway(s) /\ Trail(s, Answers!Of(s)) /\ ReceiptIsLast(s)
      /\ Answers!Of(s)' \subseteq Answers!Of(s)
  BY <1>2, <1>4 DEF AnswersInv
<1>7. /\ tap[s].message \in Answers!Ids \cup {0} /\ tap[s].ephemeral \in Answers!Ids \cup {0}
      /\ request[s].seen \in Answers!Ids \cup {0}
  BY <1>1, IdsOK DEF AnswersTyped, Clicks, Verdicts
<1>8. Mine(s)'
  BY <1>2, <1>5, <1>6, <1>7 DEF Mine
<1>9. Underway(s)'
  BY <1>5, <1>6 DEF Underway
<1>10. Trail(s, Answers!Of(s))'
  <2>1. Answers!Shown(tap[s].message)' => Answers!Shown(tap[s].message)
    BY <1>2, <1>5, <1>6, <1>7 DEF Mine, Answers!Shown, Answers!NoId
  <2> DEFINE cards == Answers!Of(s)
             after == Answers!Of(s)'
  <2>2. after \subseteq cards
    BY <1>6
  <2>3. Trail(s, cards)
    BY <1>6
  <2> HIDE DEF cards, after
  <2> DEFINE a == tap[s].answer
             pc == tap[s].pc
             shown == Answers!Shown(tap[s].message)'
  <2>4. /\ pc \in {"idle", "placeholder"} => after = {}
        /\ community /\ (pc = "work" \/ (a.edit /\ ~a.delete)) => after \subseteq {tap[s].ephemeral}
        /\ ~community /\ pc = "work" => after = {}
    BY <2>2, <2>3 DEF Trail
  <2>5. ASSUME ~community, a.edit, ~a.delete
        PROVE  /\ pc \in Edits => after \subseteq {tap[s].message}
               /\ pc \in Answers!Sendings => tap[s].cleared
               /\ pc \in Answers!Sendings /\ lost[s] \cap Answers!Sendings = {} =>
                     after = {} /\ ~shown
               /\ pc \in {"deliver", "done"} /\ lost[s] \cap Answers!Sendings = {} =>
                     \E x \in Marked : after \subseteq {x} /\ (shown => tap[s].message = x)
    BY <2>1, <2>2, <2>3, <2>5 DEF Trail
  <2>6. /\ tap'[s] = tap[s] /\ lost'[s] = lost[s] /\ community' = community
        /\ Answers!Shown(tap[s].message)' = shown
    BY <1>5
  <2> HIDE DEF shown
  <2> QED
    BY <2>4, <2>5, <2>6 DEF Trail, after
<1>11. ReceiptIsLast(s)'
  <2> DEFINE r == request[s]
  <2>1. /\ tap[s].pc \in {"idle", "placeholder", "work"} => r.state = "none"
        /\ r.receipt # 0 => tap[s].pc = "done"
        /\ r.state \in {"none", "pending"} => ~r.written /\ r.seen = 0
        /\ r.seen # 0 => r.receipt # 0
        /\ r.written => r.seen # 0 /\ (chat[r.seen].by = s => chat[r.seen].face # "receipt")
    BY <1>6 DEF ReceiptIsLast
  <2>2. ASSUME r.written, chat'[r.seen].by = s PROVE chat'[r.seen].face # "receipt"
    <3>1. r.seen \in Answers!Ids
      BY <1>7, <2>1, <2>2
    <3>2. CASE r.seen # m
      BY <1>2, <2>1, <2>2, <3>1, <3>2
    <3>3. CASE r.seen = m
      <4>1. message.by = s
        BY <1>2, <2>2, <3>3
      <4>2. message = chat[m] \/ message.face = "gone"
        BY <1>1, <1>4, <4>1 DEF Writes, AnswersTyped, Screens
      <4> QED
        BY <1>2, <2>1, <2>2, <3>3, <4>2
    <3> QED
      BY <3>2, <3>3
  <2> QED
    BY <1>5, <2>1, <2>2 DEF ReceiptIsLast
<1> QED
  BY <1>8, <1>9, <1>10, <1>11

\* A step of one handler that leaves its own promises, and those of the chat, true.
LEMMA TapMoves ==
    ASSUME AnswersInv, NEW t \in Taps, NEW new \in Clicks, NEW m \in Answers!Ids, NEW message \in Screens,
           NEW R \in SUBSET Answers!Calls, NEW L \in SUBSET Answers!Calls, Writes(t, m, message),
           tap' = [tap EXCEPT ![t] = new], UNCHANGED community,
           refused' = [refused EXCEPT ![t] = R], lost' = [lost EXCEPT ![t] = L],
           refused[t] \subseteq R, lost[t] \subseteq L,
           request' \in [Taps -> Verdicts], \A s \in Taps \ {t} : request'[s] = request[s],
           community => /\ m = 1 => message = chat[m]
                        /\ tap[t].pc = "idle" \/ new.me = tap[t].me
                        /\ message # chat[m] /\ message.face # "gone" => message.to = new.me /\ new.me \in Taps,
           ~community /\ \/ message # chat[m] /\ message.face = "gone"
                         \/ tap[t].pc \in Answers!Sendings /\ tap[t].cleared
             => \/ new.pc \in Answers!Sendings /\ new.cleared
                \/ message # chat[m] /\ message.face # "gone" /\ Answers!Shown(m)'
                \/ R \cap {"send_text", "send_upload"} # {} \/ L \cap Answers!Deletions # {},
           Mine(t)', Underway(t)', Trail(t, Answers!Of(t))', ReceiptIsLast(t)'
    PROVE  AnswersInv'
<1>1. AnswersTyped
  BY DEF AnswersInv
<1>2. /\ chat' \in [Answers!Ids -> Screens] /\ chat'[m] = message
      /\ \A x \in Answers!Ids : x # m => chat'[x] = chat[x]
      /\ \A x \in Answers!Ids :
            Answers!Shown(x)' /\ ~Answers!Shown(x) => x = m /\ chat[m].face = "unused"
  BY <1>1, ChatMoves
<1>3. /\ AnswersTyped'
      /\ \A s \in Taps \ {t} : Mine(s)' /\ Underway(s)' /\ Trail(s, Answers!Of(s))' /\ ReceiptIsLast(s)'
  BY OthersStay
<1>4. /\ tap'[t] = new /\ \A s \in Taps : s # t => tap'[s] = tap[s]
      /\ refused'[t] = R /\ lost'[t] = L
      /\ \A s \in Taps : s # t => refused'[s] = refused[s] /\ lost'[s] = lost[s]
  BY <1>1 DEF AnswersTyped
<1>5. OnlyForMe'
  <2> SUFFICES ASSUME community PROVE OnlyForMe'
    BY DEF OnlyForMe
  <2>1. chat'[1] = [face |-> "original", by |-> "everyone", to |-> "everyone"]
    BY <1>2, IdsOK DEF AnswersInv, OnlyForMe
  <2>2. ASSUME NEW x \in Answers!Ids \ {1}, Answers!Shown(x)'
        PROVE  chat'[x].by \in Taps /\ chat'[x].to \in Taps /\ chat'[x].to = tap'[chat'[x].by].me
    <3>1. CASE x = m /\ message # chat[m]
      <4>1. chat'[x] = message /\ message.face # "gone"
        BY <1>2, <2>2, <3>1 DEF Answers!Shown
      <4>2. message.by = t
        BY <3>1, <4>1, <1>1 DEF Writes, AnswersTyped, Screens
      <4> QED
        BY <1>4, <3>1, <4>1, <4>2
    <3>2. CASE ~(x = m /\ message # chat[m])
      <4>1. chat'[x] = chat[x]
        BY <1>2, <3>2
      <4>2. Answers!Shown(x)
        BY <2>2, <4>1 DEF Answers!Shown
      <4>3. chat[x].by \in Taps /\ chat[x].to \in Taps /\ chat[x].to = tap[chat[x].by].me
        BY <2>2, <4>2 DEF AnswersInv, OnlyForMe
      <4>4. chat[x].by = t => tap[t].pc # "idle"
        <5>1. chat[x].by = t => x \in Answers!Of(t)
          BY <2>2, <4>2 DEF Answers!Of
        <5>2. Trail(t, Answers!Of(t))
          BY DEF AnswersInv
        <5> QED
          BY <5>1, <5>2 DEF Trail
      <4>5. tap'[chat[x].by].me = tap[chat[x].by].me
        BY <1>4, <4>3, <4>4
      <4> QED
        BY <4>1, <4>3, <4>5
    <3> QED
      BY <3>1, <3>2
  <2> QED
    BY <2>1, <2>2 DEF OnlyForMe
<1>6. CardOnItsWay'
  <2> SUFFICES ASSUME ~community PROVE CardOnItsWay'
    BY DEF CardOnItsWay
  <2>1. CASE \/ message # chat[m] /\ message.face = "gone"
             \/ tap[t].pc \in Answers!Sendings /\ tap[t].cleared
    <3>1. \/ new.pc \in Answers!Sendings /\ new.cleared
          \/ Answers!Shown(m)'
          \/ R \cap {"send_text", "send_upload"} # {} \/ L \cap Answers!Deletions # {}
      BY <2>1
    <3> QED
      BY <1>4, <3>1 DEF CardOnItsWay, Answers!Sendings, Answers!Deletions
  <2>2. CASE /\ message = chat[m] \/ message.face # "gone"
             /\ ~(tap[t].pc \in Answers!Sendings /\ tap[t].cleared)
    <3>1. CASE \E x \in Answers!Ids : Answers!Shown(x)
      <4>1. PICK x \in Answers!Ids : Answers!Shown(x)
        BY <3>1
      <4>2. Answers!Shown(x)'
        <5>1. CASE x # m \/ message = chat[m]
          <6>1. chat'[x] = chat[x]
            BY <1>2, <5>1
          <6> QED
            BY <4>1, <6>1 DEF Answers!Shown, Answers!NoId
        <5>2. CASE x = m /\ message # chat[m]
          <6>1. chat'[x] = message /\ message.face \notin {"unused", "gone"}
            BY <1>1, <1>2, <2>2, <5>2 DEF Writes, AnswersTyped, Screens
          <6> QED
            BY <4>1, <6>1 DEF Answers!Shown, Answers!NoId
        <5> QED
          BY <5>1, <5>2
      <4> QED
        BY <4>2 DEF CardOnItsWay
    <3>2. CASE \E s \in Taps : tap[s].pc \in Answers!Sendings /\ tap[s].cleared
      <4>1. PICK s \in Taps : tap[s].pc \in Answers!Sendings /\ tap[s].cleared
        BY <3>2
      <4>2. tap'[s] = tap[s]
        BY <1>4, <2>2, <4>1
      <4> QED
        BY <4>1, <4>2 DEF CardOnItsWay, Answers!Sendings
    <3>3. CASE \E s \in Taps : \/ refused[s] \cap {"send_text", "send_upload"} # {}
                               \/ lost[s] \cap Answers!Deletions # {}
      <4>1. PICK s \in Taps : \/ refused[s] \cap {"send_text", "send_upload"} # {}
                              \/ lost[s] \cap Answers!Deletions # {}
        BY <3>3
      <4>2. refused[s] \subseteq refused'[s] /\ lost[s] \subseteq lost'[s]
        BY <1>4, <4>1
      <4>3. \/ refused'[s] \cap {"send_text", "send_upload"} # {}
            \/ lost'[s] \cap Answers!Deletions # {}
        BY <4>1, <4>2
      <4> QED
        BY <4>3 DEF CardOnItsWay, Answers!Deletions
    <3> QED
      BY <3>1, <3>2, <3>3 DEF AnswersInv, CardOnItsWay
  <2> QED
    BY <2>1, <2>2
<1> QED
  BY <1>3, <1>5, <1>6 DEF AnswersInv

\* The request and what its tap may write stay as they are.
LEMMA OwnStays ==
    ASSUME AnswersInv, NEW t \in Taps, NEW new \in Clicks, NEW m \in Answers!Ids, NEW message \in Screens,
           Writes(t, m, message), tap' = [tap EXCEPT ![t] = new], UNCHANGED <<community, request>>,
           tap[t].pc \notin {"idle", "done"}, new.pc \notin {"idle", "placeholder", "work"},
           new.message = tap[t].message, new.ephemeral = tap[t].ephemeral, new.me = tap[t].me,
           community => new.carried # 1
    PROVE  Mine(t)' /\ ReceiptIsLast(t)'
<1>1. AnswersTyped /\ Mine(t) /\ ReceiptIsLast(t)
  BY DEF AnswersInv
<1>2. /\ \A x \in Answers!Ids :
            chat[x].face # "unused" => chat'[x].face # "unused" /\ chat'[x].to = chat[x].to
  BY <1>1, ChatMoves
<1>3. tap'[t] = new
  BY <1>1 DEF AnswersTyped
<1>4. tap[t].message \in Answers!Ids \cup {0} /\ tap[t].ephemeral \in Answers!Ids \cup {0}
  BY <1>1, IdsOK DEF AnswersTyped, Clicks
<1>5. Mine(t)'
  BY <1>1, <1>2, <1>3, <1>4 DEF Mine
<1>6. ReceiptIsLast(t)'
  BY <1>1, <1>3 DEF ReceiptIsLast
<1> QED
  BY <1>5, <1>6

LEMMA IdleWrites == ASSUME AnswersTyped, UNCHANGED chat, NEW t \in Taps PROVE Writes(t, 1, chat[1])
  BY IdsOK DEF AnswersTyped, Writes

\* The next message is one that was not used.
LEMMA NextIsUnused ==
    ASSUME AnswersTyped, Answers!Room
    PROVE  Answers!NextId \in Answers!Ids /\ chat[Answers!NextId].face = "unused"
<1> DEFINE R == {p \in Nat \X Nat : p[1] < p[2]}
           T == {m \in Answers!Ids : chat[m].face = "unused"}
<1>1. IsWellFoundedOn(R, Nat)
  BY NatLessThanWellFounded DEF OpToRel
<1>2. T # {}
  BY DEF Answers!Room
<1>3. T \subseteq Nat
  BY DEF Answers!Ids
<1> HIDE DEF R
<1>4. PICK x \in T : \A y \in T : <<y, x>> \notin R
  <2> HIDE DEF T
  <2> QED
    BY <1>1, <1>2, <1>3, WFMin
<1>5. ASSUME NEW y \in T PROVE x <= y
  <2>1. x \in Nat /\ y \in Nat
    BY <1>3
  <2>2. ~(y < x)
    BY <1>4, <2>1 DEF R
  <2> QED
    BY <2>1, <2>2
<1>6. Answers!NextId = CHOOSE m \in T : \A y \in T : m <= y
  BY DEF Answers!NextId, Answers!Min
<1> HIDE DEF T
<1>7. Answers!NextId \in T
  BY <1>5, <1>6
<1> QED
  BY <1>7 DEF T

\* What may come of a call about one message: it is obeyed, its answer lost, or it is refused.
Outcome(t, call, here, m, message, new, moved, n, R, L) ==
    /\ tap' = [tap EXCEPT ![t] = n] /\ refused' = [refused EXCEPT ![t] = R]
    /\ lost' = [lost EXCEPT ![t] = L] /\ refused[t] \subseteq R /\ lost[t] \subseteq L
    /\ \/ /\ m \in Answers!Ids /\ here /\ chat' = [chat EXCEPT ![m] = message]
          /\ (n = new /\ L = lost[t]) \/ (n = moved /\ call \in L)
       \/ UNCHANGED chat /\ n = moved /\ L = lost[t] /\ call \in R

Turnout(t, call, here, m, message, new, moved) ==
    \E n \in {new, moved}, R \in SUBSET Answers!Calls, L \in SUBSET Answers!Calls :
        Outcome(t, call, here, m, message, new, moved, n, R, L)

LEMMA ChangesEffect ==
    ASSUME AnswersTyped, NEW t \in Taps, NEW call \in Answers!Calls, NEW m \in Marked, NEW message, NEW new,
           NEW pc, NEW moved, moved = [tap[t] EXCEPT !.pc = pc],
           Answers!Changes(t, call, m, message, [tap EXCEPT ![t] = new], pc)
    PROVE  /\ tap[t].pc = call
           /\ Turnout(t, call, Answers!Shown(m), m, message, new, moved)
<1>1. /\ tap \in [Taps -> Clicks] /\ refused \in [Taps -> SUBSET Answers!Calls]
      /\ lost \in [Taps -> SUBSET Answers!Calls]
  BY DEF AnswersTyped
<1>2. tap[t].pc = call
  BY DEF Answers!Changes
<1>3. /\ refused = [refused EXCEPT ![t] = refused[t]] /\ lost = [lost EXCEPT ![t] = lost[t]]
      /\ refused[t] \cup {call} \in SUBSET Answers!Calls /\ lost[t] \cup {call} \in SUBSET Answers!Calls
      /\ refused[t] \in SUBSET Answers!Calls /\ lost[t] \in SUBSET Answers!Calls
  BY <1>1
<1>4. Answers!Shown(m) => m \in Answers!Ids
  BY IdsOK DEF Answers!Shown, Answers!NoId
<1>5. CASE Answers!Shown(m) /\ Answers!Obeyed(t, m, message, [tap EXCEPT ![t] = new])
  <2>1. /\ tap' = [tap EXCEPT ![t] = new] /\ chat' = [chat EXCEPT ![m] = message]
        /\ UNCHANGED <<refused, lost>>
    BY <1>5 DEF Answers!Obeyed
  <2> QED
    BY <1>2, <1>3, <1>4, <1>5, <2>1 DEF Turnout, Outcome
<1>6. CASE Answers!Refused(t, call, pc)
  <2>1. /\ tap' = [tap EXCEPT ![t] = moved] /\ UNCHANGED <<chat, lost>>
        /\ refused' = [refused EXCEPT ![t] = refused[t] \cup {call}]
    BY <1>6 DEF Answers!Refused, Answers!Go
  <2> QED
    BY <1>2, <1>3, <2>1 DEF Turnout, Outcome
<1>7. CASE Answers!Shown(m) /\ Answers!AnswerLost(t, call, m, message, pc)
  <2>1. /\ tap' = [tap EXCEPT ![t] = moved] /\ chat' = [chat EXCEPT ![m] = message]
        /\ UNCHANGED refused /\ lost' = [lost EXCEPT ![t] = lost[t] \cup {call}]
    BY <1>7 DEF Answers!AnswerLost, Answers!Go
  <2> QED
    BY ZenonT(60), <1>2, <1>3, <1>4, <1>7, <2>1 DEF Turnout, Outcome
<1> QED
  BY <1>5, <1>6, <1>7 DEF Answers!Changes

LEMMA SendsEffect ==
    ASSUME AnswersTyped, NEW t \in Taps, NEW call \in Answers!Calls, NEW to, NEW new, NEW pc,
           NEW moved, moved = [tap[t] EXCEPT !.pc = pc],
           Answers!Sends(t, call, to, [tap EXCEPT ![t] = new], pc)
    PROVE  /\ tap[t].pc = call /\ Answers!NextId \in Answers!Ids /\ chat[Answers!NextId].face = "unused"
           /\ Turnout(t, call, TRUE, Answers!NextId, [face |-> Answers!Face(t), by |-> t, to |-> to], new, moved)
<1>1. /\ tap \in [Taps -> Clicks] /\ refused \in [Taps -> SUBSET Answers!Calls]
      /\ lost \in [Taps -> SUBSET Answers!Calls]
  BY DEF AnswersTyped
<1> DEFINE message == [face |-> Answers!Face(t), by |-> t, to |-> to]
<1>2. tap[t].pc = call /\ Answers!NextId \in Answers!Ids /\ chat[Answers!NextId].face = "unused"
  BY NextIsUnused DEF Answers!Sends
<1>3. /\ refused = [refused EXCEPT ![t] = refused[t]] /\ lost = [lost EXCEPT ![t] = lost[t]]
      /\ refused[t] \cup {call} \in SUBSET Answers!Calls /\ lost[t] \cup {call} \in SUBSET Answers!Calls
      /\ refused[t] \in SUBSET Answers!Calls /\ lost[t] \in SUBSET Answers!Calls
  BY <1>1
<1>4. CASE Answers!Obeyed(t, Answers!NextId, message, [tap EXCEPT ![t] = new])
  <2>1. /\ tap' = [tap EXCEPT ![t] = new] /\ chat' = [chat EXCEPT ![Answers!NextId] = message]
        /\ UNCHANGED <<refused, lost>>
    BY <1>4 DEF Answers!Obeyed
  <2> HIDE DEF message
  <2> QED
    BY <1>2, <1>3, <2>1 DEF message, Turnout, Outcome
<1>5. CASE Answers!Refused(t, call, pc)
  <2>1. /\ tap' = [tap EXCEPT ![t] = moved] /\ UNCHANGED <<chat, lost>>
        /\ refused' = [refused EXCEPT ![t] = refused[t] \cup {call}]
    BY <1>5 DEF Answers!Refused, Answers!Go
  <2> QED
    BY <1>2, <1>3, <2>1 DEF Turnout, Outcome
<1>6. CASE Answers!AnswerLost(t, call, Answers!NextId, message, pc)
  <2>1. /\ tap' = [tap EXCEPT ![t] = moved] /\ chat' = [chat EXCEPT ![Answers!NextId] = message]
        /\ UNCHANGED refused /\ lost' = [lost EXCEPT ![t] = lost[t] \cup {call}]
    BY <1>6 DEF Answers!AnswerLost, Answers!Go
  <2> HIDE DEF message
  <2> QED
    BY ZenonT(60), <1>2, <1>3, <2>1 DEF message, Turnout, Outcome
<1> QED
  BY <1>4, <1>5, <1>6 DEF Answers!Sends

\* What a handler at work may rely on.
LEMMA OwnPromises ==
    ASSUME AnswersInv, NEW t \in Taps
    PROVE  /\ AnswersTyped /\ tap[t] \in Clicks /\ tap \in [Taps -> Clicks] /\ request \in [Taps -> Verdicts]
           /\ tap[t].message \in Marked /\ tap[t].ephemeral \in Marked
           /\ Mine(t) /\ Underway(t) /\ Trail(t, Answers!Of(t)) /\ ReceiptIsLast(t)
  BY DEF AnswersInv, AnswersTyped, Clicks

\* What is written on a message that is there, by whom.
LEMMA RewritesWell ==
    ASSUME AnswersTyped, NEW t \in Taps, NEW m \in Answers!Ids, Answers!Shown(m),
           chat' = [chat EXCEPT ![m] = Answers!Rewritten(t, m)]
    PROVE  /\ Answers!Rewritten(t, m) \in Screens /\ Writes(t, m, Answers!Rewritten(t, m))
           /\ Answers!Rewritten(t, m).to = chat[m].to /\ Answers!Rewritten(t, m).face # "gone"
<1>1. chat[m] \in Screens
  BY DEF AnswersTyped
<1>2. Answers!Face(t) \in {"card", "receipt"}
  BY DEF Answers!Face
<1>3. Answers!Rewritten(t, m) = [chat[m] EXCEPT !.face = Answers!Face(t), !.by = t]
  BY DEF Answers!Rewritten
<1>4. /\ Answers!Rewritten(t, m) \in Screens /\ Answers!Rewritten(t, m).to = chat[m].to
      /\ Answers!Rewritten(t, m).by = t /\ Answers!Rewritten(t, m).face \in {"card", "receipt"}
  BY <1>1, <1>2, <1>3 DEF Screens, Answers!Faces
<1> QED
  BY <1>4 DEF Writes

\* An edit of the tapped card in a private chat.
LEMMA EditStep ==
    ASSUME AnswersInv, NEW t \in Taps, NEW call \in {"edit_rich", "edit_plain", "edit_text"},
           NEW pc \in {"edit_plain", "delete_edited", "done"},
           Answers!Changes(t, call, tap[t].message, Answers!Rewritten(t, tap[t].message),
                           Answers!CarriedBy(t, tap[t].message), pc),
           UNCHANGED <<community, request>>
    PROVE  AnswersInv'
<1> DEFINE m   == tap[t].message
           new == [tap[t] EXCEPT !.pc = IF tap[t].answer.receipt THEN "deliver" ELSE "done", !.carried = m]
           moved == [tap[t] EXCEPT !.pc = pc]
<1>1. /\ AnswersTyped /\ tap[t] \in Clicks /\ tap \in [Taps -> Clicks] /\ request \in [Taps -> Verdicts]
      /\ m \in Marked /\ Underway(t) /\ Trail(t, Answers!Of(t))
  BY OwnPromises
<1>2. call \in Answers!Calls /\ pc \in {"done"} \cup Answers!Calls
  BY DEF Answers!Calls
<1>3. Answers!CarriedBy(t, m) = [tap EXCEPT ![t] = new]
  BY <1>1 DEF Answers!CarriedBy
<1>4. Answers!Changes(t, call, m, Answers!Rewritten(t, m), [tap EXCEPT ![t] = new], pc)
  BY <1>3
<1>5. ASSUME NEW n \in {new, moved}
      PROVE  /\ n \in Clicks /\ n.pc \in {"edit_plain", "delete_edited", "done", "deliver"}
             /\ n.message = m /\ n.ephemeral = tap[t].ephemeral /\ n.me = tap[t].me
             /\ n.answer = tap[t].answer /\ n.cleared = tap[t].cleared
  <2> DEFINE p == IF tap[t].answer.receipt THEN "deliver" ELSE "done"
  <2>1. p \in {"deliver", "done"}
    OBVIOUS
  <2>2. new = [tap[t] EXCEPT !.pc = p, !.carried = m]
    OBVIOUS
  <2> HIDE DEF p, new, m
  <2>3. CASE n = new
    BY <1>1, <2>1, <2>2, <2>3 DEF Clicks, m
  <2>4. CASE n = moved
    BY <1>1, <1>2, <2>4 DEF Clicks, m
  <2> QED
    BY <2>3, <2>4
<1> HIDE DEF new, moved, m
<1>6. tap[t].pc = call /\ Turnout(t, call, Answers!Shown(m), m, Answers!Rewritten(t, m), new, moved)
  <2>1. moved = [tap[t] EXCEPT !.pc = pc]
    BY DEF moved
  <2> QED
    BY <1>1, <1>2, <1>4, <2>1, ChangesEffect
<1>7. PICK n \in {new, moved}, R \in SUBSET Answers!Calls, L \in SUBSET Answers!Calls :
            Outcome(t, call, Answers!Shown(m), m, Answers!Rewritten(t, m), new, moved, n, R, L)
  BY <1>6 DEF Turnout
<1>8. ~community
  BY <1>1, <1>6 DEF Underway, Ephemeral
<1>9. PICK x \in Answers!Ids, message \in Screens :
            /\ Writes(t, x, message) /\ (message = chat[x] \/ (x = m /\ message.face # "gone"))
            /\ UNCHANGED chat \/ x = m
  <2>1. CASE m \in Answers!Ids /\ Answers!Shown(m) /\ chat' = [chat EXCEPT ![m] = Answers!Rewritten(t, m)]
    BY <1>1, <2>1, RewritesWell
  <2>2. CASE UNCHANGED chat
    <3>1. 1 \in Answers!Ids /\ chat[1] \in Screens /\ Writes(t, 1, chat[1])
      BY <1>1, <2>2, IdsOK, IdleWrites DEF AnswersTyped
    <3> QED
      BY <2>2, <3>1
  <2> QED
    BY <1>7, <2>1, <2>2 DEF Outcome
<1>10. /\ Answers!Of(t)' \subseteq Answers!Of(t) \cup {m}
  <2>1. CASE UNCHANGED chat
    BY <2>1 DEF Answers!Of, Answers!Shown
  <2>2. CASE x = m
    BY <1>1, <1>9, <2>2, ChatMoves
  <2> QED
    BY <1>9, <2>1, <2>2
<1>11. /\ tap' = [tap EXCEPT ![t] = n] /\ refused' = [refused EXCEPT ![t] = R]
       /\ lost' = [lost EXCEPT ![t] = L] /\ refused[t] \subseteq R /\ lost[t] \subseteq L
  BY <1>7 DEF Outcome
<1>12. tap'[t] = n /\ lost'[t] = L
  BY <1>1, <1>11 DEF AnswersTyped
<1>13. Mine(t)' /\ ReceiptIsLast(t)'
  BY <1>5, <1>6, <1>8, <1>9, <1>11, OwnStays DEF m
<1>14. Underway(t)'
  BY <1>5, <1>8, <1>12 DEF Underway, Ephemeral
<1>15. Trail(t, Answers!Of(t))'
  <2> DEFINE after == Answers!Of(t)'
  <2>1. tap[t].answer.edit /\ ~tap[t].answer.delete => after \subseteq {m}
    BY <1>1, <1>6, <1>8, <1>10 DEF Trail, Edits, m
  <2>2. after = Answers!Of(t)'
    OBVIOUS
  <2> HIDE DEF after
  <2>3. n.pc \notin {"idle", "placeholder", "work"} \cup Answers!Sendings
    BY <1>5 DEF Answers!Sendings
  <2> QED
    BY <1>1, <1>5, <1>8, <1>12, <2>1, <2>2, <2>3 DEF Trail, Answers!Sendings
<1>16. tap[t].pc \notin Answers!Sendings
  BY <1>6 DEF Answers!Sendings
<1>17. request' \in [Taps -> Verdicts] /\ UNCHANGED community /\ \A s \in Taps \ {t} : request'[s] = request[s]
  BY <1>1
<1>18. ~(message # chat[x] /\ message.face = "gone") /\ n \in Clicks
  BY <1>5, <1>9
<1> QED
  BY <1>8, <1>9, <1>11, <1>13, <1>14, <1>15, <1>16, <1>17, <1>18, TapMoves

LEMMA ErasesWell ==
    ASSUME AnswersTyped, NEW t \in Taps, NEW m \in Answers!Ids, Answers!Shown(m),
           chat' = [chat EXCEPT ![m] = Answers!Erased(m)]
    PROVE  /\ Answers!Erased(m) \in Screens /\ Writes(t, m, Answers!Erased(m))
           /\ Answers!Erased(m).face = "gone" /\ ~Answers!Shown(m)' /\ m \notin Answers!Of(t)'
<1>1. chat[m] \in Screens /\ chat'[m] = Answers!Erased(m)
  BY DEF AnswersTyped
<1>2. Answers!Erased(m) = [chat[m] EXCEPT !.face = "gone"]
  BY DEF Answers!Erased
<1>3. Answers!Erased(m) \in Screens /\ Answers!Erased(m).face = "gone"
  BY <1>1, <1>2 DEF Screens, Answers!Faces
<1>4. ~Answers!Shown(m)' /\ m \notin Answers!Of(t)'
  BY <1>1, <1>3 DEF Answers!Shown, Answers!Of
<1> QED
  BY <1>2, <1>3, <1>4 DEF Writes

\* The deletion of the tapped card in a private chat.
LEMMA EraseStep ==
    ASSUME AnswersInv, NEW t \in Taps, NEW call \in {"delete_edited", "delete"},
           NEW next \in {"send_rich", "send_text"}, NEW pc \in {"done", "send_rich", "send_text"},
           call = "delete_edited" => pc = "done",
           Answers!Changes(t, call, tap[t].message, Answers!Erased(tap[t].message),
                           [tap EXCEPT ![t].pc = next, ![t].cleared = TRUE], pc),
           UNCHANGED <<community, request>>
    PROVE  AnswersInv'
<1>0. PICK m \in Marked : m = tap[t].message
  BY OwnPromises
<1> DEFINE new   == [tap[t] EXCEPT !.pc = next, !.cleared = TRUE]
           moved == [tap[t] EXCEPT !.pc = pc]
<1>1. /\ AnswersTyped /\ tap[t] \in Clicks /\ tap \in [Taps -> Clicks] /\ request \in [Taps -> Verdicts]
      /\ m \in Marked /\ Underway(t) /\ Trail(t, Answers!Of(t))
  BY OwnPromises
<1>2. call \in Answers!Calls /\ {next, pc} \subseteq {"done"} \cup Answers!Calls
  BY DEF Answers!Calls
<1>3. [tap EXCEPT ![t].pc = next, ![t].cleared = TRUE] = [tap EXCEPT ![t] = new]
  BY <1>1
<1>4. Answers!Changes(t, call, m, Answers!Erased(m), [tap EXCEPT ![t] = new], pc)
  BY <1>0, <1>3
<1>5. ASSUME NEW n \in {new, moved}
      PROVE  /\ n \in Clicks /\ n.pc \in {"send_rich", "send_text", "done"}
             /\ n.message = m /\ n.ephemeral = tap[t].ephemeral /\ n.me = tap[t].me
             /\ n.answer = tap[t].answer /\ n.carried = tap[t].carried
  <2>1. CASE n = new
    BY <1>0, <1>1, <1>2, <2>1 DEF Clicks
  <2>2. CASE n = moved
    BY <1>0, <1>1, <1>2, <2>2 DEF Clicks
  <2> QED
    BY <2>1, <2>2
<1>6. new.pc = next /\ new.cleared = TRUE /\ moved.pc = pc /\ moved = [tap[t] EXCEPT !.pc = pc]
  BY <1>1 DEF Clicks
<1> HIDE DEF new, moved
<1>7. tap[t].pc = call /\ Turnout(t, call, Answers!Shown(m), m, Answers!Erased(m), new, moved)
  BY <1>1, <1>2, <1>4, <1>6, ChangesEffect
<1>8. PICK n \in {new, moved}, R \in SUBSET Answers!Calls, L \in SUBSET Answers!Calls :
            Outcome(t, call, Answers!Shown(m), m, Answers!Erased(m), new, moved, n, R, L)
  BY <1>7 DEF Turnout
<1>9. /\ tap' = [tap EXCEPT ![t] = n] /\ refused' = [refused EXCEPT ![t] = R]
      /\ lost' = [lost EXCEPT ![t] = L] /\ refused[t] \subseteq R /\ lost[t] \subseteq L
  BY <1>8 DEF Outcome
<1>10. tap'[t] = n /\ lost'[t] = L
  BY <1>1, <1>9 DEF AnswersTyped
<1>11. ~community
  BY <1>1, <1>7 DEF Underway, Ephemeral
<1>12. PICK x \in Answers!Ids, message \in Screens :
            /\ Writes(t, x, message)
            /\ \/ UNCHANGED chat /\ message = chat[x] /\ n = moved
               \/ /\ x = m /\ ~Answers!Shown(m)' /\ m \notin Answers!Of(t)'
                  /\ n = new \/ call \in L
  <2>1. CASE /\ m \in Answers!Ids /\ Answers!Shown(m) /\ chat' = [chat EXCEPT ![m] = Answers!Erased(m)]
             /\ n = new \/ call \in L
    BY <1>1, <2>1, ErasesWell
  <2>2. CASE UNCHANGED chat /\ n = moved
    <3>1. 1 \in Answers!Ids /\ chat[1] \in Screens /\ Writes(t, 1, chat[1])
      BY <1>1, <2>2, IdsOK, IdleWrites DEF AnswersTyped
    <3> QED
      BY <2>2, <3>1
  <2> QED
    BY <1>8, <2>1, <2>2 DEF Outcome
<1>13. /\ Answers!Of(t)' \subseteq Answers!Of(t)
       /\ n = new => n = moved \/ (~Answers!Shown(m)' /\ m \notin Answers!Of(t)')
  <2>1. CASE UNCHANGED chat
    BY <1>12, <2>1 DEF Answers!Of, Answers!Shown
  <2>2. CASE x = m /\ ~Answers!Shown(m)' /\ m \notin Answers!Of(t)'
    BY <1>1, <1>12, <2>2, ChatMoves
  <2> QED
    BY <1>12, <2>1, <2>2
<1>14. Mine(t)' /\ ReceiptIsLast(t)'
  <2>1. community => n.carried # 1
    BY <1>11
  <2> QED
    BY <1>0, <1>5, <1>7, <1>9, <1>12, <2>1, OwnStays
<1>15. Underway(t)'
  BY <1>5, <1>10, <1>11 DEF Underway, Ephemeral
<1>16. Trail(t, Answers!Of(t))'
  <2> DEFINE after == Answers!Of(t)'
             gone  == ~Answers!Shown(m)'
  <2>1. CASE ~(tap[t].answer.edit /\ ~tap[t].answer.delete)
    BY <1>5, <1>10, <1>11, <2>1 DEF Trail
  <2>2. CASE tap[t].answer.edit /\ ~tap[t].answer.delete
    <3>1. call = "delete_edited" /\ pc = "done" /\ Answers!Of(t) \subseteq {m}
      BY <1>0, <1>1, <1>7, <1>11, <2>2 DEF Underway, Trail, Edits
    <3>2. after \subseteq {m} /\ (n = new => (after = {} /\ gone) \/ n = moved)
      BY <1>13, <3>1
    <3>3. Answers!Shown(tap[t].message)' <=> ~gone
      BY <1>5, <1>10 DEF Answers!Shown
    <3> HIDE DEF after, gone
    <3>4. CASE n = moved
      <4>1. n.pc = "done" /\ after \subseteq {m} /\ n.message = m /\ m \in Marked
        BY <1>1, <1>5, <1>6, <3>1, <3>2, <3>4
      <4> QED
        BY <1>10, <1>11, <4>1 DEF Trail, after, Answers!Sendings, Edits
    <3>5. CASE n = new /\ n # moved
      <4>1. n.pc = next /\ n.cleared /\ after = {} /\ gone /\ n.message = m
        BY <1>5, <1>6, <3>2, <3>5
      <4> QED
        BY <1>10, <1>11, <3>3, <4>1 DEF Trail, after, Answers!Sendings, Edits
    <3> QED
      BY <3>4, <3>5
  <2> QED
    BY <2>1, <2>2
<1>17. /\ message # chat[x] => \/ n.pc \in Answers!Sendings /\ n.cleared
                              \/ L \cap Answers!Deletions # {}
       /\ tap[t].pc \notin Answers!Sendings
  BY <1>6, <1>7, <1>12 DEF Answers!Sendings, Answers!Deletions
<1>18. request' \in [Taps -> Verdicts] /\ UNCHANGED community /\ \A s \in Taps \ {t} : request'[s] = request[s]
  BY <1>1
<1>19. n \in Clicks
  BY <1>5
<1> QED
  BY <1>9, <1>11, <1>12, <1>14, <1>15, <1>16, <1>17, <1>18, <1>19, TapMoves

\* A message that is sent is written where none was.
LEMMA SendsWell ==
    ASSUME AnswersTyped, NEW t \in Taps, NEW m \in Answers!Ids, chat[m].face = "unused",
           NEW face \in {"card", "receipt", "wait"}, NEW to \in Taps \cup {"everyone"},
           chat' = [chat EXCEPT ![m] = [face |-> face, by |-> t, to |-> to]]
    PROVE  /\ [face |-> face, by |-> t, to |-> to] \in Screens
           /\ Writes(t, m, [face |-> face, by |-> t, to |-> to])
           /\ [face |-> face, by |-> t, to |-> to] # chat[m] /\ Answers!Shown(m)'
<1> DEFINE message == [face |-> face, by |-> t, to |-> to]
<1>1. message \in Screens /\ message.face = face /\ message.by = t
  BY DEF Screens, Answers!Faces
<1>2. message # chat[m]
  BY <1>1
<1>3. chat'[m] = message /\ m # 0
  BY IdsOK DEF AnswersTyped
<1>4. Answers!Shown(m)'
  BY <1>1, <1>3 DEF Answers!Shown, Answers!NoId
<1> HIDE DEF message
<1>5. chat' = [chat EXCEPT ![m] = message]
  BY DEF message
<1>6. Writes(t, m, message)
  BY <1>1, <1>5 DEF Writes
<1> QED
  BY <1>1, <1>2, <1>4, <1>6 DEF message

\* A new card in a private chat, or the fallback when it was not sent.
LEMMA SendStep ==
    ASSUME AnswersInv, NEW t \in Taps, NEW call \in Answers!Sendings,
           NEW pc \in Answers!Sendings \cup {"edit_text", "done"},
           pc = "edit_text" => tap[t].answer.edit /\ ~tap[t].cleared,
           pc = "done" => call \in {"send_text", "send_upload"},
           NEW new \in Clicks, new.pc \in {"deliver", "done"}, new.message = tap[t].message,
           new.ephemeral = tap[t].ephemeral, new.me = tap[t].me, new.answer = tap[t].answer,
           Answers!Sends(t, call, "everyone", [tap EXCEPT ![t] = new], pc), UNCHANGED <<community, request>>
    PROVE  AnswersInv'
<1>0. PICK m \in Marked : m = tap[t].message
  BY OwnPromises
<1> DEFINE moved == [tap[t] EXCEPT !.pc = pc]
<1>1. /\ AnswersTyped /\ tap[t] \in Clicks /\ tap \in [Taps -> Clicks] /\ request \in [Taps -> Verdicts]
      /\ Mine(t) /\ Underway(t) /\ Trail(t, Answers!Of(t))
  BY OwnPromises
<1>2. call \in Answers!Calls /\ pc \in {"done"} \cup Answers!Calls
  BY DEF Answers!Calls, Answers!Sendings
<1>3. /\ moved \in Clicks /\ moved.pc = pc /\ moved.message = m /\ moved.ephemeral = tap[t].ephemeral
      /\ moved.me = tap[t].me /\ moved.answer = tap[t].answer /\ moved.cleared = tap[t].cleared
      /\ moved = [tap[t] EXCEPT !.pc = pc]
  BY <1>0, <1>1, <1>2 DEF Clicks
<1> HIDE DEF moved
<1>4. /\ tap[t].pc = call /\ Answers!NextId \in Answers!Ids /\ chat[Answers!NextId].face = "unused"
      /\ Turnout(t, call, TRUE, Answers!NextId, [face |-> Answers!Face(t), by |-> t, to |-> "everyone"],
                 new, moved)
  BY ZenonT(60), <1>1, <1>2, <1>3, SendsEffect
<1>5. PICK k \in Answers!Ids : k = Answers!NextId
  BY <1>4
<1>6. PICK n \in {new, moved}, R \in SUBSET Answers!Calls, L \in SUBSET Answers!Calls :
            Outcome(t, call, TRUE, k, [face |-> Answers!Face(t), by |-> t, to |-> "everyone"], new, moved, n, R, L)
  BY <1>4, <1>5 DEF Turnout
<1>7. /\ tap' = [tap EXCEPT ![t] = n] /\ refused' = [refused EXCEPT ![t] = R]
      /\ lost' = [lost EXCEPT ![t] = L] /\ refused[t] \subseteq R /\ lost[t] \subseteq L
  BY <1>6 DEF Outcome
<1>8. tap'[t] = n /\ lost'[t] = L
  BY <1>1, <1>7 DEF AnswersTyped
<1>9. ~community
  BY <1>1, <1>4 DEF Underway, Ephemeral, Answers!Sendings
<1>10. PICK x \in Answers!Ids, message \in Screens :
            /\ Writes(t, x, message)
            /\ \/ UNCHANGED chat /\ message = chat[x] /\ n = moved /\ L = lost[t] /\ call \in R
               \/ /\ x = k /\ message # chat[x] /\ message.face # "gone" /\ Answers!Shown(x)'
                  /\ (n = new /\ L = lost[t]) \/ (n = moved /\ call \in L)
  <2>1. CASE /\ chat' = [chat EXCEPT ![k] = [face |-> Answers!Face(t), by |-> t, to |-> "everyone"]]
             /\ (n = new /\ L = lost[t]) \/ (n = moved /\ call \in L)
    <3>1. PICK face \in {"card", "receipt", "wait"} : face = Answers!Face(t)
      BY DEF Answers!Face
    <3>2. chat[k].face = "unused" /\ chat' = [chat EXCEPT ![k] = [face |-> face, by |-> t, to |-> "everyone"]]
      BY <1>4, <1>5, <2>1, <3>1
    <3> DEFINE sent == [face |-> face, by |-> t, to |-> "everyone"]
    <3>3. sent \in Screens /\ Writes(t, k, sent) /\ sent # chat[k] /\ Answers!Shown(k)' /\ sent.face # "gone"
      BY <1>1, <3>2, SendsWell
    <3> HIDE DEF sent
    <3> QED
      BY <2>1, <3>3
  <2>2. CASE UNCHANGED chat /\ n = moved /\ L = lost[t] /\ call \in R
    <3>1. 1 \in Answers!Ids /\ chat[1] \in Screens /\ Writes(t, 1, chat[1])
      BY <1>1, <2>2, IdsOK, IdleWrites DEF AnswersTyped
    <3> QED
      BY <2>2, <3>1
  <2> QED
    BY <1>6, <2>1, <2>2 DEF Outcome
<1>11. /\ n \in Clicks /\ n.message = m /\ n.ephemeral = tap[t].ephemeral /\ n.me = tap[t].me
       /\ n.answer = tap[t].answer /\ n.pc \in Answers!Sendings \cup {"edit_text", "deliver", "done"}
       /\ n.pc = "edit_text" => tap[t].answer.edit /\ ~tap[t].cleared
       /\ n.pc \in Answers!Sendings => n.cleared = tap[t].cleared
  <2>1. CASE n = new
    BY <1>0, <2>1 DEF Answers!Sendings
  <2>2. CASE n = moved
    BY <1>3, <2>2
  <2> QED
    BY <2>1, <2>2
<1>12. Answers!Of(t)' \subseteq Answers!Of(t) \cup {k} /\ (UNCHANGED chat => Answers!Of(t)' = Answers!Of(t))
  <2>1. UNCHANGED chat => Answers!Of(t)' = Answers!Of(t)
    BY DEF Answers!Of, Answers!Shown
  <2>2. CASE x = k
    BY <1>1, <1>10, <2>1, <2>2, ChatMoves
  <2> QED
    BY <1>10, <2>1, <2>2
<1>13. Mine(t)' /\ ReceiptIsLast(t)'
  <2>1. n.pc \notin {"idle", "placeholder", "work"} /\ tap[t].pc \notin {"idle", "done"}
    BY <1>4, <1>11 DEF Answers!Sendings
  <2>2. community => n.carried # 1
    BY <1>9
  <2> QED
    BY <1>0, <1>7, <1>10, <1>11, <2>1, <2>2, OwnStays
<1>14. Underway(t)'
  BY <1>8, <1>9, <1>11 DEF Underway, Ephemeral, Answers!Sendings
<1>15. Trail(t, Answers!Of(t))'
  <2> DEFINE after == Answers!Of(t)'
  <2>1. CASE ~(tap[t].answer.edit /\ ~tap[t].answer.delete)
    BY <1>8, <1>9, <1>11, <2>1 DEF Trail, Answers!Sendings
  <2>2. CASE tap[t].answer.edit /\ ~tap[t].answer.delete
    <3>1. /\ tap[t].cleared
          /\ lost[t] \cap Answers!Sendings = {} => Answers!Of(t) = {} /\ ~Answers!Shown(m)
      BY <1>0, <1>1, <1>4, <1>9, <2>2 DEF Trail
    <3>2. n.pc # "edit_text" /\ (n.pc \in Answers!Sendings => n.cleared)
      BY <1>11, <3>1
    <3>3. Answers!Shown(m)' => Answers!Shown(m)
      <4>1. CASE UNCHANGED chat
        BY <4>1 DEF Answers!Shown
      <4>2. CASE m \in Answers!Ids
        <5>1. chat[m].face # "unused" /\ chat[k].face = "unused"
          BY <1>0, <1>1, <1>4, <1>5, <4>2, IdsOK DEF Mine
        <5> QED
          BY <1>1, <1>10, <4>1, <4>2, <5>1, ChatMoves
      <4>3. CASE m = 0
        BY <4>3 DEF Answers!Shown, Answers!NoId
      <4> QED
        BY <4>2, <4>3, IdsOK
    <3>4. CASE L \cap Answers!Sendings # {}
      BY <1>8, <1>9, <1>11, <3>2, <3>4 DEF Trail, Edits, Answers!Sendings
    <3>5. CASE L \cap Answers!Sendings = {}
      <4>1. lost[t] \cap Answers!Sendings = {}
        BY <1>7, <3>5
      <4>2. n = new \/ UNCHANGED chat
        BY <1>10, <3>5
      <4>3. after \subseteq {k} /\ (UNCHANGED chat => after = {}) /\ ~Answers!Shown(m)'
        BY <1>12, <3>1, <3>3, <4>1
      <4>4. Answers!Shown(tap[t].message)' <=> Answers!Shown(m)'
        BY <1>8, <1>11 DEF Answers!Shown
      <4>5. n.pc \in Answers!Sendings => after = {}
        <5>1. new.pc \notin Answers!Sendings
          BY DEF Answers!Sendings
        <5> QED
          BY <4>2, <4>3, <5>1
      <4> HIDE DEF after
      <4> QED
        BY <1>5, <1>8, <1>9, <1>11, <3>2, <4>3, <4>4, <4>5 DEF Trail, Edits, after, Answers!Sendings, Marked
    <3> QED
      BY <3>4, <3>5
  <2> QED
    BY <2>1, <2>2
<1>16. tap[t].pc \in Answers!Sendings /\ tap[t].cleared =>
          \/ n.pc \in Answers!Sendings /\ n.cleared
          \/ message # chat[x] /\ message.face # "gone" /\ Answers!Shown(x)'
          \/ R \cap {"send_text", "send_upload"} # {}
  <2> SUFFICES ASSUME tap[t].cleared, n = moved, call \in R
               PROVE  (n.pc \in Answers!Sendings /\ n.cleared) \/ R \cap {"send_text", "send_upload"} # {}
    BY <1>10
  <2> QED
    BY <1>3
<1>17. ~(message # chat[x] /\ message.face = "gone")
  BY <1>10
<1>18. request' \in [Taps -> Verdicts] /\ UNCHANGED community /\ \A s \in Taps \ {t} : request'[s] = request[s]
  BY <1>1
<1>19. n \in Clicks
  BY <1>11
<1> QED
  BY <1>7, <1>9, <1>10, <1>13, <1>14, <1>15, <1>16, <1>17, <1>18, <1>19, TapMoves

\* A handler in a group writes on its own message, or takes that away.
LEMMA EphemeralStep ==
    ASSUME AnswersInv, NEW t \in Taps, NEW call \in Ephemeral, NEW pc \in {"eph_photo", "eph_text", "done"},
           pc = "eph_photo" => call = "eph_media",
           NEW new \in Clicks, new.pc \in {"deliver", "done"}, new.message = tap[t].message,
           new.ephemeral = tap[t].ephemeral, new.me = tap[t].me, new.answer = tap[t].answer,
           new.carried \in {tap[t].carried, tap[t].ephemeral},
           \/ Answers!Changes(t, call, tap[t].ephemeral, Answers!Rewritten(t, tap[t].ephemeral),
                              [tap EXCEPT ![t] = new], pc)
           \/ Answers!Changes(t, call, tap[t].ephemeral, Answers!Erased(tap[t].ephemeral),
                              [tap EXCEPT ![t] = new], pc),
           UNCHANGED <<community, request>>
    PROVE  AnswersInv'
<1>0. PICK m \in Marked : m = tap[t].ephemeral
  BY OwnPromises
<1> DEFINE moved == [tap[t] EXCEPT !.pc = pc]
<1>1. /\ AnswersTyped /\ tap[t] \in Clicks /\ tap \in [Taps -> Clicks] /\ request \in [Taps -> Verdicts]
      /\ Mine(t) /\ Underway(t) /\ Trail(t, Answers!Of(t))
  BY OwnPromises
<1>2. call \in Answers!Calls /\ pc \in {"done"} \cup Answers!Calls
  BY DEF Answers!Calls, Ephemeral
<1>3. /\ moved \in Clicks /\ moved.pc = pc /\ moved.message = tap[t].message /\ moved.ephemeral = m
      /\ moved.me = tap[t].me /\ moved.answer = tap[t].answer /\ moved.carried = tap[t].carried
      /\ moved = [tap[t] EXCEPT !.pc = pc]
  BY <1>0, <1>1, <1>2 DEF Clicks
<1> HIDE DEF moved
<1>4. PICK text \in {Answers!Rewritten(t, m), Answers!Erased(m)} :
         Answers!Changes(t, call, m, text, [tap EXCEPT ![t] = new], pc)
  BY <1>0
<1>5. tap[t].pc = call /\ Turnout(t, call, Answers!Shown(m), m, text, new, moved)
  BY <1>1, <1>2, <1>3, <1>4, ChangesEffect
<1>6. PICK n \in {new, moved}, R \in SUBSET Answers!Calls, L \in SUBSET Answers!Calls :
            Outcome(t, call, Answers!Shown(m), m, text, new, moved, n, R, L)
  BY <1>5 DEF Turnout
<1>7. /\ tap' = [tap EXCEPT ![t] = n] /\ refused' = [refused EXCEPT ![t] = R]
      /\ lost' = [lost EXCEPT ![t] = L] /\ refused[t] \subseteq R /\ lost[t] \subseteq L
  BY <1>6 DEF Outcome
<1>8. tap'[t] = n /\ lost'[t] = L
  BY <1>1, <1>7 DEF AnswersTyped
<1>9. community
  BY <1>1, <1>5 DEF Underway
<1>10. PICK x \in Answers!Ids, message \in Screens :
            /\ Writes(t, x, message) /\ (UNCHANGED chat \/ x = m)
            /\ message = chat[x] \/ (x = m /\ (message.face = "gone" \/ message.to = chat[m].to))
  <2>1. CASE m \in Answers!Ids /\ Answers!Shown(m) /\ chat' = [chat EXCEPT ![m] = Answers!Rewritten(t, m)]
    BY <1>1, <2>1, RewritesWell
  <2>2. CASE m \in Answers!Ids /\ Answers!Shown(m) /\ chat' = [chat EXCEPT ![m] = Answers!Erased(m)]
    BY <1>1, <2>2, ErasesWell
  <2>3. CASE UNCHANGED chat
    <3>1. 1 \in Answers!Ids /\ chat[1] \in Screens /\ Writes(t, 1, chat[1])
      BY <1>1, <2>3, IdsOK, IdleWrites DEF AnswersTyped
    <3> QED
      BY <2>3, <3>1
  <2> QED
    BY <1>4, <1>6, <2>1, <2>2, <2>3 DEF Outcome
<1>11. /\ n \in Clicks /\ n.message = tap[t].message /\ n.ephemeral = m /\ n.me = tap[t].me
       /\ n.answer = tap[t].answer /\ n.pc \in {"eph_photo", "eph_text", "done", "deliver"}
       /\ n.pc = "eph_photo" => call = "eph_media"
       /\ n.carried \in {tap[t].carried, m}
  <2>1. CASE n = new
    BY <1>0, <2>1
  <2>2. CASE n = moved
    BY <1>3, <2>2
  <2> QED
    BY <2>1, <2>2
<1>12. Answers!Of(t)' \subseteq Answers!Of(t) \cup {m}
  <2>1. CASE UNCHANGED chat
    BY <2>1 DEF Answers!Of, Answers!Shown
  <2>2. CASE x = m
    BY <1>1, <1>10, <2>2, ChatMoves
  <2> QED
    BY <1>10, <2>1, <2>2
<1>13. m # 1 /\ tap[t].carried # 1 /\ tap[t].me \in Taps /\ (m # 0 => chat[m].to = tap[t].me)
  BY <1>0, <1>1, <1>5, <1>9 DEF Mine, Ephemeral
<1>14. Mine(t)' /\ ReceiptIsLast(t)'
  <2>1. n.pc \notin {"idle", "placeholder", "work"} /\ tap[t].pc \notin {"idle", "done"} /\ n.carried # 1
    BY <1>5, <1>11, <1>13 DEF Ephemeral
  <2> QED
    BY <1>0, <1>7, <1>10, <1>11, <2>1, OwnStays
<1>15. Underway(t)'
  <2>1. call = "eph_media" => ~tap[t].answer.edit
    BY <1>1, <1>5 DEF Underway
  <2> QED
    BY <1>8, <1>9, <1>11, <2>1 DEF Underway, Ephemeral
<1>16. Trail(t, Answers!Of(t))'
  <2> DEFINE after == Answers!Of(t)'
  <2>1. tap[t].answer.edit /\ ~tap[t].answer.delete => after \subseteq {m}
    BY <1>0, <1>1, <1>9, <1>12 DEF Trail
  <2> HIDE DEF after
  <2> QED
    BY <1>8, <1>9, <1>11, <2>1 DEF Trail, after
<1>17. /\ x = 1 => message = chat[x]
       /\ n.me = tap[t].me
       /\ message # chat[x] /\ message.face # "gone" => message.to = n.me /\ n.me \in Taps
  BY <1>10, <1>11, <1>13, IdsOK
<1>18. request' \in [Taps -> Verdicts] /\ UNCHANGED community /\ \A s \in Taps \ {t} : request'[s] = request[s]
  BY <1>1
<1>19. n \in Clicks
  BY <1>11
<1> QED
  BY <1>7, <1>9, <1>10, <1>14, <1>15, <1>16, <1>17, <1>18, <1>19, TapMoves

\* A photo in a group is a message of its own, for who tapped.
LEMMA PhotoStep ==
    ASSUME AnswersInv, NEW t \in Taps, NEW call \in {"eph_photo", "eph_upload"},
           NEW pc \in {"eph_upload", "eph_rich"},
           Answers!Sends(t, call, tap[t].me, [tap EXCEPT ![t].pc = "eph_drop"], pc),
           UNCHANGED <<community, request>>
    PROVE  AnswersInv'
<1>0. PICK me \in Taps \cup {"everyone"} : me = tap[t].me
  BY OwnPromises DEF Clicks
<1> DEFINE moved == [tap[t] EXCEPT !.pc = pc]
           new   == [tap[t] EXCEPT !.pc = "eph_drop"]
<1>1. /\ AnswersTyped /\ tap[t] \in Clicks /\ tap \in [Taps -> Clicks] /\ request \in [Taps -> Verdicts]
      /\ Mine(t) /\ Underway(t) /\ Trail(t, Answers!Of(t))
  BY OwnPromises
<1>2. call \in Answers!Calls /\ pc \in Answers!Calls /\ "eph_drop" \in Answers!Calls
  BY DEF Answers!Calls
<1>3. ASSUME NEW n \in {new, moved}
      PROVE  /\ n \in Clicks /\ n.pc \in {"eph_upload", "eph_rich", "eph_drop"}
             /\ n.message = tap[t].message /\ n.ephemeral = tap[t].ephemeral /\ n.me = tap[t].me
             /\ n.answer = tap[t].answer /\ n.carried = tap[t].carried
  <2>1. CASE n = new
    BY <1>1, <1>2, <2>1 DEF Clicks
  <2>2. CASE n = moved
    BY <1>1, <1>2, <2>2 DEF Clicks
  <2> QED
    BY <2>1, <2>2
<1>4. [tap EXCEPT ![t].pc = "eph_drop"] = [tap EXCEPT ![t] = new] /\ moved = [tap[t] EXCEPT !.pc = pc]
  BY <1>1
<1> HIDE DEF moved, new
<1>5. Answers!Sends(t, call, me, [tap EXCEPT ![t] = new], pc)
  BY <1>0, <1>4
<1>6. /\ tap[t].pc = call /\ Answers!NextId \in Answers!Ids /\ chat[Answers!NextId].face = "unused"
      /\ Turnout(t, call, TRUE, Answers!NextId, [face |-> Answers!Face(t), by |-> t, to |-> me], new, moved)
  BY <1>1, <1>2, <1>4, <1>5, SendsEffect
<1>7. PICK k \in Answers!Ids : k = Answers!NextId
  BY <1>6
<1>8. PICK n \in {new, moved}, R \in SUBSET Answers!Calls, L \in SUBSET Answers!Calls :
            Outcome(t, call, TRUE, k, [face |-> Answers!Face(t), by |-> t, to |-> me], new, moved, n, R, L)
  BY <1>6, <1>7 DEF Turnout
<1>9. /\ tap' = [tap EXCEPT ![t] = n] /\ refused' = [refused EXCEPT ![t] = R]
      /\ lost' = [lost EXCEPT ![t] = L] /\ refused[t] \subseteq R /\ lost[t] \subseteq L
  BY <1>8 DEF Outcome
<1>10. tap'[t] = n
  BY <1>1, <1>9
<1>11. community /\ ~tap[t].answer.edit /\ me \in Taps
  BY <1>0, <1>1, <1>6 DEF Underway, Ephemeral, Mine
<1>12. PICK x \in Answers!Ids, message \in Screens :
            /\ Writes(t, x, message)
            /\ message = chat[x] \/ (x = k /\ message.face # "gone" /\ message.to = me)
  <2>1. CASE chat' = [chat EXCEPT ![k] = [face |-> Answers!Face(t), by |-> t, to |-> me]]
    <3>1. PICK face \in {"card", "receipt", "wait"} : face = Answers!Face(t)
      BY DEF Answers!Face
    <3>2. chat[k].face = "unused" /\ chat' = [chat EXCEPT ![k] = [face |-> face, by |-> t, to |-> me]]
      BY <1>6, <1>7, <2>1, <3>1
    <3> DEFINE sent == [face |-> face, by |-> t, to |-> me]
    <3>3. sent \in Screens /\ Writes(t, k, sent) /\ sent.face # "gone" /\ sent.to = me
      BY <1>1, <3>2, SendsWell
    <3> HIDE DEF sent
    <3> QED
      BY <3>3
  <2>2. CASE UNCHANGED chat
    <3>1. 1 \in Answers!Ids /\ chat[1] \in Screens /\ Writes(t, 1, chat[1])
      BY <1>1, <2>2, IdsOK, IdleWrites DEF AnswersTyped
    <3> QED
      BY <3>1
  <2> QED
    BY <1>8, <2>1, <2>2 DEF Outcome
<1>13. Mine(t)' /\ ReceiptIsLast(t)'
  <2>1. n.pc \notin {"idle", "placeholder", "work"} /\ tap[t].pc \notin {"idle", "done"} /\ n.carried # 1
    BY <1>1, <1>3, <1>6, <1>11 DEF Mine
  <2> QED
    BY <1>3, <1>9, <1>12, <2>1, OwnStays
<1>14. Underway(t)'
  BY <1>3, <1>10, <1>11 DEF Underway, Ephemeral
<1>15. Trail(t, Answers!Of(t))'
  BY <1>3, <1>10, <1>11 DEF Trail
<1>16. k # 1
  BY <1>6, <1>7, <1>11 DEF AnswersInv, OnlyForMe
<1>17. /\ x = 1 => message = chat[x]
       /\ n.me = tap[t].me
       /\ message # chat[x] /\ message.face # "gone" => message.to = n.me /\ n.me \in Taps
  BY <1>0, <1>3, <1>11, <1>12, <1>16
<1>18. request' \in [Taps -> Verdicts] /\ UNCHANGED community /\ \A s \in Taps \ {t} : request'[s] = request[s]
  BY <1>1
<1>19. n \in Clicks
  BY <1>3
<1> QED
  BY <1>9, <1>11, <1>12, <1>13, <1>14, <1>15, <1>17, <1>18, <1>19, TapMoves

\* The chat stays, and with it what a handler has written.
LEMMA NothingWritten ==
    ASSUME AnswersTyped, UNCHANGED <<chat, refused, lost>>, NEW t \in Taps
    PROVE  /\ Answers!Of(t)' = Answers!Of(t) /\ chat[1] \in Screens /\ 1 \in Answers!Ids
           /\ Writes(t, 1, chat[1]) /\ refused' = [refused EXCEPT ![t] = refused[t]]
           /\ lost' = [lost EXCEPT ![t] = lost[t]]
           /\ refused[t] \in SUBSET Answers!Calls /\ lost[t] \in SUBSET Answers!Calls
  BY IdleWrites, IdsOK DEF AnswersTyped, Answers!Of, Answers!Shown

\* A tap on a card.
LEMMA ClickStep ==
    ASSUME AnswersInv, NEW t \in Taps, NEW m \in Answers!Ids, NEW slow \in BOOLEAN, Answers!Click(t, m, slow)
    PROVE  AnswersInv'
<1> DEFINE me  == IF chat[m].to = "everyone" THEN t ELSE chat[m].to
           pc  == IF community /\ m = 1 THEN "placeholder" ELSE "work"
           eph == IF community /\ m # 1 THEN m ELSE 0
           new == [Answers!Idle EXCEPT !.pc = pc, !.message = m, !.me = me, !.ephemeral = eph, !.slow = slow]
<1>1. /\ AnswersTyped /\ tap[t] \in Clicks /\ tap \in [Taps -> Clicks] /\ request \in [Taps -> Verdicts]
      /\ Mine(t) /\ Trail(t, Answers!Of(t)) /\ ReceiptIsLast(t) /\ chat[m] \in Screens
  BY OwnPromises DEF AnswersTyped
<1>2. /\ tap[t].pc = "idle" /\ Answers!Shown(m) /\ tap' = [tap EXCEPT ![t] = new]
      /\ UNCHANGED <<community, chat, request, refused, lost>>
  <2>1. /\ pc = IF community /\ m = Answers!Original THEN "placeholder" ELSE "work"
        /\ me = IF chat[m].to = Answers!Everyone THEN t ELSE chat[m].to
        /\ eph = IF community /\ m # Answers!Original THEN m ELSE Answers!NoId
    BY DEF Answers!Everyone, Answers!Original, Answers!NoId
  <2> QED
    BY <2>1 DEF Answers!Click
<1>3. Answers!Toast \in Answers!Answers /\ Answers!Toast.edit = FALSE
  BY DEF Answers!Answers, Answers!Toast, Answers!Plain
<1>4. m \in Marked /\ 0 \in Marked
  BY IdsOK
<1>5. me \in Taps \cup {"everyone"} /\ pc \in {"placeholder", "work"} /\ eph \in Marked
  BY <1>1, <1>4 DEF Screens
<1>6. community => me \in Taps
  <2>1. CASE m = 1 /\ community
    BY <2>1 DEF AnswersInv, OnlyForMe
  <2>2. CASE m # 1 /\ community
    BY <1>2, <2>2 DEF AnswersInv, OnlyForMe
  <2> QED
    BY <2>1, <2>2
<1>7. /\ eph # 0 => eph = m /\ m # 1
      /\ pc = "placeholder" => community
  OBVIOUS
<1>8. eph # 0 => me = chat[m].to
  <2>1. ASSUME community, m # 1 PROVE chat[m].to # "everyone"
    BY <1>2, <2>1, ConstantsOK DEF AnswersInv, OnlyForMe, ConstantsOK
  <2> QED
    BY <2>1
<1> HIDE DEF me, pc, eph
<1>9. Answers!Idle \in Clicks /\ Answers!Idle.carried = 0 /\ Answers!Idle.answer = Answers!Toast
  BY <1>3, <1>4 DEF Answers!Idle, Answers!Everyone, Answers!NoId, Clicks, Answers!Calls
<1>10. /\ new \in Clicks /\ new.pc = pc /\ new.message = m /\ new.me = me /\ new.ephemeral = eph
       /\ new.carried = 0 /\ new.answer = Answers!Toast
  BY <1>4, <1>5, <1>9 DEF Clicks, Answers!Calls
<1> HIDE DEF new
<1>11. tap'[t] = new
  BY <1>1, <1>2
<1>12. chat[m].face # "unused"
  BY <1>2 DEF Answers!Shown
<1>13. Mine(t)'
  BY <1>1, <1>2, <1>6, <1>7, <1>8, <1>10, <1>11, <1>12 DEF Mine
<1>14. Underway(t)'
  BY <1>2, <1>3, <1>5, <1>7, <1>10, <1>11 DEF Underway, Ephemeral
<1>15. Trail(t, Answers!Of(t))'
  <2>1. Answers!Of(t) = {}
    BY <1>1, <1>2 DEF Trail
  <2>2. Answers!Of(t)' = {}
    BY <1>1, <1>2, <2>1, NothingWritten
  <2> QED
    BY <1>3, <1>10, <1>11, <2>2 DEF Trail
<1>16. ReceiptIsLast(t)'
  BY <1>1, <1>2, <1>5, <1>10, <1>11 DEF ReceiptIsLast
<1>17. tap[t].pc \notin Answers!Sendings
  BY <1>2 DEF Answers!Sendings
<1>18. request' \in [Taps -> Verdicts] /\ UNCHANGED community /\ \A s \in Taps \ {t} : request'[s] = request[s]
  BY <1>1, <1>2
<1>19. /\ chat[1] \in Screens /\ 1 \in Answers!Ids
       /\ Writes(t, 1, chat[1]) /\ refused' = [refused EXCEPT ![t] = refused[t]]
       /\ lost' = [lost EXCEPT ![t] = lost[t]]
       /\ refused[t] \in SUBSET Answers!Calls /\ lost[t] \in SUBSET Answers!Calls
  BY <1>1, <1>2, NothingWritten
<1> QED
  BY <1>2, <1>10, <1>13, <1>14, <1>15, <1>16, <1>17, <1>18, <1>19, TapMoves

\* In a group the private target comes first.
LEMMA PlaceholderStep == ASSUME AnswersInv, NEW t \in Taps, Answers!Placeholder(t) PROVE AnswersInv'
<1>0. PICK me \in Taps \cup {"everyone"} : me = tap[t].me
  BY OwnPromises DEF Clicks
<1>1. /\ AnswersTyped /\ tap[t] \in Clicks /\ tap \in [Taps -> Clicks] /\ request \in [Taps -> Verdicts]
      /\ Mine(t) /\ Underway(t) /\ Trail(t, Answers!Of(t)) /\ ReceiptIsLast(t)
      /\ refused \in [Taps -> SUBSET Answers!Calls] /\ lost \in [Taps -> SUBSET Answers!Calls]
  BY OwnPromises DEF AnswersTyped
<1>2. /\ tap[t].pc = "placeholder" /\ Answers!Room /\ UNCHANGED <<community, request>>
  BY DEF Answers!Placeholder
<1>3. PICK k \in Answers!Ids : k = Answers!NextId /\ chat[k].face = "unused"
  BY <1>1, <1>2, NextIsUnused
<1>4. community /\ me \in Taps
  BY <1>0, <1>1, <1>2 DEF Underway, Mine
<1>5. k # 1 /\ k \in Marked
  BY <1>3, <1>4, IdsOK DEF AnswersInv, OnlyForMe
<1> DEFINE message == [face |-> "wait", by |-> t, to |-> me]
           held(x) == [tap[t] EXCEPT !.pc = "work", !.ephemeral = x]
           good    == held(k)
           over    == [tap[t] EXCEPT !.pc = "done"]
<1>6. PICK n \in {good, over}, R \in SUBSET Answers!Calls, L \in SUBSET Answers!Calls :
         /\ tap' = [tap EXCEPT ![t] = n] /\ refused' = [refused EXCEPT ![t] = R]
         /\ lost' = [lost EXCEPT ![t] = L] /\ refused[t] \subseteq R /\ lost[t] \subseteq L
         /\ chat' = [chat EXCEPT ![k] = message] \/ (UNCHANGED chat /\ n = over)
  <2>1. /\ "placeholder" \in Answers!Calls /\ refused[t] \cup {"placeholder"} \in SUBSET Answers!Calls
        /\ lost[t] \cup {"placeholder"} \in SUBSET Answers!Calls
        /\ refused = [refused EXCEPT ![t] = refused[t]] /\ lost = [lost EXCEPT ![t] = lost[t]]
        /\ refused[t] \in SUBSET Answers!Calls /\ lost[t] \in SUBSET Answers!Calls
    BY <1>1 DEF Answers!Calls
  <2>2. CASE Answers!Obeyed(t, Answers!NextId, message,
                            [tap EXCEPT ![t].pc = "work", ![t].ephemeral = Answers!NextId])
    <3>1. /\ tap' = [tap EXCEPT ![t].pc = "work", ![t].ephemeral = Answers!NextId]
          /\ chat' = [chat EXCEPT ![k] = message] /\ UNCHANGED <<refused, lost>>
      BY <1>3, <2>2 DEF Answers!Obeyed
    <3>2. [tap EXCEPT ![t].pc = "work", ![t].ephemeral = Answers!NextId] =
             [tap EXCEPT ![t] = held(Answers!NextId)]
      BY <1>1
    <3> HIDE DEF held, over, message
    <3> QED
      BY <1>1, <1>3, <2>1, <3>1, <3>2
  <2>3. CASE Answers!Refused(t, "placeholder", "done")
    <3>1. /\ tap' = [tap EXCEPT ![t] = over] /\ UNCHANGED <<chat, lost>>
          /\ refused' = [refused EXCEPT ![t] = refused[t] \cup {"placeholder"}]
      BY <2>3 DEF Answers!Refused, Answers!Go
    <3> HIDE DEF held, good, over, message
    <3> QED
      BY <1>1, <2>1, <3>1
  <2>4. CASE Answers!AnswerLost(t, "placeholder", k, message, "done")
    <3>1. /\ tap' = [tap EXCEPT ![t] = over] /\ chat' = [chat EXCEPT ![k] = message]
          /\ UNCHANGED refused /\ lost' = [lost EXCEPT ![t] = lost[t] \cup {"placeholder"}]
      BY <2>4 DEF Answers!AnswerLost, Answers!Go
    <3> HIDE DEF held, good, over, message
    <3> QED
      BY <2>1, <3>1
  <2>5. \/ Answers!Obeyed(t, Answers!NextId, [face |-> "wait", by |-> t, to |-> tap[t].me],
                         [tap EXCEPT ![t].pc = "work", ![t].ephemeral = Answers!NextId])
        \/ Answers!Refused(t, "placeholder", "done")
        \/ Answers!AnswerLost(t, "placeholder", Answers!NextId,
                             [face |-> "wait", by |-> t, to |-> tap[t].me], "done")
    BY DEF Answers!Placeholder
  <2> QED
    BY <1>0, <1>3, <2>2, <2>3, <2>4, <2>5
<1>7. /\ n \in Clicks /\ n.pc \in {"work", "done"} /\ n.message = tap[t].message /\ n.me = me
      /\ n.answer = tap[t].answer /\ n.carried = tap[t].carried
      /\ (n.pc = "work" /\ n.ephemeral = k) \/ (n = over /\ n.pc = "done" /\ n.ephemeral = tap[t].ephemeral)
  <2>1. CASE n = good
    BY <1>0, <1>1, <1>5, <2>1 DEF Clicks
  <2>2. CASE n = over
    BY <1>0, <1>1, <2>2 DEF Clicks
  <2> QED
    BY <2>1, <2>2
<1>8. good.pc = "work" /\ over.pc = "done"
  BY <1>1 DEF Clicks
<1> HIDE DEF held, good, over
<1>9. PICK x \in Answers!Ids, sent \in Screens :
            /\ Writes(t, x, sent)
            /\ sent = chat[x] \/ (x = k /\ sent.face # "gone" /\ sent.to = me)
            /\ UNCHANGED chat \/ x = k
            /\ n.pc = "work" => x = k /\ sent.face = "wait" /\ sent.to = me
  <2>1. CASE chat' = [chat EXCEPT ![k] = message]
    <3>1. message \in Screens /\ Writes(t, k, message) /\ message.face = "wait" /\ message.to = me
      BY <1>1, <1>3, <2>1, SendsWell
    <3> HIDE DEF message
    <3> QED
      BY <3>1
  <2>2. CASE UNCHANGED chat /\ n.pc = "done"
    <3>1. 1 \in Answers!Ids /\ chat[1] \in Screens /\ Writes(t, 1, chat[1])
      BY <1>1, <2>2, IdsOK, IdleWrites DEF AnswersTyped
    <3> QED
      BY <2>2, <3>1
  <2> QED
    BY <1>6, <1>8, <2>1, <2>2
<1>10. tap'[t] = n
  BY <1>1, <1>6
<1>11. Answers!Of(t)' \subseteq {k}
  <2>1. Answers!Of(t) = {}
    BY <1>1, <1>2 DEF Trail
  <2>2. CASE UNCHANGED chat
    BY <2>1, <2>2 DEF Answers!Of, Answers!Shown
  <2>3. CASE x = k
    BY <1>1, <1>9, <2>1, <2>3, ChatMoves
  <2> QED
    BY <1>9, <2>2, <2>3
<1>12. Mine(t)'
  <2>1. /\ \A y \in Answers!Ids :
              chat[y].face # "unused" => chat'[y].face # "unused" /\ chat'[y].to = chat[y].to
        /\ chat'[x] = sent
    BY <1>1, <1>9, ChatMoves
  <2>2. tap[t].message \in Answers!Ids \cup {0} /\ tap[t].ephemeral \in Answers!Ids \cup {0}
    BY <1>1, IdsOK DEF Clicks
  <2>3. n.message # 0 => chat'[n.message].face # "unused"
    BY <1>1, <1>7, <2>1, <2>2 DEF Mine
  <2>4. n.ephemeral # 0 => n.ephemeral # 1 /\ chat'[n.ephemeral].face # "unused" /\ chat'[n.ephemeral].to = me
    <3>1. CASE n.pc = "work" /\ n.ephemeral = k
      BY <1>5, <1>9, <2>1, <3>1
    <3>2. CASE n.ephemeral = tap[t].ephemeral
      BY <1>0, <1>1, <1>4, <2>1, <2>2, <3>2 DEF Mine
    <3> QED
      BY <1>7, <3>1, <3>2
  <2> QED
    BY <1>1, <1>2, <1>4, <1>7, <1>10, <2>3, <2>4 DEF Mine
<1>13. Underway(t)'
  BY <1>1, <1>2, <1>4, <1>7, <1>10 DEF Underway, Ephemeral
<1>14. Trail(t, Answers!Of(t))'
  <2>1. ~tap[t].answer.edit
    BY <1>1, <1>2 DEF Underway
  <2> QED
    BY <1>2, <1>4, <1>7, <1>10, <1>11, <2>1 DEF Trail
<1>15. ReceiptIsLast(t)'
  BY <1>1, <1>2, <1>7, <1>10 DEF ReceiptIsLast
<1>16. /\ x = 1 => sent = chat[x]
       /\ n.me = tap[t].me
       /\ sent # chat[x] /\ sent.face # "gone" => sent.to = n.me /\ n.me \in Taps
  BY <1>0, <1>4, <1>5, <1>7, <1>9
<1>17. request' \in [Taps -> Verdicts] /\ UNCHANGED community /\ \A s \in Taps \ {t} : request'[s] = request[s]
  BY <1>1, <1>2
<1>18. n \in Clicks
  BY <1>7
<1> QED
  BY <1>4, <1>6, <1>9, <1>12, <1>13, <1>14, <1>15, <1>16, <1>17, <1>18, TapMoves

\* What the handlers answer, and where the rendering of it starts.
LEMMA FirstCallFits ==
    ASSUME NEW a \in Answers!Answers
    PROVE  /\ Answers!FirstCall(a) \in Answers!Calls \cup {"done"}
           /\ community => /\ Answers!FirstCall(a) \in {"eph_media", "eph_rich", "eph_text", "done"}
                           /\ Answers!FirstCall(a) = "eph_media" => ~a.edit
           /\ ~community => /\ Answers!FirstCall(a) \in {"edit_rich", "edit_text", "delete", "send_rich",
                                                         "send_text", "done"}
                            /\ Answers!FirstCall(a) = "delete" => a.delete
                            /\ a.edit /\ ~a.delete => Answers!FirstCall(a) \in {"edit_rich", "edit_text"}
<1>1. a.photo => ~a.edit
  <2>1. Answers!Plain.photo = FALSE /\ Answers!Plain.edit = FALSE
    BY DEF Answers!Plain
  <2>2. Answers!Card.photo = FALSE /\ Answers!Card.edit = FALSE
    BY DEF Answers!Plain, Answers!Card
  <2>3. CASE a \in {Answers!Toast, Answers!Plain, Answers!Outcome, Answers!Farewell}
    BY <2>1, <2>3 DEF Answers!Toast, Answers!Outcome, Answers!Farewell, Answers!Plain
  <2>4. CASE a = Answers!Poster
    BY <2>2, <2>4 DEF Answers!Poster, Answers!Card, Answers!Plain
  <2>5. CASE a \in {Answers!Card, Answers!Receipt, Answers!Page, Answers!Replacement, Answers!Welcome}
    BY <2>2, <2>5 DEF Answers!Receipt, Answers!Page, Answers!Replacement, Answers!Welcome, Answers!Card,
                      Answers!Plain
  <2> QED
    BY <2>3, <2>4, <2>5 DEF Answers!Answers
<1>2. /\ Answers!FirstCall(a) \in {"eph_media", "eph_rich", "eph_text", "edit_rich", "edit_text", "delete",
                                   "send_rich", "send_text", "done"}
      /\ community => /\ Answers!FirstCall(a) \in {"eph_media", "eph_rich", "eph_text", "done"}
                      /\ Answers!FirstCall(a) = "eph_media" => a.photo
      /\ ~community => /\ Answers!FirstCall(a) \in {"edit_rich", "edit_text", "delete", "send_rich",
                                                    "send_text", "done"}
                       /\ Answers!FirstCall(a) = "delete" => a.delete
                       /\ a.edit /\ ~a.delete => Answers!FirstCall(a) \in {"edit_rich", "edit_text"}
  <2>1. CASE community
    BY <2>1 DEF Answers!FirstCall
  <2>2. CASE ~community
    BY <2>2 DEF Answers!FirstCall
  <2> QED
    BY <2>1, <2>2
<1> QED
  BY <1>1, <1>2 DEF Answers!Calls

\* The handler decides what to answer; a request it makes has no receipt yet.
LEMMA WorkStep == ASSUME AnswersInv, NEW t \in Taps, Answers!Work(t) PROVE AnswersInv'
<1>1. /\ AnswersTyped /\ tap[t] \in Clicks /\ tap \in [Taps -> Clicks] /\ request \in [Taps -> Verdicts]
      /\ Mine(t) /\ Underway(t) /\ Trail(t, Answers!Of(t)) /\ ReceiptIsLast(t) /\ request[t] \in Verdicts
  BY OwnPromises
<1>2. PICK a \in Answers!Answers :
         /\ tap' = [tap EXCEPT ![t].answer = a, ![t].pc = Answers!FirstCall(a)]
         /\ request' = IF a.receipt THEN [request EXCEPT ![t].state = "pending"] ELSE request
  BY DEF Answers!Work, Answers!SlowAnswers, Answers!Answers
<1>3. tap[t].pc = "work" /\ UNCHANGED <<community, chat, refused, lost>>
  BY DEF Answers!Work
<1> DEFINE pc  == Answers!FirstCall(a)
           new == [tap[t] EXCEPT !.answer = a, !.pc = pc]
<1>4. /\ pc \in Answers!Calls \cup {"done"}
      /\ community => pc \in {"eph_media", "eph_rich", "eph_text", "done"} /\ (pc = "eph_media" => ~a.edit)
      /\ ~community => /\ pc \in {"edit_rich", "edit_text", "delete", "send_rich", "send_text", "done"}
                       /\ pc = "delete" => a.delete
                       /\ a.edit /\ ~a.delete => pc \in {"edit_rich", "edit_text"}
  BY FirstCallFits
<1> HIDE DEF pc
<1>5. tap' = [tap EXCEPT ![t] = new]
  <2>1. tap' = [tap EXCEPT ![t].answer = a, ![t].pc = pc]
    BY <1>2 DEF pc
  <2> QED
    BY <1>1, <2>1
<1>6. /\ new \in Clicks /\ new.pc = pc /\ new.answer = a /\ new.message = tap[t].message
      /\ new.me = tap[t].me /\ new.ephemeral = tap[t].ephemeral /\ new.carried = tap[t].carried
  BY <1>1, <1>4 DEF Clicks
<1>7. /\ request' \in [Taps -> Verdicts] /\ \A s \in Taps \ {t} : request'[s] = request[s]
      /\ request'[t].state \in {"none", "pending"} /\ request'[t].receipt = request[t].receipt
      /\ request'[t].seen = request[t].seen /\ (request'[t].written <=> request[t].written)
  <2>1. request[t].state = "none"
    BY <1>1, <1>3 DEF ReceiptIsLast
  <2>2. CASE a.receipt
    BY <1>1, <1>2, <2>1, <2>2 DEF Verdicts
  <2>3. CASE ~a.receipt
    BY <1>1, <1>2, <2>1, <2>3 DEF Verdicts
  <2> QED
    BY <2>2, <2>3
<1> HIDE DEF new
<1>8. tap'[t] = new
  BY <1>1, <1>5
<1>9. /\ Answers!Of(t)' = Answers!Of(t) /\ chat[1] \in Screens /\ 1 \in Answers!Ids
      /\ Writes(t, 1, chat[1]) /\ refused' = [refused EXCEPT ![t] = refused[t]]
      /\ lost' = [lost EXCEPT ![t] = lost[t]]
      /\ refused[t] \in SUBSET Answers!Calls /\ lost[t] \in SUBSET Answers!Calls
  BY <1>1, <1>3, NothingWritten
<1>10. Mine(t)'
  BY <1>1, <1>3, <1>6, <1>7, <1>8 DEF Mine
<1>11. Underway(t)'
  BY <1>1, <1>3, <1>4, <1>6, <1>8 DEF Underway, Ephemeral, Answers!Calls
<1>12. Trail(t, Answers!Of(t))'
  <2>1. /\ community => Answers!Of(t) \subseteq {tap[t].ephemeral}
        /\ ~community => Answers!Of(t) = {}
    BY <1>1, <1>3 DEF Trail
  <2> QED
    BY <1>3, <1>4, <1>6, <1>8, <1>9, <2>1 DEF Trail, Edits, Answers!Sendings, Answers!Calls
<1>13. ReceiptIsLast(t)'
  <2>1. request[t].receipt = 0 /\ request[t].seen = 0 /\ ~request[t].written
    BY <1>1, <1>3 DEF ReceiptIsLast
  <2> QED
    BY <1>4, <1>6, <1>7, <1>8, <2>1 DEF ReceiptIsLast, Answers!Calls
<1>14. tap[t].pc \notin Answers!Sendings
  BY <1>3 DEF Answers!Sendings
<1> QED
  BY <1>3, <1>5, <1>6, <1>7, <1>9, <1>10, <1>11, <1>12, <1>13, <1>14, TapMoves

\* The receipt is remembered when its tap has nothing more to write.
LEMMA RememberStep ==
    ASSUME AnswersInv, NEW t \in Taps, Answers!RememberRequesterReceipt(t) PROVE AnswersInv'
<1>1. /\ AnswersTyped /\ tap[t] \in Clicks /\ tap \in [Taps -> Clicks] /\ request \in [Taps -> Verdicts]
      /\ Mine(t) /\ Underway(t) /\ Trail(t, Answers!Of(t)) /\ ReceiptIsLast(t) /\ request[t] \in Verdicts
  BY OwnPromises
<1> DEFINE new == [tap[t] EXCEPT !.pc = "done"]
<1>2. /\ tap[t].pc = "deliver" /\ tap' = [tap EXCEPT ![t] = new] /\ UNCHANGED <<community, chat, refused, lost>>
      /\ request' = [request EXCEPT ![t].receipt = tap[t].carried] \/ UNCHANGED request
  BY DEF Answers!RememberRequesterReceipt, Answers!Go
<1>3. /\ new \in Clicks /\ new.pc = "done" /\ new.answer = tap[t].answer /\ new.message = tap[t].message
      /\ new.me = tap[t].me /\ new.ephemeral = tap[t].ephemeral /\ new.carried = tap[t].carried
  BY <1>1 DEF Clicks
<1>4. /\ request' \in [Taps -> Verdicts] /\ \A s \in Taps \ {t} : request'[s] = request[s]
      /\ request'[t].state = request[t].state /\ request'[t].receipt \in {request[t].receipt, tap[t].carried}
      /\ request'[t].seen = request[t].seen /\ (request'[t].written <=> request[t].written)
  <2>1. CASE request' = [request EXCEPT ![t].receipt = tap[t].carried]
    BY <1>1, <2>1 DEF Verdicts, Clicks
  <2>2. CASE UNCHANGED request
    BY <1>1, <2>2
  <2> QED
    BY <1>2, <2>1, <2>2
<1> HIDE DEF new
<1>5. tap'[t] = new
  BY <1>1, <1>2
<1>6. /\ Answers!Of(t)' = Answers!Of(t) /\ chat[1] \in Screens /\ 1 \in Answers!Ids
      /\ Writes(t, 1, chat[1]) /\ refused' = [refused EXCEPT ![t] = refused[t]]
      /\ lost' = [lost EXCEPT ![t] = lost[t]]
      /\ refused[t] \in SUBSET Answers!Calls /\ lost[t] \in SUBSET Answers!Calls
  BY <1>1, <1>2, NothingWritten
<1>7. Mine(t)'
  BY <1>1, <1>2, <1>3, <1>4, <1>5 DEF Mine
<1>8. Underway(t)'
  BY <1>1, <1>2, <1>3, <1>5 DEF Underway, Ephemeral
<1>9. Trail(t, Answers!Of(t))'
  <2>1. Answers!Shown(tap[t].message)' = Answers!Shown(tap[t].message)
    BY <1>2, <1>3, <1>5 DEF Answers!Shown
  <2> QED
    BY <1>1, <1>2, <1>3, <1>5, <1>6, <2>1 DEF Trail, Edits, Answers!Sendings
<1>10. ReceiptIsLast(t)'
  <2>1. request[t].receipt = 0 /\ request[t].seen = 0 /\ ~request[t].written
    BY <1>1, <1>2 DEF ReceiptIsLast
  <2> QED
    BY <1>1, <1>3, <1>4, <1>5, <2>1 DEF ReceiptIsLast
<1>11. tap[t].pc \notin Answers!Sendings
  BY <1>2 DEF Answers!Sendings
<1> QED
  BY <1>2, <1>3, <1>4, <1>6, <1>7, <1>8, <1>9, <1>10, <1>11, TapMoves

\* An administrator decides; the handler hears of the receipt as it is known then.
LEMMA DecideStep == ASSUME AnswersInv, NEW t \in Taps, Answers!Decide(t) PROVE AnswersInv'
<1>1. /\ AnswersTyped /\ tap[t] \in Clicks /\ tap \in [Taps -> Clicks] /\ request \in [Taps -> Verdicts]
      /\ Mine(t) /\ Underway(t) /\ Trail(t, Answers!Of(t)) /\ ReceiptIsLast(t) /\ request[t] \in Verdicts
  BY OwnPromises
<1>2. /\ request[t].state = "pending" /\ UNCHANGED <<community, chat, tap, refused, lost>>
      /\ request' = [request EXCEPT ![t].seen = request[t].receipt, ![t].state = "rich"]
  BY DEF Answers!Decide
<1>3. /\ request' \in [Taps -> Verdicts] /\ \A s \in Taps \ {t} : request'[s] = request[s]
      /\ request'[t].state = "rich" /\ request'[t].receipt = request[t].receipt
      /\ request'[t].seen = request[t].receipt /\ (request'[t].written <=> request[t].written)
  BY <1>1, <1>2 DEF Verdicts
<1>4. tap' = [tap EXCEPT ![t] = tap[t]] /\ tap'[t] = tap[t]
  BY <1>1, <1>2
<1>5. /\ Answers!Of(t)' = Answers!Of(t) /\ chat[1] \in Screens /\ 1 \in Answers!Ids
      /\ Writes(t, 1, chat[1]) /\ refused' = [refused EXCEPT ![t] = refused[t]]
      /\ lost' = [lost EXCEPT ![t] = lost[t]]
      /\ refused[t] \in SUBSET Answers!Calls /\ lost[t] \in SUBSET Answers!Calls
  BY <1>1, <1>2, NothingWritten
<1>6. Mine(t)'
  BY <1>1, <1>2, <1>3, <1>4 DEF Mine
<1>7. Underway(t)'
  BY <1>1, <1>2, <1>4 DEF Underway
<1>8. Trail(t, Answers!Of(t))'
  <2>1. Answers!Shown(tap[t].message)' = Answers!Shown(tap[t].message)
    BY <1>2, <1>4 DEF Answers!Shown
  <2> QED
    BY <1>1, <1>2, <1>4, <1>5, <2>1 DEF Trail
<1>9. ReceiptIsLast(t)'
  BY <1>1, <1>2, <1>3, <1>4 DEF ReceiptIsLast
<1> QED
  BY <1>1, <1>2, <1>3, <1>4, <1>5, <1>6, <1>7, <1>8, <1>9, TapMoves

\* The verdict is written on the receipt, if that is there to be written on.
LEMMA VerdictStep ==
    ASSUME AnswersInv, NEW t \in Taps, Answers!UpdateRequesterReceipt(t) PROVE AnswersInv'
<1>0. PICK m \in Marked : m = request[t].seen
  BY OwnPromises DEF Verdicts
<1>1. /\ AnswersTyped /\ tap \in [Taps -> Clicks] /\ request \in [Taps -> Verdicts]
      /\ chat \in [Answers!Ids -> Screens] /\ request[t] \in Verdicts /\ Mine(t) /\ ReceiptIsLast(t)
  BY OwnPromises DEF AnswersTyped
<1> DEFINE verdict == [chat[m] EXCEPT !.face = "verdict"]
<1>2. UNCHANGED <<community, tap, refused, lost>> /\ request[t].state \in {"rich", "text"}
  BY DEF Answers!UpdateRequesterReceipt
<1>3. UNCHANGED chat \/ (Answers!Shown(m) /\ chat' = [chat EXCEPT ![m] = verdict])
  BY <1>0 DEF Answers!UpdateRequesterReceipt
<1>4. \/ request' = [request EXCEPT ![t].state = "settled"]
      \/ /\ request' = [request EXCEPT ![t].state = "settled", ![t].written = TRUE]
         /\ Answers!Shown(m) /\ chat' = [chat EXCEPT ![m] = verdict]
      \/ request' = [request EXCEPT ![t].state = IF request[t].state = "rich" THEN "text" ELSE "settled",
                                    ![t].written = request[t].written \/ chat' # chat]
  BY <1>0, <1>1 DEF Answers!UpdateRequesterReceipt
<1>5. /\ request' \in [Taps -> Verdicts] /\ \A s \in Taps \ {t} : request'[s] = request[s]
      /\ request'[t].state \in {"text", "settled"} /\ request'[t].receipt = request[t].receipt
      /\ request'[t].seen = request[t].seen
      /\ request'[t].written => request[t].written \/ (Answers!Shown(m) /\ chat' = [chat EXCEPT ![m] = verdict])
  <2>1. CASE request' = [request EXCEPT ![t].state = "settled"]
    BY <1>1, <2>1 DEF Verdicts
  <2>2. CASE /\ request' = [request EXCEPT ![t].state = "settled", ![t].written = TRUE]
             /\ Answers!Shown(m) /\ chat' = [chat EXCEPT ![m] = verdict]
    BY <1>1, <2>2 DEF Verdicts
  <2>3. CASE request' = [request EXCEPT ![t].state = IF request[t].state = "rich" THEN "text" ELSE "settled",
                                        ![t].written = request[t].written \/ chat' # chat]
    <3>1. CASE request[t].written \/ chat' # chat
      <4>1. request' = [request EXCEPT ![t].state = IF request[t].state = "rich" THEN "text" ELSE "settled",
                                       ![t].written = TRUE]
        BY <2>3, <3>1
      <4> QED
        BY <1>1, <1>3, <3>1, <4>1 DEF Verdicts
    <3>2. CASE ~(request[t].written \/ chat' # chat)
      <4>1. request' = [request EXCEPT ![t].state = IF request[t].state = "rich" THEN "text" ELSE "settled",
                                       ![t].written = FALSE]
        BY <2>3, <3>2
      <4> QED
        BY <1>1, <4>1 DEF Verdicts
    <3> QED
      BY <3>1, <3>2
  <2> QED
    BY <1>4, <2>1, <2>2, <2>3
<1>6. /\ chat' \in [Answers!Ids -> Screens]
      /\ \A x \in Answers!Ids :
            /\ chat'[x].by = chat[x].by /\ chat'[x].to = chat[x].to /\ (x # m => chat'[x] = chat[x])
            /\ chat'[x].face # "unused" <=> chat[x].face # "unused"
            /\ Answers!Shown(x)' <=> Answers!Shown(x)
            /\ chat'[x].face = "receipt" => chat[x].face = "receipt"
      /\ chat' = [chat EXCEPT ![m] = verdict] /\ m # 0 => chat'[m].face = "verdict"
  <2>1. CASE UNCHANGED chat
    <3>1. chat' = [chat EXCEPT ![m] = verdict] /\ m # 0 => chat'[m].face = "verdict"
      BY <1>1, IdsOK DEF Screens
    <3> QED
      BY <1>1, <2>1, <3>1 DEF Answers!Shown
  <2>2. CASE Answers!Shown(m) /\ chat' = [chat EXCEPT ![m] = verdict]
    <3>1. m \in Answers!Ids
      BY <2>2, IdsOK DEF Answers!Shown, Answers!NoId
    <3>2. chat[m] \in Screens /\ verdict \in Screens /\ verdict.by = chat[m].by /\ verdict.to = chat[m].to
          /\ verdict.face = "verdict" /\ chat[m].face \notin {"unused", "gone"}
      BY <1>1, <2>2, <3>1 DEF Screens, Answers!Faces, Answers!Shown
    <3> HIDE DEF verdict
    <3> QED
      BY <1>1, <2>2, <3>1, <3>2 DEF Answers!Shown
  <2> QED
    BY <1>3, <2>1, <2>2
<1>7. AnswersTyped'
  BY <1>1, <1>2, <1>5, <1>6 DEF AnswersTyped
<1>8. OnlyForMe'
  <2>1. community => m # 1
    BY <1>0, <1>1 DEF Mine
  <2>2. community => chat'[1] = chat[1]
    BY <1>6, <2>1, IdsOK
  <2> QED
    BY <1>2, <1>6, <2>2 DEF AnswersInv, OnlyForMe
<1>9. CardOnItsWay'
  BY <1>2, <1>6 DEF AnswersInv, CardOnItsWay, Answers!Sendings, Answers!Deletions
<1>10. ASSUME NEW s \in Taps PROVE Mine(s)' /\ Underway(s)' /\ Trail(s, Answers!Of(s))' /\ ReceiptIsLast(s)'
  <2>1. /\ Mine(s) /\ Underway(s) /\ Trail(s, Answers!Of(s)) /\ ReceiptIsLast(s)
        /\ tap'[s] = tap[s] /\ lost'[s] = lost[s] /\ tap[s].message \in Answers!Ids \cup {0}
        /\ tap[s].ephemeral \in Answers!Ids \cup {0} /\ request[s] \in Verdicts
    BY <1>1, <1>2, OwnPromises, IdsOK
  <2>2. request'[s].receipt = request[s].receipt /\ request'[s].seen = request[s].seen
    BY <1>5
  <2>3. Mine(s)'
    BY <1>2, <1>6, <2>1, <2>2 DEF Mine
  <2>4. Underway(s)'
    BY <1>2, <2>1 DEF Underway
  <2>5. Trail(s, Answers!Of(s))'
    <3>1. Answers!Of(s)' = Answers!Of(s)
      BY <1>6 DEF Answers!Of
    <3>2. Answers!Shown(tap[s].message)' <=> Answers!Shown(tap[s].message)
      BY <1>6, <2>1 DEF Answers!Shown, Answers!NoId
    <3> QED
      BY <1>2, <2>1, <3>1, <3>2 DEF Trail
  <2>6. ReceiptIsLast(s)'
    <3>1. CASE s # t
      <4>1. request'[s] = request[s]
        BY <1>5, <3>1
      <4>2. ASSUME request[s].written, chat'[request[s].seen].by = s
            PROVE  chat'[request[s].seen].face # "receipt"
        <5>1. request[s].seen \in Answers!Ids
          BY <2>1, <4>2, IdsOK DEF ReceiptIsLast, Verdicts
        <5> QED
          BY <1>6, <2>1, <4>2, <5>1 DEF ReceiptIsLast
      <4> QED
        BY <1>2, <2>1, <4>1, <4>2 DEF ReceiptIsLast
    <3>2. CASE s = t
      <4>1. ASSUME request'[t].written PROVE m \in Answers!Ids /\ (chat'[m].by = t => chat'[m].face # "receipt")
        <5>1. m \in Answers!Ids
          BY <1>0, <1>1, <1>5, <4>1, IdsOK DEF ReceiptIsLast, Answers!Shown, Answers!NoId
        <5>2. CASE chat' = [chat EXCEPT ![m] = verdict]
          BY <1>6, <5>1, <5>2, IdsOK
        <5>3. CASE request[t].written
          BY <1>0, <1>1, <1>6, <5>1, <5>3 DEF ReceiptIsLast
        <5> QED
          BY <1>5, <4>1, <5>2, <5>3
      <4> QED
        BY <1>0, <1>1, <1>2, <1>5, <2>1, <3>2, <4>1, IdsOK DEF ReceiptIsLast
    <3> QED
      BY <3>1, <3>2
  <2> QED
    BY <2>3, <2>4, <2>5, <2>6
<1> QED
  BY <1>7, <1>8, <1>9, <1>10 DEF AnswersInv

\* What the rendering makes of a tap: where it goes on, and the message that carries its answer.
Carrying(t, m) ==
    [tap[t] EXCEPT !.pc = IF tap[t].answer.receipt THEN "deliver" ELSE "done", !.carried = m]
Ending(t) == [tap[t] EXCEPT !.pc = "done"]

LEMMA Carries ==
    ASSUME AnswersTyped, NEW t \in Taps, NEW m \in Marked, NEW new \in {Carrying(t, m), Ending(t)}
    PROVE  /\ new \in Clicks /\ new.pc \in {"deliver", "done"} /\ new.message = tap[t].message
           /\ new.ephemeral = tap[t].ephemeral /\ new.me = tap[t].me /\ new.answer = tap[t].answer
           /\ new.carried \in {tap[t].carried, m}
<1>1. tap[t] \in Clicks
  BY DEF AnswersTyped
<1>2. CASE new = Ending(t)
  BY <1>1, <1>2 DEF Clicks, Ending
<1>3. CASE new = Carrying(t, m)
  <2>1. PICK pc \in {"deliver", "done"} : new = [tap[t] EXCEPT !.pc = pc, !.carried = m]
    <3>1. CASE tap[t].answer.receipt
      BY <1>3, <3>1 DEF Carrying
    <3>2. CASE ~tap[t].answer.receipt
      BY <1>3, <3>2 DEF Carrying
    <3> QED
      BY <3>1, <3>2
  <2> QED
    BY <1>1, <2>1 DEF Clicks
<1> QED
  BY <1>2, <1>3

LEMMA CarriedIs ==
    ASSUME AnswersTyped, NEW t \in Taps, NEW m
    PROVE  /\ Answers!CarriedBy(t, m) = [tap EXCEPT ![t] = Carrying(t, m)]
           /\ Answers!EndsWith(t, m) = [tap EXCEPT ![t] = Ending(t)]
<1>1. tap \in [Taps -> Clicks]
  BY DEF AnswersTyped
<1> DEFINE pc == IF tap[t].answer.receipt THEN "deliver" ELSE "done"
<1>2. /\ Answers!CarriedBy(t, m) = [tap EXCEPT ![t].pc = pc, ![t].carried = m]
      /\ Carrying(t, m) = [tap[t] EXCEPT !.pc = pc, !.carried = m]
  BY DEF Answers!CarriedBy, Carrying
<1>3. Answers!EndsWith(t, m) = [tap EXCEPT ![t].pc = "done"]
  BY DEF Answers!EndsWith
<1> HIDE DEF pc
<1>4. [tap EXCEPT ![t].pc = pc, ![t].carried = m] = [tap EXCEPT ![t] = [tap[t] EXCEPT !.pc = pc, !.carried = m]]
  BY <1>1
<1> QED
  BY <1>2, <1>3, <1>4 DEF Ending

\* The rendering in a private chat.
LEMMA PrivateStep == ASSUME AnswersInv, NEW t \in Taps, Answers!RenderPrivate(t) PROVE AnswersInv'
<1>1. /\ AnswersTyped /\ tap[t].message \in Marked /\ tap[t].answer \in Answers!Answers
      /\ UNCHANGED <<community, request>>
  BY OwnPromises DEF Answers!RenderPrivate, AnswersTyped, Clicks
<1>2. CASE Answers!EditRich(t) \/ Answers!EditPlain(t) \/ Answers!EditText(t)
  BY <1>1, <1>2, EditStep DEF Answers!EditRich, Answers!EditPlain, Answers!EditText
<1>3. CASE Answers!DeleteEdited(t)
  BY <1>1, <1>3, EraseStep DEF Answers!DeleteEdited
<1>4. CASE Answers!Delete(t)
  <2>1. PICK next \in {"send_rich", "send_text"} :
           next = IF tap[t].answer.rich THEN "send_rich" ELSE "send_text"
    OBVIOUS
  <2>2. Answers!Changes(t, "delete", tap[t].message, Answers!Erased(tap[t].message),
                        [tap EXCEPT ![t].pc = next, ![t].cleared = TRUE], next)
    BY <1>4, <2>1 DEF Answers!Delete
  <2> QED
    BY <1>1, <2>2, EraseStep
<1>5. ASSUME NEW call \in Answers!Sendings, NEW to, NEW next, NEW pc, Answers!Sends(t, call, to, next, pc)
      PROVE  Answers!NextId \in Marked
  BY <1>1, <1>5, NextIsUnused, IdsOK DEF Answers!Sends
<1>6. /\ Answers!CarriedBy(t, Answers!NextId) = [tap EXCEPT ![t] = Carrying(t, Answers!NextId)]
      /\ Answers!EndsWith(t, Answers!NextId) = [tap EXCEPT ![t] = Ending(t)]
  BY <1>1, CarriedIs
<1>7. PICK fallback \in {"send_photo", "edit_text", "send_text"} :
         /\ fallback = Answers!Fallback(t)
         /\ fallback = "edit_text" => tap[t].answer.edit /\ ~tap[t].cleared
  BY DEF Answers!Fallback
<1>8. CASE Answers!SendRich(t) \/ Answers!SendHero(t) \/ Answers!SendText(t)
  <2>1. PICK call \in {"send_rich", "send_hero", "send_text"}, pc \in {"send_hero", "done", fallback} :
           /\ Answers!Sends(t, call, "everyone", [tap EXCEPT ![t] = Carrying(t, Answers!NextId)], pc)
           /\ pc = "done" => call = "send_text"
    <3>1. CASE Answers!SendRich(t)
      <4>1. CASE tap[t].answer.hero
        BY <1>6, <3>1, <4>1 DEF Answers!SendRich, Answers!Everyone
      <4>2. CASE ~tap[t].answer.hero
        BY <1>6, <1>7, <3>1, <4>2 DEF Answers!SendRich, Answers!Everyone
      <4> QED
        BY <4>1, <4>2
    <3>2. CASE Answers!SendHero(t)
      BY <1>6, <1>7, <3>2 DEF Answers!SendHero, Answers!Everyone
    <3>3. CASE Answers!SendText(t)
      BY <1>6, <3>3 DEF Answers!SendText, Answers!Everyone
    <3> QED
      BY <1>8, <3>1, <3>2, <3>3
  <2>2. /\ call \in Answers!Sendings /\ pc \in Answers!Sendings \cup {"edit_text", "done"}
        /\ pc = "edit_text" => tap[t].answer.edit /\ ~tap[t].cleared
    BY <1>7, <2>1 DEF Answers!Sendings
  <2>3. PICK k \in Marked : k = Answers!NextId
    BY <1>5, <2>1, <2>2
  <2>4. /\ Carrying(t, k) \in Clicks /\ Carrying(t, k).pc \in {"deliver", "done"}
        /\ Carrying(t, k).message = tap[t].message /\ Carrying(t, k).ephemeral = tap[t].ephemeral
        /\ Carrying(t, k).me = tap[t].me /\ Carrying(t, k).answer = tap[t].answer
    BY <1>1, Carries
  <2>5. pc = "done" => call \in {"send_text", "send_upload"}
    BY <2>1
  <2>6. Answers!Sends(t, call, "everyone", [tap EXCEPT ![t] = Carrying(t, k)], pc)
    BY <2>1, <2>3
  <2> QED
    BY <1>1, <2>2, <2>4, <2>5, <2>6, SendStep
<1>9. CASE Answers!SendPhoto(t) \/ Answers!SendUpload(t)
  <2>1. PICK call \in {"send_photo", "send_upload"}, pc \in {"send_upload", "done"} :
           /\ Answers!Sends(t, call, "everyone", [tap EXCEPT ![t] = Ending(t)], pc)
           /\ pc = "done" => call = "send_upload"
    BY <1>6, <1>9 DEF Answers!SendPhoto, Answers!SendUpload, Answers!Everyone
  <2>2. call \in Answers!Sendings /\ pc \in Answers!Sendings \cup {"edit_text", "done"} /\ pc # "edit_text"
    BY <2>1 DEF Answers!Sendings
  <2>3. /\ Ending(t) \in Clicks /\ Ending(t).pc \in {"deliver", "done"} /\ Ending(t).message = tap[t].message
        /\ Ending(t).ephemeral = tap[t].ephemeral /\ Ending(t).me = tap[t].me /\ Ending(t).answer = tap[t].answer
    BY <1>1, IdsOK, Carries
  <2> QED
    BY <1>1, <2>1, <2>2, <2>3, SendStep
<1> QED
  BY <1>2, <1>3, <1>4, <1>8, <1>9 DEF Answers!RenderPrivate

\* The rendering in a group.
LEMMA CommunityStep == ASSUME AnswersInv, NEW t \in Taps, Answers!RenderCommunity(t) PROVE AnswersInv'
<1>0. PICK m \in Marked : m = tap[t].ephemeral
  BY OwnPromises
<1>1. AnswersTyped /\ UNCHANGED <<community, request>>
  BY OwnPromises DEF Answers!RenderCommunity
<1>2. CASE Answers!EphemeralPhoto(t)
  <2>1. PICK call \in {"eph_photo", "eph_upload"}, pc \in {"eph_upload", "eph_rich"} :
           Answers!Sends(t, call, tap[t].me, [tap EXCEPT ![t].pc = "eph_drop"], pc)
    BY <1>2 DEF Answers!EphemeralPhoto, Answers!Receiver
  <2> QED
    BY <1>1, <2>1, PhotoStep
<1>3. /\ Answers!CarriedBy(t, m) = [tap EXCEPT ![t] = Carrying(t, m)]
      /\ Answers!EndsWith(t, m) = [tap EXCEPT ![t] = Ending(t)]
  BY <1>1, CarriedIs
<1>4. \A new \in {Carrying(t, m), Ending(t)} :
         /\ new \in Clicks /\ new.pc \in {"deliver", "done"} /\ new.message = tap[t].message
         /\ new.ephemeral = tap[t].ephemeral /\ new.me = tap[t].me /\ new.answer = tap[t].answer
         /\ new.carried \in {tap[t].carried, tap[t].ephemeral}
  BY <1>0, <1>1, Carries
<1>5. CASE Answers!EphemeralMedia(t) \/ Answers!EphemeralRich(t) \/ Answers!EphemeralText(t)
           \/ Answers!EphemeralDrop(t)
  <2>1. PICK call \in Ephemeral, new \in {Carrying(t, m), Ending(t)}, pc \in {"eph_photo", "eph_text", "done"} :
           /\ pc = "eph_photo" => call = "eph_media"
           /\ \/ Answers!Changes(t, call, m, Answers!Rewritten(t, m), [tap EXCEPT ![t] = new], pc)
              \/ Answers!Changes(t, call, m, Answers!Erased(m), [tap EXCEPT ![t] = new], pc)
    BY <1>0, <1>3, <1>5 DEF Answers!EphemeralMedia, Answers!EphemeralRich, Answers!EphemeralText,
                            Answers!EphemeralDrop, Ephemeral
  <2> QED
    BY <1>0, <1>1, <1>4, <2>1, EphemeralStep
<1> QED
  BY <1>2, <1>5 DEF Answers!RenderCommunity

LEMMA AnswersInit == Answers!Init => AnswersInv
<1> SUFFICES ASSUME Answers!Init PROVE AnswersInv
  OBVIOUS
<1> DEFINE unused == [face |-> "unused", by |-> "everyone", to |-> "everyone"]
           open   == [face |-> "original", by |-> "everyone", to |-> "everyone"]
           idle   == [pc |-> "idle", message |-> 0, me |-> "everyone", ephemeral |-> 0, slow |-> FALSE,
                      answer |-> Answers!Toast, cleared |-> FALSE, carried |-> 0]
           none   == [state |-> "none", receipt |-> 0, seen |-> 0, written |-> FALSE]
<1>1. /\ community \in BOOLEAN /\ chat = [m \in Answers!Ids |-> IF m = 1 THEN open ELSE unused]
      /\ tap = [t \in Taps |-> idle] /\ request = [t \in Taps |-> none]
      /\ refused = [t \in Taps |-> {}] /\ lost = [t \in Taps |-> {}]
  <2>1. [Answers!Unused EXCEPT !.face = "original"] = open /\ Answers!Unused = unused
    BY DEF Answers!Unused, Answers!Everyone
  <2>2. Answers!Idle = idle /\ Answers!NoRequest = none /\ Answers!Original = 1
    BY DEF Answers!Idle, Answers!NoRequest, Answers!Everyone, Answers!NoId, Answers!Original
  <2> QED
    BY <2>1, <2>2 DEF Answers!Init
<1>2. /\ unused \in Screens /\ open \in Screens /\ idle \in Clicks /\ none \in Verdicts
      /\ Answers!Toast.edit = FALSE
  BY IdsOK DEF Screens, Clicks, Verdicts, Answers!Faces, Answers!Answers, Answers!Toast, Answers!Plain
<1>3. /\ open.face = "original" /\ open.by = "everyone" /\ unused.face = "unused" /\ unused.by = "everyone"
      /\ idle.pc = "idle" /\ idle.answer = Answers!Toast /\ idle.message = 0 /\ idle.ephemeral = 0
      /\ idle.carried = 0 /\ none.state = "none" /\ none.receipt = 0 /\ none.seen = 0 /\ none.written = FALSE
  OBVIOUS
<1>4. chat[1] = open /\ \A m \in Answers!Ids : m # 1 => chat[m] = unused
  BY <1>1, IdsOK
<1>5. OnlyForMe
  BY <1>3, <1>4 DEF OnlyForMe, Answers!Shown
<1>6. CardOnItsWay
  BY <1>3, <1>4, IdsOK DEF CardOnItsWay, Answers!Shown, Answers!NoId
<1> HIDE DEF unused, open, idle, none
<1>7. AnswersTyped
  BY <1>1, <1>2 DEF AnswersTyped
<1>8. ASSUME NEW t \in Taps PROVE Mine(t) /\ Underway(t) /\ Trail(t, Answers!Of(t)) /\ ReceiptIsLast(t)
  <2>1. tap[t] = idle /\ request[t] = none
    BY <1>1
  <2>2. Answers!Of(t) = {}
    BY <1>3, <1>4, ConstantsOK DEF Answers!Of, Answers!Shown, ConstantsOK
  <2>3. Mine(t)
    BY <1>3, <2>1 DEF Mine
  <2>4. Underway(t)
    BY <1>2, <1>3, <2>1 DEF Underway, Ephemeral
  <2>5. Trail(t, Answers!Of(t))
    BY <1>2, <1>3, <2>1, <2>2 DEF Trail
  <2>6. ReceiptIsLast(t)
    BY <1>3, <2>1 DEF ReceiptIsLast
  <2> QED
    BY <2>3, <2>4, <2>5, <2>6
<1> QED
  BY <1>5, <1>6, <1>7, <1>8 DEF AnswersInv

\* The other parts leave this one alone.
LEMMA AnswersKept == ASSUME AnswersInv, [Next]_vars PROVE AnswersInv'
<1>1. ASSUME NEW t \in Taps, Answers!Step(t) PROVE AnswersInv'
  BY <1>1, PlaceholderStep, WorkStep, PrivateStep, CommunityStep, RememberStep DEF Answers!Step
<1>2. ASSUME NEW t \in Taps, NEW m \in Answers!Ids, NEW slow \in BOOLEAN, Answers!Click(t, m, slow)
      PROVE  AnswersInv'
  BY <1>2, ClickStep
<1>3. ASSUME NEW t \in Taps, Answers!Decide(t) \/ Answers!UpdateRequesterReceipt(t) PROVE AnswersInv'
  BY <1>3, DecideStep, VerdictStep
<1>4. CASE Answers!Next
  BY <1>1, <1>2, <1>3, <1>4 DEF Answers!Next
<1>5. CASE UNCHANGED answerVars
  <2>1. UNCHANGED <<chat, tap, request, refused, lost, community>>
    BY <1>5 DEF answerVars
  <2>2. (AnswersTyped /\ OnlyForMe)'
    BY <2>1 DEF AnswersInv, AnswersTyped, OnlyForMe, Answers!Shown
  <2>3. CardOnItsWay'
    BY <2>1 DEF AnswersInv, CardOnItsWay, Answers!Shown
  <2>4. ASSUME NEW t \in Taps PROVE (Mine(t) /\ Underway(t) /\ ReceiptIsLast(t))'
    BY <2>1 DEF AnswersInv, Mine, Underway, ReceiptIsLast
  <2>5. ASSUME NEW t \in Taps PROVE Trail(t, Answers!Of(t))'
    BY <2>1 DEF AnswersInv, Trail, Answers!Shown, Answers!Of
  <2> QED
    BY <2>2, <2>3, <2>4, <2>5 DEF AnswersInv
<1> QED
  BY <1>4, <1>5 DEF Next, vars, FeedbackStep, DeliveryStep, BrowseStep, HistoryStep, ResourceStep,
                    AccountStep, ProgressStep

\* A set with one member at most, counted as the parts count.
LEMMA AtMostOne == ASSUME NEW S, NEW m, S \subseteq {m} PROVE Answers!Cardinality(S) <= 1
<1>1. Answers!Cardinality(S) = Cardinality(S)
  BY DEF Answers!Cardinality, Cardinality
<1>2. IsFiniteSet({m}) /\ Cardinality({m}) = 1
  BY FS_Singleton
<1>3. Cardinality(S) <= Cardinality({m})
  BY <1>2, FS_Subset
<1> QED
  BY <1>1, <1>2, <1>3

\* In a group the public message is never touched and nobody is shown what is for somebody else,
\* whichever calls Telegram refuses and whichever fallbacks follow (RenderCallbackResponse).
THEOREM NothingPersonalInPublic == Spec => []NeverPublic
<1>1. Init => AnswersInv
  BY AnswersInit DEF Init
<1>2. AnswersInv /\ [Next]_vars => AnswersInv'
  BY AnswersKept
<1>3. AnswersInv => NeverPublic
  <2>1. [Answers!Unused EXCEPT !.face = "original"] = [face |-> "original", by |-> "everyone", to |-> "everyone"]
    BY DEF Answers!Unused, Answers!Everyone
  <2> QED
    BY <2>1 DEF AnswersInv, OnlyForMe, NeverPublic, Answers!NeverPublic, Answers!Original
<1> QED
  BY <1>1, <1>2, <1>3, PTL DEF Spec

\* What a tap leaves in the chat: one card and never two, none at all only when Telegram took not
\* even the last resort, and a verdict that its own receipt does not overwrite (notifyDelivered).
THEOREM OneCardStands == Spec => []CardStands
<1>1. Init => AnswersInv
  BY AnswersInit DEF Init
<1>2. AnswersInv /\ [Next]_vars => AnswersInv'
  BY AnswersKept
<1>3. AnswersInv => Answers!OneCard
  <2> SUFFICES ASSUME AnswersInv, NEW t \in Taps, tap[t].pc = "done",
                      tap[t].answer.edit, ~tap[t].answer.delete, lost[t] \cap Answers!Sendings = {}
               PROVE  Answers!Cardinality(Answers!Of(t)
                         \cup (IF ~community /\ Answers!Shown(tap[t].message) THEN {tap[t].message} ELSE {})) <= 1
    BY DEF Answers!OneCard, Answers!Done
  <2>1. Trail(t, Answers!Of(t))
    BY DEF AnswersInv
  <2>2. CASE community
    <3>1. Answers!Of(t) \cup (IF ~community /\ Answers!Shown(tap[t].message) THEN {tap[t].message} ELSE {})
             \subseteq {tap[t].ephemeral}
      BY <2>1, <2>2 DEF Trail
    <3> QED
      BY <3>1, AtMostOne
  <2>3. CASE ~community
    <3>1. PICK m \in Marked : Answers!Of(t) \subseteq {m} /\ (Answers!Shown(tap[t].message) => tap[t].message = m)
      BY <2>1, <2>3 DEF Trail
    <3>2. Answers!Of(t) \cup (IF ~community /\ Answers!Shown(tap[t].message) THEN {tap[t].message} ELSE {})
             \subseteq {m}
      BY <3>1
    <3> QED
      BY <3>2, AtMostOne
  <2> QED
    BY <2>2, <2>3
<1>4. AnswersInv => Answers!KeepsACard
  BY DEF AnswersInv, CardOnItsWay, Answers!KeepsACard, Answers!Sendings
<1>5. AnswersInv => Answers!VerdictKept
  BY DEF AnswersInv, ReceiptIsLast, Answers!VerdictKept
<1>6. AnswersInv => CardStands
  BY <1>3, <1>4, <1>5 DEF CardStands, Answers!CardStands
<1> QED
  BY <1>1, <1>2, <1>6, PTL DEF Spec
=============================================================================
