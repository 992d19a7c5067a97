-------------------------------- MODULE Resources --------------------------------
(***************************************************************************)
(* The list of candidate resources of a title, which lives in the session  *)
(* of its user.  A search asks every site of MoviePilot, or a fallback,    *)
(* and takes seconds; a mark in the session is to keep the same search     *)
(* from being started again, and a list of the last half minute is used    *)
(* again.  Taps of one user are handled concurrently.                      *)
(***************************************************************************)
EXTENDS Integers, FiniteSets

CONSTANTS
    Searches,      \* a title and an order to sort by: searchKey
    Workers,       \* taps that may be handled at once
    MaxPage,       \* pages of the longest list
    MaxTaps        \* bound on the taps

VARIABLES
    mark,       \* resource_search_in_progress
    list,       \* resource_list
    cached,     \* resource_search_cache and resource_search_cache_time
    worker,     \* where each tap is
    taps

resourceVars == <<mark, list, cached, worker, taps>>

None   == "none"
NoList == [search |-> None, page |-> 1, pages |-> 0]
Lists  == {NoList} \cup [search : Searches, page : 1..MaxPage, pages : 0..MaxPage]
Idle   == [pc |-> "idle", search |-> None, list |-> NoList]

TypeOK ==
    /\ mark \in Searches \cup {None} /\ list \in Lists
    /\ cached \in [key : Searches \cup {None}, fresh : BOOLEAN]
    /\ worker \in [Workers -> [pc : {"idle", "mark", "sites", "search", "fallback", "list", "key", "turn"},
                               search : Searches \cup {None}, list : Lists]]
    /\ taps \in 0..MaxTaps

Init ==
    /\ mark = None /\ list = NoList
    /\ cached = [key |-> None, fresh |-> FALSE]
    /\ worker = [w \in Workers |-> Idle]
    /\ taps = 0

Tap   == taps < MaxTaps /\ taps' = taps + 1
Go(w, pc) == worker' = [worker EXCEPT ![w].pc = pc]

\* The deferred function of handleShowList, however it returns once the mark is set.
Unmark(w) == mark' = None /\ worker' = [worker EXCEPT ![w] = Idle]
-----------------------------------------------------------------------------
(* handleShowList                                                          *)

InProgress(s) == mark = s
CacheHit(s)   == cached.fresh /\ cached.key = s /\ list # NoList

\* A search that is going on is waited for; a list that is fresh is shown, whichever it is by now.
HandleShowList(w, s) ==
    /\ Tap /\ worker[w] = Idle
    /\ ~InProgress(s)
    /\ \/ CacheHit(s) /\ list' = [list EXCEPT !.page = 1] /\ UNCHANGED <<mark, worker>>
       \/ /\ ~CacheHit(s)
          /\ worker' = [worker EXCEPT ![w] = [Idle EXCEPT !.pc = "mark", !.search = s]]
          /\ UNCHANGED <<mark, list>>
    /\ UNCHANGED cached

MarkSearch(w) ==
    /\ worker[w].pc = "mark"
    /\ mark' = worker[w].search /\ Go(w, "sites")
    /\ UNCHANGED <<list, cached, taps>>

\* Without the sites of MoviePilot the fallback searches, and nobody closes the channel of results.
GetSites(w) ==
    /\ worker[w].pc = "sites"
    /\ Go(w, "search") \/ Go(w, "fallback")
    /\ UNCHANGED <<mark, list, cached, taps>>

\* The channel of results is closed when the goroutines of the sites are done, and there are none otherwise.
ChannelEnds(w) == worker[w].pc = "search"

\* Every site answers or is given up after eight seconds; the last one closes the channel.
CollectResults(w) ==
    /\ ChannelEnds(w)
    /\ \E n \in 0..MaxPage :
          worker' = [worker EXCEPT ![w].pc = "list",
                                   ![w].list = [search |-> worker[w].search, page |-> 1, pages |-> n]]
    /\ UNCHANGED <<mark, list, cached, taps>>

StoreList(w) ==
    /\ worker[w].pc = "list"
    /\ list' = worker[w].list /\ Go(w, "key")
    /\ UNCHANGED <<mark, cached, taps>>

StoreKey(w) ==
    /\ worker[w].pc = "key"
    /\ cached' = [key |-> worker[w].search, fresh |-> TRUE]
    /\ Unmark(w)
    /\ UNCHANGED <<list, taps>>

\* Half a minute is over.
CacheExpires == cached.fresh /\ cached' = [cached EXCEPT !.fresh = FALSE] /\ UNCHANGED <<mark, list, worker, taps>>
-----------------------------------------------------------------------------
(* The buttons under a list                                                *)

LastPage(l) == IF l.pages < 1 THEN 1 ELSE l.pages

\* A page or an order: the list is read, and written back with another page.
TurnTo(l, step) ==
    LET page == l.page + step IN IF page < 1 THEN 1 ELSE IF page > LastPage(l) THEN LastPage(l) ELSE page

HandlePage(w, step) ==
    /\ Tap /\ worker[w] = Idle /\ list # NoList
    /\ worker' = [worker EXCEPT ![w] = [Idle EXCEPT !.pc = "turn", !.list = [list EXCEPT !.page = TurnTo(list, step)]]]
    /\ UNCHANGED <<mark, list, cached>>

HandleSort(w) ==
    /\ Tap /\ worker[w] = Idle /\ list # NoList
    /\ worker' = [worker EXCEPT ![w] = [Idle EXCEPT !.pc = "turn", !.list = [list EXCEPT !.page = 1]]]
    /\ UNCHANGED <<mark, list, cached>>

PutBack(w) ==
    /\ worker[w].pc = "turn"
    /\ list' = worker[w].list
    /\ worker' = [worker EXCEPT ![w] = Idle]
    /\ UNCHANGED <<mark, cached, taps>>

Advance(w) ==
    \/ MarkSearch(w) \/ GetSites(w) \/ CollectResults(w) \/ StoreList(w) \/ StoreKey(w) \/ PutBack(w)

Next ==
    \/ \E w \in Workers : \/ \E s \in Searches : HandleShowList(w, s)
                          \/ \E step \in {-1, 1} : HandlePage(w, step)
                          \/ HandleSort(w) \/ Advance(w)
    \/ CacheExpires

\* Handlers run; sites answer or are given up.
Fairness == \A w \in Workers : WF_resourceVars(Advance(w))
Spec     == Init /\ [][Next]_resourceVars
FairSpec == Spec /\ Fairness
-----------------------------------------------------------------------------
\* "Collect results with timeout": every tap is answered in the end.
EveryTapEnds == \A w \in Workers : worker[w].pc # "idle" ~> worker[w].pc = "idle"
=============================================================================
