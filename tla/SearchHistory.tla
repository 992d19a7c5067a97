------------------------------ MODULE SearchHistory ------------------------------
(***************************************************************************)
(* SearchHistoryDB, the searches of every user in one SQLite table.        *)
(* Recording a search is a SELECT, then an INSERT or an UPDATE, then a     *)
(* goroutine that trims the table; the buttons of the history and of the   *)
(* popular searches carry an index into what the table lists when they     *)
(* are tapped.                                                             *)
(***************************************************************************)
EXTENDS Integers, FiniteSets, SequencesExt

CONSTANTS
    Users,
    Queries,
    Limit,         \* entries kept per user (20)
    MaxSearches    \* bound on the searches

VARIABLES
    rows,       \* search_history
    clock,      \* time.Now(), counted in searches
    adding,     \* AddSearch between its SELECT and its write
    cleaning,   \* users whose cleanupOldEntries has not run yet
    dropping    \* DeleteEntry between its SELECT and its DELETE

historyVars == <<rows, clock, adding, cleaning, dropping>>

Times == 0..MaxSearches
NoRow == 0
Rows  == [id : 1..MaxSearches, user : Users, query : Queries, at : Times, count : 1..MaxSearches]

TypeOK ==
    /\ rows \subseteq Rows
    /\ \A r, s \in rows : r.id = s.id => r = s
    /\ clock \in Times
    /\ adding \subseteq [user : Users, query : Queries, at : Times, found : 0..MaxSearches]
    /\ cleaning \subseteq Users
    /\ dropping \subseteq [user : Users, query : Queries, at : Times]

Init ==
    /\ rows = {} /\ clock = 0
    /\ adding = {} /\ cleaning = {} /\ dropping = {}
-----------------------------------------------------------------------------
RowsOf(u) == {r \in rows : r.user = u}

\* The newest n of some rows: ORDER BY timestamp DESC LIMIT n.
Newest(some, n) == {r \in some : Cardinality({s \in some : s.at > r.at}) < n}

GetHistory(u) == SetToSortSeq(Newest(RowsOf(u), Limit), LAMBDA r, s : r.at > s.at)

\* The search of a user, typed or picked from a list: its time is taken before the SELECT.
SelectRow(u, q) ==
    /\ clock < MaxSearches
    /\ clock' = clock + 1
    /\ LET same == {r \in RowsOf(u) : r.query = q}
           id   == IF same = {} THEN NoRow ELSE (CHOOSE r \in Newest(same, 1) : TRUE).id
       IN adding' = adding \cup {[user |-> u, query |-> q, at |-> clock', found |-> id]}
    /\ UNCHANGED <<rows, cleaning, dropping>>

HandleSearchQuery(u, q) == SelectRow(u, q)

\* "hist" takes the query that the history has at that index now, "pop" one of the popular queries.
GetHistoryQuery(u, i) == i \in DOMAIN GetHistory(u) /\ SelectRow(u, GetHistory(u)[i].query)
GetPopularQuery(u, q) == (\E r \in rows : r.query = q) /\ SelectRow(u, q)

Updated(r, a) == [r EXCEPT !.count = @ + 1, !.at = a.at]

\* AUTOINCREMENT gives no id twice; here a row has the time of the search that inserted it.
\* UPDATE changes nothing when the row is gone, and then the search is not recorded.
WriteRow(a) ==
    /\ adding' = adding \ {a}
    /\ cleaning' = cleaning \cup {a.user}
    /\ IF a.found = NoRow
       THEN rows' = rows \cup {[id |-> a.at, user |-> a.user, query |-> a.query, at |-> a.at, count |-> 1]}
       ELSE rows' = {IF r.id = a.found THEN Updated(r, a) ELSE r : r \in rows}
    /\ UNCHANGED <<clock, dropping>>

\* "Clean up old entries (keep last 20 per user)": the DELETE names no user, so that it keeps those
\* of this user and nothing else.
CleanupOldEntries(u) ==
    /\ u \in cleaning
    /\ cleaning' = cleaning \ {u}
    /\ rows' = Newest(RowsOf(u), Limit)
    /\ UNCHANGED <<clock, adding, dropping>>

\* DeleteEntry looks the index up, then deletes what has that query and that time.
SelectEntry(u, i) ==
    /\ i \in DOMAIN GetHistory(u)
    /\ dropping' = dropping \cup {[user |-> u, query |-> GetHistory(u)[i].query, at |-> GetHistory(u)[i].at]}
    /\ UNCHANGED <<rows, clock, adding, cleaning>>

DeleteEntry(d) ==
    /\ dropping' = dropping \ {d}
    /\ rows' = {r \in rows : ~(r.user = d.user /\ r.query = d.query /\ r.at = d.at)}
    /\ UNCHANGED <<clock, adding, cleaning>>

ClearHistory(u) ==
    /\ RowsOf(u) # {}
    /\ rows' = rows \ RowsOf(u)
    /\ UNCHANGED <<clock, adding, cleaning, dropping>>

Search(u) ==
    \/ \E q \in Queries : HandleSearchQuery(u, q) \/ GetPopularQuery(u, q)
    \/ \E i \in 1..Limit : GetHistoryQuery(u, i)

Next ==
    \/ \E u \in Users : Search(u)
    \/ \E a \in adding : WriteRow(a)
    \/ \E u \in Users : CleanupOldEntries(u)
    \/ \E u \in Users, i \in 1..Limit : SelectEntry(u, i)
    \/ \E d \in dropping : DeleteEntry(d)
    \/ \E u \in Users : ClearHistory(u)

Spec == Init /\ [][Next]_historyVars
-----------------------------------------------------------------------------
\* "keep last 20 per user": a search leaves the history of its user only when they remove it, or
\* when enough newer ones of theirs push it out.
KeptPerUser ==
    [][\A r \in rows :
          \/ \E s \in rows' : s.id = r.id
          \/ ClearHistory(r.user) \/ \E d \in dropping : d.user = r.user /\ DeleteEntry(d)
          \/ Cardinality({s \in RowsOf(r.user) : s.at > r.at}) >= Limit]_historyVars
=============================================================================
