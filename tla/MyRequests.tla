------------------------------- MODULE MyRequests -------------------------------
(***************************************************************************)
(* The progress page of one user: a list put together from the user's      *)
(* requests, the cached subscriptions of the MoviePilot account the        *)
(* session remembers, and what else the user waits for; cut into pages     *)
(* whose buttons stay in the chat while all of that changes.               *)
(*                                                                         *)
(* An id stands for a TMDB id and a season.  What a withdrawal does to the *)
(* quota is RequestLedger's CancelByUser.                                  *)
(***************************************************************************)
EXTENDS Integers, FiniteSets, SequencesExt

CONSTANTS
    Media,         \* [id, type]: films and shows share ids
    Accounts,      \* MoviePilot accounts, numbered from 1
    Subs,          \* subscriptions MoviePilot may hold: [media, account] of each id
    PerPage,       \* requestsPerPage (10)
    MaxRequests,   \* bound on requests
    MaxTaps        \* bound on taps

VARIABLES
    bound,      \* the account user_mappings has for the user
    session,    \* moviepilot_id in the session
    server,     \* MoviePilot: the state of each subscription
    cache,      \* subsCacheData: the same, of a while ago
    mine,       \* the user's requests and wash orders, oldest first
    library,    \* media with a library marker (LibraryNotifiedAt)
    others,     \* open issues and wishes of the user
    page,       \* the message with the list, and the item under it that is open
    owned,      \* history: accounts the user was ever bound to
    touched,    \* history: subscriptions cancelled or searched again from the page
    missed,     \* history: a list lacked something the user waits for
    taps

pageVars == <<bound, session, server, cache, mine, library, others, page, owned, touched, missed, taps>>

NoAccount == 0
NoCache   == [s \in DOMAIN Subs |-> "unknown"]
NoSub     == 0
NoPage    == [list |-> <<>>, number |-> 0, open |-> NoSub]
States    == {"absent", "searching", "downloading", "completed", "failed"}
Statuses  == {"pending", "approved", "rejected", "cancelled", "failed", "completed"}

TypeOK ==
    /\ bound \in Accounts \cup {NoAccount} /\ session \in Accounts \cup {NoAccount}
    /\ server \in [DOMAIN Subs -> States]
    /\ cache = NoCache \/ cache \in [DOMAIN Subs -> States]
    /\ mine \in Seq([media : Media, business : {"request", "wash"}, status : Statuses,
                     sub : DOMAIN Subs \cup {NoSub}])
    /\ Len(mine) <= MaxRequests
    /\ library \subseteq Media
    /\ others \in [issues : 0..1, wishes : 0..1]
    /\ page.number \in Nat /\ page.open \in DOMAIN Subs \cup {NoSub}
    /\ owned \subseteq Accounts /\ touched \subseteq DOMAIN Subs /\ missed \in BOOLEAN
    /\ taps \in 0..MaxTaps

Init ==
    /\ bound = NoAccount /\ session = NoAccount
    /\ server \in [DOMAIN Subs -> {"absent", "downloading"}]
    /\ cache = NoCache
    /\ mine = <<>> /\ library = {}
    /\ others \in [issues : 0..1, wishes : 0..1]
    /\ page = NoPage
    /\ owned = {} /\ touched = {} /\ missed = FALSE
    /\ taps = 0

Tap == taps < MaxTaps /\ taps' = taps + 1
chat  == <<page, touched, missed, taps>>
world == <<bound, owned, server, library, others>>
-----------------------------------------------------------------------------
(* The list.                                                               *)

About(r) == <<r.business, r.media.id>>

\* Fault: requests and wash orders are not told apart.
KeyOfAnyBusiness(r) == <<"request", r.media.id>>

\* The type is not part of the key.
Key(r) == <<r.business, r.media.id>>
SubKey(s) == <<"request", Subs[s].media.id>>

Shown(r) ==
    CASE r.status = "approved" -> IF r.business = "wash" THEN "work_order" ELSE "stuck"
      [] r.status \in {"rejected", "cancelled"} -> "cancelled"
      [] r.status = "failed" /\ r.business = "request" -> "failed"
      [] r.status = "completed" -> "completed"
      [] OTHER -> "reviewing"

\* A request that has a subscription, or one that came to nothing, is left to MoviePilot's list.
Candidate(r, subs) ==
    /\ Key(r) \notin {SubKey(s) : s \in subs}
    /\ ~(r.business = "request" /\ (r.sub # NoSub \/ r.status \in {"rejected", "cancelled"}))

\* Of the candidates with one key the newest.
Joins(i, subs) ==
    /\ Candidate(mine[i], subs)
    /\ \A j \in i + 1..Len(mine) : ~(Candidate(mine[j], subs) /\ Key(mine[j]) = Key(mine[i]))

Entry(about, sub, state) == [about |-> about, sub |-> sub, state |-> state]

\* The library's word counts for more than MoviePilot's.
SubEntry(s) == Entry(SubKey(s), s, IF Subs[s].media \in library THEN "completed" ELSE cache[s])

\* The n-th of a set of numbers, from the lowest.
Nth(numbers, n) == CHOOSE i \in numbers : Cardinality({j \in numbers : j <= i}) = n

\* The newest first.
Extra(subs) ==
    LET joining == {i \in DOMAIN mine : Joins(i, subs)}
        Newest(n) == mine[Nth(joining, Cardinality(joining) + 1 - n)]
    IN [n \in 1..Cardinality(joining) |-> Entry(About(Newest(n)), NoSub, Shown(Newest(n)))]

Issues == [i \in 1..others.issues |-> Entry(<<"issue", i>>, NoSub, "issue_open")]
Wishes == [i \in 1..others.wishes |-> Entry(<<"wish", i>>, NoSub, "wish")]

MergePendingReviews(subs) ==
    Extra(subs) \o Issues \o [n \in 1..Cardinality(subs) |-> SubEntry(Nth(subs, n))]

Ready == cache # NoCache

\* GetUserRequests takes what the cache has, nothing when it has expired.
UserSubs(account) ==
    IF ~Ready THEN {}
    ELSE {s \in DOMAIN Subs : Subs[s].account = account /\ cache[s] # "absent"}

Pages(n) == IF n = 0 THEN 1 ELSE (n + PerPage - 1) \div PerPage
Clamp(p, list) == IF p > Pages(Len(list)) THEN Pages(Len(list)) ELSE p
OnPage == {page.list[i] : i \in {i \in DOMAIN page.list : (i - 1) \div PerPage + 1 = page.number}}

\* What the keyboard offers: the items of the page that MoviePilot knows, and the pages around.
ItemButtons == {e.sub : e \in OnPage} \ {NoSub}
PageButtons == {p \in {page.number - 1, page.number, page.number + 1} :
                   p >= 1 /\ p <= Pages(Len(page.list))}
-----------------------------------------------------------------------------
\* What the user waits for: undecided, or approved and not linked yet.
Open(r) == r.status \in {"pending", "approved"} /\ ~(r.business = "request" /\ r.sub # NoSub)

Shows(list, p) ==
    /\ page' = [list |-> list, number |-> Clamp(p, list), open |-> NoSub]
    /\ missed' = (missed \/ \E i \in DOMAIN mine :
                      Open(mine[i]) /\ About(mine[i]) \notin {e.about : e \in ToSet(list)})

\* Without an account, and until the subscriptions are there, the list is of local matters only.
HandleRequestsWithPage(p) ==
    LET account == IF session # NoAccount THEN session ELSE bound
    IN /\ session' = account
       /\ IF account = NoAccount \/ ~Ready
          THEN Shows(MergePendingReviews({}), p)
          ELSE \/ Shows(MergePendingReviews(UserSubs(account)) \o Wishes, p)
               \/ UNCHANGED <<page, missed>>                 \* the account cannot be looked up
       /\ UNCHANGED <<bound, owned, server, library, others, cache, mine, touched>>

Requests ==
    /\ Tap
    /\ \E p \in {1} \cup PageButtons : HandleRequestsWithPage(p)

\* The command /requests: the first page, by the binding and not the session, without the wishes,
\* and with what is local alone when the account cannot be looked up.
BuildForCommand ==
    /\ Tap
    /\ \/ bound # NoAccount /\ Shows(MergePendingReviews(UserSubs(bound)), 1)
       \/ Shows(MergePendingReviews({}), 1)
    /\ UNCHANGED <<world, session, cache, mine, touched>>

\* The item is looked for in the list of now, with the account of the session alone.
HandleInfo ==
    /\ Tap
    /\ \E s \in ItemButtons :
          /\ page.open = NoSub
          /\ \/ s \in UserSubs(session) /\ page' = [page EXCEPT !.open = s]
             \/ UNCHANGED page                  \* it is not there, or the account is not looked up
    /\ UNCHANGED <<world, session, cache, mine, touched, missed>>

\* PUT of the state R; MoviePilot does not know what was deleted.
HandleReshare ==
    /\ Tap /\ page.open # NoSub
    /\ IF server[page.open] = "absent" THEN UNCHANGED <<server, touched>>
       ELSE /\ server' = [server EXCEPT ![page.open] = "searching"]
            /\ touched' = touched \cup {page.open}
    /\ UNCHANGED <<bound, owned, library, others, session, cache, mine, page, missed>>

\* DELETE, if the account's cached list has it; that it is gone already is success.
HandleCancel ==
    /\ Tap /\ page.open # NoSub
    /\ IF page.open \in UserSubs(session)
       THEN \/ /\ server' = [server EXCEPT ![page.open] = "absent"]
               /\ touched' = touched \cup {page.open}
            \/ UNCHANGED <<server, touched>>                 \* the call fails
       ELSE UNCHANGED <<server, touched>>
    /\ UNCHANGED <<bound, owned, library, others, session, cache, mine, page, missed>>

\* CancelByUser for the newest pending request, whichever the page shows; it changes nothing when
\* the request was decided meanwhile, or the write fails.
HandleCancelReview ==
    /\ Tap /\ page # NoPage
    /\ LET pending == {i \in DOMAIN mine : mine[i].status = "pending" /\ mine[i].business = "request"}
           newest  == CHOOSE i \in pending : \A j \in pending : j <= i
       IN \/ pending # {} /\ mine' = [mine EXCEPT ![newest].status = "cancelled"]
          \/ UNCHANGED mine
    /\ UNCHANGED <<world, session, cache, page, touched, missed>>
-----------------------------------------------------------------------------
(* The cache and the session.                                              *)

WarmupSubscriptionCache ==
    /\ ~Ready /\ cache' = server
    /\ UNCHANGED <<world, session, mine, chat>>

Expire ==
    /\ Ready /\ cache' = NoCache
    /\ UNCHANGED <<world, session, mine, chat>>

\* The session is gone with the program, or after its time.
SessionEnds ==
    /\ session # NoAccount /\ session' = NoAccount
    /\ UNCHANGED <<world, cache, mine, chat>>

\* The button of who is bound already; neither the command that binds nor the one that unbinds
\* touches the session.
AlreadyLinked ==
    /\ bound # NoAccount /\ session' = bound
    /\ UNCHANGED <<world, cache, mine, chat>>

Link(a) ==
    /\ bound = NoAccount /\ bound' = a /\ owned' = owned \cup {a}
    /\ UNCHANGED <<server, library, others, session, cache, mine, chat>>

Unlink ==
    /\ bound # NoAccount /\ bound' = NoAccount
    /\ UNCHANGED <<owned, server, library, others, session, cache, mine, chat>>
-----------------------------------------------------------------------------
(* The requests and MoviePilot, as far as the page sees them.              *)

IsActiveReviewStatus(status) == status \in {"pending", "approved"}

CreateRequest(m, business) ==
    /\ Len(mine) < MaxRequests
    /\ \A i \in DOMAIN mine : ~ /\ mine[i].media = m /\ mine[i].business = business
                                /\ IsActiveReviewStatus(mine[i].status)
    /\ mine' = Append(mine, [media |-> m, business |-> business, status |-> "pending", sub |-> NoSub])
    /\ UNCHANGED <<world, session, cache, chat>>

\* RequestMedia invalidates the cache.
Approve(i) ==
    /\ mine[i].status = "pending" /\ mine[i].business = "request"
    /\ \E s \in DOMAIN Subs :
          /\ Subs[s].media = mine[i].media
          /\ mine' = [mine EXCEPT ![i].status = "approved", ![i].sub = s]
          /\ server' = [server EXCEPT ![s] = "searching"]
    /\ cache' = NoCache
    /\ UNCHANGED <<bound, owned, library, others, session, chat>>

\* Any other verdict, and what comes of an approval that has no subscription.
Decide(i, status) ==
    /\ \/ mine[i].status = "pending" /\ status \in {"approved", "rejected"}
       \/ /\ mine[i].status = "approved" /\ mine[i].sub = NoSub
          /\ status = "failed" \/ (status = "completed" /\ mine[i].business = "wash")
    /\ mine' = [mine EXCEPT ![i].status = status]
    /\ UNCHANGED <<world, session, cache, chat>>

Arrives(i) ==
    /\ mine[i].sub # NoSub /\ mine[i].media \notin library
    /\ library' = library \cup {mine[i].media}
    /\ UNCHANGED <<bound, owned, server, others, session, cache, mine, chat>>

Next ==
    \/ Requests \/ BuildForCommand \/ HandleInfo \/ HandleReshare \/ HandleCancel \/ HandleCancelReview
    \/ WarmupSubscriptionCache \/ Expire \/ SessionEnds \/ AlreadyLinked \/ Unlink
    \/ \E a \in Accounts : Link(a)
    \/ \E m \in Media, b \in {"request", "wash"} : CreateRequest(m, b)
    \/ \E i \in DOMAIN mine : Approve(i) \/ Arrives(i)
    \/ \E i \in DOMAIN mine, s \in {"approved", "rejected", "failed", "completed"} : Decide(i, s)

Spec == Init /\ [][Next]_pageVars
-----------------------------------------------------------------------------
\* Whatever is bound, cached or merged, a page lists all that the user waits for: by itself
\* or by one of the other type with its id.
NothingMissed == ~missed

\* What is cancelled or searched again from the page belongs to an account that was the user's,
\* though the session may remember one that is not any more.
OwnSubscriptions == \A s \in touched : Subs[s].account \in owned

\* The page shows what the user waits for, and lends no hand to what is not the user's.
PageIsTheUsers == NothingMissed /\ OwnSubscriptions
=============================================================================
