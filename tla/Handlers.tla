------------------------------- MODULE Handlers -------------------------------
(***************************************************************************)
(* What the handlers of taps and texts do besides requests, washes and     *)
(* wishes, side by side: each behaviour watches one part.  The parts share *)
(* no state here, so that their interleavings show nothing that each does  *)
(* not show by itself; the counters of inputs and faults are the same for  *)
(* all.                                                                    *)
(***************************************************************************)
EXTENDS Integers, Sequences, FiniteSets

CONSTANTS
    Parts,                   \* the parts a behaviour may watch
    Inputs, Faults, TapsOf,  \* bounds of each part on texts and commands, on what fails, and on taps
    MaxRestarts,
    Users, Root,             \* users, and the administrator ADMIN_USER_IDS names
    Taps,                    \* handlers that may be under way at once
    MaxIssues,               \* bound on the numbers of issues
    MaxMessages,             \* bound on the messages of a chat
    Media, Queries,          \* films and shows, and what finds them
    Found, Curated,          \* the pages of results of each query, and the kinds of recommendations
    Limit, MaxSearches,      \* entries of the search history kept, and bound on the searches
    Searches, MaxPage,       \* searches for resources, and bound on the pages they find
    Names, MaxId,            \* names of MoviePilot accounts, and bound on their ids
    MaxLinkAttempts,         \* failures before a user is locked out
    Accounts, Subs,          \* accounts, and the subscriptions MoviePilot may hold for them
    PerPage, MaxRequests     \* lines of a page, and bound on the requests it shows

VARIABLES
    part, inputs, taps, faults, restarts,
    talk, hand, issues, nextID, admins, drafts, together, free, told, settled,
    community, chat, tap, request, refused, lost,
    session, search, list, detail, offered, library, confirmed, requests, wishes,
    rows, clock, adding, cleaning, dropping,
    mark, candidates, cached, lookup,
    accounts, nextId, running, table, legacy, link, attempts, blocked, proven,
    bound, remembered, server, cache, mine, arrived, others, page, owned, touched, missed

\* Films and shows are told apart by what TMDB says of them.
ASSUME ConstantsOK ==
    /\ Media \subseteq [id : Nat \ {0}, type : {"movie", "tv"}]
    /\ Found \in [Queries -> Seq(SUBSET Media)]
    /\ "none" \notin Queries /\ "everyone" \notin Taps /\ MaxMessages \in Nat \ {0}
    /\ Root \in Users /\ MaxIssues \in Nat
    /\ Names \subseteq Nat \ {0} /\ 1 \in Names /\ MaxId \in Nat \ {0}
    /\ Accounts \subseteq Nat \ {0} /\ Subs \in Seq([media : Media, account : Accounts])

Issues    == INSTANCE Feedback
             WITH MaxInputs <- Inputs["feedback"], MaxFaults <- Faults["feedback"], session <- talk
Answers   == INSTANCE Delivery
             WITH MaxFaults <- Faults["delivery"]
Browsing  == INSTANCE Browse
             WITH Workers <- Taps, MaxTaps <- TapsOf["browse"], worker <- search
History   == INSTANCE SearchHistory
             WITH Queries <- Queries \ Curated
Candidates == INSTANCE Resources
             WITH Workers <- Taps, MaxTaps <- TapsOf["resources"], worker <- lookup,
                  list <- candidates
Bindings  == INSTANCE Accounts
             WITH Workers <- Taps, MaxInputs <- Inputs["accounts"], MaxFaults <- Faults["accounts"],
                  worker <- link
Progress  == INSTANCE MyRequests
             WITH MaxTaps <- TapsOf["progress"], session <- remembered, library <- arrived

issueVars    == <<talk, hand, issues, nextID, admins, drafts, together, free, told, settled>>
answerVars   == <<community, chat, tap, request, refused, lost>>
browsingVars == <<session, search, list, detail, offered, library, confirmed, requests, wishes>>
searchVars   == <<rows, clock, adding, cleaning, dropping>>
listVars     == <<mark, candidates, cached, lookup>>
bindingVars  == <<accounts, nextId, running, table, legacy, link, attempts, blocked, proven>>
progressVars == <<bound, remembered, server, cache, mine, arrived, others, page, owned,
                  touched, missed>>
vars == <<part, inputs, taps, faults, restarts, issueVars, answerVars, browsingVars, searchVars,
          listVars, bindingVars, progressVars>>

\* What a part leaves open initially is open when it is the one watched.
Init ==
    /\ part \in Parts
    /\ Issues!Init /\ Answers!Init /\ Browsing!Init /\ History!Init /\ Candidates!Init /\ Bindings!Init
    /\ Progress!Init
    /\ part # "delivery" => ~community
    /\ part # "accounts" => table = Bindings!Empty /\ legacy = Bindings!Empty
    /\ part # "progress" => others.issues = 0 /\ others.wishes = 0 /\ \A s \in DOMAIN server : server[s] = "absent"

FeedbackStep ==
    /\ part = "feedback" /\ Issues!Next
    /\ UNCHANGED <<part, taps, answerVars, browsingVars, searchVars, listVars,
                   bindingVars, progressVars>>
DeliveryStep ==
    /\ part = "delivery" /\ Answers!Next
    /\ UNCHANGED <<part, inputs, taps, restarts, issueVars, browsingVars, searchVars, listVars,
                   bindingVars, progressVars>>
BrowseStep ==
    /\ part = "browse" /\ Browsing!Next
    /\ UNCHANGED <<part, inputs, faults, restarts, issueVars, answerVars, searchVars, listVars,
                   bindingVars, progressVars>>
HistoryStep ==
    /\ part = "history" /\ History!Next
    /\ UNCHANGED <<part, inputs, taps, faults, restarts, issueVars, answerVars, browsingVars, listVars,
                   bindingVars, progressVars>>
ResourceStep ==
    /\ part = "resources" /\ Candidates!Next
    /\ UNCHANGED <<part, inputs, faults, restarts, issueVars, answerVars, browsingVars, searchVars,
                   bindingVars, progressVars>>
AccountStep ==
    /\ part = "accounts" /\ Bindings!Next
    /\ UNCHANGED <<part, taps, restarts, issueVars, answerVars, browsingVars, searchVars,
                   listVars, progressVars>>

ProgressStep ==
    /\ part = "progress" /\ Progress!Next
    /\ UNCHANGED <<part, inputs, faults, restarts, issueVars, answerVars, browsingVars, searchVars,
                   listVars, bindingVars>>

Next == FeedbackStep \/ DeliveryStep \/ BrowseStep \/ HistoryStep \/ ResourceStep \/ AccountStep
        \/ ProgressStep
Spec == Init /\ [][Next]_vars

\* What a user reports is filed once, stays what the user was told it is, and is never made of
\* what was typed after a command.
IssuesKept == Issues!IssuesKept

\* Nothing personal is shown in a group, through every fallback.
NeverPublic == Answers!NeverPublic

\* A tap leaves one card, and a verdict that was put on a receipt is not overwritten.
CardStands == Answers!CardStands

\* A detail card is about the media of its button, and a list is what its query finds.
ShowsWhatItSays == Browsing!ShowsWhatItSays

\* A show is requested as a whole only by who confirmed it.
WholeShowConfirmed == Browsing!WholeShowConfirmed

\* A MoviePilot account belongs to the one Telegram user who showed it to be theirs.
RightfulOwner == Bindings!RightfulOwner

\* The progress page shows what the user waits for, and lends no hand to what is not the user's.
PageIsTheUsers == Progress!PageIsTheUsers

\* "keep last 20 per user", what the table of searches says of itself.
KeptPerUser == History!KeptPerUser

\* "Collect results with timeout", what the search for resources says of itself.
EveryTapEnds == Candidates!EveryTapEnds
=============================================================================
