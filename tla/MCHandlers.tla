------------------------------ MODULE MCHandlers ------------------------------
(***************************************************************************)
(* Handlers on a small instance: what there is to find and to follow, and  *)
(* the bounds of each part.                                                *)
(***************************************************************************)
EXTENDS Handlers

CONSTANTS film, series, nothing, hot    \* queries, the last a kind of recommendations

\* A film and a show with the same TMDB id, on two pages of one query, together in another list.
Film      == [id |-> 1, type |-> "movie"]
Show      == [id |-> 1, type |-> "tv"]
MCMedia   == {Film, Show}
MCQueries == {film, series, nothing, hot}
MCFound   == [q \in MCQueries |->
                 CASE q = film   -> <<{Film}, {Show}>>
                   [] q = series -> <<{Show}>>
                   [] q = hot    -> <<{Film, Show}>>
                   [] OTHER      -> <<>>]

\* MoviePilot may follow both, for an account each.
MCSubs == <<[media |-> Film, account |-> 1], [media |-> Show, account |-> 2]>>

MCInputs == [feedback |-> 6, accounts |-> 2]
MCFaults == [feedback |-> 1, delivery |-> 4, accounts |-> 2]
MCTapsOf == [browse |-> 4, resources |-> 4, progress |-> 2]

\* MoviePilot follows the film already, and the user has an issue and a wish.
MCInit ==
    /\ Init
    /\ part = "progress" => server = <<"downloading", "absent">> /\ others = [issues |-> 1, wishes |-> 1]

MCSpec == MCInit /\ [][Next]_vars

\* The handlers of the resources run on.
MCFairSpec == MCSpec /\ \A w \in Taps : WF_vars(ResourceStep /\ Candidates!Advance(w))
=============================================================================
