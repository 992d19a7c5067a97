----------------------------- MODULE LibraryProofs -----------------------------
(***************************************************************************)
(* Proofs about Library: nobody who waits is forgotten, and an arrival is  *)
(* told once and booked in both ledgers, for any number of seasons, users, *)
(* requests, events, failures and restarts.                                *)
(***************************************************************************)
EXTENDS Library, TLAPS

\* The part of the type that the argument needs.
LibraryTyped ==
    /\ buffer \in [Seasons -> [eps : SUBSET Episodes, known : BOOLEAN]]
    /\ work \in [Workers -> Works]
    /\ single \in BOOLEAN
    /\ carpool \in [Seasons -> SUBSET Users]
    /\ marked \in [Stores -> SUBSET Requests] /\ completed \in [Stores -> SUBSET Requests]

\* While the group is being told, whoever waits will be told with it, or came too late.
WaitersCounted ==
    \A w \in Workers, u \in Users, s \in Seasons :
        /\ <<u, s>> \in waiting /\ <<u, s>> \notin late /\ ~widened
        /\ s \in Matching(work[w].season)
        => /\ work[w].pc = "tell" => u \in work[w].members
           /\ work[w].pc # "clear"

\* A request is in hand from when its user was told until its completion is recorded, and marked
\* before that.
InHand ==
    /\ marked["memory"] = marked["file"]
    /\ \A x \in Stores : completed[x] \subseteq marked["file"]
    /\ \A w \in Workers : /\ work[w].pc = "complete" => work[w].request \subseteq marked["file"]
                          /\ work[w].request # {} => work[w].pc \in {"record", "complete"}

\* Until something excuses it, whoever was told is marked or in hand, and nobody was told again.
HeardKnown ==
    excuses = {} =>
        /\ retold = {}
        /\ \A r \in heard : r \in marked["memory"] \/ \E w \in Workers : r \in work[w].request

LibraryInv == LibraryTyped /\ NobodyForgotten /\ WaitersCounted /\ InHand /\ HeardKnown
-----------------------------------------------------------------------------
\* What of a worker's place the argument looks at.
Moves(w, pc, season, members, request) ==
    /\ work' \in [Workers -> Works]
    /\ \A v \in Workers \ {w} : work'[v] = work[v]
    /\ work'[w].pc = pc /\ work'[w].season = season
    /\ work'[w].members = members /\ work'[w].request = request

LEMMA RestIsAPlace == AtRest \in Works
  BY ConstantsOK DEF AtRest, Works, Seasons

\* A worker that has nobody in hand goes where it announces nothing.
LEMMA AsideStep ==
    ASSUME LibraryInv, NEW w \in Workers, NEW pc, NEW season, NEW members,
           pc \notin {"tell", "clear"}, Moves(w, pc, season, members, {}),
           work[w].request \subseteq marked["file"],
           buffer' \in [Seasons -> [eps : SUBSET Episodes, known : BOOLEAN]],
           UNCHANGED <<single, carpool, ledgers, waiting, late, widened, heard, retold, excuses>>
    PROVE  LibraryInv'
<1>1. UNCHANGED <<marked, completed>>
  BY DEF ledgers
<1>2. LibraryTyped'
  BY <1>1 DEF LibraryInv, LibraryTyped, Moves
<1>3. NobodyForgotten' /\ WaitersCounted'
  BY DEF LibraryInv, NobodyForgotten, WaitersCounted, Moves
<1>4. InHand'
  BY <1>1 DEF LibraryInv, InHand, Moves
<1>5. HeardKnown'
  <2> SUFFICES ASSUME excuses' = {}, NEW r \in heard
               PROVE  r \in marked["memory"] \/ \E v \in Workers : r \in work'[v].request
    BY <1>1 DEF HeardKnown, LibraryInv
  <2>1. r \in marked["memory"] \/ \E v \in Workers : r \in work[v].request
    BY DEF LibraryInv, HeardKnown
  <2>2. marked["memory"] = marked["file"]
    BY DEF LibraryInv, InHand
  <2> QED
    BY <2>1, <2>2 DEF Moves
<1> QED
  BY <1>2, <1>3, <1>4, <1>5 DEF LibraryInv

\* Who has nothing in hand.
LEMMA Free ==
    ASSUME LibraryInv, NEW w \in Workers, work[w].pc \notin {"record", "complete"}
    PROVE  work[w].request = {}
  BY DEF LibraryInv, InHand

LEMMA InfoIsBoolean == EnhancedInfo \subseteq BOOLEAN
  BY DEF EnhancedInfo

\* A buffer gathers an episode, a timer fires, an administrator chooses.
LEMMA BufferStep ==
    ASSUME LibraryInv,
           \/ \E s \in Seasons, e \in Episodes : AggregateEpisode(s, e)
           \/ \E s \in Seasons : TimerFires(s)
           \/ SetSingleEnabled
    PROVE  LibraryInv'
<1>1. /\ UNCHANGED <<work, carpool, marked, completed, waiting, late, widened, heard, retold, excuses>>
      /\ single' \in BOOLEAN
      /\ buffer' \in [Seasons -> [eps : SUBSET Episodes, known : BOOLEAN]]
  <2>1. ASSUME NEW s \in Seasons, NEW e \in Episodes, AggregateEpisode(s, e)
        PROVE  buffer' \in [Seasons -> [eps : SUBSET Episodes, known : BOOLEAN]]
    <3>1. PICK known \in EnhancedInfo :
             buffer' = [buffer EXCEPT ![s] = [Opened(buffer[s], known) EXCEPT !.eps = @ \cup {e}]]
      BY <2>1 DEF AggregateEpisode
    <3>2. buffer[s] \in [eps : SUBSET Episodes, known : BOOLEAN] /\ known \in BOOLEAN
      BY InfoIsBoolean DEF LibraryInv, LibraryTyped
    <3>3. Opened(buffer[s], known) \in [eps : SUBSET Episodes, known : BOOLEAN]
      BY <3>2 DEF Opened
    <3>4. [Opened(buffer[s], known) EXCEPT !.eps = @ \cup {e}]
             \in [eps : SUBSET Episodes, known : BOOLEAN]
      BY <3>3
    <3> QED
      BY <3>1, <3>4 DEF LibraryInv, LibraryTyped
  <2>2. CASE \E s \in Seasons, e \in Episodes : AggregateEpisode(s, e)
    BY <2>1, <2>2 DEF AggregateEpisode, ledgers, LibraryInv, LibraryTyped
  <2>3. CASE \E s \in Seasons : TimerFires(s)
    BY <2>3 DEF TimerFires, ledgers, history, LibraryInv, LibraryTyped
  <2>4. CASE SetSingleEnabled
    BY <2>4 DEF SetSingleEnabled, ledgers, history, LibraryInv, LibraryTyped
  <2> QED
    BY <2>2, <2>3, <2>4
<1> QED
  BY <1>1 DEF LibraryInv, LibraryTyped, NobodyForgotten, WaitersCounted, InHand, HeardKnown

\* The handler of a webhook sets out, or ends.
LEMMA ImmediateStep ==
    ASSUME LibraryInv, NEW s \in Seasons, SendImmediateNotification(s) PROVE LibraryInv'
<1>1. /\ "handler" \in Workers /\ work["handler"].pc = "idle" /\ work \in [Workers -> Works]
      /\ UNCHANGED <<buffer, single, carpool, ledgers, waiting, late, widened, heard, retold, excuses>>
      /\ buffer' \in [Seasons -> [eps : SUBSET Episodes, known : BOOLEAN]]
  BY DEF SendImmediateNotification, At, history, Workers, LibraryInv, LibraryTyped
<1>2. work["handler"].request \subseteq marked["file"]
  BY <1>1, Free
<1>3. CASE UNCHANGED work
  BY <1>1, <1>3 DEF ledgers, LibraryInv, LibraryTyped, NobodyForgotten, WaitersCounted, InHand,
     HeardKnown
<1>4. ASSUME NEW known \in BOOLEAN,
             work' = [work EXCEPT !["handler"] =
                        [AtRest EXCEPT !.pc = IF known THEN "carpool" ELSE "idle",
                                       !.season = IF known THEN s ELSE 0, !.known = known]]
      PROVE  LibraryInv'
  <2> DEFINE e == [AtRest EXCEPT !.pc = IF known THEN "carpool" ELSE "idle",
                                 !.season = IF known THEN s ELSE 0, !.known = known]
  <2>1. e \in Works /\ e.request = {} /\ e.pc \notin {"tell", "clear"}
    <3>1. CASE known
      <4>1. e = [AtRest EXCEPT !.pc = "carpool", !.season = s, !.known = TRUE]
        BY <3>1
      <4> QED
        BY <4>1, ConstantsOK DEF AtRest, Works, Seasons
    <3>2. CASE ~known
      <4>1. e = [AtRest EXCEPT !.pc = "idle", !.season = 0, !.known = FALSE]
        BY <3>2
      <4>2. 0 \in Seasons
        BY ConstantsOK DEF Seasons
      <4> QED
        BY <4>1, <4>2 DEF AtRest, Works
    <3> QED
      BY <3>1, <3>2
  <2>2. work' = [work EXCEPT !["handler"] = e]
    BY <1>4
  <2> HIDE DEF e
  <2>3. Moves("handler", e.pc, e.season, e.members, {})
    BY <1>1, <2>1, <2>2 DEF Moves
  <2> QED
    BY <1>1, <1>2, <2>1, <2>3, AsideStep
<1> QED
  BY <1>3, <1>4, InfoIsBoolean DEF SendImmediateNotification

\* A flush takes what the buffer has.
LEMMA FlushStep ==
    ASSUME LibraryInv, NEW s \in Seasons, FlushSingleAggregation(s) PROVE LibraryInv'
<1>1. /\ "flush" \in Workers /\ work["flush"].pc = "idle" /\ work \in [Workers -> Works]
      /\ UNCHANGED <<single, carpool, ledgers, waiting, late, widened, heard, retold, excuses>>
      /\ buffer \in [Seasons -> [eps : SUBSET Episodes, known : BOOLEAN]]
  BY DEF FlushSingleAggregation, At, history, Workers, LibraryInv, LibraryTyped
<1>2. work["flush"].request \subseteq marked["file"]
  BY <1>1, Free
<1>3. CASE UNCHANGED <<work, buffer>>
  BY <1>1, <1>3 DEF ledgers, LibraryInv, LibraryTyped, NobodyForgotten, WaitersCounted, InHand,
     HeardKnown
<1>4. CASE /\ buffer' = [buffer EXCEPT ![s] = Nothing]
           /\ work' = [work EXCEPT !["flush"] =
                         [AtRest EXCEPT !.pc = AfterFlush(buffer[s].known), !.season = s,
                                        !.known = buffer[s].known, !.eps = buffer[s].eps]]
  <2> DEFINE e == [AtRest EXCEPT !.pc = AfterFlush(buffer[s].known), !.season = s,
                                 !.known = buffer[s].known, !.eps = buffer[s].eps]
  <2>1. buffer[s].known \in BOOLEAN /\ buffer[s].eps \in SUBSET Episodes
    BY <1>1
  <2>2. AfterFlush(buffer[s].known) \in {"list", "carpool", "ask"}
    BY DEF AfterFlush
  <2>3. e \in Works /\ e.request = {} /\ e.pc \notin {"tell", "clear"}
    BY <2>1, <2>2 DEF AtRest, Works
  <2> HIDE DEF e
  <2>4. Moves("flush", e.pc, e.season, e.members, {})
    BY <1>1, <1>4, <2>3 DEF Moves, e
  <2>5. buffer' \in [Seasons -> [eps : SUBSET Episodes, known : BOOLEAN]]
    BY <1>1, <1>4 DEF Nothing
  <2> QED
    BY <1>1, <1>2, <2>3, <2>4, <2>5, AsideStep
<1> QED
  BY <1>3, <1>4 DEF FlushSingleAggregation

\* What a worker leaves behind when its work ends.
LEMMA EndsEffect ==
    ASSUME work \in [Workers -> Works], NEW w \in Workers, Ends(w)
    PROVE  Moves(w, work'[w].pc, work'[w].season, {}, {}) /\ work'[w].pc \in {"list", "idle"}
<1>1. CASE w = "flush"
  <2> DEFINE e == [work[w] EXCEPT !.pc = "list", !.members = {}, !.todo = {}, !.request = {}]
  <2>1. work' = [work EXCEPT ![w] = e]
    BY <1>1 DEF Ends
  <2>2. e \in Works /\ e.pc = "list" /\ e.members = {} /\ e.request = {}
    BY DEF Works
  <2> HIDE DEF e
  <2> QED
    BY <2>1, <2>2 DEF Moves
<1>2. CASE w # "flush"
  <2>1. work' = [work EXCEPT ![w] = AtRest]
    BY <1>2 DEF Ends
  <2>2. AtRest.pc = "idle" /\ AtRest.members = {} /\ AtRest.request = {}
    BY DEF AtRest
  <2> QED
    BY <2>1, <2>2, RestIsAPlace DEF Moves
<1> QED
  BY <1>1, <1>2

\* The next request, or the end.
LEMMA NextRequestEffect ==
    ASSUME work \in [Workers -> Works], NEW w \in Workers, NEW r \in Requests, NextRequest(w, r)
    PROVE  /\ Moves(w, work'[w].pc, work'[w].season, work'[w].members, {})
           /\ work'[w].pc \in {"list", "idle", "ask"}
<1>1. CASE Ends(w)
  BY <1>1, EndsEffect DEF Moves
<1>2. CASE work' = [work EXCEPT ![w].pc = "ask", ![w].request = {}, ![w].todo = @ \ {r}]
  <2> DEFINE e == [work[w] EXCEPT !.pc = "ask", !.request = {}, !.todo = @ \ {r}]
  <2>1. work' = [work EXCEPT ![w] = e]
    BY <1>2
  <2>2. e \in Works /\ e.pc = "ask" /\ e.request = {}
    BY DEF Works
  <2> HIDE DEF e
  <2> QED
    BY <2>1, <2>2 DEF Moves
<1> QED
  BY <1>1, <1>2 DEF NextRequest

\* The daily list.
LEMMA ListStep == ASSUME LibraryInv, AddAggregatedEpisodeToSummary PROVE LibraryInv'
<1>1. /\ "flush" \in Workers /\ work["flush"].pc = "list" /\ work \in [Workers -> Works]
      /\ UNCHANGED <<buffer, single, carpool, ledgers, waiting, late, widened, heard, retold, excuses>>
      /\ work' = [work EXCEPT !["flush"] = AtRest]
      /\ buffer' \in [Seasons -> [eps : SUBSET Episodes, known : BOOLEAN]]
  BY DEF AddAggregatedEpisodeToSummary, At, Workers, LibraryInv, LibraryTyped
<1>2. work["flush"].request \subseteq marked["file"]
  BY <1>1, Free
<1>3. Moves("flush", "idle", 0, {}, {})
  <2>1. AtRest.pc = "idle" /\ AtRest.season = 0 /\ AtRest.members = {} /\ AtRest.request = {}
    BY DEF AtRest
  <2> QED
    BY <1>1, <2>1, RestIsAPlace DEF Moves
<1> QED
  BY <1>1, <1>2, <1>3, AsideStep
-----------------------------------------------------------------------------
(* The carpool *)

\* Who joins while the group is being told comes too late.
LEMMA JoinStep ==
    ASSUME LibraryInv, NEW u \in Users, NEW s \in Seasons, AddWithMetadata(u, s) PROVE LibraryInv'
<1>1. UNCHANGED <<buffer, work, single, marked, completed, widened, heard, retold, excuses>>
  BY DEF AddWithMetadata, ledgers
<1>2. InHand' /\ HeardKnown'
  BY <1>1 DEF LibraryInv, InHand, HeardKnown
<1>3. CASE UNCHANGED <<carpool, waiting, late>>
  BY <1>1, <1>2, <1>3 DEF LibraryInv, LibraryTyped, NobodyForgotten, WaitersCounted
<1>4. CASE /\ carpool' = [carpool EXCEPT ![s] = @ \cup {u}] /\ waiting' = waiting \cup {<<u, s>>}
           /\ late' = IF \E w \in Workers : /\ work[w].pc \in {"tell", "clear"}
                                            /\ s \in Matching(work[w].season)
                      THEN late \cup {<<u, s>>} ELSE late
  <2>1. LibraryTyped'
    BY <1>1, <1>4 DEF LibraryInv, LibraryTyped
  <2>2. NobodyForgotten'
    BY <1>1, <1>4 DEF LibraryInv, LibraryTyped, NobodyForgotten
  <2>3. WaitersCounted'
    BY <1>1, <1>4 DEF LibraryInv, WaitersCounted
  <2> QED
    BY <1>2, <2>1, <2>2, <2>3 DEF LibraryInv
<1> QED
  BY <1>3, <1>4 DEF AddWithMetadata

\* Who leaves waits no longer.
LEMMA LeaveStep ==
    ASSUME LibraryInv, NEW u \in Users, NEW s \in Seasons, Remove(u, s) PROVE LibraryInv'
<1>1. UNCHANGED <<buffer, work, single, marked, completed, widened, heard, retold, excuses>>
  BY DEF Remove, ledgers
<1>2. InHand' /\ HeardKnown'
  BY <1>1 DEF LibraryInv, InHand, HeardKnown
<1>3. CASE UNCHANGED <<carpool, waiting, late>>
  BY <1>1, <1>2, <1>3 DEF LibraryInv, LibraryTyped, NobodyForgotten, WaitersCounted
<1>4. CASE carpool' = [carpool EXCEPT ![s] = @ \ {u}] /\ Forget({<<u, s>>})
  <2>1. LibraryTyped'
    BY <1>1, <1>4 DEF LibraryInv, LibraryTyped
  <2>2. NobodyForgotten'
    BY <1>1, <1>4 DEF LibraryInv, LibraryTyped, NobodyForgotten, Forget
  <2>3. WaitersCounted'
    BY <1>1, <1>4 DEF LibraryInv, WaitersCounted, Forget
  <2> QED
    BY <1>2, <2>1, <2>2, <2>3 DEF LibraryInv
<1> QED
  BY <1>3, <1>4 DEF Remove

\* Whoever is cleared with a cancelled request was told, and waits no longer.
LEMMA ClearStep ==
    ASSUME LibraryInv, NEW s \in Seasons, ClearArrival(s) PROVE LibraryInv'
<1> DEFINE ss == IF s = 0 THEN Seasons ELSE Matching(s)
<1>1. UNCHANGED <<buffer, work, single, marked, completed, widened, heard, retold, excuses>>
  BY DEF ClearArrival, ledgers
<1>2. InHand' /\ HeardKnown'
  BY <1>1 DEF LibraryInv, InHand, HeardKnown
<1>3. \/ UNCHANGED <<carpool, waiting, late>>
      \/ /\ carpool' = [x \in Seasons |-> IF x \in ss THEN {} ELSE carpool[x]]
         /\ Forget(UNION {carpool[x] \X {x} : x \in ss})
  BY DEF ClearArrival, Cleared
<1> HIDE DEF ss
<1>4. CASE UNCHANGED <<carpool, waiting, late>>
  BY <1>1, <1>2, <1>4 DEF LibraryInv, LibraryTyped, NobodyForgotten, WaitersCounted
<1>5. CASE /\ carpool' = [x \in Seasons |-> IF x \in ss THEN {} ELSE carpool[x]]
           /\ Forget(UNION {carpool[x] \X {x} : x \in ss})
  <2>1. LibraryTyped'
    BY <1>1, <1>5 DEF LibraryInv, LibraryTyped
  <2>2. /\ waiting' \subseteq waiting
        /\ \A p \in waiting' : p \notin late' => p \notin late
        /\ \A u \in Users, x \in Seasons : x \in ss /\ u \in carpool[x] => <<u, x>> \notin waiting'
    BY <1>5 DEF Forget
  <2>3. NobodyForgotten'
    BY <1>1, <1>5, <2>2 DEF LibraryInv, NobodyForgotten
  <2>4. WaitersCounted'
    BY <1>1, <2>2 DEF LibraryInv, WaitersCounted
  <2> QED
    BY <1>2, <2>1, <2>3, <2>4 DEF LibraryInv
<1> QED
  BY <1>3, <1>4, <1>5

\* Who waits when the group is about to be told is among the members.
LEMMA MembersStep ==
    ASSUME LibraryInv, NEW w \in Workers, NotifyCarpoolMembers(w) PROVE LibraryInv'
<1> DEFINE m == GetArrivalMembers(work[w].season)
<1>1. /\ work[w].pc = "carpool" /\ work \in [Workers -> Works] /\ work[w] \in Works
      /\ work' = [work EXCEPT ![w].pc = IF m = {} THEN "ask" ELSE "tell", ![w].members = m]
      /\ UNCHANGED <<buffer, single, carpool, marked, completed, waiting, late, widened, heard,
                     retold, excuses>>
  BY DEF NotifyCarpoolMembers, At, ledgers, history, LibraryInv, LibraryTyped
<1>2. m \in SUBSET Users /\ \A x \in Matching(work[w].season) : carpool[x] \subseteq m
  <2>1. Matching(work[w].season) \subseteq Seasons
    BY <1>1, ConstantsOK DEF Matching, Works, Seasons
  <2> QED
    BY <2>1 DEF GetArrivalMembers, LibraryInv, LibraryTyped
<1>3. work[w].request = {}
  BY <1>1, Free
<1> HIDE DEF m
<1>4. Moves(w, IF m = {} THEN "ask" ELSE "tell", work[w].season, m, {})
  <2> DEFINE e == [work[w] EXCEPT !.pc = IF m = {} THEN "ask" ELSE "tell", !.members = m]
  <2>1. work' = [work EXCEPT ![w] = e]
    BY <1>1
  <2>2. /\ e \in Works /\ e.pc = (IF m = {} THEN "ask" ELSE "tell") /\ e.members = m
        /\ e.season = work[w].season /\ e.request = {}
    BY <1>1, <1>2, <1>3 DEF Works
  <2> HIDE DEF e
  <2> QED
    BY <1>1, <2>1, <2>2 DEF Moves
<1>5. LibraryTyped' /\ NobodyForgotten'
  BY <1>1, <1>4 DEF LibraryInv, LibraryTyped, NobodyForgotten, Moves
<1>6. WaitersCounted'
  BY <1>1, <1>2, <1>4 DEF LibraryInv, NobodyForgotten, WaitersCounted, Moves
<1>7. InHand' /\ HeardKnown'
  BY <1>1, <1>3, <1>4 DEF LibraryInv, InHand, HeardKnown, Moves
<1> QED
  BY <1>5, <1>6, <1>7 DEF LibraryInv

\* The group is told, and nobody who waited in time waits any more; or everyone keeps waiting.
LEMMA AnnounceStep ==
    ASSUME LibraryInv, NEW w \in Workers, AnnounceArrival(w) PROVE LibraryInv'
<1>1. /\ work[w].pc = "tell" /\ work \in [Workers -> Works] /\ work[w] \in Works
      /\ UNCHANGED <<buffer, single, carpool, marked, completed, widened, heard, retold, excuses>>
      /\ buffer' \in [Seasons -> [eps : SUBSET Episodes, known : BOOLEAN]]
  BY DEF AnnounceArrival, At, ledgers, LibraryInv, LibraryTyped
<1>2. work[w].request = {}
  BY <1>1, Free
<1>3. CASE UNCHANGED <<waiting, late>> /\ work' = [work EXCEPT ![w].pc = "ask", ![w].members = {}]
  <2> DEFINE e == [work[w] EXCEPT !.pc = "ask", !.members = {}]
  <2>1. work' = [work EXCEPT ![w] = e]
    BY <1>3
  <2>2. e \in Works /\ e.pc = "ask" /\ e.members = {} /\ e.request = {} /\ e.season = work[w].season
    BY <1>1, <1>2 DEF Works
  <2> HIDE DEF e
  <2>3. Moves(w, "ask", work[w].season, {}, {})
    BY <1>1, <2>1, <2>2 DEF Moves
  <2> QED
    BY <1>1, <1>2, <1>3, <2>3, AsideStep DEF ledgers
<1>4. CASE Forget(work[w].members \X Matching(work[w].season)) /\ Goto(w, "clear")
  <2> DEFINE e == [work[w] EXCEPT !.pc = "clear"]
  <2>1. work' = [work EXCEPT ![w] = e]
    BY <1>4 DEF Goto
  <2>2. /\ e \in Works /\ e.pc = "clear" /\ e.members = work[w].members /\ e.request = {}
        /\ e.season = work[w].season
    BY <1>1, <1>2 DEF Works
  <2> HIDE DEF e
  <2>3. Moves(w, "clear", work[w].season, work[w].members, {})
    BY <1>1, <2>1, <2>2 DEF Moves
  <2>4. /\ waiting' \subseteq waiting
        /\ \A p \in waiting' : p \notin late' => p \notin late
        /\ \A u \in work[w].members, x \in Matching(work[w].season) : <<u, x>> \notin waiting'
    BY <1>4 DEF Forget
  <2>5. LibraryTyped' /\ NobodyForgotten'
    BY <1>1, <2>3, <2>4 DEF LibraryInv, LibraryTyped, NobodyForgotten, Moves
  <2>6. WaitersCounted'
    BY <1>1, <2>3, <2>4 DEF LibraryInv, WaitersCounted, Moves
  <2>7. InHand' /\ HeardKnown'
    BY <1>1, <1>2, <2>3 DEF LibraryInv, InHand, HeardKnown, Moves
  <2> QED
    BY <2>5, <2>6, <2>7 DEF LibraryInv
<1> QED
  BY <1>3, <1>4 DEF AnnounceArrival, AfterFailure

\* Who is cleared was told, or came too late.
LEMMA ClearedStep ==
    ASSUME LibraryInv, NEW w \in Workers, GetAndClearArrival(w) PROVE LibraryInv'
<1>1. /\ work[w].pc = "clear" /\ work \in [Workers -> Works] /\ work[w] \in Works
      /\ UNCHANGED <<buffer, single, marked, completed, waiting, late, widened, heard, retold, excuses>>
      /\ work' = [work EXCEPT ![w].pc = "ask", ![w].members = {}]
  BY DEF GetAndClearArrival, At, ledgers, history, LibraryInv, LibraryTyped
<1>2. work[w].request = {}
  BY <1>1, Free
<1>3. Moves(w, "ask", work[w].season, {}, {})
  <2> DEFINE e == [work[w] EXCEPT !.pc = "ask", !.members = {}]
  <2>1. work' = [work EXCEPT ![w] = e]
    BY <1>1
  <2>2. e \in Works /\ e.pc = "ask" /\ e.members = {} /\ e.request = {} /\ e.season = work[w].season
    BY <1>1, <1>2 DEF Works
  <2> HIDE DEF e
  <2> QED
    BY <1>1, <2>1, <2>2 DEF Moves
<1>4. /\ carpool' \in [Seasons -> SUBSET Users]
      /\ \A x \in Seasons : x \notin Matching(work[w].season) => carpool'[x] = carpool[x]
      /\ carpool' = carpool \/ \A x \in Matching(work[w].season) \cap Seasons : carpool'[x] = {}
  BY DEF GetAndClearArrival, Cleared, LibraryInv, LibraryTyped
<1>5. LibraryTyped'
  BY <1>1, <1>3, <1>4 DEF LibraryInv, LibraryTyped, Moves
<1>6. NobodyForgotten'
  BY <1>1, <1>4 DEF LibraryInv, NobodyForgotten, WaitersCounted
<1>7. WaitersCounted'
  BY <1>1, <1>3 DEF LibraryInv, WaitersCounted, Moves
<1>8. InHand' /\ HeardKnown'
  BY <1>1, <1>2, <1>3 DEF LibraryInv, InHand, HeardKnown, Moves
<1> QED
  BY <1>5, <1>6, <1>7, <1>8 DEF LibraryInv
-----------------------------------------------------------------------------
(* Whoever requested it *)

\* The requests that match, if any do.
LEMMA MatchedStep ==
    ASSUME LibraryInv, NEW w \in Workers, NotifyRequesterOnLibraryAdd(w) PROVE LibraryInv'
<1>1. /\ work[w].pc = "ask" /\ work[w].request = {} /\ work \in [Workers -> Works] /\ work[w] \in Works
      /\ UNCHANGED <<buffer, single, carpool, ledgers, waiting, late, widened, heard, retold, excuses>>
      /\ buffer' \in [Seasons -> [eps : SUBSET Episodes, known : BOOLEAN]]
  BY DEF NotifyRequesterOnLibraryAdd, At, history, LibraryInv, LibraryTyped
<1>2. CASE Ends(w)
  BY <1>1, <1>2, EndsEffect, AsideStep
<1>3. ASSUME NEW matched \in SUBSET Requests, work' = [work EXCEPT ![w].todo = matched]
      PROVE  LibraryInv'
  <2> DEFINE e == [work[w] EXCEPT !.todo = matched]
  <2>1. work' = [work EXCEPT ![w] = e]
    BY <1>3
  <2>2. /\ e \in Works /\ e.pc = "ask" /\ e.members = work[w].members /\ e.request = {}
        /\ e.season = work[w].season
    BY <1>1 DEF Works
  <2> HIDE DEF e
  <2>3. Moves(w, "ask", work[w].season, work[w].members, {})
    BY <1>1, <2>1, <2>2 DEF Moves
  <2> QED
    BY <1>1, <2>3, AsideStep
<1> QED
  BY <1>2, <1>3 DEF NotifyRequesterOnLibraryAdd

\* Nobody is told of a request that is marked; one that another worker has in hand is told of again.
LEMMA TellStep ==
    ASSUME LibraryInv, NEW w \in Workers, NEW r \in Requests, TellRequester(w, r) PROVE LibraryInv'
<1>1. /\ work[w].pc = "ask" /\ r \in work[w].todo /\ work \in [Workers -> Works] /\ work[w] \in Works
      /\ UNCHANGED <<buffer, single, carpool, ledgers, waiting, late, widened>>
      /\ buffer' \in [Seasons -> [eps : SUBSET Episodes, known : BOOLEAN]]
  BY DEF TellRequester, At, LibraryInv, LibraryTyped
<1>2. work[w].request = {}
  BY <1>1, Free
<1>3. CASE NextRequest(w, r) /\ UNCHANGED <<heard, retold, excuses>>
  BY <1>1, <1>2, <1>3, NextRequestEffect, AsideStep
<1>4. CASE /\ r \notin marked["memory"] /\ Hears(w, r)
           /\ work' = [work EXCEPT ![w].pc = "record", ![w].request = {r}]
  <2> DEFINE e == [work[w] EXCEPT !.pc = "record", !.request = {r}]
  <2>1. work' = [work EXCEPT ![w] = e]
    BY <1>4
  <2>2. /\ e \in Works /\ e.pc = "record" /\ e.members = work[w].members /\ e.request = {r}
        /\ e.season = work[w].season
    BY <1>1 DEF Works
  <2> HIDE DEF e
  <2>3. Moves(w, "record", work[w].season, work[w].members, {r})
    BY <1>1, <2>1, <2>2 DEF Moves
  <2>4. UNCHANGED <<marked, completed>>
    BY <1>1 DEF ledgers
  <2>5. LibraryTyped' /\ NobodyForgotten' /\ WaitersCounted'
    BY <1>1, <2>3, <2>4 DEF LibraryInv, LibraryTyped, NobodyForgotten, WaitersCounted, Moves
  <2>6. InHand'
    BY <2>3, <2>4 DEF LibraryInv, InHand, Moves
  <2>7. HeardKnown'
    <3> SUFFICES ASSUME excuses' = {}
                 PROVE  /\ retold' = {}
                        /\ \A x \in heard' : \/ x \in marked["memory"]
                                             \/ \E v \in Workers : x \in work'[v].request
      BY <2>4 DEF HeardKnown
    <3>1. /\ excuses = {} /\ \A v \in Workers \ {w} : r \notin work[v].request
          /\ heard' = heard \cup {r} /\ retold' = IF r \in heard THEN retold \cup {r} ELSE retold
      BY <1>4 DEF Hears, Excused
    <3>2. /\ retold = {}
          /\ \A x \in heard : x \in marked["memory"] \/ \E v \in Workers : x \in work[v].request
      BY <3>1 DEF LibraryInv, HeardKnown
    <3>3. r \notin heard
      BY <1>2, <1>4, <3>1, <3>2
    <3> QED
      BY <1>2, <2>3, <3>1, <3>2, <3>3 DEF Moves
  <2> QED
    BY <2>5, <2>6, <2>7 DEF LibraryInv
<1> QED
  BY <1>3, <1>4 DEF TellRequester, IsLibraryNotificationPending

\* The mark is in memory and in the file, or nothing is.
LEMMA MarkStep ==
    ASSUME LibraryInv, NEW w \in Workers, NEW r \in Requests, MarkLibraryNotified(w, r)
    PROVE  LibraryInv'
<1>1. /\ work[w].pc = "record" /\ work[w].request = {r}
      /\ work \in [Workers -> Works] /\ work[w] \in Works
      /\ UNCHANGED <<buffer, single, carpool, completed, waiting, late, widened, heard, retold>>
  BY DEF MarkLibraryNotified, At, LibraryInv, LibraryTyped
<1>2. marked["memory"] = marked["file"] /\ marked \in [Stores -> SUBSET Requests]
  BY DEF LibraryInv, InHand, LibraryTyped
<1>3. CASE /\ Goto(w, "complete") /\ UNCHANGED excuses
           /\ \/ r \in marked["memory"] /\ UNCHANGED marked
              \/ marked' = [x \in Stores |-> marked[x] \cup {r}]
  <2> DEFINE e == [work[w] EXCEPT !.pc = "complete"]
  <2>1. work' = [work EXCEPT ![w] = e]
    BY <1>3 DEF Goto
  <2>2. /\ e \in Works /\ e.pc = "complete" /\ e.members = work[w].members /\ e.request = {r}
        /\ e.season = work[w].season
    BY <1>1 DEF Works
  <2> HIDE DEF e
  <2>3. Moves(w, "complete", work[w].season, work[w].members, {r})
    BY <1>1, <2>1, <2>2 DEF Moves
  <2>4. /\ marked' \in [Stores -> SUBSET Requests] /\ marked'["memory"] = marked'["file"]
        /\ r \in marked'["file"] /\ marked["file"] \subseteq marked'["file"]
    BY <1>2, <1>3 DEF Stores
  <2>5. LibraryTyped' /\ NobodyForgotten' /\ WaitersCounted'
    BY <1>1, <2>3, <2>4 DEF LibraryInv, LibraryTyped, NobodyForgotten, WaitersCounted, Moves
  <2>6. InHand'
    BY <1>1, <2>3, <2>4 DEF LibraryInv, InHand, Moves
  <2>7. HeardKnown'
    BY <1>1, <1>2, <1>3, <2>3, <2>4 DEF LibraryInv, HeardKnown, Moves
  <2> QED
    BY <2>5, <2>6, <2>7 DEF LibraryInv
<1>4. CASE UNCHANGED marked /\ Excused("unwritten") /\ NextRequest(w, r)
  <2>1. /\ Moves(w, work'[w].pc, work'[w].season, work'[w].members, {})
        /\ work'[w].pc \in {"list", "idle", "ask"}
    BY <1>1, <1>4, NextRequestEffect
  <2>2. LibraryTyped' /\ NobodyForgotten' /\ WaitersCounted'
    BY <1>1, <1>4, <2>1 DEF LibraryInv, LibraryTyped, NobodyForgotten, WaitersCounted, Moves
  <2>3. InHand'
    BY <1>1, <1>4, <2>1 DEF LibraryInv, InHand, Moves
  <2>4. HeardKnown'
    BY <1>4 DEF HeardKnown, Excused
  <2> QED
    BY <2>2, <2>3, <2>4 DEF LibraryInv
<1> QED
  BY <1>3, <1>4 DEF MarkLibraryNotified, AfterUnmarked

\* What is completed is marked.
LEMMA CompletionStep ==
    ASSUME LibraryInv, NEW w \in Workers, NEW r \in Requests, AddCompletion(w, r) PROVE LibraryInv'
<1>1. /\ work[w].pc = "complete" /\ work[w].request = {r} /\ work \in [Workers -> Works]
      /\ UNCHANGED <<buffer, single, carpool, marked, waiting, late, widened, heard, retold, excuses>>
  BY DEF AddCompletion, At, history, LibraryInv, LibraryTyped
<1>2. r \in marked["file"] /\ marked["memory"] = marked["file"]
  BY <1>1 DEF LibraryInv, InHand
<1>3. /\ Moves(w, work'[w].pc, work'[w].season, work'[w].members, {})
      /\ work'[w].pc \in {"list", "idle", "ask"}
  BY <1>1, NextRequestEffect DEF AddCompletion
<1>4. /\ completed' \in [Stores -> SUBSET Requests]
      /\ \A x \in Stores : completed'[x] \subseteq completed[x] \cup completed["memory"] \cup {r}
  BY DEF AddCompletion, LibraryInv, LibraryTyped, Stores
<1>5. LibraryTyped' /\ NobodyForgotten' /\ WaitersCounted'
  BY <1>1, <1>3, <1>4 DEF LibraryInv, LibraryTyped, NobodyForgotten, WaitersCounted, Moves
<1>6. InHand'
  <2>1. \A x \in Stores : completed[x] \subseteq marked["file"]
    BY DEF LibraryInv, InHand
  <2>2. \A x \in Stores : completed'[x] \subseteq marked["file"]
    BY <1>2, <1>4, <2>1 DEF Stores
  <2> QED
    BY <1>1, <1>2, <1>3, <2>2 DEF LibraryInv, InHand, Moves
<1>7. HeardKnown'
  BY <1>1, <1>2, <1>3 DEF LibraryInv, HeardKnown, Moves
<1> QED
  BY <1>5, <1>6, <1>7 DEF LibraryInv

\* What the new program reads agrees, and what load() makes of a season's waiters is remembered.
LEMMA RestartStep == ASSUME LibraryInv, Restart PROVE LibraryInv'
<1>1. /\ UNCHANGED <<single, waiting, late, heard, retold>> /\ excuses' # {}
      /\ buffer' = [s \in Seasons |-> Nothing] /\ work' = [w \in Workers |-> AtRest]
      /\ carpool' = Loaded
      /\ widened' = (widened \/ \E s \in 1..MaxSeason : carpool[s] # {})
      /\ marked' = [x \in Stores |-> marked["file"] \cup completed["file"]]
      /\ completed' = [x \in Stores |-> completed["file"]]
  BY DEF Restart, Reconciled, Excused
<1>2. AtRest.pc = "idle" /\ AtRest.request = {}
  BY DEF AtRest
<1>3. LibraryTyped'
  <2>1. carpool' \in [Seasons -> SUBSET Users]
    BY <1>1 DEF Loaded, LibraryInv, LibraryTyped
  <2>2. buffer' \in [Seasons -> [eps : SUBSET Episodes, known : BOOLEAN]]
    BY <1>1 DEF Nothing
  <2>3. /\ marked' \in [Stores -> SUBSET Requests] /\ completed' \in [Stores -> SUBSET Requests]
        /\ single' \in BOOLEAN
    BY <1>1 DEF LibraryInv, LibraryTyped, Stores
  <2> QED
    BY <1>1, <2>1, <2>2, <2>3, RestIsAPlace DEF LibraryTyped
<1>4. NobodyForgotten'
  <2> SUFFICES ASSUME NEW u \in Users, NEW s \in Seasons, <<u, s>> \in waiting, <<u, s>> \notin late,
                      ~widened'
               PROVE  u \in carpool'[s]
    BY <1>1 DEF NobodyForgotten
  <2>1. ~widened /\ \A x \in 1..MaxSeason : carpool[x] = {}
    BY <1>1
  <2>2. u \in carpool[s]
    BY <2>1 DEF LibraryInv, NobodyForgotten
  <2>3. s = 0
    BY <2>1, <2>2, ConstantsOK DEF Seasons
  <2> QED
    BY <1>1, <2>2, <2>3 DEF Loaded
<1>5. WaitersCounted' /\ InHand' /\ HeardKnown'
  BY <1>1, <1>2 DEF WaitersCounted, InHand, HeardKnown, Stores
<1> QED
  BY <1>3, <1>4, <1>5 DEF LibraryInv
-----------------------------------------------------------------------------
LEMMA LibraryInit == Init => LibraryInv
<1> SUFFICES ASSUME Init PROVE LibraryInv
  OBVIOUS
<1>1. AtRest.pc = "idle" /\ AtRest.request = {} /\ AtRest.members = {}
  BY DEF AtRest
<1>2. LibraryTyped
  BY RestIsAPlace DEF Init, LibraryTyped, Nothing
<1> QED
  BY <1>1, <1>2 DEF Init, LibraryInv, NobodyForgotten, WaitersCounted, InHand, HeardKnown, Stores

LEMMA LibraryKept == LibraryInv /\ [Next]_vars => LibraryInv'
<1> SUFFICES ASSUME LibraryInv, [Next]_vars PROVE LibraryInv'
  OBVIOUS
<1>1. CASE Events
  BY <1>1, BufferStep, ImmediateStep DEF Events
<1>2. CASE CarpoolUsers
  BY <1>2, ClearStep, JoinStep, LeaveStep DEF CarpoolUsers
<1>3. CASE \E s \in Seasons : TimerFires(s)
  BY <1>3, BufferStep
<1>4. CASE Flushes \/ AddAggregatedEpisodeToSummary
  BY <1>4, FlushStep, ListStep DEF Flushes
<1>5. ASSUME NEW w \in Workers, Handles(w) PROVE LibraryInv'
  BY <1>5, MembersStep, AnnounceStep, ClearedStep, MatchedStep, TellStep, MarkStep, CompletionStep
     DEF Handles
<1>6. CASE Restart
  BY <1>6, RestartStep
<1>7. CASE UNCHANGED vars
  BY <1>7 DEF vars, ledgers, history, LibraryInv, LibraryTyped, NobodyForgotten, WaitersCounted,
     InHand, HeardKnown
<1> QED
  BY <1>1, <1>2, <1>3, <1>4, <1>5, <1>6, <1>7 DEF Next

\* Whoever waits in the carpool stays in it until he was told, or left: what fails removes nobody
\* (notifyCarpoolMembers), but for who joins behind its back and for what load() makes of the keys.
THEOREM NobodyIsForgotten == Spec => []NobodyForgotten
<1>1. LibraryInv => NobodyForgotten
  BY DEF LibraryInv
<1> QED
  BY <1>1, LibraryInit, LibraryKept, PTL DEF Spec

\* A completion in its file is marked in the file of the requests, and nobody hears of an arrival
\* twice without one of the three excuses (RecordLibraryCompletion, ReconcileLibraryCompletions).
THEOREM ArrivalIsBooked == Spec => []ArrivalBooked
<1>1. LibraryInv => ArrivalBooked
  BY DEF LibraryInv, InHand, HeardKnown, ArrivalBooked, CompletionsMarked, ArrivalToldOnce, Stores
<1> QED
  BY <1>1, LibraryInit, LibraryKept, PTL DEF Spec
=============================================================================
