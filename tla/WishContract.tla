----------------------------- MODULE WishContract -----------------------------
(***************************************************************************)
(* What the wish pool promises to users: a wish is there once per content, *)
(* as long as somebody waits; it is found, its owner is told, and only     *)
(* then it is asked for; and it ends for good.  The scheduler, its locks,  *)
(* its retries, failing writes and lost answers do not appear.  WishPool   *)
(* implements this.                                                        *)
(***************************************************************************)
CONSTANTS Wishes, Users, Contents, None

VARIABLES
    stage,    \* how far each wish has come
    content,  \* what it is for, None while it is not used
    waiting,  \* who waits for each content
    told,     \* <<u, w>>: u has a notice of w with a button
    asked     \* wishes whose content was requested

vars == <<stage, content, waiting, told, asked>>

Active == {"open", "found", "notified"}
Ended  == {"fulfilled", "closed"}
Past   == {"found", "notified"} \cup Ended    \* found once, or given up

ActiveFor(c) == {w \in Wishes : content[w] = c /\ stage[w] \in Active}

Init ==
    /\ stage = [w \in Wishes |-> "none"]
    /\ content = [w \in Wishes |-> None]
    /\ waiting = [c \in Contents |-> {}]
    /\ told = {} /\ asked = {}

Moves(w, s) == stage' = [stage EXCEPT ![w] = s]

Make(w, u, c) ==
    /\ stage[w] = "none" /\ ActiveFor(c) = {}
    /\ Moves(w, "open")
    /\ content' = [content EXCEPT ![w] = c]
    /\ waiting' = [waiting EXCEPT ![c] = @ \cup {u}]
    /\ UNCHANGED <<told, asked>>

Join(u, c) ==
    /\ ActiveFor(c) # {}
    /\ waiting' = [waiting EXCEPT ![c] = @ \cup {u}]
    /\ UNCHANGED <<stage, content, told, asked>>

\* The wish goes on for the others, and ends with the last one.
Leave(u, w) ==
    LET c == content[w]
    IN  /\ stage[w] \in Active /\ u \in waiting[c]
        /\ waiting' = [waiting EXCEPT ![c] = @ \ {u}]
        /\ IF waiting[c] = {u} THEN Moves(w, "closed") ELSE UNCHANGED stage
        /\ UNCHANGED <<content, told, asked>>

\* A restart lets nobody down; it may bring back who has left.
Return ==
    /\ waiting' \in [Contents -> SUBSET Users]
    /\ \A c \in Contents : waiting[c] \subseteq waiting'[c]
    /\ UNCHANGED <<stage, content, told, asked>>

Find(w) ==
    /\ stage[w] = "open" /\ Moves(w, "found")
    /\ UNCHANGED <<content, waiting, told, asked>>

\* A notice is of a wish that was found, and may come when it has ended.
Tell(u, w) ==
    /\ stage[w] \in Past
    /\ told' = told \cup {<<u, w>>}
    /\ UNCHANGED <<stage, content, waiting, asked>>

Notify(w) ==
    /\ stage[w] = "found" /\ \E u \in Users : <<u, w>> \in told
    /\ Moves(w, "notified")
    /\ UNCHANGED <<content, waiting, told, asked>>

\* The request is made once the wish was found; the wish is fulfilled with it, if at all.
Ask(w) ==
    /\ stage[w] \in Past
    /\ asked' = asked \cup {w}
    /\ \/ stage[w] \in {"found", "notified"} /\ Moves(w, "fulfilled")
       \/ UNCHANGED stage
    /\ UNCHANGED <<content, waiting, told>>

\* Wishes grow too old, or cannot be told to anybody, which may be found out
\* when they have been fulfilled.
Close(ended) ==
    /\ \A w \in ended : stage[w] # "none"
    /\ stage' = [w \in Wishes |-> IF w \in ended THEN "closed" ELSE stage[w]]
    /\ UNCHANGED <<content, waiting, told, asked>>

Next ==
    \/ \E u \in Users, c \in Contents : Join(u, c) \/ \E w \in Wishes : Make(w, u, c)
    \/ \E u \in Users, w \in Wishes : Leave(u, w) \/ Tell(u, w)
    \/ \E w \in Wishes : Find(w) \/ Notify(w) \/ Ask(w)
    \/ \E ended \in SUBSET Wishes : Close(ended)
    \/ Return

Spec == Init /\ [][Next]_vars
=============================================================================
