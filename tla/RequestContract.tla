--------------------------- MODULE RequestContract ---------------------------
(***************************************************************************)
(* What the request ledgers promise, seen from the disk: how the status of *)
(* a request may move, and that it is refunded at most once.  Locks,       *)
(* handlers, failing writes and restarts do not appear: a restart is a     *)
(* step that changes nothing here.  RequestLedger implements this.         *)
(***************************************************************************)
CONSTANTS Requests, Contents, None

VARIABLES
    status,    \* the durable status of each request
    content,   \* what each request asks for, None when there is no record
    refunded   \* requests whose refund is durable

vars == <<status, content, refunded>>

Active == {"pending", "approved"}
Closed == {"rejected", "cancelled", "failed"}

Init ==
    /\ status = [r \in Requests |-> "none"]
    /\ content = [r \in Requests |-> None]
    /\ refunded = {}

Open(r, c) ==
    /\ status[r] = "none"
    /\ \A s \in Requests : content[s] = c => status[s] \notin Active
    /\ status' = [status EXCEPT ![r] = "pending"]
    /\ content' = [content EXCEPT ![r] = c]
    /\ UNCHANGED refunded

Approve(r) ==
    /\ status[r] = "pending"
    /\ status' = [status EXCEPT ![r] = "approved"]
    /\ UNCHANGED <<content, refunded>>

Requeue(r) ==
    /\ status[r] = "approved"
    /\ status' = [status EXCEPT ![r] = "pending"]
    /\ UNCHANGED <<content, refunded>>

Close(r) ==
    /\ \/ status[r] = "pending"  /\ status' \in {[status EXCEPT ![r] = s] : s \in {"rejected", "cancelled"}}
       \/ status[r] = "approved" /\ status' \in {[status EXCEPT ![r] = s] : s \in {"rejected", "failed"}}
    /\ UNCHANGED <<content, refunded>>

\* A request is refunded when it is closed, or approved and given up.
Refund(r) ==
    /\ status[r] \in Closed \cup {"approved"}
    /\ r \notin refunded
    /\ refunded' = refunded \cup {r}
    /\ UNCHANGED <<status, content>>

\* Several records may be removed by one cleanup.
Purge(S) ==
    /\ \A r \in S : status[r] \in Closed \cup {"approved"}
    /\ status' = [r \in Requests |-> IF r \in S THEN "purged" ELSE status[r]]
    /\ content' = [r \in Requests |-> IF r \in S THEN None ELSE content[r]]
    /\ UNCHANGED refunded

Next ==
    \/ \E r \in Requests :
         \/ \E c \in Contents : Open(r, c)
         \/ Approve(r)
         \/ Requeue(r)
         \/ Close(r)
         \/ Refund(r)
    \/ \E S \in SUBSET Requests : Purge(S)

Spec == Init /\ [][Next]_vars
=============================================================================
