--------------------------------- MODULE Outbox ---------------------------------
(***************************************************************************)
(* The status notifications of a request: a file of the newest state of    *)
(* every subscription, and the single worker that tells the owners.        *)
(*                                                                         *)
(* The file is read and written under processMu, which the worker does not *)
(* hold while it sends; an update that arrives meanwhile takes the place   *)
(* of the one being sent under a higher revision.  The file is all the     *)
(* state there is: a restart loses only where the worker was.              *)
(***************************************************************************)
EXTENDS Integers, FiniteSets, SequencesExt

CONSTANTS
    Requests,      \* MoviePilot subscriptions
    States,        \* states of a subscription
    MaxRevision,   \* bound on updates of one subscription
    MaxFaults      \* bound on failing sends and writes, and on restarts

VARIABLES
    updates,    \* notifications.json
    signal,     \* workerSignal, a channel of one place
    worker,     \* notificationWorker
    silent,     \* owners who turned the notifications off, and requests whose owner is unknown
    told,       \* history: what was sent, [request, revision, state]
    waived,     \* history: what was marked for an owner who wanted none
    doubtful,   \* history: what was sent while the file does not say so
    faults

vars == <<updates, signal, worker, silent, told, waived, doubtful, faults>>

StatusUpdate == [request : Requests, state : States, revision : 1..MaxRevision, notified : BOOLEAN]
Message      == [request : Requests, state : States, revision : 1..MaxRevision]

Key(u)  == [request |-> u.request, revision |-> u.revision, state |-> u.state]
Idle    == [pc |-> "idle", pending |-> {}, polled |-> <<>>]

TypeOK ==
    /\ updates \in Seq(StatusUpdate) /\ Len(updates) <= Cardinality(Requests)
    /\ signal \in BOOLEAN
    /\ worker.pc \in {"idle", "poll", "take", "send", "mark"}
    /\ worker.pending \subseteq Message /\ Cardinality(worker.pending) <= 1
    /\ worker.polled \in Seq(StatusUpdate)
    /\ silent \in [Requests -> {"wanted", "off", "unknown"}]
    /\ told \in [Message -> Nat]
    /\ waived \subseteq Message /\ doubtful \subseteq Message
    /\ faults \in 0..MaxFaults

Init ==
    /\ updates = <<>>
    /\ signal = TRUE
    /\ worker = Idle
    /\ silent = [r \in Requests |-> "wanted"]
    /\ told = [m \in Message |-> 0]
    /\ waived = {} /\ doubtful = {}
    /\ faults = 0

Fault   == faults < MaxFaults /\ faults' = faults + 1
NoFault == UNCHANGED faults
-----------------------------------------------------------------------------
(* Reporting a state *)

Place(r) == {i \in DOMAIN updates : updates[i].request = r}

\* The file after an update of r: appended, or in the place of an older one.
Reported(r, s) ==
    IF Place(r) = {} THEN Append(updates, [request |-> r, state |-> s, revision |-> 1, notified |-> FALSE])
    ELSE [i \in DOMAIN updates |->
            IF i \in Place(r)
            THEN [request |-> r, state |-> s, revision |-> updates[i].revision + 1, notified |-> FALSE]
            ELSE updates[i]]

SameStatusUpdate(r, s) == \E i \in Place(r) : updates[i].state = s
HasRoom(r) == \A i \in Place(r) : updates[i].revision < MaxRevision

\* NotifyStatusUpdate.
Update(r, s) ==
    \/ SameStatusUpdate(r, s) /\ signal' = TRUE /\ UNCHANGED <<updates, faults>>
    \/ /\ ~SameStatusUpdate(r, s) /\ HasRoom(r)
       /\ updates' = Reported(r, s) /\ signal' = TRUE /\ NoFault
    \/ ~SameStatusUpdate(r, s) /\ Fault /\ UNCHANGED <<updates, signal>>

NotifyStatusUpdate(r, s) ==
    /\ Update(r, s)
    /\ UNCHANGED <<worker, silent, told, waived, doubtful>>

\* The owner turns the notifications on or off; a request is linked to a subscription or loses it.
OwnerChanges(r, x) ==
    /\ silent[r] # x /\ silent' = [silent EXCEPT ![r] = x]
    /\ UNCHANGED <<updates, signal, worker, told, waived, doubtful, faults>>
-----------------------------------------------------------------------------
(* The worker *)

Signalled ==
    /\ worker.pc = "idle" /\ signal
    /\ signal' = FALSE /\ worker' = [worker EXCEPT !.pc = "take"]
    /\ UNCHANGED <<updates, silent, told, waived, doubtful, faults>>

\* Every five minutes checkStatusUpdates asks MoviePilot for what the file holds.
Tick ==
    /\ worker.pc = "idle"
    /\ worker' = [worker EXCEPT !.pc = "poll", !.polled = updates]
    /\ UNCHANGED <<updates, signal, silent, told, waived, doubtful, faults>>

CheckStatusUpdates ==
    /\ worker.pc = "poll"
    /\ \/ /\ worker.polled # <<>>
          /\ worker' = [worker EXCEPT !.polled = Tail(@)]
          /\ \/ UNCHANGED <<updates, signal, faults>>
             \/ \E s \in States : LET u == Head(worker.polled)
                                  IN s # u.state /\ Update(u.request, s)
       \/ /\ worker.polled = <<>> /\ worker' = [worker EXCEPT !.pc = "take"]
          /\ UNCHANGED <<updates, signal, faults>>
    /\ UNCHANGED <<silent, told, waived, doubtful>>

Unsent == {i \in DOMAIN updates : ~updates[i].notified}

\* The first of those waiting.
Take ==
    /\ worker.pc = "take"
    /\ \/ Unsent = {} /\ worker' = Idle
       \/ \E i \in Unsent :
            /\ \A j \in Unsent : i <= j
            /\ worker' = [worker EXCEPT !.pc = "send", !.pending = {Key(updates[i])}]
    /\ UNCHANGED <<updates, signal, silent, told, waived, doubtful, faults>>

\* An unknown owner and a failed send end the round, whatever else is waiting.
Send ==
    /\ worker.pc = "send"
    /\ \E m \in worker.pending :
         \/ /\ silent[m.request] = "unknown" /\ worker' = Idle
            /\ UNCHANGED <<told, waived, doubtful>> /\ NoFault
         \/ /\ silent[m.request] = "off"
            /\ worker' = [worker EXCEPT !.pc = "mark"] /\ waived' = waived \cup {m}
            /\ UNCHANGED <<told, doubtful>> /\ NoFault
         \/ /\ silent[m.request] = "wanted"
            /\ worker' = [worker EXCEPT !.pc = "mark"] /\ told' = [told EXCEPT ![m] = @ + 1]
            /\ UNCHANGED <<waived, doubtful>> /\ NoFault
         \/ /\ silent[m.request] = "wanted" /\ Fault /\ worker' = Idle /\ UNCHANGED waived
            /\ \/ UNCHANGED <<told, doubtful>>
               \/ told' = [told EXCEPT ![m] = @ + 1] /\ doubtful' = doubtful \cup {m}
    /\ UNCHANGED <<updates, signal, silent>>

\* Fault: the revision is not compared.
SameRequest(u, m) == u.request = m.request
SamePending(u, m) == u.request = m.request /\ u.revision = m.revision

MarkNotified ==
    /\ worker.pc = "mark"
    /\ \E m \in worker.pending :
         LET mine(u) == SamePending(u, m)
         IN \/ /\ updates' = [i \in DOMAIN updates |->
                                IF mine(updates[i]) THEN [updates[i] EXCEPT !.notified = TRUE] ELSE updates[i]]
               /\ worker' = [worker EXCEPT !.pc = "take", !.pending = {}]
               /\ UNCHANGED doubtful /\ NoFault
            \/ /\ \E i \in DOMAIN updates : mine(updates[i])
               /\ Fault /\ worker' = Idle /\ doubtful' = doubtful \cup {m} /\ UNCHANGED updates
    /\ UNCHANGED <<signal, silent, told, waived>>

\* A crash, or StopNotificationWorker and StartNotificationWorker around a restart.
Restart ==
    /\ Fault
    /\ worker' = Idle /\ signal' = TRUE
    /\ doubtful' = IF worker.pc = "mark" THEN doubtful \cup worker.pending ELSE doubtful
    /\ UNCHANGED <<updates, silent, told, waived>>

Next ==
    \/ \E r \in Requests, s \in States : NotifyStatusUpdate(r, s)
    \/ \E r \in Requests, x \in {"wanted", "off", "unknown"} : OwnerChanges(r, x)
    \/ Signalled \/ Tick \/ CheckStatusUpdates \/ Take \/ Send \/ MarkNotified
    \/ Restart

Spec == Init /\ [][Next]_vars
-----------------------------------------------------------------------------
\* What is marked as told was told in the state the file holds, or its owner wanted none: an
\* update that takes the place of the one being sent stays to be told.  And nothing is told twice
\* unless the file could not know that it was.
NewestIsTold ==
    /\ \A i \in DOMAIN updates :
         updates[i].notified => told[Key(updates[i])] > 0 \/ Key(updates[i]) \in waived
    /\ \A m \in Message \ doubtful : told[m] <= 1
=============================================================================
