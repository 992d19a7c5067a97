--------------------------- MODULE BackgroundProofs ---------------------------
(***************************************************************************)
(* Proofs about the parts of Background, one section for each: for any     *)
(* number of handlers, seasons, updates, failures and restarts.            *)
(***************************************************************************)
EXTENDS Background, Sequences, TLAPS

-----------------------------------------------------------------------------
(***************************************************************************)
(* The preferences: the file follows the order of the changes.             *)
(***************************************************************************)

\* The part of the type that the argument needs; the counters do not matter to it.
ChoicesTyped ==
    /\ prefs \in [{"memory", "file"} -> Choices!Switches]
    /\ handler \in [Handlers -> [pc : {"idle", "set", "wait", "write"},
                                 key : Keys \cup {""}, value : BOOLEAN, snapshot : Choices!Switches]]
    /\ mu \subseteq Handlers /\ persistMu \subseteq Handlers

\* Each mutex is held by the one handler that is where the code holds it.
LocksHeld ==
    /\ \A h \in Handlers : h \in mu <=> handler[h].pc = "wait"
    /\ \A h \in Handlers : h \in persistMu <=> handler[h].pc = "write"
    /\ \A g, h \in mu : g = h
    /\ \A g, h \in persistMu : g = h

\* The snapshot that will be written last is what memory holds: the one of the handler that waits
\* for its turn, or else the one that is being written.
NewestLast ==
    /\ \A h \in mu : handler[h].snapshot = prefs["memory"]
    /\ mu = {} => \A h \in persistMu : handler[h].snapshot = prefs["memory"]

\* With nothing left to write, the file is as new as memory.
FileCaughtUp ==
    mu = {} /\ persistMu = {} /\ ~failed => prefs["file"] = prefs["memory"]

PrefsInv == ChoicesTyped /\ LocksHeld /\ NewestLast /\ FileCaughtUp
-----------------------------------------------------------------------------
LEMMA ChoicesInit == Choices!Init => PrefsInv
<1> SUFFICES ASSUME Choices!Init PROVE PrefsInv
  OBVIOUS
<1>1. Choices!On \in Choices!Switches
  BY DEF Choices!On, Choices!Switches
<1>2. ChoicesTyped
  BY <1>1 DEF Choices!Init, ChoicesTyped, Choices!Idle, Choices!Nobody
<1>3. \A h \in Handlers : handler[h].pc = "idle"
  BY DEF Choices!Init, Choices!Idle
<1>4. mu = {} /\ persistMu = {} /\ prefs["file"] = Choices!On /\ prefs["memory"] = Choices!On
  BY DEF Choices!Init, Choices!Nobody
<1>5. LocksHeld /\ NewestLast /\ FileCaughtUp
  BY <1>3, <1>4 DEF LocksHeld, NewestLast, FileCaughtUp
<1> QED
  BY <1>2, <1>5 DEF PrefsInv

\* Reading a switch disturbs nothing.
LEMMA ToggleStep ==
    ASSUME PrefsInv, NEW h \in Handlers, NEW k \in Keys, Choices!HandleToggle(h, k) PROVE PrefsInv'
<1> USE DEF PrefsInv, Choices!HandleToggle, Choices!Nobody
<1>1. ChoicesTyped'
  <2>1. prefs["memory"] \in [Keys -> BOOLEAN]
    BY DEF ChoicesTyped, Choices!Switches
  <2>2. [Choices!Idle EXCEPT !.pc = "set", !.key = k, !.value = ~prefs["memory"][k]]
            \in [pc : {"idle", "set", "wait", "write"}, key : Keys \cup {""},
                 value : BOOLEAN, snapshot : Choices!Switches]
    BY <2>1 DEF Choices!Idle, Choices!On, Choices!Switches
  <2> QED
    BY <2>2 DEF ChoicesTyped
<1>2. \A g \in Handlers : g # h => handler'[g] = handler[g]
  BY DEF ChoicesTyped
<1>3. handler'[h].pc = "set"
  BY DEF ChoicesTyped, Choices!Idle
<1>4. LocksHeld' /\ h \notin mu /\ h \notin persistMu
  BY <1>2, <1>3 DEF LocksHeld, ChoicesTyped
<1>5. NewestLast' /\ FileCaughtUp'
  BY <1>2, <1>4 DEF NewestLast, FileCaughtUp, ChoicesTyped
<1> QED
  BY <1>1, <1>4, <1>5

\* Whoever changes memory takes its snapshot under mu, before anybody else can.
LEMMA SetStep ==
    ASSUME PrefsInv, NEW h \in Handlers, Choices!SetNotify(h) PROVE PrefsInv'
<1> DEFINE now == [prefs["memory"] EXCEPT ![handler[h].key] = handler[h].value]
<1>1. now \in Choices!Switches
  BY DEF PrefsInv, ChoicesTyped, Choices!Switches
<1>2. /\ prefs' = [prefs EXCEPT !["memory"] = now]
      /\ handler' = [handler EXCEPT ![h].pc = "wait", ![h].snapshot = now]
      /\ mu = {} /\ mu' = {h} /\ UNCHANGED persistMu /\ handler[h].pc = "set"
  BY DEF Choices!SetNotify, Choices!KeepLock, Choices!Nobody
<1> HIDE DEF now
<1>3. ChoicesTyped'
  <2> DEFINE Saves == [pc : {"idle", "set", "wait", "write"}, key : Keys \cup {""},
                       value : BOOLEAN, snapshot : Choices!Switches]
             taken == [handler[h] EXCEPT !.pc = "wait", !.snapshot = now]
  <2>1. handler \in [Handlers -> Saves] /\ prefs \in [{"memory", "file"} -> Choices!Switches]
    BY DEF PrefsInv, ChoicesTyped
  <2>2. taken \in Saves
    BY <1>1, <2>1
  <2>3. handler' = [handler EXCEPT ![h] = taken]
    BY <1>2
  <2> HIDE DEF Saves, taken
  <2>4. handler' \in [Handlers -> Saves]
    BY <2>1, <2>2, <2>3
  <2>5. prefs' \in [{"memory", "file"} -> Choices!Switches]
    BY <1>1, <1>2, <2>1
  <2> QED
    BY <1>2, <2>4, <2>5 DEF PrefsInv, ChoicesTyped, Saves
<1>4. /\ \A g \in Handlers : g # h => handler'[g] = handler[g]
      /\ handler'[h].pc = "wait" /\ handler'[h].snapshot = now /\ prefs'["memory"] = now
  BY <1>2 DEF PrefsInv, ChoicesTyped
<1>5. LocksHeld'
  BY <1>2, <1>4 DEF PrefsInv, LocksHeld, ChoicesTyped
<1>6. NewestLast' /\ FileCaughtUp'
  BY <1>2, <1>4 DEF NewestLast, FileCaughtUp
<1> QED
  BY <1>3, <1>5, <1>6 DEF PrefsInv

\* Its turn to write is taken before mu is let go of.
LEMMA SaveStep ==
    ASSUME PrefsInv, NEW h \in Handlers, Choices!SaveOrdered(h) PROVE PrefsInv'
<1>1. /\ handler' = [handler EXCEPT ![h].pc = "write"] /\ UNCHANGED <<prefs, failed>>
      /\ persistMu = {} /\ persistMu' = {h} /\ mu' = mu \ {h} /\ handler[h].pc = "wait"
  BY DEF Choices!SaveOrdered, Choices!Nobody
<1>2. ChoicesTyped'
  <2> DEFINE Saves == [pc : {"idle", "set", "wait", "write"}, key : Keys \cup {""},
                       value : BOOLEAN, snapshot : Choices!Switches]
             taken == [handler[h] EXCEPT !.pc = "write"]
  <2>1. handler \in [Handlers -> Saves]
    BY DEF PrefsInv, ChoicesTyped
  <2>2. taken \in Saves
    BY <2>1
  <2>3. handler' = [handler EXCEPT ![h] = taken]
    BY <1>1
  <2> HIDE DEF Saves, taken
  <2>4. handler' \in [Handlers -> Saves]
    BY <2>1, <2>2, <2>3
  <2> QED
    BY <1>1, <2>4 DEF PrefsInv, ChoicesTyped, Saves
<1>3. /\ \A g \in Handlers : g # h => handler'[g] = handler[g]
      /\ handler'[h].pc = "write" /\ handler'[h].snapshot = handler[h].snapshot
  BY <1>1 DEF PrefsInv, ChoicesTyped
<1>4. h \in mu /\ mu' = {}
  BY <1>1 DEF PrefsInv, LocksHeld
<1>5. LocksHeld'
  BY <1>1, <1>3, <1>4 DEF PrefsInv, LocksHeld, ChoicesTyped
<1>6. NewestLast' /\ FileCaughtUp'
  BY <1>1, <1>3, <1>4 DEF PrefsInv, NewestLast, FileCaughtUp
<1> QED
  BY <1>2, <1>5, <1>6 DEF PrefsInv

\* What is written is what memory holds, unless somebody else waits to write.
LEMMA WriteStep ==
    ASSUME PrefsInv, NEW h \in Handlers, Choices!SaveSnapshot(h) PROVE PrefsInv'
<1>1. /\ handler' = [handler EXCEPT ![h] = Choices!Idle] /\ persistMu' = {} /\ UNCHANGED mu
      /\ handler[h].pc = "write"
  BY DEF Choices!SaveSnapshot, Choices!Nobody
<1>2. \/ prefs' = [prefs EXCEPT !["file"] = handler[h].snapshot]
      \/ failed' /\ UNCHANGED prefs
  BY DEF Choices!SaveSnapshot
<1>3. ChoicesTyped' /\ prefs'["memory"] = prefs["memory"]
  <2>1. Choices!Idle \in [pc : {"idle", "set", "wait", "write"}, key : Keys \cup {""},
                  value : BOOLEAN, snapshot : Choices!Switches]
    BY DEF Choices!Idle, Choices!On, Choices!Switches
  <2>2. handler[h].snapshot \in Choices!Switches
    BY DEF PrefsInv, ChoicesTyped
  <2> QED
    BY <1>1, <1>2, <2>1, <2>2 DEF PrefsInv, ChoicesTyped
<1>4. (\A g \in Handlers : g # h => handler'[g] = handler[g]) /\ handler'[h].pc = "idle"
  BY <1>1 DEF PrefsInv, ChoicesTyped, Choices!Idle
<1>5. h \in persistMu /\ h \notin mu
  BY <1>1 DEF PrefsInv, LocksHeld
<1>6. LocksHeld'
  <2>1. \A g \in Handlers : g \in persistMu => g = h
    BY <1>5 DEF PrefsInv, LocksHeld
  <2>2. \A g \in Handlers : (g \in mu' <=> handler'[g].pc = "wait")
    BY <1>1, <1>4, <1>5 DEF PrefsInv, LocksHeld
  <2>3. \A g \in Handlers : handler'[g].pc # "write"
    BY <1>4, <2>1 DEF PrefsInv, LocksHeld
  <2> QED
    BY <1>1, <2>2, <2>3 DEF PrefsInv, LocksHeld
<1>7. NewestLast'
  BY <1>1, <1>3, <1>4, <1>5 DEF PrefsInv, NewestLast, ChoicesTyped
<1>8. FileCaughtUp'
  <2> SUFFICES ASSUME mu' = {}, ~failed' PROVE prefs'["file"] = prefs'["memory"]
    BY DEF FileCaughtUp
  <2>1. prefs'["file"] = handler[h].snapshot
    BY <1>2 DEF PrefsInv, ChoicesTyped
  <2>2. handler[h].snapshot = prefs["memory"]
    BY <1>1, <1>5 DEF PrefsInv, NewestLast
  <2> QED
    BY <1>3, <2>1, <2>2
<1> QED
  BY <1>3, <1>6, <1>7, <1>8 DEF PrefsInv

\* A restart begins with what the file has.
LEMMA ChoicesRestart ==
    ASSUME PrefsInv, Choices!Restart PROVE PrefsInv'
  BY DEF PrefsInv, Choices!Restart, ChoicesTyped, LocksHeld, NewestLast, FileCaughtUp,
       Choices!Idle, Choices!On, Choices!Switches, Choices!Nobody

\* The other parts leave this one alone.
LEMMA ChoicesKept == ASSUME PrefsInv, [Next]_vars PROVE PrefsInv'
<1>1. CASE Choices!Next
  BY <1>1, ToggleStep, SetStep, SaveStep, WriteStep, ChoicesRestart DEF Choices!Next
<1>2. CASE UNCHANGED choiceVars
  BY <1>2 DEF choiceVars, PrefsInv, ChoicesTyped, LocksHeld, NewestLast, FileCaughtUp
<1> QED
  BY <1>1, <1>2 DEF Next, vars, SummaryStep, DigestStep, RadarStep, StatusStep, ChoiceStep, ClientStep,
      ReminderStep

\* Snapshots reach the file in the order of the changes (saveOrdered): when everyone is done, the
\* file has what the program works with, unless the last write failed.
THEOREM FileFollowsChanges == Spec => []FileFollows
<1>1. Init => PrefsInv
  BY ChoicesInit DEF Init
<1>2. PrefsInv /\ [Next]_vars => PrefsInv'
  BY ChoicesKept
<1>3. PrefsInv => FileFollows
  <2> SUFFICES ASSUME PrefsInv, \A h \in Handlers : handler[h].pc \in {"idle", "set"}, ~failed
               PROVE  prefs["file"] = prefs["memory"]
    BY DEF FileFollows, Choices!FileFollows
  <2>1. mu = {} /\ persistMu = {}
    BY DEF PrefsInv, LocksHeld, ChoicesTyped
  <2> QED
    BY <2>1 DEF PrefsInv, FileCaughtUp
<1> QED
  BY <1>1, <1>2, <1>3, PTL DEF Spec

-----------------------------------------------------------------------------
(***************************************************************************)
(* The outbox: the newest state is told, and once.                         *)
(***************************************************************************)

Workers == [pc : {"idle", "poll", "take", "send", "mark"}, pending : SUBSET Status!Message,
            polled : Seq(Status!StatusUpdate)]

\* The part of the type that the argument needs; the counter of faults does not matter to it.
StatusTyped ==
    /\ updates \in Seq(Status!StatusUpdate)
    /\ worker \in Workers
    /\ statesTold \in [Status!Message -> Nat]

\* The file has one place for each subscription.
OnePlace ==
    \A i, j \in DOMAIN updates : updates[i].request = updates[j].request => i = j

\* The place u is later than what m says of the same subscription.
Overtakes(u, m) == u.request = m.request /\ u.revision > m.revision

\* What the worker is about is still to be told, or a later update took its place.
InHand ==
    /\ worker.pc \notin {"send", "mark"} => worker.pending = {}
    /\ \A m, n \in worker.pending : m = n
    /\ \A m \in worker.pending :
         \E i \in DOMAIN updates :
            Overtakes(updates[i], m) \/ (Status!Key(updates[i]) = m /\ ~updates[i].notified)
    /\ \A m \in worker.pending :
         IF worker.pc = "send" THEN statesTold[m] = 0 \/ m \in statesInDoubt ELSE statesTold[m] > 0 \/ m \in waived

\* What was told is marked, is being marked, or was overtaken.
ToldKept ==
    \A m \in Status!Message \ statesInDoubt : statesTold[m] > 0 =>
        \/ worker.pc = "mark" /\ m \in worker.pending
        \/ \E i \in DOMAIN updates :
              Overtakes(updates[i], m) \/ (Status!Key(updates[i]) = m /\ updates[i].notified)

OutboxInv == StatusTyped /\ OnePlace /\ InHand /\ ToldKept /\ Status!NewestIsTold
-----------------------------------------------------------------------------
LEMMA StatusInit == Status!Init => OutboxInv
<1> SUFFICES ASSUME Status!Init PROVE OutboxInv
  OBVIOUS
<1>1. /\ updates = <<>> /\ worker = [pc |-> "idle", pending |-> {}, polled |-> <<>>]
      /\ statesTold = [m \in Status!Message |-> 0]
  BY DEF Status!Init, Status!Idle
<1>2. DOMAIN updates = {}
  BY <1>1
<1> QED
  BY <1>1, <1>2 DEF OutboxInv, StatusTyped, Workers, OnePlace, InHand, ToldKept, Status!NewestIsTold

\* An update takes a new place, or the one of its subscription under a higher revision.
LEMMA UpdateEffect ==
    ASSUME MaxRevision \in Nat \ {0}, OutboxInv, NEW r \in Subscriptions, NEW s \in States, Status!Update(r, s)
    PROVE  /\ updates' \in Seq(Status!StatusUpdate) /\ OnePlace'
           /\ \A i \in DOMAIN updates : /\ i \in DOMAIN updates'
                                        /\ \/ updates'[i] = updates[i]
                                           \/ /\ Overtakes(updates'[i], updates[i])
                                              /\ ~updates'[i].notified
           /\ \A i \in DOMAIN updates' : i \in DOMAIN updates \/ ~updates'[i].notified
<1>0. updates \in Seq(Status!StatusUpdate) /\ DOMAIN updates = 1..Len(updates) /\ Len(updates) \in Nat
  BY DEF OutboxInv, StatusTyped
<1>1. CASE UNCHANGED updates
  BY <1>0, <1>1 DEF OutboxInv, OnePlace
<1>2. CASE updates' = Status!Reported(r, s) /\ Status!HasRoom(r) /\ Status!Place(r) = {}
  <2> DEFINE new == [request |-> r, state |-> s, revision |-> 1, notified |-> FALSE]
  <2>1. new \in Status!StatusUpdate
    BY DEF Status!StatusUpdate
  <2>2. updates' = Append(updates, new)
    BY <1>2 DEF Status!Reported
  <2>3. /\ updates' \in Seq(Status!StatusUpdate) /\ DOMAIN updates' = 1..(Len(updates) + 1)
        /\ updates'[Len(updates) + 1] = new
        /\ \A i \in DOMAIN updates : i \in DOMAIN updates' /\ updates'[i] = updates[i]
    BY <1>0, <2>1, <2>2
  <2>4. \A i \in DOMAIN updates : updates[i].request # r
    BY <1>2 DEF Status!Place
  <2>5. \A i \in DOMAIN updates' : i \in DOMAIN updates \/ i = Len(updates) + 1
    BY <1>0, <2>3
  <2>6. new.request = r /\ ~new.notified
    OBVIOUS
  <2> HIDE DEF new
  <2>7. OnePlace'
    BY <2>3, <2>4, <2>5, <2>6 DEF OutboxInv, OnePlace
  <2> QED
    BY <2>3, <2>5, <2>6, <2>7
<1>3. CASE updates' = Status!Reported(r, s) /\ Status!HasRoom(r) /\ Status!Place(r) # {}
  <2> DEFINE new(i) == [request |-> r, state |-> s, revision |-> updates[i].revision + 1,
                        notified |-> FALSE]
  <2>1. updates' = [i \in DOMAIN updates |-> IF i \in Status!Place(r) THEN new(i) ELSE updates[i]]
    BY <1>3 DEF Status!Reported
  <2>2. \A i \in DOMAIN updates : updates[i] \in Status!StatusUpdate
    BY <1>0
  <2>3. \A i \in Status!Place(r) : /\ new(i) \in Status!StatusUpdate /\ i \in DOMAIN updates
                            /\ Overtakes(new(i), updates[i]) /\ ~new(i).notified
    BY <1>3, <2>2 DEF Status!HasRoom, Status!StatusUpdate, Overtakes, Status!Place
  <2> HIDE DEF new
  <2>4. DOMAIN updates' = DOMAIN updates /\ \A i \in DOMAIN updates : updates'[i] \in Status!StatusUpdate
    BY <2>1, <2>2, <2>3
  <2>5. updates' \in Seq(Status!StatusUpdate)
    BY <1>0, <2>1, <2>4
  <2>6. \A i \in DOMAIN updates : \/ updates'[i] = updates[i]
                                  \/ Overtakes(updates'[i], updates[i]) /\ ~updates'[i].notified
    BY <2>1, <2>3
  <2>7. OnePlace'
    BY <2>4, <2>6 DEF OutboxInv, OnePlace, Overtakes
  <2> QED
    BY <2>4, <2>5, <2>6, <2>7
<1> QED
  BY <1>1, <1>2, <1>3 DEF Status!Update

\* Whatever the worker is about, an update leaves it in hand or overtakes it.
LEMMA FileStep ==
    ASSUME MaxRevision \in Nat \ {0}, OutboxInv, StatusTyped', OnePlace',
           \A i \in DOMAIN updates : /\ i \in DOMAIN updates'
                                     /\ \/ updates'[i] = updates[i]
                                        \/ Overtakes(updates'[i], updates[i]) /\ ~updates'[i].notified,
           \A i \in DOMAIN updates' : i \in DOMAIN updates \/ ~updates'[i].notified,
           worker'.pending = worker.pending,
           \/ worker'.pc = worker.pc
           \/ worker.pc \notin {"send", "mark"} /\ worker'.pc \notin {"send", "mark"},
           UNCHANGED <<statesTold, waived, statesInDoubt>>
    PROVE  OutboxInv'
<1>1. /\ \A i \in DOMAIN updates : updates[i] \in Status!StatusUpdate
      /\ \A i \in DOMAIN updates' : updates'[i] \in Status!StatusUpdate
  BY DEF OutboxInv, StatusTyped
<1>2. \A m \in Status!Message, i \in DOMAIN updates :
         Overtakes(updates[i], m) \/ Status!Key(updates[i]) = m =>
            \/ Overtakes(updates'[i], m)
            \/ updates'[i] = updates[i]
  BY <1>1 DEF Overtakes, Status!Key, Status!StatusUpdate, Status!Message
<1>3. worker.pending \subseteq Status!Message
  BY DEF OutboxInv, StatusTyped, Workers
<1>4. InHand'
  <2>1. \A m \in worker.pending :
         \E i \in DOMAIN updates' :
            Overtakes(updates'[i], m) \/ (Status!Key(updates'[i]) = m /\ ~updates'[i].notified)
    BY <1>2, <1>3 DEF OutboxInv, InHand
  <2>2. worker'.pending # {} => worker'.pc = worker.pc
    BY DEF OutboxInv, InHand
  <2> QED
    BY <2>1, <2>2 DEF OutboxInv, InHand
<1>5. ToldKept'
  <2> SUFFICES ASSUME NEW m \in Status!Message \ statesInDoubt, statesTold[m] > 0,
                      ~(worker'.pc = "mark" /\ m \in worker'.pending)
               PROVE  \E i \in DOMAIN updates' :
                         Overtakes(updates'[i], m) \/ (Status!Key(updates'[i]) = m /\ updates'[i].notified)
    BY DEF ToldKept
  <2>1. ~(worker.pc = "mark" /\ m \in worker.pending)
    BY DEF OutboxInv, InHand
  <2>2. PICK i \in DOMAIN updates :
           Overtakes(updates[i], m) \/ (Status!Key(updates[i]) = m /\ updates[i].notified)
    BY <2>1 DEF OutboxInv, ToldKept
  <2> QED
    BY <1>2, <2>2
<1>6. Status!NewestIsTold'
  BY <1>1 DEF OutboxInv, Status!NewestIsTold
<1> QED
  BY <1>4, <1>5, <1>6 DEF OutboxInv

\* The poller reports a state, and so does the worker of what it polled.
LEMMA NotifyStep ==
    ASSUME MaxRevision \in Nat \ {0}, OutboxInv, NEW r \in Subscriptions, NEW s \in States,
           Status!NotifyStatusUpdate(r, s)
    PROVE  OutboxInv'
<1>1. Status!Update(r, s) /\ UNCHANGED <<worker, statesTold, waived, statesInDoubt>>
  BY DEF Status!NotifyStatusUpdate
<1>2. StatusTyped'
  BY <1>1, UpdateEffect DEF OutboxInv, StatusTyped
<1> QED
  BY <1>1, <1>2, UpdateEffect, FileStep

\* The worker moves on and the file stays, or takes an update.
LEMMA CheckStep ==
    ASSUME MaxRevision \in Nat \ {0}, OutboxInv, Status!CheckStatusUpdates PROVE OutboxInv'
<1>1. /\ worker.pc = "poll" /\ UNCHANGED <<statesTold, waived, statesInDoubt>>
      /\ worker \in Workers /\ worker.polled \in Seq(Status!StatusUpdate)
  BY DEF Status!CheckStatusUpdates, OutboxInv, StatusTyped, Workers
<1>2. CASE worker.polled # <<>> /\ worker' = [worker EXCEPT !.polled = Tail(@)]
  <2>1. /\ worker' \in Workers /\ worker'.pending = worker.pending /\ worker'.pc = "poll"
    <3>1. Tail(worker.polled) \in Seq(Status!StatusUpdate)
      BY <1>1, <1>2
    <3> QED
      BY <1>1, <1>2, <3>1 DEF Workers
  <2>2. CASE UNCHANGED updates
    <3>1. StatusTyped' /\ OnePlace'
      BY <1>1, <2>1, <2>2 DEF OutboxInv, StatusTyped, OnePlace
    <3> QED
      BY <1>1, <2>1, <2>2, <3>1, FileStep
  <2>3. CASE \E s \in States : Status!Update(Head(worker.polled).request, s)
    <3>1. Head(worker.polled) \in Status!StatusUpdate
      BY <1>1, <1>2
    <3>2. PICK s \in States : Status!Update(Head(worker.polled).request, s)
      BY <2>3
    <3>3. Head(worker.polled).request \in Subscriptions
      BY <3>1 DEF Status!StatusUpdate
    <3>4. StatusTyped'
      BY <1>1, <2>1, <3>2, <3>3, UpdateEffect DEF OutboxInv, StatusTyped
    <3> QED
      BY <1>1, <2>1, <3>2, <3>3, <3>4, UpdateEffect, FileStep
  <2> QED
    BY <1>1, <1>2, <2>2, <2>3 DEF Status!CheckStatusUpdates
<1>3. CASE worker.polled = <<>> /\ worker' = [worker EXCEPT !.pc = "take"] /\ UNCHANGED updates
  <2>1. /\ worker' \in Workers /\ worker'.pending = worker.pending /\ worker'.pc = "take"
    BY <1>1, <1>3 DEF Workers
  <2>2. StatusTyped' /\ OnePlace'
    BY <1>1, <1>3, <2>1 DEF OutboxInv, StatusTyped, OnePlace
  <2> QED
    BY <1>1, <1>3, <2>1, <2>2, FileStep
<1> QED
  BY <1>1, <1>2, <1>3 DEF Status!CheckStatusUpdates

\* A switch, a signal and a tick leave the file and what is in hand.
LEMMA StatusOutside ==
    ASSUME MaxRevision \in Nat \ {0}, OutboxInv,
           \/ \E r \in Subscriptions, x \in {"wanted", "off", "unknown"} : Status!OwnerChanges(r, x)
           \/ Status!Signalled \/ Status!Tick
    PROVE  OutboxInv'
<1>1. /\ UNCHANGED <<updates, statesTold, waived, statesInDoubt>>
      /\ \/ UNCHANGED worker
         \/ worker.pc = "idle" /\ worker' = [worker EXCEPT !.pc = "take"]
         \/ worker.pc = "idle" /\ worker' = [worker EXCEPT !.pc = "poll", !.polled = updates]
  BY DEF Status!OwnerChanges, Status!Signalled, Status!Tick
<1>2. worker' \in Workers /\ worker'.pending = worker.pending
  BY <1>1 DEF OutboxInv, StatusTyped, Workers
<1>3. \/ worker'.pc = worker.pc
      \/ worker.pc = "idle" /\ worker'.pc \in {"take", "poll"}
  BY <1>1 DEF OutboxInv, StatusTyped, Workers
<1>4. StatusTyped' /\ OnePlace'
  BY <1>1, <1>2 DEF OutboxInv, StatusTyped, OnePlace
<1> QED
  BY <1>1, <1>2, <1>3, <1>4, FileStep
-----------------------------------------------------------------------------
\* What the worker takes was not told yet: it would be marked, or overtaken.
LEMMA TakeStep ==
    ASSUME MaxRevision \in Nat \ {0}, OutboxInv, Status!Take PROVE OutboxInv'
<1>1. worker.pc = "take" /\ UNCHANGED <<updates, statesTold, waived, statesInDoubt>>
  BY DEF Status!Take
<1>2. CASE worker' = Status!Idle
  <2>1. worker' \in Workers /\ worker'.pending = {} /\ worker'.pc = "idle"
    BY <1>2 DEF Status!Idle, Workers
  <2>2. worker.pending = {}
    BY <1>1 DEF OutboxInv, InHand
  <2>3. StatusTyped' /\ OnePlace'
    BY <1>1, <2>1 DEF OutboxInv, StatusTyped, OnePlace
  <2> QED
    BY <1>1, <2>1, <2>2, <2>3, FileStep
<1>3. CASE \E i \in Status!Unsent : worker' = [worker EXCEPT !.pc = "send", !.pending = {Status!Key(updates[i])}]
  <2>1. PICK i \in DOMAIN updates :
           /\ ~updates[i].notified
           /\ worker' = [worker EXCEPT !.pc = "send", !.pending = {Status!Key(updates[i])}]
    BY <1>3 DEF Status!Unsent
  <2>2. \A j \in DOMAIN updates : updates[j] \in Status!StatusUpdate
    BY DEF OutboxInv, StatusTyped
  <2>3. Status!Key(updates[i]) \in Status!Message
    BY <2>2 DEF Status!Key, Status!StatusUpdate, Status!Message
  <2>4. worker' \in Workers /\ worker'.pending = {Status!Key(updates[i])} /\ worker'.pc = "send"
    BY <2>1, <2>3 DEF OutboxInv, StatusTyped, Workers
  <2>5. statesTold[Status!Key(updates[i])] = 0 \/ Status!Key(updates[i]) \in statesInDoubt
    <3> SUFFICES ASSUME statesTold[Status!Key(updates[i])] > 0, Status!Key(updates[i]) \notin statesInDoubt
                 PROVE  FALSE
      BY <2>3 DEF OutboxInv, StatusTyped
    <3>1. PICK j \in DOMAIN updates :
             \/ Overtakes(updates[j], Status!Key(updates[i]))
             \/ Status!Key(updates[j]) = Status!Key(updates[i]) /\ updates[j].notified
      BY <1>1, <2>3 DEF OutboxInv, ToldKept
    <3>2. updates[j].request = updates[i].request
      BY <3>1 DEF Overtakes, Status!Key
    <3>3. j = i
      BY <3>2 DEF OutboxInv, OnePlace
    <3>4. updates[i].revision \in Nat
      BY <2>2 DEF Status!StatusUpdate
    <3> QED
      BY <2>1, <3>1, <3>3, <3>4 DEF Overtakes, Status!Key
  <2>6. InHand'
    BY <1>1, <2>1, <2>4, <2>5 DEF InHand
  <2>7. ToldKept'
    BY <1>1, <2>4 DEF OutboxInv, ToldKept
  <2> QED
    BY <1>1, <2>4, <2>6, <2>7 DEF OutboxInv, StatusTyped, OnePlace, Status!NewestIsTold
<1> QED
  BY <1>2, <1>3 DEF Status!Take

\* An owner is told, wants to hear of none, or the round ends; a message that was sent although
\* the worker did not learn of it is in doubt.
LEMMA SendStep ==
    ASSUME MaxRevision \in Nat \ {0}, OutboxInv, Status!Send PROVE OutboxInv'
<1>1. worker.pc = "send" /\ UNCHANGED updates
  BY DEF Status!Send
<1>2. PICK m \in worker.pending :
         \/ worker' = Status!Idle /\ UNCHANGED <<statesTold, waived, statesInDoubt>>
         \/ /\ worker' = [worker EXCEPT !.pc = "mark"] /\ waived' = waived \cup {m}
            /\ UNCHANGED <<statesTold, statesInDoubt>>
         \/ /\ worker' = [worker EXCEPT !.pc = "mark"] /\ statesTold' = [statesTold EXCEPT ![m] = @ + 1]
            /\ UNCHANGED <<waived, statesInDoubt>>
         \/ /\ worker' = Status!Idle /\ statesTold' = [statesTold EXCEPT ![m] = @ + 1]
            /\ statesInDoubt' = statesInDoubt \cup {m} /\ UNCHANGED waived
  BY DEF Status!Send
<1>3. /\ worker \in Workers /\ statesTold \in [Status!Message -> Nat] /\ m \in Status!Message
  BY DEF OutboxInv, StatusTyped, Workers
<1>4. worker.pending = {m} /\ (statesTold[m] = 0 \/ m \in statesInDoubt)
  BY <1>1 DEF OutboxInv, InHand
<1>5. \A n \in Status!Message \ statesInDoubt : statesTold[n] > 0 =>
         \E i \in DOMAIN updates :
            Overtakes(updates[i], n) \/ (Status!Key(updates[i]) = n /\ updates[i].notified)
  BY <1>1 DEF OutboxInv, ToldKept
<1>6. \E i \in DOMAIN updates :
         Overtakes(updates[i], m) \/ (Status!Key(updates[i]) = m /\ ~updates[i].notified)
  BY DEF OutboxInv, InHand
<1>7. OnePlace'
  BY <1>1 DEF OutboxInv, OnePlace
<1>8. CASE worker' = Status!Idle /\ UNCHANGED <<statesTold, waived, statesInDoubt>>
  <2>1. worker' \in Workers /\ worker'.pending = {} /\ worker'.pc = "idle"
    BY <1>8 DEF Status!Idle, Workers
  <2> QED
    BY <1>1, <1>5, <1>7, <1>8, <2>1
    DEF OutboxInv, StatusTyped, InHand, ToldKept, Status!NewestIsTold
<1>9. CASE /\ worker' = [worker EXCEPT !.pc = "mark"] /\ waived' = waived \cup {m}
           /\ UNCHANGED <<statesTold, statesInDoubt>>
  <2>1. worker' \in Workers /\ worker'.pending = {m} /\ worker'.pc = "mark"
    BY <1>3, <1>4, <1>9 DEF Workers
  <2> QED
    BY <1>1, <1>5, <1>6, <1>7, <1>9, <2>1
    DEF OutboxInv, StatusTyped, InHand, ToldKept, Status!NewestIsTold
<1>10. CASE statesTold' = [statesTold EXCEPT ![m] = @ + 1]
  <2>1. /\ statesTold' \in [Status!Message -> Nat] /\ statesTold'[m] = statesTold[m] + 1 /\ statesTold[m] \in Nat
        /\ \A n \in Status!Message : n # m => statesTold'[n] = statesTold[n]
    BY <1>3, <1>10
  <2>2. \A n \in Status!Message : statesTold[n] > 0 => statesTold'[n] > 0
    BY <1>3, <2>1
  <2>3. statesInDoubt \subseteq statesInDoubt' /\ UNCHANGED waived
    BY <1>2, <1>10, <2>1
  <2>4. Status!NewestIsTold'
    <3>1. \A i \in DOMAIN updates : Status!Key(updates[i]) \in Status!Message
      <4>1. \A i \in DOMAIN updates : updates[i] \in Status!StatusUpdate
        BY DEF OutboxInv, StatusTyped
      <4> QED
        BY <4>1 DEF Status!Key, Status!StatusUpdate, Status!Message
    <3>2. \A n \in Status!Message \ statesInDoubt' : statesTold'[n] <= 1
      BY <1>4, <2>1, <2>3 DEF OutboxInv, Status!NewestIsTold
    <3> QED
      BY <1>1, <2>2, <2>3, <3>1, <3>2 DEF OutboxInv, Status!NewestIsTold
  <2>5. CASE worker' = [worker EXCEPT !.pc = "mark"]
    <3>1. worker' \in Workers /\ worker'.pending = {m} /\ worker'.pc = "mark"
      BY <1>3, <1>4, <2>5 DEF Workers
    <3>2. InHand'
      BY <1>1, <1>6, <2>1, <3>1 DEF InHand
    <3>3. ToldKept'
      BY <1>1, <1>5, <2>1, <2>3, <3>1 DEF ToldKept
    <3> QED
      BY <1>1, <1>7, <2>1, <2>4, <3>1, <3>2, <3>3 DEF OutboxInv, StatusTyped
  <2>6. CASE worker' = Status!Idle /\ m \in statesInDoubt'
    <3>1. worker' \in Workers /\ worker'.pending = {} /\ worker'.pc = "idle"
      BY <2>6 DEF Status!Idle, Workers
    <3>2. InHand' /\ ToldKept'
      BY <1>1, <1>5, <2>1, <2>3, <2>6, <3>1 DEF InHand, ToldKept
    <3> QED
      BY <1>1, <1>7, <2>1, <2>4, <3>1, <3>2 DEF OutboxInv, StatusTyped
  <2> QED
    BY <1>2, <1>10, <2>1, <2>5, <2>6
<1> QED
  BY <1>2, <1>8, <1>9, <1>10

\* Only the place that still says what was told is marked: a later update has a higher revision.
LEMMA MarkStep ==
    ASSUME MaxRevision \in Nat \ {0}, OutboxInv, Status!MarkNotified PROVE OutboxInv'
<1>1. worker.pc = "mark" /\ UNCHANGED <<statesTold, waived>>
  BY DEF Status!MarkNotified
<1>2. PICK m \in worker.pending :
         \/ /\ updates' = [i \in DOMAIN updates |->
                             IF Status!SamePending(updates[i], m) THEN [updates[i] EXCEPT !.notified = TRUE]
                             ELSE updates[i]]
            /\ worker' = [worker EXCEPT !.pc = "take", !.pending = {}] /\ UNCHANGED statesInDoubt
         \/ worker' = Status!Idle /\ statesInDoubt' = statesInDoubt \cup {m} /\ UNCHANGED updates
  BY DEF Status!MarkNotified
<1>3. /\ worker \in Workers /\ m \in Status!Message /\ updates \in Seq(Status!StatusUpdate)
      /\ DOMAIN updates = 1..Len(updates) /\ Len(updates) \in Nat
      /\ \A i \in DOMAIN updates : updates[i] \in Status!StatusUpdate
  BY DEF OutboxInv, StatusTyped, Workers
<1>4. worker.pending = {m} /\ (statesTold[m] > 0 \/ m \in waived)
  BY <1>1 DEF OutboxInv, InHand
<1>5. PICK k \in DOMAIN updates :
         Overtakes(updates[k], m) \/ (Status!Key(updates[k]) = m /\ ~updates[k].notified)
  BY DEF OutboxInv, InHand
<1>6. \A i \in DOMAIN updates : Status!SamePending(updates[i], m) => i = k /\ Status!Key(updates[i]) = m
  <2> SUFFICES ASSUME NEW i \in DOMAIN updates, Status!SamePending(updates[i], m)
               PROVE  i = k /\ Status!Key(updates[i]) = m
    OBVIOUS
  <2>1. updates[k].request = m.request
    BY <1>5 DEF Overtakes, Status!Key
  <2>2. i = k
    BY <2>1 DEF Status!SamePending, OutboxInv, OnePlace
  <2> QED
    BY <1>3, <1>5, <2>2 DEF Status!SamePending, Overtakes, Status!Message
<1>7. CASE /\ updates' = [i \in DOMAIN updates |->
                            IF Status!SamePending(updates[i], m) THEN [updates[i] EXCEPT !.notified = TRUE]
                            ELSE updates[i]]
           /\ worker' = [worker EXCEPT !.pc = "take", !.pending = {}] /\ UNCHANGED statesInDoubt
  <2>1. worker' \in Workers /\ worker'.pending = {} /\ worker'.pc = "take"
    BY <1>3, <1>7 DEF Workers
  <2>2. \A i \in DOMAIN updates : [updates[i] EXCEPT !.notified = TRUE] \in Status!StatusUpdate
    BY <1>3 DEF Status!StatusUpdate
  <2>3. DOMAIN updates' = DOMAIN updates /\ updates' \in Seq(Status!StatusUpdate)
    BY <1>3, <1>7, <2>2
  <2>4. \A i \in DOMAIN updates :
           /\ Status!Key(updates'[i]) = Status!Key(updates[i]) /\ updates'[i].request = updates[i].request
           /\ updates'[i].revision = updates[i].revision
           /\ updates'[i].notified = (updates[i].notified \/ Status!SamePending(updates[i], m))
    <3> SUFFICES ASSUME NEW i \in DOMAIN updates
                 PROVE  /\ Status!Key(updates'[i]) = Status!Key(updates[i])
                        /\ updates'[i].request = updates[i].request
                        /\ updates'[i].revision = updates[i].revision
                        /\ updates'[i].notified = (updates[i].notified \/ Status!SamePending(updates[i], m))
      OBVIOUS
    <3>1. updates[i] \in Status!StatusUpdate
      BY <1>3
    <3>2. CASE Status!SamePending(updates[i], m)
      BY <1>7, <3>1, <3>2 DEF Status!StatusUpdate, Status!Key
    <3>3. CASE ~Status!SamePending(updates[i], m)
      BY <1>7, <3>1, <3>3 DEF Status!StatusUpdate, Status!Key
    <3> QED
      BY <3>2, <3>3
  <2>5. OnePlace' /\ InHand'
    BY <2>1, <2>3, <2>4 DEF OutboxInv, OnePlace, InHand
  <2>6. Status!NewestIsTold'
    <3>1. \A i \in DOMAIN updates : updates'[i].notified => statesTold[Status!Key(updates[i])] > 0
                                                             \/ Status!Key(updates[i]) \in waived
      <4> SUFFICES ASSUME NEW i \in DOMAIN updates, updates'[i].notified
                   PROVE  statesTold[Status!Key(updates[i])] > 0 \/ Status!Key(updates[i]) \in waived
        OBVIOUS
      <4>1. updates[i].notified \/ Status!SamePending(updates[i], m)
        BY <2>4
      <4>2. CASE updates[i].notified
        BY <4>2 DEF OutboxInv, Status!NewestIsTold
      <4>3. CASE Status!SamePending(updates[i], m)
        <5>1. Status!Key(updates[i]) = m
          BY <1>6, <4>3
        <5> QED
          BY <1>4, <5>1
      <4> QED
        BY <4>1, <4>2, <4>3
    <3>2. \A i \in DOMAIN updates' : updates'[i].notified => statesTold'[Status!Key(updates'[i])] > 0
                                                             \/ Status!Key(updates'[i]) \in waived'
      BY <1>1, <2>3, <2>4, <3>1
    <3> QED
      BY <1>1, <1>7, <3>2 DEF OutboxInv, Status!NewestIsTold
  <2>7. ToldKept'
    <3> SUFFICES ASSUME NEW n \in Status!Message \ statesInDoubt, statesTold[n] > 0
                 PROVE  \E i \in DOMAIN updates' :
                           Overtakes(updates'[i], n) \/ (Status!Key(updates'[i]) = n /\ updates'[i].notified)
      BY <1>1, <1>7 DEF ToldKept
    <3>1. CASE n = m
      <4>1. Status!Key(updates[k]) = m => Status!SamePending(updates[k], m)
        BY DEF Status!Key, Status!SamePending
      <4> QED
        BY <1>5, <2>3, <2>4, <3>1, <4>1 DEF Overtakes
    <3>2. CASE n # m
      <4>1. PICK i \in DOMAIN updates :
               Overtakes(updates[i], n) \/ (Status!Key(updates[i]) = n /\ updates[i].notified)
        BY <1>4, <3>2 DEF OutboxInv, ToldKept
      <4> QED
        BY <2>3, <2>4, <4>1 DEF Overtakes
    <3> QED
      BY <3>1, <3>2
  <2> QED
    BY <1>1, <2>1, <2>3, <2>5, <2>6, <2>7 DEF OutboxInv, StatusTyped
<1>8. CASE worker' = Status!Idle /\ statesInDoubt' = statesInDoubt \cup {m} /\ UNCHANGED updates
  <2>1. worker' \in Workers /\ worker'.pending = {} /\ worker'.pc = "idle"
    BY <1>8 DEF Status!Idle, Workers
  <2>2. ToldKept'
    BY <1>1, <1>4, <1>8 DEF OutboxInv, ToldKept
  <2> QED
    BY <1>1, <1>8, <2>1, <2>2 DEF OutboxInv, StatusTyped, OnePlace, InHand, Status!NewestIsTold
<1> QED
  BY <1>2, <1>7, <1>8

\* A restart forgets what the worker was about.
LEMMA StatusRestart ==
    ASSUME MaxRevision \in Nat \ {0}, OutboxInv, Status!Restart PROVE OutboxInv'
<1>1. /\ worker' = Status!Idle /\ UNCHANGED <<updates, statesTold, waived>>
      /\ statesInDoubt' = IF worker.pc = "mark" THEN statesInDoubt \cup worker.pending ELSE statesInDoubt
  BY DEF Status!Restart
<1>2. worker' \in Workers /\ worker'.pending = {} /\ worker'.pc = "idle"
  BY <1>1 DEF Status!Idle, Workers
<1>3. ToldKept'
  BY <1>1, <1>2 DEF OutboxInv, ToldKept
<1> QED
  BY <1>1, <1>2, <1>3 DEF OutboxInv, StatusTyped, OnePlace, InHand, Status!NewestIsTold

\* The other parts leave this one alone.
LEMMA StatusKept == ASSUME OutboxInv, [Next]_vars PROVE OutboxInv'
<1>1. CASE Status!Next
  BY <1>1, ConstantsOK, NotifyStep, StatusOutside, CheckStep, TakeStep, SendStep, MarkStep,
     StatusRestart DEF Status!Next
<1>2. CASE UNCHANGED statusVars
  BY <1>2 DEF statusVars, OutboxInv, StatusTyped, OnePlace, InHand, ToldKept, Status!NewestIsTold
<1> QED
  BY <1>1, <1>2 DEF Next, vars, SummaryStep, DigestStep, RadarStep, StatusStep, ChoiceStep, ClientStep,
      ReminderStep

\* What the file marks as told was told in that state (processPendingNotifications, markNotified),
\* and nothing is told twice unless the file could not know that it was.
THEOREM ToldInTheNewestState == Spec => []NewestIsTold
<1>1. Init => OutboxInv
  BY StatusInit DEF Init
<1>2. OutboxInv /\ [Next]_vars => OutboxInv'
  BY StatusKept
<1>3. OutboxInv => NewestIsTold
  BY DEF OutboxInv, NewestIsTold
<1> QED
  BY <1>1, <1>2, <1>3, PTL DEF Spec

-----------------------------------------------------------------------------
(***************************************************************************)
(* The radar: no season is passed over.                                    *)
(***************************************************************************)

\* The part of the type that the argument needs; the counters of faults do not matter to it.
RadarTyped ==
    /\ aired \in 0..MaxSeason
    /\ known \in [Radar!Stores -> {Radar!Untracked} \cup Nat]
    /\ track \in [pc : {"idle", "fetch", "store"}, latest : 0..MaxSeason]
    /\ scan \in [pc : {"idle", "fetch", "tell", "store"}, item : Nat, latest : 0..MaxSeason]
    /\ seasonsTold \in [Radar!Seasons -> Nat]
    /\ settled \subseteq Int /\ seasonsInDoubt \subseteq Radar!Seasons

Accounted(n) == \A s \in 1..n : seasonsTold[s] > 0 \/ s \in settled

\* Every count there is, the copy of the scan included, covers accounted seasons only.
CountsCovered ==
    /\ Accounted(known["memory"]) /\ Accounted(known["file"])
    /\ scan.pc # "idle" => Accounted(scan.item)

\* A season the file knows was told is not above the count the next scan starts from, or above the
\* one the scan under way has reached.
ToldBehind ==
    /\ scan.pc = "idle"  => \A s \in Radar!Seasons \ seasonsInDoubt : seasonsTold[s] > 0 => s <= known["memory"]
    /\ scan.pc # "idle"  => \A s \in Radar!Seasons \ seasonsInDoubt : seasonsTold[s] > 0 => s <= scan.item
    /\ scan.pc = "fetch" => scan.item <= known["memory"]

SeasonsToldOnce == \A s \in Radar!Seasons \ seasonsInDoubt : seasonsTold[s] <= 1

RadarInv == RadarTyped /\ CountsCovered /\ ToldBehind /\ SeasonsToldOnce
-----------------------------------------------------------------------------
LEMMA RadarInit == ASSUME MaxSeason \in Nat \ {0} PROVE Radar!Init => RadarInv
  BY DEF Radar!Init, RadarInv, RadarTyped, CountsCovered, Accounted, ToldBehind, SeasonsToldOnce,
         Radar!Stores, Radar!Untracked, Radar!Idle, Radar!Seasons

\* What saveLocked leaves in the two stores.
LEMMA SaveEffect ==
    ASSUME RadarTyped, NEW n \in Nat, Radar!Save(n)
    PROVE  /\ known' \in [Radar!Stores -> {Radar!Untracked} \cup Nat]
           /\ known'["memory"] = n /\ known'["file"] \in {n, known["file"]}
  BY DEF RadarTyped, Radar!Save, Radar!Stores

\* Seasons that air, the switch, and the goroutine up to its answer change no count.
LEMMA RadarOutside ==
    ASSUME MaxSeason \in Nat \ {0}, RadarInv, Radar!SeasonAirs \/ Radar!Toggle \/ Radar!TrackTV \/ Radar!TrackFetch
    PROVE  RadarInv'
<1>1. UNCHANGED <<known, scan, seasonsTold, settled, seasonsInDoubt>>
  BY DEF Radar!SeasonAirs, Radar!Toggle, Radar!TrackTV, Radar!TrackFetch
<1>2. RadarTyped'
  BY DEF RadarInv, RadarTyped, Radar!SeasonAirs, Radar!Toggle, Radar!TrackTV, Radar!TrackFetch
<1> QED
  BY <1>1, <1>2 DEF RadarInv, CountsCovered, Accounted, ToldBehind, SeasonsToldOnce

\* A request raises the count, and the seasons it counts are settled.
LEMMA TrackStep ==
    ASSUME MaxSeason \in Nat \ {0}, RadarInv, Radar!Track PROVE RadarInv'
<1> DEFINE new == Radar!Observed(known["memory"], track.latest)
<1>1. /\ new \in Nat /\ new >= known["memory"]
      /\ new = known["memory"] \/ new = track.latest
  BY DEF RadarInv, RadarTyped, Radar!Observed, Radar!Stores, Radar!Untracked
<1>2. /\ settled' = settled \cup 1..track.latest /\ track.latest \in 0..MaxSeason
      /\ track' = [pc |-> "idle", latest |-> 0] /\ Radar!Save(new)
      /\ UNCHANGED <<aired, scan, seasonsTold, seasonsInDoubt>>
  BY DEF Radar!Track, RadarInv, RadarTyped
<1>3. known' \in [Radar!Stores -> {Radar!Untracked} \cup Nat]
      /\ known'["memory"] = new /\ known'["file"] \in {new, known["file"]}
  BY <1>1, <1>2, SaveEffect DEF RadarInv
<1> HIDE DEF new
<1>4. RadarTyped'
  <2>1. settled' \subseteq Int
    <3>1. 1..track.latest \subseteq Int
      OBVIOUS
    <3> QED
      BY <1>2, <3>1 DEF RadarInv, RadarTyped
  <2>2. track' \in [pc : {"idle", "fetch", "store"}, latest : 0..MaxSeason]
    BY <1>2
  <2> QED
    BY <1>2, <1>3, <2>1, <2>2 DEF RadarInv, RadarTyped
<1>5. \A n \in Int : Accounted(n) => Accounted(n)'
  BY <1>2 DEF Accounted
<1>6. Accounted(track.latest)'
  BY <1>2 DEF Accounted
<1>7. CountsCovered'
  BY <1>1, <1>2, <1>3, <1>6 DEF RadarInv, CountsCovered, Accounted
<1>8. ToldBehind' /\ SeasonsToldOnce'
  BY <1>1, <1>2, <1>3 DEF RadarInv, RadarTyped, ToldBehind, SeasonsToldOnce, Radar!Stores,
       Radar!Untracked, Radar!Seasons
<1> QED
  BY <1>4, <1>7, <1>8 DEF RadarInv
-----------------------------------------------------------------------------
\* A scan starts from the count of memory, and an answer that never came ends it.
LEMMA ScanItemStep ==
    ASSUME MaxSeason \in Nat \ {0}, RadarInv, Radar!ScanItem PROVE RadarInv'
<1>1. /\ scan.pc = "idle" /\ known["memory"] \in Nat
      /\ scan' = [pc |-> "fetch", item |-> known["memory"], latest |-> 0]
      /\ UNCHANGED <<aired, known, track, seasonsTold, settled, seasonsInDoubt>>
  BY DEF Radar!ScanItem, Radar!Idle, RadarInv, RadarTyped, Radar!Stores, Radar!Untracked
<1> QED
  BY <1>1 DEF RadarInv, RadarTyped, CountsCovered, Accounted, ToldBehind, SeasonsToldOnce

\* To a user who wants to hear of none the seasons that came are settled.
LEMMA ScanFetchStep ==
    ASSUME MaxSeason \in Nat \ {0}, RadarInv, Radar!ScanFetch PROVE RadarInv'
<1>1. scan.pc = "fetch" /\ UNCHANGED <<aired, known, track, seasonsTold, seasonsInDoubt>>
  BY DEF Radar!ScanFetch
<1>2. CASE enabled /\ scan' = [scan EXCEPT !.pc = "tell", !.latest = aired] /\ UNCHANGED settled
  BY <1>1, <1>2 DEF RadarInv, RadarTyped, CountsCovered, Accounted, ToldBehind, SeasonsToldOnce
<1>3. CASE /\ scan' = [scan EXCEPT !.pc = "store", !.item = IF aired > @ THEN aired ELSE @]
           /\ settled' = settled \cup (scan.item + 1)..aired
  <2>1. /\ scan'.item = IF aired > scan.item THEN aired ELSE scan.item
        /\ scan'.pc = "store" /\ scan'.latest = scan.latest
    BY <1>3 DEF RadarInv, RadarTyped
  <2>2. RadarTyped'
    <3>1. settled' \subseteq Int
      BY <1>3 DEF RadarInv, RadarTyped
    <3>2. scan' \in [pc : {"idle", "fetch", "tell", "store"}, item : Nat, latest : 0..MaxSeason]
      <4>1. (IF aired > scan.item THEN aired ELSE scan.item) \in Nat
        BY DEF RadarInv, RadarTyped
      <4> QED
        BY <1>3, <4>1 DEF RadarInv, RadarTyped
    <3> QED
      BY <1>1, <3>1, <3>2 DEF RadarInv, RadarTyped
  <2>3. Accounted(scan.item)
    BY <1>1 DEF RadarInv, CountsCovered
  <2>4. Accounted(scan.item)'
    BY <1>1, <1>3, <2>1, <2>3 DEF RadarInv, RadarTyped, Accounted
  <2>5. CountsCovered'
    BY <1>1, <1>3, <2>4 DEF RadarInv, RadarTyped, CountsCovered, Accounted
  <2>6. ToldBehind' /\ SeasonsToldOnce'
    BY <1>1, <2>1 DEF RadarInv, RadarTyped, ToldBehind, SeasonsToldOnce, Radar!Seasons
  <2> QED
    BY <2>2, <2>5, <2>6 DEF RadarInv
<1>4. CASE scan' = Radar!Idle /\ UNCHANGED settled
  <2>1. scan' = [pc |-> "idle", item |-> 0, latest |-> 0]
    BY <1>4 DEF Radar!Idle
  <2>2. ToldBehind'
    BY <1>1, <2>1 DEF RadarInv, RadarTyped, ToldBehind, Radar!Stores, Radar!Untracked, Radar!Seasons
  <2> QED
    BY <1>1, <1>4, <2>1, <2>2 DEF RadarInv, RadarTyped, CountsCovered, Accounted, SeasonsToldOnce
<1> QED
  BY <1>2, <1>3, <1>4 DEF Radar!ScanFetch

\* The scan tells the season after the one it has reached, and stops where it cannot.
LEMMA TellStep ==
    ASSUME MaxSeason \in Nat \ {0}, RadarInv, Radar!Notify PROVE RadarInv'
<1> DEFINE s == scan.item + 1
<1>1. /\ scan.pc = "tell" /\ s \in Nat \ {0} /\ scan.item \in Nat /\ scan.latest \in 0..MaxSeason
      /\ UNCHANGED <<aired, known, track>>
  BY DEF Radar!Notify, RadarInv, RadarTyped
<1>2. CASE scan' = [scan EXCEPT !.pc = "store"] /\ UNCHANGED <<seasonsTold, settled, seasonsInDoubt>>
  BY <1>1, <1>2 DEF RadarInv, RadarTyped, CountsCovered, Accounted, ToldBehind, SeasonsToldOnce
<1>3. CASE /\ s <= scan.latest /\ scan' = [scan EXCEPT !.item = s]
           /\ settled' = settled \cup {s} /\ UNCHANGED <<seasonsTold, seasonsInDoubt>>
  <2>1. scan' = [scan EXCEPT !.item = s] /\ scan'.pc = "tell" /\ scan'.item = s
    BY <1>1, <1>3 DEF RadarInv, RadarTyped
  <2>2. RadarTyped'
    BY <1>1, <1>3, <2>1 DEF RadarInv, RadarTyped
  <2>3. CountsCovered'
    BY <1>1, <1>3, <2>1 DEF RadarInv, RadarTyped, CountsCovered, Accounted
  <2>4. ToldBehind' /\ SeasonsToldOnce'
    BY <1>1, <1>3, <2>1 DEF RadarInv, RadarTyped, ToldBehind, SeasonsToldOnce, Radar!Seasons
  <2> QED
    BY <2>2, <2>3, <2>4 DEF RadarInv
<1>4. CASE /\ s <= scan.latest /\ seasonsTold' = [seasonsTold EXCEPT ![s] = @ + 1] /\ UNCHANGED settled
           /\ \/ scan' = [scan EXCEPT !.item = s] /\ UNCHANGED seasonsInDoubt
              \/ scan' = [scan EXCEPT !.pc = "store"] /\ seasonsInDoubt' = seasonsInDoubt \cup {s}
  <2>1. s \in Radar!Seasons
    BY <1>1, <1>4 DEF Radar!Seasons
  <2>2. /\ seasonsTold' \in [Radar!Seasons -> Nat] /\ seasonsTold'[s] = seasonsTold[s] + 1
        /\ \A t \in Radar!Seasons : t # s => seasonsTold'[t] = seasonsTold[t]
    BY <1>4, <2>1 DEF RadarInv, RadarTyped
  <2>3. s \in seasonsInDoubt \/ seasonsTold[s] = 0
    BY <1>1, <2>1 DEF RadarInv, RadarTyped, ToldBehind
  <2>4. \/ scan'.pc = "tell" /\ scan'.item = s /\ scan'.latest = scan.latest /\ UNCHANGED seasonsInDoubt
        \/ /\ scan'.pc = "store" /\ scan'.item = scan.item /\ scan'.latest = scan.latest
           /\ seasonsInDoubt' = seasonsInDoubt \cup {s}
    BY <1>1, <1>4 DEF RadarInv, RadarTyped
  <2>5. RadarTyped'
    BY <1>1, <1>4, <2>1, <2>2 DEF RadarInv, RadarTyped
  <2>6. seasonsTold'[s] > 0 /\ \A n \in Int : Accounted(n) => Accounted(n)'
    <3>1. \A t \in DOMAIN seasonsTold : seasonsTold[t] > 0 => seasonsTold'[t] > 0
      BY <2>1, <2>2 DEF RadarInv, RadarTyped
    <3>2. \A t : t \notin DOMAIN seasonsTold => seasonsTold'[t] = seasonsTold[t]
      BY <1>4, <2>1, <2>2 DEF RadarInv, RadarTyped
    <3> QED
      BY <1>4, <2>1, <2>2, <3>1, <3>2 DEF RadarInv, RadarTyped, Accounted
  <2>7. CountsCovered'
    <3>1. known["memory"] \in Int /\ known["file"] \in Int
      BY DEF RadarInv, RadarTyped, Radar!Stores, Radar!Untracked
    <3>2. Accounted(known["memory"])' /\ Accounted(known["file"])'
      BY <1>1, <2>6, <3>1 DEF RadarInv, CountsCovered, Accounted
    <3>3. Accounted(scan.item)
      BY <1>1 DEF RadarInv, CountsCovered
    <3>4. \A t \in 1..scan.item : seasonsTold'[t] > 0 \/ t \in settled'
      BY <1>1, <2>6, <3>3 DEF Accounted
    <3>5. Accounted(scan.item)'
      BY <1>1, <2>4, <2>6, <3>4 DEF Accounted
    <3> QED
      BY <3>2, <3>5 DEF CountsCovered
  <2>8. ToldBehind'
    <3>1. \A t \in Radar!Seasons \ seasonsInDoubt : seasonsTold[t] > 0 => t <= scan.item
      BY <1>1 DEF RadarInv, ToldBehind
    <3>2. \A t \in Radar!Seasons \ seasonsInDoubt' : seasonsTold'[t] > 0 => t <= scan'.item
      BY <1>1, <2>1, <2>2, <2>4, <3>1 DEF Radar!Seasons
    <3> QED
      BY <2>4, <3>2 DEF ToldBehind
  <2>9. SeasonsToldOnce'
    BY <2>1, <2>2, <2>3, <2>4 DEF RadarInv, RadarTyped, SeasonsToldOnce
  <2> QED
    BY <2>5, <2>7, <2>8, <2>9 DEF RadarInv
<1> QED
  BY <1>2, <1>3, <1>4 DEF Radar!Notify, Radar!StopAt

\* The copy takes the place of the record: it has reached every season the scan told.
LEMMA ScanStoreStep ==
    ASSUME MaxSeason \in Nat \ {0}, RadarInv, Radar!ScanStore PROVE RadarInv'
<1>1. /\ scan.pc = "store" /\ scan.item \in Nat /\ Radar!Save(scan.item)
      /\ scan' = [pc |-> "idle", item |-> 0, latest |-> 0]
      /\ UNCHANGED <<aired, track, seasonsTold, settled, seasonsInDoubt>>
  BY DEF Radar!ScanStore, Radar!Idle, RadarInv, RadarTyped
<1>2. /\ known' \in [Radar!Stores -> {Radar!Untracked} \cup Nat]
      /\ known'["memory"] = scan.item /\ known'["file"] \in {scan.item, known["file"]}
  BY <1>1, SaveEffect DEF RadarInv
<1> QED
  BY <1>1, <1>2 DEF RadarInv, RadarTyped, CountsCovered, Accounted, ToldBehind, SeasonsToldOnce

\* After a restart what was told above the count of the file is in doubt.
LEMMA RadarRestart ==
    ASSUME MaxSeason \in Nat \ {0}, RadarInv, Radar!Restart PROVE RadarInv'
<1>1. /\ known' = [known EXCEPT !["memory"] = known["file"]]
      /\ seasonsInDoubt' = seasonsInDoubt \cup {s \in Radar!Seasons : seasonsTold[s] > 0 /\ s > known["file"]}
      /\ track' = [pc |-> "idle", latest |-> 0]
      /\ scan' = [pc |-> "idle", item |-> 0, latest |-> 0]
      /\ UNCHANGED <<aired, seasonsTold, settled>>
  BY DEF Radar!Restart, Radar!Idle
<1>2. known'["memory"] = known["file"] /\ known'["file"] = known["file"]
  BY <1>1 DEF RadarInv, RadarTyped, Radar!Stores
<1>3. RadarTyped'
  BY <1>1 DEF RadarInv, RadarTyped, Radar!Stores
<1>4. CountsCovered'
  BY <1>1, <1>2 DEF RadarInv, CountsCovered, Accounted
<1>5. ToldBehind' /\ SeasonsToldOnce'
  BY <1>1, <1>2 DEF RadarInv, RadarTyped, ToldBehind, SeasonsToldOnce, Radar!Stores,
       Radar!Untracked, Radar!Seasons
<1> QED
  BY <1>3, <1>4, <1>5 DEF RadarInv

\* The other parts leave this one alone.
LEMMA RadarKept == ASSUME RadarInv, [Next]_vars PROVE RadarInv'
<1>1. CASE Radar!Next
  BY <1>1, ConstantsOK, RadarOutside, TrackStep, ScanItemStep, ScanFetchStep, TellStep,
     ScanStoreStep, RadarRestart DEF Radar!Next
<1>2. CASE UNCHANGED radarVars
  BY <1>2 DEF radarVars, RadarInv, RadarTyped, CountsCovered, Accounted, ToldBehind, SeasonsToldOnce
<1> QED
  BY <1>1, <1>2 DEF Next, vars, SummaryStep, DigestStep, RadarStep, StatusStep, ChoiceStep, ClientStep,
      ReminderStep

\* No season is passed over, and she is told of each once (Scan, TrackTV): the record counts only
\* what was told or settled, whatever fails and whenever the program stops.
THEOREM NonePassedOver == Spec => []NoSeasonSkipped
<1>1. Init => RadarInv
  BY ConstantsOK, RadarInit DEF Init
<1>2. RadarInv /\ [Next]_vars => RadarInv'
  BY RadarKept
<1>3. RadarInv => NoSeasonSkipped
  BY DEF RadarInv, CountsCovered, Accounted, SeasonsToldOnce, NoSeasonSkipped, Radar!NoSeasonSkipped
<1> QED
  BY <1>1, <1>2, <1>3, PTL DEF Spec

-----------------------------------------------------------------------------
(***************************************************************************)
(* The client of MoviePilot: a title is followed once, and searched for.   *)
(***************************************************************************)

Searches == [cooling : BOOLEAN, pending : BOOLEAN, timer : {"none", "set", "due"}]

\* The part of the type that the argument needs.
ClientTyped ==
    /\ stage \in [Calls -> {"idle", "sent", "made", "dropping", "answered", "failed"}]
    /\ attempts \in [Calls -> Nat] /\ made \in [Calls -> Nat]
    /\ search \in Searches
    /\ firing \in Nat

\* A call that was not served has made nothing, and none makes anything twice.
MadeOnce ==
    \A c \in Calls : made[c] <= 1 /\ (stage[c] \in {"idle", "sent"} => made[c] = 0)

\* From the moment the list cache was dropped, it and what warms it up list the subscription.
CachesList ==
    \A c \in Client!Listed : stage[c] \in {"dropping", "answered"} =>
        /\ listCache # Unknown => c \in listCache
        /\ warming # Unknown => c \in warming

ClientInv == ClientTyped /\ MadeOnce /\ CachesList /\ Client!SearchNotLost
-----------------------------------------------------------------------------
LEMMA ClientInit == Client!Init => ClientInv
  BY DEF Client!Init, ClientInv, ClientTyped, Searches, MadeOnce, CachesList, Client!SearchNotLost

\* What a call does before its answer; the caches and the searches stay as they are.
LEMMA PostStep ==
    ASSUME ClientInv, NEW c \in Calls,
           \/ Client!RequestMedia(c) \/ Client!Served(c) \/ Client!Lost(c) \/ Client!Declined(c)
           \/ Client!CancelSubscription(c)
    PROVE  ClientInv'
<1>1. UNCHANGED <<listCache, warming, search, triggers, firing, owed>>
  BY DEF Client!RequestMedia, Client!Served, Client!Lost, Client!Declined,
         Client!CancelSubscription, Client!caches, Client!searching
<1>2. PICK s \in {"sent", "made", "failed"} :
         /\ \/ UNCHANGED stage
            \/ stage[c] \in {"idle", "sent"} /\ stage' = [stage EXCEPT ![c] = s]
         /\ \/ UNCHANGED made
            \/ /\ made' = [made EXCEPT ![c] = @ + 1] /\ stage[c] = "sent"
               /\ s # "sent" /\ stage' = [stage EXCEPT ![c] = s]
         /\ stage[c] = "idle" /\ stage' # stage => UNCHANGED made
         /\ attempts' \in [Calls -> Nat] /\ cancelled \subseteq cancelled'
  <2>1. ~Client!Resends(c)
    BY DEF Client!Resends, Client!RequestIsIdempotentMethod
  <2> QED
    BY <2>1 DEF Client!RequestMedia, Client!Served, Client!Lost, Client!Declined,
         Client!CancelSubscription, Client!To, Client!Makes, Client!server, ClientInv, ClientTyped
<1>3. ClientTyped'
  BY <1>1, <1>2 DEF ClientInv, ClientTyped
<1>4. MadeOnce'
  BY <1>2 DEF ClientInv, ClientTyped, MadeOnce
<1>5. \A d \in Client!Listed' : stage'[d] \in {"dropping", "answered"} =>
         d \in Client!Listed /\ stage[d] \in {"dropping", "answered"}
  BY <1>2 DEF ClientInv, ClientTyped, Client!Listed
<1>6. CachesList' /\ Client!SearchNotLost'
  BY <1>1, <1>5 DEF ClientInv, CachesList, Client!SearchNotLost
<1> QED
  BY <1>3, <1>4, <1>6 DEF ClientInv

\* The list cache is dropped when nobody warms it up, then the other one.
LEMMA InvalidateStep ==
    ASSUME ClientInv, NEW c \in Calls, Client!InvalidateList(c) \/ Client!InvalidateStatuses(c)
    PROVE  ClientInv'
<1>1. CASE Client!InvalidateList(c)
  <2>1. /\ stage[c] = "made" /\ stage' = [stage EXCEPT ![c] = "dropping"]
        /\ listCache' = Unknown /\ warming = Unknown /\ warming' = Unknown
        /\ UNCHANGED <<attempts, made, cancelled, search, triggers, firing, owed>>
    BY <1>1 DEF Client!InvalidateList, Client!ListIsFree, Client!To, Client!server, Client!searching
  <2> QED
    BY <2>1 DEF ClientInv, ClientTyped, MadeOnce, CachesList, Client!SearchNotLost
<1>2. CASE Client!InvalidateStatuses(c)
  <2>1. /\ stage[c] = "dropping" /\ stage' = [stage EXCEPT ![c] = "answered"]
        /\ triggers' = triggers \cup {c} /\ owed' = owed \cup {c}
        /\ UNCHANGED <<attempts, made, cancelled, listCache, warming, search, firing>>
    BY <1>2 DEF Client!InvalidateStatuses, Client!To, Client!server
  <2>2. Client!Listed' = Client!Listed
    BY <2>1 DEF Client!Listed
  <2> QED
    BY <2>1, <2>2 DEF ClientInv, ClientTyped, MadeOnce, CachesList, Client!SearchNotLost
<1> QED
  BY <1>1, <1>2

\* What is fetched to warm up the list cache lists what there is.
LEMMA CachingStep ==
    ASSUME ClientInv, Client!Caching PROVE ClientInv'
<1>1. /\ UNCHANGED <<stage, attempts, made, cancelled, search, triggers, firing, owed>>
      /\ \/ UNCHANGED <<listCache, warming>>
         \/ warming' = Client!Listed /\ UNCHANGED listCache
         \/ listCache' \in {listCache, warming} /\ warming # Unknown /\ warming' = Unknown
         \/ listCache' = Unknown /\ UNCHANGED warming
  BY DEF Client!Caching, Client!PreWarmSubscriptionCache, Client!Warmed, Client!Expire,
         Client!FetchSubscriptionStatusSnapshot, Client!StoreSubscriptionStatuses,
         Client!server, Client!searching
<1>2. Client!Listed' = Client!Listed
  BY <1>1 DEF Client!Listed
<1> QED
  BY <1>1, <1>2 DEF ClientInv, ClientTyped, MadeOnce, CachesList, Client!SearchNotLost

\* What the search triggers do to their record.
LEMMA MergedRecord ==
    ASSUME NEW s \in Searches
    PROVE  /\ Client!Merged(s) \in Searches /\ Client!Merged(s).pending
           /\ Client!Merged(s).timer # "none"
  BY DEF Searches, Client!Merged

LEMMA FiredRecord ==
    ASSUME NEW s \in Searches
    PROVE  /\ Client!Fires(s) \in Searches
           /\ [s EXCEPT !.timer = "none"] \in Searches
           /\ [Client!Fires(s) EXCEPT !.timer = "none", !.pending = FALSE] \in Searches
  BY DEF Searches, Client!Fires

\* A cooldown that ends leaves what is pending to the timer.
LEMMA CooldownRecord ==
    ASSUME NEW s \in Searches,
           NEW t, t = [s EXCEPT !.cooling = FALSE, !.timer = IF @ = "set" THEN "due" ELSE @]
    PROVE  t \in Searches /\ t.pending = s.pending /\ (s.timer # "none" => t.timer # "none")
  BY DEF Searches

\* A trigger starts a search or is merged into one that the timer will start.
LEMMA SearchingStep ==
    ASSUME ClientInv, Client!Searching PROVE ClientInv'
<1>1. UNCHANGED <<stage, attempts, made, cancelled, listCache, warming>>
  BY DEF Client!Searching, Client!TriggerSubscriptionSearch, Client!CooldownEnds,
         Client!FlushPendingSubscriptionSearch, Client!FireSubscriptionSearchWithRetry,
         Client!server, Client!caches
<1>2. MadeOnce' /\ CachesList'
  BY <1>1 DEF ClientInv, MadeOnce, CachesList, Client!Listed
<1>3. ASSUME NEW c \in Calls, Client!TriggerSubscriptionSearch(c)
      PROVE  ClientTyped' /\ Client!SearchNotLost'
  <2>1. /\ triggers' = triggers \ {c} /\ owed' = owed
        /\ \/ search' = Client!Merged(search) /\ firing' = firing
           \/ search' = Client!Fires(search) /\ firing' = firing + 1
    BY <1>3 DEF Client!TriggerSubscriptionSearch
  <2>2. CASE search' = Client!Merged(search) /\ firing' = firing
    <3>1. search' \in Searches /\ search'.pending /\ search'.timer # "none"
      BY <2>2, MergedRecord DEF ClientInv, ClientTyped
    <3>2. Client!SearchNotLost'
      BY <3>1 DEF Client!SearchNotLost
    <3>3. ClientTyped'
      BY <1>1, <2>2, <3>1 DEF ClientInv, ClientTyped
    <3> QED
      BY <3>2, <3>3
  <2>3. CASE search' = Client!Fires(search) /\ firing' = firing + 1
    <3>1. search \in Searches /\ firing \in Nat
      BY DEF ClientInv, ClientTyped
    <3>2. search' \in Searches
      BY <2>3, <3>1, FiredRecord
    <3>3. firing' \in Nat /\ firing' > 0
      BY <2>3, <3>1
    <3>4. Client!SearchNotLost'
      BY <3>3 DEF Client!SearchNotLost
    <3>5. ClientTyped'
      BY <1>1, <3>2, <3>3 DEF ClientInv, ClientTyped
    <3> QED
      BY <3>4, <3>5
  <2> QED
    BY <2>1, <2>2, <2>3
<1>4. CASE Client!CooldownEnds
  <2>1. /\ search' \in Searches /\ UNCHANGED <<triggers, firing, owed>>
        /\ search'.pending = search.pending /\ (search.timer # "none" => search'.timer # "none")
    <3>1. search \in Searches
      BY DEF ClientInv, ClientTyped
    <3>2. /\ search' = [search EXCEPT !.cooling = FALSE, !.timer = IF @ = "set" THEN "due" ELSE @]
          /\ UNCHANGED <<triggers, firing, owed>>
      BY <1>4 DEF Client!CooldownEnds
    <3> QED
      BY <3>1, <3>2, CooldownRecord
  <2>2. Client!SearchNotLost'
    BY <2>1 DEF ClientInv, Client!SearchNotLost
  <2> QED
    BY <1>1, <1>2, <2>1, <2>2 DEF ClientInv, ClientTyped
<1>5. CASE Client!FlushPendingSubscriptionSearch
  <2>1. UNCHANGED <<triggers, owed>>
    BY <1>5 DEF Client!FlushPendingSubscriptionSearch
  <2>2. /\ search' \in Searches /\ firing' \in Nat
        /\ search.pending => firing' > 0
        /\ firing > 0 => firing' > 0
    <3>1. search \in Searches /\ firing \in Nat
      BY DEF ClientInv, ClientTyped
    <3>2. CASE search.pending
      <4>1. /\ search' = [Client!Fires(search) EXCEPT !.timer = "none", !.pending = FALSE]
            /\ firing' = firing + 1
        BY <1>5, <3>2 DEF Client!FlushPendingSubscriptionSearch
      <4>2. search' \in Searches
        BY <3>1, <4>1, FiredRecord
      <4> QED
        BY <3>1, <4>1, <4>2
    <3>3. CASE ~search.pending
      <4>1. search' = [search EXCEPT !.timer = "none"] /\ firing' = firing
        BY <1>5, <3>3 DEF Client!FlushPendingSubscriptionSearch
      <4>2. search' \in Searches
        BY <3>1, <4>1, FiredRecord
      <4> QED
        BY <3>1, <3>3, <4>1, <4>2
    <3> QED
      BY <3>2, <3>3
  <2>3. Client!SearchNotLost'
    BY <2>1, <2>2 DEF ClientInv, Client!SearchNotLost
  <2> QED
    BY <1>1, <1>2, <2>2, <2>3 DEF ClientInv, ClientTyped
<1>6. CASE Client!FireSubscriptionSearchWithRetry
  <2>1. owed' = {} /\ firing' \in Nat /\ search' = search
    BY <1>6 DEF Client!FireSubscriptionSearchWithRetry, ClientInv, ClientTyped
  <2>2. Client!SearchNotLost'
    BY <2>1 DEF Client!SearchNotLost
  <2> QED
    BY <1>1, <1>2, <2>1, <2>2 DEF ClientInv, ClientTyped
<1> QED
  BY <1>2, <1>3, <1>4, <1>5, <1>6 DEF Client!Searching, ClientInv

\* The other parts leave this one alone.
LEMMA ClientKept == ASSUME ClientInv, [Next]_vars PROVE ClientInv'
<1>1. CASE Client!Next
  BY <1>1, PostStep, InvalidateStep, CachingStep, SearchingStep DEF Client!Next, Client!Step
<1>2. CASE UNCHANGED clientVars
  BY <1>2 DEF clientVars, ClientInv, ClientTyped, MadeOnce, CachesList, Client!Listed,
       Client!SearchNotLost
<1> QED
  BY <1>1, <1>2 DEF Next, vars, SummaryStep, DigestStep, RadarStep, StatusStep, ChoiceStep, ClientStep,
      ReminderStep

\* One call makes MoviePilot follow a title once (RetryHTTP repeats no POST), the lookup that keeps
\* users from asking twice sees it, and no subscription waits for a search that nobody will start
\* (TriggerSubscriptionSearch).
THEOREM FollowedOnceAndSearched == Spec => []FollowedAndSearched
<1>1. Init => ClientInv
  BY ClientInit DEF Init
<1>2. ClientInv /\ [Next]_vars => ClientInv'
  BY ClientKept
<1>3. ClientInv => FollowedAndSearched
  BY DEF ClientInv, ClientTyped, MadeOnce, CachesList, FollowedAndSearched,
         Client!FollowedAndSearched, Client!NoTitleTwice, Client!PostedOnce, Client!DuplicateIsSeen,
         Client!FindCachedSubscription, Client!Answered, Client!Listed
<1> QED
  BY <1>1, <1>2, <1>3, PTL DEF Spec

-----------------------------------------------------------------------------
(***************************************************************************)
(* The reminders: each comes once, and before what it is about is deleted. *)
(***************************************************************************)

Review == [status : {"none", "pending", "approved", "rejected", "deleted"}, since : Nat, notice : Nat,
           followup : BOOLEAN, overdue : BOOLEAN]

Passes == [pc : {"booted", "idle", "followup", "mark", "overdue", "report", "remember", "cleanup"},
           due : SUBSET Watched, sent : SUBSET Watched, cleans : BOOLEAN]

\* The part of the type that the argument needs.
ReminderTyped ==
    /\ day \in Nat \ {0}
    /\ ledger \in [Reminder!Stores -> [Watched -> Review]]
    /\ pass \in Passes
    /\ asked \in [Watched -> Nat] /\ reported \in [Watched -> Nat]

\* Who was asked is known to have been, or will be in a moment; who is about to be asked was not.
AskedKnown ==
    \A r \in Watched \ remindersInDoubt :
        /\ asked[r] <= 1
        /\ asked[r] > 0 => \/ pass.pc = "mark" /\ r \in pass.sent
                           \/ Reminder!reviews[r].followup \/ Reminder!reviews[r].status = "deleted"
        /\ pass.pc \in {"followup", "mark"} /\ r \in pass.due => asked[r] = 0

\* The same of the report.
ReportedKnown ==
    \A r \in Watched \ remindersInDoubt :
        /\ reported[r] <= 1
        /\ reported[r] > 0 => \/ pass.pc = "remember" /\ r \in pass.sent
                              \/ Reminder!reviews[r].overdue
                              \/ Reminder!reviews[r].status \notin {"none", "pending"}
        /\ pass.pc = "report" /\ r \in pass.due => reported[r] = 0

\* When a pass comes to its cleanup, it has been with everybody whose follow-up is due.
Visited(r) == Reminder!reviews[r].status # "deleted" /\ Reminder!reviews[r].notice # 0
              /\ day - Reminder!reviews[r].notice >= FollowupDelay => r \in tried
DueVisited ==
    /\ pass.pc = "booted" => ~pass.cleans
    /\ pass.pc \in {"followup", "mark"} => \A r \in Watched : r \in pass.due \/ Visited(r)
    /\ pass.pc = "mark" => pass.sent \subseteq tried
    /\ pass.pc \in {"overdue", "report", "remember"} /\ pass.cleans => \A r \in Watched : Visited(r)
    /\ pass.pc = "cleanup" => \A r \in Watched : Visited(r)

\* A mark, in memory or in the file, is of somebody who was tried, and so is whatever was deleted.
MarkedTried ==
    \A x \in Reminder!Stores, r \in Watched :
        LET l == ledger[x][r]
        IN l.followup \/ (l.status = "deleted" /\ l.notice # 0) => r \in tried

ReminderInv == ReminderTyped /\ AskedKnown /\ ReportedKnown /\ DueVisited /\ MarkedTried
-----------------------------------------------------------------------------
LEMMA ReminderInit == Reminder!Init => ReminderInv
<1> SUFFICES ASSUME Reminder!Init PROVE ReminderInv
  OBVIOUS
<1>1. /\ day = 1 /\ pass.pc = "booted" /\ ~pass.cleans
      /\ \A x \in Reminder!Stores, r \in Watched : ledger[x][r] = Reminder!Fresh
      /\ \A r \in Watched : asked[r] = 0 /\ reported[r] = 0
  BY DEF Reminder!Init, Reminder!Booted
<1>2. ReminderTyped
  <2>1. Reminder!Fresh \in Review
    BY DEF Reminder!Fresh, Reminder!Never, Review
  <2> QED
    BY <2>1 DEF Reminder!Init, Reminder!Booted, ReminderTyped, Passes
<1> QED
  BY <1>1, <1>2 DEF ReminderInv, AskedKnown, ReportedKnown, DueVisited, MarkedTried, Reminder!Fresh,
     Reminder!Never

\* What a write leaves in memory and in the file.
LEMMA LedgerWritten ==
    ASSUME ReminderTyped, NEW l \in [Watched -> Review], Reminder!Saved(l) \/ Reminder!Unsaved(l)
    PROVE  /\ ledger' \in [Reminder!Stores -> [Watched -> Review]]
           /\ Reminder!reviews' = l
           /\ \A x \in Reminder!Stores : ledger'[x] = l \/ ledger'[x] = ledger[x]
  BY DEF ReminderTyped, Reminder!Saved, Reminder!Unsaved, Reminder!Stores, Reminder!reviews

\* What users and administrators change of a request, and MoviePilot, touches no mark, deletes
\* nothing, and a notice is of today.
Edits(l) ==
    \A r \in Watched :
        /\ l[r].followup = Reminder!reviews[r].followup /\ l[r].overdue = Reminder!reviews[r].overdue
        /\ l[r].status = "deleted" <=> Reminder!reviews[r].status = "deleted"
        /\ Reminder!reviews[r].status \notin {"none", "pending"} =>
              l[r].status \notin {"none", "pending"}
        /\ l[r].notice = Reminder!reviews[r].notice
           \/ (l[r].notice = day /\ l[r].status # "deleted")

LEMMA EditStep ==
    ASSUME ReminderInv, NEW l \in [Watched -> Review], Edits(l), FollowupDelay \in Nat \ {0},
           Reminder!Saved(l) \/ Reminder!Unsaved(l) \/ UNCHANGED ledger,
           UNCHANGED <<day, pass, asked, tried, reported, remindersInDoubt>>
    PROVE  ReminderInv'
<1>1. CASE UNCHANGED ledger
  BY <1>1 DEF ReminderInv, ReminderTyped, Passes, AskedKnown, ReportedKnown, DueVisited, Visited,
       MarkedTried,
     Reminder!reviews
<1>2. CASE Reminder!Saved(l) \/ Reminder!Unsaved(l)
  <2>1. /\ ledger' \in [Reminder!Stores -> [Watched -> Review]] /\ Reminder!reviews' = l
        /\ \A x \in Reminder!Stores : ledger'[x] = l \/ ledger'[x] = ledger[x]
    BY <1>2, LedgerWritten DEF ReminderInv
  <2>2. ReminderTyped'
    BY <2>1 DEF ReminderInv, ReminderTyped
  <2>3. AskedKnown' /\ ReportedKnown'
    BY <2>1 DEF ReminderInv, AskedKnown, ReportedKnown, Edits
  <2>4. \A r \in Watched : Visited(r) => Visited(r)'
    <3> SUFFICES ASSUME NEW r \in Watched, Visited(r), l[r].status # "deleted", l[r].notice # 0,
                        day - l[r].notice >= FollowupDelay
                 PROVE  r \in tried
      BY <2>1 DEF Visited
    <3>1. l[r].notice # day
      BY DEF ReminderInv, ReminderTyped
    <3> QED
      BY <3>1 DEF Visited, Edits
  <2>5. DueVisited'
    BY <2>4 DEF ReminderInv, DueVisited
  <2>6. MarkedTried'
    <3>1. \A r \in Watched : l[r].followup \/ (l[r].status = "deleted" /\ l[r].notice # 0) => r \in tried
      BY DEF Edits, ReminderInv, MarkedTried, Reminder!reviews, Reminder!Stores
    <3> QED
      BY <2>1, <3>1 DEF ReminderInv, MarkedTried
  <2> QED
    BY <2>2, <2>3, <2>5, <2>6 DEF ReminderInv
<1> QED
  BY <1>1, <1>2

LEMMA RequestStep ==
    ASSUME ReminderInv, FollowupDelay \in Nat \ {0}, NEW r \in Watched,
           Reminder!CreateRequest(r) \/ Reminder!Decide(r) \/ Reminder!Complete(r)
    PROVE  ReminderInv'
<1>1. /\ UNCHANGED <<day, pass, asked, tried, reported, remindersInDoubt>>
      /\ day \in Nat /\ Reminder!reviews \in [Watched -> Review]
  BY DEF Reminder!CreateRequest, Reminder!Decide, Reminder!Complete, Reminder!histories,
         ReminderInv, ReminderTyped, Reminder!reviews, Reminder!Stores
<1>2. CASE Reminder!CreateRequest(r)
  <2> DEFINE l == [Reminder!reviews EXCEPT ![r].status = "pending", ![r].since = day]
  <2>1. l \in [Watched -> Review] /\ Edits(l)
    BY <1>1, <1>2 DEF Edits, Review, Reminder!CreateRequest
  <2>2. Reminder!Saved(l) \/ UNCHANGED ledger
    BY <1>2 DEF Reminder!CreateRequest, Reminder!SaveOrUndo
  <2> HIDE DEF l
  <2> QED
    BY <1>1, <2>1, <2>2, EditStep
<1>3. CASE Reminder!Decide(r)
  <2>1. PICK s \in {"approved", "rejected"} :
           Reminder!SaveOrUndo([Reminder!reviews EXCEPT ![r].status = s, ![r].since = day])
    BY <1>3 DEF Reminder!Decide
  <2> DEFINE l == [Reminder!reviews EXCEPT ![r].status = s, ![r].since = day]
             e == [Reminder!reviews[r] EXCEPT !.status = s, !.since = day]
  <2>2. l \in [Watched -> Review] /\ Edits(l)
    <3>1. /\ e \in Review /\ e.status = s /\ e.notice = Reminder!reviews[r].notice
          /\ e.followup = Reminder!reviews[r].followup /\ e.overdue = Reminder!reviews[r].overdue
      BY <1>1 DEF Review
    <3>2. l = [Reminder!reviews EXCEPT ![r] = e] /\ Reminder!reviews[r].status = "pending"
      BY <1>3 DEF Reminder!Decide
    <3> HIDE DEF l, e
    <3> QED
      BY <1>1, <3>1, <3>2 DEF Edits
  <2>3. Reminder!Saved(l) \/ UNCHANGED ledger
    BY <2>1 DEF Reminder!SaveOrUndo
  <2> HIDE DEF l
  <2> QED
    BY <1>1, <2>2, <2>3, EditStep
<1>4. CASE Reminder!Complete(r)
  <2> DEFINE l == [Reminder!reviews EXCEPT ![r].notice = day]
  <2>1. l \in [Watched -> Review] /\ Edits(l)
    BY <1>1, <1>4 DEF Edits, Review, Reminder!Complete
  <2>2. Reminder!Saved(l) \/ Reminder!Unsaved(l)
    BY <1>4 DEF Reminder!Complete
  <2> HIDE DEF l
  <2> QED
    BY <1>1, <2>1, <2>2, EditStep
<1> QED
  BY <1>2, <1>3, <1>4

\* Days go by between the passes, and the switch of the user and her answers touch nothing here.
LEMMA AsideStep ==
    ASSUME ReminderInv,
           \/ Reminder!NextDay \/ Reminder!ToggleDownload
           \/ \E r \in Watched, a \in Replies : Reminder!AddWatchFeedback(r, a)
    PROVE  ReminderInv'
<1>1. /\ UNCHANGED <<ledger, pass, asked, tried, reported, remindersInDoubt>>
      /\ day' = day \/ (day' = day + 1 /\ pass.pc \in {"booted", "idle"})
  BY DEF Reminder!NextDay, Reminder!ToggleDownload, Reminder!AddWatchFeedback, Reminder!histories
<1> QED
  BY <1>1 DEF ReminderInv, ReminderTyped, Passes, AskedKnown, ReportedKnown, DueVisited, Visited,
       MarkedTried,
     Reminder!reviews
-----------------------------------------------------------------------------
\* A pass begins with those whose follow-up is due and who are not marked.
LEMMA BeginStep ==
    ASSUME ReminderInv, Reminder!ReportAfterStart \/ Reminder!CleanupRoutine PROVE ReminderInv'
<1>1. UNCHANGED <<day, ledger, asked, tried, reported, remindersInDoubt>>
  BY DEF Reminder!ReportAfterStart, Reminder!CleanupRoutine, Reminder!histories
<1>2. MarkedTried' /\ \A r \in Watched : Visited(r) <=> Visited(r)'
  BY <1>1 DEF ReminderInv, MarkedTried, Visited, Reminder!reviews
<1>3. CASE Reminder!ReportAfterStart
  <2>1. pass.pc = "booted" /\ pass' = [pass EXCEPT !.pc = "overdue"]
    BY <1>3 DEF Reminder!ReportAfterStart
  <2> QED
    BY <1>1, <1>2, <2>1 DEF ReminderInv, ReminderTyped, Passes, AskedKnown, ReportedKnown, DueVisited,
       Reminder!reviews
<1>4. CASE Reminder!CleanupRoutine
  <2>1. /\ pass.pc = "idle" /\ Reminder!DueFollowups \subseteq Watched
        /\ pass' = [pc |-> "followup", due |-> Reminder!DueFollowups, sent |-> {}, cleans |-> TRUE]
    BY <1>4 DEF Reminder!CleanupRoutine, Reminder!DueFollowups
  <2>2. ReminderTyped'
    BY <1>1, <2>1 DEF ReminderInv, ReminderTyped, Passes
  <2>3. AskedKnown'
    <3>1. \A r \in Reminder!DueFollowups \ remindersInDoubt : asked[r] = 0
      BY <2>1 DEF ReminderInv, ReminderTyped, Passes, AskedKnown, Reminder!DueFollowups
    <3> QED
      BY <1>1, <2>1, <3>1 DEF ReminderInv, AskedKnown, Reminder!reviews
  <2>4. ReportedKnown'
    BY <1>1, <2>1 DEF ReminderInv, ReportedKnown, Reminder!reviews
  <2>5. \A r \in Watched : r \in Reminder!DueFollowups \/ Visited(r)
    BY DEF ReminderInv, MarkedTried, Visited, Reminder!DueFollowups, Reminder!Never,
       Reminder!reviews, Reminder!Stores
  <2> QED
    BY <1>1, <1>2, <2>1, <2>2, <2>3, <2>4, <2>5 DEF ReminderInv, DueVisited
<1> QED
  BY <1>3, <1>4

\* What an attempt does to the pass, when it succeeds and when it does not.
LEMMA PassGoesOn ==
    ASSUME NEW p \in Passes, NEW r \in Watched, NEW q, q = [p EXCEPT !.due = @ \ {r}]
    PROVE  q \in Passes /\ q.pc = p.pc /\ q.due = p.due \ {r} /\ q.sent = p.sent /\ q.cleans = p.cleans
  BY DEF Passes

\* Whoever is due is asked, or the attempt fails; the message may arrive although the attempt failed.
LEMMA FollowupStep ==
    ASSUME ReminderInv, Reminder!SendWatchFollowups PROVE ReminderInv'
<1>1. pass.pc = "followup" /\ UNCHANGED <<day, ledger, reported>>
  BY DEF Reminder!SendWatchFollowups
<1>2. CASE /\ pass.due = {} /\ pass' = [pass EXCEPT !.pc = "overdue"]
           /\ UNCHANGED <<asked, tried, remindersInDoubt>>
  BY <1>1, <1>2 DEF ReminderInv, ReminderTyped, Passes, AskedKnown, ReportedKnown, DueVisited, Visited,
     MarkedTried, Reminder!reviews
<1>3. ASSUME NEW r \in pass.due, Reminder!OnWatchFollowup(r) PROVE ReminderInv'
  <2>1. /\ tried' = tried \cup {r} /\ r \in Watched /\ pass.due \subseteq Watched
        /\ asked \in [Watched -> Nat]
    BY <1>3 DEF Reminder!OnWatchFollowup, ReminderInv, ReminderTyped, Passes
  <2>2. r \in remindersInDoubt \/ asked[r] = 0
    BY <1>1, <1>3, <2>1 DEF ReminderInv, AskedKnown
  <2>3. /\ asked' = asked \/ asked' = [asked EXCEPT ![r] = @ + 1]
        /\ \/ /\ pass' = [pass EXCEPT !.pc = "mark", !.due = @ \ {r}, !.sent = {r}]
              /\ UNCHANGED remindersInDoubt
           \/ /\ pass' = [pass EXCEPT !.due = @ \ {r}]
              /\ \/ UNCHANGED <<asked, remindersInDoubt>>
                 \/ remindersInDoubt' = remindersInDoubt \cup {r}
    BY <1>3 DEF Reminder!OnWatchFollowup
  <2>4. /\ pass' \in Passes /\ pass'.pc \in {"followup", "mark"}
        /\ pass'.due = pass.due \ {r} /\ pass'.cleans = pass.cleans
        /\ \/ pass'.pc = "mark" /\ pass'.sent = {r} /\ UNCHANGED remindersInDoubt
           \/ /\ pass'.pc = "followup" /\ pass'.sent = pass.sent
              /\ \/ UNCHANGED <<asked, remindersInDoubt>>
                 \/ remindersInDoubt' = remindersInDoubt \cup {r}
    <3>1. pass \in Passes
      BY DEF ReminderInv, ReminderTyped
    <3>2. CASE /\ pass' = [pass EXCEPT !.pc = "mark", !.due = @ \ {r}, !.sent = {r}]
               /\ UNCHANGED remindersInDoubt
      <4>1. r \in Watched
        BY <2>1
      <4>2. pass' = [pass EXCEPT !.pc = "mark", !.due = @ \ {r}, !.sent = {r}]
        BY <3>2
      <4>3. /\ pass' \in Passes /\ pass'.pc = "mark" /\ pass'.due = pass.due \ {r}
            /\ pass'.sent = {r} /\ pass'.cleans = pass.cleans
        <5> DEFINE q == [pass EXCEPT !.pc = "mark", !.due = @ \ {r}, !.sent = {r}]
        <5>1. q \in Passes /\ q.pc = "mark" /\ q.due = pass.due \ {r} /\ q.sent = {r} /\ q.cleans = pass.cleans
          BY <3>1, <4>1 DEF Passes
        <5>2. pass' = q
          BY <4>2
        <5> HIDE DEF q
        <5> QED
          BY <5>1, <5>2
      <4> QED
        BY <3>2, <4>3
    <3>3. CASE /\ pass' = [pass EXCEPT !.due = @ \ {r}]
               /\ \/ UNCHANGED <<asked, remindersInDoubt>>
                  \/ remindersInDoubt' = remindersInDoubt \cup {r}
      <4>0. pass' = [pass EXCEPT !.due = @ \ {r}] /\ r \in Watched
        BY <2>1, <3>3
      <4>1. /\ pass' \in Passes /\ pass'.pc = pass.pc /\ pass'.due = pass.due \ {r}
            /\ pass'.sent = pass.sent /\ pass'.cleans = pass.cleans
        BY <3>1, <4>0, PassGoesOn
      <4> QED
        BY <1>1, <3>3, <4>1
    <3> QED
      BY <2>3, <3>2, <3>3
  <2>5. /\ asked' \in [Watched -> Nat] /\ asked'[r] \in {asked[r], asked[r] + 1}
        /\ \A q \in Watched : q # r => asked'[q] = asked[q]
    BY <2>1, <2>3
  <2>6. ReminderTyped'
    BY <1>1, <2>4, <2>5 DEF ReminderInv, ReminderTyped
  <2>7. AskedKnown'
    <3> SUFFICES ASSUME NEW q \in Watched, q \notin remindersInDoubt'
                 PROVE  /\ asked'[q] <= 1
                        /\ asked'[q] > 0 => \/ pass'.pc = "mark" /\ q \in pass'.sent
                                            \/ Reminder!reviews[q].followup
                                            \/ Reminder!reviews[q].status = "deleted"
                        /\ q \in pass'.due => asked'[q] = 0
      BY <1>1 DEF AskedKnown, Reminder!reviews
    <3>1. q \notin remindersInDoubt
      BY <2>4
    <3>2. CASE q # r
      BY <1>1, <2>4, <2>5, <3>1, <3>2 DEF ReminderInv, AskedKnown
    <3>3. CASE q = r
      BY <1>1, <2>1, <2>2, <2>4, <2>5, <3>1, <3>3 DEF ReminderInv, AskedKnown
    <3> QED
      BY <3>2, <3>3
  <2>8. ReportedKnown'
    BY <1>1, <2>4 DEF ReminderInv, ReportedKnown, Reminder!reviews
  <2>9. DueVisited'
    BY <1>1, <2>1, <2>4 DEF ReminderInv, DueVisited, Visited, Reminder!reviews
  <2>10. MarkedTried'
    BY <1>1, <2>1 DEF ReminderInv, MarkedTried
  <2> QED
    BY <2>6, <2>7, <2>8, <2>9, <2>10 DEF ReminderInv
<1> QED
  BY <1>2, <1>3 DEF Reminder!SendWatchFollowups

\* What the marks change in the requests.
LEMMA FollowupMarked ==
    ASSUME ReminderTyped, NEW rs \in SUBSET Watched, NEW l, l = Reminder!Marked("followup", rs)
    PROVE  /\ l \in [Watched -> Review]
           /\ \A r \in Watched : /\ l[r].status = Reminder!reviews[r].status
                                 /\ l[r].notice = Reminder!reviews[r].notice
                                 /\ l[r].overdue = Reminder!reviews[r].overdue
                                 /\ Reminder!reviews[r].followup => l[r].followup
                                 /\ r \notin rs => l[r] = Reminder!reviews[r]
           /\ \A r \in rs : Reminder!reviews[r].status # "deleted" => l[r].followup
<1>1. Reminder!reviews \in [Watched -> Review]
  BY DEF ReminderTyped, Reminder!reviews, Reminder!Stores
<1>2. ASSUME NEW rec \in Review, NEW e, e = [rec EXCEPT !.followup = TRUE]
      PROVE  /\ e \in Review /\ e.status = rec.status /\ e.notice = rec.notice
             /\ e.followup /\ e.overdue = rec.overdue
  BY <1>2 DEF Review
<1>3. l = [r \in Watched |-> IF r \in rs /\ Reminder!reviews[r].status # "deleted"
                            THEN [Reminder!reviews[r] EXCEPT !.followup = TRUE] ELSE Reminder!reviews[r]]
  BY DEF Reminder!Marked
<1> QED
  BY <1>1, <1>2, <1>3

LEMMA OverdueMarked ==
    ASSUME ReminderTyped, NEW rs \in SUBSET Watched, NEW l, l = Reminder!Marked("overdue", rs)
    PROVE  /\ l \in [Watched -> Review]
           /\ \A r \in Watched : /\ l[r].status = Reminder!reviews[r].status
                                 /\ l[r].notice = Reminder!reviews[r].notice
                                 /\ l[r].followup = Reminder!reviews[r].followup
                                 /\ Reminder!reviews[r].overdue => l[r].overdue
                                 /\ r \notin rs => l[r] = Reminder!reviews[r]
           /\ \A r \in rs : Reminder!reviews[r].status # "deleted" => l[r].overdue
<1>1. Reminder!reviews \in [Watched -> Review]
  BY DEF ReminderTyped, Reminder!reviews, Reminder!Stores
<1>2. ASSUME NEW rec \in Review, NEW e, e = [rec EXCEPT !.overdue = TRUE]
      PROVE  /\ e \in Review /\ e.status = rec.status /\ e.notice = rec.notice
             /\ e.overdue /\ e.followup = rec.followup
  BY <1>2 DEF Review
<1>3. l = [r \in Watched |-> IF r \in rs /\ Reminder!reviews[r].status # "deleted"
                            THEN [Reminder!reviews[r] EXCEPT !.overdue = TRUE] ELSE Reminder!reviews[r]]
  BY DEF Reminder!Marked
<1> QED
  BY <1>1, <1>2, <1>3

\* Whoever was asked is marked in memory, and in the file if it can be written.
LEMMA FollowupMarkStep ==
    ASSUME ReminderInv, Reminder!MarkWatchFollowup PROVE ReminderInv'
<1> DEFINE l == Reminder!Marked("followup", pass.sent)
<1>1. /\ pass.pc = "mark" /\ pass' = [pass EXCEPT !.pc = "followup", !.sent = {}]
      /\ Reminder!Saved(l) \/ Reminder!Unsaved(l)
      /\ UNCHANGED <<day, asked, tried, reported, remindersInDoubt>>
  BY DEF Reminder!MarkWatchFollowup, Reminder!histories
<1>2. /\ pass' \in Passes /\ pass'.pc = "followup" /\ pass'.due = pass.due /\ pass.sent \in SUBSET Watched
  BY <1>1 DEF ReminderInv, ReminderTyped, Passes
<1>3. /\ l \in [Watched -> Review]
      /\ \A r \in Watched : /\ l[r].status = Reminder!reviews[r].status
                            /\ l[r].notice = Reminder!reviews[r].notice
                            /\ l[r].overdue = Reminder!reviews[r].overdue
                            /\ Reminder!reviews[r].followup => l[r].followup
                            /\ r \notin pass.sent => l[r] = Reminder!reviews[r]
      /\ \A r \in pass.sent : Reminder!reviews[r].status # "deleted" => l[r].followup
  BY <1>2, FollowupMarked DEF ReminderInv
<1> HIDE DEF l
<1>4. /\ ledger' \in [Reminder!Stores -> [Watched -> Review]] /\ Reminder!reviews' = l
      /\ \A x \in Reminder!Stores : ledger'[x] = l \/ ledger'[x] = ledger[x]
  BY <1>1, <1>3, LedgerWritten DEF ReminderInv
<1>5. ReminderTyped'
  BY <1>1, <1>2, <1>4 DEF ReminderInv, ReminderTyped
<1>6. AskedKnown'
  BY <1>1, <1>2, <1>3, <1>4 DEF ReminderInv, AskedKnown
<1>7. ReportedKnown'
  BY <1>1, <1>2, <1>3, <1>4 DEF ReminderInv, ReportedKnown
<1>8. DueVisited'
  BY <1>1, <1>2, <1>3, <1>4 DEF ReminderInv, DueVisited, Visited
<1>9. MarkedTried'
  <2>1. \A r \in Watched : l[r].followup \/ (l[r].status = "deleted" /\ l[r].notice # 0) => r \in tried
    BY <1>1, <1>3 DEF ReminderInv, DueVisited, MarkedTried, Reminder!reviews, Reminder!Stores
  <2> QED
    BY <1>1, <1>4, <2>1 DEF ReminderInv, MarkedTried
<1> QED
  BY <1>5, <1>6, <1>7, <1>8, <1>9 DEF ReminderInv

\* Where a pass goes after the report.
LEMMA PassReported ==
    ASSUME pass \in Passes
    PROVE  /\ Reminder!Reported \in Passes /\ Reminder!Reported.due = {} /\ Reminder!Reported.sent = {}
           /\ Reminder!Reported.pc = IF pass.cleans THEN "cleanup" ELSE "idle"
  BY DEF Reminder!Reported, Reminder!Idle, Reminder!Booted, Passes

\* Who is due a report has had none.
LEMMA CollectStep ==
    ASSUME ReminderInv, Reminder!CollectOverdue PROVE ReminderInv'
<1>1. pass.pc = "overdue" /\ UNCHANGED <<day, ledger, asked, tried, reported, remindersInDoubt>>
  BY DEF Reminder!CollectOverdue, Reminder!histories
<1>2. pass \in Passes /\ Reminder!OverduePendingRequests \in SUBSET Watched
  BY DEF ReminderInv, ReminderTyped, Reminder!OverduePendingRequests
<1>3. /\ pass' \in Passes /\ pass'.pc \in {"report", "cleanup", "idle"}
      /\ pass'.pc = "report" => /\ pass'.due = Reminder!OverduePendingRequests
                                /\ pass'.cleans = pass.cleans
      /\ pass'.pc = "cleanup" => pass.cleans
  <2>1. CASE pass' = Reminder!Reported
    BY <1>2, <2>1, PassReported
  <2>2. CASE pass' = [pass EXCEPT !.pc = "report", !.due = Reminder!OverduePendingRequests]
    BY <1>2, <2>2 DEF Passes
  <2> QED
    BY <2>1, <2>2 DEF Reminder!CollectOverdue
<1>4. \A r \in Reminder!OverduePendingRequests \ remindersInDoubt : reported[r] = 0
  BY <1>1, <1>2 DEF ReminderInv, ReminderTyped, ReportedKnown, Reminder!OverduePendingRequests
<1>5. ReminderTyped' /\ AskedKnown' /\ ReportedKnown'
  BY <1>1, <1>3, <1>4 DEF ReminderInv, ReminderTyped, AskedKnown, ReportedKnown, Reminder!reviews
<1>6. DueVisited' /\ MarkedTried'
  BY <1>1, <1>3 DEF ReminderInv, DueVisited, Visited, MarkedTried, Reminder!reviews
<1> QED
  BY <1>5, <1>6 DEF ReminderInv

\* The administrators get the report, or the attempt fails; it may arrive although it failed.
LEMMA ReportStep ==
    ASSUME ReminderInv, Reminder!ReportOverdue PROVE ReminderInv'
<1>1. pass.pc = "report" /\ pass \in Passes /\ UNCHANGED <<day, ledger, asked, tried>>
  BY DEF Reminder!ReportOverdue, ReminderInv, ReminderTyped
<1> DEFINE delivered == [r \in Watched |-> reported[r] + IF r \in pass.due THEN 1 ELSE 0]
<1>2. \/ /\ reported' = delivered /\ UNCHANGED remindersInDoubt
         /\ pass' = [pass EXCEPT !.pc = "remember", !.sent = pass.due, !.due = {}]
      \/ /\ pass' = Reminder!Reported
         /\ \/ UNCHANGED <<reported, remindersInDoubt>>
            \/ reported' = delivered /\ remindersInDoubt' = remindersInDoubt \cup pass.due
  BY DEF Reminder!ReportOverdue
<1>3. /\ delivered \in [Watched -> Nat]
      /\ \A r \in pass.due \ remindersInDoubt : delivered[r] = 1
      /\ \A r \in Watched \ pass.due : delivered[r] = reported[r]
  BY <1>1 DEF ReminderInv, ReminderTyped, ReportedKnown, Passes
<1> HIDE DEF delivered
<1>4. CASE /\ reported' = delivered /\ UNCHANGED remindersInDoubt
           /\ pass' = [pass EXCEPT !.pc = "remember", !.sent = pass.due, !.due = {}]
  <2>1. pass' \in Passes /\ pass'.pc = "remember" /\ pass'.sent = pass.due /\ pass'.cleans = pass.cleans
    BY <1>1, <1>4 DEF Passes
  <2>2. ReminderTyped' /\ AskedKnown'
    BY <1>1, <1>3, <1>4, <2>1 DEF ReminderInv, ReminderTyped, AskedKnown, Reminder!reviews
  <2>3. ReportedKnown'
    BY <1>1, <1>3, <1>4, <2>1 DEF ReminderInv, ReportedKnown, Reminder!reviews
  <2>4. DueVisited' /\ MarkedTried'
    BY <1>1, <2>1 DEF ReminderInv, DueVisited, Visited, MarkedTried, Reminder!reviews
  <2> QED
    BY <2>2, <2>3, <2>4 DEF ReminderInv
<1>5. CASE /\ pass' = Reminder!Reported
           /\ \/ UNCHANGED <<reported, remindersInDoubt>>
              \/ reported' = delivered /\ remindersInDoubt' = remindersInDoubt \cup pass.due
  <2>1. pass' \in Passes /\ pass'.pc = IF pass.cleans THEN "cleanup" ELSE "idle"
    BY <1>1, <1>5, PassReported
  <2>2. ReminderTyped' /\ AskedKnown'
    BY <1>1, <1>3, <1>5, <2>1 DEF ReminderInv, ReminderTyped, AskedKnown, Reminder!reviews
  <2>3. ReportedKnown'
    BY <1>1, <1>3, <1>5, <2>1 DEF ReminderInv, ReportedKnown, Reminder!reviews
  <2>4. DueVisited' /\ MarkedTried'
    BY <1>1, <2>1 DEF ReminderInv, DueVisited, Visited, MarkedTried, Reminder!reviews
  <2> QED
    BY <2>2, <2>3, <2>4 DEF ReminderInv
<1> QED
  BY <1>2, <1>4, <1>5

\* The report is remembered, or nobody knows that it was made.
LEMMA RememberStep ==
    ASSUME ReminderInv, Reminder!MarkOverdueReminded PROVE ReminderInv'
<1> DEFINE l == Reminder!Marked("overdue", pass.sent)
<1>1. /\ pass.pc = "remember" /\ pass \in Passes /\ pass' = Reminder!Reported
      /\ \/ Reminder!Saved(l) /\ UNCHANGED remindersInDoubt
         \/ UNCHANGED ledger /\ remindersInDoubt' = remindersInDoubt \cup pass.sent
      /\ UNCHANGED <<day, asked, tried, reported>>
  BY DEF Reminder!MarkOverdueReminded, ReminderInv, ReminderTyped
<1>2. pass' \in Passes /\ pass'.pc = IF pass.cleans THEN "cleanup" ELSE "idle"
  BY <1>1, PassReported
<1>3. CASE UNCHANGED ledger /\ remindersInDoubt' = remindersInDoubt \cup pass.sent
  <2>1. ReminderTyped' /\ AskedKnown' /\ ReportedKnown'
    BY <1>1, <1>2, <1>3 DEF ReminderInv, ReminderTyped, AskedKnown, ReportedKnown, Reminder!reviews
  <2>2. DueVisited' /\ MarkedTried'
    BY <1>1, <1>2, <1>3 DEF ReminderInv, DueVisited, Visited, MarkedTried, Reminder!reviews
  <2> QED
    BY <2>1, <2>2 DEF ReminderInv
<1>4. CASE Reminder!Saved(l) /\ UNCHANGED remindersInDoubt
  <2>1. pass.sent \in SUBSET Watched
    BY <1>1 DEF Passes
  <2>2. /\ l \in [Watched -> Review]
        /\ \A r \in Watched : /\ l[r].status = Reminder!reviews[r].status
                              /\ l[r].notice = Reminder!reviews[r].notice
                              /\ l[r].followup = Reminder!reviews[r].followup
                              /\ Reminder!reviews[r].overdue => l[r].overdue
        /\ \A r \in pass.sent : Reminder!reviews[r].status # "deleted" => l[r].overdue
    BY <2>1, OverdueMarked DEF ReminderInv
  <2> HIDE DEF l
  <2>3. /\ ledger' \in [Reminder!Stores -> [Watched -> Review]] /\ Reminder!reviews' = l
        /\ \A x \in Reminder!Stores : ledger'[x] = l \/ ledger'[x] = ledger[x]
    BY <1>4, <2>2, LedgerWritten DEF ReminderInv
  <2>4. ReminderTyped' /\ AskedKnown'
    BY <1>1, <1>2, <1>4, <2>2, <2>3 DEF ReminderInv, ReminderTyped, AskedKnown
  <2>5. ReportedKnown'
    BY <1>1, <1>2, <1>4, <2>2, <2>3 DEF ReminderInv, ReportedKnown
  <2>6. DueVisited'
    BY <1>1, <1>2, <2>2, <2>3 DEF ReminderInv, DueVisited, Visited
  <2>7. MarkedTried'
    <3>1. \A r \in Watched : l[r].followup \/ (l[r].status = "deleted" /\ l[r].notice # 0) => r \in tried
      BY <2>2 DEF ReminderInv, MarkedTried, Reminder!reviews, Reminder!Stores
    <3> QED
      BY <1>1, <2>3, <3>1 DEF ReminderInv, MarkedTried
  <2> QED
    BY <2>4, <2>5, <2>6, <2>7 DEF ReminderInv
<1> QED
  BY <1>1, <1>3, <1>4

\* What is deleted at the end of a pass was visited in it: the follow-up of a completed request is
\* due long before its end.
LEMMA CleanupStep ==
    ASSUME ReminderInv, FollowupDelay \in Nat, CompletedRetention \in Nat,
           FollowupDelay <= CompletedRetention + 1, Reminder!CleanupAt
    PROVE  ReminderInv'
<1> DEFINE l == [r \in Watched |-> IF r \in Reminder!Expired
                                   THEN [Reminder!reviews[r] EXCEPT !.status = "deleted"]
                                   ELSE Reminder!reviews[r]]
<1>1. /\ pass.pc = "cleanup" /\ pass' = Reminder!Idle
      /\ Reminder!Saved(l) \/ UNCHANGED ledger
      /\ UNCHANGED <<day, asked, tried, reported, remindersInDoubt>>
  BY DEF Reminder!CleanupAt, Reminder!SaveOrUndo, Reminder!histories
<1>2. Reminder!reviews \in [Watched -> Review] /\ day \in Nat
  BY DEF ReminderInv, ReminderTyped, Reminder!reviews, Reminder!Stores
<1>3. pass' \in Passes /\ pass'.pc = "idle"
  BY <1>1 DEF Reminder!Idle, Reminder!Booted, Passes
<1>4. CASE UNCHANGED ledger
  <2>1. ReminderTyped' /\ AskedKnown' /\ ReportedKnown'
    BY <1>1, <1>3, <1>4 DEF ReminderInv, ReminderTyped, AskedKnown, ReportedKnown, Reminder!reviews
  <2> QED
    BY <1>1, <1>3, <1>4, <2>1 DEF ReminderInv, DueVisited, MarkedTried
<1>5. CASE Reminder!Saved(l)
  <2>1. /\ l \in [Watched -> Review]
        /\ \A r \in Watched : /\ l[r].followup = Reminder!reviews[r].followup
                              /\ l[r].overdue = Reminder!reviews[r].overdue
                              /\ l[r].notice = Reminder!reviews[r].notice
                              /\ l[r].status = "deleted" \/ l[r].status = Reminder!reviews[r].status
                              /\ r \notin Reminder!Expired => l[r] = Reminder!reviews[r]
    <3>1. ASSUME NEW rec \in Review, NEW e, e = [rec EXCEPT !.status = "deleted"]
          PROVE  /\ e \in Review /\ e.status = "deleted" /\ e.notice = rec.notice
                 /\ e.followup = rec.followup /\ e.overdue = rec.overdue
      BY <3>1 DEF Review
    <3>2. ASSUME NEW r \in Watched
          PROVE  /\ l[r] \in Review
                 /\ l[r].followup = Reminder!reviews[r].followup
                 /\ l[r].overdue = Reminder!reviews[r].overdue
                 /\ l[r].notice = Reminder!reviews[r].notice
                 /\ l[r].status = "deleted" \/ l[r].status = Reminder!reviews[r].status
                 /\ r \notin Reminder!Expired => l[r] = Reminder!reviews[r]
      <4>1. Reminder!reviews[r] \in Review
        BY <1>2
      <4>2. CASE r \in Reminder!Expired
        <5>1. l[r] = [Reminder!reviews[r] EXCEPT !.status = "deleted"]
          BY <4>2
        <5> HIDE DEF l
        <5> QED
          BY <3>1, <4>1, <4>2, <5>1
      <4>3. CASE r \notin Reminder!Expired
        BY <4>1, <4>3
      <4> QED
        BY <4>2, <4>3
    <3>3. l = [r \in Watched |-> l[r]]
      OBVIOUS
    <3> HIDE DEF l
    <3> QED
      BY <3>2, <3>3
  <2> HIDE DEF l
  <2>2. /\ ledger' \in [Reminder!Stores -> [Watched -> Review]] /\ Reminder!reviews' = l
        /\ \A x \in Reminder!Stores : ledger'[x] = l \/ ledger'[x] = ledger[x]
    BY <1>5, <2>1, LedgerWritten DEF ReminderInv
  <2>6. ReminderTyped'
    BY <1>1, <1>3, <2>2 DEF ReminderInv, ReminderTyped
  <2>7. AskedKnown'
    BY <1>1, <1>3, <2>1, <2>2 DEF ReminderInv, AskedKnown
  <2>8. ReportedKnown'
    BY <1>1, <1>3, <2>1, <2>2 DEF ReminderInv, ReportedKnown
  <2>3. ReminderTyped' /\ AskedKnown' /\ ReportedKnown'
    BY <2>6, <2>7, <2>8
  <2>4. DueVisited'
    BY <1>3 DEF DueVisited
  <2>5. MarkedTried'
    <3>1. \A r \in Reminder!Expired : Reminder!reviews[r].notice # 0 => r \in tried
      <4> SUFFICES ASSUME NEW r \in Reminder!Expired, Reminder!reviews[r].notice # 0
                   PROVE  r \in tried
        OBVIOUS
      <4>1. /\ r \in Watched /\ Reminder!reviews[r].status # "deleted"
            /\ day - Reminder!reviews[r].notice > CompletedRetention
        BY DEF Reminder!Expired, Reminder!Never
      <4>2. Reminder!reviews[r].notice \in Nat
        BY <1>2, <4>1 DEF Review
      <4>3. day - Reminder!reviews[r].notice >= FollowupDelay
        BY <1>2, <4>1, <4>2
      <4> QED
        BY <1>1, <4>1, <4>3 DEF ReminderInv, DueVisited, Visited
    <3>2. \A r \in Watched : l[r].followup \/ (l[r].status = "deleted" /\ l[r].notice # 0) => r \in tried
      BY <2>1, <3>1 DEF ReminderInv, MarkedTried, Reminder!reviews, Reminder!Stores
    <3> QED
      BY <1>1, <2>2, <3>2 DEF ReminderInv, MarkedTried
  <2> QED
    BY <2>3, <2>4, <2>5 DEF ReminderInv
<1> QED
  BY <1>1, <1>4, <1>5

\* A restart forgets the pass, and with it whose message is not marked in the file.
LEMMA ReminderRestart ==
    ASSUME ReminderInv, Reminder!Restart PROVE ReminderInv'
<1>1. /\ ledger' = [x \in Reminder!Stores |-> ledger["file"]] /\ pass' = Reminder!Booted
      /\ remindersInDoubt' = remindersInDoubt \cup {r \in Watched : Reminder!Forgets(r)}
      /\ UNCHANGED <<day, asked, tried, reported>>
  BY DEF Reminder!Restart
<1>2. pass' \in Passes /\ pass'.pc = "booted" /\ ~pass'.cleans
  BY <1>1 DEF Reminder!Booted, Passes
<1>3. Reminder!reviews' = ledger["file"] /\ "file" \in Reminder!Stores
  BY <1>1 DEF Reminder!reviews, Reminder!Stores
<1>4. \A r \in Watched : r \notin remindersInDoubt' =>
         /\ r \notin remindersInDoubt /\ r \notin pass.sent
         /\ Reminder!reviews[r] = ledger["file"][r]
  BY <1>1 DEF Reminder!Forgets
<1>5. ReminderTyped'
  BY <1>1, <1>2, <1>3 DEF ReminderInv, ReminderTyped
<1>6. AskedKnown' /\ ReportedKnown'
  BY <1>1, <1>2, <1>3, <1>4 DEF ReminderInv, AskedKnown, ReportedKnown
<1>7. DueVisited' /\ MarkedTried'
  BY <1>1, <1>2, <1>3 DEF ReminderInv, DueVisited, MarkedTried
<1> QED
  BY <1>5, <1>6, <1>7 DEF ReminderInv

\* The other parts leave this one alone.
LEMMA ReminderKept == ASSUME ReminderInv, [Next]_vars PROVE ReminderInv'
<1>1. CASE Reminder!Next
  BY <1>1, ConstantsOK, AsideStep, RequestStep, BeginStep, FollowupStep, FollowupMarkStep,
     CollectStep, ReportStep, RememberStep, CleanupStep, ReminderRestart DEF Reminder!Next
<1>2. CASE UNCHANGED reminderVars
  BY <1>2 DEF reminderVars, ReminderInv, ReminderTyped, AskedKnown, ReportedKnown, DueVisited,
       Visited, MarkedTried,
      Reminder!reviews
<1> QED
  BY <1>1, <1>2 DEF Next, vars, SummaryStep, DigestStep, RadarStep, StatusStep, ChoiceStep, ClientStep,
      ReminderStep

\* Nobody is asked twice about a request and no request is reported twice, but for want of an answer
\* or of a write, and a completed request is not deleted before its user was asked
\* (sendWatchFollowups, CollectOverdue, cleanupAt).
THEOREM EachReminderOnce == Spec => []RemindersKept
<1>1. Init => ReminderInv
  BY ReminderInit DEF Init
<1>2. ReminderInv /\ [Next]_vars => ReminderInv'
  BY ReminderKept
<1>3. ReminderInv => RemindersKept
  BY DEF ReminderInv, ReminderTyped, AskedKnown, ReportedKnown, MarkedTried, RemindersKept,
         Reminder!RemindersKept, Reminder!RemindedOnce, Reminder!AskedBeforeDeleted,
         Reminder!reviews, Reminder!Stores, Reminder!Never
<1> QED
  BY <1>1, <1>2, <1>3, PTL DEF Spec

-----------------------------------------------------------------------------
(***************************************************************************)
(* The daily summary: every chat gets the summary of a day once.           *)
(***************************************************************************)

Checks == [pc : {"idle", "pick", "history", "group", "admin", "save"}, report : Nat,
           wanted : SUBSET Admins, admin : Summary!Chats, withGroup : BOOLEAN, groupSent : BOOLEAN]

\* The part of the type that the argument needs.
SummaryTyped ==
    /\ today \in [day : Summary!Days, due : BOOLEAN]
    /\ wanting \in [Summary!Stores -> SUBSET Admins]
    /\ sent \in [Summary!Stores -> [Summary!Chats -> Nat]]
    /\ check \in Checks
    /\ received \in [Summary!Chats -> [Summary!Days -> Nat]]

\* The day whose summary is sent now, or would be.
Yesterday == IF check.pc = "idle" THEN today.day - 1 ELSE check.report

\* What a chat got is marked for it, or older, or the group's mark waits for that of the
\* administrator the check is with.
GotMarked ==
    \A c \in Summary!Chats, d \in Summary!Days \ daysInDoubt :
        /\ received[c][d] <= 1
        /\ received[c][d] > 0 => \/ d < Yesterday
                                 \/ d = Yesterday /\ sent["memory"][c] = d
                                 \/ d = Yesterday /\ c = "group" /\ check.groupSent

\* Every mark, in memory or in the file, of a day with files is of a summary that was sent.
MarkedGot ==
    /\ \A x \in Summary!Stores, c \in Summary!Chats :
         LET d == sent[x][c] IN d # 0 /\ files[d] > 0 => received[c][d] > 0
    /\ \A x \in Summary!Stores, c \in Summary!Chats : sent[x][c] = 0 \/ sent[x][c] \in Summary!Days

\* The check is with an administrator who has not had the summary, and with a group that has not.
CheckUnderway ==
    /\ check.pc # "idle" => check.report \in Summary!Days /\ check.report < today.day
    /\ check.pc \in {"history", "group", "admin"} =>
          check.admin \in Admins /\ sent["memory"][check.admin] # check.report
    /\ check.pc = "history" /\ check.withGroup => sent["memory"]["group"] # check.report
    /\ check.pc = "group" => sent["memory"]["group"] # check.report
    /\ check.groupSent => check.pc = "admin" /\ received["group"][check.report] > 0

SummaryInv == SummaryTyped /\ GotMarked /\ MarkedGot /\ CheckUnderway
-----------------------------------------------------------------------------
LEMMA SummaryInit == ASSUME MaxDays["summary"] \in Nat \ {0}, Summary!Init PROVE SummaryInv
<1>0. 1 \in Summary!Days
  BY DEF Summary!Days
<1>1. /\ today = [day |-> 1, due |-> FALSE]
      /\ check = [pc |-> "idle", report |-> 0, wanted |-> {}, admin |-> "group",
                  withGroup |-> FALSE, groupSent |-> FALSE]
      /\ sent = [x \in Summary!Stores |-> [c \in Summary!Chats |-> 0]]
      /\ wanting = [x \in Summary!Stores |-> {}]
      /\ received = [c \in Summary!Chats |-> [d \in Summary!Days |-> 0]]
  BY DEF Summary!Init, Summary!Idle, Summary!Never, Summary!Group
<1>2. SummaryTyped
  <2>1. check \in Checks
    BY <1>1 DEF Checks, Summary!Chats, Summary!Group
  <2> QED
    BY <1>0, <1>1, <2>1 DEF SummaryTyped
<1> QED
  BY <1>1, <1>2 DEF SummaryInv, GotMarked, MarkedGot, CheckUnderway

\* A day passes, its time comes; what is sent now is of an older day then, or of the same.
LEMMA TimeStep ==
    ASSUME SummaryInv, MaxDays["summary"] \in Nat, Summary!NextDay \/ Summary!TimeComes
    PROVE  SummaryInv'
<1>2. today.day \in Nat /\ check.report \in Nat
  BY DEF SummaryInv, SummaryTyped, Checks, Summary!Days
<1>1. /\ UNCHANGED <<files, wanting, sent, check, received, daysInDoubt>>
      /\ today' \in [day : Summary!Days, due : BOOLEAN] /\ today'.day \in {today.day, today.day + 1}
  <2>1. CASE Summary!NextDay
    BY <1>2, <2>1 DEF Summary!NextDay, Summary!Days
  <2>2. CASE Summary!TimeComes
    BY <2>2 DEF Summary!TimeComes, SummaryInv, SummaryTyped
  <2> QED
    BY <2>1, <2>2
<1>3. SummaryTyped'
  BY <1>1 DEF SummaryInv, SummaryTyped
<1>4. Yesterday \in Int /\ Yesterday' \in {Yesterday, Yesterday + 1}
  BY <1>1, <1>2 DEF Yesterday
<1>5. GotMarked'
  <2> SUFFICES ASSUME NEW c \in Summary!Chats, NEW d \in Summary!Days, d \notin daysInDoubt,
                      received[c][d] > 0
               PROVE  \/ d < Yesterday'
                      \/ d = Yesterday' /\ sent["memory"][c] = d
                      \/ d = Yesterday' /\ c = "group" /\ check.groupSent
    BY <1>1 DEF SummaryInv, GotMarked, Yesterday
  <2>1. \/ d < Yesterday
        \/ d = Yesterday /\ sent["memory"][c] = d
        \/ d = Yesterday /\ c = "group" /\ check.groupSent
    BY DEF SummaryInv, GotMarked
  <2>2. d \in Int
    BY DEF Summary!Days
  <2> QED
    BY <1>4, <2>1, <2>2
<1>6. MarkedGot' /\ CheckUnderway'
  BY <1>1, <1>2 DEF SummaryInv, MarkedGot, CheckUnderway
<1> QED
  BY <1>3, <1>5, <1>6 DEF SummaryInv

\* What a write leaves of the marks.
LEMMA MarksSaved ==
    ASSUME SummaryTyped, NEW e \in SUBSET Admins, Summary!Save(e, sent["memory"])
    PROVE  /\ wanting' \in [Summary!Stores -> SUBSET Admins]
           /\ sent' \in [Summary!Stores -> [Summary!Chats -> Nat]]
           /\ sent'["memory"] = sent["memory"] /\ sent'["file"] \in {sent["file"], sent["memory"]}
  BY DEF SummaryTyped, Summary!Save, Summary!Stores

\* Settings and marks are written together.
LEMMA SaveMarksStep ==
    ASSUME SummaryInv, NEW e \in SUBSET Admins, Summary!Save(e, sent["memory"]),
           UNCHANGED <<today, files, received, daysInDoubt>>,
           \/ UNCHANGED check
           \/ check.pc = "save" /\ check' = [check EXCEPT !.pc = "pick"]
    PROVE  SummaryInv'
<1>1. /\ wanting' \in [Summary!Stores -> SUBSET Admins]
      /\ sent' \in [Summary!Stores -> [Summary!Chats -> Nat]]
      /\ sent'["memory"] = sent["memory"] /\ sent'["file"] \in {sent["file"], sent["memory"]}
  BY MarksSaved DEF SummaryInv
<1>2. /\ check' \in Checks /\ check'.report = check.report /\ check'.groupSent = check.groupSent
      /\ check'.admin = check.admin
      /\ \/ check' = check
         \/ check.pc = "save" /\ check'.pc = "pick"
  BY DEF SummaryInv, SummaryTyped, Checks
<1>3. SummaryTyped' /\ Yesterday' = Yesterday
  BY <1>1, <1>2 DEF SummaryInv, SummaryTyped, Yesterday
<1>4. GotMarked'
  BY <1>1, <1>2, <1>3 DEF SummaryInv, GotMarked
<1>5. MarkedGot'
  BY <1>1 DEF SummaryInv, MarkedGot, Summary!Stores
<1>6. CheckUnderway'
  BY <1>1, <1>2 DEF SummaryInv, CheckUnderway
<1> QED
  BY <1>3, <1>4, <1>5, <1>6 DEF SummaryInv

\* A check begins with the report of the day before.
LEMMA BeginCheckStep ==
    ASSUME SummaryInv, MaxDays["summary"] \in Nat, Summary!CheckAndSendDailySummaries
    PROVE  SummaryInv'
<1> DEFINE w == wanting["memory"]
           d == today.day - 1
<1>1. /\ check.pc = "idle" /\ UNCHANGED <<today, files, wanting, sent, received, daysInDoubt>>
      /\ check' = [pc |-> "pick", report |-> d, wanted |-> w, admin |-> "group",
                   withGroup |-> FALSE, groupSent |-> FALSE]
  BY DEF Summary!CheckAndSendDailySummaries, Summary!Idle, Summary!Group
<1>2. w \in SUBSET Admins
  BY DEF SummaryInv, SummaryTyped, Summary!Stores
<1>3. today.day \in Summary!Days /\ d \in Summary!Days /\ d < today.day /\ d \in Nat
  BY DEF Summary!CheckAndSendDailySummaries, SummaryInv, SummaryTyped, Summary!Days
<1> HIDE DEF w
<1>4. /\ check' \in Checks /\ check'.pc = "pick" /\ check'.report = d /\ ~check'.groupSent
  BY <1>1, <1>2, <1>3 DEF Checks, Summary!Group, Summary!Chats
<1>5. SummaryTyped'
  BY <1>1, <1>4 DEF SummaryInv, SummaryTyped
<1>6. Yesterday' = Yesterday /\ ~check.groupSent
  BY <1>1, <1>4 DEF Yesterday, SummaryInv, CheckUnderway
<1>7. GotMarked'
  BY <1>1, <1>6 DEF SummaryInv, GotMarked
<1>8. MarkedGot' /\ CheckUnderway'
  BY <1>1, <1>3, <1>4 DEF SummaryInv, MarkedGot, CheckUnderway
<1> QED
  BY <1>5, <1>7, <1>8 DEF SummaryInv

\* The check goes to an administrator who has not had the report, passes over one, or ends.
LEMMA PickStep ==
    ASSUME SummaryInv, MaxDays["summary"] \in Nat, Summary!Pick PROVE SummaryInv'
<1>1. /\ check.pc = "pick" /\ check \in Checks /\ ~check.groupSent
      /\ UNCHANGED <<today, files, wanting, sent, received, daysInDoubt>>
  BY DEF Summary!Pick, SummaryInv, SummaryTyped, CheckUnderway
<1>2. check.report \in Summary!Days /\ check.report < today.day
  BY <1>1 DEF SummaryInv, CheckUnderway
<1>3. MarkedGot'
  BY <1>1 DEF SummaryInv, MarkedGot
<1>4. CASE check' = Summary!Idle
  <2>1. check' \in Checks /\ check'.pc = "idle" /\ ~check'.groupSent
    BY <1>4 DEF Summary!Idle, Summary!Never, Summary!Group, Summary!Chats, Checks
  <2>2. /\ Yesterday = check.report /\ Yesterday' = today.day - 1
        /\ check.report \in Int /\ today.day \in Int
    BY <1>1, <1>2, <2>1 DEF Yesterday, SummaryInv, SummaryTyped, Summary!Days
  <2>3. GotMarked'
    <3> SUFFICES ASSUME NEW c \in Summary!Chats, NEW d \in Summary!Days, d \notin daysInDoubt,
                        received[c][d] > 0
                 PROVE  d < Yesterday' \/ (d = Yesterday' /\ sent["memory"][c] = d)
      BY <1>1 DEF SummaryInv, GotMarked
    <3>1. d < Yesterday \/ (d = Yesterday /\ sent["memory"][c] = d)
      BY <1>1 DEF SummaryInv, GotMarked
    <3>2. d \in Int
      BY DEF Summary!Days
    <3> QED
      BY <1>2, <2>2, <3>1, <3>2
  <2> QED
    BY <1>1, <1>3, <2>1, <2>3 DEF SummaryInv, SummaryTyped, CheckUnderway
<1>5. ASSUME NEW a \in check.wanted,
             \/ /\ Summary!DailySummaryDue(a)
                /\ check' = [check EXCEPT !.pc = "history", !.wanted = @ \ {a}, !.admin = a,
                               !.withGroup = sent["memory"]["group"] # check.report,
                               !.groupSent = FALSE]
             \/ check' = [check EXCEPT !.wanted = @ \ {a}]
      PROVE  SummaryInv'
  <2>1. a \in Admins /\ a \in Summary!Chats
    BY <1>1 DEF Checks, Summary!Chats
  <2>2. /\ check' \in Checks /\ check'.report = check.report /\ ~check'.groupSent
        /\ \/ /\ check'.pc = "history" /\ check'.admin = a
              /\ check'.withGroup = (sent["memory"]["group"] # check.report)
              /\ sent["memory"][a] # check.report
           \/ check'.pc = "pick"
    <3>1. check \in Checks
      BY <1>1
    <3>2. CASE /\ Summary!DailySummaryDue(a)
               /\ check' = [check EXCEPT !.pc = "history", !.wanted = @ \ {a}, !.admin = a,
                               !.withGroup = sent["memory"]["group"] # check.report,
                               !.groupSent = FALSE]
      <4>1. PICK b \in BOOLEAN : b = (sent["memory"]["group"] # check.report)
        OBVIOUS
      <4>2. check' = [check EXCEPT !.pc = "history", !.wanted = @ \ {a}, !.admin = a,
                                   !.withGroup = b, !.groupSent = FALSE]
        BY <3>2, <4>1
      <4>3. /\ check' \in Checks /\ check'.report = check.report /\ ~check'.groupSent
            /\ check'.pc = "history" /\ check'.admin = a /\ check'.withGroup = b
        BY <2>1, <3>1, <4>2 DEF Checks
      <4> QED
        BY <3>2, <4>1, <4>3 DEF Summary!DailySummaryDue
    <3>3. CASE check' = [check EXCEPT !.wanted = @ \ {a}]
      BY <1>1, <3>1, <3>3 DEF Checks
    <3> QED
      BY <1>5, <3>2, <3>3
  <2>3. Yesterday' = Yesterday
    BY <1>1, <2>2 DEF Yesterday
  <2>4. SummaryTyped' /\ GotMarked'
    BY <1>1, <2>2, <2>3 DEF SummaryInv, SummaryTyped, GotMarked
  <2>5. CheckUnderway'
    BY <1>1, <1>2, <2>1, <2>2 DEF CheckUnderway
  <2> QED
    BY <1>3, <2>4, <2>5 DEF SummaryInv
<1> QED
  BY <1>4, <1>5 DEF Summary!Pick, Summary!Group
-----------------------------------------------------------------------------
\* What a chat gets.
LEMMA GetsEffect ==
    ASSUME SummaryTyped, NEW c \in Summary!Chats, check.report \in Summary!Days, Summary!Gets(c)
    PROVE  /\ received' \in [Summary!Chats -> [Summary!Days -> Nat]]
           /\ received'[c][check.report] = received[c][check.report] + 1
           /\ \A b \in Summary!Chats, d \in Summary!Days :
                 b # c \/ d # check.report => received'[b][d] = received[b][d]
  BY DEF SummaryTyped, Summary!Gets

\* The marks of an administrator, and of the group if it got the report.
LEMMA MarkedEffect ==
    ASSUME SummaryTyped, check.admin \in Admins, "group" \notin Admins, Summary!Marked
    PROVE  /\ sent' \in [Summary!Stores -> [Summary!Chats -> Nat]]
           /\ sent'["file"] = sent["file"]
           /\ sent'["memory"][check.admin] = check.report
           /\ check.groupSent => sent'["memory"]["group"] = check.report
           /\ ~check.groupSent => sent'["memory"]["group"] = sent["memory"]["group"]
           /\ \A c \in Summary!Chats : c \notin {check.admin, "group"} => sent'["memory"][c] = sent["memory"][c]
           /\ check' \in Checks /\ check'.pc = "save" /\ ~check'.groupSent
           /\ check'.report = check.report
<1>1. check \in Checks /\ sent \in [Summary!Stores -> [Summary!Chats -> Nat]]
  BY DEF SummaryTyped
<1>2. check' = [check EXCEPT !.pc = "save", !.groupSent = FALSE]
  BY DEF Summary!Marked
<1>3. check' \in Checks /\ check'.pc = "save" /\ ~check'.groupSent /\ check'.report = check.report
  BY <1>1, <1>2 DEF Checks
<1> DEFINE d == check.report
           a == check.admin
<1>4. d \in Nat /\ a \in Summary!Chats /\ "group" \in Summary!Chats /\ a # "group"
  BY <1>1 DEF Checks, Summary!Chats, Summary!Group
<1>5. CASE check.groupSent
  <2>1. sent' = [sent EXCEPT !["memory"] = [@ EXCEPT ![a] = d, !["group"] = d]]
    BY <1>5 DEF Summary!Marked, Summary!Group
  <2> HIDE DEF d, a
  <2>2. /\ sent' \in [Summary!Stores -> [Summary!Chats -> Nat]] /\ sent'["file"] = sent["file"]
        /\ sent'["memory"] = [sent["memory"] EXCEPT ![a] = d, !["group"] = d]
    BY <1>1, <1>4, <2>1 DEF Summary!Stores
  <2>3. sent["memory"] \in [Summary!Chats -> Nat]
    BY <1>1 DEF Summary!Stores
  <2>4. /\ sent'["memory"][a] = d /\ sent'["memory"]["group"] = d
        /\ \A c \in Summary!Chats : c \notin {a, "group"} => sent'["memory"][c] = sent["memory"][c]
    BY <1>4, <2>2, <2>3
  <2> QED
    BY <1>3, <1>5, <2>2, <2>4 DEF d, a
<1>6. CASE ~check.groupSent
  <2>1. sent' = [sent EXCEPT !["memory"][a] = d, !["memory"]["group"] = @]
    BY <1>6 DEF Summary!Marked, Summary!Group
  <2> HIDE DEF d, a
  <2>2. /\ sent' \in [Summary!Stores -> [Summary!Chats -> Nat]] /\ sent'["file"] = sent["file"]
        /\ \A c \in Summary!Chats :
              sent'["memory"][c] = IF c = a THEN d ELSE sent["memory"][c]
    BY <1>1, <1>4, <2>1 DEF Summary!Stores
  <2> QED
    BY <1>3, <1>4, <1>6, <2>2 DEF d, a
<1> QED
  BY <1>5, <1>6

\* What a chat got, and what is marked for it, of the report of a check that goes on.
LEMMA SentStep ==
    ASSUME SummaryInv, check.pc # "idle", UNCHANGED <<today, files, wanting>>,
           check' \in Checks, check'.pc # "idle", check'.report = check.report, CheckUnderway',
           sent' \in [Summary!Stores -> [Summary!Chats -> Nat]], sent'["file"] = sent["file"],
           received' \in [Summary!Chats -> [Summary!Days -> Nat]],
           daysInDoubt \subseteq daysInDoubt',
           \A c \in Summary!Chats :
              \/ sent'["memory"][c] = sent["memory"][c]
              \/ /\ sent'["memory"][c] = check.report
                 /\ files[check.report] > 0 => received'[c][check.report] > 0,
           \A c \in Summary!Chats, d \in Summary!Days :
              \/ received'[c][d] = received[c][d]
              \/ received[c][d] = 0 /\ received'[c][d] = 1
              \/ d \in daysInDoubt' /\ received'[c][d] > received[c][d],
           \A c \in Summary!Chats, d \in Summary!Days \ daysInDoubt' :
              received'[c][d] > 0 => \/ d < check.report
                                     \/ d = check.report /\ sent'["memory"][c] = d
                                     \/ d = check.report /\ c = "group" /\ check'.groupSent
    PROVE  SummaryInv'
<1>1. SummaryTyped'
  BY DEF SummaryInv, SummaryTyped
<1>2. check.report \in Summary!Days /\ Yesterday' = check.report
  BY DEF SummaryInv, CheckUnderway, Yesterday
<1>3. GotMarked'
  <2> SUFFICES ASSUME NEW c \in Summary!Chats, NEW d \in Summary!Days \ daysInDoubt'
               PROVE  received'[c][d] <= 1
    BY <1>2 DEF GotMarked
  <2>1. received[c][d] <= 1 /\ received[c][d] \in Nat
    BY DEF SummaryInv, SummaryTyped, GotMarked
  <2> QED
    BY <2>1
<1>4. MarkedGot'
  <2> SUFFICES ASSUME NEW x \in Summary!Stores, NEW c \in Summary!Chats
               PROVE  /\ sent'[x][c] # 0 /\ files[sent'[x][c]] > 0 => received'[c][sent'[x][c]] > 0
                      /\ sent'[x][c] = 0 \/ sent'[x][c] \in Summary!Days
    BY DEF MarkedGot
  <2>1. /\ sent[x][c] = 0 \/ sent[x][c] \in Summary!Days
        /\ sent[x][c] # 0 /\ files[sent[x][c]] > 0 => received[c][sent[x][c]] > 0
    BY DEF SummaryInv, MarkedGot
  <2>2. ASSUME NEW d \in Summary!Days, received[c][d] > 0 PROVE received'[c][d] > 0
    <3>1. received[c][d] \in Nat /\ received'[c][d] \in Nat
      BY DEF SummaryInv, SummaryTyped
    <3> QED
      BY <2>2, <3>1
  <2>3. CASE sent'[x][c] = sent[x][c]
    BY <2>1, <2>2, <2>3
  <2>4. CASE sent'[x][c] # sent[x][c]
    <3>1. sent'[x][c] = check.report /\ (files[check.report] > 0 => received'[c][check.report] > 0)
      BY <2>4 DEF Summary!Stores
    <3> QED
      BY <1>2, <3>1
  <2> QED
    BY <2>3, <2>4
<1> QED
  BY <1>1, <1>3, <1>4 DEF SummaryInv

\* What the conjuncts say of the report of a check that goes on.
LEMMA OfTheReport ==
    ASSUME SummaryInv, check.pc # "idle"
    PROVE  \A c \in Summary!Chats, d \in Summary!Days :
              /\ received[c][d] \in Nat
              /\ d \notin daysInDoubt /\ received[c][d] > 0 =>
                    \/ d < check.report
                    \/ d = check.report /\ sent["memory"][c] = d
                    \/ d = check.report /\ c = "group" /\ check.groupSent
  BY DEF SummaryInv, SummaryTyped, GotMarked, Yesterday

\* The check learns what MoviePilot transferred.
LEMMA HistoryStep ==
    ASSUME SummaryInv, "group" \notin Admins, Summary!History PROVE SummaryInv'
<1>1. /\ check.pc = "history" /\ check \in Checks /\ ~check.groupSent /\ check.admin \in Admins
      /\ UNCHANGED <<today, files, wanting, received, daysInDoubt>>
  BY DEF Summary!History, SummaryInv, SummaryTyped, CheckUnderway
<1>2. check.report \in Summary!Days /\ check.report < today.day /\ check.admin \in Summary!Chats
  BY <1>1 DEF SummaryInv, CheckUnderway, Checks
<1>3. CASE Summary!Marked /\ files[check.report] = 0
  <2>1. /\ sent' \in [Summary!Stores -> [Summary!Chats -> Nat]] /\ sent'["file"] = sent["file"]
        /\ \A c \in Summary!Chats :
              sent'["memory"][c] = IF c = check.admin THEN check.report ELSE sent["memory"][c]
        /\ check' \in Checks /\ check'.pc = "save" /\ ~check'.groupSent
        /\ check'.report = check.report
    BY <1>1, <1>3, MarkedEffect DEF SummaryInv
  <2>2. CheckUnderway'
    BY <1>1, <1>2, <2>1 DEF CheckUnderway
  <2>3. \A c \in Summary!Chats, d \in Summary!Days \ daysInDoubt :
           received[c][d] > 0 => d < check.report \/ (d = check.report /\ sent'["memory"][c] = d)
    BY <1>1, <2>1, OfTheReport
  <2>4. received' \in [Summary!Chats -> [Summary!Days -> Nat]]
    BY <1>1 DEF SummaryInv, SummaryTyped
  <2> QED
    BY <1>1, <1>3, <2>1, <2>2, <2>3, <2>4, SentStep
<1>4. CASE /\ \/ check' = [check EXCEPT !.pc = "pick"]
              \/ check' = [check EXCEPT !.pc = IF check.withGroup THEN "group" ELSE "admin"]
           /\ UNCHANGED sent
  <2>1. /\ check' \in Checks /\ check'.report = check.report /\ ~check'.groupSent
        /\ check'.admin = check.admin /\ check'.withGroup = check.withGroup
        /\ \/ check'.pc = "pick"
           \/ check'.pc = "group" /\ check.withGroup
           \/ check'.pc = "admin"
    BY <1>1, <1>4 DEF Checks
  <2>2. Yesterday' = Yesterday
    BY <1>1, <2>1 DEF Yesterday
  <2>3. SummaryTyped' /\ GotMarked' /\ MarkedGot'
    BY <1>1, <1>4, <2>1, <2>2 DEF SummaryInv, SummaryTyped, GotMarked, MarkedGot
  <2>4. CheckUnderway'
    BY <1>1, <1>2, <1>4, <2>1 DEF SummaryInv, CheckUnderway
  <2> QED
    BY <2>3, <2>4 DEF SummaryInv
<1> QED
  BY <1>3, <1>4 DEF Summary!History

\* The group gets the report if it has not had it, or nobody knows whether it did.
LEMMA SendToGroupStep == ASSUME SummaryInv, Summary!SendToGroup PROVE SummaryInv'
<1>1. /\ check.pc = "group" /\ check \in Checks /\ ~check.groupSent
      /\ check.admin \in Admins /\ sent["memory"][check.admin] # check.report
      /\ UNCHANGED <<today, files, wanting, sent>> /\ sent["memory"]["group"] # check.report
      /\ sent \in [Summary!Stores -> [Summary!Chats -> Nat]]
  BY DEF Summary!SendToGroup, SummaryInv, SummaryTyped, CheckUnderway
<1>2. /\ check.report \in Summary!Days /\ check.report < today.day /\ check.report \in Int
      /\ "group" \in Summary!Chats
  BY <1>1 DEF SummaryInv, CheckUnderway, Checks, Summary!Chats, Summary!Group
<1>3. \A c \in Summary!Chats, d \in Summary!Days :
         /\ received[c][d] \in Nat
         /\ d \notin daysInDoubt /\ received[c][d] > 0 =>
               d < check.report \/ (d = check.report /\ sent["memory"][c] = d)
  BY <1>1, OfTheReport
<1>4. daysInDoubt \subseteq daysInDoubt'
  BY DEF Summary!SendToGroup
<1>5. CASE UNCHANGED received /\ check' = [check EXCEPT !.pc = "pick"]
  <2>1. /\ check' \in Checks /\ check'.pc = "pick" /\ check'.report = check.report
        /\ ~check'.groupSent
    BY <1>1, <1>5 DEF Checks
  <2>2. CheckUnderway' /\ received' \in [Summary!Chats -> [Summary!Days -> Nat]]
    BY <1>1, <1>2, <1>5, <2>1 DEF CheckUnderway, SummaryInv, SummaryTyped
  <2> QED
    BY <1>1, <1>3, <1>4, <1>5, <2>1, <2>2, SentStep
<1>6. ASSUME Summary!Gets("group"),
             \/ check' = [check EXCEPT !.pc = "admin", !.groupSent = TRUE]
             \/ check' = [check EXCEPT !.pc = "pick"] /\ check.report \in daysInDoubt'
      PROVE  SummaryInv'
  <2>1. /\ check' \in Checks /\ check'.report = check.report /\ check'.admin = check.admin
        /\ \/ check'.pc = "admin" /\ check'.groupSent
           \/ check'.pc = "pick" /\ ~check'.groupSent /\ check.report \in daysInDoubt'
    BY <1>1, <1>6 DEF Checks
  <2>2. /\ received' \in [Summary!Chats -> [Summary!Days -> Nat]]
        /\ received'["group"][check.report] = received["group"][check.report] + 1
        /\ \A b \in Summary!Chats, d \in Summary!Days :
              b # "group" \/ d # check.report => received'[b][d] = received[b][d]
    BY <1>2, <1>6, GetsEffect DEF SummaryInv
  <2>3. received["group"][check.report] \in Nat
    BY <1>2, <1>3
  <2>4. received'["group"][check.report] > 0
    BY <2>2, <2>3
  <2>5. CheckUnderway'
    BY <1>1, <1>2, <2>1, <2>4 DEF CheckUnderway
  <2>6. \/ received["group"][check.report] = 0 /\ received'["group"][check.report] = 1
        \/ /\ check.report \in daysInDoubt'
           /\ received'["group"][check.report] > received["group"][check.report]
    BY <1>1, <1>2, <1>3, <1>4, <2>2, <2>3
  <2>7. \A c \in Summary!Chats, d \in Summary!Days :
           \/ received'[c][d] = received[c][d]
           \/ received[c][d] = 0 /\ received'[c][d] = 1
           \/ d \in daysInDoubt' /\ received'[c][d] > received[c][d]
    BY <2>2, <2>6
  <2>8. \A c \in Summary!Chats, d \in Summary!Days \ daysInDoubt' :
           received'[c][d] > 0 => \/ d < check.report
                                  \/ d = check.report /\ sent'["memory"][c] = d
                                  \/ d = check.report /\ c = "group" /\ check'.groupSent
    BY <1>1, <1>3, <1>4, <2>1, <2>2
  <2> QED
    BY <1>1, <1>4, <2>1, <2>2, <2>5, <2>7, <2>8, SentStep
<1> QED
  BY <1>5, <1>6 DEF Summary!SendToGroup, Summary!Group

\* The group's mark, when the report could not be sent to the administrator.
LEMMA MarkGroupEffect ==
    ASSUME SummaryTyped, Summary!MarkGroup
    PROVE  /\ sent' \in [Summary!Stores -> [Summary!Chats -> Nat]]
           /\ sent'["file"] = sent["file"]
           /\ \A c \in Summary!Chats :
                 sent'["memory"][c] = IF c = "group" /\ check.groupSent THEN check.report
                                      ELSE sent["memory"][c]
           /\ check' \in Checks /\ check'.pc \in {"save", "pick"} /\ ~check'.groupSent
           /\ check'.report = check.report
<1>1. /\ check \in Checks /\ check.report \in Nat /\ "group" \in Summary!Chats
      /\ sent \in [Summary!Stores -> [Summary!Chats -> Nat]]
  BY DEF SummaryTyped, Checks, Summary!Chats, Summary!Group
<1>2. CASE check.groupSent
  <2>1. /\ sent' = [sent EXCEPT !["memory"]["group"] = check.report]
        /\ check' = [check EXCEPT !.pc = "save", !.groupSent = FALSE]
    BY <1>2 DEF Summary!MarkGroup, Summary!Group
  <2>2. /\ check' \in Checks /\ check'.pc = "save" /\ ~check'.groupSent
        /\ check'.report = check.report
    BY <1>1, <2>1 DEF Checks
  <2>3. /\ sent' \in [Summary!Stores -> [Summary!Chats -> Nat]]
        /\ sent'["file"] = sent["file"]
        /\ \A c \in Summary!Chats :
              sent'["memory"][c] = IF c = "group" THEN check.report ELSE sent["memory"][c]
    BY <1>1, <2>1 DEF Summary!Stores
  <2> QED
    BY <1>2, <2>2, <2>3
<1>3. CASE ~check.groupSent
  <2>1. check' = [check EXCEPT !.pc = "pick"] /\ sent' = sent
    BY <1>3 DEF Summary!MarkGroup
  <2>2. /\ check' \in Checks /\ check'.pc = "pick" /\ ~check'.groupSent
        /\ check'.report = check.report
    BY <1>1, <1>3, <2>1 DEF Checks
  <2> QED
    BY <1>1, <1>3, <2>1, <2>2
<1> QED
  BY <1>2, <1>3

\* The administrator, who has not had the report, gets it, or nobody knows whether he did.
LEMMA SendToAdminStep ==
    ASSUME SummaryInv, "group" \notin Admins, Summary!SendToAdmin PROVE SummaryInv'
<1> DEFINE a == check.admin
           d == check.report
<1>1. /\ check.pc = "admin" /\ check \in Checks /\ UNCHANGED <<today, files, wanting>>
      /\ a \in Admins /\ sent["memory"][a] # d /\ SummaryTyped
      /\ check.groupSent => received["group"][d] > 0
  BY DEF Summary!SendToAdmin, SummaryInv, SummaryTyped, CheckUnderway
<1>2. d \in Summary!Days /\ d < today.day /\ a \in Summary!Chats /\ a # "group" /\ d \in Int
  BY <1>1 DEF SummaryInv, CheckUnderway, Checks
<1>3. \A c \in Summary!Chats, e \in Summary!Days :
         /\ received[c][e] \in Nat
         /\ e \notin daysInDoubt /\ received[c][e] > 0 =>
               e < d \/ (e = d /\ sent["memory"][c] = e) \/ (e = d /\ c = "group" /\ check.groupSent)
  BY <1>1, OfTheReport
<1>4. daysInDoubt \subseteq daysInDoubt'
  BY DEF Summary!SendToAdmin
<1>5. CASE UNCHANGED received
  <2>1. Summary!MarkGroup
    <3> SUFFICES ASSUME Summary!Gets(a) PROVE FALSE
      BY DEF Summary!SendToAdmin
    <3>1. received'[a][d] = received[a][d] + 1
      BY <1>1, <1>2, GetsEffect
    <3> QED
      BY <1>2, <1>3, <1>5, <3>1
  <2>2. /\ sent' \in [Summary!Stores -> [Summary!Chats -> Nat]] /\ sent'["file"] = sent["file"]
        /\ \A c \in Summary!Chats :
              sent'["memory"][c] = IF c = "group" /\ check.groupSent THEN d ELSE sent["memory"][c]
        /\ check' \in Checks /\ check'.pc \in {"save", "pick"} /\ ~check'.groupSent
        /\ check'.report = d
    BY <1>1, <2>1, MarkGroupEffect
  <2>3. CheckUnderway' /\ received' \in [Summary!Chats -> [Summary!Days -> Nat]]
    BY <1>1, <1>2, <1>5, <2>2 DEF CheckUnderway, SummaryTyped
  <2>4. \A c \in Summary!Chats :
           \/ sent'["memory"][c] = sent["memory"][c]
           \/ sent'["memory"][c] = d /\ (files[d] > 0 => received'[c][d] > 0)
    BY <1>1, <1>5, <2>2
  <2>5. \A c \in Summary!Chats, e \in Summary!Days \ daysInDoubt' :
           received'[c][e] > 0 => \/ e < d
                                  \/ e = d /\ sent'["memory"][c] = e
                                  \/ e = d /\ c = "group" /\ check'.groupSent
    BY <1>3, <1>4, <1>5, <2>2
  <2> QED
    BY <1>1, <1>4, <1>5, <2>2, <2>3, <2>4, <2>5, SentStep
<1>6. ASSUME Summary!Gets(a), Summary!Marked \/ (Summary!MarkGroup /\ d \in daysInDoubt')
      PROVE  SummaryInv'
  <2>1. /\ received' \in [Summary!Chats -> [Summary!Days -> Nat]]
        /\ received'[a][d] = received[a][d] + 1
        /\ \A b \in Summary!Chats, e \in Summary!Days :
              b # a \/ e # d => received'[b][e] = received[b][e]
    BY <1>1, <1>2, <1>6, GetsEffect
  <2>2. received'[a][d] > 0 /\ (check.groupSent => received'["group"][d] > 0)
    <3>1. "group" \in Summary!Chats
      BY DEF Summary!Chats, Summary!Group
    <3> QED
      BY <1>1, <1>2, <1>3, <2>1, <3>1
  <2>3. /\ sent' \in [Summary!Stores -> [Summary!Chats -> Nat]] /\ sent'["file"] = sent["file"]
        /\ \A c \in Summary!Chats :
              \/ sent'["memory"][c] = sent["memory"][c]
              \/ c = a /\ sent'["memory"][c] = d
              \/ c = "group" /\ check.groupSent /\ sent'["memory"][c] = d
        /\ sent'["memory"][a] = d \/ d \in daysInDoubt'
        /\ check.groupSent => sent'["memory"]["group"] = d
        /\ check' \in Checks /\ check'.pc \in {"save", "pick"} /\ ~check'.groupSent
        /\ check'.report = d
    <3>1. CASE Summary!Marked
      BY <1>1, <3>1, MarkedEffect
    <3>2. CASE Summary!MarkGroup /\ d \in daysInDoubt'
      <4>1. "group" \in Summary!Chats
        BY DEF Summary!Chats, Summary!Group
      <4> QED
        BY <1>1, <3>2, <4>1, MarkGroupEffect
    <3> QED
      BY <1>6, <3>1, <3>2
  <2>4. CheckUnderway'
    BY <1>1, <1>2, <2>3 DEF CheckUnderway
  <2>5. \A c \in Summary!Chats :
           \/ sent'["memory"][c] = sent["memory"][c]
           \/ sent'["memory"][c] = d /\ (files[d] > 0 => received'[c][d] > 0)
    BY <2>2, <2>3
  <2>6. \/ received[a][d] = 0 /\ received'[a][d] = 1
        \/ d \in daysInDoubt' /\ received'[a][d] > received[a][d]
    BY <1>1, <1>2, <1>3, <1>4, <2>1
  <2>7. \A c \in Summary!Chats, e \in Summary!Days :
           \/ received'[c][e] = received[c][e]
           \/ received[c][e] = 0 /\ received'[c][e] = 1
           \/ e \in daysInDoubt' /\ received'[c][e] > received[c][e]
    BY <2>1, <2>6
  <2>8. \A c \in Summary!Chats, e \in Summary!Days \ daysInDoubt' :
           received'[c][e] > 0 => \/ e < d
                                  \/ e = d /\ sent'["memory"][c] = e
                                  \/ e = d /\ c = "group" /\ check'.groupSent
    BY <1>2, <1>3, <1>4, <2>1, <2>3
  <2> QED
    BY <1>1, <1>4, <2>1, <2>3, <2>4, <2>5, <2>7, <2>8, SentStep
<1> QED
  BY <1>5, <1>6 DEF Summary!SendToAdmin

\* What was sent and is not in the file is in doubt; a check is of a day before today.
LEMMA SummaryRestart ==
    ASSUME SummaryInv, Summary!Restart PROVE SummaryInv'
<1>1. /\ UNCHANGED <<today, files, received>> /\ check' = Summary!Idle
      /\ wanting' = [wanting EXCEPT !["memory"] = wanting["file"]]
      /\ sent' = [sent EXCEPT !["memory"] = sent["file"]]
      /\ daysInDoubt \subseteq daysInDoubt'
      /\ \A c \in Summary!Chats :
            sent["memory"][c] # sent["file"][c] => sent["memory"][c] \in daysInDoubt'
      /\ check.groupSent => check.report \in daysInDoubt'
  BY DEF Summary!Restart
<1>2. check' \in Checks /\ check'.pc = "idle" /\ ~check'.groupSent
  BY <1>1 DEF Summary!Idle, Summary!Never, Summary!Group, Summary!Chats, Checks
<1>3. /\ sent' \in [Summary!Stores -> [Summary!Chats -> Nat]]
      /\ sent'["memory"] = sent["file"] /\ sent'["file"] = sent["file"]
      /\ wanting' \in [Summary!Stores -> SUBSET Admins]
  BY <1>1 DEF SummaryInv, SummaryTyped, Summary!Stores
<1>4. SummaryTyped'
  BY <1>1, <1>2, <1>3 DEF SummaryInv, SummaryTyped
<1>5. GotMarked'
  <2>1. Yesterday \in Int /\ Yesterday' \in Int /\ Yesterday <= Yesterday'
    BY <1>1, <1>2 DEF Yesterday, SummaryInv, SummaryTyped, CheckUnderway, Checks, Summary!Days
  <2> SUFFICES ASSUME NEW c \in Summary!Chats, NEW d \in Summary!Days, d \notin daysInDoubt',
                      received[c][d] > 0
               PROVE  d < Yesterday' \/ (d = Yesterday' /\ sent'["memory"][c] = d)
    BY <1>1 DEF SummaryInv, GotMarked
  <2>2. d \in Int
    BY DEF Summary!Days
  <2>3. \/ d < Yesterday
        \/ d = Yesterday /\ sent["memory"][c] = d
        \/ d = Yesterday /\ check.groupSent
    BY <1>1 DEF SummaryInv, GotMarked
  <2>4. CASE d = Yesterday /\ sent["memory"][c] = d
    <3>1. sent'["memory"][c] = d
      BY <1>1, <1>3, <2>4
    <3> QED
      BY <2>1, <2>2, <2>4, <3>1
  <2>5. ~(d = Yesterday /\ check.groupSent)
    BY <1>1 DEF Yesterday, SummaryInv, CheckUnderway
  <2> QED
    BY <2>1, <2>2, <2>3, <2>4, <2>5
<1>6. MarkedGot'
  BY <1>1, <1>3 DEF SummaryInv, MarkedGot, Summary!Stores
<1>7. CheckUnderway'
  BY <1>2 DEF CheckUnderway
<1> QED
  BY <1>4, <1>5, <1>6, <1>7 DEF SummaryInv

\* A switch, and the marks, reach the file together.
LEMMA SavingStep ==
    ASSUME SummaryInv,
           Summary!SaveMarks \/ (\E a \in Admins : Summary!SetDailySummaryEnabled(a))
    PROVE  SummaryInv'
<1>1. wanting["memory"] \in SUBSET Admins
  BY DEF SummaryInv, SummaryTyped, Summary!Stores
<1>2. CASE Summary!SaveMarks
  BY <1>1, <1>2, SaveMarksStep DEF Summary!SaveMarks
<1>3. ASSUME NEW a \in Admins, Summary!SetDailySummaryEnabled(a) PROVE SummaryInv'
  <2> DEFINE e == IF a \in wanting["memory"] THEN wanting["memory"] \ {a}
                  ELSE wanting["memory"] \cup {a}
  <2>1. e \in SUBSET Admins
    BY <1>1
  <2>2. Summary!Save(e, sent["memory"]) /\ UNCHANGED <<today, files, check, received, daysInDoubt>>
    BY <1>3 DEF Summary!SetDailySummaryEnabled
  <2> HIDE DEF e
  <2> QED
    BY <2>1, <2>2, SaveMarksStep
<1> QED
  BY <1>2, <1>3

\* The other parts leave this one alone.
LEMMA SummaryKept == ASSUME SummaryInv, [Next]_vars PROVE SummaryInv'
<1>1. CASE Summary!Next
  BY <1>1, ConstantsOK, TimeStep, SavingStep, BeginCheckStep, PickStep, HistoryStep,
     SendToGroupStep, SendToAdminStep, SummaryRestart DEF Summary!Next
<1>2. CASE UNCHANGED summaryVars
  BY <1>2 DEF summaryVars, SummaryInv, SummaryTyped, GotMarked, MarkedGot, CheckUnderway,
      Yesterday
<1> QED
  BY <1>1, <1>2 DEF Next, vars, SummaryStep, DigestStep, RadarStep, StatusStep, ChoiceStep, ClientStep,
      ReminderStep

\* The group and every administrator get the summary of a day once, and have got it when it is marked
\* for them (checkAndSendDailySummaries), whatever fails and whenever the program stops.
THEOREM SummaryOfADayOnce == Spec => []SummaryOnce
<1>1. Init => SummaryInv
  BY ConstantsOK, SummaryInit DEF Init
<1>2. SummaryInv /\ [Next]_vars => SummaryInv'
  BY SummaryKept
<1>3. SummaryInv => SummaryOnce
  BY DEF SummaryInv, GotMarked, MarkedGot, SummaryOnce, Summary!SummaryOnce, Summary!Stores,
         Summary!Never
<1> QED
  BY <1>1, <1>2, <1>3, PTL DEF Spec

-----------------------------------------------------------------------------
(***************************************************************************)
(* The digests: the clocks send each once.                                 *)
(***************************************************************************)

\* The part of the type that the argument needs.
DigestsTyped ==
    /\ clock \in Nat
    /\ daily \in [at : Nat, to : SUBSET Users] /\ weekly \in [at : Nat, to : SUBSET Users]
    /\ got \in [Users \X Digests!Digests -> Nat]
    /\ bound \subseteq Users /\ active \subseteq Users

\* The daily loop wakes at nine; a round lasts no longer than the day.
DailyClock ==
    /\ Digests!Part(daily.at) = 1
    /\ daily.to = {} => clock <= daily.at
    /\ daily.to # {} => clock \in {daily.at, daily.at + 1}

\* The weekly loop wakes on Mondays, or in the night after; a round lasts no longer than the day
\* after.
WeeklyClock ==
    /\ weekly.at % (3 * Week) \in 1..3
    /\ clock <= weekly.at
    /\ weekly.to # {} => clock \in {weekly.at - 3 * Week, weekly.at - 3 * Week + 1}

\* Whoever got a digest is not in the round any more, and the next round is of another day or week.
DigestsKnown ==
    /\ \A u \in Users : got[<<u, "daily">>] > 0 /\ <<u, "daily">> \notin digestsInDoubt =>
          u \notin daily.to /\ (daily.to = {} => Digests!Day(daily.at) > Digests!Day(clock))
          /\ Digests!Part(clock) # 0
    /\ \A u \in Users : got[<<u, "weekly">>] > 0 /\ <<u, "weekly">> \notin digestsInDoubt =>
          u \notin weekly.to /\ Digests!WeekOf(weekly.at) > Digests!WeekOf(clock)

DigestInv == DigestsTyped /\ DailyClock /\ WeeklyClock /\ DigestsKnown /\ Digests!DigestOnce
-----------------------------------------------------------------------------
\* What the calendar makes of the parts of days.
LEMMA DaysOfParts ==
    ASSUME NEW t \in Nat
    PROVE  /\ Digests!Day(t) \in Nat /\ Digests!Part(t) \in 0..2
           /\ t = 3 * Digests!Day(t) + Digests!Part(t)
  BY DEF Digests!Day, Digests!Part

LEMMA WeeksOfDays ==
    ASSUME NEW n \in Nat, Week \in {2, 7}
    PROVE  /\ n \div Week \in Nat /\ n % Week \in 0..(Week - 1)
           /\ n = Week * (n \div Week) + (n % Week)
<1>1. CASE Week = 2
  <2>1. n \div 2 \in Nat /\ n % 2 \in 0..1 /\ n = 2 * (n \div 2) + (n % 2)
    OBVIOUS
  <2> QED
    BY <1>1, <2>1
<1>2. CASE Week = 7
  <2>1. n \div 7 \in Nat /\ n % 7 \in 0..6 /\ n = 7 * (n \div 7) + (n % 7)
    OBVIOUS
  <2> QED
    BY <1>2, <2>1
<1> QED
  BY <1>1, <1>2

LEMMA WeeksOfParts ==
    ASSUME NEW t \in Nat, Week \in {2, 7}
    PROVE  /\ Digests!WeekOf(t) \in Nat /\ t % (3 * Week) \in 0..(3 * Week - 1)
           /\ t = 3 * Week * Digests!WeekOf(t) + (t % (3 * Week))
<1>1. CASE Week = 2
  <2>1. (t \div 3) \div 2 \in Nat /\ t % 6 \in 0..5 /\ t = 6 * ((t \div 3) \div 2) + (t % 6)
    OBVIOUS
  <2>2. Digests!WeekOf(t) = (t \div 3) \div 2 /\ 3 * Week = 6 /\ 3 * Week - 1 = 5
    BY <1>1 DEF Digests!WeekOf, Digests!Day
  <2> QED
    BY <2>1, <2>2
<1>2. CASE Week = 7
  <2>1. (t \div 3) \div 7 \in Nat /\ t % 21 \in 0..20 /\ t = 21 * ((t \div 3) \div 7) + (t % 21)
    OBVIOUS
  <2>2. Digests!WeekOf(t) = (t \div 3) \div 7 /\ 3 * Week = 21 /\ 3 * Week - 1 = 20
    BY <1>2 DEF Digests!WeekOf, Digests!Day
  <2> QED
    BY <2>1, <2>2
<1> QED
  BY <1>1, <1>2

\* A part of a day belongs to the day and to the week that it is counted from.
LEMMA PartOfDay ==
    ASSUME NEW n \in Nat, NEW p \in 0..2
    PROVE  Digests!Day(3 * n + p) = n /\ Digests!Part(3 * n + p) = p
  BY DEF Digests!Day, Digests!Part

LEMMA PartOfWeek ==
    ASSUME NEW n \in Nat, NEW r \in 0..(3 * Week - 1), Week \in {2, 7}
    PROVE  /\ Digests!WeekOf(3 * Week * n + r) = n
           /\ (3 * Week * n + r) % (3 * Week) = r
<1>1. CASE Week = 2
  BY <1>1 DEF Digests!WeekOf, Digests!Day
<1>2. CASE Week = 7
  BY <1>2 DEF Digests!WeekOf, Digests!Day
<1> QED
  BY <1>1, <1>2

\* The next run of the daily loop is at nine, today only if it is night still.
LEMMA NextNine ==
    ASSUME NEW t \in Nat
    PROVE  LET n == Digests!NextDailyRun(t)
           IN /\ n \in Nat /\ Digests!Part(n) = 1 /\ t <= n
              /\ Digests!Part(t) # 0 => Digests!Day(n) > Digests!Day(t)
<1> DEFINE d == Digests!Day(t)
           p == Digests!Part(t)
<1>1. d \in Nat /\ p \in 0..2 /\ t = 3 * d + p
  BY DaysOfParts
<1>2. Digests!NextDailyRun(t) = IF p = 0 THEN 3 * d + 1 ELSE 3 * (d + 1) + 1
  BY <1>1 DEF Digests!NextDailyRun, Digests!Morning
<1> HIDE DEF d, p
<1>3. /\ Digests!Part(3 * d + 1) = 1
      /\ Digests!Part(3 * (d + 1) + 1) = 1 /\ Digests!Day(3 * (d + 1) + 1) = d + 1
  <2>1. d + 1 \in Nat /\ 1 \in 0..2
    BY <1>1
  <2> QED
    BY <1>1, <2>1, PartOfDay
<1>4. CASE p = 0
  BY <1>1, <1>2, <1>3, <1>4 DEF p
<1>5. CASE p # 0
  BY <1>1, <1>2, <1>3, <1>5 DEF d
<1> QED
  BY <1>4, <1>5

\* The first tick of the weekly loop comes in the week after the next, on its Monday or in the
\* night after.
LEMMA FirstMonday ==
    ASSUME NEW t \in Nat, NEW x \in Digests!FirstTick(t), Week \in {2, 7}
    PROVE  /\ x \in Nat /\ x % (3 * Week) \in 1..3 /\ t <= x
           /\ Digests!WeekOf(x) > Digests!WeekOf(t)
<1> DEFINE d == Digests!Day(t)
           p == Digests!Part(t)
           w == d \div Week
           m == d % Week
<1>1. d \in Nat /\ p \in 0..2 /\ t = 3 * d + p
  BY DaysOfParts
<1>2. w \in Nat /\ m \in 0..(Week - 1) /\ d = Week * w + m
  BY <1>1, WeeksOfDays
<1>3. Digests!WeekOf(t) = w
  BY DEF Digests!WeekOf
<1> DEFINE y == t + 3 * (Week - m)
<1>5. Digests!NextWeekday(t) = y
  BY DEF Digests!NextWeekday
<1> HIDE DEF d, p, w, m
<1>6. y = 3 * Week * (w + 1) + p /\ y \in Nat
  <2>1. CASE Week = 2
    BY <1>1, <1>2, <2>1
  <2>2. CASE Week = 7
    BY <1>1, <1>2, <2>2
  <2> QED
    BY <2>1, <2>2
<1> HIDE DEF y
<1>7. Digests!Part(y) = p
  <2>1. y = 3 * (Week * (w + 1)) + p /\ Week * (w + 1) \in Nat
    <3>1. CASE Week = 2
      BY <1>1, <1>2, <1>6, <3>1
    <3>2. CASE Week = 7
      BY <1>1, <1>2, <1>6, <3>2
    <3> QED
      BY <3>1, <3>2
  <2> QED
    BY <1>1, <2>1, PartOfDay
<1>8. PICK r \in 1..3 : x = y - p + r + 3 * Week
  <2>1. PICK z \in Digests!NineHoursLater(y) : x = z + 3 * Week
    BY <1>5 DEF Digests!FirstTick, Digests!EveryWeek
  <2>2. z = y + 1 \/ (z = y + 2 /\ p = 0)
    BY <1>7, <2>1 DEF Digests!NineHoursLater, Digests!Night
  <2>3. (p + 1) \in 1..3 /\ (p = 0 => 2 \in 1..3)
    BY <1>1
  <2>4. CASE z = y + 1
    BY <1>1, <1>6, <2>1, <2>3, <2>4
  <2>5. CASE z = y + 2 /\ p = 0
    BY <1>1, <1>6, <2>1, <2>5
  <2> QED
    BY <2>2, <2>4, <2>5
<1>9. x = 3 * Week * (w + 2) + r /\ w + 2 \in Nat /\ r \in 0..(3 * Week - 1)
  <2>1. CASE Week = 2
    BY <1>1, <1>2, <1>6, <1>8, <2>1
  <2>2. CASE Week = 7
    BY <1>1, <1>2, <1>6, <1>8, <2>2
  <2> QED
    BY <2>1, <2>2
<1>10. Digests!WeekOf(x) = w + 2 /\ x % (3 * Week) = r
  BY <1>9, PartOfWeek
<1>11. x \in Nat /\ t <= x
  <2>1. CASE Week = 2
    BY <1>1, <1>2, <1>9, <2>1
  <2>2. CASE Week = 7
    BY <1>1, <1>2, <1>9, <2>2
  <2> QED
    BY <2>1, <2>2
<1> QED
  BY <1>2, <1>3, <1>10, <1>11

LEMMA DigestInit == ASSUME Week \in {2, 7}, Digests!Init PROVE DigestInv
<1>1. clock \in Nat /\ bound = {} /\ active = {}
  BY DEF Digests!Init
<1>2. /\ daily = [at |-> Digests!NextDailyRun(clock), to |-> {}]
      /\ weekly \in [at : Digests!FirstTick(clock), to : {{}}]
      /\ got = [k \in Users \X Digests!Digests |-> 0]
  BY DEF Digests!Init
<1>3. /\ daily.to = {} /\ daily.at \in Nat /\ Digests!Part(daily.at) = 1 /\ clock <= daily.at
      /\ daily \in [at : Nat, to : SUBSET Users]
  BY <1>1, <1>2, NextNine
<1>4. /\ weekly.to = {} /\ weekly.at \in Nat /\ weekly.at % (3 * Week) \in 1..3
      /\ clock <= weekly.at /\ weekly \in [at : Nat, to : SUBSET Users]
  <2>1. weekly.at \in Digests!FirstTick(clock) /\ weekly.to = {}
    BY <1>2
  <2>2. weekly.at \in Nat /\ weekly.at % (3 * Week) \in 1..3 /\ clock <= weekly.at
    BY <1>1, <2>1, FirstMonday
  <2> QED
    BY <1>2, <2>1, <2>2
<1>5. DigestsTyped /\ DailyClock /\ WeeklyClock
  BY <1>1, <1>2, <1>3, <1>4 DEF DigestsTyped, DailyClock, WeeklyClock
<1>6. DigestsKnown /\ Digests!DigestOnce
  BY <1>2 DEF DigestsKnown, Digests!DigestOnce, Digests!Digests
<1> QED
  BY <1>5, <1>6 DEF DigestInv

\* What a round of sends leaves of the digests of everybody else.
LEMMA DeliverEffect ==
    ASSUME DigestsTyped, NEW u \in Users, NEW d \in Digests!Digests,
           Digests!Deliver(u, d) \/ UNCHANGED <<got, digestsInDoubt>>
    PROVE  /\ got' \in [Users \X Digests!Digests -> Nat]
           /\ \A k \in Users \X Digests!Digests :
                 k # <<u, d>> => got'[k] = got[k] /\ (k \in digestsInDoubt' <=> k \in digestsInDoubt)
           /\ digestsInDoubt \subseteq digestsInDoubt'
           /\ <<u, d>> \notin digestsInDoubt' => got'[<<u, d>>] <= got[<<u, d>>] + 1
<1> DEFINE k == <<u, d>>
<1>1. got \in [Users \X Digests!Digests -> Nat] /\ k \in Users \X Digests!Digests
  BY DEF DigestsTyped
<1>2. \/ got' = got /\ digestsInDoubt' = digestsInDoubt
      \/ got' = [got EXCEPT ![k] = @ + 1] /\ digestsInDoubt' = digestsInDoubt
      \/ got' = [got EXCEPT ![k] = @ + 2] /\ digestsInDoubt' = digestsInDoubt \cup {k}
  BY DEF Digests!Deliver
<1> HIDE DEF k
<1>3. /\ got' \in [Users \X Digests!Digests -> Nat]
      /\ \A j \in Users \X Digests!Digests :
            j # k => got'[j] = got[j] /\ (j \in digestsInDoubt' <=> j \in digestsInDoubt)
      /\ digestsInDoubt \subseteq digestsInDoubt'
      /\ k \notin digestsInDoubt' => got'[k] <= got[k] + 1
  BY <1>1, <1>2
<1> QED
  BY <1>3 DEF k

\* A part of a day passes: with the day or the week what was got of it is forgotten.
LEMMA PassStep == ASSUME DigestInv, Week \in {2, 7}, Digests!Pass PROVE DigestInv'
<1>1. /\ clock \in Nat /\ clock' = clock + 1 /\ UNCHANGED <<daily, weekly, bound>>
      /\ active' \subseteq Users
  BY DEF Digests!Pass, DigestInv, DigestsTyped
<1>2. /\ daily.at <= clock => daily.to # {} /\ clock = daily.at
      /\ weekly.at > clock
      /\ weekly.to # {} => clock = weekly.at - 3 * Week
  BY DEF Digests!Pass, Digests!EveryWeek
<1> DEFINE over    == {d \in Digests!Digests : 
                     \/ Digests!Day(clock') # Digests!Day(clock) /\ d = "daily"
                     \/ Digests!WeekOf(clock') # Digests!WeekOf(clock) /\ d = "weekly"}
<1>3. /\ got' = [k \in Users \X Digests!Digests |-> IF k[2] \in over THEN 0 ELSE got[k]]
      /\ digestsInDoubt' = digestsInDoubt \ (Users \X over)
  BY DEF Digests!Pass
<1>4. /\ got' \in [Users \X Digests!Digests -> Nat]
      /\ \A u \in Users :
            /\ Digests!Day(clock') # Digests!Day(clock) => got'[<<u, "daily">>] = 0
            /\ Digests!Day(clock') = Digests!Day(clock) => got'[<<u, "daily">>] = got[<<u, "daily">>]
            /\ Digests!WeekOf(clock') # Digests!WeekOf(clock) => got'[<<u, "weekly">>] = 0
            /\ Digests!WeekOf(clock') = Digests!WeekOf(clock) => got'[<<u, "weekly">>] = got[<<u, "weekly">>]
            /\ Digests!Day(clock') = Digests!Day(clock) =>
                  (<<u, "daily">> \in digestsInDoubt' <=> <<u, "daily">> \in digestsInDoubt)
            /\ Digests!WeekOf(clock') = Digests!WeekOf(clock) =>
                  (<<u, "weekly">> \in digestsInDoubt' <=> <<u, "weekly">> \in digestsInDoubt)
  BY <1>3 DEF DigestInv, DigestsTyped, Digests!Digests
<1> HIDE DEF over
<1>5. DigestsTyped'
  BY <1>1, <1>4 DEF DigestInv, DigestsTyped
<1>6. DailyClock' /\ WeeklyClock'
  <2>1. daily.at \in Nat /\ weekly.at \in Nat
    BY DEF DigestInv, DigestsTyped
  <2>2. DailyClock'
    BY <1>1, <1>2, <2>1 DEF DigestInv, DailyClock
  <2>3. WeeklyClock'
    BY <1>1, <1>2, <2>1 DEF DigestInv, WeeklyClock
  <2> QED
    BY <2>2, <2>3
<1>7. Digests!Day(clock') = Digests!Day(clock) => Digests!Part(clock') # 0
  BY <1>1 DEF Digests!Day, Digests!Part
<1>8. DigestsKnown'
  <2>1. ASSUME NEW u \in Users, got'[<<u, "daily">>] > 0, <<u, "daily">> \notin digestsInDoubt'
        PROVE  /\ u \notin daily'.to /\ (daily'.to = {} => Digests!Day(daily'.at) > Digests!Day(clock'))
               /\ Digests!Part(clock') # 0
    <3> DEFINE k == <<u, "daily">>
    <3>0. /\ Digests!Day(clock') # Digests!Day(clock) => got'[k] = 0
          /\ Digests!Day(clock') = Digests!Day(clock) =>
                got'[k] = got[k] /\ (k \in digestsInDoubt' <=> k \in digestsInDoubt)
      BY <1>4
    <3>1. /\ Digests!Day(clock') = Digests!Day(clock)
          /\ got[<<u, "daily">>] > 0 /\ <<u, "daily">> \notin digestsInDoubt
      BY <2>1, <3>0
    <3> QED
      BY <1>1, <1>7, <3>1 DEF DigestInv, DigestsKnown
  <2>2. ASSUME NEW u \in Users, got'[<<u, "weekly">>] > 0, <<u, "weekly">> \notin digestsInDoubt'
        PROVE  u \notin weekly'.to /\ Digests!WeekOf(weekly'.at) > Digests!WeekOf(clock')
    <3> DEFINE k == <<u, "weekly">>
    <3>0. /\ Digests!WeekOf(clock') # Digests!WeekOf(clock) => got'[k] = 0
          /\ Digests!WeekOf(clock') = Digests!WeekOf(clock) =>
                got'[k] = got[k] /\ (k \in digestsInDoubt' <=> k \in digestsInDoubt)
      BY <1>4
    <3>1. /\ Digests!WeekOf(clock') = Digests!WeekOf(clock)
          /\ got[<<u, "weekly">>] > 0 /\ <<u, "weekly">> \notin digestsInDoubt
      BY <2>2, <3>0
    <3> QED
      BY <1>1, <3>1 DEF DigestInv, DigestsKnown
  <2> QED
    BY <2>1, <2>2 DEF DigestsKnown
<1>9. Digests!DigestOnce'
  <2> SUFFICES ASSUME NEW k \in Users \X Digests!Digests, k \notin digestsInDoubt' PROVE got'[k] <= 1
    BY DEF Digests!DigestOnce
  <2>1. CASE k[2] \in over
    BY <1>3, <2>1
  <2>2. CASE k[2] \notin over
    BY <1>3, <2>2 DEF DigestInv, Digests!DigestOnce
  <2> QED
    BY <2>1, <2>2
<1> QED
  BY <1>5, <1>6, <1>8, <1>9 DEF DigestInv

\* The daily loop wakes: nobody has had the digest of this day.
LEMMA DailyWakes ==
    ASSUME DigestInv, Digests!SendDailyRecommendations \/ Digests!NothingTrending PROVE DigestInv'
<1>1. /\ clock \in Nat /\ daily.at \in Nat /\ daily.to = {} /\ daily.at = clock
      /\ UNCHANGED <<clock, weekly, bound, active, got, digestsInDoubt>>
  BY DEF Digests!SendDailyRecommendations, Digests!NothingTrending, Digests!Wakes, DigestInv,
         DigestsTyped, DailyClock
<1>2. \/ daily' = [daily EXCEPT !.at = Digests!NextDailyRun(clock)]
      \/ bound # {} /\ daily' = [daily EXCEPT !.to = bound]
  BY DEF Digests!SendDailyRecommendations, Digests!NothingTrending
<1>3. bound \subseteq Users /\ daily \in [at : Nat, to : SUBSET Users]
  BY DEF DigestInv, DigestsTyped
<1>4. /\ daily' \in [at : Nat, to : SUBSET Users] /\ Digests!Part(daily'.at) = 1
      /\ daily'.to = {} => clock <= daily'.at
      /\ daily'.to # {} => daily'.at = clock
  <2>1. Digests!Part(daily.at) = 1
    BY DEF DigestInv, DailyClock
  <2> QED
    BY <1>1, <1>2, <1>3, <2>1, NextNine
<1>5. \A u \in Users : got[<<u, "daily">>] > 0 => <<u, "daily">> \in digestsInDoubt
  <2>1. Digests!Day(clock) \in Nat
    BY <1>1, DaysOfParts
  <2> QED
    BY <1>1, <2>1 DEF DigestInv, DigestsKnown
<1>6. DigestsTyped' /\ DailyClock' /\ WeeklyClock'
  BY <1>1, <1>3, <1>4 DEF DigestInv, DigestsTyped, DailyClock, WeeklyClock
<1>7. DigestsKnown' /\ Digests!DigestOnce'
  BY <1>1, <1>5 DEF DigestInv, DigestsKnown, Digests!DigestOnce
<1> QED
  BY <1>6, <1>7 DEF DigestInv

\* One user is done with; with the last one, the loop sleeps until nine of the next day.
LEMMA DailySendStep ==
    ASSUME DigestInv, NEW u \in Users, Digests!SendDailyRecommendation(u) PROVE DigestInv'
<1>1. /\ clock \in Nat /\ daily \in [at : Nat, to : SUBSET Users] /\ u \in daily.to
      /\ daily.at \in Nat /\ clock \in {daily.at, daily.at + 1} /\ Digests!Part(daily.at) = 1
      /\ UNCHANGED <<clock, weekly, bound, active>> /\ "daily" \in Digests!Digests
  BY DEF Digests!SendDailyRecommendation, DigestInv, DigestsTyped, DailyClock, Digests!Digests
<1>2. daily' = IF daily.to = {u} THEN [at |-> Digests!NextDailyRun(clock), to |-> {}]
               ELSE [daily EXCEPT !.to = @ \ {u}]
  BY DEF Digests!SendDailyRecommendation
<1>3. /\ got' \in [Users \X Digests!Digests -> Nat]
      /\ \A k \in Users \X Digests!Digests :
            k # <<u, "daily">> => got'[k] = got[k] /\ (k \in digestsInDoubt' <=> k \in digestsInDoubt)
      /\ digestsInDoubt \subseteq digestsInDoubt'
      /\ <<u, "daily">> \notin digestsInDoubt' => got'[<<u, "daily">>] <= got[<<u, "daily">>] + 1
  <2>1. Digests!Deliver(u, "daily") \/ UNCHANGED <<got, digestsInDoubt>>
    BY DEF Digests!SendDailyRecommendation
  <2> QED
    BY <1>1, <2>1, DeliverEffect DEF DigestInv
<1>4. Digests!Part(clock) # 0
  <2>1. CASE clock = daily.at
    BY <1>1, <2>1
  <2>2. CASE clock = daily.at + 1
    BY <1>1, <2>2 DEF Digests!Part
  <2> QED
    BY <1>1, <2>1, <2>2
<1>5. /\ daily' \in [at : Nat, to : SUBSET Users] /\ Digests!Part(daily'.at) = 1
      /\ daily'.to = daily.to \ {u}
      /\ daily'.to # {} => daily'.at = daily.at
      /\ daily'.to = {} => clock <= daily'.at /\ Digests!Day(daily'.at) > Digests!Day(clock)
  <2>1. CASE daily.to = {u}
    <3>1. daily' = [at |-> Digests!NextDailyRun(clock), to |-> {}]
      BY <1>2, <2>1
    <3>2. daily'.at = Digests!NextDailyRun(clock) /\ daily'.to = {}
      BY <3>1
    <3>3. /\ daily'.at \in Nat /\ Digests!Part(daily'.at) = 1 /\ clock <= daily'.at
          /\ Digests!Day(daily'.at) > Digests!Day(clock)
      BY <1>1, <1>4, <3>2, NextNine
    <3> QED
      BY <2>1, <3>1, <3>2, <3>3
  <2>2. CASE daily.to # {u}
    <3>1. daily' = [daily EXCEPT !.to = @ \ {u}]
      BY <1>2, <2>2
    <3> QED
      BY <1>1, <2>2, <3>1
  <2> QED
    BY <2>1, <2>2
<1>6. DigestsTyped' /\ DailyClock' /\ WeeklyClock'
  <2>1. DigestsTyped'
    BY <1>1, <1>3, <1>5 DEF DigestInv, DigestsTyped
  <2>2. DailyClock' /\ WeeklyClock'
    BY <1>1, <1>5 DEF DigestInv, DailyClock, WeeklyClock
  <2> QED
    BY <2>1, <2>2
<1>7. DigestsKnown'
  <2>1. ASSUME NEW v \in Users, got'[<<v, "daily">>] > 0, <<v, "daily">> \notin digestsInDoubt'
        PROVE  v \notin daily'.to
    <3>1. CASE v = u
      BY <1>5, <3>1
    <3>2. CASE v # u
      <4>1. got[<<v, "daily">>] > 0 /\ <<v, "daily">> \notin digestsInDoubt
        BY <1>1, <1>3, <2>1, <3>2
      <4> QED
        BY <1>5, <4>1 DEF DigestInv, DigestsKnown
    <3> QED
      BY <3>1, <3>2
  <2>2. \A v \in Users : /\ got'[<<v, "weekly">>] = got[<<v, "weekly">>]
                         /\ <<v, "weekly">> \in digestsInDoubt' <=> <<v, "weekly">> \in digestsInDoubt
    BY <1>3 DEF Digests!Digests
  <2>3. \A v \in Users : got'[<<v, "daily">>] > 0 /\ <<v, "daily">> \notin digestsInDoubt' =>
           /\ v \notin daily'.to /\ (daily'.to = {} => Digests!Day(daily'.at) > Digests!Day(clock'))
           /\ Digests!Part(clock') # 0
    BY <1>1, <1>4, <1>5, <2>1
  <2>4. \A v \in Users : got'[<<v, "weekly">>] > 0 /\ <<v, "weekly">> \notin digestsInDoubt' =>
           v \notin weekly'.to /\ Digests!WeekOf(weekly'.at) > Digests!WeekOf(clock')
    BY <1>1, <2>2 DEF DigestInv, DigestsKnown
  <2> QED
    BY <2>3, <2>4 DEF DigestsKnown
<1>8. Digests!DigestOnce'
  <2> SUFFICES ASSUME NEW k \in Users \X Digests!Digests, k \notin digestsInDoubt' PROVE got'[k] <= 1
    BY DEF Digests!DigestOnce
  <2>1. CASE k = <<u, "daily">>
    <3>1. <<u, "daily">> \notin digestsInDoubt /\ got[<<u, "daily">>] \in Nat
      BY <1>1, <1>3, <2>1 DEF DigestInv, DigestsTyped
    <3>2. got[<<u, "daily">>] = 0
      BY <1>1, <3>1 DEF DigestInv, DigestsKnown
    <3> QED
      BY <1>3, <2>1, <3>2
  <2>2. CASE k # <<u, "daily">>
    BY <1>3, <2>2 DEF DigestInv, Digests!DigestOnce
  <2> QED
    BY <2>1, <2>2
<1> QED
  BY <1>6, <1>7, <1>8 DEF DigestInv

\* The weekly loop wakes: nobody has had the report of this week.
LEMMA WeeklyWakes == ASSUME DigestInv, Week \in {2, 7}, Digests!SendWeeklyReports PROVE DigestInv'
<1>1. /\ clock \in Nat /\ weekly.at \in Nat /\ weekly.to = {} /\ weekly.at = clock
      /\ UNCHANGED <<clock, daily, bound, active, got, digestsInDoubt>>
  BY DEF Digests!SendWeeklyReports, Digests!Wakes, DigestInv, DigestsTyped, WeeklyClock
<1> DEFINE to == Digests!CollectWeeklyReportUsers
<1>2. weekly' = [at |-> weekly.at + 3 * Week, to |-> to] /\ to \subseteq Users
  BY DEF Digests!SendWeeklyReports, Digests!EveryWeek, Digests!CollectWeeklyReportUsers,
         DigestInv, DigestsTyped
<1> HIDE DEF to
<1>3. /\ weekly' \in [at : Nat, to : SUBSET Users] /\ weekly'.at = clock + 3 * Week
      /\ weekly'.at \in Nat
  BY <1>1, <1>2
<1>4. weekly'.at % (3 * Week) \in 1..3
  <2>1. clock % (3 * Week) \in 1..3
    BY <1>1 DEF DigestInv, WeeklyClock
  <2>2. CASE Week = 2
    BY <1>1, <1>3, <2>1, <2>2
  <2>3. CASE Week = 7
    BY <1>1, <1>3, <2>1, <2>3
  <2> QED
    BY <2>2, <2>3
<1>5. \A u \in Users : got[<<u, "weekly">>] > 0 => <<u, "weekly">> \in digestsInDoubt
  <2>1. Digests!WeekOf(clock) \in Nat
    BY <1>1, WeeksOfParts
  <2> QED
    BY <1>1, <2>1 DEF DigestInv, DigestsKnown
<1>6. DigestsTyped' /\ DailyClock' /\ WeeklyClock'
  BY <1>1, <1>3, <1>4 DEF DigestInv, DigestsTyped, DailyClock, WeeklyClock
<1>7. DigestsKnown' /\ Digests!DigestOnce'
  BY <1>1, <1>5 DEF DigestInv, DigestsKnown, Digests!DigestOnce
<1> QED
  BY <1>6, <1>7 DEF DigestInv

\* One user is done with, in the week of the present tick.
LEMMA WeeklySendStep ==
    ASSUME DigestInv, Week \in {2, 7}, NEW u \in Users, Digests!SendReport(u) PROVE DigestInv'
<1>1. /\ clock \in Nat /\ weekly \in [at : Nat, to : SUBSET Users] /\ u \in weekly.to
      /\ weekly.at \in Nat /\ clock \in {weekly.at - 3 * Week, weekly.at - 3 * Week + 1}
      /\ weekly.at % (3 * Week) \in 1..3 /\ clock <= weekly.at
      /\ UNCHANGED <<clock, daily, bound, active>> /\ "weekly" \in Digests!Digests
      /\ weekly' = [weekly EXCEPT !.to = @ \ {u}]
  BY DEF Digests!SendReport, DigestInv, DigestsTyped, WeeklyClock, Digests!Digests
<1>2. weekly' \in [at : Nat, to : SUBSET Users] /\ weekly'.at = weekly.at /\ weekly'.to = weekly.to \ {u}
  BY <1>1
<1>3. /\ got' \in [Users \X Digests!Digests -> Nat]
      /\ \A k \in Users \X Digests!Digests :
            k # <<u, "weekly">> => got'[k] = got[k] /\ (k \in digestsInDoubt' <=> k \in digestsInDoubt)
      /\ digestsInDoubt \subseteq digestsInDoubt'
      /\ <<u, "weekly">> \notin digestsInDoubt' => got'[<<u, "weekly">>] <= got[<<u, "weekly">>] + 1
  <2>1. Digests!Deliver(u, "weekly") \/ UNCHANGED <<got, digestsInDoubt>>
    BY DEF Digests!SendReport
  <2> QED
    BY <1>1, <2>1, DeliverEffect DEF DigestInv
<1>4. Digests!WeekOf(weekly.at) > Digests!WeekOf(clock)
  <2>1. /\ Digests!WeekOf(weekly.at) \in Nat /\ Digests!WeekOf(clock) \in Nat
        /\ weekly.at = 3 * Week * Digests!WeekOf(weekly.at) + (weekly.at % (3 * Week))
        /\ clock = 3 * Week * Digests!WeekOf(clock) + (clock % (3 * Week))
        /\ clock % (3 * Week) \in 0..(3 * Week - 1)
    BY <1>1, WeeksOfParts
  <2> DEFINE w == Digests!WeekOf(weekly.at)
             v == Digests!WeekOf(clock)
             r == weekly.at % (3 * Week)
             s == clock % (3 * Week)
  <2>2. /\ w \in Nat /\ v \in Nat /\ r \in 1..3 /\ s \in 0..(3 * Week - 1)
        /\ weekly.at = (3 * Week) * w + r /\ clock = (3 * Week) * v + s
    BY <1>1, <2>1
  <2> HIDE DEF w, v, r, s
  <2>3. CASE Week = 2
    <3>1. 3 * Week = 6 /\ 3 * Week - 1 = 5
      BY <2>3
    <3>2. weekly.at = 6 * w + r /\ clock = 6 * v + s /\ s \in 0..5
      BY <2>2, <3>1
    <3>3. clock \in {weekly.at - 6, weekly.at - 5}
      BY <1>1, <3>1
    <3> QED
      BY <2>2, <3>2, <3>3 DEF w, v
  <2>4. CASE Week = 7
    <3>1. 3 * Week = 21 /\ 3 * Week - 1 = 20
      BY <2>4
    <3>2. weekly.at = 21 * w + r /\ clock = 21 * v + s /\ s \in 0..20
      BY <2>2, <3>1
    <3>3. clock \in {weekly.at - 21, weekly.at - 20}
      BY <1>1, <3>1
    <3> QED
      BY <2>2, <3>2, <3>3 DEF w, v
  <2> QED
    BY <1>1, <2>3, <2>4
<1>5. DigestsTyped' /\ DailyClock' /\ WeeklyClock'
  <2>1. DigestsTyped'
    BY <1>1, <1>2, <1>3 DEF DigestInv, DigestsTyped
  <2>2. weekly.to # {}
    BY <1>1
  <2>3. DailyClock' /\ WeeklyClock'
    BY <1>1, <1>2, <2>2 DEF DigestInv, DailyClock, WeeklyClock
  <2> QED
    BY <2>1, <2>3
<1>6. DigestsKnown'
  <2>1. ASSUME NEW v \in Users, got'[<<v, "weekly">>] > 0, <<v, "weekly">> \notin digestsInDoubt'
        PROVE  v \notin weekly'.to
    <3>1. CASE v = u
      BY <1>2, <3>1
    <3>2. CASE v # u
      <4>1. got[<<v, "weekly">>] > 0 /\ <<v, "weekly">> \notin digestsInDoubt
        BY <1>1, <1>3, <2>1, <3>2
      <4> QED
        BY <1>2, <4>1 DEF DigestInv, DigestsKnown
    <3> QED
      BY <3>1, <3>2
  <2>2. \A v \in Users : /\ got'[<<v, "daily">>] = got[<<v, "daily">>]
                         /\ <<v, "daily">> \in digestsInDoubt' <=> <<v, "daily">> \in digestsInDoubt
    BY <1>3 DEF Digests!Digests
  <2>3. \A v \in Users : got'[<<v, "daily">>] > 0 /\ <<v, "daily">> \notin digestsInDoubt' =>
           /\ v \notin daily'.to /\ (daily'.to = {} => Digests!Day(daily'.at) > Digests!Day(clock'))
           /\ Digests!Part(clock') # 0
    BY <1>1, <2>2 DEF DigestInv, DigestsKnown
  <2>4. \A v \in Users : got'[<<v, "weekly">>] > 0 /\ <<v, "weekly">> \notin digestsInDoubt' =>
           v \notin weekly'.to /\ Digests!WeekOf(weekly'.at) > Digests!WeekOf(clock')
    BY <1>1, <1>2, <1>4, <2>1
  <2> QED
    BY <2>3, <2>4 DEF DigestsKnown
<1>7. Digests!DigestOnce'
  <2> SUFFICES ASSUME NEW k \in Users \X Digests!Digests, k \notin digestsInDoubt' PROVE got'[k] <= 1
    BY DEF Digests!DigestOnce
  <2>1. CASE k = <<u, "weekly">>
    <3>1. <<u, "weekly">> \notin digestsInDoubt /\ got[<<u, "weekly">>] \in Nat
      BY <1>1, <1>3, <2>1 DEF DigestInv, DigestsTyped
    <3>2. got[<<u, "weekly">>] = 0
      BY <1>1, <3>1 DEF DigestInv, DigestsKnown
    <3> QED
      BY <1>3, <2>1, <3>2
  <2>2. CASE k # <<u, "weekly">>
    BY <1>3, <2>2 DEF DigestInv, Digests!DigestOnce
  <2> QED
    BY <2>1, <2>2
<1> QED
  BY <1>5, <1>6, <1>7 DEF DigestInv

\* The switches, and the file of the reports, change neither loop.
LEMMA AsideOfDigests ==
    ASSUME DigestInv,
           \/ \E u \in Users : Digests!Binds(u) \/ Digests!Searches(u) \/ Digests!Mutes(u)
                               \/ Digests!HandleWeeklyReport(u)
           \/ Digests!Save
    PROVE  DigestInv'
<1>1. /\ UNCHANGED <<clock, daily, weekly, got, digestsInDoubt>>
      /\ bound' \subseteq Users /\ active' \subseteq Users
  BY DEF Digests!Binds, Digests!Searches, Digests!Mutes, Digests!HandleWeeklyReport, Digests!Save,
         DigestInv, DigestsTyped
<1> QED
  BY <1>1 DEF DigestInv, DigestsTyped, DailyClock, WeeklyClock, DigestsKnown, Digests!DigestOnce

\* A new program sleeps until nine of the next day, if it was nine today, and until the Monday after
\* the next one.
LEMMA DigestRestart == ASSUME DigestInv, Week \in {2, 7}, Digests!Restart PROVE DigestInv'
<1>1. clock \in Nat /\ UNCHANGED <<clock, bound, active, got, digestsInDoubt>>
  BY DEF Digests!Restart, DigestInv, DigestsTyped
<1>2. PICK x \in Digests!FirstTick(clock) :
         /\ daily' = [at |-> Digests!NextDailyRun(clock), to |-> {}]
         /\ weekly' = [at |-> x, to |-> {}]
  BY DEF Digests!Restart, Digests!Boot
<1>3. /\ daily'.to = {} /\ daily'.at \in Nat /\ Digests!Part(daily'.at) = 1 /\ clock <= daily'.at
      /\ Digests!Part(clock) # 0 => Digests!Day(daily'.at) > Digests!Day(clock)
      /\ daily' \in [at : Nat, to : SUBSET Users]
  BY <1>1, <1>2, NextNine
<1>4. /\ weekly'.to = {} /\ weekly'.at \in Nat /\ weekly'.at % (3 * Week) \in 1..3
      /\ clock <= weekly'.at /\ weekly' \in [at : Nat, to : SUBSET Users]
      /\ Digests!WeekOf(weekly'.at) > Digests!WeekOf(clock)
  <2>1. /\ x \in Nat /\ x % (3 * Week) \in 1..3 /\ clock <= x
        /\ Digests!WeekOf(x) > Digests!WeekOf(clock)
    BY <1>1, FirstMonday
  <2> QED
    BY <1>2, <2>1
<1>5. DigestsTyped' /\ DailyClock' /\ WeeklyClock'
  BY <1>1, <1>3, <1>4 DEF DigestInv, DigestsTyped, DailyClock, WeeklyClock
<1>6. DigestsKnown' /\ Digests!DigestOnce'
  BY <1>1, <1>3, <1>4 DEF DigestInv, DigestsKnown, Digests!DigestOnce
<1> QED
  BY <1>5, <1>6 DEF DigestInv

\* The other parts leave this one alone.
LEMMA DigestKept == ASSUME DigestInv, [Next]_vars PROVE DigestInv'
<1>1. CASE Digests!Next
  BY <1>1, ConstantsOK, PassStep, AsideOfDigests, DailyWakes, DailySendStep, WeeklyWakes,
     WeeklySendStep, DigestRestart DEF Digests!Next
<1>2. CASE UNCHANGED digestVars
  BY <1>2 DEF digestVars, DigestInv, DigestsTyped, DailyClock, WeeklyClock,
      DigestsKnown, Digests!DigestOnce
<1> QED
  BY <1>1, <1>2 DEF Next, vars, SummaryStep, DigestStep, RadarStep, StatusStep, ChoiceStep, ClientStep,
      ReminderStep

\* Nobody gets the digest of a day or of a week twice, whenever the program was started: when the
\* loops wake is all that keeps them from it (nextDailyRun, weeklyRoutine).
THEOREM DigestsOnce == Spec => []DigestOnce
<1>1. Init => DigestInv
  BY ConstantsOK, DigestInit DEF Init
<1>2. DigestInv /\ [Next]_vars => DigestInv'
  BY DigestKept
<1>3. DigestInv => DigestOnce
  BY DEF DigestInv, DigestOnce
<1> QED
  BY <1>1, <1>2, <1>3, PTL DEF Spec
=============================================================================
