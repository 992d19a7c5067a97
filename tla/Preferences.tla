------------------------------ MODULE Preferences ------------------------------
(***************************************************************************)
(* The notification switches of a user: handlers that run concurrently     *)
(* change them in memory under mu and write a snapshot of them under       *)
(* persistMu, which each takes before it lets go of mu.                    *)
(***************************************************************************)
EXTENDS Integers, FiniteSets

CONSTANTS
    Handlers,      \* handlers that may run at the same time
    Keys,          \* kinds of notifications
    MaxFaults,     \* bound on failing writes
    MaxRestarts

VARIABLES
    prefs,      \* the switches, in memory and in preferences.json
    handler,    \* what each handler is doing
    mu, persistMu, \* who holds each mutex
    failed,     \* history: the last write failed
    faults, restarts

vars == <<prefs, handler, mu, persistMu, failed, faults, restarts>>

Switches == [Keys -> BOOLEAN]
Nobody   == {}
On       == [k \in Keys |-> TRUE]
Idle     == [pc |-> "idle", key |-> "", value |-> TRUE, snapshot |-> On]

TypeOK ==
    /\ prefs \in [{"memory", "file"} -> Switches]
    /\ handler \in [Handlers -> [pc : {"idle", "set", "wait", "write"},
                                 key : Keys \cup {""}, value : BOOLEAN, snapshot : Switches]]
    /\ mu \subseteq Handlers /\ persistMu \subseteq Handlers
    /\ failed \in BOOLEAN
    /\ faults \in 0..MaxFaults /\ restarts \in 0..MaxRestarts

Init ==
    /\ prefs = [x \in {"memory", "file"} |-> On]
    /\ handler = [h \in Handlers |-> Idle]
    /\ mu = Nobody /\ persistMu = Nobody
    /\ failed = FALSE
    /\ faults = 0 /\ restarts = 0
-----------------------------------------------------------------------------
\* HandleToggle reads the switch and lets go of the lock before it sets it.
HandleToggle(h, k) ==
    /\ handler[h].pc = "idle" /\ mu = Nobody
    /\ handler' = [handler EXCEPT ![h] = [Idle EXCEPT !.pc = "set", !.key = k, !.value = ~prefs["memory"][k]]]
    /\ UNCHANGED <<prefs, mu, persistMu, failed, faults, restarts>>

\* Fault: the lock is free before the turn to write is taken.
LetGoOfLock(h) == UNCHANGED mu
KeepLock(h) == mu' = {h}

SetNotify(h) ==
    /\ handler[h].pc = "set" /\ mu = Nobody
    /\ LET now == [prefs["memory"] EXCEPT ![handler[h].key] = handler[h].value]
       IN /\ prefs' = [prefs EXCEPT !["memory"] = now]
          /\ handler' = [handler EXCEPT ![h].pc = "wait", ![h].snapshot = now]
    /\ KeepLock(h)
    /\ UNCHANGED <<persistMu, failed, faults, restarts>>

SaveOrdered(h) ==
    /\ handler[h].pc = "wait" /\ persistMu = Nobody
    /\ persistMu' = {h} /\ mu' = mu \ {h}
    /\ handler' = [handler EXCEPT ![h].pc = "write"]
    /\ UNCHANGED <<prefs, failed, faults, restarts>>

SaveSnapshot(h) ==
    /\ handler[h].pc = "write"
    /\ \/ prefs' = [prefs EXCEPT !["file"] = handler[h].snapshot] /\ failed' = FALSE /\ UNCHANGED faults
       \/ /\ faults < MaxFaults /\ faults' = faults + 1
          /\ failed' = TRUE /\ UNCHANGED prefs
    /\ persistMu' = Nobody
    /\ handler' = [handler EXCEPT ![h] = Idle]
    /\ UNCHANGED <<mu, restarts>>

Restart ==
    /\ restarts < MaxRestarts /\ restarts' = restarts + 1
    /\ prefs' = [prefs EXCEPT !["memory"] = prefs["file"]]
    /\ handler' = [h \in Handlers |-> Idle] /\ mu' = Nobody /\ persistMu' = Nobody
    /\ failed' = FALSE
    /\ UNCHANGED faults

Next ==
    \/ \E h \in Handlers : \/ \E k \in Keys : HandleToggle(h, k)
                           \/ SetNotify(h) \/ SaveOrdered(h) \/ SaveSnapshot(h)
    \/ Restart

Spec == Init /\ [][Next]_vars
-----------------------------------------------------------------------------
\* "保证快照按变更顺序落盘，否则并发写入时旧快照可能盖掉新快照": when everyone is done, the file has
\* the switches the program works with, unless the last write failed.
FileFollows ==
    (\A h \in Handlers : handler[h].pc \in {"idle", "set"}) /\ ~failed => prefs["file"] = prefs["memory"]
=============================================================================
