-------------------------------- MODULE Accounts --------------------------------
(***************************************************************************)
(* Which Telegram user is which MoviePilot account: the table of bindings, *)
(* its import from the file of older versions, and the commands that bind, *)
(* unbind and reset a password.  /link asks MoviePilot several times       *)
(* before it writes, and commands are handled concurrently.                *)
(***************************************************************************)
EXTENDS Integers, FiniteSets

CONSTANTS
    Users,
    Names,             \* names of MoviePilot accounts, numbered from 1
    Workers,           \* commands that may be handled at once
    MaxId,             \* bound on the accounts MoviePilot ever makes
    MaxLinkAttempts,   \* failures before a user is locked out (5)
    MaxInputs,         \* bound on commands
    MaxFaults          \* bound on lost calls, failing writes and restarts

VARIABLES
    accounts,   \* MoviePilot: the id of each name, or none
    nextId,
    running,    \* the program came up
    table,      \* user_mappings
    legacy,     \* user_mappings.json
    worker,     \* where each /link is
    attempts,   \* linkAttempts
    blocked,    \* linkBlocked
    proven,     \* history: who logged in under a name, made it, or had it in the old file or table
    inputs, faults

accountVars == <<accounts, nextId, running, table, legacy, worker, attempts, blocked, proven, inputs, faults>>

NoId  == 0
NoRow == [id |-> NoId, name |-> 0]
Ids   == 1..MaxId
Generated(id) == -id                \* user_<id>, for a line of the old file without a name
AllNames == Names \cup {Generated(id) : id \in Ids}
Tables == [Users -> {NoRow} \cup [id : Ids, name : AllNames]]
Idle  == [pc |-> "idle", user |-> CHOOSE u \in Users : TRUE, name |-> 0, password |-> "none", id |-> NoId]
Empty == [u \in Users |-> NoRow]

TypeOK ==
    /\ accounts \in [Names -> 0..MaxId] /\ nextId \in 1..MaxId + 1
    /\ running \in BOOLEAN /\ table \in Tables /\ legacy \in Tables
    /\ worker \in [Workers -> [pc : {"idle", "lookup", "login", "register", "query", "exists", "check", "save"},
                               user : Users, name : Names \cup {0},
                               password : {"none", "right", "wrong"}, id : 0..MaxId]]
    /\ attempts \in [Users -> 0..MaxLinkAttempts - 1] /\ blocked \subseteq Users
    /\ proven \subseteq Users \X AllNames
    /\ inputs \in 0..MaxInputs /\ faults \in 0..MaxFaults

\* Someone may have an account already, and older versions wrote what they liked about it.
Init ==
    /\ accounts = [n \in Names |-> IF n = 1 THEN 1 ELSE NoId] /\ nextId = 2
    /\ running = FALSE
    /\ table \in [Users -> {NoRow, [id |-> 1, name |-> 1]}]
    /\ legacy \in [Users -> {NoRow, [id |-> 1, name |-> 1], [id |-> 1, name |-> Generated(1)]}]
    /\ worker = [w \in Workers |-> Idle]
    /\ attempts = [u \in Users |-> 0] /\ blocked = {}
    /\ proven = {p \in Users \X AllNames : \E t \in {table, legacy} : t[p[1]].name = p[2]}
    /\ inputs = 0 /\ faults = 0

Input   == inputs < MaxInputs /\ inputs' = inputs + 1
Fault   == faults < MaxFaults /\ faults' = faults + 1
NoFault == UNCHANGED faults
-----------------------------------------------------------------------------
(* Starting.                                                               *)

\* detectUserMappingConflicts
Conflicts(t) ==
    \E u, v \in Users : /\ u # v /\ t[u] # NoRow /\ t[v] # NoRow
                        /\ t[u].id = t[v].id \/ t[u].name = t[v].name

\* The old file is imported into an empty table only, and then renamed, if that succeeds; an error
\* that says whose bindings collide ends the program instead.
Boot ==
    /\ ~running /\ ~Conflicts(table)
    /\ IF legacy = Empty \/ table # Empty
       THEN NoFault /\ UNCHANGED <<table, legacy>>
       ELSE /\ ~Conflicts(legacy)
            /\ table' = legacy
            /\ (NoFault /\ legacy' = Empty) \/ (Fault /\ UNCHANGED legacy)
    /\ running' = TRUE
    /\ UNCHANGED <<accounts, nextId, worker, attempts, blocked, proven, inputs>>

\* The failures and the lock-outs are in memory only.
Restart ==
    /\ running /\ Fault
    /\ running' = FALSE
    /\ worker' = [w \in Workers |-> Idle]
    /\ attempts' = [u \in Users |-> 0] /\ blocked' = {}
    /\ UNCHANGED <<accounts, nextId, table, legacy, proven, inputs>>
-----------------------------------------------------------------------------
(* /link                                                                   *)

RecordLinkFailure(u) ==
    IF attempts[u] + 1 >= MaxLinkAttempts
    THEN blocked' = blocked \cup {u} /\ attempts' = [attempts EXCEPT ![u] = 0]
    ELSE attempts' = [attempts EXCEPT ![u] = @ + 1] /\ UNCHANGED blocked

ResetLinkAttempts(u) == attempts' = [attempts EXCEPT ![u] = 0] /\ blocked' = blocked \ {u}

Done(w)          == worker' = [worker EXCEPT ![w] = Idle]
Fails(w)         == Done(w) /\ RecordLinkFailure(worker[w].user)
Go(w, pc, id)    == worker' = [worker EXCEPT ![w].pc = pc, ![w].id = id] /\ UNCHANGED <<attempts, blocked>>
Proves(w)        == proven' = proven \cup {<<worker[w].user, worker[w].name>>}

HandleLinkCommand(w, u, n, p) ==
    /\ running /\ Input /\ worker[w] = Idle
    /\ u \notin blocked /\ table[u] = NoRow
    /\ \/ /\ worker' = [worker EXCEPT ![w] = [pc |-> "lookup", user |-> u, name |-> n, password |-> p, id |-> NoId]]
          /\ UNCHANGED <<attempts, blocked>>
       \/ RecordLinkFailure(u) /\ UNCHANGED worker      \* not a name MoviePilot could have
    /\ UNCHANGED <<accounts, nextId, running, table, legacy, proven, faults>>

\* A lookup that fails is taken for a name that is free, and the account is to be made.
GetUserByUsername(w) ==
    /\ worker[w].pc = "lookup"
    /\ LET id == accounts[worker[w].name]
       IN \/ id = NoId /\ NoFault /\ Go(w, "register", NoId)
          \/ Fault /\ Go(w, "register", NoId)
          \/ id # NoId /\ worker[w].password = "none" /\ NoFault /\ Fails(w)
          \/ id # NoId /\ worker[w].password # "none" /\ NoFault /\ Go(w, "login", id)
    /\ UNCHANGED <<accounts, nextId, running, table, legacy, proven, inputs>>

LoginUser(w) ==
    /\ worker[w].pc = "login"
    /\ \/ /\ accounts[worker[w].name] # NoId /\ worker[w].password = "right" /\ NoFault
          /\ Go(w, "check", worker[w].id) /\ Proves(w)
       \/ worker[w].password # "right" /\ NoFault /\ Fails(w) /\ UNCHANGED proven
       \/ Fault /\ Fails(w) /\ UNCHANGED proven
       \/ accounts[worker[w].name] = NoId /\ NoFault /\ Fails(w) /\ UNCHANGED proven
    /\ UNCHANGED <<accounts, nextId, running, table, legacy, inputs>>

Created(n) == accounts' = [accounts EXCEPT ![n] = nextId] /\ nextId' = nextId + 1

\* RegisterUser: without an answer nobody knows whether the account is there now.
Register(w) ==
    /\ worker[w].pc = "register"
    /\ LET n == worker[w].name
       IN \/ accounts[n] = NoId /\ nextId \in Ids /\ Created(n) /\ NoFault /\ Go(w, "query", NoId) /\ Proves(w)
          \/ accounts[n] # NoId /\ UNCHANGED <<accounts, nextId, proven>> /\ NoFault /\ Go(w, "exists", NoId)
          \/ accounts[n] = NoId /\ nextId \in Ids /\ Created(n) /\ Fault /\ Fails(w) /\ UNCHANGED proven
          \/ UNCHANGED <<accounts, nextId, proven>> /\ Fault /\ Fails(w)
    /\ UNCHANGED <<running, table, legacy, inputs>>

\* Fault: an account that turns out to exist is the user's.
StraightToCheck(w) == "check"

\* What comes after the second lookup: the account that was made needs no password, one that turned
\* out to exist does.
AfterLookup(w) == IF worker[w].pc = "query" THEN "check" ELSE "login"

\* RegisterUser, its second lookup; when that fails the account it made belongs to nobody.
LookupAgain(w) ==
    /\ worker[w].pc \in {"query", "exists"}
    /\ LET id == accounts[worker[w].name]
       IN \/ id # NoId /\ NoFault /\ Go(w, AfterLookup(w), id)
          \/ id = NoId /\ NoFault /\ Fails(w)
          \/ Fault /\ Fails(w)
    /\ UNCHANGED <<accounts, nextId, running, table, legacy, proven, inputs>>

\* getTelegramIDBy..., and the unique indexes.
Taken(u, id, n) == \E v \in Users \ {u} : table[v].id = id \/ table[v].name = n

CheckOwners(w) ==
    /\ worker[w].pc = "check"
    /\ LET a == worker[w]
       IN IF Taken(a.user, a.id, a.name) THEN Done(w) /\ UNCHANGED <<attempts, blocked>> ELSE Go(w, "save", a.id)
    /\ UNCHANGED <<accounts, nextId, running, table, legacy, proven, inputs, faults>>

\* The row of a user who is bound by now is replaced.
AddMapping(w) ==
    /\ worker[w].pc = "save"
    /\ LET a == worker[w]
       IN \/ /\ ~Taken(a.user, a.id, a.name) /\ NoFault
             /\ table' = [table EXCEPT ![a.user] = [id |-> a.id, name |-> a.name]]
             /\ ResetLinkAttempts(a.user)
          \/ Taken(a.user, a.id, a.name) /\ NoFault /\ UNCHANGED <<table, attempts, blocked>>
          \/ Fault /\ UNCHANGED <<table, attempts, blocked>>
    /\ Done(w)
    /\ UNCHANGED <<accounts, nextId, running, legacy, proven, inputs>>
-----------------------------------------------------------------------------
HandleUnlinkConfirm(u) ==
    /\ running /\ Input /\ table[u] # NoRow
    /\ \/ NoFault /\ table' = [table EXCEPT ![u] = NoRow]
       \/ Fault /\ UNCHANGED table
    /\ UNCHANGED <<accounts, nextId, running, legacy, worker, attempts, blocked, proven>>

\* /resetpw, which also counts as an attempt; its password is MoviePilot's, and told to the user.
HandleResetPasswordCommand(u) ==
    /\ running /\ Input /\ u \notin blocked /\ table[u] # NoRow
    /\ \/ NoFault /\ ResetLinkAttempts(u)
       \/ Fault /\ RecordLinkFailure(u)
    /\ UNCHANGED <<accounts, nextId, running, table, legacy, worker, proven>>

LinkBlockTimeEnds(u) ==
    /\ u \in blocked
    /\ ResetLinkAttempts(u)
    /\ UNCHANGED <<accounts, nextId, running, table, legacy, worker, proven, inputs, faults>>

\* External: MoviePilot's administrator removes an account; its name is free.
AccountRemoved(n) ==
    /\ accounts[n] # NoId /\ Fault
    /\ accounts' = [accounts EXCEPT ![n] = NoId]
    /\ UNCHANGED <<nextId, running, table, legacy, worker, attempts, blocked, proven, inputs>>

Step(w) ==
    \/ \E u \in Users, n \in Names, p \in {"none", "right", "wrong"} : HandleLinkCommand(w, u, n, p)
    \/ GetUserByUsername(w) \/ LoginUser(w) \/ Register(w) \/ LookupAgain(w) \/ CheckOwners(w) \/ AddMapping(w)

Next ==
    \/ Boot \/ Restart
    \/ \E w \in Workers : Step(w)
    \/ \E u \in Users : HandleUnlinkConfirm(u) \/ HandleResetPasswordCommand(u) \/ LinkBlockTimeEnds(u)
    \/ \E n \in Names : AccountRemoved(n)

Spec == Init /\ [][Next]_accountVars
-----------------------------------------------------------------------------
\* One Telegram user per MoviePilot account, by id and by name, whenever the program runs: what
\* arrives for an account is told to one person, however the commands of several users overlap and
\* whatever an older version left behind.
OneOwner == running => ~Conflicts(table)

\* "Fall back to the existing account ONLY after verifying the caller's password": nobody is bound
\* to a name that they neither logged in under nor made nor brought along, when lookups fail at any
\* point of the way.
OnlyProven == \A u \in Users : table[u] # NoRow => <<u, table[u].name>> \in proven

\* A MoviePilot account is bound to the one user who showed it to be theirs.
RightfulOwner == OneOwner /\ OnlyProven
=============================================================================
