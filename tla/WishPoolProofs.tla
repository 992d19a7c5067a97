----------------------------- MODULE WishPoolProofs -----------------------------
(***************************************************************************)
(* Proofs about WishPool, for any users, contents and limits, and any      *)
(* number of rows and restarts.                                            *)
(***************************************************************************)
EXTENDS WishPool, TLAPS

-----------------------------------------------------------------------------
(***************************************************************************)
(* The inductive invariant.                                                *)
(***************************************************************************)
Used(id) == rows[id].state # "none"

\* Rows in use belong to a user and a content, unused ones to nobody.
UsedRows ==
    \A id \in Ids :
        IF Used(id) THEN rows[id].user \in Users /\ rows[id].content \in Contents
                    ELSE rows[id].user = None /\ rows[id].content = None

\* The scheduler works on rows in use, and has an item in hand between the
\* first and the last step of its work.
ScheduledUsed ==
    /\ \A item \in sched.work : Used(item.id)
    /\ sched.step # "next" => sched.cur \in Item /\ Used(sched.cur.id)

\* A content has one active row: activeUniqueIndexSQL.
OneActive ==
    \A i, j \in Ids :
        IsActive(i) /\ IsActive(j) /\ rows[i].content = rows[j].content => i = j

\* Between the notice and the new state of the row, somebody has the button.
SentButton == sched.step = "sent" => \E u \in Users : <<u, sched.cur.id>> \in buttons

WishInv ==
    /\ TypeOK /\ UsedRows /\ ScheduledUsed
    /\ OneActive /\ OriginatorWaits
    /\ SentButton /\ NotifiedWasSent
    /\ FulfilledWasAsked

-----------------------------------------------------------------------------
(***************************************************************************)
(* What a step does to one row.                                            *)
(***************************************************************************)
\* The states are distinct.
LEMMA StateSets ==
    /\ Open \subseteq Active /\ Active \cap Terminal = {}
    /\ "none" \notin Active \cup Terminal
    /\ "NOTIFIED" \in Active /\ "FULFILLED" \in Terminal
  BY DEF Open, Active, Terminal

\* A step of the scheduler or of a button leaves a row's user and content alone
\* and activates nothing.
Advanced(id) ==
    /\ rows'[id].user = rows[id].user /\ rows'[id].content = rows[id].content
    /\ rows'[id].state \in Active => IsActive(id)
    /\ rows'[id].state = "none" <=> rows[id].state = "none"

\* What a mutator of one row may make of it.
LEMMA EnterType ==
    ASSUME TypeOK, NEW id \in Ids, NEW s \in Active \cup Terminal
    PROVE  /\ Enter(id, s) \in Row
           /\ Enter(id, s).user = rows[id].user /\ Enter(id, s).content = rows[id].content
           /\ Enter(id, s).state = s
  BY DEF TypeOK, Row, Enter

\* A row that is set to a record.
LEMMA SetType ==
    ASSUME TypeOK, NEW id \in Ids, NEW rec \in Row, Set(id, rec)
    PROVE  /\ rows' \in [Ids -> Row]
           /\ rows'[id] = rec
           /\ \A j \in Ids : j # id => rows'[j] = rows[j]
  BY DEF TypeOK, Set

LEMMA UpdateAdvances ==
    ASSUME TypeOK, NEW id \in Ids, Used(id), NEW rec \in Row, Update(id, rec),
           rec.user = rows[id].user, rec.content = rows[id].content,
           rec.state # "none", rec.state \in Active => IsActive(id)
    PROVE  rows' \in [Ids -> Row] /\ \A j \in Ids : Advanced(j)
<1>1. CASE Set(id, rec)
  BY <1>1, SetType DEF Advanced, IsActive, Used
<1>2. CASE UNCHANGED rows
  BY <1>2 DEF Advanced, IsActive, TypeOK
<1> QED
  BY <1>1, <1>2 DEF Update

LEMMA UnchangedAdvances ==
    ASSUME TypeOK, UNCHANGED rows
    PROVE  rows' \in [Ids -> Row] /\ \A j \in Ids : Advanced(j)
  BY DEF Advanced, IsActive, TypeOK

\* One UPDATE over several active rows.
LEMMA ManyAdvance ==
    ASSUME TypeOK, NEW ids \in SUBSET Ids, \A id \in ids : IsActive(id),
           NEW s \in Active \cup Terminal, NEW l \in [Ids -> BOOLEAN],
           rows' = [id \in Ids |-> IF id \in ids
                                   THEN [rows[id] EXCEPT !.state = s, !.locked = l[id]]
                                   ELSE rows[id]]
    PROVE  rows' \in [Ids -> Row] /\ \A j \in Ids : Advanced(j)
<1> DEFINE new(id) == [rows[id] EXCEPT !.state = s, !.locked = l[id]]
<1>0. rows \in [Ids -> Row]
  BY DEF TypeOK
<1>1. ASSUME NEW id \in Ids
      PROVE  /\ new(id) \in Row /\ new(id).user = rows[id].user
             /\ new(id).content = rows[id].content /\ new(id).state = s
  <2>1. rows[id] \in Row /\ l[id] \in BOOLEAN
    BY <1>0
  <2>2. PICK r \in Row, b \in BOOLEAN : r = rows[id] /\ b = l[id]
    BY <2>1
  <2>3. new(id) = [r EXCEPT !.state = s, !.locked = b]
    BY <2>2
  <2>4. LET e == [r EXCEPT !.state = s, !.locked = b]
        IN  e \in Row /\ e.user = r.user /\ e.content = r.content /\ e.state = s
    BY DEF Row
  <2> HIDE DEF new
  <2> QED
    BY <2>2, <2>3, <2>4
<1>2. rows' = [id \in Ids |-> IF id \in ids THEN new(id) ELSE rows[id]]
  OBVIOUS
<1> HIDE DEF new
<1>3. rows' \in [Ids -> Row]
  BY <1>0, <1>1, <1>2, Zenon
<1>4. ASSUME NEW j \in Ids PROVE Advanced(j)
  <2>1. CASE j \in ids
    BY <1>1, <1>2, <2>1, StateSets DEF Advanced, IsActive
  <2>2. CASE j \notin ids
    BY <1>2, <2>2 DEF Advanced, IsActive
  <2> QED
    BY <2>1, <2>2
<1> QED
  BY <1>3, <1>4

\* MarkFulfilled looks at the state, and ends the wish.
LEMMA FulfilAdvances ==
    ASSUME TypeOK, NEW id \in Ids, MarkFulfilled(id)
    PROVE  rows' \in [Ids -> Row] /\ \A j \in Ids : Advanced(j)
<1>1. CASE Fulfillable(id) /\ Update(id, Enter(id, "FULFILLED"))
  BY <1>1, StateSets, EnterType, UpdateAdvances DEF Fulfillable, Used
<1>2. CASE UNCHANGED rows
  BY <1>2, UnchangedAdvances
<1> QED
  BY <1>1, <1>2 DEF MarkFulfilled

LEMMA ResearchAdvances ==
    ASSUME WishInv, Researches
    PROVE  rows' \in [Ids -> Row] /\ \A j \in Ids : Advanced(j)
<1>0. /\ TypeOK
      /\ sched.step # "next" => sched.cur.id \in Ids /\ Used(sched.cur.id)
  BY DEF WishInv, ScheduledUsed, Item
<1> DEFINE id == sched.cur.id
<1> USE DEF pool
<1>1. CASE UNCHANGED rows
  BY <1>0, <1>1, UnchangedAdvances
<1>2. CASE Missed
  <2>1. id \in Ids /\ Used(id)
    BY <1>0, <1>2 DEF Missed
  <2>2. CASE Update(id, Enter(id, "EXPIRED"))
    BY <1>0, <2>1, <2>2, StateSets, EnterType, UpdateAdvances DEF Terminal, Active, Open
  <2>3. CASE rows[id].state = "SEARCHING" /\ Update(id, [rows[id] EXCEPT !.locked = FALSE])
    <3>0. rows[id] \in Row
      BY <1>0, <2>1 DEF TypeOK
    <3>1. [rows[id] EXCEPT !.locked = FALSE] \in Row
      BY <3>0 DEF Row
    <3>2. IsActive(id)
      BY <2>3 DEF IsActive, Active, Open
    <3> QED
      BY <1>0, <2>1, <2>3, <3>1, <3>2, UpdateAdvances DEF TypeOK, Row, Used
  <2> QED
    BY <1>1, <1>2, <2>2, <2>3 DEF Missed
<1>3. CASE Hit
  <2>1. id \in Ids /\ Used(id)
    BY <1>0, <1>3 DEF Hit
  <2>2. CASE rows[id].state = "SEARCHING" /\ Set(id, Enter(id, "FOUND"))
    BY <1>0, <2>1, <2>2, EnterType, UpdateAdvances DEF Update, IsActive, Active, Open
  <2> QED
    BY <1>1, <1>3, <2>2 DEF Hit
<1>4. CASE AlreadySubscribed
  BY <1>0, <1>4, FulfilAdvances DEF AlreadySubscribed
<1>5. ASSUME NEW i \in Ids, Used(i), MarkOrphaned(i)
      PROVE  rows' \in [Ids -> Row] /\ \A j \in Ids : Advanced(j)
  BY <1>0, <1>5, StateSets, EnterType, UpdateAdvances DEF MarkOrphaned, Terminal, Active, Open
<1>6. CASE Reach
  BY <1>0, <1>1, <1>5, <1>6 DEF Reach
<1>7. CASE Send
  BY <1>0, <1>1, <1>5, <1>7 DEF Send
<1>8. CASE MarkNotified
  <2>1. id \in Ids /\ Used(id)
    BY <1>0, <1>8 DEF MarkNotified
  <2>2. CASE Notifiable(id) /\ Update(id, [rows[id] EXCEPT !.state = "NOTIFIED"])
    <3>1. [rows[id] EXCEPT !.state = "NOTIFIED"] \in Row
      BY <1>0, <2>1, StateSets DEF TypeOK, Row
    <3>2. IsActive(id)
      BY <2>2 DEF IsActive, Active, Notifiable
    <3> QED
      BY <1>0, <2>1, <2>2, <3>1, <3>2, UpdateAdvances DEF TypeOK, Row
  <2> QED
    BY <1>1, <1>8, <2>2 DEF MarkNotified
<1> QED
  BY <1>1, <1>2, <1>3, <1>4, <1>6, <1>7, <1>8 DEF Researches, Take, NotSubscribed

LEMMA TickAdvances ==
    ASSUME WishInv, Ticks
    PROVE  rows' \in [Ids -> Row] /\ \A j \in Ids : Advanced(j)
<1>0. TypeOK
  BY DEF WishInv
<1> USE DEF pool
<1>1. ASSUME NEW ids \in SUBSET Ids, NEW minute \in Minutes, ClaimSearchableItems(minute, ids)
      PROVE  rows' \in [Ids -> Row] /\ \A j \in Ids : Advanced(j)
  <2>1. \A id \in ids : IsActive(id)
    BY <1>1 DEF ClaimSearchableItems, Claimable, IsActive, Active
  <2> DEFINE l == [i \in Ids |-> TRUE]
  <2>2. rows' = [id \in Ids |-> IF id \in ids
                                THEN [rows[id] EXCEPT !.state = "SEARCHING", !.locked = l[id]]
                                ELSE rows[id]]
    BY <1>1 DEF ClaimSearchableItems
  <2>3. l \in [Ids -> BOOLEAN] /\ "SEARCHING" \in Active \cup Terminal
    BY DEF Active, Open
  <2> HIDE DEF l
  <2> QED
    BY <1>0, <2>1, <2>2, <2>3, ManyAdvance
<1>2. ASSUME NEW ids \in SUBSET Ids, ExpireStaleNotified(ids)
      PROVE  rows' \in [Ids -> Row] /\ \A j \in Ids : Advanced(j)
  <2>1. \A id \in ids : IsActive(id)
    BY <1>2, StateSets DEF ExpireStaleNotified, IsActive
  <2> DEFINE l == [i \in Ids |-> FALSE]
  <2>2. rows' = [id \in Ids |-> IF id \in ids
                                THEN [rows[id] EXCEPT !.state = "EXPIRED", !.locked = l[id]]
                                ELSE rows[id]]
    BY <1>2 DEF ExpireStaleNotified, Enter
  <2>3. l \in [Ids -> BOOLEAN] /\ "EXPIRED" \in Active \cup Terminal
    BY DEF Terminal
  <2> HIDE DEF l
  <2> QED
    BY <1>0, <2>1, <2>2, <2>3, ManyAdvance
<1>3. CASE UNCHANGED rows
  BY <1>0, <1>3, UnchangedAdvances
<1> QED
  BY <1>1, <1>2, <1>3 DEF Ticks, ListStaleFoundItems, ListExpiryCandidates, EndRetries,
     MaybeRunExpirySweep, EndSweep

-----------------------------------------------------------------------------
(***************************************************************************)
(* What a step does to the rows and to those who wait.                     *)
(***************************************************************************)
\* Whatever is neither a new wish nor a withdrawal advances rows, and nobody
\* stops waiting.
LEMMA OtherAdvances ==
    ASSUME WishInv, Next,
           ~ \E u \in Users : \/ \E c \in Contents : NewWish(u, c)
                              \/ \E id \in Ids : RevokeWish(u, id)
    PROVE  /\ rows' \in [Ids -> Row] /\ \A j \in Ids : Advanced(j)
           /\ \A c \in Contents : wishers[c] \subseteq wishers'[c]
<1>0. TypeOK
  BY DEF WishInv
<1> USE DEF pool
<1>1. ASSUME NEW u \in Users, NEW c \in Contents, JoinWish(u, c)
      PROVE  /\ UNCHANGED rows
             /\ \A d \in Contents : wishers[d] \subseteq wishers'[d]
  BY <1>0, <1>1 DEF JoinWish, TypeOK
<1>2. ASSUME NEW u \in Users, NEW id \in Ids, Press(u, id)
      PROVE  UNCHANGED rows /\ UNCHANGED wishers
  BY <1>2 DEF Press
<1>3. ASSUME NEW u \in Users, NEW id \in Ids, NEW answer \in Answers, Submitted(u, id, answer)
      PROVE  /\ rows' \in [Ids -> Row] /\ \A j \in Ids : Advanced(j)
             /\ UNCHANGED wishers
  BY <1>0, <1>3, FulfilAdvances, UnchangedAdvances DEF Submitted
<1>4. CASE Ticks
  <2>1. UNCHANGED wishers
    BY <1>4 DEF Ticks, ClaimSearchableItems, ListStaleFoundItems, ExpireStaleNotified,
       ListExpiryCandidates, EndRetries, MaybeRunExpirySweep, EndSweep
  <2> QED
    BY <1>4, <2>1, TickAdvances
<1>5. CASE Researches
  <2>1. UNCHANGED wishers
    BY <1>5 DEF Researches, Take, Missed, Hit, AlreadySubscribed, NotSubscribed, Reach, Send,
       MarkNotified
  <2> QED
    BY <1>5, <2>1, ResearchAdvances
<1>6. CASE DayPasses
  BY <1>0, <1>6, UnchangedAdvances DEF DayPasses
<1>7. CASE Restart
  BY <1>0, <1>7, UnchangedAdvances DEF Restart, BackfillWishers, TypeOK
<1> QED
  BY <1>0, <1>1, <1>2, <1>3, <1>4, <1>5, <1>6, <1>7, UnchangedAdvances
     DEF Next, UserActs, AddWish

\* A new wish takes an unused row, and its user waits.
LEMMA NewWishEffect ==
    ASSUME WishInv, NEW u \in Users, NEW c \in Contents, NewWish(u, c)
    PROVE  /\ ActiveOf(c) = {}
           /\ rows' \in [Ids -> Row]
           /\ \A d \in Contents : wishers[d] \subseteq wishers'[d]
           /\ u \in wishers'[c]
           /\ \E id \in Ids :
                /\ ~Used(id)
                /\ rows'[id] = [state |-> "PENDING", user |-> u, content |-> c, locked |-> FALSE]
                /\ \A j \in Ids : j # id => rows'[j] = rows[j]
<1>0. TypeOK
  BY DEF WishInv
<1>1. [state |-> "PENDING", user |-> u, content |-> c, locked |-> FALSE] \in Row
  BY DEF Row, Active, Open
<1>2. \A d \in Contents : wishers[d] \subseteq wishers'[d]
  BY <1>0 DEF NewWish, TypeOK
<1>3. u \in wishers'[c]
  BY <1>0 DEF NewWish, TypeOK
<1>4. PICK id \in Ids : NextId(id) /\ Set(id, [state |-> "PENDING", user |-> u, content |-> c,
                                              locked |-> FALSE])
  BY DEF NewWish
<1> QED
  BY <1>0, <1>1, <1>2, <1>3, <1>4, SetType DEF NewWish, NextId, Used

\* A withdrawal ends the wish, hands it to somebody who waits, or concerns a
\* wish of somebody else.
LEMMA RevokeEffect ==
    ASSUME WishInv, NEW u \in Users, NEW id \in Ids, RevokeWish(u, id)
    PROVE  LET c == rows[id].content
           IN  /\ IsActive(id)
               /\ rows' \in [Ids -> Row]
               /\ \A j \in Ids : j # id => rows'[j] = rows[j]
               /\ rows'[id].content = c
               /\ \A d \in Contents : d # c => wishers'[d] = wishers[d]
               /\ wishers'[c] = wishers[c] \ {u}
               /\ \/ rows'[id].state = "EXPIRED" /\ rows'[id].user \in Users
                  \/ /\ rows'[id].state = rows[id].state
                     /\ rows'[id].user = rows[id].user /\ rows[id].user # u
                  \/ /\ rows'[id].state = rows[id].state
                     /\ rows'[id].user \in wishers'[c]
<1> DEFINE c == rows[id].content
<1>0. TypeOK /\ UsedRows
  BY DEF WishInv
<1>1. IsActive(id) /\ rows[id] \in Row /\ rows[id].user \in Users /\ c \in Contents
  BY <1>0, StateSets DEF RevokeWish, IsActive, TypeOK, UsedRows, Used
<1>2. wishers' = [wishers EXCEPT ![c] = @ \ {u}] /\ wishers[c] \subseteq Users
  BY <1>0, <1>1 DEF RevokeWish, TypeOK
<1>3. PICK rec \in Left(id, u, wishers[c] \ {u}) : Set(id, rec)
  BY DEF RevokeWish
<1>4. \/ rec = rows[id] /\ rows[id].user # u
      \/ rec = Enter(id, "EXPIRED")
      \/ \E next \in wishers[c] \ {u} : rec = [rows[id] EXCEPT !.user = next]
  BY <1>3 DEF Left
<1>5. /\ rec \in Row /\ rec.content = c
      /\ \/ rec.state = "EXPIRED" /\ rec.user \in Users
         \/ rec.state = rows[id].state /\ rec.user = rows[id].user /\ rows[id].user # u
         \/ rec.state = rows[id].state /\ rec.user \in wishers[c] \ {u}
  <2>1. CASE rec = rows[id] /\ rows[id].user # u
    BY <1>1, <2>1
  <2>2. CASE rec = Enter(id, "EXPIRED")
    BY <1>0, <1>1, <2>2, EnterType DEF Terminal
  <2>3. CASE \E next \in wishers[c] \ {u} : rec = [rows[id] EXCEPT !.user = next]
    BY <1>1, <1>2, <2>3 DEF Row
  <2> QED
    BY <1>4, <2>1, <2>2, <2>3
<1>6. rows' \in [Ids -> Row] /\ rows'[id] = rec /\ \A j \in Ids : j # id => rows'[j] = rows[j]
  BY <1>0, <1>3, <1>5, SetType
<1>7. wishers'[c] = wishers[c] \ {u} /\ \A d \in Contents : d # c => wishers'[d] = wishers[d]
  BY <1>0, <1>1, <1>2 DEF TypeOK
<1> QED
  BY <1>1, <1>5, <1>6, <1>7

-----------------------------------------------------------------------------
(***************************************************************************)
(* The invariant, step by step.                                            *)
(***************************************************************************)
LEMMA InitInv == Init => WishInv
<1> SUFFICES ASSUME Init PROVE WishInv
  OBVIOUS
<1>1. TypeOK
  BY ConstantsOK DEF Init, TypeOK, Row, NoRow, Starting, Idle
<1>2. \A id \in Ids : rows[id] = NoRow /\ ~Used(id) /\ ~IsActive(id)
  BY StateSets DEF Init, NoRow, Used, IsActive
<1>3. UsedRows /\ OneActive /\ OriginatorWaits /\ NotifiedWasSent /\ FulfilledWasAsked
  BY <1>2 DEF UsedRows, NoRow, OneActive, OriginatorWaits, NotifiedWasSent, FulfilledWasAsked
<1>4. ScheduledUsed /\ SentButton
  BY DEF Init, Starting, Idle, ScheduledUsed, SentButton
<1> QED
  BY <1>1, <1>3, <1>4 DEF WishInv

LEMMA StutterInv == WishInv /\ UNCHANGED vars => WishInv'
<1> SUFFICES ASSUME WishInv, UNCHANGED vars PROVE WishInv'
  OBVIOUS
<1> USE DEF vars
<1>1. TypeOK' /\ NotifiedWasSent' /\ FulfilledWasAsked'
  BY DEF WishInv, TypeOK, NotifiedWasSent, FulfilledWasAsked
<1>2. UsedRows' /\ OneActive' /\ OriginatorWaits'
  BY DEF WishInv, UsedRows, Used, OneActive, OriginatorWaits, IsActive
<1>3. ScheduledUsed' /\ SentButton'
  BY DEF WishInv, ScheduledUsed, Used, SentButton
<1> QED
  BY <1>1, <1>2, <1>3 DEF WishInv

\* A step keeps the rows that are in use in use, and settled ones settled.
LEMMA RowsStep ==
    ASSUME WishInv, Next
    PROVE  /\ rows' \in [Ids -> Row] /\ UsedRows'
           /\ \A id \in Ids : Used(id) => Used(id)'
           /\ \A id \in Ids : rows[id].state \in Terminal => rows'[id].state \in Terminal
<1>0. TypeOK /\ UsedRows
  BY DEF WishInv
<1>t. ASSUME NEW r \in Row PROVE r.state \in Active \cup Terminal \cup {"none"}
  BY DEF Row
<1>1. ASSUME NEW u \in Users, NEW c \in Contents, NewWish(u, c)
      PROVE  /\ rows' \in [Ids -> Row] /\ UsedRows'
             /\ \A id \in Ids : Used(id) => Used(id)'
             /\ \A id \in Ids : rows[id].state \in Terminal => rows'[id].state \in Terminal
  <2>1. PICK id \in Ids :
          /\ ~Used(id)
          /\ rows'[id] = [state |-> "PENDING", user |-> u, content |-> c, locked |-> FALSE]
          /\ \A j \in Ids : j # id => rows'[j] = rows[j]
    BY <1>1, NewWishEffect
  <2>2. rows' \in [Ids -> Row]
    BY <1>1, NewWishEffect
  <2>3. UsedRows'
    BY <1>0, <2>1 DEF UsedRows, Used
  <2> QED
    BY <2>1, <2>2, <2>3, StateSets DEF Used
<1>2. ASSUME NEW u \in Users, NEW id \in Ids, RevokeWish(u, id)
      PROVE  /\ rows' \in [Ids -> Row] /\ UsedRows'
             /\ \A j \in Ids : Used(j) => Used(j)'
             /\ \A j \in Ids : rows[j].state \in Terminal => rows'[j].state \in Terminal
  <2>1. /\ IsActive(id) /\ rows' \in [Ids -> Row]
        /\ \A j \in Ids : j # id => rows'[j] = rows[j]
        /\ rows'[id].content = rows[id].content
        /\ wishers'[rows[id].content] = wishers[rows[id].content] \ {u}
        /\ \/ rows'[id].state = "EXPIRED" /\ rows'[id].user \in Users
           \/ rows'[id].state = rows[id].state /\ rows'[id].user = rows[id].user
           \/ /\ rows'[id].state = rows[id].state
              /\ rows'[id].user \in wishers'[rows[id].content]
    BY <1>2, RevokeEffect
  <2>2. Used(id) /\ rows[id].state \notin Terminal
    BY <2>1, StateSets DEF IsActive, Used
  <2>3. rows[id].content \in Contents /\ rows[id].user \in Users
    BY <1>0, <2>2 DEF UsedRows
  <2>4. rows'[id].user \in Users
    BY <1>0, <2>1, <2>3 DEF TypeOK
  <2>5. rows'[id].state # "none"
    BY <2>1, <2>2 DEF Used
  <2>6. UsedRows'
    BY <1>0, <2>1, <2>3, <2>4, <2>5 DEF UsedRows, Used
  <2> QED
    BY <2>1, <2>2, <2>5, <2>6 DEF Used
<1>3. CASE ~ \E u \in Users : \/ \E c \in Contents : NewWish(u, c)
                              \/ \E id \in Ids : RevokeWish(u, id)
  <2>1. rows' \in [Ids -> Row] /\ \A j \in Ids : Advanced(j)
    BY <1>3, OtherAdvances
  <2>2. UsedRows' /\ \A id \in Ids : Used(id) => Used(id)'
    BY <1>0, <2>1 DEF UsedRows, Used, Advanced
  <2>3. ASSUME NEW id \in Ids, rows[id].state \in Terminal
        PROVE  rows'[id].state \in Terminal
    <3>1. rows'[id].state \notin Active /\ rows'[id].state # "none"
      BY <2>1, <2>3, StateSets DEF Advanced, IsActive
    <3> QED
      BY <1>t, <2>1, <3>1
  <2> QED
    BY <2>1, <2>2, <2>3
<1> QED
  BY <1>1, <1>2, <1>3

\* One active row per content, and its originator waits.
LEMMA PoolStep ==
    ASSUME WishInv, Next
    PROVE  OneActive' /\ OriginatorWaits'
<1>0. TypeOK /\ UsedRows /\ OneActive /\ OriginatorWaits
  BY DEF WishInv
<1>u. ASSUME NEW j \in Ids, IsActive(j) PROVE rows[j].content \in Contents
  BY <1>0, <1>u, StateSets DEF IsActive, UsedRows, Used
<1>1. ASSUME NEW u \in Users, NEW c \in Contents, NewWish(u, c)
      PROVE  OneActive' /\ OriginatorWaits'
  <2>1. PICK id \in Ids :
          /\ rows'[id] = [state |-> "PENDING", user |-> u, content |-> c, locked |-> FALSE]
          /\ \A j \in Ids : j # id => rows'[j] = rows[j]
    BY <1>1, NewWishEffect
  <2>2. /\ \A j \in Ids : IsActive(j) => rows[j].content # c
        /\ \A d \in Contents : wishers[d] \subseteq wishers'[d]
        /\ u \in wishers'[c]
    BY <1>1, NewWishEffect DEF ActiveOf
  <2>3. \A j \in Ids : j # id => (IsActive(j)' <=> IsActive(j))
    BY <2>1 DEF IsActive
  <2>4. OneActive'
    BY <1>0, <2>1, <2>2, <2>3 DEF OneActive
  <2>5. OriginatorWaits'
    BY <1>0, <1>u, <2>1, <2>2, <2>3 DEF OriginatorWaits
  <2> QED
    BY <2>4, <2>5
<1>2. ASSUME NEW u \in Users, NEW id \in Ids, RevokeWish(u, id)
      PROVE  OneActive' /\ OriginatorWaits'
  <2> DEFINE c == rows[id].content
  <2>1. /\ IsActive(id)
        /\ \A j \in Ids : j # id => rows'[j] = rows[j]
        /\ rows'[id].content = c
        /\ \A d \in Contents : d # c => wishers'[d] = wishers[d]
        /\ wishers'[c] = wishers[c] \ {u}
        /\ \/ rows'[id].state = "EXPIRED"
           \/ rows'[id].user = rows[id].user /\ rows[id].user # u
           \/ rows'[id].user \in wishers'[c]
    BY <1>2, RevokeEffect
  <2>2. \A j \in Ids : IsActive(j)' => IsActive(j)
    BY <2>1 DEF IsActive
  <2>3. OneActive'
    BY <1>0, <2>1, <2>2 DEF OneActive
  <2>4. ASSUME NEW j \in Ids, IsActive(j)' PROVE rows'[j].user \in wishers'[rows'[j].content]
    <3>1. CASE j = id
      <4>1. rows'[id].state # "EXPIRED"
        BY <2>4, <3>1 DEF IsActive, Active, Open
      <4>2. rows[id].user \in wishers[c]
        BY <1>0, <2>1 DEF OriginatorWaits
      <4> QED
        BY <2>1, <3>1, <4>1, <4>2
    <3>2. CASE j # id
      <4>1. IsActive(j) /\ rows'[j] = rows[j]
        BY <2>1, <2>2, <2>4, <3>2
      <4>2. rows[j].content # c
        BY <1>0, <2>1, <3>2, <4>1 DEF OneActive
      <4> QED
        BY <1>0, <1>u, <2>1, <4>1, <4>2 DEF OriginatorWaits
    <3> QED
      BY <3>1, <3>2
  <2> QED
    BY <2>3, <2>4 DEF OriginatorWaits
<1>3. CASE ~ \E u \in Users : \/ \E c \in Contents : NewWish(u, c)
                              \/ \E id \in Ids : RevokeWish(u, id)
  <2>1. /\ \A j \in Ids : Advanced(j)
        /\ \A c \in Contents : wishers[c] \subseteq wishers'[c]
    BY <1>3, OtherAdvances
  <2>2. \A j \in Ids : IsActive(j)' => IsActive(j)
    BY <2>1 DEF Advanced, IsActive
  <2> QED
    BY <1>0, <1>u, <2>1, <2>2 DEF OneActive, OriginatorWaits, Advanced
<1> QED
  BY <1>1, <1>2, <1>3

\* The type of what the scheduler does, and that its items are in use.
LEMMA SchedStep ==
    ASSUME WishInv, Next
    PROVE  /\ sched' \in [phase : {"idle", "rescan", "retry", "due", "expiring", "listing", "sweep"},
                          work  : SUBSET Item,
                          step  : {"next", "search", "subscribed", "reach", "send", "sent"},
                          cur   : Item \cup {None}]
           /\ ScheduledUsed'
<1> DEFINE Sched == [phase : {"idle", "rescan", "retry", "due", "expiring", "listing", "sweep"},
                     work  : SUBSET Item,
                     step  : {"next", "search", "subscribed", "reach", "send", "sent"},
                     cur   : Item \cup {None}]
<1>0. TypeOK /\ UsedRows /\ ScheduledUsed /\ sched \in Sched
  BY DEF WishInv, TypeOK
<1>k. \A id \in Ids : Used(id) => Used(id)'
  BY RowsStep
<1>i. /\ \A item \in sched.work : item \in Item /\ Used(item.id)'
      /\ sched.step # "next" => sched.cur \in Item /\ \A cur \in {sched.cur} : Used(cur.id)'
  BY <1>0, <1>k DEF ScheduledUsed, Item
<1>b. ASSUME NEW id \in Ids, Used(id) PROVE ItemOf(id) \in Item /\ ItemOf(id).id = id
  BY <1>0, <1>b DEF ItemOf, Item, UsedRows
<1>1. CASE UNCHANGED sched
  BY <1>0, <1>1, <1>i DEF ScheduledUsed
<1>2. ASSUME sched' \in Sched, sched'.step = "next", sched'.work = {}
      PROVE  sched' \in Sched /\ ScheduledUsed'
  BY <1>2 DEF ScheduledUsed
<1>3. CASE sched' = Idle \/ sched' = Starting \/ sched' = [Idle EXCEPT !.phase = "expiring"]
           \/ sched' = [Idle EXCEPT !.phase = "listing"]
  BY <1>2, <1>3 DEF Idle, Starting
<1>4. ASSUME NEW ids \in SUBSET Ids, NEW phase \in {"rescan", "retry", "sweep"},
             \A id \in ids : Used(id), Begin(phase, ids)
      PROVE  sched' \in Sched /\ ScheduledUsed'
  <2>1. \A item \in sched'.work : item \in Item /\ Used(item.id)'
    BY <1>4, <1>b, <1>k DEF Begin
  <2>2. sched' \in Sched /\ sched'.step = "next"
    BY <1>4, <2>1 DEF Begin
  <2> QED
    BY <2>1, <2>2 DEF ScheduledUsed
<1>5. CASE Ticks
  <2>1. ASSUME NEW ids \in SUBSET Ids, NEW minute \in Minutes, ClaimSearchableItems(minute, ids)
        PROVE  Begin("rescan", ids) /\ \A id \in ids : Used(id)
    BY <2>1 DEF ClaimSearchableItems, Claimable, Open, Used
  <2>2. ASSUME NEW ids \in SUBSET Ids, ListStaleFoundItems(ids)
        PROVE  Begin("retry", ids) /\ \A id \in ids : Used(id)
    BY <2>2 DEF ListStaleFoundItems, Found, Used
  <2>3. ASSUME NEW ids \in SUBSET Ids, ListExpiryCandidates(ids)
        PROVE  Begin("sweep", ids) /\ \A id \in ids : Used(id)
    BY <2>3 DEF ListExpiryCandidates, Open, Used
  <2> QED
    BY <1>3, <1>4, <1>5, <2>1, <2>2, <2>3
       DEF Ticks, EndRetries, MaybeRunExpirySweep, EndSweep, ExpireStaleNotified
<1>6. ASSUME NEW step \in {"subscribed", "send", "sent"}, GoTo(step), sched.step # "next"
      PROVE  sched' \in Sched /\ ScheduledUsed'
  BY <1>0, <1>6, <1>i DEF GoTo, ScheduledUsed
<1>7. CASE Done
  BY <1>0, <1>7, <1>i DEF Done, ScheduledUsed
<1>8. ASSUME NEW item \in sched.work, Take(item)
      PROVE  sched' \in Sched /\ ScheduledUsed'
  BY <1>0, <1>8, <1>i DEF Take, ScheduledUsed
<1>9. CASE NotSubscribed
  <2>1. ItemOf(sched.cur.id) \in Item /\ ItemOf(sched.cur.id).id = sched.cur.id
    BY <1>0, <1>9, <1>b DEF NotSubscribed, ScheduledUsed, Item
  <2> QED
    BY <1>0, <1>9, <1>i, <2>1 DEF NotSubscribed, ScheduledUsed
<1>10. CASE Researches
  BY <1>6, <1>7, <1>8, <1>9, <1>10
     DEF Researches, Missed, Hit, AlreadySubscribed, Reach, Send, TryLater, MarkNotified
<1>11. CASE Restart
  BY <1>3, <1>11 DEF Restart
<1> QED
  BY <1>1, <1>5, <1>10, <1>11
     DEF Next, UserActs, AddWish, JoinWish, NewWish, RevokeWish, Press, Submitted, DayPasses

\* The type of the rest.
LEMMA TypeStep ==
    ASSUME WishInv, Next
    PROVE  TypeOK'
<1>0. TypeOK /\ UsedRows
  BY DEF WishInv
<1>1. wishers' \in [Contents -> SUBSET Users]
  <2>1. ASSUME NEW u \in Users, NEW c \in Contents,
               UNCHANGED wishers \/ wishers' = [wishers EXCEPT ![c] = @ \cup {u}]
        PROVE  wishers' \in [Contents -> SUBSET Users]
    BY <1>0, <2>1 DEF TypeOK
  <2>2. ASSUME NEW u \in Users, NEW id \in Ids, RevokeWish(u, id)
        PROVE  wishers' \in [Contents -> SUBSET Users]
    BY <1>0, <2>2 DEF RevokeWish, TypeOK
  <2>3. CASE Restart
    <3>1. ASSUME NEW c \in Contents, NEW id \in Ids, rows[id].content = c
          PROVE  rows[id].user \in Users
      BY <1>0, <3>1, ConstantsOK DEF UsedRows
    <3> QED
      BY <1>0, <2>3, <3>1 DEF Restart, BackfillWishers, TypeOK
  <2>4. CASE UNCHANGED wishers
    BY <1>0, <2>4 DEF TypeOK
  <2> QED
    BY <2>1, <2>2, <2>3, <2>4
       DEF Next, UserActs, AddWish, JoinWish, NewWish, Press, Submitted, Ticks,
           ClaimSearchableItems, ListStaleFoundItems, ExpireStaleNotified, ListExpiryCandidates,
           EndRetries, MaybeRunExpirySweep, EndSweep, Researches, Take, Missed, Hit,
           AlreadySubscribed, NotSubscribed, Reach, Send, MarkNotified, DayPasses, pool
<1>2. buttons' \subseteq Users \X Ids /\ buttons \subseteq buttons'
  <2>1. CASE Send
    <3>1. sched.cur.user \in Users /\ sched.cur.id \in Ids
      BY <2>1 DEF WishInv, ScheduledUsed, Item, Send
    <3> QED
      BY <1>0, <2>1, <3>1 DEF Send, Deliver, TypeOK
  <2>2. CASE UNCHANGED buttons
    BY <1>0, <2>2 DEF TypeOK
  <2> QED
    BY <2>1, <2>2
       DEF Next, UserActs, AddWish, JoinWish, NewWish, RevokeWish, Press, Submitted, Ticks,
           ClaimSearchableItems, ListStaleFoundItems, ExpireStaleNotified, ListExpiryCandidates,
           EndRetries, MaybeRunExpirySweep, EndSweep, Researches, Take, Missed, Hit,
           AlreadySubscribed, NotSubscribed, Reach, MarkNotified, DayPasses, Restart, hist
<1>3. presses' \subseteq buttons'
  <2>1. presses' \subseteq buttons
    BY <1>0 DEF TypeOK, Next, UserActs, AddWish, JoinWish, NewWish, RevokeWish, Press, Submitted,
       Ticks, ClaimSearchableItems, ListStaleFoundItems, ExpireStaleNotified,
       ListExpiryCandidates, EndRetries, MaybeRunExpirySweep, EndSweep, Researches, Take, Missed,
       Hit, AlreadySubscribed, NotSubscribed, Reach, Send, MarkNotified, DayPasses, Restart
  <2> QED
    BY <1>2, <2>1
<1>4. asked' \subseteq Ids /\ asked \subseteq asked'
  <2>1. CASE AlreadySubscribed
    BY <1>0, <2>1 DEF AlreadySubscribed, WishInv, ScheduledUsed, Item, TypeOK
  <2> QED
    BY <1>0, <2>1
       DEF TypeOK, Next, UserActs, AddWish, JoinWish, NewWish, RevokeWish, Press, Submitted, Ticks,
           ClaimSearchableItems, ListStaleFoundItems, ExpireStaleNotified, ListExpiryCandidates,
           EndRetries, MaybeRunExpirySweep, EndSweep, Researches, Take, Missed, Hit,
           NotSubscribed, Reach, Send, MarkNotified, DayPasses, Restart, hist
<1>5. sweepDue' \in BOOLEAN
  BY <1>0
     DEF TypeOK, Next, UserActs, AddWish, JoinWish, NewWish, RevokeWish, Press, Submitted, Ticks,
         ClaimSearchableItems, ListStaleFoundItems, ExpireStaleNotified, ListExpiryCandidates,
         EndRetries, MaybeRunExpirySweep, EndSweep, Researches, Take, Missed, Hit,
         AlreadySubscribed, NotSubscribed, Reach, Send, MarkNotified, DayPasses, Restart
<1>6. restarts' \in 0..MaxRestarts
  <2>1. CASE Restart
    BY <1>0, <2>1, ConstantsOK DEF TypeOK, Restart
  <2>2. CASE UNCHANGED restarts
    BY <1>0, <2>2 DEF TypeOK
  <2> QED
    BY <2>1, <2>2
       DEF Next, UserActs, AddWish, JoinWish, NewWish, RevokeWish, Press, Submitted, Ticks,
           ClaimSearchableItems, ListStaleFoundItems, ExpireStaleNotified, ListExpiryCandidates,
           EndRetries, MaybeRunExpirySweep, EndSweep, Researches, Take, Missed, Hit,
           AlreadySubscribed, NotSubscribed, Reach, Send, MarkNotified, DayPasses
<1> QED
  BY <1>1, <1>2, <1>3, <1>4, <1>5, <1>6, RowsStep, SchedStep DEF TypeOK

\* Sending ends with a button received, and buttons are never taken back.
LEMMA SentStep ==
    ASSUME WishInv, Next
    PROVE  SentButton' /\ NotifiedWasSent'
<1>0. TypeOK /\ SentButton /\ NotifiedWasSent /\ ScheduledUsed
  BY DEF WishInv
<1>1. buttons \subseteq buttons'
  BY DEF Deliver, Next, UserActs, AddWish, JoinWish, NewWish, RevokeWish, Press, Submitted, Ticks,
     ClaimSearchableItems, ListStaleFoundItems, ExpireStaleNotified, ListExpiryCandidates,
     EndRetries, MaybeRunExpirySweep, EndSweep, Researches, Take, Missed, Hit,
     AlreadySubscribed, NotSubscribed, Reach, Send, MarkNotified, DayPasses, Restart, hist
<1>2. SentButton'
  <2>1. CASE Send
    <3>1. sched.cur \in Item
      BY <1>0, <2>1 DEF Send, ScheduledUsed
    <3>2. CASE Deliver(sched.cur.user, sched.cur.id) /\ GoTo("sent")
      <4>1. sched'.cur = sched.cur /\ sched.cur.user \in Users
        BY <1>0, <3>1, <3>2 DEF GoTo, Item, TypeOK
      <4> QED
        BY <3>2, <4>1 DEF Deliver, SentButton
    <3>3. CASE Done
      BY <1>0, <3>3 DEF Done, SentButton, TypeOK
    <3> QED
      BY <2>1, <3>2, <3>3 DEF Send, TryLater
  <2>2. CASE UNCHANGED sched
    BY <1>0, <1>1, <2>2 DEF SentButton
  <2>3. ASSUME sched'.step # "sent" PROVE SentButton'
    BY <2>3 DEF SentButton
  <2>4. CASE Done \/ GoTo("subscribed") \/ GoTo("send")
    BY <1>0, <2>3, <2>4 DEF Done, GoTo, TypeOK
  <2>5. CASE Researches
    <3>1. ASSUME NEW item \in sched.work, Take(item) PROVE sched'.step # "sent"
      BY <1>0, <3>1 DEF Take, TypeOK
    <3>2. CASE NotSubscribed
      BY <1>0, <2>3, <3>2 DEF NotSubscribed, TypeOK
    <3> QED
      BY <2>1, <2>3, <2>4, <2>5, <3>1, <3>2
         DEF Researches, Missed, Hit, AlreadySubscribed, Reach, MarkNotified
  <2>6. CASE Ticks \/ Restart
    <3>1. ASSUME NEW ids \in SUBSET Ids, NEW phase \in {"rescan", "retry", "sweep"},
                 Begin(phase, ids)
          PROVE  sched'.step # "sent"
      BY <3>1 DEF Begin
    <3>2. ASSUME \/ sched' = Idle \/ sched' = Starting
                 \/ \E phase \in {"expiring", "listing"} : sched' = [Idle EXCEPT !.phase = phase]
          PROVE  sched'.step # "sent"
      BY <3>2 DEF Idle, Starting
    <3> QED
      BY <2>3, <2>6, <3>1, <3>2
         DEF Ticks, Restart, ClaimSearchableItems, ListStaleFoundItems, ExpireStaleNotified,
             ListExpiryCandidates, EndRetries, MaybeRunExpirySweep, EndSweep
  <2> QED
    BY <2>2, <2>5, <2>6
       DEF Next, UserActs, AddWish, JoinWish, NewWish, RevokeWish, Press, Submitted, DayPasses
<1>3. ASSUME NEW id \in Ids, rows'[id].state = "NOTIFIED"
      PROVE  rows[id].state = "NOTIFIED" \/ \E u \in Users : <<u, id>> \in buttons
  <2>s. ASSUME NEW i \in Ids, NEW rec, Update(i, rec), rec.state # "NOTIFIED"
        PROVE  rows[id].state = "NOTIFIED"
    BY <1>0, <1>3, <2>s DEF Update, Set, TypeOK
  <2>e. \A i \in Ids : \A s \in Active \cup Terminal : Enter(i, s).state = s
    BY <1>0, EnterType
  <2>u. ASSUME UNCHANGED rows PROVE rows[id].state = "NOTIFIED"
    BY <1>3, <2>u
  <2>f. ASSUME NEW i \in Ids, MarkFulfilled(i) PROVE rows[id].state = "NOTIFIED"
    BY <2>s, <2>e, <2>u, <2>f DEF MarkFulfilled, Terminal, Fulfillable
  <2>1. ASSUME NEW u \in Users, NEW c \in Contents, NewWish(u, c)
        PROVE  rows[id].state = "NOTIFIED"
    <3>1. PICK i \in Ids :
            /\ rows'[i] = [state |-> "PENDING", user |-> u, content |-> c, locked |-> FALSE]
            /\ \A j \in Ids : j # i => rows'[j] = rows[j]
      BY <2>1, NewWishEffect
    <3>2. rows'[i].state = "PENDING"
      BY <3>1
    <3> QED
      BY <1>3, <3>1, <3>2
  <2>2. ASSUME NEW u \in Users, NEW i \in Ids, RevokeWish(u, i)
        PROVE  rows[id].state = "NOTIFIED"
    BY <1>3, <2>2, RevokeEffect
  <2>3. ASSUME NEW u \in Users, NEW i \in Ids, NEW answer \in Answers, Submitted(u, i, answer)
        PROVE  rows[id].state = "NOTIFIED"
    BY <2>3, <2>f, <2>u DEF Submitted
  <2>4. CASE Ticks
    <3>1. ASSUME NEW ids \in SUBSET Ids, NEW minute \in Minutes, ClaimSearchableItems(minute, ids)
          PROVE  rows[id].state = "NOTIFIED"
      BY <1>0, <1>3, <3>1 DEF ClaimSearchableItems, TypeOK, Row
    <3>2. ASSUME NEW ids \in SUBSET Ids, ExpireStaleNotified(ids)
          PROVE  rows[id].state = "NOTIFIED"
      BY <1>3, <3>2, <2>e DEF ExpireStaleNotified, Terminal
    <3> QED
      BY <2>4, <2>u, <3>1, <3>2
         DEF Ticks, ListStaleFoundItems, ListExpiryCandidates, EndRetries, MaybeRunExpirySweep,
             EndSweep, pool
  <2>5. CASE Researches
    <3>0. sched.step # "next" => sched.cur.id \in Ids
      BY <1>0 DEF ScheduledUsed, Item
    <3>1. CASE Missed
      <4>1. sched.cur.id \in Ids
        BY <3>0, <3>1 DEF Missed
      <4>2. CASE Update(sched.cur.id, Enter(sched.cur.id, "EXPIRED"))
        BY <2>s, <2>e, <4>1, <4>2 DEF Terminal
      <4>3. CASE /\ rows[sched.cur.id].state = "SEARCHING"
                 /\ Update(sched.cur.id, [rows[sched.cur.id] EXCEPT !.locked = FALSE])
        BY <1>0, <2>s, <4>1, <4>3 DEF TypeOK, Row
      <4> QED
        BY <2>u, <3>1, <4>2, <4>3 DEF Missed
    <3>2. CASE Hit
      BY <2>s, <2>e, <2>u, <3>0, <3>2 DEF Hit, Update, Active
    <3>3. CASE AlreadySubscribed
      BY <2>f, <3>0, <3>3 DEF AlreadySubscribed
    <3>4. ASSUME NEW i \in Ids, MarkOrphaned(i) PROVE rows[id].state = "NOTIFIED"
      BY <2>s, <2>e, <3>4 DEF MarkOrphaned, Terminal
    <3>5. CASE Reach \/ Send
      BY <2>u, <3>0, <3>4, <3>5 DEF Reach, Send
    <3>6. CASE MarkNotified
      <4>1. sched.cur.id \in Ids /\ \E u \in Users : <<u, sched.cur.id>> \in buttons
        BY <1>0, <3>0, <3>6 DEF MarkNotified, SentButton
      <4>2. rows[id].state = "NOTIFIED" \/ id = sched.cur.id
        BY <1>0, <1>3, <3>6, <4>1 DEF MarkNotified, Update, Set, TypeOK
      <4> QED
        BY <4>1, <4>2
    <3> QED
      BY <2>5, <2>u, <3>1, <3>2, <3>3, <3>5, <3>6 DEF Researches, Take, NotSubscribed, pool
  <2> QED
    BY <2>u, <2>1, <2>2, <2>3, <2>4, <2>5
       DEF Next, UserActs, AddWish, JoinWish, Press, DayPasses, Restart, pool
<1>4. NotifiedWasSent'
  BY <1>0, <1>1, <1>3 DEF NotifiedWasSent
<1> QED
  BY <1>2, <1>4

\* Only an answer that stands for a request, or a subscription that exists,
\* fulfils a wish.
LEMMA AskedStep ==
    ASSUME WishInv, Next
    PROVE  FulfilledWasAsked'
<1>0. TypeOK /\ FulfilledWasAsked /\ ScheduledUsed
  BY DEF WishInv
<1>1. asked \subseteq asked'
  BY DEF Next, UserActs, AddWish, JoinWish, NewWish, RevokeWish, Press, Submitted, Ticks,
     ClaimSearchableItems, ListStaleFoundItems, ExpireStaleNotified, ListExpiryCandidates,
     EndRetries, MaybeRunExpirySweep, EndSweep, Researches, Take, Missed, Hit,
     AlreadySubscribed, NotSubscribed, Reach, Send, MarkNotified, DayPasses, Restart, hist
<1>2. ASSUME NEW id \in Ids, rows'[id].state = "FULFILLED"
      PROVE  rows[id].state = "FULFILLED" \/ id \in asked'
  <2>s. ASSUME NEW i \in Ids, NEW rec, Update(i, rec), rec.state # "FULFILLED"
        PROVE  rows[id].state = "FULFILLED"
    BY <1>0, <1>2, <2>s DEF Update, Set, TypeOK
  <2>e. \A i \in Ids : \A s \in Active \cup Terminal : Enter(i, s).state = s
    BY <1>0, EnterType
  <2>u. ASSUME UNCHANGED rows PROVE rows[id].state = "FULFILLED"
    BY <1>2, <2>u
  <2>f. ASSUME NEW i \in Ids, MarkFulfilled(i) PROVE rows[id].state = "FULFILLED" \/ id = i
    BY <1>0, <1>2, <2>f DEF MarkFulfilled, Update, Set, TypeOK
  <2>1. ASSUME NEW u \in Users, NEW c \in Contents, NewWish(u, c)
        PROVE  rows[id].state = "FULFILLED"
    <3>1. PICK i \in Ids :
            /\ rows'[i] = [state |-> "PENDING", user |-> u, content |-> c, locked |-> FALSE]
            /\ \A j \in Ids : j # i => rows'[j] = rows[j]
      BY <2>1, NewWishEffect
    <3>2. rows'[i].state = "PENDING"
      BY <3>1
    <3> QED
      BY <1>2, <3>1, <3>2
  <2>2. ASSUME NEW u \in Users, NEW i \in Ids, RevokeWish(u, i)
        PROVE  rows[id].state = "FULFILLED"
    BY <1>2, <2>2, RevokeEffect
  <2>3. ASSUME NEW u \in Users, NEW i \in Ids, NEW answer \in Answers, Submitted(u, i, answer)
        PROVE  rows[id].state = "FULFILLED" \/ id \in asked'
    <3>1. CASE UNCHANGED rows
      BY <2>u, <3>1
    <3>2. CASE Fulfils(answer) /\ MarkFulfilled(i)
      <4>1. i \in asked'
        BY <2>3, <3>2 DEF Submitted, Fulfils
      <4> QED
        BY <2>f, <3>2, <4>1
    <3> QED
      BY <2>3, <3>1, <3>2 DEF Submitted
  <2>4. CASE Ticks
    <3>1. ASSUME NEW ids \in SUBSET Ids, NEW minute \in Minutes, ClaimSearchableItems(minute, ids)
          PROVE  rows[id].state = "FULFILLED"
      BY <1>0, <1>2, <3>1 DEF ClaimSearchableItems, TypeOK, Row
    <3>2. ASSUME NEW ids \in SUBSET Ids, ExpireStaleNotified(ids)
          PROVE  rows[id].state = "FULFILLED"
      BY <1>2, <3>2, <2>e DEF ExpireStaleNotified, Terminal
    <3> QED
      BY <2>4, <2>u, <3>1, <3>2
         DEF Ticks, ListStaleFoundItems, ListExpiryCandidates, EndRetries, MaybeRunExpirySweep,
             EndSweep, pool
  <2>5. CASE Researches
    <3>0. sched.step # "next" => sched.cur.id \in Ids
      BY <1>0 DEF ScheduledUsed, Item
    <3>1. CASE Missed
      <4>1. sched.cur.id \in Ids
        BY <3>0, <3>1 DEF Missed
      <4>2. CASE Update(sched.cur.id, Enter(sched.cur.id, "EXPIRED"))
        BY <2>s, <2>e, <4>1, <4>2 DEF Terminal
      <4>3. CASE /\ rows[sched.cur.id].state = "SEARCHING"
                 /\ Update(sched.cur.id, [rows[sched.cur.id] EXCEPT !.locked = FALSE])
        BY <1>0, <2>s, <4>1, <4>3 DEF TypeOK, Row
      <4> QED
        BY <2>u, <3>1, <4>2, <4>3 DEF Missed
    <3>2. CASE Hit
      BY <2>s, <2>e, <2>u, <3>0, <3>2 DEF Hit, Update, Active
    <3>3. CASE AlreadySubscribed
      BY <2>f, <3>0, <3>3 DEF AlreadySubscribed
    <3>4. ASSUME NEW i \in Ids, MarkOrphaned(i) PROVE rows[id].state = "FULFILLED"
      BY <2>s, <2>e, <3>4 DEF MarkOrphaned, Terminal
    <3>5. CASE Reach \/ Send
      BY <2>u, <3>0, <3>4, <3>5 DEF Reach, Send
    <3>6. CASE MarkNotified
      <4>1. sched.cur.id \in Ids /\ rows[sched.cur.id] \in Row
        BY <1>0, <3>0, <3>6 DEF MarkNotified, TypeOK
      <4>2. [rows[sched.cur.id] EXCEPT !.state = "NOTIFIED"].state # "FULFILLED"
        BY <4>1 DEF Row
      <4> QED
        BY <2>s, <2>u, <3>6, <4>1, <4>2 DEF MarkNotified
    <3> QED
      BY <2>5, <2>u, <3>1, <3>2, <3>3, <3>5, <3>6 DEF Researches, Take, NotSubscribed, pool
  <2> QED
    BY <2>u, <2>1, <2>2, <2>3, <2>4, <2>5
       DEF Next, UserActs, AddWish, JoinWish, Press, DayPasses, Restart, pool
<1> QED
  BY <1>0, <1>1, <1>2 DEF FulfilledWasAsked

-----------------------------------------------------------------------------
(***************************************************************************)
(* Theorems.                                                               *)
(***************************************************************************)
LEMMA Inductive == WishInv /\ [Next]_vars => WishInv'
<1> SUFFICES ASSUME WishInv, [Next]_vars PROVE WishInv'
  OBVIOUS
<1>1. CASE Next
  <2>1. TypeOK' /\ UsedRows' /\ ScheduledUsed'
    BY <1>1, TypeStep, RowsStep, SchedStep
  <2>2. OneActive' /\ OriginatorWaits'
    BY <1>1, PoolStep
  <2>3. SentButton' /\ NotifiedWasSent' /\ FulfilledWasAsked'
    BY <1>1, SentStep, AskedStep
  <2> QED
    BY <2>1, <2>2, <2>3 DEF WishInv
<1>2. CASE UNCHANGED vars
  BY <1>2, StutterInv
<1> QED
  BY <1>1, <1>2

\* The rows, those who wait, the scheduler and the buttons agree at all times.
THEOREM InvariantHolds == Spec => []WishInv
<1>1. Init => WishInv
  BY InitInv
<1>2. WishInv /\ [Next]_vars => WishInv'
  BY Inductive
<1> QED
  BY <1>1, <1>2, PTL DEF Spec

\* Every variable of WishPool keeps its type.
THEOREM TypeCorrect == Spec => []TypeOK
<1>1. WishInv => TypeOK
  BY DEF WishInv
<1> QED
  BY <1>1, InvariantHolds, PTL

\* Content has one active row, which activeUniqueIndexSQL also demands: AddWish
\* never meets its refusal.
THEOREM ContentOnce == Spec => []OneActive
<1>1. WishInv => OneActive
  BY DEF WishInv
<1> QED
  BY <1>1, InvariantHolds, PTL

\* Whoever an active wish belongs to waits for it.
THEOREM SomebodyWaits == Spec => []OriginatorWaits
<1>1. WishInv => OriginatorWaits
  BY DEF WishInv
<1> QED
  BY <1>1, InvariantHolds, PTL

\* A notified wish is one that somebody was sent the button of.
THEOREM NotifiedSent == Spec => []NotifiedWasSent
<1>1. WishInv => NotifiedWasSent
  BY DEF WishInv
<1> QED
  BY <1>1, InvariantHolds, PTL

\* A fulfilled wish was asked for.
THEOREM FulfilledAsked == Spec => []FulfilledWasAsked
<1>1. WishInv => FulfilledWasAsked
  BY DEF WishInv
<1> QED
  BY <1>1, InvariantHolds, PTL

\* A settled wish is never taken up again.
THEOREM SettledForGood == Spec => SettledNeverActive
<1> DEFINE Settled == \A id \in Ids : rows[id].state \in Terminal => rows'[id].state \in Terminal
<1>1. WishInv /\ [Next]_vars => [Settled]_vars
  BY RowsStep
<1> QED
  BY <1>1, InvariantHolds, PTL DEF Spec, SettledNeverActive
-----------------------------------------------------------------------------
(***************************************************************************)
(* The pool implements WishContract.                                       *)
(***************************************************************************)
\* The refinement mapping.
stages   == [id \in Ids |-> StageOf(rows[id].state)]
contents == [id \in Ids |-> rows[id].content]

PastStates   == {"FOUND", "NOTIFIED"} \cup Terminal
WasFound(id) == rows[id].state \in PastStates

\* Nobody is told, and nothing is asked for, before it was found.
FoundFirst ==
    /\ sched.step \in {"subscribed", "send"} => WasFound(sched.cur.id)
    /\ \A u \in Users, id \in Ids : <<u, id>> \in buttons => WasFound(id)

\* What the contract sees of a step.
Quiet == UNCHANGED <<stages, contents, wishers, buttons, asked>>
Seen  == Contract!Next \/ Quiet

LEMMA StagesOfStates ==
    /\ \A s \in Open : StageOf(s) = "open"
    /\ StageOf("none") = "none" /\ StageOf("PENDING") = "open"
    /\ StageOf("FOUND") = "found" /\ StageOf("NOTIFIED") = "notified"
    /\ StageOf("FULFILLED") = "fulfilled"
    /\ StageOf("EXPIRED") = "closed" /\ StageOf("ORPHANED") = "closed"
    /\ \A s \in Active \cup Terminal \cup {"none"} :
         /\ StageOf(s) \in Contract!Active <=> s \in Active
         /\ StageOf(s) = "none" <=> s = "none"
         /\ StageOf(s) \in Contract!Past <=> s \in PastStates
  BY DEF PastStates, StageOf, Open, Active, Terminal, Contract!Active, Contract!Past, Contract!Ended

\* A row that is set moves one wish.
LEMMA RowMoves ==
    ASSUME TypeOK, NEW id \in Ids, NEW rec \in Row, Set(id, rec), rec.content = rows[id].content
    PROVE  stages' = [stages EXCEPT ![id] = StageOf(rec.state)] /\ UNCHANGED contents
<1>1. /\ rows'[id] = rec
      /\ \A j \in Ids : j # id => rows'[j] = rows[j]
  BY SetType
<1>2. ASSUME NEW j \in Ids
      PROVE  /\ stages'[j] = IF j = id THEN StageOf(rec.state) ELSE stages[j]
             /\ contents'[j] = contents[j]
  BY <1>1 DEF stages, contents
<1> QED
  BY <1>2 DEF stages, contents

\* A write that moves no wish, or none at all.
LEMMA RowsStay ==
    ASSUME \A j \in Ids : /\ StageOf(rows'[j].state) = StageOf(rows[j].state)
                          /\ rows'[j].content = rows[j].content
    PROVE  UNCHANGED <<stages, contents>>
  BY DEF stages, contents

\* An UPDATE that closes a row, or fails.
LEMMA UpdateCloses ==
    ASSUME TypeOK, NEW id \in Ids, Used(id), NEW s \in {"EXPIRED", "ORPHANED"},
           Update(id, Enter(id, s)), UNCHANGED <<wishers, buttons, asked>>
    PROVE  Seen
<1>1. CASE UNCHANGED rows
  BY <1>1, RowsStay DEF Seen, Quiet
<1>2. CASE Set(id, Enter(id, s))
  <2>1. /\ Enter(id, s) \in Row /\ Enter(id, s).content = rows[id].content
        /\ Enter(id, s).state = s
    BY EnterType DEF Terminal
  <2>2. StageOf(s) = "closed"
    BY StagesOfStates
  <2>3. stages' = [stages EXCEPT ![id] = "closed"] /\ UNCHANGED contents
    BY <1>2, <2>1, <2>2, RowMoves
  <2>4. stages' = [w \in Ids |-> IF w \in {id} THEN "closed" ELSE stages[w]]
    BY <2>3 DEF stages
  <2>5. stages[id] # "none"
    BY StagesOfStates DEF stages, Used, TypeOK, Row
  <2>6. Contract!Close({id})
    BY <2>3, <2>4, <2>5 DEF Contract!Close, stages, contents
  <2> QED
    BY <2>6 DEF Seen, Contract!Next
<1> QED
  BY <1>1, <1>2 DEF Update

\* A request was made, and the row is marked, or not.
LEMMA AskSeen ==
    ASSUME TypeOK, NEW id \in Ids, WasFound(id), asked' = asked \cup {id},
           UNCHANGED rows \/ MarkFulfilled(id), UNCHANGED <<wishers, buttons>>
    PROVE  Seen
<1>1. stages[id] \in Contract!Past
  BY StagesOfStates DEF stages, WasFound, TypeOK, Row
<1>2. CASE UNCHANGED rows
  <2>1. UNCHANGED <<stages, contents>>
    BY <1>2, RowsStay
  <2>2. Contract!Ask(id)
    BY <1>1, <2>1 DEF Contract!Ask, stages, contents
  <2> QED
    BY <2>2 DEF Seen, Contract!Next
<1>3. CASE Fulfillable(id) /\ Set(id, Enter(id, "FULFILLED"))
  <2>1. /\ Enter(id, "FULFILLED") \in Row /\ Enter(id, "FULFILLED").content = rows[id].content
        /\ Enter(id, "FULFILLED").state = "FULFILLED"
    BY EnterType, StateSets
  <2>2. stages' = [stages EXCEPT ![id] = "fulfilled"] /\ UNCHANGED contents
    BY <1>3, <2>1, RowMoves, StagesOfStates
  <2>3. stages[id] \in {"found", "notified"}
    BY <1>3, StagesOfStates DEF Fulfillable, stages
  <2>4. Contract!Ask(id)
    BY <1>1, <2>2, <2>3 DEF Contract!Ask, Contract!Moves, stages, contents
  <2> QED
    BY <2>4 DEF Seen, Contract!Next
<1> QED
  BY <1>2, <1>3 DEF MarkFulfilled, Update
\* Users make, join and leave wishes, and ask for what was found.
LEMMA UserSeen ==
    ASSUME WishInv, FoundFirst, NEW u \in Users, UserActs(u) PROVE Seen
<1>0. TypeOK /\ UsedRows /\ OriginatorWaits
  BY DEF WishInv
<1>1. ASSUME NEW c \in Contents, JoinWish(u, c) PROVE Seen
  <2>1. PICK id \in Ids : IsActive(id) /\ rows[id].content = c
    BY <1>1 DEF JoinWish, ActiveOf
  <2>2. stages[id] \in Contract!Active /\ contents[id] = c
    BY <2>1, StagesOfStates DEF stages, contents, IsActive
  <2>3. UNCHANGED <<stages, contents>>
    BY <1>1, RowsStay DEF JoinWish
  <2>4. Contract!Join(u, c)
    BY <1>1, <2>2, <2>3 DEF JoinWish, hist, Contract!Join, Contract!ActiveFor, stages, contents
  <2> QED
    BY <2>4 DEF Seen, Contract!Next
<1>2. ASSUME NEW c \in Contents, NewWish(u, c) PROVE Seen
  <2> DEFINE rec == [state |-> "PENDING", user |-> u, content |-> c, locked |-> FALSE]
  <2>1. PICK id \in Ids : ~Used(id) /\ rows'[id] = rec /\ \A j \in Ids : j # id => rows'[j] = rows[j]
    BY <1>2, NewWishEffect
  <2>2. rec.state = "PENDING" /\ rec.content = c
    OBVIOUS
  <2> HIDE DEF rec
  <2>3. ASSUME NEW j \in Ids
        PROVE  /\ stages'[j] = IF j = id THEN "open" ELSE stages[j]
               /\ contents'[j] = IF j = id THEN c ELSE contents[j]
    BY <2>1, <2>2, StagesOfStates DEF stages, contents
  <2>4. stages' = [stages EXCEPT ![id] = "open"] /\ contents' = [contents EXCEPT ![id] = c]
    BY <2>3 DEF stages, contents
  <2>5. stages[id] = "none"
    BY <2>1, StagesOfStates DEF stages, Used
  <2>6. ASSUME NEW w \in Ids, contents[w] = c PROVE stages[w] \notin Contract!Active
    <3>1. rows[w].state \in Active \cup Terminal \cup {"none"} /\ rows[w].state \notin Active
      BY <1>0, <1>2, <2>6 DEF contents, NewWish, ActiveOf, IsActive, TypeOK, Row
    <3> QED
      BY <3>1, StagesOfStates DEF stages
  <2>7. wishers' = [wishers EXCEPT ![c] = @ \cup {u}] /\ UNCHANGED <<buttons, asked>>
    BY <1>2 DEF NewWish, hist
  <2>8. Contract!Make(id, u, c)
    BY <2>4, <2>5, <2>6, <2>7
       DEF Contract!Make, Contract!Moves, Contract!ActiveFor, stages, contents
  <2> QED
    BY <2>8 DEF Seen, Contract!Next
<1>3. ASSUME NEW id \in Ids, RevokeWish(u, id) PROVE Seen
  <2> DEFINE c == rows[id].content
  <2>1. /\ IsActive(id) /\ rows[id] \in Row /\ c \in Contents /\ rows[id].user \in wishers[c]
    BY <1>0, <1>3, StateSets DEF RevokeWish, IsActive, TypeOK, UsedRows, Used, OriginatorWaits
  <2>2. u \in wishers[c]
    BY <1>3, <2>1 DEF RevokeWish
  <2>3. PICK rec \in Left(id, u, wishers[c] \ {u}) : Set(id, rec)
    BY <1>3 DEF RevokeWish
  <2>4. \/ rec = rows[id] /\ wishers[c] # {u}
        \/ rec = Enter(id, "EXPIRED") /\ wishers[c] = {u}
        \/ /\ wishers[c] # {u}
           /\ \E next \in wishers[c] \ {u} : rec = [rows[id] EXCEPT !.user = next]
    BY <2>1, <2>2, <2>3 DEF Left
  <2>5. /\ rec \in Row /\ rec.content = c
        /\ \/ wishers[c] # {u} /\ rec.state = rows[id].state
           \/ wishers[c] = {u} /\ rec.state = "EXPIRED"
    <3>1. wishers[c] \subseteq Users
      BY <1>0, <2>1 DEF TypeOK
    <3>2. CASE rec = Enter(id, "EXPIRED") /\ wishers[c] = {u}
      BY <1>0, <3>2, EnterType DEF Terminal
    <3>3. CASE \E next \in wishers[c] \ {u} : rec = [rows[id] EXCEPT !.user = next]
      BY <2>1, <2>4, <3>1, <3>3 DEF Row, Enter
    <3> QED
      BY <2>1, <2>4, <3>2, <3>3
  <2>6. stages' = [stages EXCEPT ![id] = StageOf(rec.state)] /\ UNCHANGED contents
    BY <1>0, <2>3, <2>5, RowMoves
  <2>7. IF wishers[c] = {u} THEN stages' = [stages EXCEPT ![id] = "closed"] ELSE UNCHANGED stages
    <3>1. CASE wishers[c] = {u}
      BY <2>5, <2>6, <3>1, StagesOfStates
    <3>2. CASE wishers[c] # {u}
      BY <2>5, <2>6, <3>2 DEF stages
    <3> QED
      BY <3>1, <3>2
  <2>8. stages[id] \in Contract!Active /\ contents[id] = c
    BY <2>1, StagesOfStates DEF stages, contents, IsActive
  <2>9. wishers' = [wishers EXCEPT ![c] = @ \ {u}] /\ UNCHANGED <<buttons, asked>>
    BY <1>3 DEF RevokeWish, hist
  <2> HIDE DEF c
  <2>10. Contract!Leave(u, id)
    BY <2>2, <2>6, <2>7, <2>8, <2>9 DEF Contract!Leave, Contract!Moves, stages, contents
  <2> QED
    BY <2>10 DEF Seen, Contract!Next
<1>4. ASSUME NEW id \in Ids, Press(u, id) PROVE Seen
  BY <1>4, RowsStay DEF Press, pool, hist, Seen, Quiet
<1>5. ASSUME NEW id \in Ids, NEW answer \in Answers, Submitted(u, id, answer) PROVE Seen
  <2>1. CASE answer = "refused"
    <3>1. UNCHANGED <<rows, asked, wishers, buttons>>
      BY <1>5, <2>1 DEF Submitted, Fulfils
    <3> QED
      BY <3>1, RowsStay DEF Seen, Quiet
  <2>2. CASE answer # "refused"
    <3>1. WasFound(id)
      BY <1>0, <1>5 DEF Submitted, TypeOK, FoundFirst
    <3>2. /\ asked' = asked \cup {id} /\ UNCHANGED <<wishers, buttons>>
          /\ UNCHANGED rows \/ MarkFulfilled(id)
      BY <1>5, <2>2 DEF Submitted
    <3> QED
      BY <1>0, <3>1, <3>2, AskSeen
  <2> QED
    BY <2>1, <2>2
<1> QED
  BY <1>1, <1>2, <1>3, <1>4, <1>5 DEF UserActs, AddWish

\* A tick closes what nobody reacted to, and is not seen otherwise.
LEMMA TickSeen == ASSUME WishInv, Ticks PROVE Seen
<1>0. TypeOK
  BY DEF WishInv
<1>1. UNCHANGED <<wishers, buttons, asked>>
  BY DEF Ticks, ClaimSearchableItems, ListStaleFoundItems, ExpireStaleNotified, ListExpiryCandidates,
         EndRetries, MaybeRunExpirySweep, EndSweep, pool, hist
<1>2. ASSUME NEW ids \in SUBSET Ids, NEW minute \in Minutes, ClaimSearchableItems(minute, ids)
      PROVE  Seen
  <2>1. ASSUME NEW j \in Ids
        PROVE  /\ StageOf(rows'[j].state) = StageOf(rows[j].state)
               /\ rows'[j].content = rows[j].content
    <3>1. CASE j \in ids
      <4>1. rows[j].state \in Open /\ rows[j] \in Row
        BY <1>0, <1>2, <3>1 DEF ClaimSearchableItems, Claimable, TypeOK
      <4>2. rows'[j] = [rows[j] EXCEPT !.state = "SEARCHING", !.locked = TRUE]
        BY <1>2, <3>1 DEF ClaimSearchableItems
      <4>3. rows'[j].state \in Open /\ rows'[j].content = rows[j].content
        BY <4>1, <4>2 DEF Row, Open
      <4> QED
        BY <4>1, <4>3, StagesOfStates
    <3>2. CASE j \notin ids
      BY <1>2, <3>2 DEF ClaimSearchableItems
    <3> QED
      BY <3>1, <3>2
  <2> QED
    BY <1>1, <2>1, RowsStay DEF Seen, Quiet
<1>3. ASSUME NEW old \in SUBSET Ids, ExpireStaleNotified(old) PROVE Seen
  <2>1. ASSUME NEW j \in Ids
        PROVE  /\ stages'[j] = IF j \in old THEN "closed" ELSE stages[j]
               /\ contents'[j] = contents[j]
    <3>1. CASE j \in old
      <4>1. rows'[j] = Enter(j, "EXPIRED")
        BY <1>3, <3>1 DEF ExpireStaleNotified
      <4>2. Enter(j, "EXPIRED").state = "EXPIRED" /\ Enter(j, "EXPIRED").content = rows[j].content
        BY <1>0, EnterType DEF Terminal
      <4> QED
        BY <3>1, <4>1, <4>2, StagesOfStates DEF stages, contents
    <3>2. CASE j \notin old
      BY <1>3, <3>2 DEF ExpireStaleNotified, stages, contents
    <3> QED
      BY <3>1, <3>2
  <2>2. /\ stages' = [w \in Ids |-> IF w \in old THEN "closed" ELSE stages[w]]
        /\ UNCHANGED contents
    BY <2>1 DEF stages, contents
  <2>3. \A w \in old : stages[w] # "none"
    BY <1>3, StagesOfStates DEF ExpireStaleNotified, stages
  <2>4. Contract!Close(old)
    BY <1>1, <2>2, <2>3 DEF Contract!Close, stages, contents
  <2> QED
    BY <2>4 DEF Seen, Contract!Next
<1>4. CASE UNCHANGED rows
  BY <1>1, <1>4, RowsStay DEF Seen, Quiet
<1> QED
  BY <1>2, <1>3, <1>4 DEF Ticks, ListStaleFoundItems, ListExpiryCandidates, EndRetries,
     MaybeRunExpirySweep, EndSweep, pool
\* The search of one wish finds it, closes it, tells somebody, or is not seen.
LEMMA ResearchSeen == ASSUME WishInv, FoundFirst, Researches PROVE Seen
<1> DEFINE id == sched.cur.id
<1>0. /\ TypeOK /\ SentButton
      /\ sched.step # "next" => /\ sched.cur \in Item /\ id \in Ids /\ Used(id)
                                /\ rows[id] \in Row /\ stages[id] = StageOf(rows[id].state)
  BY DEF WishInv, ScheduledUsed, Item, TypeOK, stages
<1> HIDE DEF id
<1>1. ASSUME UNCHANGED <<rows, wishers, buttons, asked>> PROVE Seen
  BY <1>1, RowsStay DEF Seen, Quiet
<1>2. CASE Missed
  <2>1. /\ id \in Ids /\ Used(id) /\ rows[id] \in Row /\ UNCHANGED <<wishers, buttons, asked>>
        /\ \/ Update(id, Enter(id, "EXPIRED"))
           \/ rows[id].state = "SEARCHING" /\ Update(id, [rows[id] EXCEPT !.locked = FALSE])
           \/ UNCHANGED rows
    BY <1>0, <1>2 DEF Missed, hist, id
  <2>2. CASE Update(id, Enter(id, "EXPIRED"))
    BY <1>0, <2>1, <2>2, UpdateCloses
  <2>3. CASE Update(id, [rows[id] EXCEPT !.locked = FALSE])
    <3> DEFINE rec == [rows[id] EXCEPT !.locked = FALSE]
    <3>1. rec \in Row /\ rec.state = rows[id].state /\ rec.content = rows[id].content
      BY <2>1 DEF Row
    <3>2. Set(id, rec) \/ UNCHANGED rows
      BY <2>3 DEF Update
    <3> HIDE DEF rec
    <3>3. ASSUME Set(id, rec) PROVE UNCHANGED <<stages, contents>>
      <4>1. stages' = [stages EXCEPT ![id] = StageOf(rows[id].state)] /\ UNCHANGED contents
        BY <1>0, <2>1, <3>1, <3>3, RowMoves
      <4> QED
        BY <4>1 DEF stages
    <3> QED
      BY <1>1, <2>1, <3>2, <3>3 DEF Seen, Quiet
  <2> QED
    BY <1>1, <2>1, <2>2, <2>3
<1>3. CASE Hit
  <2>1. /\ id \in Ids /\ rows[id] \in Row /\ UNCHANGED <<wishers, buttons, asked>>
        /\ \/ rows[id].state = "SEARCHING" /\ Set(id, Enter(id, "FOUND"))
           \/ UNCHANGED rows
    BY <1>0, <1>3 DEF Hit, hist, id
  <2>2. CASE rows[id].state = "SEARCHING" /\ Set(id, Enter(id, "FOUND"))
    <3>1. /\ Enter(id, "FOUND") \in Row /\ Enter(id, "FOUND").content = rows[id].content
          /\ Enter(id, "FOUND").state = "FOUND"
      BY <1>0, <2>1, EnterType DEF Active
    <3>2. stages' = [stages EXCEPT ![id] = "found"] /\ UNCHANGED contents
      BY <1>0, <2>1, <2>2, <3>1, RowMoves, StagesOfStates
    <3>3. stages[id] = "open"
      BY <2>1, <2>2, StagesOfStates DEF stages, Open
    <3>4. Contract!Find(id)
      BY <2>1, <3>2, <3>3 DEF Contract!Find, Contract!Moves, stages, contents
    <3> QED
      BY <2>1, <3>4 DEF Seen, Contract!Next
  <2> QED
    BY <1>1, <2>1, <2>2
<1>4. CASE AlreadySubscribed
  <2>1. /\ id \in Ids /\ WasFound(id) /\ asked' = asked \cup {id}
        /\ MarkFulfilled(id) /\ UNCHANGED <<wishers, buttons>>
    BY <1>0, <1>4 DEF AlreadySubscribed, FoundFirst, id
  <2> QED
    BY <1>0, <2>1, AskSeen
<1>5. ASSUME id \in Ids, Used(id), MarkOrphaned(id), UNCHANGED <<wishers, buttons, asked>> PROVE Seen
  BY <1>0, <1>5, UpdateCloses DEF MarkOrphaned
<1>6. CASE Reach
  <2>1. /\ id \in Ids /\ Used(id) /\ UNCHANGED <<wishers, buttons, asked>>
        /\ MarkOrphaned(id) \/ UNCHANGED rows
    BY <1>0, <1>6 DEF Reach, hist, id
  <2> QED
    BY <1>1, <1>5, <2>1
<1>7. CASE Send
  <2>1. /\ id \in Ids /\ Used(id) /\ sched.cur.user \in Users /\ WasFound(id)
        /\ UNCHANGED <<wishers, asked>>
        /\ \/ buttons' = buttons \cup {<<sched.cur.user, id>>} /\ UNCHANGED rows
           \/ UNCHANGED <<rows, buttons>>
           \/ MarkOrphaned(id) /\ UNCHANGED buttons
    BY <1>0, <1>7 DEF Send, Deliver, FoundFirst, Item, id
  <2>2. CASE buttons' = buttons \cup {<<sched.cur.user, id>>} /\ UNCHANGED rows
    <3>1. stages[id] \in Contract!Past
      BY <1>0, <2>1, StagesOfStates DEF stages, WasFound, Row, TypeOK
    <3>2. UNCHANGED <<stages, contents>>
      BY <2>2, RowsStay
    <3>3. Contract!Tell(sched.cur.user, id)
      BY <2>1, <2>2, <3>1, <3>2 DEF Contract!Tell, stages, contents
    <3> QED
      BY <2>1, <3>3 DEF Seen, Contract!Next
  <2> QED
    BY <1>1, <1>5, <2>1, <2>2
<1>8. CASE MarkNotified
  <2> DEFINE rec == [rows[id] EXCEPT !.state = "NOTIFIED"]
  <2>1. /\ id \in Ids /\ rows[id] \in Row /\ UNCHANGED <<wishers, buttons, asked>>
        /\ \E u \in Users : <<u, id>> \in buttons
        /\ \/ rows[id].state = "FOUND" /\ Set(id, rec)
           \/ UNCHANGED rows
    BY <1>0, <1>8 DEF MarkNotified, Notifiable, Update, SentButton, hist, id
  <2>2. rec \in Row /\ rec.state = "NOTIFIED" /\ rec.content = rows[id].content
    BY <2>1, StateSets DEF Row
  <2> HIDE DEF rec
  <2>3. CASE rows[id].state = "FOUND" /\ Set(id, rec)
    <3>1. stages' = [stages EXCEPT ![id] = "notified"] /\ UNCHANGED contents
      BY <1>0, <2>1, <2>2, <2>3, RowMoves, StagesOfStates
    <3>2. stages[id] = "found"
      BY <2>1, <2>3, StagesOfStates DEF stages
    <3>3. Contract!Notify(id)
      BY <2>1, <3>1, <3>2 DEF Contract!Notify, Contract!Moves, stages, contents
    <3> QED
      BY <2>1, <3>3 DEF Seen, Contract!Next
  <2> QED
    BY <1>1, <2>1, <2>3
<1> QED
  BY <1>1, <1>2, <1>3, <1>4, <1>6, <1>7, <1>8 DEF Researches, Take, NotSubscribed, pool, hist

\* Every step is a step of the contract, or not seen there.
LEMMA StepSeen == ASSUME WishInv, FoundFirst, [Next]_vars PROVE Seen
<1>1. CASE DayPasses \/ UNCHANGED vars
  BY <1>1, RowsStay DEF DayPasses, vars, pool, hist, Seen, Quiet
<1>2. CASE Restart
  <2>1. wishers \in [Contents -> SUBSET Users]
    BY DEF WishInv, TypeOK
  <2>2. UNCHANGED <<stages, contents>>
    BY <1>2, RowsStay DEF Restart
  <2>3. wishers' \in [Contents -> SUBSET Users] /\ \A c \in Contents : wishers[c] \subseteq wishers'[c]
    <3>1. \A c \in Contents, id \in Ids : rows[id].content = c => rows[id].user \in Users
      <4>1. \A id \in Ids : rows[id].content # None => rows[id].user \in Users
        BY DEF WishInv, UsedRows
      <4> QED
        BY <4>1, ConstantsOK DEF ConstantsOK
    <3> QED
      BY <1>2, <2>1, <3>1 DEF Restart, BackfillWishers
  <2>4. Contract!Return
    BY <1>2, <2>2, <2>3 DEF Contract!Return, Restart, hist, stages, contents
  <2> QED
    BY <2>4 DEF Seen, Contract!Next
<1> QED
  BY <1>1, <1>2, UserSeen, TickSeen, ResearchSeen DEF Next

\* What was found stays found, or ends.
LEMMA StaysFound ==
    ASSUME WishInv, WishInv', Seen, NEW id \in Ids, WasFound(id) PROVE WasFound(id)'
<1>1. /\ rows[id].state \in Active \cup Terminal \cup {"none"}
      /\ rows'[id].state \in Active \cup Terminal \cup {"none"}
  BY DEF WishInv, TypeOK, Row
<1>2. stages[id] \in Contract!Past
  BY <1>1, StagesOfStates DEF stages, WasFound
<1>3. stages'[id] \in Contract!Past
  <2>1. CASE UNCHANGED stages
    BY <1>2, <2>1
  <2>2. ASSUME NEW w \in Ids, NEW s \in {"found", "notified", "fulfilled", "closed"},
               stages' = [stages EXCEPT ![w] = s]
        PROVE  stages'[id] \in Contract!Past
    BY <1>2, <2>2 DEF stages, Contract!Past, Contract!Ended
  <2>3. ASSUME NEW w \in Ids, NEW u \in Users, NEW c \in Contents, Contract!Make(w, u, c)
        PROVE  stages'[id] \in Contract!Past
    BY <1>2, <2>3 DEF Contract!Make, Contract!Moves, stages, Contract!Past, Contract!Ended
  <2>4. ASSUME NEW ended \in SUBSET Ids, Contract!Close(ended) PROVE stages'[id] \in Contract!Past
    BY <1>2, <2>4 DEF Contract!Close, stages, Contract!Past, Contract!Ended
  <2>5. CASE Quiet
    BY <2>1, <2>5 DEF Quiet
  <2> QED
    BY <2>1, <2>2, <2>3, <2>4, <2>5
       DEF Seen, Contract!Next, Contract!Join, Contract!Leave, Contract!Tell, Contract!Find,
           Contract!Notify, Contract!Ask, Contract!Return, Contract!Moves, stages
<1> QED
  BY <1>1, <1>3, StagesOfStates DEF stages, WasFound
\* The scheduler goes on to tell, and to ask, from a find only.
LEMMA FoundStep ==
    ASSUME WishInv, WishInv', FoundFirst, [Next]_vars PROVE FoundFirst'
<1>0. /\ TypeOK
      /\ sched.step # "next" => sched.cur \in Item /\ sched.cur.id \in Ids
  BY DEF WishInv, ScheduledUsed, Item
<1>1. ASSUME NEW id \in Ids, rows[id].state \in PastStates PROVE rows'[id].state \in PastStates
  BY <1>1, StepSeen, StaysFound DEF WasFound
<1>2. \A u \in Users, id \in Ids : <<u, id>> \in buttons' => rows'[id].state \in PastStates
  <2>1. CASE UNCHANGED buttons
    BY <1>1, <2>1 DEF FoundFirst, WasFound
  <2>2. CASE Send
    <3>1. sched.cur.id \in Ids /\ rows[sched.cur.id].state \in PastStates
      BY <1>0, <2>2 DEF Send, FoundFirst, WasFound
    <3>2. buttons' \subseteq buttons \cup {<<sched.cur.user, sched.cur.id>>}
      BY <2>2 DEF Send, Deliver
    <3> QED
      BY <1>1, <3>1, <3>2 DEF FoundFirst, WasFound
  <2> QED
    BY <2>1, <2>2
       DEF Next, UserActs, AddWish, JoinWish, NewWish, RevokeWish, Press, Submitted, Ticks,
           ClaimSearchableItems, ListStaleFoundItems, ExpireStaleNotified, ListExpiryCandidates,
           EndRetries, MaybeRunExpirySweep, EndSweep, Researches, Take, Missed, Hit,
           AlreadySubscribed, NotSubscribed, Reach, MarkNotified, DayPasses, Restart, hist, vars
<1>3. sched'.step \in {"subscribed", "send"} => rows'[sched'.cur.id].state \in PastStates
  <2>1. ASSUME sched'.step \notin {"subscribed", "send"}
        PROVE  sched'.step \in {"subscribed", "send"} => rows'[sched'.cur.id].state \in PastStates
    BY <2>1
  <2>2. CASE UNCHANGED sched
    BY <1>0, <1>1, <2>2 DEF FoundFirst, WasFound
  <2>3. CASE Done \/ GoTo("reach") \/ GoTo("sent")
    BY <1>0, <2>1, <2>3 DEF Done, GoTo, TypeOK
  <2>4. CASE Hit /\ GoTo("subscribed")
    <3>1. sched.cur.id \in Ids /\ sched'.cur = sched.cur
      BY <1>0, <2>4 DEF Hit, GoTo, TypeOK
    <3>2. rows' = [rows EXCEPT ![sched.cur.id] = Enter(sched.cur.id, "FOUND")] \/ Done
      BY <2>4 DEF Hit, Set
    <3>3. Enter(sched.cur.id, "FOUND").state = "FOUND"
      BY <1>0, <3>1, EnterType DEF Active
    <3> QED
      BY <1>0, <2>3, <3>1, <3>2, <3>3 DEF PastStates, TypeOK
  <2>5. CASE Reach /\ GoTo("send")
    <3>1. sched.cur.id \in Ids /\ sched'.cur = sched.cur
      BY <1>0, <2>5 DEF Reach, GoTo, TypeOK
    <3>2. rows[sched.cur.id].state = "FOUND" \/ Done
      BY <2>5 DEF Reach
    <3> QED
      BY <1>1, <2>3, <3>1, <3>2 DEF PastStates
  <2>6. CASE Researches
    <3>1. ASSUME NEW item \in sched.work, Take(item) PROVE sched'.step \notin {"subscribed", "send"}
      BY <1>0, <3>1 DEF Take, TypeOK
    <3>2. CASE NotSubscribed
      BY <1>0, <2>1, <3>2 DEF NotSubscribed, TypeOK
    <3> QED
      BY <2>1, <2>3, <2>4, <2>5, <2>6, <3>1, <3>2
         DEF Researches, Missed, Hit, AlreadySubscribed, Reach, Send, TryLater, MarkNotified
  <2>7. CASE Ticks \/ Restart
    <3>1. ASSUME NEW ids \in SUBSET Ids, NEW phase \in {"rescan", "retry", "sweep"},
                 Begin(phase, ids)
          PROVE  sched'.step \notin {"subscribed", "send"}
      BY <3>1 DEF Begin
    <3>2. ASSUME \/ sched' = Idle \/ sched' = Starting
                 \/ \E phase \in {"expiring", "listing"} : sched' = [Idle EXCEPT !.phase = phase]
          PROVE  sched'.step \notin {"subscribed", "send"}
      BY <3>2 DEF Idle, Starting
    <3> QED
      BY <2>1, <2>7, <3>1, <3>2
         DEF Ticks, Restart, ClaimSearchableItems, ListStaleFoundItems, ExpireStaleNotified,
             ListExpiryCandidates, EndRetries, MaybeRunExpirySweep, EndSweep
  <2> QED
    BY <2>2, <2>6, <2>7
       DEF Next, UserActs, AddWish, JoinWish, NewWish, RevokeWish, Press, Submitted, DayPasses, vars
<1> QED
  BY <1>2, <1>3 DEF FoundFirst, WasFound

\* An empty pool is what the contract starts with.
LEMMA StartsEmpty == Init => Contract!Init /\ FoundFirst
  BY DEF Init, NoRow, Starting, Idle, StageOf, Open, Contract!Init, FoundFirst

\* The pool behaves as WishContract says, in whatever order the scheduler,
\* users and restarts take their steps, and whatever fails.
THEOREM WishesAsPromised == Spec => ImplementsWishContract
<1>1. WishInv /\ WishInv' /\ FoundFirst /\ [Next]_vars => FoundFirst'
  BY FoundStep
<1>2. WishInv /\ FoundFirst /\ [Next]_vars => [Contract!Next]_(Contract!vars)
  BY StepSeen DEF Seen, Quiet, stages, contents, Contract!vars
<1> QED
  BY <1>1, <1>2, StartsEmpty, InvariantHolds, PTL DEF Spec, ImplementsWishContract, Contract!Spec
=================================================================================
