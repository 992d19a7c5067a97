--------------------------- MODULE UpdateIntakeProofs ---------------------------
(***************************************************************************)
(* Proofs about UpdateIntake, for any number of updates, users and         *)
(* restarts, and any limits.                                               *)
(***************************************************************************)
EXTENDS UpdateIntake, FiniteSetTheorems, TLAPS

-----------------------------------------------------------------------------
(***************************************************************************)
(* The inductive invariant.                                                *)
(***************************************************************************)
Settled(u) == done[u] > 0 \/ u \in dropped \cup interrupted
Known(u)   == stage[u] # "none" \/ Settled(u)

\* The slots taken are those of the handlers that run.
Busy == {u \in Updates : stage[u] \in {"running", "acted"}}

SlotsCounted == slots = Cardinality(Busy)

\* An update that was not sent, or will be accepted as new, is not in hand.
FreshIdle ==
    \A u \in Updates :
        /\ u > sent => done[u] = 0 /\ stage[u] = "none"
        /\ u \in held \ seen => stage[u] = "none"

\* A handler that has acted counts as one.
ActedCounted == \A u \in Updates : stage[u] = "acted" => done[u] > 0

\* What is remembered is in hand, or settled.
RememberedKnown == \A u \in seen \cup file : u <= sent /\ Known(u)

\* No update is acted upon twice before the program ends.
OncePerRun ==
    \A u \in Updates :
        /\ done[u] <= restarts + 1
        /\ stage[u] \in {"queued", "running"} => done[u] <= restarts
        /\ u \in held \ seen => done[u] <= restarts

\* Nor afterwards, unless its id was forgotten.
OnceUnlessForgotten ==
    \A u \in Updates \ forgotten :
        /\ done[u] <= 1
        /\ stage[u] \in {"queued", "running"} => done[u] = 0
        /\ u \in held \ seen => done[u] = 0

\* The offset has passed what is settled only, and of the batch in hand
\* everything is still to be dispatched, in hand, or settled.
OffsetBehind ==
    /\ mode = "webhook" => poller = Asleep
    /\ poller.batch \subseteq held
    /\ Sleeping => poller.batch = {}
    /\ poller.top <= sent
    /\ poller.offset <= sent + 1
    /\ \A u \in 1..sent :
         /\ u < poller.offset => Settled(u)
         /\ u <= poller.top => u \in poller.batch \/ Known(u)

\* Polled updates enter no window.
PolledUncounted == mode = "poll" => \A x \in Users : windows[x].inFlight = 0

IntakeInv ==
    /\ TypeOK
    /\ SlotsCounted /\ FreshIdle /\ ActedCounted /\ RememberedKnown
    /\ OncePerRun /\ OnceUnlessForgotten
    /\ OffsetBehind /\ LostOnlyByCrash
    /\ PolledUncounted /\ NobodyLockedOut

-----------------------------------------------------------------------------
(***************************************************************************)
(* Counting handlers.                                                      *)
(***************************************************************************)
\* Any set of updates is finite.
LEMMA UpdatesFinite ==
    ASSUME NEW S, S \subseteq Updates
    PROVE  IsFiniteSet(S) /\ Cardinality(S) \in Nat
<1>1. IsFiniteSet(Updates)
  BY ConstantsOK, FS_Interval DEF Updates
<1> QED
  BY <1>1, FS_Subset, FS_CardinalityType

\* A set of updates that loses one of its members.
LEMMA OneLess ==
    ASSUME NEW S, S \subseteq Updates, NEW u \in S
    PROVE  Cardinality(S \ {u}) = Cardinality(S) - 1 /\ Cardinality(S) > 0
<1>1. IsFiniteSet(S) /\ Cardinality(S) \in Nat /\ Cardinality(S \ {u}) \in Nat
  BY UpdatesFinite
<1>2. Cardinality(S \ {u}) = Cardinality(S) - 1
  BY <1>1, FS_RemoveElement
<1> QED
  BY <1>1, <1>2

\* A set of updates that gains one.
LEMMA OneMore ==
    ASSUME NEW S, S \subseteq Updates, NEW u \in Updates \ S
    PROVE  Cardinality(S \cup {u}) = Cardinality(S) + 1
  BY UpdatesFinite, FS_AddElement

\* Updates before one of the page are of the page.
LEMMA PageClosed ==
    ASSUME NEW ids, ids \subseteq Updates, NEW u \in ids, NEW v \in Page(ids), u <= v
    PROVE  u \in Page(ids)
<1> DEFINE Below(w) == {y \in ids : y < w}
<1>1. u \in Nat /\ v \in Nat /\ ids \subseteq Nat
  BY ConstantsOK DEF Updates, Page
<1>2. Below(u) \subseteq Below(v)
  <2> SUFFICES ASSUME NEW y \in ids, y < u PROVE y < v
    OBVIOUS
  <2> QED
    BY <1>1
<1>3. IsFiniteSet(Below(v)) /\ Cardinality(Below(v)) \in Nat /\ Cardinality(Below(u)) \in Nat
  BY <1>2, UpdatesFinite
<1>4. Cardinality(Below(u)) <= Cardinality(Below(v))
  BY <1>2, <1>3, FS_Subset
<1>5. Cardinality(Below(v)) < BatchSize
  BY DEF Page
<1> QED
  BY <1>3, <1>4, <1>5, ConstantsOK DEF Page

-----------------------------------------------------------------------------
(***************************************************************************)
(* The first state, and steps that leave everything as it is.              *)
(***************************************************************************)
LEMMA InitInv == Init => IntakeInv
<1> SUFFICES ASSUME Init PROVE IntakeInv
  OBVIOUS
<1>1. Busy = {} /\ Cardinality(Busy) = 0
  BY FS_EmptySet DEF Init, Busy
<1>2. TypeOK
  <2>1. poller \in [offset : 0..(MaxUpdates + 1), batch : SUBSET Updates, top : 0..MaxUpdates]
    BY ConstantsOK DEF Init, Asleep
  <2>2. windows \in [Users -> [count : 0..MaxPerWindow, inFlight : 0..OccupancyLimit,
                               over : BOOLEAN]]
    BY ConstantsOK DEF Init, NoWindow
  <2>3. done \in [Updates -> 0..(MaxRestarts + 1)] /\ stage \in [Updates -> Stages]
    BY ConstantsOK DEF Init, Stages
  <2>4. sent \in 0..MaxUpdates /\ slots \in 0..maxUpdateWorkers /\ restarts \in 0..MaxRestarts
    BY ConstantsOK DEF Init
  <2>5. held \subseteq 1..sent /\ seen \subseteq Updates /\ file \subseteq Updates
    BY DEF Init
  <2> QED
    BY <2>1, <2>2, <2>3, <2>4, <2>5 DEF Init, TypeOK
<1>3. SlotsCounted
  BY <1>1 DEF Init, SlotsCounted
<1>4. FreshIdle /\ ActedCounted /\ RememberedKnown /\ OncePerRun /\ OnceUnlessForgotten
  BY ConstantsOK DEF Init, FreshIdle, ActedCounted, RememberedKnown, OncePerRun,
     OnceUnlessForgotten
<1>5. OffsetBehind /\ LostOnlyByCrash
  BY DEF Init, OffsetBehind, LostOnlyByCrash, Asleep, Sleeping
<1>6. \A x \in Users : Occupying(x) = {} /\ windows[x].inFlight = 0
  BY DEF Init, Occupying, NoWindow
<1>7. \A x \in Users : Cardinality(Occupying(x)) = 0
  BY <1>6, FS_EmptySet, Zenon
<1>8. PolledUncounted /\ NobodyLockedOut
  BY <1>6, <1>7 DEF PolledUncounted, NobodyLockedOut
<1> QED
  BY <1>2, <1>3, <1>4, <1>5, <1>8 DEF IntakeInv

LEMMA StutterInv == IntakeInv /\ UNCHANGED vars => IntakeInv'
  BY DEF IntakeInv, TypeOK, SlotsCounted, Busy, FreshIdle, ActedCounted, RememberedKnown,
     Known, Settled, OncePerRun, OnceUnlessForgotten, OffsetBehind, Sleeping,
     LostOnlyByCrash, PolledUncounted, NobodyLockedOut, Occupying, vars

-----------------------------------------------------------------------------
(***************************************************************************)
(* Type correctness.                                                       *)
(***************************************************************************)
\* A user's window stays within the limits when an update enters or leaves it.
LEMMA WindowType ==
    ASSUME TypeOK, NEW x \in Users
    PROVE  LET W == [count : 0..MaxPerWindow, inFlight : 0..OccupancyLimit, over : BOOLEAN]
           IN  /\ Window(x) \in W
               /\ Lowered(windows[x]) \in W
               /\ Allowed(x) => Enter(Window(x)) \in W
<1> DEFINE W == [count : 0..MaxPerWindow, inFlight : 0..OccupancyLimit, over : BOOLEAN]
<1>1. windows[x] \in W
  BY DEF TypeOK
<1>2. Window(x) \in W
  BY <1>1, ConstantsOK DEF Window
<1>3. Lowered(windows[x]) \in W
  BY <1>1, ConstantsOK DEF Lowered
<1>4. ASSUME Allowed(x) PROVE Enter(Window(x)) \in W
  <2> DEFINE w == Window(x)
  <2>1. w \in W
    BY <1>2
  <2>2. w.count < MaxPerWindow /\ w.inFlight < OccupancyLimit
    BY <1>4 DEF Allowed
  <2> HIDE DEF w
  <2>3. w.count + 1 \in 0..MaxPerWindow /\ w.inFlight + 1 \in 0..OccupancyLimit
    BY <2>1, <2>2, ConstantsOK
  <2>4. Enter(w) \in W
    BY <2>1, <2>3 DEF Enter
  <2> QED
    BY <2>4 DEF w
<1> QED
  BY <1>2, <1>3, <1>4

\* The handler of an update that runs holds a slot.
LEMMA BusySlot ==
    ASSUME TypeOK, SlotsCounted, NEW u \in Busy
    PROVE  slots - 1 \in 0..maxUpdateWorkers
<1>1. Busy \subseteq Updates
  BY DEF Busy
<1>2. slots > 0
  BY <1>1, OneLess DEF SlotsCounted
<1> QED
  BY <1>2, ConstantsOK DEF TypeOK

\* A handler that returns or panics leaves the windows well-formed.
LEMMA ReleaseType ==
    ASSUME TypeOK, NEW u \in Updates, ReleaseWebhookUpdate(u)
    PROVE  windows' \in [Users -> [count : 0..MaxPerWindow, inFlight : 0..OccupancyLimit,
                                   over : BOOLEAN]]
<1>1. CASE UserOf[u] \in Users
  BY <1>1, WindowType DEF ReleaseWebhookUpdate, TypeOK
<1>2. CASE UserOf[u] = NoUser
  BY <1>2 DEF ReleaseWebhookUpdate, TypeOK
<1> QED
  BY <1>1, <1>2, ConstantsOK

LEMMA TypeStep == IntakeInv /\ Next => TypeOK'
<1> SUFFICES ASSUME IntakeInv, Next PROVE TypeOK'
  OBVIOUS
<1>0. TypeOK /\ SlotsCounted /\ OncePerRun /\ OffsetBehind
  BY DEF IntakeInv
<1> USE <1>0 DEF memory, history
<1>1. CASE UserSends
  BY SMTT(30), <1>1, ConstantsOK DEF UserSends, TypeOK, Updates
<1>2. CASE GetUpdates
  <2>1. held' \subseteq held
    BY <1>2 DEF GetUpdates
  <2>2. poller' \in [offset : 0..(MaxUpdates + 1), batch : SUBSET Updates, top : 0..MaxUpdates]
    <3> DEFINE page == Page({u \in held : u >= poller.offset})
    <3>1. page \subseteq Updates /\ Updates \subseteq 0..MaxUpdates
      <4>1. held \subseteq Updates /\ Updates \subseteq 0..MaxUpdates
        BY ConstantsOK DEF TypeOK, Updates
      <4> QED
        BY <4>1 DEF Page
    <3>2. CASE \E top \in page : poller' = [poller EXCEPT !.batch = page, !.top = top]
      BY <3>1, <3>2 DEF TypeOK
    <3>3. CASE UNCHANGED poller
      BY <3>3 DEF TypeOK
    <3> QED
      BY <1>2, <3>2, <3>3 DEF GetUpdates
  <2> QED
    BY <1>2, <2>1, <2>2 DEF GetUpdates, TypeOK
<1>3. ASSUME NEW u \in Updates, Dispatch(u) PROVE TypeOK'
  <2>1. poller' \in [offset : 0..(MaxUpdates + 1), batch : SUBSET Updates, top : 0..MaxUpdates]
    BY <1>3 DEF Dispatch, TypeOK
  <2>2. seen' \subseteq Updates /\ file' \subseteq Updates /\ saved' \in BOOLEAN
    BY <1>3 DEF Dispatch, Accept, SaveLocked, TypeOK
  <2>3. stage' \in [Updates -> Stages]
    BY <1>3 DEF Dispatch, TypeOK, Stages
  <2> QED
    BY <1>3, <2>1, <2>2, <2>3 DEF Dispatch, TypeOK
<1>4. CASE AdvanceOffset
  BY <1>4, ConstantsOK DEF AdvanceOffset, TypeOK
<1>5. ASSUME NEW u \in Updates, Deliver(u) PROVE TypeOK'
  <2>1. windows' \in [Users -> [count : 0..MaxPerWindow, inFlight : 0..OccupancyLimit,
                                over : BOOLEAN]]
    <3>1. CASE UserOf[u] \in Users
      BY <1>5, <3>1, WindowType, ConstantsOK DEF Deliver, AllowWebhookUpdate, Refused, TypeOK
    <3>2. CASE UserOf[u] = NoUser
      BY <1>5, <3>2, ConstantsOK DEF Deliver, AllowWebhookUpdate, Allowed, TypeOK
    <3> QED
      BY <3>1, <3>2, ConstantsOK
  <2>2. seen' \subseteq Updates /\ file' \subseteq Updates /\ saved' \in BOOLEAN
    BY <1>5 DEF Deliver, Accept, SaveLocked, TypeOK
  <2>3. stage' \in [Updates -> Stages] /\ held' \subseteq 1..sent /\ dropped' \subseteq Updates
    BY <1>5 DEF Deliver, AllowWebhookUpdate, Answered, TypeOK, Stages
  <2> QED
    BY <1>5, <2>1, <2>2, <2>3 DEF Deliver, TypeOK
<1>6. ASSUME NEW u \in Updates, DeliverAgain(u) PROVE TypeOK'
  BY <1>6 DEF DeliverAgain, Answered, TypeOK
<1>7. ASSUME NEW u \in Updates, Start(u) PROVE TypeOK'
  BY <1>7, ConstantsOK DEF Start, TypeOK, Stages
<1>8. ASSUME NEW u \in Updates, Act(u) PROVE TypeOK'
  <2>1. done[u] + 1 \in 0..(MaxRestarts + 1)
    BY <1>8, ConstantsOK DEF Act, OncePerRun, TypeOK
  <2> QED
    BY <1>8, <2>1 DEF Act, TypeOK, Stages
<1>9. ASSUME NEW u \in Updates, Return(u) PROVE TypeOK'
  <2>1. slots - 1 \in 0..maxUpdateWorkers
    BY <1>9, BusySlot DEF Return, Busy
  <2> QED
    BY <1>9, <2>1, ReleaseType DEF Return, Answered, TypeOK, Stages
<1>10. ASSUME NEW u \in Updates, Panic(u) PROVE TypeOK'
  <2>1. slots - 1 \in 0..maxUpdateWorkers
    BY <1>10, BusySlot DEF Panic, Busy
  <2> QED
    BY <1>10, <2>1, ReleaseType DEF Panic, LeftByPanic, TypeOK, Stages
<1>11. CASE HalfMinutePasses
  BY <1>11 DEF HalfMinutePasses, TypeOK
<1>12. ASSUME NEW old \in SUBSET seen, Prune(old) PROVE TypeOK'
  BY <1>12 DEF Prune, SaveLocked, TypeOK
<1>13. ASSUME NEW x \in Users, MinutePasses(x) PROVE TypeOK'
  BY <1>13 DEF MinutePasses, TypeOK
<1>14. CASE Restart
  <2>1. poller' \in [offset : 0..(MaxUpdates + 1), batch : SUBSET Updates, top : 0..MaxUpdates]
    BY <1>14, ConstantsOK DEF Restart, Asleep
  <2>2. windows' \in [Users -> [count : 0..MaxPerWindow, inFlight : 0..OccupancyLimit,
                                over : BOOLEAN]]
    BY <1>14, ConstantsOK DEF Restart, NoWindow
  <2>3. stage' \in [Updates -> Stages] /\ interrupted' \subseteq Updates
    BY <1>14 DEF Restart, InStage, Stages, TypeOK
  <2>4. slots' \in 0..maxUpdateWorkers /\ restarts' \in 0..MaxRestarts
    BY <1>14, ConstantsOK DEF Restart, TypeOK
  <2>5. seen' \subseteq Updates /\ forgotten' \subseteq Updates /\ saved' \in BOOLEAN
    BY <1>14 DEF Restart, TypeOK
  <2> QED
    BY <1>14, <2>1, <2>2, <2>3, <2>4, <2>5 DEF Restart, TypeOK
<1> QED
  BY <1>1, <1>2, <1>3, <1>4, <1>5, <1>6, <1>7, <1>8, <1>9, <1>10, <1>11, <1>12, <1>13, <1>14
     DEF Next, Polling, Handle

-----------------------------------------------------------------------------
(***************************************************************************)
(* Slots and windows.                                                      *)
(***************************************************************************)
LEMMA SlotsStep == IntakeInv /\ Next => SlotsCounted'
<1> SUFFICES ASSUME IntakeInv, Next PROVE SlotsCounted'
  OBVIOUS
<1>0. TypeOK /\ SlotsCounted /\ FreshIdle /\ OffsetBehind /\ Busy \subseteq Updates
  BY DEF IntakeInv, Busy
<1>1. ASSUME UNCHANGED slots, \A u \in Updates : u \in Busy' <=> u \in Busy
      PROVE  SlotsCounted'
  <2>1. Busy' = Busy
    BY <1>1 DEF Busy
  <2> QED
    BY <1>0, <1>1, <2>1 DEF SlotsCounted
<1>2. CASE UNCHANGED <<stage, slots>>
  BY <1>1, <1>2 DEF Busy
<1>3. ASSUME NEW u \in Updates, Dispatch(u) \/ Deliver(u) PROVE SlotsCounted'
  <2>1. stage' = stage \/ (stage[u] = "none" /\ stage' = [stage EXCEPT ![u] = "queued"])
    BY <1>0, <1>3 DEF Dispatch, Deliver, AllowWebhookUpdate, FreshIdle, OffsetBehind
  <2>2. UNCHANGED slots
    BY <1>3 DEF Dispatch, Deliver
  <2> QED
    BY <1>0, <1>1, <2>1, <2>2 DEF Busy, TypeOK
<1>4. ASSUME NEW u \in Updates, Start(u) PROVE SlotsCounted'
  <2>1. u \notin Busy /\ Busy' = Busy \cup {u}
    BY <1>0, <1>4 DEF Start, Busy, TypeOK
  <2> QED
    BY <1>0, <1>4, <2>1, OneMore DEF Start, SlotsCounted
<1>5. ASSUME NEW u \in Updates, Act(u) PROVE SlotsCounted'
  BY <1>0, <1>1, <1>5 DEF Act, Busy, TypeOK
<1>6. ASSUME NEW u \in Updates, Return(u) \/ Panic(u) PROVE SlotsCounted'
  <2>1. u \in Busy /\ Busy' = Busy \ {u}
    BY <1>0, <1>6 DEF Return, Panic, Busy, TypeOK
  <2> QED
    BY <1>0, <1>6, <2>1, OneLess DEF Return, Panic, LeftByPanic, SlotsCounted
<1>7. CASE Restart
  <2>1. Busy' = {}
    BY <1>7 DEF Restart, Busy
  <2> QED
    BY <1>7, <2>1, FS_EmptySet DEF Restart, SlotsCounted
<1> QED
  BY <1>2, <1>3, <1>4, <1>5, <1>6, <1>7
     DEF Next, Polling, Handle, UserSends, GetUpdates, AdvanceOffset, DeliverAgain,
         HalfMinutePasses, Prune, MinutePasses

LEMMA WindowsStep == IntakeInv /\ Next => (PolledUncounted /\ NobodyLockedOut)'
<1> SUFFICES ASSUME IntakeInv, Next PROVE (PolledUncounted /\ NobodyLockedOut)'
  OBVIOUS
<1>0. /\ TypeOK /\ FreshIdle /\ OffsetBehind /\ PolledUncounted /\ NobodyLockedOut
      /\ \A x \in Users : Occupying(x) \subseteq Updates
      /\ mode' = mode
  BY DEF IntakeInv, Occupying, Next, UserSends, Polling, GetUpdates, Dispatch, AdvanceOffset,
     Deliver, DeliverAgain, Handle, Start, Act, Return, Panic, HalfMinutePasses, Prune,
     MinutePasses, Restart
<1>1. \A x \in Users : /\ Cardinality(Occupying(x)) \in Nat
                         /\ Cardinality(Occupying(x)') \in Nat
                         /\ windows[x].inFlight \in Nat /\ windows'[x].inFlight \in Nat
  <2>1. TypeOK' /\ \A x \in Users : Occupying(x)' \subseteq Updates
    BY TypeStep DEF Occupying
  <2> QED
    BY <1>0, <2>1, UpdatesFinite, ConstantsOK DEF TypeOK
\* A user whose updates in hand stay the same, and whose window does not grow.
<1>2. ASSUME NEW x \in Users, windows'[x].inFlight <= windows[x].inFlight,
             \A u \in Updates : UserOf[u] = x => (stage'[u] = "none" <=> stage[u] = "none")
      PROVE  windows'[x].inFlight <= Cardinality(Occupying(x)')
  <2>1. Occupying(x)' = Occupying(x)
    BY <1>2 DEF Occupying
  <2> QED
    BY <1>0, <1>1, <1>2, <2>1 DEF NobodyLockedOut
<1>3. CASE /\ UNCHANGED windows
           /\ \A u \in Updates : stage'[u] = "none" <=> stage[u] = "none"
  BY <1>0, <1>1, <1>2, <1>3 DEF PolledUncounted, NobodyLockedOut
<1>4. CASE mode = "poll" /\ UNCHANGED windows
  BY <1>0, <1>1, <1>4 DEF PolledUncounted, NobodyLockedOut
<1>5. ASSUME NEW u \in Updates, Dispatch(u) PROVE (PolledUncounted /\ NobodyLockedOut)'
  BY <1>4, <1>5 DEF Dispatch
<1>6. ASSUME NEW u \in Updates, Deliver(u) PROVE (PolledUncounted /\ NobodyLockedOut)'
  <2>1. mode = "webhook" /\ stage[u] = "none"
    BY <1>0, <1>6 DEF Deliver, FreshIdle
  <2>2. ASSUME NEW x \in Users PROVE windows'[x].inFlight <= Cardinality(Occupying(x)')
    <3>1. CASE x # UserOf[u]
      BY <1>0, <1>1, <1>2, <1>6, <3>1, ConstantsOK
         DEF Deliver, AllowWebhookUpdate, Refused, TypeOK
    <3>2. CASE x = UserOf[u] /\ ~Allowed(x)
      <4>1. UNCHANGED stage /\ windows'[x] = Window(x)
        BY <1>0, <1>6, <3>2 DEF Deliver, AllowWebhookUpdate, Refused, TypeOK
      <4>2. windows'[x].inFlight <= windows[x].inFlight
        BY <1>1, <4>1 DEF Window
      <4> QED
        BY <1>2, <4>1, <4>2
    <3>3. CASE x = UserOf[u] /\ Allowed(x)
      <4>1. windows'[x] = Enter(Window(x)) /\ stage' = [stage EXCEPT ![u] = "queued"]
        BY <1>0, <1>6, <3>3, ConstantsOK DEF Deliver, AllowWebhookUpdate, TypeOK
      <4>2. windows'[x].inFlight <= windows[x].inFlight + 1
        BY <1>1, <4>1 DEF Window, Enter
      <4>3. u \notin Occupying(x) /\ Occupying(x)' = Occupying(x) \cup {u}
        BY <1>0, <2>1, <3>3, <4>1 DEF Occupying, TypeOK
      <4>4. Cardinality(Occupying(x)') = Cardinality(Occupying(x)) + 1
        BY <1>0, <4>3, OneMore
      <4> QED
        BY <1>0, <1>1, <4>2, <4>4 DEF NobodyLockedOut
    <3> QED
      BY <3>1, <3>2, <3>3
  <2> QED
    BY <1>0, <2>1, <2>2 DEF PolledUncounted, NobodyLockedOut
<1>7. ASSUME NEW u \in Updates, Return(u) \/ Panic(u)
      PROVE  (PolledUncounted /\ NobodyLockedOut)'
  <2>0. /\ ReleaseWebhookUpdate(u) /\ stage[u] \in {"acted", "running"}
        /\ stage' = [stage EXCEPT ![u] = "none"]
    BY <1>7 DEF Return, Panic
  <2>1. CASE mode = "poll"
    BY <1>4, <2>0, <2>1 DEF ReleaseWebhookUpdate
  <2>2. ASSUME mode # "poll", NEW x \in Users
        PROVE  windows'[x].inFlight <= Cardinality(Occupying(x)')
    <3>1. CASE x # UserOf[u]
      BY <1>0, <1>1, <1>2, <2>0, <3>1, ConstantsOK DEF ReleaseWebhookUpdate, TypeOK
    <3>2. CASE x = UserOf[u]
      <4>1. windows'[x] = Lowered(windows[x])
        BY <1>0, <2>0, <2>2, <3>2, ConstantsOK DEF ReleaseWebhookUpdate, TypeOK
      <4>2. \/ windows'[x].inFlight = windows[x].inFlight - 1
            \/ windows'[x].inFlight = 0
        BY <1>0, <1>1, <4>1 DEF Lowered, TypeOK
      <4>3. u \in Occupying(x) /\ Occupying(x)' = Occupying(x) \ {u}
        BY <1>0, <2>0, <3>2 DEF Occupying, TypeOK
      <4>4. Cardinality(Occupying(x)') = Cardinality(Occupying(x)) - 1
        BY <1>0, <4>3, OneLess
      <4> QED
        BY <1>0, <1>1, <4>2, <4>4 DEF NobodyLockedOut
    <3> QED
      BY <3>1, <3>2
  <2> QED
    BY <1>0, <2>1, <2>2 DEF PolledUncounted, NobodyLockedOut
<1>8. ASSUME NEW x \in Users, MinutePasses(x) PROVE (PolledUncounted /\ NobodyLockedOut)'
  <2>1. UNCHANGED stage /\ \A y \in Users : windows'[y].inFlight = windows[y].inFlight
    BY <1>0, <1>8 DEF MinutePasses, TypeOK
  <2> QED
    BY <1>0, <1>1, <1>2, <2>1 DEF PolledUncounted, NobodyLockedOut
<1>9. CASE Restart
  <2>1. \A x \in Users : windows'[x].inFlight = 0
    BY <1>9 DEF Restart, NoWindow
  <2> QED
    BY <1>1, <2>1 DEF PolledUncounted, NobodyLockedOut
<1>10. ASSUME NEW u \in Updates, Start(u) \/ Act(u)
       PROVE  (PolledUncounted /\ NobodyLockedOut)'
  <2>1. \A v \in Updates : stage'[v] = "none" <=> stage[v] = "none"
    BY <1>0, <1>10 DEF Start, Act, TypeOK
  <2> QED
    BY <1>3, <1>10, <2>1 DEF Start, Act
<1> QED
  BY <1>3, <1>5, <1>6, <1>7, <1>8, <1>9, <1>10
     DEF Next, Polling, Handle, UserSends, GetUpdates, AdvanceOffset, DeliverAgain,
         HalfMinutePasses, Prune

-----------------------------------------------------------------------------
(***************************************************************************)
(* What is in hand, and how often an update is acted upon.                 *)
(***************************************************************************)
\* What a step does to one update, whichever step it is.
LEMMA StageStep ==
    ASSUME IntakeInv, Next, NEW u \in Updates
    PROVE  \/ stage'[u] = stage[u] /\ done'[u] = done[u]
           \/ /\ u \in held \ seen /\ stage[u] = "none" /\ stage'[u] = "queued"
              /\ done'[u] = done[u] /\ u \in seen'
           \/ stage[u] = "queued" /\ stage'[u] = "running" /\ done'[u] = done[u]
           \/ stage[u] = "running" /\ stage'[u] = "acted" /\ done'[u] = done[u] + 1
           \/ stage[u] = "acted" /\ stage'[u] = "none" /\ done'[u] = done[u]
           \/ stage[u] = "running" /\ stage'[u] = "none" /\ done'[u] = done[u] /\ u \in dropped'
           \/ Restart /\ stage'[u] = "none" /\ done'[u] = done[u]
<1>0. TypeOK /\ FreshIdle /\ OffsetBehind
  BY DEF IntakeInv
<1> USE DEF memory, history
<1>1. ASSUME NEW v \in Updates, Dispatch(v)
      PROVE  \/ stage'[u] = stage[u] /\ done'[u] = done[u]
             \/ /\ u \in held \ seen /\ stage[u] = "none" /\ stage'[u] = "queued"
                /\ done'[u] = done[u] /\ u \in seen'
  BY <1>0, <1>1 DEF Dispatch, Accept, TypeOK, FreshIdle, OffsetBehind
<1>2. ASSUME NEW v \in Updates, Deliver(v)
      PROVE  \/ stage'[u] = stage[u] /\ done'[u] = done[u]
             \/ /\ u \in held \ seen /\ stage[u] = "none" /\ stage'[u] = "queued"
                /\ done'[u] = done[u] /\ u \in seen'
  BY <1>0, <1>2 DEF Deliver, Accept, AllowWebhookUpdate, TypeOK, FreshIdle
<1>3. ASSUME NEW v \in Updates, Handle(v)
      PROVE  \/ stage'[u] = stage[u] /\ done'[u] = done[u]
             \/ stage[u] = "queued" /\ stage'[u] = "running" /\ done'[u] = done[u]
             \/ stage[u] = "running" /\ stage'[u] = "acted" /\ done'[u] = done[u] + 1
             \/ stage[u] = "acted" /\ stage'[u] = "none" /\ done'[u] = done[u]
             \/ stage[u] = "running" /\ stage'[u] = "none" /\ done'[u] = done[u] /\ u \in dropped'
  BY <1>0, <1>3 DEF Handle, Start, Act, Return, Panic, TypeOK
<1>4. CASE Restart
  BY <1>4 DEF Restart
<1> QED
  BY <1>1, <1>2, <1>3, <1>4 DEF Next, Polling, UserSends, GetUpdates, AdvanceOffset,
     DeliverAgain, HalfMinutePasses, Prune, MinutePasses

\* What Telegram holds and the program does not know: nothing new but what is
\* sent, or what a restart forgets.
LEMMA FreshStep ==
    ASSUME IntakeInv, Next
    PROVE  /\ \A u \in (held \ seen)' : u \in held \ seen \/ u = sent + 1 \/ Restart
           /\ sent <= sent' /\ sent' \in Nat /\ sent \in Nat
           /\ \A u \in held' : u <= sent'
           /\ sent' = sent \/ UNCHANGED <<stage, done>>
<1>0. TypeOK
  BY DEF IntakeInv
<1>1. sent \in Nat /\ held \subseteq 1..sent
  BY <1>0, ConstantsOK DEF TypeOK
<1>2. CASE UserSends
  BY <1>1, <1>2 DEF UserSends, memory, history
<1>3. CASE UNCHANGED sent /\ held' \subseteq held /\ seen \subseteq seen'
  BY <1>1, <1>3
<1>4. ASSUME NEW old \in SUBSET seen, Prune(old)
      PROVE  UNCHANGED sent /\ UNCHANGED held /\ \A u \in held \ seen' : u \notin seen
  BY <1>4 DEF Prune, Outdated
<1>5. CASE Restart
  BY <1>1, <1>5 DEF Restart
<1>6. CASE GetUpdates
  BY <1>3, <1>6 DEF GetUpdates, memory
<1>7. ASSUME NEW u \in Updates, Deliver(u) \/ DeliverAgain(u) \/ Return(u)
      PROVE  UNCHANGED sent /\ held' \subseteq held /\ seen \subseteq seen'
  BY <1>7 DEF Deliver, DeliverAgain, Return, Answered, AllowWebhookUpdate, Accept, memory
<1>8. ASSUME NEW u \in Updates, Dispatch(u)
      PROVE  UNCHANGED sent /\ held' \subseteq held /\ seen \subseteq seen'
  BY <1>8 DEF Dispatch, Accept, memory
<1> QED
  BY <1>1, <1>2, <1>3, <1>4, <1>5, <1>6, <1>7, <1>8
     DEF Next, Polling, Handle, AdvanceOffset, Start, Act, Panic, HalfMinutePasses,
         MinutePasses, memory

LEMMA HandStep == IntakeInv /\ Next => (FreshIdle /\ ActedCounted)'
<1> SUFFICES ASSUME IntakeInv, Next, NEW u \in Updates
             PROVE  /\ u > sent' => done'[u] = 0 /\ stage'[u] = "none"
                    /\ u \in (held \ seen)' => stage'[u] = "none"
                    /\ stage'[u] = "acted" => done'[u] > 0
  BY DEF FreshIdle, ActedCounted
<1>1. TypeOK /\ FreshIdle /\ ActedCounted
  BY DEF IntakeInv
<1>2. u \in Nat /\ done[u] \in Nat /\ held \subseteq 1..sent
  BY <1>1, ConstantsOK DEF TypeOK, Updates
<1>3. ASSUME u > sent' PROVE done'[u] = 0 /\ stage'[u] = "none"
  <2>1. u > sent /\ u \notin held
    BY <1>2, <1>3, FreshStep
  <2>2. done[u] = 0 /\ stage[u] = "none"
    BY <1>1, <2>1 DEF FreshIdle
  <2> QED
    BY <2>1, <2>2, StageStep
<1>4. ASSUME u \in (held \ seen)' PROVE stage'[u] = "none"
  <2>1. (u \in held \ seen \/ u > sent) \/ Restart
    BY <1>2, <1>4, FreshStep
  <2>2. stage[u] = "none" \/ Restart
    BY <1>1, <2>1 DEF FreshIdle
  <2>3. CASE Restart
    BY <2>3 DEF Restart
  <2> QED
    BY <1>4, <2>2, <2>3, StageStep
<1>5. ASSUME stage'[u] = "acted" PROVE done'[u] > 0
  BY <1>1, <1>2, <1>5, StageStep DEF ActedCounted
<1> QED
  BY <1>3, <1>4, <1>5

LEMMA OnceStep == IntakeInv /\ Next => (OncePerRun /\ OnceUnlessForgotten)'
<1> SUFFICES ASSUME IntakeInv, Next, NEW u \in Updates
             PROVE  /\ /\ done'[u] <= restarts' + 1
                       /\ stage'[u] \in {"queued", "running"} => done'[u] <= restarts'
                       /\ u \in (held \ seen)' => done'[u] <= restarts'
                    /\ u \notin forgotten' =>
                          /\ done'[u] <= 1
                          /\ stage'[u] \in {"queued", "running"} => done'[u] = 0
                          /\ u \in (held \ seen)' => done'[u] = 0
  BY DEF OncePerRun, OnceUnlessForgotten
<1>1. TypeOK /\ FreshIdle /\ OncePerRun /\ OnceUnlessForgotten
  BY DEF IntakeInv
<1>2. u \in Nat /\ done[u] \in Nat /\ restarts \in Nat /\ held \subseteq 1..sent /\ sent \in Nat
  BY <1>1, ConstantsOK DEF TypeOK, Updates
<1>3. CASE Restart
  BY <1>1, <1>2, <1>3 DEF Restart, OncePerRun, OnceUnlessForgotten
<1>4. CASE ~Restart
  <2>1. UNCHANGED <<restarts, forgotten>>
    BY <1>4 DEF Next, UserSends, Polling, GetUpdates, Dispatch, AdvanceOffset, Deliver,
       DeliverAgain, Handle, Start, Act, Return, Panic, HalfMinutePasses, Prune,
       MinutePasses, history
  <2> QED
    BY <1>1, <1>2, <1>4, <2>1, StageStep, FreshStep
       DEF OncePerRun, OnceUnlessForgotten, FreshIdle
<1> QED
  BY <1>3, <1>4

-----------------------------------------------------------------------------
(***************************************************************************)
(* What is remembered, confirmed, and passed by the offset.                *)
(***************************************************************************)
\* The histories never shrink, and an update in hand stays in hand until it is
\* settled.
LEMMA KnownStep ==
    ASSUME IntakeInv, Next, NEW u \in Updates
    PROVE  (Settled(u) => Settled(u)') /\ (Known(u) => Known(u)')
<1>0. TypeOK /\ ActedCounted
  BY DEF IntakeInv
<1>1. done[u] \in Nat
  BY <1>0, ConstantsOK DEF TypeOK
<1>2. dropped \subseteq dropped' /\ interrupted \subseteq interrupted'
  BY DEF Next, UserSends, Polling, GetUpdates, Dispatch, AdvanceOffset, Deliver,
     AllowWebhookUpdate, DeliverAgain, Handle, Start, Act, Return, Panic, HalfMinutePasses,
     Prune, MinutePasses, Restart, history
<1>3. done'[u] >= done[u] /\ done'[u] \in Nat
  BY <1>1, StageStep
<1>4. Settled(u) => Settled(u)'
  BY <1>1, <1>2, <1>3 DEF Settled
<1>5. ASSUME stage[u] # "none" PROVE Known(u)'
  <2>1. CASE Restart
    <3>1. stage[u] \in {"queued", "running", "acted"}
      BY <1>0, <1>5 DEF TypeOK, Stages
    <3> QED
      BY <1>0, <2>1, <3>1 DEF Restart, InStage, ActedCounted, Known, Settled
  <2>2. CASE ~Restart
    BY <1>0, <1>1, <1>5, <2>2, StageStep DEF ActedCounted, Known, Settled
  <2> QED
    BY <2>1, <2>2
<1> QED
  BY <1>4, <1>5 DEF Known

LEMMA RememberedStep == IntakeInv /\ Next => RememberedKnown'
<1> SUFFICES ASSUME IntakeInv, Next, NEW u \in (seen \cup file)'
             PROVE  u <= sent' /\ Known(u)'
  BY DEF RememberedKnown
<1>0. TypeOK /\ RememberedKnown /\ OffsetBehind /\ held \subseteq 1..sent
  BY DEF IntakeInv, TypeOK
<1>1. u \in Updates /\ u \in Nat
  BY TypeStep, ConstantsOK DEF TypeOK, Updates
<1>2. CASE u \in seen \cup file
  BY <1>0, <1>1, <1>2, KnownStep, FreshStep DEF RememberedKnown
<1>3. ASSUME u \notin seen \cup file PROVE u \in held /\ Known(u)' /\ sent' = sent
  <2>1. ASSUME NEW v \in Updates, Dispatch(v) PROVE u \in held /\ Known(u)' /\ sent' = sent
    BY <1>0, <1>3, <2>1 DEF Dispatch, Accept, SaveLocked, Known, TypeOK, OffsetBehind, memory
  <2>2. ASSUME NEW v \in Updates, Deliver(v) PROVE u \in held /\ Known(u)' /\ sent' = sent
    BY <1>0, <1>3, <2>2
       DEF Deliver, Accept, SaveLocked, AllowWebhookUpdate, Known, Settled, TypeOK
  <2> QED
    BY <1>3, <2>1, <2>2 DEF Next, UserSends, Polling, GetUpdates, AdvanceOffset, DeliverAgain,
       Handle, Start, Act, Return, Panic, HalfMinutePasses, Prune, SaveLocked, MinutePasses,
       Restart, memory
<1> QED
  BY <1>0, <1>1, <1>2, <1>3

\* The numbers of the updates.
LEMMA UpdateNumbers ==
    ASSUME IntakeInv
    PROVE  /\ sent \in Nat /\ poller.offset \in Nat /\ poller.top \in Nat
           /\ 1..sent \subseteq Updates /\ held \subseteq 1..sent
  BY ConstantsOK DEF IntakeInv, TypeOK, Updates

\* The way updates come in is configured once.
LEMMA ModeStep ==
    ASSUME IntakeInv, Next
    PROVE  mode \in {"poll", "webhook"} /\ mode' = mode
<1>1. mode \in {"poll", "webhook"}
  BY DEF IntakeInv, TypeOK
<1>2. mode' = mode
  BY DEF Next, UserSends, Polling, GetUpdates, Dispatch, AdvanceOffset, Deliver, DeliverAgain,
     Handle, Start, Act, Return, Panic, HalfMinutePasses, Prune, MinutePasses, Restart
<1> QED
  BY <1>1, <1>2

\* LostOnlyByCrash, in the words of these proofs.
LEMMA LostMeans ==
    LostOnlyByCrash <=>
        \A u \in 1..sent \ held : Settled(u) \/ (mode = "webhook" /\ Known(u))
  BY DEF LostOnlyByCrash, Settled, Known

LEMMA LostMeansNext ==
    LostOnlyByCrash' <=>
        \A u \in 1..sent' \ held' : Settled(u)' \/ (mode' = "webhook" /\ Known(u)')
  BY DEF LostOnlyByCrash, Settled, Known

LEMMA LostStep == IntakeInv /\ Next => LostOnlyByCrash'
<1> SUFFICES ASSUME IntakeInv, Next, NEW u \in 1..sent' \ held'
             PROVE  Settled(u)' \/ (mode' = "webhook" /\ Known(u)')
  BY LostMeansNext
<1>0. TypeOK /\ ActedCounted /\ RememberedKnown /\ OffsetBehind
  BY DEF IntakeInv
<1>n. /\ sent \in Nat /\ poller.offset \in Nat /\ held \subseteq 1..sent
      /\ 1..sent \subseteq Updates /\ mode' = mode
  BY UpdateNumbers, ModeStep
<1>1. u \in 1..sent /\ u \in Updates
  <2>1. CASE UserSends
    BY <1>n, <2>1 DEF UserSends
  <2>2. CASE UNCHANGED sent
    BY <1>n, <2>2
  <2> QED
    BY <1>n, <2>1, <2>2 DEF Next, Polling, GetUpdates, Dispatch, AdvanceOffset, Deliver,
       DeliverAgain, Handle, Start, Act, Return, Panic, HalfMinutePasses, Prune,
       MinutePasses, Restart
<1>2. CASE u \notin held
  <2>1. Settled(u) \/ (mode = "webhook" /\ Known(u))
    BY <1>1, <1>2, LostMeans DEF IntakeInv
  <2> QED
    BY <1>n, <1>1, <2>1, KnownStep
<1>3. CASE u \in held
  <2>1. CASE GetUpdates
    <3>1. ~ (u >= poller.offset)
      BY <1>3, <2>1 DEF GetUpdates
    <3>2. Settled(u)
      BY <1>0, <1>n, <1>1, <3>1 DEF OffsetBehind
    <3> QED
      BY <1>1, <3>2, KnownStep
  <2>2. ASSUME NEW v \in Updates, Deliver(v) PROVE Settled(u)'
    BY <1>3, <2>2 DEF Deliver, AllowWebhookUpdate, Answered, Settled
  <2>3. ASSUME NEW v \in Updates, DeliverAgain(v) PROVE mode = "webhook" /\ Known(u)'
    <3>1. v = u /\ u \in seen /\ mode = "webhook"
      BY <1>3, <2>3 DEF DeliverAgain, Answered
    <3> QED
      BY <1>0, <1>1, <3>1, KnownStep DEF RememberedKnown
  <2>4. ASSUME NEW v \in Updates, Return(v) PROVE Settled(u)'
    <3>1. v = u /\ done[u] > 0
      BY <1>0, <1>3, <2>4 DEF Return, Answered, ActedCounted
    <3> QED
      BY <1>1, <3>1, KnownStep DEF Settled
  <2> QED
    BY <1>n, <1>3, <2>1, <2>2, <2>3, <2>4 DEF Next, UserSends, Polling, Dispatch, AdvanceOffset,
       Handle, Start, Act, Panic, HalfMinutePasses, Prune, MinutePasses, Restart
<1> QED
  BY <1>2, <1>3

LEMMA OffsetStep == IntakeInv /\ Next => OffsetBehind'
<1> SUFFICES ASSUME IntakeInv, Next PROVE OffsetBehind'
  OBVIOUS
<1>0. /\ TypeOK /\ RememberedKnown /\ OffsetBehind
      /\ sent \in Nat /\ poller.offset \in Nat /\ poller.top \in Nat
      /\ held \subseteq 1..sent /\ 1..sent \subseteq Updates
      /\ mode \in {"poll", "webhook"} /\ mode' = mode
  BY UpdateNumbers, ModeStep DEF IntakeInv
<1>k. \A u \in 1..sent : (Settled(u) => Settled(u)') /\ (Known(u) => Known(u)')
  BY <1>0, KnownStep
<1>1. CASE UserSends
  BY <1>0, <1>k, <1>1 DEF UserSends, OffsetBehind, Sleeping
<1>2. CASE GetUpdates
  <2> DEFINE rest == {u \in held : u >= poller.offset}
  <2>1. held' = rest /\ UNCHANGED sent /\ mode = "poll"
    BY <1>2 DEF GetUpdates
  <2>2. CASE UNCHANGED poller
    BY <1>0, <1>k, <1>2, <2>1, <2>2 DEF OffsetBehind, GetUpdates, Sleeping
  <2>3. ASSUME NEW top \in Page(rest), \A u \in Page(rest) : u <= top,
               poller' = [poller EXCEPT !.batch = Page(rest), !.top = top]
        PROVE  OffsetBehind'
    <3>1. /\ poller'.offset = poller.offset /\ poller'.batch = Page(rest)
          /\ poller'.top = top /\ top \in held /\ Page(rest) \subseteq rest
      BY <1>0, <2>3 DEF Page, TypeOK
    <3>2. ASSUME NEW u \in 1..sent, u <= top PROVE u \in Page(rest) \/ Known(u)
      <4>1. CASE u \in rest
        BY <1>0, <2>3, <3>2, <4>1, PageClosed
      <4>2. CASE u \in held /\ u < poller.offset
        BY <1>0, <4>2 DEF OffsetBehind, Known
      <4>3. CASE u \notin held
        BY <2>1, <4>3, LostMeans DEF IntakeInv, Known
      <4> QED
        BY <1>0, <4>1, <4>2, <4>3
    <3> QED
      BY <1>0, <1>k, <2>1, <3>1, <3>2 DEF OffsetBehind, Sleeping
  <2> QED
    BY <1>2, <2>2, <2>3 DEF GetUpdates
<1>3. ASSUME NEW u \in Updates, Dispatch(u) PROVE OffsetBehind'
  <2>1. /\ mode = "poll" /\ UNCHANGED <<sent, held>> /\ u \in poller.batch
        /\ poller'.offset = poller.offset /\ poller'.top = poller.top
        /\ poller'.batch = poller.batch \ {u}
    BY <1>0, <1>3 DEF Dispatch, TypeOK
  <2>2. u \in 1..sent
    BY <1>0, <2>1 DEF OffsetBehind
  <2>3. Known(u)'
    <3>1. CASE u \in seen
      BY <1>0, <1>k, <2>2, <3>1 DEF RememberedKnown
    <3>2. CASE u \notin seen
      BY <1>0, <1>3, <3>2 DEF Dispatch, Known, TypeOK
    <3> QED
      BY <3>1, <3>2
  <2> QED
    BY <1>0, <1>k, <2>1, <2>2, <2>3 DEF OffsetBehind, Sleeping
<1>4. CASE AdvanceOffset
  <2>1. /\ poller.batch = {} /\ poller.top # 0 /\ UNCHANGED <<sent, held>>
        /\ poller' = [offset |-> poller.top + 1, batch |-> {}, top |-> 0]
        /\ \A u \in Updates : stage[u] = "none"
    BY <1>4 DEF AdvanceOffset, BatchProcessed, Sleeping
  <2>2. mode = "poll"
    BY <1>0, <2>1 DEF OffsetBehind, Asleep
  <2>3. ASSUME NEW u \in 1..sent, u <= poller.top PROVE Settled(u)
    BY <1>0, <2>1, <2>3, ConstantsOK DEF OffsetBehind, Known, TypeOK, Updates
  <2> QED
    BY <1>0, <1>k, <2>1, <2>2, <2>3 DEF OffsetBehind, Sleeping
<1>5. CASE Restart
  BY <1>0, <1>5 DEF Restart, OffsetBehind, Asleep, Sleeping
<1>6. CASE UNCHANGED <<sent, poller>> /\ (mode = "webhook" \/ UNCHANGED held)
  <2>1. poller.batch \subseteq held'
    BY <1>0, <1>6 DEF OffsetBehind, Asleep
  <2> QED
    BY <1>0, <1>k, <1>6, <2>1 DEF OffsetBehind, Sleeping
<1>7. ASSUME NEW u \in Updates, Deliver(u) \/ DeliverAgain(u) \/ Handle(u)
      PROVE  UNCHANGED <<sent, poller>> /\ (mode = "webhook" \/ UNCHANGED held)
  BY <1>0, <1>7 DEF Deliver, DeliverAgain, Handle, Start, Act, Return, Panic
<1> QED
  BY <1>1, <1>2, <1>3, <1>4, <1>5, <1>6, <1>7
     DEF Next, Polling, HalfMinutePasses, Prune, MinutePasses

-----------------------------------------------------------------------------
(***************************************************************************)
(* Theorems.                                                               *)
(***************************************************************************)
LEMMA Inductive == IntakeInv /\ [Next]_vars => IntakeInv'
<1> SUFFICES ASSUME IntakeInv, [Next]_vars PROVE IntakeInv'
  OBVIOUS
<1>1. CASE Next
  <2>1. TypeOK' /\ SlotsCounted'
    BY <1>1, TypeStep, SlotsStep
  <2>2. (FreshIdle /\ ActedCounted)' /\ RememberedKnown'
    BY <1>1, HandStep, RememberedStep
  <2>3. (OncePerRun /\ OnceUnlessForgotten)'
    BY <1>1, OnceStep
  <2>4. OffsetBehind' /\ LostOnlyByCrash'
    BY <1>1, OffsetStep, LostStep
  <2>5. (PolledUncounted /\ NobodyLockedOut)'
    BY <1>1, WindowsStep
  <2> QED
    BY <2>1, <2>2, <2>3, <2>4, <2>5 DEF IntakeInv
<1>2. CASE UNCHANGED vars
  BY <1>2, StutterInv
<1> QED
  BY <1>1, <1>2

THEOREM InvariantHolds == Spec => []IntakeInv
<1>1. Init => IntakeInv
  BY InitInv
<1>2. IntakeInv /\ [Next]_vars => IntakeInv'
  BY Inductive
<1> QED
  BY <1>1, <1>2, PTL DEF Spec

\* Every variable of UpdateIntake keeps its type.
THEOREM TypeCorrect == Spec => []TypeOK
<1>1. IntakeInv => TypeOK
  BY DEF IntakeInv
<1> QED
  BY <1>1, InvariantHolds, PTL

\* Telegram forgets no update that was not dealt with, unless the program ended
\* while it was being handled.
THEOREM NothingLost == Spec => []LostOnlyByCrash
<1>1. IntakeInv => LostOnlyByCrash
  BY DEF IntakeInv
<1> QED
  BY <1>1, InvariantHolds, PTL

\* Only an update whose id was forgotten is acted upon twice.
THEOREM HandledOnce == Spec => []TwiceOnlyIfForgotten
<1>1. IntakeInv => TwiceOnlyIfForgotten
  BY ConstantsOK DEF IntakeInv, OnceUnlessForgotten, TwiceOnlyIfForgotten, TypeOK
<1> QED
  BY <1>1, InvariantHolds, PTL

\* The places a user's window counts are taken by that user's updates.
THEOREM NobodyLocked == Spec => []NobodyLockedOut
<1>1. IntakeInv => NobodyLockedOut
  BY DEF IntakeInv
<1> QED
  BY <1>1, InvariantHolds, PTL
=================================================================================
