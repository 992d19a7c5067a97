-------------------------------- MODULE Delivery --------------------------------
(***************************************************************************)
(* From a tap on a button to what the chat shows.                          *)
(*                                                                         *)
(* A tap is handled by a goroutine of its own.  In a group everything it   *)
(* says is an ephemeral card, visible only to whoever tapped; in a private *)
(* chat the answer replaces or follows the tapped card.  Every call to     *)
(* Telegram may be refused, or may be obeyed and its answer lost, and each *)
(* failure has a fallback.  The card that acknowledges a request is        *)
(* remembered, so that the verdict of an administrator can be written on   *)
(* it later.                                                               *)
(*                                                                         *)
(* The retries after a 429 are part of a call.  Left out: the branches of  *)
(* the renderer no handler reaches (a photo or a keyboard without a card,  *)
(* a group without an ephemeral card).                                     *)
(***************************************************************************)
EXTENDS Integers, FiniteSets, FiniteSetsExt

CONSTANTS
    Taps,
    MaxMessages,   \* bound on message ids
    MaxFaults      \* bound on refused calls and lost answers

VARIABLES
    community,  \* the chat is a group
    chat,       \* the messages of the chat, as Telegram has them
    tap,        \* HandleCallbackQuery and RenderCallbackResponse of each tap
    request,    \* the request a tap made, and the verdict on it
    refused,    \* history: the calls of each tap that Telegram refused
    lost,       \* history: the calls of each tap that were obeyed without an answer
    faults

vars == <<community, chat, tap, request, refused, lost, faults>>

Ids      == 1..MaxMessages
Original == 1
NoId     == 0
Everyone == "everyone"

Faces == {"unused", "gone", "original", "wait", "card", "receipt", "verdict"}

Unused == [face |-> "unused", by |-> Everyone, to |-> Everyone]

\* What a handler answers.  A text with buttons is made a rich message (fuseInlineKeyboardIntoRich).
Plain == [rich |-> FALSE, hero |-> FALSE, text |-> TRUE, photo |-> FALSE,
          edit |-> FALSE, delete |-> FALSE, receipt |-> FALSE]
Toast       == [Plain EXCEPT !.text = FALSE]
Outcome     == [Plain EXCEPT !.edit = TRUE]
Farewell    == [Plain EXCEPT !.delete = TRUE]
Card        == [Plain EXCEPT !.rich = TRUE]
Receipt     == [Card EXCEPT !.receipt = TRUE]
Poster      == [Card EXCEPT !.photo = TRUE]
Page        == [Card EXCEPT !.edit = TRUE]
Replacement == [Card EXCEPT !.delete = TRUE]
Welcome     == [Card EXCEPT !.hero = TRUE, !.edit = TRUE, !.delete = TRUE]

Answers     == {Toast, Plain, Outcome, Farewell, Card, Receipt, Poster, Page, Replacement, Welcome}
SlowAnswers == {Toast, Plain, Outcome, Page}      \* of the actions callbackNeedsImmediateAck names

Calls == {"placeholder", "edit_rich", "edit_plain", "delete_edited", "delete", "send_rich", "send_hero",
          "send_photo", "send_upload", "edit_text", "send_text",
          "eph_media", "eph_photo", "eph_upload", "eph_drop", "eph_rich", "eph_text"}

Idle == [pc |-> "idle", message |-> NoId, me |-> Everyone, ephemeral |-> NoId, slow |-> FALSE,
         answer |-> Toast, cleared |-> FALSE, carried |-> NoId]

NoRequest == [state |-> "none", receipt |-> NoId, seen |-> NoId, written |-> FALSE]

TypeOK ==
    /\ community \in BOOLEAN
    /\ chat \in [Ids -> [face : Faces, by : Taps \cup {Everyone}, to : Taps \cup {Everyone}]]
    /\ tap \in [Taps -> [pc : {"idle", "work", "deliver", "done"} \cup Calls, message : Ids \cup {NoId},
                         me : Taps \cup {Everyone}, ephemeral : Ids \cup {NoId}, slow : BOOLEAN,
                         answer : Answers, cleared : BOOLEAN, carried : Ids \cup {NoId}]]
    /\ request \in [Taps -> [state : {"none", "pending", "rich", "text", "settled"},
                             receipt : Ids \cup {NoId}, seen : Ids \cup {NoId}, written : BOOLEAN]]
    /\ refused \in [Taps -> SUBSET Calls] /\ lost \in [Taps -> SUBSET Calls]
    /\ faults \in 0..MaxFaults

Init ==
    /\ community \in BOOLEAN
    /\ chat = [m \in Ids |-> IF m = Original THEN [Unused EXCEPT !.face = "original"] ELSE Unused]
    /\ tap = [t \in Taps |-> Idle]
    /\ request = [t \in Taps |-> NoRequest]
    /\ refused = [t \in Taps |-> {}] /\ lost = [t \in Taps |-> {}]
    /\ faults = 0
-----------------------------------------------------------------------------
(***************************************************************************)
(* A call to Telegram (makeRequest, makeSimpleRequest): obeyed, refused,   *)
(* or obeyed with the answer lost.  The caller sees the last two alike.    *)
(***************************************************************************)
Shown(m) == m # NoId /\ chat[m].face \notin {"unused", "gone"}
Room     == \E m \in Ids : chat[m].face = "unused"
NextId   == Min({m \in Ids : chat[m].face = "unused"})

Go(t, pc) == tap' = [tap EXCEPT ![t].pc = pc]
Fault     == faults < MaxFaults /\ faults' = faults + 1
Face(t)   == IF tap[t].answer.receipt THEN "receipt" ELSE "card"

Obeyed(t, m, message, next) ==
    /\ chat' = [chat EXCEPT ![m] = message]
    /\ tap' = next
    /\ UNCHANGED <<refused, lost, faults>>
Refused(t, call, pc) ==
    /\ refused' = [refused EXCEPT ![t] = @ \cup {call}]
    /\ Go(t, pc) /\ UNCHANGED <<chat, lost>>
AnswerLost(t, call, m, message, pc) ==
    /\ Fault
    /\ chat' = [chat EXCEPT ![m] = message]
    /\ lost' = [lost EXCEPT ![t] = @ \cup {call}]
    /\ Go(t, pc) /\ UNCHANGED refused

\* An edit or a deletion of message m; Telegram refuses it by itself when m is not there.
Changes(t, call, m, message, next, pc) ==
    /\ tap[t].pc = call
    /\ \/ Shown(m) /\ Obeyed(t, m, message, next)
       \/ ~Shown(m) /\ Refused(t, call, pc) /\ UNCHANGED faults
       \/ Fault /\ Refused(t, call, pc)
       \/ Shown(m) /\ AnswerLost(t, call, m, message, pc)

\* A new message to the given receiver.
Sends(t, call, to, next, pc) ==
    LET message == [face |-> Face(t), by |-> t, to |-> to]
    IN /\ tap[t].pc = call /\ Room
       /\ \/ Obeyed(t, NextId, message, next)
          \/ Fault /\ Refused(t, call, pc)
          \/ AnswerLost(t, call, NextId, message, pc)

Erased(m)    == [chat[m] EXCEPT !.face = "gone"]
Rewritten(t, m) == [chat[m] EXCEPT !.face = Face(t), !.by = t]

\* notifyDelivered: the handler hears of the message that carried its answer.
CarriedBy(t, m) ==
    [tap EXCEPT ![t].pc = IF tap[t].answer.receipt THEN "deliver" ELSE "done", ![t].carried = m]
EndsWith(t, m)  == [tap EXCEPT ![t].pc = "done"]
-----------------------------------------------------------------------------
(***************************************************************************)
(* The tap (HandleCallbackQuery).  A tap on an ephemeral card comes from   *)
(* the user it is shown to.                                                *)
(***************************************************************************)
Click(t, m, slow) ==
    /\ tap[t].pc = "idle" /\ Shown(m)
    /\ community => ~slow
    /\ chat[m].face # "wait"
    /\ tap' = [tap EXCEPT ![t] = [Idle EXCEPT
          !.pc = IF community /\ m = Original THEN "placeholder" ELSE "work",
          !.message = m,
          !.me = IF chat[m].to = Everyone THEN t ELSE chat[m].to,
          !.ephemeral = IF community /\ m # Original THEN m ELSE NoId,
          !.slow = slow]]
    /\ UNCHANGED <<community, chat, request, refused, lost, faults>>

\* The private target is established first; without it the tap goes no further.
Placeholder(t) ==
    LET message == [face |-> "wait", by |-> t, to |-> tap[t].me]
    IN /\ tap[t].pc = "placeholder" /\ Room
       /\ \/ Obeyed(t, NextId, message, [tap EXCEPT ![t].pc = "work", ![t].ephemeral = NextId])
          \/ Fault /\ Refused(t, "placeholder", "done")
          \/ AnswerLost(t, "placeholder", NextId, message, "done")
       /\ UNCHANGED <<community, request>>

\* Where RenderCallbackResponse starts.
FirstCall(a) ==
    IF community
    THEN IF a.photo THEN "eph_media"
         ELSE IF a.rich THEN "eph_rich" ELSE IF a.text THEN "eph_text" ELSE "done"
    ELSE IF a.delete THEN "delete"
         ELSE IF a.rich THEN IF a.edit THEN "edit_rich" ELSE "send_rich"
         ELSE IF a.edit THEN "edit_text" ELSE IF a.text THEN "send_text" ELSE "done"

\* The handler, and the answer to the callback when it was not given ahead.  A request it makes
\* is in the administrators' hands before its receipt is sent.
Work(t) ==
    /\ tap[t].pc = "work"
    /\ \E a \in (IF tap[t].slow THEN SlowAnswers ELSE Answers) :
          /\ tap' = [tap EXCEPT ![t].answer = a, ![t].pc = FirstCall(a)]
          /\ request' = IF a.receipt THEN [request EXCEPT ![t].state = "pending"] ELSE request
    /\ UNCHANGED <<community, chat, refused, lost, faults>>
-----------------------------------------------------------------------------
(***************************************************************************)
(* Rendering in a private chat.                                            *)
(***************************************************************************)
EditRich(t) ==
    LET m == tap[t].message
    IN Changes(t, "edit_rich", m, Rewritten(t, m), CarriedBy(t, m), "edit_plain")

EditPlain(t) ==
    LET m == tap[t].message
    IN Changes(t, "edit_plain", m, Rewritten(t, m), CarriedBy(t, m), "delete_edited")

\* The replacement is sent whether or not the card was deleted.
DeleteOrNot(t) ==
    LET m == tap[t].message
    IN Changes(t, "delete_edited", m, Erased(m),
               [tap EXCEPT ![t].pc = "send_rich", ![t].cleared = TRUE], "send_rich")

\* Neither edit went through: only a deleted card is replaced.
DeleteEdited(t) ==
    LET m == tap[t].message
    IN Changes(t, "delete_edited", m, Erased(m),
               [tap EXCEPT ![t].pc = "send_rich", ![t].cleared = TRUE], "done")

\* A card to be replaced is deleted first, but its successor is sent either way.
Delete(t) ==
    LET m    == tap[t].message
        next == IF tap[t].answer.rich THEN "send_rich" ELSE "send_text"
    IN Changes(t, "delete", m, Erased(m), [tap EXCEPT ![t].pc = next, ![t].cleared = TRUE], next)

Fallback(t) ==
    LET a == tap[t].answer
    IN IF a.photo THEN "send_photo"
       ELSE IF a.edit /\ ~tap[t].cleared THEN "edit_text" ELSE "send_text"

SendRich(t) ==
    Sends(t, "send_rich", Everyone, CarriedBy(t, NextId),
          IF tap[t].answer.hero THEN "send_hero" ELSE Fallback(t))

SendHero(t) == Sends(t, "send_hero", Everyone, CarriedBy(t, NextId), Fallback(t))

\* SendPhotoWithParseMode: by its address, then uploaded.
SendPhoto(t)  == Sends(t, "send_photo", Everyone, EndsWith(t, NextId), "send_upload")
SendUpload(t) == Sends(t, "send_upload", Everyone, EndsWith(t, NextId), "done")

EditText(t) ==
    LET m == tap[t].message
    IN Changes(t, "edit_text", m, Rewritten(t, m), CarriedBy(t, m), "done")

SendText(t) == Sends(t, "send_text", Everyone, CarriedBy(t, NextId), "done")

RenderPrivate(t) ==
    /\ \/ EditRich(t) \/ EditPlain(t) \/ DeleteEdited(t) \/ Delete(t)
       \/ SendRich(t) \/ SendHero(t) \/ SendPhoto(t) \/ SendUpload(t)
       \/ EditText(t) \/ SendText(t)
    /\ UNCHANGED <<community, request>>
-----------------------------------------------------------------------------
(***************************************************************************)
(* Rendering in a group (renderCommunityCallbackResponse).                 *)
(***************************************************************************)
\* The options of the send are forgotten.
ReceiverForgotten(t) == Everyone

Receiver(t) == tap[t].me    \* communitySendOptions

EphemeralMedia(t) ==
    LET m == tap[t].ephemeral
    IN Changes(t, "eph_media", m, Rewritten(t, m), EndsWith(t, m), "eph_photo")

EphemeralPhoto(t) ==
    \E call \in {"eph_photo", "eph_upload"} :
        Sends(t, call, Receiver(t), [tap EXCEPT ![t].pc = "eph_drop"],
              IF call = "eph_photo" THEN "eph_upload" ELSE "eph_rich")

EphemeralDrop(t) ==
    LET m == tap[t].ephemeral
    IN Changes(t, "eph_drop", m, Erased(m), EndsWith(t, m), "done")

EphemeralRich(t) ==
    LET m == tap[t].ephemeral
    IN Changes(t, "eph_rich", m, Rewritten(t, m), CarriedBy(t, m), "eph_text")

EphemeralText(t) ==
    LET m == tap[t].ephemeral
    IN Changes(t, "eph_text", m, Rewritten(t, m), CarriedBy(t, m), "done")

RenderCommunity(t) ==
    /\ \/ EphemeralMedia(t) \/ EphemeralPhoto(t) \/ EphemeralDrop(t)
       \/ EphemeralRich(t) \/ EphemeralText(t)
    /\ UNCHANGED <<community, request>>
-----------------------------------------------------------------------------
(***************************************************************************)
(* The receipt of a request and the verdict.                               *)
(***************************************************************************)
\* rememberRequesterReceipt: where the receipt landed, unless that cannot be saved.
RememberRequesterReceipt(t) ==
    /\ tap[t].pc = "deliver" /\ Go(t, "done")
    /\ \/ request' = [request EXCEPT ![t].receipt = tap[t].carried] /\ UNCHANGED faults
       \/ Fault /\ UNCHANGED request
    /\ UNCHANGED <<community, chat, refused, lost>>

\* Approve and Reject hand the handler a copy of the request.
Decide(t) ==
    /\ request[t].state = "pending"
    /\ request' = [request EXCEPT ![t].seen = request[t].receipt, ![t].state = "rich"]
    /\ UNCHANGED <<community, chat, tap, refused, lost, faults>>

\* updateRequesterReceipt: the verdict as a rich message, then as a text.
UpdateRequesterReceipt(t) ==
    LET m       == request[t].seen
        state   == request[t].state
        verdict == [chat[m] EXCEPT !.face = "verdict"]
    IN /\ state \in {"rich", "text"}
       /\ \/ /\ m = NoId
             /\ request' = [request EXCEPT ![t].state = "settled"] /\ UNCHANGED <<chat, faults>>
          \/ /\ Shown(m)
             /\ chat' = [chat EXCEPT ![m] = verdict]
             /\ request' = [request EXCEPT ![t].state = "settled", ![t].written = TRUE]
             /\ UNCHANGED faults
          \/ /\ m # NoId
             /\ IF Shown(m) THEN Fault ELSE UNCHANGED faults
             /\ chat' \in {chat} \cup (IF Shown(m) THEN {[chat EXCEPT ![m] = verdict]} ELSE {})
             /\ request' = [request EXCEPT ![t].state = IF state = "rich" THEN "text" ELSE "settled",
                                           ![t].written = @ \/ chat' # chat]
       /\ UNCHANGED <<community, tap, refused, lost>>
-----------------------------------------------------------------------------
Step(t) ==
    \/ Placeholder(t) \/ Work(t) \/ RenderPrivate(t) \/ RenderCommunity(t)
    \/ RememberRequesterReceipt(t)

Next ==
    \/ \E t \in Taps, m \in Ids, slow \in BOOLEAN : Click(t, m, slow)
    \/ \E t \in Taps : Step(t)
    \/ \E t \in Taps : Decide(t) \/ UpdateRequesterReceipt(t)

Spec == Init /\ [][Next]_vars
-----------------------------------------------------------------------------
Done(t)   == tap[t].pc = "done"
Of(t)     == {m \in Ids : Shown(m) /\ chat[m].by = t}
Sendings  == {"send_rich", "send_hero", "send_photo", "send_upload", "send_text"}
Deletions == {"delete_edited", "delete"}

\* In a group the public message is never touched, and what a tap says is shown to nobody but the
\* user who tapped, whatever call failed before (RenderCallbackResponse, "Never edit, delete, or
\* append personal details to the public message"; no fallback is public).
NeverPublic ==
    community =>
        /\ chat[Original] = [Unused EXCEPT !.face = "original"]
        /\ \A m \in Ids : Shown(m) /\ m # Original => chat[m].to \in Taps /\ chat[m].to = tap[chat[m].by].me

\* An answer that edits the tapped card ends as one card, the tapped one or its replacement and
\* never both, unless the answer to a send was lost and the fallback sent the card once more.
OneCard ==
    \A t \in Taps :
        Done(t) /\ tap[t].answer.edit /\ ~tap[t].answer.delete /\ lost[t] \cap Sendings = {}
            => Cardinality(Of(t) \cup (IF ~community /\ Shown(tap[t].message) THEN {tap[t].message} ELSE {})) <= 1

\* A private chat is not left without any card as long as Telegram takes a plain text or an
\* uploaded photo: whoever deletes a card ends with one.  Only the lost answer to a deletion
\* hides that the card is gone.
KeepsACard ==
    ~community /\ (\A t \in Taps : tap[t].pc \in {"idle", "done"}) /\ (\A m \in Ids : ~Shown(m))
        => \E t \in Taps : \/ refused[t] \cap {"send_text", "send_upload"} # {}
                           \/ lost[t] \cap Deletions # {}

\* A verdict written on a receipt is not overwritten by the receipt itself: its coordinates are
\* known only once the tap has nothing more to write there (notifyDelivered).  Another tap may
\* put something else on the card.
VerdictKept ==
    \A t \in Taps :
        LET m == request[t].seen
        IN request[t].written /\ chat[m].by = t => chat[m].face # "receipt"

\* What a tap leaves in the chat: one card, not two or none, and a verdict that stays.
CardStands == OneCard /\ KeepsACard /\ VerdictKept
=============================================================================
