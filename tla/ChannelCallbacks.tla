-------------------------- MODULE ChannelCallbacks --------------------------
(***************************************************************************)
(* Telegram accounts linked to users, and the buttons under the bot's      *)
(* messages: from a linking code to the action a pressed button stands     *)
(* for.                                                                    *)
(*                                                                         *)
(* A pressed button is a callback job; several are worked on at a time.    *)
(* The job reads the button and its connection, claims the button with a   *)
(* guarded update, and only then calls the Assistant.  The buttons of one  *)
(* keyboard stand for the answers to one question, or for the confirmation *)
(* of one draft, and for its cancellation.  Question and draft may be      *)
(* settled from the web as well, run out before their buttons do, and be   *)
(* deleted with their conversation; here each call of the Assistant is one *)
(* step (Clarification and FinancialDraft have its interleavings).         *)
(***************************************************************************)
EXTENDS Naturals, FiniteSets

CONSTANTS
  Users,
  Identities,     \* Telegram accounts
  Buttons,        \* the buttons of one keyboard
  Cancels,        \* those of them that cancel
  Presses,        \* callback jobs
  MaxCallFaults   \* bound on failing calls and dying workers

ASSUME CallbackAssumption == MaxCallFaults \in Nat

VARIABLES
  code,       \* has the user a linking code that is neither used nor expired?
  conn,       \* channel_connections, by user, with the conversation each is in
  button,     \* status of each callback token
  keyboard,   \* whose keyboard it is
  matter,     \* the question or draft behind it
  overdue,    \* has the quarter of an hour of the question or draft passed?
  lapsed,     \* and that of the keyboard, which was made after it?
  settled,    \* the buttons whose action the Assistant carried out
  press,      \* what each callback job is about and where it is
  told,       \* what its sender is answered
  vouched,    \* history: presses whose connection was right when it was read
  callFaults

matterVars == <<matter, overdue>>
callbackVars == <<code, conn, button, keyboard, matterVars, lapsed, settled, press, told, vouched,
                  callFaults>>
linkVars == <<code, conn>>

Unlinked == [status |-> "none"]
NoKeyboard == [status |-> "none"]
NoPress == [step |-> "unsent"]
NoMatter == [kind |-> "none", status |-> "none"]

(* A connection is in no conversation, in that of the keyboard, or in      *)
(* another one.                                                            *)
Talks == {"none", "its", "another"}

CallbackInit ==
  /\ code = [u \in Users |-> "none"]
  /\ conn = [u \in Users |-> Unlinked]
  /\ button = [b \in Buttons |-> "none"]
  /\ keyboard = NoKeyboard /\ lapsed = FALSE
  /\ matter = NoMatter /\ overdue = FALSE
  /\ settled = {} /\ vouched = {}
  /\ press = [p \in Presses |-> NoPress]
  /\ told = [p \in Presses |-> "none"]
  /\ callFaults = 0

-----------------------------------------------------------------------------
(* Linking *)

Linked(u) == conn[u].status # "none"
UserOf(t) == {u \in Users : Linked(u) /\ conn[u].who = t}
ActiveConnection(t) == {u \in UserOf(t) : conn[u].status = "ACTIVE"}

CreateLinkToken(u) ==
  /\ code[u] # "open"
  /\ code' = [code EXCEPT ![u] = "open"]
  /\ UNCHANGED <<conn, button, keyboard, matterVars, lapsed, settled, press, told, vouched, callFaults>>

LinkTokenExpires(u) ==
  /\ code[u] = "open"
  /\ code' = [code EXCEPT ![u] = "none"]
  /\ UNCHANGED <<conn, button, keyboard, matterVars, lapsed, settled, press, told, vouched, callFaults>>

(* One transaction: a code whose identity belongs to another user is not   *)
(* used up.  A user's row is kept when it is linked again, with the        *)
(* conversation it had.                                                    *)
ConsumeLinkToken(u, t) ==
  /\ code[u] = "open"
  /\ UserOf(t) \subseteq {u}
  /\ code' = [code EXCEPT ![u] = "none"]
  /\ conn' = [conn EXCEPT ![u] = [status |-> "ACTIVE", who |-> t,
                                  talk |-> IF Linked(u) THEN @.talk ELSE "none"]]
  /\ UNCHANGED <<button, keyboard, matterVars, lapsed, settled, press, told, vouched, callFaults>>

(* From the web, or with /unlink from the account itself. *)
Revoke(u) ==
  /\ Linked(u) /\ conn[u].status = "ACTIVE"
  /\ conn' = [conn EXCEPT ![u].status = "REVOKED"]
  /\ UNCHANGED <<code, button, keyboard, matterVars, lapsed, settled, press, told, vouched, callFaults>>

(* /new *)
StartNewConversation(t) ==
  /\ \E u \in ActiveConnection(t) :
       /\ conn[u].talk # "none"
       /\ conn' = [conn EXCEPT ![u].talk = "none"]
  /\ UNCHANGED <<code, button, keyboard, matterVars, lapsed, settled, press, told, vouched, callFaults>>

(* The Assistant answers a message of the account with a question or a     *)
(* draft: the worker makes the answer's conversation the current one and   *)
(* creates a token for every button.                                       *)
OfferButtons(t) ==
  /\ keyboard = NoKeyboard
  /\ \E u \in ActiveConnection(t) :
       /\ conn' = [conn EXCEPT ![u].talk = "its"]
       /\ keyboard' = [status |-> "shown", user |-> u]
  /\ button' = [b \in Buttons |-> "PENDING"]
  /\ \E kind \in {"question", "draft"} : matter' = [kind |-> kind, status |-> "open"]
  /\ UNCHANGED <<code, overdue, lapsed, settled, press, told, vouched, callFaults>>

(* After /new, a later message starts another conversation. *)
TalkOn(t) ==
  /\ keyboard # NoKeyboard /\ keyboard.user \in ActiveConnection(t)
  /\ conn[keyboard.user].talk = "none"
  /\ conn' = [conn EXCEPT ![keyboard.user].talk = "another"]
  /\ UNCHANGED <<code, button, keyboard, matterVars, lapsed, settled, press, told, vouched, callFaults>>

(* The question or draft is over a moment before its buttons are. *)
FifteenMinutesLater ==
  /\ keyboard # NoKeyboard /\ ~lapsed
  /\ overdue' = TRUE /\ lapsed' = overdue
  /\ UNCHANGED <<linkVars, button, keyboard, matter, settled, press, told, vouched, callFaults>>

(* Answered, confirmed, cancelled or found invalid (STALE or FAILED) from  *)
(* the web, or found to be over.                                           *)
SettleOnTheWeb ==
  /\ matter.status = "open"
  /\ \E status \in IF overdue THEN {"expired"} ELSE {"done", "cancelled", "void"} :
       matter' = [matter EXCEPT !.status = status]
  /\ UNCHANGED <<linkVars, button, keyboard, overdue, lapsed, settled, press, told, vouched, callFaults>>

(* The conversation takes its questions and drafts with it and leaves the  *)
(* connection without one; the tokens stay.                                *)
DeleteTalk ==
  /\ matter.status \notin {"none", "gone"}
  /\ matter' = [matter EXCEPT !.status = "gone"]
  /\ conn' = IF conn[keyboard.user].talk = "its"
             THEN [conn EXCEPT ![keyboard.user].talk = "none"] ELSE conn
  /\ UNCHANGED <<code, button, keyboard, overdue, lapsed, settled, press, told, vouched,
                 callFaults>>

-----------------------------------------------------------------------------
(* processCallback *)

Step(p, s) == press' = [press EXCEPT ![p].step = s] /\ UNCHANGED told
Terminal_(p, answer) ==
  /\ press' = [press EXCEPT ![p].step = "done"]
  /\ told' = [told EXCEPT ![p] = answer]

Press(p, t, b) ==
  /\ press[p] = NoPress /\ keyboard # NoKeyboard
  /\ press' = [press EXCEPT ![p] = [step |-> "find", who |-> t, button |-> b, reply |-> "none"]]
  /\ UNCHANGED <<linkVars, button, keyboard, matterVars, lapsed, settled, told, vouched, callFaults>>

FindToken(p) ==
  /\ press[p].step = "find"
  /\ LET b == press[p].button IN
     CASE button[b] # "PENDING" -> Terminal_(p, button[b])
       [] button[b] = "PENDING" /\ lapsed -> Step(p, "expire")
       [] button[b] = "PENDING" /\ ~lapsed -> Step(p, "connection")
  /\ UNCHANGED <<linkVars, button, keyboard, matterVars, lapsed, settled, vouched, callFaults>>

(* A guarded update; the answer is the same whether or not it won. *)
ExpireToken(p) ==
  /\ press[p].step = "expire"
  /\ button' = [button EXCEPT ![press[p].button] = IF @ = "PENDING" THEN "EXPIRED" ELSE @]
  /\ Terminal_(p, "EXPIRED")
  /\ UNCHANGED <<linkVars, keyboard, matterVars, lapsed, settled, vouched, callFaults>>

CheckConnection(p) ==
  /\ press[p].step = "connection"
  /\ LET c == conn[keyboard.user]
         right == c.status = "ACTIVE" /\ c.who = press[p].who /\ c.talk = "its"
     IN /\ CASE c.status # "ACTIVE" -> Terminal_(p, "connection_revoked")
             [] c.status = "ACTIVE" /\ c.who # press[p].who -> Terminal_(p, "restart_required")
             [] c.status = "ACTIVE" /\ c.who = press[p].who /\ c.talk # "its" ->
                  Terminal_(p, "stale")
             [] right -> Step(p, "claim")
        /\ vouched' = IF right THEN vouched \cup {p} ELSE vouched
  /\ UNCHANGED <<linkVars, button, keyboard, matterVars, lapsed, settled, callFaults>>

(* Mutant: the update is not guarded by the status of the token. *)
ClaimTokenUnguarded(p) ==
  /\ press[p].step = "claim"
  /\ button' = [button EXCEPT ![press[p].button] = "CONSUMED"]
  /\ Step(p, "act")
  /\ UNCHANGED <<linkVars, keyboard, matterVars, lapsed, settled, vouched, callFaults>>

ClaimToken(p) ==
  /\ press[p].step = "claim"
  /\ LET b == press[p].button IN
     IF button[b] = "PENDING"
     THEN button' = [button EXCEPT ![b] = "CONSUMED"] /\ Step(p, "act")
     ELSE Terminal_(p, button[b]) /\ UNCHANGED button
  /\ UNCHANGED <<linkVars, keyboard, matterVars, lapsed, settled, vouched, callFaults>>

(* What the Assistant does to the question or draft and answers. *)
Goes(p, status, reply, acted) ==
  /\ matter' = [matter EXCEPT !.status = status]
  /\ settled' = IF acted THEN settled \cup {press[p].button} ELSE settled
  /\ press' = [press EXCEPT ![p].step = "render", ![p].reply = reply]
  /\ UNCHANGED <<linkVars, button, keyboard, overdue, lapsed, told, vouched, callFaults>>

InTime == matter.status = "open" /\ ~overdue
Cancelling(p) == press[p].button \in Cancels

(* selectClarification: the next question, the draft or a form for the web;*)
(* or the question is used up though a category is missing; or what it     *)
(* remembers is not valid any more.                                        *)
Select(p) ==
  /\ InTime /\ matter.kind = "question" /\ ~Cancelling(p)
  /\ \/ Goes(p, "done", "advanced", TRUE) \/ Goes(p, "done", "incomplete", TRUE)
     \/ Goes(p, "void", "void", FALSE)

(* confirmDraft: committed, or rejected for good by the finance rules. *)
Confirm(p) ==
  /\ InTime /\ matter.kind = "draft" /\ ~Cancelling(p)
  /\ Goes(p, "done", "done", TRUE) \/ Goes(p, "void", "failed", FALSE)

Cancel(p) == InTime /\ Cancelling(p) /\ Goes(p, "cancelled", "cancelled", TRUE)

(* Any other error leaves question or draft as it was. *)
Refuse(p) == matter.status = "open" /\ Goes(p, "open", "failed", FALSE)

(* What is over is marked so.  The caller is told, except by cancelDraft:  *)
(* it returns EXPIRED like any other result, and the reply is always       *)
(* "Draft cancelled.".                                                     *)
FindOverdue(p) ==
  /\ matter.status = "open" /\ overdue
  /\ Goes(p, "expired",
          IF matter.kind = "draft" /\ Cancelling(p) THEN "cancelled" ELSE "expired", FALSE)

(* A settled question tells how it ended; a draft does so when what was    *)
(* asked for is what happened, or when it expired.                         *)
FindSettled(p) ==
  LET asked == IF Cancelling(p) THEN "cancelled" ELSE "done"
      silent == matter.kind = "draft" /\ matter.status \in {"done", "cancelled", "void"} \ {asked}
  IN /\ matter.status # "open"
     /\ Goes(p, matter.status, IF silent THEN "conflict" ELSE matter.status, FALSE)

Act(p) ==
  /\ press[p].step = "act"
  /\ \/ Select(p) \/ Confirm(p) \/ Cancel(p) \/ Refuse(p)
     \/ FindOverdue(p) \/ FindSettled(p)

(* The reply, and the next keyboard, whose tokens are created one by one.  *)
RenderApplicationResult(p) ==
  /\ press[p].step = "render"
  /\ Terminal_(p, press[p].reply)
  /\ UNCHANGED <<linkVars, button, keyboard, matterVars, lapsed, settled, vouched, callFaults>>

(* A failing call: after the claim the error is caught and answered, and   *)
(* the button stays consumed, also when only the answer of the Assistant   *)
(* was lost or the next keyboard could not be created.  Before the claim   *)
(* it throws, and no later attempt calls processCallback again, nor does   *)
(* one after the worker dies: the job's operation was begun and is not     *)
(* repeated.                                                               *)
CallFails(p) ==
  /\ callFaults < MaxCallFaults
  /\ callFaults' = callFaults + 1
  /\ \/ /\ press[p].step \in {"act", "render"}
        /\ Terminal_(p, "failed")
     \/ /\ press[p].step \in {"find", "expire", "connection", "claim", "act", "render"}
        /\ Step(p, "dead")
  /\ UNCHANGED <<linkVars, button, keyboard, matterVars, lapsed, settled, vouched>>

CallbackNext ==
  \/ \E u \in Users : \/ CreateLinkToken(u) \/ LinkTokenExpires(u) \/ Revoke(u)
                      \/ \E t \in Identities : ConsumeLinkToken(u, t)
  \/ \E t \in Identities : StartNewConversation(t) \/ OfferButtons(t) \/ TalkOn(t)
  \/ FifteenMinutesLater \/ SettleOnTheWeb \/ DeleteTalk
  \/ \E p \in Presses : \/ \E t \in Identities, b \in Buttons : Press(p, t, b)
                        \/ FindToken(p) \/ ExpireToken(p) \/ CheckConnection(p)
                        \/ ClaimToken(p) \/ Act(p) \/ RenderApplicationResult(p)
                        \/ CallFails(p)

CallbackSpec == CallbackInit /\ [][CallbackNext]_callbackVars

-----------------------------------------------------------------------------
(* Properties *)

Replies == {"advanced", "incomplete", "done", "cancelled", "expired", "void", "gone", "conflict",
            "failed"}

CallbackTypeOK ==
  /\ code \in [Users -> {"none", "open"}]
  /\ DOMAIN conn = Users
  /\ button \in [Buttons -> {"none", "PENDING", "CONSUMED", "EXPIRED"}]
  /\ matter.status \in {"none", "open", "done", "cancelled", "expired", "void", "gone"}
  /\ settled \subseteq Buttons /\ vouched \subseteq Presses
  /\ {overdue, lapsed} \subseteq BOOLEAN
  /\ callFaults \in 0..MaxCallFaults

(* TellTheTruth: each button is claimed by one press at most and one       *)
(* button of the keyboard acts at most, however often they are pressed.    *)
(* What a sender is told of the question or draft is how it ended, and     *)
(* stays so, but for a draft that had expired when its cancellation was    *)
(* announced (DraftCancelledIsSo).  "Failed" means that the button did     *)
(* nothing, unless a call failed; and when "already handled" is said of a  *)
(* button while its question or draft is still open, the press that used   *)
(* it up is at work, was told that it failed, or died.                     *)
ClaimedBy(b) == {p \in Presses : /\ press[p] # NoPress /\ press[p].button = b
                                 /\ press[p].step \in {"act", "render"} \/ told[p] \in Replies}

ToldTruly(p) ==
  /\ told[p] \in {"advanced", "incomplete"} => press[p].button \in settled
  /\ told[p] \in {"done", "void", "expired"} => matter.status \in {told[p], "gone"}
  /\ told[p] = "gone" => matter.status = "gone"
  /\ told[p] = "conflict" => matter.status \notin {"none", "open"}
  /\ told[p] = "cancelled" =>
       \/ matter.status \in {"cancelled", "gone"}
       \/ matter.status = "expired" /\ matter.kind = "draft" /\ overdue
  /\ told[p] = "failed" /\ callFaults = 0 => press[p].button \notin settled
  /\ told[p] = "CONSUMED" /\ matter.status = "open" =>
       \E q \in Presses : /\ press[q] # NoPress /\ press[q].button = press[p].button
                          /\ press[q].step \in {"act", "render", "dead"} \/ told[q] = "failed"

TellTheTruth ==
  /\ \A b \in Buttons : Cardinality(ClaimedBy(b)) <= 1
  /\ Cardinality(settled) <= 1
  /\ \A p \in Presses : ToldTruly(p)

(* ActForTheirUser: a button acts only for the account that was linked to  *)
(* the keyboard's owner, in the conversation it was shown in, when the     *)
(* press was checked; and no account is ever linked to two users, however  *)
(* codes are created, used and revoked.                                    *)
ActForTheirUser ==
  /\ \A b \in settled : \E p \in vouched : press[p].button = b
  /\ \A p \in Presses : told[p] \in Replies => p \in vouched
  /\ \A t \in Identities : Cardinality(UserOf(t)) <= 1

(* ButtonsTellTheTruth: a pressed button acts once, for the one it was     *)
(* shown to, and its sender is told what became of the question or draft.  *)
ButtonsTellTheTruth == TellTheTruth /\ ActForTheirUser

(* DraftCancelledIsSo, which is not: whoever is told "Draft cancelled."    *)
(* has a cancelled draft (interaction.service.ts:260).  "Expiration is     *)
(* enforced on confirmation/cancellation" (docs/api/                       *)
(* assistant-conversations.md:117): the draft is EXPIRED, and nobody is    *)
(* told.                                                                   *)
DraftCancelledIsSo ==
  \A p \in Presses : told[p] = "cancelled" => matter.status \in {"cancelled", "gone"}
=============================================================================
