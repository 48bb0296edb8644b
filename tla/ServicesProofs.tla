--------------------------- MODULE ServicesProofs ---------------------------
(***************************************************************************)
(* Proofs about the services around the ledger: the buttons under a reply  *)
(* and the links they are pressed through, the rows edited by what a       *)
(* request had read of them, the payments that fall due, the repairs of    *)
(* balances, the calendar and terms payments are planned by, and the       *)
(* reports over the same rows.  Each part has an invariant of its own and  *)
(* what it gives.                                                          *)
(***************************************************************************)
EXTENDS Services, SumTheorems, SequenceTheorems

-----------------------------------------------------------------------------
(***************************************************************************)
(* Buttons and links: CallbackSpec                                         *)
(***************************************************************************)

Connection == [status : {"ACTIVE", "REVOKED"}, who : Identities, talk : Talks]
Keyboard == [status : {"shown"}, user : Users]
PressSteps == {"find", "expire", "connection", "claim", "act", "render", "done", "dead"}
PressRow == [step : PressSteps, who : Identities, button : Buttons, reply : Replies \cup {"none"}]
Answers == {"none", "PENDING", "CONSUMED", "EXPIRED", "connection_revoked", "restart_required", "stale"}
             \cup Replies
ButtonStatus == {"none", "PENDING", "CONSUMED", "EXPIRED"}
Endings == {"done", "cancelled", "expired", "void", "gone"}
Matter == [kind : {"question", "draft"}, status : {"open"} \cup Endings]

CallbackTypes ==
  /\ code \in [Users -> {"none", "open"}]
  /\ conn \in [Users -> Connection \cup {Unlinked}]
  /\ button \in [Buttons -> ButtonStatus]
  /\ keyboard \in Keyboard \cup {NoKeyboard}
  /\ matter \in Matter \cup {NoMatter}
  /\ overdue \in BOOLEAN /\ lapsed \in BOOLEAN
  /\ settled \subseteq Buttons /\ vouched \subseteq Presses
  /\ press \in [Presses -> PressRow \cup {NoPress}]
  /\ told \in [Presses -> Answers]
  /\ callFaults \in 0..MaxCallFaults

Claims(p) == press[p].step \in {"act", "render"} \/ told[p] \in Replies

(* What is told of the question or draft, or will be. *)
Said(p) == IF press[p].step = "render" THEN press[p].reply ELSE told[p]

SaidTruly(p) ==
  /\ Said(p) \in {"advanced", "incomplete"} => press[p].button \in settled
  /\ Said(p) \in {"done", "void", "expired"} => matter.status \in {Said(p), "gone"}
  /\ Said(p) = "gone" => matter.status = "gone"
  /\ Said(p) = "conflict" => matter.status \in Endings
  /\ Said(p) = "cancelled" =>
       \/ matter.status \in {"cancelled", "gone"}
       \/ matter.status = "expired" /\ matter.kind = "draft" /\ overdue
  /\ Said(p) = "failed" /\ callFaults = 0 => press[p].button \notin settled

(* Where a press stands: what it is about and what it may rely on. *)
PressStands(p) ==
  /\ press[p].step # "done" => told[p] = "none"
  /\ press[p] = NoPress => p \notin vouched
  /\ press[p] # NoPress => keyboard # NoKeyboard
  /\ Claims(p) => button[press[p].button] = "CONSUMED" /\ p \in vouched
  /\ press[p].step = "claim" => p \in vouched
  /\ press[p].step = "render" => press[p].reply \in Replies
  /\ told[p] = "CONSUMED" => button[press[p].button] = "CONSUMED"
  /\ SaidTruly(p)

OneClaim == \A p, q \in Presses :
              Claims(p) /\ Claims(q) /\ press[p].button = press[q].button => p = q

(* While the question or draft is open, the press that used a button up is *)
(* at work, failed or died.                                                *)
AtWork(q, b) ==
  /\ press[q] # NoPress /\ press[q].button = b
  /\ press[q].step \in {"act", "render", "dead"} \/ told[q] = "failed"
UsedUp == matter.status = "open" =>
            \A b \in Buttons : button[b] = "CONSUMED" => \E q \in Presses : AtWork(q, b)

(* At most one button acted, and only when the question or draft ended. *)
OneActs == /\ \A b, c \in settled : b = c
           /\ matter.status \in {"none", "open"} => settled = {}

SettledIsVouched == \A b \in settled : \E p \in vouched : press[p].button = b

OneUser == \A u, v \in Users : Linked(u) /\ Linked(v) /\ conn[u].who = conn[v].who => u = v

Asked == /\ matter = NoMatter <=> keyboard = NoKeyboard
         /\ keyboard # NoKeyboard => Linked(keyboard.user)

CallbackInv ==
  /\ CallbackTypes /\ (\A p \in Presses : PressStands(p))
  /\ OneClaim /\ UsedUp /\ OneActs /\ SettledIsVouched /\ OneUser /\ Asked

LEMMA CallbackInvInit == CallbackInit => CallbackInv
<1> SUFFICES ASSUME CallbackInit PROVE CallbackInv
  OBVIOUS
<1>1. CallbackTypes
  <2>1. callFaults \in 0..MaxCallFaults
    BY CallbackAssumption DEF CallbackInit
  <2>2. QED
    BY <2>1 DEF CallbackInit, CallbackTypes, ButtonStatus, Answers
<1>2. \A p \in Presses : PressStands(p) /\ ~Claims(p)
  BY DEF CallbackInit, PressStands, Claims, NoPress, Replies, SaidTruly, Said
<1>3. OneClaim /\ UsedUp /\ OneActs /\ SettledIsVouched
  BY <1>2 DEF CallbackInit, OneClaim, UsedUp, OneActs, SettledIsVouched, NoMatter
<1>4. OneUser /\ Asked
  BY DEF CallbackInit, OneUser, Linked, Unlinked, Asked
<1>5. QED
  BY <1>1, <1>2, <1>3, <1>4 DEF CallbackInv

-----------------------------------------------------------------------------
(* Presses *)

(* Nothing a press relies on is taken back, and a question or draft that   *)
(* has ended does not open again.                                          *)
CallbacksGrow ==
  /\ keyboard' = keyboard
  /\ \A b \in Buttons : button[b] = "CONSUMED" => button'[b] = "CONSUMED"
  /\ settled \subseteq settled' /\ vouched \subseteq vouched'
  /\ matter' \in Matter \cup {NoMatter} /\ matter'.kind = matter.kind
  /\ matter.status \in Endings => matter'.status \in {matter.status, "gone"}
  /\ overdue => overdue'
  /\ callFaults' = 0 => callFaults = 0

LEMMA OtherPress ==
  ASSUME CallbackInv, NEW q \in Presses, press'[q] = press[q], told'[q] = told[q], CallbacksGrow,
         q \in vouched' => q \in vouched,
         Said(q) = "failed" /\ press[q].button \in settled' => press[q].button \in settled
  PROVE  PressStands(q)' /\ (Claims(q)' <=> Claims(q)) /\ (\A b : AtWork(q, b)' <=> AtWork(q, b))
<1>1. PressStands(q)
  BY DEF CallbackInv
<1>2. (Claims(q)' <=> Claims(q)) /\ (\A b : AtWork(q, b)' <=> AtWork(q, b)) /\ Said(q)' = Said(q)
  BY DEF Claims, AtWork, Said
<1>3. press[q] \in PressRow \cup {NoPress}
  BY DEF CallbackInv, CallbackTypes
<1>4. CASE press[q] = NoPress
  <2>1. told[q] = "none" /\ ~Claims(q) /\ Said(q) = "none"
    BY <1>1, <1>4 DEF PressStands, Claims, NoPress, Replies, Said
  <2>2. SaidTruly(q)'
    BY <1>2, <2>1 DEF SaidTruly
  <2>3. QED
    BY <1>1, <1>2, <1>4, <2>1, <2>2 DEF PressStands, NoPress, CallbacksGrow
<1>5. CASE press[q] # NoPress
  <2>1. press[q].button \in Buttons
    BY <1>3, <1>5 DEF PressRow
  <2>2. SaidTruly(q)'
    <3>1. SaidTruly(q) /\ press'[q].button = press[q].button
      BY <1>1 DEF PressStands
    <3>2. Said(q) \in {"done", "void", "expired"} => matter'.status \in {Said(q), "gone"}
      BY <3>1 DEF SaidTruly, CallbacksGrow, Endings
    <3>3. Said(q) = "gone" => matter'.status = "gone"
      BY <3>1 DEF SaidTruly, CallbacksGrow, Endings
    <3>4. Said(q) = "conflict" => matter'.status \in Endings
      BY <3>1 DEF SaidTruly, CallbacksGrow, Endings
    <3>5. Said(q) = "cancelled" =>
            \/ matter'.status \in {"cancelled", "gone"}
            \/ matter'.status = "expired" /\ matter'.kind = "draft" /\ overdue'
      BY <3>1 DEF SaidTruly, CallbacksGrow, Endings
    <3>6. Said(q) \in {"advanced", "incomplete"} => press'[q].button \in settled'
      BY <3>1 DEF SaidTruly, CallbacksGrow
    <3>7. Said(q) = "failed" /\ callFaults' = 0 => press'[q].button \notin settled'
      BY <3>1 DEF SaidTruly, CallbacksGrow
    <3>8. QED
      BY <1>2, <3>2, <3>3, <3>4, <3>5, <3>6, <3>7 DEF SaidTruly
  <2>3. QED
    BY <1>1, <1>2, <1>5, <2>1, <2>2 DEF PressStands, CallbacksGrow
<1>6. QED
  BY <1>4, <1>5

Moves(p) ==
  /\ press' \in [Presses -> PressRow \cup {NoPress}] /\ told' \in [Presses -> Answers]
  /\ press'[p] # NoPress /\ press'[p].button = press[p].button
  /\ \A q \in Presses \ {p} : press'[q] = press[q] /\ told'[q] = told[q]

LEMMA StepMoves ==
  ASSUME CallbackTypes, NEW p \in Presses, press[p] # NoPress, NEW s \in PressSteps, Step(p, s)
  PROVE  /\ Moves(p) /\ told'[p] = told[p]
         /\ press'[p].step = s /\ press'[p].reply = press[p].reply
<1>1. press[p] \in PressRow
  BY DEF CallbackTypes
<1> DEFINE row == [press[p] EXCEPT !.step = s]
<1>2. /\ press' = [press EXCEPT ![p] = row] /\ row \in PressRow /\ row.step = s
      /\ row.reply = press[p].reply /\ row.button = press[p].button
  BY <1>1 DEF Step, PressRow
<1> HIDE DEF row
<1>3. row # NoPress
  BY <1>2 DEF PressSteps, NoPress
<1>4. QED
  BY <1>2, <1>3 DEF Moves, Step, CallbackTypes

LEMMA TellMoves ==
  ASSUME CallbackTypes, NEW p \in Presses, press[p] # NoPress, NEW a \in Answers, Terminal_(p, a)
  PROVE  Moves(p) /\ told'[p] = a /\ press'[p].step = "done"
<1>1. press[p] \in PressRow
  BY DEF CallbackTypes
<1> DEFINE row == [press[p] EXCEPT !.step = "done"]
<1>2. /\ press' = [press EXCEPT ![p] = row] /\ row \in PressRow /\ row.step = "done"
      /\ row.button = press[p].button
  BY <1>1 DEF Terminal_, PressRow, PressSteps
<1> HIDE DEF row
<1>3. row # NoPress
  BY <1>2 DEF NoPress
<1>4. QED
  BY <1>2, <1>3 DEF Moves, Terminal_, CallbackTypes

(* One press moves on. *)
LEMMA PressMoves ==
  ASSUME CallbackInv, NEW p \in Presses, press[p] # NoPress, press[p].step \notin {"done", "dead"},
         Moves(p), CallbacksGrow, PressStands(p)', OneActs',
         UNCHANGED <<code, conn, lapsed, overdue>>,
         button' \in [Buttons -> ButtonStatus], callFaults' \in 0..MaxCallFaults,
         vouched' \subseteq vouched \cup {p},
         Claims(p)' => Claims(p) \/ button[press[p].button] # "CONSUMED",
         settled' = settled \/ (settled' = settled \cup {press[p].button} /\ Claims(p)),
         \A b \in Buttons \ {press[p].button} : button'[b] = "CONSUMED" => button[b] = "CONSUMED",
         /\ matter'.status = "open" => matter.status = "open"
         /\ \/ matter'.status # "open"
            \/ press[p].step \notin {"act", "render"}
               /\ (button'[press[p].button] = "CONSUMED" => button[press[p].button] = "CONSUMED")
            \/ press'[p].step \in {"act", "render", "dead"} \/ told'[p] = "failed"
  PROVE  CallbackInv'
<1>1. press[p] \in PressRow /\ press[p].button \in Buttons /\ told[p] = "none"
  BY DEF CallbackInv, CallbackTypes, PressRow, PressStands
<1>2. CallbackTypes'
  <2>1. settled' \subseteq Buttons /\ vouched' \subseteq Presses
    BY <1>1 DEF CallbackInv, CallbackTypes
  <2>2. QED
    BY <2>1 DEF CallbackInv, CallbackTypes, CallbacksGrow, Moves
<1>3. ASSUME NEW q \in Presses \ {p}
      PROVE  /\ press'[q] = press[q] /\ PressStands(q)' /\ (Claims(q)' <=> Claims(q))
             /\ \A b : AtWork(q, b)' <=> AtWork(q, b)
  <2>1. press'[q] = press[q] /\ told'[q] = told[q]
    BY DEF Moves
  <2>2. ASSUME Said(q) = "failed", press[q].button \in settled', press[q].button \notin settled
        PROVE  FALSE
    <3>1. press[q].button = press[p].button /\ Claims(p)
      BY <2>2
    <3>2. Claims(q)
      BY <2>2 DEF Said, Claims, Replies
    <3>3. QED
      BY <3>1, <3>2 DEF CallbackInv, OneClaim
  <2>3. QED
    BY <2>1, <2>2, OtherPress
<1>4. OneClaim'
  <2>1. ASSUME NEW q \in Presses \ {p}, Claims(p)', Claims(q)', press'[p].button = press'[q].button
        PROVE  FALSE
    <3>1. Claims(q) /\ press[q].button = press[p].button
      BY <1>3, <2>1 DEF Moves
    <3>2. button[press[q].button] = "CONSUMED"
      BY <3>1 DEF CallbackInv, PressStands
    <3>3. QED
      BY <2>1, <3>1, <3>2 DEF CallbackInv, OneClaim
  <2>2. ASSUME NEW q \in Presses \ {p}, NEW r \in Presses \ {p}, Claims(r)', Claims(q)',
               press'[r].button = press'[q].button
        PROVE  r = q
    BY <1>3, <2>2 DEF CallbackInv, OneClaim
  <2>3. QED
    BY <2>1, <2>2 DEF OneClaim
<1>5. UsedUp'
  <2>1. SUFFICES ASSUME matter'.status = "open", NEW b \in Buttons, button'[b] = "CONSUMED"
                 PROVE  \E q \in Presses : AtWork(q, b)'
    BY DEF UsedUp
  <2>2. CASE b = press[p].button /\ (press[p].step \in {"act", "render"} \/ button[b] # "CONSUMED")
    <3>1. AtWork(p, b)'
      BY <2>1, <2>2 DEF AtWork, Moves
    <3>2. QED
      BY <3>1
  <2>3. CASE ~(b = press[p].button /\ (press[p].step \in {"act", "render"} \/ button[b] # "CONSUMED"))
    <3>1. button[b] = "CONSUMED"
      BY <2>1, <2>3
    <3>2. PICK q \in Presses : AtWork(q, b)
      BY <2>1, <3>1 DEF CallbackInv, UsedUp
    <3>3. q # p
      BY <1>1, <2>3, <3>1, <3>2 DEF AtWork
    <3>4. QED
      BY <1>3, <3>2, <3>3
  <2>4. QED
    BY <2>2, <2>3
<1>6. SettledIsVouched'
  <2>1. SUFFICES ASSUME NEW b \in settled' PROVE \E q \in vouched' : press'[q].button = b
    BY DEF SettledIsVouched
  <2>2. ASSUME NEW q \in Presses PROVE press'[q].button = press[q].button
    BY <1>3 DEF Moves
  <2>3. CASE b \in settled
    <3>1. PICK q \in vouched : press[q].button = b
      BY <2>3 DEF CallbackInv, SettledIsVouched
    <3>2. q \in vouched' /\ q \in Presses
      BY <3>1 DEF CallbackInv, CallbackTypes, CallbacksGrow
    <3>3. QED
      BY <2>2, <3>1, <3>2
  <2>4. CASE b \notin settled
    <3>1. b = press[p].button /\ Claims(p)
      BY <2>4
    <3>2. p \in vouched'
      BY <3>1 DEF CallbackInv, PressStands, CallbacksGrow
    <3>3. QED
      BY <2>2, <3>1, <3>2
  <2>5. QED
    BY <2>3, <2>4
<1>7. OneUser' /\ Asked'
  <2>1. OneUser'
    BY DEF CallbackInv, OneUser, Linked
  <2>2. matter' = NoMatter <=> matter = NoMatter
    <3>1. matter # NoMatter => matter.kind # "none"
      BY DEF CallbackInv, CallbackTypes, Matter
    <3>2. matter' # NoMatter => matter'.kind # "none"
      BY DEF CallbacksGrow, Matter
    <3>3. QED
      BY <3>1, <3>2 DEF CallbacksGrow, NoMatter
  <2>3. QED
    BY <2>1, <2>2 DEF CallbackInv, Asked, Linked, CallbacksGrow
<1>8. QED
  BY <1>2, <1>3, <1>4, <1>5, <1>6, <1>7 DEF CallbackInv

(* What a press has done so far, at each of its steps. *)
LEMMA Underway ==
  ASSUME CallbackInv, NEW p \in Presses, press[p].step \in PressSteps \ {"done"}
  PROVE  /\ press[p] # NoPress /\ press[p] \in PressRow /\ press[p].button \in Buttons
         /\ told[p] = "none" /\ PressStands(p)
         /\ CallbackTypes
<1>1. press[p] # NoPress
  BY DEF NoPress, PressSteps
<1>2. QED
  BY <1>1 DEF CallbackInv, CallbackTypes, PressRow, PressStands

(* Steps that neither act nor change what is behind the buttons. *)
LEMMA QuietlyGrow ==
  ASSUME CallbackInv, UNCHANGED <<keyboard, settled, matter, overdue, callFaults>>,
         vouched \subseteq vouched',
         \A b \in Buttons : button[b] = "CONSUMED" => button'[b] = "CONSUMED"
  PROVE  CallbacksGrow /\ OneActs'
<1>1. matter' \in Matter \cup {NoMatter}
  BY DEF CallbackInv, CallbackTypes
<1>2. QED
  BY <1>1 DEF CallbacksGrow, CallbackInv, OneActs, Endings

LEMMA FindKept ==
  ASSUME CallbackInv, NEW p \in Presses, FindToken(p) PROVE CallbackInv'
<1>1. press[p].step = "find" /\ press[p].step \in PressSteps \ {"done"}
  BY DEF FindToken, PressSteps
<1>2. /\ press[p] # NoPress /\ press[p].button \in Buttons /\ told[p] = "none" /\ PressStands(p)
      /\ CallbackTypes
  BY <1>1, Underway
<1>3. UNCHANGED <<code, conn, button, keyboard, matter, overdue, lapsed, settled, vouched, callFaults>>
  BY DEF FindToken, linkVars, matterVars
<1>4. ~Claims(p)
  BY <1>1, <1>2 DEF Claims, Replies
<1>5. /\ Moves(p)
      /\ \/ press'[p].step = "done" /\ told'[p] = button[press[p].button]
         \/ press'[p].step \in {"expire", "connection"} /\ told'[p] = "none"
  <2>1. CASE button[press[p].button] # "PENDING"
    <3>1. Terminal_(p, button[press[p].button]) /\ button[press[p].button] \in Answers
      BY <1>2, <2>1 DEF FindToken, CallbackTypes, ButtonStatus, Answers
    <3>2. QED
      BY <1>2, <3>1, TellMoves
  <2>2. CASE button[press[p].button] = "PENDING"
    <3>1. PICK s \in {"expire", "connection"} : Step(p, s)
      BY <2>2 DEF FindToken, CallbackInv, CallbackTypes
    <3>2. s \in PressSteps
      BY DEF PressSteps
    <3>3. QED
      BY <1>2, <3>1, <3>2, StepMoves
  <2>3. QED
    BY <2>1, <2>2
<1>6. told'[p] \in ButtonStatus
  BY <1>2, <1>5 DEF CallbackTypes, ButtonStatus
<1>7. ~Claims(p)' /\ PressStands(p)'
  <2>1. told'[p] \notin Replies /\ press'[p].step \notin {"act", "render", "claim"}
    BY <1>5, <1>6 DEF ButtonStatus, Replies
  <2>2. SaidTruly(p)'
    BY <2>1 DEF SaidTruly, Said, Replies
  <2>3. press'[p] # NoPress /\ keyboard' # NoKeyboard
    BY <1>2, <1>3, <1>5 DEF PressStands, Moves
  <2>4. QED
    BY <1>2, <1>3, <1>5, <2>1, <2>2, <2>3 DEF PressStands, Claims, Moves
<1>8. CallbacksGrow /\ OneActs'
  BY <1>3, QuietlyGrow
<1>9. /\ button' \in [Buttons -> ButtonStatus] /\ callFaults' \in 0..MaxCallFaults
      /\ UNCHANGED <<code, conn, lapsed, overdue>> /\ settled' = settled
      /\ matter'.status = "open" => matter.status = "open"
      /\ vouched' \subseteq vouched \cup {p}
      /\ \A b \in Buttons \ {press[p].button} : button'[b] = "CONSUMED" => button[b] = "CONSUMED"
  BY <1>2, <1>3 DEF CallbackTypes
<1>10. press[p].step \notin {"done", "dead", "act", "render"}
  BY <1>1
<1>11. QED
  BY <1>2, <1>3, <1>4, <1>5, <1>7, <1>8, <1>9, <1>10, PressMoves

LEMMA ExpireKept ==
  ASSUME CallbackInv, NEW p \in Presses, ExpireToken(p) PROVE CallbackInv'
<1>1. press[p].step = "expire" /\ press[p].step \in PressSteps \ {"done"}
  BY DEF ExpireToken, PressSteps
<1>2. /\ press[p] # NoPress /\ press[p].button \in Buttons /\ told[p] = "none" /\ PressStands(p)
      /\ CallbackTypes
  BY <1>1, Underway
<1>3. UNCHANGED <<code, conn, keyboard, matter, overdue, lapsed, settled, vouched, callFaults>>
  BY DEF ExpireToken, linkVars, matterVars
<1>4. /\ button' \in [Buttons -> ButtonStatus]
      /\ \A b \in Buttons : button'[b] = "CONSUMED" <=> button[b] = "CONSUMED"
  BY <1>2 DEF ExpireToken, CallbackTypes, ButtonStatus
<1>5. Moves(p) /\ press'[p].step = "done" /\ told'[p] = "EXPIRED"
  BY <1>2, TellMoves DEF ExpireToken, Answers
<1>6. ~Claims(p) /\ ~Claims(p)' /\ PressStands(p)'
  <2>1. told'[p] \notin Replies /\ SaidTruly(p)'
    BY <1>5 DEF SaidTruly, Said, Replies
  <2>2. QED
    BY <1>1, <1>2, <1>3, <1>5, <2>1 DEF PressStands, Claims, Moves, Replies
<1>7. CallbacksGrow /\ OneActs'
  BY <1>3, <1>4, QuietlyGrow
<1>8. /\ button' \in [Buttons -> ButtonStatus] /\ callFaults' \in 0..MaxCallFaults
      /\ UNCHANGED <<code, conn, lapsed, overdue>> /\ settled' = settled
      /\ matter'.status = "open" => matter.status = "open"
      /\ vouched' \subseteq vouched \cup {p}
      /\ \A b \in Buttons \ {press[p].button} : button'[b] = "CONSUMED" => button[b] = "CONSUMED"
  BY <1>2, <1>3, <1>4 DEF CallbackTypes
<1>9. press[p].step \notin {"done", "dead", "act", "render"}
  BY <1>1
<1>10. Claims(p)' => Claims(p) \/ button[press[p].button] # "CONSUMED"
  BY <1>6
<1>11. press[p].step \notin {"act", "render"}
       /\ (button'[press[p].button] = "CONSUMED" => button[press[p].button] = "CONSUMED")
  BY <1>2, <1>4, <1>9
<1>12. QED
  BY <1>2, <1>5, <1>6, <1>7, <1>8, <1>9, <1>10, <1>11, PressMoves

LEMMA ConnectionKept ==
  ASSUME CallbackInv, NEW p \in Presses, CheckConnection(p) PROVE CallbackInv'
<1>1. press[p].step = "connection" /\ press[p].step \in PressSteps \ {"done"}
  BY DEF CheckConnection, PressSteps
<1>2. /\ press[p] # NoPress /\ press[p].button \in Buttons /\ told[p] = "none" /\ PressStands(p)
      /\ CallbackTypes
  BY <1>1, Underway
<1>3. /\ UNCHANGED <<code, conn, button, keyboard, matter, overdue, lapsed, settled, callFaults>>
      /\ vouched' \in {vouched, vouched \cup {p}}
  BY DEF CheckConnection, linkVars, matterVars
<1> DEFINE c == conn[keyboard.user]
           right == c.status = "ACTIVE" /\ c.who = press[p].who /\ c.talk = "its"
<1>4. /\ Moves(p)
      /\ \/ press'[p].step = "done" /\ told'[p] \in {"connection_revoked", "restart_required", "stale"}
         \/ press'[p].step = "claim" /\ told'[p] = "none" /\ p \in vouched'
  <2>1. CASE right
    <3>1. Step(p, "claim") /\ p \in vouched' /\ "claim" \in PressSteps
      BY <2>1 DEF CheckConnection, PressSteps
    <3>2. QED
      BY <1>2, <3>1, StepMoves
  <2>2. CASE ~right
    <3>1. PICK a \in {"connection_revoked", "restart_required", "stale"} : Terminal_(p, a)
      BY <2>2 DEF CheckConnection
    <3>2. a \in Answers
      BY DEF Answers
    <3>3. QED
      BY <1>2, <3>1, <3>2, TellMoves
  <2>3. QED
    BY <2>1, <2>2
<1>5. ~Claims(p) /\ ~Claims(p)' /\ PressStands(p)'
  <2>1. told'[p] \notin Replies /\ press'[p].step \notin {"act", "render"} /\ told'[p] # "CONSUMED"
    BY <1>4 DEF Replies
  <2>2. SaidTruly(p)'
    BY <2>1 DEF SaidTruly, Said, Replies
  <2>3. QED
    BY <1>1, <1>2, <1>3, <1>4, <2>1, <2>2 DEF PressStands, Claims, Moves, Replies
<1>6. CallbacksGrow /\ OneActs'
  BY <1>3, QuietlyGrow
<1>7. /\ button' \in [Buttons -> ButtonStatus] /\ callFaults' \in 0..MaxCallFaults
      /\ UNCHANGED <<code, conn, lapsed, overdue>> /\ settled' = settled
      /\ matter'.status = "open" => matter.status = "open"
      /\ vouched' \subseteq vouched \cup {p}
      /\ \A b \in Buttons \ {press[p].button} : button'[b] = "CONSUMED" => button[b] = "CONSUMED"
  BY <1>2, <1>3 DEF CallbackTypes
<1>8. press[p].step \notin {"done", "dead", "act", "render"}
  BY <1>1
<1>9. QED
  BY <1>2, <1>3, <1>4, <1>5, <1>6, <1>7, <1>8, PressMoves

LEMMA ClaimKept ==
  ASSUME CallbackInv, NEW p \in Presses, ClaimToken(p) PROVE CallbackInv'
<1>1. press[p].step = "claim" /\ press[p].step \in PressSteps \ {"done"}
  BY DEF ClaimToken, PressSteps
<1>2. /\ press[p] # NoPress /\ press[p].button \in Buttons /\ told[p] = "none" /\ PressStands(p)
      /\ CallbackTypes
  BY <1>1, Underway
<1>3. UNCHANGED <<code, conn, keyboard, matter, overdue, lapsed, settled, vouched, callFaults>>
  BY DEF ClaimToken, linkVars, matterVars
<1>4. p \in vouched /\ button[press[p].button] \in ButtonStatus /\ ~Claims(p)
  BY <1>1, <1>2 DEF PressStands, CallbackTypes, Claims, Replies
<1>5. CASE button[press[p].button] = "PENDING"
  <2>1. button' = [button EXCEPT ![press[p].button] = "CONSUMED"] /\ Step(p, "act")
    BY <1>5 DEF ClaimToken
  <2>2. /\ button' \in [Buttons -> ButtonStatus]
        /\ button'[press[p].button] = "CONSUMED"
        /\ \A b \in Buttons \ {press[p].button} : button'[b] = button[b]
    BY <1>2, <2>1 DEF CallbackTypes, ButtonStatus
  <2>3. Moves(p) /\ press'[p].step = "act" /\ told'[p] = "none"
    BY <1>2, <2>1, StepMoves DEF PressSteps
  <2>4. SaidTruly(p)'
    BY <2>3 DEF SaidTruly, Said
  <2>5. PressStands(p)'
    BY <1>2, <1>3, <1>4, <2>2, <2>3, <2>4 DEF Claims, PressStands, Moves
  <2>6. CallbacksGrow /\ OneActs'
    BY <1>3, <2>2, QuietlyGrow
  <2>7. /\ button' \in [Buttons -> ButtonStatus] /\ callFaults' \in 0..MaxCallFaults
        /\ UNCHANGED <<code, conn, lapsed, overdue>> /\ settled' = settled
        /\ matter'.status = "open" => matter.status = "open"
        /\ vouched' \subseteq vouched \cup {p}
        /\ \A b \in Buttons \ {press[p].button} : button'[b] = "CONSUMED" => button[b] = "CONSUMED"
    BY <1>2, <1>3, <2>2 DEF CallbackTypes
  <2>8. press[p].step \notin {"done", "dead"} /\ button[press[p].button] # "CONSUMED"
    BY <1>1, <1>5
  <2>9. QED
    BY <1>2, <1>3, <2>3, <2>5, <2>6, <2>7, <2>8, PressMoves
<1>6. CASE button[press[p].button] # "PENDING"
  <2>1. Terminal_(p, button[press[p].button]) /\ UNCHANGED button
    BY <1>6 DEF ClaimToken
  <2>2. button[press[p].button] \in Answers /\ button[press[p].button] \notin Replies
    BY <1>4 DEF ButtonStatus, Answers, Replies
  <2>3. Moves(p) /\ press'[p].step = "done" /\ told'[p] = button[press[p].button]
    BY <1>2, <2>1, <2>2, TellMoves
  <2>4. SaidTruly(p)'
    BY <2>2, <2>3 DEF SaidTruly, Said, Replies
  <2>5. ~Claims(p)' /\ PressStands(p)'
    BY <1>2, <1>3, <2>1, <2>2, <2>3, <2>4 DEF Claims, PressStands, Moves
  <2>6. CallbacksGrow /\ OneActs'
    BY <1>3, <2>1, QuietlyGrow
  <2>7. /\ button' \in [Buttons -> ButtonStatus] /\ callFaults' \in 0..MaxCallFaults
        /\ UNCHANGED <<code, conn, lapsed, overdue>> /\ settled' = settled
        /\ matter'.status = "open" => matter.status = "open"
        /\ vouched' \subseteq vouched \cup {p}
        /\ \A b \in Buttons \ {press[p].button} : button'[b] = "CONSUMED" => button[b] = "CONSUMED"
    BY <1>2, <1>3, <2>1 DEF CallbackTypes
  <2>8. press[p].step \notin {"done", "dead", "act", "render"}
    BY <1>1
  <2>9. QED
    BY <1>2, <1>3, <2>1, <2>3, <2>5, <2>6, <2>7, <2>8, PressMoves
<1>7. QED
  BY <1>5, <1>6

(* Whatever the Assistant answers, the press tells it. *)
LEMMA GoesKept ==
  ASSUME CallbackInv, NEW p \in Presses, press[p].step = "act",
         NEW status \in {"open"} \cup Endings, NEW reply \in Replies, NEW acted \in BOOLEAN,
         Goes(p, status, reply, acted),
         matter.status # "open" => status = matter.status,
         acted => matter.status = "open" /\ status # "open" /\ reply # "failed",
         reply \in {"advanced", "incomplete"} => acted,
         reply \in {"done", "void", "expired", "gone"} => status = reply,
         reply = "conflict" => status \in Endings,
         reply = "cancelled" =>
           status = "cancelled" \/ (status = "expired" /\ matter.kind = "draft" /\ overdue),
         reply = "failed" => matter.status = "open",
         status = "open" => reply = "failed"
  PROVE  CallbackInv'
<1>1. press[p].step \in PressSteps \ {"done"}
  BY DEF PressSteps
<1>2. /\ press[p] # NoPress /\ press[p] \in PressRow /\ press[p].button \in Buttons
      /\ told[p] = "none" /\ PressStands(p) /\ CallbackTypes
  BY <1>1, Underway
<1>3. /\ UNCHANGED <<code, conn, button, keyboard, overdue, lapsed, told, vouched, callFaults>>
      /\ matter' = [matter EXCEPT !.status = status]
      /\ settled' = IF acted THEN settled \cup {press[p].button} ELSE settled
  BY DEF Goes, linkVars
<1>4. Claims(p) /\ button[press[p].button] = "CONSUMED" /\ p \in vouched
  BY <1>2 DEF Claims, PressStands
<1>5. matter \in Matter
  BY <1>2 DEF PressStands, CallbackInv, CallbackTypes, Asked
<1>6. matter' \in Matter /\ matter'.kind = matter.kind /\ matter'.status = status
  BY <1>3, <1>5 DEF Matter
<1>7. /\ Moves(p) /\ press'[p].step = "render" /\ press'[p].reply = reply /\ told'[p] = "none"
  <2> DEFINE row == [press[p] EXCEPT !.step = "render", !.reply = reply]
  <2>1. press' = [press EXCEPT ![p] = row]
    BY <1>2 DEF Goes, CallbackTypes
  <2>2. row \in PressRow /\ row.step = "render" /\ row.reply = reply /\ row.button = press[p].button
    BY <1>2 DEF PressRow, PressSteps
  <2> HIDE DEF row
  <2>3. row # NoPress
    BY <2>2 DEF NoPress
  <2>4. QED
    BY <1>2, <1>3, <2>1, <2>2, <2>3 DEF Moves, CallbackTypes
<1>8. OneActs' /\ (acted => settled = {})
  BY <1>3, <1>5, <1>6 DEF CallbackInv, OneActs, Matter, Endings
<1>9. CallbacksGrow
  BY <1>3, <1>6 DEF CallbacksGrow, Endings
<1>10. SaidTruly(p)'
  <2>1. Said(p)' = reply /\ press'[p].button = press[p].button
    BY <1>7 DEF Said, Moves
  <2>2. reply = "failed" => press[p].button \notin settled'
    BY <1>3 DEF CallbackInv, OneActs
  <2>3. reply \in {"advanced", "incomplete"} => press[p].button \in settled'
    BY <1>3
  <2>4. QED
    BY <1>3, <1>6, <2>1, <2>2, <2>3 DEF SaidTruly
<1>11. PressStands(p)'
  BY <1>2, <1>3, <1>4, <1>7, <1>10 DEF PressStands, Moves
<1>12. settled' = settled \/ (settled' = settled \cup {press[p].button} /\ Claims(p))
  BY <1>3, <1>4
<1>13. matter'.status = "open" => matter.status = "open"
  BY <1>6
<1>14. UNCHANGED <<code, conn, lapsed, overdue>> /\ button' \in [Buttons -> ButtonStatus]
       /\ callFaults' \in 0..MaxCallFaults /\ vouched' \subseteq vouched \cup {p}
       /\ \A b \in Buttons \ {press[p].button} : button'[b] = "CONSUMED" => button[b] = "CONSUMED"
  BY <1>2, <1>3 DEF CallbackTypes
<1>15. press[p].step \notin {"done", "dead"} /\ press'[p].step \in {"act", "render", "dead"}
  BY <1>7
<1>16. QED
  BY <1>2, <1>4, <1>7, <1>8, <1>9, <1>11, <1>12, <1>13, <1>14, <1>15, PressMoves

LEMMA ActKept ==
  ASSUME CallbackInv, NEW p \in Presses, Act(p) PROVE CallbackInv'
<1>1. press[p].step = "act" /\ press[p].step \in PressSteps \ {"done"}
  BY DEF Act, PressSteps
<1>2. matter \in Matter
  BY <1>1, Underway DEF PressStands, CallbackInv, CallbackTypes, Asked
<1> USE DEF Replies, Endings
<1>3. CASE Select(p)
  <2>1. InTime
    BY <1>3 DEF Select
  <2>2. CASE Goes(p, "done", "advanced", TRUE)
    BY <1>1, <2>1, <2>2, GoesKept DEF InTime
  <2>3. CASE Goes(p, "done", "incomplete", TRUE)
    BY <1>1, <2>1, <2>3, GoesKept DEF InTime
  <2>4. CASE Goes(p, "void", "void", FALSE)
    BY <1>1, <2>1, <2>4, GoesKept DEF InTime
  <2>5. QED
    BY <1>3, <2>2, <2>3, <2>4 DEF Select
<1>4. CASE Confirm(p)
  <2>1. InTime
    BY <1>4 DEF Confirm
  <2>2. CASE Goes(p, "done", "done", TRUE)
    BY <1>1, <2>1, <2>2, GoesKept DEF InTime
  <2>3. CASE Goes(p, "void", "failed", FALSE)
    BY <1>1, <2>1, <2>3, GoesKept DEF InTime
  <2>4. QED
    BY <1>4, <2>2, <2>3 DEF Confirm
<1>5. CASE Cancel(p)
  <2>1. matter.status = "open" /\ Goes(p, "cancelled", "cancelled", TRUE)
    BY <1>5 DEF Cancel, InTime
  <2>2. QED
    BY <1>1, <2>1, GoesKept
<1>6. CASE Refuse(p)
  BY <1>1, <1>6, GoesKept DEF Refuse
<1>7. CASE FindOverdue(p)
  <2>1. CASE matter.kind = "draft" /\ Cancelling(p)
    <3>1. Goes(p, "expired", "cancelled", FALSE) /\ overdue /\ matter.status = "open"
      BY <1>7, <2>1 DEF FindOverdue
    <3>2. QED
      BY <1>1, <2>1, <3>1, GoesKept
  <2>2. CASE ~(matter.kind = "draft" /\ Cancelling(p))
    <3>1. Goes(p, "expired", "expired", FALSE) /\ matter.status = "open"
      BY <1>7, <2>2 DEF FindOverdue
    <3>2. QED
      BY <1>1, <3>1, GoesKept
  <2>3. QED
    BY <2>1, <2>2
<1>8. CASE FindSettled(p)
  <2> DEFINE silent == /\ matter.kind = "draft"
                       /\ matter.status \in {"done", "cancelled", "void"}
                                               \ {IF Cancelling(p) THEN "cancelled" ELSE "done"}
  <2>1. /\ matter.status \in Endings
        /\ Goes(p, matter.status, IF silent THEN "conflict" ELSE matter.status, FALSE)
    BY <1>2, <1>8 DEF FindSettled, Matter
  <2> HIDE DEF silent
  <2>2. CASE silent
    <3>1. Goes(p, matter.status, "conflict", FALSE)
      BY <2>1, <2>2
    <3>2. QED
      BY <1>1, <2>1, <3>1, GoesKept
  <2>3. CASE ~silent
    <3>1. PICK end \in Endings : end = matter.status /\ Goes(p, end, end, FALSE)
      BY <2>1, <2>3
    <3>2. /\ end \in {"open"} \cup Endings /\ end \in Replies /\ matter.status # "open"
          /\ end \notin {"advanced", "incomplete", "conflict", "failed", "open"}
      BY <3>1
    <3>3. QED
      BY <1>1, <3>1, <3>2, GoesKept
  <2>4. QED
    BY <2>2, <2>3
<1>9. QED
  BY <1>3, <1>4, <1>5, <1>6, <1>7, <1>8 DEF Act

LEMMA RenderKept ==
  ASSUME CallbackInv, NEW p \in Presses, RenderApplicationResult(p) PROVE CallbackInv'
<1>1. press[p].step = "render" /\ press[p].step \in PressSteps \ {"done"}
  BY DEF RenderApplicationResult, PressSteps
<1>2. /\ press[p] # NoPress /\ press[p] \in PressRow /\ press[p].button \in Buttons
      /\ told[p] = "none" /\ PressStands(p) /\ CallbackTypes
  BY <1>1, Underway
<1>3. UNCHANGED <<code, conn, button, keyboard, matter, overdue, lapsed, settled, vouched, callFaults>>
  BY DEF RenderApplicationResult, linkVars, matterVars
<1>4. press[p].reply \in Replies /\ press[p].reply \in Answers
  BY <1>1, <1>2 DEF PressStands, Answers
<1>5. Moves(p) /\ press'[p].step = "done" /\ told'[p] = press[p].reply
  BY <1>2, <1>4, TellMoves DEF RenderApplicationResult
<1>6. Claims(p) /\ button[press[p].button] = "CONSUMED" /\ p \in vouched
  BY <1>1, <1>2 DEF Claims, PressStands
<1>7. SaidTruly(p)'
  <2>1. Said(p)' = Said(p) /\ press'[p].button = press[p].button
    BY <1>1, <1>5 DEF Said, Moves
  <2>2. SaidTruly(p)
    BY <1>2 DEF PressStands
  <2>3. QED
    BY <1>3, <2>1, <2>2 DEF SaidTruly
<1>8. PressStands(p)'
  BY <1>2, <1>3, <1>4, <1>5, <1>6, <1>7 DEF PressStands, Moves, Replies
<1>9. CallbacksGrow /\ OneActs'
  BY <1>3, QuietlyGrow
<1>10. matter.status = "open" => told'[p] = "failed"
  <2>1. Said(p) = press[p].reply /\ SaidTruly(p)
    BY <1>1, <1>2 DEF Said, PressStands
  <2>2. matter.status = "open" => settled = {}
    BY DEF CallbackInv, OneActs
  <2>3. QED
    BY <1>4, <1>5, <2>1, <2>2 DEF SaidTruly, Replies, Endings
<1>11. /\ button' \in [Buttons -> ButtonStatus] /\ callFaults' \in 0..MaxCallFaults
       /\ UNCHANGED <<code, conn, lapsed, overdue>> /\ settled' = settled
       /\ matter'.status = "open" => matter.status = "open"
       /\ vouched' \subseteq vouched \cup {p}
       /\ \A b \in Buttons \ {press[p].button} : button'[b] = "CONSUMED" => button[b] = "CONSUMED"
  BY <1>2, <1>3 DEF CallbackTypes
<1>12. press[p].step \notin {"done", "dead"} /\ matter' = matter
  BY <1>1, <1>3
<1>13. QED
  BY <1>2, <1>3, <1>5, <1>6, <1>8, <1>9, <1>10, <1>11, <1>12, PressMoves

LEMMA FaultKept ==
  ASSUME CallbackInv, NEW p \in Presses, CallFails(p) PROVE CallbackInv'
<1>1. /\ press[p].step \in PressSteps \ {"done"}
      /\ press[p].step \in {"find", "expire", "connection", "claim", "act", "render"}
  BY DEF CallFails, PressSteps
<1>2. /\ press[p] # NoPress /\ press[p] \in PressRow /\ press[p].button \in Buttons
      /\ told[p] = "none" /\ PressStands(p) /\ CallbackTypes
  BY <1>1, Underway
<1>3. /\ UNCHANGED <<code, conn, button, keyboard, matter, overdue, lapsed, settled, vouched>>
      /\ callFaults' \in 0..MaxCallFaults /\ callFaults' # 0
  BY <1>2, CallbackAssumption DEF CallFails, linkVars, matterVars, CallbackTypes
<1>4. /\ Moves(p)
      /\ \/ press'[p].step = "done" /\ told'[p] = "failed" /\ Claims(p)
         \/ press'[p].step = "dead" /\ told'[p] = "none"
  <2>1. CASE press[p].step \in {"act", "render"} /\ Terminal_(p, "failed")
    BY <1>2, <2>1, TellMoves DEF Answers, Replies, Claims
  <2>2. CASE Step(p, "dead")
    BY <1>2, <2>2, StepMoves DEF PressSteps
  <2>3. QED
    BY <2>1, <2>2 DEF CallFails
<1>5. SaidTruly(p)'
  <2>1. Said(p)' \in {"failed", "none"}
    BY <1>4 DEF Said
  <2>2. QED
    BY <1>3, <2>1 DEF SaidTruly
<1>6. PressStands(p)' /\ (Claims(p)' => Claims(p))
  BY <1>2, <1>3, <1>4, <1>5 DEF PressStands, Claims, Moves, Replies
<1>7. CallbacksGrow /\ OneActs'
  <2>1. matter' \in Matter \cup {NoMatter}
    BY <1>2, <1>3 DEF CallbackTypes
  <2>2. QED
    BY <1>3, <2>1 DEF CallbacksGrow, CallbackInv, OneActs, Endings
<1>8. press'[p].step = "dead" \/ told'[p] = "failed"
  BY <1>4
<1>9. /\ button' \in [Buttons -> ButtonStatus] /\ callFaults' \in 0..MaxCallFaults
      /\ UNCHANGED <<code, conn, lapsed, overdue>> /\ settled' = settled
      /\ matter'.status = "open" => matter.status = "open"
      /\ vouched' \subseteq vouched \cup {p}
      /\ \A b \in Buttons \ {press[p].button} : button'[b] = "CONSUMED" => button[b] = "CONSUMED"
  BY <1>2, <1>3 DEF CallbackTypes
<1>10. press[p].step \notin {"done", "dead"}
  BY <1>1
<1>11. QED
  BY <1>2, <1>3, <1>4, <1>6, <1>7, <1>8, <1>9, <1>10, PressMoves

(* The first step of a press. *)
LEMMA PressKept ==
  ASSUME CallbackInv, NEW p \in Presses, NEW t \in Identities, NEW b \in Buttons, Press(p, t, b)
  PROVE  CallbackInv'
<1> DEFINE row == [step |-> "find", who |-> t, button |-> b, reply |-> "none"]
<1>1. /\ press[p] = NoPress /\ keyboard # NoKeyboard /\ PressStands(p)
      /\ press' = [press EXCEPT ![p] = row]
      /\ UNCHANGED <<code, conn, button, keyboard, matter, overdue, lapsed, settled, told, vouched,
                     callFaults>>
  BY DEF Press, CallbackInv, linkVars, matterVars
<1>2. row \in PressRow /\ row # NoPress /\ row.step = "find" /\ row.button = b
  BY DEF PressRow, PressSteps, NoPress
<1> HIDE DEF row
<1>3. told[p] = "none" /\ p \notin vouched
  BY <1>1 DEF PressStands, NoPress
<1>4. /\ press'[p] = row /\ \A q \in Presses \ {p} : press'[q] = press[q]
      /\ press' \in [Presses -> PressRow \cup {NoPress}]
  BY <1>1, <1>2 DEF CallbackInv, CallbackTypes
<1>5. CallbacksGrow /\ OneActs'
  BY <1>1, QuietlyGrow
<1>6. ASSUME NEW q \in Presses \ {p}
      PROVE  PressStands(q)' /\ (Claims(q)' <=> Claims(q)) /\ (\A c : AtWork(q, c)' <=> AtWork(q, c))
  BY <1>1, <1>4, <1>5, OtherPress
<1>7. PressStands(p)' /\ ~Claims(p)'
  <2>1. SaidTruly(p)'
    BY <1>1, <1>2, <1>3, <1>4 DEF SaidTruly, Said
  <2>2. QED
    BY <1>1, <1>2, <1>3, <1>4, <2>1 DEF PressStands, Claims, Replies
<1>8. CallbackTypes'
  BY <1>1, <1>4 DEF CallbackInv, CallbackTypes
<1>9. OneClaim'
  BY <1>4, <1>6, <1>7 DEF CallbackInv, OneClaim
<1>10. UsedUp'
  <2>1. \A c : ~AtWork(p, c)
    BY <1>1 DEF AtWork
  <2>2. QED
    BY <1>1, <1>6, <2>1 DEF CallbackInv, UsedUp
<1>11. SettledIsVouched'
  BY <1>1, <1>3, <1>4 DEF CallbackInv, CallbackTypes, SettledIsVouched
<1>12. OneUser' /\ Asked'
  BY <1>1 DEF CallbackInv, OneUser, Linked, Asked
<1>13. QED
  BY <1>5, <1>6, <1>7, <1>8, <1>9, <1>10, <1>11, <1>12 DEF CallbackInv

-----------------------------------------------------------------------------
(* Linking *)

(* Connections, or time, or the question or draft change; buttons and      *)
(* presses stay as they are.                                               *)
LEMMA LinksKept ==
  ASSUME CallbackInv,
         UNCHANGED <<button, keyboard, settled, press, told, vouched, callFaults>>,
         lapsed' \in BOOLEAN, code' \in [Users -> {"none", "open"}],
         conn' \in [Users -> Connection \cup {Unlinked}],
         \A u \in Users : Linked(u)' <=> Linked(u) \/ conn'[u] # conn[u],
         OneUser', overdue' \in BOOLEAN, overdue => overdue',
         matter' \in Matter \cup {NoMatter}, matter'.kind = matter.kind,
         matter.status \in Endings => matter'.status \in {matter.status, "gone"},
         matter'.status = "open" => matter.status = "open"
  PROVE  CallbackInv'
<1>1. CallbacksGrow
  BY DEF CallbacksGrow
<1>2. \A q \in Presses :
        PressStands(q)' /\ (Claims(q)' <=> Claims(q)) /\ (\A b : AtWork(q, b)' <=> AtWork(q, b))
  BY <1>1, OtherPress
<1>3. matter' = NoMatter <=> matter = NoMatter
  <2>1. /\ matter # NoMatter => matter.kind # "none"
        /\ matter' # NoMatter => matter'.kind # "none"
    BY DEF CallbackInv, CallbackTypes, Matter
  <2>2. QED
    BY <2>1 DEF NoMatter
<1>4. matter'.status \in {"none", "open"} => matter.status \in {"none", "open"}
  BY <1>3 DEF CallbackInv, CallbackTypes, Matter, NoMatter, Endings
<1>5. OneClaim' /\ UsedUp' /\ OneActs' /\ SettledIsVouched'
  BY <1>2, <1>4 DEF CallbackInv, OneClaim, UsedUp, OneActs, SettledIsVouched
<1>6. Asked'
  <2>1. keyboard # NoKeyboard => keyboard.user \in Users
    BY DEF CallbackInv, CallbackTypes, Keyboard
  <2>2. QED
    BY <1>3, <2>1 DEF CallbackInv, Asked
<1>7. CallbackTypes'
  BY DEF CallbackInv, CallbackTypes
<1>8. QED
  BY <1>2, <1>5, <1>6, <1>7 DEF CallbackInv

LEMMA ActiveIsLinked ==
  ASSUME CallbackInv, NEW t, NEW u \in ActiveConnection(t)
  PROVE  u \in Users /\ conn[u] \in Connection /\ Linked(u) /\ conn[u].who = t
BY DEF ActiveConnection, UserOf, Linked, CallbackInv, CallbackTypes, Unlinked

(* A user's row changes, but not its account. *)
LEMMA SameAccount ==
  ASSUME CallbackInv, NEW u \in Users, conn[u] \in Connection, NEW c \in Connection,
         conn' = [conn EXCEPT ![u] = c], c.who = conn[u].who
  PROVE  /\ conn' \in [Users -> Connection \cup {Unlinked}] /\ OneUser'
         /\ \A v \in Users : Linked(v)' <=> Linked(v)
<1>1. conn'[u] = c /\ \A v \in Users \ {u} : conn'[v] = conn[v]
  BY DEF CallbackInv, CallbackTypes
<1>2. \A v \in Users : (Linked(v)' <=> Linked(v)) /\ (Linked(v) => conn'[v].who = conn[v].who)
  BY <1>1 DEF Linked, Connection
<1>3. QED
  BY <1>2 DEF CallbackInv, CallbackTypes, OneUser, Linked

LEMMA TalkKept ==
  ASSUME CallbackInv, NEW u \in Users, Linked(u), NEW talk \in Talks,
         conn' = [conn EXCEPT ![u].talk = talk]
  PROVE  /\ conn' \in [Users -> Connection \cup {Unlinked}] /\ OneUser'
         /\ \A v \in Users : Linked(v)' <=> Linked(v)
<1>1. conn[u] \in Connection
  BY DEF CallbackInv, CallbackTypes, Linked, Unlinked
<1> DEFINE c == [conn[u] EXCEPT !.talk = talk]
<1>2. conn' = [conn EXCEPT ![u] = c] /\ c \in Connection /\ c.who = conn[u].who
  BY <1>1 DEF Connection, CallbackInv, CallbackTypes
<1> HIDE DEF c
<1>3. QED
  BY <1>1, <1>2, SameAccount

LEMMA LinkStepsKept ==
  ASSUME CallbackInv,
         \/ \E u \in Users : \/ CreateLinkToken(u) \/ LinkTokenExpires(u) \/ Revoke(u)
                             \/ \E t \in Identities : ConsumeLinkToken(u, t)
         \/ \E t \in Identities : StartNewConversation(t) \/ TalkOn(t)
         \/ FifteenMinutesLater \/ SettleOnTheWeb \/ DeleteTalk
  PROVE  CallbackInv'
<1> DEFINE Still == /\ UNCHANGED <<button, keyboard, settled, press, told, vouched, callFaults>>
                    /\ lapsed' \in BOOLEAN /\ code' \in [Users -> {"none", "open"}]
           ConnsKept == /\ conn' \in [Users -> Connection \cup {Unlinked}] /\ OneUser'
                        /\ \A u \in Users : Linked(u)' <=> Linked(u) \/ conn'[u] # conn[u]
           MatterKept == UNCHANGED <<matter, overdue>>
<1>a. CallbackTypes
  BY DEF CallbackInv
<1>b. conn' = conn => ConnsKept
  BY <1>a DEF CallbackInv, CallbackTypes, OneUser, Linked
<1>c. ASSUME Still, ConnsKept, MatterKept PROVE CallbackInv'
  <2>1. matter' \in Matter \cup {NoMatter} /\ overdue' \in BOOLEAN
    BY <1>a, <1>c DEF CallbackTypes
  <2>2. QED
    BY <1>c, <2>1, LinksKept
<1>1. ASSUME NEW u \in Users, CreateLinkToken(u) \/ LinkTokenExpires(u) PROVE CallbackInv'
  <2>1. Still /\ MatterKept /\ conn' = conn
    BY <1>1, <1>a DEF CreateLinkToken, LinkTokenExpires, CallbackTypes, matterVars
  <2>2. QED
    BY <2>1, <1>b, <1>c
<1>2. ASSUME NEW u \in Users, Revoke(u) PROVE CallbackInv'
  <2>1. conn[u] \in Connection
    BY <1>2, <1>a DEF Revoke, Unlinked, Linked, CallbackTypes
  <2> DEFINE c == [conn[u] EXCEPT !.status = "REVOKED"]
  <2>2. conn' = [conn EXCEPT ![u] = c] /\ c \in Connection /\ c.who = conn[u].who
    BY <1>2, <2>1 DEF Revoke, Connection
  <2> HIDE DEF c
  <2>3. /\ conn' \in [Users -> Connection \cup {Unlinked}] /\ OneUser'
        /\ \A v \in Users : Linked(v)' <=> Linked(v)
    BY <2>1, <2>2, SameAccount
  <2>4. ConnsKept
    <3>1. \A v \in Users : conn'[v] # conn[v] => Linked(v)
      BY <1>2, <1>a, <2>2 DEF CallbackTypes, Revoke
    <3>2. QED
      BY <2>3, <3>1
  <2>5. Still /\ MatterKept
    BY <1>2, <1>a DEF Revoke, CallbackTypes, matterVars
  <2>6. QED
    BY <2>4, <2>5, <1>c
<1>3. ASSUME NEW u \in Users, NEW t \in Identities, ConsumeLinkToken(u, t) PROVE CallbackInv'
  <2> DEFINE n == IF Linked(u) THEN conn[u].talk ELSE "none"
             c == [status |-> "ACTIVE", who |-> t, talk |-> n]
  <2>1. n \in Talks
    BY <1>a DEF Linked, Unlinked, CallbackTypes, Connection, Talks
  <2>2. conn' = [conn EXCEPT ![u] = c]
    BY <1>3, <1>a DEF ConsumeLinkToken, CallbackTypes
  <2> HIDE DEF n
  <2>3. c \in Connection /\ c.who = t /\ c.status # "none"
    BY <2>1 DEF Connection
  <2> HIDE DEF c
  <2>4. conn'[u] = c /\ \A v \in Users \ {u} : conn'[v] = conn[v]
    BY <2>2, <1>a DEF CallbackTypes
  <2>5. \A v \in Users \ {u} : Linked(v) => conn[v].who # t
    BY <1>3 DEF ConsumeLinkToken, UserOf
  <2>6. OneUser'
    BY <2>3, <2>4, <2>5 DEF CallbackInv, OneUser, Linked
  <2>7. conn' \in [Users -> Connection \cup {Unlinked}]
    BY <2>2, <2>3, <1>a DEF CallbackTypes
  <2>8. \A v \in Users : Linked(v)' <=> Linked(v) \/ conn'[v] # conn[v]
    BY <2>3, <2>4 DEF Linked
  <2>9. Still /\ MatterKept
    BY <1>3, <1>a DEF ConsumeLinkToken, CallbackTypes, matterVars
  <2>10. QED
    BY <2>6, <2>7, <2>8, <2>9, <1>c
<1>4. ASSUME NEW t \in Identities, StartNewConversation(t) \/ TalkOn(t) PROVE CallbackInv'
  <2>1. PICK u \in ActiveConnection(t), talk \in Talks : conn' = [conn EXCEPT ![u].talk = talk]
    <3>1. "none" \in Talks /\ "another" \in Talks
      BY DEF Talks
    <3>2. QED
      BY <1>4, <3>1 DEF StartNewConversation, TalkOn
  <2>2. u \in Users /\ Linked(u)
    BY ActiveIsLinked
  <2>3. /\ conn' \in [Users -> Connection \cup {Unlinked}] /\ OneUser'
        /\ \A v \in Users : Linked(v)' <=> Linked(v)
    BY <2>1, <2>2, TalkKept
  <2>4. \A v \in Users : conn'[v] # conn[v] => Linked(v)
    BY <2>1, <2>2, <1>a DEF CallbackTypes
  <2>5. Still /\ MatterKept
    BY <1>4, <1>a DEF StartNewConversation, TalkOn, CallbackTypes, matterVars
  <2>6. QED
    BY <2>3, <2>4, <2>5, <1>c
<1>5. ASSUME FifteenMinutesLater PROVE CallbackInv'
  <2>1. Still /\ conn' = conn /\ matter' = matter /\ overdue' = TRUE
    BY <1>5, <1>a DEF FifteenMinutesLater, linkVars, CallbackTypes
  <2>2. matter' \in Matter \cup {NoMatter} /\ ConnsKept
    BY <1>a, <1>b, <2>1 DEF CallbackTypes
  <2>3. QED
    BY <2>1, <2>2, LinksKept
<1>6. ASSUME SettleOnTheWeb PROVE CallbackInv'
  <2>1. PICK status \in Endings : matter' = [matter EXCEPT !.status = status]
    BY <1>6 DEF SettleOnTheWeb, Endings
  <2>2. Still /\ conn' = conn /\ overdue' = overdue /\ matter.status = "open"
    BY <1>6, <1>a DEF SettleOnTheWeb, linkVars, CallbackTypes
  <2>3. matter' \in Matter \cup {NoMatter} /\ matter'.kind = matter.kind /\ overdue' \in BOOLEAN
    BY <1>a, <2>1, <2>2 DEF CallbackTypes, Matter, NoMatter
  <2>4. QED
    BY <1>b, <2>2, <2>3, LinksKept DEF Endings
<1>7. ASSUME DeleteTalk PROVE CallbackInv'
  <2>1. /\ Still /\ overdue' = overdue /\ matter' = [matter EXCEPT !.status = "gone"]
        /\ matter.status \notin {"none", "gone"}
    BY <1>7, <1>a DEF DeleteTalk, CallbackTypes
  <2>2. matter \in Matter /\ keyboard \in Keyboard /\ Linked(keyboard.user)
    BY <1>a, <2>1 DEF CallbackInv, CallbackTypes, Asked, NoMatter
  <2>3. /\ matter' \in Matter \cup {NoMatter} /\ matter'.kind = matter.kind /\ overdue' \in BOOLEAN
        /\ matter'.status = "gone"
    BY <1>a, <2>1, <2>2 DEF CallbackTypes, Matter, Endings
  <2>4. ConnsKept
    <3>1. CASE conn[keyboard.user].talk = "its"
      <4>1. keyboard.user \in Users /\ conn' = [conn EXCEPT ![keyboard.user].talk = "none"]
        BY <1>7, <2>2, <3>1 DEF DeleteTalk, Keyboard
      <4>2. /\ conn' \in [Users -> Connection \cup {Unlinked}] /\ OneUser'
            /\ \A v \in Users : Linked(v)' <=> Linked(v)
        BY <2>2, <4>1, TalkKept DEF Talks
      <4>3. \A v \in Users : conn'[v] # conn[v] => Linked(v)
        BY <2>2, <4>1, <1>a DEF CallbackTypes
      <4>4. QED
        BY <4>2, <4>3
    <3>2. CASE conn[keyboard.user].talk # "its"
      BY <1>7, <1>b, <3>2 DEF DeleteTalk
    <3>3. QED
      BY <3>1, <3>2
  <2>5. QED
    BY <2>1, <2>3, <2>4, LinksKept
<1>8. QED
  BY <1>1, <1>2, <1>3, <1>4, <1>5, <1>6, <1>7

(* The keyboard appears before any press of its buttons. *)
LEMMA OfferKept ==
  ASSUME CallbackInv, NEW t \in Identities, OfferButtons(t) PROVE CallbackInv'
<1>1. /\ keyboard = NoKeyboard
      /\ button' = [b \in Buttons |-> "PENDING"]
      /\ UNCHANGED <<code, overdue, lapsed, settled, press, told, vouched, callFaults>>
  BY DEF OfferButtons
<1>2. PICK u \in ActiveConnection(t) : /\ conn' = [conn EXCEPT ![u].talk = "its"]
                                       /\ keyboard' = [status |-> "shown", user |-> u]
  BY DEF OfferButtons
<1>3. u \in Users /\ Linked(u)
  BY ActiveIsLinked
<1>4. /\ conn' \in [Users -> Connection \cup {Unlinked}] /\ OneUser'
      /\ \A v \in Users : Linked(v)' <=> Linked(v)
  BY <1>2, <1>3, TalkKept DEF Talks
<1>5. keyboard' \in Keyboard /\ keyboard' # NoKeyboard /\ keyboard'.user = u
  BY <1>2, <1>3 DEF Keyboard, NoKeyboard
<1>6. matter' \in Matter /\ matter'.status = "open" /\ matter' # NoMatter
  BY DEF OfferButtons, Matter, NoMatter
<1>7. \A q \in Presses : press[q] = NoPress /\ told[q] = "none" /\ q \notin vouched
  BY <1>1 DEF CallbackInv, PressStands, NoPress
<1>8. \A q \in Presses : press'[q] = NoPress /\ told'[q] = "none" /\ q \notin vouched'
  BY <1>1, <1>7
<1>9. \A q \in Presses : PressStands(q)' /\ ~Claims(q)'
  <2>1. ASSUME NEW q \in Presses PROVE SaidTruly(q)'
    BY <1>8 DEF SaidTruly, Said, NoPress
  <2>2. QED
    BY <1>8, <2>1 DEF PressStands, Claims, NoPress, Replies
<1>10. settled = {}
  BY <1>7 DEF CallbackInv, CallbackTypes, SettledIsVouched
<1>11. CallbackTypes'
  <2>1. button' \in [Buttons -> ButtonStatus]
    BY <1>1 DEF ButtonStatus
  <2>2. QED
    BY <1>1, <1>4, <1>5, <1>6, <2>1 DEF CallbackInv, CallbackTypes
<1>12. OneClaim' /\ UsedUp' /\ OneActs' /\ SettledIsVouched'
  BY <1>1, <1>9, <1>10 DEF OneClaim, UsedUp, OneActs, SettledIsVouched
<1>13. Asked'
  BY <1>3, <1>4, <1>5, <1>6 DEF Asked
<1>14. QED
  BY <1>4, <1>9, <1>11, <1>12, <1>13 DEF CallbackInv

LEMMA CallbackStutters == CallbackInv /\ UNCHANGED callbackVars => CallbackInv'
<1> SUFFICES ASSUME CallbackInv, UNCHANGED callbackVars PROVE CallbackInv'
  OBVIOUS
<1>1. /\ UNCHANGED <<code, conn, button, keyboard, matter, overdue, lapsed, settled, press, told,
                     vouched, callFaults>>
  BY DEF callbackVars, matterVars
<1>2. OneUser' /\ \A u \in Users : Linked(u)' <=> Linked(u) \/ conn'[u] # conn[u]
  BY <1>1 DEF CallbackInv, OneUser, Linked
<1>3. /\ lapsed' \in BOOLEAN /\ overdue' \in BOOLEAN /\ code' \in [Users -> {"none", "open"}]
      /\ conn' \in [Users -> Connection \cup {Unlinked}] /\ matter' \in Matter \cup {NoMatter}
  BY <1>1 DEF CallbackInv, CallbackTypes
<1>4. QED
  BY <1>1, <1>2, <1>3, LinksKept

LEMMA CallbacksAlways == CallbackSpec => []CallbackInv
<1>1. CallbackInv /\ [CallbackNext]_callbackVars => CallbackInv'
  BY CallbackStutters, LinkStepsKept, OfferKept, PressKept, FindKept, ExpireKept, ConnectionKept,
     ClaimKept, ActKept, RenderKept, FaultKept DEF CallbackNext
<1>2. QED
  BY <1>1, CallbackInvInit, PTL DEF CallbackSpec

-----------------------------------------------------------------------------
(* A set whose members are all equal has at most one. *)
LEMMA AtMostOne ==
  ASSUME NEW S, \A x, y \in S : x = y
  PROVE  Cardinality(S) <= 1
<1>1. CASE S = {}
  BY <1>1, FS_EmptySet
<1>2. CASE S # {}
  <2>1. PICK x \in S : S = {x}
    BY <1>2
  <2>2. QED
    BY <2>1, FS_Singleton
<1>3. QED
  BY <1>1, <1>2

(* A pressed button acts once, for the account it was shown to, and its    *)
(* sender is told what became of the question or draft                     *)
(* (interaction.service.ts:228, callbackToken.service.ts:80): for any      *)
(* users, buttons and presses, whether or not the question or draft was    *)
(* settled, expired or deleted behind them, and whatever links, unlinks    *)
(* and failures happen in between.                                         *)
THEOREM ButtonsAreTrue == CallbackSpec => []ButtonsTellTheTruth
<1>1. CallbackInv => ButtonsTellTheTruth
  <2> SUFFICES ASSUME CallbackInv PROVE ButtonsTellTheTruth
    OBVIOUS
  <2>1. ASSUME NEW p \in Presses, told[p] # "none"
        PROVE  press[p] # NoPress /\ press[p].button \in Buttons /\ press[p].step = "done"
    BY <2>1 DEF CallbackInv, CallbackTypes, PressStands, NoPress, PressRow
  <2>2. \A b \in Buttons : Cardinality(ClaimedBy(b)) <= 1
    <3>1. ASSUME NEW b \in Buttons, NEW p \in ClaimedBy(b), NEW q \in ClaimedBy(b) PROVE p = q
      BY DEF CallbackInv, OneClaim, ClaimedBy, Claims
    <3>2. QED
      BY <3>1, AtMostOne
  <2>3. Cardinality(settled) <= 1
    BY AtMostOne DEF CallbackInv, OneActs
  <2>4. ASSUME NEW p \in Presses PROVE ToldTruly(p)
    <3>1. CASE told[p] = "none"
      BY <3>1 DEF ToldTruly
    <3>2. CASE told[p] # "none"
      <4>1. Said(p) = told[p] /\ SaidTruly(p)
        BY <2>1, <3>2 DEF Said, CallbackInv, PressStands
      <4>2. told[p] = "CONSUMED" /\ matter.status = "open" =>
              \E q \in Presses : AtWork(q, press[p].button)
        BY <2>1, <3>2 DEF CallbackInv, PressStands, UsedUp
      <4>3. QED
        BY <4>1, <4>2 DEF SaidTruly, ToldTruly, AtWork, Endings
    <3>3. QED
      BY <3>1, <3>2
  <2>5. TellTheTruth
    BY <2>2, <2>3, <2>4 DEF TellTheTruth
  <2>6. \A t \in Identities : Cardinality(UserOf(t)) <= 1
    <3>1. ASSUME NEW t \in Identities, NEW u \in UserOf(t), NEW v \in UserOf(t) PROVE u = v
      BY DEF CallbackInv, OneUser, UserOf
    <3>2. QED
      BY <3>1, AtMostOne
  <2>7. ActForTheirUser
    BY <2>6 DEF ActForTheirUser, CallbackInv, SettledIsVouched, PressStands, Claims
  <2>8. QED
    BY <2>5, <2>7 DEF ButtonsTellTheTruth
<1>2. QED
  BY <1>1, CallbacksAlways, PTL

(* The tokens, keyboards, links and presses keep their types.              *)
THEOREM CallbackTypeCorrect == CallbackSpec => []CallbackTypeOK
<1>1. CallbackInv => CallbackTypeOK
  BY DEF CallbackInv, CallbackTypes, CallbackTypeOK, ButtonStatus, Matter, NoMatter, Endings
<1>2. QED
  BY <1>1, CallbacksAlways, PTL

-----------------------------------------------------------------------------
(***************************************************************************)
(* Goals, budgets, mappings and wallets: RecordsSpec                       *)
(***************************************************************************)

GoalRow == [row : {"live"}, target : Amounts, current : Amounts,
            status : {"ACTIVE", "COMPLETED", "ARCHIVED"}]
BudgetRow == [row : {"live"}, amount : Amounts, isArchived : BOOLEAN]
WalletRow == [row : {"live"}, type : WalletTypes, opens : {"zero", "positive", "negative"},
              limit : BOOLEAN, billed : BOOLEAN]

GoalEdits == [op : {"target", "progress"}, seen : GoalRow, value : Amounts]
               \cup [op : {"archiveGoal"}, seen : GoalRow]
BudgetEdits == [op : {"createBudget", "amount"}, seen : BudgetRow \cup {None_}, value : Amounts]
                 \cup [op : {"archiveBudget", "restoreBudget"}, seen : BudgetRow]
MappingEdits == [op : {"createMapping"}, value : Merchants]
                  \cup [op : {"rename"}, id : Mappings, value : Merchants]
                  \cup [op : {"remove"}, id : Mappings]
WalletEdits == [op : {"retype"}, seen : WalletRow, value : WalletTypes]
                 \cup [op : {"credit"}, seen : WalletRow]
Edits == {NoEdit} \cup GoalEdits \cup BudgetEdits \cup MappingEdits \cup WalletEdits

(* The rows and what the requests carry; a request about a row that it     *)
(* read finds a row to write, and one about credit settings a credit       *)
(* wallet unless a wallet was retyped.                                     *)
RecordsTypes ==
  /\ goal \in GoalRow \cup {None_}
  /\ budget \in BudgetRow \cup {None_}
  /\ mapping \in [Mappings -> Merchants \cup {Free, Removed}]
  /\ wallet \in WalletRow \cup {None_}
  /\ edit \in [Editors -> Edits]
  /\ stale \subseteq {"goal", "budget", "retyped"}
  /\ net \in [created : Nat, archived : Nat, restored : Nat]

EditStands(e) ==
  /\ edit[e].op \in {"target", "progress", "archiveGoal"} => goal # None_
  /\ edit[e].op \in {"amount", "archiveBudget", "restoreBudget"} => budget # None_
  /\ edit[e].op \in {"retype", "credit"} => wallet # None_
  /\ edit[e].op = "credit" /\ "retyped" \notin stale => wallet.type \in CreditTypes

RecordsInv == /\ RecordsTypes /\ (\A e \in Editors : EditStands(e)) /\ RecordsAgree

LEMMA RecordsInvInit == RecordsInit => RecordsInv
  BY RecordsAssumption DEF RecordsInit, RecordsInv, RecordsTypes, EditStands, RecordsAgree, Edits, NoEdit, None_, Rows, Free, Removed, Archived

(* What a request that begins or ends leaves of the others. *)
LEMMA Begun ==
  ASSUME RecordsInv, NEW e \in Editors, NEW r \in Edits, Begins(e, r),
         UNCHANGED <<goal, budget, mapping, wallet, stale, net>>,
         r.op \in {"target", "progress", "archiveGoal"} => goal # None_,
         r.op \in {"amount", "archiveBudget", "restoreBudget"} => budget # None_,
         r.op \in {"retype", "credit"} => wallet # None_,
         r.op = "credit" /\ "retyped" \notin stale => wallet.type \in CreditTypes
  PROVE  RecordsInv'
<1>1. RecordsTypes'
  BY DEF RecordsInv, RecordsTypes, Begins
<1>2. ASSUME NEW d \in Editors PROVE EditStands(d)'
  <2>1. edit'[d] \in {edit[d], r}
    BY DEF RecordsInv, RecordsTypes, Begins
  <2>2. QED
    BY <2>1 DEF RecordsInv, EditStands
<1>3. RecordsAgree'
  BY DEF RecordsInv, RecordsAgree, Rows, Archived
<1>4. QED
  BY <1>1, <1>2, <1>3 DEF RecordsInv

LEMMA Ended ==
  ASSUME RecordsInv, NEW e \in Editors, Ends(e),
         goal # None_ => goal' # None_, budget # None_ => budget' # None_,
         wallet # None_ => wallet' # None_, stale \subseteq stale',
         "retyped" \in stale' \/ wallet' = None_ \/ wallet' = wallet \/ wallet'.type = wallet.type
  PROVE  /\ edit' \in [Editors -> Edits]
         /\ \A d \in Editors : EditStands(d)'
<1>1. edit \in [Editors -> Edits]
  BY DEF RecordsInv, RecordsTypes
<1>2. NoEdit \in Edits
  BY DEF Edits
<1>3. edit' \in [Editors -> Edits]
  BY <1>1, <1>2 DEF Ends
<1>4. ASSUME NEW d \in Editors PROVE EditStands(d)'
  <2>1. edit'[d] \in {edit[d], NoEdit}
    BY <1>1 DEF Ends
  <2>2. CASE edit'[d] = NoEdit
    BY <2>2 DEF EditStands, NoEdit
  <2>3. CASE edit'[d] = edit[d]
    BY <2>3 DEF RecordsInv, EditStands
  <2>4. QED
    BY <2>1, <2>2, <2>3
<1>5. QED
  BY <1>3, <1>4

(* What a request carries, by what it is about to do. *)
LEMMA EditsByOp ==
  ASSUME RecordsInv, NEW e \in Editors
  PROVE  /\ edit[e].op \in {"target", "progress"} => edit[e].seen \in GoalRow /\ edit[e].value \in Amounts
         /\ edit[e].op \in {"createBudget", "amount"} => edit[e].value \in Amounts
         /\ edit[e].op \in {"createMapping", "rename"} => edit[e].value \in Merchants
         /\ edit[e].op \in {"rename", "remove"} => edit[e].id \in Mappings
         /\ edit[e].op = "retype" => edit[e].value \in WalletTypes
<1>1. edit[e] \in Edits
  BY DEF RecordsInv, RecordsTypes
<1>2. QED
  BY <1>1 DEF Edits, GoalEdits, BudgetEdits, MappingEdits, WalletEdits, NoEdit

(* Saving goals *)
LEMMA GoalKept == RecordsInv /\ GoalNext => RecordsInv'
<1> SUFFICES ASSUME RecordsInv, GoalNext PROVE RecordsInv'
  OBVIOUS
<1>1. ASSUME CreateSavingGoal PROVE RecordsInv'
  <2>1. PICK target \in Amounts \ {0}, current \in Amounts :
          goal' = [row |-> "live", target |-> target, current |-> current,
                   status |-> ResolveStatus(current, target)]
    BY <1>1 DEF CreateSavingGoal
  <2>2. goal' \in GoalRow /\ goal'.status = ResolveStatus(goal'.current, goal'.target)
    BY <2>1 DEF GoalRow, ResolveStatus
  <2>3. UNCHANGED <<budget, mapping, wallet, edit, stale, net>> /\ goal = None_
    BY <1>1 DEF CreateSavingGoal
  <2>4. goal' # None_
    BY <2>2 DEF GoalRow, None_
  <2>5. RecordsTypes'
    BY <2>2, <2>3 DEF RecordsInv, RecordsTypes
  <2>6. \A d \in Editors : EditStands(d)'
    BY <2>3, <2>4 DEF RecordsInv, EditStands
  <2>7. RecordsAgree'
    BY <2>2, <2>3 DEF RecordsInv, RecordsAgree, Rows, Archived
  <2>8. QED
    BY <2>5, <2>6, <2>7 DEF RecordsInv
<1>2. ASSUME NEW e \in Editors, ReadSavingGoal(e) PROVE RecordsInv'
  <2>1. goal \in GoalRow /\ UNCHANGED <<goal, budget, mapping, wallet, stale, net>>
    BY <1>2 DEF ReadSavingGoal, RecordsInv, RecordsTypes
  <2>2. PICK r \in GoalEdits : Begins(e, r)
    BY <1>2, <2>1 DEF ReadSavingGoal, GoalEdits
  <2>3. r \in Edits /\ r.op \in {"target", "progress", "archiveGoal"}
    BY DEF Edits, GoalEdits
  <2>4. QED
    BY <1>2, <2>1, <2>2, <2>3, Begun DEF ReadSavingGoal
<1>3. ASSUME NEW e \in Editors, UpdateSavingGoal(e) \/ UpdateSavingGoalProgress(e) \/ ArchiveSavingGoal(e)
      PROVE  RecordsInv'
  <2>1. /\ UNCHANGED <<budget, mapping, wallet, net>>
        /\ Stale(e, goal, "goal") /\ Ends(e)
        /\ edit[e].op \in {"target", "progress", "archiveGoal"}
    BY <1>3 DEF UpdateSavingGoal, UpdateSavingGoalProgress, ArchiveSavingGoal
  <2>2. goal \in GoalRow
    BY <2>1 DEF RecordsInv, RecordsTypes, EditStands
  <2>3. /\ goal' \in GoalRow
        /\ "goal" \in stale' \/ goal'.status = "ARCHIVED"
             \/ goal'.status = ResolveStatus(goal'.current, goal'.target)
    <3>1. "goal" \in stale' \/ edit[e].seen = goal
      BY <2>1 DEF Stale
    <3>2. CASE UpdateSavingGoal(e)
      <4>1. edit[e].value \in Amounts /\ edit[e].seen \in GoalRow
        BY <3>2, EditsByOp DEF UpdateSavingGoal
      <4>2. goal' = [goal EXCEPT !.target = edit[e].value,
                        !.status = ResolveStatus(edit[e].seen.current, edit[e].value)]
        BY <3>2 DEF UpdateSavingGoal
      <4>3. /\ goal'.target = edit[e].value /\ goal'.current = goal.current
            /\ goal'.status = ResolveStatus(edit[e].seen.current, edit[e].value)
            /\ goal' \in GoalRow
        BY <2>2, <4>1, <4>2 DEF GoalRow, ResolveStatus
      <4>4. QED
        BY <3>1, <4>3
    <3>3. CASE UpdateSavingGoalProgress(e)
      <4>1. edit[e].value \in Amounts /\ edit[e].seen \in GoalRow
        BY <3>3, EditsByOp DEF UpdateSavingGoalProgress
      <4>2. goal' = [goal EXCEPT !.current = edit[e].value,
                        !.status = ResolveStatus(edit[e].value, edit[e].seen.target)]
        BY <3>3 DEF UpdateSavingGoalProgress
      <4>3. /\ goal'.current = edit[e].value /\ goal'.target = goal.target
            /\ goal'.status = ResolveStatus(edit[e].value, edit[e].seen.target)
            /\ goal' \in GoalRow
        BY <2>2, <4>1, <4>2 DEF GoalRow, ResolveStatus
      <4>4. QED
        BY <3>1, <4>3
    <3>4. CASE ArchiveSavingGoal(e)
      BY <2>2, <3>4 DEF ArchiveSavingGoal, GoalRow
    <3>5. QED
      BY <1>3, <3>2, <3>3, <3>4
  <2>4. stale' \in {stale, stale \cup {"goal"}} /\ goal' # None_
    BY <2>1, <2>3 DEF Stale, GoalRow, None_
  <2>5. edit' \in [Editors -> Edits] /\ \A d \in Editors : EditStands(d)'
    BY <2>1, <2>4, Ended
  <2>6. RecordsTypes'
    BY <2>1, <2>3, <2>4, <2>5 DEF RecordsInv, RecordsTypes
  <2>7. RecordsAgree'
    BY <2>1, <2>3, <2>4 DEF RecordsInv, RecordsAgree, Rows, Archived
  <2>8. QED
    BY <2>5, <2>6, <2>7 DEF RecordsInv
<1>4. QED
  BY <1>1, <1>2, <1>3 DEF GoalNext

(* The budget *)
LEMMA BudgetKept == RecordsInv /\ BudgetNext => RecordsInv'
<1> SUFFICES ASSUME RecordsInv, NEW e \in Editors,
                    ReadBudget(e) \/ CreateBudget(e) \/ UpdateBudgetAmount(e)
                      \/ ArchiveBudget(e) \/ RestoreBudget(e)
             PROVE  RecordsInv'
  BY DEF BudgetNext
<1>1. CASE ReadBudget(e)
  <2>1. budget \in BudgetRow \cup {None_} /\ UNCHANGED <<goal, budget, mapping, wallet, stale, net>>
    BY <1>1 DEF ReadBudget, RecordsInv, RecordsTypes
  <2>2. PICK r \in BudgetEdits :
          /\ Begins(e, r)
          /\ r.op \in {"amount", "archiveBudget", "restoreBudget"} => budget # None_
    <3>1. CASE \E a \in Amounts \ {0} : Begins(e, [op |-> "createBudget", seen |-> budget, value |-> a])
      BY <2>1, <3>1 DEF BudgetEdits
    <3>2. CASE budget # None_ /\ \E a \in Amounts \ {0} :
                 Begins(e, [op |-> "amount", seen |-> budget, value |-> a])
      BY <2>1, <3>2 DEF BudgetEdits
    <3>3. CASE budget # None_ /\ Begins(e, [op |-> "archiveBudget", seen |-> budget])
      BY <2>1, <3>3 DEF BudgetEdits
    <3>4. CASE budget # None_ /\ Begins(e, [op |-> "restoreBudget", seen |-> budget])
      BY <2>1, <3>4 DEF BudgetEdits
    <3>5. QED
      BY <1>1, <3>1, <3>2, <3>3, <3>4 DEF ReadBudget, Archived
  <2>3. r \in Edits /\ r.op \in {"createBudget", "amount", "archiveBudget", "restoreBudget"}
    BY DEF Edits, BudgetEdits
  <2>4. QED
    BY <2>1, <2>2, <2>3, Begun
<1>2. CASE ~ReadBudget(e)
  <2>1. UNCHANGED <<goal, mapping, wallet>> /\ Ends(e)
    BY <1>2 DEF CreateBudget, UpdateBudgetAmount, ArchiveBudget, RestoreBudget
  <2>2. /\ budget' \in BudgetRow \cup {None_}
        /\ budget # None_ => budget' # None_
        /\ stale' \in {stale, stale \cup {"budget"}}
        /\ net' \in [created : Nat, archived : Nat, restored : Nat]
        /\ net'.created = IF budget' = None_ THEN 0 ELSE 1
        /\ "budget" \notin stale'
             => net'.archived = net'.restored + IF Archived(budget)' THEN 1 ELSE 0
    <3>1. /\ budget \in BudgetRow \cup {None_}
          /\ net \in [created : Nat, archived : Nat, restored : Nat]
          /\ net.created = IF budget = None_ THEN 0 ELSE 1
          /\ "budget" \notin stale
               => net.archived = net.restored + IF Archived(budget) THEN 1 ELSE 0
      BY DEF RecordsInv, RecordsTypes, RecordsAgree
    <3>2. CASE CreateBudget(e)
      <4>1. edit[e].value \in Amounts
        BY <3>2, EditsByOp DEF CreateBudget
      <4>2. CASE budget # None_
        BY <3>1, <3>2, <4>2 DEF CreateBudget, Archived
      <4>3. CASE budget = None_
        <5>1. PICK f : f = FALSE
          OBVIOUS
        <5>2. budget' = [row |-> "live", amount |-> edit[e].value, isArchived |-> f]
          BY <3>2, <4>3, <5>1 DEF CreateBudget
        <5>3. budget' \in BudgetRow /\ budget'.isArchived = f
          BY <4>1, <5>1, <5>2 DEF BudgetRow
        <5>4. budget' # None_ /\ ~Archived(budget)' /\ ~Archived(budget)
          BY <4>3, <5>1, <5>3 DEF BudgetRow, None_, Archived
        <5>5. net' = [net EXCEPT !.created = @ + 1] /\ stale' = stale
          BY <3>2, <4>3 DEF CreateBudget
        <5>6. QED
          BY <3>1, <4>3, <5>3, <5>4, <5>5
      <4>4. QED
        BY <4>2, <4>3
    <3>3. CASE UpdateBudgetAmount(e)
      <4>1. edit[e].value \in Amounts /\ budget \in BudgetRow
        BY <3>1, <3>3, EditsByOp DEF UpdateBudgetAmount, RecordsInv, EditStands
      <4>2. budget' \in BudgetRow /\ budget'.isArchived = budget.isArchived
        BY <3>3, <4>1 DEF UpdateBudgetAmount, BudgetRow
      <4>3. budget # None_ /\ budget' # None_
        BY <4>1, <4>2 DEF BudgetRow, None_
      <4>4. QED
        BY <3>1, <3>3, <4>2, <4>3 DEF UpdateBudgetAmount, Archived
    <3>4. CASE ArchiveBudget(e)
      <4>1. budget \in BudgetRow
        BY <3>1, <3>4 DEF ArchiveBudget, RecordsInv, EditStands
      <4>2. budget' \in BudgetRow /\ budget'.isArchived = TRUE
        BY <3>4, <4>1 DEF ArchiveBudget, BudgetRow
      <4>3. budget # None_ /\ budget' # None_
        BY <4>1, <4>2 DEF BudgetRow, None_
      <4>4. QED
        BY <3>1, <3>4, <4>2, <4>3 DEF ArchiveBudget, Archived
    <3>5. CASE RestoreBudget(e)
      <4>1. budget \in BudgetRow
        BY <3>1, <3>5 DEF RestoreBudget, RecordsInv, EditStands
      <4>2. budget' \in BudgetRow /\ budget'.isArchived = FALSE
        BY <3>5, <4>1 DEF RestoreBudget, BudgetRow
      <4>3. budget # None_ /\ budget' # None_
        BY <4>1, <4>2 DEF BudgetRow, None_
      <4>4. QED
        BY <3>1, <3>5, <4>2, <4>3 DEF RestoreBudget, Archived
    <3>6. QED
      BY <1>2, <3>2, <3>3, <3>4, <3>5
  <2>3. edit' \in [Editors -> Edits] /\ \A d \in Editors : EditStands(d)'
    BY <2>1, <2>2, Ended
  <2>4. RecordsTypes'
    BY <2>1, <2>2, <2>3 DEF RecordsInv, RecordsTypes
  <2>5. RecordsAgree'
    BY <2>1, <2>2 DEF RecordsInv, RecordsAgree, Rows
  <2>6. QED
    BY <2>3, <2>4, <2>5 DEF RecordsInv
<1>3. QED
  BY <1>1, <1>2

(* Merchant mappings *)
LEMMA MappingKept == RecordsInv /\ MappingNext => RecordsInv'
<1> SUFFICES ASSUME RecordsInv, NEW e \in Editors,
                    ReadMapping(e) \/ CreateMapping(e) \/ UpdateMapping(e) \/ RemoveMapping(e)
             PROVE  RecordsInv'
  BY DEF MappingNext
<1>1. CASE ReadMapping(e)
  <2>1. PICK r \in MappingEdits : Begins(e, r)
    BY <1>1 DEF ReadMapping, MappingEdits, Rows
  <2>2. r \in Edits /\ r.op \in {"createMapping", "rename", "remove"}
    BY DEF Edits, MappingEdits
  <2>3. QED
    BY <1>1, <2>1, <2>2, Begun DEF ReadMapping
<1>2. CASE ~ReadMapping(e)
  <2>1. UNCHANGED <<goal, budget, wallet, stale, net>> /\ Ends(e)
    BY <1>2 DEF CreateMapping, UpdateMapping, RemoveMapping
  <2>2. /\ mapping' \in [Mappings -> Merchants \cup {Free, Removed}]
        /\ \A m, n \in Rows' : mapping'[m] = mapping'[n] => m = n
    <3>1. /\ mapping \in [Mappings -> Merchants \cup {Free, Removed}]
          /\ \A m, n \in Rows : mapping[m] = mapping[n] => m = n
      BY DEF RecordsInv, RecordsTypes, RecordsAgree
    <3>2. CASE CreateMapping(e)
      <4>1. edit[e].value \in Merchants
        BY <3>2, EditsByOp DEF CreateMapping
      <4>2. QED
        BY <3>1, <3>2, <4>1 DEF CreateMapping, Taken, Rows
    <3>3. CASE UpdateMapping(e)
      <4>1. edit[e].value \in Merchants /\ edit[e].id \in Mappings
        BY <3>3, EditsByOp DEF UpdateMapping
      <4>2. QED
        BY <3>1, <3>3, <4>1 DEF UpdateMapping, Taken, Rows
    <3>4. CASE RemoveMapping(e)
      <4>1. edit[e].id \in Mappings
        BY <3>4, EditsByOp DEF RemoveMapping
      <4>2. QED
        BY <3>1, <3>4, <4>1, RecordsAssumption DEF RemoveMapping, Rows
    <3>5. QED
      BY <1>2, <3>2, <3>3, <3>4
  <2>3. edit' \in [Editors -> Edits] /\ \A d \in Editors : EditStands(d)'
    BY <2>1, Ended
  <2>4. RecordsTypes'
    BY <2>1, <2>2, <2>3 DEF RecordsInv, RecordsTypes
  <2>5. RecordsAgree'
    BY <2>1, <2>2 DEF RecordsInv, RecordsAgree, Archived
  <2>6. QED
    BY <2>3, <2>4, <2>5 DEF RecordsInv
<1>3. QED
  BY <1>1, <1>2

(* The settings of a wallet *)
WalletFits(w) == /\ w.type \in CreditTypes <=> w.limit
                 /\ w.billed => w.limit
                 /\ w.type = "LOAN" <=> w.opens = "negative"

LEMMA WalletKept == RecordsInv /\ WalletNext => RecordsInv'
<1> SUFFICES ASSUME RecordsInv, WalletNext PROVE RecordsInv'
  OBVIOUS
<1>1. CASE CreateWallet
  <2>1. PICK type \in {"CASH", "CREDIT_CARD", "LOAN"}, billed \in BOOLEAN,
             opens \in {"zero", "positive", "negative"} :
          /\ billed => type \in CreditTypes
          /\ type = "LOAN" <=> opens = "negative"
          /\ wallet' = [row |-> "live", type |-> type, opens |-> opens,
                        limit |-> type \in CreditTypes, billed |-> billed]
    BY <1>1 DEF CreateWallet, AssetTypes, CreditTypes
  <2>2. PICK limit \in BOOLEAN : limit = (type \in CreditTypes)
    <3>1. (type \in CreditTypes) \in BOOLEAN
      OBVIOUS
    <3>2. QED
      BY <3>1
  <2>3. wallet' = [row |-> "live", type |-> type, opens |-> opens, limit |-> limit, billed |-> billed]
    BY <2>1, <2>2
  <2>4. wallet' \in WalletRow
    BY <2>3 DEF WalletRow, WalletTypes, AssetTypes, CreditTypes
  <2>5. WalletFits(wallet') /\ wallet' # None_
    <3>1. wallet'.type = type /\ wallet'.limit = limit /\ wallet'.billed = billed /\ wallet'.opens = opens
      BY <2>3
    <3>2. WalletFits(wallet')
      BY <2>1, <2>2, <3>1 DEF WalletFits
    <3>3. QED
      BY <2>4, <3>2 DEF WalletRow, None_
  <2>6. UNCHANGED <<goal, budget, mapping, edit, stale, net>> /\ wallet = None_
    BY <1>1 DEF CreateWallet
  <2>7. RecordsTypes'
    BY <2>4, <2>6 DEF RecordsInv, RecordsTypes
  <2>8. \A d \in Editors : EditStands(d)'
    BY <2>5, <2>6 DEF RecordsInv, EditStands
  <2>9. RecordsAgree'
    BY <2>5, <2>6 DEF RecordsInv, RecordsAgree, Rows, Archived, WalletFits
  <2>10. QED
    BY <2>7, <2>8, <2>9 DEF RecordsInv
<1>2. ASSUME NEW e \in Editors, ReadWallet(e) PROVE RecordsInv'
  <2>1. wallet \in WalletRow /\ UNCHANGED <<goal, budget, mapping, wallet, stale, net>>
    BY <1>2 DEF ReadWallet, RecordsInv, RecordsTypes
  <2>2. PICK r \in WalletEdits :
          Begins(e, r) /\ (r.op = "credit" => wallet.type \in CreditTypes)
    BY <1>2, <2>1 DEF ReadWallet, WalletEdits, WalletTypes, AssetTypes, CreditTypes
  <2>3. r \in Edits /\ r.op \in {"retype", "credit"}
    BY DEF Edits, WalletEdits
  <2>4. QED
    BY <1>2, <2>1, <2>2, <2>3, Begun DEF ReadWallet
<1>3. ASSUME NEW e \in Editors, UpdateWallet(e) PROVE RecordsInv'
  <2>1. UNCHANGED <<goal, budget, mapping, net>> /\ Ends(e) /\ edit[e].op \in {"retype", "credit"}
    BY <1>3 DEF UpdateWallet
  <2>2. wallet \in WalletRow /\ ("retyped" \notin stale => WalletFits(wallet))
    <3>1. wallet # None_
      BY <2>1 DEF RecordsInv, EditStands
    <3>2. QED
      BY <3>1 DEF RecordsInv, RecordsTypes, RecordsAgree, WalletFits
  <2>3. /\ wallet' \in WalletRow
        /\ stale' \in {stale, stale \cup {"retyped"}}
        /\ "retyped" \notin stale' => WalletFits(wallet') /\ wallet'.type = wallet.type
    <3>1. CASE edit[e].op = "retype"
      <4>1. /\ edit[e].value \in WalletTypes
            /\ wallet' = [wallet EXCEPT !.type = edit[e].value]
            /\ stale' = IF edit[e].value # wallet.type THEN stale \cup {"retyped"} ELSE stale
        BY <1>3, <3>1, EditsByOp DEF UpdateWallet
      <4>2. wallet' \in WalletRow
        BY <2>2, <4>1 DEF WalletRow
      <4>3. edit[e].value = wallet.type => wallet' = wallet
        BY <2>2, <4>1 DEF WalletRow
      <4>4. QED
        BY <2>2, <4>1, <4>2, <4>3
    <3>2. CASE edit[e].op = "credit"
      <4>1. wallet' = [wallet EXCEPT !.limit = TRUE, !.billed = TRUE] /\ stale' = stale
        BY <1>3, <3>2 DEF UpdateWallet
      <4>2. "retyped" \notin stale => wallet.type \in CreditTypes
        BY <3>2 DEF RecordsInv, EditStands
      <4>3. PICK t : t = TRUE
        OBVIOUS
      <4>4. /\ wallet' \in WalletRow /\ wallet'.limit = t /\ wallet'.billed = t
            /\ wallet'.type = wallet.type /\ wallet'.opens = wallet.opens
        BY <2>2, <4>1, <4>3 DEF WalletRow
      <4>5. QED
        BY <2>2, <4>1, <4>2, <4>3, <4>4 DEF WalletFits
    <3>3. QED
      BY <2>1, <3>1, <3>2
  <2>4. wallet' # None_
    BY <2>3 DEF WalletRow, None_
  <2>5. edit' \in [Editors -> Edits] /\ \A d \in Editors : EditStands(d)'
    BY <2>1, <2>3, <2>4, Ended
  <2>6. RecordsTypes'
    BY <2>1, <2>3, <2>5 DEF RecordsInv, RecordsTypes
  <2>7. RecordsAgree'
    BY <2>1, <2>3 DEF RecordsInv, RecordsAgree, Rows, Archived, WalletFits
  <2>8. QED
    BY <2>5, <2>6, <2>7 DEF RecordsInv
<1>4. QED
  BY <1>1, <1>2, <1>3 DEF WalletNext

LEMMA RecordsAlways == RecordsSpec => []RecordsInv
<1>1. RecordsInv /\ UNCHANGED recordVars => RecordsInv'
  BY DEF recordVars, RecordsInv, RecordsTypes, EditStands, RecordsAgree, Rows, Archived
<1>2. RecordsInv /\ [RecordsNext]_recordVars => RecordsInv'
  BY <1>1, GoalKept, BudgetKept, MappingKept, WalletKept DEF RecordsNext
<1>3. QED
  BY <1>2, RecordsInvInit, PTL DEF RecordsSpec

(* The planning records agree with what they are computed from and with    *)
(* what clients were told, unless two requests overlapped on them          *)
(* (savingGoal.service.ts, budget.service.ts, wallet.service.ts).          *)
THEOREM RecordsStayTrue == RecordsSpec => []RecordsAgree
  BY RecordsAlways, PTL DEF RecordsInv

(* The rows keep their types, whatever requests overlap.                   *)
THEOREM RecordsTypeCorrect == RecordsSpec => []RecordsTypeOK
<1>1. RecordsInv => RecordsTypeOK
  BY DEF RecordsInv, RecordsTypes, RecordsTypeOK, GoalRow, BudgetRow, WalletRow
<1>2. QED
  BY <1>1, RecordsAlways, PTL

-----------------------------------------------------------------------------
(***************************************************************************)
(* Payments that fall due: ScheduleSpec                                    *)
(***************************************************************************)

Numbers == Offsets \cup {NoOffset}

LEMMA ScheduleNumbers ==
  /\ Terms \in Nat \ {0} /\ Monthly \in Nat /\ Final \in Nat /\ TemplateAmount \in Nat
  /\ Funds \in Nat /\ MonthLength \in Nat \ {0} /\ Lead \in Nat /\ Horizon \in Nat \ {0}
  /\ FirstDue \in Nat /\ NoDate \in Nat
<1>1. /\ Terms \in Nat \ {0} /\ Monthly \in Nat /\ Final \in Nat /\ TemplateAmount \in Nat
      /\ Funds \in Nat /\ MonthLength \in Nat \ {0} /\ Lead \in Nat /\ Horizon \in Nat \ {0}
  BY ScheduleAssumption
<1>2. QED
  BY <1>1 DEF FirstDue, NoDate

-----------------------------------------------------------------------------
(* The template and its updates *)

TemplateRow == [row : {"live"}, start : Nat, end : Nat, active : BOOLEAN,
                mode : {"FIXED", "FLEXIBLE"}, amount : Nat, enabled : BOOLEAN,
                offset : Numbers, category : BOOLEAN]

Gone == [row |-> "gone"]

LEMMA OrIsOneOfBoth ==
  ASSUME NEW S, NEW x \in Optional(S), NEW old
  PROVE  Or(x, old) \in S \cup {old}
<1>1. CASE x = Absent
  BY <1>1 DEF Or, Absent
<1>2. CASE \E v \in S : x = Given(v)
  BY <1>2 DEF Or, Given
<1>3. QED
  BY <1>1, <1>2 DEF Optional

LEMMA AmountIsNumber == ASSUME NEW mode PROVE ResolveAmount(mode) \in Nat
  BY ScheduleNumbers DEF ResolveAmount

(* A merge has the fields of the row or of the request, and an amount that *)
(* fits its mode.                                                          *)
LEMMA MergeIsRow ==
  ASSUME NEW t \in TemplateRow, NEW q \in UpdateRequests
  PROVE  /\ MergeTemplate(t, q) \in TemplateRow
         /\ MergeTemplate(t, q).start = Or(q.start, t.start)
         /\ MergeTemplate(t, q).end = Or(q.end, t.end)
         /\ MergeTemplate(t, q).amount = ResolveAmount(MergeTemplate(t, q).mode)
<1>1. /\ q.start \in Optional(Dates) /\ q.end \in Optional(Dates)
      /\ q.mode \in Optional({"FIXED", "FLEXIBLE"}) /\ q.active \in Optional(BOOLEAN)
      /\ q.enabled \in Optional(BOOLEAN) /\ q.offset \in Optional(Numbers)
  BY DEF UpdateRequests, Numbers
<1>2. Dates \subseteq Nat
  BY ScheduleNumbers DEF Dates
<1>3. /\ Or(q.start, t.start) \in Nat /\ Or(q.end, t.end) \in Nat
      /\ Or(q.mode, t.mode) \in {"FIXED", "FLEXIBLE"} /\ Or(q.active, t.active) \in BOOLEAN
      /\ Or(q.enabled, t.enabled) \in BOOLEAN /\ Or(q.offset, t.offset) \in Numbers
  <2>1. /\ t.start \in Nat /\ t.end \in Nat /\ t.mode \in {"FIXED", "FLEXIBLE"}
        /\ t.active \in BOOLEAN /\ t.enabled \in BOOLEAN /\ t.offset \in Numbers
    BY DEF TemplateRow
  <2>2. /\ Or(q.start, t.start) \in Dates \cup {t.start} /\ Or(q.end, t.end) \in Dates \cup {t.end}
        /\ Or(q.mode, t.mode) \in {"FIXED", "FLEXIBLE"} \cup {t.mode}
        /\ Or(q.active, t.active) \in BOOLEAN \cup {t.active}
        /\ Or(q.enabled, t.enabled) \in BOOLEAN \cup {t.enabled}
        /\ Or(q.offset, t.offset) \in Numbers \cup {t.offset}
    BY <1>1, OrIsOneOfBoth
  <2>3. QED
    BY <1>2, <2>1, <2>2
<1>4. PICK s \in Nat, e \in Nat, m \in {"FIXED", "FLEXIBLE"}, a \in BOOLEAN, on \in BOOLEAN, o \in Numbers :
        /\ s = Or(q.start, t.start) /\ e = Or(q.end, t.end) /\ m = Or(q.mode, t.mode)
        /\ a = Or(q.active, t.active) /\ on = Or(q.enabled, t.enabled) /\ o = Or(q.offset, t.offset)
  BY <1>3
<1>5. MergeTemplate(t, q) = [t EXCEPT !.start = s, !.end = e, !.active = a, !.mode = m,
                                      !.amount = ResolveAmount(m), !.enabled = on, !.offset = o]
  BY <1>4 DEF MergeTemplate
<1>6. ResolveAmount(m) \in Nat
  BY AmountIsNumber
<1>7. PICK first : first = [t EXCEPT !.start = s, !.end = e]
  OBVIOUS
<1>8. PICK second : second = [first EXCEPT !.active = a, !.mode = m]
  OBVIOUS
<1>9. MergeTemplate(t, q) \in TemplateRow
  <2> HIDE DEF Numbers
  <2>1. first \in TemplateRow
    BY <1>7 DEF TemplateRow
  <2>2. second \in TemplateRow
    BY <1>8, <2>1 DEF TemplateRow
  <2>3. [second EXCEPT !.amount = ResolveAmount(m), !.enabled = on, !.offset = o] \in TemplateRow
    BY <1>6, <2>2 DEF TemplateRow
  <2>4. MergeTemplate(t, q) = [second EXCEPT !.amount = ResolveAmount(m), !.enabled = on, !.offset = o]
    BY <1>5, <1>7, <1>8 DEF TemplateRow
  <2>5. QED
    BY <2>3, <2>4
<1>10. /\ MergeTemplate(t, q).start = s /\ MergeTemplate(t, q).end = e /\ MergeTemplate(t, q).mode = m
       /\ MergeTemplate(t, q).amount = ResolveAmount(m)
  BY <1>5 DEF TemplateRow
<1>11. MergeTemplate(t, q).amount = ResolveAmount(MergeTemplate(t, q).mode)
  BY <1>10
<1>12. QED
  BY <1>4, <1>9, <1>10, <1>11

-----------------------------------------------------------------------------
(* The installment and its payments *)

BillDue(j) == FirstDue + j * MonthLength

(* The installment after j payments that did not overlap. *)
BillAt(j) == [paid |-> j, term |-> Min({j + 1, Terms}),
              due |-> BillDue(IF j < Terms THEN j ELSE Terms - 1),
              status |-> IF j < Terms THEN "ACTIVE" ELSE "SETTLED"]

OpenBills == {BillAt(j) : j \in 0..(Terms - 1)}
BillKeys == {BillKey(BillDue(j)) : j \in 0..(Terms - 1)}
TemplateKeys == [of : {"template"}, due : Int, offset : Numbers]

LEMMA MinOfTwo ==
  ASSUME NEW a \in Int, NEW b \in Int
  PROVE  Min({a, b}) = IF a <= b THEN a ELSE b
<1> DEFINE m == IF a <= b THEN a ELSE b
<1>1. m \in {a, b} /\ \A y \in {a, b} : m <= y
  OBVIOUS
<1>2. \A x \in {a, b} : (\A y \in {a, b} : x <= y) => x = m
  OBVIOUS
<1>3. QED
  BY <1>1, <1>2 DEF Min

LEMMA BillDueGrows ==
  ASSUME NEW i \in Nat
  PROVE  /\ BillDue(i) \in Nat
         /\ BillDue(i + 1) = BillDue(i) + MonthLength
         /\ (BillDue(i) - FirstDue) \div MonthLength = i
         /\ \A j \in Nat : BillDue(i) < BillDue(j) => i < j
<1>1. PICK m \in Nat, d \in Nat : m = MonthLength /\ d = FirstDue /\ m > 0
  BY ScheduleNumbers
<1>2. i * m \in Nat /\ (i + 1) * m = i * m + m
  BY <1>1
<1>3. (i * m) \div m = i
  BY <1>1, <1>2
<1>4. \A j \in Nat : d + i * m < d + j * m => i < j
  BY <1>1
<1>5. (d + i * m) - d = i * m
  BY <1>1, <1>2
<1>6. QED
  BY <1>1, <1>2, <1>3, <1>4, <1>5 DEF BillDue

LEMMA BillFields ==
  ASSUME NEW j \in 0..Terms
  PROVE  /\ BillAt(j).paid = j /\ BillAt(j).term \in 1..Terms /\ BillAt(j).due \in Nat
         /\ BillAt(j).status = IF j < Terms THEN "ACTIVE" ELSE "SETTLED"
         /\ j < Terms => BillAt(j).due = BillDue(j) /\ BillAt(j) \in OpenBills
         /\ j = Terms => BillAt(j).due = BillDue(Terms - 1)
<1>1. Terms \in Nat /\ Terms > 0 /\ j \in Nat /\ j <= Terms
  BY ScheduleNumbers
<1>2. Min({j + 1, Terms}) = IF j + 1 <= Terms THEN j + 1 ELSE Terms
  BY <1>1, MinOfTwo
<1>3. Min({j + 1, Terms}) \in 1..Terms
  BY <1>1, <1>2
<1>4. BillDue(IF j < Terms THEN j ELSE Terms - 1) \in Nat
  BY <1>1, BillDueGrows
<1>5. j < Terms => j \in 0..(Terms - 1)
  BY <1>1
<1>6. /\ BillAt(j).paid = j /\ BillAt(j).term = Min({j + 1, Terms})
      /\ BillAt(j).due = BillDue(IF j < Terms THEN j ELSE Terms - 1)
      /\ BillAt(j).status = IF j < Terms THEN "ACTIVE" ELSE "SETTLED"
  BY DEF BillAt
<1>7. j < Terms => BillAt(j) \in OpenBills
  BY <1>5 DEF OpenBills
<1>8. j = Terms => ~(j < Terms)
  BY <1>1
<1>9. QED
  BY <1>3, <1>4, <1>6, <1>7, <1>8

(* A payment takes the installment that was read one term further. *)
LEMMA PaymentIsNext ==
  ASSUME NEW j \in 0..(Terms - 1)
  PROVE  /\ AfterPayment(BillAt(j)) = BillAt(j + 1)
         /\ ExpectedAmount(BillAt(j)) = IF j + 1 < Terms THEN Monthly ELSE Final
         /\ ExpectedAmount(BillAt(j)) \in Nat
<1>1. /\ Terms \in Nat /\ j \in Nat /\ j < Terms /\ (j + 1 < Terms <=> ~(j + 1 >= Terms))
      /\ (j + 1) + 1 = j + 2
  BY ScheduleNumbers
<1>2. BillAt(j).paid = j /\ BillAt(j).due = BillDue(j)
  BY <1>1 DEF BillAt
<1>3. IsFinalTerm(BillAt(j)) <=> ~(j + 1 < Terms)
  BY <1>1, <1>2 DEF IsFinalTerm
<1>4. ExpectedAmount(BillAt(j)) = IF j + 1 < Terms THEN Monthly ELSE Final
  BY <1>3 DEF ExpectedAmount
<1>5. CASE j + 1 < Terms
  <2>1. AfterPayment(BillAt(j)) =
          [paid |-> j + 1, term |-> Min({j + 2, Terms}), due |-> BillDue(j) + MonthLength,
           status |-> "ACTIVE"]
    BY <1>2, <1>3, <1>5 DEF AfterPayment
  <2>2. BillAt(j + 1) =
          [paid |-> j + 1, term |-> Min({j + 2, Terms}), due |-> BillDue(j + 1), status |-> "ACTIVE"]
    BY <1>1, <1>5 DEF BillAt
  <2>3. QED
    BY <1>1, <1>4, <2>1, <2>2, BillDueGrows, ScheduleNumbers
<1>6. CASE ~(j + 1 < Terms)
  <2>1. AfterPayment(BillAt(j)) =
          [paid |-> j + 1, term |-> Min({j + 2, Terms}), due |-> BillDue(j), status |-> "SETTLED"]
    BY <1>2, <1>3, <1>6 DEF AfterPayment
  <2>2. BillAt(j + 1) =
          [paid |-> j + 1, term |-> Min({j + 2, Terms}), due |-> BillDue(Terms - 1), status |-> "SETTLED"]
    BY <1>1, <1>6 DEF BillAt
  <2>3. Terms - 1 = j
    BY <1>1, <1>6
  <2>4. QED
    BY <1>4, <2>1, <2>2, <2>3, ScheduleNumbers
<1>7. QED
  BY <1>5, <1>6

-----------------------------------------------------------------------------
(* Types *)

PayCalls == [op : {"pay"}, step : {"funds", "write"}, seen : OpenBills]
TemplateRefresh == [op : {"refresh"}, step : {"templates"}, day : Int, keys : SUBSET TemplateKeys]
BillRefresh == [op : {"refresh"}, step : {"bills"}, day : Int]
EventRefresh == [op : {"refresh"}, step : {"events"}, keys : SUBSET BillKeys]
ConfirmCalls == [op : {"confirm"}, step : {"write"}, key : TemplateKeys]
UpdateCalls == [op : {"update"}, step : {"write"}, asked : UpdateRequests, merged : TemplateRow]
ScheduleCalls == {Idle} \cup PayCalls \cup TemplateRefresh \cup BillRefresh \cup EventRefresh
                   \cup ConfirmCalls \cup UpdateCalls

Bookings == [for : TemplateKeys \cup {Installment}, n : Nat, amount : Nat]

ScheduleTypes ==
  /\ today \in 1..Horizon
  /\ \E j \in 0..Terms : bill = BillAt(j)
  /\ template \in {NoTemplate, Gone} \cup TemplateRow
  /\ events \subseteq BillKeys \cup TemplateKeys
  /\ done \subseteq events \cap TemplateKeys
  /\ funds \in Int
  /\ booked \subseteq Bookings /\ IsFiniteSet(booked)
  /\ call \in [Calls -> ScheduleCalls]
  /\ races \subseteq {"bill", "template"}

LEMMA CallsByOp ==
  ASSUME ScheduleTypes, NEW c \in Calls
  PROVE  /\ call[c].op = "pay" => call[c] \in PayCalls
         /\ At(c, "refresh", "templates") => call[c] \in TemplateRefresh
         /\ At(c, "refresh", "bills") => call[c] \in BillRefresh
         /\ At(c, "refresh", "events") => call[c] \in EventRefresh
         /\ call[c].op = "confirm" => call[c] \in ConfirmCalls
         /\ call[c].op = "update" => call[c] \in UpdateCalls
<1>1. call[c] \in ScheduleCalls
  BY DEF ScheduleTypes
<1>2. QED
  BY <1>1 DEF ScheduleCalls, Idle, PayCalls, TemplateRefresh, BillRefresh, EventRefresh, ConfirmCalls,
              UpdateCalls, At

LEMMA CallMoves ==
  ASSUME ScheduleTypes, NEW c \in Calls, NEW r \in ScheduleCalls, call' = [call EXCEPT ![c] = r]
  PROVE  /\ call' \in [Calls -> ScheduleCalls]
         /\ call'[c] = r
         /\ \A d \in Calls \ {c} : call'[d] = call[d]
  BY DEF ScheduleTypes

LEMMA OpenBill ==
  ASSUME ScheduleTypes
  PROVE  /\ bill.paid \in 0..Terms /\ bill = BillAt(bill.paid)
         /\ bill.status = "ACTIVE" => bill \in OpenBills /\ bill.due = BillDue(bill.paid)
                                       /\ bill.paid \in 0..(Terms - 1)
         /\ bill.status = "SETTLED" => bill.paid = Terms
<1>1. PICK j \in 0..Terms : bill = BillAt(j)
  BY DEF ScheduleTypes
<1>2. j < Terms \/ j = Terms
  BY ScheduleNumbers
<1>3. j < Terms => j \in 0..(Terms - 1)
  BY ScheduleNumbers
<1>4. QED
  BY <1>1, <1>2, <1>3, BillFields

LEMMA RemindersAreKeys ==
  ASSUME ScheduleTypes, NEW day \in Int
  PROVE  TemplateReminders(day) \subseteq TemplateKeys /\ BillReminders(day) \subseteq BillKeys
<1>1. ASSUME NEW k \in TemplateReminders(day) PROVE k \in TemplateKeys
  <2>1. Live /\ \E d : d = day + template.offset /\ k = TemplateKey(d, template.offset)
    BY <1>1 DEF TemplateReminders
  <2>2. template.offset \in Numbers
    BY <2>1 DEF ScheduleTypes, Live, NoTemplate, Gone, TemplateRow
  <2>3. day + template.offset \in Int
    BY <2>2 DEF Numbers, Offsets, NoOffset
  <2>4. QED
    BY <2>1, <2>2, <2>3 DEF TemplateKeys, TemplateKey
<1>2. ASSUME NEW k \in BillReminders(day) PROVE k \in BillKeys
  <2>1. bill.status = "ACTIVE" /\ k = BillKey(bill.due)
    BY <1>2 DEF BillReminders
  <2>2. QED
    BY <2>1, OpenBill DEF BillKeys
<1>3. QED
  BY <1>1, <1>2

LEMMA ScheduleTypesInit == ScheduleInit => ScheduleTypes
<1> SUFFICES ASSUME ScheduleInit PROVE ScheduleTypes
  OBVIOUS
<1>1. bill = BillAt(0)
  <2>1. Min({1, Terms}) = 1
    BY ScheduleNumbers, MinOfTwo
  <2>2. 0 < Terms /\ 0 + 1 = 1 /\ FirstDue + 0 * MonthLength = FirstDue
    BY ScheduleNumbers
  <2>3. QED
    BY <2>1, <2>2 DEF ScheduleInit, BillAt, BillDue
<1>2. 0 \in 0..Terms /\ 1 \in 1..Horizon /\ Funds \in Int
  BY ScheduleNumbers
<1>3. IsFiniteSet({})
  BY FS_EmptySet
<1>4. QED
  BY <1>1, <1>2, <1>3 DEF ScheduleInit, ScheduleTypes, ScheduleCalls

(* A step that books nothing leaves the books as they are. *)
LEMMA NothingBooked ==
  ASSUME ScheduleTypes, UNCHANGED <<bill, funds, booked, races>>, today' \in 1..Horizon,
         template' \in {NoTemplate, Gone} \cup TemplateRow,
         events' \subseteq BillKeys \cup TemplateKeys, done' \subseteq events' \cap TemplateKeys,
         call' \in [Calls -> ScheduleCalls]
  PROVE  ScheduleTypes'
  BY DEF ScheduleTypes

LEMMA ReadBillTypes ==
  ASSUME ScheduleTypes, NEW c \in Calls, ReadBill(c)
  PROVE  /\ ScheduleTypes' /\ call'[c].op = "pay" /\ call'[c].seen = bill
         /\ \A d \in Calls \ {c} : call'[d] = call[d]
<1>1. bill \in OpenBills
  BY OpenBill DEF ReadBill
<1> DEFINE r == [op |-> "pay", step |-> "funds", seen |-> bill]
<1>2. r \in ScheduleCalls
  BY <1>1 DEF ScheduleCalls, PayCalls
<1>3. call' = [call EXCEPT ![c] = r]
  BY DEF ReadBill, Remember
<1>4. r.op = "pay" /\ r.seen = bill
  OBVIOUS
<1> HIDE DEF r
<1>5. /\ call' \in [Calls -> ScheduleCalls] /\ call'[c] = r
      /\ \A d \in Calls \ {c} : call'[d] = call[d]
  BY <1>2, <1>3, CallMoves
<1>6. QED
  BY <1>4, <1>5, NothingBooked DEF ReadBill, eventVars, ScheduleTypes

(* A request that is answered is idle. *)
LEMMA AnswerTypes ==
  ASSUME ScheduleTypes, NEW c \in Calls, Answered(c)
  PROVE  /\ call' \in [Calls -> ScheduleCalls] /\ call'[c] = Idle
         /\ \A d \in Calls \ {c} : call'[d] = call[d]
  BY CallMoves DEF Answered, ScheduleCalls

LEMMA CheckTypes ==
  ASSUME ScheduleTypes, NEW c \in Calls, CheckSourceWallet(c)
  PROVE  /\ ScheduleTypes'
         /\ call'[c] = Idle \/ (call'[c].op = "pay" /\ call'[c].seen = call[c].seen)
         /\ \A d \in Calls \ {c} : call'[d] = call[d]
<1>1. call[c] \in PayCalls
  BY CallsByOp DEF CheckSourceWallet, At
<1>2. /\ call' \in [Calls -> ScheduleCalls]
      /\ call'[c] = Idle \/ (call'[c].op = "pay" /\ call'[c].seen = call[c].seen)
      /\ \A d \in Calls \ {c} : call'[d] = call[d]
  <2>1. CASE Answered(c)
    BY <2>1, AnswerTypes
  <2>2. CASE call' = [call EXCEPT ![c].step = "write"]
    <3> DEFINE r == [call[c] EXCEPT !.step = "write"]
    <3>1. r \in PayCalls /\ r.op = "pay" /\ r.seen = call[c].seen
      BY <1>1 DEF PayCalls
    <3>2. call' = [call EXCEPT ![c] = r]
      BY <2>2
    <3> HIDE DEF r
    <3>3. r \in ScheduleCalls
      BY <3>1 DEF ScheduleCalls
    <3>4. QED
      BY <3>1, <3>2, <3>3, CallMoves
  <2>3. QED
    BY <2>1, <2>2 DEF CheckSourceWallet
<1>3. QED
  BY <1>2, NothingBooked DEF CheckSourceWallet, eventVars, ScheduleTypes

-----------------------------------------------------------------------------
(* Booking *)

Price == [t \in Bookings |-> t.amount]
Paid(k) == Cardinality(BookedFor(k))

LEMMA BookedIsFinite ==
  ASSUME ScheduleTypes, NEW k
  PROVE  /\ IsFiniteSet(BookedFor(k)) /\ BookedFor(k) \subseteq booked
         /\ BookedFor(k) \subseteq Bookings /\ Paid(k) \in Nat
<1>1. BookedFor(k) \subseteq booked
  BY DEF BookedFor
<1>2. IsFiniteSet(BookedFor(k))
  BY <1>1, FS_Subset DEF ScheduleTypes
<1>3. QED
  BY <1>1, <1>2, FS_CardinalityType DEF ScheduleTypes, Paid

LEMMA BookingsGrow ==
  ASSUME ScheduleTypes, NEW k \in TemplateKeys \cup {Installment}, NEW amount \in Nat,
         Book(k, amount), \A t \in BookedFor(k) : t.n < Paid(k)
  PROVE  /\ booked' \subseteq Bookings /\ IsFiniteSet(booked')
         /\ \A j : j # k => BookedFor(j)' = BookedFor(j)
         /\ Paid(k)' = Paid(k) + 1
         /\ \A t \in BookedFor(k)' : t.n < Paid(k)'
         /\ \A t \in booked' : t \in booked \/ t.for = k
         /\ Total(Price, booked) \in Int
         /\ Total(Price, booked') = Total(Price, booked) + amount
         /\ Total(Price, BookedFor(k)) \in Int
         /\ Total(Price, BookedFor(k)') = Total(Price, BookedFor(k)) + amount
<1> DEFINE new == [for |-> k, n |-> Paid(k), amount |-> amount]
<1>1. Paid(k) \in Nat /\ IsFiniteSet(BookedFor(k)) /\ BookedFor(k) \subseteq Bookings
  BY BookedIsFinite
<1>2. new \in Bookings /\ new.for = k /\ new.n = Paid(k) /\ new.amount = amount
  BY <1>1 DEF Bookings
<1>3. booked' = booked \cup {new}
  BY DEF Book, Paid
<1> HIDE DEF new
<1>4. new \notin BookedFor(k)
  BY <1>1, <1>2
<1>5. new \notin booked
  BY <1>2, <1>4 DEF BookedFor
<1>6. BookedFor(k)' = BookedFor(k) \cup {new}
  BY <1>2, <1>3 DEF BookedFor
<1>7. \A j : j # k => BookedFor(j)' = BookedFor(j)
  BY <1>2, <1>3 DEF BookedFor
<1>8. Paid(k)' = Paid(k) + 1
  BY <1>1, <1>4, <1>6, FS_AddElement DEF Paid
<1>9. booked' \subseteq Bookings /\ IsFiniteSet(booked')
  BY <1>2, <1>3, FS_AddElement DEF ScheduleTypes
<1>10. \A t \in BookedFor(k)' : t.n < Paid(k)'
  <2>1. \A t \in BookedFor(k) : t.n \in Nat
    BY <1>1 DEF Bookings
  <2>2. QED
    BY <1>1, <1>2, <1>6, <1>8, <2>1
<1>11. Price \in [Bookings -> Int] /\ Price[new] = amount
  BY <1>2 DEF Price, Bookings
<1>12. /\ Total(Price, booked) \in Int
       /\ Total(Price, booked \cup {new}) = Total(Price, booked) + Price[new]
  BY <1>2, <1>5, <1>11, TotalGrows DEF ScheduleTypes
<1>13. /\ Total(Price, BookedFor(k)) \in Int
       /\ Total(Price, BookedFor(k) \cup {new}) = Total(Price, BookedFor(k)) + Price[new]
  BY <1>1, <1>2, <1>4, <1>11, TotalGrows
<1>14. QED
  BY <1>2, <1>3, <1>6, <1>7, <1>8, <1>9, <1>10, <1>11, <1>12, <1>13

-----------------------------------------------------------------------------
(* The invariants *)

Fits(t) == t.amount = ResolveAmount(t.mode) /\ ResolveReminder(t.enabled, t.offset)

(* An update in flight carries a row that fits, and until two overlapped,  *)
(* it was merged with the row that is stored.                              *)
TemplateInv ==
  /\ Live => /\ Fits(template)
             /\ template.end < template.start => "template" \in races
  /\ \A c \in Calls : call[c].op = "update" =>
       /\ template # NoTemplate
       /\ Fits(call[c].merged)
       /\ Live /\ "template" \notin races =>
            /\ call[c].merged.start <= call[c].merged.end
            /\ call[c].merged.start = Or(call[c].asked.start, template.start)
            /\ call[c].merged.end = Or(call[c].asked.end, template.end)

(* A booking is a payment, or its reminder is completed or went with the   *)
(* template, which does not come back.                                     *)
BookInv ==
  /\ \A t \in booked : t.for = Installment \/ t.for \in done \/ template = Gone
  /\ \A k \in done : Paid(k) = 1
  /\ \A t \in BookedFor(Installment) : t.n < Paid(Installment)
  /\ funds = Funds - Total(Price, booked)
  /\ template = Gone => events \cap TemplateKeys = {}

Owed(j) == IF j < Terms THEN j * Monthly ELSE (Terms - 1) * Monthly + Final

(* The schedule never counts more payments than were booked, and counts    *)
(* them all until two overlapped: whoever is about to pay has then read    *)
(* the installment as it is.                                               *)
PayInv ==
  /\ bill.paid <= Paid(Installment)
  /\ \A c \in Calls : call[c].op = "pay" => call[c].seen.paid <= Paid(Installment)
  /\ "bill" \notin races =>
       /\ bill.paid = Paid(Installment)
       /\ Total(Price, BookedFor(Installment)) = Owed(bill.paid)
       /\ \A c \in Calls : call[c].op = "pay" => call[c].seen = bill

ScheduleInv == ScheduleTypes /\ TemplateInv /\ BookInv /\ PayInv

LEMMA NoBookings == ScheduleInit => (\A k : BookedFor(k) = {} /\ Paid(k) = 0) /\ Total(Price, {}) = 0
  BY FS_EmptySet, TotalOfNothing DEF ScheduleInit, BookedFor, Paid

LEMMA ScheduleInvInit == ScheduleInit => ScheduleInv
<1> SUFFICES ASSUME ScheduleInit PROVE ScheduleInv
  OBVIOUS
<1>1. ScheduleTypes
  BY ScheduleTypesInit
<1>2. /\ \A k : BookedFor(k) = {} /\ Paid(k) = 0
      /\ Total(Price, {}) = 0
  BY NoBookings
<1>3. TemplateInv
  BY DEF ScheduleInit, TemplateInv, Live, NoTemplate, Idle
<1>4. BookInv
  BY <1>2, ScheduleNumbers DEF ScheduleInit, BookInv, NoTemplate, Gone
<1>5. PayInv
  <2>1. Owed(0) = 0 /\ 0 <= 0
    BY ScheduleNumbers DEF Owed
  <2>2. bill.paid = 0 /\ \A c \in Calls : call[c].op # "pay"
    BY DEF ScheduleInit, Idle
  <2>3. QED
    BY <1>2, <2>1, <2>2 DEF PayInv
<1>6. QED
  BY <1>1, <1>3, <1>4, <1>5 DEF ScheduleInv

(* What leaves each of them alone. *)
LEMMA TemplateAlone ==
  ASSUME ScheduleInv, template' = template, races \subseteq races',
         \A d \in Calls : call'[d].op = "update" => call'[d] = call[d]
  PROVE  TemplateInv'
  BY DEF ScheduleInv, TemplateInv, Live

LEMMA BooksAlone ==
  ASSUME ScheduleInv, UNCHANGED <<booked, funds, done>>,
         template = Gone => template' = Gone,
         template' = Gone => events' \cap TemplateKeys = {}
  PROVE  BookInv'
  BY DEF ScheduleInv, BookInv, BookedFor, Paid

LEMMA PaymentsAlone ==
  ASSUME ScheduleInv, UNCHANGED <<bill, races>>, BookedFor(Installment)' = BookedFor(Installment),
         \A d \in Calls : call'[d].op = "pay" =>
           \/ call'[d].seen = bill
           \/ call[d].op = "pay" /\ call'[d].seen = call[d].seen
  PROVE  PayInv'
  BY DEF ScheduleInv, PayInv, Paid

LEMMA CallDone ==
  ASSUME ScheduleInv, NEW c \in Calls, Answered(c)
  PROVE  /\ call' \in [Calls -> ScheduleCalls]
         /\ \A d \in Calls : call'[d].op = "update" => call'[d] = call[d]
         /\ \A d \in Calls : call'[d].op = "pay" => call[d].op = "pay" /\ call'[d].seen = call[d].seen
         /\ \A d \in Calls : call'[d].op # "none" => d # c /\ call'[d] = call[d]
<1>1. /\ call' \in [Calls -> ScheduleCalls] /\ call'[c] = Idle
      /\ \A d \in Calls \ {c} : call'[d] = call[d]
  BY AnswerTypes DEF ScheduleInv
<1>2. QED
  BY <1>1 DEF Idle

-----------------------------------------------------------------------------
(* Payments *)

LEMMA ReadBillKept ==
  ASSUME ScheduleInv, NEW c \in Calls, ReadBill(c) PROVE ScheduleInv'
<1>1. /\ ScheduleTypes' /\ call'[c].op = "pay" /\ call'[c].seen = bill
      /\ \A d \in Calls \ {c} : call'[d] = call[d]
  BY ReadBillTypes DEF ScheduleInv
<1>2. UNCHANGED <<bill, template, events, done, funds, booked, races>>
  BY DEF ReadBill, eventVars
<1>3. TemplateInv'
  <2>1. \A d \in Calls : call'[d].op = "update" => call'[d] = call[d]
    BY <1>1
  <2>2. QED
    BY <1>2, <2>1, TemplateAlone
<1>4. BookInv'
  BY <1>2, BooksAlone DEF ScheduleInv, BookInv
<1>5. PayInv'
  <2>1. BookedFor(Installment)' = BookedFor(Installment)
    BY <1>2 DEF BookedFor
  <2>2. QED
    BY <1>1, <1>2, <2>1, PaymentsAlone
<1>6. QED
  BY <1>1, <1>3, <1>4, <1>5 DEF ScheduleInv

LEMMA CheckKept ==
  ASSUME ScheduleInv, NEW c \in Calls, CheckSourceWallet(c) PROVE ScheduleInv'
<1>1. /\ ScheduleTypes'
      /\ call'[c] = Idle \/ (call'[c].op = "pay" /\ call'[c].seen = call[c].seen)
      /\ \A d \in Calls \ {c} : call'[d] = call[d]
      /\ call[c].op = "pay"
  BY CheckTypes DEF ScheduleInv, CheckSourceWallet, At
<1>2. UNCHANGED <<bill, template, events, done, funds, booked, races>>
  BY DEF CheckSourceWallet, eventVars
<1>3. TemplateInv'
  <2>1. \A d \in Calls : call'[d].op = "update" => call'[d] = call[d]
    BY <1>1 DEF Idle
  <2>2. QED
    BY <1>2, <2>1, TemplateAlone
<1>4. BookInv'
  BY <1>2, BooksAlone DEF ScheduleInv, BookInv
<1>5. PayInv'
  <2>1. BookedFor(Installment)' = BookedFor(Installment)
    BY <1>2 DEF BookedFor
  <2>2. \A d \in Calls : call'[d].op = "pay" => call[d].op = "pay" /\ call'[d].seen = call[d].seen
    BY <1>1 DEF Idle
  <2>3. QED
    BY <1>2, <2>1, <2>2, PaymentsAlone
<1>6. QED
  BY <1>1, <1>3, <1>4, <1>5 DEF ScheduleInv

LEMMA OwedGrows ==
  ASSUME NEW j \in 0..(Terms - 1)
  PROVE  Owed(j + 1) = Owed(j) + ExpectedAmount(BillAt(j))
<1>1. PICK m \in Nat, f \in Nat, n \in Nat : m = Monthly /\ f = Final /\ n = Terms
  BY ScheduleNumbers
<1>2. j \in Nat /\ j < n /\ (j + 1) * m = j * m + m /\ j * m \in Nat
  BY <1>1
<1>3. CASE j + 1 < n
  BY <1>1, <1>2, <1>3, PaymentIsNext DEF Owed
<1>4. CASE ~(j + 1 < n)
  <2>1. j = n - 1
    BY <1>2, <1>4
  <2>2. QED
    BY <1>1, <1>2, <1>4, <2>1, PaymentIsNext DEF Owed
<1>5. QED
  BY <1>3, <1>4

LEMMA PayKept ==
  ASSUME ScheduleInv, NEW c \in Calls, PayInstallment(c) PROVE ScheduleInv'
<1>1. ScheduleTypes /\ TemplateInv /\ BookInv /\ PayInv
  BY DEF ScheduleInv
<1>2. call[c].op = "pay" /\ call[c] \in PayCalls
  BY <1>1, CallsByOp DEF PayInstallment, At
<1>3. PICK j \in 0..(Terms - 1) : call[c].seen = BillAt(j)
  BY <1>2 DEF PayCalls, OpenBills
<1>4. PICK a \in Nat : a = ExpectedAmount(BillAt(j))
  BY PaymentIsNext
<1>5. /\ bill' = BillAt(j + 1) /\ funds' = funds - a
      /\ Book(Installment, a) /\ Race(c, "pay", "bill") /\ Answered(c)
      /\ UNCHANGED <<today, template, events, done>>
  BY <1>3, <1>4, PaymentIsNext DEF PayInstallment, eventVars
<1>6. \A t \in BookedFor(Installment) : t.n < Paid(Installment)
  BY <1>1 DEF BookInv
<1>7. /\ booked' \subseteq Bookings /\ IsFiniteSet(booked')
      /\ \A k : k # Installment => BookedFor(k)' = BookedFor(k)
      /\ Paid(Installment)' = Paid(Installment) + 1
      /\ \A t \in BookedFor(Installment)' : t.n < Paid(Installment)'
      /\ \A t \in booked' : t \in booked \/ t.for = Installment
      /\ Total(Price, booked) \in Int
      /\ Total(Price, booked') = Total(Price, booked) + a
      /\ Total(Price, BookedFor(Installment)') = Total(Price, BookedFor(Installment)) + a
  BY <1>1, <1>5, <1>6, BookingsGrow
<1>8. /\ call' \in [Calls -> ScheduleCalls]
      /\ \A d \in Calls : call'[d].op = "update" => call'[d] = call[d]
      /\ \A d \in Calls : call'[d].op = "pay" => call[d].op = "pay" /\ call'[d].seen = call[d].seen
      /\ \A d \in Calls : call'[d].op # "none" => d # c /\ call'[d] = call[d]
  BY <1>5, CallDone
<1>9. /\ races' \in {races, races \cup {"bill"}}
      /\ "bill" \in races' \/ \A d \in Calls \ {c} : call[d].op # "pay"
  BY <1>5 DEF Race, Overlaps
<1>10. ScheduleTypes'
  <2>1. j + 1 \in 0..Terms
    BY ScheduleNumbers
  <2>2. funds' \in Int
    BY <1>1, <1>5 DEF ScheduleTypes
  <2>3. QED
    BY <1>1, <1>5, <1>7, <1>8, <1>9, <2>1, <2>2 DEF ScheduleTypes
<1>11. TemplateInv'
  BY <1>5, <1>8, <1>9, TemplateAlone
<1>12. BookInv'
  <2>1. \A k \in done : k # Installment
    BY <1>1 DEF ScheduleTypes, TemplateKeys, Installment
  <2>2. \A k \in done : Paid(k)' = 1
    BY <1>1, <1>7, <2>1 DEF BookInv, Paid
  <2>3. funds' = Funds - Total(Price, booked')
    BY <1>1, <1>5, <1>7, ScheduleNumbers DEF BookInv
  <2>4. \A t \in booked' : t.for = Installment \/ t.for \in done \/ template = Gone
    BY <1>1, <1>7 DEF BookInv
  <2>5. QED
    BY <1>1, <1>5, <1>7, <2>2, <2>3, <2>4 DEF BookInv
<1>13. PayInv'
  <2>1. /\ bill'.paid = j + 1 /\ call[c].seen.paid = j /\ Paid(Installment) \in Nat
        /\ j \in Nat /\ j + 1 \in 0..Terms
    <3>1. j \in 0..Terms /\ j + 1 \in 0..Terms /\ j \in Nat
      BY ScheduleNumbers
    <3>2. QED
      BY <1>1, <1>3, <1>5, <3>1, BillFields, BookedIsFinite
  <2>2. j <= Paid(Installment)
    BY <1>1, <1>2, <2>1 DEF PayInv
  <2>3. bill'.paid <= Paid(Installment)'
    BY <1>7, <2>1, <2>2
  <2>4. ASSUME NEW d \in Calls, call'[d].op = "pay" PROVE call'[d].seen.paid <= Paid(Installment)'
    <3>1. call[d].op = "pay" /\ call'[d].seen = call[d].seen /\ call[d] \in PayCalls
      BY <1>1, <1>8, <2>4, CallsByOp
    <3>2. PICK i \in 0..(Terms - 1) : call[d].seen = BillAt(i)
      BY <3>1 DEF PayCalls, OpenBills
    <3>3. i \in 0..Terms /\ i \in Nat
      BY ScheduleNumbers
    <3>4. call[d].seen.paid \in Nat
      BY <3>2, <3>3, BillFields
    <3>5. call[d].seen.paid <= Paid(Installment)
      BY <1>1, <3>1 DEF PayInv
    <3>6. QED
      BY <1>7, <2>1, <3>1, <3>4, <3>5
  <2>5. ASSUME "bill" \notin races'
        PROVE  /\ bill'.paid = Paid(Installment)'
               /\ Total(Price, BookedFor(Installment)') = Owed(bill'.paid)
               /\ \A d \in Calls : call'[d].op = "pay" => call'[d].seen = bill'
    <3>1. /\ "bill" \notin races
          /\ \A d \in Calls \ {c} : call[d].op # "pay"
      BY <1>9, <2>5
    <3>2. \A d \in Calls : call'[d].op # "pay"
      BY <1>8, <3>1
    <3>3. call[c].seen = bill /\ bill.paid = Paid(Installment)
          /\ Total(Price, BookedFor(Installment)) = Owed(bill.paid)
      BY <1>1, <1>2, <3>1 DEF PayInv
    <3>4. j = Paid(Installment) /\ Total(Price, BookedFor(Installment)) = Owed(j)
      BY <2>1, <3>3
    <3>5. Owed(j + 1) = Owed(j) + a
      BY <1>4, OwedGrows
    <3>6. QED
      BY <1>7, <2>1, <3>2, <3>4, <3>5
  <2>6. QED
    BY <2>3, <2>4, <2>5 DEF PayInv
<1>14. QED
  BY <1>10, <1>11, <1>12, <1>13 DEF ScheduleInv

-----------------------------------------------------------------------------
(* Reminders *)

LEMMA RefreshKept ==
  ASSUME ScheduleInv, NEW c \in Calls, EvaluateReminders(c) PROVE ScheduleInv'
<1>1. ScheduleTypes /\ UNCHANGED <<today, bill, template, done, funds, booked, races>>
  BY DEF ScheduleInv, EvaluateReminders
<1>2. PICK r \in ScheduleCalls :
        /\ call' = [call EXCEPT ![c] = r] /\ r.op \notin {"pay", "update"}
        /\ events' \in {events, events \cup call[c].keys}
        /\ events' # events => /\ call[c].keys \subseteq BillKeys \cup TemplateKeys
                               /\ Live \/ call[c].keys \subseteq BillKeys
  <2>1. Idle \in ScheduleCalls /\ Idle.op \notin {"pay", "update"}
    BY DEF ScheduleCalls, Idle
  <2>2. CASE /\ Remember(c, [op |-> "refresh", step |-> "templates", day |-> today,
                             keys |-> TemplateReminders(today)])
             /\ UNCHANGED events
    <3> DEFINE r == [op |-> "refresh", step |-> "templates", day |-> today,
                     keys |-> TemplateReminders(today)]
    <3>1. today \in Int /\ TemplateReminders(today) \in SUBSET TemplateKeys
      BY <1>1, RemindersAreKeys DEF ScheduleTypes
    <3>2. r \in TemplateRefresh /\ r.op = "refresh"
      BY <3>1 DEF TemplateRefresh
    <3>3. call' = [call EXCEPT ![c] = r]
      BY <2>2 DEF Remember
    <3> HIDE DEF r
    <3>4. r \in ScheduleCalls
      BY <3>2 DEF ScheduleCalls
    <3>5. QED
      BY <2>2, <3>2, <3>3, <3>4
  <2>3. CASE At(c, "refresh", "templates")
    <3>1. call[c] \in TemplateRefresh
      BY <1>1, <2>3, CallsByOp
    <3>2. call[c].day \in Int /\ call[c].keys \subseteq TemplateKeys
      BY <3>1 DEF TemplateRefresh
    <3> DEFINE r == [op |-> "refresh", step |-> "bills", day |-> call[c].day]
    <3>3. r \in BillRefresh /\ r.op = "refresh"
      BY <3>2 DEF BillRefresh
    <3>4. r \in ScheduleCalls
      BY <3>3 DEF ScheduleCalls
    <3>5. \/ /\ call[c].keys = {} \/ Live
             /\ events' = events \cup call[c].keys /\ call' = [call EXCEPT ![c] = r]
          \/ call' = [call EXCEPT ![c] = Idle] /\ events' = events
      BY <2>3 DEF EvaluateReminders, At, Remember, Answered, Idle
    <3> HIDE DEF r
    <3>6. QED
      BY <2>1, <3>2, <3>3, <3>4, <3>5
  <2>4. CASE At(c, "refresh", "bills") /\ UNCHANGED events
             /\ Remember(c, [op |-> "refresh", step |-> "events", keys |-> BillReminders(call[c].day)])
    <3>1. call[c].day \in Int
      BY <1>1, <2>4, CallsByOp DEF BillRefresh
    <3> DEFINE r == [op |-> "refresh", step |-> "events", keys |-> BillReminders(call[c].day)]
    <3>2. r \in EventRefresh /\ r.op = "refresh"
      BY <1>1, <3>1, RemindersAreKeys DEF EventRefresh
    <3>3. call' = [call EXCEPT ![c] = r]
      BY <2>4 DEF Remember
    <3> HIDE DEF r
    <3>4. r \in ScheduleCalls
      BY <3>2 DEF ScheduleCalls
    <3>5. QED
      BY <2>4, <3>2, <3>3, <3>4
  <2>5. CASE At(c, "refresh", "events") /\ events' = events \cup call[c].keys /\ Answered(c)
    <3>1. call[c].keys \subseteq BillKeys
      BY <1>1, <2>5, CallsByOp DEF EventRefresh
    <3>2. QED
      BY <2>1, <2>5, <3>1 DEF Answered
  <2>6. QED
    BY <2>2, <2>3, <2>4, <2>5 DEF EvaluateReminders
<1>3. /\ call' \in [Calls -> ScheduleCalls] /\ call'[c] = r
      /\ \A d \in Calls \ {c} : call'[d] = call[d]
  BY <1>1, <1>2, CallMoves
<1>4. events \subseteq events' /\ events' \subseteq BillKeys \cup TemplateKeys
  BY <1>1, <1>2 DEF ScheduleTypes
<1>5. ScheduleTypes'
  BY <1>1, <1>3, <1>4, NothingBooked DEF ScheduleTypes
<1>6. TemplateInv'
  <2>1. \A d \in Calls : call'[d].op = "update" => call'[d] = call[d]
    BY <1>2, <1>3
  <2>2. QED
    BY <1>1, <2>1, TemplateAlone
<1>7. BookInv'
  <2>1. BillKeys \cap TemplateKeys = {}
    BY DEF BillKeys, BillKey, TemplateKeys
  <2>2. ASSUME template' = Gone PROVE events' \cap TemplateKeys = {}
    <3>1. events \cap TemplateKeys = {} /\ ~Live
      BY <1>1, <2>2 DEF ScheduleInv, BookInv, Live, Gone
    <3>2. QED
      BY <1>2, <2>1, <3>1
  <2>3. QED
    BY <1>1, <2>2, BooksAlone
<1>8. PayInv'
  <2>1. BookedFor(Installment)' = BookedFor(Installment)
    BY <1>1 DEF BookedFor
  <2>2. \A d \in Calls : call'[d].op = "pay" => call[d].op = "pay" /\ call'[d].seen = call[d].seen
    BY <1>2, <1>3
  <2>3. QED
    BY <1>1, <2>1, <2>2, PaymentsAlone
<1>9. QED
  BY <1>5, <1>6, <1>7, <1>8 DEF ScheduleInv

LEMMA ReadReminderKept ==
  ASSUME ScheduleInv, NEW c \in Calls, ReadReminder(c) PROVE ScheduleInv'
<1>1. /\ ScheduleTypes
      /\ UNCHANGED <<today, bill, template, events, done, funds, booked, races>>
  BY DEF ScheduleInv, ReadReminder, eventVars
<1>2. PICK k \in events : /\ k.of = "template"
                          /\ call' = [call EXCEPT ![c] = [op |-> "confirm", step |-> "write", key |-> k]]
  BY DEF ReadReminder, Remember
<1>3. k \in TemplateKeys
  BY <1>1, <1>2 DEF ScheduleTypes, BillKeys, BillKey
<1> DEFINE r == [op |-> "confirm", step |-> "write", key |-> k]
<1>4. r \in ScheduleCalls /\ r.op = "confirm" /\ call' = [call EXCEPT ![c] = r]
  BY <1>2, <1>3 DEF ScheduleCalls, ConfirmCalls
<1> HIDE DEF r
<1>5. /\ call' \in [Calls -> ScheduleCalls] /\ call'[c] = r
      /\ \A d \in Calls \ {c} : call'[d] = call[d]
  BY <1>1, <1>4, CallMoves
<1>6. ScheduleTypes'
  BY <1>1, <1>5, NothingBooked DEF ScheduleTypes
<1>7. TemplateInv'
  <2>1. \A d \in Calls : call'[d].op = "update" => call'[d] = call[d]
    BY <1>4, <1>5
  <2>2. QED
    BY <1>1, <2>1, TemplateAlone
<1>8. BookInv'
  BY <1>1, BooksAlone DEF ScheduleInv, BookInv
<1>9. PayInv'
  <2>1. BookedFor(Installment)' = BookedFor(Installment)
    BY <1>1 DEF BookedFor
  <2>2. \A d \in Calls : call'[d].op = "pay" => call[d].op = "pay" /\ call'[d].seen = call[d].seen
    BY <1>4, <1>5
  <2>3. QED
    BY <1>1, <2>1, <2>2, PaymentsAlone
<1>10. QED
  BY <1>6, <1>7, <1>8, <1>9 DEF ScheduleInv

(* A reminder that is not completed has booked nothing, so its             *)
(* confirmation books the first transaction and completes it.              *)
LEMMA ConfirmKept ==
  ASSUME ScheduleInv, NEW c \in Calls, ConfirmReminder(c) PROVE ScheduleInv'
<1>1. ScheduleTypes /\ TemplateInv /\ BookInv /\ PayInv
  BY DEF ScheduleInv
<1>2. Answered(c) /\ UNCHANGED <<today, bill, template, events, races>> /\ call[c] \in ConfirmCalls
  BY <1>1, CallsByOp DEF ConfirmReminder, At
<1>3. PICK k \in TemplateKeys : k = call[c].key
  BY <1>2 DEF ConfirmCalls
<1>4. /\ call' \in [Calls -> ScheduleCalls]
      /\ \A d \in Calls : call'[d].op = "update" => call'[d] = call[d]
      /\ \A d \in Calls : call'[d].op = "pay" => call[d].op = "pay" /\ call'[d].seen = call[d].seen
  BY <1>2, CallDone
<1>5. TemplateInv'
  BY <1>2, <1>4, TemplateAlone
<1>6. CASE k \in events \ done
  <2>1. done' = done \cup {k} /\ funds' = funds - TemplateAmount /\ Book(k, TemplateAmount)
    BY <1>3, <1>6 DEF ConfirmReminder
  <2>2. template # Gone /\ k # Installment
    BY <1>1, <1>6 DEF BookInv, TemplateKeys, Installment
  <2>3. BookedFor(k) = {} /\ Paid(k) = 0
    BY <1>1, <1>6, <2>2, FS_EmptySet DEF BookInv, BookedFor, Paid
  <2>4. /\ booked' \subseteq Bookings /\ IsFiniteSet(booked')
        /\ \A j : j # k => BookedFor(j)' = BookedFor(j)
        /\ Paid(k)' = Paid(k) + 1
        /\ \A t \in booked' : t \in booked \/ t.for = k
        /\ Total(Price, booked) \in Int
        /\ Total(Price, booked') = Total(Price, booked) + TemplateAmount
    BY <1>1, <2>1, <2>3, BookingsGrow, ScheduleNumbers
  <2>5. ScheduleTypes'
    BY <1>1, <1>2, <1>4, <1>6, <2>1, <2>4, ScheduleNumbers DEF ScheduleTypes
  <2>6. BookedFor(Installment)' = BookedFor(Installment)
    BY <2>2, <2>4
  <2>7. BookInv'
    <3>1. \A j \in done' : Paid(j)' = 1
      BY <1>1, <2>1, <2>3, <2>4 DEF BookInv, Paid
    <3>2. \A t \in BookedFor(Installment)' : t.n < Paid(Installment)'
      BY <1>1, <2>6 DEF BookInv, Paid
    <3>3. funds' = Funds - Total(Price, booked')
      BY <1>1, <2>1, <2>4, ScheduleNumbers DEF BookInv
    <3>4. \A t \in booked' : t.for = Installment \/ t.for \in done' \/ template' = Gone
      BY <1>1, <1>2, <2>1, <2>4 DEF BookInv
    <3>5. QED
      BY <1>2, <2>2, <3>1, <3>2, <3>3, <3>4 DEF BookInv
  <2>8. PayInv'
    BY <1>2, <1>4, <2>6, PaymentsAlone
  <2>9. QED
    BY <1>5, <2>5, <2>7, <2>8 DEF ScheduleInv
<1>7. CASE k \notin events \ done
  <2>1. UNCHANGED <<done, funds, booked>>
    BY <1>3, <1>7 DEF ConfirmReminder
  <2>2. ScheduleTypes'
    BY <1>1, <1>2, <1>4, <2>1, NothingBooked DEF ScheduleTypes
  <2>3. BookInv'
    BY <1>1, <1>2, <2>1, BooksAlone DEF BookInv
  <2>4. BookedFor(Installment)' = BookedFor(Installment)
    BY <2>1 DEF BookedFor
  <2>5. PayInv'
    BY <1>2, <1>4, <2>4, PaymentsAlone
  <2>6. QED
    BY <1>5, <2>2, <2>3, <2>5 DEF ScheduleInv
<1>8. QED
  BY <1>6, <1>7

-----------------------------------------------------------------------------
(* The template *)

LEMMA DatesInOrder ==
  ASSUME NEW a \in Nat, NEW b \in Nat, a <= b
  PROVE  ~(b < a)
  OBVIOUS

LEMMA CreateTemplateKept == ScheduleInv /\ CreateTemplate => ScheduleInv'
<1> SUFFICES ASSUME ScheduleInv, CreateTemplate PROVE ScheduleInv'
  OBVIOUS
<1>1. /\ template = NoTemplate
      /\ UNCHANGED <<today, bill, events, done, funds, booked, call, races>>
  BY DEF CreateTemplate, eventVars
<1>2. PICK q \in CreateRequests :
        /\ q.start <= q.end /\ ResolveReminder(q.enabled, q.offset)
        /\ template' = [row |-> "live", start |-> q.start, end |-> q.end, active |-> TRUE,
                        mode |-> q.mode, amount |-> ResolveAmount(q.mode),
                        enabled |-> q.enabled, offset |-> q.offset, category |-> q.category]
  BY ScheduleAssumption DEF CreateTemplate
<1>3. /\ q.start \in Nat /\ q.end \in Nat /\ q.mode \in {"FIXED", "FLEXIBLE"}
      /\ q.enabled \in BOOLEAN /\ q.offset \in Numbers /\ q.category \in BOOLEAN
  BY <1>2, ScheduleNumbers DEF CreateRequests, Dates, Numbers
<1>4. PICK on \in BOOLEAN, cat \in BOOLEAN, act \in BOOLEAN :
        on = q.enabled /\ cat = q.category /\ act = TRUE
  BY <1>3
<1>5. template' = [row |-> "live", start |-> q.start, end |-> q.end, active |-> act,
                   mode |-> q.mode, amount |-> ResolveAmount(q.mode),
                   enabled |-> on, offset |-> q.offset, category |-> cat]
  BY <1>2, <1>4
<1>6. /\ template' \in TemplateRow
      /\ template'.start = q.start /\ template'.end = q.end /\ template'.mode = q.mode
      /\ template'.amount = ResolveAmount(q.mode) /\ template'.enabled = on
      /\ template'.offset = q.offset
  BY <1>3, <1>4, <1>5, AmountIsNumber DEF TemplateRow
<1>7. Fits(template') /\ ~(template'.end < template'.start)
  BY <1>2, <1>3, <1>4, <1>6, DatesInOrder DEF Fits, ResolveReminder
<1>8. ScheduleTypes'
  BY <1>1, <1>6, NothingBooked DEF ScheduleInv, ScheduleTypes
<1>9. TemplateInv'
  BY <1>1, <1>7 DEF ScheduleInv, TemplateInv
<1>10. BookInv'
  <2>1. template # Gone /\ template' # Gone
    BY <1>1, <1>6 DEF NoTemplate, Gone, TemplateRow
  <2>2. QED
    BY <1>1, <2>1, BooksAlone
<1>11. PayInv'
  <2>1. BookedFor(Installment)' = BookedFor(Installment)
    BY <1>1 DEF BookedFor
  <2>2. QED
    BY <1>1, <2>1, PaymentsAlone
<1>12. QED
  BY <1>8, <1>9, <1>10, <1>11 DEF ScheduleInv

LEMMA LiveIsRow == ScheduleTypes /\ Live => template \in TemplateRow
  BY DEF ScheduleTypes, Live, NoTemplate, Gone

LEMMA ReadTemplateKept ==
  ASSUME ScheduleInv, NEW c \in Calls, ReadTemplate(c) PROVE ScheduleInv'
<1>1. /\ ScheduleTypes /\ Live
      /\ UNCHANGED <<today, bill, template, events, done, funds, booked, races>>
  BY DEF ScheduleInv, ReadTemplate, eventVars
<1>2. PICK q \in UpdateRequests :
        LET m == MergeTemplate(template, q) IN
        /\ m.start <= m.end /\ ResolveReminder(m.enabled, m.offset)
        /\ call' = [call EXCEPT ![c] = [op |-> "update", step |-> "write", asked |-> q, merged |-> m]]
  BY ScheduleAssumption DEF ReadTemplate, Remember
<1> DEFINE m == MergeTemplate(template, q)
<1>3. template \in TemplateRow
  BY <1>1, LiveIsRow
<1>4. /\ m \in TemplateRow /\ m.start = Or(q.start, template.start) /\ m.end = Or(q.end, template.end)
      /\ Fits(m)
  BY <1>2, <1>3, MergeIsRow DEF Fits
<1> HIDE DEF m
<1> DEFINE r == [op |-> "update", step |-> "write", asked |-> q, merged |-> m]
<1>5. r \in ScheduleCalls /\ r.op = "update" /\ r.asked = q /\ r.merged = m
  BY <1>4 DEF ScheduleCalls, UpdateCalls
<1>6. call' = [call EXCEPT ![c] = r] /\ m.start <= m.end
  BY <1>2 DEF m
<1> HIDE DEF r
<1>7. /\ call' \in [Calls -> ScheduleCalls] /\ call'[c] = r
      /\ \A d \in Calls \ {c} : call'[d] = call[d]
  BY <1>1, <1>5, <1>6, CallMoves
<1>8. ScheduleTypes'
  BY <1>1, <1>7, NothingBooked DEF ScheduleTypes
<1>9. TemplateInv'
  <2>1. template # NoTemplate
    BY <1>1 DEF Live, NoTemplate
  <2>2. ASSUME NEW d \in Calls, call'[d].op = "update"
        PROVE  /\ Fits(call'[d].merged)
               /\ Live /\ "template" \notin races =>
                    /\ call'[d].merged.start <= call'[d].merged.end
                    /\ call'[d].merged.start = Or(call'[d].asked.start, template.start)
                    /\ call'[d].merged.end = Or(call'[d].asked.end, template.end)
    <3>1. CASE d = c
      BY <1>4, <1>5, <1>6, <1>7, <3>1
    <3>2. CASE d # c
      BY <1>7, <2>2, <3>2 DEF ScheduleInv, TemplateInv
    <3>3. QED
      BY <3>1, <3>2
  <2>3. QED
    BY <1>1, <2>1, <2>2 DEF ScheduleInv, TemplateInv, Live
<1>10. BookInv'
  BY <1>1, BooksAlone DEF ScheduleInv, BookInv
<1>11. PayInv'
  <2>1. BookedFor(Installment)' = BookedFor(Installment)
    BY <1>1 DEF BookedFor
  <2>2. \A d \in Calls : call'[d].op = "pay" => call[d].op = "pay" /\ call'[d].seen = call[d].seen
    BY <1>5, <1>7
  <2>3. QED
    BY <1>1, <2>1, <2>2, PaymentsAlone
<1>12. QED
  BY <1>8, <1>9, <1>10, <1>11 DEF ScheduleInv

(* Dates come from the stored row where the request brings none: together  *)
(* with those that were validated only if no other update overlapped.      *)
LEMMA UpdateKept ==
  ASSUME ScheduleInv, NEW c \in Calls, UpdateTemplate(c) PROVE ScheduleInv'
<1>1. ScheduleTypes /\ TemplateInv /\ BookInv /\ PayInv
  BY DEF ScheduleInv
<1>2. /\ Answered(c) /\ Race(c, "update", "template")
      /\ UNCHANGED <<today, bill, events, done, funds, booked>>
      /\ call[c].op = "update" /\ call[c] \in UpdateCalls
  BY <1>1, CallsByOp DEF UpdateTemplate, At, eventVars
<1>3. PICK q \in UpdateRequests, m \in TemplateRow : q = call[c].asked /\ m = call[c].merged
  BY <1>2 DEF UpdateCalls
<1>4. /\ call' \in [Calls -> ScheduleCalls]
      /\ \A d \in Calls : call'[d].op = "pay" => call[d].op = "pay" /\ call'[d].seen = call[d].seen
      /\ \A d \in Calls : call'[d].op # "none" => d # c /\ call'[d] = call[d]
  BY <1>2, CallDone
<1>5. /\ races' \in {races, races \cup {"template"}}
      /\ "template" \in races' \/ \A d \in Calls \ {c} : call[d].op # "update"
  BY <1>2 DEF Race, Overlaps
<1>6. /\ ~Live => template' = template
      /\ Live => /\ template' \in TemplateRow
                 /\ Fits(template')
                 /\ template'.end < template'.start => "template" \in races'
  <2>1. CASE ~Live
    BY <2>1 DEF UpdateTemplate
  <2>2. CASE Live
    <3>1. template \in TemplateRow
      BY <1>1, <2>2, LiveIsRow
    <3>2. PICK s \in Nat, e \in Nat, a \in BOOLEAN :
            /\ s = Or(q.start, template.start) /\ e = Or(q.end, template.end)
            /\ a = Or(q.active, template.active)
      <4>1. /\ q.start \in Optional(Dates) /\ q.end \in Optional(Dates) /\ q.active \in Optional(BOOLEAN)
        BY DEF UpdateRequests
      <4>2. /\ template.start \in Nat /\ template.end \in Nat /\ template.active \in BOOLEAN
        BY <3>1 DEF TemplateRow
      <4>3. /\ Or(q.start, template.start) \in Dates \cup {template.start}
            /\ Or(q.end, template.end) \in Dates \cup {template.end}
            /\ Or(q.active, template.active) \in BOOLEAN \cup {template.active}
        BY <4>1, OrIsOneOfBoth
      <4>4. Dates \subseteq Nat
        BY ScheduleNumbers DEF Dates
      <4>5. QED
        BY <4>2, <4>3, <4>4
    <3>3. template' = [m EXCEPT !.start = s, !.end = e, !.active = a]
      BY <1>3, <2>2, <3>2 DEF UpdateTemplate
    <3>4. /\ template' \in TemplateRow /\ template'.start = s /\ template'.end = e
          /\ template'.amount = m.amount /\ template'.mode = m.mode
          /\ template'.enabled = m.enabled /\ template'.offset = m.offset
      BY <3>3 DEF TemplateRow
    <3>5. Fits(m)
      BY <1>1, <1>2, <1>3 DEF TemplateInv
    <3>6. Fits(template')
      BY <3>4, <3>5 DEF Fits, ResolveReminder
    <3>7. "template" \notin races' => ~(e < s)
      <4>1. SUFFICES ASSUME "template" \notin races PROVE ~(e < s)
        BY <1>5
      <4>2. m.start <= m.end /\ m.start = s /\ m.end = e
        BY <1>1, <1>2, <1>3, <2>2, <3>2, <4>1 DEF TemplateInv
      <4>3. QED
        BY <4>2
    <3>8. QED
      BY <2>2, <3>4, <3>6, <3>7
  <2>3. QED
    BY <2>1, <2>2
<1>7. template' \in {NoTemplate, Gone} \cup TemplateRow
  BY <1>1, <1>6 DEF ScheduleTypes
<1>8. ScheduleTypes'
  BY <1>1, <1>2, <1>4, <1>5, <1>7 DEF ScheduleTypes
<1>9. template # NoTemplate /\ template' # NoTemplate
  BY <1>1, <1>2, <1>6 DEF TemplateInv, TemplateRow, NoTemplate
<1>10. TemplateInv'
  <2>1. Live' => Live
    BY <1>6 DEF Live
  <2>2. Live' => Fits(template)' /\ (template'.end < template'.start => "template" \in races')
    BY <1>6, <2>1 DEF Fits
  <2>3. ASSUME NEW d \in Calls, call'[d].op = "update"
        PROVE  /\ Fits(call[d].merged)' /\ "template" \in races'
    <3>1. d # c /\ call'[d] = call[d] /\ call[d].op = "update"
      BY <1>4, <2>3
    <3>2. QED
      BY <1>1, <1>5, <3>1 DEF TemplateInv, Fits
  <2>4. QED
    BY <1>9, <2>2, <2>3 DEF TemplateInv
<1>11. BookInv'
  <2>1. template' = Gone <=> template = Gone
    BY <1>6 DEF Live, Gone, TemplateRow
  <2>2. QED
    BY <1>1, <1>2, <2>1, BooksAlone DEF BookInv
<1>12. PayInv'
  <2>1. BookedFor(Installment)' = BookedFor(Installment) /\ ("bill" \in races' <=> "bill" \in races)
    BY <1>2, <1>5 DEF BookedFor
  <2>2. QED
    BY <1>1, <1>2, <1>4, <2>1 DEF PayInv, Paid
<1>13. QED
  BY <1>8, <1>10, <1>11, <1>12 DEF ScheduleInv

LEMMA DeleteKept == ScheduleInv /\ DeleteTemplate => ScheduleInv'
<1> SUFFICES ASSUME ScheduleInv, DeleteTemplate PROVE ScheduleInv'
  OBVIOUS
<1>1. /\ Live /\ template' = Gone
      /\ events' = {k \in events : k.of # "template"} /\ done' = done \cap events'
      /\ UNCHANGED <<today, bill, funds, booked, call, races>>
  BY DEF DeleteTemplate, Gone
<1>2. events' \cap TemplateKeys = {}
  BY <1>1 DEF TemplateKeys
<1>3. ScheduleTypes'
  BY <1>1, NothingBooked DEF ScheduleInv, ScheduleTypes
<1>4. TemplateInv'
  BY <1>1 DEF ScheduleInv, TemplateInv, Live, NoTemplate, Gone
<1>5. BookInv'
  BY <1>1, <1>2 DEF ScheduleInv, BookInv, BookedFor, Paid
<1>6. PayInv'
  <2>1. BookedFor(Installment)' = BookedFor(Installment)
    BY <1>1 DEF BookedFor
  <2>2. QED
    BY <1>1, <2>1, PaymentsAlone
<1>7. QED
  BY <1>3, <1>4, <1>5, <1>6 DEF ScheduleInv

LEMMA DayKept == ScheduleInv /\ NextDay => ScheduleInv'
<1> SUFFICES ASSUME ScheduleInv, NextDay PROVE ScheduleInv'
  OBVIOUS
<1>1. /\ today' \in 1..Horizon
      /\ UNCHANGED <<bill, template, events, done, funds, booked, call, races>>
  BY ScheduleNumbers DEF NextDay, eventVars, ScheduleInv, ScheduleTypes
<1>2. ScheduleTypes'
  BY <1>1, NothingBooked DEF ScheduleInv, ScheduleTypes
<1>3. TemplateInv'
  BY <1>1, TemplateAlone
<1>4. BookInv'
  BY <1>1, BooksAlone DEF ScheduleInv, BookInv
<1>5. PayInv'
  <2>1. BookedFor(Installment)' = BookedFor(Installment)
    BY <1>1 DEF BookedFor
  <2>2. QED
    BY <1>1, <2>1, PaymentsAlone
<1>6. QED
  BY <1>2, <1>3, <1>4, <1>5 DEF ScheduleInv

LEMMA AbandonKept ==
  ASSUME ScheduleInv, NEW c \in Calls, Abandon(c) PROVE ScheduleInv'
<1>1. /\ Answered(c)
      /\ UNCHANGED <<today, bill, template, events, done, funds, booked, races>>
  BY DEF Abandon, eventVars
<1>2. /\ call' \in [Calls -> ScheduleCalls]
      /\ \A d \in Calls : call'[d].op = "update" => call'[d] = call[d]
      /\ \A d \in Calls : call'[d].op = "pay" => call[d].op = "pay" /\ call'[d].seen = call[d].seen
  BY <1>1, CallDone
<1>3. ScheduleTypes'
  BY <1>1, <1>2, NothingBooked DEF ScheduleInv, ScheduleTypes
<1>4. TemplateInv'
  BY <1>1, <1>2, TemplateAlone
<1>5. BookInv'
  BY <1>1, BooksAlone DEF ScheduleInv, BookInv
<1>6. PayInv'
  <2>1. BookedFor(Installment)' = BookedFor(Installment)
    BY <1>1 DEF BookedFor
  <2>2. QED
    BY <1>1, <1>2, <2>1, PaymentsAlone
<1>7. QED
  BY <1>3, <1>4, <1>5, <1>6 DEF ScheduleInv

LEMMA ScheduleAlways == ScheduleSpec => []ScheduleInv
<1>1. ScheduleInv /\ UNCHANGED scheduleVars => ScheduleInv'
  <2> SUFFICES ASSUME ScheduleInv, UNCHANGED scheduleVars PROVE ScheduleInv'
    OBVIOUS
  <2>1. UNCHANGED <<today, bill, template, events, done, funds, booked, call, races>>
    BY DEF scheduleVars
  <2>2. ScheduleTypes'
    BY <2>1, NothingBooked DEF ScheduleInv, ScheduleTypes
  <2>3. TemplateInv'
    BY <2>1, TemplateAlone
  <2>4. BookInv'
    BY <2>1, BooksAlone DEF ScheduleInv, BookInv
  <2>5. BookedFor(Installment)' = BookedFor(Installment)
    BY <2>1 DEF BookedFor
  <2>6. PayInv'
    BY <2>1, <2>5, PaymentsAlone
  <2>7. QED
    BY <2>2, <2>3, <2>4, <2>6 DEF ScheduleInv
<1>2. ScheduleInv /\ ScheduleNext => ScheduleInv'
  BY ReadBillKept, CheckKept, PayKept, RefreshKept, ReadReminderKept, ConfirmKept, ReadTemplateKept,
     UpdateKept, AbandonKept, CreateTemplateKept, DeleteKept, DayKept DEF ScheduleNext
<1>3. QED
  BY <1>1, <1>2, ScheduleInvInit, PTL DEF ScheduleSpec

(* The template of recurring transactions stays usable, whatever requests  *)
(* about it overlap (recurringTransaction.service.ts).                     *)
THEOREM TemplateIsUsable == ScheduleSpec => []TemplateStaysUsable
<1>1. ScheduleInv => TemplateStaysUsable
  BY DEF ScheduleInv, TemplateInv, Fits, TemplateStaysUsable
<1>2. QED
  BY <1>1, ScheduleAlways, PTL

(* The sum of the bookings in a set, as the properties compute it.         *)
LEMMA BookedSum ==
  ASSUME NEW S \in SUBSET Bookings, IsFiniteSet(S)
  PROVE  MapThenSumSet(LAMBDA t : t.amount, S) = Total(Price, S)
<1> DEFINE Body(g) == g = [s \in SUBSET S |->
                        IF s = {} THEN 0
                        ELSE (CHOOSE x \in s : TRUE).amount + g[s \ {CHOOSE x \in s : TRUE}]]
<1>1. MapThenSumSet(LAMBDA t : t.amount, S) = (CHOOSE g : Body(g))[S]
  BY DEF MapThenSumSet, MapThenFoldSet
<1>2. ASSUME NEW g PROVE Body(g) <=> SumOver(Price, S, g)
  <2>1. ASSUME NEW s \in SUBSET S, s # {}
        PROVE  Price[Pick(s)] = (CHOOSE x \in s : TRUE).amount
    <3>1. Pick(s) \in Bookings
      BY <2>1, PickIsMember
    <3>2. QED
      BY <3>1 DEF Price, Pick
  <2>2. [s \in SUBSET S |-> IF s = {} THEN 0
           ELSE (CHOOSE x \in s : TRUE).amount + g[s \ {CHOOSE x \in s : TRUE}]]
        = [s \in SUBSET S |-> IF s = {} THEN 0 ELSE Price[Pick(s)] + g[s \ {Pick(s)}]]
    BY <2>1 DEF Pick
  <2>3. QED
    BY <2>2 DEF SumOver
<1> HIDE DEF Body
<1>3. PICK g : SumOver(Price, S, g)
  BY SumsExist
<1>4. SumOver(Price, S, CHOOSE k : Body(k))
  BY <1>2, <1>3
<1>5. QED
  BY <1>1, <1>4, SumsGiveTotal

(* The wallet has lost what the booked transactions sum to, and a          *)
(* confirmed reminder has booked exactly one                               *)
(* (notification.service.ts:179).                                          *)
THEOREM MoneyIsRecorded == ScheduleSpec => []MoneyFollowsRecords
<1>1. ScheduleInv => MoneyFollowsRecords
  <2> SUFFICES ASSUME ScheduleInv PROVE MoneyFollowsRecords
    OBVIOUS
  <2>1. ScheduleTypes /\ BookInv
    BY DEF ScheduleInv
  <2>2. funds = Funds - MapThenSumSet(LAMBDA t : t.amount, booked)
    BY <2>1, BookedSum DEF ScheduleTypes, BookInv
  <2>3. ASSUME NEW k \in events, k \notin done PROVE Paid(k) = 0
    <3>1. k # Installment /\ (k \in TemplateKeys \/ k \in BillKeys)
      BY <2>1 DEF ScheduleTypes, BillKeys, BillKey, TemplateKeys, Installment
    <3>2. ASSUME NEW t \in booked, t.for = k PROVE FALSE
      <4>1. template = Gone
        BY <2>1, <2>3, <3>1, <3>2 DEF BookInv
      <4>2. k \in TemplateKeys
        BY <2>1, <3>1, <3>2 DEF ScheduleTypes, Bookings
      <4>3. QED
        BY <2>1, <4>1, <4>2 DEF BookInv
    <3>3. BookedFor(k) = {}
      BY <3>2 DEF BookedFor
    <3>4. QED
      BY <3>3, FS_EmptySet DEF Paid
  <2>4. QED
    BY <2>1, <2>2, <2>3 DEF MoneyFollowsRecords, BookInv, Paid
<1>2. QED
  BY <1>1, ScheduleAlways, PTL

(* The schedule of an installment follows its payments: every term is paid *)
(* once unless payments overlapped, and then the schedule falls behind but *)
(* never ahead (installment-payment.service.ts).                           *)
THEOREM TermsArePaid == ScheduleSpec => []TermsFollowPayments
<1>1. ScheduleInv => TermsFollowPayments
  <2> SUFFICES ASSUME ScheduleInv PROVE TermsFollowPayments
    OBVIOUS
  <2>1. ScheduleTypes /\ PayInv
    BY DEF ScheduleInv
  <2>2. /\ bill.paid \in 0..Terms /\ bill = BillAt(bill.paid) /\ Paid(Installment) \in Nat
        /\ bill.status = "SETTLED" => bill.paid = Terms
    BY <2>1, OpenBill, BookedIsFinite
  <2>3. ASSUME "bill" \notin races, bill.status = "SETTLED"
        PROVE  MapThenSumSet(LAMBDA t : t.amount, BookedFor(Installment)) = (Terms - 1) * Monthly + Final
    <3>1. Total(Price, BookedFor(Installment)) = Owed(Terms)
      BY <2>1, <2>2, <2>3 DEF PayInv
    <3>2. MapThenSumSet(LAMBDA t : t.amount, BookedFor(Installment)) = Total(Price, BookedFor(Installment))
      BY <2>1, BookedIsFinite, BookedSum
    <3>3. Owed(Terms) = (Terms - 1) * Monthly + Final
      BY ScheduleNumbers DEF Owed
    <3>4. QED
      BY <3>1, <3>2, <3>3
  <2>4. ASSUME NEW k \in events, k.of = "bill", Completed(k)
        PROVE  Paid(Installment) > (k.due - FirstDue) \div MonthLength
    <3>1. PICK i \in 0..(Terms - 1) : k = BillKey(BillDue(i))
      BY <2>1, <2>4 DEF ScheduleTypes, BillKeys, TemplateKeys
    <3>2. i \in Nat /\ i < Terms /\ k.due = BillDue(i)
      BY <3>1, ScheduleNumbers DEF BillKey
    <3>3. (k.due - FirstDue) \div MonthLength = i
      BY <3>2, BillDueGrows
    <3>4. bill.paid > i
      <4>1. CASE bill.status = "SETTLED"
        BY <2>2, <3>2, <4>1
      <4>2. CASE bill.due > k.due
        <5>1. PICK j \in Nat : bill.due = BillDue(j) /\ j <= bill.paid
          <6>1. CASE bill.paid < Terms
            BY <2>2, <6>1, BillFields
          <6>2. CASE bill.paid = Terms
            <7>1. Terms - 1 \in Nat /\ Terms - 1 <= Terms
              BY ScheduleNumbers
            <7>2. QED
              BY <2>2, <6>2, <7>1, BillFields
          <6>3. QED
            BY <2>2, <6>1, <6>2, ScheduleNumbers
        <5>2. BillDue(i) < BillDue(j)
          BY <3>2, <4>2, <5>1, BillDueGrows
        <5>3. i < j
          BY <3>2, <5>2, BillDueGrows
        <5>4. QED
          BY <2>2, <3>2, <5>1, <5>3
      <4>3. QED
        BY <2>4, <4>1, <4>2 DEF Completed
    <3>5. QED
      BY <2>1, <2>2, <3>2, <3>3, <3>4 DEF PayInv
  <2>5. QED
    BY <2>1, <2>3, <2>4 DEF TermsFollowPayments, PayInv, Paid
<1>2. QED
  BY <1>1, ScheduleAlways, PTL

(* The installment, the template, the events and the money keep their      *)
(* types.                                                                  *)
THEOREM ScheduleTypeCorrect == ScheduleSpec => []ScheduleTypeOK
<1>1. ScheduleInv => ScheduleTypeOK
  <2> SUFFICES ASSUME ScheduleInv PROVE ScheduleTypeOK
    OBVIOUS
  <2>1. ScheduleTypes
    BY DEF ScheduleInv
  <2>2. PICK j \in 0..Terms : bill = BillAt(j)
    BY <2>1 DEF ScheduleTypes
  <2>3. bill \in [paid : 0..Terms, term : 1..Terms, due : Nat, status : {"ACTIVE", "SETTLED"}]
    <3>1. BillAt(j).status \in {"ACTIVE", "SETTLED"}
      BY BillFields
    <3>2. /\ BillAt(j).paid \in 0..Terms /\ BillAt(j).term \in 1..Terms
          /\ BillAt(j).due \in Nat
      BY BillFields
    <3>3. QED
      BY <2>2, <3>1, <3>2 DEF BillAt
  <2>4. template.row \in {"none", "live", "gone"}
    BY <2>1 DEF ScheduleTypes, NoTemplate, Gone, TemplateRow
  <2>5. QED
    BY <2>1, <2>3, <2>4 DEF ScheduleTypes, ScheduleTypeOK
<1>2. QED
  BY <1>1, ScheduleAlways, PTL

-----------------------------------------------------------------------------
(***************************************************************************)
(* Reconciliation and repairs: ReconciliationSpec                          *)
(***************************************************************************)

Pasts == [rows : History, opening : [AuditedWallets -> Openings],
          override : [AuditedWallets -> Overrides], recorded : SUBSET AuditedWallets,
          verified : SUBSET AuditedWallets]

(* What happened, happened to wallets whose verified balance is recorded.  *)
PastInv == past = NewAccount \/ (past \in Pasts /\ past.verified \subseteq past.recorded)

StoredRows == UNION History
DeltaOf(w) == [x \in StoredRows |-> Delta(x, w)]
EffectOf(w) == [x \in StoredRows |-> Effect(x, w)]

LEMMA RowsAreCounted ==
  ASSUME NEW w
  PROVE  DeltaOf(w) \in [StoredRows -> Int] /\ EffectOf(w) \in [StoredRows -> Int]
<1>1. ASSUME NEW x \in StoredRows PROVE Delta(x, w) \in Int /\ Effect(x, w) \in Int
  <2>1. PICK a \in Nat, g \in Nat, l \in Nat : a = x.amount /\ g = x.grand /\ l = x.lock
    BY ReconciliationAssumption DEF StoredRows
  <2>2. QED
    BY <2>1 DEF Delta, Effect
<1>2. QED
  BY <1>1 DEF DeltaOf, EffectOf

LEMMA DeltaSum ==
  ASSUME NEW w, NEW S \in History
  PROVE  MapThenSumSet(LAMBDA x : Delta(x, w), S) = Total(DeltaOf(w), S)
<1> DEFINE Body(g) == g = [s \in SUBSET S |->
                        IF s = {} THEN 0
                        ELSE Delta(CHOOSE x \in s : TRUE, w) + g[s \ {CHOOSE x \in s : TRUE}]]
<1>1. MapThenSumSet(LAMBDA x : Delta(x, w), S) = (CHOOSE g : Body(g))[S]
  BY DEF MapThenSumSet, MapThenFoldSet
<1>2. ASSUME NEW g PROVE Body(g) <=> SumOver(DeltaOf(w), S, g)
  <2>1. ASSUME NEW s \in SUBSET S, s # {}
        PROVE  DeltaOf(w)[Pick(s)] = Delta(CHOOSE x \in s : TRUE, w)
    <3>1. Pick(s) \in StoredRows
      BY <2>1, PickIsMember DEF StoredRows
    <3>2. QED
      BY <3>1 DEF DeltaOf, Pick
  <2>2. [s \in SUBSET S |-> IF s = {} THEN 0
           ELSE Delta(CHOOSE x \in s : TRUE, w) + g[s \ {CHOOSE x \in s : TRUE}]]
        = [s \in SUBSET S |-> IF s = {} THEN 0 ELSE DeltaOf(w)[Pick(s)] + g[s \ {Pick(s)}]]
    BY <2>1 DEF Pick
  <2>3. QED
    BY <2>2 DEF SumOver
<1> HIDE DEF Body
<1>3. IsFiniteSet(S)
  BY ReconciliationAssumption
<1>4. PICK g : SumOver(DeltaOf(w), S, g)
  BY <1>3, SumsExist
<1>5. SumOver(DeltaOf(w), S, CHOOSE k : Body(k))
  BY <1>2, <1>4
<1>6. QED
  BY <1>1, <1>3, <1>5, SumsGiveTotal

LEMMA EffectSum ==
  ASSUME NEW w, NEW S \in History
  PROVE  MapThenSumSet(LAMBDA x : Effect(x, w), S) = Total(EffectOf(w), S)
<1> DEFINE Body(g) == g = [s \in SUBSET S |->
                        IF s = {} THEN 0
                        ELSE Effect(CHOOSE x \in s : TRUE, w) + g[s \ {CHOOSE x \in s : TRUE}]]
<1>1. MapThenSumSet(LAMBDA x : Effect(x, w), S) = (CHOOSE g : Body(g))[S]
  BY DEF MapThenSumSet, MapThenFoldSet
<1>2. ASSUME NEW g PROVE Body(g) <=> SumOver(EffectOf(w), S, g)
  <2>1. ASSUME NEW s \in SUBSET S, s # {}
        PROVE  EffectOf(w)[Pick(s)] = Effect(CHOOSE x \in s : TRUE, w)
    <3>1. Pick(s) \in StoredRows
      BY <2>1, PickIsMember DEF StoredRows
    <3>2. QED
      BY <3>1 DEF EffectOf, Pick
  <2>2. [s \in SUBSET S |-> IF s = {} THEN 0
           ELSE Effect(CHOOSE x \in s : TRUE, w) + g[s \ {CHOOSE x \in s : TRUE}]]
        = [s \in SUBSET S |-> IF s = {} THEN 0 ELSE EffectOf(w)[Pick(s)] + g[s \ {Pick(s)}]]
    BY <2>1 DEF Pick
  <2>3. QED
    BY <2>2 DEF SumOver
<1> HIDE DEF Body
<1>3. IsFiniteSet(S)
  BY ReconciliationAssumption
<1>4. PICK g : SumOver(EffectOf(w), S, g)
  BY <1>3, SumsExist
<1>5. SumOver(EffectOf(w), S, CHOOSE k : Body(k))
  BY <1>2, <1>4
<1>6. QED
  BY <1>1, <1>3, <1>5, SumsGiveTotal

(* Rows that tell where their money went count for what they did. *)
LEMMA RowsTellTheirEffect ==
  ASSUME NEW w \in AuditedWallets, NEW S \in History, ToldBy(S, w)
  PROVE  Total(DeltaOf(w), S) = Total(EffectOf(w), S)
<1>1. ASSUME NEW x \in S PROVE DeltaOf(w)[x] = EffectOf(w)[x]
  <2>1. x \in StoredRows
    BY DEF StoredRows
  <2>2. /\ x.type \in {"INCOME", "EXPENSE", "TRANSFER", "INSTALLMENT"}
        /\ x.amount \in Nat /\ x.grand \in Nat /\ x.lock \in Nat \ {0}
        /\ x.type # "INSTALLMENT" => x.lock = x.amount
        /\ x.type # "TRANSFER" => x.credited # w
        /\ x.type = "TRANSFER" /\ x.to # Nowhere => x.credited = x.to
        /\ w # Nowhere
    BY <2>1, ReconciliationAssumption DEF StoredRows
  <2>3. /\ x.type = "TRANSFER" => (x.to = w <=> x.credited = w)
        /\ x.type = "INSTALLMENT" /\ x.from = w => x.grand = x.lock
    BY <2>2 DEF ToldBy, Legacy
  <2>4. Delta(x, w) = Effect(x, w)
    <3>1. PICK m \in Nat, g \in Nat, l \in Nat \ {0} : m = x.amount /\ g = x.grand /\ l = x.lock
      BY <2>2
    <3>2. CASE x.from = w
      BY <2>2, <2>3, <3>1, <3>2 DEF Delta, Effect, NoGrand
    <3>3. CASE x.from # w
      BY <2>2, <2>3, <3>1, <3>3 DEF Delta, Effect
    <3>4. QED
      BY <3>2, <3>3
  <2>5. QED
    BY <2>1, <2>4 DEF DeltaOf, EffectOf
<1>2. ASSUME NEW g PROVE SumOver(DeltaOf(w), S, g) <=> SumOver(EffectOf(w), S, g)
  <2>1. ASSUME NEW s \in SUBSET S, s # {} PROVE DeltaOf(w)[Pick(s)] = EffectOf(w)[Pick(s)]
    BY <1>1, <2>1, PickIsMember
  <2>2. [s \in SUBSET S |-> IF s = {} THEN 0 ELSE DeltaOf(w)[Pick(s)] + g[s \ {Pick(s)}]]
        = [s \in SUBSET S |-> IF s = {} THEN 0 ELSE EffectOf(w)[Pick(s)] + g[s \ {Pick(s)}]]
    BY <2>1
  <2>3. QED
    BY <2>2 DEF SumOver
<1>3. IsFiniteSet(S)
  BY ReconciliationAssumption
<1>4. PICK g : SumOver(DeltaOf(w), S, g)
  BY <1>3, SumsExist
<1>5. QED
  BY <1>2, <1>3, <1>4, SumsGiveTotal

(* What an audit reads: integers, and no unresolved transfers where it     *)
(* counted none.                                                           *)
LEMMA AuditReads ==
  ASSUME past \in Pasts, NEW w \in AuditedWallets
  PROVE  /\ past.rows \in History
         /\ past.opening[w] \in Int /\ past.override[w] \in Int
         /\ Snapshot.initial[w] = IF w \in past.recorded THEN past.opening[w] ELSE 0
         /\ TrueBalance(w) = past.opening[w] + Total(EffectOf(w), past.rows)
         /\ Expected(w, Snapshot.initial[w], past.rows)
              = Snapshot.initial[w] + Total(DeltaOf(w), past.rows)
         /\ Total(EffectOf(w), past.rows) \in Int /\ Total(DeltaOf(w), past.rows) \in Int
         /\ Snapshot.balance[w] = TrueBalance(w) + past.override[w]
         /\ LegacyCount(w, past.rows) \in Nat
         /\ LegacyCount(w, past.rows) = 0 <=> \A x \in past.rows : Legacy(x) => x.from # w
<1>1. past.rows \in History /\ past.opening[w] \in Int /\ past.override[w] \in Int
  <2>1. /\ past.rows \in History /\ past.opening \in [AuditedWallets -> Openings]
        /\ past.override \in [AuditedWallets -> Overrides]
    BY DEF Pasts
  <2>2. past.opening[w] \in Openings /\ past.override[w] \in Overrides
    BY <2>1
  <2>3. Openings \subseteq Nat /\ Overrides \subseteq Int
    BY ReconciliationAssumption
  <2>4. past.opening[w] \in Nat
    BY <2>2, <2>3
  <2>5. past.override[w] \in Int
    BY <2>2, <2>3
  <2>6. QED
    BY <2>1, <2>4, <2>5
<1>2. IsFiniteSet(past.rows) /\ past.rows \subseteq StoredRows
  BY <1>1, ReconciliationAssumption DEF StoredRows
<1>3. Total(EffectOf(w), past.rows) \in Int /\ Total(DeltaOf(w), past.rows) \in Int
  BY <1>2, RowsAreCounted, TotalIsInt
<1>4. TrueBalance(w) = past.opening[w] + Total(EffectOf(w), past.rows)
  BY <1>1, EffectSum DEF TrueBalance
<1>5. Expected(w, Snapshot.initial[w], past.rows)
        = Snapshot.initial[w] + Total(DeltaOf(w), past.rows)
  BY <1>1, DeltaSum DEF Expected
<1>6. /\ Snapshot.initial[w] = IF w \in past.recorded THEN past.opening[w] ELSE 0
      /\ Snapshot.balance[w] = TrueBalance(w) + past.override[w]
  BY DEF Snapshot
<1> DEFINE L == {x \in past.rows : Legacy(x) /\ x.from = w}
<1>7. IsFiniteSet(L)
  BY <1>2, FS_Subset
<1>8. Cardinality(L) \in Nat /\ (Cardinality(L) = 0 <=> L = {})
  BY <1>7, FS_CardinalityType, FS_EmptySet
<1>9. QED
  BY <1>1, <1>3, <1>4, <1>5, <1>6, <1>8 DEF LegacyCount

(* An audit's numbers, and its class: clean is the only certain one. *)
LEMMA AuditOfWallet ==
  ASSUME past \in Pasts, NEW w \in AuditedWallets, NEW suspected
  PROVE  LET a == Audit(w, Snapshot, suspected)
         IN /\ a.wallet = w /\ a.stored = Snapshot.balance[w]
            /\ a.expected = Snapshot.initial[w] + Total(DeltaOf(w), past.rows)
            /\ a.stored \in Int /\ a.expected \in Int
            /\ a.legacy = LegacyCount(w, past.rows)
            /\ a.classification = "CLEAN" <=> a.stored = a.expected
            /\ a.classification # "CLEAN" => a.confidence # "HIGH"
<1> DEFINE a == Audit(w, Snapshot, suspected)
           d == Snapshot.balance[w] - Expected(w, Snapshot.initial[w], past.rows)
           c == Classify(d, LegacyCount(w, past.rows) > 0, Snapshot.initial[w] = 0, w \in suspected)
<1>1. Snapshot.rows = past.rows
  BY DEF Snapshot
<1>2. /\ a.wallet = w /\ a.stored = Snapshot.balance[w]
      /\ a.expected = Expected(w, Snapshot.initial[w], past.rows)
      /\ a.legacy = LegacyCount(w, past.rows)
      /\ a.classification = c.classification /\ a.confidence = c.confidence
  BY <1>1 DEF Audit
<1>3. a.expected = Snapshot.initial[w] + Total(DeltaOf(w), past.rows)
  BY <1>2, AuditReads
<1>4. a.stored \in Int /\ a.expected \in Int
  BY <1>2, <1>3, AuditReads
<1>5. d = 0 <=> a.stored = a.expected
  BY <1>2, <1>4
<1> HIDE DEF a, d
<1>6. /\ c.classification = "CLEAN" <=> d = 0
      /\ c.classification # "CLEAN" => c.confidence # "HIGH"
  BY DEF Classify
<1> HIDE DEF c
<1>7. QED
  BY <1>2, <1>3, <1>4, <1>5, <1>6 DEF a

(* An automatic repair restores the true balance of a wallet whose rows    *)
(* tell what became of it.                                                 *)
LEMMA RepairsAreRight == ASSUME past \in Pasts, past.verified \subseteq past.recorded
                         PROVE  AppliedRepairsAreRight
<1>1. SUFFICES ASSUME NEW p \in BuildRepairPlan(Report(Snapshot, {}), past.verified),
                      p.autoApply, ToldBy(past.rows, p.wallet)
               PROVE  p.balance = TrueBalance(p.wallet)
  BY DEF AppliedRepairsAreRight
<1>2. PICK a \in Report(Snapshot, {}) :
         a.classification # "CLEAN" /\ p.wallet = a.wallet /\ p.balance = a.expected
         /\ p.autoApply = (Confidence(a, past.verified) = "HIGH")
  BY DEF BuildRepairPlan
<1>3. PICK w \in AuditedWallets : a = Audit(w, Snapshot, {})
  BY DEF Report
<1>4. /\ a.wallet = w /\ a.expected = Snapshot.initial[w] + Total(DeltaOf(w), past.rows)
      /\ a.legacy = LegacyCount(w, past.rows) /\ a.confidence # "HIGH"
  BY <1>2, <1>3, AuditOfWallet
<1>5. w \in past.verified
  BY <1>1, <1>2, <1>4 DEF Confidence
<1>6. w \in past.recorded /\ past.rows \in History
  BY <1>5, AuditReads
<1>7. Total(DeltaOf(w), past.rows) = Total(EffectOf(w), past.rows)
  BY <1>1, <1>2, <1>4, <1>6, RowsTellTheirEffect
<1>8. QED
  BY <1>2, <1>4, <1>6, <1>7, AuditReads

LEMMA DifferenceSum ==
  ASSUME NEW S, IsFiniteSet(S)
  PROVE  MapThenSumSet(LAMBDA p : p.difference, S) = Total([p \in S |-> p.difference], S)
<1> DEFINE F == [p \in S |-> p.difference]
           Body(g) == g = [s \in SUBSET S |->
                        IF s = {} THEN 0
                        ELSE (CHOOSE x \in s : TRUE).difference + g[s \ {CHOOSE x \in s : TRUE}]]
<1>1. MapThenSumSet(LAMBDA p : p.difference, S) = (CHOOSE g : Body(g))[S]
  BY DEF MapThenSumSet, MapThenFoldSet
<1>2. ASSUME NEW g PROVE Body(g) <=> SumOver(F, S, g)
  <2>1. ASSUME NEW s \in SUBSET S, s # {} PROVE F[Pick(s)] = (CHOOSE x \in s : TRUE).difference
    <3>1. Pick(s) \in S
      BY <2>1, PickIsMember
    <3>2. QED
      BY <3>1 DEF Pick
  <2>2. [s \in SUBSET S |-> IF s = {} THEN 0
           ELSE (CHOOSE x \in s : TRUE).difference + g[s \ {CHOOSE x \in s : TRUE}]]
        = [s \in SUBSET S |-> IF s = {} THEN 0 ELSE F[Pick(s)] + g[s \ {Pick(s)}]]
    BY <2>1 DEF Pick
  <2>3. QED
    BY <2>2 DEF SumOver
<1> HIDE DEF Body, F
<1>3. PICK g : SumOver(F, S, g)
  BY SumsExist
<1>4. SumOver(F, S, CHOOSE k : Body(k))
  BY <1>2, <1>3
<1>5. QED
  BY <1>1, <1>4, SumsGiveTotal DEF F

LEMMA DifferenceOfOne ==
  ASSUME NEW r, r.difference \in Int
  PROVE  /\ MapThenSumSet(LAMBDA p : p.difference, {}) = 0
         /\ MapThenSumSet(LAMBDA p : p.difference, {r}) = r.difference
<1> DEFINE F == [p \in {r} |-> p.difference]
<1>1. IsFiniteSet({}) /\ IsFiniteSet({r})
  BY FS_EmptySet, FS_Singleton
<1>2. MapThenSumSet(LAMBDA p : p.difference, {}) = 0
  <2>1. MapThenSumSet(LAMBDA p : p.difference, {}) = Total([p \in {} |-> p.difference], {})
    BY <1>1, DifferenceSum
  <2>2. Total([p \in {} |-> p.difference], {}) = 0
    BY <1>1, TotalOfNothing
  <2>3. QED
    BY <2>1, <2>2
<1>3. F \in [{r} -> Int] /\ F[r] = r.difference
  OBVIOUS
<1> HIDE DEF F
<1>4. Total(F, {}) = 0
  BY <1>1, TotalOfNothing
<1>5. Total(F, {} \cup {r}) = Total(F, {}) + F[r]
  BY <1>1, <1>3, TotalGrows
<1>6. {} \cup {r} = {r}
  OBVIOUS
<1>7. Total(F, {r}) = r.difference
  BY <1>3, <1>4, <1>5, <1>6
<1>8. MapThenSumSet(LAMBDA p : p.difference, {r}) = Total(F, {r})
  BY <1>1, DifferenceSum DEF F
<1>9. QED
  BY <1>2, <1>7, <1>8

(* The one entry of a plan for a wallet that has drifted makes up for the  *)
(* drift.                                                                  *)
LEMMA PlanEntries ==
  ASSUME past \in Pasts, NEW w \in AuditedWallets
  PROVE  LET entries == {p \in BuildRepairPlan(Report(Snapshot, {}), {}) : p.wallet = w}
             a == Audit(w, Snapshot, {})
         IN /\ a.stored = a.expected => entries = {}
            /\ a.stored # a.expected =>
                 \E r : entries = {r} /\ r.difference = a.expected - a.stored
<1> DEFINE plan == BuildRepairPlan(Report(Snapshot, {}), {})
           entries == {p \in plan : p.wallet = w}
           a == Audit(w, Snapshot, {})
           repair(x) == [wallet |-> x.wallet, balance |-> x.expected,
                         difference |-> x.expected - x.stored,
                         autoApply |-> Confidence(x, {}) = "HIGH",
                         manual |-> Confidence(x, {}) = "LOW"]
<1>1. plan = {repair(x) : x \in {b \in Report(Snapshot, {}) : b.classification # "CLEAN"}}
  BY DEF BuildRepairPlan
<1>2. \A x \in Report(Snapshot, {}) : x.wallet = w => x = a
  BY AuditOfWallet DEF Report
<1>3. a \in Report(Snapshot, {}) /\ a.wallet = w
  BY AuditOfWallet DEF Report
<1>4. a.classification = "CLEAN" <=> a.stored = a.expected
  BY AuditOfWallet
<1>5. \A x : repair(x).wallet = x.wallet /\ repair(x).difference = x.expected - x.stored
  OBVIOUS
<1> HIDE DEF a, repair, plan
<1>6. a.stored = a.expected => entries = {}
  BY <1>1, <1>2, <1>4, <1>5
<1>7. a.stored # a.expected => entries = {repair(a)}
  BY <1>1, <1>2, <1>3, <1>4, <1>5
<1> HIDE DEF entries
<1>8. a.stored # a.expected => \E r : entries = {r} /\ r.difference = a.expected - a.stored
  BY <1>5, <1>7
<1>9. QED
  BY <1>6, <1>8 DEF entries, plan, a

(* A plan leaves nothing to repair. *)
LEMMA PlanSettlesWallet ==
  ASSUME past \in Pasts, NEW w \in AuditedWallets
  PROVE  LET entries == {p \in BuildRepairPlan(Report(Snapshot, {}), {}) : p.wallet = w}
         IN Snapshot.balance[w] + MapThenSumSet(LAMBDA p : p.difference, entries)
              = Expected(w, Snapshot.initial[w], past.rows)
<1> DEFINE entries == {p \in BuildRepairPlan(Report(Snapshot, {}), {}) : p.wallet = w}
           a == Audit(w, Snapshot, {})
           sum(S) == MapThenSumSet(LAMBDA p : p.difference, S)
<1>1. /\ a.stored = Snapshot.balance[w]
      /\ a.expected = Expected(w, Snapshot.initial[w], past.rows)
      /\ a.stored \in Int /\ a.expected \in Int
  BY AuditOfWallet, AuditReads
<1>2. /\ a.stored = a.expected => entries = {}
      /\ a.stored # a.expected =>
           \E r : entries = {r} /\ r.difference = a.expected - a.stored
  BY PlanEntries
<1>3. SUFFICES Snapshot.balance[w] + sum(entries) = a.expected
  BY <1>1
<1>4. sum({}) = 0 /\ \A r : r.difference \in Int => sum({r}) = r.difference
  <2>1. sum({}) = 0
    <3>1. PICK r : r = [difference |-> 0]
      OBVIOUS
    <3>2. r.difference \in Int
      BY <3>1
    <3>3. QED
      BY <3>2, DifferenceOfOne
  <2>2. QED
    BY <2>1, DifferenceOfOne
<1> HIDE DEF a, entries, sum
<1>5. CASE a.stored = a.expected
  BY <1>1, <1>2, <1>4, <1>5
<1>6. CASE a.stored # a.expected
  <2>1. PICK r : entries = {r} /\ r.difference = a.expected - a.stored
    BY <1>2, <1>6
  <2>2. r.difference \in Int
    BY <1>1, <2>1
  <2>3. sum(entries) = a.expected - a.stored
    BY <1>4, <2>1, <2>2
  <2>4. QED
    BY <1>1, <2>3
<1>7. QED
  BY <1>5, <1>6

LEMMA PlanSettles == ASSUME past \in Pasts PROVE PlansSettle
<1> DEFINE report == Report(Snapshot, {})
           plan == BuildRepairPlan(report, {})
           entries(w) == {p \in plan : p.wallet = w}
           sum(S) == MapThenSumSet(LAMBDA p : p.difference, S)
           after == [Snapshot EXCEPT !.balance = [w \in AuditedWallets |-> @[w] + sum(entries(w))]]
<1>1. /\ Command(Snapshot, TRUE).plan = plan /\ Command(Snapshot, FALSE).exit = 1
      /\ Command(Snapshot, TRUE).exit = IF HasDrift(report) THEN 2 ELSE 0
  BY DEF Command
<1>2. /\ after.rows = past.rows /\ after.initial = Snapshot.initial
      /\ \A w \in AuditedWallets : after.balance[w] = Snapshot.balance[w] + sum(entries(w))
  BY DEF Snapshot
<1>3. ASSUME NEW w \in AuditedWallets PROVE Audit(w, after, {}).classification = "CLEAN"
  <2>1. after.balance[w] = Expected(w, Snapshot.initial[w], past.rows)
    BY <1>2, PlanSettlesWallet
  <2>2. Expected(w, Snapshot.initial[w], past.rows) \in Int
    BY AuditOfWallet, AuditReads
  <2>3. after.balance[w] - Expected(w, after.initial[w], after.rows) = 0
    BY <1>2, <2>1, <2>2
  <2> HIDE DEF after
  <2>4. QED
    BY <2>3 DEF Audit, Classify
<1>4. ~HasDrift(Report(after, {}))
  BY <1>3 DEF HasDrift, Report
<1>5. ASSUME NEW p \in plan PROVE ~p.autoApply
  <2>1. PICK a \in report : a.classification # "CLEAN"
                            /\ p.autoApply = (Confidence(a, {}) = "HIGH")
    BY DEF BuildRepairPlan
  <2>2. PICK w \in AuditedWallets : a = Audit(w, Snapshot, {})
    BY DEF Report
  <2>3. a.confidence # "HIGH"
    BY <2>1, <2>2, AuditOfWallet
  <2>4. QED
    BY <2>1, <2>3 DEF Confidence
<1>6. HasDrift(report) <=> plan # {}
  BY DEF HasDrift, BuildRepairPlan
<1> DEFINE exitCode == Command(Snapshot, TRUE).exit
<1>7. exitCode = 2 <=> plan # {}
  <2>1. HasDrift(report) => exitCode = 2
    BY <1>1
  <2>2. ~HasDrift(report) => exitCode = 0
    BY <1>1
  <2> HIDE DEF exitCode, plan
  <2>3. QED
    BY <1>6, <2>1, <2>2
<1>8. QED
  BY <1>1, <1>4, <1>5, <1>7 DEF PlansSettle

(* Where the opening balance is recorded and the rows tell what became of  *)
(* the wallet, the drift is what was changed by hand.                      *)
LEMMA OverrideIsTakenBack == ASSUME past \in Pasts PROVE OverridesAreTakenBack
<1> DEFINE entries(w) == {p \in BuildRepairPlan(Report(Snapshot, {}), {}) : p.wallet = w}
           a(w) == Audit(w, Snapshot, {})
<1>1. SUFFICES ASSUME NEW w \in AuditedWallets, w \in past.recorded, ToldBy(past.rows, w)
               PROVE  /\ past.override[w] = 0 <=> entries(w) = {}
                      /\ \A p \in entries(w) : p.difference = -past.override[w]
  <2>1. Command(Snapshot, TRUE).plan = BuildRepairPlan(Report(Snapshot, {}), {})
    BY DEF Command
  <2>2. past.recorded \subseteq AuditedWallets
    BY DEF Pasts
  <2>3. QED
    BY <2>1, <2>2 DEF OverridesAreTakenBack
<1>2. past.rows \in History
  BY AuditReads
<1>3. Total(DeltaOf(w), past.rows) = Total(EffectOf(w), past.rows)
  BY <1>1, <1>2, RowsTellTheirEffect
<1>4. PICK o \in Int, v \in Int, e \in Int :
         o = past.opening[w] /\ v = past.override[w] /\ e = Total(EffectOf(w), past.rows)
  BY AuditReads
<1>5. a(w).stored = o + e + v /\ a(w).expected = o + e
  <2>1. Snapshot.balance[w] = o + e + v /\ Snapshot.initial[w] = o
    BY <1>1, <1>4, AuditReads
  <2>2. QED
    BY <1>3, <1>4, <2>1, AuditOfWallet
<1>6. /\ a(w).stored = a(w).expected => entries(w) = {}
      /\ a(w).stored # a(w).expected =>
           \E r : entries(w) = {r} /\ r.difference = a(w).expected - a(w).stored
  BY PlanEntries
<1> HIDE DEF a, entries
<1>7. CASE v = 0
  <2>1. a(w).stored = a(w).expected
    BY <1>4, <1>5, <1>7
  <2>2. QED
    BY <1>4, <1>6, <1>7, <2>1
<1>8. CASE v # 0
  <2>1. a(w).stored # a(w).expected /\ a(w).expected - a(w).stored = -v
    <3>1. o + e + v # o + e /\ (o + e) - (o + e + v) = -v
      BY <1>8
    <3>2. QED
      BY <1>5, <3>1
  <2>2. PICK r : entries(w) = {r} /\ r.difference = -v
    BY <1>6, <2>1
  <2>3. QED
    BY <1>4, <1>8, <2>2
<1>9. QED
  BY <1>7, <1>8

LEMMA PastStands == ReconciliationSpec => []PastInv
<1>1. ReconciliationInit => PastInv
  BY DEF ReconciliationInit, PastInv
<1>2. PastInv /\ [ReconciliationNext]_past => PastInv'
  <2>1. ASSUME Happen PROVE PastInv'
    BY <2>1 DEF Happen, PastInv, Pasts
  <2>2. QED
    BY <2>1 DEF ReconciliationNext, PastInv
<1>3. QED
  BY <1>1, <1>2, PTL DEF ReconciliationSpec

(* Of wallets whose rows tell what became of them (repairPlan.ts,          *)
(* reconciliation.ts), an automatic repair restores the true balance and   *)
(* the command takes back what was changed by hand; the command offers     *)
(* nothing to apply on a guess; and a plan leaves no drift: whatever rows, *)
(* opening balances and changes by hand made the balances what they are.   *)
THEOREM RepairsAreProven == ReconciliationSpec => []RepairsNeedProof
<1>1. PastInv => RepairsNeedProof
  BY RepairsAreRight, PlanSettles, OverrideIsTakenBack DEF PastInv, RepairsNeedProof
<1>2. QED
  BY <1>1, PastStands, PTL

-----------------------------------------------------------------------------
(***************************************************************************)
(* The billing calendar and the installment plan: CycleSpec                *)
(***************************************************************************)

LEMMA DaysAre == \A m : DaysIn(m) \in 28..31
  BY DEF DaysIn

LEMMA DateIs ==
  ASSUME NEW d \in CalendarDates
  PROVE  /\ d[1] \in CalendarFrom..CalendarTo /\ d[1] \in Nat /\ d[1] >= 1
         /\ d[2] \in 1..DaysIn(d[1]) /\ d[2] \in 1..31 /\ d = <<d[1], d[2]>>
<1>1. PICK m \in CalendarFrom..CalendarTo : d \in {m} \X (1..DaysIn(m))
  BY DEF CalendarDates
<1>2. m \in Nat /\ m >= 1
  BY CalendarAssumption
<1>3. d[1] = m /\ d[2] \in 1..DaysIn(m) /\ d = <<d[1], d[2]>>
  BY <1>1
<1>4. QED
  BY <1>2, <1>3, DaysAre

(* The day a clamped date falls on. *)
Shown(m, day) == IF day > DaysIn(m) THEN DaysIn(m) ELSE day

LEMMA ClampIs ==
  ASSUME NEW m, NEW day \in 1..31
  PROVE  /\ ClampDay(m, day) = <<m, Shown(m, day)>>
         /\ Shown(m, day) \in 1..31 /\ Shown(m, day) <= day
  BY DaysAre DEF ClampDay, Shown

LEMMA LaterIs ==
  ASSUME NEW m, NEW i, NEW n, NEW j
  PROVE  Later(<<m, i>>, <<n, j>>) <=> m > n \/ (m = n /\ i > j)
  BY DEF Later

(* The months between a purchase and its due date. *)
Wait(d, cutoff) == IF d[2] > Shown(d[1], cutoff) THEN 2 ELSE 1

LEMMA ClosingIs ==
  ASSUME NEW d \in CalendarDates, NEW cutoff \in 1..31
  PROVE  Closing(d, cutoff) = d[1] + Wait(d, cutoff) - 1
<1> PICK x : x = d[1]
  OBVIOUS
<1> DEFINE Before(m) == Later(d, ClampDay(m, cutoff))
           Is(m) == ~Before(m) /\ (m = x \/ Before(m - 1))
<1>1. x \in Nat /\ d[2] \in Nat /\ d = <<x, d[2]>>
  BY DateIs
<1>2. \A m : ClampDay(m, cutoff) = <<m, Shown(m, cutoff)>> /\ Shown(m, cutoff) \in Int
  BY ClampIs
<1>3. \A m : Later(d, ClampDay(m, cutoff)) <=> x > m \/ (x = m /\ d[2] > Shown(m, cutoff))
  BY <1>1, <1>2, LaterIs
<1>4. Is(x) <=> ~(d[2] > Shown(x, cutoff))
  BY <1>1, <1>3
<1>5. Is(x + 1) <=> d[2] > Shown(x, cutoff)
  <2>1. ~Before(x + 1)
    BY <1>1, <1>3
  <2>2. (x + 1) - 1 = x /\ x + 1 # x
    BY <1>1
  <2>3. Before(x) <=> d[2] > Shown(x, cutoff)
    BY <1>1, <1>3
  <2> HIDE DEF Before
  <2>4. Before((x + 1) - 1) <=> Before(x)
    BY <2>2
  <2>5. QED
    BY <2>1, <2>2, <2>3, <2>4
<1>6. Closing(d, cutoff) = CHOOSE m \in {x, x + 1} : Is(m)
  BY DEF Closing
<1> HIDE DEF Is
<1>7. CASE d[2] > Shown(x, cutoff)
  <2>1. Closing(d, cutoff) = x + 1
    BY <1>4, <1>5, <1>6, <1>7
  <2>2. QED
    BY <1>1, <1>7, <2>1 DEF Wait
<1>8. CASE ~(d[2] > Shown(x, cutoff))
  <2>1. Closing(d, cutoff) = x
    BY <1>4, <1>5, <1>6, <1>8
  <2>2. QED
    BY <1>1, <1>8, <2>1 DEF Wait
<1>9. QED
  BY <1>7, <1>8

LEMMA DueDateIs ==
  ASSUME NEW d \in CalendarDates, NEW cutoff \in 1..31, NEW payday \in 1..31,
         NEW m, m = d[1] + Wait(d, cutoff)
  PROVE  CalculateFirstDueDate(d, cutoff, payday) = <<m, Shown(m, payday)>> /\ m \in Nat /\ m > d[1]
<1>1. d[1] \in Nat /\ d[2] \in Nat /\ d = <<d[1], d[2]>>
  BY DateIs
<1>2. Later(d, ClampDay(d[1], cutoff)) <=> d[2] > Shown(d[1], cutoff)
  BY <1>1, ClampIs, LaterIs
<1>3. CalculateFirstDueDate(d, cutoff, payday)
        = ClampDay(d[1] + (IF Later(d, ClampDay(d[1], cutoff)) THEN 2 ELSE 1), payday)
  BY DEF CalculateFirstDueDate
<1>4. CalculateFirstDueDate(d, cutoff, payday) = ClampDay(m, payday)
  BY <1>2, <1>3 DEF Wait
<1>5. QED
  BY <1>1, <1>4, ClampIs DEF Wait

LEMMA ChargesAreDue ==
  ASSUME NEW cutoff \in 1..31, NEW payday \in 1..31
  PROVE  ChargesFallDue(cutoff, payday)
<1> DEFINE due(d) == CalculateFirstDueDate(d, cutoff, payday)
           month(d) == d[1] + Wait(d, cutoff)
<1>1. ASSUME NEW d \in CalendarDates
      PROVE  due(d) = <<month(d), Shown(month(d), payday)>> /\ month(d) \in Nat /\ month(d) > d[1]
  BY DueDateIs
<1>2. ASSUME NEW d \in CalendarDates
      PROVE  due(d) = ClampDay(Closing(d, cutoff) + 1, payday)
  <2>1. d[1] \in Nat /\ Wait(d, cutoff) \in Nat
    BY DateIs DEF Wait
  <2>2. Closing(d, cutoff) + 1 = month(d)
    BY <2>1, ClosingIs
  <2>3. ClampDay(month(d), payday) = <<month(d), Shown(month(d), payday)>>
    BY ClampIs
  <2> HIDE DEF due, month
  <2>4. QED
    BY <1>1, <2>2, <2>3
<1>3. ASSUME NEW d \in CalendarDates PROVE Later(due(d), d)
  <2>1. d = <<d[1], d[2]>> /\ d[1] \in Nat
    BY DateIs
  <2> HIDE DEF due, month
  <2>2. due(d)[1] > d[1]
    BY <1>1
  <2>3. QED
    BY <2>2 DEF Later
<1>4. ASSUME NEW d \in CalendarDates, NEW e \in CalendarDates, Later(e, d)
      PROVE  ~Later(due(d), due(e))
  <2>1. /\ d[1] \in Nat /\ d[2] \in Nat /\ e[1] \in Nat /\ e[2] \in Nat
        /\ e[1] > d[1] \/ (e[1] = d[1] /\ e[2] > d[2])
    BY <1>4, DateIs DEF Later
  <2>2. Shown(d[1], cutoff) \in Nat
    BY ClampIs
  <2>3. month(e) >= month(d)
    BY <2>1, <2>2 DEF Wait
  <2>4. \A m : Shown(m, payday) \in Nat
    BY ClampIs
  <2> HIDE DEF due, month
  <2>5. QED
    BY <1>1, <2>3, <2>4, LaterIs
<1> HIDE DEF due
<1>5. QED
  BY <1>2, <1>3, <1>4 DEF ChargesFallDue, due

-----------------------------------------------------------------------------
(* The plan of an installment *)

LEMMA Rounding ==
  ASSUME NEW g \in Nat, NEW n \in Nat \ {0}, NEW q, q = ToMoney(g, n)
  PROVE  q \in Int /\ 2 * (n * q) <= 2 * g + n /\ 2 * g < 2 * (n * q) + n
<1>1. q = (2 * g + n) \div (2 * n)
  BY DEF ToMoney
<1> DEFINE a == 2 * g + n
           b == 2 * n
<1>2. a \in Nat /\ b \in Nat /\ b > 0
  OBVIOUS
<1> HIDE DEF a, b
<1>3. q \in Int /\ b * q <= a /\ a < b * q + b
  BY <1>1, <1>2 DEF a, b
<1>4. b * q = 2 * (n * q)
  BY <1>3 DEF b
<1>5. n * q \in Int
  BY <1>3
<1>6. QED
  BY <1>3, <1>4, <1>5 DEF a, b

(* The whole is a multiple of the others and of what is left over. *)
LEMMA TermsAddUp ==
  ASSUME NEW g \in Nat, NEW n \in Nat \ {0}
  PROVE  LET q == ToMoney(g, n)
             f == ComputeFinalMonthlyAmount(g, q, n)
         IN /\ 2 * (f - q) <= n /\ -2 * (f - q) <= n
            /\ 2 * g > n * (n - 1) => f > 0
<1> DEFINE q == ToMoney(g, n)
           f == ComputeFinalMonthlyAmount(g, q, n)
<1>1. q \in Int /\ 2 * (n * q) <= 2 * g + n /\ 2 * g < 2 * (n * q) + n
  BY Rounding
<1>2. f = g - q * (n - 1)
  BY DEF ComputeFinalMonthlyAmount
<1> HIDE DEF q, f
<1>3. q * (n - 1) = n * q - q
  BY <1>1
<1>4. n * q \in Int /\ f \in Int /\ f - q = g - n * q
  BY <1>1, <1>2, <1>3
<1>5. 2 * (f - q) <= n /\ -2 * (f - q) <= n
  BY <1>1, <1>4
<1>6. ASSUME 2 * g > n * (n - 1) PROVE f > 0
  <2> DEFINE a == 2 * g + n - 2 * (n * q)
  <2>1. a \in Nat /\ n - 1 \in Nat
    BY <1>1, <1>4
  <2>2. a * (n - 1) >= 0
    <3> HIDE DEF a
    <3>1. QED
      BY <2>1
  <2>3. (2 * (n * q)) * (n - 1) <= (2 * g + n) * (n - 1)
    BY <2>2, <1>4
  <2> DEFINE w == q * (n - 1)
  <2>4. w \in Int /\ (2 * (n * q)) * (n - 1) = 2 * (n * w)
    BY <1>1
  <2>5. (2 * g + n) * (n - 1) = 2 * (n * g) - 2 * g + n * (n - 1)
    OBVIOUS
  <2>6. n * w \in Int /\ n * g \in Int /\ n * (n - 1) \in Int
    BY <2>4
  <2>7. n * w < n * g
    <3> HIDE DEF w
    <3>1. QED
      BY <1>6, <2>3, <2>4, <2>5, <2>6
  <2>8. w < g
    <3> HIDE DEF w
    <3>1. CASE w >= g
      <4>1. n * (w - g) >= 0
        BY <2>4, <3>1
      <4>2. n * (w - g) = n * w - n * g
        BY <2>4
      <4>3. QED
        BY <2>6, <2>7, <4>1, <4>2
    <3>2. QED
      BY <2>4, <3>1
  <2>9. QED
    BY <1>2, <2>4, <2>8
<1>7. QED
  BY <1>5, <1>6 DEF q, f

LEMMA MoneyIsNatural ==
  ASSUME NEW a \in Nat, NEW d \in Nat \ {0}
  PROVE  ToMoney(a, d) \in Nat
<1>1. 2 * a + d \in Nat /\ 2 * d \in Nat /\ 2 * d > 0
  OBVIOUS
<1>2. QED
  BY <1>1 DEF ToMoney

LEMMA PlansAddUp ==
  ASSUME NEW principal \in Principals, NEW rate \in Rates, NEW months \in TermCounts
  PROVE  PlanAddsUp(principal, rate, months)
<1>1. principal \in Nat /\ rate \in Nat /\ months \in Nat \ {0}
  BY LoanAssumption
<1> DEFINE total == ToMoney(principal, 10)
           charged == ToMoney(principal * rate * months, 100000)
           grand == total + charged
           q == ToMoney(grand, months)
<1>2. total \in Nat
  BY <1>1, MoneyIsNatural
<1>3. principal * rate * months \in Nat
  <2>1. principal * rate \in Nat
    BY <1>1
  <2>2. QED
    BY <1>1, <2>1
<1>4. charged \in Nat
  BY <1>3, MoneyIsNatural
<1>5. ComputeInstallmentPlan(principal, rate, months)
        = [total |-> total, grand |-> grand, monthly |-> q,
           final |-> ComputeFinalMonthlyAmount(grand, q, months)]
  BY DEF ComputeInstallmentPlan
<1> HIDE DEF total, charged
<1>6. grand \in Nat
  BY <1>2, <1>4
<1> HIDE DEF grand
<1>7. QED
  BY <1>1, <1>5, <1>6, TermsAddUp DEF PlanAddsUp

-----------------------------------------------------------------------------
(* Advancing one month at a time *)

(* The shortest of the k months after month m, and the day a payment due   *)
(* on the given day of month m falls on after them.                        *)
Has(m, k, days) == \E j \in 1..k : DaysIn(m + j) = days
Shortest(m, k) == IF Has(m, k, 28) THEN 28 ELSE IF Has(m, k, 29) THEN 29
                  ELSE IF Has(m, k, 30) THEN 30 ELSE 31
Left(m, k, day) == IF day <= Shortest(m, k) THEN day ELSE Shortest(m, k)

LEMMA ShortestIs ==
  ASSUME NEW m \in Nat, NEW k \in Nat
  PROVE  /\ Shortest(m, k) \in 28..31
         /\ \A j \in 1..k : Shortest(m, k) <= DaysIn(m + j)
         /\ Shortest(m, k) = 31 \/ \E j \in 1..k : DaysIn(m + j) = Shortest(m, k)
<1>1. \A j \in 1..k : DaysIn(m + j) \in {28, 29, 30, 31}
  <2>1. 28..31 = {28, 29, 30, 31}
    OBVIOUS
  <2>2. QED
    BY <2>1, DaysAre
<1>2. QED
  BY <1>1 DEF Shortest, Has

(* One month more. *)
LEMMA OneMore ==
  ASSUME NEW m \in Nat, NEW k \in Nat \ {0}, NEW day \in 1..31
  PROVE  Left(m, k, day) = Shown(m + k, Left(m, k - 1, day))
<1> DEFINE a == Shortest(m, k - 1)
           b == Shortest(m, k)
           c == DaysIn(m + k)
<1>1. k - 1 \in Nat
  OBVIOUS
<1>2. /\ a \in 28..31 /\ \A j \in 1..(k - 1) : a <= DaysIn(m + j)
      /\ a = 31 \/ \E j \in 1..(k - 1) : DaysIn(m + j) = a
  BY <1>1, ShortestIs
<1>3. /\ b \in 28..31 /\ \A j \in 1..k : b <= DaysIn(m + j)
      /\ b = 31 \/ \E j \in 1..k : DaysIn(m + j) = b
  BY ShortestIs
<1>4. c \in 28..31
  BY DaysAre
<1>5. \A j : j \in 1..k <=> j \in 1..(k - 1) \/ j = k
  OBVIOUS
<1> HIDE DEF a, b
<1>6. b <= c /\ b <= a
  BY <1>2, <1>3, <1>4, <1>5
<1>7. b = a \/ b = c
  BY <1>2, <1>3, <1>4, <1>5, <1>6
<1> HIDE DEF c
<1>8. b = IF c < a THEN c ELSE a
  BY <1>2, <1>3, <1>4, <1>6, <1>7
<1>9. Left(m, k, day) = (IF day <= b THEN day ELSE b) /\ Left(m, k - 1, day) = (IF day <= a THEN day ELSE a)
  BY DEF Left, a, b
<1>10. \A x : Shown(m + k, x) = IF x > c THEN c ELSE x
  BY DEF Shown, c
<1>11. QED
  BY <1>2, <1>4, <1>8, <1>9, <1>10

LEMMA LeftIs ==
  ASSUME NEW m \in Nat, NEW k \in Nat, NEW day \in 1..31
  PROVE  /\ Left(m, k, day) \in 1..31 /\ Left(m, k, day) <= day
         /\ Left(m, k, day) = day \/ \E j \in 1..k : DaysIn(m + j) < day
         /\ k = 0 => Left(m, k, day) = day
<1>1. /\ Shortest(m, k) \in 28..31
      /\ Shortest(m, k) = 31 \/ \E j \in 1..k : DaysIn(m + j) = Shortest(m, k)
  BY ShortestIs
<1>2. QED
  BY <1>1 DEF Left

(* Steps(start, f): f takes one step of a month after the other from start. *)
Steps(start, f) ==
  f = [k \in Span |-> IF k = 0 THEN start ELSE AddBillingMonth(f[k - 1], 1)]

LEMMA SpanIs == \E n \in Nat : Span = 0..n /\ n = CalendarTo - CalendarFrom + 1
<1>1. CalendarTo \in Nat /\ CalendarFrom \in Nat /\ CalendarFrom <= CalendarTo
  BY CalendarAssumption
<1>2. QED
  BY <1>1 DEF Span

LEMMA StepsAre ==
  ASSUME NEW start \in CalendarDates
  PROVE  LET step == CHOOSE f : Steps(start, f)
         IN \A k \in Span : step[k] = <<start[1] + k, Left(start[1], k, start[2])>>
<1> PICK m, day : m = start[1] /\ day = start[2]
  OBVIOUS
<1>1. m \in Nat /\ day \in 1..31 /\ start = <<m, day>>
  BY DateIs
<1> DEFINE at(k) == <<m + k, Left(m, k, day)>>
           h == [k \in Span |-> at(k)]
           step == CHOOSE f : Steps(start, f)
<1>2. PICK n \in Nat : Span = 0..n
  BY SpanIs
<1>3. at(0) = start
  <2>1. Left(m, 0, day) = day
    BY <1>1, LeftIs
  <2>2. m + 0 = m
    BY <1>1
  <2>3. QED
    BY <1>1, <2>1, <2>2
<1>4. ASSUME NEW k \in 1..n PROVE at(k) = AddBillingMonth(at(k - 1), 1)
  <2>1. k \in Nat \ {0} /\ k - 1 \in Nat /\ m + (k - 1) + 1 = m + k
    BY <1>1
  <2>2. Left(m, k - 1, day) \in 1..31
    BY <1>1, <2>1, LeftIs
  <2>3. AddBillingMonth(at(k - 1), 1) = ClampDay(m + (k - 1) + 1, Left(m, k - 1, day))
    BY DEF AddBillingMonth
  <2>4. ClampDay(m + k, Left(m, k - 1, day)) = <<m + k, Shown(m + k, Left(m, k - 1, day))>>
    BY <2>2, ClampIs
  <2>5. Left(m, k, day) = Shown(m + k, Left(m, k - 1, day))
    BY <1>1, <2>1, OneMore
  <2>6. QED
    BY <2>1, <2>3, <2>4, <2>5
<1> HIDE DEF at
<1>5. Steps(start, h)
  <2>1. ASSUME NEW k \in Span
        PROVE  h[k] = IF k = 0 THEN start ELSE AddBillingMonth(h[k - 1], 1)
    <3>1. CASE k = 0
      BY <1>3, <3>1
    <3>2. CASE k # 0
      <4>1. k \in 1..n /\ k - 1 \in Span
        BY <1>2, <3>2
      <4>2. QED
        BY <1>4, <3>2, <4>1
    <3>3. QED
      BY <3>1, <3>2
  <2>2. QED
    BY <2>1 DEF Steps
<1> HIDE DEF h
<1>6. Steps(start, step)
  BY <1>5
<1> HIDE DEF step
<1>7. ASSUME NEW k \in Span
      PROVE  step[k] = IF k = 0 THEN start ELSE AddBillingMonth(step[k - 1], 1)
  BY <1>6 DEF Steps
<1> DEFINE P == {k \in Span : step[k] = at(k)}
<1>8. 0 \in P
  BY <1>2, <1>3, <1>7
<1>9. ASSUME NEW k \in 1..n, k - 1 \in P PROVE k \in P
  <2>1. k \in Span /\ k # 0
    BY <1>2
  <2>2. step[k] = AddBillingMonth(step[k - 1], 1)
    BY <1>7, <2>1
  <2>3. step[k - 1] = at(k - 1)
    BY <1>9
  <2>4. QED
    BY <1>4, <2>1, <2>2, <2>3
<1> HIDE DEF P
<1>10. 0..n \subseteq P
  BY <1>8, <1>9, Climbing
<1>11. \A k \in Span : step[k] = at(k)
  BY <1>2, <1>10 DEF P
<1>12. QED
  BY <1>11 DEF step, at

(* The k-th monthly date of a template. *)
LEMMA MonthlyDateIs ==
  ASSUME NEW start \in CalendarDates, NEW k \in Nat
  PROVE  /\ AddBillingMonth(start, k) = <<start[1] + k, Shown(start[1] + k, start[2])>>
         /\ start[1] + k \in Nat /\ Shown(start[1] + k, start[2]) \in 1..31
         /\ k = 0 => AddBillingMonth(start, k) = start
<1>1. start[1] \in Nat /\ start[2] \in 1..31 /\ start = <<start[1], start[2]>> /\ start[2] <= DaysIn(start[1])
  BY DateIs, DaysAre
<1>2. AddBillingMonth(start, k) = <<start[1] + k, Shown(start[1] + k, start[2])>>
  BY <1>1, ClampIs DEF AddBillingMonth
<1>3. Shown(start[1] + k, start[2]) \in 1..31
  BY <1>1, ClampIs
<1>4. ~(start[2] > DaysIn(start[1]))
  BY <1>1, DaysAre
<1>5. ASSUME k = 0 PROVE AddBillingMonth(start, k) = start
  <2>1. start[1] + k = start[1]
    BY <1>1, <1>5
  <2>2. QED
    BY <1>1, <1>2, <1>4, <2>1 DEF Shown
<1>6. QED
  BY <1>1, <1>2, <1>3, <1>5

LEMMA SteppingStaysBehind ==
  ASSUME NEW start \in CalendarDates
  PROVE  StepsStayBehind(start)
<1> DEFINE step == CHOOSE f : Steps(start, f)
           m == start[1]
           day == start[2]
<1>1. m \in Nat /\ day \in 1..31
  BY DateIs
<1>2. ASSUME NEW k \in Span
      PROVE  /\ step[k][1] = m + k /\ ~Later(step[k], AddBillingMonth(start, k))
             /\ step[k] # AddBillingMonth(start, k) => \E j \in 1..(k - 1) : DaysIn(m + j) < day
  <2>1. k \in Nat
    BY SpanIs
  <2>2. step[k] = <<m + k, Left(m, k, day)>>
    BY StepsAre
  <2>3. AddBillingMonth(start, k) = <<m + k, Shown(m + k, day)>>
    BY <2>1, MonthlyDateIs
  <2> HIDE DEF step
  <2>4. CASE k = 0
    <3>1. Left(m, k, day) = Shown(m + k, day)
      <4>1. AddBillingMonth(start, k) = start /\ start = <<m, day>>
        BY <2>1, <2>4, MonthlyDateIs, DateIs
      <4>2. Left(m, k, day) = day
        BY <1>1, <2>1, <2>4, LeftIs
      <4>3. QED
        BY <2>3, <4>1, <4>2
    <3>2. Left(m, k, day) \in Int /\ m + k \in Int
      <4>1. Left(m, k, day) \in 1..31
        BY <1>1, <2>1, LeftIs
      <4>2. QED
        BY <1>1, <2>1, <4>1
    <3> HIDE DEF m, day
    <3>3. ~Later(<<m + k, Left(m, k, day)>>, <<m + k, Left(m, k, day)>>)
      BY <3>2, LaterIs
    <3>4. QED
      BY <2>2, <2>3, <3>1, <3>3
  <2>5. CASE k # 0
    <3>1. k - 1 \in Nat /\ k \in Nat \ {0}
      BY <2>1, <2>5
    <3>2. Left(m, k, day) = Shown(m + k, Left(m, k - 1, day))
      BY <1>1, <3>1, OneMore
    <3>3. /\ Left(m, k - 1, day) \in 1..31 /\ Left(m, k - 1, day) <= day
          /\ Left(m, k - 1, day) = day \/ \E j \in 1..(k - 1) : DaysIn(m + j) < day
      BY <1>1, <3>1, LeftIs
    <3> HIDE DEF m, day
    <3>4. Shown(m + k, Left(m, k - 1, day)) <= Shown(m + k, day)
      BY <1>1, <3>3, DaysAre DEF Shown
    <3>5. Shown(m + k, day) \in Int /\ Left(m, k, day) \in Int /\ m + k \in Int
      BY <1>1, <2>1, <3>2, <3>3, ClampIs
    <3>6. ~Later(<<m + k, Left(m, k, day)>>, <<m + k, Shown(m + k, day)>>)
      BY <3>2, <3>4, <3>5, LaterIs
    <3>7. QED
      BY <2>2, <2>3, <3>2, <3>3, <3>6
  <2>6. QED
    BY <2>4, <2>5
<1>3. QED
  BY <1>2 DEF StepsStayBehind, Steps

-----------------------------------------------------------------------------
(* The occurrence shown *)

LEMMA LaterOrders ==
  ASSUME NEW d \in Int \X Int, NEW e \in Int \X Int, NEW f \in Int \X Int
  PROVE  /\ ~Later(d, d)
         /\ Later(d, e) => ~Later(e, d)
         /\ Later(d, e) /\ ~Later(f, e) => Later(d, f)
  BY DEF Later

(* j is the first of the template's months whose date is not past. *)
FirstLeft(start, asked, j) ==
  /\ j \in Span /\ ~Later(asked, AddBillingMonth(start, j))
  /\ \A k \in Nat : k < j => Later(asked, AddBillingMonth(start, k))

LEMMA CandidateIsFirst ==
  ASSUME NEW start \in CalendarDates, NEW asked \in CalendarDates
  PROVE  \E j \in Nat : /\ FirstLeft(start, asked, j)
                        /\ \A end : NextMonthlyOccurrence(start, end, asked)
                             = IF end # None /\ Later(AddBillingMonth(start, j), end)
                               THEN None ELSE AddBillingMonth(start, j)
<1> PICK m, day, t, u : m = start[1] /\ day = start[2] /\ t = asked[1] /\ u = asked[2]
  OBVIOUS
<1>1. /\ m \in Nat /\ day \in 1..31 /\ start = <<m, day>> /\ m \in CalendarFrom..CalendarTo
      /\ t \in Nat /\ u \in 1..31 /\ asked = <<t, u>> /\ t \in CalendarFrom..CalendarTo
  BY DateIs
<1> DEFINE at(k) == AddBillingMonth(start, k)
           months == t - m
           candidate == IF Later(start, asked) THEN start
                        ELSE IF Later(asked, at(months)) THEN at(months + 1) ELSE at(months)
<1>2. ASSUME NEW k \in Nat
      PROVE  /\ at(k) = <<m + k, Shown(m + k, day)>> /\ Shown(m + k, day) \in Nat
             /\ Later(asked, at(k)) <=> t > m + k \/ (t = m + k /\ u > Shown(m + k, day))
  <2>1. at(k) = <<m + k, Shown(m + k, day)>> /\ Shown(m + k, day) \in Nat
    <3>1. at(k) = <<start[1] + k, Shown(start[1] + k, start[2])>>
      BY MonthlyDateIs
    <3>2. Shown(start[1] + k, start[2]) \in 1..31
      BY MonthlyDateIs
    <3> HIDE DEF at
    <3>3. QED
      BY <3>1, <3>2
  <2>2. Later(<<t, u>>, <<m + k, Shown(m + k, day)>>)
          <=> t > m + k \/ (t = m + k /\ u > Shown(m + k, day))
    BY LaterIs
  <2> HIDE DEF at
  <2>3. QED
    BY <1>1, <2>1, <2>2
<1>3. \A end : NextMonthlyOccurrence(start, end, asked)
                 = IF end # None /\ Later(candidate, end) THEN None ELSE candidate
  BY DEF NextMonthlyOccurrence
<1>4. at(0) = start
  BY MonthlyDateIs
<1>5. Later(start, asked) <=> m > t \/ (m = t /\ day > u)
  BY <1>1, LaterIs
<1>6. \A k \in Nat : k <= months + 1 \/ k = 0 => k \in Span
  <2>1. CalendarTo \in Nat /\ CalendarFrom \in Nat /\ CalendarFrom <= CalendarTo
    BY CalendarAssumption
  <2>2. months + 1 <= CalendarTo - CalendarFrom + 1 /\ 0 <= CalendarTo - CalendarFrom + 1
    BY <1>1, <2>1
  <2> HIDE DEF months
  <2>3. QED
    BY <1>1, <2>1, <2>2 DEF Span, months
<1>7. ASSUME NEW j \in Nat, FirstLeft(start, asked, j), candidate = at(j)
      PROVE  \E k \in Nat : /\ FirstLeft(start, asked, k)
                            /\ \A end : NextMonthlyOccurrence(start, end, asked)
                                 = IF end # None /\ Later(at(k), end) THEN None ELSE at(k)
  <2> HIDE DEF candidate, at
  <2>1. QED
    BY <1>3, <1>7
<1>8. CASE Later(start, asked)
  <2>1. candidate = at(0)
    BY <1>4, <1>8
  <2>2. ~Later(asked, at(0))
    BY <1>1, <1>4, <1>5, <1>8, LaterIs
  <2>3. FirstLeft(start, asked, 0)
    BY <1>6, <2>2 DEF FirstLeft
  <2> HIDE DEF candidate
  <2>4. QED
    BY <1>7, <2>1, <2>3
<1>9. CASE ~Later(start, asked)
  <2>1. m <= t
    BY <1>1, <1>5, <1>9
  <2>2. months \in Nat /\ m + months = t /\ months + 1 \in Nat /\ m + (months + 1) = t + 1
    BY <1>1, <2>1
  <2> HIDE DEF months, at
  <2>3. \A k \in Nat : k < months => Later(asked, at(k))
    <3>1. \A k \in Nat : k < months => t > m + k
      BY <1>1, <2>2
    <3>2. QED
      BY <1>2, <3>1
  <2>4. CASE Later(asked, at(months))
    <3>1. candidate = at(months + 1)
      BY <1>9, <2>4
    <3>2. ~Later(asked, at(months + 1))
      <4>1. ~(t > t + 1) /\ t # t + 1
        BY <1>1
      <4>2. QED
        BY <1>2, <2>2, <4>1
    <3>3. \A k \in Nat : k < months + 1 => Later(asked, at(k))
      <4>1. \A k \in Nat : k < months + 1 => k < months \/ k = months
        BY <2>2
      <4>2. QED
        BY <2>3, <2>4, <4>1
    <3>4. months + 1 \in Span
      BY <1>6, <2>2
    <3>5. FirstLeft(start, asked, months + 1)
      BY <3>2, <3>3, <3>4 DEF FirstLeft, at
    <3> HIDE DEF candidate
    <3>6. QED
      BY <1>7, <2>2, <3>1, <3>5 DEF at
  <2>5. CASE ~Later(asked, at(months))
    <3>1. candidate = at(months)
      BY <1>9, <2>5
    <3>2. months \in Span
      BY <1>6, <2>2
    <3>3. FirstLeft(start, asked, months)
      BY <2>3, <2>5, <3>2 DEF FirstLeft, at
    <3> HIDE DEF candidate
    <3>4. QED
      BY <1>7, <2>2, <3>1, <3>3 DEF at
  <2>6. QED
    BY <2>4, <2>5
<1>10. QED
  BY <1>8, <1>9

LEMMA TheFirstIsShown ==
  ASSUME NEW start \in CalendarDates, NEW asked \in CalendarDates, NEW end,
         end = None \/ end \in Int \X Int
  PROVE  NextIsFirst(start, end, asked)
<1> DEFINE at(k) == AddBillingMonth(start, k)
           next == NextMonthlyOccurrence(start, end, asked)
           left == {d \in {at(k) : k \in Span} : ~Later(asked, d) /\ (end = None \/ ~Later(d, end))}
<1>1. PICK j \in Nat : /\ FirstLeft(start, asked, j)
                       /\ next = IF end # None /\ Later(at(j), end) THEN None ELSE at(j)
  BY CandidateIsFirst
<1>2. Span \subseteq Nat
  BY SpanIs
<1>3. \A k \in Nat : at(k) \in Int \X Int /\ at(k)[1] = start[1] + k /\ at(k) # None
  <2>1. ASSUME NEW k \in Nat
        PROVE  at(k) \in Int \X Int /\ at(k)[1] = start[1] + k /\ at(k) # None
    <3>1. at(k) = <<start[1] + k, Shown(start[1] + k, start[2])>>
          /\ start[1] + k \in Nat /\ Shown(start[1] + k, start[2]) \in 1..31
      BY MonthlyDateIs
    <3> HIDE DEF at
    <3>2. QED
      BY <3>1 DEF None
  <2>2. QED
    BY <2>1
<1>4. start[1] \in Nat
  BY DateIs
<1> HIDE DEF at
<1>5. j \in Span /\ ~Later(asked, at(j)) /\ \A k \in Nat : k < j => Later(asked, at(k))
  BY <1>1 DEF FirstLeft, at
<1>6. ASSUME NEW k \in Nat, ~Later(asked, at(k)) PROVE at(k) = at(j) \/ Later(at(k), at(j))
  <2>1. k = j \/ k > j
    BY <1>5, <1>6
  <2>2. k > j => start[1] + k > start[1] + j
    BY <1>4
  <2>3. k > j => Later(at(k), at(j))
    BY <1>3, <2>2 DEF Later
  <2>4. QED
    BY <2>1, <2>3
<1>7. \A d \in left : d \in Int \X Int /\ (d = at(j) \/ Later(d, at(j)))
  BY <1>2, <1>3, <1>6
<1>8. CASE end # None /\ Later(at(j), end)
  <2>1. next = None
    BY <1>1, <1>8
  <2>2. ASSUME NEW d \in left PROVE FALSE
    <3>1. ~Later(d, end)
      BY <1>8
    <3>2. at(j) \in Int \X Int /\ end \in Int \X Int /\ d \in Int \X Int
      BY <1>3, <1>7, <1>8
    <3>3. d = at(j) \/ Later(d, at(j))
      BY <1>7
    <3> HIDE DEF left, next
    <3>4. CASE Later(d, at(j))
      <4>1. ~Later(end, at(j))
        BY <1>8, <3>2, LaterOrders
      <4>2. Later(d, end)
        BY <3>2, <3>4, <4>1, LaterOrders
      <4>3. QED
        BY <3>1, <4>2
    <3>5. QED
      BY <1>8, <3>1, <3>3, <3>4
  <2> HIDE DEF left, next
  <2>3. QED
    BY <2>1, <2>2 DEF NextIsFirst, left, next, at
<1>9. CASE ~(end # None /\ Later(at(j), end))
  <2>1. next = at(j) /\ next # None
    BY <1>1, <1>3, <1>9
  <2>2. next \in left
    BY <1>5, <1>9, <2>1
  <2>3. ASSUME NEW d \in left PROVE ~Later(next, d)
    <3>1. at(j) \in Int \X Int /\ d \in Int \X Int /\ (d = at(j) \/ Later(d, at(j)))
      BY <1>3, <1>7
    <3> HIDE DEF left, next
    <3>2. QED
      BY <2>1, <3>1, LaterOrders
  <2> HIDE DEF left, next
  <2>4. QED
    BY <2>1, <2>2, <2>3 DEF NextIsFirst, left, next, at
<1>10. QED
  BY <1>8, <1>9

LEMMA OccurrencesAreFirst ==
  ASSUME NEW start \in CalendarDates
  PROVE  OccurrencesFollow(start)
<1>1. ASSUME NEW asked \in CalendarDates, NEW end \in {None, start, asked, <<asked[1] + 1, 1>>}
      PROVE  NextIsFirst(start, end, asked)
  <2>1. start \in Int \X Int /\ asked \in Int \X Int
    <3>1. \A d \in CalendarDates : d[1] \in Int /\ d[2] \in Int /\ d = <<d[1], d[2]>>
      BY DateIs
    <3>2. QED
      BY <3>1
  <2>2. <<asked[1] + 1, 1>> \in Int \X Int
    BY <2>1
  <2>3. end = None \/ end \in Int \X Int
    BY <2>1, <2>2
  <2>4. QED
    BY <2>3, TheFirstIsShown
<1>2. QED
  BY <1>1, SteppingStaysBehind DEF OccurrencesFollow

-----------------------------------------------------------------------------
CycleCases ==
  {NoCase} \cup [kind : {"recur"}, start : CalendarDates]
    \cup [kind : {"charge"}, cutoff : 1..31, due : DueDays]
    \cup [kind : {"finance"}, principal : Principals, rate : Rates, months : TermCounts]

LEMMA CycleStays == CycleSpec => [](cycle \in CycleCases)
<1>1. CycleInit => cycle \in CycleCases
  BY DEF CycleInit, CycleCases
<1>2. cycle \in CycleCases /\ [CycleNext]_cycle => (cycle \in CycleCases)'
  <2> SUFFICES ASSUME cycle \in CycleCases, [CycleNext]_cycle PROVE cycle' \in CycleCases
    OBVIOUS
  <2>1. CASE Recur
    BY <2>1 DEF Recur, CycleCases
  <2>2. CASE Charge
    BY <2>2 DEF Charge, CycleCases
  <2>3. CASE Finance
    BY <2>3 DEF Finance, CycleCases
  <2>4. QED
    BY <2>1, <2>2, <2>3 DEF CycleNext
<1>3. QED
  BY <1>1, <1>2, PTL DEF CycleSpec

(* CycleHolds: for every calendar, card and loan, the dates and the terms  *)
(* agree with the schedule the user was promised.                          *)
THEOREM CycleHolds == CycleSpec => []SchedulesAddUp
<1>1. cycle \in CycleCases => SchedulesAddUp
  <2> SUFFICES ASSUME cycle \in CycleCases PROVE SchedulesAddUp
    OBVIOUS
  <2>1. CASE cycle = NoCase
    BY <2>1 DEF SchedulesAddUp, NoCase
  <2>2. CASE cycle \in [kind : {"recur"}, start : CalendarDates]
    BY <2>2, OccurrencesAreFirst DEF SchedulesAddUp
  <2>3. CASE cycle \in [kind : {"charge"}, cutoff : 1..31, due : DueDays]
    <3>1. cycle.cutoff \in 1..31 /\ cycle.due \in 1..31
      BY <2>3, DueDaysAssumption
    <3>2. ChargesFallDue(cycle.cutoff, cycle.due)
      BY <3>1, ChargesAreDue
    <3>3. cycle.kind = "charge"
      BY <2>3
    <3>4. QED
      BY <3>2, <3>3 DEF SchedulesAddUp
  <2>4. CASE cycle \in [kind : {"finance"}, principal : Principals, rate : Rates, months : TermCounts]
    BY <2>4, PlansAddUp DEF SchedulesAddUp
  <2>5. QED
    BY <2>1, <2>2, <2>3, <2>4 DEF CycleCases
<1>2. QED
  BY <1>1, CycleStays, PTL

-----------------------------------------------------------------------------
(***************************************************************************)
(* The reports over the same rows: ReportingSpec                           *)
(***************************************************************************)

(* The lengths of the months of the calendar, from its first one. *)
Lengths == [k \in 1..LastMonth |-> MonthDays[((k - 1) % YearMonths) + 1]]

LEMMA LengthsAre ==
  /\ YearMonths \in Nat \ {0} /\ LastMonth \in Nat
  /\ \A k \in 1..LastMonth : Lengths[k] \in Nat \ {0}
  /\ Lengths \in [1..LastMonth -> Int]
<1>1. YearMonths \in Nat \ {0} /\ LastMonth \in Nat /\ MonthDays \in Seq(Nat \ {0})
  BY ReportingAssumption DEF YearMonths
<1>2. ASSUME NEW k \in 1..LastMonth PROVE Lengths[k] \in Nat \ {0}
  <2>1. ((k - 1) % YearMonths) + 1 \in 1..YearMonths
    BY <1>1
  <2>2. MonthDays[((k - 1) % YearMonths) + 1] \in Nat \ {0}
    BY <1>1, <2>1 DEF YearMonths
  <2>3. QED
    BY <2>2 DEF Lengths
<1>3. DOMAIN Lengths = 1..LastMonth /\ Lengths = [k \in 1..LastMonth |-> Lengths[k]]
  BY DEF Lengths
<1>4. QED
  BY <1>1, <1>2, <1>3

(* Starts(f): f gives each month its first day. *)
Starts(f) ==
  f = [m \in 0..LastMonth |-> IF m = 0 THEN 0
                              ELSE f[m - 1] + MonthDays[((m - 1) % YearMonths) + 1]]

LEMMA StartsExist == \E f : Starts(f)
<1> DEFINE f == [m \in 0..LastMonth |-> Total(Lengths, 1..m)]
<1>1. ASSUME NEW m \in 0..LastMonth
      PROVE  f[m] = IF m = 0 THEN 0 ELSE f[m - 1] + MonthDays[((m - 1) % YearMonths) + 1]
  <2>1. CASE m = 0
    <3>1. 1..m = {}
      BY <2>1
    <3>2. Total(Lengths, {}) = 0
      BY FS_EmptySet, TotalOfNothing
    <3>3. QED
      BY <2>1, <3>1, <3>2
  <2>2. CASE m # 0
    <3>1. m \in 1..LastMonth /\ m - 1 \in 0..LastMonth
      BY <2>2, LengthsAre
    <3>2. Total(Lengths, 1..m) = Total(Lengths, 1..(m - 1)) + Lengths[m]
      BY <3>1, LengthsAre, TotalClimbs
    <3>3. Lengths[m] = MonthDays[((m - 1) % YearMonths) + 1]
      BY <3>1 DEF Lengths
    <3>4. f[m] = Total(Lengths, 1..m) /\ f[m - 1] = Total(Lengths, 1..(m - 1))
      BY <3>1
    <3> HIDE DEF f
    <3>5. QED
      BY <2>2, <3>1, <3>2, <3>3, <3>4
  <2>3. QED
    BY <2>1, <2>2
<1>2. f = [m \in 0..LastMonth |-> f[m]]
  OBVIOUS
<1> HIDE DEF f
<1>3. Starts(f)
  BY <1>1, <1>2 DEF Starts
<1>4. QED
  BY <1>3

(* The months follow one another without a gap. *)
LEMMA StartDayIs ==
  /\ StartDay[0] = 0
  /\ \A m \in 1..LastMonth : StartDay[m] = StartDay[m - 1] + Lengths[m]
<1>1. StartDay = CHOOSE f : Starts(f)
  BY DEF StartDay, Starts
<1>2. Starts(StartDay)
  BY <1>1, StartsExist
<1>3. 0 \in 0..LastMonth /\ \A m \in 1..LastMonth : m \in 0..LastMonth /\ m # 0
  BY LengthsAre
<1>4. StartDay[0] = 0
  BY <1>2, <1>3 DEF Starts
<1>5. ASSUME NEW m \in 1..LastMonth PROVE StartDay[m] = StartDay[m - 1] + Lengths[m]
  <2>1. StartDay[m] = StartDay[m - 1] + MonthDays[((m - 1) % YearMonths) + 1]
    BY <1>2, <1>3 DEF Starts
  <2>2. QED
    BY <2>1 DEF Lengths
<1>6. QED
  BY <1>4, <1>5

LEMMA MonthsGrow ==
  /\ \A m \in 0..LastMonth : StartDay[m] \in Nat
  /\ \A m, k \in 0..LastMonth : m < k => StartDay[m] < StartDay[k]
<1>1. LastMonth \in Nat
  BY LengthsAre
<1>2. \A m \in 0..LastMonth : StartDay[m] \in Nat
  <2> DEFINE P == {m \in 0..LastMonth : StartDay[m] \in Nat}
  <2>1. 0 \in P
    BY <1>1, StartDayIs
  <2>2. ASSUME NEW m \in 1..LastMonth, m - 1 \in P PROVE m \in P
    <3>1. StartDay[m] = StartDay[m - 1] + Lengths[m] /\ Lengths[m] \in Nat /\ StartDay[m - 1] \in Nat
      BY <2>2, StartDayIs, LengthsAre
    <3>2. QED
      BY <1>1, <3>1
  <2> HIDE DEF P
  <2>3. 0..LastMonth \subseteq P
    BY <1>1, <2>1, <2>2, Climbing
  <2>4. QED
    BY <2>3 DEF P
<1>3. ASSUME NEW m \in 1..LastMonth PROVE StartDay[m - 1] < StartDay[m]
  <2>1. StartDay[m] = StartDay[m - 1] + Lengths[m] /\ Lengths[m] \in Nat \ {0} /\ StartDay[m - 1] \in Nat
    <3>1. m - 1 \in 0..LastMonth
      BY <1>1
    <3>2. QED
      BY <1>2, <3>1, StartDayIs, LengthsAre
  <2>2. QED
    BY <2>1
<1>4. ASSUME NEW m \in 0..LastMonth PROVE \A k \in 0..LastMonth : m < k => StartDay[m] < StartDay[k]
  <2> DEFINE P == {k \in 0..LastMonth : m < k => StartDay[m] < StartDay[k]}
  <2>1. 0 \in P
    BY <1>1
  <2>2. ASSUME NEW k \in 1..LastMonth, k - 1 \in P PROVE k \in P
    <3>1. StartDay[k - 1] < StartDay[k] /\ k - 1 \in 0..LastMonth /\ k \in 0..LastMonth
      BY <1>1, <1>3
    <3>2. StartDay[m] \in Nat /\ StartDay[k - 1] \in Nat /\ StartDay[k] \in Nat
      BY <1>2, <3>1
    <3>3. m < k - 1 => StartDay[m] < StartDay[k - 1]
      BY <2>2
    <3>4. m < k => m < k - 1 \/ m = k - 1
      BY <1>1
    <3>5. QED
      BY <3>1, <3>2, <3>3, <3>4
  <2> HIDE DEF P
  <2>3. 0..LastMonth \subseteq P
    BY <1>1, <2>1, <2>2, Climbing
  <2>4. QED
    BY <2>3 DEF P
<1>5. QED
  BY <1>2, <1>4

(* Every day of the calendar is in one month, which MonthOfDay finds. *)
LEMMA MonthOfDayIs ==
  ASSUME NEW d \in Nat, d < StartDay[LastMonth]
  PROVE  /\ MonthOfDay(d) \in 0..(LastMonth - 1)
         /\ StartDay[MonthOfDay(d)] <= d /\ d < StartDay[MonthOfDay(d) + 1]
<1>1. LastMonth \in Nat
  BY LengthsAre
<1>2. \E m \in 1..LastMonth : StartDay[m - 1] <= d /\ d < StartDay[m]
  <2> DEFINE P == {m \in 0..LastMonth : StartDay[m] <= d}
  <2>1. SUFFICES ASSUME ~ \E m \in 1..LastMonth : StartDay[m - 1] <= d /\ d < StartDay[m]
                 PROVE  FALSE
    OBVIOUS
  <2>2. 0 \in P
    BY <1>1, StartDayIs
  <2>3. ASSUME NEW m \in 1..LastMonth, m - 1 \in P PROVE m \in P
    <3>1. m \in 0..LastMonth /\ StartDay[m] \in Nat
      BY <1>1, MonthsGrow
    <3>2. ~(d < StartDay[m])
      BY <2>1, <2>3
    <3>3. QED
      BY <3>1, <3>2
  <2>4. LastMonth \notin P
    <3>1. LastMonth \in 0..LastMonth /\ StartDay[LastMonth] \in Nat
      BY <1>1, MonthsGrow
    <3>2. QED
      BY <3>1
  <2> HIDE DEF P
  <2>5. 0..LastMonth \subseteq P
    BY <1>1, <2>2, <2>3, Climbing
  <2>6. QED
    BY <1>1, <2>4, <2>5
<1>3. PICK k \in 1..LastMonth : StartDay[k - 1] <= d /\ d < StartDay[k]
  BY <1>2
<1>4. PICK n \in 0..LastMonth : n = k - 1 /\ n + 1 = k
  BY <1>1
<1>5. StartDay[n] <= d /\ d < StartDay[n + 1]
  BY <1>3, <1>4
<1> DEFINE Holds(m) == StartDay[m] <= d /\ (m = LastMonth \/ d < StartDay[m + 1])
<1>6. MonthOfDay(d) = CHOOSE m \in 0..LastMonth : Holds(m)
  BY DEF MonthOfDay
<1>7. Holds(n)
  BY <1>5
<1>8. ASSUME NEW m \in 0..LastMonth, Holds(m)
      PROVE  m \in 0..(LastMonth - 1) /\ StartDay[m] <= d /\ d < StartDay[m + 1]
  <2>1. m # LastMonth
    <3>1. StartDay[LastMonth] \in Nat
      BY <1>1, MonthsGrow
    <3>2. QED
      BY <1>8, <3>1
  <2>2. m \in 0..(LastMonth - 1)
    BY <1>1, <2>1
  <2>3. QED
    BY <1>8, <2>1, <2>2
<1> HIDE DEF Holds
<1>9. MonthOfDay(d) \in 0..LastMonth /\ Holds(MonthOfDay(d))
  BY <1>6, <1>7
<1>10. QED
  BY <1>8, <1>9

-----------------------------------------------------------------------------
(* The periods *)

(* The months from the i-th up to the j-th. *)
Months(i, j) == Between(2 * StartDay[i], 2 * StartDay[j])

LEMMA RangeFields ==
  ASSUME NEW from, NEW to
  PROVE  Between(from, to).from = from /\ Between(from, to).to = to
BY DEF Between

LEMMA MonthRangeIs ==
  ASSUME NEW m \in Int
  PROVE  /\ MonthRange(m) = Months(m, m + 1)
         /\ MonthRange(m).from = 2 * StartDay[m] /\ MonthRange(m).to = 2 * StartDay[m + 1]
BY DEF MonthRange, Months, Midnight, Between

LEMMA MonthsRangeIs ==
  ASSUME NEW m \in Int, NEW n \in Int
  PROVE  MonthsRange(m, n) = Months(m - (n - 1), m + 1)
<1>1. m - (n - 1) \in Int
  OBVIOUS
<1>2. QED
  BY <1>1, MonthRangeIs DEF MonthsRange, Months

LEMMA YearRangeIs ==
  ASSUME NEW y \in Int
  PROVE  YearRange(y) = Months(y * YearMonths, y * YearMonths + YearMonths)
<1>1. PICK a \in Int, n \in Int : a = y * YearMonths /\ n = YearMonths
  BY LengthsAre
<1>2. MonthRange(a).from = 2 * StartDay[a]
  BY MonthRangeIs
<1>3. MonthRange(a + n - 1).to = 2 * StartDay[(a + n - 1) + 1]
  BY MonthRangeIs
<1>4. (a + n - 1) + 1 = a + n
  OBVIOUS
<1>5. YearRange(y) = Between(MonthRange(a).from, MonthRange(a + n - 1).to)
  BY <1>1 DEF YearRange
<1>6. QED
  BY <1>1, <1>2, <1>3, <1>4, <1>5 DEF Months

(* What is known of an instant reports are asked for at. *)
LEMMA NowReaches ==
  ASSUME NEW t \in Nows
  PROVE  /\ t \in Nat /\ DayOf(t) \in Nat /\ 2 * DayOf(t) <= t /\ t < 2 * DayOf(t) + 2
         /\ MonthOf(t) \in 2..(LastMonth - 1)
         /\ \A n \in Spans : n \in Nat /\ n > 0 /\ MonthOf(t) - 2 * n + 1 >= 0
<1>1. /\ t \in Nat /\ DayOf(t) < StartDay[LastMonth] /\ MonthOf(t) >= 2
      /\ \A n \in Spans : MonthOf(t) - 2 * n + 1 >= 0
  BY CalendarReaches DEF Reaches
<1>2. DayOf(t) \in Nat /\ 2 * DayOf(t) <= t /\ t < 2 * DayOf(t) + 2
  BY <1>1 DEF DayOf
<1>3. MonthOf(t) \in 0..(LastMonth - 1)
  BY <1>1, <1>2, MonthOfDayIs DEF MonthOf
<1>4. MonthOf(t) \in 2..(LastMonth - 1)
  BY <1>1, <1>3, LengthsAre
<1>5. QED
  BY <1>1, <1>2, <1>4, ReportingAssumption

LEMMA YearReaches ==
  ASSUME NEW t \in Nows
  PROVE  \E y \in Nat, i, j, k \in 0..LastMonth :
           /\ y = MonthOf(t) \div YearMonths /\ i < j /\ j < k
           /\ i = (y - 1) * YearMonths /\ j = y * YearMonths
           /\ j = i + YearMonths /\ k = j + YearMonths
<1>1. PICK n \in Nat \ {0}, m \in Nat, l \in Nat : n = YearMonths /\ m = MonthOf(t) /\ l = LastMonth
  <2>1. LastMonth \in Nat /\ YearMonths \in Nat \ {0}
    BY LengthsAre
  <2>2. MonthOf(t) \in Nat
    BY <2>1, NowReaches
  <2>3. QED
    BY <2>1, <2>2
<1>2. PICK y \in Nat : y = m \div n
  BY <1>1
<1>3. y >= 1 /\ y * n + n <= l
  BY <1>1, <1>2, CalendarReaches DEF Reaches
<1>4. (y - 1) * n + n = y * n /\ y * n \in Nat /\ (y - 1) * n \in Nat
  <2>1. PICK z \in Nat : y = z + 1
    BY <1>3
  <2>2. (y - 1) * n = z * n /\ y * n = z * n + n /\ z * n \in Nat
    BY <2>1
  <2>3. QED
    BY <2>2
<1>5. PICK i \in Nat, j \in Nat : i = (y - 1) * n /\ j = y * n
  BY <1>4
<1>6. j = i + n /\ j + n <= l
  BY <1>3, <1>4, <1>5
<1>7. /\ i \in 0..l /\ j \in 0..l /\ j + n \in 0..l /\ i < j /\ j < j + n
  BY <1>6
<1>8. QED
  BY <1>1, <1>2, <1>5, <1>6, <1>7

(* A period of months and the one before it. *)
Follows(previous, r) ==
  \E i, j, k \in 0..LastMonth : i < j /\ j < k /\ previous = Months(i, j) /\ r = Months(j, k)

LEMMA ResolvedIs ==
  ASSUME NEW r, NEW previous
  PROVE  /\ Resolved(r, previous).ok /\ Resolved(r, previous).range = r
         /\ Resolved(r, previous).previous = previous
BY DEF Resolved

LEMMA MonthPeriods ==
  ASSUME NEW t \in Nows, NEW p,
         \/ p.name \in {"current-month", "previous-month", "current-year"}
         \/ p.name = "last-months" /\ p.n \in Spans
  PROVE  Follows(ResolvePeriod(p, t).previous, ResolvePeriod(p, t).range)
<1>1. PICK m \in 2..(LastMonth - 1) : m = MonthOf(t)
  BY NowReaches
<1>2. LastMonth \in Nat
  BY LengthsAre
<1>3. CASE p.name = "current-month"
  <2>1. ResolvePeriod(p, t) = Resolved(MonthRange(m), MonthRange(m - 1))
    BY <1>1, <1>3 DEF ResolvePeriod
  <2>2. MonthRange(m) = Months(m, m + 1) /\ MonthRange(m - 1) = Months(m - 1, m)
    <3>1. m - 1 \in Int /\ (m - 1) + 1 = m
      BY <1>2
    <3>2. QED
      BY <3>1, MonthRangeIs
  <2>3. m - 1 \in 0..LastMonth /\ m \in 0..LastMonth /\ m + 1 \in 0..LastMonth /\ m - 1 < m /\ m < m + 1
    BY <1>2
  <2>4. QED
    BY <2>1, <2>2, <2>3, ResolvedIs DEF Follows
<1>4. CASE p.name = "previous-month"
  <2>1. ResolvePeriod(p, t) = Resolved(MonthRange(m - 1), MonthRange(m - 2))
    BY <1>1, <1>4 DEF ResolvePeriod
  <2>2. MonthRange(m - 1) = Months(m - 1, m) /\ MonthRange(m - 2) = Months(m - 2, m - 1)
    <3>1. m - 1 \in Int /\ (m - 1) + 1 = m /\ m - 2 \in Int /\ (m - 2) + 1 = m - 1
      BY <1>2
    <3>2. QED
      BY <3>1, MonthRangeIs
  <2>3. m - 2 \in 0..LastMonth /\ m - 1 \in 0..LastMonth /\ m \in 0..LastMonth /\ m - 2 < m - 1 /\ m - 1 < m
    BY <1>2
  <2>4. QED
    BY <2>1, <2>2, <2>3, ResolvedIs DEF Follows
<1>5. CASE p.name = "current-year"
  <2>1. PICK y \in Nat, i \in 0..LastMonth, j \in 0..LastMonth, k \in 0..LastMonth :
           /\ y = MonthOf(t) \div YearMonths /\ i < j /\ j < k
           /\ i = (y - 1) * YearMonths /\ j = y * YearMonths
           /\ j = i + YearMonths /\ k = j + YearMonths
    BY YearReaches
  <2>2. ResolvePeriod(p, t) = Resolved(YearRange(y), YearRange(y - 1))
    BY <1>5, <2>1 DEF ResolvePeriod
  <2>3. YearRange(y) = Months(j, k) /\ YearRange(y - 1) = Months(i, j)
    BY <2>1, YearRangeIs
  <2>4. QED
    BY <2>1, <2>2, <2>3, ResolvedIs DEF Follows
<1>6. CASE p.name = "last-months" /\ p.n \in Spans
  <2>1. PICK n \in Nat : n = p.n /\ n > 0 /\ m - 2 * n + 1 >= 0
    BY <1>1, <1>6, NowReaches
  <2>2. ResolvePeriod(p, t) = Resolved(MonthsRange(m, n), MonthsRange(m - n, n))
    BY <1>1, <1>6, <2>1 DEF ResolvePeriod
  <2>3. PICK i \in Int, j \in Int, k \in Int : i = (m - n) - (n - 1) /\ j = m - (n - 1) /\ k = m + 1
    BY <1>2
  <2>4. i \in 0..LastMonth /\ j \in 0..LastMonth /\ k \in 0..LastMonth /\ i < j /\ j < k /\ j = (m - n) + 1
    BY <1>2, <2>1, <2>3
  <2>5. MonthsRange(m, n) = Months(j, k) /\ MonthsRange(m - n, n) = Months(i, j)
    <3>1. m \in Int /\ n \in Int /\ m - n \in Int
      BY <1>2
    <3>2. QED
      BY <2>3, <2>4, <3>1, MonthsRangeIs
  <2>6. QED
    BY <2>2, <2>4, <2>5, ResolvedIs DEF Follows
<1>7. QED
  BY <1>3, <1>4, <1>5, <1>6

(* A custom period: whole days, compared with as many before it. *)
LEMMA CustomPeriods ==
  ASSUME NEW t \in Nows, NEW p, p.name = "custom", p.first \in CustomDays, p.last \in CustomDays,
         ResolvePeriod(p, t).ok
  PROVE  \E a, b \in Nat :
           /\ a < b /\ b <= StartDay[LastMonth]
           /\ ResolvePeriod(p, t).range = Between(2 * a, 2 * b)
           /\ ResolvePeriod(p, t).previous = Between(2 * a - (2 * b - 2 * a), 2 * a)
<1>1. PICK a \in Nat, last \in Nat : a = p.first /\ last = p.last /\ last < StartDay[LastMonth]
  BY CalendarReaches
<1>2. PICK b \in Nat : b = last + 1
  OBVIOUS
<1>3. DayRange(a).from = 2 * a /\ DayRange(last).to = 2 * b
  BY <1>2 DEF DayRange, Midnight, Between
<1>4. PICK r : r = Between(2 * a, 2 * b)
  OBVIOUS
<1>5. ResolvePeriod(p, t) = IF a > last \/ DaysOf(r) > CustomMax THEN Refused
                           ELSE Resolved(r, EqualLengthPrevious(r))
  BY <1>1, <1>3, <1>4 DEF ResolvePeriod
<1>6. ~Refused.ok
  BY DEF Refused
<1>7. ~(a > last) /\ ResolvePeriod(p, t) = Resolved(r, EqualLengthPrevious(r))
  BY <1>5, <1>6
<1>8. EqualLengthPrevious(r) = Between(2 * a - (2 * b - 2 * a), 2 * a)
  BY <1>4, RangeFields DEF EqualLengthPrevious
<1>9. a < b /\ b <= StartDay[LastMonth]
  <2>1. StartDay[LastMonth] \in Nat
    BY LengthsAre, MonthsGrow
  <2>2. QED
    BY <1>1, <1>2, <1>7, <2>1
<1>10. QED
  BY <1>4, <1>7, <1>8, <1>9, ResolvedIs

(* Whole days of the calendar. *)
WholeDays(r) ==
  \E a, b \in Nat : a < b /\ b <= StartDay[LastMonth] /\ r = Between(2 * a, 2 * b)

LEMMA MonthsAreDays ==
  ASSUME NEW i \in 0..LastMonth, NEW j \in 0..LastMonth, i < j
  PROVE  WholeDays(Months(i, j))
<1>1. StartDay[i] \in Nat /\ StartDay[j] \in Nat /\ StartDay[i] < StartDay[j]
  BY MonthsGrow
<1>2. StartDay[j] <= StartDay[LastMonth]
  <2>1. LastMonth \in 0..LastMonth /\ (j < LastMonth \/ j = LastMonth)
    BY LengthsAre
  <2>2. StartDay[LastMonth] \in Nat /\ (j < LastMonth => StartDay[j] < StartDay[LastMonth])
    BY <2>1, MonthsGrow
  <2>3. QED
    BY <1>1, <2>1, <2>2
<1>3. QED
  BY <1>1, <1>2 DEF WholeDays, Months

(* What every period that is not refused is. *)
LEMMA PeriodIs ==
  ASSUME NEW t \in Nows, NEW p \in Periods, ResolvePeriod(p, t).ok
  PROVE  LET r == ResolvePeriod(p, t).range
             previous == ResolvePeriod(p, t).previous
         IN /\ WholeDays(r) /\ previous.to = r.from /\ previous.from < previous.to
            /\ p.name = "custom" => DaysOf(previous) = DaysOf(r)
<1>1. PICK r, previous : r = ResolvePeriod(p, t).range /\ previous = ResolvePeriod(p, t).previous
  OBVIOUS
<1>2. \/ p.name \in {"current-month", "previous-month", "current-year"}
      \/ p.name = "last-months" /\ p.n \in Spans
      \/ p.name = "custom" /\ p.first \in CustomDays /\ p.last \in CustomDays
  BY DEF Periods
<1>3. CASE p.name # "custom"
  <2>1. Follows(previous, r)
    BY <1>1, <1>2, <1>3, MonthPeriods
  <2>2. PICK i \in 0..LastMonth, j \in 0..LastMonth, k \in 0..LastMonth :
          i < j /\ j < k /\ previous = Months(i, j) /\ r = Months(j, k)
    BY <2>1 DEF Follows
  <2>3. WholeDays(r)
    BY <2>2, MonthsAreDays
  <2>4. previous.to = r.from /\ previous.from = 2 * StartDay[i] /\ previous.to = 2 * StartDay[j]
    BY <2>2, RangeFields DEF Months
  <2>5. StartDay[i] \in Nat /\ StartDay[j] \in Nat /\ StartDay[i] < StartDay[j]
    BY <2>2, MonthsGrow
  <2>6. previous.from < previous.to
    BY <2>4, <2>5
  <2>7. QED
    BY <1>1, <1>3, <2>3, <2>4, <2>6
<1>4. CASE p.name = "custom"
  <2>1. PICK a \in Nat, b \in Nat :
           /\ a < b /\ b <= StartDay[LastMonth] /\ r = Between(2 * a, 2 * b)
           /\ previous = Between(2 * a - (2 * b - 2 * a), 2 * a)
    BY <1>1, <1>2, <1>4, CustomPeriods
  <2>2. WholeDays(r)
    BY <2>1 DEF WholeDays
  <2>3. /\ r.from = 2 * a /\ r.to = 2 * b /\ previous.to = 2 * a
        /\ previous.from = 2 * a - (2 * b - 2 * a)
    BY <2>1, RangeFields
  <2>4. previous.to - previous.from = r.to - r.from /\ previous.from < previous.to
    BY <2>1, <2>3
  <2>5. DaysOf(previous) = DaysOf(r)
    BY <2>4 DEF DaysOf
  <2>6. QED
    BY <1>1, <2>2, <2>3, <2>4, <2>5
<1>5. QED
  BY <1>3, <1>4

-----------------------------------------------------------------------------
(* The buckets of a trend *)

(* b cuts r: the pieces touch, none is empty, and together they are r. *)
Cuts(b, r) ==
  /\ Len(b) \in Nat \ {0} /\ DOMAIN b = 1..Len(b)
  /\ \A i \in 1..Len(b) : b[i].from \in Int /\ b[i].to \in Int /\ b[i].from < b[i].to
  /\ b[1].from = r.from /\ b[Len(b)].to = r.to
  /\ \A i \in 1..Len(b) : i < Len(b) => b[i].to = b[i + 1].from

LEMMA DayBuckets ==
  ASSUME NEW a \in Nat, NEW b \in Nat, a < b, NEW r, r = Between(2 * a, 2 * b),
         Granularity(r) = "day"
  PROVE  Cuts(TrendBuckets(r), r)
<1>1. r.from = 2 * a /\ r.to = 2 * b
  BY RangeFields
<1>2. DayOf(r.from) = a /\ DayOf(r.to - 1) = b - 1
  BY <1>1 DEF DayOf
<1>3. PICK n \in Nat \ {0} : n = b - a
  OBVIOUS
<1>4. PICK c : c = TrendBuckets(r)
  OBVIOUS
<1>5. DayOf(r.to - 1) - DayOf(r.from) + 1 = n
  BY <1>2, <1>3
<1>6. c = [i \in 1..n |-> Clip(DayRange(a + i - 1), r)]
  BY <1>2, <1>4, <1>5 DEF TrendBuckets
<1>7. Len(c) = n /\ DOMAIN c = 1..n
  BY <1>6
<1>8. ASSUME NEW i \in 1..n
      PROVE  c[i].from = 2 * (a + i - 1) /\ c[i].to = 2 * (a + i)
  <2>1. PICK d \in Nat : d = a + i - 1 /\ d + 1 = a + i
    OBVIOUS
  <2>2. c[i] = Clip(DayRange(d), r)
    BY <1>6, <2>1
  <2>3. DayRange(d).from = 2 * d /\ DayRange(d).to = 2 * (d + 1)
    BY DEF DayRange, Midnight, Between
  <2>4. ~(2 * d < 2 * a) /\ ~(2 * (d + 1) > 2 * b)
    BY <1>3, <2>1
  <2>5. Clip(DayRange(d), r) = Between(2 * d, 2 * (d + 1))
    BY <1>1, <2>3, <2>4 DEF Clip
  <2>6. QED
    BY <2>1, <2>2, <2>5, RangeFields
<1>9. \A i \in 1..n : c[i].from \in Int /\ c[i].to \in Int /\ c[i].from < c[i].to
  BY <1>8
<1>10. \A i \in 1..n : i < n => c[i].to = c[i + 1].from
  <2> SUFFICES ASSUME NEW i \in 1..n, i < n PROVE c[i].to = c[i + 1].from
    OBVIOUS
  <2>1. i + 1 \in 1..n
    BY <1>3
  <2>2. c[i].to = 2 * (a + i) /\ c[i + 1].from = 2 * (a + (i + 1) - 1)
    BY <1>8, <2>1
  <2>3. QED
    BY <2>2
<1>11. c[1].from = 2 * a /\ c[n].to = 2 * b
  <2>1. 1 \in 1..n /\ n \in 1..n
    OBVIOUS
  <2>2. c[1].from = 2 * (a + 1 - 1) /\ c[n].to = 2 * (a + n)
    BY <1>8, <2>1
  <2>3. QED
    BY <1>3, <2>2
<1>12. QED
  BY <1>1, <1>4, <1>7, <1>9, <1>10, <1>11 DEF Cuts

LEMMA MonthBuckets ==
  ASSUME NEW a \in Nat, NEW b \in Nat, a < b, b <= StartDay[LastMonth],
         NEW r, r = Between(2 * a, 2 * b), Granularity(r) # "day"
  PROVE  Cuts(TrendBuckets(r), r)
<1>1. r.from = 2 * a /\ r.to = 2 * b
  BY RangeFields
<1>2. DayOf(r.from) = a /\ DayOf(r.to - 1) = b - 1
  BY <1>1 DEF DayOf
<1>3. StartDay[LastMonth] \in Nat /\ LastMonth \in Nat
  BY LengthsAre, MonthsGrow
<1>4. PICK p \in 0..(LastMonth - 1) : p = MonthOf(r.from) /\ StartDay[p] <= a /\ a < StartDay[p + 1]
  <2>1. a < StartDay[LastMonth]
    BY <1>3
  <2>2. QED
    BY <1>2, <2>1, MonthOfDayIs DEF MonthOf
<1>5. PICK q \in 0..(LastMonth - 1) :
        q = MonthOf(r.to - 1) /\ StartDay[q] <= b - 1 /\ b - 1 < StartDay[q + 1]
  <2>1. b - 1 < StartDay[LastMonth] /\ b - 1 \in Nat
    BY <1>3
  <2>2. QED
    BY <1>2, <2>1, MonthOfDayIs DEF MonthOf
<1>6. /\ p \in 0..LastMonth /\ q \in 0..LastMonth /\ p + 1 \in 0..LastMonth /\ q + 1 \in 0..LastMonth
      /\ \A m \in 0..LastMonth : StartDay[m] \in Nat
  BY <1>3, MonthsGrow
<1>7. p <= q
  <2>1. SUFFICES ASSUME q < p PROVE FALSE
    BY <1>3
  <2>2. StartDay[q + 1] <= StartDay[p]
    <3>1. q + 1 = p \/ q + 1 < p
      BY <1>3, <2>1
    <3>2. q + 1 < p => StartDay[q + 1] < StartDay[p]
      BY <1>6, MonthsGrow
    <3>3. QED
      BY <1>6, <3>1, <3>2
  <2>3. QED
    BY <1>4, <1>5, <1>6, <2>2
<1>8. PICK n \in Nat \ {0} : n = q - p + 1
  BY <1>3, <1>7
<1>9. PICK c : c = TrendBuckets(r)
  OBVIOUS
<1>10. c = [i \in 1..n |-> Clip(MonthRange(p + i - 1), r)]
  BY <1>4, <1>5, <1>8, <1>9 DEF TrendBuckets
<1>11. Len(c) = n /\ DOMAIN c = 1..n
  BY <1>10
<1>12. ASSUME NEW m \in 0..LastMonth
       PROVE  (m <= p => StartDay[m] <= a) /\ (m > p => StartDay[m] > a)
              /\ (m <= q => StartDay[m] < b) /\ (m > q => StartDay[m] >= b)
  <2>1. m < p => StartDay[m] < StartDay[p]
    BY <1>6, MonthsGrow
  <2>2. m > p + 1 => StartDay[m] > StartDay[p + 1]
    BY <1>6, MonthsGrow
  <2>3. m < q => StartDay[m] < StartDay[q]
    BY <1>6, MonthsGrow
  <2>4. m > q + 1 => StartDay[m] > StartDay[q + 1]
    BY <1>6, MonthsGrow
  <2>5. PICK x \in Nat, sp \in Nat, sp1 \in Nat, sq \in Nat, sq1 \in Nat :
          /\ x = StartDay[m] /\ sp = StartDay[p] /\ sp1 = StartDay[p + 1]
          /\ sq = StartDay[q] /\ sq1 = StartDay[q + 1]
    BY <1>6
  <2>6. m \in Int /\ p \in Int /\ q \in Int
    BY <1>3
  <2>7. /\ m < p \/ m = p \/ m = p + 1 \/ m > p + 1
        /\ m < q \/ m = q \/ m = q + 1 \/ m > q + 1
    BY <2>6
  <2>8. (m <= p => x <= a) /\ (m > p => x > a)
    BY <1>4, <2>1, <2>2, <2>5, <2>6, <2>7
  <2>9. (m <= q => x < b) /\ (m > q => x >= b)
    BY <1>5, <2>3, <2>4, <2>5, <2>6, <2>7
  <2>10. QED
    BY <2>5, <2>8, <2>9
<1>13. ASSUME NEW i \in 1..n
       PROVE  /\ c[i].from = IF i = 1 THEN 2 * a ELSE 2 * StartDay[p + i - 1]
              /\ c[i].to = IF i = n THEN 2 * b ELSE 2 * StartDay[p + i]
              /\ p + i - 1 \in 0..LastMonth /\ p + i \in 0..LastMonth
  <2>1. PICK m \in 0..(LastMonth - 1) : m = p + i - 1 /\ m + 1 = p + i
    BY <1>3, <1>6, <1>8
  <2>2. m \in 0..LastMonth /\ m + 1 \in 0..LastMonth
    BY <1>3
  <2>3. c[i] = Clip(MonthRange(m), r)
    BY <1>10, <2>1
  <2>4. MonthRange(m).from = 2 * StartDay[m] /\ MonthRange(m).to = 2 * StartDay[m + 1]
    BY <2>2, MonthRangeIs
  <2>5. PICK x \in Nat, y \in Nat : x = StartDay[m] /\ y = StartDay[m + 1]
    BY <1>6, <2>2
  <2>6. /\ i = 1 => x <= a
        /\ i # 1 => x > a
        /\ i = n => y >= b
        /\ i # n => y < b
    <3>1. /\ i = 1 => m <= p
          /\ i # 1 => m > p
          /\ i = n => m + 1 > q
          /\ i # n => m + 1 <= q
      BY <1>3, <1>8, <2>1
    <3>2. QED
      BY <1>12, <2>2, <2>5, <3>1
  <2>7. /\ (IF 2 * x < 2 * a THEN 2 * a ELSE 2 * x) = (IF i = 1 THEN 2 * a ELSE 2 * x)
        /\ (IF 2 * y > 2 * b THEN 2 * b ELSE 2 * y) = (IF i = n THEN 2 * b ELSE 2 * y)
    BY <2>5, <2>6
  <2>8. Clip(MonthRange(m), r) = Between(IF 2 * x < 2 * a THEN 2 * a ELSE 2 * x,
                                       IF 2 * y > 2 * b THEN 2 * b ELSE 2 * y)
    BY <1>1, <2>4, <2>5 DEF Clip
  <2>9. QED
    BY <2>1, <2>2, <2>3, <2>5, <2>7, <2>8, RangeFields
<1>14. \A i \in 1..n : c[i].from \in Int /\ c[i].to \in Int /\ c[i].from < c[i].to
  <2> SUFFICES ASSUME NEW i \in 1..n
               PROVE  c[i].from \in Int /\ c[i].to \in Int /\ c[i].from < c[i].to
    OBVIOUS
  <2>1. PICK m \in 0..LastMonth, k \in 0..LastMonth : m = p + i - 1 /\ k = p + i
    BY <1>13
  <2>2. PICK x \in Nat, y \in Nat : x = StartDay[m] /\ y = StartDay[k]
    BY <1>6
  <2>3. /\ c[i].from = (IF i = 1 THEN 2 * a ELSE 2 * x)
        /\ c[i].to = (IF i = n THEN 2 * b ELSE 2 * y)
    BY <1>13, <2>1, <2>2
  <2>4. m < k /\ m \in Int /\ k \in Int
    BY <1>3, <2>1
  <2>5. x < y
    BY <2>2, <2>4, MonthsGrow
  <2>6. i # 1 => k > p
    BY <1>3, <2>1
  <2>7. i = n => m <= q
    BY <1>3, <1>8, <2>1
  <2>8. i # n => y > a
    <3>1. k > p
      BY <1>3, <2>1
    <3>2. QED
      BY <1>12, <2>2, <3>1
  <2>9. i = n => x < b
    BY <1>12, <2>2, <2>7
  <2>10. QED
    BY <2>3, <2>5, <2>8, <2>9
<1>15. \A i \in 1..n : i < n => c[i].to = c[i + 1].from
  <2> SUFFICES ASSUME NEW i \in 1..n, i < n PROVE c[i].to = c[i + 1].from
    OBVIOUS
  <2>1. PICK j \in 1..n : j = i + 1 /\ j # 1 /\ i # n
    OBVIOUS
  <2>2. p + j - 1 = p + i
    BY <1>3, <2>1
  <2>3. c[i].to = 2 * StartDay[p + i] /\ c[j].from = 2 * StartDay[p + j - 1]
    BY <1>13, <2>1
  <2>4. QED
    BY <2>1, <2>2, <2>3
<1>16. c[1].from = 2 * a /\ c[n].to = 2 * b
  <2>1. 1 \in 1..n /\ n \in 1..n
    OBVIOUS
  <2>2. QED
    BY <1>13, <2>1
<1>17. QED
  BY <1>1, <1>9, <1>11, <1>14, <1>15, <1>16 DEF Cuts

LEMMA BucketsCut ==
  ASSUME NEW r, WholeDays(r)
  PROVE  Cuts(TrendBuckets(r), r)
<1>1. PICK a \in Nat, b \in Nat : a < b /\ b <= StartDay[LastMonth] /\ r = Between(2 * a, 2 * b)
  BY DEF WholeDays
<1>2. QED
  BY <1>1, DayBuckets, MonthBuckets

LEMMA PeriodsFit ==
  ASSUME NEW t \in Nows, NEW p \in Periods, ResolvePeriod(p, t).ok
  PROVE  RangesFit(p, ResolvePeriod(p, t).range, ResolvePeriod(p, t).previous)
<1>1. PICK r, previous : r = ResolvePeriod(p, t).range /\ previous = ResolvePeriod(p, t).previous
  OBVIOUS
<1>2. /\ WholeDays(r) /\ previous.to = r.from /\ previous.from < previous.to
      /\ p.name = "custom" => DaysOf(previous) = DaysOf(r)
  BY <1>1, PeriodIs
<1>3. PICK b : b = TrendBuckets(r)
  OBVIOUS
<1>4. Cuts(b, r)
  BY <1>2, <1>3, BucketsCut
<1>5. RangesFit(p, r, previous)
  BY <1>2, <1>3, <1>4 DEF RangesFit, Cuts
<1>6. QED
  BY <1>1, <1>5

-----------------------------------------------------------------------------
(* The bucket of a row *)

LEMMA CutsAreOrdered ==
  ASSUME NEW b, NEW r, Cuts(b, r)
  PROVE  \A i, j \in 1..Len(b) : i < j => b[i].to <= b[j].from
<1>1. PICK n \in Nat \ {0} : n = Len(b)
  BY DEF Cuts
<1>2. \A i \in 1..n : b[i].from \in Int /\ b[i].to \in Int /\ b[i].from < b[i].to
  BY <1>1 DEF Cuts
<1>3. \A i \in 1..n : i < n => b[i].to = b[i + 1].from
  BY <1>1 DEF Cuts
<1> DEFINE P == {j \in 0..n : \A i \in 1..n : i < j => b[i].to <= b[j].from}
<1>4. 0 \in P
  OBVIOUS
<1>5. ASSUME NEW j \in 1..n, j - 1 \in P PROVE j \in P
  <2> SUFFICES ASSUME NEW i \in 1..n, i < j PROVE b[i].to <= b[j].from
    OBVIOUS
  <2>1. PICK k \in 1..n : k = j - 1 /\ k + 1 = j /\ k < n
    OBVIOUS
  <2>2. b[k].to = b[j].from
    BY <1>3, <2>1
  <2>3. i = k \/ i < k
    BY <2>1
  <2>4. i < k => b[i].to <= b[k].from
    BY <1>5, <2>1
  <2>5. b[i].to \in Int /\ b[k].from \in Int /\ b[k].to \in Int /\ b[k].from < b[k].to
    BY <1>2
  <2>6. QED
    BY <2>2, <2>3, <2>4, <2>5
<1> HIDE DEF P
<1>6. 0..n \subseteq P
  BY <1>4, <1>5, Climbing
<1>7. \A j \in 1..n : j \in P
  BY <1>6
<1>8. QED
  BY <1>1, <1>7 DEF P

LEMMA BucketExists ==
  ASSUME NEW b, NEW r, Cuts(b, r), NEW d \in Int, r.from <= d, d < r.to
  PROVE  \E i \in 1..Len(b) : b[i].from <= d /\ d < b[i].to
<1>1. PICK n \in Nat \ {0} : n = Len(b)
  BY DEF Cuts
<1>2. \A i \in 1..n : b[i].from \in Int /\ b[i].to \in Int
  BY <1>1 DEF Cuts
<1>3. \A i \in 1..n : i < n => b[i].to = b[i + 1].from
  BY <1>1 DEF Cuts
<1>4. b[1].from = r.from /\ b[n].to = r.to
  BY <1>1 DEF Cuts
<1>5. SUFFICES ASSUME \A i \in 1..n : ~(b[i].from <= d /\ d < b[i].to) PROVE FALSE
  BY <1>1
<1> DEFINE P == {k \in 0..n : k = 0 \/ d >= b[k].to}
<1>6. 0 \in P
  OBVIOUS
<1>7. ASSUME NEW k \in 1..n, k - 1 \in P PROVE k \in P
  <2>1. b[k].from <= d
    <3>1. CASE k = 1
      BY <1>4, <3>1
    <3>2. CASE k # 1
      <4>1. PICK l \in 1..n : l = k - 1 /\ l + 1 = k /\ l < n
        BY <3>2
      <4>2. d >= b[l].to /\ b[l].to = b[k].from /\ b[l].to \in Int
        BY <1>2, <1>3, <1>7, <4>1
      <4>3. QED
        BY <4>2
    <3>3. QED
      BY <3>1, <3>2
  <2>2. ~(d < b[k].to)
    BY <1>5, <2>1
  <2>3. d >= b[k].to
    BY <1>2, <2>2
  <2>4. QED
    BY <2>3
<1> HIDE DEF P
<1>8. 0..n \subseteq P
  BY <1>6, <1>7, Climbing
<1>9. n \in 1..n /\ n \in 0..n
  OBVIOUS
<1>10. d >= b[n].to
  BY <1>8, <1>9 DEF P
<1>11. QED
  BY <1>2, <1>4, <1>9, <1>10

(* The pass over the buckets stops at the one that holds the row. *)
LEMMA BucketOfIs ==
  ASSUME NEW b, NEW r, Cuts(b, r), NEW x, x.date \in Int, r.from <= x.date, x.date < r.to
  PROVE  /\ BucketOf(b, x) \in 1..Len(b)
         /\ b[BucketOf(b, x)].from <= x.date /\ x.date < b[BucketOf(b, x)].to
<1>1. PICK n \in Nat \ {0} : n = Len(b) /\ DOMAIN b = 1..n
  BY DEF Cuts
<1>2. \A i \in 1..n : b[i].from \in Int /\ b[i].to \in Int
  BY <1>1 DEF Cuts
<1>3. PICK d \in Int : d = x.date
  OBVIOUS
<1>4. PICK k \in 1..n : b[k].from <= d /\ d < b[k].to
  BY <1>1, <1>3, BucketExists
<1> DEFINE Stops(i) == /\ x.date < b[i].to \/ i = Len(b)
                       /\ \A j \in 1..(i - 1) : x.date >= b[j].to
<1>5. BucketOf(b, x) = CHOOSE i \in 1..n : Stops(i)
  BY <1>1 DEF BucketOf
<1>6. Stops(k)
  <2>1. ASSUME NEW j \in 1..(k - 1) PROVE d >= b[j].to
    <3>1. j \in 1..n /\ j < k
      OBVIOUS
    <3>2. b[j].to <= b[k].from
      BY <1>1, <3>1, CutsAreOrdered
    <3>3. QED
      BY <1>2, <1>4, <3>1, <3>2
  <2>2. QED
    BY <1>3, <1>4, <2>1
<1>7. ASSUME NEW i \in 1..n, Stops(i) PROVE i = k
  <2>1. CASE i < k
    <3>1. d < b[i].to
      BY <1>1, <1>3, <1>7, <2>1
    <3>2. b[i].to <= b[k].from
      BY <1>1, <2>1, CutsAreOrdered
    <3>3. QED
      BY <1>2, <1>4, <3>1, <3>2
  <2>2. CASE i > k
    <3>1. k \in 1..(i - 1)
      BY <2>2
    <3>2. d >= b[k].to
      BY <1>3, <1>7, <3>1
    <3>3. QED
      BY <1>2, <1>4, <3>2
  <2>3. QED
    BY <2>1, <2>2
<1> HIDE DEF Stops
<1>8. BucketOf(b, x) = k
  BY <1>5, <1>6, <1>7
<1>9. QED
  BY <1>1, <1>3, <1>4, <1>8

-----------------------------------------------------------------------------
(* Sums of rows *)

AmountsOf(D) == [x \in D |-> x.amount]

LEMMA SumOfIs ==
  ASSUME NEW D, NEW S, S \subseteq D, IsFiniteSet(S)
  PROVE  SumOf(S) = Total(AmountsOf(D), S)
<1>1. PICK F : F = [x \in S |-> x.amount]
  OBVIOUS
<1>2. DOMAIN F = S /\ \A x \in S : F[x] = AmountsOf(D)[x]
  BY <1>1 DEF AmountsOf
<1>3. SumFunction(F) = Total(F, S)
  BY <1>2, SumFunctionIsTotal
<1>4. Total(F, S) = Total(AmountsOf(D), S)
  BY <1>2, TotalSame
<1>5. QED
  BY <1>1, <1>3, <1>4 DEF SumOf

(* h gives the amount of each class of rows. *)
LEMMA SumOfClasses ==
  ASSUME NEW S, IsFiniteSet(S), \A x \in S : x.amount \in Int, NEW I, IsFiniteSet(I),
         NEW c \in [S -> I], NEW h, DOMAIN h = I, \A i \in I : h[i] = SumOf(Class(c, S, i))
  PROVE  SumFunction(h) = SumOf(S)
<1>1. PICK F : F = AmountsOf(S)
  OBVIOUS
<1>2. F \in [S -> Int]
  BY <1>1 DEF AmountsOf
<1>3. \A i \in I : h[i] = Total(F, Class(c, S, i))
  <2> SUFFICES ASSUME NEW i \in I PROVE h[i] = Total(F, Class(c, S, i))
    OBVIOUS
  <2>1. PICK part : part = Class(c, S, i)
    OBVIOUS
  <2>2. part \in SUBSET S /\ h[i] = SumOf(part)
    BY <2>1 DEF Class
  <2>3. IsFiniteSet(part)
    BY <2>2, FS_Subset
  <2>4. QED
    BY <1>1, <2>1, <2>2, <2>3, SumOfIs
<1>4. PICK parts : parts = [i \in I |-> Total(F, Class(c, S, i))]
  OBVIOUS
<1>5. \A i \in I : h[i] = parts[i]
  BY <1>3, <1>4
<1>6. SumFunction(h) = Total(h, I)
  BY SumFunctionIsTotal
<1>7. Total(h, I) = Total(parts, I)
  BY <1>5, TotalSame
<1>8. Total(parts, I) = Total(F, S)
  BY <1>2, <1>4, TotalOfParts
<1>9. SumOf(S) = Total(F, S)
  BY <1>1, SumOfIs
<1>10. QED
  BY <1>6, <1>7, <1>8, <1>9

(* h gives the number of rows of each class. *)
LEMMA CountOfClasses ==
  ASSUME NEW S, IsFiniteSet(S), NEW I, IsFiniteSet(I),
         NEW c \in [S -> I], NEW h, DOMAIN h = I, \A i \in I : h[i] = Cardinality(Class(c, S, i))
  PROVE  SumFunction(h) = Cardinality(S)
<1>1. PICK F : F = [x \in S |-> 1]
  OBVIOUS
<1>2. F \in [S -> Int]
  BY <1>1
<1>3. \A i \in I : h[i] = Total(F, Class(c, S, i))
  <2> SUFFICES ASSUME NEW i \in I PROVE h[i] = Total(F, Class(c, S, i))
    OBVIOUS
  <2>1. PICK part, G : part = Class(c, S, i) /\ G = [x \in part |-> 1]
    OBVIOUS
  <2>2. part \in SUBSET S /\ h[i] = Cardinality(part)
    BY <2>1 DEF Class
  <2>3. IsFiniteSet(part)
    BY <2>2, FS_Subset
  <2>4. Cardinality(part) = Total(G, part)
    BY <2>1, <2>3, CardinalityIsTotal
  <2>5. \A x \in part : G[x] = F[x]
    BY <1>1, <2>1, <2>2
  <2>6. Total(G, part) = Total(F, part)
    BY <2>3, <2>5, TotalSame
  <2>7. QED
    BY <2>1, <2>2, <2>4, <2>6
<1>4. PICK parts : parts = [i \in I |-> Total(F, Class(c, S, i))]
  OBVIOUS
<1>5. \A i \in I : h[i] = parts[i]
  BY <1>3, <1>4
<1>6. SumFunction(h) = Total(h, I)
  BY SumFunctionIsTotal
<1>7. Total(h, I) = Total(parts, I)
  BY <1>5, TotalSame
<1>8. Total(parts, I) = Total(F, S)
  BY <1>2, <1>4, TotalOfParts
<1>9. Cardinality(S) = Total(F, S)
  BY <1>1, CardinalityIsTotal
<1>10. QED
  BY <1>6, <1>7, <1>8, <1>9

-----------------------------------------------------------------------------
(* The same flows cut by time, by wallet and by category *)

LEMMA RowsOfRange ==
  ASSUME NEW S, Bookable(S), NEW r, NEW type
  PROVE  /\ IsFiniteSet(In(S, r)) /\ IsFiniteSet(OfType(In(S, r), type))
         /\ IsFiniteSet(Flows(In(S, r)))
         /\ \A x \in In(S, r) : /\ x.amount \in Int /\ x.lock \in Int /\ x.date \in Int /\ x.id \in Int
                               /\ r.from <= x.date /\ x.date < r.to
                               /\ x.type \in Types /\ x.wallet \in Wallets
         /\ OfType(In(S, r), type) \subseteq In(S, r) /\ Flows(In(S, r)) \subseteq In(S, r)
<1>1. /\ In(S, r) \in SUBSET S /\ OfType(In(S, r), type) \in SUBSET S
      /\ Flows(In(S, r)) \in SUBSET S
  BY DEF In, OfType, Flows
<1>2. IsFiniteSet(S)
  BY DEF Bookable
<1>3. /\ IsFiniteSet(In(S, r)) /\ IsFiniteSet(OfType(In(S, r), type))
      /\ IsFiniteSet(Flows(In(S, r)))
  BY <1>1, <1>2, FS_Subset
<1>4. \A x \in In(S, r) : /\ x.amount \in Int /\ x.lock \in Int /\ x.date \in Int /\ x.id \in Int
                         /\ r.from <= x.date /\ x.date < r.to
                         /\ x.type \in Types /\ x.wallet \in Wallets
  BY DEF Bookable, In
<1>5. OfType(In(S, r), type) \subseteq In(S, r) /\ Flows(In(S, r)) \subseteq In(S, r)
  BY DEF OfType, Flows
<1>6. QED
  BY <1>3, <1>4, <1>5

LEMMA TrendAddsUp ==
  ASSUME NEW S, Bookable(S), NEW r, WholeDays(r), NEW type \in {"INCOME", "EXPENSE"},
         NEW h, DOMAIN h = DOMAIN TrendBuckets(r),
         \A i \in DOMAIN h : h[i] = SumOf(OfType(Counted(Flows(In(S, r)), TrendBuckets(r), i), type))
  PROVE  SumFunction(h) = SumOf(OfType(In(S, r), type))
<1>1. PICK b : b = TrendBuckets(r)
  OBVIOUS
<1>2. Cuts(b, r)
  BY <1>1, BucketsCut
<1>3. PICK I : I = 1..Len(b) /\ DOMAIN b = I /\ IsFiniteSet(I)
  BY <1>2, FS_Interval DEF Cuts
<1>4. PICK A : A = OfType(In(S, r), type)
  OBVIOUS
<1>5. /\ IsFiniteSet(A)
      /\ \A x \in A : /\ x.amount \in Int /\ x.date \in Int
                     /\ r.from <= x.date /\ x.date < r.to
  BY <1>4, RowsOfRange
<1>6. \A x \in A : /\ BucketOf(b, x) \in I
                  /\ b[BucketOf(b, x)].from <= x.date /\ x.date < b[BucketOf(b, x)].to
  BY <1>2, <1>3, <1>5, BucketOfIs
<1>7. PICK c : c = [x \in A |-> BucketOf(b, x)]
  OBVIOUS
<1>8. c \in [A -> I]
  BY <1>6, <1>7
<1>9. ASSUME NEW i \in I
      PROVE  OfType(Counted(Flows(In(S, r)), b, i), type) = Class(c, A, i)
  <2>1. \A x : x \in A <=> x \in Flows(In(S, r)) /\ x.type = type
    BY <1>4 DEF OfType, Flows
  <2>2. \A x : x \in OfType(Counted(Flows(In(S, r)), b, i), type)
              <=> x \in A /\ BucketOf(b, x) = i /\ x.date >= b[i].from /\ x.date < b[i].to
    BY <2>1 DEF OfType, Counted
  <2>3. b[i].from \in Int
    BY <1>2, <1>3 DEF Cuts
  <2>4. \A x \in A : BucketOf(b, x) = i => x.date >= b[i].from /\ x.date < b[i].to
    BY <1>5, <1>6, <2>3
  <2>5. \A x : x \in Class(c, A, i) <=> x \in A /\ BucketOf(b, x) = i
    BY <1>7 DEF Class
  <2>6. QED
    BY <2>2, <2>4, <2>5
<1>10. \A i \in I : h[i] = SumOf(Class(c, A, i))
  BY <1>1, <1>3, <1>9
<1>11. DOMAIN h = I
  BY <1>1, <1>3
<1>12. SumFunction(h) = SumOf(A)
  BY <1>3, <1>5, <1>8, <1>10, <1>11, SumOfClasses
<1>13. QED
  BY <1>4, <1>12

LEMMA TrendsAddUp ==
  ASSUME NEW S, Bookable(S), NEW r, WholeDays(r)
  PROVE  \A f \in {"income", "expense"} :
           SumFunction([i \in DOMAIN Trends(S, r) |-> Trends(S, r)[i][f]]) = Overview(S, r)[f]
<1>1. PICK t : t = Trends(S, r)
  OBVIOUS
<1>2. DOMAIN t = DOMAIN TrendBuckets(r)
  BY <1>1 DEF Trends
<1>3. \A i \in DOMAIN t :
        /\ t[i]["income"] = SumOf(OfType(Counted(Flows(In(S, r)), TrendBuckets(r), i), "INCOME"))
        /\ t[i]["expense"] = SumOf(OfType(Counted(Flows(In(S, r)), TrendBuckets(r), i), "EXPENSE"))
  BY <1>1 DEF Trends
<1>4. SumFunction([i \in DOMAIN t |-> t[i]["income"]]) = Overview(S, r)["income"]
  <2>1. PICK h : h = [i \in DOMAIN t |-> t[i]["income"]]
    OBVIOUS
  <2>2. /\ DOMAIN h = DOMAIN TrendBuckets(r)
        /\ \A i \in DOMAIN h :
             h[i] = SumOf(OfType(Counted(Flows(In(S, r)), TrendBuckets(r), i), "INCOME"))
    BY <1>2, <1>3, <2>1
  <2>3. SumFunction(h) = SumOf(OfType(In(S, r), "INCOME"))
    BY <2>2, TrendAddsUp
  <2>4. Overview(S, r)["income"] = SumOf(OfType(In(S, r), "INCOME"))
    BY DEF Overview
  <2>5. QED
    BY <2>1, <2>3, <2>4
<1>5. SumFunction([i \in DOMAIN t |-> t[i]["expense"]]) = Overview(S, r)["expense"]
  <2>1. PICK h : h = [i \in DOMAIN t |-> t[i]["expense"]]
    OBVIOUS
  <2>2. /\ DOMAIN h = DOMAIN TrendBuckets(r)
        /\ \A i \in DOMAIN h :
             h[i] = SumOf(OfType(Counted(Flows(In(S, r)), TrendBuckets(r), i), "EXPENSE"))
    BY <1>2, <1>3, <2>1
  <2>3. SumFunction(h) = SumOf(OfType(In(S, r), "EXPENSE"))
    BY <2>2, TrendAddsUp
  <2>4. Overview(S, r)["expense"] = SumOf(OfType(In(S, r), "EXPENSE"))
    BY DEF Overview
  <2>5. QED
    BY <2>1, <2>3, <2>4
<1>6. QED
  BY <1>1, <1>4, <1>5

LEMMA WalletsAreFinite == IsFiniteSet(Wallets)
<1>1. IsFiniteSet({"bank"})
  BY FS_Singleton
<1>2. IsFiniteSet({"bank"} \cup {"card"})
  BY <1>1, FS_AddElement
<1>3. Wallets = {"bank"} \cup {"card"}
  BY DEF Wallets
<1>4. QED
  BY <1>2, <1>3

LEMMA WalletsOfType ==
  ASSUME NEW S, Bookable(S), NEW r, NEW type, NEW h, DOMAIN h = Wallets,
         \A w \in Wallets : h[w] = SumOf(OfType(In({x \in S : x.wallet = w}, r), type))
  PROVE  SumFunction(h) = SumOf(OfType(In(S, r), type))
<1>1. PICK A : A = OfType(In(S, r), type)
  OBVIOUS
<1>2. IsFiniteSet(A) /\ \A x \in A : x.amount \in Int /\ x.wallet \in Wallets
  BY <1>1, RowsOfRange
<1>3. PICK c : c = [x \in A |-> x.wallet]
  OBVIOUS
<1>4. c \in [A -> Wallets]
  BY <1>2, <1>3
<1>5. \A w \in Wallets : OfType(In({x \in S : x.wallet = w}, r), type) = Class(c, A, w)
  BY <1>1, <1>3 DEF OfType, In, Class
<1>6. \A w \in Wallets : h[w] = SumOf(Class(c, A, w))
  BY <1>5
<1>7. SumFunction(h) = SumOf(A)
  BY <1>2, <1>4, <1>6, WalletsAreFinite, SumOfClasses
<1>8. QED
  BY <1>1, <1>7

LEMMA WalletsOfFlows ==
  ASSUME NEW S, Bookable(S), NEW r, NEW h, DOMAIN h = Wallets,
         \A w \in Wallets : h[w] = Cardinality(Flows(In({x \in S : x.wallet = w}, r)))
  PROVE  SumFunction(h) = Cardinality(Flows(In(S, r)))
<1>1. PICK A : A = Flows(In(S, r))
  OBVIOUS
<1>2. IsFiniteSet(A) /\ \A x \in A : x.wallet \in Wallets
  BY <1>1, RowsOfRange
<1>3. PICK c : c = [x \in A |-> x.wallet]
  OBVIOUS
<1>4. c \in [A -> Wallets]
  BY <1>2, <1>3
<1>5. \A w \in Wallets : Flows(In({x \in S : x.wallet = w}, r)) = Class(c, A, w)
  BY <1>1, <1>3 DEF Flows, OfType, In, Class
<1>6. \A w \in Wallets : h[w] = Cardinality(Class(c, A, w))
  BY <1>5
<1>7. SumFunction(h) = Cardinality(A)
  BY <1>2, <1>4, <1>6, WalletsAreFinite, CountOfClasses
<1>8. QED
  BY <1>1, <1>7

LEMMA WalletsAddUp ==
  ASSUME NEW S, Bookable(S), NEW r
  PROVE  \A f \in {"income", "expense", "count"} :
           SumFunction([w \in Wallets |-> WalletBreakdown(S, r)[w][f]]) = Overview(S, r)[f]
<1>1. PICK t : t = WalletBreakdown(S, r)
  OBVIOUS
<1>2. \A w \in Wallets : t[w] = Overview({x \in S : x.wallet = w}, r)
  BY <1>1 DEF WalletBreakdown
<1>3. \A T : /\ Overview(T, r)["income"] = SumOf(OfType(In(T, r), "INCOME"))
            /\ Overview(T, r)["expense"] = SumOf(OfType(In(T, r), "EXPENSE"))
            /\ Overview(T, r)["count"] = Cardinality(Flows(In(T, r)))
  BY DEF Overview
<1>4. ASSUME NEW f \in {"income", "expense", "count"}
      PROVE  SumFunction([w \in Wallets |-> t[w][f]]) = Overview(S, r)[f]
  <2>1. PICK h : h = [w \in Wallets |-> t[w][f]]
    OBVIOUS
  <2>2. DOMAIN h = Wallets /\ \A w \in Wallets : h[w] = Overview({x \in S : x.wallet = w}, r)[f]
    BY <1>2, <2>1
  <2>3. CASE f = "income"
    <3>1. \A w \in Wallets : h[w] = SumOf(OfType(In({x \in S : x.wallet = w}, r), "INCOME"))
      BY <1>3, <2>2, <2>3
    <3>2. SumFunction(h) = SumOf(OfType(In(S, r), "INCOME"))
      BY <2>2, <3>1, WalletsOfType
    <3>3. QED
      BY <1>3, <2>1, <2>3, <3>2
  <2>4. CASE f = "expense"
    <3>1. \A w \in Wallets : h[w] = SumOf(OfType(In({x \in S : x.wallet = w}, r), "EXPENSE"))
      BY <1>3, <2>2, <2>4
    <3>2. SumFunction(h) = SumOf(OfType(In(S, r), "EXPENSE"))
      BY <2>2, <3>1, WalletsOfType
    <3>3. QED
      BY <1>3, <2>1, <2>4, <3>2
  <2>5. CASE f = "count"
    <3>1. \A w \in Wallets : h[w] = Cardinality(Flows(In({x \in S : x.wallet = w}, r)))
      BY <1>3, <2>2, <2>5
    <3>2. SumFunction(h) = Cardinality(Flows(In(S, r)))
      BY <2>2, <3>1, WalletsOfFlows
    <3>3. QED
      BY <1>3, <2>1, <2>5, <3>2
  <2>6. QED
    BY <2>3, <2>4, <2>5
<1>5. QED
  BY <1>1, <1>4

LEMMA CategoriesAddUp ==
  ASSUME NEW S, Bookable(S), NEW r, NEW type
  PROVE  CategoryTotal(S, r, type) = SumOf(OfType(In(S, r), type))
<1>1. PICK A, I : A = OfType(In(S, r), type) /\ I = {x.category : x \in A}
  OBVIOUS
<1>2. IsFiniteSet(A) /\ \A x \in A : x.amount \in Int
  BY <1>1, RowsOfRange
<1>3. PICK c : c = [x \in A |-> x.category]
  OBVIOUS
<1>4. c \in [A -> I] /\ \A i \in I : \E x \in A : c[x] = i
  BY <1>1, <1>3
<1>5. c \in Surjection(A, I)
  BY <1>4 DEF Surjection
<1>6. IsFiniteSet(I)
  BY <1>2, <1>5, FS_Surjection
<1>7. PICK h : h = CategoryBreakdown(S, r, type)
  OBVIOUS
<1>8. DOMAIN h = I /\ \A i \in I : h[i] = SumOf({x \in A : x.category = i})
  BY <1>1, <1>7 DEF CategoryBreakdown
<1>9. \A i \in I : {x \in A : x.category = i} = Class(c, A, i)
  BY <1>3 DEF Class
<1>10. \A i \in I : h[i] = SumOf(Class(c, A, i))
  BY <1>8, <1>9
<1>11. SumFunction(h) = SumOf(A)
  BY <1>2, <1>4, <1>6, <1>8, <1>10, SumOfClasses
<1>12. QED
  BY <1>1, <1>7, <1>11 DEF CategoryTotal

-----------------------------------------------------------------------------
(* The listing and its pages *)

LEMMA NewerOrders ==
  ASSUME NEW S, Bookable(S), NEW r
  PROVE  Orders(Newer(S), In(S, r))
<1>1. PICK A, R : A = In(S, r) /\ R = Newer(S)
  OBVIOUS
<1>2. \A x \in A : x.date \in Int /\ x.id \in Int
  BY <1>1, RowsOfRange
<1>3. \A x, y \in A : x.id = y.id => x = y
  BY <1>1 DEF Bookable, In
<1>4. \A x, y \in A : <<x, y>> \in R <=> x.date > y.date \/ (x.date = y.date /\ x.id > y.id)
  BY <1>1 DEF Newer, In
<1>5. \A x \in A : <<x, x>> \notin R
  BY <1>2, <1>4
<1>6. ASSUME NEW x \in A, NEW y \in A, x # y PROVE <<x, y>> \in R \/ <<y, x>> \in R
  <2>1. x.date \in Int /\ x.id \in Int /\ y.date \in Int /\ y.id \in Int /\ x.id # y.id
    BY <1>2, <1>3, <1>6
  <2>2. x.date > y.date \/ y.date > x.date \/ (x.date = y.date /\ (x.id > y.id \/ y.id > x.id))
    BY <2>1
  <2>3. QED
    BY <1>4, <2>2
<1>7. ASSUME NEW x \in A, NEW y \in A, NEW z \in A, <<x, y>> \in R, <<y, z>> \in R
      PROVE  <<x, z>> \in R
  <2>1. /\ x.date \in Int /\ x.id \in Int /\ y.date \in Int /\ y.id \in Int
        /\ z.date \in Int /\ z.id \in Int
    BY <1>2
  <2>2. /\ x.date > y.date \/ (x.date = y.date /\ x.id > y.id)
        /\ y.date > z.date \/ (y.date = z.date /\ y.id > z.id)
    BY <1>4, <1>7
  <2>3. x.date > z.date \/ (x.date = z.date /\ x.id > z.id)
    BY <2>1, <2>2
  <2>4. QED
    BY <1>4, <2>3
<1>8. QED
  BY <1>1, <1>5, <1>6, <1>7 DEF Orders

LEMMA ListingLists ==
  ASSUME NEW S, Bookable(S), NEW r
  PROVE  Lists(Listing(S, r), In(S, r), Newer(S))
<1>1. IsFiniteSet(In(S, r))
  BY RowsOfRange
<1>2. Orders(Newer(S), In(S, r))
  BY NewerOrders
<1>3. Lists(InOrder(In(S, r), Newer(S)), In(S, r), Newer(S))
  BY <1>1, <1>2, OrderIsListed
<1>4. QED
  BY <1>3 DEF Listing

(* The listing shows each flow once. *)
LEMMA ListingCounts ==
  ASSUME NEW S, Bookable(S), NEW r
  PROVE  Cardinality({i \in DOMAIN Listing(S, r) : Listing(S, r)[i].type # "TRANSFER"})
           = Overview(S, r).count
<1>1. PICK list, A : list = Listing(S, r) /\ A = In(S, r)
  OBVIOUS
<1>2. Lists(list, A, Newer(S))
  BY <1>1, ListingLists
<1>3. PICK n \in Nat : n = Len(list) /\ DOMAIN list = 1..n
  BY <1>2, ListsAre
<1>4. \A i \in 1..n : list[i] \in A
  BY <1>2, <1>3, ListsAre
<1>5. \A x \in A : \E i \in 1..n : list[i] = x
  BY <1>2, <1>3 DEF Lists
<1>6. \A i, j \in 1..n : i # j => list[i] # list[j]
  <2>1. \A i, j \in 1..n : i < j => list[i] # list[j]
    BY <1>2, <1>3 DEF Lists
  <2>2. \A i, j \in 1..n : i # j => i < j \/ j < i
    OBVIOUS
  <2>3. QED
    BY <2>1, <2>2
<1>7. \A x \in A : x.type # "TRANSFER" <=> x \in Flows(A)
  <2>1. \A x \in A : x.type \in {"INCOME", "EXPENSE", "TRANSFER"}
    BY <1>1, RowsOfRange DEF Types
  <2>2. QED
    BY <2>1 DEF Flows, OfType
<1>8. PICK D, F : D = {i \in 1..n : list[i].type # "TRANSFER"} /\ F = Flows(A)
  OBVIOUS
<1>9. PICK f : f = [i \in D |-> list[i]]
  OBVIOUS
<1>10. f \in [D -> F]
  BY <1>4, <1>7, <1>8, <1>9
<1>11. \A i, j \in D : f[i] = f[j] => i = j
  BY <1>6, <1>8, <1>9
<1>12. \A x \in F : \E i \in D : f[i] = x
  <2> SUFFICES ASSUME NEW x \in F PROVE \E i \in D : f[i] = x
    OBVIOUS
  <2>1. x \in A
    BY <1>8 DEF Flows, OfType
  <2>2. PICK i \in 1..n : list[i] = x
    BY <1>5, <2>1
  <2>3. i \in D
    BY <1>7, <1>8, <2>1, <2>2
  <2>4. QED
    BY <1>9, <2>2, <2>3
<1>13. f \in Bijection(D, F)
  BY <1>10, <1>11, <1>12 DEF Bijection, Injection, Surjection, IsInjective
<1>14. ExistsBijection(D, F)
  BY <1>13 DEF ExistsBijection
<1>15. IsFiniteSet(D)
  <2>1. IsFiniteSet(1..n)
    BY FS_Interval
  <2>2. D \in SUBSET (1..n)
    BY <1>8
  <2>3. QED
    BY <2>1, <2>2, FS_Subset
<1>16. Cardinality(F) = Cardinality(D)
  BY <1>14, <1>15, FS_Bijection
<1>17. Overview(S, r).count = Cardinality(F)
  BY <1>1, <1>8 DEF Overview
<1>18. QED
  BY <1>1, <1>3, <1>8, <1>16, <1>17

(* How many pages a listing of n rows takes. *)
LEMMA PagesNeeded ==
  ASSUME NEW n \in Nat, NEW limit \in Nat \ {0}
  PROVE  LET q == (n + limit - 1) \div limit
             k == IF q < 1 THEN 1 ELSE q
         IN /\ k \in Nat \ {0} /\ k * limit >= n
            /\ \A i \in 1..k : (i - 1) * limit \in Nat /\ (i - 1) * limit <= n
                             /\ i * limit = (i - 1) * limit + limit
<1>1. PICK q \in Nat : q = (n + limit - 1) \div limit
  OBVIOUS
<1>2. q * limit <= n + limit - 1 /\ n + limit - 1 < q * limit + limit
  BY <1>1
<1>3. PICK k \in Nat \ {0} : k = IF q < 1 THEN 1 ELSE q
  OBVIOUS
<1>4. k * limit >= n
  <2>1. CASE q < 1
    <3>1. q = 0 /\ k = 1 /\ q * limit = 0 /\ k * limit = limit
      BY <1>3, <2>1
    <3>2. QED
      BY <1>2, <3>1
  <2>2. CASE ~(q < 1)
    <3>1. k = q /\ q * limit \in Nat
      BY <1>3, <2>2
    <3>2. QED
      BY <1>2, <3>1
  <2>3. QED
    BY <2>1, <2>2
<1>5. ASSUME NEW i \in 1..k
      PROVE  /\ (i - 1) * limit \in Nat /\ (i - 1) * limit <= n
             /\ i * limit = (i - 1) * limit + limit
  <2>1. PICK j \in Nat : j = i - 1 /\ i = j + 1
    OBVIOUS
  <2>2. j * limit \in Nat /\ i * limit = j * limit + limit
    BY <2>1
  <2>3. CASE j = 0
    BY <2>1, <2>2, <2>3
  <2>4. CASE j # 0
    <3>1. k = q /\ j + 1 <= q
      BY <1>3, <2>1, <2>4
    <3>2. PICK e \in Nat : q = (j + 1) + e
      <4>1. q - (j + 1) \in Nat /\ q = (j + 1) + (q - (j + 1))
        BY <3>1
      <4>2. QED
        BY <4>1
    <3>3. q * limit = j * limit + limit + e * limit /\ e * limit \in Nat
      BY <3>2
    <3>4. j * limit <= n
      BY <1>2, <2>2, <3>3
    <3>5. QED
      BY <2>1, <2>2, <3>4
  <2>5. QED
    BY <2>3, <2>4
<1>6. QED
  BY <1>1, <1>3, <1>4, <1>5

(* Joined(seqs, f): f joins the sequences one after the other. *)
Joined(seqs, f) ==
  f = [i \in 1..Len(seqs) |-> IF i = 1 THEN seqs[i] ELSE f[i - 1] \o seqs[i]]

LEMMA JoinedOnce ==
  ASSUME NEW seqs, Len(seqs) \in Nat \ {0}, NEW f, NEW g, Joined(seqs, f), Joined(seqs, g)
  PROVE  f[Len(seqs)] = g[Len(seqs)]
<1>1. PICK n \in Nat \ {0} : n = Len(seqs)
  OBVIOUS
<1> DEFINE P == {i \in 0..n : i = 0 \/ f[i] = g[i]}
<1>2. 0 \in P
  OBVIOUS
<1>3. ASSUME NEW i \in 1..n, i - 1 \in P PROVE i \in P
  <2>1. /\ f[i] = IF i = 1 THEN seqs[i] ELSE f[i - 1] \o seqs[i]
        /\ g[i] = IF i = 1 THEN seqs[i] ELSE g[i - 1] \o seqs[i]
    BY <1>1 DEF Joined
  <2>2. i # 1 => f[i - 1] = g[i - 1]
    BY <1>3
  <2>3. QED
    BY <2>1, <2>2
<1> HIDE DEF P
<1>4. 0..n \subseteq P
  BY <1>2, <1>3, Climbing
<1>5. n \in 0..n /\ n # 0
  OBVIOUS
<1>6. QED
  BY <1>1, <1>4, <1>5 DEF P

LEMMA JoinedIs ==
  ASSUME NEW seqs, Len(seqs) \in Nat \ {0}, NEW f, Joined(seqs, f)
  PROVE  FlattenSeq(seqs) = f[Len(seqs)]
<1>1. PICK g : g = CHOOSE k : Joined(seqs, k)
  OBVIOUS
<1>2. Joined(seqs, g)
  BY <1>1
<1>3. FlattenSeq(seqs) = g[Len(seqs)]
  BY <1>1 DEF FlattenSeq, Joined
<1>4. QED
  BY <1>2, <1>3, JoinedOnce

(* The pages one after the other are the listing. *)
LEMMA PagesAddUp ==
  ASSUME NEW A, NEW list \in Seq(A), NEW limit \in Nat \ {0}
  PROVE  FlattenSeq([k \in 1..TotalPages(list, limit) |-> Page(list, k, limit)]) = list
<1>1. PICK n \in Nat : n = Len(list)
  OBVIOUS
<1>2. PICK k \in Nat \ {0} :
        /\ k = TotalPages(list, limit) /\ k * limit >= n
        /\ \A i \in 1..k : (i - 1) * limit \in Nat /\ (i - 1) * limit <= n
                         /\ i * limit = (i - 1) * limit + limit
  BY <1>1, PagesNeeded DEF TotalPages
<1>3. PICK seqs : seqs = [i \in 1..k |-> Page(list, i, limit)]
  OBVIOUS
<1>4. Len(seqs) = k
  BY <1>3
<1> DEFINE End(i) == IF i * limit > n THEN n ELSE i * limit
<1>5. PICK f : f = [i \in 1..k |-> SubSeq(list, 1, End(i))]
  OBVIOUS
<1>6. ASSUME NEW i \in 1..k
      PROVE  /\ seqs[i] = SubSeq(list, (i - 1) * limit + 1, End(i))
             /\ f[i] = SubSeq(list, 1, End(i))
             /\ End(i) \in 0..n /\ (i - 1) * limit \in 0..End(i)
  <2>1. PICK j \in Nat : j = (i - 1) * limit /\ j <= n /\ i * limit = j + limit
    BY <1>2
  <2>2. seqs[i] = SubSeq(list, (i - 1) * limit + 1, IF i * limit > n THEN n ELSE i * limit)
    BY <1>1, <1>3 DEF Page
  <2>3. End(i) \in 0..n /\ j \in 0..End(i)
    BY <2>1
  <2>4. QED
    BY <1>5, <2>1, <2>2, <2>3
<1>7. ASSUME NEW i \in 1..k
      PROVE  f[i] = IF i = 1 THEN seqs[i] ELSE f[i - 1] \o seqs[i]
  <2>1. CASE i = 1
    <3>1. (i - 1) * limit + 1 = 1
      BY <2>1
    <3>2. QED
      BY <1>6, <2>1, <3>1
  <2>2. CASE i # 1
    <3>1. PICK j \in 1..k : j = i - 1
      BY <2>2
    <3>2. PICK m \in Nat, e \in Nat : m = j * limit /\ e = End(i) /\ m <= e /\ e <= n
      <4>1. End(i) \in 0..n /\ (i - 1) * limit \in 0..End(i)
        BY <1>6
      <4>2. PICK m, e : m = (i - 1) * limit /\ e = End(i)
        OBVIOUS
      <4>3. m \in Nat /\ e \in Nat /\ m <= e /\ e <= n
        BY <4>1, <4>2
      <4>4. m = j * limit
        BY <3>1, <4>2
      <4>5. QED
        BY <4>2, <4>3, <4>4
    <3>3. End(j) = m
      <4>1. j * limit <= n
        BY <1>2, <3>1
      <4>2. QED
        BY <3>2, <4>1
    <3>4. f[j] = SubSeq(list, 1, m) /\ seqs[i] = SubSeq(list, m + 1, e) /\ f[i] = SubSeq(list, 1, e)
      BY <1>6, <3>1, <3>2, <3>3
    <3>5. 1 \in 1..(Len(list) + 1) /\ m \in (1 - 1)..Len(list) /\ e \in m..Len(list)
      BY <1>1, <3>2
    <3>6. SubSeq(list, 1, m) \o SubSeq(list, m + 1, e) = SubSeq(list, 1, e)
      BY <3>5, ConcatAdjacentSubSeq
    <3>7. QED
      BY <2>2, <3>1, <3>4, <3>6
  <2>3. QED
    BY <2>1, <2>2
<1>8. f = [i \in 1..k |-> f[i]]
  BY <1>5
<1>9. Joined(seqs, f)
  BY <1>4, <1>7, <1>8 DEF Joined
<1>10. FlattenSeq(seqs) = f[k]
  BY <1>4, <1>9, JoinedIs
<1>11. f[k] = SubSeq(list, 1, n)
  <2>1. k \in 1..k /\ f[k] = SubSeq(list, 1, End(k))
    BY <1>6
  <2>2. PICK m \in Nat : m = k * limit /\ m >= n
    BY <1>2
  <2>3. End(k) = n
    BY <2>2
  <2>4. QED
    BY <2>1, <2>3
<1>12. SubSeq(list, 1, n) = list
  BY <1>1, SubSeqFull
<1>13. QED
  BY <1>2, <1>3, <1>10, <1>11, <1>12

LEMMA CutsAgree ==
  ASSUME Bookable(books), NEW r, WholeDays(r)
  PROVE  CutsAddUp(r)
<1>1. \A f \in {"income", "expense"} :
         SumFunction([i \in DOMAIN Trends(books, r) |-> Trends(books, r)[i][f]]) = Overview(books, r)[f]
  BY TrendsAddUp
<1>2. \A f \in {"income", "expense", "count"} :
         SumFunction([w \in Wallets |-> WalletBreakdown(books, r)[w][f]]) = Overview(books, r)[f]
  BY WalletsAddUp
<1>3. /\ CategoryTotal(books, r, "INCOME") = Overview(books, r).income
      /\ CategoryTotal(books, r, "EXPENSE") = Overview(books, r).expense
  <2>1. /\ Overview(books, r).income = SumOf(OfType(In(books, r), "INCOME"))
        /\ Overview(books, r).expense = SumOf(OfType(In(books, r), "EXPENSE"))
    BY DEF Overview
  <2>2. \A type : CategoryTotal(books, r, type) = SumOf(OfType(In(books, r), type))
    BY CategoriesAddUp
  <2>3. QED
    BY <2>1, <2>2
<1>4. Cardinality({i \in DOMAIN Listing(books, r) : Listing(books, r)[i].type # "TRANSFER"})
        = Overview(books, r).count
  BY ListingCounts
<1>5. ASSUME NEW limit \in 1..PageMax
      PROVE  FlattenSeq([k \in 1..TotalPages(Listing(books, r), limit) |-> Page(Listing(books, r), k, limit)])
               = Listing(books, r)
  <2>1. PICK list : list = Listing(books, r)
    OBVIOUS
  <2>2. Lists(list, In(books, r), Newer(books))
    BY <2>1, ListingLists
  <2>3. list \in Seq(In(books, r)) /\ limit \in Nat \ {0}
    BY <2>2, ReportingAssumption DEF Lists
  <2>4. FlattenSeq([k \in 1..TotalPages(list, limit) |-> Page(list, k, limit)]) = list
    BY <2>3, PagesAddUp
  <2>5. QED
    BY <2>1, <2>4
<1>6. QED
  BY <1>1, <1>2, <1>3, <1>4, <1>5 DEF CutsAddUp

-----------------------------------------------------------------------------
(* Budgets *)

LEMMA NothingSums == SumOf({}) = 0
<1>1. SumOf({}) = Total(AmountsOf({}), {})
  BY FS_EmptySet, SumOfIs
<1>2. QED
  BY <1>1, FS_EmptySet, TotalOfNothing

LEMMA SpentAgrees ==
  ASSUME NEW S, NEW c \in Categories, NEW m
  PROVE  /\ Spent(S, c, m) = SpentByCategory(S, Categories, m)[c]
         /\ LET expenses == CategoryBreakdown(S, MonthRange(m), "EXPENSE")
            IN Spent(S, c, m) = IF c \in DOMAIN expenses THEN expenses[c] ELSE 0
<1>1. PICK A : A = OfType(In(S, MonthRange(m)), "EXPENSE")
  OBVIOUS
<1>2. Spent(S, c, m) = SumOf({x \in A : x.category = c})
  BY <1>1 DEF Spent
<1>3. PICK rows : rows = {x \in A : x.category \in Categories}
  OBVIOUS
<1>4. PICK sums : sums = [k \in {x.category : x \in rows} |-> SumOf({x \in rows : x.category = k})]
  OBVIOUS
<1>5. SpentByCategory(S, Categories, m)[c] = IF c \in DOMAIN sums THEN sums[c] ELSE 0
  BY <1>1, <1>3, <1>4 DEF SpentByCategory
<1>6. {x \in rows : x.category = c} = {x \in A : x.category = c}
  BY <1>3
<1>7. c \notin DOMAIN sums => {x \in A : x.category = c} = {}
  BY <1>3, <1>4
<1>8. c \in DOMAIN sums => sums[c] = SumOf({x \in A : x.category = c})
  BY <1>4, <1>6
<1>9. Spent(S, c, m) = SpentByCategory(S, Categories, m)[c]
  BY <1>2, <1>5, <1>7, <1>8, NothingSums
<1>10. PICK expenses : expenses = CategoryBreakdown(S, MonthRange(m), "EXPENSE")
  OBVIOUS
<1>11. expenses = [k \in {x.category : x \in A} |-> SumOf({x \in A : x.category = k})]
  BY <1>1, <1>10 DEF CategoryBreakdown
<1>12. c \notin DOMAIN expenses => {x \in A : x.category = c} = {}
  BY <1>11
<1>13. c \in DOMAIN expenses => expenses[c] = SumOf({x \in A : x.category = c})
  BY <1>11
<1>14. Spent(S, c, m) = IF c \in DOMAIN expenses THEN expenses[c] ELSE 0
  BY <1>2, <1>12, <1>13, NothingSums
<1>15. QED
  BY <1>9, <1>10, <1>14

LEMMA BudgetsAlwaysAgree ==
  ASSUME NEW t \in Nows
  PROVE  BudgetsAgree(t)
<1>1. PICK month \in Int : month = MonthOf(t)
  BY NowReaches, LengthsAre
<1>2. PICK p : p = [name |-> "current-month"]
  OBVIOUS
<1>3. ResolvePeriod(p, t).range = MonthRange(month)
  <2>1. ResolvePeriod(p, t) = Resolved(MonthRange(month), MonthRange(month - 1))
    BY <1>1, <1>2 DEF ResolvePeriod
  <2>2. QED
    BY <2>1, ResolvedIs
<1>4. PICK expenses : expenses = CategoryBreakdown(books, MonthRange(month), "EXPENSE")
  OBVIOUS
<1>5. \A c \in Categories :
        /\ Spent(books, c, month) = SpentByCategory(books, Categories, month)[c]
        /\ Spent(books, c, month) = IF c \in DOMAIN expenses THEN expenses[c] ELSE 0
  BY <1>4, SpentAgrees
<1>6. QED
  BY <1>1, <1>2, <1>3, <1>4, <1>5 DEF BudgetsAgree

-----------------------------------------------------------------------------
(* Balances *)

EffectsOn(w, D) == [x \in D |-> WalletEffect(x, w)]

LEMMA EffectsAreInts ==
  ASSUME NEW D, Bookable(D), NEW w
  PROVE  EffectsOn(w, D) \in [D -> Int]
<1>1. ASSUME NEW x \in D PROVE WalletEffect(x, w) \in Int
  <2>1. PICK lock \in Int : lock = x.lock
    BY DEF Bookable
  <2>2. x.type \in {"INCOME", "EXPENSE", "TRANSFER"}
    BY DEF Bookable, Types
  <2>3. QED
    BY <2>1, <2>2 DEF WalletEffect
<1>2. QED
  BY <1>1 DEF EffectsOn

LEMMA EffectOnIs ==
  ASSUME NEW D, Bookable(D), NEW w, NEW S, S \subseteq D
  PROVE  /\ IsFiniteSet(S)
         /\ EffectOn(w, S) = Total(EffectsOn(w, D), S) /\ EffectOn(w, S) \in Int
<1>1. IsFiniteSet(S)
  BY FS_Subset DEF Bookable
<1>2. PICK F : F = [x \in S |-> WalletEffect(x, w)]
  OBVIOUS
<1>3. DOMAIN F = S /\ \A x \in S : F[x] = EffectsOn(w, D)[x]
  BY <1>2 DEF EffectsOn
<1>4. SumFunction(F) = Total(F, S)
  BY <1>1, <1>3, SumFunctionIsTotal
<1>5. Total(F, S) = Total(EffectsOn(w, D), S)
  BY <1>1, <1>3, TotalSame
<1>6. Total(EffectsOn(w, D), S) \in Int
  BY <1>1, EffectsAreInts, TotalIsInt
<1>7. QED
  BY <1>1, <1>2, <1>4, <1>5, <1>6 DEF EffectOn

(* What two sets of rows did together. *)
LEMMA EffectsAdd ==
  ASSUME NEW D, Bookable(D), NEW w, NEW A, NEW B, A \subseteq D, B \subseteq D, A \cap B = {}
  PROVE  /\ EffectOn(w, A) \in Int /\ EffectOn(w, B) \in Int
         /\ EffectOn(w, A \cup B) = EffectOn(w, A) + EffectOn(w, B)
<1>1. PICK F : F = EffectsOn(w, D)
  OBVIOUS
<1>2. F \in [D -> Int]
  BY <1>1, EffectsAreInts
<1>3. IsFiniteSet(A) /\ EffectOn(w, A) = Total(F, A) /\ EffectOn(w, A) \in Int
  BY <1>1, EffectOnIs
<1>4. IsFiniteSet(B) /\ EffectOn(w, B) = Total(F, B) /\ EffectOn(w, B) \in Int
  BY <1>1, EffectOnIs
<1>5. A \cup B \subseteq D
  OBVIOUS
<1>6. EffectOn(w, A \cup B) = Total(F, A \cup B)
  BY <1>1, <1>5, EffectOnIs
<1>7. Total(F, A \cup B) = Total(F, A) + Total(F, B)
  BY <1>2, <1>3, <1>4, TotalOfUnion
<1>8. QED
  BY <1>3, <1>4, <1>6, <1>7

LEMMA BalanceIsInt ==
  ASSUME Bookable(books), NEW w \in Wallets
  PROVE  Opening[w] \in Int /\ EffectOn(w, books) \in Int /\ Balance(w) \in Int
<1>1. Opening[w] \in Int
  BY DEF Opening, Wallets
<1>2. EffectOn(w, books) \in Int
  BY EffectOnIs
<1>3. QED
  BY <1>1, <1>2 DEF Balance

(* The days of the sparkline. *)
LEMMA RollingDaysAre ==
  ASSUME NEW t \in Nows, NEW days, days = RollingDays(t, SparklineDays)
  PROVE  /\ DOMAIN days = 1..SparklineDays /\ Len(days) = SparklineDays
         /\ \A i \in 1..SparklineDays :
              /\ days[i].from = 2 * (DayOf(t) + i - SparklineDays)
              /\ days[i].to = 2 * (DayOf(t) + i - SparklineDays) + 2
<1>1. PICK n \in Nat \ {0}, d \in Nat : n = SparklineDays /\ d = DayOf(t)
  BY NowReaches, ReportingAssumption
<1>2. days = [i \in 1..n |-> DayRange(d + i - n)]
  BY <1>1 DEF RollingDays
<1>3. ASSUME NEW i \in 1..n
      PROVE  days[i].from = 2 * (d + i - n) /\ days[i].to = 2 * (d + i - n) + 2
  <2>1. PICK k \in Int : k = d + i - n
    OBVIOUS
  <2>2. DayRange(k).from = 2 * k /\ DayRange(k).to = 2 * (k + 1)
    BY DEF DayRange, Midnight, Between
  <2>3. QED
    BY <1>2, <2>1, <2>2
<1>4. DOMAIN days = 1..n
  BY <1>2
<1>5. Len(days) = n
  BY <1>2, LenProperties
<1>6. QED
  BY <1>1, <1>3, <1>4, <1>5

LEMMA SparklineDaysAre ==
  ASSUME NEW t \in Nows, NEW days, days = RollingDays(t, SparklineDays)
  PROVE  /\ DOMAIN days = 1..SparklineDays
         /\ days[1].from \in Int /\ days[1].from <= t /\ t < days[SparklineDays].to
         /\ \A i \in 1..SparklineDays : /\ days[i].to \in Int /\ days[1].from < days[i].to
                                      /\ days[i].to <= days[SparklineDays].to
<1>1. PICK n \in Nat \ {0}, d \in Nat : n = SparklineDays /\ d = DayOf(t)
  BY NowReaches, ReportingAssumption
<1>2. t \in Nat /\ 2 * d <= t /\ t < 2 * d + 2
  BY <1>1, NowReaches
<1>3. \A i \in 1..n : days[i].from = 2 * (d + i - n) /\ days[i].to = 2 * (d + i - n) + 2
  BY <1>1, RollingDaysAre
<1>4. 1 \in 1..n /\ n \in 1..n
  OBVIOUS
<1>5. days[1].from = 2 * (d + 1 - n) /\ days[n].to = 2 * (d + n - n) + 2
  BY <1>3, <1>4
<1>6. days[1].from \in Int /\ days[1].from <= t /\ t < days[n].to
  <2>1. 2 * (d + n - n) + 2 = 2 * d + 2 /\ 2 * (d + 1 - n) <= 2 * d
    OBVIOUS
  <2>2. QED
    BY <1>2, <1>5, <2>1
<1>7. ASSUME NEW i \in 1..n
      PROVE  days[i].to \in Int /\ days[1].from < days[i].to /\ days[i].to <= days[n].to
  BY <1>3, <1>5
<1>8. DOMAIN days = 1..n
  BY <1>1, RollingDaysAre
<1>9. QED
  BY <1>1, <1>6, <1>7, <1>8

(* One day ends after the other, and all but the last before now. *)
LEMMA DaysGrow ==
  ASSUME NEW t \in Nows, NEW days, days = RollingDays(t, SparklineDays),
         NEW i \in 1..SparklineDays, NEW j \in 1..SparklineDays, i < j
  PROVE  days[i].to \in Int /\ days[j].to \in Int /\ days[i].to < days[j].to /\ days[i].to <= t
<1>1. PICK n \in Nat \ {0}, d \in Nat : n = SparklineDays /\ d = DayOf(t)
  BY NowReaches, ReportingAssumption
<1>2. t \in Nat /\ 2 * d <= t
  BY <1>1, NowReaches
<1>3. days[i].to = 2 * (d + i - n) + 2 /\ days[j].to = 2 * (d + j - n) + 2
  BY <1>1, RollingDaysAre
<1>4. QED
  BY <1>1, <1>2, <1>3

(* Each close undoes what came after it. *)
LEMMA ClosesAre ==
  ASSUME Bookable(books), NEW t \in Nows, NEW w \in Wallets,
         NEW i \in DOMAIN RollingDays(t, SparklineDays)
  PROVE  LET days == RollingDays(t, SparklineDays)
             beyond == {x \in books : x.date >= days[SparklineDays].to}
         IN /\ Closes(w, t)[i] = Opening[w] + EffectOn(w, Closed(days, t, i)) + EffectOn(w, beyond)
            /\ EffectOn(w, Closed(days, t, i)) \in Int /\ EffectOn(w, beyond) \in Int
<1>1. PICK n, days : n \in Nat \ {0} /\ n = SparklineDays /\ days = RollingDays(t, SparklineDays)
  BY ReportingAssumption
<1>2. /\ DOMAIN days = 1..n
      /\ days[1].from \in Int /\ days[1].from <= t /\ t < days[n].to
      /\ \A j \in 1..n : days[j].to \in Int /\ days[1].from < days[j].to /\ days[j].to <= days[n].to
  BY <1>1, SparklineDaysAre
<1>3. i \in 1..n /\ n \in 1..n
  BY <1>1, <1>2
<1>4. PICK beyond : beyond = {x \in books : x.date >= days[n].to}
  OBVIOUS
<1>5. PICK realized : realized = {x \in books : IF i = n THEN x.date <= t ELSE x.date < days[i].to}
  OBVIOUS
<1>6. PICK rows : rows = {x \in books : days[1].from <= x.date /\ x.date < days[n].to}
  OBVIOUS
<1>7. PICK undone : undone = IF i = n THEN {x \in rows : x.date > t}
                             ELSE {x \in rows : x.date >= days[i].to}
  OBVIOUS
<1>8. Closes(w, t)[i] = Balance(w) - EffectOn(w, undone)
  BY <1>1, <1>2, <1>6, <1>7 DEF Closes
<1>9. realized \subseteq books /\ undone \subseteq books /\ beyond \subseteq books
  BY <1>4, <1>5, <1>6, <1>7
<1>10. t \in Int /\ days[1].from \in Int /\ days[i].to \in Int /\ days[n].to \in Int
  BY <1>2, <1>3, NowReaches
<1>11. \A x \in books : x.date \in Int
  BY DEF Bookable
<1>12. \A x \in undone : /\ x.date < days[n].to /\ days[1].from <= x.date
                       /\ IF i = n THEN x.date > t ELSE x.date >= days[i].to
  BY <1>6, <1>7
<1>13. undone \cap beyond = {}
  BY <1>4, <1>9, <1>10, <1>11, <1>12
<1>14. (undone \cup beyond) \cap realized = {}
  <2>1. undone \cap realized = {}
    BY <1>5, <1>9, <1>10, <1>11, <1>12
  <2>2. beyond \cap realized = {}
    BY <1>2, <1>3, <1>4, <1>5, <1>10, <1>11
  <2>3. QED
    BY <2>1, <2>2
<1>15. (undone \cup beyond) \cup realized = books
  <2>1. ASSUME NEW x \in books, x \notin realized, x \notin beyond PROVE x \in undone
    <3>1. x.date < days[n].to /\ (IF i = n THEN x.date > t ELSE x.date >= days[i].to)
      BY <1>4, <1>5, <1>10, <1>11, <2>1
    <3>2. days[1].from <= x.date
      BY <1>2, <1>3, <1>10, <1>11, <3>1
    <3>3. QED
      BY <1>6, <1>7, <3>1, <3>2
  <2>2. QED
    BY <1>9, <2>1
<1>16. PICK later : later = undone \cup beyond
  OBVIOUS
<1>17. \A A, B \in SUBSET books :
         A \cap B = {} => /\ EffectOn(w, A) \in Int /\ EffectOn(w, B) \in Int
                          /\ EffectOn(w, A \cup B) = EffectOn(w, A) + EffectOn(w, B)
  BY EffectsAdd
<1>18. /\ EffectOn(w, undone) \in Int /\ EffectOn(w, beyond) \in Int
       /\ EffectOn(w, later) = EffectOn(w, undone) + EffectOn(w, beyond)
  BY <1>9, <1>13, <1>16, <1>17
<1>19. /\ EffectOn(w, realized) \in Int
       /\ EffectOn(w, books) = EffectOn(w, later) + EffectOn(w, realized)
  <2>1. /\ later \in SUBSET books /\ realized \in SUBSET books
        /\ later \cap realized = {} /\ later \cup realized = books
    BY <1>9, <1>14, <1>15, <1>16
  <2>2. QED
    BY <1>17, <2>1
<1>20. Opening[w] \in Int /\ Balance(w) = Opening[w] + EffectOn(w, books)
  BY BalanceIsInt DEF Balance
<1>21. Closes(w, t)[i] = Opening[w] + EffectOn(w, realized) + EffectOn(w, beyond)
  <2>1. PICK o \in Int, u \in Int, e \in Int, f \in Int :
          /\ o = Opening[w] /\ u = EffectOn(w, undone) /\ e = EffectOn(w, beyond)
          /\ f = EffectOn(w, realized)
    BY <1>18, <1>19, <1>20
  <2>2. Closes(w, t)[i] = (o + ((u + e) + f)) - u
    BY <1>8, <1>18, <1>19, <1>20, <2>1
  <2>3. (o + ((u + e) + f)) - u = o + f + e
    OBVIOUS
  <2>4. QED
    BY <2>1, <2>2, <2>3
<1>22. Closed(days, t, i) = realized
  <2>1. Len(days) = n
    BY <1>1, RollingDaysAre
  <2>2. QED
    BY <1>5, <2>1 DEF Closed
<1>23. QED
  BY <1>1, <1>4, <1>18, <1>19, <1>21, <1>22

(* From one close to a later one, a balance changes by what is dated       *)
(* between them.                                                           *)
LEMMA ClosesFollow ==
  ASSUME Bookable(books), NEW t \in Nows, NEW w \in Wallets,
         NEW i \in 1..SparklineDays, NEW j \in 1..SparklineDays, i < j
  PROVE  LET days == RollingDays(t, SparklineDays)
         IN Closes(w, t)[j] = Closes(w, t)[i]
                                + EffectOn(w, Closed(days, t, j) \ Closed(days, t, i))
<1>1. PICK n, days : n \in Nat \ {0} /\ n = SparklineDays /\ days = RollingDays(t, SparklineDays)
  BY ReportingAssumption
<1>2. /\ DOMAIN days = 1..n /\ Len(days) = n
      /\ days[i].to \in Int /\ days[j].to \in Int /\ days[i].to < days[j].to /\ days[i].to <= t
  <2>1. DOMAIN days = 1..n /\ Len(days) = n
    BY <1>1, RollingDaysAre
  <2>2. QED
    BY <1>1, <2>1, DaysGrow
<1>3. t \in Int /\ i # n
  BY <1>1, NowReaches
<1>4. PICK early, late : early = Closed(days, t, i) /\ late = Closed(days, t, j)
  OBVIOUS
<1>5. \A x \in books : x.date \in Int
  BY DEF Bookable
<1>6. early = {x \in books : x.date < days[i].to}
  BY <1>2, <1>3, <1>4 DEF Closed
<1>7. late = {x \in books : IF j = n THEN x.date <= t ELSE x.date < days[j].to}
  BY <1>2, <1>4 DEF Closed
<1>8. early \subseteq late
  BY <1>2, <1>3, <1>5, <1>6, <1>7
<1>9. PICK between : between = late \ early
  OBVIOUS
<1>10. early \in SUBSET books /\ between \in SUBSET books /\ early \cap between = {}
  BY <1>6, <1>7, <1>9
<1>11. late = early \cup between
  BY <1>8, <1>9
<1>12. /\ EffectOn(w, early) \in Int /\ EffectOn(w, between) \in Int
       /\ EffectOn(w, late) = EffectOn(w, early) + EffectOn(w, between)
  BY <1>10, <1>11, EffectsAdd
<1>13. PICK beyond : beyond = {x \in books : x.date >= days[n].to}
  OBVIOUS
<1>14. /\ Closes(w, t)[i] = Opening[w] + EffectOn(w, early) + EffectOn(w, beyond)
       /\ Closes(w, t)[j] = Opening[w] + EffectOn(w, late) + EffectOn(w, beyond)
       /\ EffectOn(w, beyond) \in Int
  BY <1>1, <1>2, <1>4, <1>13, ClosesAre
<1>15. Opening[w] \in Int
  BY BalanceIsInt
<1>16. PICK o \in Int, e \in Int, m \in Int, b \in Int :
         /\ o = Opening[w] /\ e = EffectOn(w, early) /\ m = EffectOn(w, between)
         /\ b = EffectOn(w, beyond)
  BY <1>12, <1>14, <1>15
<1>17. Closes(w, t)[j] = o + (e + m) + b /\ Closes(w, t)[i] = o + e + b
  BY <1>12, <1>14, <1>16
<1>18. Closes(w, t)[j] = Closes(w, t)[i] + m
  BY <1>17
<1>19. QED
  BY <1>1, <1>4, <1>9, <1>16, <1>18

(* A day has a point unless it ended before the wallet was created. *)
LEMMA PointsAre ==
  ASSUME NEW t \in Nows, NEW w, NEW created, NEW i \in 1..SparklineDays
  PROVE  LET days == RollingDays(t, SparklineDays)
             point == Sparkline(w, created, t)[i]
         IN /\ days[i].to <= created => point = NoPoint
            /\ ~(days[i].to <= created) => /\ point = [balance |-> Closes(w, t)[i]]
                                           /\ point # NoPoint
<1>1. PICK days : days = RollingDays(t, SparklineDays)
  OBVIOUS
<1>2. i \in DOMAIN days
  BY <1>1, SparklineDaysAre
<1>3. Sparkline(w, created, t)[i] = IF days[i].to <= created THEN NoPoint
                                    ELSE [balance |-> Closes(w, t)[i]]
  BY <1>1, <1>2 DEF Sparkline
<1>4. ASSUME NEW b PROVE [balance |-> b] # NoPoint
  <2>1. DOMAIN [balance |-> b] = {"balance"} /\ DOMAIN NoPoint = {"null"}
    BY DEF NoPoint
  <2>2. QED
    BY <2>1
<1>5. QED
  BY <1>1, <1>3, <1>4

LEMMA BalancesAlwaysAgree ==
  ASSUME Bookable(books), NEW t \in Nows
  PROVE  BalancesAgree(t)
<1>1. NetWorth = Balance("bank") + Balance("card") <=> Balance("card") <= 0
  <2>1. "bank" \in Wallets /\ "card" \in Wallets
    BY DEF Wallets
  <2>2. PICK b \in Int, c \in Int : b = Balance("bank") /\ c = Balance("card")
    BY <2>1, BalanceIsInt
  <2>3. NetWorth = b - (IF c < 0 THEN -c ELSE c)
    BY <2>2 DEF NetWorth
  <2>4. QED
    BY <2>2, <2>3
<1>2. PICK days : days = RollingDays(t, SparklineDays)
  OBVIOUS
<1>3. PICK beyond : beyond = {x \in books : x.date >= days[SparklineDays].to}
  OBVIOUS
<1>4. /\ DOMAIN days = 1..SparklineDays
      /\ \A i \in 1..SparklineDays : days[i].to \in Int
      /\ \A i, j \in 1..SparklineDays : i < j => days[i].to < days[j].to
  <2>1. \A i, j \in 1..SparklineDays : i < j => days[i].to < days[j].to
    BY <1>2, DaysGrow
  <2>2. QED
    BY <1>2, <2>1, SparklineDaysAre
<1>5. ASSUME NEW w \in Wallets, NEW created \in CreatedAt, NEW i \in DOMAIN days
      PROVE  LET points == Sparkline(w, created, t)
             IN /\ beyond = {} => points[i] \in
                     {NoPoint, [balance |-> Opening[w] + EffectOn(w, Closed(days, t, i))]}
                /\ points[i] # NoPoint => \A j \in (i + 1)..SparklineDays :
                     points[j].balance = points[i].balance
                       + EffectOn(w, Closed(days, t, j) \ Closed(days, t, i))
                /\ points[i] = NoPoint <=> days[i].to <= created
  <2>1. i \in 1..SparklineDays /\ created \in Int /\ SparklineDays \in Nat
    BY <1>4, ReportingAssumption
  <2>2. PICK points : points = Sparkline(w, created, t)
    OBVIOUS
  <2>3. /\ days[i].to <= created => points[i] = NoPoint
        /\ ~(days[i].to <= created) => points[i] = [balance |-> Closes(w, t)[i]] /\ points[i] # NoPoint
    BY <1>2, <2>1, <2>2, PointsAre
  <2>4. beyond = {} => Closes(w, t)[i] = Opening[w] + EffectOn(w, Closed(days, t, i))
    <3> SUFFICES ASSUME beyond = {}
                 PROVE  Closes(w, t)[i] = Opening[w] + EffectOn(w, Closed(days, t, i))
      OBVIOUS
    <3>1. /\ Closes(w, t)[i] = Opening[w] + EffectOn(w, Closed(days, t, i)) + EffectOn(w, beyond)
          /\ EffectOn(w, Closed(days, t, i)) \in Int /\ EffectOn(w, beyond) \in Int
      BY <1>2, <1>3, ClosesAre
    <3>2. PICK e : e = EffectOn(w, {})
      OBVIOUS
    <3>3. EffectOn(w, beyond) = 0
      <4>1. EffectOn(w, {} \cup {}) = EffectOn(w, {}) + EffectOn(w, {})
        BY EffectsAdd
      <4>2. {} \cup {} = {}
        OBVIOUS
      <4>3. e = e + e /\ e \in Int
        BY <3>1, <3>2, <4>1, <4>2
      <4>4. e = 0
        BY <4>3
      <4>5. QED
        BY <3>2, <4>4
    <3>4. Opening[w] \in Int
      BY BalanceIsInt
    <3>5. QED
      BY <3>1, <3>3, <3>4
  <2>5. points[i] # NoPoint => \A j \in (i + 1)..SparklineDays :
          points[j].balance = points[i].balance
            + EffectOn(w, Closed(days, t, j) \ Closed(days, t, i))
    <3> SUFFICES ASSUME points[i] # NoPoint, NEW j \in (i + 1)..SparklineDays
                 PROVE  points[j].balance = points[i].balance
                          + EffectOn(w, Closed(days, t, j) \ Closed(days, t, i))
      OBVIOUS
    <3>1. j \in 1..SparklineDays /\ i < j
      BY <2>1
    <3>2. ~(days[i].to <= created) /\ ~(days[j].to <= created)
      BY <1>4, <2>1, <2>3, <3>1
    <3>3. points[i].balance = Closes(w, t)[i]
      BY <2>3, <3>2
    <3>4. points[j] = [balance |-> Closes(w, t)[j]]
      BY <1>2, <2>2, <3>1, <3>2, PointsAre
    <3>5. Closes(w, t)[j] = Closes(w, t)[i] + EffectOn(w, Closed(days, t, j) \ Closed(days, t, i))
      BY <1>2, <2>1, <3>1, ClosesFollow
    <3>6. QED
      BY <3>3, <3>4, <3>5
  <2>6. QED
    BY <2>2, <2>3, <2>4, <2>5
<1>6. QED
  BY <1>1, <1>2, <1>3, <1>5 DEF BalancesAgree

-----------------------------------------------------------------------------
(* The invariant *)

BooksInv == books # {} => Bookable(books) /\ now \in Nows

LEMMA BooksStand == ReportingSpec => []BooksInv
<1>1. ReportingInit => BooksInv
  BY DEF ReportingInit, BooksInv
<1>2. BooksInv /\ [ReportingNext]_reportVars => BooksInv'
  <2>1. CASE ReportingNext
    <3>1. PICK x \in Entries, others \in Others, t \in Nows : books' = {x} \cup others /\ now' = t
      BY <2>1 DEF ReportingNext, BookEntry
    <3>2. Bookable({x} \cup others)
      BY RowsAssumption
    <3>3. Bookable(books)'
      BY <3>1, <3>2 DEF Bookable
    <3>4. QED
      BY <3>1, <3>3 DEF BooksInv
  <2>2. CASE UNCHANGED reportVars
    BY <2>2 DEF reportVars, BooksInv, Bookable
  <2>3. QED
    BY <2>1, <2>2
<1>3. QED
  BY <1>1, <1>2, PTL DEF ReportingSpec

(* Every report of the same period tells the same story. *)
THEOREM ReportsTellOneStory == ReportingSpec => []ReportsAgree
<1>1. BooksInv => ReportsAgree
  <2> SUFFICES ASSUME BooksInv, books # {} PROVE ReportsAgree
    BY DEF ReportsAgree
  <2>1. Bookable(books) /\ now \in Nows
    BY DEF BooksInv
  <2>2. ASSUME NEW p \in Periods, ResolvePeriod(p, now).ok
        PROVE  /\ RangesFit(p, ResolvePeriod(p, now).range, ResolvePeriod(p, now).previous)
               /\ CutsAddUp(ResolvePeriod(p, now).range)
    <3>1. PICK r : r = ResolvePeriod(p, now).range
      OBVIOUS
    <3>2. WholeDays(r)
      BY <2>1, <2>2, <3>1, PeriodIs
    <3>3. CutsAddUp(r)
      BY <2>1, <3>2, CutsAgree
    <3>4. QED
      BY <2>1, <2>2, <3>1, <3>3, PeriodsFit
  <2>3. BudgetsAgree(now) /\ BalancesAgree(now)
    BY <2>1, BudgetsAlwaysAgree, BalancesAlwaysAgree
  <2>4. QED
    BY <2>2, <2>3 DEF ReportsAgree
<1>2. QED
  BY <1>1, BooksStand, PTL

-----------------------------------------------------------------------------
(***************************************************************************)
(* All of them together: Spec, the specification the services' run checks. *)
(* A scene leaves the rows of the other services alone, so a behaviour of  *)
(* the whole is one of each part, and the parts' theorems hold of it.      *)
(***************************************************************************)
LEMMA PartsBegin ==
  Init => /\ ScheduleInit /\ RecordsInit /\ CallbackInit
          /\ CycleInit /\ ReportingInit /\ ReconciliationInit
BY DEF Init

LEMMA PartsStep ==
  [Next]_vars => /\ [ScheduleNext]_scheduleVars /\ [RecordsNext]_recordVars
                 /\ [CallbackNext]_callbackVars /\ [CycleNext]_cycle
                 /\ [ReportingNext]_reportVars /\ [ReconciliationNext]_past
<1> SUFFICES ASSUME [Next]_vars
             PROVE  /\ [ScheduleNext]_scheduleVars /\ [RecordsNext]_recordVars
                    /\ [CallbackNext]_callbackVars /\ [CycleNext]_cycle
                    /\ [ReportingNext]_reportVars /\ [ReconciliationNext]_past
  OBVIOUS
<1>1. CASE UNCHANGED vars
  BY <1>1 DEF vars
<1>2. CASE PaymentStep /\ UNCHANGED <<recordVars, callbackVars, cycle, reportVars, past>>
  BY <1>2 DEF PaymentStep
<1>3. CASE RecordStep /\ UNCHANGED <<scheduleVars, callbackVars, cycle, reportVars, past>>
  BY <1>3 DEF RecordStep, RecordsNext
<1>4. CASE CallbackNext /\ UNCHANGED <<scheduleVars, recordVars, cycle, reportVars, past>>
  BY <1>4
<1>5. CASE /\ UNCHANGED <<scheduleVars, recordVars, callbackVars>>
           /\ \/ CycleNext /\ UNCHANGED <<reportVars, past>>
              \/ ReportingNext /\ UNCHANGED <<cycle, past>>
              \/ ReconciliationNext /\ UNCHANGED <<cycle, reportVars>>
  BY <1>5
<1>6. QED
  BY <1>1, <1>2, <1>3, <1>4, <1>5 DEF Next

LEMMA ServicesAreTheirParts ==
  Spec => /\ ScheduleSpec /\ RecordsSpec /\ CallbackSpec
          /\ CycleSpec /\ ReportingSpec /\ ReconciliationSpec
BY PartsBegin, PartsStep, PTL
   DEF Spec, ScheduleSpec, RecordsSpec, CallbackSpec, CycleSpec, ReportingSpec, ReconciliationSpec

(* The rows of every service stay well typed while they all are there: the *)
(* installment, the template and its events, the edited rows, the links    *)
(* and the buttons.                                                        *)
THEOREM ServicesTypeCorrect == Spec => []ServicesTypeOK
<1>1. ScheduleTypeOK /\ RecordsTypeOK /\ CallbackTypeOK => ServicesTypeOK
  BY DEF ServicesTypeOK
<1>2. QED
  BY <1>1, ServicesAreTheirParts, ScheduleTypeCorrect, RecordsTypeCorrect, CallbackTypeCorrect, PTL

(* Whatever holds of a service alone holds of it beside the others: money  *)
(* follows records, terms follow payments, templates stay usable, edited   *)
(* rows agree, buttons tell the truth, schedules add up, reports agree and *)
(* repairs need proof.                                                     *)
THEOREM ServicesKeepTheirWord ==
  Spec => [](/\ MoneyFollowsRecords /\ TermsFollowPayments /\ TemplateStaysUsable
             /\ RecordsAgree /\ ButtonsTellTheTruth /\ SchedulesAddUp
             /\ ReportsAgree /\ RepairsNeedProof)
BY ServicesAreTheirParts, MoneyIsRecorded, TermsArePaid, TemplateIsUsable, RecordsStayTrue,
   ButtonsAreTrue, CycleHolds, ReportsTellOneStory, RepairsAreProven, PTL
=============================================================================
