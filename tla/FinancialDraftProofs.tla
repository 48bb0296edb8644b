------------------------ MODULE FinancialDraftProofs ------------------------
(***************************************************************************)
(* Proofs about FinancialDraft, for any number of drafts, keys and         *)
(* requests.                                                               *)
(***************************************************************************)
EXTENDS FinancialDraft, TLAPS

(* Only a sent request has content. *)
SentHasContent ==
  \A r \in Requests : pc[r] # "unsent" => req[r] \in Request

TypeInv == TypeOK /\ SentHasContent

LEMMA TypeInvInit == Init => TypeInv
  BY DEF Init, TypeInv, TypeOK, SentHasContent, DraftStatus, Step, Answers

LEMMA TypeInvNext == TypeInv /\ [Next]_vars => TypeInv'
<1> SUFFICES ASSUME TypeInv, [Next]_vars PROVE TypeInv'
  OBVIOUS
<1> USE DEF TypeInv, TypeOK, SentHasContent, DraftStatus, Step, Answers
<1>1. ASSUME NEW d \in Drafts, Prepare(d) PROVE TypeInv'
  BY <1>1 DEF Prepare
<1>2. ASSUME NEW d \in Drafts, TimePasses(d) PROVE TypeInv'
  BY <1>2 DEF TimePasses
<1>3. ASSUME NEW r \in Requests, Send(r) PROVE TypeInv'
  BY <1>3 DEF Send
<1>4. ASSUME NEW r \in Requests, BeginConfirm(r) PROVE TypeInv'
  BY <1>4 DEF BeginConfirm, Reply, Goto, Acquire, Request
<1>5. ASSUME NEW r \in Requests, CommitConfirm(r) PROVE TypeInv'
  <2> DEFINE d == req[r].draft
             k == req[r].key
             committed == KeyFree(k, d) /\ Pending(d) /\ link[d] = None
  <2>1. /\ req[r] \in Request /\ d \in Drafts /\ k \in Keys
        /\ UNCHANGED <<expired, req>>
    BY <1>5 DEF CommitConfirm, Request
  <2>2. /\ lock' = [lock EXCEPT ![d] = None]
        /\ created' \in [Drafts -> SUBSET Requests]
    BY <1>5, <2>1 DEF CommitConfirm, Release, Made
  <2>3. CASE committed
    BY <1>5, <2>1, <2>2, <2>3 DEF CommitConfirm, Reply
  <2>4. CASE ~committed
    <3>1. /\ \E result \in {"ERROR", "CONFLICT", "KEY_CONFLICT"} : Reply(r, result, None)
          /\ UNCHANGED <<status, link, keyDraft>>
      BY <1>5, <2>4 DEF CommitConfirm, CommitRefusal
    <3>2. QED  BY <2>1, <2>2, <3>1 DEF Reply
  <2>5. QED  BY <2>3, <2>4
<1>6. ASSUME NEW r \in Requests, RejectConfirm(r) PROVE TypeInv'
  BY <1>6 DEF RejectConfirm, Goto, Release, Request
<1>7. ASSUME NEW r \in Requests, ReadRejected(r) PROVE TypeInv'
  BY <1>7 DEF ReadRejected, Goto, Reply
<1>8. ASSUME NEW r \in Requests, RecordRejection(r) PROVE TypeInv'
  BY <1>8 DEF RecordRejection, Reply
<1>9. ASSUME NEW r \in Requests, ExpireDraft(r) PROVE TypeInv'
  BY <1>9 DEF ExpireDraft, Reply, Release
<1>10. ASSUME NEW r \in Requests, BeginCancel(r) PROVE TypeInv'
  BY <1>10 DEF BeginCancel, Reply, Goto, Acquire, Request
<1>11. ASSUME NEW r \in Requests, CommitCancel(r) PROVE TypeInv'
  BY <1>11 DEF CommitCancel, Reply, Release
<1>12. ASSUME NEW r \in Requests, Abort(r) PROVE TypeInv'
  BY <1>12 DEF Abort, Reply, Release
<1>13. ASSUME NEW r \in Requests, RefuseOverride(r) PROVE TypeInv'
  BY <1>13 DEF RefuseOverride, Reply, Release
<1>14. ASSUME NEW C \in SUBSET Drafts, DeleteConversation(C) PROVE TypeInv'
  BY <1>14 DEF DeleteConversation
<1>15. CASE UNCHANGED vars
  BY <1>15 DEF vars
<1>16. QED
  BY <1>1, <1>2, <1>3, <1>4, <1>5, <1>6, <1>7, <1>8, <1>9, <1>10, <1>11, <1>12, <1>13,
     <1>14, <1>15
  DEF Next

(* The draft columns, locks and answers keep their types in every          *)
(* reachable state, whatever requests overlap.                             *)
THEOREM TypeCorrect == Spec => []TypeOK
<1>1. Spec => []TypeInv
  BY TypeInvInit, TypeInvNext, PTL DEF Spec
<1>2. TypeInv => TypeOK
  BY DEF TypeInv
<1>3. QED
  BY <1>1, <1>2, PTL

-----------------------------------------------------------------------------
(* The inductive invariant.  A draft that is neither committed nor         *)
(* overwritten as failed has no transaction; a created transaction belongs *)
(* to a finished request whose key stays bound to the draft as long as the *)
(* draft exists; an expiring or cancelling request holds the lock of a     *)
(* draft without a transaction, so no confirmation can slip in; and a      *)
(* draft whose cancellation or expiry was reported has left the pending    *)
(* state.                                                                  *)

OpenUnlinked ==
  \A d \in Drafts : status[d] \notin {"COMMITTED", "FAILED"} => link[d] = None

CreatedIsBound ==
  \A d \in Drafts : \A r \in created[d] :
    /\ pc[r] = "done" /\ req[r].draft = d
    /\ ~Gone(d) => keyDraft[req[r].key] = d

BoundIsLinked == \A k \in Keys : keyDraft[k] # None => link[keyDraft[k]] # None

ClosersHoldLock ==
  \A r \in Requests : pc[r] \in {"expire", "cancel"} =>
    lock[req[r].draft] = r /\ link[req[r].draft] = None

OnlyDoneAnswer ==
  \A r \in Requests : (pc[r] = "done") <=> (answer[r] # "NONE")

TruthToldOf(r) ==
  LET d == req[r].draft IN
  /\ answer[r] = "COMMITTED" => created[d] = {told[r]}
  /\ answer[r] \in {"CANCELLED", "EXPIRED"} =>
       created[d] = {} /\ status[d] \notin {"NONE", "PENDING_CONFIRMATION"}
  /\ answer[r] \in {"REJECTED", "KEY_CONFLICT", "NOT_FOUND", "ERROR"} =>
       r \notin created[d]

TruthTold == \A r \in Requests : TruthToldOf(r)

IInv == /\ TypeInv
        /\ OneTransactionPerDraft
        /\ OpenUnlinked
        /\ CreatedIsBound
        /\ BoundIsLinked
        /\ ClosersHoldLock
        /\ OnlyDoneAnswer
        /\ TruthTold

LEMMA IInvInit == Init => IInv
<1> SUFFICES ASSUME Init PROVE IInv
  OBVIOUS
<1>1. TypeInv
  BY TypeInvInit
<1>2. QED
  BY <1>1 DEF Init, IInv, OneTransactionPerDraft, OpenUnlinked, CreatedIsBound,
     BoundIsLinked, ClosersHoldLock, OnlyDoneAnswer, TruthTold, TruthToldOf, Gone

(* A step that creates no transaction, binds no key and deletes no draft   *)
(* keeps everything that depends on transactions and keys.                 *)
LEMMA MoneyUntouched ==
  ASSUME IInv, TypeInv', UNCHANGED <<link, created, keyDraft>>,
         \A d \in Drafts : Gone(d)' = Gone(d),
         \A r \in Requests : pc[r] = "done" => pc'[r] = "done" /\ req'[r] = req[r]
  PROVE  OneTransactionPerDraft' /\ CreatedIsBound' /\ BoundIsLinked'
<1> USE DEF IInv, TypeInv, TypeOK
<1>1. OneTransactionPerDraft'
  BY DEF OneTransactionPerDraft
<1>2. CreatedIsBound'
  BY DEF CreatedIsBound
<1>3. BoundIsLinked'
  BY DEF BoundIsLinked
<1>4. QED
  BY <1>1, <1>2, <1>3

(* One request answers truthfully and the draft's status only leaves the   *)
(* pending state: every earlier answer stays true.                         *)
LEMMA ReplyKeepsTruth ==
  ASSUME IInv, NEW r \in Requests, pc[r] \notin {"unsent", "done"},
         NEW result \in Answers \ {"NONE"}, NEW tx, Reply(r, result, tx),
         UNCHANGED <<req, link, created>>, TruthToldOf(r)',
         \A d \in Drafts : status'[d] = status[d]
                            \/ status'[d] \notin {"NONE", "PENDING_CONFIRMATION"}
  PROVE  TruthTold' /\ OnlyDoneAnswer'
<1> USE DEF IInv, TypeInv, TypeOK, SentHasContent
<1>1. OnlyDoneAnswer'
  BY DEF Reply, OnlyDoneAnswer
<1>2. ASSUME NEW x \in Requests, x # r PROVE TruthToldOf(x)'
  <2>1. answer'[x] = answer[x] /\ told'[x] = told[x] /\ pc'[x] = pc[x]
    BY <1>2 DEF Reply
  <2>2. CASE answer[x] = "NONE"
    BY <2>1, <2>2 DEF TruthToldOf
  <2>3. CASE answer[x] # "NONE"
    <3>1. req[x].draft \in Drafts
      BY <2>3 DEF OnlyDoneAnswer, Request
    <3>2. QED
      BY <2>1, <3>1 DEF TruthTold, TruthToldOf
  <2>4. QED
    BY <2>2, <2>3
<1>3. QED
  BY <1>1, <1>2 DEF TruthTold

(* A draft with an open cancellation or expiry has made no transaction. *)
LEMMA NoMoneyToLose ==
  ASSUME IInv, NEW r \in Requests, pc[r] \in {"expire", "cancel"}, ~Gone(req[r].draft)
  PROVE  created[req[r].draft] = {}
<1>1. req[r].draft \in Drafts
  BY DEF IInv, TypeInv, TypeOK, SentHasContent, Request
<1>2. link[req[r].draft] = None
  BY DEF IInv, ClosersHoldLock
<1>3. QED
  BY <1>1, <1>2 DEF IInv, OneTransactionPerDraft

LEMMA IInvNext == IInv /\ [Next]_vars => IInv'
<1> SUFFICES ASSUME IInv, [Next]_vars PROVE IInv'
  OBVIOUS
<1> DEFINE Rest == OpenUnlinked /\ ClosersHoldLock /\ OnlyDoneAnswer /\ TruthTold
<1>0. TypeInv'
  BY TypeInvNext DEF IInv
<1>m. ASSUME UNCHANGED <<link, created, keyDraft>>, Rest',
             \A d \in Drafts : Gone(d)' = Gone(d),
             \A r \in Requests : pc[r] = "done" => pc'[r] = "done" /\ req'[r] = req[r]
      PROVE  IInv'
  BY <1>0, <1>m, MoneyUntouched DEF IInv
<1> USE DEF IInv, TypeInv, TypeOK, SentHasContent, OpenUnlinked, ClosersHoldLock,
            OnlyDoneAnswer, TruthTold, TruthToldOf
<1>1. ASSUME NEW d \in Drafts, Prepare(d) PROVE IInv'
  <2>1. /\ status[d] = "NONE" /\ status' = [status EXCEPT ![d] = "PENDING_CONFIRMATION"]
        /\ UNCHANGED <<expired, link, created, keyDraft, lock, req, pc, answer, told>>
    BY <1>1 DEF Prepare
  <2>2. OpenUnlinked' /\ ClosersHoldLock' /\ OnlyDoneAnswer'
    BY <2>1
  <2>3. TruthTold'
    <3> SUFFICES ASSUME NEW r \in Requests, answer[r] # "NONE" PROVE TruthToldOf(r)'
      BY <2>1 DEF TruthTold
    <3>1. req[r].draft \in Drafts /\ TruthToldOf(r)
      BY DEF Request
    <3>2. CASE req[r].draft = d
      BY <2>1, <3>1, <3>2
    <3>3. CASE req[r].draft # d
      BY <2>1, <3>1, <3>3
    <3>4. QED
      BY <3>2, <3>3
  <2>4. \A x \in Drafts : Gone(x)' = Gone(x)
    BY <2>1 DEF Gone
  <2>5. QED
    BY <1>m, <2>1, <2>2, <2>3, <2>4
<1>2. ASSUME NEW d \in Drafts, TimePasses(d) PROVE IInv'
  BY <1>0, <1>m, <1>2, ConstantsAssumption DEF TimePasses, Gone
<1>3. ASSUME NEW r \in Requests, Send(r) PROVE IInv'
  BY <1>0, <1>m, <1>3, ConstantsAssumption DEF Send, Request, Gone
<1>4. ASSUME NEW r \in Requests, BeginConfirm(r) PROVE IInv'
  <2>1. OpenUnlinked'
    BY <1>0, <1>4 DEF BeginConfirm, Reply, Goto, Acquire, Request, Pending, CanReplay
  <2>2. ClosersHoldLock'
    BY <1>0, <1>4, ConstantsAssumption DEF BeginConfirm, Reply, Goto, Acquire, Request, Pending, CanReplay
  <2>3. OnlyDoneAnswer'
    BY <1>0, <1>4 DEF BeginConfirm, Reply, Goto, Acquire, Request, Pending, CanReplay
  <2>4. TruthTold'
    <3>1. pc[r] \notin {"unsent", "done"} /\ req[r] \in Request /\ req[r].draft \in Drafts
      BY <1>4 DEF BeginConfirm, Request
    <3>2. \A d \in Drafts : r \notin created[d]
      BY <3>1 DEF CreatedIsBound
    <3>3. UNCHANGED <<req, link, created, status>>
      BY <1>4 DEF BeginConfirm
    <3>4. CASE \E result \in {"KEY_CONFLICT", "CONFLICT", "NOT_FOUND"} : Reply(r, result, None)
      <4>1. PICK result \in {"KEY_CONFLICT", "CONFLICT", "NOT_FOUND"} : Reply(r, result, None)
        BY <3>4
      <4>2. TruthToldOf(r)'
        BY <3>1, <3>2, <3>3, <4>1 DEF Reply
      <4>3. QED
        BY <3>1, <3>3, <4>1, <4>2, ReplyKeepsTruth DEF Answers
    <3>5. CASE CanReplay(req[r].draft) /\ Reply(r, "COMMITTED", link[req[r].draft])
      <4>1. created[req[r].draft] = {link[req[r].draft]}
        BY <3>1, <3>5 DEF CanReplay, OneTransactionPerDraft, Gone
      <4>2. TruthToldOf(r)'
        BY <3>1, <3>3, <3>5, <4>1 DEF Reply
      <4>3. PICK tx : Reply(r, "COMMITTED", tx)
        BY <3>5
      <4>4. \A d \in Drafts : status'[d] = status[d]
        BY <3>3
      <4>5. "COMMITTED" \in Answers \ {"NONE"}
        BY DEF Answers
      <4>6. QED
        BY ONLY IInv, <3>1, <3>3, <4>2, <4>3, <4>4, <4>5, ReplyKeepsTruth
    <3>6. CASE \E step \in {"expire", "commit"} : Goto(r, step)
      BY <3>3, <3>6 DEF Goto
    <3>7. QED
      BY <1>4, <3>4, <3>5, <3>6 DEF BeginConfirm
  <2>5. UNCHANGED <<link, created, keyDraft>>
    BY <1>4 DEF BeginConfirm, Reply, Goto, Acquire, Request, Pending, CanReplay
  <2>6. \A x \in Requests : pc[x] = "done" => pc'[x] = "done" /\ req'[x] = req[x]
    BY <1>4 DEF BeginConfirm, Reply, Goto, Acquire, Request, Pending, CanReplay
  <2>7. \A d \in Drafts : Gone(d)' = Gone(d)
    BY <1>4 DEF BeginConfirm, Gone
  <2>8. QED
    BY <1>m, <2>1, <2>2, <2>3, <2>4, <2>5, <2>6, <2>7
<1>5. ASSUME NEW r \in Requests, CommitConfirm(r) PROVE IInv'
  <2> DEFINE d == req[r].draft
             k == req[r].key
             committed == KeyFree(k, d) /\ Pending(d) /\ link[d] = None
  <2>1. /\ pc[r] = "commit" /\ lock[d] = r /\ UNCHANGED <<expired, req>>
        /\ lock' = [lock EXCEPT ![d] = None]
        /\ d \in Drafts /\ k \in Keys /\ r # None
    BY <1>5, ConstantsAssumption DEF CommitConfirm, Locked, Release, Request
  <2>2. \A x \in Drafts : r \notin created[x]
    BY <2>1 DEF CreatedIsBound
  <2>3. CASE committed
    <3>1. /\ status'   = [status EXCEPT ![d] = "COMMITTED"]
          /\ link'     = [link EXCEPT ![d] = r]
          /\ created'  = [created EXCEPT ![d] = @ \cup {r}]
          /\ keyDraft' = [keyDraft EXCEPT ![k] = d]
          /\ Reply(r, "COMMITTED", r)
      BY <1>5, <2>3 DEF CommitConfirm, Made
    <3>2. created[d] = {} /\ keyDraft[k] = None
      BY <2>1, <2>3 DEF OneTransactionPerDraft, BoundIsLinked, KeyFree, Pending, Gone
    <3>3. OneTransactionPerDraft'
      <4> SUFFICES ASSUME NEW x \in Drafts
                   PROVE  /\ \A c, e \in created'[x] : c = e
                          /\ ~Gone(x)' => created'[x] = IF link'[x] = None THEN {}
                                                         ELSE {link'[x]}
        BY DEF OneTransactionPerDraft
      <4>1. CASE x = d
        <5>1. created'[x] = {r} /\ link'[x] = r
          BY <2>1, <3>1, <3>2, <4>1
        <5>2. QED
          BY <2>1, <5>1
      <4>2. CASE x # d
        <5>1. created'[x] = created[x] /\ link'[x] = link[x] /\ Gone(x)' = Gone(x)
          BY <2>1, <3>1, <4>2 DEF Gone
        <5>2. QED
          BY <5>1 DEF OneTransactionPerDraft
      <4>3. QED
        BY <4>1, <4>2
    <3>4. OpenUnlinked' /\ OnlyDoneAnswer'
      BY <2>1, <3>1 DEF Reply
    <3>5. CreatedIsBound'
      <4> SUFFICES ASSUME NEW x \in Drafts, NEW c \in created'[x]
                   PROVE  /\ pc'[c] = "done" /\ req[c].draft = x
                          /\ ~Gone(x)' => keyDraft'[req[c].key] = x
        BY <2>1 DEF CreatedIsBound
      <4>1. CASE x = d
        BY <2>1, <3>1, <3>2, <4>1 DEF Reply
      <4>2. CASE x # d
        <5>1. c \in created[x] /\ c # r
          BY <2>2, <3>1, <4>2
        <5>2. /\ pc[c] = "done" /\ req[c].draft = x /\ pc'[c] = "done"
              /\ ~Gone(x) => keyDraft[req[c].key] = x
              /\ Gone(x)' = Gone(x)
          BY <2>1, <3>1, <4>2, <5>1 DEF CreatedIsBound, Reply, Gone
        <5>3. CASE Gone(x)
          BY <5>2, <5>3
        <5>4. CASE ~Gone(x)
          <6>1. req[c].key # k /\ req[c].key \in Keys
            BY <3>2, <4>2, <5>1, <5>2, <5>4, ConstantsAssumption DEF Request
          <6>2. QED
            BY <3>1, <5>2, <5>4, <6>1
        <5>5. QED
          BY <5>3, <5>4
      <4>3. QED
        BY <4>1, <4>2
    <3>6. BoundIsLinked'
      BY <2>1, <3>1 DEF BoundIsLinked
    <3>7. ClosersHoldLock'
      <4> SUFFICES ASSUME NEW x \in Requests, pc'[x] \in {"expire", "cancel"}
                   PROVE  lock'[req[x].draft] = x /\ link'[req[x].draft] = None
        BY <2>1
      <4>1. x # r /\ pc[x] = pc'[x]
        BY <3>1 DEF Reply
      <4>2. lock[req[x].draft] = x /\ req[x].draft \in Drafts /\ link[req[x].draft] = None
        BY <4>1 DEF Request
      <4>3. QED
        BY <2>1, <3>1, <4>1, <4>2
    <3>8. TruthTold'
      <4> SUFFICES ASSUME NEW x \in Requests PROVE TruthToldOf(x)'
        BY DEF TruthTold
      <4>1. CASE x = r
        BY <2>1, <3>1, <3>2, <4>1 DEF Reply
      <4>2. CASE x # r
        <5>1. answer'[x] = answer[x] /\ told'[x] = told[x] /\ pc'[x] = pc[x]
          BY <3>1, <4>2 DEF Reply
        <5>2. CASE answer[x] = "NONE"
          BY <5>1, <5>2
        <5>3. CASE answer[x] # "NONE"
          <6>1. req[x].draft \in Drafts /\ TruthToldOf(x)
            BY <5>3 DEF Request
          <6>2. CASE req[x].draft = d
            <7>1. status[d] = "PENDING_CONFIRMATION" /\ status'[d] = "COMMITTED"
              BY <2>1, <2>3, <3>1 DEF Pending
            <7>2. answer[x] \notin {"COMMITTED", "CANCELLED", "EXPIRED"}
              BY <3>2, <6>1, <6>2, <7>1
            <7>3. x \notin created'[d]
              BY <2>1, <3>1, <3>2, <4>2
            <7>4. QED
              BY <2>1, <5>1, <6>2, <7>2, <7>3
          <6>3. CASE req[x].draft # d
            BY <2>1, <3>1, <5>1, <6>1, <6>3
          <6>4. QED
            BY <6>2, <6>3
        <5>4. QED
          BY <5>2, <5>3
      <4>3. QED
        BY <4>1, <4>2
    <3>9. QED
      BY <1>0, <3>3, <3>4, <3>5, <3>6, <3>7, <3>8
  <2>4. CASE ~committed
    <3>1. PICK result \in {"ERROR", "CONFLICT", "KEY_CONFLICT"} : Reply(r, result, None)
      BY <1>5, <2>4 DEF CommitConfirm, CommitRefusal
    <3>2. UNCHANGED <<status, link, created, keyDraft>>
      BY <1>5, <2>4 DEF CommitConfirm, Made
    <3>3. TruthToldOf(r)'
      BY <2>1, <2>2, <3>1, <3>2 DEF Reply
    <3>4. TruthTold' /\ OnlyDoneAnswer'
      BY <2>1, <3>1, <3>2, <3>3, ReplyKeepsTruth DEF Answers
    <3>5. OpenUnlinked'
      BY <3>2
    <3>6. ClosersHoldLock'
      BY <2>1, <3>1, <3>2 DEF Reply, Request
    <3>7. \A x \in Requests : pc[x] = "done" => pc'[x] = "done" /\ req'[x] = req[x]
      BY <2>1, <3>1 DEF Reply
    <3>8. \A x \in Drafts : Gone(x)' = Gone(x)
      BY <3>2 DEF Gone
    <3>9. QED
      BY <1>m, <3>2, <3>4, <3>5, <3>6, <3>7, <3>8
  <2>5. QED
    BY <2>3, <2>4
<1>6. ASSUME NEW r \in Requests, RejectConfirm(r) PROVE IInv'
  BY <1>0, <1>m, <1>6, ConstantsAssumption DEF RejectConfirm, Goto, Release, Locked, Request, Gone
<1>7. ASSUME NEW r \in Requests, ReadRejected(r) PROVE IInv'
  <2>1. OpenUnlinked'
    BY <1>0, <1>7 DEF ReadRejected, Reply, Goto
  <2>2. ClosersHoldLock'
    BY <1>0, <1>7, ConstantsAssumption DEF ReadRejected, Reply, Goto
  <2>3. OnlyDoneAnswer'
    BY <1>0, <1>7 DEF ReadRejected, Reply, Goto
  <2>4. TruthTold'
    <3>1. pc[r] \notin {"unsent", "done"} /\ req[r] \in Request /\ req[r].draft \in Drafts
      BY <1>7 DEF ReadRejected, Request
    <3>2. \A d \in Drafts : r \notin created[d]
      BY <3>1 DEF CreatedIsBound
    <3>3. UNCHANGED <<req, link, created, status>>
      BY <1>7 DEF ReadRejected
    <3>4. CASE Reply(r, "REJECTED", None)
      <4>1. TruthToldOf(r)'
        BY <3>1, <3>2, <3>3, <3>4 DEF Reply
      <4>2. QED
        BY <3>1, <3>3, <3>4, <4>1, ReplyKeepsTruth DEF Answers
    <3>5. CASE Goto(r, "fail")
      BY <3>3, <3>5 DEF Goto
    <3>6. QED
      BY <1>7, <3>4, <3>5 DEF ReadRejected
  <2>5. UNCHANGED <<link, created, keyDraft>>
    BY <1>7 DEF ReadRejected, Reply, Goto
  <2>6. \A x \in Requests : pc[x] = "done" => pc'[x] = "done" /\ req'[x] = req[x]
    BY <1>7 DEF ReadRejected, Reply, Goto
  <2>7. \A d \in Drafts : Gone(d)' = Gone(d)
    BY <1>7 DEF ReadRejected, Gone
  <2>8. QED
    BY <1>m, <2>1, <2>2, <2>3, <2>4, <2>5, <2>6, <2>7
<1>8. ASSUME NEW r \in Requests, RecordRejection(r) PROVE IInv'
  <2>1. /\ pc[r] = "fail" /\ ~Gone(req[r].draft) /\ req[r].draft \in Drafts
        /\ status' = [status EXCEPT ![req[r].draft] = "FAILED"]
        /\ Reply(r, "REJECTED", None)
        /\ UNCHANGED <<expired, link, created, keyDraft, lock, req>>
    BY <1>8 DEF RecordRejection, Request
  <2>2. \A x \in Drafts : r \notin created[x]
    BY <2>1 DEF CreatedIsBound
  <2>3. TruthToldOf(r)'
    BY <2>1, <2>2 DEF Reply
  <2>4. TruthTold' /\ OnlyDoneAnswer'
    BY <2>1, <2>3, ReplyKeepsTruth DEF Answers
  <2>5. OpenUnlinked' /\ ClosersHoldLock'
    BY <2>1 DEF Reply
  <2>6. /\ \A x \in Requests : pc[x] = "done" => pc'[x] = "done" /\ req'[x] = req[x]
        /\ \A x \in Drafts : Gone(x)' = Gone(x)
    BY <2>1 DEF Reply, Gone
  <2>7. QED
    BY <1>m, <2>1, <2>4, <2>5, <2>6
<1>9. ASSUME NEW r \in Requests, ExpireDraft(r) PROVE IInv'
  <2>1. /\ pc[r] = "expire" /\ lock[req[r].draft] = r /\ ~Gone(req[r].draft)
        /\ req[r].draft \in Drafts
        /\ status' = [status EXCEPT ![req[r].draft] = "EXPIRED"]
        /\ lock' = [lock EXCEPT ![req[r].draft] = None]
        /\ UNCHANGED <<expired, link, created, keyDraft, req>>
    BY <1>9 DEF ExpireDraft, Locked, Release, Request
  <2>2. PICK result \in {"CONFLICT", "EXPIRED"} : Reply(r, result, None)
    BY <1>9 DEF ExpireDraft
  <2>3. created[req[r].draft] = {}
    BY <2>1, NoMoneyToLose
  <2>4. TruthToldOf(r)'
    BY <2>1, <2>2, <2>3 DEF Reply
  <2>5. TruthTold' /\ OnlyDoneAnswer'
    BY <2>1, <2>2, <2>4, ReplyKeepsTruth DEF Answers
  <2>6. OpenUnlinked'
    BY <2>1
  <2>7. ClosersHoldLock'
    <3> SUFFICES ASSUME NEW x \in Requests, pc'[x] \in {"expire", "cancel"}
                 PROVE  lock'[req[x].draft] = x /\ link[req[x].draft] = None
      BY <2>1
    <3>1. x # r /\ pc[x] = pc'[x]
      BY <2>2 DEF Reply
    <3>2. lock[req[x].draft] = x /\ req[x].draft \in Drafts /\ link[req[x].draft] = None
      BY <3>1 DEF Request
    <3>3. QED
      BY <2>1, <3>1, <3>2
  <2>8. /\ \A x \in Requests : pc[x] = "done" => pc'[x] = "done" /\ req'[x] = req[x]
        /\ \A x \in Drafts : Gone(x)' = Gone(x)
    BY <2>1, <2>2 DEF Reply, Gone
  <2>9. QED
    BY <1>m, <2>1, <2>5, <2>6, <2>7, <2>8
<1>10. ASSUME NEW r \in Requests, BeginCancel(r) PROVE IInv'
  <2>1. OpenUnlinked'
    BY <1>0, <1>10 DEF BeginCancel, Reply, Goto, Acquire, Request, Pending, Cancellable
  <2>2. ClosersHoldLock'
    BY <1>0, <1>10, ConstantsAssumption DEF BeginCancel, Reply, Goto, Acquire, Request, Pending, Cancellable
  <2>3. OnlyDoneAnswer'
    BY <1>0, <1>10 DEF BeginCancel, Reply, Goto, Acquire, Request, Pending, Cancellable
  <2>4. TruthTold'
    <3>1. pc[r] \notin {"unsent", "done"} /\ req[r] \in Request /\ req[r].draft \in Drafts
      BY <1>10 DEF BeginCancel, Request
    <3>2. \A d \in Drafts : r \notin created[d]
      BY <3>1 DEF CreatedIsBound
    <3>3. UNCHANGED <<req, link, created, status>>
      BY <1>10 DEF BeginCancel
    <3>4. CASE Reply(r, "CANCELLED", None) /\ status[req[r].draft] = "CANCELLED"
      <4>1. created[req[r].draft] = {}
        BY <3>1, <3>4 DEF OneTransactionPerDraft, Gone
      <4>2. TruthToldOf(r)'
        BY <3>1, <3>3, <3>4, <4>1 DEF Reply
      <4>3. QED
        BY <3>1, <3>3, <3>4, <4>2, ReplyKeepsTruth DEF Answers
    <3>5. CASE \E result \in {"CONFLICT", "NOT_FOUND"} : Reply(r, result, None)
      <4>1. PICK result \in {"CONFLICT", "NOT_FOUND"} : Reply(r, result, None)
        BY <3>5
      <4>2. TruthToldOf(r)'
        BY <3>1, <3>2, <3>3, <4>1 DEF Reply
      <4>3. QED
        BY <3>1, <3>3, <4>1, <4>2, ReplyKeepsTruth DEF Answers
    <3>6. CASE \E step \in {"expire", "cancel"} : Goto(r, step)
      BY <3>3, <3>6 DEF Goto
    <3>7. QED
      BY <1>10, <3>4, <3>5, <3>6 DEF BeginCancel
  <2>5. UNCHANGED <<link, created, keyDraft>>
    BY <1>10 DEF BeginCancel, Reply, Goto, Acquire, Request, Pending, Cancellable
  <2>6. \A x \in Requests : pc[x] = "done" => pc'[x] = "done" /\ req'[x] = req[x]
    BY <1>10 DEF BeginCancel, Reply, Goto, Acquire, Request, Pending, Cancellable
  <2>7. \A d \in Drafts : Gone(d)' = Gone(d)
    BY <1>10 DEF BeginCancel, Gone
  <2>8. QED
    BY <1>m, <2>1, <2>2, <2>3, <2>4, <2>5, <2>6, <2>7
<1>11. ASSUME NEW r \in Requests, CommitCancel(r) PROVE IInv'
  <2>1. /\ pc[r] = "cancel" /\ lock[req[r].draft] = r /\ ~Gone(req[r].draft)
        /\ req[r].draft \in Drafts
        /\ status' = [status EXCEPT ![req[r].draft] = "CANCELLED"]
        /\ lock' = [lock EXCEPT ![req[r].draft] = None]
        /\ UNCHANGED <<expired, link, created, keyDraft, req>>
    BY <1>11 DEF CommitCancel, Locked, Release, Request
  <2>2. PICK result \in {"CANCELLED"} : Reply(r, result, None)
    BY <1>11 DEF CommitCancel
  <2>3. created[req[r].draft] = {}
    BY <2>1, NoMoneyToLose
  <2>4. TruthToldOf(r)'
    BY <2>1, <2>2, <2>3 DEF Reply
  <2>5. TruthTold' /\ OnlyDoneAnswer'
    BY <2>1, <2>2, <2>4, ReplyKeepsTruth DEF Answers
  <2>6. OpenUnlinked'
    BY <2>1
  <2>7. ClosersHoldLock'
    <3> SUFFICES ASSUME NEW x \in Requests, pc'[x] \in {"expire", "cancel"}
                 PROVE  lock'[req[x].draft] = x /\ link[req[x].draft] = None
      BY <2>1
    <3>1. x # r /\ pc[x] = pc'[x]
      BY <2>2 DEF Reply
    <3>2. lock[req[x].draft] = x /\ req[x].draft \in Drafts /\ link[req[x].draft] = None
      BY <3>1 DEF Request
    <3>3. QED
      BY <2>1, <3>1, <3>2
  <2>8. /\ \A x \in Requests : pc[x] = "done" => pc'[x] = "done" /\ req'[x] = req[x]
        /\ \A x \in Drafts : Gone(x)' = Gone(x)
    BY <2>1, <2>2 DEF Reply, Gone
  <2>9. QED
    BY <1>m, <2>1, <2>5, <2>6, <2>7, <2>8
<1>12. ASSUME NEW r \in Requests, Abort(r) PROVE IInv'
  <2>1. OpenUnlinked'
    BY <1>0, <1>12 DEF Abort, Reply, Release, Locked
  <2>2. ClosersHoldLock'
    <3> SUFFICES ASSUME NEW x \in Requests, pc'[x] \in {"expire", "cancel"}
                 PROVE  lock'[req[x].draft] = x /\ link[req[x].draft] = None
      BY <1>12 DEF Abort
    <3>1. x # r /\ pc[x] = pc'[x]
      BY <1>12 DEF Abort, Reply
    <3>2. lock[req[x].draft] = x /\ req[x].draft \in Drafts
      BY <3>1 DEF Request
    <3>3. QED
      BY <1>12, <3>1, <3>2 DEF Abort, Release, Locked
  <2>3. OnlyDoneAnswer'
    BY <1>0, <1>12 DEF Abort, Reply, Release, Locked
  <2>4. TruthTold'
    <3>1. pc[r] \notin {"unsent", "done"} /\ req[r] \in Request /\ req[r].draft \in Drafts
      BY <1>12 DEF Abort, Request
    <3>2. \A d \in Drafts : r \notin created[d]
      BY <3>1 DEF CreatedIsBound
    <3>3. UNCHANGED <<req, link, created, status>> /\ Reply(r, "ERROR", None)
      BY <1>12 DEF Abort
    <3>4. TruthToldOf(r)'
      BY <3>1, <3>2, <3>3 DEF Reply
    <3>5. QED
      BY <3>1, <3>3, <3>4, ReplyKeepsTruth DEF Answers
  <2>5. UNCHANGED <<link, created, keyDraft>>
    BY <1>12 DEF Abort, Reply, Release, Locked
  <2>6. \A x \in Requests : pc[x] = "done" => pc'[x] = "done" /\ req'[x] = req[x]
    BY <1>12 DEF Abort, Reply, Release, Locked
  <2>7. \A d \in Drafts : Gone(d)' = Gone(d)
    BY <1>12 DEF Abort, Gone
  <2>8. QED
    BY <1>m, <2>1, <2>2, <2>3, <2>4, <2>5, <2>6, <2>7
<1>13. ASSUME NEW r \in Requests, RefuseOverride(r) PROVE IInv'
  <2>1. /\ pc[r] = "commit" /\ lock[req[r].draft] = r /\ req[r].draft \in Drafts
        /\ Release(r) /\ Reply(r, "NOT_FOUND", None)
        /\ UNCHANGED <<req, status, link, created, keyDraft>>
    BY <1>13 DEF RefuseOverride, Locked, Request
  <2>2. \A x \in Drafts : r \notin created[x]
    BY <2>1 DEF CreatedIsBound
  <2>3. TruthToldOf(r)'
    BY <2>1, <2>2 DEF Reply
  <2>4. TruthTold' /\ OnlyDoneAnswer'
    BY <2>1, <2>3, ReplyKeepsTruth DEF Answers
  <2>5. OpenUnlinked'
    BY <2>1
  <2>6. ClosersHoldLock'
    BY <2>1 DEF Reply, Release, Request
  <2>7. /\ \A x \in Requests : pc[x] = "done" => pc'[x] = "done" /\ req'[x] = req[x]
        /\ \A d \in Drafts : Gone(d)' = Gone(d)
    BY <2>1 DEF Reply, Gone
  <2>8. QED
    BY <1>m, <2>1, <2>4, <2>5, <2>6, <2>7
<1>14. ASSUME NEW C \in SUBSET Drafts, DeleteConversation(C) PROVE IInv'
  <2>1. /\ UNCHANGED <<expired, created, lock, req, pc, answer, told>>
        /\ \A d \in C : status'[d] = "GONE" /\ link'[d] = None
        /\ \A d \in Drafts \ C : status'[d] = status[d] /\ link'[d] = link[d]
        /\ \A k \in Keys : keyDraft'[k] = IF keyDraft[k] \in C THEN None ELSE keyDraft[k]
    BY <1>14 DEF DeleteConversation
  <2>2. OneTransactionPerDraft'
    BY <2>1 DEF OneTransactionPerDraft, Gone
  <2>3. CreatedIsBound'
    <3> SUFFICES ASSUME NEW d \in Drafts, NEW r \in created[d]
                 PROVE  /\ pc[r] = "done" /\ req[r].draft = d
                        /\ ~Gone(d)' => keyDraft'[req[r].key] = d
      BY <2>1 DEF CreatedIsBound
    <3>1. /\ pc[r] = "done" /\ req[r].draft = d /\ req[r].key \in Keys
          /\ ~Gone(d) => keyDraft[req[r].key] = d
      BY DEF CreatedIsBound, Request
    <3>2. ~Gone(d)' => ~Gone(d) /\ d \notin C
      BY <2>1 DEF Gone
    <3>3. QED
      BY <2>1, <3>1, <3>2
  <2>4. BoundIsLinked'
    <3> SUFFICES ASSUME NEW k \in Keys, keyDraft'[k] # None PROVE link'[keyDraft'[k]] # None
      BY DEF BoundIsLinked
    <3>1. keyDraft[k] \notin C /\ keyDraft'[k] = keyDraft[k]
      BY <2>1
    <3>2. keyDraft[k] \in Drafts \ C /\ link[keyDraft[k]] # None
      BY <3>1 DEF BoundIsLinked
    <3>3. QED
      BY <2>1, <3>1, <3>2
  <2>5. OpenUnlinked'
    BY <2>1
  <2>6. ClosersHoldLock'
    <3> SUFFICES ASSUME NEW r \in Requests, pc[r] \in {"expire", "cancel"}
                 PROVE  lock[req[r].draft] = r /\ link'[req[r].draft] = None
      BY <2>1
    <3>1. lock[req[r].draft] = r /\ req[r].draft \in Drafts /\ link[req[r].draft] = None
      BY DEF Request
    <3>2. QED
      BY <2>1, <3>1
  <2>7. OnlyDoneAnswer'
    BY <2>1
  <2>8. TruthTold'
    <3> SUFFICES ASSUME NEW r \in Requests PROVE TruthToldOf(r)'
      BY DEF TruthTold
    <3>1. CASE answer[r] = "NONE"
      BY <2>1, <3>1
    <3>2. CASE answer[r] # "NONE"
      <4>1. req[r].draft \in Drafts /\ TruthToldOf(r)
        BY <3>2 DEF Request
      <4>2. status'[req[r].draft] = status[req[r].draft] \/ status'[req[r].draft] = "GONE"
        BY <2>1, <4>1
      <4>3. QED
        BY <2>1, <4>1, <4>2
    <3>3. QED
      BY <3>1, <3>2
  <2>9. QED
    BY <1>0, <2>2, <2>3, <2>4, <2>5, <2>6, <2>7, <2>8
<1>15. CASE UNCHANGED vars
  BY <1>0, <1>m, <1>15 DEF vars, Gone
<1>16. QED
  BY <1>1, <1>2, <1>3, <1>4, <1>5, <1>6, <1>7, <1>8, <1>9, <1>10, <1>11, <1>12, <1>13,
     <1>14, <1>15
  DEF Next

LEMMA Inductive == Spec => []IInv
  BY IInvInit, IInvNext, PTL DEF Spec

(* A draft becomes at most one transaction, the one it links, whatever     *)
(* confirmations, retries, cancellations and rejections overlap.           *)
THEOREM AtMostOneTransaction == Spec => []OneTransactionPerDraft
<1>1. IInv => OneTransactionPerDraft
  BY DEF IInv
<1>2. QED
  BY <1>1, Inductive, PTL

(* Over the drafts that exist one key makes at most one transaction: only  *)
(* the deletion of the first one's conversation makes room for a second.   *)
(* And no key is spent on a draft without a transaction.                   *)
THEOREM KeyMakesOneTransaction == Spec => []OneTransactionPerKey
<1>1. ASSUME IInv PROVE OneTransactionPerKey
  <2>1. ASSUME NEW d \in Drafts, NEW e \in Drafts, NEW r \in created[d], NEW s \in created[e],
               req[r].key = req[s].key, ~Gone(d), ~Gone(e)
        PROVE  r = s
    <3>1. keyDraft[req[r].key] = d /\ keyDraft[req[s].key] = e
      BY <1>1, <2>1 DEF IInv, CreatedIsBound
    <3>2. d = e
      BY <2>1, <3>1
    <3>3. QED
      BY <1>1, <2>1, <3>2 DEF IInv, OneTransactionPerDraft
  <2>2. QED
    BY <1>1, <2>1 DEF IInv, BoundIsLinked, OneTransactionPerKey
<1>2. QED
  BY <1>1, Inductive, PTL

(* What a client was told about a draft stays true for ever, also after    *)
(* the draft is deleted.                                                   *)
THEOREM AnswersStayTrue == Spec => []AnswersAreTrue
<1>1. ASSUME IInv PROVE AnswersAreTrue
  <2> SUFFICES ASSUME NEW r \in Requests, answer[r] # "NONE"
               PROVE  /\ answer[r] = "COMMITTED" => created[req[r].draft] = {told[r]}
                      /\ answer[r] \in {"CANCELLED", "EXPIRED"} => created[req[r].draft] = {}
                      /\ answer[r] \in {"REJECTED", "KEY_CONFLICT", "NOT_FOUND", "ERROR"} =>
                           r \notin created[req[r].draft]
    BY DEF AnswersAreTrue
  <2>1. req[r] \in Request
    BY <1>1 DEF IInv, TypeInv, SentHasContent, OnlyDoneAnswer
  <2>2. req[r].draft \in Drafts
    BY <2>1 DEF Request
  <2>3. TruthToldOf(r)
    BY <1>1 DEF IInv, TruthTold
  <2>4. QED
    BY <1>1, <2>2, <2>3 DEF IInv, TruthToldOf, OneTransactionPerDraft
<1>2. QED
  BY <1>1, Inductive, PTL

(* Only the commit of a live pending draft moves money, and no draft       *)
(* becomes pending again.                                                  *)
THEOREM TerminalIsTerminal == Spec => TerminalDraftsMoveNoMoney
<1> DEFINE Still(d) == status[d] \notin {"NONE", "PENDING_CONFIRMATION"} =>
                         created'[d] = created[d] /\ status'[d] # "PENDING_CONFIRMATION"
<1>1. ASSUME TypeInv, [Next]_vars, NEW d \in Drafts PROVE Still(d)
  <2> USE <1>1 DEF TypeInv, TypeOK
  <2>1. ASSUME NEW e \in Drafts, Prepare(e) PROVE Still(d)
    BY <2>1 DEF Prepare
  <2>2. ASSUME NEW r \in Requests, CommitConfirm(r) PROVE Still(d)
    <3>1. created' = [created EXCEPT ![req[r].draft] =
             Made(r, KeyFree(req[r].key, req[r].draft) /\ Pending(req[r].draft)
                     /\ link[req[r].draft] = None)]
      BY <2>2 DEF CommitConfirm
    <3>2. CASE Pending(req[r].draft)
      <4>1. req[r].draft = d \/ created'[d] = created[d]
        BY <3>1
      <4>2. status'[d] = "COMMITTED" \/ status'[d] = status[d]
        BY <2>2 DEF CommitConfirm
      <4>3. QED
        BY <3>2, <4>1, <4>2 DEF Pending
    <3>3. CASE ~Pending(req[r].draft)
      <4>1. created' = created
        BY <3>1, <3>3 DEF Made
      <4>2. status' = status
        BY <2>2, <3>3 DEF CommitConfirm
      <4>3. QED
        BY <4>1, <4>2
    <3>4. QED
      BY <3>2, <3>3
  <2>3. ASSUME NEW r \in Requests, RecordRejection(r) PROVE Still(d)
    BY <2>3 DEF RecordRejection
  <2>4. ASSUME NEW r \in Requests, ExpireDraft(r) PROVE Still(d)
    BY <2>4 DEF ExpireDraft
  <2>5. ASSUME NEW r \in Requests, CommitCancel(r) PROVE Still(d)
    BY <2>5 DEF CommitCancel
  <2>6. ASSUME NEW C \in SUBSET Drafts, DeleteConversation(C) PROVE Still(d)
    BY <2>6 DEF DeleteConversation
  <2>7. CASE UNCHANGED <<status, created>>
    BY <2>7
  <2>8. QED
    BY <2>1, <2>2, <2>3, <2>4, <2>5, <2>6, <2>7
    DEF Next, TimePasses, Send, BeginConfirm, RefuseOverride, RejectConfirm, ReadRejected,
        BeginCancel, Abort, vars
<1>2. TypeInv /\ [Next]_vars => [\A d \in Drafts : Still(d)]_vars
  BY <1>1
<1>3. Spec => []TypeInv
  BY TypeInvInit, TypeInvNext, PTL DEF Spec
<1>4. QED
  BY <1>2, <1>3, PTL DEF Spec, TerminalDraftsMoveNoMoney

=============================================================================
