--------------------------- MODULE FinancialDraft ---------------------------
(***************************************************************************)
(* Financial drafts of the Assistant: a prepared transaction waits for an  *)
(* explicit confirmation, and confirmations, retries and cancellations of  *)
(* one draft may arrive at the same time, over the web and over buttons.   *)
(*                                                                         *)
(* Confirm and cancel run in a database transaction under an advisory lock *)
(* on the draft; what they write is invisible until it commits and is gone *)
(* when it aborts, so each is a locked read followed by one atomic commit  *)
(* (or by nothing).  A confirmation that the finance domain rejects is     *)
(* recorded afterwards in a second transaction that takes no lock.         *)
(*                                                                         *)
(* The conversation a draft belongs to may be deleted at any time.  The    *)
(* cascade takes its drafts and the key records bound to them, and leaves  *)
(* the transactions: a key whose record is gone is a fresh key.            *)
(*                                                                         *)
(* A transaction is named by the request that created it.                  *)
(***************************************************************************)
EXTENDS Naturals, FiniteSets

CONSTANTS
  Drafts,     \* assistant_financial_drafts rows of one user
  Keys,       \* idempotency keys the user's clients choose
  Requests,   \* confirm and cancel requests
  None        \* no draft, no transaction, no request, no lock holder

ASSUME ConstantsAssumption == None \notin Drafts \cup Requests

VARIABLES
  status,    \* status of each draft; "NONE" before it is prepared, "GONE" once deleted
  expired,   \* has expires_at passed?
  link,      \* transactionId of the draft
  created,   \* history: the transactions made from the draft, by creating request
  keyDraft,  \* assistant_idempotency_records: the draft a key is bound to
  lock,      \* holder of the draft's advisory lock
  req,       \* what each request asks for
  pc,        \* where a request is
  answer,    \* what the request was told
  told       \* the transaction id in the answer

vars == <<status, expired, link, created, keyDraft, lock, req, pc, answer, told>>

DraftStatus == {"NONE", "PENDING_CONFIRMATION", "COMMITTED", "CANCELLED",
                "EXPIRED", "FAILED", "GONE"}
Request == [kind : {"confirm", "cancel"}, draft : Drafts, key : Keys]
NoRequest == [kind |-> "none"]
Step == {"unsent", "start", "expire", "commit", "cancel", "rejected", "fail", "done"}
Answers == {"NONE", "COMMITTED", "CANCELLED", "EXPIRED", "CONFLICT",
            "KEY_CONFLICT", "NOT_FOUND", "REJECTED", "ERROR"}

Init ==
  /\ status   = [d \in Drafts |-> "NONE"]
  /\ expired  = [d \in Drafts |-> FALSE]
  /\ link     = [d \in Drafts |-> None]
  /\ created  = [d \in Drafts |-> {}]
  /\ keyDraft = [k \in Keys |-> None]
  /\ lock     = [d \in Drafts |-> None]
  /\ req      = [r \in Requests |-> NoRequest]
  /\ pc       = [r \in Requests |-> "unsent"]
  /\ answer   = [r \in Requests |-> "NONE"]
  /\ told     = [r \in Requests |-> None]

-----------------------------------------------------------------------------
(* The draft and its clients *)

Prepare(d) ==
  /\ status[d] = "NONE"
  /\ status' = [status EXCEPT ![d] = "PENDING_CONFIRMATION"]
  /\ UNCHANGED <<expired, link, created, keyDraft, lock, req, pc, answer, told>>

TimePasses(d) ==
  /\ status[d] \notin {"NONE", "GONE"}
  /\ ~expired[d]
  /\ expired' = [expired EXCEPT ![d] = TRUE]
  /\ UNCHANGED <<status, link, created, keyDraft, lock, req, pc, answer, told>>

Gone(d) == status[d] = "GONE"

(* deleteOwnedConversation: one statement and its cascades.  C is the set  *)
(* of the conversation's drafts; which drafts share a conversation is left *)
(* open.  The delete waits for a transaction that has written to the       *)
(* conversation, and a transaction that writes after it fails on a foreign *)
(* key or a missing row.                                                   *)
DeleteConversation(C) ==
  /\ \A d \in C : status[d] \notin {"NONE", "GONE"}
  /\ status'   = [d \in Drafts |-> IF d \in C THEN "GONE" ELSE status[d]]
  /\ link'     = [d \in Drafts |-> IF d \in C THEN None ELSE link[d]]
  /\ keyDraft' = [k \in Keys |-> IF keyDraft[k] \in C THEN None ELSE keyDraft[k]]
  /\ UNCHANGED <<expired, created, lock, req, pc, answer, told>>

Send(r) ==
  /\ pc[r] = "unsent"
  /\ \E q \in Request :
       /\ status[q.draft] # "NONE"
       /\ req' = [req EXCEPT ![r] = q]
  /\ pc' = [pc EXCEPT ![r] = "start"]
  /\ UNCHANGED <<status, expired, link, created, keyDraft, lock, answer, told>>

Goto(r, step) ==
  /\ pc' = [pc EXCEPT ![r] = step]
  /\ UNCHANGED <<answer, told>>

ReplyWithDraft(r, result, tx) ==   \* mutant: names the draft, not the transaction
  /\ pc'     = [pc EXCEPT ![r] = "done"]
  /\ answer' = [answer EXCEPT ![r] = result]
  /\ told'   = [told EXCEPT ![r] = req[r].draft]

Reply(r, result, tx) ==
  /\ pc'     = [pc EXCEPT ![r] = "done"]
  /\ answer' = [answer EXCEPT ![r] = result]
  /\ told'   = [told EXCEPT ![r] = tx]

(* The advisory lock is held from the first statement to the commit or     *)
(* abort; a request that is decided at once never shows as its holder.     *)
Acquire(r) == lock' = [lock EXCEPT ![req[r].draft] = r]
Release(r) == lock' = [lock EXCEPT ![req[r].draft] = None]

Locked(r) == lock[req[r].draft] = r

PendingOrFailed(d) == status[d] \in {"PENDING_CONFIRMATION", "FAILED"}   \* mutant

Pending(d) == status[d] = "PENDING_CONFIRMATION"

-----------------------------------------------------------------------------
(* confirm *)

KeyFreeAlways(k, d) == TRUE   \* mutant: no unique (userId, key)

(* Unbound, or bound to this very draft. *)
KeyFree(k, d) == keyDraft[k] \in {None, d}

CanReplay(d) == status[d] = "COMMITTED" /\ link[d] # None

(* Under the lock: the key, then the draft, then its expiry decide. *)
BeginConfirm(r) ==
  LET d == req[r].draft
      free == KeyFree(req[r].key, d)
  IN
  /\ pc[r] = "start" /\ req[r].kind = "confirm"
  /\ lock[d] = None
  /\ \/ /\ ~free
        /\ Reply(r, "KEY_CONFLICT", None) /\ UNCHANGED lock
     \/ /\ free /\ CanReplay(d)
        /\ Reply(r, "COMMITTED", link[d]) /\ UNCHANGED lock
     \/ /\ free /\ Pending(d)
        /\ Goto(r, IF expired[d] THEN "expire" ELSE "commit") /\ Acquire(r)
     \/ /\ free /\ Gone(d)
        /\ Reply(r, "NOT_FOUND", None) /\ UNCHANGED lock
     \/ /\ free /\ ~Gone(d) /\ ~Pending(d) /\ ~CanReplay(d)
        /\ Reply(r, "CONFLICT", None) /\ UNCHANGED lock
  /\ UNCHANGED <<status, expired, link, created, keyDraft, req>>

(* An overridden wallet or category is not the user's. *)
RefuseOverride(r) ==
  /\ pc[r] = "commit" /\ Locked(r)
  /\ Release(r)
  /\ Reply(r, "NOT_FOUND", None)
  /\ UNCHANGED <<status, expired, link, created, keyDraft, req>>

(* The draft's transactions once the commit of r is over. *)
MadeOutside(r, committed) == created[req[r].draft] \cup {r}   \* mutant: not in the transaction

Made(r, committed) ==
  IF committed THEN created[req[r].draft] \cup {r} ELSE created[req[r].draft]

CommitRefusal(k, d) ==
  IF Gone(d) THEN "ERROR" ELSE IF KeyFree(k, d) THEN "CONFLICT" ELSE "KEY_CONFLICT"

(* The transaction service accepts: key, transaction, draft and audit      *)
(* commit together, unless the conversation is gone or the key or the      *)
(* draft has been taken meanwhile, which aborts everything.  The turn is   *)
(* written first, so a deleted conversation is noticed before the key.     *)
CommitConfirm(r) ==
  LET d == req[r].draft
      k == req[r].key
      committed == KeyFree(k, d) /\ Pending(d) /\ link[d] = None
  IN
  /\ pc[r] = "commit" /\ Locked(r)
  /\ Release(r)
  /\ created' = [created EXCEPT ![d] = Made(r, committed)]
  /\ \/ /\ committed
        /\ status'   = [status EXCEPT ![d] = "COMMITTED"]
        /\ link'     = [link EXCEPT ![d] = r]
        /\ keyDraft' = [keyDraft EXCEPT ![k] = d]
        /\ Reply(r, "COMMITTED", r)
     \/ /\ ~committed
        /\ Reply(r, CommitRefusal(k, d), None)
        /\ UNCHANGED <<status, link, keyDraft>>
  /\ UNCHANGED <<expired, req>>

(* The transaction service rejects (insufficient funds, a deleted          *)
(* category): the transaction rolls back and the lock is gone.  The        *)
(* service runs only once the turn and the key have been inserted.         *)
RejectConfirm(r) ==
  /\ pc[r] = "commit" /\ Locked(r)
  /\ ~Gone(req[r].draft)
  /\ KeyFree(req[r].key, req[r].draft)
  /\ Release(r)
  /\ Goto(r, "rejected")
  /\ UNCHANGED <<status, expired, link, created, keyDraft, req>>

(* The second transaction: is the draft still pending? *)
ReadRejected(r) ==
  /\ pc[r] = "rejected"
  /\ IF Pending(req[r].draft)
     THEN Goto(r, "fail")
     ELSE Reply(r, "REJECTED", None)
  /\ UNCHANGED <<status, expired, link, created, keyDraft, lock, req>>

(* It writes by id, without the lock and without asking again; a draft     *)
(* deleted meanwhile is missed and fails the request.                      *)
RecordRejection(r) ==
  /\ pc[r] = "fail"
  /\ ~Gone(req[r].draft)
  /\ status' = [status EXCEPT ![req[r].draft] = "FAILED"]
  /\ Reply(r, "REJECTED", None)
  /\ UNCHANGED <<expired, link, created, keyDraft, lock, req>>

(* confirm and cancel of a draft past its window *)
ExpireDraft(r) ==
  /\ pc[r] = "expire" /\ Locked(r)
  /\ ~Gone(req[r].draft)
  /\ status' = [status EXCEPT ![req[r].draft] = "EXPIRED"]
  /\ Release(r)
  /\ Reply(r, IF req[r].kind = "confirm" THEN "CONFLICT" ELSE "EXPIRED", None)
  /\ UNCHANGED <<expired, link, created, keyDraft, req>>

-----------------------------------------------------------------------------
(* cancel *)

CancellableAny(d) == status[d] # "CANCELLED"   \* mutant: terminal drafts too

Cancellable(d) == Pending(d)

BeginCancel(r) ==
  LET d == req[r].draft IN
  /\ pc[r] = "start" /\ req[r].kind = "cancel"
  /\ lock[d] = None
  /\ \/ /\ status[d] = "CANCELLED"
        /\ Reply(r, "CANCELLED", None) /\ UNCHANGED lock
     \/ /\ Cancellable(d)
        /\ Goto(r, IF expired[d] THEN "expire" ELSE "cancel") /\ Acquire(r)
     \/ /\ Gone(d)
        /\ Reply(r, "NOT_FOUND", None) /\ UNCHANGED lock
     \/ /\ status[d] # "CANCELLED" /\ ~Gone(d) /\ ~Cancellable(d)
        /\ Reply(r, "CONFLICT", None) /\ UNCHANGED lock
  /\ UNCHANGED <<status, expired, link, created, keyDraft, req>>

CommitCancel(r) ==
  /\ pc[r] = "cancel" /\ Locked(r)
  /\ ~Gone(req[r].draft)
  /\ status' = [status EXCEPT ![req[r].draft] = "CANCELLED"]
  /\ Release(r)
  /\ Reply(r, "CANCELLED", None)
  /\ UNCHANGED <<expired, link, created, keyDraft, req>>

(* A request dies before its commit: a database error, the write to a      *)
(* draft or conversation that is gone, a crash of the process, a failure   *)
(* to record the rejection.                                                *)
Abort(r) ==
  /\ pc[r] \notin {"unsent", "done"}
  /\ IF Locked(r) THEN Release(r) ELSE UNCHANGED lock
  /\ Reply(r, "ERROR", None)
  /\ UNCHANGED <<status, expired, link, created, keyDraft, req>>

Next ==
  \/ \E d \in Drafts : Prepare(d) \/ TimePasses(d)
  \/ \E C \in SUBSET Drafts \ {{}} : DeleteConversation(C)
  \/ \E r \in Requests :
       \/ Send(r)
       \/ BeginConfirm(r)
       \/ RefuseOverride(r)
       \/ CommitConfirm(r)
       \/ RejectConfirm(r)
       \/ ReadRejected(r)
       \/ RecordRejection(r)
       \/ ExpireDraft(r)
       \/ BeginCancel(r)
       \/ CommitCancel(r)
       \/ Abort(r)

Spec == Init /\ [][Next]_vars

-----------------------------------------------------------------------------
(* Properties *)

(* The variables hold the values the columns and the requests can hold. *)
TypeOK ==
  /\ status   \in [Drafts -> DraftStatus]
  /\ expired  \in [Drafts -> BOOLEAN]
  /\ link     \in [Drafts -> Requests \cup {None}]
  /\ created  \in [Drafts -> SUBSET Requests]
  /\ keyDraft \in [Keys -> Drafts \cup {None}]
  /\ lock     \in [Drafts -> Requests \cup {None}]
  /\ req      \in [Requests -> Request \cup {NoRequest}]
  /\ pc       \in [Requests -> Step]
  /\ answer   \in [Requests -> Answers]
  /\ told     \in [Requests -> Requests \cup {None}]

(* A draft turns into at most one transaction, the one it links, whatever  *)
(* confirmations, retries and rejections overlap                           *)
(* (financial-draft.service.ts:179); a deleted draft has made at most one. *)
OneTransactionPerDraft ==
  \A d \in Drafts :
    /\ \A r, s \in created[d] : r = s
    /\ ~Gone(d) => created[d] = IF link[d] = None THEN {} ELSE {link[d]}

(* One idempotency key creates at most one transaction over all the drafts *)
(* there are (financial-draft.integration.test.ts:153): for a second one   *)
(* the conversation of the first must have been deleted, and its key       *)
(* record with it.  And a bound key's draft has its transaction: no key is *)
(* spent on nothing.                                                       *)
OneTransactionPerKey ==
  /\ \A d, e \in Drafts : \A r \in created[d], s \in created[e] :
       req[r].key = req[s].key => r = s \/ Gone(d) \/ Gone(e)
  /\ \A k \in Keys : keyDraft[k] # None => link[keyDraft[k]] # None

(* What clients are told stays true, deletions included: a reported commit *)
(* names the one transaction there is; after a reported cancellation,      *)
(* expiry or rejection by this very request the money was not moved by it, *)
(* and a cancelled or expired draft never moves money at all.              *)
AnswersAreTrue ==
  \A r \in Requests :
    /\ answer[r] = "COMMITTED" => created[req[r].draft] = {told[r]}
    /\ answer[r] \in {"CANCELLED", "EXPIRED"} => created[req[r].draft] = {}
    /\ answer[r] \in {"REJECTED", "KEY_CONFLICT", "NOT_FOUND", "ERROR"} =>
         r \notin created[req[r].draft]

(* Money moves only at a commit of a live, pending draft: a draft that was *)
(* ever cancelled, expired, failed, committed or deleted never creates     *)
(* another transaction, however its status is overwritten later.           *)
TerminalDraftsMoveNoMoney ==
  [][\A d \in Drafts :
       status[d] \notin {"NONE", "PENDING_CONFIRMATION"} =>
         created'[d] = created[d] /\ status'[d] # "PENDING_CONFIRMATION"]_vars

(* docs/api/assistant-conversations.md:122: "Exact key replay and a        *)
(* different key on an already committed draft return the original         *)
(* committed transaction": a confirmation is not refused as conflicting    *)
(* when the draft's transaction exists.                                    *)
CommittedDraftReplays ==
  \A r \in Requests :
    req[r].kind = "confirm" /\ answer[r] = "CONFLICT" => created[req[r].draft] = {}

(* KeyNamesOneDraft, which is not so: "Reusing a key for another draft     *)
(* returns ASSISTANT_IDEMPOTENCY_CONFLICT" (docs/api/                      *)
(* assistant-conversations.md:122), so that two confirmations that succeed *)
(* under one key, of drafts that still exist, are of one draft.  A replay  *)
(* of a committed draft does not bind its key (financial-draft.service.ts: *)
(* 113), which then confirms another.                                      *)
KeyNamesOneDraft ==
  \A r, s \in Requests :
    /\ answer[r] = "COMMITTED" /\ answer[s] = "COMMITTED"
    /\ req[r].key = req[s].key
    /\ ~Gone(req[r].draft) /\ ~Gone(req[s].draft)
    => req[r].draft = req[s].draft

=============================================================================
