---------------------------- MODULE AssistantTurn ----------------------------
(***************************************************************************)
(* Requests to the Assistant: /assistant/execute and /assistant/messages,  *)
(* from the claim of their idempotency key to the answer.                  *)
(*                                                                         *)
(* A request is a chain of awaits.  Each of its steps is one database      *)
(* transaction or one call, and between two steps other requests, the      *)
(* user's other actions on the conversation, an operator and a crash of    *)
(* the process intervene.  Any write may fail; a failed write throws,      *)
(* except where the code catches it and goes on.                           *)
(***************************************************************************)
EXTENDS AssistantStore, TransactionCreate

CONSTANTS
  Keys,         \* values clients send as Idempotency-Key
  Asks,         \* what requests may ask
  MaxFaults,    \* bound on failing database writes and crashes together
  MaxMoves      \* bound on what the user and the operator do meanwhile

Request == [op : {"execute", "messages"}, key : Keys \cup {None}, conv : Convs \cup {None}]

ASSUME TurnAssumption == /\ MaxFaults \in Nat /\ MaxMoves \in Nat
                         /\ None \notin Keys
                         /\ Asks \subseteq Request

VARIABLES
  req,       \* what each request asks
  pc,        \* where each request is
  outcome,   \* what its execution comes to
  answer,    \* what its client is told
  names,     \* the turn that answer is about
  keyRec,    \* assistant_idempotency_records, by key
  drafts,    \* requests whose financial draft row exists
  asked,     \* requests whose clarification row exists
  audit,     \* assistant_provider_executions, by request
  failures, crashes, moves   \* faults and interventions so far

turnVars == <<storeVars, req, pc, outcome, answer, names, keyRec, drafts, asked,
              audit, failures, crashes, moves>>
faultVars == <<failures, crashes, moves>>
rowVars == <<keyRec, drafts, asked, audit>>

NoRequest == [op |-> "none", key |-> None, conv |-> None]

Steps == {"unsent", "claim", "claimRead", "establish", "prepare", "provider", "check",
          "begin", "running", "tool", "decide", "effect", "finalize", "rejected",
          "say", "audit", "resolve", "release", "done", "dead"}
Answers == {"none", "success", "clarification_required", "rejected", "error",
            "unsupported", "thrown", "in_progress", "conflict"}
AuditStatus == {"none", "STARTED", "PLAN_ACCEPTED", "CLARIFICATION", "UNSUPPORTED", "FAILED"}

(* What finalize writes and the client is told, for each way the execution *)
(* of a tool can end.                                                      *)
Result(e, t, a) == [exec |-> e, turn |-> t, answer |-> a]
ToolResult ==
  [summary     |-> Result("SUCCEEDED", "SUCCEEDED", "success"),
   toolFailed  |-> Result("FAILED", "FAILED", "error"),
   toolTimeout |-> Result("TIMED_OUT", "FAILED", "error"),
   asked       |-> Result("SUCCEEDED", "CLARIFICATION_REQUIRED", "clarification_required"),
   notFound    |-> Result("SUCCEEDED", "CLARIFICATION_REQUIRED", "clarification_required"),
   noCategory  |-> Result("SUCCEEDED", "CLARIFICATION_REQUIRED", "clarification_required"),
   invalid     |-> Result("FAILED", "REJECTED", "rejected"),
   unsafe      |-> Result("FAILED", "REJECTED", "error"),
   drafted     |-> Result("SUCCEEDED", "SUCCEEDED", "success"),
   draftFailed |-> Result("FAILED", "FAILED", "error")]
ToolOutcomes == DOMAIN ToolResult

(* What is persisted for a message that runs no tool. *)
SayResult ==
  [question    |-> [turn |-> "CLARIFICATION_REQUIRED", audit |-> "CLARIFICATION",
                    answer |-> "clarification_required"],
   unsupported |-> [turn |-> "SUCCEEDED", audit |-> "UNSUPPORTED", answer |-> "unsupported"],
   refused     |-> [turn |-> "FAILED", audit |-> "FAILED", answer |-> "error"]]
SayOutcomes == DOMAIN SayResult

Outcomes == {"none", "rejected", "accepted", "throws"} \cup ToolOutcomes \cup SayOutcomes

(* Failures of these steps are caught and the answer is given all the same. *)
Swallowed == {"toolFailed", "toolTimeout", "draftFailed"}

NoRecord == [status |-> "free", op |-> "none", by |-> None, answer |-> "none"]

TurnInit ==
  /\ StoreInit
  /\ req = [r \in Requests |-> NoRequest]
  /\ pc = [r \in Requests |-> "unsent"]
  /\ outcome = [r \in Requests |-> "none"]
  /\ answer = [r \in Requests |-> "none"]
  /\ names = [r \in Requests |-> None]
  /\ keyRec = [k \in Keys |-> NoRecord]
  /\ drafts = {} /\ asked = {}
  /\ audit = [r \in Requests |-> "none"]
  /\ failures = 0 /\ crashes = 0 /\ moves = 0

-----------------------------------------------------------------------------
(* Control *)

Goto(r, s) == pc' = [pc EXCEPT ![r] = s]
Keyed(r) == req[r].key # None
Entry(op) == IF op = "execute" THEN "check" ELSE "establish"
Active(r) == pc[r] \notin {"unsent", "done", "dead"}

(* The conversation a request works in; None until its turn creates one. *)
Target(r) == IF req[r].op = "messages" /\ req[r].conv = None THEN r ELSE req[r].conv
Open(r) == Target(r) # None => AssertContinuable(Target(r))

(* Mutant: the key is not released. *)
ThrowKeepsKey(r) == Goto(r, "done") /\ answer' = [answer EXCEPT ![r] = "thrown"]

(* Without a key there is nothing to release and the error leaves at once. *)
Throw(r) ==
  /\ Goto(r, IF Keyed(r) THEN "release" ELSE "done")
  /\ answer' = [answer EXCEPT ![r] = "thrown"]

Leave(r, a, t) ==
  /\ Goto(r, "done")
  /\ answer' = [answer EXCEPT ![r] = a]
  /\ names' = [names EXCEPT ![r] = t]

(* A result of the inner call: the message path audits it first. *)
Finished(r, a) ==
  /\ Goto(r, CASE req[r].op = "messages" -> "audit"
               [] req[r].op = "execute" /\ Keyed(r) -> "resolve"
               [] OTHER -> "done")
  /\ answer' = [answer EXCEPT ![r] = a]
  /\ names' = [names EXCEPT ![r] = r]

Arrive(r) ==
  /\ pc[r] = "unsent"
  /\ \E q \in Asks :
       /\ req' = [req EXCEPT ![r] = q]
       /\ Goto(r, IF q.key # None THEN "claim" ELSE Entry(q.op))
  /\ UNCHANGED <<storeVars, outcome, answer, names, rowVars, faultVars>>

-----------------------------------------------------------------------------
(* The idempotency key: insert first, read only after the insert lost *)

(* Mutant: a repeated request takes over a record that is in progress. *)
ClaimTakesOver(r) ==
  /\ pc[r] = "claim"
  /\ IF keyRec[req[r].key].status # "COMPLETED"
     THEN /\ keyRec' = [keyRec EXCEPT ![req[r].key] =
                          [status |-> "RUNNING", op |-> req[r].op, by |-> r, answer |-> "none"]]
          /\ Goto(r, Entry(req[r].op))
     ELSE Goto(r, "claimRead") /\ UNCHANGED keyRec
  /\ UNCHANGED <<storeVars, req, outcome, answer, names, drafts, asked, audit, faultVars>>

ClaimIdempotencyKey(r) ==
  /\ pc[r] = "claim"
  /\ IF keyRec[req[r].key].status = "free"
     THEN /\ keyRec' = [keyRec EXCEPT ![req[r].key] =
                          [status |-> "RUNNING", op |-> req[r].op, by |-> r, answer |-> "none"]]
          /\ Goto(r, Entry(req[r].op))
     ELSE Goto(r, "claimRead") /\ UNCHANGED keyRec
  /\ UNCHANGED <<storeVars, req, outcome, answer, names, drafts, asked, audit, faultVars>>

(* The record may have been released or deleted since the insert failed. *)
ReadClaimedKey(r) ==
  /\ pc[r] = "claimRead"
  /\ LET rec == keyRec[req[r].key] IN
       CASE rec.status = "free" -> Leave(r, "thrown", None)
         [] rec.status # "free" /\ rec.op # req[r].op -> Leave(r, "conflict", None)
         [] rec.op = req[r].op /\ rec.status = "RUNNING" -> Leave(r, "in_progress", None)
         [] rec.op = req[r].op /\ rec.status = "COMPLETED" -> Leave(r, rec.answer, rec.by)
  /\ UNCHANGED <<storeVars, req, outcome, rowVars, faultVars>>

(* The turn id is a foreign key: the update fails, silently, when the turn *)
(* is gone.                                                                *)
ResolveIdempotencyKey(r) ==
  /\ pc[r] = "resolve"
  /\ keyRec' = IF Writable(r)
               THEN [keyRec EXCEPT ![req[r].key] =
                       [@ EXCEPT !.status = "COMPLETED", !.answer = answer[r]]]
               ELSE keyRec
  /\ Goto(r, "done")
  /\ UNCHANGED <<storeVars, req, outcome, answer, names, drafts, asked, audit, faultVars>>

ReleaseIdempotencyKey(r) ==
  /\ pc[r] = "release"
  /\ keyRec' = IF keyRec[req[r].key].status = "RUNNING"
               THEN [keyRec EXCEPT ![req[r].key] = NoRecord]
               ELSE keyRec
  /\ Goto(r, "done")
  /\ UNCHANGED <<storeVars, req, outcome, answer, names, drafts, asked, audit, faultVars>>

-----------------------------------------------------------------------------
(* A message: the provider proposes, inside an audit row *)

EstablishConversation(r) ==
  /\ pc[r] = "establish"
  /\ IF req[r].conv = None
     THEN /\ CreateConversation(r)
          /\ Goto(r, "prepare") /\ UNCHANGED answer
     ELSE /\ IF Open(r) THEN Goto(r, "prepare") /\ UNCHANGED answer ELSE Throw(r)
          /\ UNCHANGED conv
  /\ UNCHANGED <<turn, at, exec, said, reconciled, req, outcome, names, rowVars, faultVars>>

(* The audit row belongs to the conversation, which may be gone by now. *)
BeginAudit(r) ==
  /\ pc[r] = "prepare"
  /\ IF conv[Target(r)] = "gone"
     THEN Throw(r) /\ UNCHANGED audit
     ELSE /\ audit' = [audit EXCEPT ![r] = "STARTED"]
          /\ Goto(r, "provider") /\ UNCHANGED answer
  /\ UNCHANGED <<storeVars, req, outcome, names, keyRec, drafts, asked, faultVars>>

(* A plan to run a tool goes on as a nested execute without a key of its   *)
(* own; everything else, a timeout and a refusal too, becomes a turn that  *)
(* runs no tool.  A late answer of the provider has no one to take it.     *)
InvokeProvider(r) ==
  /\ pc[r] = "provider"
  /\ \/ Goto(r, "check") /\ UNCHANGED outcome
     \/ \E o \in SayOutcomes : outcome' = [outcome EXCEPT ![r] = o] /\ Goto(r, "begin")
  /\ UNCHANGED <<storeVars, req, answer, names, rowVars, faultVars>>

PersistNonToolResult(r) ==
  /\ pc[r] = "say"
  /\ IF Writable(r)
     THEN /\ FinalizeWithoutTool(r, SayResult[outcome[r]].turn)
          /\ Finished(r, SayResult[outcome[r]].answer)
     ELSE Throw(r) /\ UNCHANGED <<storeVars, names>>
  /\ UNCHANGED <<req, outcome, rowVars, faultVars>>

AuditOutcome(r) ==
  IF outcome[r] \in SayOutcomes THEN SayResult[outcome[r]].audit ELSE "PLAN_ACCEPTED"

AfterAudit(r) == Goto(r, IF Keyed(r) THEN "resolve" ELSE "done")

FinalizeAuditSafely(r) ==
  /\ pc[r] = "audit"
  /\ audit' = IF audit[r] = "STARTED" /\ Writable(r)
              THEN [audit EXCEPT ![r] = AuditOutcome(r)] ELSE audit
  /\ AfterAudit(r)
  /\ UNCHANGED <<storeVars, req, outcome, answer, names, keyRec, drafts, asked, faultVars>>

-----------------------------------------------------------------------------
(* Executing an intent *)

(* The conversation is checked before a turn exists.  An execute request   *)
(* may name no supported intent or carry invalid arguments, and is then    *)
(* rejected in a turn of its own; a plan was validated already.            *)
CheckConversation(r) ==
  /\ pc[r] = "check"
  /\ \/ ~Open(r) /\ Throw(r) /\ UNCHANGED outcome
     \/ /\ Open(r)
        /\ \E o \in IF req[r].op = "execute" THEN {"accepted", "rejected"} ELSE {"accepted"} :
             outcome' = [outcome EXCEPT ![r] = o]
        /\ Goto(r, "begin") /\ UNCHANGED answer
  /\ UNCHANGED <<storeVars, req, names, rowVars, faultVars>>

StartTurn(r) ==
  /\ pc[r] = "begin"
  /\ IF Open(r)
     THEN /\ BeginTurn(r, Target(r))
          /\ Goto(r, CASE outcome[r] = "rejected" -> "rejected"
                       [] outcome[r] = "accepted" -> "running"
                       [] outcome[r] \in SayOutcomes -> "say")
          /\ UNCHANGED answer
     ELSE Throw(r) /\ UNCHANGED storeVars
  /\ UNCHANGED <<req, outcome, names, rowVars, faultVars>>

(* Mutant: no return after the rejection. *)
RejectTurnRunsOn(r) ==
  /\ pc[r] = "rejected"
  /\ IF Writable(r) THEN FinalizeRejected(r) /\ Goto(r, "running") /\ UNCHANGED <<answer, names>>
                    ELSE Throw(r) /\ UNCHANGED <<storeVars, names>>
  /\ UNCHANGED <<req, outcome, rowVars, faultVars>>

RejectTurn(r) ==
  /\ pc[r] = "rejected"
  /\ IF Writable(r) THEN FinalizeRejected(r) /\ Finished(r, "rejected")
                    ELSE Throw(r) /\ UNCHANGED <<storeVars, names>>
  /\ UNCHANGED <<req, outcome, rowVars, faultVars>>

RunTurn(r) ==
  /\ pc[r] = "running"
  /\ IF Writable(r) THEN MarkTurnRunning(r) /\ Goto(r, "tool") /\ UNCHANGED answer
                    ELSE Throw(r) /\ UNCHANGED storeVars
  /\ UNCHANGED <<req, outcome, names, rowVars, faultVars>>

StartTool(r) ==
  /\ pc[r] = "tool"
  /\ IF Writable(r) THEN BeginToolExecution(r) /\ Goto(r, "decide") /\ UNCHANGED answer
                    ELSE Throw(r) /\ UNCHANGED storeVars
  /\ UNCHANGED <<req, outcome, names, rowVars, faultVars>>

(* executeTool only reads: it returns, fails, or is given up on. *)
ExecuteTool == {"summary", "toolFailed", "toolTimeout"}

(* A plan names its wallet and category by reference only. *)
InputsOf(r) ==
  IF req[r].op = "execute" THEN TransactionInputs
  ELSE {i \in TransactionInputs : i.wallet # "id" /\ ~i.categoryId}

(* Resolving a reference may throw, whenever the user owns a name that no  *)
(* reference can be compared with, and nothing catches it.                 *)
Decide(r) ==
  /\ pc[r] = "decide"
  /\ \E o \in ExecuteTool \cup {CreateOutcome(i) : i \in InputsOf(r)} :
       /\ outcome' = [outcome EXCEPT ![r] = o]
       /\ \/ o = "throws" /\ Throw(r)
          \/ o \in {"asked", "drafted"} /\ Goto(r, "effect") /\ UNCHANGED answer
          \/ o \notin {"throws", "asked", "drafted"} /\ Goto(r, "finalize") /\ UNCHANGED answer
  /\ UNCHANGED <<storeVars, req, names, rowVars, faultVars>>

(* The question is a transaction of its own, before the turn is finalized. *)
CreateEntityClarification(r) ==
  /\ pc[r] = "effect" /\ outcome[r] = "asked"
  /\ IF Writable(r) THEN asked' = asked \cup {r} /\ Goto(r, "finalize") /\ UNCHANGED answer
                    ELSE Throw(r) /\ UNCHANGED asked
  /\ UNCHANGED <<storeVars, req, outcome, names, keyRec, drafts, audit, faultVars>>

(* So is the draft; preparing it fails when the wallet or the category     *)
(* given by id is not the user's.                                          *)
PrepareDraft(r) ==
  /\ pc[r] = "effect" /\ outcome[r] = "drafted"
  /\ \/ /\ Writable(r)
        /\ drafts' = drafts \cup {r} /\ UNCHANGED outcome
     \/ /\ ~Writable(r) \/ req[r].op = "execute"
        /\ outcome' = [outcome EXCEPT ![r] = "draftFailed"] /\ UNCHANGED drafts
  /\ Goto(r, "finalize")
  /\ UNCHANGED <<storeVars, req, answer, names, keyRec, asked, audit, faultVars>>

(* Mutant: every failure of the final write is swallowed. *)
FinalizeFailsSilently(r) ==
  Finished(r, ToolResult[outcome[r]].answer) /\ UNCHANGED <<storeVars, outcome>>

(* When the final write of a draft fails the turn is finalized again, as   *)
(* failed, while the draft stays.                                          *)
FinalizeFails(r) ==
  /\ CASE outcome[r] = "drafted" ->
            /\ outcome' = [outcome EXCEPT ![r] = "draftFailed"]
            /\ UNCHANGED <<pc, answer, names>>
       [] outcome[r] \in Swallowed ->
            Finished(r, ToolResult[outcome[r]].answer) /\ UNCHANGED outcome
       [] OTHER -> Throw(r) /\ UNCHANGED <<outcome, names>>
  /\ UNCHANGED storeVars

FinalizeTurn(r) ==
  /\ pc[r] = "finalize"
  /\ IF Writable(r)
     THEN LET res == ToolResult[outcome[r]] IN
            /\ FinalizeRows(r, res.exec, res.turn, outcome[r] # "drafted")
            /\ Finished(r, res.answer)
            /\ UNCHANGED outcome
     ELSE FinalizeFails(r)
  /\ UNCHANGED <<req, rowVars, faultVars>>

-----------------------------------------------------------------------------
(* Faults, and the user's other actions *)

(* A read or write throws.  Before the claim has returned there is no try  *)
(* block; after the result exists, failures are swallowed.                 *)
DatabaseFails(r) ==
  /\ failures + crashes < MaxFaults
  /\ failures' = failures + 1
  /\ \/ /\ pc[r] \in {"claim", "claimRead"}
        /\ Leave(r, "thrown", None) /\ UNCHANGED <<storeVars, outcome>>
     \/ /\ pc[r] \in {"establish", "prepare", "check", "begin", "rejected", "running",
                      "tool", "decide", "say"}
        /\ Throw(r) /\ UNCHANGED <<storeVars, outcome, names>>
     \/ /\ pc[r] = "effect"
        /\ IF outcome[r] = "drafted"
           THEN /\ outcome' = [outcome EXCEPT ![r] = "draftFailed"]
                /\ Goto(r, "finalize") /\ UNCHANGED answer
           ELSE Throw(r) /\ UNCHANGED outcome
        /\ UNCHANGED <<storeVars, names>>
     \/ pc[r] = "finalize" /\ FinalizeFails(r)
     \/ pc[r] = "audit" /\ AfterAudit(r) /\ UNCHANGED <<storeVars, outcome, answer, names>>
     \/ /\ pc[r] \in {"resolve", "release"}
        /\ Goto(r, "done") /\ UNCHANGED <<storeVars, outcome, answer, names>>
  /\ UNCHANGED <<req, rowVars, crashes, moves>>

(* The process dies with every request it was serving; rows stay. *)
Crash ==
  /\ failures + crashes < MaxFaults
  /\ \E r \in Requests : Active(r)
  /\ crashes' = crashes + 1
  /\ pc' = [r \in Requests |-> IF Active(r) THEN "dead" ELSE pc[r]]
  /\ UNCHANGED <<storeVars, req, outcome, answer, names, rowVars, failures, moves>>

Move == moves < MaxMoves /\ moves' = moves + 1

(* Rows that refer to the conversation or to its turns go with it; a       *)
(* record whose turn is not written yet refers to nothing.                 *)
DeleteConversation(c) ==
  LET lost == {r \in Requests : at[r] = c} IN
  /\ Move
  /\ DeleteOwnedConversation(c)
  /\ keyRec' = [k \in Keys |-> IF keyRec[k].status = "COMPLETED" /\ keyRec[k].by \in lost
                               THEN NoRecord ELSE keyRec[k]]
  /\ drafts' = drafts \ lost
  /\ asked' = asked \ lost
  /\ audit' = [r \in Requests |-> IF req[r].op = "messages" /\ Target(r) = c
                                  THEN "none" ELSE audit[r]]
  /\ UNCHANGED <<req, pc, outcome, answer, names, failures, crashes>>

OtherActions ==
  /\ Move
  /\ \/ \E c \in Conversations : ArchiveOwnedConversation(c) \/ RestoreOwnedConversation(c)
     \/ \E p \in Procs : ReconcileTurn(p)
  /\ UNCHANGED <<req, pc, outcome, answer, names, rowVars, failures, crashes>>

RequestStep(r) ==
  \/ Arrive(r)
  \/ ClaimIdempotencyKey(r) \/ ReadClaimedKey(r)
  \/ EstablishConversation(r) \/ BeginAudit(r) \/ InvokeProvider(r)
  \/ CheckConversation(r) \/ StartTurn(r) \/ RejectTurn(r) \/ RunTurn(r) \/ StartTool(r)
  \/ Decide(r) \/ CreateEntityClarification(r) \/ PrepareDraft(r) \/ FinalizeTurn(r)
  \/ PersistNonToolResult(r) \/ FinalizeAuditSafely(r)
  \/ ResolveIdempotencyKey(r) \/ ReleaseIdempotencyKey(r)
  \/ DatabaseFails(r)

TurnNext ==
  \/ \E r \in Requests : RequestStep(r)
  \/ \E c \in Conversations : DeleteConversation(c)
  \/ OtherActions
  \/ Crash

TurnSpec == TurnInit /\ [][TurnNext]_turnVars

-----------------------------------------------------------------------------
(* Properties *)

TurnTypeOK ==
  /\ StoreTypeOK
  /\ req \in [Requests -> Request \cup {NoRequest}]
  /\ pc \in [Requests -> Steps]
  /\ outcome \in [Requests -> Outcomes]
  /\ answer \in [Requests -> Answers]
  /\ names \in [Requests -> Requests \cup {None}]
  /\ keyRec \in [Keys -> [status : {"free", "RUNNING", "COMPLETED"},
                          op : {"none", "execute", "messages"},
                          by : Requests \cup {None}, answer : Answers]]
  /\ drafts \in SUBSET Requests /\ asked \in SUBSET Requests
  /\ audit \in [Requests -> AuditStatus]
  /\ failures \in 0..MaxFaults /\ crashes \in 0..MaxFaults /\ moves \in 0..MaxMoves


(* Every answer that names a turn, replays included, says what the turn    *)
(* says: the status in the history is the one the client was told, and a   *)
(* success that prepared a draft has its draft.  The exceptions are an     *)
(* error whose last write failed as well, and a merchant with markup: its  *)
(* turn is rejected while its client is told of an error.                  *)
TurnOfAnswer ==
  [success |-> "SUCCEEDED", unsupported |-> "SUCCEEDED", rejected |-> "REJECTED",
   error |-> "FAILED", clarification_required |-> "CLARIFICATION_REQUIRED"]
AnswersAreRecorded ==
  \A r \in Requests : names[r] # None /\ turn[names[r]] # "gone" =>
    /\ \/ turn[names[r]] = TurnOfAnswer[answer[r]]
       \/ answer[r] = "error" /\ failures > 0
       \/ outcome[names[r]] = "unsafe" /\ turn[names[r]] = "REJECTED"
    /\ answer[r] = "success" /\ outcome[names[r]] = "drafted" => names[r] \in drafts

(* However often a client repeats a request under one key, through         *)
(* crashes, failing writes and releases of the key, at most one draft      *)
(* exists for it (no step that can throw comes after the draft), and two   *)
(* requests that were answered were answered about one turn, unless the    *)
(* conversation of one was deleted, and the key's record with it.          *)
OneExecutionPerKey ==
  \A r, s \in Requests : Keyed(r) /\ req[r].key = req[s].key =>
    /\ r \in drafts /\ s \in drafts => r = s
    /\ names[r] # None /\ names[s] # None
         => \/ names[r] = names[s]
            \/ "gone" \in {turn[names[r]], turn[names[s]]}

(* What a request that is over leaves unfinished (a key that stays in      *)
(* progress, a turn that stays open, a draft its client was not told of, an *)
(* open audit row) has a cause: the process died, a write failed, the      *)
(* conversation was closed under it, or a reference could not be resolved  *)
(* at all, which leaves the turn running.                                  *)
LeftoversNeedACause ==
  \A r \in Requests : pc[r] \in {"done", "dead"} /\ failures = 0 =>
    /\ \A k \in Keys : keyRec[k].status = "RUNNING" /\ keyRec[k].by = r
         => pc[r] = "dead" \/ turn[r] = "gone"
    /\ turn[r] \in {"PENDING", "RUNNING"} => pc[r] = "dead" \/ outcome[r] = "throws"
    /\ r \in drafts => pc[r] = "dead" \/ answer[r] = "success"
    /\ audit[r] = "STARTED" => pc[r] = "dead" \/ answer[r] = "thrown"

(* A finished turn changes its status only when an operator had declared   *)
(* it stale while its request was still running: finalize does not look    *)
(* at the status it overwrites.                                            *)
FinishedTurnsStay ==
  [][\A p \in Procs : turn[p] \in Terminal /\ turn'[p] # turn[p]
       => turn'[p] = "gone" \/ p \in reconciled]_turnVars
=============================================================================
