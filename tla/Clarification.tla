---------------------------- MODULE Clarification ----------------------------
(***************************************************************************)
(* Questions the Assistant asks before it can draft a transaction, and the *)
(* selections and cancellations that answer them, from the web and from    *)
(* Telegram buttons, at the same time.                                     *)
(*                                                                         *)
(* A selection reads the question outside any transaction, then claims it  *)
(* in one transaction with everything the answer unlocks: the next         *)
(* question or the draft, and the end of its own turn.  A question is      *)
(* named by the process that asked it: the request that could not resolve  *)
(* a reference, or the selection that led to the next one.                 *)
(***************************************************************************)
EXTENDS AssistantStore, TransactionCreate

VARIABLES
  question,   \* clarification_requests, by asking process
  expired,    \* questions whose expires_at has passed
  byId,       \* did the asking request give its wallet by id?
  sreq,       \* what each selection asks
  spc,        \* where it is
  sanswer,    \* what its client is told
  cont,       \* what its committed claim unlocked
  sdrafts,    \* selections whose draft row exists
  sfaults     \* failures and crashes so far

CONSTANT MaxSelectFaults   \* bound on sfaults
ASSUME SelectAssumption == MaxSelectFaults \in Nat /\ Convs # {}

clarVars == <<storeVars, question, expired, byId, sreq, spc, sanswer, cont, sdrafts, sfaults>>

Contexts == [wallet : BOOLEAN, named : BOOLEAN, category : BOOLEAN, categoryId : BOOLEAN]
NoContext == [wallet |-> FALSE, named |-> FALSE, category |-> FALSE, categoryId |-> FALSE]
QuestionStatus == {"none", "PENDING", "CONSUMED", "CANCELLED", "STALE", "gone"}
Question == [status : QuestionStatus, entity : Entities \cup {"none"},
             context : Contexts, parent : Procs \cup {None}]
NoQuestion == [status |-> "none", entity |-> "none", context |-> NoContext, parent |-> None]
NewQuestion(q, parent) ==
  [status |-> "PENDING", entity |-> q.entity, context |-> q.context, parent |-> parent]

SelectSteps == {"unsent", "begin", "running", "tool", "read", "expire", "claim", "say",
                "fail", "done", "dead"}
SelectAnswers == {"none", "thrown", "child", "drafted", "noCategory", "cancelled_ok",
                  "CONSUMED", "CANCELLED", "STALE", "not_found", "bad_option", "error"}
Committed == {"child", "drafted", "noCategory"}

Exists(q) == question[q].status \notin {"none", "gone"}

ClarInit ==
  /\ StoreInit
  /\ \E r \in Requests, i \in {j \in TransactionInputs : CreateOutcome(j) = "asked"} :
       /\ question = [p \in Procs |-> IF p = r THEN NewQuestion(AskedQuestion(i), None)
                                      ELSE NoQuestion]
       /\ byId = (i.wallet = "id")
  /\ expired = {}
  /\ sreq = [s \in Selects |-> [kind |-> "none", target |-> None, valid |-> FALSE]]
  /\ spc = [s \in Selects |-> "unsent"]
  /\ sanswer = [s \in Selects |-> "none"]
  /\ cont = [s \in Selects |-> "none"]
  /\ sdrafts = {} /\ sfaults = 0

-----------------------------------------------------------------------------

SGoto(s, step) == spc' = [spc EXCEPT ![s] = step]
Told(s, a) == sanswer' = [sanswer EXCEPT ![s] = a]
Target_(s) == sreq[s].target
questionVars == <<question, expired, byId>>

(* All questions and their selections are in the one conversation. *)
TheConversation == CHOOSE c \in Convs : TRUE

SendSelection(s) ==
  /\ spc[s] = "unsent"
  /\ \E q \in {p \in Procs : Exists(p)}, k \in {"select", "cancel"}, v \in BOOLEAN :
       /\ k = "cancel" => v
       /\ sreq' = [sreq EXCEPT ![s] = [kind |-> k, target |-> q, valid |-> v]]
  /\ SGoto(s, "begin")
  /\ UNCHANGED <<storeVars, questionVars, sanswer, cont, sdrafts, sfaults>>

(* beginTurn, markTurnRunning and beginToolExecution commit one by one and *)
(* before the try block: an error there leaves the turn as it is.          *)
BeginSelection(s) ==
  /\ \/ /\ spc[s] = "begin"
        /\ AssertContinuable(TheConversation)
        /\ BeginTurn(s, TheConversation)
        /\ SGoto(s, "running") /\ UNCHANGED sanswer
     \/ /\ spc[s] = "running" /\ Writable(s)
        /\ MarkTurnRunning(s)
        /\ SGoto(s, IF sreq[s].kind = "select" THEN "tool" ELSE "read") /\ UNCHANGED sanswer
     \/ /\ spc[s] = "tool" /\ Writable(s)
        /\ BeginToolExecution(s)
        /\ SGoto(s, "read") /\ UNCHANGED sanswer
     \/ /\ \/ spc[s] = "begin" /\ ~AssertContinuable(TheConversation)
           \/ spc[s] \in {"running", "tool"} /\ ~Writable(s)
        /\ SGoto(s, "done") /\ Told(s, "thrown") /\ UNCHANGED storeVars
  /\ UNCHANGED <<questionVars, sreq, cont, sdrafts, sfaults>>

(* terminalStatusError: what a caller that did not win is told. *)
TerminalStatusError(q) ==
  IF Exists(q) THEN question[q].status ELSE "not_found"

Refused(s, a) == Told(s, a) /\ SGoto(s, "fail")

(* The plain read: a terminal question reports how it ended (a repeated    *)
(* cancellation succeeds), an expired one is made stale, and only then is  *)
(* the option compared.                                                    *)
ReadQuestion(s) ==
  LET q == Target_(s) IN
  /\ spc[s] = "read"
  /\ CASE ~Exists(q) -> Refused(s, "not_found")
       [] question[q].status = "CANCELLED" /\ sreq[s].kind = "cancel" ->
            Told(s, "cancelled_ok") /\ SGoto(s, "say")
       [] Exists(q) /\ question[q].status # "PENDING"
            /\ ~(question[q].status = "CANCELLED" /\ sreq[s].kind = "cancel") ->
            Refused(s, TerminalStatusError(q))
       [] question[q].status = "PENDING" /\ q \in expired ->
            SGoto(s, "expire") /\ UNCHANGED sanswer
       [] question[q].status = "PENDING" /\ q \notin expired ->
            IF sreq[s].valid THEN SGoto(s, "claim") /\ UNCHANGED sanswer
                             ELSE Refused(s, "bad_option")
  /\ UNCHANGED <<storeVars, questionVars, sreq, cont, sdrafts, sfaults>>

(* Mutant: the update is not guarded by the status. *)
TerminalizeUnguarded(s) ==
  /\ spc[s] = "expire"
  /\ question' = [question EXCEPT ![Target_(s)].status = "STALE"]
  /\ Refused(s, "STALE")
  /\ UNCHANGED <<storeVars, expired, byId, sreq, cont, sdrafts, sfaults>>

(* terminalizeOrReportActual, outside the claim's transaction. *)
TerminalizeOrReportActual(s) ==
  LET q == Target_(s) IN
  /\ spc[s] = "expire"
  /\ IF question[q].status = "PENDING"
     THEN /\ question' = [question EXCEPT ![q].status = "STALE"]
          /\ Refused(s, "STALE")
     ELSE Refused(s, TerminalStatusError(q)) /\ UNCHANGED question
  /\ UNCHANGED <<storeVars, expired, byId, sreq, cont, sdrafts, sfaults>>

(* The claim of a selection, its continuation and the end of its turn are  *)
(* one transaction: all of it commits, or the question stays PENDING.      *)
CommitContinuation(s, next) ==
  LET q == Target_(s) IN
  /\ question' = IF next.kind = "child"
                 THEN [question EXCEPT ![q].status = "CONSUMED", ![s] = NewQuestion(next, q)]
                 ELSE [question EXCEPT ![q].status = "CONSUMED"]
  /\ cont' = [cont EXCEPT ![s] = next.kind]
  /\ sdrafts' = IF next.kind = "drafted" THEN sdrafts \cup {s} ELSE sdrafts
  /\ FinalizeRows(s, "SUCCEEDED",
                  IF next.kind = "drafted" THEN "SUCCEEDED" ELSE "CLARIFICATION_REQUIRED",
                  next.kind # "drafted")
  /\ Told(s, next.kind) /\ SGoto(s, "done")

(* Mutant: the claim does not look at the status. *)
SelectUnguarded(s) ==
  LET q == Target_(s) IN
  /\ spc[s] = "claim" /\ sreq[s].kind = "select" /\ Exists(q) /\ Writable(s)
  /\ \E res \in Resolutions :
       LET next == Continuation(question[q].entity, question[q].context, res) IN
       IF next.kind \in Committed
       THEN CommitContinuation(s, next)
       ELSE Refused(s, "error") /\ UNCHANGED <<storeVars, question, cont, sdrafts>>
  /\ UNCHANGED <<expired, byId, sreq, sfaults>>

SelectAndContinue(s) ==
  LET q == Target_(s) IN
  /\ spc[s] = "claim" /\ sreq[s].kind = "select"
  /\ \/ /\ question[q].status = "PENDING"
        /\ \E res \in Resolutions :
             LET next == Continuation(question[q].entity, question[q].context, res) IN
             IF next.kind \in Committed
             THEN CommitContinuation(s, next)
             ELSE Refused(s, "error") /\ UNCHANGED <<storeVars, question, cont, sdrafts>>
     \/ /\ question[q].status = "PENDING"     \* preparing the draft throws
        /\ Refused(s, "error") /\ UNCHANGED <<storeVars, question, cont, sdrafts>>
     \/ /\ question[q].status # "PENDING"
        /\ Refused(s, TerminalStatusError(q)) /\ UNCHANGED <<storeVars, question, cont, sdrafts>>
  /\ UNCHANGED <<expired, byId, sreq, sfaults>>

CancelQuestion(s) ==
  LET q == Target_(s) IN
  /\ spc[s] = "claim" /\ sreq[s].kind = "cancel"
  /\ CASE question[q].status = "PENDING" ->
            /\ question' = [question EXCEPT ![q].status = "CANCELLED"]
            /\ Told(s, "cancelled_ok") /\ SGoto(s, "say")
       [] question[q].status = "CANCELLED" ->
            Told(s, "cancelled_ok") /\ SGoto(s, "say") /\ UNCHANGED question
       [] question[q].status \notin {"PENDING", "CANCELLED"} ->
            Refused(s, TerminalStatusError(q)) /\ UNCHANGED question
  /\ UNCHANGED <<storeVars, expired, byId, sreq, cont, sdrafts, sfaults>>

(* The turn of a cancellation ends after the cancellation is committed. *)
SayCancelled(s) ==
  /\ spc[s] = "say"
  /\ IF Writable(s)
     THEN FinalizeWithoutTool(s, "SUCCEEDED") /\ SGoto(s, "done") /\ UNCHANGED sanswer
     ELSE Refused(s, "error") /\ UNCHANGED storeVars
  /\ UNCHANGED <<questionVars, sreq, cont, sdrafts, sfaults>>

(* The catch block records the failure on its own; if that fails too, the  *)
(* answer is given all the same.                                           *)
RecordFailure(s) ==
  /\ spc[s] = "fail"
  /\ IF Writable(s)
     THEN IF sreq[s].kind = "select" THEN FinalizeRows(s, "FAILED", "FAILED", TRUE)
                                     ELSE FinalizeWithoutTool(s, "FAILED")
     ELSE UNCHANGED storeVars
  /\ SGoto(s, "done")
  /\ UNCHANGED <<questionVars, sreq, sanswer, cont, sdrafts, sfaults>>

-----------------------------------------------------------------------------
(* Time, faults and the user's other actions *)

(* The status is looked at first, so only an open question can expire. *)
FifteenMinutesPass(q) ==
  /\ question[q].status = "PENDING" /\ q \notin expired
  /\ expired' = expired \cup {q}
  /\ UNCHANGED <<storeVars, question, byId, sreq, spc, sanswer, cont, sdrafts, sfaults>>

SelectionFails(s) ==
  /\ sfaults < MaxSelectFaults
  /\ sfaults' = sfaults + 1
  /\ \/ /\ spc[s] \in {"begin", "running", "tool"}
        /\ SGoto(s, "done") /\ Told(s, "thrown")
     \/ spc[s] \in {"read", "expire", "claim", "say"} /\ Refused(s, "error")
     \/ spc[s] = "fail" /\ SGoto(s, "done") /\ UNCHANGED sanswer
     \/ spc[s] \notin {"unsent", "done", "dead"} /\ SGoto(s, "dead") /\ UNCHANGED sanswer
  /\ UNCHANGED <<storeVars, questionVars, sreq, cont, sdrafts>>

DeleteQuestions ==
  /\ DeleteOwnedConversation(TheConversation)
  /\ question' = [p \in Procs |-> IF Exists(p) THEN [NoQuestion EXCEPT !.status = "gone"]
                                  ELSE question[p]]
  /\ sdrafts' = {}
  /\ UNCHANGED <<expired, byId, sreq, spc, sanswer, cont, sfaults>>

SelectionStep(s) ==
  \/ SendSelection(s) \/ BeginSelection(s) \/ ReadQuestion(s)
  \/ TerminalizeOrReportActual(s) \/ SelectAndContinue(s) \/ CancelQuestion(s)
  \/ SayCancelled(s) \/ RecordFailure(s) \/ SelectionFails(s)

ClarNext ==
  \/ \E s \in Selects : SelectionStep(s)
  \/ \E q \in Procs : FifteenMinutesPass(q)
  \/ DeleteQuestions

ClarSpec == ClarInit /\ [][ClarNext]_clarVars

-----------------------------------------------------------------------------
(* Properties *)

ClarTypeOK ==
  /\ StoreTypeOK
  /\ question \in [Procs -> Question]
  /\ expired \in SUBSET Procs /\ byId \in BOOLEAN
  /\ spc \in [Selects -> SelectSteps]
  /\ sanswer \in [Selects -> SelectAnswers]
  /\ cont \in [Selects -> {"none"} \cup Committed]
  /\ sdrafts \in SUBSET Selects /\ sfaults \in 0..MaxSelectFaults

Pending == {q \in Procs : question[q].status = "PENDING"}
Winners(q) == {s \in Selects : cont[s] # "none" /\ Target_(s) = q}

(* However its buttons are pressed, one request ends in at most one draft: *)
(* its open question and its draft never number more than one together,    *)
(* and a question is consumed exactly when one selection went on from it.  *)
ChainMovesForward ==
  /\ \A q, p \in Pending : q = p
  /\ \A s, t \in sdrafts : s = t
  /\ Pending = {} \/ sdrafts = {}
  /\ \A q \in Procs : Exists(q) =>
       /\ question[q].status = "CONSUMED" <=> Winners(q) # {}
       /\ \A s, t \in Winners(q) : s = t

(* What a selection or cancellation is told is how the question ended, and *)
(* one that is told of a failure has left no draft and no next question,   *)
(* so that it can be repeated while the question is open.                  *)
SelectionAnswersAreTrue ==
  \A s \in Selects :
    LET q == Target_(s) IN
    /\ sanswer[s] \in {"CONSUMED", "CANCELLED", "STALE"} /\ Exists(q)
         => question[q].status = sanswer[s]
    /\ sanswer[s] = "cancelled_ok" /\ Exists(q) => question[q].status = "CANCELLED"
    /\ sanswer[s] \in SelectAnswers \ ({"none"} \cup Committed)
         => cont[s] = "none" /\ ~Exists(s) /\ s \notin sdrafts

(* The wallet the user chose stays chosen through the later questions.  An *)
(* open question that no longer knows its wallet can only fail until it    *)
(* expires; such a question arises only when the request gave its wallet   *)
(* by id and another reference was ambiguous.                              *)
WalletIsNotForgotten ==
  \A q \in Pending :
    question[q].entity # "wallet" /\ ~question[q].context.wallet => byId
=============================================================================
