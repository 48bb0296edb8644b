--------------------------- MODULE ChannelInbound ---------------------------
(***************************************************************************)
(* The durable inbox of the Telegram channel: the webhook persists every   *)
(* update as a channel_inbound_jobs row, and the inbound workers of any    *)
(* number of server processes claim rows under a lease, run the Assistant  *)
(* (or a button press) behind the operation guard, queue the answer as a   *)
(* channel_outbound_deliveries row and mark the job.                       *)
(*                                                                         *)
(* Every action is one committed database statement or one external call,  *)
(* so a crash, an expired lease or another worker may come between any two *)
(* of them.  A worker never checks that it still owns the row it writes.   *)
(***************************************************************************)
EXTENDS Naturals, FiniteSets

CONSTANTS
  Jobs,              \* identities of channel_inbound_jobs rows
  Updates,           \* Telegram updates
  UpdateOf,          \* the update a row persists
  KindOf,            \* what an update is: a command, free text, a button press
  Workers,           \* inbound workers, one per server process
  BatchSize,         \* CHANNEL_WORKER_BATCH_SIZE
  MaxAttempts,       \* maxAttemptsInbound
  RuntimeConfigured, \* is an Assistant provider configured in this deployment?
  MaxFaults,         \* bound: crashes, database errors and leases outlived
  NoJob              \* "no job in hand"

ASSUME ConstantsAssumption ==
  /\ UpdateOf \in [Jobs -> Updates]
  /\ KindOf \in [Updates -> {"COMMAND", "TEXT", "CALLBACK"}]
  /\ BatchSize \in Nat \ {0}
  /\ MaxAttempts \in Nat \ {0}
  /\ RuntimeConfigured \in BOOLEAN
  /\ MaxFaults \in Nat
  /\ NoJob \notin Jobs

VARIABLES
  status,    \* status of each row; "NONE" before the insert, "PURGED" after the delete
  attempt,   \* attempt column
  live,      \* is lease_expires_at still in the future?
  bound,     \* is assistant_turn_id set on the row?
  op,        \* channel_assistant_operations row: none, started, done (reply recorded)
  execs,     \* history: how often the Assistant or the button's action was invoked
  delivery,  \* the job's SEND_MESSAGE row, and where its text came from
  cleanup,   \* does the job's EDIT_REPLY_MARKUP row exist?
  open,      \* updates Telegram may still deliver (first delivery or redelivery)
  claimed,   \* claimed[w][j]: attempt in w's snapshot of j, 0 when w does not hold j
  cur,       \* the job a worker is processing
  pc,        \* where in processJob a worker is
  clear,     \* clearOriginalKeyboard of the callback a worker has just run
  faults     \* crashes, database errors and leases outlived so far

jobVars    == <<status, attempt, live, bound>>
effectVars == <<op, execs, delivery, cleanup>>
workerVars == <<claimed, cur, pc, clear>>
vars == <<status, attempt, live, bound, op, execs, delivery, cleanup,
          open, claimed, cur, pc, clear, faults>>

JobStatus == {"NONE", "PENDING", "PROCESSING", "SUCCEEDED",
              "FAILED_RETRYABLE", "FAILED_TERMINAL", "PURGED"}
OpStatus  == {"NONE", "STARTED", "DONE"}
Answer    == {"NONE", "DIRECT", "REPLY", "PURGED"}
Step      == {"idle", "direct", "begin", "call", "complete", "bind", "reply",
              "cleanup", "finish", "ambiguous", "failRetry", "failFinal", "sweep"}

Settled == {"SUCCEEDED", "FAILED_RETRYABLE", "FAILED_TERMINAL"}

Init ==
  /\ status   = [j \in Jobs |-> "NONE"]
  /\ attempt  = [j \in Jobs |-> 0]
  /\ live     = [j \in Jobs |-> FALSE]
  /\ bound    = [j \in Jobs |-> FALSE]
  /\ op       = [j \in Jobs |-> "NONE"]
  /\ execs    = [j \in Jobs |-> 0]
  /\ delivery = [j \in Jobs |-> "NONE"]
  /\ cleanup  = [j \in Jobs |-> FALSE]
  /\ open     = Updates
  /\ claimed  = [w \in Workers |-> [j \in Jobs |-> 0]]
  /\ cur      = [w \in Workers |-> NoJob]
  /\ pc       = [w \in Workers |-> "idle"]
  /\ clear    = [w \in Workers |-> FALSE]
  /\ faults   = 0

-----------------------------------------------------------------------------
(* Rows, leases and retention *)

Kind(j) == KindOf[UpdateOf[j]]

Present(j) == status[j] \notin {"NONE", "PURGED"}
Held(j)    == \E w \in Workers : claimed[w][j] > 0
Holds(w)   == {j \in Jobs : claimed[w][j] > 0}

(* Rows a retention delete may find past its window.  Windows are days and *)
(* leases are seconds: nobody holds such a row and Telegram has long       *)
(* stopped delivering its update.                                          *)
Purgeable(final) ==
  {j \in Jobs : status[j] \in final /\ ~Held(j) /\ UpdateOf[j] \notin open}

(* Deliveries past their window are deleted whether or not their job is,   *)
(* and deleting a job cascades to them; the operation row stays.           *)
PurgeableDeliveries == {j \in Jobs : ~Held(j) /\ UpdateOf[j] \notin open}

Purge(answers, keyboards) ==
  /\ delivery' = [j \in Jobs |-> IF j \in answers /\ delivery[j] # "NONE" THEN "PURGED"
                                 ELSE delivery[j]]
  /\ cleanup'  = [j \in Jobs |-> IF j \in keyboards THEN FALSE ELSE cleanup[j]]

(* The webhook: insert a row, unique on the update, and in the same        *)
(* transaction delete old succeeded rows.  A duplicate rolls back and      *)
(* changes nothing.                                                        *)
Accept(j) ==
  /\ UpdateOf[j] \in open
  /\ status[j] = "NONE"
  /\ \A k \in Jobs : UpdateOf[k] = UpdateOf[j] => ~Present(k)
  /\ \E S \in SUBSET Purgeable({"SUCCEEDED"}) :
       /\ status' = [k \in Jobs |-> IF k = j THEN "PENDING"
                                    ELSE IF k \in S THEN "PURGED" ELSE status[k]]
       /\ Purge(S, S)
  /\ UNCHANGED <<attempt, live, bound, op, execs, open, workerVars, faults>>

(* Telegram got its 200 (an accepted update, or an error the webhook       *)
(* swallowed), or gave up: it will not deliver this update again.          *)
TelegramStops(u) ==
  /\ u \in open
  /\ open' = open \ {u}
  /\ UNCHANGED <<jobVars, effectVars, workerVars, faults>>

(* A lease runs out.  Under a worker that is merely slow this counts as a  *)
(* fault; after a crash it always comes.                                   *)
LeaseExpires(j) ==
  /\ status[j] = "PROCESSING"
  /\ live[j]
  /\ Held(j) => faults < MaxFaults
  /\ live'   = [live EXCEPT ![j] = FALSE]
  /\ faults' = IF Held(j) THEN faults + 1 ELSE faults
  /\ UNCHANGED <<status, attempt, bound, effectVars, open, workerVars>>

ClaimableFreshOnly(j) == status[j] = "PENDING"   \* mutant: no lease recovery

Claimable(j) ==
  \/ status[j] = "PENDING"
  \/ status[j] = "PROCESSING" /\ ~live[j]

(* Rows another transaction holds are skipped, so the batch may be any     *)
(* claimable rows up to its size.                                          *)
ClaimInboundJobs(w) ==
  /\ pc[w] = "idle"
  /\ Holds(w) = {}
  /\ \E S \in SUBSET {j \in Jobs : Claimable(j)} :
       /\ S # {}
       /\ Cardinality(S) <= BatchSize
       /\ status'  = [j \in Jobs |-> IF j \in S THEN "PROCESSING" ELSE status[j]]
       /\ live'    = [j \in Jobs |-> IF j \in S THEN TRUE ELSE live[j]]
       /\ attempt' = [j \in Jobs |-> IF j \in S THEN attempt[j] + 1 ELSE attempt[j]]
       /\ claimed' = [claimed EXCEPT ![w] =
                        [j \in Jobs |-> IF j \in S THEN attempt[j] + 1 ELSE 0]]
  /\ UNCHANGED <<bound, effectVars, open, cur, pc, clear, faults>>

-----------------------------------------------------------------------------
(* processJob, one committed step at a time *)

Goto(w, step) == pc' = [pc EXCEPT ![w] = step]

(* Does the job bypass the Assistant?  "linked" says whether the sender has *)
(* an ACTIVE connection.                                                    *)
AnswersDirectly(j, linked) ==
  \/ Kind(j) = "COMMAND"
  \/ ~RuntimeConfigured
  \/ Kind(j) = "TEXT" /\ ~linked

(* Parse, run a command, look up the connection and choose the path.       *)
(* Commands and the web may link and unlink the sender at any time, so two *)
(* attempts of one job may find different answers.                         *)
StartJob(w) ==
  /\ pc[w] = "idle"
  /\ \E j \in Holds(w), linked \in BOOLEAN :
       /\ cur' = [cur EXCEPT ![w] = j]
       /\ Goto(w, IF AnswersDirectly(j, linked) THEN "direct" ELSE "begin")
  /\ UNCHANGED <<jobVars, effectVars, open, claimed, clear, faults>>

AfterReply(j) == IF Kind(j) = "TEXT" THEN "bind" ELSE "reply"

(* Mutants of the guard's verdict. *)
VerdictStartedIsNew(j) == IF op[j] = "DONE" THEN AfterReply(j) ELSE "call"
VerdictStartedIsDone(j) == IF op[j] = "NONE" THEN "call" ELSE AfterReply(j)
VerdictDoneIsAnswered(j) ==
  CASE op[j] = "NONE" -> "call" [] op[j] = "STARTED" -> "ambiguous" [] OTHER -> "finish"

(* What the insert of the operation row finds: nothing, a row without a    *)
(* result, or a result to replay.                                          *)
Verdict(j) ==
  CASE op[j] = "NONE"    -> "call"
    [] op[j] = "STARTED" -> "ambiguous"
    [] op[j] = "DONE"    -> AfterReply(j)

(* beginAssistantOperation, beginCallbackOperation *)
BeginOperation(w) ==
  /\ pc[w] = "begin"
  /\ op' = [op EXCEPT ![cur[w]] = IF @ = "NONE" THEN "STARTED" ELSE @]
  /\ Goto(w, Verdict(cur[w]))
  /\ UNCHANGED <<jobVars, execs, delivery, cleanup, open, claimed, cur, clear, faults>>

(* sendMessage or processCallback returns; only a callback may ask for its *)
(* keyboard to be removed.                                                 *)
OperationReturns(w) ==
  /\ pc[w] = "call"
  /\ execs' = [execs EXCEPT ![cur[w]] = @ + 1]
  /\ \E c \in (IF Kind(cur[w]) = "CALLBACK" THEN BOOLEAN ELSE {FALSE}) :
       clear' = [clear EXCEPT ![w] = c]
  /\ Goto(w, "complete")
  /\ UNCHANGED <<jobVars, op, delivery, cleanup, open, claimed, cur, faults>>

(* It throws, having done any part of its work; the category decides       *)
(* whether the failure counts as retryable.                                *)
OperationThrows(w) ==
  /\ pc[w] = "call"
  /\ execs' = [execs EXCEPT ![cur[w]] = @ + 1]
  /\ \E step \in {"failRetry", "failFinal"} : Goto(w, step)
  /\ UNCHANGED <<jobVars, op, delivery, cleanup, open, claimed, cur, clear, faults>>

CompleteOperation(w) ==
  /\ pc[w] = "complete"
  /\ op' = [op EXCEPT ![cur[w]] = "DONE"]
  /\ Goto(w, AfterReply(cur[w]))
  /\ UNCHANGED <<jobVars, execs, delivery, cleanup, open, claimed, cur, clear, faults>>

BindTurn(w) ==
  /\ pc[w] = "bind"
  /\ bound' = [bound EXCEPT ![cur[w]] = TRUE]
  /\ Goto(w, "reply")
  /\ UNCHANGED <<status, attempt, live, effectVars, open, claimed, cur, clear, faults>>

QueuedLatest(old, text) == text   \* mutant: an upsert that updates

(* ensureOutboundDelivery: a second insert for the job is a no-op while    *)
(* the first row is there.                                                 *)
Queued(old, text) == IF old \in {"NONE", "PURGED"} THEN text ELSE old

EnsureDelivery(w) ==
  /\ pc[w] \in {"direct", "reply"}
  /\ delivery' = [delivery EXCEPT ![cur[w]] =
                    Queued(@, IF pc[w] = "direct" THEN "DIRECT" ELSE "REPLY")]
  /\ Goto(w, IF clear[w] THEN "cleanup" ELSE "finish")
  /\ UNCHANGED <<jobVars, op, execs, cleanup, open, claimed, cur, clear, faults>>

EnsureKeyboardCleanup(w) ==
  /\ pc[w] = "cleanup"
  /\ cleanup' = [cleanup EXCEPT ![cur[w]] = TRUE]
  /\ Goto(w, "finish")
  /\ UNCHANGED <<jobVars, op, execs, delivery, open, claimed, cur, clear, faults>>

OutcomeBackoff(retryable, n) == IF retryable THEN "RETRYING" ELSE "FAILED_TERMINAL"  \* mutant

(* decideRetry, with the attempt number of the worker's own snapshot. *)
Outcome(retryable, n) ==
  IF retryable /\ n < MaxAttempts THEN "FAILED_RETRYABLE" ELSE "FAILED_TERMINAL"

(* markSucceeded, markFailed and the two ambiguous exits: an update by id  *)
(* alone, then the next job of the batch, or the retention sweep.          *)
LeaveJob(w, final) ==
  LET j == cur[w] IN
    /\ status'  = [status EXCEPT ![j] = final]
    /\ live'    = [live EXCEPT ![j] = FALSE]
    /\ claimed' = [claimed EXCEPT ![w][j] = 0]
    /\ cur'     = [cur EXCEPT ![w] = NoJob]
    /\ clear'   = [clear EXCEPT ![w] = FALSE]
    /\ Goto(w, IF Holds(w) = {j} THEN "sweep" ELSE "idle")
    /\ UNCHANGED <<attempt, bound, effectVars, open, faults>>

MarkSucceeded(w) == pc[w] = "finish" /\ LeaveJob(w, "SUCCEEDED")

MarkAmbiguous(w) == pc[w] = "ambiguous" /\ LeaveJob(w, "FAILED_TERMINAL")

MarkFailed(w) ==
  /\ pc[w] \in {"failRetry", "failFinal"}
  /\ LeaveJob(w, Outcome(pc[w] = "failRetry", claimed[w][cur[w]]))

(* cleanupChannelRecords after a batch: old deliveries, then old jobs. *)
CleanupChannelRecords(w) ==
  /\ pc[w] = "sweep"
  /\ \E S \in SUBSET Purgeable({"SUCCEEDED", "FAILED_TERMINAL"}),
        answers \in SUBSET PurgeableDeliveries, keyboards \in SUBSET PurgeableDeliveries :
       /\ status' = [j \in Jobs |-> IF j \in S THEN "PURGED" ELSE status[j]]
       /\ Purge(S \cup answers, S \cup keyboards)
  /\ Goto(w, "idle")
  /\ UNCHANGED <<attempt, live, bound, op, execs, open, claimed, cur, clear, faults>>

-----------------------------------------------------------------------------
(* Faults *)

Writing == {"direct", "begin", "complete", "bind", "reply", "cleanup",
            "finish", "ambiguous"}

(* A statement of processJob fails: categorizeError says "database", which *)
(* is retryable, and the catch block goes on to markFailed.                *)
DatabaseError(w) ==
  /\ faults < MaxFaults
  /\ pc[w] \in Writing
  /\ Goto(w, "failRetry")
  /\ faults' = faults + 1
  /\ UNCHANGED <<jobVars, effectVars, open, claimed, cur, clear>>

(* The process dies and restarts, or markFailed throws out of pollOnce:    *)
(* what the worker held in memory is gone, its rows wait for their leases. *)
Crash(w) ==
  /\ faults < MaxFaults
  /\ Holds(w) # {}
  /\ claimed' = [claimed EXCEPT ![w] = [j \in Jobs |-> 0]]
  /\ cur'     = [cur EXCEPT ![w] = NoJob]
  /\ clear'   = [clear EXCEPT ![w] = FALSE]
  /\ Goto(w, "idle")
  /\ faults'  = faults + 1
  /\ UNCHANGED <<jobVars, effectVars, open>>

WorkerStep(w) ==
  \/ ClaimInboundJobs(w)
  \/ StartJob(w)
  \/ BeginOperation(w)
  \/ OperationReturns(w)
  \/ OperationThrows(w)
  \/ CompleteOperation(w)
  \/ BindTurn(w)
  \/ EnsureDelivery(w)
  \/ EnsureKeyboardCleanup(w)
  \/ MarkSucceeded(w)
  \/ MarkAmbiguous(w)
  \/ MarkFailed(w)
  \/ CleanupChannelRecords(w)

Next ==
  \/ \E j \in Jobs : Accept(j) \/ LeaseExpires(j)
  \/ \E u \in Updates : TelegramStops(u)
  \/ \E w \in Workers : WorkerStep(w) \/ DatabaseError(w) \/ Crash(w)

Spec == Init /\ [][Next]_vars

(* runWorkerLoop polls for ever and every step of processJob ends; time    *)
(* passes, so a lease that nobody gives back expires.                      *)
Fairness ==
  /\ \A w \in Workers : WF_vars(WorkerStep(w))
  /\ \A j \in Jobs : WF_vars(LeaseExpires(j))

FairSpec == Spec /\ Fairness

-----------------------------------------------------------------------------
(* Properties *)

(* The variables hold the values the columns and the workers can hold. *)
TypeOK ==
  /\ status   \in [Jobs -> JobStatus]
  /\ attempt  \in [Jobs -> Nat]
  /\ live     \in [Jobs -> BOOLEAN]
  /\ bound    \in [Jobs -> BOOLEAN]
  /\ op       \in [Jobs -> OpStatus]
  /\ execs    \in [Jobs -> Nat]
  /\ delivery \in [Jobs -> Answer]
  /\ cleanup  \in [Jobs -> BOOLEAN]
  /\ open     \in SUBSET Updates
  /\ claimed  \in [Workers -> [Jobs -> Nat]]
  /\ cur      \in [Workers -> Jobs \cup {NoJob}]
  /\ pc       \in [Workers -> Step]
  /\ clear    \in [Workers -> BOOLEAN]
  /\ faults   \in 0..MaxFaults

(* One Telegram update runs the Assistant (or the button's action) at most *)
(* once, however often it is redelivered, its job reclaimed after a crash  *)
(* or an expired lease, or its row purged (telegram.service.ts:23,         *)
(* assistantOperationGuard.ts:13).                                         *)
OncePerUpdate ==
  /\ \A j \in Jobs : execs[j] <= 1
  /\ \A j, k \in Jobs :
       UpdateOf[j] = UpdateOf[k] /\ execs[j] > 0 /\ execs[k] > 0 => j = k

(* A queued Assistant reply comes from a finished execution of that very   *)
(* job and its turn can be found from the job; a keyboard is removed only  *)
(* for a job whose result is queued (inbound.worker.ts:173, :299).         *)
ReplyFollowsExecution ==
  \A j \in Jobs :
    /\ delivery[j] = "REPLY" =>
         op[j] = "DONE" /\ execs[j] = 1 /\ (Kind(j) = "TEXT" => bound[j])
    /\ cleanup[j] => delivery[j] \in {"REPLY", "PURGED"}

(* No job counts as done before the sender's answer is durably queued,     *)
(* whichever attempt, late or reclaimed, marks it (inbound.worker.ts:302). *)
SucceededIsAnswered ==
  \A j \in Jobs : status[j] = "SUCCEEDED" => delivery[j] # "NONE"

(* The first answer queued for a job is the only one: no later attempt     *)
(* replaces it or queues another (ensureOutboundDelivery), until retention *)
(* deletes it.                                                             *)
AnswerIsFinal ==
  [][\A j \in Jobs : delivery[j] \in {"DIRECT", "REPLY"} =>
       delivery'[j] \in {delivery[j], "PURGED"}]_vars

(* An operation whose starter is gone is never run again and never gets a  *)
(* result: the later attempts fail safe (assistantOperationGuard.ts:6).    *)
Abandoned(j) ==
  /\ op[j] = "STARTED"
  /\ \A w \in Workers : cur[w] = j => pc[w] \notin {"call", "complete"}

AbandonedStaysAbandoned ==
  [][\A j \in Jobs : Abandoned(j) => Abandoned(j)' /\ execs'[j] = execs[j]]_vars

(* Every accepted job settles although workers crash and leases expire:    *)
(* none stays pending, or processing with nobody working on it.            *)
AcceptedJobSettles ==
  \A j \in Jobs : status[j] = "PENDING" ~> status[j] \in Settled

(* What a client of the inbox sees of an update: the rows it has had,      *)
(* taken together.  A retryable failure is never retried.                  *)
RowsOf(u) == {j \in Jobs : UpdateOf[j] = u}

StageOf(rows) ==
  IF \A j \in rows : status[j] = "NONE" THEN "new"
  ELSE IF \E j \in rows : status[j] \in {"PENDING", "PROCESSING"} THEN "taken"
  ELSE IF \E j \in rows : status[j] = "SUCCEEDED" THEN "done"
  ELSE IF \E j \in rows : status[j] \in {"FAILED_RETRYABLE", "FAILED_TERMINAL"} THEN "failed"
  ELSE "forgotten"

AnswerOf(rows) ==
  IF \A j \in rows : delivery[j] = "NONE" THEN "none"
  ELSE IF \E j \in rows : delivery[j] = "REPLY" THEN "reply"
  ELSE IF \E j \in rows : delivery[j] = "DIRECT" THEN "direct"
  ELSE "forgotten"

LifeOf(rows) ==
  [stage  |-> StageOf(rows),
   began  |-> \E j \in rows : op[j] # "NONE",
   ran    |-> IF \A j \in rows : execs[j] = 0 THEN 0
              ELSE CHOOSE n \in {execs[j] : j \in rows} : n > 0,
   result |-> \E j \in rows : op[j] = "DONE",
   answer |-> AnswerOf(rows)]

Promise == INSTANCE InboxPromise WITH life <- [u \in Updates |-> LifeOf(RowsOf(u))]

(* The inbox keeps its promise for every update: taken once, executed once *)
(* at most, replied to with the recorded result only, done when answered   *)
(* (telegram.service.ts:23, assistantOperationGuard.ts:13).                *)
PromiseKept == Promise!Spec

=============================================================================
