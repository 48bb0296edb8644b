-------------------------- MODULE ChannelOutbound --------------------------
(***************************************************************************)
(* The durable outbox of the Telegram channel: outbound workers of any     *)
(* number of server processes claim channel_outbound_deliveries rows under *)
(* a lease, call the Telegram API and record the outcome by row id alone.  *)
(* An operator may requeue a delivery that failed for good.                *)
(*                                                                         *)
(* Telegram and the row are two systems: a message may be shown to the     *)
(* user although its row does not say so.  "shown" counts what the user    *)
(* sees, "mishaps" what the environment did to the delivery.               *)
(***************************************************************************)
EXTENDS Naturals, FiniteSets

CONSTANTS
  Deliveries,   \* channel_outbound_deliveries rows
  Workers,      \* outbound workers, one per server process
  BatchSize,    \* CHANNEL_WORKER_BATCH_SIZE
  MaxAttempts,  \* maxAttemptsOutbound
  MaxMishaps,   \* bound: mishaps of one delivery
  MaxRequeues,  \* bound: operator requeues in one behaviour
  NoDelivery    \* "no delivery in hand"

ASSUME ConstantsAssumption ==
  /\ BatchSize \in Nat \ {0}
  /\ MaxAttempts \in Nat \ {0}
  /\ MaxMishaps \in Nat
  /\ MaxRequeues \in Nat
  /\ NoDelivery \notin Deliveries

VARIABLES
  status,    \* status of each row; "NONE" before the insert, "PURGED" after the delete
  attempt,   \* attempt column
  live,      \* is lease_expires_at still in the future?
  shown,     \* history: how many times Telegram carried the delivery out
  mishaps,   \* history: crashes, outlived leases and lost answers that hit the delivery
  claimed,   \* claimed[w][d]: attempt in w's snapshot of d, 0 when w does not hold d
  cur,       \* the delivery a worker is processing
  pc,        \* where a worker is: what Telegram answered, once it has
  requeues   \* operator requeues so far

rowVars    == <<status, attempt, live>>
workerVars == <<claimed, cur, pc>>
vars == <<status, attempt, live, shown, mishaps, claimed, cur, pc, requeues>>

DeliveryStatus == {"NONE", "PENDING", "SENDING", "SENT",
                   "FAILED_RETRYABLE", "FAILED_TERMINAL", "PURGED"}
Answered == {"ok", "retryable", "refused"}
Step     == {"idle", "send", "sweep"} \cup Answered
Settled  == {"SENT", "FAILED_RETRYABLE", "FAILED_TERMINAL"}

Init ==
  /\ status   = [d \in Deliveries |-> "NONE"]
  /\ attempt  = [d \in Deliveries |-> 0]
  /\ live     = [d \in Deliveries |-> FALSE]
  /\ shown    = [d \in Deliveries |-> 0]
  /\ mishaps  = [d \in Deliveries |-> 0]
  /\ claimed  = [w \in Workers |-> [d \in Deliveries |-> 0]]
  /\ cur      = [w \in Workers |-> NoDelivery]
  /\ pc       = [w \in Workers |-> "idle"]
  /\ requeues = 0

Holds(w) == {d \in Deliveries : claimed[w][d] > 0}
Held(d)  == \E w \in Workers : claimed[w][d] > 0

Goto(w, step) == pc' = [pc EXCEPT ![w] = step]

-----------------------------------------------------------------------------
(* Rows *)

(* The inbound worker queues an answer or a keyboard removal. *)
Enqueue(d) ==
  /\ status[d] = "NONE"
  /\ status' = [status EXCEPT ![d] = "PENDING"]
  /\ UNCHANGED <<attempt, live, shown, mishaps, workerVars, requeues>>

(* A lease runs out: a mishap when its holder is merely slow (a batch is   *)
(* sent one by one and may wait out rate limits), inevitable when no       *)
(* worker is left.                                                         *)
LeaseExpires(d) ==
  /\ status[d] = "SENDING"
  /\ live[d]
  /\ Held(d) => mishaps[d] < MaxMishaps
  /\ live'    = [live EXCEPT ![d] = FALSE]
  /\ mishaps' = IF Held(d) THEN [mishaps EXCEPT ![d] = @ + 1] ELSE mishaps
  /\ UNCHANGED <<status, attempt, shown, workerVars, requeues>>

(* Mutants of the claim predicate. *)
ClaimableFreshOnly(d) == status[d] = "PENDING"
ClaimableAnyLease(d) == status[d] \in {"PENDING", "SENDING"}

Claimable(d) ==
  \/ status[d] = "PENDING"
  \/ status[d] = "SENDING" /\ ~live[d]

(* Rows locked by another claim are skipped: any claimable rows, up to the *)
(* batch size.                                                             *)
ClaimOutboundDeliveries(w) ==
  /\ pc[w] = "idle"
  /\ Holds(w) = {}
  /\ \E S \in SUBSET {d \in Deliveries : Claimable(d)} :
       /\ S # {}
       /\ Cardinality(S) <= BatchSize
       /\ status'  = [d \in Deliveries |-> IF d \in S THEN "SENDING" ELSE status[d]]
       /\ live'    = [d \in Deliveries |-> IF d \in S THEN TRUE ELSE live[d]]
       /\ attempt' = [d \in Deliveries |-> IF d \in S THEN attempt[d] + 1 ELSE attempt[d]]
       /\ claimed' = [claimed EXCEPT ![w] =
                        [d \in Deliveries |-> IF d \in S THEN attempt[d] + 1 ELSE 0]]
  /\ UNCHANGED <<shown, mishaps, cur, pc, requeues>>

CanRequeueSettled(d) == status[d] \in Settled   \* mutant

CanRequeueOutbound(d) == status[d] = "FAILED_TERMINAL"

(* opsRemediate requeue-outbound --apply: a conditional update. *)
RequeueOutbound(d) ==
  /\ requeues < MaxRequeues
  /\ CanRequeueOutbound(d)
  /\ status'   = [status EXCEPT ![d] = "PENDING"]
  /\ attempt'  = [attempt EXCEPT ![d] = 0]
  /\ live'     = [live EXCEPT ![d] = FALSE]
  /\ requeues' = requeues + 1
  /\ UNCHANGED <<shown, mishaps, workerVars>>

(* Retention deletes these rows days after their last write, when nobody   *)
(* holds them; it runs after a batch.                                      *)
Purgeable == {d \in Deliveries : status[d] \in {"SENT", "FAILED_TERMINAL"} /\ ~Held(d)}

CleanupChannelRecords(w) ==
  /\ pc[w] = "sweep"
  /\ \E S \in SUBSET Purgeable :
       status' = [d \in Deliveries |-> IF d \in S THEN "PURGED" ELSE status[d]]
  /\ Goto(w, "idle")
  /\ UNCHANGED <<attempt, live, shown, mishaps, claimed, cur, requeues>>

(* Retention also deletes settled inbound jobs, and that cascades to their *)
(* deliveries, whatever state those are in.                                *)
JobPurged(d) ==
  /\ status[d] \notin {"NONE", "PURGED"}
  /\ ~Held(d)
  /\ status' = [status EXCEPT ![d] = "PURGED"]
  /\ UNCHANGED <<attempt, live, shown, mishaps, workerVars, requeues>>

-----------------------------------------------------------------------------
(* processDelivery *)

StartDelivery(w) ==
  /\ pc[w] = "idle"
  /\ \E d \in Holds(w) : cur' = [cur EXCEPT ![w] = d]
  /\ Goto(w, "send")
  /\ UNCHANGED <<rowVars, shown, mishaps, claimed, requeues>>

(* The API call ends: carried out, refused for good (4xx), or not now (the *)
(* second 429, a 5xx, no connection).                                      *)
TelegramAccepts(w) ==
  /\ pc[w] = "send"
  /\ shown' = [shown EXCEPT ![cur[w]] = @ + 1]
  /\ Goto(w, "ok")
  /\ UNCHANGED <<rowVars, mishaps, claimed, cur, requeues>>

TelegramFails(w) ==
  /\ pc[w] = "send"
  /\ \E answer \in {"retryable", "refused"} : Goto(w, answer)
  /\ UNCHANGED <<rowVars, shown, mishaps, claimed, cur, requeues>>

(* Carried out, but the answer is lost on the way (fetch throws, a 5xx of  *)
(* a gateway): the client reports provider_unavailable.                    *)
AnswerLost(w) ==
  /\ pc[w] = "send"
  /\ mishaps[cur[w]] < MaxMishaps
  /\ shown'   = [shown EXCEPT ![cur[w]] = @ + 1]
  /\ mishaps' = [mishaps EXCEPT ![cur[w]] = @ + 1]
  /\ Goto(w, "retryable")
  /\ UNCHANGED <<rowVars, claimed, cur, requeues>>

(* Mutants of the outcome. *)
OutcomeGivesUpAsSent(w) ==
  CASE pc[w] = "ok"        -> "SENT"
    [] pc[w] = "refused"   -> "FAILED_TERMINAL"
    [] pc[w] = "retryable" -> IF claimed[w][cur[w]] >= MaxAttempts
                              THEN "SENT" ELSE "FAILED_RETRYABLE"
OutcomeDelivered(w) == IF pc[w] = "ok" THEN "DELIVERED" ELSE "FAILED_TERMINAL"

(* decideRetry, with the attempt number of the worker's own snapshot. *)
Outcome(w) ==
  CASE pc[w] = "ok"        -> "SENT"
    [] pc[w] = "refused"   -> "FAILED_TERMINAL"
    [] pc[w] = "retryable" -> IF claimed[w][cur[w]] >= MaxAttempts
                              THEN "FAILED_TERMINAL" ELSE "FAILED_RETRYABLE"

(* The outcome is written by id, whoever owns the row by now. *)
RecordOutcome(w) ==
  /\ pc[w] \in Answered
  /\ LET d == cur[w] IN
       /\ status'  = [status EXCEPT ![d] = Outcome(w)]
       /\ live'    = [live EXCEPT ![d] = FALSE]
       /\ claimed' = [claimed EXCEPT ![w][d] = 0]
       /\ Goto(w, IF Holds(w) = {d} THEN "sweep" ELSE "idle")
  /\ cur' = [cur EXCEPT ![w] = NoDelivery]
  /\ UNCHANGED <<attempt, shown, mishaps, requeues>>

(* The process dies and restarts, or recording throws out of pollOnce: the *)
(* rest of the batch is dropped and waits for its leases.                  *)
Crash(w) ==
  /\ Holds(w) # {}
  /\ \A d \in Holds(w) : mishaps[d] < MaxMishaps
  /\ mishaps' = [d \in Deliveries |-> IF d \in Holds(w) THEN mishaps[d] + 1 ELSE mishaps[d]]
  /\ claimed' = [claimed EXCEPT ![w] = [d \in Deliveries |-> 0]]
  /\ cur'     = [cur EXCEPT ![w] = NoDelivery]
  /\ Goto(w, "idle")
  /\ UNCHANGED <<rowVars, shown, requeues>>

WorkerStep(w) ==
  \/ ClaimOutboundDeliveries(w)
  \/ StartDelivery(w)
  \/ TelegramAccepts(w)
  \/ TelegramFails(w)
  \/ AnswerLost(w)
  \/ RecordOutcome(w)
  \/ CleanupChannelRecords(w)

Next ==
  \/ \E d \in Deliveries :
       Enqueue(d) \/ LeaseExpires(d) \/ RequeueOutbound(d) \/ JobPurged(d)
  \/ \E w \in Workers : WorkerStep(w) \/ Crash(w)

Spec == Init /\ [][Next]_vars

(* Workers poll for ever and every call ends (a client timeout or an       *)
(* answer); an abandoned lease expires with time.  An operator is owed     *)
(* nothing.                                                                *)
Fairness ==
  /\ \A w \in Workers : WF_vars(WorkerStep(w))
  /\ \A d \in Deliveries : WF_vars(LeaseExpires(d))

FairSpec == Spec /\ Fairness

-----------------------------------------------------------------------------
(* Properties *)

(* The variables hold the values the columns and the workers can hold. *)
TypeOK ==
  /\ status   \in [Deliveries -> DeliveryStatus]
  /\ attempt  \in [Deliveries -> Nat]
  /\ live     \in [Deliveries -> BOOLEAN]
  /\ shown    \in [Deliveries -> Nat]
  /\ mishaps  \in [Deliveries -> 0..MaxMishaps]
  /\ claimed  \in [Workers -> [Deliveries -> Nat]]
  /\ cur      \in [Workers -> Deliveries \cup {NoDelivery}]
  /\ pc       \in [Workers -> Step]
  /\ requeues \in 0..MaxRequeues

(* A delivery recorded as SENT did reach the user, whichever of several    *)
(* attempts recorded it (outbound.worker.ts:28).                           *)
SentMeansShown == \A d \in Deliveries : status[d] = "SENT" => shown[d] > 0

(* A message is shown once; every further copy is paid for by a crash of   *)
(* its holder, a lease its holder outlived or an answer that was lost.     *)
(* Neither another worker, the retry decision nor an operator's requeue    *)
(* duplicates a message by itself (claim.ts:35, opsRemediation.ts:60).     *)
EveryCopyHasACause == \A d \in Deliveries : shown[d] <= 1 + mishaps[d]

(* A delivery that is SENT and in nobody's hands stays so and is not shown *)
(* again; only a retention delete may follow.                              *)
SentStaysSent ==
  [][\A d \in Deliveries : status[d] = "SENT" /\ ~Held(d) =>
       status'[d] \in {"SENT", "PURGED"} /\ shown'[d] = shown[d]]_vars

(* Every queued delivery settles although workers crash and leases expire, *)
(* unless its job is purged first.                                         *)
QueuedDeliverySettles ==
  \A d \in Deliveries : status[d] = "PENDING" ~> status[d] \in Settled \cup {"PURGED"}

(* test/assistant/delivery-status.test.ts:16: "FAILED_RETRYABLE means the  *)
(* outbound worker will attempt again".                                    *)
RetryIsAttempted ==
  \A d \in Deliveries : status[d] = "FAILED_RETRYABLE" ~> status[d] # "FAILED_RETRYABLE"

(* channels/retention.ts:8: "Only ever deletes SUCCEEDED/terminal rows past *)
(* their window; PENDING/PROCESSING/leased rows are never touched": a      *)
(* delivery that neither reached the user nor was given up is not deleted. *)
RetentionSparesUnsent ==
  [][\A d \in Deliveries :
       status[d] \notin {"SENT", "FAILED_TERMINAL", "PURGED"} => status'[d] # "PURGED"]_vars

=============================================================================
