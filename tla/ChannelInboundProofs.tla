------------------------ MODULE ChannelInboundProofs ------------------------
(***************************************************************************)
(* Proofs about ChannelInbound, for any number of rows, updates, workers,  *)
(* faults, any batch size and any attempt limit.                           *)
(***************************************************************************)
EXTENDS ChannelInbound, TLAPS

(* A worker past the start of a job has the job and its row in hand. *)
InHand ==
  \A w \in Workers : pc[w] \notin {"idle", "sweep"} =>
    cur[w] \in Jobs /\ claimed[w][cur[w]] > 0

TypeInv == TypeOK /\ InHand

LEMMA TypeInvInit == Init => TypeInv
  BY ConstantsAssumption
  DEF Init, TypeInv, TypeOK, InHand, JobStatus, OpStatus, Answer, Step

(* Leaving a job gives up that row only and returns to a resting place. *)
LEMMA LeaveJobKeepsType ==
  ASSUME TypeInv, NEW w \in Workers, NEW final \in JobStatus,
         pc[w] \notin {"idle", "sweep"}, LeaveJob(w, final)
  PROVE  TypeInv'
<1> USE DEF TypeInv, TypeOK, InHand
<1>1. PICK step \in {"idle", "sweep"} : Goto(w, step)
  BY DEF LeaveJob
<1>2. /\ status'  = [status EXCEPT ![cur[w]] = final]
      /\ live'    = [live EXCEPT ![cur[w]] = FALSE]
      /\ claimed' = [claimed EXCEPT ![w][cur[w]] = 0]
      /\ cur'     = [cur EXCEPT ![w] = NoJob]
      /\ clear'   = [clear EXCEPT ![w] = FALSE]
      /\ UNCHANGED <<attempt, bound, effectVars, open, faults>>
  BY DEF LeaveJob
<1>3. TypeOK'
  BY <1>1, <1>2 DEF Goto, Step, effectVars
<1>4. InHand'
  BY <1>1, <1>2 DEF Goto
<1>5. QED
  BY <1>3, <1>4

LEMMA TypeInvNext == TypeInv /\ [Next]_vars => TypeInv'
<1> SUFFICES ASSUME TypeInv, [Next]_vars PROVE TypeInv'
  OBVIOUS
<1> USE ConstantsAssumption
    DEF TypeInv, TypeOK, InHand, JobStatus, OpStatus, Answer, Step,
        jobVars, effectVars, workerVars
<1>1. ASSUME NEW j \in Jobs, Accept(j) PROVE TypeInv'
  <2>1. PICK S \in SUBSET Jobs :
          /\ status' = [k \in Jobs |-> IF k = j THEN "PENDING"
                                       ELSE IF k \in S THEN "PURGED" ELSE status[k]]
          /\ Purge(S, S)
    BY <1>1 DEF Accept, Purgeable
  <2>2. status' \in [Jobs -> JobStatus]
    BY <2>1
  <2>3. delivery' \in [Jobs -> Answer] /\ cleanup' \in [Jobs -> BOOLEAN]
    BY <2>1 DEF Purge
  <2>4. QED
    BY <1>1, <2>2, <2>3 DEF Accept
<1>2. ASSUME NEW j \in Jobs, LeaseExpires(j) PROVE TypeInv'
  BY <1>2 DEF LeaseExpires
<1>3. ASSUME NEW u \in Updates, TelegramStops(u) PROVE TypeInv'
  BY <1>3 DEF TelegramStops
<1>4. ASSUME NEW w \in Workers, ClaimInboundJobs(w) PROVE TypeInv'
  <2>1. PICK S \in SUBSET Jobs :
          /\ status'  = [j \in Jobs |-> IF j \in S THEN "PROCESSING" ELSE status[j]]
          /\ live'    = [j \in Jobs |-> IF j \in S THEN TRUE ELSE live[j]]
          /\ attempt' = [j \in Jobs |-> IF j \in S THEN attempt[j] + 1 ELSE attempt[j]]
          /\ claimed' = [claimed EXCEPT ![w] =
                           [j \in Jobs |-> IF j \in S THEN attempt[j] + 1 ELSE 0]]
    BY <1>4 DEF ClaimInboundJobs
  <2>2. status' \in [Jobs -> JobStatus] /\ live' \in [Jobs -> BOOLEAN]
    BY <2>1
  <2>3. attempt' \in [Jobs -> Nat] /\ claimed' \in [Workers -> [Jobs -> Nat]]
    BY <2>1
  <2>4. InHand'
    BY <1>4, <2>1 DEF ClaimInboundJobs
  <2>5. QED
    BY <1>4, <2>2, <2>3, <2>4 DEF ClaimInboundJobs
<1>5. ASSUME NEW w \in Workers, StartJob(w) PROVE TypeInv'
  BY <1>5 DEF StartJob, Holds, Goto
<1>6. ASSUME NEW w \in Workers, BeginOperation(w) PROVE TypeInv'
  BY <1>6 DEF BeginOperation, Verdict, AfterReply, Goto
<1>7. ASSUME NEW w \in Workers, OperationReturns(w) PROVE TypeInv'
  <2>1. PICK c \in BOOLEAN : clear' = [clear EXCEPT ![w] = c]
    BY <1>7 DEF OperationReturns
  <2>2. QED
    BY <1>7, <2>1 DEF OperationReturns, Goto
<1>8. ASSUME NEW w \in Workers, OperationThrows(w) PROVE TypeInv'
  BY <1>8 DEF OperationThrows, Goto
<1>9. ASSUME NEW w \in Workers, CompleteOperation(w) PROVE TypeInv'
  BY <1>9 DEF CompleteOperation, AfterReply, Goto
<1>10. ASSUME NEW w \in Workers, BindTurn(w) PROVE TypeInv'
  BY <1>10 DEF BindTurn, Goto
<1>11. ASSUME NEW w \in Workers, EnsureDelivery(w) PROVE TypeInv'
  BY <1>11 DEF EnsureDelivery, Queued, Goto
<1>12. ASSUME NEW w \in Workers, EnsureKeyboardCleanup(w) PROVE TypeInv'
  BY <1>12 DEF EnsureKeyboardCleanup, Goto
<1>13. ASSUME NEW w \in Workers, MarkSucceeded(w) PROVE TypeInv'
  BY <1>13, LeaveJobKeepsType DEF MarkSucceeded
<1>14. ASSUME NEW w \in Workers, MarkAmbiguous(w) PROVE TypeInv'
  BY <1>14, LeaveJobKeepsType DEF MarkAmbiguous
<1>15. ASSUME NEW w \in Workers, MarkFailed(w) PROVE TypeInv'
  BY <1>15, LeaveJobKeepsType DEF MarkFailed, Outcome
<1>16. ASSUME NEW w \in Workers, CleanupChannelRecords(w) PROVE TypeInv'
  <2>1. PICK S \in SUBSET Jobs, answers \in SUBSET Jobs, keyboards \in SUBSET Jobs :
          /\ status' = [j \in Jobs |-> IF j \in S THEN "PURGED" ELSE status[j]]
          /\ Purge(S \cup answers, S \cup keyboards)
    BY <1>16 DEF CleanupChannelRecords, Purgeable, PurgeableDeliveries
  <2>2. status' \in [Jobs -> JobStatus]
    BY <2>1
  <2>3. delivery' \in [Jobs -> Answer] /\ cleanup' \in [Jobs -> BOOLEAN]
    BY <2>1 DEF Purge
  <2>4. QED
    BY <1>16, <2>2, <2>3 DEF CleanupChannelRecords, Goto
<1>17. ASSUME NEW w \in Workers, DatabaseError(w) PROVE TypeInv'
  BY <1>17 DEF DatabaseError, Writing, Goto
<1>18. ASSUME NEW w \in Workers, Crash(w) PROVE TypeInv'
  BY <1>18 DEF Crash, Goto
<1>19. CASE UNCHANGED vars
  BY <1>19 DEF vars
<1>20. QED
  BY <1>1, <1>2, <1>3, <1>4, <1>5, <1>6, <1>7, <1>8, <1>9, <1>10, <1>11, <1>12, <1>13,
     <1>14, <1>15, <1>16, <1>17, <1>18, <1>19
  DEF Next, WorkerStep

(* The columns of the inbox and the memory of its workers keep their types *)
(* in every reachable state.                                               *)
THEOREM TypeCorrect == Spec => []TypeOK
<1>1. Spec => []TypeInv
  BY TypeInvInit, TypeInvNext, PTL DEF Spec
<1>2. TypeInv => TypeOK
  BY DEF TypeInv
<1>3. QED
  BY <1>1, <1>2, PTL

-----------------------------------------------------------------------------
(* One update, one execution.  Rows of one update never coexist: a purged  *)
(* row's update is no longer delivered.  The operation row is inserted     *)
(* before the call, so of all attempts of a job at most one, the one that  *)
(* found no row, is ever at the call, and it finds nothing executed yet.   *)

RowsApart ==
  \A j, k \in Jobs : j # k /\ UpdateOf[j] = UpdateOf[k] =>
    status[j] = "NONE" \/ status[k] = "NONE"

PurgedIsClosed == \A j \in Jobs : status[j] = "PURGED" => UpdateOf[j] \notin open

HeldIsRow == \A w \in Workers, j \in Jobs : claimed[w][j] > 0 => status[j] # "NONE"

RowInv == TypeInv /\ RowsApart /\ PurgedIsClosed /\ HeldIsRow

ExecutedIsRow == \A j \in Jobs : execs[j] > 0 => status[j] # "NONE"

FreshIsUnexecuted == \A j \in Jobs : op[j] = "NONE" => execs[j] = 0

CallerIsFirst ==
  \A w \in Workers : pc[w] = "call" => op[cur[w]] = "STARTED" /\ execs[cur[w]] = 0

OneCaller ==
  \A w, v \in Workers : pc[w] = "call" /\ pc[v] = "call" /\ cur[w] = cur[v] => w = v

CompleterRan == \A w \in Workers : pc[w] = "complete" => execs[cur[w]] > 0

AtMostOnce == \A j \in Jobs : execs[j] <= 1

RunInv == /\ ExecutedIsRow
          /\ FreshIsUnexecuted
          /\ CallerIsFirst
          /\ OneCaller
          /\ CompleterRan
          /\ AtMostOnce

LEMMA RowInvInit == Init => RowInv
<1> SUFFICES ASSUME Init PROVE RowInv
  OBVIOUS
<1>1. TypeInv
  BY TypeInvInit
<1>2. QED
  BY <1>1 DEF Init, RowInv, RowsApart, PurgedIsClosed, HeldIsRow

(* A step that inserts no row, purges nothing and claims nothing.          *)
LEMMA RowsKept ==
  ASSUME RowInv, TypeInv',
         \A j \in Jobs : (status'[j] = "NONE") <=> (status[j] = "NONE"),
         \A j \in Jobs : status'[j] = "PURGED" => status[j] = "PURGED",
         \A w \in Workers, j \in Jobs : claimed'[w][j] > 0 => claimed[w][j] > 0,
         open' \subseteq open
  PROVE  RowInv'
  BY DEF RowInv, RowsApart, PurgedIsClosed, HeldIsRow

(* Whoever leaves a job writes a final status over a row that exists.      *)
LEMMA LeaveJobKeepsRows ==
  ASSUME RowInv, TypeInv', NEW w \in Workers, NEW final \in Settled,
         pc[w] \notin {"idle", "sweep"}, LeaveJob(w, final)
  PROVE  /\ RowInv'
         /\ \A j \in Jobs : status[j] # "NONE" => status'[j] # "NONE"
<1> USE DEF TypeInv, TypeOK, InHand
<1>1. /\ status'  = [status EXCEPT ![cur[w]] = final]
      /\ claimed' = [claimed EXCEPT ![w][cur[w]] = 0]
      /\ open' = open
  BY DEF LeaveJob
<1>2. cur[w] \in Jobs /\ status[cur[w]] # "NONE"
  BY DEF RowInv, HeldIsRow
<1>3. \A j \in Jobs : (status'[j] = "NONE") <=> (status[j] = "NONE")
  BY <1>1, <1>2 DEF RowInv, Settled
<1>4. \A j \in Jobs : status'[j] = "PURGED" => status[j] = "PURGED"
  BY <1>1, <1>2 DEF RowInv, Settled
<1>5. \A v \in Workers, j \in Jobs : claimed'[v][j] > 0 => claimed[v][j] > 0
  BY <1>1, <1>2 DEF RowInv
<1>6. QED
  BY <1>1, <1>3, <1>4, <1>5, RowsKept

LEMMA RowInvNext == RowInv /\ [Next]_vars => RowInv'
<1> SUFFICES ASSUME RowInv, [Next]_vars PROVE RowInv'
  OBVIOUS
<1>a. TypeInv'
  BY TypeInvNext DEF RowInv
<1>b. TypeOK /\ InHand
  BY DEF RowInv, TypeInv
<1>1. ASSUME NEW j \in Jobs, Accept(j) PROVE RowInv'
  <2>1. PICK S \in SUBSET {k \in Jobs : UpdateOf[k] \notin open /\ status[k] = "SUCCEEDED"} :
          status' = [k \in Jobs |-> IF k = j THEN "PENDING"
                                    ELSE IF k \in S THEN "PURGED" ELSE status[k]]
    BY <1>1 DEF Accept, Purgeable
  <2>2. /\ UpdateOf[j] \in open /\ status[j] = "NONE"
        /\ \A k \in Jobs : UpdateOf[k] = UpdateOf[j] => status[k] \in {"NONE", "PURGED"}
        /\ UNCHANGED <<open, claimed>>
    BY <1>1 DEF Accept, Present, workerVars
  <2>3. \A k \in Jobs : UpdateOf[k] = UpdateOf[j] => status[k] = "NONE"
    BY <2>2 DEF RowInv, PurgedIsClosed
  <2>4. RowsApart'
    BY <2>1, <2>3 DEF RowInv, RowsApart
  <2>5. PurgedIsClosed'
    BY <2>1, <2>2 DEF RowInv, PurgedIsClosed
  <2>6. HeldIsRow'
    BY <2>1, <2>2 DEF RowInv, HeldIsRow
  <2>7. QED
    BY <1>a, <2>4, <2>5, <2>6 DEF RowInv
<1>2. ASSUME NEW j \in Jobs, LeaseExpires(j) PROVE RowInv'
  BY <1>a, <1>2, RowsKept DEF LeaseExpires, workerVars
<1>3. ASSUME NEW u \in Updates, TelegramStops(u) PROVE RowInv'
  BY <1>a, <1>3, RowsKept DEF TelegramStops, workerVars, jobVars
<1>4. ASSUME NEW w \in Workers, ClaimInboundJobs(w) PROVE RowInv'
  <2>1. PICK S \in SUBSET {j \in Jobs : status[j] \in {"PENDING", "PROCESSING"}} :
          /\ status'  = [j \in Jobs |-> IF j \in S THEN "PROCESSING" ELSE status[j]]
          /\ claimed' = [claimed EXCEPT ![w] =
                           [j \in Jobs |-> IF j \in S THEN attempt[j] + 1 ELSE 0]]
    BY <1>4 DEF ClaimInboundJobs, Claimable
  <2>2. open' = open
    BY <1>4 DEF ClaimInboundJobs
  <2>3. \A j \in Jobs : j \in S => status[j] # "NONE" /\ status[j] # "PURGED"
    BY <2>1
  <2>4. RowsApart'
    BY <2>1, <2>3 DEF RowInv, RowsApart
  <2>5. PurgedIsClosed'
    BY <2>1, <2>2 DEF RowInv, PurgedIsClosed
  <2>6. HeldIsRow'
    BY <1>b, <2>1 DEF RowInv, HeldIsRow, TypeOK
  <2>7. QED
    BY <1>a, <2>4, <2>5, <2>6 DEF RowInv
<1>5. CASE UNCHANGED <<status, open, claimed>>
  BY <1>a, <1>5, RowsKept
<1>6. ASSUME NEW w \in Workers, MarkSucceeded(w) PROVE RowInv'
  BY <1>a, <1>6, LeaveJobKeepsRows DEF MarkSucceeded, Settled
<1>7. ASSUME NEW w \in Workers, MarkAmbiguous(w) PROVE RowInv'
  BY <1>a, <1>7, LeaveJobKeepsRows DEF MarkAmbiguous, Settled
<1>8. ASSUME NEW w \in Workers, MarkFailed(w) PROVE RowInv'
  BY <1>a, <1>8, LeaveJobKeepsRows DEF MarkFailed, Outcome, Settled
<1>9. ASSUME NEW w \in Workers, CleanupChannelRecords(w) PROVE RowInv'
  <2>1. PICK S \in SUBSET {j \in Jobs : UpdateOf[j] \notin open
                              /\ status[j] \in {"SUCCEEDED", "FAILED_TERMINAL"}} :
          status' = [j \in Jobs |-> IF j \in S THEN "PURGED" ELSE status[j]]
    BY <1>9 DEF CleanupChannelRecords, Purgeable
  <2>2. UNCHANGED <<open, claimed>>
    BY <1>9 DEF CleanupChannelRecords
  <2>3. RowsApart'
    BY <2>1 DEF RowInv, RowsApart
  <2>4. PurgedIsClosed'
    BY <2>1, <2>2 DEF RowInv, PurgedIsClosed
  <2>5. HeldIsRow'
    BY <2>1, <2>2 DEF RowInv, HeldIsRow
  <2>6. QED
    BY <1>a, <2>3, <2>4, <2>5 DEF RowInv
<1>10. ASSUME NEW w \in Workers, Crash(w) PROVE RowInv'
  <2>1. \A v \in Workers, j \in Jobs : claimed'[v][j] > 0 => claimed[v][j] > 0
    BY <1>b, <1>10 DEF Crash, TypeOK
  <2>2. UNCHANGED <<status, open>>
    BY <1>10 DEF Crash, jobVars
  <2>3. QED
    BY <1>a, <2>1, <2>2, RowsKept
<1>11. CASE UNCHANGED vars
  BY <1>a, <1>11, RowsKept DEF vars
<1>12. QED
  BY <1>1, <1>2, <1>3, <1>4, <1>5, <1>6, <1>7, <1>8, <1>9, <1>10, <1>11
  DEF Next, WorkerStep, StartJob, BeginOperation, OperationReturns, OperationThrows,
      CompleteOperation, BindTurn, EnsureDelivery, EnsureKeyboardCleanup, DatabaseError,
      jobVars, workerVars

(* A step that neither touches operations nor brings a worker to the call  *)
(* or past it.                                                             *)
LEMMA RunsKept ==
  ASSUME TypeInv, RunInv, UNCHANGED <<op, execs>>,
         \A w \in Workers : pc'[w] \in {"call", "complete"} =>
           pc[w] = pc'[w] /\ cur[w] = cur'[w],
         \A j \in Jobs : status[j] # "NONE" => status'[j] # "NONE"
  PROVE  RunInv'
  BY DEF RunInv, ExecutedIsRow, FreshIsUnexecuted, CallerIsFirst, OneCaller, CompleterRan,
         AtMostOnce

LEMMA LeaveJobKeepsRuns ==
  ASSUME RowInv, TypeInv', RunInv, NEW w \in Workers, NEW final \in Settled,
         pc[w] \notin {"idle", "sweep"}, LeaveJob(w, final)
  PROVE  RunInv'
<1>1. PICK step \in {"idle", "sweep"} : Goto(w, step)
  BY DEF LeaveJob
<1>2. UNCHANGED <<op, execs>> /\ cur' = [cur EXCEPT ![w] = NoJob]
  BY DEF LeaveJob, effectVars
<1>3. \A v \in Workers : pc'[v] \in {"call", "complete"} =>
        pc[v] = pc'[v] /\ cur[v] = cur'[v]
  BY <1>1, <1>2 DEF Goto, RowInv, TypeInv, TypeOK
<1>4. QED
  BY <1>2, <1>3, LeaveJobKeepsRows, RunsKept DEF RowInv

(* OperationReturns and OperationThrows: the one caller runs the operation *)
(* for the first time and leaves the call.                                 *)
LEMMA FirstRun ==
  ASSUME RowInv, RunInv, NEW w \in Workers, pc[w] = "call",
         NEW step \in {"complete", "failRetry", "failFinal"}, Goto(w, step),
         execs' = [execs EXCEPT ![cur[w]] = @ + 1],
         UNCHANGED <<status, op, cur>>
  PROVE  RunInv'
<1> USE DEF RowInv, TypeInv, TypeOK, InHand, RunInv
<1>1. /\ cur[w] \in Jobs /\ status[cur[w]] # "NONE"
      /\ execs[cur[w]] = 0 /\ op[cur[w]] = "STARTED"
  BY DEF HeldIsRow, CallerIsFirst
<1>2. /\ execs'[cur[w]] = 1
      /\ \A j \in Jobs : j # cur[w] => execs'[j] = execs[j]
      /\ pc' = [pc EXCEPT ![w] = step]
  BY <1>1 DEF Goto
<1>3. ExecutedIsRow' /\ FreshIsUnexecuted' /\ AtMostOnce'
  BY <1>1, <1>2 DEF ExecutedIsRow, FreshIsUnexecuted, AtMostOnce
<1>4. CallerIsFirst'
  BY <1>2 DEF CallerIsFirst, OneCaller
<1>5. OneCaller'
  BY <1>2 DEF OneCaller
<1>6. CompleterRan'
  <2> SUFFICES ASSUME NEW v \in Workers, pc'[v] = "complete" PROVE execs'[cur[v]] > 0
    BY DEF CompleterRan
  <2>1. CASE v = w
    BY <1>2, <2>1
  <2>2. CASE v # w
    <3>1. pc[v] = "complete" /\ cur[v] \in Jobs /\ execs[cur[v]] > 0
      BY <1>2, <2>2 DEF CompleterRan
    <3>2. QED
      BY <1>1, <1>2, <3>1
  <2>3. QED
    BY <2>1, <2>2
<1>7. QED
  BY <1>3, <1>4, <1>5, <1>6

LEMMA RunInvNext == RowInv /\ RunInv /\ [Next]_vars => RunInv'
<1> SUFFICES ASSUME RowInv, RunInv, [Next]_vars PROVE RunInv'
  OBVIOUS
<1>a. TypeInv /\ RowInv' /\ TypeInv'
  BY RowInvNext DEF RowInv
<1>b. TypeOK /\ InHand
  BY DEF RowInv, TypeInv
<1>1. ASSUME NEW j \in Jobs, Accept(j) PROVE RunInv'
  <2>1. \A k \in Jobs : status[k] # "NONE" => status'[k] # "NONE"
    BY <1>1 DEF Accept, Purgeable
  <2>2. QED
    BY <1>a, <1>1, <2>1, RunsKept DEF Accept, workerVars
<1>2. ASSUME NEW j \in Jobs, LeaseExpires(j) PROVE RunInv'
  BY <1>a, <1>2, RunsKept DEF LeaseExpires, effectVars, workerVars
<1>3. ASSUME NEW u \in Updates, TelegramStops(u) PROVE RunInv'
  BY <1>a, <1>3, RunsKept DEF TelegramStops, jobVars, effectVars, workerVars
<1>4. ASSUME NEW w \in Workers, ClaimInboundJobs(w) PROVE RunInv'
  <2>1. \A k \in Jobs : status[k] # "NONE" => status'[k] # "NONE"
    BY <1>4 DEF ClaimInboundJobs
  <2>2. QED
    BY <1>a, <1>4, <2>1, RunsKept DEF ClaimInboundJobs, effectVars
<1>5. ASSUME NEW w \in Workers, StartJob(w) PROVE RunInv'
  <2>1. \A v \in Workers : pc'[v] \in {"call", "complete"} =>
          pc[v] = pc'[v] /\ cur[v] = cur'[v]
    BY <1>b, <1>5 DEF StartJob, Goto, TypeOK
  <2>2. QED
    BY <1>a, <1>5, <2>1, RunsKept DEF StartJob, jobVars, effectVars
<1>6. ASSUME NEW w \in Workers, BeginOperation(w) PROVE RunInv'
  <2> DEFINE j == cur[w]
  <2>1. /\ j \in Jobs /\ status' = status /\ execs' = execs /\ cur' = cur
        /\ op' = [op EXCEPT ![j] = IF @ = "NONE" THEN "STARTED" ELSE @]
        /\ pc' = [pc EXCEPT ![w] = Verdict(j)]
    BY <1>b, <1>6 DEF BeginOperation, Goto, InHand, jobVars
  <2>2. CASE op[j] = "NONE"
    <3>1. Verdict(j) = "call" /\ op'[j] = "STARTED" /\ execs[j] = 0
      BY <1>b, <2>1, <2>2 DEF Verdict, RunInv, FreshIsUnexecuted, TypeOK
    <3>2. \A v \in Workers : v # w /\ pc'[v] = "call" => pc[v] = "call" /\ cur[v] # j
      BY <1>b, <2>1, <2>2 DEF RunInv, CallerIsFirst, TypeOK
    <3>3. ExecutedIsRow' /\ FreshIsUnexecuted' /\ AtMostOnce'
      BY <1>b, <2>1 DEF RunInv, ExecutedIsRow, FreshIsUnexecuted, AtMostOnce, TypeOK
    <3>4. OneCaller'
      BY <1>b, <2>1, <3>2 DEF RunInv, OneCaller, TypeOK
    <3>5. CallerIsFirst'
      BY <1>b, <2>1, <3>1, <3>2 DEF RunInv, CallerIsFirst, TypeOK, InHand
    <3>6. CompleterRan'
      BY <1>b, <2>1, <3>1 DEF RunInv, CompleterRan, TypeOK
    <3>7. QED
      BY <3>3, <3>4, <3>5, <3>6 DEF RunInv
  <2>3. CASE op[j] # "NONE"
    <3>1. Verdict(j) \notin {"call", "complete"} /\ op' = op
      BY <1>b, <2>1, <2>3 DEF Verdict, AfterReply, TypeOK, OpStatus
    <3>2. \A v \in Workers : pc'[v] \in {"call", "complete"} => pc[v] = pc'[v]
      BY <1>b, <2>1, <3>1 DEF TypeOK
    <3>3. QED
      BY <1>a, <2>1, <3>1, <3>2, RunsKept
  <2>4. QED
    BY <2>2, <2>3
<1>7. ASSUME NEW w \in Workers, OperationReturns(w) PROVE RunInv'
  BY <1>7, FirstRun DEF OperationReturns, jobVars
<1>8. ASSUME NEW w \in Workers, OperationThrows(w) PROVE RunInv'
  BY <1>8, FirstRun DEF OperationThrows, jobVars
<1>9. ASSUME NEW w \in Workers, CompleteOperation(w) PROVE RunInv'
  <2>1. /\ cur[w] \in Jobs /\ execs[cur[w]] > 0
        /\ status' = status /\ execs' = execs /\ cur' = cur
        /\ op' = [op EXCEPT ![cur[w]] = "DONE"]
        /\ pc' = [pc EXCEPT ![w] = AfterReply(cur[w])]
    BY <1>b, <1>9 DEF CompleteOperation, Goto, InHand, jobVars, RunInv, CompleterRan
  <2>2. \A v \in Workers : pc'[v] \in {"call", "complete"} => pc[v] = pc'[v] /\ v # w
    BY <1>b, <2>1 DEF AfterReply, TypeOK
  <2>3. \A v \in Workers : pc'[v] = "call" => cur[v] # cur[w]
    BY <1>b, <2>1, <2>2 DEF RunInv, CallerIsFirst, TypeOK
  <2>4. CallerIsFirst'
    BY <1>b, <2>1, <2>2, <2>3 DEF RunInv, CallerIsFirst, TypeOK, InHand
  <2>5. OneCaller' /\ CompleterRan'
    BY <2>1, <2>2 DEF RunInv, OneCaller, CompleterRan
  <2>6. ExecutedIsRow' /\ FreshIsUnexecuted' /\ AtMostOnce'
    BY <1>b, <2>1 DEF RunInv, ExecutedIsRow, FreshIsUnexecuted, AtMostOnce, TypeOK
  <2>7. QED
    BY <2>4, <2>5, <2>6 DEF RunInv
<1>10. ASSUME NEW w \in Workers,
              BindTurn(w) \/ EnsureDelivery(w) \/ EnsureKeyboardCleanup(w) \/ DatabaseError(w)
              \/ CleanupChannelRecords(w)
       PROVE  RunInv'
  <2>1. \E step \in {"reply", "cleanup", "finish", "failRetry", "idle"} : Goto(w, step)
    BY <1>10 DEF BindTurn, EnsureDelivery, EnsureKeyboardCleanup, DatabaseError,
                 CleanupChannelRecords
  <2>2. UNCHANGED <<op, execs, cur>>
    BY <1>10 DEF BindTurn, EnsureDelivery, EnsureKeyboardCleanup, DatabaseError,
                 CleanupChannelRecords, effectVars
  <2>3. \A k \in Jobs : status[k] # "NONE" => status'[k] # "NONE"
    BY <1>10 DEF BindTurn, EnsureDelivery, EnsureKeyboardCleanup, DatabaseError,
                 CleanupChannelRecords, jobVars
  <2>4. \A v \in Workers : pc'[v] \in {"call", "complete"} => pc[v] = pc'[v]
    BY <1>b, <2>1 DEF Goto, TypeOK
  <2>5. QED
    BY <1>a, <2>2, <2>3, <2>4, RunsKept
<1>11. ASSUME NEW w \in Workers, MarkSucceeded(w) \/ MarkAmbiguous(w) \/ MarkFailed(w)
       PROVE  RunInv'
  BY <1>a, <1>11, LeaveJobKeepsRuns DEF MarkSucceeded, MarkAmbiguous, MarkFailed, Outcome, Settled
<1>12. ASSUME NEW w \in Workers, Crash(w) PROVE RunInv'
  <2>1. \A v \in Workers : pc'[v] \in {"call", "complete"} =>
          pc[v] = pc'[v] /\ cur[v] = cur'[v]
    BY <1>b, <1>12 DEF Crash, Goto, TypeOK
  <2>2. QED
    BY <1>a, <1>12, <2>1, RunsKept DEF Crash, jobVars, effectVars
<1>13. CASE UNCHANGED vars
  BY <1>a, <1>13, RunsKept DEF vars
<1>14. QED
  BY <1>1, <1>2, <1>3, <1>4, <1>5, <1>6, <1>7, <1>8, <1>9, <1>10, <1>11, <1>12, <1>13
  DEF Next, WorkerStep

(* A Telegram update runs the Assistant at most once, whatever is          *)
(* redelivered, reclaimed, crashed or purged.                              *)
THEOREM RunsOncePerUpdate == Spec => []OncePerUpdate
<1>1. Spec => []RowInv
  BY RowInvInit, RowInvNext, PTL DEF Spec
<1>2. Init => RunInv
  BY DEF Init, RunInv, ExecutedIsRow, FreshIsUnexecuted, CallerIsFirst, OneCaller,
         CompleterRan, AtMostOnce
<1>3. Spec => []RunInv
  BY <1>1, <1>2, RunInvNext, PTL DEF Spec
<1>4. RowInv /\ RunInv => OncePerUpdate
  BY DEF RowInv, RowsApart, RunInv, ExecutedIsRow, AtMostOnce, OncePerUpdate
<1>5. QED
  BY <1>1, <1>3, <1>4, PTL

-----------------------------------------------------------------------------
(* The answer comes before the success: a worker about to finish has       *)
(* queued the answer of its job, and a queued answer is only ever purged.  *)

FinishingIsAnswered ==
  \A w \in Workers : pc[w] \in {"cleanup", "finish"} => delivery[cur[w]] # "NONE"

AnswerInv == FinishingIsAnswered /\ SucceededIsAnswered

LEMMA AnswersKept ==
  ASSUME TypeInv, AnswerInv,
         \A j \in Jobs : delivery[j] # "NONE" => delivery'[j] # "NONE",
         \A j \in Jobs : status'[j] = "SUCCEEDED" => status[j] = "SUCCEEDED",
         \A w \in Workers : pc'[w] \in {"cleanup", "finish"} =>
           pc[w] \in {"cleanup", "finish"} /\ cur'[w] = cur[w]
  PROVE  AnswerInv'
<1>1. SucceededIsAnswered'
  BY DEF AnswerInv, SucceededIsAnswered
<1>2. FinishingIsAnswered'
  BY DEF AnswerInv, FinishingIsAnswered, TypeInv, InHand
<1>3. QED
  BY <1>1, <1>2 DEF AnswerInv

LEMMA LeaveJobKeepsAnswers ==
  ASSUME TypeInv, AnswerInv, NEW w \in Workers, NEW final \in Settled, LeaveJob(w, final),
         pc[w] \notin {"idle", "sweep"}, final = "SUCCEEDED" => pc[w] = "finish"
  PROVE  AnswerInv'
<1> USE DEF TypeInv, TypeOK, InHand
<1>1. PICK step \in {"idle", "sweep"} : Goto(w, step)
  BY DEF LeaveJob
<1>2. /\ status' = [status EXCEPT ![cur[w]] = final]
      /\ cur' = [cur EXCEPT ![w] = NoJob]
      /\ delivery' = delivery
  BY DEF LeaveJob, effectVars
<1>3. FinishingIsAnswered'
  BY <1>1, <1>2 DEF AnswerInv, FinishingIsAnswered, Goto
<1>4. SucceededIsAnswered'
  BY <1>2 DEF AnswerInv, FinishingIsAnswered, SucceededIsAnswered
<1>5. QED
  BY <1>3, <1>4 DEF AnswerInv

LEMMA AnswerInvNext == TypeInv /\ AnswerInv /\ [Next]_vars => AnswerInv'
<1> SUFFICES ASSUME TypeInv, AnswerInv, [Next]_vars PROVE AnswerInv'
  OBVIOUS
<1>a. TypeOK /\ InHand
  BY DEF TypeInv
<1>1. ASSUME NEW j \in Jobs, Accept(j) PROVE AnswerInv'
  <2>1. \A k \in Jobs : delivery[k] # "NONE" => delivery'[k] # "NONE"
    BY <1>1 DEF Accept, Purge
  <2>2. \A k \in Jobs : status'[k] = "SUCCEEDED" => status[k] = "SUCCEEDED"
    BY <1>1 DEF Accept
  <2>3. QED
    BY <1>1, <2>1, <2>2, AnswersKept DEF Accept, workerVars
<1>2. ASSUME NEW j \in Jobs, LeaseExpires(j) PROVE AnswerInv'
  BY <1>2, AnswersKept DEF LeaseExpires, effectVars, workerVars
<1>3. ASSUME NEW u \in Updates, TelegramStops(u) PROVE AnswerInv'
  BY <1>3, AnswersKept DEF TelegramStops, jobVars, effectVars, workerVars
<1>4. ASSUME NEW w \in Workers, ClaimInboundJobs(w) PROVE AnswerInv'
  <2>1. \A k \in Jobs : status'[k] = "SUCCEEDED" => status[k] = "SUCCEEDED"
    BY <1>4 DEF ClaimInboundJobs
  <2>2. QED
    BY <1>4, <2>1, AnswersKept DEF ClaimInboundJobs, effectVars
<1>5. ASSUME NEW w \in Workers, StartJob(w) PROVE AnswerInv'
  <2>1. \A v \in Workers : pc'[v] \in {"cleanup", "finish"} =>
          pc[v] = pc'[v] /\ cur[v] = cur'[v]
    BY <1>a, <1>5 DEF StartJob, Goto, TypeOK
  <2>2. QED
    BY <1>5, <2>1, AnswersKept DEF StartJob, jobVars, effectVars
<1>6. ASSUME NEW w \in Workers, NEW step \in Step \ {"cleanup", "finish"}, Goto(w, step),
             UNCHANGED <<status, delivery, cur>>
      PROVE  AnswerInv'
  <2>1. \A v \in Workers : pc'[v] \in {"cleanup", "finish"} => pc[v] = pc'[v]
    BY <1>a, <1>6 DEF Goto, TypeOK
  <2>2. QED
    BY <1>6, <2>1, AnswersKept
<1>7. ASSUME NEW w \in Workers,
             BeginOperation(w) \/ OperationReturns(w) \/ OperationThrows(w)
             \/ CompleteOperation(w) \/ BindTurn(w) \/ DatabaseError(w)
      PROVE  AnswerInv'
  <2>1. UNCHANGED <<status, delivery, cur>>
    BY <1>7 DEF BeginOperation, OperationReturns, OperationThrows, CompleteOperation,
                BindTurn, DatabaseError, jobVars, effectVars
  <2>2. \E step \in Step \ {"cleanup", "finish"} : Goto(w, step)
    BY <1>a, <1>7 DEF BeginOperation, OperationReturns, OperationThrows, CompleteOperation,
                BindTurn, DatabaseError, Verdict, AfterReply, Step, TypeOK, InHand, OpStatus
  <2>3. QED
    BY <1>6, <2>1, <2>2
<1>8. ASSUME NEW w \in Workers, EnsureDelivery(w) PROVE AnswerInv'
  <2>1. PICK text \in {"DIRECT", "REPLY"} :
          delivery' = [delivery EXCEPT ![cur[w]] = Queued(@, text)]
    BY <1>8 DEF EnsureDelivery
  <2>2. cur[w] \in Jobs /\ delivery'[cur[w]] # "NONE"
    BY <1>a, <1>8, <2>1 DEF EnsureDelivery, InHand, Queued, TypeOK
  <2>3. \A j \in Jobs : delivery[j] # "NONE" => delivery'[j] # "NONE"
    BY <1>a, <2>1, <2>2 DEF TypeOK
  <2>4. status' = status /\ cur' = cur
    BY <1>8 DEF EnsureDelivery, jobVars
  <2>5. \A v \in Workers : v # w => pc'[v] = pc[v]
    BY <1>a, <1>8 DEF EnsureDelivery, Goto, TypeOK
  <2>6. FinishingIsAnswered'
    BY <1>a, <2>2, <2>3, <2>4, <2>5 DEF AnswerInv, FinishingIsAnswered, InHand
  <2>7. SucceededIsAnswered'
    BY <2>3, <2>4 DEF AnswerInv, SucceededIsAnswered
  <2>8. QED
    BY <2>6, <2>7 DEF AnswerInv
<1>9. ASSUME NEW w \in Workers, EnsureKeyboardCleanup(w) PROVE AnswerInv'
  <2>1. \A v \in Workers : pc'[v] \in {"cleanup", "finish"} => pc[v] \in {"cleanup", "finish"}
    BY <1>a, <1>9 DEF EnsureKeyboardCleanup, Goto, TypeOK
  <2>2. QED
    BY <1>9, <2>1, AnswersKept DEF EnsureKeyboardCleanup, jobVars
<1>10. ASSUME NEW w \in Workers, MarkSucceeded(w) \/ MarkAmbiguous(w) \/ MarkFailed(w)
       PROVE  AnswerInv'
  BY <1>10, LeaveJobKeepsAnswers
  DEF MarkSucceeded, MarkAmbiguous, MarkFailed, Outcome, Settled
<1>11. ASSUME NEW w \in Workers, CleanupChannelRecords(w) PROVE AnswerInv'
  <2>1. \A j \in Jobs : delivery[j] # "NONE" => delivery'[j] # "NONE"
    BY <1>11 DEF CleanupChannelRecords, Purge
  <2>2. \A j \in Jobs : status'[j] = "SUCCEEDED" => status[j] = "SUCCEEDED"
    BY <1>11 DEF CleanupChannelRecords
  <2>3. \A v \in Workers : pc'[v] \in {"cleanup", "finish"} => pc[v] = pc'[v]
    BY <1>a, <1>11 DEF CleanupChannelRecords, Goto, TypeOK
  <2>4. QED
    BY <1>11, <2>1, <2>2, <2>3, AnswersKept DEF CleanupChannelRecords
<1>12. ASSUME NEW w \in Workers, Crash(w) PROVE AnswerInv'
  <2>1. \A v \in Workers : pc'[v] \in {"cleanup", "finish"} =>
          pc[v] = pc'[v] /\ cur[v] = cur'[v]
    BY <1>a, <1>12 DEF Crash, Goto, TypeOK
  <2>2. QED
    BY <1>12, <2>1, AnswersKept DEF Crash, jobVars, effectVars
<1>13. CASE UNCHANGED vars
  BY <1>13, AnswersKept DEF vars
<1>14. QED
  BY <1>1, <1>2, <1>3, <1>4, <1>5, <1>7, <1>8, <1>9, <1>10, <1>11, <1>12, <1>13
  DEF Next, WorkerStep

(* No job is marked as done before its answer is durably queued.           *)
THEOREM SuccessIsAnswered == Spec => []SucceededIsAnswered
<1>1. Spec => []TypeInv
  BY TypeInvInit, TypeInvNext, PTL DEF Spec
<1>2. Init => AnswerInv
  BY DEF Init, AnswerInv, FinishingIsAnswered, SucceededIsAnswered
<1>3. Spec => []AnswerInv
  BY <1>1, <1>2, AnswerInvNext, PTL DEF Spec
<1>4. AnswerInv => SucceededIsAnswered
  BY DEF AnswerInv
<1>5. QED
  BY <1>3, <1>4, PTL

(* The first queued answer of a job is its only one.                       *)
THEOREM AnswerNeverChanges == Spec => AnswerIsFinal
<1> DEFINE Kept(j) == delivery[j] \in {"DIRECT", "REPLY"} =>
                        delivery'[j] \in {delivery[j], "PURGED"}
<1>1. ASSUME TypeInv, [Next]_vars, NEW j \in Jobs PROVE Kept(j)
  <2> USE <1>1 DEF TypeInv, TypeOK, InHand
  <2>1. ASSUME NEW k \in Jobs, Accept(k) PROVE Kept(j)
    BY <2>1 DEF Accept, Purge
  <2>2. ASSUME NEW w \in Workers, CleanupChannelRecords(w) PROVE Kept(j)
    BY <2>2 DEF CleanupChannelRecords, Purge
  <2>3. ASSUME NEW w \in Workers, EnsureDelivery(w) PROVE Kept(j)
    BY <2>3 DEF EnsureDelivery, Queued
  <2>4. CASE delivery' = delivery
    BY <2>4
  <2>5. QED
    BY <2>1, <2>2, <2>3, <2>4
    DEF Next, WorkerStep, LeaseExpires, TelegramStops, ClaimInboundJobs, StartJob,
        BeginOperation, OperationReturns, OperationThrows, CompleteOperation, BindTurn,
        EnsureKeyboardCleanup, MarkSucceeded, MarkAmbiguous, MarkFailed, LeaveJob,
        DatabaseError, Crash, effectVars, vars
<1>2. TypeInv /\ [Next]_vars => [\A j \in Jobs : Kept(j)]_vars
  BY <1>1
<1>3. Spec => []TypeInv
  BY TypeInvInit, TypeInvNext, PTL DEF Spec
<1>4. QED
  BY <1>2, <1>3, PTL DEF Spec, AnswerIsFinal

(* An operation whose starter is gone is never run again and never         *)
(* completed: only a worker already at the call, or one that found no      *)
(* operation row, could do either.                                         *)
THEOREM AbandonedForEver == Spec => AbandonedStaysAbandoned
<1> DEFINE Fate(j) == Abandoned(j) => Abandoned(j)' /\ execs'[j] = execs[j]
<1>1. ASSUME TypeInv, [Next]_vars, NEW j \in Jobs PROVE Fate(j)
  <2> SUFFICES ASSUME Abandoned(j) PROVE Abandoned(j)' /\ execs'[j] = execs[j]
    OBVIOUS
  <2> USE <1>1 DEF TypeInv, TypeOK, InHand, Abandoned
  <2>1. CASE /\ UNCHANGED <<op, execs>>
             /\ \A w \in Workers : pc'[w] \in {"call", "complete"} =>
                  pc[w] = pc'[w] /\ cur[w] = cur'[w]
    BY <2>1
  <2>2. ASSUME NEW w \in Workers, BeginOperation(w) PROVE Fate(j)
    <3>1. /\ op' = [op EXCEPT ![cur[w]] = IF @ = "NONE" THEN "STARTED" ELSE @]
          /\ pc' = [pc EXCEPT ![w] = Verdict(cur[w])]
          /\ cur[w] \in Jobs /\ UNCHANGED <<execs, cur>>
      BY <2>2 DEF BeginOperation, Goto
    <3>2. cur[w] = j => Verdict(j) = "ambiguous"
      BY DEF Verdict
    <3>3. op'[j] = "STARTED"
      BY <3>1
    <3>4. \A v \in Workers : cur'[v] = j => pc'[v] \notin {"call", "complete"}
      BY <3>1, <3>2
    <3>5. QED
      BY <3>1, <3>3, <3>4
  <2>3. ASSUME NEW w \in Workers, OperationReturns(w) \/ OperationThrows(w) PROVE Fate(j)
    <3>1. /\ pc[w] = "call" /\ cur[w] # j /\ cur[w] \in Jobs
          /\ execs' = [execs EXCEPT ![cur[w]] = @ + 1]
          /\ UNCHANGED <<op, cur>>
      BY <2>3 DEF OperationReturns, OperationThrows
    <3>2. PICK step \in {"complete", "failRetry", "failFinal"} :
            pc' = [pc EXCEPT ![w] = step]
      BY <2>3 DEF OperationReturns, OperationThrows, Goto
    <3>3. \A v \in Workers : cur'[v] = j => pc'[v] \notin {"call", "complete"}
      BY <3>1, <3>2
    <3>4. QED
      BY <3>1, <3>3
  <2>4. ASSUME NEW w \in Workers, CompleteOperation(w) PROVE Fate(j)
    <3>1. /\ pc[w] = "complete" /\ cur[w] # j /\ cur[w] \in Jobs
          /\ op' = [op EXCEPT ![cur[w]] = "DONE"]
          /\ pc' = [pc EXCEPT ![w] = AfterReply(cur[w])]
          /\ UNCHANGED <<execs, cur>>
      BY <2>4 DEF CompleteOperation, Goto
    <3>2. QED
      BY <3>1
  <2>5. ASSUME NEW w \in Workers, NEW step \in Step \ {"call", "complete"}, Goto(w, step),
               UNCHANGED <<op, execs>>, \A v \in Workers : v # w => cur'[v] = cur[v]
        PROVE  Fate(j)
    BY <2>5 DEF Goto
  <2>6. ASSUME NEW w \in Workers,
               StartJob(w) \/ BindTurn(w) \/ EnsureDelivery(w) \/ EnsureKeyboardCleanup(w)
               \/ MarkSucceeded(w) \/ MarkAmbiguous(w) \/ MarkFailed(w)
               \/ CleanupChannelRecords(w) \/ DatabaseError(w) \/ Crash(w)
        PROVE  Fate(j)
    <3>1. \E step \in Step \ {"call", "complete"} : Goto(w, step)
      BY <2>6 DEF StartJob, BindTurn, EnsureDelivery, EnsureKeyboardCleanup, MarkSucceeded,
                  MarkAmbiguous, MarkFailed, LeaveJob, CleanupChannelRecords, DatabaseError,
                  Crash, Step
    <3>2. UNCHANGED <<op, execs>> /\ \A v \in Workers : v # w => cur'[v] = cur[v]
      BY <2>6 DEF StartJob, BindTurn, EnsureDelivery, EnsureKeyboardCleanup, MarkSucceeded,
                  MarkAmbiguous, MarkFailed, LeaveJob, CleanupChannelRecords, DatabaseError,
                  Crash, effectVars
    <3>3. QED
      BY <2>5, <3>1, <3>2
  <2>7. QED
    BY <2>1, <2>2, <2>3, <2>4, <2>6
    DEF Next, WorkerStep, Accept, LeaseExpires, TelegramStops, ClaimInboundJobs,
        jobVars, effectVars, workerVars, vars
<1>2. TypeInv /\ [Next]_vars => [\A j \in Jobs : Fate(j)]_vars
  BY <1>1
<1>3. Spec => []TypeInv
  BY TypeInvInit, TypeInvNext, PTL DEF Spec
<1>4. QED
  BY <1>2, <1>3, PTL DEF Spec, AbandonedStaysAbandoned

-----------------------------------------------------------------------------
(* Replies follow executions: a worker that is about to queue a reply has  *)
(* a recorded result behind it, and the turn of a text is bound by then.   *)
(* Keyboards are removed only on the path of a button press, which never   *)
(* answers directly, so the row it finds or leaves is a reply.             *)

Button(j) == Kind(j) = "CALLBACK" /\ RuntimeConfigured

WorkerPath(w) ==
  /\ pc[w] = "direct" => ~Button(cur[w])
  /\ pc[w] \in {"begin", "call"} => RuntimeConfigured
  /\ clear[w] => Button(cur[w])
                    /\ pc[w] \in {"complete", "reply", "cleanup", "finish", "failRetry"}
  /\ pc[w] = "cleanup" => clear[w] /\ delivery[cur[w]] \in {"REPLY", "PURGED"}
  /\ pc[w] \in {"bind", "reply"} => op[cur[w]] = "DONE"
  /\ pc[w] = "reply" /\ Kind(cur[w]) = "TEXT" => bound[cur[w]]

RowPath(j) ==
  /\ delivery[j] = "DIRECT" => ~Button(j)
  /\ cleanup[j] => Button(j) /\ delivery[j] \in {"REPLY", "PURGED"}
  /\ op[j] = "DONE" => execs[j] = 1
  /\ delivery[j] = "REPLY" => op[j] = "DONE" /\ (Kind(j) = "TEXT" => bound[j])

PathInv == (\A w \in Workers : WorkerPath(w)) /\ (\A j \in Jobs : RowPath(j))

(* Results and bindings stay; a reply may only be purged. *)
RowsGrow ==
  \A j \in Jobs :
    /\ op[j] = "DONE" => op'[j] = "DONE"
    /\ bound[j] => bound'[j]
    /\ Button(j) /\ delivery[j] \in {"REPLY", "PURGED"} => delivery'[j] \in {"REPLY", "PURGED"}

SameWorker(v) == pc'[v] = pc[v] /\ cur'[v] = cur[v] /\ clear'[v] = clear[v]

LEMMA WorkerPathKept ==
  ASSUME TypeInv, NEW v \in Workers, WorkerPath(v), RowsGrow, SameWorker(v)
  PROVE  WorkerPath(v)'
<1>1. CASE pc[v] \in {"idle", "sweep"}
  BY <1>1 DEF WorkerPath, SameWorker, Button, Kind
<1>2. CASE pc[v] \notin {"idle", "sweep"}
  <2>1. cur[v] \in Jobs
    BY <1>2 DEF TypeInv, InHand
  <2>2. QED
    BY <2>1 DEF WorkerPath, SameWorker, RowsGrow, Button, Kind
<1>3. QED
  BY <1>1, <1>2

(* One worker moves, the rows only grow: its own new place is to check.    *)
LEMMA OthersWait ==
  ASSUME TypeInv, PathInv, RowsGrow, NEW w \in Workers, WorkerPath(w)',
         \A v \in Workers : v # w => SameWorker(v), \A j \in Jobs : RowPath(j)'
  PROVE  PathInv'
<1>1. ASSUME NEW v \in Workers PROVE WorkerPath(v)'
  BY WorkerPathKept DEF PathInv
<1>2. QED
  BY <1>1 DEF PathInv

(* Retention touches answers and keyboards only, and only to delete them.  *)
PurgesOnly ==
  /\ UNCHANGED <<op, execs, bound>>
  /\ \A j \in Jobs : cleanup'[j] => cleanup[j]
  /\ \A j \in Jobs :
       delivery'[j] = delivery[j] \/ (delivery[j] # "NONE" /\ delivery'[j] = "PURGED")

LEMMA PurgesKeepPaths ==
  ASSUME TypeInv, PathInv, PurgesOnly
  PROVE  RowsGrow /\ \A j \in Jobs : RowPath(j)'
<1>1. RowsGrow
  BY DEF PurgesOnly, RowsGrow
<1>2. ASSUME NEW j \in Jobs PROVE RowPath(j)'
  <2>1. RowPath(j)
    BY DEF PathInv
  <2>2. QED
    BY <2>1 DEF PurgesOnly, RowPath, Button, Kind, TypeInv, TypeOK
<1>3. QED
  BY <1>1, <1>2

LEMMA PurgeOnlyPurges ==
  ASSUME TypeInv, NEW S, NEW T, Purge(S, T), UNCHANGED <<op, execs, bound>>
  PROVE  PurgesOnly
  BY DEF Purge, PurgesOnly

LEMMA RestIsOnPath ==
  ASSUME TypeInv', NEW w \in Workers, ~clear'[w],
         pc'[w] \in {"idle", "sweep", "ambiguous", "failRetry", "failFinal"}
  PROVE  WorkerPath(w)'
  BY DEF WorkerPath

LEMMA PathInvNext == RowInv /\ RunInv /\ PathInv /\ [Next]_vars => PathInv'
<1> SUFFICES ASSUME RowInv, RunInv, PathInv, [Next]_vars PROVE PathInv'
  OBVIOUS
<1>a. RowInv' /\ RunInv' /\ TypeInv /\ TypeInv'
  BY RowInvNext, RunInvNext DEF RowInv
<1>b. TypeOK /\ InHand
  BY <1>a DEF TypeInv
<1>p. \A w \in Workers : WorkerPath(w)
  BY DEF PathInv
<1>1. ASSUME PurgesOnly, \A v \in Workers : SameWorker(v) PROVE PathInv'
  <2>1. ASSUME NEW v \in Workers PROVE WorkerPath(v)'
    BY <1>a, <1>p, <1>1, PurgesKeepPaths, WorkerPathKept
  <2>2. QED
    BY <1>a, <1>1, <2>1, PurgesKeepPaths DEF PathInv
<1>2. ASSUME PurgesOnly, NEW w \in Workers, \A v \in Workers : v # w => SameWorker(v),
             WorkerPath(w)'
      PROVE  PathInv'
  BY <1>a, <1>2, PurgesKeepPaths, OthersWait
<1>3. ASSUME NEW j \in Jobs, Accept(j) PROVE PathInv'
  <2>1. PurgesOnly
    BY <1>a, <1>3, PurgeOnlyPurges DEF Accept
  <2>2. QED
    BY <1>1, <1>3, <2>1 DEF Accept, workerVars, SameWorker
<1>4. ASSUME NEW j \in Jobs, LeaseExpires(j) PROVE PathInv'
  BY <1>1, <1>4 DEF LeaseExpires, effectVars, workerVars, SameWorker, PurgesOnly
<1>5. ASSUME NEW u \in Updates, TelegramStops(u) PROVE PathInv'
  BY <1>1, <1>5 DEF TelegramStops, jobVars, effectVars, workerVars, SameWorker, PurgesOnly
<1>6. ASSUME NEW w \in Workers, ClaimInboundJobs(w) PROVE PathInv'
  BY <1>1, <1>6 DEF ClaimInboundJobs, effectVars, SameWorker, PurgesOnly
<1>7. ASSUME NEW w \in Workers, StartJob(w) PROVE PathInv'
  <2>1. PICK j \in Jobs, linked \in BOOLEAN :
          /\ cur' = [cur EXCEPT ![w] = j]
          /\ pc' = [pc EXCEPT ![w] = IF AnswersDirectly(j, linked) THEN "direct" ELSE "begin"]
    BY <1>7 DEF StartJob, Holds, Goto
  <2>2. pc[w] = "idle" /\ PurgesOnly /\ clear' = clear
    BY <1>7 DEF StartJob, jobVars, effectVars, PurgesOnly
  <2>3. ~clear[w]
    BY <1>p, <2>2 DEF WorkerPath
  <2>4. IF AnswersDirectly(j, linked) THEN ~Button(j) ELSE RuntimeConfigured
    BY DEF AnswersDirectly, Button
  <2>5. WorkerPath(w)'
    BY <1>b, <2>1, <2>2, <2>3, <2>4 DEF WorkerPath, TypeOK, Button, Kind
  <2>6. QED
    BY <1>2, <1>b, <2>1, <2>2, <2>5 DEF SameWorker, TypeOK
<1>8. ASSUME NEW w \in Workers, BeginOperation(w) PROVE PathInv'
  <2>1. /\ pc[w] = "begin" /\ cur[w] \in Jobs
        /\ op' = [op EXCEPT ![cur[w]] = IF @ = "NONE" THEN "STARTED" ELSE @]
        /\ pc' = [pc EXCEPT ![w] = Verdict(cur[w])]
        /\ UNCHANGED <<bound, execs, delivery, cleanup, cur, clear>>
    BY <1>b, <1>8 DEF BeginOperation, Goto, InHand, jobVars
  <2>2. ~clear[w]
    BY <1>p, <2>1 DEF WorkerPath
  <2>3. /\ Verdict(cur[w]) \in {"call", "ambiguous", "bind", "reply"}
        /\ Verdict(cur[w]) \in {"bind", "reply"} => op[cur[w]] = "DONE"
        /\ Verdict(cur[w]) = "reply" => Kind(cur[w]) # "TEXT"
    BY <1>b, <2>1 DEF Verdict, AfterReply, TypeOK, OpStatus
  <2>4. WorkerPath(w)'
    <3>1. RuntimeConfigured
      BY <1>p, <2>1 DEF WorkerPath
    <3>2. pc'[w] = Verdict(cur[w])
      BY <1>b, <2>1 DEF TypeOK
    <3>3. op[cur[w]] = "DONE" => op'[cur[w]] = "DONE"
      BY <1>b, <2>1 DEF TypeOK
    <3>4. QED
      BY <2>1, <2>2, <2>3, <3>1, <3>2, <3>3 DEF WorkerPath, Kind
  <2>5. RowsGrow /\ \A v \in Workers : v # w => SameWorker(v)
    BY <1>b, <2>1 DEF RowsGrow, SameWorker, TypeOK
  <2>6. ASSUME NEW j \in Jobs PROVE RowPath(j)'
    <3>1. RowPath(j) /\ (op'[j] = "DONE" <=> op[j] = "DONE")
      BY <1>b, <2>1 DEF PathInv, TypeOK
    <3>2. QED
      BY <2>1, <3>1 DEF RowPath, Button, Kind
  <2>7. QED
    BY <1>a, <2>4, <2>5, <2>6, OthersWait
<1>9. ASSUME NEW w \in Workers, OperationReturns(w) \/ OperationThrows(w) PROVE PathInv'
  <2>1. PICK step \in {"complete", "failRetry", "failFinal"} :
          pc' = [pc EXCEPT ![w] = step]
    BY <1>9 DEF OperationReturns, OperationThrows, Goto
  <2>2. /\ pc[w] = "call" /\ cur[w] \in Jobs
        /\ execs' = [execs EXCEPT ![cur[w]] = @ + 1]
        /\ UNCHANGED <<bound, op, delivery, cleanup, cur>>
    BY <1>b, <1>9 DEF OperationReturns, OperationThrows, InHand, jobVars
  <2>3. ~clear[w]
    BY <1>p, <2>2 DEF WorkerPath
  <2>4. op[cur[w]] = "STARTED"
    BY <2>2 DEF RunInv, CallerIsFirst
  <2>5. WorkerPath(w)' /\ \A v \in Workers : v # w => SameWorker(v)
    <3>1. CASE OperationReturns(w)
      <4>1. PICK c \in (IF Kind(cur[w]) = "CALLBACK" THEN BOOLEAN ELSE {FALSE}) :
              clear' = [clear EXCEPT ![w] = c]
        BY <3>1 DEF OperationReturns
      <4>2. pc'[w] = "complete"
        BY <1>b, <3>1 DEF OperationReturns, Goto, TypeOK
      <4>3. RuntimeConfigured
        BY <1>p, <2>2 DEF WorkerPath
      <4>4. QED
        BY <1>b, <2>1, <2>2, <4>1, <4>2, <4>3 DEF WorkerPath, SameWorker, TypeOK, Button, Kind
    <3>2. CASE OperationThrows(w)
      BY <1>b, <2>1, <2>2, <2>3, <3>2 DEF OperationThrows, WorkerPath, SameWorker, TypeOK, Goto
    <3>3. QED
      BY <1>9, <3>1, <3>2
  <2>6. RowsGrow
    BY <2>2 DEF RowsGrow
  <2>7. ASSUME NEW j \in Jobs PROVE RowPath(j)'
    <3>1. RowPath(j) /\ (op[j] = "DONE" => execs'[j] = execs[j])
      BY <1>b, <2>2, <2>4 DEF PathInv, TypeOK
    <3>2. QED
      BY <2>2, <3>1 DEF RowPath, Button, Kind
  <2>8. QED
    BY <1>a, <2>5, <2>6, <2>7, OthersWait
<1>10. ASSUME NEW w \in Workers, CompleteOperation(w) PROVE PathInv'
  <2>1. /\ pc[w] = "complete" /\ cur[w] \in Jobs
        /\ op' = [op EXCEPT ![cur[w]] = "DONE"]
        /\ pc' = [pc EXCEPT ![w] = AfterReply(cur[w])]
        /\ UNCHANGED <<bound, execs, delivery, cleanup, cur, clear>>
    BY <1>b, <1>10 DEF CompleteOperation, Goto, InHand, jobVars
  <2>2. execs[cur[w]] = 1
    BY <1>b, <2>1 DEF RunInv, CompleterRan, AtMostOnce, TypeOK
  <2>3. /\ AfterReply(cur[w]) \in {"bind", "reply"}
        /\ AfterReply(cur[w]) = "reply" <=> Kind(cur[w]) # "TEXT"
    BY DEF AfterReply
  <2>4. WorkerPath(w)'
    <3>1. clear[w] => Button(cur[w])
      BY <1>p DEF WorkerPath
    <3>2. op'[cur[w]] = "DONE" /\ pc'[w] = AfterReply(cur[w])
      BY <1>b, <2>1 DEF TypeOK
    <3>3. QED
      BY <2>1, <2>3, <3>1, <3>2 DEF WorkerPath, Button, Kind
  <2>5. RowsGrow /\ \A v \in Workers : v # w => SameWorker(v)
    BY <1>b, <2>1 DEF RowsGrow, SameWorker, TypeOK
  <2>6. ASSUME NEW j \in Jobs PROVE RowPath(j)'
    <3>1. RowPath(j)
      BY DEF PathInv
    <3>2. op'[j] = op[j] \/ (op'[j] = "DONE" /\ execs[j] = 1)
      BY <1>b, <2>1, <2>2 DEF TypeOK
    <3>3. QED
      BY <2>1, <3>1, <3>2 DEF RowPath, Button, Kind
  <2>7. QED
    BY <1>a, <2>4, <2>5, <2>6, OthersWait
<1>11. ASSUME NEW w \in Workers, BindTurn(w) PROVE PathInv'
  <2>1. /\ pc[w] = "bind" /\ cur[w] \in Jobs
        /\ bound' = [bound EXCEPT ![cur[w]] = TRUE]
        /\ pc' = [pc EXCEPT ![w] = "reply"]
        /\ UNCHANGED <<op, execs, delivery, cleanup, cur, clear>>
    BY <1>b, <1>11 DEF BindTurn, Goto, InHand, effectVars
  <2>2. ~clear[w] /\ op[cur[w]] = "DONE"
    BY <1>p, <2>1 DEF WorkerPath
  <2>3. WorkerPath(w)'
    BY <1>b, <2>1, <2>2 DEF WorkerPath, TypeOK
  <2>4. RowsGrow /\ \A v \in Workers : v # w => SameWorker(v)
    BY <1>b, <2>1 DEF RowsGrow, SameWorker, TypeOK
  <2>5. ASSUME NEW j \in Jobs PROVE RowPath(j)'
    <3>1. RowPath(j) /\ (bound[j] => bound'[j])
      BY <1>b, <2>1 DEF PathInv, TypeOK
    <3>2. QED
      BY <2>1, <3>1 DEF RowPath, Button, Kind
  <2>6. QED
    BY <1>a, <2>3, <2>4, <2>5, OthersWait
<1>12. ASSUME NEW w \in Workers, EnsureDelivery(w) PROVE PathInv'
  <2>1. /\ pc[w] \in {"direct", "reply"} /\ cur[w] \in Jobs
        /\ delivery' = [delivery EXCEPT ![cur[w]] =
                          Queued(@, IF pc[w] = "direct" THEN "DIRECT" ELSE "REPLY")]
        /\ pc' = [pc EXCEPT ![w] = IF clear[w] THEN "cleanup" ELSE "finish"]
        /\ UNCHANGED <<op, execs, bound, cleanup, cur, clear>>
    BY <1>b, <1>12 DEF EnsureDelivery, Goto, InHand, jobVars
  <2>2. /\ WorkerPath(w) /\ RowPath(cur[w])
        /\ pc[w] = "direct" => ~clear[w] /\ ~Button(cur[w])
    BY <1>p, <2>1 DEF PathInv, WorkerPath
  <2>3. \A j \in Jobs : delivery'[j] =
          IF j = cur[w] /\ delivery[j] \in {"NONE", "PURGED"}
          THEN IF pc[w] = "direct" THEN "DIRECT" ELSE "REPLY"
          ELSE delivery[j]
    BY <1>b, <2>1 DEF TypeOK, Queued
  <2>4. clear[w] => delivery'[cur[w]] = "REPLY"
    BY <1>b, <2>1, <2>2, <2>3 DEF RowPath, WorkerPath, TypeOK, Answer
  <2>5. WorkerPath(w)'
    <3>1. clear[w] => Button(cur[w])
      BY <2>2 DEF WorkerPath
    <3>2. pc'[w] = IF clear[w] THEN "cleanup" ELSE "finish"
      BY <1>b, <2>1 DEF TypeOK
    <3>3. QED
      BY <2>1, <2>4, <3>1, <3>2 DEF WorkerPath, Button, Kind
  <2>6. RowsGrow /\ \A v \in Workers : v # w => SameWorker(v)
    <3>1. \A v \in Workers : v # w => SameWorker(v)
      BY <1>b, <2>1 DEF SameWorker, TypeOK
    <3>2. RowsGrow
      BY <2>1, <2>2, <2>3 DEF RowsGrow
    <3>3. QED
      BY <3>1, <3>2
  <2>7. ASSUME NEW j \in Jobs PROVE RowPath(j)'
    <3>1. CASE j = cur[w]
      BY <2>1, <2>2, <2>3, <3>1 DEF RowPath, WorkerPath, Button, Kind
    <3>2. CASE j # cur[w]
      BY <2>1, <2>3, <3>2 DEF PathInv, RowPath, Button, Kind
    <3>3. QED
      BY <3>1, <3>2
  <2>8. QED
    BY <1>a, <2>5, <2>6, <2>7, OthersWait
<1>13. ASSUME NEW w \in Workers, EnsureKeyboardCleanup(w) PROVE PathInv'
  <2>1. /\ pc[w] = "cleanup" /\ cur[w] \in Jobs
        /\ cleanup' = [cleanup EXCEPT ![cur[w]] = TRUE]
        /\ pc' = [pc EXCEPT ![w] = "finish"]
        /\ UNCHANGED <<op, execs, bound, delivery, cur, clear>>
    BY <1>b, <1>13 DEF EnsureKeyboardCleanup, Goto, InHand, jobVars
  <2>2. Button(cur[w]) /\ delivery[cur[w]] \in {"REPLY", "PURGED"}
    BY <1>p, <2>1 DEF WorkerPath
  <2>3. WorkerPath(w)'
    BY <1>b, <2>1, <2>2 DEF WorkerPath, TypeOK, Button, Kind
  <2>4. RowsGrow /\ \A v \in Workers : v # w => SameWorker(v)
    BY <1>b, <2>1 DEF RowsGrow, SameWorker, TypeOK
  <2>5. ASSUME NEW j \in Jobs PROVE RowPath(j)'
    <3>1. RowPath(j) /\ (j # cur[w] => cleanup'[j] = cleanup[j])
      BY <1>b, <2>1 DEF PathInv, TypeOK
    <3>2. QED
      BY <2>1, <2>2, <3>1 DEF RowPath, Button, Kind
  <2>6. QED
    BY <1>a, <2>3, <2>4, <2>5, OthersWait
<1>14. ASSUME NEW w \in Workers, NEW final, LeaveJob(w, final) PROVE PathInv'
  <2>1. PICK step \in {"idle", "sweep"} : pc' = [pc EXCEPT ![w] = step]
    BY <1>14 DEF LeaveJob, Goto
  <2>2. /\ cur' = [cur EXCEPT ![w] = NoJob] /\ clear' = [clear EXCEPT ![w] = FALSE]
        /\ PurgesOnly
    BY <1>14 DEF LeaveJob, effectVars, PurgesOnly
  <2>3. WorkerPath(w)'
    BY <1>a, <1>b, <2>1, <2>2, RestIsOnPath DEF TypeOK
  <2>4. \A v \in Workers : v # w => SameWorker(v)
    BY <1>b, <2>1, <2>2 DEF SameWorker, TypeOK
  <2>5. QED
    BY <1>2, <2>2, <2>3, <2>4
<1>15. ASSUME NEW w \in Workers, CleanupChannelRecords(w) PROVE PathInv'
  <2>1. PurgesOnly
    BY <1>a, <1>15, PurgeOnlyPurges DEF CleanupChannelRecords
  <2>2. UNCHANGED <<cur, clear>> /\ pc[w] = "sweep" /\ pc' = [pc EXCEPT ![w] = "idle"]
    BY <1>15 DEF CleanupChannelRecords, Goto
  <2>3. ~clear[w]
    BY <1>p, <2>2 DEF WorkerPath
  <2>4. WorkerPath(w)'
    BY <1>a, <1>b, <2>2, <2>3, RestIsOnPath DEF TypeOK
  <2>5. QED
    BY <1>2, <1>b, <2>1, <2>2, <2>4 DEF SameWorker, TypeOK
<1>16. ASSUME NEW w \in Workers, DatabaseError(w) PROVE PathInv'
  <2>1. /\ UNCHANGED <<cur, clear>> /\ PurgesOnly
        /\ pc[w] \in Writing /\ pc' = [pc EXCEPT ![w] = "failRetry"]
    BY <1>16 DEF DatabaseError, Goto, jobVars, effectVars, PurgesOnly
  <2>2. clear[w] => Button(cur[w])
    BY <1>p DEF WorkerPath
  <2>3. WorkerPath(w)'
    BY <1>b, <2>1, <2>2 DEF WorkerPath, TypeOK, Button, Kind
  <2>4. QED
    BY <1>2, <1>b, <2>1, <2>3 DEF SameWorker, TypeOK
<1>17. ASSUME NEW w \in Workers, Crash(w) PROVE PathInv'
  <2>1. /\ PurgesOnly /\ pc' = [pc EXCEPT ![w] = "idle"]
        /\ cur' = [cur EXCEPT ![w] = NoJob] /\ clear' = [clear EXCEPT ![w] = FALSE]
    BY <1>17 DEF Crash, Goto, jobVars, effectVars, PurgesOnly
  <2>2. WorkerPath(w)'
    BY <1>a, <1>b, <2>1, RestIsOnPath DEF TypeOK
  <2>3. QED
    BY <1>2, <1>b, <2>1, <2>2 DEF SameWorker, TypeOK
<1>18. CASE UNCHANGED vars
  BY <1>1, <1>18 DEF vars, SameWorker, PurgesOnly
<1>19. QED
  BY <1>3, <1>4, <1>5, <1>6, <1>7, <1>8, <1>9, <1>10, <1>11, <1>12, <1>13, <1>14, <1>15,
     <1>16, <1>17, <1>18
  DEF Next, WorkerStep, MarkSucceeded, MarkAmbiguous, MarkFailed

LEMMA RunInvAlways == Spec => [](RowInv /\ RunInv)
<1>1. Init => RunInv
  BY DEF Init, RunInv, ExecutedIsRow, FreshIsUnexecuted, CallerIsFirst, OneCaller,
         CompleterRan, AtMostOnce
<1>2. QED
  BY <1>1, RowInvInit, RowInvNext, RunInvNext, PTL DEF Spec

LEMMA PathInvAlways == Spec => []PathInv
<1>1. Init => PathInv
  BY DEF Init, PathInv, WorkerPath, RowPath
<1>2. QED
  BY <1>1, RunInvAlways, PathInvNext, PTL DEF Spec

(* A queued Assistant reply stands on the recorded result of one execution *)
(* of its own job, a text's turn is bound to the job before its reply is   *)
(* queued, and no keyboard is removed without the reply that replaces it.  *)
THEOREM ReplyIsGrounded == Spec => []ReplyFollowsExecution
<1>1. PathInv => ReplyFollowsExecution
  BY DEF PathInv, RowPath, ReplyFollowsExecution
<1>2. QED
  BY <1>1, PathInvAlways, PTL

-----------------------------------------------------------------------------
(* The inbox implements its promise.  At most one row of an update is      *)
(* there, the others have never been anything, so the life of an update is *)
(* what its one row shows; and every step moves that row as the promise    *)
(* allows, or not at all.                                                  *)

Blank(j) == op[j] = "NONE" /\ execs[j] = 0 /\ delivery[j] = "NONE"

NoneIsBlank == \A j \in Jobs : status[j] = "NONE" => Blank(j)

HeldIsPresent == \A w \in Workers, j \in Jobs : claimed[w][j] > 0 => Present(j)

LifeInv == NoneIsBlank /\ HeldIsPresent

LEMMA LifeInvKept ==
  ASSUME LifeInv,
         \A j \in Jobs : status'[j] = "NONE" => status[j] = "NONE",
         \A j \in Jobs : status[j] = "NONE" /\ Blank(j) =>
           op'[j] = op[j] /\ execs'[j] = execs[j] /\ delivery'[j] = delivery[j],
         \A w \in Workers, j \in Jobs : claimed'[w][j] > 0 =>
           status'[j] \notin {"NONE", "PURGED"} \/ (claimed[w][j] > 0 /\ status'[j] = status[j])
  PROVE  LifeInv'
<1>1. NoneIsBlank'
  BY DEF LifeInv, NoneIsBlank, Blank
<1>2. HeldIsPresent'
  BY DEF LifeInv, HeldIsPresent, Present
<1>3. QED
  BY <1>1, <1>2 DEF LifeInv

LEMMA LifeInvNext == TypeInv /\ LifeInv /\ [Next]_vars => LifeInv'
<1> SUFFICES ASSUME TypeInv, LifeInv, [Next]_vars PROVE LifeInv'
  OBVIOUS
<1>a. TypeOK /\ InHand
  BY DEF TypeInv
<1>b. ASSUME NEW w \in Workers, pc[w] \notin {"idle", "sweep"}
      PROVE  cur[w] \in Jobs /\ claimed[w][cur[w]] > 0 /\ status[cur[w]] \notin {"NONE", "PURGED"}
  BY <1>a, <1>b DEF InHand, LifeInv, HeldIsPresent, Present
<1>1. ASSUME NEW j \in Jobs, Accept(j) PROVE LifeInv'
  <2>1. PICK S \in SUBSET {k \in Jobs : status[k] = "SUCCEEDED" /\ ~Held(k)} :
          /\ status' = [k \in Jobs |-> IF k = j THEN "PENDING"
                                       ELSE IF k \in S THEN "PURGED" ELSE status[k]]
          /\ Purge(S, S)
    BY <1>1 DEF Accept, Purgeable
  <2>2. UNCHANGED <<op, execs, claimed>>
    BY <1>1 DEF Accept, workerVars
  <2>3. \A k \in Jobs : delivery[k] = "NONE" => delivery'[k] = "NONE"
    BY <2>1 DEF Purge
  <2>4. \A k \in Jobs : status'[k] = "NONE" => status[k] = "NONE"
    BY <2>1
  <2>5. \A w \in Workers, k \in Jobs : claimed[w][k] > 0 => k \notin S
    BY <2>1 DEF Held
  <2>6. \A w \in Workers, k \in Jobs : claimed'[w][k] > 0 =>
          status'[k] \notin {"NONE", "PURGED"} \/ (claimed[w][k] > 0 /\ status'[k] = status[k])
    BY <2>1, <2>2, <2>5
  <2>7. QED
    BY <2>2, <2>3, <2>4, <2>6, LifeInvKept DEF Blank
<1>2. ASSUME NEW w \in Workers, ClaimInboundJobs(w) PROVE LifeInv'
  <2>1. PICK S \in SUBSET {j \in Jobs : status[j] \in {"PENDING", "PROCESSING"}} :
          /\ status'  = [j \in Jobs |-> IF j \in S THEN "PROCESSING" ELSE status[j]]
          /\ claimed' = [claimed EXCEPT ![w] =
                           [j \in Jobs |-> IF j \in S THEN attempt[j] + 1 ELSE 0]]
    BY <1>2 DEF ClaimInboundJobs, Claimable
  <2>2. UNCHANGED <<op, execs, delivery>>
    BY <1>2 DEF ClaimInboundJobs, effectVars
  <2>3. \A v \in Workers, j \in Jobs : claimed'[v][j] > 0 =>
          status'[j] \notin {"NONE", "PURGED"} \/ (claimed[v][j] > 0 /\ status'[j] = status[j])
    BY <1>a, <2>1 DEF TypeOK
  <2>4. QED
    BY <2>1, <2>2, <2>3, LifeInvKept
<1>3. ASSUME NEW w \in Workers, CleanupChannelRecords(w) PROVE LifeInv'
  <2>1. PICK S \in SUBSET {k \in Jobs : status[k] # "NONE" /\ ~Held(k)} :
          status' = [k \in Jobs |-> IF k \in S THEN "PURGED" ELSE status[k]]
    BY <1>3 DEF CleanupChannelRecords, Purgeable
  <2>2. UNCHANGED <<op, execs, claimed>>
    BY <1>3 DEF CleanupChannelRecords
  <2>3. \A k \in Jobs : delivery[k] = "NONE" => delivery'[k] = "NONE"
    BY <1>3 DEF CleanupChannelRecords, Purge
  <2>4. \A v \in Workers, k \in Jobs : claimed'[v][k] > 0 =>
          status'[k] \notin {"NONE", "PURGED"} \/ (claimed[v][k] > 0 /\ status'[k] = status[k])
    BY <2>1, <2>2 DEF Held
  <2>5. QED
    BY <2>1, <2>2, <2>3, <2>4, LifeInvKept DEF Blank
<1>4. ASSUME NEW w \in Workers, pc[w] \notin {"idle", "sweep"}, UNCHANGED <<status, claimed>>,
             \A j \in Jobs : j # cur[w] =>
               op'[j] = op[j] /\ execs'[j] = execs[j] /\ delivery'[j] = delivery[j]
      PROVE  LifeInv'
  BY <1>b, <1>4, LifeInvKept
<1>5. ASSUME NEW w \in Workers,
             BeginOperation(w) \/ OperationReturns(w) \/ OperationThrows(w)
             \/ CompleteOperation(w) \/ BindTurn(w) \/ EnsureDelivery(w)
             \/ EnsureKeyboardCleanup(w) \/ DatabaseError(w)
      PROVE  LifeInv'
  <2>1. pc[w] \notin {"idle", "sweep"} /\ UNCHANGED <<status, claimed>>
    BY <1>5 DEF BeginOperation, OperationReturns, OperationThrows, CompleteOperation, BindTurn,
                EnsureDelivery, EnsureKeyboardCleanup, DatabaseError, Writing, jobVars
  <2>2. \A j \in Jobs : j # cur[w] =>
          op'[j] = op[j] /\ execs'[j] = execs[j] /\ delivery'[j] = delivery[j]
    BY <1>a, <1>5 DEF BeginOperation, OperationReturns, OperationThrows, CompleteOperation,
                BindTurn, EnsureDelivery, EnsureKeyboardCleanup, DatabaseError, TypeOK, effectVars
  <2>3. QED
    BY <1>4, <2>1, <2>2
<1>6. ASSUME NEW w \in Workers, NEW final \in Settled, LeaveJob(w, final),
             pc[w] \notin {"idle", "sweep"}
      PROVE  LifeInv'
  <2>1. /\ status' = [status EXCEPT ![cur[w]] = final]
        /\ claimed' = [claimed EXCEPT ![w][cur[w]] = 0]
        /\ UNCHANGED <<op, execs, delivery>>
    BY <1>6 DEF LeaveJob, effectVars
  <2>2. /\ \A j \in Jobs : status'[j] = status[j] \/ status'[j] \notin {"NONE", "PURGED"}
        /\ \A v \in Workers, j \in Jobs : claimed'[v][j] > 0 => claimed[v][j] > 0
    BY <1>a, <1>b, <1>6, <2>1 DEF Settled, TypeOK
  <2>3. QED
    BY <2>1, <2>2, LifeInvKept
<1>7. ASSUME NEW w \in Workers, MarkSucceeded(w) \/ MarkAmbiguous(w) \/ MarkFailed(w)
      PROVE  LifeInv'
  BY <1>6, <1>7 DEF MarkSucceeded, MarkAmbiguous, MarkFailed, Outcome, Settled
<1>8. ASSUME NEW w \in Workers, Crash(w) PROVE LifeInv'
  <2>1. \A v \in Workers, j \in Jobs : claimed'[v][j] > 0 => claimed[v][j] > 0
    BY <1>a, <1>8 DEF Crash, TypeOK
  <2>2. QED
    BY <1>8, <2>1, LifeInvKept DEF Crash, jobVars, effectVars
<1>9. CASE UNCHANGED <<status, op, execs, delivery, claimed>>
  BY <1>9, LifeInvKept
<1>10. QED
  BY <1>1, <1>2, <1>3, <1>5, <1>7, <1>8, <1>9
  DEF Next, WorkerStep, LeaseExpires, TelegramStops, StartJob, jobVars, effectVars, workerVars, vars

LEMMA LifeInvAlways == Spec => []LifeInv
<1>1. Init => LifeInv
  BY DEF Init, LifeInv, NoneIsBlank, HeldIsPresent, Blank
<1>2. TypeInv /\ LifeInv /\ [Next]_vars => LifeInv'
  BY LifeInvNext
<1>3. RowInv => TypeInv
  BY DEF RowInv
<1>4. QED
  BY <1>1, <1>2, <1>3, RunInvAlways, PTL DEF Spec

(* What one row shows of its update. *)
Stage(s) ==
  IF s = "NONE" THEN "new"
  ELSE IF s \in {"PENDING", "PROCESSING"} THEN "taken"
  ELSE IF s = "SUCCEEDED" THEN "done"
  ELSE IF s \in {"FAILED_RETRYABLE", "FAILED_TERMINAL"} THEN "failed"
  ELSE "forgotten"

Sight(d) ==
  IF d = "NONE" THEN "none" ELSE IF d = "REPLY" THEN "reply"
  ELSE IF d = "DIRECT" THEN "direct" ELSE "forgotten"

LifeRecord(a, b, n, r, e) ==
  [stage |-> a, began |-> b, ran |-> n, result |-> r, answer |-> e]

Look(s, o, n, d) == LifeRecord(Stage(s), o # "NONE", n, o = "DONE", Sight(d))

RowLife(j) == Look(status[j], op[j], execs[j], delivery[j])

Fresh == [stage |-> "new", began |-> FALSE, ran |-> 0, result |-> FALSE, answer |-> "none"]

(* The only row of an update that ever was one stands for all of them.     *)
LEMMA OneRowIsTheLife ==
  TypeInv /\ RowInv /\ RunInv /\ LifeInv =>
    \A j \in Jobs : status[j] # "NONE" => LifeOf(RowsOf(UpdateOf[j])) = RowLife(j)
<1> SUFFICES ASSUME TypeInv, RowInv, RunInv, LifeInv, NEW j \in Jobs, status[j] # "NONE"
             PROVE  LifeOf(RowsOf(UpdateOf[j])) = RowLife(j)
  OBVIOUS
<1> DEFINE rows == RowsOf(UpdateOf[j])
<1>1. j \in rows /\ rows \subseteq Jobs
  BY DEF RowsOf
<1>2. \A k \in rows : k = j \/ (status[k] = "NONE" /\ Blank(k))
  BY DEF RowsOf, RowInv, RowsApart, LifeInv, NoneIsBlank
<1> HIDE DEF rows
<1>3. StageOf(rows) = Stage(status[j])
  BY <1>1, <1>2 DEF StageOf, Stage, TypeInv, TypeOK, JobStatus
<1>4. AnswerOf(rows) = Sight(delivery[j])
  BY <1>1, <1>2 DEF AnswerOf, Sight, TypeInv, TypeOK, Answer, Blank
<1>5. /\ (\E k \in rows : op[k] # "NONE") = (op[j] # "NONE")
      /\ (\E k \in rows : op[k] = "DONE") = (op[j] = "DONE")
  BY <1>1, <1>2 DEF Blank
<1>6. (IF \A k \in rows : execs[k] = 0 THEN 0
       ELSE CHOOSE n \in {execs[k] : k \in rows} : n > 0) = execs[j]
  <2>1. CASE execs[j] = 0
    BY <1>1, <1>2, <2>1 DEF Blank
  <2>2. CASE execs[j] # 0
    <3>1. execs[j] \in {execs[k] : k \in rows} /\ execs[j] > 0
      BY <1>1, <2>2 DEF TypeInv, TypeOK
    <3>2. \A n \in {execs[k] : k \in rows} : n > 0 => n = execs[j]
      BY <1>2 DEF Blank
    <3>3. (CHOOSE n \in {execs[k] : k \in rows} : n > 0) = execs[j]
      BY <3>1, <3>2
    <3>4. QED
      BY <1>1, <2>2, <3>3
  <2>3. QED
    BY <2>1, <2>2
<1>7. LifeOf(rows) = RowLife(j)
  BY <1>3, <1>4, <1>5, <1>6 DEF LifeOf, RowLife, Look, LifeRecord
<1>8. QED
  BY <1>7 DEF rows

LEMMA NoRowIsFresh ==
  LifeInv => \A u \in Updates :
    (\A j \in RowsOf(u) : status[j] = "NONE") => LifeOf(RowsOf(u)) = Fresh
<1> SUFFICES ASSUME LifeInv, NEW u \in Updates, \A j \in RowsOf(u) : status[j] = "NONE"
             PROVE  LifeOf(RowsOf(u)) = Fresh
  OBVIOUS
<1> DEFINE rows == RowsOf(u)
<1>1. \A k \in rows : status[k] = "NONE" /\ Blank(k)
  BY DEF RowsOf, LifeInv, NoneIsBlank
<1> HIDE DEF rows
<1>2. StageOf(rows) = "new" /\ AnswerOf(rows) = "none"
  BY <1>1 DEF StageOf, AnswerOf, Blank
<1>3. LifeOf(rows) = Fresh
  BY <1>1, <1>2 DEF LifeOf, Fresh, Blank
<1>4. QED
  BY <1>3 DEF rows

LEMMA OneRowIsTheLifeNext ==
  (TypeInv /\ RowInv /\ RunInv /\ LifeInv =>
    \A j \in Jobs : status[j] # "NONE" => LifeOf(RowsOf(UpdateOf[j])) = RowLife(j))'
  BY OneRowIsTheLife, PTL

LEMMA NoRowIsFreshNext ==
  (LifeInv => \A u \in Updates :
    (\A j \in RowsOf(u) : status[j] = "NONE") => LifeOf(RowsOf(u)) = Fresh)'
  BY NoRowIsFresh, PTL

(* The moves of one row, as the promise sees them. *)
SameOrMoves(x, y) == y = x \/ Promise!Moves(x, y)

LEMMA LifeFields ==
  ASSUME NEW a, NEW b, NEW n, NEW r, NEW e
  PROVE  /\ LifeRecord(a, b, n, r, e).stage = a
         /\ LifeRecord(a, b, n, r, e).began = b
         /\ LifeRecord(a, b, n, r, e).ran = n
         /\ LifeRecord(a, b, n, r, e).result = r
         /\ LifeRecord(a, b, n, r, e).answer = e
  BY DEF LifeRecord

LEMMA SettleMoves ==
  ASSUME NEW s \in JobStatus \ {"NONE", "PURGED"}, NEW o, NEW n, NEW d \in Answer,
         NEW final \in Settled, final = "SUCCEEDED" => d # "NONE"
  PROVE  SameOrMoves(Look(s, o, n, d), Look(final, o, n, d))
<1>1. Promise!Settle(Look(s, o, n, d), Look(final, o, n, d))
  BY DEF Promise!Settle, Look, LifeRecord, Stage, Sight, JobStatus, Answer, Settled
<1>2. QED
  BY <1>1 DEF SameOrMoves, Promise!Moves

LEMMA ForgetMoves ==
  ASSUME NEW s \in JobStatus, NEW o, NEW n, NEW d \in Answer,
         NEW t, t = s \/ (t = "PURGED" /\ s \in Settled),
         NEW e, e = d \/ (e = "PURGED" /\ d # "NONE")
  PROVE  SameOrMoves(Look(s, o, n, d), Look(t, o, n, e))
<1> DEFINE x == Look(s, o, n, d)
           y == Look(t, o, n, e)
<1>1. x.stage = Stage(s) /\ y.stage = Stage(t) /\ x.answer = Sight(d) /\ y.answer = Sight(e)
  BY LifeFields DEF Look
<1>2. y = [x EXCEPT !.stage = Stage(t), !.answer = Sight(e)]
  <2>1. PICK b : b = (o # "NONE")
    OBVIOUS
  <2>2. PICK r : r = (o = "DONE")
    OBVIOUS
  <2>3. /\ x = LifeRecord(Stage(s), b, n, r, Sight(d))
        /\ y = LifeRecord(Stage(t), b, n, r, Sight(e))
    BY <2>1, <2>2, Zenon DEF Look
  <2> HIDE DEF x, y
  <2>4. PICK z : z = [x EXCEPT !.stage = Stage(t)]
    OBVIOUS
  <2>5. z = LifeRecord(Stage(t), b, n, r, Sight(d))
    BY <2>3, <2>4 DEF LifeRecord
  <2>6. [z EXCEPT !.answer = Sight(e)] = y
    BY <2>3, <2>5 DEF LifeRecord
  <2>7. [x EXCEPT !.stage = Stage(t), !.answer = Sight(e)] = [z EXCEPT !.answer = Sight(e)]
    BY <2>4
  <2>8. QED
    BY <2>6, <2>7
<1> HIDE DEF x, y
<1>3. y = [x EXCEPT !.stage = y.stage, !.answer = y.answer]
  BY <1>1, <1>2, Zenon
<1>4. y.stage # x.stage => x.stage \in {"done", "failed"} /\ y.stage = "forgotten"
  BY <1>1 DEF Stage, Settled
<1>5. y.answer # x.answer => x.answer # "none" /\ y.answer = "forgotten"
  BY <1>1 DEF Sight, Answer
<1>6. Promise!Forget(x, y)
  BY <1>3, <1>4, <1>5, Zenon DEF Promise!Forget
<1>7. QED
  BY <1>6, Zenon DEF SameOrMoves, Promise!Moves, x, y

LEMMA AnswerMoves ==
  ASSUME NEW s \in JobStatus \ {"NONE"}, NEW o, NEW n, NEW d \in {"NONE", "PURGED"},
         NEW e \in {"DIRECT", "REPLY"}, e = "REPLY" => o = "DONE"
  PROVE  SameOrMoves(Look(s, o, n, d), Look(s, o, n, e))
<1> DEFINE x == Look(s, o, n, d)
           y == Look(s, o, n, e)
<1>1. x.stage # "new" /\ x.answer \in {"none", "forgotten"}
  BY LifeFields DEF Look, Stage, Sight, JobStatus
<1>2. y = [x EXCEPT !.answer = Sight(e)]
  BY DEF Look, LifeRecord
<1>3. (e = "DIRECT" => Sight(e) = "direct") /\ (e = "REPLY" => Sight(e) = "reply")
  BY DEF Sight
<1>4. e = "REPLY" => x.result
  <2>1. PICK r : r = (o = "DONE")
    OBVIOUS
  <2>2. PICK b : b = (o # "NONE")
    OBVIOUS
  <2>3. x = LifeRecord(Stage(s), b, n, r, Sight(d))
    BY <2>1, <2>2, Zenon DEF Look
  <2> HIDE DEF x
  <2>4. x.result = r
    BY <2>3, LifeFields
  <2>5. QED
    BY <2>1, <2>4
<1>5. Promise!Answer(x, y)
  BY <1>1, <1>2, <1>3, <1>4 DEF Promise!Answer
<1>6. QED
  BY <1>5 DEF SameOrMoves, Promise!Moves

(* The truth values of the fields get names: the backends confuse a field  *)
(* that holds a formula with the formula.                                  *)
LEMMA OperationMoves ==
  ASSUME NEW s \in JobStatus \ {"NONE"}, NEW d
  PROVE  /\ \A n : SameOrMoves(Look(s, "NONE", n, d), Look(s, "STARTED", n, d))
         /\ SameOrMoves(Look(s, "STARTED", 0, d), Look(s, "STARTED", 1, d))
         /\ SameOrMoves(Look(s, "STARTED", 1, d), Look(s, "DONE", 1, d))
<1>1. PICK f : f = FALSE
  OBVIOUS
<1>2. PICK t : t = TRUE
  OBVIOUS
<1> DEFINE S == Stage(s)
           D == Sight(d)
<1>3. S # "new"
  BY DEF Stage, JobStatus
<1> HIDE DEF S, D
<1>4. ASSUME NEW n
      PROVE  /\ Look(s, "NONE", n, d) = LifeRecord(S, f, n, f, D)
             /\ Look(s, "STARTED", n, d) = LifeRecord(S, t, n, f, D)
             /\ Look(s, "DONE", n, d) = LifeRecord(S, t, n, t, D)
  <2>1. /\ ("NONE" # "NONE") = FALSE /\ ("STARTED" # "NONE") = TRUE /\ ("DONE" # "NONE") = TRUE
        /\ ("NONE" = "DONE") = FALSE /\ ("STARTED" = "DONE") = FALSE /\ ("DONE" = "DONE") = TRUE
    OBVIOUS
  <2>2. QED
    BY <1>1, <1>2, <2>1, Zenon DEF Look, S, D
<1>5. ASSUME NEW n PROVE Promise!Begin(Look(s, "NONE", n, d), Look(s, "STARTED", n, d))
  <2>1. LifeRecord(S, f, n, f, D).stage = S /\ LifeRecord(S, f, n, f, D).began = f
    BY LifeFields
  <2>2. [LifeRecord(S, f, n, f, D) EXCEPT !.began = t] = LifeRecord(S, t, n, f, D)
    BY DEF LifeRecord
  <2>3. [LifeRecord(S, f, n, f, D) EXCEPT !.began = TRUE] = LifeRecord(S, t, n, f, D)
    BY <1>2, <2>2, Zenon
  <2>4. ~LifeRecord(S, f, n, f, D).began
    BY <1>1, <2>1
  <2>5. Promise!Begin(LifeRecord(S, f, n, f, D), LifeRecord(S, t, n, f, D))
    BY <1>3, <2>1, <2>3, <2>4, Zenon DEF Promise!Begin
  <2>6. QED
    BY <1>4, <2>5, Zenon
<1>6. Promise!Run(Look(s, "STARTED", 0, d), Look(s, "STARTED", 1, d))
  <2>1. LifeRecord(S, t, 0, f, D).began = t /\ LifeRecord(S, t, 0, f, D).ran = 0
    BY LifeFields
  <2>2. [LifeRecord(S, t, 0, f, D) EXCEPT !.ran = 1] = LifeRecord(S, t, 1, f, D)
    BY DEF LifeRecord
  <2>3. LifeRecord(S, t, 0, f, D).began
    BY <1>2, <2>1
  <2>4. Promise!Run(LifeRecord(S, t, 0, f, D), LifeRecord(S, t, 1, f, D))
    BY <2>1, <2>2, <2>3, Zenon DEF Promise!Run
  <2>5. QED
    BY <1>4, <2>4, Zenon
<1>7. Promise!Record(Look(s, "STARTED", 1, d), Look(s, "DONE", 1, d))
  <2>1. LifeRecord(S, t, 1, f, D).ran = 1 /\ LifeRecord(S, t, 1, f, D).result = f
    BY LifeFields
  <2>2. [LifeRecord(S, t, 1, f, D) EXCEPT !.result = t] = LifeRecord(S, t, 1, t, D)
    BY DEF LifeRecord
  <2>3. [LifeRecord(S, t, 1, f, D) EXCEPT !.result = TRUE] = LifeRecord(S, t, 1, t, D)
    BY <1>2, <2>2, Zenon
  <2>4. ~LifeRecord(S, t, 1, f, D).result
    BY <1>1, <2>1
  <2>5. Promise!Record(LifeRecord(S, t, 1, f, D), LifeRecord(S, t, 1, t, D))
    BY <2>1, <2>3, <2>4, Zenon DEF Promise!Record
  <2>6. QED
    BY <1>4, <2>5, Zenon
<1>8. QED
  BY <1>5, <1>6, <1>7 DEF SameOrMoves, Promise!Moves

(* All that is known of a reachable state. *)
InboxInv == TypeInv /\ RowInv /\ RunInv /\ PathInv /\ AnswerInv /\ LifeInv

LEMMA InboxInvAlways == Spec => []InboxInv
<1>1. Init => AnswerInv
  BY DEF Init, AnswerInv, FinishingIsAnswered, SucceededIsAnswered
<1>2. TypeInv /\ AnswerInv /\ [Next]_vars => AnswerInv'
  BY AnswerInvNext
<1>3. RowInv => TypeInv
  BY DEF RowInv
<1>4. Spec => []AnswerInv
  BY <1>1, <1>2, <1>3, RunInvAlways, PTL DEF Spec
<1>5. TypeInv /\ RowInv /\ RunInv /\ PathInv /\ AnswerInv /\ LifeInv => InboxInv
  BY DEF InboxInv
<1>6. QED
  BY <1>3, <1>4, <1>5, RunInvAlways, PathInvAlways, LifeInvAlways, PTL

(* A row that is one moves as the promise allows. *)
LEMMA RowMoves ==
  ASSUME InboxInv, [Next]_vars, NEW j \in Jobs, status[j] # "NONE"
  PROVE  status'[j] # "NONE" /\ SameOrMoves(RowLife(j), RowLife(j)')
<1> DEFINE Moved == SameOrMoves(RowLife(j), RowLife(j)')
<1>a. /\ RowLife(j) = Look(status[j], op[j], execs[j], delivery[j])
      /\ RowLife(j)' = Look(status'[j], op'[j], execs'[j], delivery'[j])
  BY DEF RowLife, Look, LifeRecord, Stage, Sight
<1>b. TypeOK /\ InHand /\ (\A w \in Workers : WorkerPath(w)) /\ RunInv /\ LifeInv /\ AnswerInv
  BY DEF InboxInv, TypeInv, PathInv
<1>c. ASSUME NEW w \in Workers, pc[w] \notin {"idle", "sweep"}
      PROVE  cur[w] \in Jobs /\ status[cur[w]] \notin {"NONE", "PURGED"}
  BY <1>b, <1>c DEF InHand, LifeInv, HeldIsPresent, Present
<1>d. /\ status[j] \in JobStatus \ {"NONE"} /\ op[j] \in OpStatus
      /\ execs[j] \in Nat /\ delivery[j] \in Answer
  BY <1>b DEF TypeOK
<1> HIDE DEF Moved
<1>0. ASSUME status'[j] = status[j], op'[j] = op[j], execs'[j] = execs[j], delivery'[j] = delivery[j]
      PROVE  status'[j] # "NONE" /\ Moved
  BY <1>a, <1>0 DEF SameOrMoves, Moved
<1>1. ASSUME op'[j] = op[j], execs'[j] = execs[j],
             status'[j] = status[j] \/ (status'[j] = "PURGED" /\ status[j] \in Settled),
             delivery'[j] = delivery[j] \/ (delivery'[j] = "PURGED" /\ delivery[j] # "NONE")
      PROVE  status'[j] # "NONE" /\ Moved
  <2>1. SameOrMoves(Look(status[j], op[j], execs[j], delivery[j]),
                    Look(status'[j], op[j], execs[j], delivery'[j]))
    BY <1>d, <1>1, ForgetMoves
  <2>2. QED
    BY <1>a, <1>1, <2>1 DEF Moved
<1>2. ASSUME NEW k \in Jobs, Accept(k) PROVE status'[j] # "NONE" /\ Moved
  <2>1. UNCHANGED <<op, execs>> /\ status[k] = "NONE"
    BY <1>2 DEF Accept
  <2>2. status'[j] = status[j] \/ (status'[j] = "PURGED" /\ status[j] \in Settled)
    BY <1>2, <2>1 DEF Accept, Purgeable, Settled
  <2>3. delivery'[j] = delivery[j] \/ (delivery'[j] = "PURGED" /\ delivery[j] # "NONE")
    BY <1>2 DEF Accept, Purge
  <2>4. QED
    BY <1>1, <2>1, <2>2, <2>3
<1>3. ASSUME NEW w \in Workers, CleanupChannelRecords(w) PROVE status'[j] # "NONE" /\ Moved
  <2>1. UNCHANGED <<op, execs>>
    BY <1>3 DEF CleanupChannelRecords
  <2>2. status'[j] = status[j] \/ (status'[j] = "PURGED" /\ status[j] \in Settled)
    BY <1>3 DEF CleanupChannelRecords, Purgeable, Settled
  <2>3. delivery'[j] = delivery[j] \/ (delivery'[j] = "PURGED" /\ delivery[j] # "NONE")
    BY <1>3 DEF CleanupChannelRecords, Purge
  <2>4. QED
    BY <1>1, <2>1, <2>2, <2>3
<1>4. ASSUME NEW w \in Workers, ClaimInboundJobs(w) PROVE status'[j] # "NONE" /\ Moved
  <2>1. UNCHANGED <<op, execs, delivery>>
    BY <1>4 DEF ClaimInboundJobs, effectVars
  <2>2. status'[j] = status[j] \/
        (status'[j] = "PROCESSING" /\ status[j] \in {"PENDING", "PROCESSING"})
    BY <1>4 DEF ClaimInboundJobs, Claimable
  <2>3. Stage(status'[j]) = Stage(status[j]) /\ status'[j] # "NONE"
    BY <2>2 DEF Stage
  <2>4. RowLife(j)' = RowLife(j)
    BY <1>a, <2>1, <2>3 DEF Look
  <2>5. QED
    BY <2>3, <2>4 DEF SameOrMoves, Moved
<1>5. ASSUME NEW w \in Workers, BeginOperation(w) PROVE status'[j] # "NONE" /\ Moved
  <2>1. UNCHANGED <<status, execs, delivery>>
    BY <1>5 DEF BeginOperation, jobVars
  <2>2. op'[j] = op[j] \/ (op[j] = "NONE" /\ op'[j] = "STARTED")
    BY <1>b, <1>5 DEF BeginOperation, TypeOK
  <2>3. CASE op[j] = "NONE" /\ op'[j] = "STARTED"
    BY <1>a, <1>d, <2>1, <2>3, OperationMoves DEF Moved
  <2>4. QED
    BY <1>0, <2>1, <2>2, <2>3
<1>6. ASSUME NEW w \in Workers, OperationReturns(w) \/ OperationThrows(w)
      PROVE  status'[j] # "NONE" /\ Moved
  <2>1. UNCHANGED <<status, op, delivery>>
    BY <1>6 DEF OperationReturns, OperationThrows, jobVars
  <2>2. execs'[j] = execs[j] \/ (op[j] = "STARTED" /\ execs[j] = 0 /\ execs'[j] = 1)
    <3>1. pc[w] = "call" /\ execs' = [execs EXCEPT ![cur[w]] = @ + 1]
      BY <1>6 DEF OperationReturns, OperationThrows
    <3>2. op[cur[w]] = "STARTED" /\ execs[cur[w]] = 0
      BY <1>b, <3>1 DEF RunInv, CallerIsFirst
    <3>3. QED
      BY <1>b, <3>1, <3>2 DEF TypeOK
  <2>3. CASE op[j] = "STARTED" /\ execs[j] = 0 /\ execs'[j] = 1
    BY <1>a, <1>d, <2>1, <2>3, OperationMoves DEF Moved
  <2>4. QED
    BY <1>0, <2>1, <2>2, <2>3
<1>7. ASSUME NEW w \in Workers, CompleteOperation(w) PROVE status'[j] # "NONE" /\ Moved
  <2>1. UNCHANGED <<status, execs, delivery>>
    BY <1>7 DEF CompleteOperation, jobVars
  <2>2. op'[j] = op[j] \/ (op'[j] = "DONE" /\ execs[j] = 1)
    BY <1>b, <1>7 DEF CompleteOperation, RunInv, CompleterRan, AtMostOnce, TypeOK
  <2>3. CASE op[j] = "STARTED" /\ op'[j] = "DONE" /\ execs[j] = 1
    BY <1>a, <1>d, <2>1, <2>3, OperationMoves DEF Moved
  <2>4. op[j] = "NONE" => execs[j] = 0
    BY <1>b DEF RunInv, FreshIsUnexecuted
  <2>5. QED
    BY <1>0, <1>d, <2>1, <2>2, <2>3, <2>4 DEF OpStatus
<1>8. ASSUME NEW w \in Workers, EnsureDelivery(w) PROVE status'[j] # "NONE" /\ Moved
  <2>1. UNCHANGED <<status, op, execs>>
    BY <1>8 DEF EnsureDelivery, jobVars
  <2>2. \/ delivery'[j] = delivery[j]
        \/ /\ delivery[j] \in {"NONE", "PURGED"} /\ delivery'[j] \in {"DIRECT", "REPLY"}
           /\ delivery'[j] = "REPLY" => op[j] = "DONE"
    BY <1>b, <1>8 DEF EnsureDelivery, Queued, WorkerPath, TypeOK
  <2>3. CASE /\ delivery[j] \in {"NONE", "PURGED"} /\ delivery'[j] \in {"DIRECT", "REPLY"}
             /\ delivery'[j] = "REPLY" => op[j] = "DONE"
    <3>1. SameOrMoves(Look(status[j], op[j], execs[j], delivery[j]),
                      Look(status[j], op[j], execs[j], delivery'[j]))
      BY <1>d, <2>3, AnswerMoves
    <3>2. QED
      BY <1>a, <2>1, <3>1 DEF Moved
  <2>4. QED
    BY <1>0, <2>1, <2>2, <2>3
<1>9. ASSUME NEW w \in Workers, NEW final \in Settled, LeaveJob(w, final),
             pc[w] \notin {"idle", "sweep"}, final = "SUCCEEDED" => pc[w] = "finish"
      PROVE  status'[j] # "NONE" /\ Moved
  <2>1. UNCHANGED <<op, execs, delivery>> /\ status' = [status EXCEPT ![cur[w]] = final]
    BY <1>9 DEF LeaveJob, effectVars
  <2>2. CASE cur[w] = j
    <3>1. status'[j] = final /\ status[j] \notin {"NONE", "PURGED"}
      BY <1>b, <1>c, <1>9, <2>1, <2>2 DEF TypeOK
    <3>2. final = "SUCCEEDED" => delivery[j] # "NONE"
      BY <1>b, <1>9, <2>2 DEF AnswerInv, FinishingIsAnswered
    <3>3. SameOrMoves(Look(status[j], op[j], execs[j], delivery[j]),
                      Look(final, op[j], execs[j], delivery[j]))
      BY <1>d, <3>1, <3>2, SettleMoves
    <3>4. QED
      BY <1>a, <2>1, <3>1, <3>3 DEF Moved, Settled
  <2>3. CASE cur[w] # j
    BY <1>0, <1>b, <2>1, <2>3 DEF TypeOK
  <2>4. QED
    BY <2>2, <2>3
<1>10. ASSUME NEW w \in Workers, MarkSucceeded(w) \/ MarkAmbiguous(w) \/ MarkFailed(w)
       PROVE  status'[j] # "NONE" /\ Moved
  BY <1>9, <1>10 DEF MarkSucceeded, MarkAmbiguous, MarkFailed, Outcome, Settled
<1>11. ASSUME UNCHANGED <<status, op, execs, delivery>> PROVE status'[j] # "NONE" /\ Moved
  BY <1>0, <1>11
<1>12. ASSUME NEW w \in Workers,
              StartJob(w) \/ BindTurn(w) \/ EnsureKeyboardCleanup(w) \/ DatabaseError(w) \/ Crash(w)
       PROVE  UNCHANGED <<status, op, execs, delivery>>
  BY <1>12 DEF StartJob, BindTurn, EnsureKeyboardCleanup, DatabaseError, Crash, jobVars, effectVars
<1>13. ASSUME NEW k \in Jobs, LeaseExpires(k) PROVE UNCHANGED <<status, op, execs, delivery>>
  BY <1>13 DEF LeaseExpires, effectVars
<1>14. ASSUME NEW u \in Updates, TelegramStops(u) PROVE UNCHANGED <<status, op, execs, delivery>>
  BY <1>14 DEF TelegramStops, jobVars, effectVars
<1>15. ASSUME UNCHANGED vars PROVE UNCHANGED <<status, op, execs, delivery>>
  BY <1>15 DEF vars
<1>16. status'[j] # "NONE" /\ Moved
  BY <1>2, <1>3, <1>4, <1>5, <1>6, <1>7, <1>8, <1>10, <1>11, <1>12, <1>13, <1>14, <1>15
  DEF Next, WorkerStep
<1>17. QED
  BY <1>16 DEF Moved

(* A row is born for an update that has none, and is taken at once. *)
LEMMA RowBirth ==
  ASSUME InboxInv, [Next]_vars, NEW j \in Jobs, status[j] = "NONE", status'[j] # "NONE"
  PROVE  SameOrMoves(Fresh, RowLife(j)')
<1>a. TypeOK /\ InHand /\ LifeInv
  BY DEF InboxInv, TypeInv
<1>1. Blank(j)
  BY <1>a DEF LifeInv, NoneIsBlank
<1>2. PICK k \in Jobs : Accept(k) /\ k = j
  <2>1. ASSUME NEW w \in Workers, NEW final, LeaveJob(w, final), pc[w] \notin {"idle", "sweep"}
        PROVE  status'[j] = "NONE"
    BY <1>a, <2>1 DEF LeaveJob, InHand, LifeInv, HeldIsPresent, Present, TypeOK
  <2>2. ASSUME NEW w \in Workers, ClaimInboundJobs(w) PROVE status'[j] = "NONE"
    BY <2>2 DEF ClaimInboundJobs, Claimable
  <2>3. ASSUME NEW w \in Workers, CleanupChannelRecords(w) PROVE status'[j] = "NONE"
    BY <2>3 DEF CleanupChannelRecords, Purgeable
  <2>4. ASSUME NEW k \in Jobs, Accept(k), k # j PROVE status'[j] = "NONE"
    BY <2>4 DEF Accept, Purgeable
  <2>5. CASE UNCHANGED status
    BY <2>5
  <2>6. ASSUME NEW w \in Workers, MarkSucceeded(w) \/ MarkAmbiguous(w) \/ MarkFailed(w)
        PROVE  status'[j] = "NONE"
    BY <2>1, <2>6 DEF MarkSucceeded, MarkAmbiguous, MarkFailed
  <2>7. QED
    BY <2>2, <2>3, <2>4, <2>5, <2>6
    DEF Next, WorkerStep, LeaseExpires, TelegramStops, StartJob, BeginOperation,
        OperationReturns, OperationThrows, CompleteOperation, BindTurn, EnsureDelivery,
        EnsureKeyboardCleanup, DatabaseError, Crash, jobVars, vars
<1>3. status'[j] = "PENDING" /\ UNCHANGED <<op, execs>> /\ delivery'[j] = "NONE"
  BY <1>a, <1>1, <1>2 DEF Accept, Purge, Blank, TypeOK
<1>4. RowLife(j)' = [stage |-> "taken", began |-> FALSE, ran |-> 0, result |-> FALSE, answer |-> "none"]
  <2>1. /\ status'[j] = "PENDING" /\ op'[j] = "NONE" /\ execs'[j] = 0 /\ delivery'[j] = "NONE"
    BY <1>1, <1>3 DEF Blank
  <2>2. QED
    BY <2>1 DEF RowLife, Look, LifeRecord, Stage, Sight
<1>5. Promise!Take(Fresh, RowLife(j)')
  <2>1. PICK f : f = FALSE
    OBVIOUS
  <2>2. /\ Fresh = LifeRecord("new", f, 0, f, "none")
        /\ RowLife(j)' = LifeRecord("taken", f, 0, f, "none")
    BY <1>4, <2>1, Zenon DEF Fresh, LifeRecord
  <2>3. LifeRecord("new", f, 0, f, "none").stage = "new"
    BY LifeFields
  <2>4. LifeRecord("taken", f, 0, f, "none")
          = [LifeRecord("new", f, 0, f, "none") EXCEPT !.stage = "taken"]
    BY DEF LifeRecord
  <2>5. QED
    BY <2>2, <2>3, <2>4, Zenon DEF Promise!Take
<1>6. QED
  BY <1>5 DEF SameOrMoves, Promise!Moves

LEMMA LifeMoves ==
  ASSUME InboxInv, InboxInv', [Next]_vars, NEW u \in Updates
  PROVE  SameOrMoves(LifeOf(RowsOf(u)), LifeOf(RowsOf(u))')
<1>1. ASSUME NEW j \in Jobs, UpdateOf[j] = u, status'[j] # "NONE"
      PROVE  LifeOf(RowsOf(u))' = RowLife(j)'
  BY <1>1, OneRowIsTheLifeNext DEF InboxInv
<1>2. ASSUME NEW j \in Jobs, UpdateOf[j] = u, status[j] # "NONE"
      PROVE  SameOrMoves(LifeOf(RowsOf(u)), LifeOf(RowsOf(u))')
  <2>1. LifeOf(RowsOf(u)) = RowLife(j)
    BY <1>2, OneRowIsTheLife DEF InboxInv
  <2>2. status'[j] # "NONE" /\ SameOrMoves(RowLife(j), RowLife(j)')
    BY <1>2, RowMoves
  <2>3. QED
    BY <1>1, <1>2, <2>1, <2>2
<1>3. ASSUME \A j \in RowsOf(u) : status[j] = "NONE"
      PROVE  SameOrMoves(LifeOf(RowsOf(u)), LifeOf(RowsOf(u))')
  <2>1. LifeOf(RowsOf(u)) = Fresh
    BY <1>3, NoRowIsFresh DEF InboxInv
  <2>2. CASE \A j \in RowsOf(u) : status'[j] = "NONE"
    <3>1. LifeOf(RowsOf(u))' = Fresh
      BY <2>2, NoRowIsFreshNext DEF InboxInv, RowsOf, Fresh
    <3>2. QED
      BY <2>1, <3>1 DEF SameOrMoves
  <2>3. CASE \E j \in RowsOf(u) : status'[j] # "NONE"
    <3>1. PICK j \in Jobs : UpdateOf[j] = u /\ status[j] = "NONE" /\ status'[j] # "NONE"
      BY <1>3, <2>3 DEF RowsOf
    <3>2. SameOrMoves(Fresh, RowLife(j)')
      BY <3>1, RowBirth
    <3>3. QED
      BY <1>1, <2>1, <3>1, <3>2
  <2>4. QED
    BY <2>2, <2>3
<1>4. QED
  BY <1>2, <1>3 DEF RowsOf

(* The inbox implements its promise: whatever rows, leases, retries,       *)
(* crashes and purges do, each update is taken once, run at most once,     *)
(* replied to with its recorded result and done only when answered.        *)
THEOREM InboxKeepsPromise == Spec => PromiseKept
<1> DEFINE lives == [u \in Updates |-> LifeOf(RowsOf(u))]
<1>1. Init => Promise!Init
  <2> SUFFICES ASSUME Init PROVE lives = [u \in Updates |-> Promise!New]
    BY DEF Promise!Init
  <2>1. LifeInv
    BY DEF Init, LifeInv, NoneIsBlank, HeldIsPresent, Blank
  <2>2. \A u \in Updates : LifeOf(RowsOf(u)) = Fresh
    BY <2>1, NoRowIsFresh DEF Init, RowsOf
  <2>3. QED
    BY <2>2 DEF Promise!New, Fresh
<1>2. InboxInv /\ InboxInv' /\ [Next]_vars => [Promise!Next]_lives
  <2> SUFFICES ASSUME InboxInv, InboxInv', [Next]_vars PROVE Promise!Next
    OBVIOUS
  <2>1. ASSUME NEW u \in Updates
        PROVE  lives'[u] = lives[u] \/ Promise!Moves(lives[u], lives'[u])
    BY LifeMoves DEF SameOrMoves
  <2>2. DOMAIN lives' = Updates
    OBVIOUS
  <2> HIDE DEF lives
  <2>3. QED
    BY <2>1, <2>2 DEF Promise!Next, lives
<1>3. QED
  BY <1>1, <1>2, InboxInvAlways, PTL DEF Spec, PromiseKept, Promise!Spec

=============================================================================
