------------------------ MODULE ChannelOutboundProofs ------------------------
(***************************************************************************)
(* Proofs about ChannelOutbound, for any number of deliveries and workers, *)
(* any batch size, any attempt limit and any number of mishaps.            *)
(***************************************************************************)
EXTENDS ChannelOutbound, FiniteSetTheorems, TLAPS

(* A worker past the start of a delivery has the row in its batch. *)
InHand ==
  \A w \in Workers : pc[w] \in {"send"} \cup Answered =>
    cur[w] \in Deliveries /\ claimed[w][cur[w]] > 0

TypeInv == TypeOK /\ InHand

LEMMA TypeInvInit == Init => TypeInv
  BY ConstantsAssumption
  DEF Init, TypeInv, TypeOK, InHand, DeliveryStatus, Answered, Step

(* Claiming only takes claimable rows, and hands them to one worker. *)
LEMMA ClaimTakesClaimable ==
  ASSUME NEW w \in Workers, ClaimOutboundDeliveries(w)
  PROVE  \E S \in SUBSET {d \in Deliveries : Claimable(d)} :
           /\ status'  = [d \in Deliveries |-> IF d \in S THEN "SENDING" ELSE status[d]]
           /\ live'    = [d \in Deliveries |-> IF d \in S THEN TRUE ELSE live[d]]
           /\ attempt' = [d \in Deliveries |-> IF d \in S THEN attempt[d] + 1 ELSE attempt[d]]
           /\ claimed' = [claimed EXCEPT ![w] =
                            [d \in Deliveries |-> IF d \in S THEN attempt[d] + 1 ELSE 0]]
  BY DEF ClaimOutboundDeliveries

LEMMA OutcomeType ==
  ASSUME NEW w \in Workers, pc[w] \in Answered
  PROVE  Outcome(w) \in Settled /\ (Outcome(w) = "SENT" <=> pc[w] = "ok")
  BY DEF Outcome, Answered, Settled

LEMMA TypeInvNext == TypeInv /\ [Next]_vars => TypeInv'
<1> SUFFICES ASSUME TypeInv, [Next]_vars PROVE TypeInv'
  OBVIOUS
<1> USE ConstantsAssumption
    DEF TypeInv, TypeOK, InHand, DeliveryStatus, Answered, Step, rowVars, workerVars
<1>1. ASSUME NEW d \in Deliveries, Enqueue(d) PROVE TypeInv'
  BY <1>1 DEF Enqueue
<1>2. ASSUME NEW d \in Deliveries, LeaseExpires(d) PROVE TypeInv'
  BY <1>2 DEF LeaseExpires
<1>3. ASSUME NEW d \in Deliveries, RequeueOutbound(d) PROVE TypeInv'
  BY <1>3 DEF RequeueOutbound
<1>4. ASSUME NEW d \in Deliveries, JobPurged(d) PROVE TypeInv'
  BY <1>4 DEF JobPurged
<1>5. ASSUME NEW w \in Workers, ClaimOutboundDeliveries(w) PROVE TypeInv'
  <2>1. PICK S \in SUBSET {d \in Deliveries : Claimable(d)} :
           /\ status'  = [d \in Deliveries |-> IF d \in S THEN "SENDING" ELSE status[d]]
           /\ live'    = [d \in Deliveries |-> IF d \in S THEN TRUE ELSE live[d]]
           /\ attempt' = [d \in Deliveries |-> IF d \in S THEN attempt[d] + 1 ELSE attempt[d]]
           /\ claimed' = [claimed EXCEPT ![w] =
                            [d \in Deliveries |-> IF d \in S THEN attempt[d] + 1 ELSE 0]]
    BY <1>5, ClaimTakesClaimable
  <2>2. status' \in [Deliveries -> DeliveryStatus] /\ live' \in [Deliveries -> BOOLEAN]
    BY <2>1
  <2>3. attempt' \in [Deliveries -> Nat] /\ claimed' \in [Workers -> [Deliveries -> Nat]]
    BY <2>1
  <2>4. InHand'
    BY <1>5, <2>1 DEF ClaimOutboundDeliveries
  <2>5. QED
    BY <1>5, <2>2, <2>3, <2>4 DEF ClaimOutboundDeliveries
<1>6. ASSUME NEW w \in Workers, StartDelivery(w) PROVE TypeInv'
  BY <1>6 DEF StartDelivery, Holds, Goto
<1>7. ASSUME NEW w \in Workers, TelegramAccepts(w) PROVE TypeInv'
  BY <1>7 DEF TelegramAccepts, Goto
<1>8. ASSUME NEW w \in Workers, TelegramFails(w) PROVE TypeInv'
  BY <1>8 DEF TelegramFails, Goto
<1>9. ASSUME NEW w \in Workers, AnswerLost(w) PROVE TypeInv'
  BY <1>9 DEF AnswerLost, Goto
<1>10. ASSUME NEW w \in Workers, RecordOutcome(w) PROVE TypeInv'
  <2>1. PICK step \in {"idle", "sweep"} : Goto(w, step)
    BY <1>10 DEF RecordOutcome
  <2>2. /\ status'  = [status EXCEPT ![cur[w]] = Outcome(w)]
        /\ live'    = [live EXCEPT ![cur[w]] = FALSE]
        /\ claimed' = [claimed EXCEPT ![w][cur[w]] = 0]
        /\ cur' = [cur EXCEPT ![w] = NoDelivery]
        /\ UNCHANGED <<attempt, shown, mishaps, requeues>>
    BY <1>10 DEF RecordOutcome
  <2>3. Outcome(w) \in DeliveryStatus
    BY <1>10, OutcomeType DEF RecordOutcome, Settled
  <2>4. TypeOK'
    BY <2>1, <2>2, <2>3 DEF Goto
  <2>5. InHand'
    BY <2>1, <2>2 DEF Goto
  <2>6. QED
    BY <2>4, <2>5
<1>11. ASSUME NEW w \in Workers, CleanupChannelRecords(w) PROVE TypeInv'
  <2>1. PICK S \in SUBSET Purgeable :
          status' = [d \in Deliveries |-> IF d \in S THEN "PURGED" ELSE status[d]]
    BY <1>11 DEF CleanupChannelRecords
  <2>2. status' \in [Deliveries -> DeliveryStatus]
    BY <2>1
  <2>3. QED
    BY <1>11, <2>2 DEF CleanupChannelRecords, Goto
<1>12. ASSUME NEW w \in Workers, Crash(w) PROVE TypeInv'
  <2>1. mishaps' \in [Deliveries -> 0..MaxMishaps]
    BY <1>12 DEF Crash, Holds
  <2>2. QED
    BY <1>12, <2>1 DEF Crash, Goto
<1>13. CASE UNCHANGED vars
  BY <1>13 DEF vars
<1>14. QED
  BY <1>1, <1>2, <1>3, <1>4, <1>5, <1>6, <1>7, <1>8, <1>9, <1>10, <1>11, <1>12, <1>13
  DEF Next, WorkerStep

LEMMA TypeInvAlways == Spec => []TypeInv
  BY TypeInvInit, TypeInvNext, PTL DEF Spec

(* The outbox columns and the memory of its workers keep their types in    *)
(* every reachable state.                                                  *)
THEOREM TypeCorrect == Spec => []TypeOK
<1>1. TypeInv => TypeOK
  BY DEF TypeInv
<1>2. QED
  BY <1>1, TypeInvAlways, PTL

-----------------------------------------------------------------------------
(* A worker that holds Telegram's consent has shown the delivery, and what *)
(* was shown stays shown.                                                  *)

OkIsShown == \A w \in Workers : pc[w] = "ok" => shown[cur[w]] > 0

ShownInv == OkIsShown /\ SentMeansShown

LEMMA ShownKept ==
  ASSUME TypeInv, ShownInv,
         \A d \in Deliveries : shown[d] > 0 => shown'[d] > 0,
         \A d \in Deliveries : status'[d] = "SENT" => status[d] = "SENT",
         \A w \in Workers : pc'[w] = "ok" => pc[w] = "ok" /\ cur'[w] = cur[w]
  PROVE  ShownInv'
<1>1. SentMeansShown'
  BY DEF ShownInv, SentMeansShown
<1>2. OkIsShown'
  BY DEF ShownInv, OkIsShown, TypeInv, InHand, Answered
<1>3. QED
  BY <1>1, <1>2 DEF ShownInv

LEMMA ShownInvNext == TypeInv /\ ShownInv /\ [Next]_vars => ShownInv'
<1> SUFFICES ASSUME TypeInv, ShownInv, [Next]_vars PROVE ShownInv'
  OBVIOUS
<1>a. TypeOK /\ InHand
  BY DEF TypeInv
<1>1. ASSUME NEW w \in Workers, NEW step \in Step \ {"ok"}, Goto(w, step),
             \A v \in Workers : v # w => cur'[v] = cur[v],
             \A d \in Deliveries : shown[d] > 0 => shown'[d] > 0,
             \A d \in Deliveries : status'[d] = "SENT" => status[d] = "SENT"
      PROVE  ShownInv'
  <2>1. \A v \in Workers : pc'[v] = "ok" => pc[v] = "ok" /\ cur'[v] = cur[v]
    BY <1>a, <1>1 DEF Goto, TypeOK
  <2>2. QED
    BY <1>1, <2>1, ShownKept
<1>2. ASSUME NEW w \in Workers, TelegramAccepts(w) PROVE ShownInv'
  <2> USE <1>a DEF TypeOK, InHand
  <2>1. /\ shown' = [shown EXCEPT ![cur[w]] = @ + 1]
        /\ pc' = [pc EXCEPT ![w] = "ok"]
        /\ cur[w] \in Deliveries
        /\ UNCHANGED <<status, cur>>
    BY <1>2 DEF TelegramAccepts, Goto, rowVars
  <2>2. SentMeansShown'
    BY <2>1 DEF ShownInv, SentMeansShown
  <2>3. OkIsShown'
    BY <2>1 DEF ShownInv, OkIsShown, Answered
  <2>4. QED
    BY <2>2, <2>3 DEF ShownInv
<1>3. ASSUME NEW w \in Workers, AnswerLost(w) PROVE ShownInv'
  <2>1. /\ shown' = [shown EXCEPT ![cur[w]] = @ + 1] /\ cur[w] \in Deliveries
        /\ UNCHANGED <<status, cur>> /\ Goto(w, "retryable")
    BY <1>a, <1>3 DEF AnswerLost, InHand, rowVars
  <2>2. QED
    BY <1>a, <1>1, <2>1 DEF TypeOK, Step, Answered
<1>4. ASSUME NEW w \in Workers, RecordOutcome(w) PROVE ShownInv'
  <2> USE <1>a DEF TypeOK, InHand
  <2>1. PICK step \in {"idle", "sweep"} : Goto(w, step)
    BY <1>4 DEF RecordOutcome
  <2>2. /\ pc[w] \in Answered /\ cur[w] \in Deliveries
        /\ status' = [status EXCEPT ![cur[w]] = Outcome(w)]
        /\ cur' = [cur EXCEPT ![w] = NoDelivery]
        /\ shown' = shown
    BY <1>4 DEF RecordOutcome
  <2>3. Outcome(w) = "SENT" => shown[cur[w]] > 0
    BY <2>2, OutcomeType DEF ShownInv, OkIsShown
  <2>4. SentMeansShown'
    BY <2>2, <2>3 DEF ShownInv, SentMeansShown
  <2>5. OkIsShown'
    BY <2>1, <2>2 DEF ShownInv, OkIsShown, Goto
  <2>6. QED
    BY <2>4, <2>5 DEF ShownInv
<1>5. ASSUME NEW w \in Workers,
             StartDelivery(w) \/ TelegramFails(w) \/ CleanupChannelRecords(w) \/ Crash(w)
      PROVE  ShownInv'
  <2>1. PICK step \in Step \ {"ok"} : Goto(w, step)
    BY <1>5 DEF StartDelivery, TelegramFails, CleanupChannelRecords, Crash, Step, Answered
  <2>2. \A v \in Workers : v # w => cur'[v] = cur[v]
    BY <1>a, <1>5
    DEF StartDelivery, TelegramFails, CleanupChannelRecords, Crash, TypeOK
  <2>3. shown' = shown
    BY <1>5 DEF StartDelivery, TelegramFails, CleanupChannelRecords, Crash
  <2>4. \A d \in Deliveries : status'[d] = "SENT" => status[d] = "SENT"
    BY <1>5 DEF StartDelivery, TelegramFails, CleanupChannelRecords, Crash, rowVars
  <2>5. QED
    BY <1>1, <2>1, <2>2, <2>3, <2>4
<1>6. ASSUME NEW w \in Workers, ClaimOutboundDeliveries(w) PROVE ShownInv'
  <2>1. \A d \in Deliveries : status'[d] = "SENT" => status[d] = "SENT"
    BY <1>6 DEF ClaimOutboundDeliveries
  <2>2. QED
    BY <1>6, <2>1, ShownKept DEF ClaimOutboundDeliveries
<1>7. ASSUME NEW d \in Deliveries,
             Enqueue(d) \/ LeaseExpires(d) \/ RequeueOutbound(d) \/ JobPurged(d)
      PROVE  ShownInv'
  <2>1. \A e \in Deliveries : status'[e] = "SENT" => status[e] = "SENT"
    BY <1>a, <1>7 DEF Enqueue, LeaseExpires, RequeueOutbound, JobPurged, TypeOK
  <2>2. UNCHANGED <<shown, pc, cur>>
    BY <1>7 DEF Enqueue, LeaseExpires, RequeueOutbound, JobPurged, workerVars
  <2>3. QED
    BY <2>1, <2>2, ShownKept
<1>8. CASE UNCHANGED vars
  BY <1>8, ShownKept DEF vars
<1>9. QED
  BY <1>2, <1>3, <1>4, <1>5, <1>6, <1>7, <1>8 DEF Next, WorkerStep

(* A delivery that its row calls SENT was shown to the user, whichever of  *)
(* several attempts wrote the row.                                         *)
THEOREM SentWasShown == Spec => []SentMeansShown
<1>1. Init => ShownInv
  BY DEF Init, ShownInv, OkIsShown, SentMeansShown
<1>2. Spec => []ShownInv
  BY <1>1, TypeInvAlways, ShownInvNext, PTL DEF Spec
<1>3. ShownInv => SentMeansShown
  BY DEF ShownInv
<1>4. QED
  BY <1>2, <1>3, PTL

(* A row that is SENT and in nobody's hands is written and shown no more:  *)
(* every step that could do either is taken by a holder of the row.        *)
THEOREM SentIsSettled == Spec => SentStaysSent
<1> DEFINE Kept(d) == status[d] = "SENT" /\ ~Held(d) =>
                        status'[d] \in {"SENT", "PURGED"} /\ shown'[d] = shown[d]
<1>1. ASSUME TypeInv, [Next]_vars, NEW d \in Deliveries PROVE Kept(d)
  <2> SUFFICES ASSUME status[d] = "SENT", ~Held(d)
               PROVE  status'[d] \in {"SENT", "PURGED"} /\ shown'[d] = shown[d]
    OBVIOUS
  <2> USE <1>1 DEF TypeInv, TypeOK, InHand, Held, Answered
  <2>1. ASSUME NEW w \in Workers, pc[w] \in {"send"} \cup Answered PROVE cur[w] # d
    BY <2>1
  <2>2. ASSUME NEW w \in Workers, ClaimOutboundDeliveries(w) PROVE Kept(d)
    BY <2>2, ClaimTakesClaimable DEF Claimable, ClaimOutboundDeliveries
  <2>3. ASSUME NEW w \in Workers, TelegramAccepts(w) \/ AnswerLost(w) PROVE Kept(d)
    BY <2>1, <2>3 DEF TelegramAccepts, AnswerLost, rowVars
  <2>4. ASSUME NEW w \in Workers, RecordOutcome(w) PROVE Kept(d)
    BY <2>1, <2>4 DEF RecordOutcome
  <2>5. ASSUME NEW w \in Workers, CleanupChannelRecords(w) PROVE Kept(d)
    BY <2>5 DEF CleanupChannelRecords
  <2>6. ASSUME NEW e \in Deliveries,
               Enqueue(e) \/ LeaseExpires(e) \/ RequeueOutbound(e) \/ JobPurged(e)
        PROVE  Kept(d)
    BY <2>6 DEF Enqueue, LeaseExpires, RequeueOutbound, CanRequeueOutbound, JobPurged
  <2>7. CASE UNCHANGED <<status, shown>>
    BY <2>7
  <2>8. QED
    BY <2>2, <2>3, <2>4, <2>5, <2>6, <2>7
    DEF Next, WorkerStep, StartDelivery, TelegramFails, Crash, rowVars, vars
<1>2. TypeInv /\ [Next]_vars => [\A d \in Deliveries : Kept(d)]_vars
  BY <1>1
<1>3. QED
  BY <1>2, TypeInvAlways, PTL DEF Spec, SentStaysSent

-----------------------------------------------------------------------------
(* Why a copy has a cause: a delivery's copies are paid for in advance.    *)
(* Each worker that holds the row and has not been told "ok" may still     *)
(* show it once (Chances), and a row that can still be claimed, or whose   *)
(* lease no longer protects its holder, may start one more round           *)
(* (RowChance).  What was shown and what may still be shown never exceed   *)
(* one plus the mishaps that hit the delivery.                             *)

Chances(d) == {w \in Workers : claimed[w][d] > 0 /\ ~(cur[w] = d /\ pc[w] = "ok")}

Protected(d) == status[d] = "SENDING" /\ live[d] /\ Held(d)

RowChance(d) ==
  IF status[d] \in {"SENT", "FAILED_RETRYABLE", "PURGED"} \/ Protected(d) THEN 0 ELSE 1

Paid(d) ==
  /\ IsFiniteSet(Chances(d))
  /\ shown[d] + Cardinality(Chances(d)) + RowChance(d) <= 1 + mishaps[d]

Budget == \A d \in Deliveries : Paid(d)

LEMMA RowChanceRange ==
  ASSUME NEW d
  PROVE  /\ RowChance(d) \in {0, 1}
         /\ RowChance(d)' \in {0, 1}
  BY DEF RowChance

(* No new chance, and no dearer row. *)
LEMMA PaidWhenFewer ==
  ASSUME TypeInv, TypeInv', NEW d \in Deliveries, Paid(d),
         Chances(d)' \subseteq Chances(d),
         shown'[d] = shown[d], mishaps'[d] \in {mishaps[d], mishaps[d] + 1},
         RowChance(d)' <= RowChance(d) + mishaps'[d] - mishaps[d]
  PROVE  Paid(d)'
<1>1. /\ IsFiniteSet(Chances(d)') /\ Cardinality(Chances(d)') <= Cardinality(Chances(d))
      /\ Cardinality(Chances(d)') \in Nat /\ Cardinality(Chances(d)) \in Nat
  BY FS_Subset, FS_CardinalityType DEF Paid
<1>2. shown[d] \in Nat /\ mishaps[d] \in Nat /\ shown'[d] \in Nat /\ mishaps'[d] \in Nat
  BY DEF TypeInv, TypeOK
<1>3. QED
  BY <1>1, <1>2, RowChanceRange DEF Paid

(* A chance is spent: on a copy, or on an outcome that frees the row. *)
LEMMA PaidWhenSpent ==
  ASSUME TypeInv, TypeInv', NEW d \in Deliveries, Paid(d), NEW w \in Chances(d),
         Chances(d)' \subseteq Chances(d) \ {w},
         mishaps'[d] = mishaps[d],
         shown'[d] + RowChance(d)' <= shown[d] + RowChance(d) + 1
  PROVE  Paid(d)'
<1>1. /\ IsFiniteSet(Chances(d) \ {w})
      /\ Cardinality(Chances(d) \ {w}) = Cardinality(Chances(d)) - 1
      /\ Cardinality(Chances(d)) \in Nat
  BY FS_RemoveElement, FS_CardinalityType DEF Paid
<1>2. /\ IsFiniteSet(Chances(d)')
      /\ Cardinality(Chances(d)') <= Cardinality(Chances(d)) - 1
      /\ Cardinality(Chances(d)') \in Nat
  BY <1>1, FS_Subset, FS_CardinalityType
<1>3. shown[d] \in Nat /\ mishaps[d] \in Nat /\ shown'[d] \in Nat
  BY DEF TypeInv, TypeOK
<1>4. QED
  BY <1>1, <1>2, <1>3, RowChanceRange DEF Paid

(* A claim turns the row's chance into its worker's. *)
LEMMA PaidWhenClaimed ==
  ASSUME TypeInv, TypeInv', NEW d \in Deliveries, Paid(d), NEW w,
         Chances(d)' \subseteq Chances(d) \cup {w},
         mishaps'[d] = mishaps[d], shown'[d] = shown[d],
         RowChance(d) = 1, RowChance(d)' = 0
  PROVE  Paid(d)'
<1> DEFINE C == Chances(d)
<1>0. IsFiniteSet(C)
  BY DEF Paid
<1>a. IsFiniteSet(C \cup {w}) /\ Cardinality(C) \in Nat
  BY <1>0, FS_AddElement, FS_CardinalityType
<1>b. Cardinality(C \cup {w}) = IF w \in C THEN Cardinality(C) ELSE Cardinality(C) + 1
  BY <1>0, FS_AddElement
<1> HIDE DEF C
<1>c. Cardinality(C \cup {w}) <= Cardinality(C) + 1
  BY <1>a, <1>b
<1>1. /\ IsFiniteSet(Chances(d) \cup {w})
      /\ Cardinality(Chances(d) \cup {w}) <= Cardinality(Chances(d)) + 1
      /\ Cardinality(Chances(d)) \in Nat
  BY <1>a, <1>c DEF C
<1>2. /\ IsFiniteSet(Chances(d)')
      /\ Cardinality(Chances(d)') <= Cardinality(Chances(d) \cup {w})
      /\ Cardinality(Chances(d)') \in Nat /\ Cardinality(Chances(d) \cup {w}) \in Nat
  BY <1>1, FS_Subset, FS_CardinalityType
<1>3. shown[d] \in Nat /\ mishaps[d] \in Nat
  BY DEF TypeInv, TypeOK
<1>4. QED
  BY <1>1, <1>2, <1>3 DEF Paid

LEMMA BudgetNext == TypeInv /\ TypeInv' /\ Budget /\ [Next]_vars => Budget'
<1> SUFFICES ASSUME TypeInv, TypeInv', [Next]_vars, NEW d \in Deliveries, Paid(d)
             PROVE  Paid(d)'
  BY DEF Budget
<1>t. TypeOK /\ InHand
  BY DEF TypeInv
<1>m. mishaps[d] \in Nat /\ shown[d] \in Nat
  BY <1>t DEF TypeOK
<1>0. ASSUME UNCHANGED <<workerVars, shown[d], status[d], live[d], mishaps[d]>>
      PROVE  Paid(d)'
  BY <1>0 DEF Paid, Chances, RowChance, Protected, Held, workerVars
<1>1. ASSUME NEW e \in Deliveries, Enqueue(e) \/ RequeueOutbound(e) \/ JobPurged(e)
      PROVE  Paid(d)'
  <2>1. UNCHANGED <<workerVars, shown, mishaps>>
    BY <1>1 DEF Enqueue, RequeueOutbound, JobPurged
  <2>2. RowChance(d)' <= RowChance(d)
    BY <1>t, <1>1, RowChanceRange
    DEF TypeOK, Enqueue, RequeueOutbound, CanRequeueOutbound, JobPurged,
        RowChance, Protected, Held, workerVars
  <2>3. Chances(d)' = Chances(d)
    BY <2>1 DEF Chances, workerVars
  <2>4. QED
    BY <1>m, <2>1, <2>2, <2>3, PaidWhenFewer, RowChanceRange
<1>2. ASSUME NEW e \in Deliveries, LeaseExpires(e) PROVE Paid(d)'
  <2>1. CASE e # d
    BY <1>0, <1>t, <1>2, <2>1 DEF LeaseExpires, TypeOK
  <2>2. CASE e = d /\ Held(d)
    <3>1. Chances(d)' = Chances(d) /\ shown' = shown
      BY <1>2 DEF LeaseExpires, Chances, workerVars
    <3>2. mishaps'[d] = mishaps[d] + 1
      BY <1>t, <1>2, <2>2 DEF LeaseExpires, TypeOK
    <3>3. QED
      BY <1>m, <3>1, <3>2, PaidWhenFewer, RowChanceRange
  <2>3. CASE e = d /\ ~Held(d)
    <3>1. Chances(d)' = Chances(d) /\ shown' = shown /\ mishaps' = mishaps
      BY <1>2, <2>3 DEF LeaseExpires, Chances, workerVars
    <3>2. RowChance(d) = 1
      BY <1>2, <2>3 DEF LeaseExpires, RowChance, Protected
    <3>3. QED
      BY <1>m, <3>1, <3>2, PaidWhenFewer, RowChanceRange
  <2>4. QED
    BY <2>1, <2>2, <2>3
<1>3. ASSUME NEW w \in Workers, ClaimOutboundDeliveries(w) PROVE Paid(d)'
  <2>1. PICK S \in SUBSET {e \in Deliveries : Claimable(e)} :
           /\ status'  = [e \in Deliveries |-> IF e \in S THEN "SENDING" ELSE status[e]]
           /\ live'    = [e \in Deliveries |-> IF e \in S THEN TRUE ELSE live[e]]
           /\ attempt' = [e \in Deliveries |-> IF e \in S THEN attempt[e] + 1 ELSE attempt[e]]
           /\ claimed' = [claimed EXCEPT ![w] =
                            [e \in Deliveries |-> IF e \in S THEN attempt[e] + 1 ELSE 0]]
    BY <1>3, ClaimTakesClaimable
  <2>2. UNCHANGED <<shown, mishaps, cur, pc>> /\ claimed[w][d] = 0
    BY <1>3, <1>t DEF ClaimOutboundDeliveries, Holds, TypeOK
  <2>3. \A v \in Workers : v # w => claimed'[v][d] = claimed[v][d]
    BY <1>t, <2>1 DEF TypeOK
  <2>4. CASE d \in S
    <3>1. RowChance(d) = 1
      BY <2>1, <2>4 DEF RowChance, Protected, Claimable
    <3>2. claimed'[w][d] > 0 /\ status'[d] = "SENDING" /\ live'[d]
      BY <1>t, <2>1, <2>4 DEF TypeOK
    <3>3. RowChance(d)' = 0
      BY <3>2 DEF RowChance, Protected, Held
    <3>4. Chances(d)' \subseteq Chances(d) \cup {w}
      BY <2>2, <2>3 DEF Chances
    <3>5. QED
      BY <2>2, <3>1, <3>3, <3>4, PaidWhenClaimed
  <2>5. CASE d \notin S
    <3>1. claimed'[w][d] = 0 /\ status'[d] = status[d] /\ live'[d] = live[d]
      BY <1>t, <2>1, <2>5 DEF TypeOK
    <3>2. \A v \in Workers : claimed'[v][d] = claimed[v][d]
      BY <2>2, <2>3, <3>1
    <3>3. Chances(d)' = Chances(d) /\ RowChance(d)' = RowChance(d)
      BY <2>2, <3>1, <3>2 DEF Chances, RowChance, Protected, Held
    <3>4. QED
      BY <1>m, <2>2, <3>3, PaidWhenFewer, RowChanceRange
  <2>6. QED
    BY <2>4, <2>5
<1>4. ASSUME NEW w \in Workers, StartDelivery(w) PROVE Paid(d)'
  <2>1. /\ UNCHANGED <<rowVars, shown, mishaps, claimed>> /\ pc[w] # "ok"
        /\ pc' = [pc EXCEPT ![w] = "send"]
        /\ \A v \in Workers : v # w => cur'[v] = cur[v]
    BY <1>4, <1>t DEF StartDelivery, Goto, TypeOK
  <2>2. Chances(d)' \subseteq Chances(d) /\ RowChance(d)' = RowChance(d)
    BY <1>t, <2>1 DEF Chances, RowChance, Protected, Held, rowVars, TypeOK
  <2>3. QED
    BY <1>m, <2>1, <2>2, PaidWhenFewer, RowChanceRange
<1>5. ASSUME NEW w \in Workers, TelegramFails(w) PROVE Paid(d)'
  <2>1. PICK answer \in {"retryable", "refused"} : pc' = [pc EXCEPT ![w] = answer]
    BY <1>5 DEF TelegramFails, Goto
  <2>2. UNCHANGED <<rowVars, shown, mishaps, claimed, cur>> /\ pc[w] = "send"
    BY <1>5 DEF TelegramFails
  <2>3. Chances(d)' = Chances(d) /\ RowChance(d)' = RowChance(d)
    BY <1>t, <2>1, <2>2 DEF Chances, RowChance, Protected, Held, rowVars, TypeOK
  <2>4. QED
    BY <1>m, <2>2, <2>3, PaidWhenFewer, RowChanceRange
<1>6. ASSUME NEW w \in Workers, TelegramAccepts(w) PROVE Paid(d)'
  <2>1. /\ UNCHANGED <<rowVars, mishaps, claimed, cur>> /\ pc[w] = "send"
        /\ pc' = [pc EXCEPT ![w] = "ok"]
        /\ shown' = [shown EXCEPT ![cur[w]] = @ + 1]
        /\ cur[w] \in Deliveries /\ claimed[w][cur[w]] > 0
    BY <1>6, <1>t DEF TelegramAccepts, Goto, InHand
  <2>2. RowChance(d)' = RowChance(d)
    BY <2>1 DEF RowChance, Protected, Held, rowVars
  <2>3. CASE cur[w] = d
    <3>1. w \in Chances(d) /\ Chances(d)' \subseteq Chances(d) \ {w}
      BY <1>t, <2>1, <2>3 DEF Chances, TypeOK
    <3>2. shown'[d] = shown[d] + 1 /\ mishaps'[d] = mishaps[d]
      BY <1>t, <2>1, <2>3 DEF TypeOK
    <3>3. QED
      BY <1>m, <2>2, <3>1, <3>2, PaidWhenSpent, RowChanceRange
  <2>4. CASE cur[w] # d
    <3>1. Chances(d)' = Chances(d) /\ shown'[d] = shown[d] /\ mishaps'[d] = mishaps[d]
      BY <1>t, <2>1, <2>4 DEF Chances, TypeOK
    <3>2. QED
      BY <1>m, <2>2, <3>1, PaidWhenFewer, RowChanceRange
  <2>5. QED
    BY <2>3, <2>4
<1>7. ASSUME NEW w \in Workers, AnswerLost(w) PROVE Paid(d)'
  <2>1. /\ UNCHANGED <<rowVars, claimed, cur>> /\ pc[w] = "send"
        /\ pc' = [pc EXCEPT ![w] = "retryable"]
        /\ shown' = [shown EXCEPT ![cur[w]] = @ + 1]
        /\ mishaps' = [mishaps EXCEPT ![cur[w]] = @ + 1]
        /\ cur[w] \in Deliveries
    BY <1>7, <1>t DEF AnswerLost, Goto, InHand
  <2>2. RowChance(d)' = RowChance(d) /\ Chances(d)' = Chances(d)
    BY <1>t, <2>1 DEF Chances, RowChance, Protected, Held, rowVars, TypeOK
  <2>3. \/ shown'[d] = shown[d] /\ mishaps'[d] = mishaps[d]
        \/ shown'[d] = shown[d] + 1 /\ mishaps'[d] = mishaps[d] + 1
    BY <1>t, <2>1 DEF TypeOK
  <2>4. IsFiniteSet(Chances(d)) /\ Cardinality(Chances(d)) \in Nat
    BY FS_CardinalityType DEF Paid
  <2>5. QED
    BY <1>m, <2>2, <2>3, <2>4, RowChanceRange DEF Paid
<1>8. ASSUME NEW w \in Workers, RecordOutcome(w) PROVE Paid(d)'
  <2>1. PICK step \in {"idle", "sweep"} : pc' = [pc EXCEPT ![w] = step]
    BY <1>8 DEF RecordOutcome, Goto
  <2>2. /\ pc[w] \in Answered /\ cur[w] \in Deliveries /\ claimed[w][cur[w]] > 0
        /\ status'  = [status EXCEPT ![cur[w]] = Outcome(w)]
        /\ live'    = [live EXCEPT ![cur[w]] = FALSE]
        /\ claimed' = [claimed EXCEPT ![w][cur[w]] = 0]
        /\ cur' = [cur EXCEPT ![w] = NoDelivery]
        /\ UNCHANGED <<shown, mishaps>>
    BY <1>8, <1>t DEF RecordOutcome, InHand
  <2>3. CASE cur[w] # d
    <3>1. \A v \in Workers : claimed'[v][d] = claimed[v][d]
      BY <1>t, <2>2, <2>3 DEF TypeOK
    <3>2. Chances(d)' \subseteq Chances(d)
      BY <1>t, <2>1, <2>2, <2>3, <3>1 DEF Chances, TypeOK
    <3>3. RowChance(d)' = RowChance(d)
      BY <1>t, <2>2, <2>3, <3>1 DEF RowChance, Protected, Held, TypeOK
    <3>4. QED
      BY <1>m, <2>2, <3>2, <3>3, PaidWhenFewer, RowChanceRange
  <2>4. ASSUME cur[w] = d PROVE Chances(d)' \subseteq Chances(d) \ {w}
    BY <1>t, <2>1, <2>2, <2>4 DEF Chances, TypeOK
  <2>5. CASE cur[w] = d /\ pc[w] = "ok"
    <3>1. status'[d] = "SENT"
      BY <1>t, <2>2, <2>5, OutcomeType DEF TypeOK
    <3>2. RowChance(d)' = 0
      BY <3>1 DEF RowChance
    <3>3. QED
      BY <1>m, <2>2, <2>4, <2>5, <3>2, PaidWhenFewer, RowChanceRange
  <2>6. CASE cur[w] = d /\ pc[w] # "ok"
    <3>1. w \in Chances(d)
      BY <2>2, <2>6 DEF Chances
    <3>2. QED
      BY <1>m, <2>2, <2>4, <2>6, <3>1, PaidWhenSpent, RowChanceRange
  <2>7. QED
    BY <2>3, <2>5, <2>6
<1>9. ASSUME NEW w \in Workers, CleanupChannelRecords(w) PROVE Paid(d)'
  <2>1. /\ UNCHANGED <<live, shown, mishaps, claimed, cur>>
        /\ pc' = [pc EXCEPT ![w] = "idle"] /\ pc[w] = "sweep"
        /\ status'[d] \in {status[d], "PURGED"}
    BY <1>9 DEF CleanupChannelRecords, Goto
  <2>2. Chances(d)' \subseteq Chances(d)
    BY <1>t, <2>1 DEF Chances, TypeOK
  <2>3. RowChance(d)' <= RowChance(d)
    BY <2>1 DEF RowChance, Protected, Held
  <2>4. QED
    BY <1>m, <2>1, <2>2, <2>3, PaidWhenFewer, RowChanceRange
<1>10. ASSUME NEW w \in Workers, Crash(w) PROVE Paid(d)'
  <2>1. /\ mishaps'[d] = IF claimed[w][d] > 0 THEN mishaps[d] + 1 ELSE mishaps[d]
        /\ claimed' = [claimed EXCEPT ![w] = [e \in Deliveries |-> 0]]
        /\ cur' = [cur EXCEPT ![w] = NoDelivery]
        /\ pc' = [pc EXCEPT ![w] = "idle"]
        /\ UNCHANGED <<rowVars, shown>>
    BY <1>10 DEF Crash, Holds, Goto
  <2>2. Chances(d)' \subseteq Chances(d)
    BY <1>t, <2>1 DEF Chances, TypeOK
  <2>3. CASE claimed[w][d] > 0
    BY <1>m, <2>1, <2>2, <2>3, PaidWhenFewer, RowChanceRange
  <2>4. CASE ~(claimed[w][d] > 0)
    <3>1. \A v \in Workers : claimed'[v][d] = claimed[v][d]
      BY <1>t, <2>1, <2>4 DEF TypeOK
    <3>2. RowChance(d)' = RowChance(d)
      BY <2>1, <3>1 DEF RowChance, Protected, Held, rowVars
    <3>3. QED
      BY <1>m, <2>1, <2>2, <2>4, <3>2, PaidWhenFewer, RowChanceRange
  <2>5. QED
    BY <2>3, <2>4
<1>11. CASE UNCHANGED vars
  BY <1>0, <1>11 DEF vars, workerVars
<1>12. QED
  BY <1>1, <1>2, <1>3, <1>4, <1>5, <1>6, <1>7, <1>8, <1>9, <1>10, <1>11
  DEF Next, WorkerStep

(* Neither several workers, retries, reclaimed leases nor an operator's    *)
(* requeue show a message twice: beyond the first copy there is a mishap   *)
(* for every copy the user sees.                                           *)
THEOREM CopiesHaveCauses == Spec => []EveryCopyHasACause
<1>1. Init => Budget
  <2> SUFFICES ASSUME Init, NEW d \in Deliveries PROVE Paid(d)
    BY DEF Budget
  <2>1. Chances(d) = {} /\ shown[d] = 0 /\ mishaps[d] = 0
    BY DEF Init, Chances
  <2>2. QED
    BY <2>1, FS_EmptySet, RowChanceRange DEF Paid
<1>2. TypeInv /\ Budget => EveryCopyHasACause
  <2> SUFFICES ASSUME TypeInv, NEW d \in Deliveries, Paid(d)
               PROVE  shown[d] <= 1 + mishaps[d]
    BY DEF Budget, EveryCopyHasACause
  <2>1. shown[d] \in Nat /\ mishaps[d] \in Nat /\ Cardinality(Chances(d)) \in Nat
    BY FS_CardinalityType DEF Paid, TypeInv, TypeOK
  <2>2. QED
    BY <2>1, RowChanceRange DEF Paid
<1>3. Spec => []Budget
  BY <1>1, TypeInvAlways, BudgetNext, PTL DEF Spec
<1>4. QED
  BY <1>2, <1>3, TypeInvAlways, PTL

=============================================================================
