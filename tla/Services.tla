------------------------------ MODULE Services ------------------------------
(***************************************************************************)
(* The services beside the ledger: the monthly payments, four kinds of     *)
(* records, the callback buttons, and the pure parts (billing cycle,       *)
(* reports, reconciliation).  They share no row with one another here, so  *)
(* a behaviour is one scene.                                               *)
(***************************************************************************)
EXTENDS ScheduledPayments, UserRecords, ChannelCallbacks, BillingCycle, Reporting,
        Reconciliation

VARIABLE scene   \* which of them a behaviour is about

RecordScenes == {"goal", "budget", "mapping", "wallet"}

Init == /\ scene \in {"payments", "buttons", "dates", "reports", "repair"} \cup RecordScenes
        /\ ScheduleInit /\ RecordsInit /\ CallbackInit
        /\ CycleInit /\ ReportingInit /\ ReconciliationInit

PaymentStep == scene = "payments" /\ ScheduleNext
RecordStep == \/ scene = "goal" /\ GoalNext
              \/ scene = "budget" /\ BudgetNext
              \/ scene = "mapping" /\ MappingNext
              \/ scene = "wallet" /\ WalletNext

Next ==
  /\ UNCHANGED scene
  /\ \/ PaymentStep /\ UNCHANGED <<recordVars, callbackVars, cycle, reportVars, past>>
     \/ RecordStep /\ UNCHANGED <<scheduleVars, callbackVars, cycle, reportVars, past>>
     \/ /\ scene = "buttons" /\ CallbackNext
        /\ UNCHANGED <<scheduleVars, recordVars, cycle, reportVars, past>>
     \/ /\ UNCHANGED <<scheduleVars, recordVars, callbackVars>>
        /\ \/ scene = "dates" /\ CycleNext /\ UNCHANGED <<reportVars, past>>
           \/ scene = "reports" /\ ReportingNext /\ UNCHANGED <<cycle, past>>
           \/ scene = "repair" /\ ReconciliationNext /\ UNCHANGED <<cycle, reportVars>>
vars == <<scheduleVars, recordVars, callbackVars, cycle, reportVars, past, scene>>
Spec == Init /\ [][Next]_vars

(* The rows of every service keep the types their tables and requests have. *)
ServicesTypeOK == ScheduleTypeOK /\ RecordsTypeOK /\ CallbackTypeOK
=============================================================================
