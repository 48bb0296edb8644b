----------------------------- MODULE UserRecords -----------------------------
(***************************************************************************)
(* Records a user plans with: a saving goal, the budget of a category,     *)
(* merchant mappings, and the settings of a wallet.  None of these writes  *)
(* is in a transaction with the read that it was checked against: a        *)
(* request reads the row, decides, and writes it by its id.                *)
(***************************************************************************)
EXTENDS Naturals, FiniteSets

CONSTANTS
  Editors,     \* requests served at a time
  Amounts,     \* amounts of goals and budgets
  Merchants,   \* normalized merchant names
  Mappings,    \* ids of merchant mappings
  MaxArchivals \* bound on archivals of the budget

Free == "free"         \* an id not used yet
Removed == "removed"

ASSUME RecordsAssumption == /\ Amounts \subseteq Nat /\ MaxArchivals \in Nat
                            /\ Merchants \cap {Free, Removed} = {}

VARIABLES
  goal,      \* the saving goal
  budget,    \* the budget of the category
  mapping,   \* normalized merchant of each mapping row
  wallet,    \* type and settings of the wallet
  edit,      \* what each request read and is about to write
  stale,     \* history: families whose row changed between read and write
  net        \* history: what clients were told about the budget

recordVars == <<goal, budget, mapping, wallet, edit, stale, net>>

None_ == [row |-> "none"]
NoEdit == [op |-> "none"]

RecordsInit ==
  /\ goal = None_ /\ budget = None_ /\ wallet = None_
  /\ mapping = [m \in Mappings |-> Free]
  /\ edit = [e \in Editors |-> NoEdit]
  /\ stale = {}
  /\ net = [created |-> 0, archived |-> 0, restored |-> 0]

Begins(e, r) == edit[e] = NoEdit /\ edit' = [edit EXCEPT ![e] = r]
Ends(e) == edit' = [edit EXCEPT ![e] = NoEdit]
Stale(e, row, family) == stale' = IF edit[e].seen # row THEN stale \cup {family} ELSE stale

-----------------------------------------------------------------------------
(* Saving goals *)

ResolveStatus(current, target) == IF current >= target THEN "COMPLETED" ELSE "ACTIVE"

CreateSavingGoal ==
  /\ goal = None_
  /\ \E target \in Amounts \ {0}, current \in Amounts :
       goal' = [row |-> "live", target |-> target, current |-> current,
                status |-> ResolveStatus(current, target)]
  /\ UNCHANGED <<budget, mapping, wallet, edit, stale, net>>

(* All three operations refuse an archived goal, as they read it. *)
ReadSavingGoal(e) ==
  /\ goal # None_ /\ goal.status # "ARCHIVED"
  /\ \/ \E t \in Amounts \ {0} : Begins(e, [op |-> "target", seen |-> goal, value |-> t])
     \/ \E a \in Amounts : Begins(e, [op |-> "progress", seen |-> goal, value |-> a])
     \/ Begins(e, [op |-> "archiveGoal", seen |-> goal])
  /\ UNCHANGED <<goal, budget, mapping, wallet, stale, net>>

(* The new status comes from the amount that was read, not from the row    *)
(* that is written.                                                        *)
UpdateSavingGoal(e) ==
  /\ edit[e].op = "target"
  /\ goal' = [goal EXCEPT !.target = edit[e].value,
                          !.status = ResolveStatus(edit[e].seen.current, edit[e].value)]
  /\ Stale(e, goal, "goal") /\ Ends(e)
  /\ UNCHANGED <<budget, mapping, wallet, net>>

(* Mutant: the status is not computed again. *)
ProgressWithoutStatus(e) ==
  /\ edit[e].op = "progress"
  /\ goal' = [goal EXCEPT !.current = edit[e].value]
  /\ Stale(e, goal, "goal") /\ Ends(e)
  /\ UNCHANGED <<budget, mapping, wallet, net>>

UpdateSavingGoalProgress(e) ==
  /\ edit[e].op = "progress"
  /\ goal' = [goal EXCEPT !.current = edit[e].value,
                          !.status = ResolveStatus(edit[e].value, edit[e].seen.target)]
  /\ Stale(e, goal, "goal") /\ Ends(e)
  /\ UNCHANGED <<budget, mapping, wallet, net>>

ArchiveSavingGoal(e) ==
  /\ edit[e].op = "archiveGoal"
  /\ goal' = [goal EXCEPT !.status = "ARCHIVED"]
  /\ Stale(e, goal, "goal") /\ Ends(e)
  /\ UNCHANGED <<budget, mapping, wallet, net>>

GoalNext == \/ CreateSavingGoal
            \/ \E e \in Editors : \/ ReadSavingGoal(e) \/ UpdateSavingGoal(e)
                                  \/ UpdateSavingGoalProgress(e) \/ ArchiveSavingGoal(e)

-----------------------------------------------------------------------------
(* The budget of a category.  createBudget looks first and then inserts;   *)
(* the unique constraint turns a late insert into the same refusal.        *)

Archived(b) == b # None_ /\ b.isArchived

ReadBudget(e) ==
  /\ \/ budget = None_ /\ \E a \in Amounts \ {0} :
          Begins(e, [op |-> "createBudget", seen |-> budget, value |-> a])
     \/ budget # None_ /\ \E a \in Amounts \ {0} :
          Begins(e, [op |-> "amount", seen |-> budget, value |-> a])
     \/ budget # None_ /\ ~Archived(budget) /\ net.archived < MaxArchivals
          /\ Begins(e, [op |-> "archiveBudget", seen |-> budget])
     \/ Archived(budget) /\ Begins(e, [op |-> "restoreBudget", seen |-> budget])
  /\ UNCHANGED <<goal, budget, mapping, wallet, stale, net>>

CreateBudget(e) ==
  /\ edit[e].op = "createBudget"
  /\ IF budget = None_
     THEN /\ budget' = [row |-> "live", amount |-> edit[e].value, isArchived |-> FALSE]
          /\ net' = [net EXCEPT !.created = @ + 1]
     ELSE UNCHANGED <<budget, net>>
  /\ Ends(e)
  /\ UNCHANGED <<goal, mapping, wallet, stale>>

(* An archived budget may be given another amount. *)
UpdateBudgetAmount(e) ==
  /\ edit[e].op = "amount"
  /\ budget' = [budget EXCEPT !.amount = edit[e].value]
  /\ Ends(e)
  /\ UNCHANGED <<goal, mapping, wallet, stale, net>>

ArchiveBudget(e) ==
  /\ edit[e].op = "archiveBudget"
  /\ budget' = [budget EXCEPT !.isArchived = TRUE]
  /\ net' = [net EXCEPT !.archived = @ + 1]
  /\ stale' = IF Archived(budget) THEN stale \cup {"budget"} ELSE stale
  /\ Ends(e)
  /\ UNCHANGED <<goal, mapping, wallet>>

RestoreBudget(e) ==
  /\ edit[e].op = "restoreBudget"
  /\ budget' = [budget EXCEPT !.isArchived = FALSE]
  /\ net' = [net EXCEPT !.restored = @ + 1]
  /\ stale' = IF Archived(budget) THEN stale ELSE stale \cup {"budget"}
  /\ Ends(e)
  /\ UNCHANGED <<goal, mapping, wallet>>

BudgetNext == \E e \in Editors : \/ ReadBudget(e) \/ CreateBudget(e) \/ UpdateBudgetAmount(e)
                                 \/ ArchiveBudget(e) \/ RestoreBudget(e)

-----------------------------------------------------------------------------
(* Merchant mappings: the same pattern, with updates that may collide too *)

Taken(name, but) == \E m \in Mappings \ but : mapping[m] = name

Rows == {m \in Mappings : mapping[m] \in Merchants}

ReadMapping(e) ==
  /\ \E name \in Merchants :
       \/ ~Taken(name, {}) /\ Begins(e, [op |-> "createMapping", value |-> name])
       \/ \E m \in Rows : \/ /\ ~Taken(name, {m})
                             /\ Begins(e, [op |-> "rename", id |-> m, value |-> name])
                          \/ Begins(e, [op |-> "remove", id |-> m])
  /\ UNCHANGED <<goal, budget, mapping, wallet, stale, net>>

CreateMapping(e) ==
  /\ edit[e].op = "createMapping"
  /\ \/ Taken(edit[e].value, {}) /\ UNCHANGED mapping
     \/ /\ ~Taken(edit[e].value, {})
        /\ \E m \in Mappings : /\ mapping[m] = Free
                              /\ mapping' = [mapping EXCEPT ![m] = edit[e].value]
  /\ Ends(e)
  /\ UNCHANGED <<goal, budget, wallet, stale, net>>

UpdateMapping(e) ==
  /\ edit[e].op = "rename"
  /\ mapping' = IF edit[e].id \in Rows /\ ~Taken(edit[e].value, {edit[e].id})
                THEN [mapping EXCEPT ![edit[e].id] = edit[e].value] ELSE mapping
  /\ Ends(e)
  /\ UNCHANGED <<goal, budget, wallet, stale, net>>

RemoveMapping(e) ==
  /\ edit[e].op = "remove"
  /\ mapping' = [mapping EXCEPT ![edit[e].id] = Removed]
  /\ Ends(e)
  /\ UNCHANGED <<goal, budget, wallet, stale, net>>

MappingNext == \E e \in Editors : \/ ReadMapping(e) \/ CreateMapping(e)
                                  \/ UpdateMapping(e) \/ RemoveMapping(e)

-----------------------------------------------------------------------------
(* Settings of a wallet.  Its ledger is modelled in Ledger. *)

AssetTypes == {"CASH", "BANK", "E_WALLET"}
CreditTypes == {"CREDIT_CARD", "PAYLATER"}
WalletTypes == AssetTypes \cup CreditTypes \cup {"LOAN"}

(* An asset opens at zero or more, a credit wallet at zero with a limit,   *)
(* a loan in debt; only a credit wallet has a limit and billing days.      *)
CreateWallet ==
  /\ wallet = None_
  /\ \E type \in {"CASH", "CREDIT_CARD", "LOAN"}, billed \in BOOLEAN :
       /\ billed => type \in CreditTypes
       /\ \E opens \in CASE type \in AssetTypes -> {"zero", "positive"}
                         [] type \in CreditTypes -> {"zero"}
                         [] type = "LOAN" -> {"negative"} :
            wallet' = [row |-> "live", type |-> type, opens |-> opens,
                       limit |-> type \in CreditTypes, billed |-> billed]
  /\ UNCHANGED <<goal, budget, mapping, edit, stale, net>>

(* The type may be changed to any other, whatever the wallet holds; the    *)
(* credit settings are checked against the type that was read.  A balance  *)
(* other than the stored one is refused and none is ever written.          *)
ReadWallet(e) ==
  /\ wallet # None_
  /\ \/ \E type \in {"CASH", "CREDIT_CARD"} :
          Begins(e, [op |-> "retype", seen |-> wallet, value |-> type])
     \/ wallet.type \in CreditTypes /\ Begins(e, [op |-> "credit", seen |-> wallet])
  /\ UNCHANGED <<goal, budget, mapping, wallet, stale, net>>

UpdateWallet(e) ==
  /\ \/ /\ edit[e].op = "retype"
        /\ wallet' = [wallet EXCEPT !.type = edit[e].value]
        /\ stale' = IF edit[e].value # wallet.type THEN stale \cup {"retyped"} ELSE stale
     \/ /\ edit[e].op = "credit"
        /\ wallet' = [wallet EXCEPT !.limit = TRUE, !.billed = TRUE]
        /\ UNCHANGED stale
  /\ Ends(e)
  /\ UNCHANGED <<goal, budget, mapping, net>>

WalletNext == CreateWallet \/ \E e \in Editors : ReadWallet(e) \/ UpdateWallet(e)

RecordsNext == GoalNext \/ BudgetNext \/ MappingNext \/ WalletNext
RecordsSpec == RecordsInit /\ [][RecordsNext]_recordVars

-----------------------------------------------------------------------------
(* Properties *)

RecordsTypeOK ==
  /\ goal = None_ \/ goal \in [row : {"live"}, target : Amounts, current : Amounts,
                               status : {"ACTIVE", "COMPLETED", "ARCHIVED"}]
  /\ budget = None_ \/ budget \in [row : {"live"}, amount : Amounts, isArchived : BOOLEAN]
  /\ mapping \in [Mappings -> Merchants \cup {Free, Removed}]
  /\ wallet = None_ \/ wallet.type \in WalletTypes
  /\ stale \subseteq {"goal", "budget", "retyped"}

(* Each record agrees with what it is computed from and with what clients  *)
(* were told about it, unless two requests overlapped on it: a goal is     *)
(* completed exactly when its amount reaches its target; a category has    *)
(* one budget, which is archived exactly when one more archival than       *)
(* restorals was answered with success; no merchant is mapped twice; and a *)
(* wallet has a limit and an opening balance that fit its type, unless its *)
(* type was changed.                                                       *)
RecordsAgree ==
  /\ goal # None_ /\ "goal" \notin stale /\ goal.status # "ARCHIVED"
       => goal.status = ResolveStatus(goal.current, goal.target)
  /\ net.created = IF budget = None_ THEN 0 ELSE 1
  /\ "budget" \notin stale
       => net.archived = net.restored + IF Archived(budget) THEN 1 ELSE 0
  /\ \A m, n \in Rows : mapping[m] = mapping[n] => m = n
  /\ wallet # None_ /\ "retyped" \notin stale =>
       /\ wallet.type \in CreditTypes <=> wallet.limit
       /\ wallet.billed => wallet.limit
       /\ wallet.type = "LOAN" <=> wallet.opens = "negative"
=============================================================================
