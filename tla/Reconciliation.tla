--------------------------- MODULE Reconciliation ---------------------------
(***************************************************************************)
(* The read-only audit of wallet balances, the repair plan drawn from it   *)
(* and the command that prints them, against what really happened to the   *)
(* wallets: money moved by rows that no longer say where it went, opening  *)
(* balances that were never recorded and balances changed by hand.         *)
(***************************************************************************)
EXTENDS Integers, FiniteSets, FiniteSetsExt

CONSTANTS AuditedWallets, Nowhere, History, Openings, Overrides

VARIABLE past   \* what happened to the wallets

(* A row as it is stored, with what it really did: to is the recorded      *)
(* destination, credited the wallet that got the money; grand the total    *)
(* its installment row gives, if there is one, lock what was charged.      *)
StoredRow(type, amount, from, to, credited, grand, lock) ==
  [type |-> type, amount |-> amount, from |-> from, to |-> to,
   credited |-> credited, grand |-> grand, lock |-> lock]
NoGrand == 0

(* What a row charged is its amount, or the grand total of an installment; *)
(* a recorded destination is the wallet that was credited.                 *)
ASSUME ReconciliationAssumption ==
  /\ Nowhere \notin AuditedWallets /\ Openings \subseteq Nat /\ Overrides \subseteq Int
  /\ \A rows \in History : IsFiniteSet(rows)
  /\ \A x \in UNION History :
       /\ x.type \in {"INCOME", "EXPENSE", "TRANSFER", "INSTALLMENT"}
       /\ {x.amount, x.grand} \subseteq Nat /\ x.lock \in Nat \ {0}
       /\ x.type # "INSTALLMENT" => x.lock = x.amount
       /\ x.type # "TRANSFER" => x.credited = Nowhere
       /\ x.type = "TRANSFER" /\ x.to # Nowhere => x.credited = x.to

---------------------------------------------------------------------------
(* The audit *)

Legacy(x) == x.type = "TRANSFER" /\ x.to = Nowhere

(* balanceDeltas, as reconciliation reads it: a destination that is not    *)
(* recorded is left out, and an installment without its row counts by the  *)
(* amount of a month.                                                      *)
Delta(x, w) ==
  LET out == IF x.type = "INSTALLMENT" /\ x.grand # NoGrand THEN x.grand ELSE x.amount
  IN (IF x.from # w THEN 0 ELSE IF x.type = "INCOME" THEN x.amount ELSE -out)
       + (IF x.type = "TRANSFER" /\ x.to = w THEN x.amount ELSE 0)

Expected(w, initial, rows) == initial + MapThenSumSet(LAMBDA x : Delta(x, w), rows)

LegacyCount(w, rows) == Cardinality({x \in rows : Legacy(x) /\ x.from = w})

Classify(drift, legacy, zeroInitial, overridden) ==
  CASE drift = 0 -> [classification |-> "CLEAN", confidence |-> "HIGH"]
    [] drift # 0 /\ legacy -> [classification |-> "LEGACY_TRANSFER_UNRESOLVED", confidence |-> "LOW"]
    [] drift # 0 /\ ~legacy /\ overridden ->
         [classification |-> "MANUAL_BALANCE_OVERRIDE_SUSPECTED", confidence |-> "LOW"]
    [] drift # 0 /\ ~legacy /\ ~overridden /\ zeroInitial ->
         [classification |-> "LIKELY_INITIAL_BALANCE_MISSING", confidence |-> "MEDIUM"]
    [] OTHER -> [classification |-> "UNCLASSIFIED_DRIFT", confidence |-> "LOW"]

(* auditWalletBalances for one wallet of the snapshot.                     *)
Audit(w, snap, suspected) ==
  LET expected == Expected(w, snap.initial[w], snap.rows)
      legacy == LegacyCount(w, snap.rows)
      found == Classify(snap.balance[w] - expected, legacy > 0,
                        snap.initial[w] = 0, w \in suspected)
  IN [wallet |-> w, stored |-> snap.balance[w], expected |-> expected, legacy |-> legacy,
      classification |-> found.classification, confidence |-> found.confidence]

Report(snap, suspected) == {Audit(w, snap, suspected) : w \in AuditedWallets}
HasDrift(report) == \E a \in report : a.classification # "CLEAN"

---------------------------------------------------------------------------
(* The plan and the command *)

(* Mutant: the absence of unresolved transfers is proof enough.            *)
ConfidenceUnverified(a, verified) == IF a.legacy = 0 THEN "HIGH" ELSE a.confidence

Confidence(a, verified) ==
  IF a.legacy = 0 /\ a.wallet \in verified THEN "HIGH" ELSE a.confidence

BuildRepairPlan(report, verified) ==
  {[wallet |-> a.wallet, balance |-> a.expected, difference |-> a.expected - a.stored,
    autoApply |-> Confidence(a, verified) = "HIGH",
    manual |-> Confidence(a, verified) = "LOW"] :
   a \in {b \in report : b.classification # "CLEAN"}}

(* The command passes no hints, whatever its mode.                         *)
Command(snap, userGiven) ==
  LET report == Report(snap, {})
  IN [plan |-> IF userGiven THEN BuildRepairPlan(report, {}) ELSE {},
      exit |-> IF ~userGiven THEN 1 ELSE IF HasDrift(report) THEN 2 ELSE 0]

---------------------------------------------------------------------------
(* What happened *)

Effect(x, w) == (IF x.from # w THEN 0 ELSE IF x.type = "INCOME" THEN x.amount ELSE -x.lock)
                  + (IF x.credited = w THEN x.amount ELSE 0)
TrueBalance(w) == past.opening[w] + MapThenSumSet(LAMBDA x : Effect(x, w), past.rows)

(* The tables: an opening balance is recorded or was left at zero.         *)
Snapshot == [rows |-> past.rows,
             initial |-> [w \in AuditedWallets |-> IF w \in past.recorded THEN past.opening[w] ELSE 0],
             balance |-> [w \in AuditedWallets |-> TrueBalance(w) + past.override[w]]]

NewAccount == [rows |-> {}, opening |-> [w \in AuditedWallets |-> 0], override |-> [w \in AuditedWallets |-> 0],
               recorded |-> AuditedWallets, verified |-> {}]
ReconciliationInit == past = NewAccount

(* An opening balance can only be verified where it was recorded.          *)
Happen ==
  \E rows \in History, opening \in [AuditedWallets -> Openings], override \in [AuditedWallets -> Overrides],
     recorded \in SUBSET AuditedWallets : \E verified \in SUBSET recorded :
    past' = [rows |-> rows, opening |-> opening, override |-> override,
             recorded |-> recorded, verified |-> verified]
ReconciliationNext == past = NewAccount /\ Happen
ReconciliationSpec == ReconciliationInit /\ [][ReconciliationNext]_past

---------------------------------------------------------------------------
(* The rows tell what became of w: no transfer that does not name it       *)
(* credited it, and no installment of its own has lost its grand total.    *)
ToldBy(rows, w) ==
  \A x \in rows : /\ ~(Legacy(x) /\ x.credited = w)
                  /\ x.type = "INSTALLMENT" /\ x.from = w => x.grand = x.lock

(* A repair that may be applied without a person restores the balance of a *)
(* wallet whose rows tell what became of it.  Of the others it is not true *)
(* (LedgerIsAuthoritative below).                                          *)
AppliedRepairsAreRight ==
  \A p \in BuildRepairPlan(Report(Snapshot, {}), past.verified) :
    p.autoApply /\ ToldBy(past.rows, p.wallet) => p.balance = TrueBalance(p.wallet)

(* Applying a whole plan leaves nothing to repair, and the command never   *)
(* offers to apply anything by itself.  Its exit code tells a drift.       *)
PlansSettle ==
  LET command == Command(Snapshot, TRUE)
      repaired(w) == {p \in command.plan : p.wallet = w}
      after == [Snapshot EXCEPT !.balance =
                  [w \in AuditedWallets |-> @[w] + MapThenSumSet(LAMBDA p : p.difference, repaired(w))]]
  IN /\ ~HasDrift(Report(after, {}))
     /\ \A p \in command.plan : ~p.autoApply
     /\ command.exit = 2 <=> command.plan # {}
     /\ Command(Snapshot, FALSE).exit = 1

(* Of a wallet whose opening balance was recorded and whose rows tell what *)
(* became of it, the command proposes to take back what was changed by     *)
(* hand, to the amount, and nothing else.                                  *)
OverridesAreTakenBack ==
  \A w \in past.recorded :
    LET entries == {p \in Command(Snapshot, TRUE).plan : p.wallet = w}
    IN ToldBy(past.rows, w) =>
         /\ past.override[w] = 0 <=> entries = {}
         /\ \A p \in entries : p.difference = -past.override[w]

(* RepairsNeedProof: what the audit proposes is what the tables can prove, *)
(* and the command offers nothing to apply on a guess.                     *)
RepairsNeedProof ==
  past # NewAccount => AppliedRepairsAreRight /\ PlansSettle /\ OverridesAreTakenBack

(* LedgerIsAuthoritative, which it is not: a repair becomes automatic with *)
(* "No unresolved transfers and the initial balance is independently       *)
(* verified, so the ledger-derived expected balance is authoritative"      *)
(* (domain/repairPlan.ts:57).  Unresolved transfers are counted against    *)
(* their source alone: the wallet that received one has none, and its      *)
(* repair takes the money away again.  So it is with an installment whose  *)
(* row is lost, which counts by the amount of a month.                     *)
LedgerIsAuthoritative ==
  past # NewAccount =>
    \A p \in BuildRepairPlan(Report(Snapshot, {}), past.verified) :
      p.autoApply => p.balance = TrueBalance(p.wallet)
=============================================================================
