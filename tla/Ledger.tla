------------------------------- MODULE Ledger -------------------------------
(***************************************************************************)
(* The ledger: every wallet keeps a running balance next to the            *)
(* transactions that explain it.  Creating, updating and deleting a        *)
(* transaction, and deleting a wallet, first read and check outside any    *)
(* database transaction, then write rows and balances in one.  Balances    *)
(* move by atomic increments, but what is reversed comes from the earlier  *)
(* read.                                                                   *)
(*                                                                         *)
(* A transaction is named by the request that created it.  The amount of   *)
(* an INSTALLMENT (an expense on a credit wallet) is its grand total, the  *)
(* debt its balance effect uses; currency is a whole number of units.      *)
(***************************************************************************)
EXTENDS Integers, FiniteSets, FiniteSetsExt

CONSTANTS
  Wallets,      \* wallets of one user
  WalletType,   \* ASSET (cash, bank, e-wallet), CREDIT (card, paylater) or LOAN
  Opening,      \* initialBalance of each wallet
  CreditLimit,  \* creditLimit of each wallet
  Amounts,      \* amounts a client may ask for
  Requests,     \* create, update, delete and delete-wallet requests
  None          \* no wallet

ASSUME ConstantsAssumption ==
  /\ WalletType \in [Wallets -> {"ASSET", "CREDIT", "LOAN"}]
  /\ Opening \in [Wallets -> Int]
  /\ CreditLimit \in [Wallets -> Nat]
  /\ Amounts \subseteq Nat \ {0}
  /\ IsFiniteSet(Requests)
  /\ None \notin Wallets

VARIABLES
  exists,   \* wallets that are not deleted
  balance,  \* stored balance of each wallet
  rows,     \* transactions by the request that created them
  pc,       \* what a request is about to commit
  target,   \* the transaction or wallet a request is about
  snap,     \* the row as the request read it
  want,     \* the row the request computed from what it read
  fields,   \* the columns an update names
  raced     \* history: wallets touched by a commit whose reads were stale

requestVars == <<target, snap, want, fields>>
vars == <<exists, balance, rows, pc, target, snap, want, fields, raced>>

Row == [type   : {"INCOME", "EXPENSE", "TRANSFER", "INSTALLMENT"},
        amount : Amounts,
        from   : Wallets,
        to     : Wallets \cup {None}]
NoRow   == [type |-> "NONE"]
Deleted == [type |-> "DELETED"]

Step == {"idle", "create", "update", "delete", "deleteWallet", "done"}
Columns == {"type", "amount", "from"}

Present(t) == rows[t] \in Row

Init ==
  /\ exists  = Wallets
  /\ balance = Opening
  /\ rows    = [t \in Requests |-> NoRow]
  /\ pc      = [r \in Requests |-> "idle"]
  /\ target  = [r \in Requests |-> None]
  /\ snap    = [r \in Requests |-> NoRow]
  /\ want    = [r \in Requests |-> NoRow]
  /\ fields  = [r \in Requests |-> {}]
  /\ raced   = {}

-----------------------------------------------------------------------------
(* Balance effects *)

(* computeBalanceEffect on one wallet; a transfer without a destination    *)
(* (a legacy row) moves its source side only.                              *)
Effect(row, w) ==
  CASE row.type = "TRANSFER" ->
         (IF row.to = w THEN row.amount ELSE 0) - (IF row.from = w THEN row.amount ELSE 0)
    [] row.type = "INCOME" /\ row.from = w -> row.amount
    [] row.type \in {"EXPENSE", "INSTALLMENT"} /\ row.from = w -> -row.amount
    [] OTHER -> 0

Touched(row) == IF row \in Row THEN {row.from, row.to} \ {None} ELSE {}

(* applyBalanceDeltas: undo one row's effect, apply another's. *)
Rebalance(undone, applied) ==
  balance' = [w \in Wallets |-> balance[w] - Effect(undone, w) + Effect(applied, w)]

(* reconcileWalletBalances: the balance the ledger explains. *)
Expected(w) ==
  Opening[w] + MapThenSumSet(LAMBDA t : Effect(rows[t], w), Requests)

-----------------------------------------------------------------------------
(* Checks made on what a request reads *)

ValidTransfer(row) ==
  /\ row.to \in exists \ {row.from}
  /\ WalletType[row.from] = "ASSET"
  /\ balance[row.from] >= row.amount

(* The debt of a credit wallet is its negative balance. *)
RemainingCredit(w) ==
  Max({0, CreditLimit[w] - (IF balance[w] < 0 THEN -balance[w] ELSE 0)})

Creatable(row) ==
  /\ row.from \in exists
  /\ row.type # "TRANSFER" => row.to = None
  /\ CASE row.type = "TRANSFER"    -> ValidTransfer(row)
       [] row.type = "INSTALLMENT" -> WalletType[row.from] = "CREDIT"
                                      /\ row.amount <= RemainingCredit(row.from)
       [] OTHER                    -> WalletType[row.from] = "ASSET"

Legacy(row) == row.type = "TRANSFER" /\ row.to = None

(* What an update may turn a row into: the named columns change, the       *)
(* others keep the values just read.                                       *)
Updatable(old, new, cols) ==
  /\ old.type # "INSTALLMENT" /\ new.type # "INSTALLMENT"
  /\ ~Legacy(old)
  /\ "type" \notin cols => new.type = old.type
  /\ "amount" \notin cols => new.amount = old.amount
  /\ "from" \notin cols => new.from = old.from
  /\ new.from \in exists
  /\ IF new.type = "TRANSFER" THEN ValidTransfer(new) ELSE new.to = None
  /\ new.type = "INCOME" => WalletType[new.from] = "ASSET"

-----------------------------------------------------------------------------
(* Requests: read and check, then commit *)

Begin(r, step, t, old, new, cols) ==
  /\ pc[r] = "idle"
  /\ pc'     = [pc EXCEPT ![r] = step]
  /\ target' = [target EXCEPT ![r] = t]
  /\ snap'   = [snap EXCEPT ![r] = old]
  /\ want'   = [want EXCEPT ![r] = new]
  /\ fields' = [fields EXCEPT ![r] = cols]
  /\ UNCHANGED <<exists, balance, rows, raced>>

BeginCreate(r) ==
  \E row \in {x \in Row : Creatable(x)} : Begin(r, "create", r, NoRow, row, {})

BeginUpdate(r) ==
  \E t \in {x \in Requests : Present(x)}, cols \in SUBSET Columns, new \in Row :
    /\ Updatable(rows[t], new, cols)
    /\ Begin(r, "update", t, rows[t], new, cols)

BeginDelete(r) ==
  \E t \in {x \in Requests : Present(x)} :
    /\ ~Legacy(rows[t])
    /\ Begin(r, "delete", t, rows[t], Deleted, {})

(* Either side of a transfer refuses, even with force. *)
BeginDeleteWallet(r) ==
  \E w \in exists :
    /\ \A t \in Requests :
         Present(t) /\ rows[t].type = "TRANSFER" => w \notin Touched(rows[t])
    /\ Begin(r, "deleteWallet", w, NoRow, NoRow, {})

Finish(r, step) ==
  /\ pc[r] = step
  /\ pc' = [pc EXCEPT ![r] = "done"]
  /\ UNCHANGED requestVars

(* Foreign keys and missing rows abort a commit as a whole. *)
Refused == UNCHANGED <<exists, balance, rows, raced>>

CommitCreate(r) ==
  /\ Finish(r, "create")
  /\ IF Touched(want[r]) \subseteq exists
     THEN /\ rows' = [rows EXCEPT ![r] = want[r]]
          /\ Rebalance(NoRow, want[r])
          /\ UNCHANGED <<exists, raced>>
     ELSE Refused

CommittableDeleteMany(r) ==   \* mutant: a delete that finds no row succeeds
  /\ Present(target[r]) \/ pc[r] = "delete"
  /\ Touched(snap[r]) \cup Touched(want[r]) \subseteq exists

(* A row that is gone (P2025), or a wallet that is, refuses the commit; a  *)
(* row that merely changed does not.                                       *)
Committable(r) ==
  /\ Present(target[r])
  /\ Touched(snap[r]) \cup Touched(want[r]) \subseteq exists

NoteRace(r) ==
  LET now == rows[target[r]] IN
  raced' = IF now = snap[r] THEN raced
           ELSE raced \cup Touched(now) \cup Touched(snap[r]) \cup Touched(want[r])

(* Mutants of the written row: the destination is left alone, the amount   *)
(* is stored as a difference.                                              *)
MergeNamedOnly(now, new, cols) ==
  [type   |-> IF "type" \in cols THEN new.type ELSE now.type,
   amount |-> IF "amount" \in cols THEN new.amount ELSE now.amount,
   from   |-> IF "from" \in cols THEN new.from ELSE now.from,
   to     |-> now.to]
MergeDifference(now, new, cols) ==
  [new EXCEPT !.amount = IF "amount" \in cols THEN new.amount - now.amount ELSE now.amount]

(* The named columns and the destination are written over the row as it    *)
(* is now; the balances move by what was read.                             *)
Merge(now, new, cols) ==
  [type   |-> IF "type" \in cols THEN new.type ELSE now.type,
   amount |-> IF "amount" \in cols THEN new.amount ELSE now.amount,
   from   |-> IF "from" \in cols THEN new.from ELSE now.from,
   to     |-> new.to]

CommitUpdate(r) ==
  /\ Finish(r, "update")
  /\ IF Committable(r)
     THEN /\ rows' = [rows EXCEPT ![target[r]] = Merge(@, want[r], fields[r])]
          /\ Rebalance(snap[r], want[r])
          /\ NoteRace(r)
          /\ UNCHANGED exists
     ELSE Refused

CommitDelete(r) ==
  /\ Finish(r, "delete")
  /\ IF Committable(r)
     THEN /\ rows' = [rows EXCEPT ![target[r]] = Deleted]
          /\ Rebalance(snap[r], NoRow)
          /\ NoteRace(r)
          /\ UNCHANGED exists
     ELSE Refused

(* Rows of the wallet cascade; rows that name it as destination lose it.   *)
(* A transfer that slipped in after the check leaves its other side alone. *)
AfterWalletDelete(row, w) ==
  IF row \notin Row THEN row
  ELSE IF row.from = w THEN Deleted
  ELSE IF row.to = w THEN [row EXCEPT !.to = None]
  ELSE row

CommitDeleteWallet(r) ==
  LET w == target[r] IN
  /\ Finish(r, "deleteWallet")
  /\ IF w \in exists
     THEN /\ exists' = exists \ {w}
          /\ rows' = [t \in Requests |-> AfterWalletDelete(rows[t], w)]
          /\ raced' = raced \cup UNION {Touched(rows[t]) :
                        t \in {x \in Requests : Present(x) /\ rows[x].type = "TRANSFER"
                                                /\ w \in Touched(rows[x])}}
          /\ UNCHANGED balance
     ELSE Refused

Next ==
  \E r \in Requests :
    \/ BeginCreate(r)
    \/ BeginUpdate(r)
    \/ BeginDelete(r)
    \/ BeginDeleteWallet(r)
    \/ CommitCreate(r)
    \/ CommitUpdate(r)
    \/ CommitDelete(r)
    \/ CommitDeleteWallet(r)

Spec == Init /\ [][Next]_vars

-----------------------------------------------------------------------------
(* Properties *)

(* The variables hold the values the columns and the requests can hold. *)
TypeOK ==
  /\ exists  \subseteq Wallets
  /\ balance \in [Wallets -> Int]
  /\ rows    \in [Requests -> Row \cup {NoRow, Deleted}]
  /\ pc      \in [Requests -> Step]
  /\ target  \in [Requests -> Requests \cup Wallets \cup {None}]
  /\ snap    \in [Requests -> Row \cup {NoRow}]
  /\ want    \in [Requests -> Row \cup {NoRow, Deleted}]
  /\ fields  \in [Requests -> SUBSET Columns]
  /\ raced   \subseteq Wallets

(* A stored balance departs from what the ledger explains only on wallets  *)
(* that a stale update, a stale delete or a transfer racing a wallet       *)
(* delete touched: double deletes, partial updates, type changes,          *)
(* installments and cascades never cause drift by themselves               *)
(* (transactionBalance.ts:4).                                              *)
DriftNeedsARace ==
  \A w \in exists \ raced : balance[w] = Expected(w)

(* A deleted transaction never comes back: an update that was already in   *)
(* flight neither restores the row nor moves money for it                  *)
(* (transaction.service.ts:447).                                           *)
DeletedStaysDeleted ==
  [][\A t \in Requests : rows[t] = Deleted =>
       /\ rows'[t] = Deleted
       /\ \A r \in Requests : target[r] = t /\ pc[r] \in {"update", "delete"} =>
            (pc'[r] # pc[r] => balance' = balance)]_vars

(* domain/transactionBalance.ts:4: "the create-time effect and its         *)
(* reversal can never disagree": every stored balance is the one its       *)
(* transactions explain.                                                   *)
BalancesReconcile == \A w \in exists : balance[w] = Expected(w)

=============================================================================
