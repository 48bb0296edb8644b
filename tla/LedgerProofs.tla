---------------------------- MODULE LedgerProofs ----------------------------
(***************************************************************************)
(* The ledger's theorems, for any wallets, requests, amounts and opening   *)
(* balances: the types, that a balance departs from its transactions only  *)
(* on raced wallets, and that a deleted transaction stays deleted.         *)
(***************************************************************************)
EXTENDS Ledger, SumTheorems

(* What a request holds at each step: a row to create is unused so far, an *)
(* update writes exactly what it computed over the row it read.            *)
RequestInv ==
  \A r \in Requests :
    /\ pc[r] \in {"idle", "create"} => rows[r] = NoRow
    /\ pc[r] = "create" => want[r] \in Row
    /\ pc[r] \in {"update", "delete"} => target[r] \in Requests /\ snap[r] \in Row
    /\ pc[r] = "update" => /\ want[r] \in Row
                           /\ Merge(snap[r], want[r], fields[r]) = want[r]
    /\ pc[r] = "deleteWallet" => target[r] \in Wallets

Inv == TypeOK /\ RequestInv

-----------------------------------------------------------------------------
(* Rows *)

LEMMA TypeTags ==
  /\ NoRow \notin Row /\ Deleted \notin Row /\ NoRow # Deleted
  /\ \A x \in Row : x.type \in {"INCOME", "EXPENSE", "TRANSFER", "INSTALLMENT"}
<1>1. NoRow.type = "NONE" /\ Deleted.type = "DELETED"
  BY DEF NoRow, Deleted
<1>2. \A x \in Row : x.type \in {"INCOME", "EXPENSE", "TRANSFER", "INSTALLMENT"}
  BY DEF Row
<1>3. QED
  BY <1>1, <1>2

LEMMA EffectOfNothing ==
  \A w : Effect(NoRow, w) = 0 /\ Effect(Deleted, w) = 0
  BY DEF Effect, NoRow, Deleted

LEMMA AmountIsNumber == \A x \in Row : x.amount \in Int
<1>1. Amounts \subseteq Int
  BY ConstantsAssumption
<1>2. QED
  BY <1>1 DEF Row

LEMMA EffectIsNumber ==
  ASSUME NEW x \in Row \cup {NoRow, Deleted}, NEW w
  PROVE  Effect(x, w) \in Int
<1>1. CASE x \in Row
  <2>1. x.amount \in Int
    BY <1>1, AmountIsNumber
  <2>2. QED
    BY <2>1 DEF Effect
<1>2. CASE x \in {NoRow, Deleted}
  BY <1>2, EffectOfNothing
<1>3. QED
  BY <1>1, <1>2

LEMMA NoEffectOutside ==
  ASSUME NEW x \in Row, NEW w \in Wallets, w \notin Touched(x)
  PROVE  Effect(x, w) = 0
<1>1. x.from # w /\ x.to # w
  BY ConstantsAssumption DEF Touched
<1>2. x.amount \in Int
  BY AmountIsNumber
<1>3. QED
  BY <1>1, <1>2 DEF Effect

LEMMA MergeIsRow ==
  ASSUME NEW x \in Row, NEW y \in Row, NEW cols
  PROVE  Merge(x, y, cols) \in Row
  BY DEF Merge, Row

LEMMA MergeTouches ==
  ASSUME NEW x \in Row, NEW y \in Row, NEW cols
  PROVE  Touched(Merge(x, y, cols)) \subseteq Touched(x) \cup Touched(y)
<1>1. Merge(x, y, cols) \in Row
  BY MergeIsRow
<1>2. Merge(x, y, cols).from \in {x.from, y.from} /\ Merge(x, y, cols).to = y.to
  BY DEF Merge
<1>3. QED
  BY <1>1, <1>2 DEF Touched

LEMMA WalletDeleteIsRow ==
  ASSUME NEW x \in Row \cup {NoRow, Deleted}, NEW w
  PROVE  /\ AfterWalletDelete(x, w) \in Row \cup {NoRow, Deleted}
         /\ x \in {NoRow, Deleted} => AfterWalletDelete(x, w) = x
  BY TypeTags DEF AfterWalletDelete, Row

(* Deleting wallet w leaves the effect on another wallet alone, unless a   *)
(* transfer joins the two.                                                 *)
LEMMA WalletDeleteKeepsEffects ==
  ASSUME NEW x \in Row \cup {NoRow, Deleted}, NEW w \in Wallets, NEW v \in Wallets, v # w,
         x \in Row /\ x.type = "TRANSFER" /\ w \in Touched(x) => v \notin Touched(x)
  PROVE  Effect(AfterWalletDelete(x, w), v) = Effect(x, v)
<1>1. CASE x \notin Row \/ w \notin Touched(x)
  BY <1>1, ConstantsAssumption DEF AfterWalletDelete, Touched
<1>2. CASE x \in Row /\ v \notin Touched(x)
  <2>1. Effect(x, v) = 0
    BY <1>2, NoEffectOutside
  <2>2. CASE x.from = w
    BY <1>2, <2>1, <2>2, EffectOfNothing DEF AfterWalletDelete
  <2>3. CASE x.from # w /\ x.to = w
    <3>1. AfterWalletDelete(x, w) = [x EXCEPT !.to = None] /\ [x EXCEPT !.to = None] \in Row
      BY <1>2, <2>3 DEF AfterWalletDelete, Row
    <3>2. v \notin Touched([x EXCEPT !.to = None])
      BY <1>2, <3>1, ConstantsAssumption DEF Touched, Row
    <3>3. QED
      BY <2>1, <3>1, <3>2, NoEffectOutside
  <2>4. CASE x.from # w /\ x.to # w
    BY <1>2, <2>4 DEF AfterWalletDelete
  <2>5. QED
    BY <2>2, <2>3, <2>4
<1>3. CASE x \in Row /\ x.type # "TRANSFER"
  <2>1. CASE x.from = w
    BY <1>3, <2>1, EffectOfNothing DEF AfterWalletDelete, Effect
  <2>2. CASE x.from # w /\ x.to = w
    <3>1. AfterWalletDelete(x, w) = [x EXCEPT !.to = None]
      BY <1>3, <2>2 DEF AfterWalletDelete
    <3>2. PICK y : y = [x EXCEPT !.to = None]
      OBVIOUS
    <3>3. y.type = x.type /\ y.from = x.from /\ y.amount = x.amount
      BY <1>3, <3>2 DEF Row
    <3>4. Effect(y, v) = Effect(x, v)
      BY <1>3, <3>3 DEF Effect
    <3>5. QED
      BY <3>1, <3>2, <3>4
  <2>3. CASE x.from # w /\ x.to # w
    BY <1>3, <2>3 DEF AfterWalletDelete
  <2>4. QED
    BY <2>1, <2>2, <2>3
<1>4. QED
  BY <1>1, <1>2, <1>3

-----------------------------------------------------------------------------
(* The sum *)

Effects(w) == [t \in Requests |-> Effect(rows[t], w)]

LEMMA EffectsAreNumbers ==
  TypeOK => \A w \in Wallets : Effects(w) \in [Requests -> Int]
  BY EffectIsNumber DEF TypeOK, Effects

LEMMA ExpectedIsTotal ==
  \A w \in Wallets : Expected(w) = Opening[w] + Total(Effects(w), Requests)
<1> SUFFICES ASSUME NEW w \in Wallets
             PROVE  Expected(w) = Opening[w] + Total(Effects(w), Requests)
  OBVIOUS
<1> DEFINE Body(g) == g = [s \in SUBSET Requests |->
                        IF s = {} THEN 0
                        ELSE Effect(rows[CHOOSE x \in s : TRUE], w)
                             + g[s \ {CHOOSE x \in s : TRUE}]]
<1>1. Expected(w) = Opening[w] + (CHOOSE g : Body(g))[Requests]
  BY DEF Expected, MapThenSumSet, MapThenFoldSet
<1>2. ASSUME NEW g PROVE Body(g) <=> SumOver(Effects(w), Requests, g)
  <2>1. ASSUME NEW s \in SUBSET Requests, s # {}
        PROVE  Effects(w)[Pick(s)] = Effect(rows[CHOOSE x \in s : TRUE], w)
    <3>1. Pick(s) \in Requests
      BY <2>1, PickIsMember
    <3>2. QED
      BY <3>1 DEF Effects, Pick
  <2>2. [s \in SUBSET Requests |-> IF s = {} THEN 0
           ELSE Effect(rows[CHOOSE x \in s : TRUE], w) + g[s \ {CHOOSE x \in s : TRUE}]]
        = [s \in SUBSET Requests |-> IF s = {} THEN 0
             ELSE Effects(w)[Pick(s)] + g[s \ {Pick(s)}]]
    BY <2>1 DEF Pick
  <2>3. QED
    BY <2>2 DEF SumOver
<1> HIDE DEF Body
<1>3. PICK g : SumOver(Effects(w), Requests, g)
  BY SumsExist, ConstantsAssumption
<1>4. Body(CHOOSE k : Body(k))
  BY <1>2, <1>3
<1>5. SumOver(Effects(w), Requests, CHOOSE k : Body(k))
  BY <1>2, <1>4
<1>6. Total(Effects(w), Requests) = (CHOOSE k : Body(k))[Requests]
  BY <1>5, SumsGiveTotal, ConstantsAssumption
<1>7. QED
  BY <1>1, <1>6

LEMMA SameNext ==
  /\ TypeOK' => (\A w \in Wallets : Effects(w) \in [Requests -> Int])'
  /\ (\A w \in Wallets : Expected(w) = Opening[w] + Total(Effects(w), Requests))'
  BY EffectsAreNumbers, ExpectedIsTotal, PTL

(* One row changes: what the ledger explains changes by the difference.    *)
LEMMA ExpectedFollows ==
  ASSUME TypeOK, TypeOK', NEW t \in Requests, NEW w \in Wallets,
         \A x \in Requests : x # t => rows'[x] = rows[x]
  PROVE  /\ Expected(w) \in Int
         /\ Expected(w)' = Expected(w) + Effect(rows'[t], w) - Effect(rows[t], w)
<1>1. Effects(w) \in [Requests -> Int] /\ Effects(w)' \in [Requests -> Int]
  BY EffectsAreNumbers, SameNext
<1>2. \A x \in Requests : x # t => Effects(w)'[x] = Effects(w)[x]
  BY DEF Effects
<1>3. Effects(w)'[t] = Effect(rows'[t], w) /\ Effects(w)[t] = Effect(rows[t], w)
  BY DEF Effects
<1>4. PICK F, G : F = Effects(w) /\ G = Effects(w)'
  OBVIOUS
<1>5. /\ Total(F, Requests) \in Int
      /\ Total(G, Requests) = Total(F, Requests) + G[t] - F[t]
  BY <1>1, <1>2, <1>4, TotalFollows, ConstantsAssumption
<1>6. Expected(w)' = Opening[w] + Total(G, Requests)
  BY <1>4, SameNext
<1>7. Expected(w) = Opening[w] + Total(F, Requests)
  BY <1>4, ExpectedIsTotal
<1>8. Opening[w] \in Int /\ G[t] \in Int /\ F[t] \in Int
  BY <1>1, <1>4, ConstantsAssumption
<1>9. QED
  BY <1>3, <1>4, <1>5, <1>6, <1>7, <1>8

(* No effect on the wallet changes: nor does what the ledger explains.     *)
LEMMA ExpectedStays ==
  ASSUME NEW w \in Wallets, \A x \in Requests : Effect(rows'[x], w) = Effect(rows[x], w)
  PROVE  Expected(w)' = Expected(w)
<1>1. Effects(w)' = Effects(w)
  BY DEF Effects
<1>2. QED
  BY <1>1, ExpectedIsTotal, SameNext

-----------------------------------------------------------------------------
(* The requests *)

LEMMA InitInv == Init => Inv
  BY ConstantsAssumption DEF Init, Inv, TypeOK, RequestInv, Step

(* What a check lets a request begin with. *)
LEMMA BeginInv ==
  ASSUME Inv, NEW r \in Requests, NEW step \in {"create", "update", "delete", "deleteWallet"},
         NEW t \in Requests \cup Wallets, NEW old \in Row \cup {NoRow},
         NEW new \in Row \cup {NoRow, Deleted}, NEW cols \in SUBSET Columns,
         Begin(r, step, t, old, new, cols),
         step = "create" => new \in Row,
         step \in {"update", "delete"} => t \in Requests /\ old \in Row,
         step = "update" => new \in Row /\ Merge(old, new, cols) = new,
         step = "deleteWallet" => t \in Wallets
  PROVE  Inv'
<1>1. TypeOK'
  BY DEF Inv, TypeOK, Begin, Step
<1>2. ASSUME NEW q \in Requests, q # r
      PROVE  /\ pc'[q] = pc[q] /\ target'[q] = target[q] /\ snap'[q] = snap[q]
             /\ want'[q] = want[q] /\ fields'[q] = fields[q] /\ rows'[q] = rows[q]
  BY <1>2 DEF Inv, TypeOK, Begin
<1>3. /\ pc[r] = "idle" /\ pc'[r] = step /\ target'[r] = t /\ snap'[r] = old
      /\ want'[r] = new /\ fields'[r] = cols /\ rows'[r] = rows[r]
  BY DEF Inv, TypeOK, Begin
<1>4. RequestInv'
  BY <1>2, <1>3 DEF Inv, RequestInv
<1>5. QED
  BY <1>1, <1>4 DEF Inv

(* A commit moves its request to its end and leaves unused rows unused.    *)
LEMMA CommitInv ==
  ASSUME Inv, TypeOK', NEW r \in Requests, NEW step \in Step \ {"idle", "done"},
         Finish(r, step),
         \A q \in Requests : q # r /\ rows[q] = NoRow => rows'[q] = NoRow
  PROVE  Inv'
<1>1. ASSUME NEW q \in Requests, q # r
      PROVE  /\ pc'[q] = pc[q] /\ target'[q] = target[q] /\ snap'[q] = snap[q]
             /\ want'[q] = want[q] /\ fields'[q] = fields[q]
  BY <1>1 DEF Inv, TypeOK, Finish, requestVars
<1>2. pc'[r] = "done"
  BY DEF Inv, TypeOK, Finish
<1>3. RequestInv'
  BY <1>1, <1>2 DEF Inv, RequestInv
<1>4. QED
  BY <1>3 DEF Inv

LEMMA RebalanceIsNumber ==
  ASSUME TypeOK, NEW x \in Row \cup {NoRow, Deleted}, NEW y \in Row \cup {NoRow, Deleted},
         Rebalance(x, y)
  PROVE  balance' \in [Wallets -> Int]
<1>1. \A w \in Wallets : Effect(x, w) \in Int /\ Effect(y, w) \in Int
  BY EffectIsNumber
<1>2. QED
  BY <1>1 DEF Rebalance, TypeOK

LEMMA TouchedAreWallets == \A x : Touched(x) \subseteq Wallets
  BY DEF Touched, Row

LEMMA BeginsPreserve ==
  ASSUME Inv, NEW r \in Requests,
         BeginCreate(r) \/ BeginUpdate(r) \/ BeginDelete(r) \/ BeginDeleteWallet(r)
  PROVE  Inv'
<1>1. CASE BeginCreate(r)
  <2>1. PICK row \in Row : Begin(r, "create", r, NoRow, row, {})
    BY <1>1 DEF BeginCreate
  <2>2. QED
    BY <2>1, BeginInv
<1>2. CASE BeginUpdate(r)
  <2>1. PICK t \in Requests, cols \in SUBSET Columns, new \in Row :
          /\ Present(t)
          /\ Updatable(rows[t], new, cols)
          /\ Begin(r, "update", t, rows[t], new, cols)
    BY <1>2 DEF BeginUpdate
  <2>2. rows[t] \in Row
    BY <2>1 DEF Present
  <2>3. Merge(rows[t], new, cols) = new
    <3>1. PICK old \in Row : old = rows[t]
      BY <2>2
    <3>2. /\ "type" \notin cols => new.type = old.type
          /\ "amount" \notin cols => new.amount = old.amount
          /\ "from" \notin cols => new.from = old.from
      BY <2>1, <3>1 DEF Updatable
    <3>3. Merge(old, new, cols) = [type |-> new.type, amount |-> new.amount,
                                   from |-> new.from, to |-> new.to]
      BY <3>2 DEF Merge
    <3>4. QED
      BY <3>1, <3>3 DEF Row
  <2>4. QED
    BY <2>1, <2>2, <2>3, BeginInv
<1>3. CASE BeginDelete(r)
  <2>1. PICK t \in Requests : Present(t) /\ Begin(r, "delete", t, rows[t], Deleted, {})
    BY <1>3 DEF BeginDelete
  <2>2. rows[t] \in Row
    BY <2>1 DEF Present
  <2>3. QED
    BY <2>1, <2>2, BeginInv
<1>4. CASE BeginDeleteWallet(r)
  <2>1. PICK w \in exists : Begin(r, "deleteWallet", w, NoRow, NoRow, {})
    BY <1>4 DEF BeginDeleteWallet
  <2>2. w \in Wallets
    BY DEF Inv, TypeOK
  <2>3. QED
    BY <2>1, <2>2, BeginInv
<1>5. QED
  BY <1>1, <1>2, <1>3, <1>4

(* What the commits write: a new row, a merged row, a deleted row.         *)
LEMMA CreateWrites ==
  ASSUME Inv, NEW r \in Requests, CommitCreate(r), ~Refused
  PROVE  /\ want[r] \in Row /\ rows[r] = NoRow
         /\ rows' = [rows EXCEPT ![r] = want[r]] /\ Rebalance(NoRow, want[r])
         /\ UNCHANGED <<exists, raced>>
<1>1. want[r] \in Row /\ rows[r] = NoRow
  BY DEF CommitCreate, Finish, Inv, RequestInv
<1>2. QED
  BY <1>1 DEF CommitCreate

LEMMA UpdateWrites ==
  ASSUME Inv, NEW r \in Requests, CommitUpdate(r), ~Refused
  PROVE  /\ target[r] \in Requests /\ snap[r] \in Row /\ want[r] \in Row
         /\ Merge(snap[r], want[r], fields[r]) = want[r]
         /\ rows[target[r]] \in Row
         /\ rows' = [rows EXCEPT ![target[r]] = Merge(rows[target[r]], want[r], fields[r])]
         /\ Rebalance(snap[r], want[r]) /\ NoteRace(r) /\ UNCHANGED exists
<1>1. /\ target[r] \in Requests /\ snap[r] \in Row /\ want[r] \in Row
      /\ Merge(snap[r], want[r], fields[r]) = want[r]
  BY DEF CommitUpdate, Finish, Inv, RequestInv
<1>2. QED
  BY <1>1 DEF CommitUpdate, Committable, Present, Inv, TypeOK

LEMMA DeleteWrites ==
  ASSUME Inv, NEW r \in Requests, CommitDelete(r), ~Refused
  PROVE  /\ target[r] \in Requests /\ snap[r] \in Row /\ rows[target[r]] \in Row
         /\ rows' = [rows EXCEPT ![target[r]] = Deleted]
         /\ Rebalance(snap[r], NoRow) /\ NoteRace(r) /\ UNCHANGED exists
<1>1. target[r] \in Requests /\ snap[r] \in Row
  BY DEF CommitDelete, Finish, Inv, RequestInv
<1>2. QED
  BY <1>1 DEF CommitDelete, Committable, Present

LEMMA WalletDeleteWrites ==
  ASSUME Inv, NEW r \in Requests, CommitDeleteWallet(r), ~Refused
  PROVE  /\ target[r] \in Wallets
         /\ exists' = exists \ {target[r]} /\ balance' = balance
         /\ rows' = [t \in Requests |-> AfterWalletDelete(rows[t], target[r])]
         /\ raced' = raced \cup UNION {Touched(rows[t]) :
                       t \in {x \in Requests : /\ Present(x) /\ rows[x].type = "TRANSFER"
                                               /\ target[r] \in Touched(rows[x])}}
<1>1. target[r] \in Wallets
  BY DEF CommitDeleteWallet, Finish, Inv, RequestInv
<1>2. QED
  BY <1>1 DEF CommitDeleteWallet

LEMMA RefusedPreserves ==
  ASSUME Inv, NEW r \in Requests, NEW step \in Step \ {"idle", "done"},
         Finish(r, step), Refused
  PROVE  Inv'
<1>1. TypeOK'
  BY DEF Inv, TypeOK, Refused, Finish, requestVars, Step
<1>2. QED
  BY <1>1, CommitInv DEF Refused

LEMMA CommitsPreserve ==
  ASSUME Inv, NEW r \in Requests,
         CommitCreate(r) \/ CommitUpdate(r) \/ CommitDelete(r) \/ CommitDeleteWallet(r)
  PROVE  Inv'
<1>1. PICK step \in Step \ {"idle", "done"} : Finish(r, step)
  BY DEF CommitCreate, CommitUpdate, CommitDelete, CommitDeleteWallet, Step
<1>2. CASE Refused
  BY <1>1, <1>2, RefusedPreserves
<1>3. pc' \in [Requests -> Step] /\ UNCHANGED requestVars
  BY <1>1 DEF Finish, Inv, TypeOK, Step
<1>4. CASE CommitCreate(r) /\ ~Refused
  <2>1. want[r] \in Row /\ rows' = [rows EXCEPT ![r] = want[r]]
        /\ Rebalance(NoRow, want[r]) /\ UNCHANGED <<exists, raced>>
    BY <1>4, CreateWrites
  <2>2. balance' \in [Wallets -> Int]
    BY <2>1, RebalanceIsNumber DEF Inv
  <2>3. TypeOK'
    BY <1>3, <2>1, <2>2 DEF Inv, TypeOK, requestVars
  <2>4. QED
    BY <1>1, <2>1, <2>3, CommitInv DEF Inv, TypeOK
<1>5. CASE CommitUpdate(r) /\ ~Refused
  <2> DEFINE new == Merge(rows[target[r]], want[r], fields[r])
  <2>1. /\ target[r] \in Requests /\ snap[r] \in Row /\ want[r] \in Row
        /\ rows[target[r]] \in Row
        /\ rows' = [rows EXCEPT ![target[r]] = new]
        /\ Rebalance(snap[r], want[r]) /\ NoteRace(r) /\ UNCHANGED exists
    BY <1>5, UpdateWrites
  <2>2. balance' \in [Wallets -> Int]
    BY <2>1, RebalanceIsNumber DEF Inv
  <2>3. new \in Row
    BY <2>1, MergeIsRow
  <2>4. raced' \subseteq Wallets
    BY <2>1, TouchedAreWallets DEF NoteRace, Inv, TypeOK
  <2> HIDE DEF new
  <2>5. TypeOK'
    BY <1>3, <2>1, <2>2, <2>3, <2>4 DEF Inv, TypeOK, requestVars
  <2>6. \A q \in Requests : rows[q] = NoRow => rows'[q] = NoRow
    BY <2>1, TypeTags DEF Inv, TypeOK
  <2>7. QED
    BY <1>1, <2>5, <2>6, CommitInv
<1>6. CASE CommitDelete(r) /\ ~Refused
  <2>1. /\ target[r] \in Requests /\ snap[r] \in Row /\ rows[target[r]] \in Row
        /\ rows' = [rows EXCEPT ![target[r]] = Deleted]
        /\ Rebalance(snap[r], NoRow) /\ NoteRace(r) /\ UNCHANGED exists
    BY <1>6, DeleteWrites
  <2>2. balance' \in [Wallets -> Int]
    BY <2>1, RebalanceIsNumber DEF Inv
  <2>3. raced' \subseteq Wallets
    BY <2>1, TouchedAreWallets DEF NoteRace, Inv, TypeOK
  <2>4. TypeOK'
    BY <1>3, <2>1, <2>2, <2>3 DEF Inv, TypeOK, requestVars
  <2>5. \A q \in Requests : rows[q] = NoRow => rows'[q] = NoRow
    BY <2>1, TypeTags DEF Inv, TypeOK
  <2>6. QED
    BY <1>1, <2>4, <2>5, CommitInv
<1>7. CASE CommitDeleteWallet(r) /\ ~Refused
  <2>1. /\ exists' = exists \ {target[r]} /\ balance' = balance
        /\ rows' = [t \in Requests |-> AfterWalletDelete(rows[t], target[r])]
        /\ raced' = raced \cup UNION {Touched(rows[t]) :
                      t \in {x \in Requests : /\ Present(x) /\ rows[x].type = "TRANSFER"
                                              /\ target[r] \in Touched(rows[x])}}
    BY <1>7, WalletDeleteWrites
  <2>2. rows' \in [Requests -> Row \cup {NoRow, Deleted}]
    BY <2>1, WalletDeleteIsRow DEF Inv, TypeOK
  <2>3. raced' \subseteq Wallets
    BY <2>1, TouchedAreWallets DEF Inv, TypeOK
  <2>4. TypeOK'
    BY <1>3, <2>1, <2>2, <2>3 DEF Inv, TypeOK, requestVars
  <2>5. \A q \in Requests : rows[q] = NoRow => rows'[q] = NoRow
    BY <2>1, WalletDeleteIsRow DEF Inv, TypeOK
  <2>6. QED
    BY <1>1, <2>4, <2>5, CommitInv
<1>8. QED
  BY <1>2, <1>4, <1>5, <1>6, <1>7

LEMMA StepInv == Inv /\ [Next]_vars => Inv'
<1> SUFFICES ASSUME Inv, [Next]_vars PROVE Inv'
  OBVIOUS
<1>1. CASE Next
  BY <1>1, BeginsPreserve, CommitsPreserve DEF Next
<1>2. CASE UNCHANGED vars
  BY <1>2 DEF vars, Inv, TypeOK, RequestInv
<1>3. QED
  BY <1>1, <1>2

(* The ledger's variables keep their types, for any wallets, amounts and   *)
(* requests (transaction.service.ts, wallet.service.ts).                   *)
THEOREM TypeCorrect == Spec => []TypeOK
<1>1. Spec => []Inv
  BY InitInv, StepInv, PTL DEF Spec
<1>2. QED
  BY <1>1, PTL DEF Inv

-----------------------------------------------------------------------------
(* Balances *)

(* A step that writes the row of t, and moves the balances by as much as   *)
(* the row's effect moves, keeps what was reconciled reconciled.           *)
LEMMA OneRowReconciles ==
  ASSUME TypeOK, TypeOK', DriftNeedsARace, NEW t \in Requests,
         \A x \in Requests : x # t => rows'[x] = rows[x],
         exists' = exists, raced \subseteq raced',
         \A w \in exists \ raced' :
           balance'[w] = balance[w] - Effect(rows[t], w) + Effect(rows'[t], w)
  PROVE  DriftNeedsARace'
<1>1. ASSUME NEW w \in exists' \ raced' PROVE balance'[w] = Expected(w)'
  <2>1. w \in Wallets /\ w \in exists \ raced
    BY <1>1 DEF TypeOK
  <2>2. balance[w] = Expected(w)
    BY <2>1 DEF DriftNeedsARace
  <2>3. Effect(rows[t], w) \in Int /\ Effect(rows'[t], w) \in Int
    BY EffectIsNumber DEF TypeOK
  <2>4. /\ Expected(w) \in Int
        /\ Expected(w)' = Expected(w) + Effect(rows'[t], w) - Effect(rows[t], w)
    BY <2>1, ExpectedFollows
  <2>5. balance'[w] = balance[w] - Effect(rows[t], w) + Effect(rows'[t], w)
    BY <1>1
  <2>6. QED
    BY <2>2, <2>3, <2>4, <2>5
<1>2. QED
  BY <1>1 DEF DriftNeedsARace

(* A commit that found the row changed races on every wallet it moves.     *)
LEMMA NotRaced ==
  ASSUME TypeOK, NEW r \in Requests, NoteRace(r), NEW w \in Wallets, w \notin raced',
         rows[target[r]] # snap[r]
  PROVE  /\ w \notin Touched(rows[target[r]]) /\ w \notin Touched(snap[r])
         /\ w \notin Touched(want[r])
  BY DEF NoteRace

LEMMA RacedGrows == ASSUME NEW r, NoteRace(r) PROVE raced \subseteq raced'
  BY DEF NoteRace

LEMMA UpdateReconciles ==
  ASSUME Inv, Inv', DriftNeedsARace, NEW r \in Requests, CommitUpdate(r), ~Refused
  PROVE  DriftNeedsARace'
<1> DEFINE t == target[r]
           new == Merge(rows[t], want[r], fields[r])
<1>1. /\ t \in Requests /\ snap[r] \in Row /\ want[r] \in Row /\ rows[t] \in Row
      /\ Merge(snap[r], want[r], fields[r]) = want[r]
      /\ rows' = [rows EXCEPT ![t] = new]
      /\ Rebalance(snap[r], want[r]) /\ NoteRace(r) /\ UNCHANGED exists
  BY UpdateWrites
<1>2. new \in Row
  BY <1>1, MergeIsRow
<1>3. rows'[t] = new /\ \A x \in Requests : x # t => rows'[x] = rows[x]
  BY <1>1 DEF Inv, TypeOK
<1>4. ASSUME NEW w \in exists \ raced'
      PROVE  balance'[w] = balance[w] - Effect(rows[t], w) + Effect(new, w)
  <2>1. w \in Wallets
    BY DEF Inv, TypeOK
  <2>2. balance'[w] = balance[w] - Effect(snap[r], w) + Effect(want[r], w)
    BY <1>1, <2>1 DEF Rebalance
  <2>3. CASE rows[t] = snap[r]
    BY <1>1, <2>2, <2>3
  <2>4. CASE rows[t] # snap[r]
    <3>1. w \notin Touched(rows[t]) /\ w \notin Touched(snap[r]) /\ w \notin Touched(want[r])
      BY <1>1, <1>4, <2>1, <2>4, NotRaced DEF Inv
    <3>2. w \notin Touched(new)
      BY <1>1, <3>1, MergeTouches
    <3>3. /\ Effect(rows[t], w) = 0 /\ Effect(snap[r], w) = 0
          /\ Effect(want[r], w) = 0 /\ Effect(new, w) = 0
      BY <1>1, <1>2, <2>1, <3>1, <3>2, NoEffectOutside
    <3>4. QED
      BY <2>2, <3>3
  <2>5. QED
    BY <2>3, <2>4
<1> HIDE DEF t, new
<1>5. raced \subseteq raced'
  BY <1>1, RacedGrows
<1>6. QED
  BY <1>1, <1>3, <1>4, <1>5, OneRowReconciles DEF Inv

LEMMA DeleteReconciles ==
  ASSUME Inv, Inv', DriftNeedsARace, NEW r \in Requests, CommitDelete(r), ~Refused
  PROVE  DriftNeedsARace'
<1> DEFINE t == target[r]
<1>1. /\ t \in Requests /\ snap[r] \in Row /\ rows[t] \in Row
      /\ rows' = [rows EXCEPT ![t] = Deleted]
      /\ Rebalance(snap[r], NoRow) /\ NoteRace(r) /\ UNCHANGED exists
  BY DeleteWrites
<1>2. rows'[t] = Deleted /\ \A x \in Requests : x # t => rows'[x] = rows[x]
  BY <1>1 DEF Inv, TypeOK
<1>3. ASSUME NEW w \in exists \ raced'
      PROVE  balance'[w] = balance[w] - Effect(rows[t], w) + Effect(Deleted, w)
  <2>1. w \in Wallets
    BY DEF Inv, TypeOK
  <2>2. balance'[w] = balance[w] - Effect(snap[r], w) + Effect(NoRow, w)
    BY <1>1, <2>1 DEF Rebalance
  <2>3. Effect(rows[t], w) = Effect(snap[r], w)
    <3>1. CASE rows[t] # snap[r]
      <4>1. w \notin Touched(rows[t]) /\ w \notin Touched(snap[r])
        BY <1>1, <1>3, <2>1, <3>1, NotRaced DEF Inv
      <4>2. QED
        BY <1>1, <2>1, <4>1, NoEffectOutside
    <3>2. QED
      BY <3>1
  <2>4. QED
    BY <2>2, <2>3, EffectOfNothing
<1> HIDE DEF t
<1>4. raced \subseteq raced'
  BY <1>1, RacedGrows
<1>5. QED
  BY <1>1, <1>2, <1>3, <1>4, OneRowReconciles DEF Inv

LEMMA CreateReconciles ==
  ASSUME Inv, Inv', DriftNeedsARace, NEW r \in Requests, CommitCreate(r), ~Refused
  PROVE  DriftNeedsARace'
<1>1. /\ want[r] \in Row /\ rows[r] = NoRow
      /\ rows' = [rows EXCEPT ![r] = want[r]] /\ Rebalance(NoRow, want[r])
      /\ UNCHANGED <<exists, raced>>
  BY CreateWrites
<1>2. rows'[r] = want[r] /\ \A x \in Requests : x # r => rows'[x] = rows[x]
  BY <1>1 DEF Inv, TypeOK
<1>3. \A w \in exists \ raced' :
        balance'[w] = balance[w] - Effect(rows[r], w) + Effect(rows'[r], w)
  BY <1>1, <1>2 DEF Rebalance, Inv, TypeOK
<1>4. QED
  BY <1>1, <1>2, <1>3, OneRowReconciles DEF Inv

LEMMA WalletDeleteReconciles ==
  ASSUME Inv, DriftNeedsARace, NEW r \in Requests, CommitDeleteWallet(r), ~Refused
  PROVE  DriftNeedsARace'
<1> DEFINE w == target[r]
<1>1. /\ w \in Wallets /\ exists' = exists \ {w} /\ balance' = balance
      /\ rows' = [t \in Requests |-> AfterWalletDelete(rows[t], w)]
      /\ raced' = raced \cup UNION {Touched(rows[t]) :
                    t \in {x \in Requests : /\ Present(x) /\ rows[x].type = "TRANSFER"
                                            /\ w \in Touched(rows[x])}}
  BY WalletDeleteWrites
<1> HIDE DEF w
<1>2. ASSUME NEW v \in exists' \ raced' PROVE balance'[v] = Expected(v)'
  <2>1. v \in Wallets /\ v \in exists \ raced /\ v # w
    BY <1>1, <1>2 DEF Inv, TypeOK
  <2>2. ASSUME NEW x \in Requests PROVE Effect(rows'[x], v) = Effect(rows[x], v)
    <3>1. rows[x] \in Row /\ rows[x].type = "TRANSFER" /\ w \in Touched(rows[x])
            => v \notin Touched(rows[x])
      BY <1>1, <1>2 DEF Present
    <3>2. rows'[x] = AfterWalletDelete(rows[x], w)
      BY <1>1
    <3>3. rows[x] \in Row \cup {NoRow, Deleted}
      BY DEF Inv, TypeOK
    <3>4. QED
      BY <1>1, <2>1, <3>1, <3>2, <3>3, WalletDeleteKeepsEffects
  <2>3. Expected(v)' = Expected(v)
    BY <2>1, <2>2, ExpectedStays
  <2>4. QED
    BY <1>1, <2>1, <2>3 DEF DriftNeedsARace
<1>3. QED
  BY <1>2 DEF DriftNeedsARace

(* A step that leaves the ledger alone. *)
LEMMA QuietReconciles ==
  ASSUME TypeOK, DriftNeedsARace, UNCHANGED <<exists, balance, rows, raced>>
  PROVE  DriftNeedsARace'
<1>1. ASSUME NEW w \in exists' \ raced' PROVE balance'[w] = Expected(w)'
  <2>1. w \in Wallets /\ w \in exists \ raced
    BY <1>1 DEF TypeOK
  <2>2. Expected(w)' = Expected(w)
    BY <2>1, ExpectedStays
  <2>3. QED
    BY <2>1, <2>2 DEF DriftNeedsARace
<1>2. QED
  BY <1>1 DEF DriftNeedsARace

LEMMA InitReconciles == Init => DriftNeedsARace
<1> SUFFICES ASSUME Init, NEW w \in exists \ raced PROVE balance[w] = Expected(w)
  BY DEF DriftNeedsARace
<1>1. w \in Wallets
  BY DEF Init
<1>2. \A x \in Requests : Effects(w)[x] = 0
  BY EffectOfNothing DEF Effects, Init
<1>3. Total(Effects(w), Requests) = 0
  BY <1>2, TotalOfNothing, ConstantsAssumption
<1>4. Expected(w) = Opening[w]
  BY <1>1, <1>3, ExpectedIsTotal, ConstantsAssumption
<1>5. QED
  BY <1>4 DEF Init

(* Balances follow the ledger: a stored balance departs from the sum of    *)
(* its transactions' effects only on wallets a stale update, a stale       *)
(* delete or a transfer racing a wallet delete touched, whatever the       *)
(* number of requests in flight (transactionBalance.ts:4).                 *)
THEOREM DriftIsRaced == Spec => []DriftNeedsARace
<1>1. Inv /\ Inv' /\ DriftNeedsARace /\ [Next]_vars => DriftNeedsARace'
  <2> SUFFICES ASSUME Inv, Inv', DriftNeedsARace, [Next]_vars PROVE DriftNeedsARace'
    OBVIOUS
  <2>1. CASE UNCHANGED <<exists, balance, rows, raced>>
    BY <2>1, QuietReconciles DEF Inv
  <2>2. CASE Next /\ ~UNCHANGED <<exists, balance, rows, raced>>
    <3>1. ~Refused
      BY <2>2 DEF Refused
    <3>2. PICK r \in Requests :
            CommitCreate(r) \/ CommitUpdate(r) \/ CommitDelete(r) \/ CommitDeleteWallet(r)
      BY <2>2 DEF Next, BeginCreate, BeginUpdate, BeginDelete, BeginDeleteWallet, Begin
    <3>3. QED
      BY <3>1, <3>2, CreateReconciles, UpdateReconciles, DeleteReconciles,
         WalletDeleteReconciles
  <2>3. QED
    BY <2>1, <2>2 DEF vars
<1>2. Inv /\ [Next]_vars => Inv'
  BY StepInv
<1>3. QED
  BY <1>1, <1>2, InitInv, InitReconciles, PTL DEF Spec

(* A deleted transaction never comes back, and an update or delete that    *)
(* was in flight when it went moves no money (transaction.service.ts:447). *)
THEOREM DeletedForEver == Spec => DeletedStaysDeleted
<1>1. Spec => []Inv
  BY InitInv, StepInv, PTL DEF Spec
<1> DEFINE Stays(t) ==
      rows[t] = Deleted =>
        /\ rows'[t] = Deleted
        /\ \A r \in Requests : target[r] = t /\ pc[r] \in {"update", "delete"} =>
             (pc'[r] # pc[r] => balance' = balance)
<1>2. ASSUME Inv, [Next]_vars, NEW t \in Requests PROVE Stays(t)
  <2>1. CASE UNCHANGED <<exists, balance, rows, raced>>
    BY <2>1
  <2>2. CASE Next /\ ~UNCHANGED <<exists, balance, rows, raced>>
    <3>1. ~Refused
      BY <2>2 DEF Refused
    <3>2. PICK r \in Requests :
            CommitCreate(r) \/ CommitUpdate(r) \/ CommitDelete(r) \/ CommitDeleteWallet(r)
      BY <2>2 DEF Next, BeginCreate, BeginUpdate, BeginDelete, BeginDeleteWallet, Begin
    <3>3. PICK step \in Step : Finish(r, step)
      BY <3>2 DEF CommitCreate, CommitUpdate, CommitDelete, CommitDeleteWallet, Step
    <3>4. \A q \in Requests : q # r => pc'[q] = pc[q]
      BY <3>3 DEF Finish, Inv, TypeOK
    <3>5. rows[t] = Deleted => rows'[t] = Deleted
      <4>1. CASE CommitCreate(r)
        BY <1>2, <3>1, <4>1, CreateWrites, TypeTags DEF Inv, TypeOK
      <4>2. CASE CommitUpdate(r)
        BY <1>2, <3>1, <4>2, UpdateWrites, TypeTags DEF Inv, TypeOK
      <4>3. CASE CommitDelete(r)
        BY <1>2, <3>1, <4>3, DeleteWrites, TypeTags DEF Inv, TypeOK
      <4>4. CASE CommitDeleteWallet(r)
        BY <1>2, <3>1, <4>4, WalletDeleteWrites, TypeTags DEF AfterWalletDelete
      <4>5. QED
        BY <3>2, <4>1, <4>2, <4>3, <4>4
    <3>6. target[r] = t /\ pc[r] \in {"update", "delete"} => rows[t] \in Row
      <4>1. CASE pc[r] = "update"
        BY <1>2, <3>1, <3>2, <4>1, UpdateWrites
           DEF CommitCreate, CommitDelete, CommitDeleteWallet, Finish
      <4>2. CASE pc[r] = "delete"
        BY <1>2, <3>1, <3>2, <4>2, DeleteWrites
           DEF CommitCreate, CommitUpdate, CommitDeleteWallet, Finish
      <4>3. QED
        BY <4>1, <4>2
    <3>7. QED
      BY <3>4, <3>5, <3>6, TypeTags
  <2>3. QED
    BY <1>2, <2>1, <2>2 DEF vars
<1>3. Inv /\ [Next]_vars => [\A t \in Requests : Stays(t)]_vars
  BY <1>2
<1>4. Inv /\ [Next]_vars => Inv'
  BY StepInv
<1>5. QED
  BY <1>1, <1>3, PTL DEF Spec, DeletedStaysDeleted

=============================================================================
