-------------------------- MODULE TransactionCreate --------------------------
(***************************************************************************)
(* How the Assistant turns a validated transaction.create input into a     *)
(* draft, a question or a refusal: the decisions of the application        *)
(* service, as functions of what resolving the input's references gives.   *)
(*                                                                         *)
(* A reference that names nothing the user owns, one that matches several  *)
(* entities, one that cannot be parsed, and a resolution that throws are   *)
(* different results; they are data here, and entity resolution itself is  *)
(* modelled elsewhere.                                                     *)
(***************************************************************************)

Entities == {"wallet", "merchant", "category"}

(* wallet: "id" when the input carries a wallet id, else what its          *)
(* reference resolves to.  named: the merchant was named by the user; if   *)
(* not, the description stands in for the reference.  category: what the   *)
(* category reference resolves to.  categoryId: an id was given.           *)
(* inferred: a suggestion or the catch-all category exists.                *)
TransactionInputs ==
  {i \in [wallet : {"id", "ambiguous", "not_found", "invalid", "resolved", "throws"},
           merchant : {"none", "ambiguous", "resolved", "not_found", "unsafe", "throws"},
           named : BOOLEAN,
           category : {"none", "ambiguous", "resolved", "invalid", "not_found", "throws"},
           categoryId : BOOLEAN,
           inferred : BOOLEAN] : i.named => i.merchant # "none"}

(* What the trusted context of a question remembers of the input: whether  *)
(* the wallet is known, and the references still to be resolved.           *)
BuildCanonicalContext(i, walletKnown) ==
  [wallet |-> walletKnown, named |-> i.named, category |-> i.category # "none",
   categoryId |-> i.categoryId]

(* inferCategoryId is asked only when neither a reference nor an id gave   *)
(* the category.                                                           *)
HasCategory(i) == i.category = "resolved" \/ i.categoryId \/ i.inferred

WalletStops(i) == i.wallet \notin {"id", "resolved"}
MerchantStops(i) == \/ i.merchant = "ambiguous" /\ i.named
                    \/ i.merchant \in {"unsafe", "throws"}
CategoryStops(i) == i.category \in {"ambiguous", "invalid", "throws"}

FinalizeTransactionDraft(hasCategory, hasWallet) ==
  IF ~hasCategory THEN "noCategory" ELSE IF ~hasWallet THEN "noWallet" ELSE "drafted"

(* executeTransactionCreate: the first reference that stops decides. *)
Stopping == [ambiguous |-> "asked", not_found |-> "notFound", invalid |-> "invalid",
             unsafe |-> "unsafe", throws |-> "throws"]
CreateOutcome(i) ==
  CASE WalletStops(i) -> Stopping[i.wallet]
    [] ~WalletStops(i) /\ MerchantStops(i) -> Stopping[i.merchant]
    [] ~WalletStops(i) /\ ~MerchantStops(i) /\ CategoryStops(i) -> Stopping[i.category]
    [] OTHER -> FinalizeTransactionDraft(HasCategory(i), TRUE)

(* The question an input leads to: its entity and the context it carries.  *)
(* A wallet given by id is not a resolved wallet, so the context of a      *)
(* later question does not hold it.                                        *)
AskedEntity(i) ==
  IF WalletStops(i) THEN "wallet" ELSE IF MerchantStops(i) THEN "merchant" ELSE "category"

AskedQuestion(i) ==
  [entity |-> AskedEntity(i),
   context |-> BuildCanonicalContext(i, i.wallet = "resolved")]

-----------------------------------------------------------------------------
(* Continuing after an answer.  resolution: what the references that are   *)
(* left resolve to now, read again in the claim's transaction.             *)

Resolutions == [merchant : {"ambiguous", "other"},
                category : {"ambiguous", "resolved", "other"},
                inferred : BOOLEAN]

Child(entity, ctx, walletKnown) ==
  [kind |-> "child", entity |-> entity, context |-> [ctx EXCEPT !.wallet = walletKnown]]
Leaf(kind) == [kind |-> kind]

(* buildTransactionInput turns a context without a wallet into an input    *)
(* with an empty wallet reference, which no later step resolves.           *)
DraftFrom(ctx, walletKnown, hasCategory) ==
  Leaf(FinalizeTransactionDraft(hasCategory, walletKnown))

ContinueToCategory(ctx, walletKnown, res) ==
  IF ctx.category /\ res.category = "ambiguous"
  THEN Child("category", ctx, walletKnown)
  ELSE DraftFrom(ctx, walletKnown,
                 \/ ctx.category /\ res.category = "resolved"
                 \/ ctx.categoryId
                 \/ res.inferred)

(* Mutant: the context of the next question is the old one. *)
AfterWalletForgets(ctx, res) ==
  IF ctx.named /\ res.merchant = "ambiguous"
  THEN Child("merchant", ctx, ctx.wallet)
  ELSE ContinueToCategory(ctx, ctx.wallet, res)

AfterWallet(ctx, res) ==
  IF ctx.named /\ res.merchant = "ambiguous"
  THEN Child("merchant", ctx, TRUE)
  ELSE ContinueToCategory(ctx, TRUE, res)

Continuation(entity, ctx, res) ==
  CASE entity = "wallet"   -> AfterWallet(ctx, res)
    [] entity = "merchant" -> ContinueToCategory(ctx, ctx.wallet, res)
    [] entity = "category" -> DraftFrom(ctx, ctx.wallet, TRUE)
=============================================================================
