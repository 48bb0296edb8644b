---------------------------- MODULE AssistantPlan ----------------------------
(***************************************************************************)
(* What becomes of the language model's answer: the amount and type it     *)
(* left out are recovered from the user's message when that names exactly  *)
(* one, then the answer is validated against the tool it proposes and      *)
(* becomes an intent, a question, a refusal or an invalid response.        *)
(* A message is its numbers (the sum a number stands for, or "" when it is *)
(* no supported amount) and the words that betray a type.                  *)
(***************************************************************************)
EXTENDS AssistantContext

CONSTANTS
  PlanMessages,   \* [numbers : a sequence of [sum, negative], signals : a set of types]
  Proposals,      \* the model's answers
  Sums            \* decimals that are positive money amounts

VARIABLES heard, proposal, tools   \* the message, the answer, the registered tools

planVars == <<heard, proposal, tools>>

Null == [is |-> "null", of |-> ""]
Blank == [is |-> "blank", of |-> ""]
Text(of) == [is |-> "text", of |-> of]
NotText(of) == [is |-> "number", of |-> of]     \* a JSON number
Shorthand(of) == [is |-> "shorthand", of |-> of]  \* a text with one amount, like 350rb

(* What the model may answer: a type is one of the two, or a bad text. *)
ASSUME PlanAssumption ==
  \A p \in Proposals :
    /\ DOMAIN p = {"malformed", "kind", "intent", "arguments", "question"}
    /\ p.malformed \in BOOLEAN /\ p.kind \in {"intent", "clarification", "unsupported"}
    /\ "type" \in DOMAIN p.arguments /\ p.arguments["type"].is = "text"
         => p.arguments["type"].of \in {"INCOME", "EXPENSE", "bad"}

Get(arguments, key) == IF key \in DOMAIN arguments THEN arguments[key] ELSE Null

---------------------------------------------------------------------------
(* Tools *)

Create == "transaction.create"
Summary == "analytics.monthly-spending-summary"

Required(intent) == IF intent = Create THEN <<"amount", "type", "walletReference">> ELSE <<"month">>
Optional(intent) == IF intent = Create THEN {"categoryReference", "date", "description"} ELSE {}
Offered(intent) == {Required(intent)[i] : i \in DOMAIN Required(intent)} \cup Optional(intent)

Contracts == [risk : {"LOW", "MEDIUM", "HIGH", "VERY_HIGH"},
              confirmation : {"NONE", "EXPLICIT", "STEP_UP", "DISABLED"},
              enabled : BOOLEAN]

(* ToolRegistry.validateInvariants: no confirmation weaker than the risk.  *)
Registrable(contract) ==
  /\ contract.risk \in {"MEDIUM", "HIGH"} => contract.confirmation # "NONE"
  /\ contract.risk = "VERY_HIGH" => contract.confirmation = "DISABLED"

(* evaluatePolicy.                                                         *)
Policy(contract) ==
  IF ~contract.enabled \/ contract.risk = "VERY_HIGH" THEN "UNAVAILABLE"
  ELSE CASE contract.confirmation = "NONE" -> "EXECUTE_IMMEDIATELY"
         [] contract.confirmation = "EXPLICIT" -> "DRAFT_AND_CONFIRM"
         [] contract.confirmation = "STEP_UP" -> "STEP_UP_REQUIRED"
         [] contract.confirmation = "DISABLED" -> "UNAVAILABLE"

(* executeTool calls a handler for no other policy.                        *)
Executable(contract) == Policy(contract) = "EXECUTE_IMMEDIATELY"

(* The tools' validateInput, of arguments the plan lets through.           *)
ValidInput(intent, arguments) ==
  LET good(key) == arguments[key].is = "text" /\ arguments[key].of # "bad"
  IN /\ \A key \in DOMAIN arguments : good(key)
     /\ intent = Create => arguments["type"].of \in {"INCOME", "EXPENSE"}
                           /\ arguments["amount"].of \in Sums

---------------------------------------------------------------------------
(* Recovering what the model left out *)

(* A number with a minus before it, or one that is no amount, makes the    *)
(* message ambiguous as much as a second amount does.                      *)
SingleAmount(message) ==
  IF Len(message.numbers) = 1 /\ ~message.numbers[1].negative THEN message.numbers[1].sum ELSE ""

SingleType(message) ==
  IF Cardinality(message.signals) = 1 THEN CHOOSE t \in message.signals : TRUE ELSE ""

(* The word of the message for a field the model may have left out.        *)
WordFor(message, key) ==
  CASE key = "amount" -> SingleAmount(message)
    [] key = "type" -> SingleType(message)
    [] OTHER -> ""

Filled(answer, message, found) ==
  [answer EXCEPT !.arguments =
     [key \in DOMAIN @ \cup found |-> IF key \in found THEN Text(WordFor(message, key)) ELSE @[key]]]

(* Mutant: what the message names replaces what the model answered.        *)
RecoveredOverAnswer(answer, message) ==
  IF answer.kind # "intent" \/ answer.intent # Create THEN answer
  ELSE Filled(answer, message, {key \in {"amount", "type"} : WordFor(message, key) # ""})

(* recoverMissingTransactionFields: only for a field that is null.         *)
Recovered(answer, message) ==
  IF answer.kind # "intent" \/ answer.intent # Create THEN answer
  ELSE Filled(answer, message, {key \in {"amount", "type"} :
                 Get(answer.arguments, key) = Null /\ WordFor(message, key) # ""})

---------------------------------------------------------------------------
(* Validating the answer *)

Invalid == [kind |-> "invalid"]
Ask(question) == [kind |-> "clarification", question |-> question]

(* normalizeTransactionCreateArguments: nulls nobody needs are dropped and *)
(* an amount becomes a decimal text.                                       *)
Normalized(arguments) ==
  [key \in {k \in DOMAIN arguments : arguments[k] # Null
                                     \/ k \notin Optional(Create) \cup {"categoryId"}} |->
     IF key = "amount" /\ arguments[key].is \in {"number", "shorthand"}
       THEN Text(arguments[key].of) ELSE arguments[key]]

(* missingRequiredArgumentQuestion: the first one that is missing.         *)
MissingKeys(intent, arguments) ==
  {i \in DOMAIN Required(intent) : Get(arguments, Required(intent)[i]) \in {Null, Blank}}

ValidIntent(answer, contract) ==
  LET create == answer.intent = Create
      amount == Get(answer.arguments, "amount")
      arguments == IF create THEN Normalized(answer.arguments) ELSE answer.arguments
      missing == MissingKeys(answer.intent, arguments)
  IN IF create /\ amount = Null THEN Ask("amount")
     ELSE IF \/ create /\ amount.is = "number" /\ amount.of \notin Sums
             \/ ~(DOMAIN arguments \subseteq Offered(answer.intent)) THEN Invalid
     ELSE IF missing # {} THEN Ask(Required(answer.intent)[Min(missing)])
     ELSE IF \/ ~ValidInput(answer.intent, arguments)
             \/ Policy(contract) \notin {"EXECUTE_IMMEDIATELY", "DRAFT_AND_CONFIRM"} THEN Invalid
     ELSE [kind |-> "intent", intent |-> answer.intent, arguments |-> arguments,
           action |-> Policy(contract)]

(* validateAssistantPlan.  An answer is malformed when it is too large or  *)
(* too deep, holds an array or a forbidden key, or lacks a top-level key.  *)
(* A question that asks for a secret or hides markup is replaced.          *)
Plan(answer) ==
  CASE answer.malformed -> Invalid
    [] ~answer.malformed /\ answer.kind = "intent" ->
         IF answer.question # "null" \/ answer.intent \notin DOMAIN tools
            \/ ~tools[answer.intent].enabled THEN Invalid
         ELSE ValidIntent(answer, tools[answer.intent])
    [] ~answer.malformed /\ answer.kind = "clarification" ->
         IF answer.intent # "null" \/ answer.arguments # <<>>
            \/ answer.question \notin {"plain", "secret"} THEN Invalid
         ELSE Ask(IF answer.question = "secret" THEN "safe" ELSE answer.question)
    [] ~answer.malformed /\ answer.kind = "unsupported" ->
         IF answer.intent # "null" \/ answer.arguments # <<>> \/ answer.question # "null"
           THEN Invalid ELSE [kind |-> "unsupported"]

---------------------------------------------------------------------------
NoProposal == [malformed |-> TRUE, kind |-> "none", intent |-> "null",
               arguments |-> <<>>, question |-> "null"]

PlanInit == heard = [numbers |-> <<>>, signals |-> {}] /\ proposal = NoProposal /\ tools = <<>>

(* A message, the tools the server registered and the model's answer.      *)
Propose ==
  /\ proposal = NoProposal
  /\ heard' \in PlanMessages
  /\ proposal' \in Proposals
  /\ \E c \in {d \in Contracts : Registrable(d)} :
       tools' = [t \in {Create, Summary} |->
                   IF t = Create THEN c
                   ELSE [risk |-> "LOW", confirmation |-> "NONE", enabled |-> TRUE]]

PlanSpec == PlanInit /\ [][Propose]_planVars

---------------------------------------------------------------------------
(* No transaction is planned with an amount or a type that neither the     *)
(* model nor the message gave, whatever was recovered from where, and the  *)
(* model never chooses an identifier.                                      *)
NothingIsInvented ==
  LET plan == Plan(Recovered(proposal, heard))
      from(key, word) == plan.arguments[key].of =
        (IF Get(proposal.arguments, key) = Null THEN word ELSE proposal.arguments[key].of)
  IN plan.kind = "intent" =>
       /\ DOMAIN plan.arguments \cap {"walletId", "categoryId", "merchantReference"} = {}
       /\ plan.intent = Create =>
            from("amount", SingleAmount(heard)) /\ from("type", SingleType(heard))

(* The user is asked only what the model left out and the message does not *)
(* settle.                                                                 *)
QuestionsAreNeeded ==
  LET plan == Plan(Recovered(proposal, heard))
      unsettled(key, word) == \/ Get(proposal.arguments, key) = Blank
                              \/ Get(proposal.arguments, key) = Null /\ word = ""
  IN proposal.kind = "intent" /\ plan.kind = "clarification" =>
       CASE plan.question = "amount" -> unsettled("amount", SingleAmount(heard))
         [] plan.question = "type" -> unsettled("type", SingleType(heard))
                                      /\ ~unsettled("amount", SingleAmount(heard))
         [] OTHER -> unsettled(plan.question, "")

(* Only a tool of low risk runs on the model's word alone; any other plan  *)
(* leads to a draft the user confirms, and what the registered tools and   *)
(* their policy can serve is never refused.                                *)
RiskIsConfirmed ==
  LET plan == Plan(Recovered(proposal, heard))
      sound(key) == Get(proposal.arguments, key).is = "text"
                    /\ Get(proposal.arguments, key).of # "bad"
      servable ==
        /\ proposal.kind = "intent" /\ ~proposal.malformed /\ proposal.question = "null"
        /\ proposal.intent = Create /\ DOMAIN proposal.arguments \subseteq Offered(Create)
        /\ \A key \in DOMAIN proposal.arguments \cup {"amount", "type", "walletReference"} : sound(key)
        /\ proposal.arguments["amount"].of \in Sums
        /\ tools[Create].enabled /\ tools[Create].confirmation \in {"NONE", "EXPLICIT"}
  IN /\ servable => plan.kind = "intent"
     /\ plan.kind = "intent" =>
          IF Executable(tools[plan.intent]) THEN tools[plan.intent].risk = "LOW"
          ELSE plan.intent = Create /\ plan.action = "DRAFT_AND_CONFIRM"

(* The model is shown a bounded, recent context, and what it answers is    *)
(* planned only as far as the user's words and the tools' risk allow.      *)
PlansStayInBounds ==
  /\ history # <<>> => ContextIsBounded
  /\ proposal # NoProposal => NothingIsInvented /\ QuestionsAreNeeded /\ RiskIsConfirmed
=============================================================================
