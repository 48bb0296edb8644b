----------------------------- MODULE Assistant -----------------------------
(***************************************************************************)
(* The Assistant: its requests, its clarifications, and the pure parts     *)
(* they call (entity resolution, categorization, the model's context and   *)
(* plan).  These meet only through the conversation or through what they   *)
(* return, so a behaviour is one scene.                                    *)
(***************************************************************************)
EXTENDS AssistantTurn, Clarification, Categorization, AssistantPlan

VARIABLE scene   \* which of them a behaviour is about

turnOnly == <<req, pc, outcome, answer, names, keyRec, drafts, asked, audit,
              failures, crashes, moves>>
clarOnly == <<question, expired, byId, sreq, spc, sanswer, cont, sdrafts, sfaults>>
pureVars == <<resolveVars, suggestVars, planVars, history>>

TurnIdle ==
  /\ req = [r \in Requests |-> NoRequest] /\ pc = [r \in Requests |-> "unsent"]
  /\ outcome = [r \in Requests |-> "none"] /\ answer = [r \in Requests |-> "none"]
  /\ names = [r \in Requests |-> None] /\ keyRec = [k \in Keys |-> NoRecord]
  /\ drafts = {} /\ asked = {} /\ audit = [r \in Requests |-> "none"]
  /\ failures = 0 /\ crashes = 0 /\ moves = 0
ClarIdle ==
  /\ question = [p \in Procs |-> NoQuestion] /\ expired = {} /\ byId = FALSE
  /\ sreq = [s \in Selects |-> [kind |-> "none", target |-> None, valid |-> FALSE]]
  /\ spc = [s \in Selects |-> "unsent"] /\ sanswer = [s \in Selects |-> "none"]
  /\ cont = [s \in Selects |-> "none"] /\ sdrafts = {} /\ sfaults = 0
PureInit == ResolveInit /\ SuggestInit /\ PlanInit /\ ContextInit

Init == /\ PureInit
        /\ \/ scene = "requests" /\ TurnInit /\ ClarIdle
           \/ scene = "questions" /\ ClarInit /\ TurnIdle
           \/ scene \in {"names", "categories", "context", "plan"} /\ TurnInit /\ ClarIdle

AskStep == scene = "requests" /\ TurnNext /\ UNCHANGED <<clarOnly, pureVars>>
SelectStep == scene = "questions" /\ ClarNext /\ UNCHANGED <<turnOnly, pureVars>>
PureStep ==
  /\ UNCHANGED <<turnOnly, clarOnly, storeVars>>
  /\ \/ scene = "names" /\ ResolveNext /\ UNCHANGED <<suggestVars, planVars, history>>
     \/ scene = "categories" /\ SuggestNext /\ UNCHANGED <<resolveVars, planVars, history>>
     \/ scene = "plan" /\ Propose /\ UNCHANGED <<resolveVars, suggestVars, history>>
     \/ scene = "context" /\ Converse /\ UNCHANGED <<resolveVars, suggestVars, planVars>>

Next == UNCHANGED scene /\ (AskStep \/ SelectStep \/ PureStep)
vars == <<turnVars, clarVars, pureVars, scene>>
Spec == Init /\ [][Next]_vars

(* The rows of a conversation, its requests and its selections keep the    *)
(* types their tables and states have, whichever of them writes them.      *)
AssistantTypeOK == TurnTypeOK /\ ClarTypeOK
=============================================================================
