--------------------------- MODULE AssistantStore ---------------------------
(***************************************************************************)
(* The rows the Assistant keeps of a conversation: conversations, turns,   *)
(* tool executions and assistant messages, and the database transactions   *)
(* that write them.  Every operator here is one transaction; the modules   *)
(* that extend this one say who performs it and when.                      *)
(*                                                                         *)
(* A process (an HTTP request, or the Telegram worker acting for a user)   *)
(* begins at most one turn, so a turn is named by its process, and a       *)
(* conversation that a process creates is named by that process too.       *)
(***************************************************************************)
EXTENDS Naturals

CONSTANTS
  Requests,   \* execute and message requests, each a process
  Selects,    \* clarification selections and cancellations, each a process
  Convs,      \* conversations that exist before any of them arrives
  None        \* no conversation, no key, no turn

Procs == Requests \cup Selects
Conversations == Convs \cup Procs

ASSUME StoreAssumption == /\ Requests \cap Selects = {}
                          /\ Convs \cap Procs = {}
                          /\ None \notin Conversations

VARIABLES
  conv,      \* status of each conversation; "none" before it exists, "gone" after deletion
  turn,      \* status of the turn of each process; "none" and "gone" likewise
  at,        \* the conversation of each turn
  exec,      \* status of the turn's tool execution
  said,      \* number of ASSISTANT messages of the turn
  reconciled \* history: turns an operator has reconciled

storeVars == <<conv, turn, at, exec, said, reconciled>>

ConversationStatus == {"none", "ACTIVE", "ARCHIVED", "gone"}
TurnStatus == {"none", "PENDING", "RUNNING", "SUCCEEDED", "FAILED", "REJECTED",
               "CLARIFICATION_REQUIRED", "gone"}
Terminal == {"SUCCEEDED", "FAILED", "REJECTED", "CLARIFICATION_REQUIRED"}
ExecStatus == {"none", "RUNNING", "SUCCEEDED", "FAILED", "TIMED_OUT"}

StoreTypeOK ==
  /\ conv \in [Conversations -> ConversationStatus]
  /\ turn \in [Procs -> TurnStatus]
  /\ at \in [Procs -> Conversations \cup {None}]
  /\ exec \in [Procs -> ExecStatus]
  /\ said \in [Procs -> 0..1]
  /\ reconciled \in SUBSET Procs

StoreInit ==
  /\ conv = [c \in Conversations |-> IF c \in Convs THEN "ACTIVE" ELSE "none"]
  /\ turn = [p \in Procs |-> "none"]
  /\ at = [p \in Procs |-> None]
  /\ exec = [p \in Procs |-> "none"]
  /\ said = [p \in Procs |-> 0]
  /\ reconciled = {}

-----------------------------------------------------------------------------
(* Reads *)

AssertContinuable(c) == conv[c] = "ACTIVE"

(* A turn row can still be written: it exists and was not deleted. *)
Writable(p) == turn[p] \notin {"none", "gone"}

-----------------------------------------------------------------------------
(* Transactions of a turn *)

CreateConversation(p) == conv' = [conv EXCEPT ![p] = "ACTIVE"]

(* beginTurn checks the conversation in the transaction that inserts the   *)
(* turn and its USER message; without a conversation it creates one.       *)
BeginTurn(p, c) ==
  /\ \/ c # None /\ AssertContinuable(c) /\ UNCHANGED conv
     \/ c = None /\ CreateConversation(p)
  /\ turn' = [turn EXCEPT ![p] = "PENDING"]
  /\ at' = [at EXCEPT ![p] = IF c = None THEN p ELSE c]
  /\ UNCHANGED <<exec, said, reconciled>>

MarkTurnRunning(p) ==
  /\ Writable(p)
  /\ turn' = [turn EXCEPT ![p] = "RUNNING"]
  /\ UNCHANGED <<conv, at, exec, said, reconciled>>

BeginToolExecution(p) ==
  /\ Writable(p)
  /\ exec' = [exec EXCEPT ![p] = "RUNNING"]
  /\ UNCHANGED <<conv, turn, at, said, reconciled>>

(* Mutant: the tool's message is written besides the answer's. *)
FinalizeRowsSayTwice(p, execStatus, turnStatus, speaks) ==
  /\ Writable(p)
  /\ exec' = [exec EXCEPT ![p] = execStatus]
  /\ turn' = [turn EXCEPT ![p] = turnStatus]
  /\ said' = [said EXCEPT ![p] = IF speaks THEN @ + 2 ELSE @]
  /\ UNCHANGED <<conv, at, reconciled>>

(* finalize: the execution, the message unless its content is empty, and   *)
(* the turn, whatever status the turn has by then.                         *)
FinalizeRows(p, execStatus, turnStatus, speaks) ==
  /\ Writable(p)
  /\ exec' = [exec EXCEPT ![p] = execStatus]
  /\ turn' = [turn EXCEPT ![p] = turnStatus]
  /\ said' = [said EXCEPT ![p] = IF speaks THEN @ + 1 ELSE @]
  /\ UNCHANGED <<conv, at, reconciled>>

FinalizeRejected(p) ==
  /\ Writable(p)
  /\ turn' = [turn EXCEPT ![p] = "REJECTED"]
  /\ said' = [said EXCEPT ![p] = @ + 1]
  /\ UNCHANGED <<conv, at, exec, reconciled>>

FinalizeWithoutTool(p, turnStatus) ==
  /\ Writable(p)
  /\ turn' = [turn EXCEPT ![p] = turnStatus]
  /\ said' = [said EXCEPT ![p] = @ + 1]
  /\ UNCHANGED <<conv, at, exec, reconciled>>

-----------------------------------------------------------------------------
(* What the user and the operator do to a conversation meanwhile.  Archive *)
(* and restore answer an error for an EXPIRED conversation, a status no    *)
(* code writes.                                                            *)

ArchiveOwnedConversation(c) ==
  /\ conv[c] = "ACTIVE"
  /\ conv' = [conv EXCEPT ![c] = "ARCHIVED"]
  /\ UNCHANGED <<turn, at, exec, said, reconciled>>

RestoreOwnedConversation(c) ==
  /\ conv[c] = "ARCHIVED"
  /\ conv' = [conv EXCEPT ![c] = "ACTIVE"]
  /\ UNCHANGED <<turn, at, exec, said, reconciled>>

(* Deletion cascades to the turns and everything that hangs off them. *)
DeleteOwnedConversation(c) ==
  /\ conv[c] \in {"ACTIVE", "ARCHIVED"}
  /\ conv' = [conv EXCEPT ![c] = "gone"]
  /\ turn' = [p \in Procs |-> IF at[p] = c THEN "gone" ELSE turn[p]]
  /\ exec' = [p \in Procs |-> IF at[p] = c THEN "none" ELSE exec[p]]
  /\ said' = [p \in Procs |-> IF at[p] = c THEN 0 ELSE said[p]]
  /\ UNCHANGED <<at, reconciled>>

CanReconcileStaleTurn(p) == turn[p] = "RUNNING"

(* The operator's guarded update; the five minutes it waits are not enough *)
(* to know that the process behind the turn has stopped.                   *)
ReconcileTurn(p) ==
  /\ CanReconcileStaleTurn(p)
  /\ turn' = [turn EXCEPT ![p] = "FAILED"]
  /\ reconciled' = reconciled \cup {p}
  /\ UNCHANGED <<conv, at, exec, said>>
=============================================================================
