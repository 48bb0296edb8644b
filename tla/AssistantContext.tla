-------------------------- MODULE AssistantContext --------------------------
(***************************************************************************)
(* What the language model is shown of a conversation: its newest messages *)
(* grouped by turn, the newest tool executions, and nothing that makes the *)
(* whole larger than the byte limit.  The history is the sequence of what  *)
(* happened; turns overlap, so a turn may be answered after a later one    *)
(* began.  No two events share a millisecond.                              *)
(***************************************************************************)
EXTENDS Integers, Sequences, FiniteSets, FiniteSetsExt

CONSTANTS
  Sizes,         \* how many bytes an event adds to the serialized context
  BaseBytes,     \* the conversation, the pending draft and the current request
  MaxMessages, MaxTurns, MaxTools, MaxBytes,   \* AssistantContextLimits
  MaxEvents      \* bound: events in a history

VARIABLE history

(* validateAssistantContextLimits, up to its upper ends.                   *)
ASSUME ContextAssumption ==
  /\ {MaxMessages, MaxTurns, MaxBytes} \subseteq Nat \ {0}
  /\ MaxTools \in Nat /\ Sizes \subseteq Nat \ {0} /\ BaseBytes \in Nat

Events == DOMAIN history
Messages == {i \in Events : history[i].is # "TOOL"}
Replies == {i \in Events : history[i].is = "ASSISTANT"}
NewestOf(S, n) == {i \in S : Cardinality({j \in S : j > i}) < n}
TurnOf(i) == history[i].turn
TurnsOf(S) == {TurnOf(i) : i \in S}
CreatedAt(t) == Min({i \in Messages : TurnOf(i) = t})   \* with its USER message

---------------------------------------------------------------------------
(* Reading and selecting *)

(* The latest reply, which is read even when it is not among the newest.   *)
LatestReply == NewestOf(Replies, 1)

(* The rows of the query: the newest messages and the latest reply.        *)
Read == NewestOf(Messages, MaxMessages) \cup LatestReply

(* The reply's turn is allowed first, then the turns with newest messages. *)
AllowedTurns ==
  LET lastWord(t) == Max({i \in Read : TurnOf(i) = t})
      others == TurnsOf(Read) \ TurnsOf(LatestReply)
  IN TurnsOf(LatestReply) \cup
     {t \in others : Cardinality({u \in others : lastWord(u) > lastWord(t)})
                       < MaxTurns - Cardinality(TurnsOf(LatestReply))}

Selected ==
  {i \in LatestReply \cup NewestOf(Read \ LatestReply, MaxMessages - Cardinality(LatestReply)) :
     TurnOf(i) \in AllowedTurns}

Tools == NewestOf(Events \ Messages, MaxTools)

---------------------------------------------------------------------------
(* Dropping the oldest until it fits *)

(* What may be kept: tool executions, and turns, each by the index of the  *)
(* message that began it.  The turn of the latest reply is not dropped.    *)
Begun(turns) == {CreatedAt(t) : t \in turns}
Items(chosen, tools) == Begun(TurnsOf(chosen)) \cup tools
Protected == Begun(TurnsOf(LatestReply))
Spare(kept) == kept \ Protected

Bytes(chosen, kept) ==
  BaseBytes + MapThenSumSet(LAMBDA i : history[i].size,
                            {i \in chosen : CreatedAt(TurnOf(i)) \in kept}
                              \cup (kept \ Messages))

TooLarge == [kept |-> {}, ok |-> FALSE]

(* One pass of the loop drops a turn or a tool execution, the oldest.      *)
Fitted(chosen, tools) ==
  LET fit[kept \in SUBSET Items(chosen, tools)] ==
        IF Bytes(chosen, kept) <= MaxBytes THEN [kept |-> kept, ok |-> TRUE]
        ELSE IF Spare(kept) = {} THEN TooLarge
        ELSE fit[kept \ {Min(Spare(kept))}]
  IN fit[Items(chosen, tools)]

---------------------------------------------------------------------------
(* The conversation *)

ContextInit == history = <<>>

Log(event) == Len(history) < MaxEvents /\ history' = Append(history, event)

(* A turn begins with the user's message and is answered at most once; a   *)
(* tool runs in a turn that is not answered yet.                           *)
Converse ==
  \E size \in Sizes :
    \/ Log([is |-> "USER", turn |-> Cardinality(TurnsOf(Messages)) + 1, size |-> size])
    \/ \E t \in TurnsOf(Messages) \ TurnsOf(Replies), role \in {"ASSISTANT", "TOOL"} :
         Log([is |-> role, turn |-> t, size |-> size])

ContextSpec == ContextInit /\ [][Converse]_history

---------------------------------------------------------------------------
(* The context is within every limit and never loses the last thing the    *)
(* assistant said; it is given up only when that and the request alone are *)
(* too much.  What is left out is the oldest of what was selected: nothing *)
(* older than something dropped stays, except the protected turn, and the  *)
(* newest thing dropped would not have fitted.                             *)
ContextIsBounded ==
  LET chosen == Selected
      context == Fitted(chosen, Tools)
      kept == context.kept
      dropped == Items(chosen, Tools) \ kept
  IN IF ~context.ok THEN Bytes(chosen, Protected) > MaxBytes
     ELSE /\ Bytes(chosen, kept) <= MaxBytes
          /\ Cardinality(chosen) <= MaxMessages
          /\ Cardinality(kept \cap Messages) <= MaxTurns
          /\ Cardinality(kept \ Messages) <= MaxTools
          /\ Protected \subseteq kept /\ LatestReply \subseteq chosen
          /\ dropped # {} =>
               /\ \A i \in Spare(kept) : i > Max(dropped)
               /\ Bytes(chosen, kept \cup {Max(dropped)}) > MaxBytes
=============================================================================
