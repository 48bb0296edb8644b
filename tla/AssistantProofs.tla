-------------------------- MODULE AssistantProofs --------------------------
(***************************************************************************)
(* Proofs about what the assistant says and plans: its clarifications, the *)
(* context its model is shown, and the plans made of the model's answers.  *)
(***************************************************************************)
EXTENDS Assistant, AssistantTurnProofs, SumTheorems, SequenceTheorems

-----------------------------------------------------------------------------
(***************************************************************************)
(* Clarifications: ClarSpec                                                *)
(***************************************************************************)

SelectionRequest ==
  [kind : {"none", "select", "cancel"}, target : Procs \cup {None}, valid : BOOLEAN]

(* What an answer says of the question's end. *)
AnswerHolds(a, q) ==
  /\ a \in {"CONSUMED", "CANCELLED", "STALE"} => question[q].status = a
  /\ a = "cancelled_ok" => question[q].status = "CANCELLED"

(* Where a selection stands: it asks about a question that was asked, and  *)
(* only a committed selection has asked, drafted or answered with either.  *)
SelectionInv(s) ==
  /\ spc[s] = "unsent" => sanswer[s] = "none"
  /\ spc[s] # "unsent" => Target_(s) \in Procs /\ question[Target_(s)].status # "none"
  /\ cont[s] # "none" => spc[s] = "done" /\ sanswer[s] = cont[s]
  /\ cont[s] = "none" => question[s].status = "none" /\ s \notin sdrafts
  /\ spc[s] \notin {"done", "dead"} => said[s] = 0
  /\ Exists(Target_(s)) => AnswerHolds(sanswer[s], Target_(s))

OpenQuestions == \A q \in Procs : question[q].status = "PENDING" => question[q].entity \in Entities

TypeInv == ClarTypeOK /\ sreq \in [Selects -> SelectionRequest] /\ OpenQuestions

ClarInv == TypeInv /\ \A s \in Selects : SelectionInv(s)

-----------------------------------------------------------------------------
(* What a selection can lead to *)

LEMMA ContextsAre ==
  /\ NoContext \in Contexts
  /\ \A x \in Contexts, b \in BOOLEAN :
       /\ x.wallet \in BOOLEAN
       /\ [x EXCEPT !.wallet = b] \in Contexts /\ [x EXCEPT !.wallet = b].wallet = b
  BY DEF NoContext, Contexts

LEMMA DraftKinds ==
  \A b, c : FinalizeTransactionDraft(b, c) \in {"noCategory", "noWallet", "drafted"}
  BY DEF FinalizeTransactionDraft

LEMMA CategoryNext ==
  ASSUME NEW ctx \in Contexts, NEW b \in BOOLEAN, NEW res,
         NEW next, next = ContinueToCategory(ctx, b, res)
  PROVE  /\ next.kind \in {"child", "noCategory", "noWallet", "drafted"}
         /\ next.kind = "child" =>
              /\ next.entity = "category" /\ next.context \in Contexts
              /\ next.context.wallet = b
<1>1. CASE ctx.category /\ res.category = "ambiguous"
  <2>1. PICK c : c = [ctx EXCEPT !.wallet = b]
    OBVIOUS
  <2>2. c \in Contexts /\ c.wallet = b
    BY <2>1, ContextsAre
  <2>3. next = [kind |-> "child", entity |-> "category", context |-> c]
    BY <1>1, <2>1 DEF ContinueToCategory, Child
  <2>4. QED
    BY <2>2, <2>3
<1>2. CASE ~(ctx.category /\ res.category = "ambiguous")
  <2>1. PICK k : /\ k \in {"noCategory", "noWallet", "drafted"}
                 /\ next = [kind |-> k]
    BY <1>2, DraftKinds DEF ContinueToCategory, DraftFrom, Leaf
  <2>2. QED
    BY <2>1
<1>3. QED
  BY <1>1, <1>2

LEMMA NextIs ==
  ASSUME NEW entity \in Entities, NEW ctx \in Contexts, NEW res,
         NEW next, next = Continuation(entity, ctx, res)
  PROVE  /\ next.kind \in {"child", "noCategory", "noWallet", "drafted"}
         /\ next.kind = "child" =>
              /\ next.entity \in Entities /\ next.context \in Contexts
              /\ ~next.context.wallet => ~ctx.wallet /\ entity # "wallet"
<1>1. CASE entity = "wallet"
  <2>1. next = AfterWallet(ctx, res)
    BY <1>1 DEF Continuation
  <2>2. CASE ctx.named /\ res.merchant = "ambiguous"
    <3>1. PICK c : c = [ctx EXCEPT !.wallet = TRUE]
      OBVIOUS
    <3>2. c \in Contexts /\ c.wallet = TRUE
      BY <3>1, ContextsAre
    <3>3. next = [kind |-> "child", entity |-> "merchant", context |-> c]
      BY <2>1, <2>2, <3>1 DEF AfterWallet, Child
    <3>4. QED
      BY <3>2, <3>3 DEF Entities
  <2>3. CASE ~(ctx.named /\ res.merchant = "ambiguous")
    <3>1. next = ContinueToCategory(ctx, TRUE, res)
      BY <2>1, <2>3 DEF AfterWallet
    <3>2. /\ next.kind \in {"child", "noCategory", "noWallet", "drafted"}
          /\ next.kind = "child" =>
               /\ next.entity = "category" /\ next.context \in Contexts
               /\ next.context.wallet = TRUE
      BY <3>1, CategoryNext
    <3>3. QED
      BY <3>2 DEF Entities
  <2>4. QED
    BY <2>2, <2>3
<1>2. CASE entity = "merchant"
  <2>1. next = ContinueToCategory(ctx, ctx.wallet, res)
    BY <1>2 DEF Continuation
  <2>2. ctx.wallet \in BOOLEAN
    BY ContextsAre
  <2>3. /\ next.kind \in {"child", "noCategory", "noWallet", "drafted"}
        /\ next.kind = "child" =>
             /\ next.entity = "category" /\ next.context \in Contexts
             /\ next.context.wallet = ctx.wallet
    BY <2>1, <2>2, CategoryNext
  <2>4. QED
    BY <1>2, <2>3 DEF Entities
<1>3. CASE entity = "category"
  <2>1. PICK k : k \in {"noCategory", "noWallet", "drafted"} /\ next = [kind |-> k]
    BY <1>3, DraftKinds DEF Continuation, DraftFrom, Leaf
  <2>2. QED
    BY <2>1
<1>4. QED
  BY <1>1, <1>2, <1>3 DEF Entities

-----------------------------------------------------------------------------
(* The store's transactions *)

LEMMA ProcsAre ==
  /\ Selects \subseteq Procs /\ Requests \subseteq Procs /\ Procs \subseteq Conversations
  /\ TheConversation \in Convs /\ TheConversation \in Conversations /\ TheConversation # None
  BY SelectAssumption, StoreAssumption DEF Procs, Conversations, TheConversation

LEMMA BeginKeepsStore ==
  ASSUME StoreTypeOK, NEW s \in Selects,
         \/ BeginTurn(s, TheConversation) \/ MarkTurnRunning(s) \/ BeginToolExecution(s)
  PROVE  StoreTypeOK' /\ said' = said
<1>1. CASE BeginTurn(s, TheConversation)
  BY <1>1, ProcsAre DEF StoreTypeOK, BeginTurn, TurnStatus
<1>2. CASE MarkTurnRunning(s)
  BY <1>2, ProcsAre DEF StoreTypeOK, MarkTurnRunning, TurnStatus
<1>3. CASE BeginToolExecution(s)
  BY <1>3, ProcsAre DEF StoreTypeOK, BeginToolExecution, ExecStatus
<1>4. QED
  BY <1>1, <1>2, <1>3

LEMMA FinalKeepsStore ==
  ASSUME StoreTypeOK, NEW s \in Selects, said[s] = 0, NEW e \in ExecStatus,
         NEW t \in TurnStatus, NEW b,
         FinalizeRows(s, e, t, b) \/ FinalizeWithoutTool(s, t)
  PROVE  StoreTypeOK' /\ \A p \in Procs : p # s => said'[p] = said[p]
<1>1. s \in Procs
  BY ProcsAre
<1>2. turn' = [turn EXCEPT ![s] = t] /\ UNCHANGED <<conv, at, reconciled>>
  BY DEF FinalizeRows, FinalizeWithoutTool
<1>3. exec' \in [Procs -> ExecStatus]
  BY <1>1 DEF FinalizeRows, FinalizeWithoutTool, StoreTypeOK
<1>4. /\ said' \in [Procs -> 0..1]
      /\ \A p \in Procs : p # s => said'[p] = said[p]
  <2>1. said' = [said EXCEPT ![s] = 0] \/ said' = [said EXCEPT ![s] = 1]
    BY <1>1 DEF FinalizeRows, FinalizeWithoutTool, StoreTypeOK
  <2>2. QED
    BY <2>1 DEF StoreTypeOK
<1>5. QED
  BY <1>1, <1>2, <1>3, <1>4 DEF StoreTypeOK

LEMMA DeleteKeepsStore ==
  ASSUME StoreTypeOK, NEW c \in Conversations, DeleteOwnedConversation(c)
  PROVE  StoreTypeOK' /\ \A p \in Procs : said'[p] \in {said[p], 0}
  BY DEF StoreTypeOK, DeleteOwnedConversation, ConversationStatus, TurnStatus, ExecStatus

-----------------------------------------------------------------------------
(* Steps *)

Ended == {"CONSUMED", "CANCELLED", "STALE"}

(* A question's status only moves forward; only a process of P asks anew.  *)
StatusMoves(P) ==
  \A p \in Procs :
    /\ question[p].status = "none" /\ p \notin P => question'[p].status = "none"
    /\ question[p].status # "none" => question'[p].status # "none"
    /\ question[p].status = "gone" => question'[p].status = "gone"
    /\ question[p].status \in Ended => question'[p].status \in {question[p].status, "gone"}

SameSelection(t) ==
  /\ spc'[t] = spc[t] /\ sanswer'[t] = sanswer[t] /\ cont'[t] = cont[t] /\ sreq'[t] = sreq[t]
  /\ said'[t] \in {said[t], 0}
  /\ t \in sdrafts' => t \in sdrafts

LEMMA InitClarInv == ClarInit => ClarInv
<1> SUFFICES ASSUME ClarInit PROVE ClarInv
  OBVIOUS
<1>1. PICK r \in Requests, i \in {j \in TransactionInputs : CreateOutcome(j) = "asked"} :
        /\ question = [p \in Procs |-> IF p = r THEN NewQuestion(AskedQuestion(i), None)
                                       ELSE NoQuestion]
        /\ byId = (i.wallet = "id")
  BY DEF ClarInit
<1>2. AskedQuestion(i).entity \in Entities /\ AskedQuestion(i).context \in Contexts
  <2>1. i.named \in BOOLEAN /\ i.categoryId \in BOOLEAN
    BY DEF TransactionInputs
  <2>2. AskedQuestion(i).context \in Contexts
    BY <2>1 DEF AskedQuestion, BuildCanonicalContext, Contexts
  <2>3. AskedQuestion(i).entity \in Entities
    BY DEF AskedQuestion, AskedEntity, Entities
  <2>4. QED
    BY <2>2, <2>3
<1>3. NewQuestion(AskedQuestion(i), None) \in Question
  BY <1>2 DEF NewQuestion, Question, QuestionStatus
<1>4. NoQuestion \in Question
  BY ContextsAre DEF NoQuestion, Question, QuestionStatus
<1>5. question \in [Procs -> Question]
  BY <1>1, <1>3, <1>4
<1>6. StoreTypeOK
  BY DEF ClarInit, StoreInit, StoreTypeOK, ConversationStatus, TurnStatus, ExecStatus
<1>7. ClarTypeOK
  BY <1>1, <1>5, <1>6, SelectAssumption DEF ClarInit, ClarTypeOK, SelectSteps, SelectAnswers
<1>8. OpenQuestions
  BY <1>1, <1>2 DEF OpenQuestions, NewQuestion, NoQuestion
<1>9. ASSUME NEW s \in Selects PROVE SelectionInv(s)
  <2>1. s \in Procs /\ s # r
    BY ProcsAre, StoreAssumption
  <2>2. question[s].status = "none"
    BY <1>1, <2>1 DEF NoQuestion
  <2>3. QED
    BY <2>1, <2>2 DEF ClarInit, SelectionInv, StoreInit, AnswerHolds
<1>10. sreq \in [Selects -> SelectionRequest]
  BY DEF ClarInit, SelectionRequest
<1>11. QED
  BY <1>7, <1>8, <1>9, <1>10 DEF ClarInv, TypeInv

LEMMA OthersKeep ==
  ASSUME TypeInv, TypeInv', NEW t \in Selects, SelectionInv(t), SameSelection(t),
         NEW P, StatusMoves(P), t \notin P
  PROVE  SelectionInv(t)'
<1>1. t \in Procs
  BY ProcsAre
<1>2. question[t].status = "none" => question'[t].status = "none"
  BY <1>1 DEF StatusMoves
<1>3. Target_(t)' = Target_(t)
  BY DEF SameSelection, Target_
<1>4. spc[t] # "unsent" =>
        /\ Target_(t) \in Procs /\ question'[Target_(t)].status # "none"
        /\ Exists(Target_(t))' => Exists(Target_(t))
        /\ Exists(Target_(t))' /\ question[Target_(t)].status \in Ended
             => question'[Target_(t)].status = question[Target_(t)].status
  <2> SUFFICES ASSUME spc[t] # "unsent"
               PROVE  /\ Target_(t) \in Procs /\ question'[Target_(t)].status # "none"
                      /\ Exists(Target_(t))' => Exists(Target_(t))
                      /\ Exists(Target_(t))' /\ question[Target_(t)].status \in Ended
                           => question'[Target_(t)].status = question[Target_(t)].status
    OBVIOUS
  <2>1. PICK q : q = Target_(t)
    OBVIOUS
  <2>2. q \in Procs /\ question[q].status # "none"
    BY <2>1 DEF SelectionInv
  <2>3. /\ question'[q].status # "none"
        /\ question[q].status = "gone" => question'[q].status = "gone"
        /\ question[q].status \in Ended => question'[q].status \in {question[q].status, "gone"}
    BY <2>2 DEF StatusMoves
  <2>4. Exists(Target_(t))' <=> question'[q].status \notin {"none", "gone"}
    BY <1>3, <2>1 DEF Exists
  <2>5. QED
    BY <2>1, <2>2, <2>3, <2>4 DEF Exists
<1>5. (Exists(Target_(t)) => AnswerHolds(sanswer[t], Target_(t)))'
  BY <1>3, <1>4 DEF SelectionInv, SameSelection, AnswerHolds, Ended
<1>6. QED
  BY <1>2, <1>3, <1>4, <1>5 DEF SelectionInv, SameSelection

LEMMA Combine ==
  ASSUME ClarInv, TypeInv', NEW s \in Selects, StatusMoves({s}), SelectionInv(s)',
         \A t \in Selects \ {s} : SameSelection(t)
  PROVE  ClarInv'
<1>1. ASSUME NEW t \in Selects \ {s} PROVE SelectionInv(t)'
  BY OthersKeep DEF ClarInv
<1>2. QED
  BY <1>1 DEF ClarInv

(* A step of a selection that leaves the questions alone. *)
LEMMA QuietStep ==
  ASSUME ClarInv, StoreTypeOK', NEW s \in Selects, spc[s] \notin {"unsent", "done", "dead"},
         NEW step \in SelectSteps \ {"unsent"}, SGoto(s, step),
         NEW a \in SelectAnswers, sanswer' = sanswer \/ Told(s, a),
         Exists(Target_(s)) => AnswerHolds(a, Target_(s)),
         \A p \in Procs : p # s => said'[p] = said[p],
         step \notin {"done", "dead"} => said'[s] = 0,
         UNCHANGED <<questionVars, sreq, cont, sdrafts>>, sfaults' \in 0..MaxSelectFaults
  PROVE  ClarInv'
<1>1. TypeInv'
  BY DEF ClarInv, TypeInv, ClarTypeOK, SGoto, Told, questionVars, OpenQuestions
<1>2. StatusMoves({s})
  BY DEF StatusMoves, questionVars
<1>3. ASSUME NEW t \in Selects \ {s} PROVE SameSelection(t)
  <2>1. spc'[t] = spc[t] /\ sanswer'[t] = sanswer[t]
    BY DEF ClarInv, TypeInv, ClarTypeOK, SGoto, Told
  <2>2. said'[t] = said[t]
    BY ProcsAre
  <2>3. QED
    BY <2>1, <2>2 DEF SameSelection
<1>4. spc'[s] = step /\ sanswer'[s] \in {sanswer[s], a}
  BY DEF ClarInv, TypeInv, ClarTypeOK, SGoto, Told
<1>5. Target_(s)' = Target_(s) /\ (Exists(Target_(s))' <=> Exists(Target_(s)))
  BY DEF Target_, Exists, questionVars
<1>6. (Exists(Target_(s)) => AnswerHolds(sanswer[s], Target_(s)))'
  BY <1>4, <1>5 DEF ClarInv, SelectionInv, AnswerHolds, questionVars
<1>7. SelectionInv(s)'
  BY <1>4, <1>5, <1>6 DEF ClarInv, SelectionInv, questionVars
<1>8. QED
  BY <1>1, <1>2, <1>3, <1>7, Combine

LEMMA SendKeeps ==
  ASSUME ClarInv, NEW s \in Selects, SendSelection(s)
  PROVE  ClarInv'
<1>1. PICK q \in Procs, k \in {"select", "cancel"}, v \in BOOLEAN :
        Exists(q) /\ sreq' = [sreq EXCEPT ![s] = [kind |-> k, target |-> q, valid |-> v]]
  BY DEF SendSelection
<1>2. spc[s] = "unsent" /\ spc' = [spc EXCEPT ![s] = "begin"]
      /\ UNCHANGED <<storeVars, questionVars, sanswer, cont, sdrafts, sfaults>>
  BY DEF SendSelection, SGoto
<1>3. TypeInv'
  <2>1. sreq' \in [Selects -> SelectionRequest]
    BY <1>1 DEF ClarInv, TypeInv, SelectionRequest
  <2>2. StoreTypeOK'
    BY <1>2 DEF ClarInv, TypeInv, ClarTypeOK, StoreTypeOK, storeVars
  <2>3. QED
    BY <1>2, <2>1, <2>2
       DEF ClarInv, TypeInv, ClarTypeOK, SelectSteps, questionVars, OpenQuestions
<1>4. StatusMoves({s})
  BY <1>2 DEF StatusMoves, questionVars
<1>5. ASSUME NEW t \in Selects \ {s} PROVE SameSelection(t)
  BY <1>1, <1>2 DEF ClarInv, TypeInv, ClarTypeOK, SameSelection, storeVars
<1>6. sreq'[s] = [kind |-> k, target |-> q, valid |-> v] /\ spc'[s] = "begin"
  BY <1>1, <1>2 DEF ClarInv, TypeInv, ClarTypeOK
<1>7. Target_(s)' = q
  BY <1>6 DEF Target_
<1>8. (question[q].status # "none")'
  BY <1>1, <1>2 DEF Exists, questionVars
<1>9. SelectionInv(s)'
  BY <1>2, <1>6, <1>7, <1>8
     DEF ClarInv, SelectionInv, AnswerHolds, questionVars, storeVars
<1>10. QED
  BY <1>3, <1>4, <1>5, <1>9, Combine

LEMMA BeginKeeps ==
  ASSUME ClarInv, NEW s \in Selects, BeginSelection(s)
  PROVE  ClarInv'
<1>1. UNCHANGED <<questionVars, sreq, cont, sdrafts, sfaults>>
      /\ sfaults \in 0..MaxSelectFaults /\ StoreTypeOK
  BY DEF BeginSelection, ClarInv, TypeInv, ClarTypeOK
<1>2. CASE BeginTurn(s, TheConversation) \/ MarkTurnRunning(s) \/ BeginToolExecution(s)
  <2>1. StoreTypeOK' /\ said' = said
    BY <1>1, <1>2, BeginKeepsStore
  <2>2. PICK step \in {"running", "tool", "read", "done"} :
          SGoto(s, step) /\ (sanswer' = sanswer \/ Told(s, "thrown"))
    BY DEF BeginSelection
  <2>3. spc[s] \in {"begin", "running", "tool"}
    BY DEF BeginSelection
  <2>4. said'[s] = 0
    BY <2>1, <2>3 DEF ClarInv, SelectionInv
  <2>5. QED
    BY <1>1, <2>1, <2>2, <2>3, <2>4, QuietStep DEF SelectSteps, SelectAnswers, AnswerHolds
<1>3. CASE UNCHANGED storeVars
  <2>1. StoreTypeOK' /\ said' = said
    BY <1>1, <1>3 DEF StoreTypeOK, storeVars
  <2>2. PICK step \in {"running", "tool", "read", "done"} :
          SGoto(s, step) /\ (sanswer' = sanswer \/ Told(s, "thrown"))
    BY DEF BeginSelection
  <2>3. spc[s] \in {"begin", "running", "tool"}
    BY DEF BeginSelection
  <2>4. said'[s] = 0
    BY <2>1, <2>3 DEF ClarInv, SelectionInv
  <2>5. QED
    BY <1>1, <2>1, <2>2, <2>3, <2>4, QuietStep DEF SelectSteps, SelectAnswers, AnswerHolds
<1>4. QED
  BY <1>2, <1>3 DEF BeginSelection

(* What the caller of a question that is over is told holds of it.         *)
LEMMA TerminalErrorHolds ==
  ASSUME TypeInv, NEW q \in Procs, question[q].status # "PENDING"
  PROVE  /\ TerminalStatusError(q) \in SelectAnswers \ ({"none"} \cup Committed)
         /\ AnswerHolds(TerminalStatusError(q), q)
<1>1. question[q].status \in QuestionStatus
  BY DEF TypeInv, ClarTypeOK, Question
<1>2. QED
  BY <1>1 DEF TerminalStatusError, Exists, QuestionStatus, SelectAnswers, Committed, AnswerHolds

(* A quiet step that leaves the store alone as well, whatever it answers.  *)
LEMMA TellStep ==
  ASSUME ClarInv, UNCHANGED storeVars, NEW s \in Selects,
         spc[s] \in {"begin", "running", "tool", "read", "expire", "claim", "say", "fail"},
         NEW step \in SelectSteps \ {"unsent"}, SGoto(s, step),
         NEW a \in SelectAnswers, sanswer' = sanswer \/ Told(s, a),
         Exists(Target_(s)) => AnswerHolds(a, Target_(s)),
         UNCHANGED <<questionVars, sreq, cont, sdrafts>>, sfaults' \in 0..MaxSelectFaults
  PROVE  ClarInv'
<1>1. StoreTypeOK' /\ said' = said
  BY DEF ClarInv, TypeInv, ClarTypeOK, StoreTypeOK, storeVars
<1>2. said'[s] = 0
  BY <1>1 DEF ClarInv, SelectionInv
<1>3. QED
  BY <1>1, <1>2, QuietStep

LEMMA SelectReadKeeps ==
  ASSUME ClarInv, NEW s \in Selects, ReadQuestion(s)
  PROVE  ClarInv'
<1>1. PICK q : q = Target_(s)
  OBVIOUS
<1>2. /\ spc[s] = "read" /\ q \in Procs
      /\ UNCHANGED <<storeVars, questionVars, sreq, cont, sdrafts, sfaults>>
      /\ sfaults \in 0..MaxSelectFaults
  BY <1>1 DEF ReadQuestion, ClarInv, SelectionInv, TypeInv, ClarTypeOK
<1>3. question[q].status \in QuestionStatus
  BY <1>2 DEF ClarInv, TypeInv, ClarTypeOK, Question
<1>4. CASE ~Exists(q)
  <2>1. SGoto(s, "fail") /\ Told(s, "not_found")
    BY <1>1, <1>4 DEF ReadQuestion, Refused, Exists
  <2>2. QED
    BY <1>1, <1>2, <1>4, <2>1, TellStep DEF SelectSteps, SelectAnswers
<1>5. CASE question[q].status = "CANCELLED" /\ sreq[s].kind = "cancel"
  <2>1. SGoto(s, "say") /\ Told(s, "cancelled_ok")
    BY <1>1, <1>5 DEF ReadQuestion, Exists
  <2>2. QED
    BY <1>1, <1>2, <1>5, <2>1, TellStep DEF SelectSteps, SelectAnswers, AnswerHolds
<1>6. CASE /\ Exists(q) /\ question[q].status # "PENDING"
           /\ ~(question[q].status = "CANCELLED" /\ sreq[s].kind = "cancel")
  <2>1. SGoto(s, "fail") /\ Told(s, TerminalStatusError(q))
    BY <1>1, <1>6 DEF ReadQuestion, Refused
  <2>2. QED
    BY <1>1, <1>2, <1>6, <2>1, TellStep, TerminalErrorHolds DEF SelectSteps, ClarInv
<1>7. CASE question[q].status = "PENDING"
  <2>1. PICK step \in {"expire", "claim", "fail"} :
          SGoto(s, step) /\ (sanswer' = sanswer \/ Told(s, "bad_option"))
    BY <1>1, <1>7 DEF ReadQuestion, Exists, Refused
  <2>2. QED
    BY <1>2, <2>1, TellStep DEF SelectSteps, SelectAnswers, AnswerHolds
<1>8. QED
  BY <1>3, <1>4, <1>5, <1>6, <1>7 DEF Exists

LEMMA SelectSayKeeps ==
  ASSUME ClarInv, NEW s \in Selects, SayCancelled(s) \/ RecordFailure(s)
  PROVE  ClarInv'
<1>1. /\ spc[s] \in {"say", "fail"} /\ UNCHANGED <<questionVars, sreq, cont, sdrafts, sfaults>>
      /\ sfaults \in 0..MaxSelectFaults
  BY DEF SayCancelled, RecordFailure, ClarInv, TypeInv, ClarTypeOK
<1>2. CASE UNCHANGED storeVars
  <2>1. PICK step \in {"done", "fail"} : SGoto(s, step) /\ (sanswer' = sanswer \/ Told(s, "error"))
    BY DEF SayCancelled, RecordFailure, Refused
  <2>2. QED
    BY <1>1, <1>2, <2>1, TellStep DEF SelectSteps, SelectAnswers, AnswerHolds
<1>3. CASE ~UNCHANGED storeVars
  <2>1. SGoto(s, "done") /\ sanswer' = sanswer
    BY <1>3 DEF SayCancelled, RecordFailure
  <2>2. PICK t \in {"SUCCEEDED", "FAILED"} :
          FinalizeRows(s, "FAILED", t, TRUE) \/ FinalizeWithoutTool(s, t)
    BY <1>3 DEF SayCancelled, RecordFailure
  <2>3. said[s] = 0 /\ StoreTypeOK
    BY <1>1 DEF ClarInv, SelectionInv, TypeInv, ClarTypeOK
  <2>4. StoreTypeOK' /\ \A p \in Procs : p # s => said'[p] = said[p]
    BY <2>2, <2>3, FinalKeepsStore DEF ExecStatus, TurnStatus
  <2>5. QED
    BY <1>1, <2>1, <2>4, QuietStep DEF SelectSteps, SelectAnswers, AnswerHolds
<1>4. QED
  BY <1>2, <1>3

LEMMA FailsKeeps ==
  ASSUME ClarInv, NEW s \in Selects, SelectionFails(s)
  PROVE  ClarInv'
<1>1. sfaults' \in 0..MaxSelectFaults /\ UNCHANGED <<storeVars, questionVars, sreq, cont, sdrafts>>
  BY SelectAssumption DEF SelectionFails, ClarInv, TypeInv, ClarTypeOK
<1>2. PICK step \in {"done", "fail", "dead"}, a \in {"thrown", "error"} :
        SGoto(s, step) /\ (sanswer' = sanswer \/ Told(s, a))
  BY DEF SelectionFails, Refused
<1>3. spc[s] \in {"begin", "running", "tool", "read", "expire", "claim", "say", "fail"}
  BY DEF SelectionFails, ClarInv, TypeInv, ClarTypeOK, SelectSteps
<1>4. QED
  BY <1>1, <1>2, <1>3, TellStep DEF SelectSteps, SelectAnswers, AnswerHolds

(* A question that is open ends, stale or cancelled, and nothing is made   *)
(* of it.                                                                  *)
LEMMA EndStep ==
  ASSUME ClarInv, UNCHANGED storeVars, NEW s \in Selects, spc[s] \in {"expire", "claim"},
         question[Target_(s)].status = "PENDING", NEW end \in {"STALE", "CANCELLED"},
         question' = [question EXCEPT ![Target_(s)].status = end],
         NEW step \in {"fail", "say"}, SGoto(s, step),
         NEW a \in SelectAnswers, Told(s, a), a = end \/ (end = "CANCELLED" /\ a = "cancelled_ok"),
         UNCHANGED <<expired, byId, sreq, cont, sdrafts, sfaults>>
  PROVE  ClarInv'
<1>1. PICK q : q = Target_(s)
  OBVIOUS
<1>2. q \in Procs /\ question[q].status = "PENDING" /\ question[q] \in Question
  BY <1>1 DEF ClarInv, SelectionInv, TypeInv, ClarTypeOK
<1>3. PICK new : new = [question[q] EXCEPT !.status = end]
  OBVIOUS
<1>4. new \in Question /\ new.status = end
  BY <1>2, <1>3 DEF Question, QuestionStatus
<1>5. question' = [question EXCEPT ![q] = new]
  BY <1>1, <1>3
<1>6. question'[q] = new /\ \A p \in Procs : p # q => question'[p] = question[p]
  BY <1>2, <1>5 DEF ClarInv, TypeInv, ClarTypeOK
<1>7. TypeInv'
  <2>1. StoreTypeOK'
    BY DEF ClarInv, TypeInv, ClarTypeOK, StoreTypeOK, storeVars
  <2>2. question' \in [Procs -> Question]
    BY <1>2, <1>4, <1>5 DEF ClarInv, TypeInv, ClarTypeOK
  <2>3. OpenQuestions'
    BY <1>4, <1>6 DEF ClarInv, TypeInv, OpenQuestions
  <2>4. QED
    BY <2>1, <2>2, <2>3 DEF ClarInv, TypeInv, ClarTypeOK, SGoto, Told, SelectSteps
<1>8. StatusMoves({s})
  BY <1>2, <1>4, <1>6 DEF StatusMoves, Ended
<1>9. ASSUME NEW t \in Selects \ {s} PROVE SameSelection(t)
  BY DEF ClarInv, TypeInv, ClarTypeOK, SGoto, Told, SameSelection, storeVars
<1>10. spc'[s] = step /\ sanswer'[s] = a /\ Target_(s)' = q
  BY <1>1 DEF ClarInv, TypeInv, ClarTypeOK, SGoto, Told, Target_
<1>11. s \in Procs /\ q # s /\ cont[s] = "none" /\ said[s] = 0
  BY <1>2, ProcsAre DEF ClarInv, SelectionInv
<1>12. (Exists(Target_(s)) => AnswerHolds(sanswer[s], Target_(s)))'
  BY <1>4, <1>6, <1>10 DEF AnswerHolds
<1>13. SelectionInv(s)'
  BY <1>2, <1>4, <1>6, <1>10, <1>11, <1>12 DEF ClarInv, SelectionInv, storeVars
<1>14. QED
  BY <1>7, <1>8, <1>9, <1>13, Combine

LEMMA ExpireKeeps ==
  ASSUME ClarInv, NEW s \in Selects, TerminalizeOrReportActual(s)
  PROVE  ClarInv'
<1>1. PICK q : q = Target_(s)
  OBVIOUS
<1>2. /\ spc[s] = "expire" /\ q \in Procs
      /\ UNCHANGED <<storeVars, expired, byId, sreq, cont, sdrafts, sfaults>>
      /\ sfaults \in 0..MaxSelectFaults
  BY <1>1 DEF TerminalizeOrReportActual, ClarInv, SelectionInv, TypeInv, ClarTypeOK
<1>3. CASE question[q].status = "PENDING"
  <2>1. question' = [question EXCEPT ![q].status = "STALE"]
        /\ Told(s, "STALE") /\ SGoto(s, "fail")
    BY <1>1, <1>3 DEF TerminalizeOrReportActual, Refused
  <2>2. QED
    BY <1>1, <1>2, <1>3, <2>1, EndStep DEF SelectAnswers
<1>4. CASE question[q].status # "PENDING"
  <2>1. SGoto(s, "fail") /\ Told(s, TerminalStatusError(q)) /\ UNCHANGED questionVars
    BY <1>1, <1>2, <1>4 DEF TerminalizeOrReportActual, Refused, questionVars
  <2>2. QED
    BY <1>1, <1>2, <1>4, <2>1, TellStep, TerminalErrorHolds DEF SelectSteps, ClarInv
<1>5. QED
  BY <1>3, <1>4

LEMMA CancelKeeps ==
  ASSUME ClarInv, NEW s \in Selects, CancelQuestion(s)
  PROVE  ClarInv'
<1>1. PICK q : q = Target_(s)
  OBVIOUS
<1>2. /\ spc[s] = "claim" /\ q \in Procs
      /\ UNCHANGED <<storeVars, expired, byId, sreq, cont, sdrafts, sfaults>>
      /\ sfaults \in 0..MaxSelectFaults
  BY <1>1 DEF CancelQuestion, ClarInv, SelectionInv, TypeInv, ClarTypeOK
<1>3. CASE question[q].status = "PENDING"
  <2>1. question' = [question EXCEPT ![q].status = "CANCELLED"]
        /\ Told(s, "cancelled_ok") /\ SGoto(s, "say")
    BY <1>1, <1>3 DEF CancelQuestion
  <2>2. QED
    BY <1>1, <1>2, <1>3, <2>1, EndStep DEF SelectAnswers
<1>4. CASE question[q].status = "CANCELLED"
  <2>1. SGoto(s, "say") /\ Told(s, "cancelled_ok") /\ UNCHANGED questionVars
    BY <1>1, <1>2, <1>4 DEF CancelQuestion, questionVars
  <2>2. QED
    BY <1>1, <1>2, <1>4, <2>1, TellStep DEF SelectSteps, SelectAnswers, AnswerHolds
<1>5. CASE question[q].status \notin {"PENDING", "CANCELLED"}
  <2>1. SGoto(s, "fail") /\ Told(s, TerminalStatusError(q)) /\ UNCHANGED questionVars
    BY <1>1, <1>2, <1>5 DEF CancelQuestion, Refused, questionVars
  <2>2. QED
    BY <1>1, <1>2, <1>5, <2>1, TellStep, TerminalErrorHolds DEF SelectSteps, ClarInv
<1>6. QED
  BY <1>3, <1>4, <1>5

(* A commit of selection s on q: what it went on to, and what it wrote.    *)
CommitOn(s, q, next) ==
  /\ spc[s] = "claim" /\ q = Target_(s) /\ question[q].status = "PENDING"
  /\ \E res \in Resolutions : next = Continuation(question[q].entity, question[q].context, res)
  /\ next.kind \in Committed
  /\ CommitContinuation(s, next)

LEMMA SelectIs ==
  ASSUME ClarInv, NEW s \in Selects, SelectAndContinue(s)
  PROVE  \/ \E next : CommitOn(s, Target_(s), next)
         \/ \E a \in SelectAnswers :
              /\ Refused(s, a) /\ (Exists(Target_(s)) => AnswerHolds(a, Target_(s)))
              /\ UNCHANGED <<storeVars, question, cont, sdrafts>>
<1>1. PICK q : q = Target_(s)
  OBVIOUS
<1>2. q \in Procs
  BY <1>1 DEF SelectAndContinue, ClarInv, SelectionInv
<1>3. CASE question[q].status = "PENDING"
  <2>1. \/ \E next : CommitOn(s, Target_(s), next)
        \/ Refused(s, "error") /\ UNCHANGED <<storeVars, question, cont, sdrafts>>
    BY <1>1, <1>3 DEF SelectAndContinue, CommitOn
  <2>2. "error" \in SelectAnswers /\ AnswerHolds("error", Target_(s))
    BY DEF SelectAnswers, AnswerHolds
  <2>3. QED
    BY <2>1, <2>2
<1>4. CASE question[q].status # "PENDING"
  <2>1. Refused(s, TerminalStatusError(q)) /\ UNCHANGED <<storeVars, question, cont, sdrafts>>
    BY <1>1, <1>4 DEF SelectAndContinue
  <2>2. TerminalStatusError(q) \in SelectAnswers /\ AnswerHolds(TerminalStatusError(q), q)
    BY <1>2, <1>4, TerminalErrorHolds DEF ClarInv
  <2>3. QED
    BY <1>1, <2>1, <2>2
<1>5. QED
  BY <1>3, <1>4

(* The rows a commit leaves: its question consumed and, when it asks       *)
(* again, its own question open.                                           *)
LEMMA CommitWrites ==
  ASSUME ClarInv, NEW s \in Selects, NEW q, NEW next, CommitOn(s, q, next)
  PROVE  /\ q \in Procs /\ s \in Procs /\ q # s
         /\ cont[s] = "none" /\ question[s].status = "none" /\ s \notin sdrafts
         /\ next.kind \in Committed
         /\ question' \in [Procs -> Question]
         /\ \A p \in Procs \ {q, s} : question'[p] = question[p]
         /\ question'[q].status = "CONSUMED"
         /\ next.kind # "child" => question'[s] = question[s]
         /\ next.kind = "child" => /\ question'[s].status = "PENDING"
                                   /\ question'[s].entity \in Entities
                                   /\ question'[s].context.wallet \/ ~question[q].context.wallet
                                   /\ question[q].entity = "wallet"
                                        => question'[s].context.wallet
         /\ cont' = [cont EXCEPT ![s] = next.kind]
         /\ sdrafts' = IF next.kind = "drafted" THEN sdrafts \cup {s} ELSE sdrafts
<1>1. /\ q \in Procs /\ question[q] \in Question /\ question[q].status = "PENDING"
      /\ question[q].entity \in Entities /\ question[q].context \in Contexts
      /\ q = Target_(s) /\ spc[s] = "claim"
  BY DEF CommitOn, ClarInv, TypeInv, ClarTypeOK, SelectionInv, OpenQuestions, Question
<1>2. s \in Procs /\ cont[s] = "none" /\ question[s].status = "none" /\ q # s /\ s \notin sdrafts
  BY <1>1, ProcsAre DEF ClarInv, SelectionInv
<1>3. /\ next.kind \in {"child", "noCategory", "noWallet", "drafted"}
      /\ next.kind = "child" =>
           /\ next.entity \in Entities /\ next.context \in Contexts
           /\ ~next.context.wallet => ~question[q].context.wallet /\ question[q].entity # "wallet"
  BY <1>1, NextIs DEF CommitOn
<1>4. PICK old : old = [question[q] EXCEPT !.status = "CONSUMED"]
  OBVIOUS
<1>5. old \in Question /\ old.status = "CONSUMED"
  BY <1>1, <1>4 DEF Question, QuestionStatus
<1>6. CASE next.kind = "child"
  <2>1. PICK new : new = NewQuestion(next, q)
    OBVIOUS
  <2>2. new \in Question /\ new.status = "PENDING" /\ new.entity = next.entity
        /\ new.context = next.context
    BY <1>1, <1>3, <1>6, <2>1 DEF NewQuestion, Question, QuestionStatus
  <2>3. question' = [question EXCEPT ![q] = old, ![s] = new]
    BY <1>1, <1>4, <1>6, <2>1 DEF CommitOn, CommitContinuation
  <2>4. PICK mid : mid = [question EXCEPT ![q] = old]
    OBVIOUS
  <2>5. mid \in [Procs -> Question] /\ mid[q] = old /\ \A p \in Procs : p # q => mid[p] = question[p]
    BY <1>1, <1>5, <2>4 DEF ClarInv, TypeInv, ClarTypeOK
  <2>6. question' = [mid EXCEPT ![s] = new]
    BY <2>3, <2>4
  <2>7. /\ question' \in [Procs -> Question] /\ question'[q] = old /\ question'[s] = new
        /\ \A p \in Procs \ {q, s} : question'[p] = question[p]
    BY <1>2, <2>2, <2>5, <2>6
  <2>8. QED
    BY <1>1, <1>2, <1>3, <1>5, <1>6, <2>2, <2>7 DEF CommitOn, CommitContinuation
<1>7. CASE next.kind # "child"
  <2>1. question' = [question EXCEPT ![q] = old]
    BY <1>1, <1>4, <1>7 DEF CommitOn, CommitContinuation
  <2>2. question' \in [Procs -> Question] /\ question'[q] = old
        /\ \A p \in Procs : p # q => question'[p] = question[p]
    BY <1>1, <1>5, <2>1 DEF ClarInv, TypeInv, ClarTypeOK
  <2>3. QED
    BY <1>1, <1>2, <1>3, <1>5, <1>7, <2>2 DEF CommitOn, CommitContinuation
<1>8. QED
  BY <1>6, <1>7

LEMMA CommitKeeps ==
  ASSUME ClarInv, NEW s \in Selects, NEW q, NEW next, CommitOn(s, q, next),
         UNCHANGED <<expired, byId, sreq, sfaults>>
  PROVE  ClarInv'
<1>1. /\ q \in Procs /\ s \in Procs /\ q # s
      /\ cont[s] = "none" /\ question[s].status = "none" /\ s \notin sdrafts
      /\ next.kind \in Committed
      /\ question' \in [Procs -> Question]
      /\ \A p \in Procs \ {q, s} : question'[p] = question[p]
      /\ question'[q].status = "CONSUMED"
      /\ next.kind # "child" => question'[s] = question[s]
      /\ next.kind = "child" => /\ question'[s].status = "PENDING"
                                /\ question'[s].entity \in Entities
      /\ cont' = [cont EXCEPT ![s] = next.kind]
      /\ sdrafts' = IF next.kind = "drafted" THEN sdrafts \cup {s} ELSE sdrafts
  BY CommitWrites
<1>2. /\ spc[s] = "claim" /\ q = Target_(s) /\ question[q].status = "PENDING"
      /\ SGoto(s, "done") /\ Told(s, next.kind)
  BY DEF CommitOn, CommitContinuation
<1>3. StoreTypeOK' /\ \A p \in Procs : p # s => said'[p] = said[p]
  <2>1. PICK t \in {"SUCCEEDED", "CLARIFICATION_REQUIRED"} :
          FinalizeRows(s, "SUCCEEDED", t, next.kind # "drafted")
    BY DEF CommitOn, CommitContinuation
  <2>2. said[s] = 0 /\ StoreTypeOK
    BY <1>2 DEF ClarInv, SelectionInv, TypeInv, ClarTypeOK
  <2>3. QED
    BY <2>1, <2>2, FinalKeepsStore DEF ExecStatus, TurnStatus
<1>4. TypeInv'
  <2>1. ClarTypeOK'
    BY <1>1, <1>2, <1>3
       DEF ClarInv, TypeInv, ClarTypeOK, SGoto, Told, SelectSteps, SelectAnswers, Committed
  <2>2. OpenQuestions'
    BY <1>1 DEF ClarInv, TypeInv, OpenQuestions
  <2>3. QED
    BY <2>1, <2>2 DEF ClarInv, TypeInv
<1>5. StatusMoves({s})
  BY <1>1, <1>2 DEF StatusMoves, Ended
<1>6. ASSUME NEW t \in Selects \ {s} PROVE SameSelection(t)
  <2>1. spc'[t] = spc[t] /\ sanswer'[t] = sanswer[t] /\ cont'[t] = cont[t] /\ said'[t] = said[t]
    BY <1>1, <1>2, <1>3, ProcsAre DEF ClarInv, TypeInv, ClarTypeOK, SGoto, Told
  <2>2. QED
    BY <1>1, <2>1 DEF SameSelection
<1>7. /\ spc'[s] = "done" /\ sanswer'[s] = next.kind /\ cont'[s] = next.kind
      /\ Target_(s)' = q
  BY <1>1, <1>2 DEF ClarInv, TypeInv, ClarTypeOK, SGoto, Told, Target_
<1>8. SelectionInv(s)'
  BY <1>1, <1>7 DEF SelectionInv, AnswerHolds, Committed
<1>9. QED
  BY <1>4, <1>5, <1>6, <1>8, Combine

LEMMA SelectKeeps ==
  ASSUME ClarInv, NEW s \in Selects, SelectAndContinue(s)
  PROVE  ClarInv'
<1>1. UNCHANGED <<expired, byId, sreq, sfaults>> /\ sfaults \in 0..MaxSelectFaults
      /\ spc[s] = "claim"
  BY DEF SelectAndContinue, ClarInv, TypeInv, ClarTypeOK
<1>2. CASE \E next : CommitOn(s, Target_(s), next)
  BY <1>1, <1>2, CommitKeeps
<1>3. ASSUME NEW a \in SelectAnswers, Refused(s, a),
             Exists(Target_(s)) => AnswerHolds(a, Target_(s)),
             UNCHANGED <<storeVars, question, cont, sdrafts>>
      PROVE  ClarInv'
  <2>1. UNCHANGED questionVars
    BY <1>1, <1>3 DEF questionVars
  <2>2. QED
    BY <1>1, <1>3, <2>1, TellStep DEF Refused, SelectSteps
<1>4. QED
  BY <1>2, <1>3, SelectIs

LEMMA TimeKeeps ==
  ASSUME ClarInv, NEW q \in Procs, FifteenMinutesPass(q)
  PROVE  ClarInv'
<1>1. expired' = expired \cup {q}
      /\ UNCHANGED <<storeVars, question, byId, sreq, spc, sanswer, cont, sdrafts, sfaults>>
  BY DEF FifteenMinutesPass
<1>2. TypeInv'
  BY <1>1 DEF ClarInv, TypeInv, ClarTypeOK, StoreTypeOK, storeVars, OpenQuestions
<1>3. ASSUME NEW t \in Selects PROVE SelectionInv(t)'
  <2>1. StatusMoves({}) /\ SameSelection(t)
    BY <1>1 DEF StatusMoves, SameSelection, storeVars
  <2>2. QED
    BY <1>2, <2>1, OthersKeep DEF ClarInv
<1>4. QED
  BY <1>2, <1>3 DEF ClarInv

LEMMA DeleteKeeps ==
  ASSUME ClarInv, DeleteQuestions
  PROVE  /\ ClarInv'
         /\ \A p \in Procs : ~Exists(p)'
<1>1. PICK gone : gone = [NoQuestion EXCEPT !.status = "gone"]
  OBVIOUS
<1>2. gone \in Question /\ gone.status = "gone"
  BY <1>1, ContextsAre DEF NoQuestion, Question, QuestionStatus
<1>3. /\ question' = [p \in Procs |-> IF Exists(p) THEN gone ELSE question[p]]
      /\ sdrafts' = {} /\ UNCHANGED <<expired, byId, sreq, spc, sanswer, cont, sfaults>>
  BY <1>1 DEF DeleteQuestions
<1>4. StoreTypeOK' /\ \A p \in Procs : said'[p] \in {said[p], 0}
  BY ProcsAre, DeleteKeepsStore DEF DeleteQuestions, ClarInv, TypeInv, ClarTypeOK
<1>5. TypeInv'
  <2>1. question' \in [Procs -> Question]
    BY <1>2, <1>3 DEF ClarInv, TypeInv, ClarTypeOK
  <2>2. OpenQuestions'
    BY <1>2, <1>3 DEF ClarInv, TypeInv, OpenQuestions
  <2>3. QED
    BY <1>3, <1>4, <2>1, <2>2 DEF ClarInv, TypeInv, ClarTypeOK
<1>6. StatusMoves({})
  BY <1>2, <1>3 DEF StatusMoves, Exists
<1>7. ASSUME NEW t \in Selects PROVE SelectionInv(t)'
  <2>1. SameSelection(t)
    BY <1>3, <1>4, ProcsAre DEF SameSelection
  <2>2. QED
    BY <1>5, <1>6, <2>1, OthersKeep DEF ClarInv
<1>8. \A p \in Procs : ~Exists(p)'
  BY <1>2, <1>3 DEF Exists
<1>9. QED
  BY <1>5, <1>7, <1>8 DEF ClarInv

LEMMA StepClarInv == ClarInv /\ [ClarNext]_clarVars => ClarInv'
<1> SUFFICES ASSUME ClarInv, [ClarNext]_clarVars PROVE ClarInv'
  OBVIOUS
<1>1. CASE UNCHANGED clarVars
  <2>1. TypeInv'
    BY <1>1 DEF clarVars, ClarInv, TypeInv, ClarTypeOK, StoreTypeOK, storeVars, OpenQuestions
  <2>2. ASSUME NEW t \in Selects PROVE SelectionInv(t)'
    <3>1. StatusMoves({}) /\ SameSelection(t)
      BY <1>1 DEF clarVars, StatusMoves, SameSelection, storeVars
    <3>2. QED
      BY <2>1, <3>1, OthersKeep DEF ClarInv
  <2>3. QED
    BY <2>1, <2>2 DEF ClarInv
<1>2. CASE ClarNext
  BY <1>2, SendKeeps, BeginKeeps, SelectReadKeeps, ExpireKeeps, SelectKeeps, CancelKeeps, SelectSayKeeps,
     FailsKeeps, TimeKeeps, DeleteKeeps DEF ClarNext, SelectionStep
<1>3. QED
  BY <1>1, <1>2

(* The rows of clarifications and the states of their selections keep      *)
(* their types (clarification.service.ts).                                 *)
THEOREM ClarTypeCorrect == ClarSpec => []ClarTypeOK
<1>1. ClarInv => ClarTypeOK
  BY DEF ClarInv, TypeInv
<1>2. QED
  BY <1>1, InitClarInv, StepClarInv, PTL DEF ClarSpec

(* What a selection or a cancellation is told is how its question ended,   *)
(* and a failed one leaves neither a draft nor a next question, whatever   *)
(* raced it (clarification.service.ts:108, terminalStatusError).           *)
THEOREM AnswersAreTrue == ClarSpec => []SelectionAnswersAreTrue
<1>1. ClarInv => SelectionAnswersAreTrue
  <2> SUFFICES ASSUME ClarInv, NEW s \in Selects
               PROVE  /\ sanswer[s] \in {"CONSUMED", "CANCELLED", "STALE"} /\ Exists(Target_(s))
                           => question[Target_(s)].status = sanswer[s]
                      /\ sanswer[s] = "cancelled_ok" /\ Exists(Target_(s))
                           => question[Target_(s)].status = "CANCELLED"
                      /\ sanswer[s] \in SelectAnswers \ ({"none"} \cup Committed)
                           => cont[s] = "none" /\ ~Exists(s) /\ s \notin sdrafts
    BY DEF SelectionAnswersAreTrue
  <2>1. SelectionInv(s) /\ cont[s] \in {"none"} \cup Committed
    BY DEF ClarInv, TypeInv, ClarTypeOK
  <2>2. QED
    BY <2>1 DEF SelectionInv, AnswerHolds, Exists
<1>2. QED
  BY <1>1, InitClarInv, StepClarInv, PTL DEF ClarSpec

-----------------------------------------------------------------------------
(* The chain of questions *)

(* A step at which nothing is won: the open question may end.              *)
ChainStays ==
  /\ UNCHANGED <<cont, sdrafts, byId>>
  /\ \A s \in Selects : cont[s] # "none" => sreq'[s] = sreq[s]
  /\ \A p \in Procs : \/ question'[p] = question[p]
                      \/ /\ question[p].status = "PENDING"
                         /\ question'[p].status \in {"STALE", "CANCELLED"}

LEMMA SettleStays ==
  ASSUME ClarInv, NEW q \in Procs, question[q].status = "PENDING",
         NEW end \in {"STALE", "CANCELLED"},
         question' = [question EXCEPT ![q].status = end],
         UNCHANGED <<cont, sdrafts, byId, sreq>>
  PROVE  ChainStays
<1>1. question[q] \in Question
  BY DEF ClarInv, TypeInv, ClarTypeOK
<1>2. PICK new : new = [question[q] EXCEPT !.status = end]
  OBVIOUS
<1>3. new.status = end /\ question' = [question EXCEPT ![q] = new]
  BY <1>1, <1>2 DEF Question
<1>4. QED
  BY <1>3 DEF ChainStays, ClarInv, TypeInv, ClarTypeOK

LEMMA ChainSteps ==
  ASSUME ClarInv, [ClarNext]_clarVars
  PROVE  \/ ChainStays
         \/ \E s \in Selects, q \in Procs : \E next :
              CommitOn(s, q, next) /\ UNCHANGED <<sreq, byId>>
         \/ DeleteQuestions
<1>1. CASE UNCHANGED <<question, cont, sdrafts, byId, sreq>>
  BY <1>1 DEF ChainStays
<1>2. CASE DeleteQuestions
  BY <1>2
<1>3. ASSUME NEW s \in Selects, SelectionStep(s)
      PROVE  \/ ChainStays
             \/ \E q \in Procs : \E next : CommitOn(s, q, next) /\ UNCHANGED <<sreq, byId>>
  <2>1. CASE SendSelection(s)
    <3>1. cont[s] = "none" /\ UNCHANGED <<question, cont, sdrafts, byId>>
      BY <2>1 DEF SendSelection, ClarInv, SelectionInv, questionVars
    <3>2. \A t \in Selects : t # s => sreq'[t] = sreq[t]
      BY <2>1 DEF SendSelection, ClarInv, TypeInv
    <3>3. QED
      BY <3>1, <3>2 DEF ChainStays
  <2>2. CASE SelectAndContinue(s)
    <3>1. Target_(s) \in Procs
      BY <2>2 DEF SelectAndContinue, ClarInv, SelectionInv
    <3>2. QED
      BY <2>2, <3>1, SelectIs DEF SelectAndContinue, ChainStays
  <2>3. CASE TerminalizeOrReportActual(s) \/ CancelQuestion(s)
    <3>1. Target_(s) \in Procs
      BY <2>3 DEF TerminalizeOrReportActual, CancelQuestion, ClarInv, SelectionInv
    <3>2. QED
      BY <2>3, <3>1, SettleStays DEF TerminalizeOrReportActual, CancelQuestion, ChainStays
  <2>4. CASE BeginSelection(s) \/ ReadQuestion(s) \/ SayCancelled(s) \/ RecordFailure(s)
             \/ SelectionFails(s)
    BY <2>4 DEF BeginSelection, ReadQuestion, SayCancelled, RecordFailure, SelectionFails,
                questionVars, ChainStays
  <2>5. QED
    BY <1>3, <2>1, <2>2, <2>3, <2>4 DEF SelectionStep
<1>4. QED
  BY <1>1, <1>2, <1>3 DEF ClarNext, clarVars, FifteenMinutesPass

LEMMA StaysForward ==
  ASSUME ClarInv, ChainMovesForward, ChainStays
  PROVE  ChainMovesForward'
<1>1. Pending' \subseteq Pending
  BY DEF Pending, ChainStays
<1>2. ASSUME NEW q \in Procs PROVE Winners(q)' = Winners(q)
  BY DEF Winners, ChainStays, Target_
<1>3. ASSUME NEW q \in Procs, Exists(q)'
      PROVE  Exists(q) /\ (question'[q].status = "CONSUMED" <=> question[q].status = "CONSUMED")
  BY <1>3 DEF Exists, ChainStays
<1>4. ASSUME NEW q \in Procs, Exists(q)'
      PROVE  /\ (question[q].status = "CONSUMED" <=> Winners(q) # {})'
             /\ (\A s, t \in Winners(q) : s = t)'
  <2>1. Exists(q) /\ (question'[q].status = "CONSUMED" <=> question[q].status = "CONSUMED")
    BY <1>3, <1>4
  <2>2. /\ question[q].status = "CONSUMED" <=> Winners(q) # {}
        /\ \A s, t \in Winners(q) : s = t
    BY <2>1 DEF ChainMovesForward
  <2>3. Winners(q)' = Winners(q)
    BY <1>2
  <2>4. QED
    BY <2>1, <2>2, <2>3
<1>5. /\ (\A q, p \in Pending : q = p)' /\ (\A s, t \in sdrafts : s = t)'
      /\ (Pending = {} \/ sdrafts = {})'
  BY <1>1 DEF ChainMovesForward, ChainStays
<1>6. QED
  BY <1>4, <1>5 DEF ChainMovesForward

LEMMA CommitForward ==
  ASSUME ClarInv, ChainMovesForward, NEW s \in Selects, NEW q, NEW next,
         CommitOn(s, q, next), UNCHANGED sreq
  PROVE  ChainMovesForward'
<1>1. /\ q \in Procs /\ s \in Procs /\ q # s
      /\ cont[s] = "none" /\ question[s].status = "none"
      /\ next.kind \in Committed
      /\ \A p \in Procs \ {q, s} : question'[p] = question[p]
      /\ question'[q].status = "CONSUMED"
      /\ next.kind # "child" => question'[s] = question[s]
      /\ next.kind = "child" => question'[s].status = "PENDING"
      /\ cont' = [cont EXCEPT ![s] = next.kind]
      /\ sdrafts' = IF next.kind = "drafted" THEN sdrafts \cup {s} ELSE sdrafts
  BY CommitWrites
<1>2. q = Target_(s) /\ question[q].status = "PENDING" /\ Exists(q)
  BY DEF CommitOn, Exists
<1>3. Pending = {q} /\ sdrafts = {}
  BY <1>1, <1>2 DEF Pending, ChainMovesForward
<1>4. Pending' = IF next.kind = "child" THEN {s} ELSE {}
  <2>1. \A p \in Procs \ {q, s} : question[p].status # "PENDING"
    BY <1>3 DEF Pending
  <2>2. QED
    BY <1>1, <2>1 DEF Pending
<1>5. Winners(q) = {}
  BY <1>1, <1>2 DEF ChainMovesForward
<1>6. cont'[s] # "none" /\ \A t \in Selects : t # s => cont'[t] = cont[t]
  BY <1>1 DEF ClarInv, TypeInv, ClarTypeOK, Committed
<1>7. Winners(q)' = {s}
  BY <1>2, <1>5, <1>6 DEF Winners, Target_
<1>8. ASSUME NEW p \in Procs, p # q PROVE Winners(p)' = Winners(p)
  BY <1>1, <1>2, <1>6, <1>8 DEF Winners, Target_
<1>9. Winners(s) = {}
  <2>1. \A t \in Selects : cont[t] # "none" => question[Target_(t)].status # "none"
    BY DEF ClarInv, SelectionInv
  <2>2. QED
    BY <1>1, <2>1 DEF Winners
<1>10. ASSUME NEW p \in Procs, Exists(p)'
       PROVE  /\ (question[p].status = "CONSUMED" <=> Winners(p) # {})'
              /\ (\A x, t \in Winners(p) : x = t)'
  <2>1. CASE p = q
    BY <1>1, <1>7, <2>1
  <2>2. CASE p = s
    BY <1>1, <1>8, <1>9, <1>10, <2>2 DEF Exists
  <2>3. CASE p \notin {q, s}
    <3>1. Exists(p) /\ question'[p] = question[p]
      BY <1>1, <1>10, <2>3 DEF Exists
    <3>2. QED
      BY <1>8, <2>3, <3>1 DEF ChainMovesForward
  <2>4. QED
    BY <2>1, <2>2, <2>3
<1>11. /\ (\A x, p \in Pending : x = p)' /\ (\A x, t \in sdrafts : x = t)'
       /\ (Pending = {} \/ sdrafts = {})'
  BY <1>1, <1>3, <1>4
<1>12. QED
  BY <1>10, <1>11 DEF ChainMovesForward

LEMMA DeleteForward ==
  ASSUME ClarInv, DeleteQuestions
  PROVE  ChainMovesForward'
<1>1. \A p \in Procs : ~Exists(p)'
  BY DeleteKeeps
<1>2. Pending' = {} /\ sdrafts' = {}
  BY <1>1 DEF Pending, Exists, DeleteQuestions
<1>3. QED
  BY <1>1, <1>2 DEF ChainMovesForward

LEMMA InitForward == ClarInit => ChainMovesForward
<1> SUFFICES ASSUME ClarInit PROVE ChainMovesForward
  OBVIOUS
<1>1. PICK r \in Requests, i \in {j \in TransactionInputs : CreateOutcome(j) = "asked"} :
        question = [p \in Procs |-> IF p = r THEN NewQuestion(AskedQuestion(i), None)
                                    ELSE NoQuestion]
  BY DEF ClarInit
<1>2. /\ r \in Procs /\ question[r].status = "PENDING"
      /\ \A p \in Procs : p # r => question[p].status = "none"
  BY <1>1, ProcsAre DEF NewQuestion, NoQuestion
<1>3. Pending = {r} /\ sdrafts = {} /\ \A q \in Procs : Winners(q) = {}
  BY <1>2 DEF Pending, Winners, ClarInit
<1>4. QED
  BY <1>2, <1>3 DEF ChainMovesForward, Exists

(* However many buttons are pressed at once, one request ends in at most   *)
(* one draft: at any moment it has one open question or one draft, and     *)
(* each consumed question was consumed by exactly one selection            *)
(* (clarification.service.ts:300, the claim of the still pending row).     *)
THEOREM ChainIsSingle == ClarSpec => []ChainMovesForward
<1>1. ClarInv /\ ChainMovesForward /\ [ClarNext]_clarVars => ChainMovesForward'
  BY ChainSteps, StaysForward, CommitForward, DeleteForward
<1>2. QED
  BY <1>1, InitClarInv, StepClarInv, InitForward, PTL DEF ClarSpec

(* A wallet the user chose stays chosen in every later question; a         *)
(* question that lost it stems from a request that gave it by id.          *)
THEOREM WalletStays == ClarSpec => []WalletIsNotForgotten
<1>1. ClarInit => WalletIsNotForgotten
  <2> SUFFICES ASSUME ClarInit PROVE WalletIsNotForgotten
    OBVIOUS
  <2>1. PICK r \in Requests, i \in {j \in TransactionInputs : CreateOutcome(j) = "asked"} :
          /\ question = [p \in Procs |-> IF p = r THEN NewQuestion(AskedQuestion(i), None)
                                         ELSE NoQuestion]
          /\ byId = (i.wallet = "id")
    BY DEF ClarInit
  <2>2. ASSUME NEW q \in Pending PROVE question[q] = NewQuestion(AskedQuestion(i), None)
    BY <2>1 DEF Pending, NoQuestion
  <2>3. ASSUME AskedQuestion(i).entity # "wallet", ~AskedQuestion(i).context.wallet PROVE byId
    BY <2>1, <2>3
       DEF AskedQuestion, AskedEntity, WalletStops, BuildCanonicalContext
  <2>4. QED
    BY <2>2, <2>3 DEF WalletIsNotForgotten, NewQuestion
<1>2. ClarInv /\ WalletIsNotForgotten /\ [ClarNext]_clarVars => WalletIsNotForgotten'
  <2> SUFFICES ASSUME ClarInv, WalletIsNotForgotten, [ClarNext]_clarVars, NEW p \in Pending',
                      question'[p].entity # "wallet", ~question'[p].context.wallet
               PROVE  byId'
    BY DEF WalletIsNotForgotten
  <2>1. p \in Procs /\ question'[p].status = "PENDING"
    BY DEF Pending
  <2>2. CASE ChainStays
    BY <2>1, <2>2 DEF ChainStays, WalletIsNotForgotten, Pending
  <2>3. CASE DeleteQuestions
    BY <2>1, <2>3, DeleteKeeps DEF Exists
  <2>4. ASSUME NEW s \in Selects, NEW q \in Procs, NEW next, CommitOn(s, q, next),
               UNCHANGED byId
        PROVE  byId'
    <3>1. /\ \A x \in Procs \ {q, s} : question'[x] = question[x]
          /\ question'[q].status = "CONSUMED"
          /\ next.kind # "child" => question'[s] = question[s]
          /\ next.kind = "child" => /\ question'[s].context.wallet \/ ~question[q].context.wallet
                                    /\ question[q].entity = "wallet"
                                         => question'[s].context.wallet
      BY <2>4, CommitWrites
    <3>2. question[q].status = "PENDING"
      BY <2>4 DEF CommitOn
    <3>3. CASE p = s /\ next.kind = "child"
      BY <2>4, <3>1, <3>2, <3>3 DEF WalletIsNotForgotten, Pending
    <3>4. CASE ~(p = s /\ next.kind = "child")
      BY <2>1, <2>4, <3>1, <3>4 DEF WalletIsNotForgotten, Pending
    <3>5. QED
      BY <3>3, <3>4
  <2>5. QED
    BY <2>2, <2>3, <2>4, ChainSteps
<1>3. QED
  BY <1>1, <1>2, InitClarInv, StepClarInv, PTL DEF ClarSpec

-----------------------------------------------------------------------------
(***************************************************************************)
(* Plans: PlanSpec                                                         *)
(***************************************************************************)

(* A set of numbers that is not empty has a least one: the intervals below *)
(* its members have a smallest one.                                        *)
LEMMA LeastExists ==
  ASSUME NEW S \in SUBSET Nat, S # {}
  PROVE  \E x \in S : \A y \in S : x <= y
<1>1. PICK n \in S : n \in Nat
  OBVIOUS
<1> DEFINE Below == {0..k : k \in {m \in S : m <= n}}
<1>2. IsWellFoundedOn(StrictSubsetOrdering(0..n), SUBSET (0..n))
  <2>1. IsFiniteSet(0..n)
    BY <1>1, FS_Interval
  <2>2. FiniteSubsetsOf(0..n) = SUBSET (0..n)
    BY <2>1, FS_FiniteSubsetsOfFinite
  <2>3. QED
    BY <2>2, FS_StrictSubsetOrderingWellFounded
<1>3. Below \subseteq SUBSET (0..n) /\ 0..n \in Below
  BY <1>1
<1>4. PICK s \in Below : \A u \in Below : <<u, s>> \notin StrictSubsetOrdering(0..n)
  <2> HIDE DEF Below
  <2>1. QED
    BY <1>2, <1>3, WFMin
<1>5. PICK x \in S : x \in Nat /\ x <= n /\ s = 0..x
  BY <1>4
<1>6. ASSUME NEW y \in S, ~(x <= y) PROVE FALSE
  <2>1. y \in Nat /\ y < x /\ y <= n
    BY <1>1, <1>5, <1>6
  <2>2. 0..y \in Below /\ 0..y \subseteq 0..x /\ 0..y # 0..x
    BY <1>5, <2>1
  <2>3. 0..y \in SUBSET (0..n) /\ 0..x \in SUBSET (0..n)
    BY <1>1, <1>5, <2>1
  <2>4. <<0..y, s>> \in StrictSubsetOrdering(0..n)
    BY <1>5, <2>2, <2>3 DEF StrictSubsetOrdering
  <2>5. QED
    BY <1>4, <2>2, <2>4
<1>7. QED
  BY <1>6

LEMMA MinIsLeast ==
  ASSUME NEW S \in SUBSET Nat, S # {}
  PROVE  Min(S) \in S /\ \A n \in S : Min(S) <= n
  BY LeastExists DEF Min

-----------------------------------------------------------------------------
Registered(c) == [t \in {Create, Summary} |->
                    IF t = Create THEN c
                    ELSE [risk |-> "LOW", confirmation |-> "NONE", enabled |-> TRUE]]

Planned == /\ proposal \in Proposals
           /\ \E c \in Contracts : Registrable(c) /\ tools = Registered(c)

PlanInv == proposal = NoProposal \/ Planned

LEMMA PlanInvHolds == PlanSpec => []PlanInv
<1>1. PlanInit => PlanInv
  BY DEF PlanInit, PlanInv
<1>2. PlanInv /\ [Propose]_planVars => PlanInv'
  BY DEF PlanInv, Planned, Propose, planVars, Registered
<1>3. QED
  BY <1>1, <1>2, PTL DEF PlanSpec

(* The tools, as they were registered. *)
LEMMA ToolsStand ==
  ASSUME Planned
  PROVE  /\ DOMAIN tools = {Create, Summary}
         /\ tools[Create].risk \in {"LOW", "MEDIUM", "HIGH", "VERY_HIGH"}
         /\ tools[Create].confirmation \in {"NONE", "EXPLICIT", "STEP_UP", "DISABLED"}
         /\ tools[Create].enabled \in BOOLEAN
         /\ Registrable(tools[Create])
         /\ tools[Summary].risk = "LOW" /\ tools[Summary].confirmation = "NONE"
         /\ tools[Summary].enabled = TRUE
<1>1. PICK c \in Contracts : Registrable(c) /\ tools = Registered(c)
  BY DEF Planned
<1>2. tools[Create] = c /\ DOMAIN tools = {Create, Summary}
  BY <1>1 DEF Registered
<1>3. tools[Summary] = [risk |-> "LOW", confirmation |-> "NONE", enabled |-> TRUE]
  BY <1>1 DEF Registered, Create, Summary
<1>4. QED
  BY <1>1, <1>2, <1>3 DEF Contracts

(* What the recovery leaves of an answer, and what it adds.                *)
LEMMA RecoveredFields ==
  ASSUME NEW p \in Proposals, NEW message
  PROVE  LET r == Recovered(p, message)
         IN /\ r.malformed = p.malformed /\ r.kind = p.kind /\ r.intent = p.intent
            /\ r.question = p.question
            /\ p.kind # "intent" \/ p.intent # Create => r.arguments = p.arguments
            /\ \A key : key \notin {"amount", "type"} =>
                 /\ key \in DOMAIN r.arguments <=> key \in DOMAIN p.arguments
                 /\ key \in DOMAIN p.arguments => r.arguments[key] = p.arguments[key]
            /\ p.kind = "intent" /\ p.intent = Create =>
                 \A key \in {"amount", "type"} :
                   /\ Get(p.arguments, key) # Null =>
                        /\ key \in DOMAIN r.arguments /\ key \in DOMAIN p.arguments
                        /\ r.arguments[key] = p.arguments[key]
                   /\ Get(p.arguments, key) = Null /\ WordFor(message, key) = ""
                        => Get(r.arguments, key) = Null
                   /\ Get(p.arguments, key) = Null /\ WordFor(message, key) # "" =>
                        key \in DOMAIN r.arguments
                        /\ r.arguments[key] = Text(WordFor(message, key))
<1> DEFINE found == {key \in {"amount", "type"} :
                       Get(p.arguments, key) = Null /\ WordFor(message, key) # ""}
           r == Recovered(p, message)
           filled == [key \in DOMAIN p.arguments \cup found |->
                        IF key \in found THEN Text(WordFor(message, key)) ELSE p.arguments[key]]
<1>1. DOMAIN p = {"malformed", "kind", "intent", "arguments", "question"}
  BY PlanAssumption
<1>2. CASE p.kind # "intent" \/ p.intent # Create
  <2>1. r = p
    BY <1>2 DEF Recovered
  <2>2. QED
    BY <1>2, <2>1
<1>3. CASE p.kind = "intent" /\ p.intent = Create
  <2>1. r = [p EXCEPT !.arguments = filled]
    BY <1>3 DEF Recovered, Filled
  <2>2. /\ r.malformed = p.malformed /\ r.kind = p.kind /\ r.intent = p.intent
        /\ r.question = p.question /\ r.arguments = filled
    BY <1>1, <2>1
  <2>3. ASSUME NEW key, key \notin {"amount", "type"}
        PROVE  /\ key \in DOMAIN filled <=> key \in DOMAIN p.arguments
               /\ key \in DOMAIN p.arguments => filled[key] = p.arguments[key]
    BY <2>3
  <2>4. ASSUME NEW key \in {"amount", "type"}
        PROVE  /\ Get(p.arguments, key) # Null =>
                    /\ key \in DOMAIN filled /\ key \in DOMAIN p.arguments
                    /\ filled[key] = p.arguments[key]
               /\ Get(p.arguments, key) = Null /\ WordFor(message, key) = ""
                    => Get(filled, key) = Null
               /\ Get(p.arguments, key) = Null /\ WordFor(message, key) # "" =>
                    key \in DOMAIN filled /\ filled[key] = Text(WordFor(message, key))
    BY DEF Get
  <2> HIDE DEF r, filled, found
  <2>5. QED
    BY <1>3, <2>2, <2>3, <2>4 DEF r
<1>4. QED
  BY <1>2, <1>3

(* What is recovered is in the arguments. *)
LEMMA RecoveredHead ==
  ASSUME NEW p \in Proposals, NEW message
  PROVE  LET r == Recovered(p, message)
         IN /\ r.malformed = p.malformed /\ r.kind = p.kind /\ r.intent = p.intent
            /\ r.question = p.question
            /\ p.malformed \in BOOLEAN /\ p.kind \in {"intent", "clarification", "unsupported"}
<1>1. p.malformed \in BOOLEAN /\ p.kind \in {"intent", "clarification", "unsupported"}
  BY PlanAssumption
<1> DEFINE r == Recovered(p, message)
<1>2. r.malformed = p.malformed /\ r.kind = p.kind /\ r.intent = p.intent /\ r.question = p.question
  BY RecoveredFields
<1> HIDE DEF r
<1>3. QED
  BY <1>1, <1>2 DEF r

LEMMA NullIsNoText ==
  /\ Null # Blank /\ Null.is = "null" /\ Blank.is = "blank"
  /\ \A w : Text(w).is = "text" /\ Text(w).of = w /\ Text(w) # Null /\ Text(w) # Blank
<1>1. /\ Null.is = "null" /\ Blank.is = "blank"
      /\ \A w : Text(w).is = "text" /\ Text(w).of = w
  BY DEF Null, Blank, Text
<1>2. QED
  BY <1>1

(* The same for one field: kept if it was there, else the message's word.  *)
LEMMA RecoveredField ==
  ASSUME NEW p \in Proposals, p.kind = "intent", p.intent = Create, NEW message,
         NEW key \in {"amount", "type"}
  PROVE  Get(Recovered(p, message).arguments, key)
           = IF Get(p.arguments, key) = Null /\ WordFor(message, key) # ""
               THEN Text(WordFor(message, key)) ELSE Get(p.arguments, key)
<1> DEFINE r == Recovered(p, message)
           w == WordFor(message, key)
<1>1. /\ Get(p.arguments, key) # Null =>
           /\ key \in DOMAIN r.arguments /\ key \in DOMAIN p.arguments
           /\ r.arguments[key] = p.arguments[key]
      /\ Get(p.arguments, key) = Null /\ w = "" => Get(r.arguments, key) = Null
      /\ Get(p.arguments, key) = Null /\ w # "" =>
           key \in DOMAIN r.arguments /\ r.arguments[key] = Text(w)
  BY RecoveredFields
<1> HIDE DEF r, w
<1>2. CASE Get(p.arguments, key) # Null
  <2>1. /\ key \in DOMAIN r.arguments /\ key \in DOMAIN p.arguments
        /\ r.arguments[key] = p.arguments[key]
    BY <1>1, <1>2
  <2>2. Get(r.arguments, key) = Get(p.arguments, key)
    BY <2>1 DEF Get
  <2>3. QED
    BY <1>2, <2>2 DEF r
<1>3. CASE Get(p.arguments, key) = Null /\ w = ""
  <2>1. Get(r.arguments, key) = Get(p.arguments, key)
    BY <1>1, <1>3
  <2>2. QED
    BY <1>3, <2>1 DEF r, w
<1>4. CASE Get(p.arguments, key) = Null /\ w # ""
  <2>1. key \in DOMAIN r.arguments /\ r.arguments[key] = Text(w)
    BY <1>1, <1>4
  <2>2. Get(r.arguments, key) = Text(w)
    BY <2>1 DEF Get
  <2>3. QED
    BY <1>4, <2>2 DEF r, w
<1>5. QED
  BY <1>2, <1>3, <1>4

LEMMA NormalizedFields ==
  ASSUME NEW a
  PROVE  LET n == Normalized(a)
         IN /\ \A key : key \in DOMAIN n <=>
                 key \in DOMAIN a /\ (a[key] # Null \/ key \notin Optional(Create) \cup {"categoryId"})
            /\ \A key \in DOMAIN n : n[key].of = a[key].of /\ (key # "amount" => n[key] = a[key])
            /\ \A key \in DOMAIN n : a[key].is = "text" => n[key] = a[key]
            /\ Get(n, "amount") \in {Null, Blank} <=> Get(a, "amount") \in {Null, Blank}
<1> DEFINE n == Normalized(a)
           kept == {k \in DOMAIN a : a[k] # Null \/ k \notin Optional(Create) \cup {"categoryId"}}
<1>1. /\ DOMAIN n = kept
      /\ \A key \in kept : n[key] = IF key = "amount" /\ a[key].is \in {"number", "shorthand"}
                                      THEN Text(a[key].of) ELSE a[key]
  BY DEF Normalized
<1>2. \A key : key \in kept <=>
        key \in DOMAIN a /\ (a[key] # Null \/ key \notin Optional(Create) \cup {"categoryId"})
  OBVIOUS
<1> HIDE DEF n, kept
<1>3. \A key \in kept : /\ n[key].of = a[key].of
                        /\ key # "amount" => n[key] = a[key]
                        /\ a[key].is = "text" => n[key] = a[key]
  BY <1>1 DEF Text
<1>4. "amount" \in DOMAIN a <=> "amount" \in DOMAIN n
  BY <1>1, <1>2 DEF Optional, Create
<1>5. Get(n, "amount") \in {Null, Blank} <=> Get(a, "amount") \in {Null, Blank}
  <2>1. CASE "amount" \notin DOMAIN a
    BY <1>4, <2>1 DEF Get
  <2>2. CASE "amount" \in DOMAIN a /\ a["amount"].is \in {"number", "shorthand"}
    <3>1. n["amount"] = Text(a["amount"].of)
      BY <1>1, <1>4, <2>2
    <3>2. n["amount"] \notin {Null, Blank} /\ a["amount"] \notin {Null, Blank}
      <4>1. Null.is = "null" /\ Blank.is = "blank" /\ n["amount"].is = "text"
        BY <3>1 DEF Text, Null, Blank
      <4>2. QED
        BY <2>2, <4>1
    <3>3. QED
      BY <1>4, <2>2, <3>2 DEF Get
  <2>3. CASE "amount" \in DOMAIN a /\ a["amount"].is \notin {"number", "shorthand"}
    BY <1>1, <1>4, <2>3 DEF Get
  <2>4. QED
    BY <2>1, <2>2, <2>3
<1>6. QED
  BY <1>1, <1>2, <1>3, <1>5 DEF n

(* An answer becomes an intent, or a question about one, in one place.     *)
LEMMA IntentsAreValidated ==
  ASSUME NEW r, r.malformed \in BOOLEAN, r.kind \in {"intent", "clarification", "unsupported"},
         Plan(r).kind = "intent" \/ (r.kind = "intent" /\ Plan(r).kind = "clarification")
  PROVE  /\ ~r.malformed /\ r.kind = "intent" /\ r.question = "null"
         /\ r.intent \in DOMAIN tools /\ tools[r.intent].enabled
         /\ Plan(r) = ValidIntent(r, tools[r.intent])
<1>1. ~r.malformed
  BY DEF Plan, Invalid
<1>2. r.kind = "intent"
  <2>1. CASE r.kind = "clarification"
    BY <1>1, <2>1 DEF Plan, Invalid, Ask
  <2>2. CASE r.kind = "unsupported"
    BY <1>1, <2>2 DEF Plan, Invalid
  <2>3. QED
    BY <2>1, <2>2
<1>3. ~(r.question # "null" \/ r.intent \notin DOMAIN tools \/ ~tools[r.intent].enabled)
  <2>1. SUFFICES ASSUME r.question # "null" \/ r.intent \notin DOMAIN tools
                        \/ ~tools[r.intent].enabled
                 PROVE  FALSE
    OBVIOUS
  <2>2. Plan(r) = Invalid
    BY <1>1, <1>2, <2>1 DEF Plan
  <2>3. QED
    BY <2>2 DEF Invalid
<1>4. Plan(r) = ValidIntent(r, tools[r.intent])
  BY <1>1, <1>2, <1>3 DEF Plan
<1>5. QED
  BY <1>1, <1>2, <1>3, <1>4

Arguments(r) == IF r.intent = Create THEN Normalized(r.arguments) ELSE r.arguments

LEMMA ValidIntentCases ==
  ASSUME NEW r, NEW c, NEW v, v = ValidIntent(r, c)
  PROVE  LET n == Arguments(r)
             missing == MissingKeys(r.intent, n)
         IN /\ v.kind = "intent" =>
                 /\ v.intent = r.intent /\ v.arguments = n /\ v.action = Policy(c)
                 /\ DOMAIN n \subseteq Offered(r.intent) /\ missing = {}
                 /\ r.intent = Create => Get(r.arguments, "amount") # Null
                 /\ Policy(c) \in {"EXECUTE_IMMEDIATELY", "DRAFT_AND_CONFIRM"}
            /\ v.kind = "clarification" =>
                 \/ /\ v.question = "amount" /\ r.intent = Create
                    /\ Get(r.arguments, "amount") = Null
                 \/ missing # {} /\ v.question = Required(r.intent)[Min(missing)]
            /\ /\ r.intent = Create /\ Get(r.arguments, "amount") # Null
               /\ Get(r.arguments, "amount").is # "number"
               /\ DOMAIN n \subseteq Offered(r.intent) /\ missing = {}
               /\ ValidInput(r.intent, n)
               /\ Policy(c) \in {"EXECUTE_IMMEDIATELY", "DRAFT_AND_CONFIRM"}
               => v.kind = "intent"
<1> DEFINE n == Arguments(r)
           missing == MissingKeys(r.intent, n)
           amount == Get(r.arguments, "amount")
           create == r.intent = Create
<1>1. v = IF create /\ amount = Null THEN Ask("amount")
          ELSE IF (create /\ amount.is = "number" /\ amount.of \notin Sums)
                  \/ ~(DOMAIN n \subseteq Offered(r.intent)) THEN Invalid
          ELSE IF missing # {} THEN Ask(Required(r.intent)[Min(missing)])
          ELSE IF ~ValidInput(r.intent, n)
                  \/ Policy(c) \notin {"EXECUTE_IMMEDIATELY", "DRAFT_AND_CONFIRM"} THEN Invalid
          ELSE [kind |-> "intent", intent |-> r.intent, arguments |-> n, action |-> Policy(c)]
  BY DEF ValidIntent, Arguments
<1> HIDE DEF n, missing, amount
<1>2. /\ \A q : Ask(q).kind = "clarification" /\ Ask(q).question = q
      /\ Invalid.kind = "invalid"
  BY DEF Ask, Invalid
<1>3. CASE create /\ amount = Null
  <2>1. v = Ask("amount")
    BY <1>1, <1>3
  <2>2. v.kind = "clarification" /\ v.question = "amount"
    BY <1>2, <2>1
  <2>3. QED
    BY <1>3, <2>2 DEF amount
<1>4. CASE ~(create /\ amount = Null) /\ missing # {}
  <2>1. v = Invalid \/ v = Ask(Required(r.intent)[Min(missing)])
    BY <1>1, <1>4
  <2>2. QED
    BY <1>2, <1>4, <2>1 DEF missing, n
<1>5. CASE ~(create /\ amount = Null) /\ missing = {}
  <2>1. CASE \/ (create /\ amount.is = "number" /\ amount.of \notin Sums)
             \/ ~(DOMAIN n \subseteq Offered(r.intent))
             \/ ~ValidInput(r.intent, n)
             \/ Policy(c) \notin {"EXECUTE_IMMEDIATELY", "DRAFT_AND_CONFIRM"}
    <3>1. v = Invalid
      BY <1>1, <1>5, <2>1
    <3>2. v.kind = "invalid"
      BY <1>2, <3>1
    <3>3. QED
      BY <1>5, <2>1, <3>2 DEF amount, n, missing
  <2>2. CASE ~(\/ (create /\ amount.is = "number" /\ amount.of \notin Sums)
               \/ ~(DOMAIN n \subseteq Offered(r.intent))
               \/ ~ValidInput(r.intent, n)
               \/ Policy(c) \notin {"EXECUTE_IMMEDIATELY", "DRAFT_AND_CONFIRM"})
    <3>1. v = [kind |-> "intent", intent |-> r.intent, arguments |-> n, action |-> Policy(c)]
      BY <1>1, <1>5, <2>2
    <3>2. QED
      BY <1>5, <2>2, <3>1 DEF amount, n, missing
  <2>3. QED
    BY <2>1, <2>2
<1>6. QED
  BY <1>3, <1>4, <1>5

LEMMA NothingAdded ==
  ASSUME NEW p \in Proposals, Planned, proposal = p
  PROVE  NothingIsInvented
<1> DEFINE r == Recovered(p, heard)
           n == Arguments(r)
           plan == Plan(r)
<1>1. SUFFICES ASSUME plan.kind = "intent"
               PROVE  /\ DOMAIN plan.arguments \cap {"walletId", "categoryId", "merchantReference"} = {}
                      /\ plan.intent = Create =>
                           /\ plan.arguments["amount"].of =
                                (IF Get(p.arguments, "amount") = Null THEN SingleAmount(heard)
                                 ELSE p.arguments["amount"].of)
                           /\ plan.arguments["type"].of =
                                (IF Get(p.arguments, "type") = Null THEN SingleType(heard)
                                 ELSE p.arguments["type"].of)
  BY DEF NothingIsInvented
<1>2. /\ r.kind = p.kind /\ r.intent = p.intent /\ r.malformed = p.malformed
      /\ p.malformed \in BOOLEAN /\ p.kind \in {"intent", "clarification", "unsupported"}
  BY RecoveredHead
<1>3. /\ r.kind = "intent" /\ r.intent \in DOMAIN tools /\ plan = ValidIntent(r, tools[r.intent])
  BY <1>1, <1>2, IntentsAreValidated
<1>4. /\ plan.intent = r.intent /\ plan.arguments = n /\ DOMAIN n \subseteq Offered(r.intent)
      /\ MissingKeys(r.intent, n) = {}
      /\ r.intent = Create => Get(r.arguments, "amount") # Null
  BY <1>1, <1>3, ValidIntentCases
<1>5. r.intent \in {Create, Summary}
  BY <1>3, ToolsStand
<1>6. Offered(r.intent) \subseteq {"amount", "type", "walletReference", "categoryReference", "date",
                                   "description", "month"}
  BY <1>5 DEF Offered, Required, Optional, Create, Summary
<1>7. DOMAIN plan.arguments \cap {"walletId", "categoryId", "merchantReference"} = {}
  BY <1>4, <1>6
<1>8. ASSUME r.intent = Create, NEW key \in {"amount", "type"}
      PROVE  plan.arguments[key].of = (IF Get(p.arguments, key) = Null THEN WordFor(heard, key)
                                       ELSE p.arguments[key].of)
  <2>1. n = Normalized(r.arguments)
    BY <1>8 DEF Arguments
  <2>2. Get(n, key) \notin {Null, Blank}
    <3>1. /\ Required(Create)[1] = "amount" /\ Required(Create)[2] = "type"
          /\ 1 \in DOMAIN Required(Create) /\ 2 \in DOMAIN Required(Create)
      BY DEF Required
    <3>2. QED
      BY <1>4, <1>8, <3>1 DEF MissingKeys
  <2>3. key \in DOMAIN n
    BY <2>2 DEF Get
  <2>4. n[key].of = r.arguments[key].of /\ key \in DOMAIN r.arguments
    BY <2>1, <2>3, NormalizedFields
  <2>5. CASE Get(p.arguments, key) # Null
    <3>1. r.arguments[key] = p.arguments[key]
      BY <1>2, <1>3, <1>8, <2>5, RecoveredFields
    <3>2. QED
      BY <1>4, <2>4, <2>5, <3>1
  <2>6. CASE Get(p.arguments, key) = Null /\ WordFor(heard, key) # ""
    <3>1. r.arguments[key] = Text(WordFor(heard, key))
      BY <1>2, <1>3, <1>8, <2>6, RecoveredFields
    <3>2. r.arguments[key].of = WordFor(heard, key)
      BY <3>1 DEF Text
    <3>3. n[key].of = WordFor(heard, key)
      BY <2>4, <3>2
    <3>4. plan.arguments[key].of = WordFor(heard, key)
      BY <1>4, <3>3
    <3> HIDE DEF plan
    <3>5. QED
      BY <2>6, <3>4
  <2>7. CASE Get(p.arguments, key) = Null /\ WordFor(heard, key) = ""
    <3>1. Get(r.arguments, key) = Null
      BY <1>2, <1>3, <1>8, <2>7, RecoveredFields
    <3>2. key = "type" /\ r.arguments["type"] = Null
      BY <1>4, <1>8, <2>4, <3>1 DEF Get
    <3>3. n["type"] = r.arguments["type"]
      BY <2>1, <2>3, <3>2, NormalizedFields
    <3>4. QED
      BY <2>2, <2>3, <3>2, <3>3 DEF Get
  <2>8. QED
    BY <2>5, <2>6, <2>7
<1>9. WordFor(heard, "amount") = SingleAmount(heard) /\ WordFor(heard, "type") = SingleType(heard)
  BY DEF WordFor
<1>10. QED
  BY <1>4, <1>7, <1>8, <1>9

(* A key without a value after normalization had none that counts before.  *)
LEMMA MissingElsewhere ==
  ASSUME NEW p \in Proposals, p.kind = "intent", p.intent # Create, NEW message
  PROVE  Arguments(Recovered(p, message)) = p.arguments
<1>1. Recovered(p, message).intent = p.intent /\ Recovered(p, message).arguments = p.arguments
  BY RecoveredFields
<1>2. QED
  BY <1>1 DEF Arguments

LEMMA MissingIsUnsettled ==
  ASSUME NEW p \in Proposals, p.kind = "intent", p.intent = Create, NEW message,
         NEW key \in {"amount", "type", "walletReference"},
         Get(Arguments(Recovered(p, message)), key) \in {Null, Blank}
  PROVE  /\ Get(p.arguments, key) \in {Null, Blank}
         /\ Get(p.arguments, key) = Null /\ key # "walletReference" => WordFor(message, key) = ""
<1> DEFINE r == Recovered(p, message)
           n == Arguments(r)
<1>1. r.intent = p.intent
  BY RecoveredFields
<1>2. n = Normalized(r.arguments)
  BY <1>1 DEF Arguments
<1>3. Get(p.arguments, key) \in {Null, Blank}
      /\ (Get(p.arguments, key) = Null /\ key # "walletReference" => WordFor(message, key) = "")
  <2>1. Get(r.arguments, key) \in {Null, Blank}
    <3>1. CASE key = "amount"
      BY <1>2, <3>1, NormalizedFields
    <3>2. CASE key # "amount" /\ key \in DOMAIN n
      BY <1>2, <3>2, NormalizedFields DEF Get
    <3>3. CASE key # "amount" /\ key \notin DOMAIN n
      <4>1. key \notin Optional(Create) \cup {"categoryId"}
        BY DEF Optional, Create
      <4>2. key \notin DOMAIN r.arguments
        BY <1>2, <3>3, <4>1, NormalizedFields
      <4>3. QED
        BY <4>2 DEF Get
    <3>4. QED
      BY <3>1, <3>2, <3>3
  <2>2. CASE key \in {"amount", "type"}
    <3>1. Get(r.arguments, key) = IF Get(p.arguments, key) = Null /\ WordFor(message, key) # ""
                                    THEN Text(WordFor(message, key)) ELSE Get(p.arguments, key)
      BY <2>2, RecoveredField
    <3>2. QED
      BY <2>1, <3>1, NullIsNoText
  <2>3. CASE key = "walletReference"
    <3>1. /\ key \in DOMAIN r.arguments <=> key \in DOMAIN p.arguments
          /\ key \in DOMAIN p.arguments => r.arguments[key] = p.arguments[key]
      <4>1. key \notin {"amount", "type"}
        BY <2>3
      <4>2. QED
        BY <4>1, RecoveredFields
    <3> HIDE DEF r
    <3>2. Get(r.arguments, key) = Get(p.arguments, key)
      BY <3>1 DEF Get
    <3>3. QED
      BY <2>1, <2>3, <3>2
  <2>4. QED
    BY <2>2, <2>3
<1>4. QED
  BY <1>3

LEMMA QuestionsAreFair ==
  ASSUME NEW p \in Proposals, Planned, proposal = p
  PROVE  QuestionsAreNeeded
<1> DEFINE r == Recovered(p, heard)
           n == Arguments(r)
           plan == Plan(r)
           missing == MissingKeys(r.intent, n)
           unsettled(key, word) == \/ Get(p.arguments, key) = Blank
                                   \/ Get(p.arguments, key) = Null /\ word = ""
<1>1. SUFFICES ASSUME p.kind = "intent", plan.kind = "clarification"
               PROVE  /\ plan.question = "amount" => unsettled("amount", SingleAmount(heard))
                      /\ plan.question = "type" => /\ unsettled("type", SingleType(heard))
                                                   /\ ~unsettled("amount", SingleAmount(heard))
                      /\ plan.question \notin {"amount", "type"} => unsettled(plan.question, "")
  BY DEF QuestionsAreNeeded
<1>2. /\ r.kind = p.kind /\ r.intent = p.intent /\ r.malformed = p.malformed
      /\ p.malformed \in BOOLEAN
  BY RecoveredHead
<1>3. r.intent \in DOMAIN tools /\ plan = ValidIntent(r, tools[r.intent])
  BY <1>1, <1>2, IntentsAreValidated
<1>4. \/ plan.question = "amount" /\ p.intent = Create /\ Get(r.arguments, "amount") = Null
      \/ missing # {} /\ plan.question = Required(r.intent)[Min(missing)]
  BY <1>1, <1>2, <1>3, ValidIntentCases
<1>5. p.intent \in {Create, Summary}
  BY <1>2, <1>3, ToolsStand
<1>6. WordFor(heard, "amount") = SingleAmount(heard) /\ WordFor(heard, "type") = SingleType(heard)
  BY DEF WordFor
<1>7. CASE plan.question = "amount" /\ p.intent = Create /\ Get(r.arguments, "amount") = Null
  <2>1. Get(p.arguments, "amount") = Null /\ WordFor(heard, "amount") = ""
    BY <1>1, <1>7, RecoveredField, NullIsNoText
  <2>2. QED
    BY <1>6, <1>7, <2>1
<1>8. CASE missing # {} /\ plan.question = Required(r.intent)[Min(missing)]
  <2>1. DOMAIN Required(r.intent) \subseteq Nat /\ missing \subseteq DOMAIN Required(r.intent)
    BY DEF Required, MissingKeys
  <2>2. Min(missing) \in missing /\ \A i \in missing : Min(missing) <= i
    BY <1>8, <2>1, MinIsLeast
  <2>3. Get(n, plan.question) \in {Null, Blank}
    BY <1>8, <2>2 DEF MissingKeys
  <2>4. CASE p.intent = Summary
    <3>1. plan.question = "month"
      BY <1>2, <1>8, <2>1, <2>2, <2>4 DEF Required, Create, Summary
    <3>2. unsettled("month", "")
      <4>1. p.intent # Create
        BY <2>4 DEF Create, Summary
      <4>2. Get(p.arguments, "month") \in {Null, Blank}
        BY <1>1, <2>3, <3>1, <4>1, MissingElsewhere
      <4>3. QED
        BY <4>2
    <3>3. QED
      BY <3>1, <3>2
  <2>5. CASE p.intent = Create
    <3>1. Required(r.intent) = <<"amount", "type", "walletReference">>
      BY <1>2, <2>5 DEF Required
    <3>2. Min(missing) \in 1..3
      BY <2>1, <2>2, <3>1
    <3>3. plan.question \in {"amount", "type", "walletReference"}
      BY <1>8, <3>1, <3>2
    <3>4. \/ Get(p.arguments, plan.question) = Blank
          \/ Get(p.arguments, plan.question) = Null
             /\ (plan.question \in {"amount", "type"} => WordFor(heard, plan.question) = "")
      <4> DEFINE q == plan.question
      <4>1. Get(n, q) \in {Null, Blank} /\ q \in {"amount", "type", "walletReference"}
        BY <2>3, <3>3
      <4> HIDE DEF q
      <4>2. \/ Get(p.arguments, q) = Blank
            \/ Get(p.arguments, q) = Null
               /\ (q \in {"amount", "type"} => WordFor(heard, q) = "")
        BY <1>1, <2>5, <4>1, MissingIsUnsettled
      <4>3. QED
        BY <4>2 DEF q
    <3>5. CASE plan.question = "amount"
      BY <1>6, <3>4, <3>5
    <3>6. CASE plan.question = "walletReference"
      BY <3>4, <3>6
    <3>7. CASE plan.question = "type"
      <4>1. 1 \notin missing
        <5>1. Min(missing) # 1
          BY <1>8, <3>1, <3>7
        <5>2. QED
          BY <2>2, <3>2, <5>1
      <4>2. Get(n, "amount") \notin {Null, Blank}
        BY <3>1, <4>1 DEF MissingKeys
      <4>3. ~unsettled("amount", SingleAmount(heard))
        <5>1. SUFFICES ASSUME unsettled("amount", SingleAmount(heard)) PROVE FALSE
          OBVIOUS
        <5>2. Get(r.arguments, "amount") \in {Null, Blank}
          BY <1>1, <1>6, <2>5, <5>1, RecoveredField, NullIsNoText
        <5>3. n = Normalized(r.arguments)
          BY <1>2, <2>5 DEF Arguments
        <5>4. QED
          BY <4>2, <5>2, <5>3, NormalizedFields
      <4>4. unsettled("type", SingleType(heard))
        BY <1>6, <3>4, <3>7
      <4>5. QED
        BY <3>7, <4>3, <4>4
    <3>8. QED
      BY <3>3, <3>5, <3>6, <3>7
  <2>6. QED
    BY <1>5, <2>4, <2>5
<1>9. QED
  BY <1>4, <1>7, <1>8

LEMMA RisksAreConfirmed ==
  ASSUME NEW p \in Proposals, Planned, proposal = p
  PROVE  RiskIsConfirmed
<1> DEFINE r == Recovered(p, heard)
           n == Arguments(r)
           plan == Plan(r)
           sound(key) == Get(p.arguments, key).is = "text" /\ Get(p.arguments, key).of # "bad"
<1>1. /\ r.kind = p.kind /\ r.intent = p.intent /\ r.malformed = p.malformed
      /\ r.question = p.question
      /\ p.malformed \in BOOLEAN /\ p.kind \in {"intent", "clarification", "unsupported"}
  BY RecoveredHead
<1>2. ASSUME plan.kind = "intent"
      PROVE  IF Executable(tools[plan.intent]) THEN tools[plan.intent].risk = "LOW"
             ELSE plan.intent = Create /\ plan.action = "DRAFT_AND_CONFIRM"
  <2>1. r.intent \in DOMAIN tools /\ plan = ValidIntent(r, tools[r.intent])
    BY <1>1, <1>2, IntentsAreValidated
  <2>2. /\ plan.intent = r.intent /\ plan.action = Policy(tools[r.intent])
        /\ Policy(tools[r.intent]) \in {"EXECUTE_IMMEDIATELY", "DRAFT_AND_CONFIRM"}
    BY <1>2, <2>1, ValidIntentCases
  <2>3. r.intent = Create \/ r.intent = Summary
    BY <2>1, ToolsStand
  <2>4. Executable(tools[Summary])
    BY ToolsStand DEF Executable, Policy
  <2>5. Executable(tools[Create]) => tools[Create].risk = "LOW"
    BY ToolsStand DEF Executable, Policy, Registrable
  <2>6. tools[Summary].risk = "LOW"
    BY ToolsStand
  <2> HIDE DEF plan, r
  <2>7. QED
    BY <2>2, <2>3, <2>4, <2>5, <2>6 DEF Executable
<1>3. ASSUME /\ p.kind = "intent" /\ ~p.malformed /\ p.question = "null"
             /\ p.intent = Create /\ DOMAIN p.arguments \subseteq Offered(Create)
             /\ \A key \in DOMAIN p.arguments \cup {"amount", "type", "walletReference"} : sound(key)
             /\ p.arguments["amount"].of \in Sums
             /\ tools[Create].enabled /\ tools[Create].confirmation \in {"NONE", "EXPLICIT"}
      PROVE  plan.kind = "intent"
  <2>1. \A key \in DOMAIN p.arguments \cup {"amount", "type", "walletReference"} :
          key \in DOMAIN p.arguments /\ Get(p.arguments, key) = p.arguments[key]
    BY <1>3, NullIsNoText DEF Get
  <2>2. /\ \A key \in DOMAIN p.arguments : p.arguments[key].is = "text" /\ p.arguments[key].of # "bad"
        /\ {"amount", "type", "walletReference"} \subseteq DOMAIN p.arguments
    BY <1>3, <2>1
  <2>3. \A key \in {"amount", "type"} : Get(p.arguments, key) # Null
    BY <2>1, <2>2, NullIsNoText
  <2>4. ASSUME NEW key
        PROVE  /\ key \in DOMAIN r.arguments <=> key \in DOMAIN p.arguments
               /\ key \in DOMAIN p.arguments => r.arguments[key] = p.arguments[key]
    <3>1. CASE key \notin {"amount", "type"}
      BY <3>1, RecoveredFields
    <3>2. CASE key \in {"amount", "type"}
      <4>1. Get(p.arguments, key) # Null
        BY <2>3, <3>2
      <4>2. key \in DOMAIN r.arguments /\ r.arguments[key] = p.arguments[key]
        <5>1. Get(r.arguments, key) = Get(p.arguments, key)
          BY <1>3, <3>2, <4>1, RecoveredField
        <5>2. Get(p.arguments, key) = p.arguments[key]
          BY <2>1, <3>2
        <5>3. QED
          BY <4>1, <5>1, <5>2 DEF Get
      <4>3. QED
        BY <2>2, <3>2, <4>2
    <3>3. QED
      BY <3>1, <3>2
  <2>5. n = Normalized(r.arguments)
    BY <1>1, <1>3 DEF Arguments
  <2>6. ASSUME NEW key
        PROVE  /\ key \in DOMAIN n <=> key \in DOMAIN p.arguments
               /\ key \in DOMAIN p.arguments => n[key] = p.arguments[key]
    BY <2>2, <2>4, <2>5, NormalizedFields, NullIsNoText
  <2>7. Get(r.arguments, "amount") = p.arguments["amount"]
    BY <2>2, <2>4 DEF Get
  <2>8. Get(r.arguments, "amount") # Null /\ Get(r.arguments, "amount").is # "number"
    BY <2>2, <2>7, NullIsNoText
  <2>9. DOMAIN n \subseteq Offered(r.intent)
    BY <1>1, <1>3, <2>6
  <2>10. MissingKeys(r.intent, n) = {}
    <3>1. Required(r.intent) = <<"amount", "type", "walletReference">>
      BY <1>1, <1>3 DEF Required
    <3>2. \A i \in DOMAIN Required(r.intent) :
            Required(r.intent)[i] \in {"amount", "type", "walletReference"}
      BY <3>1
    <3>3. \A key \in {"amount", "type", "walletReference"} : Get(n, key) \notin {Null, Blank}
      <4>1. ASSUME NEW key \in {"amount", "type", "walletReference"}
            PROVE  Get(n, key) \notin {Null, Blank}
        <5>1. Get(n, key) = p.arguments[key] /\ p.arguments[key].is = "text"
          BY <2>2, <2>6 DEF Get
        <5>2. QED
          BY <5>1, NullIsNoText
      <4>2. QED
        BY <4>1
    <3>4. QED
      BY <3>2, <3>3 DEF MissingKeys
  <2>11. ValidInput(r.intent, n)
    <3>1. p.arguments["type"].of \in {"INCOME", "EXPENSE"}
      BY <2>2, PlanAssumption
    <3>2. n["type"].of \in {"INCOME", "EXPENSE"} /\ n["amount"].of \in Sums
      BY <1>3, <2>2, <2>6, <3>1
    <3>3. \A key \in DOMAIN n : n[key].is = "text" /\ n[key].of # "bad"
      BY <2>2, <2>6
    <3> HIDE DEF n, r
    <3>4. QED
      BY <3>2, <3>3 DEF ValidInput
  <2>12. Policy(tools[Create]) \in {"EXECUTE_IMMEDIATELY", "DRAFT_AND_CONFIRM"}
    BY <1>3, ToolsStand DEF Policy, Registrable
  <2>13. Plan(r) = ValidIntent(r, tools[r.intent])
    BY <1>1, <1>3, ToolsStand DEF Plan
  <2>14. QED
    BY <1>1, <1>3, <2>8, <2>9, <2>10, <2>11, <2>12, <2>13, ValidIntentCases
<1>4. QED
  BY <1>2, <1>3 DEF RiskIsConfirmed

-----------------------------------------------------------------------------
(***************************************************************************)
(* The context of the model: ContextSpec                                   *)
(***************************************************************************)

(* A function of the subsets of S that is found by removing chosen members *)
(* one at a time until the set is done.                                    *)
Unwinds(S, done, base, pick, g) ==
  g = [s \in SUBSET S |-> IF s \in done THEN base[s] ELSE g[s \ {pick[s]}]]

LEMMA UnwindingsAgree ==
  ASSUME NEW S, NEW U \in SUBSET S, IsFiniteSet(S), NEW done, NEW base, NEW pick, NEW g, NEW h,
         \A s \in SUBSET S : s \notin done => pick[s] \in s,
         Unwinds(S, done, base, pick, g), Unwinds(U, done, base, pick, h)
  PROVE  \A s \in SUBSET U : g[s] = h[s]
<1> DEFINE T == {s \in SUBSET U : g[s] = h[s]}
<1>1. IsFiniteSet(U)
  BY FS_Subset
<1>2. ASSUME NEW s \in SUBSET U, \A u \in SUBSET s : u # s => u \in T PROVE s \in T
  <2>1. CASE s \in done
    BY <2>1 DEF Unwinds
  <2>2. CASE s \notin done
    <3>1. pick[s] \in s
      BY <2>2
    <3>2. g[s \ {pick[s]}] = h[s \ {pick[s]}]
      BY <1>2, <3>1
    <3>3. g[s] = g[s \ {pick[s]}] /\ h[s] = h[s \ {pick[s]}]
      BY <2>2 DEF Unwinds
    <3>4. QED
      BY <3>2, <3>3
  <2>3. QED
    BY <2>1, <2>2
<1> HIDE DEF T
<1>3. SUBSET U \subseteq T
  BY <1>1, <1>2, SubsetInduction
<1>4. QED
  BY <1>3 DEF T

LEMMA UnwindingsExist ==
  ASSUME NEW S, IsFiniteSet(S), NEW done, NEW base, NEW pick,
         \A s \in SUBSET S : s \notin done => pick[s] \in s
  PROVE  \E g : Unwinds(S, done, base, pick, g)
<1> DEFINE Un(s, g) == Unwinds(s, done, base, pick, g)
           T == {s \in SUBSET S : \E g : Un(s, g)}
<1>1. ASSUME NEW s \in SUBSET S, \A u \in SUBSET s : u # s => u \in T PROVE s \in T
  <2> DEFINE V(u) == (CHOOSE g : Un(u, g))[u]
             h == [u \in SUBSET s |-> IF u \in done THEN base[u] ELSE V(u \ {pick[u]})]
  <2>1. ASSUME NEW u \in SUBSET s, u # s PROVE V(u) = h[u]
    <3>1. PICK g : Un(u, g) /\ g = CHOOSE k : Un(u, k)
      BY <1>1, <2>1
    <3>2. CASE u \in done
      BY <3>1, <3>2 DEF Unwinds
    <3>3. CASE u \notin done
      <4> DEFINE v == u \ {pick[u]}
      <4>1. pick[u] \in u
        BY <3>3
      <4>2. v \in SUBSET u /\ v \in SUBSET s /\ v # s
        BY <2>1, <4>1
      <4>3. PICK k : Un(v, k) /\ k = CHOOSE l : Un(v, l)
        BY <1>1, <4>2
      <4>4. g[v] = k[v]
        <5>1. IsFiniteSet(u) /\ \A x \in SUBSET u : x \notin done => pick[x] \in x
          BY FS_Subset
        <5> HIDE DEF v
        <5>2. QED
          BY <3>1, <4>2, <4>3, <5>1, UnwindingsAgree
      <4>5. V(u) = g[v]
        BY <3>1, <3>3 DEF Unwinds
      <4>6. V(v) = k[v]
        BY <4>3
      <4>7. h[u] = V(v)
        BY <3>3
      <4>8. QED
        BY <4>4, <4>5, <4>6, <4>7
    <3>4. QED
      BY <3>2, <3>3
  <2>2. ASSUME NEW u \in SUBSET s, u \notin done
        PROVE  V(u \ {pick[u]}) = h[u \ {pick[u]}]
    <3>1. pick[u] \in u
      BY <2>2
    <3>2. u \ {pick[u]} \in SUBSET s /\ u \ {pick[u]} # s
      BY <3>1
    <3>3. QED
      BY <2>1, <3>2
  <2>3. h = [u \in SUBSET s |-> IF u \in done THEN base[u] ELSE h[u \ {pick[u]}]]
    <3>1. ASSUME NEW u \in SUBSET s
          PROVE  h[u] = IF u \in done THEN base[u] ELSE h[u \ {pick[u]}]
      <4>1. h[u] = IF u \in done THEN base[u] ELSE V(u \ {pick[u]})
        OBVIOUS
      <4>2. u \notin done => V(u \ {pick[u]}) = h[u \ {pick[u]}]
        BY <2>2
      <4> HIDE DEF h, V
      <4>3. QED
        BY <4>1, <4>2
    <3>2. h = [u \in SUBSET s |-> h[u]]
      OBVIOUS
    <3> HIDE DEF h
    <3>3. QED
      BY <3>1, <3>2
  <2> HIDE DEF h
  <2>4. Un(s, h)
    BY <2>3 DEF Unwinds
  <2>5. QED
    BY <2>4
<1> HIDE DEF T, Un
<1>2. SUBSET S \subseteq T
  BY <1>1, SubsetInduction
<1>3. QED
  BY <1>2 DEF T, Un
-----------------------------------------------------------------------------
EventType == [is : {"USER", "ASSISTANT", "TOOL"}, turn : Nat, size : Sizes]
ContextInv == history \in Seq(EventType)

LEMMA EventsAreFinite ==
  ASSUME ContextInv
  PROVE  /\ Events = 1..Len(history) /\ Len(history) \in Nat /\ Events \subseteq Nat
         /\ \A S \in SUBSET Events : IsFiniteSet(S) /\ Cardinality(S) \in Nat
         /\ \A i \in Events : history[i].turn \in Nat /\ history[i].size \in Nat
<1>1. Events = 1..Len(history) /\ Len(history) \in Nat
  BY DEF ContextInv, Events
<1>2. IsFiniteSet(Events)
  BY <1>1, FS_Interval
<1>3. \A S \in SUBSET Events : IsFiniteSet(S) /\ Cardinality(S) \in Nat
  BY <1>2, FS_Subset, FS_CardinalityType
<1>4. \A i \in Events : history[i] \in EventType
  BY DEF ContextInv, Events
<1>5. \A i \in Events : history[i].turn \in Nat /\ history[i].size \in Nat
  <2>1. Sizes \subseteq Nat
    BY ContextAssumption
  <2>2. QED
    BY <1>4, <2>1 DEF EventType
<1>6. Events \subseteq Nat
  BY <1>1
<1>7. QED
  BY <1>1, <1>3, <1>5, <1>6

(* There are no more turns than messages. *)
LEMMA TurnsAreFinite ==
  ASSUME NEW S, IsFiniteSet(S)
  PROVE  IsFiniteSet(TurnsOf(S)) /\ Cardinality(TurnsOf(S)) <= Cardinality(S)
<1> DEFINE f == [i \in S |-> TurnOf(i)]
<1>1. f \in Surjection(S, TurnsOf(S))
  BY DEF Surjection, TurnsOf
<1> HIDE DEF f
<1>2. QED
  BY <1>1, FS_Surjection

(* A bounded set of numbers that is not empty has a greatest one.          *)
LEMMA GreatestExists ==
  ASSUME NEW n \in Nat, NEW S \in SUBSET (1..n), S # {}
  PROVE  Max(S) \in S /\ \A i \in S : Max(S) >= i
<1> DEFINE Depths == {n - i : i \in S}
<1>1. Depths \in SUBSET Nat /\ Depths # {}
  <2>1. \A i \in S : n - i \in Nat
    OBVIOUS
  <2>2. QED
    BY <2>1
<1> HIDE DEF Depths
<1>2. PICK d \in Depths : \A e \in Depths : d <= e
  BY <1>1, LeastExists
<1>3. PICK x \in S : d = n - x
  BY DEF Depths
<1>4. \A y \in S : x >= y
  <2> TAKE y \in S
  <2>1. n - y \in Depths
    BY DEF Depths
  <2>2. n - x <= n - y
    BY <1>2, <1>3, <2>1
  <2>3. x \in 1..n /\ y \in 1..n
    OBVIOUS
  <2>4. QED
    BY <2>2, <2>3
<1>5. QED
  BY <1>4 DEF Max

LEMMA NewestAreFew ==
  ASSUME NEW S \in SUBSET Nat, IsFiniteSet(S), NEW n \in Nat
  PROVE  Cardinality(NewestOf(S, n)) <= n
<1> DEFINE N == NewestOf(S, n)
<1>1. N \subseteq S /\ IsFiniteSet(N) /\ Cardinality(N) \in Nat
  BY FS_Subset, FS_CardinalityType DEF NewestOf
<1>2. CASE N = {}
  BY <1>2, FS_EmptySet
<1>3. CASE N # {}
  <2>1. PICK i \in N : \A j \in N : i <= j
    <3>1. N \in SUBSET Nat
      BY <1>1
    <3> HIDE DEF N
    <3>2. QED
      BY <1>3, <3>1, LeastExists
  <2> DEFINE Later == {j \in S : j > i}
  <2>2. IsFiniteSet(Later) /\ Cardinality(Later) \in Nat
    BY FS_Subset, FS_CardinalityType
  <2>3. Cardinality(Later) < n
    BY DEF NewestOf
  <2>4. N \ {i} \in SUBSET Later
    <3>1. ASSUME NEW j \in N, j # i PROVE j \in S /\ j > i
      <4>1. i \in Nat /\ j \in Nat /\ j \in S
        BY <1>1
      <4>2. i <= j
        BY <2>1
      <4> HIDE DEF N
      <4>3. QED
        BY <3>1, <4>1, <4>2
    <3> HIDE DEF N
    <3>2. QED
      BY <3>1
  <2> HIDE DEF N, Later
  <2>5. Cardinality(N \ {i}) <= Cardinality(Later)
    BY <2>2, <2>4, FS_Subset
  <2>6. Cardinality(N \ {i}) = Cardinality(N) - 1
    BY <1>1, FS_RemoveElement
  <2>7. QED
    BY <1>1, <2>2, <2>3, <2>5, <2>6 DEF N
<1>4. QED
  BY <1>2, <1>3

LEMMA ContextInvHolds == ContextSpec => []ContextInv
<1>1. ContextInit => ContextInv
  BY DEF ContextInit, ContextInv
<1>2. ContextInv /\ [Converse]_history => ContextInv'
  <2> SUFFICES ASSUME ContextInv, Converse PROVE ContextInv'
    BY DEF ContextInv
  <2>1. \A size \in Sizes, t \in Nat, is \in {"USER", "ASSISTANT", "TOOL"} :
          Log([is |-> is, turn |-> t, size |-> size]) => ContextInv'
    BY DEF ContextInv, EventType, Log
  <2>2. Cardinality(TurnsOf(Messages)) + 1 \in Nat
    <3>1. IsFiniteSet(Messages)
      <4>1. Messages \subseteq Events
        BY DEF Messages
      <4>2. QED
        BY <4>1, EventsAreFinite
    <3>2. IsFiniteSet(TurnsOf(Messages))
      BY <3>1, TurnsAreFinite
    <3>3. QED
      BY <3>2, FS_CardinalityType
  <2>3. TurnsOf(Messages) \subseteq Nat
    BY EventsAreFinite DEF TurnsOf, TurnOf, Messages
  <2>4. QED
    BY <2>1, <2>2, <2>3 DEF Converse
<1>3. QED
  BY <1>1, <1>2, PTL DEF ContextSpec

-----------------------------------------------------------------------------
(* What is selected *)

LEMMA ReadFacts ==
  ASSUME ContextInv
  PROVE  /\ LatestReply \subseteq Messages /\ Read \subseteq Messages
         /\ Selected \subseteq Messages /\ Messages \subseteq Events /\ Tools \subseteq Events
         /\ Tools \cap Messages = {} /\ LatestReply \subseteq Read
         /\ Cardinality(LatestReply) <= 1 /\ Cardinality(Tools) <= MaxTools
<1>1. /\ LatestReply \subseteq Messages /\ Read \subseteq Messages
      /\ Selected \subseteq Messages /\ Messages \subseteq Events /\ Tools \subseteq Events
      /\ Tools \cap Messages = {} /\ LatestReply \subseteq Read
  BY DEF LatestReply, Read, Selected, NewestOf, Messages, Replies, Tools
<1>2. \A S \in SUBSET Events, n \in Nat : Cardinality(NewestOf(S, n)) <= n
  <2> TAKE S \in SUBSET Events, n \in Nat
  <2>1. S \in SUBSET Nat /\ IsFiniteSet(S)
    BY EventsAreFinite
  <2>2. QED
    BY <2>1, NewestAreFew
<1>3. Replies \in SUBSET Events /\ Events \ Messages \in SUBSET Events
  BY DEF Replies
<1>4. QED
  BY <1>1, <1>2, <1>3, ContextAssumption DEF LatestReply, Tools

LEMMA SelectionIsSmall ==
  ASSUME ContextInv
  PROVE  /\ Cardinality(Selected) <= MaxMessages /\ LatestReply \subseteq Selected
         /\ TurnsOf(Selected) \subseteq AllowedTurns
<1> DEFINE n == MaxMessages - Cardinality(LatestReply)
           others == NewestOf(Read \ LatestReply, n)
<1>1. /\ Cardinality(LatestReply) \in Nat /\ Cardinality(LatestReply) <= 1
      /\ IsFiniteSet(LatestReply) /\ LatestReply \subseteq Events
  BY ReadFacts, EventsAreFinite
<1>2. n \in Nat
  BY <1>1, ContextAssumption
<1>3. Read \ LatestReply \in SUBSET Nat /\ IsFiniteSet(Read \ LatestReply)
  BY ReadFacts, EventsAreFinite
<1> HIDE DEF n
<1>4. Cardinality(others) <= n
  BY <1>2, <1>3, NewestAreFew
<1>5. others \in SUBSET Events
  BY ReadFacts DEF NewestOf
<1>6. Selected \in SUBSET (LatestReply \cup others)
  BY DEF Selected, n
<1> HIDE DEF others
<1>7. IsFiniteSet(others) /\ Cardinality(others) \in Nat
  BY <1>5, EventsAreFinite
<1>8. /\ IsFiniteSet(LatestReply \cup others)
      /\ Cardinality(LatestReply \cup others)
           = Cardinality(LatestReply) + Cardinality(others) - Cardinality(LatestReply \cap others)
  BY <1>1, <1>7, FS_Union
<1>9. Cardinality(LatestReply \cap others) \in Nat
  BY <1>1, EventsAreFinite
<1>10. Cardinality(Selected) <= Cardinality(LatestReply \cup others)
  BY <1>6, <1>8, FS_Subset
<1>11. Selected \in SUBSET Events /\ Cardinality(Selected) \in Nat
  BY ReadFacts, EventsAreFinite
<1>12. Cardinality(Selected) <= MaxMessages
  BY <1>1, <1>2, <1>4, <1>7, <1>8, <1>9, <1>10, <1>11, ContextAssumption DEF n
<1>13. TurnsOf(LatestReply) \subseteq AllowedTurns
  BY DEF AllowedTurns
<1>14. LatestReply \subseteq Selected
  BY <1>13 DEF Selected, TurnsOf
<1>15. TurnsOf(Selected) \subseteq AllowedTurns
  BY DEF Selected, TurnsOf
<1>16. QED
  BY <1>12, <1>14, <1>15

(* Turns are ranked by their newest message, and no two share it. *)
LEMMA TurnsAreFew ==
  ASSUME ContextInv
  PROVE  IsFiniteSet(AllowedTurns) /\ Cardinality(AllowedTurns) <= MaxTurns
<1> DEFINE lastWord(t) == Max({i \in Read : TurnOf(i) = t})
           others == TurnsOf(Read) \ TurnsOf(LatestReply)
           n == MaxTurns - Cardinality(TurnsOf(LatestReply))
           ranked == {t \in others :
                        Cardinality({u \in others : lastWord(u) > lastWord(t)}) < n}
           words == {lastWord(t) : t \in others}
<1>1. AllowedTurns = TurnsOf(LatestReply) \cup ranked
  BY DEF AllowedTurns
<1>2. /\ IsFiniteSet(TurnsOf(LatestReply)) /\ Cardinality(TurnsOf(LatestReply)) \in Nat
      /\ Cardinality(TurnsOf(LatestReply)) <= 1
  <2>1. LatestReply \in SUBSET Events
    BY ReadFacts
  <2>2. IsFiniteSet(LatestReply) /\ Cardinality(LatestReply) \in Nat
    BY <2>1, EventsAreFinite
  <2>3. /\ IsFiniteSet(TurnsOf(LatestReply))
        /\ Cardinality(TurnsOf(LatestReply)) <= Cardinality(LatestReply)
    BY <2>2, TurnsAreFinite
  <2>4. Cardinality(TurnsOf(LatestReply)) \in Nat
    BY <2>3, FS_CardinalityType
  <2>5. QED
    BY <2>2, <2>3, <2>4, ReadFacts
<1>3. n \in Nat
  BY <1>2, ContextAssumption
<1>4. \A t \in others : lastWord(t) \in Read /\ TurnOf(lastWord(t)) = t
  <2> TAKE t \in others
  <2> DEFINE spoken == {i \in Read : TurnOf(i) = t}
  <2>1. spoken # {}
    BY DEF TurnsOf
  <2>2. spoken \in SUBSET (1..Len(history)) /\ Len(history) \in Nat
    BY ReadFacts, EventsAreFinite
  <2> HIDE DEF spoken
  <2>3. Max(spoken) \in spoken
    BY <2>1, <2>2, GreatestExists
  <2>4. QED
    BY <2>3 DEF spoken
<1>5. words \in SUBSET Nat /\ IsFiniteSet(words)
  <2>1. words \in SUBSET Events
    BY <1>4, ReadFacts
  <2>2. QED
    BY <2>1, EventsAreFinite
<1>6. IsFiniteSet(others) 
  <2>1. IsFiniteSet(Read)
    BY ReadFacts, EventsAreFinite
  <2>2. IsFiniteSet(TurnsOf(Read))
    BY <2>1, TurnsAreFinite
  <2>3. QED
    BY <2>2, FS_Subset
<1> HIDE DEF lastWord, n
<1>7. \A t \in ranked : lastWord(t) \in NewestOf(words, n)
  <2> TAKE t \in ranked
  <2> DEFINE later == {j \in words : j > lastWord(t)}
             ahead == {u \in others : lastWord(u) > lastWord(t)}
             spoken == [j \in later |-> TurnOf(j)]
  <2>1. spoken \in [later -> ahead]
    BY <1>4
  <2>2. \A i, j \in later : spoken[i] = spoken[j] => i = j
    BY <1>4
  <2>3. spoken \in Injection(later, ahead)
    <3> HIDE DEF spoken, later, ahead
    <3>1. QED
      BY <2>1, <2>2 DEF Injection, IsInjective
  <2>4. IsFiniteSet(ahead) /\ Cardinality(ahead) \in Nat /\ Cardinality(ahead) < n
    BY <1>6, FS_Subset, FS_CardinalityType
  <2> HIDE DEF spoken, ahead
  <2>5. IsFiniteSet(later) /\ Cardinality(later) <= Cardinality(ahead)
    <3> HIDE DEF later
    <3>1. QED
      BY <2>3, <2>4, FS_Injection
  <2>6. Cardinality(later) \in Nat
    <3> HIDE DEF later
    <3>1. QED
      BY <2>5, FS_CardinalityType
  <2>7. Cardinality(later) < n
    <3> HIDE DEF later
    <3>1. QED
      BY <1>3, <2>4, <2>5, <2>6
  <2>8. lastWord(t) \in words
    OBVIOUS
  <2>9. QED
    BY <2>7, <2>8 DEF NewestOf
<1> HIDE DEF words
<1>8. IsFiniteSet(NewestOf(words, n)) /\ Cardinality(NewestOf(words, n)) \in Nat
  BY <1>5, FS_Subset, FS_CardinalityType DEF NewestOf
<1>9. Cardinality(NewestOf(words, n)) <= n
  BY <1>3, <1>5, NewestAreFew
<1>10. IsFiniteSet(ranked) /\ Cardinality(ranked) <= Cardinality(NewestOf(words, n))
  <2> DEFINE word == [t \in ranked |-> lastWord(t)]
  <2>1. word \in [ranked -> NewestOf(words, n)]
    BY <1>7
  <2>2. \A t, u \in ranked : word[t] = word[u] => t = u
    BY <1>4
  <2> HIDE DEF word, ranked
  <2>3. word \in Injection(ranked, NewestOf(words, n))
    BY <2>1, <2>2 DEF Injection, IsInjective
  <2>4. QED
    BY <1>8, <2>3, FS_Injection
<1> HIDE DEF ranked
<1>11. Cardinality(ranked) \in Nat
  BY <1>10, FS_CardinalityType
<1>12. /\ IsFiniteSet(TurnsOf(LatestReply) \cup ranked)
       /\ Cardinality(TurnsOf(LatestReply) \cup ranked)
            = Cardinality(TurnsOf(LatestReply)) + Cardinality(ranked)
                - Cardinality(TurnsOf(LatestReply) \cap ranked)
  BY <1>2, <1>10, FS_Union
<1>13. Cardinality(TurnsOf(LatestReply) \cap ranked) \in Nat
  BY <1>10, FS_Subset, FS_CardinalityType
<1>14. QED
  BY <1>1, <1>2, <1>3, <1>8, <1>9, <1>10, <1>11, <1>12, <1>13, ContextAssumption DEF n

-----------------------------------------------------------------------------
(* What is kept *)

LEMMA BytesAreCounted ==
  ASSUME ContextInv, NEW S \in SUBSET Events
  PROVE  MapThenSumSet(LAMBDA i : history[i].size, S) \in Int
<1> DEFINE Body(g) == g = [s \in SUBSET S |->
                        IF s = {} THEN 0
                        ELSE history[CHOOSE x \in s : TRUE].size
                               + g[s \ {CHOOSE x \in s : TRUE}]]
           size == [i \in Events |-> history[i].size]
<1>1. MapThenSumSet(LAMBDA i : history[i].size, S) = (CHOOSE g : Body(g))[S]
  BY DEF MapThenSumSet, MapThenFoldSet
<1>2. ASSUME NEW g PROVE Body(g) <=> SumOver(size, S, g)
  <2>1. ASSUME NEW s \in SUBSET S, s # {}
        PROVE  size[Pick(s)] = history[CHOOSE x \in s : TRUE].size
    <3>1. Pick(s) \in Events
      BY <2>1, PickIsMember
    <3>2. QED
      BY <3>1 DEF Pick
  <2> HIDE DEF size
  <2>2. [s \in SUBSET S |-> IF s = {} THEN 0
           ELSE history[CHOOSE x \in s : TRUE].size + g[s \ {CHOOSE x \in s : TRUE}]]
        = [s \in SUBSET S |-> IF s = {} THEN 0 ELSE size[Pick(s)] + g[s \ {Pick(s)}]]
    BY <2>1 DEF Pick
  <2>3. QED
    BY <2>2 DEF SumOver
<1>3. size \in [Events -> Int]
  BY EventsAreFinite
<1> HIDE DEF Body, size
<1>4. IsFiniteSet(S)
  BY EventsAreFinite
<1>5. PICK g : SumOver(size, S, g)
  BY <1>4, SumsExist
<1>6. SumOver(size, S, CHOOSE k : Body(k))
  BY <1>2, <1>5
<1>7. MapThenSumSet(LAMBDA i : history[i].size, S) = Total(size, S)
  BY <1>1, <1>4, <1>6, SumsGiveTotal
<1>8. Total(size, S) \in Int
  BY <1>3, <1>4, TotalIsInt
<1>9. QED
  BY <1>7, <1>8

LEMMA BytesAreInt ==
  ASSUME ContextInv, NEW chosen \in SUBSET Events, NEW kept \in SUBSET Events
  PROVE  Bytes(chosen, kept) \in Int
<1> DEFINE S == {i \in chosen : CreatedAt(TurnOf(i)) \in kept} \cup (kept \ Messages)
<1>1. S \in SUBSET Events
  OBVIOUS
<1> HIDE DEF S
<1>2. MapThenSumSet(LAMBDA i : history[i].size, S) \in Int
  BY <1>1, BytesAreCounted
<1>3. BaseBytes \in Int
  BY ContextAssumption
<1>4. Bytes(chosen, kept) = BaseBytes + MapThenSumSet(LAMBDA i : history[i].size, S)
  BY DEF Bytes, S
<1>5. QED
  BY <1>2, <1>3, <1>4

(* A turn of the selection is begun by one of its messages. *)
LEMMA TurnsBegin ==
  ASSUME ContextInv, NEW S \in SUBSET Messages
  PROVE  /\ Begun(TurnsOf(S)) \subseteq Messages
         /\ IsFiniteSet(TurnsOf(S)) => Cardinality(Begun(TurnsOf(S))) <= Cardinality(TurnsOf(S))
<1>1. ASSUME NEW t \in TurnsOf(S) PROVE CreatedAt(t) \in Messages
  <2> DEFINE spoken == {i \in Messages : TurnOf(i) = t}
  <2>1. spoken # {} /\ spoken \in SUBSET Nat
    BY ReadFacts, EventsAreFinite DEF TurnsOf
  <2> HIDE DEF spoken
  <2>2. Min(spoken) \in spoken
    BY <2>1, MinIsLeast
  <2>3. QED
    BY <2>2 DEF spoken, CreatedAt
<1>2. ASSUME IsFiniteSet(TurnsOf(S))
      PROVE  Cardinality(Begun(TurnsOf(S))) <= Cardinality(TurnsOf(S))
  <2> DEFINE begin == [t \in TurnsOf(S) |-> CreatedAt(t)]
  <2>1. begin \in Surjection(TurnsOf(S), Begun(TurnsOf(S)))
    BY DEF Surjection, Begun
  <2> HIDE DEF begin
  <2>2. QED
    BY <1>2, <2>1, FS_Surjection
<1>3. QED
  BY <1>1, <1>2 DEF Begun

(* What the loop makes of the items it has: it gives up, or it keeps the   *)
(* protected ones and the newest of the others, as many as fit.            *)
Kept(chosen, items, r) ==
  /\ Protected \subseteq r /\ r \subseteq items /\ Bytes(chosen, r) <= MaxBytes
  /\ items # r =>
       \E last \in items \ r :
         /\ \A i \in items \ r : i <= last
         /\ \A i \in Spare(r) : i > last
         /\ Bytes(chosen, r \cup {last}) > MaxBytes

Outcome(chosen, items, context) ==
  \/ context = TooLarge /\ Bytes(chosen, Protected) > MaxBytes
  \/ \E r \in SUBSET items : context = [kept |-> r, ok |-> TRUE] /\ Kept(chosen, items, r)

LEMMA LoopEnds ==
  ASSUME ContextInv, NEW chosen \in SUBSET Messages, NEW ran \in SUBSET Events,
         Protected \subseteq Items(chosen, ran)
  PROVE  Outcome(chosen, Items(chosen, ran), Fitted(chosen, ran))
<1> DEFINE S == Items(chosen, ran)
           done == {s \in SUBSET S : Bytes(chosen, s) <= MaxBytes \/ Spare(s) = {}}
           base == [s \in done |-> IF Bytes(chosen, s) <= MaxBytes
                                      THEN [kept |-> s, ok |-> TRUE] ELSE TooLarge]
           pick == [s \in SUBSET S |-> Min(Spare(s))]
           Loop(g) == g = [kept \in SUBSET S |->
                        IF Bytes(chosen, kept) <= MaxBytes THEN [kept |-> kept, ok |-> TRUE]
                        ELSE IF Spare(kept) = {} THEN TooLarge
                        ELSE g[kept \ {Min(Spare(kept))}]]
<1>1. Fitted(chosen, ran) = (CHOOSE g : Loop(g))[S]
  BY DEF Fitted
<1>2. S \in SUBSET Events /\ S \in SUBSET Nat /\ IsFiniteSet(S)
  <2>1. S \in SUBSET Events
    BY TurnsBegin, ReadFacts DEF Items
  <2> HIDE DEF S
  <2>2. QED
    BY <2>1, EventsAreFinite
<1> HIDE DEF S
<1>3. \A s \in SUBSET S : Bytes(chosen, s) \in Int
  BY <1>2, BytesAreInt, ReadFacts
<1>4. \A s \in SUBSET S : Spare(s) # {} =>
        Min(Spare(s)) \in Spare(s) /\ \A i \in Spare(s) : Min(Spare(s)) <= i
  <2> TAKE s \in SUBSET S
  <2> HAVE Spare(s) # {}
  <2>1. Spare(s) \in SUBSET Nat
    BY <1>2 DEF Spare
  <2>2. QED
    BY <2>1, MinIsLeast
<1>5. ASSUME NEW g PROVE Loop(g) <=> Unwinds(S, done, base, pick, g)
  <2>1. ASSUME NEW s \in SUBSET S
        PROVE  (IF Bytes(chosen, s) <= MaxBytes THEN [kept |-> s, ok |-> TRUE]
                ELSE IF Spare(s) = {} THEN TooLarge ELSE g[s \ {Min(Spare(s))}])
               = (IF s \in done THEN base[s] ELSE g[s \ {pick[s]}])
    OBVIOUS
  <2> HIDE DEF done, base, pick
  <2>2. [s \in SUBSET S |->
           IF Bytes(chosen, s) <= MaxBytes THEN [kept |-> s, ok |-> TRUE]
           ELSE IF Spare(s) = {} THEN TooLarge ELSE g[s \ {Min(Spare(s))}]]
        = [s \in SUBSET S |-> IF s \in done THEN base[s] ELSE g[s \ {pick[s]}]]
    BY <2>1
  <2>3. QED
    BY <2>2 DEF Unwinds
<1>6. \A s \in SUBSET S : s \notin done => pick[s] \in s
  BY <1>4 DEF Spare
<1>7. \E g : Unwinds(S, done, base, pick, g)
  <2> HIDE DEF done, base, pick
  <2>1. QED
    BY <1>2, <1>6, UnwindingsExist
<1>8. PICK g : Loop(g) /\ Fitted(chosen, ran) = g[S]
  <2> HIDE DEF Loop, done, base, pick
  <2>1. QED
    BY <1>1, <1>5, <1>7
<1> DEFINE T == {s \in SUBSET S : Protected \subseteq s => Outcome(chosen, s, g[s])}
<1>9. ASSUME NEW s \in SUBSET S, \A u \in SUBSET s : u # s => u \in T PROVE s \in T
  <2> SUFFICES ASSUME Protected \subseteq s PROVE Outcome(chosen, s, g[s])
    OBVIOUS
  <2> HIDE DEF T
  <2>1. Bytes(chosen, s) \in Int /\ MaxBytes \in Int
    BY <1>3, ContextAssumption
  <2>2. CASE Bytes(chosen, s) <= MaxBytes
    <3>1. g[s] = [kept |-> s, ok |-> TRUE]
      BY <1>8, <2>2
    <3>2. Kept(chosen, s, s)
      BY <2>2 DEF Kept
    <3>3. QED
      BY <3>1, <3>2 DEF Outcome
  <2>3. CASE ~(Bytes(chosen, s) <= MaxBytes) /\ Spare(s) = {}
    <3>1. g[s] = TooLarge
      BY <1>8, <2>3
    <3>2. s = Protected
      BY <2>3 DEF Spare
    <3>3. Bytes(chosen, Protected) > MaxBytes
      BY <2>1, <2>3, <3>2
    <3>4. QED
      BY <3>1, <3>3 DEF Outcome
  <2>4. CASE ~(Bytes(chosen, s) <= MaxBytes) /\ Spare(s) # {}
    <3> DEFINE least == Min(Spare(s))
               rest == s \ {least}
    <3>1. /\ least \in Spare(s) /\ least \in s /\ least \notin Protected
          /\ \A i \in Spare(s) : least <= i
      BY <1>4, <2>4 DEF Spare
    <3>2. g[s] = g[rest]
      BY <1>8, <2>4
    <3>3. rest \in SUBSET s /\ rest # s /\ Protected \subseteq rest /\ s = rest \cup {least}
      BY <3>1
    <3> HIDE DEF rest, least, done, base, pick, Loop
    <3>4. Outcome(chosen, rest, g[rest])
      BY <1>9, <3>3 DEF T
    <3>5. CASE g[rest] = TooLarge /\ Bytes(chosen, Protected) > MaxBytes
      BY <3>2, <3>5 DEF Outcome
    <3>6. ASSUME NEW r \in SUBSET rest, g[rest] = [kept |-> r, ok |-> TRUE],
                 Kept(chosen, rest, r)
          PROVE  Outcome(chosen, s, g[s])
      <4>1. Protected \subseteq r /\ r \subseteq rest /\ Bytes(chosen, r) <= MaxBytes
        BY <3>6 DEF Kept
      <4>2. s \ r = (rest \ r) \cup {least}
        BY <3>3, <4>1 DEF rest
      <4>3. \A i \in rest \ r : least <= i
        BY <3>1, <3>3, <4>1 DEF Spare
      <4>4. s \subseteq Nat
        BY <1>2
      <4>5. CASE rest = r
        <5>1. \A i \in s \ r : i <= least
          BY <3>1, <4>2, <4>4, <4>5
        <5>2. \A i \in Spare(r) : i > least
          <6>1. ASSUME NEW i \in Spare(r) PROVE i > least
            <7>1. i \in Spare(s) /\ i # least
              BY <4>1, <4>5, <3>3 DEF Spare, rest
            <7>2. i \in Nat /\ least \in Nat /\ least <= i
              BY <7>1, <3>1, <4>4 DEF Spare
            <7>3. QED
              BY <7>1, <7>2
          <6>2. QED
            BY <6>1
        <5>3. Bytes(chosen, r \cup {least}) > MaxBytes
          BY <2>1, <2>4, <3>3, <4>5
        <5>4. least \in s \ r /\ r \subseteq s
          BY <4>1, <4>2, <3>3
        <5>5. Kept(chosen, s, r)
          <6>1. \E last \in s \ r : /\ \A i \in s \ r : i <= last
                                    /\ \A i \in Spare(r) : i > last
                                    /\ Bytes(chosen, r \cup {last}) > MaxBytes
            BY <5>1, <5>2, <5>3, <5>4
          <6>2. QED
            BY <4>1, <5>4, <6>1 DEF Kept
        <5>6. QED
          BY <3>2, <3>3, <3>6, <5>5 DEF Outcome
      <4>6. CASE rest # r
        <5>1. PICK last \in rest \ r : /\ \A i \in rest \ r : i <= last
                                       /\ \A i \in Spare(r) : i > last
                                       /\ Bytes(chosen, r \cup {last}) > MaxBytes
          BY <3>6, <4>6 DEF Kept
        <5>2. \A i \in s \ r : i <= last
          BY <4>2, <4>3, <5>1
        <5>3. Kept(chosen, s, r)
          BY <3>3, <4>1, <4>2, <5>1, <5>2 DEF Kept
        <5>4. QED
          BY <3>2, <3>3, <3>6, <5>3 DEF Outcome
      <4>7. QED
        BY <4>5, <4>6
    <3>7. QED
      BY <3>4, <3>5, <3>6 DEF Outcome
  <2>5. QED
    BY <2>2, <2>3, <2>4
<1> HIDE DEF T, Loop
<1>10. S \in T
  BY <1>2, <1>9, SubsetInduction
<1>11. QED
  BY <1>8, <1>10 DEF T, S

-----------------------------------------------------------------------------
LEMMA ContextFits ==
  ASSUME ContextInv
  PROVE  ContextIsBounded
<1> DEFINE chosen == Selected
           items == Items(chosen, Tools)
           context == Fitted(chosen, Tools)
<1>1. Protected \subseteq items
  BY SelectionIsSmall DEF Protected, Items, Begun, TurnsOf
<1>2. Outcome(chosen, items, context)
  BY <1>1, LoopEnds, ReadFacts
<1> HIDE DEF items, context
<1>3. CASE context = TooLarge /\ Bytes(chosen, Protected) > MaxBytes
  <2>1. ~context.ok
    BY <1>3 DEF TooLarge
  <2>2. QED
    BY <1>3, <2>1 DEF ContextIsBounded, context
<1>4. ASSUME NEW r \in SUBSET items, context = [kept |-> r, ok |-> TRUE], Kept(chosen, items, r)
      PROVE  ContextIsBounded
  <2>1. context.ok /\ context.kept = r
    BY <1>4
  <2>2. Bytes(chosen, r) <= MaxBytes /\ Protected \subseteq r
    BY <1>4 DEF Kept
  <2>3. Cardinality(chosen) <= MaxMessages /\ LatestReply \subseteq chosen
    BY SelectionIsSmall
  <2>4. /\ items \subseteq Events /\ Begun(TurnsOf(chosen)) \subseteq Messages
        /\ items \cap Messages \subseteq Begun(TurnsOf(chosen)) /\ items \ Messages \subseteq Tools
    BY TurnsBegin, ReadFacts DEF items, Items
  <2>5. Cardinality(r \cap Messages) <= MaxTurns
    <3>1. IsFiniteSet(AllowedTurns) /\ Cardinality(AllowedTurns) <= MaxTurns
      BY TurnsAreFew
    <3>2. TurnsOf(chosen) \in SUBSET AllowedTurns
      BY SelectionIsSmall
    <3>3. IsFiniteSet(TurnsOf(chosen)) /\ Cardinality(TurnsOf(chosen)) <= Cardinality(AllowedTurns)
      BY <3>1, <3>2, FS_Subset
    <3>4. Cardinality(Begun(TurnsOf(chosen))) <= Cardinality(TurnsOf(chosen))
      BY <3>3, TurnsBegin, ReadFacts
    <3>5. r \cap Messages \in SUBSET Begun(TurnsOf(chosen))
      BY <2>4
    <3>6. Begun(TurnsOf(chosen)) \in SUBSET Events
      BY <2>4, ReadFacts
    <3> HIDE DEF chosen
    <3>7. IsFiniteSet(Begun(TurnsOf(chosen))) /\ Cardinality(Begun(TurnsOf(chosen))) \in Nat
      BY <3>6, EventsAreFinite
    <3>8. Cardinality(r \cap Messages) <= Cardinality(Begun(TurnsOf(chosen)))
      BY <3>5, <3>7, FS_Subset
    <3>9. /\ Cardinality(r \cap Messages) \in Nat /\ Cardinality(TurnsOf(chosen)) \in Nat
          /\ Cardinality(AllowedTurns) \in Nat /\ MaxTurns \in Nat
      BY <2>4, <3>1, <3>3, EventsAreFinite, FS_CardinalityType, ContextAssumption
    <3>10. QED
      BY <3>1, <3>3, <3>4, <3>7, <3>8, <3>9
  <2>6. Cardinality(r \ Messages) <= MaxTools
    <3>1. r \ Messages \in SUBSET Tools
      BY <2>4
    <3>2. IsFiniteSet(Tools) /\ Cardinality(Tools) \in Nat /\ Cardinality(Tools) <= MaxTools
      BY ReadFacts, EventsAreFinite
    <3>3. Cardinality(r \ Messages) <= Cardinality(Tools) /\ IsFiniteSet(r \ Messages)
      BY <3>1, <3>2, FS_Subset
    <3>4. Cardinality(r \ Messages) \in Nat /\ MaxTools \in Nat
      BY <3>3, FS_CardinalityType, ContextAssumption
    <3>5. QED
      BY <3>2, <3>3, <3>4
  <2>7. ASSUME items \ r # {}
        PROVE  /\ \A i \in Spare(r) : i > Max(items \ r)
               /\ Bytes(chosen, r \cup {Max(items \ r)}) > MaxBytes
    <3>1. PICK last \in items \ r : /\ \A i \in items \ r : i <= last
                                    /\ \A i \in Spare(r) : i > last
                                    /\ Bytes(chosen, r \cup {last}) > MaxBytes
      BY <1>4, <2>7 DEF Kept
    <3>2. /\ items \ r \in SUBSET (1..Len(history)) /\ Len(history) \in Nat
          /\ items \subseteq Nat
      BY <2>4, EventsAreFinite
    <3>3. Max(items \ r) \in items \ r /\ \A i \in items \ r : Max(items \ r) >= i
      BY <2>7, <3>2, GreatestExists
    <3>4. Max(items \ r) = last
      <4>1. Max(items \ r) <= last /\ Max(items \ r) >= last
        BY <3>1, <3>3
      <4>2. Max(items \ r) \in Nat /\ last \in Nat
        BY <3>2, <3>3
      <4>3. QED
        BY <4>1, <4>2
    <3>5. /\ \A i \in Spare(r) : i > last
          /\ Bytes(chosen, r \cup {last}) > MaxBytes
      BY <3>1
    <3> HIDE DEF chosen
    <3>6. QED
      BY <3>4, <3>5
  <2>8. QED
    <3> HIDE DEF chosen
    <3>1. ContextIsBounded <=>
            IF ~context.ok THEN Bytes(chosen, Protected) > MaxBytes
            ELSE /\ Bytes(chosen, context.kept) <= MaxBytes
                 /\ Cardinality(chosen) <= MaxMessages
                 /\ Cardinality(context.kept \cap Messages) <= MaxTurns
                 /\ Cardinality(context.kept \ Messages) <= MaxTools
                 /\ Protected \subseteq context.kept /\ LatestReply \subseteq chosen
                 /\ items \ context.kept # {} =>
                      /\ \A i \in Spare(context.kept) : i > Max(items \ context.kept)
                      /\ Bytes(chosen, context.kept \cup {Max(items \ context.kept)}) > MaxBytes
      BY DEF ContextIsBounded, context, items, chosen
    <3>2. QED
      BY <2>1, <2>2, <2>3, <2>5, <2>6, <2>7, <3>1
<1>5. QED
  BY <1>2, <1>3, <1>4 DEF Outcome

(* What the model is shown is within every limit and is the newest that    *)
(* fits, and what it answers is planned only as far as the user's words    *)
(* and the tools' risk allow: assembleAssistantContext on any conversation *)
(* and validateAssistantPlan on any answer and any registered tools.       *)
THEOREM PlansStayBounded == PlanSpec /\ ContextSpec => []PlansStayInBounds
<1>1. ContextInv => ContextIsBounded
  BY ContextFits
<1>2. PlanInv => (proposal # NoProposal => NothingIsInvented /\ QuestionsAreNeeded /\ RiskIsConfirmed)
  <2> SUFFICES ASSUME PlanInv, proposal # NoProposal
               PROVE  NothingIsInvented /\ QuestionsAreNeeded /\ RiskIsConfirmed
    OBVIOUS
  <2>1. Planned /\ proposal \in Proposals
    BY DEF PlanInv, Planned
  <2>2. QED
    BY <2>1, NothingAdded, QuestionsAreFair, RisksAreConfirmed
<1>3. ContextInv /\ PlanInv => PlansStayInBounds
  BY <1>1, <1>2 DEF PlansStayInBounds
<1>4. QED
  BY <1>3, ContextInvHolds, PlanInvHolds, PTL

-----------------------------------------------------------------------------
(***************************************************************************)
(* What is guessed without asking: ResolveSpec and SuggestSpec             *)
(***************************************************************************)

-----------------------------------------------------------------------------
(* What a name refers to *)

(* The catch-all category's name is spelled out in the program: no prover  *)
(* knows that it is a STRING.                                              *)
Words == STRING \cup {Fallback}
Names == [words : Seq(Words), dashed : BOOLEAN]

LEMMA LeastIs ==
  ASSUME NEW a \in Int, NEW b \in Int
  PROVE  Min({a, b}) \in {a, b} /\ Min({a, b}) <= a /\ Min({a, b}) <= b
<1>1. \E x \in {a, b} : \A y \in {a, b} : x <= y
  <2>1. CASE a <= b
    BY <2>1
  <2>2. CASE b <= a
    BY <2>2
  <2>3. QED
    BY <2>1, <2>2
<1>2. QED
  BY <1>1 DEF Min

LEMMA ScoresAre ==
  ASSUME NEW ref, NEW name, NEW of
  PROVE  /\ Score(ref, name, of) \in {1000, 950, 900, 0}
         /\ Score(ref, name, of) = 1000 <=> ref = name
         /\ Score(ref, name, of) = 900 => ref # name /\ ref \notin Aliases(name, of)
  BY DEF Score

LEMMA AliasesAre ==
  ASSUME NEW name, NEW of, NEW a \in Aliases(name, of)
  PROVE  /\ a = Plain(a.words)
         /\ a.words = name.words \/ \E i \in DOMAIN name.words : a.words = <<name.words[i]>>
<1>1. PICK w \in Nicknames(name, of) : a = Plain(w)
  BY DEF Aliases
<1>2. a.words = w
  BY <1>1 DEF Plain
<1>3. w = name.words \/ w \in {<<name.words[i]>> : i \in DOMAIN name.words}
  BY DEF Nicknames
<1>4. QED
  BY <1>1, <1>2, <1>3

LEMMA EligibleIsMeant ==
  ASSUME NEW ref \in Names, NEW name \in Names, NEW of
  PROVE  Score(ref, name, of) >= Threshold <=> Means(ref, name, of)
<1> DEFINE known == {a.words : a \in Aliases(name, of)}
<1>1. Score(ref, name, of) >= Threshold <=> ref.words \in known \cup {name.words}
  <2>1. ref \in Aliases(name, of) => ref.words \in known
    OBVIOUS
  <2>2. ref = name => ref.words = name.words
    OBVIOUS
  <2> HIDE DEF known
  <2>3. Score(ref, name, of) =
          CASE ref = name -> 1000
            [] ref # name /\ ref \in Aliases(name, of) -> 950
            [] ref # name /\ ref \notin Aliases(name, of) /\ ref.words \in known \cup {name.words} -> 900
            [] OTHER -> 0
    BY DEF Score, known
  <2>4. QED
    BY <2>1, <2>2, <2>3 DEF Threshold
<1>2. ref.words \in Seq(Words) /\ name.words \in Seq(Words)
  BY DEF Names
<1>3. ASSUME ref.words \in known PROVE Means(ref, name, of)
  <2>1. PICK a \in Aliases(name, of) : ref.words = a.words
    BY <1>3
  <2>2. Plain(ref.words) \in Aliases(name, of)
    BY <2>1, AliasesAre
  <2>3. ref.words = name.words \/ Len(ref.words) = 1
    BY <2>1, AliasesAre
  <2>4. QED
    BY <2>2, <2>3 DEF Means
<1>4. ASSUME Plain(ref.words) \in Aliases(name, of) PROVE ref.words \in known
  <2>1. Plain(ref.words).words = ref.words
    BY DEF Plain
  <2>2. QED
    BY <1>4, <2>1
<1>5. QED
  BY <1>1, <1>3, <1>4 DEF Means

(* Of the names a reference can mean that match worst, none is the         *)
(* reference itself, and what differs is the punctuation.                  *)
LEMMA WorstMatch ==
  ASSUME NEW ref \in Names, NEW name \in Names, NEW of, Score(ref, name, of) = 900
  PROVE  ref # name /\ (ref.dashed \/ name.dashed)
<1>1. ref # name /\ ref \notin Aliases(name, of)
  BY ScoresAre
<1>2. Means(ref, name, of)
  BY EligibleIsMeant DEF Threshold
<1>3. ASSUME ~ref.dashed, ~name.dashed PROVE FALSE
  <2>1. ref = Plain(ref.words) /\ name = Plain(name.words)
    BY <1>3 DEF Names, Plain
  <2>2. ref.words # name.words
    BY <1>1, <2>1
  <2>3. QED
    BY <1>1, <1>2, <2>1, <2>2 DEF Means
<1>4. QED
  BY <1>1, <1>3 DEF Names

LEMMA BetterOrders ==
  ASSUME NEW all \in Seq(Names), NEW ref, NEW of
  PROVE  Orders(Better(all, ref, of), DOMAIN all)
<1>1. \A i \in DOMAIN all : i \in Int /\ Score(ref, all[i], of) \in Int
  BY ScoresAre
<1> DEFINE s(i) == Score(ref, all[i], of)
<1>2. \A i, j \in DOMAIN all : <<i, j>> \in Better(all, ref, of) <=> (s(i) > s(j) \/ (s(i) = s(j) /\ i < j))
  BY DEF Better
<1> HIDE DEF s
<1>3. \A i \in DOMAIN all : i \in Int /\ s(i) \in Int
  BY <1>1 DEF s
<1>4. QED
  BY <1>2, <1>3 DEF Orders

LEMMA PartIsOrdered ==
  ASSUME NEW R, NEW S, Orders(R, S), NEW T, T \subseteq S, IsFiniteSet(S)
  PROVE  Lists(InOrder(T, R), T, R)
<1>1. Orders(R, T)
  BY DEF Orders
<1>2. IsFiniteSet(T)
  BY FS_Subset
<1>3. QED
  BY <1>1, <1>2, OrderIsListed

(* What the resolution of a name promises. *)
Unrivalled(all, ref, found, meant) ==
  /\ found.kind = "resolved" =>
       /\ found.id \in meant
       /\ \/ meant = {found.id}
          \/ /\ ref = all[found.id]
             /\ \A i \in meant \ {found.id} : ref # all[i] /\ (ref.dashed \/ all[i].dashed)
  /\ found.kind = "ambiguous" =>
       /\ ToSet(found.options) \subseteq meant /\ Cardinality(ToSet(found.options)) > 1
       /\ \A i \in meant \ ToSet(found.options) :
            \/ Len(found.options) = MaxOptions
            \/ ref = all[found.options[1]] /\ ref # all[i]
  /\ found.kind = "not_found" => meant = {}
  /\ found.kind = "error" => Len(all) > MaxCandidates \/ \E i \in DOMAIN all : ~Usable(all[i])

LEMMA TwoMembers ==
  ASSUME NEW S, IsFiniteSet(S), NEW x \in S, NEW y \in S, x # y
  PROVE  Cardinality(S) > 1
<1> DEFINE T == S \ {x}
           U == T \ {y}
<1>1. IsFiniteSet(T) /\ IsFiniteSet(U)
  BY FS_Subset
<1>2. Cardinality(T) \in Nat /\ Cardinality(U) \in Nat /\ Cardinality(S) \in Nat
  BY <1>1, FS_CardinalityType
<1>3. Cardinality(T) = Cardinality(S) - 1
  BY FS_RemoveElement
<1>4. Cardinality(U) = Cardinality(T) - 1
  BY <1>1, FS_RemoveElement
<1> HIDE DEF T, U
<1>5. QED
  BY <1>2, <1>3, <1>4

LEMMA FirstOf ==
  ASSUME NEW S, NEW o \in Seq(S), NEW m \in 1..Len(o)
  PROVE  /\ SubSeq(o, 1, m) \in Seq(S) /\ Len(SubSeq(o, 1, m)) = m
         /\ \A k \in 1..m : SubSeq(o, 1, m)[k] = o[k] /\ k \in 1..Len(o)
<1> DEFINE few == SubSeq(o, 1, m)
<1>1. 1 \in Int /\ m \in Int /\ 1 <= m /\ Len(o) \in Nat
  OBVIOUS
<1>2. \A k \in 1..m : o[k] \in S /\ k \in 1..Len(o)
  OBVIOUS
<1>3. few \in Seq(S) /\ Len(few) = (IF 1 <= m THEN m - 1 + 1 ELSE 0)
  BY <1>1, <1>2, SubSeqProperties, Zenon
<1>4. ASSUME NEW k \in 1..(m - 1 + 1) PROVE few[k] = o[1 + k - 1]
  BY <1>1, <1>2, SubSeqProperties
<1>5. m - 1 + 1 = m /\ \A k \in 1..m : 1 + k - 1 = k
  BY <1>1
<1> HIDE DEF few
<1>6. \A k \in 1..m : few[k] = o[k]
  BY <1>4, <1>5
<1>7. few \in Seq(S) /\ Len(few) = m
  BY <1>1, <1>3, <1>5
<1>8. QED
  BY <1>2, <1>6, <1>7 DEF few

(* The first few of a list of options: all of it, or as many as are shown. *)
FewOf(o, few) == few = SubSeq(o, 1, Min({Len(o), MaxOptions}))

LEMMA FirstFew ==
  ASSUME NEW C, NEW R, NEW o, Lists(o, C, R), IsFiniteSet(C),
         NEW x \in C, NEW y \in C, x # y,
         NEW few, FewOf(o, few)
  PROVE  /\ ToSet(few) \subseteq C /\ Cardinality(ToSet(few)) > 1 /\ few[1] = o[1]
         /\ \A c \in C \ ToSet(few) : Len(few) = MaxOptions
<1> DEFINE m == Min({Len(o), MaxOptions})
<1>1. Len(o) \in Nat /\ MaxOptions \in Nat /\ MaxOptions > 1 /\ o \in Seq(C)
  BY ListsAre, ResolutionAssumption DEF Lists
<1>2. \E i, j \in 1..Len(o) : o[i] = x /\ o[j] = y
  BY DEF Lists
<1>3. Len(o) > 1
  BY <1>1, <1>2
<1>4. m \in {Len(o), MaxOptions} /\ m \in 1..Len(o) /\ m > 1 /\ m \in Nat
  <2>1. m \in {Len(o), MaxOptions} /\ m <= Len(o) /\ m <= MaxOptions
    <3>1. Len(o) \in Int /\ MaxOptions \in Int
      BY <1>1
    <3>2. QED
      BY <3>1, LeastIs, Zenon
  <2> HIDE DEF m
  <2>2. QED
    BY <1>1, <1>3, <2>1
<1> HIDE DEF m
<1>5. /\ few \in Seq(C) /\ Len(few) = m /\ DOMAIN few = 1..m
      /\ \A k \in 1..m : few[k] = o[k] /\ k \in 1..Len(o)
  <2>1. few = SubSeq(o, 1, m)
    BY DEF m, FewOf
  <2>2. /\ SubSeq(o, 1, m) \in Seq(C) /\ Len(SubSeq(o, 1, m)) = m
        /\ \A k \in 1..m : SubSeq(o, 1, m)[k] = o[k] /\ k \in 1..Len(o)
    BY <1>1, <1>4, FirstOf
  <2>3. few \in Seq(C) /\ Len(few) = m /\ \A k \in 1..m : few[k] = o[k] /\ k \in 1..Len(o)
    BY <2>1, <2>2, Zenon
  <2>4. DOMAIN few = 1..Len(few)
    BY <2>3
  <2>5. QED
    BY <2>3, <2>4, Zenon
<1>6. ToSet(few) \subseteq C
  <2>1. \A k \in 1..m : few[k] \in C
    BY <1>1, <1>5
  <2>2. QED
    BY <1>5, <2>1 DEF ToSet
<1>7. few[1] = o[1] /\ few[2] = o[2] /\ o[1] # o[2] /\ {few[1], few[2]} \subseteq ToSet(few)
  <2>1. 1 \in 1..m /\ 2 \in 1..m /\ 1 \in 1..Len(o) /\ 2 \in 1..Len(o) /\ 1 < 2
    BY <1>1, <1>4
  <2>2. o[1] # o[2]
    <3>1. \A i, j \in 1..Len(o) : i < j => o[i] # o[j]
      BY DEF Lists
    <3>2. QED
      BY <2>1, <3>1
  <2>3. QED
    BY <1>5, <2>1, <2>2 DEF ToSet
<1>8. Cardinality(ToSet(few)) > 1
  <2>1. PICK p, q \in ToSet(few) : p # q
    BY <1>7
  <2>2. IsFiniteSet(ToSet(few)) /\ Cardinality(ToSet(few)) \in Nat
    BY <1>6, FS_Subset, FS_CardinalityType
  <2>3. QED
    BY <2>1, <2>2, TwoMembers
<1>9. ASSUME NEW c \in C \ ToSet(few) PROVE Len(few) = MaxOptions
  <2>1. PICK k \in 1..Len(o) : o[k] = c
    BY DEF Lists
  <2>2. k \notin 1..m
    BY <1>5, <1>9, <2>1 DEF ToSet
  <2>3. QED
    BY <1>1, <1>4, <1>5, <2>1, <2>2
<1>10. QED
  BY <1>6, <1>7, <1>8, <1>9

LEMMA ResolutionIsUnrivalled ==
  ASSUME NEW all \in Seq(Names), NEW ref \in Names, NEW of,
         NEW meant, meant = {i \in DOMAIN all : Means(ref, all[i], of)}
  PROVE  Unrivalled(all, ref, Resolve(all, ref, of), meant)
<1> DEFINE better == Better(all, ref, of)
           E == Eligible(all, ref, of)
           ranked == InOrder(E, better)
           top == ranked[1]
           close == Competing(all, top, ref, of)
           C == {top} \cup close
           options == InOrder(C, better)
           few == SubSeq(options, 1, Min({Len(options), MaxOptions}))
           found == Resolve(all, ref, of)
           s(i) == Score(ref, all[i], of)
<1>1. E = meant /\ E \subseteq DOMAIN all
  BY EligibleIsMeant DEF Eligible
<1>2. IsFiniteSet(DOMAIN all) /\ IsFiniteSet(E)
  <2>1. Len(all) \in Nat /\ DOMAIN all = 1..Len(all)
    OBVIOUS
  <2>2. IsFiniteSet(DOMAIN all)
    BY <2>1, FS_Interval
  <2>3. QED
    BY <1>1, <2>2, FS_Subset
<1>3. Orders(better, DOMAIN all) /\ Lists(ranked, E, better)
  <2> HIDE DEF better, E
  <2>1. Orders(better, DOMAIN all)
    BY BetterOrders DEF better
  <2>2. QED
    BY <1>1, <1>2, <2>1, PartIsOrdered
<1>4. \A i \in DOMAIN all : s(i) \in {1000, 950, 900, 0} /\ (s(i) = 1000 <=> ref = all[i])
  BY ScoresAre
<1>5. \A i, j \in DOMAIN all : <<i, j>> \in better => s(i) >= s(j)
  <2>1. \A i, j \in DOMAIN all : <<i, j>> \in better => (s(i) > s(j) \/ s(i) = s(j))
    BY DEF Better
  <2> HIDE DEF s, better
  <2>2. QED
    BY <1>4, <2>1
<1>6. E # {} => top \in E /\ \A i \in E \ {top} : <<top, i>> \in better
  <2> HIDE DEF ranked, better, E
  <2> SUFFICES ASSUME E # {} PROVE top \in E /\ \A i \in E \ {top} : <<top, i>> \in better
    OBVIOUS
  <2>1. 1 \in 1..Len(ranked) /\ Len(ranked) \in Nat
    BY <1>3, ListsAre DEF Lists
  <2>2. top \in E
    BY <1>3, <2>1, ListsAre
  <2>3. ASSUME NEW i \in E \ {top} PROVE <<top, i>> \in better
    <3>1. PICK k \in 1..Len(ranked) : ranked[k] = i
      BY <1>3 DEF Lists
    <3>2. 1 < k
      BY <2>1, <2>3, <3>1
    <3>3. QED
      BY <1>3, <2>1, <3>1, <3>2 DEF Lists
  <2>4. QED
    BY <2>2, <2>3
<1>7. close \subseteq E \ {top} /\ \A i \in (E \ {top}) \ close : ~(s(top) - s(i) <= Margin)
  BY DEF Competing
<1> HIDE DEF close
<1>8. ASSUME E # {} PROVE \A i \in E \ C : /\ ref = all[top] /\ ref # all[i]
                                           /\ ref.dashed \/ all[i].dashed
  <2> SUFFICES ASSUME NEW i \in E \ C
               PROVE  ref = all[top] /\ ref # all[i] /\ (ref.dashed \/ all[i].dashed)
    OBVIOUS
  <2>1. /\ i \in DOMAIN all /\ top \in DOMAIN all /\ i \in (E \ {top}) \ close
        /\ s(i) >= Threshold /\ s(top) >= s(i)
    <3>1. i \in (E \ {top}) \ close /\ i \in DOMAIN all /\ top \in DOMAIN all
      BY <1>1, <1>6, <1>8
    <3>2. s(i) >= Threshold
      BY <3>1 DEF Eligible
    <3>3. s(top) >= s(i)
      BY <1>5, <1>6, <1>8, <3>1
    <3>4. QED
      BY <3>1, <3>2, <3>3
  <2>2. s(top) = 1000 /\ s(i) = 900
    <3>1. ~(s(top) - s(i) <= Margin)
      BY <1>7, <2>1
    <3>2. s(i) \in {1000, 950, 900, 0} /\ s(top) \in {1000, 950, 900, 0}
      BY <1>4, <2>1
    <3> HIDE DEF s
    <3>3. QED
      BY <2>1, <3>1, <3>2 DEF Threshold, Margin
  <2>3. ref = all[top] /\ all[i] \in Names
    BY <1>4, <2>1, <2>2
  <2>4. ref # all[i] /\ (ref.dashed \/ all[i].dashed)
    BY <2>2, <2>3, WorstMatch
  <2>5. QED
    BY <2>3, <2>4
<1>9. found = CASE ~Usable(ref) -> [kind |-> "invalid_reference"]
                [] Usable(ref) /\ (Len(all) > MaxCandidates \/ \E i \in DOMAIN all : ~Usable(all[i])) ->
                     [kind |-> "error"]
                [] OTHER ->
                     IF ranked = <<>> THEN [kind |-> "not_found"]
                     ELSE IF close = {} THEN [kind |-> "resolved", id |-> top]
                     ELSE [kind |-> "ambiguous", options |-> few]
  BY DEF Resolve, close
<1>10. ranked = <<>> <=> E = {}
  <2> HIDE DEF ranked, E, better
  <2>1. QED
    BY <1>3, ListsAre
<1> HIDE DEF ranked, E, better, found, few, s, top, C
<1>11. CASE ~Usable(ref)
  <2>1. found = [kind |-> "invalid_reference"]
    BY <1>9, <1>11
  <2>2. found.kind = "invalid_reference"
    BY <2>1
  <2>3. QED
    BY <2>2 DEF Unrivalled, found
<1>12. CASE Usable(ref) /\ (Len(all) > MaxCandidates \/ \E i \in DOMAIN all : ~Usable(all[i]))
  <2>1. found = [kind |-> "error"]
    BY <1>9, <1>12
  <2>2. found.kind = "error"
    BY <2>1
  <2>3. QED
    BY <1>12, <2>2 DEF Unrivalled, found
<1>13. CASE Usable(ref) /\ ~(Len(all) > MaxCandidates \/ \E i \in DOMAIN all : ~Usable(all[i]))
  <2>1. found = IF ranked = <<>> THEN [kind |-> "not_found"]
                ELSE IF close = {} THEN [kind |-> "resolved", id |-> top]
                ELSE [kind |-> "ambiguous", options |-> few]
    BY <1>9, <1>13
  <2>2. CASE E = {}
    <3>1. found = [kind |-> "not_found"]
      BY <1>10, <2>1, <2>2
    <3>2. found.kind = "not_found"
      BY <3>1
    <3>3. QED
      BY <1>1, <2>2, <3>2 DEF Unrivalled, found
  <2>3. CASE E # {} /\ close = {}
    <3>1. found = [kind |-> "resolved", id |-> top]
      BY <1>10, <2>1, <2>3
    <3>2. found.kind = "resolved" /\ found.id = top
      BY <3>1
    <3>3. C = {top}
      BY <2>3 DEF C
    <3>4. top \in meant /\ (meant = {top} \/ (ref = all[top] /\ \A i \in meant \ {top} :
                                                ref # all[i] /\ (ref.dashed \/ all[i].dashed)))
      BY <1>1, <1>6, <1>8, <2>3, <3>3
    <3>5. QED
      BY <3>2, <3>4 DEF Unrivalled, found
  <2>4. CASE E # {} /\ close # {}
    <3>1. found = [kind |-> "ambiguous", options |-> few]
      BY <1>10, <2>1, <2>4
    <3>2. found.kind = "ambiguous" /\ found.options = few
      BY <3>1
    <3>3. C \subseteq E /\ IsFiniteSet(C) /\ top \in C
      BY <1>2, <1>6, <1>7, <2>4, FS_Subset DEF C
    <3>4. Lists(options, C, better)
      BY <1>1, <1>2, <1>3, <3>3, PartIsOrdered
    <3>5. PICK y \in C : top # y
      BY <1>7, <2>4 DEF C
    <3>6. options[1] = top
      <4> HIDE DEF options
      <4>1. PICK k \in 1..Len(options) : options[k] = top
        BY <3>3, <3>4 DEF Lists
      <4>2. 1 \in 1..Len(options) /\ Len(options) \in Nat /\ options[1] \in C
        BY <3>4, <4>1, ListsAre
      <4>3. ASSUME options[1] # top PROVE FALSE
        <5>1. <<top, options[1]>> \in better
          BY <1>6, <2>4, <3>3, <4>2, <4>3
        <5>2. k < 1
          BY <3>4, <4>1, <4>2, <5>1 DEF Lists
        <5>3. QED
          BY <4>1, <4>2, <5>2
      <4>4. QED
        BY <4>3
    <3>7. /\ ToSet(few) \subseteq C /\ Cardinality(ToSet(few)) > 1 /\ few[1] = options[1]
          /\ \A i \in C \ ToSet(few) : Len(few) = MaxOptions
      <4>1. FewOf(options, few)
        BY DEF few, FewOf
      <4> HIDE DEF options
      <4>2. Lists(options, C, better) /\ IsFiniteSet(C) /\ top \in C /\ y \in C /\ top # y
        BY <3>3, <3>4, <3>5
      <4>3. QED
        BY <4>1, <4>2, FirstFew
    <3>8. \A i \in meant \ ToSet(few) : Len(few) = MaxOptions \/ (ref = all[few[1]] /\ ref # all[i])
      BY <1>1, <1>8, <2>4, <3>6, <3>7
    <3>9. QED
      BY <1>1, <3>2, <3>3, <3>7, <3>8 DEF Unrivalled, found
  <2>5. QED
    BY <2>2, <2>3, <2>4
<1>14. QED
  BY <1>11, <1>12, <1>13

-----------------------------------------------------------------------------
(* The words of a description without its payment words *)

StripOne(w, p) == IF Len(w) > 1 /\ w[1] = p THEN Tail(w) ELSE w

(* g is the recursive function that strips the prefixes of a set of places. *)
Strips(words, S, g) ==
  g = [s \in SUBSET S |-> IF s = {} THEN words ELSE StripOne(g[s \ {Max(s)}], PaymentPrefixes[Max(s)])]

LEMMA StripIs ==
  ASSUME NEW words, NEW S, S = DOMAIN PaymentPrefixes
  PROVE  Strip(words) = (CHOOSE g : Strips(words, S, g))[S]
  BY DEF Strip, FoldLeft, MapThenFoldSet, Strips, StripOne

LEMMA GreatestIs ==
  ASSUME NEW S \in SUBSET Int, IsFiniteSet(S), S # {}
  PROVE  Max(S) \in S
<1> DEFINE T == {s \in SUBSET S : s # {} => \E x \in s : \A y \in s : x >= y}
<1>1. ASSUME NEW s \in SUBSET S, \A u \in SUBSET s : u # s => u \in T PROVE s \in T
  <2>1. CASE s = {}
    BY <2>1
  <2>2. CASE s # {}
    <3>1. PICK z \in s : TRUE
      BY <2>2
    <3>2. s \ {z} \in T
      BY <1>1, <3>1
    <3>3. CASE s \ {z} = {}
      BY <3>1, <3>3
    <3>4. CASE s \ {z} # {}
      <4>1. PICK x \in s \ {z} : \A y \in s \ {z} : x >= y
        BY <3>2, <3>4
      <4>2. x \in Int /\ z \in Int /\ s \subseteq Int
        BY <4>1
      <4>3. CASE x >= z
        BY <4>1, <4>3
      <4>4. CASE z >= x
        <5>1. \A y \in s : z >= y
          BY <4>1, <4>2, <4>4
        <5>2. QED
          BY <5>1
      <4>5. QED
        BY <4>2, <4>3, <4>4
    <3>5. QED
      BY <3>3, <3>4
  <2>3. QED
    BY <2>1, <2>2
<1> HIDE DEF T
<1>2. SUBSET S \subseteq T
  BY <1>1, SubsetInduction
<1>3. \E x \in S : \A y \in S : x >= y
  BY <1>2 DEF T
<1>4. QED
  BY <1>3 DEF Max

LEMMA StripsAgree ==
  ASSUME NEW words, NEW S \in SUBSET Int, IsFiniteSet(S), NEW U \in SUBSET S, NEW g, NEW h,
         Strips(words, S, g), Strips(words, U, h)
  PROVE  \A s \in SUBSET U : g[s] = h[s]
<1> DEFINE T == {s \in SUBSET U : g[s] = h[s]}
<1>1. IsFiniteSet(U)
  BY FS_Subset
<1>2. ASSUME NEW s \in SUBSET U, \A u \in SUBSET s : u # s => u \in T PROVE s \in T
  <2>1. CASE s = {}
    BY <2>1 DEF Strips
  <2>2. CASE s # {}
    <3>1. Max(s) \in s
      BY <1>1, <2>2, FS_Subset, GreatestIs
    <3>2. g[s \ {Max(s)}] = h[s \ {Max(s)}]
      BY <1>2, <3>1
    <3>3. /\ g[s] = StripOne(g[s \ {Max(s)}], PaymentPrefixes[Max(s)])
          /\ h[s] = StripOne(h[s \ {Max(s)}], PaymentPrefixes[Max(s)])
      BY <2>2 DEF Strips
    <3>4. QED
      BY <3>2, <3>3
  <2>3. QED
    BY <2>1, <2>2
<1> HIDE DEF T
<1>3. SUBSET U \subseteq T
  BY <1>1, <1>2, SubsetInduction
<1>4. QED
  BY <1>3 DEF T

LEMMA StripsExist ==
  ASSUME NEW words, NEW S \in SUBSET Int, IsFiniteSet(S)
  PROVE  \E g : Strips(words, S, g)
<1> DEFINE Of(s, g) == Strips(words, s, g)
           T == {s \in SUBSET S : \E g : Of(s, g)}
<1>1. ASSUME NEW s \in SUBSET S, \A u \in SUBSET s : u # s => u \in T PROVE s \in T
  <2> DEFINE V(u) == (CHOOSE g : Of(u, g))[u]
             h == [u \in SUBSET s |->
                     IF u = {} THEN words ELSE StripOne(V(u \ {Max(u)}), PaymentPrefixes[Max(u)])]
  <2>0. \A u \in SUBSET s : IsFiniteSet(u) /\ u \in SUBSET Int /\ (u # {} => Max(u) \in u)
    BY FS_Subset, GreatestIs
  <2>1. ASSUME NEW u \in SUBSET s, u # s PROVE V(u) = h[u]
    <3>1. PICK g : Of(u, g) /\ g = CHOOSE k : Of(u, k)
      BY <1>1, <2>1
    <3>2. CASE u = {}
      BY <3>1, <3>2 DEF Strips
    <3>3. CASE u # {}
      <4> DEFINE v == u \ {Max(u)}
      <4>1. Max(u) \in u
        BY <2>0, <3>3
      <4>2. v \in SUBSET u /\ v \in SUBSET s /\ v # s
        BY <2>1, <4>1
      <4>3. PICK k : Of(v, k) /\ k = CHOOSE l : Of(v, l)
        BY <1>1, <4>2
      <4>4. g[v] = k[v]
        <5> HIDE DEF v
        <5>1. u \in SUBSET Int /\ IsFiniteSet(u) /\ v \in SUBSET u /\ v \in SUBSET v
          BY <2>0, <4>2
        <5>2. Strips(words, u, g) /\ Strips(words, v, k)
          BY <3>1, <4>3
        <5>3. PICK big, small : big = u /\ small = v
          OBVIOUS
        <5>4. /\ big \in SUBSET Int /\ IsFiniteSet(big) /\ small \in SUBSET big
              /\ Strips(words, big, g) /\ Strips(words, small, k)
          BY <5>1, <5>2, <5>3
        <5>5. \A x \in SUBSET small : g[x] = k[x]
          <6> HIDE DEF V, h, T, Of
          <6>1. QED
            BY ONLY <5>4, StripsAgree
        <5>6. QED
          BY <5>1, <5>3, <5>5
      <4>5. V(u) = StripOne(g[v], PaymentPrefixes[Max(u)])
        BY <3>1, <3>3 DEF Strips
      <4>6. V(v) = k[v]
        BY <4>3
      <4>7. h[u] = StripOne(V(v), PaymentPrefixes[Max(u)])
        BY <3>3
      <4>8. QED
        BY <4>4, <4>5, <4>6, <4>7
    <3>4. QED
      BY <3>2, <3>3
  <2>2. ASSUME NEW u \in SUBSET s, u # {} PROVE V(u \ {Max(u)}) = h[u \ {Max(u)}]
    <3>1. Max(u) \in u
      BY <2>0, <2>2
    <3>2. u \ {Max(u)} \in SUBSET s /\ u \ {Max(u)} # s
      BY <3>1
    <3>3. QED
      BY <2>1, <3>2
  <2>3. h = [u \in SUBSET s |->
               IF u = {} THEN words ELSE StripOne(h[u \ {Max(u)}], PaymentPrefixes[Max(u)])]
    <3>1. ASSUME NEW u \in SUBSET s
          PROVE  h[u] = IF u = {} THEN words ELSE StripOne(h[u \ {Max(u)}], PaymentPrefixes[Max(u)])
      <4>1. h[u] = IF u = {} THEN words ELSE StripOne(V(u \ {Max(u)}), PaymentPrefixes[Max(u)])
        OBVIOUS
      <4>2. u # {} => V(u \ {Max(u)}) = h[u \ {Max(u)}]
        BY <2>2
      <4> HIDE DEF h, V
      <4>3. QED
        BY <4>1, <4>2
    <3>2. h = [u \in SUBSET s |-> h[u]]
      OBVIOUS
    <3> HIDE DEF h
    <3>3. QED
      BY <3>1, <3>2
  <2> HIDE DEF h
  <2>4. Of(s, h)
    BY <2>3 DEF Strips
  <2> HIDE DEF Of
  <2>5. QED
    BY <2>4
<1> HIDE DEF T
<1>2. SUBSET S \subseteq T
  BY <1>1, SubsetInduction
<1>3. QED
  BY <1>2 DEF T

(* What Strip computes. *)
LEMMA StripsToTheEnd ==
  ASSUME NEW words, NEW S, S = DOMAIN PaymentPrefixes
  PROVE  S \in SUBSET Int /\ IsFiniteSet(S) /\ \E g : Strips(words, S, g) /\ Strip(words) = g[S]
<1>1. S = 1..Len(PaymentPrefixes) /\ Len(PaymentPrefixes) \in Nat
  BY CategorizationAssumption
<1>2. S \in SUBSET Int /\ IsFiniteSet(S)
  BY <1>1, FS_Interval
<1>3. PICK g : Strips(words, S, g) /\ g = CHOOSE k : Strips(words, S, k)
  BY <1>2, StripsExist
<1>4. QED
  BY <1>2, <1>3, StripIs

Payments == ToSet(PaymentPrefixes)

LEMMA PrefixesAre == \A i \in DOMAIN PaymentPrefixes : PaymentPrefixes[i] \in Payments
  BY DEF Payments, ToSet

LEMMA TailIs ==
  ASSUME NEW V, NEW w \in Seq(V), Len(w) > 1
  PROVE  Tail(w) \in Seq(V) /\ Len(Tail(w)) >= 1
<1>1. w # <<>> /\ Len(w) \in Nat
  OBVIOUS
<1>2. Tail(w) \in Seq(V) /\ Len(Tail(w)) = Len(w) - 1
  BY <1>1, HeadTailProperties
<1>3. QED
  BY <1>1, <1>2

(* Something is always left. *)
LEMMA StripLeavesWords ==
  ASSUME NEW V, NEW words \in Seq(V), words # <<>>
  PROVE  Strip(words) \in Seq(V) /\ Len(Strip(words)) >= 1
<1> DEFINE S == DOMAIN PaymentPrefixes
<1>1. S \in SUBSET Int /\ IsFiniteSet(S)
  BY StripsToTheEnd
<1>2. PICK g : Strips(words, S, g) /\ Strip(words) = g[S]
  BY StripsToTheEnd
<1> HIDE DEF S
<1> DEFINE T == {s \in SUBSET S : g[s] \in Seq(V) /\ Len(g[s]) >= 1}
<1>3. ASSUME NEW s \in SUBSET S, \A u \in SUBSET s : u # s => u \in T PROVE s \in T
  <2>1. CASE s = {}
    <3>1. g[s] = words
      BY <1>2, <2>1 DEF Strips
    <3>2. Len(words) >= 1
      OBVIOUS
    <3>3. QED
      BY <3>1, <3>2
  <2>2. CASE s # {}
    <3> DEFINE r == s \ {Max(s)}
    <3>1. Max(s) \in s
      BY <1>1, <2>2, FS_Subset, GreatestIs
    <3>2. g[r] \in Seq(V) /\ Len(g[r]) >= 1
      BY <1>3, <3>1
    <3>3. g[s] = StripOne(g[r], PaymentPrefixes[Max(s)])
      BY <1>2, <2>2 DEF Strips
    <3> HIDE DEF r
    <3>4. QED
      BY <3>2, <3>3, TailIs DEF StripOne
  <2>3. QED
    BY <2>1, <2>2
<1> HIDE DEF T
<1>4. SUBSET S \subseteq T
  BY <1>1, <1>3, SubsetInduction
<1>5. QED
  BY <1>2, <1>4 DEF T

(* What does not begin with a payment word is left as it is. *)
LEMMA StripKeepsOthers ==
  ASSUME NEW words, words[1] \notin Payments
  PROVE  Strip(words) = words
<1> DEFINE S == DOMAIN PaymentPrefixes
<1>1. S \in SUBSET Int /\ IsFiniteSet(S)
  BY StripsToTheEnd
<1>2. PICK g : Strips(words, S, g) /\ Strip(words) = g[S]
  BY StripsToTheEnd
<1>3. \A i \in S : PaymentPrefixes[i] # words[1]
  BY PrefixesAre
<1> HIDE DEF S
<1> DEFINE T == {s \in SUBSET S : g[s] = words}
<1>4. ASSUME NEW s \in SUBSET S, \A u \in SUBSET s : u # s => u \in T PROVE s \in T
  <2>1. CASE s = {}
    BY <1>2, <2>1 DEF Strips
  <2>2. CASE s # {}
    <3> DEFINE r == s \ {Max(s)}
    <3>1. Max(s) \in s
      BY <1>1, <2>2, FS_Subset, GreatestIs
    <3>2. g[r] = words
      BY <1>4, <3>1
    <3>3. g[s] = StripOne(g[r], PaymentPrefixes[Max(s)])
      BY <1>2, <2>2 DEF Strips
    <3> HIDE DEF r
    <3>4. QED
      BY <1>3, <3>1, <3>2, <3>3 DEF StripOne
  <2>3. QED
    BY <2>1, <2>2
<1> HIDE DEF T
<1>5. SUBSET S \subseteq T
  BY <1>1, <1>4, SubsetInduction
<1>6. QED
  BY <1>2, <1>5 DEF T

(* One payment word is removed, wherever it is in the list.                *)
LEMMA StripRemovesPayment ==
  ASSUME NEW words, Len(words) > 1, words[1] \in Payments,
         NEW rest, rest = Tail(words), rest[1] \notin Payments
  PROVE  Strip(words) = rest
<1> DEFINE S == DOMAIN PaymentPrefixes
           Here(s) == \E i \in s : PaymentPrefixes[i] = words[1]
<1>1. S \in SUBSET Int /\ IsFiniteSet(S)
  BY StripsToTheEnd
<1>2. PICK g : Strips(words, S, g) /\ Strip(words) = g[S]
  BY StripsToTheEnd
<1>3. \A i \in S : PaymentPrefixes[i] # rest[1]
  BY PrefixesAre
<1>4. Here(S)
  BY DEF Payments, ToSet
<1> HIDE DEF S
<1> DEFINE T == {s \in SUBSET S : g[s] = IF Here(s) THEN rest ELSE words}
<1>5. ASSUME NEW s \in SUBSET S, \A u \in SUBSET s : u # s => u \in T PROVE s \in T
  <2>1. CASE s = {}
    BY <1>2, <2>1 DEF Strips
  <2>2. CASE s # {}
    <3> DEFINE m == Max(s)
               r == s \ {m}
    <3>1. m \in s
      BY <1>1, <2>2, FS_Subset, GreatestIs
    <3>2. g[r] = IF Here(r) THEN rest ELSE words
      BY <1>5, <3>1
    <3>3. g[s] = StripOne(g[r], PaymentPrefixes[m])
      BY <1>2, <2>2 DEF Strips
    <3>4. Here(s) <=> Here(r) \/ PaymentPrefixes[m] = words[1]
      BY <3>1
    <3> HIDE DEF r, m, Here
    <3>5. CASE Here(r)
      <4>1. g[s] = rest
        BY <1>3, <3>1, <3>2, <3>3, <3>5 DEF StripOne
      <4>2. QED
        BY <3>4, <3>5, <4>1
    <3>6. CASE ~Here(r) /\ PaymentPrefixes[m] = words[1]
      <4>1. g[s] = rest
        BY <3>2, <3>3, <3>6 DEF StripOne
      <4>2. QED
        BY <3>4, <3>6, <4>1
    <3>7. CASE ~Here(r) /\ PaymentPrefixes[m] # words[1]
      <4>1. g[s] = words
        BY <3>2, <3>3, <3>7 DEF StripOne
      <4>2. QED
        BY <3>4, <3>7, <4>1
    <3>8. QED
      BY <3>5, <3>6, <3>7
  <2>3. QED
    BY <2>1, <2>2
<1> HIDE DEF T
<1>6. SUBSET S \subseteq T
  BY <1>1, <1>5, SubsetInduction
<1>7. QED
  BY <1>2, <1>4, <1>6 DEF T

-----------------------------------------------------------------------------
(* The same merchant behind a payment word and a reference number *)

LEMMA FrontIs ==
  ASSUME NEW V, NEW w \in Seq(V), Len(w) > 1
  PROVE  Front(w) \in Seq(V) /\ Front(w) # <<>>
<1>1. Len(w) - 1 \in 1..Len(w) /\ Len(w) \in Nat
  OBVIOUS
<1>2. Front(w) \in Seq(V) /\ Len(Front(w)) = Len(w) - 1
  BY <1>1, FirstOf DEF Front
<1>3. Len(Front(w)) # 0
  BY <1>1, <1>2
<1>4. QED
  BY <1>2, <1>3

LEMMA NormalizedIsNotEmpty ==
  ASSUME NEW V, NEW words \in Seq(V), words # <<>>
  PROVE  NormalizeMerchant(words) \in Seq(V) /\ NormalizeMerchant(words) # <<>>
<1>1. Strip(words) \in Seq(V) /\ Len(Strip(words)) >= 1
  BY StripLeavesWords
<1>2. Strip(words) # <<>>
  BY <1>1
<1>3. QED
  BY <1>1, <1>2, FrontIs DEF NormalizeMerchant

LEMMA SameMerchant ==
  ASSUME NEW words \in Seq(STRING), words # <<>>, NEW p \in Payments, NEW n \in Numbers,
         words[1] \notin Payments, words[Len(words)] \notin Numbers
  PROVE  /\ NormalizeMerchant(words) = words
         /\ NormalizeMerchant(<<p>> \o Append(words, n)) = words
<1> DEFINE V == STRING \cup Numbers \cup Payments
           rest == Append(words, n)
           whole == <<p>> \o rest
<1>1. words \in Seq(V) /\ Len(words) \in Nat /\ Len(words) >= 1
  OBVIOUS
<1>2. NormalizeMerchant(words) = words
  BY <1>1, StripKeepsOthers DEF NormalizeMerchant
<1>3. /\ rest \in Seq(V) /\ Len(rest) = Len(words) + 1 /\ rest[Len(words) + 1] = n
      /\ rest[1] = words[1] /\ \A i \in 1..Len(words) : rest[i] = words[i]
  <2> HIDE DEF V
  <2>1. n \in V
    BY DEF V
  <2>2. /\ rest \in Seq(V) /\ Len(rest) = Len(words) + 1 /\ rest[Len(words) + 1] = n
        /\ \A i \in 1..Len(words) : rest[i] = words[i]
    BY <1>1, <2>1, AppendProperties
  <2>3. 1 \in 1..Len(words)
    BY <1>1
  <2>4. QED
    BY <2>2, <2>3
<1>4. whole \in Seq(V) /\ Len(whole) = Len(rest) + 1 /\ whole[1] = p /\ Tail(whole) = rest
  <2>1. p \in V
    OBVIOUS
  <2> HIDE DEF V, rest
  <2>2. QED
    BY <1>3, <2>1
<1>5. Strip(whole) = rest
  <2> HIDE DEF V, rest, whole
  <2>1. Len(whole) > 1 /\ whole[1] \in Payments /\ rest[1] \notin Payments
    BY <1>1, <1>3, <1>4
  <2>2. QED
    BY <1>4, <2>1, StripRemovesPayment
<1>6. Front(rest) = words
  <2>1. Len(rest) - 1 = Len(words) /\ Len(words) \in 1..Len(rest)
    BY <1>1, <1>3
  <2> HIDE DEF V, rest
  <2>2. /\ SubSeq(rest, 1, Len(words)) \in Seq(V) /\ Len(SubSeq(rest, 1, Len(words))) = Len(words)
        /\ \A k \in 1..Len(words) : SubSeq(rest, 1, Len(words))[k] = rest[k]
    BY <1>3, <2>1, FirstOf
  <2>3. SubSeq(rest, 1, Len(words)) = words
    BY <1>1, <1>3, <2>2
  <2>4. QED
    BY <2>1, <2>3 DEF Front
<1>7. NormalizeMerchant(whole) = words
  <2>1. Len(rest) > 1 /\ rest[Len(rest)] \in Numbers
    BY <1>1, <1>3
  <2> HIDE DEF V, rest, whole
  <2>2. QED
    BY <1>5, <1>6, <2>1 DEF NormalizeMerchant
<1>8. QED
  BY <1>2, <1>7

-----------------------------------------------------------------------------
(* The suggestions, best tier first *)

LEMMA TiersAre ==
  ASSUME NEW c, NEW words
  PROVE  /\ Tier(c, words) \in 0..3
         /\ Tier(c, words) # 0 =>
              \E k \in KeywordsOf(c) : MatchKind(k, words) = Tiers[Tier(c, words)]
<1> DEFINE found == {t \in DOMAIN Tiers : \E k \in KeywordsOf(c) : MatchKind(k, words) = Tiers[t]}
<1>1. found \subseteq {1, 2, 3}
  BY DEF Tiers
<1>2. Tier(c, words) = IF found = {} THEN 0 ELSE Min(found)
  BY DEF Tier
<1>6. \A t \in found : \E k \in KeywordsOf(c) : MatchKind(k, words) = Tiers[t]
  OBVIOUS
<1> HIDE DEF found
<1>3. CASE found # {}
  <2>1. \E x \in found : \A y \in found : x <= y
    <3>1. CASE 1 \in found
      <4>1. \A y \in found : 1 <= y
        BY <1>1
      <4>2. QED
        BY <3>1, <4>1
    <3>2. CASE 1 \notin found /\ 2 \in found
      <4>1. \A y \in found : 2 <= y
        BY <1>1, <3>2
      <4>2. QED
        BY <3>2, <4>1
    <3>3. CASE 1 \notin found /\ 2 \notin found
      <4>1. found = {3}
        BY <1>1, <1>3, <3>3
      <4>2. QED
        BY <4>1
    <3>4. QED
      BY <3>1, <3>2, <3>3
  <2>2. Min(found) \in found
    BY <2>1 DEF Min
  <2>3. Tier(c, words) = Min(found) /\ Min(found) \in {1, 2, 3}
    BY <1>1, <1>2, <1>3, <2>2
  <2>4. QED
    BY <1>6, <2>2, <2>3
<1>4. CASE found = {}
  BY <1>2, <1>4
<1>5. QED
  BY <1>3, <1>4

(* What is rated better than LOW has a keyword in the description.         *)
LEMMA StrongIsWritten ==
  ASSUME NEW c, NEW words, Tier(c, words) \in {1, 2}
  PROVE  IsWritten(c, words)
<1>1. Tiers[1] = "EXACT" /\ Tiers[2] = "CONTAINS"
  BY DEF Tiers
<1>2. PICK k \in KeywordsOf(c) : MatchKind(k, words) \in {"EXACT", "CONTAINS"}
  <2>1. \E k \in KeywordsOf(c) : MatchKind(k, words) = Tiers[Tier(c, words)]
    BY TiersAre
  <2>2. QED
    BY <1>1, <2>1
<1>3. words = <<k>> \/ \E w \in ToSet(words) : k \in Inside[w]
  BY <1>2 DEF MatchKind
<1>4. QED
  BY <1>3 DEF IsWritten, ToSet

LEMMA MineAre ==
  ASSUME NEW cats \in Mine
  PROVE  /\ IsFiniteSet(cats)
         /\ \A c, d \in cats : /\ c.name \in STRING /\ c.rank \in Nat
                               /\ c.type = d.type /\ c.rank = d.rank => c = d
  BY CategorizationAssumption

OneType(cats) == \A c, d \in cats : c.type = d.type

Earlier(words, cats) ==
  {p \in cats \X cats :
     \/ Tier(p[1], words) < Tier(p[2], words)
     \/ Tier(p[1], words) = Tier(p[2], words) /\ p[1].rank < p[2].rank}

ByRank(cats) == {p \in cats \X cats : p[1].rank < p[2].rank}

LEMMA RankOrders ==
  ASSUME NEW cats \in Mine, NEW mine \in SUBSET cats, OneType(mine)
  PROVE  Orders(ByRank(cats), mine)
<1>1. \A c, d \in mine : <<c, d>> \in ByRank(cats) <=> c.rank < d.rank
  BY DEF ByRank
<1>2. \A c, d \in mine : c.rank \in Nat /\ (c.rank = d.rank => c = d)
  BY MineAre DEF OneType
<1>3. QED
  BY <1>1, <1>2 DEF Orders

LEMMA TierOrders ==
  ASSUME NEW all \in Mine, NEW cats \in SUBSET all, OneType(cats), NEW words
  PROVE  Orders(Earlier(words, cats), cats)
<1> DEFINE t(c) == Tier(c, words)
<1>1. \A c, d \in cats :
        <<c, d>> \in Earlier(words, cats) <=> (t(c) < t(d) \/ (t(c) = t(d) /\ c.rank < d.rank))
  BY DEF Earlier
<1>2. \A c, d \in cats : c.rank \in Nat /\ (c.rank = d.rank => c = d)
  BY MineAre DEF OneType
<1>3. \A c \in cats : t(c) \in Int
  BY TiersAre
<1> HIDE DEF t
<1>4. QED
  BY <1>1, <1>2, <1>3 DEF Orders

LEMMA RankedIsListed ==
  ASSUME NEW all \in Mine, NEW cats \in SUBSET all, OneType(cats), NEW words
  PROVE  Lists(Ranked(words, cats), {c \in cats : Tier(c, words) # 0}, Earlier(words, cats))
<1> DEFINE M == {c \in cats : Tier(c, words) # 0}
<1>1. Ranked(words, cats) = InOrder(M, Earlier(words, cats))
  BY DEF Ranked, Earlier
<1>2. M \subseteq cats /\ IsFiniteSet(cats)
  BY MineAre, FS_Subset
<1> HIDE DEF M
<1>3. Lists(InOrder(M, Earlier(words, cats)), M, Earlier(words, cats))
  BY <1>2, TierOrders, PartIsOrdered
<1>4. QED
  BY <1>1, <1>3 DEF M

(* Suggestions by keyword: the first of the ranked, each once.             *)
BestFew(shown, mine, words) ==
  /\ Len(shown) \in Nat /\ DOMAIN shown = 1..Len(shown)
  /\ \A i \in 1..Len(shown) :
       /\ shown[i].category \in mine /\ shown[i].tier = Tier(shown[i].category, words)
       /\ shown[i].tier \in 1..3
  /\ \A i, j \in 1..Len(shown) :
       i < j => shown[i].tier <= shown[j].tier /\ shown[i].category # shown[j].category
  /\ \A c \in mine : Tier(c, words) # 0 =>
       \/ \E i \in 1..Len(shown) : shown[i].category = c
       \/ Len(shown) = MaxSuggestions /\ shown[MaxSuggestions].tier <= Tier(c, words)

FirstRanked(shown, ranked, words) ==
  shown = [i \in 1..Min({Len(ranked), MaxSuggestions}) |->
             [category |-> ranked[i], tier |-> Tier(ranked[i], words)]]

LEMMA LengthIs ==
  ASSUME NEW n \in Nat, NEW f, f = [i \in 1..n |-> f[i]]
  PROVE  Len(f) = n
<1>1. PICK X : \A i \in 1..n : f[i] \in X
  <2>1. \A i \in 1..n : f[i] \in {f[j] : j \in 1..n}
    OBVIOUS
  <2>2. QED
    BY <2>1
<1>2. f \in [1..n -> X]
  BY <1>1
<1>3. f \in Seq(X) /\ DOMAIN f = 1..n
  BY <1>2
<1>4. QED
  BY <1>3

LEMMA FewAreBest ==
  ASSUME NEW all \in Mine, NEW mine \in SUBSET all, OneType(mine), NEW words,
         NEW ranked, ranked = Ranked(words, mine),
         NEW shown, FirstRanked(shown, ranked, words)
  PROVE  BestFew(shown, mine, words)
<1> DEFINE k == Min({Len(ranked), MaxSuggestions})
           M == {c \in mine : Tier(c, words) # 0}
           R == Earlier(words, mine)
           t(c) == Tier(c, words)
<1>1. Lists(ranked, M, R)
  BY RankedIsListed
<1>2. MaxSuggestions \in Nat /\ MaxSuggestions >= 1
  BY CategorizationAssumption
<1>3. Len(ranked) \in Nat /\ \A i \in 1..Len(ranked) : ranked[i] \in M
  <2> HIDE DEF M, R
  <2>1. QED
    BY <1>1, ListsAre
<1>4. k \in {Len(ranked), MaxSuggestions} /\ k <= Len(ranked) /\ k <= MaxSuggestions /\ k \in Nat
  <2>1. Len(ranked) \in Int /\ MaxSuggestions \in Int
    BY <1>2, <1>3
  <2>2. k \in {Len(ranked), MaxSuggestions} /\ k <= Len(ranked) /\ k <= MaxSuggestions
    BY <2>1, LeastIs, Zenon
  <2> HIDE DEF k
  <2>3. QED
    BY <1>2, <1>3, <2>2
<1>5. /\ DOMAIN shown = 1..k
      /\ \A i \in 1..k : shown[i].category = ranked[i] /\ shown[i].tier = t(ranked[i])
  BY DEF t, FirstRanked
<1> HIDE DEF k
<1>6. Len(shown) = k
  <2>1. shown = [i \in 1..k |-> shown[i]]
    BY DEF k, FirstRanked
  <2>2. QED
    BY <1>4, <2>1, LengthIs
<1>7. \A i \in 1..k : i \in 1..Len(ranked) /\ ranked[i] \in M
  BY <1>3, <1>4
<1>8. \A c \in M : c \in mine /\ t(c) \in 1..3
  <2>1. \A c \in M : t(c) \in 0..3 /\ t(c) # 0 /\ c \in mine
    BY TiersAre
  <2> HIDE DEF t, M
  <2>2. QED
    BY <2>1
<1>9. \A c, d \in mine : <<c, d>> \in R => t(c) <= t(d)
  <2>1. \A c, d \in mine : <<c, d>> \in R => (t(c) < t(d) \/ t(c) = t(d))
    BY DEF Earlier
  <2>2. \A c \in mine : t(c) \in Int
    BY TiersAre
  <2> HIDE DEF t, R
  <2>3. QED
    BY <2>1, <2>2
<1>10. \A c \in mine : t(c) # 0 => c \in M
  OBVIOUS
<1> HIDE DEF M, R
<1>11. \A i, j \in 1..Len(ranked) : i < j => t(ranked[i]) <= t(ranked[j]) /\ ranked[i] # ranked[j]
  <2>1. \A i, j \in 1..Len(ranked) : i < j => <<ranked[i], ranked[j]>> \in R /\ ranked[i] # ranked[j]
    BY <1>1 DEF Lists
  <2> HIDE DEF t
  <2>2. QED
    BY <1>3, <1>8, <1>9, <2>1
<1>12. ASSUME NEW c \in mine, t(c) # 0
       PROVE  \/ \E i \in 1..k : ranked[i] = c
              \/ k = MaxSuggestions /\ t(ranked[MaxSuggestions]) <= t(c)
  <2>1. PICK j \in 1..Len(ranked) : ranked[j] = c
    BY <1>1, <1>10, <1>12 DEF Lists
  <2>2. CASE j \in 1..k
    BY <2>1, <2>2
  <2>3. CASE j \notin 1..k
    <3>1. k < j /\ k = MaxSuggestions /\ k \in 1..Len(ranked)
      BY <1>2, <1>3, <1>4, <2>1, <2>3
    <3> HIDE DEF t
    <3>2. QED
      BY <1>11, <2>1, <3>1
  <2>4. QED
    BY <2>2, <2>3
<1> HIDE DEF t
<1>13. \A i \in 1..k : /\ shown[i].category \in mine /\ shown[i].tier = t(shown[i].category)
                       /\ shown[i].tier \in 1..3
  BY <1>5, <1>7, <1>8
<1>14. \A i, j \in 1..k :
         i < j => shown[i].tier <= shown[j].tier /\ shown[i].category # shown[j].category
  BY <1>5, <1>7, <1>11
<1>15. \A c \in mine : t(c) # 0 =>
         \/ \E i \in 1..k : shown[i].category = c
         \/ k = MaxSuggestions /\ shown[MaxSuggestions].tier <= t(c)
  <2>1. ASSUME NEW c \in mine, t(c) # 0, k = MaxSuggestions, t(ranked[MaxSuggestions]) <= t(c)
        PROVE  shown[MaxSuggestions].tier <= t(c)
    <3>1. MaxSuggestions \in 1..k
      BY <1>2, <2>1
    <3>2. QED
      BY <1>5, <2>1, <3>1
  <2>2. QED
    BY <1>5, <1>12, <2>1
<1>16. Len(shown) \in Nat
  BY <1>4, <1>6
<1>17. QED
  BY <1>5, <1>6, <1>13, <1>14, <1>15, <1>16 DEF BestFew, t

LEMMA MembersOf ==
  ASSUME NEW shown, NEW n \in Nat, Len(shown) = n, DOMAIN shown = 1..n,
         \A i, j \in 1..n : i < j => shown[i].category # shown[j].category,
         NEW of, of = {shown[i].category : i \in DOMAIN shown}
  PROVE  Cardinality(of) = n
<1> DEFINE f == [i \in 1..n |-> shown[i].category]
<1>1. f \in Bijection(1..n, of)
  <2>1. f \in [1..n -> of]
    OBVIOUS
  <2>2. \A c \in of : \E i \in 1..n : f[i] = c
    OBVIOUS
  <2>3. \A i, j \in 1..n : f[i] = f[j] => i = j
    <3>1. \A i, j \in 1..n : i < j \/ j < i \/ i = j
      OBVIOUS
    <3>2. QED
      BY <3>1
  <2> HIDE DEF f
  <2>4. QED
    BY <2>1, <2>2, <2>3 DEF Bijection, Injection, Surjection, IsInjective
<1>2. ExistsBijection(1..n, of)
  BY <1>1 DEF ExistsBijection
<1>3. QED
  BY <1>2, FS_CountingElements

(* The two ways a suggestion is made. *)
LEMMA SuggestionsComeFrom ==
  ASSUME NEW d \in Descriptions, d # <<>>, NEW cats \in Mine, NEW mapped \in Mapped,
         NEW type, NEW words, words = NormalizeMerchant(d),
         NEW shown, shown = GetSuggestions(d, type, cats, mapped),
         NEW mine, mine = {c \in cats : c.type = type}
  PROVE  \/ \E m \in Mapping(words, type, mapped) :
              /\ Mapping(words, type, mapped) = {m}
              /\ shown = <<[category |-> m.category, tier |-> 1]>>
         \/ Mapping(words, type, mapped) = {} /\ BestFew(shown, mine, words)
<1>1. words # <<>>
  BY CategorizationAssumption, NormalizedIsNotEmpty
<1>2. CASE Mapping(words, type, mapped) # {}
  <2>1. shown = <<[category |-> (CHOOSE m \in Mapping(words, type, mapped) : TRUE).category, tier |-> 1]>>
    BY <1>1, <1>2 DEF GetSuggestions
  <2>2. PICK m : m = CHOOSE x \in Mapping(words, type, mapped) : TRUE
    OBVIOUS
  <2>3. m \in Mapping(words, type, mapped)
    BY <1>2, <2>2
  <2>4. \A x \in Mapping(words, type, mapped) : x = m
    BY <2>3, CategorizationAssumption DEF Mapping
  <2>5. QED
    BY <2>1, <2>2, <2>3, <2>4
<1>3. CASE Mapping(words, type, mapped) = {}
  <2>1. PICK ranked : ranked = Ranked(words, mine)
    OBVIOUS
  <2>2. FirstRanked(shown, ranked, words)
    BY <1>1, <1>3, <2>1 DEF GetSuggestions, FirstRanked
  <2>3. mine \in SUBSET cats /\ OneType(mine)
    BY DEF OneType
  <2>4. BestFew(shown, mine, words)
    BY <2>1, <2>2, <2>3, FewAreBest
  <2>5. QED
    BY <1>3, <2>4
<1>4. QED
  BY <1>2, <1>3

LEMMA SuggestionsAreSuited ==
  ASSUME NEW d \in Descriptions, d # <<>>, NEW cats \in Mine, NEW mapped \in Mapped,
         {m.category : m \in mapped} \subseteq cats, NEW type
  PROVE  Suited(d, cats, mapped, type)
<1> DEFINE words == NormalizeMerchant(d)
           shown == GetSuggestions(d, type, cats, mapped)
           mine == {c \in cats : c.type = type}
           of == {shown[i].category : i \in DOMAIN shown}
           told == {m \in mapped : NormalizeMerchant(m.merchant) = words}
           found == Mapping(words, type, mapped)
<1>1. found = {m \in told : m.category.type = type}
  BY DEF Mapping
<1>2. \/ \E m \in found : found = {m} /\ shown = <<[category |-> m.category, tier |-> 1]>>
      \/ found = {} /\ BestFew(shown, mine, words)
  <2> HIDE DEF found, shown, mine, words
  <2>1. words = NormalizeMerchant(d) /\ shown = GetSuggestions(d, type, cats, mapped)
        /\ mine = {c \in cats : c.type = type}
    BY DEF words, shown, mine
  <2>2. QED
    BY <2>1, SuggestionsComeFrom DEF found
<1>3. ASSUME NEW m \in found, found = {m}, shown = <<[category |-> m.category, tier |-> 1]>>
      PROVE  Suited(d, cats, mapped, type)
  <2>1. m \in told /\ m \in mapped /\ m.category \in mine
    BY <1>1
  <2>2. Len(shown) = 1 /\ DOMAIN shown = {1} /\ shown[1].category = m.category /\ shown[1].tier = 1
    <3> HIDE DEF shown
    <3>1. Len(shown) = 1 /\ DOMAIN shown = 1..1 /\ shown[1] = [category |-> m.category, tier |-> 1]
      BY <1>3
    <3>2. QED
      BY <3>1
  <2> HIDE DEF shown, mine, told, found, words
  <2>3. of = {m.category}
    BY <2>2
  <2>4. Cardinality(of) = 1
    BY <2>3, FS_Singleton
  <2> HIDE DEF of
  <2>5. of \subseteq mine /\ Cardinality(of) = Len(shown)
    BY <2>1, <2>2, <2>3, <2>4
  <2>6. \A i, j \in DOMAIN shown : i < j => shown[i].tier <= shown[j].tier
    BY <2>2
  <2>7. \A x \in told : x.category.type = type => of = {x.category}
    BY <1>1, <1>3, <2>3
  <2>8. ~(\A x \in told : x.category.type # type)
    BY <1>1, <1>3
  <2>9. QED
    BY <2>5, <2>6, <2>7, <2>8 DEF Suited, Remembered, shown, mine, of, told, words
<1>4. ASSUME found = {}, BestFew(shown, mine, words)
      PROVE  Suited(d, cats, mapped, type)
  <2> HIDE DEF shown, mine, told, found, words
  <2>1. Len(shown) \in Nat /\ DOMAIN shown = 1..Len(shown)
    BY <1>4 DEF BestFew
  <2>2. of \subseteq mine
    BY <1>4, <2>1 DEF BestFew
  <2>3. Cardinality(of) = Len(shown)
    <3>1. \A i, j \in 1..Len(shown) : i < j => shown[i].category # shown[j].category
      BY <1>4 DEF BestFew
    <3>2. QED
      BY <2>1, <3>1, MembersOf
  <2>4. \A i, j \in DOMAIN shown : i < j => shown[i].tier <= shown[j].tier
    BY <1>4, <2>1 DEF BestFew
  <2>5. \A x \in told : x.category.type # type
    BY <1>1, <1>4
  <2>6. \A c \in mine \ of : Tier(c, words) # 0 =>
          Len(shown) = MaxSuggestions /\ shown[MaxSuggestions].tier <= Tier(c, words)
    BY <1>4, <2>1 DEF BestFew
  <2> HIDE DEF of
  <2>7. QED
    BY <2>2, <2>3, <2>4, <2>5, <2>6 DEF Suited, Remembered, shown, mine, of, told, words
<1>5. QED
  BY <1>2, <1>3, <1>4

LEMMA InferredAreSuited ==
  ASSUME NEW d \in Descriptions, d # <<>>, NEW cats \in Mine, NEW mapped \in Mapped,
         {m.category : m \in mapped} \subseteq cats, NEW type
  PROVE  InferenceIsFounded(d, cats, mapped, type)
<1> DEFINE words == NormalizeMerchant(d)
           best == GetSuggestions(d, type, cats, mapped)
           mine == {c \in cats : c.type = type}
           found == Mapping(words, type, mapped)
           all == InOrder(mine, ByRank(cats))
           texts == [i \in DOMAIN all |-> Plain(<<all[i].name>>)]
           ref == Plain(<<Fallback>>)
           fallback == Resolve(texts, ref, "category")
<1>1. InferCategory(d, type, cats, mapped)
        = IF best # <<>> /\ best[1].tier < 3 THEN {best[1].category}
          ELSE IF fallback.kind = "resolved" THEN {all[fallback.id]} ELSE {}
  BY DEF InferCategory, ByRank
<1>2. \/ \E m \in found : found = {m} /\ best = <<[category |-> m.category, tier |-> 1]>>
      \/ found = {} /\ BestFew(best, mine, words)
  <2> HIDE DEF found, best, mine, words
  <2>1. words = NormalizeMerchant(d) /\ best = GetSuggestions(d, type, cats, mapped)
        /\ mine = {c \in cats : c.type = type}
    BY DEF words, best, mine
  <2>2. QED
    BY <2>1, SuggestionsComeFrom DEF found
<1>3. ASSUME best # <<>>, best[1].tier < 3
      PROVE  LET c == best[1].category
             IN /\ c \in mine
                /\ (\E m \in mapped : NormalizeMerchant(m.merchant) = words /\ m.category = c)
                     \/ Tier(c, words) \in {1, 2}
  <2>1. ASSUME NEW m \in found, best = <<[category |-> m.category, tier |-> 1]>>
        PROVE  best[1].category \in mine
               /\ \E x \in mapped : NormalizeMerchant(x.merchant) = words /\ x.category = best[1].category
    <3>1. m \in mapped /\ NormalizeMerchant(m.merchant) = words /\ m.category \in mine
      BY DEF Mapping
    <3> HIDE DEF best, found, words, mine
    <3>2. best[1] = [category |-> m.category, tier |-> 1]
      BY <2>1
    <3>3. best[1].category = m.category
      BY <3>2
    <3>4. QED
      BY <3>1, <3>3
  <2>2. ASSUME BestFew(best, mine, words)
        PROVE  best[1].category \in mine /\ Tier(best[1].category, words) \in {1, 2}
    <3> HIDE DEF best, found, words, mine
    <3>1. Len(best) \in Nat /\ DOMAIN best = 1..Len(best)
      BY <2>2 DEF BestFew
    <3>2. Len(best) # 0
      <4>1. ASSUME Len(best) = 0 PROVE FALSE
        <5>1. best = [i \in 1..0 |-> best[i]]
          BY <2>2, <3>1, <4>1 DEF BestFew
        <5>2. QED
          BY <1>3, <5>1
      <4>2. QED
        BY <4>1
    <3>3. 1 \in 1..Len(best)
      BY <3>1, <3>2
    <3>4. /\ best[1].category \in mine /\ best[1].tier = Tier(best[1].category, words)
          /\ best[1].tier \in 1..3
      BY <2>2, <3>3 DEF BestFew
    <3>5. QED
      BY <1>3, <3>4
  <2> HIDE DEF best, found, words, mine
  <2>3. QED
    BY <1>2, <2>1, <2>2
<1>4. ASSUME fallback.kind = "resolved"
      PROVE  all[fallback.id] \in mine /\ all[fallback.id].name = Fallback
  <2>1. Orders(ByRank(cats), mine) /\ IsFiniteSet(mine) /\ mine \subseteq cats
    <3>1. mine \in SUBSET cats /\ OneType(mine)
      BY DEF OneType
    <3> HIDE DEF mine
    <3>2. QED
      BY <3>1, RankOrders, MineAre, FS_Subset
  <2>2. Lists(all, mine, ByRank(cats))
    <3> HIDE DEF mine
    <3>1. QED
      BY <2>1, OrderIsListed
  <2>3. DOMAIN all = 1..Len(all) /\ Len(all) \in Nat /\ \A i \in 1..Len(all) : all[i] \in mine
    <3> HIDE DEF mine, all
    <3>1. QED
      BY <2>2, ListsAre
  <2>4. texts \in Seq(Names) /\ DOMAIN texts = DOMAIN all
    <3> HIDE DEF all
    <3>1. \A i \in DOMAIN all : all[i].name \in Words
      BY <2>1, <2>3, MineAre DEF Words
    <3>2. \A i \in DOMAIN all : Plain(<<all[i].name>>) \in Names
      BY <3>1 DEF Plain, Names
    <3>3. texts \in [1..Len(all) -> Names]
      BY <2>3, <3>2
    <3> HIDE DEF texts
    <3>4. QED
      BY <2>3, <3>3
  <2>5. ref \in Names /\ ref.words = <<Fallback>>
    <3>1. Fallback \in Words
      BY DEF Words
    <3>2. \A x \in Words : Plain(<<x>>) \in Names /\ Plain(<<x>>).words = <<x>>
      BY DEF Plain, Names
    <3> HIDE DEF ref
    <3>3. QED
      BY <3>1, <3>2 DEF ref
  <2> DEFINE meant == {i \in DOMAIN texts : Means(ref, texts[i], "category")}
  <2>6. Unrivalled(texts, ref, fallback, meant)
    <3> HIDE DEF texts, ref
    <3>1. QED
      BY <2>4, <2>5, ResolutionIsUnrivalled
  <2>7. fallback.id \in meant
    <3> HIDE DEF fallback, texts, ref, meant
    <3>1. QED
      BY <1>4, <2>6 DEF Unrivalled
  <2>8. PICK i \in DOMAIN all : i = fallback.id /\ Means(ref, texts[i], "category")
    <3> HIDE DEF fallback, ref, all
    <3>1. QED
      BY <2>7
  <2>9. texts[i].words = <<all[i].name>>
    BY DEF Plain
  <2>10. all[i].name = Fallback
    <3> HIDE DEF all, texts, ref
    <3>1. CASE ref.words = texts[i].words
      BY <2>5, <2>9, <3>1
    <3>2. CASE Plain(ref.words) \in Aliases(texts[i], "category")
      <4>1. Plain(ref.words).words = ref.words
        BY DEF Plain
      <4>2. ref.words = <<all[i].name>> \/ \E j \in DOMAIN <<all[i].name>> : ref.words = <<(<<all[i].name>>)[j]>>
        BY <2>9, <3>2, <4>1, AliasesAre
      <4>3. ref.words = <<all[i].name>>
        BY <4>2
      <4>4. QED
        BY <2>5, <4>3
    <3>3. QED
      BY <2>8, <3>1, <3>2 DEF Means
  <2> HIDE DEF all, texts, ref, fallback, mine
  <2>11. QED
    BY <2>3, <2>8, <2>10
<1> HIDE DEF best, found, fallback, all, words
<1>5. ASSUME NEW c \in InferCategory(d, type, cats, mapped)
      PROVE  /\ c \in mine
             /\ \/ c.name = Fallback
                \/ \E m \in mapped : NormalizeMerchant(m.merchant) = words /\ m.category = c
                \/ IsWritten(c, words)
  <2>1. CASE best # <<>> /\ best[1].tier < 3
    BY <1>1, <1>3, <1>5, <2>1, StrongIsWritten
  <2>2. CASE ~(best # <<>> /\ best[1].tier < 3)
    <3>1. fallback.kind = "resolved" /\ c = all[fallback.id]
      BY <1>1, <1>5, <2>2
    <3>2. QED
      BY <1>4, <3>1
  <2>3. QED
    BY <2>1, <2>2
<1>6. QED
  BY <1>5 DEF InferenceIsFounded, Remembered, words

LEMMA SameIsSuggested ==
  ASSUME NEW d \in Descriptions, d # <<>>, NEW cats, NEW mapped, NEW type
  PROVE  SameBehindPayment(d, cats, mapped, type)
<1> SUFFICES ASSUME NEW p \in Payments, NEW n \in Numbers,
                    d[1] \notin Payments, d[Len(d)] \notin Numbers
             PROVE  GetSuggestions(<<p>> \o Append(d, n), type, cats, mapped)
                      = GetSuggestions(d, type, cats, mapped)
  BY DEF SameBehindPayment, Payments
<1>1. d \in Seq(STRING)
  BY CategorizationAssumption
<1> DEFINE whole == <<p>> \o Append(d, n)
<1>2. NormalizeMerchant(d) = d /\ NormalizeMerchant(whole) = d
  BY <1>1, SameMerchant
<1> HIDE DEF whole
<1>3. GetSuggestions(whole, type, cats, mapped) = GetSuggestions(d, type, cats, mapped)
  BY <1>2 DEF GetSuggestions
<1>4. QED
  BY <1>3 DEF whole

LEMMA SuggestionsHold ==
  ASSUME NEW d \in Descriptions, d # <<>>, NEW cats \in Mine, NEW mapped \in Mapped,
         {m.category : m \in mapped} \subseteq cats,
         text = d, categories = cats, mappings = mapped
  PROVE  CategoriesAreUnrivalled
<1>1. ASSUME NEW type \in {"INCOME", "EXPENSE"}
      PROVE  /\ Suited(text, categories, mappings, type)
             /\ InferenceIsFounded(text, categories, mappings, type)
             /\ SameBehindPayment(text, categories, mappings, type)
  BY SuggestionsAreSuited, InferredAreSuited, SameIsSuggested
<1>2. QED
  BY <1>1, Zenon DEF CategoriesAreUnrivalled

ResolveInv ==
  kind # "none" => owned \in Seq(Names) /\ reference \in Names

SuggestInv ==
  text # <<>> => /\ text \in Descriptions /\ categories \in Mine /\ mappings \in Mapped
                 /\ {m.category : m \in mappings} \subseteq categories

LEMMA NamesHold ==
  ASSUME ResolveInv
  PROVE  NamesAreUnrivalled
<1> SUFFICES ASSUME kind # "none" PROVE NamesAreUnrivalled
  BY DEF NamesAreUnrivalled
<1> DEFINE meant == {i \in DOMAIN owned : Means(reference, owned[i], kind)}
<1>1. owned \in Seq(Names) /\ reference \in Names
  BY DEF ResolveInv
<1>2. Unrivalled(owned, reference, Resolve(owned, reference, kind), meant)
  BY <1>1, ResolutionIsUnrivalled
<1>3. QED
  BY <1>2 DEF NamesAreUnrivalled, Unrivalled

(* GuessesHold: what is filled in without asking the user has no rival the *)
(* rules can see, whatever the names, the descriptions, the categories,    *)
(* the mappings and the keywords are.                                      *)
THEOREM GuessesHold == ResolveSpec /\ SuggestSpec => []GuessesAreUnrivalled
<1>1. ResolveInit => ResolveInv
  BY DEF ResolveInit, ResolveInv
<1>2. ResolveInv /\ [ResolveNext]_resolveVars => ResolveInv'
  <2> SUFFICES ASSUME ResolveInv, [ResolveNext]_resolveVars PROVE ResolveInv'
    OBVIOUS
  <2>1. CASE ResolveNext
    <3>1. PICK n \in 1..MaxNames : \E all \in [1..n -> Texts], ref \in Texts :
             owned' = all /\ reference' = ref
      BY <2>1 DEF ResolveNext, Refer
    <3>2. PICK all \in [1..n -> Texts], ref \in Texts : owned' = all /\ reference' = ref
      BY <3>1
    <3>3. Texts \subseteq Names
      <4>1. \A w \in Seq(STRING) : w \in Seq(Words)
        BY DEF Words
      <4>2. QED
        BY <4>1, ResolutionAssumption DEF Names
    <3>4. all \in [1..n -> Names] /\ ref \in Names
      BY <3>2, <3>3
    <3>5. n \in Nat
      BY <3>1, ResolutionAssumption
    <3>6. all \in Seq(Names)
      BY <3>4, <3>5
    <3>7. QED
      BY <3>2, <3>4, <3>6 DEF ResolveInv
  <2>2. CASE UNCHANGED resolveVars
    BY <2>2 DEF ResolveInv, resolveVars
  <2>3. QED
    BY <2>1, <2>2
<1>3. SuggestInit => SuggestInv
  BY DEF SuggestInit, SuggestInv
<1>4. SuggestInv /\ [SuggestNext]_suggestVars => SuggestInv'
  BY DEF SuggestInv, SuggestNext, Describe, suggestVars
<1>5. ResolveInv /\ SuggestInv => GuessesAreUnrivalled
  BY NamesHold, SuggestionsHold DEF SuggestInv, GuessesAreUnrivalled
<1>6. QED
  BY <1>1, <1>2, <1>3, <1>4, <1>5, PTL DEF ResolveSpec, SuggestSpec

-----------------------------------------------------------------------------
(***************************************************************************)
(* The whole Assistant: Spec, the specification its run checks.  Requests  *)
(* and selections write the rows of one conversation.  Whoever writes them *)
(* keeps its own invariant, with it the rows' types, and leaves what the   *)
(* others remember alone.                                                  *)
(***************************************************************************)

RequestTypes ==
  /\ req \in [Requests -> Request \cup {NoRequest}]
  /\ pc \in [Requests -> Steps]
  /\ outcome \in [Requests -> Outcomes]
  /\ answer \in [Requests -> Answers]
  /\ names \in [Requests -> Requests \cup {None}]
  /\ keyRec \in [Keys -> [status : {"free", "RUNNING", "COMPLETED"},
                          op : {"none", "execute", "messages"},
                          by : Requests \cup {None}, answer : Answers]]
  /\ drafts \in SUBSET Requests /\ asked \in SUBSET Requests
  /\ audit \in [Requests -> AuditStatus]
  /\ failures \in 0..MaxFaults /\ crashes \in 0..MaxFaults /\ moves \in 0..MaxMoves

SelectionTypes ==
  /\ question \in [Procs -> Question]
  /\ expired \in SUBSET Procs /\ byId \in BOOLEAN
  /\ spc \in [Selects -> SelectSteps]
  /\ sanswer \in [Selects -> SelectAnswers]
  /\ cont \in [Selects -> {"none"} \cup Committed]
  /\ sdrafts \in SUBSET Selects /\ sfaults \in 0..MaxSelectFaults

AssistantInv ==
  /\ RequestTypes /\ SelectionTypes
  /\ scene = "questions" => ClarInv
  /\ scene # "questions" => TurnInv

LEMMA TypesTogether ==
  /\ TurnTypeOK <=> StoreTypeOK /\ RequestTypes
  /\ ClarTypeOK <=> StoreTypeOK /\ SelectionTypes
BY DEF TurnTypeOK, ClarTypeOK, RequestTypes, SelectionTypes

LEMMA InvariantsType ==
  /\ TurnInv => StoreTypeOK /\ RequestTypes
  /\ ClarInv => StoreTypeOK /\ SelectionTypes
BY TypesTogether DEF TurnInv, ClarInv, TypeInv

LEMMA InvariantsTypeNext ==
  /\ TurnInv' => RequestTypes'
  /\ ClarInv' => SelectionTypes'
BY InvariantsType, PTL

LEMMA IdleTypes ==
  /\ TurnIdle => RequestTypes
  /\ ClarIdle => SelectionTypes
<1>1. ASSUME TurnIdle PROVE RequestTypes
  BY <1>1, TurnAssumption DEF TurnIdle, RequestTypes, Steps, Outcomes, Answers, NoRecord, AuditStatus
<1>2. ASSUME ClarIdle PROVE SelectionTypes
  <2>1. NoQuestion \in Question
    BY ContextsAre DEF NoQuestion, Question, QuestionStatus
  <2>2. question \in [Procs -> Question]
    BY <1>2, <2>1 DEF ClarIdle
  <2>3. /\ expired \in SUBSET Procs /\ byId \in BOOLEAN /\ sdrafts \in SUBSET Selects
        /\ sfaults \in 0..MaxSelectFaults
    <3>1. expired = {} /\ byId = FALSE /\ sdrafts = {} /\ sfaults = 0
      BY <1>2 DEF ClarIdle
    <3>2. sfaults \in 0..MaxSelectFaults
      BY <3>1, SelectAssumption
    <3>3. QED
      BY <3>1, <3>2
  <2>4. /\ spc \in [Selects -> SelectSteps] /\ sanswer \in [Selects -> SelectAnswers]
        /\ cont \in [Selects -> {"none"} \cup Committed]
    BY <1>2 DEF ClarIdle, SelectSteps, SelectAnswers
  <2>5. QED
    BY <2>2, <2>3, <2>4 DEF SelectionTypes
<1>3. QED
  BY <1>1, <1>2

LEMMA OnlyRequestsKeep ==
  ASSUME RequestTypes, UNCHANGED turnOnly
  PROVE  RequestTypes'
BY DEF RequestTypes, turnOnly

LEMMA OnlySelectionsKeep ==
  ASSUME SelectionTypes, UNCHANGED clarOnly
  PROVE  SelectionTypes'
BY DEF SelectionTypes, clarOnly

LEMMA AssistantBegins == Init => AssistantInv
<1> SUFFICES ASSUME Init PROVE AssistantInv
  OBVIOUS
<1>1. CASE scene = "questions" /\ ClarInit /\ TurnIdle
  <2>1. ClarInv
    BY <1>1, InitClarInv
  <2>2. QED
    BY <1>1, <2>1, InvariantsType, IdleTypes DEF AssistantInv
<1>2. CASE scene # "questions" /\ TurnInit /\ ClarIdle
  <2>1. TurnInv
    BY <1>2, InitHolds
  <2>2. QED
    BY <1>2, <2>1, InvariantsType, IdleTypes DEF AssistantInv
<1>3. QED
  BY <1>1, <1>2 DEF Init

LEMMA AssistantSteps == AssistantInv /\ [Next]_vars => AssistantInv'
<1> SUFFICES ASSUME AssistantInv, [Next]_vars PROVE AssistantInv'
  OBVIOUS
<1>1. TurnInv /\ [TurnNext]_turnVars => TurnInv'
  BY StepTurnInv
<1>2. ClarInv /\ [ClarNext]_clarVars => ClarInv'
  BY StepClarInv
<1>3. UNCHANGED scene
  BY DEF Next, vars
<1>4. CASE AskStep
  <2>1. TurnInv'
    BY <1>1, <1>4 DEF AskStep, AssistantInv
  <2>2. SelectionTypes'
    BY <1>4, OnlySelectionsKeep DEF AskStep, AssistantInv
  <2>3. scene' # "questions"
    BY <1>3, <1>4 DEF AskStep
  <2>4. RequestTypes'
    BY <2>1, InvariantsTypeNext
  <2>5. QED
    BY <2>1, <2>2, <2>3, <2>4 DEF AssistantInv
<1>5. CASE SelectStep
  <2>1. ClarInv'
    BY <1>2, <1>5 DEF SelectStep, AssistantInv
  <2>2. RequestTypes'
    BY <1>5, OnlyRequestsKeep DEF SelectStep, AssistantInv
  <2>3. scene' = "questions"
    BY <1>3, <1>5 DEF SelectStep
  <2>4. SelectionTypes'
    BY <2>1, InvariantsTypeNext
  <2>5. QED
    BY <2>1, <2>2, <2>3, <2>4 DEF AssistantInv
<1>6. CASE UNCHANGED <<turnOnly, clarOnly, storeVars>>
  <2>1. UNCHANGED turnVars /\ UNCHANGED clarVars
    BY <1>6 DEF turnOnly, clarOnly, turnVars, clarVars
  <2>2. RequestTypes' /\ SelectionTypes'
    BY <1>6, OnlyRequestsKeep, OnlySelectionsKeep DEF AssistantInv
  <2>3. (scene = "questions" => ClarInv') /\ (scene # "questions" => TurnInv')
    BY <1>1, <1>2, <2>1 DEF AssistantInv
  <2>4. QED
    BY <1>3, <2>2, <2>3 DEF AssistantInv
<1>7. QED
  <2>1. CASE UNCHANGED vars
    <3>1. UNCHANGED <<turnOnly, clarOnly, storeVars>>
      BY <2>1 DEF vars, turnVars, clarVars, turnOnly, clarOnly
    <3>2. QED
      BY <1>6, <3>1
  <2>2. CASE Next
    BY <1>4, <1>5, <1>6, <2>2 DEF Next, PureStep
  <2>3. QED
    BY <2>1, <2>2

(* The rows of a conversation, its requests and its selections are well    *)
(* typed in every reachable state of the whole, whoever writes them.       *)
THEOREM AssistantTypeCorrect == Spec => []AssistantTypeOK
<1>1. AssistantInv => AssistantTypeOK
  <2> SUFFICES ASSUME AssistantInv PROVE AssistantTypeOK
    OBVIOUS
  <2>1. StoreTypeOK
    BY InvariantsType DEF AssistantInv
  <2>2. QED
    BY <2>1, TypesTogether DEF AssistantInv, AssistantTypeOK
<1>2. QED
  BY <1>1, AssistantBegins, AssistantSteps, PTL DEF Spec
=============================================================================
