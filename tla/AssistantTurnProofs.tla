------------------------ MODULE AssistantTurnProofs ------------------------
(***************************************************************************)
(* Theorems about requests to the Assistant, for any number of requests,   *)
(* keys, conversations, faults and interventions: the types, that a key    *)
(* runs one execution, that answers agree with the history, that leftovers *)
(* have a cause, and that finished turns stay as they are.                 *)
(***************************************************************************)
EXTENDS AssistantTurn, TLAPS

(* Where a request is: before it holds its key, before its turn exists,    *)
(* while the turn is open, and once it has its answer.                     *)
Early   == {"unsent", "claim", "claimRead"}
Before  == {"establish", "prepare", "provider", "check", "begin"}
Within  == {"rejected", "running", "tool", "decide", "effect", "finalize", "say"}
After   == {"audit", "resolve"}
Holding == Before \cup Within \cup After \cup {"release"}

RoutesOK(r) ==
  /\ pc[r] # "unsent" => req[r] \in Request
  /\ pc[r] \in {"claim", "claimRead", "resolve", "release"} => Keyed(r)
  /\ pc[r] \in {"establish", "prepare", "provider", "say", "audit"} => req[r].op = "messages"
  /\ pc[r] = "begin" => outcome[r] \in {"accepted", "rejected"} \cup SayOutcomes
  /\ pc[r] = "begin" /\ outcome[r] \in SayOutcomes => req[r].op = "messages"
  /\ pc[r] = "say" => outcome[r] \in SayOutcomes
  /\ pc[r] = "effect" => outcome[r] \in {"asked", "drafted"}
  /\ pc[r] = "finalize" => outcome[r] \in ToolOutcomes

TurnStands(r) ==
  /\ pc[r] \in Early \cup Before => turn[r] = "none"
  /\ pc[r] \in Within \cup After => turn[r] # "none"
  /\ turn[r] = "none" => at[r] = None
  /\ turn[r] # "none" /\ req[r].op = "messages" => at[r] = Target(r)
  /\ pc[r] \in Early \cup Before \cup Within =>
       said[r] = 0 /\ names[r] = None /\ (turn[r] \in Terminal => r \in reconciled)

(* A draft is written last: no step that can throw is left. *)
DraftStands(r) ==
  /\ r \in drafts => /\ turn[r] \notin {"none", "gone"}
                     /\ pc[r] \in {"finalize"} \cup After \cup {"done", "dead"}
  /\ pc[r] = "finalize" /\ r \in drafts =>
       /\ outcome[r] \in {"drafted", "draftFailed"}
       /\ failures = 0 => outcome[r] = "drafted"
  /\ pc[r] = "finalize" /\ outcome[r] = "drafted" /\ turn[r] # "gone" => r \in drafts

(* What its client is told of the request's own turn. *)
ToldTruly(r) ==
  /\ \/ turn[r] = TurnOfAnswer[answer[r]]
     \/ answer[r] = "error" /\ failures > 0
     \/ outcome[r] = "unsafe" /\ turn[r] = "REJECTED"
  /\ answer[r] = "success" /\ outcome[r] = "drafted" => r \in drafts

AnswerStands(r) ==
  /\ pc[r] = "release" => names[r] = None /\ answer[r] = "thrown"
  /\ pc[r] \in After => names[r] = r
  /\ names[r] # None => pc[r] \in After \cup {"done", "dead"}
  /\ names[r] = r => turn[r] # "none" /\ answer[r] \in DOMAIN TurnOfAnswer
  /\ names[r] = r /\ turn[r] # "gone" => ToldTruly(r)

EndStands(r) ==
  failures = 0 /\ pc[r] \in After \cup {"release", "done"} =>
    /\ turn[r] \in {"PENDING", "RUNNING"} => outcome[r] = "throws"
    /\ r \in drafts => answer[r] = "success"

AuditStands(r) ==
  /\ pc[r] \in Early => audit[r] = "none"
  /\ audit[r] = "STARTED" => req[r].op = "messages" /\ turn[r] # "gone"
  /\ failures = 0 /\ pc[r] \in {"resolve", "done"} /\ audit[r] = "STARTED"
       => answer[r] = "thrown"

RequestInv(r) ==
  /\ RoutesOK(r) /\ TurnStands(r) /\ DraftStands(r)
  /\ AnswerStands(r) /\ EndStands(r) /\ AuditStands(r)

(* Keys: a request holds its key from its claim to its end, and the record *)
(* outlives it; a replay answers what the record's turn answered.          *)
Owner(k, r) == keyRec[k].status # "free" /\ keyRec[k].by = r

KeyInv(k) ==
  /\ keyRec[k].status # "free" =>
       /\ keyRec[k].by \in Requests /\ req[keyRec[k].by].key = k
       /\ pc[keyRec[k].by] \notin Early
  /\ keyRec[k].status = "COMPLETED" =>
       /\ pc[keyRec[k].by] = "done" /\ names[keyRec[k].by] = keyRec[k].by
       /\ keyRec[k].answer = answer[keyRec[k].by]
  /\ keyRec[k].status = "RUNNING" /\ pc[keyRec[k].by] = "done" /\ failures = 0
       => turn[keyRec[k].by] = "gone"

HoldInv(r) ==
  Keyed(r) =>
    /\ pc[r] \in Holding => Owner(req[r].key, r) /\ keyRec[req[r].key].status = "RUNNING"
    /\ r \in drafts => Owner(req[r].key, r)

NameInv(r) ==
  names[r] # None =>
    /\ names[r] \in Requests /\ names[names[r]] = names[r] /\ answer[r] = answer[names[r]]
    /\ names[r] # r => pc[names[r]] = "done"
    /\ Keyed(r) /\ turn[names[r]] # "gone" => Owner(req[r].key, names[r])

KeysInv ==
  /\ \A r \in Requests : HoldInv(r) /\ NameInv(r)
  /\ \A k \in Keys : KeyInv(k)

TurnInv ==
  /\ TurnTypeOK
  /\ \A r \in Requests : RequestInv(r)
  /\ KeysInv

-----------------------------------------------------------------------------
(* One request moves *)

(* Its control moves to p, its outcome, answer and named turn become o, a  *)
(* and n.                                                                  *)
Acts(r, p, o, a, n) ==
  /\ pc' = [pc EXCEPT ![r] = p]
  /\ outcome' = [outcome EXCEPT ![r] = o]
  /\ answer' = [answer EXCEPT ![r] = a]
  /\ names' = [names EXCEPT ![r] = n]

(* Its turn becomes t, in conversation w, with m messages. *)
Stores(r, t, w, m) ==
  /\ turn' = [turn EXCEPT ![r] = t]
  /\ at' = [at EXCEPT ![r] = w]
  /\ said' = [said EXCEPT ![r] = m]
  /\ conv' \in [Conversations -> ConversationStatus]
  /\ exec' \in [Procs -> ExecStatus]
  /\ UNCHANGED reconciled

(* The rows that hang off other requests stay. *)
RowsOfOthers(r) ==
  /\ drafts' \in SUBSET Requests /\ asked' \in SUBSET Requests
  /\ audit' \in [Requests -> AuditStatus]
  /\ \A q \in Requests \ {r} : (q \in drafts' <=> q \in drafts) /\ audit'[q] = audit[q]

Faults == /\ failures' \in 0..MaxFaults /\ crashes' \in 0..MaxFaults /\ moves' \in 0..MaxMoves
          /\ failures \in Nat /\ failures' >= failures

LEMMA RequestsAre ==
  /\ Requests \subseteq Procs /\ Requests \subseteq Conversations /\ Convs \subseteq Conversations
  /\ None \notin Requests /\ None \notin Conversations /\ None \notin Keys
  BY StoreAssumption, TurnAssumption DEF Procs, Conversations

LEMMA ActsType ==
  ASSUME TurnTypeOK, NEW r \in Requests, NEW p \in Steps, NEW o \in Outcomes, NEW a \in Answers,
         NEW n \in Requests \cup {None}, Acts(r, p, o, a, n),
         NEW t \in TurnStatus, NEW w \in Conversations \cup {None}, NEW m \in 0..1,
         Stores(r, t, w, m), RowsOfOthers(r), Faults,
         req' \in [Requests -> Request \cup {NoRequest}],
         keyRec' = keyRec \/ (keyRec \in [Keys -> [status : {"free", "RUNNING", "COMPLETED"},
                          op : {"none", "execute", "messages"},
                          by : Requests \cup {None}, answer : Answers]])'
  PROVE  TurnTypeOK'
<1>1. StoreTypeOK'
  BY RequestsAre DEF TurnTypeOK, StoreTypeOK, Stores
<1>2. QED
  BY <1>1 DEF TurnTypeOK, Acts, RowsOfOthers, Faults

(* Nothing of a request changes that its invariant reads. *)
SameRequest(q) ==
  /\ req'[q] = req[q] /\ pc'[q] = pc[q] /\ outcome'[q] = outcome[q]
  /\ answer'[q] = answer[q] /\ names'[q] = names[q] /\ audit'[q] = audit[q]
  /\ turn'[q] = turn[q] /\ at'[q] = at[q] /\ said'[q] = said[q]
  /\ q \in drafts' <=> q \in drafts

LEMMA SameKeepsInv ==
  ASSUME TurnTypeOK, NEW q \in Requests, RequestInv(q), SameRequest(q), Faults,
         reconciled \subseteq reconciled'
  PROVE  RequestInv(q)'
<1>1. (Keyed(q)' <=> Keyed(q)) /\ Target(q)' = Target(q)
  BY DEF SameRequest, Keyed, Target
<1>2. (failures' = 0 => failures = 0) /\ (failures > 0 => failures' > 0)
  BY DEF Faults, TurnTypeOK
<1>3. RoutesOK(q)'
  BY <1>1 DEF RequestInv, SameRequest, RoutesOK
<1>4. TurnStands(q)'
  BY <1>1 DEF RequestInv, SameRequest, TurnStands
<1>5. DraftStands(q)'
  BY <1>2 DEF RequestInv, SameRequest, DraftStands
<1>6. AnswerStands(q)'
  BY <1>2 DEF RequestInv, SameRequest, AnswerStands, ToldTruly
<1>7. EndStands(q)'
  BY <1>2 DEF RequestInv, SameRequest, EndStands
<1>8. AuditStands(q)'
  BY <1>2 DEF RequestInv, SameRequest, AuditStands
<1>9. QED
  BY <1>3, <1>4, <1>5, <1>6, <1>7, <1>8 DEF RequestInv

LEMMA OthersSame ==
  ASSUME TurnTypeOK, NEW r \in Requests, NEW p, NEW o, NEW a, NEW n, Acts(r, p, o, a, n),
         NEW t, NEW w, NEW m, Stores(r, t, w, m), RowsOfOthers(r),
         \A q \in Requests \ {r} : req'[q] = req[q]
  PROVE  \A q \in Requests \ {r} : SameRequest(q)
<1> SUFFICES ASSUME NEW q \in Requests \ {r} PROVE SameRequest(q)
  OBVIOUS
<1>1. q \in Procs /\ r \in Procs
  BY RequestsAre
<1>2. turn'[q] = turn[q] /\ at'[q] = at[q] /\ said'[q] = said[q]
  BY <1>1 DEF Stores, TurnTypeOK, StoreTypeOK
<1>3. /\ pc'[q] = pc[q] /\ outcome'[q] = outcome[q]
      /\ answer'[q] = answer[q] /\ names'[q] = names[q]
  BY DEF Acts, TurnTypeOK
<1>4. QED
  BY <1>2, <1>3 DEF SameRequest, RowsOfOthers

LEMMA ItsOwn ==
  ASSUME TurnTypeOK, NEW r \in Requests, NEW p, NEW o, NEW a, NEW n, Acts(r, p, o, a, n),
         NEW t, NEW w, NEW m, Stores(r, t, w, m)
  PROVE  /\ pc'[r] = p /\ outcome'[r] = o /\ answer'[r] = a /\ names'[r] = n
         /\ turn'[r] = t /\ at'[r] = w /\ said'[r] = m
<1>1. r \in Procs
  BY RequestsAre
<1>2. QED
  BY <1>1 DEF Acts, Stores, TurnTypeOK, StoreTypeOK

-----------------------------------------------------------------------------
(* The keys, at a step of request r *)

(* Who holds a record is past its claim, so a request that has not claimed *)
(* holds none.                                                             *)
LEMMA KeyOfHolder ==
  ASSUME TurnTypeOK, KeysInv, NEW k \in Keys, keyRec[k].status # "free"
  PROVE  /\ keyRec[k].by \in Requests /\ Keyed(keyRec[k].by) /\ req[keyRec[k].by].key = k
         /\ pc[keyRec[k].by] \notin Early
<1>1. KeyInv(k)
  BY DEF KeysInv
<1>2. QED
  BY <1>1, RequestsAre DEF KeyInv, Keyed

(* What another request holds, replays and was told is untouched. *)
LEMMA OtherKeys ==
  ASSUME TurnTypeOK, KeysInv, NEW r \in Requests, pc[r] # "done",
         NEW q \in Requests \ {r}, \A x \in Requests \ {r} : SameRequest(x),
         \A k \in Keys : keyRec[k].status # "free" /\ keyRec[k].by # r => keyRec'[k] = keyRec[k]
  PROVE  HoldInv(q)' /\ NameInv(q)'
<1>1. SameRequest(q) /\ HoldInv(q) /\ NameInv(q)
  BY DEF KeysInv
<1>2. (Keyed(q)' <=> Keyed(q)) /\ req'[q] = req[q]
  BY <1>1 DEF SameRequest, Keyed
<1>3. ASSUME NEW t \in Requests, t # r, Keyed(q), Owner(req[q].key, t)
      PROVE  keyRec'[req[q].key] = keyRec[req[q].key]
  <2>1. req[q].key \in Keys
    BY <1>3, RequestsAre DEF Keyed, TurnTypeOK, Request, NoRequest
  <2>2. QED
    BY <1>3, <2>1 DEF Owner
<1>4. HoldInv(q)'
  BY <1>1, <1>2, <1>3 DEF HoldInv, Owner, SameRequest
<1>5. NameInv(q)'
  <2> SUFFICES ASSUME names[q] # None PROVE NameInv(q)'
    BY <1>1 DEF NameInv, SameRequest
  <2>1. PICK t \in Requests : /\ t = names[q] /\ names[t] = t /\ answer[q] = answer[t]
                              /\ t # q => pc[t] = "done"
                              /\ Keyed(q) /\ turn[t] # "gone" => Owner(req[q].key, t)
    BY <1>1 DEF NameInv
  <2>2. t # r
    BY <2>1
  <2>3. SameRequest(t)
    BY <2>2
  <2>4. names'[q] = t /\ names'[t] = t /\ answer'[q] = answer'[t] /\ (t # q => pc'[t] = "done")
    BY <1>1, <2>1, <2>3 DEF SameRequest
  <2>5. Keyed(q)' /\ turn'[t] # "gone" => Owner(req[q].key, t)'
    BY <1>2, <1>3, <2>1, <2>2, <2>3 DEF SameRequest, Owner
  <2>6. QED
    BY <1>2, <2>4, <2>5 DEF NameInv, Owner
<1>6. QED
  BY <1>4, <1>5

(* A record of another request keeps its meaning. *)
LEMMA OtherRecords ==
  ASSUME TurnTypeOK, KeysInv, NEW r \in Requests, Faults,
         \A x \in Requests \ {r} : SameRequest(x),
         NEW k \in Keys, keyRec[k].status = "free" \/ keyRec[k].by # r, keyRec'[k] = keyRec[k]
  PROVE  KeyInv(k)'
<1>1. KeyInv(k)
  BY DEF KeysInv
<1>2. failures' = 0 => failures = 0
  BY DEF Faults
<1>3. CASE keyRec[k].status = "free"
  BY <1>3 DEF KeyInv
<1>4. CASE keyRec[k].status # "free"
  <2>1. SameRequest(keyRec[k].by) /\ keyRec[k].by \in Requests
    BY <1>1, <1>4 DEF KeyInv
  <2>2. QED
    BY <1>1, <1>2, <2>1 DEF KeyInv, SameRequest
<1>5. QED
  BY <1>3, <1>4

(* A step of a request that holds its key, or needs none, and leaves it.   *)
LEMMA HolderKeepsKeys ==
  ASSUME TurnTypeOK, KeysInv, NEW r \in Requests, pc[r] \in Holding, Faults,
         \A x \in Requests \ {r} : SameRequest(x), keyRec' = keyRec, req'[r] = req[r],
         pc'[r] \in Holding \cup {"done", "dead"},
         pc'[r] = "done" => ~Keyed(r) \/ failures' > 0,
         names[r] \in {None, r},
         \/ names'[r] = names[r] /\ (names[r] = None \/ answer'[r] = answer[r])
         \/ names'[r] = r
  PROVE  KeysInv'
<1>1. pc[r] # "done" /\ pc[r] \notin Early /\ pc'[r] \notin Early
  BY DEF Holding, Before, Within, After, Early
<1>2. \A q \in Requests \ {r} : HoldInv(q)' /\ NameInv(q)'
  BY <1>1, OtherKeys
<1>3. HoldInv(r) /\ NameInv(r)
  BY DEF KeysInv
<1>4. HoldInv(r)'
  BY <1>3 DEF HoldInv, Owner, Keyed
<1>5. NameInv(r)'
  BY <1>3 DEF HoldInv, NameInv, Owner, Keyed
<1>6. ASSUME NEW k \in Keys, keyRec[k].status # "free", keyRec[k].by = r PROVE KeyInv(k)'
  <2>1. KeyInv(k) /\ Keyed(r)
    BY <1>6, KeyOfHolder DEF KeysInv
  <2>2. keyRec[k].status # "COMPLETED"
    BY <1>1, <1>6, <2>1 DEF KeyInv
  <2>3. (failures' > 0) => failures' # 0
    BY DEF Faults
  <2>4. QED
    BY <1>1, <1>6, <2>1, <2>2, <2>3 DEF KeyInv
<1>7. \A k \in Keys : KeyInv(k)'
  BY <1>6, OtherRecords
<1>8. QED
  BY <1>2, <1>4, <1>5, <1>7 DEF KeysInv

(* A step of a request that has not claimed a key and does not now. *)
LEMMA EarlyKeepsKeys ==
  ASSUME TurnTypeOK, KeysInv, NEW r \in Requests, pc[r] \in Early, Faults,
         \A x \in Requests \ {r} : SameRequest(x), keyRec' = keyRec,
         pc'[r] \in Holding => ~Keyed(r)', r \notin drafts', NameInv(r)'
  PROVE  KeysInv'
<1>1. pc[r] # "done"
  BY DEF Early
<1>2. \A q \in Requests \ {r} : HoldInv(q)' /\ NameInv(q)'
  BY <1>1, OtherKeys
<1>3. HoldInv(r)'
  BY DEF HoldInv
<1>4. \A k \in Keys : KeyInv(k)'
  BY KeyOfHolder, OtherRecords
<1>5. QED
  BY <1>2, <1>3, <1>4 DEF KeysInv

-----------------------------------------------------------------------------
(* Steps of a request that holds its key or needs none *)

LEMMA HolderStep ==
  ASSUME TurnInv, NEW r \in Requests, pc[r] \in Holding,
         NEW p \in Steps, NEW o \in Outcomes, NEW a \in Answers, NEW n \in Requests \cup {None},
         Acts(r, p, o, a, n),
         NEW t \in TurnStatus, NEW w \in Conversations \cup {None}, NEW m \in 0..1,
         Stores(r, t, w, m), RowsOfOthers(r), Faults, UNCHANGED <<req, keyRec>>,
         p \in Holding \cup {"done", "dead"}, p = "done" => ~Keyed(r) \/ failures' > 0,
         names[r] \in {None, r},
         \/ n = names[r] /\ (names[r] = None \/ a = answer[r])
         \/ n = r,
         RequestInv(r)'
  PROVE  TurnInv'
<1>1. TurnTypeOK'
  BY ActsType DEF TurnInv, TurnTypeOK
<1>2. \A q \in Requests \ {r} : SameRequest(q)
  BY OthersSame DEF TurnInv
<1>3. \A q \in Requests : RequestInv(q)'
  <2>1. reconciled \subseteq reconciled'
    BY DEF Stores
  <2>2. QED
    BY <1>2, <2>1, SameKeepsInv DEF TurnInv
<1>4. pc'[r] = p /\ answer'[r] = a /\ names'[r] = n
  BY ItsOwn DEF TurnInv
<1>5. KeysInv'
  BY <1>2, <1>4, HolderKeepsKeys DEF TurnInv
<1>6. QED
  BY <1>1, <1>3, <1>5 DEF TurnInv

LEMMA ValuesAre ==
  ASSUME TurnTypeOK, NEW r \in Requests
  PROVE  /\ pc[r] \in Steps /\ outcome[r] \in Outcomes /\ answer[r] \in Answers
         /\ names[r] \in Requests \cup {None}
         /\ turn[r] \in TurnStatus /\ at[r] \in Conversations \cup {None} /\ said[r] \in 0..1
         /\ audit[r] \in AuditStatus
         /\ outcome = [outcome EXCEPT ![r] = outcome[r]]
         /\ answer = [answer EXCEPT ![r] = answer[r]]
         /\ names = [names EXCEPT ![r] = names[r]]
  BY RequestsAre DEF TurnTypeOK, StoreTypeOK

LEMMA StoreStays ==
  ASSUME TurnTypeOK, NEW r \in Requests, UNCHANGED <<turn, at, exec, said, reconciled>>,
         conv' \in [Conversations -> ConversationStatus]
  PROVE  Stores(r, turn[r], at[r], said[r])
  BY RequestsAre DEF TurnTypeOK, StoreTypeOK, Stores

LEMMA RowsStay ==
  ASSUME TurnTypeOK, NEW r \in Requests, UNCHANGED <<drafts, asked, audit>>
  PROVE  RowsOfOthers(r)
  BY DEF TurnTypeOK, RowsOfOthers

LEMMA NoFault ==
  ASSUME TurnTypeOK, UNCHANGED faultVars
  PROVE  Faults
  BY TurnAssumption DEF TurnTypeOK, faultVars, Faults

(* The request throws: its client is told, its key is released. *)
LEMMA ThrowStep ==
  ASSUME TurnInv, NEW r \in Requests, pc[r] \in Before \cup Within, Throw(r),
         NEW o \in Outcomes, outcome' = [outcome EXCEPT ![r] = o], Faults,
         conv' \in [Conversations -> ConversationStatus],
         UNCHANGED <<turn, at, exec, said, reconciled, names, req, rowVars>>,
         r \notin drafts,
         failures' = 0 /\ turn[r] \in {"PENDING", "RUNNING"} => o = "throws"
  PROVE  TurnInv'
<1>1. TurnTypeOK /\ RequestInv(r)
  BY DEF TurnInv
<1>2. PICK p : p = IF Keyed(r) THEN "release" ELSE "done"
  OBVIOUS
<1>3. Acts(r, p, o, "thrown", names[r])
  BY <1>1, <1>2, ValuesAre DEF Throw, Goto, Acts
<1>4. Stores(r, turn[r], at[r], said[r]) /\ RowsOfOthers(r)
  BY <1>1, StoreStays, RowsStay DEF rowVars
<1>5. /\ pc'[r] = p /\ outcome'[r] = o /\ answer'[r] = "thrown" /\ names'[r] = names[r]
      /\ turn'[r] = turn[r] /\ at'[r] = at[r] /\ said'[r] = said[r]
  BY <1>1, <1>3, <1>4, ItsOwn
<1>6. names[r] = None /\ pc[r] \notin Early
  BY <1>1 DEF RequestInv, TurnStands, Early, Before, Within
<1>7. (Keyed(r)' <=> Keyed(r)) /\ Target(r)' = Target(r)
  BY DEF Keyed, Target
<1>8. RequestInv(r)'
  <2>1. RoutesOK(r)'
    BY <1>1, <1>2, <1>5, <1>7 DEF RequestInv, RoutesOK, Before, Within
  <2>2. TurnStands(r)'
    BY <1>1, <1>2, <1>5, <1>7 DEF RequestInv, TurnStands, Early, Before, Within, After
  <2>3. DraftStands(r)'
    BY <1>2, <1>5 DEF DraftStands, rowVars
  <2>4. AnswerStands(r)'
    BY <1>2, <1>5, <1>6, RequestsAre DEF AnswerStands, After
  <2>5. EndStands(r)'
    BY <1>5 DEF EndStands, rowVars
  <2>6. AuditStands(r)'
    BY <1>1, <1>2, <1>5 DEF RequestInv, AuditStands, Early, rowVars
  <2>7. QED
    BY <2>1, <2>2, <2>3, <2>4, <2>5, <2>6 DEF RequestInv
<1>9. p \in Steps /\ p \in Holding \cup {"done", "dead"} /\ "thrown" \in Answers
      /\ (p = "done" => ~Keyed(r))
  BY <1>2 DEF Steps, Holding, Answers
<1>10. pc[r] \in Holding /\ UNCHANGED <<req, keyRec>>
  BY DEF Holding, rowVars
<1>11. QED
  BY <1>1, <1>3, <1>4, <1>6, <1>8, <1>9, <1>10, ValuesAre, HolderStep

(* The request goes on to its next step. *)
LEMMA AdvanceStep ==
  ASSUME TurnInv, NEW r \in Requests, pc[r] \in Before \cup Within,
         NEW step \in Before \cup Within, Goto(r, step),
         NEW o \in Outcomes, outcome' = [outcome EXCEPT ![r] = o],
         UNCHANGED <<answer, names, req, keyRec>>, Faults, RowsOfOthers(r),
         NEW t \in TurnStatus, NEW w \in Conversations \cup {None}, Stores(r, t, w, 0),
         step \in {"establish", "prepare", "provider", "say"} => req[r].op = "messages",
         step = "begin" => o \in {"accepted", "rejected"} \cup SayOutcomes,
         step = "begin" /\ o \in SayOutcomes => req[r].op = "messages",
         step = "say" => o \in SayOutcomes,
         step = "effect" => o \in {"asked", "drafted"},
         step = "finalize" => o \in ToolOutcomes,
         step \in Before <=> t = "none", t = "none" => w = None,
         t # "none" /\ req[r].op = "messages" => w = Target(r),
         t \in Terminal => r \in reconciled,
         r \in drafts' => /\ t \notin {"none", "gone"} /\ step = "finalize"
                          /\ o \in {"drafted", "draftFailed"}
                          /\ failures' = 0 => o = "drafted",
         step = "finalize" /\ o = "drafted" /\ t # "gone" => r \in drafts',
         audit'[r] = "STARTED" => req[r].op = "messages" /\ t # "gone"
  PROVE  TurnInv'
<1>1. TurnTypeOK /\ RequestInv(r)
  BY DEF TurnInv
<1>2. Acts(r, step, o, answer[r], names[r])
  BY <1>1, ValuesAre DEF Goto, Acts
<1>3. /\ pc'[r] = step /\ outcome'[r] = o /\ answer'[r] = answer[r] /\ names'[r] = names[r]
      /\ turn'[r] = t /\ at'[r] = w /\ said'[r] = 0
  BY <1>1, <1>2, ItsOwn
<1>4. names[r] = None /\ req[r] \in Request
  BY <1>1 DEF RequestInv, TurnStands, RoutesOK, Before, Within
<1>5. (Keyed(r)' <=> Keyed(r)) /\ Target(r)' = Target(r)
  BY DEF Keyed, Target
<1>6. step \in Steps /\ step \in Holding /\ step \notin Early \cup After \cup {"release", "done", "dead"}
      /\ step \notin {"claim", "claimRead", "resolve", "release", "audit", "unsent"}
      /\ pc[r] \in Holding
  BY DEF Before, Within, After, Early, Steps, Holding
<1>7. RequestInv(r)'
  <2>1. RoutesOK(r)'
    BY <1>3, <1>4, <1>5, <1>6 DEF RoutesOK
  <2>2. TurnStands(r)'
    BY <1>3, <1>4, <1>5, <1>6 DEF TurnStands, Stores, Before, Within
  <2>3. DraftStands(r)'
    BY <1>3, <1>6 DEF DraftStands
  <2>4. AnswerStands(r)'
    BY <1>3, <1>4, <1>6, RequestsAre DEF AnswerStands
  <2>5. EndStands(r)'
    BY <1>3, <1>6 DEF EndStands
  <2>6. AuditStands(r)'
    BY <1>3, <1>6 DEF AuditStands
  <2>7. QED
    BY <2>1, <2>2, <2>3, <2>4, <2>5, <2>6 DEF RequestInv
<1>8. 0 \in 0..1 /\ step # "done"
  BY <1>6
<1>9. QED
  BY <1>1, <1>2, <1>4, <1>6, <1>7, <1>8, ValuesAre, HolderStep

(* The request has its result. *)
LEMMA FinishedStep ==
  ASSUME TurnInv, NEW r \in Requests, pc[r] \in {"rejected", "finalize", "say"},
         NEW a \in Answers, Finished(r, a),
         NEW o \in Outcomes, outcome' = [outcome EXCEPT ![r] = o],
         UNCHANGED <<req, rowVars>>, Faults,
         NEW t \in TurnStatus \ {"none"}, NEW m \in 0..1, Stores(r, t, at[r], m),
         t = "gone" => turn[r] = "gone",
         a \in DOMAIN TurnOfAnswer, t # "gone" => ToldTruly(r)',
         failures' = 0 => /\ t \notin {"PENDING", "RUNNING"}
                          /\ r \in drafts => a = "success",
         r \in drafts => pc[r] = "finalize"
  PROVE  TurnInv'
<1>1. TurnTypeOK /\ RequestInv(r)
  BY DEF TurnInv
<1>2. names[r] = None /\ req[r] \in Request /\ turn[r] # "none"
  BY <1>1 DEF RequestInv, TurnStands, RoutesOK, Within
<1>3. PICK p : p = CASE req[r].op = "messages" -> "audit"
                     [] req[r].op = "execute" /\ Keyed(r) -> "resolve"
                     [] OTHER -> "done"
  OBVIOUS
<1>4. /\ p \in {"audit", "resolve", "done"}
      /\ p = "audit" <=> req[r].op = "messages"
      /\ p = "resolve" => Keyed(r)
      /\ p = "done" => ~Keyed(r)
  <2>1. req[r].op \in {"execute", "messages"}
    BY <1>2 DEF Request
  <2>2. QED
    BY <1>3, <2>1
<1>5. Acts(r, p, o, a, r)
  BY <1>3 DEF Finished, Goto, Acts
<1>6. RowsOfOthers(r)
  BY <1>1, RowsStay DEF rowVars
<1>7. at[r] \in Conversations \cup {None} /\ t \in TurnStatus
  BY <1>1, ValuesAre
<1>8. /\ pc'[r] = p /\ outcome'[r] = o /\ answer'[r] = a /\ names'[r] = r
      /\ turn'[r] = t /\ at'[r] = at[r] /\ said'[r] = m
  BY <1>1, <1>5, ItsOwn
<1>9. (Keyed(r)' <=> Keyed(r)) /\ Target(r)' = Target(r)
  BY DEF Keyed, Target
<1>10. RequestInv(r)'
  <2>1. RoutesOK(r)'
    BY <1>2, <1>4, <1>8, <1>9 DEF RoutesOK
  <2>2. TurnStands(r)'
    BY <1>1, <1>2, <1>4, <1>8, <1>9 DEF RequestInv, TurnStands, Early, Before, Within
  <2>3. DraftStands(r)'
    BY <1>1, <1>4, <1>8 DEF RequestInv, DraftStands, After, rowVars
  <2>4. AnswerStands(r)'
    BY <1>4, <1>8 DEF AnswerStands, After
  <2>5. EndStands(r)'
    BY <1>8 DEF EndStands, rowVars
  <2>6. AuditStands(r)'
    BY <1>1, <1>4, <1>8 DEF RequestInv, AuditStands, Early, rowVars
  <2>7. QED
    BY <2>1, <2>2, <2>3, <2>4, <2>5, <2>6 DEF RequestInv
<1>11. p \in Steps /\ p \in Holding \cup {"done", "dead"} /\ pc[r] \in Holding
       /\ UNCHANGED <<req, keyRec>>
  BY <1>4 DEF Steps, Holding, After, Within, rowVars
<1>12. QED
  BY <1>2, <1>4, <1>5, <1>6, <1>7, <1>10, <1>11, HolderStep

-----------------------------------------------------------------------------
(* The steps, one by one *)

(* What the invariant says of a request on its way. *)
LEMMA OnItsWay ==
  ASSUME TurnInv, NEW r \in Requests, pc[r] \in Before \cup Within
  PROVE  /\ TurnTypeOK /\ RequestInv(r) /\ req[r] \in Request
         /\ said[r] = 0 /\ names[r] = None /\ (turn[r] \in Terminal => r \in reconciled)
         /\ pc[r] \in Before <=> turn[r] = "none"
         /\ turn[r] = "none" => at[r] = None
         /\ turn[r] # "none" /\ req[r].op = "messages" => at[r] = Target(r)
         /\ pc[r] # "finalize" => r \notin drafts
         /\ audit[r] = "STARTED" => req[r].op = "messages" /\ turn[r] # "gone"
         /\ Writable(r) <=> turn[r] \notin {"none", "gone"}
<1>1. TurnTypeOK /\ RequestInv(r)
  BY DEF TurnInv
<1>2. pc[r] \notin Early \cup After \cup {"release", "done", "dead"}
  BY DEF Before, Within, Early, After
<1>3. req[r] \in Request
  BY <1>1, <1>2 DEF RequestInv, RoutesOK, Early
<1>4. pc[r] \in Before \/ pc[r] \in Within
  OBVIOUS
<1>5. ~(pc[r] \in Before /\ pc[r] \in Within)
  BY DEF Before, Within
<1>6. pc[r] \in Before <=> turn[r] = "none"
  BY <1>1, <1>4, <1>5 DEF RequestInv, TurnStands
<1>7. pc[r] # "finalize" => r \notin drafts
  BY <1>1, <1>2 DEF RequestInv, DraftStands
<1>8. QED
  BY <1>1, <1>3, <1>6, <1>7 DEF RequestInv, TurnStands, AuditStands, Writable

(* A step that writes neither its turn nor a draft. *)
LEMMA QuietAdvance ==
  ASSUME TurnInv, NEW r \in Requests, pc[r] \in Before \cup Within, r \notin drafts,
         NEW step \in Before \cup Within, step \in Before <=> pc[r] \in Before, Goto(r, step),
         NEW o \in Outcomes, outcome' = [outcome EXCEPT ![r] = o],
         conv' \in [Conversations -> ConversationStatus],
         UNCHANGED <<turn, at, exec, said, reconciled, answer, names, req, keyRec, drafts>>,
         Faults, RowsOfOthers(r),
         step \in {"establish", "prepare", "provider", "say"} => req[r].op = "messages",
         step = "begin" => o \in {"accepted", "rejected"} \cup SayOutcomes,
         step = "begin" /\ o \in SayOutcomes => req[r].op = "messages",
         step = "say" => o \in SayOutcomes,
         step = "effect" => o \in {"asked", "drafted"},
         step = "finalize" => o \in ToolOutcomes \ {"drafted"},
         audit'[r] = "STARTED" => req[r].op = "messages" /\ turn[r] # "gone"
  PROVE  TurnInv'
<1>1. Stores(r, turn[r], at[r], 0)
  BY OnItsWay, StoreStays
<1>2. TurnTypeOK /\ turn[r] \in TurnStatus /\ at[r] \in Conversations \cup {None}
  BY OnItsWay, ValuesAre
<1>3. /\ step \in Before <=> turn[r] = "none"
      /\ turn[r] = "none" => at[r] = None
      /\ turn[r] # "none" /\ req[r].op = "messages" => at[r] = Target(r)
      /\ turn[r] \in Terminal => r \in reconciled
  BY OnItsWay
<1>4. step = "finalize" => o \in ToolOutcomes /\ o # "drafted"
  OBVIOUS
<1>5. r \notin drafts'
  OBVIOUS
<1>6. QED
  BY <1>1, <1>2, <1>3, <1>4, <1>5, AdvanceStep

LEMMA ConvStays == TurnTypeOK /\ UNCHANGED conv => conv' \in [Conversations -> ConversationStatus]
  BY DEF TurnTypeOK, StoreTypeOK

LEMMA EstablishKeeps ==
  ASSUME TurnInv, NEW r \in Requests, EstablishConversation(r)
  PROVE  TurnInv'
<1>1. /\ pc[r] = "establish" /\ pc[r] \in Before /\ Faults /\ RowsOfOthers(r)
      /\ UNCHANGED <<turn, at, exec, said, reconciled, req, outcome, names, rowVars>>
  BY NoFault, RowsStay DEF EstablishConversation, Before, TurnInv, rowVars
<1>2. conv' \in [Conversations -> ConversationStatus]
  BY RequestsAre, ConvStays
     DEF EstablishConversation, CreateConversation, ConversationStatus, TurnInv, TurnTypeOK,
         StoreTypeOK
<1>3. /\ outcome' = [outcome EXCEPT ![r] = outcome[r]] /\ outcome[r] \in Outcomes
      /\ turn[r] = "none" /\ req[r].op = "messages" /\ r \notin drafts
      /\ audit'[r] = "STARTED" => req[r].op = "messages" /\ turn[r] # "gone"
  <2>1. req[r].op = "messages"
    BY <1>1 DEF TurnInv, RequestInv, RoutesOK
  <2>2. QED
    BY <1>1, <2>1, OnItsWay, ValuesAre DEF rowVars
<1>4. CASE Throw(r)
  BY <1>1, <1>2, <1>3, <1>4, ThrowStep
<1>5. CASE Goto(r, "prepare") /\ UNCHANGED answer
  <2>1. "prepare" \in Before \cup Within /\ ("prepare" \in Before <=> pc[r] \in Before)
    BY <1>1 DEF Before
  <2>2. QED
    BY <1>1, <1>2, <1>3, <1>5, <2>1, QuietAdvance DEF rowVars
<1>6. QED
  BY <1>4, <1>5 DEF EstablishConversation

LEMMA AuditBegins ==
  ASSUME TurnInv, NEW r \in Requests, BeginAudit(r)
  PROVE  TurnInv'
<1>1. /\ pc[r] = "prepare" /\ pc[r] \in Before /\ Faults
      /\ UNCHANGED <<storeVars, req, outcome, names, keyRec, drafts, asked>>
  BY NoFault DEF BeginAudit, Before, TurnInv
<1>2. conv' \in [Conversations -> ConversationStatus]
      /\ UNCHANGED <<turn, at, exec, said, reconciled>>
  BY <1>1, ConvStays DEF TurnInv, storeVars
<1>3. /\ outcome' = [outcome EXCEPT ![r] = outcome[r]] /\ outcome[r] \in Outcomes
      /\ turn[r] = "none" /\ req[r].op = "messages" /\ r \notin drafts
  <2>1. req[r].op = "messages"
    BY <1>1 DEF TurnInv, RequestInv, RoutesOK
  <2>2. QED
    BY <1>1, <2>1, OnItsWay, ValuesAre
<1>4. CASE Throw(r) /\ UNCHANGED audit
  BY <1>1, <1>2, <1>3, <1>4, ThrowStep DEF rowVars
<1>5. CASE Goto(r, "provider") /\ UNCHANGED answer /\ audit' = [audit EXCEPT ![r] = "STARTED"]
  <2>1. RowsOfOthers(r)
    BY <1>1, <1>5 DEF TurnInv, TurnTypeOK, RowsOfOthers, AuditStatus
  <2>2. "provider" \in Before \cup Within /\ ("provider" \in Before <=> pc[r] \in Before)
    BY <1>1 DEF Before
  <2>3. QED
    BY <1>1, <1>2, <1>3, <1>5, <2>1, <2>2, QuietAdvance
<1>6. QED
  BY <1>4, <1>5 DEF BeginAudit

LEMMA ProviderKeeps ==
  ASSUME TurnInv, NEW r \in Requests, InvokeProvider(r)
  PROVE  TurnInv'
<1>1. /\ pc[r] = "provider" /\ pc[r] \in Before /\ Faults /\ RowsOfOthers(r)
      /\ UNCHANGED <<storeVars, req, answer, names, rowVars>>
  BY NoFault, RowsStay DEF InvokeProvider, Before, TurnInv, rowVars
<1>2. conv' \in [Conversations -> ConversationStatus]
      /\ UNCHANGED <<turn, at, exec, said, reconciled>>
  BY <1>1, ConvStays DEF TurnInv, storeVars
<1>3. /\ r \notin drafts
      /\ audit'[r] = "STARTED" => req[r].op = "messages" /\ turn[r] # "gone"
      /\ outcome = [outcome EXCEPT ![r] = outcome[r]] /\ outcome[r] \in Outcomes
  BY <1>1, OnItsWay, ValuesAre DEF rowVars
<1>4. CASE Goto(r, "check") /\ UNCHANGED outcome
  BY <1>1, <1>2, <1>3, <1>4, QuietAdvance DEF Before, Within, rowVars
<1>5. ASSUME NEW o \in SayOutcomes, outcome' = [outcome EXCEPT ![r] = o], Goto(r, "begin")
      PROVE  TurnInv'
  <2>1. o \in Outcomes
    BY DEF Outcomes
  <2>2. "begin" \in Before \cup Within /\ ("begin" \in Before <=> pc[r] \in Before)
    BY <1>1 DEF Before
  <2>3. req[r].op = "messages"
    BY <1>1 DEF TurnInv, RequestInv, RoutesOK
  <2>4. QED
    BY <1>1, <1>2, <1>3, <1>5, <2>1, <2>2, <2>3, QuietAdvance DEF rowVars
<1>6. QED
  BY <1>4, <1>5 DEF InvokeProvider

LEMMA CheckKeeps ==
  ASSUME TurnInv, NEW r \in Requests, CheckConversation(r)
  PROVE  TurnInv'
<1>1. /\ pc[r] = "check" /\ pc[r] \in Before /\ Faults /\ RowsOfOthers(r)
      /\ UNCHANGED <<storeVars, req, names, rowVars>>
  BY NoFault, RowsStay DEF CheckConversation, Before, TurnInv, rowVars
<1>2. conv' \in [Conversations -> ConversationStatus]
      /\ UNCHANGED <<turn, at, exec, said, reconciled>>
  BY <1>1, ConvStays DEF TurnInv, storeVars
<1>3. /\ r \notin drafts /\ turn[r] = "none"
      /\ audit'[r] = "STARTED" => req[r].op = "messages" /\ turn[r] # "gone"
      /\ outcome = [outcome EXCEPT ![r] = outcome[r]] /\ outcome[r] \in Outcomes
  BY <1>1, OnItsWay, ValuesAre DEF rowVars
<1>4. CASE Throw(r) /\ UNCHANGED outcome
  BY <1>1, <1>2, <1>3, <1>4, ThrowStep
<1>5. ASSUME NEW o \in {"accepted", "rejected"}, outcome' = [outcome EXCEPT ![r] = o],
             Goto(r, "begin"), UNCHANGED answer
      PROVE  TurnInv'
  <2>1. o \in Outcomes /\ o \notin SayOutcomes
    BY DEF Outcomes, SayOutcomes, SayResult
  <2>2. "begin" \in Before \cup Within /\ ("begin" \in Before <=> pc[r] \in Before)
    BY <1>1 DEF Before
  <2>3. QED
    BY <1>1, <1>2, <1>3, <1>5, <2>1, <2>2, QuietAdvance DEF rowVars
<1>6. QED
  BY <1>4, <1>5 DEF CheckConversation

LEMMA StartTurnKeeps ==
  ASSUME TurnInv, NEW r \in Requests, StartTurn(r)
  PROVE  TurnInv'
<1>1. /\ pc[r] = "begin" /\ pc[r] \in Before /\ Faults /\ RowsOfOthers(r)
      /\ UNCHANGED <<req, outcome, names, rowVars>>
  BY NoFault, RowsStay DEF StartTurn, Before, TurnInv, rowVars
<1>2. /\ r \notin drafts /\ turn[r] = "none" /\ said[r] = 0 /\ req[r] \in Request
      /\ audit'[r] = "STARTED" => req[r].op = "messages"
      /\ outcome' = [outcome EXCEPT ![r] = outcome[r]] /\ outcome[r] \in Outcomes
      /\ outcome[r] \in {"accepted", "rejected"} \cup SayOutcomes
      /\ outcome[r] \in SayOutcomes => req[r].op = "messages"
  <2>1. /\ outcome[r] \in {"accepted", "rejected"} \cup SayOutcomes
        /\ outcome[r] \in SayOutcomes => req[r].op = "messages"
    BY <1>1 DEF TurnInv, RequestInv, RoutesOK
  <2>2. QED
    BY <1>1, <2>1, OnItsWay, ValuesAre DEF rowVars
<1>3. CASE Throw(r) /\ UNCHANGED storeVars
  <2>1. conv' \in [Conversations -> ConversationStatus]
    BY <1>3, ConvStays DEF TurnInv, storeVars
  <2>2. QED
    BY <1>1, <1>2, <1>3, <2>1, ThrowStep DEF storeVars
<1>4. CASE /\ BeginTurn(r, Target(r)) /\ UNCHANGED answer
           /\ Goto(r, CASE outcome[r] = "rejected" -> "rejected"
                        [] outcome[r] = "accepted" -> "running"
                        [] outcome[r] \in SayOutcomes -> "say")
  <2>1. PICK w : w = IF Target(r) = None THEN r ELSE Target(r)
    OBVIOUS
  <2>2. /\ w \in Conversations
        /\ req[r].op = "messages" => w = Target(r)
    BY <1>2, <2>1, RequestsAre DEF Target, Request
  <2>3. Stores(r, "PENDING", w, 0)
    <3>1. conv' \in [Conversations -> ConversationStatus]
      BY <1>4, RequestsAre DEF BeginTurn, CreateConversation, ConversationStatus, TurnInv,
         TurnTypeOK, StoreTypeOK
    <3>2. exec' \in [Procs -> ExecStatus]
      BY <1>4 DEF BeginTurn, TurnInv, TurnTypeOK, StoreTypeOK
    <3>3. said' = [said EXCEPT ![r] = 0]
      BY <1>2, <1>4, RequestsAre DEF BeginTurn, TurnInv, TurnTypeOK, StoreTypeOK
    <3>4. QED
      BY <1>4, <2>1, <3>1, <3>2, <3>3 DEF BeginTurn, Stores
  <2>4. PICK step : step = CASE outcome[r] = "rejected" -> "rejected"
                             [] outcome[r] = "accepted" -> "running"
                             [] outcome[r] \in SayOutcomes -> "say"
    OBVIOUS
  <2>5. /\ step \in {"rejected", "running", "say"} /\ Goto(r, step)
        /\ step = "say" => outcome[r] \in SayOutcomes
    BY <1>2, <1>4, <2>4
  <2>6. step = "say" => req[r].op = "messages"
    BY <1>1, <1>2, <2>5
  <2>7. QED
    BY <1>1, <1>2, <1>4, <2>2, <2>3, <2>5, <2>6, AdvanceStep
       DEF Before, Within, Terminal, TurnStatus, rowVars
<1>5. QED
  BY <1>3, <1>4 DEF StartTurn

(* A write to a turn that is gone throws. *)
LEMMA LostTurnThrows ==
  ASSUME TurnInv, NEW r \in Requests, pc[r] \in Within \ {"finalize"}, ~Writable(r), Throw(r),
         Faults, UNCHANGED <<storeVars, req, outcome, names, rowVars>>
  PROVE  TurnInv'
<1>1. /\ r \notin drafts /\ turn[r] \notin {"PENDING", "RUNNING"} /\ TurnTypeOK
      /\ outcome' = [outcome EXCEPT ![r] = outcome[r]] /\ outcome[r] \in Outcomes
  BY OnItsWay, ValuesAre DEF Writable
<1>2. conv' \in [Conversations -> ConversationStatus]
      /\ UNCHANGED <<turn, at, exec, said, reconciled>>
  BY <1>1, ConvStays DEF storeVars
<1>3. QED
  BY <1>1, <1>2, ThrowStep

(* A turn that is open, or was reconciled, stays in its conversation. *)
LEMMA TurnAdvances ==
  ASSUME TurnInv, NEW r \in Requests, pc[r] \in Within \ {"finalize"},
         NEW step \in {"tool", "decide"}, Goto(r, step), Faults,
         NEW t \in TurnStatus \ {"none"}, turn' = [turn EXCEPT ![r] = t],
         t \in {"RUNNING", turn[r]}, Writable(r),
         exec' \in [Procs -> ExecStatus],
         UNCHANGED <<conv, at, said, reconciled, answer, req, outcome, names, rowVars>>
  PROVE  TurnInv'
<1>1. /\ r \notin drafts /\ TurnTypeOK /\ turn[r] \notin {"none", "gone"}
      /\ said[r] = 0
      /\ req[r].op = "messages" => at[r] = Target(r)
      /\ turn[r] \in Terminal => r \in reconciled
      /\ outcome' = [outcome EXCEPT ![r] = outcome[r]] /\ outcome[r] \in Outcomes
      /\ at[r] \in Conversations \cup {None}
      /\ audit[r] = "STARTED" => req[r].op = "messages"
  BY OnItsWay, ValuesAre DEF Writable
<1>2. Stores(r, t, at[r], 0)
  BY <1>1, RequestsAre DEF Stores, TurnTypeOK, StoreTypeOK
<1>3. RowsOfOthers(r) /\ UNCHANGED <<answer, names, req, keyRec, drafts, audit>>
  BY <1>1, RowsStay DEF rowVars
<1>4. /\ step \in Before \cup Within /\ step \notin Before
      /\ step \notin {"begin", "say", "effect", "finalize"}
      /\ step \notin {"establish", "prepare", "provider"} /\ t # "gone" /\ t # "none"
      /\ t \in Terminal => r \in reconciled
  BY <1>1 DEF Before, Within, Terminal
<1>5. r \notin drafts' /\ (audit'[r] = "STARTED" => req[r].op = "messages")
  BY <1>1, <1>3
<1>6. pc[r] \in Before \cup Within /\ t \in TurnStatus /\ (step \in Before <=> t = "none")
  BY <1>4
<1>7. QED
  BY <1>1, <1>2, <1>3, <1>4, <1>5, <1>6, AdvanceStep

LEMMA RunTurnKeeps ==
  ASSUME TurnInv, NEW r \in Requests, RunTurn(r)
  PROVE  TurnInv'
<1>1. /\ pc[r] = "running" /\ pc[r] \in Within \ {"finalize"} /\ Faults
      /\ UNCHANGED <<req, outcome, names, rowVars>>
  BY NoFault DEF RunTurn, Within, TurnInv
<1>2. CASE ~Writable(r)
  BY <1>1, <1>2, LostTurnThrows DEF RunTurn
<1>3. CASE Writable(r)
  <2>1. /\ "RUNNING" \in TurnStatus \ {"none"} /\ exec' \in [Procs -> ExecStatus]
    BY <1>3 DEF RunTurn, MarkTurnRunning, TurnStatus, TurnInv, TurnTypeOK, StoreTypeOK
  <2>2. QED
    BY <1>1, <1>3, <2>1, TurnAdvances DEF RunTurn, MarkTurnRunning
<1>4. QED
  BY <1>2, <1>3

LEMMA StartToolKeeps ==
  ASSUME TurnInv, NEW r \in Requests, StartTool(r)
  PROVE  TurnInv'
<1>1. /\ pc[r] = "tool" /\ pc[r] \in Within \ {"finalize"} /\ Faults
      /\ UNCHANGED <<req, outcome, names, rowVars>>
  BY NoFault DEF StartTool, Within, TurnInv
<1>2. CASE ~Writable(r)
  BY <1>1, <1>2, LostTurnThrows DEF StartTool
<1>3. CASE Writable(r)
  <2>1. exec' \in [Procs -> ExecStatus]
    BY <1>3, RequestsAre
       DEF StartTool, BeginToolExecution, ExecStatus, TurnInv, TurnTypeOK, StoreTypeOK
  <2>2. turn[r] \in TurnStatus \ {"none"} /\ turn' = [turn EXCEPT ![r] = turn[r]]
    BY <1>3, RequestsAre
       DEF StartTool, BeginToolExecution, Writable, TurnInv, TurnTypeOK, StoreTypeOK
  <2>3. QED
    BY <1>1, <1>3, <2>1, <2>2, TurnAdvances DEF StartTool, BeginToolExecution
<1>4. QED
  BY <1>2, <1>3

(* What deciding about a transaction comes to; a wallet is known there, so *)
(* its draft is never refused for the want of one.                         *)
LEMMA CreateOutcomeIs ==
  ASSUME NEW i \in TransactionInputs
  PROVE  CreateOutcome(i) \in {"asked", "notFound", "invalid", "unsafe", "throws",
                               "noCategory", "drafted"}
<1>1. /\ i.wallet \in {"id", "ambiguous", "not_found", "invalid", "resolved", "throws"}
      /\ i.merchant \in {"none", "ambiguous", "resolved", "not_found", "unsafe", "throws"}
      /\ i.category \in {"none", "ambiguous", "resolved", "invalid", "not_found", "throws"}
  BY DEF TransactionInputs
<1>2. WalletStops(i) => i.wallet \in {"ambiguous", "not_found", "invalid", "throws"}
  BY <1>1 DEF WalletStops
<1>3. MerchantStops(i) => i.merchant \in {"ambiguous", "unsafe", "throws"}
  BY DEF MerchantStops
<1>4. CategoryStops(i) => i.category \in {"ambiguous", "invalid", "throws"}
  BY DEF CategoryStops
<1>5. \A x \in {"ambiguous", "not_found", "invalid", "unsafe", "throws"} :
        Stopping[x] \in {"asked", "notFound", "invalid", "unsafe", "throws"}
  BY DEF Stopping
<1>6. FinalizeTransactionDraft(HasCategory(i), TRUE) \in {"noCategory", "drafted"}
  BY DEF FinalizeTransactionDraft
<1>7. CASE WalletStops(i)
  BY <1>2, <1>5, <1>7 DEF CreateOutcome
<1>8. CASE ~WalletStops(i) /\ MerchantStops(i)
  BY <1>3, <1>5, <1>8 DEF CreateOutcome
<1>9. CASE ~WalletStops(i) /\ ~MerchantStops(i) /\ CategoryStops(i)
  BY <1>4, <1>5, <1>9 DEF CreateOutcome
<1>10. CASE ~WalletStops(i) /\ ~MerchantStops(i) /\ ~CategoryStops(i)
  BY <1>6, <1>10 DEF CreateOutcome
<1>11. QED
  BY <1>7, <1>8, <1>9, <1>10

LEMMA OutcomesAre ==
  /\ ToolOutcomes = {"summary", "toolFailed", "toolTimeout", "asked", "notFound", "noCategory",
                     "invalid", "unsafe", "drafted", "draftFailed"}
  /\ SayOutcomes = {"question", "unsupported", "refused"}
  BY DEF ToolOutcomes, ToolResult, SayOutcomes, SayResult

LEMMA DecideKeeps ==
  ASSUME TurnInv, NEW r \in Requests, Decide(r)
  PROVE  TurnInv'
<1>1. /\ pc[r] = "decide" /\ pc[r] \in Within \ {"finalize"} /\ Faults /\ RowsOfOthers(r)
      /\ UNCHANGED <<storeVars, req, names, rowVars>>
  BY NoFault, RowsStay DEF Decide, Within, TurnInv, rowVars
<1>2. conv' \in [Conversations -> ConversationStatus]
      /\ UNCHANGED <<turn, at, exec, said, reconciled>>
  BY <1>1, ConvStays DEF TurnInv, storeVars
<1>3. /\ r \notin drafts
      /\ audit'[r] = "STARTED" => req[r].op = "messages" /\ turn[r] # "gone"
  BY <1>1, OnItsWay DEF rowVars
<1>4. PICK o \in ExecuteTool \cup {CreateOutcome(i) : i \in InputsOf(r)} :
       /\ outcome' = [outcome EXCEPT ![r] = o]
       /\ \/ o = "throws" /\ Throw(r)
          \/ o \in {"asked", "drafted"} /\ Goto(r, "effect") /\ UNCHANGED answer
          \/ o \notin {"throws", "asked", "drafted"} /\ Goto(r, "finalize") /\ UNCHANGED answer
  BY DEF Decide
<1>5. InputsOf(r) \subseteq TransactionInputs
  BY DEF InputsOf
<1>6. o \in {"summary", "toolFailed", "toolTimeout", "asked", "notFound", "invalid", "unsafe",
             "throws", "noCategory", "drafted"}
  BY <1>4, <1>5, CreateOutcomeIs DEF ExecuteTool
<1>7. o \in Outcomes /\ (o # "throws" => o \in ToolOutcomes)
  BY <1>6, OutcomesAre DEF Outcomes
<1>8. /\ "effect" \in Before \cup Within /\ ("effect" \in Before <=> pc[r] \in Before)
      /\ "finalize" \in Before \cup Within /\ ("finalize" \in Before <=> pc[r] \in Before)
  BY <1>1 DEF Before, Within
<1>9. CASE o = "throws" /\ Throw(r)
  BY <1>1, <1>2, <1>3, <1>4, <1>7, <1>9, ThrowStep
<1>10. CASE o \in {"asked", "drafted"} /\ Goto(r, "effect") /\ UNCHANGED answer
  BY <1>1, <1>2, <1>3, <1>4, <1>7, <1>8, <1>10, QuietAdvance DEF rowVars
<1>11. CASE o \notin {"throws", "asked", "drafted"} /\ Goto(r, "finalize") /\ UNCHANGED answer
  BY <1>1, <1>2, <1>3, <1>4, <1>7, <1>8, <1>11, QuietAdvance DEF rowVars
<1>12. QED
  BY <1>4, <1>9, <1>10, <1>11

LEMMA QuestionKeeps ==
  ASSUME TurnInv, NEW r \in Requests, CreateEntityClarification(r)
  PROVE  TurnInv'
<1>1. /\ pc[r] = "effect" /\ pc[r] \in Within \ {"finalize"} /\ Faults /\ outcome[r] = "asked"
      /\ UNCHANGED <<storeVars, req, outcome, names, keyRec, drafts, audit>>
  BY NoFault DEF CreateEntityClarification, Within, TurnInv
<1>2. CASE ~Writable(r)
  <2>1. UNCHANGED rowVars /\ Throw(r)
    BY <1>1, <1>2 DEF CreateEntityClarification, rowVars
  <2>2. QED
    BY <1>1, <1>2, <2>1, LostTurnThrows
<1>3. CASE Writable(r)
  <2>1. /\ r \notin drafts /\ outcome' = [outcome EXCEPT ![r] = outcome[r]]
        /\ audit'[r] = "STARTED" => req[r].op = "messages" /\ turn[r] # "gone"
    BY <1>1, OnItsWay, ValuesAre DEF rowVars
  <2>2. RowsOfOthers(r) /\ conv' \in [Conversations -> ConversationStatus]
        /\ UNCHANGED <<turn, at, exec, said, reconciled>>
    BY <1>1, <1>3, ConvStays
       DEF CreateEntityClarification, RowsOfOthers, TurnInv, TurnTypeOK, storeVars
  <2>3. "finalize" \in Before \cup Within /\ ("finalize" \in Before <=> pc[r] \in Before)
    BY <1>1 DEF Before, Within
  <2>4. outcome[r] \in ToolOutcomes \ {"drafted"} /\ outcome[r] \in Outcomes
    BY <1>1, OutcomesAre DEF Outcomes
  <2>5. Goto(r, "finalize") /\ UNCHANGED answer
    BY <1>3 DEF CreateEntityClarification
  <2>6. QED
    BY <1>1, <2>1, <2>2, <2>3, <2>4, <2>5, QuietAdvance
<1>4. QED
  BY <1>2, <1>3

LEMMA DraftKeeps ==
  ASSUME TurnInv, NEW r \in Requests, PrepareDraft(r)
  PROVE  TurnInv'
<1>1. /\ pc[r] = "effect" /\ pc[r] \in Within /\ Faults /\ outcome[r] = "drafted"
      /\ Goto(r, "finalize")
      /\ UNCHANGED <<storeVars, req, answer, names, keyRec, asked, audit>>
  BY NoFault DEF PrepareDraft, Within, TurnInv
<1>2. /\ "finalize" \in Before \cup Within /\ pc[r] \notin Before /\ "finalize" \notin Before
      /\ ("finalize" \in Before <=> pc[r] \in Before)
  BY <1>1 DEF Before, Within
<1>3. /\ conv' \in [Conversations -> ConversationStatus]
      /\ UNCHANGED <<turn, at, exec, said, reconciled>>
  BY <1>1, ConvStays DEF TurnInv, storeVars
<1>4. /\ TurnTypeOK /\ r \notin drafts /\ turn[r] # "none" /\ said[r] = 0
      /\ req[r].op = "messages" => at[r] = Target(r)
      /\ turn[r] \in Terminal => r \in reconciled
      /\ turn[r] \in TurnStatus /\ at[r] \in Conversations \cup {None}
      /\ audit'[r] = "STARTED" => req[r].op = "messages" /\ turn[r] # "gone"
      /\ Writable(r) => turn[r] # "gone"
  BY <1>1, <1>2, OnItsWay, ValuesAre
<1>5. CASE Writable(r) /\ drafts' = drafts \cup {r} /\ UNCHANGED outcome
  <2>1. RowsOfOthers(r)
    BY <1>1, <1>4, <1>5 DEF RowsOfOthers, TurnTypeOK
  <2>2. Stores(r, turn[r], at[r], 0)
    BY <1>3, <1>4, StoreStays
  <2>3. outcome[r] \in Outcomes /\ outcome' = [outcome EXCEPT ![r] = outcome[r]]
    BY <1>4, <1>5, ValuesAre
  <2>4. outcome[r] \in ToolOutcomes /\ outcome[r] \in {"drafted", "draftFailed"}
    BY <1>1, OutcomesAre
  <2>5. QED
    BY <1>1, <1>2, <1>4, <1>5, <2>1, <2>2, <2>3, <2>4, AdvanceStep
<1>6. CASE outcome' = [outcome EXCEPT ![r] = "draftFailed"] /\ UNCHANGED drafts
  <2>1. "draftFailed" \in ToolOutcomes \ {"drafted"} /\ "draftFailed" \in Outcomes
    BY OutcomesAre DEF Outcomes
  <2>2. RowsOfOthers(r)
    BY <1>1, <1>4, <1>6, RowsStay
  <2>3. QED
    BY <1>1, <1>2, <1>3, <1>4, <1>6, <2>1, <2>2, QuietAdvance
<1>7. QED
  BY <1>5, <1>6 DEF PrepareDraft

LEMMA RejectKeeps ==
  ASSUME TurnInv, NEW r \in Requests, RejectTurn(r)
  PROVE  TurnInv'
<1>1. /\ pc[r] = "rejected" /\ pc[r] \in Within \ {"finalize"} /\ Faults
      /\ UNCHANGED <<req, outcome, rowVars>>
  BY NoFault DEF RejectTurn, Within, TurnInv
<1>2. CASE ~Writable(r)
  BY <1>1, <1>2, LostTurnThrows DEF RejectTurn
<1>3. CASE Writable(r)
  <2>1. /\ FinalizeRejected(r) /\ Finished(r, "rejected")
    BY <1>3 DEF RejectTurn
  <2>2. /\ TurnTypeOK /\ r \notin drafts /\ turn[r] # "none" /\ said[r] = 0
        /\ outcome[r] \in Outcomes /\ outcome' = [outcome EXCEPT ![r] = outcome[r]]
    BY <1>1, <1>3, OnItsWay, ValuesAre DEF Writable
  <2>3. Stores(r, "REJECTED", at[r], 1)
    BY <2>1, <2>2, RequestsAre DEF FinalizeRejected, Stores, TurnTypeOK, StoreTypeOK
  <2>4. turn'[r] = "REJECTED" /\ answer'[r] = "rejected"
    BY <2>1, <2>2, RequestsAre DEF FinalizeRejected, Finished, TurnTypeOK, StoreTypeOK
  <2>5. ToldTruly(r)' /\ "rejected" \in DOMAIN TurnOfAnswer
    BY <2>4 DEF ToldTruly, TurnOfAnswer
  <2>6. "rejected" \in Answers /\ "REJECTED" \in TurnStatus \ {"none"} /\ 1 \in 0..1
    BY DEF Answers, TurnStatus
  <2>7. QED
    BY <1>1, <2>1, <2>2, <2>3, <2>5, <2>6, FinishedStep
<1>4. QED
  BY <1>2, <1>3

LEMMA SayKeeps ==
  ASSUME TurnInv, NEW r \in Requests, PersistNonToolResult(r)
  PROVE  TurnInv'
<1>1. /\ pc[r] = "say" /\ pc[r] \in Within \ {"finalize"} /\ Faults
      /\ UNCHANGED <<req, outcome, rowVars>>
  BY NoFault DEF PersistNonToolResult, Within, TurnInv
<1>2. CASE ~Writable(r)
  BY <1>1, <1>2, LostTurnThrows DEF PersistNonToolResult
<1>3. CASE Writable(r)
  <2>1. PICK t, a : /\ t = SayResult[outcome[r]].turn /\ a = SayResult[outcome[r]].answer
                    /\ FinalizeWithoutTool(r, t) /\ Finished(r, a)
    BY <1>3 DEF PersistNonToolResult
  <2>2. /\ TurnTypeOK /\ r \notin drafts /\ turn[r] # "none" /\ said[r] = 0
        /\ outcome[r] \in Outcomes /\ outcome' = [outcome EXCEPT ![r] = outcome[r]]
    BY <1>1, <1>3, OnItsWay, ValuesAre DEF Writable
  <2>3. Stores(r, t, at[r], 1)
    BY <2>1, <2>2, RequestsAre DEF FinalizeWithoutTool, Stores, TurnTypeOK, StoreTypeOK
  <2>4. turn'[r] = t /\ answer'[r] = a
    BY <2>1, <2>2, RequestsAre DEF FinalizeWithoutTool, Finished, TurnTypeOK, StoreTypeOK
  <2>5. outcome[r] \in {"question", "unsupported", "refused"}
    BY <1>1, OutcomesAre DEF TurnInv, RequestInv, RoutesOK
  <2>6. \/ t = "CLARIFICATION_REQUIRED" /\ a = "clarification_required"
        \/ t = "SUCCEEDED" /\ a = "unsupported"
        \/ t = "FAILED" /\ a = "error"
    BY <2>1, <2>5 DEF SayResult
  <2>7. ToldTruly(r)' /\ a \in DOMAIN TurnOfAnswer
    BY <2>4, <2>6 DEF ToldTruly, TurnOfAnswer
  <2>8. a \in Answers /\ t \in TurnStatus \ {"none"} /\ 1 \in 0..1
        /\ t \notin {"gone", "PENDING", "RUNNING"}
    BY <2>6 DEF Answers, TurnStatus
  <2>9. QED
    BY <1>1, <2>1, <2>2, <2>3, <2>7, <2>8, FinishedStep
<1>4. QED
  BY <1>2, <1>3

(* What an execution comes to, as its turn's status and as an answer. *)
LEMMA ToolResultIs ==
  ASSUME NEW o \in ToolOutcomes
  PROVE  /\ ToolResult[o].answer \in {"success", "error", "rejected", "clarification_required"}
         /\ \/ ToolResult[o].turn = TurnOfAnswer[ToolResult[o].answer]
            \/ o = "unsafe" /\ ToolResult[o].turn = "REJECTED"
         /\ ToolResult[o].turn \in Terminal /\ ToolResult[o].exec \in ExecStatus
         /\ o = "drafted" => ToolResult[o].answer = "success"
         /\ o \in Swallowed => ToolResult[o].answer = "error"
<1>1. \A e, t, a : Result(e, t, a).exec = e /\ Result(e, t, a).turn = t
                   /\ Result(e, t, a).answer = a
  BY DEF Result
<1>2. o \in {"summary", "toolFailed", "toolTimeout", "asked", "notFound", "noCategory",
             "invalid", "unsafe", "drafted", "draftFailed"}
  BY OutcomesAre
<1>3. CASE o \in {"summary", "drafted"}
  BY <1>1, <1>3 DEF ToolResult, TurnOfAnswer, Terminal, ExecStatus, Swallowed
<1>4. CASE o \in Swallowed
  BY <1>1, <1>4 DEF ToolResult, TurnOfAnswer, Terminal, ExecStatus, Swallowed
<1>5. CASE o \in {"asked", "notFound", "noCategory"}
  BY <1>1, <1>5 DEF ToolResult, TurnOfAnswer, Terminal, ExecStatus, Swallowed
<1>6. CASE o \in {"invalid", "unsafe"}
  BY <1>1, <1>6 DEF ToolResult, TurnOfAnswer, Terminal, ExecStatus, Swallowed
<1>7. QED
  BY <1>2, <1>3, <1>4, <1>5, <1>6 DEF Swallowed

(* Its final write fails, because the turn is gone or the database throws. *)
LEMMA FinalizeFailsKeeps ==
  ASSUME TurnInv, NEW r \in Requests, pc[r] = "finalize", FinalizeFails(r),
         UNCHANGED <<req, rowVars>>, Faults, ~Writable(r) \/ failures' # 0
  PROVE  TurnInv'
<1>1. /\ TurnTypeOK /\ turn[r] # "none" /\ said[r] = 0 /\ pc[r] \in Within /\ pc[r] \notin Before
      /\ req[r].op = "messages" => at[r] = Target(r)
      /\ turn[r] \in Terminal => r \in reconciled
      /\ turn[r] \in TurnStatus /\ at[r] \in Conversations \cup {None}
      /\ audit'[r] = "STARTED" => req[r].op = "messages" /\ turn[r] # "gone"
      /\ Writable(r) \/ turn[r] = "gone"
      /\ outcome[r] \in Outcomes /\ outcome = [outcome EXCEPT ![r] = outcome[r]]
      /\ names = [names EXCEPT ![r] = names[r]]
  <2>1. pc[r] \in Within /\ pc[r] \notin Before
    BY DEF Before, Within
  <2>2. QED
    BY <2>1, OnItsWay, ValuesAre DEF rowVars
<1>2. /\ conv' \in [Conversations -> ConversationStatus]
      /\ UNCHANGED <<turn, at, exec, said, reconciled>>
  BY <1>1, ConvStays DEF FinalizeFails, storeVars
<1>3. Stores(r, turn[r], at[r], 0) /\ RowsOfOthers(r) /\ drafts' = drafts /\ keyRec' = keyRec
  BY <1>1, <1>2, StoreStays, RowsStay DEF rowVars
<1>4. /\ outcome[r] \in ToolOutcomes
      /\ r \in drafts => turn[r] # "gone" /\ outcome[r] \in {"drafted", "draftFailed"}
  BY DEF TurnInv, RequestInv, RoutesOK, DraftStands
<1>5. failures' = 0 => turn[r] = "gone" /\ r \notin drafts
  BY <1>1, <1>4
<1>6. CASE /\ outcome[r] = "drafted"
           /\ outcome' = [outcome EXCEPT ![r] = "draftFailed"] /\ UNCHANGED <<pc, answer, names>>
  <2>1. Goto(r, "finalize")
    BY <1>1, <1>6 DEF Goto, TurnTypeOK
  <2>2. "draftFailed" \in ToolOutcomes /\ "draftFailed" \in Outcomes
    BY OutcomesAre DEF Outcomes
  <2>3. "finalize" \in Within /\ "finalize" \notin Before
    BY <1>1
  <2>4. r \in drafts' => turn[r] \notin {"none", "gone"}
    BY <1>1, <1>3, <1>4
  <2>5. QED
    BY <1>1, <1>3, <1>5, <1>6, <2>1, <2>2, <2>3, <2>4, AdvanceStep
<1>7. CASE outcome[r] \in Swallowed /\ Finished(r, ToolResult[outcome[r]].answer) /\ UNCHANGED outcome
  <2>1. Finished(r, "error")
    BY <1>4, <1>7, ToolResultIs
  <2>2. turn'[r] = turn[r] /\ answer'[r] = "error"
    BY <1>1, <1>2, <2>1 DEF Finished, TurnTypeOK
  <2>3. failures' # 0 => failures' > 0
    BY DEF Faults
  <2>4. turn[r] # "gone" => ToldTruly(r)'
    BY <1>5, <2>2, <2>3 DEF ToldTruly
  <2>5. "error" \in Answers /\ "error" \in DOMAIN TurnOfAnswer /\ 0 \in 0..1
        /\ turn[r] \in TurnStatus \ {"none"}
    BY <1>1 DEF Answers, TurnOfAnswer
  <2>6. outcome' = [outcome EXCEPT ![r] = outcome[r]]
    BY <1>1, <1>7
  <2>7. QED
    BY <1>1, <1>3, <1>5, <2>1, <2>4, <2>5, <2>6, FinishedStep
<1>8. CASE outcome[r] \notin Swallowed \cup {"drafted"} /\ Throw(r) /\ UNCHANGED <<outcome, names>>
  <2>1. r \notin drafts
    BY <1>4, <1>8 DEF Swallowed
  <2>2. outcome' = [outcome EXCEPT ![r] = outcome[r]]
    BY <1>1, <1>8
  <2>3. QED
    BY <1>1, <1>2, <1>5, <1>8, <2>1, <2>2, ThrowStep
<1>9. QED
  <2>1. "drafted" \notin Swallowed
    BY DEF Swallowed
  <2>2. QED
    BY <1>6, <1>7, <1>8, <2>1 DEF FinalizeFails

LEMMA FinalizeKeeps ==
  ASSUME TurnInv, NEW r \in Requests, FinalizeTurn(r)
  PROVE  TurnInv'
<1>1. pc[r] = "finalize" /\ pc[r] \in Within /\ Faults /\ UNCHANGED <<req, rowVars>>
  BY NoFault DEF FinalizeTurn, Within, TurnInv
<1>2. CASE ~Writable(r)
  BY <1>1, <1>2, FinalizeFailsKeeps DEF FinalizeTurn
<1>3. CASE Writable(r)
  <2>1. PICK t, a, e, m : /\ t = ToolResult[outcome[r]].turn /\ a = ToolResult[outcome[r]].answer
                          /\ e = ToolResult[outcome[r]].exec
                          /\ m = IF outcome[r] # "drafted" THEN 1 ELSE 0
    OBVIOUS
  <2>2. FinalizeRows(r, e, t, outcome[r] # "drafted") /\ Finished(r, a) /\ UNCHANGED outcome
    BY <1>3, <2>1 DEF FinalizeTurn
  <2>3. /\ TurnTypeOK /\ turn[r] # "none" /\ said[r] = 0
        /\ outcome[r] \in Outcomes /\ outcome' = [outcome EXCEPT ![r] = outcome[r]]
    BY <1>1, <1>3, <2>2, OnItsWay, ValuesAre DEF Writable
  <2>4. outcome[r] \in ToolOutcomes
        /\ (outcome[r] = "drafted" /\ turn[r] # "gone" => r \in drafts)
        /\ (r \in drafts /\ failures = 0 => outcome[r] = "drafted")
    BY <1>1 DEF TurnInv, RequestInv, RoutesOK, DraftStands
  <2>5. /\ a \in {"success", "error", "rejected", "clarification_required"}
        /\ t = TurnOfAnswer[a] \/ (outcome[r] = "unsafe" /\ t = "REJECTED")
        /\ t \in Terminal /\ e \in ExecStatus
        /\ outcome[r] = "drafted" => a = "success"
    BY <2>1, <2>4, ToolResultIs
  <2>6. Stores(r, t, at[r], m)
    <3>1. said' = [said EXCEPT ![r] = m]
      BY <2>1, <2>2, <2>3, RequestsAre DEF FinalizeRows, TurnTypeOK, StoreTypeOK
    <3>2. exec' \in [Procs -> ExecStatus] /\ conv' \in [Conversations -> ConversationStatus]
          /\ at' = [at EXCEPT ![r] = at[r]]
      BY <2>2, <2>3, <2>5, RequestsAre DEF FinalizeRows, TurnTypeOK, StoreTypeOK
    <3>3. QED
      BY <2>2, <3>1, <3>2 DEF FinalizeRows, Stores
  <2>7. turn'[r] = t /\ answer'[r] = a
    BY <2>2, <2>3, RequestsAre DEF FinalizeRows, Finished, TurnTypeOK, StoreTypeOK
  <2>8. ToldTruly(r)'
    BY <1>1, <1>3, <2>2, <2>4, <2>5, <2>7 DEF ToldTruly, Writable, rowVars
  <2>9. a \in Answers /\ a \in DOMAIN TurnOfAnswer /\ m \in 0..1
        /\ t \in TurnStatus \ {"none"} /\ t \notin {"PENDING", "RUNNING", "gone"}
    BY <2>1, <2>5 DEF Answers, TurnOfAnswer, Terminal, TurnStatus
  <2>10. failures' = 0 => failures = 0
    BY <1>1 DEF Faults
  <2>11. QED
    BY <1>1, <2>2, <2>3, <2>4, <2>5, <2>6, <2>8, <2>9, <2>10, FinishedStep
<1>4. QED
  BY <1>2, <1>3

-----------------------------------------------------------------------------
(* The last steps: the audit row, the key *)

(* A request with its answer goes on: only its audit row may be closed. *)
LEMMA EndKeeps ==
  ASSUME TurnInv, NEW r \in Requests, pc[r] \in After \cup {"release"},
         NEW p \in {"resolve", "done"}, Goto(r, p),
         p = "resolve" => Keyed(r) /\ pc[r] = "audit",
         UNCHANGED <<storeVars, req, outcome, answer, names, drafts, asked>>, Faults,
         audit' \in [Requests -> AuditStatus], \A q \in Requests \ {r} : audit'[q] = audit[q],
         audit'[r] = "STARTED" => /\ audit[r] = "STARTED"
                                  /\ pc[r] = "audit" => failures' # 0
  PROVE  /\ Acts(r, p, outcome[r], answer[r], names[r])
         /\ Stores(r, turn[r], at[r], said[r]) /\ RowsOfOthers(r)
         /\ RequestInv(r)' /\ names[r] \in {None, r}
         /\ \A q \in Requests \ {r} : SameRequest(q)
<1>1. TurnTypeOK /\ RequestInv(r)
  BY DEF TurnInv
<1>2. Acts(r, p, outcome[r], answer[r], names[r])
  BY <1>1, ValuesAre DEF Goto, Acts
<1>3. Stores(r, turn[r], at[r], said[r]) /\ RowsOfOthers(r)
  <2>1. conv' \in [Conversations -> ConversationStatus]
    BY <1>1, ConvStays DEF storeVars
  <2>2. RowsOfOthers(r)
    BY <1>1 DEF RowsOfOthers, TurnTypeOK
  <2>3. QED
    BY <1>1, <2>1, <2>2, StoreStays DEF storeVars
<1>4. /\ pc'[r] = p /\ outcome'[r] = outcome[r] /\ answer'[r] = answer[r]
      /\ names'[r] = names[r] /\ turn'[r] = turn[r] /\ at'[r] = at[r] /\ said'[r] = said[r]
  BY <1>1, <1>2, <1>3, ItsOwn
<1>5. (Keyed(r)' <=> Keyed(r)) /\ Target(r)' = Target(r)
  BY DEF Keyed, Target
<1>6. names[r] \in {None, r} /\ (pc[r] = "release" => answer[r] = "thrown")
      /\ (p = "resolve" => names[r] = r)
  BY <1>1 DEF RequestInv, AnswerStands, After
<1>7. /\ failures' = 0 => failures = 0
      /\ failures > 0 => failures' > 0
  BY DEF Faults
<1>8. pc[r] \in After \cup {"release", "done"} /\ pc[r] \notin Early \cup Before \cup Within
  BY DEF After, Early, Before, Within
<1>9. RequestInv(r)'
  <2>1. RoutesOK(r)'
    BY <1>1, <1>4, <1>5, <1>8 DEF RequestInv, RoutesOK, Early
  <2>2. TurnStands(r)'
    BY <1>1, <1>4, <1>5, <1>8 DEF RequestInv, TurnStands, AnswerStands, Early, Before, Within, After
  <2>3. DraftStands(r)'
    BY <1>1, <1>4, <1>8 DEF RequestInv, DraftStands, After
  <2>4. AnswerStands(r)'
    BY <1>1, <1>4, <1>6, <1>7, <1>8 DEF RequestInv, AnswerStands, ToldTruly, After
  <2>5. EndStands(r)'
    BY <1>1, <1>4, <1>7, <1>8 DEF RequestInv, EndStands, After
  <2>6. AuditStands(r)'
    BY <1>1, <1>4, <1>6, <1>7, <1>8 DEF RequestInv, AuditStands, Early, After
  <2>7. QED
    BY <2>1, <2>2, <2>3, <2>4, <2>5, <2>6 DEF RequestInv
<1>10. QED
  BY <1>1, <1>2, <1>3, <1>6, <1>9, OthersSame

(* A request leaves its key resolved or released, or cannot resolve it. *)
LEMMA EndKeepsKeys ==
  ASSUME TurnInv, NEW r \in Requests, pc[r] \in {"resolve", "release"}, Faults,
         \A q \in Requests \ {r} : SameRequest(q),
         pc'[r] = "done", UNCHANGED <<req, answer, names, turn, drafts>>,
         \A k \in Keys \ {req[r].key} : keyRec'[k] = keyRec[k],
         KeyInv(req[r].key)',
         pc[r] = "resolve" /\ turn[r] # "gone" => Owner(req[r].key, r)'
  PROVE  KeysInv'
<1>1. TurnTypeOK /\ KeysInv /\ RequestInv(r)
  BY DEF TurnInv
<1>2. /\ pc[r] # "done" /\ pc[r] \in Holding /\ pc'[r] \notin Holding /\ pc'[r] \notin Early
      /\ pc[r] \in Early \cup {"resolve", "release"} /\ Keyed(r)
  BY <1>1 DEF Holding, Before, Within, After, Early, RequestInv, RoutesOK
<1>3. Owner(req[r].key, r) /\ NameInv(r)
  BY <1>1, <1>2 DEF KeysInv, HoldInv
<1>4. \A k \in Keys : keyRec[k].status # "free" /\ keyRec[k].by # r => keyRec'[k] = keyRec[k]
  BY <1>3 DEF Owner
<1>5. \A q \in Requests \ {r} : HoldInv(q)' /\ NameInv(q)'
  BY <1>1, <1>2, <1>4, OtherKeys
<1>6. /\ r \in drafts => pc[r] = "resolve" /\ turn[r] # "gone"
      /\ pc[r] = "release" => names[r] = None
      /\ pc[r] = "resolve" => names[r] = r
  BY <1>1, <1>2 DEF RequestInv, DraftStands, AnswerStands, After
<1>7. HoldInv(r)'
  BY <1>2, <1>6 DEF HoldInv, Owner
<1>8. NameInv(r)'
  BY <1>3, <1>6, RequestsAre DEF NameInv, Owner
<1>9. ASSUME NEW k \in Keys, k # req[r].key PROVE KeyInv(k)'
  <2>1. keyRec[k].status = "free" \/ keyRec[k].by # r
    BY <1>1, <1>9, KeyOfHolder
  <2>2. QED
    BY <1>1, <1>9, <2>1, OtherRecords
<1>10. QED
  BY <1>5, <1>7, <1>8, <1>9 DEF KeysInv

LEMMA AuditKeeps ==
  ASSUME TurnInv, NEW r \in Requests, FinalizeAuditSafely(r)
  PROVE  TurnInv'
<1>1. /\ pc[r] = "audit" /\ pc[r] \in After /\ pc[r] \in Holding /\ Faults
      /\ UNCHANGED <<storeVars, req, outcome, answer, names, keyRec, drafts, asked>>
  BY NoFault DEF FinalizeAuditSafely, After, Holding, TurnInv
<1>2. PICK p \in {"resolve", "done"} : p = IF Keyed(r) THEN "resolve" ELSE "done"
  OBVIOUS
<1>3. Goto(r, p) /\ (p = "resolve" => Keyed(r)) /\ (p = "done" => ~Keyed(r))
  BY <1>2 DEF FinalizeAuditSafely, AfterAudit
<1>4. AuditOutcome(r) \in AuditStatus \ {"STARTED"}
  <2>1. CASE outcome[r] \in SayOutcomes
    <3>1. outcome[r] \in {"question", "unsupported", "refused"}
      BY <2>1, OutcomesAre
    <3>2. QED
      BY <2>1, <3>1 DEF AuditOutcome, SayResult, AuditStatus
  <2>2. CASE outcome[r] \notin SayOutcomes
    BY <2>2 DEF AuditOutcome, AuditStatus
  <2>3. QED
    BY <2>1, <2>2
<1>5. /\ turn[r] # "none"
      /\ audit[r] = "STARTED" => Writable(r)
  BY <1>1 DEF TurnInv, RequestInv, TurnStands, AuditStands, Writable
<1>6. /\ audit' \in [Requests -> AuditStatus] /\ audit'[r] # "STARTED"
      /\ \A q \in Requests \ {r} : audit'[q] = audit[q]
  BY <1>4, <1>5 DEF FinalizeAuditSafely, TurnInv, TurnTypeOK
<1>7. /\ Acts(r, p, outcome[r], answer[r], names[r])
      /\ Stores(r, turn[r], at[r], said[r]) /\ RowsOfOthers(r)
      /\ RequestInv(r)' /\ names[r] \in {None, r}
  BY <1>1, <1>3, <1>6, EndKeeps
<1>8. p \in Steps /\ p \in Holding \cup {"done", "dead"}
  BY DEF Steps, Holding, After
<1>9. TurnTypeOK /\ names[r] = r
  BY <1>1 DEF TurnInv, RequestInv, AnswerStands
<1>10. QED
  BY <1>1, <1>3, <1>7, <1>8, <1>9, ValuesAre, HolderStep

(* A step out of "resolve" or "release" that leaves the invariant of keys. *)
LEMMA KeyStep ==
  ASSUME TurnInv, NEW r \in Requests, pc[r] \in {"resolve", "release"}, Goto(r, "done"), Faults,
         UNCHANGED <<storeVars, req, outcome, answer, names, drafts, asked, audit>>,
         (keyRec \in [Keys -> [status : {"free", "RUNNING", "COMPLETED"},
                          op : {"none", "execute", "messages"},
                          by : Requests \cup {None}, answer : Answers]])',
         \A k \in Keys \ {req[r].key} : keyRec'[k] = keyRec[k],
         pc'[r] = "done" => KeyInv(req[r].key)',
         pc[r] = "resolve" /\ turn[r] # "gone" => Owner(req[r].key, r)'
  PROVE  TurnInv'
<1>1. /\ TurnTypeOK /\ pc[r] \in After \cup {"release"} /\ pc[r] # "audit"
      /\ audit' \in [Requests -> AuditStatus] /\ UNCHANGED <<answer, names, turn, drafts, req>>
      /\ reconciled \subseteq reconciled'
  BY DEF TurnInv, TurnTypeOK, After, storeVars
<1>2. /\ Acts(r, "done", outcome[r], answer[r], names[r])
      /\ Stores(r, turn[r], at[r], said[r]) /\ RowsOfOthers(r) /\ RequestInv(r)'
      /\ \A q \in Requests \ {r} : SameRequest(q)
  BY <1>1, EndKeeps
<1>3. TurnTypeOK'
  <2>1. "done" \in Steps /\ req' \in [Requests -> Request \cup {NoRequest}]
    BY <1>1 DEF Steps, TurnTypeOK
  <2>2. QED
    BY <1>1, <1>2, <2>1, ValuesAre, ActsType
<1>4. \A q \in Requests : RequestInv(q)'
  BY <1>1, <1>2, SameKeepsInv DEF TurnInv
<1>5. pc'[r] = "done"
  BY <1>1, <1>2, ItsOwn
<1>6. KeysInv'
  BY <1>1, <1>2, <1>5, EndKeepsKeys
<1>7. QED
  BY <1>3, <1>4, <1>6 DEF TurnInv

(* What a request that is about to leave its key knows of the key's record. *)
LEMMA KeyHeld ==
  ASSUME TurnInv, NEW r \in Requests, pc[r] \in Holding, Keyed(r)
  PROVE  /\ req[r].key \in Keys /\ keyRec[req[r].key].status = "RUNNING"
         /\ keyRec[req[r].key].by = r
<1>1. HoldInv(r) /\ TurnTypeOK
  BY DEF TurnInv, KeysInv
<1>2. req[r].key \in Keys
  BY <1>1 DEF Keyed, TurnTypeOK, Request, NoRequest
<1>3. QED
  BY <1>1, <1>2 DEF HoldInv, Owner

LEMMA ResolveKeeps ==
  ASSUME TurnInv, NEW r \in Requests, ResolveIdempotencyKey(r)
  PROVE  TurnInv'
<1>1. /\ pc[r] = "resolve" /\ pc[r] \in After /\ pc[r] \in Holding /\ Faults /\ Goto(r, "done")
      /\ UNCHANGED <<storeVars, req, outcome, answer, names, drafts, asked, audit>>
  BY NoFault DEF ResolveIdempotencyKey, After, Holding, TurnInv
<1>2. /\ TurnTypeOK /\ Keyed(r) /\ names[r] = r /\ turn[r] # "none"
      /\ answer[r] \in Answers
  BY <1>1, ValuesAre DEF TurnInv, RequestInv, RoutesOK, AnswerStands, TurnStands
<1>3. PICK k \in Keys : k = req[r].key /\ keyRec[k].status = "RUNNING" /\ keyRec[k].by = r
  BY <1>1, <1>2, KeyHeld
<1>4. UNCHANGED <<names, answer, turn, req>> /\ "done" \notin Early
  BY <1>1 DEF storeVars, Early
<1>5. CASE Writable(r)
  <2>1. PICK rec : rec = [keyRec[k] EXCEPT !.status = "COMPLETED", !.answer = answer[r]]
    OBVIOUS
  <2>2. keyRec' = [keyRec EXCEPT ![k] = rec]
    BY <1>3, <1>5, <2>1 DEF ResolveIdempotencyKey
  <2>3. /\ rec \in [status : {"free", "RUNNING", "COMPLETED"}, op : {"none", "execute", "messages"},
                    by : Requests \cup {None}, answer : Answers]
        /\ rec.status = "COMPLETED" /\ rec.answer = answer[r] /\ rec.by = r
    <3>1. keyRec[k] \in [status : {"free", "RUNNING", "COMPLETED"}, op : {"none", "execute", "messages"},
                         by : Requests \cup {None}, answer : Answers]
      BY <1>2 DEF TurnTypeOK
    <3>2. QED
      BY <1>2, <1>3, <2>1, <3>1
  <2>4. keyRec'[k] = rec /\ \A x \in Keys \ {k} : keyRec'[x] = keyRec[x]
    BY <1>2, <2>2 DEF TurnTypeOK
  <2>5. (keyRec \in [Keys -> [status : {"free", "RUNNING", "COMPLETED"},
                          op : {"none", "execute", "messages"},
                          by : Requests \cup {None}, answer : Answers]])'
    BY <1>2, <2>2, <2>3 DEF TurnTypeOK
  <2>6. Owner(k, r)'
    BY <2>3, <2>4 DEF Owner
  <2>7. pc'[r] = "done" => KeyInv(k)'
    BY <1>2, <1>3, <1>4, <2>3, <2>4 DEF KeyInv
  <2>8. QED
    BY <1>1, <1>3, <2>4, <2>5, <2>6, <2>7, KeyStep
<1>6. CASE ~Writable(r)
  <2>1. keyRec' = keyRec /\ turn[r] = "gone"
    BY <1>2, <1>6 DEF ResolveIdempotencyKey, Writable
  <2>2. pc'[r] = "done" => KeyInv(k)'
    BY <1>3, <1>4, <2>1 DEF KeyInv
  <2>3. QED
    BY <1>1, <1>2, <1>3, <2>1, <2>2, KeyStep DEF TurnTypeOK
<1>7. QED
  BY <1>5, <1>6

LEMMA ReleaseKeeps ==
  ASSUME TurnInv, NEW r \in Requests, ReleaseIdempotencyKey(r)
  PROVE  TurnInv'
<1>1. /\ pc[r] = "release" /\ pc[r] \in Holding /\ Faults /\ Goto(r, "done")
      /\ UNCHANGED <<storeVars, req, outcome, answer, names, drafts, asked, audit>>
  BY NoFault DEF ReleaseIdempotencyKey, Holding, TurnInv
<1>2. TurnTypeOK /\ Keyed(r)
  BY <1>1 DEF TurnInv, RequestInv, RoutesOK
<1>3. PICK k \in Keys : k = req[r].key /\ keyRec[k].status = "RUNNING" /\ keyRec[k].by = r
  BY <1>1, <1>2, KeyHeld
<1>4. keyRec' = [keyRec EXCEPT ![k] = NoRecord]
  BY <1>3 DEF ReleaseIdempotencyKey
<1>5. keyRec'[k] = NoRecord /\ \A x \in Keys \ {k} : keyRec'[x] = keyRec[x]
  BY <1>2, <1>4 DEF TurnTypeOK
<1>6. (keyRec \in [Keys -> [status : {"free", "RUNNING", "COMPLETED"},
                          op : {"none", "execute", "messages"},
                          by : Requests \cup {None}, answer : Answers]])'
  BY <1>2, <1>4 DEF TurnTypeOK, NoRecord, Answers
<1>7. KeyInv(k)'
  BY <1>5 DEF KeyInv, NoRecord
<1>8. QED
  BY <1>1, <1>3, <1>5, <1>6, <1>7, KeyStep

-----------------------------------------------------------------------------
(* The first steps: before the request holds its key *)

(* A request that has not begun has no rows. *)
LEMMA NotBegun ==
  ASSUME TurnInv, NEW r \in Requests, pc[r] \in Early
  PROVE  /\ TurnTypeOK /\ RequestInv(r) /\ turn[r] = "none" /\ at[r] = None /\ said[r] = 0
         /\ names[r] = None /\ r \notin drafts /\ audit[r] = "none"
  BY DEF TurnInv, RequestInv, TurnStands, DraftStands, AuditStands

LEMMA EarlyStep ==
  ASSUME TurnInv, NEW r \in Requests, pc[r] \in Early,
         NEW p \in Steps, NEW a \in Answers, NEW n \in Requests \cup {None},
         Acts(r, p, outcome[r], a, n), Faults,
         UNCHANGED <<storeVars, drafts, asked, audit>>,
         req' \in [Requests -> Request \cup {NoRequest}],
         \A q \in Requests \ {r} : req'[q] = req[q], req'[r] \in Request,
         p \in {"claim", "claimRead"} => Keyed(r)',
         p = "establish" => (req[r].op = "messages")',
         p \in {"claim", "claimRead", "establish", "check", "done"},
         n # None => p = "done" /\ n # r
  PROVE  /\ RequestInv(r)' /\ (\A q \in Requests \ {r} : SameRequest(q))
         /\ \A q \in Requests : RequestInv(q)'
         /\ pc'[r] = p /\ names'[r] = n /\ answer'[r] = a /\ r \notin drafts'
         /\ keyRec' = keyRec => TurnTypeOK'
         /\ (keyRec \in [Keys -> [status : {"free", "RUNNING", "COMPLETED"},
                          op : {"none", "execute", "messages"},
                          by : Requests \cup {None}, answer : Answers]])' => TurnTypeOK'
<1>1. /\ TurnTypeOK /\ RequestInv(r) /\ turn[r] = "none" /\ at[r] = None /\ said[r] = 0
      /\ names[r] = None /\ r \notin drafts /\ audit[r] = "none"
  BY NotBegun
<1>2. Stores(r, turn[r], at[r], said[r]) /\ RowsOfOthers(r)
  <2>1. conv' \in [Conversations -> ConversationStatus] /\ RowsOfOthers(r)
    BY <1>1, ConvStays, RowsStay DEF storeVars
  <2>2. QED
    BY <1>1, <2>1, StoreStays DEF storeVars
<1>3. /\ pc'[r] = p /\ outcome'[r] = outcome[r] /\ answer'[r] = a /\ names'[r] = n
      /\ turn'[r] = "none" /\ at'[r] = None /\ said'[r] = 0
      /\ r \notin drafts' /\ audit'[r] = "none"
  BY <1>1, <1>2, ItsOwn
<1>4. RequestInv(r)'
  <2>1. RoutesOK(r)'
    BY <1>3 DEF RoutesOK
  <2>2. TurnStands(r)'
    BY <1>3 DEF TurnStands, Within, Early, Before, After, Terminal
  <2>3. DraftStands(r)' /\ AnswerStands(r)'
    BY <1>3, RequestsAre DEF DraftStands, AnswerStands, After
  <2>4. EndStands(r)' /\ AuditStands(r)'
    BY <1>3 DEF EndStands, AuditStands
  <2>5. QED
    BY <2>1, <2>2, <2>3, <2>4 DEF RequestInv
<1>5. \A q \in Requests \ {r} : SameRequest(q)
  BY <1>1, <1>2, OthersSame
<1>6. \A q \in Requests : RequestInv(q)'
  BY <1>1, <1>4, <1>5, SameKeepsInv DEF TurnInv, storeVars
<1>7. /\ keyRec' = keyRec => TurnTypeOK'
      /\ (keyRec \in [Keys -> [status : {"free", "RUNNING", "COMPLETED"},
                          op : {"none", "execute", "messages"},
                          by : Requests \cup {None}, answer : Answers]])' => TurnTypeOK'
  BY <1>1, <1>2, ValuesAre, ActsType
<1>8. QED
  BY <1>3, <1>4, <1>5, <1>6, <1>7

LEMMA ArriveKeeps ==
  ASSUME TurnInv, NEW r \in Requests, Arrive(r)
  PROVE  TurnInv'
<1>1. /\ pc[r] = "unsent" /\ pc[r] \in Early /\ Faults
      /\ UNCHANGED <<storeVars, outcome, answer, names, rowVars>>
  BY NoFault DEF Arrive, Early, TurnInv
<1>2. PICK q \in Asks : /\ req' = [req EXCEPT ![r] = q]
                        /\ Goto(r, IF q.key # None THEN "claim" ELSE Entry(q.op))
  BY DEF Arrive
<1>3. PICK p : p = IF q.key # None THEN "claim" ELSE Entry(q.op)
  OBVIOUS
<1>4. TurnTypeOK /\ KeysInv /\ names[r] = None
  BY <1>1, NotBegun DEF TurnInv
<1>5. q \in Request
  BY TurnAssumption
<1>6. Acts(r, p, outcome[r], answer[r], names[r])
  BY <1>1, <1>2, <1>3, <1>4, ValuesAre DEF Goto, Acts
<1>7. /\ req' \in [Requests -> Request \cup {NoRequest}] /\ req'[r] = q
      /\ \A x \in Requests \ {r} : req'[x] = req[x]
  BY <1>2, <1>4, <1>5 DEF TurnTypeOK
<1>8. /\ p \in {"claim", "establish", "check"} /\ p \in Steps
      /\ p = "claim" <=> q.key # None
      /\ p = "establish" => q.op = "messages"
  BY <1>3, <1>5 DEF Entry, Request, Steps
<1>9. UNCHANGED <<drafts, asked, audit, keyRec>>
  BY <1>1 DEF rowVars
<1>10. /\ (\A x \in Requests : RequestInv(x)') /\ (\A x \in Requests \ {r} : SameRequest(x))
       /\ pc'[r] = p /\ names'[r] = None /\ r \notin drafts' /\ TurnTypeOK'
  <2>1. Keyed(r)' <=> q.key # None
    BY <1>7 DEF Keyed
  <2>2. QED
    BY <1>1, <1>4, <1>5, <1>6, <1>7, <1>8, <1>9, <2>1, ValuesAre, EarlyStep
<1>11. KeysInv'
  <2>1. NameInv(r)' /\ (pc'[r] \in Holding => ~Keyed(r)')
    BY <1>7, <1>8, <1>10 DEF NameInv, Keyed, Holding, Before, Within, After
  <2>2. QED
    BY <1>1, <1>4, <1>9, <1>10, <2>1, EarlyKeepsKeys
<1>12. QED
  BY <1>10, <1>11 DEF TurnInv

LEMMA ClaimKeeps ==
  ASSUME TurnInv, NEW r \in Requests, ClaimIdempotencyKey(r)
  PROVE  TurnInv'
<1>1. /\ pc[r] = "claim" /\ pc[r] \in Early /\ pc[r] # "done" /\ Faults
      /\ UNCHANGED <<storeVars, req, outcome, answer, names, drafts, asked, audit>>
  BY NoFault DEF ClaimIdempotencyKey, Early, TurnInv
<1>2. /\ TurnTypeOK /\ KeysInv /\ names[r] = None /\ Keyed(r) /\ req[r] \in Request
      /\ Keyed(r)' /\ UNCHANGED req
  BY <1>1, NotBegun DEF TurnInv, RequestInv, RoutesOK, Keyed
<1>3. req[r].key \in Keys /\ req[r].op \in {"execute", "messages"}
  BY <1>2 DEF Keyed, Request
<1>4. ASSUME NEW p \in {"claimRead", "establish", "check"}, Goto(r, p),
             p = "establish" => req[r].op = "messages"
      PROVE  /\ (\A x \in Requests : RequestInv(x)') /\ (\A x \in Requests \ {r} : SameRequest(x))
             /\ pc'[r] = p /\ names'[r] = None /\ r \notin drafts'
             /\ keyRec' = keyRec => TurnTypeOK'
             /\ (keyRec \in [Keys -> [status : {"free", "RUNNING", "COMPLETED"},
                          op : {"none", "execute", "messages"},
                          by : Requests \cup {None}, answer : Answers]])' => TurnTypeOK'
  <2>1. Acts(r, p, outcome[r], answer[r], names[r])
    BY <1>1, <1>2, <1>4, ValuesAre DEF Goto, Acts
  <2>2. p \in Steps /\ req' \in [Requests -> Request \cup {NoRequest}] /\ UNCHANGED <<drafts, asked, audit>>
    BY <1>1, <1>2, <1>4 DEF Steps, TurnTypeOK
  <2>3. p = "establish" => (req[r].op = "messages")'
    BY <1>2, <1>4
  <2>4. answer[r] \in Answers /\ names[r] \in Requests \cup {None}
    BY <1>2, ValuesAre
  <2>5. /\ (\A x \in Requests : RequestInv(x)') /\ (\A x \in Requests \ {r} : SameRequest(x))
        /\ pc'[r] = p /\ names'[r] = names[r] /\ r \notin drafts'
        /\ keyRec' = keyRec => TurnTypeOK'
        /\ (keyRec \in [Keys -> [status : {"free", "RUNNING", "COMPLETED"},
                          op : {"none", "execute", "messages"},
                          by : Requests \cup {None}, answer : Answers]])' => TurnTypeOK'
    BY <1>1, <1>2, <1>4, <2>1, <2>2, <2>3, <2>4, EarlyStep
  <2>6. QED
    BY <1>2, <2>5
<1>5. CASE keyRec[req[r].key].status # "free"
  <2>1. Goto(r, "claimRead") /\ keyRec' = keyRec
    BY <1>5 DEF ClaimIdempotencyKey
  <2>2. /\ (\A x \in Requests : RequestInv(x)') /\ (\A x \in Requests \ {r} : SameRequest(x))
        /\ pc'[r] = "claimRead" /\ names'[r] = None /\ r \notin drafts' /\ TurnTypeOK'
    BY <1>4, <2>1
  <2>3. NameInv(r)' /\ pc'[r] \notin Holding
    BY <2>2 DEF NameInv, Holding, Before, Within, After
  <2>4. KeysInv'
    BY <1>1, <1>2, <2>1, <2>2, <2>3, EarlyKeepsKeys
  <2>5. QED
    BY <2>2, <2>4 DEF TurnInv
<1>6. CASE keyRec[req[r].key].status = "free"
  <2>1. PICK rec : rec = [status |-> "RUNNING", op |-> req[r].op, by |-> r, answer |-> "none"]
    OBVIOUS
  <2>2. PICK k \in Keys : k = req[r].key
    BY <1>3
  <2>3. keyRec' = [keyRec EXCEPT ![k] = rec] /\ Goto(r, Entry(req[r].op))
    BY <1>6, <2>1, <2>2 DEF ClaimIdempotencyKey
  <2>4. /\ rec \in [status : {"free", "RUNNING", "COMPLETED"}, op : {"none", "execute", "messages"},
                    by : Requests \cup {None}, answer : Answers]
        /\ rec.status = "RUNNING" /\ rec.by = r
    BY <1>3, <2>1 DEF Answers
  <2>5. /\ Entry(req[r].op) \in {"establish", "check"}
        /\ Entry(req[r].op) = "establish" => req[r].op = "messages"
    BY <1>3 DEF Entry
  <2>6. (keyRec \in [Keys -> [status : {"free", "RUNNING", "COMPLETED"},
                          op : {"none", "execute", "messages"},
                          by : Requests \cup {None}, answer : Answers]])'
    BY <1>2, <2>3, <2>4 DEF TurnTypeOK
  <2>7. /\ (\A x \in Requests : RequestInv(x)') /\ (\A x \in Requests \ {r} : SameRequest(x))
        /\ pc'[r] \in {"establish", "check"} /\ names'[r] = None /\ r \notin drafts' /\ TurnTypeOK'
    BY <1>4, <2>3, <2>5, <2>6
  <2>8. keyRec'[k] = rec /\ \A x \in Keys \ {k} : keyRec'[x] = keyRec[x]
    BY <1>2, <2>3 DEF TurnTypeOK
  <2>9. \A q \in Requests \ {r} : HoldInv(q)' /\ NameInv(q)'
    <3>1. \A x \in Keys : keyRec[x].status # "free" /\ keyRec[x].by # r => keyRec'[x] = keyRec[x]
      BY <1>6, <2>2, <2>8
    <3>2. QED
      BY <1>1, <1>2, <2>7, <3>1, OtherKeys
  <2>10. HoldInv(r)' /\ NameInv(r)'
    BY <1>2, <2>2, <2>4, <2>7, <2>8 DEF HoldInv, NameInv, Owner
  <2>11. ASSUME NEW x \in Keys, x # k PROVE KeyInv(x)'
    <3>1. keyRec[x].status = "free" \/ keyRec[x].by # r
      BY <1>1, <1>2, <2>11, KeyOfHolder
    <3>2. keyRec'[x] = keyRec[x]
      BY <2>8, <2>11
    <3>3. QED
      BY <1>1, <1>2, <2>7, <3>1, <3>2, OtherRecords
  <2>12. KeyInv(k)'
    BY <1>2, <2>2, <2>4, <2>7, <2>8 DEF KeyInv, Early
  <2>13. QED
    BY <2>7, <2>9, <2>10, <2>11, <2>12 DEF KeysInv, TurnInv
<1>7. QED
  BY <1>5, <1>6

(* A replay names the turn of the record's request, which is over. *)
LEMMA ReadKeeps ==
  ASSUME TurnInv, NEW r \in Requests, pc[r] \in {"claim", "claimRead"}, Faults,
         NEW a \in Answers, NEW t \in Requests \cup {None}, Leave(r, a, t),
         UNCHANGED <<storeVars, req, outcome, rowVars>>,
         t # None => /\ req[r].key \in Keys /\ keyRec[req[r].key].status = "COMPLETED"
                     /\ keyRec[req[r].key].by = t /\ keyRec[req[r].key].answer = a
  PROVE  TurnInv'
<1>1. /\ TurnTypeOK /\ KeysInv /\ pc[r] \in Early /\ Keyed(r) /\ req[r] \in Request
      /\ UNCHANGED <<drafts, asked, audit, keyRec, req>>
  BY DEF TurnInv, Early, RequestInv, RoutesOK, rowVars
<1>2. Acts(r, "done", outcome[r], a, t)
  BY <1>1, ValuesAre DEF Leave, Goto, Acts
<1>3. t # None => /\ KeyInv(req[r].key) /\ pc[t] = "done" /\ names[t] = t /\ a = answer[t] /\ t # r
  BY <1>1 DEF KeysInv, KeyInv, Early
<1>4. /\ (\A x \in Requests : RequestInv(x)') /\ (\A x \in Requests \ {r} : SameRequest(x))
      /\ pc'[r] = "done" /\ names'[r] = t /\ answer'[r] = a /\ r \notin drafts' /\ TurnTypeOK'
  <2>1. "done" \in Steps /\ req' \in [Requests -> Request \cup {NoRequest}]
    BY <1>1 DEF Steps, TurnTypeOK
  <2>2. QED
    BY <1>1, <1>2, <1>3, <2>1, EarlyStep
<1>5. NameInv(r)' /\ pc'[r] \notin Holding
  <2>1. pc'[r] \notin Holding
    BY <1>4 DEF Holding, Before, Within, After
  <2>2. CASE t = None
    BY <1>4, <2>1, <2>2 DEF NameInv
  <2>3. CASE t # None
    <3>1. SameRequest(t) /\ t \in Requests
      BY <1>3, <1>4, <2>3
    <3>2. names'[t] = t /\ answer'[t] = a /\ pc'[t] = "done"
      BY <1>3, <2>3, <3>1 DEF SameRequest
    <3>3. Owner(req[r].key, t)'
      BY <1>1, <2>3 DEF Owner
    <3>4. QED
      BY <1>4, <2>1, <3>1, <3>2, <3>3 DEF NameInv, Owner
  <2>4. QED
    BY <2>2, <2>3
<1>6. KeysInv'
  BY <1>1, <1>4, <1>5, EarlyKeepsKeys
<1>7. QED
  BY <1>4, <1>6 DEF TurnInv

LEMMA ReadClaimedKeeps ==
  ASSUME TurnInv, NEW r \in Requests, ReadClaimedKey(r)
  PROVE  TurnInv'
<1>1. /\ pc[r] = "claimRead" /\ Faults /\ UNCHANGED <<storeVars, req, outcome, rowVars>>
  BY NoFault DEF ReadClaimedKey, TurnInv
<1>2. TurnTypeOK /\ Keyed(r) /\ req[r] \in Request
  BY <1>1 DEF TurnInv, RequestInv, RoutesOK
<1>3. req[r].key \in Keys
  BY <1>2 DEF Keyed, Request
<1>4. PICK rec : rec = keyRec[req[r].key]
  OBVIOUS
<1>5. rec.status \in {"free", "RUNNING", "COMPLETED"} /\ rec.answer \in Answers
      /\ rec.by \in Requests \cup {None}
  BY <1>2, <1>3, <1>4 DEF TurnTypeOK
<1>6. \/ \E a \in {"thrown", "conflict", "in_progress"} : Leave(r, a, None)
      \/ rec.status = "COMPLETED" /\ Leave(r, rec.answer, rec.by)
  BY <1>4, <1>5 DEF ReadClaimedKey
<1>7. CASE \E a \in {"thrown", "conflict", "in_progress"} : Leave(r, a, None)
  BY <1>1, <1>7, ReadKeeps DEF Answers
<1>8. CASE rec.status = "COMPLETED" /\ Leave(r, rec.answer, rec.by)
  BY <1>1, <1>3, <1>4, <1>5, <1>8, ReadKeeps
<1>9. QED
  BY <1>6, <1>7, <1>8

-----------------------------------------------------------------------------
(* Faults and interventions *)

LEMMA DatabaseFailsKeeps ==
  ASSUME TurnInv, NEW r \in Requests, DatabaseFails(r)
  PROVE  TurnInv'
<1>1. TurnTypeOK /\ RequestInv(r)
  BY DEF TurnInv
<1>2. /\ Faults /\ failures' # 0 /\ UNCHANGED <<req, rowVars>>
  BY <1>1, TurnAssumption DEF DatabaseFails, Faults, TurnTypeOK
<1>3. /\ outcome[r] \in Outcomes /\ outcome = [outcome EXCEPT ![r] = outcome[r]]
  BY <1>1, ValuesAre
<1>4. UNCHANGED storeVars =>
        /\ UNCHANGED <<turn, at, exec, said, reconciled>>
        /\ conv' \in [Conversations -> ConversationStatus]
  BY <1>1, ConvStays DEF storeVars
<1>5. CASE /\ pc[r] \in {"claim", "claimRead"} /\ Leave(r, "thrown", None)
           /\ UNCHANGED <<storeVars, outcome>>
  <2>1. "thrown" \in Answers
    BY DEF Answers
  <2>2. UNCHANGED <<storeVars, req, outcome, rowVars>>
    BY <1>2, <1>5
  <2>3. QED
    BY <1>2, <1>5, <2>1, <2>2, ReadKeeps
<1>6. CASE /\ pc[r] \in {"establish", "prepare", "check", "begin", "rejected", "running",
                          "tool", "decide", "say"}
           /\ Throw(r) /\ UNCHANGED <<storeVars, outcome, names>>
  <2>1. pc[r] \in Before \cup Within /\ pc[r] # "finalize"
    BY <1>6 DEF Before, Within
  <2>2. r \notin drafts
    BY <2>1, OnItsWay
  <2>3. QED
    BY <1>2, <1>3, <1>4, <1>6, <2>1, <2>2, ThrowStep
<1>7. CASE /\ pc[r] = "effect" /\ UNCHANGED <<storeVars, names>>
           /\ IF outcome[r] = "drafted"
              THEN /\ outcome' = [outcome EXCEPT ![r] = "draftFailed"]
                   /\ Goto(r, "finalize") /\ UNCHANGED answer
              ELSE Throw(r) /\ UNCHANGED outcome
  <2>1. /\ pc[r] \in Before \cup Within /\ pc[r] # "finalize"
        /\ "finalize" \in Before \cup Within /\ ("finalize" \in Before <=> pc[r] \in Before)
    BY <1>7 DEF Before, Within
  <2>2. /\ r \notin drafts /\ RowsOfOthers(r) /\ UNCHANGED <<keyRec, drafts, audit>>
        /\ audit'[r] = "STARTED" => req[r].op = "messages" /\ turn[r] # "gone"
    BY <1>1, <1>2, <2>1, OnItsWay, RowsStay DEF rowVars
  <2>3. "draftFailed" \in ToolOutcomes \ {"drafted"} /\ "draftFailed" \in Outcomes
    BY OutcomesAre DEF Outcomes
  <2>4. CASE outcome[r] = "drafted"
    BY <1>2, <1>4, <1>7, <2>1, <2>2, <2>3, <2>4, QuietAdvance
  <2>5. CASE outcome[r] # "drafted"
    BY <1>2, <1>3, <1>4, <1>7, <2>1, <2>2, <2>5, ThrowStep
  <2>6. QED
    BY <2>4, <2>5
<1>8. CASE pc[r] = "finalize" /\ FinalizeFails(r)
  BY <1>2, <1>8, FinalizeFailsKeeps
<1>9. CASE /\ pc[r] \in {"audit", "resolve", "release"}
           /\ AfterAudit(r) \/ Goto(r, "done")
           /\ AfterAudit(r) => pc[r] = "audit" \/ Goto(r, "done")
           /\ UNCHANGED <<storeVars, outcome, answer, names>>
  <2>1. PICK p \in {"resolve", "done"} : Goto(r, p) /\ (p = "resolve" => Keyed(r) /\ pc[r] = "audit")
    BY <1>9 DEF AfterAudit
  <2>2. /\ pc[r] \in After \cup {"release"} /\ pc[r] \in Holding /\ p \in Steps
        /\ p \in Holding \cup {"done", "dead"}
    BY <1>9 DEF After, Holding, Steps
  <2>3. UNCHANGED <<storeVars, req, outcome, answer, names, drafts, asked, audit, keyRec>>
    BY <1>2, <1>9 DEF rowVars
  <2>4. audit' \in [Requests -> AuditStatus]
    BY <1>1, <2>3 DEF TurnTypeOK
  <2>5. /\ Acts(r, p, outcome[r], answer[r], names[r])
        /\ Stores(r, turn[r], at[r], said[r]) /\ RowsOfOthers(r)
        /\ RequestInv(r)' /\ names[r] \in {None, r}
    BY <1>2, <2>1, <2>2, <2>3, <2>4, EndKeeps
  <2>6. failures' > 0
    BY <1>2 DEF Faults
  <2>7. QED
    BY <1>1, <1>2, <2>2, <2>3, <2>5, <2>6, ValuesAre, HolderStep
<1>10. QED
  <2>1. pc[r] = "audit" /\ AfterAudit(r) /\ UNCHANGED <<storeVars, outcome, answer, names>>
        => TurnInv'
    BY <1>9
  <2>2. pc[r] \in {"resolve", "release"} /\ Goto(r, "done")
        /\ UNCHANGED <<storeVars, outcome, answer, names>> => TurnInv'
    BY <1>9
  <2>3. QED
    BY <1>5, <1>6, <1>7, <1>8, <2>1, <2>2 DEF DatabaseFails

LEMMA RequestStepKeeps ==
  ASSUME TurnInv, NEW r \in Requests, RequestStep(r)
  PROVE  TurnInv'
  BY ArriveKeeps, ClaimKeeps, ReadClaimedKeeps, EstablishKeeps, AuditBegins, ProviderKeeps,
     CheckKeeps, StartTurnKeeps, RejectKeeps, RunTurnKeeps, StartToolKeeps, DecideKeeps,
     QuestionKeeps, DraftKeeps, FinalizeKeeps, SayKeeps, AuditKeeps, ResolveKeeps,
     ReleaseKeeps, DatabaseFailsKeeps DEF RequestStep

LEMMA MoveIs ==
  ASSUME TurnTypeOK, Move, UNCHANGED <<failures, crashes>>
  PROVE  Faults /\ failures' = failures
  BY TurnAssumption DEF TurnTypeOK, Move, Faults

LEMMA DeletionKeeps ==
  ASSUME TurnInv, NEW c \in Conversations, DeleteConversation(c)
  PROVE  TurnInv'
<1> DEFINE lost == {r \in Requests : at[r] = c}
<1>1. /\ TurnTypeOK /\ KeysInv /\ Faults /\ failures' = failures
      /\ UNCHANGED <<req, pc, outcome, answer, names, failures, crashes, at, reconciled>>
  BY MoveIs DEF TurnInv, DeleteConversation, DeleteOwnedConversation
<1>2. /\ drafts' = drafts \ lost /\ asked' = asked \ lost
      /\ keyRec' = [k \in Keys |-> IF keyRec[k].status = "COMPLETED" /\ keyRec[k].by \in lost
                                   THEN NoRecord ELSE keyRec[k]]
      /\ audit' = [r \in Requests |-> IF req[r].op = "messages" /\ Target(r) = c
                                      THEN "none" ELSE audit[r]]
  BY DEF DeleteConversation
<1>3. /\ \A q \in lost : turn'[q] = "gone" /\ said'[q] = 0
      /\ \A q \in Requests \ lost : turn'[q] = turn[q] /\ said'[q] = said[q]
  BY RequestsAre DEF DeleteConversation, DeleteOwnedConversation
<1>4. TurnTypeOK'
  <2>1. StoreTypeOK'
    BY <1>1 DEF DeleteConversation, DeleteOwnedConversation, TurnTypeOK, StoreTypeOK,
       ConversationStatus, TurnStatus, ExecStatus
  <2>2. audit' \in [Requests -> AuditStatus]
    BY <1>1, <1>2 DEF TurnTypeOK, AuditStatus
  <2>3. (keyRec \in [Keys -> [status : {"free", "RUNNING", "COMPLETED"},
                          op : {"none", "execute", "messages"},
                          by : Requests \cup {None}, answer : Answers]])'
    BY <1>1, <1>2 DEF TurnTypeOK, NoRecord, Answers
  <2>4. QED
    BY <1>1, <1>2, <2>1, <2>2, <2>3 DEF TurnTypeOK, Faults
<1>5. ASSUME NEW q \in Requests PROVE RequestInv(q)'
  <2>1. RequestInv(q) /\ Target(q)' = Target(q) /\ (Keyed(q)' <=> Keyed(q))
    BY <1>1 DEF TurnInv, Target, Keyed
  <2>2. audit'[q] = audit[q] \/ audit'[q] = "none"
    BY <1>2
  <2>3. CASE q \in lost
    <3>1. turn'[q] = "gone" /\ said'[q] = 0 /\ q \notin drafts' /\ at[q] # None
      BY <1>2, <1>3, <2>3, RequestsAre
    <3>2. turn[q] # "none"
      BY <2>1, <3>1 DEF RequestInv, TurnStands
    <3>3. audit'[q] # "STARTED"
      BY <1>2, <2>1, <2>3, <3>2 DEF RequestInv, TurnStands, AuditStands
    <3>4. RoutesOK(q)'
      BY <1>1, <2>1 DEF RequestInv, RoutesOK
    <3>5. TurnStands(q)'
      BY <1>1, <2>1, <3>1, <3>2 DEF RequestInv, TurnStands, Terminal
    <3>6. DraftStands(q)' /\ EndStands(q)'
      BY <3>1 DEF DraftStands, EndStands
    <3>7. AnswerStands(q)'
      BY <1>1, <2>1, <3>1 DEF RequestInv, AnswerStands
    <3>8. AuditStands(q)'
      BY <1>1, <2>1, <2>2, <3>3 DEF RequestInv, AuditStands
    <3>9. QED
      BY <3>4, <3>5, <3>6, <3>7, <3>8 DEF RequestInv
  <2>4. CASE q \notin lost
    <3>1. turn'[q] = turn[q] /\ said'[q] = said[q] /\ (q \in drafts' <=> q \in drafts)
      BY <1>2, <1>3, <2>4
    <3>2. RoutesOK(q)' /\ TurnStands(q)'
      BY <1>1, <2>1, <3>1 DEF RequestInv, RoutesOK, TurnStands
    <3>3. DraftStands(q)' /\ EndStands(q)'
      BY <1>1, <2>1, <3>1 DEF RequestInv, DraftStands, EndStands
    <3>4. AnswerStands(q)'
      BY <1>1, <2>1, <3>1 DEF RequestInv, AnswerStands, ToldTruly
    <3>5. AuditStands(q)'
      BY <1>1, <2>1, <2>2, <3>1 DEF RequestInv, AuditStands
    <3>6. QED
      BY <3>2, <3>3, <3>4, <3>5 DEF RequestInv
  <2>5. QED
    BY <2>3, <2>4
<1>6. ASSUME NEW k \in Keys, ~(keyRec[k].status = "COMPLETED" /\ keyRec[k].by \in lost)
      PROVE  keyRec'[k] = keyRec[k]
  BY <1>2, <1>6
<1>7. ASSUME NEW q \in Requests PROVE HoldInv(q)' /\ NameInv(q)'
  <2>1. HoldInv(q) /\ NameInv(q) /\ (Keyed(q)' <=> Keyed(q)) /\ (Keyed(q) => req[q].key \in Keys)
    BY <1>1, RequestsAre DEF KeysInv, Keyed, TurnTypeOK, Request, NoRequest
  <2>2. ASSUME Keyed(q), pc[q] \in Holding
        PROVE  Owner(req[q].key, q)' /\ (keyRec[req[q].key].status = "RUNNING")'
    BY <1>1, <1>6, <2>1, <2>2 DEF HoldInv, Owner
  <2>3. ASSUME Keyed(q), q \in drafts' PROVE Owner(req[q].key, q)'
    BY <1>1, <1>2, <1>6, <2>1, <2>3 DEF HoldInv, Owner
  <2>4. HoldInv(q)'
    BY <1>1, <2>1, <2>2, <2>3 DEF HoldInv
  <2>5. ASSUME names[q] # None PROVE NameInv(q)'
    <3>1. PICK t \in Requests : /\ t = names[q] /\ names[t] = t /\ answer[q] = answer[t]
                                /\ t # q => pc[t] = "done"
                                /\ Keyed(q) /\ turn[t] # "gone" => Owner(req[q].key, t)
      BY <2>1, <2>5 DEF NameInv
    <3>2. turn'[t] # "gone" => t \notin lost /\ turn[t] # "gone"
      BY <1>3, <3>1
    <3>3. ASSUME Keyed(q), turn'[t] # "gone" PROVE Owner(req[q].key, t)'
      <4>1. Owner(req[q].key, t) /\ t \notin lost
        BY <3>1, <3>2, <3>3
      <4>2. keyRec'[req[q].key] = keyRec[req[q].key]
        BY <1>6, <2>1, <3>3, <4>1 DEF Owner
      <4>3. QED
        BY <1>1, <4>1, <4>2 DEF Owner
    <3>4. QED
      BY <1>1, <2>1, <3>1, <3>3 DEF NameInv, Owner
  <2>6. NameInv(q)'
    BY <1>1, <2>5 DEF NameInv
  <2>7. QED
    BY <2>4, <2>6
<1>8. ASSUME NEW k \in Keys PROVE KeyInv(k)'
  <2>1. KeyInv(k)
    BY <1>1 DEF KeysInv
  <2>2. CASE keyRec'[k] = NoRecord
    BY <2>2 DEF KeyInv, NoRecord
  <2>3. CASE keyRec'[k] = keyRec[k] /\ keyRec[k].status = "free"
    BY <2>3 DEF KeyInv
  <2>4. CASE keyRec'[k] = keyRec[k] /\ keyRec[k].status # "free"
    <3>1. PICK t \in Requests : t = keyRec[k].by
      BY <2>1, <2>4 DEF KeyInv
    <3>2. turn[t] = "gone" => turn'[t] = "gone"
      BY <1>3
    <3>3. QED
      BY <1>1, <2>1, <2>4, <3>1, <3>2 DEF KeyInv
  <2>5. QED
    BY <1>2, <2>2, <2>3, <2>4
<1>9. QED
  BY <1>4, <1>5, <1>7, <1>8 DEF TurnInv, KeysInv

(* A step of no request, which leaves their control and their rows. *)
LEMMA RowsKeepKeys ==
  ASSUME TurnTypeOK, KeysInv, failures' = failures,
         UNCHANGED <<req, pc, answer, names, keyRec, drafts>>,
         \A q \in Requests : turn'[q] = "gone" <=> turn[q] = "gone"
  PROVE  KeysInv'
<1>1. ASSUME NEW q \in Requests PROVE HoldInv(q)' /\ NameInv(q)'
  BY DEF KeysInv, HoldInv, NameInv, Owner, Keyed
<1>2. ASSUME NEW k \in Keys PROVE KeyInv(k)'
  <2>1. KeyInv(k)
    BY DEF KeysInv
  <2>2. keyRec[k].status # "free" =>
          (turn'[keyRec[k].by] = "gone" <=> turn[keyRec[k].by] = "gone")
    BY <2>1 DEF KeyInv
  <2>3. QED
    BY <2>1, <2>2 DEF KeyInv
<1>3. QED
  BY <1>1, <1>2 DEF KeysInv

LEMMA OtherActionsKeep ==
  ASSUME TurnInv, OtherActions
  PROVE  TurnInv'
<1>1. /\ TurnTypeOK /\ KeysInv /\ Faults /\ failures' = failures
      /\ UNCHANGED <<req, pc, outcome, answer, names, keyRec, drafts, asked, audit, failures, crashes>>
  BY MoveIs DEF TurnInv, OtherActions, rowVars
<1>2. CASE \E c \in Conversations : ArchiveOwnedConversation(c) \/ RestoreOwnedConversation(c)
  <2>1. UNCHANGED <<turn, at, exec, said, reconciled>> /\ conv' \in [Conversations -> ConversationStatus]
    BY <1>1, <1>2 DEF ArchiveOwnedConversation, RestoreOwnedConversation, TurnTypeOK,
       StoreTypeOK, ConversationStatus
  <2>2. TurnTypeOK'
    BY <1>1, <2>1 DEF TurnTypeOK, StoreTypeOK, Faults
  <2>3. \A q \in Requests : SameRequest(q)
    BY <1>1, <2>1 DEF SameRequest
  <2>4. \A q \in Requests : RequestInv(q)'
    BY <1>1, <2>1, <2>3, SameKeepsInv DEF TurnInv
  <2>5. QED
    BY <1>1, <2>1, <2>2, <2>4, RowsKeepKeys DEF TurnInv
<1>3. ASSUME NEW p \in Procs, ReconcileTurn(p) PROVE TurnInv'
  <2>1. /\ turn[p] = "RUNNING" /\ turn' = [turn EXCEPT ![p] = "FAILED"]
        /\ reconciled' = reconciled \cup {p} /\ UNCHANGED <<conv, at, exec, said>>
    BY <1>3 DEF ReconcileTurn, CanReconcileStaleTurn
  <2>2. turn'[p] = "FAILED" /\ \A q \in Procs \ {p} : turn'[q] = turn[q]
    BY <1>1, <2>1 DEF TurnTypeOK, StoreTypeOK
  <2>3. TurnTypeOK'
    BY <1>1, <1>3, <2>1 DEF TurnTypeOK, StoreTypeOK, TurnStatus, Faults
  <2>4. \A q \in Requests : turn'[q] = "gone" <=> turn[q] = "gone"
    BY <2>1, <2>2, RequestsAre
  <2>5. ASSUME NEW q \in Requests, q # p PROVE RequestInv(q)'
    <3>1. SameRequest(q)
      BY <1>1, <2>1, <2>2, <2>5, RequestsAre DEF SameRequest
    <3>2. QED
      BY <1>1, <2>1, <3>1, SameKeepsInv DEF TurnInv
  <2>6. ASSUME p \in Requests PROVE RequestInv(p)'
    <3>1. RequestInv(p) /\ Target(p)' = Target(p) /\ (Keyed(p)' <=> Keyed(p))
      BY <1>1, <2>6 DEF TurnInv, Target, Keyed
    <3>2. RoutesOK(p)'
      BY <1>1, <3>1 DEF RequestInv, RoutesOK
    <3>3. TurnStands(p)'
      BY <1>1, <2>1, <2>2, <3>1 DEF RequestInv, TurnStands
    <3>4. DraftStands(p)' /\ EndStands(p)' /\ AuditStands(p)'
      BY <1>1, <2>1, <2>2, <3>1 DEF RequestInv, DraftStands, EndStands, AuditStands
    <3>5. AnswerStands(p)'
      <4>1. \A a \in DOMAIN TurnOfAnswer : TurnOfAnswer[a] # "RUNNING"
        BY DEF TurnOfAnswer
      <4>2. names[p] = p => ToldTruly(p)'
        BY <1>1, <2>1, <2>2, <3>1, <4>1 DEF RequestInv, AnswerStands, ToldTruly
      <4>3. QED
        BY <1>1, <2>2, <3>1, <4>2 DEF RequestInv, AnswerStands
    <3>6. QED
      BY <3>2, <3>3, <3>4, <3>5 DEF RequestInv
  <2>7. QED
    BY <1>1, <2>3, <2>4, <2>5, <2>6, RowsKeepKeys DEF TurnInv
<1>4. QED
  BY <1>2, <1>3 DEF OtherActions

LEMMA CrashKeeps ==
  ASSUME TurnInv, Crash
  PROVE  TurnInv'
<1>1. /\ TurnTypeOK /\ KeysInv /\ failures' = failures
      /\ pc' = [r \in Requests |-> IF Active(r) THEN "dead" ELSE pc[r]]
      /\ UNCHANGED <<req, outcome, answer, names, keyRec, drafts, asked, audit, failures, moves>>
      /\ UNCHANGED <<conv, turn, at, exec, said, reconciled>>
  BY DEF TurnInv, Crash, rowVars, storeVars
<1>2. crashes' \in 0..MaxFaults
  BY <1>1, TurnAssumption DEF Crash, TurnTypeOK
<1>3. TurnTypeOK'
  BY <1>1, <1>2 DEF TurnTypeOK, StoreTypeOK, Steps
<1>4. ASSUME NEW q \in Requests
      PROVE  \/ pc'[q] = "dead" /\ pc[q] \notin {"unsent", "done", "dead"}
             \/ pc'[q] = pc[q] /\ pc[q] \in {"unsent", "done", "dead"}
  BY <1>1 DEF Active
<1>5. ASSUME NEW q \in Requests PROVE RequestInv(q)'
  <2>1. RequestInv(q) /\ Target(q)' = Target(q) /\ (Keyed(q)' <=> Keyed(q))
    BY <1>1 DEF TurnInv, Target, Keyed
  <2>2. RoutesOK(q)' /\ TurnStands(q)'
    BY <1>1, <1>4, <2>1 DEF RequestInv, RoutesOK, TurnStands, Early, Before, Within, After
  <2>3. DraftStands(q)' /\ EndStands(q)'
    BY <1>1, <1>4, <2>1 DEF RequestInv, DraftStands, EndStands, After
  <2>4. AnswerStands(q)'
    BY <1>1, <1>4, <2>1 DEF RequestInv, AnswerStands, ToldTruly, After
  <2>5. AuditStands(q)'
    BY <1>1, <1>4, <2>1 DEF RequestInv, AuditStands, Early
  <2>6. QED
    BY <2>2, <2>3, <2>4, <2>5 DEF RequestInv
<1>6. ASSUME NEW q \in Requests PROVE HoldInv(q)' /\ NameInv(q)'
  <2>1. HoldInv(q) /\ NameInv(q) /\ (Keyed(q)' <=> Keyed(q))
    BY <1>1 DEF KeysInv, Keyed
  <2>2. pc'[q] \notin Holding
    BY <1>4 DEF Holding, Before, Within, After
  <2>3. HoldInv(q)'
    BY <1>1, <2>1, <2>2 DEF HoldInv, Owner
  <2>4. NameInv(q)'
    BY <1>1, <1>4, <2>1 DEF NameInv, Owner
  <2>5. QED
    BY <2>3, <2>4
<1>7. ASSUME NEW k \in Keys PROVE KeyInv(k)'
  <2>1. KeyInv(k)
    BY <1>1 DEF KeysInv
  <2>2. CASE keyRec[k].status = "free"
    BY <1>1, <2>2 DEF KeyInv
  <2>3. CASE keyRec[k].status # "free"
    <3>1. PICK t \in Requests : t = keyRec[k].by
      BY <2>1, <2>3 DEF KeyInv
    <3>2. QED
      BY <1>1, <1>4, <2>1, <2>3, <3>1 DEF KeyInv, Early
  <2>4. QED
    BY <2>2, <2>3
<1>8. QED
  BY <1>3, <1>5, <1>6, <1>7 DEF TurnInv, KeysInv

LEMMA InitHolds == TurnInit => TurnInv
<1> SUFFICES ASSUME TurnInit PROVE TurnInv
  OBVIOUS
<1>1. TurnTypeOK
  BY TurnAssumption DEF TurnInit, TurnTypeOK, StoreInit, StoreTypeOK, ConversationStatus,
     TurnStatus, ExecStatus, Steps, Outcomes, Answers, NoRecord, AuditStatus
<1>2. ASSUME NEW r \in Requests PROVE RequestInv(r)
  <2>1. /\ pc[r] = "unsent" /\ outcome[r] = "none" /\ names[r] = None /\ audit[r] = "none"
        /\ r \notin drafts /\ turn[r] = "none" /\ at[r] = None /\ said[r] = 0
    BY RequestsAre DEF TurnInit, StoreInit
  <2>2. RoutesOK(r) /\ TurnStands(r) /\ DraftStands(r)
    BY <2>1 DEF RoutesOK, TurnStands, DraftStands, Within, After, Terminal
  <2>3. AnswerStands(r) /\ EndStands(r) /\ AuditStands(r)
    BY <2>1, RequestsAre DEF AnswerStands, EndStands, AuditStands, After
  <2>4. QED
    BY <2>2, <2>3 DEF RequestInv
<1>3. ASSUME NEW r \in Requests PROVE HoldInv(r) /\ NameInv(r)
  BY DEF TurnInit, NoRequest, HoldInv, NameInv, Keyed
<1>4. ASSUME NEW k \in Keys PROVE KeyInv(k)
  BY DEF TurnInit, NoRecord, KeyInv
<1>5. QED
  BY <1>1, <1>2, <1>3, <1>4 DEF TurnInv, KeysInv

LEMMA StutterKeeps ==
  ASSUME TurnInv, UNCHANGED turnVars
  PROVE  TurnInv'
<1>1. /\ UNCHANGED <<conv, turn, at, exec, said, reconciled>>
      /\ UNCHANGED <<req, pc, outcome, answer, names, keyRec, drafts, asked, audit>>
      /\ UNCHANGED <<failures, crashes, moves>>
  BY DEF turnVars, storeVars
<1>2. TurnTypeOK'
  BY <1>1 DEF TurnInv, TurnTypeOK, StoreTypeOK
<1>3. Faults
  BY <1>1, NoFault DEF TurnInv, faultVars
<1>4. \A q \in Requests : SameRequest(q)
  BY <1>1 DEF SameRequest
<1>5. \A q \in Requests : RequestInv(q)'
  BY <1>1, <1>3, <1>4, SameKeepsInv DEF TurnInv
<1>6. KeysInv'
  BY <1>1, RowsKeepKeys DEF TurnInv
<1>7. QED
  BY <1>2, <1>5, <1>6 DEF TurnInv

LEMMA StepTurnInv == TurnInv /\ [TurnNext]_turnVars => TurnInv'
BY RequestStepKeeps, DeletionKeeps, OtherActionsKeep, CrashKeeps, StutterKeeps DEF TurnNext

LEMMA InvariantHolds == TurnSpec => []TurnInv
BY StepTurnInv, InitHolds, PTL DEF TurnSpec

-----------------------------------------------------------------------------
(* The theorems *)

(* Every variable keeps its type, for any number of requests and keys. *)
THEOREM TurnTypeCorrect == TurnSpec => []TurnTypeOK
<1>1. TurnInv => TurnTypeOK
  BY DEF TurnInv
<1>2. QED
  BY <1>1, InvariantHolds, PTL

(* However often a request is repeated under one key, at most one draft    *)
(* exists for it and every answer is about one turn.  A draft's request    *)
(* owns the key's record, and so does the turn an answer names; a record   *)
(* has one owner.                                                          *)
THEOREM OneExecution == TurnSpec => []OneExecutionPerKey
<1>1. ASSUME TurnInv PROVE OneExecutionPerKey
  <2> SUFFICES ASSUME NEW r \in Requests, NEW s \in Requests, Keyed(r), req[r].key = req[s].key
               PROVE  /\ r \in drafts /\ s \in drafts => r = s
                      /\ names[r] # None /\ names[s] # None
                           => \/ names[r] = names[s]
                              \/ "gone" \in {turn[names[r]], turn[names[s]]}
    BY DEF OneExecutionPerKey
  <2>1. HoldInv(r) /\ HoldInv(s) /\ NameInv(r) /\ NameInv(s) /\ Keyed(s)
    BY <1>1 DEF TurnInv, KeysInv, Keyed
  <2>2. r \in drafts /\ s \in drafts => r = s
    BY <2>1 DEF HoldInv, Owner
  <2>3. ASSUME names[r] # None, names[s] # None, turn[names[r]] # "gone", turn[names[s]] # "gone"
        PROVE  names[r] = names[s]
    BY <2>1, <2>3 DEF NameInv, Owner
  <2>4. QED
    BY <2>2, <2>3
<1>2. QED
  BY <1>1, InvariantHolds, PTL

(* What a client is told of a turn, in a replay too, is what the history   *)
(* says: a replay names the turn its record's request was answered about,  *)
(* with that request's answer, and the turn keeps the status it told.      *)
THEOREM AnswersRecorded == TurnSpec => []AnswersAreRecorded
<1>1. ASSUME TurnInv PROVE AnswersAreRecorded
  <2> SUFFICES ASSUME NEW r \in Requests, names[r] # None, turn[names[r]] # "gone"
               PROVE  /\ \/ turn[names[r]] = TurnOfAnswer[answer[r]]
                         \/ answer[r] = "error" /\ failures > 0
                         \/ outcome[names[r]] = "unsafe" /\ turn[names[r]] = "REJECTED"
                      /\ answer[r] = "success" /\ outcome[names[r]] = "drafted" => names[r] \in drafts
    BY DEF AnswersAreRecorded
  <2>1. names[r] \in Requests /\ names[names[r]] = names[r] /\ answer[r] = answer[names[r]]
    BY <1>1 DEF TurnInv, KeysInv, NameInv
  <2>2. ToldTruly(names[r])
    BY <1>1, <2>1 DEF TurnInv, RequestInv, AnswerStands
  <2>3. QED
    BY <2>1, <2>2 DEF ToldTruly
<1>2. QED
  BY <1>1, InvariantHolds, PTL

(* A key in progress, an open turn, a draft no client knows of and an open *)
(* audit row outlive their request only with a cause.                      *)
THEOREM LeftoversHaveCauses == TurnSpec => []LeftoversNeedACause
<1>1. ASSUME TurnInv PROVE LeftoversNeedACause
  <2> SUFFICES ASSUME NEW r \in Requests, pc[r] = "done", failures = 0
               PROVE  /\ \A k \in Keys : keyRec[k].status = "RUNNING" /\ keyRec[k].by = r
                           => turn[r] = "gone"
                      /\ turn[r] \in {"PENDING", "RUNNING"} => outcome[r] = "throws"
                      /\ r \in drafts => answer[r] = "success"
                      /\ audit[r] = "STARTED" => answer[r] = "thrown"
    BY DEF LeftoversNeedACause
  <2>1. EndStands(r) /\ AuditStands(r)
    BY <1>1 DEF TurnInv, RequestInv
  <2>2. \A k \in Keys : keyRec[k].status = "RUNNING" /\ keyRec[k].by = r => turn[r] = "gone"
    BY <1>1 DEF TurnInv, KeysInv, KeyInv
  <2>3. QED
    BY <2>1, <2>2 DEF EndStands, AuditStands
<1>2. QED
  BY <1>1, InvariantHolds, PTL

(* Only a request that is still at work writes its turn, and such a turn   *)
(* is finished only when an operator had declared it stale.                *)
LEMMA TurnsWritten ==
  ASSUME TurnInv, NEW r \in Requests, RequestStep(r), NEW p \in Procs, turn'[p] # turn[p]
  PROVE  p = r /\ (turn[p] \in Terminal => p \in reconciled)
<1>1. TurnTypeOK /\ r \in Procs
  BY RequestsAre DEF TurnInv
<1>2. StartTurn(r) \/ RejectTurn(r) \/ RunTurn(r) \/ FinalizeTurn(r) \/ PersistNonToolResult(r)
  <2>1. UNCHANGED storeVars => UNCHANGED turn
    BY DEF storeVars
  <2>2. ~Arrive(r) /\ ~ClaimIdempotencyKey(r) /\ ~ReadClaimedKey(r) /\ ~EstablishConversation(r)
        /\ ~BeginAudit(r) /\ ~InvokeProvider(r) /\ ~CheckConversation(r) /\ ~Decide(r)
        /\ ~CreateEntityClarification(r) /\ ~PrepareDraft(r) /\ ~FinalizeAuditSafely(r)
        /\ ~ResolveIdempotencyKey(r) /\ ~ReleaseIdempotencyKey(r)
    BY <2>1 DEF Arrive, ClaimIdempotencyKey, ReadClaimedKey, EstablishConversation, BeginAudit,
       InvokeProvider, CheckConversation, Decide, CreateEntityClarification, PrepareDraft,
       FinalizeAuditSafely, ResolveIdempotencyKey, ReleaseIdempotencyKey
  <2>3. ~StartTool(r) /\ ~DatabaseFails(r)
    BY <2>1 DEF StartTool, BeginToolExecution, DatabaseFails, FinalizeFails
  <2>4. QED
    BY <2>2, <2>3 DEF RequestStep
<1>3. \/ UNCHANGED turn
      \/ \E t : turn' = [turn EXCEPT ![r] = t]
  <2>1. UNCHANGED storeVars => UNCHANGED turn
    BY DEF storeVars
  <2>2. CASE StartTurn(r)
    BY <2>1, <2>2 DEF StartTurn, BeginTurn
  <2>3. CASE RejectTurn(r)
    BY <2>1, <2>3 DEF RejectTurn, FinalizeRejected
  <2>4. CASE RunTurn(r)
    BY <2>1, <2>4 DEF RunTurn, MarkTurnRunning
  <2>5. CASE FinalizeTurn(r)
    BY <2>1, <2>5 DEF FinalizeTurn, FinalizeRows, FinalizeFails
  <2>6. CASE PersistNonToolResult(r)
    BY <2>1, <2>6 DEF PersistNonToolResult, FinalizeWithoutTool
  <2>7. QED
    BY <1>2, <2>2, <2>3, <2>4, <2>5, <2>6
<1>4. p = r
  BY <1>1, <1>3 DEF TurnTypeOK, StoreTypeOK
<1>5. pc[r] \in Before \cup Within
  BY <1>2 DEF StartTurn, RejectTurn, RunTurn, FinalizeTurn, PersistNonToolResult, Before, Within
<1>6. QED
  BY <1>4, <1>5, OnItsWay

(* A finished turn changes its status only when an operator had declared   *)
(* it stale, or when it is deleted: the request's own writes come while it *)
(* is at work, and a reconciliation takes only running turns.              *)
THEOREM FinishedStay == TurnSpec => FinishedTurnsStay
<1>1. ASSUME TurnInv, [TurnNext]_turnVars
      PROVE  [\A p \in Procs : turn[p] \in Terminal /\ turn'[p] # turn[p]
                => turn'[p] = "gone" \/ p \in reconciled]_turnVars
  <2> SUFFICES ASSUME TurnNext, NEW p \in Procs, turn[p] \in Terminal, turn'[p] # turn[p]
               PROVE  turn'[p] = "gone" \/ p \in reconciled
    BY <1>1
  <2>1. CASE \E r \in Requests : RequestStep(r)
    BY <1>1, <2>1, TurnsWritten
  <2>2. ASSUME NEW c \in Conversations, DeleteConversation(c) PROVE turn'[p] = "gone"
    BY <2>2 DEF DeleteConversation, DeleteOwnedConversation
  <2>3. ~OtherActions
    <3>1. TurnTypeOK
      BY <1>1 DEF TurnInv
    <3>2. ASSUME NEW q \in Procs PROVE ~ReconcileTurn(q)
      <4>1. turn[p] # "RUNNING"
        BY DEF Terminal
      <4>2. QED
        BY <3>1, <4>1 DEF ReconcileTurn, CanReconcileStaleTurn, TurnTypeOK, StoreTypeOK
    <3>3. QED
      BY <3>2 DEF OtherActions, ArchiveOwnedConversation, RestoreOwnedConversation
  <2>4. ~Crash
    BY DEF Crash, storeVars
  <2>5. QED
    BY <2>1, <2>2, <2>3, <2>4 DEF TurnNext
<1>2. QED
  BY <1>1, InvariantHolds, PTL DEF TurnSpec, FinishedTurnsStay

=============================================================================
