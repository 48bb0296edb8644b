---------------------------- MODULE InboxPromise ----------------------------
(***************************************************************************)
(* What the durable inbox promises for every Telegram update, whatever     *)
(* rows, leases, workers, retries and crashes it takes: an update is taken *)
(* once, executed at most once, replied to only with the recorded result   *)
(* of that execution, and counted as done only when it was answered.       *)
(* Updates are independent: any number of them may move in one step.       *)
(***************************************************************************)
EXTENDS Naturals

CONSTANT Updates

VARIABLE life   \* of every update

(* began: was its execution begun?  ran: how often did it run?  result: is *)
(* its result recorded?  answer: what is on its way to the sender.         *)
Life == [stage : {"new", "taken", "done", "failed", "forgotten"},
         began : BOOLEAN, ran : 0..1, result : BOOLEAN,
         answer : {"none", "direct", "reply", "forgotten"}]

New == [stage |-> "new", began |-> FALSE, ran |-> 0, result |-> FALSE, answer |-> "none"]

Take(x, y) == x.stage = "new" /\ y = [x EXCEPT !.stage = "taken"]

Begin(x, y) == x.stage # "new" /\ ~x.began /\ y = [x EXCEPT !.began = TRUE]

Run(x, y) == x.began /\ x.ran = 0 /\ y = [x EXCEPT !.ran = 1]

Record(x, y) == x.ran = 1 /\ ~x.result /\ y = [x EXCEPT !.result = TRUE]

(* A forgotten answer may be queued again, never another beside it. *)
Answer(x, y) ==
  /\ x.stage # "new" /\ x.answer \in {"none", "forgotten"}
  /\ \/ y = [x EXCEPT !.answer = "direct"]
     \/ x.result /\ y = [x EXCEPT !.answer = "reply"]

(* A slow worker may settle an update again after another one did. *)
Settle(x, y) ==
  /\ x.stage \in {"taken", "done", "failed"}
  /\ \/ y = [x EXCEPT !.stage = "failed"]
     \/ x.answer # "none" /\ y = [x EXCEPT !.stage = "done"]

(* Settled updates and answers on their way are forgotten in time. *)
Forget(x, y) ==
  /\ y = [x EXCEPT !.stage = y.stage, !.answer = y.answer]
  /\ y.stage # x.stage => x.stage \in {"done", "failed"} /\ y.stage = "forgotten"
  /\ y.answer # x.answer => x.answer # "none" /\ y.answer = "forgotten"

Moves(x, y) ==
  \/ Take(x, y) \/ Begin(x, y) \/ Run(x, y) \/ Record(x, y)
  \/ Answer(x, y) \/ Settle(x, y) \/ Forget(x, y)

Init == life = [u \in Updates |-> New]

Next ==
  /\ DOMAIN life' = Updates
  /\ \A u \in Updates : \E x \in {life[u]}, y \in {life'[u]} : y = x \/ Moves(x, y)

Spec == Init /\ [][Next]_life

(* The lives the promise allows. *)
TypeOK == life \in [Updates -> Life]
=============================================================================
