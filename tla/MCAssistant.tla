----------------------------- MODULE MCAssistant -----------------------------
(***************************************************************************)
(* The Assistant on a small instance.                                      *)
(***************************************************************************)
EXTENDS Assistant, MCGuesses

Symmetry == Permutations(Requests) \cup Permutations(Selects)

(* Everything under one key, and a request without one. *)
MCAsks == [op : {"execute", "messages"}, key : Keys, conv : Convs \cup {None}]
            \cup [op : {"execute"}, key : {None}, conv : {None}]

MCNumbers == {<<>>, <<[sum |-> "50000", negative |-> FALSE]>>, <<[sum |-> "50000", negative |-> TRUE]>>,
              <<[sum |-> "50000", negative |-> FALSE], [sum |-> "", negative |-> FALSE]>>}
MCMessages == [numbers : MCNumbers, signals : {{}, {"EXPENSE"}, {"INCOME", "EXPENSE"}}]
Some(key, values) == {<<>>} \cup {key :> v : v \in values}
MCArguments ==
  {a @@ t @@ w @@ x :
     a \in Some("amount", {Null, Blank, Text("20000"), Shorthand("20000"), NotText("0"), Text("0")}),
     t \in Some("type", {Null, Blank, Text("INCOME"), Text("bad")}),
     w \in Some("walletReference", {Blank, Text("bca")}),
     x \in Some("date", {Null, Text("bad"), Text("today")})
             \cup Some("categoryId", {Null, Text("id")}) \cup Some("walletId", {Null})}
MCProposals ==
  {[malformed |-> FALSE, kind |-> "intent", intent |-> Create, arguments |-> a,
    question |-> "null"] : a \in MCArguments} \cup
  {[malformed |-> FALSE, kind |-> k, intent |-> i, arguments |-> a, question |-> q] :
     k \in {"intent", "clarification", "unsupported"}, i \in {"null", Summary},
     a \in Some("month", {Blank, Text("bad"), Text("2026-08")}), q \in {"null", "plain", "secret"}}
=============================================================================
