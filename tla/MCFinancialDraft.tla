--------------------------- MODULE MCFinancialDraft ---------------------------
(* Drafts, keys and requests are interchangeable, and no liveness is checked. *)
EXTENDS FinancialDraft, TLC

Symmetry == Permutations(Drafts) \cup Permutations(Keys) \cup Permutations(Requests)
=============================================================================
