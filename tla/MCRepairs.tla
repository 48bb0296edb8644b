------------------------------ MODULE MCRepairs ------------------------------
(***************************************************************************)
(* Two wallets, what may have happened to them, and their repairs.         *)
(***************************************************************************)
EXTENDS Reconciliation

MCStored ==
  {StoredRow("INCOME", 1, "w1", "none", "none", 0, 1),
   StoredRow("TRANSFER", 2, "w1", "w2", "w2", 0, 2),
   StoredRow("TRANSFER", 3, "w1", "none", "w2", 0, 3),
   StoredRow("TRANSFER", 3, "w2", "none", "none", 0, 3),
   StoredRow("INSTALLMENT", 1, "w2", "none", "none", 4, 4),
   StoredRow("INSTALLMENT", 1, "w2", "none", "none", 0, 4)}
MCHistory == {h \in SUBSET MCStored : Cardinality(h) <= 2}
MCOverrides == {-3, 0, 1}
=============================================================================
