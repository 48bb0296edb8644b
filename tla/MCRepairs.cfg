SPECIFICATION ReconciliationSpec
CONSTANTS
  AuditedWallets = {"w1", "w2"}
  Nowhere = "none"
  History <- MCHistory
  Openings = {0, 5}
  Overrides = {0}
INVARIANT LedgerIsAuthoritative
CHECK_DEADLOCK FALSE
