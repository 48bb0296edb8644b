SPECIFICATION Spec
CONSTANTS
  Drafts = {d1, d2}
  Keys = {k1, k2}
  Requests = {r1, r2, r3}
  None = None
SYMMETRY Symmetry
INVARIANTS
  CommittedDraftReplays
CHECK_DEADLOCK FALSE
