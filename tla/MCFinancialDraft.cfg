SPECIFICATION Spec
CONSTANTS
  Drafts = {d1, d2}
  Keys = {k1, k2}
  Requests = {r1, r2, r3}
  None = None
SYMMETRY Symmetry
INVARIANTS
  TypeOK
  OneTransactionPerDraft
  OneTransactionPerKey
  AnswersAreTrue
PROPERTIES
  TerminalDraftsMoveNoMoney
CHECK_DEADLOCK FALSE
