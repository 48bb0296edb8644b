SPECIFICATION Spec
CONSTANTS
  a = a
  c = c
  Wallets <- MCWallets
  WalletType <- MCWalletType
  Opening <- MCOpening
  CreditLimit <- MCCreditLimit
  Amounts = {1, 2}
  Requests = {r1, r2, r3}
  None = None
SYMMETRY Symmetry
INVARIANTS
  TypeOK
  DriftNeedsARace
PROPERTIES
  DeletedStaysDeleted
CHECK_DEADLOCK FALSE
