SPECIFICATION Spec
CONSTANTS
  a = a
  c = c
  Wallets <- MCOneWallet
  WalletType <- MCOneType
  Opening <- MCOneOpening
  CreditLimit <- MCOneCreditLimit
  Amounts = {1, 2}
  Requests = {r1, r2, r3}
  None = None
SYMMETRY Symmetry
INVARIANTS
  BalancesReconcile
CHECK_DEADLOCK FALSE
