SPECIFICATION Spec
CONSTANTS
  Wallet = {w1, w2}
  Calls = {c1, c2}
  MaxMoves = 2
  MaxClicks = 1
  MaxOutside = 1
  MaxBlocked = 1
  None = None
INVARIANTS TypeOK SignedInAsWallet
PROPERTIES BlockedSignsOut
CHECK_DEADLOCK FALSE
