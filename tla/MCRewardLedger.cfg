SPECIFICATION MCLedgerSpec
CONSTANTS
  Accounts = {alice, bob}
  Unit = 3
  MaxUint = 5
  MaxTotal = 4
  MaxPot = 5
SYMMETRY MCAccountSymmetry
INVARIANT OwedIsCovered
CHECK_DEADLOCK FALSE
