SPECIFICATION MCSpec
CONSTANTS
  alice = alice
  bob = bob
  stranger = stranger
  combo1 = combo1
  combo2 = combo2
  Admin = pool
  Cw20Token = token
  Holders <- MCHolders
  Callers <- MCCallers
  Combinations <- MCOneCombination
  Unit = 4
  MaxUint = 40
  UnbondingPeriod = 1
  Amounts = {1, 2}
  Rewards = {0, 5}
  Prices = {1}
  Taxes <- NoTax
  Caps <- MCNoCap
  MaxHeight = 0
  MaxLottery = 0
  MaxStake = 3
  MaxRewards = 5
PROPERTY TicketKeepsDecimals
CHECK_DEADLOCK FALSE
