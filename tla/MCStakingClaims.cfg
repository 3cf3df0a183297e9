SPECIFICATION MCFairSpec
CONSTANTS
  alice = alice
  bob = bob
  stranger = stranger
  combo1 = combo1
  combo2 = combo2
  Admin = pool
  Cw20Token = token
  Holders <- MCHolders
  Callers <- MCCallers
  Combinations <- MCOneCombination
  Unit = 4
  MaxUint = 40
  UnbondingPeriod = 1
  Amounts = {1, 2}
  Rewards = {0}
  Prices = {1}
  Taxes <- NoTax
  Caps <- MCCaps
  MaxHeight = 3
  MaxLottery = 0
  MaxStake = 4
  MaxRewards = 0
INVARIANT PartitionIsOnePass
PROPERTY UnbondingDelayKept
PROPERTY StakeMovesIntoClaims
PROPERTY MatureClaimsPaid
\* The bounds end every behaviour.
CHECK_DEADLOCK FALSE
