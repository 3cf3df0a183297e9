SPECIFICATION MCSpec
CONSTANTS
  alice = alice
  bob = bob
  stranger = stranger
  combo1 = combo1
  combo2 = combo2
  Admin = pool
  Cw20Token = token
  Holders <- MCHolders
  Callers <- MCCallers
  Combinations <- MCTwoCombinations
  Unit = 4
  MaxUint = 40
  UnbondingPeriod = 1
  Amounts = {1}
  Rewards = {0, 9}
  Prices = {3}
  Taxes <- HalfTax
  Caps <- MCNoCap
  MaxHeight = 0
  MaxLottery = 0
  MaxStake = 1
  MaxRewards = 9
INVARIANT RewardsBacked
CHECK_DEADLOCK FALSE
