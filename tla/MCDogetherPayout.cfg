SPECIFICATION MCSpec
CONSTANTS
  alice = alice
  bob = bob
  carol = carol
  combo = combo
  Admin = pool
  Minter = pool
  Cw20Token = token
  StakingContract = staking
  Holders <- MCOneHolder
  Callers <- MCCallers
  Addresses <- MCAddresses
  Combinations <- MCCombinations
  InitialRows <- MCNoRows
  TokenAmounts = {1}
  Unit = 4
  MaxUint = 100
  UnbondingPeriod = 1
  DrawPeriod = 10
  FirstDraw = 10
  BlockSeconds = {10}
  Deposits = {3, 5}
  Amounts = {3}
  Gifts = {1}
  Rewards = {}
  Prices = {1}
  Taxes <- NoTax
  Caps <- MCNoCap
  RateSteps = {1, 2}
  MaxHeight = 2
  MaxLottery = 0
  MaxStake = 6
  MaxUusd = 2
  MaxAust = 6
  MaxRate = 6
INVARIANT MatureClaimPayable
CHECK_DEADLOCK FALSE
