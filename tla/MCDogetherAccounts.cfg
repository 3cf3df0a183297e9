SPECIFICATION MCSpec
CONSTANTS
  alice = alice
  bob = bob
  carol = carol
  combo = combo
  Admin = pool
  Minter = pool
  Cw20Token = token
  StakingContract = staking
  Holders <- MCHolders
  Callers <- MCCallers
  Addresses <- MCAddresses
  Combinations <- MCCombinations
  InitialRows <- MCCarolsRow
  TokenAmounts = {1}
  Unit = 4
  MaxUint = 100
  UnbondingPeriod = 1
  DrawPeriod = 10
  FirstDraw = 10
  BlockSeconds = {10}
  Deposits = {3}
  Amounts = {1, 3}
  Gifts = {}
  Rewards = {1}
  Prices = {1}
  Taxes <- NoTax
  Caps <- MCNoCap
  RateSteps = {4}
  MaxHeight = 2
  MaxLottery = 0
  MaxStake = 6
  MaxUusd = 2
  MaxAust = 7
  MaxRate = 8
SYMMETRY MCSymmetry
INVARIANT DogetherInv
INVARIANT ClaimNeedsOnlyMoney
INVARIANT AccountsAgree
PROPERTY KeepsDeposits
PROPERTY InterestNeverLost
\* The bounds end every behaviour.
CHECK_DEADLOCK FALSE
