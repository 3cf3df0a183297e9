SPECIFICATION MCSpec
CONSTANTS
  alice = alice
  bob = bob
  combo = combo
  Nobody = nobody
  Deployer = deployer
  Admin = pool
  Minter = pool
  Cw20Token = token
  StakingContract = staking
  Holders <- MCHolders
  Callers = {}
  Addresses <- MCAddresses
  Combinations <- MCCombinations
  TokenMessages <- MCTokenMessages
  InitialRows <- MCRows
  TokenAmounts <- MCTokenAmounts
  Unit = 4
  MaxUint = 70
  UnbondingPeriod = 1
  DrawPeriod = 10
  FirstDraw = 10
  BlockSeconds = {10}
  Deposits = {5}
  Amounts = {4}
  Gifts = {}
  Rewards = {2}
  Prices = {1}
  Taxes <- SmallTax
  Caps = {}
  RateSteps = {4}
  MaxHeight = 2
  MaxLottery = 1
  MaxStake = 8
  MaxUusd = 3
  MaxAust = 8
  MaxRate = 8
SYMMETRY MCSymmetry
INVARIANT MessagesInv
INVARIANT WiredOrAbsent
INVARIANT AccountsAgreeInFlight
INVARIANT PayoutIsForTheClaims
INVARIANT Cw20TypeOK
INVARIANT SupplyCoversBalances
PROPERTY ImplementsTransactions
\* The bounds end every behaviour.
CHECK_DEADLOCK FALSE
