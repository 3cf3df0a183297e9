SPECIFICATION MCSpec
CONSTANTS
  alice = alice
  bob = bob
  stranger = stranger
  combo1 = combo1
  combo2 = combo2
  Admin = pool
  Cw20Token = token
  Holders <- MCHolders
  Callers <- MCCallers
  Combinations <- MCOneCombination
  Unit = 4
  MaxUint = 20
  UnbondingPeriod = 1
  Amounts = {0, 1, 2}
  Rewards = {0, 1, 3}
  Prices = {1}
  Taxes <- NoTax
  Caps <- MCNoCap
  MaxHeight = 0
  MaxLottery = 1
  MaxStake = 3
  MaxRewards = 4
SYMMETRY MCSymmetry
INVARIANT StakingTypeOK
INVARIANT StakeConserved
INVARIANT RewardsSolvent
INVARIANT RewardsBacked
INVARIANT TicketsRegisteredOnce
PROPERTY PaysLikeLedger
\* The bounds end every behaviour.
CHECK_DEADLOCK FALSE
