----------------------------- MODULE MCDogether -----------------------------
(***************************************************************************)
(* Instances of Dogether for TLC: two users, another account that was      *)
(* given tokens at instantiation, and bounds on what grows for ever.       *)
(***************************************************************************)
EXTENDS Dogether, TLC

CONSTANTS alice, bob, carol, combo

CONSTANTS
  MaxHeight,    \* last block
  MaxLottery,   \* last draw of the lottery
  MaxStake,     \* most uusd owed to the users
  MaxUusd,      \* most uusd the pool, and the staking contract, own
  MaxAust,      \* most aUST the pool owns
  MaxRate       \* highest exchange rate

MCHolders == {alice, bob}
MCOneHolder == {alice}
MCSymmetry == Permutations(MCHolders)
MCCallers == {Admin, Cw20Token}
MCAddresses == {Admin, StakingContract, carol}
MCNoRows == {<< >>}
MCCarolsRow == {<<[address |-> carol, amount |-> 1]>>}
MCCombinations == {<<combo>>}
MCNoCap == {{}}
NoTax == {[rate |-> 0, cap |-> 0]}
SmallTax == {[rate |-> 0, cap |-> 0], [rate |-> 1, cap |-> 3]}

Bounds ==
  /\ height <= MaxHeight
  /\ lottery_counter <= MaxLottery
  /\ total_ust_pool <= MaxStake
  /\ staking_uusd <= MaxUusd
  /\ pool_uusd <= MaxUusd
  /\ aust <= MaxAust
  /\ exchange_rate <= MaxRate

MCNext == DogetherNext /\ Bounds'

MCSpec == DogetherInit /\ [][MCNext]_dogetherVars

=============================================================================
