----------------------------- MODULE MCMessages -----------------------------
(***************************************************************************)
(* An instance of Messages for TLC: two users, either of them an initial   *)
(* holder of the token, and bounds on what is committed.                   *)
(***************************************************************************)
EXTENDS MessagesProofs, TLC

CONSTANTS alice, bob, combo

CONSTANTS
  MaxHeight,    \* last block
  MaxLottery,   \* last draw of the lottery
  MaxStake,     \* most uusd owed to the users
  MaxUusd,      \* most uusd the pool, and the staking contract, own
  MaxAust,      \* most aUST the pool owns
  MaxRate       \* highest exchange rate

MCHolders == {alice, bob}
MCSymmetry == Permutations(MCHolders)
MCAddresses == {Admin, StakingContract, alice, bob}
MCCombinations == {<<combo>>}
SmallTax == {[rate |-> 1, cap |-> 3]}

\* An initial holder named twice, with nearly all that the token can count.
TwoRows(h) ==
  <<[address |-> h, amount |-> 1], [address |-> h, amount |-> MaxUint - 5]>>

MCRows == {TwoRows(h) : h \in MCHolders}
MCTokenAmounts == {MaxUint - 5}

\* The rows with a name of three bytes, or with one that is too short.
MCTokenMessages ==
  {[rows |-> rows, name_bytes |-> bytes, symbol_bytes |-> 3,
    symbol_letters |-> TRUE, decimals |-> 6] : rows \in MCRows, bytes \in {2, 3}}

Bounds ==
  /\ committed.height <= MaxHeight
  /\ committed.lottery_counter <= MaxLottery
  /\ committed.total_ust_pool <= MaxStake
  /\ committed.staking_uusd <= MaxUusd
  /\ committed.pool_uusd <= MaxUusd
  /\ committed.aust <= MaxAust
  /\ committed.exchange_rate <= MaxRate

MCNext == MessagesNext /\ Bounds'

MCSpec == MessagesInit /\ [][MCNext]_messagesVars

=============================================================================
