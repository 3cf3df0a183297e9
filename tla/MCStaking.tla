----------------------------- MODULE MCStaking ------------------------------
(***************************************************************************)
(* Instances of Staking for TLC: two holders, a stranger among the callers *)
(* and bounds on what would grow for ever.                                 *)
(***************************************************************************)
EXTENDS Staking, TLC

CONSTANTS alice, bob, stranger, combo1, combo2

CONSTANTS
  MaxHeight,    \* last block
  MaxLottery,   \* last draw of the lottery
  MaxStake,     \* most tokens bonded or waiting in claims
  MaxRewards    \* most uusd the contract is sent

MCHolders == {alice, bob}
MCSymmetry == Permutations({alice, bob})
MCCallers == {Admin, Cw20Token, stranger}
MCOneCombination == {<<combo1>>, <<combo1, combo1>>, << >>}
MCTwoCombinations == {<<combo1>>, <<combo1, combo2>>, <<combo2, combo2>>}
MCNoCap == {{}}
MCCaps == {{}, {2}}
NoTax == {[rate |-> 0, cap |-> 0]}
HalfTax == {[rate |-> 2, cap |-> 40]}

Bounds ==
  /\ height <= MaxHeight
  /\ lottery_counter <= MaxLottery
  /\ total_balance + AmountOf(claims) <= MaxStake
  /\ staking_uusd <= MaxRewards

MCNext == StakingNext /\ Bounds'

MCSpec == StakingInit /\ [][MCNext]_stakingVars

\* Blocks keep coming, and a holder keeps asking for its mature claims (which
\* the pool, the admin, passes on with no cap).
MCFairness ==
  /\ WF_stakingVars(NextBlock /\ Bounds')
  /\ \A h \in Holders :
       WF_stakingVars(\E paid \in SUBSET ClaimsOf(h) :
                        WithdrawStake(Admin, h, {}, paid))

MCFairSpec == MCSpec /\ MCFairness

-----------------------------------------------------------------------------
\* claim.rs, user.rs: whatever claims an owner adds meanwhile, one that is due
\* at a block is paid some time after it.
MatureClaimsPaid ==
  \A h \in Holders, block \in 1 .. MaxHeight :
    (\E c \in ClaimsOf(h) : c.release_at = block)
      ~> (\A c \in ClaimsOf(h) : c.release_at # block)

=============================================================================
