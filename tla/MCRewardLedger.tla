--------------------------- MODULE MCRewardLedger ---------------------------
(***************************************************************************)
(* An instance of RewardLedger for TLC: two accounts and bounds on what    *)
(* they hold.                                                              *)
(***************************************************************************)
EXTENDS RewardLedger, TLC

CONSTANTS
  MaxTotal,   \* most stake
  MaxPot      \* most rewards

MCAccountSymmetry == Permutations(Accounts)

LedgerBounds == total <= MaxTotal /\ pot <= MaxPot

MCLedgerSpec == Init /\ [][Next /\ LedgerBounds']_ledgerVars

=============================================================================
