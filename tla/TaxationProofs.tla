--------------------------- MODULE TaxationProofs ---------------------------
(***************************************************************************)
(* A wallet that sends deduct_tax of what it was funded with: for every    *)
(* amount, rate, cap and precision it can pay the tax, keeps little back,  *)
(* and pays more for more.                                                 *)
(***************************************************************************)
EXTENDS MCTaxation, ArithmeticTheorems

\* A wallet holds what it was funded with, or what sending left of it.
WalletInv ==
  /\ gross \in Nat
  /\ tax \in TaxType
  /\ \/ wallet = gross
     \/ wallet = gross - SendCost(tax, DeductTax(tax, gross))

LEMMA WalletInvariant == Spec => []WalletInv
<1>1. Init => WalletInv
  <2> SUFFICES ASSUME Init PROVE WalletInv
    OBVIOUS
  <2>1. gross \in Nat /\ wallet = gross
    BY WalletAssumption DEF Init
  <2>2. tax \in TaxType
    BY WalletAssumption DEF Init, TaxType
  <2> QED BY <2>1, <2>2 DEF WalletInv
<1>2. WalletInv /\ [Next]_vars => WalletInv'
  <2> SUFFICES ASSUME WalletInv, [Next]_vars PROVE WalletInv'
    OBVIOUS
  <2>1. CASE Send
    BY <2>1 DEF Send, WalletInv
  <2>2. CASE Fund
    BY <2>2, WalletAssumption DEF Fund, WalletInv
  <2>3. CASE UNCHANGED vars
    BY <2>3 DEF vars, WalletInv
  <2> QED BY <2>1, <2>2, <2>3 DEF Next
<1> QED BY <1>1, <1>2, PTL DEF Spec

\* taxation.rs: what deduct_tax keeps back always pays the tax the chain takes.
THEOREM DeductedCoversTheTax == Spec => []WalletNeverOverdrawn
<1>1. WalletInv => WalletNeverOverdrawn
  BY SendKeeps DEF WalletInv, WalletNeverOverdrawn
<1> QED BY <1>1, WalletInvariant, PTL

\* taxation.rs: it keeps back no more than that and the roundings.
THEOREM OnlyRoundingsWithheld == Spec => []NothingWithheld
<1>1. WalletInv => NothingWithheld
  BY SendKeeps DEF WalletInv, NothingWithheld
<1> QED BY <1>1, WalletInvariant, PTL

\* taxation.rs: a larger payment never leaves the payee with less.
THEOREM PaymentsKeepTheirOrder == Spec => []DeductTaxMonotone
<1>1. WalletInv => DeductTaxMonotone
  <2> SUFFICES ASSUME WalletInv, NEW a \in 0 .. MaxAmount - 1
               PROVE  DeductTax(tax, a) <= DeductTax(tax, a + 1)
    BY DEF DeductTaxMonotone
  <2>1. a \in Nat /\ a + 1 \in Nat /\ a <= a + 1
    BY WalletAssumption
  <2> QED BY <2>1, DeductTaxGrows DEF WalletInv
<1> QED BY <1>1, WalletInvariant, PTL

=============================================================================
