----------------------------- MODULE MCTaxation -----------------------------
(***************************************************************************)
(* A wallet that is funded with any amount under any tax and then sends    *)
(* deduct_tax of it, as every outgoing transfer of the contracts does.     *)
(***************************************************************************)
EXTENDS Taxation

CONSTANTS
  MaxAmount,   \* bound of the amounts a wallet is funded with
  Rates,       \* raw tax rates
  TaxCaps      \* tax caps

ASSUME WalletAssumption ==
  /\ MaxAmount \in Nat
  /\ Rates \subseteq Nat
  /\ TaxCaps \subseteq Nat

VARIABLES wallet, gross, tax

vars == <<wallet, gross, tax>>

Init ==
  /\ gross \in 0 .. MaxAmount
  /\ wallet = gross
  /\ tax \in [rate : Rates, cap : TaxCaps]

Send ==
  /\ wallet = gross
  /\ gross > 0
  /\ wallet' = gross - SendCost(tax, DeductTax(tax, gross))
  /\ UNCHANGED <<gross, tax>>

Fund ==
  /\ gross' \in 0 .. MaxAmount
  /\ wallet' = gross'
  /\ UNCHANGED tax

Next == Send \/ Fund

Spec == Init /\ [][Next]_vars

-----------------------------------------------------------------------------
\* taxation.rs: the tax the chain takes on the lowered amount is always
\* covered by what deduct_tax kept back, whatever way the roundings fall and
\* whether or not the cap binds.
WalletNeverOverdrawn == wallet >= 0

\* taxation.rs: deduct_tax keeps back no more than the tax and the rounding:
\* at most one part for each of its two divisions, and one for the rate.
NothingWithheld ==
  wallet # gross => wallet <= 1 + (Unit + tax.rate - 1) \div Unit

\* taxation.rs: a larger payment never leaves the payee with less.
DeductTaxMonotone ==
  \A a \in 0 .. MaxAmount - 1 : DeductTax(tax, a) <= DeductTax(tax, a + 1)

=============================================================================
