------------------------------ MODULE Taxation ------------------------------
(***************************************************************************)
(* taxation.rs (the same file in the pool and in the staking contract),    *)
(* and the chain's charge it anticipates.  The chain takes a tax from the  *)
(* sender on top of the coins sent; deduct_tax lowers an amount so that    *)
(* the lowered amount plus its tax is covered by the original one.         *)
(*                                                                         *)
(* A tax is a record: rate is a raw Decimal, cap an amount.  It is queried *)
(* from the chain in every transaction, so it may differ from one to the   *)
(* next.                                                                   *)
(***************************************************************************)
EXTENDS Decimals

TaxType == [rate : Nat, cap : Nat]

\* Slips: the tax taken as a fraction of the gross amount, the cap forgotten,
\* the tax rounded down in place of what is left.
ComputeTaxOfGross(tax, amount) ==
  Lesser((amount * tax.rate) \div Unit, tax.cap)
ComputeTaxNoCap(tax, amount) ==
  amount - MultiplyRatio(amount, Unit, tax.rate + Unit)

ComputeTaxRoundedDown(tax, amount) ==
  Lesser((amount * tax.rate) \div (tax.rate + Unit), tax.cap)

\* compute_tax: amount - amount / (1 + rate), at most the cap.
ComputeTax(tax, amount) ==
  Lesser(amount - MultiplyRatio(amount, Unit, tax.rate + Unit), tax.cap)

\* deduct_tax: what can be sent out of amount.
DeductTax(tax, amount) == amount - ComputeTax(tax, amount)

\* External (the chain's treasury): the tax taken on top of amount when a
\* contract sends it.  It is the law that compute_tax inverts.
NetworkTax(tax, amount) == Lesser((amount * tax.rate) \div Unit, tax.cap)

\* External: what a contract's wallet loses when it sends amount.
SendCost(tax, amount) == amount + NetworkTax(tax, amount)

=============================================================================
