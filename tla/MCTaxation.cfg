SPECIFICATION Spec
CONSTANTS
  Unit = 10
  MaxUint = 1000
  MaxAmount = 40
  Rates = {0, 1, 3, 5, 10, 13}
  TaxCaps = {0, 1, 2, 5, 100}
INVARIANT WalletNeverOverdrawn
INVARIANT NothingWithheld
INVARIANT DeductTaxMonotone
