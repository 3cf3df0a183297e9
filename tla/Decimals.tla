------------------------------ MODULE Decimals ------------------------------
(***************************************************************************)
(* Fixed-point arithmetic of the contracts.  A Decimal is represented by   *)
(* its raw numerator: the number of 1/Unit parts.  In the code Unit is     *)
(* 10^18 (DECIMAL_FRACTION in taxation.rs) and a raw value is a u128; both *)
(* are parameters here, so that TLC can use small ones and the proofs hold *)
(* for the real ones.                                                      *)
(*                                                                         *)
(* The release profile sets overflow-checks = true and the conversions out *)
(* of 256 bits panic: a result that does not fit aborts the transaction.   *)
(* Handlers therefore carry Fits(...) conjuncts, one per result the code   *)
(* stores or converts to 128 bits.                                         *)
(***************************************************************************)
EXTENDS Integers

CONSTANTS
  Unit,     \* parts in one: DECIMAL_FRACTION
  MaxUint   \* largest Uint128, and largest raw Decimal

ASSUME UnitAssumption == Unit \in Nat \ {0}
ASSUME MaxUintAssumption == MaxUint \in Nat

Uint == 0 .. MaxUint

Fits(n) == n <= MaxUint

\* The smaller of two amounts (std::cmp::min).
Lesser(a, b) == IF a <= b THEN a ELSE b

-----------------------------------------------------------------------------
(* Uint128 and Decimal of cosmwasm_std, as the contracts use them.          *)

\* Uint128::multiply_ratio: n * num / den, rounded down.
MultiplyRatio(n, num, den) == (n * num) \div den

\* Decimal::from_ratio: the raw decimal of n / d, rounded down.
FromRatio(n, d) == (n * Unit) \div d

\* Decimal * Uint128::from(1): the whole part.
Floor(dec) == dec \div Unit

-----------------------------------------------------------------------------
(* math.rs: Decimal256 arithmetic on raw decimals.                          *)

DecimalMultiplication(a, b) == (b * a) \div Unit

DecimalSummation(a, b) == b + a

\* Only defined for a >= b: the 256-bit subtraction panics below zero.
DecimalSubtraction(a, b) == a - b

=============================================================================
