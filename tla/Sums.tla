-------------------------------- MODULE Sums --------------------------------
(***************************************************************************)
(* The sum of a natural-valued function over a finite set, defined by      *)
(* counting: every element contributes as many tokens as its value.        *)
(* Invariants that say two ledgers agree are stated with it.  There is no  *)
(* recursion in it, so lemmas can be proved about it (ArithmeticTheorems). *)
(***************************************************************************)
EXTENDS Integers, FiniteSets

\* One token for each unit of f[x], for every x in S.
Tokens(S, f) == UNION {{x} \X (1 .. f[x]) : x \in S}

\* The sum of f[x] over x in S.
SumOver(S, f) == Cardinality(Tokens(S, f))

=============================================================================
