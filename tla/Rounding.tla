------------------------------- MODULE Rounding -------------------------------
(***************************************************************************)
(* utils.to_money(): every amount of the bank is a whole number of cents.  *)
(***************************************************************************)
EXTENDS Integers

\* to_money() of n/d cents: half up, that is, a tie goes away from zero
ToMoney(n, d) == IF n >= 0 THEN (2 * n + d) \div (2 * d) ELSE -((d - 2 * n) \div (2 * d))
=============================================================================
