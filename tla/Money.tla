-------------------------------- MODULE Money --------------------------------
(***************************************************************************)
(* services/fees.py: the bank's commission, and what is exact about it and *)
(* the conversions.                                                        *)
(***************************************************************************)
EXTENDS Converter, FiniteSetsExt

CONSTANTS FeeRate,       \* FeePolicy: fraction of the amount
          MinimumFee, MaximumFee   \* in the base currency

\* FeePolicy: a rate of at most the whole, within limits
FeeTerms == /\ FeeRate.num \in Nat /\ FeeRate.den \in Nat \ {0} /\ FeeRate.num <= FeeRate.den
            /\ MinimumFee \in Nat /\ MaximumFee \in Nat /\ MinimumFee <= MaximumFee

ASSUME FeeAssumption == FeeTerms

\* FeePolicy.calculate() of an external transfer; the other types are free
ExternalFee(amount, currency) ==
    LET low  == Convert(MinimumFee, Base, currency)
        high == Convert(MaximumFee, Base, currency)
    IN  Min({Max({ToMoney(amount * FeeRate.num, FeeRate.den), low}), high})
-----------------------------------------------------------------------------
\* whole is the fraction n/d to half a cent
Nearest(whole, n, d) == 2 * whole * d \in (2 * n - d) .. (2 * n + d)

\* converting an amount of currency c is exact to half a cent
ConversionExact(amount, c) ==
    \A d \in Currencies : Nearest(Convert(amount, c, d), amount * Rate[c].num * Rate[d].den,
                                                          Rate[c].den * Rate[d].num)

\* the fee is the policy's share of the amount, or the limit that lies beyond
FeeExact(amount, c) ==
    LET fee   == ExternalFee(amount, c)
        share == amount * FeeRate.num * Rate[c].num    \* in Base, over worth
        worth == FeeRate.den * Rate[c].den
    IN  CASE share < MinimumFee * worth -> Nearest(fee, MinimumFee * Rate[c].den, Rate[c].num)
          [] share > MaximumFee * worth -> Nearest(fee, MaximumFee * Rate[c].den, Rate[c].num)
          [] OTHER -> Nearest(fee, amount * FeeRate.num, FeeRate.den)
=============================================================================
