------------------------------ MODULE Converter ------------------------------
(***************************************************************************)
(* services/currency.py: what an amount is in another currency.  A rate is *)
(* a fraction num/den; the bank's base currency has the rate 1.            *)
(***************************************************************************)
EXTENDS Rounding

CONSTANTS Currencies, Base,
          Rate           \* currency -> price of one unit in the base currency

Fractions == [num : Nat \ {0}, den : Nat \ {0}]

\* CurrencyConverter: a positive rate for every currency, 1 for the base
RateTable == /\ Base \in Currencies
             /\ Rate \in [Currencies -> Fractions]
             /\ Rate[Base].num = Rate[Base].den

ASSUME ConverterAssumption == RateTable

\* faulty variant of Convert: rounds once more on the way, in the base currency
ConvertViaBase(amount, source, target) ==
    ToMoney(ToMoney(amount * Rate[source].num, Rate[source].den) * Rate[target].den, Rate[target].num)

\* CurrencyConverter.convert(): through the base currency, rounded once
Convert(amount, source, target) ==
    ToMoney(amount * Rate[source].num * Rate[target].den, Rate[source].den * Rate[target].num)

ToBase(amount, currency) == Convert(amount, currency, Base)
===============================================================================
