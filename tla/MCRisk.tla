-------------------------------- MODULE MCRisk --------------------------------
(***************************************************************************)
(* RiskAnalyzer on four transactions: two transfers of one pair of         *)
(* accounts, an external transfer of the same client, and a deposit of     *)
(* another one.                                                            *)
(***************************************************************************)
EXTENDS RiskReports

CONSTANTS t1, t2, ex, dp, c1, c2, pairIn, pairOut, rub, usd, kzt

MCClientOf == [t \in Txns |-> IF t = dp THEN c2 ELSE c1]
MCPair == [t \in Txns |-> CASE t = dp -> NoPair [] t = ex -> pairOut [] OTHER -> pairIn]
MCRequestedAt == [t \in Txns |-> CASE t = t1 -> 2 [] t = t2 -> 3 [] t \in {ex, dp} -> 4]
MCOpenedAt == [t \in Txns |-> IF t = ex THEN NotHere ELSE 0]
MCAmount == [t \in Txns |-> CASE t = t1 -> 1 [] t = t2 -> 2 [] t = ex -> 4 [] t = dp -> 13]
MCCurrencyOf == [t \in Txns |-> IF t = dp THEN rub ELSE usd]

MCScore == [r \in Rules |-> CASE r = "large_amount" -> 4 [] r = "night_operation" -> 2 [] OTHER -> 3]

Fraction(n, d) == [num |-> n, den |-> d]
MCRate == [c \in Currencies |-> CASE c = rub -> Fraction(1, 1) [] c = usd -> Fraction(5, 2)
                                   [] c = kzt -> Fraction(2, 11)]
MCFeeRate == Fraction(1, 2)
=============================================================================
