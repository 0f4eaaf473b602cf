------------------------------- MODULE MCLedger -------------------------------
(* BalanceReports on two accounts of one client, which are interchangeable. *)
EXTENDS BalanceReports, TLC

CONSTANTS a1, a2, c1, rub, usd

NoRate == [num |-> 0, den |-> 1]
Offer(type, currency, floor, fee, rate) ==
    [type |-> type, currency |-> currency, floor |-> floor, fee |-> fee, rate |-> rate, limit |-> 1]

MCOwner == [a \in Accounts |-> c1]
MCOffers == {Offer("savings", usd, 1, 0, [num |-> 1, den |-> 2]),
             Offer("premium", rub, -1, 1, NoRate), Offer("investment", usd, 0, 0, NoRate)}
MCRate == [c \in Currencies |-> IF c = usd THEN [num |-> 5, den |-> 2] ELSE [num |-> 1, den |-> 1]]
MCMonths == <<2, 1, 2, 2, 2>>

Alike == Permutations(Accounts)
=============================================================================
