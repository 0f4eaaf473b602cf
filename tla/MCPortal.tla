------------------------------- MODULE MCPortal -------------------------------
(* ClientPortal on two clients, one of whom gets an account. *)
EXTENDS ClientPortal, TLC

CONSTANTS a1, c1, c2, rub

MCOwner == [a \in Accounts |-> c1]
NoRate == [num |-> 0, den |-> 1]
MCOffers == {[type |-> "investment", currency |-> Base, floor |-> 0, fee |-> 0, limit |-> 1, rate |-> NoRate],
             [type |-> "premium", currency |-> Base, floor |-> -1, fee |-> 0, limit |-> 1, rate |-> NoRate]}
MCMonths == <<5, 5, 5>>
MCRate == [c \in Currencies |-> [num |-> 1, den |-> 1]]

AlikeSessions == Permutations(SessionIds)
=============================================================================
