------------------------------ MODULE MCProcessor ------------------------------
(***************************************************************************)
(* TransactionProcessor on small instances: a transfer tr, a second object *)
(* du under the same id (an external one), a deposit and another external  *)
(* transfer.                                                               *)
(***************************************************************************)
EXTENDS TransactionProcessor

CONSTANTS tr, du, dp, ex,  \* transactions
          a1, a2, p1,          \* a basic and a savings account, a premium one
          c1, c2, i1, i3, i4

MCIdOf == [t \in Txns |-> CASE t \in {tr, du} -> i1 [] t = dp -> i3 [] t = ex -> i4]
MCType == [t \in Txns |-> CASE t = tr -> "transfer" [] t = dp -> "deposit" [] OTHER -> "external"]
MCSender == [t \in Txns |-> CASE t = dp -> NoAccount [] t \in {du, ex} -> p1 [] OTHER -> a1]
MCRecipient == [t \in Txns |-> IF t = tr THEN p1 ELSE IF t = dp THEN a2 ELSE NoAccount]
MCOwner == [a \in Accounts |-> IF a = p1 THEN c2 ELSE c1]
MCFirstDue == [t \in Txns |-> 0]
MCDebit == [t \in Txns |-> 1]
MCCredit == [t \in Txns |-> 2]
MCFee == [t \in Txns |-> IF t \in {du, ex} THEN 1 ELSE 0]
MCFloor == [a \in Accounts |-> IF a = p1 THEN -3 ELSE IF a = a2 THEN 1 ELSE 0]
MCOwnFee == [a \in Accounts |-> IF a = p1 THEN 1 ELSE 0]
MCLimit == [a \in Accounts |-> 2]
MCOpening == [a \in Accounts |-> IF a = a2 THEN 1 ELSE IF a = p1 THEN 0 ELSE 1]
=============================================================================
