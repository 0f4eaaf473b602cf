---------------------------- MODULE MCProcessQueue ----------------------------
(***************************************************************************)
(* ProcessQueue on small instances: a transfer, a second one, and an       *)
(* object under the id of the first.                                       *)
(***************************************************************************)
EXTENDS ProcessQueue

CONSTANTS tr, t2, du, a1, p1, c1, c2, i1, i2

MCIdOf == [t \in Txns |-> IF t = t2 THEN i2 ELSE i1]
MCType == [t \in Txns |-> IF t = du THEN "withdrawal" ELSE "transfer"]
MCPriority == [t \in Txns |-> IF t = t2 THEN 2 ELSE 1]
MCFirstDue == [t \in Txns |-> IF t = t2 THEN 1 ELSE 0]
MCSender == [t \in Txns |-> IF t = du THEN p1 ELSE a1]
MCRecipient == [t \in Txns |-> IF t = du THEN NoAccount ELSE p1]
MCOwner == [a \in Accounts |-> IF a = p1 THEN c2 ELSE c1]
MCDebit == [t \in Txns |-> 1]
MCCredit == [t \in Txns |-> 2]
MCFee == [t \in Txns |-> 0]
MCFloor == [a \in Accounts |-> IF a = p1 THEN -3 ELSE 0]
MCOwnFee == [a \in Accounts |-> IF a = p1 THEN 1 ELSE 0]
MCLimit == [a \in Accounts |-> 2]
MCOpening == [a \in Accounts |-> IF a = a1 THEN 1 ELSE 0]
=============================================================================
