------------------------------- MODULE MCQueue -------------------------------
(* QueueRequests on four transactions of different urgency. *)
EXTENDS QueueRequests

CONSTANTS t1, t2, t3, t4, i1, i2, i3

MCIdOf == [t \in Txns |-> CASE t = t1 -> i1 [] t \in {t2, t4} -> i2 [] t = t3 -> i3]
MCType == [t \in Txns |-> "transfer"]
MCPriority == [t \in Txns |-> CASE t \in {t1, t4} -> 1 [] OTHER -> 2]
MCFirstDue == [t \in Txns |-> CASE t = t3 -> 2 [] OTHER -> 0]
=============================================================================
