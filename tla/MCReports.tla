------------------------------- MODULE MCReports -------------------------------
(***************************************************************************)
(* TransactionReports on the same instance: what is told about a transfer  *)
(* and an external one under its id, of another amount.                    *)
(***************************************************************************)
EXTENDS MCProcessor, TransactionReports

MCAmount == [t \in Txns |-> IF t = du THEN 2 ELSE 1]
=============================================================================
