--------------------------- MODULE AtomicTransfer ---------------------------
(***************************************************************************)
(* What the bank promises of a transaction, without saying how: under one  *)
(* transaction id money moves at most once, all of it in one step (the     *)
(* charge leaves one account and the gain reaches the other), and a        *)
(* transaction whose money has moved is never attempted again.  While a    *)
(* transaction is attempted, nothing else touches an account.              *)
(***************************************************************************)
EXTENDS Integers

CONSTANTS Txns, NoTxn, IdOf, Accounts,
          Source, Target,   \* the accounts a transaction debits and credits
          Charge, Gain      \* and by how much

VARIABLES money,            \* what each account holds
          active,           \* the transaction being attempted, or NoTxn
          done              \* the transactions whose money has moved

vars == <<money, active, done>>

Init == /\ money \in [Accounts -> Int]
        /\ active = NoTxn
        /\ done = {}

Begin(t) == /\ active = NoTxn
            /\ t \notin done
            /\ active' = t
            /\ UNCHANGED <<money, done>>

Move(t) == /\ active = t
           /\ \A u \in done : IdOf[u] # IdOf[t]
           /\ done' = done \cup {t}
           /\ money' = [a \in Accounts |->
                          money[a] - (IF a = Source[t] THEN Charge[t] ELSE 0)
                                   + (IF a = Target[t] THEN Gain[t] ELSE 0)]
           /\ UNCHANGED active

End == /\ active # NoTxn
       /\ active' = NoTxn
       /\ UNCHANGED <<money, done>>

\* an operation on one account made outside any transaction
Outside(a) == /\ active = NoTxn
              /\ money' \in [Accounts -> Int]
              /\ \A b \in Accounts \ {a} : money'[b] = money[b]
              /\ UNCHANGED <<active, done>>

Next == \/ \E t \in Txns : Begin(t) \/ Move(t)
        \/ End
        \/ \E a \in Accounts : Outside(a)

Spec == Init /\ [][Next]_vars
=============================================================================
