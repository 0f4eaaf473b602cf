--------------------- MODULE TransactionProcessor_promises ---------------------
(***************************************************************************)
(* Proofs about TransactionProcessor, continued from its invariant ProcInv:*)
(* that it implements AtomicTransfer, and what the history, the error log, *)
(* the accounts, the schedule and the reports (TransactionReports) say     *)
(* after any attempts.                                                     *)
(***************************************************************************)
EXTENDS TransactionReports, TransactionProcessor_proofs, SumFacts

(***************************************************************************)
(* The refinement of AtomicTransfer.                                       *)
(***************************************************************************)
Done == {t \in Txns : Moved(t)}

\* What the mapping shows of a transaction, by what it has moved.
MovedSeen ==
    \A t \in Txns :
        /\ NothingMoved(t) \/ DebitOpen(t) => ~Moved(t)
        /\ AllMoved(t) /\ Holds(t) => Moved(t)
        /\ InFlight(t) <=> cur = t /\ pc \in {"credit", "rollback"} /\ DebitOpen(t)
        /\ InFlight(t) => Taken = Charge[t]

\* What it shows as money: the balances, with the charge of a debit in flight
\* still on the sender's account.
MoneySeen ==
    /\ balance \in [Accounts -> Int]
    /\ \A t \in Txns : t = cur =>
         Money = [a \in Accounts |->
                    balance[a] + (IF a = Sender[t] /\ InFlight(t) THEN Charge[t] ELSE 0)]
    /\ cur \notin Txns => cur = NoTxn /\ Money = balance

\* Both follow from the invariant: a debit in flight is the open one.
LEMMA InvMovedSeen == ProcInv => MovedSeen
<1> SUFFICES ASSUME ProcInv, NEW t \in Txns
             PROVE  /\ NothingMoved(t) \/ DebitOpen(t) => ~Moved(t)
                    /\ AllMoved(t) /\ Holds(t) => Moved(t)
                    /\ InFlight(t) <=> cur = t /\ pc \in {"credit", "rollback"} /\ DebitOpen(t)
                    /\ InFlight(t) => Taken = Charge[t]
  BY DEF MovedSeen
<1>1. /\ HasSender(t) \/ HasRecipient(t)
      /\ HasSender(t) /\ HasRecipient(t) <=> Type[t] = "transfer"
  BY TransactionAssumption DEF HasSender, HasRecipient, Types
<1>2. HasSender(t) => Refunds(t).count \in Nat
  BY Parties, KeyFacts, TallyType DEF ProcInv, TypeOK, HistoryTypeOK, Refunds
<1>3. NothingMoved(t) \/ DebitOpen(t) => ~Moved(t)
  BY <1>1 DEF NothingMoved, DebitOpen, Moved
<1>4. AllMoved(t) /\ Holds(t) => Moved(t)
  BY <1>1, <1>2 DEF AllMoved, Debited, Moved
<1>5. ASSUME cur = t, pc \in {"credit", "rollback"}
      PROVE  /\ InFlight(t) <=> DebitOpen(t)
             /\ InFlight(t) => Taken = Charge[t]
  <2>1. InAttempt(t) /\ Charge[t] \in Nat
    BY <1>5, Parties DEF ProcInv, RunningAttempt
  <2>2. HasSender(t) => Charge[t] > 0
    BY <1>5, <2>1, Parties DEF InAttempt
  <2>3. AllMoved(t) /\ HasRecipient(t) => Credits(t).count = 1
    BY DEF AllMoved
  <2>4. DebitOpen(t) => ~NothingMoved(t) /\ ~AllMoved(t)
    BY <1>2 DEF DebitOpen, Debited, NothingMoved, AllMoved
  <2>5. DebitOpen(t) => Taken = Charge[t]
    BY <1>5, <2>1, <2>4 DEF InAttempt, DebitOpen
  <2>6. InFlight(t) => DebitOpen(t)
    BY <1>1, <1>5, <2>1, <2>3 DEF InAttempt, InFlight
  <2>7. DebitOpen(t) => InFlight(t)
    BY <1>1, <1>5, <2>1, <2>2, <2>5 DEF InFlight, DebitOpen
  <2> QED BY <2>5, <2>6, <2>7
<1>6. InFlight(t) => cur = t /\ pc \in {"credit", "rollback"}
  BY DEF InFlight
<1> QED BY <1>3, <1>4, <1>5, <1>6

LEMMA InvMoneySeen == ProcInv => MoneySeen
<1> SUFFICES ASSUME ProcInv PROVE MoneySeen
  OBVIOUS
<1>1. balance \in [Accounts -> Int] /\ (cur \notin Txns => cur = NoTxn)
  BY DEF ProcInv, TypeOK, BankTypeOK, AttemptTypeOK
<1>2. ASSUME NEW t \in Txns, t = cur
      PROVE  Money = [a \in Accounts |->
                        balance[a] + (IF a = Sender[t] /\ InFlight(t) THEN Charge[t] ELSE 0)]
  <2>1. t # NoTxn /\ (InFlight(t) => Taken = Charge[t])
    BY InvMovedSeen, TransactionAssumption DEF MovedSeen
  <2> QED BY <1>1, <1>2, <2>1 DEF Money
<1>3. cur = NoTxn => Money = balance
  BY <1>1 DEF Money
<1> QED BY <1>1, <1>2, <1>3 DEF MoneySeen

\* The invariant and what the mapping shows by it.
Seen == ProcInv /\ MovedSeen /\ MoneySeen

\* What Moved says of a transaction depends on its claim and its movements.
LEMMA MovedFrame ==
  ASSUME NEW u \in Txns, Holds(u)' <=> Holds(u), Holds(u) => SameMovements(u)
  PROVE  Moved(u)' <=> Moved(u)
<1>1. HasSender(u) \/ HasRecipient(u)
  BY TransactionAssumption DEF HasSender, HasRecipient, Types
<1>2. HasSender(u) /\ Holds(u) => UNCHANGED Debits(u)
  BY Parties DEF Debits, SameMovements
<1>3. HasRecipient(u) /\ Holds(u) => UNCHANGED Credits(u)
  BY Parties DEF Credits, SameMovements
<1> QED BY <1>1, <1>2, <1>3 DEF Moved

\* A step of the attempt of t, which holds its id, leaves what is done of the others.
LEMMA OthersDone ==
  ASSUME NEW t \in Txns, Holds(t), claimed' = claimed,
         \A u \in Txns : IdOf[u] # IdOf[t] => SameMovements(u)
  PROVE  \A u \in Txns \ {t} : Moved(u)' <=> Moved(u)
<1> SUFFICES ASSUME NEW u \in Txns \ {t} PROVE Moved(u)' <=> Moved(u)
  OBVIOUS
<1>1. (Holds(u)' <=> Holds(u)) /\ (Holds(u) => SameMovements(u))
  BY DEF Holds
<1> QED BY <1>1, MovedFrame

\* A step that moves nothing, as the abstract specification sees it: balances, claims
\* and movements stay, and a debit in flight stays in flight.
LEMMA Stutters ==
  ASSUME Seen, Seen', cur' = cur, claimed' = claimed, balance' = balance,
         \A u \in Txns : SameMovements(u),
         \A t \in Txns : t = cur => (InFlight(t)' <=> InFlight(t))
  PROVE  UNCHANGED Atomic!vars
<1>1. \A u \in Txns : Moved(u)' <=> Moved(u)
  BY MovedFrame DEF Holds
<1>2. Done' = Done
  BY <1>1 DEF Done
<1>3. Money' = Money
  <2>1. CASE cur \in Txns
    BY <2>1 DEF Seen, MoneySeen
  <2>2. CASE cur \notin Txns
    BY <2>2 DEF Seen, MoneySeen
  <2> QED BY <2>1, <2>2
<1> QED BY <1>2, <1>3 DEF Atomic!vars, Done

\* A step that settles or opens a debit, as the abstract specification sees it.
LEMMA MoneyStays ==
  ASSUME Seen, Seen', NEW t \in Txns, cur = t, cur' = t, claimed' = claimed, Holds(t),
         \A u \in Txns : IdOf[u] # IdOf[t] => SameMovements(u),
         ~Moved(t), ~Moved(t)',
         \A a \in Accounts :
            balance'[a] + (IF a = Sender[t] /\ InFlight(t)' THEN Charge[t] ELSE 0)
              = balance[a] + (IF a = Sender[t] /\ InFlight(t) THEN Charge[t] ELSE 0)
  PROVE  UNCHANGED Atomic!vars
<1>1. Done' = Done
  BY OthersDone DEF Done
<1>2. Money' = Money
  BY DEF Seen, MoneySeen
<1> QED BY <1>1, <1>2 DEF Atomic!vars, Done

\* The step that moves the money of t: no transaction with its id has moved any.
LEMMA MoneyMoves ==
  ASSUME Seen, Seen', NEW t \in Txns, cur = t, cur' = t, claimed' = claimed, Holds(t),
         \A u \in Txns : IdOf[u] # IdOf[t] => SameMovements(u),
         ~Moved(t), Moved(t)', ~InFlight(t)',
         \A a \in Accounts :
            balance'[a] = balance[a] + (IF a = Sender[t] /\ InFlight(t) THEN Charge[t] ELSE 0)
                                     - (IF a = Sender[t] THEN Charge[t] ELSE 0)
                                     + (IF a = Recipient[t] THEN Credit[t] ELSE 0)
  PROVE  Atomic!Move(t)
<1>1. Done' = Done \cup {t}
  BY OthersDone DEF Done
<1>2. \A u \in Done : IdOf[u] # IdOf[t]
  BY DEF Done, Moved, Holds
<1>3. Charge[t] \in Nat /\ Credit[t] \in Nat
  BY Parties
<1>4. Money' = [a \in Accounts |->
                  Money[a] - (IF a = Sender[t] THEN Charge[t] ELSE 0)
                           + (IF a = Recipient[t] THEN Credit[t] ELSE 0)]
  BY <1>3 DEF Seen, MoneySeen
<1> QED BY <1>1, <1>2, <1>4 DEF Atomic!Move, Done

\* The steps of an attempt outside debit, credit and rollback move nothing.
LEMMA QuietSteps ==
  ASSUME Seen, Seen',
         CheckSender \/ CheckRecipient \/ ConvertBoth \/ Screen
         \/ CompleteAttempt \/ HandleFailure
  PROVE  UNCHANGED Atomic!vars
<1>1. pc \notin {"credit", "rollback"} /\ UNCHANGED <<balance, withdrawals, refunds, deposits>>
  BY DEF CheckSender, CheckRecipient, ConvertBoth, Screen, CompleteAttempt, HandleFailure,
         bankVars, historyVars
<1>2. cur' = cur /\ pc' \notin {"credit", "rollback"}
  BY EndOfCheck
     DEF CheckSender, CheckRecipient, ConvertBoth, Screen, CompleteAttempt, HandleFailure, Raise
<1>3. claimed' = claimed
  BY ClaimsKept DEF Seen, CheckSender, CheckRecipient, ConvertBoth, Screen, historyVars
<1>4. \A u \in Txns : SameMovements(u)
  BY <1>1 DEF SameMovements
<1>5. \A t \in Txns : ~InFlight(t) /\ ~InFlight(t)'
  BY <1>1, <1>2 DEF InFlight
<1> QED BY <1>1, <1>2, <1>3, <1>4, <1>5, Stutters

\* The debit: nothing yet for a transfer, all of it for a transaction without a
\* recipient in this bank.
LEMMA DebitMaps ==
  ASSUME Seen, Seen', DebitSender
  PROVE  [Atomic!Next]_(Atomic!vars)
<1>1. PICK t \in Txns : t = cur
  BY DEF Seen, ProcInv, TypeOK, AttemptTypeOK, DebitSender
<1>2. /\ pc = "debit" /\ NothingMoved(t) /\ Holds(t) /\ ~Moved(t) /\ ~InFlight(t)
      /\ HasSender(t) => Debit[t] > 0 /\ before = balance[Sender[t]]
  BY <1>1 DEF Seen, MovedSeen, ProcInv, RunningAttempt, InAttempt, DebitSender, InFlight
<1>3. UNCHANGED <<claimed, refunds, deposits>>
  BY DEF DebitSender
<1>4. /\ HasSender(t) => Sender[t] \in Accounts /\ Charge[t] \in Nat /\ Charge[t] > 0
      /\ ~HasRecipient(t) => Recipient[t] \notin Accounts
  BY <1>2, Parties, ProcessorAssumption
<1>5. balance \in [Accounts -> Int] /\ withdrawals \in Tallies /\ TypeOK
  BY DEF Seen, ProcInv, TypeOK, BankTypeOK, HistoryTypeOK
<1>6. CASE UNCHANGED <<balance, withdrawals>>
  <2>1. cur' = t /\ (HasSender(t) => before' = before)
    BY <1>1, <1>6 DEF DebitSender, Proceed, Raise, Review
  <2>2. \A u \in Txns : SameMovements(u)
    BY <1>3, <1>6 DEF SameMovements
  <2>3. ~InFlight(t)'
    <3>1. HasSender(t) => Taken' = 0
      BY <1>1, <1>2, <1>4, <1>5, <1>6, <2>1 DEF Taken
    <3>2. ~HasSender(t) => Type[t] # "transfer"
      BY DEF HasSender
    <3> QED BY <3>1, <3>2 DEF InFlight
  <2>4. UNCHANGED Atomic!vars
    BY <1>1, <1>2, <1>3, <1>6, <2>1, <2>2, <2>3, Stutters
  <2> QED BY <2>4
<1>7. CASE /\ HasSender(t)
           /\ balance' = [balance EXCEPT ![Sender[t]] = @ - Charge[t]]
           /\ withdrawals' = Recorded(withdrawals, Key(t, Sender[t]), Charge[t])
           /\ Review(Charge[t], "credit", "rollback")
  <2>1. cur' = t /\ pc' \in {"credit", "rollback"}
    BY <1>1, <1>7, EndOfReview
  <2>2. \A u \in Txns : IdOf[u] # IdOf[t] => SameMovements(u)
    BY <1>3, <1>4, <1>5, <1>7, RecordedElsewhere DEF SameMovements
  <2>3. /\ Debits(t)'.count = Debits(t).count + 1
        /\ Debits(t)'.total = Debits(t).total + Charge[t]
        /\ Refunds(t)' = Refunds(t) /\ Credits(t)' = Credits(t)
    BY <1>3, <1>4, <1>5, <1>7, KeyFacts, RecordedFacts DEF Debits, Refunds, Credits
  <2>4. /\ HasRecipient(t) => DebitOpen(t)'
        /\ ~HasRecipient(t) => AllMoved(t)'
    BY <1>2, <1>7, <2>3 DEF NothingMoved, DebitOpen, AllMoved, Debited
  <2>5. Holds(t)'
    BY <1>2, <1>3 DEF Holds
  <2>6. CASE HasRecipient(t)
    <3>1. ~Moved(t)' /\ InFlight(t)'
      BY <2>1, <2>4, <2>6 DEF Seen, MovedSeen
    <3>2. \A a \in Accounts :
            balance'[a] + (IF a = Sender[t] /\ InFlight(t)' THEN Charge[t] ELSE 0)
              = balance[a] + (IF a = Sender[t] /\ InFlight(t) THEN Charge[t] ELSE 0)
      BY <1>2, <1>4, <1>5, <1>7, <3>1
    <3>3. UNCHANGED Atomic!vars
      BY <1>1, <1>2, <1>3, <2>1, <2>2, <3>1, <3>2, MoneyStays
    <3> QED BY <3>3
  <2>7. CASE ~HasRecipient(t)
    <3>1. Moved(t)' /\ ~InFlight(t)'
      BY <2>4, <2>5, <2>7 DEF Seen, MovedSeen, DebitOpen
    <3>2. \A a \in Accounts :
            balance'[a] = balance[a] + (IF a = Sender[t] /\ InFlight(t) THEN Charge[t] ELSE 0)
                                     - (IF a = Sender[t] THEN Charge[t] ELSE 0)
                                     + (IF a = Recipient[t] THEN Credit[t] ELSE 0)
      BY <1>2, <1>4, <1>5, <1>7, <2>7
    <3>3. Atomic!Move(t)
      BY <1>1, <1>2, <1>3, <2>1, <2>2, <3>1, <3>2, MoneyMoves
    <3> QED BY <3>3 DEF Atomic!Next
  <2> QED BY <2>6, <2>7
<1> QED BY <1>1, <1>6, <1>7, Parties DEF DebitSender

\* The credit moves the money of a transfer or a deposit.
LEMMA CreditMaps ==
  ASSUME Seen, Seen', CreditRecipient
  PROVE  [Atomic!Next]_(Atomic!vars)
<1>1. PICK t \in Txns : t = cur
  BY DEF Seen, ProcInv, TypeOK, AttemptTypeOK, CreditRecipient
<1>2. /\ pc = "credit" /\ Holds(t)
      /\ HasSender(t) /\ HasRecipient(t) => DebitOpen(t)
      /\ ~HasSender(t) => NothingMoved(t)
  BY <1>1 DEF Seen, ProcInv, RunningAttempt, InAttempt, CreditRecipient
<1>3. UNCHANGED <<claimed, refunds, withdrawals>>
  BY DEF CreditRecipient
<1>4. CASE ~HasRecipient(t) \/ DepositError(Recipient[t], Credit[t]) # "none"
  <2>1. UNCHANGED <<balance, deposits>> /\ cur' = t
    BY <1>1, <1>4 DEF CreditRecipient, Proceed, Raise
  <2>2. \A u \in Txns : SameMovements(u)
    BY <1>3, <2>1 DEF SameMovements
  <2>3. HasRecipient(t) => pc' = "rollback"
    BY <1>1, <1>4 DEF CreditRecipient, Raise
  <2>4. InFlight(t)' <=> InFlight(t)
    <3>1. DebitOpen(t)' <=> DebitOpen(t)
      BY <2>2, MoneyFrame DEF SameMovements
    <3>2. ~HasRecipient(t) => ~DebitOpen(t)
      BY DEF DebitOpen
    <3>3. InFlight(t) <=> DebitOpen(t)
      BY <1>1, <1>2 DEF Seen, MovedSeen
    <3>4. InFlight(t)' <=> pc' \in {"credit", "rollback"} /\ DebitOpen(t)'
      BY <2>1 DEF Seen, MovedSeen
    <3> QED BY <2>3, <3>1, <3>2, <3>3, <3>4
  <2>5. UNCHANGED Atomic!vars
    BY <1>1, <1>3, <2>1, <2>2, <2>4, Stutters
  <2> QED BY <2>5
<1>5. CASE HasRecipient(t) /\ DepositError(Recipient[t], Credit[t]) = "none"
  <2>1. /\ balance' = [balance EXCEPT ![Recipient[t]] = @ + Credit[t]]
        /\ deposits' = Recorded(deposits, Key(t, Recipient[t]), Credit[t])
        /\ Review(Credit[t], "complete", "rollback")
    BY <1>1, <1>5 DEF CreditRecipient
  <2>2. cur' = t
    BY <1>1, <2>1, EndOfReview
  <2>3. /\ Recipient[t] \in Accounts /\ Credit[t] \in Nat /\ Charge[t] \in Nat
        /\ ~HasSender(t) => Sender[t] \notin Accounts
        /\ balance \in [Accounts -> Int] /\ deposits \in Tallies /\ TypeOK
    BY <1>5, Parties, ProcessorAssumption
       DEF Seen, ProcInv, TypeOK, BankTypeOK, HistoryTypeOK
  <2>4. \A u \in Txns : IdOf[u] # IdOf[t] => SameMovements(u)
    BY <1>3, <2>1, <2>3, RecordedElsewhere DEF SameMovements
  <2>5. /\ Credits(t)'.count = Credits(t).count + 1
        /\ Debits(t)' = Debits(t) /\ Refunds(t)' = Refunds(t)
    BY <1>3, <2>1, <2>3, KeyFacts, RecordedFacts DEF Debits, Refunds, Credits
  <2>6. Credits(t)'.count = 1 /\ ~Moved(t)
    BY <1>2, <1>5, <2>5 DEF NothingMoved, DebitOpen, Seen, MovedSeen
  <2>7. Moved(t)' /\ ~InFlight(t)'
    BY <1>2, <1>3, <1>5, <2>6 DEF Moved, Holds, InFlight
  <2>8. InFlight(t) <=> HasSender(t)
    BY <1>1, <1>2, <1>5 DEF Seen, MovedSeen, DebitOpen
  <2>9. \A a \in Accounts :
          balance'[a] = balance[a] + (IF a = Sender[t] /\ InFlight(t) THEN Charge[t] ELSE 0)
                                   - (IF a = Sender[t] THEN Charge[t] ELSE 0)
                                   + (IF a = Recipient[t] THEN Credit[t] ELSE 0)
    BY <2>1, <2>3, <2>8
  <2>10. Atomic!Move(t)
    BY <1>1, <1>2, <1>3, <2>2, <2>4, <2>6, <2>7, <2>9, MoneyMoves
  <2> QED BY <2>10 DEF Atomic!Next
<1> QED BY <1>4, <1>5

\* The rollback of an open debit puts back what was never seen to leave.
LEMMA RollBackMaps ==
  ASSUME Seen, Seen', RollBack
  PROVE  UNCHANGED Atomic!vars
<1>1. PICK t \in Txns : t = cur
  BY DEF Seen, ProcInv, TypeOK, AttemptTypeOK, RollBack
<1>2. pc = "rollback" /\ Holds(t) /\ InAttempt(t)
  BY <1>1 DEF Seen, ProcInv, RunningAttempt, InAttempt, RollBack
<1>3. UNCHANGED <<claimed, withdrawals, deposits>> /\ cur' = t /\ pc' = "failing"
  BY <1>1 DEF RollBack
<1>4. ~InFlight(t)'
  BY <1>3 DEF InFlight
<1>5. CASE DebitOpen(t)
  <2>1. /\ HasSender(t) /\ HasRecipient(t) /\ Debited(t)
        /\ balance' = [balance EXCEPT ![Sender[t]] = @ + Charge[t]]
        /\ refunds' = Recorded(refunds, Key(t, Sender[t]), Charge[t])
    BY <1>1, <1>2, <1>5, RollbackAllowed DEF Seen, RollBack, DebitOpen
  <2>2. /\ Sender[t] \in Accounts /\ Charge[t] \in Nat
        /\ balance \in [Accounts -> Int] /\ refunds \in Tallies /\ TypeOK
    BY <2>1, Parties DEF Seen, ProcInv, TypeOK, BankTypeOK, HistoryTypeOK
  <2>3. \A u \in Txns : IdOf[u] # IdOf[t] => SameMovements(u)
    BY <1>3, <2>1, <2>2, RecordedElsewhere DEF SameMovements
  <2>4. InFlight(t) /\ ~Moved(t)
    BY <1>1, <1>2, <1>5 DEF Seen, MovedSeen
  <2>5. ~Moved(t)'
    BY <1>3, <1>5, <2>1 DEF Moved, Holds, Credits, DebitOpen
  <2>6. \A a \in Accounts :
          balance'[a] + (IF a = Sender[t] /\ InFlight(t)' THEN Charge[t] ELSE 0)
            = balance[a] + (IF a = Sender[t] /\ InFlight(t) THEN Charge[t] ELSE 0)
    BY <1>4, <2>1, <2>2, <2>4
  <2> QED BY <1>1, <1>2, <1>3, <2>3, <2>4, <2>5, <2>6, MoneyStays
<1>6. CASE ~DebitOpen(t)
  <2>1. UNCHANGED <<balance, refunds>>
    BY <1>1, <1>2, <1>6, RollbackAllowed DEF Seen, RollBack
  <2>2. \A u \in Txns : SameMovements(u)
    BY <1>3, <2>1 DEF SameMovements
  <2>3. ~InFlight(t)
    BY <1>6 DEF Seen, MovedSeen
  <2> QED BY <1>1, <1>3, <1>4, <2>1, <2>2, <2>3, Stutters
<1> QED BY <1>5, <1>6

\* An attempt begins with a transaction that has moved nothing.
LEMMA ProcessMaps ==
  ASSUME Seen, Seen', NEW t \in Txns, Process(t)
  PROVE  Atomic!Begin(t)
<1>1. cur = NoTxn /\ cur' = t /\ t # NoTxn /\ UNCHANGED <<balance, withdrawals, refunds, deposits>>
  BY TransactionAssumption DEF Seen, ProcInv, TypeOK, AttemptTypeOK, Process, bankVars
<1>2. status[t] = "pending"
  BY DEF Process, Start, MoveTo, CanMove, TRANSITIONS, Seen, ProcInv, TypeOK, TxnTypeOK, Statuses
<1>3. ~Moved(t)
  <2>1. AtRest(t)
    BY <1>1 DEF Seen, ProcInv, OthersAtRest
  <2> QED BY <1>2, <2>1 DEF AtRest, Seen, MovedSeen, Moved
<1>4. ~Moved(t)'
  <2>1. InAttempt(t)' /\ pc' \in {"sender", "failing"} /\ (pc' = "failing" => ~Holds(t)')
    <3>1. pc' = "sender" \/ (pc' = "failing" /\ claimed' = claimed /\ claimed[IdOf[t]] # t)
      BY DEF Process
    <3> QED BY <1>1, <3>1 DEF Seen, ProcInv, RunningAttempt, Holds
  <2>2. Moved(t)' => Holds(t)'
    BY DEF Moved
  <2>3. pc' = "sender" => NothingMoved(t)'
    BY <2>1 DEF InAttempt
  <2> QED BY <2>1, <2>2, <2>3 DEF Seen, MovedSeen
<1>5. ASSUME NEW u \in Txns \ {t} PROVE Moved(u)' <=> Moved(u)
  <2>1. \/ claimed' = claimed
        \/ claimed[IdOf[t]] \in {NoTxn, t} /\ claimed' = [claimed EXCEPT ![IdOf[t]] = t]
    BY DEF Process
  <2>2. Holds(u)' <=> Holds(u)
    BY <2>1, TransactionAssumption, Parties DEF Holds, Seen, ProcInv, TypeOK, HistoryTypeOK
  <2> QED BY <1>1, <2>2, MovedFrame DEF SameMovements
<1>6. t \notin Done /\ Done' = Done
  BY <1>3, <1>4, <1>5 DEF Done
<1>7. Money' = Money
  <2>1. ~InFlight(t)'
    BY DEF InFlight, Process
  <2> QED BY <1>1, <2>1, TransactionAssumption DEF Seen, MoneySeen
<1> QED BY <1>1, <1>6, <1>7 DEF Atomic!Begin, Done

\* Clients and staff act on one account, outside any transaction.
LEMMA EnvironmentMaps ==
  ASSUME Seen, Seen', Environment
  PROVE  [Atomic!Next]_(Atomic!vars)
<1>1. cur = NoTxn /\ cur' = NoTxn /\ UNCHANGED historyVars
  BY DEF Environment, attemptVars, Seen, ProcInv, TypeOK, AttemptTypeOK
<1>2. \A u \in Txns : Moved(u)' <=> Moved(u)
  BY <1>1, MovedFrame DEF historyVars, Holds, SameMovements
<1>3. Done' = Done /\ UNCHANGED cur
  BY <1>1, <1>2 DEF Done
<1>4. Money = balance /\ Money' = balance' /\ balance \in [Accounts -> Int] /\ balance' \in [Accounts -> Int]
  BY <1>1, TransactionAssumption DEF Seen, MoneySeen
<1>5. CASE balance' = balance
  BY <1>3, <1>4, <1>5 DEF Atomic!vars, Done
<1>6. ASSUME NEW a \in Accounts, \E x : balance' = [balance EXCEPT ![a] = x]
      PROVE  Atomic!Outside(a)
  <2>1. \A b \in Accounts \ {a} : balance'[b] = balance[b]
    BY <1>6
  <2> QED BY <1>1, <1>3, <1>4, <2>1 DEF Atomic!Outside, Done
<1>7. \/ balance' = balance
      \/ \E a \in Accounts : \E x : balance' = [balance EXCEPT ![a] = x]
  <2>1. Freezable \subseteq Accounts
    BY ProcessorAssumption
  <2> QED BY <2>1 DEF Environment, FreezeAccount, UnfreezeAccount, CloseAccount, BlockClient,
                      UnblockClient, CashIn, CashOut
<1> QED BY <1>5, <1>6, <1>7 DEF Atomic!Next

\* The caller gets control back; the clock moves; or nothing happens.
LEMMA OutsideMaps ==
  ASSUME Seen, Seen', Return \/ ClockTick \/ UNCHANGED procVars
  PROVE  [Atomic!Next]_(Atomic!vars)
<1>1. UNCHANGED <<bankVars, historyVars>>
  BY DEF Return, ClockTick, procVars
<1>2. \A u \in Txns : SameMovements(u)
  BY <1>1 DEF historyVars, SameMovements
<1>3. CASE Return
  <2>1. cur \in Txns /\ cur # NoTxn /\ cur' = NoTxn /\ ~InFlight(cur)
    BY <1>3, TransactionAssumption DEF Return, InFlight, Seen, ProcInv, TypeOK, AttemptTypeOK
  <2>2. Money' = Money
    BY <1>1, <2>1, TransactionAssumption DEF Seen, MoneySeen, bankVars
  <2>3. Done' = Done
    <3>1. \A u \in Txns : Moved(u)' <=> Moved(u)
      BY <1>1, <1>2, MovedFrame DEF Holds, historyVars
    <3> QED BY <3>1 DEF Done
  <2>4. Atomic!End
    BY <2>1, <2>2, <2>3 DEF Atomic!End, Done
  <2> QED BY <2>4 DEF Atomic!Next
<1>4. CASE ClockTick \/ UNCHANGED procVars
  <2>1. UNCHANGED <<attemptVars, bankVars, historyVars>>
    BY <1>1, <1>4 DEF ClockTick, procVars
  <2>2. UNCHANGED <<balance, claimed, withdrawals, refunds, deposits, pc, cur, err, before>>
    BY <2>1 DEF attemptVars, bankVars, historyVars
  <2>3. \A t \in Txns : InFlight(t)' <=> InFlight(t)
    BY <2>2 DEF InFlight, Taken, Credits
  <2>4. UNCHANGED Atomic!vars
    BY <1>2, <2>2, <2>3, Stutters
  <2> QED BY <2>4
<1> QED BY <1>3, <1>4

\* Every step of the processor is a step of AtomicTransfer or none.
LEMMA StepMaps == Seen /\ Seen' /\ [ProcNext]_procVars => [Atomic!Next]_(Atomic!vars)
<1> SUFFICES ASSUME Seen, Seen', [ProcNext]_procVars PROVE [Atomic!Next]_(Atomic!vars)
  OBVIOUS
<1>1. CASE Attempt
  BY <1>1, QuietSteps, DebitMaps, CreditMaps, RollBackMaps DEF Attempt
<1>2. ASSUME NEW t \in Txns, Process(t) PROVE [Atomic!Next]_(Atomic!vars)
  BY <1>2, ProcessMaps DEF Atomic!Next
<1>3. CASE Environment
  BY <1>3, EnvironmentMaps
<1>4. CASE Return \/ ClockTick \/ UNCHANGED procVars
  BY <1>4, OutsideMaps
<1> QED BY <1>1, <1>2, <1>3, <1>4 DEF ProcNext

\* The processor starts with no money moved.
LEMMA InitMaps == ProcInit /\ Seen => Atomic!Init
<1> SUFFICES ASSUME ProcInit, Seen PROVE Atomic!Init
  OBVIOUS
<1>1. cur = NoTxn /\ claimed = [id \in Ids |-> NoTxn]
  BY DEF ProcInit
<1>2. \A t \in Txns : ~Moved(t)
  BY <1>1, Parties, TransactionAssumption DEF Moved, Holds
<1>3. Money \in [Accounts -> Int]
  BY <1>1, TransactionAssumption DEF Seen, MoneySeen
<1> QED BY <1>1, <1>2, <1>3 DEF Atomic!Init

\* TransactionProcessor implements AtomicTransfer: whatever the steps of an
\* attempt, its refusals, retries and rollbacks, the money of a transaction moves
\* once, whole, and never under an id that has moved some already.
THEOREM ProcessorIsAtomicTransfer == ProcSpec => ImplementsAtomicTransfer
<1>1. ProcInv => Seen
  BY InvMovedSeen, InvMoneySeen DEF Seen
<1> QED BY <1>1, InvariantHolds, InitMaps, StepMaps, PTL
        DEF ProcSpec, ImplementsAtomicTransfer, Atomic!Spec
-----------------------------------------------------------------------------
\* The attempt that is running is that of a transaction which holds its id while
\* its money can move.
LEMMA RunningHolder ==
  ASSUME ProcInv, pc \in Steps \ {"idle", "failing", "returned"}
  PROVE  cur \in Txns /\ Holds(cur) /\ status[cur] = "processing"
<1>1. cur \in Txns
  BY DEF ProcInv, TypeOK, AttemptTypeOK
<1> QED BY <1>1 DEF ProcInv, RunningAttempt, InAttempt

\* The tallies of the history change only by one movement of the running
\* transaction on the account it names.
LEMMA Tallying ==
  ASSUME ProcInv, [ProcNext]_procVars
  PROVE  \/ UNCHANGED <<withdrawals, refunds, deposits>>
         \/ /\ DebitSender /\ HasSender(cur) /\ UNCHANGED <<claimed, refunds, deposits>>
            /\ withdrawals' = Recorded(withdrawals, Key(cur, Sender[cur]), Charge[cur])
         \/ /\ CreditRecipient /\ HasRecipient(cur)
            /\ UNCHANGED <<claimed, withdrawals, refunds>>
            /\ deposits' = Recorded(deposits, Key(cur, Recipient[cur]), Credit[cur])
         \/ /\ RollBack /\ HasSender(cur) /\ UNCHANGED <<claimed, withdrawals, deposits>>
            /\ RefundAllowed(cur, Sender[cur], Taken)
            /\ refunds' = Recorded(refunds, Key(cur, Sender[cur]), Taken)
<1>1. CASE DebitSender
  <2>1. cur \in Txns
    BY <1>1, RunningHolder DEF DebitSender, Steps
  <2> QED BY <1>1, <2>1, Parties DEF DebitSender
<1>2. CASE CreditRecipient
  BY <1>2 DEF CreditRecipient
<1>3. CASE RollBack
  BY <1>3 DEF RollBack, MustRefund, Taken
<1>4. CASE CheckSender \/ CheckRecipient \/ ConvertBoth \/ Screen
  BY <1>4 DEF CheckSender, CheckRecipient, ConvertBoth, Screen, historyVars
<1>5. CASE CompleteAttempt \/ HandleFailure
  BY <1>5 DEF CompleteAttempt, HandleFailure
<1>6. CASE Return \/ Environment \/ ClockTick \/ UNCHANGED procVars
  BY <1>6 DEF Return, Environment, ClockTick, procVars, historyVars
<1>7. ASSUME NEW t \in Txns, Process(t) PROVE UNCHANGED <<withdrawals, refunds, deposits>>
  BY <1>7 DEF Process
<1> QED BY <1>1, <1>2, <1>3, <1>4, <1>5, <1>6, <1>7 DEF ProcNext, Attempt

\* A claim is made for good: no id ever passes to another transaction.
LEMMA ClaimsStay ==
  ASSUME ProcInv, [ProcNext]_procVars, NEW id \in Ids, claimed[id] # NoTxn
  PROVE  claimed'[id] = claimed[id]
<1>1. ASSUME NEW t \in Txns, Process(t) PROVE claimed'[id] = claimed[id]
  <2>1. claimed \in [Ids -> Txns \cup {NoTxn}]
    BY DEF ProcInv, TypeOK, HistoryTypeOK
  <2> QED BY <1>1, <2>1 DEF Process
<1>2. CASE Attempt
  <2>1. CASE CompleteAttempt \/ HandleFailure
    BY <2>1, ClaimsKept
  <2>2. CASE ~(CompleteAttempt \/ HandleFailure)
    BY <1>2, <2>2 DEF Attempt, CheckSender, CheckRecipient, ConvertBoth, Screen, DebitSender,
                      CreditRecipient, RollBack, historyVars
  <2> QED BY <2>1, <2>2
<1>3. CASE Return \/ Environment \/ ClockTick \/ UNCHANGED procVars
  BY <1>3 DEF Return, Environment, ClockTick, procVars, historyVars
<1> QED BY <1>1, <1>2, <1>3 DEF ProcNext

\* A movement is recorded on an account of the transaction that holds the id.
LEMMA HolderStep ==
  ASSUME ProcInv, OnlyHolderMoves, [ProcNext]_procVars
  PROVE  OnlyHolderMoves'
<1> SUFFICES ASSUME NEW key \in Keys
             PROVE  LET holder == claimed'[key[1]] IN
                    /\ withdrawals'[key].count > 0 => holder # NoTxn /\ key[2] = Sender[holder]
                    /\ deposits'[key].count > 0 => holder # NoTxn /\ key[2] = Recipient[holder]
                    /\ refunds'[key].count <= withdrawals'[key].count
  BY DEF OnlyHolderMoves
<1>1. /\ withdrawals[key].count > 0
             => claimed[key[1]] # NoTxn /\ key[2] = Sender[claimed[key[1]]]
      /\ deposits[key].count > 0
             => claimed[key[1]] # NoTxn /\ key[2] = Recipient[claimed[key[1]]]
      /\ refunds[key].count <= withdrawals[key].count
  BY DEF OnlyHolderMoves
<1>2. /\ withdrawals \in Tallies /\ refunds \in Tallies /\ deposits \in Tallies
      /\ key[1] \in Ids /\ balance \in [Accounts -> Int] /\ before \in Int
  BY DEF ProcInv, TypeOK, HistoryTypeOK, BankTypeOK, AttemptTypeOK, Keys
<1>3. claimed[key[1]] # NoTxn => claimed'[key[1]] = claimed[key[1]]
  BY <1>2, ClaimsStay
<1>4. /\ withdrawals[key].count \in Nat /\ refunds[key].count \in Nat
      /\ deposits[key].count \in Nat
  BY <1>2, TallyType
<1>5. CASE UNCHANGED <<withdrawals, refunds, deposits>>
  BY <1>1, <1>3, <1>5
<1>6. CASE DebitSender \/ CreditRecipient \/ RollBack
  <2>1. cur \in Txns /\ cur # NoTxn /\ claimed[IdOf[cur]] = cur
    BY <1>6, RunningHolder, TransactionAssumption
       DEF Holds, Steps, DebitSender, CreditRecipient, RollBack
  <2>2. CASE /\ HasSender(cur) /\ UNCHANGED <<claimed, refunds, deposits>>
             /\ withdrawals' = Recorded(withdrawals, Key(cur, Sender[cur]), Charge[cur])
    <3>1. Key(cur, Sender[cur]) \in Keys /\ Charge[cur] \in Nat
      BY <2>1, <2>2, Parties, KeyFacts
    <3>2. CASE key = Key(cur, Sender[cur])
      <4>1. withdrawals'[key].count = withdrawals[key].count + 1
        BY <1>2, <2>2, <3>1, <3>2, RecordedFacts
      <4>2. key[1] = IdOf[cur] /\ key[2] = Sender[cur]
        BY <3>2 DEF Key
      <4> QED BY <1>1, <1>4, <2>1, <2>2, <4>1, <4>2
    <3>3. CASE key # Key(cur, Sender[cur])
      <4>1. withdrawals'[key] = withdrawals[key]
        BY <1>2, <2>2, <3>1, <3>3 DEF Recorded, Tallies
      <4> QED BY <1>1, <1>3, <2>2, <4>1
    <3> QED BY <3>2, <3>3
  <2>3. CASE /\ HasRecipient(cur) /\ UNCHANGED <<claimed, withdrawals, refunds>>
             /\ deposits' = Recorded(deposits, Key(cur, Recipient[cur]), Credit[cur])
    <3>1. Key(cur, Recipient[cur]) \in Keys /\ Credit[cur] \in Nat
      BY <2>1, <2>3, Parties, KeyFacts
    <3>2. CASE key = Key(cur, Recipient[cur])
      BY <1>1, <2>1, <2>3, <3>2 DEF Key
    <3>3. CASE key # Key(cur, Recipient[cur])
      <4>1. deposits'[key] = deposits[key]
        BY <1>2, <2>3, <3>1, <3>3 DEF Recorded, Tallies
      <4> QED BY <1>1, <2>3, <4>1
    <3> QED BY <3>2, <3>3
  <2>4. CASE /\ HasSender(cur) /\ UNCHANGED <<claimed, withdrawals, deposits>>
             /\ RefundAllowed(cur, Sender[cur], Taken)
             /\ refunds' = Recorded(refunds, Key(cur, Sender[cur]), Taken)
    <3>1. Key(cur, Sender[cur]) \in Keys
      BY <2>1, <2>4, Parties, KeyFacts
    <3>2. CASE key = Key(cur, Sender[cur])
      <4>1. /\ refunds'[key].count = refunds[key].count + 1
            /\ refunds[key].count < withdrawals[key].count
        BY <1>2, <2>4, <3>1, <3>2 DEF Recorded, Tallies, RefundAllowed
      <4> QED BY <1>1, <1>4, <2>4, <4>1
    <3>3. CASE key # Key(cur, Sender[cur])
      <4>1. refunds'[key] = refunds[key]
        BY <1>2, <2>4, <3>1, <3>3 DEF Recorded, Tallies
      <4> QED BY <1>1, <2>4, <4>1
    <3> QED BY <3>2, <3>3
  <2> QED BY <1>5, <2>2, <2>3, <2>4, Tallying
<1> QED BY <1>5, <1>6, Tallying

\* No movement is ever recorded except on an account of the transaction that
\* holds the id, and no debit is put back twice.
THEOREM MovementsAreTheHolders == ProcSpec => []OnlyHolderMoves
<1>1. ProcInit => OnlyHolderMoves
  <2> SUFFICES ASSUME ProcInit PROVE OnlyHolderMoves
    OBVIOUS
  <2>1. /\ withdrawals = NoMovements /\ refunds = NoMovements /\ deposits = NoMovements
    BY DEF ProcInit
  <2> QED BY <2>1 DEF OnlyHolderMoves, NoMovements
<1>2. ProcInv /\ OnlyHolderMoves /\ [ProcNext]_procVars => OnlyHolderMoves'
  BY HolderStep
<1> QED BY <1>1, <1>2, InvariantHolds, PTL DEF ProcSpec
-----------------------------------------------------------------------------
\* What a withdrawal that is not refused leaves is at least the floor.
LEMMA WithdrawalKeepsFloor ==
  ASSUME TypeOK, NEW a \in Accounts, NEW x \in Nat, WithdrawError(a, x) = "none"
  PROVE  balance[a] - (x + OwnFee[a]) >= Floor[a]
<1>1. balance[a] \in Int /\ OwnFee[a] \in Nat /\ Floor[a] \in Int
  BY ProcessorAssumption DEF TypeOK, BankTypeOK
<1>2. ~(balance[a] - (x + OwnFee[a]) < Floor[a])
  BY DEF WithdrawError
<1> QED BY <1>1, <1>2

\* A closed account is not opened again.
LEMMA ClosedStays ==
  ASSUME TypeOK, [ProcNext]_procVars, NEW a \in Accounts, accStatus[a] = "closed"
  PROVE  accStatus'[a] = "closed"
<1>1. accStatus \in [Accounts -> AccountStatuses]
  BY DEF TypeOK, BankTypeOK
<1>2. CASE Environment
  <2>1. ASSUME NEW b \in Freezable, FreezeAccount(b) \/ UnfreezeAccount(b) \/ CloseAccount(b)
        PROVE  accStatus'[a] = "closed"
    BY <1>1, <2>1 DEF FreezeAccount, UnfreezeAccount, CloseAccount, SetStatus
  <2> QED BY <1>2, <2>1 DEF Environment, BlockClient, UnblockClient, CashIn, CashOut
<1>3. CASE ~Environment
  BY <1>3 DEF ProcNext, Process, Attempt, CheckSender, CheckRecipient, ConvertBoth, Screen,
       DebitSender, CreditRecipient, RollBack, CompleteAttempt, HandleFailure, Return, ClockTick,
       procVars, bankVars
<1> QED BY <1>2, <1>3

\* A balance goes down by a withdrawal that was allowed, or when the account is closed.
LEMMA FloorStep ==
  ASSUME ProcInv, FloorKept, [ProcNext]_procVars
  PROVE  FloorKept'
<1> SUFFICES ASSUME NEW a \in Accounts, accStatus'[a] # "closed"
             PROVE  balance'[a] >= Floor[a]
  BY DEF FloorKept
<1>1. /\ balance \in [Accounts -> Int] /\ Floor[a] \in Int /\ TypeOK /\ before \in Int
      /\ accStatus \in [Accounts -> AccountStatuses]
  BY ProcessorAssumption DEF ProcInv, TypeOK, BankTypeOK, AttemptTypeOK
<1>2. balance[a] >= Floor[a]
  BY <1>1, ClosedStays DEF FloorKept
<1>3. CASE DebitSender
  <2>1. cur \in Txns
    BY <1>3, RunningHolder DEF DebitSender, Steps
  <2>2. CASE UNCHANGED balance
    BY <1>2, <2>2
  <2>3. CASE /\ HasSender(cur) /\ WithdrawError(Sender[cur], Debit[cur] + Fee[cur]) = "none"
             /\ balance' = [balance EXCEPT
                   ![Sender[cur]] = @ - (Debit[cur] + Fee[cur] + OwnFee[Sender[cur]])]
    <3>1. Sender[cur] \in Accounts /\ Debit[cur] + Fee[cur] \in Nat
      BY <2>1, <2>3, Parties
    <3>2. balance[Sender[cur]] - (Debit[cur] + Fee[cur] + OwnFee[Sender[cur]])
            >= Floor[Sender[cur]]
      BY <1>1, <2>3, <3>1, WithdrawalKeepsFloor
    <3> QED BY <1>1, <1>2, <2>3, <3>1, <3>2
  <2> QED BY <1>3, <2>2, <2>3 DEF DebitSender
<1>4. CASE CreditRecipient
  <2>1. cur \in Txns
    BY <1>4, RunningHolder DEF CreditRecipient, Steps
  <2>2. Credit[cur] \in Nat
    BY <2>1, Parties
  <2> QED BY <1>1, <1>2, <1>4, <2>2 DEF CreditRecipient
<1>5. CASE RollBack
  <2>1. CASE UNCHANGED balance
    BY <1>2, <2>1
  <2>2. CASE MustRefund /\ balance' = [balance EXCEPT ![Sender[cur]] = @ + Taken]
    <3>1. HasSender(cur) /\ Taken > 0 /\ Taken = before - balance[Sender[cur]]
      BY <2>2 DEF MustRefund, Taken
    <3> QED BY <1>1, <1>2, <2>2, <3>1
  <2> QED BY <1>5, <2>1, <2>2 DEF RollBack
<1>6. CASE Environment
  <2>1. ASSUME NEW b \in Freezable, FreezeAccount(b) \/ UnfreezeAccount(b) \/ CloseAccount(b)
        PROVE  balance'[a] >= Floor[a]
    <3>1. CASE CloseAccount(b) /\ a = b
      BY <1>1, <3>1 DEF CloseAccount, SetStatus
    <3>2. CASE CloseAccount(b) /\ a # b
      BY <1>1, <1>2, <3>2 DEF CloseAccount
    <3> QED BY <1>2, <2>1, <3>1, <3>2 DEF FreezeAccount, UnfreezeAccount
  <2>2. ASSUME NEW b \in Accounts, NEW x \in CashAmounts, CashIn(b, x)
        PROVE  balance'[a] >= Floor[a]
    BY <1>1, <1>2, <2>2, ProcessorAssumption DEF CashIn
  <2>3. ASSUME NEW b \in Accounts, NEW x \in CashAmounts, CashOut(b, x)
        PROVE  balance'[a] >= Floor[a]
    <3>1. x \in Nat /\ WithdrawError(b, x) = "none"
      BY <2>3, ProcessorAssumption DEF CashOut
    <3>2. balance[b] - (x + OwnFee[b]) >= Floor[b]
      BY <1>1, <3>1, WithdrawalKeepsFloor
    <3> QED BY <1>1, <1>2, <2>3, <3>2 DEF CashOut
  <2>4. ASSUME NEW c \in Blockable, BlockClient(c) \/ UnblockClient(c)
        PROVE  balance'[a] >= Floor[a]
    BY <1>2, <2>4 DEF BlockClient, UnblockClient
  <2> QED BY <1>6, <2>1, <2>2, <2>3, <2>4 DEF Environment
<1>7. CASE ~(DebitSender \/ CreditRecipient \/ RollBack \/ Environment)
  <2>1. balance' = balance
    BY <1>7 DEF ProcNext, Process, Attempt, CheckSender, CheckRecipient, ConvertBoth, Screen,
         CompleteAttempt, HandleFailure, Return, ClockTick, procVars, bankVars
  <2> QED BY <1>2, <2>1
<1> QED BY <1>3, <1>4, <1>5, <1>6, <1>7

\* No operation takes an open account below the lowest balance its type allows,
\* whatever attempts, rollbacks and operations of clients follow one another.
THEOREM FloorsAreKept == ProcSpec => []FloorKept
<1>1. ProcInit => FloorKept
  BY ProcessorAssumption DEF ProcInit, FloorKept
<1>2. ProcInv /\ FloorKept /\ [ProcNext]_procVars => FloorKept'
  BY FloorStep
<1> QED BY <1>1, <1>2, InvariantHolds, PTL DEF ProcSpec
-----------------------------------------------------------------------------
Final(t) == status[t] \in {"completed", "failed"}

\* HistoryComplete at every step, not only between attempts: a transaction is
\* recorded in the step that gives it its final status.
RecordedWhenFinal ==
    /\ \A i, j \in DOMAIN finished : finished[i] = finished[j] => i = j
    /\ \A t \in Txns : Final(t) <=> \E i \in DOMAIN finished : finished[i] = t

\* Appending a transaction that is not recorded yet.
LEMMA RecordingOne ==
  ASSUME ProcInv, RecordedWhenFinal, NEW t \in Txns, ~Final(t), Final(t)',
         finished' = Append(finished, t),
         \A u \in Txns \ {t} : status'[u] = status[u]
  PROVE  RecordedWhenFinal'
<1>1. finished \in Seq(Txns) /\ Len(finished) \in Nat
  BY DEF ProcInv, TypeOK, HistoryTypeOK
<1>2. /\ DOMAIN finished = 1 .. Len(finished) /\ DOMAIN finished' = 1 .. Len(finished) + 1
      /\ \A i \in 1 .. Len(finished) : finished'[i] = finished[i]
      /\ finished'[Len(finished) + 1] = t
  BY <1>1
<1>3. \A i \in 1 .. Len(finished) : finished[i] # t
  BY <1>2 DEF RecordedWhenFinal
<1>4. \A i, j \in DOMAIN finished' : finished'[i] = finished'[j] => i = j
  BY <1>1, <1>2, <1>3 DEF RecordedWhenFinal
<1>5. ASSUME NEW u \in Txns
      PROVE  Final(u)' <=> \E i \in DOMAIN finished' : finished'[i] = u
  <2>1. CASE u = t
    BY <1>1, <1>2, <2>1
  <2>2. CASE u # t
    <3>1. Final(u)' <=> Final(u)
      BY <2>2 DEF Final
    <3> QED BY <1>1, <1>2, <2>2, <3>1 DEF RecordedWhenFinal
  <2> QED BY <2>1, <2>2
<1> QED BY <1>4, <1>5 DEF RecordedWhenFinal

\* Every way an attempt ends records its transaction or leaves it for a retry.
LEMMA RecordStep ==
  ASSUME ProcInv, RecordedWhenFinal, [ProcNext]_procVars
  PROVE  RecordedWhenFinal'
<1>1. status \in [Txns -> Statuses]
  BY DEF ProcInv, TypeOK, TxnTypeOK
<1>2. ASSUME finished' = finished, \A u \in Txns : Final(u)' <=> Final(u)
      PROVE  RecordedWhenFinal'
  BY <1>2 DEF RecordedWhenFinal
<1>3. ASSUME NEW t \in Txns, Process(t) PROVE RecordedWhenFinal'
  <2>1. \A u \in Txns : Final(u)' <=> Final(u)
    BY <1>1, <1>3 DEF Process, Start, MoveTo, CanMove, TRANSITIONS, Final, Statuses
  <2> QED BY <1>2, <1>3, <2>1 DEF Process
<1>4. CASE CompleteAttempt
  <2>1. PICK t \in Txns : t = cur /\ status[t] = "processing"
    BY <1>4 DEF ProcInv, TypeOK, AttemptTypeOK, RunningAttempt, InAttempt, CompleteAttempt
  <2>2. /\ finished' = Append(finished, t) /\ ~Final(t) /\ Final(t)'
        /\ \A u \in Txns \ {t} : status'[u] = status[u]
    BY <1>1, <1>4, <2>1 DEF CompleteAttempt, Complete, MoveTo, Record, Final
  <2> QED BY <2>2, RecordingOne
<1>5. CASE HandleFailure
  <2>1. PICK t \in Txns : t = cur /\ status[t] = "processing"
    BY <1>5 DEF ProcInv, TypeOK, AttemptTypeOK, RunningAttempt, InAttempt, HandleFailure
  <2>2. CASE Retry(t, err, NextAttemptAt) /\ UNCHANGED finished
    <3>1. \A u \in Txns : Final(u)' <=> Final(u)
      BY <1>1, <2>1, <2>2 DEF Retry, MoveTo, Final
    <3> QED BY <1>2, <2>2, <3>1
  <2>3. CASE Fail(t, err) /\ finished' = Append(finished, t)
    <3>1. ~Final(t) /\ Final(t)' /\ \A u \in Txns \ {t} : status'[u] = status[u]
      BY <1>1, <2>1, <2>3 DEF Fail, MoveTo, Final
    <3> QED BY <2>3, <3>1, RecordingOne
  <2> QED BY <1>5, <2>1, <2>2, <2>3 DEF HandleFailure, Record, RecordDuplicate
<1>6. CASE Attempt /\ ~CompleteAttempt /\ ~HandleFailure
  <2>1. finished' = finished /\ status' = status
    BY <1>6 DEF Attempt, CheckSender, CheckRecipient, ConvertBoth, Screen, DebitSender,
                CreditRecipient, RollBack, historyVars, txnVars
  <2> QED BY <1>2, <2>1 DEF Final
<1>7. CASE Return \/ Environment \/ ClockTick \/ UNCHANGED procVars
  <2>1. finished' = finished /\ status' = status
    BY <1>7 DEF Return, Environment, ClockTick, procVars, historyVars, txnVars
  <2> QED BY <1>2, <2>1 DEF Final
<1> QED BY <1>3, <1>4, <1>5, <1>6, <1>7 DEF ProcNext

\* Between attempts that says what HistoryComplete does.
LEMMA RecordsAreComplete == ProcInv /\ RecordedWhenFinal => HistoryComplete
<1> SUFFICES ASSUME ProcInv, RecordedWhenFinal PROVE HistoryComplete
  OBVIOUS
<1>1. \A i \in DOMAIN finished : finished[i] \in Txns
  BY DEF ProcInv, TypeOK, HistoryTypeOK
<1> QED BY <1>1 DEF RecordedWhenFinal, HistoryComplete, Final

\* The history has every transaction that reached a final status, once, refused
\* duplicates of an id included, and no other.
THEOREM HistoryIsComplete == ProcSpec => []HistoryComplete
<1>1. ProcInit => RecordedWhenFinal
  BY DEF ProcInit, TxnInit, RecordedWhenFinal, Final
<1>2. ProcInv /\ RecordedWhenFinal /\ [ProcNext]_procVars => RecordedWhenFinal'
  BY RecordStep
<1> QED BY <1>1, <1>2, RecordsAreComplete, InvariantHolds, PTL DEF ProcSpec
-----------------------------------------------------------------------------
\* attempts of t that failed so far, as its status tells
Failures(t) == IF status[t] \in {"processing", "completed"} THEN attempts[t] - 1 ELSE attempts[t]

\* What the error log has of t at every step: one record for each failed attempt,
\* and what the record said of a retry came true.
LoggedSoFar(t) ==
    /\ \A r \in errors : r.txn = t => r.attempt \in 1 .. Failures(t)
    /\ \A n \in 1 .. Failures(t) : \E r \in errors : r.txn = t /\ r.attempt = n
    /\ \A r, s \in errors : r.txn = t /\ s.txn = t /\ r.attempt = s.attempt => r = s
    /\ \A r \in errors : r.txn = t =>
          (r.willRetry <=> ~(status[t] = "failed" /\ r.attempt = Failures(t)))

\* Attempts are counted from one and stay within max_attempts.
Counted(t) ==
    /\ attempts[t] <= MaxAttempts
    /\ status[t] = "pending" => attempts[t] < MaxAttempts
    /\ status[t] \notin {"pending", "cancelled"} => attempts[t] > 0

ErrorsLogged == \A t \in Txns : LoggedSoFar(t) /\ Counted(t)

\* Nothing is logged before the first attempt.
LEMMA LogInit == ProcInit => ErrorsLogged
<1> SUFFICES ASSUME ProcInit, NEW t \in Txns PROVE LoggedSoFar(t) /\ Counted(t)
  BY DEF ErrorsLogged
<1>1. status[t] = "pending" /\ attempts[t] = 0 /\ errors = {} /\ MaxAttempts > 0
  BY ProcessorAssumption DEF ProcInit, TxnInit
<1> QED BY <1>1, ProcessorAssumption DEF LoggedSoFar, Counted, Failures

\* A transaction no attempt of which starts or ends keeps its records.
LEMMA LogFrame ==
  ASSUME NEW t \in Txns, LoggedSoFar(t), Counted(t),
         status'[t] = status[t], attempts'[t] = attempts[t],
         \A r \in errors' : r.txn = t => r \in errors, errors \subseteq errors'
  PROVE  LoggedSoFar(t)' /\ Counted(t)'
<1>1. Failures(t)' = Failures(t)
  BY DEF Failures
<1>2. LoggedSoFar(t)'
  BY <1>1 DEF LoggedSoFar
<1> QED BY <1>2 DEF Counted

\* The failure of an attempt adds its record.
LEMMA LogFailure ==
  ASSUME ProcInv, ErrorsLogged, HandleFailure
  PROVE  ErrorsLogged'
<1>1. PICK t \in Txns : t = cur
  BY DEF ProcInv, TypeOK, AttemptTypeOK, HandleFailure
<1> DEFINE r == [txn |-> t, attempt |-> attempts[t], error |-> err, willRetry |-> WillRetry]
<1>2. /\ TxnTypeOK /\ LogTypeOK /\ status[t] = "processing"
      /\ attempts[t] \in Nat /\ MaxAttempts \in Nat
  BY <1>1, ProcessorAssumption
     DEF ProcInv, TypeOK, TxnTypeOK, RunningAttempt, InAttempt, HandleFailure
<1>3. errors' = errors \cup {r} /\ attempts' = attempts
  BY <1>1 DEF HandleFailure, Retry, Fail
<1>4. \/ WillRetry /\ status' = [status EXCEPT ![t] = "pending"]
      \/ ~WillRetry /\ status' = [status EXCEPT ![t] = "failed"]
  BY <1>1 DEF HandleFailure, Retry, Fail, MoveTo
<1>5. WillRetry => attempts[t] < MaxAttempts
  BY <1>1 DEF WillRetry
<1>6. LoggedSoFar(t) /\ Counted(t)
  BY DEF ErrorsLogged
<1>7. Failures(t) = attempts[t] - 1 /\ Failures(t)' = attempts[t]
  BY <1>2, <1>3, <1>4 DEF Failures, TxnTypeOK
<1>8. attempts[t] > 0
  BY <1>2, <1>6 DEF Counted
<1>9. Counted(t)'
  BY <1>2, <1>3, <1>4, <1>5, <1>6 DEF Counted, TxnTypeOK
<1>10. \A s \in errors : s.attempt \in Nat
  BY <1>2 DEF LogTypeOK
<1>11. r.txn = t /\ r.attempt = attempts[t] /\ r.willRetry = WillRetry
  OBVIOUS
<1>12. WillRetry <=> ~(status'[t] = "failed")
  BY <1>2, <1>4 DEF TxnTypeOK
<1> HIDE DEF r
<1>13. \A s \in errors' : s.txn = t => s.attempt \in 1 .. attempts[t]
  BY <1>2, <1>3, <1>6, <1>7, <1>8, <1>11 DEF LoggedSoFar
<1>14. \A n \in 1 .. attempts[t] : \E s \in errors' : s.txn = t /\ s.attempt = n
  <2> SUFFICES ASSUME NEW n \in 1 .. attempts[t]
               PROVE  \E s \in errors' : s.txn = t /\ s.attempt = n
    OBVIOUS
  <2>1. CASE n = attempts[t]
    BY <1>3, <1>11, <2>1
  <2>2. CASE n \in 1 .. attempts[t] - 1
    BY <1>3, <1>6, <1>7, <2>2 DEF LoggedSoFar
  <2> QED BY <1>2, <2>1, <2>2
<1>15. \A s, u \in errors' : s.txn = t /\ u.txn = t /\ s.attempt = u.attempt => s = u
  <2>1. \A s \in errors : s.txn = t => s.attempt # attempts[t]
    BY <1>2, <1>6, <1>7 DEF LoggedSoFar
  <2> QED BY <1>3, <1>6, <1>11, <2>1 DEF LoggedSoFar
<1>16. \A s \in errors' : s.txn = t =>
          (s.willRetry <=> ~(status'[t] = "failed" /\ s.attempt = attempts[t]))
  <2>1. \A s \in errors : s.txn = t => s.willRetry /\ s.attempt # attempts[t]
    BY <1>2, <1>6, <1>7 DEF LoggedSoFar
  <2> QED BY <1>3, <1>11, <1>12, <2>1
<1>17. LoggedSoFar(t)'
  BY <1>7, <1>13, <1>14, <1>15, <1>16 DEF LoggedSoFar
<1>18. ASSUME NEW u \in Txns \ {t} PROVE LoggedSoFar(u)' /\ Counted(u)'
  <2>1. status'[u] = status[u] /\ attempts'[u] = attempts[u]
    BY <1>2, <1>3, <1>4 DEF TxnTypeOK
  <2>2. \A s \in errors' : s.txn = u => s \in errors
    BY <1>3, <1>11
  <2> QED BY <1>3, <2>1, <2>2, LogFrame DEF ErrorsLogged
<1> QED BY <1>9, <1>17, <1>18 DEF ErrorsLogged

\* Starting and completing an attempt log nothing, and say nothing false of it.
LEMMA LogStep ==
  ASSUME ProcInv, ErrorsLogged, [ProcNext]_procVars
  PROVE  ErrorsLogged'
<1>1. TxnTypeOK /\ MaxAttempts \in Nat
  BY ProcessorAssumption DEF ProcInv, TypeOK
<1>2. ASSUME NEW t \in Txns, errors' = errors, Failures(t)' = Failures(t),
             status[t] # "failed", status'[t] # "failed", Counted(t)',
             \A u \in Txns \ {t} : status'[u] = status[u] /\ attempts'[u] = attempts[u]
      PROVE  ErrorsLogged'
  <2>1. LoggedSoFar(t)'
    BY <1>2 DEF ErrorsLogged, LoggedSoFar
  <2> QED BY <1>2, <2>1, LogFrame DEF ErrorsLogged
<1>3. ASSUME NEW t \in Txns, Process(t) PROVE ErrorsLogged'
  <2>1. status[t] = "pending" /\ attempts[t] \in Nat /\ attempts[t] < MaxAttempts
    BY <1>1, <1>3 DEF Process, Start, MoveTo, CanMove, TRANSITIONS, TxnTypeOK, Statuses,
                      ErrorsLogged, Counted
  <2>2. /\ status' = [status EXCEPT ![t] = "processing"]
        /\ attempts' = [attempts EXCEPT ![t] = @ + 1] /\ errors' = errors
    BY <1>3 DEF Process, Start, MoveTo
  <2>3. /\ status'[t] = "processing" /\ attempts'[t] = attempts[t] + 1
        /\ \A u \in Txns \ {t} : status'[u] = status[u] /\ attempts'[u] = attempts[u]
    BY <1>1, <2>2 DEF TxnTypeOK
  <2>4. Failures(t)' = Failures(t) /\ Counted(t)'
    BY <1>1, <2>1, <2>3 DEF Failures, Counted
  <2> QED BY <1>2, <2>1, <2>2, <2>3, <2>4
<1>4. CASE CompleteAttempt
  <2>1. PICK t \in Txns : t = cur /\ status[t] = "processing"
    BY <1>4 DEF ProcInv, TypeOK, AttemptTypeOK, RunningAttempt, InAttempt, CompleteAttempt
  <2>2. status' = [status EXCEPT ![t] = "completed"] /\ attempts' = attempts /\ errors' = errors
    BY <1>4, <2>1 DEF CompleteAttempt, Complete, MoveTo
  <2>3. status'[t] = "completed" /\ \A u \in Txns \ {t} : status'[u] = status[u]
    BY <1>1, <2>2 DEF TxnTypeOK
  <2>4. Failures(t)' = Failures(t) /\ Counted(t)'
    BY <2>1, <2>2, <2>3 DEF Failures, Counted, ErrorsLogged
  <2> QED BY <1>2, <2>1, <2>2, <2>3, <2>4
<1>5. CASE UNCHANGED <<status, attempts, errors>>
  BY <1>5, LogFrame DEF ErrorsLogged
<1>6. CASE Attempt /\ ~CompleteAttempt /\ ~HandleFailure
  <2>1. UNCHANGED <<status, attempts, errors>>
    BY <1>6 DEF Attempt, CheckSender, CheckRecipient, ConvertBoth, Screen, DebitSender,
                CreditRecipient, RollBack, txnVars
  <2> QED BY <1>5, <2>1
<1>7. CASE Return \/ Environment \/ ClockTick \/ UNCHANGED procVars
  <2>1. UNCHANGED <<status, attempts, errors>>
    BY <1>7 DEF Return, Environment, ClockTick, procVars, txnVars
  <2> QED BY <1>5, <2>1
<1> QED BY <1>3, <1>4, <1>6, <1>7, LogFailure DEF ProcNext, Attempt

\* Records of different attempts, one for each of 1 .. n, are n of them.
LEMMA OnePerAttempt ==
  ASSUME NEW n \in Nat, NEW log, \A r \in log : r.attempt \in 1 .. n,
         \A k \in 1 .. n : \E r \in log : r.attempt = k,
         \A r, s \in log : r.attempt = s.attempt => r = s
  PROVE  Cardinality(log) = n
<1> DEFINE f == [k \in 1 .. n |-> CHOOSE r \in log : r.attempt = k]
<1>1. \A k \in 1 .. n : f[k] \in log /\ f[k].attempt = k
  OBVIOUS
<1>2. f \in [1 .. n -> log]
  BY <1>1
<1>3. \A j, k \in 1 .. n : f[j] = f[k] => j = k
  BY <1>1
<1>4. \A r \in log : \E k \in 1 .. n : f[k] = r
  BY <1>1
<1> HIDE DEF f
<1>5. f \in Bijection(1 .. n, log)
  BY <1>2, <1>3, <1>4 DEF Bijection, Injection, Surjection, IsInjective
<1>6. ExistsBijection(1 .. n, log)
  BY <1>5 DEF ExistsBijection
<1> QED BY <1>6, FS_CountingElements

\* Of a transaction whose attempt is over, that says what ErrorLogComplete does.
LEMMA ErrorsAreComplete == ProcInv /\ ErrorsLogged => ErrorLogComplete
<1> SUFFICES ASSUME ProcInv, ErrorsLogged, NEW t \in Txns, cur # t
             PROVE  LET last == IF status[t] = "completed" THEN attempts[t] - 1
                                ELSE attempts[t]
                        log == {r \in errors : r.txn = t} IN
                    /\ {r.attempt : r \in log} = 1 .. last
                    /\ Cardinality(log) = last
                    /\ \A r \in log : r.willRetry <=> ~(status[t] = "failed" /\ r.attempt = last)
                    /\ attempts[t] <= MaxAttempts
                    /\ status[t] = "pending" => attempts[t] < MaxAttempts
  BY DEF ErrorLogComplete
<1> DEFINE last == IF status[t] = "completed" THEN attempts[t] - 1 ELSE attempts[t]
           log == {r \in errors : r.txn = t}
<1>1. status[t] # "processing" /\ attempts[t] \in Nat
  BY DEF ProcInv, OthersAtRest, AtRest, TypeOK, TxnTypeOK
<1>2. LoggedSoFar(t) /\ Counted(t)
  BY DEF ErrorsLogged
<1>3. Failures(t) = last /\ last \in Nat
  BY <1>1, <1>2 DEF Failures, Counted
<1> HIDE DEF last
<1>4. {r.attempt : r \in log} = 1 .. last
  BY <1>2, <1>3 DEF LoggedSoFar
<1>5. Cardinality(log) = last
  <2>1. /\ \A r \in log : r.attempt \in 1 .. last
        /\ \A k \in 1 .. last : \E r \in log : r.attempt = k
        /\ \A r, s \in log : r.attempt = s.attempt => r = s
    BY <1>2, <1>3 DEF LoggedSoFar
  <2> HIDE DEF log
  <2> QED BY <1>3, <2>1, OnePerAttempt
<1>6. \A r \in log : r.willRetry <=> ~(status[t] = "failed" /\ r.attempt = last)
  BY <1>2, <1>3 DEF LoggedSoFar
<1> QED BY <1>2, <1>4, <1>5, <1>6 DEF Counted, last

\* Each failed attempt is in the error log, once, and the log tells which of them
\* were retried; attempts stay within max_attempts.
THEOREM ErrorLogIsComplete == ProcSpec => []ErrorLogComplete
<1>1. ProcInit => ErrorsLogged
  BY LogInit
<1>2. ProcInv /\ ErrorsLogged /\ [ProcNext]_procVars => ErrorsLogged'
  BY LogStep
<1> QED BY <1>1, <1>2, ErrorsAreComplete, InvariantHolds, PTL DEF ProcSpec
-----------------------------------------------------------------------------
\* A remainder is the only one of its kind.
LEMMA RemainderOf ==
  ASSUME NEW d \in Nat \ {0}, NEW q \in Int, NEW r \in 0 .. d - 1
  PROVE  (q * d + r) % d = r
<1> DEFINE x == q * d + r
           k == x \div d
<1>1. x \in Int /\ k \in Int /\ x % d \in 0 .. d - 1 /\ x = k * d + (x % d)
  OBVIOUS
<1>2. (q - k) * d = (x % d) - r
  BY <1>1
<1>3. CASE q = k
  BY <1>1, <1>2, <1>3
<1>4. CASE q - k >= 1
  <2>1. (q - k) * d >= d
    BY <1>1, <1>4
  <2> QED BY <1>1, <1>2, <2>1
<1>5. CASE q - k <= -1
  <2>1. (q - k) * d <= -d
    BY <1>1, <1>5
  <2> QED BY <1>1, <1>2, <2>1
<1> QED BY <1>1, <1>3, <1>4, <1>5

\* NightEndsAt() is the end of the night that lasts: night up to it, day at it.
LEMMA NightLasts ==
  ASSUME NEW m \in Nat, IsNight(m)
  PROVE  /\ \A n \in m .. NightEndsAt(m) - 1 : IsNight(n)
         /\ ~IsNight(NightEndsAt(m))
<1> DEFINE q == m \div DayLength
           midnight == m - (m % DayLength)
<1>1. DayLength \in Nat \ {0} /\ NightEnd \in 1 .. DayLength - 1
  BY ClockAssumption
<1>2. q \in Int /\ midnight = q * DayLength /\ midnight <= m
  BY <1>1
<1>3. NightEndsAt(m) = midnight + NightEnd
  BY DEF NightEndsAt
<1> HIDE DEF q, midnight
<1>4. ASSUME NEW r \in 0 .. DayLength - 1 PROVE (midnight + r) % DayLength = r
  BY <1>1, <1>2, <1>4, RemainderOf
<1>5. ASSUME NEW n \in m .. NightEndsAt(m) - 1 PROVE IsNight(n)
  <2>1. PICK r \in 0 .. NightEnd - 1 : n = midnight + r
    <3>1. n - midnight \in 0 .. NightEnd - 1
      BY <1>1, <1>2, <1>3
    <3> QED BY <1>2, <1>1, <3>1
  <2>2. n % DayLength = r
    BY <1>1, <1>4, <2>1
  <2> QED BY <1>1, <2>1, <2>2 DEF IsNight
<1>6. ~IsNight(NightEndsAt(m))
  <2>1. NightEndsAt(m) % DayLength = NightEnd
    BY <1>1, <1>3, <1>4
  <2> QED BY <1>1, <2>1 DEF IsNight
<1> QED BY <1>5, <1>6

\* A step that puts a transaction back schedules its retry.
LEMMA RetryStep ==
  ASSUME ProcInv, [ProcNext]_procVars,
         NEW t \in Txns, status[t] = "processing", status'[t] = "pending"
  PROVE  /\ scheduledAt'[t] > now
         /\ err = "night" /\ IsNight(now) =>
               /\ \A m \in now .. scheduledAt'[t] - 1 : IsNight(m)
               /\ ~IsNight(scheduledAt'[t])
<1>1. /\ TypeOK /\ now \in Nat /\ status \in [Txns -> Statuses]
      /\ scheduledAt \in [Txns -> Nat]
  BY DEF ProcInv, TypeOK, TxnTypeOK
<1>2. HandleFailure /\ t = cur
  <2>1. ASSUME NEW u \in Txns, Process(u) PROVE FALSE
    BY <1>1, <2>1 DEF Process, Start, MoveTo
  <2>2. CASE CompleteAttempt
    BY <1>1, <2>2 DEF CompleteAttempt, Complete, MoveTo
  <2>3. CASE HandleFailure
    BY <1>1, <2>3 DEF HandleFailure, Retry, Fail, MoveTo
  <2>4. CASE status' = status
    BY <2>4
  <2> QED BY <2>1, <2>2, <2>3, <2>4 DEF ProcNext, Attempt, CheckSender, CheckRecipient,
            ConvertBoth, Screen, DebitSender, CreditRecipient, RollBack, Return, Environment,
            ClockTick, procVars, txnVars
<1>3. scheduledAt'[t] = NextAttemptAt
  BY <1>1, <1>2 DEF HandleFailure, Retry, Fail, MoveTo
<1>4. scheduledAt'[t] > now
  BY <1>1, <1>2, <1>3, NextAttemptType
<1>5. err = "night" /\ IsNight(now) => scheduledAt'[t] = NightEndsAt(now)
  BY <1>3 DEF NextAttemptAt
<1> QED BY <1>1, <1>4, <1>5, NightLasts

\* A retry is put off to a later moment, and out of the night that refused the
\* attempt, by whatever the delay is.
THEOREM RetriesAreScheduled == ProcSpec => RetryScheduled
<1>1. ProcInv /\ [ProcNext]_procVars
        => [\A t \in Txns : status[t] = "processing" /\ status'[t] = "pending" =>
              /\ scheduledAt'[t] > now
              /\ err = "night" /\ IsNight(now) =>
                    /\ \A m \in now .. scheduledAt'[t] - 1 : IsNight(m)
                    /\ ~IsNight(scheduledAt'[t])]_procVars
  BY RetryStep
<1> QED BY <1>1, InvariantHolds, PTL DEF ProcSpec, RetryScheduled
-----------------------------------------------------------------------------
(***************************************************************************)
(* TransactionReports: the processor with a journal of its attempts.       *)
(***************************************************************************)
LEMMA JournalIsProcessor == JournalSpec => ProcSpec
<1>1. JournalInit => ProcInit
  BY DEF JournalInit
<1>2. [JournalNext]_reportVars => [ProcNext]_procVars
  BY DEF JournalNext, JournalCompleted, JournalFailed, Unjournaled, ProcNext, Attempt, reportVars
<1> QED BY <1>1, <1>2, PTL DEF JournalSpec, ProcSpec

\* A tally that counts no movement is empty, and the one credit a transaction
\* gets has its amount.
TallyTold ==
    \A key \in Keys :
        /\ withdrawals[key].count = 0 => withdrawals[key].total = 0
        /\ refunds[key].count = 0 => refunds[key].total = 0
        /\ deposits[key].count = 0 => deposits[key].total = 0
        /\ deposits[key].count = 1 => deposits[key].total = Credit[claimed[key[1]]]

LEMMA TallyStep ==
  ASSUME ProcInv, OnlyHolderMoves, TallyTold, [ProcNext]_procVars
  PROVE  TallyTold'
<1> SUFFICES ASSUME NEW key \in Keys
             PROVE  /\ withdrawals'[key].count = 0 => withdrawals'[key].total = 0
                    /\ refunds'[key].count = 0 => refunds'[key].total = 0
                    /\ deposits'[key].count = 0 => deposits'[key].total = 0
                    /\ deposits'[key].count = 1 => deposits'[key].total = Credit[claimed'[key[1]]]
  BY DEF TallyTold
<1>1. /\ withdrawals[key].count = 0 => withdrawals[key].total = 0
      /\ refunds[key].count = 0 => refunds[key].total = 0
      /\ deposits[key].count = 0 => deposits[key].total = 0
      /\ deposits[key].count = 1 => deposits[key].total = Credit[claimed[key[1]]]
  BY DEF TallyTold
<1>2. /\ withdrawals \in Tallies /\ refunds \in Tallies /\ deposits \in Tallies
      /\ key[1] \in Ids /\ balance \in [Accounts -> Int] /\ before \in Int
  BY DEF ProcInv, TypeOK, HistoryTypeOK, BankTypeOK, AttemptTypeOK, Keys
<1>3. deposits[key].count = 1 => claimed'[key[1]] = claimed[key[1]]
  BY <1>2, ClaimsStay DEF OnlyHolderMoves
<1>4. /\ withdrawals[key].count \in Nat /\ refunds[key].count \in Nat
      /\ deposits[key].count \in Nat
  BY <1>2, TallyType
<1>5. CASE UNCHANGED <<withdrawals, refunds, deposits>>
  BY <1>1, <1>3, <1>5
<1>6. CASE DebitSender \/ CreditRecipient \/ RollBack
  <2>1. cur \in Txns /\ cur # NoTxn /\ claimed[IdOf[cur]] = cur
    BY <1>6, RunningHolder, TransactionAssumption
       DEF Holds, Steps, DebitSender, CreditRecipient, RollBack
  <2>2. CASE /\ HasSender(cur) /\ UNCHANGED <<claimed, refunds, deposits>>
             /\ withdrawals' = Recorded(withdrawals, Key(cur, Sender[cur]), Charge[cur])
    <3>1. \/ withdrawals'[key] = withdrawals[key]
          \/ withdrawals'[key].count = withdrawals[key].count + 1
      BY <1>2, <2>2 DEF Recorded, Tallies
    <3> QED BY <1>1, <1>4, <2>2, <3>1
  <2>3. CASE /\ HasRecipient(cur) /\ UNCHANGED <<claimed, withdrawals, refunds>>
             /\ deposits' = Recorded(deposits, Key(cur, Recipient[cur]), Credit[cur])
    <3>1. Key(cur, Recipient[cur]) \in Keys /\ Credit[cur] \in Nat
      BY <2>1, <2>3, Parties, KeyFacts
    <3>2. CASE key = Key(cur, Recipient[cur])
      <4>1. /\ deposits'[key].count = deposits[key].count + 1
            /\ deposits'[key].total = deposits[key].total + Credit[cur]
        BY <1>2, <2>3, <3>1, <3>2, RecordedFacts
      <4>2. key[1] = IdOf[cur]
        BY <3>2 DEF Key
      <4> QED BY <1>1, <1>4, <2>1, <2>3, <3>1, <4>1, <4>2
    <3>3. CASE key # Key(cur, Recipient[cur])
      <4>1. deposits'[key] = deposits[key]
        BY <1>2, <2>3, <3>1, <3>3 DEF Recorded, Tallies
      <4> QED BY <1>1, <2>3, <4>1
    <3> QED BY <3>2, <3>3
  <2>4. CASE /\ HasSender(cur) /\ UNCHANGED <<claimed, withdrawals, deposits>>
             /\ RefundAllowed(cur, Sender[cur], Taken)
             /\ refunds' = Recorded(refunds, Key(cur, Sender[cur]), Taken)
    <3>1. \/ refunds'[key] = refunds[key]
          \/ refunds'[key].count = refunds[key].count + 1
      BY <1>2, <2>4 DEF Recorded, Tallies
    <3> QED BY <1>1, <1>4, <2>4, <3>1
  <2> QED BY <1>5, <2>2, <2>3, <2>4, Tallying
<1> QED BY <1>5, <1>6, Tallying

\* What a transaction at rest did to the accounts, one by one.
LEMMA NetOfAccount ==
  ASSUME ProcInv, OnlyHolderMoves, TallyTold, NEW t \in Txns, Holds(t), NEW a \in Accounts
  PROVE  LET net == deposits[Key(t, a)].total + refunds[Key(t, a)].total
                      - withdrawals[Key(t, a)].total IN
         /\ net \in Int
         /\ a \notin {Sender[t], Recipient[t]} => net = 0
         /\ NothingMoved(t) => net = 0
         /\ AllMoved(t) /\ a = Sender[t] => net = -Charge[t]
         /\ AllMoved(t) /\ a = Recipient[t] => net = Credit[t]
<1> DEFINE key == Key(t, a)
<1>1. key \in Keys /\ key[1] = IdOf[t] /\ key[2] = a
  BY KeyFacts DEF Key
<1>2. claimed[IdOf[t]] = t /\ t # NoTxn
  BY TransactionAssumption DEF Holds
<1>3. /\ withdrawals[key].count > 0 => a = Sender[t]
      /\ deposits[key].count > 0 => a = Recipient[t]
      /\ refunds[key].count <= withdrawals[key].count
  BY <1>1, <1>2 DEF OnlyHolderMoves
<1>4. /\ withdrawals[key].count = 0 => withdrawals[key].total = 0
      /\ refunds[key].count = 0 => refunds[key].total = 0
      /\ deposits[key].count = 0 => deposits[key].total = 0
      /\ deposits[key].count = 1 => deposits[key].total = Credit[t]
  BY <1>1, <1>2 DEF TallyTold
<1>5. /\ withdrawals[key].count \in Nat /\ withdrawals[key].total \in Nat
      /\ refunds[key].count \in Nat /\ refunds[key].total \in Nat
      /\ deposits[key].count \in Nat /\ deposits[key].total \in Nat
  BY <1>1, TallyType DEF ProcInv, TypeOK, HistoryTypeOK
<1>6. /\ a = Sender[t] => HasSender(t) /\ a # Recipient[t]
      /\ a = Recipient[t] => HasRecipient(t) /\ a # Sender[t]
  BY ProcessorAssumption
<1>7. Charge[t] \in Nat /\ Credit[t] \in Nat
  BY Parties
<1>8. a = Sender[t] => /\ Debits(t) = withdrawals[key] /\ Refunds(t) = refunds[key]
  BY DEF Debits, Refunds
<1>9. a = Recipient[t] => Credits(t) = deposits[key]
  BY DEF Credits
<1> HIDE DEF key
<1>10. a \notin {Sender[t], Recipient[t]} =>
         deposits[key].total + refunds[key].total - withdrawals[key].total = 0
  BY <1>3, <1>4, <1>5
<1>11. ASSUME NothingMoved(t)
       PROVE  deposits[key].total + refunds[key].total - withdrawals[key].total = 0
  <2>1. CASE a = Sender[t]
    BY <1>3, <1>4, <1>5, <1>6, <1>8, <1>11, <2>1 DEF NothingMoved
  <2>2. CASE a = Recipient[t]
    <3>1. deposits[key].count = 0
      BY <1>6, <1>9, <1>11, <2>2 DEF NothingMoved
    <3>2. withdrawals[key].count = 0 /\ refunds[key].count = 0
      BY <1>3, <1>5, <1>6, <2>2
    <3>3. deposits[key].total = 0 /\ refunds[key].total = 0 /\ withdrawals[key].total = 0
      BY <1>4, <3>1, <3>2
    <3> QED BY <3>3
  <2> QED BY <1>10, <2>1, <2>2
<1>12. AllMoved(t) /\ a = Sender[t] =>
         deposits[key].total + refunds[key].total - withdrawals[key].total = -Charge[t]
  BY <1>3, <1>4, <1>5, <1>6, <1>7, <1>8 DEF AllMoved, Debited
<1>13. AllMoved(t) /\ a = Recipient[t] =>
         deposits[key].total + refunds[key].total - withdrawals[key].total = Credit[t]
  BY <1>3, <1>4, <1>5, <1>6, <1>7, <1>9 DEF AllMoved
<1> QED BY <1>5, <1>10, <1>11, <1>12, <1>13 DEF key

\* What it came to on some accounts: only those it names count.
LEMMA NetOf ==
  ASSUME ProcInv, OnlyHolderMoves, TallyTold, NEW t \in Txns, Holds(t),
         NEW mine \in SUBSET Accounts
  PROVE  /\ NothingMoved(t) => Net(t, mine) = 0
         /\ {Sender[t], Recipient[t]} \cap mine = {} => Net(t, mine) = 0
         /\ AllMoved(t) =>
              /\ Sender[t] \in mine /\ Recipient[t] \notin mine => Net(t, mine) = -Charge[t]
              /\ Sender[t] \notin mine /\ Recipient[t] \in mine => Net(t, mine) = Credit[t]
              /\ Sender[t] \in mine /\ Recipient[t] \in mine =>
                   Net(t, mine) = Credit[t] - Charge[t]
<1> DEFINE net == [a \in mine |-> deposits[Key(t, a)].total + refunds[Key(t, a)].total
                                    - withdrawals[Key(t, a)].total]
<1>1. Net(t, mine) = SumFunctionOnSet(net, mine)
  BY DEF Net
<1>2. /\ \A a \in mine : net[a] \in Int
      /\ \A a \in mine \ {Sender[t], Recipient[t]} : net[a] = 0
      /\ NothingMoved(t) => \A a \in mine : net[a] = 0
      /\ AllMoved(t) /\ Sender[t] \in mine => net[Sender[t]] = -Charge[t]
      /\ AllMoved(t) /\ Recipient[t] \in mine => net[Recipient[t]] = Credit[t]
  BY NetOfAccount
<1> HIDE DEF net
<1>3. IsFiniteSet(mine)
  BY AmountAssumption, FS_Subset
<1>4. Sender[t] # Recipient[t] /\ Charge[t] \in Nat /\ Credit[t] \in Nat
  BY ProcessorAssumption, Parties
<1> DEFINE named == {Sender[t], Recipient[t]} \cap mine
<1>5. ASSUME NEW T \in SUBSET mine, \A a \in mine \ T : net[a] = 0
      PROVE  Net(t, mine) = SumFunctionOnSet(net, T)
  BY <1>1, <1>2, <1>3, <1>5, SumOfPart
<1>6. ASSUME NEW a \in mine PROVE SumFunctionOnSet(net, {a}) = net[a]
  <2>1. SumFunctionOnSet(net, {a}) = net[a] + SumFunctionOnSet(net, {a} \ {a})
    <3>1. IsFiniteSet({a}) /\ \A b \in {a} : net[b] \in Int
      BY <1>2, FS_Singleton
    <3> QED BY <3>1, SumWithout
  <2>2. {a} \ {a} = {} /\ net[a] \in Int
    BY <1>2
  <2> QED BY <2>1, <2>2, SumOfNone
<1>7. NothingMoved(t) => Net(t, mine) = 0
  BY <1>2, <1>5, SumOfNone
<1>8. named = {} => Net(t, mine) = 0
  BY <1>2, <1>5, SumOfNone
<1>9. ASSUME AllMoved(t), Sender[t] \in mine, Recipient[t] \notin mine
      PROVE  Net(t, mine) = -Charge[t]
  <2>1. Net(t, mine) = SumFunctionOnSet(net, {Sender[t]})
    BY <1>2, <1>5, <1>9
  <2> QED BY <1>2, <1>6, <1>9, <2>1
<1>10. ASSUME AllMoved(t), Sender[t] \notin mine, Recipient[t] \in mine
       PROVE  Net(t, mine) = Credit[t]
  <2>1. Net(t, mine) = SumFunctionOnSet(net, {Recipient[t]})
    BY <1>2, <1>5, <1>10
  <2> QED BY <1>2, <1>6, <1>10, <2>1
<1>11. ASSUME AllMoved(t), Sender[t] \in mine, Recipient[t] \in mine
       PROVE  Net(t, mine) = Credit[t] - Charge[t]
  <2> DEFINE both == {Sender[t], Recipient[t]}
  <2>1. both \in SUBSET mine /\ IsFiniteSet(both) /\ \A a \in both : net[a] \in Int
    BY <1>2, <1>3, <1>11, FS_Subset
  <2>2. Net(t, mine) = SumFunctionOnSet(net, both)
    BY <1>2, <1>5, <2>1
  <2>3. SumFunctionOnSet(net, both) = net[Sender[t]] + SumFunctionOnSet(net, both \ {Sender[t]})
    <3> HIDE DEF both
    <3>1. Sender[t] \in both
      BY DEF both
    <3> QED BY <2>1, <3>1, SumWithout
  <2>4. both \ {Sender[t]} = {Recipient[t]}
    BY <1>4
  <2>5. SumFunctionOnSet(net, {Recipient[t]}) = net[Recipient[t]]
    BY <1>6, <1>11
  <2>6. net[Sender[t]] = -Charge[t] /\ net[Recipient[t]] = Credit[t]
    BY <1>2, <1>11
  <2>7. Net(t, mine) = net[Sender[t]] + net[Recipient[t]]
    BY <2>2, <2>3, <2>4, <2>5, Zenon
  <2> QED BY <1>4, <2>6, <2>7
<1> QED BY <1>7, <1>8, <1>9, <1>10, <1>11

\* The two tables of a client report explain each other, whichever accounts the
\* client has.
THEOREM ReportsExplainStatements == JournalSpec => []ReportMatchesStatement
<1>1. ProcInit => TallyTold
  <2> SUFFICES ASSUME ProcInit PROVE TallyTold
    OBVIOUS
  <2>1. /\ withdrawals = NoMovements /\ refunds = NoMovements /\ deposits = NoMovements
    BY DEF ProcInit
  <2> QED BY <2>1 DEF TallyTold, NoMovements
<1>2. ProcInv /\ OnlyHolderMoves /\ TallyTold /\ [ProcNext]_procVars => TallyTold'
  BY TallyStep
<1>3. ProcInv /\ OnlyHolderMoves /\ HistoryComplete /\ TallyTold => ReportMatchesStatement
  <2> SUFFICES ASSUME ProcInv, OnlyHolderMoves, HistoryComplete, TallyTold, cur = NoTxn,
                      NEW mine \in SUBSET Accounts, NEW t \in Txns, Holds(t)
               PROVE  LET table == TransactionTable(mine) IN
                      IF t \notin DOMAIN table THEN Net(t, mine) = 0
                      ELSE IF table[t].status = "failed"
                           THEN reason[t] = "defect" \/ Net(t, mine) = 0
                      ELSE CASE table[t].direction = "incoming" -> Net(t, mine) = Credit[t]
                             [] table[t].direction = "outgoing" -> Net(t, mine) = -Charge[t]
                             [] table[t].direction = "internal" ->
                                  Net(t, mine) = Credit[t] - Charge[t]
    BY DEF ReportMatchesStatement
  <2>1. AtRest(t)
    BY TransactionAssumption DEF ProcInv, OthersAtRest
  <2>2. Finished = {u \in Txns : status[u] \in {"completed", "failed"}}
    BY DEF HistoryComplete, Finished
  <2>3. t \notin Rows(mine) => Net(t, mine) = 0
    <3>1. CASE NothingMoved(t)
      BY <3>1, NetOf
    <3>2. CASE ~NothingMoved(t)
      <4>1. status[t] \in {"completed", "failed"}
        BY <2>1, <3>2 DEF AtRest
      <4>2. t \notin Rows(mine) => {Sender[t], Recipient[t]} \cap mine = {}
        BY <2>2, <4>1 DEF Rows
      <4> QED BY <4>2, NetOf
    <3> QED BY <3>1, <3>2
  <2>4. status[t] = "failed" => reason[t] = "defect" \/ Net(t, mine) = 0
    BY <2>1, NetOf DEF AtRest
  <2>5. t \in Rows(mine) /\ status[t] # "failed" =>
          \/ Direction(t, mine) = "incoming" /\ Net(t, mine) = Credit[t]
          \/ Direction(t, mine) = "outgoing" /\ Net(t, mine) = -Charge[t]
          \/ Direction(t, mine) = "internal" /\ Net(t, mine) = Credit[t] - Charge[t]
    <3> SUFFICES ASSUME t \in Rows(mine), status[t] # "failed"
                 PROVE  \/ Direction(t, mine) = "incoming" /\ Net(t, mine) = Credit[t]
                        \/ Direction(t, mine) = "outgoing" /\ Net(t, mine) = -Charge[t]
                        \/ Direction(t, mine) = "internal" /\ Net(t, mine) = Credit[t] - Charge[t]
      OBVIOUS
    <3>1. status[t] = "completed" /\ AllMoved(t)
      BY <2>1, <2>2 DEF AtRest, Rows
    <3>2. Sender[t] \in mine \/ Recipient[t] \in mine
      BY DEF Rows
    <3> QED BY <3>1, <3>2, NetOf DEF Direction
  <2>6. /\ DOMAIN TransactionTable(mine) = Rows(mine)
        /\ t \in Rows(mine) => /\ TransactionTable(mine)[t].status = status[t]
                               /\ TransactionTable(mine)[t].direction = Direction(t, mine)
    BY DEF TransactionTable
  <2> QED BY <2>3, <2>4, <2>5, <2>6
<1> QED BY <1>1, <1>2, <1>3, InvariantHolds, MovementsAreTheHolders, HistoryIsComplete,
           JournalIsProcessor, PTL DEF ProcSpec
-----------------------------------------------------------------------------
Ended(result) == {t \in Txns : status[t] = result}

TariffFee == [t \in Txns |-> IF HasSender(t) THEN Fee[t] ELSE 0]

\* The processor adds up the fees of what it completes.
FeesCollected ==
    IsFiniteSet(errors) /\ collectedFees = SumFunctionOnSet(TariffFee, Ended("completed"))

\* The journal has nothing that did not happen, and with an audit log that never
\* fails everything that did.
JournalTold == journal \subseteq Outcomes /\ (~AuditMayFail => Outcomes \subseteq journal)

\* The last step of an attempt that went through.
LEMMA CompletedOne ==
  ASSUME ProcInv, CompleteAttempt
  PROVE  /\ cur \in Txns /\ cur \notin Ended("completed")
         /\ Ended("completed")' = Ended("completed") \cup {cur}
         /\ errors' = errors /\ attempts' = attempts
         /\ collectedFees' = collectedFees + TariffFee[cur]
<1>1. PICK t \in Txns : t = cur /\ status[t] = "processing"
  BY DEF ProcInv, TypeOK, AttemptTypeOK, RunningAttempt, InAttempt, CompleteAttempt
<1>2. status \in [Txns -> Statuses]
  BY DEF ProcInv, TypeOK, TxnTypeOK
<1>3. status' = [status EXCEPT ![t] = "completed"] /\ attempts' = attempts /\ errors' = errors
  BY <1>1 DEF CompleteAttempt, Complete, MoveTo
<1>4. Ended("completed")' = Ended("completed") \cup {t}
  BY <1>2, <1>3 DEF Ended
<1>5. collectedFees' = collectedFees + TariffFee[cur]
  BY <1>1 DEF CompleteAttempt, TariffFee
<1> QED BY <1>1, <1>3, <1>4, <1>5 DEF Ended

\* The last step of one that did not.
LEMMA FailedOne ==
  ASSUME ProcInv, HandleFailure
  PROVE  /\ Ended("completed")' = Ended("completed")
         /\ errors' = errors \cup {[txn |-> cur, attempt |-> attempts[cur], error |-> err,
                                    willRetry |-> WillRetry]}
         /\ UNCHANGED <<attempts, collectedFees>>
<1>1. PICK t \in Txns : t = cur /\ status[t] = "processing"
  BY DEF ProcInv, TypeOK, AttemptTypeOK, RunningAttempt, InAttempt, HandleFailure
<1>2. status \in [Txns -> Statuses]
  BY DEF ProcInv, TypeOK, TxnTypeOK
<1>3. attempts' = attempts /\ \/ status' = [status EXCEPT ![t] = "pending"]
                              \/ status' = [status EXCEPT ![t] = "failed"]
  BY <1>1 DEF HandleFailure, Retry, Fail, MoveTo
<1>4. Ended("completed")' = Ended("completed")
  BY <1>1, <1>2, <1>3 DEF Ended
<1> QED BY <1>3, <1>4 DEF HandleFailure

\* Every other step: no outcome, and the attempts of what is completed stay.
LEMMA NothingEnds ==
  ASSUME ProcInv, Unjournaled \/ UNCHANGED reportVars
  PROVE  /\ Ended("completed")' = Ended("completed")
         /\ \A t \in Ended("completed") : attempts'[t] = attempts[t]
         /\ UNCHANGED <<errors, collectedFees, journal>>
<1>1. status \in [Txns -> Statuses] /\ attempts \in [Txns -> Nat]
  BY DEF ProcInv, TypeOK, TxnTypeOK
<1>2. ASSUME NEW t \in Txns, Process(t)
      PROVE  /\ Ended("completed")' = Ended("completed")
             /\ \A u \in Ended("completed") : attempts'[u] = attempts[u]
             /\ UNCHANGED <<errors, collectedFees>>
  <2>1. /\ status' = [status EXCEPT ![t] = "processing"] /\ status[t] = "pending"
        /\ attempts' = [attempts EXCEPT ![t] = @ + 1]
    BY <1>1, <1>2 DEF Process, Start, MoveTo, CanMove, TRANSITIONS, Statuses
  <2>2. Ended("completed")' = Ended("completed")
    BY <1>1, <2>1 DEF Ended
  <2> QED BY <1>1, <1>2, <2>1, <2>2 DEF Process, Ended
<1>3. ASSUME UNCHANGED <<status, attempts, errors, collectedFees>>
      PROVE  /\ Ended("completed")' = Ended("completed")
             /\ \A u \in Ended("completed") : attempts'[u] = attempts[u]
             /\ UNCHANGED <<errors, collectedFees>>
  BY <1>3 DEF Ended
<1>4. CASE CheckSender \/ CheckRecipient \/ ConvertBoth \/ Screen \/ DebitSender
           \/ CreditRecipient \/ RollBack \/ Return \/ Environment \/ ClockTick
           \/ UNCHANGED reportVars
  <2>1. UNCHANGED <<status, attempts, errors, collectedFees>>
    BY <1>4 DEF CheckSender, CheckRecipient, ConvertBoth, Screen, DebitSender, CreditRecipient,
                RollBack, Return, Environment, ClockTick, reportVars, procVars, txnVars
  <2>2. UNCHANGED journal
    BY DEF Unjournaled, reportVars
  <2> QED BY <1>3, <2>1, <2>2
<1>5. UNCHANGED journal
  BY DEF Unjournaled, reportVars
<1> QED BY <1>2, <1>3, <1>4, <1>5 DEF Unjournaled

LEMMA FeesStep ==
  ASSUME ProcInv, FeesCollected, [JournalNext]_reportVars
  PROVE  FeesCollected'
<1>1. /\ IsFiniteSet(Ended("completed")) /\ \A t \in Txns : TariffFee[t] \in Nat
      /\ IsFiniteSet(errors)
  <2>1. \A t \in Txns : TariffFee[t] \in Nat
    BY Parties DEF TariffFee
  <2>2. Ended("completed") \subseteq Txns
    BY DEF Ended
  <2> QED BY <2>1, <2>2, AmountAssumption, FS_Subset DEF FeesCollected
<1>2. ASSUME UNCHANGED <<Ended("completed"), errors, collectedFees>> PROVE FeesCollected'
  BY <1>2 DEF FeesCollected, TariffFee
<1>3. CASE CompleteAttempt
  <2>1. PICK S, t : S = Ended("completed") /\ t = cur
    OBVIOUS
  <2>2. /\ t \in Txns /\ t \notin S /\ Ended("completed")' = S \cup {t} /\ errors' = errors
        /\ collectedFees' = collectedFees + TariffFee[t] /\ S \subseteq Txns /\ IsFiniteSet(S)
    BY <1>1, <1>3, <2>1, CompletedOne DEF Ended
  <2>3. IsFiniteSet(S \cup {t}) /\ \A u \in S \cup {t} : TariffFee[u] \in Int
    BY <1>1, <2>2, FS_AddElement
  <2>4. SumFunctionOnSet(TariffFee, S \cup {t})
          = TariffFee[t] + SumFunctionOnSet(TariffFee, (S \cup {t}) \ {t})
    BY <2>3, SumWithout
  <2>5. (S \cup {t}) \ {t} = S
    BY <2>2
  <2>6. SumFunctionOnSet(TariffFee, S) = collectedFees
    BY <2>1 DEF FeesCollected
  <2>7. collectedFees \in Nat /\ TariffFee[t] \in Nat
    BY <1>1, <2>2 DEF ProcInv, TypeOK, LogTypeOK
  <2>8. collectedFees' = SumFunctionOnSet(TariffFee, Ended("completed")')
    <3>1. SumFunctionOnSet(TariffFee, S \cup {t}) = TariffFee[t] + collectedFees
      BY <2>4, <2>5, <2>6, Zenon
    <3>2. TariffFee[t] + collectedFees = collectedFees + TariffFee[t]
      BY <2>7
    <3> QED BY <2>2, <3>1, <3>2, Zenon
  <2> QED BY <1>1, <2>2, <2>8 DEF FeesCollected, TariffFee
<1>4. CASE HandleFailure
  <2>1. IsFiniteSet(errors')
    BY <1>1, <1>4, FailedOne, FS_AddElement
  <2> QED BY <1>4, <2>1, FailedOne DEF FeesCollected, TariffFee
<1>5. CASE Unjournaled \/ UNCHANGED reportVars
  BY <1>2, <1>5, NothingEnds
<1> QED BY <1>3, <1>4, <1>5 DEF JournalNext, JournalCompleted, JournalFailed

\* The journal follows what happens, unless the write fails.
LEMMA JournalStep ==
  ASSUME ProcInv, JournalTold, [JournalNext]_reportVars
  PROVE  JournalTold'
<1> DEFINE TheFailure(r) == [event |-> "failed", txn |-> r.txn, attempt |-> r.attempt,
                             error |-> r.error, willRetry |-> r.willRetry]
           TheEnd(t) == [event |-> "completed", txn |-> t, attempt |-> attempts[t],
                         error |-> "none", willRetry |-> FALSE]
<1>1. Outcomes = {TheFailure(r) : r \in errors} \cup {TheEnd(t) : t \in Ended("completed")}
  BY DEF Outcomes, Ended
<1>2. Outcomes' = {TheFailure(r) : r \in errors'} \cup {TheEnd(t)' : t \in Ended("completed")'}
  BY DEF Outcomes, Ended
<1>3. ~AuditMayFail => AuditWrites = {TRUE}
  BY DEF AuditWrites
<1>4. CASE JournalCompleted
  <2>1. Outcomes' = Outcomes \cup {Event("completed", "none", FALSE)}
    BY <1>1, <1>2, <1>4, CompletedOne DEF JournalCompleted, Event
  <2>2. PICK written \in AuditWrites : raised' = ~written
    BY <1>4 DEF JournalCompleted, CompleteAttempt
  <2>3. journal' = journal \/ journal' = journal \cup {Event("completed", "none", FALSE)}
    BY <1>4 DEF JournalCompleted
  <2>4. ASSUME ~AuditMayFail PROVE journal' = journal \cup {Event("completed", "none", FALSE)}
    <3>1. written = TRUE
      BY <1>3, <2>4
    <3>2. ~raised'
      BY <2>2, <3>1
    <3> QED BY <1>4, <3>2 DEF JournalCompleted
  <2> QED BY <2>1, <2>3, <2>4 DEF JournalTold
<1>5. CASE JournalFailed
  <2>1. Outcomes' = Outcomes \cup {Event("failed", err, WillRetry)}
    <3> DEFINE r == [txn |-> cur, attempt |-> attempts[cur], error |-> err, willRetry |-> WillRetry]
    <3>1. /\ errors' = errors \cup {r} /\ Ended("completed")' = Ended("completed")
          /\ attempts' = attempts
      BY <1>5, FailedOne DEF JournalFailed
    <3>2. TheFailure(r) = Event("failed", err, WillRetry)
      BY DEF Event
    <3> HIDE DEF r
    <3>3. {TheFailure(s) : s \in errors'} = {TheFailure(s) : s \in errors} \cup {TheFailure(r)}
      BY <3>1
    <3>4. {TheEnd(t)' : t \in Ended("completed")'} = {TheEnd(t) : t \in Ended("completed")}
      BY <3>1
    <3> QED BY <1>1, <1>2, <3>2, <3>3, <3>4
  <2>2. PICK written \in AuditWrites :
          journal' = IF written THEN journal \cup {Event("failed", err, WillRetry)} ELSE journal
    BY <1>5 DEF JournalFailed
  <2>3. journal' = journal \/ journal' = journal \cup {Event("failed", err, WillRetry)}
    BY <2>2
  <2>4. ASSUME ~AuditMayFail PROVE journal' = journal \cup {Event("failed", err, WillRetry)}
    <3>1. written = TRUE
      BY <1>3, <2>4
    <3> QED BY <2>2, <3>1
  <2> QED BY <2>1, <2>3, <2>4 DEF JournalTold
<1>6. CASE Unjournaled \/ UNCHANGED reportVars
  <2>1. Outcomes' = Outcomes
    BY <1>1, <1>2, <1>6, NothingEnds
  <2> QED BY <1>6, <2>1, NothingEnds DEF JournalTold
<1> QED BY <1>4, <1>5, <1>6 DEF JournalNext

LEMMA CountParts ==
  ASSUME NEW S, IsFiniteSet(S), NEW T \in SUBSET S
  PROVE  /\ IsFiniteSet(T) /\ Cardinality(T) \in Nat /\ Cardinality(S \ T) \in Nat
         /\ Cardinality(S) = Cardinality(T) + Cardinality(S \ T)
<1>1. S \cap T = T
  OBVIOUS
<1>2. IsFiniteSet(T) /\ IsFiniteSet(S \ T)
  BY FS_Subset
<1>3. Cardinality(S) \in Nat /\ Cardinality(T) \in Nat /\ Cardinality(S \ T) \in Nat
  BY <1>2, FS_CardinalityType
<1>4. Cardinality(S \ T) = Cardinality(S) - Cardinality(S \cap T)
  BY FS_Difference
<1> QED BY <1>1, <1>2, <1>3, <1>4

\* Between attempts the history is the transactions that ended.
LEMMA HistoryCounts ==
  ASSUME ProcInv, HistoryComplete, cur = NoTxn
  PROVE  /\ \A result \in {"completed", "failed"} : With(result) = Ended(result)
         /\ IsFiniteSet(Ended("completed")) /\ IsFiniteSet(Ended("failed"))
         /\ Len(finished) = Cardinality(Ended("completed")) + Cardinality(Ended("failed"))
<1>1. Finished = {t \in Txns : status[t] \in {"completed", "failed"}}
  BY DEF HistoryComplete, Finished
<1>2. \A result \in {"completed", "failed"} : With(result) = Ended(result)
  BY <1>1 DEF With, Ended
<1>3. IsFiniteSet(Finished)
  BY <1>1, AmountAssumption, FS_Subset
<1>4. Ended("completed") \in SUBSET Finished /\ Finished \ Ended("completed") = Ended("failed")
  BY <1>1 DEF Ended
<1>5. Cardinality(Finished) = Cardinality(Ended("completed")) + Cardinality(Ended("failed"))
  BY <1>3, <1>4, CountParts
<1>6. IsFiniteSet(Ended("completed")) /\ IsFiniteSet(Ended("failed"))
  BY <1>3, <1>4, FS_Subset
<1>7. Len(finished) = Cardinality(Finished)
  <2>1. Len(finished) \in Nat /\ DOMAIN finished = 1 .. Len(finished)
    BY DEF ProcInv, TypeOK, HistoryTypeOK
  <2>2. \A i, j \in 1 .. Len(finished) : finished[i] = finished[j] => i = j
    BY <2>1 DEF HistoryComplete
  <2>3. PICK n \in Nat : n = Len(finished)
    BY <2>1
  <2>4. IsFiniteSet(1 .. n) /\ Cardinality(1 .. n) = n
    BY FS_Interval
  <2>5. Cardinality({finished[i] : i \in 1 .. n}) = n
    BY <2>2, <2>3, <2>4, CountRenamed
  <2> QED BY <2>1, <2>3, <2>5 DEF Finished
<1> QED BY <1>2, <1>5, <1>6, <1>7

\* The amounts kept by id are those of the completed transactions: each of them
\* holds its id.
LEMMA VolumeCounts ==
  ASSUME ProcInv, HistoryComplete, cur = NoTxn
  PROVE  Volume = SumFunctionOnSet(Amount, Ended("completed"))
<1> DEFINE ids == {IdOf[t] : t \in With("completed")}
           latest(id) == CHOOSE i \in DOMAIN finished :
                           /\ IdOf[finished[i]] = id /\ finished[i] \in With("completed")
                           /\ \A j \in DOMAIN finished :
                                IdOf[finished[j]] = id /\ finished[j] \in With("completed") => j <= i
           byId == [id \in ids |-> Amount[finished[latest(id)]]]
<1>1. With("completed") = Ended("completed") /\ IsFiniteSet(Ended("completed"))
  BY HistoryCounts
<1>2. \A t \in Ended("completed") : t \in Txns /\ claimed[IdOf[t]] = t /\ \E i \in DOMAIN finished : finished[i] = t
  <2>1. \A t \in Txns : t # cur
    BY TransactionAssumption
  <2> QED BY <2>1 DEF Ended, ProcInv, OthersAtRest, AtRest, Holds, HistoryComplete
<1>3. ASSUME NEW t \in Ended("completed") PROVE byId[IdOf[t]] = Amount[t]
  <2>1. PICK i \in DOMAIN finished : finished[i] = t
    BY <1>2
  <2>2. \A j \in DOMAIN finished :
          IdOf[finished[j]] = IdOf[t] /\ finished[j] \in With("completed") => j = i
    BY <1>1, <1>2, <2>1 DEF HistoryComplete
  <2>3. i \in Nat /\ i <= i
    BY DEF ProcInv, TypeOK, HistoryTypeOK
  <2>4. latest(IdOf[t]) = i
    BY <1>1, <2>1, <2>2, <2>3
  <2>5. IdOf[t] \in ids
    BY <1>1
  <2> HIDE DEF latest
  <2> QED BY <2>1, <2>4, <2>5
<1>4. Volume = SumFunctionOnSet(byId, {IdOf[t] : t \in Ended("completed")})
  BY <1>1 DEF Volume
<1>5. /\ \A t \in Ended("completed") : Amount[t] \in Int
      /\ \A t, u \in Ended("completed") : IdOf[t] = IdOf[u] => t = u
  BY <1>2, AmountAssumption
<1> HIDE DEF byId
<1> QED BY <1>1, <1>3, <1>4, <1>5, SumRenamed

\* The failures no retry followed are those of the failed transactions.
LEMMA FailureCounts ==
  ASSUME ProcInv, ErrorsLogged, IsFiniteSet(errors)
  PROVE  Cardinality({r \in errors : ~r.willRetry}) = Cardinality(Ended("failed"))
<1> DEFINE S == {r \in errors : ~r.willRetry}
           f == [r \in S |-> r.txn]
<1>1. IsFiniteSet(S)
  BY FS_Subset
<1>2. TxnTypeOK /\ LogTypeOK
  BY DEF ProcInv, TypeOK
<1>3. ASSUME NEW r \in S
      PROVE  r.txn \in Txns /\ status[r.txn] = "failed" /\ r.attempt = Failures(r.txn)
  <2>1. r.txn \in Txns
    BY <1>2 DEF LogTypeOK
  <2> QED BY <2>1 DEF ErrorsLogged, LoggedSoFar
<1>4. \A r, s \in S : f[r] = f[s] => r = s
  <2> SUFFICES ASSUME NEW r \in S, NEW s \in S, r.txn = s.txn PROVE r = s
    OBVIOUS
  <2>1. r.attempt = s.attempt /\ r.txn \in Txns
    BY <1>3
  <2> QED BY <2>1 DEF ErrorsLogged, LoggedSoFar
<1>5. ASSUME NEW t \in Ended("failed") PROVE \E r \in S : f[r] = t
  <2>1. t \in Txns /\ status[t] = "failed" /\ Failures(t) = attempts[t] /\ attempts[t] \in Nat
    BY <1>2 DEF Ended, Failures, TxnTypeOK
  <2>2. attempts[t] \in 1 .. Failures(t)
    BY <2>1 DEF ErrorsLogged, Counted
  <2>3. PICK r \in errors : r.txn = t /\ r.attempt = Failures(t)
    BY <2>1, <2>2 DEF ErrorsLogged, LoggedSoFar
  <2>4. r \in S
    BY <2>1, <2>3 DEF ErrorsLogged, LoggedSoFar
  <2> QED BY <2>3, <2>4
<1>6. {f[r] : r \in S} = Ended("failed")
  <2>1. \A r \in S : f[r] \in Ended("failed")
    BY <1>3 DEF Ended
  <2> HIDE DEF f, S
  <2> QED BY <1>5, <2>1
<1> HIDE DEF f
<1> QED BY <1>1, <1>4, <1>6, CountRenamed

\* What the journal and the events missing from it come to, for the completed
\* transactions and for the failures no retry followed.
LEMMA JournalCounts ==
  ASSUME ProcInv, ErrorsLogged, JournalTold, IsFiniteSet(errors)
  PROVE  LET Told(kind) == {e \in journal : e.event = kind /\ ~e.willRetry}
             Lost(kind) == {e \in Outcomes \ journal : e.event = kind /\ ~e.willRetry} IN
         \A kind \in {"completed", "failed"} :
             Cardinality(Ended(kind)) = Cardinality(Told(kind)) + Cardinality(Lost(kind))
<1> DEFINE Events(kind) == {e \in Outcomes : e.event = kind /\ ~e.willRetry}
           Told(kind) == {e \in journal : e.event = kind /\ ~e.willRetry}
           Lost(kind) == {e \in Outcomes \ journal : e.event = kind /\ ~e.willRetry}
           final == {r \in errors : ~r.willRetry}
           TheFailure(r) == [event |-> "failed", txn |-> r.txn, attempt |-> r.attempt,
                             error |-> r.error, willRetry |-> r.willRetry]
           TheEnd(t) == [event |-> "completed", txn |-> t, attempt |-> attempts[t],
                         error |-> "none", willRetry |-> FALSE]
           failures == [r \in final |-> TheFailure(r)]
           ends == [t \in Ended("completed") |-> TheEnd(t)]
<1>1. IsFiniteSet(Ended("completed")) /\ IsFiniteSet(final)
  <2>1. Ended("completed") \subseteq Txns
    BY DEF Ended
  <2> QED BY <2>1, AmountAssumption, FS_Subset
<1>2. \A r \in errors : r \in [txn : Txns, attempt : Nat, error : ErrorKinds, willRetry : BOOLEAN]
  BY DEF ProcInv, TypeOK, LogTypeOK
<1>3. \A r, s \in errors : TheFailure(r) = TheFailure(s) => r = s
  BY <1>2
<1>4. \A t, u \in Ended("completed") : TheEnd(t) = TheEnd(u) => t = u
  OBVIOUS
<1>5. Outcomes = {TheFailure(r) : r \in errors} \cup {TheEnd(t) : t \in Ended("completed")}
  BY DEF Outcomes, Ended
<1>6. /\ \A r \in errors : TheFailure(r).event = "failed" /\ (TheFailure(r).willRetry <=> r.willRetry)
      /\ \A t \in Ended("completed") : TheEnd(t).event = "completed" /\ ~TheEnd(t).willRetry
  OBVIOUS
<1> HIDE DEF TheFailure, TheEnd
<1>7. Events("failed") = {failures[r] : r \in final}
  <2>1. \A r \in final : TheFailure(r) \in Events("failed") /\ failures[r] = TheFailure(r)
    BY <1>5, <1>6
  <2>2. ASSUME NEW e \in Events("failed") PROVE \E r \in final : e = TheFailure(r)
    <3>1. PICK r \in errors : e = TheFailure(r)
      BY <1>5, <1>6
    <3> QED BY <1>6, <3>1
  <2> HIDE DEF Events, final, failures
  <2> QED BY <2>1, <2>2
<1>8. Events("completed") = {ends[t] : t \in Ended("completed")}
  BY <1>5, <1>6
<1>9. /\ \A r, s \in final : failures[r] = failures[s] => r = s
      /\ \A t, u \in Ended("completed") : ends[t] = ends[u] => t = u
  BY <1>3, <1>4
<1> HIDE DEF failures, ends
<1>10. IsFiniteSet(Events("failed")) /\ Cardinality(Events("failed")) = Cardinality(Ended("failed"))
  <2>1. IsFiniteSet(Events("failed")) /\ Cardinality(Events("failed")) = Cardinality(final)
    BY <1>1, <1>7, <1>9, CountRenamed
  <2> QED BY <2>1, FailureCounts
<1>11. /\ IsFiniteSet(Events("completed"))
       /\ Cardinality(Events("completed")) = Cardinality(Ended("completed"))
  BY <1>1, <1>8, <1>9, CountRenamed
<1>12. ASSUME NEW kind \in {"completed", "failed"}
       PROVE  Cardinality(Ended(kind)) = Cardinality(Told(kind)) + Cardinality(Lost(kind))
  <2>1. IsFiniteSet(Events(kind)) /\ Cardinality(Events(kind)) = Cardinality(Ended(kind))
    BY <1>10, <1>11
  <2>2. Told(kind) \in SUBSET Events(kind) /\ Lost(kind) = Events(kind) \ Told(kind)
    BY DEF JournalTold
  <2> HIDE DEF Events, Told, Lost
  <2> QED BY <2>1, <2>2, CountParts
<1> QED BY <1>12

\* The two statistics tell one story.
THEOREM TheStatisticsAgree == JournalSpec => []StatisticsAgree
<1>1. JournalInit => FeesCollected /\ JournalTold
  <2> SUFFICES ASSUME JournalInit PROVE FeesCollected /\ JournalTold
    OBVIOUS
  <2>1. errors = {} /\ journal = {} /\ collectedFees = 0 /\ Ended("completed") = {}
    BY DEF JournalInit, ProcInit, TxnInit, Ended
  <2>2. Outcomes = {}
    BY <2>1 DEF Outcomes, Ended
  <2> QED BY <2>1, <2>2, SumOfNone, FS_EmptySet DEF FeesCollected, JournalTold
<1>2. ProcInv /\ FeesCollected /\ JournalTold /\ [JournalNext]_reportVars
        => (FeesCollected /\ JournalTold)'
  BY FeesStep, JournalStep
<1>3. ProcInv /\ HistoryComplete /\ ErrorsLogged /\ FeesCollected /\ JournalTold => StatisticsAgree
  <2> SUFFICES ASSUME ProcInv, HistoryComplete, ErrorsLogged, FeesCollected, JournalTold,
                      cur = NoTxn
               PROVE  LET statistics == TransactionStatistics
                          told == ErrorStatistics
                          lost == Outcomes \ journal
                          Lost(kind) == Cardinality({e \in lost : e.event = kind /\ ~e.willRetry})
                      IN  /\ statistics.tariffFees = collectedFees
                          /\ statistics.volume
                               = SumFunctionOnSet(Amount, {t \in Txns : status[t] = "completed"})
                          /\ journal \subseteq Outcomes
                          /\ ~AuditMayFail => lost = {}
                          /\ statistics.byStatus["completed"] = told.completed + Lost("completed")
                          /\ statistics.byStatus["failed"] = told.finalFailures + Lost("failed")
                          /\ statistics.finished
                               = statistics.byStatus["completed"] + statistics.byStatus["failed"]
    BY DEF StatisticsAgree
  <2> DEFINE Lost(kind) == Cardinality({e \in Outcomes \ journal : e.event = kind /\ ~e.willRetry})
             Told(kind) == Cardinality({e \in journal : e.event = kind /\ ~e.willRetry})
  <2>1. IsFiniteSet(errors)
    BY DEF FeesCollected
  <2>2. /\ With("completed") = Ended("completed") /\ With("failed") = Ended("failed")
        /\ Len(finished) = Cardinality(Ended("completed")) + Cardinality(Ended("failed"))
    BY HistoryCounts
  <2>3. TransactionStatistics.tariffFees = collectedFees
    BY <2>2 DEF TransactionStatistics, TariffFees, TariffFee, FeesCollected
  <2>4. TransactionStatistics.volume = SumFunctionOnSet(Amount, {t \in Txns : status[t] = "completed"})
    BY VolumeCounts DEF TransactionStatistics, Ended
  <2>5. /\ TransactionStatistics.byStatus["completed"] = Cardinality(Ended("completed"))
        /\ TransactionStatistics.byStatus["failed"] = Cardinality(Ended("failed"))
        /\ TransactionStatistics.finished = Len(finished)
    BY <2>2 DEF TransactionStatistics
  <2>6. /\ Cardinality(Ended("completed")) = Told("completed") + Lost("completed")
        /\ Cardinality(Ended("failed")) = Told("failed") + Lost("failed")
    BY <2>1, JournalCounts
  <2>7. ErrorStatistics.completed = Told("completed")
    <3>1. \A e \in journal : e.event = "completed" => ~e.willRetry
      BY DEF JournalTold, Outcomes
    <3>2. {e \in journal : e.event = "completed"}
            = {e \in journal : e.event = "completed" /\ ~e.willRetry}
      BY <3>1
    <3> QED BY <3>2 DEF ErrorStatistics
  <2>8. ErrorStatistics.finalFailures = Told("failed")
    <3>1. {e \in journal : e.event = "failed"} \ {e \in {f \in journal : f.event = "failed"} : e.willRetry}
            = {e \in journal : e.event = "failed" /\ ~e.willRetry}
      OBVIOUS
    <3> QED BY <3>1 DEF ErrorStatistics
  <2>9. journal \subseteq Outcomes /\ (~AuditMayFail => Outcomes \ journal = {})
    BY DEF JournalTold
  <2> HIDE DEF Told, Lost
  <2>10. /\ TransactionStatistics.byStatus["completed"] = ErrorStatistics.completed + Lost("completed")
         /\ TransactionStatistics.byStatus["failed"] = ErrorStatistics.finalFailures + Lost("failed")
         /\ TransactionStatistics.finished = TransactionStatistics.byStatus["completed"]
                                               + TransactionStatistics.byStatus["failed"]
    BY <2>2, <2>5, <2>6, <2>7, <2>8, Zenon
  <2> QED BY <2>3, <2>4, <2>9, <2>10 DEF Lost
<1>4. ProcInit => ErrorsLogged
  BY LogInit
<1>5. ProcInv /\ ErrorsLogged /\ [ProcNext]_procVars => ErrorsLogged'
  BY LogStep
<1> QED BY <1>1, <1>2, <1>3, <1>4, <1>5, InvariantHolds, HistoryIsComplete, JournalIsProcessor,
           PTL DEF ProcSpec, JournalSpec
================================================================================
