---------------------- MODULE TransactionProcessor_proofs ----------------------
(***************************************************************************)
(* Proofs about TransactionProcessor, for every value of its constants:    *)
(* the types, the invariant ProcInv, and what follows from it about where  *)
(* the money of a transaction is.  TransactionProcessor_promises goes on   *)
(* from here.                                                              *)
(***************************************************************************)
EXTENDS TransactionProcessor, FiniteSetTheorems, TLAPS

\* A power of two is a positive natural number (the number of subsets of 1..n):
\* the exponential delay of a retry lies in the future.
LEMMA PowerOfTwo == ASSUME NEW n \in Nat PROVE 2 ^ n \in Nat \ {0}
<1> DEFINE S == 1 .. n
<1>1. IsFiniteSet(S) /\ Cardinality(S) = n
  BY FS_Interval
<1>2. IsFiniteSet(SUBSET S) /\ Cardinality(SUBSET S) = 2 ^ n
  BY <1>1, FS_SUBSET
<1>3. Cardinality(SUBSET S) \in Nat
  BY <1>2, FS_CardinalityType
<1>4. SUBSET S # {}
  OBVIOUS
<1>5. Cardinality(SUBSET S) # 0
  BY <1>2, <1>4, FS_EmptySet
<1> QED BY <1>2, <1>3, <1>5

\* The accounts and the charge of a transaction, as far as it has them.
LEMMA Parties ==
  ASSUME NEW t \in Txns
  PROVE  /\ HasSender(t) => Sender[t] \in Accounts /\ OwnFee[Sender[t]] \in Nat
         /\ HasRecipient(t) => Recipient[t] \in Accounts
         /\ Charge[t] \in Nat
         /\ HasSender(t) => Charge[t] = Debit[t] + Fee[t] + OwnFee[Sender[t]]
         /\ Debit[t] \in Nat /\ Credit[t] \in Nat /\ Fee[t] \in Nat
         /\ IdOf[t] \in Ids
<1>1. HasSender(t) => Sender[t] \in Accounts /\ OwnFee[Sender[t]] \in Nat
  BY ProcessorAssumption
<1>2. Debit[t] \in Nat /\ Credit[t] \in Nat /\ Fee[t] \in Nat
  BY ProcessorAssumption
<1> QED BY <1>1, <1>2, ProcessorAssumption, TransactionAssumption DEF Charge

\* Keys of transactions with different ids are different.
LEMMA KeyFacts ==
  ASSUME NEW t \in Txns, NEW a \in Accounts
  PROVE  /\ Key(t, a) \in Keys
         /\ \A u \in Txns, b \in Accounts : IdOf[t] # IdOf[u] => Key(t, a) # Key(u, b)
  BY TransactionAssumption DEF Key, Keys

\* Recording a movement adds it to the tally of its key and to no other.
LEMMA RecordedFacts ==
  ASSUME NEW tally \in Tallies, NEW key \in Keys, NEW x \in Nat
  PROVE  /\ Recorded(tally, key, x) \in Tallies
         /\ Recorded(tally, key, x)[key].count = tally[key].count + 1
         /\ Recorded(tally, key, x)[key].total = tally[key].total + x
         /\ \A k \in Keys \ {key} : Recorded(tally, key, x)[k] = tally[k]
  BY DEF Recorded, Tallies

\* Recording a movement keeps the tallies of the history well typed.
LEMMA TallyType ==
  ASSUME NEW tally \in Tallies, NEW key \in Keys
  PROVE  tally[key].count \in Nat /\ tally[key].total \in Nat
  BY DEF Tallies

\* What the bank's checks can answer.
LEMMA CheckResults ==
  ASSUME NEW a
  PROVE  /\ \A incoming \in BOOLEAN : GuardError(a, incoming) \in ErrorKinds
         /\ OperationalError(a) \in ErrorKinds
         /\ \A x : WithdrawError(a, x) \in ErrorKinds /\ DepositError(a, x) \in ErrorKinds
<1>1. \A incoming \in BOOLEAN : GuardError(a, incoming) \in ErrorKinds
  BY DEF GuardError, ErrorKinds, BankErrors, FlaggedErrors
<1>2. OperationalError(a) \in ErrorKinds
  BY DEF OperationalError, ErrorKinds, BankErrors, FlaggedErrors
<1> QED BY <1>1, <1>2 DEF WithdrawError, DepositError, ErrorKinds, BankErrors,
                            RETRYABLE_ERRORS

\* The initial states are well typed.
LEMMA TypeInit == ProcInit => TypeOK
<1> SUFFICES ASSUME ProcInit PROVE TypeOK
  OBVIOUS
<1>1. NoMovements \in Tallies
  BY DEF NoMovements, Tallies
<1>2. TxnTypeOK
  BY TransactionAssumption
     DEF ProcInit, TxnInit, TxnTypeOK, Statuses, ErrorKinds
<1>3. now \in Nat
  BY ClockAssumption DEF ProcInit
<1>4. BankTypeOK
  BY ProcessorAssumption DEF ProcInit, BankTypeOK, AccountStatuses
<1>5. HistoryTypeOK
  BY <1>1 DEF ProcInit, HistoryTypeOK
<1>6. LogTypeOK
  BY DEF ProcInit, LogTypeOK
<1>7. pc = "idle" /\ cur = NoTxn /\ err = "none" /\ before = 0 /\ raised = FALSE
  BY DEF ProcInit
<1>8. "none" \in ErrorKinds /\ "idle" \in Steps
  BY DEF ErrorKinds, Steps
<1>9. AttemptTypeOK
  <2>1. before \in Int
    BY <1>7
  <2>2. raised \in BOOLEAN
    BY <1>7, Zenon
  <2> QED BY <1>7, <1>8, <2>1, <2>2, Zenon DEF AttemptTypeOK
<1> QED BY <1>2, <1>3, <1>4, <1>5, <1>6, <1>7, <1>9 DEF TypeOK

\* The moment of the next attempt is a slot.
LEMMA NextAttemptType ==
  ASSUME TypeOK, cur \in Txns
  PROVE  NextAttemptAt \in Nat /\ NextAttemptAt > now
<1>1. now \in Nat /\ attempts[cur] \in Nat \ {0} /\ cur # NoTxn
  BY TransactionAssumption DEF TypeOK, TxnTypeOK
<1>2. /\ DayLength \in Nat \ {0} /\ NightEnd \in Nat /\ RetryDelay \in Nat \ {0}
  BY ClockAssumption, ProcessorAssumption
<1>3. CASE err = "night" /\ IsNight(now)
  <2>1. now % DayLength \in 0 .. DayLength - 1 /\ now % DayLength <= now
    BY <1>1, <1>2
  <2> QED BY <1>1, <1>2, <1>3, <2>1 DEF NextAttemptAt, NightEndsAt, IsNight
<1>4. CASE ~(err = "night" /\ IsNight(now))
  <2> DEFINE k == 2 ^ (attempts[cur] - 1)
  <2>1. k \in Nat \ {0}
    BY <1>1, PowerOfTwo
  <2>2. RetryDelay * k \in Nat \ {0}
    <3> HIDE DEF k
    <3> QED BY <1>2, <2>1
  <2>3. NextAttemptAt = now + RetryDelay * k
    BY <1>4 DEF NextAttemptAt
  <2> HIDE DEF k
  <2> QED BY <1>1, <2>2, <2>3
<1> QED BY <1>3, <1>4


\* A part of the state that does not change keeps its type.
LEMMA Frame ==
  ASSUME TypeOK
  PROVE  /\ UNCHANGED txnVars => TxnTypeOK'
         /\ UNCHANGED bankVars => BankTypeOK'
         /\ UNCHANGED historyVars => HistoryTypeOK'
         /\ UNCHANGED <<errors, collectedFees>> => LogTypeOK'
         /\ UNCHANGED attemptVars => AttemptTypeOK'
<1>1. UNCHANGED txnVars => TxnTypeOK'
  BY DEF TypeOK, TxnTypeOK, txnVars
<1>2. UNCHANGED bankVars => BankTypeOK'
  BY DEF TypeOK, BankTypeOK, bankVars
<1>3. UNCHANGED historyVars => HistoryTypeOK'
  BY DEF TypeOK, HistoryTypeOK, historyVars
<1>4. UNCHANGED <<errors, collectedFees>> => LogTypeOK'
  BY DEF TypeOK, LogTypeOK
<1>5. UNCHANGED attemptVars => AttemptTypeOK'
  BY DEF TypeOK, AttemptTypeOK, attemptVars
<1> QED BY <1>1, <1>2, <1>3, <1>4, <1>5

\* However a step of an attempt ends, it leaves the attempt well typed and with
\* the same transaction.
LEMMA EndOfStep ==
  ASSUME AttemptTypeOK, cur \in Txns,
         NEW next \in Steps \ {"idle"}, NEW handler \in Steps \ {"idle"}
  PROVE  /\ Proceed(next) => AttemptTypeOK' /\ cur' = cur
         /\ \A e \in ErrorKinds :
               /\ Raise(e, handler) => AttemptTypeOK' /\ cur' = cur
               /\ Check(e, next, handler) => AttemptTypeOK' /\ cur' = cur
         /\ \A x : Review(x, next, handler) => AttemptTypeOK' /\ cur' = cur
<1>1. cur # NoTxn
  BY TransactionAssumption
<1>2. Proceed(next) => AttemptTypeOK' /\ cur' = cur
  BY <1>1 DEF Proceed, AttemptTypeOK
<1>3. ASSUME NEW e \in ErrorKinds, Raise(e, handler) PROVE AttemptTypeOK' /\ cur' = cur
  <2>1. err' \in ErrorKinds
    BY <1>3 DEF Raise, ErrorKinds
  <2> QED BY <1>1, <1>3, <2>1 DEF Raise, AttemptTypeOK
<1>4. "defect" \in ErrorKinds
  BY DEF ErrorKinds
<1> QED BY <1>2, <1>3, <1>4 DEF Check, Review

\* Every step of an attempt keeps the types: one lemma step per step of the code.
LEMMA AttemptKeepsType ==
  ASSUME TypeOK, Attempt
  PROVE  TypeOK'
<1>1. /\ TxnTypeOK /\ now \in Nat /\ BankTypeOK /\ HistoryTypeOK /\ LogTypeOK /\ AttemptTypeOK
      /\ cur # NoTxn => attempts[cur] > 0
  BY DEF TypeOK
<1>2. cur \in Txns
  BY <1>1 DEF AttemptTypeOK, Attempt, CheckSender, CheckRecipient, ConvertBoth, Screen,
         DebitSender, CreditRecipient, RollBack, CompleteAttempt, HandleFailure
<1>3. \A e \in {"sender", "recipient", "convert", "screen", "debit", "credit", "rollback",
                "complete", "failing", "returned"} : e \in Steps \ {"idle"}
  BY DEF Steps
<1>4. \A e \in {"none", "rounding", "risk", "refund", "defect"} : e \in ErrorKinds
  BY DEF ErrorKinds, BankErrors
<1>5. ASSUME UNCHANGED <<txnVars, now, bankVars, historyVars, errors, collectedFees>>,
             AttemptTypeOK', cur' = cur
      PROVE  TypeOK'
  BY <1>1, <1>5, Frame DEF TypeOK, txnVars
<1>6. CASE CheckSender
  BY <1>1, <1>2, <1>3, <1>4, <1>5, <1>6, CheckResults, EndOfStep DEF CheckSender
<1>7. CASE CheckRecipient
  BY <1>1, <1>2, <1>3, <1>4, <1>5, <1>7, CheckResults, EndOfStep DEF CheckRecipient
<1>8. CASE ConvertBoth
  BY <1>1, <1>2, <1>3, <1>4, <1>5, <1>8, EndOfStep DEF ConvertBoth
<1>9. CASE Screen
  <2>1. HasSender(cur) => balance[Sender[cur]] \in Int
    BY <1>1, <1>2, Parties DEF BankTypeOK
  <2> DEFINE e == GuardError(Initiator, ~HasSender(cur))
  <2>2. e \in ErrorKinds
    BY CheckResults DEF HasSender
  <2>3. CASE e # "none"
    BY <1>1, <1>2, <1>3, <1>5, <1>9, <2>2, <2>3, EndOfStep DEF Screen
  <2>4. CASE e = "none"
    <3>1. err' \in ErrorKinds /\ pc' \in {"debit", "failing"} /\ before' \in Int
          /\ UNCHANGED <<cur, raised>>
      BY <1>4, <1>9, <2>1, <2>4 DEF Screen
    <3>2. AttemptTypeOK'
      BY <1>1, <1>2, <1>3, <3>1, TransactionAssumption DEF AttemptTypeOK
    <3> QED BY <1>5, <1>9, <3>1, <3>2 DEF Screen
  <2> QED BY <2>3, <2>4
<1>10. CASE DebitSender
  <2> DEFINE a == Sender[cur]
             amount == Debit[cur] + Fee[cur]
             charge == amount + OwnFee[a]
  <2>1. UNCHANGED <<txnVars, now, accStatus, blocked, claimed, finished, refunds, deposits,
                   errors, collectedFees>>
    BY <1>10 DEF DebitSender
  <2>2. AttemptTypeOK' /\ cur' = cur
    BY <1>1, <1>2, <1>3, <1>10, CheckResults, EndOfStep DEF DebitSender
  <2>3. balance' \in [Accounts -> Int] /\ withdrawals' \in Tallies
    <3>1. CASE UNCHANGED <<balance, withdrawals>>
      BY <1>1, <3>1 DEF BankTypeOK, HistoryTypeOK
    <3>2. CASE /\ HasSender(cur)
               /\ balance' = [balance EXCEPT ![a] = @ - charge]
               /\ withdrawals' = Recorded(withdrawals, Key(cur, a), charge)
      <4>1. a \in Accounts /\ charge \in Nat /\ Key(cur, a) \in Keys
        BY <1>2, <3>2, Parties, KeyFacts
      <4> HIDE DEF charge, a
      <4> QED BY <1>1, <3>2, <4>1, RecordedFacts DEF BankTypeOK, HistoryTypeOK
    <3> QED BY <1>10, <3>1, <3>2 DEF DebitSender
  <2>4. BankTypeOK' /\ HistoryTypeOK'
    BY <1>1, <2>1, <2>3 DEF BankTypeOK, HistoryTypeOK
  <2> QED BY <1>1, <2>1, <2>2, <2>4, Frame DEF TypeOK, txnVars
<1>11. CASE CreditRecipient
  <2> DEFINE a == Recipient[cur]
  <2>1. UNCHANGED <<txnVars, now, accStatus, blocked, claimed, finished, withdrawals, refunds,
                   errors, collectedFees>>
    BY <1>11 DEF CreditRecipient
  <2>2. AttemptTypeOK' /\ cur' = cur
    BY <1>1, <1>2, <1>3, <1>11, CheckResults, EndOfStep DEF CreditRecipient
  <2>3. balance' \in [Accounts -> Int] /\ deposits' \in Tallies
    <3>1. CASE UNCHANGED <<balance, deposits>>
      BY <1>1, <3>1 DEF BankTypeOK, HistoryTypeOK
    <3>2. CASE /\ HasRecipient(cur)
               /\ balance' = [balance EXCEPT ![a] = @ + Credit[cur]]
               /\ deposits' = Recorded(deposits, Key(cur, a), Credit[cur])
      <4>1. a \in Accounts /\ Credit[cur] \in Nat /\ Key(cur, a) \in Keys
        BY <1>2, <3>2, Parties, KeyFacts
      <4> HIDE DEF a
      <4> QED BY <1>1, <3>2, <4>1, RecordedFacts DEF BankTypeOK, HistoryTypeOK
    <3> QED BY <1>11, <3>1, <3>2 DEF CreditRecipient
  <2>4. BankTypeOK' /\ HistoryTypeOK'
    BY <1>1, <2>1, <2>3 DEF BankTypeOK, HistoryTypeOK
  <2> QED BY <1>1, <2>1, <2>2, <2>4, Frame DEF TypeOK, txnVars
<1>12. CASE RollBack
  <2>1. UNCHANGED <<txnVars, now, accStatus, blocked, claimed, finished, withdrawals, deposits,
                   errors, collectedFees, cur, before, raised>>
    BY <1>12 DEF RollBack
  <2>2. AttemptTypeOK'
    BY <1>1, <1>2, <1>3, <1>4, <1>12, TransactionAssumption DEF RollBack, AttemptTypeOK
  <2>3. balance' \in [Accounts -> Int] /\ refunds' \in Tallies
    <3>1. CASE UNCHANGED <<balance, refunds>>
      BY <1>1, <3>1 DEF BankTypeOK, HistoryTypeOK
    <3>2. CASE /\ MustRefund
               /\ balance' = [balance EXCEPT ![Sender[cur]] = @ + Taken]
               /\ refunds' = Recorded(refunds, Key(cur, Sender[cur]), Taken)
      <4>1. HasSender(cur) /\ Taken > 0
        BY <3>2 DEF MustRefund, Taken
      <4>2. Sender[cur] \in Accounts /\ Key(cur, Sender[cur]) \in Keys
        BY <1>2, <4>1, Parties, KeyFacts
      <4>3. Taken \in Nat
        BY <1>1, <4>1, <4>2 DEF Taken, BankTypeOK, AttemptTypeOK
      <4> QED BY <1>1, <3>2, <4>2, <4>3, RecordedFacts DEF BankTypeOK, HistoryTypeOK
    <3> QED BY <1>12, <3>1, <3>2 DEF RollBack
  <2>4. BankTypeOK' /\ HistoryTypeOK'
    BY <1>1, <2>1, <2>3 DEF BankTypeOK, HistoryTypeOK
  <2> QED BY <1>1, <2>1, <2>2, <2>4, Frame DEF TypeOK, txnVars
<1>13. CASE CompleteAttempt
  <2>1. TxnTypeOK' /\ attempts' = attempts
    BY <1>1, <1>2, <1>4, <1>13 DEF CompleteAttempt, Complete, MoveTo, TxnTypeOK, Statuses
  <2>2. claimed' \in [Ids -> Txns \cup {NoTxn}] /\ finished' \in Seq(Txns)
    BY <1>1, <1>2, <1>13, TransactionAssumption DEF CompleteAttempt, Record, HistoryTypeOK
  <2>3. HistoryTypeOK'
    BY <1>1, <1>13, <2>2 DEF CompleteAttempt, HistoryTypeOK
  <2>4. collectedFees' \in Nat /\ errors' = errors
    BY <1>1, <1>2, <1>13, Parties DEF CompleteAttempt, LogTypeOK
  <2>5. AttemptTypeOK' /\ cur' = cur
    BY <1>1, <1>2, <1>3, <1>13, TransactionAssumption
       DEF CompleteAttempt, AttemptTypeOK, AuditWrites
  <2> QED BY <1>1, <1>13, <2>1, <2>3, <2>4, <2>5, Frame DEF TypeOK, CompleteAttempt, LogTypeOK
<1>14. CASE HandleFailure
  <2>1. NextAttemptAt \in Nat
    BY <1>2, NextAttemptType
  <2>2. TxnTypeOK' /\ attempts' = attempts
    BY <1>1, <1>2, <1>14, <2>1
       DEF HandleFailure, Retry, Fail, MoveTo, TxnTypeOK, Statuses, AttemptTypeOK
  <2>3. claimed' \in [Ids -> Txns \cup {NoTxn}] /\ finished' \in Seq(Txns)
    <3>1. claimed \in [Ids -> Txns \cup {NoTxn}] /\ finished \in Seq(Txns)
      BY <1>1 DEF HistoryTypeOK
    <3>2. CASE UNCHANGED <<claimed, finished>>
      BY <3>1, <3>2
    <3>3. CASE Record(cur)
      <4>1. claimed' = [claimed EXCEPT ![IdOf[cur]] = cur] /\ finished' = Append(finished, cur)
        BY <3>3 DEF Record
      <4>2. claimed' \in [Ids -> Txns \cup {NoTxn}]
        BY <1>2, <3>1, <4>1
      <4>3. finished' \in Seq(Txns)
        BY <1>2, <3>1, <4>1
      <4> QED BY <4>2, <4>3
    <3>4. CASE RecordDuplicate(cur)
      <4>1. claimed' = claimed /\ finished' = Append(finished, cur)
        BY <3>4 DEF RecordDuplicate
      <4> QED BY <1>2, <3>1, <4>1
    <3> QED BY <1>14, <3>2, <3>3, <3>4 DEF HandleFailure
  <2>4. HistoryTypeOK'
    BY <1>1, <1>14, <2>3 DEF HandleFailure, HistoryTypeOK
  <2>5. LogTypeOK'
    <3> DEFINE r == [txn |-> cur, attempt |-> attempts[cur], error |-> err,
                     willRetry |-> WillRetry]
    <3>1. attempts[cur] \in Nat /\ err \in ErrorKinds
      BY <1>1, <1>2 DEF TxnTypeOK, AttemptTypeOK
    <3>2. WillRetry \in BOOLEAN
      BY DEF WillRetry
    <3>3. r \in [txn : Txns, attempt : Nat, error : ErrorKinds, willRetry : BOOLEAN]
      BY <1>2, <3>1, <3>2
    <3>4. errors' = errors \cup {r} /\ collectedFees' = collectedFees
      BY <1>14 DEF HandleFailure
    <3> HIDE DEF r
    <3> QED BY <1>1, <3>3, <3>4 DEF LogTypeOK
  <2>6. AttemptTypeOK' /\ cur' = cur
    BY <1>1, <1>2, <1>3, <1>14, TransactionAssumption DEF HandleFailure, AttemptTypeOK
  <2> QED BY <1>1, <1>14, <2>2, <2>4, <2>5, <2>6, Frame DEF TypeOK, HandleFailure
<1> QED BY <1>6, <1>7, <1>8, <1>9, <1>10, <1>11, <1>12, <1>13, <1>14 DEF Attempt

\* process() keeps the types.
LEMMA ProcessKeepsType ==
  ASSUME TypeOK, NEW t \in Txns, Process(t)
  PROVE  TypeOK'
<1>1. /\ TxnTypeOK /\ now \in Nat /\ BankTypeOK /\ HistoryTypeOK /\ LogTypeOK /\ AttemptTypeOK
      /\ t # NoTxn
  BY TransactionAssumption DEF TypeOK
<1>2. TxnTypeOK' /\ attempts'[t] > 0
  BY <1>1 DEF Process, Start, MoveTo, TxnTypeOK, Statuses
<1>3. claimed' \in [Ids -> Txns \cup {NoTxn}]
  BY <1>1, TransactionAssumption DEF Process, HistoryTypeOK
<1>4. HistoryTypeOK'
  BY <1>1, <1>3 DEF Process, HistoryTypeOK
<1>5. /\ cur' = t /\ raised' = FALSE /\ before' = 0 /\ pc' \in {"sender", "failing"}
      /\ err' \in {"none", "duplicate"}
  BY DEF Process
<1>6. {"none", "duplicate"} \subseteq ErrorKinds /\ {"sender", "failing"} \subseteq Steps
  BY DEF ErrorKinds, BankErrors, Steps
<1>7. AttemptTypeOK'
  <2>1. before' \in Int
    BY <1>5
  <2>2. raised' \in BOOLEAN
    BY <1>5, Zenon
  <2>3. pc' \in Steps /\ err' \in ErrorKinds /\ pc' # "idle"
    BY <1>5, <1>6
  <2> QED BY <1>1, <1>5, <2>1, <2>2, <2>3, Zenon DEF AttemptTypeOK
<1>8. UNCHANGED <<now, bankVars, errors, collectedFees>>
  BY DEF Process
<1> QED BY <1>1, <1>2, <1>4, <1>5, <1>7, <1>8, Frame DEF TypeOK

\* Giving control back to the caller keeps the types.
LEMMA ReturnKeepsType ==
  ASSUME TypeOK, Return
  PROVE  TypeOK'
<1>1. /\ UNCHANGED <<txnVars, now, bankVars, historyVars, errors, collectedFees>>
      /\ pc' = "idle" /\ cur' = NoTxn /\ err' = "none" /\ before' = 0 /\ raised' = FALSE
  BY DEF Return
<1>2. "none" \in ErrorKinds /\ "idle" \in Steps
  BY DEF ErrorKinds, Steps
<1>3. AttemptTypeOK'
  <2>1. before' \in Int
    BY <1>1
  <2>2. raised' \in BOOLEAN
    BY <1>1, Zenon
  <2> QED BY <1>1, <1>2, <2>1, <2>2, Zenon DEF AttemptTypeOK
<1> QED BY <1>1, <1>3, Frame DEF TypeOK

\* What clients and staff do between attempts keeps the types.
LEMMA EnvironmentKeepsType ==
  ASSUME TypeOK, Environment
  PROVE  TypeOK'
<1>1. UNCHANGED <<txnVars, now, historyVars, errors, collectedFees, attemptVars>>
  BY DEF Environment
<1>2. BankTypeOK
  BY DEF TypeOK
<1>3. ASSUME NEW a \in Freezable, FreezeAccount(a) \/ UnfreezeAccount(a) \/ CloseAccount(a)
      PROVE  BankTypeOK'
  <2>1. a \in Accounts
    BY <1>3, ProcessorAssumption
  <2>2. accStatus' \in [Accounts -> AccountStatuses]
    BY <1>2, <1>3 DEF FreezeAccount, UnfreezeAccount, CloseAccount, SetStatus, BankTypeOK,
                      AccountStatuses
  <2>3. /\ balance' \in {balance, [balance EXCEPT ![a] = 0]}
        /\ blocked' = blocked
    BY <1>3 DEF FreezeAccount, UnfreezeAccount, CloseAccount
  <2>4. balance' \in [Accounts -> Int]
    BY <1>2, <2>3 DEF BankTypeOK
  <2> QED BY <1>2, <2>2, <2>3, <2>4 DEF BankTypeOK
<1>4. ASSUME NEW c \in Blockable, BlockClient(c) \/ UnblockClient(c)
      PROVE  BankTypeOK'
  BY <1>2, <1>4, ProcessorAssumption DEF BlockClient, UnblockClient, BankTypeOK
<1>5. ASSUME NEW a \in Accounts, NEW x \in CashAmounts, CashIn(a, x) \/ CashOut(a, x)
      PROVE  BankTypeOK'
  BY <1>2, <1>5, ProcessorAssumption DEF CashIn, CashOut, BankTypeOK
<1>6. BankTypeOK'
  BY <1>3, <1>4, <1>5 DEF Environment
<1> QED BY <1>1, <1>6, Frame DEF TypeOK, txnVars, attemptVars

\* TypeOK is inductive by itself.
LEMMA TypeStep == TypeOK /\ [ProcNext]_procVars => TypeOK'
<1> SUFFICES ASSUME TypeOK, [ProcNext]_procVars PROVE TypeOK'
  OBVIOUS
<1>1. CASE ClockTick
  BY <1>1, Frame DEF TypeOK, ClockTick, Tick, txnVars, attemptVars
<1>2. CASE UNCHANGED procVars
  BY <1>2, Frame DEF TypeOK, procVars, txnVars, attemptVars
<1> QED BY <1>1, <1>2, ProcessKeepsType, AttemptKeepsType, ReturnKeepsType, EnvironmentKeepsType
        DEF ProcNext

\* Every reachable state of the processor is well typed: in particular every
\* transaction has one of the statuses of TransactionStatus and a known error,
\* and the history's tallies count existing movements.
THEOREM TypeCorrect == ProcSpec => []TypeOK
<1> QED BY TypeInit, TypeStep, PTL DEF ProcSpec
-----------------------------------------------------------------------------
\* What NothingMoved, DebitOpen and AllMoved say about t depends only on the
\* movements recorded under the id of t.
LEMMA MoneyFrame ==
  ASSUME NEW t \in Txns,
         \A a \in Accounts : /\ withdrawals'[Key(t, a)] = withdrawals[Key(t, a)]
                             /\ refunds'[Key(t, a)] = refunds[Key(t, a)]
                             /\ deposits'[Key(t, a)] = deposits[Key(t, a)]
  PROVE  /\ NothingMoved(t)' <=> NothingMoved(t)
         /\ DebitOpen(t)' <=> DebitOpen(t)
         /\ AllMoved(t)' <=> AllMoved(t)
<1>1. HasSender(t) => UNCHANGED <<Debits(t), Refunds(t)>>
  BY Parties DEF Debits, Refunds
<1>2. HasRecipient(t) => UNCHANGED Credits(t)
  BY Parties DEF Credits
<1> QED BY <1>1, <1>2 DEF NothingMoved, DebitOpen, AllMoved, Debited

\* The movements under the id of u are the ones they were.
SameMovements(u) ==
    \A a \in Accounts : /\ withdrawals'[Key(u, a)] = withdrawals[Key(u, a)]
                        /\ refunds'[Key(u, a)] = refunds[Key(u, a)]
                        /\ deposits'[Key(u, a)] = deposits[Key(u, a)]

\* A transaction stays at rest while its status, its id and its money do.
LEMMA RestFrame ==
  ASSUME NEW u \in Txns, AtRest(u),
         status'[u] = status[u], reason'[u] = reason[u],
         Holds(u)' <=> Holds(u), Holds(u) => SameMovements(u)
  PROVE  AtRest(u)'
<1>1. Holds(u) => /\ NothingMoved(u)' <=> NothingMoved(u)
                  /\ AllMoved(u)' <=> AllMoved(u)
  BY MoneyFrame DEF SameMovements
<1> QED BY <1>1 DEF AtRest

\* A step of the attempt of t that keeps the claims and records movements, if
\* any, under the id of t only, disturbs no other transaction.
LEMMA AttemptFrame ==
  ASSUME ProcInv, NEW t \in Txns, cur = t, claimed' = claimed,
         \A u \in Txns \ {t} : status'[u] = status[u] /\ reason'[u] = reason[u],
         \A u \in Txns : IdOf[u] # IdOf[t] \/ ~Holds(t) => SameMovements(u)
  PROVE  /\ IdsHeld' /\ UnclaimedUnused'
         /\ \A u \in Txns \ {t} : AtRest(u)'
<1>1. IdsHeld'
  BY DEF ProcInv, IdsHeld
<1>2. UnclaimedUnused'
  BY TransactionAssumption DEF ProcInv, UnclaimedUnused, SameMovements, Holds
<1>3. ASSUME NEW u \in Txns \ {t} PROVE AtRest(u)'
  <2>1. Holds(u)' <=> Holds(u)
    BY DEF Holds
  <2>2. Holds(u) => SameMovements(u)
    BY DEF Holds
  <2>3. AtRest(u)
    BY DEF ProcInv, OthersAtRest
  <2> QED BY <2>1, <2>2, <2>3, RestFrame
<1> QED BY <1>1, <1>2, <1>3

\* An attempt that goes on or fails: what is left to show is InAttempt.
LEMMA AttemptGoesOn ==
  ASSUME ProcInv, NEW t \in Txns, cur = t, cur' = t, pc' # "returned", claimed' = claimed,
         \A u \in Txns \ {t} : status'[u] = status[u] /\ reason'[u] = reason[u],
         \A u \in Txns : IdOf[u] # IdOf[t] \/ ~Holds(t) => SameMovements(u),
         InAttempt(t)'
  PROVE  IdsHeld' /\ UnclaimedUnused' /\ OthersAtRest' /\ RunningAttempt'
BY AttemptFrame DEF OthersAtRest, RunningAttempt

\* The steps before any money moves.
LEMMA ChecksKeepInv ==
  ASSUME ProcInv, NEW t \in Txns, cur = t, cur' = t,
         pc \in {"sender", "recipient", "convert", "screen"},
         UNCHANGED <<txnVars, bankVars, historyVars>>,
         \/ pc' = "failing" /\ err' # "none"
         \/ pc' \in {"recipient", "convert"}
         \/ pc' = "screen" /\ (HasSender(t) => Debit[t] > 0)
         \/ /\ pc = "screen" /\ pc' = "debit"
            /\ HasSender(t) => before' = balance[Sender[t]]
  PROVE  IdsHeld' /\ UnclaimedUnused' /\ OthersAtRest' /\ RunningAttempt'
<1>1. InAttempt(t)
  BY DEF ProcInv, RunningAttempt
<1>2. \A u \in Txns : SameMovements(u)
  BY DEF SameMovements, historyVars
<1>3. NothingMoved(t)' /\ Holds(t)' /\ status'[t] = "processing"
  BY <1>1, <1>2, MoneyFrame DEF InAttempt, SameMovements, historyVars, txnVars, Holds
<1>4. InAttempt(t)'
  BY <1>1, <1>3 DEF InAttempt, bankVars
<1>5. /\ claimed' = claimed
      /\ \A u \in Txns \ {t} : status'[u] = status[u] /\ reason'[u] = reason[u]
  BY DEF historyVars, txnVars
<1> QED BY <1>2, <1>4, <1>5, AttemptGoesOn

\* How a step that may end in an error ends.
LEMMA EndOfCheck ==
  ASSUME NEW e, NEW next, NEW handler, Check(e, next, handler)
  PROVE  /\ UNCHANGED <<cur, before>>
         /\ \/ e = "none" /\ pc' = next
            \/ e # "none" /\ pc' = handler /\ err' # "none"
<1>1. CASE e = "none"
  BY <1>1 DEF Check, Proceed
<1>2. CASE e # "none"
  <2>1. Raise(e, handler)
    BY <1>2 DEF Check
  <2>2. PICK written \in AuditWrites :
          err' = IF e \in FlaggedErrors /\ ~written THEN "defect" ELSE e
    BY <2>1 DEF Raise
  <2>3. err' # "none"
    BY <1>2, <2>2
  <2> QED BY <1>2, <2>1, <2>3 DEF Raise
<1> QED BY <1>1, <1>2

\* The review of a large amount either lets the attempt go on or sends it to the handler.
LEMMA EndOfReview ==
  ASSUME NEW x, NEW next, NEW handler, Review(x, next, handler)
  PROVE  /\ UNCHANGED <<cur, before>>
         /\ pc' = next \/ (pc' = handler /\ err' = "defect")
<1>1. Proceed(next) \/ Raise("defect", handler)
  BY DEF Review
<1> QED BY <1>1 DEF Proceed, Raise

\* The steps before the debit move no money and keep the invariant.
LEMMA CheckStepsKeepInv ==
  ASSUME ProcInv, CheckSender \/ CheckRecipient \/ ConvertBoth \/ Screen
  PROVE  IdsHeld' /\ UnclaimedUnused' /\ OthersAtRest' /\ RunningAttempt'
<1>1. /\ cur \in Txns /\ pc \in {"sender", "recipient", "convert", "screen"}
      /\ UNCHANGED <<txnVars, bankVars, historyVars>>
  <2>1. pc \in {"sender", "recipient", "convert", "screen"}
    BY DEF CheckSender, CheckRecipient, ConvertBoth, Screen
  <2>2. cur \in Txns
    BY <2>1 DEF ProcInv, TypeOK, AttemptTypeOK
  <2> QED BY <2>1, <2>2 DEF CheckSender, CheckRecipient, ConvertBoth, Screen
<1>2. CASE CheckSender
  <2>1. cur' = cur /\ (pc' = "recipient" \/ (pc' = "failing" /\ err' # "none"))
    BY <1>2, EndOfCheck DEF CheckSender
  <2> QED BY <1>1, <2>1, ChecksKeepInv
<1>3. CASE CheckRecipient
  <2>1. cur' = cur /\ (pc' = "convert" \/ (pc' = "failing" /\ err' # "none"))
    BY <1>3, EndOfCheck DEF CheckRecipient
  <2> QED BY <1>1, <2>1, ChecksKeepInv
<1>4. CASE ConvertBoth
  <2>1. Debit[cur] \in Nat
    BY <1>1, Parties
  <2>2. /\ cur' = cur
        /\ \/ pc' = "screen" /\ (HasSender(cur) => Debit[cur] > 0)
           \/ pc' = "failing" /\ err' # "none"
    BY <1>4, <2>1 DEF ConvertBoth, Check, Proceed, Raise
  <2> QED BY <1>1, <2>2, ChecksKeepInv
<1>5. CASE Screen
  <2>1. /\ cur' = cur
        /\ \/ pc' = "failing" /\ err' # "none"
           \/ /\ pc = "screen" /\ pc' = "debit"
              /\ HasSender(cur) => before' = balance[Sender[cur]]
    BY <1>5 DEF Screen, Raise
  <2> QED BY <1>1, <2>1, ChecksKeepInv
<1> QED BY <1>2, <1>3, <1>4, <1>5

\* Movements recorded under the id of t leave those of the other ids alone.
LEMMA RecordedElsewhere ==
  ASSUME TypeOK, NEW t \in Txns, NEW a \in Accounts, NEW x \in Nat,
         NEW u \in Txns, IdOf[u] # IdOf[t], NEW b \in Accounts,
         NEW tally \in Tallies
  PROVE  Recorded(tally, Key(t, a), x)[Key(u, b)] = tally[Key(u, b)]
BY KeyFacts, RecordedFacts

\* The debit of the sender keeps the invariant: a debit is open, or all has moved.
LEMMA DebitKeepsInv ==
  ASSUME ProcInv, DebitSender
  PROVE  IdsHeld' /\ UnclaimedUnused' /\ OthersAtRest' /\ RunningAttempt'
<1>1. PICK t \in Txns : t = cur
  BY DEF ProcInv, TypeOK, AttemptTypeOK, DebitSender
<1>2. /\ pc = "debit" /\ NothingMoved(t) /\ Holds(t) /\ status[t] = "processing"
      /\ HasSender(t) => Debit[t] > 0 /\ before = balance[Sender[t]]
  BY <1>1 DEF ProcInv, RunningAttempt, InAttempt, DebitSender
<1>3. HasSender(t) \/ HasRecipient(t)
  BY TransactionAssumption DEF HasSender, HasRecipient, Types
<1>4. UNCHANGED <<txnVars, claimed, refunds, deposits>>
  BY DEF DebitSender
<1>5. Holds(t)' /\ status'[t] = "processing"
  BY <1>2, <1>4 DEF Holds, txnVars
<1>6. ASSUME pc' # "returned", cur' = t, InAttempt(t)',
             \A u \in Txns : IdOf[u] # IdOf[t] => SameMovements(u)
      PROVE  IdsHeld' /\ UnclaimedUnused' /\ OthersAtRest' /\ RunningAttempt'
  BY <1>1, <1>2, <1>4, <1>6, AttemptGoesOn DEF txnVars
<1>7. TypeOK
  BY DEF ProcInv
<1>8. CASE UNCHANGED <<balance, withdrawals>>
  <2>1. /\ cur' = t /\ before' = before
        /\ \/ ~HasSender(t) /\ pc' = "credit"
           \/ HasSender(t) /\ pc' = "rollback" /\ err' # "none"
    <3>1. CASE ~HasSender(t)
      BY <1>1, <3>1 DEF DebitSender, Proceed
    <3>2. CASE HasSender(t)
      <4> DEFINE a == Sender[t]
                 amount == Debit[t] + Fee[t]
                 charge == amount + OwnFee[a]
      <4>1. a \in Accounts /\ charge \in Nat \ {0} /\ balance[a] \in Int
        BY <1>2, <1>7, <3>2, Parties DEF TypeOK, BankTypeOK
      <4>2. balance \in [Accounts -> Int]
        BY <1>7 DEF TypeOK, BankTypeOK
      <4>3. ~ (balance' = [balance EXCEPT ![a] = @ - charge])
        <5> HIDE DEF charge, a
        <5> QED BY <1>8, <4>1, <4>2
      <4>4. WithdrawError(a, amount) # "none" /\ Raise(WithdrawError(a, amount), "rollback")
        BY <1>1, <3>2, <4>3 DEF DebitSender
      <4> QED BY <1>1, <3>2, <4>4 DEF Raise
    <3> QED BY <3>1, <3>2
  <2>2. \A u \in Txns : SameMovements(u)
    BY <1>4, <1>8 DEF SameMovements
  <2>3. NothingMoved(t)'
    BY <1>2, <2>2, MoneyFrame DEF SameMovements
  <2>4. HasSender(t) => Taken' = 0
    <3>1. HasSender(t) => Sender[t] \in Accounts
      BY Parties
    <3> QED BY <1>1, <1>2, <1>7, <1>8, <2>1, <3>1 DEF Taken, TypeOK, BankTypeOK
  <2>5. InAttempt(t)'
    BY <1>2, <1>3, <1>5, <2>1, <2>3, <2>4 DEF InAttempt
  <2> QED BY <1>6, <2>1, <2>2, <2>5
<1>9. CASE /\ HasSender(t)
           /\ balance' = [balance EXCEPT ![Sender[t]] = @ - Charge[t]]
           /\ withdrawals' = Recorded(withdrawals, Key(t, Sender[t]), Charge[t])
           /\ Review(Charge[t], "credit", "rollback")
  <2>1. /\ cur' = t /\ before' = before
        /\ pc' = "credit" \/ (pc' = "rollback" /\ err' = "defect")
    BY <1>1, <1>9, EndOfReview
  <2>2. /\ Sender[t] \in Accounts /\ Charge[t] \in Nat /\ Charge[t] > 0
        /\ balance \in [Accounts -> Int] /\ withdrawals \in Tallies
    BY <1>2, <1>7, <1>9, Parties DEF TypeOK, BankTypeOK, HistoryTypeOK
  <2>3. Taken' = Charge[t]
    BY <1>1, <1>2, <1>9, <2>1, <2>2 DEF Taken
  <2>4. \A u \in Txns : IdOf[u] # IdOf[t] => SameMovements(u)
    BY <1>4, <1>7, <1>9, <2>2, RecordedElsewhere DEF SameMovements
  <2>5. /\ Debits(t)'.count = Debits(t).count + 1
        /\ Debits(t)'.total = Debits(t).total + Charge[t]
        /\ Refunds(t)' = Refunds(t) /\ Credits(t)' = Credits(t)
    BY <1>4, <1>9, <2>2, KeyFacts, RecordedFacts DEF Debits, Refunds, Credits
  <2>6. /\ HasRecipient(t) => DebitOpen(t)'
        /\ ~HasRecipient(t) => AllMoved(t)'
    BY <1>2, <1>9, <2>5 DEF NothingMoved, DebitOpen, AllMoved, Debited
  <2>7. InAttempt(t)'
    BY <1>2, <1>5, <1>9, <2>1, <2>3, <2>6 DEF InAttempt
  <2> QED BY <1>6, <2>1, <2>4, <2>7
<1> QED BY <1>1, <1>8, <1>9, Parties DEF DebitSender

\* The credit of the recipient keeps the invariant: it settles the debit.
LEMMA CreditKeepsInv ==
  ASSUME ProcInv, CreditRecipient
  PROVE  IdsHeld' /\ UnclaimedUnused' /\ OthersAtRest' /\ RunningAttempt'
<1>1. PICK t \in Txns : t = cur
  BY DEF ProcInv, TypeOK, AttemptTypeOK, CreditRecipient
<1>2. /\ pc = "credit" /\ Holds(t) /\ status[t] = "processing"
      /\ HasSender(t) => Debit[t] > 0 /\ Taken = Charge[t]
      /\ HasSender(t) /\ HasRecipient(t) => DebitOpen(t)
      /\ ~HasSender(t) => NothingMoved(t)
      /\ ~HasRecipient(t) => AllMoved(t)
  BY <1>1 DEF ProcInv, RunningAttempt, InAttempt, CreditRecipient
<1>3. UNCHANGED <<txnVars, claimed, refunds, withdrawals>>
  BY DEF CreditRecipient
<1>4. Holds(t)' /\ status'[t] = "processing"
  BY <1>2, <1>3 DEF Holds, txnVars
<1>5. ASSUME pc' # "returned", cur' = t, InAttempt(t)',
             \A u \in Txns : IdOf[u] # IdOf[t] => SameMovements(u)
      PROVE  IdsHeld' /\ UnclaimedUnused' /\ OthersAtRest' /\ RunningAttempt'
  BY <1>1, <1>2, <1>3, <1>5, AttemptGoesOn DEF txnVars
<1>6. TypeOK
  BY DEF ProcInv
<1>7. CASE ~HasRecipient(t)
  <2>1. pc' = "complete" /\ cur' = t /\ deposits' = deposits
    BY <1>1, <1>7 DEF CreditRecipient, Proceed
  <2>2. \A u \in Txns : SameMovements(u)
    BY <1>3, <2>1 DEF SameMovements
  <2>3. AllMoved(t)'
    BY <1>2, <1>7, <2>2, MoneyFrame DEF SameMovements
  <2>4. InAttempt(t)'
    BY <1>4, <2>1, <2>3 DEF InAttempt
  <2> QED BY <1>5, <2>1, <2>2, <2>4
<1>8. CASE HasRecipient(t) /\ DepositError(Recipient[t], Credit[t]) # "none"
  <2> DEFINE e == DepositError(Recipient[t], Credit[t])
  <2>1. Raise(e, "rollback") /\ UNCHANGED <<balance, deposits>>
    BY <1>1, <1>8 DEF CreditRecipient, Review, Proceed, Raise
  <2>2. pc' = "rollback" /\ cur' = t /\ before' = before /\ err' # "none"
    BY <1>1, <1>8, <2>1 DEF Raise
  <2>3. \A u \in Txns : SameMovements(u)
    BY <1>3, <2>1 DEF SameMovements
  <2>4. /\ NothingMoved(t)' <=> NothingMoved(t)
        /\ DebitOpen(t)' <=> DebitOpen(t)
    BY <2>3, MoneyFrame DEF SameMovements
  <2>5. Taken' = Taken /\ (~HasSender(t) => Taken = 0)
    BY <1>1, <2>1, <2>2 DEF Taken
  <2>6. InAttempt(t)'
    BY <1>2, <1>4, <1>8, <2>2, <2>4, <2>5 DEF InAttempt
  <2> QED BY <1>5, <2>2, <2>3, <2>6
<1>9. CASE HasRecipient(t) /\ DepositError(Recipient[t], Credit[t]) = "none"
  <2>1. /\ deposits' = Recorded(deposits, Key(t, Recipient[t]), Credit[t])
        /\ Review(Credit[t], "complete", "rollback")
    BY <1>1, <1>9 DEF CreditRecipient
  <2>2. /\ cur' = t
        /\ pc' = "complete" \/ (pc' = "rollback" /\ err' = "defect")
    BY <1>1, <2>1, EndOfReview
  <2>3. Recipient[t] \in Accounts /\ Credit[t] \in Nat /\ deposits \in Tallies
    BY <1>6, <1>9, Parties DEF TypeOK, HistoryTypeOK
  <2>4. \A u \in Txns : IdOf[u] # IdOf[t] => SameMovements(u)
    BY <1>3, <1>6, <2>1, <2>3, RecordedElsewhere DEF SameMovements
  <2>5. /\ Credits(t)'.count = Credits(t).count + 1
        /\ Debits(t)' = Debits(t) /\ Refunds(t)' = Refunds(t)
    BY <1>3, <2>1, <2>3, KeyFacts, RecordedFacts DEF Debits, Refunds, Credits
  <2>6. AllMoved(t)'
    BY <1>2, <1>9, <2>5 DEF NothingMoved, DebitOpen, AllMoved, Debited
  <2>7. InAttempt(t)'
    BY <1>2, <1>4, <2>2, <2>6 DEF InAttempt
  <2> QED BY <1>5, <2>2, <2>4, <2>7
<1> QED BY <1>7, <1>8, <1>9

\* The refund of a rollback is never refused: the money is put back exactly
\* when it is open.
LEMMA RollbackAllowed ==
  ASSUME ProcInv, NEW t \in Txns, t = cur, pc = "rollback"
  PROVE  /\ DebitOpen(t) => Taken = Charge[t] /\ MustRefund /\ RefundAllowed(t, Sender[t], Taken)
         /\ ~DebitOpen(t) => ~MustRefund
<1>1. InAttempt(t) /\ Holds(t) /\ status[t] = "processing"
  BY DEF ProcInv, RunningAttempt, InAttempt
<1>2. TypeOK /\ t # NoTxn
  BY TransactionAssumption DEF ProcInv
<1>3. /\ HasSender(t) => /\ Debit[t] > 0 /\ Charge[t] > 0
                         /\ Debits(t).count \in Nat /\ Debits(t).total \in Nat
                         /\ Refunds(t).count \in Nat /\ Refunds(t).total \in Nat
      /\ HasRecipient(t) => Credits(t).count \in Nat
      /\ Charge[t] \in Nat
  <2>1. withdrawals \in Tallies /\ refunds \in Tallies /\ deposits \in Tallies
    BY <1>2 DEF TypeOK, HistoryTypeOK
  <2>2. HasSender(t) => /\ Debits(t).count \in Nat /\ Debits(t).total \in Nat
                        /\ Refunds(t).count \in Nat /\ Refunds(t).total \in Nat
    BY <2>1, Parties, KeyFacts, TallyType DEF Debits, Refunds
  <2>3. HasRecipient(t) => Credits(t).count \in Nat
    BY <2>1, Parties, KeyFacts, TallyType DEF Credits
  <2>4. HasSender(t) => Debit[t] > 0 /\ Charge[t] > 0
    BY <1>1, Parties DEF InAttempt
  <2> QED BY <2>2, <2>3, <2>4, Parties
<1>4. CASE DebitOpen(t)
  <2>1. HasSender(t) /\ HasRecipient(t) /\ Debited(t) /\ Credits(t).count = 0
    BY <1>4 DEF DebitOpen
  <2>2. Taken = Charge[t]
    BY <1>1, <1>3, <2>1 DEF InAttempt, NothingMoved, AllMoved, Debited
  <2>3. MustRefund
    BY <1>3, <2>1, <2>2 DEF MustRefund, Credited, Credits
  <2>4. RefundAllowed(t, Sender[t], Taken)
    BY <1>1, <1>2, <1>3, <2>1, <2>2 DEF RefundAllowed, Debited, Debits, Refunds, Holds
  <2> QED BY <1>4, <2>2, <2>3, <2>4
<1>5. CASE ~DebitOpen(t)
  <2>1. Taken = 0 \/ AllMoved(t)
    BY <1>1, <1>5 DEF InAttempt
  <2> QED BY <1>5, <2>1 DEF MustRefund, Credited, Credits, AllMoved
<1> QED BY <1>4, <1>5

\* The rollback keeps the invariant: an open debit is refunded in full.
LEMMA RollBackKeepsInv ==
  ASSUME ProcInv, RollBack
  PROVE  IdsHeld' /\ UnclaimedUnused' /\ OthersAtRest' /\ RunningAttempt'
<1>1. PICK t \in Txns : t = cur
  BY DEF ProcInv, TypeOK, AttemptTypeOK, RollBack
<1>2. /\ pc = "rollback" /\ InAttempt(t) /\ Holds(t) /\ status[t] = "processing"
      /\ err # "none"
  BY <1>1 DEF ProcInv, RunningAttempt, InAttempt, RollBack
<1>3. /\ UNCHANGED <<txnVars, claimed, withdrawals, deposits>>
      /\ pc' = "failing" /\ cur' = t
  BY <1>1 DEF RollBack
<1>4. Holds(t)' /\ status'[t] = "processing"
  BY <1>2, <1>3 DEF Holds, txnVars
<1>5. ASSUME InAttempt(t)', \A u \in Txns : IdOf[u] # IdOf[t] => SameMovements(u)
      PROVE  IdsHeld' /\ UnclaimedUnused' /\ OthersAtRest' /\ RunningAttempt'
  BY <1>1, <1>2, <1>3, <1>5, AttemptGoesOn DEF txnVars
<1>6. CASE DebitOpen(t)
  <2>1. /\ Taken = Charge[t] /\ HasSender(t) /\ HasRecipient(t) /\ Debited(t)
        /\ Credits(t).count = 0
        /\ refunds' = Recorded(refunds, Key(t, Sender[t]), Charge[t])
        /\ err' = err
    BY <1>1, <1>2, <1>6, RollbackAllowed DEF RollBack, DebitOpen
  <2>2. Sender[t] \in Accounts /\ Charge[t] \in Nat /\ refunds \in Tallies /\ TypeOK
    BY <2>1, Parties DEF ProcInv, TypeOK, HistoryTypeOK
  <2>3. \A u \in Txns : IdOf[u] # IdOf[t] => SameMovements(u)
    BY <1>3, <2>1, <2>2, RecordedElsewhere DEF SameMovements
  <2>4. /\ Refunds(t)'.count = Refunds(t).count + 1
        /\ Refunds(t)'.total = Refunds(t).total + Charge[t]
        /\ Debits(t)' = Debits(t) /\ Credits(t)' = Credits(t)
    BY <1>3, <2>1, <2>2, KeyFacts, RecordedFacts DEF Debits, Refunds, Credits
  <2>5. NothingMoved(t)'
    BY <2>1, <2>4 DEF NothingMoved, Debited
  <2>6. InAttempt(t)'
    BY <1>2, <1>3, <1>4, <2>1, <2>5 DEF InAttempt
  <2> QED BY <1>5, <2>3, <2>6
<1>7. CASE ~DebitOpen(t)
  <2>1. refunds' = refunds /\ err' = err
    BY <1>1, <1>2, <1>7, RollbackAllowed DEF RollBack
  <2>2. \A u \in Txns : SameMovements(u)
    BY <1>3, <2>1 DEF SameMovements
  <2>3. /\ NothingMoved(t)' <=> NothingMoved(t)
        /\ AllMoved(t)' <=> AllMoved(t)
    BY <2>2, MoneyFrame DEF SameMovements
  <2>4. NothingMoved(t) \/ (AllMoved(t) /\ err = "defect")
    BY <1>2, <1>7 DEF InAttempt
  <2>5. InAttempt(t)'
    BY <1>2, <1>3, <1>4, <2>1, <2>3, <2>4 DEF InAttempt
  <2> QED BY <1>5, <2>2, <2>5
<1> QED BY <1>6, <1>7

\* The last step of an attempt leaves its transaction at rest.
LEMMA AttemptEnds ==
  ASSUME ProcInv, NEW t \in Txns, cur = t, cur' = t, pc' = "returned", claimed' = claimed,
         UNCHANGED <<withdrawals, refunds, deposits>>,
         \A u \in Txns \ {t} : status'[u] = status[u] /\ reason'[u] = reason[u],
         AtRest(t)'
  PROVE  IdsHeld' /\ UnclaimedUnused' /\ OthersAtRest' /\ RunningAttempt'
<1>1. \A u \in Txns : SameMovements(u)
  BY DEF SameMovements
<1> QED BY <1>1, AttemptFrame DEF OthersAtRest, RunningAttempt

\* The end of an attempt leaves every id with the transaction that holds it.
LEMMA ClaimsKept ==
  ASSUME ProcInv, CompleteAttempt \/ HandleFailure
  PROVE  claimed' = claimed
<1>1. PICK t \in Txns : t = cur
  BY DEF ProcInv, TypeOK, AttemptTypeOK, CompleteAttempt, HandleFailure
<1>2. IdOf[t] \in Ids /\ claimed \in [Ids -> Txns \cup {NoTxn}]
  BY Parties DEF ProcInv, TypeOK, HistoryTypeOK
<1>3. pc \in {"complete", "failing"} /\ InAttempt(t)
  BY <1>1 DEF ProcInv, RunningAttempt, CompleteAttempt, HandleFailure
<1>4. Holds(t) \/ (err = "duplicate" /\ pc = "failing")
  BY <1>3 DEF InAttempt
<1>5. ASSUME Holds(t), Record(t) PROVE claimed' = claimed
  BY <1>2, <1>5 DEF Record, Holds
<1>6. CASE CompleteAttempt
  BY <1>1, <1>4, <1>5, <1>6 DEF CompleteAttempt
<1>7. CASE HandleFailure
  BY <1>1, <1>4, <1>5, <1>7 DEF HandleFailure, RecordDuplicate
<1> QED BY <1>6, <1>7

\* A completed attempt leaves its transaction at rest, its money moved.
LEMMA CompleteKeepsInv ==
  ASSUME ProcInv, CompleteAttempt
  PROVE  IdsHeld' /\ UnclaimedUnused' /\ OthersAtRest' /\ RunningAttempt'
<1>1. PICK t \in Txns : t = cur
  BY DEF ProcInv, TypeOK, AttemptTypeOK, CompleteAttempt
<1>2. pc = "complete" /\ AllMoved(t) /\ Holds(t)
  BY <1>1 DEF ProcInv, RunningAttempt, InAttempt, CompleteAttempt
<1>3. UNCHANGED <<withdrawals, refunds, deposits>> /\ pc' = "returned" /\ cur' = t
  BY <1>1 DEF CompleteAttempt
<1>4. TypeOK /\ IdOf[t] \in Ids
  BY Parties DEF ProcInv
<1>5. claimed' = claimed
  BY ClaimsKept
<1>6. /\ status'[t] = "completed"
      /\ \A u \in Txns \ {t} : status'[u] = status[u] /\ reason'[u] = reason[u]
  BY <1>1, <1>4 DEF CompleteAttempt, Complete, MoveTo, TypeOK, TxnTypeOK
<1>7. AllMoved(t)' /\ Holds(t)'
  BY <1>2, <1>3, <1>5, MoneyFrame DEF Holds
<1>8. AtRest(t)'
  BY <1>6, <1>7 DEF AtRest
<1> QED BY <1>1, <1>3, <1>5, <1>6, <1>8, AttemptEnds

\* A failed attempt leaves its transaction at rest, retried or not.
LEMMA FailureKeepsInv ==
  ASSUME ProcInv, HandleFailure
  PROVE  IdsHeld' /\ UnclaimedUnused' /\ OthersAtRest' /\ RunningAttempt'
<1>1. PICK t \in Txns : t = cur
  BY DEF ProcInv, TypeOK, AttemptTypeOK, HandleFailure
<1>2. /\ pc = "failing"
      /\ Holds(t) => NothingMoved(t) \/ (AllMoved(t) /\ err = "defect")
      /\ ~Holds(t) => err = "duplicate"
  BY <1>1 DEF ProcInv, RunningAttempt, InAttempt, HandleFailure
<1>3. UNCHANGED <<withdrawals, refunds, deposits>> /\ pc' = "returned" /\ cur' = t
  BY <1>1 DEF HandleFailure
<1>4. TypeOK /\ IdOf[t] \in Ids
  BY Parties DEF ProcInv
<1>5. claimed' = claimed
  BY ClaimsKept
<1>6. /\ \/ status'[t] = "pending" /\ err \in RETRYABLE_ERRORS
         \/ status'[t] = "failed" /\ reason'[t] = err
      /\ \A u \in Txns \ {t} : status'[u] = status[u] /\ reason'[u] = reason[u]
  BY <1>1, <1>4 DEF HandleFailure, WillRetry, Retry, Fail, MoveTo, TypeOK, TxnTypeOK
<1>7. /\ AllMoved(t)' <=> AllMoved(t)
      /\ NothingMoved(t)' <=> NothingMoved(t)
      /\ Holds(t)' <=> Holds(t)
  BY <1>3, <1>5, MoneyFrame DEF Holds
<1>8. AtRest(t)'
  BY <1>2, <1>6, <1>7 DEF AtRest, RETRYABLE_ERRORS
<1> QED BY <1>1, <1>3, <1>5, <1>6, <1>8, AttemptEnds

\* A new attempt starts with nothing moved under the id it holds, or is refused.
LEMMA ProcessKeepsInv ==
  ASSUME ProcInv, NEW t \in Txns, Process(t)
  PROVE  IdsHeld' /\ UnclaimedUnused' /\ OthersAtRest' /\ RunningAttempt'
<1>1. TypeOK /\ cur = NoTxn /\ t # NoTxn /\ IdOf[t] \in Ids
      /\ claimed \in [Ids -> Txns \cup {NoTxn}]
  BY TransactionAssumption, Parties DEF ProcInv, TypeOK, AttemptTypeOK, HistoryTypeOK, Process
<1>2. \A u \in Txns : AtRest(u)
  BY <1>1, TransactionAssumption DEF ProcInv, OthersAtRest
<1>3. /\ status[t] = "pending" /\ status'[t] = "processing"
      /\ \A u \in Txns \ {t} : status'[u] = status[u] /\ reason'[u] = reason[u]
  BY <1>1 DEF Process, Start, MoveTo, CanMove, TRANSITIONS, TypeOK, TxnTypeOK, Statuses
<1>4. /\ UNCHANGED <<withdrawals, refunds, deposits>> /\ cur' = t
      /\ \/ /\ claimed[IdOf[t]] \in {NoTxn, t}
            /\ claimed' = [claimed EXCEPT ![IdOf[t]] = t]
            /\ pc' = "sender"
         \/ /\ claimed[IdOf[t]] \notin {NoTxn, t}
            /\ claimed' = claimed /\ pc' = "failing" /\ err' = "duplicate"
  BY DEF Process
<1>5. \A u \in Txns : SameMovements(u)
  BY <1>4 DEF SameMovements
<1>6. IdsHeld'
  BY <1>1, <1>4 DEF ProcInv, IdsHeld
<1>7. UnclaimedUnused'
  BY <1>1, <1>4, TransactionAssumption DEF ProcInv, UnclaimedUnused
<1>8. OthersAtRest'
  <2>1. ASSUME NEW u \in Txns, u # t PROVE AtRest(u)'
    <3>1. Holds(u)' <=> Holds(u)
      BY <1>1, <1>4, <2>1, TransactionAssumption DEF Holds
    <3> QED BY <1>2, <1>3, <1>5, <2>1, <3>1, RestFrame
  <2> QED BY <1>4, <2>1 DEF OthersAtRest
<1>9. InAttempt(t)'
  <2>1. CASE claimed[IdOf[t]] \in {NoTxn, t}
    <3>1. Holds(t)' /\ pc' = "sender"
      BY <1>1, <1>4, <2>1 DEF Holds
    <3>2. NothingMoved(t)
      <4>1. CASE claimed[IdOf[t]] = NoTxn
        <5>1. /\ HasSender(t) => /\ Debits(t) = [count |-> 0, total |-> 0]
                                 /\ Refunds(t) = [count |-> 0, total |-> 0]
              /\ HasRecipient(t) => Credits(t) = [count |-> 0, total |-> 0]
          BY <4>1, Parties DEF ProcInv, UnclaimedUnused, Debits, Refunds, Credits
        <5> QED BY <5>1 DEF NothingMoved
      <4>2. CASE claimed[IdOf[t]] = t
        BY <1>2, <1>3, <4>2 DEF AtRest, Holds
      <4> QED BY <2>1, <4>1, <4>2
    <3>3. NothingMoved(t)'
      BY <1>5, <3>2, MoneyFrame DEF SameMovements
    <3> QED BY <1>3, <3>1, <3>3 DEF InAttempt
  <2>2. CASE claimed[IdOf[t]] \notin {NoTxn, t}
    <3>1. ~Holds(t)' /\ pc' = "failing" /\ err' = "duplicate"
      BY <1>4, <2>2 DEF Holds
    <3> QED BY <1>3, <3>1 DEF InAttempt
  <2> QED BY <2>1, <2>2
<1> QED BY <1>4, <1>6, <1>7, <1>8, <1>9 DEF RunningAttempt

\* What does not touch a transaction's status, the claims, the movements or the
\* running attempt keeps the invariant: staff and clients between attempts, the
\* clock, a caller that gets control back.
LEMMA OutsideKeepsInv ==
  ASSUME ProcInv, UNCHANGED <<txnVars, historyVars>>,
         \/ Return
         \/ UNCHANGED attemptVars /\ (pc = "idle" \/ balance' = balance)
  PROVE  IdsHeld' /\ UnclaimedUnused' /\ OthersAtRest' /\ RunningAttempt'
<1>1. \A u \in Txns : SameMovements(u)
  BY DEF SameMovements, historyVars
<1>2. IdsHeld' /\ UnclaimedUnused'
  BY DEF ProcInv, IdsHeld, UnclaimedUnused, historyVars
<1>3. ASSUME NEW u \in Txns, AtRest(u) PROVE AtRest(u)'
  <2>1. status'[u] = status[u] /\ reason'[u] = reason[u] /\ (Holds(u)' <=> Holds(u))
    BY DEF txnVars, historyVars, Holds
  <2> QED BY <1>1, <1>3, <2>1, RestFrame
<1>4. CASE Return
  BY <1>2, <1>3, <1>4, TransactionAssumption
     DEF ProcInv, OthersAtRest, RunningAttempt, Return
<1>5. CASE UNCHANGED attemptVars /\ (pc = "idle" \/ balance' = balance)
  <2>1. OthersAtRest'
    BY <1>3, <1>5 DEF ProcInv, OthersAtRest, attemptVars
  <2>2. ASSUME NEW t \in Txns, t = cur, pc # "returned" PROVE InAttempt(t)'
    <3>1. pc # "idle" /\ InAttempt(t)
      BY <2>2, TransactionAssumption DEF ProcInv, TypeOK, AttemptTypeOK, RunningAttempt
    <3>2. UNCHANGED <<pc, cur, err, before, balance>>
      BY <1>5, <3>1 DEF attemptVars
    <3>3. /\ NothingMoved(t)' <=> NothingMoved(t)
          /\ DebitOpen(t)' <=> DebitOpen(t)
          /\ AllMoved(t)' <=> AllMoved(t)
      BY <1>1, MoneyFrame DEF SameMovements
    <3>4. Taken' = Taken /\ status' = status /\ (Holds(t)' <=> Holds(t))
      BY <3>2 DEF Taken, txnVars, historyVars, Holds
    <3> QED BY <3>1, <3>2, <3>3, <3>4 DEF InAttempt
  <2> QED BY <1>2, <1>5, <2>1, <2>2 DEF RunningAttempt, attemptVars
<1> QED BY <1>4, <1>5

\* The invariant holds at the start: no id is held, no movement recorded.
LEMMA InvInit == ProcInit => ProcInv
<1> SUFFICES ASSUME ProcInit PROVE ProcInv
  OBVIOUS
<1>1. /\ cur = NoTxn /\ pc = "idle" /\ claimed = [id \in Ids |-> NoTxn]
      /\ status = [t \in Txns |-> "pending"]
      /\ withdrawals = NoMovements /\ refunds = NoMovements /\ deposits = NoMovements
  BY DEF ProcInit, TxnInit
<1>2. IdsHeld
  BY <1>1 DEF IdsHeld
<1>3. UnclaimedUnused
  BY <1>1, KeyFacts DEF UnclaimedUnused, NoMovements
<1>4. \A t \in Txns : AtRest(t)
  BY <1>1, Parties, TransactionAssumption DEF AtRest, Holds
<1>5. OthersAtRest /\ RunningAttempt
  BY <1>1, <1>4, TransactionAssumption DEF OthersAtRest, RunningAttempt
<1> QED BY <1>2, <1>3, <1>5, TypeInit DEF ProcInv

\* The invariant is inductive: one step of the proof per operation.
LEMMA InvStep == ProcInv /\ [ProcNext]_procVars => ProcInv'
<1> SUFFICES ASSUME ProcInv, [ProcNext]_procVars PROVE ProcInv'
  OBVIOUS
<1>1. TypeOK'
  BY TypeStep DEF ProcInv
<1>2. CASE Attempt
  BY <1>1, <1>2, CheckStepsKeepInv, DebitKeepsInv, CreditKeepsInv, RollBackKeepsInv,
     CompleteKeepsInv, FailureKeepsInv DEF Attempt, ProcInv
<1>3. ASSUME NEW t \in Txns, Process(t) PROVE ProcInv'
  BY <1>1, <1>3, ProcessKeepsInv DEF ProcInv
<1>4. CASE Return
  BY <1>1, <1>4, OutsideKeepsInv DEF ProcInv, Return
<1>5. CASE Environment
  BY <1>1, <1>5, OutsideKeepsInv DEF ProcInv, Environment
<1>6. CASE ClockTick
  BY <1>1, <1>6, OutsideKeepsInv DEF ProcInv, ClockTick, bankVars
<1>7. CASE UNCHANGED procVars
  BY <1>1, <1>7, OutsideKeepsInv DEF ProcInv, procVars, bankVars
<1> QED BY <1>2, <1>3, <1>4, <1>5, <1>6, <1>7 DEF ProcNext

\* The inductive invariant holds in every reachable state: between attempts
\* every transaction is at rest, and a running attempt has moved exactly what
\* its step says.
THEOREM InvariantHolds == ProcSpec => []ProcInv
<1> QED BY InvInit, InvStep, PTL DEF ProcSpec
-----------------------------------------------------------------------------
\* A transfer whose money the history can account for: nothing moved, all of it
\* moved, or its debit is open and the running attempt knows.
LEMMA TransferMoney ==
  ASSUME ProcInv, NEW t \in Txns, Type[t] = "transfer", Holds(t)
  PROVE  \/ NothingMoved(t) /\ ~InFlight(t)
         \/ AllMoved(t) /\ ~InFlight(t)
         \/ DebitOpen(t) /\ InFlight(t)
<1>1. HasSender(t) /\ HasRecipient(t) /\ t # NoTxn
  BY TransactionAssumption DEF HasSender, HasRecipient
<1>2. CASE t # cur \/ pc = "returned"
  <2>1. AtRest(t) /\ ~InFlight(t)
    BY <1>2 DEF ProcInv, OthersAtRest, InFlight
  <2> QED BY <2>1 DEF AtRest
<1>3. CASE t = cur /\ pc # "returned"
  <2>1. InAttempt(t) /\ pc \in Steps \ {"idle", "returned"}
    BY <1>1, <1>3 DEF ProcInv, TypeOK, AttemptTypeOK, RunningAttempt
  <2>2. Charge[t] \in Nat /\ (pc \in {"credit", "rollback"} => Charge[t] > 0)
    BY <1>1, <2>1, Parties DEF InAttempt
  <2>3. CASE pc \in {"credit", "rollback"}
    BY <1>1, <1>3, <2>1, <2>2, <2>3
       DEF InAttempt, InFlight, DebitOpen, AllMoved, NothingMoved
  <2>4. CASE pc \notin {"credit", "rollback"}
    BY <2>1, <2>4 DEF InAttempt, InFlight, Steps
  <2> QED BY <2>3, <2>4
<1> QED BY <1>2, <1>3

\* Atomicity of transfers follows from the invariant.
LEMMA InvAtomic == ProcInv => TransferAtomic
<1> SUFFICES ASSUME ProcInv, NEW t \in Txns, Type[t] = "transfer", Holds(t)
             PROVE LET settled == Refunds(t).count + Credits(t).count
                       open == IF InFlight(t) THEN 1 ELSE 0 IN
                   /\ Credits(t).count <= 1
                   /\ Debits(t).count = settled + open
                   /\ Debits(t).total = Refunds(t).total + (Credits(t).count + open) * Charge[t]
  BY DEF TransferAtomic
<1>1. HasSender(t) /\ HasRecipient(t)
  BY DEF HasSender, HasRecipient
<1>2. /\ Debits(t).count \in Nat /\ Debits(t).total \in Nat
      /\ Refunds(t).count \in Nat /\ Refunds(t).total \in Nat
      /\ Credits(t).count \in Nat /\ Charge[t] \in Nat
  BY <1>1, Parties, KeyFacts, TallyType
     DEF ProcInv, TypeOK, HistoryTypeOK, Debits, Refunds, Credits
<1>3. CASE NothingMoved(t) /\ ~InFlight(t)
  <2>1. /\ Credits(t).count = 0 /\ Debits(t).count = Refunds(t).count
        /\ Debits(t).total = Refunds(t).total
    BY <1>1, <1>3 DEF NothingMoved
  <2>2. (0 + 0) * Charge[t] = 0
    BY <1>2
  <2> QED BY <1>2, <1>3, <2>1, <2>2
<1>4. CASE AllMoved(t) /\ ~InFlight(t)
  BY <1>1, <1>2, <1>4 DEF AllMoved, Debited
<1>5. CASE DebitOpen(t) /\ InFlight(t)
  BY <1>1, <1>2, <1>5 DEF DebitOpen, Debited
<1> QED BY <1>3, <1>4, <1>5, TransferMoney

\* The honesty of the status follows from the invariant.
LEMMA InvStatus == ProcInv => StatusTellsMoney
<1> SUFFICES ASSUME ProcInv, NEW t \in Txns, cur # t
             PROVE  /\ status[t] = "completed" => Moved(t)
                    /\ Moved(t) => \/ status[t] = "completed"
                                   \/ status[t] = "failed" /\ reason[t] = "defect"
  BY DEF StatusTellsMoney
<1>1. AtRest(t)
  BY DEF ProcInv, OthersAtRest
<1>2. HasSender(t) \/ HasRecipient(t)
  BY TransactionAssumption DEF HasSender, HasRecipient, Types
<1>3. NothingMoved(t) => ~Moved(t)
  BY <1>2 DEF NothingMoved, Moved
<1>4. AllMoved(t) /\ Holds(t) => Moved(t)
  <2>1. HasSender(t) => Refunds(t).count \in Nat
    BY Parties, KeyFacts, TallyType DEF ProcInv, TypeOK, HistoryTypeOK, Refunds
  <2> QED BY <1>2, <2>1 DEF AllMoved, Debited, Moved
<1>5. Moved(t) => Holds(t)
  BY DEF Moved
<1> QED BY <1>1, <1>3, <1>4, <1>5 DEF AtRest

\* That refund() never refuses a rollback follows from the invariant.
LEMMA InvRollback == ProcInv => RollbackNeverRefused
<1> SUFFICES ASSUME ProcInv, pc = "rollback", MustRefund
             PROVE  RefundAllowed(cur, Sender[cur], Taken)
  BY DEF RollbackNeverRefused
<1>1. cur \in Txns
  BY DEF ProcInv, TypeOK, AttemptTypeOK
<1> QED BY <1>1, RollbackAllowed

\* TransactionProcessor "keeps a transfer atomic": whatever the retries, failing
\* audit writes and refusals between the two sides, every debit of a transfer is
\* refunded in full or followed by its one credit.
THEOREM TransfersAreAtomic == ProcSpec => []TransferAtomic
<1> QED BY InvariantHolds, InvAtomic, PTL

\* The status a transaction rests in tells whether its money moved.
THEOREM StatusIsHonest == ProcSpec => []StatusTellsMoney
<1> QED BY InvariantHolds, InvStatus, PTL

\* BankService.refund() refuses no rollback of the processor.
THEOREM RollbacksGoThrough == ProcSpec => []RollbackNeverRefused
<1> QED BY InvariantHolds, InvRollback, PTL
=============================================================================
