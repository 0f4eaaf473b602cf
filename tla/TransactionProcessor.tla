------------------------- MODULE TransactionProcessor -------------------------
(***************************************************************************)
(* services/transaction_processor.py: one attempt of a transaction, call   *)
(* by call, with the bank operations it makes (services/bank.py) and the   *)
(* history it claims ids and records movements in                          *)
(* (services/transaction_history.py).  Between two steps of an attempt the *)
(* clock may move, and every write of the audit log may fail with an       *)
(* OSError, which is no BankError ("defect" below).  The program has one   *)
(* thread, so clients and staff act only while no attempt runs.            *)
(*                                                                         *)
(* Money is a natural number; the two currency conversions of an attempt   *)
(* are the constants Debit and Credit (0: rounds away to nothing), the     *)
(* fee is Fee, the risk analyzer's verdict is any.                         *)
(***************************************************************************)
EXTENDS Transaction, BankClock, FiniteSets, Sequences

CONSTANTS Accounts,      \* account ids
          Clients,
          Owner,         \* the client who owns each account
          Sender,        \* sender_id of each transaction (NoAccount: none)
          Recipient,     \* internal_recipient_id of each transaction
          NoAccount,
          Debit,         \* amount in the sender's currency
          Credit,        \* amount in the recipient's currency
          Fee,           \* fee_policy.calculate
          Floor,         \* lowest balance a withdrawal may leave
          OwnFee,        \* the account's own withdrawal fee (premium)
          Limit,         \* MAX_WITHDRAWAL and MAX_DEPOSIT of the account
          Large,         \* LARGE_OPERATION_THRESHOLD
          MaxAttempts,   \* max_attempts
          RetryDelay,    \* retry_delay
          AuditMayFail,  \* whether writes of the audit log may fail
          OpeningCash,   \* balance of each account at the start
          Unopened,      \* ids of accounts the bank does not have
          Freezable,     \* environment: accounts whose status staff change
          Blockable,     \* environment: clients who get blocked and unblocked
          CashAmounts,   \* environment: amounts of client deposits and withdrawals
          MaxBalance     \* bound: a client deposit never exceeds it

ASSUME ProcessorAssumption ==
    /\ NoAccount \notin Accounts
    /\ Owner \in [Accounts -> Clients]
    /\ Sender \in [Txns -> Accounts \cup {NoAccount}]
    /\ Recipient \in [Txns -> Accounts \cup {NoAccount}]
    /\ \A t \in Txns : /\ HasSender(t) <=> Sender[t] # NoAccount
                       /\ HasRecipient(t) <=> Recipient[t] # NoAccount
                       /\ Sender[t] # Recipient[t]
    /\ Debit \in [Txns -> Nat] /\ Credit \in [Txns -> Nat] /\ Fee \in [Txns -> Nat]
    /\ Floor \in [Accounts -> Int] /\ OwnFee \in [Accounts -> Nat]
    /\ Limit \in [Accounts -> Nat] /\ Large \in Nat \ {0}
    /\ MaxAttempts \in Nat \ {0} /\ RetryDelay \in Nat \ {0}
    /\ AuditMayFail \in BOOLEAN
    /\ OpeningCash \in [Accounts -> Nat]
    /\ \A a \in Accounts : OpeningCash[a] >= Floor[a]
    /\ Unopened \subseteq Accounts
    /\ Freezable \subseteq Accounts /\ Blockable \subseteq Clients
    /\ CashAmounts \subseteq Nat \ {0} /\ MaxBalance \in Nat

VARIABLES balance,       \* of each account
          accStatus,     \* AccountStatus, or "unknown" to the bank
          blocked,       \* clients who are blocked
          claimed,       \* history: the transaction that holds each id
          finished,      \* history: finished transactions, in order
          withdrawals,   \* history: WITHDRAWAL movements of <<id, account>>
          refunds,       \* history: REFUND movements
          deposits,      \* history: DEPOSIT movements
          errors,        \* the processor's error log
          collectedFees,
          pc,            \* where the running attempt is
          cur,           \* its transaction
          err,           \* the error being handled
          before,        \* sender's balance before the debit
          raised         \* the attempt ends by raising to its caller

bankVars == <<balance, accStatus, blocked>>
historyVars == <<claimed, finished, withdrawals, refunds, deposits>>
attemptVars == <<pc, cur, err, before, raised>>
procVars == <<txnVars, now, bankVars, historyVars, errors, collectedFees, attemptVars>>

AccountStatuses == {"unknown", "active", "frozen", "closed"}

\* Error kinds.  Those the bank flags as suspicious are audited before they are
\* raised; those in RETRYABLE_ERRORS bring the transaction back.
FlaggedErrors == {"night", "blocked", "inactive"}
RETRY_ON_DEFECT == {"night", "funds", "defect"}  \* faulty variant: OSError retried too
RETRYABLE_ERRORS == {"night", "funds"}
BankErrors == FlaggedErrors \cup RETRYABLE_ERRORS
                \cup {"missing", "rounding", "risk", "limit", "refund", "duplicate"}
ErrorKinds == BankErrors \cup {"none", "defect"}

AuditWrites == IF AuditMayFail THEN {TRUE, FALSE} ELSE {TRUE}

\* the answers of history.movements() for a transaction id and an account:
\* how many movements of a kind there are and what they add up to
Keys == Ids \X Accounts
Key(t, a) == <<IdOf[t], a>>

NoMovements == [key \in Keys |-> [count |-> 0, total |-> 0]]

Recorded(tally, key, amount) ==
    [tally EXCEPT ![key] = [count |-> @.count + 1, total |-> @.total + amount]]

ProcInit == /\ TxnInit
            /\ now \in 0 .. MaxTime
            /\ balance = OpeningCash
            /\ accStatus = [a \in Accounts |-> IF a \in Unopened THEN "unknown" ELSE "active"]
            /\ blocked = {}
            /\ claimed = [id \in Ids |-> NoTxn]
            /\ finished = <<>>
            /\ withdrawals = NoMovements
            /\ refunds = NoMovements
            /\ deposits = NoMovements
            /\ errors = {}
            /\ collectedFees = 0
            /\ pc = "idle"
            /\ cur = NoTxn
            /\ err = "none"
            /\ before = 0
            /\ raised = FALSE
-----------------------------------------------------------------------------
(***************************************************************************)
(* The bank's checks, as the error they end with ("none": they pass).      *)
(***************************************************************************)
GuardError(a, incoming) ==
    IF IsNight(now) THEN "night"
    ELSE IF ~incoming /\ Owner[a] \in blocked THEN "blocked" ELSE "none"

OperationalError(a) ==
    CASE accStatus[a] = "unknown" -> "missing"
      [] accStatus[a] \in {"frozen", "closed"} -> "inactive"
      [] OTHER -> "none"

\* faulty variant of WithdrawError: forgets the account's own fee
WithdrawFeeless(a, amount) ==
    IF GuardError(a, FALSE) # "none" THEN GuardError(a, FALSE)
    ELSE IF OperationalError(a) # "none" THEN OperationalError(a)
    ELSE IF amount > Limit[a] THEN "limit"
    ELSE IF balance[a] - amount < Floor[a] THEN "funds" ELSE "none"

WithdrawError(a, amount) ==
    IF GuardError(a, FALSE) # "none" THEN GuardError(a, FALSE)
    ELSE IF OperationalError(a) # "none" THEN OperationalError(a)
    ELSE IF amount > Limit[a] THEN "limit"
    ELSE IF balance[a] - (amount + OwnFee[a]) < Floor[a] THEN "funds" ELSE "none"

DepositError(a, amount) ==
    IF GuardError(a, TRUE) # "none" THEN GuardError(a, TRUE)
    ELSE IF OperationalError(a) # "none" THEN OperationalError(a)
    ELSE IF amount > Limit[a] THEN "limit" ELSE "none"

\* faulty variant of RefundAllowed: one refund per transaction, not per debit
RefundedOnce(t, a, amount) ==
    /\ claimed[IdOf[t]] # NoTxn
    /\ status[claimed[IdOf[t]]] = "processing"
    /\ withdrawals[Key(t, a)].count > 0
    /\ refunds[Key(t, a)].count = 0
    /\ amount <= withdrawals[Key(t, a)].total

\* refund(): what it demands before it puts a debit back
RefundAllowed(t, a, amount) ==
    /\ claimed[IdOf[t]] # NoTxn
    /\ status[claimed[IdOf[t]]] = "processing"
    /\ withdrawals[Key(t, a)].count > 0
    /\ refunds[Key(t, a)].count < withdrawals[Key(t, a)].count
    /\ amount <= withdrawals[Key(t, a)].total - refunds[Key(t, a)].total

\* Leave the step with error e; where it is flagged first, a failing write
\* of the audit log replaces it.
Raise(e, handler) ==
    /\ pc' = handler
    /\ \E written \in AuditWrites :
          err' = IF e \in FlaggedErrors /\ ~written THEN "defect" ELSE e
    /\ UNCHANGED <<cur, before, raised>>

Proceed(next) == pc' = next /\ UNCHANGED <<cur, err, before, raised>>

Check(e, next, handler) == IF e = "none" THEN Proceed(next) ELSE Raise(e, handler)

\* _review_amount(): a large amount is flagged after the money moved
Review(amount, next, handler) ==
    \E written \in AuditWrites :
        IF amount >= Large /\ ~written THEN Raise("defect", handler) ELSE Proceed(next)
-----------------------------------------------------------------------------
(***************************************************************************)
(* One attempt.                                                            *)
(***************************************************************************)
Initiator == IF HasSender(cur) THEN Sender[cur] ELSE Recipient[cur]

\* faulty variant of Process: takes the id over from another transaction
ProcessTakingOver(t) ==
    /\ pc = "idle"
    /\ Start(t)
    /\ claimed' = [claimed EXCEPT ![IdOf[t]] = t]
    /\ pc' = "sender" /\ cur' = t /\ err' = "none" /\ before' = 0 /\ raised' = FALSE
    /\ UNCHANGED <<now, bankVars, finished, withdrawals, refunds, deposits,
                   errors, collectedFees>>

\* process(): start the attempt and claim the id for this object
Process(t) ==
    /\ pc = "idle"
    /\ Start(t)
    /\ cur' = t
    /\ raised' = FALSE
    /\ before' = 0
    /\ IF claimed[IdOf[t]] \in {NoTxn, t}
         THEN /\ claimed' = [claimed EXCEPT ![IdOf[t]] = t]
              /\ pc' = "sender" /\ err' = "none"
         ELSE /\ pc' = "failing" /\ err' = "duplicate"
              /\ UNCHANGED claimed
    /\ UNCHANGED <<now, bankVars, finished, withdrawals, refunds, deposits,
                   errors, collectedFees>>

\* _execute(): ensure_operational of both sides, then both conversions
CheckSender ==
    /\ pc = "sender"
    /\ Check(IF HasSender(cur) THEN OperationalError(Sender[cur]) ELSE "none",
             "recipient", "failing")
    /\ UNCHANGED <<txnVars, now, bankVars, historyVars, errors, collectedFees>>

CheckRecipient ==
    /\ pc = "recipient"
    /\ Check(IF HasRecipient(cur) THEN OperationalError(Recipient[cur]) ELSE "none",
             "convert", "failing")
    /\ UNCHANGED <<txnVars, now, bankVars, historyVars, errors, collectedFees>>

ConvertBoth ==
    /\ pc = "convert"
    /\ Check(IF \/ HasSender(cur) /\ Debit[cur] = 0
                \/ HasRecipient(cur) /\ Credit[cur] = 0 THEN "rounding" ELSE "none",
             "screen", "failing")
    /\ UNCHANGED <<txnVars, now, bankVars, historyVars, errors, collectedFees>>

\* bank.screen(): the guard, then the risk score, audited whatever it is;
\* the balance is read when the money is about to move
Screen ==
    /\ pc = "screen"
    /\ LET e == GuardError(Initiator, ~HasSender(cur)) IN
       \/ /\ e # "none"
          /\ Raise(e, "failing")
       \/ /\ e = "none"
          /\ \E written \in AuditWrites, high \in BOOLEAN :
               err' = IF ~written THEN "defect" ELSE IF high THEN "risk" ELSE "none"
          /\ pc' = IF err' = "none" THEN "debit" ELSE "failing"
          /\ before' = IF HasSender(cur) THEN balance[Sender[cur]] ELSE 0
          /\ UNCHANGED <<cur, raised>>
    /\ UNCHANGED <<txnVars, now, bankVars, historyVars, errors, collectedFees>>

\* bank.withdraw(): guard, the account's own rules, movement, review
DebitSender ==
    /\ pc = "debit"
    /\ UNCHANGED <<txnVars, now, accStatus, blocked, claimed, finished, refunds, deposits,
                   errors, collectedFees>>
    /\ IF ~HasSender(cur)
         THEN Proceed("credit") /\ UNCHANGED <<balance, withdrawals>>
         ELSE LET a == Sender[cur]
                  amount == Debit[cur] + Fee[cur]
                  charge == amount + OwnFee[a]
                  e == WithdrawError(a, amount) IN
              \/ /\ e # "none"
                 /\ Raise(e, "rollback")
                 /\ UNCHANGED <<balance, withdrawals>>
              \/ /\ e = "none"
                 /\ balance' = [balance EXCEPT ![a] = @ - charge]
                 /\ withdrawals' = Recorded(withdrawals, Key(cur, a), charge)
                 /\ Review(charge, "credit", "rollback")

\* bank.deposit() to a recipient in this bank
CreditRecipient ==
    /\ pc = "credit"
    /\ UNCHANGED <<txnVars, now, accStatus, blocked, claimed, finished, withdrawals, refunds,
                   errors, collectedFees>>
    /\ IF ~HasRecipient(cur)
         THEN Proceed("complete") /\ UNCHANGED <<balance, deposits>>
         ELSE LET a == Recipient[cur]
                  e == DepositError(a, Credit[cur]) IN
              \/ /\ e # "none"
                 /\ Raise(e, "rollback")
                 /\ UNCHANGED <<balance, deposits>>
              \/ /\ e = "none"
                 /\ balance' = [balance EXCEPT ![a] = @ + Credit[cur]]
                 /\ deposits' = Recorded(deposits, Key(cur, a), Credit[cur])
                 /\ Review(Credit[cur], "complete", "rollback")

NeverCredited == FALSE  \* faulty variant of Credited: the error decides, not the history

\* except Exception: what was taken comes back unless the recipient got it;
\* _credited() asks the history.  A refused refund replaces the error.
Credited == deposits[Key(cur, Recipient[cur])].count > 0
Taken == IF HasSender(cur) THEN before - balance[Sender[cur]] ELSE 0
\* faulty variant of MustRefund: except BankError
MustRefundRefused == Taken > 0 /\ HasRecipient(cur) /\ ~Credited /\ err \in BankErrors
MustRefund == Taken > 0 /\ HasRecipient(cur) /\ ~Credited

RollBack ==
    /\ pc = "rollback"
    /\ IF MustRefund /\ RefundAllowed(cur, Sender[cur], Taken)
         THEN /\ balance' = [balance EXCEPT ![Sender[cur]] = @ + Taken]
              /\ refunds' = Recorded(refunds, Key(cur, Sender[cur]), Taken)
         ELSE UNCHANGED <<balance, refunds>>
    /\ err' = IF MustRefund /\ ~RefundAllowed(cur, Sender[cur], Taken) THEN "refund" ELSE err
    /\ pc' = "failing"
    /\ UNCHANGED <<txnVars, now, accStatus, blocked, claimed, finished, withdrawals, deposits,
                   errors, collectedFees, cur, before, raised>>

\* history.record_transaction(): the id must be its own and not recorded yet
\* (a refused record would raise out of process(); here it would deadlock)
Record(t) ==
    /\ claimed[IdOf[t]] \in {NoTxn, t}
    /\ t \notin {finished[i] : i \in DOMAIN finished}
    /\ claimed' = [claimed EXCEPT ![IdOf[t]] = t]
    /\ finished' = Append(finished, t)

DropDuplicate(t) == UNCHANGED <<claimed, finished>>  \* faulty variant of RecordDuplicate

\* history.record_duplicate(): the id stays with the transaction that holds it
RecordDuplicate(t) ==
    /\ claimed[IdOf[t]] \notin {NoTxn, t}
    /\ t \notin {finished[i] : i \in DOMAIN finished}
    /\ finished' = Append(finished, t)
    /\ UNCHANGED claimed

CompleteAttempt ==
    /\ pc = "complete"
    /\ collectedFees' = collectedFees + (IF HasSender(cur) THEN Fee[cur] ELSE 0)
    /\ Complete(cur)
    /\ Record(cur)
    /\ \E written \in AuditWrites : raised' = ~written
    /\ pc' = "returned"
    /\ UNCHANGED <<now, bankVars, withdrawals, refunds, deposits, errors, cur, err, before>>

\* faulty variants of WillRetry: any error, or one attempt too many
RetryAnyError == attempts[cur] < MaxAttempts
RetryOnceMore == err \in RETRYABLE_ERRORS /\ attempts[cur] <= MaxAttempts

\* _handle_failure(): the error log, the retry or the end, then the audit log
WillRetry == err \in RETRYABLE_ERRORS /\ attempts[cur] < MaxAttempts

\* faulty variant of NextAttemptAt: the delay, night or not
AlwaysDelayed == now + RetryDelay * 2 ^ (attempts[cur] - 1)

NextAttemptAt ==
    IF err = "night" /\ IsNight(now) THEN NightEndsAt(now)
    ELSE now + RetryDelay * 2 ^ (attempts[cur] - 1)

HandleFailure ==
    /\ pc = "failing"
    /\ errors' = errors \cup {[txn |-> cur, attempt |-> attempts[cur], error |-> err,
                               willRetry |-> WillRetry]}
    /\ \/ /\ WillRetry
          /\ Retry(cur, err, NextAttemptAt)
          /\ UNCHANGED <<claimed, finished>>
       \/ /\ ~WillRetry
          /\ Fail(cur, err)
          /\ IF err = "duplicate" THEN RecordDuplicate(cur) ELSE Record(cur)
    /\ \E written \in AuditWrites : raised' = (err = "defect" \/ ~written)
    /\ pc' = "returned"
    /\ UNCHANGED <<now, bankVars, withdrawals, refunds, deposits, collectedFees, cur, err, before>>

\* process() gives control back to its caller
Return ==
    /\ pc = "returned"
    /\ pc' = "idle"
    /\ cur' = NoTxn /\ err' = "none" /\ before' = 0 /\ raised' = FALSE
    /\ UNCHANGED <<txnVars, now, bankVars, historyVars, errors, collectedFees>>

Attempt == \/ CheckSender \/ CheckRecipient \/ ConvertBoth \/ Screen \/ DebitSender
           \/ CreditRecipient \/ RollBack \/ CompleteAttempt \/ HandleFailure
-----------------------------------------------------------------------------
(***************************************************************************)
(* What clients and staff do between attempts (services/bank.py).  An      *)
(* operation the bank refuses changes nothing here, so only those that go  *)
(* through appear; their audit write comes last and undoes nothing.        *)
(***************************************************************************)
SetStatus(a, from, to) ==
    /\ accStatus[a] \in from
    /\ accStatus' = [accStatus EXCEPT ![a] = to]

FreezeAccount(a) == SetStatus(a, {"active"}, "frozen") /\ UNCHANGED <<balance, blocked>>

UnfreezeAccount(a) == /\ ~IsNight(now)
                      /\ SetStatus(a, {"frozen"}, "active")
                      /\ UNCHANGED <<balance, blocked>>

\* AbstractAccount.close(): frozen with money on it, or in debt, it stays open
CloseAccount(a) == /\ GuardError(a, FALSE) = "none"
                   /\ accStatus[a] = "frozen" => balance[a] = 0
                   /\ balance[a] >= 0
                   /\ SetStatus(a, {"active", "frozen"}, "closed")
                   /\ balance' = [balance EXCEPT ![a] = 0]
                   /\ UNCHANGED blocked

BlockClient(c) == /\ c \notin blocked
                  /\ blocked' = blocked \cup {c}
                  /\ UNCHANGED <<balance, accStatus>>

UnblockClient(c) == /\ c \in blocked /\ ~IsNight(now)
                    /\ blocked' = blocked \ {c}
                    /\ UNCHANGED <<balance, accStatus>>

CashIn(a, amount) == /\ DepositError(a, amount) = "none"
                     /\ balance[a] + amount <= MaxBalance
                     /\ balance' = [balance EXCEPT ![a] = @ + amount]
                     /\ UNCHANGED <<accStatus, blocked>>

CashOut(a, amount) == /\ WithdrawError(a, amount) = "none"
                      /\ balance' = [balance EXCEPT ![a] = @ - (amount + OwnFee[a])]
                      /\ UNCHANGED <<accStatus, blocked>>

Environment ==
    /\ pc = "idle"
    /\ \/ \E a \in Freezable : FreezeAccount(a) \/ UnfreezeAccount(a) \/ CloseAccount(a)
       \/ \E c \in Blockable : BlockClient(c) \/ UnblockClient(c)
       \/ \E a \in Accounts, x \in CashAmounts : CashIn(a, x) \/ CashOut(a, x)
    /\ UNCHANGED <<txnVars, now, historyVars, errors, collectedFees, attemptVars>>

ClockTick == /\ Tick
             /\ UNCHANGED <<txnVars, bankVars, historyVars, errors, collectedFees, attemptVars>>

ProcNext == \/ \E t \in Txns : Process(t)
            \/ Attempt
            \/ Return
            \/ Environment
            \/ ClockTick

ProcSpec == ProcInit /\ [][ProcNext]_procVars
-----------------------------------------------------------------------------
(***************************************************************************)
(* Properties.                                                             *)
(***************************************************************************)
Steps == {"idle", "sender", "recipient", "convert", "screen", "debit", "credit",
          "rollback", "complete", "failing", "returned"}

Tallies == [Keys -> [count : Nat, total : Nat]]

TxnTypeOK == /\ status \in [Txns -> Statuses] /\ attempts \in [Txns -> Nat]
             /\ scheduledAt \in [Txns -> Nat] /\ reason \in [Txns -> ErrorKinds]

BankTypeOK == /\ balance \in [Accounts -> Int] /\ accStatus \in [Accounts -> AccountStatuses]
              /\ blocked \subseteq Clients

HistoryTypeOK == /\ claimed \in [Ids -> Txns \cup {NoTxn}] /\ finished \in Seq(Txns)
                 /\ withdrawals \in Tallies /\ refunds \in Tallies /\ deposits \in Tallies

LogTypeOK == /\ errors \subseteq [txn : Txns, attempt : Nat, error : ErrorKinds,
                                  willRetry : BOOLEAN]
             /\ collectedFees \in Nat

AttemptTypeOK == /\ pc \in Steps /\ cur \in Txns \cup {NoTxn} /\ err \in ErrorKinds
                 /\ before \in Int /\ raised \in BOOLEAN
                 /\ pc = "idle" <=> cur = NoTxn

\* Type invariant of the processor, the bank state it moves and the history.
TypeOK == /\ TxnTypeOK /\ now \in Nat /\ BankTypeOK /\ HistoryTypeOK /\ LogTypeOK
          /\ AttemptTypeOK
          /\ cur # NoTxn => attempts[cur] > 0

Holds(t) == claimed[IdOf[t]] = t
Charge == [t \in Txns |-> IF HasSender(t) THEN Debit[t] + Fee[t] + OwnFee[Sender[t]] ELSE 0]
Debits(t) == withdrawals[Key(t, Sender[t])]
Refunds(t) == refunds[Key(t, Sender[t])]
Credits(t) == deposits[Key(t, Recipient[t])]

\* the running transfer has debited its sender and not yet settled that debit
InFlight(t) == /\ cur = t /\ pc \in {"credit", "rollback"}
               /\ Type[t] = "transfer" /\ Taken > 0 /\ Credits(t).count = 0

\* the money of t is where the transaction wanted it
Moved(t) == Holds(t) /\ IF HasRecipient(t) THEN Credits(t).count > 0 ELSE Debits(t).count > 0

\* Every debit of a transfer is settled once: refunded in full or followed by
\* the one credit; only the running attempt may have one open.  This is the
\* "keeps a transfer atomic" of the processor across any number of retries,
\* failing audit writes and a clock that passes midnight between the calls.
TransferAtomic ==
    \A t \in Txns : Type[t] = "transfer" /\ Holds(t) =>
        LET settled == Refunds(t).count + Credits(t).count
            open == IF InFlight(t) THEN 1 ELSE 0 IN
        /\ Credits(t).count <= 1
        /\ Debits(t).count = settled + open
        /\ Debits(t).total = Refunds(t).total + (Credits(t).count + open) * Charge[t]

\* The status a transaction rests in tells where its money is: completed only
\* if it moved, and one that moved is either completed or failed on an error
\* that is no business outcome (the audit write failed after the money had
\* moved); a transaction that comes back for a retry has moved nothing.
StatusTellsMoney ==
    \A t \in Txns : cur # t =>
        /\ status[t] = "completed" => Moved(t)
        /\ Moved(t) => \/ status[t] = "completed"
                       \/ status[t] = "failed" /\ reason[t] = "defect"

\* No movement is ever recorded under an id except on the accounts of the
\* transaction that holds it: a second transaction that reuses the id is
\* refused before its money moves.
OnlyHolderMoves ==
    \A key \in Keys :
        LET holder == claimed[key[1]] IN
        /\ withdrawals[key].count > 0 => holder # NoTxn /\ key[2] = Sender[holder]
        /\ deposits[key].count > 0 => holder # NoTxn /\ key[2] = Recipient[holder]
        /\ refunds[key].count <= withdrawals[key].count

\* refund() never refuses the rollback of a transfer, however many debits of
\* earlier attempts have been refunded already: no debit is stranded.
RollbackNeverRefused ==
    pc = "rollback" /\ MustRefund => RefundAllowed(cur, Sender[cur], Taken)

\* Between attempts, the history holds exactly the transactions that ran and
\* reached a final status, refused duplicates included, each of them once.
HistoryComplete ==
    /\ \A i, j \in DOMAIN finished : finished[i] = finished[j] => i = j
    /\ cur = NoTxn => {finished[i] : i \in DOMAIN finished}
                        = {t \in Txns : status[t] \in {"completed", "failed"}}

\* The error log has one record for each failed attempt, announces a retry for
\* each but the last of a failed transaction, and attempts stay within
\* max_attempts.
ErrorLogComplete ==
    \A t \in Txns : cur # t =>
        LET last == IF status[t] = "completed" THEN attempts[t] - 1 ELSE attempts[t]
            log == {r \in errors : r.txn = t} IN
        /\ {r.attempt : r \in log} = 1 .. last
        /\ Cardinality(log) = last
        /\ \A r \in log : r.willRetry <=> ~(status[t] = "failed" /\ r.attempt = last)
        /\ attempts[t] <= MaxAttempts
        /\ status[t] = "pending" => attempts[t] < MaxAttempts

\* No operation takes an open account below the lowest balance its type allows.
FloorKept == \A a \in Accounts : accStatus[a] # "closed" => balance[a] >= Floor[a]

\* A retry lies in the future; one refused in the night window that lasts still
\* comes back at the first slot after it.
RetryScheduled ==
    [][\A t \in Txns : status[t] = "processing" /\ status'[t] = "pending" =>
          /\ scheduledAt'[t] > now
          /\ err = "night" /\ IsNight(now) =>
                /\ \A m \in now .. scheduledAt'[t] - 1 : IsNight(m)
                /\ ~IsNight(scheduledAt'[t])]_procVars

\* Where the money of a transaction can be, by what the history says of it: at
\* rest with its owner, taken from the sender and not settled, or moved.
Debited(t) == /\ Debits(t).count = Refunds(t).count + 1
              /\ Debits(t).total = Refunds(t).total + Charge[t]

NothingMoved(t) ==
    /\ HasSender(t) => /\ Debits(t).count = Refunds(t).count
                       /\ Debits(t).total = Refunds(t).total
    /\ HasSender(t) /\ ~HasRecipient(t) => Debits(t).count = 0
    /\ HasRecipient(t) => Credits(t).count = 0

DebitOpen(t) == HasSender(t) /\ HasRecipient(t) /\ Debited(t) /\ Credits(t).count = 0

AllMoved(t) ==
    /\ HasSender(t) => Debited(t)
    /\ HasSender(t) /\ ~HasRecipient(t) => Refunds(t).count = 0
    /\ HasRecipient(t) => Credits(t).count = 1

\* What is true of a transaction no attempt of which is running.
AtRest(t) ==
    /\ status[t] # "processing"
    /\ Holds(t) => \/ NothingMoved(t) /\ status[t] # "completed"
                   \/ /\ AllMoved(t)
                      /\ status[t] = "completed" \/ (status[t] = "failed" /\ reason[t] = "defect")
    /\ ~Holds(t) => status[t] # "completed"

\* What is true of the running attempt, that of t, at each of its steps.
InAttempt(t) ==
    /\ status[t] = "processing"
    /\ pc # "failing" => Holds(t)
    /\ pc \in {"screen", "debit", "credit", "rollback"} => (HasSender(t) => Debit[t] > 0)
    /\ pc \in {"sender", "recipient", "convert", "screen", "debit"} => NothingMoved(t)
    /\ pc = "debit" /\ HasSender(t) => before = balance[Sender[t]]
    /\ pc = "credit" => /\ HasSender(t) => Taken = Charge[t]
                        /\ HasSender(t) /\ HasRecipient(t) => DebitOpen(t)
                        /\ ~HasSender(t) => NothingMoved(t)
                        /\ ~HasRecipient(t) => AllMoved(t)
    /\ pc = "rollback" => /\ err # "none"
                          /\ \/ Taken = 0 /\ NothingMoved(t)
                             \/ Taken = Charge[t] /\ DebitOpen(t)
                             \/ AllMoved(t) /\ err = "defect"
    /\ pc = "complete" => AllMoved(t)
    /\ pc = "failing" => IF Holds(t)
                           THEN \/ NothingMoved(t) /\ err # "none"
                                \/ AllMoved(t) /\ err = "defect"
                           ELSE err = "duplicate"

\* an id is held by a transaction that carries it
IdsHeld == \A id \in Ids : claimed[id] # NoTxn => IdOf[claimed[id]] = id

\* under an id nobody holds, no movement is recorded
UnclaimedUnused ==
    \A t \in Txns, a \in Accounts : claimed[IdOf[t]] = NoTxn =>
        /\ withdrawals[Key(t, a)] = [count |-> 0, total |-> 0]
        /\ refunds[Key(t, a)] = [count |-> 0, total |-> 0]
        /\ deposits[Key(t, a)] = [count |-> 0, total |-> 0]

OthersAtRest == \A t \in Txns : t # cur \/ pc = "returned" => AtRest(t)

RunningAttempt == \A t \in Txns : t = cur /\ pc # "returned" => InAttempt(t)

\* The inductive invariant behind the atomicity of transfers: an id nobody
\* holds has no movements, a transaction that is not running is at rest, and the
\* running attempt has moved exactly what its step says.
ProcInv == TypeOK /\ IdsHeld /\ UnclaimedUnused /\ OthersAtRest /\ RunningAttempt

\* The processor implements AtomicTransfer: an open debit counts as still on
\* the sender's account.
Money == [a \in Accounts |->
            IF cur # NoTxn /\ a = Sender[cur] /\ InFlight(cur) THEN balance[a] + Taken ELSE balance[a]]

Atomic == INSTANCE AtomicTransfer WITH
            money <- Money, active <- cur, done <- {t \in Txns : Moved(t)},
            Source <- Sender, Target <- Recipient, Gain <- Credit

\* The processor's steps are atomic transfers: per id money moves once and
\* whole, and a transaction whose money moved is not attempted again.
ImplementsAtomicTransfer == Atomic!Spec
=============================================================================
