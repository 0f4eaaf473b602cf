-------------------------- MODULE TransactionReports --------------------------
(***************************************************************************)
(* What is told about the transactions: transaction_statistics() of        *)
(* services/bank_report.py, from the history; error_statistics() of        *)
(* services/audit_report.py, from the audit log; and the transactions of a *)
(* client report (reporting/builder.py).  The journal is what the          *)
(* processor wrote to the audit log: an event for each attempt, unless the *)
(* write failed.                                                           *)
(***************************************************************************)
EXTENDS TransactionProcessor, FiniteSetsExt

CONSTANT Amount          \* of each transaction, in the base currency

ASSUME AmountAssumption == /\ Amount \in [Txns -> Nat \ {0}]
                           /\ IsFiniteSet(Txns) /\ IsFiniteSet(Accounts)

VARIABLE journal         \* the transaction_completed and transaction_failed events

reportVars == <<procVars, journal>>

Event(kind, error, willRetry) ==
    [event |-> kind, txn |-> cur, attempt |-> attempts[cur], error |-> error, willRetry |-> willRetry]

JournalInit == ProcInit /\ journal = {}

\* _audit_completed(): a failing write raises
JournalCompleted ==
    /\ CompleteAttempt
    /\ journal' = IF raised' THEN journal ELSE journal \cup {Event("completed", "none", FALSE)}

\* the audit write of _handle_failure(); with a defect process() raises anyway
JournalFailed ==
    /\ HandleFailure
    /\ \E written \in AuditWrites :
          /\ err # "defect" => written = ~raised'
          /\ journal' = IF written THEN journal \cup {Event("failed", err, WillRetry)} ELSE journal

Unjournaled ==
    /\ \/ \E t \in Txns : Process(t)
       \/ CheckSender \/ CheckRecipient \/ ConvertBoth \/ Screen \/ DebitSender
       \/ CreditRecipient \/ RollBack \/ Return
       \/ Environment \/ ClockTick
    /\ UNCHANGED journal

JournalNext == JournalCompleted \/ JournalFailed \/ Unjournaled

JournalSpec == JournalInit /\ [][JournalNext]_reportVars
-----------------------------------------------------------------------------
(***************************************************************************)
(* transaction_statistics(), without the cancelled transactions, which     *)
(* never ran.                                                              *)
(***************************************************************************)
Finished == {finished[i] : i \in DOMAIN finished}
With(result) == {t \in Finished : status[t] = result}

\* faulty variant of Volume: every finished transaction counts
VolumeOfAll == SumFunctionOnSet(Amount, Finished)

\* the amounts are kept by id
Volume ==
    LET ids == {IdOf[t] : t \in With("completed")}
        latest(id) == CHOOSE i \in DOMAIN finished :
                        /\ IdOf[finished[i]] = id /\ finished[i] \in With("completed")
                        /\ \A j \in DOMAIN finished :
                             IdOf[finished[j]] = id /\ finished[j] \in With("completed") => j <= i
    IN  SumFunctionOnSet([id \in ids |-> Amount[finished[latest(id)]]], ids)

\* transaction.fee is set when the transaction is completed
TariffFees == SumFunctionOnSet([t \in Txns |-> IF HasSender(t) THEN Fee[t] ELSE 0],
                               With("completed"))

TransactionStatistics ==
    [byStatus   |-> [result \in {"completed", "failed"} |-> Cardinality(With(result))],
     byType     |-> [type \in {Type[t] : t \in Finished} |->
                       Cardinality({i \in DOMAIN finished : Type[finished[i]] = type})],
     volume     |-> Volume,
     tariffFees |-> TariffFees,
     finished   |-> Len(finished)]

\* error_statistics(), from the journal alone
ErrorStatistics ==
    LET failures == {e \in journal : e.event = "failed"}
        retried  == {e \in failures : e.willRetry}
    IN  [failedAttempts |-> Cardinality(failures),
         retried        |-> Cardinality(retried),
         finalFailures  |-> Cardinality(failures \ retried),
         completed      |-> Cardinality({e \in journal : e.event = "completed"}),
         errorsByType   |-> [error \in {e.error : e \in failures} |->
                               Cardinality({e \in failures : e.error = error})]]

-----------------------------------------------------------------------------
(***************************************************************************)
(* The transactions of a client report.                                    *)
(***************************************************************************)
\* faulty variant of Rows: the transactions the accounts sent
RowsSent(accounts) == {t \in Finished : Sender[t] \in accounts}

\* history.transactions(account_ids=...): sent from or to any of them
Rows(accounts) == {t \in Finished : {Sender[t], Recipient[t]} \cap accounts # {}}

\* _counterparty()
Direction(t, accounts) ==
    IF Sender[t] \notin accounts THEN "incoming"
    ELSE IF Recipient[t] \in accounts THEN "internal" ELSE "outgoing"

\* the transactions table
TransactionTable(accounts) ==
    [t \in Rows(accounts) |-> [direction |-> Direction(t, accounts), status |-> status[t],
                               amount |-> Amount[t]]]
-----------------------------------------------------------------------------
(***************************************************************************)
(* Properties.                                                             *)
(***************************************************************************)
\* what there is to write of the attempts so far
Outcomes ==
    {[event |-> "failed", txn |-> r.txn, attempt |-> r.attempt, error |-> r.error,
      willRetry |-> r.willRetry] : r \in errors}
    \cup {[event |-> "completed", txn |-> t, attempt |-> attempts[t], error |-> "none",
           willRetry |-> FALSE] : t \in {u \in Txns : status[u] = "completed"}}

\* The two statistics tell one story, though one reads the history, the other the audit
\* log, and the fees are counted a third time by the processor: the history misses no
\* outcome and no volume, not even of objects that share an id; the journal says
\* nothing that did not happen, and where it counts less, exactly the events whose
\* writes failed are missing.
StatisticsAgree ==
    cur = NoTxn =>
        LET statistics == TransactionStatistics
            told == ErrorStatistics
            lost == Outcomes \ journal
            Lost(kind) == Cardinality({e \in lost : e.event = kind /\ ~e.willRetry})
        IN  /\ statistics.tariffFees = collectedFees
            /\ statistics.volume = SumFunctionOnSet(Amount, {t \in Txns : status[t] = "completed"})
            /\ journal \subseteq Outcomes
            /\ ~AuditMayFail => lost = {}
            /\ statistics.byStatus["completed"] = told.completed + Lost("completed")
            /\ statistics.byStatus["failed"] = told.finalFailures + Lost("failed")
            /\ statistics.finished = statistics.byStatus["completed"] + statistics.byStatus["failed"]

\* what the movements of a transaction came to, on some accounts
Net(t, accounts) ==
    SumFunctionOnSet([a \in accounts |-> deposits[Key(t, a)].total + refunds[Key(t, a)].total
                                            - withdrawals[Key(t, a)].total], accounts)

\* The two tables of a client report explain each other, whichever accounts the client
\* has: a completed transaction shows in the statement as what its direction says, once
\* and with its full amount; a failed one comes to nothing, unless its error was no
\* business outcome; and what is not in the report has moved nothing on its accounts.
ReportMatchesStatement ==
    cur = NoTxn =>
        \A mine \in SUBSET Accounts :
            LET table == TransactionTable(mine) IN
            \A t \in {u \in Txns : Holds(u)} :
                IF t \notin DOMAIN table THEN Net(t, mine) = 0
                ELSE IF table[t].status = "failed" THEN reason[t] = "defect" \/ Net(t, mine) = 0
                ELSE CASE table[t].direction = "incoming" -> Net(t, mine) = Credit[t]
                       [] table[t].direction = "outgoing" -> Net(t, mine) = -Charge[t]
                       [] table[t].direction = "internal" -> Net(t, mine) = Credit[t] - Charge[t]
=============================================================================
