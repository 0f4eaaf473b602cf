# Modular Bank Platform: TLA+ models and proofs

A verification project for the bank in `src/src`: TLA+ modules of its core, TLC
configurations that check them on small instances, and TLAPS proofs for every value
of the constants.

## 1. The system

A single-threaded Python library. `Bank` is a facade over clients and accounts;
transactions wait in a `TransactionQueue` and are executed by a
`TransactionProcessor` through the same `Bank` operations clients and staff use.
Services share one clock, one audit log and one history, handed in from outside.

| Component | State | Operations | What makes it correct |
|---|---|---|---|
| `models/transaction.py` | status, attempts, `scheduled_at`, reason | start, complete, fail, retry, cancel | the transition table; attempts counted |
| `services/transaction_processor.py` | error log, collected fees; an attempt's local state | `process`, `process_queue` | a transfer is whole or not at all; a status never lies about the money; retries end |
| `services/transaction_queue.py` | ready heap, delayed heap, live sequence number and object per id | add, requeue, next_ready, cancel, pending | most urgent due first; nothing stranded, nothing twice |
| `services/transaction_history.py` | holder of each id, finished transactions, movements | claim, record_transaction, record_duplicate, record_movement | an id moves money for one object; each outcome recorded once; movements chain to the balance |
| `services/bank.py` | accounts, clients, opening and interest dates | open, close, freeze, unfreeze, deposit, withdraw, refund, interest, invest, divest, add_client, unblock, login | guards before money; one movement per change of a balance; refunds only of real debits |
| `models/*account*.py`, `portfolio.py` | balance, status, portfolio | deposit, withdraw, close, interest, invest, divest | no withdrawal below the floor of the type |
| `services/security.py`, `session.py`, `models/client.py` | blocked clients, failed logins, open sessions | authenticate, resolve, close, unblock, night window, flag | lockout; a dead session stays dead |
| `services/audit_log.py` | memory, file | record, load_events | the file has what memory has; damage is reported |
| `services/risk.py` | requested moments, known pairs, assessments | assess, record_completed | each transaction counted once in its window; a retry looks no worse than the request |
| `utils.py`, `fees.py`, `currency.py` | none | rounding, conversion, fee, next interest date | exact to half a cent, limits kept, no month skipped |
| `services/client_portal.py` | none | the bank's operations through a session, submit | only a live session acts, on its own client's accounts |
| `services/bank_report.py`, `audit_report.py` | none | totals, profiles, statistics | the reports agree with each other, with the bank and, lost writes apart, with the audit log |
| `reporting/builder.py` | files in the output directory | client, bank and risk report, export, save_charts | a line reaches the present, a statement explains its period; a returned file is whole and stays |
| `reporting/report.py`, `charts.py`, `exporters.py`, programs | none | layout, drawing, demonstrations | |

How they interact, and what is hard about it:

* The processor makes some ten calls per attempt. Each reads the clock anew, so an
  attempt that begins in the evening may be refused halfway at midnight.
* Nearly every call ends in a write of the audit log, whose file may fail with an
  `OSError`, before or after the operation took effect. An error does not say
  whether money moved.
* A failed attempt may come back later under the same id, with the movements of its
  earlier attempts still in the history. Another object may carry the same id.
* The queue forgets cancelled transactions lazily: its heaps keep stale entries.
  Transaction objects are shared, so a status may change past the queue.
* `process_queue()` has two nested `finally` blocks on the way of every error.
* Several processes may export reports into one directory within one second.
* A process may stop in the middle of a line of the audit file and append to it
  when it starts again.

`PROJECT.json` lists the hazards line by line, with the properties aimed at each.

## 2. The modules

`BankClock` (time and the night window) and `Transaction` (status, attempts, due
moment) are shared by the modules of transactions. The modules form three towers and
two that stand alone:

```
BankClock < Transaction < TransactionProcessor (implements AtomicTransfer)
                          TransactionProcessor < TransactionReports
            Transaction < TransactionQueue < QueueRequests (implements UrgentFirst)
            TransactionProcessor + TransactionQueue < ProcessQueue
Rounding < Converter < Money
BankClock < Sessions + InterestCalendar + Converter
            < Ledger                           (implements AccountBook)
              Ledger < ClientPortal
              Ledger < BalanceReports
BankClock + Money < RiskAnalyzer < RiskReports
ReportFiles                                    (implements ReportDirectory)
AuditLog
```

**TransactionProcessor** - one attempt, step by step; `pc` is the place in
`process()`/`_execute()`:

| Step (`pc`) | Code |
|---|---|
| `Process` (idle) | `process()`: `start`, `history.claim`; a taken id goes to `failing` |
| `CheckSender`, `CheckRecipient` | `bank.ensure_operational` on both sides |
| `ConvertBoth` | `_convert_for`; an amount that rounds away is refused |
| `Screen` | `bank.screen`: guard, verdict of the risk analyzer, its audit event; then the balance is read |
| `DebitSender` | `bank.withdraw`: guard, the account's rule, movement, review |
| `CreditRecipient` | `bank.deposit` |
| `RollBack` | `except Exception`: `_credited`, `bank.refund` with its own checks |
| `CompleteAttempt` | `complete`, `record_transaction`, audit event |
| `HandleFailure` | `_handle_failure`: error log, retry or fail, history, audit event |
| `Return` | control goes back to the caller, by an error or not (`raised`) |

`Environment` is what clients and staff do between attempts (freeze, unfreeze,
close, block, unblock, cash in and out); `ClockTick` may come between any two
steps. A check ends with the kind of error it raises. Kinds the bank flags are
audited before they are raised, and a failing write replaces them by `defect` (an
`OSError`, which is no `BankError`).

**AtomicTransfer** - the abstract promise: money moves at most once per id, all of
it in one step, and a transaction whose money moved is never attempted again. The
refinement mapping (`Money`, `Atomic` in TransactionProcessor) counts a debit that
is not settled yet as still on the sender's account.

**TransactionReports** adds the `journal`, what the processor wrote to the audit log
(an event for each attempt whose write went through), and what is told about the
transactions: `transaction_statistics()` from the history, `error_statistics()` from
the journal, and the transactions table of a client report.

**TransactionQueue** - `ready` and `delayed` are the heaps as sets of entries with
the keys they were pushed with; `queued` is the live sequence number per id;
`known` the object ever added under it; `Listed` is `pending()`, which orders what is
queued from the transactions themselves and also names those cancelled past the queue.
**UrgentFirst** is its abstract promise: a
line without stale entries, which answers every request with the most urgent due
transaction, or with nothing if none is due. The mapping keeps the live entries of
pending transactions. An answer of nothing may change nothing, and a promise cannot tell
it from a stutter; **QueueRequests** adds a bit that every answer of `next_ready()` flips,
so that each is a step the promise has to allow. No action reads the bit.

**ProcessQueue** composes the two: `process_queue()` with `mode` for its loop and
its `finally`, sharing the clock and the transactions; also submissions,
cancellations and direct calls of `process()` between the runs.

**Sessions** - registration (`Newcomers` come of age and are added), login, lockout, logout, blocking, unblocking and the store of
sessions. `Outcome(s)` is what `resolve_session` answers.

**AuditLog** - the file as lines of pieces of events, the memory of the current
run, writes that are cut off anywhere, restarts, and `load_events`.

**Ledger** - every operation of `Bank` on accounts (open, close, freeze, unfreeze,
deposit, withdraw, interest, invest, divest) with the account types, the portfolio
and the movement each change records. The types are terms of one account (`OfferSet`):
currency, floor, own fee, rate. An operation is one step: its checks come before its
first change and its audit writes after the last, so a failing write undoes nothing;
one that is refused changes nothing and is no step. **InterestCalendar** is
`next_monthly_date()` over months of any lengths. **AccountBook** is the abstract
promise: one book, written at its end only, whose entries tell every change of a
balance; a blocked client takes nothing out, a frozen account holds what is on it, and
at night nothing moves but interest. The mapping reads the movements as the book.

**ClientPortal** - the same operations through a session of **Sessions**, which may
have died since it was handed out; opening an account takes no initial balance.
**BalanceReports** adds what is told about the accounts: the totals of the bank, of its
clients and of the bank report (`total_balance()` converts the sum of each currency, the
others each account), the accounts table and the statement of a client report for a
period, and the balance lines, drawn from the movements alone; past `MaxSeries` lines
the smaller accounts share one.

**Rounding**, **Converter**, **Money** - `to_money()`, `convert()` and the external fee
over fractions of integers. **RiskAnalyzer** - what the analyzer remembers, its four rules
and verdicts, over transactions assessed in any order and again. `Screen` is
`bank.screen()`, as the processor calls it in an attempt (`Assess`) and as anyone who has
the bank may call it past the processor (`ScreenApart`): the analyzer remembers and
keeps that verdict too, the log counts a refusal, and the transaction stays what it was,
final or not. The write of any verdict may fail (`logged`), which ends an attempt like a
refusal does. Whether an attempt gets as far as being screened, and how one that was let
through ends, is open. **RiskReports** adds the profiles, the suspicious operations, the risk
report and the blocked counts of three reports, which come from the log, the assessments
and the failed transactions.

**ReportFiles** - the loop of `_write()`/`_write_all()` for calls of several
processes under one stem: each `path.exists()`, `open("xb")`, write and unlink is a
step, and `Break` ends a call anywhere, leaving its files. **ReportDirectory** is the
abstract promise: a call publishes all its files at once under one name nobody has, or
leaves what it broke off with; nothing of another call is ever touched. The mapping shows
the files of the calls that have ended.

`MC*.tla` give the constants their values; `*_proofs`, `TransactionProcessor_promises`
and `SumFacts` hold the proofs. Operators marked "faulty
variant" stand beside the definition they vary: replaced by it, a run must fail.

## 3. What the runs check

| Run | Question | Distinct states |
|---|---|---|
| `Processor_retries` | a transfer with three attempts, a second object under its id, two nights, any audit write failing; the reports on them | 2,730,000 |
| `Processor_types` | deposit, external transfer, unknown account, while staff and clients interfere | 2,040,000 |
| `Queue_order` | four transactions (two under one id) through the heaps, every answer counted | 1,290,000 |
| `Run_retries` | runs over two transfers that compete for the same money, and a second object under the id of one, also processed directly, while staff freeze | 825,000 |
| `Run_early` | violation: a retry attempted before it is due | |
| `Portal_acts` | two clients, one registered on the way, two sessions and one account, worked on by staff and sessions | 3,000,000 (up to symmetry) |
| `Ledger_books` | two accounts of three types and two currencies over three months; the reports on them | 443,000 (up to symmetry) |
| `Lines_cash` | violation: the balance lines show an investment portfolio too | |
| `Screening` | four transactions in three currencies, a retry each, over two days, one screened without the processor too; the reports on them | 975,000 |
| `Sessions_lockout` | violation: a client at the limit of failed logins is not blocked | |
| `Disk_files` | three exports at once, any of which may break off; writes of the audit file cut off anywhere, over three runs of the program | 29,000 |
| `Audit_cut` | violation: an event that shares its line with a cut-off one | |

Properties, by what they relate:

* *the money and the history*: `TransferAtomic` (each debit is settled once, in
  full), `StatusTellsMoney` (the status tells where the money is),
  `OnlyHolderMoves`, `RollbackNeverRefused`, `FloorKept`, and
  `ImplementsAtomicTransfer`;
* *attempts and records*: `HistoryComplete`, `ErrorLogComplete`, `RetryScheduled`;
* *the queue*: `ImplementsUrgentFirst` (each answer is the most urgent due one, or none
  with none due), `OneLiveEntry`, `IdStaysWithObject`, `ListForetells` (`pending()` names the one `next_ready()` hands out);
* *runs*: `NoRetryLost` (the batch a run puts back is accepted, and nothing pending is
  left out of the queue), `OneAttemptPerRun`, `EveryTransactionEnds`;
* *sessions and the portal*: `DeadStaysDead`, `DiesOfACause`, `OnlyLiveSessionsAct`,
  `ClientsBringNoMoney`;
* *the accounts*: `ImplementsAccountBook` (each balance is the sum of its movements;
  night, block and freeze hold), `WithinTerms`, `InterestOncePerMonth`
  (between two payments a due day lies, and a due day that came can be paid);
* *risk and money*: `FactorsTrue`, `RetryLooksNoWorse`, `MoneyExact`;
* *reports*: `ReportsReachNow` (lines, tables and totals against the accounts; lines and
  totals show the total value, as the code does and the docs do not, see `Lines_cash`),
  `StatementsAddUp` (any period against what the accounts had at both ends of it),
  `StatisticsAgree` (history, audit log and collected fees), `ReportMatchesStatement`
  (the transactions of a client against the movements), `ReportsAgree` (the blocked ones
  in three sources, `screen()` without the processor included), `ImplementsDirectory`, `EveryCallEnds`;
* *the audit log*: `MemoryInFile`, `NeverHalfRead`.

### Bounds

`MaxTime` stops the clock: three slots make a day with one night slot, so time 6
has two nights and both edges of each. `MaxAttempts` of 2 or 3 is enough for a
rollback after a rollback. `MaxSequence` bounds the entries pushed and
`MaxBalance` what clients pay in. `MaxFailures` is one above the lockout limit.
`MaxEvents` and `MaxRestarts` bound the journal. A balance of one or two units
makes "enough once, not twice" and "enough with an overdraft" happen. In
ProcessQueue, when the clock stands at `MaxTime`, `WaitForDue` lets it jump to the
moment the next waiting transaction is due, so that the bound does not decide
whether a retry happens.

Ledger_books runs over months of 2, 1 and 2 days, of two slots each, up to time 6, the first
moment after which interest can have been paid twice; so that an account opened on a last
day meets a shorter month and a longer one again, where a date that drifts shows; two
accounts of any of three types are enough for every operation on one while the other's
movements lie between. `MaxMovements` of 3 is enough to open, use and close an account,
or to open it and pay interest twice. `MaxSeries` is 1 there, so that two accounts
share a line, and its two currencies have a rate that makes the two totals differ by a rounding. Screening's
amounts lie on both sides of each threshold and fee limit, with rates that do not divide
evenly; its scores let one transfer be let through, retried and refused, and be let through
when it is screened again after a refusal. That transfer is the one in `ScreenedApart`: its
verdicts apart come before, between and after its attempts and those of the other transfer
of its pair. `MaxVerdicts` of 5 is one more than the transactions, `MaxLost` of 1 one lost
write, of any of them. Disk_files checks the two modules
of files in one run: they share no file, so the journal is written after one end of the
exports (each broke off at once), which loses none of its states. Three calls, each two of which share one part, are the smallest
case where a call can fail on a file of a call that fails itself; `MaxName` is above the
number of names the property allows.

Deadlock is not checked: the system may stop, with every transaction in a final
status and the clock at its bound.

### Fairness

`EveryTransactionEnds` is checked under `Fairness` of ProcessQueue: Python code that
was entered runs on (`TakeNext`, `NoneLeft`, `Sort`, `PutBack`, the steps of an
attempt), the application calls `process_queue()` again and again (`StartRun`, as
`main.py` does), and time passes. Weak fairness is enough: each of these stays
enabled until it is taken or something else of the same run is.
`EveryCallEnds` is checked under weak fairness of the loop of each call of `_write()`:
a process that lives gets on with it. It holds because all calls take their parts in
one order: of the calls that meet under a name, one of those holding the last part fought over never has
to give it up. Nothing is assumed
of the audit log, of clients or of staff.

### What the violations show

* `Run_early`: `next_ready()` checks an entry of the ready heap for liveness and
  status only. A transaction that waits in the queue, is processed directly and
  fails with a retry is pending again, due later; its old entry hands it out at
  once, though the docstring promises a transaction "that is due now".
* `Sessions_lockout`: `authenticate()` counts the failure, writes the audit event,
  then blocks. If the write of the last allowed failure raises, the client stays
  unblocked at the limit and the right password resets the count.
* `Lines_cash`: `docs/features.md` says of a balance line that it "shows the cash on the
  accounts (an investment portfolio is not a balance movement)"; `_balance_steps()` draws
  the total value, portfolio included, and says so in its docstring. `ReportsReachNow` and
  `StatementsAddUp` follow the code.
* `Audit_cut`: a write that fails midway leaves a line without its newline. The next
  event, written without an error, is appended to it and cannot be read back.

## 4. What is proved

TLAPS checks every theorem below, for any accounts, clients, transactions, amounts and
delays, and whatever the values of the constants that bound a model's counters and clock.
Of the 40 properties of the passing runs 38 are stated by a theorem; the other two
are liveness properties.

### The theorems

| Theorem | States |
|---|---|
| *TransactionProcessor_proofs* | |
| `TypeCorrect`, `InvariantHolds` | `ProcSpec => []TypeOK`, `ProcSpec => []ProcInv` |
| `TransfersAreAtomic` | `ProcSpec => []TransferAtomic` |
| `StatusIsHonest` | `ProcSpec => []StatusTellsMoney` |
| `RollbacksGoThrough` | `ProcSpec => []RollbackNeverRefused` |
| *TransactionProcessor_promises* | |
| `ProcessorIsAtomicTransfer` | `ProcSpec => ImplementsAtomicTransfer` |
| `MovementsAreTheHolders` | `ProcSpec => []OnlyHolderMoves` |
| `FloorsAreKept` | `ProcSpec => []FloorKept` |
| `HistoryIsComplete`, `ErrorLogIsComplete` | `ProcSpec => []HistoryComplete`, `ProcSpec => []ErrorLogComplete` |
| `RetriesAreScheduled` | `ProcSpec => RetryScheduled` |
| `ReportsExplainStatements` | `JournalSpec => []ReportMatchesStatement` |
| `TheStatisticsAgree` | `JournalSpec => []StatisticsAgree` |
| *ProcessQueue_proofs* | |
| `QueueInvHolds` | `QueueSpec => []QueueInv` |
| `QueuedOnce`, `IdsStay` | `QueueSpec => []OneLiveEntry`, `QueueSpec => IdStaysWithObject` |
| `QueueIsUrgentFirst` | `RequestsSpec => ImplementsUrgentFirst` |
| `PendingForetells` | `QueueSpec => ListForetells` |
| `RunInvHolds`, `RunTypesHold` | `RunSpec => []RunInv`, `RunSpec => []RunTypeOK` |
| `RetriesAreKept`, `RunsAttemptOnce` | `RunSpec => []NoRetryLost`, `RunSpec => OneAttemptPerRun` |
| `RunsKeepPromises`, `RunsKeepRecords` | the processor's atomicity, statuses, rollbacks, movements, floors, history and error log under `RunSpec` |
| `RunsAreAtomicTransfers` | `RunSpec => ImplementsAtomicTransfer` |
| `RunsScheduleRetries` | `RunSpec => RetryScheduled` |
| *ClientPortal_proofs* | |
| `SessionTypesHold` | `SessionSpec => []SessionTypeOK` |
| `DeadSessionsStayDead`, `SessionsDieOfACause` | `SessionSpec => DeadStaysDead`, `SessionSpec => DiesOfACause` |
| `LedgerTypesHold`, `AccountsStayWithinTerms` | `LedgerSpec => []LedgerTypeOK`, `LedgerSpec => []WithinTerms` |
| `LedgerKeepsAccountBook` | `LedgerSpec => ImplementsAccountBook` |
| `InterestOnceAMonth` | `LedgerSpec => []InterestOncePerMonth` |
| `PortalKeepsTerms`, `PortalKeepsAccountBook`, `PortalPaysOnceAMonth`, `SessionsLiveOnce` | the same of accounts and sessions under `PortalSpec` |
| `HistoryTellsWorth`, `NoMoneyFromClients` | `PortalSpec => []HistoryTells`, `PortalSpec => []ClientsBringNoMoney` |
| `LiveSessionsAct` | `PortalSpec => OnlyLiveSessionsAct` |
| *BalanceReports_proofs* | |
| `HistoryIsAChain` | `PortalSpec => [](LedgerTypeOK /\ WithinTerms /\ HistoryInv)` |
| `ReportsTellThePresent`, `StatementsExplainPeriods` | `LedgerSpec => []ReportsReachNow`, `LedgerSpec => []StatementsAddUp` |
| `PortalReportsHold` | `PortalSpec => [](ReportsReachNow /\ StatementsAddUp)` |
| *Files_proofs* | |
| `AuditTypesHold`, `FileHasWhatWasKept` | `AuditSpec => []AuditTypeOK`, `AuditSpec => []MemoryInFile` |
| `FileIsNeverHalfRead` | `AuditSpec => []NeverHalfRead` |
| `FilesInvHolds`, `FilesAreADirectory` | `FilesSpec => []FilesInv`, `FilesSpec => ImplementsDirectory` |
| *RiskAnalyzer_proofs* | |
| `RiskInvHolds`, `RiskTypesHold` | `RiskSpec => []RiskInv`, `RiskSpec => []RiskTypeOK` |
| `VerdictsAreTrue`, `RetriesLookNoWorse` | `RiskSpec => FactorsTrue`, `RiskSpec => []RetryLooksNoWorse` |
| `MoneyIsExact` | `RiskSpec => MoneyExact` |
| `BlockingIsFinal`, `RiskReportsAgree` | `RiskSpec => [](RiskInv /\ BlockedForGood)`, `RiskSpec => []ReportsAgree` |

### The assumptions

They are the named assumptions of the modules, which TLC evaluates with the values of
every run. `ClockAssumption`, `TransactionAssumption`, `ProcessorAssumption`,
`QueueAssumption`, `DirectAssumption`, `SessionAssumption`, `LedgerAssumption`,
`CalendarAssumption`, `ConverterAssumption`, `FeeAssumption`, `RiskAssumption`,
`AuditAssumption` and `FilesAssumption` give the constants their types, as the
constructors and settings in the code do. Some say more. `AmountAssumption`, `ReportAssumption`
and `ScreeningAssumption` have accounts, clients and transactions finite, since reports add
them up and lists are sorted. `CalendarLasts` says that the calendar
a model is given is longer than its clock runs: `next_monthly_date()` has no last month,
a sequence of month lengths has.

### The arguments

Few of the properties are inductive; what each proof adds is the following.

**An attempt.** `TransferAtomic` says nothing of a transaction whose id nobody holds, or
of where in its attempt it is. `ProcInv` adds that. A transaction that is not running is
at rest (`AtRest`): nothing of it has moved, or all of it has and it is completed (or
failed by a defect). The running one (`InAttempt`) has moved exactly what its step says:
nothing up to the debit, one open debit between debit and credit, all of it after the
credit. Under an id nobody holds nothing is recorded (`UnclaimedUnused`), and an id is
held by a transaction that carries it (`IdsHeld`). Frame lemmas (`MoneyFrame`,
`RestFrame`, `AttemptFrame`) say what a step that touches one key of the history leaves
alone, `RollbackAllowed` that the checks of `refund()` follow from one open debit. That
delays are numbers rests on `PowerOfTwo`, which counts the subsets of an interval.

**Its refinement.** `Seen` (`ProcInv`, `MovedSeen`, `MoneySeen`) says what the mapping
shows of a state: whose money has moved, and what an account has with its open debits
added back. One lemma per step then maps it to the abstract transfer or a stutter: the
debit of a transfer is a stutter, its credit the abstract step, its rollback a stutter; of
a transaction with one side in this bank that side is the abstract step.

**Records and reports.** `RecordedWhenFinal` ties the history to the final statuses,
`LoggedSoFar` and `Counted` the error log to the failures each transaction has had so
far, also in the middle of an attempt, when the count of attempts is ahead of the log.
Three invariants carry the reports: `TallyTold` (a credit that was made has the
transaction's amount, one that was not has none), `FeesCollected` (the processor's fees are
the tariff fees of the completed ones) and `JournalTold` (the journal is a part of the
outcomes, all of them when no write fails). `RetriesAreScheduled` is arithmetic of the
night window, for days and nights of any length.

**The queue.** `HeapsInv` (`NumbersUnique`, `EntriesKnown`, `QueuedLive`) says that a
sequence number is used once, that the live number of a queued id is in a heap, with the
priority and the object known under the id. `QueuedWaits` and `LiveInPlace` add that what is
queued waits, and that a live entry lies in the ready heap with its transaction due, or in
the delayed one under its due moment. Those two hold for the queue alone; when runs process transactions directly they do
not, which is what `Run_early` finds, and so the invariant of runs uses `HeapsInv` only.
The refinement shows that the first live entry of the ready heap, after promotion, is
the most urgent due one in the line (`CandidateWaits`, `PopTakes`), and that the line has
none due when the heap has no such entry. Every step of QueueRequests is one of the
queue (`RequestsAreQueue`), so that what is proved of the queue holds there.
`PendingForetells` compares that choice (`HandsOut`) with the list: due moments and ranks
order the queued ids strictly and there are finitely many, so that the sorted list exists
(`ListGood`) and its order is the one the heaps follow, although their keys were
computed at other moments; taking the first one off leaves the others' order alone.

**Runs.** `RunInv` composes `ProcInv` and `HeapsInv` and says where every transaction of
a run is: reported so far (`Collected`), taken off and not back (`TakenOff`), still
queued (`StillQueued`), with the batch of retries no two of one id (`Sorted`). That the
queue accepts the batch follows; without it `requeue()` could refuse and lose retries.
Every step of a run is one of the processor or one beside its attempts (`RunSteps`,
`BesideAttempts`): a jump of the clock or the cancellation of a transaction that waits, of
which nothing has moved. So the processor's refinement and records hold under runs, with
no second proof of any of its steps.

**Accounts.** An operation of staff or of a session is one `OperationBy`, so that each
lemma is proved once for both specifications. `LedgerTypeOK` and `WithinTerms` together
are inductive. The refinement of AccountBook reads the movements as the book.
`HistoryTells` says that the last movement of an account tells what it is worth; with it a
movement that a session made compares two values of the account. `InterestInv`
(`PaidWell`, `DatesInOrder`) keeps, for every payment, a due day since the one before;
its lemmas settle `next_monthly_date()` for months of any lengths (`MonthsFollow`,
`NextDate`), among them that the day of the opening comes back after a shorter month.

**Reports on accounts.** `HistoryInv` makes the movements of an account a chain: each starts
from the balance the one before it left (`Chained`), the last tells what the account has
and is worth (`CashTells`, `HistoryTells`), moments never decrease (`MomentsRise`), and
nothing is recorded of an account that was never opened (`OnlyOpened`). So the amounts of
a statement telescope to the difference of the balances at the ends of its period,
movements of one moment included. A line ends with the sum of what its accounts were
worth before its end, and the lines of a client share its accounts out between them,
whichever accounts get a line of their own. The totals by client and by type are sums
over parts of the open accounts. For the total by currency, twice the distance between
a rounded conversion and its exact fraction is at most a cent (`CurrencyIsClose`): one such
bound for each account, one for each currency (`ReportedIsClose`).

**Sessions.** `DeadStaysDead` needs the types: an issued session never enters the store
again, the clock never goes back, and unblocking empties the store for the client.

**The audit log.** `AuditInv` adds to the types and `MemoryInFile` that the pieces of events
in the file are in the order they were recorded, however lines were cut (`FileOrdered`), so
that no event can be read twice.

**Risk and money.** `Remembers` ties the analyzer's memory to the assessments and the
completed transfers, `FiredBefore` says that a rule but the frequency that would fire on
a transaction now fired on all its attempts. `MoneyIsExact` rests on rounding over
fractions: nearest, monotone and unchanged by cancelling.

**Reports on risk.** `BlockedForGood` says that an attempt whose verdict refused it, or was
not logged, is the last of its transaction, which stays failed. It says nothing of verdicts
without the processor: these come before and after, and change no status (`ApartFacts`).
Hence each refused transaction has one refusal of an attempt (`RefusedOnce`) and is among
the ids of the bank report (`IdsRefused`); the events of the log are these refusals and
those apart, but for the lost writes (`LogCounts`); and unless it was screened apart too,
the latest assessment of a refused transaction is its refusal (`LatestRefused`). Each
assessed transaction has one latest assessment, so the counts of the risk report are sums
over the clients, and `Level` is monotone in the score, so the ranking by level and score
is one by score.

**Exports.** `Progress` ties the state of a call to the parts it has written and removed,
`Holding` the files on the disk to the calls that hold them.

**Induction.** The library states it for a predicate, which the installed provers cannot
instantiate. `SumFacts` states it with a set in the place of the predicate, over the
naturals and over finite sets, both from a well-founded relation, and derives what a sum
over a finite set does when an element is added, taken out, renamed or the set is split
into parts, and that a finite set with a strict order can be listed in it.

### Model-checked only

* `EveryTransactionEnds` and `EveryCallEnds`: liveness under fairness.
* The four properties whose violation is shown.

## 5. What is abstracted or left out

* Money is a natural number; conversions and fees are constants of each
  transaction; the risk verdict is any. Amounts of the environment are small sets.
* The bank's operations between attempts appear in TransactionProcessor when they
  succeed. Interest, the portfolio and opening accounts are in Ledger, not there.
* Ledger's amounts are in cents. It has no transactions: `refund()` and `screen()` are
  the processor's, and so the movements of a transfer are in TransactionReports' client
  report, those of the bank's other operations in BalanceReports'.
* An external transfer names an account of another bank as its recipient.
* RiskAnalyzer has the attempts one at a time and calls of `screen()` past the processor
  between them; in TransactionProcessor, where a verdict is any and no status or money
  depends on those calls, only the processor calls it.
* `_guard()` reads the clock and the movement of the same operation reads it again
  (`src/services/bank.py:187`, `:276`); in Ledger an operation has one reading.
* `convert()` divides with the 28 digits of a `Decimal` before it rounds
  (`src/services/currency.py:69`); Converter is exact.
* RiskAnalyzer sees a transaction's party and amounts as constants and each of them
  under an id of its own; objects that share an id are the processor's subject.
* The exports of a report under other stems touch other files; reading the directory
  and an `OSError` of `mkdir` leave nothing behind.
* `Client.unblock()` called on the model, past the bank, is not modelled:
  `Bank.unblock_client()` is the operation the bank offers. `Client.block()` past
  the guard is, since `resolve_session` names it.
* A presented session is the one that was issued; one with a field changed is
  refused like an unknown id.
* Password hashing, tokens, formatting, logging, the layout of reports and drawing are
  left out, and so are averages, rates, the largest transaction, cancelled ones in the
  statistics and the order of the clients' ranking.
* Not modelled at all: `report.py`, `charts.py` and `exporters.py` (checks of a table's
  shape, text, JSON, CSV and PNG), `main.py` and `legacy_demo.py` (scripted demonstrations
  of the operations above), the settings, the logging set-up and the exception classes.

### Words without a run

* `_write_all()` says it writes "every file, or none". It undoes its files only when a
  name is taken: after any other `OSError` (a full disk) the files written so far
  stay, the last perhaps half-written. `Break` models it; the properties hold with it,
  since they are about the calls that return.
* A comment of `transaction_statistics()` (`src/services/bank_report.py:158`) says that the
  latest assessment of a blocked transaction "is the blocking one". A transaction refused
  in an attempt can be screened again without the processor and score lower, once the
  recipient's account is no longer recent. The statistics, which look at every assessment,
  still count it as blocked; the profile of its client, by the latest, does not.
  `ScreenApart` models it, and `ReportsAgree` says of such a transaction only what holds.

## 6. Plan

Everything with a state or a rule about money is modelled, and every safety property that
the passing runs check is proved. Left:

Interest and the portfolio in the environment of the processor, and the sessions of
`submit()` in ProcessQueue, with the proofs that go through the new steps.
