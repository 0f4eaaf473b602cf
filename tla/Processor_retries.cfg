\* A transfer and a duplicate of its id, an audit log that may fail, a clock
\* that crosses two nights.
CONSTANTS
    tr = tr  du = du  dp = dp  ex = ex
    a1 = a1  a2 = a2  p1 = p1  c1 = c1  c2 = c2  i1 = i1  i3 = i3  i4 = i4
    NoTxn = NoTxn  NoAccount = NoAccount
    Txns = {tr, du}  Ids = {i1}  Accounts = {a1, p1}  Clients = {c1, c2}
    IdOf <- MCIdOf  Type <- MCType  FirstDue <- MCFirstDue
    Owner <- MCOwner  Sender <- MCSender  Recipient <- MCRecipient
    Debit <- MCDebit  Credit <- MCCredit  Fee <- MCFee
    Floor <- MCFloor  OwnFee <- MCOwnFee  Limit <- MCLimit  Large = 1
    Amount <- MCAmount
    OpeningCash <- MCOpening  Unopened = {}
    MaxAttempts = 3  RetryDelay = 1  AuditMayFail = TRUE
    DayLength = 3  NightEnd = 1  MaxTime = 6
    Freezable = {}  Blockable = {}  CashAmounts = {1}  MaxBalance = 2
SPECIFICATION JournalSpec
INVARIANTS ProcInv TransferAtomic OnlyHolderMoves RollbackNeverRefused
           HistoryComplete ErrorLogComplete StatisticsAgree ReportMatchesStatement
PROPERTIES RetryScheduled ImplementsAtomicTransfer
CHECK_DEADLOCK FALSE
