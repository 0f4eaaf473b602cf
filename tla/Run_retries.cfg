\* Two transfers that compete for the same money and a withdrawal under the id of
\* one of them, queued or processed directly; audit writes that fail; staff who freeze.
CONSTANTS
    tr = tr  t2 = t2  du = du  a1 = a1  p1 = p1  c1 = c1  c2 = c2  i1 = i1  i2 = i2
    NoTxn = NoTxn  NoAccount = NoAccount
    Txns = {tr, t2, du}  Ids = {i1, i2}  Accounts = {a1, p1}  Clients = {c1, c2}
    IdOf <- MCIdOf  Type <- MCType  FirstDue <- MCFirstDue  Priority <- MCPriority
    Owner <- MCOwner  Sender <- MCSender  Recipient <- MCRecipient
    Debit <- MCDebit  Credit <- MCCredit  Fee <- MCFee
    Floor <- MCFloor  OwnFee <- MCOwnFee  Limit <- MCLimit  Large = 1
    OpeningCash <- MCOpening  Unopened = {}
    MaxAttempts = 2  RetryDelay = 1  AuditMayFail = TRUE
    DayLength = 3  NightEnd = 1  MaxTime = 3
    Freezable = {p1}  Blockable = {}  CashAmounts = {}  MaxBalance = 1
    Delays = {}  CancelledOutside = {}  ProcessedOutside = {du}  MaxSequence = 4
SPECIFICATION FairRunSpec
INVARIANTS RunTypeOK NoRetryLost
PROPERTIES OneAttemptPerRun EveryTransactionEnds
CHECK_DEADLOCK FALSE
