\* A deposit, an external transfer and a transfer from an account the bank does
\* not have, while staff freeze, close and block and clients move cash.
CONSTANTS
    tr = tr  du = du  dp = dp  ex = ex
    a1 = a1  a2 = a2  p1 = p1  c1 = c1  c2 = c2  i1 = i1  i3 = i3  i4 = i4
    NoTxn = NoTxn  NoAccount = NoAccount
    Txns = {tr, dp, ex}  Ids = {i1, i3, i4}  Accounts = {a2, p1, a1}  Clients = {c1, c2}
    IdOf <- MCIdOf  Type <- MCType  FirstDue <- MCFirstDue
    Owner <- MCOwner  Sender <- MCSender  Recipient <- MCRecipient
    Debit <- MCDebit  Credit <- MCCredit  Fee <- MCFee
    Floor <- MCFloor  OwnFee <- MCOwnFee  Limit <- MCLimit  Large = 1
    OpeningCash <- MCOpening  Unopened = {a1}
    MaxAttempts = 2  RetryDelay = 1  AuditMayFail = TRUE
    DayLength = 3  NightEnd = 1  MaxTime = 3
    Freezable = {p1}  Blockable = {c2}  CashAmounts = {2}  MaxBalance = 2
SPECIFICATION ProcSpec
INVARIANTS StatusTellsMoney FloorKept
CHECK_DEADLOCK FALSE
