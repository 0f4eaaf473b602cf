\* Two accounts of three types, over three short months, blocked clients included.
CONSTANTS
    a1 = a1  a2 = a2  c1 = c1
    Clients = {c1}  Accounts = {a1, a2}  Owner <- MCOwner  Offers <- MCOffers
    NoOffer = NoOffer  NoSession = NoSession  Assets = {"stocks", "etf"}  Amounts = {1, 2}
    MaxBalance = 3  MaxMovements = 3  MonthLength <- MCMonths
    rub = rub  usd = usd  Currencies = {rub, usd}  Base = rub  Rate <- MCRate
    MaxSeries = 1  Unlimited = Unlimited
    SessionIds = {}  NotIssued = NotIssued
    Newcomers = {}  ComesOfAge = 0
    MAX_FAILED_ATTEMPTS = 1  SESSION_TTL = 1  MaxFailures = 1
    DayLength = 2  NightEnd = 1  MaxTime = 6
SPECIFICATION LedgerSpec
INVARIANTS LedgerTypeOK WithinTerms InterestOncePerMonth ReportsReachNow StatementsAddUp
PROPERTIES ImplementsAccountBook
CHECK_DEADLOCK FALSE
SYMMETRY Alike
