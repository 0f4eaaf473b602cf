\* Four transactions assessed in any order, with a retry each, over two days, and one of
\* them without the processor.
CONSTANTS
    t1 = t1  t2 = t2  ex = ex  dp = dp  c1 = c1  c2 = c2
    pairIn = pairIn  pairOut = pairOut  rub = rub  usd = usd  kzt = kzt
    Txns = {t1, t2, ex, dp}  NoPair = NoPair  NotHere = NotHere
    ClientOf <- MCClientOf  Pair <- MCPair  RequestedAt <- MCRequestedAt  OpenedAt <- MCOpenedAt
    Amount <- MCAmount  CurrencyOf <- MCCurrencyOf
    Score <- MCScore  CriticalScore = 7  Threshold = 5  CriticalThreshold = 13
    Frequency = 2  Window = 3  MinAccountAge = 4  LateStart = 2  LateEnd = 1
    MediumThreshold = 4  HighThreshold = 10  MaxAttempts = 2
    ScreenedApart = {t2}  MaxVerdicts = 5  MaxLost = 1
    Currencies = {rub, usd, kzt}  Base = rub  Rate <- MCRate  FeeRate <- MCFeeRate
    MinimumFee = 2  MaximumFee = 5
    DayLength = 3  NightEnd = 1  MaxTime = 4
SPECIFICATION RiskSpec
INVARIANTS RiskTypeOK RetryLooksNoWorse ReportsAgree
PROPERTIES FactorsTrue MoneyExact
CHECK_DEADLOCK FALSE
