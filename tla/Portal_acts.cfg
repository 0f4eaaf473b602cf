\* Two clients, two sessions and the account of one client, while staff work on it.
CONSTANTS
    a1 = a1  c1 = c1  c2 = c2
    Clients = {c1, c2}  Accounts = {a1}  Owner <- MCOwner  Offers <- MCOffers
    NoOffer = NoOffer  NoSession = NoSession  Assets = {"etf"}  Amounts = {1}
    rub = rub  Currencies = {rub}  Base = rub  Rate <- MCRate
    MaxBalance = 1  MaxMovements = 3  MonthLength <- MCMonths
    SessionIds = {s1, s2}  NotIssued = NotIssued
    Newcomers = {c2}  ComesOfAge = 1
    MAX_FAILED_ATTEMPTS = 2  SESSION_TTL = 2  MaxFailures = 2
    DayLength = 3  NightEnd = 1  MaxTime = 2
SPECIFICATION PortalSpec
INVARIANT ClientsBringNoMoney
PROPERTIES DeadStaysDead DiesOfACause OnlyLiveSessionsAct
CHECK_DEADLOCK FALSE
SYMMETRY AlikeSessions
