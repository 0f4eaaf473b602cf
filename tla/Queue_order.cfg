\* Four transactions, two of them under one id, three priorities of arrival.
CONSTANTS
    t1 = t1  t2 = t2  t3 = t3  t4 = t4  i1 = i1  i2 = i2  i3 = i3
    NoTxn = NoTxn  Txns = {t1, t2, t3, t4}  Ids = {i1, i2, i3}
    IdOf <- MCIdOf  Type <- MCType  FirstDue <- MCFirstDue  Priority <- MCPriority
    DayLength = 3  NightEnd = 1  MaxTime = 3
    Delays = {1}  CancelledOutside = {t1}  MaxSequence = 5
SPECIFICATION RequestsSpec
INVARIANT OneLiveEntry
PROPERTIES IdStaysWithObject ListForetells ImplementsUrgentFirst
CHECK_DEADLOCK FALSE
