\* A failed login whose audit write fails.
CONSTANTS
    Clients = {c1, c2}  SessionIds = {s1, s2, s3}  NotIssued = NotIssued
    Newcomers = {c2}  ComesOfAge = 1
    MAX_FAILED_ATTEMPTS = 2  SESSION_TTL = 2  MaxFailures = 3
    DayLength = 3  NightEnd = 1  MaxTime = 3
SPECIFICATION SessionSpec
INVARIANTS LockedOut
CHECK_DEADLOCK FALSE
