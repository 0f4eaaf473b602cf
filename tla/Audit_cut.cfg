\* A write that is cut off, and one that succeeds after it.
CONSTANTS
    MaxEvents = 3  MaxRestarts = 1
SPECIFICATION AuditSpec
INVARIANTS NothingLost
CHECK_DEADLOCK FALSE
