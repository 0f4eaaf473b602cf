\* Three calls at once, each of which may break off at any step; and every way writes
\* of the journal can be cut off, over several runs of the program.
CONSTANTS
    x = x  y = y  z = z  p = p  q = q  r = r
    Calls = {x, y, z}  Order <- MCOrder  Parts <- MCParts  MaxName = 4
    MaxEvents = 5  MaxRestarts = 2
SPECIFICATION DiskSpec
INVARIANTS AuditTypeOK MemoryInFile NeverHalfRead
PROPERTIES ImplementsDirectory EveryCallEnds
CHECK_DEADLOCK FALSE
