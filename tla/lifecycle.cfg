SPECIFICATION FairSpec
CONSTANTS
    Thread = {t1, t2}
    Reader = {r1, r2}
    MaxLoad = 2
INVARIANTS SysfsSafe ThreadsSafe TableWindow
PROPERTY UnloadEnds
CHECK_DEADLOCK FALSE
