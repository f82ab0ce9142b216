SPECIFICATION FairSpec
CONSTANTS
    t1 = t1
    t2 = t2
    Thread = {t1, t2}
    Access <- MCAccess
    Vma = {"none", "stack", "ro", "pkey"}
    Symbols <- MCSymbols
INVARIANTS SemBalanced SleepsSafely VmaIsCurrent UserAccessNoOops FindsPrefetch
PROPERTY FaultEnds
CHECK_DEADLOCK FALSE
