SPECIFICATION Spec
CONSTANTS
    t1 = t1
    t2 = t2
    Thread = {t1, t2}
    Access <- MCAccess
    Vma = {"none", "stack", "ro", "pkey"}
    Symbols <- MCSymbols
INVARIANT UBFaultHandled
CHECK_DEADLOCK FALSE
