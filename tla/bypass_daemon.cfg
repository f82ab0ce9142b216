SPECIFICATION FairSpec
CONSTANTS
    Null = Null
    p1 = p1
    p2 = p2
    r1 = r1
    r2 = r2
    a1 = a1
    f1 = f1
    Pid = {p1}
    Rip <- MCRip
    Addr <- MCAddr
    Exit <- MCExit
    Targets = {r1}
    SlotOf <- MCSlotOf
    JitLen <- MCJitLen
    Fresh = {0, 1}
    MaxExe = 2
    AddLimit = 1
    BlockBytes = 3
    MaxPay = 2
    StatLimit = 2
    CompileMayFail = TRUE
    MaxRestart = 1
    MaxBlock = 2
    MaxHit = 1
    MaxFail = 3
INVARIANT RunsSoundCode
PROPERTY Served
