SPECIFICATION Spec
CONSTANTS
    Null = Null
    p1 = p1
    p2 = p2
    r1 = r1
    r2 = r2
    a1 = a1
    f1 = f1
    Pid = {p1, p2}
    Rip <- MCRip
    Addr <- MCAddr
    Exit <- MCExit
    Targets = {r1}
    SlotOf <- MCSlotOf
    JitLen <- MCJitLen
    Fresh = {0}
    MaxExe = 2
    AddLimit = 1
    BlockBytes = 3
    MaxPay = 2
    StatLimit = 2
    CompileMayFail = FALSE
    MaxRestart = 0
    MaxBlock = 2
    MaxHit = 1
    MaxFail = 2
INVARIANTS TableFits RunsSoundCode RequestIsCurrent AnswerHasMiss
PROPERTY NoOverwrite
