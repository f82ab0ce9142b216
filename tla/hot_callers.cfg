SPECIFICATION Spec
CONSTANTS
    Pid = {1, 2}
    Rip = {1, 3}
    max_caller = 2
    zz_hash <- MCHash
    syscall_short_th = 1
    hot_caller_th = 1
    milestone_cnt = 2
    milestone_duration_th = 2
    MaxTime = 3
    MaxGap = 1
INVARIANTS PerMilestone InterestAlone
PROPERTY AddedIsHot
CHECK_DEADLOCK FALSE
