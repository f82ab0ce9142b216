SPECIFICATION Spec
CONSTANTS
    t1 = t1
    t2 = t2
    Thread = {t1, t2}
    Page = {1, 2, 3}
    Ranges <- Ranges2
    Arrays <- Arrays2
    MaxFail = 1
INVARIANTS Accounted ModeRight
CHECK_DEADLOCK FALSE
