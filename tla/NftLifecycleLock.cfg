CONSTANTS
    p1 = p1  p2 = p2  s1 = s1  s2 = s2  s3 = s3  x1 = x1  x2 = x2
    Processes = {p1, p2}
    Callers = {s1, s2, s3, x1, x2}
    HomeOf    <- Homes
    ModeOf    <- Modes
    MaxFaults = 2
SPECIFICATION LiveSpec
INVARIANTS
    NoLostWakeup
    LifecycleExclusion
PROPERTIES
    FirstComeFirstServed
    EveryCallServed
CHECK_DEADLOCK TRUE
