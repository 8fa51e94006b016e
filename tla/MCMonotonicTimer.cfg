\* Four and a half ticks per nanosecond, or fewer or more; the counter wraps around.
CONSTANTS
    NANOSECONDS_PER_MICROSECOND = 2
    frequency = 9
    shift2 = 256
    UINT64_MODULUS = 128
    thresholdNum = 1
    thresholdDen = 3
    Interval = 4
    Delay = 1
    BootTime = 2
    FirstTsc = 120
    Rates = {2, 4, 5, 7}
    MaxTime = 11
SPECIFICATION Spec
INVARIANTS
    PerfReleased
    ReliableClockStaysValid
    ReportedTimeBounded
PROPERTY GetMonotone
CHECK_DEADLOCK FALSE
