CONSTANTS
    p1 = p1  p2 = p2  j1 = j1  j2 = j2  NoJob = NoJob
    Pods <- TwoPods
    Jobs <- OneJob
    Period = 2
    LockTTL = 2
    Idle = 2
    MaxHold = 1
    MaxFailures = 2
    MaxTroubles = 1
    Schedules <- AllKinds
    MonthDays = 14
    Window = 48
    Fallback = 1
    MaxDelay = 3
    Horizon = 672
SPECIFICATION CronSpec
SYMMETRY Symmetry
INVARIANTS LockExcludes JobsKept FirstMatch
PROPERTY FiresOnce
