\* What happens in the end: rows finish, schedules heal, a shutdown ends.
SPECIFICATION FairSpec
CONSTANTS
    w1 = w1
    w2 = w2
    p1 = p1
    p2 = p2
    Workers = {w1}
    Procs = {p1}
    ProcOf <- OneEach
    NoWorker = NoWorker
    Ids = {1, 2, 3}
    Kinds <- TickKinds
    Keys = {"schedule"}
    NoKey = NoKey
    NoKind = NoKind
    Priority <- TickPriority
    Times <- TickTimes
    Delays <- TickDelays
    Transactional = {}
    Scheduled = {"queue"}
    Overlapping = {"queue"}
    Dropping = {}
    Period <- TickPeriod
    ScheduleKey = "schedule"
    UserKinds = {}
    Timeout = 0
    Margin = 1
    Reseed = 2
    Waits = {0}
    MaxTime = 5
    MaxPushes = 0
    MaxFaults = 1
    MaxStops = 1
    MaxRevivals = 1
PROPERTIES
    SchedulesHeal
    RowsEnd
    ShutdownEnds
