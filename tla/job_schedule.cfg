\* Schedules: what is queued under the schedule's key, and when.
SPECIFICATION Spec
CONSTANTS
    w1 = w1
    w2 = w2
    p1 = p1
    p2 = p2
    Workers = {w1, w2}
    Procs = {p1, p2}
    ProcOf <- OneEach
    NoWorker = NoWorker
    Ids = {1, 2}
    Kinds <- TickKinds
    Keys = {"schedule"}
    NoKey = NoKey
    NoKind = NoKind
    Priority <- TickPriority
    Times <- TickTimes
    Delays <- TickDelays
    Transactional = {}
    Scheduled = {"skip"}
    Overlapping = {}
    Dropping = {"skip"}
    Period <- TickPeriod
    ScheduleKey = "schedule"
    UserKinds = {}
    Timeout = 0
    Margin = 1
    Reseed = 2
    Waits = {0}
    MaxTime = 3
    MaxPushes = 0
    MaxFaults = 1
    MaxStops = 1
    MaxRevivals = 1
SYMMETRY Swap
INVARIANTS
    KeyNamesOneLiveRow
    SkipNeverOverlaps
