\* The fence as contract.zig states it, with a dead row revived.
SPECIFICATION Spec
CONSTANTS
    w1 = w1
    w2 = w2
    p1 = p1
    p2 = p2
    Workers = {w1, w2}
    Procs = {p1, p2}
    ProcOf <- OneEach
    NoWorker = NoWorker
    Ids = {1}
    Kinds <- LeaseKinds
    Keys = {"schedule"}
    NoKey = NoKey
    NoKind = NoKind
    Priority <- LeasePriority
    Times <- LeaseTimes
    Delays <- LeaseDelays
    Transactional = {"pay"}
    Scheduled = {}
    Overlapping = {}
    Dropping = {}
    Period <- LeasePeriod
    ScheduleKey = "schedule"
    UserKinds = {"mail", "pay"}
    Timeout = 1
    Margin = 1
    Reseed = 2
    Waits = {0}
    MaxTime = 4
    MaxPushes = 1
    MaxFaults = 1
    MaxStops = 1
    MaxRevivals = 1
SYMMETRY Swap
INVARIANT
    LateAnswerMatchesNothing
