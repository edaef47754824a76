\* The harnesses and the checks with a candidate of one process and one of
\* two that share a port, run twice, with an interrupt or a Popen that raises;
\* and the check of the dev loop, with three kinds of trouble around the loop.
SPECIFICATION Spec
CONSTANTS
    Cands = {"bun1", "bun8"}
    Order <- TwoOrder
    Port <- MCPort
    Procs <- MCProcs
    Sharing = {"bun8"}
    MaxRuns = 2
    MaxHarm = 1
    Steps <- MCSteps
    Caps = {0, 1, 2, 3, 4, 5}
    Passes = 3
    Rates = {1, 2}
    Costs = {1, 2}
    Original = Original
    NoVersion = NoVersion
    Stale = Stale
    Probed = Probed
    MaxOdd = 3
INVARIANTS
    NothingLeftBehind
    NumbersAreOwn
    OthersSurvive
    EveryoneIsAccountedFor
    ServerIsCurrent
    VerdictIsTrue
    StaircasesAgree
    PlainCellsAreCosts
\* The operator stops running the script.
CHECK_DEADLOCK FALSE
