\* A request, its retry and one that shares their key by mistake, through
\* failing statements, dying processes and markers and answers that run out.
SPECIFICATION Spec
CONSTANTS
    Requests = {r1, r2, r3}
    Other = r3
    Body <- MCBody
    Nobody = Nobody
    MarkerTtl = 1
    AnswerTtl = 2
    MaxNow = 3
    Failing = TRUE
SYMMETRY Swap
CHECK_DEADLOCK FALSE
INVARIANTS
    OneRunBetweenThem
    ReplayIsOfTheSameRequest
    NoMarkerLeftBehind
PROPERTIES
    KeptUntilItExpires
