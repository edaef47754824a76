\* Three requests at one instant, with a store that never fails and nothing
\* that runs out.
SPECIFICATION Spec
CONSTANTS
    Requests = {r1, r2, r3}
    Other = Nobody
    Body <- MCBody
    Nobody = Nobody
    MarkerTtl = 1
    AnswerTtl = 1
    MaxNow = 0
    Failing = FALSE
SYMMETRY Swap
CHECK_DEADLOCK FALSE
INVARIANTS
    OneRunAtATime
