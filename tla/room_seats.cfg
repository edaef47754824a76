\* Three clients for two seats and two speakers: seats change hands, rings
\* overflow and speakers are cancelled around broadcasts.
SPECIFICATION Spec
CONSTANTS
    c1 = c1
    c2 = c2
    c3 = c3
    f1 = f1
    f2 = f2
    Seats = 2
    Backlog = 1
    DropOldest = TRUE
    History = 0
    HistoryBytes = 0
    Conns = {c1, c2, c3}
    Streams = {c1}
    Speakers = {f1, f2}
    Nobody = Nobody
    MaxPosts = 2
    Binary = {2}
    Size <- UnitSizes
    MaxSits = 4
    MaxCancels = 1
SYMMETRY Swap
INVARIANTS
    RefsAreExact
    SeatsAreSound
    DeliveryIsExact
\* The posts and the seats run out.
CHECK_DEADLOCK FALSE
