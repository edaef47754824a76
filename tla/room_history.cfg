\* One event stream that leaves and comes back while two speakers go on, in
\* a room that keeps two posts and drops the newest, with fairness.  No
\* symmetry, since one of the properties is a liveness property.
SPECIFICATION FairSpec
CONSTANTS
    c1 = c1
    c2 = c2
    c3 = c3
    f1 = f1
    f2 = f2
    Seats = 1
    Backlog = 1
    DropOldest = FALSE
    History = 2
    HistoryBytes = 2
    Conns = {c1}
    Streams = {c1}
    Speakers = {f1, f2}
    Nobody = Nobody
    MaxPosts = 4
    Binary = {4}
    Size <- SecondIsBig
    MaxSits = 3
    MaxCancels = 0
INVARIANTS
    DeliveryIsExact
PROPERTIES
    NobodyIsStuck
\* The posts and the seats run out.
CHECK_DEADLOCK FALSE
