\* Three callers on a Gate of one, with fairness: every race of a hand-over
\* with a timeout, a cancellation and a new arrival.  No symmetry, since one
\* of the properties is a liveness property.
SPECIFICATION FairSpec
CONSTANTS
    Callers = {c1, c2, c3}
    Nil = Nil
    Asked = 1
INVARIANTS
    TurnsAreKept
    LineInOrder
PROPERTIES
    OrderOfArrival
    KeepsItsPromise
    NobodyWaitsForEver
