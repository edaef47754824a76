\* Two refs in two rounds, run twice, with and without a kept --work.
SPECIFICATION Spec
CONSTANTS
    Refs = 2
    Modules <- MCModules
    Clocked = {"s3"}
    Rounds = 2
    Figures = {0, 1, 2, 3}
    MaxRuns = 2
    MaxMinute = 1
INVARIANTS
    ReadingsAreOurs
    RoundsAreEven
    MeasuresTheCommit
    SignedInOneMinute
    ChangesAreApart
\* The script is not run again.
CHECK_DEADLOCK FALSE
