\* Two runs of the driver, two passes over two candidates, two blocks a pass.
CONSTANTS
  CANDIDATES <- MCCandidates
  PASSES = 2
  MinBlocks = 2
  BeforePass = 2
  Readings <- MCReadings
  MaxFixture = 2
  MaxRuns = 2
SPECIFICATION Spec
INVARIANTS SplitIsByPass PassesAreLevel RealPointsOneWay ReadersAgree
CHECK_DEADLOCK FALSE
