SPECIFICATION CiSpec
CONSTANTS
  Checks = {"test", "harness-lint", "linux", "sdist", "fixtures"}
  Paths = {"manifest", "notices", "dependabot", "docs"}
  MaxFaults = 2
INVARIANTS
  GateMeansChecked
  GreenIsPublished
PROPERTIES
  GateReports
  PublishesOnlyWhatPassed
  RetriedReleaseEnds
\* The run is over.
CHECK_DEADLOCK FALSE
