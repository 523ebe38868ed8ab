SPECIFICATION Spec
CONSTANTS
  Processes = {p1, p2}
  Flow <- DemoFlow
  Backend = "DNSLINK_IPFS"
SYMMETRY ProcessSymmetry
CHECK_DEADLOCK FALSE
INVARIANTS TypeOK HeaderFirst HeaderOncePerRun CompletedRunsAreWhole PhasesWithinTotal OverheadIsTime
