CONSTANTS
  Configs <- MConfigs
  Sections <- MSections
  Feeders <- MFeeders
  Switches <- MSwitches
  Ties <- MTies
  Ends <- MEnds
  FeederOf <- MFeederOf
  BreakerOf <- MBreakerOf
  AvailableFeeders <- MFeeders
  NormalClosed <- MNormalClosed
  Monitored <- MSwitches
  IdRank <- MIdRank
  Load <- MLoad
  Capacity <- MCapacity
  FreshLimit = 0
  RunIds = {r1, r2}
  CommandIds = {c1}
  Times <- MCTimes
  FormalFault = "A2"
  IsolationSequence <- MSequence
  CorrectedConfig = "new"
  NoRun = NoRun

SPECIFICATION Spec
\* Both identities may be used up and the last run closed or aged out.
CHECK_DEADLOCK FALSE

SYMMETRY Identities

INVARIANTS
  OneMutableRun
  InvalidationEvidenced
PROPERTIES
  HistoryPreserved
  ImplementsSupplyRestoration
