CONSTANTS
  Configs <- MConfigs
  Sections <- MSections
  Feeders <- MFeeders
  Switches <- MSwitches
  Ties <- MTies
  Ends <- MEnds
  FeederOf <- MFeederOf
  BreakerOf <- MBreakerOf
  AvailableFeeders <- MFeeders
  NormalClosed <- MNormalClosed
  Monitored <- MSwitches
  IdRank <- MIdRank
  Load <- MLoad
  Capacity <- MCapacity
  FreshLimit = 0
  RunIds = {"r1", "r2", "r3"}
  CommandIds = {"c0", "c1", "c2"}
  Times <- MCTimes
  FormalFault = "A2"
  IsolationSequence <- MSequence
  CorrectedConfig = "new"
  NoRun = NoRun
  Clients = {k1, k2}
  ClientIds = {"c1", "c2"}
  Openings <- MCOpenings
  Histories <- MCHistories
  NoResult = NoResult

SPECIFICATION LedgerSpec

SYMMETRY Callers

INVARIANTS
  ExactlyOnce
  OneWinnerPerRevision
  ReplacementFindsARun
