CONSTANTS
  Configs <- ZConfigs
  Sections <- ZSections
  Feeders <- ZFeeders
  Switches <- ZSwitches
  Ties <- ZTies
  Ends <- ZEnds
  FeederOf <- ZFeederOf
  BreakerOf <- ZBreakerOf
  AvailableFeeders <- ZFeeders
  NormalClosed <- ZNormalClosed
  Monitored <- ZSwitches
  IdRank <- ZIdRank
  Load <- ZLoad
  Capacity <- ZCapacity
  FreshLimit = 2

SPECIFICATION Spec

INVARIANTS
  SupplyIsAWalk
  RadialMeansOneWay
  PermittedIsExact
PROPERTIES
  IsolationOutlastsOthers
