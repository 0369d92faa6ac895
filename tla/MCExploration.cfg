CONSTANTS
  Configs <- ZConfigs
  Sections <- ZSections
  Feeders <- ZFeeders
  Switches <- ZSwitches
  Ties <- ZTies
  Ends <- ZEnds
  FeederOf <- ZFeederOf
  BreakerOf <- ZBreakerOf
  AvailableFeeders <- ZFeeders
  NormalClosed <- ZNormalClosed
  Monitored <- ZSwitches
  IdRank <- ZIdRank
  Load <- ZLoad
  Capacity <- ZCapacity
  FreshLimit = 2
  RunIds = {r1}
  CommandIds = {c1}
  Times <- MCTimes
  FormalFault = "A2"
  IsolationSequence <- ZSequence
  CorrectedConfig = "v1_1"
  NoRun = NoRun

SPECIFICATION Spec
\* A run that has been executed, or has aged out, with no free identity to
\* reset into accepts no further command.
CHECK_DEADLOCK FALSE

INVARIANTS
  TypeOK
  FaultedSectionDead
  RestoredNetworkSound
  ProcedureWindow
  ReassessmentNeverPermits
  OffersAreAccepted
  EventsExplainTelemetry
  OutageIsCurrent
