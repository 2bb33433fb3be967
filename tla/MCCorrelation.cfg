CONSTANTS
  cause = cause
  effect = effect
  other = other
  Kinds <- MCKinds
  Signals <- MCSignals
  Times <- MCTimes
  Undated = Undated
  Window = 3600
  Gap = 300
  MinCluster = 3
  MinTimelineEvents = 3
  MaxTimelineEvents = 3
  MaxMatches = 5
SPECIFICATION Spec
INVARIANTS
  EveryMatchIsCounted
  BurstsSurviveAggregation
  CascadesAreOrdered
  LoneCascadesAreFound
CHECK_DEADLOCK FALSE
