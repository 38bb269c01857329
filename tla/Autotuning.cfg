SPECIFICATION TuneSpec
CONSTANTS
  Ratios = {498, 500, 520}
  Capacities = {64}
  FixedCapacity = 16384
  HighRatio = 500
INVARIANTS
  BestOfStage
  StagesAgree
