\* Bus B may stay dead and full for ever; only Bus A (B_TO_A) is trusted.
CONSTANTS
  RawCapacity = 1
  EgressCapacity = 1
  RawBudget = 2
  EgressBudget = 2
  IngressBudget = 1
  MaxFrames = 3
  LiveDirections <- OnlyBToA
SPECIFICATION FairSpec
PROPERTY DirectionIndependence
PROPERTY LoopReturns
