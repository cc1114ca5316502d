SPECIFICATION Spec
CONSTANTS
  StartAfter = 2
  ClimbAfter = 1
  HoldFor = 2
  MaxNews = 1
  MaxStops = 1
  MaxQuits = 1
INVARIANTS LaunchesInOrder SecondNotForgotten QuitAfterOrders
PROPERTY GentleHalts
CHECK_DEADLOCK FALSE
