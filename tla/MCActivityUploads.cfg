SPECIFICATION FairSpec
CONSTANTS
  a1 = a1
  a2 = a2
  a3 = a3
  c1 = c1
  c2 = c2
  d1 = d1
  d2 = d2
  e1 = e1
  e2 = e2
  None = None
  Activities <- ThreeActivities
  Collectors <- TwoCollectors
  Steady <- OneCollector
  Devices <- OneDevice
  Employees <- TwoEmployees
  Capacity = 2
INVARIANTS
  NothingLost
  NoGap
PROPERTIES
  QueueDrains
CHECK_DEADLOCK FALSE
